----------------------------- MODULE MCEntryGroup -----------------------------
(***************************************************************************)
(* An instance of EntryGroup for TLC: an application that a remote offers  *)
(* to the user and that came to the system as a bundle, which is the less  *)
(* useful of the two, so that a name moves when it was there before the    *)
(* other.  The last session has left nothing, or the files of an           *)
(* application that was installed and of a bundle that was not.            *)
(***************************************************************************)
EXTENDS EntryGroup

CONSTANTS e1, e2

RemoteFirst == [e \in Entries |-> IF e = e1 THEN 1 ELSE 0]
Files(mark) == [e \in Entries |-> IF e = e1 THEN mark ELSE NoObject.mark]
EmptyOrBoth ==
    {[ids |-> <<>>, file |-> Files(NoObject.mark)],
     [ids |-> <<e1, e2>>, file |-> Files([installed |-> TRUE, again |-> TRUE])]}
=============================================================================
