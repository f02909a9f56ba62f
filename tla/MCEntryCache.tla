---------------------------- MODULE MCEntryCache ----------------------------
(***************************************************************************)
(* Instances of EntryCache for TLC.  There are two records and two objects *)
(* at least: a second one for a checksum must be possible for the          *)
(* properties to be able to fail.                                          *)
(***************************************************************************)
EXTENDS EntryCache, TLC

\* The fibers are interchangeable, and so are checksums, records and objects.
Symmetry ==
    Permutations(Tasks) \cup Permutations(Checksums)
        \cup Permutations(Records) \cup Permutations(Objects)
=============================================================================
