---------------------------- MODULE CacheService ----------------------------
(***************************************************************************)
(* What the entry cache promises its callers, with no gates and no tables: *)
(* the file of a checksum is used by one call at a time; while a decached  *)
(* entry of a checksum exists it is the only one, and the only answer a    *)
(* call for that checksum can get.                                         *)
(***************************************************************************)
CONSTANTS Tasks, Checksums, Objects, NoTask, NoChecksum, NoObject

VARIABLES
    asked,   \* the checksum each call is about
    given,   \* the entry a call is going to answer with
    entry,   \* the decached entry of a checksum that exists
    file     \* the call that uses the file of a checksum

vars == <<asked, given, entry, file>>

Init ==
    /\ asked = [t \in Tasks |-> NoChecksum]
    /\ given = [t \in Tasks |-> NoObject]
    /\ entry = [c \in Checksums |-> NoObject]
    /\ file = [c \in Checksums |-> NoTask]

Ask(t, c) ==
    /\ asked[t] = NoChecksum
    /\ asked' = [asked EXCEPT ![t] = c]
    /\ UNCHANGED <<given, entry, file>>

Open(t, c) ==
    /\ asked[t] = c
    /\ file[c] = NoTask
    /\ file' = [file EXCEPT ![c] = t]
    /\ UNCHANGED <<asked, given, entry>>

\* A write that ended, well or not, or a read that failed.
Close(t, c) ==
    /\ file[c] = t
    /\ file' = [file EXCEPT ![c] = NoTask]
    /\ UNCHANGED <<asked, given, entry>>

\* A read that succeeded brings the entry of the checksum into existence.
Decache(t, c, o) ==
    /\ file[c] = t
    /\ entry[c] = NoObject
    /\ \A d \in Checksums : entry[d] # o
    /\ file' = [file EXCEPT ![c] = NoTask]
    /\ entry' = [entry EXCEPT ![c] = o]
    /\ given' = [given EXCEPT ![t] = o]
    /\ UNCHANGED asked

\* A read that needs no file.
Take(t, c) ==
    /\ asked[t] = c
    /\ given[t] = NoObject
    /\ entry[c] # NoObject
    /\ given' = [given EXCEPT ![t] = entry[c]]
    /\ UNCHANGED <<asked, entry, file>>

\* The call answers; other calls about the checksum may get the same answer.
Answer(t, c, S) ==
    /\ asked[t] = c
    /\ file[c] # t
    /\ asked' = [asked EXCEPT ![t] = NoChecksum]
    /\ \A u \in S : u # t /\ asked[u] = c /\ given[u] = NoObject
    /\ given' = [u \in Tasks |->
                    IF u = t THEN NoObject
                    ELSE IF u \in S THEN given[t] ELSE given[u]]
    /\ UNCHANGED <<entry, file>>

Forget(c) ==
    /\ entry[c] # NoObject
    /\ \A t \in Tasks : given[t] # entry[c]
    /\ entry' = [entry EXCEPT ![c] = NoObject]
    /\ UNCHANGED <<asked, given, file>>

Next ==
    \E c \in Checksums :
        \/ \E t \in Tasks :
            \/ Ask(t, c) \/ Open(t, c) \/ Close(t, c) \/ Take(t, c)
            \/ \E o \in Objects : Decache(t, c, o)
            \/ \E S \in SUBSET Tasks : Answer(t, c, S)
        \/ Forget(c)

Spec == Init /\ [][Next]_vars
=============================================================================
