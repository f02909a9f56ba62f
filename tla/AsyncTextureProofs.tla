------------------------- MODULE AsyncTextureProofs -------------------------
(***************************************************************************)
(* Proofs about AsyncTexture: its invariant, and that the table of         *)
(* textures keeps nothing for a texture that does not exist.               *)
(***************************************************************************)
EXTENDS AsyncTexture, TLAPS

\* Nothing is loaded, shown or held before a texture is made.
LEMMA InitInv == Init => IInv
<1> SUFFICES ASSUME Init PROVE IInv
    OBVIOUS
<1> USE RetriesAssumption DEF Init
<1>1. TypeOK
    BY DEF TypeOK, Places, Contents, Marks, Files
<1>2. NoLeak /\ OneLoad
    BY DEF NoLeak, OneLoad
<1> QED
    BY <1>1, <1>2 DEF IInv

\* What maybe_load leaves alone, and what it may do to the texture.
LEMMA MaybeLoadStep ==
    ASSUME NEW t \in Textures, MaybeLoad(t),
           shown \subseteq Textures, task \subseteq Textures,
           source \in [Textures -> Sources],
           pc \in [Textures -> Places],
           cache \in [Sources -> {"none", "held", "lingering"}]
    PROVE  /\ shown' \subseteq Textures
           /\ task' \subseteq Textures
           /\ pc' \in [Textures -> Places]
           /\ cache' \in [Sources -> {"none", "held", "lingering"}]
           /\ \A u \in Textures \ {t} :
                 /\ u \in shown' <=> u \in shown
                 /\ u \in task' <=> u \in task
                 /\ pc'[u] = pc[u]
           /\ \/ UNCHANGED <<shown, task, pc, cache>>
              \/ /\ t \notin task /\ UNCHANGED <<task, pc>>
                 /\ shown' = shown \cup {t}
                 /\ \A s \in Sources \ {source[t]} : cache'[s] = cache[s]
              \/ /\ t \notin shown /\ t \notin task /\ retries[t] < MaxRetries
                 /\ task' = task \cup {t} /\ pc'[t] = "querying"
                 /\ UNCHANGED <<shown, cache>>
<1>1. CASE ~ Wanting(t)
    BY <1>1 DEF MaybeLoad
<1>2. CASE Wanting(t) /\ cache[source[t]] # "none"
    BY <1>2 DEF MaybeLoad, Wanting
<1>3. CASE Wanting(t) /\ cache[source[t]] = "none"
    BY <1>3 DEF MaybeLoad, Wanting, Places
<1> QED
    BY <1>1, <1>2, <1>3

\* The invariant is kept by every texture that is asked for its image.
LEMMA MakeInv ==
    ASSUME IInv, NEW t \in Textures, NEW cacheInto \in BOOLEAN,
           NEW lazy \in BOOLEAN, Make(t, cacheInto, lazy)
    PROVE  IInv'
<1> USE DEF Make
<1>1. CASE lazy
  <2> USE <1>1
  <2>1. TypeOK'
    BY DEF IInv, TypeOK, fileVars
  <2>2. NoLeak'
    BY DEF IInv, NoLeak, TypeOK
  <2>3. OneLoad'
    BY DEF IInv, OneLoad, TypeOK
  <2> QED
    BY <2>1, <2>2, <2>3 DEF IInv, TypeOK
<1>2. CASE ~ lazy
  <2>1. MaybeLoad(t)
    BY <1>2
  <2>2. TypeOK'
    BY <2>1, MaybeLoadStep DEF IInv, TypeOK, fileVars
  <2>3. NoLeak'
    BY <2>1, MaybeLoadStep DEF IInv, NoLeak, TypeOK
  <2>4. OneLoad'
    BY <2>1, MaybeLoadStep DEF IInv, OneLoad, TypeOK
  <2>5. (\A u \in task : retries[u] < MaxRetries)' /\ (task \cup timer \subseteq alive)'
    BY <2>1, MaybeLoadStep DEF IInv, TypeOK
  <2>6. (\A u \in Textures \ made : pc[u] = "none" /\ u \notin shown)'
    BY <2>1, MaybeLoadStep DEF IInv, TypeOK
  <2> QED
    BY <2>2, <2>3, <2>4, <2>5, <2>6 DEF IInv
<1> QED
    BY <1>1, <1>2

\* The same for a texture that was made before.
LEMMA PaintInv ==
    ASSUME IInv, NEW t \in Textures, Paint(t)
    PROVE  IInv'
<1> USE DEF Paint
<1>1. MaybeLoad(t)
    OBVIOUS
<1>2. TypeOK'
    BY <1>1, MaybeLoadStep DEF IInv, TypeOK, fileVars, parameters
<1>3. NoLeak'
    BY <1>1, MaybeLoadStep DEF IInv, NoLeak, TypeOK, parameters
<1>4. OneLoad'
    BY <1>1, MaybeLoadStep DEF IInv, OneLoad, TypeOK
<1>5. (\A u \in task : retries[u] < MaxRetries)' /\ (task \cup timer \subseteq alive)'
    BY <1>1, MaybeLoadStep DEF IInv, TypeOK
<1>6. (\A u \in Textures \ made : pc[u] = "none" /\ u \notin shown)'
    BY <1>1, MaybeLoadStep DEF IInv, TypeOK, parameters
<1> QED
    BY <1>2, <1>3, <1>4, <1>5, <1>6 DEF IInv

\* A texture that is disposed of leaves its entry to a timeout, and an entry
\* that is held for another texture is held for that one still.
LEMMA DisposeInv ==
    ASSUME IInv, NEW t \in Textures, Dispose(t)
    PROVE  IInv'
<1> USE DEF Dispose, parameters
<1>1. TypeOK'
    BY DEF IInv, TypeOK, fileVars
<1>2. NoLeak'
  <2> SUFFICES ASSUME NEW s \in Sources, cache'[s] = "held"
               PROVE  \E u \in alive' \cap shown' : source'[u] = s
    BY DEF NoLeak
  <2>1. cache[s] = "held" /\ ~ (t \in shown /\ source[t] = s)
    BY DEF IInv, TypeOK
  <2>2. PICK u \in alive \cap shown : source[u] = s
    BY <2>1 DEF IInv, NoLeak
  <2> QED
    BY <2>1, <2>2
<1>3. OneLoad'
    BY DEF IInv, OneLoad, TypeOK
<1> QED
    BY <1>1, <1>2, <1>3 DEF IInv, TypeOK

\* An entry that lingers is removed.
LEMMA EvictInv ==
    ASSUME IInv, NEW s \in Sources, Evict(s)
    PROVE  IInv'
<1> USE DEF Evict, parameters
<1>1. TypeOK'
    BY DEF IInv, TypeOK, fileVars
<1>2. NoLeak'
    BY DEF IInv, NoLeak, TypeOK
<1>3. OneLoad'
    BY DEF IInv, OneLoad
<1> QED
    BY <1>1, <1>2, <1>3 DEF IInv

\* A fiber that goes from one place to another while it loads disturbs nothing
\* but its own file.
LEMMA MoveInv ==
    ASSUME IInv, NEW t \in Textures, NEW place \in Places \ {"none"},
           pc[t] # "none", Goto(t, place), UNCHANGED objectVars,
           file' \in [Files -> Contents], mark' \in [Files -> Marks],
           downloads' \in [Files -> Nat]
    PROVE  IInv'
<1> USE DEF Goto, objectVars, parameters
<1>1. TypeOK'
    BY DEF IInv, TypeOK
<1>2. NoLeak'
    BY DEF IInv, NoLeak
<1>3. OneLoad'
    BY DEF IInv, OneLoad, TypeOK
<1>4. (\A u \in Textures \ made : pc[u] = "none" /\ u \notin shown)'
    BY DEF IInv, TypeOK
<1> QED
    BY <1>1, <1>2, <1>3, <1>4 DEF IInv

\* Each step of load_fiber_work is such a move.
LEMMA FiberInv ==
    ASSUME IInv, NEW t \in Textures,
           \/ Query(t) \/ Revive(t) \/ Reap(t) \/ Prepare(t)
           \/ Download(t) \/ Copy(t) \/ Direct(t) \/ Timeout(t)
           \/ Decode(t) \/ Mark(t)
    PROVE  IInv'
<1>1. /\ file \in [Files -> Contents] /\ mark \in [Files -> Marks]
      /\ downloads \in [Files -> Nat] /\ FileOf(t) \in Files
    BY DEF IInv, TypeOK, FileOf, Files
<1> SUFFICES \E place \in Places \ {"none"} :
                /\ pc[t] # "none" /\ Goto(t, place) /\ UNCHANGED objectVars
                /\ file' \in [Files -> Contents] /\ mark' \in [Files -> Marks]
                /\ downloads' \in [Files -> Nat]
    BY MoveInv
<1> USE <1>1 DEF Places, Contents, Marks, fileVars
<1>2. CASE Query(t)
  <2>1. PICK place \in {"preparing", "reviving", "reaping"} : Goto(t, place)
    BY <1>2 DEF Query
  <2> QED
    BY <1>2, <2>1 DEF Query
<1>3. CASE Revive(t)
    BY <1>3 DEF Revive
<1>4. CASE Reap(t)
    BY <1>4 DEF Reap
<1>5. CASE Prepare(t)
    BY <1>5 DEF Prepare
<1>6. CASE Download(t)
    BY <1>6 DEF Download
<1>7. CASE Copy(t)
    BY <1>7 DEF Copy
<1>8. CASE Direct(t)
    BY <1>8 DEF Direct
<1>9. CASE Timeout(t)
    BY <1>9 DEF Timeout
<1>10. CASE Decode(t)
  <2>1. PICK place \in {"marking", "loaded", "failed"} : Goto(t, place)
    BY <1>10 DEF Decode
  <2> QED
    BY <1>10, <2>1 DEF Decode
<1>11. CASE Mark(t)
    BY <1>11 DEF Mark
<1> QED
    BY <1>2, <1>3, <1>4, <1>5, <1>6, <1>7, <1>8, <1>9, <1>10, <1>11

\* The end of a load, of a texture that was disposed of too.
LEMMA EndInv ==
    ASSUME IInv, NEW t \in Textures,
           FinallyLoaded(t) \/ FinallyFailed(t) \/ Unheard(t)
    PROVE  IInv'
<1> USE DEF Goto, parameters, fileVars
<1>1. CASE FinallyLoaded(t)
  <2> USE <1>1 DEF FinallyLoaded
  <2>1. TypeOK'
    BY DEF IInv, TypeOK, Places
  <2>2. NoLeak'
    BY DEF IInv, NoLeak, TypeOK
  <2>3. OneLoad'
    BY DEF IInv, OneLoad, TypeOK
  <2> QED
    BY <2>1, <2>2, <2>3 DEF IInv, TypeOK
<1>2. CASE FinallyFailed(t)
  <2> USE <1>2 DEF FinallyFailed
  <2>1. TypeOK'
    BY RetriesAssumption DEF IInv, TypeOK, Places
  <2>2. NoLeak'
    BY DEF IInv, NoLeak, TypeOK
  <2>3. OneLoad'
    BY DEF IInv, OneLoad, TypeOK
  <2> QED
    BY <2>1, <2>2, <2>3 DEF IInv, TypeOK
<1>3. CASE Unheard(t)
  <2> USE <1>3 DEF Unheard, objectVars
  <2>1. TypeOK'
    BY DEF IInv, TypeOK, Places
  <2>2. NoLeak'
    BY DEF IInv, NoLeak, TypeOK
  <2>3. OneLoad'
    BY DEF IInv, OneLoad, TypeOK
  <2> QED
    BY <2>1, <2>2, <2>3 DEF IInv, TypeOK
<1> QED
    BY <1>1, <1>2, <1>3

\* A download, answered or not, and the clock.
LEMMA OutsideInv ==
    ASSUME IInv, NEW f \in Files,
           Age(f) \/ \E success \in BOOLEAN : DownloadEnds(f, success)
    PROVE  IInv'
<1>1. CASE Age(f)
  <2> USE <1>1 DEF Age, objectVars, parameters
  <2>1. TypeOK'
    BY DEF IInv, TypeOK, Marks
  <2> QED
    BY <2>1 DEF IInv, NoLeak, OneLoad
<1>2. ASSUME NEW success \in BOOLEAN, DownloadEnds(f, success)
      PROVE  IInv'
  <2>1. /\ file' \in [Files -> Contents] /\ mark' \in [Files -> Marks]
        /\ downloads' \in [Files -> Nat]
    BY <1>2 DEF DownloadEnds, IInv, TypeOK, Contents
  <2>2. CASE UNCHANGED pc
    <3> USE <1>2, <2>2 DEF DownloadEnds, objectVars, parameters
    <3>1. TypeOK'
      BY <2>1 DEF IInv, TypeOK
    <3> QED
      BY <3>1 DEF IInv, NoLeak, OneLoad
  <2>3. CASE \E t \in Textures :
                /\ pc[t] = "downloading" /\ FileOf(t) = f
                /\ Goto(t, IF success THEN "decoding" ELSE "failed")
    <3>1. PICK t \in Textures, place \in {"decoding", "failed"} :
             pc[t] = "downloading" /\ Goto(t, place)
      BY <2>3
    <3> QED
      BY <1>2, <2>1, <3>1, MoveInv DEF DownloadEnds, Places
  <2> QED
    BY <1>2, <2>2, <2>3 DEF DownloadEnds
<1> QED
    BY <1>1, <1>2

\* Every step keeps the invariant.
LEMMA NextInv == IInv /\ [Next]_vars => IInv'
<1> SUFFICES ASSUME IInv, [Next]_vars PROVE IInv'
    OBVIOUS
<1>1. CASE UNCHANGED vars
    BY <1>1 DEF vars, parameters, IInv, TypeOK, NoLeak, OneLoad
<1>2. ASSUME NEW t \in Textures, RetryTimer(t) PROVE IInv'
    BY <1>2 DEF RetryTimer, parameters, fileVars, IInv, TypeOK, NoLeak, OneLoad
<1>3. ASSUME NEW t \in Textures, LoadStep(t) PROVE IInv'
    BY <1>3, FiberInv, EndInv DEF LoadStep
<1> QED
    BY <1>1, <1>2, <1>3, MakeInv, PaintInv, DisposeInv, EvictInv, EndInv, OutsideInv
    DEF Next

\* For any textures, sources and number of retries the invariant holds: a
\* texture loads at most once at a time, never after it has an image and never
\* after its last retry.  maybe_load, load_finally.
THEOREM TextureInvariant == Spec => []IInv
<1> QED
    BY InitInv, NextInv, PTL DEF Spec

\* An entry of the table of textures that nothing will remove belongs to a
\* texture that exists, for any number of textures that share sources and
\* come and go.  texture_cache_acquire, _store, _release.
THEOREM NoLeakTheorem == Spec => []NoLeak
<1>1. IInv => NoLeak
    BY DEF IInv
<1> QED
    BY TextureInvariant, <1>1, PTL

\* A texture never loads twice at a time, nor what it shows already, however
\* often it is painted, fails and is disposed of.  maybe_load, load_finally.
THEOREM OneLoadTheorem == Spec => []OneLoad
<1>1. IInv => OneLoad
    BY DEF IInv
<1> QED
    BY TextureInvariant, <1>1, PTL
=============================================================================
