---------------------------- MODULE AsyncTexture ----------------------------
(***************************************************************************)
(* Textures that load themselves, src/src/bz-async-texture.c: an object is *)
(* asked for its image when it is painted, loads it in a fiber from a      *)
(* cached file or from its source, counts the loads that failed, and       *)
(* shares what it has loaded with other objects for the same source.  The  *)
(* image decoder and the clock are external.                               *)
(*                                                                         *)
(* cache_acquired and a paintable are set together, so one variable,       *)
(* shown, stands for both.  Left out: the two limits on loads that are in  *)
(* progress (their guards are those of EntryCache), the size that is known *)
(* before the image, and bz_async_texture_cancel, which nothing calls.     *)
(***************************************************************************)
EXTENDS Integers

CONSTANTS
    Textures,
    Sources,        \* source_uri
    MaxRetries      \* MAX_LOAD_RETRIES

ASSUME RetriesAssumption == MaxRetries \in Nat \ {0}

VARIABLES
    made,       \* the textures that were made
    alive,      \* those of them that are not disposed of
    http,       \* the sources that are on the network
    source,     \* the source of each texture
    cached,     \* those with a cache_into
    shown,      \* those that have a paintable
    task,       \* those whose task is pending
    retries,
    timer,      \* those whose retry_future is pending
    pc,         \* where the fiber of each texture is
    file,       \* each file
    mark,       \* its ".bz-async-texture-data": a stale one is not accepted
    downloads,  \* how many downloads to the file the workers have
    cache       \* texture_cache, by source

parameters == <<made, http, source, cached>>
vars == <<parameters, alive, shown, task, retries, timer, pc, file, mark,
          downloads, cache>>
objectVars == <<parameters, alive, shown, task, retries, timer, cache>>
fileVars == <<file, mark, downloads>>

Places == {"none", "querying", "reviving", "reaping", "preparing", "fetching",
           "downloading", "decoding", "marking", "loaded", "failed"}
Contents == {"absent", "partial", "whole"}
Marks == {"absent", "fresh", "stale"}

\* What is written: a cached file per source, a temporary one per texture.
Files == Sources \cup Textures

TypeOK ==
    /\ made \subseteq Textures
    /\ alive \subseteq made
    /\ http \subseteq Sources
    /\ source \in [Textures -> Sources]
    /\ cached \subseteq Textures
    /\ shown \subseteq Textures
    /\ task \subseteq Textures
    /\ retries \in [Textures -> 0..MaxRetries]
    /\ timer \subseteq Textures
    /\ pc \in [Textures -> Places]
    /\ file \in [Files -> Contents]
    /\ mark \in [Files -> Marks]
    /\ downloads \in [Files -> Nat]
    /\ cache \in [Sources -> {"none", "held", "lingering"}]

\* Cached files are there from earlier sessions.
Init ==
    /\ made = {} /\ alive = {} /\ cached = {}
    /\ http \in SUBSET Sources
    /\ source \in [Textures -> Sources]
    /\ shown = {}
    /\ task = {}
    /\ retries = [t \in Textures |-> 0]
    /\ timer = {}
    /\ pc = [t \in Textures |-> "none"]
    /\ file \in {c \in [Files -> Contents] : \A t \in Textures \ Sources : c[t] = "absent"}
    /\ mark \in {m \in [Files -> Marks] : \A t \in Textures \ Sources : m[t] = "absent"}
    /\ downloads = [f \in Files |-> 0]
    /\ cache = [s \in Sources |-> "none"]

-----------------------------------------------------------------------------
OnNetwork(t) == source[t] \in http
FileOf(t) == IF t \in cached THEN source[t] ELSE t

Wanting(t) == t \notin shown /\ t \notin task /\ retries[t] < MaxRetries

\* maybe_load: nothing to do, or another texture has loaded the source, or a
\* fiber begins.
MaybeLoad(t) ==
    \/ /\ ~ Wanting(t)
       /\ UNCHANGED <<shown, task, pc, cache>>
    \/ /\ Wanting(t) /\ cache[source[t]] # "none"
       /\ shown' = shown \cup {t}
       /\ cache' = [cache EXCEPT ![source[t]] = "held"]
       /\ UNCHANGED <<task, pc>>
    \/ /\ Wanting(t) /\ cache[source[t]] = "none"
       /\ task' = task \cup {t}
       /\ pc' = [pc EXCEPT ![t] = "querying"]
       /\ UNCHANGED <<shown, cache>>

\* bz_async_texture_new and its variants; one that is not lazy loads at once.
\* Nothing but source and cache_into is known of the arguments.
Make(t, cacheInto, lazy) ==
    /\ t \notin made
    /\ made' = made \cup {t}
    /\ alive' = alive \cup {t}
    /\ cached' = IF cacheInto THEN cached \cup {t} ELSE cached
    /\ IF lazy THEN UNCHANGED <<shown, task, pc, cache>> ELSE MaybeLoad(t)
    /\ UNCHANGED <<http, source, retries, timer, fileVars>>

\* The texture is asked for its image or its size: the functions of
\* GdkPaintable, dup_future and ensure.
Paint(t) ==
    /\ t \in alive
    /\ MaybeLoad(t)
    /\ UNCHANGED <<parameters, alive, retries, timer, fileVars>>

\* The retry_future is a dex_future_then of a timeout.  A timeout rejects (the
\* fiber below relies on it), and dex_future_then calls its function for a
\* future that resolves: the future ends, and retry_cb is not called.
RetryTimer(t) ==
    /\ t \in timer
    /\ timer' = timer \ {t}
    /\ UNCHANGED <<parameters, alive, shown, task, retries, pc, cache, fileVars>>

\* Mutant: the entry is not released.
DisposeHolding(t) ==
    /\ t \in alive
    /\ alive' = alive \ {t}
    /\ task' = task \ {t}
    /\ timer' = timer \ {t}
    /\ UNCHANGED <<parameters, shown, retries, pc, cache, fileVars>>

\* bz_async_texture_dispose, with texture_cache_release: the entry goes after
\* a while, whoever else has acquired it.
Dispose(t) ==
    /\ t \in alive
    /\ alive' = alive \ {t}
    /\ task' = task \ {t}
    /\ timer' = timer \ {t}
    /\ cache' = IF t \in shown /\ cache[source[t]] # "none"
                THEN [cache EXCEPT ![source[t]] = "lingering"] ELSE cache
    /\ UNCHANGED <<parameters, shown, retries, pc, fileVars>>

\* linger_timeout_finally.
Evict(s) ==
    /\ cache[s] = "lingering"
    /\ cache' = [cache EXCEPT ![s] = "none"]
    /\ UNCHANGED <<parameters, alive, shown, task, retries, timer, pc, fileVars>>

-----------------------------------------------------------------------------
Goto(t, place) == pc' = [pc EXCEPT ![t] = place]

\* load_fiber_work.  Is there a cached file, and is it new?
Query(t) ==
    /\ pc[t] = "querying"
    /\ LET f == FileOf(t)
       IN Goto(t, IF t \notin cached \/ file[f] = "absent" \/ mark[f] = "absent"
                  THEN "preparing"
                  ELSE IF mark[f] = "fresh" THEN "reviving" ELSE "reaping")
    /\ UNCHANGED <<objectVars, fileVars>>

\* The decoder takes a file that is whole, but may fail at any; a frame may
\* have no texture.
Revive(t) ==
    /\ pc[t] = "reviving"
    /\ \/ file[FileOf(t)] = "whole" /\ \E end \in {"loaded", "failed"} : Goto(t, end)
       \/ Goto(t, "reaping")
    /\ UNCHANGED <<objectVars, fileVars>>

\* The cached file is deleted, if that can be done.
Reap(t) ==
    /\ pc[t] = "reaping"
    /\ file' \in {file, [file EXCEPT ![FileOf(t)] = "absent"]}
    /\ Goto(t, "preparing")
    /\ UNCHANGED <<objectVars, mark, downloads>>

\* The directory of the cached file is made, or a temporary file, a new one
\* each time: what an earlier download does to its own is of no interest.
Prepare(t) ==
    /\ pc[t] = "preparing"
    /\ \/ Goto(t, "fetching")
       \/ (t \in cached \/ OnNetwork(t)) /\ Goto(t, "failed")
    /\ IF OnNetwork(t) /\ t \notin cached
       THEN /\ file' = [file EXCEPT ![FileOf(t)] = "partial"]
            /\ downloads' = [downloads EXCEPT ![FileOf(t)] = 0]
       ELSE UNCHANGED <<file, downloads>>
    /\ UNCHANGED <<objectVars, mark>>

\* bz_download_worker_invoke.
Download(t) ==
    /\ pc[t] = "fetching" /\ OnNetwork(t)
    /\ downloads' = [downloads EXCEPT ![FileOf(t)] = @ + 1]
    /\ Goto(t, "downloading")
    /\ UNCHANGED <<objectVars, file, mark>>

\* g_file_copy.
Copy(t) ==
    /\ pc[t] = "fetching" /\ t \in cached /\ ~ OnNetwork(t)
    /\ \/ file' = [file EXCEPT ![FileOf(t)] = "whole"] /\ Goto(t, "decoding")
       \/ /\ file' \in {file, [file EXCEPT ![FileOf(t)] = "partial"]}
          /\ Goto(t, "failed")
    /\ UNCHANGED <<objectVars, mark, downloads>>

\* The source itself is decoded.
Direct(t) ==
    /\ pc[t] = "fetching" /\ t \notin cached /\ ~ OnNetwork(t)
    /\ Goto(t, "decoding")
    /\ UNCHANGED <<objectVars, fileVars>>

\* Mutant: the fiber awaits the download alone.
TimeoutNever(t) ==
    /\ FALSE
    /\ Goto(t, "failed")
    /\ UNCHANGED <<objectVars, fileVars>>

\* dex_timeout_new_seconds, before there is an answer.
Timeout(t) ==
    /\ pc[t] = "downloading"
    /\ Goto(t, "failed")
    /\ UNCHANGED <<objectVars, fileVars>>

\* What the decoder is given.
Readable(t) == (t \in cached \/ OnNetwork(t)) => file[FileOf(t)] = "whole"

\* A temporary file is deleted once it was decoded.
Decode(t) ==
    /\ pc[t] = "decoding"
    /\ \/ Readable(t) /\ Goto(t, IF t \in cached THEN "marking" ELSE "loaded")
       \/ Goto(t, "failed")
    /\ file' = IF OnNetwork(t) /\ t \notin cached
               THEN [file EXCEPT ![FileOf(t)] = "absent"] ELSE file
    /\ UNCHANGED <<objectVars, mark, downloads>>

\* The birth of the cached file is written down, if that can be done.
Mark(t) ==
    /\ pc[t] = "marking"
    /\ mark' \in {mark} \cup {[mark EXCEPT ![FileOf(t)] = m] : m \in {"fresh", "stale"}}
    /\ \E end \in {"loaded", "failed"} : Goto(t, end)
    /\ UNCHANGED <<objectVars, file, downloads>>

\* load_finally, where the fiber was successful: texture_cache_store.
FinallyLoaded(t) ==
    /\ pc[t] = "loaded" /\ t \in alive
    /\ task' = task \ {t}
    /\ shown' = shown \cup {t}
    /\ cache' = [cache EXCEPT ![source[t]] = "held"]
    /\ Goto(t, "none")
    /\ UNCHANGED <<parameters, alive, retries, timer, fileVars>>

\* load_finally, where it failed.
FinallyFailed(t) ==
    /\ pc[t] = "failed" /\ t \in alive
    /\ task' = task \ {t}
    /\ IF retries[t] < MaxRetries
       THEN /\ retries' = [retries EXCEPT ![t] = @ + 1]
            /\ timer' = timer \cup {t}
       ELSE UNCHANGED <<retries, timer>>
    /\ Goto(t, "none")
    /\ UNCHANGED <<parameters, alive, shown, cache, fileVars>>

\* The fiber of a texture that is disposed of goes on, or is stopped where it
\* waits next; nobody hears of its end.
Unheard(t) ==
    /\ pc[t] # "none" /\ t \notin alive
    /\ Goto(t, "none")
    /\ UNCHANGED <<objectVars, fileVars>>

\* A download has ended: it replaces the file in one step, or leaves a part
\* of it.  The answer is for a fiber that awaits the file; for none when that
\* has timed out, or when a later call took its place at the worker.
DownloadEnds(f, success) ==
    /\ downloads[f] > 0
    /\ downloads' = [downloads EXCEPT ![f] = @ - 1]
    /\ file' \in IF success THEN {[file EXCEPT ![f] = "whole"]}
                 ELSE {file, [file EXCEPT ![f] = "partial"]}
    /\ \/ UNCHANGED pc
       \/ \E t \in Textures :
             /\ pc[t] = "downloading" /\ FileOf(t) = f
             /\ Goto(t, IF success THEN "decoding" ELSE "failed")
    /\ UNCHANGED <<objectVars, mark>>

\* A day goes by.
Age(f) ==
    /\ mark[f] = "fresh"
    /\ mark' = [mark EXCEPT ![f] = "stale"]
    /\ UNCHANGED <<objectVars, pc, file, downloads>>

-----------------------------------------------------------------------------
LoadStep(t) ==
    \/ Query(t) \/ Revive(t) \/ Reap(t) \/ Prepare(t)
    \/ Download(t) \/ Copy(t) \/ Direct(t) \/ Timeout(t)
    \/ Decode(t) \/ Mark(t) \/ FinallyLoaded(t) \/ FinallyFailed(t)

Next ==
    \/ \E t \in Textures :
          \/ \E cacheInto, lazy \in BOOLEAN : Make(t, cacheInto, lazy)
          \/ Paint(t) \/ RetryTimer(t) \/ Dispose(t)
          \/ LoadStep(t) \/ Unheard(t)
    \/ \E s \in Sources : Evict(s)
    \/ \E f \in Files : Age(f) \/ \E success \in BOOLEAN : DownloadEnds(f, success)

Spec == Init /\ [][Next]_vars

\* Fibers are served; downloads need not end, and nobody need
\* paint a texture again.
FairSpec ==
    /\ Spec
    /\ \A t \in Textures : WF_vars(LoadStep(t))

-----------------------------------------------------------------------------
\* An entry of the table of textures that no timeout will remove is there
\* for a texture that exists: although releases are not counted, what is
\* loaded does not stay in memory for ever.  texture_cache_acquire, _store
\* and _release.
NoLeak ==
    \A s \in Sources :
        cache[s] = "held" => \E t \in alive \cap shown : source[t] = s

\* One load at a time: a texture has a pending task exactly while its fiber
\* is somewhere, and what it shows is never loaded again, however often it
\* is painted.  maybe_load and load_finally.
OneLoad ==
    \A t \in alive :
        /\ t \in task <=> pc[t] # "none"
        /\ t \in shown => t \notin task

\* The inductive invariant: only what exists has tasks, a load that runs may
\* still fail once, and nothing is known of a texture before it is made.
IInv ==
    /\ TypeOK /\ NoLeak /\ OneLoad
    /\ task \cup timer \subseteq alive
    /\ \A t \in task : retries[t] < MaxRetries
    /\ \A t \in Textures \ made : pc[t] = "none" /\ t \notin shown

\* Every load ends, in an image or in one more failure that counts, though a
\* download may never be answered: it may hang, or a call for the same file
\* may have taken its place at the worker.  load_fiber_work, load_finally.
LoadEnds ==
    \A t \in Textures, n \in 0..MaxRetries - 1 :
        (t \in task /\ retries[t] = n) ~> (t \in shown \/ retries[t] > n \/ t \notin alive)

\* "Retrying in %d seconds" (bz-async-texture.c:1070): when the second that
\* load_finally announced is over, the texture loads again, or shows an image.
AnnouncedRetry == [][\A t \in timer \ timer' : t \in alive' => t \in task' \cup shown']_vars
=============================================================================
