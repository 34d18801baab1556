---------------------------- MODULE CacheJanitor ----------------------------
(***************************************************************************)
(* internal/tts/cache.go: the janitor walks the cache directory, and when  *)
(* it holds more than its cap removes files, least recently used first,    *)
(* until 90% of the cap is left.  It takes no lock: files are read (which  *)
(* touches them), written and replaced while it walks and while it removes *)
(* what it saw.  It also removes the temporary files of dead writers.      *)
(* (Its names differ from those of Synthesize: one module proves about     *)
(* both.)                                                                  *)
(***************************************************************************)
EXTENDS Integers, FiniteSets, Functions

CONSTANTS Paths,       \* cache paths
          Writers,     \* names of temporary files, which no cache path has
          Size,        \* Size[k]: bytes of the audio of k
          CacheMaxBytes,
          Hour,        \* ticks after which a temporary file is stale
          MaxUses,     \* bound: the last mtime
          MaxFaults    \* bound: crashes, and system calls on the cache that fail

ASSUME JanitorAssumption ==
  /\ IsFiniteSet(Paths) /\ Paths \cap Writers = {}
  /\ Size \in [Paths -> Nat \ {0}]
  /\ CacheMaxBytes \in Nat \ {0}
  /\ Hour \in Nat \ {0} /\ MaxUses \in Nat /\ MaxFaults \in Nat
  /\ Cardinality(Paths) <= MaxUses

\* Bug: the fraction upside down.
TargetInverted == (CacheMaxBytes * 10) \div 9

Target == (CacheMaxBytes \div 10) * 9
Bytes(S) == SumFunctionOnSet(Size, S)

VARIABLES files,     \* mtime of each file on disk
          tmps,      \* age in ticks of each temporary file on disk
          writing,   \* live writers: the key and the mtime their file will have
          uses,      \* the last mtime given
          phase,     \* the janitor: idle, walk or remove
          todo,      \* entries WalkDir has still to visit
          staleTmp,  \* temporary files already older than an hour at the start
          seen,      \* mtime of each file of the walk
          total,     \* size of the files of the walk, less what was removed
          fresh,     \* history: keys renamed into place since the sweep began
          stuck,     \* history: keys this sweep failed to remove
          missed,    \* history: keys this sweep could not read
          faults

dir == <<files, tmps, writing, uses>>
sweep == <<phase, todo, staleTmp, seen, total, stuck, missed>>
janitor == <<dir, sweep, fresh, faults>>

Nothing == [x \in {} |-> 0]
Put(f, x, v) == [y \in DOMAIN f \union {x} |-> IF y = x THEN v ELSE f[y]]
Drop(f, x) == Restrict(f, DOMAIN f \ {x})

\* The process starts over what earlier ones left in the cache directory.
JanitorInit == /\ \E S \in SUBSET Paths : files \in Injection(S, 1..Cardinality(Paths))
               /\ \E W \in SUBSET Writers : tmps \in [W -> 0..(Hour + 1)]
               /\ writing = Nothing
               /\ uses = Cardinality(Paths)
               /\ phase = "idle" /\ todo = {} /\ staleTmp = {}
               /\ seen = Nothing /\ total = 0
               /\ fresh = {} /\ stuck = {} /\ missed = {} /\ faults = 0

Fault == faults < MaxFaults /\ faults' = faults + 1
NextUse == uses < MaxUses /\ uses' = uses + 1

-----------------------------------------------------------------------------
(* The cache directory in use. *)

\* A hit sets the mtime of the file to now.
Touch(k) == /\ k \in DOMAIN files
            /\ NextUse
            /\ files' = Put(files, k, uses')
            /\ UNCHANGED <<tmps, writing, sweep, fresh, faults>>

\* writeFileAtomic, in three steps: the data goes to a temporary file, ...
CreateTemp(w, k) == /\ w \notin DOMAIN tmps
                    /\ NextUse
                    /\ tmps' = Put(tmps, w, 0)
                    /\ writing' = Put(writing, w, [key |-> k, mtime |-> uses'])
                    /\ UNCHANGED <<files, sweep, fresh, faults>>

\* ... which is renamed to its path when it is whole, ...
Rename(w) == /\ w \in DOMAIN writing
             /\ w \in DOMAIN tmps
             /\ files' = Put(files, writing[w].key, writing[w].mtime)
             /\ fresh' = fresh \union {writing[w].key}
             /\ tmps' = Drop(tmps, w)
             /\ writing' = Drop(writing, w)
             /\ UNCHANGED <<uses, sweep, faults>>

\* ... or removed, when a write, close or chmod fails.
TempFails(w) == /\ w \in DOMAIN writing
                /\ tmps' = Drop(tmps, w)
                /\ writing' = Drop(writing, w)
                /\ UNCHANGED <<files, uses, sweep, fresh, faults>>

\* A failed rename leaves the temporary file behind.
RenameFails(w) == /\ w \in DOMAIN writing
                  /\ Fault
                  /\ writing' = Drop(writing, w)
                  /\ UNCHANGED <<files, tmps, uses, sweep, fresh>>

\* Time passes.  A write of a few megabytes takes less than an hour.
Tick == /\ \E w \in DOMAIN tmps : tmps[w] <= Hour
        /\ \A w \in DOMAIN writing \cap DOMAIN tmps : tmps[w] < Hour
        /\ tmps' = [w \in DOMAIN tmps |->
                      IF tmps[w] <= Hour THEN tmps[w] + 1 ELSE tmps[w]]
        /\ UNCHANGED <<files, writing, uses, sweep, fresh, faults>>

-----------------------------------------------------------------------------
(* SweepCache. *)

\* Bug: every temporary file is taken for an abandoned one.
BeginSweepAllStale ==
  /\ phase = "idle"
  /\ phase' = "walk"
  /\ todo' = DOMAIN files \union DOMAIN tmps
  /\ staleTmp' = DOMAIN tmps
  /\ seen' = Nothing /\ total' = 0 /\ fresh' = {} /\ stuck' = {} /\ missed' = {}
  /\ UNCHANGED <<dir, faults>>

\* Bug: no temporary file is.
BeginSweepNoneStale ==
  /\ phase = "idle"
  /\ phase' = "walk"
  /\ todo' = DOMAIN files \union DOMAIN tmps
  /\ staleTmp' = {}
  /\ seen' = Nothing /\ total' = 0 /\ fresh' = {} /\ stuck' = {} /\ missed' = {}
  /\ UNCHANGED <<dir, faults>>

\* Bug: the total is kept from sweep to sweep.
BeginSweepKeepsTotal ==
  /\ phase = "idle"
  /\ phase' = "walk"
  /\ todo' = DOMAIN files \union DOMAIN tmps
  /\ staleTmp' = {w \in DOMAIN tmps : tmps[w] > Hour}
  /\ seen' = Nothing /\ fresh' = {} /\ stuck' = {} /\ missed' = {}
  /\ UNCHANGED <<total, dir, faults>>

BeginSweep ==
  /\ phase = "idle"
  /\ phase' = "walk"
  /\ todo' = DOMAIN files \union DOMAIN tmps
  /\ staleTmp' = {w \in DOMAIN tmps : tmps[w] > Hour}
  /\ seen' = Nothing /\ total' = 0 /\ fresh' = {} /\ stuck' = {} /\ missed' = {}
  /\ UNCHANGED <<dir, faults>>

\* WalkDir meets a file: one that was there when the sweep began, or one that
\* came since, which it may also miss.
Visit(k) == /\ phase = "walk"
            /\ k \in DOMAIN files \ DOMAIN seen
            /\ k \in (todo \union fresh) \ missed
            /\ seen' = Put(seen, k, files[k])
            /\ total' = total + Size[k]
            /\ todo' = todo \ {k}
            /\ UNCHANGED <<phase, staleTmp, stuck, missed, dir, fresh, faults>>

\* ... or a temporary file, gone or not.
VisitTmp(w) == /\ phase = "walk" /\ w \in todo
               /\ todo' = todo \ {w}
               /\ tmps' = IF w \in staleTmp THEN Drop(tmps, w) ELSE tmps
               /\ UNCHANGED <<phase, staleTmp, seen, total, stuck, missed>>
               /\ UNCHANGED <<files, writing, uses, fresh, faults>>

\* A stale one that will not go stays for the next sweep.
VisitTmpFails(w) == /\ phase = "walk" /\ w \in todo \cap staleTmp \cap DOMAIN tmps
                    /\ Fault
                    /\ todo' = todo \ {w}
                    /\ UNCHANGED <<phase, staleTmp, seen, total, stuck, missed>>
                    /\ UNCHANGED <<dir, fresh>>

\* Entries that cannot be read are skipped: one of them, or all that are in a
\* directory.  They are neither counted nor removed.
Skip(S) == /\ phase = "walk" /\ S # {} /\ S \subseteq todo
           /\ Fault
           /\ todo' = todo \ S
           /\ missed' = missed \union (S \cap Paths)
           /\ UNCHANGED <<phase, staleTmp, seen, total, stuck, dir, fresh>>

Decide == /\ phase = "walk" /\ todo = {}
          /\ phase' = IF total <= CacheMaxBytes THEN "idle" ELSE "remove"
          /\ UNCHANGED <<todo, staleTmp, seen, total, stuck, missed, dir, fresh, faults>>

\* Bug: files are removed in the order of the walk.
AnyCandidate(k) == phase = "remove" /\ total > Target /\ k \in DOMAIN seen

\* Bug: the loop removes one file too many.
CandidateOneMore(k) == /\ phase = "remove" /\ total + Size[k] > Target
                       /\ k \in DOMAIN seen
                       /\ \A j \in DOMAIN seen : seen[k] <= seen[j]

\* The loop's next file, in the order of the mtimes that the walk saw.
Candidate(k) == /\ phase = "remove" /\ total > Target
                /\ k \in DOMAIN seen
                /\ \A j \in DOMAIN seen : seen[k] <= seen[j]

Remove(k) == /\ Candidate(k)
             /\ files' = Drop(files, k)
             /\ total' = total - Size[k]
             /\ seen' = Drop(seen, k)
             /\ UNCHANGED <<phase, todo, staleTmp, stuck, missed>>
             /\ UNCHANGED <<tmps, writing, uses, fresh, faults>>

\* Bug: a file that could not be removed is counted as removed.
RemoveFailsCounted(k) ==
  /\ Candidate(k) /\ Fault
  /\ total' = total - Size[k]
  /\ seen' = Drop(seen, k)
  /\ stuck' = stuck \union {k}
  /\ UNCHANGED <<phase, todo, staleTmp, missed, dir, fresh>>

RemoveFails(k) == /\ Candidate(k) /\ Fault
                  /\ seen' = Drop(seen, k)
                  /\ stuck' = stuck \union {k}
                  /\ UNCHANGED <<phase, todo, staleTmp, total, missed, dir, fresh>>

EndSweep == /\ phase = "remove"
            /\ total <= Target \/ seen = Nothing
            /\ phase' = "idle"
            /\ UNCHANGED <<todo, staleTmp, seen, total, stuck, missed>>
            /\ UNCHANGED <<dir, fresh, faults>>

\* The process dies, and another one starts over the same directory.
Crash == /\ Fault
         /\ writing' = Nothing
         /\ phase' = "idle" /\ todo' = {} /\ staleTmp' = {}
         /\ seen' = Nothing /\ total' = 0 /\ stuck' = {} /\ missed' = {}
         /\ UNCHANGED <<files, tmps, uses, fresh>>

Sweep == \/ BeginSweep \/ Decide \/ EndSweep
         \/ \E k \in Paths : Visit(k) \/ Remove(k) \/ RemoveFails(k)
         \/ \E w \in Writers : VisitTmp(w) \/ VisitTmpFails(w)
         \/ \E S \in SUBSET todo : Skip(S)

Write(w) == Rename(w) \/ TempFails(w) \/ RenameFails(w)

JanitorNext == \/ Sweep \/ Tick \/ Crash
               \/ \E k \in Paths : Touch(k)
               \/ \E w \in Writers : Write(w)
               \/ \E w \in Writers, k \in Paths : CreateTemp(w, k)

JanitorSpec == JanitorInit /\ [][JanitorNext]_janitor

\* RunCacheJanitor sweeps at once and then at every interval, time passes, and
\* a write ends.
JanitorFairSpec == /\ JanitorSpec
                   /\ WF_janitor(Sweep) /\ WF_janitor(Tick)
                   /\ \A w \in Writers : WF_janitor(Write(w))

-----------------------------------------------------------------------------
(* Properties. *)

MTimes == 1..MaxUses

JanitorTypeOK == /\ DOMAIN files \subseteq Paths /\ Range(files) \subseteq MTimes
                 /\ DOMAIN tmps \subseteq Writers /\ Range(tmps) \subseteq 0..(Hour + 1)
                 /\ DOMAIN writing \subseteq Writers
                 /\ Range(writing) \subseteq [key : Paths, mtime : MTimes]
                 /\ uses \in 0..MaxUses
                 /\ phase \in {"idle", "walk", "remove"}
                 /\ todo \subseteq Paths \union Writers /\ staleTmp \subseteq Writers
                 /\ DOMAIN seen \subseteq Paths /\ Range(seen) \subseteq MTimes
                 /\ total \in 0..Bytes(Paths)
                 /\ fresh \subseteq Paths /\ stuck \subseteq Paths
                 /\ missed \subseteq Paths
                 /\ faults \in 0..MaxFaults

\* The janitor never takes a temporary file from under its writer, however
\* the walk and the write interleave: the rename finds what was written.
LiveTempSafe == DOMAIN writing \subseteq DOMAIN tmps

\* The running total is honest: while files are removed, it is what the files
\* of the walk still take, those that could not be removed included, and each
\* of these is still on disk.
TotalIsHonest ==
  phase = "remove" => /\ total = Bytes(DOMAIN seen \union stuck)
                      /\ DOMAIN seen \union stuck \subseteq DOMAIN files

\* A file is evicted only while the cache holds more than 90% of its cap.
EvictsOnlyBeyondTarget ==
  [][\A k \in DOMAIN files \ DOMAIN files' : Bytes(DOMAIN files) > Target]_janitor

\* When the walk saw it, an evicted file was the least recently used of all
\* those that stay, however they were used since, except what came during the
\* sweep, what could not be read and what could not be removed.
EvictsLeastRecent ==
  [][\A k \in DOMAIN files \ DOMAIN files' :
       \A j \in DOMAIN files' \ (fresh \union stuck \union missed) :
          seen[k] <= files[j]]_janitor

\* "until the cache is at most 90% of CacheMaxBytes": what a sweep leaves is
\* at most the cap, and 90% of it once it removed anything, beside what was
\* written during the sweep, what could not be read and what could not be
\* removed.
SweepMeetsCap ==
  [][phase # "idle" /\ phase' = "idle" /\ faults' = faults =>
       LET left == Bytes(DOMAIN files \ (fresh \union stuck \union missed))
       IN IF phase = "remove" THEN 10 * left <= 9 * CacheMaxBytes
          ELSE left <= CacheMaxBytes]_janitor

\* A temporary file that its writer left behind is removed in the end.
OrphansGo == \A w \in Writers :
               w \in DOMAIN tmps \ DOMAIN writing ~> w \notin DOMAIN tmps
=============================================================================
