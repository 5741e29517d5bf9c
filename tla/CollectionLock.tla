--------------------------- MODULE CollectionLock ---------------------------
(***************************************************************************)
(* The cross-process write lock of a RAG collection or a memory namespace  *)
(* (src/localm/rag/collection_lock.py): a lock file created with O_EXCL,   *)
(* kept alive by a thread that touches it, taken over when its holder      *)
(* stopped proving that it is alive, and removed by its token.             *)
(*                                                                         *)
(* A writer is a thread in a call of collection_write_lock, and stands for *)
(* the token of that call.  A step is one access to the file system; the   *)
(* stat and the read of _read_record are one, because writing the record   *)
(* and touching the file both move its mtime: a torn read differs from     *)
(* what was judged before.  Mtimes are only ever compared for equality and *)
(* with a wall clock that may read anything, so a change of the file is    *)
(* recorded where it is noticed: what was read of the file before the      *)
(* change (watch, judged) becomes NONE.                                    *)
(***************************************************************************)
EXTENDS Naturals, FiniteSets

CONSTANTS Writer,      \* threads that take the lock, and their tokens
          Process,     \* localm processes
          ProcessOf,   \* the process of each writer
          Mortal,      \* processes that may crash
          Confirm,     \* CONFIRM_BEATS * HEARTBEAT_INTERVAL, in ticks
          Grace,       \* DEAD_HOLDER_GRACE
          StaleAfter,  \* STALE_AFTER
          Timely,      \* whether holders touch their file in time
          ProbesFail,  \* whether a liveness probe may have no answer
          CallsFail,   \* whether removing or touching the file may fail
          NONE

ASSUME LockAssumption == /\ ProcessOf \in [Writer -> Process]
                         /\ Mortal \subseteq Process
                         /\ Confirm \in Nat \ {0}
                         /\ Grace \in Nat /\ StaleAfter \in Nat
                         /\ Confirm <= Grace /\ Grace <= StaleAfter
                         /\ Timely \in BOOLEAN /\ ProbesFail \in BOOLEAN
                         /\ CallsFail \in BOOLEAN
                         /\ NONE \notin Writer \cup Nat

VARIABLES
  file,     \* the lock file, or NoFile: who created it, and the token in its
            \* record, NONE while it has no readable record
  pc,       \* where each writer is
  heart,    \* the heartbeat thread of each writer
  watch,    \* _watches: how long each process has seen the present file
            \* unchanged, NONE when it has not read it as it is
  judged,   \* the watch a writer judged the present file by, or NONE
  age,      \* for how long the present file has not been touched
  calm      \* no process died and no unlink was refused, for a property only

vars == <<file, pc, heart, watch, judged, age, calm>>

NoFile == [by |-> NONE, token |-> NONE]

Places == {"idle", "create", "recheck", "reclaim", "created", "record", "hold",
           "release", "remove", "undo", "undo_again", "dead"}
\* The counters of time stop here; bound.
Longest == StaleAfter + 1
Time    == 0 .. Longest

Calls(w)   == pc[w] \notin {"idle", "dead"}     \* w \in _held_tokens
Goto(w, p) == pc' = [pc EXCEPT ![w] = p]
Watched(w) == watch[ProcessOf[w]]

\* Mutant of Changed: a file is known by its token alone, not by its mtime.
ChangedByToken(f) ==
  /\ file' = f
  /\ IF f.token = file.token THEN UNCHANGED <<watch, judged>>
     ELSE watch' = [p \in Process |-> NONE] /\ judged' = [w \in Writer |-> NONE]
  /\ age' = 0
  /\ UNCHANGED calm

\* The file becomes f, created, written, touched or removed: its mtime is
\* none that was read before.
Changed(f) == /\ file' = f
              /\ watch' = [p \in Process |-> NONE]
              /\ judged' = [w \in Writer |-> NONE]
              /\ age' = 0
              /\ UNCHANGED calm
SameFile   == UNCHANGED <<file, watch, judged, age, calm>>

\* The file stays, with a death or an unlink that is refused.
Disturbed  == UNCHANGED <<file, watch, judged, age>> /\ calm' = FALSE

Init == /\ file = NoFile
        /\ pc = [w \in Writer |-> "idle"]
        /\ heart = [w \in Writer |-> "off"]
        /\ watch = [p \in Process |-> NONE]
        /\ judged = [w \in Writer |-> NONE]
        /\ age = 0
        /\ calm = TRUE
-----------------------------------------------------------------------------
(***************************************************************************)
(* Whether a holder still holds the lock.                                  *)
(***************************************************************************)
\* _holder_liveness: what writer w may find out about the holder that the
\* record with token h names (NONE: no readable record).
Liveness(w, h) ==
  IF h = NONE THEN {"unknown"}
  ELSE (IF ProbesFail THEN {"unknown"} ELSE {}) \cup
       (IF pc[h] = "dead" THEN {"dead"}
        ELSE IF ProcessOf[w] = ProcessOf[h]
               THEN IF Calls(h) THEN {"alive"} ELSE {"dead"}
        ELSE IF heart[h] # "off" THEN {"alive"} ELSE {"unknown"})

\* Mutant of MayBeStale: the wall clock alone decides.
MayBeStaleByClock(quiet, live) == live # "alive"

\* _is_stale for a file seen unchanged for `quiet': the age by the wall clock
\* is a choice, so a lock that was watched long enough may be stale, and one
\* that was watched for longer than the limit is.
MayBeStale(quiet, live) == quiet >= Confirm /\ live # "alive"
IsStale(quiet, live) ==
  MayBeStale(quiet, live) /\ quiet > (IF live = "dead" THEN Grace ELSE StaleAfter)

(***************************************************************************)
(* Acquiring.                                                              *)
(***************************************************************************)
\* A token is used once: the writer comes back when nothing of its last call
\* is left; bound.
Call(w) == /\ pc[w] = "idle" /\ heart[w] = "off"
           /\ file.by # w
           /\ Goto(w, "create")
           /\ UNCHANGED heart /\ SameFile

\* os.open with O_CREAT | O_EXCL, and _forget_watch.
Create(w) == /\ pc[w] = "create" /\ file = NoFile
             /\ Changed([by |-> w, token |-> NONE])
             /\ Goto(w, "created")
             /\ UNCHANGED heart

\* Mutant of Judge: a call that ends takes its watch with it.
JudgeForgets(w) ==
  /\ pc[w] = "create" /\ file # NoFile
  /\ LET quiet == IF Watched(w) = NONE THEN 0 ELSE Watched(w)
         seen  == [watch EXCEPT ![ProcessOf[w]] = quiet]
     IN \E live \in Liveness(w, file.token) :
          \/ /\ MayBeStale(quiet, live)
             /\ judged' = [judged EXCEPT ![w] = quiet]
             /\ watch' = seen
             /\ Goto(w, "recheck")
          \/ /\ ~IsStale(quiet, live)
             /\ \/ Goto(w, "create") /\ watch' = seen
                \/ Goto(w, "idle") /\ watch' = [seen EXCEPT ![ProcessOf[w]] = NONE]
             /\ UNCHANGED judged
  /\ UNCHANGED <<file, heart, age, calm>>

\* The file exists: it is read, watched and judged.  The writer goes on to
\* reclaim it, sleeps and tries again, or has waited long enough.
Judge(w) ==
  /\ pc[w] = "create" /\ file # NoFile
  /\ LET quiet == IF Watched(w) = NONE THEN 0 ELSE Watched(w)
     IN /\ watch' = [watch EXCEPT ![ProcessOf[w]] = quiet]
        /\ \E live \in Liveness(w, file.token) :
             \/ /\ MayBeStale(quiet, live)
                /\ judged' = [judged EXCEPT ![w] = quiet]
                /\ Goto(w, "recheck")
             \/ /\ ~IsStale(quiet, live)
                /\ \E p \in {"create", "idle"} : Goto(w, p)
                /\ UNCHANGED judged
  /\ UNCHANGED <<file, heart, age, calm>>

\* _reclaim up to the unlink: gone, changed since it was judged, or judged
\* again by the same watch.
Recheck(w) ==
  /\ pc[w] = "recheck"
  /\ \/ file = NoFile /\ Goto(w, "create")
     \/ /\ file # NoFile /\ judged[w] = NONE
        /\ \E p \in {"create", "idle"} : Goto(w, p)
     \/ /\ file # NoFile /\ judged[w] # NONE
        /\ \E live \in Liveness(w, file.token) :
             \/ MayBeStale(judged[w], live) /\ Goto(w, "reclaim")
             \/ /\ ~IsStale(judged[w], live)
                /\ \E p \in {"create", "idle"} : Goto(w, p)
  /\ UNCHANGED heart /\ SameFile

\* The unlink of _reclaim, of whatever file is there by now.
Reclaim(w) == /\ pc[w] = "reclaim"
              /\ Goto(w, "create")
              /\ \/ file = NoFile /\ SameFile
                 \/ file # NoFile /\ Changed(NoFile)
              /\ UNCHANGED heart

ReclaimFails(w) == /\ pc[w] = "reclaim" /\ CallsFail /\ file # NoFile
                   /\ \E p \in {"create", "idle"} : Goto(w, p)
                   /\ UNCHANGED heart /\ Disturbed

\* The heartbeat starts before the record, which names it.
StartHeart(w) == /\ pc[w] = "created"
                 /\ heart' = [heart EXCEPT ![w] = "sleeps"]
                 /\ Goto(w, "record")
                 /\ SameFile

\* The record is written through the descriptor of the create: into the
\* file, or into one that was removed meanwhile.
WriteRecord(w) ==
  /\ pc[w] = "record"
  /\ Goto(w, "hold")
  /\ IF file.by = w THEN Changed([file EXCEPT !.token = w]) ELSE SameFile
  /\ UNCHANGED heart

\* The heartbeat is told to stop and joined; one that is stuck in a file
\* system call is left behind.
StopHeart(w) == heart' = [heart EXCEPT ![w] = IF @ = "sleeps" THEN "off" ELSE @]

\* The thread cannot be started or the record cannot be written.
AcquireFails(w) == /\ pc[w] \in {"created", "record"}
                   /\ Goto(w, "undo")
                   /\ StopHeart(w)
                   /\ SameFile
-----------------------------------------------------------------------------
(***************************************************************************)
(* The heartbeat thread.                                                   *)
(***************************************************************************)
\* _beat reads the record: another token ends the thread.
Beat(w) == /\ heart[w] = "sleeps"
           /\ heart' = [heart EXCEPT ![w] =
                IF file.token \notin {NONE, w} THEN "off" ELSE "touches"]
           /\ UNCHANGED pc /\ SameFile

\* It touches the file under that path, if there is one.
Touch(w) == /\ heart[w] = "touches"
            /\ IF file = NoFile THEN SameFile ELSE Changed(file)
            /\ heart' = [heart EXCEPT ![w] =
                 IF file # NoFile /\ pc[w] \in {"record", "hold"} THEN "sleeps" ELSE "off"]
            /\ UNCHANGED pc

TouchFails(w) == /\ heart[w] = "touches" /\ CallsFail /\ file # NoFile
                 /\ heart' = [heart EXCEPT ![w] =
                      IF pc[w] \in {"record", "hold"} THEN "sleeps" ELSE "off"]
                 /\ UNCHANGED pc /\ SameFile
-----------------------------------------------------------------------------
(***************************************************************************)
(* Releasing.                                                              *)
(***************************************************************************)
\* The write is over.
Finish(w) == /\ pc[w] = "hold"
             /\ Goto(w, "release")
             /\ StopHeart(w)
             /\ SameFile

\* The record is read: the file is removed only with this writer's token in
\* it; so again after an unlink that failed.
ReadOwn(w) == /\ pc[w] = "release"
              /\ Goto(w, IF file.token = w THEN "remove" ELSE "idle")
              /\ UNCHANGED heart /\ SameFile

\* The file of a failed acquisition may have no record yet.
ReadAgain(w) == /\ pc[w] = "undo_again"
                /\ Goto(w, IF file # NoFile /\ file.token \in {NONE, w} THEN "undo" ELSE "idle")
                /\ UNCHANGED heart /\ SameFile

\* The unlink of _remove_own_lock.
Remove(w) == /\ pc[w] \in {"remove", "undo"}
             /\ Goto(w, "idle")
             /\ IF file = NoFile THEN SameFile ELSE Changed(NoFile)
             /\ UNCHANGED heart

\* It is refused, and tried again up to _UNLINK_TRIES times.
RemoveFails(w) == /\ CallsFail /\ file # NoFile
                  /\ \/ pc[w] = "remove" /\ \E p \in {"release", "idle"} : Goto(w, p)
                     \/ pc[w] = "undo" /\ \E p \in {"undo_again", "idle"} : Goto(w, p)
                  /\ UNCHANGED heart /\ Disturbed
-----------------------------------------------------------------------------
\* A process ends with its threads; its lock file stays.
Crash(p) == /\ p \in Mortal
            /\ \E w \in Writer : ProcessOf[w] = p /\ pc[w] # "dead"
            /\ pc' = [w \in Writer |-> IF ProcessOf[w] = p THEN "dead" ELSE pc[w]]
            /\ heart' = [w \in Writer |-> IF ProcessOf[w] = p THEN "off" ELSE heart[w]]
            /\ Disturbed

\* Places of the writer that the present file belongs to.
Owning == {"created", "record", "hold", "release", "remove", "undo", "undo_again"}

\* Time passes.  Timely: who owns the file touches or removes it before a
\* watch of it is long enough.
Later(n) == IF n = NONE \/ n = Longest THEN n ELSE n + 1
Tick ==
  /\ file # NoFile
  /\ (Timely /\ pc[file.by] \in Owning) => age + 1 < Confirm
  /\ age' = Later(age)
  /\ watch' = [p \in Process |-> Later(watch[p])]
  /\ age < Longest \/ \E p \in Process : watch[p] # NONE /\ watch[p] < Longest
  /\ UNCHANGED <<file, pc, heart, judged, calm>>

WriterStep(w) == \/ Create(w) \/ Judge(w) \/ Recheck(w) \/ Reclaim(w)
                 \/ StartHeart(w) \/ WriteRecord(w) \/ Finish(w)
                 \/ ReadOwn(w) \/ ReadAgain(w) \/ Remove(w)
HeartStep(w)  == Beat(w) \/ Touch(w)
Fault(w)      == ReclaimFails(w) \/ AcquireFails(w) \/ TouchFails(w) \/ RemoveFails(w)

Next == \/ \E w \in Writer : Call(w) \/ WriterStep(w) \/ HeartStep(w) \/ Fault(w)
        \/ \E p \in Process : Crash(p)
        \/ Tick

Spec == Init /\ [][Next]_vars

\* Writers come back (a scheduled re-sync does), threads run, an unlink that is
\* tried again and again is not always refused, time passes.
FairSpec == /\ Spec /\ WF_vars(Tick)
            /\ \A w \in Writer : /\ WF_vars(Call(w)) /\ WF_vars(WriterStep(w))
                                 /\ WF_vars(HeartStep(w))
                                 /\ SF_vars(Reclaim(w) \/ Remove(w))
-----------------------------------------------------------------------------
TypeOK ==
  /\ file \in [by : Writer, token : Writer \cup {NONE}] \cup {NoFile}
  /\ pc \in [Writer -> Places]
  /\ heart \in [Writer -> {"off", "sleeps", "touches"}]
  /\ watch \in [Process -> Time \cup {NONE}]
  /\ judged \in [Writer -> Time \cup {NONE}]
  /\ age \in Time
  /\ calm \in BOOLEAN

\* Until a holder dies or an unlink is refused, if every holder touches its
\* file in time, two writers never hold the lock, however many wait for it,
\* watch it and fail to acquire it, and whatever their clocks and their
\* liveness probes say.
MutualExclusion ==
  calm => \A v, w \in Writer : pc[v] = "hold" /\ pc[w] = "hold" => v = w

\* Also when processes die and system calls fail: nobody decides to remove the
\* lock of a holder that is running, if its heartbeat keeps moving or it can be
\* proven to run ("a holder proven running keeps the lock however old its
\* heartbeat is; a lock whose heartbeat keeps moving is never taken over,
\* whatever either clock reads").
KeepsRunningHolder ==
  \A w \in Writer : pc[w] = "recheck" /\ pc'[w] = "reclaim" => pc[file.by] # "hold"
RunningHolderIsKept == [][KeepsRunningHolder]_vars

\* A lock file that a dead process or a refused unlink left behind is removed
\* after all, although a call may end before a takeover is due: a process keeps
\* its watch from one call to the next.
AbandonedLockIsTakenOver ==
  (file # NoFile /\ ~Calls(file.by)) ~> (file = NoFile \/ Calls(file.by))
=============================================================================
