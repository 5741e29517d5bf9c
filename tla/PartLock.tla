------------------------------ MODULE PartLock ------------------------------
(***************************************************************************)
(* The lock on the partial file of a download, between processes           *)
(* (`_part_lock' of src/localm/model_manager/pull.py): a directory with an *)
(* owner record, taken by renaming a staging directory onto its path and   *)
(* released by renaming it to a tombstone.  A lock whose owner is proven   *)
(* gone is taken over under a guard the system releases when its holder    *)
(* dies.  Processes die between any two steps.                             *)
(*                                                                         *)
(* A pull takes the lock once, and stands for its token, its staging       *)
(* directory and its tombstone.  A step is one file-system call, except    *)
(* that the sweep judges and removes an entry at once: what it removes is  *)
(* empty at that moment or belongs to a process that stays dead.  The 50   *)
(* attempts of each loop are not counted.                                  *)
(***************************************************************************)
EXTENDS FiniteSets

CONSTANTS Pull,
          Process,
          ProcessOf,  \* the process of each pull
          Mortal,     \* the processes that may die
          Provable,   \* those whose death the others can prove: same pid space
          EMPTY,      \* an empty directory at the lock path
          NONE

ASSUME PartLockAssumption == /\ ProcessOf \in [Pull -> Process]
                             /\ Mortal \subseteq Process /\ Provable \subseteq Process
                             /\ EMPTY # NONE /\ {EMPTY, NONE} \cap Pull = {}

VARIABLES
  lock,     \* the lock path: absent (NONE), EMPTY, or with the record of a pull
  staging,  \* the staging directory of each pull: none, empty or written
  tombs,    \* the pulls whose tombstone exists
  guard,    \* who holds the reclaim guard
  pc, todo, \* where each pull is, and what its sweep has left to look at
  dead,     \* the processes that died
  alone     \* the pull no other one ran and no process died beside, for
            \* properties only

files == <<lock, staging, tombs, guard>>
vars  == <<files, pc, todo, dead, alone>>

Over     == {"refused", "failed", "done", "dead"}
Active   == {w \in Pull : pc[w] \notin Over \cup {"out"}}
Leftover == {"staging", "tomb"} \X Pull

Init ==
  /\ lock \in {NONE, EMPTY}
  /\ staging = [w \in Pull |-> "none"] /\ tombs = {} /\ guard = NONE
  /\ pc = [w \in Pull |-> "out"] /\ todo = [w \in Pull |-> {}]
  /\ dead = {} /\ alone = {}

At(w, place) == pc[w] = place
Go(w, place) == pc' = [pc EXCEPT ![w] = place]

\* The block of _acquire_part_lock is left: its staging directory is removed
\* and the guard, if it was taken, is released.
Exit(w, place) == /\ Go(w, place)
                  /\ staging' = [staging EXCEPT ![w] = "none"]
                  /\ guard' = IF guard = w THEN NONE ELSE guard

----------------------------------------------------------------------------
(* Preparing: the leftovers of dead pulls go, and the record is staged. *)

Start(w) ==
  /\ At(w, "out") /\ ProcessOf[w] \notin dead
  /\ Go(w, "sweep")
  /\ todo' = [todo EXCEPT ![w] = {e \in Leftover :
                IF e[1] = "tomb" THEN e[2] \in tombs ELSE staging[e[2]] # "none"}]
  /\ alone' = IF Active = {} THEN {w} ELSE {}
  /\ UNCHANGED <<files, dead>>

\* The owner of the record is proven gone.
Gone(v) == ProcessOf[v] \in dead \cap Provable

\* Mutant of Swept: a staging directory with a record is left alone.
SweptEmptyOnly(v) == staging[v] = "empty"

\* A staging directory goes when it is empty or its owner is gone.
Swept(v) == staging[v] = "empty" \/ Gone(v)

Sweep(w) ==
  /\ At(w, "sweep")
  /\ \E e \in todo[w] :
       /\ todo' = [todo EXCEPT ![w] = @ \ {e}]
       /\ IF e[1] = "tomb" THEN tombs' = tombs \ {e[2]} /\ UNCHANGED staging
          ELSE /\ staging' = IF Swept(e[2]) THEN [staging EXCEPT ![e[2]] = "none"] ELSE staging
               /\ UNCHANGED tombs
  /\ UNCHANGED <<lock, guard, pc, dead, alone>>

MakeStaging(w) ==
  /\ At(w, "sweep") /\ todo[w] = {}
  /\ staging' = [staging EXCEPT ![w] = "empty"]
  /\ Go(w, "staged")
  /\ UNCHANGED <<lock, tombs, guard, todo, dead, alone>>

\* The record is written, unless the sweep of another pull took the directory.
WriteRecord(w) ==
  /\ At(w, "staged")
  /\ IF staging[w] = "empty"
     THEN staging' = [staging EXCEPT ![w] = "written"] /\ Go(w, "check")
     ELSE Go(w, "sweep") /\ UNCHANGED staging
  /\ UNCHANGED <<lock, tombs, guard, todo, dead, alone>>

StagingFails(w) ==
  /\ At(w, "staged")
  /\ Exit(w, "failed")
  /\ UNCHANGED <<lock, tombs, todo, dead, alone>>

----------------------------------------------------------------------------
(* _acquire_part_lock, and with the guard _take_over_stale_lock. *)

\* Mutant of Reclaimable: any lock is taken over, as a time limit would.
ReclaimableByAge(l) == l # NONE

Reclaimable(l) == l = EMPTY \/ (l \in Pull /\ Gone(l))

\* _rename_noreplace looks at the path before it renames.
Check(w) ==
  /\ At(w, "check")
  /\ Go(w, IF lock = NONE THEN "rename" ELSE "judge")
  /\ UNCHANGED <<files, todo, dead, alone>>

\* The rename refuses a directory with a record and replaces an empty one.
Rename(w) ==
  /\ At(w, "rename")
  /\ IF lock \in {NONE, EMPTY}
     THEN lock' = w /\ Exit(w, "inside")
     ELSE Go(w, "judge") /\ UNCHANGED <<lock, staging, guard>>
  /\ UNCHANGED <<tombs, todo, dead, alone>>

\* A lock that may be taken over needs the guard first; with the guard it is
\* judged again.
Judge(w) ==
  /\ At(w, "judge")
  /\ Go(w, IF ~Reclaimable(lock) THEN "present" ELSE IF guard = w THEN "move" ELSE "guard")
  /\ UNCHANGED <<files, todo, dead, alone>>

\* A lock released meanwhile is tried again.
Present(w) ==
  /\ At(w, "present")
  /\ IF lock = NONE THEN Go(w, "check") /\ UNCHANGED <<staging, guard>> ELSE Exit(w, "refused")
  /\ UNCHANGED <<lock, tombs, todo, dead, alone>>

TakeGuard(w) ==
  /\ At(w, "guard")
  /\ IF guard = NONE THEN guard' = w /\ Go(w, "check") /\ UNCHANGED staging
     ELSE Exit(w, "refused")
  /\ UNCHANGED <<lock, tombs, todo, dead, alone>>

\* Whatever is at the path goes to a tombstone.
Move(w) ==
  /\ At(w, "move")
  /\ IF lock = NONE
     THEN Go(w, "check") /\ UNCHANGED <<lock, tombs>>
     ELSE lock' = NONE /\ tombs' = tombs \cup {w} /\ Go(w, "recheck")
  /\ UNCHANGED <<staging, guard, todo, dead, alone>>

Recheck(w) ==
  /\ At(w, "recheck")
  /\ Go(w, IF lock = NONE THEN "settle" ELSE "give_up")
  /\ UNCHANGED <<files, todo, dead, alone>>

Settle(w) ==
  /\ At(w, "settle")
  /\ IF lock \in {NONE, EMPTY}
     THEN lock' = w /\ Go(w, "taken") /\ staging' = [staging EXCEPT ![w] = "none"]
     ELSE Go(w, "give_up") /\ UNCHANGED <<lock, staging>>
  /\ UNCHANGED <<tombs, guard, todo, dead, alone>>

\* The tombstone of a takeover is removed whether it succeeded or not.
Tidy(w) ==
  /\ pc[w] \in {"taken", "give_up"}
  /\ tombs' = tombs \ {w}
  /\ Exit(w, IF At(w, "taken") THEN "inside" ELSE "refused")
  /\ UNCHANGED <<lock, todo, dead, alone>>

----------------------------------------------------------------------------
(* _release_part_lock *)

Finish(w) ==
  /\ At(w, "inside")
  /\ Go(w, "release")
  /\ UNCHANGED <<files, todo, dead, alone>>

\* A lock that is not this pull's any more is left alone.
ReadToken(w) ==
  /\ At(w, "release")
  /\ Go(w, IF lock = w THEN "bury" ELSE "done")
  /\ UNCHANGED <<files, todo, dead, alone>>

Bury(w) ==
  /\ At(w, "bury") /\ lock # NONE
  /\ lock' = NONE /\ tombs' = tombs \cup {w}
  /\ Go(w, "buried")
  /\ UNCHANGED <<staging, guard, todo, dead, alone>>

\* The rename is refused: the lock stays until this process ends.
BuryFails(w) ==
  /\ At(w, "bury")
  /\ Go(w, "done")
  /\ UNCHANGED <<files, todo, dead, alone>>

RemoveTombstone(w) ==
  /\ At(w, "buried")
  /\ tombs' = tombs \ {w}
  /\ Go(w, "done")
  /\ UNCHANGED <<lock, staging, guard, todo, dead, alone>>

----------------------------------------------------------------------------

\* Mutant of Crash: the guard is a file its holder would have to delete.
CrashKeepsGuard(p) ==
  /\ p \in Mortal \ dead
  /\ dead' = dead \cup {p}
  /\ pc' = [w \in Pull |-> IF ProcessOf[w] = p THEN "dead" ELSE pc[w]]
  /\ todo' = [w \in Pull |-> IF ProcessOf[w] = p THEN {} ELSE todo[w]]
  /\ alone' = {}
  /\ UNCHANGED files

\* A process dies; its file locks are released by the system.
Crash(p) ==
  /\ p \in Mortal \ dead
  /\ dead' = dead \cup {p}
  /\ pc' = [w \in Pull |-> IF ProcessOf[w] = p THEN "dead" ELSE pc[w]]
  /\ guard' = IF guard # NONE /\ ProcessOf[guard] = p THEN NONE ELSE guard
  /\ todo' = [w \in Pull |-> IF ProcessOf[w] = p THEN {} ELSE todo[w]]
  /\ alone' = {}
  /\ UNCHANGED <<lock, staging, tombs>>

Next ==
  \/ \E w \in Pull : \/ Start(w) \/ Sweep(w) \/ MakeStaging(w) \/ WriteRecord(w)
                     \/ StagingFails(w) \/ Check(w) \/ Rename(w) \/ Judge(w) \/ Present(w)
                     \/ TakeGuard(w) \/ Move(w) \/ Recheck(w) \/ Settle(w) \/ Tidy(w)
                     \/ Finish(w) \/ ReadToken(w) \/ Bury(w) \/ BuryFails(w)
                     \/ RemoveTombstone(w)
  \/ \E p \in Process : Crash(p)

Spec == Init /\ [][Next]_vars

----------------------------------------------------------------------------
(* Properties. *)

Places == {"out", "sweep", "staged", "check", "rename", "judge", "present", "guard", "move",
           "recheck", "settle", "taken", "give_up", "inside", "release", "bury",
           "buried"} \cup Over

\* Every variable has its type, and whoever is taking a lock over holds the
\* guard.
TypeOK ==
  /\ lock \in Pull \cup {NONE, EMPTY}
  /\ staging \in [Pull -> {"none", "empty", "written"}]
  /\ tombs \subseteq Pull /\ guard \in Pull \cup {NONE}
  /\ pc \in [Pull -> Places] /\ todo \in [Pull -> SUBSET Leftover]
  /\ dead \subseteq Process /\ alone \subseteq Pull
  /\ \A w \in Pull : pc[w] \in {"move", "recheck", "settle", "taken", "give_up"} => guard = w

Holds(w) == pc[w] \in {"taken", "inside", "release", "bury"}

\* The lock path shows the record of the pull that holds the lock, until that
\* pull releases it: no takeover, however late what it saw, removes it.
HolderIsRecorded == \A w \in Pull : Holds(w) => lock = w

\* A pull that runs alone is refused only by a lock that may not be taken over:
\* whatever point an earlier pull or takeover died at, nobody is locked out.
AloneIsNotRefused == \A w \in alone : At(w, "refused") => ~Reclaimable(lock) /\ lock # NONE

\* A pull that ran alone leaves no tombstone and no staging directory of a dead
\* pull behind, except one whose owner may be alive for all it can tell.
AloneLeavesNothing ==
  \A w \in alone : At(w, "done") =>
    tombs = {} /\ \A v \in Pull : staging[v] # "none" => staging[v] = "written" /\ ~Gone(v)

Owner     == IF lock \in Pull THEN lock ELSE NONE
AsLock    == INSTANCE DownloadLock WITH holder <- Owner,
               working <- {w \in Pull : pc[w] \in {"taken", "inside"}}
\* One pull works on the partial file at a time, as DownloadLock says.
ImplementsLock == AsLock!LockSpec
=============================================================================
