--------------------------- MODULE PartLockProofs ---------------------------
(***************************************************************************)
(* PartLock implements DownloadLock, for every set of pulls and processes, *)
(* whichever of them may die and whosever death can be proven.             *)
(*                                                                         *)
(* The hard step is Move, which takes away whatever is at the lock path on *)
(* an earlier judgement.  Nothing can have replaced what was judged: a     *)
(* dead owner's lock only leaves under the guard, which the mover holds,   *)
(* and an empty directory is at the path only while nobody has found the   *)
(* path free (EmptyIsOld), so that no rename can be on its way.            *)
(*                                                                         *)
(* The last part follows a pull that runs alone, with whatever dead        *)
(* processes left on disk: nobody refuses it, and it tidies everything up. *)
(***************************************************************************)
EXTENDS PartLock, TLAPS

\* The pulls of a dead process do nothing any more.
DeadAreOver == \A w \in Pull : ProcessOf[w] \in dead => pc[w] = "dead"

\* While an empty directory is at the path, nobody is about to rename onto it.
EmptyIsOld == lock = EMPTY => \A w \in Pull : pc[w] \notin {"rename", "settle"}

\* What a takeover judged is still there when it moves it away.
JudgedStays == \A w \in Pull : At(w, "move") => Reclaimable(lock)

LockInv == TypeOK /\ DeadAreOver /\ HolderIsRecorded /\ EmptyIsOld /\ JudgedStays
-----------------------------------------------------------------------------
PullStep(w) == \/ Start(w) \/ Sweep(w) \/ MakeStaging(w) \/ WriteRecord(w)
               \/ StagingFails(w) \/ Check(w) \/ Rename(w) \/ Judge(w) \/ Present(w)
               \/ TakeGuard(w) \/ Move(w) \/ Recheck(w) \/ Settle(w) \/ Tidy(w)
               \/ Finish(w) \/ ReadToken(w) \/ Bury(w) \/ BuryFails(w)
               \/ RemoveTombstone(w)

LEMMA Constants ==
  /\ ProcessOf \in [Pull -> Process]
  /\ EMPTY # NONE /\ EMPTY \notin Pull /\ NONE \notin Pull
BY PartLockAssumption

\* A step of a pull is one of a process that lives.
LEMMA WhoStepsLives ==
  ASSUME LockInv, NEW w \in Pull, PullStep(w)
  PROVE  ProcessOf[w] \notin dead
<1>1. pc[w] # "dead" \/ ProcessOf[w] \notin dead
  BY DEF PullStep, Start, Sweep, MakeStaging, WriteRecord, StagingFails, Check, Rename, Judge,
         Present, TakeGuard, Move, Recheck, Settle, Tidy, Finish, ReadToken, Bury, BuryFails,
         RemoveTombstone, At
<1> QED BY <1>1 DEF LockInv, DeadAreOver
-----------------------------------------------------------------------------
(* Type correctness. *)

LEMMA TypeKept ==
  ASSUME LockInv, [Next]_vars
  PROVE  TypeOK'
<1> USE Constants DEF LockInv, TypeOK, Places, Over, At, Go
<1>1. ASSUME NEW w \in Pull, Start(w) PROVE TypeOK'
  BY <1>1 DEF Start, files, Leftover
<1>2. ASSUME NEW w \in Pull, Sweep(w) PROVE TypeOK'
  BY <1>2 DEF Sweep, Leftover
<1>3. ASSUME NEW w \in Pull, MakeStaging(w) PROVE TypeOK'
  BY <1>3 DEF MakeStaging
<1>4. ASSUME NEW w \in Pull, WriteRecord(w) PROVE TypeOK'
  BY <1>4 DEF WriteRecord
<1>5. ASSUME NEW w \in Pull, StagingFails(w) PROVE TypeOK'
  BY <1>5 DEF StagingFails, Exit
<1>6. ASSUME NEW w \in Pull, Check(w) PROVE TypeOK'
  BY <1>6 DEF Check, files
<1>7. ASSUME NEW w \in Pull, Rename(w) PROVE TypeOK'
  BY <1>7 DEF Rename, Exit
<1>8. ASSUME NEW w \in Pull, Judge(w) PROVE TypeOK'
  BY <1>8 DEF Judge, files
<1>9. ASSUME NEW w \in Pull, Present(w) PROVE TypeOK'
  BY <1>9 DEF Present, Exit
<1>10. ASSUME NEW w \in Pull, TakeGuard(w) PROVE TypeOK'
  BY <1>10 DEF TakeGuard, Exit
<1>11. ASSUME NEW w \in Pull, Move(w) PROVE TypeOK'
  BY <1>11 DEF Move
<1>12. ASSUME NEW w \in Pull, Recheck(w) PROVE TypeOK'
  BY <1>12 DEF Recheck, files
<1>13. ASSUME NEW w \in Pull, Settle(w) PROVE TypeOK'
  BY <1>13 DEF Settle
<1>14. ASSUME NEW w \in Pull, Tidy(w) PROVE TypeOK'
  BY <1>14 DEF Tidy, Exit
<1>15. ASSUME NEW w \in Pull, Finish(w) PROVE TypeOK'
  BY <1>15 DEF Finish, files
<1>16. ASSUME NEW w \in Pull, ReadToken(w) PROVE TypeOK'
  BY <1>16 DEF ReadToken, files
<1>17. ASSUME NEW w \in Pull, Bury(w) PROVE TypeOK'
  BY <1>17 DEF Bury
<1>18. ASSUME NEW w \in Pull, BuryFails(w) PROVE TypeOK'
  BY <1>18 DEF BuryFails, files
<1>19. ASSUME NEW w \in Pull, RemoveTombstone(w) PROVE TypeOK'
  BY <1>19 DEF RemoveTombstone
<1>20. ASSUME NEW p \in Process, Crash(p) PROVE TypeOK'
  BY <1>20 DEF Crash
<1>21. CASE UNCHANGED vars
  BY <1>21 DEF vars, files
<1> QED
  BY <1>1, <1>2, <1>3, <1>4, <1>5, <1>6, <1>7, <1>8, <1>9, <1>10, <1>11, <1>12, <1>13, <1>14,
     <1>15, <1>16, <1>17, <1>18, <1>19, <1>20, <1>21 DEF Next
-----------------------------------------------------------------------------
(* The lock path. *)

\* A step of a pull moves that pull only, and of the other pulls' places, locks
\* and guards it touches none: it takes a free path or an empty directory, or
\* takes away what it judged or holds.
LEMMA LockMoves ==
  ASSUME LockInv, NEW w \in Pull, PullStep(w)
  PROVE  /\ dead' = dead
         /\ \A v \in Pull \ {w} : pc'[v] = pc[v]
         /\ \/ lock' = lock /\ (pc'[w] \in {"taken", "inside", "release", "bury"} => Holds(w))
                            /\ (pc'[w] \in {"rename", "settle"} => lock = NONE)
                            /\ (pc'[w] = "move" => Reclaimable(lock))
            \/ lock' = w /\ lock \in {NONE, EMPTY} /\ pc[w] \in {"rename", "settle"}
                         /\ pc'[w] \notin {"rename", "settle", "move"}
            \/ lock' = NONE /\ pc[w] = "move" /\ pc'[w] = "recheck"
            \/ lock' = NONE /\ pc[w] = "bury" /\ pc'[w] = "buried"
<1> USE DEF LockInv, TypeOK, At, Go, Holds, files
<1>1. CASE Start(w) \/ Sweep(w) \/ MakeStaging(w) \/ WriteRecord(w) \/ StagingFails(w)
  BY <1>1 DEF Start, Sweep, MakeStaging, WriteRecord, StagingFails, Exit
<1>2. CASE Check(w) \/ Judge(w) \/ Present(w) \/ TakeGuard(w) \/ Recheck(w)
  BY <1>2 DEF Check, Judge, Present, TakeGuard, Recheck, Exit
<1>3. CASE Rename(w)
  BY <1>3 DEF Rename, Exit
<1>4. CASE Move(w)
  BY <1>4 DEF Move
<1>5. CASE Settle(w)
  BY <1>5 DEF Settle
<1>6. CASE Tidy(w)
  BY <1>6 DEF Tidy, Exit
<1>7. CASE Finish(w) \/ ReadToken(w) \/ BuryFails(w) \/ RemoveTombstone(w)
  BY <1>7 DEF Finish, ReadToken, BuryFails, RemoveTombstone
<1>8. CASE Bury(w)
  BY <1>8 DEF Bury
<1> QED BY <1>1, <1>2, <1>3, <1>4, <1>5, <1>6, <1>7, <1>8 DEF PullStep

\* A lock that may be taken over is nobody's who lives.
LEMMA ReclaimableIsNobodys ==
  ASSUME LockInv, Reclaimable(lock), NEW v \in Pull
  PROVE  ~Holds(v)
BY Constants DEF LockInv, DeadAreOver, HolderIsRecorded, Reclaimable, Gone, Holds

\* What a pull's step leaves true.
LEMMA PullKeepsLock ==
  ASSUME LockInv, NEW w \in Pull, PullStep(w)
  PROVE  DeadAreOver' /\ HolderIsRecorded' /\ EmptyIsOld' /\ JudgedStays'
<1> USE Constants
<1>1. DeadAreOver'
  BY LockMoves, WhoStepsLives DEF LockInv, DeadAreOver
<1>2. HolderIsRecorded'
  <2> SUFFICES ASSUME NEW v \in Pull, Holds(v)' PROVE lock' = v
    BY DEF HolderIsRecorded
  <2>1. CASE v = w
    BY <2>1, LockMoves DEF LockInv, HolderIsRecorded, Holds
  <2>2. CASE v # w
    <3>1. Holds(v) /\ lock = v
      BY <2>2, LockMoves DEF LockInv, HolderIsRecorded, Holds
    <3>2. ~Reclaimable(lock) /\ lock \notin {NONE, EMPTY}
      BY <3>1, ReclaimableIsNobodys
    <3>3. pc[w] # "move"
      BY <3>2 DEF LockInv, JudgedStays, At
    <3>4. pc[w] # "bury"
      BY <3>1, <2>2 DEF LockInv, HolderIsRecorded, Holds
    <3> QED BY <3>1, <3>2, <3>3, <3>4, LockMoves
  <2> QED BY <2>1, <2>2
<1>3. EmptyIsOld'
  BY LockMoves DEF LockInv, EmptyIsOld
<1>4. JudgedStays'
  <2> SUFFICES ASSUME NEW v \in Pull, pc'[v] = "move"
               PROVE  Reclaimable(lock)'
    BY DEF JudgedStays, At
  <2>1. dead' = dead
    BY LockMoves
  <2>2. CASE lock' = lock
    BY <2>1, <2>2, LockMoves DEF LockInv, JudgedStays, At, Reclaimable, Gone
  <2>3. CASE v # w /\ lock' # lock
    <3>1. pc[v] = "move" /\ Reclaimable(lock)
      BY <2>3, LockMoves DEF LockInv, JudgedStays, At
    <3>2. ~Holds(w)
      BY <3>1, ReclaimableIsNobodys
    <3>3. guard = v /\ pc[w] \notin {"move", "settle"}
      BY <3>1, <2>3 DEF LockInv, TypeOK
    <3>4. lock # NONE /\ (lock = EMPTY => pc[w] # "rename")
      BY <3>1 DEF LockInv, EmptyIsOld, Reclaimable
    <3> QED BY <2>3, <3>2, <3>3, <3>4, LockMoves DEF LockInv, EmptyIsOld, Holds
  <2>4. CASE v = w
    BY <2>1, <2>4, LockMoves DEF Reclaimable, Gone
  <2> QED BY <2>2, <2>3, <2>4
<1> QED BY <1>1, <1>2, <1>3, <1>4

LEMMA CrashKeepsLock ==
  ASSUME LockInv, NEW p \in Process, Crash(p)
  PROVE  DeadAreOver' /\ HolderIsRecorded' /\ EmptyIsOld' /\ JudgedStays'
BY Constants DEF Crash, LockInv, TypeOK, DeadAreOver, HolderIsRecorded, EmptyIsOld, JudgedStays,
       At, Holds, Reclaimable, Gone

LEMMA LockInvInit == Init => LockInv
BY Constants DEF Init, LockInv, TypeOK, DeadAreOver, HolderIsRecorded, EmptyIsOld, JudgedStays,
       Places, Over, At, Holds

LEMMA LockInvKept == LockInv /\ [Next]_vars => LockInv'
<1> SUFFICES ASSUME LockInv, [Next]_vars PROVE LockInv'
  OBVIOUS
<1>1. TypeOK'
  BY TypeKept
<1>2. ASSUME NEW w \in Pull, PullStep(w) PROVE LockInv'
  BY <1>1, <1>2, PullKeepsLock DEF LockInv
<1>3. ASSUME NEW p \in Process, Crash(p) PROVE LockInv'
  BY <1>1, <1>3, CrashKeepsLock DEF LockInv
<1>4. CASE UNCHANGED vars
  BY <1>4 DEF vars, files, LockInv, TypeOK, DeadAreOver, HolderIsRecorded, EmptyIsOld,
              JudgedStays, At, Holds, Reclaimable, Gone
<1> QED BY <1>2, <1>3, <1>4 DEF Next, PullStep

\* The inductive invariant holds throughout.
LEMMA LockInvHolds == Spec => []LockInv
BY LockInvInit, LockInvKept, PTL DEF Spec

\* TypeOK: every variable has its type, and a takeover holds the guard.
THEOREM TypeCorrect == Spec => []TypeOK
<1>1. LockInv => TypeOK
  BY DEF LockInv
<1> QED BY <1>1, LockInvHolds, PTL

\* HolderIsRecorded: from its rename to its release the lock path shows the
\* record of the pull that holds the lock; no takeover of _take_over_stale_lock
\* removes the lock of a pull that lives.
THEOREM HolderKept == Spec => []HolderIsRecorded
<1>1. LockInv => HolderIsRecorded
  BY DEF LockInv
<1> QED BY <1>1, LockInvHolds, PTL
-----------------------------------------------------------------------------
(* The refinement. *)

LEMMA InitMapped == Init => AsLock!LockInit
BY Constants DEF Init, AsLock!LockInit, Owner

LEMMA PullMapped ==
  ASSUME LockInv, NEW w \in Pull, PullStep(w)
  PROVE  [AsLock!LockNext]_AsLock!lockVars
<1> DEFINE In == {v \in Pull : pc[v] \in {"taken", "inside"}}
<1> USE Constants
<1>1. /\ dead' = dead /\ AsLock!Lives(w)
      /\ \A v \in Pull \ {w} : v \in In' <=> v \in In
  BY LockMoves, WhoStepsLives DEF AsLock!Lives
<1>2. CASE lock' = w /\ lock \in {NONE, EMPTY} /\ pc[w] \in {"rename", "settle"}
  <2>1. w \in In'
    BY <1>2 DEF PullStep, Start, Sweep, MakeStaging, WriteRecord, StagingFails, Check, Rename,
       Judge,
         Present, TakeGuard, Move, Recheck, Settle, Tidy, Finish, ReadToken, Bury, BuryFails,
         RemoveTombstone, At, Go, Exit, LockInv, TypeOK
  <2>2. In' = In \cup {w}
    BY <1>1, <2>1
  <2>3. Owner = NONE /\ Owner' = w
    BY <1>2 DEF Owner
  <2>4. AsLock!Acquire(w)
    BY <1>1, <2>2, <2>3 DEF AsLock!Acquire
  <2> QED BY <2>4 DEF AsLock!LockNext
<1>3. CASE lock' = lock /\ w \in In /\ w \notin In'
  <2>1. In' = In \ {w} /\ Owner' = Owner
    BY <1>1, <1>3 DEF Owner
  <2>2. AsLock!Leave(w)
    BY <1>1, <1>3, <2>1 DEF AsLock!Leave
  <2> QED BY <2>2 DEF AsLock!LockNext
<1>4. CASE lock' = lock /\ (w \in In <=> w \in In')
  <2>1. In' = In /\ Owner' = Owner
    BY <1>1, <1>4 DEF Owner
  <2> QED BY <1>1, <2>1 DEF AsLock!lockVars
<1>5. ASSUME lock' = NONE, In' = In, lock \notin In PROVE [AsLock!LockNext]_AsLock!lockVars
  <2>1. CASE lock \in Pull
    <3>1. Owner = lock /\ Owner' = NONE
      BY <2>1, <1>5 DEF Owner
    <3>2. AsLock!Free(lock)
      BY <1>1, <1>5, <3>1 DEF AsLock!Free
    <3> QED BY <2>1, <3>2 DEF AsLock!LockNext
  <2>2. CASE lock \notin Pull
    <3>1. Owner' = Owner
      BY <2>2, <1>5 DEF Owner
    <3> QED BY <1>1, <1>5, <3>1 DEF AsLock!lockVars
  <2> QED BY <2>1, <2>2
<1>6. CASE lock' = NONE /\ pc[w] = "move" /\ pc'[w] = "recheck"
  <2>1. In' = In
    BY <1>1, <1>6
  <2>2. Reclaimable(lock)
    BY <1>6 DEF LockInv, JudgedStays, At
  <2>3. lock \notin In
    BY <2>2, ReclaimableIsNobodys DEF Holds
  <2> QED BY <1>5, <1>6, <2>1, <2>3
<1>7. CASE lock' = NONE /\ pc[w] = "bury" /\ pc'[w] = "buried"
  <2>1. In' = In
    BY <1>1, <1>7
  <2>2. lock = w
    BY <1>7 DEF LockInv, HolderIsRecorded, Holds
  <2> QED BY <1>5, <1>7, <2>1, <2>2
<1>8. lock' = lock /\ w \in In' => w \in In
  BY DEF PullStep, Start, Sweep, MakeStaging, WriteRecord, StagingFails, Check, Rename, Judge,
         Present, TakeGuard, Move, Recheck, Settle, Tidy, Finish, ReadToken, Bury, BuryFails,
         RemoveTombstone, At, Go, Exit, LockInv, TypeOK
<1> QED BY <1>2, <1>3, <1>4, <1>6, <1>7, <1>8, LockMoves

LEMMA CrashMapped ==
  ASSUME LockInv, NEW p \in Process, Crash(p)
  PROVE  AsLock!LockNext
<1>1. AsLock!Die(p)
  BY Constants DEF Crash, LockInv, TypeOK, AsLock!Die, Owner
<1> QED BY <1>1 DEF AsLock!LockNext

LEMMA StepMapped == LockInv /\ [Next]_vars => [AsLock!LockNext]_AsLock!lockVars
<1>1. ASSUME UNCHANGED vars PROVE UNCHANGED AsLock!lockVars
  BY <1>1 DEF vars, files, AsLock!lockVars, Owner
<1> QED BY <1>1, PullMapped, CrashMapped DEF Next, PullStep

\* ImplementsLock: one pull or deletion at a time works on a partial file, each
\* has the lock from its rename on, and the lock of a process that died is the
\* only one taken away, as DownloadLock says.
THEOREM ImplementsDownloadLock == Spec => ImplementsLock
<1> USE LockInvHolds, InitMapped, StepMapped
<1> QED BY PTL DEF Spec, ImplementsLock, AsLock!LockSpec
-----------------------------------------------------------------------------
(* A pull that runs alone. *)

\* The guard is held only within a takeover, and given up when it is left.
GuardIsInUse == \A v \in Pull : guard = v =>
  pc[v] \in {"check", "rename", "judge", "present", "move", "recheck", "settle", "taken", "give_up"}

\* A pull that runs alone finds the guard free, and what it judged unchanged.
LetIn(w) ==
  /\ pc[w] # "out" /\ \A v \in Pull \ {w} : pc[v] \in Over \cup {"out"}
  /\ guard \in {NONE, w}
  /\ pc[w] \in {"recheck", "settle"} => lock = NONE
  /\ pc[w] # "give_up"
  /\ pc[w] \in {"present", "refused"} => ~Reclaimable(lock)
  /\ pc[w] = "refused" => lock # NONE

\* Its sweep has still to look at every leftover that is to go, and after the
\* sweep there is none but its own.
Clean(w) ==
  /\ pc[w] = "sweep" =>
       /\ \A v \in tombs : <<"tomb", v>> \in todo[w]
       /\ \A v \in Pull : staging[v] # "none" /\ Swept(v) => <<"staging", v>> \in todo[w]
  /\ pc[w] # "sweep" => \A v \in Pull \ {w} : staging[v] # "none" => ~Swept(v)
  /\ pc[w] \in {"recheck", "settle", "taken", "give_up", "buried"} => tombs \subseteq {w}
  /\ pc[w] \notin {"sweep", "recheck", "settle", "taken", "give_up", "buried"} => tombs = {}
  /\ pc[w] = "staged" => staging[w] = "empty"
  /\ pc[w] \in {"taken", "inside", "release", "bury", "buried", "done"} => staging[w] = "none"

AloneInv ==
  /\ LockInv /\ GuardIsInUse
  /\ \A w \in alone : LetIn(w) /\ Clean(w)

\* A step of a pull leaves the guard with nobody outside a takeover.
LEMMA GuardKept ==
  ASSUME LockInv, GuardIsInUse, NEW w \in Pull, PullStep(w)
  PROVE  GuardIsInUse'
<1> USE Constants DEF LockInv, TypeOK, GuardIsInUse, At, Go
<1>1. CASE Start(w)
  BY <1>1 DEF Start, files
<1>2. CASE Sweep(w)
  BY <1>2 DEF Sweep
<1>3. CASE MakeStaging(w)
  BY <1>3 DEF MakeStaging
<1>4. CASE WriteRecord(w)
  BY <1>4 DEF WriteRecord
<1>5. CASE StagingFails(w)
  BY <1>5 DEF StagingFails, Exit
<1>6. CASE Check(w)
  BY <1>6 DEF Check, files
<1>7. CASE Rename(w)
  BY <1>7 DEF Rename, Exit
<1>8. CASE Judge(w)
  BY <1>8 DEF Judge, files
<1>9. CASE Present(w)
  BY <1>9 DEF Present, Exit
<1>10. CASE TakeGuard(w)
  BY <1>10 DEF TakeGuard, Exit
<1>11. CASE Move(w)
  BY <1>11 DEF Move
<1>12. CASE Recheck(w)
  BY <1>12 DEF Recheck, files
<1>13. CASE Settle(w)
  BY <1>13 DEF Settle
<1>14. CASE Tidy(w)
  BY <1>14 DEF Tidy, Exit
<1>15. CASE Finish(w)
  BY <1>15 DEF Finish, files
<1>16. CASE ReadToken(w)
  BY <1>16 DEF ReadToken, files
<1>17. CASE Bury(w)
  BY <1>17 DEF Bury
<1>18. CASE BuryFails(w)
  BY <1>18 DEF BuryFails, files
<1>19. CASE RemoveTombstone(w)
  BY <1>19 DEF RemoveTombstone
<1> QED
  BY <1>1, <1>2, <1>3, <1>4, <1>5, <1>6, <1>7, <1>8, <1>9, <1>10,
     <1>11, <1>12, <1>13, <1>14, <1>15, <1>16, <1>17, <1>18, <1>19 DEF PullStep

\* A pull that starts alone finds the guard free, and has every leftover to
\* look at.
LEMMA StartsAlone ==
  ASSUME AloneInv, NEW w \in Pull, Start(w)
  PROVE  \A v \in alone' : LetIn(v)' /\ Clean(v)'
<1> USE Constants DEF AloneInv, LockInv, TypeOK, At, Go
<1> SUFFICES ASSUME Active = {} PROVE LetIn(w)' /\ Clean(w)'
  BY DEF Start
<1>1. /\ \A v \in Pull : pc[v] \in Over \cup {"out"}
      /\ \A v \in Pull \ {w} : pc'[v] = pc[v]
      /\ pc'[w] = "sweep" /\ UNCHANGED <<files, dead>>
  BY DEF Start, Active
<1>2. guard = NONE
  BY <1>1 DEF GuardIsInUse, Over
<1>3. LetIn(w)'
  BY <1>1, <1>2 DEF LetIn, Over, files
<1>4. todo'[w] = {e \in Leftover : IF e[1] = "tomb" THEN e[2] \in tombs ELSE staging[e[2]] # "none"}
  BY DEF Start
<1>5. \A v \in tombs : <<"tomb", v>> \in todo'[w]
  BY <1>4 DEF Leftover
<1>6. \A v \in Pull : staging[v] # "none" => <<"staging", v>> \in todo'[w]
  BY <1>4 DEF Leftover
<1>7. Clean(w)'
  BY <1>1, <1>5, <1>6 DEF Clean, files
<1> QED BY <1>3, <1>7

\* Once a pull is alone every step is its own: the other pulls are over, or have
\* not started.
LEMMA StepsAreItsOwn ==
  ASSUME AloneInv, NEW w \in Pull, PullStep(w), ~Start(w)
  PROVE  /\ alone' = alone /\ alone \subseteq {w} /\ dead' = dead
         /\ \A v \in Pull \ {w} : pc'[v] = pc[v]
<1>1. pc[w] \notin Over \cup {"out"} /\ alone' = alone
  BY DEF PullStep, Sweep, MakeStaging, WriteRecord, StagingFails, Check, Rename, Judge, Present,
     TakeGuard, Move, Recheck, Settle, Tidy, Finish, ReadToken, Bury, BuryFails, RemoveTombstone,
     At, Over
<1>2. alone \subseteq {w}
  BY <1>1 DEF AloneInv, LockInv, TypeOK, LetIn
<1> QED BY <1>1, <1>2, LockMoves DEF AloneInv

\* What a pull that is alone finds.
LEMMA LetInKept ==
  ASSUME AloneInv, NEW w \in alone, PullStep(w), ~Start(w)
  PROVE  LetIn(w)'
<1> USE Constants DEF AloneInv, LockInv, TypeOK, LetIn, At, Go, Over
<1> w \in Pull
  OBVIOUS
<1> HIDE DEF LetIn
<1>0. LetIn(w)
  OBVIOUS
<1> SUFFICES /\ pc'[w] # "out"
             /\ guard' \in {NONE, w}
             /\ pc'[w] \in {"recheck", "settle"} => lock' = NONE
             /\ pc'[w] # "give_up"
             /\ pc'[w] \in {"present", "refused"} => ~Reclaimable(lock)'
             /\ pc'[w] = "refused" => lock' # NONE
  BY <1>0, StepsAreItsOwn DEF LetIn
<1> USE <1>0 DEF LetIn
<1>1. CASE Sweep(w)
  BY <1>1 DEF Sweep
<1>2. CASE MakeStaging(w)
  BY <1>2 DEF MakeStaging
<1>3. CASE WriteRecord(w)
  BY <1>3 DEF WriteRecord
<1>4. CASE StagingFails(w)
  BY <1>4 DEF StagingFails, Exit
<1>5. CASE Check(w)
  BY <1>5 DEF Check, files
<1>6. CASE Rename(w)
  BY <1>6 DEF Rename, Exit
<1>7. CASE Judge(w)
  BY <1>7 DEF Judge, files, Reclaimable, Gone
<1>8. CASE Present(w)
  BY <1>8 DEF Present, Exit, Reclaimable, Gone
<1>9. CASE TakeGuard(w)
  BY <1>9 DEF TakeGuard, Exit, GuardIsInUse
<1>10. CASE Move(w)
  BY <1>10 DEF Move
<1>11. CASE Recheck(w)
  BY <1>11 DEF Recheck, files
<1>12. CASE Settle(w)
  BY <1>12 DEF Settle
<1>13. CASE Tidy(w)
  BY <1>13 DEF Tidy, Exit
<1>14. CASE Finish(w)
  BY <1>14 DEF Finish, files
<1>15. CASE ReadToken(w)
  BY <1>15 DEF ReadToken, files
<1>16. CASE Bury(w)
  BY <1>16 DEF Bury
<1>17. CASE BuryFails(w)
  BY <1>17 DEF BuryFails, files
<1>18. CASE RemoveTombstone(w)
  BY <1>18 DEF RemoveTombstone
<1> QED
  BY <1>1, <1>2, <1>3, <1>4, <1>5, <1>6, <1>7, <1>8, <1>9, <1>10,
     <1>11, <1>12, <1>13, <1>14, <1>15, <1>16, <1>17, <1>18 DEF PullStep

\* What a pull that is alone leaves.
LEMMA CleanKept ==
  ASSUME AloneInv, NEW w \in alone, PullStep(w), ~Start(w)
  PROVE  Clean(w)'
<1> USE Constants DEF AloneInv, LockInv, TypeOK, At, Go
<1> w \in Pull /\ Clean(w) /\ pc[w] # "give_up" /\ dead' = dead
  BY StepsAreItsOwn DEF LetIn
<1> USE DEF Clean, Swept, Gone
<1>1. CASE Sweep(w)
  BY <1>1 DEF Sweep, Leftover
<1>2. CASE MakeStaging(w)
  BY <1>2 DEF MakeStaging
<1>3. CASE WriteRecord(w)
  BY <1>3 DEF WriteRecord
<1>4. CASE StagingFails(w)
  BY <1>4 DEF StagingFails, Exit, Over
<1>5. CASE Check(w)
  BY <1>5 DEF Check, files
<1>6. CASE Rename(w)
  BY <1>6 DEF Rename, Exit
<1>7. CASE Judge(w)
  BY <1>7 DEF Judge, files
<1>8. CASE Present(w)
  BY <1>8 DEF Present, Exit, Over
<1>9. CASE TakeGuard(w)
  BY <1>9 DEF TakeGuard, Exit, Over
<1>10. CASE Move(w)
  BY <1>10 DEF Move
<1>11. CASE Recheck(w)
  BY <1>11 DEF Recheck, files
<1>12. CASE Settle(w)
  BY <1>12 DEF Settle
<1>13. CASE Tidy(w)
  BY <1>13 DEF Tidy, Exit
<1>14. CASE Finish(w)
  BY <1>14 DEF Finish, files
<1>15. CASE ReadToken(w)
  BY <1>15 DEF ReadToken, files, Over
<1>16. CASE Bury(w)
  BY <1>16 DEF Bury
<1>17. CASE BuryFails(w)
  BY <1>17 DEF BuryFails, files
<1>18. CASE RemoveTombstone(w)
  BY <1>18 DEF RemoveTombstone
<1> QED
  BY <1>1, <1>2, <1>3, <1>4, <1>5, <1>6, <1>7, <1>8, <1>9, <1>10,
     <1>11, <1>12, <1>13, <1>14, <1>15, <1>16, <1>17, <1>18 DEF PullStep

LEMMA AloneInvInit == Init => AloneInv
BY LockInvInit, Constants DEF Init, AloneInv, GuardIsInUse

LEMMA AloneInvKept == AloneInv /\ [Next]_vars => AloneInv'
<1> SUFFICES ASSUME AloneInv, [Next]_vars PROVE AloneInv'
  OBVIOUS
<1>1. LockInv'
  BY LockInvKept DEF AloneInv
<1>2. ASSUME NEW w \in Pull, PullStep(w) PROVE AloneInv'
  <2>1. GuardIsInUse'
    BY <1>2, GuardKept DEF AloneInv
  <2>2. CASE Start(w)
    BY <1>1, <2>1, <2>2, StartsAlone DEF AloneInv
  <2>3. CASE ~Start(w)
    BY <1>1, <1>2, <2>1, <2>3, StepsAreItsOwn, LetInKept, CleanKept DEF AloneInv
  <2> QED BY <2>2, <2>3
<1>3. ASSUME NEW p \in Process, Crash(p) PROVE AloneInv'
  <2>1. GuardIsInUse'
    BY <1>3, Constants DEF AloneInv, LockInv, TypeOK, GuardIsInUse, Crash
  <2>2. alone' = {}
    BY <1>3 DEF Crash
  <2> QED BY <1>1, <2>1, <2>2 DEF AloneInv
<1>4. CASE UNCHANGED vars
  BY <1>1, <1>4 DEF vars, files, AloneInv, GuardIsInUse, LetIn, Clean, Swept, Gone, Reclaimable
<1> QED BY <1>2, <1>3, <1>4 DEF Next, PullStep

LEMMA AloneInvHolds == Spec => []AloneInv
BY AloneInvInit, AloneInvKept, PTL DEF Spec

\* AloneIsNotRefused: `_acquire_part_lock' refuses a pull that runs alone only
\* by a lock whose owner may be alive, whatever point earlier ones died at.
THEOREM AloneGetsIn == Spec => []AloneIsNotRefused
<1>1. AloneInv => AloneIsNotRefused
  BY DEF AloneInv, LetIn, AloneIsNotRefused, At
<1> QED BY <1>1, AloneInvHolds, PTL

\* AloneLeavesNothing: a pull that ran alone leaves no tombstone, and no staging
\* directory but one whose owner may be alive.
THEOREM AloneTidiesUp == Spec => []AloneLeavesNothing
<1>1. AloneInv => AloneLeavesNothing
  <2> SUFFICES ASSUME AloneInv, NEW w \in alone, At(w, "done")
               PROVE  /\ tombs = {}
                      /\ \A v \in Pull : staging[v] # "none" =>
                           staging[v] = "written" /\ ~Gone(v)
    BY DEF AloneLeavesNothing
  <2> QED BY DEF AloneInv, LockInv, TypeOK, Clean, Swept, At
<1> QED BY <1>1, AloneInvHolds, PTL
=============================================================================
