---------------------------- MODULE DownloadLock ----------------------------
(***************************************************************************)
(* What the lock on one download destination promises the pulls and the    *)
(* deletions that use it: one of them works on the partial file at a time, *)
(* and one that dies gives the lock up, sooner or later.                   *)
(***************************************************************************)
CONSTANTS Pull, Process, ProcessOf, NONE

VARIABLES holder,  \* whose lock it is, or NONE
          working, \* the pulls in the block the lock guards
          dead     \* the processes that died

lockVars == <<holder, working, dead>>

Lives(w) == ProcessOf[w] \notin dead

LockInit == holder = NONE /\ working = {} /\ dead = {}

Acquire(w) ==
  /\ Lives(w) /\ holder = NONE
  /\ holder' = w /\ working' = working \cup {w}
  /\ UNCHANGED dead

Leave(w) ==
  /\ w \in working
  /\ working' = working \ {w}
  /\ UNCHANGED <<holder, dead>>

\* A pull that left releases the lock; that of a dead one is taken away.
Free(w) ==
  /\ holder = w /\ w \notin working
  /\ holder' = NONE
  /\ UNCHANGED <<working, dead>>

Die(p) ==
  /\ p \notin dead
  /\ dead' = dead \cup {p}
  /\ working' = {w \in working : ProcessOf[w] # p}
  /\ UNCHANGED holder

LockNext == \/ \E w \in Pull : Acquire(w) \/ Leave(w) \/ Free(w)
            \/ \E p \in Process : Die(p)

LockSpec == LockInit /\ [][LockNext]_lockVars
=============================================================================
