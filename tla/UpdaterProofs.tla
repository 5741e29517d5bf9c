--------------------------- MODULE UpdaterProofs ---------------------------
(***************************************************************************)
(* The type invariant of Updater, that what an update found is kept until  *)
(* another task enters, that what fails is undone, and that a rollback is  *)
(* exact.  The argument follows the one task inside the lock: which backup *)
(* holds what it found (KeptInv), and which names it has replaced, removed *)
(* and put back, from where, and what the kept venv is of (ExactInv).      *)
(***************************************************************************)
EXTENDS Updater, TLAPS

\* The initial state is of the type.
LEMMA InitTypeOK == Init => TypeOK
<1> SUFFICES ASSUME Init PROVE TypeOK
  OBVIOUS
<1>1. tree \in Tree /\ venv \in Venv
  BY UpdaterAssumption DEF Init, Tree, Venv
<1>2. Fresh \in Job /\ Fresh.pc = "out"
  BY DEF Fresh, Job
<1>3. job \in [Task -> Job] /\ \A t \in Task : job[t].pc = "out"
  BY <1>2 DEF Init
<1> QED
  BY <1>1, <1>3 DEF Init, TypeOK, Inside, Over

\* The backup a task makes of its names is one.
LEMMA BackupType ==
  ASSUME TypeOK, NEW t \in Task, Inside(t), NEW b \in Build
  PROVE  BackupOf(t, b) \in Backup
<1>1. found[t] \in Found
  BY DEF TypeOK
<1>2. Holds[b] \in SUBSET Name
  BY UpdaterAssumption
<1> DEFINE S == {m \in Holds[b] : tree[m] # NONE}
<1>3. [n \in S |-> tree[n]] \in [S -> Build \cup {TORN}]
  BY <1>2 DEF TypeOK, Tree
<1>4. S \in SUBSET Name
  BY <1>2
<1> QED
  BY <1>1, <1>2, <1>3, <1>4 DEF BackupOf, Backup

\* What can be said of the version of a backup.
LEMMA VersionType ==
  ASSUME NEW k \in Backup
  PROVE  VersionOf(k) \in Build \cup {NONE}
  BY DEF VersionOf, Backup

\* Only the job of t changes, and stays what a job is.
Moves(t) == job' \in [Task -> Job] /\ \A u \in Task : u # t => job'[u] = job[u]

\* A job that ends keeps the type, whatever it leaves in the tree and the folders.
LEMMA EndType ==
  ASSUME TypeOK, NEW t \in Task,
         NEW outcome \in {"ok", "failed", "broken"}, End(t, outcome)
  PROVE  /\ lock' \in Task \cup {NONE}
         /\ found' \in [Task -> Found \cup {NONE}] /\ overlap' \in BOOLEAN
         /\ Moves(t) /\ job'[t].pc = outcome
         /\ \A u \in Task : u # t => found'[u] = found[u]
<1>1. [Fresh EXCEPT !.pc = outcome] \in Job
  BY DEF Fresh, Job
<1> QED
  BY <1>1 DEF End, TypeOK, Moves

\* A job that moves to another place.
LEMMA GoType ==
  ASSUME job \in [Task -> Job], NEW t \in Task,
         NEW place \in {"judged", "retry", "refused", "aside", "place", "copy", "tidy",
                        "post", "deps", "venv"},
         Go(t, place)
  PROVE  Moves(t) /\ job'[t].pc = place /\ job'[t].build = job[t].build
<1>1. job[t] \in Job
  OBVIOUS
<1>2. [job[t] EXCEPT !.pc = place] \in Job /\ [job[t] EXCEPT !.pc = place].pc = place
      /\ [job[t] EXCEPT !.pc = place].build = job[t].build
  BY <1>1 DEF Job
<1>3. job' = [job EXCEPT ![t] = [job[t] EXCEPT !.pc = place]]
  BY DEF Go
<1> QED
  BY <1>2, <1>3 DEF Moves

\* A job that begins to put the tree back.
LEMMA PutBackType ==
  ASSUME job \in [Task -> Job], NEW t \in Task, NEW from \in {"run", "stable"},
         NEW names \in SUBSET Name, PutBack(t, from, names)
  PROVE  Moves(t) /\ job'[t].pc = "strip" /\ job'[t].from = from
                  /\ job'[t].build = job[t].build
<1> DEFINE r == [job[t] EXCEPT !.pc = "strip", !.from = from, !.todo = names]
<1>1. r \in Job /\ r.pc = "strip" /\ r.from = from /\ r.build = job[t].build
  BY DEF Job
<1>2. job' = [job EXCEPT ![t] = r]
  BY DEF PutBack
<1> QED
  BY <1>1, <1>2 DEF Moves

\* A job that is done with one name, well or badly.
LEMMA DoneType ==
  ASSUME job \in [Task -> Job], NEW t \in Task, NEW n \in job[t].todo,
         \/ job' = [job EXCEPT ![t].todo = @ \ {n}]
         \/ job' = [job EXCEPT ![t].todo = @ \ {n}, ![t].errs = @ \cup {n}]
  PROVE  Moves(t) /\ job'[t].pc = job[t].pc /\ job'[t].from = job[t].from
                  /\ job'[t].build = job[t].build
<1>1. job[t] \in Job
  OBVIOUS
<1>2. CASE job' = [job EXCEPT ![t].todo = @ \ {n}]
  <2> DEFINE r == [job[t] EXCEPT !.todo = @ \ {n}]
  <2>1. r \in Job /\ r.pc = job[t].pc /\ r.from = job[t].from /\ r.build = job[t].build
    BY <1>1 DEF Job
  <2>2. job' = [job EXCEPT ![t] = r]
    BY <1>2
  <2> QED
    BY <2>1, <2>2 DEF Moves
<1>3. CASE job' = [job EXCEPT ![t].todo = @ \ {n}, ![t].errs = @ \cup {n}]
  <2> DEFINE r == [job[t] EXCEPT !.todo = @ \ {n}, !.errs = @ \cup {n}]
  <2>1. r \in Job /\ r.pc = job[t].pc /\ r.from = job[t].from /\ r.build = job[t].build
    BY <1>1 DEF Job
  <2>2. job' = [job EXCEPT ![t] = r]
    BY <1>3
  <2> QED
    BY <2>1, <2>2 DEF Moves
<1> QED
  BY <1>2, <1>3

\* One name of the tree changes.
LEMMA TreeType ==
  ASSUME tree \in Tree, NEW n \in Name, NEW v \in Build \cup {TORN, NONE},
         tree' = [tree EXCEPT ![n] = v]
  PROVE  tree' \in Tree
  BY DEF Tree

\* What discard leaves is what was there, NONE, or a kept venv without its copy.
LEMMA DiscardedType ==
  ASSUME TypeOK, snap' \in Discarded
  PROVE  snap' \in Snapshot \cup {NONE}
  BY DEF TypeOK, Discarded, Snapshot

\* A torn venv is one, and so are the dependencies of a build.
LEMMA TornType == TORN \in Venv
  BY DEF Venv

\* A dependency step that succeeds installs the dependencies of a build.
LEMMA InstalledType ==
  ASSUME TypeOK, NEW t \in Task, venv' = Deps[job[t].build], Updates(t)
  PROVE  venv' \in Venv
  BY DEF TypeOK, Job, Updates, Venv

\* The venv kept for the stable backup, with its state file whole or cut.
LEMMA KeptType ==
  ASSUME TypeOK, stable # NONE
  PROVE  {KeptVenv, Unreadable} \subseteq Snapshot
<1>1. stable \in Backup /\ stable.found \in Found
  BY DEF TypeOK, Backup
<1>2. VersionOf(stable) \in Build \cup {NONE}
  BY <1>1, VersionType
<1> QED
  BY <1>1, <1>2 DEF KeptVenv, Unreadable, TypeOK, Snapshot

\* The job of a process that dies.
LEMMA DeadType ==
  ASSUME job \in [Task -> Job], NEW t \in Task,
         job' = [job EXCEPT ![t] = [Fresh EXCEPT !.pc = "dead", !.build = job[t].build]]
  PROVE  Moves(t) /\ job'[t].pc = "dead" /\ job'[t].build = job[t].build
<1> DEFINE r == [Fresh EXCEPT !.pc = "dead", !.build = job[t].build]
<1>1. r \in Job /\ r.pc = "dead" /\ r.build = job[t].build
  BY DEF Fresh, Job
<1> QED
  BY <1>1 DEF Moves

\* The job of a task that restored the venv, or left it, and begins with the tree.
LEMMA RestoreType ==
  ASSUME TypeOK, NEW t \in Task, RestoreVenv(t)
  PROVE  Moves(t) /\ job'[t].pc = "strip" /\ job'[t].from = "stable"
                  /\ job'[t].build = job[t].build
<1> DEFINE r(c) == [job[t] EXCEPT !.pc = "strip", !.from = "stable", !.todo = stable.names,
                                  !.cur = c]
<1>1. stable.names \in SUBSET Name
  BY DEF RestoreVenv, TypeOK, Backup
<1>2. job[t] \in Job /\ job[t].cur \in Venv \cup {NONE} /\ venv \in Venv
  BY DEF TypeOK, Job
<1>3. \A c \in Venv \cup {NONE} : /\ r(c) \in Job /\ r(c).pc = "strip" /\ r(c).from = "stable"
                                  /\ r(c).build = job[t].build
  BY <1>1, <1>2 DEF Job
<1>4. job' = [job EXCEPT ![t] = r(job[t].cur)] \/ job' = [job EXCEPT ![t] = r(venv)]
  BY <1>2 DEF RestoreVenv, Job
<1>5. PICK c \in Venv \cup {NONE} : job' = [job EXCEPT ![t] = r(c)]
  BY <1>2, <1>4
<1> QED
  BY <1>3, <1>5 DEF Moves, TypeOK

\* The job of a task that begins to fill the names of its backup in.
LEMMA StrippedType ==
  ASSUME TypeOK, NEW t \in Task, Stripped(t)
  PROVE  Moves(t) /\ job'[t].pc = "fill" /\ job'[t].from = job[t].from
                  /\ job'[t].build = job[t].build
<1> DEFINE names == IF Source(t) = NONE THEN {} ELSE DOMAIN Source(t).files
           r == [job[t] EXCEPT !.pc = "fill", !.todo = names]
<1>1. Source(t) \in Backup \cup {NONE}
  BY DEF Source, TypeOK
<1>2. names \in SUBSET Name
  BY <1>1 DEF Backup
<1>3. job[t] \in Job
  BY DEF TypeOK
<1>4. r \in Job /\ r.pc = "fill" /\ r.from = job[t].from /\ r.build = job[t].build
  BY <1>2, <1>3 DEF Job
<1>5. job' = [job EXCEPT ![t] = r]
  BY DEF Stripped
<1> QED
  BY <1>4, <1>5 DEF Moves, TypeOK

\* Every step keeps the type.
LEMMA NextTypeOK == TypeOK /\ [Next]_vars => TypeOK'
<1> SUFFICES ASSUME TypeOK, [Next]_vars PROVE TypeOK'
  OBVIOUS
<1>0. CASE UNCHANGED vars
  BY <1>0 DEF TypeOK, vars, folders, Inside, Over, Updates
<1>1. ASSUME NEW t \in Task, Take(t) PROVE TypeOK'
  <2>1. [Fresh EXCEPT !.pc = "in"] \in Job
    BY DEF Fresh, Job
  <2>2. [tree |-> tree, venv |-> venv] \in Found
    BY DEF TypeOK, Found
  <2>3. /\ job' \in [Task -> Job] /\ job'[t] = [Fresh EXCEPT !.pc = "in"]
        /\ \A u \in Task : u # t => job'[u] = job[u]
    BY <1>1, <2>1 DEF TypeOK, Take, Enter
  <2>4. job'[t].pc = "in"
    BY <2>3 DEF Fresh
  <2>5. found' \in [Task -> Found \cup {NONE}] /\ found'[t] # NONE
    BY <1>1, <2>2, UpdaterAssumption DEF TypeOK, Take, Enter
  <2>6. \A u \in Task : (u # t /\ Inside(u)) => found'[u] = found[u]
    BY <1>1 DEF Take, Enter
  <2> QED
    BY <1>1, <2>3, <2>4, <2>5, <2>6 DEF TypeOK, Take, Enter, folders, Inside, Over, Updates
<1>2. ASSUME NEW t \in Task, Judge(t) \/ Reclaim(t) \/ Refuse(t) PROVE TypeOK'
  BY <1>2, GoType DEF TypeOK, Judge, Reclaim, Refuse, At, Moves, folders, Inside, Over, Updates
<1>3. ASSUME NEW t \in Task, Unprepared(t) PROVE TypeOK'
  BY <1>3, EndType DEF TypeOK, Unprepared, Moves, folders, Inside, Over, Updates
<1>4. ASSUME NEW t \in Task, NEW b \in Build, Prepare(t, b) PROVE TypeOK'
  <2> DEFINE r == [job[t] EXCEPT !.pc = "swap", !.build = b, !.todo = Holds[b]]
  <2>1. job[t] \in Job /\ Holds[b] \in SUBSET Name
    BY UpdaterAssumption DEF TypeOK
  <2>2. r \in Job /\ r.pc = "swap" /\ r.build # NONE
    BY <2>1, UpdaterAssumption DEF Job
  <2>3. job' = [job EXCEPT ![t] = r]
    BY <1>4 DEF Prepare
  <2>4. Inside(t)
    BY <1>4 DEF Prepare, At, Inside, Over, Updates
  <2>5. BackupOf(t, b) \in Backup /\ BackupOf(t, b) # NONE
    BY <2>4, BackupType, UpdaterAssumption
  <2>6. run' \in [Task -> Backup \cup {NONE}] /\ run'[t] # NONE
        /\ \A u \in Task : u # t => run'[u] = run[u]
    BY <1>4, <2>5 DEF Prepare, TypeOK
  <2>7. Moves(t) /\ job'[t].pc = "swap" /\ job'[t].build # NONE
    BY <2>2, <2>3 DEF Moves, TypeOK
  <2> QED
    BY <1>4, <2>4, <2>6, <2>7 DEF TypeOK, Prepare, Moves, Inside, Over, Updates
<1>5. ASSUME NEW t \in Task, SwapName(t) PROVE TypeOK'
  <2>1. PICK n \in job[t].todo : tree' = [tree EXCEPT ![n] = job[t].build]
                                 /\ job' = [job EXCEPT ![t].todo = @ \ {n}]
    BY <1>5 DEF SwapName
  <2>2. n \in Name /\ job[t].build \in Build \cup {NONE}
    BY DEF TypeOK, Job
  <2>3. tree' \in Tree
    BY <2>1, <2>2, TreeType DEF TypeOK
  <2>4. Moves(t) /\ job'[t].pc = job[t].pc /\ job'[t].build = job[t].build
    BY <2>1, DoneType DEF TypeOK
  <2> QED
    BY <1>5, <2>3, <2>4 DEF TypeOK, SwapName, Moves, folders, Inside, Over, Updates
<1>6. ASSUME NEW t \in Task, SwapFails(t) PROVE TypeOK'
  <2>1. PICK n \in job[t].todo : tree' = [tree EXCEPT ![n] = TORN]
    BY <1>6 DEF SwapFails
  <2>2. n \in Name
    BY DEF TypeOK, Job
  <2>3. tree' \in Tree
    BY <2>1, <2>2, TreeType DEF TypeOK
  <2>4. run[t].names \in SUBSET Name
    BY <1>6 DEF SwapFails, At, TypeOK, Backup
  <2>5. Moves(t) /\ job'[t].pc = "strip"
    BY <1>6, <2>4, PutBackType DEF SwapFails, TypeOK
  <2> QED
    BY <1>6, <2>3, <2>5 DEF TypeOK, SwapFails, At, Moves, folders, Inside, Over, Updates
<1>7. ASSUME NEW t \in Task, Swapped(t) \/ PlaceRefused(t) PROVE TypeOK'
  BY <1>7, GoType DEF TypeOK, Swapped, PlaceRefused, At, Moves, folders, Inside, Over, Updates
<1>8. ASSUME NEW t \in Task, MoveAside(t) PROVE TypeOK'
  BY <1>8, GoType DEF TypeOK, MoveAside, At, Moves, folders, Inside, Over, Updates
<1>9. ASSUME NEW t \in Task, AsideRefused(t) \/ CopyRefused(t) PROVE TypeOK'
  <2>1. run[t].names \in SUBSET Name
    BY <1>9 DEF AsideRefused, CopyRefused, At, TypeOK, Backup
  <2>2. Moves(t) /\ job'[t].pc = "strip"
    BY <1>9, <2>1, PutBackType DEF AsideRefused, CopyRefused, TypeOK
  <2> QED
    BY <1>9, <2>2 DEF TypeOK, AsideRefused, CopyRefused, At, Moves, Inside, Over, Updates
<1>10. ASSUME NEW t \in Task, Place(t) \/ CopyIntoPlace(t) PROVE TypeOK'
  BY <1>10, GoType DEF TypeOK, Place, CopyIntoPlace, At, Moves, folders, Inside, Over, Updates
<1>11. ASSUME NEW t \in Task, Tidy(t) \/ KeepVenvFails(t) PROVE TypeOK'
  BY <1>11, GoType, DiscardedType DEF TypeOK, Tidy, KeepVenvFails, At, Moves, folders, Inside, Over, Updates
<1>12. ASSUME NEW t \in Task, NoDeps(t) PROVE TypeOK'
  BY <1>12, EndType DEF TypeOK, NoDeps, Moves, folders, Inside, Over, Updates
<1>13. ASSUME NEW t \in Task, KeepVenv(t) PROVE TypeOK'
  <2>1. snap' \in Snapshot
    BY <1>13, KeptType DEF KeepVenv
  <2> QED
    BY <1>13, <2>1, GoType DEF TypeOK, KeepVenv, At, Moves, Inside, Over, Updates
<1>14. ASSUME NEW t \in Task, Install(t) PROVE TypeOK'
  <2>1. venv' \in Venv
    BY <1>14, InstalledType DEF Install, At, TypeOK
  <2> QED
    BY <1>14, <2>1, EndType DEF TypeOK, Install, Moves, folders, Inside, Over, Updates
<1>15. ASSUME NEW t \in Task, InstallFails(t) \/ RollBack(t) PROVE TypeOK'
  BY <1>15, GoType, TornType DEF TypeOK, InstallFails, RollBack, At, Moves, folders, Inside, Over, Updates
<1>16. ASSUME NEW t \in Task, RestoreVenv(t) PROVE TypeOK'
  <2>1. Moves(t) /\ job'[t].pc = "strip"
    BY <1>16, RestoreType
  <2>2. venv' \in Venv
    BY <1>16 DEF RestoreVenv, Restorable, IsFor, TypeOK, Snapshot
  <2> QED
    BY <1>16, <2>1, <2>2 DEF TypeOK, RestoreVenv, At, folders, Moves, Inside, Over, Updates
<1>17. ASSUME NEW t \in Task, RestoreVenvFails(t) PROVE TypeOK'
  BY <1>17, EndType, TornType DEF TypeOK, RestoreVenvFails, Moves, folders, Inside, Over, Updates
<1>18. ASSUME NEW t \in Task, Strip(t) PROVE TypeOK'
  <2>1. PICK n \in job[t].todo :
          /\ tree' = [tree EXCEPT ![n] = NONE] \/ tree' = [tree EXCEPT ![n] = TORN]
          /\ \/ job' = [job EXCEPT ![t].todo = @ \ {n}]
             \/ job' = [job EXCEPT ![t].todo = @ \ {n}, ![t].errs = @ \cup {n}]
    BY <1>18 DEF Strip
  <2>2. n \in Name
    BY DEF TypeOK, Job
  <2>3. tree' \in Tree
    BY <2>1, <2>2, TreeType DEF TypeOK
  <2>4. Moves(t) /\ job'[t].pc = job[t].pc /\ job'[t].build = job[t].build
    BY <2>1, DoneType DEF TypeOK
  <2> QED
    BY <1>18, <2>3, <2>4 DEF TypeOK, Strip, Moves, folders, Inside, Over, Updates
<1>19. ASSUME NEW t \in Task, Stripped(t) PROVE TypeOK'
  <2>1. Moves(t) /\ job'[t].pc = "fill"
    BY <1>19, StrippedType
  <2> QED
    BY <1>19, <2>1 DEF TypeOK, Stripped, At, Moves, folders, Inside, Over, Updates
<1>20. ASSUME NEW t \in Task, Fill(t) PROVE TypeOK'
  <2>1. PICK n \in job[t].todo :
          /\ \/ tree' = [tree EXCEPT ![n] = TORN]
             \/ /\ Source(t) # NONE /\ n \in DOMAIN Source(t).files
                /\ tree' = [tree EXCEPT ![n] = IF n \in job[t].errs THEN TORN
                                               ELSE Source(t).files[n]]
          /\ \/ job' = [job EXCEPT ![t].todo = @ \ {n}]
             \/ job' = [job EXCEPT ![t].todo = @ \ {n}, ![t].errs = @ \cup {n}]
    BY <1>20 DEF Fill
  <2>2. n \in Name
    BY DEF TypeOK, Job
  <2>3. Source(t) \in Backup \cup {NONE}
    BY DEF Source, TypeOK
  <2>4. (Source(t) # NONE /\ n \in DOMAIN Source(t).files)
           => Source(t).files[n] \in Build \cup {TORN}
    BY <2>3 DEF Backup
  <2>5. tree' \in Tree
    BY <2>1, <2>2, <2>4, TreeType DEF TypeOK
  <2>6. Moves(t) /\ job'[t].pc = job[t].pc /\ job'[t].build = job[t].build
    BY <2>1, DoneType DEF TypeOK
  <2> QED
    BY <1>20, <2>5, <2>6 DEF TypeOK, Fill, Moves, folders, Inside, Over, Updates
<1>21. ASSUME NEW t \in Task, Filled(t) PROVE TypeOK'
  <2>1. PICK outcome \in {"ok", "failed", "broken"} : End(t, outcome)
    BY <1>21 DEF Filled
  <2>2. venv' \in Venv
    BY <1>21, TornType DEF Filled, TypeOK, Job
  <2>3. run' \in [Task -> Backup \cup {NONE}] /\ \A u \in Task : u # t => run'[u] = run[u]
    BY <1>21 DEF Filled, TypeOK
  <2> QED
    BY <1>21, <2>1, <2>2, <2>3, EndType DEF TypeOK, Filled, Moves, Inside, Over, Updates
<1>22. ASSUME NEW t \in Task, Crash(t) PROVE TypeOK'
  <2>1. Moves(t) /\ job'[t].pc = "dead"
    BY <1>22, DeadType DEF Crash, TypeOK
  <2>2. tree' \in Tree
    <3>1. CASE UNCHANGED tree
      BY <3>1 DEF TypeOK
    <3>2. ASSUME NEW n \in job[t].todo, NEW v \in {TORN, NONE}, tree' = [tree EXCEPT ![n] = v]
          PROVE  tree' \in Tree
      BY <3>2, TreeType DEF TypeOK, Job
    <3> QED
      BY <1>22, <3>1, <3>2 DEF Crash
  <2>3. venv' \in Venv
    BY <1>22, TornType DEF Crash, TypeOK
  <2>4. snap' \in Snapshot \cup {NONE}
    <3>1. CASE snap' = snap
      BY <3>1 DEF TypeOK
    <3>2. CASE stable # NONE /\ snap' = Unreadable
      BY <3>2, KeptType
    <3> QED
      BY <1>22, <3>1, <3>2 DEF Crash
  <2> QED
    BY <1>22, <2>1, <2>2, <2>3, <2>4 DEF TypeOK, Crash, Moves, Inside, Over, Updates
<1> QED
  BY <1>0, <1>1, <1>2, <1>3, <1>4, <1>5, <1>6, <1>7, <1>8, <1>9, <1>10, <1>11, <1>12,
     <1>13, <1>14, <1>15, <1>16, <1>17, <1>18, <1>19, <1>20, <1>21, <1>22 DEF Next

\* Type correctness.
THEOREM TypeCorrect == Spec => []TypeOK
  BY InitTypeOK, NextTypeOK, PTL DEF Spec

----------------------------------------------------------------------------
(* What an update found is kept. *)

Good(k, t)     == k # NONE /\ k.found = found[t] /\ Whole(k)
Recoverable(t) == tree = found[t].tree \/ Good(stable, t) \/ Good(run[t], t)

\* Where the tree that t found is while t is inside.
Kept(t) ==
  /\ At(t, "in") => ~Updates(t) /\ found[t] = [tree |-> tree, venv |-> venv]
  /\ job[t].pc \in {"swap", "aside", "place", "copy"} => Good(run[t], t)
  /\ (job[t].pc \in {"tidy", "post", "deps", "venv"} /\ Updates(t)) => Good(stable, t)
  /\ (job[t].pc \in {"strip", "fill"} /\ Updates(t))
        => \/ job[t].from = "run" /\ Good(run[t], t)
           \/ job[t].from = "stable" /\ Good(stable, t)

\* While the lock excludes: one task is inside and only it, or the last one that died
\* when none is, is remembered to have found anything.
KeptInv ==
  ~overlap =>
    /\ \A t, u \in Task : Inside(t) /\ Inside(u) => t = u
    /\ \A t \in Task : found[t] # NONE => Inside(t) \/ (At(t, "dead") /\ \A u \in Task : ~Inside(u))
    /\ \A t \in Task : Inside(t) => Kept(t)
    /\ \A t \in Task : (At(t, "dead") /\ found[t] # NONE /\ Updates(t)) => Recoverable(t)

\* The invariant implies the property.
LEMMA KeptImplies == TypeOK /\ KeptInv => PreviousIsKept
<1> SUFFICES ASSUME TypeOK, KeptInv, NEW t \in Task, found[t] # NONE, Updates(t), ~overlap
             PROVE  Recoverable(t)
  BY DEF PreviousIsKept, Recoverable, Good
<1>1. CASE Inside(t)
  <2>1. Kept(t)
    BY <1>1 DEF KeptInv
  <2>2. job[t].pc \in {"in", "swap", "aside", "place", "copy", "tidy", "post", "deps", "venv",
                       "strip", "fill"}
    BY <1>1 DEF TypeOK, Job, Inside, Over
  <2> QED
    BY <2>1, <2>2 DEF Kept, Recoverable, At
<1>2. CASE ~Inside(t)
  BY <1>2 DEF KeptInv
<1> QED
  BY <1>1, <1>2

\* Nobody has entered to begin with.
LEMMA InitKept == Init => KeptInv
<1> SUFFICES ASSUME Init PROVE KeptInv
  OBVIOUS
<1>1. \A t \in Task : found[t] = NONE /\ job[t].pc = "out"
  BY DEF Init, Fresh
<1> QED
  BY <1>1 DEF KeptInv, Inside, Over, At

\* A step of the task inside the lock: what others found is forgotten already.
LEMMA OwnStep ==
  ASSUME KeptInv, NEW t \in Task, Inside(t), overlap' = overlap,
         \A u \in Task : u # t => job'[u] = job[u] /\ found'[u] = found[u],
         ~overlap => \/ Inside(t)' /\ Kept(t)'
                     \/ At(t, "dead")' /\ (Updates(t)' => Recoverable(t)')
                     \/ ~Inside(t)' /\ ~At(t, "dead")' /\ found'[t] = NONE
  PROVE  KeptInv'
<1> SUFFICES ASSUME ~overlap PROVE KeptInv'
  BY DEF KeptInv
<1>1. \A u \in Task : u # t => ~Inside(u) /\ found[u] = NONE
  BY DEF KeptInv
<1>2. \A u \in Task : u # t => ~Inside(u)' /\ found'[u] = NONE
  BY <1>1 DEF Inside, Over
<1>3. Inside(t)' => ~At(t, "dead")'
  BY DEF Inside, Over, At
<1> QED
  BY <1>2, <1>3 DEF KeptInv

\* A step outside the lock changes nothing but the place of a task that never entered.
LEMMA OuterStep ==
  ASSUME KeptInv, TypeOK, NEW t \in Task, Judge(t) \/ Reclaim(t) \/ Refuse(t)
  PROVE  KeptInv'
<1>1. /\ Moves(t) /\ job'[t].pc \in {"judged", "retry", "refused"}
      /\ job[t].pc \in {"out", "judged", "retry"}
      /\ UNCHANGED <<tree, venv, stable, run, found, overlap>>
  BY GoType DEF TypeOK, Judge, Reclaim, Refuse, At, folders
<1>2. ~Inside(t) /\ ~Inside(t)' /\ ~At(t, "dead") /\ ~At(t, "dead")'
  BY <1>1 DEF Inside, Over, At
<1>3. \A u \in Task : u # t => /\ Inside(u)' = Inside(u) /\ At(u, "dead")' = At(u, "dead")
                               /\ Kept(u)' = Kept(u) /\ Updates(u)' = Updates(u)
  BY <1>1 DEF Moves, Inside, Over, At, Kept, Updates, Good, Whole
<1>4. \A u \in Task : Recoverable(u)' = Recoverable(u)
  BY <1>1 DEF Recoverable, Good, Whole
<1> QED
  BY <1>1, <1>2, <1>3, <1>4 DEF KeptInv

\* A task that enters while nobody is inside.
LEMMA TakeStep ==
  ASSUME KeptInv, TypeOK, NEW t \in Task, Take(t)
  PROVE  KeptInv'
<1> SUFFICES ASSUME ~overlap' PROVE KeptInv'
  BY DEF KeptInv
<1>1. \A u \in Task : ~Inside(u)
  BY DEF Take, Enter
<1>2. \A u \in Task : u # t => job'[u] = job[u] /\ found'[u] = NONE
  BY <1>1 DEF Take, Enter, TypeOK
<1>3. job'[t].pc = "in" /\ job'[t].build = NONE /\ found'[t] = [tree |-> tree, venv |-> venv]
  BY DEF Take, Enter, TypeOK, Fresh
<1>4. \A u \in Task : u # t => ~Inside(u)'
  BY <1>1, <1>2 DEF Inside, Over
<1>5. Inside(t)' /\ ~At(t, "dead")'
  BY <1>3 DEF Inside, Over, At
<1>6. Kept(t)'
  BY <1>3 DEF Kept, At, Updates, Take, Enter
<1> QED
  BY <1>2, <1>4, <1>5, <1>6 DEF KeptInv

\* A task that ends forgets what it found.
LEMMA EndStep ==
  ASSUME KeptInv, TypeOK, NEW t \in Task, Inside(t),
         NEW outcome \in {"ok", "failed", "broken"}, End(t, outcome)
  PROVE  KeptInv'
<1>1. Moves(t) /\ job'[t].pc = outcome
  BY EndType
<1>2. overlap' = overlap /\ found'[t] = NONE /\ \A u \in Task : u # t => found'[u] = found[u]
  BY DEF End, TypeOK
<1>3. ~Inside(t)' /\ ~At(t, "dead")'
  BY <1>1 DEF Inside, Over, At
<1> QED
  BY <1>1, <1>2, <1>3, OwnStep DEF Moves

\* The backup a task makes as it has just entered is whole.
LEMMA BackupGood ==
  ASSUME TypeOK, NEW t \in Task, Inside(t), NEW b \in Build, found[t].tree = tree
  PROVE  LET k == BackupOf(t, b) IN k # NONE /\ k.found = found[t] /\ Whole(k)
<1>1. BackupOf(t, b) # NONE
  BY BackupType, UpdaterAssumption
<1> QED
  BY <1>1 DEF BackupOf, Whole

\* Every step keeps it.
LEMMA NextKept == TypeOK /\ KeptInv /\ [Next]_vars => KeptInv'
<1> SUFFICES ASSUME TypeOK, KeptInv, [Next]_vars PROVE KeptInv'
  OBVIOUS
<1>0. CASE UNCHANGED vars
  BY <1>0 DEF vars, folders, KeptInv, Kept, Recoverable, Good, Whole, Inside, Over, At, Updates
<1>1. ASSUME NEW t \in Task, Take(t) PROVE KeptInv'
  BY <1>1, TakeStep
<1>2. ASSUME NEW t \in Task, Judge(t) \/ Reclaim(t) \/ Refuse(t) PROVE KeptInv'
  BY <1>2, OuterStep
<1>3. ASSUME NEW t \in Task,
             Unprepared(t) \/ NoDeps(t) \/ Install(t) \/ RestoreVenvFails(t) \/ Filled(t)
      PROVE  KeptInv'
  <2>1. Inside(t)
    BY <1>3 DEF Unprepared, NoDeps, Install, RestoreVenvFails, Filled, At, Inside, Over
  <2>2. PICK outcome \in {"ok", "failed", "broken"} : End(t, outcome)
    BY <1>3 DEF Unprepared, NoDeps, Install, RestoreVenvFails, Filled
  <2> QED
    BY <2>1, <2>2, EndStep
<1>4. ASSUME NEW t \in Task, NEW b \in Build, Prepare(t, b) PROVE KeptInv'
  <2> DEFINE r == [job[t] EXCEPT !.pc = "swap", !.build = b, !.todo = Holds[b]]
  <2>1. r.pc = "swap" /\ job' = [job EXCEPT ![t] = r]
    BY <1>4 DEF Prepare, TypeOK, Job
  <2>2. job'[t].pc = "swap" /\ \A u \in Task : u # t => job'[u] = job[u]
    BY <2>1 DEF TypeOK
  <2>3. Inside(t) /\ At(t, "in") /\ Inside(t)'
    BY <1>4, <2>2 DEF Prepare, At, Inside, Over
  <2>4. ASSUME ~overlap PROVE Kept(t)'
    <3>1. found[t].tree = tree
      BY <2>3, <2>4 DEF KeptInv, Kept
    <3>2. run'[t] = BackupOf(t, b) /\ found' = found
      BY <1>4 DEF Prepare, TypeOK
    <3>3. Good(run[t], t)'
      BY <2>3, <3>1, <3>2, BackupGood DEF Good, Whole
    <3> QED
      BY <2>2, <3>3 DEF Kept, At
  <2> QED
    BY <1>4, <2>2, <2>3, <2>4, OwnStep DEF Prepare
<1>5. ASSUME NEW t \in Task, SwapName(t) \/ Strip(t) \/ Fill(t) PROVE KeptInv'
  <2>1. Moves(t) /\ job'[t].pc = job[t].pc /\ job'[t].from = job[t].from
                 /\ job'[t].build = job[t].build
    BY <1>5, DoneType DEF SwapName, Strip, Fill, TypeOK
  <2>2. UNCHANGED <<stable, run, found, overlap>> /\ ~At(t, "in") /\ Inside(t)
    BY <1>5 DEF SwapName, Strip, Fill, folders, At, Inside, Over
  <2>3. Inside(t)' /\ (Kept(t) => Kept(t)')
    BY <2>1, <2>2 DEF Inside, Over, Kept, Good, Whole, At, Updates
  <2> QED
    BY <2>1, <2>2, <2>3, OwnStep DEF KeptInv, Moves
<1>6. ASSUME NEW t \in Task, SwapFails(t) \/ AsideRefused(t) \/ CopyRefused(t) PROVE KeptInv'
  <2>1. run[t].names \in SUBSET Name
    BY <1>6 DEF SwapFails, AsideRefused, CopyRefused, At, TypeOK, Backup
  <2>2. Moves(t) /\ job'[t].pc = "strip" /\ job'[t].from = "run"
    BY <1>6, <2>1, PutBackType DEF SwapFails, AsideRefused, CopyRefused, TypeOK
  <2>3. /\ UNCHANGED <<run, found, overlap>> /\ Inside(t)
        /\ job[t].pc \in {"swap", "aside", "place", "copy"}
    BY <1>6 DEF SwapFails, AsideRefused, CopyRefused, folders, At, Inside, Over
  <2>4. Inside(t)' /\ (Kept(t) => Kept(t)')
    BY <2>2, <2>3 DEF Inside, Over, Kept, Good, Whole, At
  <2> QED
    BY <2>2, <2>3, <2>4, OwnStep DEF KeptInv, Moves
<1>7. ASSUME NEW t \in Task, Swapped(t) \/ MoveAside(t) \/ PlaceRefused(t) PROVE KeptInv'
  <2>1. Moves(t) /\ job'[t].pc \in {"aside", "place", "copy"}
    BY <1>7, GoType DEF Swapped, MoveAside, PlaceRefused, TypeOK
  <2>2. /\ UNCHANGED <<run, found, overlap>> /\ Inside(t)
        /\ job[t].pc \in {"swap", "aside", "place"}
    BY <1>7 DEF Swapped, MoveAside, PlaceRefused, folders, At, Inside, Over
  <2>3. Inside(t)' /\ (Kept(t) => Kept(t)')
    BY <2>1, <2>2 DEF Inside, Over, Kept, Good, Whole, At
  <2> QED
    BY <2>1, <2>2, <2>3, OwnStep DEF KeptInv, Moves
<1>8. ASSUME NEW t \in Task, Place(t) \/ CopyIntoPlace(t) PROVE KeptInv'
  <2>1. Moves(t) /\ job'[t].pc = "tidy"
    BY <1>8, GoType DEF Place, CopyIntoPlace, TypeOK
  <2>2. /\ stable' = run[t] /\ UNCHANGED <<found, overlap>> /\ Inside(t)
        /\ job[t].pc \in {"place", "copy"}
    BY <1>8 DEF Place, CopyIntoPlace, At, Inside, Over
  <2>3. Inside(t)' /\ (Kept(t) => Kept(t)')
    BY <2>1, <2>2 DEF Inside, Over, Kept, Good, Whole, At
  <2> QED
    BY <2>1, <2>2, <2>3, OwnStep DEF KeptInv, Moves
<1>9. ASSUME NEW t \in Task, Tidy(t) \/ KeepVenv(t) \/ KeepVenvFails(t) \/ InstallFails(t)
      PROVE  KeptInv'
  <2>1. Moves(t) /\ job'[t].pc \in {"post", "deps", "venv"} /\ job'[t].build = job[t].build
    BY <1>9, GoType DEF Tidy, KeepVenv, KeepVenvFails, InstallFails, TypeOK
  <2>2. /\ UNCHANGED <<stable, found, overlap>> /\ Inside(t)
        /\ job[t].pc \in {"tidy", "post", "deps"}
    BY <1>9 DEF Tidy, KeepVenv, KeepVenvFails, InstallFails, folders, At, Inside, Over
  <2>3. Inside(t)' /\ (Kept(t) => Kept(t)')
    BY <2>1, <2>2 DEF Inside, Over, Kept, Good, Whole, At, Updates
  <2> QED
    BY <2>1, <2>2, <2>3, OwnStep DEF KeptInv, Moves
<1>10. ASSUME NEW t \in Task, RollBack(t) PROVE KeptInv'
  <2>1. Moves(t) /\ job'[t].pc = "venv" /\ job'[t].build = job[t].build
    BY <1>10, GoType DEF RollBack, TypeOK
  <2>2. UNCHANGED <<found, overlap>> /\ Inside(t) /\ At(t, "in")
    BY <1>10 DEF RollBack, At, Inside, Over
  <2>3. Inside(t)' /\ (Kept(t) => Kept(t)')
    BY <2>1, <2>2 DEF Inside, Over, Kept, At, Updates
  <2> QED
    BY <2>1, <2>2, <2>3, OwnStep DEF KeptInv, Moves
<1>11. ASSUME NEW t \in Task, RestoreVenv(t) PROVE KeptInv'
  <2>1. Moves(t) /\ job'[t].pc = "strip" /\ job'[t].from = "stable"
                 /\ job'[t].build = job[t].build
    BY <1>11, RestoreType
  <2>2. UNCHANGED <<stable, found, overlap>> /\ Inside(t) /\ At(t, "venv")
    BY <1>11 DEF RestoreVenv, folders, At, Inside, Over
  <2>3. Inside(t)' /\ (Kept(t) => Kept(t)')
    BY <2>1, <2>2 DEF Inside, Over, Kept, Good, Whole, At, Updates
  <2> QED
    BY <2>1, <2>2, <2>3, OwnStep DEF KeptInv, Moves
<1>12. ASSUME NEW t \in Task, Stripped(t) PROVE KeptInv'
  <2>1. Moves(t) /\ job'[t].pc = "fill" /\ job'[t].from = job[t].from
                 /\ job'[t].build = job[t].build
    BY <1>12, StrippedType
  <2>2. UNCHANGED <<stable, run, found, overlap>> /\ Inside(t) /\ At(t, "strip")
    BY <1>12 DEF Stripped, folders, At, Inside, Over
  <2>3. Inside(t)' /\ (Kept(t) => Kept(t)')
    BY <2>1, <2>2 DEF Inside, Over, Kept, Good, Whole, At, Updates
  <2> QED
    BY <2>1, <2>2, <2>3, OwnStep DEF KeptInv, Moves
<1>13. ASSUME NEW t \in Task, Crash(t) PROVE KeptInv'
  <2>1. Moves(t) /\ job'[t].pc = "dead" /\ job'[t].build = job[t].build
    BY <1>13, DeadType DEF Crash, TypeOK
  <2>2. UNCHANGED <<stable, run, found, overlap>> /\ Inside(t)
    BY <1>13 DEF Crash
  <2>3. job[t].pc \in {"in", "swap", "aside", "place", "copy", "tidy", "post", "deps", "venv",
                       "strip", "fill"}
    BY <2>2 DEF TypeOK, Job, Inside, Over
  <2>4. (Kept(t) /\ Updates(t)) => Good(stable, t) \/ Good(run[t], t)
    BY <2>3 DEF Kept, At
  <2>5. At(t, "dead")' /\ (Kept(t) => (Updates(t)' => Recoverable(t)'))
    BY <2>1, <2>2, <2>4 DEF At, Updates, Recoverable, Good, Whole
  <2> QED
    BY <2>1, <2>2, <2>5, OwnStep DEF KeptInv, Moves
<1> QED
  BY <1>0, <1>1, <1>2, <1>3, <1>4, <1>5, <1>6, <1>7, <1>8, <1>9, <1>10, <1>11, <1>12, <1>13
  DEF Next

\* What an update found is kept, whatever the builds ship and however many tasks run.
THEOREM PreviousKept == Spec => []PreviousIsKept
<1>1. Init => TypeOK /\ KeptInv
  BY InitTypeOK, InitKept
<1>2. (TypeOK /\ KeptInv) /\ [Next]_vars => (TypeOK /\ KeptInv)'
  BY NextTypeOK, NextKept
<1>3. TypeOK /\ KeptInv => PreviousIsKept
  BY KeptImplies
<1> QED
  BY <1>1, <1>2, <1>3, PTL DEF Spec

----------------------------------------------------------------------------
(* What fails is undone, and a rollback is exact. *)

\* The kept venv is for the backup k, or who knows (IsFor is KeptFor(stable)).
KeptFor(k) == snap # NONE /\ (snap.for = VersionOf(k) \/ NONE \in {snap.for, VersionOf(k)})

\* What a task finds where no process died or left a broken install: the version
\* tells the dependencies.
Sane(f) == f.tree[VERSION] \in Build /\ f.venv = Deps[f.tree[VERSION]]

\* Beside the names of the backup k, the tree is the one its maker found.
SameOff(k, names) == \A n \in Name \ k.names : names[n] = k.found.tree[n]

\* A backup that a rollback may read: its venv is the current one, or there is a kept
\* one that says so, or one that makes the rollback fail.
Sound(k) ==
  /\ Whole(k) /\ VERSION \in k.names
  /\ venv = k.found.venv \/ KeptFor(k) \/ Torn
  /\ Unharmed(Task) => Sane(k.found)

SnapSound ==
  snap # NONE => /\ snap.venv \in {NONE, snap.found.venv}
                 /\ Unharmed(Task) => Sane(snap.found) /\ snap.for = snap.found.tree[VERSION]

AtRest ==
  Unharmed(Task) => /\ Sane([tree |-> tree, venv |-> venv])
                    /\ stable # NONE => SameOff(stable, tree)

\* An update has replaced the names of its backup k, but for those to do.
Replaced(k, t) ==
  /\ VERSION \in k.names /\ job[t].todo \subseteq k.names
  /\ \A n \in Name \ k.names : tree[n] = found[t].tree[n]
  /\ \A n \in k.names \ job[t].todo : tree[n] = job[t].build

\* The names of the backup k are put back, but for those to do and the failed ones.
Restored(k, t) ==
  /\ k # NONE
  /\ \A n \in Name \ k.names : tree[n] = found[t].tree[n]
  /\ IF At(t, "strip")
       THEN /\ job[t].todo \subseteq k.names
            /\ \A n \in k.names \ (job[t].todo \cup job[t].errs) : tree[n] = NONE
       ELSE /\ job[t].todo \subseteq DOMAIN k.files
            /\ \A n \in k.names \ (job[t].todo \cup job[t].errs) : tree[n] = k.found.tree[n]

\* What a task inside has done so far.
Sanely(t) ==
  Unharmed(Task) => Sane(found[t]) /\ (stable # NONE => SameOff(stable, found[t].tree))

Clean(t) ==
  job[t].pc \in {"in", "swap", "aside", "place", "copy", "tidy", "post", "deps", "venv"}
    => job[t].errs = {} /\ job[t].cur = NONE

Swapping(t) ==
  /\ job[t].pc \in {"swap", "aside", "place", "copy"} => Replaced(run[t], t)
  /\ job[t].pc \in {"tidy", "post", "deps"} => Replaced(stable, t)
  /\ job[t].pc \in {"aside", "place", "copy", "tidy", "post", "deps"} => job[t].todo = {}

\* The backup moved aside may come back as the stable one.
MovedAside(t) ==
  (job[t].pc \in {"place", "copy"} /\ aside[t] # NONE)
    => Sound(aside[t]) /\ (Unharmed(Task) => SameOff(aside[t], found[t].tree))

SameVenv(t) ==
  /\ job[t].pc \in {"in", "swap", "aside", "place", "copy", "tidy", "post", "deps"}
       => venv = found[t].venv
  /\ At(t, "deps") => KeptFor(stable)

ToRestore(t) ==
  At(t, "venv") =>
    IF Updates(t) THEN \A n \in Name \ stable.names : tree[n] = found[t].tree[n]
    ELSE stable # NONE /\ found[t] = [tree |-> tree, venv |-> venv]

Restoring(t) ==
  job[t].pc \in {"strip", "fill"} =>
    /\ Restored(Source(t), t)
    /\ \/ /\ job[t].from = "run" /\ Updates(t)
          /\ venv = found[t].venv /\ job[t].cur = NONE
       \/ /\ job[t].from = "stable"
          /\ \/ ~KeptFor(stable) /\ ~Torn /\ job[t].cur = NONE
             \/ KeptFor(stable) /\ venv = snap.venv

Stage(t) ==
  /\ Sanely(t) /\ Clean(t) /\ Swapping(t) /\ MovedAside(t)
  /\ SameVenv(t) /\ ToRestore(t) /\ Restoring(t)

ExactInv ==
  ~overlap =>
    /\ stable # NONE => Sound(stable)
    /\ SnapSound
    /\ (\A t \in Task : ~Inside(t)) => AtRest
    /\ \A t \in Task : Inside(t) => Stage(t)

\* What holds of the task inside, or of the install when it is out again.
Exact(t) ==
  /\ stable # NONE => Sound(stable)
  /\ SnapSound
  /\ IF Inside(t) THEN Stage(t) ELSE AtRest

\* What an action of t leaves of the fields of its job.
LEMMA GoFields ==
  ASSUME job \in [Task -> Job], NEW t \in Task, NEW place, Go(t, place)
  PROVE  /\ job'[t].pc = place /\ job'[t].build = job[t].build
         /\ job'[t].from = job[t].from /\ job'[t].todo = job[t].todo
         /\ job'[t].errs = job[t].errs /\ job'[t].cur = job[t].cur
         /\ \A u \in Task : u # t => job'[u] = job[u]
<1>1. job[t] \in Job
  OBVIOUS
<1> DEFINE r == [job[t] EXCEPT !.pc = place]
<1>2. /\ r.pc = place /\ r.build = job[t].build /\ r.from = job[t].from
      /\ r.todo = job[t].todo /\ r.errs = job[t].errs /\ r.cur = job[t].cur
  BY <1>1 DEF Job
<1>3. job' = [job EXCEPT ![t] = r]
  BY DEF Go
<1> QED BY <1>2, <1>3

LEMMA PutBackFields ==
  ASSUME job \in [Task -> Job], NEW t \in Task, NEW from, NEW names, PutBack(t, from, names)
  PROVE  /\ job'[t].pc = "strip" /\ job'[t].build = job[t].build
         /\ job'[t].from = from /\ job'[t].todo = names
         /\ job'[t].errs = job[t].errs /\ job'[t].cur = job[t].cur
         /\ \A u \in Task : u # t => job'[u] = job[u]
<1>1. job[t] \in Job
  OBVIOUS
<1> DEFINE r == [job[t] EXCEPT !.pc = "strip", !.from = from, !.todo = names]
<1>2. /\ r.pc = "strip" /\ r.build = job[t].build /\ r.from = from
      /\ r.todo = names /\ r.errs = job[t].errs /\ r.cur = job[t].cur
  BY <1>1 DEF Job
<1>3. job' = [job EXCEPT ![t] = r]
  BY DEF PutBack
<1> QED BY <1>2, <1>3

LEMMA DoneFields ==
  ASSUME job \in [Task -> Job], NEW t \in Task, NEW n,
         job' = [job EXCEPT ![t].todo = @ \ {n}]
  PROVE  /\ job'[t].pc = job[t].pc /\ job'[t].build = job[t].build
         /\ job'[t].from = job[t].from /\ job'[t].todo = job[t].todo \ {n}
         /\ job'[t].errs = job[t].errs /\ job'[t].cur = job[t].cur
         /\ \A u \in Task : u # t => job'[u] = job[u]
<1>1. job[t] \in Job
  OBVIOUS
<1> DEFINE r == [job[t] EXCEPT !.todo = @ \ {n}]
<1>2. /\ r.pc = job[t].pc /\ r.build = job[t].build /\ r.from = job[t].from
      /\ r.todo = job[t].todo \ {n} /\ r.errs = job[t].errs /\ r.cur = job[t].cur
  BY <1>1 DEF Job
<1>3. job' = [job EXCEPT ![t] = r]
  OBVIOUS
<1> QED BY <1>2, <1>3

LEMMA ErrFields ==
  ASSUME job \in [Task -> Job], NEW t \in Task, NEW n,
         job' = [job EXCEPT ![t].todo = @ \ {n}, ![t].errs = @ \cup {n}]
  PROVE  /\ job'[t].pc = job[t].pc /\ job'[t].build = job[t].build
         /\ job'[t].from = job[t].from /\ job'[t].todo = job[t].todo \ {n}
         /\ job'[t].errs = job[t].errs \cup {n} /\ job'[t].cur = job[t].cur
         /\ \A u \in Task : u # t => job'[u] = job[u]
<1>1. job[t] \in Job
  OBVIOUS
<1> DEFINE r == [job[t] EXCEPT !.todo = @ \ {n}, !.errs = @ \cup {n}]
<1>2. /\ r.pc = job[t].pc /\ r.build = job[t].build /\ r.from = job[t].from
      /\ r.todo = job[t].todo \ {n} /\ r.errs = job[t].errs \cup {n} /\ r.cur = job[t].cur
  BY <1>1 DEF Job
<1>3. job' = [job EXCEPT ![t] = r]
  OBVIOUS
<1> QED BY <1>2, <1>3

\* Harm is for good: a process that died or left a broken install stays so.
LEMMA HarmStays ==
  ASSUME NEW t \in Task, ~Over(t), \A u \in Task : u # t => job'[u] = job[u],
         Unharmed(Task)'
  PROVE  Unharmed(Task)
  BY DEF Unharmed, Over

LEMMA SwapNameExact ==
  ASSUME TypeOK, NEW t \in Task, Inside(t), Kept(t), Exact(t), SwapName(t)
  PROVE  Exact(t)'
<1>1. PICK n \in job[t].todo : /\ tree' = [tree EXCEPT ![n] = job[t].build]
                               /\ job' = [job EXCEPT ![t].todo = @ \ {n}]
  BY DEF SwapName
<1>2. /\ job'[t].pc = "swap" /\ job'[t].build = job[t].build /\ job'[t].errs = job[t].errs
      /\ job'[t].todo = job[t].todo \ {n} /\ job'[t].cur = job[t].cur
      /\ \A u \in Task : u # t => job'[u] = job[u]
  BY <1>1, DoneFields DEF TypeOK, SwapName, At
<1>3. Unharmed(Task)' => Unharmed(Task)
  BY <1>2, HarmStays DEF Inside
<1>4. /\ At(t, "swap") /\ Inside(t)' /\ tree \in Tree
      /\ UNCHANGED <<venv, stable, aside, run, snap, found>>
  BY <1>2 DEF SwapName, At, Inside, Over, TypeOK, folders
<1>5. (stable # NONE => Sound(stable))' /\ SnapSound'
  BY <1>3, <1>4 DEF Exact, Sound, SnapSound, Whole, KeptFor, Torn, VersionOf, Sane
<1>6. Replaced(run[t], t)'
  <2>1. Replaced(run[t], t) BY <1>4 DEF Exact, Stage, Swapping, At
  <2>2. n \in Name /\ n \in run[t].names /\ tree'[n] = job[t].build
        /\ \A m \in Name : m # n => tree'[m] = tree[m]
    BY <2>1, <1>1, <1>4 DEF Replaced, TypeOK, Job, Tree
  <2>3. run[t].names \in SUBSET Name
    BY <1>4 DEF TypeOK, Backup, At
  <2> QED BY <2>1, <2>2, <2>3, <1>2, <1>4 DEF Replaced
<1>7. Sanely(t)' /\ Clean(t)' /\ SameVenv(t)'
  BY <1>2, <1>3, <1>4 DEF Exact, Stage, Sanely, Clean, SameVenv, Sane, SameOff, At
<1> QED BY <1>2, <1>4, <1>5, <1>6, <1>7
        DEF Exact, Stage, Swapping, MovedAside, ToRestore, Restoring, At

\* A backup stays sound while the venv and the kept one stay.
LEMMA SoundStays ==
  ASSUME NEW k, Sound(k), UNCHANGED <<venv, snap>>, Unharmed(Task)' => Unharmed(Task)
  PROVE  Sound(k)'
  BY DEF Sound, KeptFor, Torn, Whole, VersionOf, Sane

\* So do all of them when the folders stay.
LEMMA FoldersStay ==
  ASSUME NEW t \in Task, Exact(t), UNCHANGED <<venv, stable, snap>>,
         Unharmed(Task)' => Unharmed(Task)
  PROVE  (stable # NONE => Sound(stable))' /\ SnapSound'
  BY DEF Exact, Sound, SnapSound, Whole, KeptFor, Torn, VersionOf, Sane

\* The backup in the scratch folder of an update that has replaced its names.
LEMMA RunSound ==
  ASSUME TypeOK, NEW t \in Task, Kept(t), Stage(t), job[t].pc \in {"swap", "aside", "place", "copy"}
  PROVE  /\ run[t] # NONE /\ run[t].names \in SUBSET Name /\ Sound(run[t])
         /\ run[t].found = found[t] /\ SameOff(run[t], found[t].tree)
         /\ Replaced(run[t], t) /\ venv = found[t].venv /\ Updates(t)
         /\ Good(run[t], t)
<1>1. /\ Good(run[t], t) /\ Replaced(run[t], t) /\ venv = found[t].venv
  BY DEF Kept, Stage, Swapping, SameVenv
<1>2. /\ run[t] # NONE /\ run[t].names \in SUBSET Name /\ Updates(t)
  BY DEF TypeOK, Backup
<1> QED BY <1>1, <1>2 DEF Good, Replaced, Sound, Stage, Sanely, SameOff

\* Moves of an update that leave the tree and the backups.
LEMMA SwappedExact ==
  ASSUME TypeOK, NEW t \in Task, Inside(t), Kept(t), Exact(t), Swapped(t) \/ PlaceRefused(t)
  PROVE  Exact(t)'
<1>1. /\ job[t].pc \in {"swap", "place"} /\ job[t].todo = {}
      /\ \/ job[t].pc = "swap" /\ job'[t].pc = "aside"
         \/ job[t].pc = "place" /\ job'[t].pc = "copy"
      /\ job'[t].build = job[t].build /\ job'[t].todo = job[t].todo
      /\ job'[t].errs = job[t].errs /\ job'[t].cur = job[t].cur
      /\ \A u \in Task : u # t => job'[u] = job[u]
  BY GoFields DEF Swapped, PlaceRefused, At, TypeOK, Exact, Stage, Swapping
<1>2. Unharmed(Task)' => Unharmed(Task)
  BY <1>1, HarmStays DEF Inside
<1>3. Inside(t)' /\ UNCHANGED <<tree, venv, stable, aside, run, snap, found>>
  BY <1>1 DEF Swapped, PlaceRefused, Inside, Over, folders
<1>4. (stable # NONE => Sound(stable))' /\ SnapSound'
  BY <1>2, <1>3, FoldersStay
<1>5. Replaced(run[t], t)'
  BY <1>1, <1>3, RunSound DEF Exact, Replaced
<1>6. MovedAside(t)'
  <2> SUFFICES ASSUME job[t].pc = "place", aside[t] # NONE
               PROVE  Sound(aside[t])' /\ (Unharmed(Task) => SameOff(aside[t], found[t].tree))'
    BY <1>1, <1>3 DEF MovedAside
  <2>1. Sound(aside[t]) /\ (Unharmed(Task) => SameOff(aside[t], found[t].tree))
    BY DEF Exact, Stage, MovedAside
  <2> QED BY <2>1, <1>2, <1>3 DEF Sound, KeptFor, Torn, Whole, VersionOf, Sane, SameOff
<1>7. Sanely(t)' /\ Clean(t)' /\ SameVenv(t)'
  BY <1>1, <1>2, <1>3 DEF Exact, Stage, Sanely, Clean, SameVenv, Sane, SameOff, At
<1> QED BY <1>1, <1>3, <1>4, <1>5, <1>6, <1>7
        DEF Exact, Stage, Swapping, ToRestore, Restoring, At

\* An update that fails before its backup is in place begins to undo the swap.
LEMMA UndoExact ==
  ASSUME TypeOK, NEW t \in Task, Inside(t), Kept(t), Exact(t),
         SwapFails(t) \/ AsideRefused(t) \/ CopyRefused(t)
  PROVE  Exact(t)'
<1>1. /\ job[t].pc \in {"swap", "aside", "copy"} /\ PutBack(t, "run", run[t].names)
      /\ UNCHANGED <<venv, run, snap, found>>
  BY DEF SwapFails, AsideRefused, CopyRefused, At, folders
<1>2. /\ job'[t].pc = "strip" /\ job'[t].build = job[t].build /\ job'[t].from = "run"
      /\ job'[t].todo = run[t].names /\ job'[t].errs = job[t].errs /\ job'[t].cur = job[t].cur
      /\ \A u \in Task : u # t => job'[u] = job[u]
  BY <1>1, PutBackFields DEF TypeOK
<1>3. Unharmed(Task)' => Unharmed(Task)
  BY <1>2, HarmStays DEF Inside
<1>4. /\ run[t] # NONE /\ run[t].names \in SUBSET Name /\ Replaced(run[t], t)
      /\ venv = found[t].venv /\ Updates(t) /\ job[t].cur = NONE
  BY <1>1, RunSound DEF Exact, Stage, Clean
<1>5. \A n \in Name \ run[t].names : tree'[n] = found[t].tree[n]
  <2>1. \/ tree' = tree
        \/ \E n \in job[t].todo : tree' = [tree EXCEPT ![n] = TORN]
    BY DEF SwapFails, AsideRefused, CopyRefused
  <2>2. job[t].todo \subseteq run[t].names BY <1>4 DEF Replaced
  <2> QED BY <2>1, <2>2, <1>4 DEF Replaced, TypeOK, Tree
<1>6. Inside(t)' BY <1>2 DEF Inside, Over
<1>7. Restoring(t)'
  BY <1>1, <1>2, <1>4, <1>5 DEF Restoring, Restored, Source, Updates, At
<1>8. SnapSound' BY <1>1, <1>3 DEF Exact, SnapSound, Sane
<1>9. (stable # NONE => Sound(stable))' /\ Sanely(t)'
  <2>1. CASE stable' = stable
    BY <2>1, <1>1, <1>3 DEF Exact, Stage, Sanely, Sound, Whole, KeptFor, Torn, VersionOf, Sane, SameOff
  <2>2. CASE stable' = aside[t] /\ job[t].pc = "copy"
    <3>1. CASE aside[t] = NONE
      BY <3>1, <2>2, <1>1, <1>3 DEF Exact, Stage, Sanely, Sane
    <3>2. CASE aside[t] # NONE
      <4>1. Sound(aside[t]) /\ (Unharmed(Task) => SameOff(aside[t], found[t].tree))
        BY <3>2, <2>2 DEF Exact, Stage, MovedAside
      <4>2. (Unharmed(Task) => Sane(found[t])) BY DEF Exact, Stage, Sanely
      <4> QED
        BY <4>1, <4>2, <2>2, <1>1, <1>3
           DEF Sanely, Sound, Whole, KeptFor, Torn, VersionOf, Sane, SameOff
    <3> QED BY <3>1, <3>2
  <2> QED BY <2>1, <2>2 DEF SwapFails, AsideRefused, CopyRefused, folders, At
<1> QED BY <1>2, <1>6, <1>7, <1>8, <1>9
        DEF Exact, Stage, Clean, Swapping, MovedAside, SameVenv, ToRestore, At

LEMMA MoveAsideExact ==
  ASSUME TypeOK, NEW t \in Task, Inside(t), Kept(t), Exact(t), MoveAside(t)
  PROVE  Exact(t)'
<1>1. /\ job[t].pc = "aside" /\ job'[t].pc = "place" /\ job'[t].build = job[t].build
      /\ job'[t].todo = job[t].todo /\ job[t].todo = {}
      /\ job'[t].errs = job[t].errs /\ job'[t].cur = job[t].cur
      /\ \A u \in Task : u # t => job'[u] = job[u]
  BY GoFields DEF MoveAside, At, TypeOK, Exact, Stage, Swapping
<1>2. Unharmed(Task)' => Unharmed(Task)
  BY <1>1, HarmStays DEF Inside
<1>3. /\ Inside(t)' /\ UNCHANGED <<tree, venv, run, snap, found>>
      /\ stable' = NONE /\ aside'[t] = stable
  BY <1>1 DEF MoveAside, Inside, Over, TypeOK
<1>4. SnapSound' BY <1>2, <1>3 DEF Exact, SnapSound, Sane
<1>5. Replaced(run[t], t)'
  BY <1>1, <1>3, RunSound DEF Exact, Replaced
<1>6. MovedAside(t)'
  BY <1>2, <1>3
     DEF Exact, Stage, Sanely, MovedAside, Sound, KeptFor, Torn, Whole, VersionOf, Sane, SameOff
<1>7. Sanely(t)' /\ Clean(t)' /\ SameVenv(t)'
  BY <1>1, <1>2, <1>3 DEF Exact, Stage, Sanely, Clean, SameVenv, Sane, At
<1> QED BY <1>1, <1>3, <1>4, <1>5, <1>6, <1>7
        DEF Exact, Stage, Swapping, ToRestore, Restoring, At

\* The new backup is the stable one.
LEMMA PlaceExact ==
  ASSUME TypeOK, NEW t \in Task, Inside(t), Kept(t), Exact(t), Place(t) \/ CopyIntoPlace(t)
  PROVE  Exact(t)'
<1>1. /\ job[t].pc \in {"place", "copy"} /\ job'[t].pc = "tidy" /\ job'[t].build = job[t].build
      /\ job'[t].todo = job[t].todo /\ job[t].todo = {}
      /\ job'[t].errs = job[t].errs /\ job'[t].cur = job[t].cur
      /\ \A u \in Task : u # t => job'[u] = job[u]
  BY GoFields DEF Place, CopyIntoPlace, At, TypeOK, Exact, Stage, Swapping
<1>2. Unharmed(Task)' => Unharmed(Task)
  BY <1>1, HarmStays DEF Inside
<1>3. /\ Inside(t)' /\ UNCHANGED <<tree, venv, snap, found>> /\ stable' = run[t]
  BY <1>1 DEF Place, CopyIntoPlace, Inside, Over
<1>4. SnapSound' BY <1>2, <1>3 DEF Exact, SnapSound, Sane
<1>5. /\ Sound(run[t]) /\ SameOff(run[t], found[t].tree) /\ Replaced(run[t], t)
  BY <1>1, RunSound DEF Exact
<1>6. Sound(stable)' /\ Replaced(stable, t)'
  BY <1>1, <1>2, <1>3, <1>5 DEF Sound, KeptFor, Torn, Whole, VersionOf, Sane, Replaced
<1>7. Sanely(t)' /\ Clean(t)' /\ SameVenv(t)'
  BY <1>1, <1>2, <1>3, <1>5 DEF Exact, Stage, Sanely, Clean, SameVenv, Sane, SameOff, At
<1> QED BY <1>1, <1>3, <1>4, <1>6, <1>7
        DEF Exact, Stage, Swapping, MovedAside, ToRestore, Restoring, At

\* The stable backup of an update that is past the swap.
LEMMA StableSound ==
  ASSUME TypeOK, NEW t \in Task, Kept(t), Stage(t), job[t].pc \in {"tidy", "post", "deps"}
  PROVE  /\ stable # NONE /\ Good(stable, t) /\ stable \in Backup
         /\ Replaced(stable, t) /\ job[t].todo = {} /\ Updates(t)
         /\ venv = stable.found.venv /\ venv = found[t].venv
  BY DEF TypeOK, Kept, Stage, Swapping, SameVenv, Good

\* A sound backup of an install that nothing harmed has its version.
LEMMA VersionTold ==
  ASSUME NEW k \in Backup, Whole(k), VERSION \in k.names, Sane(k.found)
  PROVE  VersionOf(k) = k.found.tree[VERSION] /\ VersionOf(k) \in Build
<1>1. k.found.tree[VERSION] \in Build /\ k.found.tree[VERSION] \notin {TORN, NONE}
  BY UpdaterAssumption DEF Sane
<1>2. DOMAIN k.files = {m \in k.names : k.found.tree[m] # NONE}
  BY DEF Whole
<1>3. VERSION \in DOMAIN k.files BY <1>1, <1>2
<1>4. k.files[VERSION] = k.found.tree[VERSION] BY <1>3 DEF Whole
<1> QED BY <1>1, <1>3, <1>4 DEF VersionOf

\* The venv kept beside the backups is removed, or cannot be.
LEMMA DiscardExact ==
  ASSUME TypeOK, NEW t \in Task, Inside(t), Kept(t), Exact(t), Tidy(t) \/ KeepVenvFails(t)
  PROVE  Exact(t)'
<1>1. /\ \/ job[t].pc = "tidy" /\ job'[t].pc = "post"
         \/ job[t].pc = "post" /\ job'[t].pc = "venv"
      /\ job'[t].build = job[t].build
      /\ job'[t].todo = job[t].todo /\ job[t].todo = {}
      /\ job'[t].errs = job[t].errs /\ job'[t].cur = job[t].cur
      /\ \A u \in Task : u # t => job'[u] = job[u]
  BY GoFields DEF Tidy, KeepVenvFails, At, TypeOK, Exact, Stage, Swapping
<1>2. Unharmed(Task)' => Unharmed(Task)
  BY <1>1, HarmStays DEF Inside
<1>3. Inside(t)' /\ UNCHANGED <<tree, venv, stable, found>> /\ snap' \in Discarded
  BY <1>1 DEF Tidy, KeepVenvFails, Inside, Over
<1>4. /\ Good(stable, t) /\ Replaced(stable, t) /\ Updates(t) /\ stable # NONE
      /\ venv = stable.found.venv /\ venv = found[t].venv
  BY <1>1, StableSound DEF Exact
<1>5. SnapSound'
  <2>1. CASE snap' = NONE BY <2>1 DEF SnapSound
  <2>2. CASE snap # NONE /\ snap' \in {snap, [snap EXCEPT !.venv = NONE]}
    <3>1. snap'.found = snap.found /\ snap'.for = snap.for /\ snap'.venv \in {NONE, snap.venv}
      BY <2>2 DEF TypeOK, Snapshot
    <3> QED BY <3>1, <2>2, <1>2, <1>3 DEF Exact, SnapSound, Sane
  <2> QED BY <2>1, <2>2, <1>3 DEF Discarded
<1>6. Sound(stable)'
  BY <1>2, <1>3, <1>4 DEF Exact, Sound, Whole, Sane
<1>7. Replaced(stable, t)'
  BY <1>1, <1>3, <1>4 DEF Replaced
<1>8. ToRestore(t)'
  BY <1>1, <1>3, <1>4 DEF ToRestore, Replaced, Updates
<1>9. Sanely(t)' /\ Clean(t)' /\ SameVenv(t)'
  BY <1>1, <1>2, <1>3, <1>4 DEF Exact, Stage, Sanely, Clean, SameVenv, Sane, SameOff, At
<1> QED BY <1>1, <1>3, <1>5, <1>6, <1>7, <1>8, <1>9
        DEF Exact, Stage, Swapping, MovedAside, Restoring, At

LEMMA KeepVenvExact ==
  ASSUME TypeOK, NEW t \in Task, Inside(t), Kept(t), Exact(t), KeepVenv(t)
  PROVE  Exact(t)'
<1>1. /\ job[t].pc = "post" /\ job'[t].pc = "deps" /\ job'[t].build = job[t].build
      /\ job'[t].todo = job[t].todo /\ job[t].todo = {}
      /\ job'[t].errs = job[t].errs /\ job'[t].cur = job[t].cur
      /\ \A u \in Task : u # t => job'[u] = job[u]
  BY GoFields DEF KeepVenv, At, TypeOK, Exact, Stage, Swapping
<1>2. Unharmed(Task)' => Unharmed(Task)
  BY <1>1, HarmStays DEF Inside
<1>3. Inside(t)' /\ UNCHANGED <<tree, venv, stable, found>> /\ snap' = KeptVenv
  BY <1>1 DEF KeepVenv, Inside, Over
<1>4. /\ Good(stable, t) /\ Replaced(stable, t) /\ stable # NONE /\ stable \in Backup
      /\ venv = stable.found.venv /\ venv = found[t].venv /\ Sound(stable)
  BY <1>1, StableSound DEF Exact
<1>5. /\ snap' # NONE /\ snap'.venv = venv /\ snap'.for = VersionOf(stable)
      /\ snap'.found = stable.found
  BY <1>3, <1>4, KeptType, UpdaterAssumption DEF KeptVenv
<1>6. SnapSound'
  BY <1>2, <1>4, <1>5, VersionTold DEF Sound, SnapSound, Sane
<1>7. Sound(stable)' /\ KeptFor(stable)'
  BY <1>2, <1>3, <1>4, <1>5 DEF Sound, KeptFor, Whole, Sane, VersionOf
<1>8. Replaced(stable, t)'
  BY <1>1, <1>3, <1>4 DEF Replaced
<1>9. Sanely(t)' /\ Clean(t)' /\ SameVenv(t)'
  BY <1>1, <1>2, <1>3, <1>4, <1>7 DEF Exact, Stage, Sanely, Clean, SameVenv, Sane, SameOff, At
<1> QED BY <1>1, <1>3, <1>4, <1>6, <1>7, <1>8, <1>9
        DEF Exact, Stage, Swapping, MovedAside, ToRestore, Restoring, At

LEMMA InstallFailsExact ==
  ASSUME TypeOK, NEW t \in Task, Inside(t), Kept(t), Exact(t), InstallFails(t)
  PROVE  Exact(t)'
<1>1. /\ job[t].pc = "deps" /\ job'[t].pc = "venv" /\ job'[t].build = job[t].build
      /\ job'[t].todo = job[t].todo /\ job[t].todo = {}
      /\ job'[t].errs = job[t].errs /\ job'[t].cur = job[t].cur
      /\ \A u \in Task : u # t => job'[u] = job[u]
  BY GoFields DEF InstallFails, At, TypeOK, Exact, Stage, Swapping
<1>2. Unharmed(Task)' => Unharmed(Task)
  BY <1>1, HarmStays DEF Inside
<1>3. Inside(t)' /\ UNCHANGED <<tree, stable, snap, found>>
  BY <1>1 DEF InstallFails, Inside, Over, folders
<1>4. Replaced(stable, t) /\ Updates(t) /\ stable # NONE /\ Sound(stable) /\ KeptFor(stable)
  BY <1>1, StableSound DEF Exact, Stage, SameVenv, At
<1>5. SnapSound' BY <1>2, <1>3 DEF Exact, SnapSound, Sane
<1>6. Sound(stable)'
  BY <1>2, <1>3, <1>4 DEF Sound, KeptFor, Whole, VersionOf, Sane
<1>7. ToRestore(t)'
  BY <1>1, <1>3, <1>4 DEF ToRestore, Replaced, Updates
<1>8. Sanely(t)' /\ Clean(t)'
  BY <1>1, <1>2, <1>3 DEF Exact, Stage, Sanely, Clean, Sane, SameOff
<1> QED BY <1>1, <1>3, <1>5, <1>6, <1>7, <1>8
        DEF Exact, Stage, Swapping, MovedAside, SameVenv, Restoring, At

LEMMA RollBackExact ==
  ASSUME TypeOK, NEW t \in Task, Inside(t), Kept(t), Exact(t), RollBack(t)
  PROVE  Exact(t)'
<1>1. /\ job[t].pc = "in" /\ job'[t].pc = "venv" /\ job'[t].build = job[t].build
      /\ job'[t].errs = job[t].errs /\ job'[t].cur = job[t].cur
      /\ \A u \in Task : u # t => job'[u] = job[u]
  BY GoFields DEF RollBack, At, TypeOK
<1>2. Unharmed(Task)' => Unharmed(Task)
  BY <1>1, HarmStays DEF Inside
<1>3. Inside(t)' /\ UNCHANGED <<tree, venv, stable, snap, found>> /\ stable # NONE
  BY <1>1 DEF RollBack, Inside, Over, folders
<1>4. ~Updates(t) /\ found[t] = [tree |-> tree, venv |-> venv]
  BY <1>1 DEF Kept, At
<1>5. (stable # NONE => Sound(stable))' /\ SnapSound'
  BY <1>2, <1>3, FoldersStay
<1>6. ToRestore(t)'
  BY <1>1, <1>3, <1>4 DEF ToRestore, Updates
<1>7. Sanely(t)' /\ Clean(t)'
  BY <1>1, <1>2, <1>3 DEF Exact, Stage, Sanely, Clean, Sane, SameOff
<1> QED BY <1>1, <1>3, <1>5, <1>6, <1>7
        DEF Exact, Stage, Swapping, MovedAside, SameVenv, Restoring, At

LEMMA RestoreVenvExact ==
  ASSUME TypeOK, NEW t \in Task, Inside(t), Kept(t), Exact(t), RestoreVenv(t)
  PROVE  Exact(t)'
<1> DEFINE r(c) == [job[t] EXCEPT !.pc = "strip", !.from = "stable", !.todo = stable.names,
                                  !.cur = c]
<1>1. job[t] \in Job /\ job[t].pc = "venv" /\ stable \in Backup /\ stable # NONE
  BY DEF TypeOK, RestoreVenv, At
<1>2. \A c : /\ r(c).pc = "strip" /\ r(c).from = "stable" /\ r(c).build = job[t].build
             /\ r(c).todo = stable.names /\ r(c).errs = job[t].errs /\ r(c).cur = c
  BY <1>1 DEF Job
<1> DEFINE P(c) == /\ job' = [job EXCEPT ![t] = r(c)]
                   /\ \/ ~Torn /\ ~IsFor /\ venv' = venv /\ c = job[t].cur
                      \/ IsFor /\ venv' = snap.venv
<1>3. P(job[t].cur) \/ P(venv)
  <2>1. CASE ~Torn /\ ~IsFor /\ UNCHANGED venv
             /\ job' = [job EXCEPT ![t].pc = "strip", ![t].from = "stable", ![t].todo = stable.names]
    <3>1. [job[t] EXCEPT !.pc = "strip", !.from = "stable", !.todo = stable.names]
            = r(job[t].cur)
      BY <1>1 DEF Job
    <3>2. job' = [job EXCEPT ![t] = [job[t] EXCEPT !.pc = "strip", !.from = "stable",
                                                   !.todo = stable.names]]
      BY <2>1
    <3>3. job' = [job EXCEPT ![t] = r(job[t].cur)] BY <3>1, <3>2
    <3> QED BY <2>1, <3>3
  <2>2. CASE Restorable /\ venv' = snap.venv
             /\ job' = [job EXCEPT ![t].pc = "strip", ![t].from = "stable", ![t].todo = stable.names,
                                  ![t].cur = venv]
    <3>1. job' = [job EXCEPT ![t] = r(venv)] BY <2>2
    <3>2. IsFor /\ venv' = snap.venv BY <2>2 DEF Restorable
    <3> QED BY <3>1, <3>2
  <2> QED BY <2>1, <2>2 DEF RestoreVenv
<1> HIDE DEF P
<1>4. PICK c : P(c) BY <1>3
<1> USE DEF P
<1>5. /\ job' = [job EXCEPT ![t] = r(c)]
      /\ \/ ~Torn /\ ~IsFor /\ venv' = venv /\ c = job[t].cur
         \/ IsFor /\ venv' = snap.venv
  BY <1>4
<1> HIDE DEF r, P
<1>6. /\ job'[t].pc = "strip" /\ job'[t].from = "stable" /\ job'[t].build = job[t].build
      /\ job'[t].todo = stable.names /\ job'[t].errs = job[t].errs /\ job'[t].cur = c
      /\ \A u \in Task : u # t => job'[u] = job[u]
  BY <1>2, <1>5 DEF TypeOK
<1>7. Unharmed(Task)' => Unharmed(Task)
  BY <1>6, HarmStays DEF Inside
<1>8. Inside(t)' /\ UNCHANGED <<tree, stable, snap, found>>
  BY <1>6 DEF RestoreVenv, Inside, Over, folders
<1>9. IsFor = KeptFor(stable) BY DEF IsFor, KeptFor
<1>10. SnapSound' BY <1>7, <1>8 DEF Exact, SnapSound, Sane
<1>11. Sound(stable)'
  BY <1>1, <1>5, <1>7, <1>8, <1>9 DEF Exact, Sound, KeptFor, Torn, Whole, VersionOf, Sane
<1>12. job[t].cur = NONE /\ job[t].errs = {}
       /\ \A n \in Name \ stable.names : tree[n] = found[t].tree[n]
  BY <1>1 DEF Exact, Stage, Clean, ToRestore, At
<1>13. stable.names \in SUBSET Name BY <1>1 DEF Backup
<1>14. Restored(stable, t)'
  BY <1>1, <1>6, <1>8, <1>12, <1>13 DEF Restored, At
<1>15. \/ ~KeptFor(stable)' /\ ~Torn' /\ job'[t].cur = NONE
       \/ KeptFor(stable)' /\ venv' = snap'.venv
  BY <1>5, <1>6, <1>8, <1>9, <1>12 DEF KeptFor, Torn, VersionOf
<1>16. Restoring(t)'
  BY <1>6, <1>14, <1>15 DEF Restoring, Source, Restored
<1>17. Sanely(t)'
  BY <1>7, <1>8 DEF Exact, Stage, Sanely, Sane, SameOff
<1> QED BY <1>6, <1>8, <1>10, <1>11, <1>16, <1>17
        DEF Exact, Stage, Clean, Swapping, MovedAside, SameVenv, ToRestore, At

\* A job that ends, or whose process dies, is out.
LEMMA EndFields ==
  ASSUME job \in [Task -> Job], NEW t \in Task, NEW outcome, End(t, outcome)
  PROVE  /\ job'[t].pc = outcome /\ job'[t].errs = {}
         /\ \A u \in Task : u # t => job'[u] = job[u]
<1>1. [Fresh EXCEPT !.pc = outcome].pc = outcome /\ [Fresh EXCEPT !.pc = outcome].errs = {}
  BY DEF Fresh
<1> QED BY <1>1 DEF End

\* An install that was left as it was found is sane as it was.
LEMMA RestAsFound ==
  ASSUME NEW t \in Task, Exact(t), Inside(t), found[t].tree = tree', found[t].venv = venv',
         UNCHANGED stable, Unharmed(Task)' => Unharmed(Task)
  PROVE  AtRest'
<1>1. Unharmed(Task)' => Sane(found[t]) /\ (stable # NONE => SameOff(stable, found[t].tree))
  BY DEF Exact, Stage, Sanely
<1> QED BY <1>1 DEF AtRest, Sane, SameOff

\* An update that ends well has the names and the dependencies of its build.
LEMMA DoneExact ==
  ASSUME TypeOK, NEW t \in Task, Inside(t), Kept(t), Exact(t), NoDeps(t) \/ Install(t)
  PROVE  Exact(t)'
<1>1. /\ job[t].pc \in {"post", "deps"} /\ job'[t].pc = "ok"
      /\ \A u \in Task : u # t => job'[u] = job[u]
  BY EndFields DEF NoDeps, Install, At, TypeOK
<1>2. Unharmed(Task)' => Unharmed(Task)
  BY <1>1, HarmStays DEF Inside
<1>3. ~Inside(t)' /\ UNCHANGED <<tree, stable, snap>>
  BY <1>1 DEF NoDeps, Install, Inside, Over, folders
<1>4. /\ Good(stable, t) /\ Replaced(stable, t) /\ job[t].todo = {} /\ stable # NONE
      /\ venv = found[t].venv /\ Sound(stable)
  BY <1>1, StableSound DEF Exact
<1>5. SnapSound' BY <1>2, <1>3 DEF Exact, SnapSound, Sane
<1>6. Sound(stable)'
  <2>1. CASE NoDeps(t)
    BY <2>1, <1>2, <1>3, <1>4, SoundStays DEF NoDeps, Sound, Whole, KeptFor, Torn, VersionOf, Sane
  <2>2. CASE Install(t)
    <3>1. KeptFor(stable) BY <2>2 DEF Install, Exact, Stage, SameVenv
    <3> QED BY <3>1, <1>2, <1>3, <1>4 DEF Sound, Whole, KeptFor, Torn, VersionOf, Sane
  <2> QED BY <2>1, <2>2
<1>7. tree[VERSION] = job[t].build /\ job[t].build \in Build
  BY <1>1, <1>4 DEF Replaced, TypeOK, Job, Updates
<1>8. ASSUME Unharmed(Task) PROVE venv' = Deps[job[t].build]
  <2>1. CASE NoDeps(t)
    <3>1. Sane(found[t]) BY <1>8 DEF Exact, Stage, Sanely
    <3> QED BY <2>1, <3>1, <1>4 DEF NoDeps, DepsChanged, Sane
  <2>2. CASE Install(t) BY <2>2 DEF Install
  <2> QED BY <2>1, <2>2
<1>9. SameOff(stable, tree)
  BY <1>4 DEF Replaced, Good, SameOff
<1>10. AtRest'
  BY <1>2, <1>3, <1>7, <1>8, <1>9 DEF AtRest, Sane, SameOff
<1> QED BY <1>3, <1>5, <1>6, <1>10 DEF Exact

\* Nothing was changed yet.
LEMMA UnpreparedExact ==
  ASSUME TypeOK, NEW t \in Task, Inside(t), Kept(t), Exact(t), Unprepared(t)
  PROVE  Exact(t)'
<1>1. /\ job[t].pc = "in" /\ job'[t].pc = "failed"
      /\ \A u \in Task : u # t => job'[u] = job[u]
  BY EndFields DEF Unprepared, At, TypeOK
<1>2. Unharmed(Task)' => Unharmed(Task)
  BY <1>1, HarmStays DEF Inside
<1>3. ~Inside(t)' /\ UNCHANGED <<tree, venv, stable, snap>>
  BY <1>1 DEF Unprepared, Inside, Over, folders
<1>4. found[t].tree = tree /\ found[t].venv = venv
  BY <1>1 DEF Kept, At
<1>5. AtRest' BY <1>2, <1>3, <1>4, RestAsFound
<1> QED BY <1>2, <1>3, <1>5, FoldersStay DEF Exact

LEMMA PrepareExact ==
  ASSUME TypeOK, NEW t \in Task, Inside(t), Kept(t), Exact(t), NEW b \in Build, Prepare(t, b)
  PROVE  Exact(t)'
<1> DEFINE r == [job[t] EXCEPT !.pc = "swap", !.build = b, !.todo = Holds[b]]
<1>1. job[t] \in Job /\ job[t].pc = "in" BY DEF TypeOK, Prepare, At
<1>2. /\ r.pc = "swap" /\ r.build = b /\ r.todo = Holds[b] /\ r.errs = job[t].errs
      /\ r.cur = job[t].cur
  BY <1>1 DEF Job
<1>3. job' = [job EXCEPT ![t] = r]
  BY DEF Prepare
<1>4. /\ job'[t].pc = "swap" /\ job'[t].build = b /\ job'[t].todo = Holds[b]
      /\ job'[t].errs = job[t].errs /\ job'[t].cur = job[t].cur
      /\ \A u \in Task : u # t => job'[u] = job[u]
  BY <1>2, <1>3 DEF TypeOK
<1>5. Unharmed(Task)' => Unharmed(Task)
  BY <1>4, HarmStays DEF Inside
<1>6. /\ Inside(t)' /\ UNCHANGED <<tree, venv, stable, snap, found>>
      /\ run'[t] = BackupOf(t, b)
  BY <1>4 DEF Prepare, Inside, Over, TypeOK
<1>7. found[t].tree = tree /\ found[t].venv = venv
  BY <1>1 DEF Kept, At
<1>8. (stable # NONE => Sound(stable))' /\ SnapSound'
  BY <1>5, <1>6, FoldersStay
<1>9. run'[t].names = Holds[b] /\ VERSION \in Holds[b]
  BY <1>6, UpdaterAssumption DEF BackupOf
<1>10. Replaced(run[t], t)'
  BY <1>4, <1>6, <1>7, <1>9 DEF Replaced
<1>11. Sanely(t)' /\ Clean(t)' /\ SameVenv(t)'
  BY <1>1, <1>4, <1>5, <1>6, <1>7
     DEF Exact, Stage, Sanely, Clean, SameVenv, Sane, SameOff, At
<1> QED BY <1>4, <1>6, <1>8, <1>10, <1>11
        DEF Exact, Stage, Swapping, MovedAside, ToRestore, Restoring, At

\* The kept venv cannot be restored: a rollback has changed nothing, unless it is
\* left broken, and an update is.
LEMMA RestoreVenvFailsExact ==
  ASSUME TypeOK, NEW t \in Task, Inside(t), Kept(t), Exact(t), RestoreVenvFails(t)
  PROVE  Exact(t)'
<1>1. PICK outcome \in {"failed", "broken"} :
        /\ End(t, outcome) /\ job[t].pc = "venv"
        /\ \/ venv' = venv /\ (outcome = "failed" => ~Updates(t))
           \/ Restorable /\ outcome = "broken"
  BY DEF RestoreVenvFails, At
<1>2. job'[t].pc = outcome /\ \A u \in Task : u # t => job'[u] = job[u]
  BY <1>1, EndFields DEF TypeOK
<1>3. Unharmed(Task)' => Unharmed(Task) /\ outcome = "failed"
  BY <1>2, HarmStays DEF Inside, Unharmed
<1>4. ~Inside(t)' /\ UNCHANGED <<tree, stable, snap>>
  BY <1>1, <1>2 DEF RestoreVenvFails, Inside, Over, folders
<1>5. SnapSound' BY <1>3, <1>4 DEF Exact, SnapSound, Sane
<1>6. (stable # NONE => Sound(stable))'
  <2>1. CASE venv' = venv BY <2>1, <1>3, <1>4, FoldersStay
  <2>2. CASE Restorable
    <3>1. KeptFor(stable) BY <2>2 DEF Restorable, IsFor, KeptFor
    <3> QED BY <3>1, <1>3, <1>4 DEF Exact, Sound, Whole, KeptFor, Torn, VersionOf, Sane
  <2> QED BY <1>1, <2>1, <2>2
<1>7. AtRest'
  <2>1. CASE outcome = "failed"
    <3>1. ~Updates(t) /\ venv' = venv BY <2>1, <1>1
    <3>2. found[t] = [tree |-> tree, venv |-> venv]
      BY <3>1, <1>1 DEF Exact, Stage, ToRestore, At
    <3> QED BY <3>1, <3>2, <1>3, <1>4, RestAsFound
  <2>2. CASE outcome = "broken" BY <2>2, <1>3 DEF AtRest
  <2> QED BY <2>1, <2>2
<1> QED BY <1>4, <1>5, <1>6, <1>7 DEF Exact

\* The process dies, of which the install tells no more.
LEMMA CrashExact ==
  ASSUME TypeOK, NEW t \in Task, Inside(t), Kept(t), Exact(t), Crash(t)
  PROVE  Exact(t)'
<1>1. job'[t].pc = "dead" BY DeadType DEF Crash, TypeOK
<1>2. ~Inside(t)' /\ ~Unharmed(Task)' /\ UNCHANGED stable
  BY <1>1 DEF Inside, Over, Unharmed, Crash
<1>3. AtRest' BY <1>2 DEF AtRest
<1>4. CASE UNCHANGED <<venv, snap>>
  <2>1. Unharmed(Task)' => Unharmed(Task) BY <1>2
  <2> QED BY <2>1, <1>2, <1>3, <1>4, FoldersStay DEF Exact
<1>5. CASE stable # NONE /\ snap' = Unreadable /\ UNCHANGED venv
  <2>1. snap'.for = TORN /\ snap'.venv = NONE /\ snap' # NONE
    BY <1>5, KeptType, UpdaterAssumption DEF Unreadable
  <2>2. SnapSound' BY <2>1, <1>2 DEF SnapSound
  <2>3. Sound(stable)' BY <2>1, <1>2, <1>5 DEF Exact, Sound, Torn, Whole
  <2> QED BY <2>2, <2>3, <1>2, <1>3 DEF Exact
<1>6. CASE (At(t, "deps") \/ (At(t, "venv") /\ Restorable)) /\ UNCHANGED snap
  <2>1. KeptFor(stable)
    BY <1>6 DEF Exact, Stage, SameVenv, Restorable, IsFor, KeptFor
  <2>2. SnapSound' BY <1>2, <1>6 DEF Exact, SnapSound
  <2>3. (stable # NONE => Sound(stable))'
    BY <2>1, <1>2, <1>6 DEF Exact, Sound, KeptFor, VersionOf, Whole
  <2> QED BY <2>2, <2>3, <1>2, <1>3 DEF Exact
<1> QED BY <1>4, <1>5, <1>6 DEF Crash

\* The backup that the tree is put back from.
LEMMA SourceWhole ==
  ASSUME TypeOK, NEW t \in Task, Kept(t), Exact(t), Inside(t), job[t].pc \in {"strip", "fill"}
  PROVE  /\ Source(t) # NONE /\ Source(t) \in Backup /\ Whole(Source(t))
         /\ Restored(Source(t), t) /\ Source(t).names \in SUBSET Name
         /\ DOMAIN Source(t).files = {n \in Source(t).names : Source(t).found.tree[n] # NONE}
<1>1. Restored(Source(t), t) /\ Source(t) # NONE
  BY DEF Exact, Stage, Restoring, Restored
<1>2. Source(t) \in Backup
  BY <1>1 DEF Source, TypeOK
<1>3. Whole(Source(t))
  <2>1. CASE job[t].from = "run" /\ Updates(t)
    BY <2>1 DEF Kept, Good, Source
  <2>2. CASE job[t].from = "stable"
    BY <2>2, <1>1 DEF Exact, Sound, Source
  <2> QED BY <2>1, <2>2 DEF Exact, Stage, Restoring
<1>4. DOMAIN Source(t).files = {n \in Source(t).names : Source(t).found.tree[n] # NONE}
  BY <1>3 DEF Whole
<1> QED BY <1>1, <1>2, <1>3, <1>4 DEF Backup

\* While the tree is put back nothing else changes.
LEMMA RestoringExact ==
  ASSUME TypeOK, NEW t \in Task, Inside(t), Exact(t),
         job[t].pc \in {"strip", "fill"}, job'[t].pc \in {"strip", "fill"},
         job'[t].from = job[t].from, job'[t].build = job[t].build, job'[t].cur = job[t].cur,
         \A u \in Task : u # t => job'[u] = job[u],
         UNCHANGED <<venv, stable, run, snap, found>>,
         Source(t)' = Source(t) => Restored(Source(t), t)'
  PROVE  Exact(t)'
<1>1. Unharmed(Task)' => Unharmed(Task)
  BY HarmStays DEF Inside
<1>2. (stable # NONE => Sound(stable))' /\ SnapSound'
  BY <1>1, FoldersStay
<1>3. Inside(t)' BY DEF Inside, Over
<1>4. Sanely(t)' BY <1>1 DEF Exact, Stage, Sanely, Sane, SameOff
<1>5. Source(t)' = Source(t) BY DEF Source
<1>6. Restoring(t)'
  BY <1>5 DEF Exact, Stage, Restoring, Updates, KeptFor, Torn, VersionOf
<1> QED BY <1>2, <1>3, <1>4, <1>6
        DEF Exact, Stage, Clean, Swapping, MovedAside, SameVenv, ToRestore, At

LEMMA StripExact ==
  ASSUME TypeOK, NEW t \in Task, Inside(t), Kept(t), Exact(t), Strip(t)
  PROVE  Exact(t)'
<1>1. PICK n \in job[t].todo :
        \/ /\ tree' = [tree EXCEPT ![n] = NONE]
           /\ job' = [job EXCEPT ![t].todo = @ \ {n}]
        \/ /\ tree' = [tree EXCEPT ![n] = TORN]
           /\ job' = [job EXCEPT ![t].todo = @ \ {n}, ![t].errs = @ \cup {n}]
  BY DEF Strip
<1>2. /\ job[t].pc = "strip" /\ job'[t].pc = "strip" /\ job'[t].build = job[t].build
      /\ job'[t].from = job[t].from /\ job'[t].todo = job[t].todo \ {n}
      /\ job'[t].cur = job[t].cur
      /\ \A u \in Task : u # t => job'[u] = job[u]
  BY <1>1, DoneFields, ErrFields DEF Strip, At, TypeOK
<1>3. \/ tree' = [tree EXCEPT ![n] = NONE] /\ job'[t].errs = job[t].errs
      \/ tree' = [tree EXCEPT ![n] = TORN] /\ job'[t].errs = job[t].errs \cup {n}
  <2>1. CASE tree' = [tree EXCEPT ![n] = NONE] /\ job' = [job EXCEPT ![t].todo = @ \ {n}]
    BY <2>1, DoneFields DEF TypeOK
  <2>2. CASE /\ tree' = [tree EXCEPT ![n] = TORN]
             /\ job' = [job EXCEPT ![t].todo = @ \ {n}, ![t].errs = @ \cup {n}]
    BY <2>2, ErrFields DEF TypeOK
  <2> QED BY <1>1, <2>1, <2>2
<1>4. UNCHANGED <<venv, stable, run, snap, found>> BY DEF Strip, folders
<1>5. PICK k : k = Source(t) OBVIOUS
<1>6. k # NONE /\ Restored(k, t) /\ k.names \in SUBSET Name
  BY <1>2, <1>5, SourceWhole
<1>7. Restored(k, t)'
  <2>1. n \in k.names /\ n \in Name BY <1>2, <1>6 DEF Restored, At
  <2>2. \A m \in Name : m # n => tree'[m] = tree[m] BY <1>3 DEF TypeOK, Tree
  <2>3. tree'[n] = NONE \/ n \in job'[t].errs BY <1>3, <2>1 DEF TypeOK, Tree
  <2>4. job[t].errs \subseteq job'[t].errs BY <1>3
  <2> QED BY <2>1, <2>2, <2>3, <2>4, <1>2, <1>4, <1>6 DEF Restored, At
<1>8. Source(t)' = Source(t) => Restored(Source(t), t)'
  BY <1>5, <1>7 DEF Restored, At
<1> QED BY <1>2, <1>4, <1>8, RestoringExact

LEMMA StrippedFields ==
  ASSUME TypeOK, NEW t \in Task, Stripped(t)
  PROVE  /\ job'[t].pc = "fill" /\ job'[t].build = job[t].build
         /\ job'[t].from = job[t].from /\ job'[t].errs = job[t].errs
         /\ job'[t].cur = job[t].cur
         /\ job'[t].todo = IF Source(t) = NONE THEN {} ELSE DOMAIN Source(t).files
         /\ \A u \in Task : u # t => job'[u] = job[u]
<1> DEFINE names == IF Source(t) = NONE THEN {} ELSE DOMAIN Source(t).files
           r == [job[t] EXCEPT !.pc = "fill", !.todo = names]
<1>1. job[t] \in Job
  BY DEF TypeOK
<1> HIDE DEF names
<1>2. /\ r.pc = "fill" /\ r.from = job[t].from /\ r.build = job[t].build
      /\ r.errs = job[t].errs /\ r.cur = job[t].cur /\ r.todo = names
  BY <1>1 DEF Job
<1>3. job' = [job EXCEPT ![t] = r]
  BY DEF Stripped, names
<1> QED BY <1>2, <1>3 DEF TypeOK, names

LEMMA StrippedExact ==
  ASSUME TypeOK, NEW t \in Task, Inside(t), Kept(t), Exact(t), Stripped(t)
  PROVE  Exact(t)'
<1>1. job[t].pc = "strip" /\ job[t].todo = {} BY DEF Stripped, At
<1>2. UNCHANGED <<tree, venv, stable, run, snap, found>> BY DEF Stripped, folders
<1>3. PICK k : k = Source(t) OBVIOUS
<1>4. /\ k # NONE /\ Restored(k, t) /\ k.names \in SUBSET Name
      /\ DOMAIN k.files = {n \in k.names : k.found.tree[n] # NONE}
  BY <1>1, <1>3, SourceWhole
<1>5. job'[t].pc = "fill" /\ job'[t].todo = DOMAIN k.files /\ job'[t].errs = job[t].errs
  BY <1>3, <1>4, StrippedFields
<1>6. Restored(k, t)'
  <2>1. \A n \in k.names \ job[t].errs : tree[n] = NONE
    BY <1>1, <1>4 DEF Restored, At
  <2>2. \A n \in k.names \ (job'[t].todo \cup job'[t].errs) : tree'[n] = k.found.tree[n]
    BY <2>1, <1>2, <1>4, <1>5
  <2> QED BY <2>2, <1>2, <1>4, <1>5 DEF Restored, At
<1>7. Source(t)' = Source(t) => Restored(Source(t), t)'
  BY <1>3, <1>6 DEF Restored, At
<1> QED BY <1>1, <1>2, <1>7, StrippedFields, RestoringExact

LEMMA FillExact ==
  ASSUME TypeOK, NEW t \in Task, Inside(t), Kept(t), Exact(t), Fill(t)
  PROVE  Exact(t)'
<1>1. PICK n \in job[t].todo :
        \/ /\ tree' = [tree EXCEPT ![n] = IF n \in job[t].errs THEN TORN
                                          ELSE Source(t).files[n]]
           /\ job' = [job EXCEPT ![t].todo = @ \ {n}]
        \/ /\ tree' = [tree EXCEPT ![n] = TORN]
           /\ job' = [job EXCEPT ![t].todo = @ \ {n}, ![t].errs = @ \cup {n}]
  BY DEF Fill
<1>2. /\ job[t].pc = "fill" /\ job'[t].pc = "fill" /\ job'[t].build = job[t].build
      /\ job'[t].from = job[t].from /\ job'[t].todo = job[t].todo \ {n}
      /\ job'[t].cur = job[t].cur
      /\ \A u \in Task : u # t => job'[u] = job[u]
  BY <1>1, DoneFields, ErrFields DEF Fill, At, TypeOK
<1>3. PICK k : k = Source(t) OBVIOUS
<1>4. \/ /\ tree' = [tree EXCEPT ![n] = IF n \in job[t].errs THEN TORN ELSE k.files[n]]
         /\ job'[t].errs = job[t].errs
      \/ tree' = [tree EXCEPT ![n] = TORN] /\ job'[t].errs = job[t].errs \cup {n}
  <2>1. CASE /\ tree' = [tree EXCEPT ![n] = IF n \in job[t].errs THEN TORN
                                            ELSE Source(t).files[n]]
             /\ job' = [job EXCEPT ![t].todo = @ \ {n}]
    <3>1. job'[t].errs = job[t].errs BY <2>1, DoneFields DEF TypeOK
    <3> QED BY <2>1, <3>1, <1>3
  <2>2. CASE /\ tree' = [tree EXCEPT ![n] = TORN]
             /\ job' = [job EXCEPT ![t].todo = @ \ {n}, ![t].errs = @ \cup {n}]
    <3>1. job'[t].errs = job[t].errs \cup {n} BY <2>2, ErrFields DEF TypeOK
    <3> QED BY <2>2, <3>1
  <2> QED BY <1>1, <2>1, <2>2
<1>5. UNCHANGED <<venv, stable, run, snap, found>> BY DEF Fill, folders
<1>6. /\ k # NONE /\ Restored(k, t) /\ k.names \in SUBSET Name /\ Whole(k)
      /\ DOMAIN k.files = {m \in k.names : k.found.tree[m] # NONE}
  BY <1>2, <1>3, SourceWhole
<1>7. Restored(k, t)'
  <2>1. n \in DOMAIN k.files /\ n \in k.names /\ n \in Name
    BY <1>2, <1>6 DEF Restored, At
  <2>2. k.files[n] = k.found.tree[n] BY <2>1, <1>6 DEF Whole
  <2>3. \A m \in Name : m # n => tree'[m] = tree[m] BY <1>4 DEF TypeOK, Tree
  <2>4. tree'[n] = k.found.tree[n] \/ n \in job'[t].errs
    BY <1>4, <2>1, <2>2 DEF TypeOK, Tree
  <2>5. job[t].errs \subseteq job'[t].errs BY <1>4
  <2> QED BY <2>1, <2>3, <2>4, <2>5, <1>2, <1>5, <1>6 DEF Restored, At
<1>8. Source(t)' = Source(t) => Restored(Source(t), t)'
  BY <1>3, <1>7 DEF Restored, At
<1> QED BY <1>2, <1>5, <1>8, RestoringExact

\* A tree put back without a failure is the one that was found.
LEMMA PutBackWhole ==
  ASSUME TypeOK, NEW t \in Task, Kept(t), Exact(t), Inside(t),
         job[t].pc = "fill", job[t].todo = {}, job[t].errs = {}
  PROVE  /\ \A n \in Source(t).names : tree[n] = Source(t).found.tree[n]
         /\ \A n \in Name \ Source(t).names : tree[n] = found[t].tree[n]
         /\ (Source(t).found = found[t] /\ found[t] \in Found) => tree = found[t].tree
<1>1. Restored(Source(t), t) /\ Source(t).names \in SUBSET Name BY SourceWhole
<1>2. /\ \A n \in Source(t).names : tree[n] = Source(t).found.tree[n]
      /\ \A n \in Name \ Source(t).names : tree[n] = found[t].tree[n]
  BY <1>1 DEF Restored, At
<1>3. ASSUME Source(t).found = found[t], found[t] \in Found PROVE tree = found[t].tree
  <2>1. \A n \in Name : tree[n] = found[t].tree[n] BY <1>1, <1>2, <1>3
  <2>2. tree \in Tree /\ found[t].tree \in Tree BY <1>3 DEF TypeOK, Found
  <2> QED BY <2>1, <2>2 DEF Tree
<1> QED BY <1>2, <1>3

\* A venv put back is the one of the backup, where the version can tell.
LEMMA VenvPutBack ==
  ASSUME TypeOK, NEW t \in Task, Exact(t), Inside(t), job[t].pc = "fill",
         job[t].from = "stable", stable # NONE, Told \/ Unharmed(Task)
  PROVE  venv = stable.found.venv
<1>1. Sound(stable) /\ SnapSound /\ stable \in Backup BY DEF Exact, TypeOK
<1>2. CASE ~KeptFor(stable) /\ ~Torn BY <1>1, <1>2 DEF Sound
<1>3. CASE KeptFor(stable) /\ venv = snap.venv
  <2>1. snap # NONE /\ venv # NONE /\ venv = snap.found.venv
    BY <1>1, <1>3, UpdaterAssumption DEF KeptFor, SnapSound, TypeOK
  <2>2. CASE Told
    BY <2>1, <2>2, <1>3 DEF Told, IsFor, KeptFor
  <2>3. CASE Unharmed(Task)
    <3>1. /\ Sane(stable.found) /\ Sane(snap.found) /\ snap.for = snap.found.tree[VERSION]
      BY <1>1, <2>1, <2>3 DEF Sound, SnapSound
    <3>2. VersionOf(stable) = stable.found.tree[VERSION]
      BY <1>1, <3>1, VersionTold DEF Sound
    <3>3. snap.for = VersionOf(stable)
      BY <1>3, <3>1, <3>2, UpdaterAssumption DEF KeptFor, Sane
    <3> QED BY <2>1, <3>1, <3>2, <3>3 DEF Sane
  <2> QED BY <2>2, <2>3
<1> QED BY <1>2, <1>3 DEF Exact, Stage, Restoring

LEMMA FilledExact ==
  ASSUME TypeOK, NEW t \in Task, Inside(t), Kept(t), Exact(t), Filled(t)
  PROVE  Exact(t)'
<1>1. PICK outcome \in {"ok", "failed", "broken"} :
        /\ End(t, outcome)
        /\ \/ outcome # "broken" /\ venv' = venv /\ job[t].errs = {}
              /\ (job[t].from = "run" \/ job[t].from = "stable")
           \/ /\ outcome = "broken"
              /\ venv' \in IF job[t].cur = NONE THEN {venv} ELSE {job[t].cur, TORN}
  BY DEF Filled
<1>2. job'[t].pc = outcome /\ \A u \in Task : u # t => job'[u] = job[u]
  BY <1>1, EndFields DEF TypeOK
<1>3. Unharmed(Task)' => Unharmed(Task) /\ outcome # "broken"
  BY <1>2, HarmStays DEF Inside, Unharmed
<1>4. ~Inside(t)' /\ UNCHANGED <<tree, stable, snap>> /\ job[t].pc = "fill" /\ job[t].todo = {}
  BY <1>1, <1>2 DEF Filled, Inside, Over, At
<1>5. SnapSound' BY <1>3, <1>4 DEF Exact, SnapSound, Sane
<1>6. (stable # NONE => Sound(stable))'
  <2>1. CASE venv' = venv BY <2>1, <1>3, <1>4, FoldersStay
  <2>2. CASE job[t].cur # NONE
    <3>1. KeptFor(stable) BY <2>2, <1>4 DEF Exact, Stage, Restoring
    <3> QED BY <3>1, <1>3, <1>4 DEF Exact, Sound, Whole, KeptFor, Torn, VersionOf, Sane
  <2> QED BY <1>1, <2>1, <2>2
<1>7. AtRest'
  <2> SUFFICES ASSUME Unharmed(Task)' PROVE AtRest'
    BY DEF AtRest
  <2>1. Unharmed(Task) /\ outcome # "broken" /\ venv' = venv /\ job[t].errs = {}
    BY <1>1, <1>3
  <2>2. /\ \A n \in Source(t).names : tree[n] = Source(t).found.tree[n]
        /\ \A n \in Name \ Source(t).names : tree[n] = found[t].tree[n]
        /\ (Source(t).found = found[t] /\ found[t] \in Found) => tree = found[t].tree
    BY <1>4, <2>1, PutBackWhole
  <2>3. Sane(found[t]) /\ (stable # NONE => SameOff(stable, found[t].tree))
    BY <2>1 DEF Exact, Stage, Sanely
  <2>4. CASE job[t].from = "run"
    <3>1. Good(run[t], t) /\ venv = found[t].venv
      BY <2>4, <1>4 DEF Exact, Stage, Restoring, Kept
    <3>2. Source(t).found = found[t] BY <3>1, <2>4 DEF Source, Good
    <3>3. found[t] \in Found BY DEF TypeOK
    <3>4. tree = found[t].tree BY <2>2, <3>2, <3>3
    <3> QED BY <3>1, <3>4, <2>1, <1>3, <1>4, RestAsFound
  <2>5. CASE job[t].from = "stable"
    <3>1. Source(t) = stable /\ stable # NONE
      BY <2>5, <1>4, SourceWhole DEF Source
    <3>2. Sound(stable) /\ venv = stable.found.venv
      BY <2>1, <2>5, <3>1, <1>4, VenvPutBack DEF Exact
    <3>3. VERSION \in stable.names /\ Sane(stable.found)
      BY <2>1, <3>2 DEF Sound
    <3>4. tree[VERSION] = stable.found.tree[VERSION] BY <2>2, <3>1, <3>3
    <3>5. SameOff(stable, tree) BY <2>2, <2>3, <3>1 DEF SameOff
    <3> QED BY <3>2, <3>3, <3>4, <3>5, <2>1, <1>4 DEF AtRest, Sane, SameOff
  <2> QED BY <1>1, <2>1, <2>4, <2>5
<1> QED BY <1>4, <1>5, <1>6, <1>7 DEF Exact

\* A step of the task inside, or of one that enters.
LEMMA ExactStep ==
  ASSUME KeptInv, NEW t \in Task, Inside(t), UNCHANGED overlap,
         \A u \in Task : u # t => job'[u] = job[u],
         ~overlap => Exact(t)'
  PROVE  ExactInv'
<1> SUFFICES ASSUME ~overlap PROVE ExactInv'
  BY DEF ExactInv
<1>1. \A u \in Task : u # t => ~Inside(u)
  BY DEF KeptInv
<1>2. \A u \in Task : u # t => ~Inside(u)'
  BY <1>1 DEF Inside, Over
<1>3. Exact(t)' OBVIOUS
<1>4. (stable # NONE => Sound(stable))' /\ SnapSound' BY <1>3 DEF Exact
<1>5. (\A u \in Task : ~Inside(u)') => AtRest'
  BY <1>3 DEF Exact
<1>6. \A u \in Task : Inside(u)' => Stage(u)'
  <2>1. Inside(t)' => Stage(t)' BY <1>3 DEF Exact
  <2> QED BY <1>2, <2>1
<1> QED BY <1>4, <1>5, <1>6 DEF ExactInv

LEMMA TakeExact ==
  ASSUME TypeOK, ExactInv, NEW t \in Task, Take(t)
  PROVE  ExactInv'
<1> SUFFICES ASSUME ~overlap' PROVE ExactInv'
  BY DEF ExactInv
<1>1. ~overlap /\ \A u \in Task : ~Inside(u)
  BY DEF Take, Enter
<1>2. /\ \A u \in Task : u # t => job'[u] = job[u]
      /\ UNCHANGED <<tree, venv, stable, snap>>
      /\ job[t].pc \in {"out", "retry"}
  BY DEF Take, Enter, TypeOK, folders, At
<1>3. /\ job'[t].pc = "in" /\ job'[t].errs = {} /\ job'[t].cur = NONE
      /\ found'[t] = [tree |-> tree, venv |-> venv]
  BY DEF Take, Enter, TypeOK, Fresh
<1>4. \A u \in Task : u # t => ~Inside(u)'
  BY <1>1, <1>2 DEF Inside, Over
<1>5. Inside(t)' BY <1>3 DEF Inside, Over
<1>6. Unharmed(Task)' => Unharmed(Task)
  BY <1>2, HarmStays DEF Over
<1>7. (stable # NONE => Sound(stable)) /\ SnapSound /\ AtRest
  BY <1>1 DEF ExactInv
<1>8. (stable # NONE => Sound(stable))' /\ SnapSound'
  BY <1>2, <1>6, <1>7 DEF Sound, SnapSound, Whole, KeptFor, Torn, VersionOf, Sane
<1>9. Sanely(t)'
  BY <1>2, <1>3, <1>6, <1>7 DEF Sanely, AtRest, Sane, SameOff
<1>10. Stage(t)'
  BY <1>2, <1>3, <1>9
     DEF Stage, Clean, Swapping, MovedAside, SameVenv, ToRestore, Restoring, At
<1> QED BY <1>4, <1>5, <1>8, <1>10 DEF ExactInv

LEMMA OuterExact ==
  ASSUME TypeOK, ExactInv, NEW t \in Task, Judge(t) \/ Reclaim(t) \/ Refuse(t)
  PROVE  ExactInv'
<1> SUFFICES ASSUME ~overlap PROVE ExactInv'
  BY DEF ExactInv, Judge, Reclaim, Refuse
<1>1. /\ Moves(t) /\ job'[t].pc \in {"judged", "retry", "refused"}
      /\ job[t].pc \in {"out", "judged", "retry"}
      /\ UNCHANGED <<tree, venv, stable, aside, run, snap, found, overlap>>
  BY GoType DEF TypeOK, Judge, Reclaim, Refuse, At, folders
<1>2. ~Inside(t) /\ ~Inside(t)' /\ \A u \in Task : u # t => job'[u] = job[u]
  BY <1>1 DEF Inside, Over, Moves
<1>3. Unharmed(Task)' = Unharmed(Task)
  BY <1>1, <1>2 DEF Unharmed
<1>4. \A u \in Task : u # t => Inside(u)' = Inside(u)
  BY <1>2 DEF Inside, Over
<1>5. (stable # NONE => Sound(stable))' /\ SnapSound' /\ (AtRest => AtRest')
  BY <1>1, <1>3 DEF ExactInv, AtRest, Sound, SnapSound, Whole, KeptFor, Torn, VersionOf, Sane, SameOff
<1>6. ASSUME NEW u \in Task, u # t, Stage(u) PROVE Stage(u)'
  <2>1. Sanely(u)' /\ Clean(u)' /\ SameVenv(u)' /\ ToRestore(u)'
    BY <1>1, <1>2, <1>3, <1>6
       DEF Stage, Sanely, Clean, SameVenv, ToRestore, Sane, SameOff, KeptFor, VersionOf, At, Updates
  <2>2. Swapping(u)'
    BY <1>1, <1>2, <1>6 DEF Stage, Swapping, Replaced
  <2>3. MovedAside(u)'
    BY <1>1, <1>2, <1>3, <1>6
       DEF Stage, MovedAside, Sound, Whole, KeptFor, Torn, VersionOf, Sane, SameOff
  <2>4. Restoring(u)'
    BY <1>1, <1>2, <1>6
       DEF Stage, Restoring, Restored, Source, Updates, KeptFor, Torn, VersionOf, At
  <2> QED BY <2>1, <2>2, <2>3, <2>4 DEF Stage
<1> QED BY <1>2, <1>4, <1>5, <1>6 DEF ExactInv

LEMMA InitExact == Init => ExactInv
<1> SUFFICES ASSUME Init PROVE ExactInv
  OBVIOUS
<1>1. \A t \in Task : job[t].pc = "out"
  BY DEF Init, Fresh
<1>2. \A t \in Task : ~Inside(t) BY <1>1 DEF Inside
<1>3. VERSION \in Name /\ tree[VERSION] = First /\ First \in Build
  BY UpdaterAssumption DEF Init
<1> QED BY <1>2, <1>3 DEF Init, ExactInv, SnapSound, AtRest, Sane

\* What a task does inside the lock, to its end or its death.
Works(t) ==
  \/ SwapName(t) \/ SwapFails(t) \/ Swapped(t)
  \/ MoveAside(t) \/ AsideRefused(t) \/ Place(t) \/ PlaceRefused(t)
  \/ CopyIntoPlace(t) \/ CopyRefused(t) \/ Tidy(t)
  \/ KeepVenv(t) \/ KeepVenvFails(t) \/ InstallFails(t)
  \/ RollBack(t) \/ RestoreVenv(t) \/ Strip(t) \/ Stripped(t) \/ Fill(t)
  \/ (\E b \in Build : Prepare(t, b)) \/ Crash(t)

Ends(t) ==
  Unprepared(t) \/ NoDeps(t) \/ Install(t) \/ RestoreVenvFails(t) \/ Filled(t)

\* Work changes the job of the task alone, and does not end it as a success or a failure.
LEMMA WorksFields ==
  ASSUME TypeOK, NEW t \in Task, Works(t)
  PROVE  /\ Inside(t) /\ UNCHANGED overlap /\ \A u \in Task : u # t => job'[u] = job[u]
         /\ job'[t].pc \notin {"ok", "failed"}
<1>1. CASE SwapName(t)
  <2>1. PICK n : job' = [job EXCEPT ![t].todo = @ \ {n}] BY <1>1 DEF SwapName
  <2> QED BY <1>1, <2>1, DoneFields DEF SwapName, At, Inside, Over, TypeOK
<1>2. CASE SwapFails(t) \/ AsideRefused(t) \/ CopyRefused(t)
  <2>1. PutBack(t, "run", run[t].names) BY <1>2 DEF SwapFails, AsideRefused, CopyRefused
  <2> QED BY <1>2, <2>1, PutBackFields
          DEF SwapFails, AsideRefused, CopyRefused, At, Inside, Over, TypeOK
<1>3. CASE Swapped(t) \/ MoveAside(t) \/ Place(t) \/ PlaceRefused(t) \/ CopyIntoPlace(t)
  BY <1>3, GoFields DEF Swapped, MoveAside, Place, PlaceRefused, CopyIntoPlace,
                        At, Inside, Over, TypeOK
<1>4. CASE Tidy(t) \/ KeepVenv(t) \/ KeepVenvFails(t) \/ InstallFails(t) \/ RollBack(t)
  BY <1>4, GoFields DEF Tidy, KeepVenv, KeepVenvFails, InstallFails, RollBack,
                        At, Inside, Over, TypeOK
<1>5. CASE RestoreVenv(t)
  BY <1>5, RestoreType DEF RestoreVenv, At, Inside, Over, Moves
<1>6. CASE Strip(t) \/ Fill(t)
  <2>1. PICK n : \/ job' = [job EXCEPT ![t].todo = @ \ {n}]
                 \/ job' = [job EXCEPT ![t].todo = @ \ {n}, ![t].errs = @ \cup {n}]
    BY <1>6 DEF Strip, Fill
  <2>2. job'[t].pc = job[t].pc /\ \A u \in Task : u # t => job'[u] = job[u]
    <3>1. CASE job' = [job EXCEPT ![t].todo = @ \ {n}] BY <3>1, DoneFields DEF TypeOK
    <3>2. CASE job' = [job EXCEPT ![t].todo = @ \ {n}, ![t].errs = @ \cup {n}]
      BY <3>2, ErrFields DEF TypeOK
    <3> QED BY <2>1, <3>1, <3>2
  <2> QED BY <1>6, <2>2 DEF Strip, Fill, At, Inside, Over
<1>7. CASE Stripped(t)
  BY <1>7, StrippedFields DEF Stripped, At, Inside, Over
<1>8. CASE \E b \in Build : Prepare(t, b)
  <2>1. PICK b \in Build : Prepare(t, b) BY <1>8
  <2> DEFINE r == [job[t] EXCEPT !.pc = "swap", !.build = b, !.todo = Holds[b]]
  <2>2. r.pc = "swap" /\ job' = [job EXCEPT ![t] = r] BY <2>1 DEF Prepare, TypeOK, Job
  <2>3. job'[t].pc = "swap" /\ \A u \in Task : u # t => job'[u] = job[u]
    BY <2>2 DEF TypeOK
  <2> QED BY <2>1, <2>3 DEF Prepare, At, Inside, Over
<1>9. CASE Crash(t)
  BY <1>9, DeadType DEF Crash, TypeOK, Moves
<1> QED BY <1>1, <1>2, <1>3, <1>4, <1>5, <1>6, <1>7, <1>8, <1>9 DEF Works

LEMMA EndsFields ==
  ASSUME TypeOK, NEW t \in Task, Ends(t)
  PROVE  Inside(t) /\ UNCHANGED overlap /\ \A u \in Task : u # t => job'[u] = job[u]
<1>1. Inside(t)
  BY DEF Ends, Unprepared, NoDeps, Install, RestoreVenvFails, Filled, At, Inside, Over
<1>2. PICK outcome : End(t, outcome)
  BY DEF Ends, Unprepared, NoDeps, Install, RestoreVenvFails, Filled
<1> QED BY <1>1, <1>2, EndFields DEF End, TypeOK

\* Every step of a task inside keeps the invariant.
LEMMA InsideStep ==
  ASSUME TypeOK, KeptInv, ExactInv, NEW t \in Task, Works(t) \/ Ends(t)
  PROVE  ExactInv'
<1>1. Inside(t) /\ UNCHANGED overlap /\ \A u \in Task : u # t => job'[u] = job[u]
  BY WorksFields, EndsFields
<1>2. ASSUME ~overlap PROVE Exact(t)'
  <2>1. Kept(t) /\ Exact(t) BY <1>1, <1>2 DEF KeptInv, ExactInv, Exact
  <2>2. CASE Ends(t)
    BY <2>1, <2>2, <1>1, UnpreparedExact, DoneExact, RestoreVenvFailsExact, FilledExact DEF Ends
  <2>3. CASE Works(t)
    BY <2>1, <2>3, <1>1, PrepareExact, SwapNameExact, UndoExact, SwappedExact,
       MoveAsideExact, PlaceExact, DiscardExact, KeepVenvExact, InstallFailsExact,
       RollBackExact, RestoreVenvExact, StripExact, StrippedExact, FillExact, CrashExact
       DEF Works
  <2> QED BY <2>2, <2>3
<1> QED BY <1>1, <1>2, ExactStep

LEMMA NextExact == TypeOK /\ KeptInv /\ ExactInv /\ [Next]_vars => ExactInv'
<1> SUFFICES ASSUME TypeOK, KeptInv, ExactInv, [Next]_vars PROVE ExactInv'
  OBVIOUS
<1>1. CASE UNCHANGED vars
  BY <1>1 DEF vars, folders, ExactInv, SnapSound, AtRest, Sound, Stage, Sanely, Clean, Swapping,
     MovedAside, SameVenv, ToRestore, Restoring, Restored, Replaced, Source, Sane, SameOff,
     KeptFor, Torn, Whole, VersionOf, Unharmed, Inside, Over, At, Updates
<1>2. ASSUME NEW t \in Task, Take(t) PROVE ExactInv'
  BY <1>2, TakeExact
<1>3. ASSUME NEW t \in Task, Judge(t) \/ Reclaim(t) \/ Refuse(t) PROVE ExactInv'
  BY <1>3, OuterExact
<1>4. ASSUME NEW t \in Task, Works(t) \/ Ends(t) PROVE ExactInv'
  BY <1>4, InsideStep
<1> QED BY <1>1, <1>2, <1>3, <1>4 DEF Next, Works, Ends

IInv == TypeOK /\ KeptInv /\ ExactInv

LEMMA Invariant == Spec => []IInv
<1>1. Init => IInv
  BY InitTypeOK, InitKept, InitExact DEF IInv
<1>2. IInv /\ [Next]_vars => IInv'
  BY NextTypeOK, NextKept, NextExact DEF IInv
<1> QED BY <1>1, <1>2, PTL DEF Spec

----------------------------------------------------------------------------
\* A task that ends its update or rollback does so by an action of its own.
LEMMA OwnEnd ==
  ASSUME TypeOK, [Next]_vars, NEW t \in Task, Inside(t), job'[t].pc \in {"ok", "failed"}
  PROVE  Ends(t)
<1>1. job'[t] # job[t] BY DEF Inside, Over
<1>2. CASE UNCHANGED vars BY <1>1, <1>2 DEF vars
<1>3. ASSUME NEW u \in Task, Take(u) PROVE FALSE
  <2>1. u = t BY <1>1, <1>3 DEF Take, Enter, TypeOK
  <2> QED BY <2>1, <1>3 DEF Take, At, Inside
<1>4. ASSUME NEW u \in Task, Judge(u) \/ Reclaim(u) \/ Refuse(u) PROVE FALSE
  <2>1. Moves(u) BY <1>4, GoType DEF TypeOK, Judge, Reclaim, Refuse
  <2>2. u = t BY <1>1, <2>1 DEF Moves
  <2> QED BY <2>2, <1>4 DEF Judge, Reclaim, Refuse, At, Inside
<1>5. ASSUME NEW u \in Task, Works(u) PROVE FALSE
  BY <1>1, <1>5, WorksFields
<1>6. ASSUME NEW u \in Task, Ends(u) PROVE Ends(t)
  BY <1>1, <1>6, EndsFields
<1> QED BY <1>2, <1>3, <1>4, <1>5, <1>6 DEF Next, Works, Ends

LEMMA FailureStep ==
  ASSUME IInv, [Next]_vars, NEW t \in Task, Inside(t), job'[t].pc = "failed", ~overlap
  PROVE  /\ tree' = found[t].tree
         /\ Told \/ Unharmed(Task) => venv' = found[t].venv
<1>1. TypeOK /\ Kept(t) /\ Exact(t) BY DEF IInv, KeptInv, ExactInv, Exact
<1>2. Ends(t) BY <1>1, OwnEnd
<1>3. CASE Unprepared(t)
  BY <1>1, <1>3 DEF Unprepared, Kept, At
<1>4. CASE NoDeps(t) \/ Install(t)
  BY <1>1, <1>4, EndFields DEF NoDeps, Install, TypeOK
<1>5. CASE RestoreVenvFails(t)
  <2>1. PICK outcome \in {"failed", "broken"} :
          /\ End(t, outcome) /\ At(t, "venv") /\ UNCHANGED tree
          /\ outcome = "failed" => ~Updates(t) /\ venv' = venv
    BY <1>5 DEF RestoreVenvFails
  <2>2. outcome = "failed" BY <2>1, <1>1, EndFields DEF TypeOK
  <2>3. found[t] = [tree |-> tree, venv |-> venv]
    BY <2>1, <2>2, <1>1 DEF Exact, Stage, ToRestore
  <2> QED BY <2>1, <2>2, <2>3
<1>6. CASE Filled(t)
  <2>1. PICK outcome \in {"ok", "failed", "broken"} :
          /\ End(t, outcome) /\ At(t, "fill") /\ job[t].todo = {} /\ UNCHANGED tree
          /\ outcome = "failed" =>
               /\ venv' = venv /\ job[t].errs = {}
               /\ job[t].from = "run" \/ (job[t].from = "stable" /\ Updates(t))
    BY <1>6 DEF Filled
  <2>2. outcome = "failed" BY <2>1, <1>1, EndFields DEF TypeOK
  <2>3. found[t] \in Found /\ job[t].pc = "fill" BY <2>1, <1>1 DEF TypeOK, At
  <2>4. CASE job[t].from = "run"
    <3>1. Good(run[t], t) /\ venv = found[t].venv
      BY <2>3, <2>4, <1>1 DEF Exact, Stage, Restoring, Kept
    <3>2. Source(t).found = found[t] BY <3>1, <2>4 DEF Source, Good
    <3> QED BY <3>1, <3>2, <2>1, <2>2, <2>3, <1>1, PutBackWhole
  <2>5. CASE job[t].from = "stable" /\ Updates(t)
    <3>1. Good(stable, t) BY <2>3, <2>5, <1>1 DEF Kept
    <3>2. Source(t).found = found[t] /\ stable # NONE
      BY <3>1, <2>5 DEF Source, Good
    <3>3. tree = found[t].tree
      BY <3>2, <2>1, <2>2, <2>3, <1>1, PutBackWhole
    <3>4. Told \/ Unharmed(Task) => venv = stable.found.venv
      BY <3>2, <2>3, <2>5, <1>1, VenvPutBack
    <3> QED BY <3>1, <3>3, <3>4, <2>1, <2>2 DEF Good
  <2> QED BY <2>1, <2>2, <2>4, <2>5
<1> QED BY <1>2, <1>3, <1>4, <1>5, <1>6 DEF Ends

LEMMA RollbackStep ==
  ASSUME IInv, [Next]_vars, NEW t \in Task, Inside(t), ~Updates(t), job'[t].pc = "ok", ~overlap
  PROVE  /\ \A n \in stable.names : tree'[n] = stable.found.tree[n]
         /\ Told \/ Unharmed(Task) => venv' = stable.found.venv
         /\ Unharmed(Task) => tree' = stable.found.tree
<1>1. TypeOK /\ Kept(t) /\ Exact(t) BY DEF IInv, KeptInv, ExactInv, Exact
<1>2. Ends(t) BY <1>1, OwnEnd
<1>3. CASE Unprepared(t)
  BY <1>1, <1>3, EndFields DEF Unprepared, TypeOK
<1>4. CASE NoDeps(t) \/ Install(t)
  BY <1>1, <1>4 DEF NoDeps, Install, TypeOK, At
<1>5. CASE RestoreVenvFails(t)
  <2>1. PICK outcome \in {"failed", "broken"} : End(t, outcome)
    BY <1>5 DEF RestoreVenvFails
  <2> QED BY <2>1, <1>1, EndFields DEF TypeOK
<1>6. CASE Filled(t)
  <2>1. PICK outcome \in {"ok", "failed", "broken"} :
          /\ End(t, outcome) /\ At(t, "fill") /\ job[t].todo = {} /\ UNCHANGED tree
          /\ outcome = "ok" =>
               venv' = venv /\ job[t].errs = {} /\ job[t].from = "stable"
    BY <1>6 DEF Filled
  <2>2. outcome = "ok" BY <2>1, <1>1, EndFields DEF TypeOK
  <2>3. job[t].pc = "fill" /\ Source(t) = stable BY <2>1, <2>2 DEF At, Source
  <2>4. stable # NONE /\ stable \in Backup /\ stable.names \in SUBSET Name
    BY <2>3, <1>1, SourceWhole
  <2>5. /\ \A n \in stable.names : tree[n] = stable.found.tree[n]
        /\ \A n \in Name \ stable.names : tree[n] = found[t].tree[n]
    BY <2>1, <2>2, <2>3, <1>1, PutBackWhole
  <2>6. Told \/ Unharmed(Task) => venv = stable.found.venv
    BY <2>1, <2>2, <2>3, <2>4, <1>1, VenvPutBack
  <2>7. ASSUME Unharmed(Task) PROVE tree = stable.found.tree
    <3>1. SameOff(stable, found[t].tree) BY <2>4, <2>7, <1>1 DEF Exact, Stage, Sanely
    <3>2. \A n \in Name : tree[n] = stable.found.tree[n]
      BY <2>4, <2>5, <3>1 DEF SameOff
    <3>3. tree \in Tree /\ stable.found.tree \in Tree
      BY <2>4, <1>1 DEF TypeOK, Backup, Found
    <3> QED BY <3>2, <3>3 DEF Tree
  <2> QED BY <2>1, <2>2, <2>5, <2>6, <2>7
<1> QED BY <1>2, <1>3, <1>4, <1>5, <1>6 DEF Ends

\* A failed update or rollback that asks for no manual recovery has left the install as
\* it found it, whatever was refused and whoever died before.
THEOREM FailuresAreUndone == Spec => FailedIsUndone
<1>1. IInv /\ [Next]_vars =>
        [\A t \in Task : (Inside(t) /\ job'[t].pc = "failed" /\ ~overlap)
           => /\ tree' = found[t].tree
              /\ Told \/ Unharmed(Task) => venv' = found[t].venv]_vars
  BY FailureStep
<1> QED BY <1>1, Invariant, PTL DEF Spec, FailedIsUndone

\* A rollback that reports success has restored what the maker of the backup found.
THEOREM RollbacksAreExact == Spec => RollbackIsExact
<1>1. IInv /\ [Next]_vars =>
        [\A t \in Task : (Inside(t) /\ ~Updates(t) /\ job'[t].pc = "ok" /\ ~overlap)
           => /\ \A n \in stable.names : tree'[n] = stable.found.tree[n]
              /\ Told \/ Unharmed(Task) => venv' = stable.found.venv
              /\ Unharmed(Task) => tree' = stable.found.tree]_vars
  BY RollbackStep
<1> QED BY <1>1, Invariant, PTL DEF Spec, RollbackIsExact
=============================================================================
