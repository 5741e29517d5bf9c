------------------------------ MODULE Updater ------------------------------
(***************************************************************************)
(* Updates and rollbacks of an installed localm: src/localm/updater.py     *)
(* (apply, rollback_last, their lock, the stable place of a backup), with  *)
(* the swap of the top-level names of the install (_apply_update.py) and   *)
(* the copy of the venv an update may change (updater_components.py).      *)
(*                                                                         *)
(* Every task is a process that runs one update or one rollback, and may   *)
(* die between any two operations or in the middle of one, which tears     *)
(* what it was changing.  Any copy, removal or rename may be refused.      *)
(* The venv stands for all that is kept beside the code (the native        *)
(* runtime and the components go the same way); downloads, signatures,     *)
(* keys and versions' order are one choice of a build that may fail.       *)
(***************************************************************************)
CONSTANTS Task,
          Name,     \* top-level names of an install
          VERSION,  \* the one that tells which build it is
          Build,
          Holds,    \* the names each build ships, but for those never touched
          Deps,     \* the dependencies of each build, which the venv follows
          First,    \* the build installed to begin with
          TORN, NONE

Tree  == [Name -> Build \cup {TORN, NONE}]
Venv  == {Deps[b] : b \in Build} \cup {TORN}
\* What a task finds as it enters.
Found == [tree : Tree, venv : Venv]
\* A backup of an update's names: the files of those that existed.  It carries what
\* its maker found, for properties only.
Backup == [names : SUBSET Name,
           files : UNION {[S -> Build \cup {TORN}] : S \in SUBSET Name},
           found : Found]
\* A kept venv: the version of the backup it is for, TORN where its state file was cut.
Snapshot == [venv : Venv \cup {NONE}, for : Build \cup {TORN, NONE}, found : Found]

ASSUME UpdaterAssumption ==
  /\ Holds \in [Build -> SUBSET Name] /\ \A b \in Build : VERSION \in Holds[b]
  /\ First \in Build /\ DOMAIN Deps = Build
  /\ TORN \notin Build \cup {NONE}
  /\ NONE \notin Build \cup Task \cup Venv \cup Found \cup Backup \cup Snapshot

VARIABLES
  tree,    \* the installed names: the build each is of, TORN, or NONE
  venv,    \* the dependencies installed, or TORN
  stable,  \* the backup a rollback reads, or NONE
  aside,   \* the backup each task moved out of its way, or NONE
  run,     \* the backup in the scratch folder of each task, or NONE
  snap,    \* the kept venv, the version of the backup it is for, or NONE
  lock,    \* the task whose process apply.lock names, or NONE
  job,     \* where each task is
  found,   \* what the task that entered last found, for backups and properties
  overlap  \* two tasks were inside the lock at once

folders == <<stable, aside, run, snap>>
vars    == <<tree, venv, folders, lock, job, found, overlap>>

\* backup: the names of build b that exist.
BackupOf(t, b) ==
  [names |-> Holds[b],
   files |-> [n \in {m \in Holds[b] : tree[m] # NONE} |-> tree[n]],
   found |-> found[t]]

VersionOf(k) == IF VERSION \in DOMAIN k.files /\ k.files[VERSION] # TORN
                THEN k.files[VERSION] ELSE NONE

Fresh == [pc |-> "out", build |-> NONE, from |-> NONE, todo |-> {}, errs |-> {}, cur |-> NONE]

Init ==
  /\ tree = [n \in Name |-> IF n \in Holds[First] THEN First ELSE NONE]
  /\ venv = Deps[First]
  /\ stable = NONE /\ snap = NONE /\ lock = NONE
  /\ aside = [t \in Task |-> NONE] /\ run = aside /\ found = aside
  /\ job = [t \in Task |-> Fresh]
  /\ overlap = FALSE

At(t, place)  == job[t].pc = place
Go(t, place)  == job' = [job EXCEPT ![t].pc = place]
Over(t)       == job[t].pc \in {"ok", "failed", "broken", "refused", "dead"}
Updates(t)    == job[t].build # NONE    \* not a rollback
Inside(t)     == ~Over(t) /\ job[t].pc \notin {"out", "judged", "retry"}

----------------------------------------------------------------------------
(* _apply_lock. *)

Enter(t) ==
  /\ lock = NONE /\ lock' = t
  /\ job' = [job EXCEPT ![t] = [Fresh EXCEPT !.pc = "in"]]
  /\ found' = [u \in Task |-> IF u = t THEN [tree |-> tree, venv |-> venv]
                              ELSE IF Inside(u) THEN found[u] ELSE NONE]
  /\ overlap' = (overlap \/ \E u \in Task : Inside(u))
  /\ UNCHANGED <<tree, venv, folders>>

Take(t) == (At(t, "out") \/ At(t, "retry")) /\ Enter(t)

\* _apply_lock_is_stale: the process named in the lock is gone, as one whose task
\* is over may be, or be a server that runs on.
Judge(t) ==
  /\ At(t, "out") /\ lock # NONE /\ Over(lock) /\ Go(t, "judged")
  /\ UNCHANGED <<tree, venv, folders, lock, found, overlap>>

\* Whatever lock is there by now is removed, or cannot be.
Reclaim(t) ==
  /\ At(t, "judged") /\ Go(t, "retry")
  /\ lock' \in {NONE, lock}
  /\ UNCHANGED <<tree, venv, folders, found, overlap>>

Refuse(t) ==
  /\ At(t, "out") \/ At(t, "retry")
  /\ lock # NONE /\ Go(t, "refused")
  /\ UNCHANGED <<tree, venv, folders, lock, found, overlap>>

\* The job ends and removes whatever lock is there, or cannot.
End(t, outcome) ==
  /\ job' = [job EXCEPT ![t] = [Fresh EXCEPT !.pc = outcome]]
  /\ lock' \in {NONE, lock}
  /\ found' = [found EXCEPT ![t] = NONE]
  /\ UNCHANGED overlap

----------------------------------------------------------------------------
(* apply, up to the swap of the names. *)

\* The download, a check, the copy of the data of a downgrade, or the backup
\* fails: the scratch folder goes.
Unprepared(t) ==
  /\ At(t, "in") /\ End(t, "failed")
  /\ UNCHANGED <<tree, venv, folders>>

Prepare(t, b) ==
  /\ At(t, "in")
  /\ run' = [run EXCEPT ![t] = BackupOf(t, b)]
  /\ job' = [job EXCEPT ![t].pc = "swap", ![t].build = b, ![t].todo = Holds[b]]
  /\ UNCHANGED <<tree, venv, stable, aside, snap, lock, found, overlap>>

SwapName(t) ==
  /\ At(t, "swap")
  /\ \E n \in job[t].todo :
       /\ tree' = [tree EXCEPT ![n] = job[t].build]
       /\ job' = [job EXCEPT ![t].todo = @ \ {n}]
  /\ UNCHANGED <<venv, folders, lock, found, overlap>>

\* The tree is put back from the backup in folder `from'.
PutBack(t, from, names) ==
  job' = [job EXCEPT ![t].pc = "strip", ![t].from = from, ![t].todo = names]

SwapFails(t) ==
  /\ At(t, "swap")
  /\ \E n \in job[t].todo : tree' = [tree EXCEPT ![n] = TORN]
  /\ PutBack(t, "run", run[t].names)
  /\ UNCHANGED <<venv, folders, lock, found, overlap>>

Swapped(t) ==
  /\ At(t, "swap") /\ job[t].todo = {} /\ Go(t, "aside")
  /\ UNCHANGED <<tree, venv, folders, lock, found, overlap>>

----------------------------------------------------------------------------
(* _promote_backup. *)

\* What earlier updates left aside is swept first.
MoveAside(t) ==
  /\ At(t, "aside") /\ Go(t, "place")
  /\ aside' = [u \in Task |-> IF u = t THEN stable ELSE NONE]
  /\ stable' = NONE
  /\ UNCHANGED <<tree, venv, run, snap, lock, found, overlap>>

AsideRefused(t) ==
  /\ At(t, "aside") /\ stable # NONE
  /\ aside' = [u \in Task |-> NONE]
  /\ PutBack(t, "run", run[t].names)
  /\ UNCHANGED <<tree, venv, stable, run, snap, lock, found, overlap>>

Place(t) ==
  /\ At(t, "place") /\ stable = NONE /\ Go(t, "tidy")
  /\ stable' = run[t] /\ run' = [run EXCEPT ![t] = NONE]
  /\ UNCHANGED <<tree, venv, aside, snap, lock, found, overlap>>

PlaceRefused(t) ==
  /\ At(t, "place") /\ Go(t, "copy")
  /\ UNCHANGED <<tree, venv, folders, lock, found, overlap>>

\* The copy is whole, under a name no rollback reads, before it is renamed.
CopyIntoPlace(t) ==
  /\ At(t, "copy") /\ stable = NONE /\ Go(t, "tidy")
  /\ stable' = run[t]
  /\ UNCHANGED <<tree, venv, aside, run, snap, lock, found, overlap>>

\* Mutant of CopyRefused: the scratch folder goes before the tree is put back from it.
CopyRefusedDropsRun(t) ==
  /\ At(t, "copy")
  /\ stable = NONE /\ stable' = aside[t]
  /\ run' = [run EXCEPT ![t] = NONE] /\ aside' = [aside EXCEPT ![t] = NONE]
  /\ PutBack(t, "run", run[t].names)
  /\ UNCHANGED <<tree, venv, snap, lock, found, overlap>>

\* The backup moved aside is renamed back, which may be refused too.
CopyRefused(t) ==
  /\ At(t, "copy")
  /\ \/ UNCHANGED <<stable, aside>>
     \/ /\ stable = NONE /\ stable' = aside[t]
        /\ aside' = [aside EXCEPT ![t] = NONE]
  /\ PutBack(t, "run", run[t].names)
  /\ UNCHANGED <<tree, venv, run, snap, lock, found, overlap>>

\* The kept venv of the stable backup, and one whose state file was cut in writing.
KeptVenv   == [venv |-> venv, for |-> VersionOf(stable), found |-> stable.found]
Unreadable == [venv |-> NONE, for |-> TORN, found |-> stable.found]

\* What discard leaves of the kept venv when some removal fails: all of it, or its
\* state file without the copy.
Discarded == {NONE} \cup (IF snap = NONE THEN {} ELSE {snap, [snap EXCEPT !.venv = NONE]})

\* The replaced backup goes, the venv kept with it, and the scratch folder.
Tidy(t) ==
  /\ At(t, "tidy") /\ Go(t, "post")
  /\ aside' = [aside EXCEPT ![t] = NONE] /\ run' = [run EXCEPT ![t] = NONE]
  /\ snap' \in Discarded
  /\ UNCHANGED <<tree, venv, stable, lock, found, overlap>>

----------------------------------------------------------------------------
(* apply, after the swap: the dependency step. *)

\* Read before the swap; those of a torn install cannot be read.
DepsChanged(t) ==
  LET was == found[t].tree[VERSION]
  IN  ~(was \in Build /\ Deps[was] = Deps[job[t].build])

NoDeps(t) ==
  /\ At(t, "post") /\ ~DepsChanged(t)
  /\ End(t, "ok")
  /\ UNCHANGED <<tree, venv, folders>>

KeepVenv(t) ==
  /\ At(t, "post") /\ DepsChanged(t) /\ stable # NONE
  /\ snap' = KeptVenv /\ Go(t, "deps")
  /\ UNCHANGED <<tree, venv, stable, aside, run, lock, found, overlap>>

KeepVenvFails(t) ==
  /\ At(t, "post") /\ DepsChanged(t)
  /\ snap' \in Discarded /\ Go(t, "venv")
  /\ UNCHANGED <<tree, venv, stable, aside, run, lock, found, overlap>>

Install(t) ==
  /\ At(t, "deps") /\ venv' = Deps[job[t].build]
  /\ End(t, "ok")
  /\ UNCHANGED <<tree, folders>>

InstallFails(t) ==
  /\ At(t, "deps") /\ venv' \in {venv, TORN} /\ Go(t, "venv")
  /\ UNCHANGED <<tree, folders, lock, found, overlap>>

----------------------------------------------------------------------------
(* rollback_last, and _restore_all, which a failed update shares. *)

RollBack(t) ==
  /\ At(t, "in") /\ stable # NONE /\ Go(t, "venv")
  /\ UNCHANGED <<tree, venv, folders, lock, found, overlap>>

\* Mutant of IsFor: a kept venv is restored whatever backup it was kept for.
IsForAny == snap # NONE

\* snapshot_is_for: the kept venv belongs to the stable backup, or who knows.
IsFor == /\ snap # NONE
         /\ snap.for = VersionOf(stable) \/ NONE \in {snap.for, VersionOf(stable)}

Torn       == snap # NONE /\ snap.for = TORN
\* Its copy is there too.
Restorable == IsFor /\ snap.venv # NONE

RestoreVenv(t) ==
  /\ At(t, "venv") /\ stable # NONE
  /\ \/ /\ ~Torn /\ ~IsFor /\ UNCHANGED venv
        /\ job' = [job EXCEPT ![t].pc = "strip", ![t].from = "stable", ![t].todo = stable.names]
     \/ /\ Restorable /\ venv' = snap.venv
        /\ job' = [job EXCEPT ![t].pc = "strip", ![t].from = "stable", ![t].todo = stable.names,
                              ![t].cur = venv]
  /\ UNCHANGED <<tree, folders, lock, found, overlap>>

\* What is kept cannot be read, the current venv not be kept, or the kept one not
\* restored: the current one is put back, or cannot be.
RestoreVenvFails(t) ==
  /\ At(t, "venv")
  /\ stable = NONE \/ IsFor \/ Torn
  /\ \/ venv' = venv /\ End(t, IF Updates(t) THEN "broken" ELSE "failed")
     \/ Restorable /\ venv' = TORN /\ End(t, "broken")
  /\ UNCHANGED <<tree, folders>>

Source(t) == IF job[t].from = "run" THEN run[t] ELSE stable

Strip(t) ==
  /\ At(t, "strip")
  /\ \E n \in job[t].todo :
       \/ /\ tree' = [tree EXCEPT ![n] = NONE]
          /\ job' = [job EXCEPT ![t].todo = @ \ {n}]
       \/ /\ tree' = [tree EXCEPT ![n] = TORN]
          /\ job' = [job EXCEPT ![t].todo = @ \ {n}, ![t].errs = @ \cup {n}]
  /\ UNCHANGED <<venv, folders, lock, found, overlap>>

Stripped(t) ==
  /\ At(t, "strip") /\ job[t].todo = {}
  /\ job' = [job EXCEPT ![t].pc = "fill",
                        ![t].todo = IF Source(t) = NONE THEN {} ELSE DOMAIN Source(t).files]
  /\ UNCHANGED <<tree, venv, folders, lock, found, overlap>>

\* A folder that was not removed is merged into.
Fill(t) ==
  /\ At(t, "fill")
  /\ \E n \in job[t].todo :
       \/ /\ Source(t) # NONE /\ n \in DOMAIN Source(t).files
          /\ tree' = [tree EXCEPT ![n] = IF n \in job[t].errs THEN TORN ELSE Source(t).files[n]]
          /\ job' = [job EXCEPT ![t].todo = @ \ {n}]
       \/ /\ tree' = [tree EXCEPT ![n] = TORN]
          /\ job' = [job EXCEPT ![t].todo = @ \ {n}, ![t].errs = @ \cup {n}]
  /\ UNCHANGED <<venv, folders, lock, found, overlap>>

\* Mutant of Filled: what could not be put back is not reported.
FilledRegardless(t) ==
  /\ At(t, "fill") /\ job[t].todo = {}
  /\ End(t, IF job[t].from = "stable" /\ ~Updates(t) THEN "ok" ELSE "failed")
  /\ UNCHANGED <<tree, venv, folders>>

\* A swap that was undone leaves no backup of its own; one that could not be keeps
\* it.  A restore that could not puts the current venv back, or cannot.
Filled(t) ==
  /\ At(t, "fill") /\ job[t].todo = {}
  /\ \/ /\ job[t].errs = {} /\ job[t].from = "run"
        /\ run' = [run EXCEPT ![t] = NONE]
        /\ End(t, "failed") /\ UNCHANGED venv
     \/ /\ job[t].errs = {} /\ job[t].from = "stable"
        /\ End(t, IF Updates(t) THEN "failed" ELSE "ok") /\ UNCHANGED <<run, venv>>
     \/ /\ job[t].errs # {}
        /\ End(t, "broken") /\ UNCHANGED run
        /\ venv' \in IF job[t].cur = NONE THEN {venv} ELSE {job[t].cur, TORN}
  /\ UNCHANGED <<tree, stable, aside, snap>>

----------------------------------------------------------------------------
\* The process dies, in the middle of what it was doing.
Crash(t) ==
  /\ Inside(t)
  /\ job' = [job EXCEPT ![t] = [Fresh EXCEPT !.pc = "dead", !.build = job[t].build]]
  /\ \/ UNCHANGED <<tree, venv, snap>>
     \/ /\ \E n \in job[t].todo, v \in {TORN, NONE} : tree' = [tree EXCEPT ![n] = v]
        /\ UNCHANGED <<venv, snap>>
     \/ /\ At(t, "post") /\ DepsChanged(t) /\ stable # NONE /\ snap' = Unreadable
        /\ UNCHANGED <<tree, venv>>
     \/ /\ At(t, "deps") \/ (At(t, "venv") /\ Restorable)
        /\ venv' = TORN
        /\ UNCHANGED <<tree, snap>>
  /\ UNCHANGED <<stable, aside, run, lock, found, overlap>>

Next ==
  \E t \in Task :
    \/ Take(t) \/ Judge(t) \/ Reclaim(t) \/ Refuse(t)
    \/ Unprepared(t) \/ (\E b \in Build : Prepare(t, b))
    \/ SwapName(t) \/ SwapFails(t) \/ Swapped(t)
    \/ MoveAside(t) \/ AsideRefused(t) \/ Place(t) \/ PlaceRefused(t)
    \/ CopyIntoPlace(t) \/ CopyRefused(t) \/ Tidy(t)
    \/ NoDeps(t) \/ KeepVenv(t) \/ KeepVenvFails(t) \/ Install(t) \/ InstallFails(t)
    \/ RollBack(t) \/ RestoreVenv(t) \/ RestoreVenvFails(t)
    \/ Strip(t) \/ Stripped(t) \/ Fill(t) \/ Filled(t) \/ Crash(t)

Spec == Init /\ [][Next]_vars

----------------------------------------------------------------------------
Job == [pc : {"out", "judged", "retry", "in", "swap", "aside", "place", "copy", "tidy",
              "post", "deps", "venv", "strip", "fill",
              "ok", "failed", "broken", "refused", "dead"},
        build : Build \cup {NONE},
        from  : {"run", "stable", NONE},
        todo  : SUBSET Name,
        errs  : SUBSET Name,
        cur   : Venv \cup {NONE}]

\* Every variable holds what it is meant to; a task that is inside knows what it found,
\* and one that swaps or promotes has its backup.
TypeOK ==
  /\ tree \in Tree /\ venv \in Venv
  /\ stable \in Backup \cup {NONE}
  /\ aside \in [Task -> Backup \cup {NONE}] /\ run \in [Task -> Backup \cup {NONE}]
  /\ snap \in Snapshot \cup {NONE}
  /\ lock \in Task \cup {NONE}
  /\ job \in [Task -> Job]
  /\ found \in [Task -> Found \cup {NONE}]
  /\ overlap \in BOOLEAN
  /\ \A t \in Task :
       /\ Inside(t) => found[t] # NONE
       /\ job[t].pc \in {"swap", "aside", "place", "copy"} => run[t] # NONE
       /\ job[t].pc \in {"swap", "aside", "place", "copy", "tidy", "post", "deps"} => Updates(t)

Whole(k) == k.files = [n \in {m \in k.names : k.found.tree[m] # NONE} |-> k.found.tree[n]]

Unharmed(S) == \A u \in S : job[u].pc \notin {"dead", "broken"}

\* The version tells the kept venv of the stable backup from one that an earlier
\* update could not remove: it may not where a process died in a swap, or left a
\* broken install, of which VERSION says nothing or too much.
Told == (snap # NONE /\ stable # NONE /\ IsFor) => snap.found = stable.found

\* An update or a rollback that fails, and does not ask for a manual recovery,
\* leaves the installed names and the venv as it found them.
FailedIsUndone ==
  [][\A t \in Task : (Inside(t) /\ job'[t].pc = "failed" /\ ~overlap)
        => /\ tree' = found[t].tree
           /\ Told \/ Unharmed(Task) => venv' = found[t].venv]_vars

\* A rollback that succeeds restores what the maker of the backup found: the names of
\* the update and the venv, and where no process died or left a broken install,
\* every other name too.
RollbackIsExact ==
  [][\A t \in Task : (Inside(t) /\ ~Updates(t) /\ job'[t].pc = "ok" /\ ~overlap)
        => /\ \A n \in stable.names : tree'[n] = stable.found.tree[n]
           /\ Told \/ Unharmed(Task) => venv' = stable.found.venv
           /\ Unharmed(Task) => tree' = stable.found.tree]_vars

\* At every moment of an update, and after its death at any of them, the tree it
\* found is still there, or whole in one backup.
PreviousIsKept ==
  \A t \in Task : (found[t] # NONE /\ Updates(t) /\ ~overlap) =>
    \/ tree = found[t].tree
    \/ \E k \in {stable, run[t]} : k # NONE /\ k.found = found[t] /\ Whole(k)
=============================================================================
