----------------------------- MODULE EnginePool -----------------------------
(***************************************************************************)
(* The registry of loaded chat models of one server process                *)
(* (src/localm/inference/http_server.py, with the decisions of             *)
(* switch_admission.py and residency.py).                                  *)
(*                                                                         *)
(* Tasks of the event loop run requests, explicit switches, unloads of one *)
(* model or of all, and idle unloads.  A step is what a task does between  *)
(* two awaits; the native loads and frees run on executor threads beside   *)
(* the loop, so their end (LoadEnds, FreeEnds, ...) and the task that      *)
(* resumes after it are two steps.  What the VRAM probe, the unload policy *)
(* and the backend answer is a choice: the room for a model is not counted.*)
(*                                                                         *)
(* A model's gate (InferenceGate) has capacity 1 here, as created by       *)
(* `InferenceGate()': it is a line of tasks whose head is inside.  A gate  *)
(* and an engine are objects: a detached engine and the gate popped with   *)
(* it live on in the tasks that still hold them.                           *)
(***************************************************************************)
EXTENDS Naturals, FiniteSets, SequencesExt

CONSTANTS Task,         \* tasks of the event loop
          Model,        \* model names
          Default,      \* _default_model_name, the startup model, or NONE
          Kinds,        \* the jobs tasks do, a subset of JobKinds
          Degraded,     \* whether a load may end up partly on the CPU
          Copies,       \* bound: engine and gate objects alive per model, more
                        \* than the tasks that may each hold a gate
          NONE

JobKinds == {"request", "switch", "unload", "unload_all", "idle_unload"}

ASSUME PoolAssumption == /\ IsFiniteSet(Task) /\ IsFiniteSet(Model)
                         /\ Default \in Model \cup {NONE}
                         /\ NONE \notin Model \cup Task \cup JobKinds \cup (Model \X (1 .. Copies))
                         /\ Kinds \subseteq JobKinds
                         /\ Degraded \in BOOLEAN
                         /\ Copies \in Nat /\ Copies > Cardinality(Task)

Object(m) == {m} \X (1 .. Copies)              \* engines, and gates, of a model
Objects   == Model \X (1 .. Copies)

VARIABLES
  engines,      \* _engines: the registered engine of each model, or NONE
  lru,          \* _engines_lru, least recently used first
  sems,         \* _inference_sems: the gate of each model, or NONE
  active,       \* _active_model_name, or NONE
  last,         \* _last_active_model_name, or NONE
  loaded,       \* the engines whose `loaded' reads true
  unloading,    \* the engines whose `unloading' flag is set
  evicting,     \* _evicting_names
  desired,      \* _switch_desired, or NONE
  publisher,    \* the switch whose cancel event is _switch_cancel, or NONE
  cancelled,    \* the switches whose cancel event is set
  line,         \* per gate, the tasks inside (the head) and queued
  job,          \* per task, what it is doing
  ran           \* the tasks that ran while a task with a granted gate waits
                \* for its turn

pool  == <<engines, lru, sems, active, last, unloading, evicting>>
abort == <<desired, publisher, cancelled>>
vars  == <<pool, loaded, abort, line, job, ran>>

\* Where the task of a job is: in switch_engine, serving its request, or in one
\* of the unloads.  A request's producer thread begins at "lazy_load"; at
\* "abandoned..." it runs on alone, its task and the pin are gone.
Places == {"none", "done"}
  \cup {"called", "gate", "recheck", "budget", "probe", "ladder", "wait_busy",
        "confirm", "free", "freed", "load", "loaded", "not_loaded"}
  \cup {"prepare", "queued", "lazy_load", "generate", "abandoned_load", "abandoned"}
  \cup {"unload_wait", "unload_gate", "unload", "unloaded"}
  \cup {"all_wait", "all_reading", "all_rest"}
  \cup {"idle_gate", "idle_free", "idle_freed"}

\* A job: what is asked (kind, m, force, activate), where its task is (pc),
\* the engine it loads, unloads or has pinned (eng), its gate, the victim it
\* frees and that engine (victim, freed), whether it reloads its own model
\* (healing) and found it active (was), whether it turned to a busy model yet
\* (tried), and the active model when it began making room (prior).  An unload
\* of all models has the names still to visit (todo), those left in use (kept),
\* and whether it took its VRAM reading (tried).
Job == [kind : JobKinds \cup {NONE}, pc : Places, m : Model \cup {NONE},
        eng : Objects \cup {NONE}, gate : Objects \cup {NONE},
        force : BOOLEAN, activate : BOOLEAN, tried : BOOLEAN,
        healing : BOOLEAN, was : BOOLEAN, prior : Model \cup {NONE},
        victim : Model \cup {NONE}, freed : Objects \cup {NONE},
        todo : SUBSET Model, kept : SUBSET Model]

NoJob == [kind |-> NONE, pc |-> "none", m |-> NONE, eng |-> NONE, gate |-> NONE,
          force |-> FALSE, activate |-> FALSE, tried |-> FALSE,
          healing |-> FALSE, was |-> FALSE, prior |-> NONE,
          victim |-> NONE, freed |-> NONE, todo |-> {}, kept |-> {}]

\* A task does one job; bound.
Done  == [NoJob EXCEPT !.pc = "done"]

At(t, place) == job[t].pc = place
Become(t, j) == job' = [job EXCEPT ![t] = j]
Explicit(j)  == j.kind = "switch"              \* preempt=True

\* The requests holding a pin on engine e: active_requests counts them.
Pins(e) == {t \in Task : /\ job[t].pc \in {"prepare", "queued", "lazy_load", "generate"}
                         /\ job[t].eng = e}
Reusable(e) == e # NONE /\ e \in loaded /\ e \notin unloading
ResolveUnnamed == IF active # NONE THEN active
                  ELSE IF last # NONE THEN last ELSE Default

\* A new engine is referenced by nobody and nothing of it is left loaded; a
\* new gate is referenced by nobody.
NewEngine(m) == {e \in Object(m) :
  /\ e \notin loaded
  /\ engines[m] # e
  /\ \A t \in Task : e \notin {job[t].eng, job[t].freed}}
NewGate(m) == {g \in Object(m) : sems[m] # g /\ \A t \in Task : job[t].gate # g}
AnyOf(S)   == CHOOSE o \in S : TRUE

\* _inference_sems.setdefault(m, InferenceGate())
GateOf(m) == IF sems[m] # NONE THEN sems[m] ELSE AnyOf(NewGate(m))

\* Queueing in a gate's line and leaving it; the head of the line is inside.
JoinIn(l, t, g) == [l EXCEPT ![g] = Append(@, t)]
Join(t, g)   == JoinIn(line, t, g)
Inside(t)    == Head(line[job[t].gate]) = t
LeaveIn(l, g) == [l EXCEPT ![g] = Tail(@)]
-----------------------------------------------------------------------------
\* Every state jobs one after the other leave the pool in, as SettledBetweenJobs
\* confirms: some models resident, some registered and unloaded, one of the
\* residents active or none, one remembered or none, and an unnamed request
\* resolves once something is resident.  What an earlier switch desired is
\* overwritten before it is read again, and an idle gate is as good as none.
Init ==
  /\ lru \in {s \in SeqOf(Model, Cardinality(Model)) : IsInjective(s)}
  /\ loaded = {<<m, 1>> : m \in ToSet(lru)}
  /\ \E idle \in SUBSET (Model \ ToSet(lru)) :
       engines = [m \in Model |-> IF m \in ToSet(lru) \cup idle THEN <<m, 1>> ELSE NONE]
  /\ active \in ToSet(lru) \cup {NONE} /\ last \in Model \cup {NONE}
  /\ lru # << >> => ResolveUnnamed # NONE
  /\ sems = engines
  /\ unloading = {} /\ evicting = {}
  /\ desired = NONE /\ publisher = NONE /\ cancelled = {}
  /\ line = [g \in Objects |-> << >>]
  /\ job = [t \in Task |-> NoJob]
  /\ ran = {}

(***************************************************************************)
(* What the jobs have in common.                                           *)
(***************************************************************************)
\* get_engine has the engine e of model m: the request pins it in the same
\* step (_pin), and goes on to prepare its prompt.
PinnedRequest(j, e) == [NoJob EXCEPT !.kind = "request", !.pc = "prepare",
                                     !.m = j.m, !.eng = e]
\* A switch_engine call of job j has its result.
AfterSwitch(j, e) == IF j.kind = "request" THEN PinnedRequest(j, e) ELSE Done

\* Model m becomes the most recently used one.
Touch(m) == lru' = Append(RemoveFirst(lru, m), m)

\* _switch_reuse_resident, and the gate is left.  l: the lines with t inside.
Reuse(t, j, l) ==
  /\ Touch(j.m)
  /\ IF j.activate THEN active' = j.m /\ last' = NONE
                   ELSE UNCHANGED <<active, last>>
  /\ line' = LeaveIn(l, j.gate)
  /\ Become(t, AfterSwitch(j, engines[j.m]))
  /\ UNCHANGED <<engines, unloading, evicting>>

\* Mutants of Detach: the active pointer stays, the gate is popped for a reload
\* too.
DetachKeepsActive(v, e, activate, keepSem) ==
  /\ unloading' = unloading \cup {e}
  /\ engines' = [engines EXCEPT ![v] = NONE]
  /\ lru' = RemoveFirst(lru, v)
  /\ sems' = IF keepSem THEN sems ELSE [sems EXCEPT ![v] = NONE]
  /\ UNCHANGED <<active, last>>

DetachPopsGate(v, e, activate, keepSem) ==
  /\ unloading' = unloading \cup {e}
  /\ engines' = [engines EXCEPT ![v] = NONE]
  /\ lru' = RemoveFirst(lru, v)
  /\ sems' = [sems EXCEPT ![v] = NONE]
  /\ active' = IF active = v THEN NONE ELSE active
  /\ last' = IF active = v /\ ~activate THEN v ELSE last

\* _switch_detach_victim
Detach(v, e, activate, keepSem) ==
  /\ unloading' = unloading \cup {e}
  /\ engines' = [engines EXCEPT ![v] = NONE]
  /\ lru' = RemoveFirst(lru, v)
  /\ sems' = IF keepSem THEN sems ELSE [sems EXCEPT ![v] = NONE]
  /\ active' = IF active = v THEN NONE ELSE active
  /\ last' = IF active = v /\ ~activate THEN v ELSE last

\* A switch ends without having loaded its model: _remember_evicted_active,
\* and the gate is left.
GiveUp(t) ==
  LET j == job[t]
  IN /\ last' = IF /\ j.prior # NONE /\ j.prior # j.m
                   /\ active = NONE /\ last = NONE /\ engines[j.prior] = NONE
                  THEN j.prior ELSE last
     /\ line' = LeaveIn(line, j.gate)
     /\ Become(t, Done)
     /\ UNCHANGED <<engines, lru, sems, active, unloading, evicting>>

(***************************************************************************)
(* get_engine and switch_engine up to the model's gate.                    *)
(***************************************************************************)
\* The body of `async with exclusively(sem)' up to its first await, for a job
\* inside its gate.  l: the lines, want: _switch_desired.
EnterSwitch(t, j, l, want) ==
  \/ /\ Explicit(j) /\ want # j.m                         \* superseded
     /\ line' = LeaveIn(l, j.gate)
     /\ Become(t, Done)
     /\ UNCHANGED <<engines, lru, active, last, unloading, evicting>>
  \/ /\ Explicit(j) => want = j.m
     /\ Reusable(engines[j.m])
     /\ Reuse(t, j, l)
  \/ /\ ~Explicit(j) /\ Degraded /\ Reusable(engines[j.m]) \* _placement_heal_due
     /\ Pins(engines[j.m]) = {}
     /\ line' = l
     /\ Become(t, [j EXCEPT !.pc = "recheck", !.eng = engines[j.m]])
     /\ UNCHANGED <<engines, lru, active, last, unloading, evicting>>
  \/ /\ Explicit(j) => want = j.m
     /\ ~Reusable(engines[j.m])
     /\ line' = l
     /\ Become(t, [j EXCEPT !.pc = "budget"])
     /\ UNCHANGED <<engines, lru, active, last, unloading, evicting>>

\* A chat request for model m.  get_engine's fast path, with the pin; or a
\* call of switch_engine, which begins with an await.  With activate FALSE
\* (capability routing) m does not become the active model.
Request(t, m, activate) ==
  /\ "request" \in Kinds /\ job[t] = NoJob
  /\ LET j == [NoJob EXCEPT !.kind = "request", !.m = m, !.activate = activate]
     IN \/ /\ Reusable(engines[m])
           /\ Touch(m)
           /\ active' = IF activate THEN m ELSE active
           /\ sems' = IF activate THEN [sems EXCEPT ![m] = GateOf(m)] ELSE sems
           /\ Become(t, PinnedRequest(j, engines[m]))
           /\ UNCHANGED <<engines, last, unloading, evicting, loaded, abort, line>>
        \/ /\ Reusable(engines[m]) => Degraded /\ Pins(engines[m]) = {}
           /\ Become(t, [j EXCEPT !.pc = "called"])
           /\ UNCHANGED <<pool, loaded, abort, line>>

\* POST /v1/models/switch
Switch(t, m, force) ==
  /\ "switch" \in Kinds /\ job[t] = NoJob
  /\ Become(t, [NoJob EXCEPT !.kind = "switch", !.m = m, !.force = force,
                             !.activate = TRUE, !.pc = "called"])
  /\ UNCHANGED <<pool, loaded, abort, line>>

\* switch_engine after its first await: an explicit switch becomes the
\* desired one and cancels another explicit load; then the model's gate,
\* which is entered at once when it is free.
QueueSwitch(t) ==
  /\ At(t, "called")
  /\ LET j == [job[t] EXCEPT !.gate = GateOf(job[t].m), !.pc = "gate"]
         l == Join(t, j.gate)
     IN /\ sems' = [sems EXCEPT ![j.m] = j.gate]
        /\ desired' = IF Explicit(j) THEN j.m ELSE desired
        /\ cancelled' = IF Explicit(j) /\ publisher # NONE
                           THEN cancelled \cup {t2 \in {publisher} : job[t2].m # j.m}
                           ELSE cancelled
        /\ IF Head(l[j.gate]) = t
             THEN EnterSwitch(t, j, l, desired')
             ELSE /\ line' = l
                  /\ Become(t, j)
                  /\ UNCHANGED <<engines, lru, active, last, unloading, evicting>>
  /\ UNCHANGED <<loaded, publisher>>

\* The task runs after the gate was granted to it.
GateGranted(t) ==
  /\ At(t, "gate") /\ Inside(t)
  /\ EnterSwitch(t, job[t], line, desired)
  /\ UNCHANGED <<loaded, abort, sems>>

\* The resident model's placement was probed.  It is detached for a reload,
\* or used as it is, or somebody detached or freed it meanwhile.
Recheck(t) ==
  /\ At(t, "recheck")
  /\ LET j == job[t]
         still == engines[j.m] = j.eng
     IN \/ /\ still /\ Pins(j.eng) = {}
           /\ Detach(j.m, j.eng, FALSE, TRUE)
           /\ Become(t, [j EXCEPT !.pc = "budget", !.healing = TRUE,
                                  !.was = (active = j.m)])
           /\ UNCHANGED <<line, evicting>>
        \/ /\ still /\ Reusable(j.eng)
           /\ Reuse(t, j, line)
           /\ UNCHANGED sems
        \/ /\ ~still \/ ~Reusable(j.eng)
           /\ Become(t, [j EXCEPT !.pc = "budget", !.eng = NONE])
           /\ UNCHANGED <<pool, line>>
  /\ UNCHANGED <<loaded, abort>>

\* The load is sized: it is refused (LoadSkipped, files not found), or room
\* is made for it; a reload first frees its own engine.
Budget(t) ==
  /\ At(t, "budget")
  /\ LET j == [job[t] EXCEPT !.prior = active]
     IN \/ /\ ~j.healing
           /\ line' = LeaveIn(line, j.gate)
           /\ Become(t, Done)
           /\ UNCHANGED pool
        \/ /\ ~j.healing
           /\ Become(t, [j EXCEPT !.pc = "probe"])
           /\ UNCHANGED <<pool, line>>
        \/ /\ j.healing
           /\ evicting' = evicting \cup {j.m}
           /\ Become(t, [j EXCEPT !.pc = "free", !.victim = j.m, !.freed = j.eng])
           /\ UNCHANGED <<engines, lru, sems, active, last, unloading, line>>
  /\ UNCHANGED <<loaded, abort>>

(***************************************************************************)
(* _switch_make_room and the load.                                         *)
(***************************************************************************)
\* residency.pick_busy_eviction_victim, pick_eviction_victim
Evictable(m)   == {v \in Model \ {m} : v \in ToSet(lru) /\ engines[v] \notin unloading \cup {NONE}}
IdleVictims(m) == {v \in Evictable(m) : Pins(engines[v]) = {}}
Oldest(S)      == lru[CHOOSE i \in DOMAIN lru : /\ lru[i] \in S
                                           /\ \A k \in 1 .. (i - 1) : lru[k] \notin S]

\* The end of the eviction loop's body: look the victim up again, detach it
\* and begin its native free, with no await between; or probe again.
TryEvict(t, j, v, forceBusy) ==
  LET e == engines[v]
      takeable == /\ e # NONE /\ e \notin unloading
                  /\ forceBusy \/ Pins(e) = {}
  IN IF takeable
       THEN /\ Detach(v, e, j.activate, FALSE)
            /\ evicting' = evicting \cup {v}
            /\ Become(t, [j EXCEPT !.pc = "free", !.victim = v, !.freed = e])
       ELSE /\ Become(t, [j EXCEPT !.pc = "probe", !.victim = NONE, !.freed = NONE])
            /\ UNCHANGED pool

\* Room is made, or none is needed: the load begins, unless the model is
\* still being freed or a newer explicit switch came (_switch_load).
BeginLoad(t, j) ==
  \/ /\ j.m \in evicting
     /\ GiveUp(t)
     /\ UNCHANGED abort
  \/ /\ j.m \notin evicting
     /\ Explicit(j) /\ desired # j.m
     /\ publisher' = NONE
     /\ GiveUp(t)
     /\ UNCHANGED <<desired, cancelled>>
  \/ /\ j.m \notin evicting
     /\ Explicit(j) => desired = j.m
     /\ j.healing \/ engines[j.m] # NONE \/ NewEngine(j.m) # {}
     /\ LET e == IF j.healing THEN j.eng
                 ELSE IF engines[j.m] # NONE THEN engines[j.m]
                 ELSE AnyOf(NewEngine(j.m))
            built == ~j.healing /\ engines[j.m] = NONE
        IN /\ Become(t, [j EXCEPT !.pc = "load", !.eng = e,
                                  !.victim = NONE, !.freed = NONE])
           /\ unloading' = IF built THEN unloading \ {e} ELSE unloading
     /\ publisher' = IF Explicit(j) THEN t ELSE publisher
     /\ cancelled' = cancelled \ {t}
     /\ UNCHANGED <<engines, lru, sems, active, last, evicting, desired, line>>

\* A probe came back: the model may load, or the least recently used idle
\* model is to go (an explicit switch may have to ask first), or no idle
\* model is left to evict.
Probe(t) ==
  /\ At(t, "probe")
  /\ LET j == job[t]
         idle == IdleVictims(j.m)
     IN \/ BeginLoad(t, j)
        \/ /\ idle # {}
           /\ TryEvict(t, j, Oldest(idle), FALSE)
           /\ UNCHANGED <<abort, line>>
        \/ /\ idle # {} /\ Explicit(j) /\ ~j.force
           /\ Become(t, [j EXCEPT !.pc = "confirm", !.victim = Oldest(idle)])
           /\ UNCHANGED <<pool, abort, line>>
        \/ /\ idle = {}
           /\ Become(t, [j EXCEPT !.pc = "ladder"])
           /\ UNCHANGED <<pool, abort, line>>
  /\ UNCHANGED loaded

\* _switch_exhaustion_ladder: load all the same, refuse or ask, or once per
\* attempt turn to a busy model: a forced switch evicts it, any other load
\* waits for its requests.
Ladder(t) ==
  /\ At(t, "ladder")
  /\ LET j == [job[t] EXCEPT !.tried = TRUE]
         busy == Evictable(j.m)
     IN \/ BeginLoad(t, job[t])
        \/ GiveUp(t) /\ UNCHANGED abort
        \/ /\ busy # {} /\ ~job[t].tried /\ j.force
           /\ TryEvict(t, j, Oldest(busy), TRUE)
           /\ UNCHANGED <<abort, line>>
        \/ /\ busy # {} /\ ~job[t].tried /\ ~j.force
           /\ Become(t, [j EXCEPT !.pc = "wait_busy", !.victim = Oldest(busy),
                                  !.freed = engines[Oldest(busy)]])
           /\ UNCHANGED <<pool, abort, line>>
  /\ UNCHANGED loaded

\* _wait_for_pin_clear on the busy model: it went idle, or the wait ended.
BusyWaitEnds(t) ==
  /\ At(t, "wait_busy")
  /\ LET j == job[t]
         idle == Pins(j.freed) = {}
         gone == engines[j.victim] # j.freed \/ ~Reusable(j.freed)
     IN \/ /\ idle /\ Explicit(j) /\ Reusable(engines[j.victim])
           /\ Become(t, [j EXCEPT !.pc = "confirm", !.freed = NONE])
           /\ UNCHANGED <<pool, line>>
        \/ /\ idle
           /\ IF Explicit(j) THEN ~Reusable(engines[j.victim]) ELSE ~gone
           /\ TryEvict(t, j, j.victim, FALSE)
           /\ UNCHANGED line
        \/ /\ idle /\ ~Explicit(j) /\ gone
           /\ Become(t, [j EXCEPT !.pc = "probe", !.victim = NONE, !.freed = NONE])
           /\ UNCHANGED <<pool, line>>
        \/ ~idle /\ Explicit(j) /\ GiveUp(t)              \* confirm_required
        \/ /\ ~idle /\ ~Explicit(j)
           /\ Become(t, [j EXCEPT !.pc = "ladder", !.victim = NONE, !.freed = NONE])
           /\ UNCHANGED <<pool, line>>
  /\ UNCHANGED <<loaded, abort>>

\* _switch_confirm_before_eviction: ask, or evict without asking.
Confirm(t) ==
  /\ At(t, "confirm")
  /\ \/ GiveUp(t)
     \/ TryEvict(t, job[t], job[t].victim, FALSE) /\ UNCHANGED line
  /\ UNCHANGED <<loaded, abort>>

\* The victim's native unload ends on its thread, then the task resumes.
FreeEnds(t) ==
  /\ At(t, "free")
  /\ loaded' = loaded \ {job[t].freed}
  /\ Become(t, [job[t] EXCEPT !.pc = "freed"])
  /\ UNCHANGED <<pool, abort, line>>

\* Mutant of Freed: the name is not discarded.
FreedNameStays(t) ==
  /\ At(t, "freed")
  /\ Become(t, [job[t] EXCEPT !.pc = "probe", !.victim = NONE, !.freed = NONE])
  /\ UNCHANGED <<pool, loaded, abort, line>>

\* The task resumes: the name is free again, and the eviction loop probes.
Freed(t) ==
  /\ At(t, "freed")
  /\ evicting' = evicting \ {job[t].victim}
  /\ Become(t, [job[t] EXCEPT !.pc = "probe", !.victim = NONE, !.freed = NONE])
  /\ UNCHANGED <<engines, lru, sems, active, last, unloading, loaded, abort, line>>

\* The native load ends on its thread (at once when the engine is loaded): it
\* succeeds, fails, or notices its cancel event.
LoadEnds(t) ==
  /\ At(t, "load")
  /\ \/ /\ loaded' = loaded \cup {job[t].eng}
        /\ Become(t, [job[t] EXCEPT !.pc = "loaded"])
     \/ /\ job[t].eng \notin loaded
        /\ Become(t, [job[t] EXCEPT !.pc = "not_loaded"])
        /\ UNCHANGED loaded
  /\ UNCHANGED <<pool, abort, line>>

\* Mutant of Unpublish: the event stays published.
StaysPublished(t) == cancelled' = cancelled \ {t} /\ UNCHANGED <<publisher, desired>>

\* The `finally' of _switch_load.
Unpublish(t) == /\ publisher' = IF publisher = t THEN NONE ELSE publisher
                /\ cancelled' = cancelled \ {t}
                /\ UNCHANGED desired

LoadFailed(t) ==
  /\ At(t, "not_loaded")
  /\ Unpublish(t)
  /\ GiveUp(t)
  /\ UNCHANGED loaded

\* _switch_commit, the gate is left, and a request pins its engine.
Commit(t) ==
  /\ At(t, "loaded")
  /\ Unpublish(t)
  /\ LET j == job[t]
     IN /\ unloading' = IF j.healing THEN unloading \ {j.eng} ELSE unloading
        /\ engines' = [engines EXCEPT ![j.m] = j.eng]
        /\ lru' = Append(lru, j.m)
        /\ IF j.activate \/ j.was \/ ResolveUnnamed = NONE
             THEN active' = j.m /\ last' = NONE
             ELSE UNCHANGED <<active, last>>
        /\ line' = LeaveIn(line, j.gate)
        /\ Become(t, AfterSwitch(j, j.eng))
  /\ UNCHANGED <<sems, evicting, loaded>>

(***************************************************************************)
(* The generation of a pinned request.                                     *)
(***************************************************************************)
\* The prompt is prepared and the request goes to the gate its model has by
\* now, or it fails and drops its pin.
Prepared(t) ==
  /\ At(t, "prepare")
  /\ \/ LET j == [job[t] EXCEPT !.gate = GateOf(job[t].m), !.pc = "queued"]
        IN /\ sems' = [sems EXCEPT ![j.m] = j.gate]
           /\ line' = Join(t, j.gate)
           /\ Become(t, j)
     \/ /\ Become(t, Done)
        /\ UNCHANGED <<sems, line>>
  /\ UNCHANGED <<engines, lru, active, last, unloading, evicting, loaded, abort>>

\* Inside the gate the producer thread starts.
Produce(t) ==
  /\ At(t, "queued") /\ Inside(t)
  /\ Become(t, [job[t] EXCEPT !.pc = "lazy_load"])
  /\ UNCHANGED <<pool, loaded, abort, line>>

\* On the thread chat_stream finds the engine loaded, or loads it again.
LazyLoadEnds(t) ==
  /\ job[t].pc \in {"lazy_load", "abandoned_load"}
  /\ loaded' = loaded \cup {job[t].eng}
  /\ Become(t, [job[t] EXCEPT !.pc = IF @ = "lazy_load" THEN "generate" ELSE "abandoned"])
  /\ UNCHANGED <<pool, abort, line>>

\* No thread is left, the gate is left and the pin dropped: the reply is over,
\* chat_stream raised, or the client disconnected before the thread was started.
Replied(t) ==
  /\ job[t].pc \in {"queued", "lazy_load", "generate"}
  /\ At(t, "queued") => Inside(t)
  /\ line' = LeaveIn(line, job[t].gate)
  /\ Become(t, Done)
  /\ UNCHANGED <<pool, loaded, abort>>

\* The client disconnects, or the task fails or is cancelled, during the reply:
\* the gate is left and the pin dropped without waiting for the thread, which
\* reads its cancel event at the next token.
Abandon(t) ==
  /\ job[t].pc \in {"lazy_load", "generate"}
  /\ line' = LeaveIn(line, job[t].gate)
  /\ Become(t, [job[t] EXCEPT !.gate = NONE,
                              !.pc = IF @ = "lazy_load" THEN "abandoned_load" ELSE "abandoned"])
  /\ UNCHANGED <<pool, loaded, abort>>

\* The thread left alone stops, or its chat_stream raised.
AbandonedEnds(t) ==
  /\ job[t].pc \in {"abandoned_load", "abandoned"}
  /\ Become(t, Done)
  /\ UNCHANGED <<pool, loaded, abort, line>>

(***************************************************************************)
(* unload_one_model                                                        *)
(***************************************************************************)
\* The engine is flagged and its model's gate queued for.  l: the lines, u: the
\* flags so far.
MarkAndQueue(t, j, l, u) ==
  LET k == [j EXCEPT !.gate = GateOf(j.m)]
      q == JoinIn(l, t, k.gate)
  IN /\ sems' = [sems EXCEPT ![j.m] = k.gate]
     /\ unloading' = u \cup {j.eng}
     /\ line' = q
     /\ Become(t, [k EXCEPT !.pc = IF Head(q[k.gate]) = t THEN "unload"
                                                         ELSE "unload_gate"])
     /\ UNCHANGED <<engines, active, last, evicting>>

Unload(t, m, force) ==
  /\ "unload" \in Kinds /\ job[t] = NoJob
  /\ engines[m] # NONE /\ engines[m] \in loaded
  /\ LET j == [NoJob EXCEPT !.kind = "unload", !.m = m, !.force = force,
                            !.eng = engines[m]]
     IN \/ /\ Pins(j.eng) = {} \/ force
           /\ MarkAndQueue(t, j, line, unloading) /\ UNCHANGED lru
        \/ /\ Pins(j.eng) # {} /\ ~force
           /\ Become(t, [j EXCEPT !.pc = "unload_wait"])
           /\ UNCHANGED <<pool, line>>
  /\ UNCHANGED <<loaded, abort>>

\* _wait_for_pin_clear: the requests ended, or the caller is asked.
UnloadWaitEnds(t) ==
  /\ At(t, "unload_wait")
  /\ \/ /\ Pins(job[t].eng) = {}
        /\ MarkAndQueue(t, job[t], line, unloading) /\ UNCHANGED lru
     \/ /\ Pins(job[t].eng) # {}
        /\ Become(t, Done)
        /\ UNCHANGED <<pool, line>>
  /\ UNCHANGED <<loaded, abort>>

\* Mutant of UnloadGranted: does not wait for the gate.
UnloadPastGate(t) ==
  /\ At(t, "unload_gate")
  /\ Become(t, [job[t] EXCEPT !.pc = "unload"])
  /\ UNCHANGED <<pool, loaded, abort, line>>

UnloadGranted(t) ==
  /\ At(t, "unload_gate") /\ Inside(t)
  /\ Become(t, [job[t] EXCEPT !.pc = "unload"])
  /\ UNCHANGED <<pool, loaded, abort, line>>

UnloadEnds(t) ==
  /\ At(t, "unload")
  /\ loaded' = loaded \ {job[t].eng}
  /\ Become(t, [job[t] EXCEPT !.pc = "unloaded"])
  /\ UNCHANGED <<pool, abort, line>>

\* The task resumes: bookkeeping, the gate, the flag, the active pointer.
Unloaded(t) ==
  /\ At(t, "unloaded") /\ job[t].kind = "unload"
  /\ LET j == job[t]
     IN /\ lru' = RemoveFirst(lru, j.m)
        /\ line' = LeaveIn(line, j.gate)
        /\ unloading' = unloading \ {j.eng}
        /\ active' = IF active = j.m THEN NONE ELSE active
        /\ last' = IF active = j.m THEN j.m ELSE last
        /\ Become(t, Done)
  /\ UNCHANGED <<engines, sems, evicting, loaded, abort>>

(***************************************************************************)
(* unload_all_models                                                       *)
(***************************************************************************)
InUse(e) == e \in loaded /\ Pins(e) # {}

\* The loop over the names listed before its awaits, up to its next await: some
\* names are passed over, then the list ends, a name is not registered any more
\* (KeyError), the VRAM reading is taken, or an engine's gate is queued for.
Walk(t, j, l, u) ==
  \E S \in SUBSET j.todo :
  /\ \A m \in S : /\ engines[m] # NONE
                  /\ engines[m] \notin loaded \/ (InUse(engines[m]) /\ ~j.force)
  /\ LET k == [j EXCEPT !.todo = @ \ S,
                        !.kept = @ \cup {m \in S : engines[m] \in loaded}]
         Visit(m) == [k EXCEPT !.todo = @ \ {m}, !.m = m, !.eng = engines[m]]
     IN \/ /\ k.todo = {}
           /\ unloading' = u /\ line' = l
           /\ Become(t, [k EXCEPT !.pc = "all_rest", !.m = NONE, !.eng = NONE, !.gate = NONE])
           /\ UNCHANGED <<engines, sems, active, last, evicting>>
        \/ /\ \E m \in k.todo : engines[m] = NONE
           /\ unloading' = u /\ line' = l
           /\ Become(t, Done)
           /\ UNCHANGED <<engines, sems, active, last, evicting>>
        \/ \E m \in k.todo :
             /\ engines[m] \in loaded /\ ~k.tried
             /\ unloading' = u /\ line' = l
             /\ Become(t, [Visit(m) EXCEPT !.pc = "all_reading", !.tried = TRUE, !.gate = NONE])
             /\ UNCHANGED <<engines, sems, active, last, evicting>>
        \/ \E m \in k.todo :
             /\ engines[m] \in loaded /\ (InUse(engines[m]) => j.force)
             /\ MarkAndQueue(t, Visit(m), l, u)

\* Without force it first waits for the requests in flight, all at once.
UnloadAll(t, force) ==
  /\ "unload_all" \in Kinds /\ job[t] = NoJob
  /\ LET j == [NoJob EXCEPT !.kind = "unload_all", !.force = force]
         names == {m \in Model : engines[m] # NONE}
     IN IF ~force /\ \E m \in names : InUse(engines[m])
          THEN Become(t, [j EXCEPT !.pc = "all_wait"]) /\ UNCHANGED <<pool, line>>
          ELSE Walk(t, [j EXCEPT !.todo = names], line, unloading) /\ UNCHANGED lru
  /\ UNCHANGED <<loaded, abort>>

\* The requests ended, or the wait did.
AllWaitEnds(t) ==
  /\ At(t, "all_wait")
  /\ Walk(t, [job[t] EXCEPT !.todo = {m \in Model : engines[m] # NONE}], line, unloading)
  /\ UNCHANGED <<lru, loaded, abort>>

\* The VRAM was read: whether the engine is loaded and in use is looked at again.
ReadingTaken(t) ==
  /\ At(t, "all_reading")
  /\ LET j == job[t]
     IN \/ /\ j.eng \notin loaded
           /\ Walk(t, j, line, unloading)
        \/ /\ InUse(j.eng) /\ ~j.force
           /\ Walk(t, [j EXCEPT !.kept = @ \cup {j.m}], line, unloading)
        \/ /\ j.eng \in loaded /\ (InUse(j.eng) => j.force)
           /\ MarkAndQueue(t, j, line, unloading)
  /\ UNCHANGED <<lru, loaded, abort>>

\* Mutant of UnloadedGoOn: the flag stays.
UnloadedStaysFlagged(t) ==
  /\ At(t, "unloaded") /\ job[t].kind = "unload_all"
  /\ lru' = RemoveFirst(lru, job[t].m)
  /\ Walk(t, job[t], LeaveIn(line, job[t].gate), unloading)
  /\ UNCHANGED <<loaded, abort>>

\* The task resumes after a free: bookkeeping, the gate, the flag, the next name.
UnloadedGoOn(t) ==
  /\ At(t, "unloaded") /\ job[t].kind = "unload_all"
  /\ lru' = RemoveFirst(lru, job[t].m)
  /\ Walk(t, job[t], LeaveIn(line, job[t].gate), unloading \ {job[t].eng})
  /\ UNCHANGED <<loaded, abort>>

\* The embedder, the reranker and the speech model were released too; the
\* active model is remembered, unless it was left in use.
AllReleased(t) ==
  /\ At(t, "all_rest")
  /\ IF active \in job[t].kept
       THEN UNCHANGED <<active, last>>
       ELSE /\ active' = NONE
            /\ last' = IF active # NONE THEN active ELSE last
  /\ Become(t, Done)
  /\ UNCHANGED <<engines, lru, sems, unloading, evicting, loaded, abort, line>>

(***************************************************************************)
(* _idle_unload_once, for one model                                        *)
(***************************************************************************)
\* _inference_sems.get(m) or _inference_sem or InferenceGate(): a model without
\* a gate of its own is unloaded in the active model's, or in an unshared one.
IdleGates(m) == IF sems[m] # NONE THEN {sems[m]}
                ELSE {GateOf(m)} \cup ({sems[x] : x \in Model \cap {active}} \ {NONE})

IdleUnload(t, m) ==
  /\ "idle_unload" \in Kinds /\ job[t] = NoJob
  /\ engines[m] # NONE /\ engines[m] \in loaded /\ Pins(engines[m]) = {}
  /\ \E g \in IdleGates(m) :
     LET l == Join(t, g)
         now == Head(l[g]) = t
     IN /\ line' = l
        /\ unloading' = IF now THEN unloading \cup {engines[m]} ELSE unloading
        /\ Become(t, [NoJob EXCEPT !.kind = "idle_unload", !.m = m, !.gate = g,
                                   !.eng = engines[m],
                                   !.pc = IF now THEN "idle_free" ELSE "idle_gate"])
  /\ UNCHANGED <<engines, lru, sems, active, last, evicting, loaded, abort>>

\* Inside the gate everything but the registration is looked at again.
IdleGranted(t) ==
  /\ At(t, "idle_gate") /\ Inside(t)
  /\ LET j == job[t]
     IN \/ /\ line' = LeaveIn(line, j.gate)             \* used again meanwhile
           /\ Become(t, Done)
           /\ UNCHANGED unloading
        \/ /\ j.eng \in loaded /\ Pins(j.eng) = {}
           /\ unloading' = unloading \cup {j.eng}
           /\ Become(t, [j EXCEPT !.pc = "idle_free"])
           /\ UNCHANGED line
  /\ UNCHANGED <<engines, lru, sems, active, last, evicting, loaded, abort>>

IdleFreeEnds(t) ==
  /\ At(t, "idle_free")
  /\ loaded' = loaded \ {job[t].eng}
  /\ Become(t, [job[t] EXCEPT !.pc = "idle_freed"])
  /\ UNCHANGED <<pool, abort, line>>

\* Mutant of IdleFreed: the gate is not left.
IdleFreedInsideGate(t) ==
  /\ At(t, "idle_freed")
  /\ LET j == job[t]
         rest == RemoveFirst(lru, j.m)
     IN /\ lru' = rest
        /\ unloading' = unloading \ {j.eng}
        /\ active' = IF active # j.m THEN active
                     ELSE IF rest = << >> THEN NONE ELSE rest[Len(rest)]
        /\ last' = IF active = j.m THEN j.m ELSE last
        /\ Become(t, Done)
  /\ UNCHANGED <<engines, sems, evicting, loaded, abort, line>>

\* The task resumes; the active model falls back to the most recently used.
IdleFreed(t) ==
  /\ At(t, "idle_freed")
  /\ LET j == job[t]
         rest == RemoveFirst(lru, j.m)
     IN /\ lru' = rest
        /\ unloading' = unloading \ {j.eng}
        /\ active' = IF active # j.m THEN active
                     ELSE IF rest = << >> THEN NONE ELSE rest[Len(rest)]
        /\ last' = IF active = j.m THEN j.m ELSE last
        /\ line' = LeaveIn(line, j.gate)
        /\ Become(t, Done)
  /\ UNCHANGED <<engines, sems, evicting, loaded, abort>>

NewJob(t) ==
  \/ \E m \in Model : \/ \E b \in BOOLEAN : Request(t, m, b) \/ Switch(t, m, b)
                                            \/ Unload(t, m, b)
                      \/ IdleUnload(t, m)
  \/ \E b \in BOOLEAN : UnloadAll(t, b)

\* The steps of a task on the event loop, and those of its executor threads.
LoopStep(t) ==
  \/ QueueSwitch(t) \/ GateGranted(t) \/ Recheck(t) \/ Budget(t)
  \/ Probe(t) \/ Ladder(t) \/ BusyWaitEnds(t) \/ Confirm(t)
  \/ Freed(t) \/ LoadFailed(t) \/ Commit(t)
  \/ Prepared(t) \/ Produce(t) \/ Replied(t) \/ Abandon(t)
  \/ UnloadWaitEnds(t) \/ UnloadGranted(t) \/ Unloaded(t)
  \/ AllWaitEnds(t) \/ ReadingTaken(t) \/ UnloadedGoOn(t) \/ AllReleased(t)
  \/ IdleGranted(t) \/ IdleFreed(t)
ThreadStep(t) ==
  \/ FreeEnds(t) \/ LoadEnds(t) \/ LazyLoadEnds(t) \/ AbandonedEnds(t)
  \/ UnloadEnds(t) \/ IdleFreeEnds(t)

\* The loop runs tasks in the order they became ready: once a gate is granted
\* to a task, each other task runs at most once before it does.
Granted == {t \in Task : /\ job[t].pc \in {"gate", "queued", "unload_gate", "idle_gate"}
                         /\ Inside(t)}
TakesTurn(t) ==
  /\ t \notin ran
  /\ ran' = IF Granted' = {} THEN {}
            ELSE ((IF Granted \cap Granted' = {} THEN {} ELSE ran) \cup {t}) \ Granted'

JobStep(t) == \/ LoopStep(t) /\ TakesTurn(t)
              \/ ThreadStep(t) /\ UNCHANGED ran

Next == \E t \in Task : \/ NewJob(t) /\ TakesTurn(t)
                        \/ JobStep(t)

Spec == Init /\ [][Next]_vars
FairSpec == Spec /\ \A t \in Task : WF_vars(JobStep(t))
-----------------------------------------------------------------------------
TypeOK ==
  /\ engines \in [Model -> Objects \cup {NONE}]
  /\ lru \in Seq(Model)
  /\ sems \in [Model -> Objects \cup {NONE}]
  /\ active \in Model \cup {NONE} /\ last \in Model \cup {NONE}
  /\ loaded \subseteq Objects /\ unloading \subseteq Objects
  /\ evicting \subseteq Model
  /\ desired \in Model \cup {NONE}
  /\ publisher \in Task \cup {NONE} /\ cancelled \subseteq Task
  /\ line \in [Objects -> Seq(Task)]
  /\ job \in [Task -> Job]
  /\ ran \subseteq Task

\* The active model always has a registered engine, whatever loads, evictions
\* and unloads overlap, where idle models are not unloaded: an idle unload takes
\* the last name of the LRU list, which may be one that is not registered.
ActiveIsRegistered == active # NONE => engines[active] # NONE

Freeing(e) ==
  {t \in Task : \/ At(t, "free") /\ job[t].freed = e
                \/ job[t].pc \in {"unload", "idle_free"} /\ job[t].eng = e}

\* The producer threads that run chat_stream of engine e.
InChatStream(e) ==
  {t \in Task : /\ job[t].pc \in {"lazy_load", "generate", "abandoned_load", "abandoned"}
                /\ job[t].eng = e}
LeftAlone(t) == job[t].pc \in {"abandoned_load", "abandoned"}

\* Whoever frees a native context cuts off no reply that a request still waits
\* for: a thread in chat_stream meanwhile is one whose client has left.  And
\* nobody frees it a second time (pick_eviction_victim guards against "unload()
\* a SECOND time on one native context - a double free").  The gate of the model
\* sees to both, as long as no eviction pops it.
FreesSpareReplies ==
  \A e \in Objects : Freeing(e) # {} => /\ \A t \in InChatStream(e) : LeftAlone(t)
                                       /\ Cardinality(Freeing(e)) = 1

\* The event a newer explicit switch would set belongs to a load in progress,
\* never to one that is over.
PublishedIsLoading ==
  publisher # NONE => job[publisher].pc \in {"load", "loaded", "not_loaded"}

\* A name is in _evicting_names only while a task frees an engine of it: no
\* name is left behind, which would refuse every later load of that model.
EvictingNamesAreFreed ==
  \A m \in evicting : \E t \in Task : /\ job[t].pc \in {"free", "freed"}
                                      /\ job[t].victim = m

\* What a job takes while it lasts and somebody else would wait for, or be
\* refused by: gates, names being evicted, cancel events published or set.
NothingIsHeld ==
  /\ \A g \in Objects : line[g] = << >>
  /\ evicting = {} /\ publisher = NONE /\ cancelled = {}

\* Jobs that are over, however many and however they overlapped, hold nothing.
\* Two of them leave no registered engine flagged (get_engine would never hand
\* it out again), and an unnamed request resolves once something is resident.
\* One that ran by itself leaves the pool in a state jobs may begin in: the LRU
\* list is exactly the loaded registered models, each once, and nothing loaded
\* is outside the registry.
SettledBetweenJobs ==
  LET over == Cardinality({t \in Task : At(t, "done")})
  IN (\A t \in Task : job[t].kind = NONE) =>
       /\ NothingIsHeld
       /\ over <= 2 =>
            /\ \A m \in Model : engines[m] \notin unloading
            /\ lru # << >> => ResolveUnnamed # NONE
       /\ over <= 1 =>
            /\ IsInjective(lru)
            /\ ToSet(lru) = {m \in Model : engines[m] # NONE /\ engines[m] \in loaded}
            /\ \A e \in loaded : \E m \in Model : engines[m] = e
            /\ active # NONE => active \in ToSet(lru)

\* No job waits for ever: two switches that need room from each other, a
\* switch behind a busy model, an unload behind a generation all end.
EveryJobEnds == \A t \in Task : job[t].kind # NONE ~> job[t].kind = NONE

\* switch_engine: "Loads of one model are serialized by its _inference_sems
\* semaphore"; so are those of switches, as long as no eviction pops it.  (A
\* reload in chat_stream may be left alone by its gate.)
OneLoadPerModel ==
  \A t, u \in Task : At(t, "load") /\ At(u, "load") /\ job[t].m = job[u].m => t = u
=============================================================================
