------------------------ MODULE InferenceGateProofs ------------------------
(***************************************************************************)
(* The safety of InferenceGate for every finite set of tasks and every set *)
(* of capacities.  All the actions that change who is inside end in _wake, *)
(* so the argument is one lemma on Wake (from counters, flag and queue     *)
(* that agree with the places of the tasks it produces such ones, and a    *)
(* queue whose head does not fit), and then, for each action, that what it *)
(* hands to Wake does agree.                                               *)
(***************************************************************************)
EXTENDS InferenceGate, FiniteSetTheorems, SequenceTheorems, TLAPS

\* PlacesAccounted and ExclusiveAlone, for given counters and places.
InsideOf(p, kd, k) == {t \in Inside(p) : kd[t] = k}

Accounted(sh, ex, p, kd) ==
  /\ sh = Cardinality(InsideOf(p, kd, SHARED))
  /\ ex = (InsideOf(p, kd, EXCLUSIVE) # {})
  /\ \A t \in Inside(p) : kd[t] = EXCLUSIVE => Inside(p) = {t}

\* QueueIsTheWaiters, for a given queue and places.
Queued(q, p) ==
  /\ \A i, j \in 1 .. Len(q) : i # j => q[i] # q[j]
  /\ \A i \in 1 .. Len(q) : p[q[i]] \in {"waiting", "cancelled"}
  /\ \A t \in Live(p) : \E i \in 1 .. Len(q) : q[i] = t

HeadDoesNotFit(cap, sh, ex, q, p, kd) ==
  q # << >> /\ Head(q) \in Live(p) => ~CanTake(kd[Head(q)], cap, sh, ex)

Kinds == \A t \in Task : pc[t] # "idle" => kind[t] \in Kind

\* The inductive invariant.
IInv ==
  /\ TypeOK
  /\ Kinds
  /\ Accounted(shared, exclusive, pc, kind)
  /\ Queued(waiters, pc)
  /\ HeadDoesNotFit(capacity, shared, exclusive, waiters, pc, kind)
-----------------------------------------------------------------------------
LEMMA AtLeastOneType == ASSUME NEW c \in Int PROVE AtLeastOne(c) \in Nat \ {0}
BY DEF AtLeastOne

LEMMA FiniteInside ==
  ASSUME NEW p, NEW kd, NEW k
  PROVE  /\ IsFiniteSet(Inside(p))
         /\ IsFiniteSet(InsideOf(p, kd, k))
         /\ Cardinality(InsideOf(p, kd, k)) \in Nat
<1>1. Inside(p) \in SUBSET Task /\ InsideOf(p, kd, k) \in SUBSET Task
  BY DEF Inside, InsideOf
<1> QED BY <1>1, GateAssumption, FS_Subset, FS_CardinalityType

LEMMA DisjointUnion ==
  ASSUME NEW S, IsFiniteSet(S), NEW T, IsFiniteSet(T), S \cap T = {}
  PROVE  Cardinality(S \cup T) = Cardinality(S) + Cardinality(T)
<1>1. /\ Cardinality(S) \in Nat /\ Cardinality(T) \in Nat
      /\ Cardinality(S \cap T) = 0
  BY FS_CardinalityType, FS_EmptySet
<1>2. Cardinality(S \cup T) =
        Cardinality(S) + Cardinality(T) - Cardinality(S \cap T)
  BY FS_Union
<1> QED BY <1>1, <1>2

\* Removing entry i of a queue keeps the others, in their order.
LEMMA RemoveAtProperties ==
  ASSUME NEW q \in Seq(Task), NEW i \in 1 .. Len(q)
  PROVE  /\ RemoveAt(q, i) \in Seq(Task)
         /\ Len(RemoveAt(q, i)) = Len(q) - 1
         /\ \A j \in 1 .. (Len(q) - 1) :
              RemoveAt(q, i)[j] = IF j < i THEN q[j] ELSE q[j + 1]
<1> DEFINE a == SubSeq(q, 1, i - 1)
           b == SubSeq(q, i + 1, Len(q))
<1>1. Len(q) \in Nat /\ \A j \in 1 .. Len(q) : q[j] \in Task
  BY ElementOfSeq, LenProperties
<1>2. a \in Seq(Task) /\ Len(a) = i - 1 /\ \A j \in 1 .. (i - 1) : a[j] = q[j]
  BY <1>1, SubSeqProperties
<1>3. /\ b \in Seq(Task) /\ Len(b) = Len(q) - i
      /\ \A j \in 1 .. (Len(q) - i) : b[j] = q[i + j]
  BY <1>1, SubSeqProperties
<1> HIDE DEF a, b
<1>4. /\ a \o b \in Seq(Task)
      /\ Len(a \o b) = Len(q) - 1
      /\ \A j \in 1 .. (Len(q) - 1) :
           (a \o b)[j] = IF j <= Len(a) THEN a[j] ELSE b[j - Len(a)]
  <2>1. Len(a) + Len(b) = Len(q) - 1 BY <1>1, <1>2, <1>3
  <2>2. /\ a \o b \in Seq(Task)
        /\ Len(a \o b) = Len(a) + Len(b)
        /\ \A j \in 1 .. (Len(a) + Len(b)) :
             (a \o b)[j] = IF j <= Len(a) THEN a[j] ELSE b[j - Len(a)]
    BY <1>2, <1>3, ConcatProperties
  <2> QED BY <2>1, <2>2
<1>5. \A j \in 1 .. (Len(q) - 1) : (a \o b)[j] = IF j < i THEN q[j] ELSE q[j + 1]
  <2> TAKE j \in 1 .. (Len(q) - 1)
  <2>1. CASE j < i BY <2>1, <1>1, <1>2, <1>4
  <2>2. CASE ~(j < i)
    <3>1. j - (i - 1) \in 1 .. (Len(q) - i) /\ i + (j - (i - 1)) = j + 1
      BY <2>2, <1>1
    <3> QED BY <2>2, <3>1, <1>1, <1>2, <1>3, <1>4
  <2> QED BY <2>1, <2>2
<1> QED BY <1>4, <1>5 DEF RemoveAt, a, b
-----------------------------------------------------------------------------
\* What _wake establishes from counters, flag and queue that agree with the
\* places of the tasks.
LEMMA WakeEstablishes ==
  ASSUME NEW cap \in Nat \ {0}, NEW sh \in Nat, NEW ex \in BOOLEAN,
         NEW q \in Seq(Task), NEW p \in [Task -> Place],
         kind \in [Task -> Kind \cup {"none"}],
         \A t \in Task : p[t] # "idle" => kind[t] \in Kind,
         Accounted(sh, ex, p, kind), Queued(q, p),
         Wake(cap, sh, ex, q, p)
  PROVE  /\ shared' \in Nat /\ exclusive' \in BOOLEAN
         /\ waiters' \in Seq(Task) /\ pc' \in [Task -> Place]
         /\ \A t \in Task : pc'[t] # p[t] => p[t] = "waiting"
         /\ Accounted(shared', exclusive', pc', kind)
         /\ Queued(waiters', pc')
         /\ HeadDoesNotFit(cap, shared', exclusive', waiters', pc', kind)
<1> DEFINE Grant(n) == {q[i] : i \in 1 .. n} \cap Live(p)
<1>1. PICK n \in 0 .. Len(q) :
        /\ AllFit(Grant(n), cap, sh, ex)
        /\ shared' = sh + Cardinality(OfKind(Grant(n), SHARED))
        /\ exclusive' = (ex \/ OfKind(Grant(n), EXCLUSIVE) # {})
        /\ n < Len(q) =>
             /\ q[n + 1] \in Live(p)
             /\ ~CanTake(kind[q[n + 1]], cap, shared', exclusive')
        /\ waiters' = SubSeq(q, n + 1, Len(q))
        /\ pc' = [t \in Task |-> IF t \in Grant(n) THEN "granted" ELSE p[t]]
  BY DEF Wake
<1> DEFINE G == Grant(n)
<1>2. G \subseteq Live(p) /\ Live(p) \subseteq Task
  BY DEF Live
<1> HIDE DEF Grant, G
<1>3. pc' \in [Task -> Place] /\ \A t \in Task : pc'[t] # p[t] => p[t] = "waiting"
  BY <1>1, <1>2 DEF Place, Live, G
<1>4. Inside(pc') = Inside(p) \cup G /\ Inside(p) \cap G = {}
  BY <1>1, <1>2 DEF Inside, Live, G
<1>5. \A k : /\ InsideOf(pc', kind, k) = InsideOf(p, kind, k) \cup OfKind(G, k)
             /\ InsideOf(p, kind, k) \cap OfKind(G, k) = {}
  BY <1>4 DEF InsideOf, OfKind
<1>6. \A k : IsFiniteSet(OfKind(G, k)) /\ Cardinality(OfKind(G, k)) \in Nat
  <2> TAKE k
  <2>1. OfKind(G, k) \in SUBSET Task BY <1>2 DEF OfKind
  <2> QED BY <2>1, GateAssumption, FS_Subset, FS_CardinalityType
<1>7. Accounted(shared', exclusive', pc', kind)
  <2>1. shared' = Cardinality(InsideOf(pc', kind, SHARED))
    <3>1. InsideOf(pc', kind, SHARED) = InsideOf(p, kind, SHARED) \cup OfKind(G, SHARED)
      BY <1>5
    <3>2. InsideOf(p, kind, SHARED) \cap OfKind(G, SHARED) = {}
      BY <1>5
    <3>3. /\ IsFiniteSet(InsideOf(p, kind, SHARED))
          /\ Cardinality(InsideOf(p, kind, SHARED)) \in Nat
      BY FiniteInside
    <3>4. Cardinality(InsideOf(pc', kind, SHARED)) =
            Cardinality(InsideOf(p, kind, SHARED)) + Cardinality(OfKind(G, SHARED))
      BY <1>6, <3>1, <3>2, <3>3, DisjointUnion
    <3>5. shared' = sh + Cardinality(OfKind(G, SHARED))
      BY <1>1 DEF G
    <3> QED BY <3>4, <3>5 DEF Accounted
  <2>2. exclusive' = (InsideOf(pc', kind, EXCLUSIVE) # {})
    <3>1. exclusive' = (ex \/ OfKind(G, EXCLUSIVE) # {})
      BY <1>1 DEF G
    <3> QED BY <3>1, <1>5 DEF Accounted
  <2>3. ASSUME NEW t \in Inside(pc'), kind[t] = EXCLUSIVE
        PROVE  Inside(pc') = {t}
    <3>1. AllFit(G, cap, sh, ex) BY <1>1 DEF G
    <3>2. CASE G = {} BY <3>2, <2>3, <1>4 DEF Accounted
    <3>3. CASE ~ex /\ sh = 0 /\ \E u \in G : G = {u} /\ kind[u] = EXCLUSIVE
      <4>1. InsideOf(p, kind, SHARED) = {} /\ InsideOf(p, kind, EXCLUSIVE) = {}
        BY <3>3, FiniteInside, FS_EmptySet DEF Accounted
      <4>2. \A u \in Inside(p) : kind[u] \notin Kind
        BY <4>1 DEF InsideOf, Kind
      <4>3. \A u \in Inside(p) : kind[u] \in Kind
        BY DEF Inside
      <4> QED BY <3>3, <4>2, <4>3, <2>3, <1>4
    <3>4. CASE ~ex /\ \A u \in G : kind[u] = SHARED
      <4>1. InsideOf(p, kind, EXCLUSIVE) = {} BY <3>4 DEF Accounted
      <4> QED BY <3>4, <4>1, <2>3, <1>4 DEF InsideOf, SHARED, EXCLUSIVE
    <3> QED BY <3>1, <3>2, <3>3, <3>4 DEF AllFit
  <2> QED BY <2>1, <2>2, <2>3 DEF Accounted
<1>8. /\ waiters' \in Seq(Task) /\ Len(waiters') = Len(q) - n
      /\ \A i \in 1 .. (Len(q) - n) : waiters'[i] = q[n + i]
  <2>1. Len(q) \in Nat /\ \A i \in 1 .. Len(q) : q[i] \in Task
    BY ElementOfSeq, LenProperties
  <2>2. waiters' = SubSeq(q, n + 1, Len(q)) BY <1>1
  <2>3. /\ SubSeq(q, n + 1, Len(q)) \in Seq(Task)
        /\ Len(SubSeq(q, n + 1, Len(q))) =
             IF n + 1 <= Len(q) THEN Len(q) - (n + 1) + 1 ELSE 0
        /\ \A i \in 1 .. (Len(q) - (n + 1) + 1) :
             SubSeq(q, n + 1, Len(q))[i] = q[n + 1 + i - 1]
    BY <2>1, SubSeqProperties
  <2> QED BY <2>1, <2>2, <2>3
<1>9. Queued(waiters', pc')
  <2>1. \A i \in 1 .. Len(waiters') :
          n + i \in 1 .. Len(q) /\ waiters'[i] = q[n + i] /\ waiters'[i] \notin G
    <3>1. TAKE i \in 1 .. Len(waiters')
    <3>2. n + i \in 1 .. Len(q) /\ waiters'[i] = q[n + i]
      BY <1>8, <1>1, LenProperties
    <3>3. \A j \in 1 .. n : q[j] # q[n + i]
      BY <3>2, <1>8, LenProperties DEF Queued
    <3> QED BY <3>2, <3>3 DEF G, Grant
  <2>2. \A i, j \in 1 .. Len(waiters') : i # j => waiters'[i] # waiters'[j]
    BY <2>1, <1>8, LenProperties DEF Queued
  <2>3. \A i \in 1 .. Len(waiters') : pc'[waiters'[i]] \in {"waiting", "cancelled"}
    <3>1. TAKE i \in 1 .. Len(waiters')
    <3>2. waiters'[i] \in Task /\ p[waiters'[i]] \in {"waiting", "cancelled"}
      BY <2>1, <1>8, ElementOfSeq DEF Queued
    <3> QED BY <2>1, <3>2, <1>1 DEF G
  <2>4. ASSUME NEW t \in Live(pc') PROVE \E i \in 1 .. Len(waiters') : waiters'[i] = t
    <3>1. t \in Live(p) /\ t \notin G
      BY <1>1, <1>3 DEF Live, G
    <3>2. PICK j \in 1 .. Len(q) : q[j] = t
      BY <3>1 DEF Queued
    <3>3. j \notin 1 .. n
      BY <3>1, <3>2 DEF G, Grant
    <3>4. j - n \in 1 .. Len(waiters') /\ n + (j - n) = j
      BY <3>3, <1>8, LenProperties
    <3> QED BY <3>2, <3>4, <1>8
  <2> QED BY <2>2, <2>3, <2>4 DEF Queued
<1>10. HeadDoesNotFit(cap, shared', exclusive', waiters', pc', kind)
  <2> SUFFICES ASSUME waiters' # << >>
               PROVE  ~CanTake(kind[Head(waiters')], cap, shared', exclusive')
    BY DEF HeadDoesNotFit
  <2>1. Len(waiters') > 0 /\ Head(waiters') = waiters'[1]
    BY <1>8, EmptySeq, LenProperties
  <2>2. n < Len(q) /\ waiters'[1] = q[n + 1]
    BY <2>1, <1>8, LenProperties
  <2> QED BY <2>1, <2>2, <1>1
<1> QED BY <1>1, <1>3, <1>6, <1>7, <1>8, <1>9, <1>10 DEF G

LEMMA InitIInv == Init => IInv
<1> SUFFICES ASSUME Init PROVE IInv
  OBVIOUS
<1>1. capacity \in Nat \ {0}
  BY GateAssumption, AtLeastOneType DEF Init
<1>2. \A k : InsideOf(pc, kind, k) = {} /\ Inside(pc) = {} /\ Live(pc) = {}
  BY DEF Init, InsideOf, Inside, Live
<1>3. TypeOK /\ Kinds
  BY <1>1, EmptySeq DEF Init, TypeOK, Kinds, Place
<1>4. Accounted(shared, exclusive, pc, kind)
  BY <1>2, FS_EmptySet DEF Init, Accounted
<1>5. Queued(waiters, pc) /\ HeadDoesNotFit(capacity, shared, exclusive, waiters, pc, kind)
  BY <1>2, EmptySeq DEF Init, Queued, HeadDoesNotFit
<1> QED BY <1>3, <1>4, <1>5 DEF IInv

\* _wake after a change that leaves the rest of the invariant alone.
LEMMA WakePreserves ==
  ASSUME NEW cap \in Nat \ {0}, NEW sh \in Nat, NEW ex \in BOOLEAN,
         NEW q \in Seq(Task), NEW p \in [Task -> Place],
         kind \in [Task -> Kind \cup {"none"}],
         \A t \in Task : p[t] # "idle" => kind[t] \in Kind,
         Accounted(sh, ex, p, kind), Queued(q, p),
         Wake(cap, sh, ex, q, p),
         kind' \in [Task -> Kind \cup {"none"}],
         \A t \in Task : p[t] # "idle" => kind'[t] = kind[t],
         capacity' = cap
  PROVE  IInv'
<1>1. /\ shared' \in Nat /\ exclusive' \in BOOLEAN
      /\ waiters' \in Seq(Task) /\ pc' \in [Task -> Place]
      /\ \A t \in Task : pc'[t] # p[t] => p[t] = "waiting"
      /\ Accounted(shared', exclusive', pc', kind)
      /\ Queued(waiters', pc')
      /\ HeadDoesNotFit(cap, shared', exclusive', waiters', pc', kind)
  BY WakeEstablishes
<1>2. \A t \in Task : pc'[t] # "idle" => kind'[t] = kind[t] /\ kind'[t] \in Kind
  BY <1>1
<1>3. /\ Inside(pc') \subseteq {t \in Task : pc'[t] # "idle"}
      /\ Live(pc') \subseteq {t \in Task : pc'[t] # "idle"}
  BY DEF Inside, Live
<1>4. \A k : InsideOf(pc', kind', k) = InsideOf(pc', kind, k)
  BY <1>2, <1>3 DEF InsideOf
<1>5. Accounted(shared', exclusive', pc', kind')
  BY <1>1, <1>2, <1>3, <1>4 DEF Accounted
<1>6. HeadDoesNotFit(capacity', shared', exclusive', waiters', pc', kind')
  BY <1>1, <1>2, <1>3 DEF HeadDoesNotFit
<1>7. TypeOK' /\ Kinds'
  BY <1>1, <1>2 DEF TypeOK, Kinds
<1> QED BY <1>1, <1>5, <1>6, <1>7 DEF IInv

\* A task inside leaves (Release, and a revoked task's ResumeRevoked): the
\* counters that _give_back hands to _wake agree with the tasks left inside.
LEMMA GiveBackWakes ==
  ASSUME IInv, NEW t \in Inside(pc), GiveBack(t)
  PROVE  \E p \in [Task -> Place], sh \in Nat, ex \in BOOLEAN :
           /\ \A u \in Task : p[u] = IF u = t THEN "idle" ELSE pc[u]
           /\ Inside(p) = Inside(pc) \ {t} /\ Live(p) = Live(pc)
           /\ Accounted(sh, ex, p, kind) /\ Queued(waiters, p)
           /\ Wake(capacity, sh, ex, waiters, p)
<1> DEFINE p  == [pc EXCEPT ![t] = "idle"]
           sh == IF kind[t] = SHARED THEN shared - 1 ELSE shared
           ex == IF kind[t] = EXCLUSIVE THEN FALSE ELSE exclusive
<1>1. t \in Task /\ pc[t] # "waiting" /\ pc[t] # "cancelled" /\ kind[t] \in Kind
  BY DEF IInv, Kinds, Inside
<1>2. /\ p \in [Task -> Place] /\ p[t] = "idle"
      /\ \A u \in Task \ {t} : p[u] = pc[u]
  BY <1>1 DEF IInv, TypeOK, Place
<1>3. Inside(p) = Inside(pc) \ {t} /\ Live(p) = Live(pc)
  BY <1>1, <1>2 DEF Inside, Live
<1>4. \A k : InsideOf(p, kind, k) = InsideOf(pc, kind, k) \ {t}
  BY <1>3 DEF InsideOf
<1> HIDE DEF p
<1>5. Accounted(sh, ex, p, kind)
  <2>1. CASE kind[t] = SHARED
    <3>1. IsFiniteSet(InsideOf(pc, kind, SHARED)) /\ t \in InsideOf(pc, kind, SHARED)
      BY <2>1, FiniteInside DEF InsideOf
    <3>2. Cardinality(InsideOf(p, kind, SHARED)) = shared - 1
      BY <3>1, <1>4, FS_RemoveElement DEF IInv, Accounted
    <3>3. InsideOf(p, kind, EXCLUSIVE) = InsideOf(pc, kind, EXCLUSIVE)
      BY <2>1, <1>4 DEF InsideOf, SHARED, EXCLUSIVE
    <3>4. ex = exclusive /\ sh = shared - 1 BY <2>1 DEF SHARED, EXCLUSIVE
    <3> QED BY <3>2, <3>3, <3>4, <1>3 DEF IInv, Accounted
  <2>2. CASE kind[t] = EXCLUSIVE
    <3>1. Inside(pc) = {t} BY <2>2 DEF IInv, Accounted
    <3>2. Inside(p) = {} /\ \A k : InsideOf(p, kind, k) = {}
      BY <3>1, <1>3 DEF InsideOf
    <3>3. InsideOf(pc, kind, SHARED) = {}
      BY <3>1, <2>2 DEF InsideOf, SHARED, EXCLUSIVE
    <3>4. ex = FALSE /\ sh = shared BY <2>2 DEF SHARED, EXCLUSIVE
    <3> QED BY <3>2, <3>3, <3>4, <1>3 DEF IInv, Accounted
  <2> QED BY <1>1, <2>1, <2>2 DEF Kind
<1>6. Queued(waiters, p)
  <2>1. \A i \in 1 .. Len(waiters) : waiters[i] \in Task /\ waiters[i] # t
    BY <1>1, ElementOfSeq DEF IInv, TypeOK, Queued
  <2> QED BY <2>1, <1>2, <1>3 DEF IInv, Queued
<1>7. sh \in Nat /\ ex \in BOOLEAN
  <2>1. shared \in Nat /\ exclusive \in BOOLEAN /\ (kind[t] = SHARED => shared > 0)
    BY DEF GiveBack, IInv, TypeOK
  <2>2. sh \in Nat BY <2>1
  <2>3. ex \in BOOLEAN BY <2>1
  <2> QED BY <2>2, <2>3
<1>8. Wake(capacity, sh, ex, waiters, p)
  BY DEF GiveBack, p
<1> HIDE DEF sh, ex
<1> QED BY <1>1, <1>2, <1>3, <1>5, <1>6, <1>7, <1>8

LEMMA GiveBackPreserves ==
  ASSUME IInv, NEW t \in Inside(pc), GiveBack(t)
  PROVE  IInv'
<1>1. PICK p \in [Task -> Place], sh \in Nat, ex \in BOOLEAN :
        /\ \A u \in Task : p[u] = IF u = t THEN "idle" ELSE pc[u]
        /\ Accounted(sh, ex, p, kind) /\ Queued(waiters, p)
        /\ Wake(capacity, sh, ex, waiters, p)
  BY GiveBackWakes
<1>2. /\ kind' \in [Task -> Kind \cup {"none"}] /\ capacity' = capacity
      /\ \A u \in Task : p[u] # "idle" => kind'[u] = kind[u] /\ kind[u] \in Kind
  BY <1>1 DEF IInv, TypeOK, Kinds, GiveBack
<1>3. /\ capacity \in Nat \ {0} /\ waiters \in Seq(Task)
      /\ kind \in [Task -> Kind \cup {"none"}]
  BY DEF IInv, TypeOK
<1> QED BY <1>1, <1>2, <1>3, WakePreserves

\* A cancelled task runs again: whether _wake has dropped its entry or not,
\* the queue handed to _wake holds the waiters and nothing of the task.
LEMMA ResumeCancelledWakes ==
  ASSUME IInv, NEW t \in Task, ResumeCancelled(t)
  PROVE  \E p \in [Task -> Place], q \in Seq(Task) :
           /\ \A u \in Task : p[u] = IF u = t THEN "idle" ELSE pc[u]
           /\ Inside(p) = Inside(pc) /\ Live(p) = Live(pc)
           /\ \/ q = waiters
              \/ \E i \in 1 .. Len(waiters) : waiters[i] = t /\ q = RemoveAt(waiters, i)
           /\ Accounted(shared, exclusive, p, kind) /\ Queued(q, p)
           /\ Wake(capacity, shared, exclusive, q, p)
<1> DEFINE p == [pc EXCEPT ![t] = "idle"]
<1>1. /\ p \in [Task -> Place] /\ p[t] = "idle" /\ pc[t] = "cancelled"
      /\ \A u \in Task \ {t} : p[u] = pc[u]
  BY DEF ResumeCancelled, IInv, TypeOK, Place
<1>2. Inside(p) = Inside(pc) /\ Live(p) = Live(pc)
  BY <1>1 DEF Inside, Live
<1> HIDE DEF p
<1>3. Accounted(shared, exclusive, p, kind)
  BY <1>2 DEF IInv, Accounted, InsideOf
<1>4. \E q \in Seq(Task) :
        /\ \/ q = waiters
           \/ \E i \in 1 .. Len(waiters) : waiters[i] = t /\ q = RemoveAt(waiters, i)
        /\ Queued(q, p) /\ Wake(capacity, shared, exclusive, q, p)
  <2>0. /\ waiters \in Seq(Task) /\ Len(waiters) \in Nat
        /\ \A i \in 1 .. Len(waiters) : waiters[i] \in Task
    BY ElementOfSeq, LenProperties DEF IInv, TypeOK
  <2>1. ASSUME NEW i \in 1 .. Len(waiters), waiters[i] = t
        PROVE  Queued(RemoveAt(waiters, i), p)
    <3> DEFINE q == RemoveAt(waiters, i)
               at(j) == IF j < i THEN j ELSE j + 1
    <3>1. /\ Len(q) = Len(waiters) - 1
          /\ \A j \in 1 .. Len(q) :
               at(j) \in 1 .. Len(waiters) /\ at(j) # i /\ q[j] = waiters[at(j)]
      <4>1. /\ Len(q) = Len(waiters) - 1
            /\ \A j \in 1 .. (Len(waiters) - 1) :
                 q[j] = IF j < i THEN waiters[j] ELSE waiters[j + 1]
        BY <2>0, RemoveAtProperties
      <4> HIDE DEF q
      <4> QED BY <2>0, <4>1
    <3> HIDE DEF q
    <3>2. \A j, k \in 1 .. Len(q) : j # k => at(j) # at(k)
      BY <3>1, <2>0
    <3>3. \A j \in 1 .. Len(waiters) : j # i => \E k \in 1 .. Len(q) : q[k] = waiters[j]
      <4>1. SUFFICES ASSUME NEW j \in 1 .. Len(waiters), j # i
                     PROVE  \E k \in 1 .. Len(q) : q[k] = waiters[j]
        OBVIOUS
      <4>2. CASE j < i BY <4>2, <3>1, <2>0
      <4>3. CASE j > i
        <5>1. j - 1 \in 1 .. Len(q) /\ at(j - 1) = j BY <4>3, <3>1, <2>0
        <5> QED BY <5>1, <3>1
      <4> QED BY <4>1, <4>2, <4>3, <2>0
    <3> HIDE DEF at
    <3>4. \A j, k \in 1 .. Len(q) : j # k => q[j] # q[k]
      BY <3>1, <3>2 DEF IInv, Queued
    <3>5. \A j \in 1 .. Len(q) : p[q[j]] \in {"waiting", "cancelled"}
      BY <3>1, <2>0, <2>1, <1>1 DEF IInv, Queued
    <3>6. \A u \in Live(p) : \E k \in 1 .. Len(q) : q[k] = u
      <4> TAKE u \in Live(p)
      <4>1. PICK j \in 1 .. Len(waiters) : waiters[j] = u
        BY <1>2 DEF IInv, Queued
      <4>2. j # i BY <4>1, <2>1, <1>1 DEF Live
      <4> QED BY <4>1, <4>2, <3>3
    <3> QED BY <3>4, <3>5, <3>6 DEF Queued, q
  <2>2. ASSUME \A i \in 1 .. Len(waiters) : waiters[i] # t
        PROVE  Queued(waiters, p)
    BY <2>0, <2>2, <1>1, <1>2 DEF IInv, Queued
  <2> QED BY <2>0, <2>1, <2>2, RemoveAtProperties DEF ResumeCancelled, p
<1> QED BY <1>1, <1>2, <1>3, <1>4

LEMMA ResumeCancelledPreserves ==
  ASSUME IInv, NEW t \in Task, ResumeCancelled(t)
  PROVE  IInv'
<1>1. PICK p \in [Task -> Place], q \in Seq(Task) :
        /\ \A u \in Task : p[u] = IF u = t THEN "idle" ELSE pc[u]
        /\ Accounted(shared, exclusive, p, kind) /\ Queued(q, p)
        /\ Wake(capacity, shared, exclusive, q, p)
  BY ResumeCancelledWakes
<1>2. /\ kind' \in [Task -> Kind \cup {"none"}] /\ capacity' = capacity
      /\ \A u \in Task : p[u] # "idle" => kind'[u] = kind[u] /\ kind[u] \in Kind
  BY <1>1 DEF IInv, TypeOK, Kinds, ResumeCancelled
<1> QED BY <1>1, <1>2, WakePreserves DEF IInv, TypeOK

LEMMA SetCapacityPreserves ==
  ASSUME IInv, NEW c \in CapacityValue, SetCapacity(c)
  PROVE  IInv'
<1>1. AtLeastOne(c) \in Nat \ {0} BY GateAssumption, AtLeastOneType
<1> QED BY <1>1, WakePreserves DEF SetCapacity, IInv, TypeOK, Kinds

\* The only way in without the queue: nobody waits and the place is free.
LEMMA AcquireNowPreserves ==
  ASSUME IInv, NEW t \in Task, NEW k \in Kind, AcquireNow(t, k)
  PROVE  IInv'
<1>1. /\ waiters = << >> /\ waiters' = << >> /\ capacity' = capacity
      /\ ~exclusive /\ pc[t] = "idle"
      /\ pc' \in [Task -> Place] /\ kind' \in [Task -> Kind \cup {"none"}]
      /\ pc'[t] = "holding" /\ kind'[t] = k
      /\ \A u \in Task \ {t} : pc'[u] = pc[u] /\ kind'[u] = kind[u]
  BY DEF AcquireNow, CanTake, IInv, TypeOK, Place
<1>2. /\ Inside(pc') = Inside(pc) \cup {t} /\ t \notin Inside(pc)
      /\ Live(pc') = Live(pc) /\ Live(pc) = {}
  <2>1. Inside(pc') = Inside(pc) \cup {t} /\ t \notin Inside(pc) /\ Live(pc') = Live(pc)
    BY <1>1 DEF Inside, Live
  <2>2. Live(pc) = {}
    BY <1>1, EmptySeq DEF IInv, Queued
  <2> QED BY <2>1, <2>2
<1>3. \A j : InsideOf(pc', kind', j) =
               IF j = k THEN InsideOf(pc, kind, j) \cup {t} ELSE InsideOf(pc, kind, j)
  BY <1>1, <1>2 DEF InsideOf, Inside
<1>4. InsideOf(pc, kind, EXCLUSIVE) = {}
  BY <1>1 DEF IInv, Accounted
<1>5. Accounted(shared', exclusive', pc', kind')
  <2>1. CASE k = SHARED
    <3>1. shared' = shared + 1 /\ exclusive' = FALSE
      <4>1. exclusive = FALSE BY <1>4 DEF IInv, Accounted
      <4> QED BY <2>1, <4>1 DEF AcquireNow, SHARED, EXCLUSIVE
    <3>2. Cardinality(InsideOf(pc', kind', SHARED)) = shared + 1
      <4>1. t \notin InsideOf(pc, kind, SHARED) BY <1>2 DEF InsideOf
      <4> QED BY <4>1, <2>1, <1>3, FiniteInside, FS_AddElement DEF IInv, Accounted
    <3>3. InsideOf(pc', kind', EXCLUSIVE) = {}
      BY <2>1, <1>3, <1>4 DEF SHARED, EXCLUSIVE
    <3>4. \A u \in Inside(pc') : kind'[u] # EXCLUSIVE
      BY <3>3 DEF InsideOf
    <3> QED BY <3>1, <3>2, <3>3, <3>4, <1>1 DEF Accounted
  <2>2. CASE k = EXCLUSIVE
    <3>1. shared' = shared /\ shared = 0 /\ exclusive' = TRUE
      BY <2>2 DEF AcquireNow, CanTake
    <3>2. InsideOf(pc, kind, SHARED) = {}
      BY <3>1, FiniteInside, FS_EmptySet DEF IInv, Accounted
    <3>3. Inside(pc) = {}
      BY <3>2, <1>4 DEF InsideOf, Inside, IInv, Kinds, Kind
    <3>4. Inside(pc') = {t} BY <3>3, <1>2
    <3>5. InsideOf(pc', kind', SHARED) = {} /\ InsideOf(pc', kind', EXCLUSIVE) = {t}
      BY <3>2, <2>2, <1>3, <1>4 DEF SHARED, EXCLUSIVE
    <3> QED BY <3>1, <3>4, <3>5, FS_EmptySet DEF Accounted
  <2> QED BY <2>1, <2>2 DEF Kind
<1>6. Queued(waiters', pc') /\ HeadDoesNotFit(capacity', shared', exclusive', waiters', pc', kind')
  BY <1>1, <1>2, EmptySeq DEF Queued, HeadDoesNotFit
<1>7. shared' \in Nat /\ exclusive' \in BOOLEAN
  <2>1. shared \in Nat /\ exclusive \in BOOLEAN BY DEF IInv, TypeOK
  <2>2. shared' \in Nat BY <2>1 DEF AcquireNow
  <2>3. exclusive' \in BOOLEAN BY <2>1 DEF AcquireNow
  <2> QED BY <2>2, <2>3
<1>8. TypeOK' /\ Kinds'
  BY <1>1, <1>7 DEF IInv, TypeOK, Kinds
<1> QED BY <1>5, <1>6, <1>8 DEF IInv

\* The counters stay, the newcomer is behind every entry; alone in the queue
\* it is there because it does not fit.
LEMMA EnqueuePreserves ==
  ASSUME IInv, NEW t \in Task, NEW k \in Kind, Enqueue(t, k)
  PROVE  IInv'
<1>0. waiters \in Seq(Task) /\ Len(waiters) \in Nat
  BY LenProperties DEF IInv, TypeOK
<1>1. /\ capacity' = capacity /\ shared' = shared /\ exclusive' = exclusive
      /\ pc[t] = "idle"
      /\ pc' \in [Task -> Place] /\ kind' \in [Task -> Kind \cup {"none"}]
      /\ pc'[t] = "waiting" /\ kind'[t] = k
      /\ \A u \in Task \ {t} : pc'[u] = pc[u] /\ kind'[u] = kind[u]
  BY DEF Enqueue, IInv, TypeOK, Place
<1>2. /\ waiters' \in Seq(Task) /\ Len(waiters') = Len(waiters) + 1
      /\ \A i \in 1 .. Len(waiters) : waiters'[i] = waiters[i] /\ waiters[i] \in Task
      /\ waiters'[Len(waiters) + 1] = t
  BY <1>0, AppendProperties, ElementOfSeq DEF Enqueue
<1>3. Inside(pc') = Inside(pc) /\ Live(pc') = Live(pc) \cup {t} /\ t \notin Inside(pc)
  BY <1>1 DEF Inside, Live
<1>4. \A j : InsideOf(pc', kind', j) = InsideOf(pc, kind, j)
  BY <1>1, <1>3 DEF InsideOf, Inside
<1>5. Accounted(shared', exclusive', pc', kind')
  BY <1>1, <1>3, <1>4 DEF IInv, Accounted, Inside
<1>6. \A i \in 1 .. Len(waiters) :
        waiters[i] # t /\ pc[waiters[i]] \in {"waiting", "cancelled"}
  BY <1>1 DEF IInv, Queued
<1>7. Queued(waiters', pc')
  <2>1. \A i, j \in 1 .. Len(waiters') : i # j => waiters'[i] # waiters'[j]
    BY <1>0, <1>2, <1>6 DEF IInv, Queued
  <2>2. \A i \in 1 .. Len(waiters') : pc'[waiters'[i]] \in {"waiting", "cancelled"}
    BY <1>0, <1>1, <1>2, <1>6
  <2>3. \A u \in Live(pc') : \E i \in 1 .. Len(waiters') : waiters'[i] = u
    BY <1>0, <1>2, <1>3 DEF IInv, Queued
  <2> QED BY <2>1, <2>2, <2>3 DEF Queued
<1>8. HeadDoesNotFit(capacity', shared', exclusive', waiters', pc', kind')
  <2>1. CASE waiters = << >>
    <3>1. Head(waiters') = t BY <2>1, <1>0, <1>2, EmptySeq
    <3>2. ~CanTake(k, capacity, shared, exclusive) BY <2>1 DEF Enqueue
    <3> QED BY <3>1, <3>2, <1>1 DEF HeadDoesNotFit
  <2>2. CASE waiters # << >>
    <3>1. Len(waiters) > 0 BY <2>2, <1>0, EmptySeq
    <3>2. Head(waiters') = Head(waiters) /\ Head(waiters) \in Task \ {t}
      BY <3>1, <1>0, <1>2, <1>6, HeadTailProperties
    <3> QED BY <3>2, <2>2, <1>1, <1>3 DEF HeadDoesNotFit, IInv
  <2> QED BY <2>1, <2>2
<1>9. TypeOK' /\ Kinds'
  BY <1>1, <1>2 DEF IInv, TypeOK, Kinds
<1> QED BY <1>5, <1>7, <1>8, <1>9 DEF IInv

\* A task's place changes, nothing else: Cancel, CancelGranted, Resume.
LEMMA MovePreserves ==
  ASSUME IInv, NEW t \in Task, Cancel(t) \/ CancelGranted(t) \/ Resume(t)
  PROVE  IInv'
<1>1. /\ UNCHANGED <<capacity, shared, exclusive, waiters, kind>>
      /\ pc' \in [Task -> Place] /\ pc[t] # "idle" /\ pc'[t] # "idle"
      /\ \A u \in Task \ {t} : pc'[u] = pc[u]
      /\ pc[t] = "waiting" => pc'[t] = "cancelled"
      /\ t \in Inside(pc) <=> t \in Inside(pc')
      /\ t \notin Live(pc') /\ (pc[t] # "waiting" => pc[t] # "cancelled")
  BY DEF Cancel, CancelGranted, Resume, IInv, TypeOK, Place, Inside, Live
<1>2. Inside(pc') = Inside(pc) /\ Live(pc') = Live(pc) \ {t}
  BY <1>1 DEF Inside, Live
<1>3. Accounted(shared', exclusive', pc', kind')
  BY <1>1, <1>2 DEF IInv, Accounted, InsideOf
<1>4. \A i \in 1 .. Len(waiters) : waiters[i] \in Task
  BY ElementOfSeq DEF IInv, TypeOK
<1>5. Queued(waiters', pc')
  BY <1>1, <1>2, <1>4 DEF IInv, Queued
<1>6. HeadDoesNotFit(capacity', shared', exclusive', waiters', pc', kind')
  BY <1>1, <1>2 DEF IInv, HeadDoesNotFit
<1>7. TypeOK' /\ Kinds'
  BY <1>1 DEF IInv, TypeOK, Kinds
<1> QED BY <1>3, <1>5, <1>6, <1>7 DEF IInv

LEMMA NextPreserves == IInv /\ [Next]_vars => IInv'
<1> SUFFICES ASSUME IInv, [Next]_vars PROVE IInv'
  OBVIOUS
<1>1. ASSUME NEW t \in Task, NEW k \in Kind, AcquireNow(t, k) PROVE IInv'
  BY <1>1, AcquireNowPreserves
<1>2. ASSUME NEW t \in Task, NEW k \in Kind, Enqueue(t, k) PROVE IInv'
  BY <1>2, EnqueuePreserves
<1>3. ASSUME NEW t \in Task, Cancel(t) \/ CancelGranted(t) \/ Resume(t) PROVE IInv'
  BY <1>3, MovePreserves
<1>4. ASSUME NEW t \in Task, ResumeRevoked(t) \/ Release(t) PROVE IInv'
  BY <1>4, GiveBackPreserves DEF ResumeRevoked, Release, Inside
<1>5. ASSUME NEW t \in Task, ResumeCancelled(t) PROVE IInv'
  BY <1>5, ResumeCancelledPreserves
<1>6. ASSUME NEW c \in CapacityValue, SetCapacity(c) PROVE IInv'
  BY <1>6, SetCapacityPreserves
<1>7. CASE UNCHANGED vars
  BY <1>7 DEF vars, IInv, TypeOK, Kinds, Accounted, InsideOf, Queued,
              HeadDoesNotFit, Inside, Live, CanTake
<1> QED BY <1>1, <1>2, <1>3, <1>4, <1>5, <1>6, <1>7 DEF Next

THEOREM Invariant == Spec => []IInv
BY InitIInv, NextPreserves, PTL DEF Spec
-----------------------------------------------------------------------------
\* Every variable of the gate keeps its type; the capacity is never below 1.
THEOREM TypeCorrect == Spec => []TypeOK
BY Invariant, PTL DEF IInv

\* No place leaks and none is given back twice, however cancellations and
\* grants meet.
THEOREM NoPlaceLeaks == Spec => []PlacesAccounted
<1>1. IInv => PlacesAccounted
  BY DEF IInv, Accounted, PlacesAccounted, InsideOf, OfKind
<1> QED BY <1>1, Invariant, PTL

\* A load, an unload or an eviction has the gate for itself.
THEOREM MutualExclusion == Spec => []ExclusiveAlone
<1>1. IInv => ExclusiveAlone
  BY DEF IInv, Accounted, ExclusiveAlone
<1> QED BY <1>1, Invariant, PTL

\* The queue is the pending waiters and cancelled tasks yet to run, once each.
THEOREM QueueExact == Spec => []QueueIsTheWaiters
<1>1. IInv => QueueIsTheWaiters
  BY DEF IInv, Queued, QueueIsTheWaiters
<1> QED BY <1>1, Invariant, PTL

\* The gate is never free for the waiter at the head of its queue.
THEOREM WakeUpsAreNotLost == Spec => []NoLostWakeup
<1>1. IInv => NoLostWakeup
  BY DEF IInv, HeadDoesNotFit, NoLostWakeup
<1> QED BY <1>1, Invariant, PTL
-----------------------------------------------------------------------------
\* _wake overtakes nobody: whom it lets in was queued before whom it leaves.
LEMMA WakeInOrder ==
  ASSUME NEW cap, NEW sh, NEW ex, NEW q \in Seq(Task), NEW p \in [Task -> Place],
         Wake(cap, sh, ex, q, p),
         NEW i \in 1 .. Len(q), q[i] \in Live(p), q[i] \in Live(pc'),
         NEW u \in Inside(pc') \ Inside(p)
  PROVE  \E j \in 1 .. (i - 1) : q[j] = u
<1>1. PICK n \in 0 .. Len(q) :
        pc' = [t \in Task |-> IF t \in {q[j] : j \in 1 .. n} \cap Live(p)
                              THEN "granted" ELSE p[t]]
  BY DEF Wake
<1>2. PICK j \in 1 .. n : q[j] = u
  BY <1>1 DEF Inside
<1>3. i \notin 1 .. n
  BY <1>1 DEF Live
<1>4. j \in 1 .. (i - 1)
  BY <1>2, <1>3, LenProperties
<1> QED BY <1>2, <1>4

\* ... and lets a generation in only while the count is within the capacity.
LEMMA WakeWithinCapacity ==
  ASSUME NEW cap \in Nat, NEW sh \in Nat, NEW ex, NEW q, NEW p \in [Task -> Place],
         Wake(cap, sh, ex, q, p),
         NEW u \in Inside(pc') \ Inside(p), kind[u] = SHARED
  PROVE  shared' <= cap
<1>1. PICK n \in 0 .. Len(q) :
        LET G == {q[j] : j \in 1 .. n} \cap Live(p)
        IN  /\ AllFit(G, cap, sh, ex)
            /\ shared' = sh + Cardinality(OfKind(G, SHARED))
            /\ pc' = [t \in Task |-> IF t \in G THEN "granted" ELSE p[t]]
  BY DEF Wake
<1> DEFINE G == {q[j] : j \in 1 .. n} \cap Live(p)
<1>2. AllFit(G, cap, sh, ex) /\ shared' = sh + Cardinality(OfKind(G, SHARED))
  BY <1>1
<1>3. u \in G
  BY <1>1 DEF Inside
<1> HIDE DEF G
<1>4. sh + Cardinality(G) <= cap /\ \A t \in G : kind[t] = SHARED
  BY <1>2, <1>3 DEF AllFit, SHARED, EXCLUSIVE
<1>5. OfKind(G, SHARED) = G
  BY <1>4 DEF OfKind
<1> QED BY <1>2, <1>4, <1>5

\* The queue that an action hands to Wake keeps the order of the waiters.
LEMMA StepInOrder ==
  ASSUME IInv, [Next]_vars,
         NEW i \in 1 .. Len(waiters), waiters[i] \in Live(pc), waiters[i] \in Live(pc'),
         NEW u \in Inside(pc') \ Inside(pc)
  PROVE  \E j \in 1 .. (i - 1) : waiters[j] = u
<1>0. waiters \in Seq(Task) /\ pc \in [Task -> Place] /\ Len(waiters) \in Nat
  BY LenProperties DEF IInv, TypeOK
<1>1. ASSUME NEW t \in Task, NEW k \in Kind, AcquireNow(t, k) PROVE FALSE
  BY <1>1, EmptySeq DEF AcquireNow
<1>2. ASSUME NEW t \in Task,
             \/ \E k \in Kind : Enqueue(t, k)
             \/ Cancel(t) \/ CancelGranted(t) \/ Resume(t)
      PROVE  FALSE
  BY <1>0, <1>2 DEF Enqueue, Cancel, CancelGranted, Resume, Inside
<1>3. ASSUME NEW t \in Inside(pc), GiveBack(t) PROVE \E j \in 1 .. (i - 1) : waiters[j] = u
  <2> DEFINE p == [pc EXCEPT ![t] = "idle"]
  <2>1. /\ p \in [Task -> Place] /\ Inside(p) = Inside(pc) \ {t} /\ Live(p) = Live(pc)
        /\ t \in Task /\ p[t] = "idle"
    BY <1>0 DEF Inside, Live, Place
  <2>2. PICK sh, ex : Wake(capacity, sh, ex, waiters, p)
    BY <1>3 DEF GiveBack
  <2> HIDE DEF p
  <2>3. \A v \in Task : pc'[v] # p[v] => p[v] = "waiting"
    BY <2>1, <2>2 DEF Wake, Live
  <2>4. u \in Inside(pc') \ Inside(p)
    BY <2>1, <2>3 DEF Inside
  <2> QED BY <1>0, <2>1, <2>2, <2>4, WakeInOrder
<1>4. ASSUME NEW t \in Task, ResumeCancelled(t)
      PROVE  \E j \in 1 .. (i - 1) : waiters[j] = u
  <2> DEFINE p == [pc EXCEPT ![t] = "idle"]
  <2>1. /\ p \in [Task -> Place] /\ Inside(p) = Inside(pc) /\ Live(p) = Live(pc)
        /\ pc[t] = "cancelled"
    BY <1>0, <1>4 DEF ResumeCancelled, Inside, Live, Place
  <2>2. ASSUME NEW r \in 1 .. Len(waiters), waiters[r] = t,
               Wake(capacity, shared, exclusive, RemoveAt(waiters, r), p)
        PROVE  \E j \in 1 .. (i - 1) : waiters[j] = u
    <3> DEFINE q == RemoveAt(waiters, r)
               l == IF i < r THEN i ELSE i - 1
    <3>1. i # r BY <2>1, <2>2 DEF Live
    <3>2. /\ q \in Seq(Task) /\ Len(q) = Len(waiters) - 1
          /\ \A j \in 1 .. (Len(waiters) - 1) :
               q[j] = IF j < r THEN waiters[j] ELSE waiters[j + 1]
      BY <1>0, RemoveAtProperties
    <3> HIDE DEF q, p
    <3>3. l \in 1 .. Len(q) /\ q[l] = waiters[i]
      BY <1>0, <3>1, <3>2
    <3> HIDE DEF l
    <3>4. PICK j \in 1 .. (l - 1) : q[j] = u
      BY <2>1, <2>2, <3>2, <3>3, WakeInOrder DEF q
    <3>5. CASE j < r
      <4>1. j \in 1 .. (i - 1) /\ j \in 1 .. (Len(waiters) - 1)
        BY <1>0, <3>1, <3>2, <3>3, <3>4, <3>5 DEF l
      <4> QED BY <4>1, <3>2, <3>4, <3>5
    <3>6. CASE ~(j < r)
      <4>1. j + 1 \in 1 .. (i - 1) /\ j \in 1 .. (Len(waiters) - 1)
        BY <1>0, <3>1, <3>2, <3>3, <3>4, <3>6 DEF l
      <4> QED BY <4>1, <3>2, <3>4, <3>6
    <3> QED BY <3>5, <3>6
  <2>3. CASE Wake(capacity, shared, exclusive, waiters, p)
    <3> HIDE DEF p
    <3> QED BY <1>0, <2>1, <2>3, WakeInOrder
  <2> QED BY <1>4, <2>2, <2>3 DEF ResumeCancelled
<1>5. ASSUME NEW c \in CapacityValue, SetCapacity(c)
      PROVE  \E j \in 1 .. (i - 1) : waiters[j] = u
  <2>1. Wake(AtLeastOne(c), shared, exclusive, waiters, pc)
    BY <1>5 DEF SetCapacity
  <2> QED BY <1>0, <2>1, WakeInOrder
<1>6. CASE UNCHANGED vars
  BY <1>6 DEF vars
<1> QED BY <1>1, <1>2, <1>3, <1>4, <1>5, <1>6
        DEF Next, ResumeRevoked, Release, Inside

\* Waiters are served in arrival order and newcomers do not overtake them:
\* the promise of the module's opening comment.
THEOREM ArrivalOrder == Spec => FirstComeFirstServed
<1>1. IInv /\ [Next]_vars => [NobodyOvertaken]_vars
  BY StepInOrder DEF NobodyOvertaken
<1> QED BY <1>1, Invariant, PTL DEF FirstComeFirstServed, Spec

\* Only a lowered capacity leaves more generations inside than it allows.
LEMMA StepWithinCapacity == IInv /\ [Next]_vars => [GenerationsFit]_vars
<1> SUFFICES ASSUME IInv, [Next]_vars,
                    NEW u \in Inside(pc') \ Inside(pc), kind'[u] = SHARED
             PROVE  shared' <= capacity'
  BY DEF GenerationsFit
<1>0. /\ pc \in [Task -> Place] /\ shared \in Nat /\ capacity \in Nat \ {0}
      /\ kind \in [Task -> Kind \cup {"none"}] /\ u \in Task
  BY DEF IInv, TypeOK, Inside
<1>1. ASSUME NEW t \in Task, NEW k \in Kind, AcquireNow(t, k) PROVE shared' <= capacity'
  <2>1. u = t BY <1>0, <1>1 DEF AcquireNow, Inside
  <2>2. k = SHARED BY <1>0, <1>1, <2>1 DEF AcquireNow
  <2>3. /\ shared < capacity /\ shared' = shared + 1 /\ capacity' = capacity
    BY <1>1, <2>2 DEF AcquireNow, CanTake, SHARED, EXCLUSIVE
  <2> QED BY <1>0, <2>3
<1>2. ASSUME NEW t \in Task,
             \/ \E k \in Kind : Enqueue(t, k)
             \/ Cancel(t) \/ CancelGranted(t) \/ Resume(t)
      PROVE  FALSE
  BY <1>0, <1>2 DEF Enqueue, Cancel, CancelGranted, Resume, Inside
\* A step of t, idle in p, that ends in _wake.
<1>3. ASSUME NEW t \in Task, NEW p \in [Task -> Place], NEW c \in Nat, NEW s \in Nat,
             NEW e, NEW q, Wake(c, s, e, q, p), capacity' = c,
             Inside(p) \subseteq Inside(pc), Inside(pc) \subseteq Inside(p) \cup {t},
             t \in Inside(pc) => p[t] = "idle",
             \A v \in Task \ {t} : kind'[v] = kind[v], kind'[t] # SHARED \/ kind' = kind
      PROVE  shared' <= capacity'
  <2>1. u \notin Inside(p) BY <1>3
  <2>2. kind[u] = SHARED BY <1>0, <1>3
  <2> QED BY <1>3, <2>1, <2>2, WakeWithinCapacity
<1>4. ASSUME NEW t \in Inside(pc), GiveBack(t) PROVE shared' <= capacity'
  <2> DEFINE p == [pc EXCEPT ![t] = "idle"]
             s == IF kind[t] = SHARED THEN shared - 1 ELSE shared
  <2>1. /\ p \in [Task -> Place] /\ Inside(p) = Inside(pc) \ {t} /\ p[t] = "idle"
        /\ t \in Task
    BY <1>0 DEF Inside, Place
  <2>2. s \in Nat BY <1>0, <1>4 DEF GiveBack
  <2>3. PICK e : Wake(capacity, s, e, waiters, p)
    BY <1>4 DEF GiveBack
  <2>4. /\ capacity' = capacity /\ kind'[t] # SHARED
        /\ \A v \in Task \ {t} : kind'[v] = kind[v]
    BY <1>0, <1>4, <2>1 DEF GiveBack, SHARED
  <2> HIDE DEF p, s
  <2> QED BY <1>0, <1>3, <2>1, <2>2, <2>3, <2>4
<1>5. ASSUME NEW t \in Task, ResumeCancelled(t) PROVE shared' <= capacity'
  <2> DEFINE p == [pc EXCEPT ![t] = "idle"]
  <2>1. p \in [Task -> Place] /\ Inside(p) = Inside(pc) /\ p[t] = "idle"
    BY <1>0, <1>5 DEF ResumeCancelled, Inside, Place
  <2>2. PICK q : Wake(capacity, shared, exclusive, q, p)
    BY <1>5 DEF ResumeCancelled
  <2>3. /\ capacity' = capacity /\ kind'[t] # SHARED
        /\ \A v \in Task \ {t} : kind'[v] = kind[v]
    BY <1>0, <1>5 DEF ResumeCancelled, SHARED
  <2> HIDE DEF p
  <2> QED BY <1>0, <1>3, <2>1, <2>2, <2>3
<1>6. ASSUME NEW c \in CapacityValue, SetCapacity(c) PROVE shared' <= capacity'
  <2>1. /\ Wake(AtLeastOne(c), shared, exclusive, waiters, pc)
        /\ AtLeastOne(c) \in Nat /\ capacity' = AtLeastOne(c) /\ kind' = kind
    BY <1>6, AtLeastOneType, GateAssumption DEF SetCapacity
  <2> QED BY <1>0, <2>1, WakeWithinCapacity
<1>7. CASE UNCHANGED vars
  BY <1>7 DEF vars
<1> QED BY <1>1, <1>2, <1>4, <1>5, <1>6, <1>7
        DEF Next, ResumeRevoked, Release, Inside

THEOREM CapacityRespected == Spec => AdmittedWithinCapacity
BY StepWithinCapacity, Invariant, PTL DEF AdmittedWithinCapacity, Spec
-----------------------------------------------------------------------------
(* The gate implements FairAdmission. *)

\* The abstract variables, for given queue, places and kinds.
Ahead(q, p) == {r \in Live(p) \X Live(p) :
                  \E i, j \in 1 .. Len(q) : i < j /\ q[i] = r[1] /\ q[j] = r[2]}
Wants(p, k) == [t \in Task |-> IF t \in Inside(p) \cup Live(p) THEN k[t] ELSE "none"]

\* LetIn of FairAdmission on places p with the queue q, for the line it leaves.
LetsIn(q, p, cap) ==
  \E G \in SUBSET Live(p) :
    /\ \A t \in G : \A u \in Live(p) : <<u, t>> \in Ahead(q, p) => u \in G
    /\ \/ G = {}
       \/ Inside(p) = {} /\ \E t \in G : G = {t} /\ kind[t] = EXCLUSIVE
       \/ /\ \A t \in G \cup Inside(p) : kind[t] = SHARED
          /\ Cardinality(G \cup Inside(p)) <= cap
    /\ Inside(pc') = Inside(p) \cup G
    /\ Live(pc') = Live(p) \ G
    /\ Ahead(waiters', pc') = Ahead(q, p) \cap ((Live(p) \ G) \X (Live(p) \ G))

\* A group that fits one after the other may join those inside.
LEMMA FitsTogether ==
  ASSUME NEW cap \in Nat, NEW sh, NEW ex, NEW p,
         \A t \in Inside(p) : kind[t] \in Kind,
         Accounted(sh, ex, p, kind),
         NEW G \in SUBSET Task, G \cap Inside(p) = {}, AllFit(G, cap, sh, ex)
  PROVE  \/ G = {}
         \/ Inside(p) = {} /\ \E t \in G : G = {t} /\ kind[t] = EXCLUSIVE
         \/ /\ \A t \in G \cup Inside(p) : kind[t] = SHARED
            /\ Cardinality(G \cup Inside(p)) <= cap
<1>1. CASE G = {} BY <1>1
<1>2. CASE G # {}
  <2>1. ~ex BY <1>2 DEF AllFit
  <2>2. InsideOf(p, kind, EXCLUSIVE) = {} BY <2>1 DEF Accounted
  <2>3. \A t \in Inside(p) : kind[t] = SHARED BY <2>2 DEF InsideOf, Kind
  <2>4. InsideOf(p, kind, SHARED) = Inside(p) BY <2>3 DEF InsideOf
  <2>5. sh = Cardinality(Inside(p)) /\ IsFiniteSet(Inside(p)) /\ IsFiniteSet(G)
    BY <2>4, FiniteInside, GateAssumption, FS_Subset DEF Accounted
  <2>6. CASE sh = 0 /\ \E t \in G : G = {t} /\ kind[t] = EXCLUSIVE
    <3>1. Inside(p) = {} BY <2>5, <2>6, FS_EmptySet
    <3> QED BY <3>1, <2>6
  <2>7. CASE sh + Cardinality(G) <= cap /\ \A t \in G : kind[t] = SHARED
    <3>1. Cardinality(G \cup Inside(p)) = Cardinality(G) + sh
      BY <2>5, DisjointUnion
    <3>2. Cardinality(G) \in Nat /\ sh \in Nat BY <2>5, FS_CardinalityType
    <3> QED BY <3>1, <3>2, <2>3, <2>7
  <2> QED BY <1>2, <2>6, <2>7 DEF AllFit
<1> QED BY <1>1, <1>2

LEMMA WakeLetsIn ==
  ASSUME NEW cap \in Nat, NEW sh, NEW ex, NEW q \in Seq(Task), NEW p \in [Task -> Place],
         \A t \in Task : p[t] # "idle" => kind[t] \in Kind,
         Accounted(sh, ex, p, kind), Queued(q, p), Wake(cap, sh, ex, q, p)
  PROVE  LetsIn(q, p, cap)
<1>1. PICK n \in 0 .. Len(q) :
        LET G == {q[i] : i \in 1 .. n} \cap Live(p)
        IN  /\ AllFit(G, cap, sh, ex)
            /\ waiters' = SubSeq(q, n + 1, Len(q))
            /\ pc' = [t \in Task |-> IF t \in G THEN "granted" ELSE p[t]]
  BY DEF Wake
<1> DEFINE G == {q[i] : i \in 1 .. n} \cap Live(p)
<1>2. /\ AllFit(G, cap, sh, ex)
      /\ waiters' = SubSeq(q, n + 1, Len(q))
      /\ pc' = [t \in Task |-> IF t \in G THEN "granted" ELSE p[t]]
  BY <1>1
<1>3. G \subseteq Live(p) /\ Live(p) \subseteq Task /\ G \cap Inside(p) = {}
  BY DEF Live, Inside
<1>4. Len(q) \in Nat /\ n \in Nat /\ n <= Len(q) BY LenProperties
<1>5. /\ waiters' \in Seq(Task) /\ Len(waiters') = Len(q) - n
      /\ \A i \in 1 .. Len(waiters') : n + i \in 1 .. Len(q) /\ waiters'[i] = q[n + i]
  <2>1. /\ waiters' \in Seq(Task) /\ Len(waiters') = Len(q) - n
        /\ \A i \in 1 .. (Len(q) - n) : waiters'[i] = q[n + i]
    BY <1>2, <1>4, SubSeqProperties
  <2> QED BY <2>1, <1>4
<1>6. \A i \in 1 .. Len(q) : q[i] \in Live(p) => (q[i] \in G <=> i <= n)
  <2> TAKE i \in 1 .. Len(q)
  <2> HAVE q[i] \in Live(p)
  <2>1. i <= n => q[i] \in G BY <1>4
  <2>2. ASSUME q[i] \in G PROVE i <= n
    <3>1. PICK j \in 1 .. n : q[j] = q[i] BY <2>2
    <3>2. j = i BY <3>1, <1>4 DEF Queued
    <3> QED BY <3>2, <1>4
  <2> QED BY <2>1, <2>2
<1> HIDE DEF G
<1>7. Inside(pc') = Inside(p) \cup G /\ Live(pc') = Live(p) \ G
  BY <1>2, <1>3 DEF Inside, Live
<1>8. \A t \in G : \A u \in Live(p) : <<u, t>> \in Ahead(q, p) => u \in G
  <2> SUFFICES ASSUME NEW t \in G, NEW u \in Live(p), <<u, t>> \in Ahead(q, p)
               PROVE  u \in G
    OBVIOUS
  <2>1. PICK i, j \in 1 .. Len(q) : i < j /\ q[i] = u /\ q[j] = t
    BY DEF Ahead
  <2>2. j <= n BY <2>1, <1>3, <1>6
  <2>3. i <= n BY <2>1, <2>2, <1>4
  <2> QED BY <2>1, <2>3, <1>6
<1>9. Ahead(waiters', pc') = Ahead(q, p) \cap ((Live(p) \ G) \X (Live(p) \ G))
  <2>1. ASSUME NEW t \in Live(p) \ G, NEW u \in Live(p) \ G
        PROVE  (\E i, j \in 1 .. Len(waiters') : i < j /\ waiters'[i] = t /\ waiters'[j] = u)
               <=> (\E i, j \in 1 .. Len(q) : i < j /\ q[i] = t /\ q[j] = u)
    <3>1. ASSUME NEW i \in 1 .. Len(waiters'), NEW j \in 1 .. Len(waiters'),
                 i < j, waiters'[i] = t, waiters'[j] = u
          PROVE  \E k, l \in 1 .. Len(q) : k < l /\ q[k] = t /\ q[l] = u
      <4>1. /\ n + i \in 1 .. Len(q) /\ n + j \in 1 .. Len(q) /\ n + i < n + j
            /\ q[n + i] = t /\ q[n + j] = u
        BY <3>1, <1>4, <1>5
      <4> QED BY <4>1
    <3>2. ASSUME NEW k \in 1 .. Len(q), NEW l \in 1 .. Len(q), k < l, q[k] = t, q[l] = u
          PROVE  \E i, j \in 1 .. Len(waiters') : i < j /\ waiters'[i] = t /\ waiters'[j] = u
      <4>1. ~(k <= n) /\ ~(l <= n) BY <3>2, <2>1, <1>6
      <4>2. /\ k - n \in 1 .. Len(waiters') /\ l - n \in 1 .. Len(waiters') /\ k - n < l - n
            /\ n + (k - n) = k /\ n + (l - n) = l
        BY <4>1, <3>2, <1>4, <1>5
      <4>3. waiters'[k - n] = t /\ waiters'[l - n] = u BY <4>2, <3>2, <1>5
      <4> QED BY <4>2, <4>3
    <3> QED BY <3>1, <3>2
  <2> DEFINE Left == Live(p) \ G
  <2>2. Live(pc') = Left BY <1>7
  <2>3. ASSUME NEW t \in Left, NEW u \in Left
        PROVE  <<t, u>> \in Ahead(waiters', pc') <=> <<t, u>> \in Ahead(q, p)
    <3>1. <<t, u>> \in Ahead(waiters', pc')
          <=> \E i, j \in 1 .. Len(waiters') : i < j /\ waiters'[i] = t /\ waiters'[j] = u
      BY <2>2 DEF Ahead
    <3>2. <<t, u>> \in Ahead(q, p)
          <=> \E i, j \in 1 .. Len(q) : i < j /\ q[i] = t /\ q[j] = u
      BY DEF Ahead
    <3> QED BY <3>1, <3>2, <2>1
  <2>4. Ahead(waiters', pc') \subseteq Left \X Left BY <2>2 DEF Ahead
  <2> QED
    <3> HIDE DEF Left
    <3>1. Ahead(waiters', pc') = Ahead(q, p) \cap (Left \X Left) BY <2>3, <2>4
    <3> QED BY <3>1 DEF Left
<1>10. \/ G = {}
       \/ Inside(p) = {} /\ \E t \in G : G = {t} /\ kind[t] = EXCLUSIVE
       \/ /\ \A t \in G \cup Inside(p) : kind[t] = SHARED
          /\ Cardinality(G \cup Inside(p)) <= cap
  <2>1. \A t \in Inside(p) : kind[t] \in Kind BY DEF Inside
  <2>2. G \in SUBSET Task BY <1>3
  <2> QED BY <2>1, <2>2, <1>2, <1>3, FitsTogether
<1> QED BY <1>3, <1>7, <1>8, <1>9, <1>10 DEF LetsIn

\* Removing an entry that waits for nothing leaves the order of the waiters.
LEMMA RemoveKeepsAhead ==
  ASSUME NEW q \in Seq(Task), NEW p, NEW r \in 1 .. Len(q), q[r] \notin Live(p)
  PROVE  Ahead(RemoveAt(q, r), p) = Ahead(q, p)
<1> DEFINE s == RemoveAt(q, r)
           at(i) == IF i < r THEN i ELSE i + 1
           un(i) == IF i < r THEN i ELSE i - 1
<1>1. Len(q) \in Nat BY LenProperties
<1>2. /\ Len(s) = Len(q) - 1
      /\ \A i \in 1 .. (Len(q) - 1) : s[i] = IF i < r THEN q[i] ELSE q[i + 1]
  BY RemoveAtProperties
<1> HIDE DEF s
<1>3. \A i \in 1 .. Len(s) : at(i) \in 1 .. Len(q) /\ s[i] = q[at(i)]
  BY <1>1, <1>2
<1>4. \A i, j \in 1 .. Len(s) : i < j => at(i) < at(j)
  BY <1>1, <1>2
<1>5. \A i \in 1 .. Len(q) : i # r => un(i) \in 1 .. Len(s) /\ at(un(i)) = i
  BY <1>1, <1>2
<1>6. \A i, j \in 1 .. Len(q) : i < j /\ i # r /\ j # r => un(i) < un(j)
  BY <1>1
<1> HIDE DEF at, un
<1>7. ASSUME NEW t \in Live(p), NEW u \in Live(p)
      PROVE  (\E i, j \in 1 .. Len(s) : i < j /\ s[i] = t /\ s[j] = u)
             <=> (\E i, j \in 1 .. Len(q) : i < j /\ q[i] = t /\ q[j] = u)
  <2>1. ASSUME NEW i \in 1 .. Len(s), NEW j \in 1 .. Len(s), i < j, s[i] = t, s[j] = u
        PROVE  \E k, l \in 1 .. Len(q) : k < l /\ q[k] = t /\ q[l] = u
    BY <2>1, <1>3, <1>4
  <2>2. ASSUME NEW k \in 1 .. Len(q), NEW l \in 1 .. Len(q), k < l, q[k] = t, q[l] = u
        PROVE  \E i, j \in 1 .. Len(s) : i < j /\ s[i] = t /\ s[j] = u
    <3>1. k # r /\ l # r BY <2>2
    <3>2. s[un(k)] = t /\ s[un(l)] = u BY <3>1, <2>2, <1>3, <1>5
    <3> QED BY <3>1, <3>2, <2>2, <1>5, <1>6
  <2> QED BY <2>1, <2>2
<1> QED BY <1>7 DEF Ahead, s

\* Cardinality as FairAdmission imports it is Cardinality as this module does.
LEMMA SameCardinality == \A S : Admission!Cardinality(S) = Cardinality(S)
BY DEF Admission!Cardinality, Cardinality

LEMMA LetInMaps ==
  ASSUME NEW q, NEW p,
         LetsIn(q, p, capacity'),
         Inside(p) \subseteq Inside(pc), Live(p) = Live(pc),
         Ahead(q, p) = Ahead(waiters, pc),
         \A t \in Inside(p) \cup Live(p) : kind'[t] = kind[t]
  PROVE  Admission!LetIn(Inside(p), Live(pc), Wants(pc, kind))
<1>1. PICK G \in SUBSET Live(pc) :
        /\ \A t \in G : \A u \in Live(pc) : <<u, t>> \in Ahead(waiters, pc) => u \in G
        /\ \/ G = {}
           \/ Inside(p) = {} /\ \E t \in G : G = {t} /\ kind[t] = EXCLUSIVE
           \/ /\ \A t \in G \cup Inside(p) : kind[t] = SHARED
              /\ Cardinality(G \cup Inside(p)) <= capacity'
        /\ Inside(pc') = Inside(p) \cup G
        /\ Live(pc') = Live(pc) \ G
        /\ Ahead(waiters', pc') =
             Ahead(waiters, pc) \cap ((Live(pc) \ G) \X (Live(pc) \ G))
  BY DEF LetsIn
<1>2. Inside(pc) \subseteq Task /\ Live(pc) \subseteq Task
  BY DEF Inside, Live
<1>3. \A t \in Inside(p) \cup Live(pc) : Wants(pc, kind)[t] = kind[t]
  BY <1>2 DEF Wants
<1>4. Admission!Compatible(G, Inside(p), Wants(pc, kind), capacity')
  BY <1>1, <1>3, SameCardinality DEF Admission!Compatible
<1>5. Inside(pc') \cup Live(pc') = Inside(p) \cup Live(pc)
  BY <1>1
<1>6. Wants(pc', kind') =
        [t \in Task |-> IF t \in Inside(p) \cup Live(pc) THEN Wants(pc, kind)[t] ELSE "none"]
  BY <1>3, <1>5 DEF Wants
<1> QED BY <1>1, <1>4, <1>6 DEF Admission!LetIn, Ahead, Wants

\* The initial state of the gate is one of FairAdmission.
LEMMA InitMaps == Init => Admission!Init
<1> SUFFICES ASSUME Init PROVE Admission!Init
  OBVIOUS
<1>1. capacity \in Nat \ {0}
  BY GateAssumption, AtLeastOneType DEF Init
<1>2. Inside(pc) = {} /\ Live(pc) = {}
  BY DEF Init, Inside, Live
<1> QED BY <1>1, <1>2 DEF Admission!Init

\* A task takes a free place past an empty line.
LEMMA AcquireNowMaps ==
  ASSUME IInv, NEW t \in Task, NEW k \in Kind, AcquireNow(t, k)
  PROVE  Admission!Arrive(t, k)
<1>1. /\ waiters = << >> /\ waiters' = << >> /\ capacity' = capacity
      /\ CanTake(k, capacity, shared, exclusive) /\ pc[t] = "idle"
      /\ pc' = [pc EXCEPT ![t] = "holding"] /\ kind' = [kind EXCEPT ![t] = k]
      /\ pc \in [Task -> Place] /\ kind \in [Task -> Kind \cup {"none"}]
      /\ shared \in Nat /\ capacity \in Nat
  BY DEF AcquireNow, IInv, TypeOK
<1>2. Inside(pc') = Inside(pc) \cup {t} /\ t \notin Inside(pc) /\ Live(pc') = Live(pc)
  BY <1>1 DEF Inside, Live
<1>3. Live(pc) = {} BY <1>1, EmptySeq DEF IInv, Queued
<1>4. Ahead(waiters', pc') = {} /\ Ahead(waiters, pc) = {}
  BY <1>2, <1>3 DEF Ahead
<1> DEFINE w == [Wants(pc, kind) EXCEPT ![t] = k]
<1>5. Wants(pc', kind') = w
  BY <1>1, <1>2, <1>3 DEF Wants, Inside
<1>6. w[t] = k /\ \A u \in Inside(pc) : w[u] = kind[u]
  BY <1>2 DEF Wants, Inside
<1> HIDE DEF w
<1>7. Admission!Compatible({t}, Inside(pc), w, capacity)
  <2>1. InsideOf(pc, kind, EXCLUSIVE) = {}
    BY <1>1 DEF CanTake, IInv, Accounted
  <2>2. \A u \in Inside(pc) : kind[u] = SHARED
    BY <2>1 DEF IInv, Kinds, Kind, InsideOf, Inside
  <2>3. InsideOf(pc, kind, SHARED) = Inside(pc)
    BY <2>2 DEF InsideOf
  <2>4. shared = Cardinality(Inside(pc)) /\ IsFiniteSet(Inside(pc))
    BY <2>3, FiniteInside DEF IInv, Accounted
  <2>5. CASE k = EXCLUSIVE
    <3>1. Inside(pc) = {}
      BY <2>4, <2>5, <1>1, FS_EmptySet DEF CanTake
    <3> QED BY <3>1, <2>5, <1>6 DEF Admission!Compatible
  <2>6. CASE k = SHARED
    <3>1. shared < capacity BY <2>6, <1>1 DEF CanTake, SHARED, EXCLUSIVE
    <3>2. Cardinality(Inside(pc) \cup {t}) = shared + 1
      BY <1>2, <2>4, FS_AddElement
    <3>3. {t} \cup Inside(pc) = Inside(pc) \cup {t} OBVIOUS
    <3>4. Cardinality({t} \cup Inside(pc)) <= capacity
      <4>1. shared + 1 <= capacity BY <1>1, <3>1
      <4> QED BY <4>1, <3>2, <3>3
    <3>5. \A u \in {t} \cup Inside(pc) : w[u] = SHARED
      BY <1>6, <2>2, <2>6
    <3> QED BY <3>4, <3>5, SameCardinality DEF Admission!Compatible
  <2> QED BY <2>5, <2>6 DEF Kind
<1> QED BY <1>1, <1>2, <1>3, <1>4, <1>5, <1>7 DEF Admission!Arrive, Ahead, Wants, w

\* A task goes to the end of the line.
LEMMA EnqueueMaps ==
  ASSUME IInv, NEW t \in Task, NEW k \in Kind, Enqueue(t, k)
  PROVE  Admission!Arrive(t, k)
<1>1. /\ waiters' = Append(waiters, t) /\ capacity' = capacity /\ pc[t] = "idle"
      /\ pc' = [pc EXCEPT ![t] = "waiting"] /\ kind' = [kind EXCEPT ![t] = k]
      /\ pc \in [Task -> Place] /\ kind \in [Task -> Kind \cup {"none"}]
      /\ waiters \in Seq(Task)
  BY DEF Enqueue, IInv, TypeOK
<1>2. /\ Inside(pc') = Inside(pc) /\ t \notin Inside(pc) \cup Live(pc)
      /\ Live(pc') = Live(pc) \cup {t}
  BY <1>1 DEF Inside, Live
<1>3. /\ Len(waiters) \in Nat /\ Len(waiters') = Len(waiters) + 1
      /\ waiters'[Len(waiters) + 1] = t
      /\ \A i \in 1 .. Len(waiters) :
           waiters'[i] = waiters[i] /\ waiters[i] \in Task /\ waiters[i] # t
  <2>1. \A i \in 1 .. Len(waiters) : waiters[i] \in Task /\ waiters[i] # t
    BY <1>1, ElementOfSeq DEF IInv, Queued
  <2> QED BY <1>1, <2>1, AppendProperties, LenProperties
<1>4. Ahead(waiters', pc') = Ahead(waiters, pc) \cup (Live(pc) \X {t})
  <2>1. ASSUME NEW u \in Live(pc), NEW v \in Live(pc)
        PROVE  (\E i, j \in 1 .. Len(waiters') : i < j /\ waiters'[i] = u /\ waiters'[j] = v)
               <=> (\E i, j \in 1 .. Len(waiters) : i < j /\ waiters[i] = u /\ waiters[j] = v)
    <3>1. u # t /\ v # t BY <1>2
    <3>2. \A i \in 1 .. Len(waiters') : waiters'[i] # t => i \in 1 .. Len(waiters)
      BY <1>3
    <3>3. \A i \in 1 .. Len(waiters) : i \in 1 .. Len(waiters')
      BY <1>3
    <3> QED BY <3>1, <3>2, <3>3, <1>3
  <2>2. ASSUME NEW u \in Live(pc)
        PROVE  \E i, j \in 1 .. Len(waiters') : i < j /\ waiters'[i] = u /\ waiters'[j] = t
    <3>1. PICK i \in 1 .. Len(waiters) : waiters[i] = u
      BY DEF IInv, Queued
    <3>2. /\ i \in 1 .. Len(waiters') /\ Len(waiters) + 1 \in 1 .. Len(waiters')
          /\ i < Len(waiters) + 1
      BY <1>3
    <3> QED BY <3>1, <3>2, <1>3
  <2>3. ASSUME NEW v \in Live(pc'), NEW i \in 1 .. Len(waiters'), NEW j \in 1 .. Len(waiters'),
               i < j, waiters'[i] = t, waiters'[j] = v
        PROVE  FALSE
    <3>1. \A l \in 1 .. Len(waiters') : waiters'[l] = t => l = Len(waiters) + 1
      BY <1>3
    <3> QED BY <2>3, <3>1, <1>3
  <2>4. \A r \in Live(pc') \X Live(pc') : r[2] = t \/ r[2] \in Live(pc)
    BY <1>2
  <2>5. \A r \in Ahead(waiters', pc') : r[1] \in Live(pc)
    BY <1>2, <2>3 DEF Ahead
  <2>6. Ahead(waiters', pc') \subseteq Ahead(waiters, pc) \cup (Live(pc) \X {t})
    <3> SUFFICES ASSUME NEW r \in Ahead(waiters', pc')
                 PROVE  r \in Ahead(waiters, pc) \cup (Live(pc) \X {t})
      OBVIOUS
    <3>1. /\ r[1] \in Live(pc) /\ r = <<r[1], r[2]>>
          /\ r \in Live(pc') \X Live(pc')
          /\ \E i, j \in 1 .. Len(waiters') : i < j /\ waiters'[i] = r[1] /\ waiters'[j] = r[2]
      BY <2>5 DEF Ahead
    <3>2. CASE r[2] = t BY <3>1, <3>2
    <3>3. CASE r[2] \in Live(pc)
      <4>1. r \in Live(pc) \X Live(pc) BY <3>1, <3>3
      <4>2. \E i, j \in 1 .. Len(waiters) : i < j /\ waiters[i] = r[1] /\ waiters[j] = r[2]
        BY <3>1, <3>3, <2>1
      <4> QED BY <4>1, <4>2 DEF Ahead
    <3> QED BY <3>1, <3>2, <3>3, <2>4
  <2>7. Ahead(waiters, pc) \subseteq Ahead(waiters', pc')
    <3> SUFFICES ASSUME NEW r \in Ahead(waiters, pc) PROVE r \in Ahead(waiters', pc')
      OBVIOUS
    <3>1. /\ r \in Live(pc) \X Live(pc)
          /\ \E i, j \in 1 .. Len(waiters) : i < j /\ waiters[i] = r[1] /\ waiters[j] = r[2]
      BY DEF Ahead
    <3>2. r[1] \in Live(pc) /\ r[2] \in Live(pc) /\ r \in Live(pc') \X Live(pc')
      BY <3>1, <1>2
    <3>3. \E i, j \in 1 .. Len(waiters') : i < j /\ waiters'[i] = r[1] /\ waiters'[j] = r[2]
      BY <3>1, <3>2, <2>1
    <3> QED BY <3>2, <3>3 DEF Ahead
  <2>8. Live(pc) \X {t} \subseteq Ahead(waiters', pc')
    <3> SUFFICES ASSUME NEW u \in Live(pc) PROVE <<u, t>> \in Ahead(waiters', pc')
      OBVIOUS
    <3>1. <<u, t>> \in Live(pc') \X Live(pc') BY <1>2
    <3> QED BY <3>1, <2>2 DEF Ahead
  <2> QED BY <2>6, <2>7, <2>8
<1>5. Wants(pc', kind') = [Wants(pc, kind) EXCEPT ![t] = k]
  BY <1>1, <1>2 DEF Wants, Live
<1> QED BY <1>1, <1>2, <1>4, <1>5 DEF Admission!Arrive, Ahead, Wants

\* A cancelled future leaves the line at once, whatever its queue entry does.
LEMMA CancelMaps ==
  ASSUME IInv, NEW t \in Task, Cancel(t)
  PROVE  Admission!GiveUp(t)
<1>1. /\ pc[t] = "waiting" /\ pc' = [pc EXCEPT ![t] = "cancelled"]
      /\ capacity' = capacity /\ waiters' = waiters /\ kind' = kind
      /\ pc \in [Task -> Place]
  BY DEF Cancel, IInv, TypeOK
<1>2. Inside(pc') = Inside(pc) /\ Live(pc') = Live(pc) \ {t} /\ t \in Live(pc)
  BY <1>1 DEF Inside, Live
<1>3. Ahead(waiters', pc') = Ahead(waiters, pc) \cap (Live(pc') \X Live(pc'))
  BY <1>1, <1>2 DEF Ahead
<1>4. t \notin Inside(pc) BY <1>1 DEF Inside
<1>5. Wants(pc', kind') = [Wants(pc, kind) EXCEPT ![t] = "none"]
  BY <1>1, <1>2, <1>4 DEF Wants
<1> QED BY <1>1, <1>2, <1>3, <1>5 DEF Admission!GiveUp, Ahead, Wants

\* A grant revoked or taken up changes nothing that FairAdmission sees.
LEMMA StutterMaps ==
  ASSUME \/ UNCHANGED vars
         \/ IInv /\ \E t \in Task : CancelGranted(t) \/ Resume(t)
  PROVE  UNCHANGED Admission!vars
<1>1. /\ Inside(pc') = Inside(pc) /\ Live(pc') = Live(pc)
      /\ capacity' = capacity /\ waiters' = waiters /\ kind' = kind
  BY DEF vars, IInv, TypeOK, CancelGranted, Resume, Inside, Live
<1>2. Ahead(waiters', pc') = Ahead(waiters, pc) /\ Wants(pc', kind') = Wants(pc, kind)
  BY <1>1 DEF Ahead, Wants
<1> QED BY <1>1, <1>2 DEF Admission!vars, Ahead, Wants

\* A task leaves and those who fit behind it come in.
LEMMA GiveBackMaps ==
  ASSUME IInv, NEW t \in Inside(pc), GiveBack(t)
  PROVE  Admission!Leave(t)
<1>1. PICK p \in [Task -> Place], sh \in Nat, ex \in BOOLEAN :
        /\ \A u \in Task : p[u] = IF u = t THEN "idle" ELSE pc[u]
        /\ Inside(p) = Inside(pc) \ {t} /\ Live(p) = Live(pc)
        /\ Accounted(sh, ex, p, kind) /\ Queued(waiters, p)
        /\ Wake(capacity, sh, ex, waiters, p)
  BY GiveBackWakes
<1>2. /\ \A u \in Task : p[u] # "idle" => kind'[u] = kind[u] /\ kind[u] \in Kind
      /\ capacity' = capacity /\ capacity \in Nat /\ waiters \in Seq(Task)
  BY <1>1 DEF IInv, TypeOK, Kinds, GiveBack
<1>3. LetsIn(waiters, p, capacity')
  BY <1>1, <1>2, WakeLetsIn
<1>4. \A u \in Inside(p) \cup Live(p) : kind'[u] = kind[u]
  BY <1>2 DEF Inside, Live
<1>5. Ahead(waiters, p) = Ahead(waiters, pc)
  BY <1>1 DEF Ahead
<1>6. Admission!LetIn(Inside(pc) \ {t}, Live(pc), Wants(pc, kind))
  <2>1. Admission!LetIn(Inside(p), Live(pc), Wants(pc, kind))
    BY <1>1, <1>3, <1>4, <1>5, LetInMaps
  <2>2. Inside(p) = Inside(pc) \ {t} BY <1>1
  <2> QED BY <2>1, <2>2 DEF Admission!LetIn
<1> QED BY <1>2, <1>6 DEF Admission!Leave, Wants

\* The cancelled task that runs again lets in those it was in the way of.
LEMMA ResumeCancelledMaps ==
  ASSUME IInv, NEW t \in Task, ResumeCancelled(t)
  PROVE  Admission!Admit
<1>1. PICK p \in [Task -> Place], q \in Seq(Task) :
        /\ \A u \in Task : p[u] = IF u = t THEN "idle" ELSE pc[u]
        /\ Inside(p) = Inside(pc) /\ Live(p) = Live(pc)
        /\ \/ q = waiters
           \/ \E i \in 1 .. Len(waiters) : waiters[i] = t /\ q = RemoveAt(waiters, i)
        /\ Accounted(shared, exclusive, p, kind) /\ Queued(q, p)
        /\ Wake(capacity, shared, exclusive, q, p)
  BY ResumeCancelledWakes
<1>2. /\ \A u \in Task : p[u] # "idle" => kind'[u] = kind[u] /\ kind[u] \in Kind
      /\ capacity' = capacity /\ capacity \in Nat /\ waiters \in Seq(Task)
  BY <1>1 DEF IInv, TypeOK, Kinds, ResumeCancelled
<1>3. LetsIn(q, p, capacity')
  BY <1>1, <1>2, WakeLetsIn
<1>4. \A u \in Inside(p) \cup Live(p) : kind'[u] = kind[u]
  BY <1>2 DEF Inside, Live
<1>5. Ahead(q, p) = Ahead(waiters, pc)
  <2>1. t \notin Live(p) BY <1>1 DEF Live
  <2>2. Ahead(q, p) = Ahead(waiters, p)
    BY <1>1, <1>2, <2>1, RemoveKeepsAhead
  <2> QED BY <1>1, <2>2 DEF Ahead
<1>6. Admission!LetIn(Inside(pc), Live(pc), Wants(pc, kind))
  <2>1. Admission!LetIn(Inside(p), Live(pc), Wants(pc, kind))
    BY <1>1, <1>3, <1>4, <1>5, LetInMaps
  <2>2. Inside(p) = Inside(pc) BY <1>1
  <2> QED BY <2>1, <2>2 DEF Admission!LetIn
<1> QED BY <1>2, <1>6 DEF Admission!Admit, Wants

LEMMA SetCapacityMaps ==
  ASSUME IInv, NEW c \in CapacityValue, SetCapacity(c)
  PROVE  Admission!SetLimit
<1>1. /\ capacity' = AtLeastOne(c) /\ AtLeastOne(c) \in Nat \ {0} /\ kind' = kind
      /\ Wake(AtLeastOne(c), shared, exclusive, waiters, pc)
  BY GateAssumption, AtLeastOneType DEF SetCapacity
<1>2. LetsIn(waiters, pc, capacity')
  BY <1>1, WakeLetsIn DEF IInv, TypeOK, Kinds
<1>3. Admission!LetIn(Inside(pc), Live(pc), Wants(pc, kind))
  BY <1>1, <1>2, LetInMaps DEF Admission!LetIn
<1> QED BY <1>1, <1>3 DEF Admission!SetLimit, Wants

LEMMA NextMaps == IInv /\ [Next]_vars => [Admission!Next]_(Admission!vars)
<1> SUFFICES ASSUME IInv, [Next]_vars PROVE [Admission!Next]_(Admission!vars)
  OBVIOUS
<1>1. ASSUME NEW t \in Task, NEW k \in Kind, AcquireNow(t, k) \/ Enqueue(t, k)
      PROVE  Admission!Next
  <2>1. Admission!Arrive(t, k) BY <1>1, AcquireNowMaps, EnqueueMaps
  <2>2. k = SHARED \/ k = EXCLUSIVE BY DEF Kind
  <2> QED BY <2>1, <2>2 DEF Admission!Next
<1>2. ASSUME NEW t \in Task, Cancel(t) PROVE Admission!Next
  BY <1>2, CancelMaps DEF Admission!Next
<1>3. ASSUME NEW t \in Task, CancelGranted(t) \/ Resume(t)
      PROVE  UNCHANGED Admission!vars
  BY <1>3, StutterMaps
<1>4. ASSUME NEW t \in Task, ResumeRevoked(t) \/ Release(t) PROVE Admission!Next
  <2>1. t \in Inside(pc) /\ GiveBack(t)
    BY <1>4 DEF ResumeRevoked, Release, Inside
  <2> QED BY <2>1, GiveBackMaps DEF Admission!Next
<1>5. ASSUME NEW t \in Task, ResumeCancelled(t) PROVE Admission!Next
  BY <1>5, ResumeCancelledMaps DEF Admission!Next
<1>6. ASSUME NEW c \in CapacityValue, SetCapacity(c) PROVE Admission!Next
  BY <1>6, SetCapacityMaps DEF Admission!Next
<1>7. CASE UNCHANGED vars
  BY <1>7, StutterMaps
<1> QED BY <1>1, <1>2, <1>3, <1>4, <1>5, <1>6, <1>7 DEF Next

\* The gate is an implementation of FairAdmission: futures, counters and
\* settled queue entries are how it keeps one line, serves it from the front
\* and lets in only groups that fit.
THEOREM GateImplementsAdmission == Spec => ImplementsAdmission
<1>1. Init => Admission!Init BY InitMaps
<1>2. IInv /\ [Next]_vars => [Admission!Next]_(Admission!vars) BY NextMaps
<1> QED BY <1>1, <1>2, Invariant, PTL DEF Spec, ImplementsAdmission, Admission!Spec
=============================================================================
