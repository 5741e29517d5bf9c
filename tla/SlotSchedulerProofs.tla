------------------------ MODULE SlotSchedulerProofs ------------------------
(***************************************************************************)
(* What holds of the slot scheduler for every set of replies, slots and    *)
(* callers and every size of the context: it implements SharedExclusive,   *)
(* each reply is in one place, the cache holds what the slots record, what *)
(* is reserved and promised has room, and every variable has its type.     *)
(*                                                                         *)
(* The proofs look at a step of the thread through the slot table it       *)
(* leaves.  Whatever a step does, it takes the replies of some slots away  *)
(* (Frees) and tells just those replies that they are over (Ends); the one *)
(* thing that puts a reply into a slot is the assignment of AdmitNext,     *)
(* which takes it from the queue and has looked at the callers again.      *)
(***************************************************************************)
EXTENDS SlotScheduler, FiniteSetTheorems, SequenceTheorems, TLAPS

\* sl is a slot table in which the slots of I serve nothing, and every other
\* slot what it serves now.
Frees(sl, I) ==
  /\ sl = [j \in Slot |-> sl[j]]
  /\ \A j \in Slot : /\ "stream" \in DOMAIN sl[j]
                     /\ sl[j].stream = IF j \in I THEN NONE ELSE slots[j].stream
Fewer(sl) == \E I \in SUBSET Slot : Frees(sl, I)

\* The replies of the slots of I, and no other, are told that they are over.
Ends(I) == \/ I = {} /\ UNCHANGED ended
           \/ \E why \in [I -> Reason] : ended' = Told(why)

\* The slot table has its shape.
Shaped == /\ slots = [j \in Slot |-> slots[j]]
          /\ \A j \in Slot : /\ "stream" \in DOMAIN slots[j]
                             /\ slots[j].stream \in Stream \cup {NONE}

\* A held section has the model alone.
SectionAlone == /\ xpc \in [Caller -> {"out", "waiting", "inside", "done"}]
                /\ Held # {} => Active = {} /\ ~InScope
                /\ \A c, d \in Held : c = d

AloneInv == Shaped /\ SectionAlone
-----------------------------------------------------------------------------
(* What the operators on the slot table do to the replies. *)

LEMMA IdleIsIdle ==
  ASSUME NEW kv
  PROVE  "stream" \in DOMAIN Idle(kv) /\ Idle(kv).stream = NONE
BY DEF Idle

LEMMA FreesNone == Shaped => Frees(slots, {})
BY DEF Shaped, Frees

LEMMA FreesDropped ==
  ASSUME NEW sl, NEW I \in SUBSET Slot, Frees(sl, I), NEW D \in SUBSET Slot
  PROVE  /\ Frees(Dropped(D, sl), I \cup D)
         /\ D \cap Active = {} => Frees(Dropped(D, sl), I)
BY IdleIsIdle DEF Frees, Dropped, Active

LEMMA FreesIdle ==
  ASSUME NEW sl, NEW I, Frees(sl, I), NEW i \in Slot, NEW kv
  PROVE  Frees([sl EXCEPT ![i] = Idle(kv)], I \cup {i})
BY IdleIsIdle DEF Frees

LEMMA FreesSeen ==
  ASSUME NEW sl, NEW I, Frees(sl, I), NEW i \in Slot, NEW x
  PROVE  Frees([sl EXCEPT ![i].seen = x], I)
BY DEF Frees

LEMMA FreesExtended ==
  ASSUME NEW sl, NEW I, Frees(sl, I), NEW i \in Slot, NEW n
  PROVE  Frees(Extended(i, n, sl), I)
BY DEF Frees, Extended

LEMMA FreesGrown ==
  ASSUME Shaped, NEW g, g.lost \in SUBSET Active
  PROVE  Frees(AfterGrowth(g), g.lost)
BY FreesNone, IdleIsIdle DEF Frees, AfterGrowth, Dropped, Active

LEMMA FreesPart ==
  ASSUME Shaped, NEW i \in Slot, NEW n, NEW o
  PROVE  /\ "stream" \in DOMAIN After(i, n, o)
         /\ After(i, n, o).stream = IF Over(i, n, o) # NONE THEN NONE ELSE slots[i].stream
BY IdleIsIdle DEF After, Shaped

LEMMA EndsEveryone ==
  ASSUME NEW I, NEW r \in Reason, ended' = Everyone(I, r)
  PROVE  Ends(I)
BY DEF Ends, Everyone

LEMMA GrowthLoses ==
  ASSUME NEW sizes, NEW g \in Growths(sizes)
  PROVE  g.lost \in SUBSET Active
<1>1. g \in [ok : {TRUE}, cap : sizes, lost : SUBSET Active] => g.lost \in SUBSET Active
  OBVIOUS
<1>2. g = [ok |-> FALSE, cap |-> 0, lost |-> Active] => g.lost \in SUBSET Active
  OBVIOUS
<1> QED BY <1>1, <1>2 DEF Growths
-----------------------------------------------------------------------------
(* What the steps of the thread do to the replies in the slots. *)

LEMMA ExtendEnds ==
  ASSUME Shaped, NEW i \in Slot, Extend(i)
  PROVE  /\ \E I \in SUBSET Slot : Frees(slots', I) /\ Ends(I)
         /\ UNCHANGED <<queue, submitted, xpc>>
<1> SUFFICES \E I \in SUBSET Slot : Frees(slots', I) /\ Ends(I)
  BY DEF Extend, NotDue, ExtendRefused, ExtendInPlace, ExtendByGrowth, Looked
<1>1. ASSUME NEW w, NEW sl, Frees(sl, {}), NoCells(i, w, sl)
      PROVE  \E I \in SUBSET Slot : Frees(slots', I) /\ Ends(I)
  <2>1. CASE UNCHANGED ended /\ slots' = [sl EXCEPT ![i].seen = RoomKey(i)]
    BY <1>1, <2>1, FreesSeen DEF Ends
  <2>2. CASE ended' = Everyone({i}, "length") /\ slots' = [sl EXCEPT ![i] = Idle(sl[i].kv)]
    <3>1. Frees(slots', {} \cup {i})
      BY <1>1, <2>2, FreesIdle
    <3>2. Ends({i}) /\ {i} \in SUBSET Slot
      BY <2>2, EndsEveryone DEF Reason
    <3> QED BY <3>1, <3>2
  <2> QED BY <1>1, <2>1, <2>2 DEF NoCells
<1>2. Frees(slots, {}) /\ Frees(AllIdle(i), {})
  BY FreesNone, FreesDropped DEF AllIdle
<1>0. ASSUME Frees(slots', {}), UNCHANGED ended
      PROVE  \E I \in SUBSET Slot : Frees(slots', I) /\ Ends(I)
  <2> WITNESS {} \in SUBSET Slot
  <2> QED BY <1>0 DEF Ends
<1>3. CASE NotDue(i)
  <2>1. UNCHANGED <<slots, ended>>
    BY <1>3 DEF NotDue
  <2> QED BY <1>0, <1>2, <2>1
<1>4. CASE ExtendRefused(i)
  <2>1. \E w : NoCells(i, w, slots) \/ NoCells(i, w, AllIdle(i))
    BY <1>4 DEF ExtendRefused
  <2> QED BY <1>1, <1>2, <2>1
<1>5. CASE ExtendInPlace(i)
  <2>1. PICK D \in Drops(Slot \ Active, slots, Total(i), cap) :
          slots' = Extended(i, Want(i), Dropped(D, slots))
    BY <1>5 DEF ExtendInPlace
  <2>2. D \in SUBSET Slot /\ D \cap Active = {}
    BY DEF Drops
  <2>3. Frees(Dropped(D, slots), {})
    BY <1>2, <2>2, FreesDropped
  <2>4. Frees(slots', {})
    BY <2>1, <2>3, FreesExtended
  <2>5. UNCHANGED ended
    BY <1>5 DEF ExtendInPlace
  <2> QED BY <1>0, <2>4, <2>5
<1>6. CASE ExtendByGrowth(i)
  <2> DEFINE Grows(way, g) == /\ slots' = IF i \in g.lost THEN AfterGrowth(g)
                                          ELSE Extended(i, way[2], AfterGrowth(g))
                              /\ ended' = Everyone(g.lost, "error")
  <2>0. PICK way \in GrowthsFor(i) : \E g \in Growths({way[1]}) : Grows(way, g)
    BY <1>6 DEF ExtendByGrowth
  <2>1. PICK g \in Growths({way[1]}) : Grows(way, g)
    BY <2>0
  <2>2. g.lost \in SUBSET Active /\ g.lost \in SUBSET Slot
    BY GrowthLoses DEF Active
  <2>3. Frees(slots', g.lost)
    BY <2>1, <2>2, FreesGrown, FreesExtended
  <2>4. Ends(g.lost)
    BY <2>1, EndsEveryone DEF Reason
  <2> QED BY <2>2, <2>3, <2>4
<1> QED BY <1>3, <1>4, <1>5, <1>6 DEF Extend

LEMMA DecodeEnds ==
  ASSUME Shaped, Decode
  PROVE  /\ \E I \in SUBSET Slot : Frees(slots', I) /\ Ends(I)
         /\ UNCHANGED <<queue, submitted, xpc>>
<1> DEFINE plan(n) == Decoding \cup {i \in Filling : n[i] > 0}
           part(n) == [i \in plan(n) |-> IF i \in Filling THEN n[i] ELSE 0]
           next(n, o) == [i \in Slot |-> IF i \in plan(n) THEN After(i, part(n)[i], o[i])
                                         ELSE slots[i]]
           over(n, o) == {i \in plan(n) : Over(i, part(n)[i], o[i]) # NONE}
           why(n, o)  == [i \in over(n, o) |-> Over(i, part(n)[i], o[i])]
<1>0. \E n \in Chunks : \E o \in [plan(n) -> Outcome] :
         slots' = next(n, o) /\ ended' = Told(why(n, o))
  BY DEF Decode
<1>1. PICK n, o : slots' = next(n, o) /\ ended' = Told(why(n, o))
  <2> HIDE DEF plan, next, why
  <2> QED BY <1>0
<1>2. over(n, o) \in SUBSET Slot /\ plan(n) \subseteq Slot
  BY DEF Decoding, Filling, Active
<1>3. Frees(slots', over(n, o))
  <2> HIDE DEF plan, part
  <2> QED BY <1>1, <1>2, FreesPart DEF Frees, Shaped
<1>4. why(n, o) \in [over(n, o) -> Reason]
  <2>1. \A i, m, q : Over(i, m, q) # NONE => Over(i, m, q) \in Reason
    BY DEF Over, Reason
  <2> HIDE DEF plan, part
  <2> QED BY <2>1
<1>5. Ends(over(n, o))
  <2> HIDE DEF over, why
  <2> QED BY <1>1, <1>4 DEF Ends
<1>6. UNCHANGED <<queue, submitted, xpc>>
  BY DEF Decode
<1> HIDE DEF over
<1> QED BY <1>2, <1>3, <1>5, <1>6

\* The steps of the thread that neither admit a reply nor empty the queue.
Quiet == \/ EnterScope \/ LeaveScope \/ BeginAdmission \/ AdmissionOver
         \/ CloseDown \/ StepFails

LEMMA QuietEnds ==
  ASSUME Shaped, Quiet
  PROVE  Frees(slots', {}) /\ UNCHANGED <<queue, submitted, ended, xpc>>
<1>1. CASE EnterScope \/ LeaveScope \/ AdmissionOver \/ CloseDown \/ StepFails
  BY <1>1, FreesNone DEF EnterScope, LeaveScope, AdmissionOver, CloseDown, StepFails
<1>2. CASE BeginAdmission
  BY <1>2, FreesNone DEF Frees, BeginAdmission
<1> QED BY <1>1, <1>2 DEF Quiet

\* The steps that empty the queue, or take the cancelled replies out of it.
Reap == IdleReap \/ BeginStep \/ Abort

LEMMA ReapFrees ==
  ASSUME Shaped, Reap
  PROVE  Fewer(slots') /\ UNCHANGED <<submitted, xpc>>
<1>1. CASE UNCHANGED slots
  BY <1>1, FreesNone DEF Fewer, Reap, IdleReap, BeginStep, Abort
<1>2. CASE BeginStep /\ ~UNCHANGED slots
  <2>1. PICK over \in SUBSET Slot :
          slots' = [i \in Slot |-> IF i \in over THEN Idle(slots[i].kv) ELSE slots[i]]
    BY <1>2 DEF BeginStep, Active
  <2>2. Frees(slots', over)
    BY <2>1, IdleIsIdle DEF Frees, Shaped
  <2> QED BY <1>2, <2>2 DEF Fewer, BeginStep
<1>3. CASE Abort
  <2>1. Frees(slots', Slot)
    BY <1>3, IdleIsIdle DEF Frees, Abort
  <2> QED BY <1>3, <2>1 DEF Fewer, Abort
<1> QED BY <1>1, <1>2, <1>3 DEF Reap, IdleReap

\* The steps of the thread that admit nothing.
Other == Quiet \/ Reap \/ Decode \/ \E i \in Slot : Extend(i)

LEMMA OtherTakes ==
  ASSUME Shaped, Other
  PROVE  Fewer(slots') /\ UNCHANGED xpc
BY QuietEnds, ReapFrees, DecodeEnds, ExtendEnds DEF Other, Fewer

\* What a fit leaves: the rightsizing r when the request waits; some idle caches
\* dropped when the cells fit; or what a growth keeps.
Dropping(i, need, r, f) ==
  /\ Committed + need <= r.cap /\ f.cap = r.cap
  /\ \E D \in Drops({j \in Slot \ (Active \cup {i}) : r.slots[j].kv > 0}, r.slots,
                    Committed + need, r.cap) : f.slots = Dropped(D, r.slots)
Growing(s, need, r, f) ==
  /\ ~(Target(Committed + need) < Committed + need)
  /\ \E g \in Growths({Target(Committed + need)} \cup
                      (IF Whole(s) > need THEN {Target(Committed + Whole(s))} ELSE {})) :
        /\ f.slots = AfterGrowth(g) /\ f.lost = g.lost /\ f.made = (r.made \/ g.ok)
        /\ f.cap = g.cap /\ (f.got = "fits" => g.ok)
Fitted(s, i, need, r, f) ==
  \/ /\ f.got = "wait"
     /\ f.slots = r.slots /\ f.lost = {} /\ f.made = r.made /\ f.cap = r.cap
  \/ ~MustWait(need) /\ f.lost = {} /\ f.made = r.made /\ Dropping(i, need, r, f)
  \/ ~MustWait(need) /\ Growing(s, need, r, f)

LEMMA FitIs ==
  ASSUME NEW s, NEW i \in Slot, NEW need,
         NEW r \in Rightsized(s, i, need), NEW f \in Fits(s, i, need, r)
  PROVE  Fitted(s, i, need, r, f)
<1> DEFINE total == Committed + need
           idle  == {j \in Slot \ (Active \cup {i}) : r.slots[j].kv > 0}
           here  == [got |-> "wait", cap |-> r.cap, slots |-> r.slots, lost |-> {},
                     made |-> r.made]
           sizes == {Target(total)} \cup (IF Whole(s) > need
                                          THEN {Target(Committed + Whole(s))} ELSE {})
           grown(g) == [got   |-> IF g.ok THEN "fits" ELSE "failed", cap |-> g.cap,
                        slots |-> AfterGrowth(g), lost |-> g.lost, made |-> r.made \/ g.ok]
<1>a. /\ here.slots = r.slots /\ here.lost = {} /\ here.made = r.made /\ here.cap = r.cap
      /\ here.got = "wait"
      /\ \A D : LET dropped == [here EXCEPT !.got = "fits", !.slots = D]
               IN  /\ dropped.slots = D /\ dropped.lost = {} /\ dropped.made = r.made
                   /\ dropped.cap = r.cap
  OBVIOUS
<1>b. \A g : /\ grown(g).slots = AfterGrowth(g) /\ grown(g).lost = g.lost
            /\ grown(g).made = (r.made \/ g.ok) /\ grown(g).cap = g.cap
            /\ grown(g).got = "fits" => g.ok
  OBVIOUS
<1>c. \/ f = here
      \/ /\ ~MustWait(need) /\ total <= r.cap
         /\ \E D \in Drops(idle, r.slots, total, r.cap) :
               f = [here EXCEPT !.got = "fits", !.slots = Dropped(D, r.slots)]
      \/ /\ ~MustWait(need) /\ ~(Target(total) < total)
         /\ \E g \in Growths(sizes) : f = grown(g)
  <2> HIDE DEF here, grown
  <2>1. f \in IF MustWait(need) THEN {here}
              ELSE IF total <= r.cap
              THEN {[here EXCEPT !.got = "fits", !.slots = Dropped(D, r.slots)] :
                      D \in Drops(idle, r.slots, total, r.cap)}
              ELSE (IF Target(total) < total \/ Active # {} THEN {here} ELSE {}) \cup
                   (IF Target(total) < total THEN {} ELSE {grown(g) : g \in Growths(sizes)})
    BY DEF Fits, here, grown
  <2> HIDE DEF total, idle, sizes
  <2> QED BY <2>1
<1>2. CASE f = here
  BY <1>2, <1>a DEF Fitted
<1>3. ASSUME ~MustWait(need), total <= r.cap, NEW D \in Drops(idle, r.slots, total, r.cap),
             f = [here EXCEPT !.got = "fits", !.slots = Dropped(D, r.slots)]
      PROVE  Fitted(s, i, need, r, f)
  <2>1. f.slots = Dropped(D, r.slots) /\ f.lost = {} /\ f.made = r.made /\ f.cap = r.cap
    <3> HIDE DEF here
    <3> QED BY <1>3, <1>a
  <2>2. Dropping(i, need, r, f)
    BY <1>3, <2>1 DEF Dropping
  <2> QED BY <1>3, <2>1, <2>2 DEF Fitted
<1>4. ASSUME ~MustWait(need), ~(Target(total) < total), NEW g \in Growths(sizes), f = grown(g)
      PROVE  Fitted(s, i, need, r, f)
  <2>1. /\ f.slots = AfterGrowth(g) /\ f.lost = g.lost /\ f.made = (r.made \/ g.ok)
        /\ f.cap = g.cap /\ (f.got = "fits" => g.ok)
    <3>1. /\ grown(g).slots = AfterGrowth(g) /\ grown(g).lost = g.lost
          /\ grown(g).made = (r.made \/ g.ok) /\ grown(g).cap = g.cap
          /\ grown(g).got = "fits" => g.ok
      BY <1>b
    <3> HIDE DEF grown, sizes
    <3> QED BY <1>4, <3>1
  <2>2. Growing(s, need, r, f)
    BY <1>4, <2>1 DEF Growing
  <2> QED BY <1>4, <2>2 DEF Fitted
<1> HIDE DEF here, grown, idle, sizes
<1> QED BY <1>2, <1>3, <1>4, <1>c

\* The slots a fit leaves, whatever it comes to.
Leaves(r, f) ==
  \/ f.slots = r.slots /\ f.lost = {} /\ f.made = r.made
  \/ /\ \E D \in SUBSET (Slot \ Active) : f.slots = Dropped(D, r.slots)
     /\ f.lost = {} /\ f.made = r.made
  \/ \E sizes : \E g \in Growths(sizes) :
        f.slots = AfterGrowth(g) /\ f.lost = g.lost /\ f.made = (r.made \/ g.ok)

LEMMA FitLeaves ==
  ASSUME NEW s, NEW i \in Slot, NEW need,
         NEW r \in Rightsized(s, i, need), NEW f \in Fits(s, i, need, r)
  PROVE  Leaves(r, f)
<1>1. Dropping(i, need, r, f) => \E D \in SUBSET (Slot \ Active) : f.slots = Dropped(D, r.slots)
  BY DEF Dropping, Drops
<1>2. Growing(s, need, r, f) =>
        \E sizes : \E g \in Growths(sizes) :
           f.slots = AfterGrowth(g) /\ f.lost = g.lost /\ f.made = (r.made \/ g.ok)
  BY DEF Growing
<1>3. Fitted(s, i, need, r, f)
  BY FitIs
<1> QED BY <1>1, <1>2, <1>3 DEF Fitted, Leaves

\* A rightsizing leaves the context and the slots alone, or it keeps caches in one
\* that is no larger.
Resizes(s, i, need, r) ==
  \/ r.made = FALSE /\ r.cap = cap /\ r.slots = slots
  \/ /\ Active = {} /\ r.made = TRUE /\ r.cap = 0
     /\ \E kv : (\A j \in Slot : kv[j] = 0) /\ r.slots = [j \in Slot |-> Idle(kv[j])]
  \/ /\ Active = {} /\ r.made = TRUE
     /\ r.cap \in {cap, Least(cap, Target(need + CellsIn(Slot \ {i}, slots)))}
     /\ \E kv \in Kept(s, i) : r.slots = [j \in Slot |-> Idle(kv[j])]

LEMMA RightsizedIs ==
  ASSUME NEW s, NEW i, NEW need, NEW r \in Rightsized(s, i, need)
  PROVE  Resizes(s, i, need, r)
<1> DEFINE A == [made |-> FALSE, cap |-> cap, slots |-> slots]
           B == [made : {TRUE}, cap : {0}, slots : {[j \in Slot |-> Idle(0)]}]
           C == [made  : {TRUE},
                 cap   : {cap, Least(cap, Target(need + CellsIn(Slot \ {i}, slots)))},
                 slots : {[j \in Slot |-> Idle(kv[j])] : kv \in Kept(s, i)}]
<1>1. r = A \/ (Active = {} /\ r \in B) \/ (Active = {} /\ r \in C)
  <2>1. r \in {A} \cup IF Active = {} /\ cap > 0 /\ need <= cap THEN B \cup C ELSE {}
    BY DEF Rightsized
  <2> HIDE DEF A, B, C
  <2> QED BY <2>1
<1>2. r = A => r.made = FALSE /\ r.cap = cap /\ r.slots = slots
  OBVIOUS
<1>3. ASSUME Active = {}, r \in B
      PROVE  /\ r.made = TRUE /\ r.cap = 0
             /\ \E kv : (\A j \in Slot : kv[j] = 0) /\ r.slots = [j \in Slot |-> Idle(kv[j])]
  <2> DEFINE kv == [j \in Slot |-> 0]
  <2>1. r.made = TRUE /\ r.cap = 0 /\ r.slots = [j \in Slot |-> Idle(0)]
    BY <1>3
  <2>2. [j \in Slot |-> Idle(kv[j])] = [j \in Slot |-> Idle(0)] /\ \A j \in Slot : kv[j] = 0
    OBVIOUS
  <2> QED BY <2>1, <2>2
<1>4. ASSUME Active = {}, r \in C
      PROVE  /\ r.made = TRUE
             /\ r.cap \in {cap, Least(cap, Target(need + CellsIn(Slot \ {i}, slots)))}
             /\ \E kv \in Kept(s, i) : r.slots = [j \in Slot |-> Idle(kv[j])]
  BY <1>4
<1> HIDE DEF A, B, C
<1> QED BY <1>1, <1>2, <1>3, <1>4 DEF Resizes

LEMMA FitTakes ==
  ASSUME Shaped, NEW s, NEW i \in Slot, NEW need,
         NEW r \in Rightsized(s, i, need), NEW f \in Fits(s, i, need, r)
  PROVE  f.lost \in SUBSET Slot /\ Frees(f.slots, f.lost)
<1>1. Frees(r.slots, {})
  <2>1. CASE r.slots = slots
    BY <2>1, FreesNone
  <2>2. CASE Active = {} /\ \E kv : r.slots = [j \in Slot |-> Idle(kv[j])]
    BY <2>2, IdleIsIdle DEF Frees, Active
  <2>3. Resizes(s, i, need, r)
    BY RightsizedIs
  <2>4. CASE Active = {} /\ r.slots # slots
    <3>1. \E kv : r.slots = [j \in Slot |-> Idle(kv[j])]
      BY <2>3, <2>4 DEF Resizes
    <3> QED BY <2>2, <2>4, <3>1
  <2> QED BY <2>1, <2>3, <2>4 DEF Resizes
<1>2. CASE f.slots = r.slots /\ f.lost = {}
  BY <1>1, <1>2
<1>3. ASSUME NEW D \in SUBSET (Slot \ Active), f.slots = Dropped(D, r.slots), f.lost = {}
      PROVE  f.lost \in SUBSET Slot /\ Frees(f.slots, f.lost)
  BY <1>1, <1>3, FreesDropped
<1>4. ASSUME NEW sizes, NEW g \in Growths(sizes), f.slots = AfterGrowth(g), f.lost = g.lost
      PROVE  f.lost \in SUBSET Slot /\ Frees(f.slots, f.lost)
  BY <1>4, GrowthLoses, FreesGrown DEF Active
<1>5. Leaves(r, f)
  BY FitLeaves
<1> QED BY <1>2, <1>3, <1>4, <1>5 DEF Leaves

LEMMA AssignedIs ==
  ASSUME NEW s, NEW need, NEW k
  PROVE  "stream" \in DOMAIN Assigned(s, need, k) /\ Assigned(s, need, k).stream = s
BY DEF Assigned, Idle

\* What AdmitNext may do when the replies of lost are taken away, which leaves
\* the slot table sl: nothing more; the first request of the queue is told that
\* it failed; or it is let in, only while nobody asks for the model or has it.
Admits(s, i, lost, sl) ==
  \/ slots' = sl /\ UNCHANGED queue /\ ended' = Everyone(lost, "error")
  \/ /\ slots' = sl /\ queue' = Tail(queue)
     /\ ended' = [Everyone(lost, "error") EXCEPT ![s] = Append(@, "error")]
  \/ /\ Admitting
     /\ \E need, k : slots' = [sl EXCEPT ![i] = Assigned(s, need, k)]
     /\ queue' = Tail(queue) /\ ended' = Everyone(lost, "error")

LEMMA AdmitEnds ==
  ASSUME Shaped, NEW s \in Stream, NEW i \in Slot, AdmitNext(s, i)
  PROVE  /\ \E lost \in SUBSET Slot : \E sl : Frees(sl, lost) /\ Admits(s, i, lost, sl)
         /\ queue # <<>> /\ s = Head(queue) /\ i \notin Active
         /\ UNCHANGED <<submitted, xpc>>
<1> DEFINE Leads(f, need) ==
      \/ slots' = f.slots /\ UNCHANGED queue /\ ended' = Everyone(f.lost, "error")
      \/ /\ slots' = f.slots /\ queue' = Tail(queue)
         /\ ended' = [Everyone(f.lost, "error") EXCEPT ![s] = Append(@, "error")]
      \/ /\ LetsIn(f) /\ \E k : slots' = [f.slots EXCEPT ![i] = Assigned(s, need, k)]
         /\ queue' = Tail(queue) /\ ended' = Everyone(f.lost, "error")
<1>a. PICK need \in Needs(s, i) :
        \E r \in Rightsized(s, i, need) : \E f \in Fits(s, i, need, r) : Leads(f, need)
  BY DEF AdmitNext
<1>b. PICK r \in Rightsized(s, i, need) : \E f \in Fits(s, i, need, r) : Leads(f, need)
  BY <1>a
<1>1. PICK f \in Fits(s, i, need, r) : Leads(f, need)
  BY <1>b
<1>2. f.lost \in SUBSET Slot /\ Frees(f.slots, f.lost)
  BY FitTakes
<1>3. Admits(s, i, f.lost, f.slots)
  BY <1>1 DEF LetsIn, Admits
<1>4. queue # <<>> /\ s = Head(queue) /\ i \notin Active /\ UNCHANGED <<submitted, xpc>>
  BY DEF AdmitNext
<1> QED BY <1>2, <1>3, <1>4

LEMMA AdmitLetsIn ==
  ASSUME Shaped, NEW s \in Stream, NEW i \in Slot, AdmitNext(s, i)
  PROVE  /\ UNCHANGED xpc
         /\ \/ Fewer(slots')
            \/ /\ Admitting
               /\ \E sl, need, k : Fewer(sl) /\ slots' = [sl EXCEPT ![i] = Assigned(s, need, k)]
<1>1. PICK lost \in SUBSET Slot : \E sl : Frees(sl, lost) /\ Admits(s, i, lost, sl)
  BY AdmitEnds
<1>2. PICK sl : Frees(sl, lost) /\ Admits(s, i, lost, sl)
  BY <1>1
<1>3. Fewer(sl)
  BY <1>2 DEF Fewer
<1> QED BY <1>2, <1>3, AdmitEnds DEF Admits

-----------------------------------------------------------------------------
LEMMA InitAlone == Init => AloneInv
BY IdleIsIdle DEF Init, AloneInv, Shaped, SectionAlone, Held, Active, InScope

LEMMA FewerShaped ==
  ASSUME Shaped, Fewer(slots')
  PROVE  Shaped' /\ (Active = {} => Active' = {})
BY DEF Shaped, Fewer, Frees, Active

LEMMA StepAlone == AloneInv /\ [Next]_vars => AloneInv'
<1> SUFFICES ASSUME AloneInv, [Next]_vars PROVE AloneInv'
  OBVIOUS
<1> USE DEF AloneInv
<1>1. CASE Other
  <2>1. Shaped' /\ (Active = {} => Active' = {}) /\ UNCHANGED xpc
    BY <1>1, OtherTakes, FewerShaped
  <2>2. Held # {} => ~InScope'
    <3> SUFFICES ASSUME Held # {} PROVE ~InScope'
      OBVIOUS
    <3>1. ~HasWork /\ ~InScope
      BY DEF SectionAlone, HasWork, Admitting
    <3> QED
      BY <1>1, <3>1 DEF Other, Quiet, Reap, InScope, IdleReap, EnterScope, LeaveScope,
         BeginStep, Extend, NotDue, ExtendRefused, ExtendInPlace, ExtendByGrowth, InTurn,
         BeginAdmission, AdmissionOver, Decode, CloseDown, Abort, StepFails
  <2> QED BY <2>1, <2>2 DEF SectionAlone, Held
<1>2. CASE \E s \in Stream, i \in Slot : AdmitNext(s, i)
  <2>1. PICK s \in Stream, i \in Slot : AdmitNext(s, i)
    BY <1>2
  <2>2. Held = {} /\ UNCHANGED xpc
    BY <2>1, AdmitLetsIn DEF SectionAlone, InScope, AdmitNext
  <2>3. Shaped'
    <3>1. CASE Fewer(slots')
      BY <3>1, FewerShaped
    <3>2. CASE \E sl, need, k : Fewer(sl) /\ slots' = [sl EXCEPT ![i] = Assigned(s, need, k)]
      <4>1. PICK sl, need, k : Fewer(sl) /\ slots' = [sl EXCEPT ![i] = Assigned(s, need, k)]
        BY <3>2
      <4> QED BY <4>1, AssignedIs DEF Fewer, Frees, Shaped
    <3> QED BY <2>1, <3>1, <3>2, AdmitLetsIn
  <2> QED BY <2>2, <2>3 DEF SectionAlone, Held
<1>3. CASE \E c \in Caller : ExclusiveEnter(c)
  <2>1. PICK c \in Caller : ExclusiveEnter(c)
    BY <1>3
  <2>2. Shaped' /\ Active' = {}
    BY <2>1, IdleIsIdle DEF ExclusiveEnter, Shaped, Active
  <2>3. ~InScope'
    BY <2>1 DEF ExclusiveEnter, InScope
  <2>4. /\ xpc' \in [Caller -> {"out", "waiting", "inside", "done"}]
        /\ \A d, e \in Held' : d = e
    BY <2>1 DEF ExclusiveEnter, At, SectionAlone, Held
  <2> QED BY <2>2, <2>3, <2>4 DEF SectionAlone
<1>4. CASE \E c \in Caller : ExclusiveAsk(c) \/ ExclusiveGiveUp(c) \/ ExclusiveLeave(c)
  <2>1. UNCHANGED <<slots, pc>> /\ Held' \subseteq Held
        /\ xpc' \in [Caller -> {"out", "waiting", "inside", "done"}]
    BY <1>4 DEF ExclusiveAsk, ExclusiveGiveUp, ExclusiveLeave, At, SectionAlone, Held, sched
  <2> QED BY <2>1 DEF SectionAlone, Shaped, Active, InScope
<1>5. CASE \/ \E s \in Stream : Submit(s) \/ CancelReply(s)
           \/ Stop \/ Close \/ UNCHANGED vars
  <2>1. UNCHANGED <<slots, xpc>> /\ (InScope' => InScope)
    BY <1>5 DEF Submit, CancelReply, Stop, Close, vars, sched, InScope
  <2> QED BY <2>1 DEF SectionAlone, Shaped, Active, Held
<1> QED BY <1>1, <1>2, <1>3, <1>4, <1>5 DEF Next, Thread, Other, Quiet, Reap

LEMMA AlwaysAlone == Spec => []AloneInv
BY InitAlone, StepAlone, PTL DEF Spec
-----------------------------------------------------------------------------
Running == {slots[i].stream : i \in Active}

LEMMA InitShared == Init => Shared!Init
BY IdleIsIdle DEF Init, Shared!Init, Active, Waiting, Held

\* A step that only takes replies away is a step of Run.
LEMMA FewerIsRun ==
  ASSUME AloneInv, Fewer(slots'), UNCHANGED xpc
  PROVE  Shared!Run
<1>1. Running' \subseteq Running
  BY DEF Running, Active, Fewer, Frees, AloneInv, Shaped
<1>2. \E gone \in SUBSET Running, new \in SUBSET Stream :
         /\ new # {} => Waiting \cup Held = {}
         /\ Running' = (Running \ gone) \cup new
  <2> WITNESS Running \ Running' \in SUBSET Running
  <2> WITNESS {} \in SUBSET Stream
  <2> QED BY <1>1
<1> QED BY <1>2 DEF Shared!Run, Running, Waiting, Held

LEMMA AdmissionIsRun ==
  ASSUME AloneInv, NEW s \in Stream, NEW i \in Slot, NEW sl, NEW need, NEW k,
         Fewer(sl), slots' = [sl EXCEPT ![i] = Assigned(s, need, k)], Admitting, UNCHANGED xpc
  PROVE  Shared!Run
<1>1. Running' \subseteq Running \cup {s}
  BY AssignedIs DEF Running, Active, Fewer, Frees, AloneInv, Shaped
<1>2. \E gone \in SUBSET Running, new \in SUBSET Stream :
         /\ new # {} => Waiting \cup Held = {}
         /\ Running' = (Running \ gone) \cup new
  <2> WITNESS Running \ Running' \in SUBSET Running
  <2> WITNESS Running' \cap {s} \in SUBSET Stream
  <2> QED BY <1>1 DEF Admitting
<1> QED BY <1>2 DEF Shared!Run, Running, Waiting, Held

LEMMA StepShared == AloneInv /\ [Next]_vars => [Shared!Next]_(Shared!vars)
<1> SUFFICES ASSUME AloneInv, [Next]_vars PROVE [Shared!Next]_(Shared!vars)
  OBVIOUS
<1>0. Shaped /\ SectionAlone
  BY DEF AloneInv
<1>1. CASE Other
  BY <1>0, <1>1, OtherTakes, FewerIsRun DEF Shared!Next
<1>2. CASE \E s \in Stream, i \in Slot : AdmitNext(s, i)
  BY <1>0, <1>2, AdmitLetsIn, FewerIsRun, AdmissionIsRun DEF Shared!Next
<1>3. ASSUME NEW c \in Caller, ExclusiveAsk(c) PROVE Shared!Ask(c)
  BY <1>0, <1>3 DEF ExclusiveAsk, At, Shared!Ask, Waiting, Held, Active, SectionAlone, sched
<1>4. ASSUME NEW c \in Caller, ExclusiveEnter(c) PROVE Shared!Enter(c)
  BY <1>0, <1>4, IdleIsIdle
     DEF ExclusiveEnter, At, Shared!Enter, Waiting, Held, Active, SectionAlone
<1>5. ASSUME NEW c \in Caller, ExclusiveGiveUp(c) PROVE Shared!GiveUp(c)
  BY <1>0, <1>5 DEF ExclusiveGiveUp, At, Shared!GiveUp, Waiting, Held, Active, SectionAlone, sched
<1>6. ASSUME NEW c \in Caller, ExclusiveLeave(c) PROVE Shared!Leave(c)
  BY <1>0, <1>6 DEF ExclusiveLeave, At, Shared!Leave, Waiting, Held, Active, SectionAlone
<1>7. CASE \/ \E s \in Stream : Submit(s) \/ CancelReply(s)
           \/ Stop \/ Close \/ UNCHANGED vars
  <2>1. UNCHANGED <<slots, xpc>>
    BY <1>7 DEF Submit, CancelReply, Stop, Close, vars, sched
  <2> QED BY <2>1 DEF Shared!vars, Active, Waiting, Held
<1> QED
  BY <1>1, <1>2, <1>3, <1>4, <1>5, <1>6, <1>7 DEF Next, Thread, Other, Quiet, Reap, Shared!Next

\* The scheduler implements SharedExclusive: whatever is submitted, cancelled,
\* grown or fails, a caller of exclusive() has the model alone, and no reply
\* starts from the moment it asks (SharesTheModel).
THEOREM Sharing == Spec => SharesTheModel
<1>1. AloneInv /\ [Next]_vars => [Shared!Next]_(Shared!vars)
  BY StepShared
<1> QED BY <1>1, InitShared, AlwaysAlone, PTL DEF Spec, SharesTheModel, Shared!Spec
-----------------------------------------------------------------------------
(* Each reply is in one place.                                             *)
(*                                                                         *)
(* The invariant says it without counting: no reply is twice in the queue, *)
(* in two slots or in both, one that is in either has not been told that   *)
(* it is over, none is told twice, and what was submitted is somewhere.    *)

Queued == {queue[n] : n \in 1 .. Len(queue)}

OnePlace ==
  /\ queue \in Seq(Stream) /\ submitted \subseteq Stream
  /\ ended \in [Stream -> Seq(Reason)]
  /\ \A m, n \in 1 .. Len(queue) : queue[m] = queue[n] => m = n
  /\ \A i, j \in Active : slots[i].stream = slots[j].stream => i = j
  /\ Queued \cap Running = {}
  /\ \A s \in Queued \cup Running : ended[s] = <<>>
  /\ \A s \in Stream : Len(ended[s]) <= 1
  /\ submitted = Queued \cup Running \cup {s \in Stream : ended[s] # <<>>}

\* The replies of over, and no other, are told that they are over.
Tells(over) ==
  \E why \in [Stream -> Reason] :
    ended' = [s \in Stream |-> IF s \in over THEN Append(ended[s], why[s]) ELSE ended[s]]

Served(I) == {slots[i].stream : i \in I \cap Active}

\* q without the members of S: none twice if none was twice in q.
LEMMA WithoutKeeps ==
  ASSUME NEW T, NEW q \in Seq(T), NEW S
  PROVE  /\ Without(q, S) \in Seq(T)
         /\ \A x : (\E n \in 1 .. Len(Without(q, S)) : Without(q, S)[n] = x)
                     <=> x \notin S /\ \E n \in 1 .. Len(q) : q[n] = x
         /\ (\A m, n \in 1 .. Len(q) : q[m] = q[n] => m = n)
              => \A m, n \in 1 .. Len(Without(q, S)) :
                    Without(q, S)[m] = Without(q, S)[n] => m = n
<1> DEFINE kept    == {n \in 1 .. Len(q) : q[n] \notin S}
           upTo(n) == Cardinality({m \in kept : m <= n})
           rank    == [n \in kept |-> upTo(n)]
           at      == [k \in 1 .. Cardinality(kept) |-> CHOOSE n \in kept : upTo(n) = k]
<1>1. IsFiniteSet(kept) /\ Cardinality(kept) \in Nat
  <2>1. IsFiniteSet(1 .. Len(q))
    BY FS_Interval, LenProperties
  <2>2. kept \in SUBSET (1 .. Len(q))
    OBVIOUS
  <2> HIDE DEF kept
  <2> QED BY <2>1, <2>2, FS_Subset, FS_CardinalityType
<1>2. \A n \in kept : n \in Nat
  BY LenProperties
<1>3. ASSUME NEW n \in kept PROVE upTo(n) \in 1 .. Cardinality(kept)
  <2> DEFINE U == {m \in kept : m <= n}
  <2>1. U \in SUBSET kept
    OBVIOUS
  <2>2. n \in U
    BY <1>2
  <2> HIDE DEF kept, U
  <2>3. IsFiniteSet(U) /\ Cardinality(U) <= Cardinality(kept) /\ Cardinality(U) \in Nat
    BY <1>1, <2>1, FS_Subset, FS_CardinalityType
  <2>4. Cardinality(U) # 0
    BY <2>2, <2>3, FS_EmptySet
  <2>5. Cardinality(U) \in 1 .. Cardinality(kept)
    BY <1>1, <2>3, <2>4
  <2> QED BY <2>5 DEF U
<1>4. ASSUME NEW m \in kept, NEW n \in kept, m < n PROVE upTo(m) # upTo(n)
  <2> DEFINE U == {l \in kept : l <= m}
             V == {l \in kept : l <= n}
  <2>1. U \in SUBSET V /\ V \in SUBSET kept /\ n \in V /\ n \notin U
    BY <1>2, <1>4
  <2> HIDE DEF kept, U, V
  <2>2. IsFiniteSet(V)
    BY <1>1, <2>1, FS_Subset
  <2>3. Cardinality(U) # Cardinality(V)
    BY <2>1, <2>2, FS_Subset
  <2> QED BY <2>3 DEF U, V
<1>5. \A m, n \in kept : upTo(m) = upTo(n) => m = n
  <2> SUFFICES ASSUME NEW m \in kept, NEW n \in kept, m # n PROVE upTo(m) # upTo(n)
    OBVIOUS
  <2>1. m < n \/ n < m
    BY <1>2
  <2> HIDE DEF kept, upTo
  <2> QED BY <1>4, <2>1
<1>6. \A k \in 1 .. Cardinality(kept) : \E n \in kept : upTo(n) = k
  <2> HIDE DEF kept, upTo
  <2>1. rank \in Injection(kept, 1 .. Cardinality(kept))
    BY <1>3, <1>5 DEF Injection, IsInjective
  <2>2. /\ IsFiniteSet(1 .. Cardinality(kept))
        /\ Cardinality(1 .. Cardinality(kept)) = Cardinality(kept)
    BY <1>1, FS_Interval
  <2>3. rank \in Surjection(kept, 1 .. Cardinality(kept))
    <3> HIDE DEF rank
    <3> QED BY <2>1, <2>2, FS_Injection
  <2> QED BY <2>3 DEF Surjection
<1>7. /\ at \in [1 .. Cardinality(kept) -> kept]
      /\ \A k \in 1 .. Cardinality(kept) : upTo(at[k]) = k
  <2> HIDE DEF kept, upTo
  <2> QED BY <1>6
<1>8. \A n \in kept : \E k \in 1 .. Cardinality(kept) : at[k] = n
  <2> HIDE DEF kept, upTo, at
  <2> QED BY <1>3, <1>5, <1>7
<1>9. \A k, l \in 1 .. Cardinality(kept) : at[k] = at[l] => k = l
  <2> HIDE DEF kept, upTo, at
  <2> QED BY <1>7
<1>10. Without(q, S) = [k \in 1 .. Cardinality(kept) |-> q[at[k]]]
  BY DEF Without
<1>a. \A n : n \in kept <=> n \in 1 .. Len(q) /\ q[n] \notin S
  OBVIOUS
<1>b. \A n \in 1 .. Len(q) : q[n] \in T
  BY ElementOfSeq
<1> DEFINE N == Cardinality(kept)
<1> HIDE DEF kept, at, N
<1>c. Without(q, S) \in Seq(T) /\ Len(Without(q, S)) = N
  <2>1. [k \in 1 .. N |-> q[at[k]]] \in [1 .. N -> T]
    BY <1>7, <1>a, <1>b DEF N
  <2> QED BY <1>1, <1>10, <2>1 DEF N
<1>d. \A k \in 1 .. N : at[k] \in kept /\ Without(q, S)[k] = q[at[k]]
  BY <1>7, <1>10 DEF N
<1>e. ASSUME NEW x
      PROVE  (\E n \in 1 .. Len(Without(q, S)) : Without(q, S)[n] = x)
                <=> x \notin S /\ \E n \in 1 .. Len(q) : q[n] = x
  <2>1. ASSUME NEW n \in 1 .. Len(Without(q, S)), Without(q, S)[n] = x
        PROVE  x \notin S /\ \E m \in 1 .. Len(q) : q[m] = x
    <3>1. at[n] \in kept /\ x = q[at[n]]
      BY <1>c, <1>d, <2>1
    <3> QED BY <1>a, <3>1
  <2>2. ASSUME x \notin S, NEW m \in 1 .. Len(q), q[m] = x
        PROVE  \E n \in 1 .. Len(Without(q, S)) : Without(q, S)[n] = x
    <3>1. PICK k \in 1 .. N : at[k] = m
      BY <1>8, <1>a, <2>2 DEF N
    <3> QED BY <1>c, <1>d, <2>2, <3>1
  <2> QED BY <2>1, <2>2
<1>f. ASSUME \A m, n \in 1 .. Len(q) : q[m] = q[n] => m = n
      PROVE  \A m, n \in 1 .. Len(Without(q, S)) : Without(q, S)[m] = Without(q, S)[n] => m = n
  BY <1>9, <1>a, <1>c, <1>d, <1>f DEF N
<1> QED BY <1>c, <1>e, <1>f

LEMMA EndsTells ==
  ASSUME Shaped, OnePlace, NEW I \in SUBSET Slot, Ends(I)
  PROVE  Tells(Served(I))
<1> DEFINE reason(why) == [s \in Stream |-> IF \E i \in I : slots[i].stream = s
                             THEN why[CHOOSE i \in I : slots[i].stream = s] ELSE "stop"]
<1>0. \A s \in Stream : s \in Served(I) <=> \E i \in I : slots[i].stream = s
  BY SchedulerAssumption DEF Served, Active
<1>1. CASE I = {} /\ UNCHANGED ended
  <2>1. ended = [s \in Stream |-> IF s \in Served(I) THEN Append(ended[s], reason(<<>>)[s])
                                  ELSE ended[s]]
    BY <1>1 DEF OnePlace, Served
  <2>2. reason(<<>>) \in [Stream -> Reason]
    BY <1>1 DEF Reason
  <2> QED BY <1>1, <2>1, <2>2 DEF Tells
<1>2. ASSUME NEW why \in [I -> Reason], ended' = Told(why) PROVE Tells(Served(I))
  <2>1. reason(why) \in [Stream -> Reason]
    BY DEF Reason
  <2>2. ended' = [s \in Stream |-> IF s \in Served(I) THEN Append(ended[s], reason(why)[s])
                                   ELSE ended[s]]
    BY <1>0, <1>2 DEF Told
  <2> HIDE DEF reason
  <2> QED BY <2>1, <2>2 DEF Tells
<1> QED BY <1>1, <1>2 DEF Ends

LEMMA FreesRunning ==
  ASSUME Shaped, OnePlace, NEW I \in SUBSET Slot, Frees(slots', I)
  PROVE  /\ Running' = Running \ Served(I)
         /\ Served(I) \subseteq Running /\ Running \subseteq Stream
         /\ \A i, j \in Active' : slots'[i].stream = slots'[j].stream => i = j
BY SchedulerAssumption DEF Shaped, OnePlace, Frees, Running, Served, Active

\* The replies of over end, and no other is lost: what stays waits or runs.
LEMMA StillOnePlace ==
  ASSUME OnePlace, NEW over \in SUBSET (Queued \cup Running), Tells(over),
         UNCHANGED submitted, Running \subseteq Stream,
         queue' \in Seq(Stream),
         \A m, n \in 1 .. Len(queue') : queue'[m] = queue'[n] => m = n,
         \A i, j \in Active' : slots'[i].stream = slots'[j].stream => i = j,
         Queued' \cap Running' = {},
         Queued' \cup Running' = (Queued \cup Running) \ over
  PROVE  OnePlace'
<1>1. PICK why \in [Stream -> Reason] :
        ended' = [s \in Stream |-> IF s \in over THEN Append(ended[s], why[s]) ELSE ended[s]]
  BY DEF Tells
<1>2. Queued \subseteq Stream
  BY DEF OnePlace, Queued
<1>3. ended' \in [Stream -> Seq(Reason)]
  BY <1>1 DEF OnePlace
<1>4. ASSUME NEW s \in over PROVE Len(ended'[s]) = 1 /\ ended'[s] # <<>>
  <2>1. s \in Stream /\ ended[s] = <<>> /\ ended[s] \in Seq(Reason)
    BY <1>2 DEF OnePlace
  <2> QED BY <1>1, <2>1
<1>5. \A s \in Stream \ over : ended'[s] = ended[s]
  BY <1>1
<1>6. \A s \in Queued' \cup Running' : ended'[s] = <<>>
  BY <1>2, <1>5 DEF OnePlace
<1>7. ASSUME NEW s \in Stream PROVE Len(ended'[s]) <= 1
  <2>1. CASE s \in over
    <3>1. Len(ended'[s]) = 1
      BY <1>4, <2>1
    <3> QED BY <3>1
  <2>2. CASE s \notin over
    BY <1>5, <2>2 DEF OnePlace
  <2> QED BY <2>1, <2>2
<1>8. submitted' = Queued' \cup Running' \cup {s \in Stream : ended'[s] # <<>>}
  BY <1>2, <1>4, <1>5 DEF OnePlace
<1> QED BY <1>3, <1>6, <1>7, <1>8 DEF OnePlace

\* A step that only takes replies out of the slots and out of the queue.
LEMMA LeavesStayPlaced ==
  ASSUME Shaped, OnePlace, NEW I \in SUBSET Slot, NEW gone \in SUBSET Queued,
         Frees(slots', I), Tells(gone \cup Served(I)), UNCHANGED submitted,
         queue' \in Seq(Stream), Queued' = Queued \ gone,
         \A m, n \in 1 .. Len(queue') : queue'[m] = queue'[n] => m = n
  PROVE  OnePlace'
<1>1. /\ Running' = Running \ Served(I)
      /\ Served(I) \subseteq Running /\ Running \subseteq Stream
      /\ \A i, j \in Active' : slots'[i].stream = slots'[j].stream => i = j
  BY FreesRunning
<1>2. Queued \cap Running = {}
  BY DEF OnePlace
<1>3. /\ gone \cup Served(I) \in SUBSET (Queued \cup Running)
      /\ Queued' \cap Running' = {}
      /\ Queued' \cup Running' = (Queued \cup Running) \ (gone \cup Served(I))
  BY <1>1, <1>2
<1> QED BY <1>1, <1>3, StillOnePlace

LEMMA EndsStayPlaced ==
  ASSUME Shaped, OnePlace, NEW I \in SUBSET Slot, Frees(slots', I), Ends(I),
         UNCHANGED <<queue, submitted>>
  PROVE  OnePlace'
<1>1. Queued' = Queued \ {} /\ {} \in SUBSET Queued
  BY DEF Queued
<1>2. Tells({} \cup Served(I))
  BY EndsTells
<1>3. /\ queue' \in Seq(Stream)
      /\ \A m, n \in 1 .. Len(queue') : queue'[m] = queue'[n] => m = n
  BY DEF OnePlace
<1> QED BY <1>1, <1>2, <1>3, LeavesStayPlaced

\* One reason for all of them.
LEMMA EveryoneIs ==
  ASSUME Shaped, NEW I \in SUBSET Slot, NEW r
  PROVE  Everyone(I, r) = [x \in Stream |-> IF x \in Served(I) THEN Append(ended[x], r)
                                            ELSE ended[x]]
<1>1. \A x \in Stream : x \in Served(I) <=> \E j \in I : slots[j].stream = x
  BY SchedulerAssumption DEF Served, Active
<1> QED BY <1>1 DEF Everyone, Told

LEMMA TellsOne ==
  ASSUME NEW over, NEW r \in Reason,
         ended' = [s \in Stream |-> IF s \in over THEN Append(ended[s], r) ELSE ended[s]]
  PROVE  Tells(over)
<1>1. [s \in Stream |-> r] \in [Stream -> Reason]
  OBVIOUS
<1> QED BY <1>1 DEF Tells

LEMMA HeadLeaves ==
  ASSUME OnePlace, queue # <<>>
  PROVE  /\ Tail(queue) \in Seq(Stream)
         /\ \A m, n \in 1 .. Len(Tail(queue)) : Tail(queue)[m] = Tail(queue)[n] => m = n
         /\ {Tail(queue)[n] : n \in 1 .. Len(Tail(queue))} = Queued \ {Head(queue)}
         /\ Head(queue) \in Queued
<1>1. PICK t : t = Tail(queue)
  OBVIOUS
<1>2. /\ t \in Seq(Stream) /\ Len(queue) \in Nat \ {0} /\ Len(t) = Len(queue) - 1
      /\ \A n \in 1 .. Len(t) : t[n] = queue[n + 1]
      /\ Head(queue) = queue[1]
  BY <1>1 DEF OnePlace
<1>a. \A n \in 1 .. Len(t) : n + 1 \in 1 .. Len(queue) /\ t[n] = queue[n + 1] /\ n + 1 # 1
  BY <1>2
<1>b. 1 \in 1 .. Len(queue) /\ \A m, n \in 1 .. Len(queue) : queue[m] = queue[n] => m = n
  BY <1>2 DEF OnePlace
<1>3. ASSUME NEW m \in 1 .. Len(t), NEW n \in 1 .. Len(t), t[m] = t[n] PROVE m = n
  <2>1. m + 1 = n + 1
    BY <1>3, <1>a, <1>b
  <2> QED BY <1>2, <2>1
<1>4. ASSUME NEW n \in 1 .. Len(t) PROVE t[n] \in Queued \ {queue[1]}
  BY <1>a, <1>b DEF Queued
<1>5. ASSUME NEW x \in Queued, x # queue[1] PROVE \E n \in 1 .. Len(t) : x = t[n]
  <2>1. PICK n \in 1 .. Len(queue) : x = queue[n]
    BY DEF Queued
  <2>2. n - 1 \in 1 .. Len(t) /\ t[n - 1] = x
    BY <1>2, <1>5, <2>1
  <2> QED BY <2>2
<1>6. queue[1] \in Queued
  BY <1>2 DEF Queued
<1> QED BY <1>1, <1>2, <1>3, <1>4, <1>5, <1>6

\* Tail takes the head of the queue to the slot i, or nowhere.
LEMMA AdmitStaysPlaced ==
  ASSUME Shaped, OnePlace, NEW s \in Stream, NEW i \in Slot, AdmitNext(s, i)
  PROVE  OnePlace'
<1>1. /\ queue # <<>> /\ s = Head(queue) /\ i \notin Active
      /\ UNCHANGED <<submitted, xpc>>
  BY AdmitEnds
<1>2. PICK lost \in SUBSET Slot : \E sl : Frees(sl, lost) /\ Admits(s, i, lost, sl)
  BY AdmitEnds
<1>3. PICK sl : Frees(sl, lost) /\ Admits(s, i, lost, sl)
  BY <1>2
<1>4. s \in Queued /\ s \notin Running
  BY <1>1, HeadLeaves DEF OnePlace
<1>5. CASE slots' = sl /\ UNCHANGED queue /\ ended' = Everyone(lost, "error")
  BY <1>1, <1>3, <1>5, EndsEveryone, EndsStayPlaced DEF Reason
<1>6. CASE /\ slots' = sl /\ queue' = Tail(queue)
           /\ ended' = [Everyone(lost, "error") EXCEPT ![s] = Append(@, "error")]
  <2>1. /\ Running' = Running \ Served(lost)
        /\ Served(lost) \subseteq Running /\ Running \subseteq Stream
        /\ \A k, j \in Active' : slots'[k].stream = slots'[j].stream => k = j
    BY <1>3, <1>6, FreesRunning
  <2>2. /\ queue' \in Seq(Stream)
        /\ \A m, n \in 1 .. Len(queue') : queue'[m] = queue'[n] => m = n
        /\ Queued' = Queued \ {s}
    BY <1>1, <1>6, HeadLeaves DEF Queued
  <2>3. Tells({s} \cup Served(lost))
    <3>1. Everyone(lost, "error") = [x \in Stream |-> IF x \in Served(lost)
                                      THEN Append(ended[x], "error") ELSE ended[x]]
      BY EveryoneIs
    <3>2. ended' = [x \in Stream |-> IF x \in {s} \cup Served(lost)
                                    THEN Append(ended[x], "error") ELSE ended[x]]
      BY <1>4, <1>6, <2>1, <3>1
    <3> QED BY <3>2, TellsOne DEF Reason
  <2>4. {s} \in SUBSET Queued /\ Frees(slots', lost)
    BY <1>3, <1>4, <1>6
  <2> QED BY <1>1, <2>2, <2>3, <2>4, LeavesStayPlaced
<1>7. CASE /\ Admitting
           /\ \E need, k : slots' = [sl EXCEPT ![i] = Assigned(s, need, k)]
           /\ queue' = Tail(queue) /\ ended' = Everyone(lost, "error")
  <2>1. PICK need, k : slots' = [sl EXCEPT ![i] = Assigned(s, need, k)]
    BY <1>7
  <2>2. /\ Running' = (Running \ Served(lost)) \cup {s}
        /\ Served(lost) \subseteq Running /\ Running \subseteq Stream
        /\ \A m, j \in Active' : slots'[m].stream = slots'[j].stream => m = j
    <3>1. /\ \A j \in Slot : slots'[j].stream = IF j = i THEN s ELSE sl[j].stream
          /\ sl[i].stream = NONE
      BY <1>1, <1>3, <2>1, AssignedIs DEF Frees, Active
    <3>2. \A j \in Slot : sl[j].stream = IF j \in lost THEN NONE ELSE slots[j].stream
      BY <1>3 DEF Frees
    <3>3. i \in Active' /\ \A j \in Active' : j = i \/ (j \in Active /\ j \notin lost)
      BY <3>1, <3>2, SchedulerAssumption DEF Active
    <3>4. \A j \in Active : j \notin lost => j \in Active' /\ slots'[j].stream = slots[j].stream
      BY <1>1, <3>1, <3>2 DEF Active
    <3>5. \A j \in Active : slots[j].stream \in Running
      BY DEF Running
    <3>6. Served(lost) \subseteq Running /\ Running \subseteq Stream
      BY DEF Served, Running, Active, Shaped
    <3>7. \A m, j \in Active' : slots'[m].stream = slots'[j].stream => m = j
      BY <1>4, <3>1, <3>3, <3>4, <3>5 DEF OnePlace
    <3>8. \A j \in Active : slots[j].stream \in Served(lost) <=> j \in lost
      BY DEF Served, OnePlace
    <3>9. Running' = (Running \ Served(lost)) \cup {s}
      <4>1. ASSUME NEW x \in Running' PROVE x \in (Running \ Served(lost)) \cup {s}
        BY <3>1, <3>3, <3>4, <3>5, <3>8 DEF Running
      <4>2. ASSUME NEW x \in Running, x \notin Served(lost) PROVE x \in Running'
        BY <3>4, <3>8, <4>2 DEF Running
      <4>3. s \in Running'
        BY <3>1, <3>3 DEF Running
      <4> QED BY <4>1, <4>2, <4>3
    <3> QED BY <3>6, <3>7, <3>9
  <2>0. queue' = Tail(queue)
    BY <1>7
  <2>3. /\ queue' \in Seq(Stream)
        /\ \A m, n \in 1 .. Len(queue') : queue'[m] = queue'[n] => m = n
        /\ Queued' = Queued \ {s}
    BY <1>1, <2>0, HeadLeaves DEF Queued
  <2>4. Tells(Served(lost))
    BY <1>7, EndsEveryone, EndsTells DEF Reason
  <2>5. Queued \cap Running = {}
    BY DEF OnePlace
  <2>6. Queued' \cap Running' = {}
    BY <2>2, <2>3, <2>5
  <2>7. Queued' \cup Running' = (Queued \cup Running) \ Served(lost)
    BY <1>4, <2>2, <2>3, <2>5
  <2> QED BY <1>1, <2>2, <2>3, <2>4, <2>6, <2>7, StillOnePlace
<1> QED BY <1>3, <1>5, <1>6, <1>7 DEF Admits

LEMMA SamePlaces ==
  ASSUME OnePlace, UNCHANGED <<queue, submitted, ended, slots>>
  PROVE  OnePlace'
<1>1. Queued' = Queued /\ Running' = Running /\ Active' = Active
  BY DEF Queued, Running, Active
<1> QED BY <1>1 DEF OnePlace

LEMMA GoneLeave ==
  ASSUME OnePlace, queue' = Without(queue, Gone)
  PROVE  /\ Gone \in SUBSET Queued
         /\ queue' \in Seq(Stream) /\ Queued' = Queued \ Gone
         /\ \A m, n \in 1 .. Len(queue') : queue'[m] = queue'[n] => m = n
<1>1. PICK w : w = Without(queue, Gone)
  OBVIOUS
<1>2. queue \in Seq(Stream) /\ \A m, n \in 1 .. Len(queue) : queue[m] = queue[n] => m = n
  BY DEF OnePlace
<1> DEFINE Keeps(v) ==
      /\ v \in Seq(Stream)
      /\ \A x : (\E n \in 1 .. Len(v) : v[n] = x)
                  <=> x \notin Gone /\ \E n \in 1 .. Len(queue) : queue[n] = x
      /\ (\A m, n \in 1 .. Len(queue) : queue[m] = queue[n] => m = n)
           => \A m, n \in 1 .. Len(v) : v[m] = v[n] => m = n
<1>0. Keeps(Without(queue, Gone))
  BY <1>2, WithoutKeeps
<1>3. /\ w \in Seq(Stream)
      /\ \A x : (\E n \in 1 .. Len(w) : w[n] = x)
                  <=> x \notin Gone /\ \E n \in 1 .. Len(queue) : queue[n] = x
      /\ \A m, n \in 1 .. Len(w) : w[m] = w[n] => m = n
  BY <1>0, <1>1, <1>2
<1>4. {w[n] : n \in 1 .. Len(w)} = Queued \ Gone
  BY <1>3 DEF Queued
<1>5. Gone \in SUBSET Queued
  BY DEF Gone, Queued
<1> QED BY <1>1, <1>3, <1>4, <1>5 DEF Queued

LEMMA ReapStaysPlaced ==
  ASSUME Shaped, OnePlace, Reap
  PROVE  OnePlace'
<1>1. CASE IdleReap
  <2>1. Gone \in SUBSET Queued
    BY DEF Gone, Queued
  <2>2. Frees(slots', {})
    BY <1>1, FreesNone DEF IdleReap
  <2>3. ended' = [s \in Stream |-> IF s \in Gone \cup Served({}) THEN Append(ended[s], "stop")
                                   ELSE ended[s]]
    BY <1>1 DEF IdleReap, Reaped, Served
  <2>4. Tells(Gone \cup Served({}))
    BY <2>3, TellsOne DEF Reason
  <2>5. queue' = Without(queue, Gone) /\ UNCHANGED submitted
    BY <1>1 DEF IdleReap
  <2> QED BY <2>1, <2>2, <2>4, <2>5, GoneLeave, LeavesStayPlaced
<1>2. CASE BeginStep /\ stopped
  <2>1. UNCHANGED <<queue, submitted, slots, ended>>
    BY <1>2 DEF BeginStep
  <2> QED BY <2>1, SamePlaces
<1>3. CASE BeginStep /\ ~stopped
  <2> DEFINE over == {i \in Active : slots[i].stream \in cancelled}
  <2>1. /\ slots' = [i \in Slot |-> IF i \in over THEN Idle(slots[i].kv) ELSE slots[i]]
        /\ queue' = Without(queue, Gone) /\ UNCHANGED submitted
        /\ ended' = [s \in Stream |-> IF s \in Gone THEN Append(ended[s], "stop")
                                      ELSE Everyone(over, "stop")[s]]
    BY <1>3 DEF BeginStep
  <2>2. over \in SUBSET Slot
    BY DEF Active
  <2> HIDE DEF over
  <2>3. Frees(slots', over)
    BY <2>1, IdleIsIdle DEF Frees, Shaped
  <2>4. ended' = [s \in Stream |-> IF s \in Gone \cup Served(over)
                                  THEN Append(ended[s], "stop") ELSE ended[s]]
    <3>1. Everyone(over, "stop") = [s \in Stream |-> IF s \in Served(over)
                                      THEN Append(ended[s], "stop") ELSE ended[s]]
      BY <2>2, EveryoneIs
    <3> QED BY <2>1, <3>1
  <2>5. Tells(Gone \cup Served(over))
    BY <2>4, TellsOne DEF Reason
  <2> QED BY <2>1, <2>2, <2>3, <2>5, GoneLeave, LeavesStayPlaced
<1>4. CASE Abort
  <2>1. /\ slots' = [i \in Slot |-> Idle(slots[i].kv)]
        /\ queue' = <<>> /\ UNCHANGED submitted
        /\ ended' = [s \in Stream |-> IF \E n \in 1 .. Len(queue) : queue[n] = s
                                      THEN Append(ended[s], "error")
                                      ELSE Everyone(Active, "error")[s]]
    BY <1>4 DEF Abort
  <2>2. Frees(slots', Slot)
    BY <2>1, IdleIsIdle DEF Frees
  <2>3. Served(Slot) = Served(Active) /\ Active \in SUBSET Slot
    BY DEF Served, Active
  <2>4. ended' = [s \in Stream |-> IF s \in Queued \cup Served(Slot)
                                  THEN Append(ended[s], "error") ELSE ended[s]]
    <3>1. Everyone(Active, "error") = [s \in Stream |-> IF s \in Served(Active)
                                         THEN Append(ended[s], "error") ELSE ended[s]]
      BY <2>3, EveryoneIs
    <3>2. \A s : s \in Queued <=> \E n \in 1 .. Len(queue) : queue[n] = s
      BY DEF Queued
    <3> QED BY <2>1, <2>3, <3>1, <3>2
  <2>5. Tells(Queued \cup Served(Slot))
    BY <2>4, TellsOne DEF Reason
  <2>6. /\ queue' \in Seq(Stream) /\ Queued' = Queued \ Queued /\ Queued \in SUBSET Queued
        /\ \A m, n \in 1 .. Len(queue') : queue'[m] = queue'[n] => m = n
    BY <2>1 DEF Queued
  <2> QED BY <2>1, <2>2, <2>5, <2>6, LeavesStayPlaced
<1> QED BY <1>1, <1>2, <1>3, <1>4 DEF Reap

LEMMA SubmitStaysPlaced ==
  ASSUME Shaped, OnePlace, NEW s \in Stream, Submit(s)
  PROVE  OnePlace'
<1>1. /\ s \notin submitted /\ submitted' = submitted \cup {s}
      /\ queue' = Append(queue, s) /\ UNCHANGED <<ended, slots>>
  BY DEF Submit
<1>2. s \notin Queued /\ s \notin Running /\ ended[s] = <<>>
  BY <1>1 DEF OnePlace
<1>3. /\ queue' \in Seq(Stream) /\ Len(queue') = Len(queue) + 1 /\ Len(queue) \in Nat
      /\ \A n \in 1 .. Len(queue) : queue'[n] = queue[n] /\ queue[n] \in Queued
      /\ queue'[Len(queue) + 1] = s
  BY <1>1 DEF OnePlace, Queued
<1>4. \A n \in 1 .. Len(queue') : n \in 1 .. Len(queue) \/ n = Len(queue) + 1
  BY <1>3
<1>5. \A m, n \in 1 .. Len(queue') : queue'[m] = queue'[n] => m = n
  BY <1>2, <1>3, <1>4 DEF OnePlace
<1>6. Queued' = Queued \cup {s}
  <2>1. \A x \in Queued' : x \in Queued \cup {s}
    BY <1>3, <1>4 DEF Queued
  <2>2. \A x \in Queued : \E n \in 1 .. Len(queue) : x = queue[n]
    BY DEF Queued
  <2>3. \A x \in Queued : x \in Queued'
    BY <1>3, <2>2 DEF Queued
  <2>4. s \in Queued'
    BY <1>3 DEF Queued
  <2> QED BY <2>1, <2>3, <2>4
<1>7. Running' = Running /\ Active' = Active
  BY <1>1 DEF Running, Active
<1> QED BY <1>1, <1>2, <1>3, <1>5, <1>6, <1>7 DEF OnePlace

LEMMA EnterStaysPlaced ==
  ASSUME Shaped, OnePlace, NEW c \in Caller, ExclusiveEnter(c)
  PROVE  OnePlace'
<1>1. Frees(slots', {}) /\ Ends({}) /\ UNCHANGED <<queue, submitted>>
  BY IdleIsIdle DEF ExclusiveEnter, Frees, Active, Ends
<1>2. {} \in SUBSET Slot
  OBVIOUS
<1> QED BY <1>1, <1>2, EndsStayPlaced

LEMMA InitPlaced == Init => OnePlace
BY IdleIsIdle DEF Init, OnePlace, Queued, Running, Active

LEMMA StepPlaced == AloneInv /\ OnePlace /\ [Next]_vars => OnePlace'
<1> SUFFICES ASSUME Shaped, OnePlace, [Next]_vars PROVE OnePlace'
  BY DEF AloneInv
<1>1. CASE Quiet
  <2>1. Frees(slots', {}) /\ Ends({}) /\ UNCHANGED <<queue, submitted>>
    BY <1>1, QuietEnds DEF Ends
  <2>2. {} \in SUBSET Slot
    OBVIOUS
  <2> QED BY <2>1, <2>2, EndsStayPlaced
<1>2. CASE Reap
  BY <1>2, ReapStaysPlaced
<1>3. CASE Decode
  BY <1>3, DecodeEnds, EndsStayPlaced
<1>4. CASE \E i \in Slot : Extend(i)
  BY <1>4, ExtendEnds, EndsStayPlaced
<1>5. CASE \E s \in Stream, i \in Slot : AdmitNext(s, i)
  BY <1>5, AdmitStaysPlaced
<1>6. CASE \E s \in Stream : Submit(s)
  BY <1>6, SubmitStaysPlaced
<1>7. CASE \E c \in Caller : ExclusiveEnter(c)
  BY <1>7, EnterStaysPlaced
<1>8. CASE \/ \E s \in Stream : CancelReply(s)
           \/ \E c \in Caller : ExclusiveAsk(c) \/ ExclusiveGiveUp(c) \/ ExclusiveLeave(c)
           \/ Stop \/ Close \/ UNCHANGED vars
  <2>1. UNCHANGED <<queue, submitted, ended, slots>>
    BY <1>8 DEF CancelReply, ExclusiveAsk, ExclusiveGiveUp, ExclusiveLeave, Stop, Close, vars,
       sched
  <2> QED BY <2>1, SamePlaces
<1> QED
  BY <1>1, <1>2, <1>3, <1>4, <1>5, <1>6, <1>7, <1>8 DEF Next, Thread, Quiet, Reap

\* A set with one element that has the property, or none.
LEMMA CountOne ==
  ASSUME NEW S, NEW x, S = {} \/ S = {x}
  PROVE  Cardinality(S) = IF S = {} THEN 0 ELSE 1
BY FS_EmptySet, FS_Singleton

LEMMA PlacedCounts == Shaped /\ OnePlace => EachReplyInOnePlace
<1> SUFFICES ASSUME Shaped, OnePlace, NEW s \in Stream
             PROVE  Count(s) = IF s \in submitted THEN 1 ELSE 0
  BY DEF EachReplyInOnePlace
<1> DEFINE Q == {n \in 1 .. Len(queue) : queue[n] = s}
           R == {i \in Slot : slots[i].stream = s}
<1>1. (Q # {} <=> s \in Queued) /\ (Q = {} \/ \E n : Q = {n})
  <2>1. \A m, n \in Q : m = n
    BY DEF OnePlace
  <2>2. Q # {} <=> s \in Queued
    BY DEF Queued
  <2> HIDE DEF Q
  <2>3. ASSUME NEW n \in Q PROVE Q = {n}
    BY <2>1
  <2> QED BY <2>2, <2>3
<1>2. (R # {} <=> s \in Running) /\ (R = {} \/ \E i : R = {i})
  <2>1. R \subseteq Active /\ \A i, j \in R : i = j
    BY SchedulerAssumption DEF OnePlace, Active
  <2>2. R # {} <=> s \in Running
    BY <2>1 DEF Running, Active
  <2> HIDE DEF R
  <2>3. ASSUME NEW i \in R PROVE R = {i}
    BY <2>1
  <2> QED BY <2>2, <2>3
<1>3. Count(s) = Cardinality(Q) + Cardinality(R) + Len(ended[s])
  BY DEF Count
<1> HIDE DEF Q, R
<1>4. /\ Cardinality(Q) = IF s \in Queued THEN 1 ELSE 0
      /\ Cardinality(R) = IF s \in Running THEN 1 ELSE 0
  BY <1>1, <1>2, CountOne
<1>5. Len(ended[s]) = IF ended[s] = <<>> THEN 0 ELSE 1
  <2>1. ended[s] \in Seq(Reason) /\ Len(ended[s]) <= 1
    BY DEF OnePlace
  <2> QED BY <2>1, EmptySeq, LenProperties
<1>6. /\ ~(s \in Queued /\ s \in Running)
      /\ s \in Queued \/ s \in Running => ended[s] = <<>>
      /\ s \in submitted <=> s \in Queued \/ s \in Running \/ ended[s] # <<>>
  BY DEF OnePlace
<1> QED BY <1>3, <1>4, <1>5, <1>6

\* A reply that was submitted is in the queue once, in one slot, or over with
\* one _End received, whatever cancels, growths, faults and an abort do
\* (EachReplyInOnePlace).
THEOREM RepliesAreKept == Spec => []EachReplyInOnePlace
<1>1. Init => OnePlace
  BY InitPlaced
<1>2. AloneInv /\ OnePlace /\ [Next]_vars => OnePlace'
  BY StepPlaced
<1>3. AloneInv /\ OnePlace => EachReplyInOnePlace
  BY PlacedCounts DEF AloneInv
<1> QED BY <1>1, <1>2, <1>3, AlwaysAlone, PTL DEF Spec
-----------------------------------------------------------------------------
(* The cache holds what the slots record.                                  *)
(*                                                                         *)
(* Foreign tokens are cleared by the admission that finds the cache dirty, *)
(* so no reply runs, and none is being admitted, in a dirty cache; and a   *)
(* section that makes it dirty again has the model alone.                  *)

\* What a slot records when touched is t.
KeptSlot(e, t) == /\ {"stream", "kv", "todo", "pending"} \subseteq DOMAIN e
                  /\ e.kv \in Nat /\ e.todo \in Nat /\ e.pending \in BOOLEAN
                  /\ e.stream # NONE => (e.pending <=> e.todo = 0)
                  /\ e.kv > 0 => t
Kepts(sl, t) == /\ sl = [j \in Slot |-> sl[j]]
                /\ \A j \in Slot : KeptSlot(sl[j], t)

CacheInv == /\ Kepts(slots, touched)
            /\ Active # {} \/ pc = "admit" => ~dirty
            /\ ~dirty => ~foreign

LEMMA IdleIsKept ==
  ASSUME NEW kv \in Nat, NEW t, kv > 0 => t
  PROVE  KeptSlot(Idle(kv), t)
BY DEF KeptSlot, Idle

LEMMA EmptyIsKept == \A t : KeptSlot(Idle(0), t)
BY IdleIsKept

LEMMA KeptsLater ==
  ASSUME NEW sl, NEW t, NEW u, Kepts(sl, t), t => u
  PROVE  Kepts(sl, u)
BY DEF Kepts, KeptSlot

LEMMA KeptsDropped ==
  ASSUME NEW sl, NEW t, Kepts(sl, t), NEW D
  PROVE  Kepts(Dropped(D, sl), t)
BY EmptyIsKept DEF Kepts, Dropped

LEMMA KeptsIdle ==
  ASSUME NEW sl, NEW t, Kepts(sl, t), NEW i \in Slot
  PROVE  Kepts([sl EXCEPT ![i] = Idle(sl[i].kv)], t)
<1>1. KeptSlot(Idle(sl[i].kv), t)
  BY IdleIsKept DEF Kepts, KeptSlot
<1> QED BY <1>1 DEF Kepts

LEMMA KeptsSeen ==
  ASSUME NEW sl, NEW t, Kepts(sl, t), NEW i \in Slot, NEW x
  PROVE  Kepts([sl EXCEPT ![i].seen = x], t)
<1> DEFINE e == [sl[i] EXCEPT !.seen = x]
<1>1. KeptSlot(e, t)
  BY DEF Kepts, KeptSlot
<1>2. [sl EXCEPT ![i].seen = x] = [sl EXCEPT ![i] = e]
  OBVIOUS
<1> HIDE DEF e
<1> QED BY <1>1, <1>2 DEF Kepts

LEMMA KeptsExtended ==
  ASSUME NEW sl, NEW t, Kepts(sl, t), NEW i \in Slot, NEW n
  PROVE  Kepts(Extended(i, n, sl), t)
<1> DEFINE e == [sl[i] EXCEPT !.reserve = n, !.extend = FALSE, !.seen = NONE]
<1>1. KeptSlot(e, t)
  BY DEF Kepts, KeptSlot
<1>2. Extended(i, n, sl) = [sl EXCEPT ![i] = e]
  BY DEF Kepts, Extended
<1> HIDE DEF e
<1> QED BY <1>1, <1>2 DEF Kepts

\* A growth that makes a context touches the cache; one that does not leaves no
\* reply and no cells.
LEMMA KeptsGrown ==
  ASSUME Kepts(slots, touched), NEW sizes, NEW g \in Growths(sizes)
  PROVE  Kepts(AfterGrowth(g), touched \/ g.ok)
<1>1. CASE g.ok
  <2>1. Kepts(slots, touched \/ g.ok)
    BY <1>1, KeptsLater
  <2> QED BY <2>1, KeptsDropped DEF AfterGrowth
<1>2. CASE ~g.ok
  <2>1. g \notin [ok : {TRUE}, cap : sizes, lost : SUBSET Active]
    BY <1>2
  <2>2. g = [ok |-> FALSE, cap |-> 0, lost |-> Active]
    BY <2>1 DEF Growths
  <2>3. AfterGrowth(g) = [j \in Slot |-> Idle(0)]
    <3>1. g.lost = Active
      BY <2>2
    <3> QED BY <3>1 DEF AfterGrowth, Dropped, Active
  <2> QED BY <2>3, EmptyIsKept DEF Kepts
<1> QED BY <1>1, <1>2

LEMMA ExtendKeeps ==
  ASSUME Kepts(slots, touched), NEW i \in Slot, Extend(i)
  PROVE  Kepts(slots', touched') /\ (foreign' => foreign) /\ UNCHANGED <<dirty, pc>>
<1>0. UNCHANGED <<dirty, pc>>
  BY DEF Extend, NotDue, ExtendRefused, ExtendInPlace, ExtendByGrowth, Looked
<1>1. ASSUME NEW w, NEW sl, Kepts(sl, touched), NoCells(i, w, sl)
      PROVE  Kepts(slots', touched') /\ (foreign' => foreign)
  <2>1. UNCHANGED <<touched, foreign>>
    BY <1>1 DEF NoCells
  <2>2. \/ slots' = [sl EXCEPT ![i].seen = RoomKey(i)]
        \/ slots' = [sl EXCEPT ![i] = Idle(sl[i].kv)]
    BY <1>1 DEF NoCells
  <2>3. Kepts(slots', touched)
    BY <1>1, <2>2, KeptsSeen, KeptsIdle
  <2> QED BY <2>1, <2>3
<1>2. Kepts(AllIdle(i), touched)
  BY KeptsDropped DEF AllIdle
<1>3. CASE NotDue(i)
  <2>1. UNCHANGED <<slots, touched, foreign>>
    BY <1>3 DEF NotDue
  <2> QED BY <1>0, <2>1
<1>4. CASE ExtendRefused(i)
  <2>1. \E w : NoCells(i, w, slots) \/ NoCells(i, w, AllIdle(i))
    BY <1>4 DEF ExtendRefused
  <2> QED BY <1>0, <1>1, <1>2, <2>1
<1>5. CASE ExtendInPlace(i)
  <2>1. PICK D : slots' = Extended(i, Want(i), Dropped(D, slots))
    BY <1>5 DEF ExtendInPlace
  <2>2. UNCHANGED <<touched, foreign>>
    BY <1>5 DEF ExtendInPlace
  <2>3. Kepts(slots', touched)
    BY <2>1, KeptsDropped, KeptsExtended
  <2> QED BY <1>0, <2>2, <2>3
<1>6. CASE ExtendByGrowth(i)
  <2> DEFINE Grows(way, g) == /\ slots' = IF i \in g.lost THEN AfterGrowth(g)
                                          ELSE Extended(i, way[2], AfterGrowth(g))
                              /\ touched' = (touched \/ g.ok)
                              /\ foreign' = FALSE
  <2>0. PICK way \in GrowthsFor(i) : \E g \in Growths({way[1]}) : Grows(way, g)
    BY <1>6 DEF ExtendByGrowth
  <2>1. PICK g \in Growths({way[1]}) : Grows(way, g)
    BY <2>0
  <2>2. Kepts(AfterGrowth(g), touched \/ g.ok)
    BY KeptsGrown
  <2>3. Kepts(slots', touched \/ g.ok)
    BY <2>1, <2>2, KeptsExtended
  <2> QED BY <1>0, <2>1, <2>3
<1> QED BY <1>3, <1>4, <1>5, <1>6 DEF Extend

\* A part of the batch leaves prompt to decode, or a token, or no reply.
LEMMA PartIsKept ==
  ASSUME NEW i \in Slot, KeptSlot(slots[i], touched), slots[i].stream # NONE, NEW n \in Nat,
         slots[i].pending => n = 0, n <= slots[i].todo, NEW o
  PROVE  KeptSlot(After(i, n, o), TRUE)
<1> DEFINE e  == slots[i]
           kv == e.kv + (IF e.pending THEN 1 ELSE n)
<1>1. kv \in Nat /\ e.todo \in Nat /\ e.pending \in BOOLEAN
      /\ {"stream", "kv", "todo", "pending"} \subseteq DOMAIN e
  BY DEF KeptSlot
<1>2. CASE Over(i, n, o) # NONE
  <2>1. \E c \in Nat : After(i, n, o) = Idle(c)
    BY <1>1, <1>2 DEF After
  <2> QED BY <2>1, IdleIsKept
<1>3. CASE ~(Over(i, n, o) # NONE) /\ ~HasRow(i, n)
  <2> DEFINE r == [e EXCEPT !.kv = kv, !.todo = e.todo - n]
  <2>1. After(i, n, o) = r
    BY <1>3 DEF After
  <2>2. e.pending = FALSE /\ n # e.todo /\ e.todo - n \in Nat
    BY <1>1, <1>3 DEF HasRow
  <2>3. DOMAIN r = DOMAIN e /\ r.kv = kv /\ r.todo = e.todo - n /\ r.pending = e.pending
    BY <1>1
  <2> HIDE DEF r, kv, e
  <2> QED BY <1>1, <2>1, <2>2, <2>3 DEF KeptSlot
<1>4. CASE ~(Over(i, n, o) # NONE) /\ HasRow(i, n)
  <2> DEFINE x == kv + 1 > e.reserve
             r == [e EXCEPT !.kv = kv, !.todo = 0, !.pending = TRUE,
                            !.generated = e.generated + 1, !.extend = x]
  <2>1. After(i, n, o) = r
    BY <1>4 DEF After
  <2> HIDE DEF x
  <2>2. DOMAIN r = DOMAIN e /\ r.kv = kv /\ r.todo = 0 /\ r.pending = TRUE
    BY <1>1
  <2> HIDE DEF r, kv, e
  <2>3. r.pending <=> r.todo = 0
    BY <2>2
  <2>4. r.kv \in Nat /\ r.todo \in Nat
    BY <1>1, <2>2
  <2>5. r.pending \in BOOLEAN
    BY <2>2
  <2> QED BY <1>1, <2>1, <2>2, <2>3, <2>4, <2>5, Zenon DEF KeptSlot
<1> QED BY <1>2, <1>3, <1>4

LEMMA DecodeKeeps ==
  ASSUME Kepts(slots, touched), Decode
  PROVE  Kepts(slots', touched') /\ UNCHANGED <<dirty, foreign>> /\ pc' = "check"
<1> DEFINE plan(n) == Decoding \cup {i \in Filling : n[i] > 0}
           part(n) == [i \in plan(n) |-> IF i \in Filling THEN n[i] ELSE 0]
           next(n, o) == [i \in Slot |-> IF i \in plan(n) THEN After(i, part(n)[i], o[i])
                                         ELSE slots[i]]
           Decodes(n, o) == slots' = next(n, o) /\ touched' = (touched \/ plan(n) # {})
<1>0. \E n \in Chunks : \E o \in [plan(n) -> Outcome] : Decodes(n, o)
  BY DEF Decode
<1>1. PICK n \in Chunks : \E o \in [plan(n) -> Outcome] : Decodes(n, o)
  <2> HIDE DEF plan, Decodes
  <2> QED BY <1>0
<1>2. PICK o : Decodes(n, o)
  <2> HIDE DEF plan, Decodes
  <2> QED BY <1>1
<1>3. ASSUME NEW i \in plan(n) PROVE KeptSlot(After(i, part(n)[i], o[i]), TRUE)
  <2>1. /\ i \in Slot /\ slots[i].stream # NONE /\ KeptSlot(slots[i], touched)
        /\ part(n)[i] = IF i \in Filling THEN n[i] ELSE 0
    BY DEF Decoding, Filling, Active, Kepts
  <2>2. /\ i \in Filling => /\ n[i] \in Nat /\ n[i] <= slots[i].todo
                            /\ slots[i].pending = FALSE
        /\ slots[i].todo \in Nat
    BY <2>1, SchedulerAssumption DEF Chunks, Filling, KeptSlot
  <2>3. /\ part(n)[i] \in Nat /\ part(n)[i] <= slots[i].todo
        /\ slots[i].pending => part(n)[i] = 0
    BY <2>1, <2>2
  <2> HIDE DEF plan, part
  <2> QED BY <2>1, <2>3, PartIsKept
<1>4. Kepts(slots', touched')
  <2>1. ASSUME NEW i \in Slot PROVE KeptSlot(slots'[i], touched')
    <3>1. CASE i \in plan(n)
      <4>1. touched' = TRUE /\ slots'[i] = After(i, part(n)[i], o[i])
        BY <1>2, <3>1
      <4> QED BY <1>3, <3>1, <4>1
    <3>2. CASE i \notin plan(n)
      <4>1. slots'[i] = slots[i] /\ (touched => touched')
        BY <1>2, <3>2
      <4> QED BY <4>1 DEF Kepts, KeptSlot
    <3> QED BY <3>1, <3>2
  <2>2. slots' = [i \in Slot |-> slots'[i]]
    <3> HIDE DEF plan, part
    <3> QED BY <1>2
  <2> QED BY <2>1, <2>2 DEF Kepts
<1> QED BY <1>4 DEF Decode

LEMMA FitKeeps ==
  ASSUME Kepts(slots, touched), NEW s, NEW i \in Slot, NEW need,
         NEW r \in Rightsized(s, i, need), NEW f \in Fits(s, i, need, r)
  PROVE  Kepts(f.slots, touched \/ f.made)
<1>1. Kepts(r.slots, touched \/ r.made)
  <2>1. CASE r.slots = slots
    BY <2>1 DEF Kepts, KeptSlot
  <2>2. ASSUME NEW kv, \A j \in Slot : kv[j] \in Nat, r.made = TRUE,
               r.slots = [j \in Slot |-> Idle(kv[j])]
        PROVE  Kepts(r.slots, touched \/ r.made)
    <3>1. \A j \in Slot : KeptSlot(Idle(kv[j]), touched \/ r.made)
      BY <2>2, IdleIsKept
    <3> QED BY <2>2, <3>1 DEF Kepts
  <2>3. \A kv \in Kept(s, i) : \A j \in Slot : kv[j] \in Nat
    BY SchedulerAssumption DEF Kept
  <2>4. Resizes(s, i, need, r)
    BY RightsizedIs
  <2>5. CASE r.made = TRUE
    <3>1. \E kv : (\A j \in Slot : kv[j] \in Nat) /\ r.slots = [j \in Slot |-> Idle(kv[j])]
      BY <2>3, <2>4, <2>5 DEF Resizes
    <3> QED BY <2>2, <2>5, <3>1
  <2> QED BY <2>1, <2>4, <2>5 DEF Resizes
<1>2. CASE f.slots = r.slots /\ f.made = r.made
  BY <1>1, <1>2
<1>3. ASSUME NEW D, f.slots = Dropped(D, r.slots), f.made = r.made
      PROVE  Kepts(f.slots, touched \/ f.made)
  BY <1>1, <1>3, KeptsDropped
<1>4. ASSUME NEW sizes, NEW g \in Growths(sizes),
             f.slots = AfterGrowth(g), f.made = (r.made \/ g.ok)
      PROVE  Kepts(f.slots, touched \/ f.made)
  <2>1. Kepts(f.slots, touched \/ g.ok)
    BY <1>4, KeptsGrown
  <2> QED BY <1>4, <2>1, KeptsLater
<1>5. Leaves(r, f)
  BY FitLeaves
<1> QED BY <1>2, <1>3, <1>4, <1>5 DEF Leaves

LEMMA AssignedIsKept ==
  ASSUME NEW s \in Stream, NEW need, NEW k \in Nat, k < Prompt[s], NEW t, k > 0 => t
  PROVE  KeptSlot(Assigned(s, need, k), t)
<1> DEFINE r == Assigned(s, need, k)
<1>1. /\ {"stream", "kv", "todo", "pending"} \subseteq DOMAIN r
      /\ r.kv = k /\ r.todo = Prompt[s] - k /\ r.pending = FALSE
  BY DEF Assigned, Idle
<1>2. Prompt[s] - k \in Nat \ {0}
  BY SchedulerAssumption
<1> QED BY <1>1, <1>2 DEF KeptSlot

LEMMA AdmitKeeps ==
  ASSUME Kepts(slots, touched), NEW s \in Stream, NEW i \in Slot, AdmitNext(s, i)
  PROVE  Kepts(slots', touched') /\ (foreign' => foreign) /\ UNCHANGED dirty
<1> DEFINE Leads(f, need) ==
      /\ touched' = (touched \/ f.made) /\ foreign' = (foreign /\ ~f.made)
      /\ \/ slots' = f.slots
         \/ \E k \in 0 .. Least(f.slots[i].kv, Prompt[s] - 1) :
               slots' = [f.slots EXCEPT ![i] = Assigned(s, need, k)]
<1>a. PICK need \in Needs(s, i) :
        \E r \in Rightsized(s, i, need) : \E f \in Fits(s, i, need, r) : Leads(f, need)
  BY DEF AdmitNext
<1>b. PICK r \in Rightsized(s, i, need) : \E f \in Fits(s, i, need, r) : Leads(f, need)
  BY <1>a
<1>1. PICK f \in Fits(s, i, need, r) : Leads(f, need)
  BY <1>b
<1>2. Kepts(f.slots, touched')
  <2>1. Kepts(f.slots, touched \/ f.made)
    BY FitKeeps
  <2> QED BY <1>1, <2>1
<1>3. ASSUME NEW k \in 0 .. Least(f.slots[i].kv, Prompt[s] - 1),
             slots' = [f.slots EXCEPT ![i] = Assigned(s, need, k)]
      PROVE  Kepts(slots', touched')
  <2>1. f.slots[i].kv \in Nat /\ (f.slots[i].kv > 0 => touched')
    BY <1>2 DEF Kepts, KeptSlot
  <2>2. k \in Nat /\ k < Prompt[s] /\ k <= f.slots[i].kv
    BY <2>1, SchedulerAssumption DEF Least
  <2>3. KeptSlot(Assigned(s, need, k), touched')
    BY <2>1, <2>2, AssignedIsKept
  <2> QED BY <1>2, <1>3, <2>3 DEF Kepts
<1>4. Kepts(slots', touched')
  BY <1>1, <1>2, <1>3
<1> QED BY <1>1, <1>4 DEF AdmitNext

LEMMA InitCached == Init => CacheInv
BY EmptyIsKept, IdleIsIdle DEF Init, CacheInv, Kepts, Active

LEMMA StepCached == AloneInv /\ CacheInv /\ [Next]_vars => CacheInv'
<1> SUFFICES ASSUME Shaped, SectionAlone, CacheInv, [Next]_vars PROVE CacheInv'
  BY DEF AloneInv
<1>0. Kepts(slots, touched)
  BY DEF CacheInv
\* A step that takes replies away, outside an admission and with dirty alone.
<1>a. ASSUME Kepts(slots', touched'), Fewer(slots'), foreign' => foreign, UNCHANGED dirty,
             pc' = "admit" => pc = "admit"
      PROVE  CacheInv'
  <2>1. Active' # {} => Active # {}
    BY <1>a DEF Fewer, Frees, Active
  <2> QED BY <1>a, <2>1 DEF CacheInv
<1>1. CASE \E i \in Slot : Extend(i)
  <2>1. Fewer(slots')
    BY <1>1, ExtendEnds DEF Fewer
  <2> QED BY <1>0, <1>1, <1>a, <2>1, ExtendKeeps
<1>2. CASE Decode
  <2>1. Fewer(slots')
    BY <1>2, DecodeEnds DEF Fewer
  <2> QED BY <1>0, <1>2, <1>a, <2>1, DecodeKeeps
<1>3. CASE Reap
  <2>1. Fewer(slots')
    BY <1>3, ReapFrees
  <2>2. \/ UNCHANGED slots
        \/ \E over : slots' = [j \in Slot |-> IF j \in over THEN Idle(slots[j].kv) ELSE slots[j]]
        \/ slots' = [j \in Slot |-> Idle(slots[j].kv)]
    BY <1>3 DEF Reap, IdleReap, BeginStep, Abort
  <2>4. \A j \in Slot : KeptSlot(Idle(slots[j].kv), touched)
    BY <1>0, IdleIsKept DEF Kepts, KeptSlot
  <2>5. Kepts(slots', touched)
    BY <1>0, <2>2, <2>4 DEF Kepts
  <2>6. UNCHANGED <<touched, foreign, dirty>> /\ (pc' = "admit" => pc = "admit")
    BY <1>3 DEF Reap, IdleReap, BeginStep, Abort
  <2> QED BY <1>a, <2>1, <2>5, <2>6
<1>4. CASE BeginAdmission
  <2>1. CASE pc' = "decode" /\ UNCHANGED <<slots, dirty, touched, foreign>>
    BY <2>1 DEF CacheInv, Active
  <2>2. CASE /\ slots' = [i \in Slot |-> IF dirty THEN [slots[i] EXCEPT !.kv = 0] ELSE slots[i]]
             /\ dirty' = FALSE /\ touched' = (touched \/ dirty)
             /\ foreign' = (foreign /\ ~dirty)
    <3>1. ASSUME NEW i \in Slot PROVE KeptSlot([slots[i] EXCEPT !.kv = 0], touched')
      <4> DEFINE r == [slots[i] EXCEPT !.kv = 0]
      <4>1. KeptSlot(slots[i], touched)
        BY <1>0 DEF Kepts
      <4>2. /\ DOMAIN r = DOMAIN slots[i] /\ r.kv = 0 /\ r.stream = slots[i].stream
            /\ r.todo = slots[i].todo /\ r.pending = slots[i].pending
        BY <4>1 DEF KeptSlot
      <4> HIDE DEF r
      <4>3. KeptSlot(r, touched')
        BY <4>1, <4>2 DEF KeptSlot
      <4> QED BY <4>3 DEF r
    <3>2. Kepts(slots, touched')
      <4>1. touched => touched'
        BY <2>2
      <4> QED BY <1>0, <4>1, KeptsLater
    <3>3. Kepts(slots', touched')
      BY <2>2, <3>1, <3>2 DEF Kepts
    <3> QED BY <2>2, <3>3 DEF CacheInv
  <2> QED BY <1>4, <2>1, <2>2 DEF BeginAdmission
<1>5. CASE EnterScope \/ LeaveScope \/ AdmissionOver \/ CloseDown \/ StepFails
  <2>1. UNCHANGED <<slots, touched, dirty, foreign>> /\ pc' # "admit"
    BY <1>5 DEF EnterScope, LeaveScope, AdmissionOver, CloseDown, StepFails
  <2> QED BY <2>1 DEF CacheInv, Active
<1>6. CASE \E s \in Stream, i \in Slot : AdmitNext(s, i)
  <2>1. PICK s \in Stream, i \in Slot : AdmitNext(s, i)
    BY <1>6
  <2>2. Kepts(slots', touched') /\ (foreign' => foreign) /\ UNCHANGED dirty
    BY <1>0, <2>1, AdmitKeeps
  <2>3. ~dirty
    BY <2>1 DEF AdmitNext, CacheInv
  <2> QED BY <2>2, <2>3 DEF CacheInv
<1>7. CASE \E c \in Caller : ExclusiveEnter(c)
  <2>1. /\ slots' = [i \in Slot |-> Idle(0)] /\ UNCHANGED <<dirty, pc>>
        /\ (foreign' => foreign) /\ Active = {}
    BY <1>7 DEF ExclusiveEnter
  <2>2. Kepts(slots', touched')
    BY <2>1, EmptyIsKept DEF Kepts
  <2>3. Active' = {}
    BY <2>1, IdleIsIdle DEF Active
  <2> QED BY <2>1, <2>2, <2>3 DEF CacheInv
<1>8. CASE \E c \in Caller : ExclusiveLeave(c)
  <2>1. UNCHANGED <<slots, touched, pc>> /\ dirty' = TRUE
    BY <1>8 DEF ExclusiveLeave
  <2>2. Active = {} /\ pc # "admit"
    BY <1>8 DEF ExclusiveLeave, At, SectionAlone, Held, InScope
  <2> QED BY <2>1, <2>2 DEF CacheInv, Active
<1>9. CASE \/ \E s \in Stream : Submit(s) \/ CancelReply(s)
           \/ \E c \in Caller : ExclusiveAsk(c) \/ ExclusiveGiveUp(c)
           \/ Stop \/ Close \/ UNCHANGED vars
  <2>1. UNCHANGED <<slots, touched, dirty, foreign>> /\ (pc' = "admit" => pc = "admit")
    BY <1>9 DEF Submit, CancelReply, ExclusiveAsk, ExclusiveGiveUp, Stop, Close, vars, sched
  <2> QED BY <2>1 DEF CacheInv, Active
<1> QED
  BY <1>1, <1>2, <1>3, <1>4, <1>5, <1>6, <1>7, <1>8, <1>9 DEF Next, Thread, Reap

\* When a reply runs the cache holds what the slots record, each running reply
\* has prompt left or a token to decode and never both, and a cache that holds
\* anything of a slot is emptied for the next section (RecordIsCache).
THEOREM RecordsAreTrue == Spec => []RecordIsCache
<1>1. Init => CacheInv
  BY InitCached
<1>2. AloneInv /\ CacheInv /\ [Next]_vars => CacheInv'
  BY StepCached
<1>3. CacheInv => RecordIsCache
  BY DEF CacheInv, Kepts, KeptSlot, RecordIsCache, Active
<1> QED BY <1>1, <1>2, <1>3, AlwaysAlone, PTL DEF Spec
-----------------------------------------------------------------------------
(* Totals.  A total over slots is the number of their cells, so that totals  *)
(* are compared and split as sets are, without counting slot by slot.        *)

Counts(f, S) == \A j \in S : f[j] \in Nat

\* The cells of one slot.
LEMMA CellsOfOne ==
  ASSUME NEW j, NEW n \in Nat
  PROVE  IsFiniteSet({j} \X (1 .. n)) /\ Cardinality({j} \X (1 .. n)) = n
<1>1. IsFiniteSet(1 .. n) /\ Cardinality(1 .. n) = n
  BY FS_Interval
<1> DEFINE c == [k \in 1 .. n |-> <<j, k>>]
<1>2. c \in Bijection(1 .. n, {j} \X (1 .. n))
  BY DEF Bijection, Injection, Surjection, IsInjective
<1> QED BY <1>1, <1>2, FS_Bijection DEF ExistsBijection

LEMMA CellsFinite ==
  ASSUME NEW S, IsFiniteSet(S), NEW f, Counts(f, S)
  PROVE  IsFiniteSet(CellsOf(f, S)) /\ Sum(f, S) \in Nat
<1> DEFINE T == {{j} \X (1 .. f[j]) : j \in S}
           c == [j \in S |-> {j} \X (1 .. f[j])]
<1>1. c \in Surjection(S, T)
  BY DEF Surjection
<1>2. IsFiniteSet(T)
  <2> HIDE DEF T, c
  <2> QED BY <1>1, FS_Surjection
<1>3. \A x \in T : IsFiniteSet(x)
  <2> SUFFICES ASSUME NEW j \in S PROVE IsFiniteSet({j} \X (1 .. f[j]))
    OBVIOUS
  <2> QED BY CellsOfOne DEF Counts
<1>4. IsFiniteSet(CellsOf(f, S))
  <2> HIDE DEF T
  <2>1. IsFiniteSet(UNION T)
    BY <1>2, <1>3, FS_UNION
  <2> QED BY <2>1 DEF T, CellsOf
<1> QED BY <1>4, FS_CardinalityType DEF Sum

LEMMA SumNone == ASSUME NEW f PROVE Sum(f, {}) = 0
BY FS_EmptySet DEF Sum, CellsOf

\* A total is no more than one over more slots with more cells each.
LEMMA SumLeq ==
  ASSUME NEW T, IsFiniteSet(T), NEW S \in SUBSET T, NEW f, NEW g, Counts(f, S), Counts(g, T),
         \A j \in S : f[j] <= g[j]
  PROVE  Sum(f, S) <= Sum(g, T)
<1>1. CellsOf(f, S) \subseteq CellsOf(g, T)
  <2> SUFFICES ASSUME NEW j \in S, NEW k \in 1 .. f[j] PROVE k \in 1 .. g[j]
    BY DEF CellsOf
  <2> QED BY DEF Counts
<1> QED BY <1>1, CellsFinite, FS_Subset DEF Sum

LEMMA SumSame ==
  ASSUME NEW S, NEW f, NEW g, \A j \in S : f[j] = g[j]
  PROVE  Sum(f, S) = Sum(g, S)
<1>1. CellsOf(f, S) = CellsOf(g, S)
  BY DEF CellsOf
<1> QED BY <1>1 DEF Sum

LEMMA SumParts ==
  ASSUME NEW S, IsFiniteSet(S), NEW T, IsFiniteSet(T), S \cap T = {},
         NEW f, Counts(f, S), Counts(f, T)
  PROVE  Sum(f, S \cup T) = Sum(f, S) + Sum(f, T)
<1>1. CellsOf(f, S \cup T) = CellsOf(f, S) \cup CellsOf(f, T)
  BY DEF CellsOf
<1>2. CellsOf(f, S) \cap CellsOf(f, T) = {}
  BY DEF CellsOf
<1>3. /\ IsFiniteSet(CellsOf(f, S)) /\ IsFiniteSet(CellsOf(f, T))
      /\ Sum(f, S) \in Nat /\ Sum(f, T) \in Nat
  BY CellsFinite
<1>4. Cardinality(CellsOf(f, S) \cup CellsOf(f, T))
        = Sum(f, S) + Sum(f, T) - Cardinality(CellsOf(f, S) \cap CellsOf(f, T))
  BY <1>3, FS_Union DEF Sum
<1>5. Sum(f, S \cup T) = Sum(f, S) + Sum(f, T) - 0
  BY <1>1, <1>2, <1>4, FS_EmptySet DEF Sum
<1> QED BY <1>3, <1>5

LEMMA SumOne ==
  ASSUME NEW f, NEW i, f[i] \in Nat
  PROVE  Sum(f, {i}) = f[i]
<1>1. CellsOf(f, {i}) = {i} \X (1 .. f[i])
  BY DEF CellsOf
<1> QED BY <1>1, CellsOfOne DEF Sum

LEMMA SumBut ==
  ASSUME NEW S, IsFiniteSet(S), NEW f, Counts(f, S), NEW i \in S
  PROVE  Sum(f, S) = Sum(f, S \ {i}) + f[i]
<1>1. S = (S \ {i}) \cup {i} /\ (S \ {i}) \cap {i} = {}
  OBVIOUS
<1>2. IsFiniteSet(S \ {i}) /\ IsFiniteSet({i})
  BY FS_RemoveElement, FS_Singleton
<1>3. Sum(f, (S \ {i}) \cup {i}) = Sum(f, S \ {i}) + Sum(f, {i})
  BY <1>2, SumParts DEF Counts
<1> QED BY <1>1, <1>3, SumOne DEF Counts

\* Adding two totals.
LEMMA SumPlus ==
  ASSUME NEW S, IsFiniteSet(S), NEW f, NEW g, NEW h, Counts(f, S), Counts(g, S),
         \A j \in S : h[j] = f[j] + g[j]
  PROVE  Sum(h, S) = Sum(f, S) + Sum(g, S)
<1> DEFINE A == CellsOf(h, S) \ CellsOf(f, S)
           c == [x \in CellsOf(g, S) |-> <<x[1], f[x[1]] + x[2]>>]
<1>1. Counts(h, S) /\ CellsOf(f, S) \subseteq CellsOf(h, S)
  <2>1. Counts(h, S)
    BY DEF Counts
  <2> SUFFICES ASSUME NEW j \in S, NEW k \in 1 .. f[j] PROVE k \in 1 .. h[j]
    BY <2>1 DEF CellsOf
  <2> QED BY DEF Counts
<1>2. A = UNION {{j} \X (f[j] + 1 .. f[j] + g[j]) : j \in S}
  <2>1. ASSUME NEW j \in S, NEW k \in Int
        PROVE  k \in (1 .. h[j]) /\ k \notin 1 .. f[j] <=> k \in f[j] + 1 .. f[j] + g[j]
    BY DEF Counts
  <2>2. \A x : x \in CellsOf(h, S) <=> \E j \in S : \E k \in 1 .. h[j] : x = <<j, k>>
    BY DEF CellsOf
  <2>3. \A x : x \in CellsOf(f, S) <=> \E j \in S : \E k \in 1 .. f[j] : x = <<j, k>>
    BY DEF CellsOf
  <2>4. \A x : x \in UNION {{j} \X (f[j] + 1 .. f[j] + g[j]) : j \in S}
                <=> \E j \in S : \E k \in f[j] + 1 .. f[j] + g[j] : x = <<j, k>>
    OBVIOUS
  <2>5. ASSUME NEW x
        PROVE  x \in A <=> \E j \in S : \E k \in f[j] + 1 .. f[j] + g[j] : x = <<j, k>>
    <3>1. ASSUME NEW j \in S, NEW k \in 1 .. h[j], x = <<j, k>>, x \notin CellsOf(f, S)
          PROVE  k \in f[j] + 1 .. f[j] + g[j]
      BY <2>1, <2>3, <3>1
    <3>2. ASSUME NEW j \in S, NEW k \in f[j] + 1 .. f[j] + g[j], x = <<j, k>>
          PROVE  x \in CellsOf(h, S) /\ x \notin CellsOf(f, S)
      <4>1. k \in Int /\ k \in 1 .. h[j] /\ k \notin 1 .. f[j]
        BY <2>1 DEF Counts
      <4>2. \A i, m : x = <<i, m>> => i = j /\ m = k
        BY <3>2
      <4> QED BY <2>2, <2>3, <3>2, <4>1, <4>2
    <3> QED BY <2>2, <3>1, <3>2
  <2> QED BY <2>4, <2>5
<1>3. c \in Bijection(CellsOf(g, S), A)
  <2>1. \A x : x \in CellsOf(g, S) <=> \E j \in S : \E k \in 1 .. g[j] : x = <<j, k>>
    BY DEF CellsOf
  <2>2. \A x : x \in A <=> \E j \in S : \E k \in f[j] + 1 .. f[j] + g[j] : x = <<j, k>>
    BY <1>2
  <2> HIDE DEF A
  <2>3. ASSUME NEW x \in CellsOf(g, S) PROVE c[x] \in A
    <3>1. PICK j \in S, k \in Nat : k \in 1 .. g[j] /\ x = <<j, k>>
      BY <2>1 DEF Counts
    <3>2. c[x] = <<j, f[j] + k>> /\ f[j] + k \in f[j] + 1 .. f[j] + g[j]
      BY <3>1 DEF Counts
    <3> QED BY <2>2, <3>2
  <2>4. ASSUME NEW x \in CellsOf(g, S), NEW y \in CellsOf(g, S), c[x] = c[y] PROVE x = y
    <3>1. PICK j \in S, k \in Nat : k \in 1 .. g[j] /\ x = <<j, k>>
      BY <2>1 DEF Counts
    <3>2. PICK i \in S, m \in Nat : m \in 1 .. g[i] /\ y = <<i, m>>
      BY <2>1 DEF Counts
    <3>3. <<j, f[j] + k>> = <<i, f[i] + m>>
      BY <2>4, <3>1, <3>2
    <3> QED BY <3>1, <3>2, <3>3 DEF Counts
  <2>5. ASSUME NEW y \in A PROVE \E x \in CellsOf(g, S) : c[x] = y
    <3>1. PICK j \in S, m \in Int : m \in f[j] + 1 .. f[j] + g[j] /\ y = <<j, m>>
      BY <2>2 DEF Counts
    <3>2. m - f[j] \in 1 .. g[j] /\ f[j] + (m - f[j]) = m
      BY <3>1 DEF Counts
    <3>3. <<j, m - f[j]>> \in CellsOf(g, S)
      BY <2>1, <3>2
    <3>4. c[<<j, m - f[j]>>] = y
      BY <3>1, <3>2, <3>3
    <3> QED BY <3>3, <3>4
  <2>6. c \in [CellsOf(g, S) -> A]
    BY <2>3
  <2> HIDE DEF c
  <2> QED BY <2>4, <2>5, <2>6 DEF Bijection, Injection, Surjection, IsInjective
<1>4. Cardinality(A) = Sum(g, S)
  BY <1>3, CellsFinite, FS_Bijection DEF ExistsBijection, Sum
<1>5. IsFiniteSet(CellsOf(h, S)) /\ IsFiniteSet(CellsOf(f, S))
  BY <1>1, CellsFinite
<1>6. CellsOf(h, S) \cap CellsOf(f, S) = CellsOf(f, S)
  BY <1>1
<1>7. Cardinality(A) = Cardinality(CellsOf(h, S)) - Cardinality(CellsOf(f, S))
  <2>1. Cardinality(CellsOf(h, S) \ CellsOf(f, S))
          = Cardinality(CellsOf(h, S)) - Cardinality(CellsOf(h, S) \cap CellsOf(f, S))
    BY <1>5, FS_Difference
  <2> QED BY <1>6, <2>1
<1> QED BY <1>4, <1>5, <1>7, FS_CardinalityType, CellsFinite DEF Sum
-----------------------------------------------------------------------------
\* A context is created as large as it is asked for, up to the ceiling.
LEMMA TargetIs ==
  ASSUME NEW n \in Nat
  PROVE  /\ Target(n) \in 0 .. Ceiling
         /\ n <= Ceiling => n <= Target(n)
         /\ n > Ceiling => Target(n) = Ceiling
<1> DEFINE q == (n + GrowBy - 1) \div GrowBy
           steps == q * GrowBy
<1>1. GrowBy \in Nat \ {0} /\ Base \in Nat /\ Ceiling \in Nat /\ Base <= Ceiling
  BY SchedulerAssumption
<1>2. n + GrowBy - 1 \in Nat
  BY <1>1
<1>3. q \in Nat /\ n + GrowBy - 1 < (q + 1) * GrowBy
  BY <1>1, <1>2
<1>4. steps \in Nat /\ (q + 1) * GrowBy = steps + GrowBy
  BY <1>1, <1>3
<1>5. steps >= n
  BY <1>1, <1>3, <1>4
<1>6. Target(n) = Least(IF steps < Base THEN Base ELSE steps, Ceiling)
  BY DEF Target
<1> HIDE DEF steps
<1> QED BY <1>1, <1>4, <1>5, <1>6 DEF Least
-----------------------------------------------------------------------------
(* Reservations.                                                           *)
(*                                                                         *)
(* RoomInv bounds two totals over all slots: what they take up, by the     *)
(* context, and what they may come to take up, by the ceiling.  A slot may *)
(* become lighter in both without more ado, which is all that a cancelled, *)
(* finished or lost reply, a dropped cache or a decoded batch does; one    *)
(* slot at a time becomes heavier, by an extension or an admission, and    *)
(* both look at the totals of the others first.                            *)

\* The cells a slot takes up, and those it may come to take up.
Weight(e)    == IF e.stream # NONE THEN e.reserve ELSE e.kv
Claim(e)     == IF e.stream = NONE THEN 0
                ELSE IF e.promise > e.reserve THEN e.promise ELSE e.reserve
Weights(sl)  == [j \in Slot |-> Weight(sl[j])]
Claims(sl)   == [j \in Slot |-> Claim(sl[j])]
Reserves(sl) == [j \in Slot |-> sl[j].reserve]

\* The fields of a slot, and what a reply has of its cells: those cached and those
\* its prompt still needs are reserved; it asks for more when the next token has
\* no cell, and waits only for cells it was not promised.
SlotFields == {"stream", "kv", "todo", "pending", "generated", "reserve", "promise", "extend",
               "seen", "order"}
Cells(e) ==
  /\ SlotFields \subseteq DOMAIN e
  /\ e.kv \in Nat /\ e.todo \in Nat /\ e.generated \in Nat /\ e.reserve \in Nat
  /\ e.promise \in Nat /\ e.pending \in BOOLEAN /\ e.extend \in BOOLEAN
  /\ e.stream \in Stream \cup {NONE} /\ (e.extend => e.stream # NONE)
Serves(e) ==
  e.stream # NONE =>
    /\ e.kv + e.todo <= e.reserve /\ e.reserve > 0
    /\ e.pending <=> e.todo = 0
    /\ e.extend => e.pending /\ e.kv = e.reserve
    /\ e.pending /\ ~e.extend => e.kv < e.reserve
    /\ e.seen # NONE => e.extend /\ e.promise <= e.reserve /\ e.seen[1] \in Nat
    \* Its tokens are counted.
    /\ e.kv + e.todo + (IF e.pending THEN 1 ELSE 0) = Prompt[e.stream] + e.generated
    /\ Budget[e.stream] > 0 => /\ e.generated < Budget[e.stream]
                               /\ Claim(e) >= Whole(e.stream)

\* Whichever paused replies one looks at, one of them saw more cells taken by
\* others than these have: the other ones that ran then.
Unstalled(sl) ==
  \A Q \in SUBSET {i \in Slot : sl[i].stream # NONE /\ sl[i].seen # NONE} :
    Q # {} => \E i \in Q : Sum(Reserves(sl), Q \ {i}) < sl[i].seen[1]

Sound(sl) == /\ sl = [j \in Slot |-> sl[j]]
             /\ \A j \in Slot : Cells(sl[j]) /\ Serves(sl[j])

TableInv(sl, c) == /\ Sound(sl) /\ Unstalled(sl)
                   /\ Sum(Weights(sl), Slot) <= c
                   /\ Sum(Claims(sl), Slot) <= Ceiling

RoomInv ==
  /\ TableInv(slots, cap)
  /\ cap \in 0 .. Ceiling
  /\ Held # {} => \A j \in Slot : slots[j].kv = 0
  /\ pc \in {"extend", "admit", "decode"} =>
       \A i \in Active \ toExtend : slots[i].extend => slots[i].seen # NONE
  /\ pc \in {"admit", "decode"} => toExtend = {}

\* Where tl differs from sl it takes up less, and pauses nobody.
Lighter(e, d) == /\ Weight(e) <= Weight(d) /\ Claim(e) <= Claim(d)
                 /\ e.stream # NONE /\ e.seen # NONE
                      => d.stream # NONE /\ d.seen = e.seen /\ d.reserve = e.reserve

LEMMA IdleServes ==
  ASSUME NEW kv \in Nat
  PROVE  /\ Cells(Idle(kv)) /\ Serves(Idle(kv))
         /\ Idle(kv).stream = NONE /\ Idle(kv).kv = kv
         /\ Weight(Idle(kv)) = kv /\ Claim(Idle(kv)) = 0
<1>1. Cells(Idle(kv)) /\ Idle(kv).stream = NONE /\ Idle(kv).kv = kv
  BY DEF Idle, Cells, SlotFields
<1> QED BY <1>1 DEF Serves, Weight, Claim

LEMMA IdleIsLighter ==
  ASSUME NEW kv \in Nat, NEW d, Cells(d), kv <= Weight(d)
  PROVE  Lighter(Idle(kv), d)
<1>1. Claim(d) \in Nat
  BY DEF Claim, Cells
<1> QED BY <1>1, IdleServes DEF Lighter

LEMMA SameIsLighter ==
  ASSUME NEW e, Cells(e)
  PROVE  Lighter(e, e)
<1>1. Claim(e) \in Nat /\ Weight(e) \in Nat
  BY DEF Claim, Cells, Weight
<1> QED BY <1>1 DEF Lighter

LEMMA TotalsCount ==
  ASSUME NEW sl, Sound(sl), NEW S \in SUBSET Slot
  PROVE  /\ Counts(Weights(sl), S) /\ Counts(Claims(sl), S) /\ Counts(Reserves(sl), S)
         /\ IsFiniteSet(S)
         /\ Sum(Weights(sl), S) \in Nat /\ Sum(Claims(sl), S) \in Nat
         /\ Sum(Reserves(sl), S) \in Nat
<1>1. IsFiniteSet(S)
  BY SchedulerAssumption, FS_Subset
<1>2. \A j \in S : /\ Weights(sl)[j] \in Nat /\ Claims(sl)[j] \in Nat
                   /\ Reserves(sl)[j] \in Nat
  BY DEF Sound, Cells, Weights, Claims, Reserves, Weight, Claim
<1>3. Counts(Weights(sl), S) /\ Counts(Claims(sl), S) /\ Counts(Reserves(sl), S)
  BY <1>2 DEF Counts
<1> QED BY <1>1, <1>3, CellsFinite

\* A table that differs by lighter slots only keeps what holds of the other one.
LEMMA LighterTable ==
  ASSUME NEW sl, NEW c, TableInv(sl, c), c \in Nat, NEW tl, Sound(tl),
         \A j \in Slot : Lighter(tl[j], sl[j])
  PROVE  TableInv(tl, c)
<1>1. Sound(sl) /\ IsFiniteSet(Slot)
  BY SchedulerAssumption DEF TableInv
<1>2. Sum(Weights(tl), Slot) <= c
  <2>1. \A j \in Slot : Weights(tl)[j] <= Weights(sl)[j]
    BY DEF Weights, Lighter
  <2>2. Sum(Weights(tl), Slot) <= Sum(Weights(sl), Slot)
    BY <1>1, <2>1, TotalsCount, SumLeq
  <2> QED BY <1>1, <2>2, TotalsCount DEF TableInv
<1>3. Sum(Claims(tl), Slot) <= Ceiling
  <2>1. \A j \in Slot : Claims(tl)[j] <= Claims(sl)[j]
    BY DEF Claims, Lighter
  <2>2. Sum(Claims(tl), Slot) <= Sum(Claims(sl), Slot)
    BY <1>1, <2>1, TotalsCount, SumLeq
  <2> QED BY <1>1, <2>2, TotalsCount, SchedulerAssumption DEF TableInv
<1>4. Unstalled(tl)
  <2> SUFFICES ASSUME NEW Q \in SUBSET {i \in Slot : tl[i].stream # NONE /\ tl[i].seen # NONE},
                      Q # {}
               PROVE  \E i \in Q : Sum(Reserves(tl), Q \ {i}) < tl[i].seen[1]
    BY DEF Unstalled
  <2>1. \A i \in Q : /\ i \in Slot /\ sl[i].stream # NONE
                     /\ sl[i].seen = tl[i].seen /\ sl[i].reserve = tl[i].reserve
    BY DEF Lighter
  <2>2. PICK i \in Q : Sum(Reserves(sl), Q \ {i}) < sl[i].seen[1]
    <3>1. Q \in SUBSET {i \in Slot : sl[i].stream # NONE /\ sl[i].seen # NONE}
      BY <2>1
    <3> QED BY <3>1 DEF TableInv, Unstalled
  <2>3. Sum(Reserves(tl), Q \ {i}) = Sum(Reserves(sl), Q \ {i})
    <3>1. \A j \in Q \ {i} : Reserves(tl)[j] = Reserves(sl)[j]
      BY <2>1 DEF Reserves
    <3> QED BY <3>1, SumSame
  <2> QED BY <2>1, <2>2, <2>3
<1> QED BY <1>2, <1>3, <1>4 DEF TableInv
-----------------------------------------------------------------------------
(* What the totals of the code are in the table. *)

LEMMA SumZero ==
  ASSUME NEW S, NEW f, \A j \in S : f[j] = 0
  PROVE  Sum(f, S) = 0
<1>1. CellsOf(f, S) = {}
  BY DEF CellsOf
<1> QED BY <1>1, FS_EmptySet DEF Sum

\* A total over the slots but i, when the slots of A are told from the rest.
LEMMA SumApart ==
  ASSUME NEW f, Counts(f, Slot), NEW i \in Slot, NEW A \in SUBSET Slot
  PROVE  Sum(f, Slot \ {i}) = Sum(f, A \ {i}) + Sum(f, (Slot \ A) \ {i})
<1>1. /\ IsFiniteSet(A \ {i}) /\ IsFiniteSet((Slot \ A) \ {i})
      /\ (A \ {i}) \cap ((Slot \ A) \ {i}) = {}
      /\ (A \ {i}) \cup ((Slot \ A) \ {i}) = Slot \ {i}
  <2>1. A \ {i} \in SUBSET Slot /\ (Slot \ A) \ {i} \in SUBSET Slot
    OBVIOUS
  <2> QED BY <2>1, SchedulerAssumption, FS_Subset
<1>2. Counts(f, A \ {i}) /\ Counts(f, (Slot \ A) \ {i})
  BY DEF Counts
<1>3. Sum(f, (A \ {i}) \cup ((Slot \ A) \ {i})) = Sum(f, A \ {i}) + Sum(f, (Slot \ A) \ {i})
  BY <1>1, <1>2, SumParts
<1> QED BY <1>1, <1>3

Serving(sl) == {j \in Slot : sl[j].stream # NONE}

\* The slots that serve a reply hold their reservations, the others their caches.
LEMMA WeightsAre ==
  ASSUME NEW sl, Sound(sl)
  PROVE  Sum(Weights(sl), Slot) = Sum(Reserves(sl), Serving(sl)) + CellsIn(Slot \ Serving(sl), sl)
<1> DEFINE A == Serving(sl)
<1>1. /\ A \in SUBSET Slot /\ Slot \ A \in SUBSET Slot /\ A \cap (Slot \ A) = {}
      /\ A \cup (Slot \ A) = Slot
  BY DEF Serving
<1>2. Sum(Weights(sl), A \cup (Slot \ A)) = Sum(Weights(sl), A) + Sum(Weights(sl), Slot \ A)
  <2> HIDE DEF A
  <2> QED BY <1>1, TotalsCount, SumParts
<1>3. Sum(Weights(sl), A) = Sum(Reserves(sl), A)
  <2>1. \A j \in A : Weights(sl)[j] = Reserves(sl)[j]
    BY DEF Weights, Reserves, Weight, Serving
  <2> QED BY <2>1, SumSame
<1>4. Sum(Weights(sl), Slot \ A) = CellsIn(Slot \ A, sl)
  <2>1. \A j \in Slot \ A : Weights(sl)[j] = [k \in Slot |-> sl[k].kv][j]
    BY DEF Weights, Weight, Serving
  <2> QED BY <2>1, SumSame DEF CellsIn
<1> QED BY <1>1, <1>2, <1>3, <1>4

Owed == [j \in Slot |-> IF slots[j].promise > slots[j].reserve
                        THEN slots[j].promise - slots[j].reserve ELSE 0]

LEMMA OwedCounts ==
  ASSUME Sound(slots), NEW S \in SUBSET Slot
  PROVE  Counts(Owed, S) /\ Sum(Owed, S) \in Nat
<1>1. Counts(Owed, S)
  BY DEF Sound, Cells, Owed, Counts
<1> QED BY <1>1, TotalsCount, CellsFinite

\* The cells reserved and those owed are what the replies may come to take up.
LEMMA ClaimsAre ==
  ASSUME Sound(slots), NEW S \in SUBSET Slot, Slot \ Active \subseteq S
  PROVE  /\ OwedBut(S) = Sum(Owed, Slot \ S)
         /\ Sum(Claims(slots), Slot \ S) = Sum(Reserves(slots), Slot \ S) + OwedBut(S)
<1>1. Active \ S = Slot \ S
  BY DEF Active
<1>2. OwedBut(S) = Sum(Owed, Slot \ S)
  BY <1>1 DEF OwedBut, Owed
<1>3. Sum(Claims(slots), Slot \ S) = Sum(Reserves(slots), Slot \ S) + Sum(Owed, Slot \ S)
  <2>1. \A j \in Slot \ S : Claims(slots)[j] = Reserves(slots)[j] + Owed[j]
    BY DEF Claims, Claim, Reserves, Owed, Sound, Cells, Active
  <2>2. Slot \ S \in SUBSET Slot
    OBVIOUS
  <2> HIDE DEF Owed
  <2> QED BY <2>1, <2>2, TotalsCount, OwedCounts, SumPlus
<1> QED BY <1>2, <1>3

LEMMA IdleClaimNothing ==
  ASSUME NEW sl, NEW S, S \cap Serving(sl) = {}, S \subseteq Slot
  PROVE  Sum(Claims(sl), S) = 0
BY SumZero DEF Claims, Claim, Serving

LEMMA CommittedIs == Committed = Sum(Reserves(slots), Active)
BY DEF Committed, Reserves

\* All that is claimed is reserved or owed.
LEMMA AllClaims ==
  ASSUME Sound(slots)
  PROVE  /\ Sum(Claims(slots), Slot) = Committed + OwedBut({})
         /\ Committed \in Nat /\ OwedBut({}) \in Nat
<1>1. /\ Active \in SUBSET Slot /\ Slot \ Active \in SUBSET Slot
      /\ Active \cap (Slot \ Active) = {} /\ Active \cup (Slot \ Active) = Slot
      /\ Slot \ (Slot \ Active) = Active
  BY DEF Active
<1>2. Sum(Claims(slots), Slot) = Sum(Claims(slots), Active) + Sum(Claims(slots), Slot \ Active)
  <2>1. Sum(Claims(slots), Active \cup (Slot \ Active))
           = Sum(Claims(slots), Active) + Sum(Claims(slots), Slot \ Active)
    BY <1>1, TotalsCount, SumParts
  <2> QED BY <1>1, <2>1
<1>3. Sum(Claims(slots), Slot \ Active) = 0
  BY IdleClaimNothing DEF Serving, Active
<1>4. Sum(Claims(slots), Active) = Sum(Reserves(slots), Active) + OwedBut(Slot \ Active)
  BY <1>1, ClaimsAre
<1>5. OwedBut(Slot \ Active) = OwedBut({})
  BY <1>1 DEF OwedBut
<1>6. OwedBut({}) = Sum(Owed, Active)
  BY DEF OwedBut, Owed
<1> QED BY <1>1, <1>2, <1>3, <1>4, <1>5, <1>6, TotalsCount, OwedCounts, CommittedIs

\* The same without the reply in slot i.
LEMMA OtherClaims ==
  ASSUME Sound(slots), NEW i \in Active
  PROVE  /\ Committed - slots[i].reserve = Sum(Reserves(slots), Active \ {i})
         /\ Sum(Claims(slots), Slot \ {i}) = Sum(Reserves(slots), Active \ {i}) + OwedBut({i})
         /\ Sum(Reserves(slots), Active \ {i}) \in Nat /\ OwedBut({i}) \in Nat
<1>1. /\ i \in Slot /\ Active \in SUBSET Slot /\ Active \ {i} \in SUBSET Slot
      /\ Slot \ ((Slot \ Active) \cup {i}) = Active \ {i}
  BY DEF Active
<1>2. Sum(Reserves(slots), Active) = Sum(Reserves(slots), Active \ {i}) + Reserves(slots)[i]
  BY <1>1, TotalsCount, SumBut
<1>3. Reserves(slots)[i] = slots[i].reserve /\ slots[i].reserve \in Nat
  BY <1>1 DEF Reserves, Sound, Cells
<1>4. Sum(Claims(slots), Slot \ {i})
        = Sum(Claims(slots), Active \ {i}) + Sum(Claims(slots), (Slot \ Active) \ {i})
  BY <1>1, TotalsCount, SumApart
<1>5. Sum(Claims(slots), (Slot \ Active) \ {i}) = 0
  BY IdleClaimNothing DEF Serving, Active
<1>6. /\ OwedBut((Slot \ Active) \cup {i}) = Sum(Owed, Active \ {i})
      /\ Sum(Claims(slots), Active \ {i})
           = Sum(Reserves(slots), Active \ {i}) + OwedBut((Slot \ Active) \cup {i})
  <2>1. (Slot \ Active) \cup {i} \in SUBSET Slot /\ Slot \ Active \subseteq (Slot \ Active) \cup {i}
    BY <1>1
  <2> QED BY <1>1, <2>1, ClaimsAre
<1>7. OwedBut((Slot \ Active) \cup {i}) = OwedBut({i})
  <2>1. Active \ ((Slot \ Active) \cup {i}) = Active \ {i}
    BY <1>1
  <2> QED BY <2>1 DEF OwedBut
<1>8. /\ Sum(Reserves(slots), Active \ {i}) \in Nat /\ Sum(Owed, Active \ {i}) \in Nat
      /\ Sum(Claims(slots), Active \ {i}) \in Nat
  BY <1>1, TotalsCount, OwedCounts
<1> QED BY <1>2, <1>3, <1>4, <1>5, <1>6, <1>7, <1>8, CommittedIs
-----------------------------------------------------------------------------
\* The reservation of a reply that asked for more cells becomes n.
Longer(e, n) == [e EXCEPT !.reserve = n, !.extend = FALSE, !.seen = NONE]

LEMMA ExtendedServes ==
  ASSUME NEW e, Cells(e), Serves(e), e.stream # NONE, e.extend, NEW n \in Nat, n > e.reserve
  PROVE  /\ Cells(Longer(e, n)) /\ Serves(Longer(e, n)) /\ Longer(e, n).stream = e.stream
         /\ Longer(e, n).seen = NONE /\ Longer(e, n).extend = FALSE /\ Weight(Longer(e, n)) = n
         /\ Claim(Longer(e, n)) = IF e.promise > n THEN e.promise ELSE n
<1> DEFINE d == Longer(e, n)
<1>1. /\ DOMAIN d = DOMAIN e /\ d.reserve = n /\ d.extend = FALSE /\ d.seen = NONE
      /\ d.kv = e.kv /\ d.todo = e.todo /\ d.generated = e.generated /\ d.pending = e.pending
      /\ d.promise = e.promise /\ d.stream = e.stream
  BY DEF Cells, SlotFields, Longer
<1> HIDE DEF d
<1>2. Cells(d)
  BY <1>1 DEF Cells
<1>3. Claim(d) = (IF e.promise > n THEN e.promise ELSE n) /\ Weight(d) = n
  BY <1>1 DEF Claim, Weight
<1>4. Claim(d) >= Claim(e) /\ Claim(d) \in Nat /\ Claim(e) \in Nat
  BY <1>3 DEF Claim, Cells
<1>5. /\ d.kv + d.todo <= d.reserve /\ d.reserve > 0
      /\ d.pending <=> d.todo = 0
      /\ d.pending /\ ~d.extend => d.kv < d.reserve
      /\ d.kv + d.todo + (IF d.pending THEN 1 ELSE 0) = Prompt[d.stream] + d.generated
  BY <1>1 DEF Cells, Serves
<1>6. Budget[d.stream] > 0 => d.generated < Budget[d.stream] /\ Claim(d) >= Whole(d.stream)
  <2>1. Whole(e.stream) \in Nat
    BY SchedulerAssumption DEF Whole, Least, Cells
  <2> QED BY <1>1, <1>4, <2>1 DEF Serves
<1>7. Serves(d)
  BY <1>1, <1>5, <1>6 DEF Serves
<1> QED BY <1>1, <1>2, <1>3, <1>7 DEF d

\* Slot i takes e, which does not wait, where there is room for it.
LEMMA PutTable ==
  ASSUME NEW sl, Sound(sl), Unstalled(sl), NEW i \in Slot, NEW c \in Nat,
         NEW e, Cells(e), Serves(e), e.seen = NONE,
         Sum(Weights(sl), Slot \ {i}) + Weight(e) <= c,
         Sum(Claims(sl), Slot \ {i}) + Claim(e) <= Ceiling
  PROVE  TableInv([sl EXCEPT ![i] = e], c)
<1> DEFINE tl == [sl EXCEPT ![i] = e]
<1>1. tl = [j \in Slot |-> tl[j]] /\ tl[i] = e /\ \A j \in Slot \ {i} : tl[j] = sl[j]
  BY DEF Sound
<1> HIDE DEF tl
<1>2. Sound(tl)
  BY <1>1 DEF Sound
<1>3. Sum(Weights(tl), Slot) <= c
  <2>1. Sum(Weights(tl), Slot) = Sum(Weights(tl), Slot \ {i}) + Weights(tl)[i]
    BY <1>2, TotalsCount, SumBut
  <2>2. Sum(Weights(tl), Slot \ {i}) = Sum(Weights(sl), Slot \ {i})
    <3>1. \A j \in Slot \ {i} : Weights(tl)[j] = Weights(sl)[j]
      BY <1>1 DEF Weights
    <3> QED BY <3>1, SumSame
  <2> QED BY <1>1, <2>1, <2>2 DEF Weights
<1>4. Sum(Claims(tl), Slot) <= Ceiling
  <2>1. Sum(Claims(tl), Slot) = Sum(Claims(tl), Slot \ {i}) + Claims(tl)[i]
    BY <1>2, TotalsCount, SumBut
  <2>2. Sum(Claims(tl), Slot \ {i}) = Sum(Claims(sl), Slot \ {i})
    <3>1. \A j \in Slot \ {i} : Claims(tl)[j] = Claims(sl)[j]
      BY <1>1 DEF Claims
    <3> QED BY <3>1, SumSame
  <2> QED BY <1>1, <2>1, <2>2 DEF Claims
<1>5. Unstalled(tl)
  <2> SUFFICES ASSUME NEW Q \in SUBSET {j \in Slot : tl[j].stream # NONE /\ tl[j].seen # NONE},
                      Q # {}
               PROVE  \E j \in Q : Sum(Reserves(tl), Q \ {j}) < tl[j].seen[1]
    BY DEF Unstalled
  <2>1. \A j \in Q : j \in Slot /\ tl[j] = sl[j]
    BY <1>1
  <2>2. PICK j \in Q : Sum(Reserves(sl), Q \ {j}) < sl[j].seen[1]
    <3>1. Q \in SUBSET {j \in Slot : sl[j].stream # NONE /\ sl[j].seen # NONE}
      BY <2>1
    <3> QED BY <3>1 DEF Unstalled
  <2>3. Sum(Reserves(tl), Q \ {j}) = Sum(Reserves(sl), Q \ {j})
    <3>1. \A k \in Q \ {j} : Reserves(tl)[k] = Reserves(sl)[k]
      BY <2>1 DEF Reserves
    <3> QED BY <3>1, SumSame
  <2> QED BY <2>1, <2>2, <2>3
<1> QED BY <1>2, <1>3, <1>4, <1>5 DEF TableInv, tl

\* The reply of slot i asked for more cells, and n of them fit c and the ceiling.
Room(sl, i, n, c) ==
  /\ sl[i].stream # NONE /\ sl[i].extend /\ n > sl[i].reserve
  /\ Sum(Weights(sl), Slot \ {i}) + n <= c
  /\ Sum(Claims(sl), Slot \ {i}) + (IF sl[i].promise > n THEN sl[i].promise ELSE n) <= Ceiling

LEMMA OthersAsBefore ==
  ASSUME NEW sl, Sound(sl), NEW i \in Slot, NEW n, NEW j \in Slot \ {i}
  PROVE  Extended(i, n, sl)[j] = sl[j]
BY DEF Extended, Sound

LEMMA ExtendedTable ==
  ASSUME NEW sl, Sound(sl), Unstalled(sl), NEW i \in Slot, NEW n \in Nat, NEW c \in Nat,
         Room(sl, i, n, c)
  PROVE  TableInv(Extended(i, n, sl), c) /\ Extended(i, n, sl)[i].extend = FALSE
<1> DEFINE d == Longer(sl[i], n)
<1>1. Extended(i, n, sl) = [sl EXCEPT ![i] = d] /\ Extended(i, n, sl)[i] = d
  BY DEF Sound, Extended, Longer
<1>2. /\ Cells(d) /\ Serves(d) /\ d.seen = NONE /\ d.extend = FALSE
      /\ Weight(d) = n /\ Claim(d) = IF sl[i].promise > n THEN sl[i].promise ELSE n
  <2>1. Cells(sl[i]) /\ Serves(sl[i])
    BY DEF Sound
  <2> QED BY <2>1, ExtendedServes DEF Room
<1> HIDE DEF d
<1>3. TableInv([sl EXCEPT ![i] = d], c)
  BY <1>2, PutTable DEF Room
<1> QED BY <1>1, <1>2, <1>3

\* A reply pauses while another one runs: it saw the cells of all the others.
LEMMA PausedTable ==
  ASSUME NEW sl, NEW c, TableInv(sl, c), NEW i \in Slot, sl[i].stream # NONE, sl[i].extend,
         sl[i].promise <= sl[i].reserve,
         NEW k \in Serving(sl) \ {i}, sl[k].seen = NONE,
         NEW x, x = Sum(Reserves(sl), Serving(sl) \ {i}), NEW y
  PROVE  TableInv([sl EXCEPT ![i].seen = <<x, y>>], c)
<1> DEFINE d  == [sl[i] EXCEPT !.seen = <<x, y>>]
           tl == [sl EXCEPT ![i] = d]
<1>0. tl = [sl EXCEPT ![i].seen = <<x, y>>]
  OBVIOUS
<1>x. x \in Nat
  BY TotalsCount DEF TableInv, Serving
<1>1. /\ DOMAIN d = DOMAIN sl[i] /\ d.reserve = sl[i].reserve /\ d.extend = sl[i].extend
      /\ d.seen = <<x, y>> /\ d.kv = sl[i].kv /\ d.todo = sl[i].todo
      /\ d.generated = sl[i].generated /\ d.pending = sl[i].pending
      /\ d.promise = sl[i].promise /\ d.stream = sl[i].stream
  BY DEF TableInv, Sound, Cells, SlotFields
<1> HIDE DEF d
<1>2. Cells(d) /\ Weight(d) = Weight(sl[i]) /\ Claim(d) = Claim(sl[i])
  BY <1>1 DEF Cells, Weight, Claim, TableInv, Sound
<1>3. Serves(d)
  <2>1. Serves(sl[i]) /\ d.seen[1] \in Nat
    BY <1>1, <1>x DEF TableInv, Sound
  <2> QED BY <1>1, <1>2, <2>1 DEF Serves
<1>4. tl = [j \in Slot |-> tl[j]] /\ tl[i] = d /\ \A j \in Slot \ {i} : tl[j] = sl[j]
  BY DEF TableInv, Sound
<1>5. Sound(tl)
  BY <1>2, <1>3, <1>4 DEF Sound, TableInv
<1> HIDE DEF tl
<1>6. Weights(tl) = Weights(sl) /\ Claims(tl) = Claims(sl) /\ Reserves(tl) = Reserves(sl)
  BY <1>1, <1>2, <1>4 DEF Weights, Claims, Reserves
<1>7. Unstalled(tl)
  <2> SUFFICES ASSUME NEW Q \in SUBSET {j \in Slot : tl[j].stream # NONE /\ tl[j].seen # NONE},
                      Q # {}
               PROVE  \E j \in Q : Sum(Reserves(sl), Q \ {j}) < tl[j].seen[1]
    BY <1>6 DEF Unstalled
  <2>1. CASE i \in Q
    <3> DEFINE R == Serving(sl) \ {i}
    <3>1. Q \ {i} \in SUBSET (R \ {k}) /\ R \in SUBSET Slot /\ k \in R /\ R \ {k} \in SUBSET Slot
      BY <1>1, <1>4 DEF Serving
    <3>2. Sound(sl)
      BY DEF TableInv
    <3>3. Sum(Reserves(sl), R) = Sum(Reserves(sl), R \ {k}) + Reserves(sl)[k]
      <4> HIDE DEF R
      <4> QED BY <3>1, <3>2, TotalsCount, SumBut
    <3>4. Sum(Reserves(sl), Q \ {i}) <= Sum(Reserves(sl), R \ {k})
      <4>1. Counts(Reserves(sl), Q \ {i}) /\ Counts(Reserves(sl), R \ {k}) /\ IsFiniteSet(R \ {k})
        <5>1. Q \ {i} \in SUBSET Slot
          BY <3>1
        <5> HIDE DEF R
        <5> QED BY <3>1, <3>2, <5>1, TotalsCount
      <4>2. \A j \in Q \ {i} : Reserves(sl)[j] <= Reserves(sl)[j]
        BY <4>1 DEF Counts
      <4> HIDE DEF R
      <4> QED BY <3>1, <4>1, <4>2, SumLeq
    <3>5. Reserves(sl)[k] \in Nat /\ Reserves(sl)[k] > 0
      BY <3>2 DEF Sound, Serves, Cells, Reserves, Serving
    <3>6. /\ Sum(Reserves(sl), Q \ {i}) \in Nat /\ Sum(Reserves(sl), R \ {k}) \in Nat
          /\ tl[i].seen[1] = Sum(Reserves(sl), R)
      <4>1. Q \ {i} \in SUBSET Slot
        BY <3>1
      <4>2. tl[i].seen[1] = Sum(Reserves(sl), R)
        BY <1>1, <1>4
      <4> HIDE DEF R
      <4> QED BY <3>1, <3>2, <4>1, <4>2, TotalsCount
    <3> HIDE DEF R
    <3>7. Sum(Reserves(sl), Q \ {i}) < tl[i].seen[1]
      BY <3>3, <3>4, <3>5, <3>6
    <3> QED BY <2>1, <3>7
  <2>2. CASE i \notin Q
    <3>1. \A j \in Q : j \in Slot /\ tl[j] = sl[j]
      BY <1>4, <2>2
    <3>2. Q \in SUBSET {j \in Slot : sl[j].stream # NONE /\ sl[j].seen # NONE}
      BY <3>1
    <3> QED BY <3>1, <3>2 DEF TableInv, Unstalled
  <2> QED BY <2>1, <2>2
<1>8. TableInv(tl, c)
  BY <1>5, <1>6, <1>7 DEF TableInv
<1> QED BY <1>0, <1>8
-----------------------------------------------------------------------------
(* Idle caches that are dropped. *)

LEMMA DroppedIs ==
  ASSUME NEW sl, Sound(sl), NEW D \in SUBSET Slot
  PROVE  /\ Sound(Dropped(D, sl))
         /\ \A j \in D : Dropped(D, sl)[j] = Idle(0)
         /\ \A j \in Slot \ D : Dropped(D, sl)[j] = sl[j]
         /\ \A j \in Slot : Lighter(Dropped(D, sl)[j], sl[j])
<1>1. /\ \A j \in D : Dropped(D, sl)[j] = Idle(0)
      /\ \A j \in Slot \ D : Dropped(D, sl)[j] = sl[j]
      /\ Dropped(D, sl) = [j \in Slot |-> Dropped(D, sl)[j]]
  BY DEF Dropped
<1>2. \A j \in Slot : Cells(Dropped(D, sl)[j]) /\ Serves(Dropped(D, sl)[j])
  BY <1>1, IdleServes DEF Sound
<1>3. ASSUME NEW j \in Slot PROVE Lighter(Dropped(D, sl)[j], sl[j])
  <2>1. Cells(sl[j]) /\ 0 <= Weight(sl[j])
    BY DEF Sound, Cells, Weight
  <2> QED BY <1>1, <2>1, IdleIsLighter, SameIsLighter
<1> QED BY <1>1, <1>2, <1>3 DEF Sound

LEMMA DroppedTable ==
  ASSUME NEW sl, NEW c \in Nat, TableInv(sl, c), NEW D \in SUBSET Slot
  PROVE  TableInv(Dropped(D, sl), c)
BY DroppedIs, LighterTable DEF TableInv

\* When the idle caches of D are dropped, the others and total cells fit.
LEMMA DropsFit ==
  ASSUME NEW sl, Sound(sl), NEW idle \in SUBSET Slot, idle \cap Serving(sl) = {},
         NEW total \in Nat, NEW size \in Nat, total <= size,
         NEW D \in Drops(idle, sl, total, size)
  PROVE  /\ D \in SUBSET idle
         /\ total + Sum(Weights(Dropped(D, sl)), idle) <= size
<1> DEFINE tl == Dropped(D, sl)
<1>1. D \in SUBSET idle /\ (total + CellsIn(idle \ D, sl) <= size \/ D = idle)
  BY DEF Drops
<1>2. /\ Sound(tl) /\ D \in SUBSET Slot /\ idle \ D \in SUBSET Slot
      /\ D \cap (idle \ D) = {} /\ D \cup (idle \ D) = idle
  BY <1>1, DroppedIs
<1>3. Sum(Weights(tl), D) = 0
  <2>1. \A j \in D : Weights(tl)[j] = 0
    BY <1>2, DroppedIs, IdleServes DEF Weights
  <2> QED BY <2>1, SumZero
<1>4. Sum(Weights(tl), idle \ D) = CellsIn(idle \ D, sl)
  <2>1. \A j \in idle \ D : tl[j] = sl[j] /\ sl[j].stream = NONE
    BY <1>2, DroppedIs DEF Serving
  <2>2. \A j \in idle \ D : Weights(tl)[j] = [k \in Slot |-> sl[k].kv][j]
    BY <2>1 DEF Weights, Weight
  <2> QED BY <2>2, SumSame DEF CellsIn
<1> HIDE DEF tl
<1>5. Sum(Weights(tl), idle) = 0 + CellsIn(idle \ D, sl)
  <2>1. Sum(Weights(tl), D \cup (idle \ D)) = Sum(Weights(tl), D) + Sum(Weights(tl), idle \ D)
    BY <1>2, TotalsCount, SumParts
  <2> QED BY <1>2, <1>3, <1>4, <2>1
<1>6. CellsIn(idle \ D, sl) \in Nat
  BY <1>2, <1>4, TotalsCount
<1>7. D = idle => CellsIn(idle \ D, sl) = 0
  BY SumNone DEF CellsIn
<1> QED BY <1>1, <1>5, <1>6, <1>7 DEF tl

\* Dropping idle caches leaves the reservations of the other replies.
LEMMA OthersWeigh ==
  ASSUME Sound(slots), NEW i \in Active, NEW D \in SUBSET Slot
  PROVE  /\ Sum(Weights(Dropped(D, slots)), Slot \ {i})
              <= Sum(Reserves(slots), Active \ {i}) + Sum(Weights(Dropped(D, slots)), Slot \ Active)
         /\ Sum(Claims(Dropped(D, slots)), Slot \ {i}) <= Sum(Claims(slots), Slot \ {i})
<1> DEFINE tl == Dropped(D, slots)
<1>1. /\ Sound(tl) /\ i \in Slot /\ Active \in SUBSET Slot /\ Active \ {i} \in SUBSET Slot
      /\ Slot \ Active \in SUBSET Slot /\ (Slot \ Active) \ {i} = Slot \ Active
      /\ Slot \ {i} \in SUBSET Slot
      /\ \A j \in Slot : Lighter(tl[j], slots[j])
  BY DroppedIs DEF Active
<1> HIDE DEF tl
<1>2. Sum(Weights(tl), Slot \ {i})
        = Sum(Weights(tl), Active \ {i}) + Sum(Weights(tl), Slot \ Active)
  <2>1. Sum(Weights(tl), Slot \ {i})
          = Sum(Weights(tl), Active \ {i}) + Sum(Weights(tl), (Slot \ Active) \ {i})
    BY <1>1, TotalsCount, SumApart
  <2> QED BY <1>1, <2>1
<1>3. Sum(Weights(tl), Active \ {i}) <= Sum(Reserves(slots), Active \ {i})
  <2>1. \A j \in Active \ {i} : Weights(tl)[j] <= Reserves(slots)[j]
    BY <1>1 DEF Weights, Reserves, Lighter, Weight, Active
  <2> QED BY <1>1, <2>1, TotalsCount, SumLeq
<1>4. Sum(Claims(tl), Slot \ {i}) <= Sum(Claims(slots), Slot \ {i})
  <2>1. \A j \in Slot \ {i} : Claims(tl)[j] <= Claims(slots)[j]
    BY <1>1 DEF Claims, Lighter
  <2> QED BY <1>1, <2>1, TotalsCount, SumLeq
<1> QED BY <1>1, <1>2, <1>3, <1>4, TotalsCount DEF tl

\* A reply gets n cells: those promised to it, or cells promised to nobody.
LEMMA RoomFor ==
  ASSUME NEW c0, TableInv(slots, c0), NEW i \in Active, slots[i].extend,
         NEW n \in Nat, n > slots[i].reserve,
         Promised(i) => n <= slots[i].promise,
         ~Promised(i) => TotalWith(i, n) + OwedBut({i}) <= Ceiling,
         NEW D \in SUBSET Slot, i \notin D, NEW c \in Nat,
         TotalWith(i, n) + Sum(Weights(Dropped(D, slots)), Slot \ Active) <= c
  PROVE  /\ TableInv(Extended(i, n, Dropped(D, slots)), c)
         /\ Extended(i, n, Dropped(D, slots))[i].extend = FALSE
<1> DEFINE sl == Dropped(D, slots)
<1>1. /\ Sound(slots) /\ Sum(Claims(slots), Slot) <= Ceiling
      /\ i \in Slot /\ slots[i].stream # NONE /\ slots[i].reserve \in Nat
      /\ slots[i].promise \in Nat /\ Ceiling \in Nat
  BY SchedulerAssumption DEF TableInv, Active, Sound, Cells
<1>2. Sound(sl) /\ sl[i] = slots[i] /\ \A j \in Slot : Lighter(sl[j], slots[j])
  BY <1>1, DroppedIs
<1>3. Unstalled(sl)
  <2>1. Sum(Weights(slots), Slot) \in Nat /\ TableInv(slots, Sum(Weights(slots), Slot))
    BY <1>1, TotalsCount DEF TableInv
  <2> HIDE DEF sl
  <2> QED BY <1>2, <2>1, LighterTable DEF TableInv
<1>4. /\ TotalWith(i, n) = Sum(Reserves(slots), Active \ {i}) + n
      /\ Sum(Claims(slots), Slot \ {i}) = Sum(Reserves(slots), Active \ {i}) + OwedBut({i})
      /\ Sum(Reserves(slots), Active \ {i}) \in Nat /\ OwedBut({i}) \in Nat
  BY <1>1, OtherClaims DEF TotalWith
<1>5. /\ Sum(Weights(sl), Slot \ {i})
           <= Sum(Reserves(slots), Active \ {i}) + Sum(Weights(sl), Slot \ Active)
      /\ Sum(Claims(sl), Slot \ {i}) <= Sum(Claims(slots), Slot \ {i})
      /\ Sum(Weights(sl), Slot \ {i}) \in Nat /\ Sum(Weights(sl), Slot \ Active) \in Nat
      /\ Sum(Claims(sl), Slot \ {i}) \in Nat /\ Sum(Claims(slots), Slot \ {i}) \in Nat
  <2>1. Slot \ {i} \in SUBSET Slot /\ Slot \ Active \in SUBSET Slot
    OBVIOUS
  <2>2. /\ Sum(Weights(sl), Slot \ {i}) \in Nat /\ Sum(Weights(sl), Slot \ Active) \in Nat
        /\ Sum(Claims(sl), Slot \ {i}) \in Nat /\ Sum(Claims(slots), Slot \ {i}) \in Nat
    <3> HIDE DEF sl
    <3> QED BY <1>1, <1>2, <2>1, TotalsCount
  <2> QED BY <1>1, <2>2, OthersWeigh
<1>6. Sum(Weights(sl), Slot \ {i}) + n <= c
  <2>1. TotalWith(i, n) + Sum(Weights(sl), Slot \ Active) <= c
    OBVIOUS
  <2> HIDE DEF sl
  <2> QED BY <1>4, <1>5, <2>1
<1>7. Sum(Claims(slots), Slot) = Sum(Claims(slots), Slot \ {i}) + Claim(slots[i])
  <2>1. Sum(Claims(slots), Slot) = Sum(Claims(slots), Slot \ {i}) + Claims(slots)[i]
    BY <1>1, TotalsCount, SumBut
  <2> QED BY <1>1, <2>1 DEF Claims
<1>8. Sum(Claims(sl), Slot \ {i}) + (IF sl[i].promise > n THEN sl[i].promise ELSE n) <= Ceiling
  <2> HIDE DEF sl
  <2>1. CASE Promised(i)
    <3>1. Claim(slots[i]) = slots[i].promise
      BY <1>1, <2>1 DEF Claim, Promised
    <3> QED BY <1>1, <1>2, <1>5, <1>7, <2>1, <3>1
  <2>2. CASE ~Promised(i)
    <3>1. slots[i].promise <= n
      BY <1>1, <2>2 DEF Promised
    <3> QED BY <1>1, <1>2, <1>4, <1>5, <2>2, <3>1
  <2> QED BY <2>1, <2>2
<1> HIDE DEF sl
<1>9. /\ TableInv(Extended(i, n, sl), c)
      /\ Extended(i, n, sl)[i].extend = FALSE
  <2>1. sl[i].stream # NONE /\ sl[i].extend /\ n > sl[i].reserve
    BY <1>1, <1>2
  <2>2. Sound(sl) /\ Unstalled(sl) /\ i \in Slot
    BY <1>1, <1>2, <1>3
  <2>3. Room(sl, i, n, c)
    BY <1>6, <1>8, <2>1 DEF Room
  <2>4. TableInv(Extended(i, n, sl), c)
    BY <2>2, <2>3, ExtendedTable
  <2>5. Extended(i, n, sl)[i].extend = FALSE
    BY <2>2, <2>3, ExtendedTable
  <2> QED BY <2>4, <2>5
<1> QED BY <1>9 DEF sl
-----------------------------------------------------------------------------
(* A turn of _extend_pending. *)

LEMMA WantIs ==
  ASSUME Sound(slots), NEW i \in Active, MayTry(i)
  PROVE  /\ Want(i) \in Nat /\ Want(i) > slots[i].reserve
         /\ Promised(i) => Want(i) <= slots[i].promise
         /\ ~Promised(i) => OwedBut({i}) <= 0 \/ Total(i) + OwedBut({i}) <= Ceiling
<1>1. /\ slots[i].reserve \in Nat /\ slots[i].promise \in Nat
      /\ UnlimitedStep \in Nat \ {0} /\ Ceiling \in Nat /\ Budget[slots[i].stream] \in Nat
  BY SchedulerAssumption DEF Sound, Cells, Active
<1>2. ~Exhausted(i) /\ ~PromisedAway(i)
  BY DEF MayTry
<1>3. CASE Promised(i)
  BY <1>1, <1>3 DEF Want, Least, Promised
<1>4. CASE ~Promised(i)
  <2>1. Want(i) \in Nat
    BY <1>1, <1>4 DEF Want, Least
  <2>2. ~(Want(i) <= slots[i].reserve)
    BY <1>2, <1>4 DEF Exhausted
  <2>3. OwedBut({i}) \in Nat /\ Committed - slots[i].reserve \in Nat
    BY OtherClaims
  <2>4. Total(i) \in Nat
    BY <2>1, <2>3 DEF Total, TotalWith
  <2>5. ~(OwedBut({i}) > 0 /\ Total(i) + OwedBut({i}) > Ceiling)
    BY <1>2, <1>4 DEF PromisedAway
  <2> QED BY <1>1, <1>4, <2>1, <2>2, <2>3, <2>4, <2>5
<1> QED BY <1>3, <1>4

\* Once the running replies' cells are promised to them, all of it fits.
LEMMA TotalsFit ==
  ASSUME NEW c0, TableInv(slots, c0), NEW i \in Active, NEW n \in Nat
  PROVE  /\ TotalWith(i, n) = Sum(Reserves(slots), Active \ {i}) + n
         /\ TotalWith(i, n) \in Nat /\ OwedBut({i}) \in Nat
         /\ n >= slots[i].reserve => Committed <= TotalWith(i, n)
         /\ Promised(i) /\ n <= slots[i].promise => TotalWith(i, n) <= Ceiling
<1>1. Sound(slots) /\ Sum(Claims(slots), Slot) <= Ceiling /\ i \in Slot
  BY DEF TableInv, Active
<1>2. slots[i].reserve \in Nat /\ slots[i].promise \in Nat /\ Ceiling \in Nat
  BY <1>1, SchedulerAssumption DEF Sound, Cells
<1>3. /\ Committed - slots[i].reserve = Sum(Reserves(slots), Active \ {i})
      /\ Sum(Claims(slots), Slot \ {i}) = Sum(Reserves(slots), Active \ {i}) + OwedBut({i})
      /\ Sum(Reserves(slots), Active \ {i}) \in Nat /\ OwedBut({i}) \in Nat
  BY <1>1, OtherClaims
<1>4. Committed \in Nat
  BY <1>1, AllClaims
<1>5. TotalWith(i, n) = Sum(Reserves(slots), Active \ {i}) + n
  BY <1>3 DEF TotalWith
<1>6. Sum(Claims(slots), Slot) = Sum(Claims(slots), Slot \ {i}) + Claim(slots[i])
  <2>1. Sum(Claims(slots), Slot) = Sum(Claims(slots), Slot \ {i}) + Claims(slots)[i]
    BY <1>1, TotalsCount, SumBut
  <2> QED BY <1>1, <2>1 DEF Claims
<1>7. Promised(i) => Claim(slots[i]) = slots[i].promise
  BY <1>1 DEF Claim, Promised, Active
<1>8. CASE Promised(i)
  <2>1. slots[i].promise + Sum(Reserves(slots), Active \ {i}) + OwedBut({i}) <= Ceiling
    BY <1>1, <1>2, <1>3, <1>6, <1>7, <1>8
  <2> QED BY <1>2, <1>3, <1>4, <1>5, <2>1
<1> QED BY <1>2, <1>3, <1>4, <1>5, <1>8

\* Each context a growth may create is large enough for what it gives.
Gives(i, size, n) ==
  /\ size \in 0 .. Ceiling /\ n \in Nat /\ n > slots[i].reserve
  /\ TotalWith(i, n) <= size
  /\ Promised(i) => n <= slots[i].promise
  /\ ~Promised(i) => TotalWith(i, n) + OwedBut({i}) <= Ceiling

LEMMA WaysFit ==
  ASSUME NEW c0, TableInv(slots, c0), NEW i \in Active, MayTry(i), Target(Total(i)) >= Total(i),
         NEW way \in GrowthsFor(i)
  PROVE  Gives(i, way[1], way[2])
<1>1. /\ Sound(slots) /\ i \in Slot /\ Ceiling \in Nat /\ slots[i].reserve \in Nat
      /\ slots[i].promise \in Nat
  BY SchedulerAssumption DEF TableInv, Active, Sound, Cells
<1>2. /\ Want(i) \in Nat /\ Want(i) > slots[i].reserve
      /\ Promised(i) => Want(i) <= slots[i].promise
      /\ ~Promised(i) => OwedBut({i}) <= 0 \/ Total(i) + OwedBut({i}) <= Ceiling
  BY <1>1, WantIs
<1>3. /\ Total(i) \in Nat /\ OwedBut({i}) \in Nat /\ Total(i) = TotalWith(i, Want(i))
      /\ Total(i) = Sum(Reserves(slots), Active \ {i}) + Want(i)
  BY <1>2, TotalsFit DEF Total
<1>4. Target(Total(i)) \in 0 .. Ceiling
  BY <1>3, TargetIs
<1>5. CASE ~Promised(i)
  <2>1. way = <<Target(Total(i)), Want(i)>>
    BY <1>5 DEF GrowthsFor
  <2>2. way[1] = Target(Total(i)) /\ way[2] = Want(i)
    BY <2>1
  <2>3. Total(i) + OwedBut({i}) <= Ceiling /\ Total(i) <= Target(Total(i))
    BY <1>1, <1>2, <1>3, <1>4, <1>5
  <2> QED BY <1>1, <1>2, <1>3, <1>4, <1>5, <2>2, <2>3 DEF Gives
<1>6. CASE Promised(i)
  <2> DEFINE all   == TotalWith(i, slots[i].promise)
             small == Target(Total(i))
             large == Target(all)
  <2>1. \/ way = <<small, Want(i)>>
        \/ way = <<large, IF large > small THEN slots[i].promise ELSE Want(i)>>
        \/ way = <<large, slots[i].promise>>
    BY <1>6 DEF GrowthsFor
  <2>2. /\ all \in Nat /\ all <= Ceiling
        /\ all = Sum(Reserves(slots), Active \ {i}) + slots[i].promise
    <3>1. slots[i].promise \in Nat /\ slots[i].promise <= slots[i].promise
      BY <1>1
    <3> QED BY <1>6, <3>1, TotalsFit
  <2>3. large \in 0 .. Ceiling /\ all <= large
    BY <2>2, TargetIs
  <2>4. Sum(Reserves(slots), Active \ {i}) \in Nat /\ slots[i].promise > slots[i].reserve
    <3>1. Active \ {i} \in SUBSET Slot
      BY DEF Active
    <3> QED BY <1>1, <1>6, <3>1, TotalsCount DEF Promised
  <2>5. TotalWith(i, slots[i].promise) = all
    OBVIOUS
  <2> HIDE DEF all, small, large
  <2>6. small = Target(Total(i))
    BY DEF small
  <2>7. Gives(i, small, Want(i)) /\ Gives(i, large, slots[i].promise)
    BY <1>1, <1>2, <1>3, <1>4, <1>6, <2>2, <2>3, <2>4, <2>5, <2>6 DEF Gives
  <2>8. Total(i) <= all /\ Total(i) <= large
    BY <1>1, <1>2, <1>3, <1>6, <2>2, <2>3, <2>4
  <2>9. Gives(i, large, Want(i))
    BY <1>1, <1>2, <1>3, <1>6, <2>3, <2>8 DEF Gives
  <2>10. CASE way = <<small, Want(i)>>
    BY <2>7, <2>10
  <2>11. CASE way = <<large, IF large > small THEN slots[i].promise ELSE Want(i)>>
    BY <2>7, <2>9, <2>11
  <2>12. CASE way = <<large, slots[i].promise>>
    BY <2>7, <2>12
  <2> QED BY <2>1, <2>10, <2>11, <2>12
<1> QED BY <1>5, <1>6

\* A growth leaves what is reserved, or nothing.
LEMMA GrownTable ==
  ASSUME NEW c0, TableInv(slots, c0), c0 \in Nat, NEW lost \in SUBSET Active, NEW c \in Nat,
         Committed <= c \/ lost = Active
  PROVE  /\ TableInv(Dropped((Slot \ Active) \cup lost, slots), c)
         /\ Sum(Weights(Dropped((Slot \ Active) \cup lost, slots)), Slot \ Active) = 0
<1> DEFINE D  == (Slot \ Active) \cup lost
           tl == Dropped(D, slots)
<1>1. /\ D \in SUBSET Slot /\ Active \in SUBSET Slot /\ Slot \ Active \in SUBSET Slot
      /\ Active \cap (Slot \ Active) = {} /\ Active \cup (Slot \ Active) = Slot
      /\ Slot \ Active \subseteq D /\ Sound(slots)
      /\ lost = Active => Slot \subseteq D
  BY DEF Active, TableInv
<1> HIDE DEF D
<1>2. /\ Sound(tl) /\ \A j \in D : tl[j] = Idle(0)
      /\ \A j \in Slot : Lighter(tl[j], slots[j])
  BY <1>1, DroppedIs
<1>3. TableInv(tl, c0)
  BY <1>1, DroppedTable
<1> HIDE DEF tl
<1>4. Sum(Weights(tl), Slot \ Active) = 0
  <2>1. \A j \in Slot \ Active : Weights(tl)[j] = 0
    BY <1>1, <1>2, IdleServes DEF Weights
  <2> QED BY <2>1, SumZero
<1>5. Sum(Weights(tl), Slot) = Sum(Weights(tl), Active) + 0
  <2>1. Sum(Weights(tl), Active \cup (Slot \ Active))
           = Sum(Weights(tl), Active) + Sum(Weights(tl), Slot \ Active)
    BY <1>1, <1>2, TotalsCount, SumParts
  <2> QED BY <1>1, <1>4, <2>1
<1>6. Sum(Weights(tl), Active) <= Committed
  <2>1. \A j \in Active : Weights(tl)[j] <= Reserves(slots)[j]
    BY <1>1, <1>2 DEF Weights, Reserves, Lighter, Weight, Active
  <2>2. Sum(Weights(tl), Active) <= Sum(Reserves(slots), Active)
    BY <1>1, <1>2, <2>1, TotalsCount, SumLeq
  <2> QED BY <2>2, CommittedIs
<1>7. lost = Active => Sum(Weights(tl), Active) = 0
  <2>1. lost = Active => \A j \in Active : Weights(tl)[j] = 0
    BY <1>1, <1>2, IdleServes DEF Weights
  <2> QED BY <2>1, SumZero
<1>8. Sum(Weights(tl), Active) \in Nat /\ Committed \in Nat
  BY <1>1, <1>2, TotalsCount, AllClaims
<1>9. TableInv(tl, c)
  BY <1>3, <1>5, <1>6, <1>7, <1>8 DEF TableInv
<1> QED BY <1>4, <1>9 DEF tl, D
-----------------------------------------------------------------------------
\* After its turn slot i does not ask for cells unless it waits; the others are as
\* they were, or serve nobody.
Turned(i) ==
  /\ TableInv(slots', cap') /\ cap' \in 0 .. Ceiling
  /\ \A j \in Slot : slots'[j].stream # NONE /\ slots'[j].extend
                       => slots'[j].seen # NONE \/ (j # i /\ slots'[j] = slots[j])

LEMMA TurnedIs ==
  ASSUME TableInv(slots', cap'), cap' \in 0 .. Ceiling, NEW i \in Slot,
         slots'[i].stream = NONE \/ slots'[i].extend = FALSE \/ slots'[i].seen # NONE,
         \A j \in Slot \ {i} : slots'[j].stream # NONE => slots'[j] = slots[j]
  PROVE  Turned(i)
BY DEF Turned

\* The cells a paused reply saw are a pair of numbers.
LEMMA SeenIs ==
  ASSUME NEW x \in Nat, NEW y \in Nat
  PROVE  <<x, y>> # NONE
<1>1. <<x, y>> \in Nat \X Nat
  OBVIOUS
<1> QED BY <1>1, SchedulerAssumption

LEMMA NoCellsRoom ==
  ASSUME TableInv(slots, cap), cap \in 0 .. Ceiling, NEW i \in Active, slots[i].extend,
         NEW D \in SUBSET (Slot \ Active), NEW w, w => ~Promised(i),
         NoCells(i, w, Dropped(D, slots))
  PROVE  Turned(i)
<1> DEFINE sl == Dropped(D, slots)
<1>0. /\ i \in Slot /\ i \notin D /\ D \in SUBSET Slot /\ D \cap Active = {} /\ cap \in Nat
      /\ Sound(slots) /\ UNCHANGED cap
  BY SchedulerAssumption DEF Active, TableInv, NoCells
<1>1. /\ TableInv(sl, cap) /\ Sound(sl)
      /\ \A j \in D : sl[j] = Idle(0)
      /\ \A j \in Slot \ D : sl[j] = slots[j]
  BY <1>0, DroppedTable, DroppedIs
<1>2. /\ sl[i] = slots[i] /\ slots[i].stream # NONE /\ slots[i].reserve \in Nat
      /\ slots[i].promise \in Nat /\ slots[i].kv \in Nat /\ slots[i].kv <= slots[i].reserve
      /\ Cells(slots[i])
  BY <1>0, <1>1 DEF Active, Sound, Cells, Serves
<1>w. \/ /\ w /\ \E j \in Active \ {i} : ~Paused(j)
         /\ slots' = [sl EXCEPT ![i].seen = RoomKey(i)]
      \/ slots' = [sl EXCEPT ![i] = Idle(sl[i].kv)]
  BY DEF NoCells
<1>3. Serving(sl) = Active
  BY <1>0, <1>1, IdleServes DEF Serving, Active
<1>4. \A j \in Slot : sl[j].stream # NONE => sl[j] = slots[j]
  BY <1>1, IdleServes
<1> HIDE DEF sl
<1>5. ASSUME w, NEW k \in Active \ {i}, ~Paused(k), slots' = [sl EXCEPT ![i].seen = RoomKey(i)]
      PROVE  Turned(i)
  <2> DEFINE x == Sum(Reserves(sl), Serving(sl) \ {i})
  <2>1. x = Sum(Reserves(slots), Active \ {i})
    <3>1. \A j \in Active \ {i} : Reserves(sl)[j] = Reserves(slots)[j]
      BY <1>3, <1>4 DEF Reserves, Active, Serving
    <3> QED BY <1>3, <3>1, SumSame
  <2>2. RoomKey(i) = <<x, cap>> /\ x \in Nat
    BY <1>0, <2>1, OtherClaims DEF RoomKey
  <2> HIDE DEF x
  <2>3. k \in Serving(sl) \ {i} /\ sl[k].seen = NONE
    BY <1>3, <1>4, <1>5 DEF Paused, Serving
  <2>4. slots[i].promise <= slots[i].reserve
    BY <1>2, <1>5 DEF Promised
  <2>5. TableInv([sl EXCEPT ![i].seen = <<x, cap>>], cap)
    BY <1>0, <1>1, <1>2, <2>3, <2>4, PausedTable DEF x
  <2>6. slots' = [sl EXCEPT ![i].seen = <<x, cap>>]
    BY <1>5, <2>2
  <2>7. slots'[i].seen = <<x, cap>> /\ \A j \in Slot \ {i} : slots'[j] = sl[j]
    <3>1. "seen" \in DOMAIN sl[i] /\ sl = [j \in Slot |-> sl[j]]
      BY <1>0, <1>1 DEF Sound, Cells, SlotFields
    <3> QED BY <1>0, <2>6, <3>1
  <2>8. <<x, cap>> # NONE
    BY <1>0, <2>2, SeenIs
  <2> QED BY <1>0, <1>4, <2>5, <2>6, <2>7, <2>8 DEF Turned
<1>6. CASE slots' = [sl EXCEPT ![i] = Idle(sl[i].kv)]
  <2>1. slots'[i] = Idle(slots[i].kv) /\ \A j \in Slot \ {i} : slots'[j] = sl[j]
    BY <1>0, <1>1, <1>2, <1>6 DEF Sound
  <2>2. slots' = [j \in Slot |-> slots'[j]]
    BY <1>1, <1>6 DEF Sound
  <2>3. Sound(slots')
    BY <1>1, <1>2, <2>1, <2>2, IdleServes DEF Sound
  <2>4. \A j \in Slot : Lighter(slots'[j], sl[j])
    <3>1. Lighter(slots'[i], sl[i])
      BY <1>2, <2>1, IdleIsLighter DEF Weight
    <3>2. \A j \in Slot : Cells(sl[j])
      BY <1>1 DEF Sound
    <3> QED BY <2>1, <3>1, <3>2, SameIsLighter
  <2>5. TableInv(slots', cap)
    BY <1>0, <1>1, <2>3, <2>4, LighterTable
  <2>6. slots'[i].stream = NONE
    BY <1>2, <2>1, IdleServes
  <2> QED BY <1>0, <1>4, <2>1, <2>5, <2>6 DEF Turned
<1> QED BY <1>w, <1>5, <1>6

LEMMA ExtendRoom ==
  ASSUME TableInv(slots, cap), cap \in 0 .. Ceiling, NEW i \in Slot, Extend(i)
  PROVE  Turned(i) /\ toExtend' = toExtend \ {i} /\ pc = "extend" /\ UNCHANGED <<pc, xpc>>
<1>0. /\ toExtend' = toExtend \ {i} /\ pc = "extend" /\ UNCHANGED <<pc, xpc>>
      /\ Sound(slots) /\ Unstalled(slots)
      /\ cap \in Nat /\ Ceiling \in Nat
  <2>1. Looked(i) /\ InTurn(i)
    BY DEF Extend, NotDue, ExtendRefused, ExtendInPlace, ExtendByGrowth
  <2>2. Sound(slots) /\ Unstalled(slots) /\ cap \in Nat /\ Ceiling \in Nat
    BY SchedulerAssumption DEF TableInv
  <2> QED BY <2>1, <2>2 DEF Looked, InTurn
<1>1. CASE NotDue(i)
  <2>1. UNCHANGED <<slots, cap>> /\ ~Due(i)
    BY <1>1 DEF NotDue
  <2>2. slots[i].extend => slots[i].seen # NONE
    BY <2>1 DEF Due, Paused
  <2> QED BY <1>0, <2>1, <2>2 DEF Turned
<1>2. Due(i) => i \in Active /\ slots[i].extend
  BY <1>0 DEF Due, Active, Sound, Cells
<1>3. CASE ExtendRefused(i)
  <2>0. i \in Active /\ slots[i].extend
    BY <1>2, <1>3 DEF ExtendRefused
  <2>1. \E w : (w => ~Promised(i)) /\ (NoCells(i, w, slots) \/ NoCells(i, w, AllIdle(i)))
    <3>1. CASE NoCells(i, FALSE, slots)
      BY <3>1
    <3>2. CASE PromisedAway(i) /\ NoCells(i, TRUE, slots)
      BY <3>2 DEF PromisedAway
    <3>3. CASE NoCells(i, ~Promised(i) /\ Others(i), AllIdle(i))
      BY <3>3
    <3> QED BY <1>3, <3>1, <3>2, <3>3 DEF ExtendRefused
  <2>2. slots = Dropped({}, slots) /\ AllIdle(i) = Dropped(Slot \ Active, slots)
    BY <1>0 DEF Sound, Dropped, AllIdle
  <2>3. \E D \in SUBSET (Slot \ Active) :
          \E w : (w => ~Promised(i)) /\ NoCells(i, w, Dropped(D, slots))
    BY <2>1, <2>2
  <2> QED BY <1>0, <2>0, <2>3, NoCellsRoom
<1>4. CASE ExtendInPlace(i)
  <2>0. /\ i \in Active /\ slots[i].extend /\ MayTry(i) /\ Total(i) <= cap /\ UNCHANGED cap
    BY <1>2, <1>4 DEF ExtendInPlace
  <2>1. PICK D \in Drops(Slot \ Active, slots, Total(i), cap) :
          slots' = Extended(i, Want(i), Dropped(D, slots))
    BY <1>4 DEF ExtendInPlace
  <2>2. /\ Want(i) \in Nat /\ Want(i) > slots[i].reserve
        /\ Promised(i) => Want(i) <= slots[i].promise
        /\ ~Promised(i) => OwedBut({i}) <= 0 \/ Total(i) + OwedBut({i}) <= Ceiling
    BY <1>0, <2>0, WantIs
  <2>3. Total(i) \in Nat /\ OwedBut({i}) \in Nat /\ TotalWith(i, Want(i)) = Total(i)
    BY <2>0, <2>2, TotalsFit DEF Total
  <2>4. /\ D \in SUBSET (Slot \ Active) /\ D \in SUBSET Slot /\ i \notin D
        /\ TotalWith(i, Want(i)) + Sum(Weights(Dropped(D, slots)), Slot \ Active) <= cap
    <3>1. (Slot \ Active) \cap Serving(slots) = {} /\ Slot \ Active \in SUBSET Slot
      BY DEF Active, Serving
    <3>2. /\ D \in SUBSET (Slot \ Active)
          /\ Total(i) + Sum(Weights(Dropped(D, slots)), Slot \ Active) <= cap
      <4>1. Total(i) \in Nat /\ cap \in Nat /\ Total(i) <= cap /\ Sound(slots)
        BY <1>0, <2>0, <2>3
      <4>2. D \in Drops(Slot \ Active, slots, Total(i), cap)
        OBVIOUS
      <4> QED BY <3>1, <4>1, <4>2, DropsFit
    <3> QED BY <2>0, <2>3, <3>2
  <2>5. ~Promised(i) => TotalWith(i, Want(i)) + OwedBut({i}) <= Ceiling
    BY <1>0, <2>0, <2>2, <2>3
  <2>6. TableInv(slots', cap) /\ slots'[i].extend = FALSE
    BY <1>0, <2>0, <2>1, <2>2, <2>4, <2>5, RoomFor
  <2>7. \A j \in Slot \ {i} : slots'[j].stream # NONE => slots'[j] = slots[j]
    BY <1>0, <2>1, <2>4, DroppedIs, OthersAsBefore, IdleServes
  <2> QED BY <1>0, <2>0, <2>6, <2>7, TurnedIs
<1>5. CASE ExtendByGrowth(i)
  <2>0. /\ i \in Active /\ slots[i].extend /\ MayTry(i) /\ Target(Total(i)) >= Total(i)
    BY <1>2, <1>5 DEF ExtendByGrowth
  <2> DEFINE Grows(way, g) == /\ slots' = IF i \in g.lost THEN AfterGrowth(g)
                                          ELSE Extended(i, way[2], AfterGrowth(g))
                              /\ cap' = g.cap
  <2>1. PICK way \in GrowthsFor(i) : \E g \in Growths({way[1]}) : Grows(way, g)
    BY <1>5 DEF ExtendByGrowth
  <2>2. PICK g \in Growths({way[1]}) : Grows(way, g)
    BY <2>1
  <2>3. Gives(i, way[1], way[2])
    BY <2>0, WaysFit
  <2>4. /\ g.lost \in SUBSET Active
        /\ g.cap = way[1] \/ (g.cap = 0 /\ g.lost = Active)
    <3>1. CASE g \in [ok : {TRUE}, cap : {way[1]}, lost : SUBSET Active]
      BY <3>1
    <3>2. CASE g = [ok |-> FALSE, cap |-> 0, lost |-> Active]
      BY <3>2
    <3> QED BY <3>1, <3>2 DEF Growths
  <2> DEFINE D == (Slot \ Active) \cup g.lost
  <2>5. D \in SUBSET Slot /\ Slot \ Active \subseteq D /\ AfterGrowth(g) = Dropped(D, slots)
    BY <2>4 DEF AfterGrowth, Active
  <2>6. /\ g.cap \in 0 .. Ceiling /\ g.cap \in Nat
        /\ Committed <= g.cap \/ g.lost = Active
    <3>1. CASE g.cap = way[1]
      <4>1. /\ way[1] \in 0 .. Ceiling /\ way[2] \in Nat /\ way[2] > slots[i].reserve
            /\ TotalWith(i, way[2]) <= way[1]
        BY <2>3 DEF Gives
      <4>2. slots[i].reserve \in Nat /\ Committed \in Nat
        BY <1>0, AllClaims DEF Sound, Cells
      <4>3. way[2] >= slots[i].reserve
        BY <4>1, <4>2
      <4>4. TotalWith(i, way[2]) \in Nat /\ Committed <= TotalWith(i, way[2])
        BY <2>0, <4>1, <4>3, TotalsFit
      <4> QED BY <1>0, <3>1, <4>1, <4>2, <4>4
    <3> QED BY <1>0, <2>4, <3>1
  <2>7. /\ TableInv(AfterGrowth(g), g.cap)
        /\ Sum(Weights(AfterGrowth(g)), Slot \ Active) = 0
    BY <1>0, <2>4, <2>5, <2>6, GrownTable
  <2>8. CASE i \in g.lost
    <3>1. slots' = Dropped(D, slots) /\ cap' = g.cap
      BY <2>2, <2>5, <2>8
    <3>2. i \in D
      BY <2>8
    <3> HIDE DEF D
    <3>3. /\ slots'[i].stream = NONE
          /\ \A j \in Slot \ {i} : slots'[j].stream # NONE => slots'[j] = slots[j]
      BY <1>0, <2>5, <3>1, <3>2, DroppedIs, IdleServes
    <3>4. TableInv(slots', cap')
      BY <2>5, <2>7, <3>1
    <3> QED BY <1>0, <2>6, <3>1, <3>3, <3>4, TurnedIs
  <2>9. CASE i \notin g.lost
    <3>1. slots' = Extended(i, way[2], Dropped(D, slots)) /\ cap' = g.cap /\ g.cap = way[1]
      BY <2>0, <2>2, <2>4, <2>5, <2>9
    <3>2. i \notin D
      BY <2>0, <2>9
    <3> HIDE DEF D
    <3>3. /\ way[2] \in Nat /\ way[2] > slots[i].reserve
          /\ Promised(i) => way[2] <= slots[i].promise
          /\ ~Promised(i) => TotalWith(i, way[2]) + OwedBut({i}) <= Ceiling
          /\ TotalWith(i, way[2]) + Sum(Weights(Dropped(D, slots)), Slot \ Active) <= g.cap
      <4>1. Sum(Weights(Dropped(D, slots)), Slot \ Active) = 0
        BY <2>5, <2>7
      <4>2. way[2] \in Nat
        BY <2>3 DEF Gives
      <4>3. TotalWith(i, way[2]) \in Nat
        BY <2>0, <4>2, TotalsFit
      <4> QED BY <2>3, <3>1, <4>1, <4>3 DEF Gives
    <3>4. TableInv(slots', cap') /\ slots'[i].extend = FALSE
      BY <2>0, <2>5, <2>6, <3>1, <3>2, <3>3, RoomFor
    <3>5. \A j \in Slot \ {i} : slots'[j].stream # NONE => slots'[j] = slots[j]
      BY <1>0, <2>5, <3>1, DroppedIs, OthersAsBefore, IdleServes
    <3> QED BY <1>0, <2>6, <3>1, <3>4, <3>5, TurnedIs
  <2> QED BY <2>8, <2>9
<1> QED BY <1>0, <1>1, <1>3, <1>4, <1>5 DEF Extend
-----------------------------------------------------------------------------
(* A batch. *)

LEMMA PartRoom ==
  ASSUME NEW i \in Slot, Cells(slots[i]), Serves(slots[i]), slots[i].stream # NONE,
         slots[i].pending => ~slots[i].extend,
         NEW n \in Nat, n <= slots[i].todo, slots[i].pending => n = 0, NEW o
  PROVE  /\ Cells(After(i, n, o)) /\ Serves(After(i, n, o))
         /\ Lighter(After(i, n, o), slots[i])
<1> DEFINE e  == slots[i]
           kv == e.kv + (IF e.pending THEN 1 ELSE n)
<1>1. /\ e.kv \in Nat /\ e.todo \in Nat /\ e.generated \in Nat /\ e.reserve \in Nat
      /\ e.promise \in Nat /\ e.pending \in BOOLEAN /\ e.extend \in BOOLEAN
      /\ e.stream \in Stream /\ SlotFields \subseteq DOMAIN e
      /\ Prompt[e.stream] \in Nat /\ Budget[e.stream] \in Nat /\ Whole(e.stream) \in Nat
  BY SchedulerAssumption DEF Cells, Whole, Least
<1>2. /\ e.kv + e.todo <= e.reserve /\ e.reserve > 0
      /\ e.pending <=> e.todo = 0
      /\ e.pending => e.kv < e.reserve
      /\ e.extend = FALSE /\ e.seen = NONE
      /\ e.kv + e.todo + (IF e.pending THEN 1 ELSE 0) = Prompt[e.stream] + e.generated
      /\ Budget[e.stream] > 0 => e.generated < Budget[e.stream] /\ Claim(e) >= Whole(e.stream)
  BY <1>1 DEF Serves
<1>3. kv \in Nat /\ kv <= e.reserve
  BY <1>1, <1>2
<1> HIDE DEF kv
<1>4. CASE Over(i, n, o) # NONE
  <2>1. After(i, n, o) = Idle(0) \/ After(i, n, o) = Idle(kv)
    BY <1>4 DEF After, kv
  <2>2. Weight(e) = e.reserve /\ 0 <= e.reserve
    BY <1>1 DEF Weight
  <2> QED BY <1>3, <2>1, <2>2, IdleServes, IdleIsLighter
<1>5. CASE ~(Over(i, n, o) # NONE) /\ ~HasRow(i, n)
  <2> DEFINE r == [e EXCEPT !.kv = kv, !.todo = e.todo - n]
  <2>1. After(i, n, o) = r
    BY <1>5 DEF After, kv
  <2>2. e.pending = FALSE /\ n # e.todo /\ e.todo - n \in Nat /\ kv = e.kv + n
    BY <1>1, <1>5 DEF HasRow, kv
  <2>3. /\ DOMAIN r = DOMAIN e /\ r.kv = kv /\ r.todo = e.todo - n /\ r.pending = e.pending
        /\ r.generated = e.generated /\ r.reserve = e.reserve /\ r.promise = e.promise
        /\ r.extend = e.extend /\ r.seen = e.seen /\ r.stream = e.stream
    BY <1>1 DEF SlotFields
  <2> HIDE DEF r, e
  <2>a. Claim(r) = Claim(e) /\ Weight(r) = Weight(e)
    BY <1>1, <2>3, SchedulerAssumption DEF Claim, Weight
  <2>b. Cells(r)
    BY <1>1, <1>2, <1>3, <2>2, <2>3 DEF Cells
  <2>4. Cells(r) /\ Claim(r) = Claim(e) /\ Weight(r) = Weight(e)
    BY <2>a, <2>b
  <2>5. /\ r.kv + r.todo <= r.reserve /\ r.reserve > 0
        /\ r.pending <=> r.todo = 0
        /\ r.kv + r.todo + (IF r.pending THEN 1 ELSE 0) = Prompt[r.stream] + r.generated
    BY <1>1, <1>2, <2>2, <2>3
  <2>6. Budget[r.stream] > 0 => r.generated < Budget[r.stream] /\ Claim(r) >= Whole(r.stream)
    BY <1>2, <2>3, <2>4
  <2>7. Serves(r)
    BY <1>2, <2>2, <2>3, <2>5, <2>6 DEF Serves
  <2>8. Lighter(r, e)
    BY <1>1, <2>3, <2>4 DEF Lighter, Weight, Claim
  <2> QED BY <2>1, <2>4, <2>7, <2>8 DEF e
<1>6. CASE ~(Over(i, n, o) # NONE) /\ HasRow(i, n)
  <2> DEFINE x == kv + 1 > e.reserve
             r == [e EXCEPT !.kv = kv, !.todo = 0, !.pending = TRUE,
                            !.generated = e.generated + 1, !.extend = x]
  <2>1. After(i, n, o) = r
    BY <1>6 DEF After, kv
  <2>2. x \in BOOLEAN
    OBVIOUS
  <2>3. /\ ~e.pending => kv = e.kv + e.todo
        /\ e.pending => kv = e.kv + 1
    BY <1>1, <1>6 DEF HasRow, kv
  <2>4. Budget[e.stream] > 0 => e.generated + 1 < Budget[e.stream]
    <3>1. ~LastToken(i)
      BY <1>6, SchedulerAssumption DEF Over, Reason
    <3> QED BY <1>1, <3>1 DEF LastToken, Budgeted
  <2>5. x <=> kv + 1 > e.reserve
    OBVIOUS
  <2> HIDE DEF x
  <2>6. /\ DOMAIN r = DOMAIN e /\ r.kv = kv /\ r.todo = 0 /\ r.pending = TRUE
        /\ r.generated = e.generated + 1 /\ r.reserve = e.reserve /\ r.promise = e.promise
        /\ r.extend = x /\ r.seen = e.seen /\ r.stream = e.stream
    BY <1>1 DEF SlotFields
  <2> HIDE DEF r, e
  <2>7. r.extend \in BOOLEAN /\ (r.extend <=> kv + 1 > e.reserve)
    BY <2>2, <2>5, <2>6
  <2>8. r.stream # NONE
    BY <1>1, <2>6, SchedulerAssumption
  <2>a. Claim(r) = Claim(e) /\ Weight(r) = Weight(e)
    BY <1>1, <2>6, <2>8, SchedulerAssumption DEF Claim, Weight
  <2>b. Cells(r)
    <3>1. /\ r.kv \in Nat /\ r.todo \in Nat /\ r.generated \in Nat /\ r.reserve \in Nat
          /\ r.promise \in Nat /\ r.stream \in Stream /\ SlotFields \subseteq DOMAIN r
      BY <1>1, <1>3, <2>6
    <3>2. r.pending \in BOOLEAN
      BY <2>6
    <3> QED BY <2>7, <2>8, <3>1, <3>2, Zenon DEF Cells
  <2>9. Cells(r) /\ Claim(r) = Claim(e) /\ Weight(r) = Weight(e)
    BY <2>a, <2>b
  <2>10. /\ r.kv + r.todo <= r.reserve /\ r.reserve > 0
         /\ r.extend => r.kv = r.reserve
         /\ ~r.extend => r.kv < r.reserve
    BY <1>1, <1>2, <1>3, <2>6, <2>7
  <2>11. r.kv + r.todo + 1 = Prompt[r.stream] + r.generated
    BY <1>1, <1>2, <2>3, <2>6
  <2>12. Budget[r.stream] > 0 => r.generated < Budget[r.stream] /\ Claim(r) >= Whole(r.stream)
    BY <1>2, <2>4, <2>6, <2>9
  <2>13. Serves(r)
    BY <1>2, <2>6, <2>10, <2>11, <2>12 DEF Serves
  <2>14. Lighter(r, e)
    BY <1>1, <2>6, <2>9 DEF Lighter, Weight, Claim
  <2> QED BY <2>1, <2>9, <2>13, <2>14 DEF e
<1> QED BY <1>4, <1>5, <1>6

LEMMA DecodeRoom ==
  ASSUME RoomInv, Decode
  PROVE  TableInv(slots', cap') /\ UNCHANGED <<cap, xpc>> /\ pc' = "check"
<1> DEFINE plan(n) == Decoding \cup {i \in Filling : n[i] > 0}
           part(n) == [i \in plan(n) |-> IF i \in Filling THEN n[i] ELSE 0]
           next(n, o) == [i \in Slot |-> IF i \in plan(n) THEN After(i, part(n)[i], o[i])
                                         ELSE slots[i]]
<1>0. \E n \in Chunks : \E o \in [plan(n) -> Outcome] : slots' = next(n, o)
  BY DEF Decode
<1>1. PICK n \in Chunks : \E o \in [plan(n) -> Outcome] : slots' = next(n, o)
  <2> HIDE DEF plan, next
  <2> QED BY <1>0
<1>2. PICK o : slots' = next(n, o)
  <2> HIDE DEF plan, next
  <2> QED BY <1>1
<1>3. /\ TableInv(slots, cap) /\ Sound(slots) /\ cap \in Nat
      /\ pc = "decode" /\ toExtend = {}
      /\ \A i \in Active : slots[i].extend => slots[i].seen # NONE
  BY SchedulerAssumption DEF RoomInv, TableInv, Decode
<1>4. ASSUME NEW i \in plan(n)
      PROVE  /\ Cells(After(i, part(n)[i], o[i])) /\ Serves(After(i, part(n)[i], o[i]))
             /\ Lighter(After(i, part(n)[i], o[i]), slots[i]) /\ i \in Slot
  <2>1. /\ i \in Slot /\ slots[i].stream # NONE /\ i \in Active
        /\ Cells(slots[i]) /\ Serves(slots[i])
        /\ part(n)[i] = IF i \in Filling THEN n[i] ELSE 0
    BY <1>3 DEF Decoding, Filling, Active, Sound
  <2>2. /\ i \in Filling => /\ n[i] \in Nat /\ n[i] <= slots[i].todo
                            /\ slots[i].pending = FALSE
        /\ slots[i].todo \in Nat
    BY <2>1, SchedulerAssumption DEF Chunks, Filling, Cells
  <2>3. /\ part(n)[i] \in Nat /\ part(n)[i] <= slots[i].todo
        /\ slots[i].pending => part(n)[i] = 0
    BY <2>1, <2>2
  <2>4. slots[i].pending => ~slots[i].extend
    BY <1>3, <2>1, <2>2 DEF Decoding, Paused
  <2> HIDE DEF plan, part
  <2> QED BY <2>1, <2>3, <2>4, PartRoom
<1> HIDE DEF plan, part
<1>5. \A i \in Slot : slots'[i] = IF i \in plan(n) THEN After(i, part(n)[i], o[i]) ELSE slots[i]
  BY <1>2
<1>6. \A i \in Slot : Cells(slots'[i]) /\ Serves(slots'[i]) /\ Lighter(slots'[i], slots[i])
  BY <1>3, <1>4, <1>5, SameIsLighter DEF Sound
<1>7. Sound(slots')
  <2>1. slots' = [i \in Slot |-> slots'[i]]
    BY <1>2
  <2> QED BY <1>6, <2>1 DEF Sound
<1>8. TableInv(slots', cap)
  BY <1>3, <1>6, <1>7, LighterTable
<1> QED BY <1>8 DEF Decode
-----------------------------------------------------------------------------
(* An admission. *)

LEMMA NeedsIs ==
  ASSUME NEW s \in Stream, NEW i, NEW need \in Needs(s, i)
  PROVE  /\ need \in Nat /\ Prompt[s] \in Nat \ {0} /\ Prompt[s] <= need
         /\ Whole(s) \in 0 .. Ceiling /\ need <= Whole(s)
         /\ need < Whole(s) => Active = {}
<1>1. /\ Prompt[s] \in Nat \ {0} /\ Prompt[s] <= Ceiling /\ Budget[s] \in Nat
      /\ UnlimitedStep \in Nat /\ Pad \in Nat /\ Ceiling \in Nat
  BY SchedulerAssumption
<1>2. Whole(s) \in 0 .. Ceiling /\ Prompt[s] <= Whole(s)
  BY <1>1 DEF Whole, Least
<1>3. \/ need = Whole(s)
      \/ /\ Active = {} /\ need = Prompt[s] + UnlimitedStep + Pad
         /\ Prompt[s] + UnlimitedStep + Pad < Whole(s)
  BY DEF Needs
<1> QED BY <1>1, <1>2, <1>3

LEMMA LeastIs ==
  ASSUME NEW m \in Int, NEW n \in Int
  PROVE  Least(m, n) = m \/ (Least(m, n) = n /\ n < m)
BY DEF Least

\* A table tl in which a slot serves what it serves now, or nobody, and holds no
\* more cells.
Rests(tl) == /\ \A j \in Slot : Lighter(tl[j], slots[j])
             /\ \A j \in Slot : tl[j].stream # NONE => tl[j] = slots[j]

LEMMA RightsizedTable ==
  ASSUME TableInv(slots, cap), cap \in 0 .. Ceiling, NEW s \in Stream, NEW i \in Slot,
         NEW need \in Nat, Prompt[s] <= need, NEW r \in Rightsized(s, i, need)
  PROVE  TableInv(r.slots, r.cap) /\ r.cap \in 0 .. Ceiling /\ Rests(r.slots)
<1>0. /\ Sound(slots) /\ cap \in Nat /\ Ceiling \in Nat /\ Prompt[s] \in Nat \ {0}
      /\ Sum(Weights(slots), Slot) <= cap
  BY SchedulerAssumption DEF TableInv
<1>1. CASE r.cap = cap /\ r.slots = slots
  BY <1>0, <1>1, SameIsLighter DEF Rests, Sound
<1>2. ASSUME Active = {}, NEW n \in 0 .. Ceiling, NEW kv, \A j \in Slot : kv[j] \in Nat,
             \A j \in Slot : kv[j] <= slots[j].kv,
             NEW tl, tl = [j \in Slot |-> Idle(kv[j])], Sum(Weights(tl), Slot) <= n
      PROVE  TableInv(tl, n) /\ Rests(tl)
  <2>1. Sound(tl)
    BY <1>2, IdleServes DEF Sound
  <2>2. \A j \in Slot : Lighter(tl[j], slots[j])
    <3>1. \A j \in Slot : kv[j] <= Weight(slots[j]) /\ Cells(slots[j])
      BY <1>0, <1>2 DEF Weight, Active, Sound
    <3> QED BY <1>2, <3>1, IdleIsLighter
  <2>3. TableInv(tl, cap)
    BY <1>0, <2>1, <2>2, LighterTable
  <2>4. TableInv(tl, n)
    BY <1>2, <2>3 DEF TableInv
  <2> QED BY <1>2, <2>2, <2>4, IdleServes DEF Rests
<1>3. ASSUME Active = {}, r.cap = 0, NEW kv, \A j \in Slot : kv[j] = 0,
             r.slots = [j \in Slot |-> Idle(kv[j])]
      PROVE  TableInv(r.slots, r.cap) /\ r.cap \in 0 .. Ceiling /\ Rests(r.slots)
  <2>1. /\ \A j \in Slot : kv[j] \in Nat
        /\ \A j \in Slot : kv[j] <= slots[j].kv
    BY <1>0, <1>3 DEF Sound, Cells
  <2>2. Sum(Weights(r.slots), Slot) = 0
    <3>1. \A j \in Slot : Weights(r.slots)[j] = 0
      BY <1>3, IdleServes DEF Weights
    <3> QED BY <3>1, SumZero
  <2>3. 0 \in 0 .. Ceiling /\ 0 <= 0
    BY <1>0
  <2> QED BY <1>2, <1>3, <2>1, <2>2, <2>3
<1>4. ASSUME Active = {}, NEW kv \in Kept(s, i), r.slots = [j \in Slot |-> Idle(kv[j])],
             r.cap \in {cap, Least(cap, Target(need + CellsIn(Slot \ {i}, slots)))}
      PROVE  TableInv(r.slots, r.cap) /\ r.cap \in 0 .. Ceiling /\ Rests(r.slots)
  <2> DEFINE tl     == r.slots
             n      == r.cap
             others == CellsIn(Slot \ {i}, slots)
  <2>2. \A j \in Slot : kv[j] \in Nat /\ slots[j].kv \in Nat
    BY <1>0 DEF Sound, Cells, Kept
  <2>3. /\ \A j \in Slot : kv[j] <= slots[j].kv
        /\ kv[i] < Prompt[s]
    <3>1. /\ kv[i] <= Least(slots[i].kv, Prompt[s] - 1)
          /\ \A j \in Slot \ {i} : kv[j] \in {0, slots[j].kv}
      BY DEF Kept
    <3>2. kv[i] <= slots[i].kv /\ kv[i] < Prompt[s]
      BY <1>0, <2>2, <3>1 DEF Least
    <3>3. \A j \in Slot \ {i} : kv[j] <= slots[j].kv
      BY <2>2, <3>1
    <3> QED BY <3>2, <3>3
  <2>4. \A j \in Slot : /\ Weights(tl)[j] = kv[j] /\ Weights(slots)[j] = slots[j].kv
                        /\ [k \in Slot |-> slots[k].kv][j] = slots[j].kv
    BY <1>4, <2>2, IdleServes DEF Weights, Weight, Active
  <2>5. Sound(tl)
    BY <1>4, <2>2, IdleServes DEF Sound
  <2> HIDE DEF tl, n
  <2>6. Sum(Weights(tl), Slot) <= Sum(Weights(slots), Slot)
    <3>1. \A j \in Slot : Weights(tl)[j] <= Weights(slots)[j]
      BY <2>3, <2>4
    <3> QED BY <1>0, <2>5, <3>1, TotalsCount, SumLeq
  <2>7. Sum(Weights(tl), Slot) <= others + kv[i] /\ others \in Nat
    <3>1. Sum(Weights(tl), Slot) = Sum(Weights(tl), Slot \ {i}) + Weights(tl)[i]
      BY <2>5, TotalsCount, SumBut
    <3>2. Slot \ {i} \in SUBSET Slot
      OBVIOUS
    <3>3. Sum(Weights(slots), Slot \ {i}) = others
      <4>1. \A j \in Slot \ {i} : Weights(slots)[j] = [k \in Slot |-> slots[k].kv][j]
        BY <2>4
      <4> QED BY <4>1, SumSame DEF CellsIn
    <3>4. Sum(Weights(tl), Slot \ {i}) <= Sum(Weights(slots), Slot \ {i})
      <4>1. \A j \in Slot \ {i} : Weights(tl)[j] <= Weights(slots)[j]
        BY <2>3, <2>4
      <4> QED BY <1>0, <2>5, <3>2, <4>1, TotalsCount, SumLeq
    <3>5. Sum(Weights(tl), Slot \ {i}) \in Nat /\ Sum(Weights(slots), Slot \ {i}) \in Nat
      BY <1>0, <2>5, <3>2, TotalsCount
    <3> HIDE DEF others
    <3> QED BY <2>2, <2>4, <3>1, <3>3, <3>4, <3>5
  <2> HIDE DEF others
  <2>8. Sum(Weights(tl), Slot) \in Nat /\ Sum(Weights(slots), Slot) \in Nat
    BY <1>0, <2>5, TotalsCount
  <2>9. n \in 0 .. Ceiling /\ Sum(Weights(tl), Slot) <= n
    <3>1. need + others \in Nat /\ Sum(Weights(tl), Slot) <= need + others
      BY <1>0, <2>2, <2>3, <2>7, <2>8
    <3>2. /\ Target(need + others) \in 0 .. Ceiling
          /\ need + others <= Ceiling => need + others <= Target(need + others)
          /\ need + others > Ceiling => Target(need + others) = Ceiling
      BY <3>1, TargetIs
    <3>3. Sum(Weights(tl), Slot) <= cap
      BY <1>0, <2>6, <2>8
    <3>4. n = cap \/ (n = Target(need + others) /\ Target(need + others) < cap)
      <4>1. n = cap \/ n = Least(cap, Target(need + others))
        BY <1>4 DEF n, others
      <4>2. cap \in Int /\ Target(need + others) \in Int
        BY <1>0, <3>2
      <4>3. \/ Least(cap, Target(need + others)) = cap
            \/ /\ Least(cap, Target(need + others)) = Target(need + others)
               /\ Target(need + others) < cap
        BY <4>2, LeastIs
      <4> QED BY <4>1, <4>3
    <3>5. CASE n = cap
      BY <3>3, <3>5
    <3>6. CASE n = Target(need + others) /\ Target(need + others) < cap
      <4>1. need + others <= Target(need + others)
        BY <1>0, <3>1, <3>2, <3>6
      <4> QED BY <1>0, <2>8, <3>1, <3>2, <3>6, <4>1
    <3> QED BY <3>4, <3>5, <3>6
  <2>10. TableInv(tl, n) /\ Rests(tl)
    BY <1>2, <1>4, <2>2, <2>3, <2>9 DEF tl
  <2> QED BY <2>9, <2>10 DEF tl, n
<1>5. Resizes(s, i, need, r)
  BY RightsizedIs
<1> QED BY <1>1, <1>3, <1>4, <1>5 DEF Resizes

\* The request fits into the context of f beside the other slots, and so does all
\* that may be claimed below the ceiling.
Fitting(s, i, need, f) ==
  /\ Sum(Weights(f.slots), Slot \ {i}) + need <= f.cap
  /\ Sum(Claims(f.slots), Slot \ {i}) + Whole(s) <= Ceiling

\* The cells of the other slots, when tl serves no more than the slots do now.
LEMMA RestWeighs ==
  ASSUME Sound(slots), NEW i \in Slot \ Active, NEW tl, Sound(tl),
         \A j \in Slot : Lighter(tl[j], slots[j])
  PROVE  /\ Sum(Weights(tl), Slot \ {i})
              <= Committed + Sum(Weights(tl), (Slot \ Active) \ {i})
         /\ Sum(Claims(tl), Slot \ {i}) <= Committed + OwedBut({})
         /\ Active = {} => Sum(Claims(tl), Slot \ {i}) = 0
         /\ Sum(Weights(tl), Slot \ {i}) \in Nat /\ Sum(Claims(tl), Slot \ {i}) \in Nat
         /\ Sum(Weights(tl), (Slot \ Active) \ {i}) \in Nat
<1>1. /\ Active \in SUBSET Slot /\ Active \ {i} = Active /\ i \in Slot
      /\ (Slot \ Active) \ {i} \in SUBSET Slot /\ Slot \ {i} \in SUBSET Slot
  BY DEF Active
<1>2. /\ Sum(Weights(tl), Active) \in Nat /\ Sum(Weights(tl), (Slot \ Active) \ {i}) \in Nat
      /\ Sum(Claims(tl), Slot \ {i}) \in Nat /\ Committed \in Nat
  BY <1>1, TotalsCount, AllClaims
<1>3. Sum(Weights(tl), Slot \ {i})
        = Sum(Weights(tl), Active) + Sum(Weights(tl), (Slot \ Active) \ {i})
  <2>1. Sum(Weights(tl), Slot \ {i})
          = Sum(Weights(tl), Active \ {i}) + Sum(Weights(tl), (Slot \ Active) \ {i})
    BY <1>1, TotalsCount, SumApart
  <2> QED BY <1>1, <2>1
<1>4. Sum(Weights(tl), Active) <= Committed
  <2>1. \A j \in Active : Weights(tl)[j] <= Reserves(slots)[j]
    BY <1>1 DEF Weights, Reserves, Lighter, Weight, Active
  <2>2. Sum(Weights(tl), Active) <= Sum(Reserves(slots), Active)
    BY <1>1, <2>1, TotalsCount, SumLeq
  <2> QED BY <2>2, CommittedIs
<1>5. Sum(Claims(tl), Slot \ {i}) <= Sum(Claims(slots), Slot)
  <2>1. \A j \in Slot \ {i} : Claims(tl)[j] <= Claims(slots)[j]
    BY DEF Claims, Lighter
  <2> QED BY <1>1, <2>1, TotalsCount, SumLeq
<1>6. Active = {} => Sum(Claims(slots), Slot) = 0
  BY IdleClaimNothing DEF Active, Serving
<1> QED BY <1>2, <1>3, <1>4, <1>5, <1>6, AllClaims

\* Slots that are neither running nor hold a cache take up nothing.
LEMMA CachesWeigh ==
  ASSUME NEW sl, Sound(sl), NEW i \in Slot \ Active, NEW tl, Sound(tl),
         \A j \in Slot : Lighter(tl[j], sl[j]), Serving(sl) \subseteq Active,
         NEW idle, idle = {j \in Slot \ (Active \cup {i}) : sl[j].kv > 0}
  PROVE  Sum(Weights(tl), (Slot \ Active) \ {i}) = Sum(Weights(tl), idle)
<1> DEFINE empty == ((Slot \ Active) \ {i}) \ idle
<1>1. /\ idle \in SUBSET Slot /\ empty \in SUBSET Slot /\ idle \cap empty = {}
      /\ idle \cup empty = (Slot \ Active) \ {i}
  OBVIOUS
<1>2. \A j \in empty : Weights(tl)[j] = 0
  <2>1. \A j \in empty : j \in Slot /\ sl[j].stream = NONE /\ sl[j].kv = 0
    BY DEF Serving, Sound, Cells
  <2>2. \A j \in empty : Weight(tl[j]) <= 0 /\ Weight(tl[j]) \in Nat
    BY <2>1 DEF Lighter, Weight, Sound, Cells
  <2> QED BY <2>1, <2>2 DEF Weights
<1>3. Sum(Weights(tl), empty) = 0
  BY <1>2, SumZero
<1> HIDE DEF empty
<1>4. Sum(Weights(tl), idle \cup empty) = Sum(Weights(tl), idle) + Sum(Weights(tl), empty)
  BY <1>1, TotalsCount, SumParts
<1>5. Sum(Weights(tl), idle) \in Nat
  BY <1>1, TotalsCount
<1>6. Sum(Weights(tl), (Slot \ Active) \ {i}) = Sum(Weights(tl), idle \cup empty)
  BY <1>1
<1> QED BY <1>3, <1>4, <1>5, <1>6

LEMMA FitTable ==
  ASSUME TableInv(slots, cap), cap \in 0 .. Ceiling, NEW s \in Stream, NEW i \in Slot \ Active,
         NEW need \in Needs(s, i), NEW r \in Rightsized(s, i, need),
         NEW f \in Fits(s, i, need, r)
  PROVE  /\ TableInv(f.slots, f.cap) /\ f.cap \in 0 .. Ceiling /\ Rests(f.slots)
         /\ f.got = "fits" => Fitting(s, i, need, f)
<1> DEFINE total == Committed + need
<1>1. /\ need \in Nat /\ Prompt[s] \in Nat \ {0} /\ Prompt[s] <= need
      /\ Whole(s) \in 0 .. Ceiling /\ need <= Whole(s)
      /\ need < Whole(s) => Active = {}
  BY NeedsIs
<1>2. TableInv(r.slots, r.cap) /\ r.cap \in 0 .. Ceiling /\ Rests(r.slots)
  BY <1>1, RightsizedTable
<1>3. /\ Sound(slots) /\ Sound(r.slots) /\ cap \in Nat /\ r.cap \in Nat /\ Ceiling \in Nat
      /\ i \in Slot /\ Committed \in Nat /\ OwedBut({}) \in Nat /\ total \in Nat
      /\ Active = {} => Committed = 0
  <2>1. Sound(slots) /\ Sound(r.slots) /\ Ceiling \in Nat
    BY <1>2, SchedulerAssumption DEF TableInv
  <2>2. Committed \in Nat /\ OwedBut({}) \in Nat
    BY <2>1, AllClaims
  <2>3. Active = {} => Committed = 0
    BY SumNone DEF Committed
  <2> QED BY <1>1, <1>2, <2>1, <2>2, <2>3
<1>4. Target(total) \in 0 .. Ceiling
  BY <1>3, TargetIs
\* All that may be claimed stays below the ceiling.
<1>5. ASSUME ~MustWait(need), total <= Ceiling, NEW tl, Sound(tl),
             \A j \in Slot : Lighter(tl[j], slots[j])
      PROVE  Sum(Claims(tl), Slot \ {i}) + Whole(s) <= Ceiling
  <2>1. /\ Sum(Claims(tl), Slot \ {i}) <= Committed + OwedBut({})
        /\ Active = {} => Sum(Claims(tl), Slot \ {i}) = 0
        /\ Sum(Claims(tl), Slot \ {i}) \in Nat
    BY <1>3, <1>5, RestWeighs
  <2>2. OwedBut({}) = 0 \/ Committed + OwedBut({}) + need <= Ceiling
    BY <1>1, <1>3, <1>5 DEF MustWait
  <2>3. CASE Active = {}
    BY <1>1, <2>1, <2>3
  <2>4. CASE Active # {}
    <3>1. need = Whole(s)
      BY <1>1, <2>4
    <3> QED BY <1>1, <1>3, <1>5, <2>1, <2>2, <3>1
  <2> QED BY <2>3, <2>4
<1>6. CASE f.got = "wait" /\ f.slots = r.slots /\ f.cap = r.cap
  BY <1>2, <1>6
<1>7. CASE ~MustWait(need) /\ Dropping(i, need, r, f)
  <2> DEFINE idle == {j \in Slot \ (Active \cup {i}) : r.slots[j].kv > 0}
  <2>1. PICK D \in Drops(idle, r.slots, total, r.cap) : f.slots = Dropped(D, r.slots)
    BY <1>7 DEF Dropping
  <2>2. f.cap = r.cap /\ total <= r.cap
    BY <1>7 DEF Dropping
  <2>3. Serving(r.slots) \subseteq Active
    BY <1>2 DEF Rests, Serving, Active
  <2>4. idle \in SUBSET Slot /\ idle \cap Serving(r.slots) = {}
    BY <2>3
  <2>5. D \in SUBSET idle /\ total + Sum(Weights(f.slots), idle) <= r.cap
    <3> HIDE DEF idle, total
    <3> QED BY <1>3, <2>1, <2>2, <2>4, DropsFit
  <2>6. /\ Sound(f.slots) /\ TableInv(f.slots, f.cap)
        /\ \A j \in Slot : Lighter(f.slots[j], r.slots[j])
        /\ \A j \in Slot : f.slots[j].stream # NONE => f.slots[j] = r.slots[j]
    <3>1. D \in SUBSET Slot
      BY <2>4, <2>5
    <3> QED BY <1>2, <1>3, <2>1, <2>2, <3>1, DroppedIs, DroppedTable, IdleServes
  <2>7. /\ \A j \in Slot : Lighter(f.slots[j], slots[j])
        /\ \A j \in Slot : f.slots[j].stream # NONE => f.slots[j] = slots[j]
    <3>1. \A j \in Slot : /\ Weight(f.slots[j]) \in Nat /\ Weight(r.slots[j]) \in Nat
                          /\ Weight(slots[j]) \in Nat /\ Claim(f.slots[j]) \in Nat
                          /\ Claim(r.slots[j]) \in Nat /\ Claim(slots[j]) \in Nat
      BY <1>3, <2>6 DEF Sound, Cells, Weight, Claim
    <3>2. \A j \in Slot : /\ Weight(f.slots[j]) <= Weight(slots[j])
                          /\ Claim(f.slots[j]) <= Claim(slots[j])
      BY <1>2, <2>6, <3>1 DEF Rests, Lighter
    <3>3. \A j \in Slot : f.slots[j].stream # NONE => f.slots[j] = slots[j]
      BY <1>2, <2>6 DEF Rests
    <3> QED BY <3>2, <3>3 DEF Lighter
  <2>8. Sum(Weights(f.slots), (Slot \ Active) \ {i}) = Sum(Weights(f.slots), idle)
    BY <1>3, <2>3, <2>6, CachesWeigh
  <2>9. /\ Sum(Weights(f.slots), Slot \ {i})
             <= Committed + Sum(Weights(f.slots), (Slot \ Active) \ {i})
        /\ Sum(Weights(f.slots), Slot \ {i}) \in Nat
        /\ Sum(Weights(f.slots), (Slot \ Active) \ {i}) \in Nat
    BY <1>3, <2>6, <2>7, RestWeighs
  <2>10. Sum(Weights(f.slots), Slot \ {i}) + need <= f.cap
    <3> HIDE DEF idle
    <3> QED BY <1>1, <1>3, <2>2, <2>5, <2>8, <2>9
  <2>11. Sum(Claims(f.slots), Slot \ {i}) + Whole(s) <= Ceiling
    <3>1. total <= Ceiling
      BY <1>2, <1>3, <2>2
    <3> QED BY <1>5, <1>7, <2>6, <2>7, <3>1
  <2> QED BY <1>2, <2>2, <2>6, <2>7, <2>10, <2>11 DEF Rests, Fitting
<1>8. CASE ~MustWait(need) /\ Growing(s, need, r, f)
  <2> DEFINE sizes == {Target(total)} \cup
                      (IF Whole(s) > need THEN {Target(Committed + Whole(s))} ELSE {})
  <2>1. PICK g \in Growths(sizes) :
          f.slots = AfterGrowth(g) /\ f.cap = g.cap /\ (f.got = "fits" => g.ok)
    BY <1>8 DEF Growing
  <2>2. total <= Target(total) /\ total <= Ceiling
    BY <1>3, <1>4, <1>8 DEF Growing
  <2>3. \A n \in sizes : n \in 0 .. Ceiling /\ total <= n
    <3>1. CASE need < Whole(s)
      <4>1. Committed = 0 /\ Committed + Whole(s) = Whole(s)
        BY <1>1, <1>3, <3>1
      <4>2. Target(Whole(s)) \in 0 .. Ceiling /\ Whole(s) <= Target(Whole(s))
        BY <1>1, TargetIs
      <4> QED BY <1>1, <1>3, <1>4, <2>2, <3>1, <4>1, <4>2
    <3>2. CASE ~(Whole(s) > need)
      BY <1>4, <2>2, <3>2
    <3> QED BY <1>1, <1>3, <3>1, <3>2
  <2>4. /\ g.lost \in SUBSET Active
        /\ (g.ok /\ g.cap \in sizes) \/ (~g.ok /\ g.cap = 0 /\ g.lost = Active)
    <3> HIDE DEF sizes
    <3>1. CASE g \in [ok : {TRUE}, cap : sizes, lost : SUBSET Active]
      BY <3>1
    <3>2. CASE g = [ok |-> FALSE, cap |-> 0, lost |-> Active]
      BY <3>2
    <3> QED BY <3>1, <3>2 DEF Growths
  <2> HIDE DEF sizes
  <2> DEFINE D == (Slot \ Active) \cup g.lost
  <2>5. D \in SUBSET Slot /\ f.slots = Dropped(D, slots)
    BY <2>1, <2>4 DEF AfterGrowth, Active
  <2>6. f.cap \in 0 .. Ceiling /\ f.cap \in Nat /\ (Committed <= f.cap \/ g.lost = Active)
    BY <1>1, <1>3, <2>1, <2>3, <2>4
  <2>7. /\ TableInv(f.slots, f.cap)
        /\ Sum(Weights(f.slots), Slot \ Active) = 0
    <3>1. /\ TableInv(Dropped(D, slots), f.cap)
          /\ Sum(Weights(Dropped(D, slots)), Slot \ Active) = 0
      BY <1>3, <2>4, <2>6, GrownTable
    <3> QED BY <2>5, <3>1
  <2> HIDE DEF D
  <2>8. /\ Sound(f.slots) /\ \A j \in Slot : Lighter(f.slots[j], slots[j])
        /\ \A j \in Slot : f.slots[j].stream # NONE => f.slots[j] = slots[j]
    BY <1>3, <2>5, DroppedIs, IdleServes
  <2>9. f.got = "fits" => Fitting(s, i, need, f)
    <3> SUFFICES ASSUME f.got = "fits" PROVE Fitting(s, i, need, f)
      OBVIOUS
    <3>1. f.cap \in 0 .. Ceiling /\ total <= f.cap
      BY <2>1, <2>3, <2>4
    <3>2. /\ Sum(Weights(f.slots), Slot \ {i})
               <= Committed + Sum(Weights(f.slots), (Slot \ Active) \ {i})
          /\ Sum(Weights(f.slots), Slot \ {i}) \in Nat
          /\ Sum(Weights(f.slots), (Slot \ Active) \ {i}) \in Nat
      BY <1>3, <2>8, RestWeighs
    <3>3. Sum(Weights(f.slots), (Slot \ Active) \ {i}) <= 0
      <4>1. Counts(Weights(f.slots), Slot \ Active) /\ IsFiniteSet(Slot \ Active)
        BY <2>8, TotalsCount
      <4>2. /\ (Slot \ Active) \ {i} \in SUBSET (Slot \ Active)
            /\ Counts(Weights(f.slots), (Slot \ Active) \ {i})
            /\ \A j \in (Slot \ Active) \ {i} : Weights(f.slots)[j] <= Weights(f.slots)[j]
        BY <4>1 DEF Counts
      <4> QED BY <2>7, <4>1, <4>2, SumLeq
    <3>4. Sum(Weights(f.slots), Slot \ {i}) + need <= f.cap
      BY <1>1, <1>3, <3>1, <3>2, <3>3
    <3>5. Sum(Claims(f.slots), Slot \ {i}) + Whole(s) <= Ceiling
      BY <1>5, <1>8, <2>2, <2>8
    <3> QED BY <3>4, <3>5 DEF Fitting
  <2> QED BY <2>6, <2>7, <2>8, <2>9 DEF Rests
<1>9. Fitted(s, i, need, r, f)
  BY <1>3, FitIs
<1> QED BY <1>6, <1>7, <1>8, <1>9 DEF Fitted
-----------------------------------------------------------------------------
(* Admissions and the other steps. *)

LEMMA AssignedServes ==
  ASSUME NEW s \in Stream, NEW need \in Nat, Prompt[s] <= need, need <= Whole(s),
         Whole(s) \in Nat, NEW k \in Nat, k < Prompt[s]
  PROVE  /\ Cells(Assigned(s, need, k)) /\ Serves(Assigned(s, need, k))
         /\ Assigned(s, need, k).seen = NONE /\ Assigned(s, need, k).extend = FALSE
         /\ Weight(Assigned(s, need, k)) = need /\ Claim(Assigned(s, need, k)) = Whole(s)
<1> DEFINE e == Assigned(s, need, k)
<1>1. /\ SlotFields \subseteq DOMAIN e
      /\ e.stream = s /\ e.kv = k /\ e.todo = Prompt[s] - k /\ e.pending = FALSE
      /\ e.generated = 0 /\ e.reserve = need /\ e.extend = FALSE /\ e.seen = NONE
      /\ e.promise = IF need < Whole(s) THEN Whole(s) ELSE 0
  BY DEF Assigned, Idle, SlotFields
<1> HIDE DEF e
<1>2. /\ Prompt[s] \in Nat \ {0} /\ Prompt[s] - k \in Nat \ {0} /\ s # NONE
      /\ Budget[s] \in Nat /\ e.promise \in Nat
  BY <1>1, SchedulerAssumption
<1>3. Cells(e)
  <2>1. e.pending \in BOOLEAN /\ e.extend \in BOOLEAN
    BY <1>1
  <2>2. /\ e.kv \in Nat /\ e.todo \in Nat /\ e.generated \in Nat /\ e.reserve \in Nat
        /\ e.promise \in Nat /\ e.stream \in Stream \cup {NONE} /\ (e.extend => e.stream # NONE)
    BY <1>1, <1>2
  <2> QED BY <1>1, <2>1, <2>2 DEF Cells
<1>4. Claim(e) = Whole(s) /\ Weight(e) = need
  BY <1>1, <1>2 DEF Claim, Weight
<1>5. Serves(e)
  BY <1>1, <1>2, <1>4 DEF Serves
<1> QED BY <1>1, <1>3, <1>4, <1>5 DEF e

\* What an admission leaves: the table holds, and a running reply that asks for
\* cells ran before.
LEMMA AdmitRoom ==
  ASSUME TableInv(slots, cap), cap \in 0 .. Ceiling, NEW s \in Stream, NEW i \in Slot,
         AdmitNext(s, i)
  PROVE  /\ TableInv(slots', cap') /\ cap' \in 0 .. Ceiling
         /\ \A j \in Slot : slots'[j].stream # NONE /\ slots'[j].extend => slots'[j] = slots[j]
<1> DEFINE Leads(f, need) ==
      /\ cap' = f.cap
      /\ \/ slots' = f.slots
         \/ f.got = "fits" /\ \E k \in 0 .. Least(f.slots[i].kv, Prompt[s] - 1) :
                                 slots' = [f.slots EXCEPT ![i] = Assigned(s, need, k)]
<1>a. PICK need \in Needs(s, i) :
        \E r \in Rightsized(s, i, need) : \E f \in Fits(s, i, need, r) : Leads(f, need)
  BY DEF AdmitNext
<1>b. PICK r \in Rightsized(s, i, need) : \E f \in Fits(s, i, need, r) : Leads(f, need)
  BY <1>a
<1>1. PICK f \in Fits(s, i, need, r) : Leads(f, need)
  BY <1>b
<1>2. i \in Slot \ Active
  BY DEF AdmitNext
<1>3. /\ TableInv(f.slots, f.cap) /\ f.cap \in 0 .. Ceiling /\ Rests(f.slots)
      /\ f.got = "fits" => Fitting(s, i, need, f)
  BY <1>2, FitTable
<1>4. CASE slots' = f.slots
  BY <1>1, <1>3, <1>4 DEF Rests
<1>5. ASSUME f.got = "fits", NEW k \in 0 .. Least(f.slots[i].kv, Prompt[s] - 1),
             slots' = [f.slots EXCEPT ![i] = Assigned(s, need, k)]
      PROVE  /\ TableInv(slots', cap') /\ cap' \in 0 .. Ceiling
             /\ \A j \in Slot : slots'[j].stream # NONE /\ slots'[j].extend
                                  => slots'[j] = slots[j]
  <2> DEFINE e == Assigned(s, need, k)
  <2>1. /\ need \in Nat /\ Prompt[s] \in Nat \ {0} /\ Prompt[s] <= need
        /\ Whole(s) \in 0 .. Ceiling /\ need <= Whole(s)
    BY NeedsIs
  <2>2. Sound(f.slots) /\ Unstalled(f.slots) /\ Ceiling \in Nat
    BY <1>3, SchedulerAssumption DEF TableInv
  <2>3. k \in Nat /\ k < Prompt[s]
    BY <1>5, <2>1, <2>2 DEF Least, Sound, Cells
  <2>4. /\ Cells(e) /\ Serves(e) /\ e.seen = NONE /\ e.extend = FALSE
        /\ Weight(e) = need /\ Claim(e) = Whole(s)
    <3>1. Whole(s) \in Nat
      BY <2>1, <2>2
    <3> QED BY <2>1, <2>3, <3>1, AssignedServes
  <2> HIDE DEF e
  <2>5. /\ Sum(Weights(f.slots), Slot \ {i}) + Weight(e) <= f.cap
        /\ Sum(Claims(f.slots), Slot \ {i}) + Claim(e) <= Ceiling
    BY <1>3, <1>5, <2>4 DEF Fitting
  <2>6. f.cap \in Nat
    BY <1>3, <2>2
  <2>7. TableInv([f.slots EXCEPT ![i] = e], f.cap)
    BY <2>2, <2>4, <2>5, <2>6, PutTable
  <2>8. slots' = [f.slots EXCEPT ![i] = e]
    BY <1>5 DEF e
  <2>9. slots'[i] = e /\ \A j \in Slot \ {i} : slots'[j] = f.slots[j]
    BY <2>2, <2>8 DEF Sound
  <2> QED BY <1>1, <1>3, <2>4, <2>7, <2>8, <2>9 DEF Rests
<1> QED BY <1>1, <1>4, <1>5

\* The slots of S end their replies: nothing is taken up that was not before.
LEMMA EndedTable ==
  ASSUME NEW c \in Nat, TableInv(slots, c), NEW S,
         slots' = [j \in Slot |-> IF j \in S THEN Idle(slots[j].kv) ELSE slots[j]]
  PROVE  TableInv(slots', c)
<1>1. Sound(slots)
  BY DEF TableInv
<1>2. ASSUME NEW j \in Slot
      PROVE  /\ Cells(Idle(slots[j].kv)) /\ Serves(Idle(slots[j].kv))
             /\ Lighter(Idle(slots[j].kv), slots[j]) /\ Lighter(slots[j], slots[j])
  <2>1. Cells(slots[j]) /\ Serves(slots[j]) /\ slots[j].kv \in Nat
    BY <1>1 DEF Sound, Cells
  <2>2. slots[j].kv <= Weight(slots[j])
    BY <2>1 DEF Weight, Cells, Serves
  <2> QED BY <2>1, <2>2, IdleServes, IdleIsLighter, SameIsLighter
<1>3. Sound(slots') /\ \A j \in Slot : Lighter(slots'[j], slots[j])
  BY <1>1, <1>2 DEF Sound
<1> QED BY <1>3, LighterTable

\* Emptied caches.
LEMMA EmptiedTable ==
  ASSUME NEW c \in Nat, TableInv(slots, c), Active = {},
         slots' = [j \in Slot |-> [slots[j] EXCEPT !.kv = 0]]
  PROVE  TableInv(slots', c) /\ \A j \in Slot : slots'[j].stream = NONE
<1>1. Sound(slots)
  BY DEF TableInv
<1>2. ASSUME NEW j \in Slot
      PROVE  /\ Cells(slots'[j]) /\ Serves(slots'[j]) /\ Lighter(slots'[j], slots[j])
             /\ slots'[j].stream = NONE
  <2> DEFINE e == slots[j]
             d == [e EXCEPT !.kv = 0]
  <2>1. Cells(e) /\ e.stream = NONE
    BY <1>1 DEF Sound, Active
  <2>2. /\ DOMAIN d = DOMAIN e /\ d.kv = 0 /\ d.todo = e.todo /\ d.generated = e.generated
        /\ d.reserve = e.reserve /\ d.promise = e.promise /\ d.pending = e.pending
        /\ d.extend = e.extend /\ d.stream = e.stream
    BY <2>1 DEF Cells, SlotFields
  <2>3. slots'[j] = d
    OBVIOUS
  <2> HIDE DEF d, e
  <2>4. Cells(d) /\ Serves(d) /\ Lighter(d, e) /\ d.stream = NONE
    BY <2>1, <2>2 DEF Cells, Serves, Lighter, Weight, Claim
  <2> QED BY <2>3, <2>4 DEF e
<1>3. Sound(slots') /\ \A j \in Slot : Lighter(slots'[j], slots[j])
  BY <1>1, <1>2 DEF Sound
<1> QED BY <1>2, <1>3, LighterTable

\* Nothing is cached and nobody runs: any context will do.
LEMMA EmptyTable ==
  ASSUME NEW c \in Nat, NEW sl, Sound(sl), \A j \in Slot : sl[j].kv = 0 /\ sl[j].stream = NONE
  PROVE  TableInv(sl, c)
<1>1. Sum(Weights(sl), Slot) = 0 /\ Sum(Claims(sl), Slot) = 0
  BY SumZero DEF Weights, Weight, Claims, Claim
<1>2. Unstalled(sl)
  BY DEF Unstalled
<1> QED BY <1>1, <1>2, SchedulerAssumption DEF TableInv

LEMMA InitRoom == Init => RoomInv
<1> SUFFICES ASSUME Init PROVE RoomInv
  OBVIOUS
<1>1. Sound(slots) /\ \A j \in Slot : slots[j].kv = 0 /\ slots[j].stream = NONE
  BY IdleServes DEF Init, Sound
<1>2. cap \in 0 .. Ceiling /\ cap \in Nat
  BY SchedulerAssumption DEF Init
<1>3. TableInv(slots, cap)
  BY <1>1, <1>2, EmptyTable
<1> QED BY <1>1, <1>2, <1>3 DEF RoomInv, Init

\* While a section is held the thread is outside its steps.
LEMMA HeldIsIdle ==
  ASSUME SectionAlone, Held # {}
  PROVE  Active = {} /\ pc \notin {"check", "extend", "admit", "decode"}
BY DEF SectionAlone, InScope

LEMMA StepRoom == AloneInv /\ CacheInv /\ RoomInv /\ [Next]_vars => RoomInv'
<1> SUFFICES ASSUME Shaped, SectionAlone, CacheInv, RoomInv, [Next]_vars PROVE RoomInv'
  BY DEF AloneInv
<1>0. /\ TableInv(slots, cap) /\ Sound(slots) /\ cap \in 0 .. Ceiling /\ cap \in Nat
      /\ Ceiling \in Nat
  BY SchedulerAssumption DEF RoomInv, TableInv
<1>1. CASE \E i \in Slot : Extend(i)
  <2>1. PICK i \in Slot : Extend(i)
    BY <1>1
  <2>2. Turned(i) /\ toExtend' = toExtend \ {i} /\ pc = "extend" /\ UNCHANGED <<pc, xpc>>
    BY <1>0, <2>1, ExtendRoom
  <2>3. Held = {} /\ Held' = {}
    BY <2>2, HeldIsIdle DEF Held
  <2>4. ASSUME NEW j \in Active' \ toExtend', slots'[j].extend
        PROVE  slots'[j].seen # NONE
    <3>1. j \in Slot /\ slots'[j].stream # NONE
      BY <2>4 DEF Active
    <3>2. CASE j # i /\ slots'[j] = slots[j]
      <4>1. j \in Active \ toExtend /\ slots[j].extend
        BY <2>2, <2>4, <3>1, <3>2 DEF Active
      <4> QED BY <2>2, <3>2, <4>1 DEF RoomInv
    <3> QED BY <2>2, <2>4, <3>1, <3>2 DEF Turned
  <2> QED BY <2>2, <2>3, <2>4 DEF RoomInv, Turned
<1>2. CASE Decode
  <2>1. TableInv(slots', cap') /\ UNCHANGED <<cap, xpc>> /\ pc' = "check"
    BY <1>2, DecodeRoom
  <2>2. Held' = {}
    BY <1>2, <2>1, HeldIsIdle DEF Held, Decode
  <2> QED BY <1>0, <2>1, <2>2 DEF RoomInv
<1>3. CASE BeginStep
  <2>1. UNCHANGED <<cap, xpc>> /\ pc = "check"
    BY <1>3 DEF BeginStep
  <2>2. Held' = {}
    BY <2>1, HeldIsIdle DEF Held
  <2>3. CASE pc' = "abort" /\ UNCHANGED slots
    BY <1>0, <2>1, <2>2, <2>3 DEF RoomInv
  <2>4. ASSUME NEW over, pc' = "extend", toExtend' = Active \ over,
               slots' = [i \in Slot |-> IF i \in over THEN Idle(slots[i].kv) ELSE slots[i]]
        PROVE  RoomInv'
    <3>1. TableInv(slots', cap')
      BY <1>0, <2>1, <2>4, EndedTable
    <3>2. Active' \subseteq toExtend'
      BY <2>4, IdleIsIdle DEF Active
    <3> QED BY <1>0, <2>1, <2>2, <2>4, <3>1, <3>2 DEF RoomInv
  <2> QED BY <1>3, <2>3, <2>4 DEF BeginStep
<1>4. CASE Abort
  <2>1. /\ slots' = [i \in Slot |-> IF i \in Slot THEN Idle(slots[i].kv) ELSE slots[i]]
        /\ UNCHANGED <<cap, xpc>> /\ pc' = "gone"
    BY <1>4 DEF Abort
  <2>2. TableInv(slots', cap')
    BY <1>0, <2>1, EndedTable
  <2>3. Held' # {} => \A j \in Slot : slots'[j].kv = 0
    <3>1. \A j \in Slot : Idle(slots[j].kv).kv = slots[j].kv
      BY DEF Idle
    <3> QED BY <2>1, <3>1 DEF RoomInv, Held
  <2> QED BY <1>0, <2>1, <2>2, <2>3 DEF RoomInv
<1>5. CASE BeginAdmission
  <2>1. /\ pc = "extend" /\ toExtend = {} /\ UNCHANGED <<cap, xpc, toExtend>>
        /\ pc' \in {"admit", "decode"}
        /\ \/ UNCHANGED slots
           \/ dirty /\ slots' = [i \in Slot |-> [slots[i] EXCEPT !.kv = 0]]
    <3>1. CASE pc' = "decode" /\ UNCHANGED slots
      BY <1>5, <3>1 DEF BeginAdmission
    <3>2. CASE /\ pc' = "admit"
               /\ slots' = [i \in Slot |-> IF dirty THEN [slots[i] EXCEPT !.kv = 0] ELSE slots[i]]
      BY <1>0, <1>5, <3>2 DEF BeginAdmission, Sound
    <3> QED BY <1>5, <3>1, <3>2 DEF BeginAdmission
  <2>2. Held' = {}
    BY <2>1, HeldIsIdle DEF Held
  <2>3. CASE UNCHANGED slots
    BY <2>1, <2>2, <2>3 DEF RoomInv, Active
  <2>4. CASE dirty /\ slots' = [i \in Slot |-> [slots[i] EXCEPT !.kv = 0]]
    <3>1. Active = {}
      BY <2>4 DEF CacheInv
    <3>2. TableInv(slots', cap) /\ \A j \in Slot : slots'[j].stream = NONE
      BY <1>0, <2>4, <3>1, EmptiedTable
    <3>3. Active' = {}
      BY <3>2 DEF Active
    <3> QED BY <1>0, <2>1, <2>2, <3>2, <3>3 DEF RoomInv
  <2> QED BY <2>1, <2>3, <2>4
<1>6. CASE \E s \in Stream, i \in Slot : AdmitNext(s, i)
  <2>1. PICK s \in Stream, i \in Slot : AdmitNext(s, i)
    BY <1>6
  <2>2. /\ TableInv(slots', cap') /\ cap' \in 0 .. Ceiling
        /\ \A j \in Slot : slots'[j].stream # NONE /\ slots'[j].extend => slots'[j] = slots[j]
    BY <1>0, <2>1, AdmitRoom
  <2>3. pc = "admit" /\ UNCHANGED <<xpc, toExtend>> /\ pc' \in {"admit", "decode"}
    BY <2>1 DEF AdmitNext
  <2>4. Held' = {} /\ toExtend' = {} /\ toExtend = {}
    BY <2>3, HeldIsIdle DEF Held, RoomInv
  <2>5. ASSUME NEW j \in Active', slots'[j].extend PROVE slots'[j].seen # NONE
    <3>1. slots'[j] = slots[j] /\ j \in Active
      BY <2>2, <2>5 DEF Active
    <3> QED BY <2>3, <2>4, <2>5, <3>1 DEF RoomInv
  <2> QED BY <2>2, <2>3, <2>4, <2>5 DEF RoomInv
<1>7. CASE \E c \in Caller : ExclusiveEnter(c)
  <2>1. slots' = [i \in Slot |-> Idle(0)] /\ UNCHANGED <<cap, pc, toExtend>>
    BY <1>7 DEF ExclusiveEnter
  <2>2. Sound(slots') /\ \A j \in Slot : slots'[j].kv = 0 /\ slots'[j].stream = NONE
    BY <2>1, IdleServes DEF Sound
  <2>3. TableInv(slots', cap')
    BY <1>0, <2>1, <2>2, EmptyTable
  <2>4. Active' = {}
    BY <2>2 DEF Active
  <2> QED BY <1>0, <2>1, <2>2, <2>3, <2>4 DEF RoomInv
<1>8. CASE \E c \in Caller : ExclusiveLeave(c)
  <2>1. PICK c \in Caller : ExclusiveLeave(c)
    BY <1>8
  <2>2. UNCHANGED <<slots, pc, toExtend>> /\ cap' \in Sizes \cup {0} /\ c \in Held
    BY <2>1 DEF ExclusiveLeave, At, Held
  <2>3. /\ Active = {} /\ pc \notin {"extend", "admit", "decode"}
        /\ \A j \in Slot : slots[j].kv = 0
    BY <2>2, HeldIsIdle DEF RoomInv
  <2>4. cap' \in 0 .. Ceiling /\ cap' \in Nat
    <3>1. \A n \in 1 .. Ceiling : Target(n) \in 0 .. Ceiling
      BY <1>0, TargetIs
    <3> QED BY <1>0, <2>2, <3>1 DEF Sizes
  <2>5. TableInv(slots', cap')
    <3>1. \A j \in Slot : slots[j].kv = 0 /\ slots[j].stream = NONE
      BY <2>3 DEF Active
    <3> QED BY <1>0, <2>2, <2>4, <3>1, EmptyTable
  <2> QED BY <2>2, <2>3, <2>4, <2>5 DEF RoomInv
<1>9. CASE \/ \E s \in Stream : Submit(s) \/ CancelReply(s)
           \/ \E c \in Caller : ExclusiveAsk(c) \/ ExclusiveGiveUp(c)
           \/ Stop \/ Close \/ IdleReap \/ EnterScope \/ LeaveScope \/ AdmissionOver
           \/ CloseDown \/ StepFails \/ UNCHANGED vars
  <2>1. /\ UNCHANGED <<slots, cap, toExtend>> /\ Held' \subseteq Held
        /\ \/ UNCHANGED pc \/ pc' \notin {"extend", "admit", "decode"}
           \/ pc = "admit" /\ pc' = "decode"
    <3>1. CASE \E s \in Stream : Submit(s) \/ CancelReply(s)
      BY <3>1 DEF Submit, CancelReply, Held
    <3>2. CASE \E c \in Caller : ExclusiveAsk(c) \/ ExclusiveGiveUp(c)
      BY <3>2 DEF ExclusiveAsk, ExclusiveGiveUp, At, Held, SectionAlone, sched
    <3>3. CASE Stop \/ Close \/ UNCHANGED vars
      BY <3>3 DEF Stop, Close, vars, sched, Held
    <3>4. CASE IdleReap \/ EnterScope \/ LeaveScope \/ AdmissionOver \/ CloseDown \/ StepFails
      BY <3>4 DEF IdleReap, EnterScope, LeaveScope, AdmissionOver, CloseDown, StepFails, Held
    <3> QED BY <1>9, <3>1, <3>2, <3>3, <3>4
  <2> QED BY <2>1 DEF RoomInv, Active
<1> QED
  BY <1>1, <1>2, <1>3, <1>4, <1>5, <1>6, <1>7, <1>8, <1>9 DEF Next, Thread

LEMMA AlwaysRoom == Spec => [](AloneInv /\ CacheInv /\ RoomInv)
BY InitAlone, StepAlone, InitCached, StepCached, InitRoom, StepRoom, PTL DEF Spec

\* The cells reserved for running replies, with the cells idle caches hold, fit
\* the context, and no reply uses more cells than it reserved (CellsFit).
THEOREM ContextIsEnough == Spec => []CellsFit
<1>1. ASSUME RoomInv PROVE CellsFit
  <2>1. Sound(slots) /\ Sum(Weights(slots), Slot) <= cap /\ Serving(slots) = Active
    BY <1>1 DEF RoomInv, TableInv, Serving, Active
  <2>2. Committed + CellsIn(Slot \ Active, slots) <= cap
    BY <2>1, WeightsAre, CommittedIs
  <2> QED BY <2>1, <2>2 DEF CellsFit, Sound, Serves, Active
<1> QED BY <1>1, AlwaysRoom, PTL

\* The cells promised to replies that were admitted with less can still be
\* reserved below the ceiling, and such a reply never pauses (PromisesFit).
THEOREM PromisesAreSafe == Spec => []PromisesFit
<1>1. ASSUME RoomInv PROVE PromisesFit
  <2>1. Sound(slots) /\ Sum(Claims(slots), Slot) <= Ceiling
    BY <1>1 DEF RoomInv, TableInv
  <2>2. Committed + OwedBut({}) <= Ceiling
    BY <2>1, AllClaims
  <2>3. \A i \in Active : Paused(i) => ~Promised(i)
    <3>1. \A i \in Active : /\ slots[i].promise \in Nat /\ slots[i].reserve \in Nat
                            /\ slots[i].seen # NONE => slots[i].promise <= slots[i].reserve
      BY <2>1 DEF Sound, Cells, Serves, Active
    <3> QED BY <3>1 DEF Paused, Promised
  <2> QED BY <2>2, <2>3 DEF PromisesFit
<1> QED BY <1>1, AlwaysRoom, PTL

\* Between steps, when every running reply is paused, one of them tries again
\* in this step: one saw more cells reserved by others than are now (NoStall).
THEOREM RepliesNeverWaitForEachOther == Spec => []NoStall
<1>1. ASSUME RoomInv PROVE NoStall
  <2> SUFFICES ASSUME Active # {}, \A i \in Active : Paused(i)
               PROVE  \E i \in Active : slots[i].seen # RoomKey(i)
    BY DEF NoStall
  <2>1. Sound(slots) /\ Unstalled(slots)
    BY <1>1 DEF RoomInv, TableInv
  <2>2. Active \in SUBSET {i \in Slot : slots[i].stream # NONE /\ slots[i].seen # NONE}
    BY DEF Active, Paused
  <2>3. PICK i \in Active : Sum(Reserves(slots), Active \ {i}) < slots[i].seen[1]
    BY <2>1, <2>2 DEF Unstalled
  <2>4. /\ Committed - slots[i].reserve = Sum(Reserves(slots), Active \ {i})
        /\ Sum(Reserves(slots), Active \ {i}) \in Nat
    BY <2>1, OtherClaims
  <2>5. slots[i].seen[1] \in Nat
    BY <2>1 DEF Sound, Serves, Active, Paused
  <2>6. RoomKey(i)[1] = Committed - slots[i].reserve
    BY DEF RoomKey
  <2>7. slots[i].seen # RoomKey(i)
    BY <2>3, <2>4, <2>5, <2>6
  <2> QED BY <2>7
<1> QED BY <1>1, AlwaysRoom, PTL

\* A reply that asks for more cells, and whose prompt and budget fit the ceiling,
\* was promised them, and the promise is kept.
LEMMA BudgetIsPromised ==
  ASSUME TableInv(slots, cap), NEW i \in Active, slots[i].extend,
         Budget[slots[i].stream] > 0,
         Prompt[slots[i].stream] + Budget[slots[i].stream] + Pad <= Ceiling
  PROVE  Promised(i) /\ ~ExtendRefused(i)
<1> DEFINE e == slots[i]
           s == e.stream
<1>1. Cells(e) /\ Serves(e) /\ s \in Stream /\ Sound(slots)
  BY DEF TableInv, Sound, Cells, Active
<1>2. /\ e.reserve \in Nat /\ e.promise \in Nat /\ e.kv \in Nat /\ e.todo \in Nat
      /\ e.generated \in Nat /\ Prompt[s] \in Nat /\ Budget[s] \in Nat /\ Pad \in Nat
      /\ Ceiling \in Nat
  BY <1>1, SchedulerAssumption DEF Cells
<1>3. Whole(s) = Prompt[s] + Budget[s] + Pad
  BY <1>2 DEF Whole, Least
<1>4. /\ e.pending /\ e.todo = 0 /\ e.kv = e.reserve /\ e.generated < Budget[s]
      /\ e.kv + e.todo + 1 = Prompt[s] + e.generated /\ Claim(e) >= Whole(s)
  BY <1>1 DEF Serves, Active
<1>5. Promised(i)
  BY <1>2, <1>3, <1>4 DEF Promised, Claim, Active
<1>6. ASSUME ExtendRefused(i) PROVE FALSE
  <2>1. MayTry(i)
    BY <1>5 DEF MayTry, Exhausted, PromisedAway
  <2>2. Want(i) \in Nat /\ Want(i) <= e.promise
    BY <1>1, <1>5, <2>1, WantIs
  <2>3. /\ Total(i) \in Nat /\ Total(i) <= Ceiling
        /\ TotalWith(i, e.promise) \in Nat /\ TotalWith(i, e.promise) <= Ceiling
    <3>1. ASSUME NEW n \in Nat, n <= slots[i].promise
          PROVE  TotalWith(i, n) \in Nat /\ TotalWith(i, n) <= Ceiling
      BY <1>5, <3>1, TotalsFit
    <3> QED BY <1>2, <2>2, <3>1 DEF Total
  <2>4. Total(i) <= Target(Total(i)) /\ TotalWith(i, e.promise) <= Target(TotalWith(i, e.promise))
    BY <2>3, TargetIs
  <2>5. Target(Total(i)) \in 0 .. Ceiling /\ Target(TotalWith(i, e.promise)) \in 0 .. Ceiling
    BY <2>3, TargetIs
  <2>6. \/ Target(Total(i)) < Total(i)
        \/ Target(TotalWith(i, slots[i].promise)) < TotalWith(i, slots[i].promise)
    BY <1>5, <1>6, <2>1 DEF ExtendRefused, MayTry
  <2> QED BY <1>2, <2>3, <2>4, <2>5, <2>6
<1> QED BY <1>5, <1>6

\* What a step of _extend_pending tells a reply that it ends with "length".
LEMMA BudgetStepHolds ==
  ASSUME Shaped, RoomInv, OnePlace, [Next]_vars, NEW s \in Stream
  PROVE  BudgetStep(s)
<1> SUFFICES ASSUME pc = "extend", Len(ended'[s]) > Len(ended[s]),
                    ended'[s][Len(ended'[s])] = "length",
                    Budget[s] > 0, Prompt[s] + Budget[s] + Pad <= Ceiling
             PROVE  FALSE
  BY DEF BudgetStep, CutShort
<1>1. ended[s] \in Seq(Reason) /\ TableInv(slots, cap)
  BY DEF OnePlace, RoomInv
<1>2. ended'[s] # ended[s]
  BY <1>1
<1>3. PICK i \in Slot : Extend(i)
  <2>1. UNCHANGED ended \/ \E i \in Slot : Extend(i)
    BY DEF Next, Thread, vars, sched, Submit, CancelReply, Stop, Close, ExclusiveAsk,
       ExclusiveEnter, ExclusiveGiveUp, ExclusiveLeave, IdleReap, EnterScope, LeaveScope,
       BeginStep, AdmitNext, BeginAdmission, AdmissionOver, Decode, CloseDown, Abort, StepFails
  <2> QED BY <1>2, <2>1
<1>4. ASSUME NEW I \in SUBSET Slot, NEW r, ended' = Everyone(I, r)
      PROVE  s \in Served(I) /\ ended'[s] = Append(ended[s], r)
  <2>1. ended' = [x \in Stream |-> IF x \in Served(I) THEN Append(ended[x], r) ELSE ended[x]]
    BY <1>4, EveryoneIs
  <2>2. ended'[s] = IF s \in Served(I) THEN Append(ended[s], r) ELSE ended[s]
    BY <2>1
  <2> QED BY <1>2, <2>2
<1>5. CASE ExtendRefused(i)
  <2>1. slots[i].extend /\ \E w, sl : NoCells(i, w, sl)
    BY <1>5 DEF ExtendRefused, Due
  <2>2. ended' = Everyone({i}, "length")
    BY <1>2, <2>1 DEF NoCells
  <2>3. s \in Served({i})
    BY <1>4, <2>2
  <2>4. i \in Active /\ slots[i].stream = s
    BY <2>3 DEF Served
  <2> QED BY <1>1, <1>5, <2>1, <2>4, BudgetIsPromised
<1>6. CASE ExtendByGrowth(i)
  <2>1. \E way \in GrowthsFor(i) : \E g \in Growths({way[1]}) : ended' = Everyone(g.lost, "error")
    BY <1>6 DEF ExtendByGrowth
  <2>2. PICK lost \in SUBSET Slot : ended' = Everyone(lost, "error")
    BY <2>1, GrowthLoses DEF Active
  <2>3. ended'[s] = Append(ended[s], "error")
    BY <1>4, <2>2
  <2>4. ended'[s][Len(ended'[s])] = "error"
    BY <1>1, <2>3 DEF Reason
  <2> QED BY <2>4
<1> QED BY <1>2, <1>3, <1>5, <1>6 DEF Extend, NotDue, ExtendInPlace

\* A reply whose prompt and budget fit the ceiling is never cut short for want of
\* cells (BudgetIsHonoured).
THEOREM BudgetsAreHonoured == Spec => BudgetIsHonoured
<1>1. AloneInv /\ RoomInv /\ OnePlace /\ [Next]_vars => [\A s \in Stream : BudgetStep(s)]_vars
  BY BudgetStepHolds DEF AloneInv
<1>2. Spec => []OnePlace
  BY InitPlaced, StepPlaced, AlwaysAlone, PTL DEF Spec
<1> QED BY <1>1, <1>2, AlwaysRoom, PTL DEF Spec, BudgetIsHonoured
-----------------------------------------------------------------------------
(* Every variable has its type: for the slots, that each step leaves records *)
(* of the fields of a slot and no other, whatever choices it makes.          *)

Slots == [Slot -> SlotRecord]

LEMMA IdleIsRecord ==
  ASSUME NEW kv \in Nat
  PROVE  Idle(kv) \in SlotRecord
BY DEF Idle, SlotRecord

LEMMA DroppedIsSlots ==
  ASSUME NEW sl \in Slots, NEW D
  PROVE  Dropped(D, sl) \in Slots
BY IdleIsRecord DEF Slots, Dropped

LEMMA EmptiedIsSlots ==
  ASSUME NEW kv, \A j \in Slot : kv[j] \in Nat
  PROVE  [j \in Slot |-> Idle(kv[j])] \in Slots
BY IdleIsRecord DEF Slots

LEMMA PutIsSlots ==
  ASSUME NEW sl \in Slots, NEW i \in Slot, NEW e \in SlotRecord
  PROVE  [sl EXCEPT ![i] = e] \in Slots
BY DEF Slots

LEMMA ExtendedIsSlots ==
  ASSUME NEW sl \in Slots, NEW i \in Slot, NEW n \in Nat
  PROVE  Extended(i, n, sl) \in Slots
<1> DEFINE e == [sl[i] EXCEPT !.reserve = n, !.extend = FALSE, !.seen = NONE]
<1>1. sl[i] \in SlotRecord
  BY DEF Slots
<1>2. e \in SlotRecord
  BY <1>1 DEF SlotRecord
<1>3. Extended(i, n, sl) = [sl EXCEPT ![i] = e]
  BY DEF Slots, Extended
<1> HIDE DEF e
<1> QED BY <1>2, <1>3, PutIsSlots

LEMMA NoCellsIsSlots ==
  ASSUME Sound(slots), cap \in Nat, NEW i \in Active, NEW sl \in Slots, NEW w, NoCells(i, w, sl)
  PROVE  slots' \in Slots
<1>0. i \in Slot
  BY DEF Active
<1>1. RoomKey(i) \in Nat \X Nat
  BY <1>0, OtherClaims DEF RoomKey
<1>2. sl[i] \in SlotRecord
  BY <1>0 DEF Slots
<1>3. CASE slots' = [sl EXCEPT ![i].seen = RoomKey(i)]
  <2> DEFINE e == [sl[i] EXCEPT !.seen = RoomKey(i)]
  <2>1. e \in SlotRecord
    BY <1>1, <1>2 DEF SlotRecord
  <2>2. slots' = [sl EXCEPT ![i] = e]
    BY <1>3
  <2> HIDE DEF e
  <2> QED BY <1>0, <2>1, <2>2, PutIsSlots
<1>4. CASE slots' = [sl EXCEPT ![i] = Idle(sl[i].kv)]
  <2>1. sl[i].kv \in Nat
    BY <1>2 DEF SlotRecord
  <2> QED BY <1>0, <1>4, <2>1, IdleIsRecord, PutIsSlots
<1> QED BY <1>3, <1>4 DEF NoCells

LEMMA ExtendIsSlots ==
  ASSUME slots \in Slots, TableInv(slots, cap), cap \in 0 .. Ceiling, NEW i \in Slot, Extend(i)
  PROVE  slots' \in Slots
<1>0. Sound(slots) /\ cap \in Nat
  BY SchedulerAssumption DEF TableInv
<1>1. Due(i) => i \in Active
  BY <1>0 DEF Due, Sound, Cells, Active
<1>2. CASE NotDue(i)
  BY <1>2 DEF NotDue
<1>3. CASE ExtendRefused(i)
  <2>1. i \in Active /\ \E w : NoCells(i, w, slots) \/ NoCells(i, w, AllIdle(i))
    BY <1>1, <1>3 DEF ExtendRefused
  <2>2. AllIdle(i) \in Slots
    BY DroppedIsSlots DEF AllIdle
  <2> QED BY <1>0, <2>1, <2>2, NoCellsIsSlots
<1>4. CASE ExtendInPlace(i)
  <2>1. PICK D : slots' = Extended(i, Want(i), Dropped(D, slots))
    BY <1>4 DEF ExtendInPlace
  <2>2. Want(i) \in Nat
    BY <1>0, <1>1, <1>4, WantIs DEF ExtendInPlace
  <2> QED BY <2>1, <2>2, DroppedIsSlots, ExtendedIsSlots
<1>5. CASE ExtendByGrowth(i)
  <2>1. PICK way \in GrowthsFor(i) : \E g \in Growths({way[1]}) :
          slots' = IF i \in g.lost THEN AfterGrowth(g) ELSE Extended(i, way[2], AfterGrowth(g))
    BY <1>5 DEF ExtendByGrowth
  <2>2. way[2] \in Nat
    BY <1>1, <1>5, WaysFit DEF ExtendByGrowth, Gives
  <2>3. \A g : AfterGrowth(g) \in Slots
    BY DroppedIsSlots DEF AfterGrowth
  <2> QED BY <2>1, <2>2, <2>3, ExtendedIsSlots
<1> QED BY <1>2, <1>3, <1>4, <1>5 DEF Extend

LEMMA PartIsRecord ==
  ASSUME NEW i \in Slot, slots[i] \in SlotRecord, NEW n \in Nat, n <= slots[i].todo, NEW o
  PROVE  After(i, n, o) \in SlotRecord
<1> DEFINE e  == slots[i]
           kv == e.kv + (IF e.pending THEN 1 ELSE n)
           x  == kv + 1 > e.reserve
<1>1. e.todo - n \in Nat /\ kv \in Nat /\ e.generated + 1 \in Nat
  BY DEF SlotRecord
<1>2. \/ After(i, n, o) = Idle(0) \/ After(i, n, o) = Idle(kv)
      \/ After(i, n, o) = [e EXCEPT !.kv = kv, !.todo = e.todo - n]
      \/ After(i, n, o) = [e EXCEPT !.kv = kv, !.todo = 0, !.pending = TRUE,
                                    !.generated = e.generated + 1, !.extend = x]
  BY DEF After
<1>3. x \in BOOLEAN
  OBVIOUS
<1> HIDE DEF kv, x
<1>4. [e EXCEPT !.kv = kv, !.todo = e.todo - n] \in SlotRecord
  BY <1>1 DEF SlotRecord
<1>5. [e EXCEPT !.kv = kv, !.todo = 0, !.pending = TRUE,
                !.generated = e.generated + 1, !.extend = x] \in SlotRecord
  BY <1>1, <1>3 DEF SlotRecord
<1> QED BY <1>1, <1>2, <1>4, <1>5, IdleIsRecord

LEMMA DecodeIsSlots ==
  ASSUME slots \in Slots, Decode
  PROVE  slots' \in Slots
<1> DEFINE plan(n) == Decoding \cup {i \in Filling : n[i] > 0}
           part(n) == [i \in plan(n) |-> IF i \in Filling THEN n[i] ELSE 0]
           next(n, o) == [i \in Slot |-> IF i \in plan(n) THEN After(i, part(n)[i], o[i])
                                         ELSE slots[i]]
<1>0. \E n \in Chunks : \E o \in [plan(n) -> Outcome] : slots' = next(n, o)
  BY DEF Decode
<1>1. PICK n \in Chunks : \E o : slots' = next(n, o)
  <2> HIDE DEF plan, next
  <2> QED BY <1>0
<1>2. PICK o : slots' = next(n, o)
  <2> HIDE DEF plan, next
  <2> QED BY <1>1
<1>3. ASSUME NEW i \in plan(n) PROVE After(i, part(n)[i], o[i]) \in SlotRecord
  <2>1. /\ i \in Slot /\ slots[i] \in SlotRecord
        /\ part(n)[i] = IF i \in Filling THEN n[i] ELSE 0
    BY DEF Decoding, Filling, Active, Slots
  <2>2. slots[i].todo \in Nat /\ (i \in Filling => n[i] \in Nat /\ n[i] <= slots[i].todo)
    BY <2>1, SchedulerAssumption DEF Chunks, SlotRecord
  <2>3. part(n)[i] \in Nat /\ part(n)[i] <= slots[i].todo
    BY <2>1, <2>2
  <2> HIDE DEF plan, part
  <2> QED BY <2>1, <2>3, PartIsRecord
<1> HIDE DEF plan, part
<1> QED BY <1>2, <1>3 DEF Slots

LEMMA AdmitIsSlots ==
  ASSUME slots \in Slots, admissions \in Nat, NEW s \in Stream, NEW i \in Slot, AdmitNext(s, i)
  PROVE  slots' \in Slots /\ admissions' \in Nat
<1> DEFINE Leads(f, need) ==
      \/ slots' = f.slots
      \/ \E k \in 0 .. Least(f.slots[i].kv, Prompt[s] - 1) :
            slots' = [f.slots EXCEPT ![i] = Assigned(s, need, k)]
<1>a. PICK need \in Needs(s, i) :
        \E r \in Rightsized(s, i, need) : \E f \in Fits(s, i, need, r) : Leads(f, need)
  BY DEF AdmitNext
<1>b. PICK r \in Rightsized(s, i, need) : \E f \in Fits(s, i, need, r) : Leads(f, need)
  BY <1>a
<1>1. PICK f \in Fits(s, i, need, r) : Leads(f, need)
  BY <1>b
<1>2. r.slots \in Slots
  <2>1. \A kv \in Kept(s, i) : \A j \in Slot : kv[j] \in Nat
    BY SchedulerAssumption DEF Kept
  <2>2. Resizes(s, i, need, r)
    BY RightsizedIs
  <2>3. CASE r.slots = slots
    BY <2>3
  <2>4. CASE ~(r.slots = slots)
    <3>1. \E kv : (\A j \in Slot : kv[j] \in Nat) /\ r.slots = [j \in Slot |-> Idle(kv[j])]
      BY <2>1, <2>2, <2>4 DEF Resizes
    <3> QED BY <3>1, EmptiedIsSlots
  <2> QED BY <2>3, <2>4
<1>3. f.slots \in Slots
  <2>1. Leaves(r, f)
    BY FitLeaves
  <2>2. f.slots = r.slots \/ (\E D : f.slots = Dropped(D, r.slots))
                           \/ \E g : f.slots = AfterGrowth(g)
    BY <2>1 DEF Leaves
  <2> QED BY <1>2, <2>2, DroppedIsSlots DEF AfterGrowth
<1>4. ASSUME NEW k \in 0 .. Least(f.slots[i].kv, Prompt[s] - 1)
      PROVE  Assigned(s, need, k) \in SlotRecord
  <2>1. need \in Nat /\ Prompt[s] \in Nat \ {0} /\ Whole(s) \in Nat
    BY NeedsIs
  <2>2. f.slots[i].kv \in Nat
    BY <1>3 DEF Slots, SlotRecord
  <2>3. k \in Nat /\ Prompt[s] - k \in Nat
    BY <2>1, <2>2 DEF Least
  <2> QED BY <2>1, <2>3 DEF Assigned, Idle, SlotRecord
<1>5. slots' \in Slots
  BY <1>1, <1>3, <1>4, PutIsSlots
<1>6. admissions' = admissions \/ admissions' = admissions + 1
  BY DEF AdmitNext
<1> QED BY <1>5, <1>6

\* What the other invariants do not say of the types.
Typed == /\ slots \in Slots /\ admissions \in Nat
         /\ cancelled \subseteq submitted
         /\ dirty \in BOOLEAN /\ touched \in BOOLEAN /\ foreign \in BOOLEAN
         /\ pc \in Places /\ toExtend \subseteq Slot
         /\ closed \in BOOLEAN /\ stopped \in BOOLEAN

LEMMA InitTyped == Init => Typed
<1> SUFFICES ASSUME Init PROVE Typed
  OBVIOUS
<1>1. slots \in Slots
  BY IdleIsRecord DEF Init, Slots
<1> QED BY <1>1 DEF Init, Typed, Places

LEMMA StepTyped == RoomInv /\ Typed /\ [Next]_vars => Typed'
<1> SUFFICES ASSUME RoomInv, Typed, [Next]_vars PROVE Typed'
  OBVIOUS
<1> USE DEF Typed, Places
<1>0. slots \in Slots /\ TableInv(slots, cap) /\ cap \in 0 .. Ceiling
  BY DEF RoomInv
<1>1. CASE \E i \in Slot : Extend(i)
  <2>1. PICK i \in Slot : Extend(i)
    BY <1>1
  <2>2. slots' \in Slots
    BY <1>0, <2>1, ExtendIsSlots
  <2>3. /\ UNCHANGED <<submitted, cancelled, admissions, dirty, pc, closed, stopped>>
        /\ toExtend' = toExtend \ {i}
    BY <2>1 DEF Extend, NotDue, ExtendRefused, ExtendInPlace, ExtendByGrowth, Looked
  <2>4. touched' \in BOOLEAN /\ foreign' \in BOOLEAN
    <3>1. CASE UNCHANGED <<touched, foreign>>
      BY <3>1
    <3>2. CASE ExtendByGrowth(i)
      BY <3>2 DEF ExtendByGrowth
    <3> QED BY <2>1, <3>1, <3>2 DEF Extend, NotDue, ExtendRefused, ExtendInPlace, NoCells
  <2> QED BY <2>2, <2>3, <2>4
<1>2. CASE Decode
  <2>1. slots' \in Slots
    BY <1>0, <1>2, DecodeIsSlots
  <2>2. touched' \in BOOLEAN /\ pc' = "check"
    BY <1>2 DEF Decode
  <2>3. UNCHANGED <<submitted, cancelled, admissions, dirty, foreign, toExtend, closed, stopped>>
    BY <1>2 DEF Decode
  <2> QED BY <2>1, <2>2, <2>3
<1>3. CASE \E s \in Stream, i \in Slot : AdmitNext(s, i)
  <2>1. PICK s \in Stream, i \in Slot : AdmitNext(s, i)
    BY <1>3
  <2>2. slots' \in Slots /\ admissions' \in Nat
    BY <1>0, <2>1, AdmitIsSlots
  <2>3. touched' \in BOOLEAN /\ foreign' \in BOOLEAN /\ (pc' = pc \/ pc' = "decode")
    BY <2>1 DEF AdmitNext
  <2>4. UNCHANGED <<submitted, cancelled, dirty, toExtend, closed, stopped>>
    BY <2>1 DEF AdmitNext
  <2> QED BY <2>2, <2>3, <2>4
<1>4. CASE Reap
  <2>1. \A j \in Slot : slots[j].kv \in Nat
    BY <1>0 DEF Slots, SlotRecord
  <2>2. \/ UNCHANGED slots
        \/ \E over : slots' = [j \in Slot |-> IF j \in over THEN Idle(slots[j].kv) ELSE slots[j]]
        \/ slots' = [j \in Slot |-> Idle(slots[j].kv)]
    BY <1>4 DEF Reap, IdleReap, BeginStep, Abort
  <2>3. slots' \in Slots
    BY <1>0, <2>1, <2>2, IdleIsRecord DEF Slots
  <2>4. UNCHANGED <<submitted, cancelled, admissions, dirty, touched, foreign, stopped>>
    BY <1>4 DEF Reap, IdleReap, BeginStep, Abort
  <2>5. /\ pc' \in Places /\ toExtend' \subseteq Slot
        /\ closed' = closed \/ closed' = TRUE
    BY <1>4 DEF Reap, IdleReap, BeginStep, Abort, Active
  <2> QED BY <2>3, <2>4, <2>5
<1>5. CASE BeginAdmission
  <2>1. ASSUME NEW j \in Slot PROVE [slots[j] EXCEPT !.kv = 0] \in SlotRecord
    <3>1. slots[j] \in SlotRecord
      BY <1>0 DEF Slots
    <3> QED BY <3>1 DEF SlotRecord
  <2>2. \/ UNCHANGED slots
        \/ slots' = [j \in Slot |-> IF dirty THEN [slots[j] EXCEPT !.kv = 0] ELSE slots[j]]
    BY <1>5 DEF BeginAdmission
  <2>3. slots' \in Slots
    BY <1>0, <2>1, <2>2 DEF Slots
  <2>4. UNCHANGED <<submitted, cancelled, admissions, toExtend, closed, stopped>>
    BY <1>5 DEF BeginAdmission
  <2>5. /\ dirty' \in BOOLEAN /\ touched' \in BOOLEAN /\ foreign' \in BOOLEAN
        /\ pc' \in {"admit", "decode"}
    BY <1>5 DEF BeginAdmission
  <2> QED BY <2>3, <2>4, <2>5
<1>6. CASE EnterScope \/ LeaveScope \/ AdmissionOver \/ CloseDown \/ StepFails
  <2>1. /\ UNCHANGED <<submitted, cancelled, slots, admissions, dirty, touched, foreign,
                       toExtend, closed, stopped>>
        /\ pc' \in Places
    BY <1>6 DEF EnterScope, LeaveScope, AdmissionOver, CloseDown, StepFails
  <2> QED BY <2>1
<1>7. CASE \E c \in Caller : ExclusiveEnter(c)
  <2>1. slots' \in Slots
    BY <1>7, IdleIsRecord DEF ExclusiveEnter, Slots
  <2> QED BY <1>7, <2>1 DEF ExclusiveEnter
<1>8. CASE \/ \E c \in Caller : ExclusiveAsk(c) \/ ExclusiveGiveUp(c) \/ ExclusiveLeave(c)
           \/ Stop \/ Close \/ UNCHANGED vars
  <2>1. UNCHANGED <<submitted, cancelled, slots, admissions, touched, pc, toExtend>>
    BY <1>8 DEF ExclusiveAsk, ExclusiveGiveUp, ExclusiveLeave, Stop, Close, vars, sched
  <2>2. dirty' \in BOOLEAN /\ foreign' \in BOOLEAN /\ closed' \in BOOLEAN /\ stopped' \in BOOLEAN
    BY <1>8 DEF ExclusiveAsk, ExclusiveGiveUp, ExclusiveLeave, Stop, Close, vars, sched
  <2> QED BY <2>1, <2>2
<1>9. CASE \E s \in Stream : Submit(s) \/ CancelReply(s)
  <2>1. /\ UNCHANGED <<slots, admissions, dirty, touched, foreign, toExtend, closed, stopped>>
        /\ pc' = pc \/ pc' = "idle"
        /\ submitted \subseteq submitted' /\ cancelled' \subseteq submitted'
    BY <1>9 DEF Submit, CancelReply
  <2> QED BY <2>1
<1> QED
  BY <1>1, <1>2, <1>3, <1>4, <1>5, <1>6, <1>7, <1>8, <1>9 DEF Next, Thread, Reap

\* Every variable has its type: the step of the thread that reads a slot finds
\* each of its fields, whatever a growth, a fit, a pause or a batch made of it.
THEOREM TypeCorrect == Spec => []TypeOK
<1>1. AloneInv /\ RoomInv /\ OnePlace /\ Typed => TypeOK
  BY SchedulerAssumption DEF AloneInv, SectionAlone, RoomInv, OnePlace, Typed, Slots, TypeOK
<1>2. Spec => []OnePlace
  BY InitPlaced, StepPlaced, AlwaysAlone, PTL DEF Spec
<1>3. Spec => []Typed
  BY InitTyped, StepTyped, AlwaysRoom, PTL DEF Spec
<1> QED BY <1>1, <1>2, <1>3, AlwaysRoom, PTL
=============================================================================
