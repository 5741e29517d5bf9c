-------------------------- MODULE MCSlotScheduler --------------------------
(* Instances of SlotScheduler for TLC. *)
EXTENDS SlotScheduler, TLC

CONSTANTS r1, r2, r3, i1, i2

Replies == {r1, r2, r3}
\* Neither has a budget.
TwoReplies == {r2, r3}

\* r1 has a budget, r2 and r3 have none; r3 has the longer prompt.
Prompts == [s \in Stream |-> IF s = r3 THEN 2 ELSE 1]
Budgets == [s \in Stream |-> IF s = r1 THEN 4 ELSE 0]

TwoSlots    == {i1, i2}
\* Slots are only told apart by what they hold.
SlotsAlike  == Permutations(TwoSlots)
=============================================================================
