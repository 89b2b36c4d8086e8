----------------------------- MODULE RingLemmas -----------------------------
(***************************************************************************)
(* Arithmetic of the masked index  index & mask_  of the two real-time     *)
(* loggers: fewer than Capacity consecutive positions never share a slot.  *)
(***************************************************************************)
EXTENDS RtCommon, ModLemmas

\* A position selects a slot of the ring.
LEMMA SlotInSlots ==
  ASSUME NEW i \in Nat
  PROVE  Slot(i) \in Slots
  BY RingAssumption, DivMod DEF Slot, Slots

\* Two positions less than a lap apart select different slots.
LEMMA SlotsDiffer ==
  ASSUME NEW i \in Nat, NEW j \in Nat, i # j, i < j + Capacity, j < i + Capacity
  PROVE  Slot(i) # Slot(j)
<1>0. i \in Int /\ j \in Int
  OBVIOUS
<1>1. CASE i < j
  BY <1>0, <1>1, RingAssumption, RemaindersDiffer DEF Slot
<1>2. CASE j < i
  BY <1>0, <1>2, RingAssumption, RemaindersDiffer DEF Slot
<1> QED
  BY <1>1, <1>2

\* The positions of the first lap select the slot of the same number.
LEMMA SlotFirstLap ==
  ASSUME NEW i \in Slots
  PROVE  Slot(i) = i
  BY RingAssumption, SmallRemainder DEF Slot, Slots

\* A lap later, the position selects the same slot again.
LEMMA SlotNextLap ==
  ASSUME NEW i \in Nat
  PROVE  Slot(i + Capacity) = Slot(i)
<1>1. Capacity \in Nat \ {0} /\ Capacity * 1 = Capacity
  BY RingAssumption
<1>2. i + Capacity = i + Capacity * 1 /\ i + Capacity \in Int /\ i \in Int
  BY <1>1
<1>3. 1 \in Int
  OBVIOUS
<1> QED
  BY <1>1, <1>2, <1>3, SameRemainder, Zenon DEF Slot
=============================================================================
