----------------------------- MODULE DslHistory -----------------------------
(***************************************************************************)
(* What DslRecordStore promises of its two tables, whatever the requests   *)
(* that use it do at the same time: one slot for the preview, and a        *)
(* history to which only the preview in the slot can move, once.           *)
(* Previews are numbered in the order they are placed.                     *)
(***************************************************************************)
EXTENDS Integers, Sequences

CONSTANT MaxPlaced     \* bound: previews that can be placed

VARIABLES placed,      \* how many previews have been placed
          preview,     \* the one in the slot, or 0
          applied      \* those that were applied, in that order

storeVars == <<placed, preview, applied>>

StoreInit == placed = 0 /\ preview = 0 /\ applied = <<>>

StorePlace ==
  /\ placed < MaxPlaced
  /\ placed' = placed + 1
  /\ preview' = placed + 1
  /\ UNCHANGED applied

StoreDiscard ==
  /\ preview # 0
  /\ preview' = 0
  /\ UNCHANGED <<placed, applied>>

StoreApply ==
  /\ preview # 0
  /\ applied' = Append(applied, preview)
  /\ preview' = 0
  /\ UNCHANGED placed

StoreNext == StorePlace \/ StoreDiscard \/ StoreApply

StoreSpec == StoreInit /\ [][StoreNext]_storeVars

\* A preview is applied at most once and never after a younger one, and one that
\* was applied is gone from the slot (DslRecordStore.apply).
AppliedOnce ==
  /\ \A i \in DOMAIN applied : \A j \in DOMAIN applied : i < j => applied[i] < applied[j]
  /\ \A i \in DOMAIN applied : preview # 0 => applied[i] < preview

\* The same, with what the operations need of the three variables to keep it.
StoreInv ==
  /\ placed \in Nat
  /\ preview \in 0..placed
  /\ applied \in Seq(1..placed)
  /\ AppliedOnce
=============================================================================
