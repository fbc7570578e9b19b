----------------------------- MODULE ActionSlot ------------------------------
(***************************************************************************)
(* What the qutebrowser bridge promises of browser actions: there is one   *)
(* slot.  An action that was asked for is handed out once; it is either    *)
(* answered after that, or the conversation is over for good.  It never    *)
(* goes back to the queue and never vanishes.                              *)
(***************************************************************************)
EXTENDS Integers

CONSTANT Budget          \* actions a conversation may ask for

VARIABLES slot,          \* "free", "asked", "taken" or "over"
          asked, taken   \* how many actions were asked for, and handed out

SlotInit == slot = "free" /\ asked = 0 /\ taken = 0

Ask    == /\ slot = "free" /\ asked < Budget
          /\ slot' = "asked" /\ asked' = asked + 1 /\ UNCHANGED taken
Take   == /\ slot = "asked" /\ slot' = "taken" /\ taken' = taken + 1 /\ UNCHANGED asked
Settle == slot = "taken" /\ slot' = "free" /\ UNCHANGED <<asked, taken>>
Over   == slot # "over" /\ slot' = "over" /\ UNCHANGED <<asked, taken>>

SlotNext == Ask \/ Take \/ Settle \/ Over
SlotSpec == SlotInit /\ [][SlotNext]_<<slot, asked, taken>>
=============================================================================
