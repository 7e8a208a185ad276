---------------------------- MODULE UserInterface ----------------------------
(* The screens of the device (src/src/ui): the confirmation flow with its      *)
(* callbacks and its timeout (flow_user_confirm.c), the screen the UX library   *)
(* displays, the ticker count of main.c and the setting kept in non-volatile    *)
(* memory (nv_mem.c).                                                           *)
(*                                                                              *)
(* The callbacks of a flow are named by what they complete: a review of an      *)
(* essence or of a new address.  The pages of one output are not told apart,    *)
(* the outputs of a transaction are.                                            *)
EXTENDS Integers

CONSTANTS
  TimerMod,          \* timer_events wraps around at this value, 2^32 in C
  Timeout            \* ticks after which a flow is abandoned, 1000 in C

VARIABLES flow, screen, timer, nv

ReviewScreens == {"transaction", "internal_transfer", "claiming", "blindsigning",
                  "bs_not_enabled", "new_address"}
AcceptScreens == {"transaction", "internal_transfer", "blindsigning", "new_address"}
RejectScreens == ReviewScreens \ {"new_address"}
Screens == ReviewScreens \cup {"menu", "settings", "busy"}

FlowTypes == [flow_active : BOOLEAN, callbacks : {"none", "address", "essence"},
              flow_timer_start : 0..(TimerMod - 1), current : Int, read_index : Int,
              num_non_remainder_outputs : Int]

NvTypes == [blindsigning : BOOLEAN, initialized : BOOLEAN]

ASSUME TimerAssumption ==
  /\ TimerMod \in Nat /\ Timeout \in Nat
  /\ 0 < Timeout /\ Timeout < TimerMod

\* flow_init: the zeroed flow_data.
NoFlow == [flow_active |-> FALSE, callbacks |-> "none", flow_timer_start |-> 0,
           current |-> 0, read_index |-> 0, num_non_remainder_outputs |-> 0]

\* flow_start_user_confirm: callbacks and start time over a zeroed flow_data.
FlowStarted(callbacks) ==
  [NoFlow EXCEPT !.flow_active = TRUE, !.callbacks = callbacks,
                 !.flow_timer_start = timer]

\* Mutant of FlowStop: the screen is left and the flow data is kept.
FlowStopKeepsFlow == /\ flow' = flow
                     /\ screen' = "menu"

\* Mutant of FlowStop: the flow is forgotten and the screen stays.
FlowStopKeepsScreen == /\ flow' = NoFlow
                       /\ screen' = screen

\* flow_stop: forget the flow and show the main menu.
FlowStop == /\ flow' = NoFlow
            /\ screen' = "menu"

\* Mutant of FlowExpired: a difference that does not wrap around.
FlowExpiredSigned(now) ==
  flow.flow_active /\ now - flow.flow_timer_start >= Timeout

\* flow_timer_event at tick count now: an unsigned difference.
FlowExpired(now) ==
  flow.flow_active /\ (now - flow.flow_timer_start) % TimerMod >= Timeout

-----------------------------------------------------------------------------
(* Which screens a transaction review shows, and which outputs.  An essence e   *)
(* is the parsed essence of ApiContext.                                         *)

\* Mutant of ReadIndex: only outputs after the remainder are shifted.
ReadIndexAfterOnly(i, e) ==
  IF e.has_remainder /\ i > e.remainder_index THEN i + 1 ELSE i

\* get_read_index: skip the remainder.
ReadIndex(i, e) ==
  IF e.has_remainder /\ i >= e.remainder_index THEN i + 1 ELSE i

\* No coin leaves the wallet: a sweep to an own address, or a single remainder.
StaysInWallet(e) ==
  \/ e.is_internal_transfer
  \/ e.has_remainder /\ e.outputs_count = 1

\* The first screen of flow_start_user_confirm_transaction.
TransactionScreen(e, claiming) ==
  IF StaysInWallet(e) THEN "internal_transfer"
  ELSE IF claiming THEN "claiming" ELSE "transaction"

\* num_non_remainder_outputs: every output but the remainder is reviewed.
OutputsToReview(e) == e.outputs_count - (IF e.has_remainder THEN 1 ELSE 0)

\* flow_start_user_confirm_transaction: start at the first output.
ReviewStarted(e) ==
  [FlowStarted("essence") EXCEPT
     !.num_non_remainder_outputs = OutputsToReview(e),
     !.read_index = IF StaysInWallet(e) THEN 0 ELSE ReadIndex(0, e)]

\* The output after i in cb_next_dataset and the one before i in cb_prev_dataset.
NextOutput(i) == IF i + 1 >= flow.num_non_remainder_outputs THEN 0 ELSE i + 1

\* Mutant of PrevOutput: the first output has no output before it.
PrevOutputStops(i) == IF i - 1 < 0 THEN 0 ELSE i - 1

PrevOutput(i) == IF i - 1 < 0 THEN flow.num_non_remainder_outputs - 1 ELSE i - 1

\* Show output i of the review of e.
ShowOutput(i, e) ==
  flow' = [flow EXCEPT !.current = i, !.read_index = ReadIndex(i, e)]

\* The accept button is part of the screen; in a transaction review it comes
\* after the last output (cb_switch, cb_prev_dataset).
AcceptOffered ==
  /\ screen \in AcceptScreens
  /\ screen = "transaction" => flow.current = flow.num_non_remainder_outputs - 1

\* Mutant of BlindsigningScreen: the setting is not read.
BlindsigningScreenAlways(enabled) == "blindsigning"

\* The screen of flow_start_blindsigning: without the setting there is only a
\* reject button.
BlindsigningScreen(enabled) == IF enabled THEN "blindsigning" ELSE "bs_not_enabled"

-----------------------------------------------------------------------------
(* Non-volatile memory.                                                        *)

NvFresh == [blindsigning |-> FALSE, initialized |-> TRUE]

\* Mutant of NvInitialized: every start writes the defaults.
NvAlwaysFresh(v) == NvFresh

\* nv_init: write the defaults once.
NvInitialized(v) == IF v.initialized THEN v ELSE NvFresh

\* nv_toggle_blindsigning.
NvToggled(v) == [v EXCEPT !.blindsigning = ~@]
================================================================================
