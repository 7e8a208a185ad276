-------------------------------- MODULE Review --------------------------------
(* What a review promises the rest of the application, with its pages left out:   *)
(* which decisions a user can take on which screen, and which output the review   *)
(* is at.  These are the steps of a user in LedgerApp (UserAccept, UserReject,    *)
(* ContinueClaiming, ChangeOutput) without the callbacks; ReviewPages implements  *)
(* them with the pages and buttons of the code.                                   *)
EXTENDS UserInterface

VARIABLES
  essence,           \* the fields of the parsed essence that a review reads
  decision           \* "none", "accepted" or "rejected": the callback called last

reviewVars == <<flow, screen, timer, nv, essence, decision>>

NoEssence == [outputs_count |-> 0, has_remainder |-> FALSE, remainder_index |-> 0,
              is_internal_transfer |-> FALSE]

CONSTANTS Essences       \* parsed essences

ASSUME EssencesAssumption ==
  Essences \subseteq { e \in [outputs_count : Nat, has_remainder : BOOLEAN,
                              remainder_index : Nat, is_internal_transfer : BOOLEAN] :
                         /\ e.outputs_count >= 1
                         /\ e.has_remainder => e.remainder_index < e.outputs_count }

\* flow_start_user_confirm_transaction, flow_start_blindsigning and
\* flow_start_new_address.
ReviewInit ==
  /\ timer = 0 /\ nv \in [blindsigning : BOOLEAN, initialized : {TRUE}]
  /\ decision = "none"
  /\ \/ /\ essence \in Essences /\ flow = ReviewStarted(essence)
        /\ \E claiming \in BOOLEAN : screen = TransactionScreen(essence, claiming)
     \/ /\ essence = NoEssence /\ flow = FlowStarted("essence")
        /\ screen = BlindsigningScreen(nv.blindsigning)
     \/ /\ essence = NoEssence /\ flow = FlowStarted("address")
        /\ screen = "new_address"

Accept ==
  /\ AcceptOffered
  /\ decision' = "accepted"
  /\ FlowStop
  /\ UNCHANGED <<timer, nv, essence>>

Reject ==
  /\ screen \in RejectScreens
  /\ decision' = "rejected"
  /\ FlowStop
  /\ UNCHANGED <<timer, nv, essence>>

Continue ==
  /\ screen = "claiming" /\ screen' = "transaction"
  /\ UNCHANGED <<flow, timer, nv, essence, decision>>

ChangeOutput ==
  /\ screen = "transaction"
  /\ \E i \in {NextOutput(flow.current), PrevOutput(flow.current)} : ShowOutput(i, essence)
  /\ UNCHANGED <<screen, timer, nv, essence, decision>>

ReviewNext == Accept \/ Reject \/ Continue \/ ChangeOutput

ReviewSpec == ReviewInit /\ [][ReviewNext]_reviewVars
================================================================================
