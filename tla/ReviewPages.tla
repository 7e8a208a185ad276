----------------------------- MODULE ReviewPages -----------------------------
(* The pages of every review (flow_user_confirm_transaction.c, _blindsigning.c,    *)
(* _new_address.c).  A review is a loop of pages; the user moves left and right    *)
(* and presses the button of the page, if it has one.  In a transaction review     *)
(* steps without a page run a callback that moves on, to the next output or to     *)
(* the buttons.                                                                    *)
EXTENDS Review, Sequences, FiniteSets

VARIABLES
  page,              \* the step of the UX flow that is displayed
  seen,              \* what has been displayed so far                (history)
  straight           \* the user has only ever moved right            (history)

vars == <<reviewVars, page, seen, straight>>

\* The UX flows that are plain loops.
ux_flow_smr_claiming_start == <<"claiming_start", "claiming_message", "continue", "cancel">>
ux_flow_internal_transfer  == <<"internal_start", "internal_info", "accept", "reject">>
ux_flow_blindsigning       == <<"hash", "accept", "reject">>
ux_flow_bs_not_enabled     == <<"not_enabled", "reject">>
ux_flow_new_address        == <<"ok", "new_address", "bip32">>

Loops == [
  claiming          |-> ux_flow_smr_claiming_start,
  internal_transfer |-> ux_flow_internal_transfer,
  blindsigning      |-> ux_flow_blindsigning,
  bs_not_enabled    |-> ux_flow_bs_not_enabled,
  new_address       |-> ux_flow_new_address ]

\* ux_flow_base and ux_flow_has_accept_reject: the pages of an output, the buttons.
OutputPages == {"review", "address", "amount"}
ButtonPages == {"accept", "reject"}

\* Mutant of AcceptPages: the refusal of blind signing calls cb_bs_accept.
AcceptPagesNotEnabled == {"accept", "ok", "not_enabled"}

\* Buttons by what they call: cb_accept or cb_bs_accept, cb_reject or cb_bs_reject.
AcceptPages == {"accept", "ok"}
RejectPages == {"reject", "cancel", "not_enabled"}

\* Where ux_flow_init starts a review: a paging step must not be the first.
FirstPage(s) == CASE s = "transaction" -> "review"
                  [] s = "new_address" -> "new_address"
                  [] OTHER             -> Loops[s][1]

\* What a page tells: the number, address or amount of an output, or itself.
Content(p, i) == <<p, IF p \in OutputPages THEN i ELSE 0>>

Init ==
  /\ ReviewInit
  /\ page = FirstPage(screen)
  /\ seen = {Content(page, flow.read_index)} /\ straight = TRUE

-----------------------------------------------------------------------------
(* Positions [current, page], and where the steps without a page lead.          *)

Position == [current |-> flow.current, page |-> page]

LastOutput == flow.num_non_remainder_outputs - 1

\* cb_next_dataset and cb_prev_dataset.
NextDataset(p) == [current |-> NextOutput(p.current), page |-> "review"]

PrevDataset(p) ==
  LET i == PrevOutput(p.current)
  IN  [current |-> i, page |-> IF i = LastOutput THEN "reject" ELSE "amount"]

\* Mutant of Switch: the buttons come one output too early.
SwitchEarly(p) ==
  IF p.current + 1 >= LastOutput THEN [p EXCEPT !.page = "accept"] ELSE NextDataset(p)

\* cb_switch: behind the last output are the buttons.
Switch(p) ==
  IF p.current = LastOutput THEN [p EXCEPT !.page = "accept"] ELSE NextDataset(p)

\* ux_flow_base and ux_flow_has_accept_reject, read to the right and to the left.
RightInTransaction(p) ==
  CASE p.page = "review"  -> [p EXCEPT !.page = "address"]
    [] p.page = "address" -> [p EXCEPT !.page = "amount"]
    [] p.page = "amount"  -> Switch(p)
    [] p.page = "accept"  -> [p EXCEPT !.page = "reject"]
    [] p.page = "reject"  -> NextDataset(p)

LeftInTransaction(p) ==
  CASE p.page = "review"  -> PrevDataset(p)
    [] p.page = "address" -> [p EXCEPT !.page = "review"]
    [] p.page = "amount"  -> [p EXCEPT !.page = "address"]
    [] p.page = "accept"  -> [p EXCEPT !.page = "amount"]      \* cb_back
    [] p.page = "reject"  -> [p EXCEPT !.page = "accept"]

\* FLOW_LOOP: behind the last page is the first.
Neighbour(p, distance) ==
  LET loop == Loops[screen]
      k    == CHOOSE k \in 1..Len(loop) : loop[k] = p.page
  IN  [p EXCEPT !.page = loop[((k - 1 + distance) % Len(loop)) + 1]]

RightOf(p) == IF screen = "transaction" THEN RightInTransaction(p) ELSE Neighbour(p, 1)
LeftOf(p)  == IF screen = "transaction" THEN LeftInTransaction(p) ELSE Neighbour(p, -1)

\* Display position p; an output is looked up again only when it changes.
Display(p) ==
  /\ IF p.current = flow.current THEN flow' = flow ELSE ShowOutput(p.current, essence)
  /\ page' = p.page
  /\ seen' = seen \cup {Content(p.page, flow'.read_index)}
  /\ UNCHANGED <<screen, timer, nv, essence, decision>>

MoveRight == screen # "menu" /\ Display(RightOf(Position)) /\ UNCHANGED straight

MoveLeft == screen # "menu" /\ Display(LeftOf(Position)) /\ straight' = FALSE

\* cb_accept, cb_bs_accept, cb_reject and cb_bs_reject.
Press(pages, d) ==
  /\ screen # "menu" /\ page \in pages
  /\ decision' = d
  /\ FlowStop
  /\ UNCHANGED <<timer, nv, essence, page, seen, straight>>

PressAccept == Press(AcceptPages, "accepted")
PressReject == Press(RejectPages, "rejected")

\* cb_continue_claiming: the transaction from its first page.
PressContinue ==
  /\ screen = "claiming" /\ page = "continue"
  /\ screen' = "transaction" /\ page' = "review"
  /\ seen' = seen \cup {Content("review", flow.read_index)}
  /\ UNCHANGED <<flow, timer, nv, essence, decision, straight>>

Next == MoveRight \/ MoveLeft \/ PressAccept \/ PressReject \/ PressContinue

Spec == Init /\ [][Next]_vars

-----------------------------------------------------------------------------

\* Every output but the remainder.
Reviewed == (0..(essence.outputs_count - 1)) \
              (IF essence.has_remainder THEN {essence.remainder_index} ELSE {})

\* What is to be read before accepting or continuing.
Contents ==
  CASE screen = "transaction"       -> {"address", "amount"} \X Reviewed
    [] screen = "claiming"          -> {<<"claiming_message", 0>>}
    [] screen = "internal_transfer" -> {<<"internal_start", 0>>, <<"internal_info", 0>>}
    [] screen = "blindsigning"      -> {<<"hash", 0>>}
    [] screen = "new_address"       -> {<<"new_address", 0>>, <<"bip32", 0>>}
    [] OTHER                        -> {}

\* A user who reads from the start to the right has read all there is when the button
\* appears that accepts it: address and amount of every output except the remainder,
\* the message, the hash, or the new address with its path.
ReadingShowsAll ==
  screen # "menu" /\ straight /\ page \in AcceptPages \cup {"continue"} => Contents \subseteq seen

\* No page is reached one way only: a move and its opposite return to the same
\* page of the same output, across outputs, buttons and the wrap-around.
MovesAreInverse ==
  screen # "menu" =>
    LeftOf(RightOf(Position)) = Position /\ RightOf(LeftOf(Position)) = Position

\* The page shows an output that exists and is not the remainder, and the number on
\* its first page (cb_output_preinit) counts the outputs the user is shown.
PageMatchesOutput ==
  screen = "transaction" =>
    /\ flow.read_index \in Reviewed
    /\ flow.current + 1 = Cardinality({ k \in Reviewed : k <= flow.read_index })

\* The pages implement the review LedgerApp relies on: accepting only where
\* AcceptOffered says, rejecting only on its screens, outputs one after another.
KeepsReview == ReviewSpec
================================================================================
