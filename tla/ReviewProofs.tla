----------------------------- MODULE ReviewProofs -----------------------------
(* Reviews of any number of outputs: the pages implement Review, show the outputs *)
(* they count, can be left the way they were reached, and are all read on the way  *)
(* to the button.  The inductive invariant ties the page to the output the flow is *)
(* at, and what has been seen to both.                                             *)
EXTENDS ReviewPages, FiniteSetTheorems, TLAPS

USE DEF ux_flow_smr_claiming_start, ux_flow_internal_transfer, ux_flow_blindsigning,
        ux_flow_bs_not_enabled, ux_flow_new_address

-----------------------------------------------------------------------------
(* The invariant of pages and outputs.                                           *)

PagesOf(s) == IF s = "transaction" THEN OutputPages \cup ButtonPages
                                   ELSE { Loops[s][k] : k \in 1..Len(Loops[s]) }

PagesTypes ==
  /\ flow \in FlowTypes /\ timer = 0
  /\ screen \in ReviewScreens \cup {"menu"}
  /\ screen # "menu" => page \in PagesOf(screen)

\* Where a transaction review is.
AtAnOutput ==
  /\ essence \in Essences /\ ~StaysInWallet(essence)
  /\ flow.num_non_remainder_outputs = OutputsToReview(essence)
  /\ flow.current \in 0..LastOutput
  /\ flow.read_index = ReadIndex(flow.current, essence)

InTransaction ==
  /\ screen \in {"transaction", "claiming"} => AtAnOutput
  /\ screen = "claiming" => flow.current = 0
  /\ screen = "transaction" /\ page \in ButtonPages => flow.current = LastOutput

PagesInv == PagesTypes /\ InTransaction

\* The loops have two to four pages, and no page twice.
LEMMA LoopFacts ==
  ASSUME NEW s \in ReviewScreens \ {"transaction"}
  PROVE  /\ Len(Loops[s]) \in 2..4
         /\ \A j, k \in 1..Len(Loops[s]) : Loops[s][j] = Loops[s][k] => j = k
<1>1. CASE s = "claiming"
  BY <1>1 DEF Loops
<1>2. CASE s = "internal_transfer"
  BY <1>2 DEF Loops
<1>3. CASE s = "blindsigning"
  BY <1>3 DEF Loops
<1>4. CASE s = "bs_not_enabled"
  BY <1>4 DEF Loops
<1>5. CASE s = "new_address"
  BY <1>5 DEF Loops
<1> QED
  BY <1>1, <1>2, <1>3, <1>4, <1>5 DEF ReviewScreens

\* The first page belongs to the screen.
LEMMA FirstPageOfScreen ==
  ASSUME NEW s \in ReviewScreens
  PROVE  /\ FirstPage(s) \in PagesOf(s)
         /\ s = "transaction" => FirstPage(s) = "review"
<1>1. CASE s = "transaction"
  BY <1>1 DEF FirstPage, PagesOf, OutputPages
<1>2. CASE s = "new_address"
  <2>1. Loops[s][2] = "new_address" /\ Len(Loops[s]) = 3
    BY <1>2 DEF Loops
  <2> QED
    BY <1>2, <2>1 DEF FirstPage, PagesOf
<1>3. CASE s \notin {"transaction", "new_address"}
  <2>1. Len(Loops[s]) \in 2..4
    BY <1>3, LoopFacts
  <2> QED
    BY <1>3, <2>1 DEF FirstPage, PagesOf
<1> QED
  BY <1>1, <1>2, <1>3

\* A neighbour in a loop is a page of the loop, of the same output.
LEMMA NeighbourInLoop ==
  ASSUME screen \in ReviewScreens \ {"transaction"}, NEW p, NEW k \in 1..Len(Loops[screen]),
         p.page = Loops[screen][k], NEW distance \in {-1, 1}
  PROVE  Neighbour(p, distance)
           = [p EXCEPT !.page = Loops[screen][((k - 1 + distance) % Len(Loops[screen])) + 1]]
<1>1. (CHOOSE j \in 1..Len(Loops[screen]) : Loops[screen][j] = p.page) = k
  BY LoopFacts
<1> QED
  BY <1>1 DEF Neighbour

\* Moving by one in a loop stays in it, and back again returns.
LEMMA LoopArithmetic ==
  ASSUME NEW n \in 2..4, NEW k \in 1..n
  PROVE  /\ ((k - 1 + 1) % n) + 1 \in 1..n /\ ((k - 1 + (-1)) % n) + 1 \in 1..n
         /\ ((((k - 1 + 1) % n) + 1 - 1 + (-1)) % n) + 1 = k
         /\ ((((k - 1 + (-1)) % n) + 1 - 1 + 1) % n) + 1 = k
<1>1. CASE n = 2
  BY <1>1, SMT
<1>2. CASE n = 3
  BY <1>2, SMT
<1>3. CASE n = 4
  BY <1>3, SMT
<1> QED
  BY <1>1, <1>2, <1>3

\* There is at least one output to review, and the outputs wrap around.
LEMMA OutputsWrap ==
  ASSUME AtAnOutput, flow \in FlowTypes
  PROVE  /\ LastOutput \in Nat /\ flow.num_non_remainder_outputs = LastOutput + 1
         /\ flow.current \in 0..LastOutput
         /\ \A i \in 0..LastOutput :
              /\ NextOutput(i) = (IF i = LastOutput THEN 0 ELSE i + 1)
              /\ PrevOutput(i) = (IF i = 0 THEN LastOutput ELSE i - 1)
<1>1. OutputsToReview(essence) \in Nat /\ OutputsToReview(essence) >= 1
  BY EssencesAssumption DEF AtAnOutput, OutputsToReview, StaysInWallet
<1> QED
  BY <1>1 DEF AtAnOutput, LastOutput, NextOutput, PrevOutput

-----------------------------------------------------------------------------
(* The invariant is kept.                                                        *)

LEMMA FlowStartedIsTyped ==
  ASSUME timer = 0, NEW callbacks \in {"essence", "address"}
  PROVE  FlowStarted(callbacks) \in FlowTypes
<1>1. NoFlow \in FlowTypes
  BY TimerAssumption DEF NoFlow, FlowTypes
<1>2. 0 \in 0..(TimerMod - 1)
  BY TimerAssumption
<1> QED
  BY <1>1, <1>2 DEF FlowStarted, FlowTypes

LEMMA InitPages == Init => PagesInv
<1> SUFFICES ASSUME Init PROVE PagesInv
  OBVIOUS
<1>0. timer = 0 /\ page = FirstPage(screen)
  BY DEF Init, ReviewInit
<1>1. CASE /\ essence \in Essences /\ flow = ReviewStarted(essence)
           /\ \E claiming \in BOOLEAN : screen = TransactionScreen(essence, claiming)
  <2>1. screen \in {"transaction", "claiming", "internal_transfer"}
    BY <1>1 DEF TransactionScreen
  <2>2. screen # "internal_transfer" => ~StaysInWallet(essence)
    BY <1>1 DEF TransactionScreen
  <2>3. OutputsToReview(essence) \in Nat
        /\ (~StaysInWallet(essence) => OutputsToReview(essence) >= 1)
    BY <1>1, EssencesAssumption DEF OutputsToReview, StaysInWallet
  <2>4. ReadIndex(0, essence) \in Int
    BY DEF ReadIndex
  <2>5. flow \in FlowTypes
    <3>1. FlowStarted("essence") \in FlowTypes
      BY <1>0, FlowStartedIsTyped
    <3> DEFINE start == IF StaysInWallet(essence) THEN 0 ELSE ReadIndex(0, essence)
               outputs == OutputsToReview(essence)
    <3>2. start \in Int /\ outputs \in Int
      BY <2>3, <2>4
    <3>3. flow = [FlowStarted("essence") EXCEPT !.num_non_remainder_outputs = outputs,
                                               !.read_index = start]
      BY <1>1 DEF ReviewStarted
    <3> HIDE DEF start, outputs
    <3> QED
      BY <3>1, <3>2, <3>3 DEF FlowTypes
  <2>6. /\ flow.num_non_remainder_outputs = OutputsToReview(essence) /\ flow.current = 0
        /\ flow.read_index = IF StaysInWallet(essence) THEN 0 ELSE ReadIndex(0, essence)
    BY <1>1 DEF ReviewStarted, FlowStarted, NoFlow
  <2>7. screen # "internal_transfer" => AtAnOutput
    BY <1>1, <2>2, <2>3, <2>6 DEF AtAnOutput, LastOutput
  <2>8. page \in PagesOf(screen) /\ (screen = "transaction" => page = "review")
    BY <1>0, <2>1, FirstPageOfScreen DEF ReviewScreens
  <2> QED
    BY <1>0, <2>1, <2>5, <2>6, <2>7, <2>8
    DEF PagesInv, PagesTypes, InTransaction, ReviewScreens, ButtonPages
<1>2. CASE \/ flow = FlowStarted("essence") /\ screen = BlindsigningScreen(nv.blindsigning)
           \/ flow = FlowStarted("address") /\ screen = "new_address"
  <2>1. screen \in {"blindsigning", "bs_not_enabled", "new_address"}
    BY <1>2 DEF BlindsigningScreen
  <2>2. flow \in FlowTypes
    BY <1>0, <1>2, FlowStartedIsTyped
  <2>3. page \in PagesOf(screen)
    BY <1>0, <2>1, FirstPageOfScreen DEF ReviewScreens
  <2> QED
    BY <1>0, <2>1, <2>2, <2>3 DEF PagesInv, PagesTypes, InTransaction, ReviewScreens
<1> QED
  BY <1>1, <1>2 DEF Init, ReviewInit

\* A position that can be displayed, and what displaying it does to the invariant.
MayDisplay(p) ==
  /\ p.page \in PagesOf(screen)
  /\ IF screen = "transaction"
     THEN p.current \in 0..LastOutput /\ (p.page \in ButtonPages => p.current = LastOutput)
     ELSE p.current = flow.current

LEMMA DisplayKeepsInv ==
  ASSUME PagesInv, screen # "menu", NEW p, MayDisplay(p), Display(p)
  PROVE  PagesInv'
<1>1. /\ screen' = screen /\ timer' = timer /\ essence' = essence /\ page' = p.page
      /\ IF p.current = flow.current THEN flow' = flow ELSE ShowOutput(p.current, essence)
  BY DEF Display
<1>2. CASE p.current = flow.current
  <2>1. flow' = flow
    BY <1>1, <1>2
  <2> QED
    BY <1>1, <1>2, <2>1
    DEF PagesInv, PagesTypes, InTransaction, AtAnOutput, LastOutput, MayDisplay
<1>3. CASE p.current # flow.current
  <2>1. screen = "transaction" /\ AtAnOutput /\ flow \in FlowTypes
    BY <1>3 DEF MayDisplay, PagesInv, PagesTypes, InTransaction
  <2>2. p.current \in 0..LastOutput /\ LastOutput \in Nat
    BY <2>1, OutputsWrap DEF MayDisplay
  <2>3. flow' = [flow EXCEPT !.current = p.current, !.read_index = ReadIndex(p.current, essence)]
    BY <1>1, <1>3 DEF ShowOutput
  <2>4. ReadIndex(p.current, essence) \in Int /\ p.current \in Int
    BY <2>2 DEF ReadIndex
  <2>5. flow' \in FlowTypes
    BY <2>1, <2>3, <2>4 DEF FlowTypes
  <2>6. /\ flow'.current = p.current
        /\ flow'.num_non_remainder_outputs = flow.num_non_remainder_outputs
        /\ flow'.read_index = ReadIndex(p.current, essence)
    BY <2>1, <2>3 DEF FlowTypes
  <2>7. AtAnOutput'
    BY <1>1, <2>1, <2>2, <2>6 DEF AtAnOutput, LastOutput
  <2> QED
    BY <1>1, <2>1, <2>5, <2>6, <2>7
    DEF PagesInv, PagesTypes, InTransaction, LastOutput, MayDisplay
<1> QED
  BY <1>2, <1>3

\* Both directions lead to positions that can be displayed, and are inverse.
LEMMA MovesInLoop ==
  ASSUME PagesInv, screen \in ReviewScreens \ {"transaction"}
  PROVE  /\ MayDisplay(RightOf(Position)) /\ MayDisplay(LeftOf(Position))
         /\ LeftOf(RightOf(Position)) = Position /\ RightOf(LeftOf(Position)) = Position
<1> DEFINE loop == Loops[screen]
           n == Len(loop)
<1>1. n \in 2..4
  BY LoopFacts
<1>2. PICK k \in 1..n : page = loop[k]
  BY DEF PagesInv, PagesTypes, PagesOf, ReviewScreens
<1> DEFINE right == ((k - 1 + 1) % n) + 1
           left == ((k - 1 + (-1)) % n) + 1
           At(j) == [current |-> flow.current, page |-> loop[j]]
<1>3. right \in 1..n /\ left \in 1..n
  BY <1>1, LoopArithmetic
<1>4. ((right - 1 + (-1)) % n) + 1 = k /\ ((left - 1 + 1) % n) + 1 = k
  BY <1>1, LoopArithmetic
<1>5. Position = At(k)
  BY <1>2 DEF Position
<1>6. ASSUME NEW j \in 1..n, NEW distance \in {-1, 1}
      PROVE  Neighbour(At(j), distance) = At(((j - 1 + distance) % n) + 1)
  <2>1. At(j).page = loop[j]
    OBVIOUS
  <2>2. Neighbour(At(j), distance) = [At(j) EXCEPT !.page = loop[((j - 1 + distance) % n) + 1]]
    BY <2>1, NeighbourInLoop
  <2> QED
    BY <2>2
<1>7. RightOf(At(k)) = At(right) /\ LeftOf(At(k)) = At(left)
  BY <1>6 DEF RightOf, LeftOf
<1>8. LeftOf(At(right)) = At(((right - 1 + (-1)) % n) + 1)
  BY <1>3, <1>6 DEF LeftOf
<1>9. RightOf(At(left)) = At(((left - 1 + 1) % n) + 1)
  BY <1>3, <1>6 DEF RightOf
<1>10. ASSUME NEW j \in 1..n PROVE MayDisplay(At(j))
  BY <1>10 DEF MayDisplay, PagesOf
<1> QED
  BY <1>3, <1>4, <1>5, <1>7, <1>8, <1>9, <1>10

LEMMA MovesInTransaction ==
  ASSUME PagesInv, screen = "transaction"
  PROVE  /\ MayDisplay(RightOf(Position)) /\ MayDisplay(LeftOf(Position))
         /\ LeftOf(RightOf(Position)) = Position /\ RightOf(LeftOf(Position)) = Position
<1>1. AtAnOutput /\ flow \in FlowTypes /\ page \in OutputPages \cup ButtonPages
      /\ (page \in ButtonPages => flow.current = LastOutput)
  BY DEF PagesInv, PagesTypes, InTransaction, PagesOf
<1>2. /\ LastOutput \in Nat /\ flow.current \in 0..LastOutput
      /\ \A i \in 0..LastOutput :
           /\ NextOutput(i) = (IF i = LastOutput THEN 0 ELSE i + 1)
           /\ PrevOutput(i) = (IF i = 0 THEN LastOutput ELSE i - 1)
  BY <1>1, OutputsWrap
<1> DEFINE At(i, pg) == [current |-> i, page |-> pg]
           c == flow.current
           last == LastOutput
<1>3. Position = At(c, page)
  BY DEF Position
<1>4. \A i, pg : MayDisplay(At(i, pg)) <=>
        /\ pg \in OutputPages \cup ButtonPages
        /\ i \in 0..last /\ (pg \in ButtonPages => i = last)
  BY DEF MayDisplay, PagesOf
<1>5. \A i \in 0..last :
        /\ RightOf(At(i, "review")) = At(i, "address")
        /\ RightOf(At(i, "address")) = At(i, "amount")
        /\ RightOf(At(i, "amount")) =
             IF i = last THEN At(i, "accept") ELSE At(NextOutput(i), "review")
        /\ RightOf(At(i, "accept")) = At(i, "reject")
        /\ RightOf(At(i, "reject")) = At(NextOutput(i), "review")
  BY DEF RightOf, RightInTransaction, Switch, NextDataset
<1>6. \A i \in 0..last :
        /\ LeftOf(At(i, "review")) =
             At(PrevOutput(i), IF PrevOutput(i) = last THEN "reject" ELSE "amount")
        /\ LeftOf(At(i, "address")) = At(i, "review")
        /\ LeftOf(At(i, "amount")) = At(i, "address")
        /\ LeftOf(At(i, "accept")) = At(i, "amount")
        /\ LeftOf(At(i, "reject")) = At(i, "accept")
  BY DEF LeftOf, LeftInTransaction, PrevDataset
<1> HIDE DEF At, c, last
<1>7. CASE page = "review"
  <2> QED
    BY <1>2, <1>3, <1>4, <1>5, <1>6, <1>7 DEF OutputPages, ButtonPages, c, last
<1>8. CASE page = "address"
  BY <1>2, <1>3, <1>4, <1>5, <1>6, <1>8 DEF OutputPages, ButtonPages, c, last
<1>9. CASE page = "amount"
  BY <1>2, <1>3, <1>4, <1>5, <1>6, <1>9 DEF OutputPages, ButtonPages, c, last
<1>10. CASE page = "accept"
  BY <1>1, <1>2, <1>3, <1>4, <1>5, <1>6, <1>10 DEF OutputPages, ButtonPages, c, last
<1>11. CASE page = "reject"
  BY <1>1, <1>2, <1>3, <1>4, <1>5, <1>6, <1>11 DEF OutputPages, ButtonPages, c, last
<1> QED
  BY <1>1, <1>7, <1>8, <1>9, <1>10, <1>11 DEF OutputPages, ButtonPages

LEMMA Moves ==
  ASSUME PagesInv, screen # "menu"
  PROVE  /\ MayDisplay(RightOf(Position)) /\ MayDisplay(LeftOf(Position))
         /\ LeftOf(RightOf(Position)) = Position /\ RightOf(LeftOf(Position)) = Position
BY MovesInLoop, MovesInTransaction DEF PagesInv, PagesTypes

LEMMA NextKeepsPages == PagesInv /\ [Next]_vars => PagesInv'
<1> SUFFICES ASSUME PagesInv, [Next]_vars PROVE PagesInv'
  OBVIOUS
<1>1. CASE MoveRight
  BY <1>1, Moves, DisplayKeepsInv DEF MoveRight
<1>2. CASE MoveLeft
  BY <1>2, Moves, DisplayKeepsInv DEF MoveLeft
<1>3. CASE PressAccept \/ PressReject
  <2>1. flow' = NoFlow /\ screen' = "menu" /\ timer' = timer
    BY <1>3 DEF PressAccept, PressReject, Press, FlowStop
  <2>2. NoFlow \in FlowTypes
    BY TimerAssumption DEF NoFlow, FlowTypes
  <2> QED
    BY <2>1, <2>2 DEF PagesInv, PagesTypes, InTransaction
<1>4. CASE PressContinue
  <2>1. /\ screen = "claiming" /\ screen' = "transaction" /\ page' = "review"
        /\ flow' = flow /\ essence' = essence /\ timer' = timer
    BY <1>4 DEF PressContinue
  <2> QED
    BY <2>1 DEF PagesInv, PagesTypes, InTransaction, AtAnOutput, LastOutput, PagesOf,
                OutputPages, ButtonPages, ReviewScreens
<1>5. CASE UNCHANGED vars
  BY <1>5 DEF vars, reviewVars, PagesInv, PagesTypes, InTransaction, AtAnOutput, LastOutput
<1> QED
  BY <1>1, <1>2, <1>3, <1>4, <1>5 DEF Next

LEMMA PagesInvariant == Spec => []PagesInv
BY InitPages, NextKeepsPages, PTL DEF Spec

-----------------------------------------------------------------------------

\* However many outputs there are, a move to the right undoes a move to the left and
\* the other way round, at the buttons, between outputs and where the review wraps.
THEOREM EveryMoveCanBeUndone == Spec => []MovesAreInverse
<1>1. PagesInv => MovesAreInverse
  BY Moves DEF MovesAreInverse
<1> QED
  BY <1>1, PagesInvariant, PTL

-----------------------------------------------------------------------------
(* Outputs and their numbers.                                                    *)

LEMMA UpToHas ==
  ASSUME NEW m \in Nat
  PROVE  IsFiniteSet(0..m) /\ Cardinality(0..m) = m + 1
<1>1. m \in Int /\ 0 \in Int /\ ~(0 > m)
  OBVIOUS
<1>2. IsFiniteSet(0..m) /\ Cardinality(0..m) = m - 0 + 1
  BY <1>1, FS_Interval
<1> QED
  BY <1>2

\* The outputs 0..last of the flow are the outputs except the remainder.
LEMMA ReadIndexReviews ==
  ASSUME AtAnOutput, flow \in FlowTypes, NEW i \in 0..LastOutput
  PROVE  /\ ReadIndex(i, essence) \in Reviewed
         /\ Cardinality({ k \in Reviewed : k <= ReadIndex(i, essence) }) = i + 1
<1> DEFINE n == essence.outputs_count
           r == essence.remainder_index
<1>1. n \in Nat /\ r \in Nat /\ essence.has_remainder \in BOOLEAN
      /\ (essence.has_remainder => r < n)
  BY EssencesAssumption DEF AtAnOutput
<1>2. LastOutput = (IF essence.has_remainder THEN n - 1 ELSE n) - 1
  BY <1>1 DEF AtAnOutput, OutputsToReview, LastOutput
<1>3. CASE ~essence.has_remainder
  <2>1. ReadIndex(i, essence) = i
    BY <1>3 DEF ReadIndex
  <2>2. Reviewed = 0..(n - 1)
    BY <1>3 DEF Reviewed
  <2>3. i \in 0..(n - 1)
    BY <1>1, <1>2, <1>3
  <2>4. { k \in Reviewed : k <= i } = 0..i
    BY <1>1, <2>2, <2>3
  <2>5. Cardinality(0..i) = i + 1
    BY <2>3, <1>1, FS_Interval
  <2> QED
    BY <2>1, <2>2, <2>3, <2>4, <2>5
<1>4. CASE essence.has_remainder /\ i < r
  <2>1. ReadIndex(i, essence) = i
    BY <1>1, <1>2, <1>4 DEF ReadIndex
  <2>2. Reviewed = (0..(n - 1)) \ {r}
    BY <1>4 DEF Reviewed
  <2>3. i \in 0..(n - 1) /\ i # r
    BY <1>1, <1>2, <1>4
  <2>4. { k \in Reviewed : k <= i } = 0..i
    BY <1>1, <1>4, <2>2, <2>3
  <2>5. Cardinality(0..i) = i + 1
    BY <2>3, <1>1, FS_Interval
  <2> QED
    BY <2>1, <2>2, <2>3, <2>4, <2>5
<1>5. CASE essence.has_remainder /\ ~(i < r)
  <2>1. ReadIndex(i, essence) = i + 1
    BY <1>1, <1>2, <1>5 DEF ReadIndex
  <2>2. Reviewed = (0..(n - 1)) \ {r}
    BY <1>5 DEF Reviewed
  <2>3. i + 1 \in 0..(n - 1) /\ i + 1 # r /\ i \in Nat /\ r \in 0..(i + 1)
    BY <1>1, <1>2, <1>5
  <2>4. { k \in Reviewed : k <= i + 1 } = (0..(i + 1)) \ {r}
    BY <1>1, <1>5, <2>2, <2>3
  <2>5. IsFiniteSet(0..(i + 1)) /\ Cardinality(0..(i + 1)) = (i + 1) + 1
    BY <2>3, UpToHas
  <2>6. Cardinality((0..(i + 1)) \ {r}) = Cardinality(0..(i + 1)) - 1
    BY <2>3, <2>5, FS_RemoveElement
  <2>7. ((i + 1) + 1) - 1 = i + 1
    BY <2>3
  <2>8. Cardinality((0..(i + 1)) \ {r}) = i + 1
    BY <2>5, <2>6, <2>7, Zenon
  <2> QED
    BY <2>1, <2>2, <2>3, <2>4, <2>8
<1> QED
  BY <1>3, <1>4, <1>5

\* A transaction review shows outputs of the essence and never the remainder, and
\* numbers them without a gap, wherever the remainder is.
THEOREM OutputsAreNumbered == Spec => []PageMatchesOutput
<1>1. PagesInv => PageMatchesOutput
  BY ReadIndexReviews DEF PagesInv, PagesTypes, InTransaction, AtAnOutput, PageMatchesOutput
<1> QED
  BY <1>1, PagesInvariant, PTL

-----------------------------------------------------------------------------
(* The refinement.                                                               *)

\* Moving changes nothing but the output, and only to one next to it.
LEMMA MovingRefines ==
  ASSUME PagesInv, screen # "menu",
         NEW p \in {RightOf(Position), LeftOf(Position)}, Display(p)
  PROVE  [ReviewNext]_reviewVars
<1>1. UNCHANGED <<screen, timer, nv, essence, decision>>
  BY DEF Display
<1>2. CASE p.current = flow.current
  BY <1>1, <1>2 DEF Display, reviewVars
<1>3. CASE p.current # flow.current
  <2>1. screen = "transaction"
    BY <1>3, Moves DEF MayDisplay
  <2>2. page \in {"review", "address", "amount", "accept", "reject"}
    BY <2>1 DEF PagesInv, PagesTypes, PagesOf, OutputPages, ButtonPages
  <2>3. p.current \in {flow.current, NextOutput(flow.current), PrevOutput(flow.current)}
    BY <2>1, <2>2 DEF RightOf, LeftOf, RightInTransaction, LeftInTransaction, Switch,
                      NextDataset, PrevDataset, Position
  <2>4. ShowOutput(p.current, essence)
    BY <1>3 DEF Display
  <2>5. ChangeOutput
    BY <1>1, <1>3, <2>1, <2>3, <2>4 DEF ChangeOutput
  <2> QED
    BY <2>5 DEF ReviewNext
<1> QED
  BY <1>2, <1>3

\* The buttons are where Review has its decisions.
LEMMA ButtonScreens ==
  ASSUME PagesInv, screen # "menu"
  PROVE  /\ page \in AcceptPages => AcceptOffered
         /\ page \in RejectPages => screen \in RejectScreens
<1>1. CASE screen = "transaction"
  BY <1>1 DEF PagesInv, PagesTypes, InTransaction, AtAnOutput, PagesOf, OutputPages,
              ButtonPages, AcceptPages, RejectPages, AcceptOffered, LastOutput,
              AcceptScreens, RejectScreens, ReviewScreens
<1>2. CASE screen # "transaction"
  <2>1. PICK k \in 1..Len(Loops[screen]) : page = Loops[screen][k]
    BY <1>2 DEF PagesInv, PagesTypes, PagesOf
  <2>2. CASE screen = "claiming"
    BY <2>1, <2>2 DEF Loops, AcceptPages, RejectScreens, ReviewScreens
  <2>3. CASE screen = "bs_not_enabled"
    BY <2>1, <2>3 DEF Loops, AcceptPages, RejectScreens, ReviewScreens
  <2>4. CASE screen = "new_address"
    BY <2>1, <2>4 DEF Loops, RejectPages, AcceptOffered, AcceptScreens
  <2>5. CASE screen \in {"internal_transfer", "blindsigning"}
    BY <2>5 DEF AcceptOffered, AcceptScreens, RejectScreens, ReviewScreens
  <2> QED
    BY <1>2, <2>2, <2>3, <2>4, <2>5 DEF PagesInv, PagesTypes, ReviewScreens
<1> QED
  BY <1>1, <1>2

\* Every button and every move of the pages is a decision of Review, a change to an
\* output next to the current one, or nothing that the rest of the application sees.
THEOREM PagesImplementReview == Spec => KeepsReview
<1>1. Init => ReviewInit
  BY DEF Init
<1>2. PagesInv /\ [Next]_vars => [ReviewNext]_reviewVars
  <2> SUFFICES ASSUME PagesInv, [Next]_vars PROVE [ReviewNext]_reviewVars
    OBVIOUS
  <2>1. CASE MoveRight
    BY <2>1, MovingRefines DEF MoveRight
  <2>2. CASE MoveLeft
    BY <2>2, MovingRefines DEF MoveLeft
  <2>3. CASE PressAccept
    BY <2>3, ButtonScreens DEF PressAccept, Press, Accept, ReviewNext
  <2>4. CASE PressReject
    BY <2>4, ButtonScreens DEF PressReject, Press, Reject, ReviewNext
  <2>5. CASE PressContinue
    BY <2>5 DEF PressContinue, Continue, ReviewNext
  <2>6. CASE UNCHANGED vars
    BY <2>6 DEF vars, reviewVars
  <2> QED
    BY <2>1, <2>2, <2>3, <2>4, <2>5, <2>6 DEF Next
<1> QED
  BY <1>1, <1>2, PagesInvariant, PTL DEF Spec, ReviewSpec, KeepsReview

-----------------------------------------------------------------------------
(* What a user who moves only to the right has seen.                             *)

\* Address and amount of the outputs before the current one, and of the current one
\* as far as its pages have come.
SeenOutputs ==
  /\ \A j \in 0..(flow.current - 1) : {"address", "amount"} \X {ReadIndex(j, essence)} \subseteq seen
  /\ page # "review" => <<"address", flow.read_index>> \in seen
  /\ page \notin {"review", "address"} => <<"amount", flow.read_index>> \in seen

\* The pages of a loop between its first and the current one.
SeenLoop ==
  /\ screen = "claiming" /\ page # "claiming_start" => <<"claiming_message", 0>> \in seen
  /\ screen = "internal_transfer" =>
       /\ <<"internal_start", 0>> \in seen
       /\ page # "internal_start" => <<"internal_info", 0>> \in seen
  /\ screen = "blindsigning" => <<"hash", 0>> \in seen
  /\ screen = "new_address" =>
       /\ <<"new_address", 0>> \in seen
       /\ page # "new_address" => <<"bip32", 0>> \in seen

SeenInv == screen # "menu" /\ straight =>
             /\ screen = "transaction" => SeenOutputs
             /\ SeenLoop

LEMMA InitSeen == Init => SeenInv
<1> SUFFICES ASSUME Init PROVE SeenInv
  OBVIOUS
<1>1. PagesInv
  BY InitPages
<1>2. page = FirstPage(screen) /\ seen = {Content(page, flow.read_index)}
  BY DEF Init
<1>3. screen = "transaction" => page = "review" /\ flow.current = 0
  BY <1>2 DEF Init, ReviewInit, FirstPage, ReviewStarted, FlowStarted, NoFlow,
              BlindsigningScreen
<1>4. CASE screen = "transaction"
  BY <1>3, <1>4 DEF SeenInv, SeenOutputs, SeenLoop
<1>5. CASE screen = "claiming"
  BY <1>2, <1>5 DEF SeenInv, SeenLoop, FirstPage, Loops
<1>6. CASE screen = "internal_transfer"
  BY <1>2, <1>6 DEF SeenInv, SeenLoop, FirstPage, Loops, Content, OutputPages
<1>7. CASE screen = "blindsigning"
  BY <1>2, <1>7 DEF SeenInv, SeenLoop, FirstPage, Loops, Content, OutputPages
<1>8. CASE screen = "new_address"
  BY <1>2, <1>8 DEF SeenInv, SeenLoop, FirstPage, Content, OutputPages
<1>9. CASE screen \in {"bs_not_enabled", "menu"}
  BY <1>9 DEF SeenInv, SeenLoop
<1> QED
  BY <1>1, <1>4, <1>5, <1>6, <1>7, <1>8, <1>9 DEF PagesInv, PagesTypes, ReviewScreens

\* To the right in a loop is the page with the next number, or the first.
LEMMA RightInLoop ==
  ASSUME PagesInv, screen \in ReviewScreens \ {"transaction"}
  PROVE  \E k \in 1..Len(Loops[screen]) :
           /\ page = Loops[screen][k]
           /\ RightOf(Position).page =
                Loops[screen][IF k = Len(Loops[screen]) THEN 1 ELSE k + 1]
<1> DEFINE n == Len(Loops[screen])
<1>1. n \in 2..4
  BY LoopFacts
<1>2. PICK k \in 1..n : page = Loops[screen][k]
  BY DEF PagesInv, PagesTypes, PagesOf, ReviewScreens
<1>3. ((k - 1 + 1) % n) + 1 = IF k = n THEN 1 ELSE k + 1
  <2> HIDE DEF n
  <2>1. CASE n = 2
    BY <2>1, SMT
  <2>2. CASE n = 3
    BY <2>2, SMT
  <2>3. CASE n = 4
    BY <2>3, SMT
  <2> QED
    BY <1>1, <2>1, <2>2, <2>3
<1>4. Position.page = Loops[screen][k]
  BY <1>2 DEF Position
<1>5. RightOf(Position) = [Position EXCEPT !.page = Loops[screen][((k - 1 + 1) % n) + 1]]
  BY <1>4, NeighbourInLoop DEF RightOf
<1> QED
  BY <1>2, <1>3, <1>5 DEF Position

LEMMA ReadOnInLoop ==
  ASSUME PagesInv, SeenInv, straight, screen \in ReviewScreens \ {"transaction"}, MoveRight
  PROVE  SeenInv'
<1>1. PICK k \in 1..Len(Loops[screen]) :
        /\ page = Loops[screen][k]
        /\ RightOf(Position).page = Loops[screen][IF k = Len(Loops[screen]) THEN 1 ELSE k + 1]
  BY RightInLoop
<1>2. /\ screen' = screen /\ screen # "menu" /\ page' = RightOf(Position).page
      /\ seen' = seen \cup {Content(page', flow'.read_index)}
  BY DEF MoveRight, Display
<1>3. SeenLoop
  BY <1>2 DEF SeenInv
<1>4. CASE screen = "claiming"
  <2>1. page' = "claiming_message" \/ page # "claiming_start" \/ page' = "claiming_start"
    BY <1>1, <1>2, <1>4 DEF Loops
  <2> QED
    BY <1>2, <1>3, <1>4, <2>1 DEF SeenInv, SeenLoop, Content, OutputPages
<1>5. CASE screen = "internal_transfer"
  <2>1. page' = "internal_info" \/ page # "internal_start" \/ page' = "internal_start"
    BY <1>1, <1>2, <1>5 DEF Loops
  <2> QED
    BY <1>2, <1>3, <1>5, <2>1 DEF SeenInv, SeenLoop, Content, OutputPages
<1>6. CASE screen \in {"blindsigning", "bs_not_enabled"}
  BY <1>2, <1>3, <1>6 DEF SeenInv, SeenLoop
<1>7. CASE screen = "new_address"
  <2>1. page' = "bip32" \/ page # "new_address" \/ page' = "new_address"
    BY <1>1, <1>2, <1>7 DEF Loops
  <2> QED
    BY <1>2, <1>3, <1>7, <2>1 DEF SeenInv, SeenLoop, Content, OutputPages
<1> QED
  BY <1>4, <1>5, <1>6, <1>7 DEF ReviewScreens

LEMMA ReadOnInTransaction ==
  ASSUME PagesInv, SeenInv, straight, screen = "transaction", MoveRight
  PROVE  SeenInv'
<1> DEFINE p == RightOf(Position)
<1>1. /\ AtAnOutput /\ page \in OutputPages \cup ButtonPages
      /\ page \in ButtonPages => flow.current = LastOutput
      /\ flow \in FlowTypes
  BY DEF PagesInv, PagesTypes, InTransaction, PagesOf
<1>2. /\ screen' = screen /\ essence' = essence /\ page' = p.page
      /\ IF p.current = flow.current THEN flow' = flow ELSE ShowOutput(p.current, essence)
      /\ seen' = seen \cup {Content(p.page, flow'.read_index)}
  BY DEF MoveRight, Display
<1>3. SeenOutputs
  BY DEF SeenInv
<1>4. CASE p = [Position EXCEPT !.page = "address"] /\ page = "review"
  BY <1>1, <1>2, <1>3, <1>4
  DEF SeenInv, SeenOutputs, SeenLoop, Content, OutputPages, Position
<1>5. CASE p = [Position EXCEPT !.page = "amount"] /\ page = "address"
  BY <1>1, <1>2, <1>3, <1>5
  DEF SeenInv, SeenOutputs, SeenLoop, Content, OutputPages, Position
<1>6. CASE /\ p = [Position EXCEPT !.page = "accept"] \/ p = [Position EXCEPT !.page = "reject"]
           /\ page \in {"amount", "accept"}
  BY <1>1, <1>2, <1>3, <1>6
  DEF SeenInv, SeenOutputs, SeenLoop, Content, OutputPages, Position
<1>7. CASE p = NextDataset(Position) /\ page \in {"amount", "reject"}
  <2>1. p.page = "review" /\ p.current = NextOutput(flow.current)
    BY <1>7 DEF NextDataset, Position
  <2>2. p.current = IF flow.current = LastOutput THEN 0 ELSE flow.current + 1
    BY <1>1, <2>1, OutputsWrap
  <2>3. flow'.current = p.current
    BY <1>1, <1>2 DEF ShowOutput, FlowTypes
  <2>4. flow.current \in Nat /\ flow.read_index = ReadIndex(flow.current, essence)
    BY <1>1, OutputsWrap DEF AtAnOutput
  <2>5. {"address", "amount"} \X {flow.read_index} \subseteq seen
    BY <1>3, <1>7 DEF SeenOutputs
  <2>6. ASSUME NEW j \in 0..(p.current - 1)
        PROVE  {"address", "amount"} \X {ReadIndex(j, essence)} \subseteq seen
    <3>1. j \in 0..(flow.current - 1) \/ j = flow.current
      BY <2>2, <2>4
    <3> QED
      BY <1>3, <2>4, <2>5, <3>1 DEF SeenOutputs
  <2>7. \A j : ReadIndex(j, essence)' = ReadIndex(j, essence)
    BY <1>2 DEF ReadIndex
  <2>8. SeenOutputs'
    BY <1>2, <2>1, <2>3, <2>6, <2>7 DEF SeenOutputs
  <2> QED
    BY <1>2, <2>8 DEF SeenInv, SeenLoop
<1>8. \/ p = [Position EXCEPT !.page = "address"] /\ page = "review"
      \/ p = [Position EXCEPT !.page = "amount"] /\ page = "address"
      \/ p = [Position EXCEPT !.page = "accept"] /\ page = "amount"
      \/ p = [Position EXCEPT !.page = "reject"] /\ page = "accept"
      \/ p = NextDataset(Position) /\ page \in {"amount", "reject"}
  BY <1>1 DEF RightOf, RightInTransaction, Switch, Position, OutputPages, ButtonPages
<1> HIDE DEF p
<1> QED
  BY <1>4, <1>5, <1>6, <1>7, <1>8

LEMMA NextKeepsSeen == PagesInv /\ SeenInv /\ [Next]_vars => SeenInv'
<1> SUFFICES ASSUME PagesInv, SeenInv, [Next]_vars PROVE SeenInv'
  OBVIOUS
<1>1. CASE MoveRight
  <2>1. CASE ~straight
    BY <1>1, <2>1 DEF MoveRight, SeenInv
  <2>2. CASE straight
    BY <1>1, <2>2, ReadOnInLoop, ReadOnInTransaction
    DEF MoveRight, PagesInv, PagesTypes
  <2> QED
    BY <2>1, <2>2
<1>2. CASE MoveLeft
  BY <1>2 DEF MoveLeft, SeenInv
<1>3. CASE PressAccept \/ PressReject
  BY <1>3 DEF PressAccept, PressReject, Press, FlowStop, SeenInv
<1>4. CASE PressContinue
  <2>1. flow.current = 0
    BY <1>4 DEF PressContinue, PagesInv, InTransaction
  <2> QED
    BY <1>4, <2>1 DEF PressContinue, SeenInv, SeenOutputs, SeenLoop
<1>5. CASE UNCHANGED vars
  BY <1>5 DEF vars, reviewVars, SeenInv, SeenOutputs, SeenLoop, ReadIndex
<1> QED
  BY <1>1, <1>2, <1>3, <1>4, <1>5 DEF Next

\* The outputs of the flow are all the outputs but the remainder.
LEMMA ReviewedAreRead ==
  ASSUME AtAnOutput, NEW k \in Reviewed
  PROVE  \E i \in 0..LastOutput : k = ReadIndex(i, essence)
<1> DEFINE n == essence.outputs_count
           r == essence.remainder_index
<1>1. n \in Nat /\ r \in Nat /\ essence.has_remainder \in BOOLEAN
      /\ (essence.has_remainder => r < n)
  BY EssencesAssumption DEF AtAnOutput
<1>2. LastOutput = (IF essence.has_remainder THEN n - 1 ELSE n) - 1
  BY <1>1 DEF AtAnOutput, OutputsToReview, LastOutput
<1>3. k \in 0..(n - 1) /\ (essence.has_remainder => k # r)
  BY DEF Reviewed
<1>4. CASE ~essence.has_remainder \/ k < r
  <2>1. k \in 0..LastOutput /\ ReadIndex(k, essence) = k
    BY <1>1, <1>2, <1>3, <1>4 DEF ReadIndex
  <2> QED
    BY <2>1
<1>5. CASE essence.has_remainder /\ ~(k < r)
  <2>1. k - 1 \in 0..LastOutput /\ ReadIndex(k - 1, essence) = k
    BY <1>1, <1>2, <1>3, <1>5 DEF ReadIndex
  <2> QED
    BY <2>1
<1> QED
  BY <1>4, <1>5

\* Whoever reads to the right has seen, at the button that accepts, the address and
\* amount of every output but the remainder; the claiming message, the hash, or the
\* new address and its path.
THEOREM NothingIsSkipped == Spec => []ReadingShowsAll
<1>1. PagesInv /\ SeenInv => ReadingShowsAll
  <2> SUFFICES ASSUME PagesInv, SeenInv, screen # "menu", straight,
                      page \in AcceptPages \cup {"continue"}
               PROVE  Contents \subseteq seen
    BY DEF ReadingShowsAll
  <2>1. CASE screen = "transaction"
    <3>1. AtAnOutput /\ SeenOutputs /\ page = "accept" /\ flow.current = LastOutput
      BY <2>1 DEF PagesInv, PagesTypes, InTransaction, SeenInv, AcceptPages, PagesOf,
                  OutputPages, ButtonPages
    <3>2. flow.current \in Nat /\ flow.read_index = ReadIndex(flow.current, essence)
      BY <3>1 DEF AtAnOutput
    <3>3. ASSUME NEW i \in 0..LastOutput
          PROVE  {"address", "amount"} \X {ReadIndex(i, essence)} \subseteq seen
      <4>1. i \in 0..(flow.current - 1) \/ i = flow.current
        BY <3>1, <3>2
      <4> QED
        BY <3>1, <3>2, <4>1 DEF SeenOutputs
    <3>4. {"address", "amount"} \X Reviewed \subseteq seen
      BY <3>1, <3>3, ReviewedAreRead
    <3> QED
      BY <2>1, <3>4 DEF Contents
  <2>2. CASE screen \in ReviewScreens \ {"transaction"}
    BY <2>2 DEF Contents, SeenInv, SeenLoop, AcceptPages, ReviewScreens
  <2> QED
    BY <2>1, <2>2 DEF PagesInv, PagesTypes
<1>2. Spec => []SeenInv
  BY InitSeen, NextKeepsSeen, PagesInvariant, PTL DEF Spec
<1> QED
  BY <1>1, <1>2, PagesInvariant, PTL
================================================================================
