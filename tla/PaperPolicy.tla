------------------------------ MODULE PaperPolicy ------------------------------
(***************************************************************************)
(* The decision rules of the paper agent: where an evaluated probability   *)
(* meets the top of an order book.  Prices and probabilities are whole     *)
(* units of 1/One dollar, shares are whole lots, and one price unit is one *)
(* tick.  A book is its best bid (0: no bids), the size shown there and    *)
(* its best ask (One: no asks); walking several levels is BookSim's job.   *)
(***************************************************************************)
EXTENDS Integers

CONSTANTS
    One,                  \* price units in one dollar
    TakerBps, MakerBps,   \* fee rates of the venue, in basis points
    StopLossPct,          \* percent below the entry price that forces an exit
    ExitEdge, EntryEdge,  \* edge thresholds, in price units
    HybridPct,            \* share of a model-driven exit sold at once, percent
    SaturatedHoldEnabled, \* operator switch of the saturation veto
    FullValue             \* net price at which selling equals redeeming

ASSUME PolicyAssumption ==
    /\ One \in Nat \ {0}
    /\ TakerBps \in Nat /\ MakerBps \in Nat
    /\ StopLossPct \in 1..100
    /\ HybridPct \in 0..100
    /\ ExitEdge \in Int /\ EntryEdge \in Int /\ FullValue \in Nat
    /\ SaturatedHoldEnabled \in BOOLEAN

\* A rate is a part of the price it is charged on: the venue sets it.
ASSUME FeeAssumption == TakerBps <= 10000 /\ MakerBps <= 10000

Side == {0, 1}                        \* outcome index: YES, NO
Prob == 0..One
Price == 0..One
Book == [bid : 0..(One - 1), size : Nat, ask : 1..One]

Min2(a, b) == IF a <= b THEN a ELSE b
Max2(a, b) == IF a >= b THEN a ELSE b
-----------------------------------------------------------------------------
(* Fees: charged on the cheaper side of the pair.                            *)

\* Mutant of PerShareFee: the other side of the pair with its operands swapped.
FeeOnSwappedPair(price, bps) ==
    IF price \in 1..(One - 1) THEN (bps * Min2(price, price - One)) \div 10000
                              ELSE 0

PerShareFee(price, bps) ==
    IF price \in 1..(One - 1) THEN (bps * Min2(price, One - price)) \div 10000
                              ELSE 0

FeeUsd(shares, price, bps) == shares * PerShareFee(price, bps)

\* What selling one share into the best bid leaves.
ExitNet(book) == book.bid - PerShareFee(book.bid, TakerBps)

\* Advantage of holding one share over selling it now.
HoldNetEdge(prob, book) == prob - ExitNet(book)
-----------------------------------------------------------------------------
(* Exits.                                                                    *)

StopLossBreached(entry, book) ==
    book.bid # 0 /\ 100 * book.bid <= entry * (100 - StopLossPct)

ExitDecision(prob, entry, book) ==
    IF book.bid = 0 THEN "hold"
    ELSE IF StopLossBreached(entry, book) THEN "stop_loss"
    ELSE IF HoldNetEdge(prob, book) < ExitEdge THEN "negative_edge"
    ELSE "hold"

\* The probability an evaluation gives to one side of its market.
ProbFor(eval, side) == IF side = 0 THEN eval.probYes ELSE One - eval.probYes

SaturationFavors(side, saturatedAt) ==
    \/ side = 0 /\ saturatedAt = "ceil"
    \/ side = 1 /\ saturatedAt = "floor"

\* A negative-edge exit from an estimate clamped in favour of the held side is
\* vetoed, unless the sale already captures full value or no probability up to
\* certainty would clear the threshold.
SaturatedHold(decision, saturatedAt, side, book) ==
    /\ SaturatedHoldEnabled
    /\ decision = "negative_edge"
    /\ SaturationFavors(side, saturatedAt)
    /\ book.bid # 0
    /\ ExitNet(book) < FullValue
    /\ One - ExitNet(book) >= ExitEdge

\* The decision that is executed: a contaminated estimate never sells, and a
\* saturated one is turned into a hold.
FinalDecision(eval, entry, side, book) ==
    LET raw  == ExitDecision(ProbFor(eval, side), entry, book)
        kept == IF eval.contaminated /\ raw = "negative_edge" THEN "hold" ELSE raw
        veto == SaturatedHold(kept, eval.saturatedAt, side, book)
    IN  [reason |-> IF veto THEN "hold" ELSE kept, saturatedHold |-> veto]

\* Split of an exit into a market part and a resting limit, whose price lies at
\* the fair value or just inside the ask, above the bid and below one dollar.
LimitPrice(prob, book) ==
    LET bid       == IF book.bid = 0 THEN 1 ELSE book.bid
        ask       == IF book.ask = One THEN One - 1 ELSE book.ask
        insideAsk == Max2(bid + 1, ask - 1)
        raw       == Max2(prob, Max2(Min2(insideAsk, One - 1), bid + 1))
    IN  Min2(One - 1, Max2(bid + 1, raw))

HybridPlan(marketPct, shares, prob, book) ==
    LET market == (shares * marketPct) \div 100
    IN  [market |-> market, limit |-> shares - market,
         price |-> LimitPrice(prob, book)]
-----------------------------------------------------------------------------
(* Entries: the side with the larger fee-adjusted edge, YES on a tie.        *)

EntryEdgeOf(prob, book) == prob - book.ask - PerShareFee(book.ask, TakerBps)

DecideEntry(eval, yesBook, noBook) ==
    LET book(s) == IF s = 0 THEN yesBook ELSE noBook
        offered == {s \in Side : book(s).ask # One}
        edge(s) == EntryEdgeOf(ProbFor(eval, s), book(s))
        best    == CHOOSE s \in offered :
                       \A t \in offered : edge(s) > edge(t) \/ (edge(s) = edge(t) /\ s <= t)
    IN  IF offered = {} THEN [enter |-> FALSE, side |-> 0]
        ELSE [enter |-> edge(best) >= EntryEdge /\ ~eval.contaminated, side |-> best]
=============================================================================
