---------------------------- MODULE PaperPortfolio -----------------------------
(***************************************************************************)
(* The paper book and the operations that change it: cash, open positions  *)
(* and resting exit limits.  Every operation returns a new book; nothing   *)
(* here is persisted.  A position id is a market and the outcome held.     *)
(***************************************************************************)
EXTENDS PaperPolicy, Sequences, FiniteSets, FiniteSetsExt

CONSTANTS Markets, Bankroll

ASSUME PortfolioAssumption == IsFiniteSet(Markets) /\ Bankroll \in Nat

PosIds == Markets \X Side
MarketOf(p) == p[1]
SideOf(p) == p[2]

\* price is the average entry price, fee the entry fee carried per share and
\* satHold the flag that the last evaluation decided to ride to resolution.
Position == [shares : Nat, price : Price, fee : Nat, satHold : BOOLEAN]
Flat == [shares |-> 0, price |-> 0, fee |-> 0, satHold |-> FALSE]

ExitReason == {"negative_edge", "stop_loss"}
Limit == [shares : Nat, price : 0..(One - 1), expired : BOOLEAN, reason : ExitReason]

Portfolio == [pos      : [PosIds -> Position],
              limits   : [PosIds -> Seq(Limit)],
              cash     : Int,
              realized : Int]

FreshBook == [pos      |-> [p \in PosIds |-> Flat],
              limits   |-> [p \in PosIds |-> <<>>],
              cash     |-> Bankroll,
              realized |-> 0]

Held(b, p) == b.pos[p].shares > 0
Open(b) == {p \in PosIds : Held(b, p)}
Cost(x) == x.price + x.fee
-----------------------------------------------------------------------------
DropLimits(b, p) == [b EXCEPT !.limits[p] = <<>>]

\* Mutant of ApplySell: the entry fee is not part of the cost basis.
SellForgettingEntryFee(b, p, n, proceeds) ==
    LET x      == b.pos[p]
        left   == x.shares - n
        booked == [b EXCEPT !.cash = @ + proceeds,
                            !.realized = @ + proceeds - n * x.price]
    IN  IF n <= 0 THEN b
        ELSE IF left > 0 THEN [booked EXCEPT !.pos[p].shares = left]
        ELSE DropLimits([booked EXCEPT !.pos[p] = Flat], p)

\* Mutant of ApplySell: a position sold out is not dropped.
SellKeepingDust(b, p, n, proceeds) ==
    LET x      == b.pos[p]
        left   == x.shares - n
        booked == [b EXCEPT !.cash = @ + proceeds,
                            !.realized = @ + proceeds - n * Cost(x)]
    IN  IF n <= 0 THEN b
        ELSE IF left >= 0 THEN [booked EXCEPT !.pos[p].shares = left]
        ELSE DropLimits([booked EXCEPT !.pos[p] = Flat], p)

\* A sale of n shares for a total of `proceeds` net of its fee.  Dropping the
\* last share drops the position and its resting limits with it.
ApplySell(b, p, n, proceeds) ==
    LET x      == b.pos[p]
        left   == x.shares - n
        booked == [b EXCEPT !.cash = @ + proceeds,
                            !.realized = @ + proceeds - n * Cost(x)]
    IN  IF n <= 0 THEN b
        ELSE IF left > 0 THEN [booked EXCEPT !.pos[p].shares = left]
        ELSE DropLimits([booked EXCEPT !.pos[p] = Flat], p)

ApplyBuy(b, p, n, price, fee) ==
    [b EXCEPT !.cash = @ - n * (price + fee),
              !.pos[p] = [shares |-> n, price |-> price, fee |-> fee, satHold |-> FALSE]]

\* Settlement value of one share: won, lost, or refunded when voided.
Payout(side, outcome) ==
    CASE outcome = "voided" -> One \div 2
      [] outcome = "yes"    -> IF side = 0 THEN One ELSE 0
      [] outcome = "no"     -> IF side = 1 THEN One ELSE 0

ApplySettlement(b, p, outcome) ==
    LET x == b.pos[p]
    IN  ApplySell(b, p, x.shares, x.shares * Payout(SideOf(p), outcome))
-----------------------------------------------------------------------------
\* A market sale of up to n shares into the visible bid.
MarketFill(book, n) == IF book.bid = 0 THEN 0 ELSE Min2(n, book.size)

SellAt(b, p, n, price, bps) ==
    ApplySell(b, p, n, n * price - FeeUsd(n, price, bps))

\* What an exit sells at once.
ExitFill(b, p, book, prob, reason) ==
    LET pct == IF reason = "stop_loss" THEN 100 ELSE HybridPct
    IN  MarketFill(book, HybridPlan(pct, b.pos[p].shares, prob, book).market)

\* An exit: sell the market part, rest the planned limit together with
\* whatever the book could not absorb.
ExecuteExit(b, p, book, prob, reason) ==
    LET pct    == IF reason = "stop_loss" THEN 100 ELSE HybridPct
        plan   == HybridPlan(pct, b.pos[p].shares, prob, book)
        fill   == ExitFill(b, p, book, prob, reason)
        sold   == SellAt(b, p, fill, book.bid, TakerBps)
        rest   == Min2(plan.limit + (plan.market - fill), sold.pos[p].shares)
        limit  == [shares |-> rest, price |-> plan.price, expired |-> FALSE, reason |-> reason]
    IN  IF rest > 0 THEN [sold EXCEPT !.limits[p] = Append(@, limit)] ELSE sold
-----------------------------------------------------------------------------
\* Cost basis of the open positions: what cash was turned into.
OpenCost(b) == SumFunction([p \in PosIds |-> b.pos[p].shares * Cost(b.pos[p])])
=============================================================================
