-------------------------------- MODULE BookSim --------------------------------
(***************************************************************************)
(* How the paper agent simulates fills against one side of an order book:  *)
(* market orders walk the levels, a buy carves its fee out of the budget,  *)
(* a resting limit fills against the size shown at or above its price.     *)
(* One behaviour is one request on one book.  Prices are 1/One dollars,    *)
(* sizes whole shares; what a division makes fractional is a rational      *)
(* <<numerator, denominator>>, so that nothing is rounded away.            *)
(***************************************************************************)
EXTENDS Integers, SequencesExt

CONSTANTS One,        \* price units in one dollar
          Rate,       \* fee rate of the venue, as a rational
          Levels,     \* rows an order book may show
          MaxRows,    \* bound of the model: rows of a book
          MaxShares,  \* bound of the model: shares of a request
          MaxUsd      \* bound of the model: budget of a request

Level == [price : 1..(One - 1), size : Nat]

ASSUME BookAssumption == /\ One \in Nat \ {0} /\ Levels \subseteq Level
                         /\ Rate[1] \in Nat /\ Rate[2] \in Nat \ {0}
                         /\ MaxRows \in Nat /\ MaxShares \in Nat /\ MaxUsd \in Nat

VARIABLES rows,   \* the rows the venue sent, in any order
          fill    \* the request and its fill, or NoFill

vars == <<rows, fill>>

NoFill == [kind |-> "none"]
-----------------------------------------------------------------------------
(* Rationals.                                                                *)

Whole(n) == <<n, 1>>
Plus(a, b) == <<a[1] * b[2] + b[1] * a[2], a[2] * b[2]>>
Minus(a, b) == <<a[1] * b[2] - b[1] * a[2], a[2] * b[2]>>
Times(a, b) == <<a[1] * b[1], a[2] * b[2]>>
Leq(a, b) == a[1] * b[2] <= b[1] * a[2]
Least(a, b) == IF Leq(a, b) THEN a ELSE b
-----------------------------------------------------------------------------
(* Fetching and walking a book.                                              *)

\* The rows that show a size (toLevels).
Shown(seq) == {i \in DOMAIN seq : seq[i].size > 0}

\* Mutant of Bids: the rows are walked in the order they came.
BidsUnsorted(seq) == SelectSeq(seq, LAMBDA l : l.size > 0)

\* These rows by price, rising for dir = 1 and falling for dir = -1.
ByPrice(seq, dir) ==
    LET ranks == 1..Cardinality(Shown(seq))
        order == CHOOSE o \in Bijection(ranks, Shown(seq)) :
                    \A i, j \in ranks : i < j => dir * seq[o[i]].price <= dir * seq[o[j]].price
    IN  [i \in ranks |-> seq[order[i]]]

Bids(seq) == ByPrice(seq, -1)
Asks(seq) == ByPrice(seq, 1)

\* Take up to n shares from the levels, best first; left[i] are still wanted
\* after i of them.
Walk(levels, n) ==
    LET left[i \in 0..Len(levels)] ==
            IF i = 0 THEN n
            ELSE IF left[i - 1] <= levels[i].size THEN 0
            ELSE left[i - 1] - levels[i].size
    IN  [shares   |-> n - left[Len(levels)],
         notional |-> SumFunction([i \in DOMAIN levels |->
                                      (left[i - 1] - left[i]) * levels[i].price])]

\* Spend what is left of a budget on one level; the last share may be a fraction.
Spend(acc, l) ==
    LET take == Least(Times(acc.left, <<1, l.price>>), Whole(l.size))
        paid == Least(acc.left, Whole(l.size * l.price))  \* take * l.price
    IN  IF Leq(acc.left, Whole(0)) THEN acc
        ELSE [left     |-> Minus(acc.left, paid),
              shares   |-> Plus(acc.shares, take),
              notional |-> Plus(acc.notional, paid)]

\* Spend up to a rational budget on the levels; spent[i] is the state of the
\* loop after i of them.
WalkBudget(levels, budget) ==
    LET spent[i \in 0..Len(levels)] ==
            IF i = 0 THEN [left |-> budget, shares |-> Whole(0), notional |-> Whole(0)]
            ELSE Spend(spent[i - 1], levels[i])
    IN  spent[Len(levels)]

\* Fee on the cheaper side of the pair, at the average price of the fill.
FeeOn(shares, notional) ==
    Times(Rate, Least(notional, Minus(Times(shares, Whole(One)), notional)))

SimulateMarketSell(seq, n) ==
    LET w == Walk(Bids(seq), n)
    IN  [shares |-> w.shares, notional |-> w.notional, exhausted |-> w.shares < n]

\* Mutant of SimulateMarketBuy: the fee is not taken off the budget.
BuyInOnePass(seq, usd) ==
    LET first == WalkBudget(Asks(seq), Whole(usd))
        fee   == FeeOn(first.shares, first.notional)
    IN  [shares |-> first.shares, notional |-> first.notional, fee |-> fee,
         exhausted |-> ~Leq(Minus(Whole(usd), <<One, 100>>), Plus(first.notional, fee))]

\* Mutant of SimulateMarketBuy: the fee is estimated on the whole notional
\* instead of the cheaper side of the pair.
BuyReservingTooMuch(seq, usd) ==
    LET first  == WalkBudget(Asks(seq), Whole(usd))
        second == WalkBudget(Asks(seq), Minus(Whole(usd), Times(Rate, first.notional)))
        fee    == FeeOn(second.shares, second.notional)
    IN  [shares |-> second.shares, notional |-> second.notional, fee |-> fee,
         exhausted |-> ~Leq(Minus(Whole(usd), <<One, 100>>), Plus(second.notional, fee))]

\* Walk once to estimate the fee, then again with the fee taken off the budget;
\* a remainder of more than a cent counts as an exhausted book.
SimulateMarketBuy(seq, usd) ==
    LET first  == WalkBudget(Asks(seq), Whole(usd))
        estFee == FeeOn(first.shares, first.notional)
        less   == Minus(Whole(usd), estFee)
        second == IF Leq(estFee, Whole(0)) THEN first
                  ELSE WalkBudget(Asks(seq), IF Leq(Whole(0), less) THEN less ELSE Whole(0))
        fee    == FeeOn(second.shares, second.notional)
    IN  [shares |-> second.shares, notional |-> second.notional, fee |-> fee,
         exhausted |-> ~Leq(Minus(Whole(usd), <<One, 100>>), Plus(second.notional, fee))]

\* Mutant of LimitSellFilled: bids below the limit count as visible size.
LimitFillsFromWholeBook(seq, price, n) ==
    LET bids    == Bids(seq)
        visible == SumFunction([i \in DOMAIN bids |-> bids[i].size])
    IN  IF bids = <<>> \/ bids[1].price < price THEN 0
        ELSE IF n <= visible THEN n ELSE visible

\* Shares of a resting limit that fill; they are paid at the limit price.
LimitSellFilled(seq, price, n) ==
    LET bids     == Bids(seq)
        eligible == {i \in DOMAIN bids : bids[i].price >= price}
        visible  == SumFunction([i \in eligible |-> bids[i].size])
    IN  IF n <= visible THEN n ELSE visible
-----------------------------------------------------------------------------
Init == /\ rows \in BoundedSeq(Levels, MaxRows)
        /\ fill = NoFill

MarketSell(n) == /\ fill = NoFill
                 /\ fill' = [kind |-> "sell", asked |-> n,
                             got |-> SimulateMarketSell(rows, n)]
                 /\ UNCHANGED rows

MarketBuy(usd) == /\ fill = NoFill
                  /\ fill' = [kind |-> "buy", asked |-> usd,
                              got |-> SimulateMarketBuy(rows, usd)]
                  /\ UNCHANGED rows

LimitSell(price, n) == /\ fill = NoFill
                       /\ fill' = [kind |-> "limit", asked |-> n, price |-> price,
                                   got |-> LimitSellFilled(rows, price, n)]
                       /\ UNCHANGED rows

Next == \/ \E n \in 1..MaxShares : MarketSell(n)
        \/ \E usd \in 1..MaxUsd : MarketBuy(usd)
        \/ \E price \in 1..(One - 1), n \in 1..MaxShares : LimitSell(price, n)

Spec == Init /\ [][Next]_vars
-----------------------------------------------------------------------------
(* Properties.                                                               *)

\* Every way to take n shares from the rows, whatever their order.
Allocations(n) ==
    {a \in [DOMAIN rows -> 0..n] :
        /\ \A i \in DOMAIN rows : a[i] <= rows[i].size
        /\ SumFunction(a) = n}

Gain(a) == SumFunction([i \in DOMAIN rows |-> a[i] * rows[i].price])

\* A market sale fills as much as the book shows and brings what the best
\* allocation of these shares to its rows would: the order of the rows, empty
\* rows and a thin book do not matter (walk, simulateMarketSell).
SellTakesBestPrices ==
    fill.kind = "sell" =>
        LET got   == fill.got.shares
            gains == {Gain(a) : a \in Allocations(got)}
        IN  /\ fill.got.notional \in gains
            /\ \A g \in gains : g <= fill.got.notional
            /\ got < fill.asked => Allocations(got + 1) = {}

\* Cash cannot go negative by a buy: notional and the fee that is really charged
\* stay within the budget, although the fee was estimated on a different fill
\* (header of book-sim.ts).
BuyStaysInBudget ==
    fill.kind = "buy" =>
        Leq(Plus(fill.got.notional, fill.got.fee), Whole(fill.asked))

\* What all rows together cost.
DepthCost == SumFunction([i \in DOMAIN rows |-> rows[i].price * rows[i].size])

\* One pass is enough: unless the book is empty-handed, the part of the budget a
\* buy leaves unspent is of the second order in the fee rate (simulateMarketBuy,
\* "converges in one pass").
BuyConverges ==
    fill.kind = "buy" /\ DepthCost >= fill.asked =>
        Leq(Minus(Whole(fill.asked), Plus(fill.got.notional, fill.got.fee)),
            Times(Whole(fill.asked), Times(Rate, Rate)))

\* A resting limit never does better than a market sale of the same shares, never
\* sells more than it has, and fills whenever a bid reaches it (limitSellFilled).
LimitFillIsConservative ==
    fill.kind = "limit" =>
        /\ fill.got <= fill.asked
        /\ fill.got * fill.price <= SimulateMarketSell(rows, fill.got).notional
        /\ (fill.got = 0) = (\A i \in DOMAIN rows :
                                 rows[i].size = 0 \/ rows[i].price < fill.price)

\* The flag of a buy means what its comment says: "book was thinner than the
\* requested size" (book-sim.ts:16, and the message of cli.ts).
FlagMeansThinBook ==
    fill.kind = "buy" /\ fill.got.exhausted => DepthCost < fill.asked
=============================================================================
