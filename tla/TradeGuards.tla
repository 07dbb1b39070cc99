------------------------------ MODULE TradeGuards -------------------------------
(***************************************************************************)
(* The service-layer rules of the live trading path as functions: the      *)
(* guards the orchestrator clips an order with, the drawdown rule, the     *)
(* stop loss and the share count of a sale.  Dollars, shares and prices    *)
(* are integers; a quotient is rounded down.                               *)
(***************************************************************************)
EXTENDS Integers, FiniteSets, FiniteSetsExt

CONSTANTS
    Tokens,
    Events,        \* one token per row: the event it belongs to
    Bankroll,      \* initialBankrollUsd
    DrawdownPct,   \* drawdown from the high-water mark that halts
    StopLossPct,   \* loss on average cost that sells a position
    MinTrade, MaxTradePct, MaxTotalPct, MaxEventPct, MaxPositions,
    Half           \* the price 0.5, the default for an unknown one

ASSUME GuardsAssumption ==
    /\ IsFiniteSet(Tokens) /\ DOMAIN Events = Tokens
    /\ Bankroll \in Nat \ {0} /\ Half \in Nat \ {0}
    /\ DrawdownPct \in 1..100 /\ StopLossPct \in 1..100
    /\ MinTrade \in Nat \ {0} /\ MaxPositions \in Nat
    /\ MaxTradePct \in Nat /\ MaxTotalPct \in Nat /\ MaxEventPct \in Nat

\* Mutant of AtLeastZero: the floor is missing.
AsIs(n) == n

AtLeastZero(n) == IF n < 0 THEN 0 ELSE n

\* What is left of a requested amount; nothing when it falls below the minimum.
TradeGuards(requested, bankroll, exposure, eventExposure, open) ==
    LET caps == {requested,
                 (bankroll * MaxTradePct) \div 100,
                 AtLeastZero((bankroll * MaxTotalPct) \div 100 - exposure),
                 AtLeastZero((bankroll * MaxEventPct) \div 100 - eventExposure)}
    IN  IF open >= MaxPositions \/ Min(caps) < MinTrade THEN 0 ELSE Min(caps)

\* A high-water mark that is not positive shows no drawdown.
DrawdownHalts(highWater, equity) ==
    highWater > 0 /\ 100 * (highWater - equity) >= DrawdownPct * highWater

StopLossHit(avg, price) == avg > 0 /\ 100 * (avg - price) >= StopLossPct * avg

\* Shares to sell for a close or a reduce of a position of that size and value.
SellShares(action, usd, size, value) ==
    CASE action = "close" -> size
      [] action = "reduce" /\ value > 0 -> Min({size, (size * usd) \div value})
      [] OTHER -> 0
=============================================================================
