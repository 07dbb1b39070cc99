----------------------------- MODULE PaperAccount ------------------------------
(***************************************************************************)
(* What the paper book promises whoever reads portfolio.json: an account   *)
(* whose positions are opened for cash it has, shrink by sales that pay    *)
(* between nothing and one dollar a share, and are settled at 1, 1/2 or 0. *)
(* Runs, locks, resting orders, crashes and the market are not part of it. *)
(***************************************************************************)
EXTENDS Integers

CONSTANTS Ids,        \* position ids
          One,        \* price units in one dollar
          Bankroll

VARIABLES shares,     \* shares held of each id, 0 when flat
          cost,       \* cost per share of each id, entry fee included
          cash, realized

vars == <<shares, cost, cash, realized>>

Init == /\ shares = [i \in Ids |-> 0]
        /\ cost = [i \in Ids |-> 0]
        /\ cash = Bankroll
        /\ realized = 0

\* Open a flat position, paying for it out of cash.
Buy(i) == /\ shares[i] = 0
          /\ shares'[i] > 0 /\ cost'[i] >= 0
          /\ shares' = [shares EXCEPT ![i] = shares'[i]]
          /\ cost' = [cost EXCEPT ![i] = cost'[i]]
          /\ cash' = cash - shares'[i] * cost'[i]
          /\ cash' >= 0
          /\ UNCHANGED realized

\* n shares of a position leave for `proceeds`; the gain over their cost is
\* realized.
Reduce(i, n, proceeds) ==
    /\ n \in 1..shares[i]
    /\ shares' = [shares EXCEPT ![i] = @ - n]
    /\ cost' = [cost EXCEPT ![i] = IF n = shares[i] THEN 0 ELSE @]
    /\ cash' = cash + proceeds
    /\ realized' = realized + proceeds - n * cost[i]

\* Sell part or all of one position, fee deducted, below one dollar a share.
Sell(i, n) == /\ cash' - cash \in 0..(n * (One - 1))
              /\ Reduce(i, n, cash' - cash)

\* Redeem a whole position as lost, void or won.
Settle(i) == \E value \in {0, One \div 2, One} :
                 Reduce(i, shares[i], shares[i] * value)

Next == \E i \in Ids : \/ Buy(i)
                       \/ \E n \in 1..shares[i] : Sell(i, n)
                       \/ Settle(i)

Spec == Init /\ [][Next]_vars
=============================================================================
