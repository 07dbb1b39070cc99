------------------------------ MODULE MCDeltaBook -------------------------------
(* Small instance of DeltaBook: marks around 10, one thesis per ticker and      *)
(* direction that matters, a capital one bad position can halve.                 *)
EXTENDS DeltaBook

CONSTANT nvda

Call(t, d, lo, hi) == [kind |-> "decide", ticker |-> t, dir |-> d, lo |-> lo, hi |-> hi,
                       hard |-> FALSE]
MCTheses == {Call(nvda, Long, 20, 40), Call(nvda, Short, 20, 40)}
MCPx == {6, 10, 13}
MCBases == {11}
MCDists == {30}
=============================================================================
