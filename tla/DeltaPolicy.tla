------------------------------ MODULE DeltaPolicy -------------------------------
(***************************************************************************)
(* The portfolio manager's policy of the delta-pm service: pure functions  *)
(* of a book, the current marks and a thesis.  Prices, dollars and         *)
(* percentages are integers; a quotient is rounded down.  A position       *)
(* carries its dollar size at entry where the code carries the quantity,   *)
(* and its conservative and point targets as percentages without sign.     *)
(***************************************************************************)
EXTENDS Integers, FiniteSets, FiniteSetsExt

CONSTANTS
    Tickers,
    Px,              \* marks the market may show
    Capital,         \* initialCapitalUsd
    HardStopPct,     \* adverse move that closes a position
    HaltLossPct,     \* loss of initial capital that halts the portfolio
    DailyLossPct,    \* day loss that stops entries
    RiskPct,         \* equity risked between mark and stop
    TierCapPct, GrossCapPct, NetCapPct,
    MinTrade,        \* smallest order in dollars
    SlipPct,         \* paper slippage of an entry
    EdgePct,         \* entry threshold of the residual edge
    DriftPct,        \* adverse drift tolerated since t0
    Atr              \* 20-day ATR in price units

ASSUME PolicyAssumption ==
    /\ IsFiniteSet(Tickers)
    /\ Px \subseteq Nat \ {0} /\ Capital \in Nat \ {0}
    /\ HardStopPct \in 1..99 /\ HaltLossPct \in 1..99 /\ DailyLossPct \in 1..99
    /\ RiskPct \in Nat /\ TierCapPct \in Nat /\ GrossCapPct \in Nat /\ NetCapPct \in Nat
    /\ MinTrade \in Nat \ {0} /\ SlipPct \in 0..99 /\ Atr \in Nat
    /\ EdgePct \in Nat /\ DriftPct \in Nat

\* The unit of price is small enough that no paper fill is rounded down to nothing.
ASSUME FillAssumption == \A px \in Px : px * (100 - SlipPct) >= 100

Long == 1
Short == -1
Dir == {Long, Short}

\* No live mark for a ticker; no position in it.
NoMark == 0
Flat == [dir |-> 0]

Smaller(a, b) == IF a < b THEN a ELSE b
Larger(a, b) == IF a < b THEN b ELSE a

\* The better and the worse of two prices for a holder in direction d.
Tighter(d, a, b) == IF d = Long THEN Larger(a, b) ELSE Smaller(a, b)
AtOrBeyond(d, price, stop) == IF d = Long THEN price <= stop ELSE price >= stop

MarkOr(p, mark) == IF mark = NoMark THEN p.entry ELSE mark
Pnl(p, mark) == (p.dir * (mark - p.entry) * p.size) \div p.entry

HeldIn(pos) == {t \in DOMAIN pos : pos[t] # Flat}

Equity(realized, pos, marks) ==
    Capital + realized
      + SumFunction([t \in HeldIn(pos) |-> Pnl(pos[t], MarkOr(pos[t], marks[t]))])

\* Notional at the mark, signed by direction.
Notional(p, mark) == (p.dir * p.size * MarkOr(p, mark)) \div p.entry
Gross(pos, marks) == SumFunction([t \in HeldIn(pos) |-> pos[t].dir * Notional(pos[t], marks[t])])
Net(pos, marks) == SumFunction([t \in HeldIn(pos) |-> Notional(pos[t], marks[t])])

\* Percentage move since t0, signed in price terms.
RawMovePct(base, mark) == (100 * (mark - base)) \div base

AtHaltLine(realized, pos, marks) ==
    100 * Equity(realized, pos, marks) <= Capital * (100 - HaltLossPct)

\* Today's loss in the shadow book: the unrealised part only.
AtDailyStop(realized, pos, marks) ==
    LET ref == Capital + realized IN
    /\ ref > 0
    /\ 100 * (Equity(realized, pos, marks) - ref) <= -DailyLossPct * ref

\* The stop at a distance of dist percent, never looser than the hard floor.
StopAt(d, mark, dist) == (mark * (100 - d * Smaller(dist, HardStopPct))) \div 100

\* Dollars to open with: risk over stop distance, clipped by each cap in turn.
EntrySize(d, mark, stop, equity, gross, net) ==
    LET gap == Larger(mark - stop, stop - mark)
        headroom == IF d = Long THEN equity * NetCapPct - 100 * net
                                ELSE equity * NetCapPct + 100 * net
        caps == {(equity * RiskPct * mark) \div (100 * gap),
                 (equity * TierCapPct) \div 100,
                 Larger(0, equity * GrossCapPct - 100 * gross) \div 100,
                 Larger(0, headroom) \div 100}
    IN  Min(caps)

\* The paper fill: the mark and the slippage against us.
FillPx(d, mark) == (mark * (100 + d * SlipPct)) \div 100

Adverse(p, mark) == p.dir * (p.entry - mark)
AtHardStop(p, mark) == 100 * Adverse(p, mark) >= HardStopPct * p.entry
ThroughStop(p, mark) == AtOrBeyond(p.dir, mark, p.stop)

\* The two conditions on which the fast tick closes a position.
StoppedOut(p, mark) == AtHardStop(p, mark) \/ ThroughStop(p, mark)

\* The daily review's verdict, in the order the code tries the tracks.
ReviewTrack(p, mark, now) ==
    LET realized == p.dir * RawMovePct(p.base, mark)
        residual == p.hi - realized
    IN  IF AtHardStop(p, mark) THEN "hard_floor"
        ELSE IF ThroughStop(p, mark) THEN "technical"
        ELSE IF realized >= p.lo \/ residual <= 0 THEN "valuation"
        ELSE IF now < p.until THEN "hold"
        ELSE IF p.extended THEN "time" ELSE "extend"

\* Mutant of Trailed: the stop follows the last mark, not the best one.
TrailedByMark(p, mark, movePct) ==
    LET arms == p.armed \/ 2 * movePct * p.dir >= p.hi IN
    [p EXCEPT !.best = mark, !.armed = arms,
              !.stop = IF arms THEN mark - p.dir * ((5 * Atr) \div 2) ELSE @]

\* Mutant of Trailed: the trail is armed as soon as the tick has statistics.
TrailedAtOnce(p, mark, movePct) ==
    LET best == Tighter(p.dir, p.best, mark)
    IN  [p EXCEPT !.best = best, !.armed = TRUE,
                  !.stop = Tighter(p.dir, @, best - p.dir * ((5 * Atr) \div 2))]

\* updateTrailingStop: the argument movePct is multiplied by the direction again.
Trailed(p, mark, movePct) ==
    LET best == Tighter(p.dir, p.best, mark)
        arms == p.armed \/ 2 * movePct * p.dir >= p.hi
    IN  [p EXCEPT !.best = best, !.armed = arms,
                  !.stop = IF arms THEN Tighter(p.dir, @, best - p.dir * ((5 * Atr) \div 2))
                                   ELSE @]
=============================================================================
