------------------------------- MODULE PaperRuns -------------------------------
(***************************************************************************)
(* One process working on the paper book while it holds the book lock: the *)
(* evaluation cycle with its watchlist scan, the fast tick, and a manual   *)
(* buy.  `disk` is portfolio.json and `mem` the copy a run loaded, which a *)
(* crash loses.  A network answer may be different at every read, so books *)
(* and evaluations are chosen where the code awaits them.  Who may run at  *)
(* all is the subject of module BookLock.                                  *)
(***************************************************************************)
EXTENDS PaperPortfolio

CONSTANTS
    EventOf,          \* the event each market belongs to
    Books,            \* tops of book the venue may show
    CollapsedBooks,   \* those it shows of an outcome whose price collapsed
    Evaluations,      \* results of an engine run
    Lots,             \* share counts a buy may fill
    Asks,             \* prices a buy may fill at
    Budget,           \* entry notional, fee included
    MaxPositions, MaxPerEvent, MaxEvals,
    Seeds,            \* positions the operator may open by hand
    Outcomes,         \* how the venue may resolve a market
    Collapsible,      \* outcomes whose price may collapse for good
    MaxOpened,        \* bound of the model: shares bought in one behaviour
    MaxCrashes        \* bound of the model: crashes in one behaviour

Settled == {"yes", "no", "voided"}
Evaluation == [probYes : Prob, saturatedAt : {"none", "floor", "ceil"},
               contaminated : BOOLEAN]

ASSUME RunsAssumption ==
    /\ Books \subseteq Book /\ CollapsedBooks \subseteq Books
    /\ Evaluations \subseteq Evaluation /\ Outcomes \subseteq Settled
    /\ Collapsible \subseteq PosIds /\ Seeds \subseteq PosIds
    /\ Lots \subseteq Nat \ {0} /\ Asks \subseteq 1..(One - 1)
    /\ Budget \in Nat /\ MaxPositions \in Nat /\ MaxPerEvent \in Nat
    /\ MaxEvals \in Nat /\ MaxOpened \in Nat /\ MaxCrashes \in Nat

VARIABLES
    disk,        \* portfolio.json
    mem,         \* the portfolio of the run in progress
    pc,          \* where that run is
    kind,        \* what it is
    todo,        \* positions of the snapshot it has not visited yet
    slugs,       \* watchlist markets it has not looked at yet
    cur,         \* the position it is working on
    cursor,      \* index of the resting limit a tick looks at
    seen,        \* the book snapshot of that visit
    evals,       \* evaluations spent by the cycle
    after,       \* where the run goes on after saving
    journal,     \* ledger.jsonl: shares bought and shares gone, per position
    opened,      \* history: shares that buys have put into portfolio.json
    resolution,  \* state of each market on the venue
    collapsed,   \* outcomes whose price has collapsed for good
    crashes

runVars == <<pc, kind, todo, slugs, cur, cursor, seen, evals, after>>
envVars == <<resolution, collapsed, crashes>>
vars == <<disk, mem, runVars, journal, opened, envVars>>

NoBook == [bid |-> 0, size |-> 0, ask |-> One]
NoPos == <<>>
Closed(m) == resolution[m] # "open"

Pc == {"idle", "cycle", "evaluate", "scan", "research", "bought",
       "tick", "limits", "save"}

Init == /\ disk = FreshBook /\ mem = FreshBook
        /\ pc = "idle" /\ kind = "none" /\ after = "idle"
        /\ todo = {} /\ slugs = {} /\ cur = NoPos /\ cursor = 0
        /\ seen = NoBook /\ evals = 0
        /\ journal = [bought |-> [p \in PosIds |-> 0], gone |-> [p \in PosIds |-> 0]]
        /\ opened = [p \in PosIds |-> 0]
        /\ resolution = [m \in Markets |-> "open"]
        /\ collapsed = {} /\ crashes = 0

\* What the venue shows of the outcome behind a position.
Shown(p) == IF p \in collapsed THEN CollapsedBooks ELSE Books

JournalGone(p, n) == journal' = [journal EXCEPT !.gone[p] = @ + n]

\* Hand the changed portfolio to savePortfolio, then go on at `next`.
SaveThen(b, next) == mem' = b /\ pc' = "save" /\ after' = next

\* The working variables of a visit are left behind with it.
Leave == cur' = NoPos /\ cursor' = 0 /\ seen' = NoBook

Finish == /\ pc' = "idle" /\ kind' = "none"
          /\ Leave /\ evals' = 0
          /\ todo' = {} /\ slugs' = {} /\ after' = "idle"
-----------------------------------------------------------------------------
(* Starting a run: the portfolio is loaded, its positions are the snapshot   *)
(* the loop goes through.                                                    *)

StartCycle == /\ pc = "idle"
              /\ pc' = "cycle" /\ kind' = "cycle"
              /\ mem' = disk /\ todo' = Open(disk)
              /\ UNCHANGED <<disk, slugs, cur, cursor, seen, evals, after, journal, opened, envVars>>

StartTick == /\ pc = "idle"
             /\ Open(disk) # {}
             /\ pc' = "tick" /\ kind' = "tick"
             /\ mem' = disk /\ todo' = Open(disk)
             /\ UNCHANGED <<disk, slugs, cur, cursor, seen, evals, after, journal, opened, envVars>>

\* A filled buy: n shares at an average price no better than the ask, whose cost
\* and fee stay within the budget.
Affordable(n, price) == n * (price + PerShareFee(price, TakerBps)) <= Budget

SumOpened == SumFunction(opened)

BuyThenSave(b, p, book) ==
    \E n \in Lots, price \in Asks :
        /\ price >= book.ask /\ Affordable(n, price)
        /\ SumOpened + n <= MaxOpened
        /\ SaveThen(ApplyBuy(b, p, n, price, PerShareFee(price, TakerBps)), "bought")
        /\ cur' = p

\* `paper buy`: the operator opens a position by hand.  Neither the event cap
\* nor the position cap applies, but a side already held is refused.
SeedBuy(p) == /\ pc = "idle"
              /\ ~Closed(MarketOf(p))
              /\ ~Held(disk, p)
              /\ disk.cash >= Budget
              /\ \E book \in Shown(p) : BuyThenSave(disk, p, book)
              /\ kind' = "buy"
              /\ UNCHANGED <<disk, todo, slugs, cursor, seen, evals, journal, opened, envVars>>

Save == /\ pc = "save"
        /\ disk' = mem /\ pc' = after /\ after' = "idle"
        /\ opened' = [p \in PosIds |->
                        opened[p] + Max2(0, mem.pos[p].shares - disk.pos[p].shares)]
        /\ UNCHANGED <<mem, kind, todo, slugs, cur, cursor, seen, evals, journal, envVars>>

\* The trade entry of a buy is written after the portfolio was saved.
JournalBuy == /\ pc = "bought"
              /\ journal' = [journal EXCEPT !.bought[cur] = @ + mem.pos[cur].shares]
              /\ IF kind = "cycle"
                 THEN /\ pc' = "scan" /\ Leave
                      /\ UNCHANGED <<kind, todo, slugs, evals, after>>
                 ELSE Finish
              /\ UNCHANGED <<disk, mem, opened, envVars>>
-----------------------------------------------------------------------------
(* The evaluation cycle.                                                     *)

Visit(p) == p \in todo /\ todo' = todo \ {p}

\* The lookup or the first book fetch failed, the market awaits its
\* resolution, or the evaluation cap is reached.
CycleSkip(p) == /\ pc = "cycle" /\ Visit(p)
                /\ UNCHANGED <<disk, mem, pc, kind, slugs, cur, cursor, seen, evals, after,
                               journal, opened, envVars>>

SettleVisited(p, next) ==
    /\ resolution[MarketOf(p)] \in Settled
    /\ SaveThen(ApplySettlement(mem, p, resolution[MarketOf(p)]), next)
    /\ JournalGone(p, mem.pos[p].shares)

CycleSettle(p) == /\ pc = "cycle" /\ Visit(p)
                  /\ SettleVisited(p, "cycle")
                  /\ UNCHANGED <<disk, kind, slugs, cur, cursor, seen, evals, opened, envVars>>

\* Mutant of CycleStopLoss: the whole position is ledgered, not what was sold.
StopLossLedgersAll(p) ==
    /\ pc = "cycle" /\ Visit(p) /\ ~Closed(MarketOf(p))
    /\ \E book \in Shown(p) :
         LET b == DropLimits(mem, p) IN
         /\ StopLossBreached(mem.pos[p].price, book)
         /\ SaveThen(ExecuteExit(b, p, book, 0, "stop_loss"), "cycle")
         /\ JournalGone(p, mem.pos[p].shares)
    /\ UNCHANGED <<disk, kind, slugs, cur, cursor, seen, evals, opened, envVars>>

\* The stop-loss outranks the model: it neither waits for it nor depends on it.
CycleStopLoss(p) ==
    /\ pc = "cycle" /\ Visit(p) /\ ~Closed(MarketOf(p))
    /\ \E book \in Shown(p) :
         LET b == DropLimits(mem, p) IN
         /\ StopLossBreached(mem.pos[p].price, book)
         /\ SaveThen(ExecuteExit(b, p, book, 0, "stop_loss"), "cycle")
         /\ JournalGone(p, ExitFill(b, p, book, 0, "stop_loss"))
    /\ UNCHANGED <<disk, kind, slugs, cur, cursor, seen, evals, opened, envVars>>

CycleEvaluate(p) ==
    /\ pc = "cycle" /\ Visit(p) /\ ~Closed(MarketOf(p))
    /\ \E book \in Shown(p) : ~StopLossBreached(mem.pos[p].price, book)
    /\ evals < MaxEvals
    /\ evals' = evals + 1 /\ cur' = p /\ pc' = "evaluate"
    /\ UNCHANGED <<disk, mem, kind, slugs, cursor, seen, after, journal, opened, envVars>>

\* The engine failed, timed out or found the question unforecastable.
EvaluateFails == /\ pc = "evaluate"
                 /\ pc' = "cycle" /\ Leave
                 /\ UNCHANGED <<disk, mem, kind, todo, slugs, evals, after, journal, opened, envVars>>

\* Mutant of Decide: a saturated hold leaves the resting exit in place.
DecideKeepingLimits(b, p, eval, book) ==
    LET decision == FinalDecision(eval, b.pos[p].price, SideOf(p), book)
        exits    == decision.reason # "hold"
        cleared  == IF exits THEN DropLimits(b, p) ELSE b
        noted    == [cleared EXCEPT !.pos[p].satHold = decision.saturatedHold]
        prob     == ProbFor(eval, SideOf(p))
    IN  [book |-> IF exits THEN ExecuteExit(noted, p, book, prob, decision.reason) ELSE noted,
         sold |-> IF exits THEN ExitFill(noted, p, book, prob, decision.reason) ELSE 0]

\* What the cycle does with an evaluation of p, against a book fetched after it.
Decide(b, p, eval, book) ==
    LET decision == FinalDecision(eval, b.pos[p].price, SideOf(p), book)
        exits    == decision.reason # "hold"
        cleared  == IF decision.saturatedHold \/ exits THEN DropLimits(b, p) ELSE b
        noted    == [cleared EXCEPT !.pos[p].satHold = decision.saturatedHold]
        prob     == ProbFor(eval, SideOf(p))
    IN  [book |-> IF exits THEN ExecuteExit(noted, p, book, prob, decision.reason) ELSE noted,
         sold |-> IF exits THEN ExitFill(noted, p, book, prob, decision.reason) ELSE 0]

EvaluateDone ==
    /\ pc = "evaluate"
    /\ \E eval \in Evaluations, book \in Shown(cur) :
         LET outcome == Decide(mem, cur, eval, book) IN
         /\ SaveThen(outcome.book, "cycle")
         /\ JournalGone(cur, outcome.sold)
    /\ Leave
    /\ UNCHANGED <<disk, kind, todo, slugs, evals, opened, envVars>>

CycleScans == /\ pc = "cycle" /\ todo = {}
              /\ pc' = "scan" /\ slugs' = Markets
              /\ UNCHANGED <<disk, mem, kind, todo, cur, cursor, seen, evals, after,
                             journal, opened, envVars>>
-----------------------------------------------------------------------------
(* The watchlist scan at the end of a cycle.                                 *)

HeldInEvent(b, e) == {p \in Open(b) : EventOf[MarketOf(p)] = e}

\* The market is closed, already held or over its event cap, or a fetch failed.
ScanSkip(m) == /\ pc = "scan" /\ m \in slugs
               /\ slugs' = slugs \ {m}
               /\ UNCHANGED <<disk, mem, pc, kind, todo, cur, cursor, seen, evals, after,
                              journal, opened, envVars>>

\* Mutant of ScanEvaluate: the cash is not looked at again before an entry.
ScanIgnoringCash(m) ==
    /\ pc = "scan" /\ m \in slugs
    /\ Cardinality(Open(mem)) < MaxPositions
    /\ evals < MaxEvals
    /\ \A s \in Side : ~Held(mem, <<m, s>>)
    /\ ~Closed(m)
    /\ Cardinality(HeldInEvent(mem, EventOf[m])) < MaxPerEvent
    /\ slugs' = slugs \ {m} /\ evals' = evals + 1
    /\ cur' = <<m, 0>> /\ pc' = "research"
    /\ UNCHANGED <<disk, mem, kind, todo, cursor, seen, after, journal, opened, envVars>>

\* Mutant of ScanEvaluate: only the market is looked at, not its event.
ScanStackingEvents(m) ==
    /\ pc = "scan" /\ m \in slugs
    /\ Cardinality(Open(mem)) < MaxPositions
    /\ evals < MaxEvals
    /\ \A s \in Side : ~Held(mem, <<m, s>>)
    /\ ~Closed(m)
    /\ mem.cash >= Budget
    /\ slugs' = slugs \ {m} /\ evals' = evals + 1
    /\ cur' = <<m, 0>> /\ pc' = "research"
    /\ UNCHANGED <<disk, mem, kind, todo, cursor, seen, after, journal, opened, envVars>>

ScanEvaluate(m) ==
    /\ pc = "scan" /\ m \in slugs
    /\ Cardinality(Open(mem)) < MaxPositions
    /\ evals < MaxEvals
    /\ \A s \in Side : ~Held(mem, <<m, s>>)
    /\ ~Closed(m)
    /\ Cardinality(HeldInEvent(mem, EventOf[m])) < MaxPerEvent
    /\ mem.cash >= Budget
    /\ slugs' = slugs \ {m} /\ evals' = evals + 1
    /\ cur' = <<m, 0>> /\ pc' = "research"
    /\ UNCHANGED <<disk, mem, kind, todo, cursor, seen, after, journal, opened, envVars>>

\* No forecast, no book, no edge, or nothing to fill against.
ResearchFails == /\ pc = "research"
                 /\ pc' = "scan" /\ Leave
                 /\ UNCHANGED <<disk, mem, kind, todo, slugs, evals, after, journal, opened, envVars>>

ResearchEnters ==
    /\ pc = "research"
    /\ LET m == MarketOf(cur) IN
       \E eval \in Evaluations, yesBook \in Shown(<<m, 0>>), noBook \in Shown(<<m, 1>>) :
         LET entry == DecideEntry(eval, yesBook, noBook) IN
         /\ entry.enter
         /\ BuyThenSave(mem, <<m, entry.side>>, IF entry.side = 0 THEN yesBook ELSE noBook)
    /\ UNCHANGED <<disk, kind, todo, slugs, cursor, seen, evals, journal, opened, envVars>>

\* The list is exhausted, or a cap or the cash ends it early.
ScanDone == /\ pc = "scan"
            /\ \/ slugs = {}
               \/ Cardinality(Open(mem)) >= MaxPositions
               \/ evals >= MaxEvals
               \/ mem.cash < Budget
            /\ Finish
            /\ UNCHANGED <<disk, mem, journal, opened, envVars>>
-----------------------------------------------------------------------------
(* The fast tick.                                                            *)

TickSkip(p) == /\ pc = "tick" /\ Visit(p)
               /\ UNCHANGED <<disk, mem, pc, kind, slugs, cur, cursor, seen, evals, after,
                              journal, opened, envVars>>

TickSettle(p) == /\ pc = "tick" /\ Visit(p)
                 /\ SettleVisited(p, "tick")
                 /\ UNCHANGED <<disk, kind, slugs, cur, cursor, seen, evals, opened, envVars>>

TickVisit(p) == /\ pc = "tick" /\ Visit(p) /\ ~Closed(MarketOf(p))
                /\ \E book \in Shown(p) : seen' = book
                /\ cur' = p /\ cursor' = 1 /\ pc' = "limits"
                /\ UNCHANGED <<disk, mem, kind, slugs, evals, after, journal, opened, envVars>>

AtLimit == pc = "limits" /\ Held(mem, cur) /\ cursor <= Len(mem.limits[cur])
TheLimit == mem.limits[cur][cursor]

\* What a tick sells against the limit under the cursor, and at which fee.
LimitFill == IF seen.bid < TheLimit.price THEN 0
             ELSE Min2(Min2(TheLimit.shares, mem.pos[cur].shares), seen.size)
\* Mutant of FallbackFill: an expired limit still insists on its price.
FallbackAtLimitOnly ==
    IF seen.bid < TheLimit.price THEN 0
    ELSE MarketFill(seen, Min2(TheLimit.shares, mem.pos[cur].shares))

FallbackFill == MarketFill(seen, Min2(TheLimit.shares, mem.pos[cur].shares))

\* The limit after n of its shares were sold: gone when nothing is left of it
\* or of its position.
ShrinkLimit(b, n, expired) ==
    LET left == TheLimit.shares - n
    IN  IF ~Held(b, cur) THEN b
        ELSE IF left > 0
             THEN [b EXCEPT !.limits[cur][cursor] =
                              [TheLimit EXCEPT !.shares = left, !.expired = expired]]
             ELSE [b EXCEPT !.limits[cur] =
                              SubSeq(@, 1, cursor - 1) \o SubSeq(@, cursor + 1, Len(@))]

\* Limits that went away leave the cursor where it is: the next one moved up.
AdvanceCursor(b) ==
    cursor' = IF Len(b.limits[cur]) < Len(mem.limits[cur]) THEN cursor ELSE cursor + 1

LimitFills ==
    /\ AtLimit /\ LimitFill > 0
    /\ LET b == ShrinkLimit(SellAt(mem, cur, LimitFill, TheLimit.price, MakerBps),
                            LimitFill, TheLimit.expired)
       IN  SaveThen(b, "limits") /\ AdvanceCursor(b)
    /\ JournalGone(cur, LimitFill)
    /\ UNCHANGED <<disk, kind, todo, slugs, cur, seen, evals, opened, envVars>>

\* The time to live ran out: sell at market and rest the remainder for one
\* more hour.
LimitFallsBack ==
    /\ AtLimit /\ LimitFill = 0 /\ TheLimit.expired
    /\ LET b == ShrinkLimit(SellAt(mem, cur, FallbackFill, seen.bid, TakerBps),
                            FallbackFill, FALSE)
       IN  SaveThen(b, "limits") /\ AdvanceCursor(b)
    /\ JournalGone(cur, FallbackFill)
    /\ UNCHANGED <<disk, kind, todo, slugs, cur, seen, evals, opened, envVars>>

\* Neither filled nor expired: the portfolio is saved as it is.
LimitRests == /\ AtLimit /\ LimitFill = 0 /\ ~TheLimit.expired
              /\ cursor' = cursor + 1 /\ disk' = mem
              /\ UNCHANGED <<mem, pc, kind, todo, slugs, cur, seen, evals, after,
                             journal, opened, envVars>>

\* Mutant of TickStops: shares that are already exiting are swept as well.
StopsBesideLimit == Held(mem, cur) /\ StopLossBreached(mem.pos[cur].price, seen)

\* The model-free stop-loss, only for a position without a resting exit.
TickStops == Held(mem, cur) /\ mem.limits[cur] = <<>>
             /\ StopLossBreached(mem.pos[cur].price, seen)

TickStopLoss ==
    /\ pc = "limits" /\ ~AtLimit
    /\ TickStops
    /\ SaveThen(ExecuteExit(mem, cur, seen, 0, "stop_loss"), "tick")
    /\ JournalGone(cur, ExitFill(mem, cur, seen, 0, "stop_loss"))
    /\ Leave
    /\ UNCHANGED <<disk, kind, todo, slugs, evals, opened, envVars>>

TickMovesOn == /\ pc = "limits" /\ ~AtLimit
               /\ ~TickStops
               /\ pc' = "tick" /\ Leave
               /\ UNCHANGED <<disk, mem, kind, todo, slugs, evals, after, journal, opened, envVars>>

TickDone == /\ pc = "tick" /\ todo = {}
            /\ Finish
            /\ UNCHANGED <<disk, mem, journal, opened, envVars>>
-----------------------------------------------------------------------------
(* The venue, time and crashes.                                              *)

\* A market closes, and a closed one is resolved or voided, for good.  A run
\* looks at a market once, so it is enough that this happens between runs.
Resolve(m) == /\ pc = "idle"
              /\ \/ resolution[m] = "open" /\ resolution' = [resolution EXCEPT ![m] = "awaiting"]
                 \/ /\ resolution[m] = "awaiting"
                    /\ \E r \in Outcomes : resolution' = [resolution EXCEPT ![m] = r]
              /\ UNCHANGED <<disk, mem, runVars, journal, opened, collapsed, crashes>>

\* The bid falls below every entry price and stays there.
Collapse(p) == /\ p \in Collapsible \ collapsed
               /\ collapsed' = collapsed \cup {p}
               /\ UNCHANGED <<disk, mem, runVars, journal, opened, resolution, crashes>>

\* The time to live of a resting limit runs out.  Only ticks look at it, so it
\* is enough that it happens between runs.
Expire(p) == /\ pc = "idle"
             /\ \E i \in DOMAIN disk.limits[p] : ~disk.limits[p][i].expired
             /\ disk' = [disk EXCEPT !.limits[p] =
                            [i \in DOMAIN @ |-> [@[i] EXCEPT !.expired = TRUE]]]
             /\ UNCHANGED <<mem, runVars, journal, opened, envVars>>

\* The process dies; what it had not saved is lost, the ledger is not.
Crash == /\ pc # "idle"
         /\ crashes < MaxCrashes
         /\ crashes' = crashes + 1
         /\ mem' = disk
         /\ Finish
         /\ UNCHANGED <<disk, journal, opened, resolution, collapsed>>

Run == \/ Save \/ JournalBuy
       \/ \E p \in PosIds : CycleSkip(p) \/ CycleSettle(p) \/ CycleStopLoss(p) \/ CycleEvaluate(p)
       \/ EvaluateFails \/ EvaluateDone \/ CycleScans
       \/ \E m \in Markets : ScanSkip(m) \/ ScanEvaluate(m)
       \/ ResearchFails \/ ResearchEnters \/ ScanDone
       \/ \E p \in PosIds : TickSkip(p) \/ TickSettle(p) \/ TickVisit(p)
       \/ LimitFills \/ LimitFallsBack \/ LimitRests
       \/ TickStopLoss \/ TickMovesOn \/ TickDone

Start == StartCycle \/ StartTick \/ \E p \in Seeds : SeedBuy(p)

Environment == \/ \E m \in Markets : Resolve(m)
               \/ \E p \in PosIds : Collapse(p) \/ Expire(p)
               \/ Crash

Next == Run \/ Start \/ Environment

Spec == Init /\ [][Next]_vars
-----------------------------------------------------------------------------
(* Properties.                                                               *)

TypeOK == /\ disk \in Portfolio /\ mem \in Portfolio
          /\ pc \in Pc /\ after \in Pc
          /\ kind \in {"none", "cycle", "tick", "buy"}
          /\ todo \subseteq PosIds /\ slugs \subseteq Markets
          /\ cur \in PosIds \cup {NoPos} /\ cursor \in Nat /\ evals \in Nat
          /\ seen \in Books \cup {NoBook}
          /\ journal \in [bought : [PosIds -> Nat], gone : [PosIds -> Nat]]
          /\ opened \in [PosIds -> Nat]
          /\ resolution \in [Markets -> {"open", "awaiting"} \cup Settled]
          /\ collapsed \subseteq PosIds /\ crashes \in Nat

\* A resting exit is alone on its position and covers all the shares still held,
\* through partial fills, fallbacks and stop-losses: no share of an exit in
\* progress dangles without an order and none is offered twice (executeExit,
\* the limit loop of runFillTickLocked).
Covered(b) == \A p \in PosIds :
                 /\ Len(b.limits[p]) <= 1
                 /\ b.limits[p] # <<>> => b.limits[p][1].shares = b.pos[p].shares
ExitsCoverPositions == Covered(disk) /\ Covered(mem)

\* The books balance: cash and the cost of what is held always add up to the
\* bankroll and the realized gains, so cash - bankroll = realized once all
\* positions are closed (header of portfolio.ts).
AccountingReconciles ==
    \A b \in {disk, mem} : b.cash + OpenCost(b) = Bankroll + b.realized

\* Cash never goes negative, although buys, fees, settlements and the budget
\* check are spread over several awaits of a run (header of book-sim.ts).
CashNeverNegative == disk.cash >= 0 /\ mem.cash >= 0

\* While the last evaluation of a position says to ride to resolution, the only
\* order that may rest on it is one a later stop-loss placed: no tick and no
\* fallback liquidates what the veto decided to keep (cycle, saturated hold).
SaturatedHoldIsKept ==
    \A b \in {disk, mem}, p \in PosIds :
        b.pos[p].satHold =>
            \A i \in DOMAIN b.limits[p] : b.limits[p][i].reason = "stop_loss"

\* The ledger against the saved book: every share that left portfolio.json is
\* ledgered at least once and a bought one at most once, whatever crashed in
\* between; without a crash, and between two saves, both are exact.
LedgerAccountsForBook ==
    \A p \in PosIds :
        /\ journal.gone[p] >= opened[p] - disk.pos[p].shares
        /\ journal.bought[p] <= opened[p]
        /\ crashes = 0 /\ pc \notin {"save", "bought"} =>
             /\ journal.gone[p] = opened[p] - disk.pos[p].shares
             /\ journal.bought[p] = opened[p]

\* The scan never stacks bets: when a cycle has just saved an entry, the event
\* it belongs to and the book are within their caps, and the market has no
\* second side open (scanWatchlist; manual buys are exempt).
EntryWithinCaps ==
    kind = "cycle" /\ pc = "bought" =>
        /\ Cardinality(HeldInEvent(disk, EventOf[MarketOf(cur)])) <= MaxPerEvent
        /\ Cardinality(Open(disk)) <= MaxPositions
        /\ \A s \in Side : Held(disk, <<MarketOf(cur), s>>) => s = SideOf(cur)

\* What portfolio.json shows is a plain account: one position changes per save,
\* buys are paid from cash, sales bring between 0 and 1 dollar a share.
Account == INSTANCE PaperAccount WITH
               Ids <- PosIds,
               shares <- [p \in PosIds |-> disk.pos[p].shares],
               cost <- [p \in PosIds |-> Cost(disk.pos[p])],
               cash <- disk.cash,
               realized <- disk.realized
AccountSpec == Account!Spec
-----------------------------------------------------------------------------
(* Liveness.  A started run goes on; the scheduler keeps starting ticks; the *)
(* venue does not fail for ever on one market; time passes.                  *)

Fairness == /\ WF_vars(Run)
            /\ SF_vars(StartTick)
            /\ \A p \in PosIds : /\ SF_vars(TickVisit(p))
                                 /\ SF_vars(Expire(p))

FairSpec == Spec /\ Fairness

\* A position whose price collapsed is out of the book in the end, whether the
\* stop-loss finds it free or behind a resting exit that must expire first,
\* unless its market closes before (header of run-cycle.ts).
StopLossExits ==
    \A p \in PosIds :
        p \in collapsed /\ Held(disk, p) ~> ~Held(disk, p) \/ Closed(MarketOf(p))
=============================================================================
