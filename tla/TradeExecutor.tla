----------------------------- MODULE TradeExecutor ------------------------------
(***************************************************************************)
(* The executor: one worker of the execution queue, the database it shares *)
(* with the orchestrator and the venue it trades at.  A trade job reads    *)
(* the system status, sends a fill-or-kill order and writes position and   *)
(* event; a sync job copies the venue's positions, sells what reached its  *)
(* stop loss and takes a snapshot whose drawdown may halt the system; a    *)
(* flatten job sells everything.  A job may throw, the process may die.    *)
(* A price stands still while a job runs.                                  *)
(***************************************************************************)
EXTENDS TradeGuards, Sequences

CONSTANTS
    Px,          \* prices of the venue
    MaxIds,      \* bound of the model: trade jobs in one behaviour
    MaxMoves,    \* bound of the model: price moves in one behaviour
    MaxTurns     \* bound of the model: faults and admin calls in one behaviour

ASSUME ExecutorAssumption ==
    /\ Px \subseteq Nat \ {0} /\ Half \in Px
    /\ MaxIds \in Nat /\ MaxTurns \in Nat /\ MaxMoves \in Nat

Ids == 1..MaxIds
Sync == [kind |-> "sync"]
Flatten == [kind |-> "flatten"]
None == [kind |-> "none"]
Trade == [kind : {"trade"}, id : Ids, action : {"open", "close", "reduce"}, token : Tokens,
          usd : Nat, shares : Nat]

VARIABLES
    status,      \* system_state
    pos,         \* open rows of positions: size and value at the last mark
    flow,        \* cash effect of the events newer than the last snapshot
    snap,        \* the latest portfolio snapshot
    venue,       \* the account at the venue: cash, shares held, everything ever bought
    px,
    queue,       \* waiting jobs
    stalled,     \* the job a crash left without a worker
    slot,        \* the job id sync-portfolio: free, taken, or kept by a failed job
    job, pc,     \* the worker
    todo,        \* tokens the job has yet to visit
    at,          \* the token it works on
    seen,        \* the position row it has read, or the remote tokens of a sync
    fill,        \* answer of the venue
    executed,    \* history: orders filled per trade job
    sealed,      \* history: halted by the worker and not touched by an admin since
    moves,       \* price moves so far
    turns,       \* faults and admin calls so far
    peak,        \* history: highest true equity
    faults       \* history: what happened that may set the books wrong

work == <<job, pc, todo, at, seen, fill>>
books == <<status, pos, flow, snap>>
outer == <<venue, px, moves>>
jobs == <<queue, stalled, slot>>
history == <<executed, sealed, peak, faults, turns>>
vars == <<books, outer, jobs, work, history>>

Closed == [open |-> FALSE]
Row(size, value) == [open |-> TRUE, size |-> size, value |-> value]
OpenIn(rows) == {t \in Tokens : rows[t].open}
Exposure(rows) == SumFunction([t \in OpenIn(rows) |-> rows[t].value])

\* What the account is worth at the venue's prices.
Equity(acc, prices) == acc.cash + SumFunction([t \in Tokens |-> acc.hold[t] * prices[t]])

NoFill == [ok |-> FALSE, px |-> Half, usd |-> 0]

Init == /\ status = "running" /\ flow = 0
        /\ pos = [t \in Tokens |-> Closed]
        /\ snap = [cash |-> Bankroll, equity |-> Bankroll, high |-> Bankroll, open |-> 0]
        /\ venue = [cash |-> Bankroll, hold |-> [t \in Tokens |-> 0],
                    cost |-> [t \in Tokens |-> 0], shares |-> [t \in Tokens |-> 0]]
        /\ px \in [Tokens -> {Half}]
        /\ queue = <<>> /\ stalled = None /\ slot = "free"
        /\ job = None /\ pc = "idle" /\ todo = {} /\ at = {} /\ seen = {} /\ fill = NoFill
        /\ executed = [i \in Ids |-> 0] /\ sealed = FALSE /\ peak = Bankroll /\ faults = {}
        /\ turns = 0 /\ moves = 0

\* Something happens that the service does not decide.
Turn == turns < MaxTurns /\ turns' = turns + 1

Idle == /\ job' = None /\ pc' = "idle" /\ todo' = {} /\ at' = {} /\ seen' = {}
        /\ fill' = NoFill

Take == /\ pc = "idle" /\ queue # <<>> /\ queue' = Tail(queue) /\ UNCHANGED stalled

\* Mutant of Complete: a completed sync stays in the queue's records.
CompleteKept == Idle /\ slot' = slot

\* A sync gives its job id back when it completes.
Complete == Idle /\ slot' = (IF job = Sync THEN "free" ELSE slot)
-----------------------------------------------------------------------------
(* The venue.                                                                *)

Buys(j) == j.kind = "trade" /\ j.action = "open"

CanFill(buy, t, amount) == IF buy THEN amount <= venue.cash
                                  ELSE amount \in 1..venue.hold[t]

Bought(t, usd) == LET n == usd \div px[t] IN
    [venue EXCEPT !.cash = @ - usd, !.hold[t] = @ + n,
                  !.cost[t] = @ + usd, !.shares[t] = @ + n]
Sold(t, n) == [venue EXCEPT !.cash = @ + n * px[t], !.hold[t] = @ - n]

\* A fill-or-kill order fills or is refused; the executor fills the holes of a
\* refusal with the default price and the amount it asked for.
Order(buy, t, amount) ==
    \/ /\ CanFill(buy, t, amount)
       /\ venue' = IF buy THEN Bought(t, amount) ELSE Sold(t, amount)
       /\ fill' = [ok |-> TRUE, px |-> px[t], usd |-> IF buy THEN amount ELSE amount * px[t]]
       /\ UNCHANGED <<faults, turns>>
    \/ /\ IF CanFill(buy, t, amount) THEN Turn ELSE UNCHANGED turns
       /\ fill' = [ok |-> FALSE, px |-> Half, usd |-> IF buy THEN amount ELSE amount * Half]
       /\ faults' = faults \cup {"refused"}
       /\ UNCHANGED venue

\* Average price of everything ever bought in the token.
AvgCost(t) == IF venue.shares[t] = 0 THEN Half ELSE venue.cost[t] \div venue.shares[t]
-----------------------------------------------------------------------------
(* Trade jobs.                                                               *)

\* Mutant of MayTrade: a new open is held back by a pause only.
MayTradeUnlessPaused(j) == ~(status = "paused" /\ j.action = "open")

\* The status the executor looks at.
MayTrade(j) == ~(status = "halted" /\ j.action = "open")

\* The status check and the read of the position; an open in a halted system is
\* recorded as rejected, with nothing filled.
StartTrade == /\ Take /\ Head(queue).kind = "trade"
              /\ IF MayTrade(Head(queue))
                 THEN /\ job' = Head(queue) /\ pc' = "order"
                      /\ at' = {job'.token} /\ seen' = {pos[job'.token]}
                      /\ UNCHANGED <<todo, fill>>
                 ELSE UNCHANGED work
              /\ UNCHANGED <<books, outer, slot, history>>

The(S) == CHOOSE x \in S : TRUE

\* Dollars of a buy, shares of a sale: those the decision carries or those of the
\* position that was read.
Amount(j, row) ==
    IF Buys(j) THEN j.usd
    ELSE IF j.shares > 0 THEN j.shares
    ELSE IF row.open THEN SellShares(j.action, j.usd, row.size, row.value)
    ELSE 0

SendOrder ==
    /\ pc = "order"
    /\ Order(Buys(job), job.token, Amount(job, The(seen)))
    /\ executed' = IF fill'.ok THEN [executed EXCEPT ![job.id] = @ + 1] ELSE executed
    /\ pc' = "upsert"
    /\ UNCHANGED <<books, px, moves, jobs, job, todo, at, seen, sealed, peak>>

\* The row is written whatever the venue answered; a new row is open even when
\* its size is zero.
Upsert ==
    /\ pc = "upsert"
    /\ LET row == The(seen)
           amount == Amount(job, row)
           size == AtLeastZero((IF row.open THEN row.size ELSE 0)
                                + (IF Buys(job) THEN amount \div fill.px ELSE -amount))
       IN  pos' = [pos EXCEPT ![job.token] =
                     IF @.open /\ size = 0 THEN Closed ELSE Row(size, size * fill.px)]
    /\ pc' = "record"
    /\ UNCHANGED <<status, flow, snap, outer, jobs, job, todo, at, seen, fill, history>>

\* Mutant of Record: a sale is booked like a buy.
RecordUnsigned == /\ pc = "record"
                  /\ flow' = flow - fill.usd
                  /\ Complete
                  /\ UNCHANGED <<status, pos, snap, outer, queue, stalled, history>>

\* The event; its notional counts as cash whether it says filled or rejected.
Record == /\ pc = "record"
          /\ flow' = flow + (IF Buys(job) THEN -fill.usd ELSE fill.usd)
          /\ Complete
          /\ UNCHANGED <<status, pos, snap, outer, queue, stalled, history>>
-----------------------------------------------------------------------------
(* Sync jobs.                                                                *)

\* A failed fetch of the remote positions is an empty list.
StartSync ==
    /\ Take /\ Head(queue) = Sync
    /\ job' = Sync /\ pc' = "sync"
    /\ \/ seen' = {t \in Tokens : venue.hold[t] > 0} /\ UNCHANGED <<faults, turns>>
       \/ Turn /\ seen' = {} /\ faults' = faults \cup {"fetch"}
    /\ todo' = seen'
    /\ UNCHANGED <<books, outer, slot, at, fill, executed, sealed, peak>>

\* Average cost and bid as the sync reads them: a cost it does not get is taken for
\* Half, a bid it does not get for the cost.
Marks(t) == {<<AvgCost(t), px[t]>>, <<Half, px[t]>>, <<AvgCost(t), AvgCost(t)>>, <<Half, Half>>}

\* One remote position: the row takes its size and the bid, the loss is judged.
MarkRemote(t) ==
    /\ pc = "sync" /\ t \in todo
    /\ todo' = todo \ {t}
    /\ \E mark \in Marks(t) :
         /\ \/ mark = <<AvgCost(t), px[t]>> /\ UNCHANGED <<faults, turns>>
            \/ Turn /\ faults' = faults \cup {"fetch"}
         /\ pos' = [pos EXCEPT ![t] = Row(venue.hold[t], venue.hold[t] * mark[2])]
         /\ IF StopLossHit(mark[1], mark[2])
            THEN pc' = "stop" /\ at' = {t}
            ELSE UNCHANGED <<pc, at>>
    /\ UNCHANGED <<status, flow, snap, outer, jobs, job, seen, fill, executed, sealed, peak>>

StopSell == /\ pc = "stop"
            /\ Order(FALSE, The(at), pos[The(at)].size)
            /\ pc' = "stopped"
            /\ UNCHANGED <<books, px, moves, jobs, job, todo, at, seen, executed, sealed, peak>>

\* The sale is booked at the mark, filled or not, and the row keeps its value
\* until the next sync: from here on the snapshot counts the position twice.
StopBook == /\ pc = "stopped"
            /\ flow' = flow + pos[The(at)].value
            /\ pc' = "sync" /\ at' = {} /\ fill' = NoFill
            /\ faults' = faults \cup {"stoploss"}
            /\ UNCHANGED <<status, pos, snap, outer, jobs, job, todo, seen, executed, sealed, peak, turns>>

\* Mutant of Worth: the open positions are left out.
WorthOfCash(cash, rows) == cash

\* Total equity: cash and the positions at their rows' values.
Worth(cash, rows) == cash + Exposure(rows)

\* Rows the venue does not hold are closed; cash is the last snapshot's and the
\* events since.
Snapshot ==
    /\ pc = "sync" /\ todo = {}
    /\ pos' = [t \in Tokens |-> IF t \in seen THEN pos[t] ELSE Closed]
    /\ LET cash == snap.cash + flow
           equity == Worth(cash, pos')
           high == Max({snap.high, equity})
       IN  /\ snap' = [cash |-> cash, equity |-> equity, high |-> high,
                       open |-> Cardinality(OpenIn(pos'))]
           /\ IF DrawdownHalts(high, equity) THEN pc' = "halt" /\ UNCHANGED <<job, todo, at, seen, fill, slot>>
                                             ELSE Complete
    /\ flow' = 0
    /\ UNCHANGED <<status, outer, queue, stalled, history>>

MarkHalted == /\ pc = "halt"
              /\ status' = "halted" /\ sealed' = TRUE
              /\ Complete
              /\ UNCHANGED <<pos, flow, snap, outer, queue, stalled, executed, peak, faults, turns>>
-----------------------------------------------------------------------------
(* Flatten jobs.                                                             *)

StartFlatten == /\ Take /\ Head(queue) = Flatten
                /\ job' = Flatten /\ pc' = "flatten" /\ todo' = OpenIn(pos)
                /\ UNCHANGED <<books, outer, slot, at, seen, fill, history>>

FlattenSell(t) == /\ pc = "flatten" /\ t \in todo
                  /\ todo' = todo \ {t} /\ at' = {t}
                  /\ Order(FALSE, t, pos[t].size)
                  /\ pc' = "flattened"
                  /\ UNCHANGED <<books, px, moves, jobs, job, seen, executed, sealed, peak>>

\* The row is closed, then booked at the value it had, whatever the venue answered.
FlattenClose == /\ pc = "flattened"
                /\ seen' = {pos[The(at)]}
                /\ pos' = [pos EXCEPT ![The(at)] = Closed]
                /\ pc' = "closed"
                /\ UNCHANGED <<status, flow, snap, outer, jobs, job, todo, at, fill, history>>

FlattenRecord == LET value == The(seen).value IN
    /\ pc = "closed"
    /\ flow' = flow + value
    /\ faults' = IF fill.usd = value THEN faults ELSE faults \cup {"offmark"}
    /\ pc' = "flatten" /\ at' = {} /\ seen' = {} /\ fill' = NoFill
    /\ UNCHANGED <<status, pos, snap, outer, jobs, job, todo, executed, sealed, peak, turns>>

FlattenDone == /\ pc = "flatten" /\ todo = {}
               /\ Complete
               /\ UNCHANGED <<books, outer, queue, stalled, history>>
-----------------------------------------------------------------------------
(* Failures.                                                                 *)

\* Mutant of Throws: the queue hands a failed job out a second time.
ThrowsAndRetries == /\ pc # "idle" /\ Turn
                    /\ faults' = faults \cup {"thrown"}
                    /\ queue' = <<job>> \o queue
                    /\ Idle
                    /\ UNCHANGED <<books, outer, stalled, slot, executed, sealed, peak>>

\* An awaited call throws, before or after its effect: the job fails, is kept as
\* failed, and a failed sync keeps its job id.
Throws == /\ pc # "idle" /\ Turn
          /\ faults' = faults \cup {"thrown"}
          /\ slot' = IF job = Sync THEN "failed" ELSE slot
          /\ Idle
          /\ UNCHANGED <<books, outer, queue, stalled, executed, sealed, peak>>

\* The process dies and is started again; its job has lost its worker.
Crash == /\ pc # "idle" /\ "crash" \notin faults /\ Turn
         /\ faults' = faults \cup {"crash"}
         /\ stalled' = job
         /\ Idle
         /\ UNCHANGED <<books, outer, queue, slot, executed, sealed, peak>>

\* The queue notices and puts the job first; others may have run by then.
Requeue == /\ stalled # None
           /\ queue' = <<stalled>> \o queue /\ stalled' = None
           /\ UNCHANGED <<books, outer, slot, work, history>>

Worker == \/ StartTrade \/ SendOrder \/ Upsert \/ Record
          \/ StartSync \/ (\E t \in Tokens : MarkRemote(t)) \/ StopSell \/ StopBook
          \/ Snapshot \/ MarkHalted
          \/ StartFlatten \/ (\E t \in Tokens : FlattenSell(t))
          \/ FlattenClose \/ FlattenRecord \/ FlattenDone

\* The market moves between jobs.
Quote(t, p) == /\ pc = "idle" /\ p # px[t]
               /\ moves < MaxMoves /\ moves' = moves + 1
               /\ px' = [px EXCEPT ![t] = p]
               /\ peak' = Max({peak, Equity(venue, px')})
               /\ UNCHANGED <<books, venue, jobs, work, executed, sealed, faults, turns>>
-----------------------------------------------------------------------------
Snapshots == [cash : Int, equity : Int, high : Nat, open : Nat]
Account == [cash : Nat, hold : [Tokens -> Nat], cost : [Tokens -> Nat], shares : [Tokens -> Nat]]

BooksTypeOK ==
    /\ status \in {"running", "paused", "halted"}
    /\ pos \in [Tokens -> [open : {TRUE}, size : Nat, value : Nat] \cup {Closed}]
    /\ flow \in Int /\ snap \in Snapshots

OuterTypeOK == venue \in Account /\ px \in [Tokens -> Px] /\ moves \in 0..MaxMoves

JobsTypeOK ==
    /\ queue \in Seq(Trade \cup {Sync, Flatten})
    /\ stalled \in Trade \cup {Sync, Flatten, None}
    /\ slot \in {"free", "taken", "failed"}

WorkTypeOK ==
    /\ job \in Trade \cup {Sync, Flatten, None}
    /\ pc \in {"idle", "order", "upsert", "record", "sync", "stop", "stopped", "halt",
               "flatten", "flattened", "closed"}
    /\ todo \subseteq Tokens /\ at \subseteq Tokens
    /\ fill \in [ok : BOOLEAN, px : Nat, usd : Nat]

HistoryTypeOK ==
    /\ executed \in [Ids -> Nat] /\ sealed \in BOOLEAN /\ peak \in Nat
    /\ turns \in 0..MaxTurns
    /\ faults \subseteq {"fetch", "refused", "thrown", "crash", "stoploss", "offmark"}

ExecutorTypeOK == BooksTypeOK /\ OuterTypeOK /\ JobsTypeOK /\ WorkTypeOK /\ HistoryTypeOK
=============================================================================
