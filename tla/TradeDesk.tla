-------------------------------- MODULE TradeDesk -------------------------------
(***************************************************************************)
(* The live trading path: the orchestrator's agent cycles, timers and      *)
(* admin routes in front of the executor.  A cycle reads status, snapshot  *)
(* and positions, lets the agent decide for minutes, and then clips and    *)
(* queues one decision after the other against what it read.  The cron     *)
(* timer and the admin's run-now may have cycles running at once.          *)
(***************************************************************************)
EXTENDS TradeExecutor, SequencesExt

CONSTANTS
    Cycles,      \* agent cycles that may overlap
    Plans,       \* sequences of decisions an agent may come to
    MaxQueue     \* bound of the model: waiting jobs

ASSUME DeskAssumption ==
    /\ MaxQueue \in Nat
    /\ Plans \subseteq Seq([action : {"open", "close", "reduce"}, token : Tokens, usd : Nat])

VARIABLES
    cycle,       \* what each cycle has read, projected and still to queue
    nextId

desk == <<cycle, nextId>>
allVars == <<vars, desk>>

Off == [plan |-> <<>>]
DeskInit == Init /\ cycle = [c \in Cycles |-> Off] /\ nextId = 1

EventExposure(rows, e) == SumFunction([t \in {u \in OpenIn(rows) : Events[u] = e} |->
                                      rows[t].value])

\* A close or reduce is only ever proposed for a position that was read.
Fits(plan) == \A i \in DOMAIN plan : plan[i].action # "open" =>
                 pos[plan[i].token].open /\ pos[plan[i].token].size > 0

\* Status, overview and positions are read; the agent starts to think.
CycleStart(c, plan) ==
    /\ status = "running" /\ cycle[c] = Off /\ Fits(plan) /\ plan # <<>>
    /\ cycle' = [cycle EXCEPT ![c] =
          [plan |-> plan, rows |-> pos, bankroll |-> snap.equity,
           exposure |-> Exposure(pos), open |-> snap.open,
           event |-> [e \in {Events[t] : t \in Tokens} |-> EventExposure(pos, e)],
           queued |-> 0, count |-> 0]]
    /\ UNCHANGED <<vars, nextId>>

\* The guards' verdict on the cycle's next decision, a sale passes unclipped.
Clipped(c, d) ==
    IF d.action # "open" THEN d.usd
    ELSE TradeGuards(d.usd, c.bankroll, c.exposure, c.event[Events[d.token]], c.open)

\* A planned sale carries the shares of the position that was read.
PlannedShares(c, d) ==
    IF d.action = "open" THEN 0
    ELSE SellShares(d.action, d.usd, c.rows[d.token].size, c.rows[d.token].value)

\* The cycle ends with its last decision.
After(c) == IF Len(c.plan) = 1 THEN Off ELSE [c EXCEPT !.plan = Tail(@)]

\* Mutant of Projected: later decisions do not see the earlier ones.
ProjectedNothing(c, d, usd) ==
    IF d.action # "open" THEN c
    ELSE [c EXCEPT !.queued = @ + usd, !.count = @ + 1]

\* What later decisions of the cycle are judged against.
Projected(c, d, usd) ==
    IF d.action # "open" THEN c
    ELSE [c EXCEPT !.exposure = @ + usd, !.open = @ + 1, !.event[Events[d.token]] = @ + usd,
                   !.queued = @ + usd, !.count = @ + 1]

\* The next decision is clipped and queued, or dropped when nothing is left of it.
QueueNext(c) ==
    /\ cycle[c] # Off
    /\ LET d == Head(cycle[c].plan)
           usd == Clipped(cycle[c], d)
       IN  IF d.action = "open" /\ usd = 0
           THEN /\ cycle' = [cycle EXCEPT ![c] = After(@)]
                /\ UNCHANGED <<queue, nextId>>
           ELSE /\ nextId <= MaxIds /\ Len(queue) < MaxQueue
                /\ queue' = Append(queue, [kind |-> "trade", id |-> nextId, action |-> d.action,
                              token |-> d.token, usd |-> usd,
                              shares |-> PlannedShares(cycle[c], d)])
                /\ nextId' = nextId + 1
                /\ cycle' = [cycle EXCEPT ![c] = After(Projected(@, d, usd))]
    /\ UNCHANGED <<books, outer, stalled, slot, work, history>>

\* The interval timer; an add under a job id that exists is ignored.
SyncTimer == /\ slot = "free"
             /\ queue' = Append(queue, Sync) /\ slot' = "taken"
             /\ UNCHANGED <<books, outer, stalled, work, history, desk>>

\* The admin routes overwrite the status, whatever it was.
SetStatus(s) == /\ Turn /\ status' = s /\ sealed' = FALSE
                /\ UNCHANGED <<pos, flow, snap, outer, jobs, work, executed, peak, faults, desk>>
AdminPause == SetStatus("paused")
AdminResume == SetStatus("running")
AdminFlatten == /\ Turn /\ queue' = Append(queue, Flatten)
                /\ UNCHANGED <<books, outer, stalled, slot, work, executed, sealed, peak, faults, desk>>

Executor == Worker /\ UNCHANGED desk

DeskNext == \/ Executor
            \/ (Throws \/ Crash \/ Requeue \/ (\E t \in Tokens, p \in Px : Quote(t, p)))
                 /\ UNCHANGED desk
            \/ (\E c \in Cycles, plan \in Plans : CycleStart(c, plan))
            \/ (\E c \in Cycles : QueueNext(c))
            \/ SyncTimer \/ AdminPause \/ AdminResume \/ AdminFlatten

DeskSpec == DeskInit /\ [][DeskNext]_allVars

\* The worker takes jobs as they come, the queue looks for stalled ones, the
\* interval timer fires.
FairDesk == /\ DeskSpec
            /\ WF_allVars(Executor) /\ WF_allVars(Requeue /\ UNCHANGED desk)
            /\ WF_allVars(SyncTimer)
-----------------------------------------------------------------------------
CycleRecord == [plan : Seq(UNION {ToSet(p) : p \in Plans}),
                rows : [Tokens -> [open : {TRUE}, size : Nat, value : Nat] \cup {Closed}],
                bankroll : Int, exposure : Int, open : Nat,
                event : [{Events[t] : t \in Tokens} -> Int], queued : Nat, count : Nat]

DeskTypeOK == /\ ExecutorTypeOK
              /\ \A c \in Cycles : cycle[c] = Off \/ cycle[c] \in CycleRecord
              /\ nextId \in 1..MaxIds + 1

\* What a cycle queues, and what it read, stay within the caps together: no
\* decision is judged without those queued before it.
CycleWithinCaps ==
    \A c \in Cycles : cycle[c] # Off /\ cycle[c].count > 0 =>
        LET r == cycle[c] IN
        /\ 100 * (Exposure(r.rows) + r.queued) <= r.bankroll * MaxTotalPct
        /\ r.open <= MaxPositions

\* Cash that a step in flight has moved at the venue and not yet booked.
InFlight == CASE pc \in {"upsert", "record"} -> IF Buys(job) THEN -fill.usd ELSE fill.usd
              [] pc \in {"stopped", "flattened", "closed"} -> fill.usd
              [] OTHER -> 0

\* The books' cash, the last snapshot and the events since, is the venue's cash,
\* in every interleaving of jobs, as long as no order was refused, no job
\* failed or was interrupted and no flatten was booked off its mark.
CashReconciles ==
    faults \subseteq {"stoploss", "fetch"} => snap.cash + flow + InFlight = venue.cash

\* Holdings that stay, or fall by a number of shares that was held.
OnlyFalls == \A t \in Tokens : \/ venue'.hold[t] = venue.hold[t]
                               \/ \E n \in 1..venue.hold[t] : venue'.hold[t] = venue.hold[t] - n

\* Once the worker has halted the system nothing is bought, whatever was queued
\* before and whichever job was interrupted, until an admin route is called.
HaltedBuysNothing == [][sealed => OnlyFalls]_allVars

\* A queued decision is filled at most once, and once more if a crash made the
\* queue hand it out again.
FilledOncePerCrash ==
    \A i \in Ids : executed[i] <= IF "crash" \in faults THEN 2 ELSE 1

\* When nothing went wrong and no stop loss was booked, the system is halted
\* only if the account really fell by the drawdown from its highest value.
HaltIsReal ==
    [][status # "halted" /\ status' = "halted" /\ faults = {} =>
          DrawdownHalts(peak, Equity(venue, px))]_allVars

\* A position that stays at its stop loss is sold in the end, in every status,
\* unless a failed sync keeps the job id for good.
StopLossFires ==
    \A t \in Tokens :
        LET Hit == venue.hold[t] > 0 /\ StopLossHit(AvgCost(t), px[t])
        IN  Hit ~> (~Hit \/ slot = "failed")
=============================================================================
