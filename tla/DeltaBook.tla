------------------------------- MODULE DeltaBook --------------------------------
(***************************************************************************)
(* The paper book of the delta-pm service and the single writer that owns  *)
(* it.  Analyses hand theses to a two-lane queue, the fast tick goes ahead *)
(* of everything that waits, the daily review behind it.  A job loads      *)
(* portfolio.json, may await a network answer, journals and saves.  `disk` *)
(* is the file, `mem` the copy of the running job, which a crash loses.    *)
(***************************************************************************)
EXTENDS DeltaPolicy, Sequences, SequencesExt

CONSTANTS
    Theses,       \* what an analysis may conclude
    Bases,        \* closes that the candles before t0 may show
    StopDists,    \* distances of the ATR and swing stops, percent
    Cooldown,     \* lockout of ticker and direction after a stop
    Horizon,      \* holding period of a thesis
    MaxNow,       \* bound of the model: clock
    MaxQueue,     \* bound of the model: waiting jobs
    MaxOpens,     \* bound of the model: entries in one behaviour
    MaxCrashes    \* bound of the model: crashes in one behaviour

Thesis == [kind : {"decide"}, ticker : Tickers, dir : Dir, lo : Nat, hi : Nat,
           hard : BOOLEAN]
Tick == [kind |-> "tick"]
Review == [kind |-> "review"]
None == [kind |-> "none"]

ASSUME BookAssumption ==
    /\ Theses \subseteq Thesis /\ Bases \subseteq Nat \ {0} /\ StopDists \subseteq 1..99
    /\ Cooldown \in Nat \ {0} /\ Horizon \in Nat \ {0}
    /\ MaxNow \in Nat /\ MaxQueue \in Nat /\ MaxOpens \in Nat /\ MaxCrashes \in Nat

VARIABLES
    disk, mem,   \* portfolio.json and the running job's copy of it
    queue,       \* the writer's queue
    job,         \* the running job
    pc,          \* where it is
    marks,       \* last mark of each ticker
    todo,        \* positions a review has yet to visit
    now,
    journal,     \* ledger.jsonl: entries and exits per ticker
    stopped,     \* history: when a position of ticker and direction was last closed at a stop
    crashes

jobVars == <<mem, job, pc, todo>>
vars == <<disk, jobVars, queue, marks, now, journal, stopped, crashes>>

Never == -Cooldown
FreshBook == [realized |-> 0, halted |-> FALSE,
              pos |-> [t \in Tickers |-> Flat],
              lastStop |-> [t \in Tickers |-> [d \in Dir |-> Never]]]

Init == /\ disk = FreshBook /\ mem = FreshBook
        /\ queue = <<>> /\ job = None /\ pc = "idle" /\ todo = {}
        /\ marks = [t \in Tickers |-> NoMark]
        /\ now = 0
        /\ journal = [opens |-> [t \in Tickers |-> 0], closes |-> [t \in Tickers |-> 0]]
        /\ stopped = FreshBook.lastStop
        /\ crashes = 0

Opens == SumFunction(journal.opens)
Held(b) == HeldIn(b.pos)
-----------------------------------------------------------------------------
(* The queue.  A fast job goes in front of the first slow one.               *)

\* The place of a fast job.
FirstSlow(k) == /\ \A i \in 1..(k - 1) : queue[i] = Tick
                /\ k <= Len(queue) => queue[k] # Tick

\* A running job does not look at the queue, so the model lets jobs arrive
\* between jobs.
Enqueue(k, j) == /\ pc = "idle"
                 /\ queue' = InsertAt(queue, k, j)
                 /\ UNCHANGED <<disk, jobVars, marks, now, journal, stopped, crashes>>

SlowRoom == Len(SelectSeq(queue, LAMBDA j : j # Tick)) < MaxQueue

\* A timer fires; the model lets at most one job of the kind wait.
FastTick == /\ Tick \notin ToSet(queue)
            /\ \E k \in 1..Len(queue) + 1 : FirstSlow(k) /\ Enqueue(k, Tick)
End == Len(queue) + 1
DailyReview == Review \notin ToSet(queue) /\ SlowRoom /\ Enqueue(End, Review)
\* An analysis ends with a thesis.
Analysed(th) == Opens < MaxOpens /\ SlowRoom /\ Enqueue(End, th)

\* Mutant of Start: the halt flag is not read back from the file.
StartUnhalted ==
    /\ pc = "idle" /\ queue # <<>>
    /\ job' = Head(queue) /\ queue' = Tail(queue)
    /\ mem' = [disk EXCEPT !.halted = FALSE]
    /\ pc' = job'.kind
    /\ todo' = IF job' = Review THEN Held(disk) ELSE {}
    /\ UNCHANGED <<disk, marks, now, journal, stopped, crashes>>

\* pump takes the next job, which loads the book and looks at the marks.
Start == /\ pc = "idle" /\ queue # <<>>
         /\ job' = Head(queue) /\ queue' = Tail(queue)
         /\ mem' = disk
         /\ pc' = job'.kind
         /\ todo' = IF job' = Review THEN Held(disk) ELSE {}
         /\ UNCHANGED <<disk, marks, now, journal, stopped, crashes>>

\* The job is over; its copy of the book is dropped.
Idle == /\ pc' = "idle" /\ job' = None /\ todo' = {} /\ mem' = FreshBook

\* When a position was closed with the mark at its stop: the book's stamp, or
\* now if the code left none.
StoppedNow == [t \in Tickers |-> [d \in Dir |->
    IF /\ disk.pos[t] # Flat /\ mem.pos[t] = Flat
       /\ disk.pos[t].dir = d /\ StoppedOut(disk.pos[t], marks[t])
    THEN IF mem.lastStop[t][d] = disk.lastStop[t][d] THEN now ELSE mem.lastStop[t][d]
    ELSE stopped[t][d]]]

Save == /\ pc = "save"
        /\ disk' = mem
        /\ stopped' = StoppedNow
        /\ IF job.kind = "decide"
           THEN pc' = "opened" /\ UNCHANGED <<mem, job, todo>>
           ELSE Idle
        /\ UNCHANGED <<queue, marks, now, journal, crashes>>
-----------------------------------------------------------------------------
(* Entry: decideEntry and the paper fill.                                    *)

\* Mutant of NotVetoed: the lockout is looked up for the ticker's other direction.
NotVetoedCrossed(b, th) ==
    /\ ~b.halted /\ ~th.hard
    /\ ~AtDailyStop(b.realized, b.pos, marks)
    /\ b.pos[th.ticker] = Flat
    /\ now - b.lastStop[th.ticker][-th.dir] >= Cooldown

\* The vetoes that depend on the book alone.
NotVetoed(b, th) ==
    /\ ~b.halted /\ ~th.hard
    /\ ~AtDailyStop(b.realized, b.pos, marks)
    /\ b.pos[th.ticker] = Flat
    /\ now - b.lastStop[th.ticker][th.dir] >= Cooldown

\* The mark stands in when there is no candle.
Baselines(th) == Bases \cup {marks[th.ticker]}

\* The edge that is left after the move since t0, not after an adverse drift.
HasEdge(th, base) == LET realized == th.dir * RawMovePct(base, marks[th.ticker]) IN
                     realized >= -DriftPct /\ th.lo - realized >= EdgePct

\* The order for a thesis, with the ATR and swing stops at dist percent.
Order(b, th, dist, base) ==
    LET mark == marks[th.ticker]
        stop == StopAt(th.dir, mark, dist)
        size == EntrySize(th.dir, mark, stop, Equity(b.realized, b.pos, marks),
                          Gross(b.pos, marks), Net(b.pos, marks))
        fill == FillPx(th.dir, mark)
    IN  [dir |-> th.dir, entry |-> fill, size |-> size, stop |-> stop,
         floor |-> StopAt(th.dir, mark, HardStopPct), base |-> base, lo |-> th.lo, hi |-> th.hi, until |-> now + Horizon,
         extended |-> FALSE, armed |-> FALSE, best |-> fill]

\* The thesis passes the vetoes and there is a mark to trade at.
Admitted(b, th) == marks[th.ticker] # NoMark /\ NotVetoed(b, th)

\* Mutant of Placeable: the smallest order is not looked at after the clipping.
PlaceableAnySize(b, th, dist) == StopAt(th.dir, marks[th.ticker], dist) # marks[th.ticker]

\* Neither a stop on top of the mark nor an order too small to place.
Placeable(b, th, dist) ==
    /\ StopAt(th.dir, marks[th.ticker], dist) # marks[th.ticker]
    /\ Order(b, th, dist, marks[th.ticker]).size >= MinTrade

\* Candles are awaited between the load and the decision; time may pass.
Decide == /\ pc = "decide"
          /\ Admitted(mem, job)
          /\ \E base \in Baselines(job), dist \in StopDists :
                /\ HasEdge(job, base) /\ Placeable(mem, job, dist)
                /\ mem' = [mem EXCEPT !.pos[job.ticker] = Order(mem, job, dist, base)]
          /\ pc' = "save"
          /\ UNCHANGED <<disk, queue, job, todo, marks, now, journal, stopped, crashes>>

\* A thesis that is not admitted, has no edge left or no order: nothing is saved.
Decline == /\ pc = "decide"
           /\ Admitted(mem, job) => \E base \in Baselines(job), dist \in StopDists :
                                        ~(HasEdge(job, base) /\ Placeable(mem, job, dist))
           /\ Idle
           /\ UNCHANGED <<disk, queue, marks, now, journal, stopped, crashes>>

\* Mutant of JournalOpen: the job ends with the save.
OpenUnjournalled == /\ pc = "opened"
                    /\ Idle
                    /\ UNCHANGED <<disk, queue, marks, now, journal, stopped, crashes>>

\* The entry is journalled after the book was saved.
JournalOpen == /\ pc = "opened"
               /\ journal' = [journal EXCEPT !.opens[job.ticker] = @ + 1]
               /\ Idle
               /\ UNCHANGED <<disk, queue, marks, now, stopped, crashes>>
-----------------------------------------------------------------------------
(* Exits.  A close is journalled before the book is saved.                   *)

\* The book without the positions ts, those of them in stops stamped as stopped.
Closed(b, ts, stops) ==
    [b EXCEPT !.realized = @ + SumFunction([t \in ts |-> Pnl(b.pos[t], marks[t])]),
              !.pos = [t \in Tickers |-> IF t \in ts THEN Flat ELSE @[t]],
              !.lastStop = [t \in Tickers |-> IF t \in stops
                                              THEN [@[t] EXCEPT ![b.pos[t].dir] = now] ELSE @[t]]]

Journalled(ts) == journal' = [journal EXCEPT
                    !.closes = [t \in Tickers |-> IF t \in ts THEN @[t] + 1 ELSE @[t]]]

\* Mutant of Scan: a halted portfolio is left alone, exits included.
ScanUnlessHalted ==
    /\ pc = "tick" /\ ~mem.halted
    /\ Held(mem) # {}
    /\ LET out == {t \in Held(mem) : marks[t] # NoMark /\ StoppedOut(mem.pos[t], marks[t])}
           after == Closed(mem, out, out)
       IN  /\ mem' = [after EXCEPT !.halted = AtHaltLine(mem.realized, mem.pos, marks)]
           /\ Journalled(out)
    /\ pc' = "save"
    /\ UNCHANGED <<disk, queue, job, todo, marks, now, stopped, crashes>>

\* The tick, which awaits nothing: the halt check, then every position is closed
\* or trailed.  The ticker statistics a trail needs may not be cached.
Scan == /\ pc = "tick"
        /\ Held(mem) # {}
        /\ LET live == {t \in Held(mem) : marks[t] # NoMark}
               out == {t \in live : StoppedOut(mem.pos[t], marks[t])}
               after == Closed(mem, out, out)
               move(t) == mem.pos[t].dir * RawMovePct(mem.pos[t].base, marks[t])
           IN  \E cached \in SUBSET (live \ out) :
                  /\ mem' = [after EXCEPT
                        !.halted = @ \/ AtHaltLine(mem.realized, mem.pos, marks),
                        !.pos = [t \in Tickers |->
                                    IF t \in cached THEN Trailed(mem.pos[t], marks[t], move(t))
                                                    ELSE @[t]]]
                  /\ Journalled(out)
        /\ pc' = "save"
        /\ UNCHANGED <<disk, queue, job, todo, marks, now, stopped, crashes>>

\* With no position neither the tick nor the review does anything.
NothingHeld == /\ pc \in {"tick", "review"}
               /\ Held(disk) = {}
               /\ Idle
               /\ UNCHANGED <<disk, queue, marks, now, journal, stopped, crashes>>

\* The review visits one position, awaiting its candles first.
Visit(t) ==
    /\ pc = "review" /\ t \in todo
    /\ todo' = todo \ {t}
    /\ LET track == IF marks[t] = NoMark THEN "hold"
                    ELSE ReviewTrack(mem.pos[t], marks[t], now)
           p == mem.pos[t]
       IN  CASE track = "hold" ->
                  mem' = mem /\ UNCHANGED journal
             [] track = "extend" ->
                  /\ mem' = [mem EXCEPT !.pos[t] = [p EXCEPT !.until = @ + Horizon,
                                                             !.extended = TRUE]]
                  /\ UNCHANGED journal
             [] OTHER ->
                  /\ mem' = Closed(mem, {t}, IF track \in {"technical", "hard_floor"} THEN {t} ELSE {})
                  /\ Journalled({t})
    /\ UNCHANGED <<disk, queue, job, pc, marks, now, stopped, crashes>>

\* The review saves what is left, the empty book too.
Reviewed == /\ pc = "review" /\ todo = {} /\ Held(disk) # {}
            /\ pc' = "save"
            /\ UNCHANGED <<disk, mem, queue, job, todo, marks, now, journal, stopped, crashes>>
-----------------------------------------------------------------------------
(* The environment.                                                          *)

\* A job works on the marks it took when it started: a quote that comes while
\* one runs concerns the next one only, and the model lets it come between jobs.
Quote(t, px) == /\ pc = "idle"
                /\ marks' = [marks EXCEPT ![t] = px]
                /\ UNCHANGED <<disk, jobVars, queue, now, journal, stopped, crashes>>

Pass == /\ now < MaxNow /\ now' = now + 1
        /\ UNCHANGED <<disk, jobVars, queue, marks, journal, stopped, crashes>>

\* The process dies and comes back with its file, an empty queue and no marks.
Crash == /\ crashes < MaxCrashes /\ crashes' = crashes + 1
         /\ mem' = FreshBook /\ queue' = <<>>
         /\ pc' = "idle" /\ job' = None /\ todo' = {}
         /\ marks' = [t \in Tickers |-> NoMark]
         /\ UNCHANGED <<disk, now, journal, stopped>>

Work == \/ Start \/ Decide \/ Decline \/ JournalOpen \/ Scan \/ NothingHeld
        \/ (\E t \in Tickers : Visit(t)) \/ Reviewed \/ Save

Next == \/ FastTick \/ DailyReview
        \/ (\E th \in Theses : Analysed(th))
        \/ Work
        \/ (\E t \in Tickers, px \in Px : Quote(t, px))
        \/ Pass \/ Crash

Spec == Init /\ [][Next]_vars

\* The interval timer keeps firing and the writer keeps working.
FairSpec == Spec /\ SF_vars(FastTick) /\ WF_vars(Work)
-----------------------------------------------------------------------------
(* Properties.                                                               *)

Size == {n \in Nat : n >= MinTrade}
Position == [dir : Dir, entry : Nat, size : Size, stop : Int, floor : Int,
             base : Nat, lo : Nat, hi : Nat, until : Nat, extended : BOOLEAN, armed : BOOLEAN, best : Nat]
Book == [realized : Int, halted : BOOLEAN,
         pos : [Tickers -> Position \cup {Flat}],
         lastStop : [Tickers -> [Dir -> Int]]]

TypeOK == /\ disk \in Book /\ mem \in Book
          /\ queue \in Seq(Theses \cup {Tick, Review})
          /\ job \in Theses \cup {Tick, Review, None}
          /\ pc \in {"idle", "decide", "opened", "tick", "review", "save"}
          /\ marks \in [Tickers -> Px \cup {NoMark}]
          /\ todo \subseteq Tickers /\ now \in Nat /\ crashes \in Nat
          /\ journal \in [opens : [Tickers -> Nat], closes : [Tickers -> Nat]]
          /\ stopped \in [Tickers -> [Dir -> Int]]

\* The step that puts a position in t into the book file.
Entered(t) == disk.pos[t] = Flat /\ disk'.pos[t] # Flat

InFlight(t) ==
    IF \/ pc = "opened" /\ job.ticker = t
       \/ pc \in {"review", "save"} /\ disk.pos[t] # Flat /\ mem.pos[t] = Flat
    THEN 1 ELSE 0

Skew(t) == (IF disk.pos[t] = Flat THEN 0 ELSE 1) + journal.closes[t] - journal.opens[t]

\* The ledger explains the book up to the steps in flight and one entry per
\* crash: an entry is journalled after its save and may be missing, an exit
\* before its save and may be there twice, never the other way around.
LedgerTracksBook ==
    \A t \in Tickers : /\ InFlight(t) <= Skew(t)
                       /\ Skew(t) <= crashes + InFlight(t)

\* A long position's trail is armed only once its best mark has made half of the
\* target (policy.ts:282).  Of a short it is not true: updateTrailingStop
\* applies the direction to a move that is signed by direction already.
LongTrailArmsInProfit ==
    \A t \in Held(disk) :
        LET p == disk.pos[t] IN
        p.dir = Long /\ p.armed => 200 * (p.best - p.base) >= p.hi * p.base

\* From the entry on, whatever marks come and however often the tick runs, a
\* stop moves towards profit only, and never lies beyond the hard floor.
StopsOnlyTighten ==
    [][\A t \in Tickers : disk'.pos[t] # Flat =>
            LET p == disk'.pos[t] IN
            /\ Tighter(p.dir, p.stop, p.floor) = p.stop
            /\ ~Entered(t) => Tighter(p.dir, p.stop, disk.pos[t].stop) = p.stop]_vars

\* Once the halt is in the book file no position is added to it, whichever
\* analyses were under way and however often the service restarts.
EntriesRespectHalt == [][\A t \in Tickers : Entered(t) => ~disk.halted]_vars

\* A ticker and direction that was closed at its stop, by the tick or by the
\* review, is not entered again within the cooldown.
ReentryWaits ==
    [][\A t \in Tickers : Entered(t) => now - stopped[t][disk'.pos[t].dir] >= Cooldown]_vars

\* A position whose mark stays at its stop is closed in the end, in a halted
\* portfolio too, whatever waits in the slow lane and wherever a crash hits.
StoppedPositionCloses ==
    \A t \in Tickers :
        LET AtStop == /\ disk.pos[t] # Flat /\ marks[t] # NoMark
                      /\ StoppedOut(disk.pos[t], marks[t])
        IN  AtStop ~> ~AtStop

\* The anchor of policy.ts:5-7 taken as it is written: with the equity at or
\* below the halt line no position is opened.
NoEntryBelowHaltLine ==
    [][\A t \in Tickers : Entered(t) => ~AtHaltLine(disk.realized, disk.pos, marks)]_vars
=============================================================================
