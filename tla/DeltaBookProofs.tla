----------------------------- MODULE DeltaBookProofs ------------------------------
(***************************************************************************)
(* What the delta-pm book keeps for every set of theses, marks and limits. *)
(* The invariant of the stops, the halt and the ledger leaves dollar       *)
(* amounts free (IsBook): none of those results needs them.  That they are *)
(* whole numbers, and no position is below the smallest order, is shown    *)
(* last, over sums of any finite number of tickers.                        *)
(***************************************************************************)
EXTENDS DeltaBook, FiniteSums

Jobs == Theses \cup {Tick, Review}

\* A position whose dollar size is one of S, a book whose realized profit is r.
PositionOf(S) == [dir : Dir, entry : Int, size : S, stop : Int, floor : Int,
                  base : Nat \ {0}, lo : Int, hi : Int, until : Int,
                  extended : BOOLEAN, armed : BOOLEAN, best : Int]
BookOf(r, S) == [realized : {r}, halted : BOOLEAN,
                 pos : [Tickers -> PositionOf(S) \cup {Flat}],
                 lastStop : [Tickers -> [Dir -> Int]]]
IsBook(b) == \E r, S : b \in BookOf(r, S)

Typed == /\ IsBook(disk) /\ IsBook(mem)
         /\ queue \in Seq(Jobs)
         /\ pc \in {"idle", "decide", "opened", "tick", "review", "save"}
         /\ marks \in [Tickers -> Px \cup {NoMark}]
         /\ todo \subseteq Tickers /\ now \in Nat /\ crashes \in Nat
         /\ journal \in [opens : [Tickers -> Nat], closes : [Tickers -> Nat]]

\* Which job a place in the writer belongs to.
JobOK == /\ pc \in {"decide", "opened"} => job \in Theses
         /\ pc = "tick" => job = Tick
         /\ pc = "review" => job = Review
         /\ pc = "save" => job \in Jobs

\* The stop is at the hard floor or tighter; a long trail was armed in profit.
StopInside(p) == p # Flat => Tighter(p.dir, p.stop, p.floor) = p.stop
ArmedInProfit(p) == p # Flat /\ p.dir = Long /\ p.armed =>
                        200 * (p.best - p.base) >= p.hi * p.base
Sound(b) == \A t \in Tickers : StopInside(b.pos[t]) /\ ArmedInProfit(b.pos[t])

\* The cooldown was over when a held position was entered.
Rested == \A t \in Tickers : disk.pos[t] # Flat =>
              now - disk.lastStop[t][disk.pos[t].dir] >= Cooldown
Stamps == stopped = disk.lastStop
Loaded == pc \in {"decide", "tick", "opened"} => mem = disk

\* The copy a thesis is about to save has one position more than the file.
ToEnter == pc = "save" /\ job \in Theses =>
   LET t == job.ticker IN
   /\ ~disk.halted /\ disk.pos[t] = Flat
   /\ mem.pos[t] # Flat /\ mem.pos[t].dir = job.dir
   /\ now - disk.lastStop[t][job.dir] >= Cooldown
   /\ mem.lastStop = disk.lastStop
   /\ \A u \in Tickers \ {t} : mem.pos[u] = disk.pos[u]

AtStopNow(t, d) == /\ disk.pos[t] # Flat /\ mem.pos[t] = Flat
                   /\ disk.pos[t].dir = d /\ StoppedOut(disk.pos[t], marks[t])

\* The copy of a tick or a review differs from the file by closed positions,
\* stamped if they were stopped, and by tighter stops.
Leaves(t) ==
    /\ disk.pos[t] = Flat => mem.pos[t] = Flat
    /\ mem.pos[t] # Flat =>
          /\ mem.pos[t].dir = disk.pos[t].dir
          /\ Tighter(disk.pos[t].dir, mem.pos[t].stop, disk.pos[t].stop) = mem.pos[t].stop
    /\ \A d \in Dir : AtStopNow(t, d) => /\ disk.lastStop[t][d] < mem.lastStop[t][d]
                                         /\ mem.lastStop[t][d] <= now
    /\ \A d \in Dir : ~AtStopNow(t, d) => mem.lastStop[t][d] = disk.lastStop[t][d]
ToLeave == pc = "review" \/ (pc = "save" /\ job \in {Tick, Review}) =>
               \A t \in Tickers : Leaves(t)
Unvisited == pc = "review" => \A t \in todo : disk.pos[t] # Flat /\ mem.pos[t] = disk.pos[t]

BookInv == /\ Typed /\ JobOK /\ Sound(disk) /\ Sound(mem) /\ Rested /\ Stamps /\ Loaded
           /\ ToEnter /\ ToLeave /\ Unvisited /\ LedgerTracksBook
-----------------------------------------------------------------------------
(* Prices and stops.                                                         *)

\* Of two prices the better one is one of them and no worse than either.
LEMMA TighterPicks ==
  ASSUME NEW d \in Dir, NEW a \in Int, NEW b \in Int
  PROVE  /\ Tighter(d, a, b) \in Int
         /\ Tighter(d, a, a) = a
         /\ Tighter(d, Tighter(d, a, b), a) = Tighter(d, a, b)
         /\ d = Long => Tighter(d, a, b) >= a /\ Tighter(d, a, b) >= b
  BY DEF Dir, Long, Short, Tighter, Smaller, Larger

\* Being at least as tight is transitive.
LEMMA TighterChain ==
  ASSUME NEW d \in Dir, NEW a \in Int, NEW b \in Int, NEW c \in Int,
         Tighter(d, a, b) = a, Tighter(d, b, c) = b
  PROVE  Tighter(d, a, c) = a
  BY DEF Dir, Long, Short, Tighter, Smaller, Larger

\* The stop of an entry is a price at or inside the hard floor (policy.ts:186).
LEMMA StopInsideFloor ==
  ASSUME NEW d \in Dir, NEW mark \in Nat, NEW dist \in 1..99, HardStopPct \in 1..99
  PROVE  /\ StopAt(d, mark, dist) \in Int /\ StopAt(d, mark, HardStopPct) \in Int
         /\ Tighter(d, StopAt(d, mark, dist), StopAt(d, mark, HardStopPct)) = StopAt(d, mark, dist)
<1> DEFINE near == Smaller(dist, HardStopPct)
           x == mark * (100 - d * near)
           y == mark * (100 - d * HardStopPct)
<1>1. near \in Int /\ near <= HardStopPct /\ Smaller(HardStopPct, HardStopPct) = HardStopPct
  BY DEF Smaller
<1>2. x \in Int /\ y \in Int
  BY <1>1 DEF Dir, Long, Short
<1>3. d = Long => x >= y
  <2> SUFFICES ASSUME d = Long PROVE x >= y OBVIOUS
  <2> DEFINE k == HardStopPct - near
  <2>1. k \in Nat /\ x = y + mark * k
    BY <1>1 DEF Long
  <2>2. mark * k >= 0
    BY <2>1
  <2> QED BY <2>1, <2>2, <1>2
<1>4. d = Short => x <= y
  <2> SUFFICES ASSUME d = Short PROVE x <= y OBVIOUS
  <2> DEFINE k == HardStopPct - near
  <2>a. x = mark * (100 + near) /\ y = mark * (100 + HardStopPct)
    BY <1>1 DEF Short
  <2>b. k \in Nat /\ 100 + HardStopPct = (100 + near) + k
    BY <1>1
  <2>c. mark * ((100 + near) + k) = mark * (100 + near) + mark * k
    BY <1>1, <2>b
  <2>1. k \in Nat /\ y = x + mark * k
    BY <2>a, <2>b, <2>c
  <2>2. mark * k >= 0
    BY <2>1
  <2> QED BY <2>1, <2>2, <1>2
<1>5. StopAt(d, mark, dist) = x \div 100 /\ StopAt(d, mark, HardStopPct) = y \div 100
  BY <1>1 DEF StopAt
<1> HIDE DEF x, y
<1>6. x \div 100 \in Int /\ y \div 100 \in Int
  BY <1>2
<1>7. x >= y => x \div 100 >= y \div 100
  BY <1>2
<1>8. x <= y => x \div 100 <= y \div 100
  BY <1>2
<1> QED BY <1>3, <1>4, <1>5, <1>6, <1>7, <1>8 DEF Dir, Long, Short, Tighter, Smaller, Larger

\* A move of half the target, rounded down, is a move of half the target.
LEMMA MoveReached ==
  ASSUME NEW base \in Nat \ {0}, NEW mark \in Int, NEW hi \in Int,
         2 * RawMovePct(base, mark) >= hi
  PROVE  200 * (mark - base) >= hi * base
<1> DEFINE m == 100 * (mark - base)
           q == m \div base
<1>1. m \in Int /\ q \in Int /\ q * base <= m
  OBVIOUS
<1>2. 2 * q >= hi
  BY DEF RawMovePct
<1> HIDE DEF q
<1> DEFINE k == 2 * q - hi
<1>3. k \in Nat /\ k * base >= 0
  BY <1>1, <1>2
<1>4. 2 * (q * base) = hi * base + k * base
  BY <1>1
<1> QED BY <1>1, <1>3, <1>4

-----------------------------------------------------------------------------
(* Books.                                                                    *)

\* What the shape of a book gives its readers.
LEMMA BookParts ==
  ASSUME NEW b, IsBook(b)
  PROVE  /\ b.halted \in BOOLEAN
         /\ b.lastStop \in [Tickers -> [Dir -> Int]]
         /\ DOMAIN b.pos = Tickers
         /\ Held(b) = {t \in Tickers : b.pos[t] # Flat}
         /\ \A t \in Tickers : b.pos[t] # Flat =>
               /\ b.pos[t].dir \in Dir
               /\ b.pos[t].stop \in Int
               /\ b.pos[t].floor \in Int
               /\ b.pos[t].base \in Nat \ {0}
               /\ b.pos[t].hi \in Int
               /\ b.pos[t].armed \in BOOLEAN
               /\ b.pos[t].best \in Int
  BY DEF IsBook, BookOf, PositionOf, Held, HeldIn

\* The book of a service that starts without a file is one.
LEMMA FreshIsBook ==
  ASSUME Cooldown \in Nat
  PROVE  /\ IsBook(FreshBook) /\ Sound(FreshBook)
         /\ \A t \in Tickers : FreshBook.pos[t] = Flat
<1>1. FreshBook \in BookOf(0, {})
  BY DEF FreshBook, BookOf, Never
<1>2. \A t \in Tickers : FreshBook.pos[t] = Flat
  BY DEF FreshBook
<1>3. Sound(FreshBook)
  BY <1>2 DEF Sound, StopInside, ArmedInProfit
<1> QED BY <1>1, <1>2, <1>3 DEF IsBook

\* Book after is book b with p in the place of t.
Puts(after, b, t, p) == /\ after.halted = b.halted /\ after.lastStop = b.lastStop
                        /\ after.pos[t] = p /\ p # Flat
                        /\ \A u \in Tickers \ {t} : after.pos[u] = b.pos[u]

\* A position put into a book leaves the rest of it alone.
LEMMA PutIsBook ==
  ASSUME NEW b, IsBook(b), NEW t \in Tickers, NEW S, NEW p \in PositionOf(S),
         StopInside(p), ArmedInProfit(p), Sound(b),
         NEW after, after = [b EXCEPT !.pos[t] = p]
  PROVE  IsBook(after) /\ Sound(after) /\ Puts(after, b, t, p)
<1>1. PICK r, R : b \in BookOf(r, R)
  BY DEF IsBook
<1> DEFINE U == R \cup S
<1>2. /\ after.halted = b.halted /\ after.lastStop = b.lastStop /\ after.realized = b.realized
      /\ after.pos[t] = p
      /\ \A u \in Tickers \ {t} : after.pos[u] = b.pos[u]
  BY <1>1 DEF BookOf
<1>3. PositionOf(R) \subseteq PositionOf(U) /\ PositionOf(S) \subseteq PositionOf(U)
  BY DEF PositionOf
<1>4. after \in BookOf(r, U)
  BY <1>1, <1>3 DEF BookOf
<1>5. IsBook(after)
  BY <1>4 DEF IsBook
<1>6. Sound(after)
  <2> SUFFICES ASSUME NEW u \in Tickers
               PROVE  StopInside(after.pos[u]) /\ ArmedInProfit(after.pos[u])
    BY DEF Sound
  <2>1. StopInside(b.pos[u]) /\ ArmedInProfit(b.pos[u])
    BY DEF Sound
  <2> QED BY <1>2, <2>1
<1>7. p # Flat
  BY DEF PositionOf, Flat, Dir, Long, Short
<1> QED BY <1>2, <1>5, <1>6, <1>7 DEF Puts

\* Book after is book b without the positions ts, those in stops stamped with now.
Drops(after, b, ts, stops) ==
    /\ after.halted = b.halted
    /\ \A u \in ts : after.pos[u] = Flat
    /\ \A u \in Tickers \ ts : after.pos[u] = b.pos[u]
    /\ \A u \in Tickers, d \in Dir :
          after.lastStop[u][d] = IF u \in stops /\ b.pos[u].dir = d THEN now
                                                                   ELSE b.lastStop[u][d]

\* Closing positions empties their places, stamps the stopped ones, and leaves
\* the rest of the book alone.
LEMMA ClosedIsBook ==
  ASSUME NEW b, IsBook(b), Sound(b), NEW ts, NEW stops, ts \subseteq Held(b),
         stops \subseteq ts, now \in Nat, NEW after, after = Closed(b, ts, stops)
  PROVE  IsBook(after) /\ Sound(after) /\ Drops(after, b, ts, stops)
<1> DEFINE pos == [t \in Tickers |-> IF t \in ts THEN Flat ELSE b.pos[t]]
           last == [t \in Tickers |-> IF t \in stops THEN [b.lastStop[t] EXCEPT ![b.pos[t].dir] = now]
                                                      ELSE b.lastStop[t]]
<1>1. PICK r, S : b \in BookOf(r, S)
  BY DEF IsBook
<1>a. \E q : after = [b EXCEPT !.realized = q, !.pos = pos, !.lastStop = last]
  <2> WITNESS b.realized + SumFunction([t \in ts |-> Pnl(b.pos[t], marks[t])])
  <2> QED BY Zenon DEF Closed
<1>b. PICK q : after = [b EXCEPT !.realized = q, !.pos = pos, !.lastStop = last]
  BY <1>a
<1>2. after = [realized |-> q, halted |-> b.halted, pos |-> pos, lastStop |-> last]
  <2> HIDE DEF pos, last
  <2> QED BY <1>1, <1>b DEF BookOf
<1>3. pos \in [Tickers -> PositionOf(S) \cup {Flat}]
  BY <1>1 DEF BookOf
<1>4. last \in [Tickers -> [Dir -> Int]]
  <2>1. b.lastStop \in [Tickers -> [Dir -> Int]] /\ now \in Int
    BY BookParts
  <2>2. \A t \in Tickers : [b.lastStop[t] EXCEPT ![b.pos[t].dir] = now] \in [Dir -> Int]
    BY <2>1
  <2> QED BY <2>1, <2>2
<1>5. after \in BookOf(q, S)
  BY <1>1, <1>2, <1>3, <1>4 DEF BookOf
<1>6. ts \subseteq Tickers
  BY BookParts
<1>7. \A u \in Tickers : after.pos[u] = IF u \in ts THEN Flat ELSE b.pos[u]
  BY <1>2
<1>8. Sound(after)
  BY <1>7 DEF Sound, StopInside, ArmedInProfit
<1>9. ASSUME NEW u \in Tickers, NEW d \in Dir
      PROVE  after.lastStop[u][d] = IF u \in stops /\ b.pos[u].dir = d THEN now
                                                                      ELSE b.lastStop[u][d]
  <2>1. after.lastStop[u] = IF u \in stops THEN [b.lastStop[u] EXCEPT ![b.pos[u].dir] = now]
                                          ELSE b.lastStop[u]
    BY <1>2
  <2>2. b.lastStop[u] \in [Dir -> Int]
    BY <1>1 DEF BookOf
  <2> QED BY <2>1, <2>2
<1>10. IsBook(after)
  BY <1>5 DEF IsBook
<1>11. after.halted = b.halted
  BY <1>2
<1>12. /\ \A u \in ts : after.pos[u] = Flat
       /\ \A u \in Tickers \ ts : after.pos[u] = b.pos[u]
  BY <1>6, <1>7
<1> QED BY <1>8, <1>9, <1>10, <1>11, <1>12 DEF Drops

-----------------------------------------------------------------------------
(* The first state, and steps that end a job or run none.                    *)

\* An empty book with nothing queued.
LEMMA InitBookInv == Init => BookInv
<1> SUFFICES ASSUME Init PROVE BookInv OBVIOUS
<1> USE DEF Init
<1>0. Cooldown \in Nat /\ disk = FreshBook /\ mem = FreshBook
  BY BookAssumption
<1>1. Typed
  <2>1. IsBook(disk) /\ IsBook(mem)
    BY <1>0, FreshIsBook
  <2>2. queue \in Seq(Jobs) /\ journal \in [opens : [Tickers -> Nat], closes : [Tickers -> Nat]]
    OBVIOUS
  <2> QED BY <2>1, <2>2 DEF Typed
<1>2. Sound(disk) /\ Sound(mem)
  BY <1>0, FreshIsBook
<1>3. \A t \in Tickers : disk.pos[t] = Flat /\ mem.pos[t] = Flat
  BY <1>0, FreshIsBook
<1>4. Rested
  BY <1>3 DEF Rested
<1>5. JobOK /\ Loaded /\ ToEnter /\ ToLeave /\ Unvisited
  BY <1>0 DEF JobOK, Loaded, ToEnter, ToLeave, Unvisited
<1>6. Stamps
  BY <1>0 DEF Stamps
<1>7. LedgerTracksBook
  BY <1>3 DEF LedgerTracksBook, InFlight, Skew
<1> QED BY <1>1, <1>2, <1>4, <1>5, <1>6, <1>7 DEF BookInv

\* A step that leaves the writer idle and the book file alone keeps everything
\* but the ledger, which it answers for itself.
LEMMA IdleKeeps ==
  ASSUME BookInv, pc' = "idle", mem' = FreshBook, todo' = {},
         UNCHANGED <<disk, stopped, now>>,
         queue' \in Seq(Jobs), marks' \in [Tickers -> Px \cup {NoMark}], crashes' \in Nat,
         journal' \in [opens : [Tickers -> Nat], closes : [Tickers -> Nat]],
         LedgerTracksBook'
  PROVE  BookInv'
<1>1. Cooldown \in Nat
  BY BookAssumption
<1>2. Typed'
  <2>1. IsBook(disk)' /\ IsBook(mem)'
    BY <1>1, FreshIsBook DEF BookInv, Typed
  <2> QED BY <2>1 DEF BookInv, Typed
<1>3. Sound(disk)' /\ Sound(mem)'
  <2>1. Sound(mem')
    BY <1>1, FreshIsBook
  <2> QED BY <2>1 DEF BookInv, Sound, StopInside, ArmedInProfit
<1>4. Rested' /\ Stamps'
  BY DEF BookInv, Rested, Stamps
<1>5. JobOK' /\ Loaded' /\ ToEnter' /\ ToLeave' /\ Unvisited'
  BY DEF JobOK, Loaded, ToEnter, ToLeave, Unvisited
<1> QED BY <1>2, <1>3, <1>4, <1>5 DEF BookInv

\* What the ledger invariant says of one ticker, and how it is shown.
LEMMA LedgerOf ==
  ASSUME BookInv, NEW t \in Tickers
  PROVE  /\ journal.opens[t] \in Nat /\ journal.closes[t] \in Nat
         /\ InFlight(t) \in {0, 1} /\ Skew(t) \in Int
         /\ InFlight(t) <= Skew(t) /\ Skew(t) <= crashes + InFlight(t)
<1>1. journal.opens[t] \in Nat /\ journal.closes[t] \in Nat
  BY DEF BookInv, Typed
<1> QED BY <1>1 DEF BookInv, LedgerTracksBook, InFlight, Skew

\* A job arrives while the writer is idle.
LEMMA EnqueueKeeps ==
  ASSUME BookInv, NEW k \in 1..Len(queue) + 1, NEW j \in Jobs, Enqueue(k, j)
  PROVE  BookInv'
<1>1. queue \in Seq(Jobs)
  BY DEF BookInv, Typed
<1>2. queue' = SubSeq(queue, 1, k - 1) \o <<j>> \o SubSeq(queue, k, Len(queue))
  BY DEF Enqueue, InsertAt
<1>3. SubSeq(queue, 1, k - 1) \in Seq(Jobs) /\ SubSeq(queue, k, Len(queue)) \in Seq(Jobs)
  BY <1>1
<1>4. queue' \in Seq(Jobs)
  BY <1>2, <1>3
<1>5. UNCHANGED <<disk, jobVars, marks, now, journal, stopped, crashes>>
  BY DEF Enqueue
<1>6. Typed'
  BY <1>4, <1>5 DEF BookInv, Typed, jobVars
<1>7. (Sound(disk) /\ Sound(mem) /\ Rested /\ Stamps /\ JobOK /\ Loaded /\ ToEnter /\ ToLeave
        /\ Unvisited)'
  BY <1>5 DEF BookInv, jobVars, Sound, StopInside, ArmedInProfit, Rested, Stamps, JobOK, Loaded,
              ToEnter, ToLeave, Leaves, AtStopNow, Unvisited
<1>8. LedgerTracksBook'
  BY <1>5 DEF BookInv, jobVars, LedgerTracksBook, InFlight, Skew
<1> QED BY <1>6, <1>7, <1>8 DEF BookInv

-----------------------------------------------------------------------------
(* A job starts, decides, journals its entry.                                *)

\* A job is a thesis, the tick or the review, and its kind tells which.
LEMMA JobKinds ==
  ASSUME NEW j \in Jobs
  PROVE  /\ \/ j \in Theses /\ j.kind = "decide" /\ j.ticker \in Tickers /\ j.dir \in Dir
            \/ j = Tick /\ j.kind = "tick"
            \/ j = Review /\ j.kind = "review"
         /\ j.kind = "tick" => j = Tick
         /\ j.kind = "review" => j = Review
         /\ j.kind = "decide" => j \in Theses
  BY BookAssumption DEF Jobs, Tick, Review, Thesis

\* pump: the copy of the job is the file.
LEMMA StartKeeps == ASSUME BookInv, Start PROVE BookInv'
<1> USE DEF Start
<1>1. IsBook(disk) /\ Sound(disk) /\ queue \in Seq(Jobs) /\ queue # <<>>
  BY DEF BookInv, Typed
<1>2. job' \in Jobs /\ queue' \in Seq(Jobs)
  BY <1>1
<1>3. pc' = job'.kind /\ pc' \in {"decide", "tick", "review"}
  BY <1>2, JobKinds
<1>4. todo' \subseteq Held(disk) /\ Held(disk) \subseteq Tickers
      /\ \A t \in Held(disk) : disk.pos[t] # Flat
  BY <1>1, BookParts
<1>5. Typed'
  <2>1. IsBook(disk)' /\ IsBook(mem)'
    BY <1>1
  <2> QED BY <1>2, <1>3, <1>4, <2>1 DEF BookInv, Typed
<1>6. Sound(disk)' /\ Sound(mem)'
  BY <1>1 DEF Sound, StopInside, ArmedInProfit
<1>7. Rested' /\ Stamps' /\ Loaded' /\ ToEnter'
  BY <1>3 DEF BookInv, Rested, Stamps, Loaded, ToEnter
<1>8. JobOK'
  BY <1>2, <1>3, JobKinds DEF JobOK
<1>9. Unvisited'
  BY <1>4 DEF Unvisited
<1>10. \A t \in Tickers : Leaves(t)'
  <2> SUFFICES ASSUME NEW t \in Tickers PROVE Leaves(t)' OBVIOUS
  <2>1. disk' = disk /\ mem' = disk
    OBVIOUS
  <2>2. disk.pos[t] # Flat => disk.pos[t].dir \in Dir /\ disk.pos[t].stop \in Int
    BY <1>1, BookParts
  <2>3. disk.pos[t] # Flat => Tighter(disk.pos[t].dir, disk.pos[t].stop, disk.pos[t].stop) = disk.pos[t].stop
    BY <2>2, TighterPicks
  <2> QED BY <2>1, <2>3 DEF Leaves, AtStopNow
<1>11. ToLeave'
  BY <1>10 DEF ToLeave
<1>12. LedgerTracksBook'
  <2> SUFFICES ASSUME NEW t \in Tickers
               PROVE  InFlight(t)' <= Skew(t)' /\ Skew(t)' <= crashes' + InFlight(t)'
    BY DEF LedgerTracksBook
  <2>1. InFlight(t) = 0 /\ InFlight(t)' = 0
    BY <1>3 DEF InFlight
  <2>2. Skew(t)' = Skew(t) /\ crashes' = crashes
    BY DEF Skew
  <2> QED BY <2>1, <2>2, LedgerOf
<1> QED BY <1>5, <1>6, <1>7, <1>8, <1>9, <1>11, <1>12 DEF BookInv

\* An order is a position in the thesis' direction with its stop inside the
\* floor and its trail not armed.
LEMMA OrderIsPosition ==
  ASSUME NEW b, NEW th \in Theses, NEW dist \in StopDists, NEW base \in Baselines(th),
         marks \in [Tickers -> Px \cup {NoMark}], now \in Nat, marks[th.ticker] # NoMark
  PROVE  LET p == Order(b, th, dist, base) IN
         /\ \E S : p \in PositionOf(S)
         /\ p.dir = th.dir /\ StopInside(p) /\ ArmedInProfit(p)
<1> DEFINE p == Order(b, th, dist, base)
           mark == marks[th.ticker]
           fill == FillPx(th.dir, mark)
<1>1. th \in Thesis /\ dist \in 1..99 /\ Horizon \in Nat
  BY BookAssumption
<1>2. th.ticker \in Tickers /\ th.dir \in Dir /\ th.lo \in Nat /\ th.hi \in Nat
  BY <1>1 DEF Thesis
<1>3. mark \in Nat \ {0} /\ base \in Nat \ {0}
  BY <1>2, PolicyAssumption, BookAssumption DEF Baselines, NoMark
<1>4. /\ StopAt(th.dir, mark, dist) \in Int /\ StopAt(th.dir, mark, HardStopPct) \in Int
      /\ Tighter(th.dir, StopAt(th.dir, mark, dist), StopAt(th.dir, mark, HardStopPct))
            = StopAt(th.dir, mark, dist)
  BY <1>1, <1>2, <1>3, StopInsideFloor, PolicyAssumption
<1>5. fill \in Int
  BY <1>2, <1>3, PolicyAssumption DEF FillPx, Dir, Long, Short
<1>6. PICK size : p = [dir |-> th.dir, entry |-> fill, size |-> size,
                       stop |-> StopAt(th.dir, mark, dist),
                       floor |-> StopAt(th.dir, mark, HardStopPct), base |-> base,
                       lo |-> th.lo, hi |-> th.hi, until |-> now + Horizon,
                       extended |-> FALSE, armed |-> FALSE, best |-> fill]
  BY Zenon DEF Order
<1> HIDE DEF p, mark, fill
<1>7. p \in PositionOf({size})
  BY <1>1, <1>2, <1>3, <1>4, <1>5, <1>6 DEF PositionOf
<1>8. p.dir = th.dir /\ StopInside(p) /\ ArmedInProfit(p)
  BY <1>4, <1>6 DEF StopInside, ArmedInProfit
<1> QED BY <1>7, <1>8 DEF p

\* An entry: vetoes and order are taken on the copy, which is still the file.
LEMMA DecideKeeps == ASSUME BookInv, Decide PROVE BookInv'
<1>1. job \in Theses /\ mem = disk /\ pc = "decide" /\ pc' = "save"
  BY DEF BookInv, JobOK, Loaded, Decide
<1>2. job.ticker \in Tickers /\ job.dir \in Dir /\ job \notin {Tick, Review}
  BY <1>1, BookAssumption DEF Thesis, Tick, Review
<1>3. /\ marks[job.ticker] # NoMark /\ ~mem.halted /\ mem.pos[job.ticker] = Flat
      /\ now - mem.lastStop[job.ticker][job.dir] >= Cooldown
  BY DEF Decide, Admitted, NotVetoed
<1>4. /\ IsBook(disk) /\ IsBook(mem) /\ Sound(mem) /\ Sound(disk) /\ now \in Nat
      /\ marks \in [Tickers -> Px \cup {NoMark}]
  BY DEF BookInv, Typed
<1>5. PICK p, S : /\ p \in PositionOf(S) /\ p.dir = job.dir /\ StopInside(p) /\ ArmedInProfit(p)
                  /\ mem' = [mem EXCEPT !.pos[job.ticker] = p]
  <2>1. PICK base \in Baselines(job), dist \in StopDists :
               mem' = [mem EXCEPT !.pos[job.ticker] = Order(mem, job, dist, base)]
    BY Zenon DEF Decide
  <2> QED BY <1>1, <1>3, <1>4, <2>1, OrderIsPosition
<1>6. /\ IsBook(mem') /\ Sound(mem') /\ mem'.lastStop = mem.lastStop
      /\ mem'.pos[job.ticker] = p /\ p # Flat
      /\ \A u \in Tickers \ {job.ticker} : mem'.pos[u] = mem.pos[u]
  <2>1. IsBook(mem) /\ Sound(mem) /\ job.ticker \in Tickers /\ p \in PositionOf(S)
        /\ StopInside(p) /\ ArmedInProfit(p)
    BY <1>2, <1>4, <1>5
  <2>2. mem' = [mem EXCEPT !.pos[job.ticker] = p]
    BY <1>5
  <2>3. IsBook(mem') /\ Sound(mem') /\ Puts(mem', mem, job.ticker, p)
    BY <2>1, <2>2, PutIsBook
  <2> QED BY <2>3 DEF Puts
<1>7. UNCHANGED <<disk, queue, job, todo, marks, now, journal, stopped, crashes>>
  BY DEF Decide
<1>8. Typed'
  BY <1>1, <1>4, <1>6, <1>7 DEF BookInv, Typed
<1>9. Sound(disk)' /\ Sound(mem)' /\ Rested' /\ Stamps'
  BY <1>4, <1>6, <1>7 DEF BookInv, Sound, StopInside, ArmedInProfit, Rested, Stamps
<1>10. ToEnter'
  BY <1>1, <1>3, <1>5, <1>6, <1>7 DEF ToEnter
<1>11. JobOK' /\ Loaded' /\ ToLeave' /\ Unvisited'
  BY <1>1, <1>2, <1>7 DEF JobOK, Loaded, ToLeave, Unvisited, Jobs
<1>12. LedgerTracksBook'
  <2> SUFFICES ASSUME NEW t \in Tickers
               PROVE  InFlight(t)' <= Skew(t)' /\ Skew(t)' <= crashes' + InFlight(t)'
    BY DEF LedgerTracksBook
  <2>1. disk.pos[t] # Flat => mem'.pos[t] # Flat
    BY <1>1, <1>3, <1>6
  <2>2. InFlight(t) = 0 /\ InFlight(t)' = 0
    BY <1>1, <1>7, <2>1 DEF InFlight
  <2>3. Skew(t)' = Skew(t) /\ crashes' = crashes
    BY <1>7 DEF Skew
  <2> QED BY <2>2, <2>3, LedgerOf
<1> QED BY <1>8, <1>9, <1>10, <1>11, <1>12 DEF BookInv

\* A job that saves nothing.
LEMMA QuitKeeps == ASSUME BookInv, Decline \/ NothingHeld PROVE BookInv'
<1>1. pc' = "idle" /\ mem' = FreshBook /\ todo' = {}
      /\ UNCHANGED <<disk, queue, marks, now, journal, stopped, crashes>>
  BY DEF Decline, NothingHeld, Idle
<1>2. LedgerTracksBook'
  <2> SUFFICES ASSUME NEW t \in Tickers
               PROVE  InFlight(t)' <= Skew(t)' /\ Skew(t)' <= crashes' + InFlight(t)'
    BY DEF LedgerTracksBook
  <2>1. InFlight(t)' = 0
    BY <1>1 DEF InFlight
  <2>2. NothingHeld => disk.pos[t] = Flat
    BY BookParts DEF NothingHeld, BookInv, Typed
  <2>3. InFlight(t) = 0
    BY <2>2 DEF InFlight, Decline, NothingHeld
  <2>4. Skew(t)' = Skew(t) /\ crashes' = crashes
    BY <1>1 DEF Skew
  <2> QED BY <2>1, <2>3, <2>4, LedgerOf
<1>3. Typed
  BY DEF BookInv
<1> QED BY <1>1, <1>2, <1>3, IdleKeeps DEF Typed

\* The entry that was saved is journalled.
LEMMA JournalOpenKeeps == ASSUME BookInv, JournalOpen PROVE BookInv'
<1>1. pc = "opened" /\ pc' = "idle" /\ mem' = FreshBook /\ todo' = {}
      /\ UNCHANGED <<disk, queue, marks, now, stopped, crashes>>
      /\ journal' = [journal EXCEPT !.opens[job.ticker] = @ + 1]
  BY DEF JournalOpen, Idle
<1>2. Typed /\ job \in Theses
  BY <1>1 DEF BookInv, JobOK
<1>3. job.ticker \in Tickers
  BY <1>2, BookAssumption DEF Thesis
<1>4. /\ journal' \in [opens : [Tickers -> Nat], closes : [Tickers -> Nat]]
      /\ \A t \in Tickers :
            /\ journal'.opens[t] = journal.opens[t] + (IF job.ticker = t THEN 1 ELSE 0)
            /\ journal'.closes[t] = journal.closes[t]
  <2>1. /\ journal \in [opens : [Tickers -> Nat], closes : [Tickers -> Nat]]
        /\ journal.opens[job.ticker] + 1 \in Nat
    BY <1>2, <1>3 DEF Typed
  <2>2. /\ journal' \in [opens : [Tickers -> Nat], closes : [Tickers -> Nat]]
        /\ journal'.closes = journal.closes
        /\ journal'.opens = [journal.opens EXCEPT ![job.ticker] = @ + 1]
    BY <1>1, <2>1
  <2>3. \A t \in Tickers : journal'.opens[t] = journal.opens[t] + (IF job.ticker = t THEN 1 ELSE 0)
    BY <1>3, <2>1, <2>2
  <2> QED BY <2>2, <2>3
<1>5. LedgerTracksBook'
  <2> SUFFICES ASSUME NEW t \in Tickers
               PROVE  InFlight(t)' <= Skew(t)' /\ Skew(t)' <= crashes' + InFlight(t)'
    BY DEF LedgerTracksBook
  <2>1. InFlight(t)' = 0 /\ InFlight(t) = IF job.ticker = t THEN 1 ELSE 0
    BY <1>1 DEF InFlight
  <2>2. Skew(t)' = Skew(t) - (IF job.ticker = t THEN 1 ELSE 0) /\ crashes' = crashes
    BY <1>1, <1>4, LedgerOf DEF Skew
  <2>3. crashes \in Nat
    BY <1>2 DEF Typed
  <2> QED BY <2>1, <2>2, <2>3, LedgerOf
<1> QED BY <1>1, <1>2, <1>4, <1>5, IdleKeeps DEF Typed

\* The process dies: a journalled exit that was not saved, or a saved entry that
\* was not journalled, is the skew the crash is charged with.
LEMMA CrashKeeps == ASSUME BookInv, Crash PROVE BookInv'
<1>1. pc' = "idle" /\ mem' = FreshBook /\ todo' = {} /\ queue' = <<>>
      /\ marks' = [t \in Tickers |-> NoMark] /\ crashes' = crashes + 1
      /\ UNCHANGED <<disk, now, journal, stopped>>
  BY DEF Crash
<1>2. Typed
  BY DEF BookInv
<1>3. crashes \in Nat
  BY <1>2 DEF Typed
<1>4. LedgerTracksBook'
  <2> SUFFICES ASSUME NEW t \in Tickers
               PROVE  InFlight(t)' <= Skew(t)' /\ Skew(t)' <= crashes' + InFlight(t)'
    BY DEF LedgerTracksBook
  <2>1. InFlight(t)' = 0
    BY <1>1 DEF InFlight
  <2>2. Skew(t)' = Skew(t)
    BY <1>1 DEF Skew
  <2> QED BY <1>1, <1>3, <2>1, <2>2, LedgerOf
<1>5. queue' \in Seq(Jobs) /\ marks' \in [Tickers -> Px \cup {NoMark}]
  BY <1>1
<1> QED BY <1>1, <1>2, <1>3, <1>4, <1>5, IdleKeeps DEF Typed

-----------------------------------------------------------------------------
(* The tick.                                                                 *)

\* A trailed position has a stop no looser than before, and an armed long one
\* has made half of its target.
LEMMA TrailedIsPosition ==
  ASSUME NEW S, NEW p \in PositionOf(S), NEW mark \in Nat, StopInside(p), ArmedInProfit(p)
  PROVE  LET q == Trailed(p, mark, p.dir * RawMovePct(p.base, mark)) IN
         /\ q \in PositionOf(S) /\ q # Flat /\ q.dir = p.dir
         /\ Tighter(p.dir, q.stop, p.stop) = q.stop
         /\ StopInside(q) /\ ArmedInProfit(q)
<1> DEFINE raw == RawMovePct(p.base, mark)
           best == Tighter(p.dir, p.best, mark)
           arms == p.armed \/ 2 * (p.dir * raw) * p.dir >= p.hi
           trail == best - p.dir * ((5 * Atr) \div 2)
           stop == IF arms THEN Tighter(p.dir, p.stop, trail) ELSE p.stop
           q == Trailed(p, mark, p.dir * raw)
<1>1. /\ p.dir \in Dir /\ p.best \in Int /\ p.stop \in Int /\ p.floor \in Int /\ p.hi \in Int
      /\ p.base \in Nat \ {0} /\ p.armed \in BOOLEAN
  BY DEF PositionOf
<1>2. raw \in Int
  BY <1>1 DEF RawMovePct
<1>3. best \in Int /\ (p.dir = Long => best >= p.best /\ best >= mark)
  BY <1>1, TighterPicks
<1>4. trail \in Int
  <2>1. (5 * Atr) \div 2 \in Int
    BY PolicyAssumption
  <2> HIDE DEF best
  <2> QED BY <1>1, <1>3, <2>1 DEF Dir, Long, Short
<1>5. stop \in Int /\ Tighter(p.dir, stop, p.stop) = stop
  <2> HIDE DEF trail, arms
  <2>1. Tighter(p.dir, p.stop, trail) \in Int
        /\ Tighter(p.dir, Tighter(p.dir, p.stop, trail), p.stop) = Tighter(p.dir, p.stop, trail)
        /\ Tighter(p.dir, p.stop, p.stop) = p.stop
    BY <1>1, <1>4, TighterPicks
  <2> QED BY <1>1, <2>1
<1>6. arms \in BOOLEAN
  BY <1>1
<1>7. q = [p EXCEPT !.best = best, !.armed = arms, !.stop = stop]
  BY Zenon DEF Trailed
<1>8. /\ q \in PositionOf(S) /\ q.dir = p.dir /\ q.best = best /\ q.armed = arms /\ q.stop = stop
      /\ q.floor = p.floor /\ q.hi = p.hi /\ q.base = p.base
  <2> HIDE DEF best, arms, stop, q
  <2> QED BY <1>3, <1>5, <1>6, <1>7 DEF PositionOf
<1>9. q # Flat /\ p # Flat
  BY <1>1, <1>8 DEF Flat, Dir, Long, Short
<1>10. Tighter(p.dir, stop, p.floor) = stop
  <2> HIDE DEF stop
  <2>1. Tighter(p.dir, p.stop, p.floor) = p.stop
    BY <1>9 DEF StopInside
  <2> QED BY <1>1, <1>5, <2>1, TighterChain
<1>11. ASSUME p.dir = Long, arms PROVE 200 * (best - p.base) >= p.hi * p.base
  <2>1. CASE p.armed
    <3>1. 200 * (p.best - p.base) >= p.hi * p.base
      BY <1>9, <1>11, <2>1 DEF ArmedInProfit
    <3>2. 200 * (best - p.base) >= 200 * (p.best - p.base)
      BY <1>1, <1>3, <1>11
    <3>3. p.hi * p.base \in Int
      BY <1>1
    <3> HIDE DEF best
    <3> QED BY <1>1, <1>3, <3>1, <3>2, <3>3
  <2>2. CASE ~p.armed
    <3>1. 2 * raw >= p.hi
      BY <1>1, <1>2, <1>11, <2>2 DEF Long
    <3>2. 200 * (mark - p.base) >= p.hi * p.base
      <4>1. p.base \in Nat \ {0} /\ mark \in Int /\ p.hi \in Int /\ 2 * RawMovePct(p.base, mark) >= p.hi
        BY <1>1, <3>1
      <4> QED BY Zenon, <4>1, MoveReached
    <3>3. p.hi * p.base \in Int
      BY <1>1
    <3> HIDE DEF best
    <3> QED BY <1>1, <1>3, <1>11, <3>2, <3>3
  <2> QED BY <2>1, <2>2
<1> HIDE DEF best, arms, stop, q
<1>12. StopInside(q) /\ ArmedInProfit(q)
  BY <1>1, <1>8, <1>10, <1>11 DEF StopInside, ArmedInProfit
<1> QED BY <1>5, <1>8, <1>9, <1>12 DEF q, raw

\* What the tick does to its copy: the positions out are closed and stamped, of
\* the others some are trailed.
Ticks(out, cached) ==
    /\ out = {t \in Held(mem) : marks[t] # NoMark /\ StoppedOut(mem.pos[t], marks[t])}
    /\ cached \subseteq {t \in Held(mem) : marks[t] # NoMark} \ out
    /\ Journalled(out)
    /\ IsBook(mem') /\ Sound(mem')
    /\ \A t \in out : mem'.pos[t] = Flat
    /\ \A t \in cached : /\ mem'.pos[t] # Flat /\ mem'.pos[t].dir = mem.pos[t].dir
                         /\ Tighter(mem.pos[t].dir, mem'.pos[t].stop, mem.pos[t].stop) = mem'.pos[t].stop
    /\ \A t \in Tickers \ (out \cup cached) : mem'.pos[t] = mem.pos[t]
    /\ \A t \in Tickers, d \in Dir :
          mem'.lastStop[t][d] = IF t \in out /\ mem.pos[t].dir = d THEN now ELSE mem.lastStop[t][d]

\* The shape of a tick.
LEMMA ScanTicks ==
  ASSUME IsBook(mem), Sound(mem), now \in Nat, marks \in [Tickers -> Px \cup {NoMark}], Scan
  PROVE  \E out, cached : Ticks(out, cached)
<1> DEFINE live == {t \in Held(mem) : marks[t] # NoMark}
           out == {t \in live : StoppedOut(mem.pos[t], marks[t])}
           after == Closed(mem, out, out)
           move(t) == mem.pos[t].dir * RawMovePct(mem.pos[t].base, marks[t])
           trailed(t) == Trailed(mem.pos[t], marks[t], move(t))
           halts == AtHaltLine(mem.realized, mem.pos, marks)
<1>1. PICK cached \in SUBSET (live \ out) :
         /\ mem' = [after EXCEPT
               !.halted = @ \/ halts,
               !.pos = [t \in Tickers |-> IF t \in cached THEN trailed(t) ELSE @[t]]]
         /\ Journalled(out)
  BY Zenon DEF Scan
<1>2. Held(mem) = {t \in Tickers : mem.pos[t] # Flat}
  BY BookParts
<1>3. IsBook(after) /\ Sound(after) /\ Drops(after, mem, out, out)
  <2>1. out \subseteq Held(mem)
    OBVIOUS
  <2> HIDE DEF out
  <2> QED BY <2>1, ClosedIsBook
<1>4. PICK r, S : mem \in BookOf(r, S)
  BY DEF IsBook
<1>5. ASSUME NEW t \in cached
      PROVE  /\ t \in Tickers
             /\ trailed(t) \in PositionOf(S) /\ trailed(t) # Flat /\ trailed(t).dir = mem.pos[t].dir
             /\ Tighter(mem.pos[t].dir, trailed(t).stop, mem.pos[t].stop) = trailed(t).stop
             /\ StopInside(trailed(t)) /\ ArmedInProfit(trailed(t))
  <2>1. t \in Tickers /\ mem.pos[t] # Flat /\ marks[t] \in Px
    BY <1>2 DEF NoMark
  <2>2. mem.pos[t] \in PositionOf(S) /\ StopInside(mem.pos[t]) /\ ArmedInProfit(mem.pos[t])
    BY <1>4, <2>1 DEF BookOf, Sound
  <2>3. marks[t] \in Nat
    BY <2>1, PolicyAssumption
  <2> HIDE DEF live, out, after
  <2> QED BY <2>1, <2>2, <2>3, TrailedIsPosition
<1>6. PICK q, R : after \in BookOf(q, R)
  BY <1>3 DEF IsBook
<1> DEFINE U == R \cup S
           pos == [t \in Tickers |-> IF t \in cached THEN trailed(t) ELSE after.pos[t]]
<1> HIDE DEF out, trailed, after, halts
<1>7. halts \in BOOLEAN
  BY DEF halts, AtHaltLine
<1>8. /\ mem'.realized = after.realized /\ mem'.lastStop = after.lastStop /\ mem'.pos = pos
      /\ mem' = [realized |-> q, halted |-> (after.halted \/ halts), pos |-> pos,
                 lastStop |-> after.lastStop]
  BY <1>1, <1>6 DEF BookOf
<1>9. pos \in [Tickers -> PositionOf(U) \cup {Flat}]
  <2>1. PositionOf(R) \subseteq PositionOf(U) /\ PositionOf(S) \subseteq PositionOf(U)
    BY DEF PositionOf
  <2>2. after.pos \in [Tickers -> PositionOf(R) \cup {Flat}]
    BY <1>6 DEF BookOf
  <2> QED BY <1>5, <2>1, <2>2
<1>10. mem' \in BookOf(q, U)
  <2> DEFINE h == after.halted \/ halts
  <2>1. after.halted \in BOOLEAN /\ after.lastStop \in [Tickers -> [Dir -> Int]]
    BY <1>6 DEF BookOf
  <2>2. h \in BOOLEAN
    BY <1>7, <2>1
  <2>3. mem' = [realized |-> q, halted |-> h, pos |-> pos, lastStop |-> after.lastStop]
    BY <1>8
  <2> HIDE DEF pos, U, h
  <2> QED BY <1>9, <2>1, <2>2, <2>3 DEF BookOf
<1>11. Sound(mem')
  <2> SUFFICES ASSUME NEW u \in Tickers
               PROVE  StopInside(pos[u]) /\ ArmedInProfit(pos[u])
    BY <1>8 DEF Sound
  <2>1. CASE u \in cached
    BY <1>5, <2>1
  <2>2. CASE u \notin cached
    <3>1. pos[u] = after.pos[u]
      BY <2>2
    <3> QED BY <1>3, <3>1 DEF Sound
  <2> QED BY <2>1, <2>2
<1>12. out \subseteq Tickers /\ cached \cap out = {} /\ cached \subseteq Tickers
  BY <1>1, <1>2 DEF out
<1>13. /\ \A t \in out : mem'.pos[t] = Flat
       /\ \A t \in cached : mem'.pos[t] = trailed(t)
       /\ \A t \in Tickers \ (out \cup cached) : mem'.pos[t] = mem.pos[t]
  BY <1>3, <1>8, <1>12 DEF Drops
<1>14. \A t \in Tickers, d \in Dir :
          mem'.lastStop[t][d] = IF t \in out /\ mem.pos[t].dir = d THEN now ELSE mem.lastStop[t][d]
  BY <1>3, <1>8 DEF Drops
<1>15. IsBook(mem')
  BY <1>10 DEF IsBook
<1>16. Ticks(out, cached)
  <2>1. out = {t \in Held(mem) : marks[t] # NoMark /\ StoppedOut(mem.pos[t], marks[t])}
    BY DEF out
  <2>2. \A t \in cached : /\ mem'.pos[t] # Flat /\ mem'.pos[t].dir = mem.pos[t].dir
                          /\ Tighter(mem.pos[t].dir, mem'.pos[t].stop, mem.pos[t].stop) = mem'.pos[t].stop
    BY <1>5, <1>13
  <2>3. cached \subseteq {t \in Held(mem) : marks[t] # NoMark} \ out /\ Journalled(out)
    BY <1>1
  <2> QED BY <1>11, <1>13, <1>14, <1>15, <2>1, <2>2, <2>3 DEF Ticks
<1> QED BY <1>16

\* The tick keeps the invariant: a stamp it leaves is later than the one in the
\* file because the position was held through the cooldown.
LEMMA ScanKeeps == ASSUME BookInv, Scan PROVE BookInv'
<1>1. mem = disk /\ pc = "tick" /\ pc' = "save" /\ job = Tick
      /\ UNCHANGED <<disk, queue, job, todo, marks, now, stopped, crashes>>
  BY DEF BookInv, Loaded, JobOK, Scan
<1>2. /\ IsBook(disk) /\ Sound(disk) /\ now \in Nat /\ marks \in [Tickers -> Px \cup {NoMark}]
      /\ journal \in [opens : [Tickers -> Nat], closes : [Tickers -> Nat]]
  BY DEF BookInv, Typed
<1>3. IsBook(mem) /\ Sound(mem)
  BY <1>1, <1>2
<1>4. PICK out, cached : Ticks(out, cached)
  BY <1>2, <1>3, ScanTicks
<1>5. Held(mem) = {t \in Tickers : mem.pos[t] # Flat}
  BY <1>3, BookParts
<1>6. /\ out \subseteq Tickers /\ cached \subseteq Tickers /\ cached \cap out = {}
      /\ \A t \in out : disk.pos[t] # Flat /\ StoppedOut(disk.pos[t], marks[t])
      /\ \A t \in cached : disk.pos[t] # Flat
  BY <1>1, <1>4, <1>5 DEF Ticks
<1>7. IsBook(mem') /\ Sound(mem')
  BY <1>4 DEF Ticks
<1>8. \A t \in Tickers : disk.pos[t] # Flat /\ mem'.pos[t] = Flat => t \in out
  BY <1>1, <1>4 DEF Ticks
<1>9. /\ journal' \in [opens : [Tickers -> Nat], closes : [Tickers -> Nat]]
      /\ \A t \in Tickers : /\ journal'.opens[t] = journal.opens[t]
                            /\ journal'.closes[t] = journal.closes[t] + (IF t \in out THEN 1 ELSE 0)
  <2> DEFINE cs == [t \in Tickers |-> IF t \in out THEN journal.closes[t] + 1 ELSE journal.closes[t]]
  <2>1. journal' = [journal EXCEPT !.closes = cs]
    BY <1>4 DEF Ticks, Journalled
  <2>2. cs \in [Tickers -> Nat]
    BY <1>2
  <2>3. journal' = [opens |-> journal.opens, closes |-> cs]
    <3> HIDE DEF cs
    <3> QED BY <1>2, <2>1
  <2>4. \A t \in Tickers : cs[t] = journal.closes[t] + (IF t \in out THEN 1 ELSE 0)
    BY <1>2
  <2> HIDE DEF cs
  <2> QED BY <1>2, <2>2, <2>3, <2>4
<1>10. Typed'
  BY <1>1, <1>2, <1>7, <1>9 DEF BookInv, Typed
<1>11. Sound(disk)' /\ Sound(mem)' /\ Rested' /\ Stamps'
  BY <1>1, <1>2, <1>7 DEF BookInv, Sound, StopInside, ArmedInProfit, Rested, Stamps
<1>12. Tick \notin Theses
  BY BookAssumption DEF Thesis, Tick
<1>13. JobOK' /\ Loaded' /\ ToEnter' /\ Unvisited'
  BY <1>1, <1>12 DEF JobOK, Loaded, ToEnter, Unvisited, Jobs
<1>14. ASSUME NEW t \in Tickers PROVE Leaves(t)'
  <2>1. disk.pos[t] # Flat => disk.pos[t].dir \in Dir /\ disk.pos[t].stop \in Int
    BY <1>2, BookParts
  <2>2. disk.lastStop \in [Tickers -> [Dir -> Int]]
    BY <1>2, BookParts
  <2>3. ASSUME disk.pos[t] = Flat PROVE mem'.pos[t] = Flat
    <3>1. t \in Tickers \ (out \cup cached)
      BY <1>6, <2>3
    <3>2. mem'.pos[t] = mem.pos[t]
      BY <1>4, <3>1 DEF Ticks
    <3> QED BY <1>1, <2>3, <3>2
  <2>4. ASSUME mem'.pos[t] # Flat
        PROVE  /\ mem'.pos[t].dir = disk.pos[t].dir
               /\ Tighter(disk.pos[t].dir, mem'.pos[t].stop, disk.pos[t].stop) = mem'.pos[t].stop
    <3>1. t \notin out
      BY <1>4, <2>4 DEF Ticks
    <3>2. CASE t \in cached
      BY <1>1, <1>4, <3>2 DEF Ticks
    <3>3. CASE t \notin cached
      <4>1. mem'.pos[t] = disk.pos[t]
        BY <1>1, <1>4, <3>1, <3>3 DEF Ticks
      <4>2. disk.pos[t] # Flat
        BY <2>4, <4>1
      <4> QED BY <2>1, <4>1, <4>2, TighterPicks
    <3> QED BY <3>2, <3>3
  <2>5. ASSUME NEW d \in Dir
        PROVE  /\ AtStopNow(t, d)' => disk.lastStop[t][d] < mem'.lastStop[t][d]
                                      /\ mem'.lastStop[t][d] <= now
               /\ ~AtStopNow(t, d)' => mem'.lastStop[t][d] = disk.lastStop[t][d]
    <3>1. mem'.lastStop[t][d] = IF t \in out /\ disk.pos[t].dir = d THEN now ELSE disk.lastStop[t][d]
      BY <1>1, <1>4 DEF Ticks
    <3>2. AtStopNow(t, d)' <=> t \in out /\ disk.pos[t].dir = d
      <4>1. disk' = disk /\ marks' = marks
        BY <1>1
      <4>2. t \in out => mem'.pos[t] = Flat
        BY <1>4 DEF Ticks
      <4> QED BY <1>6, <1>8, <4>1, <4>2 DEF AtStopNow
    <3>3. t \in out /\ disk.pos[t].dir = d => disk.lastStop[t][d] < now
      <4>1. now \in Int /\ disk.lastStop[t][d] \in Int /\ Cooldown \in Nat \ {0}
        BY <1>2, <2>2, BookAssumption
      <4>2. t \in out /\ disk.pos[t].dir = d => now - disk.lastStop[t][d] >= Cooldown
        BY <1>6 DEF BookInv, Rested
      <4> QED BY <4>1, <4>2
    <3> QED BY <1>2, <3>1, <3>2, <3>3
  <2>6. disk' = disk /\ now' = now
    BY <1>1
  <2> QED BY <2>3, <2>4, <2>5, <2>6 DEF Leaves
<1>15. ToLeave'
  BY <1>14 DEF ToLeave
<1>16. LedgerTracksBook'
  <2> SUFFICES ASSUME NEW t \in Tickers
               PROVE  InFlight(t)' <= Skew(t)' /\ Skew(t)' <= crashes' + InFlight(t)'
    BY DEF LedgerTracksBook
  <2>1. InFlight(t) = 0
    BY <1>1 DEF InFlight
  <2>2. InFlight(t)' = IF t \in out THEN 1 ELSE 0
    <3>1. t \in out <=> disk.pos[t] # Flat /\ mem'.pos[t] = Flat
      BY <1>4, <1>6, <1>8 DEF Ticks
    <3> QED BY <1>1, <3>1 DEF InFlight
  <2>3. Skew(t)' = Skew(t) + (IF t \in out THEN 1 ELSE 0)
    BY <1>1, <1>9, LedgerOf DEF Skew
  <2>4. crashes' = crashes /\ crashes \in Nat
    BY <1>1 DEF BookInv, Typed
  <2> QED BY <2>1, <2>2, <2>3, <2>4, LedgerOf
<1> QED BY <1>10, <1>11, <1>13, <1>15, <1>16 DEF BookInv

-----------------------------------------------------------------------------
(* The review.                                                               *)

\* A position held over for another horizon.
LEMMA ExtendedIsPosition ==
  ASSUME NEW S, NEW p \in PositionOf(S), StopInside(p), ArmedInProfit(p)
  PROVE  LET q == [p EXCEPT !.until = @ + Horizon, !.extended = TRUE] IN
         /\ q \in PositionOf(S) /\ q.dir = p.dir /\ q.stop = p.stop
         /\ StopInside(q) /\ ArmedInProfit(q)
<1> DEFINE q == [p EXCEPT !.until = @ + Horizon, !.extended = TRUE]
<1>1. Horizon \in Nat /\ p.until \in Int
  BY BookAssumption DEF PositionOf
<1>2. q \in PositionOf(S)
  <2> DEFINE until == p.until + Horizon
  <2>1. until \in Int /\ q = [p EXCEPT !.until = until, !.extended = TRUE]
    BY <1>1
  <2> HIDE DEF until, q
  <2> QED BY <2>1 DEF PositionOf
<1>3. /\ q.dir = p.dir /\ q.stop = p.stop /\ q.floor = p.floor /\ q.armed = p.armed
      /\ q.best = p.best /\ q.base = p.base /\ q.hi = p.hi
  BY DEF PositionOf
<1>4. p # Flat
  BY DEF PositionOf, Flat, Dir, Long, Short
<1> HIDE DEF q
<1>5. StopInside(q) /\ ArmedInProfit(q)
  BY <1>3, <1>4 DEF StopInside, ArmedInProfit
<1> QED BY <1>2, <1>3, <1>5 DEF q

\* What a visit does to its copy: the position stays, is extended, or is closed
\* and stamped just when it is stopped out.
Visits(t, closes) ==
    /\ IsBook(mem') /\ Sound(mem')
    /\ \A u \in Tickers \ {t} : mem'.pos[u] = mem.pos[u]
    /\ closes => mem'.pos[t] = Flat /\ Journalled({t})
    /\ ~closes => /\ UNCHANGED journal
                  /\ mem'.pos[t] # Flat /\ mem'.pos[t].dir = mem.pos[t].dir
                  /\ mem'.pos[t].stop = mem.pos[t].stop
    /\ \A u \in Tickers, d \in Dir :
          mem'.lastStop[u][d] = IF /\ closes /\ u = t /\ mem.pos[t].dir = d
                                   /\ StoppedOut(mem.pos[t], marks[t])
                                THEN now ELSE mem.lastStop[u][d]

\* The shape of a visit.
LEMMA VisitVisits ==
  ASSUME IsBook(mem), Sound(mem), now \in Nat, NEW t \in Tickers, mem.pos[t] # Flat, Visit(t)
  PROVE  \E closes \in BOOLEAN : Visits(t, closes)
<1> DEFINE track == IF marks[t] = NoMark THEN "hold" ELSE ReviewTrack(mem.pos[t], marks[t], now)
           p == mem.pos[t]
           q == [p EXCEPT !.until = @ + Horizon, !.extended = TRUE]
           stops == IF track \in {"technical", "hard_floor"} THEN {t} ELSE {}
<1>1. CASE track = "hold"
  <2>1. mem' = mem /\ UNCHANGED journal
    BY <1>1 DEF Visit
  <2>2. Visits(t, FALSE)
    BY <2>1 DEF Visits
  <2> QED BY <2>2
<1>2. CASE track = "extend"
  <2>1. mem' = [mem EXCEPT !.pos[t] = q] /\ UNCHANGED journal
    BY <1>2 DEF Visit
  <2>2. PICK r, S : mem \in BookOf(r, S)
    BY DEF IsBook
  <2>3. p \in PositionOf(S) /\ StopInside(p) /\ ArmedInProfit(p)
    BY <2>2 DEF BookOf, Sound
  <2>4. q \in PositionOf(S) /\ q.dir = p.dir /\ q.stop = p.stop /\ StopInside(q) /\ ArmedInProfit(q)
    <3> HIDE DEF p
    <3> QED BY <2>3, ExtendedIsPosition
  <2>5. IsBook(mem') /\ Sound(mem') /\ Puts(mem', mem, t, q)
    <3> HIDE DEF q
    <3> QED BY <2>1, <2>4, PutIsBook
  <2>6. Visits(t, FALSE)
    <3> HIDE DEF q
    <3> QED BY <2>1, <2>4, <2>5 DEF Visits, Puts
  <2> QED BY <2>6
<1>3. CASE track \notin {"hold", "extend"}
  <2>1. mem' = Closed(mem, {t}, stops) /\ Journalled({t})
    <3> HIDE DEF stops
    <3> QED BY <1>3, Zenon DEF Visit, stops
  <2>2. t \in Held(mem)
    BY BookParts
  <2>3. IsBook(mem') /\ Sound(mem') /\ Drops(mem', mem, {t}, stops)
    <3>1. stops \subseteq {t} /\ {t} \subseteq Held(mem)
      BY <2>2
    <3> HIDE DEF stops
    <3> QED BY <2>1, <3>1, ClosedIsBook
  <2>4. t \in stops <=> StoppedOut(mem.pos[t], marks[t])
    <3>1. marks[t] # NoMark /\ track = ReviewTrack(mem.pos[t], marks[t], now)
      BY <1>3
    <3>2. ReviewTrack(p, marks[t], now) \in {"technical", "hard_floor"}
             <=> StoppedOut(p, marks[t])
      <4> HIDE DEF p
      <4>1. CASE AtHardStop(p, marks[t])
        BY <4>1 DEF ReviewTrack, StoppedOut
      <4>2. CASE ~AtHardStop(p, marks[t]) /\ ThroughStop(p, marks[t])
        BY <4>2 DEF ReviewTrack, StoppedOut
      <4>3. CASE ~AtHardStop(p, marks[t]) /\ ~ThroughStop(p, marks[t])
        <5>1. ReviewTrack(p, marks[t], now) \in {"valuation", "time", "extend", "hold"}
          BY <4>3 DEF ReviewTrack
        <5> QED BY <4>3, <5>1 DEF StoppedOut
      <4> QED BY <4>1, <4>2, <4>3
    <3> QED BY <3>1, <3>2
  <2>5. stops \subseteq {t}
    OBVIOUS
  <2>6. Visits(t, TRUE)
    <3> HIDE DEF stops
    <3>1. \A u \in Tickers \ {t} : mem'.pos[u] = mem.pos[u]
      BY <2>3 DEF Drops
    <3>2. mem'.pos[t] = Flat
      BY <2>3 DEF Drops
    <3>3. ASSUME NEW u \in Tickers, NEW d \in Dir
          PROVE  mem'.lastStop[u][d] = IF /\ u = t /\ mem.pos[t].dir = d
                                          /\ StoppedOut(mem.pos[t], marks[t])
                                       THEN now ELSE mem.lastStop[u][d]
      <4>1. mem'.lastStop[u][d] = IF u \in stops /\ mem.pos[u].dir = d THEN now ELSE mem.lastStop[u][d]
        BY <2>3 DEF Drops
      <4> QED BY <2>4, <2>5, <4>1
    <3> QED BY <2>1, <2>3, <3>1, <3>2, <3>3 DEF Visits
  <2> QED BY <2>6
<1> QED BY <1>1, <1>2, <1>3

\* A visit keeps the invariant, however late it comes after the job started.
LEMMA VisitKeeps == ASSUME BookInv, NEW t \in Tickers, Visit(t) PROVE BookInv'
<1>1. /\ pc = "review" /\ pc' = "review" /\ job = Review /\ t \in todo /\ todo' = todo \ {t}
      /\ UNCHANGED <<disk, queue, job, pc, marks, now, stopped, crashes>>
  BY DEF BookInv, JobOK, Visit
<1>2. /\ IsBook(disk) /\ Sound(disk) /\ IsBook(mem) /\ Sound(mem) /\ now \in Nat
      /\ journal \in [opens : [Tickers -> Nat], closes : [Tickers -> Nat]]
      /\ todo \subseteq Tickers
  BY DEF BookInv, Typed
<1>3. disk.pos[t] # Flat /\ mem.pos[t] = disk.pos[t]
  BY <1>1 DEF BookInv, Unvisited
<1>4. PICK closes \in BOOLEAN : Visits(t, closes)
  BY <1>2, <1>3, VisitVisits
<1>5. IsBook(mem') /\ Sound(mem')
  BY <1>4 DEF Visits
<1>6. /\ journal' \in [opens : [Tickers -> Nat], closes : [Tickers -> Nat]]
      /\ \A u \in Tickers :
            /\ journal'.opens[u] = journal.opens[u]
            /\ journal'.closes[u] = journal.closes[u] + (IF closes /\ u = t THEN 1 ELSE 0)
  <2>1. CASE closes
    <3> DEFINE cs == [u \in Tickers |-> IF u \in {t} THEN journal.closes[u] + 1 ELSE journal.closes[u]]
    <3>1. journal' = [journal EXCEPT !.closes = cs]
      BY <1>4, <2>1 DEF Visits, Journalled
    <3>2. cs \in [Tickers -> Nat]
      BY <1>2
    <3>3. journal' = [opens |-> journal.opens, closes |-> cs]
      <4> HIDE DEF cs
      <4> QED BY <1>2, <3>1
    <3>4. \A u \in Tickers : cs[u] = journal.closes[u] + (IF closes /\ u = t THEN 1 ELSE 0)
      BY <1>2, <2>1
    <3> HIDE DEF cs
    <3> QED BY <1>2, <3>2, <3>3, <3>4
  <2>2. CASE ~closes
    <3>1. journal' = journal
      BY <1>4, <2>2 DEF Visits
    <3> QED BY <1>2, <2>2, <3>1
  <2> QED BY <2>1, <2>2
<1>7. Typed'
  BY <1>1, <1>2, <1>5, <1>6 DEF BookInv, Typed
<1>8. Sound(disk)' /\ Sound(mem)' /\ Rested' /\ Stamps'
  BY <1>1, <1>2, <1>5 DEF BookInv, Sound, StopInside, ArmedInProfit, Rested, Stamps
<1>9. JobOK' /\ Loaded' /\ ToEnter'
  BY <1>1 DEF JobOK, Loaded, ToEnter
<1>10. Unvisited'
  <2> SUFFICES ASSUME NEW u \in todo' PROVE disk'.pos[u] # Flat /\ mem'.pos[u] = disk'.pos[u]
    BY DEF Unvisited
  <2>1. u \in todo /\ u \in Tickers \ {t}
    BY <1>1, <1>2
  <2>2. mem'.pos[u] = mem.pos[u]
    BY <1>4, <2>1 DEF Visits
  <2> QED BY <1>1, <2>1, <2>2 DEF BookInv, Unvisited
<1>11. \A u \in Tickers : Leaves(u)
  BY <1>1 DEF BookInv, ToLeave
<1>12. \A u \in Tickers \ {t} : mem'.pos[u] = mem.pos[u] /\ \A d \in Dir : mem'.lastStop[u][d] = mem.lastStop[u][d]
  BY <1>4 DEF Visits
<1>13. disk' = disk /\ now' = now /\ marks' = marks
  BY <1>1
<1>14. \A u \in Tickers \ {t} : Leaves(u)'
  BY <1>11, <1>12, <1>13 DEF Leaves, AtStopNow
<1>15. Leaves(t)'
  <2>1. disk.pos[t].dir \in Dir /\ disk.pos[t].stop \in Int
    BY <1>2, <1>3, BookParts
  <2>2. Tighter(disk.pos[t].dir, disk.pos[t].stop, disk.pos[t].stop) = disk.pos[t].stop
    BY <2>1, TighterPicks
  <2>3. ~closes => /\ mem'.pos[t] # Flat /\ mem'.pos[t].dir = disk.pos[t].dir
                   /\ mem'.pos[t].stop = disk.pos[t].stop
    BY <1>3, <1>4 DEF Visits
  <2>4. closes => mem'.pos[t] = Flat
    BY <1>4 DEF Visits
  <2>5. ASSUME NEW d \in Dir
        PROVE  /\ AtStopNow(t, d)' => disk.lastStop[t][d] < mem'.lastStop[t][d]
                                      /\ mem'.lastStop[t][d] <= now
               /\ ~AtStopNow(t, d)' => mem'.lastStop[t][d] = disk.lastStop[t][d]
    <3>1. mem.lastStop[t][d] = disk.lastStop[t][d]
      BY <1>3, <1>11 DEF Leaves, AtStopNow
    <3>2. AtStopNow(t, d)' <=> closes /\ disk.pos[t].dir = d /\ StoppedOut(disk.pos[t], marks[t])
      BY <1>3, <1>13, <2>3, <2>4 DEF AtStopNow
    <3>3. mem'.lastStop[t][d] = IF closes /\ disk.pos[t].dir = d /\ StoppedOut(disk.pos[t], marks[t])
                                THEN now ELSE disk.lastStop[t][d]
      BY <1>3, <1>4, <3>1 DEF Visits
    <3>4. disk.pos[t].dir = d => disk.lastStop[t][d] < now
      <4>1. now \in Int /\ disk.lastStop[t][d] \in Int /\ Cooldown \in Nat \ {0}
        BY <1>2, BookParts, BookAssumption
      <4>2. disk.pos[t].dir = d => now - disk.lastStop[t][d] >= Cooldown
        BY <1>3 DEF BookInv, Rested
      <4> QED BY <4>1, <4>2
    <3> QED BY <1>2, <3>2, <3>3, <3>4
  <2>6. disk.pos[t] = Flat => mem'.pos[t] = Flat
    BY <1>3
  <2>7. mem'.pos[t] # Flat =>
          /\ mem'.pos[t].dir = disk.pos[t].dir
          /\ Tighter(disk.pos[t].dir, mem'.pos[t].stop, disk.pos[t].stop) = mem'.pos[t].stop
    BY <2>2, <2>3, <2>4
  <2> QED BY <1>13, <2>5, <2>6, <2>7 DEF Leaves
<1>16. ToLeave'
  BY <1>14, <1>15 DEF ToLeave
<1>17. LedgerTracksBook'
  <2> SUFFICES ASSUME NEW u \in Tickers
               PROVE  InFlight(u)' <= Skew(u)' /\ Skew(u)' <= crashes' + InFlight(u)'
    BY DEF LedgerTracksBook
  <2>1. InFlight(u)' = InFlight(u) + (IF closes /\ u = t THEN 1 ELSE 0)
    <3>1. CASE u = t
      <4>1. mem'.pos[t] = Flat <=> closes
        BY <1>4 DEF Visits
      <4> QED BY <1>1, <1>3, <3>1, <4>1 DEF InFlight
    <3>2. CASE u # t
      BY <1>1, <1>12, <3>2 DEF InFlight
    <3> QED BY <3>1, <3>2
  <2>2. Skew(u)' = Skew(u) + (IF closes /\ u = t THEN 1 ELSE 0)
    BY <1>1, <1>6, LedgerOf DEF Skew
  <2>3. crashes' = crashes /\ crashes \in Nat
    BY <1>1 DEF BookInv, Typed
  <2> QED BY <2>1, <2>2, <2>3, LedgerOf
<1> QED BY <1>7, <1>8, <1>9, <1>10, <1>16, <1>17 DEF BookInv

\* The review has visited all it found.
LEMMA ReviewedKeeps == ASSUME BookInv, Reviewed PROVE BookInv'
<1>1. /\ pc = "review" /\ pc' = "save" /\ job = Review
      /\ UNCHANGED <<disk, mem, queue, job, todo, marks, now, journal, stopped, crashes>>
  BY DEF BookInv, JobOK, Reviewed
<1>2. Review \notin Theses
  BY BookAssumption DEF Thesis, Review
<1>3. Typed'
  BY <1>1 DEF BookInv, Typed
<1>4. Sound(disk)' /\ Sound(mem)' /\ Rested' /\ Stamps'
  BY <1>1 DEF BookInv, Sound, StopInside, ArmedInProfit, Rested, Stamps
<1>5. JobOK' /\ Loaded' /\ ToEnter' /\ Unvisited'
  BY <1>1, <1>2 DEF JobOK, Loaded, ToEnter, Unvisited, Jobs
<1>6. ToLeave'
  BY <1>1 DEF BookInv, ToLeave, Leaves, AtStopNow
<1>7. LedgerTracksBook'
  BY <1>1 DEF BookInv, LedgerTracksBook, InFlight, Skew
<1> QED BY <1>3, <1>4, <1>5, <1>6, <1>7 DEF BookInv

\* A quote comes between jobs.
LEMMA QuoteKeeps == ASSUME BookInv, NEW t \in Tickers, NEW px \in Px, Quote(t, px) PROVE BookInv'
<1>1. /\ pc = "idle" /\ marks' = [marks EXCEPT ![t] = px]
      /\ UNCHANGED <<disk, mem, job, pc, todo, queue, now, journal, stopped, crashes>>
  BY DEF Quote, jobVars
<1>2. Typed'
  BY <1>1 DEF BookInv, Typed
<1>3. Sound(disk)' /\ Sound(mem)' /\ Rested' /\ Stamps'
  BY <1>1 DEF BookInv, Sound, StopInside, ArmedInProfit, Rested, Stamps
<1>4. JobOK' /\ Loaded' /\ ToEnter' /\ Unvisited' /\ ToLeave'
  BY <1>1 DEF JobOK, Loaded, ToEnter, Unvisited, ToLeave
<1>5. LedgerTracksBook'
  BY <1>1 DEF BookInv, LedgerTracksBook, InFlight, Skew
<1> QED BY <1>2, <1>3, <1>4, <1>5 DEF BookInv

\* Time passes at any place of any job.
LEMMA PassKeeps == ASSUME BookInv, Pass PROVE BookInv'
<1>1. /\ now' = now + 1 /\ now \in Nat /\ IsBook(disk) /\ IsBook(mem) /\ Cooldown \in Nat
      /\ UNCHANGED <<disk, mem, job, pc, todo, queue, marks, journal, stopped, crashes>>
  BY BookAssumption DEF Pass, jobVars, BookInv, Typed
<1>2. Typed'
  BY <1>1 DEF BookInv, Typed
<1>3. Sound(disk)' /\ Sound(mem)' /\ Stamps' /\ JobOK' /\ Loaded' /\ Unvisited'
  BY <1>1 DEF BookInv, Sound, StopInside, ArmedInProfit, Stamps, JobOK, Loaded, Unvisited
<1>4. \A t \in Tickers, d \in Dir : disk.lastStop[t][d] \in Int /\ mem.lastStop[t][d] \in Int
  BY <1>1, BookParts
<1>5. Rested'
  <2> SUFFICES ASSUME NEW t \in Tickers, disk.pos[t] # Flat
               PROVE  now' - disk.lastStop[t][disk.pos[t].dir] >= Cooldown
    BY <1>1 DEF Rested
  <2>1. disk.pos[t].dir \in Dir
    BY <1>1, BookParts
  <2>2. now - disk.lastStop[t][disk.pos[t].dir] >= Cooldown
    BY DEF BookInv, Rested
  <2> QED BY <1>1, <1>4, <2>1, <2>2
<1>6. ToEnter'
  <2> SUFFICES ASSUME pc = "save", job \in Theses
               PROVE  ToEnter'
    BY <1>1 DEF ToEnter
  <2>1. job.ticker \in Tickers /\ job.dir \in Dir
    BY BookAssumption DEF Thesis
  <2>2. now - disk.lastStop[job.ticker][job.dir] >= Cooldown
    BY DEF BookInv, ToEnter
  <2>3. now' - disk.lastStop[job.ticker][job.dir] >= Cooldown
    BY <1>1, <1>4, <2>1, <2>2
  <2> QED BY <1>1, <2>3 DEF BookInv, ToEnter
<1>7. ASSUME NEW t \in Tickers, Leaves(t) PROVE Leaves(t)'
  <2>1. \A d \in Dir : mem.lastStop[t][d] <= now => mem.lastStop[t][d] <= now'
    BY <1>1, <1>4
  <2>2. \A d \in Dir : AtStopNow(t, d)' <=> AtStopNow(t, d)
    BY <1>1 DEF AtStopNow
  <2> QED BY <1>1, <1>7, <2>1, <2>2 DEF Leaves
<1>8. ToLeave'
  BY <1>1, <1>7 DEF BookInv, ToLeave
<1>9. LedgerTracksBook'
  BY <1>1 DEF BookInv, LedgerTracksBook, InFlight, Skew
<1> QED BY <1>2, <1>3, <1>5, <1>6, <1>8, <1>9 DEF BookInv
-----------------------------------------------------------------------------
(* The save.                                                                 *)

\* What the save of an entry and the save of a tick or review have in common:
\* the history of stops is the book's own.
LEMMA SaveStamps == ASSUME BookInv, Save PROVE stopped' = mem.lastStop
<1>1. /\ pc = "save" /\ job \in Jobs /\ stopped' = StoppedNow /\ stopped = disk.lastStop
      /\ IsBook(disk) /\ IsBook(mem)
  BY DEF BookInv, JobOK, Typed, Stamps, Save
<1>2. mem.lastStop \in [Tickers -> [Dir -> Int]] /\ disk.lastStop \in [Tickers -> [Dir -> Int]]
  BY <1>1, BookParts
<1>3. ASSUME NEW t \in Tickers, NEW d \in Dir
      PROVE  /\ AtStopNow(t, d) => mem.lastStop[t][d] # disk.lastStop[t][d]
             /\ ~AtStopNow(t, d) => mem.lastStop[t][d] = disk.lastStop[t][d]
  <2>1. CASE job \in {Tick, Review}
    <3>1. Leaves(t)
      BY <1>1, <2>1 DEF BookInv, ToLeave
    <3> QED BY <1>2, <3>1 DEF Leaves
  <2>2. CASE job \in Theses
    <3>1. /\ mem.pos[job.ticker] # Flat /\ mem.lastStop = disk.lastStop
          /\ \A u \in Tickers \ {job.ticker} : mem.pos[u] = disk.pos[u]
      BY <1>1, <2>2 DEF BookInv, ToEnter
    <3>2. ~AtStopNow(t, d)
      BY <3>1 DEF AtStopNow
    <3> QED BY <3>1, <3>2
  <2> QED BY <1>1, <2>1, <2>2 DEF Jobs
<1>4. \A t \in Tickers, d \in Dir : StoppedNow[t][d] = mem.lastStop[t][d]
  <2> SUFFICES ASSUME NEW t \in Tickers, NEW d \in Dir
               PROVE  StoppedNow[t][d] = mem.lastStop[t][d]
    OBVIOUS
  <2>1. StoppedNow[t][d] = IF AtStopNow(t, d)
                           THEN IF mem.lastStop[t][d] = disk.lastStop[t][d] THEN now
                                ELSE mem.lastStop[t][d]
                           ELSE stopped[t][d]
    BY DEF StoppedNow, AtStopNow
  <2> QED BY <1>1, <1>3, <2>1
<1>5. \A t \in Tickers : StoppedNow[t] = mem.lastStop[t]
  <2> SUFFICES ASSUME NEW t \in Tickers PROVE StoppedNow[t] = mem.lastStop[t] OBVIOUS
  <2>1. DOMAIN StoppedNow[t] = Dir /\ StoppedNow[t] = [d \in Dir |-> StoppedNow[t][d]]
    BY DEF StoppedNow
  <2> QED BY <1>2, <1>4, <2>1
<1>6. StoppedNow = [t \in Tickers |-> StoppedNow[t]]
  BY DEF StoppedNow
<1> QED BY <1>1, <1>2, <1>5, <1>6

\* The saves, before and after: what the copy keeps of the file's positions.
LEMMA SaveSteps ==
  ASSUME BookInv, Save, NEW t \in Tickers
  PROVE  /\ disk' = mem /\ now' = now
         /\ disk.pos[t] = Flat /\ mem.pos[t] # Flat =>
               /\ job \in Theses /\ job.ticker = t /\ ~disk.halted
               /\ now - disk.lastStop[t][mem.pos[t].dir] >= Cooldown
         /\ disk.pos[t] # Flat /\ mem.pos[t] # Flat =>
               /\ mem.pos[t].dir = disk.pos[t].dir
               /\ Tighter(mem.pos[t].dir, mem.pos[t].stop, disk.pos[t].stop) = mem.pos[t].stop
               /\ mem.lastStop[t][mem.pos[t].dir] = disk.lastStop[t][disk.pos[t].dir]
<1>1. pc = "save" /\ job \in Jobs /\ IsBook(disk) /\ disk' = mem /\ now' = now
  BY DEF BookInv, JobOK, Typed, Save
<1>2. disk.pos[t] # Flat => disk.pos[t].dir \in Dir /\ disk.pos[t].stop \in Int
  BY <1>1, BookParts
<1>3. CASE job \in {Tick, Review}
  <2>1. Leaves(t)
    BY <1>1, <1>3 DEF BookInv, ToLeave
  <2>2. disk.pos[t] # Flat /\ mem.pos[t] # Flat =>
            mem.lastStop[t][mem.pos[t].dir] = disk.lastStop[t][disk.pos[t].dir]
    BY <1>2, <2>1 DEF Leaves, AtStopNow
  <2> QED BY <1>1, <2>1, <2>2 DEF Leaves
<1>4. CASE job \in Theses
  <2>1. /\ ~disk.halted /\ disk.pos[job.ticker] = Flat /\ mem.pos[job.ticker].dir = job.dir
        /\ now - disk.lastStop[job.ticker][job.dir] >= Cooldown
        /\ mem.lastStop = disk.lastStop
        /\ \A u \in Tickers \ {job.ticker} : mem.pos[u] = disk.pos[u]
    BY <1>1, <1>4 DEF BookInv, ToEnter
  <2>2. CASE t = job.ticker
    BY <1>1, <1>4, <2>1, <2>2
  <2>3. CASE t # job.ticker
    <3>1. mem.pos[t] = disk.pos[t]
      BY <2>1, <2>3
    <3> QED BY <1>1, <1>2, <2>1, <3>1, TighterPicks
  <2> QED BY <2>2, <2>3
<1> QED BY <1>1, <1>3, <1>4 DEF Jobs

\* The file becomes the copy.
LEMMA SaveKeeps == ASSUME BookInv, Save PROVE BookInv'
<1>1. /\ pc = "save" /\ job \in Jobs /\ disk' = mem
      /\ UNCHANGED <<queue, marks, now, journal, crashes>>
      /\ IsBook(disk) /\ IsBook(mem) /\ Sound(mem) /\ Cooldown \in Nat /\ todo \subseteq Tickers
  BY BookAssumption DEF BookInv, JobOK, Typed, Save
<1>2. /\ job \in Theses <=> job.kind = "decide"
      /\ job \in Theses => job.ticker \in Tickers /\ job \notin {Tick, Review}
  <2>1. job \in Theses => job.kind = "decide" /\ job.ticker \in Tickers
    BY BookAssumption DEF Thesis
  <2>2. job.kind = "decide" => job \in Theses
    BY <1>1, JobKinds
  <2>3. Tick.kind = "tick" /\ Review.kind = "review"
    BY DEF Tick, Review
  <2> QED BY <2>1, <2>2, <2>3
<1>3. job \in Theses => pc' = "opened" /\ UNCHANGED <<mem, job, todo>>
  BY <1>2 DEF Save
<1>4. job \notin Theses => pc' = "idle" /\ mem' = FreshBook /\ todo' = {}
  BY <1>2 DEF Save, Idle
<1>5. IsBook(mem') /\ Sound(mem') /\ pc' \in {"opened", "idle"} /\ todo' \subseteq Tickers
  BY <1>1, <1>3, <1>4, FreshIsBook
<1>6. Typed'
  BY <1>1, <1>5 DEF BookInv, Typed
<1>7. Sound(disk)' /\ Sound(mem)'
  <2>1. Sound(disk')
    BY <1>1
  <2> QED BY <1>5, <2>1 DEF Sound, StopInside, ArmedInProfit
<1>8. Stamps'
  BY <1>1, SaveStamps DEF Stamps
<1>9. Rested'
  <2> SUFFICES ASSUME NEW t \in Tickers, mem.pos[t] # Flat
               PROVE  now - mem.lastStop[t][mem.pos[t].dir] >= Cooldown
    BY <1>1 DEF Rested
  <2>1. CASE disk.pos[t] = Flat
    <3>1. job \in Theses /\ now - disk.lastStop[t][mem.pos[t].dir] >= Cooldown
      BY <2>1, SaveSteps
    <3>2. mem.lastStop = disk.lastStop
      BY <1>1, <3>1 DEF BookInv, ToEnter
    <3> QED BY <3>1, <3>2
  <2>2. CASE disk.pos[t] # Flat
    <3>1. mem.lastStop[t][mem.pos[t].dir] = disk.lastStop[t][disk.pos[t].dir]
      BY <2>2, SaveSteps
    <3>2. now - disk.lastStop[t][disk.pos[t].dir] >= Cooldown
      BY <2>2 DEF BookInv, Rested
    <3> QED BY <3>1, <3>2
  <2> QED BY <2>1, <2>2
<1>10. JobOK' /\ Loaded' /\ ToEnter' /\ ToLeave' /\ Unvisited'
  BY <1>1, <1>3, <1>4, <1>5 DEF JobOK, Loaded, ToEnter, ToLeave, Unvisited
<1>11. LedgerTracksBook'
  <2> SUFFICES ASSUME NEW t \in Tickers
               PROVE  InFlight(t)' <= Skew(t)' /\ Skew(t)' <= crashes' + InFlight(t)'
    BY DEF LedgerTracksBook
  <2> DEFINE was == IF disk.pos[t] = Flat THEN 0 ELSE 1
             is == IF mem.pos[t] = Flat THEN 0 ELSE 1
  <2>1. Skew(t)' = Skew(t) - was + is /\ crashes' = crashes
    BY <1>1, LedgerOf DEF Skew
  <2>2. InFlight(t) = IF disk.pos[t] # Flat /\ mem.pos[t] = Flat THEN 1 ELSE 0
    BY <1>1 DEF InFlight
  <2>3. CASE job \in Theses
    <3>1. InFlight(t)' = IF job.ticker = t THEN 1 ELSE 0
      BY <1>3, <2>3 DEF InFlight
    <3>2. /\ disk.pos[job.ticker] = Flat /\ mem.pos[job.ticker] # Flat
          /\ \A u \in Tickers \ {job.ticker} : mem.pos[u] = disk.pos[u]
      BY <1>1, <2>3 DEF BookInv, ToEnter
    <3>3. crashes \in Nat
      BY DEF BookInv, Typed
    <3> QED BY <2>1, <2>2, <3>1, <3>2, <3>3, LedgerOf
  <2>4. CASE job \in {Tick, Review}
    <3>1. job \notin Theses /\ Leaves(t)
      BY <1>1, <1>2, <2>4 DEF BookInv, ToLeave
    <3>2. InFlight(t)' = 0
      BY <1>4, <3>1 DEF InFlight
    <3>3. disk.pos[t] = Flat => mem.pos[t] = Flat
      BY <3>1 DEF Leaves
    <3>4. crashes \in Nat
      BY DEF BookInv, Typed
    <3> QED BY <2>1, <2>2, <3>2, <3>3, <3>4, LedgerOf
  <2> QED BY <1>1, <2>3, <2>4 DEF Jobs
<1> QED BY <1>6, <1>7, <1>8, <1>9, <1>10, <1>11 DEF BookInv

\* One case per action.
LEMMA BookStep == ASSUME BookInv, [Next]_vars PROVE BookInv'
<1>1. CASE FastTick
  <2>1. PICK k \in 1..Len(queue) + 1 : Enqueue(k, Tick)
    BY <1>1 DEF FastTick
  <2> QED BY <2>1, EnqueueKeeps DEF Jobs
<1>2. CASE DailyReview
  <2>1. Len(queue) \in Nat
    BY DEF BookInv, Typed
  <2>2. End \in 1..Len(queue) + 1
    BY <2>1 DEF End
  <2> QED BY <1>2, <2>2, EnqueueKeeps DEF DailyReview, Jobs
<1>3. CASE \E th \in Theses : Analysed(th)
  <2>1. Len(queue) \in Nat
    BY DEF BookInv, Typed
  <2>2. End \in 1..Len(queue) + 1
    BY <2>1 DEF End
  <2> QED BY <1>3, <2>2, EnqueueKeeps DEF Analysed, Jobs
<1>4. CASE Work
  <2>1. CASE Start BY <2>1, StartKeeps
  <2>2. CASE Decide BY <2>2, DecideKeeps
  <2>3. CASE Decline \/ NothingHeld BY <2>3, QuitKeeps
  <2>4. CASE JournalOpen BY <2>4, JournalOpenKeeps
  <2>5. CASE Scan BY <2>5, ScanKeeps
  <2>6. CASE \E t \in Tickers : Visit(t) BY <2>6, VisitKeeps
  <2>7. CASE Reviewed BY <2>7, ReviewedKeeps
  <2>8. CASE Save BY <2>8, SaveKeeps
  <2> QED BY <1>4, <2>1, <2>2, <2>3, <2>4, <2>5, <2>6, <2>7, <2>8 DEF Work
<1>5. CASE \E t \in Tickers, px \in Px : Quote(t, px)
  BY <1>5, QuoteKeeps
<1>6. CASE Pass BY <1>6, PassKeeps
<1>7. CASE Crash BY <1>7, CrashKeeps
<1>8. CASE UNCHANGED vars
  <2>1. UNCHANGED <<disk, mem, job, pc, todo, queue, marks, now, journal, stopped, crashes>>
    BY <1>8 DEF vars, jobVars
  <2>2. Typed' /\ JobOK' /\ Sound(disk)' /\ Sound(mem)' /\ Rested'
    BY <2>1 DEF BookInv, Typed, JobOK, Sound, StopInside, ArmedInProfit, Rested
  <2>3. Stamps' /\ Loaded' /\ ToEnter' /\ Unvisited'
    BY <2>1 DEF BookInv, Stamps, Loaded, ToEnter, Unvisited
  <2>4. ToLeave' /\ LedgerTracksBook'
    BY <2>1 DEF BookInv, ToLeave, Leaves, AtStopNow, LedgerTracksBook, InFlight, Skew
  <2> QED BY <2>2, <2>3, <2>4 DEF BookInv
<1> QED BY <1>1, <1>2, <1>3, <1>4, <1>5, <1>6, <1>7, <1>8 DEF Next

\* The invariant holds in every reachable state.
LEMMA BookInvariant == Spec => []BookInv
<1>1. Init => BookInv
  BY InitBookInv
<1>2. BookInv /\ [Next]_vars => BookInv'
  BY BookStep
<1> QED BY <1>1, <1>2, PTL DEF Spec

-----------------------------------------------------------------------------
(* The results.                                                              *)

\* For all theses, marks, limits and queues, and across any number of crashes,
\* the ledger explains the book file up to the steps in flight and one entry
\* per crash (run-cycle.ts:460-468, 508-516).
THEOREM LedgerExplainsBook == Spec => []LedgerTracksBook
<1>1. BookInv => LedgerTracksBook
  BY DEF BookInv
<1> QED BY <1>1, BookInvariant, PTL

\* A long position's trail is armed only after its best mark has made half of
\* the target: the test of policy.ts:282 for a position bought.
THEOREM LongTrailsArmInProfit == Spec => []LongTrailArmsInProfit
<1>1. BookInv => LongTrailArmsInProfit
  BY BookParts DEF BookInv, Typed, Sound, ArmedInProfit, LongTrailArmsInProfit
<1> QED BY <1>1, BookInvariant, PTL

\* Only a save changes the book file.
LEMMA DiskOnlySaved == ASSUME [Next]_vars, ~Save PROVE disk' = disk
  BY DEF Next, Work, vars, jobVars, FastTick, DailyReview, Analysed, Enqueue, Start, Decide, Decline,
         JournalOpen, Scan, NothingHeld, Visit, Reviewed, Quote, Pass, Crash

\* Stops tighten only, whatever marks come in whatever order, whether the tick
\* or the review gets to a position first, and across restarts
\* (updateTrailingStop, policy.ts:363).
THEOREM StopsTighten == Spec => StopsOnlyTighten
<1> DEFINE Step == \A t \in Tickers : disk'.pos[t] # Flat =>
              LET p == disk'.pos[t] IN
              /\ Tighter(p.dir, p.stop, p.floor) = p.stop
              /\ ~Entered(t) => Tighter(p.dir, p.stop, disk.pos[t].stop) = p.stop
<1>1. BookInv /\ [Next]_vars => Step
  <2> SUFFICES ASSUME BookInv, [Next]_vars, NEW t \in Tickers, disk'.pos[t] # Flat
               PROVE  /\ Tighter(disk'.pos[t].dir, disk'.pos[t].stop, disk'.pos[t].floor)
                            = disk'.pos[t].stop
                      /\ ~Entered(t) =>
                            Tighter(disk'.pos[t].dir, disk'.pos[t].stop, disk.pos[t].stop)
                               = disk'.pos[t].stop
    OBVIOUS
  <2>1. BookInv'
    BY BookStep
  <2>2. Tighter(disk'.pos[t].dir, disk'.pos[t].stop, disk'.pos[t].floor) = disk'.pos[t].stop
    BY <2>1 DEF BookInv, Sound, StopInside
  <2>3. ASSUME ~Entered(t)
        PROVE  Tighter(disk'.pos[t].dir, disk'.pos[t].stop, disk.pos[t].stop) = disk'.pos[t].stop
    <3>1. disk.pos[t] # Flat
      BY <2>3 DEF Entered
    <3>2. CASE Save
      BY <3>1, <3>2, SaveSteps
    <3>3. CASE ~Save
      <4>1. disk' = disk
        BY <3>3, DiskOnlySaved
      <4>2. disk.pos[t].dir \in Dir /\ disk.pos[t].stop \in Int
        BY <3>1, BookParts DEF BookInv, Typed
      <4> QED BY <4>1, <4>2, TighterPicks
    <3> QED BY <3>2, <3>3
  <2> QED BY <2>2, <2>3
<1> HIDE DEF Step
<1>2. Spec => [][Step]_vars
  BY <1>1, BookInvariant, PTL DEF Spec
<1> QED BY <1>2 DEF StopsOnlyTighten, Step

\* No entry reaches the file of a halted book: the halt is written by the same
\* writer that checks it, so no analysis that was under way slips past it
\* (policy.ts:108, run-cycle.ts:376).
THEOREM HaltStopsEntries == Spec => EntriesRespectHalt
<1> DEFINE Step == \A t \in Tickers : Entered(t) => ~disk.halted
<1>1. BookInv /\ [Next]_vars => Step
  <2> SUFFICES ASSUME BookInv, [Next]_vars, NEW t \in Tickers, Entered(t) PROVE ~disk.halted
    OBVIOUS
  <2>1. Save
    BY DiskOnlySaved DEF Entered
  <2> QED BY <2>1, SaveSteps DEF Entered
<1> HIDE DEF Step
<1>2. Spec => [][Step]_vars
  BY <1>1, BookInvariant, PTL DEF Spec
<1> QED BY <1>2 DEF EntriesRespectHalt, Step

\* A ticker and direction that was stopped out is entered again only after the
\* cooldown, though the stamp lives in the file and the decision works on a copy
\* (policy.ts:122, run-cycle.ts:513).
THEOREM ReentryIsLate == Spec => ReentryWaits
<1> DEFINE Step == \A t \in Tickers : Entered(t) => now - stopped[t][disk'.pos[t].dir] >= Cooldown
<1>1. BookInv /\ [Next]_vars => Step
  <2> SUFFICES ASSUME BookInv, [Next]_vars, NEW t \in Tickers, Entered(t)
               PROVE  now - stopped[t][disk'.pos[t].dir] >= Cooldown
    OBVIOUS
  <2>1. Save
    BY DiskOnlySaved DEF Entered
  <2>2. stopped = disk.lastStop
    BY DEF BookInv, Stamps
  <2> QED BY <2>1, <2>2, SaveSteps DEF Entered
<1> HIDE DEF Step
<1>2. Spec => [][Step]_vars
  BY <1>1, BookInvariant, PTL DEF Spec
<1> QED BY <1>2 DEF ReentryWaits, Step

-----------------------------------------------------------------------------
(* Amounts.                                                                  *)

\* A position as it was ordered: a price was paid, the order was large enough.
FullPosition == [dir : Dir, entry : Nat \ {0}, size : Size, stop : Int, floor : Int,
                 base : Nat \ {0}, lo : Nat, hi : Nat, until : Nat,
                 extended : BOOLEAN, armed : BOOLEAN, best : Nat]
FullBook == [realized : Int, halted : BOOLEAN,
             pos : [Tickers -> FullPosition \cup {Flat}],
             lastStop : [Tickers -> [Dir -> Int]]]

AmountsOK == /\ disk \in FullBook /\ mem \in FullBook
             /\ job \in Theses \cup {Tick, Review, None}
             /\ stopped \in [Tickers -> [Dir -> Int]]

\* A mark, or the sign that there is none, is a number.
LEMMA MarkNat ==
  ASSUME marks \in [Tickers -> Px \cup {NoMark}], NEW t \in Tickers
  PROVE  marks[t] \in Nat
<1>1. marks[t] \in Px \cup {NoMark}
  OBVIOUS
<1>2. Px \subseteq Nat \ {0}
  BY PolicyAssumption
<1>3. CASE marks[t] \in Px
  BY <1>2, <1>3
<1> QED BY <1>1, <1>3 DEF NoMark

\* The profit of a position at a mark is a number of dollars.
LEMMA PnlInt ==
  ASSUME NEW p \in FullPosition, NEW mark \in Nat
  PROVE  Pnl(p, mark) \in Int
<1>1. p.entry \in Nat \ {0} /\ p.size \in Nat /\ p.dir \in {1, -1}
  BY DEF FullPosition, Size, Dir, Long, Short
<1>2. p.dir * (mark - p.entry) * p.size \in Int
  BY <1>1
<1> QED BY <1>1, <1>2 DEF Pnl

\* So is its notional, and both exist without a mark too.
LEMMA NotionalInt ==
  ASSUME NEW p \in FullPosition, NEW mark \in Nat
  PROVE  /\ MarkOr(p, mark) \in Nat /\ Pnl(p, MarkOr(p, mark)) \in Int
         /\ Notional(p, mark) \in Int /\ p.dir * Notional(p, mark) \in Int
<1>1. p.entry \in Nat \ {0} /\ p.size \in Nat /\ p.dir \in {1, -1}
  BY DEF FullPosition, Size, Dir, Long, Short
<1>2. MarkOr(p, mark) \in Nat
  BY <1>1 DEF MarkOr
<1>3. p.dir * p.size * MarkOr(p, mark) \in Int
  BY <1>1, <1>2
<1>4. Notional(p, mark) \in Int
  BY <1>1, <1>3 DEF Notional
<1> QED BY <1>1, <1>2, <1>4, PnlInt

\* The sums over a book: equity, gross and net are numbers of dollars.
LEMMA BookSums ==
  ASSUME NEW b \in FullBook, marks \in [Tickers -> Px \cup {NoMark}]
  PROVE  /\ Equity(b.realized, b.pos, marks) \in Int
         /\ Gross(b.pos, marks) \in Int
         /\ Net(b.pos, marks) \in Int
<1> DEFINE H == HeldIn(b.pos)
           pnl == [t \in H |-> Pnl(b.pos[t], MarkOr(b.pos[t], marks[t]))]
           gross == [t \in H |-> b.pos[t].dir * Notional(b.pos[t], marks[t])]
           net == [t \in H |-> Notional(b.pos[t], marks[t])]
<1>1. H = {t \in Tickers : b.pos[t] # Flat}
  BY DEF FullBook, HeldIn
<1>2. IsFiniteSet(H)
  BY <1>1, FS_Subset, PolicyAssumption
<1>3. ASSUME NEW t \in H
      PROVE  pnl[t] \in Int /\ gross[t] \in Int /\ net[t] \in Int
  <2>1. b.pos[t] \in FullPosition
    BY <1>1 DEF FullBook
  <2>2. marks[t] \in Nat
    BY <1>1, MarkNat
  <2> QED BY <2>1, <2>2, NotionalInt
<1> HIDE DEF H
<1>4. SumFunction(pnl) \in Int /\ SumFunction(gross) \in Int /\ SumFunction(net) \in Int
  <2>1. DOMAIN pnl = H /\ DOMAIN gross = H /\ DOMAIN net = H
    OBVIOUS
  <2> HIDE DEF pnl, gross, net
  <2> QED BY <1>2, <1>3, <2>1, SumInt DEF SumFunction
<1>5. b.realized \in Int /\ Capital \in Int
  BY PolicyAssumption DEF FullBook
<1>6. /\ Equity(b.realized, b.pos, marks) = Capital + b.realized + SumFunction(pnl)
      /\ Gross(b.pos, marks) = SumFunction(gross)
      /\ Net(b.pos, marks) = SumFunction(net)
  BY Zenon DEF Equity, Gross, Net, H
<1> HIDE DEF pnl, gross, net
<1> QED BY <1>4, <1>5, <1>6

\* The order's dollars are a number, whichever cap binds.
LEMMA EntrySizeInt ==
  ASSUME NEW d \in Dir, NEW mark \in Nat, NEW stop \in Int, stop # mark,
         NEW equity \in Int, NEW gross \in Int, NEW net \in Int
  PROVE  EntrySize(d, mark, stop, equity, gross, net) \in Int
<1> DEFINE gap == Larger(mark - stop, stop - mark)
           headroom == IF d = Long THEN equity * NetCapPct - 100 * net
                                   ELSE equity * NetCapPct + 100 * net
           c1 == (equity * RiskPct * mark) \div (100 * gap)
           c2 == (equity * TierCapPct) \div 100
           c3 == Larger(0, equity * GrossCapPct - 100 * gross) \div 100
           c4 == Larger(0, headroom) \div 100
<1> USE PolicyAssumption
<1>1. gap \in Nat \ {0}
  BY DEF Larger
<1>2. c1 \in Int
  <2>1. equity * RiskPct * mark \in Int
    OBVIOUS
  <2>2. 100 * gap \in Nat \ {0}
    BY <1>1
  <2> HIDE DEF gap
  <2> QED BY <2>1, <2>2
<1>3. c2 \in Int
  OBVIOUS
<1>4. c3 \in Int
  <2>1. equity * GrossCapPct - 100 * gross \in Int
    OBVIOUS
  <2> QED BY <2>1 DEF Larger
<1>5. c4 \in Int
  <2>1. headroom \in Int
    OBVIOUS
  <2> HIDE DEF headroom
  <2> QED BY <2>1 DEF Larger
<1>6. EntrySize(d, mark, stop, equity, gross, net) = Min({c1, c2, c3, c4})
  BY Zenon DEF EntrySize
<1> HIDE DEF c1, c2, c3, c4
<1>7. \E x \in {c1, c2, c3, c4} : \A y \in {c1, c2, c3, c4} : x <= y
  BY <1>2, <1>3, <1>4, <1>5
<1>8. Min({c1, c2, c3, c4}) \in {c1, c2, c3, c4}
  BY <1>7 DEF Min
<1> QED BY <1>2, <1>3, <1>4, <1>5, <1>6, <1>8

\* A paper fill is a price.
LEMMA FillPositive ==
  ASSUME NEW d \in Dir, NEW mark \in Px
  PROVE  FillPx(d, mark) \in Nat \ {0}
<1>1. mark \in Nat \ {0} /\ SlipPct \in 0..99
  BY PolicyAssumption
<1>2. mark * (100 - SlipPct) >= 100
  BY FillAssumption
<1> DEFINE x == mark * (100 + d * SlipPct)
<1>3. x \in Int /\ x >= 100
  <2>1. CASE d = Short
    BY <1>1, <1>2, <2>1 DEF Short
  <2>2. CASE d = Long
    <3>1. x = mark * (100 - SlipPct) + 2 * (mark * SlipPct)
      BY <1>1, <2>2 DEF Long
    <3>2. mark * SlipPct \in Nat /\ mark * (100 - SlipPct) \in Int
      BY <1>1
    <3> QED BY <1>2, <3>1, <3>2
  <2> QED BY <2>1, <2>2 DEF Dir
<1> HIDE DEF x
<1>4. x \div 100 \in Int /\ x \div 100 >= 1
  BY <1>3
<1> QED BY <1>4 DEF FillPx, x

\* An order that is placeable makes a full position (decideEntry, openPaper).
LEMMA OrderIsFull ==
  ASSUME NEW b \in FullBook, NEW th \in Theses, NEW dist \in StopDists, NEW base \in Baselines(th),
         marks \in [Tickers -> Px \cup {NoMark}], now \in Nat, marks[th.ticker] # NoMark,
         Placeable(b, th, dist)
  PROVE  Order(b, th, dist, base) \in FullPosition
<1> DEFINE mark == marks[th.ticker]
           stop == StopAt(th.dir, mark, dist)
           size == EntrySize(th.dir, mark, stop, Equity(b.realized, b.pos, marks),
                             Gross(b.pos, marks), Net(b.pos, marks))
           fill == FillPx(th.dir, mark)
<1>1. th \in Thesis /\ dist \in 1..99 /\ Horizon \in Nat
  BY BookAssumption
<1>2. th.ticker \in Tickers /\ th.dir \in Dir /\ th.lo \in Nat /\ th.hi \in Nat
  BY <1>1 DEF Thesis
<1>3. mark \in Px /\ mark \in Nat \ {0} /\ base \in Nat \ {0}
  BY <1>2, PolicyAssumption, BookAssumption DEF Baselines, NoMark
<1>4. stop \in Int /\ StopAt(th.dir, mark, HardStopPct) \in Int /\ stop # mark
  BY <1>1, <1>2, <1>3, StopInsideFloor, PolicyAssumption DEF Placeable
<1>5. fill \in Nat \ {0}
  BY <1>2, <1>3, FillPositive
<1>6. size \in Int
  BY <1>2, <1>3, <1>4, BookSums, EntrySizeInt
<1>7. /\ Order(b, th, dist, base) =
            [dir |-> th.dir, entry |-> fill, size |-> size, stop |-> stop,
             floor |-> StopAt(th.dir, mark, HardStopPct), base |-> base,
             lo |-> th.lo, hi |-> th.hi, until |-> now + Horizon,
             extended |-> FALSE, armed |-> FALSE, best |-> fill]
      /\ Order(b, th, dist, mark).size = size
  BY DEF Order
<1>8. size \in Size
  <2>1. size >= MinTrade /\ MinTrade \in Nat
    BY <1>7, PolicyAssumption DEF Placeable
  <2> HIDE DEF size
  <2> QED BY <1>6, <2>1 DEF Size
<1> HIDE DEF mark, stop, size, fill
<1> QED BY <1>1, <1>2, <1>3, <1>4, <1>5, <1>7, <1>8 DEF FullPosition

\* A trailed position stays one (updateTrailingStop).
LEMMA TrailedIsFull ==
  ASSUME NEW p \in FullPosition, NEW mark \in Nat
  PROVE  Trailed(p, mark, p.dir * RawMovePct(p.base, mark)) \in FullPosition
<1> DEFINE raw == RawMovePct(p.base, mark)
           best == Tighter(p.dir, p.best, mark)
           arms == p.armed \/ 2 * (p.dir * raw) * p.dir >= p.hi
           trail == best - p.dir * ((5 * Atr) \div 2)
           stop == IF arms THEN Tighter(p.dir, p.stop, trail) ELSE p.stop
<1>1. /\ p.dir \in Dir /\ p.best \in Nat /\ p.stop \in Int /\ p.armed \in BOOLEAN
  BY DEF FullPosition
<1>2. best \in Nat
  BY <1>1 DEF Tighter, Larger, Smaller
<1>3. trail \in Int
  <2>1. (5 * Atr) \div 2 \in Int
    BY PolicyAssumption
  <2> HIDE DEF best
  <2> QED BY <1>1, <1>2, <2>1 DEF Dir, Long, Short
<1>4. arms \in BOOLEAN
  BY <1>1
<1>5. stop \in Int
  <2> HIDE DEF trail, arms
  <2> QED BY <1>1, <1>3, TighterPicks
<1>6. Trailed(p, mark, p.dir * raw) = [p EXCEPT !.best = best, !.armed = arms, !.stop = stop]
  BY Zenon DEF Trailed
<1> HIDE DEF best, arms, stop
<1> QED BY <1>2, <1>4, <1>5, <1>6 DEF FullPosition

\* The profits of the positions that are closed add up (closePosition).
LEMMA ClosedIsFull ==
  ASSUME NEW b \in FullBook, NEW ts, NEW stops, ts \subseteq Held(b), stops \subseteq ts,
         marks \in [Tickers -> Px \cup {NoMark}], now \in Nat
  PROVE  Closed(b, ts, stops) \in FullBook
<1> DEFINE pnl == [t \in ts |-> Pnl(b.pos[t], marks[t])]
           pos == [t \in Tickers |-> IF t \in ts THEN Flat ELSE b.pos[t]]
           last == [t \in Tickers |-> IF t \in stops THEN [b.lastStop[t] EXCEPT ![b.pos[t].dir] = now]
                                                      ELSE b.lastStop[t]]
<1>1. Held(b) = {t \in Tickers : b.pos[t] # Flat}
  BY DEF FullBook, Held, HeldIn
<1>2. ts \in SUBSET Tickers
  BY <1>1
<1>3. SumFunction(pnl) \in Int
  <2>1. IsFiniteSet(ts)
    BY <1>2, FS_Subset, PolicyAssumption
  <2>2. ASSUME NEW t \in ts PROVE pnl[t] \in Int
    <3>1. b.pos[t] \in FullPosition
      BY <1>1 DEF FullBook
    <3>2. marks[t] \in Nat
      BY <1>2, MarkNat
    <3> QED BY <3>1, <3>2, PnlInt
  <2>3. DOMAIN pnl = ts
    OBVIOUS
  <2> HIDE DEF pnl
  <2> QED BY <2>1, <2>2, <2>3, SumInt DEF SumFunction
<1>4. pos \in [Tickers -> FullPosition \cup {Flat}]
  BY DEF FullBook
<1>5. last \in [Tickers -> [Dir -> Int]]
  <2>1. b.lastStop \in [Tickers -> [Dir -> Int]] /\ now \in Int
    BY DEF FullBook
  <2>2. \A t \in Tickers : [b.lastStop[t] EXCEPT ![b.pos[t].dir] = now] \in [Dir -> Int]
    BY <2>1
  <2> QED BY <2>1, <2>2
<1>6. b.realized \in Int
  BY DEF FullBook
<1>7. b.realized + SumFunction(pnl) \in Int
  <2> HIDE DEF pnl
  <2> QED BY <1>3, <1>6
<1>8. Closed(b, ts, stops) =
        [b EXCEPT !.realized = b.realized + SumFunction(pnl), !.pos = pos, !.lastStop = last]
  BY Zenon DEF Closed
<1> HIDE DEF pnl, pos, last
<1> QED BY <1>4, <1>5, <1>7, <1>8 DEF FullBook

\* A book with a position put into it, and one whose positions are trailed.
LEMMA PutIsFull ==
  ASSUME NEW b \in FullBook, NEW t \in Tickers, NEW p \in FullPosition
  PROVE  [b EXCEPT !.pos[t] = p] \in FullBook
BY DEF FullBook

\* The fresh book holds no amounts.
LEMMA FreshIsFull == FreshBook \in FullBook
BY BookAssumption DEF FreshBook, FullBook, Never

\* What a tick leaves of its copy.
LEMMA ScanIsFull ==
  ASSUME mem \in FullBook, marks \in [Tickers -> Px \cup {NoMark}], now \in Nat, Scan
  PROVE  mem' \in FullBook
<1> DEFINE live == {t \in Held(mem) : marks[t] # NoMark}
           out == {t \in live : StoppedOut(mem.pos[t], marks[t])}
           after == Closed(mem, out, out)
           move(t) == mem.pos[t].dir * RawMovePct(mem.pos[t].base, marks[t])
           trailed(t) == Trailed(mem.pos[t], marks[t], move(t))
           halts == AtHaltLine(mem.realized, mem.pos, marks)
<1>1. PICK cached \in SUBSET (live \ out) :
         mem' = [after EXCEPT
               !.halted = @ \/ halts,
               !.pos = [t \in Tickers |-> IF t \in cached THEN trailed(t) ELSE @[t]]]
  BY Zenon DEF Scan
<1>2. Held(mem) = {t \in Tickers : mem.pos[t] # Flat}
  BY DEF FullBook, Held, HeldIn
<1>3. after \in FullBook
  <2>1. out \subseteq Held(mem)
    OBVIOUS
  <2> HIDE DEF out
  <2> QED BY <2>1, ClosedIsFull
<1>4. ASSUME NEW t \in cached PROVE trailed(t) \in FullPosition
  <2>1. t \in Tickers /\ mem.pos[t] \in FullPosition
    BY <1>2 DEF FullBook
  <2>2. marks[t] \in Nat
    BY <2>1, MarkNat
  <2> QED BY <2>1, <2>2, TrailedIsFull
<1> HIDE DEF out, trailed, after, halts
<1>5. halts \in BOOLEAN
  BY DEF halts, AtHaltLine
<1> QED BY <1>1, <1>3, <1>4, <1>5 DEF FullBook

\* What a visit of the review leaves of its copy.
LEMMA VisitIsFull ==
  ASSUME mem \in FullBook, marks \in [Tickers -> Px \cup {NoMark}], now \in Nat, Unvisited,
         NEW t \in Tickers, Visit(t)
  PROVE  mem' \in FullBook
<1>1. mem.pos[t] # Flat /\ t \in Held(mem) /\ mem.pos[t] \in FullPosition
  BY DEF Visit, Unvisited, FullBook, Held, HeldIn
<1> DEFINE track == IF marks[t] = NoMark THEN "hold" ELSE ReviewTrack(mem.pos[t], marks[t], now)
           p == mem.pos[t]
<1>2. CASE track = "hold"
  <2>1. mem' = mem
    BY <1>2 DEF Visit
  <2> QED BY <2>1
<1>3. CASE track = "extend"
  <2> DEFINE longer == [p EXCEPT !.until = @ + Horizon, !.extended = TRUE]
  <2>1. mem' = [mem EXCEPT !.pos[t] = longer]
    BY <1>3 DEF Visit
  <2>2. longer \in FullPosition
    <3>1. p.until + Horizon \in Nat
      BY <1>1, BookAssumption DEF FullPosition
    <3> QED BY <1>1, <3>1 DEF FullPosition
  <2> HIDE DEF longer
  <2> QED BY <2>1, <2>2, PutIsFull
<1>4. CASE track \notin {"hold", "extend"}
  <2>1. PICK stops \in SUBSET {t} : mem' = Closed(mem, {t}, stops)
    BY <1>4 DEF Visit
  <2> QED BY <1>1, <2>1, ClosedIsFull
<1> QED BY <1>2, <1>3, <1>4

\* Every step keeps the amounts in their types.
LEMMA AmountsStep == ASSUME BookInv, AmountsOK, [Next]_vars PROVE AmountsOK'
<1> USE DEF AmountsOK
<1>0. marks \in [Tickers -> Px \cup {NoMark}] /\ now \in Nat /\ queue \in Seq(Jobs)
  BY DEF BookInv, Typed
<1>1. CASE FastTick \/ DailyReview \/ (\E th \in Theses : Analysed(th))
           \/ (\E t \in Tickers, px \in Px : Quote(t, px)) \/ Pass
  BY <1>1 DEF FastTick, DailyReview, Analysed, Enqueue, Quote, Pass, jobVars
<1>2. CASE Start
  <2>1. job' \in Jobs
    BY <1>0, <1>2 DEF Start
  <2> QED BY <1>2, <2>1 DEF Start, Jobs
<1>3. CASE Decide
  <2>1. job \in Theses /\ job.ticker \in Tickers
    BY <1>3, BookAssumption DEF BookInv, JobOK, Decide, Thesis
  <2>2. PICK base \in Baselines(job), dist \in StopDists :
           /\ Placeable(mem, job, dist)
           /\ mem' = [mem EXCEPT !.pos[job.ticker] = Order(mem, job, dist, base)]
    BY <1>3, Zenon DEF Decide
  <2>3. Order(mem, job, dist, base) \in FullPosition
    <3>1. marks[job.ticker] # NoMark
      BY <1>3 DEF Decide, Admitted
    <3> QED BY <1>0, <2>1, <2>2, <3>1, OrderIsFull
  <2>4. mem' \in FullBook
    BY <2>1, <2>2, <2>3, PutIsFull
  <2> QED BY <1>3, <2>4 DEF Decide
<1>4. CASE Decline \/ NothingHeld \/ JournalOpen \/ Crash
  BY <1>4, FreshIsFull DEF Decline, NothingHeld, JournalOpen, Crash, Idle
<1>5. CASE Scan
  <2>1. mem' \in FullBook
    BY <1>0, <1>5, ScanIsFull
  <2> QED BY <1>5, <2>1 DEF Scan
<1>6. ASSUME NEW t \in Tickers, Visit(t) PROVE AmountsOK'
  <2>1. mem' \in FullBook
    BY <1>0, <1>6, VisitIsFull DEF BookInv
  <2> QED BY <1>6, <2>1 DEF Visit
<1>7. CASE Reviewed
  BY <1>7 DEF Reviewed
<1>8. CASE Save
  <2>1. mem' \in FullBook /\ job' \in Theses \cup {Tick, Review, None} /\ disk' = mem
    BY <1>8, FreshIsFull DEF Save, Idle
  <2>2. StoppedNow \in [Tickers -> [Dir -> Int]]
    <3>1. \A t \in Tickers, d \in Dir : mem.lastStop[t][d] \in Int /\ stopped[t][d] \in Int
      BY DEF FullBook
    <3> QED BY <1>0, <3>1 DEF StoppedNow
  <2> QED BY <1>8, <2>1, <2>2 DEF Save
<1>9. CASE UNCHANGED vars
  BY <1>9 DEF vars, jobVars
<1> QED BY <1>1, <1>2, <1>3, <1>4, <1>5, <1>6, <1>7, <1>8, <1>9 DEF Next, Work

\* The book is well typed for all theses, marks and limits: profits, prices and
\* sizes are whole numbers, no position is smaller than the smallest order
\* (policy.ts 265) and none was entered at a price of nothing.
THEOREM BookTyped == Spec => []TypeOK
<1>1. Init => AmountsOK
  <2>1. \A t \in Tickers : FreshBook.lastStop[t] \in [Dir -> Int]
    BY FreshIsFull DEF FullBook
  <2> QED BY <2>1, FreshIsFull DEF Init, AmountsOK, FullBook
<1>2. BookInv /\ AmountsOK /\ [Next]_vars => AmountsOK'
  BY AmountsStep
<1>3. BookInv /\ AmountsOK => TypeOK
  <2> SUFFICES ASSUME BookInv, AmountsOK PROVE TypeOK OBVIOUS
  <2>1. FullPosition \subseteq Position
    BY DEF FullPosition, Position
  <2>2. FullBook \subseteq Book
    BY <2>1 DEF FullBook, Book
  <2> QED BY <2>2 DEF AmountsOK, BookInv, Typed, TypeOK, Jobs
<1> QED BY <1>1, <1>2, <1>3, BookInvariant, PTL DEF Spec
=============================================================================
