----------------------------- MODULE TradeDeskProofs ------------------------------
(***************************************************************************)
(* What the trading path keeps for any number of tokens, cycles, plans and *)
(* faults: a decision is filled once, twice at most after a crash, and     *)
(* after a halt nothing is bought.  Then its dollars, which are sums over  *)
(* the tokens: their types, the caps of a cycle, the cash of the books     *)
(* against the venue's, and the drawdown that halts.                       *)
(***************************************************************************)
EXTENDS TradeDesk, FiniteSums

IsTrade(j) == j.kind = "trade"
Waiting == 1..Len(queue)

\* How often a decision may be filled.
Limit == IF "crash" \in faults THEN 2 ELSE 1

\* A job that is going to send an order may still do so.
Fillable(j) == IsTrade(j) => executed[j.id] + 1 <= Limit

\* A job carries an id that was handed out.
Numbered(j) == IsTrade(j) => j.id \in 1..nextId - 1

\* Two jobs are of different decisions.
Apart(j, k) == IsTrade(j) /\ IsTrade(k) => j.id # k.id

Shapes == /\ \E S : queue \in Seq(S)
          /\ nextId \in 1..MaxIds + 1
          /\ executed \in [Ids -> Nat]
          /\ pc = "idle" => job = None
          /\ pc = "order" => IsTrade(job)

Ids1 == /\ \A k \in Waiting : Numbered(queue[k])
        /\ Numbered(stalled) /\ Numbered(job)
Ids2 == /\ \A k, l \in Waiting : k # l => Apart(queue[k], queue[l])
        /\ \A k \in Waiting : Apart(queue[k], stalled) /\ Apart(queue[k], job)
        /\ Apart(stalled, job)

Counts == /\ \A i \in Ids : executed[i] <= Limit
          /\ \A i \in Ids : i >= nextId => executed[i] = 0
          /\ \A k \in Waiting : Fillable(queue[k])
          /\ Fillable(stalled)
          /\ pc = "order" => Fillable(job)

\* After the worker's halt the status says so and no open is about to be sent.
SealHolds == sealed => /\ status = "halted"
                       /\ pc = "order" => ~Buys(job)

DeskInv == Shapes /\ Ids1 /\ Ids2 /\ Counts /\ SealHolds
-----------------------------------------------------------------------------
(* Steps that leave the jobs alone.                                          *)

\* More faults only raise the limit.
LEMMA LimitGrows ==
  ASSUME faults \subseteq faults'
  PROVE  Limit \in Nat /\ Limit' \in Nat /\ Limit <= Limit'
  BY DEF Limit

\* Nothing has been queued yet.
LEMMA InitDeskInv == DeskInit => DeskInv
<1> SUFFICES ASSUME DeskInit PROVE DeskInv OBVIOUS
<1> USE DEF DeskInit, Init
<1>1. Len(queue) = 0 /\ Waiting = {}
  BY DEF Waiting
<1>2. ~IsTrade(None)
  BY DEF IsTrade, None
<1>3. Shapes
  <2>1. queue \in Seq({})
    OBVIOUS
  <2> QED BY <2>1, ExecutorAssumption DEF Shapes, Ids
<1>4. Ids1 /\ Ids2
  BY <1>1, <1>2 DEF Ids1, Ids2, Numbered, Apart
<1>5. Counts
  BY <1>1, <1>2 DEF Counts, Limit, Fillable
<1>6. SealHolds
  BY DEF SealHolds
<1> QED BY <1>3, <1>4, <1>5, <1>6 DEF DeskInv

\* A step inside a job, or outside of the queue altogether.
LEMMA QuietKeeps ==
  ASSUME DeskInv, UNCHANGED <<queue, stalled, job, executed, nextId>>,
         faults \subseteq faults', pc' = "order" => pc = "order", pc' = "idle" => job = None,
         sealed' => sealed /\ status' = "halted"
  PROVE  DeskInv'
<1>1. Shapes' /\ Ids1' /\ Ids2' /\ SealHolds'
  BY DEF DeskInv, Shapes, Ids1, Ids2, SealHolds, Waiting, Numbered, Apart, Buys
<1>2. \A i \in Ids : executed[i] \in Nat
  BY DEF DeskInv, Shapes
<1>3. \A j : Fillable(j) /\ Numbered(j) => Fillable(j)'
  BY <1>2, LimitGrows, ExecutorAssumption DEF Fillable, Numbered, DeskInv, Shapes, Ids
<1>4. Counts'
  <2>1. \A i \in Ids : executed[i] <= Limit'
    BY <1>2, LimitGrows DEF DeskInv, Counts
  <2>2. \A i \in Ids : i >= nextId => executed[i] = 0
    BY DEF DeskInv, Counts
  <2>3. (\A k \in Waiting : Fillable(queue[k])')
    BY <1>3 DEF DeskInv, Counts, Ids1
  <2>4. Fillable(stalled)'
    BY <1>3 DEF DeskInv, Counts, Ids1
  <2>5. pc = "order" => Fillable(job)'
    BY <1>3 DEF DeskInv, Counts, Ids1
  <2> QED BY <2>1, <2>2, <2>3, <2>4, <2>5 DEF Counts, Waiting
<1> QED BY <1>1, <1>4 DEF DeskInv

\* A job ends; no other starts.
LEMMA EndKeeps ==
  ASSUME DeskInv, Idle, UNCHANGED <<queue, stalled, executed, nextId>>,
         faults \subseteq faults', sealed' => status' = "halted"
  PROVE  DeskInv'
<1>1. job' = None /\ pc' = "idle" /\ ~IsTrade(None)
  BY DEF Idle, IsTrade, None
<1>2. Shapes' /\ Ids1' /\ Ids2' /\ SealHolds'
  BY <1>1 DEF DeskInv, Shapes, Ids1, Ids2, SealHolds, Waiting, Numbered, Apart
<1>3. \A i \in Ids : executed[i] \in Nat
  BY DEF DeskInv, Shapes
<1>4. \A j : Fillable(j) /\ Numbered(j) => Fillable(j)'
  BY <1>3, LimitGrows, ExecutorAssumption DEF Fillable, Numbered, DeskInv, Shapes, Ids
<1>5. Counts'
  <2>1. \A i \in Ids : executed[i] <= Limit'
    BY <1>3, LimitGrows DEF DeskInv, Counts
  <2>2. \A i \in Ids : i >= nextId => executed[i] = 0
    BY DEF DeskInv, Counts
  <2>3. (\A k \in Waiting : Fillable(queue[k])')
    BY <1>4 DEF DeskInv, Counts, Ids1
  <2>4. Fillable(stalled)'
    BY <1>4 DEF DeskInv, Counts, Ids1
  <2> QED BY <1>1, <2>1, <2>2, <2>3, <2>4 DEF Counts, Waiting
<1> QED BY <1>2, <1>5 DEF DeskInv

\* The order is sent and may fill: the job's own count goes up, and no other job
\* is of the same decision.
LEMMA SendKeeps == ASSUME DeskInv, SendOrder, UNCHANGED desk PROVE DeskInv'
<1>1. /\ pc = "order" /\ pc' = "upsert" /\ IsTrade(job) /\ Fillable(job)
      /\ UNCHANGED <<queue, stalled, job, nextId, sealed, status>>
  BY DEF DeskInv, Shapes, Counts, SendOrder, jobs, books, desk
<1>2. faults \subseteq faults'
  BY DEF SendOrder, Order
<1>3. /\ executed \in [Ids -> Nat] /\ job.id \in Ids /\ nextId \in Nat /\ job.id < nextId
      /\ executed[job.id] + 1 <= Limit
  BY <1>1, ExecutorAssumption DEF DeskInv, Shapes, Ids, Ids1, Numbered, Fillable
<1>4. executed' = executed \/ executed' = [executed EXCEPT ![job.id] = @ + 1]
  BY DEF SendOrder
<1>5. /\ executed' \in [Ids -> Nat]
      /\ \A i \in Ids : i # job.id => executed'[i] = executed[i]
      /\ executed'[job.id] <= Limit
  BY <1>3, <1>4, LimitGrows, <1>2
<1>6. Shapes' /\ Ids1' /\ Ids2' /\ SealHolds'
  BY <1>1, <1>5 DEF DeskInv, Shapes, Ids1, Ids2, SealHolds, Waiting, Numbered, Apart
<1>7. \A j : Fillable(j) /\ Numbered(j) /\ Apart(j, job) => Fillable(j)'
  <2> SUFFICES ASSUME NEW j, Fillable(j), Numbered(j), Apart(j, job), IsTrade(j)
               PROVE  executed'[j.id] + 1 <= Limit'
    BY DEF Fillable
  <2>1. j.id \in Ids /\ j.id # job.id
    BY <1>1, ExecutorAssumption DEF Numbered, Apart, DeskInv, Shapes, Ids
  <2>2. executed'[j.id] = executed[j.id] /\ executed[j.id] \in Nat /\ executed[j.id] + 1 <= Limit
    BY <1>3, <1>5, <2>1 DEF Fillable
  <2> QED BY <1>2, <2>2, LimitGrows
<1>8. Counts'
  <2>1. ASSUME NEW i \in Ids PROVE executed'[i] <= Limit'
    <3>1. executed[i] <= Limit /\ executed[i] \in Nat /\ executed'[i] \in Nat
      BY <1>3, <1>5 DEF DeskInv, Counts
    <3> QED BY <1>2, <1>5, <3>1, LimitGrows
  <2>2. \A i \in Ids : i >= nextId => executed'[i] = 0
    BY <1>3, <1>5 DEF DeskInv, Counts, Ids
  <2>3. (\A k \in Waiting : Fillable(queue[k])')
    BY <1>1, <1>7 DEF DeskInv, Counts, Ids1, Ids2
  <2>4. Fillable(stalled)'
    BY <1>1, <1>7 DEF DeskInv, Counts, Ids1, Ids2, Apart
  <2> QED BY <1>1, <2>1, <2>2, <2>3, <2>4 DEF Counts, Waiting
<1> QED BY <1>6, <1>8 DEF DeskInv

\* The worker takes the first job: what it leaves in the queue keeps its order.
LEMMA TailParts ==
  ASSUME DeskInv, Take
  PROVE  /\ \E S : queue' \in Seq(S)
         /\ Len(queue) \in Nat \ {0} /\ Len(queue') = Len(queue) - 1
         /\ Head(queue) = queue[1] /\ 1 \in Waiting
         /\ \A k \in Waiting' : /\ k + 1 \in Waiting /\ k + 1 # 1
                                /\ queue'[k] = queue[k + 1]
<1>1. PICK S : queue \in Seq(S)
  BY DEF DeskInv, Shapes
<1>2. queue # <<>> /\ queue' = Tail(queue)
  BY DEF Take
<1>3. /\ queue' \in Seq(S) /\ Len(queue) \in Nat \ {0} /\ Len(queue') = Len(queue) - 1
      /\ Head(queue) = queue[1]
  BY <1>1, <1>2
<1>4. \A k \in Waiting' : k + 1 \in Waiting /\ k + 1 # 1 /\ queue'[k] = queue[k + 1]
  BY <1>1, <1>2, <1>3 DEF Waiting
<1> QED BY <1>3, <1>4 DEF Waiting

\* A job is started, or a rejected open is dropped.
LEMMA TakeKeeps ==
  ASSUME DeskInv, Take, UNCHANGED <<executed, nextId, sealed, status>>,
         faults \subseteq faults',
         \/ job' = Head(queue) /\ pc' # "idle"
         \/ job' = job /\ pc' = pc,
         pc' = "order" => IsTrade(job') /\ (sealed => ~Buys(job'))
  PROVE  DeskInv'
<1>1. pc = "idle" /\ job = None /\ stalled' = stalled /\ ~IsTrade(None)
  BY DEF DeskInv, Shapes, Take, IsTrade, None
<1>2. job' = queue[1] \/ job' = None
  BY <1>1, TailParts
<1>3. Shapes'
  BY <1>1, TailParts DEF DeskInv, Shapes
<1>4. Ids1'
  BY <1>1, <1>2, TailParts DEF DeskInv, Ids1, Numbered
<1>5. Ids2'
  <2>1. \A k, l \in Waiting' : k # l => Apart(queue'[k], queue'[l])
    <3> SUFFICES ASSUME NEW k \in Waiting', NEW l \in Waiting', k # l
                 PROVE  Apart(queue'[k], queue'[l])
      OBVIOUS
    <3>1. k \in Int /\ l \in Int /\ k + 1 # l + 1
      BY DEF Waiting
    <3> QED BY <3>1, TailParts DEF DeskInv, Ids2
  <2>2. \A k \in Waiting' : Apart(queue'[k], stalled) /\ Apart(queue'[k], job')
    BY <1>1, <1>2, TailParts DEF DeskInv, Ids2, Apart
  <2>3. Apart(stalled, job')
    BY <1>1, <1>2, TailParts DEF DeskInv, Ids2, Apart
  <2> QED BY <1>1, <2>1, <2>2, <2>3 DEF Ids2, Apart
<1>6. \A i \in Ids : executed[i] \in Nat
  BY DEF DeskInv, Shapes
<1> DEFINE StillFillable(j) == IsTrade(j) => executed'[j.id] + 1 <= Limit'
<1>7. \A j : Fillable(j) /\ Numbered(j) => StillFillable(j)
  BY <1>6, LimitGrows, ExecutorAssumption DEF Fillable, Numbered, DeskInv, Shapes, Ids
<1> HIDE DEF StillFillable
<1>8. Counts'
  <2>1. \A i \in Ids : executed[i] <= Limit'
    BY <1>6, LimitGrows DEF DeskInv, Counts
  <2>2. \A i \in Ids : i >= nextId => executed[i] = 0
    BY DEF DeskInv, Counts
  <2>3. \A k \in Waiting : StillFillable(queue[k])
    BY <1>7 DEF DeskInv, Counts, Ids1
  <2>4. StillFillable(stalled)
    BY <1>7 DEF DeskInv, Counts, Ids1
  <2>5. StillFillable(job')
    BY <1>1, <1>2, <2>3, TailParts DEF StillFillable
  <2>6. \A k \in Waiting' : StillFillable(queue'[k])
    BY <2>3, TailParts
  <2> QED BY <1>1, <2>1, <2>2, <2>4, <2>5, <2>6 DEF Counts, Fillable, StillFillable
<1>9. SealHolds'
  BY DEF DeskInv, SealHolds, Buys
<1> QED BY <1>3, <1>4, <1>5, <1>8, <1>9 DEF DeskInv

\* A job is added at the end, of a fresh decision if it is a trade.
LEMMA AppendKeeps ==
  ASSUME DeskInv, NEW j, queue' = Append(queue, j), nextId' \in 1..MaxIds + 1,
         \/ nextId' = nextId /\ ~IsTrade(j)
         \/ nextId' = nextId + 1 /\ j.id = nextId,
         UNCHANGED <<stalled, job, pc, executed, status, sealed>>, faults \subseteq faults'
  PROVE  DeskInv'
<1>1. PICK S : queue \in Seq(S)
  BY DEF DeskInv, Shapes
<1>2. /\ queue \in Seq(S \cup {j}) /\ queue' \in Seq(S \cup {j})
      /\ Len(queue) \in Nat /\ Len(queue') = Len(queue) + 1
  BY <1>1
<1>3. /\ \A k \in Waiting : queue'[k] = queue[k]
      /\ queue'[Len(queue) + 1] = j
      /\ Waiting' = Waiting \cup {Len(queue) + 1} /\ Len(queue) + 1 \notin Waiting
  BY <1>1, <1>2 DEF Waiting
<1>4. nextId \in Nat /\ nextId' \in Nat /\ MaxIds \in Nat /\ executed \in [Ids -> Nat]
  BY ExecutorAssumption DEF DeskInv, Shapes
<1>5. Shapes'
  BY <1>2 DEF DeskInv, Shapes
<1> DEFINE StillNumbered(x) == IsTrade(x) => x.id \in 1..nextId' - 1
           StillFillable(x) == IsTrade(x) => executed[x.id] + 1 <= Limit'
<1>6. \A x : Numbered(x) => StillNumbered(x)
  BY <1>4 DEF Numbered
<1>7. StillNumbered(j)
  <2>1. nextId >= 1
    BY DEF DeskInv, Shapes
  <2> QED BY <1>4, <2>1
<1>8. \A x : Numbered(x) => Apart(x, j) /\ Apart(j, x)
  BY <1>4 DEF Numbered, Apart
<1>9. \A x : Fillable(x) /\ Numbered(x) => StillFillable(x)
  BY <1>4, LimitGrows, SMTT(30) DEF Fillable, Numbered, DeskInv, Shapes, Ids
<1>10. StillFillable(j)
  <2> SUFFICES ASSUME IsTrade(j) PROVE executed[j.id] + 1 <= Limit'
    OBVIOUS
  <2>1. j.id = nextId /\ nextId \in Ids
    BY <1>4 DEF Ids, DeskInv, Shapes
  <2>2. executed[j.id] = 0
    BY <1>4, <2>1 DEF DeskInv, Counts
  <2> QED BY <2>2 DEF Limit
<1> HIDE DEF StillNumbered, StillFillable
<1>11. Ids1'
  <2>1. \A k \in Waiting' : StillNumbered(queue'[k])
    BY <1>3, <1>6, <1>7 DEF DeskInv, Ids1
  <2>2. StillNumbered(stalled) /\ StillNumbered(job)
    BY <1>6 DEF DeskInv, Ids1
  <2> QED BY <2>1, <2>2 DEF Ids1, Numbered, StillNumbered
<1>12. Ids2'
  <2>0. /\ \A k \in Waiting : Numbered(queue[k])
        /\ \A k, l \in Waiting : k # l => Apart(queue[k], queue[l])
    BY DEF DeskInv, Ids1, Ids2
  <2>1. \A k, l \in Waiting' : k # l => Apart(queue'[k], queue'[l])
    <3> SUFFICES ASSUME NEW k \in Waiting', NEW l \in Waiting', k # l
                 PROVE  Apart(queue'[k], queue'[l])
      OBVIOUS
    <3>1. CASE k \in Waiting /\ l \in Waiting
      BY <1>3, <2>0, <3>1
    <3>2. CASE k \in Waiting /\ l = Len(queue) + 1
      BY <1>3, <1>8, <2>0, <3>2
    <3>3. CASE k = Len(queue) + 1 /\ l \in Waiting
      BY <1>3, <1>8, <2>0, <3>3
    <3> QED BY <1>3, <3>1, <3>2, <3>3
  <2>2. \A k \in Waiting' : Apart(queue'[k], stalled) /\ Apart(queue'[k], job)
    BY <1>3, <1>8 DEF DeskInv, Ids1, Ids2
  <2>3. Apart(stalled, job)
    BY DEF DeskInv, Ids2
  <2> QED BY <2>1, <2>2, <2>3 DEF Ids2
<1>13. Counts'
  <2>1. \A i \in Ids : executed[i] <= Limit'
    BY <1>4, LimitGrows DEF DeskInv, Counts
  <2>2. \A i \in Ids : i >= nextId' => executed[i] = 0
    BY <1>4 DEF DeskInv, Counts, Ids
  <2>3. \A k \in Waiting' : StillFillable(queue'[k])
    BY <1>3, <1>9, <1>10 DEF DeskInv, Counts, Ids1
  <2>4. StillFillable(stalled) /\ (pc = "order" => StillFillable(job))
    BY <1>9 DEF DeskInv, Counts, Ids1
  <2> QED BY <2>1, <2>2, <2>3, <2>4 DEF Counts, Fillable, StillFillable
<1>14. SealHolds'
  BY DEF DeskInv, SealHolds, Buys
<1> QED BY <1>5, <1>11, <1>12, <1>13, <1>14 DEF DeskInv

\* The stalled job goes back to the head of the queue.
LEMMA RequeueKeeps == ASSUME DeskInv, Requeue, UNCHANGED desk PROVE DeskInv'
<1>1. /\ queue' = <<stalled>> \o queue /\ stalled' = None /\ ~IsTrade(None)
      /\ UNCHANGED <<job, pc, executed, status, sealed, faults, nextId>>
  BY DEF Requeue, books, work, history, desk, IsTrade, None
<1>2. PICK S : queue \in Seq(S)
  BY DEF DeskInv, Shapes
<1>3. /\ queue \in Seq(S \cup {stalled}) /\ <<stalled>> \in Seq(S \cup {stalled})
      /\ Len(queue) \in Nat
  BY <1>2
<1>4. queue' \in Seq(S \cup {stalled}) /\ Len(queue') = Len(queue) + 1
  BY <1>1, <1>3
<1>5. /\ queue'[1] = stalled
      /\ \A k \in Waiting' : k # 1 => k - 1 \in Waiting /\ queue'[k] = queue[k - 1]
  BY <1>1, <1>3, <1>4 DEF Waiting
<1>6. Limit' = Limit
  BY <1>1 DEF Limit
<1>7. Shapes'
  BY <1>1, <1>4 DEF DeskInv, Shapes
<1>8. Ids1'
  BY <1>1, <1>5 DEF DeskInv, Ids1, Numbered
<1>9. Ids2'
  <2>1. \A k, l \in Waiting' : k # l => Apart(queue'[k], queue'[l])
    <3> SUFFICES ASSUME NEW k \in Waiting', NEW l \in Waiting', k # l
                 PROVE  Apart(queue'[k], queue'[l])
      OBVIOUS
    <3>1. k \in Int /\ l \in Int /\ k - 1 # l - 1
      BY DEF Waiting
    <3>2. CASE k # 1 /\ l # 1
      BY <1>5, <3>1, <3>2 DEF DeskInv, Ids2
    <3>3. CASE k = 1
      BY <1>5, <3>3 DEF DeskInv, Ids2, Apart
    <3>4. CASE l = 1
      BY <1>5, <3>4 DEF DeskInv, Ids2, Apart
    <3> QED BY <3>2, <3>3, <3>4
  <2>2. \A k \in Waiting' : Apart(queue'[k], None) /\ Apart(queue'[k], job)
    BY <1>1, <1>5 DEF DeskInv, Ids2, Apart
  <2> QED BY <1>1, <2>1, <2>2 DEF Ids2, Apart
<1>10. Counts'
  <2>1. \A k \in Waiting' : Fillable(queue'[k])
    BY <1>5 DEF DeskInv, Counts
  <2>2. Fillable(None)
    BY <1>1 DEF Fillable
  <2> QED BY <1>1, <1>6, <2>1, <2>2 DEF DeskInv, Counts, Fillable
<1>11. SealHolds'
  BY <1>1 DEF DeskInv, SealHolds, Buys
<1> QED BY <1>7, <1>8, <1>9, <1>10, <1>11 DEF DeskInv

\* The one crash raises the limit, so the job it interrupts may fill once more.
LEMMA CrashKeeps == ASSUME DeskInv, Crash, UNCHANGED desk PROVE DeskInv'
<1>1. /\ stalled' = job /\ job' = None /\ pc' = "idle" /\ ~IsTrade(None)
      /\ Limit = 1 /\ Limit' = 2
      /\ UNCHANGED <<queue, executed, status, sealed, nextId>>
  BY DEF Crash, Idle, books, desk, Limit, IsTrade, None
<1>2. Shapes' /\ Ids1' /\ Ids2' /\ SealHolds'
  BY <1>1 DEF DeskInv, Shapes, Ids1, Ids2, SealHolds, Waiting, Numbered, Apart
<1>3. executed \in [Ids -> Nat]
  BY DEF DeskInv, Shapes
<1>4. \A j : Numbered(j) => (IsTrade(j) => executed[j.id] + 1 <= 2)
  BY <1>1, <1>3, ExecutorAssumption DEF Numbered, DeskInv, Shapes, Counts, Ids
<1>5. \A k \in Waiting : IsTrade(queue[k]) => executed[queue[k].id] + 1 <= 2
  BY <1>4 DEF DeskInv, Ids1
<1>6. IsTrade(job) => executed[job.id] + 1 <= 2
  BY <1>4 DEF DeskInv, Ids1
<1>7. \A i \in Ids : executed[i] <= 2
  BY <1>1, <1>3 DEF DeskInv, Counts
<1>8. Counts'
  BY <1>1, <1>5, <1>6, <1>7 DEF DeskInv, Counts, Fillable, Waiting
<1> QED BY <1>2, <1>8 DEF DeskInv

-----------------------------------------------------------------------------
(* One case per action.                                                      *)

\* The three kinds of jobs the worker takes.
LEMMA StartKeeps ==
  ASSUME DeskInv, StartTrade \/ StartSync \/ StartFlatten, UNCHANGED desk
  PROVE  DeskInv'
<1>1. CASE StartTrade
  <2>1. /\ Take /\ Head(queue).kind = "trade" /\ nextId' = nextId
        /\ UNCHANGED <<executed, sealed, status, faults>>
    BY <1>1 DEF StartTrade, books, history, desk
  <2>2. CASE MayTrade(Head(queue))
    <3>1. job' = Head(queue) /\ pc' = "order" /\ IsTrade(job')
      BY <1>1, <2>1, <2>2 DEF StartTrade, IsTrade
    <3>2. sealed => ~Buys(job')
      BY <2>2, <3>1 DEF MayTrade, Buys, DeskInv, SealHolds
    <3> QED BY <2>1, <3>1, <3>2, TakeKeeps
  <2>3. CASE ~MayTrade(Head(queue))
    <3>1. job' = job /\ pc' = pc /\ pc = "idle"
      BY <1>1, <2>3 DEF StartTrade, work, Take
    <3> QED BY <2>1, <3>1, TakeKeeps
  <2> QED BY <2>2, <2>3
<1>2. CASE StartSync
  <2>1. /\ Take /\ job' = Head(queue) /\ pc' = "sync" /\ nextId' = nextId
        /\ UNCHANGED <<executed, sealed, status>> /\ faults \subseteq faults'
    BY <1>2 DEF StartSync, books, desk
  <2> QED BY <2>1, TakeKeeps
<1>3. CASE StartFlatten
  <2>1. /\ Take /\ job' = Head(queue) /\ pc' = "flatten" /\ nextId' = nextId
        /\ UNCHANGED <<executed, sealed, status, faults>>
    BY <1>3 DEF StartFlatten, books, history, desk
  <2> QED BY <2>1, TakeKeeps
<1> QED BY <1>1, <1>2, <1>3

\* Steps inside a job and steps of others that touch neither queue nor counts.
LEMMA QuietSteps ==
  ASSUME DeskInv, UNCHANGED desk,
         \/ Upsert \/ (\E t \in Tokens : MarkRemote(t)) \/ StopSell \/ StopBook
         \/ (\E t \in Tokens : FlattenSell(t)) \/ FlattenClose \/ FlattenRecord
         \/ (\E t \in Tokens, p \in Px : Quote(t, p))
  PROVE  DeskInv'
<1>1. nextId' = nextId /\ (sealed => status = "halted") /\ (pc = "idle" => job = None)
  BY DEF desk, DeskInv, SealHolds, Shapes
<1>2. UNCHANGED <<queue, stalled, job, executed, sealed, status>>
  BY DEF Upsert, MarkRemote, StopSell, StopBook, FlattenSell, FlattenClose, FlattenRecord,
         Quote, jobs, books, history, work
<1>3. faults \subseteq faults'
  BY DEF Upsert, MarkRemote, StopSell, StopBook, FlattenSell, FlattenClose, FlattenRecord,
         Quote, Order, history
<1>4. (pc' = "order" => pc = "order") /\ (pc' = "idle" => pc = "idle")
  BY DEF Upsert, MarkRemote, StopSell, StopBook, FlattenSell, FlattenClose, FlattenRecord,
         Quote, work
<1> QED BY <1>1, <1>2, <1>3, <1>4, QuietKeeps

\* Steps with which a job ends.
LEMMA EndSteps ==
  ASSUME DeskInv, UNCHANGED desk, Record \/ Snapshot \/ MarkHalted \/ FlattenDone \/ Throws
  PROVE  DeskInv'
<1>1. nextId' = nextId /\ (sealed => status = "halted")
  BY DEF desk, DeskInv, SealHolds
<1>2. CASE Record \/ FlattenDone \/ Throws
  <2>1. /\ Idle /\ UNCHANGED <<queue, stalled, executed, sealed, status>>
        /\ faults \subseteq faults'
    BY <1>2 DEF Record, FlattenDone, Throws, Complete, books, history
  <2> QED BY <1>1, <2>1, EndKeeps
<1>3. CASE MarkHalted
  <2>1. /\ Idle /\ UNCHANGED <<queue, stalled, executed, faults>> /\ status' = "halted"
    BY <1>3 DEF MarkHalted, Complete
  <2> QED BY <1>1, <2>1, EndKeeps
<1>4. CASE Snapshot
  <2>1. /\ UNCHANGED <<queue, stalled, executed, sealed, status, faults>> /\ pc # "idle"
        /\ \/ Idle
           \/ pc' = "halt" /\ job' = job
    BY <1>4 DEF Snapshot, Complete, history
  <2>2. CASE Idle
    BY <1>1, <2>1, <2>2, EndKeeps
  <2>3. CASE pc' = "halt" /\ job' = job
    BY <1>1, <2>1, <2>3, QuietKeeps
  <2> QED BY <2>1, <2>2, <2>3
<1> QED BY <1>2, <1>3, <1>4

\* The orchestrator: cycles, timer and admin routes.
LEMMA OuterSteps ==
  ASSUME DeskInv,
         \/ (\E c \in Cycles, plan \in Plans : CycleStart(c, plan))
         \/ (\E c \in Cycles : QueueNext(c))
         \/ SyncTimer \/ AdminPause \/ AdminResume \/ AdminFlatten
  PROVE  DeskInv'
<1>0. nextId \in 1..MaxIds + 1 /\ MaxIds \in Nat /\ (pc = "idle" => job = None)
      /\ (sealed => status = "halted") /\ ~IsTrade(Sync) /\ ~IsTrade(Flatten)
  BY ExecutorAssumption DEF DeskInv, Shapes, SealHolds, IsTrade, Sync, Flatten
<1>1. CASE \E c \in Cycles, plan \in Plans : CycleStart(c, plan)
  <2>1. UNCHANGED <<queue, stalled, job, pc, executed, sealed, status, faults, nextId>>
    BY <1>1 DEF CycleStart, vars, books, jobs, work, history
  <2> QED BY <1>0, <2>1, QuietKeeps
<1>2. CASE \E c \in Cycles : QueueNext(c)
  <2>1. UNCHANGED <<stalled, job, pc, executed, sealed, status, faults>>
    BY <1>2 DEF QueueNext, books, work, history
  <2>2. \/ UNCHANGED <<queue, nextId>>
        \/ /\ nextId <= MaxIds /\ nextId' = nextId + 1
           /\ \E j : queue' = Append(queue, j) /\ j.id = nextId
    <3>1. PICK c \in Cycles : QueueNext(c)
      BY <1>2
    <3> DEFINE d == Head(cycle[c].plan)
               usd == Clipped(cycle[c], d)
               shares == PlannedShares(cycle[c], d)
               j == [kind |-> "trade", id |-> nextId, action |-> d.action, token |-> d.token,
                     usd |-> usd, shares |-> shares]
    <3>2. \/ UNCHANGED <<queue, nextId>>
          \/ nextId <= MaxIds /\ nextId' = nextId + 1 /\ queue' = Append(queue, j)
      <4> HIDE DEF j
      <4> QED BY <3>1, Zenon DEF QueueNext, j
    <3>3. j.id = nextId
      OBVIOUS
    <3> HIDE DEF j
    <3> QED BY <3>2, <3>3
  <2>3. CASE UNCHANGED <<queue, nextId>>
    BY <1>0, <2>1, <2>3, QuietKeeps
  <2>4. CASE /\ nextId <= MaxIds /\ nextId' = nextId + 1
             /\ \E j : queue' = Append(queue, j) /\ j.id = nextId
    BY <1>0, <2>1, <2>4, AppendKeeps
  <2> QED BY <2>2, <2>3, <2>4
<1>3. CASE SyncTimer
  <2>1. /\ queue' = Append(queue, Sync) /\ nextId' = nextId
        /\ UNCHANGED <<stalled, job, pc, executed, sealed, status, faults>>
    BY <1>3 DEF SyncTimer, books, work, history, desk
  <2> QED BY <1>0, <2>1, AppendKeeps
<1>4. CASE AdminFlatten
  <2>1. /\ queue' = Append(queue, Flatten) /\ nextId' = nextId
        /\ UNCHANGED <<stalled, job, pc, executed, sealed, status, faults>>
    BY <1>4 DEF AdminFlatten, books, work, desk
  <2> QED BY <1>0, <2>1, AppendKeeps
<1>5. CASE AdminPause \/ AdminResume
  <2>1. /\ sealed' = FALSE
        /\ UNCHANGED <<queue, stalled, job, pc, executed, faults, nextId>>
    BY <1>5 DEF AdminPause, AdminResume, SetStatus, jobs, work, desk
  <2> QED BY <1>0, <2>1, QuietKeeps
<1> QED BY <1>1, <1>2, <1>3, <1>4, <1>5

\* Every step of the desk.
LEMMA DeskStep == ASSUME DeskInv, [DeskNext]_allVars PROVE DeskInv'
<1>1. CASE Executor
  <2>1. UNCHANGED desk
    BY <1>1 DEF Executor
  <2>2. CASE StartTrade \/ StartSync \/ StartFlatten BY <2>1, <2>2, StartKeeps
  <2>3. CASE SendOrder BY <2>1, <2>3, SendKeeps
  <2>4. CASE \/ Upsert \/ (\E t \in Tokens : MarkRemote(t)) \/ StopSell \/ StopBook
             \/ (\E t \in Tokens : FlattenSell(t)) \/ FlattenClose \/ FlattenRecord
    BY <2>1, <2>4, QuietSteps
  <2>5. CASE Record \/ Snapshot \/ MarkHalted \/ FlattenDone BY <2>1, <2>5, EndSteps
  <2> QED BY <1>1, <2>2, <2>3, <2>4, <2>5 DEF Executor, Worker
<1>2. CASE (Throws \/ Crash \/ Requeue \/ (\E t \in Tokens, p \in Px : Quote(t, p))) /\ UNCHANGED desk
  <2>1. CASE Throws BY <1>2, <2>1, EndSteps
  <2>2. CASE Crash BY <1>2, <2>2, CrashKeeps
  <2>3. CASE Requeue BY <1>2, <2>3, RequeueKeeps
  <2>4. CASE \E t \in Tokens, p \in Px : Quote(t, p) BY <1>2, <2>4, QuietSteps
  <2> QED BY <1>2, <2>1, <2>2, <2>3, <2>4
<1>3. CASE \/ (\E c \in Cycles, plan \in Plans : CycleStart(c, plan))
           \/ (\E c \in Cycles : QueueNext(c))
           \/ SyncTimer \/ AdminPause \/ AdminResume \/ AdminFlatten
  BY <1>3, OuterSteps
<1>4. CASE UNCHANGED allVars
  <2>1. UNCHANGED <<queue, stalled, job, pc, executed, sealed, status, faults, nextId>>
    BY <1>4 DEF allVars, vars, books, jobs, work, history, desk
  <2>2. (sealed => status = "halted") /\ (pc = "idle" => job = None)
    BY DEF DeskInv, SealHolds, Shapes
  <2> QED BY <2>1, <2>2, QuietKeeps
<1> QED BY <1>1, <1>2, <1>3, <1>4 DEF DeskNext

\* The invariant holds in every reachable state.
LEMMA DeskInvariant == DeskSpec => []DeskInv
<1>1. DeskInit => DeskInv
  BY InitDeskInv
<1>2. DeskInv /\ [DeskNext]_allVars => DeskInv'
  BY DeskStep
<1> QED BY <1>1, <1>2, PTL DEF DeskSpec

\* For any number of cycles, plans, faults and admin calls a queued decision is
\* filled at most once, and at most twice if a crash made the queue hand the job
\* out again (queue-worker.ts:59-130, jobs without retries).
THEOREM FilledOnce == DeskSpec => []FilledOncePerCrash
<1>1. DeskInv => FilledOncePerCrash
  BY DEF DeskInv, Counts, FilledOncePerCrash, Limit
<1> QED BY <1>1, DeskInvariant, PTL
-----------------------------------------------------------------------------
(* Holdings after a halt.                                                    *)

\* The account, its amounts left free.
AccountOf(S) == [cash : S, hold : [Tokens -> S], cost : [Tokens -> S], shares : [Tokens -> S]]
VenueInv == \E S : venue \in AccountOf(S)

\* An order leaves an account, and a sale takes away what was held.
LEMMA OrderAccount ==
  ASSUME VenueInv, NEW buy \in BOOLEAN, NEW t, NEW amount, Order(buy, t, amount)
  PROVE  VenueInv' /\ (~buy => OnlyFalls)
<1>1. PICK S : venue \in AccountOf(S)
  BY DEF VenueInv
<1>2. CASE venue' = venue
  BY <1>2 DEF VenueInv, OnlyFalls
<1>3. CASE /\ buy /\ venue' = Bought(t, amount)
  <2> DEFINE n == amount \div px[t]
             R == S \cup {venue.cash - amount, venue.hold[t] + n, venue.cost[t] + amount,
                          venue.shares[t] + n}
             hold == [venue.hold EXCEPT ![t] = venue.hold[t] + n]
             cost == [venue.cost EXCEPT ![t] = venue.cost[t] + amount]
             shares == [venue.shares EXCEPT ![t] = venue.shares[t] + n]
  <2>1. venue' = [cash |-> venue.cash - amount, hold |-> hold, cost |-> cost, shares |-> shares]
    BY <1>1, <1>3 DEF Bought, AccountOf
  <2>2. hold \in [Tokens -> R] /\ cost \in [Tokens -> R] /\ shares \in [Tokens -> R]
    BY <1>1 DEF AccountOf
  <2>3. venue' \in AccountOf(R)
    <3>1. venue.cash - amount \in R
      OBVIOUS
    <3> HIDE DEF hold, cost, shares, R
    <3> QED BY <2>1, <2>2, <3>1 DEF AccountOf
  <2> QED BY <1>3, <2>3 DEF VenueInv
<1>4. CASE /\ ~buy /\ amount \in 1..venue.hold[t] /\ venue' = Sold(t, amount)
  <2> DEFINE R == S \cup {venue.cash + amount * px[t], venue.hold[t] - amount}
             hold == [venue.hold EXCEPT ![t] = venue.hold[t] - amount]
  <2>1. venue' = [cash |-> venue.cash + amount * px[t], hold |-> hold, cost |-> venue.cost,
                  shares |-> venue.shares]
    BY <1>1, <1>4 DEF Sold, AccountOf
  <2>2. hold \in [Tokens -> R] /\ venue.cost \in [Tokens -> R] /\ venue.shares \in [Tokens -> R]
    BY <1>1 DEF AccountOf
  <2>3. venue' \in AccountOf(R)
    <3>1. venue.cash + amount * px[t] \in R
      OBVIOUS
    <3> HIDE DEF hold, R
    <3> QED BY <2>1, <2>2, <3>1 DEF AccountOf
  <2>4. ASSUME NEW u \in Tokens
        PROVE  \/ venue'.hold[u] = venue.hold[u]
               \/ \E n \in 1..venue.hold[u] : venue'.hold[u] = venue.hold[u] - n
    <3>1. venue'.hold[u] = IF u = t THEN venue.hold[t] - amount ELSE venue.hold[u]
      BY <1>1, <2>1 DEF AccountOf
    <3> QED BY <1>4, <3>1
  <2> QED BY <2>3, <2>4 DEF VenueInv, OnlyFalls
<1> QED BY <1>2, <1>3, <1>4 DEF Order, CanFill

\* Only three steps send an order, and only a trade job's may be a buy.
LEMMA VenueStep ==
  ASSUME VenueInv, DeskInv, [DeskNext]_allVars
  PROVE  VenueInv' /\ (sealed => OnlyFalls)
<1>1. CASE SendOrder
  <2>1. Order(Buys(job), job.token, Amount(job, The(seen))) /\ pc = "order"
    BY <1>1 DEF SendOrder
  <2>2. sealed => ~Buys(job)
    BY <2>1 DEF DeskInv, SealHolds
  <2>3. Buys(job) \in BOOLEAN
    BY DEF Buys
  <2> QED BY <2>1, <2>2, <2>3, OrderAccount
<1>2. CASE StopSell
  BY <1>2, OrderAccount DEF StopSell
<1>3. CASE \E t \in Tokens : FlattenSell(t)
  BY <1>3, OrderAccount DEF FlattenSell
<1>4. CASE ~(SendOrder \/ StopSell \/ \E t \in Tokens : FlattenSell(t))
  <2>1. venue' = venue
    BY <1>4 DEF DeskNext, Executor, Worker, StartTrade, Upsert, Record, StartSync, MarkRemote,
         StopBook, Snapshot, MarkHalted, StartFlatten, FlattenClose, FlattenRecord, FlattenDone,
         Throws, Crash, Requeue, Quote, CycleStart, QueueNext, SyncTimer, AdminPause,
         AdminResume, AdminFlatten, SetStatus, outer, vars, allVars
  <2> QED BY <2>1 DEF VenueInv, OnlyFalls
<1> QED BY <1>1, <1>2, <1>3, <1>4

\* Once the worker has halted the system, holdings only fall until an admin route
\* is called, whatever trades were queued before and however jobs fail or come
\* back after a crash (queue-worker.ts:60-62, 213-220).
THEOREM HaltStopsBuys == DeskSpec => HaltedBuysNothing
<1> DEFINE Both == VenueInv /\ DeskInv
           Step == sealed => OnlyFalls
<1>1. DeskInit => Both
  <2> SUFFICES ASSUME DeskInit PROVE VenueInv
    BY InitDeskInv
  <2>1. venue \in AccountOf({0, Bankroll})
    BY DEF DeskInit, Init, AccountOf
  <2> QED BY <2>1 DEF VenueInv
<1>2. Both /\ [DeskNext]_allVars => Both' /\ Step
  BY DeskStep, VenueStep
<1> HIDE DEF Both, Step
<1>3. DeskSpec => [][Step]_allVars
  BY <1>1, <1>2, PTL DEF DeskSpec
<1> QED BY <1>3 DEF Step, HaltedBuysNothing

-----------------------------------------------------------------------------
(* The guards.                                                               *)

\* The smallest of four numbers is one of them and no larger than any.
LEMMA MinOfFour ==
  ASSUME NEW a \in Int, NEW b \in Int, NEW c \in Int, NEW d \in Int,
         NEW S, S = {a, b, c, d}
  PROVE  Min(S) \in S /\ \A x \in S : Min(S) <= x
<1>1. \E m \in S : \A x \in S : m <= x
  <2>1. \E m \in {a, b} : m <= a /\ m <= b
    OBVIOUS
  <2>2. \E m \in {c, d} : m <= c /\ m <= d
    OBVIOUS
  <2> QED BY <2>1, <2>2
<1> QED BY <1>1 DEF Min

\* What the guards let through, whole number percentages and all: for any
\* bankroll and exposure at most what was asked for, at least the smallest trade,
\* within the trade cap, the total cap and the event cap together with what is
\* held already, and only with a free place (risk.ts:106-165).
THEOREM GuardsWithinCaps ==
  ASSUME NEW requested \in Int, NEW bankroll \in Int, NEW exposure \in Int,
         NEW event \in Int, NEW open \in Nat,
         NEW usd, usd = TradeGuards(requested, bankroll, exposure, event, open), usd # 0
  PROVE  /\ usd \in Nat /\ usd >= MinTrade /\ usd <= requested /\ open < MaxPositions
         /\ 100 * usd <= bankroll * MaxTradePct
         /\ 100 * (exposure + usd) <= bankroll * MaxTotalPct
         /\ 100 * (event + usd) <= bankroll * MaxEventPct
<1> DEFINE perTrade == (bankroll * MaxTradePct) \div 100
           total == (bankroll * MaxTotalPct) \div 100
           perEvent == (bankroll * MaxEventPct) \div 100
           caps == {requested, perTrade, AtLeastZero(total - exposure), AtLeastZero(perEvent - event)}
<1>1. MinTrade \in Nat \ {0} /\ MaxPositions \in Nat
      /\ MaxTradePct \in Nat /\ MaxTotalPct \in Nat /\ MaxEventPct \in Nat
  BY GuardsAssumption
<1>2. /\ perTrade \in Int /\ 100 * perTrade <= bankroll * MaxTradePct
      /\ total \in Int /\ 100 * total <= bankroll * MaxTotalPct
      /\ perEvent \in Int /\ 100 * perEvent <= bankroll * MaxEventPct
  <2> DEFINE x == bankroll * MaxTradePct
             y == bankroll * MaxTotalPct
             z == bankroll * MaxEventPct
  <2>1. x \in Int /\ y \in Int /\ z \in Int
    BY <1>1
  <2>2. perTrade = x \div 100 /\ total = y \div 100 /\ perEvent = z \div 100
    OBVIOUS
  <2> HIDE DEF x, y, z, perTrade, total, perEvent
  <2>3. /\ perTrade \in Int /\ 100 * perTrade <= x
        /\ total \in Int /\ 100 * total <= y
        /\ perEvent \in Int /\ 100 * perEvent <= z
    BY <2>1, <2>2
  <2> QED BY <2>3 DEF x, y, z
<1>3. usd = Min(caps) /\ ~(open >= MaxPositions) /\ ~(Min(caps) < MinTrade)
  BY DEF TradeGuards
<1> HIDE DEF perTrade, total, perEvent
<1>4. AtLeastZero(total - exposure) \in Int /\ AtLeastZero(perEvent - event) \in Int
  BY <1>2 DEF AtLeastZero
<1>5. usd \in caps /\ \A x \in caps : usd <= x
  <2>1. Min(caps) \in caps /\ \A x \in caps : Min(caps) <= x
    <3>1. caps = {requested, perTrade, AtLeastZero(total - exposure), AtLeastZero(perEvent - event)}
      OBVIOUS
    <3> HIDE DEF caps
    <3> QED BY <1>2, <1>4, <3>1, MinOfFour
  <2> QED BY <1>3, <2>1
<1>6. usd \in Int /\ usd >= MinTrade /\ open < MaxPositions
  BY <1>1, <1>2, <1>3, <1>4, <1>5
<1>7. usd <= requested /\ usd <= perTrade
      /\ usd <= AtLeastZero(total - exposure) /\ usd <= AtLeastZero(perEvent - event)
  BY <1>5
<1>8. usd <= total - exposure /\ usd <= perEvent - event
  BY <1>1, <1>2, <1>6, <1>7 DEF AtLeastZero
<1> DEFINE x == bankroll * MaxTradePct
           y == bankroll * MaxTotalPct
           z == bankroll * MaxEventPct
<1>9. x \in Int /\ y \in Int /\ z \in Int
  BY <1>1
<1>10. 100 * perTrade <= x /\ 100 * total <= y /\ 100 * perEvent <= z
  BY <1>2
<1> HIDE DEF x, y, z
<1>11. 100 * usd <= x /\ 100 * (exposure + usd) <= y /\ 100 * (event + usd) <= z
  BY <1>2, <1>6, <1>7, <1>8, <1>9, <1>10
<1> QED BY <1>1, <1>6, <1>7, <1>11 DEF x, y, z

-----------------------------------------------------------------------------
(* Amounts.                                                                  *)

OpenRow == [open : {TRUE}, size : Nat, value : Nat]
Rows == [Tokens -> OpenRow \cup {Closed}]
Fills == [ok : BOOLEAN, px : Nat \ {0}, usd : Nat]
Jobs == Trade \cup {Sync, Flatten}

\* A price is a positive number.
LEMMA PxPositive == ASSUME px \in [Tokens -> Px], NEW t \in Tokens PROVE px[t] \in Nat \ {0}
<1>1. px[t] \in Px
  OBVIOUS
<1> QED BY <1>1, ExecutorAssumption

\* An open row is not the closed one.
LEMMA RowParts ==
  ASSUME NEW r \in OpenRow \cup {Closed}
  PROVE  /\ r.open \in BOOLEAN
         /\ r.open => r \in OpenRow /\ r.size \in Nat /\ r.value \in Nat
<1>1. CASE r = Closed
  <2>1. r.open = FALSE
    BY <1>1 DEF Closed
  <2> QED BY <2>1
<1>2. CASE r \in OpenRow
  <2>1. r.open = TRUE /\ r.size \in Nat /\ r.value \in Nat
    BY <1>2 DEF OpenRow
  <2> QED BY <1>2, <2>1
<1> QED BY <1>1, <1>2

\* The sums of the path are numbers of dollars.
LEMMA ExposureNat ==
  ASSUME NEW rows \in Rows
  PROVE  /\ Exposure(rows) \in Nat
         /\ \A e : EventExposure(rows, e) \in Nat
<1> DEFINE value == [t \in OpenIn(rows) |-> rows[t].value]
<1>1. ASSUME NEW t \in OpenIn(rows) PROVE rows[t].value \in Nat
  <2>1. rows[t] \in OpenRow \cup {Closed} /\ rows[t].open
    BY DEF OpenIn, Rows
  <2> QED BY <2>1, RowParts
<1>2. OpenIn(rows) \in SUBSET Tokens
  BY DEF OpenIn
<1>3. Exposure(rows) \in Nat
  <2>1. IsFiniteSet(OpenIn(rows))
    BY <1>2, FS_Subset, GuardsAssumption
  <2>2. DOMAIN value = OpenIn(rows) /\ \A t \in OpenIn(rows) : value[t] \in Nat
    BY <1>1
  <2> HIDE DEF value
  <2>3. SumFunction(value) \in Nat
    BY <2>1, <2>2, SumNat DEF SumFunction
  <2> QED BY <2>3 DEF value, Exposure
<1>4. ASSUME NEW e PROVE EventExposure(rows, e) \in Nat
  <2> DEFINE S == {u \in OpenIn(rows) : Events[u] = e}
             part == [t \in S |-> rows[t].value]
  <2>1. S \in SUBSET Tokens
    BY <1>2
  <2>2. IsFiniteSet(S)
    BY <2>1, FS_Subset, GuardsAssumption
  <2>3. DOMAIN part = S /\ \A t \in S : part[t] \in Nat
    BY <1>1
  <2>4. EventExposure(rows, e) = SumFunction(part)
    BY DEF EventExposure
  <2> HIDE DEF part, S
  <2>5. SumFunction(part) \in Nat
    BY <2>2, <2>3, SumNat DEF SumFunction
  <2> QED BY <2>4, <2>5
<1> QED BY <1>3, <1>4

\* What an account is worth is a sum over all tokens, of whole dollars.
LEMMA EquityNat ==
  ASSUME NEW acc \in Account, NEW prices \in [Tokens -> Px]
  PROVE  LET worth == [t \in Tokens |-> acc.hold[t] * prices[t]] IN
         /\ \A t \in Tokens : worth[t] \in Nat
         /\ SumFunctionOnSet(worth, Tokens) \in Nat
         /\ Equity(acc, prices) = acc.cash + SumFunctionOnSet(worth, Tokens)
         /\ Equity(acc, prices) \in Nat
<1> DEFINE worth == [t \in Tokens |-> acc.hold[t] * prices[t]]
<1>1. ASSUME NEW t \in Tokens PROVE worth[t] \in Nat
  <2>1. acc.hold[t] \in Nat /\ prices[t] \in Px
    BY DEF Account
  <2>2. prices[t] \in Nat
    BY <2>1, ExecutorAssumption
  <2> QED BY <2>1, <2>2
<1>2. DOMAIN worth = Tokens
  OBVIOUS
<1>3. Equity(acc, prices) = acc.cash + SumFunction(worth)
  BY DEF Equity
<1> HIDE DEF worth
<1>4. SumFunctionOnSet(worth, Tokens) \in Nat
  BY <1>1, GuardsAssumption, SumNat
<1>5. acc.cash \in Nat
  BY DEF Account
<1> QED BY <1>1, <1>2, <1>3, <1>4, <1>5 DEF SumFunction, worth

\* The smaller of two numbers and the larger of two.
LEMMA MinMaxOfTwo ==
  ASSUME NEW a \in Int, NEW b \in Int
  PROVE  /\ Min({a, b}) \in {a, b} /\ Min({a, b}) <= a /\ Min({a, b}) <= b
         /\ Max({a, b}) \in {a, b} /\ Max({a, b}) >= a /\ Max({a, b}) >= b
<1>1. \E m \in {a, b} : \A x \in {a, b} : m <= x
  OBVIOUS
<1>2. \E m \in {a, b} : \A x \in {a, b} : m >= x
  OBVIOUS
<1> QED BY <1>1, <1>2 DEF Min, Max

\* A sale is of a number of shares.
LEMMA SellSharesNat ==
  ASSUME NEW action, NEW usd \in Nat, NEW size \in Nat, NEW value \in Nat
  PROVE  SellShares(action, usd, size, value) \in Nat
<1>1. ASSUME value > 0 PROVE Min({size, (size * usd) \div value}) \in Nat
  <2> DEFINE n == size * usd
             q == n \div value
  <2>1. n \in Nat
    OBVIOUS
  <2>2. q \in Nat
    <3> HIDE DEF n
    <3> QED BY <1>1, <2>1
  <2> HIDE DEF q
  <2>3. Min({size, q}) \in {size, q}
    BY <2>2, MinMaxOfTwo
  <2>4. Min({size, q}) \in Nat
    BY <2>2, <2>3
  <2> QED BY <2>4 DEF q
<1> QED BY <1>1 DEF SellShares

\* A job of one of the kinds is told by its kind.
LEMMA TradeJobs ==
  ASSUME NEW j \in Jobs \cup {None}
  PROVE  /\ j.kind = "trade" <=> j \in Trade
         /\ j \in Trade => /\ j.id \in Ids /\ j.token \in Tokens /\ j.usd \in Nat /\ j.shares \in Nat
                           /\ j.action \in {"open", "close", "reduce"}
BY DEF Jobs, Trade, Sync, Flatten, None

\* The amount of an order is a number of dollars or shares.
LEMMA AmountNat ==
  ASSUME NEW j \in Trade, NEW row \in OpenRow \cup {Closed}
  PROVE  Amount(j, row) \in Nat
<1>1. j.usd \in Nat /\ j.shares \in Nat
  BY DEF Trade
<1>2. CASE Buys(j) \/ j.shares > 0 \/ ~row.open
  BY <1>1, <1>2 DEF Amount
<1>3. CASE ~Buys(j) /\ ~(j.shares > 0) /\ row.open
  <2>1. row.size \in Nat /\ row.value \in Nat
    BY <1>3, RowParts
  <2>2. Amount(j, row) = SellShares(j.action, j.usd, row.size, row.value)
    BY <1>3 DEF Amount
  <2> QED BY <1>1, <2>1, <2>2, SellSharesNat
<1> QED BY <1>2, <1>3, RowParts

\* An order, filled or refused, leaves an account and an answer.
LEMMA OrderTyped ==
  ASSUME venue \in Account, px \in [Tokens -> Px], turns \in 0..MaxTurns,
         NEW buy \in BOOLEAN, NEW t \in Tokens, NEW amount \in Nat, Order(buy, t, amount)
  PROVE  /\ venue' \in Account /\ fill' \in Fills /\ turns' \in 0..MaxTurns
         /\ faults' \in {faults, faults \cup {"refused"}}
<1>1. px[t] \in Nat \ {0} /\ Half \in Nat \ {0}
  BY PxPositive, GuardsAssumption
<1>2. venue.cash \in Nat /\ venue.hold \in [Tokens -> Nat] /\ venue.hold[t] \in Nat
      /\ venue.cost \in [Tokens -> Nat] /\ venue.cost[t] \in Nat
      /\ venue.shares \in [Tokens -> Nat] /\ venue.shares[t] \in Nat
  BY DEF Account
<1>3. amount * px[t] \in Nat /\ amount * Half \in Nat
  BY <1>1
<1>4. ASSUME CanFill(buy, t, amount), buy, venue' = Bought(t, amount) PROVE venue' \in Account
  <2> DEFINE n == amount \div px[t]
  <2>1. n \in Nat /\ venue.cash - amount \in Nat
    BY <1>1, <1>2, <1>4 DEF CanFill
  <2> DEFINE hold == [venue.hold EXCEPT ![t] = venue.hold[t] + n]
             cost == [venue.cost EXCEPT ![t] = venue.cost[t] + amount]
             shares == [venue.shares EXCEPT ![t] = venue.shares[t] + n]
  <2>2. venue' = [cash |-> venue.cash - amount, hold |-> hold, cost |-> cost, shares |-> shares]
    BY <1>4 DEF Bought, Account
  <2>3. venue.hold[t] + n \in Nat /\ venue.cost[t] + amount \in Nat /\ venue.shares[t] + n \in Nat
    BY <1>2, <2>1
  <2>4. hold \in [Tokens -> Nat] /\ cost \in [Tokens -> Nat] /\ shares \in [Tokens -> Nat]
    <3> HIDE DEF n
    <3> QED BY <1>2, <2>3
  <2> HIDE DEF hold, cost, shares, n
  <2> QED BY <2>1, <2>2, <2>4 DEF Account
<1>5. ASSUME CanFill(buy, t, amount), ~buy, venue' = Sold(t, amount) PROVE venue' \in Account
  <2>1. venue.hold[t] - amount \in Nat /\ venue.cash + amount * px[t] \in Nat
    BY <1>2, <1>3, <1>5 DEF CanFill
  <2> DEFINE hold == [venue.hold EXCEPT ![t] = venue.hold[t] - amount]
  <2>2. venue' = [cash |-> venue.cash + amount * px[t], hold |-> hold, cost |-> venue.cost,
                  shares |-> venue.shares]
    BY <1>5 DEF Sold, Account
  <2>3. hold \in [Tokens -> Nat]
    BY <1>2, <2>1
  <2> HIDE DEF hold
  <2> QED BY <1>2, <2>1, <2>2, <2>3 DEF Account
<1>6. venue' \in Account
  BY <1>4, <1>5 DEF Order
<1>7. turns' \in 0..MaxTurns
  BY ExecutorAssumption DEF Order, Turn
<1>8. fill' \in Fills
  <2>1. \/ fill' = [ok |-> TRUE, px |-> px[t], usd |-> IF buy THEN amount ELSE amount * px[t]]
        \/ fill' = [ok |-> FALSE, px |-> Half, usd |-> IF buy THEN amount ELSE amount * Half]
    BY DEF Order
  <2> DEFINE paid == IF buy THEN amount ELSE amount * px[t]
             asked == IF buy THEN amount ELSE amount * Half
  <2>2. paid \in Nat /\ asked \in Nat
    BY <1>3
  <2> HIDE DEF paid, asked
  <2>3. fill' = [ok |-> TRUE, px |-> px[t], usd |-> paid] \/ fill' = [ok |-> FALSE, px |-> Half, usd |-> asked]
    BY <2>1 DEF paid, asked
  <2>4. \A ok \in BOOLEAN, p \in Nat \ {0}, n \in Nat : [ok |-> ok, px |-> p, usd |-> n] \in Fills
    BY DEF Fills
  <2>5. [ok |-> TRUE, px |-> px[t], usd |-> paid] \in Fills /\ [ok |-> FALSE, px |-> Half, usd |-> asked] \in Fills
    BY <1>1, <2>2, <2>4
  <2> QED BY <2>3, <2>5
<1>9. faults' \in {faults, faults \cup {"refused"}}
  BY DEF Order
<1> QED BY <1>6, <1>7, <1>8, <1>9

-----------------------------------------------------------------------------
(* Types of the executor.                                                    *)

\* What the variables of a job hold at each place in it.
InJob ==
    /\ pc \in {"order", "upsert"} => \E r \in OpenRow \cup {Closed} : seen = {r}
    /\ pc \in {"order", "upsert", "record"} => job \in Trade
    /\ pc \in {"stop", "stopped"} =>
          \E t \in Tokens : at = {t} /\ pos[t].open /\ pos[t].value = pos[t].size * px[t]
    /\ pc = "flatten" => todo \subseteq OpenIn(pos)
    /\ pc = "flattened" => \E t \in Tokens : /\ at = {t} /\ pos[t].open
                                             /\ todo \subseteq OpenIn(pos) \ {t}
    /\ pc = "closed" => todo \subseteq OpenIn(pos) /\ \E r \in OpenRow : seen = {r}

ExecTyped == ExecutorTypeOK /\ fill \in Fills /\ InJob

\* The only element of a set.
LEMMA TheOne == ASSUME NEW x PROVE The({x}) = x
BY DEF The

\* The default answer is one.
LEMMA NoFillTyped == NoFill \in Fills /\ Fills \subseteq [ok : BOOLEAN, px : Nat, usd : Nat]
BY GuardsAssumption DEF NoFill, Fills

\* Writing a row.
LEMMA RowWritten ==
  ASSUME pos \in Rows, NEW t \in Tokens, NEW r \in OpenRow \cup {Closed},
         pos' = [pos EXCEPT ![t] = r]
  PROVE  /\ pos' \in Rows /\ pos'[t] = r
         /\ \A u \in Tokens \ {t} : pos'[u] = pos[u]
BY DEF Rows

\* The parts of the executor's type that most steps leave alone.
LEMMA TypeParts ==
  ASSUME ExecTyped
  PROVE  /\ pos \in Rows /\ flow \in Int /\ snap \in Snapshots
         /\ snap.cash \in Int /\ snap.equity \in Int /\ snap.high \in Nat /\ snap.open \in Nat
         /\ venue \in Account /\ px \in [Tokens -> Px] /\ fill \in Fills
         /\ fill.usd \in Nat /\ fill.px \in Nat \ {0} /\ fill.ok \in BOOLEAN
         /\ queue \in Seq(Jobs) /\ stalled \in Jobs \cup {None} /\ job \in Jobs \cup {None}
         /\ venue.cash \in Nat /\ venue.hold \in [Tokens -> Nat]
         /\ venue.cost \in [Tokens -> Nat] /\ venue.shares \in [Tokens -> Nat]
         /\ peak \in Nat /\ turns \in 0..MaxTurns
BY DEF ExecTyped, ExecutorTypeOK, BooksTypeOK, OuterTypeOK, JobsTypeOK, WorkTypeOK, HistoryTypeOK,
       Rows, OpenRow, Jobs, Snapshots, Account, Fills

\* A part of the state that is left alone keeps its types.
LEMMA PartsKept ==
  ASSUME ExecTyped
  PROVE  /\ UNCHANGED books => BooksTypeOK'
         /\ UNCHANGED outer => OuterTypeOK'
         /\ UNCHANGED jobs => JobsTypeOK'
         /\ UNCHANGED work => WorkTypeOK' /\ fill' \in Fills
         /\ UNCHANGED history => HistoryTypeOK'
<1>1. UNCHANGED books => BooksTypeOK' BY DEF ExecTyped, ExecutorTypeOK, BooksTypeOK, books
<1>2. UNCHANGED outer => OuterTypeOK' BY DEF ExecTyped, ExecutorTypeOK, OuterTypeOK, outer
<1>3. UNCHANGED jobs => JobsTypeOK' BY DEF ExecTyped, ExecutorTypeOK, JobsTypeOK, jobs
<1>4. UNCHANGED work => WorkTypeOK' /\ fill' \in Fills
  BY DEF ExecTyped, ExecutorTypeOK, WorkTypeOK, work
<1>5. UNCHANGED history => HistoryTypeOK'
  BY DEF ExecTyped, ExecutorTypeOK, HistoryTypeOK, history
<1> QED BY <1>1, <1>2, <1>3, <1>4, <1>5

\* Nothing has happened yet.
LEMMA InitTyped == Init => ExecTyped
<1> SUFFICES ASSUME Init PROVE ExecTyped OBVIOUS
<1> USE GuardsAssumption, ExecutorAssumption DEF Init
<1>1. fill \in Fills /\ fill \in [ok : BOOLEAN, px : Nat, usd : Nat]
  BY NoFillTyped
<1>2. InJob
  BY DEF InJob
<1>3. snap \in Snapshots
  BY DEF Snapshots
<1>4. venue \in Account
  BY DEF Account
<1>5. px \in [Tokens -> Px]
  OBVIOUS
<1>6. turns \in 0..MaxTurns /\ moves \in 0..MaxMoves
  OBVIOUS
<1>7. queue \in Seq(Trade \cup {Sync, Flatten})
  OBVIOUS
<1>8. pos \in [Tokens -> [open : {TRUE}, size : Nat, value : Nat] \cup {Closed}]
      /\ executed \in [Ids -> Nat] /\ peak \in Nat /\ flow \in Int
  OBVIOUS
<1>9. /\ status \in {"running", "paused", "halted"} /\ slot \in {"free", "taken", "failed"}
      /\ stalled \in Trade \cup {Sync, Flatten, None} /\ job \in Trade \cup {Sync, Flatten, None}
      /\ todo \subseteq Tokens /\ at \subseteq Tokens /\ sealed \in BOOLEAN
      /\ faults \subseteq {"fetch", "refused", "thrown", "crash", "stoploss", "offmark"}
      /\ pc \in {"idle", "order", "upsert", "record", "sync", "stop", "stopped", "halt",
                 "flatten", "flattened", "closed"}
  OBVIOUS
<1> HIDE DEF Init
<1>10. BooksTypeOK BY <1>3, <1>8, <1>9 DEF BooksTypeOK
<1>11. OuterTypeOK BY <1>4, <1>5, <1>6 DEF OuterTypeOK
<1>12. JobsTypeOK BY <1>7, <1>9 DEF JobsTypeOK
<1>13. WorkTypeOK BY <1>1, <1>9 DEF WorkTypeOK
<1>14. HistoryTypeOK BY <1>6, <1>8, <1>9 DEF HistoryTypeOK
<1> QED BY <1>1, <1>2, <1>10, <1>11, <1>12, <1>13, <1>14 DEF ExecTyped, ExecutorTypeOK

\* A job that is over leaves nothing behind in the worker.
LEMMA IdleTyped ==
  ASSUME ExecTyped, Idle, UNCHANGED <<venue, px, moves>>,
         pos' \in Rows, flow' \in Int, snap' \in Snapshots, status' \in {"running", "paused", "halted"},
         queue' \in Seq(Jobs), stalled' \in Jobs \cup {None}, slot' \in {"free", "taken", "failed"},
         executed' = executed, sealed' \in BOOLEAN, peak' = peak, turns' \in 0..MaxTurns,
         faults' \subseteq {"fetch", "refused", "thrown", "crash", "stoploss", "offmark"}
  PROVE  ExecTyped'
<1>1. pc' = "idle" /\ job' = None /\ todo' = {} /\ at' = {} /\ fill' = NoFill
  BY DEF Idle
<1>2. InJob'
  BY <1>1 DEF InJob
<1>3. BooksTypeOK' BY DEF BooksTypeOK, Rows, OpenRow
<1>4. OuterTypeOK' BY PartsKept DEF outer
<1>5. JobsTypeOK' BY DEF JobsTypeOK, Jobs
<1>6. WorkTypeOK' /\ fill' \in Fills BY <1>1, NoFillTyped DEF WorkTypeOK
<1>7. HistoryTypeOK'
  <2>1. executed \in [Ids -> Nat] /\ peak \in Nat BY DEF ExecTyped, ExecutorTypeOK, HistoryTypeOK
  <2> QED BY <2>1 DEF HistoryTypeOK
<1> QED BY <1>2, <1>3, <1>4, <1>5, <1>6, <1>7 DEF ExecTyped, ExecutorTypeOK

\* The first job is taken from the queue.
LEMMA TakeTyped ==
  ASSUME ExecTyped, Take
  PROVE  /\ pc = "idle" /\ Head(queue) \in Jobs /\ queue' \in Seq(Jobs) /\ stalled' = stalled
<1>1. queue \in Seq(Jobs) /\ queue # <<>>
  BY TypeParts DEF Take
<1> QED BY <1>1 DEF Take

Faults == {"fetch", "refused", "thrown", "crash", "stoploss", "offmark"}
Places == {"idle", "order", "upsert", "record", "sync", "stop", "stopped", "halt", "flatten",
           "flattened", "closed"}

\* A step of the worker inside a job.
LEMMA StepTyped ==
  ASSUME ExecTyped, UNCHANGED <<status, px, moves, queue, stalled, slot, job, sealed, peak>>,
         pos' \in Rows, flow' \in Int, snap' \in Snapshots, venue' \in Account, fill' \in Fills,
         todo' \subseteq Tokens, at' \subseteq Tokens, turns' \in 0..MaxTurns,
         executed' \in [Ids -> Nat], faults' \subseteq Faults, pc' \in Places, InJob'
  PROVE  ExecTyped'
<1>1. /\ status \in {"running", "paused", "halted"} /\ px \in [Tokens -> Px]
      /\ moves \in 0..MaxMoves /\ sealed \in BOOLEAN /\ peak \in Nat
      /\ job \in Trade \cup {Sync, Flatten, None}
  BY DEF ExecTyped, ExecutorTypeOK, BooksTypeOK, OuterTypeOK, WorkTypeOK, HistoryTypeOK
<1>2. BooksTypeOK' BY <1>1 DEF BooksTypeOK, Rows, OpenRow
<1>3. OuterTypeOK' BY <1>1 DEF OuterTypeOK
<1>4. JobsTypeOK' BY PartsKept DEF jobs
<1>5. WorkTypeOK' BY <1>1, NoFillTyped DEF WorkTypeOK, Places
<1>6. HistoryTypeOK' BY <1>1 DEF HistoryTypeOK, Faults
<1> QED BY <1>2, <1>3, <1>4, <1>5, <1>6 DEF ExecTyped, ExecutorTypeOK

\* The steps of a trade job keep the types.
LEMMA TradeTyped ==
  ASSUME ExecTyped, StartTrade \/ SendOrder \/ Upsert \/ Record
  PROVE  ExecTyped'
<1>0. /\ status \in {"running", "paused", "halted"} /\ slot \in {"free", "taken", "failed"}
      /\ executed \in [Ids -> Nat] /\ faults \subseteq Faults /\ todo \subseteq Tokens
      /\ at \subseteq Tokens /\ turns \in 0..MaxTurns /\ sealed \in BOOLEAN
  BY DEF ExecTyped, ExecutorTypeOK, BooksTypeOK, JobsTypeOK, WorkTypeOK, HistoryTypeOK, Faults
<1>1. CASE StartTrade
  <2>1. Take /\ Head(queue).kind = "trade" /\ UNCHANGED <<books, outer, slot, history>>
    BY <1>1 DEF StartTrade
  <2>2. pc = "idle" /\ Head(queue) \in Trade /\ queue' \in Seq(Jobs) /\ stalled' = stalled
    BY <2>1, TakeTyped, TradeJobs
  <2>5. BooksTypeOK' /\ OuterTypeOK' /\ HistoryTypeOK'
    BY <2>1, PartsKept
  <2>6. JobsTypeOK'
    <3>1. stalled \in Jobs \cup {None} BY TypeParts
    <3> QED BY <1>0, <2>1, <2>2, <3>1 DEF JobsTypeOK, Jobs
  <2>3. CASE MayTrade(Head(queue))
    <3>1. job' = Head(queue) /\ pc' = "order" /\ at' = {job'.token} /\ seen' = {pos[job'.token]}
          /\ UNCHANGED <<todo, fill>>
      BY <1>1, <2>3 DEF StartTrade
    <3>2. job' \in Trade /\ job'.token \in Tokens /\ pos[job'.token] \in OpenRow \cup {Closed}
      BY <2>2, <3>1, TypeParts DEF Trade, Rows
    <3>3. InJob'
      BY <3>1, <3>2 DEF InJob
    <3>4. fill' \in Fills BY <3>1, TypeParts
    <3>5. WorkTypeOK' BY <1>0, <3>1, <3>2, <3>4, NoFillTyped DEF WorkTypeOK
    <3> QED BY <2>5, <2>6, <3>3, <3>4, <3>5 DEF ExecTyped, ExecutorTypeOK
  <2>4. CASE ~MayTrade(Head(queue))
    <3>1. UNCHANGED work
      BY <1>1, <2>4 DEF StartTrade
    <3>2. InJob'
      BY <2>2, <3>1 DEF InJob, work
    <3>3. WorkTypeOK' /\ fill' \in Fills BY <3>1, PartsKept
    <3> QED BY <2>5, <2>6, <3>2, <3>3 DEF ExecTyped, ExecutorTypeOK
  <2> QED BY <2>3, <2>4
<1>2. CASE SendOrder
  <2>1. /\ pc = "order" /\ Order(Buys(job), job.token, Amount(job, The(seen))) /\ pc' = "upsert"
        /\ executed' = IF fill'.ok THEN [executed EXCEPT ![job.id] = @ + 1] ELSE executed
        /\ UNCHANGED <<books, px, moves, jobs, job, todo, at, seen, sealed, peak>>
    BY <1>2 DEF SendOrder
  <2>2. PICK r \in OpenRow \cup {Closed} : seen = {r}
    BY <2>1 DEF ExecTyped, InJob
  <2>3. job \in Trade /\ job.token \in Tokens /\ job.id \in Ids /\ The(seen) = r
        /\ Buys(job) \in BOOLEAN
    BY <2>1, <2>2, TheOne DEF ExecTyped, InJob, Trade, Buys
  <2>4. Amount(job, The(seen)) \in Nat
    BY <2>3, AmountNat
  <2>5. venue' \in Account /\ fill' \in Fills /\ turns' \in 0..MaxTurns
        /\ faults' \in {faults, faults \cup {"refused"}}
    BY <1>0, <2>1, <2>3, <2>4, TypeParts, OrderTyped
  <2>6. executed' \in [Ids -> Nat]
    BY <1>0, <2>1, <2>3
  <2>7. InJob'
    BY <2>1, <2>2, <2>3 DEF InJob
  <2>8. pos' \in Rows /\ flow' \in Int /\ snap' \in Snapshots /\ faults' \subseteq Faults
    BY <1>0, <2>1, <2>5, TypeParts DEF books, Faults
  <2> QED BY <1>0, <2>1, <2>5, <2>6, <2>7, <2>8, StepTyped DEF books, jobs, Places
<1>3. CASE Upsert
  <2>1. pc = "upsert" /\ pc' = "record" /\ fill' = fill /\ job' = job
        /\ UNCHANGED <<status, flow, snap, outer, jobs, job, todo, at, seen, fill, history>>
    BY <1>3 DEF Upsert
  <2>2. PICK r \in OpenRow \cup {Closed} : seen = {r}
    BY <2>1 DEF ExecTyped, InJob
  <2>3. job \in Trade /\ job.token \in Tokens /\ The(seen) = r
    BY <2>1, <2>2, TheOne DEF ExecTyped, InJob, Trade
  <2> DEFINE amount == Amount(job, r)
             base == IF r.open THEN r.size ELSE 0
             diff == IF Buys(job) THEN amount \div fill.px ELSE -amount
             size == AtLeastZero(base + diff)
             row == IF pos[job.token].open /\ size = 0 THEN Closed ELSE Row(size, size * fill.px)
  <2>4. pos' = [pos EXCEPT ![job.token] = row]
    BY <1>3, <2>3 DEF Upsert
  <2>5. base \in Int
    BY RowParts
  <2>6. diff \in Int
    <3>1. amount \in Nat
      BY <2>3, AmountNat
    <3>2. fill.px \in Nat \ {0}
      BY TypeParts
    <3> HIDE DEF amount
    <3>3. amount \div fill.px \in Int
      BY <3>1, <3>2
    <3> QED BY <3>1, <3>3
  <2> HIDE DEF base, diff
  <2>7. size \in Nat
    BY <2>5, <2>6 DEF AtLeastZero
  <2> HIDE DEF size
  <2>8. row \in OpenRow \cup {Closed}
    <3>1. fill.px \in Nat
      BY TypeParts
    <3>2. size * fill.px \in Nat
      BY <2>7, <3>1
    <3> QED BY <2>7, <3>2 DEF OpenRow, Row
  <2> HIDE DEF row
  <2>9. pos' \in Rows
    BY <2>3, <2>4, <2>8, TypeParts, RowWritten
  <2>10. InJob'
    BY <2>1, <2>3 DEF InJob
  <2> QED BY <1>0, <2>1, <2>9, <2>10, TypeParts, StepTyped DEF outer, jobs, history, Places
<1>4. CASE Record
  <2>1. /\ flow' = flow + (IF Buys(job) THEN -fill.usd ELSE fill.usd)
        /\ Idle /\ slot' = (IF job = Sync THEN "free" ELSE slot)
        /\ UNCHANGED <<status, pos, snap, outer, queue, stalled, history>>
    BY <1>4 DEF Record, Complete
  <2>2. flow' \in Int
    BY <2>1, TypeParts
  <2> QED BY <1>0, <2>1, <2>2, TypeParts, IdleTyped DEF outer, history, Faults
<1> QED BY <1>1, <1>2, <1>3, <1>4

\* A step leaves alone what most steps leave alone.
LEMMA OtherTypes ==
  ASSUME ExecTyped
  PROVE  /\ status \in {"running", "paused", "halted"} /\ slot \in {"free", "taken", "failed"}
         /\ executed \in [Ids -> Nat] /\ faults \subseteq Faults /\ todo \subseteq Tokens
         /\ at \subseteq Tokens /\ turns \in 0..MaxTurns /\ sealed \in BOOLEAN
         /\ pc \in Places /\ moves \in 0..MaxMoves
BY DEF ExecTyped, ExecutorTypeOK, BooksTypeOK, OuterTypeOK, JobsTypeOK, WorkTypeOK, HistoryTypeOK,
       Faults, Places

\* The average of what was paid is a number of cents.
LEMMA AvgCostNat ==
  ASSUME ExecTyped, NEW t \in Tokens
  PROVE  AvgCost(t) \in Nat
<1>1. venue.cost[t] \in Nat /\ venue.shares[t] \in Nat /\ Half \in Nat
  BY TypeParts, GuardsAssumption
<1>2. venue.shares[t] # 0 => venue.cost[t] \div venue.shares[t] \in Nat
  BY <1>1
<1> QED BY <1>1, <1>2 DEF AvgCost

\* A mark is a row of the venue's holding, and one that sells it is at its price:
\* a bid that was not read is the cost itself.
LEMMA MarkTyped ==
  ASSUME ExecTyped, NEW t \in Tokens, NEW mark \in Marks(t)
  PROVE  /\ Row(venue.hold[t], venue.hold[t] * mark[2]) \in OpenRow
         /\ StopLossHit(mark[1], mark[2]) => mark[2] = px[t]
<1>1. venue.hold[t] \in Nat /\ px[t] \in Nat /\ AvgCost(t) \in Nat /\ Half \in Nat
  BY TypeParts, PxPositive, AvgCostNat, GuardsAssumption
<1>2. mark[2] \in Nat /\ mark[1] \in Nat /\ (mark[2] = px[t] \/ mark[1] = mark[2])
  BY <1>1 DEF Marks
<1>3. venue.hold[t] * mark[2] \in Nat
  BY <1>1, <1>2
<1>4. ASSUME NEW x \in Nat PROVE ~StopLossHit(x, x)
  <2>1. x > 0 => StopLossPct * x > 0
    BY GuardsAssumption
  <2>2. 100 * (x - x) = 0 /\ StopLossPct * x \in Int
    BY GuardsAssumption
  <2> QED BY <2>1, <2>2 DEF StopLossHit
<1>5. StopLossHit(mark[1], mark[2]) => mark[2] = px[t]
  BY <1>2, <1>4
<1> QED BY <1>1, <1>3, <1>5 DEF Row, OpenRow

\* A sale at the stop loss or in a flatten: the order alone.
LEMMA SaleTyped ==
  ASSUME ExecTyped, NEW t \in Tokens, pos[t].open, Order(FALSE, t, pos[t].size)
  PROVE  /\ venue' \in Account /\ fill' \in Fills /\ turns' \in 0..MaxTurns
         /\ faults' \subseteq Faults
<1>1. pos[t] \in OpenRow \cup {Closed} /\ pos[t].size \in Nat
  <2>1. pos[t] \in OpenRow \cup {Closed}
    BY TypeParts DEF Rows
  <2> QED BY <2>1, RowParts
<1>2. venue' \in Account /\ fill' \in Fills /\ turns' \in 0..MaxTurns
      /\ faults' \in {faults, faults \cup {"refused"}}
  BY <1>1, TypeParts, OrderTyped
<1> QED BY <1>2, OtherTypes DEF Faults

\* What a snapshot records is a number, whatever the rows say.
LEMMA WorthTyped ==
  ASSUME ExecTyped, NEW rows \in Rows,
         NEW snapped, snapped = [cash |-> snap.cash + flow, equity |-> Worth(snap.cash + flow, rows),
                                 high |-> Max({snap.high, Worth(snap.cash + flow, rows)}),
                                 open |-> Cardinality(OpenIn(rows))]
  PROVE  snapped \in Snapshots
<1> DEFINE equity == Worth(snap.cash + flow, rows)
           high == Max({snap.high, equity})
<1>1. equity \in Int
  BY ExposureNat, TypeParts DEF Worth
<1>2. high \in Nat
  <2>1. snap.high \in Nat
    BY TypeParts
  <2> HIDE DEF equity
  <2>2. high \in {snap.high, equity} /\ high >= snap.high
    <3>1. snap.high \in Int
      BY <2>1
    <3> QED BY <1>1, <3>1, MinMaxOfTwo, Zenon
  <2> HIDE DEF high
  <2>3. high \in Int
    BY <1>1, <2>1, <2>2
  <2> QED BY <2>1, <2>2, <2>3
<1>3. Cardinality(OpenIn(rows)) \in Nat
  <2>1. OpenIn(rows) \in SUBSET Tokens
    BY DEF OpenIn
  <2>2. IsFiniteSet(OpenIn(rows))
    BY <2>1, FS_Subset, GuardsAssumption
  <2> QED BY <2>2, FS_CardinalityType
<1>4. snap.cash + flow \in Int
  BY TypeParts
<1> HIDE DEF equity, high
<1>5. snapped = [cash |-> snap.cash + flow, equity |-> equity, high |-> high,
                 open |-> Cardinality(OpenIn(rows))]
  BY DEF equity, high
<1> QED BY <1>1, <1>2, <1>3, <1>4, <1>5 DEF Snapshots

\* The steps of a sync job keep the types.
LEMMA SyncTyped ==
  ASSUME ExecTyped,
         \/ StartSync \/ (\E t \in Tokens : MarkRemote(t)) \/ StopSell \/ StopBook
         \/ Snapshot \/ MarkHalted
  PROVE  ExecTyped'
<1>1. CASE StartSync
  <2>1. /\ Take /\ job' = Sync /\ pc' = "sync" /\ todo' = seen' /\ seen' \subseteq Tokens
        /\ UNCHANGED <<books, outer, slot, at, fill, executed, sealed, peak>>
        /\ turns' \in 0..MaxTurns /\ faults' \subseteq Faults
    BY <1>1, OtherTypes, ExecutorAssumption DEF StartSync, Turn, Faults
  <2>2. queue' \in Seq(Jobs) /\ stalled' = stalled /\ Sync \in Jobs
    BY <2>1, TakeTyped DEF Jobs
  <2>3. InJob'
    BY <2>1 DEF InJob
  <2>4. BooksTypeOK' /\ OuterTypeOK'
    BY <2>1, PartsKept
  <2>5. JobsTypeOK'
    <3>1. stalled \in Jobs \cup {None} BY TypeParts
    <3> QED BY <2>1, <2>2, <3>1, OtherTypes DEF JobsTypeOK, Jobs
  <2>6. WorkTypeOK' /\ fill' \in Fills
    <3>1. fill' \in Fills BY <2>1, TypeParts
    <3> QED BY <2>1, <3>1, OtherTypes, NoFillTyped DEF WorkTypeOK
  <2>7. HistoryTypeOK'
    BY <2>1, TypeParts, OtherTypes DEF HistoryTypeOK, Faults
  <2> QED BY <2>3, <2>4, <2>5, <2>6, <2>7 DEF ExecTyped, ExecutorTypeOK
<1>2. ASSUME NEW t \in Tokens, MarkRemote(t) PROVE ExecTyped'
  <2>1. PICK mark \in Marks(t) :
          /\ \/ mark = <<AvgCost(t), px[t]>> /\ UNCHANGED <<faults, turns>>
             \/ Turn /\ faults' = faults \cup {"fetch"}
          /\ pos' = [pos EXCEPT ![t] = Row(venue.hold[t], venue.hold[t] * mark[2])]
          /\ IF StopLossHit(mark[1], mark[2])
             THEN pc' = "stop" /\ at' = {t}
             ELSE UNCHANGED <<pc, at>>
    BY <1>2 DEF MarkRemote
  <2> DEFINE row == Row(venue.hold[t], venue.hold[t] * mark[2])
  <2>2. /\ pc = "sync" /\ todo' = todo \ {t}
        /\ UNCHANGED <<status, flow, snap, outer, jobs, job, seen, fill, executed, sealed, peak>>
    BY <1>2 DEF MarkRemote
  <2>3. /\ row \in OpenRow /\ row.open /\ row.value = row.size * mark[2]
        /\ StopLossHit(mark[1], mark[2]) => mark[2] = px[t]
    BY MarkTyped DEF Row
  <2>4. turns' \in 0..MaxTurns /\ faults' \subseteq Faults
    BY <2>1, OtherTypes, ExecutorAssumption DEF Turn, Faults
  <2>5. /\ pos' = [pos EXCEPT ![t] = row]
        /\ \/ pc' = "stop" /\ at' = {t} /\ mark[2] = px[t]
           \/ UNCHANGED <<pc, at>>
    BY <2>1, <2>3
  <2> HIDE DEF row
  <2>6. pos' \in Rows /\ pos'[t] = row
    BY <2>3, <2>5, TypeParts, RowWritten
  <2>7. at' \subseteq Tokens /\ pc' \in Places
    BY <2>2, <2>5, OtherTypes DEF Places
  <2>8. InJob'
    BY <2>2, <2>3, <2>5, <2>6 DEF InJob, outer
  <2> QED BY <2>2, <2>4, <2>6, <2>7, <2>8, TypeParts, OtherTypes, StepTyped DEF outer, jobs
<1>3. CASE StopSell
  <2>1. /\ pc = "stop" /\ Order(FALSE, The(at), pos[The(at)].size) /\ pc' = "stopped"
        /\ UNCHANGED <<books, px, moves, jobs, job, todo, at, seen, executed, sealed, peak>>
    BY <1>3 DEF StopSell
  <2>2. PICK t \in Tokens : at = {t} /\ pos[t].open /\ pos[t].value = pos[t].size * px[t]
    BY <2>1 DEF ExecTyped, InJob
  <2>3. The(at) = t
    BY <2>2, TheOne
  <2>4. venue' \in Account /\ fill' \in Fills /\ turns' \in 0..MaxTurns /\ faults' \subseteq Faults
    BY <2>1, <2>2, <2>3, SaleTyped
  <2>5. InJob'
    BY <2>1, <2>2 DEF InJob, books
  <2> QED BY <2>1, <2>4, <2>5, TypeParts, OtherTypes, StepTyped DEF books, jobs, Places
<1>4. CASE StopBook
  <2>1. /\ pc = "stopped" /\ flow' = flow + pos[The(at)].value
        /\ pc' = "sync" /\ at' = {} /\ fill' = NoFill /\ faults' = faults \cup {"stoploss"}
        /\ UNCHANGED <<status, pos, snap, outer, jobs, job, todo, seen, executed, sealed, peak, turns>>
    BY <1>4 DEF StopBook
  <2>2. PICK t \in Tokens : at = {t} /\ pos[t].open
    BY <2>1 DEF ExecTyped, InJob
  <2>3. pos[The(at)].value \in Nat
    <3>1. pos[t] \in OpenRow \cup {Closed}
      BY TypeParts DEF Rows
    <3>2. pos[t].value \in Nat
      BY <2>2, <3>1, RowParts
    <3> QED BY <2>2, <3>2, TheOne
  <2>4. flow' \in Int
    <3>1. flow \in Int
      BY TypeParts
    <3> QED BY <2>1, <2>3, <3>1
  <2>5. InJob'
    BY <2>1 DEF InJob
  <2>6. faults' \subseteq Faults
    BY <2>1, OtherTypes DEF Faults
  <2> QED BY <2>1, <2>4, <2>5, <2>6, NoFillTyped, TypeParts, OtherTypes, StepTyped DEF outer, jobs, Places
<1>5. CASE Snapshot
  <2>1. /\ pc = "sync" /\ todo = {} /\ pos' = [t \in Tokens |-> IF t \in seen THEN pos[t] ELSE Closed]
        /\ flow' = 0 /\ UNCHANGED <<status, outer, queue, stalled, history>>
        /\ snap' = [cash |-> snap.cash + flow, equity |-> Worth(snap.cash + flow, pos'),
                    high |-> Max({snap.high, Worth(snap.cash + flow, pos')}),
                    open |-> Cardinality(OpenIn(pos'))]
    BY <1>5 DEF Snapshot
  <2>2. (pc' = "halt" /\ UNCHANGED <<job, todo, at, seen, fill, slot>>) \/ Complete
    BY <1>5 DEF Snapshot
  <2>3. pos' \in Rows
    BY <2>1, TypeParts DEF Rows
  <2>4. snap' \in Snapshots
    BY <2>1, <2>3, WorthTyped
  <2>5. CASE pc' = "halt" /\ UNCHANGED <<job, todo, at, seen, fill, slot>>
    <3>1. InJob'
      BY <2>5 DEF InJob
    <3> QED BY <2>1, <2>3, <2>4, <2>5, <3>1, TypeParts, OtherTypes, StepTyped DEF outer, history, Places
  <2>6. CASE Complete
    BY <2>1, <2>3, <2>4, <2>6, TypeParts, OtherTypes, IdleTyped DEF Complete, outer, history, Faults
  <2> QED BY <2>2, <2>5, <2>6
<1>6. CASE MarkHalted
  BY <1>6, TypeParts, OtherTypes, IdleTyped DEF MarkHalted, Complete, outer, Faults
<1> QED BY <1>1, <1>2, <1>3, <1>4, <1>5, <1>6

\* The steps of a flatten job keep the types.
LEMMA FlattenTyped ==
  ASSUME ExecTyped,
         StartFlatten \/ (\E t \in Tokens : FlattenSell(t))
         \/ FlattenClose \/ FlattenRecord \/ FlattenDone
  PROVE  ExecTyped'
<1>1. CASE StartFlatten
  <2>1. /\ Take /\ job' = Flatten /\ pc' = "flatten" /\ todo' = OpenIn(pos)
        /\ UNCHANGED <<books, outer, slot, at, seen, fill, history>>
    BY <1>1 DEF StartFlatten
  <2>2. queue' \in Seq(Jobs) /\ stalled' = stalled /\ Flatten \in Jobs /\ todo' \subseteq Tokens
    BY <2>1, TakeTyped DEF Jobs, OpenIn
  <2>3. InJob'
    BY <2>1 DEF InJob, OpenIn, books
  <2>4. BooksTypeOK' /\ OuterTypeOK' /\ HistoryTypeOK'
    BY <2>1, PartsKept
  <2>5. JobsTypeOK'
    <3>1. stalled \in Jobs \cup {None} BY TypeParts
    <3> QED BY <2>1, <2>2, <3>1, OtherTypes DEF JobsTypeOK, Jobs
  <2>6. WorkTypeOK' /\ fill' \in Fills
    <3>1. fill' \in Fills BY <2>1, TypeParts
    <3> QED BY <2>1, <2>2, <3>1, OtherTypes, NoFillTyped DEF WorkTypeOK
  <2> QED BY <2>3, <2>4, <2>5, <2>6 DEF ExecTyped, ExecutorTypeOK
<1>2. ASSUME NEW t \in Tokens, FlattenSell(t) PROVE ExecTyped'
  <2>1. /\ pc = "flatten" /\ t \in todo /\ todo' = todo \ {t} /\ at' = {t}
        /\ Order(FALSE, t, pos[t].size) /\ pc' = "flattened"
        /\ UNCHANGED <<books, px, moves, jobs, job, seen, executed, sealed, peak>>
    BY <1>2 DEF FlattenSell
  <2>2. todo \subseteq OpenIn(pos) /\ pos[t].open
    BY <2>1 DEF ExecTyped, InJob, OpenIn
  <2>3. venue' \in Account /\ fill' \in Fills /\ turns' \in 0..MaxTurns /\ faults' \subseteq Faults
    BY <2>1, <2>2, SaleTyped
  <2>4. InJob'
    BY <2>1, <2>2 DEF InJob, OpenIn, books
  <2> QED BY <2>1, <2>3, <2>4, TypeParts, OtherTypes, StepTyped DEF books, jobs, Places
<1>3. CASE FlattenClose
  <2>1. PICK t \in Tokens : at = {t} /\ pos[t].open /\ todo \subseteq OpenIn(pos) \ {t}
    BY <1>3 DEF FlattenClose, ExecTyped, InJob
  <2>2. The(at) = t
    BY <2>1, TheOne
  <2>3. /\ pos' = [pos EXCEPT ![t] = Closed] /\ seen' = {pos[t]} /\ pc' = "closed"
        /\ UNCHANGED <<status, flow, snap, outer, jobs, job, todo, at, fill, history>>
    BY <1>3, <2>2 DEF FlattenClose
  <2>4. pos' \in Rows /\ \A u \in Tokens \ {t} : pos'[u] = pos[u]
    BY <2>3, TypeParts, RowWritten
  <2>5. pos[t] \in OpenRow
    <3>1. pos[t] \in OpenRow \cup {Closed}
      BY TypeParts DEF Rows
    <3> QED BY <2>1, <3>1 DEF Closed
  <2>6. InJob'
    BY <2>1, <2>3, <2>4, <2>5 DEF InJob, OpenIn
  <2> QED BY <2>3, <2>4, <2>6, TypeParts, OtherTypes, StepTyped DEF outer, jobs, history, Places
<1>4. CASE FlattenRecord
  <2>1. PICK r \in OpenRow : seen = {r} /\ todo \subseteq OpenIn(pos)
    BY <1>4 DEF FlattenRecord, ExecTyped, InJob
  <2>2. The(seen) = r
    BY <2>1, TheOne
  <2>3. /\ flow' = flow + r.value /\ faults' \in {faults, faults \cup {"offmark"}}
        /\ pc' = "flatten" /\ at' = {} /\ fill' = NoFill
        /\ UNCHANGED <<status, pos, snap, outer, jobs, job, todo, executed, sealed, peak, turns>>
    BY <1>4, <2>2 DEF FlattenRecord
  <2>4. flow' \in Int
    BY <2>3, TypeParts DEF OpenRow
  <2>5. InJob'
    BY <2>1, <2>3 DEF InJob
  <2>6. faults' \subseteq Faults
    BY <2>3, OtherTypes DEF Faults
  <2> QED BY <2>3, <2>4, <2>5, <2>6, NoFillTyped, TypeParts, OtherTypes, StepTyped
          DEF outer, jobs, Places
<1>5. CASE FlattenDone
  BY <1>5, TypeParts, OtherTypes, IdleTyped DEF FlattenDone, Complete, books, outer, history, Faults
<1> QED BY <1>1, <1>2, <1>3, <1>4, <1>5

\* Failures, quotes, the timer and the admin routes keep the types.
LEMMA AroundTyped ==
  ASSUME ExecTyped,
         \/ Throws \/ Crash \/ Requeue \/ (\E t \in Tokens, p \in Px : Quote(t, p))
         \/ SyncTimer \/ AdminPause \/ AdminResume \/ AdminFlatten
  PROVE  ExecTyped'
<1>1. CASE Throws \/ Crash
  <2>1. /\ Idle /\ turns' \in 0..MaxTurns /\ faults' \subseteq Faults
        /\ slot' \in {"free", "taken", "failed"} /\ stalled' \in {stalled, job}
        /\ UNCHANGED <<books, outer, queue, executed, sealed, peak>>
    BY <1>1, OtherTypes, ExecutorAssumption DEF Throws, Crash, Turn, Faults
  <2> QED BY <2>1, TypeParts, OtherTypes, IdleTyped DEF books, outer, Faults
<1>2. CASE Requeue
  <2>1. /\ stalled # None /\ queue' = <<stalled>> \o queue /\ stalled' = None
        /\ UNCHANGED <<books, outer, slot, work, history>>
    BY <1>2 DEF Requeue
  <2>2. stalled \in Jobs /\ <<stalled>> \in Seq(Jobs)
    BY <2>1, TypeParts
  <2>3. queue' \in Seq(Jobs)
    BY <2>1, <2>2, TypeParts
  <2>4. InJob'
    BY <2>1 DEF ExecTyped, InJob, books, work, outer
  <2>5. BooksTypeOK' /\ OuterTypeOK' /\ WorkTypeOK' /\ fill' \in Fills /\ HistoryTypeOK'
    BY <2>1, PartsKept
  <2>6. JobsTypeOK'
    BY <2>1, <2>3, OtherTypes DEF JobsTypeOK, Jobs
  <2> QED BY <2>4, <2>5, <2>6 DEF ExecTyped, ExecutorTypeOK
<1>3. ASSUME NEW t \in Tokens, NEW p \in Px, Quote(t, p) PROVE ExecTyped'
  <2>1. /\ pc = "idle" /\ moves < MaxMoves /\ moves' = moves + 1 /\ px' = [px EXCEPT ![t] = p]
        /\ peak' = Max({peak, Equity(venue, px')})
        /\ UNCHANGED <<books, venue, jobs, work, executed, sealed, faults, turns>>
    BY <1>3 DEF Quote
  <2>2. px' \in [Tokens -> Px] /\ moves' \in 0..MaxMoves
    <3>1. px' \in [Tokens -> Px]
      BY <2>1, TypeParts
    <3>2. moves \in 0..MaxMoves /\ MaxMoves \in Nat
      BY OtherTypes, ExecutorAssumption
    <3> QED BY <2>1, <3>1, <3>2
  <2>3. Equity(venue, px') \in Nat
    BY <2>2, TypeParts, EquityNat
  <2>4. peak' \in Nat
    <3> DEFINE worth == Equity(venue, px')
    <3>1. worth \in Nat /\ peak \in Nat
      BY <2>3, TypeParts
    <3> HIDE DEF worth
    <3>2. Max({peak, worth}) \in {peak, worth}
      <4>1. peak \in Int /\ worth \in Int
        BY <3>1
      <4> QED BY <4>1, MinMaxOfTwo, Zenon
    <3>3. Max({peak, worth}) \in Nat
      BY <3>1, <3>2
    <3> QED BY <2>1, <3>3 DEF worth
  <2>5. InJob'
    BY <2>1 DEF InJob, work
  <2>6. BooksTypeOK' /\ JobsTypeOK' /\ WorkTypeOK' /\ fill' \in Fills
    BY <2>1, PartsKept
  <2>7. OuterTypeOK'
    BY <2>1, <2>2, TypeParts DEF OuterTypeOK
  <2>8. HistoryTypeOK'
    BY <2>1, <2>4, OtherTypes DEF HistoryTypeOK, Faults
  <2> QED BY <2>5, <2>6, <2>7, <2>8 DEF ExecTyped, ExecutorTypeOK
<1>4. CASE SyncTimer \/ AdminFlatten
  <2>1. /\ queue' \in {Append(queue, Sync), Append(queue, Flatten)} /\ turns' \in 0..MaxTurns
        /\ slot' \in {"free", "taken", "failed"}
        /\ UNCHANGED <<books, outer, stalled, work, executed, sealed, peak, faults>>
    BY <1>4, OtherTypes, ExecutorAssumption DEF SyncTimer, AdminFlatten, Turn, history
  <2>2. queue' \in Seq(Jobs)
    <3>1. queue \in Seq(Jobs) /\ Sync \in Jobs /\ Flatten \in Jobs
      BY TypeParts DEF Jobs
    <3>2. Append(queue, Sync) \in Seq(Jobs) /\ Append(queue, Flatten) \in Seq(Jobs)
      BY <3>1
    <3> QED BY <2>1, <3>2
  <2>3. InJob'
    BY <2>1 DEF ExecTyped, InJob, books, work, outer
  <2>4. BooksTypeOK' /\ OuterTypeOK' /\ WorkTypeOK' /\ fill' \in Fills
    BY <2>1, PartsKept
  <2>5. JobsTypeOK'
    <3>1. stalled \in Jobs \cup {None} BY TypeParts
    <3> QED BY <2>1, <2>2, <3>1 DEF JobsTypeOK, Jobs
  <2>6. HistoryTypeOK'
    BY <2>1, TypeParts, OtherTypes DEF HistoryTypeOK, Faults
  <2> QED BY <2>3, <2>4, <2>5, <2>6 DEF ExecTyped, ExecutorTypeOK
<1>5. CASE AdminPause \/ AdminResume
  <2>1. /\ status' \in {"running", "paused"} /\ sealed' = FALSE /\ turns' \in 0..MaxTurns
        /\ UNCHANGED <<pos, flow, snap, outer, jobs, work, executed, peak, faults>>
    BY <1>5, OtherTypes, ExecutorAssumption DEF AdminPause, AdminResume, SetStatus, Turn
  <2>2. InJob'
    BY <2>1 DEF ExecTyped, InJob, work, outer
  <2>3. OuterTypeOK' /\ JobsTypeOK' /\ WorkTypeOK' /\ fill' \in Fills
    BY <2>1, PartsKept
  <2>4. BooksTypeOK'
    BY <2>1, TypeParts DEF BooksTypeOK, Rows, OpenRow
  <2>5. HistoryTypeOK'
    BY <2>1, TypeParts, OtherTypes DEF HistoryTypeOK, Faults
  <2> QED BY <2>2, <2>3, <2>4, <2>5 DEF ExecTyped, ExecutorTypeOK
<1> QED BY <1>1, <1>2, <1>3, <1>4, <1>5

\* Every step of the worker keeps the types.
LEMMA WorkerTyped == ASSUME ExecTyped, Worker PROVE ExecTyped'
BY TradeTyped, SyncTyped, FlattenTyped DEF Worker
-----------------------------------------------------------------------------
(* Cycles.                                                                   *)

Decisions == UNION {ToSet(p) : p \in Plans}
Groups == {Events[t] : t \in Tokens}

\* What a cycle has read, projected and still to queue: a planned sale is of a
\* position that was read, and once something is queued the caps hold.
CycleOK(r) ==
    /\ r \in CycleRecord /\ r.plan # <<>>
    /\ \A i \in DOMAIN r.plan : r.plan[i].action # "open" => r.rows[r.plan[i].token].open
    /\ r.exposure = Exposure(r.rows) + r.queued
    /\ r.count > 0 => /\ r.open <= MaxPositions
                      /\ 100 * r.exposure <= r.bankroll * MaxTotalPct

CyclesOK == /\ cycle \in [Cycles -> CycleRecord \cup {Off}]
            /\ \A c \in Cycles : cycle[c] # Off => CycleOK(cycle[c])

\* A decision of a plan.
LEMMA DecisionParts ==
  ASSUME NEW d \in Decisions
  PROVE  /\ d.action \in {"open", "close", "reduce"} /\ d.token \in Tokens /\ d.usd \in Nat
         /\ Events[d.token] \in Groups
<1>1. PICK p \in Plans : d \in ToSet(p)
  BY DEF Decisions
<1>2. p \in Seq([action : {"open", "close", "reduce"}, token : Tokens, usd : Nat])
  BY DeskAssumption
<1>3. d \in [action : {"open", "close", "reduce"}, token : Tokens, usd : Nat]
  <2> DEFINE D == [action : {"open", "close", "reduce"}, token : Tokens, usd : Nat]
  <2>1. PICK i \in DOMAIN p : d = p[i]
    BY <1>1 DEF ToSet
  <2>2. p \in Seq(D)
    BY <1>2
  <2> HIDE DEF D
  <2>3. d \in D
    BY <2>1, <2>2
  <2> QED BY <2>3 DEF D
<1> QED BY <1>3 DEF Groups

\* A plan is a sequence of decisions.
LEMMA PlanSeq == ASSUME NEW p \in Plans PROVE p \in Seq(Decisions)
<1>1. p \in Seq([action : {"open", "close", "reduce"}, token : Tokens, usd : Nat])
  BY DeskAssumption
<1>2. \A i \in DOMAIN p : p[i] \in Decisions
  BY <1>1 DEF Decisions, ToSet
<1> HIDE DEF Decisions
<1>3. p = [i \in 1..Len(p) |-> p[i]] /\ Len(p) \in Nat /\ DOMAIN p = 1..Len(p)
  BY <1>1
<1>4. p \in [1..Len(p) -> Decisions]
  BY <1>2, <1>3
<1> QED BY <1>3, <1>4

\* The record of a cycle, its parts named.
LEMMA RecordIs ==
  CycleRecord = [plan : Seq(Decisions), rows : Rows, bankroll : Int, exposure : Int, open : Nat,
                 event : [Groups -> Int], queued : Nat, count : Nat]
BY DEF CycleRecord, Decisions, Groups, Rows, OpenRow

\* The rest of a sequence of two or more.
LEMMA TailOf ==
  ASSUME NEW S, NEW p \in Seq(S), p # <<>>, Len(p) # 1
  PROVE  /\ Tail(p) \in Seq(S) /\ Tail(p) # <<>>
         /\ \A i \in DOMAIN Tail(p) : i + 1 \in DOMAIN p /\ Tail(p)[i] = p[i + 1]
<1>1. Len(p) \in Nat /\ Len(p) >= 2
  <2>1. Len(p) \in Nat /\ Len(p) # 0
    OBVIOUS
  <2> QED BY <2>1
<1>2. Len(Tail(p)) = Len(p) - 1 /\ Tail(p) \in Seq(S)
  BY <1>1
<1>3. Tail(p) # <<>>
  <2>1. Len(Tail(p)) # 0
    BY <1>1, <1>2
  <2>2. Len(<<>>) = 0
    OBVIOUS
  <2> QED BY <2>1, <2>2, Zenon
<1>4. ASSUME NEW i \in DOMAIN Tail(p) PROVE i + 1 \in DOMAIN p /\ Tail(p)[i] = p[i + 1]
  <2>1. i \in 1..Len(p) - 1 /\ DOMAIN p = 1..Len(p)
    BY <1>2
  <2> QED BY <1>1, <2>1
<1> QED BY <1>2, <1>3, <1>4

\* The parts of a cycle's record.
LEMMA RecordParts ==
  ASSUME NEW r \in CycleRecord
  PROVE  /\ r.plan \in Seq(Decisions) /\ r.rows \in Rows /\ r.bankroll \in Int /\ r.exposure \in Int
         /\ r.open \in Nat /\ r.event \in [Groups -> Int] /\ r.queued \in Nat /\ r.count \in Nat
BY RecordIs

\* The next decision of a cycle.
LEMMA HeadParts ==
  ASSUME NEW r, CycleOK(r), NEW d, d = Head(r.plan)
  PROVE  /\ d \in Decisions /\ d.action \in {"open", "close", "reduce"} /\ d.token \in Tokens
         /\ d.usd \in Nat /\ Events[d.token] \in Groups
         /\ d.action # "open" => r.rows[d.token].open
<1>1. r.plan \in Seq(Decisions) /\ r.plan # <<>>
  BY RecordParts DEF CycleOK
<1> HIDE DEF Decisions
<1>2. 1 \in DOMAIN r.plan /\ d = r.plan[1] /\ d \in Decisions
  BY <1>1
<1>3. d.action # "open" => r.rows[d.token].open
  BY <1>2 DEF CycleOK
<1> QED BY <1>2, <1>3, DecisionParts

\* A cycle that goes on keeps its record in order.
LEMMA AfterOK ==
  ASSUME NEW r, CycleOK(r)
  PROVE  After(r) = Off \/ CycleOK(After(r))
<1>1. r.plan \in Seq(Decisions) /\ r.plan # <<>> /\ r \in CycleRecord
  BY RecordParts DEF CycleOK
<1> SUFFICES ASSUME Len(r.plan) # 1 PROVE CycleOK(After(r))
  BY DEF After
<1> DEFINE q == [r EXCEPT !.plan = Tail(r.plan)]
           tail == Tail(r.plan)
<1>2. After(r) = q
  BY DEF After
<1>3. /\ tail \in Seq(Decisions) /\ tail # <<>>
      /\ \A i \in DOMAIN tail : i + 1 \in DOMAIN r.plan /\ tail[i] = r.plan[i + 1]
  BY <1>1, TailOf
<1> HIDE DEF tail
<1>4. /\ q.plan = tail /\ q.rows = r.rows /\ q.exposure = r.exposure /\ q.open = r.open
      /\ q.queued = r.queued /\ q.count = r.count /\ q.bankroll = r.bankroll
  BY <1>1 DEF CycleRecord, tail
<1>5. q \in CycleRecord
  BY <1>1, <1>3, RecordIs DEF tail
<1> HIDE DEF q
<1>6. \A i \in DOMAIN q.plan : q.plan[i].action # "open" => q.rows[q.plan[i].token].open
  BY <1>3, <1>4 DEF CycleOK
<1> QED BY <1>2, <1>3, <1>4, <1>5, <1>6 DEF CycleOK

\* What is queued is a number of dollars, within the caps if it is an open.
LEMMA ClippedParts ==
  ASSUME NEW r, CycleOK(r), NEW d, d = Head(r.plan), NEW usd, usd = Clipped(r, d)
  PROVE  /\ usd \in Nat
         /\ d.action = "open" /\ usd # 0 =>
               /\ r.open < MaxPositions
               /\ 100 * (r.exposure + usd) <= r.bankroll * MaxTotalPct
<1>1. /\ r.bankroll \in Int /\ r.exposure \in Int /\ r.open \in Nat /\ r.event \in [Groups -> Int]
      /\ d.usd \in Nat /\ Events[d.token] \in Groups
  BY RecordParts, HeadParts DEF CycleOK
<1>2. CASE d.action # "open"
  BY <1>1, <1>2 DEF Clipped
<1>3. CASE d.action = "open"
  <2>1. r.event[Events[d.token]] \in Int
    BY <1>1
  <2>2. usd = TradeGuards(d.usd, r.bankroll, r.exposure, r.event[Events[d.token]], r.open)
    BY <1>3 DEF Clipped
  <2>3. CASE usd = 0
    BY <1>3, <2>3
  <2>4. CASE usd # 0
    <3>1. d.usd \in Int
      BY <1>1
    <3> DEFINE asked == d.usd
               bankroll == r.bankroll
               exposure == r.exposure
               event == r.event[Events[d.token]]
               open == r.open
    <3>2. asked \in Int /\ bankroll \in Int /\ exposure \in Int /\ event \in Int /\ open \in Nat
      BY <1>1, <2>1, <3>1
    <3>3. usd = TradeGuards(asked, bankroll, exposure, event, open)
      BY <2>2
    <3> HIDE DEF asked, bankroll, exposure, event, open
    <3>4. usd \in Nat /\ open < MaxPositions /\ 100 * (exposure + usd) <= bankroll * MaxTotalPct
      BY <2>4, <3>2, <3>3, GuardsWithinCaps
    <3> QED BY <3>4 DEF bankroll, exposure, open
  <2> QED BY <2>3, <2>4
<1> QED BY <1>2, <1>3

\* What a cycle queues is a trade job.
LEMMA QueuedTyped ==
  ASSUME NEW r, CycleOK(r), NEW d, d = Head(r.plan), NEW i \in Ids
  PROVE  [kind |-> "trade", id |-> i, action |-> d.action, token |-> d.token,
          usd |-> Clipped(r, d), shares |-> PlannedShares(r, d)] \in Trade
<1> DEFINE usd == Clipped(r, d)
           shares == PlannedShares(r, d)
<1>1. usd \in Nat
  BY ClippedParts
<1>2. d.action \in {"open", "close", "reduce"} /\ d.token \in Tokens /\ d.usd \in Nat
  BY HeadParts
<1>3. shares \in Nat
  <2>1. CASE d.action = "open"
    BY <2>1 DEF PlannedShares
  <2>2. CASE d.action # "open"
    <3>1. r.rows[d.token].open /\ r.rows \in Rows
      BY <2>2, HeadParts, RecordParts DEF CycleOK
    <3>2. r.rows[d.token] \in OpenRow \cup {Closed}
      BY <1>2, <3>1 DEF Rows
    <3>3. r.rows[d.token].size \in Nat /\ r.rows[d.token].value \in Nat
      BY <3>1, <3>2, RowParts
    <3>4. shares = SellShares(d.action, d.usd, r.rows[d.token].size, r.rows[d.token].value)
      BY <2>2 DEF PlannedShares
    <3> HIDE DEF shares
    <3> QED BY <1>2, <3>3, <3>4, SellSharesNat
  <2> QED BY <2>1, <2>2
<1> HIDE DEF usd, shares
<1>4. [kind |-> "trade", id |-> i, action |-> d.action, token |-> d.token,
       usd |-> usd, shares |-> shares] \in Trade
  BY <1>1, <1>2, <1>3 DEF Trade
<1> QED BY <1>4 DEF usd, shares

\* A queued decision is counted before the next one is judged.
LEMMA ProjectedOK ==
  ASSUME NEW r, CycleOK(r), NEW d, d = Head(r.plan), NEW usd, usd = Clipped(r, d),
         ~(d.action = "open" /\ usd = 0)
  PROVE  CycleOK(Projected(r, d, usd))
<1>1. CASE d.action # "open"
  BY <1>1 DEF Projected
<1>2. CASE d.action = "open"
  <2>1. r \in CycleRecord /\ r.rows \in Rows /\ r.bankroll \in Int /\ r.exposure \in Int /\ r.open \in Nat
        /\ r.event \in [Groups -> Int] /\ r.queued \in Nat /\ r.count \in Nat
    BY RecordParts DEF CycleOK
  <2>2. usd \in Nat /\ r.open < MaxPositions
        /\ 100 * (r.exposure + usd) <= r.bankroll * MaxTotalPct
    BY <1>2, ClippedParts
  <2> DEFINE e == Events[d.token]
             event == [r.event EXCEPT ![e] = r.event[e] + usd]
             q == [r EXCEPT !.exposure = r.exposure + usd, !.open = r.open + 1, !.event = event,
                            !.queued = r.queued + usd, !.count = r.count + 1]
  <2>3. Projected(r, d, usd) = q
    BY <1>2, <2>1 DEF Projected, CycleRecord
  <2>4. event \in [Groups -> Int]
    <3>1. e \in Groups /\ r.event[e] + usd \in Int
      BY <2>1, <2>2, HeadParts
    <3> HIDE DEF e
    <3> QED BY <2>1, <3>1
  <2> HIDE DEF event
  <2>5. /\ q.plan = r.plan /\ q.rows = r.rows /\ q.exposure = r.exposure + usd
        /\ q.open = r.open + 1 /\ q.queued = r.queued + usd /\ q.bankroll = r.bankroll
    BY <2>1 DEF CycleRecord
  <2>6. q \in CycleRecord
    <3>1. r.exposure + usd \in Int /\ r.open + 1 \in Nat /\ r.queued + usd \in Nat /\ r.count + 1 \in Nat
      BY <2>1, <2>2
    <3> QED BY <2>1, <2>4, <3>1, RecordIs
  <2> HIDE DEF q
  <2>7. q.exposure = Exposure(q.rows) + q.queued
    <3>1. r.exposure = Exposure(r.rows) + r.queued /\ Exposure(r.rows) \in Nat
      BY <2>1, ExposureNat DEF CycleOK
    <3> QED BY <2>1, <2>2, <2>5, <3>1
  <2>8. q.open <= MaxPositions /\ 100 * q.exposure <= q.bankroll * MaxTotalPct
    BY <2>1, <2>2, <2>5, GuardsAssumption
  <2>9. /\ q.plan # <<>>
        /\ \A i \in DOMAIN q.plan : q.plan[i].action # "open" => q.rows[q.plan[i].token].open
    <3>1. q.plan = r.plan /\ q.rows = r.rows
      BY <2>5
    <3> QED BY <3>1 DEF CycleOK
  <2>10. CycleOK(q)
    BY <2>6, <2>7, <2>8, <2>9, Zenon DEF CycleOK
  <2> QED BY <2>3, <2>10
<1> QED BY <1>1, <1>2

\* A cycle starts with what it has read.
LEMMA StartOK ==
  ASSUME ExecTyped, CyclesOK, NEW c \in Cycles, NEW plan \in Plans, CycleStart(c, plan)
  PROVE  CyclesOK'
<1> DEFINE event == [e \in Groups |-> EventExposure(pos, e)]
           r == [plan |-> plan, rows |-> pos, bankroll |-> snap.equity, exposure |-> Exposure(pos),
                 open |-> snap.open, event |-> event, queued |-> 0, count |-> 0]
<1>1. cycle' = [cycle EXCEPT ![c] = r] /\ Fits(plan) /\ plan # <<>>
  BY DEF CycleStart, Groups
<1>2. plan \in Seq(Decisions) /\ pos \in Rows /\ snap.equity \in Int /\ snap.open \in Nat
      /\ Exposure(pos) \in Nat
  BY PlanSeq, TypeParts, ExposureNat
<1>3. event \in [Groups -> Int]
  BY <1>2, ExposureNat
<1> HIDE DEF event
<1>4. r \in CycleRecord
  BY <1>2, <1>3, RecordIs
<1>5. \A i \in DOMAIN r.plan : r.plan[i].action # "open" => r.rows[r.plan[i].token].open
  BY <1>1 DEF Fits
<1>6. r.plan # <<>> /\ r.exposure = Exposure(r.rows) + r.queued /\ r.count = 0
  BY <1>1, <1>2
<1> HIDE DEF r
<1>7. CycleOK(r)
  BY <1>4, <1>5, <1>6 DEF CycleOK
<1> QED BY <1>1, <1>4, <1>7 DEF CyclesOK

\* A cycle queues or drops its next decision.
LEMMA QueueOK ==
  ASSUME ExecTyped, CyclesOK, NEW c \in Cycles, QueueNext(c), DeskInv
  PROVE  CyclesOK' /\ ExecTyped'
<1> DEFINE r == cycle[c]
           d == Head(r.plan)
           usd == Clipped(r, d)
           shares == PlannedShares(r, d)
           j == [kind |-> "trade", id |-> nextId, action |-> d.action, token |-> d.token,
                 usd |-> usd, shares |-> shares]
<1>1. r # Off /\ UNCHANGED <<books, outer, stalled, slot, work, history>>
  BY DEF QueueNext
<1>2. CycleOK(r)
  BY <1>1 DEF CyclesOK
<1>3. \/ /\ d.action = "open" /\ usd = 0
         /\ cycle' = [cycle EXCEPT ![c] = After(r)] /\ UNCHANGED <<queue, nextId>>
      \/ /\ ~(d.action = "open" /\ usd = 0)
         /\ nextId <= MaxIds /\ queue' = Append(queue, j)
         /\ cycle' = [cycle EXCEPT ![c] = After(Projected(r, d, usd))]
  <2> HIDE DEF j
  <2> QED BY Zenon DEF QueueNext, j
<1> HIDE DEF j
<1>4. PICK q : (q = Off \/ CycleOK(q)) /\ cycle' = [cycle EXCEPT ![c] = q]
  BY <1>2, <1>3, AfterOK, ProjectedOK
<1>5. CyclesOK'
  BY <1>4 DEF CyclesOK, CycleOK
<1>6. queue' \in Seq(Jobs)
  <2>1. queue \in Seq(Jobs)
    BY TypeParts
  <2>2. ASSUME nextId <= MaxIds PROVE j \in Jobs
    <3>1. nextId \in Ids
      BY <2>2, ExecutorAssumption DEF DeskInv, Shapes, Ids
    <3>2. j \in Trade
      <4> HIDE DEF usd, shares, d, r
      <4> QED BY <1>2, <3>1, QueuedTyped DEF j, usd, shares, d
    <3> QED BY <3>2 DEF Jobs
  <2> HIDE DEF Jobs
  <2> QED BY <1>3, <2>1, <2>2
<1>7. InJob'
  BY <1>1 DEF ExecTyped, InJob, books, outer, work
<1>8. BooksTypeOK' /\ OuterTypeOK' /\ WorkTypeOK' /\ fill' \in Fills /\ HistoryTypeOK'
  BY <1>1, PartsKept
<1>9. JobsTypeOK'
  <2>1. stalled \in Jobs \cup {None} BY TypeParts
  <2> QED BY <1>1, <1>6, <2>1, OtherTypes DEF JobsTypeOK, Jobs
<1> QED BY <1>5, <1>7, <1>8, <1>9 DEF ExecTyped, ExecutorTypeOK

\* A step of others leaves the executor as it is.
LEMMA StillTyped == ASSUME ExecTyped, UNCHANGED vars PROVE ExecTyped'
<1>1. InJob'
  BY DEF ExecTyped, InJob, vars, work, books, outer
<1>2. UNCHANGED books /\ UNCHANGED outer /\ UNCHANGED jobs /\ UNCHANGED work /\ UNCHANGED history
  BY DEF vars
<1> QED BY <1>1, <1>2, PartsKept DEF ExecTyped, ExecutorTypeOK

\* Every step of the desk keeps types and cycles.
LEMMA TypedStep ==
  ASSUME ExecTyped, CyclesOK, DeskInv, [DeskNext]_allVars
  PROVE  ExecTyped' /\ CyclesOK'
<1>1. ASSUME UNCHANGED desk PROVE CyclesOK'
  BY <1>1 DEF CyclesOK, desk
<1>2. CASE Executor
  BY <1>1, <1>2, WorkerTyped DEF Executor
<1>3. CASE (Throws \/ Crash \/ Requeue \/ (\E t \in Tokens, p \in Px : Quote(t, p))) /\ UNCHANGED desk
  BY <1>1, <1>3, AroundTyped
<1>4. CASE \E c \in Cycles, plan \in Plans : CycleStart(c, plan)
  <2>1. UNCHANGED vars
    BY <1>4 DEF CycleStart
  <2>2. ExecTyped'
    BY <2>1, StillTyped
  <2> QED BY <1>4, <2>2, StartOK
<1>5. CASE \E c \in Cycles : QueueNext(c)
  BY <1>5, QueueOK
<1>6. CASE SyncTimer \/ AdminPause \/ AdminResume \/ AdminFlatten
  <2>1. UNCHANGED desk
    BY <1>6 DEF SyncTimer, AdminPause, AdminResume, AdminFlatten, SetStatus
  <2> QED BY <1>1, <1>6, <2>1, AroundTyped
<1>7. CASE UNCHANGED allVars
  <2>1. ExecTyped'
    BY <1>7, StillTyped DEF allVars
  <2> QED BY <1>1, <1>7, <2>1 DEF allVars
<1> QED BY <1>2, <1>3, <1>4, <1>5, <1>6, <1>7 DEF DeskNext

\* Types and cycles are in order in every reachable state.
LEMMA TypedInvariant == DeskSpec => [](ExecTyped /\ CyclesOK /\ DeskInv)
<1> DEFINE Inv == ExecTyped /\ CyclesOK /\ DeskInv
<1>1. DeskInit => Inv
  <2> SUFFICES ASSUME DeskInit PROVE CyclesOK
    BY InitTyped, InitDeskInv DEF DeskInit
  <2> QED BY DEF DeskInit, CyclesOK
<1>2. Inv /\ [DeskNext]_allVars => Inv'
  BY TypedStep, DeskStep
<1> HIDE DEF Inv
<1>3. DeskSpec => []Inv
  BY <1>1, <1>2, PTL DEF DeskSpec
<1> QED BY <1>3 DEF Inv

\* For any number of tokens, cycles and plans, and whatever fails: the worker
\* holds a trade whenever it sends, writes or books one, every row it writes and
\* every snapshot it takes is a number of dollars, and what a cycle queues is a
\* job (queue-worker.ts, risk.ts, paper-trading.ts).
THEOREM DeskTyped == DeskSpec => []DeskTypeOK
<1>1. ExecTyped /\ CyclesOK /\ DeskInv => DeskTypeOK
  BY DEF ExecTyped, CyclesOK, DeskInv, Shapes, DeskTypeOK
<1> QED BY <1>1, TypedInvariant, PTL

\* What a cycle has queued stays, together with what it read, within the total
\* cap and the number of positions, however many decisions its plan has: each is
\* judged with those before it (risk.ts:106-165).
THEOREM CyclesWithinCaps == DeskSpec => []CycleWithinCaps
<1>1. CyclesOK => CycleWithinCaps
  BY DEF CyclesOK, CycleOK, CycleWithinCaps
<1> QED BY <1>1, TypedInvariant, PTL

-----------------------------------------------------------------------------
(* Cash.                                                                     *)

\* The faults that leave the cash of the books right.
Booked == {"stoploss", "fetch"}

\* A stop loss sells at the mark it was judged with.
SoldAtMark == pc = "stopped" /\ faults \subseteq Booked => fill.usd = pos[The(at)].value

CashInv == CashReconciles /\ SoldAtMark

\* An order that was not refused moves the cash by what the fill says.
LEMMA OrderCash ==
  ASSUME ExecTyped, NEW buy \in BOOLEAN, NEW t \in Tokens, NEW amount \in Nat,
         Order(buy, t, amount), faults' \subseteq Booked
  PROVE  /\ fill'.usd \in Nat /\ venue'.cash = venue.cash + (IF buy THEN -fill'.usd ELSE fill'.usd)
         /\ ~buy => fill'.usd = amount * px[t]
<1>1. faults' # faults \cup {"refused"}
  BY DEF Booked
<1> DEFINE n == amount * px[t]
<1>2. /\ venue' = IF buy THEN Bought(t, amount) ELSE Sold(t, amount)
      /\ fill' = [ok |-> TRUE, px |-> px[t], usd |-> IF buy THEN amount ELSE n]
  BY <1>1 DEF Order
<1>3. px[t] \in Nat /\ n \in Nat /\ venue \in Account /\ venue.cash \in Nat
  <2>1. px[t] \in Nat \ {0}
    BY TypeParts, PxPositive
  <2> QED BY <2>1, TypeParts
<1>4. buy => venue'.cash = venue.cash - amount
  BY <1>2, <1>3 DEF Bought, Account
<1>5. ~buy => venue'.cash = venue.cash + n
  BY <1>2, <1>3 DEF Sold, Account
<1>6. fill'.usd = IF buy THEN amount ELSE n
  BY <1>2
<1> HIDE DEF n
<1>7. /\ fill'.usd \in Nat /\ venue'.cash = venue.cash + (IF buy THEN -fill'.usd ELSE fill'.usd)
      /\ ~buy => fill'.usd = n
  BY <1>3, <1>4, <1>5, <1>6
<1> QED BY <1>7 DEF n

\* Between the steps of a job nothing is in flight.
LEMMA NothingInFlight ==
  ASSUME pc \notin {"upsert", "record", "stopped", "flattened", "closed"}
  PROVE  InFlight = 0
BY DEF InFlight

\* What is booked, what is in flight and what the venue has.
LEMMA CashParts ==
  ASSUME ExecTyped, CashInv, faults \subseteq Booked
  PROVE  /\ snap.cash \in Int /\ flow \in Int /\ InFlight \in Int /\ venue.cash \in Nat
         /\ snap.cash + flow + InFlight = venue.cash
<1>1. snap.cash \in Int /\ flow \in Int /\ fill.usd \in Nat /\ venue.cash \in Nat
  BY TypeParts
<1>2. InFlight \in Int
  BY <1>1 DEF InFlight
<1> QED BY <1>1, <1>2 DEF CashInv, CashReconciles, Booked

\* A step that moves no cash and has nothing in flight before or after.
LEMMA CashStays ==
  ASSUME ExecTyped, CashInv, faults \subseteq faults', venue'.cash = venue.cash,
         pc \notin {"upsert", "record", "stopped", "flattened", "closed"},
         pc' \notin {"upsert", "record", "stopped", "flattened", "closed"},
         faults' \subseteq Booked => snap'.cash + flow' = snap.cash + flow
  PROVE  CashInv'
<1>1. InFlight = 0 /\ InFlight' = 0
  BY NothingInFlight DEF InFlight
<1>2. ASSUME faults' \subseteq Booked PROVE snap'.cash + flow' + InFlight' = venue'.cash
  BY <1>1, <1>2, CashParts
<1> QED BY <1>2 DEF CashInv, CashReconciles, SoldAtMark, Booked

\* A step that touches neither cash nor job.
LEMMA CashSame ==
  ASSUME CashInv, UNCHANGED <<snap, flow, pc, job, fill, at, pos, faults>>, venue'.cash = venue.cash
  PROVE  CashInv'
BY DEF CashInv, CashReconciles, SoldAtMark, InFlight, Buys

\* The steps of a trade job: what the venue took or paid is booked at the end.
LEMMA TradeCash ==
  ASSUME ExecTyped, CashInv, StartTrade \/ SendOrder \/ Upsert \/ Record
  PROVE  CashInv'
<1>1. CASE StartTrade
  <2>1. /\ pc = "idle" /\ pc' \in {"idle", "order"}
        /\ UNCHANGED <<snap, flow, venue, faults>>
    BY <1>1 DEF StartTrade, Take, work, books, outer, history
  <2> QED BY <2>1, CashStays
<1>2. CASE SendOrder
  <2>1. /\ pc = "order" /\ Order(Buys(job), job.token, Amount(job, The(seen))) /\ pc' = "upsert"
        /\ UNCHANGED <<snap, flow, job>>
    BY <1>2 DEF SendOrder, books
  <2>2. PICK r \in OpenRow \cup {Closed} : seen = {r}
    BY <2>1 DEF ExecTyped, InJob
  <2>3. job \in Trade /\ job.token \in Tokens /\ Buys(job) \in BOOLEAN /\ Amount(job, The(seen)) \in Nat
    BY <2>1, <2>2, TheOne, AmountNat DEF ExecTyped, InJob, Trade, Buys
  <2>4. ASSUME faults' \subseteq Booked PROVE snap'.cash + flow' + InFlight' = venue'.cash
    <3>1. /\ fill'.usd \in Nat
          /\ venue'.cash = venue.cash + (IF Buys(job) THEN -fill'.usd ELSE fill'.usd)
      BY <2>1, <2>3, <2>4, OrderCash
    <3>2. InFlight' = IF Buys(job) THEN -fill'.usd ELSE fill'.usd
      BY <2>1 DEF InFlight, Buys
    <3>3. faults \subseteq Booked
      BY <2>1, <2>4 DEF Order
    <3>4. snap.cash + flow = venue.cash /\ snap.cash \in Int /\ flow \in Int /\ venue.cash \in Nat
      BY <2>1, <3>3, CashParts, NothingInFlight
    <3> QED BY <2>1, <3>1, <3>2, <3>4
  <2> QED BY <2>1, <2>4 DEF CashInv, CashReconciles, SoldAtMark, Booked
<1>3. CASE Upsert
  <2>1. /\ pc = "upsert" /\ pc' = "record" /\ UNCHANGED <<snap, flow, job, fill, faults, venue>>
    BY <1>3 DEF Upsert, outer, history
  <2>2. InFlight' = InFlight
    BY <2>1 DEF InFlight, Buys
  <2> QED BY <2>1, <2>2 DEF CashInv, CashReconciles, SoldAtMark
<1>4. CASE Record
  <2>1. /\ pc = "record" /\ flow' = flow + (IF Buys(job) THEN -fill.usd ELSE fill.usd)
        /\ pc' = "idle" /\ UNCHANGED <<snap, venue, faults>>
    BY <1>4 DEF Record, Complete, Idle, outer, history
  <2>2. ASSUME faults \subseteq Booked PROVE snap'.cash + flow' + InFlight' = venue'.cash
    <3>1. InFlight = (IF Buys(job) THEN -fill.usd ELSE fill.usd) /\ InFlight' = 0
      BY <2>1 DEF InFlight
    <3> QED BY <2>1, <2>2, <3>1, CashParts
  <2> QED BY <2>1, <2>2 DEF CashInv, CashReconciles, SoldAtMark, Booked
<1> QED BY <1>1, <1>2, <1>3, <1>4

\* A sale of a stop loss or a flatten, sent and not yet booked.
LEMMA SaleCash ==
  ASSUME ExecTyped, CashInv, NEW t \in Tokens, pos[t].open, Order(FALSE, t, pos[t].size),
         pc \notin {"upsert", "record", "stopped", "flattened", "closed"}, pc' \in {"stopped", "flattened"},
         snap' = snap, flow' = flow, faults' \subseteq Booked
  PROVE  /\ snap'.cash + flow' + InFlight' = venue'.cash
         /\ fill'.usd = pos[t].size * px[t]
<1>1. pos[t].size \in Nat
  <2>1. pos[t] \in OpenRow \cup {Closed}
    BY TypeParts DEF Rows
  <2> QED BY <2>1, RowParts
<1>2. fill'.usd \in Nat /\ venue'.cash = venue.cash + fill'.usd /\ fill'.usd = pos[t].size * px[t]
  BY <1>1, OrderCash
<1>3. InFlight' = fill'.usd
  BY DEF InFlight
<1>4. faults \subseteq Booked
  BY DEF Order
<1>5. snap.cash + flow = venue.cash /\ snap.cash \in Int /\ flow \in Int /\ venue.cash \in Nat
  BY <1>4, CashParts, NothingInFlight
<1>6. snap'.cash + flow' + InFlight' = venue'.cash
  BY <1>2, <1>3, <1>5
<1> QED BY <1>2, <1>6

\* The steps of a sync job: the stop loss books the mark it sold at, and the
\* snapshot takes over what was booked before it.
LEMMA SyncCash ==
  ASSUME ExecTyped, CashInv,
         \/ StartSync \/ (\E t \in Tokens : MarkRemote(t)) \/ StopSell \/ StopBook
         \/ Snapshot \/ MarkHalted
  PROVE  CashInv'
<1>1. CASE StartSync
  <2>1. /\ pc = "idle" /\ pc' = "sync" /\ UNCHANGED <<snap, flow, venue>> /\ faults \subseteq faults'
    BY <1>1 DEF StartSync, Take, books, outer
  <2> QED BY <2>1, CashStays
<1>2. CASE \E t \in Tokens : MarkRemote(t)
  <2>1. /\ pc = "sync" /\ pc' \in {"sync", "stop"} /\ UNCHANGED <<snap, flow, venue>>
        /\ faults \subseteq faults'
    BY <1>2 DEF MarkRemote, outer
  <2> QED BY <2>1, CashStays
<1>3. CASE StopSell
  <2>1. /\ pc = "stop" /\ Order(FALSE, The(at), pos[The(at)].size) /\ pc' = "stopped"
        /\ UNCHANGED <<snap, flow, pos, at>>
    BY <1>3 DEF StopSell, books
  <2>2. PICK t \in Tokens : at = {t} /\ pos[t].open /\ pos[t].value = pos[t].size * px[t]
    BY <2>1 DEF ExecTyped, InJob
  <2>3. The(at) = t
    BY <2>2, TheOne
  <2>4. ASSUME faults' \subseteq Booked
        PROVE  /\ snap'.cash + flow' + InFlight' = venue'.cash
               /\ fill'.usd = pos[t].size * px[t]
    BY <2>1, <2>2, <2>3, <2>4, SaleCash
  <2> DEFINE n == pos[t].size * px[t]
  <2>5. faults' \subseteq Booked => fill'.usd = n
    BY <2>4
  <2>6. pos[t].value = n
    BY <2>2
  <2> HIDE DEF n
  <2>7. SoldAtMark'
    BY <2>1, <2>3, <2>5, <2>6 DEF SoldAtMark, The
  <2> QED BY <2>4, <2>7 DEF CashInv, CashReconciles, Booked
<1>4. CASE StopBook
  <2>1. /\ pc = "stopped" /\ pc' = "sync" /\ flow' = flow + pos[The(at)].value
        /\ faults' = faults \cup {"stoploss"} /\ UNCHANGED <<snap, venue>>
    BY <1>4 DEF StopBook, outer
  <2>2. ASSUME faults' \subseteq Booked PROVE snap'.cash + flow' + InFlight' = venue'.cash
    <3>1. faults \subseteq Booked
      BY <2>1, <2>2
    <3>2. fill.usd = pos[The(at)].value
      BY <2>1, <3>1 DEF CashInv, SoldAtMark
    <3>3. InFlight = fill.usd /\ InFlight' = 0
      BY <2>1 DEF InFlight
    <3> QED BY <2>1, <3>1, <3>2, <3>3, CashParts
  <2> QED BY <2>1, <2>2 DEF CashInv, CashReconciles, SoldAtMark, Booked
<1>5. CASE Snapshot
  <2>1. /\ pc = "sync" /\ pc' \in {"halt", "idle"} /\ flow' = 0 /\ snap'.cash = snap.cash + flow
        /\ UNCHANGED <<venue, faults>>
    BY <1>5 DEF Snapshot, Complete, Idle, outer, history
  <2>2. snap.cash + flow \in Int
    BY TypeParts
  <2>3. snap'.cash + flow' = snap.cash + flow
    BY <2>1, <2>2
  <2> QED BY <2>1, <2>3, CashStays
<1>6. CASE MarkHalted
  <2>1. /\ pc = "halt" /\ pc' = "idle" /\ UNCHANGED <<snap, flow, venue, faults>>
    BY <1>6 DEF MarkHalted, Complete, Idle, outer
  <2> QED BY <2>1, CashStays
<1> QED BY <1>1, <1>2, <1>3, <1>4, <1>5, <1>6

\* The steps of a flatten job: a sale off its last mark is a fault.
LEMMA FlattenCash ==
  ASSUME ExecTyped, CashInv,
         StartFlatten \/ (\E t \in Tokens : FlattenSell(t))
         \/ FlattenClose \/ FlattenRecord \/ FlattenDone
  PROVE  CashInv'
<1>1. CASE StartFlatten \/ FlattenDone
  <2>1. /\ pc \in {"idle", "flatten"} /\ pc' \in {"idle", "flatten"}
        /\ UNCHANGED <<snap, flow, venue, faults>>
    BY <1>1 DEF StartFlatten, FlattenDone, Take, Complete, Idle, books, outer, history
  <2> QED BY <2>1, CashStays
<1>2. ASSUME NEW t \in Tokens, FlattenSell(t) PROVE CashInv'
  <2>1. /\ pc = "flatten" /\ t \in todo /\ Order(FALSE, t, pos[t].size) /\ pc' = "flattened"
        /\ UNCHANGED <<snap, flow>>
    BY <1>2 DEF FlattenSell, books
  <2>2. pos[t].open
    BY <2>1 DEF ExecTyped, InJob, OpenIn
  <2>3. ASSUME faults' \subseteq Booked PROVE snap'.cash + flow' + InFlight' = venue'.cash
    BY <2>1, <2>2, <2>3, SaleCash
  <2> QED BY <2>1, <2>3 DEF CashInv, CashReconciles, SoldAtMark, Booked
<1>3. CASE FlattenClose
  <2>1. /\ pc = "flattened" /\ pc' = "closed" /\ UNCHANGED <<snap, flow, fill, faults, venue>>
    BY <1>3 DEF FlattenClose, outer, history
  <2>2. InFlight' = InFlight
    BY <2>1 DEF InFlight
  <2> QED BY <2>1, <2>2 DEF CashInv, CashReconciles, SoldAtMark
<1>4. CASE FlattenRecord
  <2> DEFINE value == The(seen).value
  <2>1. /\ pc = "closed" /\ pc' = "flatten" /\ flow' = flow + value
        /\ faults' = (IF fill.usd = value THEN faults ELSE faults \cup {"offmark"})
        /\ UNCHANGED <<snap, venue>>
    BY <1>4 DEF FlattenRecord, outer
  <2> HIDE DEF value
  <2>2. ASSUME faults' \subseteq Booked PROVE snap'.cash + flow' + InFlight' = venue'.cash
    <3>1. fill.usd = value /\ faults \subseteq Booked
      BY <2>1, <2>2 DEF Booked
    <3>2. InFlight = fill.usd /\ InFlight' = 0
      BY <2>1 DEF InFlight
    <3> QED BY <2>1, <3>1, <3>2, CashParts
  <2> QED BY <2>1, <2>2 DEF CashInv, CashReconciles, SoldAtMark, Booked
<1> QED BY <1>1, <1>2, <1>3, <1>4

\* Every step of the desk keeps the cash booked.
LEMMA CashStep ==
  ASSUME ExecTyped, CashInv, [DeskNext]_allVars
  PROVE  CashInv'
<1>1. CASE Executor
  BY <1>1, TradeCash, SyncCash, FlattenCash DEF Executor, Worker
<1>2. CASE Throws \/ Crash
  <2>1. faults' # {} /\ ~(faults' \subseteq Booked) /\ pc' = "idle"
    BY <1>2 DEF Throws, Crash, Idle, Booked
  <2> QED BY <2>1 DEF CashInv, CashReconciles, SoldAtMark, Booked
<1>3. CASE \/ Requeue \/ (\E t \in Tokens, p \in Px : Quote(t, p))
           \/ (\E c \in Cycles, plan \in Plans : CycleStart(c, plan))
           \/ (\E c \in Cycles : QueueNext(c))
           \/ SyncTimer \/ AdminPause \/ AdminResume \/ AdminFlatten
           \/ UNCHANGED allVars
  <2>1. UNCHANGED <<snap, flow, pc, job, fill, at, pos, faults, venue>>
    BY <1>3 DEF Requeue, Quote, CycleStart, QueueNext, SyncTimer, AdminPause, AdminResume,
         AdminFlatten, SetStatus, allVars, vars, books, outer, work, history
  <2> QED BY <2>1, CashSame
<1> QED BY <1>1, <1>2, <1>3 DEF DeskNext

\* The cash of the books, the last snapshot and the events since, is the venue's
\* cash up to the order in flight, for any number of tokens and jobs in any
\* order, until an order is refused, a job fails or a flatten is booked off its
\* mark (queue-worker.ts: the event's notional is the fill's).
THEOREM CashIsBooked == DeskSpec => []CashReconciles
<1> DEFINE Typed == ExecTyped /\ CyclesOK /\ DeskInv
<1>1. DeskInit => CashInv
  <2> SUFFICES ASSUME DeskInit PROVE CashInv
    OBVIOUS
  <2>1. pc = "idle" /\ snap.cash = Bankroll /\ flow = 0 /\ venue.cash = Bankroll
    BY DEF DeskInit, Init
  <2>2. InFlight = 0
    BY <2>1, NothingInFlight
  <2> QED BY <2>1, <2>2, GuardsAssumption DEF CashInv, CashReconciles, SoldAtMark
<1>2. Typed /\ CashInv /\ [DeskNext]_allVars => CashInv'
  BY CashStep
<1>3. CashInv => CashReconciles
  BY DEF CashInv
<1>4. DeskSpec => []Typed
  BY TypedInvariant
<1> HIDE DEF Typed
<1> QED BY <1>1, <1>2, <1>3, <1>4, PTL DEF DeskSpec

-----------------------------------------------------------------------------
(* The halt.                                                                 *)

\* While a sync runs, what it has marked is what the venue holds, and what it
\* has not seen the venue does not hold.
Marked == \A t \in Tokens :
             IF t \in seen THEN t \notin todo => pos[t] = Row(venue.hold[t], venue.hold[t] * px[t])
                           ELSE venue.hold[t] = 0

HaltInv == /\ Equity(venue, px) <= peak
           /\ faults = {} => snap.high <= peak
           /\ faults = {} /\ pc = "sync" => Marked
           /\ faults = {} /\ pc = "halt" => DrawdownHalts(peak, Equity(venue, px))

\* A whole number of shares costs no more than the dollars they were bought for.
LEMMA SharesWorth ==
  ASSUME NEW usd \in Nat, NEW p \in Nat \ {0}
  PROVE  (usd \div p) \in Nat /\ (usd \div p) * p <= usd
OBVIOUS

\* A buy loses at most the rest of a share, a sale nothing.
LEMMA OrderWorth ==
  ASSUME ExecTyped, NEW buy \in BOOLEAN, NEW t \in Tokens, NEW amount \in Nat,
         Order(buy, t, amount), px' = px
  PROVE  Equity(venue', px') <= Equity(venue, px)
<1>1. venue \in Account /\ venue' \in Account /\ px \in [Tokens -> Px]
  BY TypeParts, OtherTypes, OrderTyped
<1> DEFINE f == [u \in Tokens |-> venue.hold[u] * px[u]]
           g == [u \in Tokens |-> venue'.hold[u] * px[u]]
<1>2. /\ Equity(venue, px) = venue.cash + SumFunctionOnSet(f, Tokens)
      /\ SumFunctionOnSet(f, Tokens) \in Nat /\ \A u \in Tokens : f[u] \in Nat
  BY <1>1, EquityNat
<1>3. /\ Equity(venue', px') = venue'.cash + SumFunctionOnSet(g, Tokens)
      /\ \A u \in Tokens : g[u] \in Nat
  BY <1>1, EquityNat
<1>4. CASE venue' = venue
  <2>1. Equity(venue, px) \in Nat
    BY <1>1, EquityNat
  <2>2. Equity(venue', px') = Equity(venue, px)
    BY <1>4
  <2> QED BY <2>1, <2>2
<1>5. ASSUME \A u \in Tokens \ {t} : venue'.hold[u] = venue.hold[u]
      PROVE  SumFunctionOnSet(g, Tokens) = SumFunctionOnSet(f, Tokens) - f[t] + g[t]
  <2>1. \A u \in Tokens \ {t} : g[u] = f[u]
    BY <1>5
  <2>2. \A u \in Tokens : f[u] \in Int /\ g[u] \in Int
    BY <1>2, <1>3
  <2> HIDE DEF f, g
  <2> QED BY <2>1, <2>2, GuardsAssumption, SumChange
<1>6. px[t] \in Nat \ {0} /\ venue.hold[t] \in Nat /\ venue.cash \in Nat
      /\ venue.hold \in [Tokens -> Nat]
  BY TypeParts, PxPositive
<1> DEFINE held == venue.hold[t]
           p == px[t]
<1>7. CASE venue' = Bought(t, amount)
  <2> DEFINE n == amount \div p
  <2>1. n \in Nat /\ n * p <= amount
    BY <1>6, SharesWorth
  <2>2. venue'.cash = venue.cash - amount /\ venue'.hold = [venue.hold EXCEPT ![t] = held + n]
    BY <1>1, <1>7 DEF Bought, Account
  <2>3. /\ \A u \in Tokens \ {t} : venue'.hold[u] = venue.hold[u]
        /\ venue'.hold[t] = held + n
    BY <1>6, <2>2
  <2>4. f[t] = held * p /\ g[t] = (held + n) * p
    BY <2>3
  <2>5. SumFunctionOnSet(g, Tokens) = SumFunctionOnSet(f, Tokens) - f[t] + g[t]
    BY <1>5, <2>3
  <2>6. (held + n) * p = held * p + n * p /\ held * p \in Nat /\ n * p \in Nat
    <3> HIDE DEF n
    <3> QED BY <1>6, <2>1
  <2> HIDE DEF f, g, n, held, p
  <2> QED BY <1>2, <1>3, <1>6, <2>1, <2>2, <2>4, <2>5, <2>6
<1>8. CASE venue' = Sold(t, amount)
  <2>1. venue'.cash = venue.cash + amount * p
        /\ venue'.hold = [venue.hold EXCEPT ![t] = held - amount]
    BY <1>1, <1>8 DEF Sold, Account
  <2>2. /\ \A u \in Tokens \ {t} : venue'.hold[u] = venue.hold[u]
        /\ venue'.hold[t] = held - amount
    BY <1>6, <2>1
  <2>3. f[t] = held * p /\ g[t] = (held - amount) * p
    BY <2>2
  <2>4. SumFunctionOnSet(g, Tokens) = SumFunctionOnSet(f, Tokens) - f[t] + g[t]
    BY <1>5, <2>2
  <2>5. (held - amount) * p = held * p - amount * p /\ held * p \in Int /\ amount * p \in Int
    BY <1>6
  <2> HIDE DEF f, g, held, p
  <2> QED BY <1>2, <1>3, <1>6, <2>1, <2>3, <2>4, <2>5
<1> QED BY <1>4, <1>7, <1>8 DEF Order

\* Rows that say what the venue holds, at its prices, add up to the account.
LEMMA RowsAreWorth ==
  ASSUME ExecTyped, NEW rows \in Rows,
         \A t \in Tokens : IF rows[t].open THEN rows[t].value = venue.hold[t] * px[t]
                                           ELSE venue.hold[t] = 0
  PROVE  venue.cash + Exposure(rows) = Equity(venue, px)
<1> DEFINE f == [t \in Tokens |-> venue.hold[t] * px[t]]
           value == [t \in OpenIn(rows) |-> rows[t].value]
<1>1. venue \in Account /\ px \in [Tokens -> Px]
  BY TypeParts
<1>2. /\ Equity(venue, px) = venue.cash + SumFunctionOnSet(f, Tokens)
      /\ \A t \in Tokens : f[t] \in Int
  BY <1>1, EquityNat
<1>3. OpenIn(rows) \in SUBSET Tokens
  BY DEF OpenIn
<1>4. IsFiniteSet(OpenIn(rows)) /\ IsFiniteSet(Tokens)
  BY <1>3, FS_Subset, GuardsAssumption
<1>5. ASSUME NEW t \in Tokens \ OpenIn(rows) PROVE f[t] = 0
  <2>1. rows[t] \in OpenRow \cup {Closed}
    BY DEF Rows
  <2>2. ~rows[t].open
    BY <2>1, RowParts DEF OpenIn
  <2>3. venue.hold[t] = 0 /\ px[t] \in Nat
    BY <1>1, <2>2, PxPositive
  <2> QED BY <2>3
<1>6. \A t \in OpenIn(rows) : f[t] = value[t]
  BY <1>3 DEF OpenIn
<1>7. DOMAIN value = OpenIn(rows) /\ Exposure(rows) = SumFunction(value)
  BY DEF Exposure
<1> HIDE DEF f, value
<1>8. SumFunctionOnSet(f, Tokens) = SumFunctionOnSet(f, OpenIn(rows))
  BY <1>2, <1>3, <1>4, <1>5, SumSupport
<1>9. SumFunctionOnSet(f, OpenIn(rows)) = SumFunctionOnSet(value, OpenIn(rows))
  BY <1>4, <1>6, SumSame
<1> QED BY <1>2, <1>7, <1>8, <1>9 DEF SumFunction

\* A drawdown from a mark is one from every higher mark.
LEMMA HigherMark ==
  ASSUME NEW low \in Nat, NEW high \in Nat, low <= high, NEW equity \in Int,
         DrawdownHalts(low, equity)
  PROVE  DrawdownHalts(high, equity)
<1> DEFINE kept == 100 - DrawdownPct
           a == kept * low
           b == kept * high
           c == DrawdownPct * low
           d == DrawdownPct * high
<1>1. DrawdownPct \in 1..100
  BY GuardsAssumption
<1>2. kept \in Nat
  BY <1>1
<1>3. a \in Int /\ b \in Int /\ c \in Int /\ d \in Int
  BY <1>1
<1>4. a = 100 * low - c /\ b = 100 * high - d
  BY <1>1
<1>5. a <= b
  <2> DEFINE rest == high - low
  <2>1. rest \in Nat
    OBVIOUS
  <2>2. kept * rest \in Nat
    <3> HIDE DEF kept, rest
    <3> QED BY <1>2, <2>1
  <2>3. b - a = kept * rest
    BY <1>1
  <2> HIDE DEF a, b, rest, kept
  <2> QED BY <1>3, <2>2, <2>3
<1>6. low > 0 /\ 100 * (low - equity) >= c
  BY DEF DrawdownHalts
<1> HIDE DEF a, b, c, d, kept
<1>7. high > 0 /\ 100 * (high - equity) >= d
  BY <1>3, <1>4, <1>5, <1>6
<1> QED BY <1>7 DEF DrawdownHalts, d

\* What the account was worth at its best.
LEMMA PeakParts ==
  ASSUME ExecTyped, HaltInv
  PROVE  /\ Equity(venue, px) \in Nat /\ peak \in Nat /\ Equity(venue, px) <= peak
         /\ snap.high \in Nat
BY TypeParts, EquityNat DEF HaltInv

\* An order leaves the marks' account, but a sync never halts on it: its faults or
\* its place say so.
LEMMA OrderHalt ==
  ASSUME ExecTyped, HaltInv, NEW buy \in BOOLEAN, NEW t \in Tokens, NEW amount \in Nat,
         Order(buy, t, amount), UNCHANGED <<px, snap, peak>>, pc' \notin {"sync", "halt"}
  PROVE  HaltInv'
<1>1. Equity(venue', px') <= Equity(venue, px)
  BY OrderWorth
<1>2. venue' \in Account /\ px' \in [Tokens -> Px]
  BY TypeParts, OtherTypes, OrderTyped
<1>3. Equity(venue', px') \in Nat
  BY <1>2, EquityNat
<1>4. Equity(venue', px') <= peak'
  BY <1>1, <1>3, PeakParts
<1>5. faults' = {} => snap'.high <= peak'
  BY DEF Order, HaltInv
<1> QED BY <1>4, <1>5 DEF HaltInv

\* A step that leaves the venue, its prices and the snapshot.
LEMMA QuietHalt ==
  ASSUME HaltInv, UNCHANGED <<venue, px, snap, peak>>, faults' = {} => faults = {},
         faults' = {} /\ pc' = "sync" => Marked', faults' = {} /\ pc' = "halt" => pc = "halt"
  PROVE  HaltInv'
<1>1. Equity(venue', px') = Equity(venue, px)
  OBVIOUS
<1> QED BY <1>1 DEF HaltInv

\* The steps of a sync job: what they mark and the snapshot they take.
LEMMA SyncHalt ==
  ASSUME ExecTyped, CashInv, HaltInv,
         \/ StartSync \/ (\E t \in Tokens : MarkRemote(t)) \/ StopSell \/ StopBook
         \/ Snapshot \/ MarkHalted
  PROVE  HaltInv'
<1>1. CASE StartSync
  <2>1. /\ UNCHANGED <<venue, px, snap, peak>> /\ pc' = "sync" /\ todo' = seen'
        /\ faults \subseteq faults'
        /\ faults' = {} => seen' = {t \in Tokens : venue.hold[t] > 0}
    BY <1>1 DEF StartSync, books, outer
  <2>2. ASSUME faults' = {} PROVE Marked'
    <3>1. \A t \in Tokens : venue.hold[t] \in Nat
      BY TypeParts
    <3>2. \A t \in Tokens : t \notin seen' => venue.hold[t] = 0
      BY <2>1, <2>2, <3>1
    <3> QED BY <2>1, <3>2 DEF Marked
  <2> QED BY <2>1, <2>2, QuietHalt
<1>2. ASSUME NEW t \in Tokens, MarkRemote(t) PROVE HaltInv'
  <2> DEFINE row == Row(venue.hold[t], venue.hold[t] * px[t])
  <2>1. /\ pc = "sync" /\ todo' = todo \ {t} /\ t \in todo /\ pc' \in {"sync", "stop"}
        /\ UNCHANGED <<venue, px, snap, peak, seen>>
        /\ faults' = {} => pos' = [pos EXCEPT ![t] = row] /\ faults = {}
    <3>1. PICK mark \in Marks(t) :
            /\ \/ mark = <<AvgCost(t), px[t]>> /\ UNCHANGED <<faults, turns>>
               \/ Turn /\ faults' = faults \cup {"fetch"}
            /\ pos' = [pos EXCEPT ![t] = Row(venue.hold[t], venue.hold[t] * mark[2])]
      BY <1>2 DEF MarkRemote
    <3>2. faults' = {} => mark[2] = px[t] /\ faults = {}
      BY <3>1
    <3> QED BY <1>2, <3>1, <3>2 DEF MarkRemote, outer
  <2>2. row \in OpenRow
    <3>1. <<AvgCost(t), px[t]>> \in Marks(t) /\ <<AvgCost(t), px[t]>>[2] = px[t]
      BY DEF Marks
    <3> QED BY <3>1, MarkTyped
  <2>3. ASSUME faults' = {} PROVE Marked'
    <3>1. Marked
      BY <2>1, <2>3 DEF HaltInv
    <3>2. pos'[t] = row /\ \A u \in Tokens \ {t} : pos'[u] = pos[u]
      <4> HIDE DEF row
      <4> QED BY <2>1, <2>2, <2>3, TypeParts, RowWritten
    <3>3. ASSUME NEW u \in Tokens
          PROVE  IF u \in seen
                 THEN u \notin todo' => pos'[u] = Row(venue.hold[u], venue.hold[u] * px[u])
                 ELSE venue.hold[u] = 0
      <4>1. CASE u = t
        <5>1. u \notin seen => venue.hold[u] = 0
          BY <3>1 DEF Marked
        <5> QED BY <3>2, <4>1, <5>1
      <4>2. CASE u # t
        <5>1. pos'[u] = pos[u] /\ (u \notin todo' <=> u \notin todo)
          BY <2>1, <3>2, <4>2
        <5> QED BY <3>1, <5>1 DEF Marked
      <4> QED BY <4>1, <4>2
    <3> QED BY <2>1, <3>3 DEF Marked
  <2> QED BY <2>1, <2>3, QuietHalt
<1>3. CASE StopSell
  <2>1. /\ pc = "stop" /\ Order(FALSE, The(at), pos[The(at)].size) /\ pc' = "stopped"
        /\ UNCHANGED <<px, snap, peak>>
    BY <1>3 DEF StopSell, books
  <2>2. PICK t \in Tokens : at = {t} /\ pos[t].open
    BY <2>1 DEF ExecTyped, InJob
  <2>3. The(at) = t /\ pos[t] \in OpenRow \cup {Closed}
    BY <2>2, TheOne, TypeParts DEF Rows
  <2>4. pos[t].size \in Nat
    BY <2>2, <2>3, RowParts
  <2> QED BY <2>1, <2>3, <2>4, OrderHalt
<1>4. CASE StopBook
  <2>1. faults' # {} /\ pc' = "sync" /\ UNCHANGED <<venue, px, snap, peak>>
    BY <1>4 DEF StopBook, outer
  <2> QED BY <2>1, QuietHalt
<1>5. CASE Snapshot
  <2>1. /\ pc = "sync" /\ todo = {} /\ pos' = [t \in Tokens |-> IF t \in seen THEN pos[t] ELSE Closed]
        /\ UNCHANGED <<venue, px, peak, faults>> /\ pc' \in {"halt", "idle"}
    BY <1>5 DEF Snapshot, Complete, Idle, outer, history
  <2> DEFINE equity == Worth(snap.cash + flow, pos')
             high == Max({snap.high, equity})
  <2>2. snap'.high = high /\ (pc' = "halt" => DrawdownHalts(high, equity))
    BY <1>5 DEF Snapshot, Complete, Idle
  <2>3. ASSUME faults = {} PROVE equity = Equity(venue, px) /\ equity \in Nat /\ equity <= peak
    <3>1. pos' \in Rows
      BY <2>1, TypeParts DEF Rows
    <3>2. Marked
      BY <2>1, <2>3 DEF HaltInv
    <3>3. ASSUME NEW t \in Tokens
          PROVE  IF pos'[t].open THEN pos'[t].value = venue.hold[t] * px[t]
                                 ELSE venue.hold[t] = 0
      <4> DEFINE n == venue.hold[t] * px[t]
                 row == Row(venue.hold[t], n)
      <4>1. row.open = TRUE /\ row.value = n /\ Closed.open = FALSE
        BY DEF Row, Closed
      <4>2. IF t \in seen THEN pos[t] = row ELSE venue.hold[t] = 0
        BY <2>1, <3>2 DEF Marked
      <4>3. pos'[t] = IF t \in seen THEN pos[t] ELSE Closed
        BY <2>1
      <4> HIDE DEF n, row
      <4>4. IF pos'[t].open THEN pos'[t].value = n ELSE venue.hold[t] = 0
        BY <4>1, <4>2, <4>3
      <4> QED BY <4>4 DEF n
    <3>4. venue.cash + Exposure(pos') = Equity(venue, px)
      BY <3>1, <3>3, RowsAreWorth
    <3>5. snap.cash + flow = venue.cash
      <4>1. InFlight = 0
        BY <2>1, NothingInFlight
      <4>2. faults \subseteq Booked
        BY <2>3
      <4> QED BY <4>1, <4>2, CashParts
    <3> QED BY <3>4, <3>5, PeakParts DEF Worth
  <2>4. equity \in Int
    <3>1. pos' \in Rows
      BY <2>1, TypeParts DEF Rows
    <3> QED BY <3>1, ExposureNat, TypeParts DEF Worth
  <2>5. snap.high \in Int
    BY TypeParts
  <2> HIDE DEF equity
  <2>6. high \in {snap.high, equity}
    BY <2>4, <2>5, MinMaxOfTwo, Zenon
  <2> HIDE DEF high
  <2>7. ASSUME faults = {} PROVE high \in Nat /\ high <= peak
    BY <2>3, <2>6, <2>7, PeakParts DEF HaltInv
  <2>8. ASSUME faults = {}, pc' = "halt" PROVE DrawdownHalts(peak, Equity(venue, px))
    <3>1. DrawdownHalts(high, equity) /\ high \in Nat /\ high <= peak /\ peak \in Nat
      BY <2>2, <2>7, <2>8, PeakParts
    <3>2. DrawdownHalts(peak, equity)
      BY <2>4, <3>1, HigherMark
    <3> QED BY <2>3, <2>8, <3>2
  <2>9. Equity(venue', px') = Equity(venue, px)
    BY <2>1
  <2> QED BY <2>1, <2>2, <2>7, <2>8, <2>9 DEF HaltInv
<1>6. CASE MarkHalted
  <2>1. pc' = "idle" /\ UNCHANGED <<venue, px, snap, peak, faults>>
    BY <1>6 DEF MarkHalted, Complete, Idle, outer
  <2> QED BY <2>1, QuietHalt
<1> QED BY <1>1, <1>2, <1>3, <1>4, <1>5, <1>6

\* The steps of trade and flatten jobs leave no sync behind.
LEMMA TradeHalt ==
  ASSUME ExecTyped, HaltInv,
         \/ StartTrade \/ SendOrder \/ Upsert \/ Record
         \/ StartFlatten \/ (\E t \in Tokens : FlattenSell(t))
         \/ FlattenClose \/ FlattenRecord \/ FlattenDone
  PROVE  HaltInv'
<1>1. CASE StartTrade \/ Upsert \/ Record \/ StartFlatten \/ FlattenDone
  <2>1. UNCHANGED <<venue, px, snap, peak, faults>> /\ pc' \notin {"sync", "halt"}
    BY <1>1 DEF StartTrade, Take, Upsert, Record, StartFlatten, FlattenDone, Complete, Idle,
         work, books, outer, history
  <2> QED BY <2>1, QuietHalt
<1>2. CASE FlattenClose \/ FlattenRecord
  <2>1. UNCHANGED <<venue, px, snap, peak>> /\ pc' \notin {"sync", "halt"} /\ faults \subseteq faults'
    BY <1>2 DEF FlattenClose, FlattenRecord, outer, history
  <2> QED BY <2>1, QuietHalt
<1>3. CASE SendOrder
  <2>1. /\ pc = "order" /\ Order(Buys(job), job.token, Amount(job, The(seen))) /\ pc' = "upsert"
        /\ UNCHANGED <<px, snap, peak>>
    BY <1>3 DEF SendOrder, books
  <2>2. PICK r \in OpenRow \cup {Closed} : seen = {r}
    BY <2>1 DEF ExecTyped, InJob
  <2>3. job \in Trade /\ job.token \in Tokens /\ Buys(job) \in BOOLEAN /\ Amount(job, The(seen)) \in Nat
    BY <2>1, <2>2, TheOne, AmountNat DEF ExecTyped, InJob, Trade, Buys
  <2> QED BY <2>1, <2>3, OrderHalt
<1>4. ASSUME NEW t \in Tokens, FlattenSell(t) PROVE HaltInv'
  <2>1. /\ pc = "flatten" /\ t \in todo /\ Order(FALSE, t, pos[t].size) /\ pc' = "flattened"
        /\ UNCHANGED <<px, snap, peak>>
    BY <1>4 DEF FlattenSell, books
  <2>2. pos[t].open /\ pos[t] \in OpenRow \cup {Closed}
    BY <2>1, TypeParts DEF ExecTyped, InJob, OpenIn, Rows
  <2>3. pos[t].size \in Nat
    BY <2>2, RowParts
  <2> QED BY <2>1, <2>3, OrderHalt
<1> QED BY <1>1, <1>2, <1>3, <1>4

\* Every step of the desk.
LEMMA HaltStep ==
  ASSUME ExecTyped, CashInv, HaltInv, [DeskNext]_allVars
  PROVE  /\ HaltInv'
         /\ status # "halted" /\ status' = "halted" /\ faults = {} =>
               DrawdownHalts(peak, Equity(venue, px))
<1>1. HaltInv'
  <2>1. CASE Executor
    BY <2>1, TradeHalt, SyncHalt DEF Executor, Worker
  <2>2. CASE Throws \/ Crash
    <3>1. faults' # {} /\ UNCHANGED <<venue, px, snap, peak>>
      BY <2>2 DEF Throws, Crash, books, outer
    <3> QED BY <3>1, QuietHalt
  <2>3. ASSUME NEW t \in Tokens, NEW p \in Px, Quote(t, p) PROVE HaltInv'
    <3>1. /\ pc' = "idle" /\ px' = [px EXCEPT ![t] = p] /\ UNCHANGED <<venue, snap, faults>>
          /\ peak' = Max({peak, Equity(venue, px')})
      BY <2>3 DEF Quote, books, work
    <3> DEFINE worth == Equity(venue, px')
    <3>2. px' \in [Tokens -> Px]
      BY <3>1, TypeParts
    <3>3. worth \in Nat
      BY <3>2, TypeParts, EquityNat
    <3>4. peak \in Nat /\ snap.high \in Nat
      BY PeakParts
    <3>5. Equity(venue', px') = worth
      BY <3>1
    <3> HIDE DEF worth
    <3>6. peak' \in {peak, worth} /\ peak' >= peak /\ peak' >= worth
      <4>1. peak \in Int /\ worth \in Int
        BY <3>3, <3>4
      <4>2. peak' = Max({peak, worth})
        BY <3>1 DEF worth
      <4> QED BY <4>1, <4>2, MinMaxOfTwo, Zenon
    <3>7. peak' \in Nat
      BY <3>3, <3>4, <3>6
    <3>8. worth <= peak' /\ (faults = {} => snap.high <= peak')
      BY <3>3, <3>4, <3>6, <3>7 DEF HaltInv
    <3> QED BY <3>1, <3>5, <3>8 DEF HaltInv
  <2>4. CASE \/ Requeue
             \/ (\E c \in Cycles, plan \in Plans : CycleStart(c, plan))
             \/ (\E c \in Cycles : QueueNext(c))
             \/ SyncTimer \/ AdminPause \/ AdminResume \/ AdminFlatten
             \/ UNCHANGED allVars
    <3>1. UNCHANGED <<venue, px, snap, peak, pc, faults, seen, todo, pos>>
      BY <2>4 DEF Requeue, CycleStart, QueueNext, SyncTimer, AdminPause, AdminResume,
           AdminFlatten, SetStatus, allVars, vars, books, outer, work, history
    <3>2. faults' = {} /\ pc' = "sync" => Marked'
      BY <3>1 DEF HaltInv, Marked
    <3> QED BY <3>1, <3>2, QuietHalt
  <2> QED BY <2>1, <2>2, <2>3, <2>4 DEF DeskNext
<1>2. ASSUME status # "halted", status' = "halted", faults = {}
      PROVE  DrawdownHalts(peak, Equity(venue, px))
  <2>1. MarkHalted
    BY <1>2 DEF DeskNext, Executor, Worker, StartTrade, SendOrder, Upsert, Record, StartSync,
         MarkRemote, StopSell, StopBook, Snapshot, StartFlatten, FlattenSell, FlattenClose,
         FlattenRecord, FlattenDone, Throws, Crash, Requeue, Quote, CycleStart, QueueNext,
         SyncTimer, AdminPause, AdminResume, AdminFlatten, SetStatus, books, vars, allVars
  <2> QED BY <1>2, <2>1 DEF MarkHalted, HaltInv
<1> QED BY <1>1, <1>2

\* With no fault and no booked stop loss the worker halts the system only on a
\* drawdown the account really had, from its highest worth ever, for any number
\* of tokens, price moves and jobs (queue-worker.ts: the snapshot's high water mark).
THEOREM HaltsAreReal == DeskSpec => HaltIsReal
<1> DEFINE Typed == ExecTyped /\ CyclesOK /\ DeskInv
           Inv == CashInv /\ HaltInv
           Step == status # "halted" /\ status' = "halted" /\ faults = {} =>
                      DrawdownHalts(peak, Equity(venue, px))
<1>1. DeskInit => Inv
  <2> SUFFICES ASSUME DeskInit PROVE Inv
    OBVIOUS
  <2>1. /\ pc = "idle" /\ snap.cash = Bankroll /\ flow = 0 /\ snap.high = Bankroll
        /\ peak = Bankroll /\ venue.cash = Bankroll /\ faults = {}
        /\ \A t \in Tokens : venue.hold[t] = 0 /\ ~pos[t].open
    BY DEF DeskInit, Init, Closed
  <2>2. InFlight = 0
    BY <2>1, NothingInFlight
  <2>3. CashInv
    BY <2>1, <2>2, GuardsAssumption DEF CashInv, CashReconciles, SoldAtMark
  <2>4. ExecTyped
    BY InitTyped DEF DeskInit
  <2>5. venue.cash + Exposure(pos) = Equity(venue, px)
    BY <2>1, <2>4, TypeParts, RowsAreWorth
  <2>6. Exposure(pos) = 0
    <3> DEFINE value == [t \in OpenIn(pos) |-> pos[t].value]
    <3>1. OpenIn(pos) = {} /\ DOMAIN value = OpenIn(pos)
      BY <2>1 DEF OpenIn
    <3>2. Exposure(pos) = SumFunction(value)
      BY DEF Exposure
    <3> HIDE DEF value
    <3> QED BY <3>1, <3>2, SumEmpty DEF SumFunction
  <2>7. Equity(venue, px) <= peak
    BY <2>1, <2>5, <2>6, GuardsAssumption
  <2> QED BY <2>1, <2>3, <2>7, GuardsAssumption DEF HaltInv
<1>2. Typed /\ Inv /\ [DeskNext]_allVars => Inv' /\ Step
  BY CashStep, HaltStep
<1>3. DeskSpec => []Typed
  BY TypedInvariant
<1> HIDE DEF Typed, Inv, Step
<1>4. DeskSpec => [][Step]_allVars
  BY <1>1, <1>2, <1>3, PTL DEF DeskSpec
<1> QED BY <1>4 DEF Step, HaltIsReal
=============================================================================
