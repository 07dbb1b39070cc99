--------------------------- MODULE PaperServiceProofs ---------------------------
(***************************************************************************)
(* The lock, for any set of processes and any number of saves: it is safe  *)
(* as long as nobody takes it from a live run.  Crashes, locks that are    *)
(* left behind and reclaimed, and the gap between creating the file and    *)
(* stamping it are all covered.  Then the scheduler, for any number of     *)
(* processes, saves, faults and commands: it uses the lock file as         *)
(* BookLock says, so its runs are as safe as the lock is, and its flags    *)
(* neither lose a trigger nor let jobs pile up.                            *)
(***************************************************************************)
EXTENDS PaperService, FiniteSetTheorems, TLAPS
-----------------------------------------------------------------------------
(* The lock (BookLock).                                                    *)

\* While no lock was taken from a live run, whoever is inside is the one the
\* lock file is of, and works on a copy that is still what portfolio.json holds.
LockInv ==
    /\ \A p \in Inside : lock # NoLock /\ lock.by = p
    /\ \A p \in Procs : pc[p] = "in" => mem[p] = disk
    /\ saved \subseteq disk

IInv == TypeOK /\ (~robbed => LockInv)
-----------------------------------------------------------------------------
\* The initial state is well typed.
LEMMA TypeInit == Init => TypeOK
<1> SUFFICES ASSUME Init PROVE TypeOK
  OBVIOUS
<1>1. lock \in LockFile \cup {NoLock}
  BY DEF Init
<1>2. pc \in [Procs -> Pc]
  BY DEF Init, Pc
<1>3. disk \subseteq Update /\ saved \subseteq Update /\ mem \in [Procs -> SUBSET Update]
  BY DEF Init
<1>4. saves \in [Procs -> 0..MaxSaves]
  BY LockAssumption DEF LockAssumption, Init
<1>5. QED
  BY <1>1, <1>2, <1>3, <1>4 DEF TypeOK, Init

\* Every step keeps the variables in their types (acquireBookLock,
\* releaseBookLock, savePortfolio, and the processes around them).
LEMMA TypeStep == TypeOK /\ [Next]_vars => TypeOK'
<1> SUFFICES ASSUME TypeOK, [Next]_vars PROVE TypeOK'
  OBVIOUS
<1> USE LockAssumption DEF LockAssumption, TypeOK, LockFile, LockBy, NoLock, Pc, Update, Goto
<1>1. ASSUME NEW p \in Procs, Create(p) PROVE TypeOK'
  BY <1>1 DEF Create
<1>2. ASSUME NEW p \in Procs, Stamp(p) PROVE TypeOK'
  BY <1>2 DEF Stamp
<1>3. ASSUME NEW p \in Procs, Read(p) PROVE TypeOK'
  BY <1>3 DEF Read
<1>4. ASSUME NEW p \in Procs, Reclaim(p) PROVE TypeOK'
  BY <1>4 DEF Reclaim, Remove
<1>5. ASSUME NEW p \in Procs, SaveBook(p) PROVE TypeOK'
  BY <1>5 DEF SaveBook
<1>6. ASSUME NEW p \in Procs, Release(p) PROVE TypeOK'
  BY <1>6 DEF Release, Remove
<1>7. ASSUME NEW p \in Procs, Crash(p) PROVE TypeOK'
  BY <1>7 DEF Crash
<1>8. CASE Age
  BY <1>8 DEF Age
<1>9. CASE UNCHANGED vars
  BY <1>9 DEF vars
<1>10. QED
  BY <1>1, <1>2, <1>3, <1>4, <1>5, <1>6, <1>7, <1>8, <1>9 DEF Next, Step

\* The variables always have their types.
THEOREM TypeCorrect == Spec => []TypeOK
  BY TypeInit, TypeStep, PTL DEF Spec
-----------------------------------------------------------------------------
\* A step that robs nobody keeps the lock with the run that is inside.
LEMMA LockStep ==
    ASSUME TypeOK, TypeOK', [Next]_vars, ~robbed => LockInv, ~robbed'
    PROVE  LockInv'
<1> USE DEF LockInv, Inside, Goto, TypeOK
<1>0. ~robbed /\ LockInv
  <2>1. robbed => robbed'
    BY DEF Next, Step, Create, Stamp, Read, Reclaim, SaveBook, Release, Crash, Age, Remove, vars
  <2>2. QED
    BY <2>1
<1>1. ASSUME NEW p \in Procs, Create(p) PROVE LockInv'
  BY <1>0, <1>1 DEF Create, LockBy, NoLock
<1>2. ASSUME NEW p \in Procs, Stamp(p) PROVE LockInv'
  BY <1>0, <1>2 DEF Stamp, LockBy, NoLock
<1>3. ASSUME NEW p \in Procs, Read(p) PROVE LockInv'
  BY <1>0, <1>3 DEF Read
<1>4. ASSUME NEW p \in Procs, Reclaim(p) PROVE LockInv'
  <2>1. Inside = {}
    BY <1>0, <1>4 DEF Reclaim, Remove
  <2>2. Inside' = {}
    BY <1>4, <2>1 DEF Reclaim
  <2>3. QED
    BY <1>0, <1>4, <2>2 DEF Reclaim
<1>5. ASSUME NEW p \in Procs, SaveBook(p) PROVE LockInv'
  <2>1. \A q \in Procs : pc[q] = "in" => q = p
    BY <1>0, <1>5 DEF SaveBook
  <2>2. mem'[p] = disk' /\ saved' \subseteq disk'
    BY <1>0, <1>5 DEF SaveBook
  <2>3. QED
    BY <1>0, <1>5, <2>1, <2>2 DEF SaveBook
<1>6. ASSUME NEW p \in Procs, Release(p) PROVE LockInv'
  <2>1. \A q \in Inside : q = p
    BY <1>0, <1>6 DEF Release
  <2>2. Inside' = {}
    BY <1>6, <2>1 DEF Release
  <2>3. QED
    BY <1>0, <1>6, <2>2 DEF Release
<1>7. ASSUME NEW p \in Procs, Crash(p) PROVE LockInv'
  BY <1>0, <1>7 DEF Crash
<1>8. CASE Age
  BY <1>0, <1>8 DEF Age, LockFile, NoLock
<1>9. CASE UNCHANGED vars
  BY <1>0, <1>9 DEF vars
<1>10. QED
  BY <1>1, <1>2, <1>3, <1>4, <1>5, <1>6, <1>7, <1>8, <1>9 DEF Next, Step

\* Runs exclude each other and no saved update is lost, whatever crashes and
\* whichever abandoned locks are reclaimed, unless a lock is taken from a live
\* run (the comment on acquireBookLock, with the proviso it does not state).
THEOREM LockSafe == Spec => []SafeUnlessRobbed
<1>1. Init => IInv
  BY TypeInit DEF Init, IInv, LockInv, Inside
<1>2. IInv /\ [Next]_vars => IInv'
  BY TypeStep, LockStep DEF IInv
<1>3. IInv => SafeUnlessRobbed
  BY DEF IInv, LockInv, SafeUnlessRobbed, MutualExclusion, NoLostUpdate, Inside
<1>4. QED
  BY <1>1, <1>2, <1>3, PTL DEF Spec
-----------------------------------------------------------------------------
(* The scheduler.                                                          *)

Places(q, k) == {i \in DOMAIN q : q[i] = k}
Count(q, k) == Cardinality(Places(q, k))

\* A job that the flag of its kind stands for.
Flagged(pend, k) == IF pend[k] THEN 1 ELSE 0

\* A set flag has a job behind it; jobs beyond the flagged one come of failures.
QueueOK(q, pend, fails) ==
    /\ q \in Seq(Kind)
    /\ \A k \in Kind : pend[k] => Places(q, k) # {}
    /\ \A k \in Kind : Count(q, k) <= fails[k] + Flagged(pend, k)

ServiceInv == ServiceTypeOK /\ QueueOK(queue, pending, failures)
-----------------------------------------------------------------------------
(* The scheduler's use of the lock.                                          *)

\* Whatever the scheduler, the commands and time do is a step of the lock
\* protocol or leaves it alone.
LEMMA ServiceStepLocks == [ServiceNext]_serviceVars => [Next]_vars
<1> SUFFICES ASSUME [ServiceNext]_serviceVars PROVE [Next]_vars
  OBVIOUS
<1>1. CASE JobLocks
  <2>1. Step(Scheduler) /\ Scheduler \in Procs
    BY <1>1, ServiceAssumption DEF JobLocks, Step
  <2> QED BY <2>1 DEF Next
<1>2. ASSUME NEW p \in Procs, Manual(p) PROVE [Next]_vars
  BY <1>2 DEF Manual, Step, Next
<1>3. ASSUME NEW p \in Procs, ManualCrash(p) PROVE [Next]_vars
  BY <1>3 DEF ManualCrash, Next
<1>4. CASE ServiceCrash
  BY <1>4, ServiceAssumption DEF ServiceCrash, Next
<1>5. CASE LockAges
  BY <1>5 DEF LockAges, Next
<1>6. CASE UNCHANGED vars
  BY <1>6
<1> QED
  BY <1>1, <1>2, <1>3, <1>4, <1>5, <1>6
     DEF ServiceNext, Work, TickTimer, OnMinute, StartJob, JobEnds, JobFails, serviceVars

\* The scheduler and the commands next to it implement the lock protocol: what
\* holds of every behaviour of BookLock holds of the service.
THEOREM ServiceUsesLock == ServiceSpec => Spec
<1>1. ServiceInit => Init
  BY DEF ServiceInit
<1> QED BY <1>1, ServiceStepLocks, PTL DEF ServiceSpec, Spec

\* Cycles, ticks and manual commands exclude each other and no save of any of
\* them is lost, unless the lock is taken from a live run (index.ts, store.ts:57-95).
THEOREM ServiceSafe == ServiceSpec => []SafeUnlessRobbed
  BY ServiceUsesLock, LockSafe, PTL
-----------------------------------------------------------------------------
(* Jobs in a queue.                                                          *)

\* The places of a kind are finitely many.
LEMMA PlacesFinite ==
  ASSUME NEW q \in Seq(Kind), NEW k
  PROVE  IsFiniteSet(Places(q, k)) /\ Count(q, k) \in Nat
<1>1. IsFiniteSet(1..Len(q))
  BY FS_Interval
<1>2. Places(q, k) \in SUBSET (1..Len(q))
  BY DEF Places
<1> QED BY <1>1, <1>2, FS_Subset, FS_CardinalityType DEF Count

\* A job that is appended adds its place.
LEMMA CountAppend ==
  ASSUME NEW q \in Seq(Kind), NEW j \in Kind, NEW k \in Kind
  PROVE  /\ Append(q, j) \in Seq(Kind)
         /\ Places(q, k) \subseteq Places(Append(q, j), k)
         /\ j = k => Places(Append(q, j), k) # {}
         /\ Count(Append(q, j), k) = Count(q, k) + (IF j = k THEN 1 ELSE 0)
<1>1. /\ Append(q, j) \in Seq(Kind) /\ Len(q) \in Nat
      /\ DOMAIN Append(q, j) = 1..Len(q) + 1 /\ DOMAIN q = 1..Len(q)
      /\ \A i \in 1..Len(q) : Append(q, j)[i] = q[i]
      /\ Append(q, j)[Len(q) + 1] = j
  OBVIOUS
<1>2. Places(Append(q, j), k) = Places(q, k) \cup (IF j = k THEN {Len(q) + 1} ELSE {})
  BY <1>1 DEF Places
<1>3. Len(q) + 1 \notin Places(q, k)
  BY <1>1 DEF Places
<1>4. IsFiniteSet(Places(q, k)) /\ Count(q, k) \in Nat
  BY PlacesFinite
<1>5. CASE j = k
  <2>1. Places(Append(q, j), k) = Places(q, k) \cup {Len(q) + 1}
    BY <1>2, <1>5
  <2>2. Cardinality(Places(q, k) \cup {Len(q) + 1}) = Cardinality(Places(q, k)) + 1
    BY <1>3, <1>4, FS_AddElement
  <2> QED BY <1>1, <1>5, <2>1, <2>2 DEF Count
<1>6. CASE j # k
  <2>1. Places(Append(q, j), k) = Places(q, k) BY <1>2, <1>6
  <2> QED BY <1>1, <1>4, <1>6, <2>1 DEF Count
<1> QED BY <1>5, <1>6

\* A job that is taken from the head takes its place along.
LEMMA CountTail ==
  ASSUME NEW q \in Seq(Kind), q # <<>>, NEW k \in Kind
  PROVE  /\ Head(q) \in Kind /\ Tail(q) \in Seq(Kind)
         /\ Head(q) # k /\ Places(q, k) # {} => Places(Tail(q), k) # {}
         /\ Count(Tail(q), k) + (IF Head(q) = k THEN 1 ELSE 0) <= Count(q, k)
<1> DEFINE T == Places(Tail(q), k)
           P == Places(q, k) \ {1}
           f == [i \in T |-> i + 1]
<1>1. /\ Head(q) = q[1] /\ Head(q) \in Kind /\ Tail(q) \in Seq(Kind) /\ Len(q) \in Nat \ {0}
      /\ DOMAIN q = 1..Len(q) /\ DOMAIN Tail(q) = 1..Len(q) - 1
      /\ \A i \in 1..Len(q) - 1 : Tail(q)[i] = q[i + 1]
  OBVIOUS
<1>2. \A i \in T : i \in Nat /\ i + 1 \in P
  BY <1>1 DEF Places
<1>3. f \in Injection(T, P)
  BY <1>2 DEF Injection, IsInjective
<1>4. Cardinality(T) <= Cardinality(P)
  BY <1>3, PlacesFinite, FS_RemoveElement, FS_Injection, SMTT(30)
<1>5. Head(q) = k <=> 1 \in Places(q, k)
  BY <1>1 DEF Places
<1>6. Cardinality(P) = Count(q, k) - (IF Head(q) = k THEN 1 ELSE 0)
  <2>1. IsFiniteSet(Places(q, k))
    BY PlacesFinite
  <2>2. Cardinality(P) = IF 1 \in Places(q, k) THEN Cardinality(Places(q, k)) - 1
                                              ELSE Cardinality(Places(q, k))
    BY <2>1, FS_RemoveElement
  <2>3. Count(q, k) \in Nat
    BY PlacesFinite
  <2> HIDE DEF P
  <2> QED BY <1>5, <2>2, <2>3 DEF Count
<1>7. ASSUME Head(q) # k, Places(q, k) # {} PROVE T # {}
  <2>1. PICK i \in Places(q, k) : i # 1
    BY <1>5, <1>7
  <2>2. i - 1 \in T
    BY <1>1, <2>1 DEF Places
  <2> QED BY <2>2
<1>8. Count(Tail(q), k) \in Nat /\ Count(q, k) \in Nat
  BY <1>1, PlacesFinite
<1> QED BY <1>1, <1>4, <1>6, <1>7, <1>8 DEF Count

\* An empty queue without flags is in order.
LEMMA EmptyOK ==
  ASSUME NEW fails \in [Kind -> Nat]
  PROVE  QueueOK(<<>>, [k \in Kind |-> FALSE], fails)
<1> DEFINE none == [j \in Kind |-> FALSE]
<1>1. <<>> \in Seq(Kind)
  OBVIOUS
<1>2. \A k \in Kind : Places(<<>>, k) = {}
  BY DEF Places
<1>3. \A k \in Kind : Count(<<>>, k) = 0
  BY <1>2, FS_EmptySet DEF Count
<1>4. \A k \in Kind : Flagged(none, k) = 0
  BY DEF Flagged
<1>5. \A k \in Kind : fails[k] \in Nat
  OBVIOUS
<1>6. \A k \in Kind : ~none[k]
  OBVIOUS
<1> HIDE DEF none
<1>7. ASSUME NEW k \in Kind PROVE Count(<<>>, k) <= fails[k] + Flagged(none, k)
  BY <1>3, <1>4, <1>5
<1>8. QueueOK(<<>>, none, fails)
  BY <1>1, <1>6, <1>7 DEF QueueOK
<1> QED BY <1>8 DEF none

\* A trigger sets its flag, and adds a job if the flag was not set.
LEMMA EnqueuedOK ==
  ASSUME NEW q, NEW pend \in [Kind -> BOOLEAN], NEW j \in Kind, pend[j] = pending[j],
         failures \in [Kind -> Nat], QueueOK(q, pend, failures)
  PROVE  QueueOK(Enqueued(q, j), [pend EXCEPT ![j] = TRUE], failures)
<1> DEFINE new == [pend EXCEPT ![j] = TRUE]
<1>0. q \in Seq(Kind)
  BY DEF QueueOK
<1>1. CASE pending[j]
  <2>1. new = pend /\ Enqueued(q, j) = q
    BY <1>1 DEF Enqueued
  <2> QED BY <2>1
<1>2. CASE ~pending[j]
  <2>1. Enqueued(q, j) = Append(q, j)
    BY <1>2 DEF Enqueued
  <2>2. \A k \in Kind : Flagged(new, k) = Flagged(pend, k) + (IF j = k THEN 1 ELSE 0)
    BY <1>2 DEF Flagged
  <2>3. \A k \in Kind : Count(q, k) \in Nat /\ Flagged(pend, k) \in Nat
    BY <1>0, PlacesFinite DEF Flagged
  <2>4. \A k \in Kind : new[k] => Places(Append(q, j), k) # {}
    <3> SUFFICES ASSUME NEW k \in Kind, new[k] PROVE Places(Append(q, j), k) # {}
      OBVIOUS
    <3>1. CASE k = j
      BY <1>0, <3>1, CountAppend
    <3>2. CASE k # j
      <4>1. Places(q, k) # {} /\ Places(q, k) \subseteq Places(Append(q, j), k)
        BY <1>0, <3>2, CountAppend DEF QueueOK
      <4> QED BY <4>1
    <3> QED BY <3>1, <3>2
  <2>5. \A k \in Kind : Count(Append(q, j), k) <= failures[k] + Flagged(new, k)
    <3> SUFFICES ASSUME NEW k \in Kind
                 PROVE  Count(Append(q, j), k) <= failures[k] + Flagged(new, k)
      OBVIOUS
    <3>1. Count(q, k) <= failures[k] + Flagged(pend, k)
      BY DEF QueueOK
    <3>2. Count(Append(q, j), k) = Count(q, k) + (IF j = k THEN 1 ELSE 0)
      BY <1>0, CountAppend
    <3> HIDE DEF new
    <3> QED BY <2>2, <2>3, <3>1, <3>2
  <2>6. Append(q, j) \in Seq(Kind)
    BY <1>0
  <2> QED BY <2>1, <2>4, <2>5, <2>6 DEF QueueOK
<1> QED BY <1>1, <1>2
-----------------------------------------------------------------------------
(* The scheduler.                                                            *)

\* The service starts with nothing queued.
LEMMA InitService == ServiceInit => ServiceInv
<1> SUFFICES ASSUME ServiceInit PROVE ServiceInv
  OBVIOUS
<1>1. ServiceTypeOK
  <2>1. TypeOK
    BY TypeInit DEF ServiceInit
  <2>2. queue \in Seq(Kind)
    BY DEF ServiceInit
  <2>3. pending \in [Kind -> BOOLEAN] /\ failures \in [Kind -> Nat]
    BY DEF ServiceInit
  <2>4. job \in Kind \cup {"none"} /\ tried \in BOOLEAN /\ crashes \in Nat
    BY DEF ServiceInit
  <2> QED BY <2>1, <2>2, <2>3, <2>4 DEF ServiceTypeOK
<1>2. pending = [k \in Kind |-> FALSE] /\ queue = <<>>
  BY DEF ServiceInit
<1>3. QueueOK(queue, pending, failures)
  BY <1>1, <1>2, EmptyOK DEF ServiceTypeOK
<1> QED BY <1>1, <1>3 DEF ServiceInv

\* Every step keeps flags and queue in order.
LEMMA ServiceStep == ServiceInv /\ [ServiceNext]_serviceVars => ServiceInv'
<1> SUFFICES ASSUME ServiceInv, [ServiceNext]_serviceVars PROVE ServiceInv'
  OBVIOUS
<1>0. /\ QueueOK(queue, pending, failures) /\ queue \in Seq(Kind)
      /\ pending \in [Kind -> BOOLEAN] /\ failures \in [Kind -> Nat] /\ crashes \in Nat
      /\ job \in Kind \cup {"none"} /\ tried \in BOOLEAN
  BY DEF ServiceInv, ServiceTypeOK
<1>1. TypeOK'
  BY ServiceStepLocks, TypeStep DEF ServiceInv, ServiceTypeOK
<1> DEFINE Frame == UNCHANGED <<queue, pending, failures, job>> /\ tried' \in BOOLEAN /\ crashes' \in Nat
<1>2. ASSUME Frame PROVE ServiceInv'
  BY <1>0, <1>1, <1>2 DEF ServiceInv, ServiceTypeOK, QueueOK, Count, Places, Flagged
<1>3. CASE TickTimer
  <2>1. QueueOK(queue', pending', failures)
    BY <1>0, <1>3, EnqueuedOK DEF TickTimer, Kind
  <2>2. pending' \in [Kind -> BOOLEAN] /\ queue' \in Seq(Kind)
    BY <1>0, <1>3, <2>1 DEF TickTimer, QueueOK
  <2> QED BY <1>0, <1>1, <1>3, <2>1, <2>2
          DEF TickTimer, ServiceInv, ServiceTypeOK, QueueOK, Count, Places, Flagged
<1>4. ASSUME NEW last \in BOOLEAN, OnMinute(last) PROVE ServiceInv'
  <2> DEFINE once == [pending EXCEPT !["cycle"] = TRUE]
  <2>1. once \in [Kind -> BOOLEAN] /\ once["reflect"] = pending["reflect"]
    BY <1>0 DEF Kind
  <2>2. QueueOK(Enqueued(queue, "cycle"), once, failures)
    BY <1>0, EnqueuedOK DEF Kind
  <2>3. QueueOK(Enqueued(Enqueued(queue, "cycle"), "reflect"), [once EXCEPT !["reflect"] = TRUE], failures)
    BY <1>0, <2>1, <2>2, EnqueuedOK DEF Kind
  <2>4. pending' = (IF last THEN [once EXCEPT !["reflect"] = TRUE] ELSE once)
    BY <1>0, <1>4 DEF OnMinute, Kind
  <2> HIDE DEF once
  <2>5. QueueOK(queue', pending', failures)
    BY <1>4, <2>2, <2>3, <2>4 DEF OnMinute
  <2>6. pending' \in [Kind -> BOOLEAN] /\ queue' \in Seq(Kind)
    BY <2>1, <2>4, <2>5 DEF QueueOK
  <2> QED BY <1>0, <1>1, <1>4, <2>5, <2>6
          DEF OnMinute, ServiceInv, ServiceTypeOK, QueueOK, Count, Places, Flagged
<1>5. CASE StartJob
  <2>1. /\ Head(queue) \in Kind /\ queue' = Tail(queue) /\ queue' \in Seq(Kind)
        /\ pending' = [pending EXCEPT ![Head(queue)] = FALSE]
        /\ pending' \in [Kind -> BOOLEAN] /\ failures' = failures
    BY <1>0, <1>5, CountTail DEF StartJob
  <2>2. \A k \in Kind : pending'[k] => Places(queue', k) # {}
    BY <1>0, <1>5, <2>1, CountTail DEF QueueOK, StartJob
  <2>3. ASSUME NEW k \in Kind PROVE Count(queue', k) <= failures[k] + Flagged(pending', k)
    <3>1. Count(queue, k) \in Nat /\ Count(queue', k) \in Nat
      BY <1>0, <2>1, PlacesFinite
    <3>2. Count(queue, k) <= failures[k] + Flagged(pending, k)
      BY <1>0 DEF QueueOK
    <3>3. Count(queue', k) + (IF Head(queue) = k THEN 1 ELSE 0) <= Count(queue, k)
      BY <1>0, <1>5, <2>1, CountTail DEF StartJob
    <3>4. CASE Head(queue) = k
      <4>1. Flagged(pending', k) = 0 /\ Flagged(pending, k) \in 0..1
        BY <1>0, <2>1, <3>4 DEF Flagged
      <4> QED BY <1>0, <3>1, <3>2, <3>3, <3>4, <4>1
    <3>5. CASE Head(queue) # k
      <4>1. Flagged(pending', k) = Flagged(pending, k) /\ Flagged(pending, k) \in 0..1
        BY <1>0, <2>1, <3>5 DEF Flagged
      <4> QED BY <1>0, <3>1, <3>2, <3>3, <3>5, <4>1
    <3> QED BY <3>4, <3>5
  <2>4. QueueOK(queue', pending', failures')
    BY <2>1, <2>2, <2>3 DEF QueueOK
  <2> QED BY <1>0, <1>1, <1>5, <2>1, <2>4
          DEF StartJob, ServiceInv, ServiceTypeOK, QueueOK, Count, Places, Flagged
<1>6. CASE JobFails
  <2>1. /\ job \in Kind /\ queue' = queue /\ pending' = [pending EXCEPT ![job] = FALSE]
        /\ failures' = [failures EXCEPT ![job] = @ + 1]
        /\ pending' \in [Kind -> BOOLEAN] /\ failures' \in [Kind -> Nat]
    BY <1>0, <1>6 DEF JobFails, JobIsOver
  <2>2. \A k \in Kind : pending'[k] => Places(queue, k) # {}
    BY <1>0, <2>1 DEF QueueOK
  <2>3. ASSUME NEW k \in Kind PROVE Count(queue, k) <= failures'[k] + Flagged(pending', k)
    <3>1. Count(queue, k) \in Nat /\ failures[k] \in Nat
      BY <1>0, PlacesFinite
    <3>2. Count(queue, k) <= failures[k] + Flagged(pending, k)
      BY <1>0 DEF QueueOK
    <3>3. failures[k] + Flagged(pending, k) <= failures'[k] + Flagged(pending', k)
      BY <1>0, <2>1, <3>1 DEF Flagged
    <3>4. Flagged(pending, k) \in Nat /\ Flagged(pending', k) \in Nat /\ failures'[k] \in Nat
      BY <2>1 DEF Flagged
    <3> QED BY <3>1, <3>2, <3>3, <3>4
  <2>4. QueueOK(queue', pending', failures')
    BY <1>0, <2>1, <2>2, <2>3 DEF QueueOK
  <2> QED BY <1>0, <1>1, <1>6, <2>1, <2>4
          DEF JobFails, ServiceInv, ServiceTypeOK, QueueOK, Count, Places, Flagged
<1>7. CASE JobEnds
  BY <1>0, <1>1, <1>7 DEF JobEnds, ServiceInv, ServiceTypeOK, QueueOK, Count, Places, Flagged
<1>8. CASE ServiceCrash
  <2>1. /\ queue' = <<>> /\ pending' = [k \in Kind |-> FALSE] /\ failures' = failures
        /\ job' = "none" /\ tried' = FALSE /\ crashes' \in Nat
    BY <1>0, <1>8 DEF ServiceCrash
  <2>3. QueueOK(queue', pending', failures')
    BY <1>0, <2>1, EmptyOK
  <2> QED BY <1>0, <1>1, <2>1, <2>3
          DEF ServiceInv, ServiceTypeOK, QueueOK, Count, Places, Flagged
<1>9. CASE JobLocks
  BY <1>0, <1>2, <1>9 DEF JobLocks
<1>10. ASSUME NEW p \in Procs, Manual(p) \/ ManualCrash(p) PROVE ServiceInv'
  BY <1>0, <1>2, <1>10 DEF Manual, ManualCrash, queueVars
<1>11. CASE LockAges
  BY <1>0, <1>2, <1>11 DEF LockAges, queueVars
<1>12. CASE UNCHANGED serviceVars
  BY <1>0, <1>2, <1>12 DEF serviceVars, queueVars
<1> QED
  BY <1>3, <1>4, <1>5, <1>6, <1>7, <1>8, <1>9, <1>10, <1>11, <1>12 DEF ServiceNext, Work

\* Queue, flags, running job and lock always have their types.
THEOREM ServiceTyped == ServiceSpec => []ServiceTypeOK
<1>1. ServiceInv => ServiceTypeOK
  BY DEF ServiceInv
<1> QED BY <1>1, InitService, ServiceStep, PTL DEF ServiceSpec

\* No order of triggers, failures and restarts leaves a flag set without a job
\* of its kind, which would switch the kind off for good (index.ts:31-43).
THEOREM FlagsHaveJobs == ServiceSpec => []PendingIsQueued
<1>1. ServiceInv => PendingIsQueued
  BY DEF ServiceInv, QueueOK, PendingIsQueued, Queued, Places
<1> QED BY <1>1, InitService, ServiceStep, PTL DEF ServiceSpec

\* The backlog of a kind is one job and one more for each failure of the kind.
THEOREM BacklogIsBounded == ServiceSpec => []BacklogBounded
<1>1. ASSUME ServiceInv PROVE BacklogBounded
  <2> SUFFICES ASSUME NEW k \in Kind PROVE Cardinality(Queued(k)) <= 1 + failures[k]
    BY DEF BacklogBounded
  <2>1. Count(queue, k) <= failures[k] + Flagged(pending, k) /\ Count(queue, k) \in Nat
    BY <1>1, PlacesFinite DEF ServiceInv, ServiceTypeOK, QueueOK
  <2>2. Flagged(pending, k) \in 0..1 /\ failures[k] \in Nat
    BY <1>1 DEF Flagged, ServiceInv, ServiceTypeOK
  <2>3. Count(queue, k) = Cardinality(Queued(k))
    BY DEF Count, Places, Queued
  <2> QED BY <2>1, <2>2, <2>3
<1> QED BY <1>1, InitService, ServiceStep, PTL DEF ServiceSpec
=============================================================================
