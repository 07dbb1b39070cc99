------------------------------ MODULE PaperService -----------------------------
(***************************************************************************)
(* The long-lived scheduler of the paper agent next to manual commands on  *)
(* the same book.  The scheduler owns a single-writer queue: timers hand   *)
(* jobs to it, one runs at a time, and a cycle or a tick is one attempt to *)
(* take the book lock followed by a run.  A manual command is a process of *)
(* BookLock that comes and goes on its own.                                *)
(***************************************************************************)
EXTENDS BookLock, Sequences, FiniteSetsExt

CONSTANTS Scheduler,     \* the process of index.ts
          MaxFaults,     \* bound of the model: failing jobs and crashes
          MaxCommands    \* bound of the model: manual commands that end

Kind == {"cycle", "tick", "reflect"}
BookKind == {"cycle", "tick"}

ASSUME ServiceAssumption == /\ Scheduler \in Procs
                            /\ MaxFaults \in Nat /\ MaxCommands \in Nat

VARIABLES
    queue,     \* jobs waiting behind the running one
    pending,   \* the flags that collapse repeated triggers
    job,       \* kind of the running job, "none" between jobs
    tried,     \* the running job has made its attempt at the lock
    failures,  \* history: jobs that failed, per kind
    crashes,
    commands   \* manual commands that have ended

queueVars == <<queue, pending, job, tried, failures>>
serviceVars == <<vars, queueVars, crashes, commands>>

Faults == crashes + SumFunction(failures)

ServiceInit == /\ Init
               /\ queue = <<>> /\ job = "none" /\ tried = FALSE
               /\ pending = [k \in Kind |-> FALSE]
               /\ failures = [k \in Kind |-> 0]
               /\ crashes = 0 /\ commands = 0

\* Mutant of Enqueued: repeated triggers are not collapsed.
EnqueuedAlways(q, k) == Append(q, k)

\* The effect of enqueue(kind) on the queue and the flags.
Enqueued(q, k) == IF pending[k] THEN q ELSE Append(q, k)

\* fillCheckMinutes have passed.
TickTimer == /\ queue' = Enqueued(queue, "tick")
             /\ pending' = [pending EXCEPT !["tick"] = TRUE]
             /\ UNCHANGED <<vars, job, tried, failures, crashes, commands>>

\* An evaluation time: one cycle, and a reflection after the last of the day.
OnMinute(last) ==
    /\ queue' = IF last THEN Enqueued(Enqueued(queue, "cycle"), "reflect")
                        ELSE Enqueued(queue, "cycle")
    /\ pending' = [pending EXCEPT !["cycle"] = TRUE, !["reflect"] = @ \/ last]
    /\ UNCHANGED <<vars, job, tried, failures, crashes, commands>>

\* Mutant of StartJob: the flag is left to the end of the job.
StartKeepingFlag == /\ job = "none" /\ queue # <<>>
                    /\ job' = Head(queue) /\ queue' = Tail(queue)
                    /\ tried' = FALSE
                    /\ UNCHANGED <<vars, pending, failures, crashes, commands>>

\* The flag is cleared before the job runs.
StartJob == /\ job = "none" /\ queue # <<>>
            /\ job' = Head(queue) /\ queue' = Tail(queue)
            /\ pending' = [pending EXCEPT ![Head(queue)] = FALSE]
            /\ tried' = FALSE
            /\ UNCHANGED <<vars, failures, crashes, commands>>

\* A cycle or tick tries the lock, once; a reclaim tries again.
JobLocks == /\ job \in BookKind
            /\ \/ Create(Scheduler) /\ ~tried
               \/ Stamp(Scheduler) \/ SaveBook(Scheduler) \/ Release(Scheduler)
               \/ Read(Scheduler)
               \/ Reclaim(Scheduler)
            /\ tried' = (pc[Scheduler] # "reclaim")
            /\ UNCHANGED <<queue, pending, job, failures, crashes, commands>>

JobIsOver == /\ job # "none"
             /\ job \in BookKind => tried /\ pc[Scheduler] = "out"

JobEnds == /\ JobIsOver
           /\ job' = "none" /\ tried' = FALSE
           /\ UNCHANGED <<vars, queue, pending, failures, crashes, commands>>

\* Mutant of JobFails: without the catch, the jobs behind a failed one are
\* skipped and their flags stay set.
JobFailsUncaught == /\ JobIsOver
                    /\ Faults < MaxFaults
                    /\ failures' = [failures EXCEPT ![job] = @ + 1]
                    /\ queue' = <<>>
                    /\ job' = "none" /\ tried' = FALSE
                    /\ UNCHANGED <<vars, pending, crashes, commands>>

\* The job threw, after its finally clause: the handler clears its flag again.
JobFails == /\ JobIsOver
            /\ Faults < MaxFaults
            /\ failures' = [failures EXCEPT ![job] = @ + 1]
            /\ pending' = [pending EXCEPT ![job] = FALSE]
            /\ job' = "none" /\ tried' = FALSE
            /\ UNCHANGED <<vars, queue, crashes, commands>>

\* A command ends with its release, or when it finds the lock held.
Manual(p) == /\ \/ commands < MaxCommands /\ Create(p)
                \/ Stamp(p) \/ Read(p) \/ Reclaim(p) \/ SaveBook(p) \/ Release(p)
             /\ commands' = IF pc[p] \in {"exists", "in"} /\ pc'[p] = "out"
                            THEN commands + 1 ELSE commands
             /\ UNCHANGED <<queueVars, crashes>>

\* A manual command dies, or the service does and restarts with an empty queue.
ManualCrash(p) == /\ Faults < MaxFaults /\ Crash(p)
                  /\ crashes' = crashes + 1
                  /\ UNCHANGED <<queueVars, commands>>

ServiceCrash == /\ Faults < MaxFaults
                /\ IF pc[Scheduler] = "out" THEN UNCHANGED vars ELSE Crash(Scheduler)
                /\ crashes' = crashes + 1
                /\ queue' = <<>> /\ job' = "none" /\ tried' = FALSE
                /\ pending' = [k \in Kind |-> FALSE]
                /\ UNCHANGED <<failures, commands>>

LockAges == Age /\ UNCHANGED <<queueVars, crashes, commands>>

Work == StartJob \/ JobLocks \/ JobEnds \/ JobFails

ServiceNext == \/ TickTimer \/ (\E last \in BOOLEAN : OnMinute(last))
               \/ Work \/ ServiceCrash \/ LockAges
               \/ \E p \in Procs \ {Scheduler} : Manual(p) \/ ManualCrash(p)

ServiceSpec == ServiceInit /\ [][ServiceNext]_serviceVars

\* Timers keep firing, the event loop serves the queue, a job makes progress
\* once it runs, and time passes.  Manual commands owe nothing.
ServiceFairness == /\ WF_serviceVars(TickTimer)
                   /\ WF_serviceVars(Work)
                   /\ WF_serviceVars(LockAges)

FairServiceSpec == ServiceSpec /\ ServiceFairness
-----------------------------------------------------------------------------
(* Properties.                                                               *)

ServiceTypeOK == /\ TypeOK
                 /\ queue \in Seq(Kind)
                 /\ pending \in [Kind -> BOOLEAN]
                 /\ job \in Kind \cup {"none"} /\ tried \in BOOLEAN
                 /\ failures \in [Kind -> Nat] /\ crashes \in Nat

Queued(k) == {i \in DOMAIN queue : queue[i] = k}

\* A flag that collapses triggers always has a job behind it: no failure and no
\* restart leaves a kind switched off for good (enqueue).
PendingIsQueued == \A k \in Kind : pending[k] => Queued(k) # {}

\* Triggers are collapsed to one waiting job of a kind; each failure of such a
\* job, which clears a flag that a newer trigger may have set, lets at most one
\* more through.
BacklogBounded == \A k \in Kind : Cardinality(Queued(k)) <= 1 + failures[k]

\* Every trigger the queue took is served, whatever manual commands do to the
\* lock, unless a crash comes in between.
TriggersAreServed ==
    \A k \in Kind, c \in 0..MaxFaults :
        pending[k] /\ crashes = c ~> job = k \/ crashes # c

\* A stamped lock left by a crash is removed in the end, by the next ticks of
\* the scheduler: no crash of a run that got as far as the stamp stops the book.
CrashedLockIsReclaimed ==
    \A p \in Procs :
        lock # NoLock /\ lock.state # "empty" /\ lock.by = p /\ p \notin Inside
            ~> lock = NoLock \/ lock.by # p \/ p \in Inside

\* What the comment on the lock promises of every abandoned lock (store.ts:57-60):
\* one its process never stamped, too.
AbandonedLockIsReclaimed ==
    \A p \in Procs :
        lock # NoLock /\ lock.by = p /\ p \notin Inside
            ~> lock = NoLock \/ lock.by # p \/ p \in Inside
=============================================================================
