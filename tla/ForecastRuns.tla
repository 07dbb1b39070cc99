------------------------------ MODULE ForecastRuns ------------------------------
(***************************************************************************)
(* The two services that start forecasts, forecast-api and raven, in front *)
(* of the engine.  Each keeps its jobs in memory and infers from files     *)
(* whether a forecast is running that it does not know of: from the state  *)
(* if it is open and recent, the api from a spawn lock of its own, raven   *)
(* from a launch lock and engine.lock.  A start that finds one, or no      *)
(* quota, does nothing; starts that spawn are the actions below.           *)
(***************************************************************************)
EXTENDS ForecastEngine

VARIABLES
    job,          \* per service: status of its job and the process
    hint,         \* the api's .engine-lock exists and is less than ten minutes old
    launch,       \* raven's launch.lock exists
    restarts      \* bound of the model: one restart of a service

services == <<job, hint, launch, restarts>>
vars == <<engine, services>>

Services == {"api", "raven"}
Init == /\ EngineInit
        /\ job = [s \in Services |-> [status |-> None, of |-> 0]]
        /\ hint = FALSE /\ launch = FALSE /\ restarts = 0

\* Processes are started in the order of their numbers.
Next1(p) == proc[p].pc = "off" /\ \A q \in Procs : q < p => proc[q].pc # "off"

Spawn(s, p, mode) ==
    /\ Next1(p) /\ job[s].status # "running"
    /\ job' = [job EXCEPT ![s] = [status |-> "running", of |-> p]]
    /\ proc' = [proc EXCEPT ![p].pc = IF mode = "resume" THEN "prepare" ELSE "lock",
                            ![p].mode = mode, ![p].max = MaxRounds]
    /\ UNCHANGED <<disk, stamp, feedback, jam, lock, broken, restarts>>

\* A state that looks like one a process is writing.
LooksOpen == disk.status = "open" /\ stamp.recent

ApiStart(p) == \E mode \in {"new", "fresh"} :
    /\ mode = "new" => ~LooksOpen /\ ~hint
    /\ Spawn("api", p, mode)
    /\ hint' = TRUE /\ UNCHANGED launch

RavenStart(p) == \E mode \in Modes :
    /\ ~launch /\ lock = 0
    /\ mode # "fresh" => ~LooksOpen
    /\ mode = "resume" => disk # NoState
    /\ Spawn("raven", p, mode)
    /\ launch' = TRUE /\ UNCHANGED hint

\* Mutant of JobStatus: the saved status is taken over as it is.
JobStatusSaved(p) == IF p \in stamp.after THEN disk.status ELSE "error"

\* The outcome of a job: the saved status counts if it is not older than the job.
JobStatus(p) ==
    IF p \in stamp.after /\ disk.status \in {"insufficient_evidence", "max_rounds"} THEN disk.status
    ELSE IF proc[p].code = 2 THEN "unforecastable"
    ELSE IF proc[p].code = 0 /\ p \in stamp.after /\ disk.status \in Complete THEN "done"
    ELSE "error"

\* The close handler: the job gets its outcome, the service's lock is removed.
Close(s) ==
    /\ job[s].status = "running" /\ proc[job[s].of].pc = "exited"
    /\ job' = [job EXCEPT ![s] = [status |-> JobStatus(job[s].of), of |-> 0]]
    /\ hint' = (IF s = "api" THEN FALSE ELSE hint)
    /\ launch' = (IF s = "raven" THEN FALSE ELSE launch)
    /\ UNCHANGED <<engine, restarts>>

\* The service forgets its jobs; their processes go on, their locks stay.  raven
\* writes what the analyst edits: the feedback's lock stays too if it was at that.
Restart(s) == /\ restarts = 0 /\ restarts' = 1
              /\ job' = [job EXCEPT ![s] = [status |-> None, of |-> 0]]
              /\ jam' \in {jam, jam \/ s = "raven"}
              /\ UNCHANGED <<disk, stamp, feedback, lock, proc, broken, hint, launch>>

\* Ten minutes pass.
LapseState == /\ stamp.recent /\ stamp' = [stamp EXCEPT !.recent = FALSE]
              /\ UNCHANGED <<disk, feedback, jam, lock, proc, broken, services>>
LapseHint == /\ hint /\ hint' = FALSE
             /\ UNCHANGED <<engine, job, launch, restarts>>

\* An operator removes the launch lock of a server that was restarted.
RemoveLaunch == /\ launch /\ job["raven"].status # "running" /\ launch' = FALSE
                /\ UNCHANGED <<engine, job, hint, restarts>>

Engine(p) == Run(p) /\ UNCHANGED services

Next == \/ \E p \in Procs : Engine(p) \/ ApiStart(p) \/ RavenStart(p)
        \/ \E s \in Services : Close(s) \/ Restart(s)
        \/ LapseState \/ LapseHint \/ RemoveLaunch
        \/ /\ \/ \E p \in Procs : Kill(p) \/ Unlock(p)
              \/ \E i \in Items : Edit(i)
              \/ Unjam
           /\ UNCHANGED services

Spec == Init /\ [][Next]_vars
-----------------------------------------------------------------------------
\* Jobs only ever show what a job can come to, in particular never "open".
TypeOK == /\ EngineTypeOK
          /\ job \in [Services -> [status : {None, "running", "done", "error", "unforecastable",
                                             "insufficient_evidence", "max_rounds"},
                                   of : Procs \cup {0}]]
          /\ hint \in BOOLEAN /\ launch \in BOOLEAN /\ restarts \in {0, 1}
=============================================================================
