----------------------------- MODULE ForecastProofs -----------------------------
(***************************************************************************)
(* For any number of engine processes, any feedback and any round limits,  *)
(* with kills and edits at any step: engine.lock excludes processes from   *)
(* each other, so that a saved round is never lost, a complete forecast    *)
(* has its summary, a successful process settles the question, and the     *)
(* agent is shown a piece of feedback in one round only.                   *)
(***************************************************************************)
EXTENDS ForecastRuns, TLAPS

Working == {"begin", "reopened", "wrap", "round", "agent", "consume", "judge", "summarize"}

\* A process between the creation of engine.lock and its removal.
Inside == Working \cup {"frame", "leave"}

LockHeld == \A p \in Procs : proc[p].pc \in Inside => lock = p

\* A saved verdict has its summary or, in the structured engine, is put aside as well.
DiskOK ==
    /\ disk.status \in Complete =>
          \/ disk.summary /\ disk.pending = None /\ ~disk.gaps
          \/ disk.kind = "structured" /\ disk.pending = disk.status
    /\ disk = NoState \/ disk.kind \in Kinds

\* A verdict is saved as the status while it is put aside, too.
Torn(d) == d.status \in Complete /\ d.pending # None

\* That is so only next to a run that wraps up, or was killed at it.
TornOK == Torn(disk) => Rewrapping

\* A process that works has the saved rounds in memory; the status it has there
\* tells how far it got.  One that frames was told to, or found nothing.
Placed(p) ==
    LET m == proc[p].mem IN
    /\ proc[p].pc \in Working => m.rounds = disk.rounds /\ m.kind \in Kinds
    /\ proc[p].pc \in {"begin", "reopened"} => m = disk
    /\ proc[p].pc = "frame" => proc[p].mode = "fresh" \/ disk = NoState
    /\ proc[p].pc \in {"round", "agent", "consume", "judge"} => m.status = "open"
    /\ proc[p].pc = "wrap" => m.status # "open"
    /\ proc[p].pc = "summarize" => m.status \in Complete

AllPlaced == \A p \in Procs : Placed(p)

EngineInv == EngineTypeOK /\ LockHeld /\ DiskOK /\ TornOK /\ AllPlaced

USE EngineAssumption DEF EngineAssumption
-----------------------------------------------------------------------------
(* What a step of the process that holds the lock comes to.                  *)

\* Nothing is saved by a process that had nothing to put aside again.
Untouched(p) == disk' = disk /\ proc[p].pc # "wrap"

\* The process goes on, or to its end, with a state saved that it may leave behind.
Goes(p) ==
    /\ disk' \in States /\ DiskOK' /\ stamp' \in Stamp
    /\ proc' \in [Procs -> Process]
    /\ \A q \in Procs : q # p => proc'[q] = proc[q]
    /\ proc'[p].pc \in Inside /\ Placed(p)'
    /\ proc'[p].pc = "leave" /\ proc'[p].code = 0 => disk'.status # "open"
    /\ Torn(disk') => Untouched(p) \/ proc'[p].pc = "wrap"

\* A state in memory that the rounds have come to.
Verdict(m) == /\ m \in States /\ m.rounds = disk.rounds /\ m.kind \in Kinds /\ m.status # "open"

\* Ending a process forgets its memory and keeps the rest.
LEMMA LeaveGoes ==
    ASSUME EngineInv, NEW p \in Procs, NEW c \in {0, 1, 2}, Leave(p, c),
           disk' \in States, DiskOK', stamp' \in Stamp, c = 0 => disk'.status # "open",
           Torn(disk') => Untouched(p)
    PROVE  Goes(p)
<1>1. NoState \in States
  BY DEF NoState, States, Complete, Incomplete, None, Kinds
<1>2. proc \in [Procs -> Process]
  BY DEF EngineInv, EngineTypeOK
<1>3. Unstarted \in Process
  BY <1>1 DEF Unstarted, Process, Modes
<1>4. Ended("leave", c) \in Process /\ Ended("leave", c).pc = "leave" /\ Ended("leave", c).code = c
  BY <1>3 DEF Ended, Process
<1>5. proc' = [proc EXCEPT ![p] = Ended("leave", c)]
  BY DEF Leave
<1>6. proc' \in [Procs -> Process]
  BY <1>2, <1>4, <1>5
<1>7. proc'[p] = Ended("leave", c) /\ \A q \in Procs : q # p => proc'[q] = proc[q]
  BY <1>2, <1>5
<1>8. proc'[p].pc = "leave" /\ proc'[p].code = c
  BY <1>4, <1>7
<1>9. Placed(p)'
  BY <1>8 DEF Placed, Working
<1>10. QED
  BY <1>6, <1>7, <1>8, <1>9 DEF Goes, Inside

\* Going on to a stage with a state in memory.
LEMMA StepGoes ==
    ASSUME EngineInv, NEW p \in Procs, NEW stage \in Working, NEW m \in States, Step(p, stage, m),
           disk' \in States, DiskOK', stamp' \in Stamp,
           m.rounds = disk'.rounds, m.kind \in Kinds,
           Torn(disk') => Untouched(p) \/ stage = "wrap",
           stage \in {"begin", "reopened"} => m = disk',
           stage \in {"round", "agent", "consume", "judge"} => m.status = "open",
           stage = "wrap" => m.status # "open",
           stage = "summarize" => m.status \in Complete
    PROVE  Goes(p) /\ proc'[p].shown = proc[p].shown /\ proc'[p].pc = stage
<1>1. proc \in [Procs -> Process]
  BY DEF EngineInv, EngineTypeOK
<1>2. proc' = [proc EXCEPT ![p].pc = stage, ![p].mem = m]
  BY DEF Step
<1>3. proc'[p] = [proc[p] EXCEPT !.pc = stage, !.mem = m] /\ \A q \in Procs : q # p => proc'[q] = proc[q]
  BY <1>1, <1>2
<1>4. proc[p] \in Process
  BY <1>1
<1>5. proc'[p] \in Process /\ proc'[p].pc = stage /\ proc'[p].mem = m /\ proc'[p].shown = proc[p].shown
  BY <1>3, <1>4 DEF Process, Working
<1>6. proc' \in [Procs -> Process]
  BY <1>1, <1>2, <1>3, <1>5
<1>7. stage # "frame"
  BY DEF Working
<1>8. Placed(p)'
  BY <1>5, <1>7 DEF Placed
<1>9. QED
  BY <1>3, <1>5, <1>6, <1>8 DEF Goes, Inside, Working

-----------------------------------------------------------------------------
(* The end of a run of rounds.                                               *)

\* A save that stamps the state.
LEMMA Touched == ASSUME NEW m, SaveAndTouch(m) PROVE disk' = m /\ stamp' \in Stamp
<1>1. {q \in Procs : proc[q].pc # "off"} \in SUBSET Procs
  OBVIOUS
<1>2. QED
  BY <1>1 DEF SaveAndTouch, Stamp

\* What wrapping up comes to.
Wraps(p) == /\ Goes(p) /\ disk'.rounds = disk.rounds
            /\ \/ proc'[p].pc \in {"reopened", "summarize"} /\ proc'[p].shown = proc[p].shown
               \/ proc'[p].pc = "leave" /\ proc'[p].shown = {}

\* Settling goes back to research, or leaves with an outcome saved that is not "open"
\* and complete only with a summary.
LEMMA SettleGoes ==
    ASSUME EngineInv, NEW p \in Procs, NEW m, Verdict(m), Settle(p, m),
           m.status \in Complete => m.summary /\ m.pending = None
    PROVE  Wraps(p)
<1>1. m \in States /\ m.summary \in BOOLEAN /\ m.status \in Complete \cup Incomplete \cup {None}
  BY DEF Verdict, States
<1>2. CASE Reopens(p, m)
  <2> DEFINE n == Reopened(m)
  <2>1. Step(p, "reopened", n) /\ disk' = n /\ stamp' = stamp
    BY <1>2 DEF Settle, Save
  <2>2. n \in States /\ n.rounds = m.rounds /\ n.kind = m.kind /\ n.status = "open"
    BY <1>1 DEF Reopened, States, Incomplete
  <2> HIDE DEF n
  <2>3. DiskOK' /\ ~Torn(disk')
    BY <2>1, <2>2 DEF DiskOK, Torn, Complete, Verdict
  <2>4. Goes(p) /\ proc'[p].shown = proc[p].shown /\ proc'[p].pc = "reopened"
    BY <2>1, <2>2, <2>3, StepGoes DEF Verdict, Working, EngineInv, EngineTypeOK
  <2>5. disk'.rounds = disk.rounds
    BY <2>1, <2>2 DEF Verdict
  <2>6. QED BY <2>4, <2>5 DEF Wraps
<1>3. CASE ~Reopens(p, m)
  <2> DEFINE n == Outcome(m)
  <2>1. Leave(p, 0) /\ disk' = n /\ stamp' \in Stamp
    <3>1. Leave(p, 0) /\ SaveAndTouch(n)
      BY <1>3 DEF Settle
    <3>2. QED BY <3>1, Touched
  <2>2. n \in States /\ n.rounds = m.rounds /\ n.kind = m.kind /\ n.pending = m.pending /\ n.gaps = m.gaps
    BY <1>1 DEF Outcome, States, Incomplete
  <2>3. n.status # "open" /\ (n.status \in Complete => n.status = m.status /\ ~n.gaps /\ n.summary = m.summary)
    BY <1>1 DEF Outcome, States, Incomplete, Complete, Verdict
  <2> HIDE DEF n
  <2>4. DiskOK' /\ ~Torn(disk')
    BY <2>1, <2>2, <2>3 DEF DiskOK, Torn, Verdict
  <2>5. Goes(p)
    BY <2>1, <2>2, <2>3, <2>4, LeaveGoes
  <2>6. proc'[p].pc = "leave" /\ proc'[p].shown = {}
    BY <2>1 DEF Leave, Ended, Unstarted, EngineInv, EngineTypeOK
  <2>7. QED BY <2>1, <2>2, <2>5, <2>6 DEF Verdict, Wraps
<1>4. QED
  BY <1>2, <1>3

\* A complete forecast is saved as open before it is summarised.
LEMMA WrapGoes == ASSUME EngineInv, NEW p \in Procs, NEW m, Verdict(m), Wrap(p, m) PROVE Wraps(p)
<1>1. CASE m.status \in Complete
  <2> DEFINE n == ToSummary(m)
  <2>1. Step(p, "summarize", m) /\ disk' = n /\ stamp' = stamp
    BY <1>1 DEF Wrap, Save
  <2>2. n \in States /\ n.rounds = m.rounds /\ n.kind = m.kind /\ n.status = "open"
    BY <1>1 DEF ToSummary, States, Incomplete, Verdict
  <2> HIDE DEF n
  <2>3. DiskOK' /\ ~Torn(disk')
    BY <2>1, <2>2 DEF DiskOK, Torn, Complete, Verdict
  <2>4. Goes(p) /\ proc'[p].shown = proc[p].shown /\ proc'[p].pc = "summarize"
    BY <1>1, <2>1, <2>2, <2>3, StepGoes DEF Verdict, Working, EngineInv, EngineTypeOK
  <2>5. QED BY <2>1, <2>2, <2>4 DEF Verdict, Wraps
<1>2. CASE m.status \notin Complete /\ m.kind = "binary"
  BY <1>2, SettleGoes DEF Wrap
<1>3. CASE m.status \notin Complete /\ m.kind # "binary"
  <2> DEFINE n == Outcome(m)
  <2>1. Leave(p, 0) /\ disk' = n /\ stamp' = stamp
    BY <1>3 DEF Wrap, Save
  <2>2. n \in States /\ n.rounds = m.rounds /\ n.kind = m.kind /\ n.status = m.status
    BY <1>3 DEF Outcome, States, Incomplete, Verdict
  <2> HIDE DEF n
  <2>3. DiskOK' /\ ~Torn(disk') /\ disk'.status # "open" /\ disk'.rounds = disk.rounds
    BY <1>3, <2>1, <2>2 DEF DiskOK, Torn, Verdict
  <2>4. Goes(p)
    BY <2>1, <2>2, <2>3, LeaveGoes DEF EngineInv, EngineTypeOK
  <2>5. proc'[p].pc = "leave" /\ proc'[p].shown = {}
    BY <2>1 DEF Leave, Ended, Unstarted, EngineInv, EngineTypeOK
  <2>6. QED BY <2>3, <2>4, <2>5 DEF Wraps
<1>4. QED
  BY <1>1, <1>2, <1>3

\* The answer to the summary's call, or its failure.
LEMMA SummarizeGoes == ASSUME EngineInv, NEW p \in Procs, Summarize(p) PROVE Wraps(p)
<1> DEFINE m == proc[p].mem
<1>1. m \in States /\ m.rounds = disk.rounds /\ m.kind \in Kinds /\ m.status \in Complete
  BY DEF EngineInv, EngineTypeOK, Process, Summarize, AllPlaced, Placed, Working
<1> HIDE DEF m
<1>2. CASE SaveAndTouch([m EXCEPT !.status = "aborted", !.pending = m.status, !.summary = FALSE]) /\ Leave(p, 1)
  <2> DEFINE n == [m EXCEPT !.status = "aborted", !.pending = m.status, !.summary = FALSE]
  <2>1. n \in States /\ n.rounds = m.rounds /\ n.kind = m.kind /\ n.status = "aborted"
    BY <1>1 DEF States, Incomplete
  <2>2. disk' = n /\ stamp' \in Stamp
    BY <1>2, Touched
  <2> HIDE DEF n
  <2>3. DiskOK' /\ ~Torn(disk')
    BY <1>1, <2>1, <2>2 DEF DiskOK, Torn, Complete
  <2>4. Goes(p)
    BY <1>2, <2>1, <2>2, <2>3, LeaveGoes
  <2>5. proc'[p].pc = "leave" /\ proc'[p].shown = {}
    BY <1>2 DEF Leave, Ended, Unstarted, EngineInv, EngineTypeOK
  <2>6. QED BY <1>1, <2>1, <2>2, <2>4, <2>5 DEF Wraps
<1>3. ASSUME NEW g \in BOOLEAN, Settle(p, [m EXCEPT !.pending = None, !.summary = TRUE, !.gaps = @ \/ g])
      PROVE  Wraps(p)
  <2> DEFINE n == [m EXCEPT !.pending = None, !.summary = TRUE, !.gaps = @ \/ g]
  <2>1. n \in States /\ n.rounds = m.rounds /\ n.kind = m.kind /\ n.status = m.status /\ n.pending = None /\ n.summary
    BY <1>1 DEF States
  <2>2. Settle(p, n)
    BY <1>3
  <2> HIDE DEF n
  <2>3. Verdict(n)
    BY <1>1, <2>1 DEF Verdict, Complete
  <2>4. QED BY <2>1, <2>2, <2>3, SettleGoes
<1>4. QED
  BY <1>2, <1>3 DEF Summarize, m

-----------------------------------------------------------------------------
(* The beginning of a run, and its rounds.                                   *)

\* A run begins with what it has loaded: what it may go on to.
Begins(p) == /\ Goes(p) /\ disk'.rounds = disk.rounds
             /\ \/ proc'[p].pc \in {"reopened", "round", "wrap", "summarize"} /\ proc'[p].shown = proc[p].shown
                \/ proc'[p].pc = "leave" /\ proc'[p].shown = {}

\* In front of the first round a verdict that waits is taken up, a budget that is
\* used up is told.
LEMMA BeginsGoes ==
    ASSUME EngineInv, NEW p \in Procs, NEW m \in States, BeginWith(p, m), m.rounds = disk.rounds,
           m.kind \in Kinds, m.status = disk.status, proc[p].pc # "wrap"
    PROVE  Begins(p)
<1>1. /\ m.pending \in Complete \cup {None} /\ m.status \in Complete \cup Incomplete \cup {None}
      /\ disk \in States /\ DiskOK /\ stamp \in Stamp /\ m.summary \in BOOLEAN
  BY DEF EngineInv, EngineTypeOK, States
<1>2. CASE m.pending = None /\ Len(m.rounds) >= proc[p].max /\ m.status # "aborted"
  <2> DEFINE n == IF m.status = "open" THEN Overrun(m) ELSE disk
  <2>1. disk' = n /\ Leave(p, 0) /\ stamp' = stamp
    BY <1>2 DEF BeginWith, Save
  <2>2. m.status = "open" => Overrun(m) \in States /\ Overrun(m).rounds = m.rounds
                               /\ Overrun(m).kind = m.kind /\ Overrun(m).status = "max_rounds"
    BY DEF Overrun, States, Incomplete
  <2>3. n \in States /\ n.rounds = disk.rounds /\ n.status # "open"
    BY <1>1, <2>2
  <2>4. DiskOK' /\ (Torn(disk') => Untouched(p))
    BY <1>1, <2>1, <2>2 DEF DiskOK, Complete, Torn, Untouched
  <2> HIDE DEF n
  <2>5. Goes(p)
    BY <1>1, <2>1, <2>3, <2>4, LeaveGoes
  <2>6. proc'[p].pc = "leave" /\ proc'[p].shown = {}
    BY <2>1 DEF Leave, Ended, Unstarted, EngineInv, EngineTypeOK
  <2>7. QED BY <2>1, <2>3, <2>5, <2>6 DEF Begins
<1>3. CASE ~(m.pending = None /\ Len(m.rounds) >= proc[p].max /\ m.status # "aborted") /\ m.kind = "binary"
  <2>1. BeginBinary(p, m)
    BY <1>3 DEF BeginWith
  <2>2. CASE m.pending # None
    <3> DEFINE n == [m EXCEPT !.status = m.pending]
    <3>1. n \in States /\ n.rounds = m.rounds /\ n.kind = m.kind /\ n.status = m.pending
      BY <1>1, <2>2 DEF States
    <3>2. Wrap(p, n)
      BY <2>1, <2>2 DEF BeginBinary
    <3> HIDE DEF n
    <3>3. Verdict(n)
      BY <1>1, <2>2, <3>1 DEF Verdict, Complete
    <3>4. QED BY <3>2, <3>3, WrapGoes DEF Wraps, Begins
  <2>3. CASE m.pending = None /\ Len(m.rounds) < proc[p].max
    <3> DEFINE n == [m EXCEPT !.status = "open"]
    <3>1. n \in States /\ n.rounds = m.rounds /\ n.kind = m.kind /\ n.status = "open"
      BY DEF States, Incomplete
    <3>2. Step(p, "round", n) /\ disk' = disk /\ stamp' = stamp
      BY <2>1, <2>3 DEF BeginBinary
    <3> HIDE DEF n
    <3>3. DiskOK' /\ Untouched(p)
      BY <1>1, <3>2 DEF DiskOK, Untouched
    <3>4. Goes(p) /\ proc'[p].shown = proc[p].shown /\ proc'[p].pc = "round"
      BY <1>1, <3>1, <3>2, <3>3, StepGoes DEF Working
    <3>5. QED BY <3>2, <3>4 DEF Begins
  <2>4. CASE m.pending = None /\ ~(Len(m.rounds) < proc[p].max)
    <3> DEFINE n == [m EXCEPT !.status = "max_rounds"]
    <3>1. n \in States /\ n.rounds = m.rounds /\ n.kind = m.kind /\ n.status = "max_rounds"
      BY DEF States, Incomplete
    <3>2. Settle(p, n)
      BY <2>1, <2>4 DEF BeginBinary
    <3> HIDE DEF n
    <3>3. Verdict(n) /\ n.status \notin Complete
      BY <3>1 DEF Verdict, Complete
    <3>4. QED BY <3>2, <3>3, SettleGoes DEF Wraps, Begins
  <2>5. QED BY <2>2, <2>3, <2>4
<1>4. CASE ~(m.pending = None /\ Len(m.rounds) >= proc[p].max /\ m.status # "aborted") /\ m.kind = "structured"
  <2> DEFINE s == CASE m.pending # None -> m.pending
                    [] m.pending = None /\ Len(m.rounds) < proc[p].max -> "open"
                    [] OTHER -> "max_rounds"
             n == [m EXCEPT !.status = s]
             stage == IF s = "open" THEN "round" ELSE "wrap"
  <2>1. SaveAndTouch(n) /\ Step(p, stage, n)
    BY <1>4 DEF BeginWith, BeginStructured
  <2>2. s \in Complete \cup Incomplete /\ (s \in Complete => s = m.pending)
    BY <1>1 DEF Complete, Incomplete
  <2> HIDE DEF s
  <2>3. n \in States /\ n.rounds = m.rounds /\ n.kind = m.kind /\ n.status = s /\ n.pending = m.pending
    BY <2>2 DEF States
  <2>4. stage \in {"round", "wrap"} /\ (stage = "round" => s = "open") /\ (stage = "wrap" => s # "open")
    OBVIOUS
  <2> HIDE DEF n, stage
  <2>5. disk' = n /\ stamp' \in Stamp
    BY <2>1, Touched
  <2>6. DiskOK' /\ (Torn(disk') => stage = "wrap")
    BY <1>4, <2>2, <2>3, <2>4, <2>5 DEF DiskOK, Torn, Kinds, Complete
  <2>7. Goes(p) /\ proc'[p].shown = proc[p].shown /\ proc'[p].pc = stage
    BY <2>1, <2>3, <2>4, <2>5, <2>6, StepGoes DEF Working
  <2>8. QED BY <2>3, <2>4, <2>5, <2>7 DEF Begins
<1>5. QED
  BY <1>2, <1>3, <1>4 DEF Kinds

\* A process that works holds a state and the lock.
LEMMA AtWork ==
    ASSUME EngineInv, NEW p \in Procs, proc[p].pc \in Working
    PROVE  /\ proc[p].mem \in States /\ proc[p].mem.rounds = disk.rounds /\ proc[p].mem.kind \in Kinds
           /\ proc[p].mem.status \in Complete \cup Incomplete \cup {None}
           /\ lock = p /\ Placed(p) /\ proc[p] \in Process
<1>1. proc[p] \in Process
  BY DEF EngineInv, EngineTypeOK
<1>2. proc[p].mem \in States
  BY <1>1 DEF Process
<1>3. Placed(p) /\ lock = p
  BY DEF EngineInv, AllPlaced, LockHeld, Inside
<1>4. QED
  BY <1>1, <1>2, <1>3 DEF Placed, States

\* The process goes to its end, the rounds as they are.
Drops(p) == Goes(p) /\ disk'.rounds = disk.rounds /\ proc'[p].pc = "leave" /\ proc'[p].shown = {}

\* A process that leaves the saved state as it is.
LEMMA DropGoes ==
    ASSUME EngineInv, NEW p \in Procs, NEW c \in {1, 2}, Leave(p, c), UNCHANGED <<disk, stamp>>,
           proc[p].pc # "wrap"
    PROVE  Drops(p)
<1>1. DiskOK' /\ disk' \in States /\ stamp' \in Stamp /\ Untouched(p)
  BY DEF DiskOK, Untouched, EngineInv, EngineTypeOK
<1>2. Goes(p)
  BY <1>1, LeaveGoes
<1>3. proc'[p].pc = "leave" /\ proc'[p].shown = {}
  BY DEF Leave, Ended, Unstarted, EngineInv, EngineTypeOK
<1>4. QED
  BY <1>2, <1>3 DEF Drops

\* A round that fails for good, or feedback that cannot be updated.
LEMMA AbortGoes ==
    ASSUME EngineInv, NEW p \in Procs, NEW m \in States, m.rounds = disk.rounds, m.kind \in Kinds, Aborted(p, m)
    PROVE  Drops(p)
<1> DEFINE n == [m EXCEPT !.status = "aborted", !.summary = FALSE]
<1>1. Leave(p, 1) /\ disk' = n /\ stamp' \in Stamp
  <2>1. SaveAndTouch(n) /\ Leave(p, 1)
    BY DEF Aborted
  <2>2. QED BY <2>1, Touched
<1>2. n \in States /\ n.rounds = m.rounds /\ n.kind = m.kind /\ n.status = "aborted"
  BY DEF States, Incomplete
<1> HIDE DEF n
<1>3. DiskOK' /\ ~Torn(disk')
  BY <1>1, <1>2 DEF DiskOK, Torn, Complete
<1>4. Goes(p)
  BY <1>1, <1>2, <1>3, LeaveGoes
<1>5. proc'[p].pc = "leave" /\ proc'[p].shown = {}
  BY <1>1 DEF Leave, Ended, Unstarted, EngineInv, EngineTypeOK
<1>6. QED
  BY <1>1, <1>2, <1>4, <1>5 DEF Drops

\* A throw that is caught is told, another leaves the saved state alone.
LEMMA ThrownGoes ==
    ASSUME EngineInv, NEW p \in Procs, NEW m \in States, m.rounds = disk.rounds, m.kind \in Kinds,
           Thrown(p, m), proc[p].pc # "wrap"
    PROVE  Drops(p)
  BY AbortGoes, DropGoes DEF Thrown

\* The begin of a run works on the saved state, drops at most a pending verdict, and
\* leaves the rounds alone.
LEMMA BeginGoes == ASSUME EngineInv, NEW p \in Procs, Begin(p) PROVE Begins(p)
<1> DEFINE m == proc[p].mem
           q == IF OpenItems(Consumed(feedback, Replayed(m)), m.rounds) = {} THEN m.pending ELSE None
           n == [m EXCEPT !.pending = q]
<1>1. m \in States /\ m.rounds = disk.rounds /\ m.kind \in Kinds /\ m = disk
  BY AtWork DEF Begin, Working, Placed
<1>2. CASE jam /\ Replayed(m) # {}
  <2>1. Thrown(p, m) \/ (Leave(p, 1) /\ UNCHANGED <<disk, stamp>>)
    BY <1>2 DEF Begin
  <2>2. QED BY <1>1, <2>1, ThrownGoes, DropGoes DEF Begin, Drops, Begins
<1>3. CASE ~(jam /\ Replayed(m) # {})
  <2>1. BeginWith(p, n)
    BY <1>3 DEF Begin
  <2>2. q \in Complete \cup {None}
    BY <1>1 DEF States
  <2> HIDE DEF q
  <2>3. n \in States /\ n.rounds = m.rounds /\ n.kind = m.kind /\ n.status = m.status
    BY <1>1, <2>2 DEF States
  <2> HIDE DEF n
  <2>4. QED BY <1>1, <2>1, <2>3, BeginsGoes DEF Begin
<1>4. QED
  BY <1>2, <1>3

\* The agent is asked.
Asks(p) == /\ Goes(p) /\ disk'.rounds = disk.rounds
           /\ proc'[p].pc = "agent" /\ proc'[p].shown = Receipt(feedback, disk.rounds)

\* The prompt takes what feedback is open now, unless gathering for it throws.
LEMMA RoundGoes == ASSUME EngineInv, NEW p \in Procs, StartRound(p) PROVE Drops(p) \/ Asks(p)
<1> DEFINE m == proc[p].mem
           shown == Receipt(feedback, m.rounds)
<1>1. /\ m \in States /\ m.rounds = disk.rounds /\ m.kind \in Kinds /\ m.status = "open"
      /\ proc \in [Procs -> Process] /\ proc[p] \in Process /\ stamp \in Stamp /\ disk \in States /\ DiskOK
      /\ proc[p].pc # "wrap"
  BY AtWork DEF StartRound, Working, Placed, EngineInv, EngineTypeOK
<1>2. CASE Thrown(p, m)
  BY <1>1, <1>2, ThrownGoes
<1>3. CASE proc' = [proc EXCEPT ![p].pc = "agent", ![p].shown = shown] /\ disk' \in {m, disk} /\ stamp' = stamp
  <2>1. shown \in SUBSET (Items \X Nat)
    <3>1. \A i \in Items : feedback[i].version \in Nat
      BY DEF EngineInv, EngineTypeOK, Note
    <3>2. QED BY <3>1 DEF Receipt, OpenItems
  <2>2. DiskOK' /\ disk' \in States /\ disk'.rounds = disk.rounds /\ (Torn(disk') => Untouched(p))
    BY <1>1, <1>3 DEF DiskOK, Torn, Untouched, Complete
  <2> HIDE DEF shown
  <2>3. proc'[p] = [proc[p] EXCEPT !.pc = "agent", !.shown = shown] /\ \A q \in Procs : q # p => proc'[q] = proc[q]
    BY <1>1, <1>3
  <2>4. proc'[p] \in Process /\ proc'[p].pc = "agent" /\ proc'[p].shown = shown /\ proc'[p].mem = m
    BY <1>1, <2>1, <2>3 DEF Process
  <2>5. proc' \in [Procs -> Process]
    BY <1>1, <1>3, <2>3, <2>4
  <2> HIDE DEF m
  <2>6. Placed(p)'
    BY <1>1, <2>2, <2>4 DEF Placed
  <2>7. shown = Receipt(feedback, disk.rounds)
    BY <1>1 DEF shown
  <2>8. Goes(p)
    BY <1>1, <1>3, <2>2, <2>3, <2>4, <2>5, <2>6 DEF Goes, Inside, Working
  <2>9. QED BY <2>2, <2>4, <2>7, <2>8 DEF Asks
<1>4. QED
  BY <1>2, <1>3 DEF StartRound

\* The round that the agent has answered is the only one that is added.
Commits(p) == /\ Goes(p) /\ proc'[p].pc = "consume" /\ proc'[p].shown = proc[p].shown
              /\ disk'.rounds = Append(disk.rounds, [by |-> p, shown |-> proc[p].shown])

\* The agent's answer either ends the run without a round or appends one round that
\* names the feedback it was shown.
LEMMA ReplyGoes == ASSUME EngineInv, NEW p \in Procs, AgentReply(p) PROVE Drops(p) \/ Commits(p)
<1> DEFINE m == proc[p].mem
           r == [by |-> p, shown |-> proc[p].shown]
<1>1. /\ m \in States /\ m.rounds = disk.rounds /\ m.kind \in Kinds /\ m.status = "open"
      /\ proc[p] \in Process
  BY AtWork DEF AgentReply, Working, Placed
<1>2. CASE Aborted(p, m)
  BY <1>1, <1>2, AbortGoes
<1>3. ASSUME NEW g \in BOOLEAN,
             SaveAndTouch([m EXCEPT !.rounds = Append(@, r), !.gaps = g]),
             Step(p, "consume", [m EXCEPT !.rounds = Append(@, r), !.gaps = g])
      PROVE  Commits(p)
  <2> DEFINE rs == Append(m.rounds, r)
             n == [m EXCEPT !.rounds = rs, !.gaps = g]
  <2>1. r \in Records
    BY <1>1 DEF Records, Process
  <2>2. rs \in Seq(Records)
    <3>1. m.rounds \in Seq(Records)
      BY <1>1 DEF States
    <3> HIDE DEF m, r
    <3>2. QED BY <2>1, <3>1
  <2>3. n = [m EXCEPT !.rounds = Append(@, r), !.gaps = g]
    OBVIOUS
  <2>4. disk' = n /\ stamp' \in Stamp /\ Step(p, "consume", n)
    BY <1>3, <2>3, Touched
  <2> HIDE DEF rs
  <2>5. n \in States /\ n.rounds = rs /\ n.kind = m.kind /\ n.status = "open"
    BY <1>1, <2>2 DEF States
  <2> HIDE DEF n
  <2>6. DiskOK' /\ ~Torn(disk')
    BY <1>1, <2>4, <2>5 DEF DiskOK, Torn, Complete
  <2>7. Goes(p) /\ proc'[p].shown = proc[p].shown /\ proc'[p].pc = "consume"
    BY <1>1, <2>4, <2>5, <2>6, StepGoes DEF Working
  <2>8. disk'.rounds = Append(disk.rounds, r)
    BY <1>1, <2>4, <2>5 DEF rs
  <2>9. QED BY <2>7, <2>8 DEF Commits
<1>4. QED
  BY <1>2, <1>3 DEF AgentReply

\* What was shown is marked, or the run ends.
Marks(p) == /\ Goes(p) /\ disk'.rounds = disk.rounds
            /\ feedback' = Consumed(feedback, proc[p].shown)
            /\ proc'[p].pc = "judge" /\ proc'[p].shown = {}

\* The feedback shown to a round is marked handled once the round is saved; if that
\* fails the run leaves with the feedback as it was.
LEMMA ConsumeGoes ==
    ASSUME EngineInv, NEW p \in Procs, Consume(p)
    PROVE  Marks(p) \/ (Drops(p) /\ feedback' = feedback)
<1> DEFINE m == proc[p].mem
<1>1. /\ m \in States /\ m.rounds = disk.rounds /\ m.kind \in Kinds /\ m.status = "open" /\ disk \in States
      /\ proc \in [Procs -> Process] /\ proc[p] \in Process /\ stamp \in Stamp /\ disk \in States /\ DiskOK
  BY AtWork DEF Consume, Working, Placed, EngineInv, EngineTypeOK
<1>2. proc[p].pc # "wrap" /\ (UNCHANGED disk => DiskOK' /\ Untouched(p))
  BY <1>1 DEF Consume, DiskOK, Untouched
<1>4. CASE jam /\ proc[p].shown # {}
  BY <1>1, <1>2, <1>4, ThrownGoes DEF Consume
<1>5. CASE ~(jam /\ proc[p].shown # {})
  <2>1. /\ feedback' = Consumed(feedback, proc[p].shown) /\ disk' = disk /\ stamp' = stamp
        /\ proc' = [proc EXCEPT ![p].pc = "judge", ![p].shown = {}]
    BY <1>5 DEF Consume
  <2>2. proc'[p] = [proc[p] EXCEPT !.pc = "judge", !.shown = {}] /\ \A q \in Procs : q # p => proc'[q] = proc[q]
    BY <1>1, <2>1
  <2>3. proc'[p] \in Process /\ proc'[p].pc = "judge" /\ proc'[p].shown = {} /\ proc'[p].mem = m
    BY <1>1, <2>2 DEF Process
  <2>4. proc' \in [Procs -> Process]
    BY <1>1, <2>1, <2>2, <2>3
  <2> HIDE DEF m
  <2>5. Placed(p)'
    BY <1>1, <2>1, <2>3 DEF Placed
  <2>6. QED BY <1>1, <1>2, <2>1, <2>2, <2>3, <2>4, <2>5 DEF Marks, Goes, Inside, Working
<1>6. QED
  BY <1>4, <1>5

\* The verdict on a round.
LEMMA JudgeGoes ==
    ASSUME EngineInv, NEW p \in Procs, Judge(p)
    PROVE  Begins(p)
<1> DEFINE m == proc[p].mem
<1>1. /\ m \in States /\ m.rounds = disk.rounds /\ m.kind \in Kinds
      /\ stamp \in Stamp /\ disk \in States /\ DiskOK /\ proc[p].pc # "wrap"
  BY AtWork DEF Judge, Working, EngineInv, EngineTypeOK
<1>2. PICK v \in {"insufficient_evidence", "no_new_info", "converged", "open", "max_rounds"} :
         IF v = "open" THEN Step(p, "round", [m EXCEPT !.status = v]) /\ UNCHANGED <<disk, stamp>>
                       ELSE Wrap(p, [m EXCEPT !.status = v])
  BY DEF Judge, Verdicts
<1> DEFINE n == [m EXCEPT !.status = v]
<1>3. n \in States /\ n.rounds = m.rounds /\ n.kind = m.kind /\ n.status = v
  BY <1>1 DEF States, Complete, Incomplete
<1>4. IF v = "open" THEN Step(p, "round", n) /\ UNCHANGED <<disk, stamp>> ELSE Wrap(p, n)
  BY <1>2
<1> HIDE DEF n
<1>5. CASE v = "open"
  <2>1. DiskOK' /\ Untouched(p)
    BY <1>1, <1>4, <1>5 DEF DiskOK, Untouched
  <2>2. Goes(p) /\ proc'[p].shown = proc[p].shown /\ proc'[p].pc = "round"
    BY <1>1, <1>3, <1>4, <1>5, <2>1, StepGoes DEF Working
  <2>3. QED BY <1>4, <1>5, <2>2 DEF Begins
<1>6. CASE v # "open"
  <2>1. Verdict(n)
    BY <1>1, <1>3, <1>6 DEF Verdict
  <2>2. Wraps(p)
    BY <1>4, <1>6, <2>1, WrapGoes
  <2>3. QED BY <2>2 DEF Wraps, Begins
<1>7. QED
  BY <1>5, <1>6

\* A structured run that only has to wrap up.
LEMMA BeginAtEndGoes == ASSUME EngineInv, NEW p \in Procs, BeginAtEnd(p) PROVE Wraps(p)
<1>1. Verdict(proc[p].mem) /\ Wrap(p, proc[p].mem)
  BY AtWork DEF BeginAtEnd, Working, Verdict, Placed
<1>2. QED
  BY <1>1, WrapGoes

\* A new question has no rounds; a framing that fails leaves the saved state alone.
LEMMA FrameGoes ==
    ASSUME EngineInv, NEW p \in Procs, Frame(p)
    PROVE  /\ Goes(p) /\ disk'.rounds \in {disk.rounds, <<>>}
           /\ proc'[p].pc \in {"begin", "leave"} /\ proc'[p].shown \in {proc[p].shown, {}}
<1>1. stamp \in Stamp /\ disk \in States /\ DiskOK
  BY DEF EngineInv, EngineTypeOK
<1>2. ASSUME NEW k \in Kinds, Step(p, "begin", NewState(k)), SaveAndTouch(NewState(k))
      PROVE  Goes(p) /\ disk'.rounds = <<>> /\ proc'[p].pc = "begin" /\ proc'[p].shown = proc[p].shown
  <2> DEFINE n == NewState(k)
  <2>1. NoState \in States
    BY DEF NoState, States, Complete, Incomplete, None, Kinds
  <2>2. n \in States /\ n.kind = k /\ n.status = "open" /\ n.rounds = <<>>
    <3>1. n \in States /\ n.kind = k /\ n.status = "open" /\ n.rounds = NoState.rounds
      BY <2>1 DEF NewState, States, Incomplete
    <3>2. QED BY <3>1 DEF NoState
  <2> HIDE DEF n
  <2>3. disk' = n /\ stamp' \in Stamp /\ Step(p, "begin", n)
    BY <1>2, Touched DEF n
  <2>4. DiskOK' /\ ~Torn(disk')
    BY <2>2, <2>3 DEF DiskOK, Torn, Complete
  <2>5. Goes(p) /\ proc'[p].shown = proc[p].shown /\ proc'[p].pc = "begin"
    BY <2>2, <2>3, <2>4, StepGoes DEF Working
  <2>6. QED BY <2>2, <2>3, <2>5
<1>3. ASSUME NEW c \in {1, 2}, Leave(p, c), UNCHANGED <<disk, stamp>> PROVE Drops(p)
  BY <1>3, DropGoes DEF Frame
<1>4. QED
  BY <1>2, <1>3 DEF Frame, Drops

-----------------------------------------------------------------------------
(* The lock and the saved state.                                             *)

\* Marking items as handled keeps them notes.
LEMMA ConsumedTyped ==
    ASSUME NEW f \in [Items -> Note], NEW rcpt PROVE Consumed(f, rcpt) \in [Items -> Note]
<1>1. ASSUME NEW i \in Items, NEW b \in BOOLEAN PROVE [f[i] EXCEPT !.handled = @ \/ b] \in Note
  BY DEF Note
<1>2. QED
  BY <1>1 DEF Consumed

\* A step of the process with the lock disturbs nobody else.
LEMMA GoesKeeps ==
    ASSUME EngineInv, NEW p \in Procs, proc[p].pc \in Inside, Goes(p),
           UNCHANGED <<jam, lock, broken>>, feedback' \in [Items -> Note]
    PROVE  EngineInv'
<1>1. \A q \in Procs : q # p => proc'[q] = proc[q] /\ proc[q].pc \notin Inside
  BY DEF Goes, EngineInv, LockHeld
<1>2. LockHeld'
  BY <1>1 DEF LockHeld, EngineInv
<1>3. AllPlaced'
  <2>1. ASSUME NEW q \in Procs, q # p PROVE Placed(q)'
    BY <1>1, <2>1 DEF Placed, Inside, Working
  <2>2. Placed(p)'
    BY DEF Goes
  <2>3. QED BY <2>1, <2>2 DEF AllPlaced
<1>4. EngineTypeOK' /\ DiskOK'
  BY DEF Goes, EngineTypeOK, EngineInv
<1>5. TornOK'
  <2>1. SUFFICES ASSUME Torn(disk') PROVE Rewrapping'
    BY DEF TornOK
  <2>2. CASE proc'[p].pc = "wrap"
    BY <2>2 DEF Rewrapping
  <2>3. CASE Untouched(p)
    <3>1. \A q \in Procs : proc[q].pc # "wrap"
      BY <1>1, <2>3 DEF Untouched, Inside, Working
    <3>2. Rewrapping
      BY <2>1, <2>3 DEF Untouched, TornOK, EngineInv
    <3>3. QED BY <3>1, <3>2 DEF Rewrapping
  <2>4. QED BY <2>1, <2>2, <2>3 DEF Goes
<1>6. QED
  BY <1>2, <1>3, <1>4, <1>5 DEF EngineInv

\* Neither does one that is outside, or leaves with the lock or without.
LEMMA OutsideKeeps ==
    ASSUME EngineInv, NEW p \in Procs, NEW P \in Process, P.pc \notin Inside,
           proc' = [proc EXCEPT ![p] = P], disk' = disk, stamp' = stamp,
           lock' = lock \/ (lock = p /\ lock' = 0),
           jam' \in BOOLEAN, feedback' \in [Items -> Note], broken' \subseteq {"wrap", "elsewhere"},
           broken \subseteq broken', proc[p].pc = "wrap" => "wrap" \in broken'
    PROVE  EngineInv'
<1>1. proc' \in [Procs -> Process] /\ proc'[p] = P /\ \A q \in Procs : q # p => proc'[q] = proc[q]
  BY DEF EngineInv, EngineTypeOK
<1>2. LockHeld'
  BY <1>1 DEF LockHeld, EngineInv
<1>3. AllPlaced'
  <2>1. ASSUME NEW q \in Procs, q # p PROVE Placed(q)'
    BY <1>1, <2>1 DEF Placed, EngineInv, AllPlaced
  <2>2. Placed(p)'
    BY <1>1 DEF Placed, Inside, Working
  <2>3. QED BY <2>1, <2>2 DEF AllPlaced
<1>4. EngineTypeOK' /\ DiskOK'
  BY <1>1 DEF EngineTypeOK, EngineInv, DiskOK
<1>5. TornOK'
  BY <1>1 DEF TornOK, Torn, Rewrapping, EngineInv
<1>6. QED
  BY <1>2, <1>3, <1>4, <1>5 DEF EngineInv

\* The directory was not there, so nobody is inside.
LEMMA LockKeeps == ASSUME EngineInv, NEW p \in Procs, Lock(p) PROVE EngineInv'
<1>1. /\ proc \in [Procs -> Process] /\ proc[p] \in Process /\ disk \in States /\ stamp \in Stamp
      /\ feedback \in [Items -> Note] /\ jam \in BOOLEAN /\ broken \subseteq {"wrap", "elsewhere"} /\ DiskOK
  BY DEF EngineInv, EngineTypeOK
<1>2. NoState \in States
  BY DEF NoState, States, Complete, Incomplete, None, Kinds
<1>3. CASE lock # 0
  <2>1. proc' = [proc EXCEPT ![p] = Ended("exited", 1)] /\ lock' = lock /\ UNCHANGED <<disk, stamp, feedback, jam, broken>>
    BY <1>3 DEF Lock, End
  <2>2. Ended("exited", 1) \in Process /\ Ended("exited", 1).pc = "exited"
    <3>1. Unstarted \in Process
      BY <1>2 DEF Unstarted, Process, Modes
    <3>2. QED BY <3>1 DEF Ended, Process
  <2>3. Ended("exited", 1).pc \notin Inside
    BY <2>2 DEF Inside, Working
  <2>4. proc[p].pc # "wrap"
    BY DEF Lock
  <2>5. QED BY <1>1, <2>1, <2>2, <2>3, <2>4, OutsideKeeps
<1>4. CASE lock = 0
  <2>1. lock' = p /\ Load(p) /\ UNCHANGED <<disk, stamp, feedback, jam, broken>>
    BY <1>4 DEF Lock
  <2>2. \A q \in Procs : proc[q].pc \notin Inside
    BY <1>4 DEF EngineInv, LockHeld
  <2>3. DiskOK'
    BY <1>1, <2>1 DEF DiskOK
  <2>4. ASSUME NEW m \in States, NEW stage \in {"frame", "begin"}, Step(p, stage, m),
               stage = "begin" => m = disk /\ m.kind \in Kinds,
               stage = "frame" => proc[p].mode = "fresh" \/ disk = NoState
        PROVE  EngineInv'
    <3>1. proc' = [proc EXCEPT ![p].pc = stage, ![p].mem = m]
      BY <2>4 DEF Step
    <3>2. proc'[p] = [proc[p] EXCEPT !.pc = stage, !.mem = m] /\ \A q \in Procs : q # p => proc'[q] = proc[q]
      BY <1>1, <3>1
    <3>3. /\ proc'[p] \in Process /\ proc'[p].pc = stage /\ proc'[p].mem = m
          /\ proc'[p].mode = proc[p].mode
      BY <1>1, <3>2 DEF Process
    <3>4. proc' \in [Procs -> Process]
      BY <1>1, <3>1, <3>2, <3>3
    <3>5. LockHeld'
      BY <2>1, <2>2, <3>2 DEF LockHeld
    <3>6. AllPlaced'
      <4>1. ASSUME NEW q \in Procs, q # p PROVE Placed(q)'
        BY <2>2, <3>2, <4>1 DEF Placed, Inside, Working
      <4>2. Placed(p)'
        BY <2>1, <2>4, <3>3 DEF Placed, Working
      <4>3. QED BY <4>1, <4>2 DEF AllPlaced
    <3>7. EngineTypeOK'
      BY <1>1, <2>1, <3>4 DEF EngineTypeOK
    <3>8. TornOK'
      BY <2>1, <2>2 DEF TornOK, Torn, Rewrapping, EngineInv, Inside, Working
    <3>9. QED BY <2>3, <3>5, <3>6, <3>7, <3>8 DEF EngineInv
  <2>5. \/ Step(p, "frame", NoState) /\ (proc[p].mode = "fresh" \/ disk = NoState)
        \/ Step(p, "begin", disk) /\ disk.kind \in Kinds
    BY <1>1, <2>1 DEF Load, DiskOK
  <2>6. QED BY <1>1, <1>2, <2>4, <2>5
<1>5. QED
  BY <1>3, <1>4

\* Preparation, exit and kill of a process.
LEMMA EdgesKeep == ASSUME EngineInv, NEW p \in Procs, Prepare(p) \/ Exit(p) \/ Kill(p) PROVE EngineInv'
<1>1. /\ proc \in [Procs -> Process] /\ proc[p] \in Process /\ disk \in States /\ stamp \in Stamp
      /\ feedback \in [Items -> Note] /\ jam \in BOOLEAN /\ broken \subseteq {"wrap", "elsewhere"}
  BY DEF EngineInv, EngineTypeOK
<1>2. NoState \in States
  BY DEF NoState, States, Complete, Incomplete, None, Kinds
<1>3. \A c \in {0, 1, 2, 9} : Ended("exited", c) \in Process /\ Ended("exited", c).pc = "exited"
  <2>1. Unstarted \in Process
    BY <1>2 DEF Unstarted, Process, Modes
  <2>2. QED BY <2>1 DEF Ended, Process
<1>4. "exited" \notin Inside /\ "lock" \notin Inside
  BY DEF Inside, Working
<1>5. CASE Prepare(p)
  <2>1. UNCHANGED <<disk, stamp, feedback, jam, lock, broken>> /\ proc[p].pc # "wrap"
    BY <1>5 DEF Prepare
  <2>2. CASE disk = NoState
    <3>1. proc' = [proc EXCEPT ![p] = Ended("exited", 1)]
      BY <1>5, <2>2 DEF Prepare
    <3>2. QED BY <1>1, <1>3, <1>4, <2>1, <3>1, OutsideKeeps
  <2>3. CASE disk # NoState
    <3> DEFINE max == Len(disk.rounds) + MoreRounds
               P == [proc[p] EXCEPT !.pc = "lock", !.max = max]
    <3>1. proc' = [proc EXCEPT ![p].pc = "lock", ![p].max = max]
      BY <1>5, <2>3 DEF Prepare
    <3>2. max \in Nat
      <4>1. disk.rounds \in Seq(Records)
        BY <1>1 DEF States
      <4>2. QED BY <4>1
    <3> HIDE DEF max
    <3>3. proc' = [proc EXCEPT ![p] = P]
      BY <1>1, <3>1
    <3>4. P \in Process /\ P.pc = "lock"
      BY <1>1, <3>2 DEF Process
    <3> HIDE DEF P
    <3>5. QED BY <1>1, <1>4, <2>1, <3>3, <3>4, OutsideKeeps
  <2>4. QED BY <2>2, <2>3
<1>6. CASE Exit(p)
  <2>1. /\ proc' = [proc EXCEPT ![p] = Ended("exited", proc[p].code)]
        /\ lock' = (IF lock = p THEN 0 ELSE lock) /\ UNCHANGED <<disk, stamp, feedback, jam, broken>>
        /\ proc[p].pc # "wrap"
    BY <1>6 DEF Exit, End
  <2>2. proc[p].code \in {0, 1, 2, 9}
    BY <1>1 DEF Process
  <2>3. lock' = lock \/ (lock = p /\ lock' = 0)
    BY <2>1
  <2>4. Ended("exited", proc[p].code) \in Process /\ Ended("exited", proc[p].code).pc \notin Inside
    BY <1>3, <1>4, <2>2
  <2>5. QED BY <1>1, <2>1, <2>3, <2>4, OutsideKeeps
<1>7. CASE Kill(p)
  <2>1. proc' = [proc EXCEPT ![p] = Ended("exited", 9)] /\ UNCHANGED <<disk, stamp, lock>>
    BY <1>7 DEF Kill, End
  <2>2. /\ jam' \in BOOLEAN /\ broken' \subseteq {"wrap", "elsewhere"}
        /\ broken \subseteq broken' /\ (proc[p].pc = "wrap" => "wrap" \in broken')
    BY <1>1, <1>7 DEF Kill
  <2>3. feedback' \in [Items -> Note]
    BY <1>1, <1>7, ConsumedTyped DEF Kill
  <2>4. QED BY <1>1, <1>3, <1>4, <2>1, <2>2, <2>3, OutsideKeeps
<1>8. QED
  BY <1>5, <1>6, <1>7

\* A step of the process that works, in one of the shapes above.
LEMMA RunGoes ==
    ASSUME EngineInv, NEW p \in Procs, Run(p), proc[p].pc \in Inside \ {"leave"}
    PROVE  Goes(p) /\ lock = p /\ UNCHANGED <<jam, lock, broken>> /\ feedback' \in [Items -> Note]
<1>1. feedback \in [Items -> Note] /\ lock = p
  BY DEF EngineInv, EngineTypeOK, LockHeld
<1>2. ~Prepare(p) /\ ~Lock(p) /\ ~Exit(p)
  BY DEF Prepare, Lock, Exit, Inside, Working
<1>3. CASE Begin(p)
  <2>1. feedback' = feedback \/ feedback' = Consumed(feedback, Replayed(proc[p].mem))
    BY <1>3 DEF Begin
  <2>2. Goes(p) /\ UNCHANGED <<jam, lock, broken>>
    BY <1>3, BeginGoes DEF Begin, Begins
  <2>3. QED BY <1>1, <2>1, <2>2, ConsumedTyped
<1>4. CASE Consume(p)
  BY <1>1, <1>4, ConsumeGoes, ConsumedTyped DEF Consume, Marks, Drops
<1>5. CASE Frame(p)
  BY <1>1, <1>5, FrameGoes DEF Frame
<1>6. CASE BeginAtEnd(p)
  BY <1>1, <1>6, BeginAtEndGoes DEF BeginAtEnd, Wraps
<1>7. CASE StartRound(p)
  BY <1>1, <1>7, RoundGoes DEF StartRound, Drops, Asks
<1>8. CASE AgentReply(p)
  BY <1>1, <1>8, ReplyGoes DEF AgentReply, Drops, Commits
<1>9. CASE Judge(p)
  BY <1>1, <1>9, JudgeGoes DEF Judge, Begins
<1>10. CASE Summarize(p)
  BY <1>1, <1>10, SummarizeGoes DEF Summarize, Wraps
<1>11. QED
  BY <1>2, <1>3, <1>4, <1>5, <1>6, <1>7, <1>8, <1>9, <1>10 DEF Run

\* Whatever a process does next, lock, saved state and places stay consistent.
LEMMA RunKeeps == ASSUME EngineInv, NEW p \in Procs, Run(p) PROVE EngineInv'
<1>1. CASE proc[p].pc \in Inside \ {"leave"}
  BY <1>1, RunGoes, GoesKeeps
<1>2. CASE proc[p].pc \notin Inside \ {"leave"}
  <2>1. Prepare(p) \/ Lock(p) \/ Exit(p)
    BY <1>2 DEF Run, Frame, Begin, BeginAtEnd, StartRound, AgentReply, Consume, Judge, Summarize,
                Inside, Working
  <2>2. QED BY <2>1, LockKeeps, EdgesKeep
<1>3. QED
  BY <1>1, <1>2

\* An operator takes the lock away from a process that stopped only.
LEMMA OperatorsKeep ==
    ASSUME EngineInv, (\E p \in Procs : Unlock(p)) \/ Unjam \/ (\E i \in Items : Edit(i))
    PROVE  EngineInv'
<1>1. DiskOK /\ disk \in States /\ feedback \in [Items -> Note]
  BY DEF EngineInv, EngineTypeOK
<1>2. DiskOK' /\ disk' = disk /\ proc' = proc /\ stamp' = stamp /\ broken' = broken
  BY <1>1 DEF DiskOK, Unlock, Unjam, Edit
<1>3. AllPlaced'
  BY <1>2 DEF AllPlaced, Placed, EngineInv
<1>4. LockHeld' /\ lock' \in Procs \cup {0}
  BY <1>2 DEF LockHeld, EngineInv, EngineTypeOK, Unlock, Unjam, Edit, Alive, Inside, Working
<1>5. feedback' \in [Items -> Note] /\ jam' \in BOOLEAN
  <2>1. ASSUME NEW i \in Items, Edit(i) PROVE feedback' \in [Items -> Note]
    <3>1. [on |-> ~feedback[i].on, version |-> feedback[i].version + 1, handled |-> FALSE] \in Note
      BY <1>1 DEF Note
    <3>2. feedback' = [feedback EXCEPT ![i] = [on |-> ~feedback[i].on, version |-> feedback[i].version + 1,
                                               handled |-> FALSE]]
      BY <2>1 DEF Edit
    <3>3. QED BY <1>1, <3>1, <3>2
  <2>2. QED BY <1>1, <2>1 DEF Unlock, Unjam, Edit, EngineInv, EngineTypeOK
<1>6. TornOK'
  BY <1>2 DEF TornOK, Torn, Rewrapping, EngineInv
<1>7. QED
  BY <1>1, <1>2, <1>3, <1>4, <1>5, <1>6 DEF EngineInv, EngineTypeOK

\* A service starts a process that has not run.
LEMMA SpawnKeeps ==
    ASSUME EngineInv, NEW s \in Services, NEW p \in Procs, NEW mode \in Modes, Spawn(s, p, mode)
    PROVE  EngineInv'
<1> DEFINE pc == IF mode = "resume" THEN "prepare" ELSE "lock"
           P == [proc[p] EXCEPT !.pc = pc, !.mode = mode, !.max = MaxRounds]
<1>1. /\ proc \in [Procs -> Process] /\ proc[p] \in Process
      /\ feedback \in [Items -> Note] /\ jam \in BOOLEAN /\ broken \subseteq {"wrap", "elsewhere"}
  BY DEF EngineInv, EngineTypeOK
<1>2. /\ proc' = [proc EXCEPT ![p].pc = pc, ![p].mode = mode, ![p].max = MaxRounds]
      /\ UNCHANGED <<disk, stamp, feedback, jam, lock, broken>>
  BY DEF Spawn
<1>3. pc \in {"prepare", "lock"}
  OBVIOUS
<1> HIDE DEF pc
<1>4. proc' = [proc EXCEPT ![p] = P]
  BY <1>1, <1>2
<1>5. P \in Process /\ P.pc = pc
  BY <1>1, <1>3 DEF Process
<1>6. P.pc \notin Inside /\ proc[p].pc # "wrap"
  BY <1>3, <1>5 DEF Inside, Working, Spawn, Next1
<1> HIDE DEF P
<1>7. QED
  BY <1>1, <1>2, <1>4, <1>5, <1>6, OutsideKeeps

\* Steps of a service that leave the engine alone but for the age of the state and the
\* feedback's lock.
LEMMA ServicesKeep ==
    ASSUME EngineInv, stamp' \in Stamp, jam' \in BOOLEAN, UNCHANGED <<disk, feedback, lock, proc, broken>>
    PROVE  EngineInv'
<1>1. EngineTypeOK'
  BY DEF EngineInv, EngineTypeOK
<1>2. LockHeld' /\ DiskOK' /\ AllPlaced'
  BY DEF EngineInv, LockHeld, DiskOK, AllPlaced, Placed
<1>3. TornOK'
  BY DEF EngineInv, TornOK, Torn, Rewrapping
<1>4. QED
  BY <1>1, <1>2, <1>3 DEF EngineInv

\* No process runs and nothing is saved.
LEMMA InitEngine == Init => EngineInv
<1> SUFFICES ASSUME Init PROVE EngineInv
  OBVIOUS
<1>1. NoState \in States
  BY DEF NoState, States, Complete, Incomplete, None, Kinds
<1>2. Unstarted \in Process /\ Unstarted.pc = "off"
  BY <1>1 DEF Unstarted, Process, Modes
<1>3. disk = NoState /\ jam = FALSE /\ lock = 0 /\ broken = {} /\ proc = [p \in Procs |-> Unstarted]
  BY DEF Init, EngineInit
<1>4. stamp \in Stamp /\ feedback \in [Items -> Note]
  BY DEF Init, EngineInit, Stamp, Note
<1>5. EngineTypeOK
  BY <1>1, <1>2, <1>3, <1>4 DEF EngineTypeOK
<1>6. DiskOK /\ TornOK
  BY <1>3 DEF DiskOK, TornOK, Torn, NoState, Complete, None
<1>7. LockHeld /\ AllPlaced
  BY <1>2, <1>3 DEF LockHeld, AllPlaced, Placed, Inside, Working
<1>8. QED
  BY <1>5, <1>6, <1>7 DEF EngineInv

\* The steps of engine, services, analyst and operators.
LEMMA EngineStep == EngineInv /\ [Next]_vars => EngineInv'
<1> SUFFICES ASSUME EngineInv, [Next]_vars PROVE EngineInv'
  OBVIOUS
<1>1. ASSUME NEW p \in Procs, Engine(p) PROVE EngineInv'
  BY <1>1, RunKeeps DEF Engine
<1>2. ASSUME NEW p \in Procs, ApiStart(p) \/ RavenStart(p) PROVE EngineInv'
  BY <1>2, SpawnKeeps DEF ApiStart, RavenStart, Services, Modes
<1>3. ASSUME NEW p \in Procs, Kill(p) PROVE EngineInv'
  BY <1>3, EdgesKeep
<1>4. CASE (\E p \in Procs : Unlock(p)) \/ Unjam \/ (\E i \in Items : Edit(i))
  BY <1>4, OperatorsKeep
<1>5. CASE LapseState
  <2>1. stamp' \in Stamp /\ jam' \in BOOLEAN
    BY <1>5 DEF LapseState, EngineInv, EngineTypeOK, Stamp
  <2>2. QED BY <1>5, <2>1, ServicesKeep DEF LapseState
<1>6. CASE UNCHANGED engine
  BY <1>6, ServicesKeep DEF engine, EngineInv, EngineTypeOK
<1>7. ASSUME NEW s \in Services, Restart(s) PROVE EngineInv'
  <2>1. jam' \in BOOLEAN /\ UNCHANGED <<disk, stamp, feedback, lock, proc, broken>>
    BY <1>7 DEF Restart, EngineInv, EngineTypeOK
  <2>2. QED BY <2>1, ServicesKeep DEF EngineInv, EngineTypeOK
<1>8. (\E s \in Services : Close(s)) \/ LapseHint \/ RemoveLaunch \/ UNCHANGED vars
        => UNCHANGED engine
  BY DEF Close, LapseHint, RemoveLaunch, vars
<1>9. QED
  BY <1>1, <1>2, <1>3, <1>4, <1>5, <1>6, <1>7, <1>8 DEF Next

-----------------------------------------------------------------------------
(* The saved rounds, and what a process leaves behind.                       *)

\* A process that was told to start over frames the question.
StartsOver == \E p \in Procs : proc[p].pc = "frame" /\ proc[p].mode = "fresh"

\* A step keeps the saved rounds, adds one, or begins the question anew.
LEMMA RunRounds ==
    ASSUME EngineInv, NEW p \in Procs, Run(p)
    PROVE  \/ disk'.rounds = disk.rounds
           \/ disk'.rounds = <<>> /\ StartsOver
           \/ \E r \in Records : disk'.rounds = Append(disk.rounds, r)
<1>1. CASE AgentReply(p)
  <2>1. proc[p] \in Process
    BY DEF EngineInv, EngineTypeOK
  <2>2. [by |-> p, shown |-> proc[p].shown] \in Records
    BY <2>1 DEF Records, Process
  <2>3. QED BY <1>1, <2>2, ReplyGoes DEF Drops, Commits
<1>2. CASE Frame(p)
  <2>1. disk'.rounds \in {disk.rounds, <<>>} /\ proc[p].pc = "frame" /\ Placed(p)
    BY <1>2, FrameGoes DEF Frame, EngineInv, AllPlaced
  <2>2. proc[p].mode = "fresh" \/ disk.rounds = <<>>
    BY <2>1 DEF Placed, NoState
  <2>3. QED BY <2>1, <2>2 DEF StartsOver
<1>3. CASE Begin(p) \/ Judge(p)
  BY <1>3, BeginGoes, JudgeGoes DEF Begins
<1>4. CASE BeginAtEnd(p) \/ Summarize(p)
  BY <1>4, BeginAtEndGoes, SummarizeGoes DEF Wraps
<1>5. CASE Consume(p)
  BY <1>5, ConsumeGoes DEF Drops, Marks
<1>6. CASE StartRound(p)
  BY <1>6, RoundGoes DEF Drops, Asks
<1>7. CASE Prepare(p) \/ Lock(p) \/ Exit(p)
  BY <1>7 DEF Prepare, Lock, Exit
<1>8. QED
  BY <1>1, <1>2, <1>3, <1>4, <1>5, <1>6, <1>7 DEF Run

\* Steps that are not those of an engine process at work leave the state alone.
LEMMA ElseSaved == ASSUME [Next]_vars, ~(\E p \in Procs : Run(p)) PROVE disk' = disk
  BY DEF Next, Engine, ApiStart, RavenStart, Spawn, Close, Restart, LapseState, LapseHint,
         RemoveLaunch, Kill, Unlock, Edit, Unjam, vars, engine

RoundsKeptStep == LET old == disk.rounds  new == disk'.rounds IN
                  \/ new = <<>> /\ \E p \in Procs : proc[p].pc = "frame" /\ proc[p].mode = "fresh"
                  \/ Len(old) <= Len(new) /\ \A k \in DOMAIN old : new[k] = old[k]

\* No step changes or drops a saved round, short of starting over.
LEMMA RoundsStep == EngineInv /\ [Next]_vars => RoundsKeptStep
<1> SUFFICES ASSUME EngineInv, [Next]_vars PROVE RoundsKeptStep
  OBVIOUS
<1>1. disk.rounds \in Seq(Records)
  BY DEF EngineInv, EngineTypeOK, States
<1>2. disk'.rounds = disk.rounds => RoundsKeptStep
  BY <1>1 DEF RoundsKeptStep
<1>3. disk'.rounds = <<>> /\ StartsOver => RoundsKeptStep
  BY DEF RoundsKeptStep, StartsOver
<1>4. ASSUME NEW r \in Records, disk'.rounds = Append(disk.rounds, r) PROVE RoundsKeptStep
  BY <1>1, <1>4 DEF RoundsKeptStep
<1>5. QED
  BY <1>2, <1>3, <1>4, RunRounds, ElseSaved

\* A process reaches its end by a step of its own.
ExitSettlesStep ==
    \A p \in Procs : proc[p].pc # "leave" /\ proc'[p].pc = "leave" /\ proc'[p].code = 0
                        => disk'.status # "open"

\* A process that begins to leave with success leaves a settled state behind.
LEMMA ExitStep == EngineInv /\ [Next]_vars => ExitSettlesStep
<1> SUFFICES ASSUME EngineInv, [Next]_vars PROVE ExitSettlesStep
  OBVIOUS
<1>1. proc \in [Procs -> Process]
  BY DEF EngineInv, EngineTypeOK
<1>2. ASSUME NEW p \in Procs, Run(p), proc[p].pc \in Inside \ {"leave"} PROVE ExitSettlesStep
  <2>1. Goes(p)
    BY <1>2, RunGoes
  <2>2. QED BY <2>1 DEF Goes, ExitSettlesStep
<1>3. ASSUME NEW p \in Procs, Run(p), proc[p].pc \notin Inside \ {"leave"} PROVE ExitSettlesStep
  <2>1. Prepare(p) \/ Lock(p) \/ Exit(p)
    BY <1>3 DEF Run, Frame, Begin, BeginAtEnd, StartRound, AgentReply, Consume, Judge, Summarize,
                Inside, Working
  <2>2. \/ \E c \in {1, proc[p].code} : proc' = [proc EXCEPT ![p] = Ended("exited", c)]
        \/ \E max : proc' = [proc EXCEPT ![p].pc = "lock", ![p].max = max]
        \/ \E stage \in {"frame", "begin"} : \E m : proc' = [proc EXCEPT ![p].pc = stage, ![p].mem = m]
    BY <2>1 DEF Prepare, Lock, Exit, End, Load, Step
  <2>3. (\A q \in Procs : q # p => proc'[q] = proc[q]) /\ proc'[p].pc # "leave"
    <3>1. proc[p] \in Process /\ \A c : Ended("exited", c).pc = "exited"
      BY <1>1 DEF Ended, Unstarted
    <3>2. ASSUME NEW c, proc' = [proc EXCEPT ![p] = Ended("exited", c)]
          PROVE  (\A q \in Procs : q # p => proc'[q] = proc[q]) /\ proc'[p].pc # "leave"
      BY <1>1, <3>1, <3>2
    <3>3. ASSUME NEW max, proc' = [proc EXCEPT ![p].pc = "lock", ![p].max = max]
          PROVE  (\A q \in Procs : q # p => proc'[q] = proc[q]) /\ proc'[p].pc # "leave"
      BY <1>1, <3>1, <3>3 DEF Process
    <3>4. ASSUME NEW stage \in {"frame", "begin"}, NEW m, proc' = [proc EXCEPT ![p].pc = stage, ![p].mem = m]
          PROVE  (\A q \in Procs : q # p => proc'[q] = proc[q]) /\ proc'[p].pc # "leave"
      BY <1>1, <3>1, <3>4 DEF Process
    <3>5. QED BY <2>2, <3>2, <3>3, <3>4
  <2>4. QED BY <2>3 DEF ExitSettlesStep
<1>4. ASSUME NEW p \in Procs, Kill(p) PROVE ExitSettlesStep
  <2>1. proc' = [proc EXCEPT ![p] = Ended("exited", 9)]
    BY <1>4 DEF Kill, End
  <2>2. QED BY <1>1, <2>1 DEF ExitSettlesStep, Ended, Unstarted
<1>5. ASSUME NEW s \in Services, NEW p \in Procs, NEW mode \in Modes, Spawn(s, p, mode)
      PROVE  ExitSettlesStep
  <2>1. \E pc \in {"prepare", "lock"} : proc' = [proc EXCEPT ![p].pc = pc, ![p].mode = mode, ![p].max = MaxRounds]
    BY <1>5 DEF Spawn
  <2>2. (\A q \in Procs : q # p => proc'[q] = proc[q]) /\ proc'[p].pc # "leave"
    BY <1>1, <2>1 DEF Process
  <2>3. QED BY <2>2 DEF ExitSettlesStep
<1>6. ASSUME NEW p \in Procs, ApiStart(p) \/ RavenStart(p) PROVE ExitSettlesStep
  BY <1>5, <1>6 DEF ApiStart, RavenStart, Services, Modes
<1>7. proc' = proc => ExitSettlesStep
  BY DEF ExitSettlesStep
<1>8. QED
  BY <1>2, <1>3, <1>4, <1>6, <1>7 DEF Next, Engine, Close, Restart, LapseState, LapseHint,
     RemoveLaunch, Unlock, Edit, Unjam, vars, engine

-----------------------------------------------------------------------------
(* The analyst's feedback.                                                   *)

\* What was shown is an earlier version of an item or the one that stands.
Current(r) == /\ r[2] <= feedback[r[1]].version
              /\ feedback[r[1]].version = r[2] => feedback[r[1]].on

Dealt(r) == feedback[r[1]].version = r[2] => feedback[r[1]].handled

Replays == {"wrap", "round", "agent", "judge", "summarize"}

\* What the process shows is current; when it is past its replay, everything shown
\* before is dealt with.
FeedbackAt(p) ==
    /\ \A r \in proc[p].shown : Current(r)
    /\ proc[p].pc \in Replays => \A r \in Receipts(disk) : Dealt(r)
    /\ proc[p].pc = "consume" => \A r \in Receipts(disk) \ proc[p].shown : Dealt(r)
    /\ proc[p].pc = "agent" => proc[p].shown \cap Receipts(disk) = {}

FeedbackInv == /\ FeedbackOnce
               /\ \A r \in Receipts(disk) : Current(r)
               /\ \A p \in Procs : FeedbackAt(p)

\* Feedback changes so that nothing dealt with comes up again.
Moves == \A r \in Items \X Nat : Current(r) => Current(r)' /\ (Dealt(r) => Dealt(r)')

\* What rounds and processes say they were shown are items and versions.
LEMMA ReceiptsTyped ==
    ASSUME EngineInv
    PROVE  Receipts(disk) \subseteq Items \X Nat /\ \A p \in Procs : proc[p].shown \subseteq Items \X Nat
<1>1. disk.rounds \in Seq(Records)
  BY DEF EngineInv, EngineTypeOK, States
<1>2. \A k \in DOMAIN disk.rounds : disk.rounds[k] \in Records
  BY <1>1
<1>3. Receipts(disk) \subseteq Items \X Nat
  BY <1>2 DEF Receipts, Records
<1>4. \A p \in Procs : proc[p].shown \subseteq Items \X Nat
  BY DEF EngineInv, EngineTypeOK, Process
<1>5. QED
  BY <1>3, <1>4

\* Marking receipts keeps versions, and marks those that are current.
LEMMA ConsumedMoves ==
    ASSUME EngineInv, NEW rcpt, feedback' = Consumed(feedback, rcpt)
    PROVE  Moves /\ \A r \in (Items \X Nat) \cap rcpt : Current(r) => Dealt(r)'
<1>1. ASSUME NEW i \in Items
      PROVE  /\ feedback'[i].version = feedback[i].version /\ feedback'[i].on = feedback[i].on
             /\ feedback[i].handled => feedback'[i].handled
             /\ feedback[i].on /\ <<i, feedback[i].version>> \in rcpt => feedback'[i].handled
  <2>1. feedback[i] \in Note
    BY DEF EngineInv, EngineTypeOK
  <2>2. feedback'[i] = [feedback[i] EXCEPT !.handled = @ \/ (feedback[i].on /\ <<i, feedback[i].version>> \in rcpt)]
    BY DEF Consumed
  <2> DEFINE b == feedback[i].handled \/ (feedback[i].on /\ <<i, feedback[i].version>> \in rcpt)
  <2>3. feedback'[i] = [feedback[i] EXCEPT !.handled = b]
    BY <2>2
  <2>4. b \in BOOLEAN
    OBVIOUS
  <2> HIDE DEF b
  <2>5. feedback'[i].version = feedback[i].version /\ feedback'[i].on = feedback[i].on /\ feedback'[i].handled = b
    BY <2>1, <2>3 DEF Note
  <2>6. QED BY <2>5 DEF b
<1>2. Moves
  BY <1>1 DEF Moves, Current, Dealt
<1>3. ASSUME NEW i \in Items, NEW v \in Nat, <<i, v>> \in rcpt, Current(<<i, v>>) PROVE Dealt(<<i, v>>)'
  BY <1>1, <1>3 DEF Current, Dealt
<1>4. QED
  BY <1>2, <1>3

\* An edit makes everything shown before an earlier version.
LEMMA EditMoves == ASSUME EngineInv, NEW i \in Items, Edit(i) PROVE Moves
<1>1. feedback \in [Items -> Note] /\ feedback[i] \in Note
  BY DEF EngineInv, EngineTypeOK
<1>2. feedback' = [feedback EXCEPT ![i] = [on |-> ~feedback[i].on, version |-> feedback[i].version + 1,
                                           handled |-> FALSE]]
  BY DEF Edit
<1>3. feedback'[i].version = feedback[i].version + 1 /\ \A j \in Items : j # i => feedback'[j] = feedback[j]
  BY <1>1, <1>2
<1>4. \A j \in Items : feedback[j].version \in Nat
  BY <1>1 DEF Note
<1>5. QED
  BY <1>3, <1>4 DEF Moves, Current, Dealt

\* A process that shows nothing new and is no further than it was.
Quiet(p) ==
    /\ proc'[p].shown \in {proc[p].shown, {}}
    /\ proc'[p].pc \in Replays => proc[p].pc \in Replays
    /\ proc'[p].pc \in {"agent", "consume"} => proc'[p].pc = proc[p].pc /\ proc'[p].shown = proc[p].shown

\* A step that adds no receipt and un-handles nothing keeps each item shown once.
LEMMA QuietKeeps ==
    ASSUME EngineInv, FeedbackInv, Moves, disk'.rounds \in {disk.rounds, <<>>}
    PROVE  /\ FeedbackOnce' /\ \A r \in Receipts(disk') : Current(r)'
           /\ \A p \in Procs : Quiet(p) => FeedbackAt(p)'
<1>1. Receipts(disk') \in {Receipts(disk), {}}
  BY DEF Receipts
<1>2. FeedbackOnce'
  BY DEF FeedbackOnce, FeedbackInv
<1>3. \A r \in Receipts(disk') : Current(r)'
  BY <1>1, ReceiptsTyped DEF FeedbackInv, Moves
<1>4. ASSUME NEW p \in Procs, Quiet(p) PROVE FeedbackAt(p)'
  <2>1. FeedbackAt(p) /\ \A r \in Receipts(disk) : Current(r) /\ r \in Items \X Nat
    BY ReceiptsTyped DEF FeedbackInv
  <2>2. \A r \in proc'[p].shown : Current(r)'
    BY <1>4, <2>1, ReceiptsTyped DEF FeedbackAt, Quiet, Moves
  <2>3. proc'[p].pc \in Replays => \A r \in Receipts(disk') : Dealt(r)'
    BY <1>1, <1>4, <2>1 DEF FeedbackAt, Quiet, Moves
  <2>4. proc'[p].pc = "consume" => \A r \in Receipts(disk') \ proc'[p].shown : Dealt(r)'
    BY <1>1, <1>4, <2>1 DEF FeedbackAt, Quiet, Moves
  <2>5. proc'[p].pc = "agent" => proc'[p].shown \cap Receipts(disk') = {}
    BY <1>1, <1>4, <2>1 DEF FeedbackAt, Quiet
  <2>6. QED BY <2>2, <2>3, <2>4, <2>5 DEF FeedbackAt
<1>5. QED
  BY <1>2, <1>3, <1>4

\* With feedback as it was, nothing moves.
LEMMA StillMoves == ASSUME feedback' = feedback PROVE Moves
  BY DEF Moves, Current, Dealt

\* Steps without a change of the rounds by which everyone is quiet.
LEMMA AllQuiet ==
    ASSUME EngineInv, FeedbackInv, Moves, disk'.rounds \in {disk.rounds, <<>>}, \A p \in Procs : Quiet(p)
    PROVE  FeedbackInv'
<1>1. FeedbackOnce' /\ (\A r \in Receipts(disk') : Current(r)') /\ \A p \in Procs : FeedbackAt(p)'
  BY QuietKeeps
<1>2. QED
  BY <1>1 DEF FeedbackInv

\* A replay marks what every saved round has shown.
LEMMA BeginFeedback == ASSUME EngineInv, FeedbackInv, NEW p \in Procs, Begin(p) PROVE FeedbackInv'
<1>1. Begins(p) /\ Goes(p) /\ proc[p].mem = disk
  BY BeginGoes, AtWork DEF Begin, Begins, Working, Placed
<1>2. \A q \in Procs : q # p => Quiet(q)
  BY <1>1 DEF Goes, Quiet
<1>3. CASE jam /\ Replayed(disk) # {}
  <2>1. proc'[p].pc = "leave" /\ proc'[p].shown = {} /\ feedback' = feedback
    BY <1>1, <1>3 DEF Begin, Thrown, Aborted, Leave, Ended, Unstarted, EngineInv, EngineTypeOK
  <2>2. Quiet(p)
    BY <2>1 DEF Quiet, Replays
  <2>3. QED BY <1>1, <1>2, <2>1, <2>2, AllQuiet, StillMoves DEF Begins
<1>4. CASE ~(jam /\ Replayed(disk) # {})
  <2>1. feedback' = Consumed(feedback, Replayed(disk))
    BY <1>1, <1>4 DEF Begin
  <2>2. Moves /\ \A r \in (Items \X Nat) \cap Receipts(disk) : Current(r) => Dealt(r)'
    BY <2>1, ConsumedMoves DEF Replayed
  <2>3. Receipts(disk') = Receipts(disk)
    BY <1>1 DEF Begins, Receipts
  <2>4. /\ FeedbackOnce' /\ (\A r \in Receipts(disk') : Current(r)')
        /\ \A q \in Procs : q # p => FeedbackAt(q)'
    BY <1>1, <1>2, <2>2, QuietKeeps DEF Begins
  <2>5. \A r \in Receipts(disk') : Dealt(r)'
    BY <2>2, <2>3, ReceiptsTyped DEF FeedbackInv
  <2>6. \A r \in proc'[p].shown : Current(r)'
    BY <1>1, <2>2, ReceiptsTyped DEF Begins, FeedbackInv, FeedbackAt, Moves
  <2>7. proc'[p].pc # "agent"
    BY <1>1 DEF Begins
  <2>8. FeedbackAt(p)'
    BY <2>5, <2>6, <2>7 DEF FeedbackAt
  <2>9. QED BY <2>4, <2>8 DEF FeedbackInv
<1>5. QED
  BY <1>3, <1>4

\* A round shows what is open, so nothing that an earlier round has shown.
LEMMA RoundFeedback == ASSUME EngineInv, FeedbackInv, NEW p \in Procs, StartRound(p) PROVE FeedbackInv'
<1> SUFFICES ASSUME Asks(p) PROVE FeedbackInv'
  <2>1. feedback' = feedback
    BY DEF StartRound
  <2>2. Drops(p) => \A q \in Procs : Quiet(q)
    BY DEF Drops, Goes, Quiet, Replays
  <2>3. QED BY <2>1, <2>2, RoundGoes, AllQuiet, StillMoves DEF Drops
<1>1. /\ Goes(p) /\ disk'.rounds = disk.rounds /\ feedback' = feedback
      /\ proc'[p].pc = "agent" /\ proc'[p].shown = Receipt(feedback, disk.rounds) /\ proc[p].pc = "round"
  BY DEF Asks, StartRound
<1>2. \A q \in Procs : q # p => Quiet(q)
  BY <1>1 DEF Goes, Quiet
<1>3. Moves
  BY <1>1, StillMoves
<1>4. /\ FeedbackOnce' /\ (\A r \in Receipts(disk') : Current(r)')
      /\ \A q \in Procs : q # p => FeedbackAt(q)'
  BY <1>1, <1>2, <1>3, QuietKeeps
<1>5. Receipts(disk') = Receipts(disk)
  BY <1>1 DEF Receipts
<1>6. \A r \in Receipts(disk) : Dealt(r) /\ Dealt(r)'
  BY <1>1 DEF FeedbackInv, FeedbackAt, Replays, Dealt
<1>7. \A r \in proc'[p].shown : Current(r)' /\ ~Dealt(r)
  <2>1. ASSUME NEW r \in proc'[p].shown PROVE Current(r)' /\ ~Dealt(r)
    <3>1. PICK i \in OpenItems(feedback, disk.rounds) : r = <<i, feedback[i].version>>
      BY <1>1 DEF Receipt
    <3>2. i \in Items /\ feedback[i].on /\ ~feedback[i].handled
      BY DEF OpenItems
    <3>3. feedback[i].version \in Nat
      BY <3>2 DEF EngineInv, EngineTypeOK, Note
    <3>4. QED BY <1>1, <3>1, <3>2, <3>3 DEF Current, Dealt
  <2>2. QED BY <2>1
<1>8. FeedbackAt(p)'
  BY <1>1, <1>5, <1>6, <1>7 DEF FeedbackAt
<1>9. QED
  BY <1>4, <1>8 DEF FeedbackInv

\* The round that is added has shown nothing that the others have.
LEMMA ReplyFeedback == ASSUME EngineInv, FeedbackInv, NEW p \in Procs, AgentReply(p) PROVE FeedbackInv'
<1>1. Goes(p) /\ feedback' = feedback /\ proc[p].pc = "agent" /\ (Drops(p) \/ Commits(p))
  BY ReplyGoes DEF AgentReply, Drops, Commits
<1>2. \A q \in Procs : q # p => Quiet(q)
  BY <1>1 DEF Goes, Quiet
<1>3. Moves
  BY <1>1, StillMoves
<1>4. CASE Drops(p)
  <2>1. Quiet(p)
    BY <1>4 DEF Drops, Quiet, Replays
  <2>2. QED BY <1>2, <1>3, <1>4, <2>1, AllQuiet DEF Drops
<1>5. CASE Commits(p)
  <2> DEFINE r == [by |-> p, shown |-> proc[p].shown]
             n == Len(disk.rounds)
  <2>1. disk.rounds \in Seq(Records) /\ n \in Nat
    BY DEF EngineInv, EngineTypeOK, States
  <2>2. disk'.rounds = Append(disk.rounds, r) /\ proc'[p].pc = "consume" /\ proc'[p].shown = proc[p].shown
    BY <1>5 DEF Commits
  <2>3. r.shown = proc[p].shown
    OBVIOUS
  <2> HIDE DEF r
  <2>4. /\ DOMAIN disk.rounds = 1..n /\ DOMAIN disk'.rounds = (1..n) \cup {n + 1} /\ n + 1 \notin 1..n
        /\ disk'.rounds[n + 1] = r /\ \A k \in 1..n : disk'.rounds[k] = disk.rounds[k]
    BY <2>1, <2>2
  <2> HIDE DEF n
  <2>5. Receipts(disk') = Receipts(disk) \cup proc[p].shown
    BY <2>3, <2>4 DEF Receipts
  <2>6. proc[p].shown \cap Receipts(disk) = {} /\ (\A x \in proc[p].shown : Current(x))
        /\ \A x \in Receipts(disk) : Current(x) /\ Dealt(x)
    BY <1>1 DEF FeedbackInv, FeedbackAt, Replays
  <2>7. FeedbackOnce'
    <3>1. ASSUME NEW j \in 1..n PROVE disk.rounds[j].shown \cap proc[p].shown = {}
      BY <2>4, <2>6 DEF Receipts
    <3>2. ASSUME NEW j \in DOMAIN disk'.rounds, NEW k \in DOMAIN disk'.rounds, j # k
          PROVE  disk'.rounds[j].shown \cap disk'.rounds[k].shown = {}
      <4>1. CASE j \in 1..n /\ k \in 1..n
        BY <2>4, <3>2, <4>1 DEF FeedbackInv, FeedbackOnce
      <4>2. CASE j = n + 1 /\ k \in 1..n
        BY <2>3, <2>4, <3>1, <4>2
      <4>3. CASE k = n + 1 /\ j \in 1..n
        BY <2>3, <2>4, <3>1, <4>3
      <4>4. QED BY <2>4, <3>2, <4>1, <4>2, <4>3
    <3>3. QED BY <3>2 DEF FeedbackOnce
  <2>8. \A x : Current(x)' = Current(x) /\ Dealt(x)' = Dealt(x)
    BY <1>1 DEF Current, Dealt
  <2>9. \A x \in Receipts(disk') : Current(x)'
    BY <2>5, <2>6, <2>8
  <2>10. FeedbackAt(p)'
    BY <2>2, <2>5, <2>6, <2>8 DEF FeedbackAt, Replays
  <2>11. ASSUME NEW q \in Procs, q # p PROVE FeedbackAt(q)'
    <3>1. proc'[q] = proc[q] /\ proc[q].pc \notin Inside
      BY <1>1, <2>11 DEF Goes, EngineInv, LockHeld, Inside, Working
    <3>2. QED BY <2>8, <3>1 DEF FeedbackAt, FeedbackInv, Inside, Working, Replays
  <2>12. QED BY <2>7, <2>9, <2>10, <2>11 DEF FeedbackInv
<1>6. QED
  BY <1>1, <1>4, <1>5

\* What the round has shown is marked before the process goes on.
LEMMA ConsumeFeedback == ASSUME EngineInv, FeedbackInv, NEW p \in Procs, Consume(p) PROVE FeedbackInv'
<1>1. Goes(p) /\ proc[p].pc = "consume" /\ (Marks(p) \/ (Drops(p) /\ feedback' = feedback))
  BY ConsumeGoes DEF Consume, Marks, Drops
<1>2. \A q \in Procs : q # p => Quiet(q)
  BY <1>1 DEF Goes, Quiet
<1>3. CASE Drops(p) /\ feedback' = feedback
  <2>1. Quiet(p)
    BY <1>3 DEF Drops, Quiet, Replays
  <2>2. QED BY <1>2, <1>3, <2>1, AllQuiet, StillMoves DEF Drops
<1>4. CASE Marks(p)
  <2>1. Moves /\ \A r \in (Items \X Nat) \cap proc[p].shown : Current(r) => Dealt(r)'
    BY <1>4, ConsumedMoves DEF Marks
  <2>2. Receipts(disk') = Receipts(disk)
    BY <1>4 DEF Marks, Receipts
  <2>3. /\ FeedbackOnce' /\ (\A r \in Receipts(disk') : Current(r)')
        /\ \A q \in Procs : q # p => FeedbackAt(q)'
    BY <1>2, <1>4, <2>1, QuietKeeps DEF Marks
  <2>4. ASSUME NEW r \in Receipts(disk) PROVE Dealt(r)'
    <3>1. r \in Items \X Nat /\ Current(r)
      BY ReceiptsTyped DEF FeedbackInv
    <3>2. CASE r \in proc[p].shown
      BY <2>1, <3>1, <3>2
    <3>3. CASE r \notin proc[p].shown
      BY <1>1, <2>1, <3>1, <3>3 DEF Moves, FeedbackInv, FeedbackAt
    <3>4. QED BY <3>2, <3>3
  <2>5. FeedbackAt(p)'
    BY <1>4, <2>2, <2>4 DEF Marks, FeedbackAt
  <2>6. QED BY <2>3, <2>5 DEF FeedbackInv
<1>5. QED
  BY <1>1, <1>3, <1>4

\* The other steps of a process show nothing new.
LEMMA RunFeedback == ASSUME EngineInv, FeedbackInv, NEW p \in Procs, Run(p) PROVE FeedbackInv'
<1>1. CASE Frame(p)
  <2>1. /\ Goes(p) /\ disk'.rounds \in {disk.rounds, <<>>} /\ feedback' = feedback
        /\ proc'[p].pc \in {"begin", "leave"} /\ proc'[p].shown \in {proc[p].shown, {}}
    BY <1>1, FrameGoes DEF Frame
  <2>2. \A q \in Procs : Quiet(q)
    BY <2>1 DEF Goes, Quiet, Replays
  <2>3. QED BY <2>1, <2>2, AllQuiet, StillMoves
<1>2. CASE BeginAtEnd(p) \/ Summarize(p) \/ Judge(p)
  <2>1. Begins(p) /\ feedback' = feedback /\ proc[p].pc \in Replays
    BY <1>2, BeginAtEndGoes, SummarizeGoes, JudgeGoes
       DEF BeginAtEnd, Summarize, Judge, Wraps, Begins, Replays
  <2>2. \A q \in Procs : Quiet(q)
    BY <2>1 DEF Begins, Goes, Quiet, Replays
  <2>3. QED BY <2>1, <2>2, AllQuiet, StillMoves DEF Begins
<1>3. CASE Prepare(p) \/ Lock(p) \/ Exit(p)
  <2>1. feedback' = feedback /\ disk' = disk
    BY <1>3 DEF Prepare, Lock, Exit
  <2>2. proc \in [Procs -> Process]
    BY DEF EngineInv, EngineTypeOK
  <2>3. \/ \E c \in {1, proc[p].code} : proc' = [proc EXCEPT ![p] = Ended("exited", c)]
        \/ \E max : proc' = [proc EXCEPT ![p].pc = "lock", ![p].max = max]
        \/ \E stage \in {"frame", "begin"} : \E m : proc' = [proc EXCEPT ![p].pc = stage, ![p].mem = m]
    BY <1>3 DEF Prepare, Lock, Exit, End, Load, Step
  <2>4. /\ \A q \in Procs : q # p => proc'[q] = proc[q]
        /\ proc'[p].pc \in {"exited", "lock", "frame", "begin"} /\ proc'[p].shown \in {proc[p].shown, {}}
    <3>1. proc[p] \in Process
      BY <2>2
    <3>2. \A c : Ended("exited", c).pc = "exited" /\ Ended("exited", c).shown = {}
      BY DEF Ended, Unstarted
    <3>3. CASE \E c \in {1, proc[p].code} : proc' = [proc EXCEPT ![p] = Ended("exited", c)]
      BY <2>2, <3>2, <3>3
    <3>4. CASE \E max : proc' = [proc EXCEPT ![p].pc = "lock", ![p].max = max]
      BY <2>2, <3>1, <3>4 DEF Process
    <3>5. CASE \E stage \in {"frame", "begin"} : \E m : proc' = [proc EXCEPT ![p].pc = stage, ![p].mem = m]
      BY <2>2, <3>1, <3>5 DEF Process
    <3>6. QED BY <2>3, <3>3, <3>4, <3>5
  <2>5. \A q \in Procs : Quiet(q)
    BY <2>4 DEF Quiet, Replays
  <2>6. QED BY <2>1, <2>5, AllQuiet, StillMoves
<1>4. QED
  BY <1>1, <1>2, <1>3, BeginFeedback, RoundFeedback, ReplyFeedback, ConsumeFeedback DEF Run

\* A kill may come before or after the receipts are written.
LEMMA KillFeedback == ASSUME EngineInv, FeedbackInv, NEW p \in Procs, Kill(p) PROVE FeedbackInv'
<1>1. disk' = disk /\ proc' = [proc EXCEPT ![p] = Ended("exited", 9)]
  BY DEF Kill, End
<1>2. feedback' = feedback \/ \E r \in Handled(p) : feedback' = Consumed(feedback, r)
  BY DEF Kill
<1>3. Moves
  BY <1>2, StillMoves, ConsumedMoves
<1>4. /\ \A q \in Procs : q # p => proc'[q] = proc[q]
      /\ proc'[p].pc = "exited" /\ proc'[p].shown = {}
  BY <1>1 DEF Ended, Unstarted, EngineInv, EngineTypeOK
<1>5. \A q \in Procs : Quiet(q)
  BY <1>4 DEF Quiet, Replays
<1>6. QED
  BY <1>1, <1>3, <1>5, AllQuiet

\* A process that starts has been shown nothing yet.
LEMMA SpawnFeedback ==
    ASSUME EngineInv, FeedbackInv, NEW s \in Services, NEW p \in Procs, NEW mode \in Modes, Spawn(s, p, mode)
    PROVE  FeedbackInv'
<1>1. disk' = disk /\ feedback' = feedback
  BY DEF Spawn
<1>2. \E pc \in {"prepare", "lock"} : proc' = [proc EXCEPT ![p].pc = pc, ![p].mode = mode, ![p].max = MaxRounds]
  BY DEF Spawn
<1>3. proc \in [Procs -> Process] /\ proc[p] \in Process
  BY DEF EngineInv, EngineTypeOK
<1>4. /\ \A q \in Procs : q # p => proc'[q] = proc[q]
      /\ proc'[p].pc \in {"prepare", "lock"} /\ proc'[p].shown = proc[p].shown
  BY <1>2, <1>3 DEF Process
<1>5. \A q \in Procs : Quiet(q)
  BY <1>4 DEF Quiet, Replays
<1>6. QED
  BY <1>1, <1>5, AllQuiet, StillMoves

\* Nothing is shown twice, whoever steps.
LEMMA FeedbackStep == EngineInv /\ FeedbackInv /\ [Next]_vars => FeedbackInv'
<1> SUFFICES ASSUME EngineInv, FeedbackInv, [Next]_vars PROVE FeedbackInv'
  OBVIOUS
<1>1. ASSUME NEW p \in Procs, Engine(p) PROVE FeedbackInv'
  BY <1>1, RunFeedback DEF Engine
<1>2. ASSUME NEW p \in Procs, ApiStart(p) \/ RavenStart(p) PROVE FeedbackInv'
  BY <1>2, SpawnFeedback DEF ApiStart, RavenStart, Services, Modes
<1>3. ASSUME NEW p \in Procs, Kill(p) PROVE FeedbackInv'
  BY <1>3, KillFeedback
<1>4. ASSUME Moves, UNCHANGED <<disk, proc>> PROVE FeedbackInv'
  <2>1. \A q \in Procs : Quiet(q)
    BY <1>4 DEF Quiet
  <2>2. QED BY <1>4, <2>1, AllQuiet
<1>5. ASSUME NEW i \in Items, Edit(i) PROVE FeedbackInv'
  BY <1>4, <1>5, EditMoves DEF Edit
<1>6. UNCHANGED <<disk, proc, feedback>> => FeedbackInv'
  BY <1>4, StillMoves
<1>7. (\E p \in Procs : Unlock(p)) \/ Unjam \/ LapseState \/ (\E s \in Services : Close(s) \/ Restart(s))
        \/ LapseHint \/ RemoveLaunch \/ UNCHANGED vars => UNCHANGED <<disk, proc, feedback>>
  BY DEF Unlock, Unjam, LapseState, Close, Restart, LapseHint, RemoveLaunch, vars, engine
<1>8. QED
  BY <1>1, <1>2, <1>3, <1>5, <1>6, <1>7 DEF Next
-----------------------------------------------------------------------------
(* The jobs of the services.                                                 *)

ServicesTyped ==
    /\ job \in [Services -> [status : {None, "running", "done", "error", "unforecastable",
                                       "insufficient_evidence", "max_rounds"},
                             of : Procs \cup {0}]]
    /\ hint \in BOOLEAN /\ launch \in BOOLEAN /\ restarts \in {0, 1}

\* A job's outcome is one that a job can come to, whatever the saved status says.
LEMMA ServicesStep == ServicesTyped /\ [Next]_vars => ServicesTyped'
<1> SUFFICES ASSUME ServicesTyped, [Next]_vars PROVE ServicesTyped'
  OBVIOUS
<1> USE DEF ServicesTyped
<1>1. ASSUME NEW p \in Procs, ApiStart(p) \/ RavenStart(p) PROVE ServicesTyped'
  <2>1. \E s \in Services : job' = [job EXCEPT ![s] = [status |-> "running", of |-> p]]
    BY <1>1 DEF ApiStart, RavenStart, Spawn, Services
  <2>2. hint' \in BOOLEAN /\ launch' \in BOOLEAN /\ restarts' = restarts
    BY <1>1 DEF ApiStart, RavenStart, Spawn
  <2>3. QED BY <2>1, <2>2
<1>2. ASSUME NEW s \in Services, Close(s) PROVE ServicesTyped'
  <2>1. \A p : JobStatus(p) \in {"done", "error", "unforecastable", "insufficient_evidence", "max_rounds"}
    BY DEF JobStatus
  <2>2. job' = [job EXCEPT ![s] = [status |-> JobStatus(job[s].of), of |-> 0]]
    BY <1>2 DEF Close
  <2>3. hint' \in BOOLEAN /\ launch' \in BOOLEAN /\ restarts' = restarts
    BY <1>2 DEF Close
  <2>4. QED BY <2>1, <2>2, <2>3
<1>3. ASSUME NEW s \in Services, Restart(s) PROVE ServicesTyped'
  BY <1>3 DEF Restart
<1>4. CASE LapseHint \/ RemoveLaunch
  BY <1>4 DEF LapseHint, RemoveLaunch
<1>5. CASE UNCHANGED services
  BY <1>5 DEF services
<1>6. QED
  BY <1>1, <1>2, <1>3, <1>4, <1>5 DEF Next, Engine, LapseState, vars
-----------------------------------------------------------------------------
ForecastInv == EngineInv /\ FeedbackInv /\ ServicesTyped

\* The first state of services, engine and feedback.
LEMMA InitForecast == Init => ForecastInv
<1> SUFFICES ASSUME Init PROVE ForecastInv
  OBVIOUS
<1>1. EngineInv
  BY InitEngine
<1>2. ServicesTyped
  BY DEF Init, ServicesTyped
<1>3. disk = NoState /\ proc = [p \in Procs |-> Unstarted]
  BY DEF Init, EngineInit
<1>4. disk.rounds = <<>>
  BY <1>3 DEF NoState
<1>5. \A p \in Procs : proc[p].shown = {} /\ proc[p].pc = "off"
  BY <1>3 DEF Unstarted
<1>8. Receipts(disk) = {} /\ FeedbackOnce
  BY <1>4 DEF Receipts, FeedbackOnce
<1>9. \A p \in Procs : FeedbackAt(p)
  BY <1>5, <1>8 DEF FeedbackAt, Replays
<1>6. FeedbackInv
  BY <1>8, <1>9 DEF FeedbackInv
<1>7. QED
  BY <1>1, <1>2, <1>6 DEF ForecastInv

\* Every step of engine, services and analyst.
LEMMA ForecastStep == ForecastInv /\ [Next]_vars => ForecastInv'
  BY EngineStep, FeedbackStep, ServicesStep DEF ForecastInv

\* Saved state, feedback, locks and processes keep their types, and a job only ever
\* shows what a job can come to.
THEOREM ForecastTyped == Spec => []TypeOK
<1>1. ForecastInv => TypeOK
  BY DEF ForecastInv, EngineInv, ServicesTyped, TypeOK
<1>2. QED
  BY <1>1, InitForecast, ForecastStep, PTL DEF Spec

\* At most one process is between the creation of engine.lock and its removal, for
\* any processes, kills and operators that remove the lock of a stopped one.
THEOREM EngineExclusion == Spec => [](\A p, q \in Procs : proc[p].pc \in Inside /\ proc[q].pc \in Inside => p = q)
<1> DEFINE Alone == \A p, q \in Procs : proc[p].pc \in Inside /\ proc[q].pc \in Inside => p = q
<1>1. ForecastInv => Alone
  BY DEF ForecastInv, EngineInv, LockHeld
<1> HIDE DEF Alone
<1>2. Spec => []Alone
  BY <1>1, InitForecast, ForecastStep, PTL DEF Spec
<1>3. QED
  BY <1>2 DEF Alone

\* A forecast that is saved as complete has its summary and no open question
\* (engine.ts, structured-engine.ts), after kills at any step.
THEOREM SummaryAlways == Spec => []CompleteHasSummary
<1>1. ForecastInv => CompleteHasSummary
  BY DEF ForecastInv, EngineInv, DiskOK, TornOK, Torn, CompleteHasSummary, Complete, None
<1>2. QED
  BY <1>1, InitForecast, ForecastStep, PTL DEF Spec

\* A piece of feedback is shown in one round only as long as it stays as it is: the
\* replay of receipts makes up for kills between the save and the update.
THEOREM ShownOnce == Spec => []FeedbackOnce
<1>1. ForecastInv => FeedbackOnce
  BY DEF ForecastInv, FeedbackInv
<1>2. QED
  BY <1>1, InitForecast, ForecastStep, PTL DEF Spec

\* No save loses rounds that another process has saved.
THEOREM RoundsAreKept == Spec => RoundsKept
<1>1. ForecastInv /\ [Next]_vars => [RoundsKeptStep]_engine
  BY RoundsStep DEF ForecastInv
<1>2. QED
  BY <1>1, InitForecast, ForecastStep, PTL DEF Spec, RoundsKept, RoundsKeptStep

\* A process that reports success has settled the question.
THEOREM SuccessSettles == Spec => ExitSettles
<1>1. ForecastInv /\ [Next]_vars => [ExitSettlesStep]_engine
  BY ExitStep DEF ForecastInv
<1>2. QED
  BY <1>1, InitForecast, ForecastStep, PTL DEF Spec, ExitSettles, ExitSettlesStep
=============================================================================
