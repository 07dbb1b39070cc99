----------------------------- MODULE ForecastEngine -----------------------------
(***************************************************************************)
(* The forecast engine: command-line processes that research one event.    *)
(* They share the event's directory: the saved state, the analyst's        *)
(* feedback and two lock directories.  A process takes engine.lock, loads  *)
(* or frames the question, runs rounds that each end in a save, has a      *)
(* complete forecast summarised and saves the outcome; it can be killed at *)
(* any step, and an analyst edits the feedback at any time.  Yes-or-no and *)
(* structured questions have an engine each.  "converged" stands for       *)
(* saturated too, "insufficient_evidence" for research_failed.             *)
(***************************************************************************)
EXTENDS Naturals, Sequences, FiniteSets

CONSTANTS
    Procs,        \* engine processes started in one behaviour
    Items,        \* notes, and doubts about sources
    Doubts,       \* those that are doubts
    MinRounds,    \* FORECAST_MIN_ROUNDS
    MaxRounds,    \* --max-rounds of a start that does not resume
    MoreRounds,   \* --additional-rounds of one that does
    MaxVersion    \* bound of the model: edits of one item

ASSUME EngineAssumption ==
    /\ MinRounds \in Nat \ {0} /\ MaxRounds \in Nat \ {0} /\ MoreRounds \in Nat \ {0}
    /\ MaxVersion \in Nat /\ Doubts \subseteq Items /\ Procs \subseteq Nat \ {0}

VARIABLES
    disk,         \* state.json
    stamp,        \* its updatedAtUtc: whether recent, and the processes started before
    feedback,     \* analyst.json: per item whether it stands, its version, whether consumed
    jam,          \* its lock directory was left behind by a killed process
    lock,         \* engine.lock: its owner or 0
    proc,         \* the processes
    broken        \* history: where processes were killed, at "wrap" or elsewhere

engine == <<disk, stamp, feedback, jam, lock, proc, broken>>

None == "none"
Complete == {"converged", "no_new_info"}
Incomplete == {"open", "insufficient_evidence", "max_rounds", "aborted"}

NoState == [status |-> None, kind |-> None, pending |-> None, summary |-> FALSE, gaps |-> FALSE,
            rounds |-> <<>>]
Kinds == {"binary", "structured"}

\* State of a newly framed question.
NewState(k) == [NoState EXCEPT !.status = "open", !.kind = k]
Modes == {"new", "fresh", "resume"}
Unstarted == [pc |-> "off", mode |-> "new", max |-> 0, mem |-> NoState, shown |-> {}, code |-> 0]

EngineInit == /\ disk = NoState /\ stamp = [recent |-> FALSE, after |-> {}] /\ jam = FALSE /\ lock = 0
              /\ feedback = [i \in Items |-> [on |-> FALSE, version |-> 0, handled |-> FALSE]]
              /\ proc = [p \in Procs |-> Unstarted] /\ broken = {}

Round(p) == Len(proc[p].mem.rounds)
Alive(p) == proc[p].pc \notin {"off", "exited"}
Save(m) == disk' = m
SaveAndTouch(m) == /\ disk' = m
                   /\ stamp' = [recent |-> TRUE, after |-> {p \in Procs : proc[p].pc # "off"}]
Step(p, pc, m) == proc' = [proc EXCEPT ![p].pc = pc, ![p].mem = m]

\* A process at its end; what it had in memory is gone.
Ended(pc, code) == [Unstarted EXCEPT !.pc = pc, !.code = code]
Leave(p, code) == proc' = [proc EXCEPT ![p] = Ended("leave", code)]
End(p, code) == proc' = [proc EXCEPT ![p] = Ended("exited", code)]
-----------------------------------------------------------------------------
(* The analyst's feedback.                                                   *)

\* What a round's prompt would carry: a doubt only once its source is in the ledger.
OpenItems(f, rounds) ==
    {i \in Items : f[i].on /\ ~f[i].handled /\ (i \in Doubts => rounds # <<>>)}
Receipt(f, rounds) == {<<i, f[i].version>> : i \in OpenItems(f, rounds)}

\* An item is handled if it stands as it did when it was shown.
Consumed(f, rcpt) ==
    [i \in Items |-> [f[i] EXCEPT !.handled = @ \/ (f[i].on /\ <<i, f[i].version>> \in rcpt)]]

\* Everything the saved rounds have shown.
Receipts(m) == UNION {m.rounds[k].shown : k \in DOMAIN m.rounds}

\* Mutant of Replayed: receipts of earlier rounds are not looked at.
ReplayedNothing(m) == {}

\* A start consumes the receipts of every saved round again.
Replayed(m) == Receipts(m)

\* The analyst sets or withdraws an item; either gives it a new version.
Edit(i) == /\ ~jam /\ feedback[i].version < MaxVersion
           /\ feedback' = [feedback EXCEPT ![i] =
                 [on |-> ~@.on, version |-> @.version + 1, handled |-> FALSE]]
           /\ UNCHANGED <<disk, stamp, jam, lock, proc, broken>>
-----------------------------------------------------------------------------
(* Start of a process.                                                       *)

\* --resume-event reads the saved state before it has the lock.
Prepare(p) == /\ proc[p].pc = "prepare"
              /\ proc' = IF disk = NoState
                         THEN [proc EXCEPT ![p] = Ended("exited", 1)]
                         ELSE [proc EXCEPT ![p].pc = "lock", ![p].max = Len(disk.rounds) + MoreRounds]
              /\ UNCHANGED <<disk, stamp, feedback, jam, lock, broken>>

\* What the process finds when it has the lock.
Load(p) == IF proc[p].mode = "fresh" \/ disk = NoState
           THEN Step(p, "frame", NoState)
           ELSE Step(p, "begin", disk)

\* Mutant of Lock: existence is not checked by the creation.
LockNotExclusive(p) == /\ proc[p].pc = "lock"
                       /\ lock' = p /\ Load(p)
                       /\ UNCHANGED <<disk, stamp, feedback, jam, broken>>

\* The directory is created or the process ends.
Lock(p) == /\ proc[p].pc = "lock"
           /\ IF lock = 0 THEN lock' = p /\ Load(p)
                          ELSE lock' = lock /\ End(p, 1)
           /\ UNCHANGED <<disk, stamp, feedback, jam, broken>>

\* Framing takes a model call: a new state, an unforecastable prompt or a throw.
Frame(p) == /\ proc[p].pc = "frame"
            /\ \/ \E k \in Kinds : Step(p, "begin", NewState(k)) /\ SaveAndTouch(NewState(k))
               \/ (\E c \in {1, 2} : Leave(p, c)) /\ UNCHANGED <<disk, stamp>>
            /\ UNCHANGED <<feedback, jam, lock, broken>>
-----------------------------------------------------------------------------
(* The end of a run of rounds.                                               *)

\* The synthesis left material questions and there are rounds to research them.
Reopens(p, m) == m.gaps /\ m.status \in Complete /\ Len(m.rounds) < proc[p].max

\* The status that is saved when the run is over.
Outcome(m) == LET s == IF m.gaps /\ m.status \in Complete THEN "max_rounds" ELSE m.status
              IN  [m EXCEPT !.status = s, !.summary = @ /\ s \notin Incomplete]

\* A state that goes back to research; a structured one drops its summary.
Reopened(m) == [m EXCEPT !.status = "open", !.summary = @ /\ m.kind = "binary"]

Settle(p, m) == IF Reopens(p, m)
                THEN Step(p, "reopened", Reopened(m)) /\ Save(Reopened(m)) /\ UNCHANGED stamp
                ELSE SaveAndTouch(Outcome(m)) /\ Leave(p, 0)

\* Mutant of ToSummary: the verdict is saved at once.
ToSummaryDecided(m) == [m EXCEPT !.summary = FALSE]

\* A complete forecast is saved as open, its verdict aside, until it has a summary.
ToSummary(m) == [m EXCEPT !.status = "open", !.pending = m.status, !.summary = FALSE]

\* Incomplete research is not summarised, and the structured engine leaves its stamp.
Wrap(p, m) ==
    CASE m.status \in Complete -> Step(p, "summarize", m) /\ Save(ToSummary(m)) /\ UNCHANGED stamp
      [] m.status \notin Complete /\ m.kind = "binary" -> Settle(p, m)
      [] OTHER -> Save(Outcome(m)) /\ Leave(p, 0) /\ UNCHANGED stamp

\* The call for the summary throws, or answers and may name open questions.
Summarize(p) ==
    /\ proc[p].pc = "summarize"
    /\ LET m == proc[p].mem IN
       \/ /\ SaveAndTouch([m EXCEPT !.status = "aborted", !.pending = m.status, !.summary = FALSE])
          /\ Leave(p, 1)
       \/ \E g \in BOOLEAN :
             Settle(p, [m EXCEPT !.pending = None, !.summary = TRUE, !.gaps = @ \/ g])
    /\ UNCHANGED <<feedback, jam, lock, broken>>
-----------------------------------------------------------------------------
(* Rounds.                                                                   *)

\* The call for a round or for the feedback's lock threw.
Aborted(p, m) == SaveAndTouch([m EXCEPT !.status = "aborted", !.summary = FALSE]) /\ Leave(p, 1)

\* A throw outside the call for a round: only the structured engine catches it.
Thrown(p, m) == IF m.kind = "structured" THEN Aborted(p, m)
                                         ELSE Leave(p, 1) /\ UNCHANGED <<disk, stamp>>

\* Mutant of Overrun: a run without rounds left leaves the state as it was.
OverrunKept(m) == m

\* A run that was interrupted at its budget.
Overrun(m) == IF m.status = "open" THEN [m EXCEPT !.status = "max_rounds", !.summary = FALSE] ELSE m

\* The structured engine saves how it begins, a verdict that waits for its summary
\* included.
BeginStructured(p, m) ==
    LET s == CASE m.pending # None -> m.pending
               [] m.pending = None /\ Len(m.rounds) < proc[p].max -> "open"
               [] OTHER -> "max_rounds"
    IN  /\ SaveAndTouch([m EXCEPT !.status = s])
        /\ Step(p, IF s = "open" THEN "round" ELSE "wrap", [m EXCEPT !.status = s])

BeginBinary(p, m) ==
    CASE m.pending # None -> Wrap(p, [m EXCEPT !.status = m.pending])
      [] m.pending = None /\ Len(m.rounds) < proc[p].max ->
            Step(p, "round", [m EXCEPT !.status = "open"]) /\ UNCHANGED <<disk, stamp>>
      [] OTHER -> Settle(p, [m EXCEPT !.status = "max_rounds"])

\* What a run does with the state it has loaded or framed.
BeginWith(p, m) ==
    IF m.pending = None /\ Len(m.rounds) >= proc[p].max /\ m.status # "aborted"
    THEN /\ Save(IF m.status = "open" THEN Overrun(m) ELSE disk)
         /\ Leave(p, 0) /\ UNCHANGED stamp
    ELSE IF m.kind = "binary" THEN BeginBinary(p, m) ELSE BeginStructured(p, m)

\* Old receipts are replayed, which a run that was reopened does within the run that
\* reopened it; open feedback calls a pending verdict off.
Begin(p) ==
    /\ proc[p].pc \in {"begin", "reopened"}
    /\ LET m == proc[p].mem
           f == Consumed(feedback, Replayed(m))
       IN  IF jam /\ Replayed(m) # {}
           THEN /\ IF proc[p].pc = "reopened" THEN Thrown(p, m)
                   ELSE Leave(p, 1) /\ UNCHANGED <<disk, stamp>>
                /\ UNCHANGED feedback
           ELSE /\ feedback' = f
                /\ BeginWith(p, [m EXCEPT !.pending = IF OpenItems(f, m.rounds) = {} THEN @ ELSE None])
    /\ UNCHANGED <<jam, lock, broken>>

\* A structured run that begins where it only has to wrap up.
BeginAtEnd(p) == /\ proc[p].pc = "wrap"
                 /\ Wrap(p, proc[p].mem)
                 /\ UNCHANGED <<feedback, jam, lock, broken>>

\* Before the first round a library may be collected, and gaps are researched: each is
\* saved or throws.  The prompt takes what feedback is open now.
StartRound(p) ==
    /\ proc[p].pc = "round"
    /\ LET m == proc[p].mem IN
          \/ /\ proc' = [proc EXCEPT ![p].pc = "agent", ![p].shown = Receipt(feedback, m.rounds)]
             /\ disk' \in CASE m.gaps -> {m}
                           [] ~m.gaps /\ m.rounds = <<>> -> {m, disk}
                           [] OTHER -> {disk}
             /\ UNCHANGED stamp
          \/ (m.gaps \/ m.rounds = <<>>) /\ Thrown(p, m)
    /\ UNCHANGED <<feedback, jam, lock, broken>>

\* The agent fails for good, or its round is committed and saved.
AgentReply(p) ==
    /\ proc[p].pc = "agent"
    /\ LET m == proc[p].mem IN
       \/ Aborted(p, m)
       \/ \E g \in BOOLEAN :
            LET n == [m EXCEPT !.rounds = Append(@, [by |-> p, shown |-> proc[p].shown]), !.gaps = g]
            IN  SaveAndTouch(n) /\ Step(p, "consume", n)
    /\ UNCHANGED <<feedback, jam, lock, broken>>

\* Feedback that cannot be updated ends the run; only the structured engine says so
\* in the saved state.
Consume(p) ==
    /\ proc[p].pc = "consume"
    /\ IF jam /\ proc[p].shown # {}
       THEN Thrown(p, proc[p].mem) /\ UNCHANGED feedback
       ELSE /\ feedback' = Consumed(feedback, proc[p].shown)
            /\ proc' = [proc EXCEPT ![p].pc = "judge", ![p].shown = {}]
            /\ UNCHANGED <<disk, stamp>>
    /\ UNCHANGED <<jam, lock, broken>>

\* The verdicts a round can end in: stop without, stop with or go on for an answer.
Verdicts(p) ==
    LET n == Round(p)  max == proc[p].max  gaps == proc[p].mem.gaps IN
    {v \in {"insufficient_evidence", "no_new_info", "converged", "open", "max_rounds"} :
        /\ v = "insufficient_evidence" => n > 1
        /\ v \in Complete => ~gaps
        /\ v = "no_new_info" => n >= MinRounds \/ n >= max
        /\ v = "converged" => n >= MinRounds
        /\ v = "open" => n < max
        /\ v = "max_rounds" => n >= max}

Judge(p) == /\ proc[p].pc = "judge"
            /\ \E v \in Verdicts(p) :
                 LET m == [proc[p].mem EXCEPT !.status = v] IN
                 IF v = "open" THEN Step(p, "round", m) /\ UNCHANGED <<disk, stamp>>
                               ELSE Wrap(p, m)
            /\ UNCHANGED <<feedback, jam, lock, broken>>

\* The finally clause and the end of the process.
Exit(p) == /\ proc[p].pc = "leave"
           /\ lock' = (IF lock = p THEN 0 ELSE lock)
           /\ End(p, proc[p].code)
           /\ UNCHANGED <<disk, stamp, feedback, jam, broken>>
-----------------------------------------------------------------------------
(* Kills and operators.                                                      *)

\* The receipts a process may have dealt with when it is killed while it updates the
\* feedback: those of the round, or of the first rounds in its replay.
Handled(p) ==
    LET m == proc[p].mem IN
    CASE proc[p].pc \in {"begin", "reopened"} ->
            {Replayed([m EXCEPT !.rounds = SubSeq(m.rounds, 1, k)]) : k \in 0..Len(m.rounds)}
      [] proc[p].pc = "consume" -> {{}, proc[p].shown}
      [] OTHER -> {{}}

\* No clause runs: engine.lock stays, and the feedback's lock if it was held,
\* before or after receipts were written.
Kill(p) ==
    /\ Alive(p) /\ broken = {}
    /\ End(p, 9)
    /\ broken' = broken \cup {IF proc[p].pc = "wrap" THEN "wrap" ELSE "elsewhere"}
    /\ \/ UNCHANGED <<jam, feedback>>
       \/ /\ ~jam /\ Handled(p) # {{}}
          /\ jam' \in BOOLEAN
          /\ \E r \in Handled(p) : feedback' = Consumed(feedback, r)
    /\ UNCHANGED <<disk, stamp, lock>>

\* An operator verifies that the recorded process stopped, then removes the lock.
Unlock(p) == /\ lock = p /\ ~Alive(p) /\ lock' = 0
             /\ UNCHANGED <<disk, stamp, feedback, jam, proc, broken>>
Unjam == /\ jam /\ (\A p \in Procs : ~Alive(p)) /\ jam' = FALSE
         /\ UNCHANGED <<disk, stamp, feedback, lock, proc, broken>>

Run(p) == \/ Prepare(p) \/ Lock(p) \/ Frame(p) \/ Begin(p) \/ BeginAtEnd(p)
          \/ StartRound(p) \/ AgentReply(p) \/ Consume(p) \/ Judge(p) \/ Summarize(p) \/ Exit(p)

EngineNext == \/ \E p \in Procs : Run(p) \/ Kill(p) \/ Unlock(p)
              \/ \E i \in Items : Edit(i)
              \/ Unjam
-----------------------------------------------------------------------------
Records == [by : Procs, shown : SUBSET (Items \X Nat)]
States == [status : Complete \cup Incomplete \cup {None}, kind : Kinds \cup {None}, pending : Complete \cup {None},
           summary : BOOLEAN, gaps : BOOLEAN, rounds : Seq(Records)]

Note == [on : BOOLEAN, version : Nat, handled : BOOLEAN]
Stamp == [recent : BOOLEAN, after : SUBSET Procs]
Process == [pc : {"off", "prepare", "lock", "frame", "begin", "reopened", "wrap", "round", "agent",
                  "consume", "judge", "summarize", "leave", "exited"},
            mode : Modes, max : Nat, mem : States, shown : SUBSET (Items \X Nat), code : {0, 1, 2, 9}]

EngineTypeOK ==
    /\ disk \in States /\ stamp \in Stamp /\ jam \in BOOLEAN
    /\ feedback \in [Items -> Note] /\ lock \in Procs \cup {0}
    /\ proc \in [Procs -> Process] /\ broken \subseteq {"wrap", "elsewhere"}

\* A structured run is about to put a verdict aside again that it has saved as the
\* status, or was killed there.
Rewrapping == "wrap" \in broken \/ \E p \in Procs : proc[p].pc = "wrap"

\* A forecast that is saved as complete has its summary and no open question, except
\* a structured one whose verdict a run is about to put aside again or was killed at it.
CompleteHasSummary ==
    disk.status \in Complete =>
        \/ disk.summary /\ disk.pending = None /\ ~disk.gaps
        \/ disk.kind = "structured" /\ disk.pending = disk.status /\ Rewrapping

\* Feedback is shown to the agent in one round only, in spite of kills between
\* the save of a round and the update of the feedback, as long as it stays as it is.
FeedbackOnce ==
    \A j, k \in DOMAIN disk.rounds :
        j # k => disk.rounds[j].shown \cap disk.rounds[k].shown = {}

\* Saved rounds are never lost to another process: a save extends them, unless a
\* process that was told to start over frames the question anew.
RoundsKept ==
    [][LET old == disk.rounds  new == disk'.rounds IN
       \/ new = <<>> /\ \E p \in Procs : proc[p].pc = "frame" /\ proc[p].mode = "fresh"
       \/ Len(old) <= Len(new) /\ \A k \in DOMAIN old : new[k] = old[k]]_engine

\* A process that reports success leaves no state behind that reads "open", as
\* still running, whatever state earlier processes that were killed had left.
ExitSettles ==
    [][\A p \in Procs :
         proc[p].pc # "leave" /\ proc'[p].pc = "leave" /\ proc'[p].code = 0 => disk'.status # "open"]_engine
=============================================================================
