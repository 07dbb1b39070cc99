-------------------------------- MODULE DeltaNews -------------------------------
(***************************************************************************)
(* The news side of delta-pm: one process that polls a feed and, when it   *)
(* starts, a sitemap, archives every story under the id it first came by,  *)
(* and takes it through two gates, an analysis and a decision.  A few runs *)
(* are in progress at a time, the others wait; every stage waits for a     *)
(* model or the market, and what has been decided so far is read from the  *)
(* saved signals.  A crash loses the runs and keeps the files.             *)
(***************************************************************************)
EXTENDS Naturals, Sequences, FiniteSets

CONSTANTS
    Urls,        \* stories by the URL that both paths give them
    Fingerprint,       \* fingerprint of each, as the number its hash is
    Slots,       \* DELTAPM_ANALYSIS_CONCURRENCY
    Recent,      \* saved signals the staleness gate looks at
    MaxRuns,     \* bound of the model: runs in one behaviour
    MaxPastes,   \* bound of the model: pastes of a full text
    MaxTurns     \* bound of the model: crashes and broken polls

ASSUME NewsAssumption ==
    /\ Fingerprint \in [Urls -> Nat] /\ Slots \in Nat \ {0} /\ Recent \in Nat
    /\ MaxRuns \in Nat /\ MaxPastes \in Nat /\ MaxTurns \in Nat

Paths == {"feed", "sitemap"}
None == "none"
Runs == 1..MaxRuns
InSlot == {"gate1", "gate2", "analysis"}

VARIABLES
    published,   \* stories that are out: the sitemap
    feed,        \* those in the feed's window
    changed,     \* the window is not the one of the saved validators (ETag)
    seen,        \* seenIds, an id for each path
    archive,     \* the path under whose id each story was archived
    signals,     \* saved signals in the order of their writing
    up,
    inbox,       \* items of a poll that are still to be processed
    runs, slots, waiters,
    started,     \* history: runs begun per story
    pastes,      \* history: full texts pasted per story
    turns

files == <<seen, archive, signals>>
memory == <<up, inbox, runs, slots, waiters>>
outside == <<published, feed, changed>>
vars == <<files, memory, outside, started, pastes, turns>>

NoRun == [of |-> None, pc |-> "off"]
Ended == [of |-> None, pc |-> "ended"]
Init == /\ published = {} /\ feed = {} /\ changed = FALSE /\ seen = {} /\ signals = <<>>
        /\ archive = [u \in Urls |-> None]
        /\ up = FALSE /\ inbox = {} /\ slots = 0 /\ waiters = <<>>
        /\ runs = [r \in Runs |-> NoRun]
        /\ started = [u \in Urls |-> 0] /\ pastes = [u \in Urls |-> 0] /\ turns = 0

Turn == turns < MaxTurns /\ turns' = turns + 1
-----------------------------------------------------------------------------
(* The source.                                                               *)

\* A new entry may push the older ones out of the window.
Publish(u) == /\ u \notin published /\ published' = published \cup {u}
              /\ feed' \in {feed \cup {u}, {u}} /\ changed' = TRUE
              /\ UNCHANGED <<files, memory, started, pastes, turns>>
-----------------------------------------------------------------------------
(* Polling.                                                                  *)

Ids(path, urls) == {<<path, u>> : u \in urls}

\* A conditional GET: unseen entries are marked seen and handed on.
Poll == /\ up /\ changed
        /\ changed' = FALSE
        /\ inbox' = inbox \cup (Ids("feed", feed) \ seen)
        /\ seen' = seen \cup Ids("feed", feed)
        /\ UNCHANGED <<archive, signals, up, runs, slots, waiters, published, feed, started, pastes, turns>>

\* The body does not parse: the validators are saved all the same.
PollBreaks == /\ up /\ changed /\ Turn
              /\ changed' = FALSE
              /\ UNCHANGED <<files, memory, published, feed, started, pastes>>

\* At the start the sitemap fills the gaps, if it can be read.
Start == /\ ~up /\ up' = TRUE
         /\ \E gap \in {{}, {e \in Ids("sitemap", published) \ seen : archive[e[2]] = None}} :
               inbox' = gap /\ seen' = seen \cup gap
         /\ UNCHANGED <<archive, signals, runs, slots, waiters, outside, started, pastes, turns>>
-----------------------------------------------------------------------------
(* Runs.                                                                     *)

\* A run takes a slot or waits for one.
Begin(r, u) ==
    /\ runs[r].pc = "off" /\ \A q \in Runs : q < r => runs[q].pc # "off"
    /\ started' = [started EXCEPT ![u] = @ + 1]
    /\ IF slots < Slots
       THEN /\ runs' = [runs EXCEPT ![r] = [of |-> u, pc |-> "gate1"]]
            /\ slots' = slots + 1 /\ UNCHANGED waiters
       ELSE /\ runs' = [runs EXCEPT ![r] = [of |-> u, pc |-> "waiting"]]
            /\ waiters' = Append(waiters, r) /\ UNCHANGED slots

\* Mutant of Alias: a story is known by its id alone.
AliasById(e) == FALSE

\* A story that is archived under another id.
Alias(e) == archive[e[2]] \notin {None, e[1]}

\* The first arrival owns the story; an alias has nothing to add.
Accept(r, e) ==
    /\ up /\ e \in inbox /\ inbox' = inbox \ {e}
    /\ IF Alias(e)
       THEN UNCHANGED <<archive, runs, slots, waiters, started>>
       ELSE archive' = [archive EXCEPT ![e[2]] = e[1]] /\ Begin(r, e[2])
    /\ UNCHANGED <<seen, signals, up, outside, pastes, turns>>

\* The operator pastes the full text of a story: its gates are run again.
Paste(r, u) ==
    /\ up /\ archive[u] # None
    /\ \A v \in Urls : pastes[v] < MaxPastes
    /\ pastes' = [pastes EXCEPT ![u] = @ + 1]
    /\ Begin(r, u)
    /\ UNCHANGED <<files, up, inbox, outside, turns>>

\* The slot goes to the first that waits for it.
Finish(r) ==
    IF waiters = <<>>
    THEN /\ runs' = [runs EXCEPT ![r] = Ended]
         /\ slots' = slots - 1 /\ UNCHANGED waiters
    ELSE /\ runs' = [runs EXCEPT ![r] = Ended, ![Head(waiters)].pc = "gate1"]
         /\ waiters' = Tail(waiters) /\ UNCHANGED slots

Go(r, pc) == runs' = [runs EXCEPT ![r].pc = pc] /\ UNCHANGED <<slots, waiters>>

Write(r, passed) ==
    signals' = Append(signals, [of |-> runs[r].of, print |-> Fingerprint[runs[r].of], passed |-> passed])

\* File names begin with the fingerprint; the gate looks at the last ones.
After(j, i) == \/ signals[j].print > signals[i].print
               \/ signals[j].print = signals[i].print /\ j > i
Looked == {i \in DOMAIN signals : Cardinality({j \in DOMAIN signals : After(j, i)}) < Recent}

\* Mutant of Stale: the story itself is asked for instead of the others.
StaleOwn(u) == \E i \in Looked : signals[i].of = u /\ signals[i].print = Fingerprint[u]

\* Another story with this fingerprint has a signal.
Stale(u) == \E i \in Looked : signals[i].of # u /\ signals[i].print = Fingerprint[u]

At(r, pc) == up /\ runs[r].pc = pc
Stage == <<seen, archive, up, inbox, outside, started, pastes, turns>>

\* Gate 1 has answered: the story is archived, or its price is looked at.
Gate1(r) == /\ At(r, "gate1")
            /\ \/ Write(r, FALSE) /\ Finish(r)
               \/ ~Stale(runs[r].of) /\ Go(r, "gate2") /\ UNCHANGED signals
            /\ UNCHANGED Stage

\* Gate 2 has answered: the move is priced in, or there is something to trade.
Gate2(r) == /\ At(r, "gate2")
            /\ \/ Write(r, FALSE) /\ Finish(r)
               \/ Write(r, TRUE) /\ Go(r, "analysis")
            /\ UNCHANGED Stage

\* The thesis is there and the writer has decided on it.
Analysed(r) == /\ At(r, "analysis") /\ Finish(r)
               /\ UNCHANGED <<signals, Stage>>

\* Any stage may throw: the run ends and gives its slot back.
Fails(r) == /\ up /\ runs[r].pc \in InSlot /\ Finish(r)
            /\ UNCHANGED <<signals, Stage>>

Crash == /\ up /\ Turn
         /\ up' = FALSE /\ inbox' = {} /\ slots' = 0 /\ waiters' = <<>>
         /\ runs' = [r \in Runs |-> IF runs[r].pc = "off" THEN NoRun ELSE Ended]
         /\ UNCHANGED <<files, outside, started, pastes>>

Next == \/ \E u \in Urls : Publish(u)
        \/ Poll \/ PollBreaks \/ Start \/ Crash
        \/ \E r \in Runs : \/ \E e \in inbox : Accept(r, e)
                           \/ \E u \in Urls : Paste(r, u)
                           \/ Gate1(r) \/ Gate2(r) \/ Analysed(r) \/ Fails(r)

Spec == Init /\ [][Next]_vars
-----------------------------------------------------------------------------
Signal == [of : Urls, print : Nat, passed : BOOLEAN]
RunState == [of : Urls \cup {None}, pc : InSlot \cup {"off", "waiting", "ended"}]

NewsTypeOK ==
    /\ published \subseteq Urls /\ feed \subseteq Urls /\ changed \in BOOLEAN
    /\ seen \subseteq Paths \X Urls /\ inbox \subseteq Paths \X Urls
    /\ archive \in [Urls -> Paths \cup {None}]
    /\ signals \in Seq(Signal)
    /\ up \in BOOLEAN /\ slots \in 0..Slots /\ waiters \in Seq(Runs)
    /\ runs \in [Runs -> RunState]
    /\ started \in [Urls -> Nat] /\ pastes \in [Urls -> Nat] /\ turns \in 0..MaxTurns

\* A story goes through the gates once, and once more per pasted text, whichever
\* paths bring it and however often the service crashes and fills its gaps.
OneRunPerStory == \A u \in Urls : started[u] <= 1 + pastes[u]

Passes(x) == {signals[i].of : i \in {k \in DOMAIN signals : signals[k].passed /\ signals[k].print = x}}

\* Stories of one fingerprint that are in the gates together all pass, so a slot
\* each, but no more than that ever do while the gate looks at every signal.
PassesWithinSlots ==
    Len(signals) <= Recent => \A x \in {Fingerprint[u] : u \in Urls} : Cardinality(Passes(x)) <= Slots
=============================================================================
