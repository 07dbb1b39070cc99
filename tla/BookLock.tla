-------------------------------- MODULE BookLock -------------------------------
(***************************************************************************)
(* The advisory lock file between the processes that work on one paper     *)
(* book, and the load-modify-save every holder does on portfolio.json.     *)
(* The file is created exclusively, then its time stamp is written into    *)
(* it; a lock whose stamp is too old is removed by whoever finds it, and a *)
(* finished run removes whatever lock file there is.                       *)
(***************************************************************************)
EXTENDS Integers

CONSTANTS Procs,      \* processes: the scheduler and manual commands
          MaxSaves    \* bound of the model: saves a process makes

ASSUME LockAssumption == MaxSaves \in Nat

VARIABLES
    lock,    \* book.lock: its creator and how far it got, or NoLock
    pc,      \* where each process is
    disk,    \* portfolio.json, as the set of updates it contains
    mem,     \* the portfolio each process loaded and works on
    saves,   \* updates each process has saved
    saved,   \* history: all updates that were ever saved
    robbed   \* history: the lock of a live run was removed by another process

vars == <<lock, pc, disk, mem, saves, saved, robbed>>

NoLock == [state |-> "none"]
LockBy(p, s) == [state |-> s, by |-> p]
\* "empty": created, the stamp is not written; "fresh": younger than staleMs.
LockFile == [state : {"empty", "fresh", "stale"}, by : Procs]

Pc == {"out", "empty", "exists", "reclaim", "in"}
Update == Procs \X (1..MaxSaves)

\* A process that has created the lock file and has not given it up.
Inside == {p \in Procs : pc[p] \in {"empty", "in"}}

Init == /\ lock = NoLock
        /\ pc = [p \in Procs |-> "out"]
        /\ disk = {} /\ saved = {}
        /\ mem = [p \in Procs |-> {}]
        /\ saves = [p \in Procs |-> 0]
        /\ robbed = FALSE

Goto(p, l) == pc' = [pc EXCEPT ![p] = l]

\* Removing the file, whoever created it.
Remove(p) == /\ lock' = NoLock
             /\ robbed' = (robbed \/ \E q \in Inside \ {p} : lock # NoLock /\ lock.by = q)
-----------------------------------------------------------------------------
\* Mutant of Create: the file is opened without O_EXCL.
CreateNotExclusive(p) == /\ pc[p] = "out"
                         /\ lock' = LockBy(p, "empty") /\ Goto(p, "empty")
                         /\ UNCHANGED <<disk, mem, saves, saved, robbed>>

\* openSync(file, "wx")
Create(p) == /\ pc[p] = "out"
             /\ IF lock = NoLock
                THEN lock' = LockBy(p, "empty") /\ Goto(p, "empty")
                ELSE Goto(p, "exists") /\ UNCHANGED lock
             /\ UNCHANGED <<disk, mem, saves, saved, robbed>>

\* Mutant of Stamp: the stamp is written by path, into whatever file is there.
StampByPath(p) == /\ pc[p] = "empty"
                  /\ lock' = [lock EXCEPT !.state = "fresh"]
                  /\ Goto(p, "in")
                  /\ mem' = [mem EXCEPT ![p] = disk]
                  /\ UNCHANGED <<disk, saves, saved, robbed>>

\* The stamp goes through the open descriptor: into the file of p, or nowhere
\* visible when that file was removed.  Then the portfolio is loaded.
Stamp(p) == /\ pc[p] = "empty"
            /\ lock' = IF lock = LockBy(p, "empty") THEN LockBy(p, "fresh") ELSE lock
            /\ Goto(p, "in")
            /\ mem' = [mem EXCEPT ![p] = disk]
            /\ UNCHANGED <<disk, saves, saved, robbed>>

\* Mutant of Read: the caller backs off from every lock.
ReadWithoutReclaim(p) == /\ pc[p] = "exists"
                         /\ Goto(p, "out")
                         /\ UNCHANGED <<lock, disk, mem, saves, saved, robbed>>

\* The lock exists: read its stamp.  A missing or unreadable file and a fresh
\* stamp all mean that the caller backs off.
Read(p) == /\ pc[p] = "exists"
           /\ IF lock # NoLock /\ lock.state = "stale"
              THEN Goto(p, "reclaim")
              ELSE Goto(p, "out")
           /\ UNCHANGED <<lock, disk, mem, saves, saved, robbed>>

\* rmSync(file), then try again from the start.
Reclaim(p) == /\ pc[p] = "reclaim"
              /\ Remove(p)
              /\ Goto(p, "out")
              /\ UNCHANGED <<disk, mem, saves, saved>>

\* One savePortfolio of a run: its own copy with one more update replaces the
\* file, by an atomic rename.
SaveBook(p) == /\ pc[p] = "in"
               /\ saves[p] < MaxSaves
               /\ LET u == <<p, saves[p] + 1>> IN
                  /\ mem' = [mem EXCEPT ![p] = @ \cup {u}]
                  /\ disk' = mem[p] \cup {u}
                  /\ saved' = saved \cup {u}
               /\ saves' = [saves EXCEPT ![p] = @ + 1]
               /\ UNCHANGED <<lock, pc, robbed>>

Release(p) == /\ pc[p] = "in"
              /\ Remove(p)
              /\ Goto(p, "out")
              /\ mem' = [mem EXCEPT ![p] = {}]
              /\ UNCHANGED <<disk, saves, saved>>

Step(p) == Create(p) \/ Stamp(p) \/ Read(p) \/ Reclaim(p) \/ SaveBook(p) \/ Release(p)

\* The process dies and may be started again; its lock file stays.
Crash(p) == /\ pc[p] # "out"
            /\ Goto(p, "out")
            /\ mem' = [mem EXCEPT ![p] = {}]
            /\ UNCHANGED <<lock, disk, saves, saved, robbed>>

\* Thirty minutes pass since the stamp, whether its run still works or not.
Age == /\ lock # NoLock /\ lock.state = "fresh"
       /\ lock' = [lock EXCEPT !.state = "stale"]
       /\ UNCHANGED <<pc, disk, mem, saves, saved, robbed>>

Next == (\E p \in Procs : Step(p) \/ Crash(p)) \/ Age

Spec == Init /\ [][Next]_vars
-----------------------------------------------------------------------------
(* Properties.                                                               *)

TypeOK == /\ lock \in LockFile \cup {NoLock}
          /\ pc \in [Procs -> Pc]
          /\ disk \subseteq Update /\ saved \subseteq Update
          /\ mem \in [Procs -> SUBSET Update]
          /\ saves \in [Procs -> 0..MaxSaves]
          /\ robbed \in BOOLEAN

\* Two runs never work on the book at the same time.
MutualExclusion == \A p, q \in Procs : pc[p] = "in" /\ pc[q] = "in" => p = q

\* No save ever disappears from portfolio.json by a later save that did not
\* know of it.
NoLostUpdate == saved \subseteq disk

\* Crashes and reclaimed locks do no harm as long as no lock is taken from a
\* live run: then runs exclude each other and no save is lost.
SafeUnlessRobbed == ~robbed => MutualExclusion /\ NoLostUpdate
=============================================================================
