------------------------------ MODULE RunStore ------------------------------
(***************************************************************************)
(* The run store that the commands of r-loop share (internal/store, and    *)
(* its use in preflight.go, resume.go, cleanup.go and status.go of         *)
(* internal/app): two file locks, the pointer to the current run, the      *)
(* abort marker of a run and its log of records.                           *)
(*                                                                         *)
(* A command is a process; it may be killed between any two of its steps,  *)
(* and what it wrote stays while the locks it held are free.               *)
(***************************************************************************)
EXTENDS Naturals, Sequences, FiniteSets

CONSTANTS
  Pids,       \* the processes, one command each, numbered as they start
  Runs,       \* the runs there may be, numbered as they are created
  None,
  Jobs,       \* bound: the commands in use, among start, resume, cleanup, abort
  Kinds,      \* bound: the records in use, among event, halted, finished
  MaxWrites,  \* bound: writes to the logs
  MaxCrashes  \* bound: processes killed

Records == (Nat \ {0}) \X {"event", "halted", "finished"}
Broken == <<0, "broken">>  \* a line no record can be read from

ASSUME StoreAssumption ==
  /\ Pids \subseteq Nat /\ Runs \subseteq Nat
  /\ None \notin Pids /\ None \notin Runs /\ None \notin Runs \X Pids
  /\ Jobs \subseteq {"start", "resume", "cleanup", "abort"}
  /\ Kinds \subseteq {"event", "halted", "finished"}
  /\ MaxWrites \in Nat /\ MaxCrashes \in Nat

VARIABLES
  pc,       \* pc[p]: where the process is
  job,      \* job[p]: its command
  run,      \* run[p]: the run it selected, created or drives
  told,     \* told[p]: who it was told is live, <<run, pid>>, or None
  writer,   \* runs/gate: who holds it exclusively, or None
  readers,  \* runs/gate: who holds it shared
  lock,     \* runs/lock: who holds it, or None
  current,  \* runs/current: <<run, pid>>, or None
  made,     \* the runs that exist
  marked,   \* the runs with an abort marker
  log,      \* log[r]: the records of the run, as lines and a last line cut short
  writes,   \* the writes to the logs so far
  asked,    \* history: who drives a run marked since it does
  crashes

locks == <<writer, readers, lock>>
store == <<current, made, marked, log, writes>>
vars  == <<pc, job, run, told, locks, store, asked, crashes>>

Ended == {"done", "dead"}

Goto(p, place) == pc' = [pc EXCEPT ![p] = place]
At(p, place) == pc[p] = place

\* What a process knew is gone with it.
End(p, place) ==
  /\ Goto(p, place)
  /\ job' = [job EXCEPT ![p] = None]
  /\ run' = [run EXCEPT ![p] = None]
  /\ told' = [told EXCEPT ![p] = None]

-----------------------------------------------------------------------------
(* The log.  A line without its line break is the last one of the file.      *)

Logs == [lines : Seq(Records \cup {Broken}), tail : {"none", "part", "whole"},
         last : Records \cup {Broken}]

\* Load: such a line counts if it is a whole record.
Loaded(l) == IF l.tail = "whole" THEN Append(l.lines, l.last) ELSE l.lines

\* A bug: a record cut short is only ended with a line break.
RepairedByBreak(l) == l

\* A bug: whatever the last line is, it is cut off.
RepairedByCut(l) == IF l.tail # "none" THEN [l EXCEPT !.tail = "none", !.last = Broken] ELSE l

\* Append, its repair: a record cut short is cut off, a whole one is kept.
Repaired(l) == IF l.tail = "part" THEN [l EXCEPT !.tail = "none", !.last = Broken] ELSE l

\* The lines once a line break ends the file.
LinesEnded(l) ==
  CASE l.tail = "none"  -> l.lines
    [] l.tail = "part"  -> Append(l.lines, Broken)
    [] l.tail = "whole" -> Append(l.lines, l.last)

\* Append, its write, of which the file has all, a part, or nothing.  It starts
\* with a line break if the file does not end with one.
Written(l, rec, wrote) ==
  CASE wrote = "none"  -> l
    [] wrote = "break" -> [lines |-> LinesEnded(l), tail |-> "none", last |-> Broken]
    [] wrote \in {"part", "whole"} -> [lines |-> LinesEnded(l), tail |-> wrote, last |-> rec]
    [] wrote = "all"   -> [lines |-> Append(LinesEnded(l), rec), tail |-> "none", last |-> Broken]

Parts == {"none", "break", "part", "whole", "all"}

\* What the records of a run say of it: the last that is of the run counts.
Finished(l) ==
  LET seen == Loaded(l) IN
  \E i \in DOMAIN seen :
    /\ seen[i][2] = "finished"
    /\ \A j \in DOMAIN seen : j > i => seen[j][2] = "event"

AppendTo(r, kind) ==
  /\ writes < MaxWrites
  /\ writes' = writes + 1
  /\ \E wrote \in Parts :
       log' = [log EXCEPT ![r] = Written(Repaired(@), <<writes', kind>>, wrote)]

NoLog == [lines |-> <<>>, tail |-> "none", last |-> Broken]

Init ==
  /\ pc = [p \in Pids |-> "off"]
  /\ job = [p \in Pids |-> None]
  /\ run = [p \in Pids |-> None]
  /\ told = [p \in Pids |-> None]
  /\ writer = None /\ readers = {} /\ lock = None
  /\ current = None /\ made = {} /\ marked = {}
  /\ log = [r \in Runs |-> NoLog]
  /\ writes = 0
  /\ asked = {} /\ crashes = 0

-----------------------------------------------------------------------------
(* The locks of a command that drives a run or cleans up.                    *)

\* A command starts.  Resume selects its run before it takes the lock.
Begin(p) ==
  /\ At(p, "off")
  /\ \A q \in Pids : q < p => ~At(q, "off")
  /\ \E j \in Jobs :
       /\ job' = [job EXCEPT ![p] = j]
       /\ IF j = "resume"
          THEN \E r \in made : run' = [run EXCEPT ![p] = r]
          ELSE UNCHANGED run
       /\ Goto(p, IF j = "abort" THEN "look" ELSE "gate")
  /\ UNCHANGED <<told, locks, store, asked, crashes>>

\* Lock: the gate, exclusively, which it waits for.
TakeGate(p) ==
  /\ At(p, "gate")
  /\ writer = None /\ readers = {}
  /\ writer' = p
  /\ Goto(p, "lock")
  /\ UNCHANGED <<job, run, told, readers, lock, store, asked, crashes>>

\* Lock: the lock, which it does not wait for (but for a moment).
TakeLock(p) ==
  /\ At(p, "lock")
  /\ lock = None
  /\ lock' = p
  /\ Goto(p, [start |-> "stale", resume |-> "load", cleanup |-> "clean"][job[p]])
  /\ UNCHANGED <<job, run, told, writer, readers, store, asked, crashes>>

\* A bug: the lock is waited for, as the gate is.
WaitsForLock(p) == At(p, "lock") /\ lock # None /\ UNCHANGED vars

\* Lock, refused: the error names the run that is live.
Refused(p) ==
  /\ At(p, "lock")
  /\ lock # None
  /\ told' = [told EXCEPT ![p] = current]
  /\ Goto(p, "refused")
  /\ UNCHANGED <<job, run, locks, store, asked, crashes>>

\* The gate opens, and the process ends: of Lock refused, and of Release.
LeaveGate(p) ==
  /\ pc[p] \in {"refused", "ungate"}
  /\ writer' = None
  /\ End(p, "done")
  /\ asked' = asked \ {p}
  /\ UNCHANGED <<readers, lock, store, crashes>>

\* Release("", 0), of a command that gives up before it drives, or has cleaned
\* up: it holds the gate still, and leaves the pointer.
GiveUp(p) ==
  /\ pc[p] \in {"create", "mend", "point", "clean", "undo"}
  /\ lock' = None
  /\ writer' = None
  /\ End(p, "done")
  /\ UNCHANGED <<readers, store, asked, crashes>>

-----------------------------------------------------------------------------
(* Between the lock and the drive.                                           *)

\* A start clears a pointer that a dead driver left.
ClearStale(p) ==
  /\ At(p, "stale")
  /\ current' = None
  /\ Goto(p, "create")
  /\ UNCHANGED <<job, run, told, locks, made, marked, log, writes, asked, crashes>>

\* A bug: the command is not bound to the run it created.
CreateUnbound(p) ==
  /\ At(p, "create")
  /\ \E r \in Runs \ made : made' = made \cup {r}
  /\ Goto(p, "point")
  /\ UNCHANGED <<job, run, told, locks, current, marked, log, writes, asked, crashes>>

Create(p) ==
  /\ At(p, "create")
  /\ \E r \in Runs \ made :
       /\ \A s \in Runs \ made : r <= s
       /\ made' = made \cup {r}
       /\ run' = [run EXCEPT ![p] = r]
  /\ Goto(p, "point")
  /\ UNCHANGED <<job, told, locks, current, marked, log, writes, asked, crashes>>

\* A bug: whether the run has finished is not asked again under the lock.
LoadsNothing(p) ==
  /\ At(p, "load")
  /\ Goto(p, "mend")
  /\ UNCHANGED <<job, run, told, locks, store, asked, crashes>>

\* A resume loads the run; one that has finished is not resumed.
Load(p) ==
  /\ At(p, "load")
  /\ Goto(p, IF Finished(log[run[p]]) THEN "undo" ELSE "mend")
  /\ UNCHANGED <<job, run, told, locks, store, asked, crashes>>

\* It records what the dead driver left unrecorded.
Mend(p) ==
  /\ At(p, "mend")
  /\ AppendTo(run[p], "event")
  /\ UNCHANGED <<pc, job, run, told, locks, current, made, marked, asked, crashes>>

\* A bug: the pointer stays that of the driver that died.
ClearAbortUnpointed(p) ==
  /\ At(p, "mend")
  /\ marked' = marked \ {run[p]}
  /\ Goto(p, "publish")
  /\ UNCHANGED <<job, run, told, locks, current, made, log, writes, asked, crashes>>

ClearAbort(p) ==
  /\ At(p, "mend")
  /\ marked' = marked \ {run[p]}
  /\ Goto(p, "point")
  /\ UNCHANGED <<job, run, told, locks, current, made, log, writes, asked, crashes>>

SetCurrent(p) ==
  /\ At(p, "point")
  /\ current' = <<run[p], p>>
  /\ Goto(p, "publish")
  /\ UNCHANGED <<job, run, told, locks, made, marked, log, writes, asked, crashes>>

\* The gate opens: the run is live.
Publish(p) ==
  /\ At(p, "publish")
  /\ writer' = None
  /\ Goto(p, "drive")
  /\ UNCHANGED <<job, run, told, readers, lock, store, asked, crashes>>

\* A cleanup records what it closed, in the log of any run.
Clean(p) ==
  /\ At(p, "clean")
  /\ \E r \in made : AppendTo(r, "event")
  /\ UNCHANGED <<pc, job, run, told, locks, current, made, marked, asked, crashes>>

-----------------------------------------------------------------------------
(* The drive, and its end.                                                   *)

\* A bug: the marker of an earlier abort is removed by the loop.
RecordUnmarks(p) ==
  /\ At(p, "drive")
  /\ \E kind \in Kinds : AppendTo(run[p], kind)
  /\ marked' = marked \ {run[p]}
  /\ UNCHANGED <<pc, job, run, told, locks, current, made, asked, crashes>>

\* A record of the driver; an append that fails leaves what it wrote.
Record(p) ==
  /\ At(p, "drive")
  /\ \E kind \in Kinds : AppendTo(run[p], kind)
  /\ UNCHANGED <<pc, job, run, told, locks, current, made, marked, asked, crashes>>

\* The driver stops itself: a stop the watchdog or the maintainer asks it for.
StopNow(p) ==
  /\ At(p, "drive")
  /\ marked' = marked \cup {run[p]}
  /\ asked' = asked \cup {p}
  /\ UNCHANGED <<pc, job, run, told, locks, current, made, log, writes, crashes>>

\* Every wait of the loop asks for the marker.
Aborts(p) ==
  /\ At(p, "drive")
  /\ run[p] \in marked
  /\ Goto(p, "leave")
  /\ UNCHANGED <<job, run, told, locks, store, asked, crashes>>

\* The loop returns of its own.
Returns(p) ==
  /\ At(p, "drive")
  /\ Goto(p, "leave")
  /\ UNCHANGED <<job, run, told, locks, store, asked, crashes>>

\* A bug: the pointer is cleared without the gate.
LeaveUngated(p) ==
  /\ At(p, "leave")
  /\ Goto(p, "unpoint")
  /\ UNCHANGED <<job, run, told, locks, store, asked, crashes>>

\* Release: the gate first.
Regate(p) ==
  /\ At(p, "leave")
  /\ writer = None /\ readers = {}
  /\ writer' = p
  /\ Goto(p, "unpoint")
  /\ UNCHANGED <<job, run, told, readers, lock, store, asked, crashes>>

ClearCurrent(p) ==
  /\ At(p, "unpoint")
  /\ current' = IF current = <<run[p], p>> THEN None ELSE current
  /\ Goto(p, "unlock")
  /\ UNCHANGED <<job, run, told, locks, made, marked, log, writes, asked, crashes>>

Unlock(p) ==
  /\ At(p, "unlock")
  /\ lock' = None
  /\ Goto(p, "ungate")
  /\ UNCHANGED <<job, run, told, writer, readers, store, asked, crashes>>

-----------------------------------------------------------------------------
(* Abort: which run is live, and its marker.  Status looks the same way.     *)

\* Live: the gate, shared.
ShareGate(p) ==
  /\ At(p, "look")
  /\ writer = None
  /\ readers' = readers \cup {p}
  /\ Goto(p, "probe")
  /\ UNCHANGED <<job, run, told, writer, lock, store, asked, crashes>>

\* Live: no run is, if the lock is free.
Probe(p) ==
  /\ At(p, "probe")
  /\ Goto(p, IF lock = None THEN "seen" ELSE "read")
  /\ UNCHANGED <<job, run, told, locks, store, asked, crashes>>

ReadCurrent(p) ==
  /\ At(p, "read")
  /\ told' = [told EXCEPT ![p] = current]
  /\ Goto(p, "seen")
  /\ UNCHANGED <<job, run, locks, store, asked, crashes>>

Unshare(p) ==
  /\ At(p, "seen")
  /\ readers' = readers \ {p}
  /\ IF told[p] = None
     THEN End(p, "done")
     ELSE Goto(p, "mark") /\ UNCHANGED <<job, run, told>>
  /\ UNCHANGED <<writer, lock, store, asked, crashes>>

\* MarkAbort, with no lock: the run may have ended since.
MarkAbort(p) ==
  /\ At(p, "mark")
  /\ marked' = marked \cup {told[p][1]}
  /\ asked' = asked \cup {q \in Pids : At(q, "drive") /\ run[q] = told[p][1]}
  /\ End(p, "done")
  /\ UNCHANGED <<locks, current, made, log, writes, crashes>>

-----------------------------------------------------------------------------
\* The process is killed: its locks are free, and the rest stays.
Crash(p) ==
  /\ pc[p] \notin Ended \cup {"off"}
  /\ crashes < MaxCrashes
  /\ crashes' = crashes + 1
  /\ writer' = IF writer = p THEN None ELSE writer
  /\ readers' = readers \ {p}
  /\ lock' = IF lock = p THEN None ELSE lock
  /\ End(p, "dead")
  /\ asked' = asked \ {p}
  /\ UNCHANGED store

\* What a command does with no one asking for it.
Step(p) ==
  \/ TakeGate(p) \/ TakeLock(p) \/ Refused(p) \/ LeaveGate(p)
  \/ ClearStale(p) \/ Create(p) \/ Load(p) \/ ClearAbort(p) \/ SetCurrent(p) \/ Publish(p)
  \/ GiveUp(p) \/ Aborts(p) \/ Regate(p) \/ ClearCurrent(p) \/ Unlock(p)
  \/ ShareGate(p) \/ Probe(p) \/ ReadCurrent(p) \/ Unshare(p) \/ MarkAbort(p)

Next ==
  \E p \in Pids :
    \/ Step(p) \/ Begin(p) \/ Mend(p) \/ Clean(p) \/ Record(p)
    \/ StopNow(p) \/ Returns(p) \/ Crash(p)

Spec == Init /\ [][Next]_vars

\* A process takes its next step unless it is killed; a file lock that is free
\* is given to one that waits for it.  Nothing makes a loop return unasked.
FairSpec == Spec /\ \A p \in Pids : WF_vars(Step(p))

-----------------------------------------------------------------------------
(* Properties.                                                               *)

Places == {"off", "gate", "lock", "refused", "stale", "create", "load", "mend", "clean",
           "undo", "point", "publish", "drive", "leave", "unpoint", "unlock", "ungate",
           "look", "probe", "read", "seen", "mark", "done", "dead"}

\* The types of the files and of the processes (Store and Lock, store.go).
TypeOK ==
  /\ pc \in [Pids -> Places]
  /\ job \in [Pids -> Jobs \cup {None}]
  /\ run \in [Pids -> Runs \cup {None}]
  /\ told \in [Pids -> (Runs \X Pids) \cup {None}]
  /\ writer \in Pids \cup {None} /\ readers \subseteq Pids /\ lock \in Pids \cup {None}
  /\ current \in (Runs \X Pids) \cup {None}
  /\ made \subseteq Runs /\ marked \subseteq Runs
  /\ log \in [Runs -> Logs]
  /\ writes \in Nat
  /\ asked \subseteq Pids /\ crashes \in Nat

\* While a driver drives, and until it has the gate again to leave, it holds the
\* lock and the pointer names its run and it, whatever other commands start,
\* give up, clean up or die meanwhile: at most one process drives.
Published ==
  \A p \in Pids : pc[p] \in {"drive", "leave"} => lock = p /\ current = <<run[p], p>>

Holds(p) == writer = p \/ p \in readers

\* Who a command is told is live, while it still holds the gate, drives that run
\* or has been killed since; a command refused the lock is always told who; and
\* one told that nothing is live is told so while nothing drives (Live, Lock).
Tells ==
  \A p \in Pids :
    /\ Holds(p) /\ told[p] # None =>
         LET q == told[p][2] IN
           At(q, "dead") \/ (pc[q] \in {"drive", "leave"} /\ run[q] = told[p][1])
    /\ At(p, "refused") => told[p] # None
    /\ At(p, "seen") /\ told[p] = None => \A q \in Pids : pc[q] \notin {"drive", "leave"}

\* A run is taken up again only if its records do not say it finished, though it
\* was selected before the lock was taken and its driver may have lived on.
ResumesOpen == \A p \in Pids : At(p, "publish") => ~Finished(log[run[p]])

\* A driver whose run was marked for an abort while it drove it has the marker
\* until it stops: no command removes it meanwhile (MarkAbort, ClearAbort).
AbortHeld == \A p \in asked : At(p, "drive") => run[p] \in marked

\* Every log can be loaded, whatever an append that failed, or a process killed
\* in one, left at its end: only its last line may be cut short (Append, Load).
Loads == \A r \in Runs : \A i \in DOMAIN log[r].lines : log[r].lines[i] # Broken

\* What a load has answered stays: the records that were read from a log, those
\* of an append that failed too, are the first ones of every later load.
ReadStays ==
  [][\A r \in Runs : \A i \in DOMAIN Loaded(log[r]) :
       /\ i \in DOMAIN Loaded(log'[r])
       /\ Loaded(log'[r])[i] = Loaded(log[r])[i]]_vars

\* No command waits for ever: in the end each has ended, or drives a run nobody
\* has asked to stop, though a driver that leaves needs the gate, which a command
\* that finds the lock taken holds.
Settles ==
  <>[](\A p \in Pids : pc[p] \in Ended \cup {"off"} \/ (At(p, "drive") /\ p \notin asked))

=============================================================================
