------------------------------ MODULE RunLoop ------------------------------
(***************************************************************************)
(* The serial loop of a run (internal/core/loop.go, control.go): it visits *)
(* the phases of its run list in plan order, runs the steps of each, lands *)
(* it, and decides between phases whether to go on.  Four parties act on   *)
(* its state at the same time:                                             *)
(*                                                                         *)
(*   - the loop itself, one goroutine (the actions under "The loop");      *)
(*   - the step runner, a goroutine that records how its step ended before *)
(*     the loop hears of it (RunnerEnd);                                   *)
(*   - the watchdog, whose halts reach the loop through a queue, and, when *)
(*     no step is live, through a one-place slot (watch.go); a call that   *)
(*     brings one takes the lock of the watch several times, and the loop  *)
(*     and the step runner act in between;                                 *)
(*   - the maintainer: stop, pause and continue requests, the abort        *)
(*     marker, an interrupt, and the resume of a run that stopped.         *)
(*                                                                         *)
(* The driver may also die at any moment (Crash): what survives is what    *)
(* the run store holds.  Landing is one action here; module Land opens it. *)
(***************************************************************************)
EXTENDS Integers, Sequences

CONSTANTS
  N,            \* the plan has phases 1..N, numbered in document order
  DependsOn,    \* DependsOn[p]: the phases the plan says p depends on
  K,            \* steps of a phase before it lands (plan, implement, ...)
  MaxRestarts,  \* watchdog.maxRestarts
  MaxHalts,     \* bound: halts the watchdog gives in the life of the run
  MaxStarts,    \* bound: processes that drive the run, resumes included
  Events        \* bound: what may come from outside, of AllEvents

Phases == 1..N

ASSUME NAssumption == N \in Nat \ {0}
ASSUME DependsOnAssumption == DependsOn \in [Phases -> SUBSET Phases]
AllEvents == {"halt", "gone", "abort", "interrupt", "stop", "pause", "crash"}

ASSUME KAssumption == K \in Nat \ {0}
ASSUME RestartsAssumption == MaxRestarts \in Nat
ASSUME BoundsAssumption ==
  MaxHalts \in Nat /\ MaxStarts \in Nat \ {0} /\ Events \subseteq AllEvents

None    == -1     \* no halt
RunWide == 0      \* the phase of a halt that names no phase
Targets == 0..N   \* what a halt may name

\* A call of accept: how far it is, and the phase its halt names.
Call(stage, names) == [stage |-> stage, names |-> names]
NoCall == Call("idle", None)
Over   == Call("done", None)
Calls  == [stage : {"news", "forward", "hold"}, names : Targets] \cup {NoCall, Over}

VARIABLES
  list,        \* the run list
  landed,      \* store: the phases whose landing is recorded
  done,        \* store: how many of a phase's steps are recorded ok
  restarts,    \* store: restarts of a phase's step, the landing being step K + 1
  status,      \* store: the recorded status of the run
  abort,       \* store: the abort marker
  interrupted, \* the driver's context is cancelled
  queue,       \* watch: halts forwarded and parked, in order
  slot,        \* watch: the halt held because no step was live
  live,        \* watch: the running step has a session
  gone,        \* watch: the watchdog is gone
  call,        \* watch: the calls of accept: 0 is the driver's own news that the
               \* watchdog is gone, the others are halts the watchdog gave
  stopAfter,   \* control: a stop is requested after the current phase
  pauseAfter,  \* control: a pause is requested after the current phase
  continued,   \* control: the paused run was told to continue
  stopped,     \* a blocker or a control request stops the run
  halted,      \* the first halt the loop took in
  nextHalt,    \* a halt to be taken in by the next step
  haltLanded,  \* a halt named a phase that had landed
  pending,     \* the phases still to be visited and not blocked
  blocked,     \* the phases blocked, or skipped because of one
  first,       \* the exit code of the first phase to block, 0 if none
  ahead,       \* the rest of the loop's range over the run list
  cursor,      \* the phase the loop is visiting
  result,      \* how the running step ended, as its runner recorded it
  out,         \* the exit code of the current phase's outcome, 0 when ok
  batch,       \* halts drained and not yet taken in
  pc,          \* where the loop is
  ret,         \* where it goes after the drain it is in
  exit,        \* the exit code, None while the driver runs or after a crash
  resumed,     \* this process resumed the run
  starts,      \* processes started
  told,        \* history: a halt was accepted before the loop's last drain
  wide,        \* history: the loop took in a halt that names no phase
  given        \* how many halts the watchdog gave

store   == <<list, landed, done, restarts>>
watch   == <<queue, slot, live, gone, call>>
control == <<stopAfter, pauseAfter, continued>>
halts   == <<halted, nextHalt, haltLanded>>
sched   == <<pending, blocked, first, ahead, cursor>>
step    == <<result, out>>
ended   == <<status, exit>>
life    == <<resumed, starts>>
history == <<told, wide, given>>
vars    == <<store, ended, abort, interrupted, watch, control, stopped, halts,
             sched, step, batch, pc, ret, life, history>>

-----------------------------------------------------------------------------
(* What the loop does with halts and with blocked phases.                  *)

\* Dependents(plan, n): the least set that holds n and every phase depending
\* on a member of it, without n.
Dependents(n) ==
  {p \in Phases \ {n} : \A R \in SUBSET Phases :
     (/\ n \in R
      /\ \A q \in Phases : DependsOn[q] \cap R # {} => q \in R) => p \in R}

\* A bug: the dependents of a blocked phase stay pending.
BlockAlone(p) ==
  /\ pending' = pending \ {p}
  /\ blocked' = blocked \cup {p}

\* block: the phase is blocked and its pending dependents are skipped.
Block(p) ==
  /\ pending' = pending \ (Dependents(p) \cup {p})
  /\ blocked' = blocked \cup {p} \cup (Dependents(p) \cap pending)

\* A bug: a halt blocks the phase it names even when that phase has landed.
HaltEndedLanded(h) ==
  /\ halted' = IF halted = None THEN h ELSE halted
  /\ haltLanded' = (haltLanded \/ h \in landed)
  /\ IF h \in Phases \ blocked THEN Block(h) ELSE UNCHANGED <<pending, blocked>>

\* haltEnded: a halt for a step that is not the running one.
HaltEnded(h) ==
  /\ halted' = IF halted = None THEN h ELSE halted
  /\ haltLanded' = (haltLanded \/ h \in landed)
  /\ IF h \in Phases \ (landed \cup blocked)
       THEN Block(h)
       ELSE UNCHANGED <<pending, blocked>>

\* dogGone: the loop finds the watchdog gone while it is at phase p.
DogGoneAt(p) ==
  /\ halted' = IF halted = None THEN p ELSE halted
  /\ UNCHANGED <<nextHalt, haltLanded>>

\* A bug: a drain does not wait for the calls under way.
SettledAlways == TRUE

\* No call of accept is under way.
Settled == \A i \in 0..MaxHalts : call[i].stage \notin {"forward", "hold"}

\* drainSignals: once no call is under way (Watch.Drain waits for them),
\* everything queued is taken, and the slot after it.
StartDrain(next) ==
  /\ Settled
  /\ batch' = queue \o (IF slot = None THEN <<>> ELSE <<slot>>)
  /\ queue' = <<>>
  /\ slot' = None
  /\ pc' = "drain"
  /\ ret' = next

Stopping == abort \/ interrupted

\* stop, stopCode: an abort ends the run with 1, an interrupt with 4.
Stop ==
  /\ pc' = "exited"
  /\ status' = "halted"
  /\ exit' = IF abort THEN 1 ELSE 4
  /\ live' = FALSE
  /\ UNCHANGED <<store, abort, interrupted, queue, slot, gone, call, control, stopped,
                 halts, sched, step, batch, ret, life, history>>

\* The phase's outcome is known: code is its exit code if it blocks.
EndPhase(code) == out' = code /\ pc' = "phaseEnd"

-----------------------------------------------------------------------------
(* The start of a process, and the end of one that did not exit.           *)

\* RunList: any part of the plan, as the ticks, --phases and --from leave it.
Init ==
  /\ list \in SUBSET Phases
  /\ landed = {}
  /\ done = [p \in Phases |-> 0]
  /\ restarts = [p \in Phases |-> [a \in 1..(K + 1) |-> 0]]
  /\ status = "running" /\ exit = None
  /\ abort = FALSE /\ interrupted = FALSE
  /\ queue = <<>> /\ slot = None /\ live = FALSE /\ gone = FALSE
  /\ stopAfter = FALSE /\ pauseAfter = FALSE /\ continued = FALSE
  /\ stopped = FALSE
  /\ halted = None /\ nextHalt = None /\ haltLanded = FALSE
  /\ told = FALSE /\ wide = FALSE /\ given = 0
  /\ call = [i \in 0..MaxHalts |-> NoCall]
  /\ pending = list /\ ahead = list
  /\ blocked = {} /\ first = 0 /\ cursor = 0
  /\ result = "none" /\ out = 0
  /\ batch = <<>> /\ pc = "head" /\ ret = "final"
  /\ resumed = FALSE /\ starts = 1

\* The driver dies.  The last process the bound allows does not: nothing would
\* come after it.
Crash ==
  /\ "crash" \in Events /\ starts < MaxStarts
  /\ pc \notin {"exited", "dead"}
  /\ pc' = "dead"
  /\ live' = FALSE
  /\ UNCHANGED <<store, ended, abort, interrupted, queue, slot, gone, call, control,
                 stopped, halts, sched, step, batch, ret, life, history>>

\* A bug: the resumed run goes on after the phase the crash cut short.
RemainingAfter == {p \in list \ landed : p > cursor}

\* The run list of a resumed run: the recorded one without what has landed.
Remaining == list \ landed

\* r-loop resume: a run that did not finish and has phases left starts again
\* from its records; landed phases and recorded steps are not run again.
Resume ==
  /\ pc \in {"exited", "dead"}
  /\ status # "finished"
  /\ starts < MaxStarts
  /\ Remaining # {}
  /\ status' = "running" /\ exit' = None
  /\ abort' = FALSE /\ interrupted' = FALSE
  /\ queue' = <<>> /\ slot' = None /\ live' = FALSE /\ gone' = FALSE
  /\ stopAfter' = FALSE /\ pauseAfter' = FALSE /\ continued' = FALSE
  /\ stopped' = FALSE
  /\ halted' = None /\ nextHalt' = None /\ haltLanded' = FALSE
  /\ told' = FALSE /\ wide' = FALSE
  /\ call' = [i \in 0..MaxHalts |-> NoCall]
  /\ pending' = Remaining /\ ahead' = Remaining
  /\ blocked' = {} /\ first' = 0 /\ cursor' = 0
  /\ result' = "none" /\ out' = 0
  /\ batch' = <<>> /\ pc' = "head" /\ ret' = "final"
  /\ resumed' = TRUE /\ starts' = starts + 1
  /\ UNCHANGED <<store, given>>


-----------------------------------------------------------------------------
(* The loop, between phases.                                               *)

\* Run, the head of the loop: what is queued is taken, then the next phase of
\* the run list is entered, or the run is over.
AtHead ==
  /\ pc = "head"
  /\ \/ /\ ahead = {}
        /\ StartDrain("final")
        /\ UNCHANGED <<ahead, cursor>>
     \/ \E p \in ahead :
        /\ \A q \in ahead : p <= q
        /\ cursor' = p
        /\ ahead' = ahead \ {p}
        /\ StartDrain("enter")
  /\ UNCHANGED <<store, ended, abort, interrupted, live, gone, call, control, stopped,
                 halts, pending, blocked, first, step, life, history>>

\* drainSignals, checkPhase: one halt of the batch is taken in.  A halt that
\* names no phase waits for the next step, unless it was checkPhase that took
\* it; the others are for steps that ended.
Drain ==
  /\ pc = "drain"
  /\ batch # <<>>
  /\ LET h == batch[1] IN
     /\ IF h = RunWide /\ nextHalt = None /\ ret # "checked"
          THEN nextHalt' = h /\ UNCHANGED <<halted, haltLanded, pending, blocked>>
          ELSE HaltEnded(h) /\ UNCHANGED nextHalt
     /\ wide' = (wide \/ h = RunWide)
  /\ batch' = Tail(batch)
  /\ UNCHANGED <<store, ended, abort, interrupted, watch, control, stopped, first,
                 ahead, cursor, step, pc, ret, life, told, given>>

DrainDone ==
  /\ pc = "drain"
  /\ batch = <<>>
  /\ pc' = ret
  /\ UNCHANGED <<store, ended, abort, interrupted, watch, control, stopped, halts,
                 sched, step, batch, ret, life, history>>

\* A halt for a landed phase or for the run, and a stop, end the run here.
Breaking == stopped \/ (halted # None /\ (halted = RunWide \/ haltLanded))

\* unmetDependency is asked only by a resumed run.
Unmet(p) == resumed /\ DependsOn[p] \cap (blocked \cup pending) # {}

\* The phase at the cursor is left aside: the run breaks off, the phase is no
\* longer pending, or a phase it depends on has not landed.
LeaveOut ==
  /\ pc = "enter"
  /\ \/ Breaking /\ StartDrain("final") /\ UNCHANGED <<pending, blocked, first>>
     \/ /\ ~Breaking
        /\ pc' = "head"
        /\ \/ cursor \notin pending /\ UNCHANGED <<pending, blocked, first>>
           \/ /\ cursor \in pending /\ Unmet(cursor)
              /\ pending' = pending \ {cursor}
              /\ blocked' = blocked \cup {cursor}
              /\ first' = IF first = 0 THEN 1 ELSE first
        /\ UNCHANGED <<queue, slot, batch, ret>>
  /\ UNCHANGED <<store, ended, abort, interrupted, live, gone, call, control, stopped,
                 halts, ahead, cursor, step, life, history>>

Admitted == pc = "enter" /\ ~Breaking /\ cursor \in pending /\ ~Unmet(cursor)

\* The watchdog is found gone before the phase starts: the run is over.
EnterGone ==
  /\ Admitted /\ gone
  /\ DogGoneAt(cursor)
  /\ StartDrain("final")
  /\ UNCHANGED <<store, ended, abort, interrupted, live, gone, call, control, stopped,
                 sched, step, life, history>>

StartPhase ==
  /\ Admitted /\ ~gone
  /\ pending' = pending \ {cursor}
  /\ out' = 0
  /\ pc' = "check"
  /\ UNCHANGED <<store, ended, abort, interrupted, watch, control, stopped, halts,
                 blocked, first, ahead, cursor, result, batch, ret, life, history>>

-----------------------------------------------------------------------------
(* The loop, inside a phase.                                               *)

\* checkPhase: the pre-phase check ends, unless the driver is interrupted, and
\* the halts in the queue are taken in; the slot is not looked at.
Check ==
  /\ pc = "check"
  /\ ~interrupted
  /\ batch' = queue /\ queue' = <<>>
  /\ pc' = "drain" /\ ret' = "checked"
  /\ UNCHANGED <<store, ended, abort, interrupted, slot, live, gone, call, control,
                 stopped, halts, sched, step, life, history>>

\* guarded: the check is cut short by the abort marker or an interrupt.
CheckStopped == pc = "check" /\ Stopping /\ Stop

Checked ==
  /\ pc = "checked"
  /\ IF gone
       THEN DogGoneAt(cursor) /\ EndPhase(5)
       ELSE pc' = "kind" /\ UNCHANGED <<halts, out>>
  /\ UNCHANGED <<store, ended, abort, interrupted, watch, control, stopped, sched,
                 result, batch, ret, life, history>>

\* runStep, its beginning: the next kind without an ok record is started.
StartStep ==
  /\ pc = "kind" /\ done[cursor] < K
  /\ ~Stopping /\ ~gone /\ nextHalt = None
  /\ result' = "none"
  /\ pc' = "step"
  /\ UNCHANGED <<store, ended, abort, interrupted, watch, control, stopped, halts,
                 sched, out, batch, ret, life, history>>

\* runStep and runPhase do not start a step, and do not land, when the watchdog
\* is gone (not asked before landing) or a halt that names no phase waits.
\* Before a step that halt stays one for the run; before landing it is made a
\* halt of the phase.
StepRefused ==
  /\ pc = "kind"
  /\ \/ /\ done[cursor] < K /\ ~Stopping /\ gone
        /\ DogGoneAt(cursor)
     \/ /\ done[cursor] < K /\ ~Stopping /\ ~gone /\ nextHalt # None
        /\ halted' = nextHalt /\ nextHalt' = None
        /\ UNCHANGED haltLanded
     \/ /\ done[cursor] = K /\ nextHalt # None
        /\ halted' = cursor /\ nextHalt' = None
        /\ UNCHANGED haltLanded
  /\ EndPhase(5)
  /\ UNCHANGED <<store, ended, abort, interrupted, watch, control, stopped, sched,
                 result, batch, ret, life, history>>

KindStopped ==
  /\ pc = "kind" /\ Stopping
  /\ done[cursor] = K => nextHalt = None
  /\ Stop

StartLand ==
  /\ pc = "kind" /\ done[cursor] = K
  /\ ~Stopping /\ nextHalt = None
  /\ pc' = "land"
  /\ UNCHANGED <<store, ended, abort, interrupted, watch, control, stopped, halts,
                 sched, step, batch, ret, life, history>>

\* The session of the step is up, or that of a gate fix, which the landing may
\* have at any time: a halt held in the slot is queued, for this step if it
\* names no phase, and a watchdog found gone is made news, once in a process.
StepStarted ==
  /\ \/ pc = "step" /\ result = "none" /\ ~live /\ live' = TRUE
     \/ pc = "land" /\ UNCHANGED live
  /\ queue' = queue \o (CASE slot = None    -> <<>>
                         [] slot = RunWide -> <<cursor>>
                         [] OTHER          -> <<slot>>)
  /\ slot' = None
  /\ call' = IF gone /\ call[0] = NoCall
               THEN [call EXCEPT ![0] = Call("news", cursor)]
               ELSE call
  /\ UNCHANGED <<store, ended, abort, interrupted, gone, control, stopped, halts,
                 sched, step, batch, pc, ret, life, history>>

\* The runner records how its step ended; the loop has not heard of it yet.
RunnerEnd ==
  /\ pc = "step" /\ result = "none"
  /\ \E r \in {"ok", "failed", "stalled"} :
     /\ r = "failed" \/ live
     /\ result' = r
     /\ done' = IF r = "ok" THEN [done EXCEPT ![cursor] = @ + 1] ELSE done
  /\ UNCHANGED <<list, landed, restarts, ended, abort, interrupted, watch, control,
                 stopped, halts, sched, out, batch, pc, ret, life, history>>

\* runStep hears of the end; a step that failed or stalled is held for a restart.
StepDone ==
  /\ pc = "step" /\ result # "none"
  /\ ~interrupted
  /\ live' = FALSE
  /\ IF result = "ok"
       THEN pc' = "stepEnded" /\ UNCHANGED out
       ELSE pc' = "held" /\ out' = IF result = "stalled" THEN 3 ELSE 1
  /\ UNCHANGED <<store, ended, abort, interrupted, queue, slot, gone, call, control,
                 stopped, halts, sched, result, batch, ret, life, history>>

\* After an ok step everything queued is taken in.
StepDrain ==
  /\ pc = "stepEnded"
  /\ StartDrain("stepOK")
  /\ UNCHANGED <<store, ended, abort, interrupted, live, gone, call, control, stopped,
                 halts, sched, step, life, history>>

StepStopped == pc = "step" /\ Stopping /\ Stop

\* runStep takes a halt from the queue.  One for another phase, or for none, is
\* for a step that ended.  One for this phase fails the step, unless its runner has
\* recorded it ok: then the phase is blocked and its step stays ok.
StepSignal ==
  /\ pc = "step"
  /\ queue # <<>>
  /\ queue' = Tail(queue)
  /\ LET h == queue[1] IN
     \/ /\ h # cursor
        /\ HaltEnded(h)
        /\ UNCHANGED <<live, result, out, pc>>
     \/ /\ h = cursor /\ result # "ok"
        /\ live' = FALSE
        /\ result' = "failed"
        /\ EndPhase(5)
        /\ UNCHANGED <<halted, haltLanded, pending, blocked>>
     \/ /\ h = cursor /\ result = "ok"
        /\ live' = FALSE
        /\ HaltEnded(h)
        /\ pc' = "stepOK"
        /\ UNCHANGED <<result, out>>
  /\ wide' = (wide \/ queue[1] = RunWide)
  /\ UNCHANGED <<store, ended, abort, interrupted, slot, gone, call, control, stopped,
                 nextHalt, first, ahead, cursor, batch, ret, life, told, given>>

\* A bug: a halt that came while the step was ending does not end the phase.
StepOKUnchecked ==
  /\ pc = "stepOK"
  /\ pc' = "kind"
  /\ UNCHANGED <<store, ended, abort, interrupted, watch, control, stopped, halts,
                 sched, step, batch, ret, life, history>>

\* After an ok step the phase goes on to its next kind, unless a halt that came
\* while the step was ending has blocked it.
StepOK ==
  /\ pc = "stepOK"
  /\ IF cursor \in blocked THEN EndPhase(0) ELSE pc' = "kind" /\ UNCHANGED out
  /\ UNCHANGED <<store, ended, abort, interrupted, watch, control, stopped, halts,
                 sched, result, batch, ret, life, history>>

-----------------------------------------------------------------------------
(* A failed step, or a failed landing, held for a resolution (awaitRestart, *)
(* landBlocker, wait): retry, block the phase, stop the run, or a halt.     *)

Attempt == IF done[cursor] < K THEN done[cursor] + 1 ELSE K + 1

\* A bug: the bound on restarts is not asked.
HeldRestartUnbounded ==
  /\ pc = "held"
  /\ restarts' = [restarts EXCEPT ![cursor][Attempt] = @ + 1]
  /\ pc' = IF Attempt = K + 1 THEN "land" ELSE "kind"
  /\ UNCHANGED <<list, landed, done, ended, abort, interrupted, watch, control,
                 stopped, halts, sched, step, batch, ret, life, history>>

\* A bug: restarts are not counted.
HeldRestartUncounted ==
  /\ pc = "held"
  /\ restarts[cursor][Attempt] < MaxRestarts
  /\ pc' = IF Attempt = K + 1 THEN "land" ELSE "kind"
  /\ UNCHANGED <<store, ended, abort, interrupted, watch, control, stopped, halts,
                 sched, step, batch, ret, life, history>>

\* Another attempt; with "continue" the phase's edited files are read first, and
\* if that fails the attempt counts and the phase is held again.
HeldRestart ==
  /\ pc = "held"
  /\ restarts[cursor][Attempt] < MaxRestarts
  /\ restarts' = [restarts EXCEPT ![cursor][Attempt] = @ + 1]
  /\ \/ pc' = (IF Attempt = K + 1 THEN "land" ELSE "kind") /\ UNCHANGED out
     \/ pc' = "held" /\ out' = 1
  /\ UNCHANGED <<list, landed, done, ended, abort, interrupted, watch, control,
                 stopped, halts, sched, result, batch, ret, life, history>>

\* The resolution is to block the phase, or the blocker is withdrawn because the
\* watchdog is gone.
HeldBlock ==
  /\ pc = "held"
  /\ EndPhase(out)
  /\ UNCHANGED <<store, ended, abort, interrupted, watch, control, stopped, halts,
                 sched, result, batch, ret, life, history>>

HeldStop ==
  /\ pc = "held"
  /\ stopped' = TRUE
  /\ EndPhase(5)
  /\ UNCHANGED <<store, ended, abort, interrupted, watch, control, halts, sched,
                 result, batch, ret, life, history>>

HeldSignal ==
  /\ pc = "held"
  /\ queue # <<>>
  /\ queue' = Tail(queue)
  /\ LET h == queue[1] IN
     \/ h # cursor /\ HaltEnded(h) /\ UNCHANGED <<out, pc>>
     \/ /\ h = cursor /\ ~Stopping
        /\ EndPhase(5)
        /\ UNCHANGED <<halted, haltLanded, pending, blocked>>
  /\ wide' = (wide \/ queue[1] = RunWide)
  /\ UNCHANGED <<store, ended, abort, interrupted, slot, live, gone, call, control,
                 stopped, nextHalt, first, ahead, cursor, result, batch, ret, life,
                 told, given>>

HeldStopped == pc = "held" /\ Stopping /\ Stop

-----------------------------------------------------------------------------
(* Landing, and what follows a phase.                                      *)

\* LandGate.Land merges the phase and records its landing.  An abort does not
\* undo a landing that succeeds.
LandOK ==
  /\ pc = "land"
  /\ landed' = landed \cup {cursor}
  /\ EndPhase(0)
  /\ UNCHANGED <<list, done, restarts, ended, abort, interrupted, watch, control,
                 stopped, halts, sched, result, batch, ret, life, history>>

LandFailed ==
  /\ pc = "land"
  /\ ~interrupted
  /\ out' = 1
  /\ pc' = "held"
  /\ UNCHANGED <<store, ended, abort, interrupted, watch, control, stopped, halts,
                 sched, result, batch, ret, life, history>>

LandStopped == pc = "land" /\ Stopping /\ Stop

\* Run, after runPhase: a phase that did not end ok is blocked; a halt for the
\* run that came in during an ok phase ends the run.
PhaseEnd ==
  /\ pc = "phaseEnd"
  /\ ~Stopping
  /\ \/ /\ out = 0 /\ nextHalt = None
        /\ pc' = "boundary"
        /\ UNCHANGED <<halts, pending, blocked, first, queue, slot, batch, ret>>
     \/ /\ out = 0 /\ nextHalt # None
        /\ halted' = nextHalt /\ nextHalt' = None
        /\ StartDrain("final")
        /\ UNCHANGED <<haltLanded, pending, blocked, first>>
     \/ /\ out # 0
        /\ Block(cursor)
        /\ first' = IF first = 0 THEN out ELSE first
        /\ pc' = "boundary"
        /\ UNCHANGED <<halts, queue, slot, batch, ret>>
  /\ UNCHANGED <<store, ended, abort, interrupted, live, gone, call, control, stopped,
                 ahead, cursor, step, life, history>>

PhaseStopped == pc = "phaseEnd" /\ Stopping /\ Stop

\* atBoundary: a stop request ends the run here, a pause request holds it here,
\* and neither means anything once no phase is pending.
Boundary ==
  /\ pc = "boundary"
  /\ \/ /\ pending = {}
        /\ stopAfter' = FALSE /\ pauseAfter' = FALSE
        /\ pc' = "head"
        /\ UNCHANGED <<status, continued, stopped, queue, slot, batch, ret>>
     \/ /\ pending # {} /\ stopAfter
        /\ stopped' = TRUE
        /\ StartDrain("final")
        /\ UNCHANGED <<status, control>>
     \/ /\ pending # {} /\ ~stopAfter /\ pauseAfter
        /\ pauseAfter' = FALSE /\ continued' = FALSE
        /\ status' = "paused"
        /\ pc' = "paused"
        /\ UNCHANGED <<stopAfter, stopped, queue, slot, batch, ret>>
     \/ /\ pending # {} /\ ~stopAfter /\ ~pauseAfter
        /\ pc' = "head"
        /\ UNCHANGED <<status, control, stopped, queue, slot, batch, ret>>
  /\ UNCHANGED <<store, exit, abort, interrupted, live, gone, call, halts, sched, step,
                 life, history>>

\* A bug: a paused run does not look for an abort.
PausedStoppedNever == FALSE

\* waitPaused: every wake-up asks, in this order, for an abort, a stop request,
\* a gone watchdog and a continue.
PausedStopped == pc = "paused" /\ Stopping /\ Stop

\* A bug: a paused run does not look for a request to stop.
PausedEndGone ==
  /\ pc = "paused" /\ ~Stopping
  /\ ~stopAfter /\ gone /\ DogGoneAt(cursor)
  /\ continued' = FALSE
  /\ StartDrain("final")
  /\ UNCHANGED <<store, ended, abort, interrupted, live, gone, call, stopAfter, pauseAfter,
                 stopped, sched, step, life, history>>

PausedEnd ==
  /\ pc = "paused" /\ ~Stopping
  /\ \/ stopAfter /\ stopped' = TRUE /\ UNCHANGED halts
     \/ ~stopAfter /\ gone /\ DogGoneAt(cursor) /\ UNCHANGED stopped
  /\ continued' = FALSE
  /\ StartDrain("final")
  /\ UNCHANGED <<store, ended, abort, interrupted, live, gone, call, stopAfter, pauseAfter,
                 sched, step, life, history>>

PausedContinue ==
  /\ pc = "paused" /\ ~Stopping /\ ~stopAfter /\ ~gone /\ continued
  /\ continued' = FALSE
  /\ status' = "running"
  /\ pc' = "head"
  /\ UNCHANGED <<store, exit, abort, interrupted, watch, stopAfter, pauseAfter,
                 stopped, halts, sched, step, batch, ret, life, history>>

\* Run, its end: a stop or a halt exits 5, otherwise the first blocked phase
\* gives the code; the run is finished only if nothing is blocked or halted.
Finish ==
  /\ pc = "final"
  /\ halted' = IF halted = None THEN nextHalt ELSE halted
  /\ nextHalt' = None
  /\ exit' = IF stopped \/ halted' # None THEN 5 ELSE first
  /\ status' = IF blocked = {} /\ halted' = None /\ exit' = 0
                 THEN "finished" ELSE "halted"
  /\ pc' = "exited"
  /\ UNCHANGED <<store, abort, interrupted, watch, control, stopped, haltLanded,
                 sched, step, batch, ret, life, history>>

-----------------------------------------------------------------------------
(* The watchdog and the maintainer, while a process drives the run.         *)

Driving == pc \notin {"exited", "dead"}

\* The loop will look at what is queued again.
Listening == Driving /\ pc # "final" /\ ~(pc = "drain" /\ ret = "final")

\* A call of accept brings a halt of the watchdog, and has judged it: c is what
\* it does next.
Give(c) ==
  /\ "halt" \in Events /\ Driving
  /\ given < MaxHalts
  /\ given' = given + 1
  /\ call' = [call EXCEPT ![given + 1] = c]
  /\ UNCHANGED <<store, ended, abort, interrupted, queue, slot, live, gone, control,
                 stopped, halts, sched, step, batch, pc, ret, life, wide>>

\* rejection, target: a halt is for phase p if it names its live step or one
\* that ended badly a moment ago; and if it names any other while a step of p is
\* live or held.
Judged(p) ==
  \/ p = cursor
     /\ \/ live \/ pc \in {"held", "land"}
        \/ pc = "phaseEnd" /\ out # 0
        \/ pc \in {"kind", "step"} /\ \E a \in 1..(K + 1) : restarts[p][a] > 0
  \/ p \in blocked /\ done[p] < K

\* Watch.accept: a halt to be forwarded.
Aimed ==
  /\ \E p \in Phases : Judged(p) /\ Give(Call("forward", p))
  /\ told' = (told \/ Listening)

\* Watch.accept: any other halt is rejected, with no step live when the call
\* looks for one (target); it may name any phase, or none.
Rejected ==
  /\ ~live
  /\ \E h \in Targets : Give(Call("hold", h))
  /\ told' = (told \/ Listening)

\* A halt that names the check of a phase, open or not, is only recorded.
CheckHalt == Give(Over) /\ UNCHANGED told

\* Watch.forward: the halt is queued, and the call is over.
Forward(i) ==
  /\ Driving /\ call[i].stage = "forward"
  /\ queue' = Append(queue, call[i].names)
  /\ call' = [call EXCEPT ![i] = Over]
  /\ UNCHANGED <<store, ended, abort, interrupted, slot, live, gone, control, stopped,
                 halts, sched, step, batch, pc, ret, life, history>>

\* holdHalt looks again whether a step is live: if not, the halt waits in the
\* slot, in the place of one that is there; if one has started since, the halt is
\* forwarded with what it names, which may be no phase.
HoldHalt(i) ==
  /\ Driving /\ call[i].stage = "hold"
  /\ \/ ~live /\ slot' = call[i].names /\ call' = [call EXCEPT ![i] = Over]
     \/ /\ live \/ pc = "land"
        /\ call' = [call EXCEPT ![i] = Call("forward", call[i].names)]
        /\ UNCHANGED slot
  /\ UNCHANGED <<store, ended, abort, interrupted, queue, live, gone, control, stopped,
                 halts, sched, step, batch, pc, ret, life, history>>

\* WatchdogGone: the news is for the step that is live, or waits for the next.
DogGone ==
  /\ "gone" \in Events
  /\ Driving /\ ~gone
  /\ gone' = TRUE
  /\ call' = IF live THEN [call EXCEPT ![0] = Call("news", cursor)] ELSE call
  /\ UNCHANGED <<store, ended, abort, interrupted, queue, slot, live, control, stopped,
                 halts, sched, step, batch, pc, ret, life, history>>

\* haltGone: the news is accepted as a halt of its step, or, that step having
\* ended meanwhile, rejected: then it is a warning and nothing more.
News ==
  /\ Driving /\ call[0].stage = "news"
  /\ \/ /\ Judged(call[0].names)
        /\ call' = [call EXCEPT ![0] = Call("forward", call[0].names)]
        /\ told' = (told \/ Listening)
     \/ /\ ~(live /\ call[0].names = cursor)
        /\ call' = [call EXCEPT ![0] = Over]
        /\ UNCHANGED told
  /\ UNCHANGED <<store, ended, abort, interrupted, queue, slot, live, gone, control,
                 stopped, halts, sched, step, batch, pc, ret, life, wide, given>>

\* StopRun(now), the abort marker; and a signal that cancels the context.
Cancel ==
  /\ Driving
  /\ \/ "abort" \in Events /\ ~abort /\ abort' = TRUE /\ UNCHANGED interrupted
     \/ /\ "interrupt" \in Events /\ ~interrupted
        /\ interrupted' = TRUE
        /\ UNCHANGED abort
  /\ UNCHANGED <<store, ended, watch, control, stopped, halts, sched, step, batch,
                 pc, ret, life, history>>

\* StopRun(after-phase), PauseRun and ContinueRun.
Control ==
  /\ Driving
  /\ \/ /\ "stop" \in Events /\ ~stopAfter
        /\ stopAfter' = TRUE
        /\ UNCHANGED <<pauseAfter, continued>>
     \/ /\ "pause" \in Events /\ pc # "paused" /\ ~pauseAfter
        /\ pauseAfter' = TRUE
        /\ UNCHANGED <<stopAfter, continued>>
     \/ /\ pc = "paused" \/ pauseAfter
        /\ pauseAfter' = FALSE
        /\ continued' = (continued \/ pc = "paused")
        /\ UNCHANGED stopAfter
  /\ UNCHANGED <<store, ended, abort, interrupted, watch, stopped, halts, sched,
                 step, batch, pc, ret, life, history>>

-----------------------------------------------------------------------------
LoopStops == CheckStopped \/ KindStopped \/ StepStopped \/ HeldStopped
               \/ LandStopped \/ PhaseStopped \/ PausedStopped

Loop == \/ AtHead \/ Drain \/ DrainDone \/ LeaveOut \/ EnterGone \/ StartPhase
        \/ Check \/ Checked \/ StartStep \/ StepRefused \/ StartLand
        \/ StepDone \/ StepDrain \/ StepSignal \/ StepOK
        \/ PhaseEnd \/ Boundary \/ PausedEnd \/ PausedContinue \/ Finish
        \/ LoopStops

\* What the sessions, the landing and the blockers do for the loop.
Work == StepStarted \/ RunnerEnd \/ LandOK \/ LandFailed
Hold == HeldRestart \/ HeldBlock \/ HeldStop \/ HeldSignal

Accept == News \/ \E i \in 0..MaxHalts : Forward(i) \/ HoldHalt(i)
Others == Aimed \/ Rejected \/ CheckHalt \/ Accept \/ DogGone \/ Cancel \/ Control

Next == Loop \/ Work \/ Hold \/ Others \/ Crash \/ Resume

Spec == Init /\ [][Next]_vars

\* The loop is a goroutine that polls: whatever it can do next, it does.  A
\* runner ends its step (every wait of it has a timeout), a landing ends (its
\* gate has one), a blocker is resolved, by its own timeout at the latest, and a
\* call of accept goes on: it waits for nothing but the lock of the watch.
Fairness == WF_vars(Loop) /\ WF_vars(RunnerEnd) /\ WF_vars(LandOK \/ LandFailed)
              /\ WF_vars(Hold) /\ WF_vars(Accept)
FairSpec == Spec /\ Fairness

-----------------------------------------------------------------------------
(* Properties.                                                             *)

\* The types of the state, in groups.
RecordTypes ==
  /\ list \in SUBSET Phases /\ landed \in SUBSET list
  /\ done \in [Phases -> 0..K]
  /\ restarts \in [Phases -> [1..(K + 1) -> 0..MaxRestarts]]
  /\ status \in {"running", "paused", "halted", "finished"}
  /\ exit \in {None, 0, 1, 3, 4, 5}
  /\ starts \in 1..MaxStarts /\ given \in 0..MaxHalts

FlagTypes ==
  /\ abort \in BOOLEAN /\ interrupted \in BOOLEAN
  /\ live \in BOOLEAN /\ gone \in BOOLEAN
  /\ stopAfter \in BOOLEAN /\ pauseAfter \in BOOLEAN /\ continued \in BOOLEAN
  /\ stopped \in BOOLEAN /\ haltLanded \in BOOLEAN /\ resumed \in BOOLEAN
  /\ told \in BOOLEAN /\ wide \in BOOLEAN

HaltTypes ==
  /\ queue \in Seq(Targets) /\ batch \in Seq(Targets)
  /\ call \in [0..MaxHalts -> Calls]
  /\ slot \in Targets \cup {None} /\ halted \in Targets \cup {None}
  /\ nextHalt \in {None, RunWide}

PlaceTypes ==
  /\ pending \in SUBSET list /\ ahead \in SUBSET list
  /\ blocked \in SUBSET Phases
  /\ first \in {0, 1, 3, 5}
  /\ cursor \in Phases \cup {0}

PointTypes ==
  /\ result \in {"none", "ok", "failed", "stalled"}
  /\ out \in {0, 1, 3, 5}
  /\ pc \in {"head", "drain", "enter", "check", "checked", "kind", "step",
             "stepEnded", "stepOK", "held", "land", "phaseEnd", "boundary",
             "paused", "final", "exited", "dead"}
  /\ ret \in {"enter", "checked", "stepOK", "final"}

\* The type invariant: among others, only a halt that names no phase waits in
\* nextHalt, and a step is restarted at most MaxRestarts times over the
\* whole life of the run, its resumes included.
TypeOK == RecordTypes /\ FlagTypes /\ HaltTypes /\ PlaceTypes /\ PointTypes

\* The loop is inside a phase.
Inside ==
  \/ pc \in {"check", "checked", "kind", "step", "stepEnded", "stepOK", "held",
            "land"}
  \/ pc = "drain" /\ ret \in {"checked", "stepOK"}

\* Every phase of the run list is in exactly one place (pending, blocked or
\* landed), except the one the loop is working on: the maps pending, blocked
\* and the landing records of the loop are kept by different code paths.
Accounted ==
  /\ pending \cap blocked = {} /\ landed \cap (pending \cup blocked) = {}
  /\ Driving => list \ (pending \cup blocked \cup landed) \subseteq {cursor}

\* Exit code 0 means the whole run list landed, and that the store says so.
ExitTruth ==
  /\ exit = 0 <=> status = "finished"
  /\ exit = 0 => list = landed

\* A halt the watchdog began to give before the loop's last look at the queue and
\* the slot is never forgotten, whatever starts or ends while its call is under
\* way: the run does not exit 0.  A halt that names the check of a phase is not
\* one of these: the watch records it and drops it.
HaltNotForgotten == exit = 0 => ~told

\* A phase lands only after the phases of the run list it depends on and that
\* come before it in the plan.
DepsBefore ==
  \A p \in landed : \A d \in DependsOn[p] \cap list : d < p => d \in landed

\* A phase that was blocked, or skipped because of one that was, does not land
\* in this process, and no phase lands twice.
BlockedNeverLands ==
  [][\A p \in landed' \ landed : p \notin blocked /\ p = cursor]_vars

\* A request to stop after the phase is obeyed whatever pause comes with it:
\* the run ends.
StopAfterEnds == stopAfter ~> ~Driving

\* An abort or an interrupt ends the run, even one that is paused or held.
AbortEnds == (Stopping /\ Driving) ~> ~Driving

\* A run that is not paused ends or is paused in the end: no halt, block or
\* restart keeps it going for ever.
RunEnds == []<>(~Driving \/ pc = "paused")

\* tech-design: a rejected watchdog halt halts the run: once the loop has taken
\* in a halt that names no phase, it starts no further step.
RunWideHaltStops == [][StartStep => ~wide]_vars

=============================================================================
