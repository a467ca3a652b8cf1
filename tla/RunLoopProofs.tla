--------------------------- MODULE RunLoopProofs ---------------------------
(* What the loop of RunLoop guarantees for every plan, every run list and    *)
(* every number of halts, restarts and resumes: the safety properties that   *)
(* MCRunLoop checks on small plans.  They follow from one inductive          *)
(* invariant, IInv, which says where every phase of the run list is at each  *)
(* point of the loop, and what the queue and the slot may hold there.        *)
EXTENDS RunLoop, TLAPS

\* The loop has a phase at its cursor that it has not yet decided to work on.
Entering == pc = "enter" \/ (pc = "drain" /\ ret = "enter")

\* The loop has left its range over the run list.
Ending == pc = "final" \/ (pc = "drain" /\ ret = "final")

\* The loop is inside a phase that no halt has blocked.
Clear ==
  \/ pc \in {"check", "checked", "kind", "step", "stepEnded", "held", "land"}
  \/ pc = "drain" /\ ret = "checked"

Failing == pc = "phaseEnd" /\ out # 0

\* The cursor is at a phase of the list, and the phase's outcome is what the
\* records say of it.
CursorInv ==
  /\ Inside \/ Entering \/ pc = "phaseEnd" => cursor \in list
  /\ live => pc = "step"
  /\ pc = "step" /\ result = "none" => done[cursor] < K
  /\ pc = "held" => out # 0
  /\ pc = "phaseEnd" /\ out = 0 => cursor \in landed \cup blocked

\* The places of a phase, pending, blocked and landed, are disjoint.
Disjoint == pending \cap blocked = {} /\ landed \cap (pending \cup blocked) = {}

\* The loop works in plan order: what is pending is ahead of the cursor.
InOrder ==
  /\ Driving /\ ~Ending => pending \subseteq ahead \cup (IF Entering THEN {cursor} ELSE {})
  /\ Driving => \A q \in ahead : cursor < q

\* Only the phase the loop is inside of, or whose failure it is about to record,
\* is in no place.
NoneLost ==
  /\ Driving => list \subseteq pending \cup blocked \cup landed \cup {cursor}
  /\ Driving /\ ~Inside /\ ~Failing => list \subseteq pending \cup blocked \cup landed

\* That phase is in no place, but for a halt that blocks it as its step ends.
AtCursor ==
  /\ Inside \/ pc = "phaseEnd" => cursor \notin pending
  /\ Inside \/ Failing => cursor \notin landed
  /\ Clear => cursor \notin blocked

PlaceInv == Disjoint /\ InOrder /\ NoneLost /\ AtCursor

\* What is queued while a phase is entered, and what a call is about to queue, is
\* for phases that are blocked: the check of a phase cannot block that phase, nor
\* take a halt that names none.
QueueInv ==
  /\ Entering \/ pc = "check" =>
       /\ \A i \in 1..Len(queue) : queue[i] \in blocked
       /\ \A i \in 0..MaxHalts : call[i].stage = "forward" => call[i].names \in blocked
  /\ pc = "drain" /\ ret = "checked" => \A i \in 1..Len(batch) : batch[i] \in blocked

\* A first run keeps no phase pending that depends on a blocked one; a resumed
\* run asks when it enters the phase.  Either way, the phases before the one the
\* loop is inside of, which that one depends on, have landed.
DepsPending == ~resumed => \A p \in pending : DependsOn[p] \cap blocked = {}
DepsCursor  == Inside => \A d \in DependsOn[cursor] \cap list : d < cursor => d \in landed
DepsInv     == DepsPending /\ DepsCursor /\ DepsBefore

\* What the end of a run can rely on.
EndInv ==
  /\ exit # None => pc = "exited"
  /\ status = "finished" => pc = "exited"
  /\ Ending => pending = {} \/ stopped \/ halted # None
  /\ blocked # {} => halted # None \/ first # 0
  /\ ExitTruth

\* A call is under way only for a halt that was given, or for a watchdog that is
\* gone.
CallInv ==
  /\ \A i \in 1..MaxHalts : given < i => call[i] = NoCall
  /\ ~gone => call[0] = NoCall

\* Where a halt that was given is to be found.
HaltInv ==
  /\ Driving /\ batch # <<>> => pc = "drain"
  /\ told /\ Driving =>
       \/ halted # None \/ nextHalt # None \/ first # 0 \/ batch # <<>> \/ Failing
       \/ ~Ending /\ (queue # <<>> \/ slot # None \/ ~Settled)
  /\ HaltNotForgotten

IInv == TypeOK /\ CursorInv /\ PlaceInv /\ QueueInv /\ DepsInv /\ EndInv /\ CallInv
          /\ HaltInv

-----------------------------------------------------------------------------
(* Lemmas on the operators.  *)

\* The phases are positive numbers, and a halt names one of them, or none.
LEMMA TargetFacts ==
  /\ Targets = Phases \cup {RunWide} /\ RunWide \notin Phases
  /\ None \notin Targets /\ (\A p \in Phases : 0 < p) /\ Phases \subseteq Int /\ 0 \in
      Targets
BY NAssumption DEF Targets, Phases, RunWide, None

\* What a call of accept may be.
LEMMA CallTypes ==
  /\ NoCall \in Calls /\ Over \in Calls
  /\ \A h \in Targets : \A t \in {"news", "forward", "hold"} : Call(t, h) \in Calls
  /\ \A c \in Calls : c.stage \in {"news", "forward", "hold"} => c.names \in Targets
  /\ \A t, h : Call(t, h).stage = t /\ Call(t, h).names = h
  /\ NoCall.stage = "idle" /\ Over.stage = "done"
BY DEF Calls, NoCall, Over, Call

\* What a drain takes is a sequence of halts.
LEMMA QueuedTypes ==
  HaltTypes => /\ queue \o (IF slot = None THEN <<>> ELSE <<slot>>) \in Seq(Targets)
               /\ <<>> \in Seq(Targets)
<1>1. HaltTypes => queue \in Seq(Targets)
  BY DEF HaltTypes
<1>2. HaltTypes => (IF slot = None THEN <<>> ELSE <<slot>>) \in Seq(Targets)
  BY DEF HaltTypes
<1> QED
  BY <1>1, <1>2

\* A drain takes something if anything is queued or held in the slot.
LEMMA QueuedKept ==
  HaltTypes /\ (queue # <<>> \/ slot # None) =>
    queue \o (IF slot = None THEN <<>> ELSE <<slot>>) # <<>>
BY DEF HaltTypes

\* However the loop comes to stop, it stops the same way.
LEMMA StopOnly == LoopStops => Stop
BY DEF LoopStops, CheckStopped, KindStopped, StepStopped, HeldStopped, LandStopped,
       PhaseStopped, PausedStopped

\* haltEnded moves pending phases to the blocked ones and loses none; a landed
\* phase is never blocked.
LEMMA HaltEndedMoves ==
  ASSUME NEW h, HaltEnded(h), pending \cap blocked = {}
  PROVE  /\ pending' \subseteq pending /\ blocked \subseteq blocked'
         /\ pending' \cap blocked' = {}
         /\ pending \cup blocked \subseteq pending' \cup blocked'
         /\ pending' \cup blocked' \subseteq pending \cup blocked \cup ({h} \ landed)
BY DEF HaltEnded, Block

\* block moves pending phases to the blocked ones and loses none.
LEMMA BlockMoves ==
  ASSUME NEW h, Block(h), pending \cap blocked = {}
  PROVE  /\ pending' \subseteq pending /\ blocked \subseteq blocked'
         /\ pending' \cap blocked' = {}
         /\ pending' \cup blocked' = pending \cup blocked \cup {h}
BY DEF Block

\* The phases that depend on a phase, directly or through others, are closed
\* under "depends on".
LEMMA DependentsClosed ==
  ASSUME NEW n \in Phases, NEW p \in Phases, NEW d \in Dependents(n) \cup {n},
         d \in DependsOn[p]
  PROVE  p \in Dependents(n) \cup {n}
<1> SUFFICES ASSUME p # n PROVE p \in Dependents(n)
  OBVIOUS
<1> SUFFICES ASSUME NEW R \in SUBSET Phases, n \in R,
                    \A q \in Phases : DependsOn[q] \cap R # {} => q \in R
             PROVE  p \in R
  BY DEF Dependents
<1>1. d \in R
  BY DEF Dependents
<1> QED
  BY <1>1

\* block leaves no phase pending that depends on a blocked one.
LEMMA BlockClosed ==
  ASSUME NEW h \in Phases, Block(h), pending \subseteq Phases,
         \A p \in pending : DependsOn[p] \cap blocked = {}
  PROVE  \A p \in pending' : DependsOn[p] \cap blocked' = {}
<1> SUFFICES ASSUME NEW p \in pending', NEW d \in DependsOn[p], d \in blocked'
             PROVE  FALSE
  OBVIOUS
<1>1. p \in pending /\ p \in Phases /\ p \notin Dependents(h) \cup {h}
  BY DEF Block
<1>2. d \in Dependents(h) \cup {h}
  BY <1>1 DEF Block
<1> QED
  BY <1>1, <1>2, DependentsClosed

\* haltEnded leaves no phase pending that depends on a blocked one.
LEMMA HaltEndedClosed ==
  ASSUME NEW h, HaltEnded(h), pending \subseteq Phases,
         \A p \in pending : DependsOn[p] \cap blocked = {}
  PROVE  \A p \in pending' : DependsOn[p] \cap blocked' = {}
<1>1. CASE h \in Phases \ (landed \cup blocked)
  BY <1>1, BlockClosed DEF HaltEnded
<1>2. CASE h \notin Phases \ (landed \cup blocked)
  BY <1>2 DEF HaltEnded
<1> QED
  BY <1>1, <1>2

-----------------------------------------------------------------------------
(* One lemma for each part of the invariant. *)

\* Every step keeps the types of the flags.
LEMMA FlagNext ==
  ASSUME FlagTypes, [Next]_vars
  PROVE  FlagTypes'
<1> USE DEF FlagTypes, watch, control, halts, life, history
<1>1. CASE Drain
  BY <1>1 DEF Drain, HaltEnded, Block
<1>2. CASE StepDone
  BY <1>2 DEF StepDone
<1>3. CASE StepSignal
  BY <1>3 DEF StepSignal, HaltEnded, Block, EndPhase
<1>4. CASE Boundary
<2>1. CASE pending # {} /\ stopAfter
  BY <1>4, <2>1 DEF Boundary, StartDrain
<2>2. CASE pending = {}
  <3>1. /\ UNCHANGED <<abort, interrupted, live, gone, stopped, haltLanded, resumed, told,
                       wide, continued>>
        /\ stopAfter' = FALSE /\ pauseAfter' = FALSE
    BY <1>4, <2>2 DEF Boundary
  <3> QED
    BY <3>1
<2>3. CASE pending # {} /\ ~stopAfter /\ pauseAfter
  <3>1. /\ UNCHANGED <<abort, interrupted, live, gone, stopped, haltLanded, resumed, told,
                       wide, stopAfter>>
        /\ pauseAfter' = FALSE /\ continued' = FALSE
    BY <1>4, <2>3 DEF Boundary
  <3> QED
    BY <3>1
<2>4. CASE pending # {} /\ ~stopAfter /\ ~pauseAfter
  <3>1. UNCHANGED <<abort, interrupted, live, gone, stopped, haltLanded, resumed, told,
                    wide, continued, stopAfter, pauseAfter>>
    BY <1>4, <2>4 DEF Boundary
  <3> QED
    BY <3>1
<2> QED
  BY <2>1, <2>2, <2>3, <2>4
<1>5. CASE PausedEnd
  BY <1>5 DEF PausedEnd, StartDrain, DogGoneAt
<1>6. CASE PausedContinue
  BY <1>6 DEF PausedContinue
<1>7. CASE LoopStops
  <2>1. UNCHANGED <<abort, interrupted, gone, stopAfter, pauseAfter, continued, stopped,
                    haltLanded, resumed, told, wide>> /\ live' = FALSE
    BY <1>7, StopOnly DEF Stop
  <2> QED
    BY <2>1
<1>8. CASE StepStarted
  <2>1. UNCHANGED <<abort, interrupted, gone, stopAfter, pauseAfter, continued, stopped,
                    haltLanded, resumed, told, wide>>
    BY <1>8 DEF StepStarted
  <2>2. live' \in BOOLEAN
    <3>1. live' = TRUE \/ live' = live
      BY <1>8 DEF StepStarted
    <3> QED
      BY <3>1
  <2> HIDE DEF watch, control, halts, life, history
  <2> QED
    BY <2>1, <2>2
<1>9. CASE HeldStop
  BY <1>9 DEF HeldStop, EndPhase
<1>10. CASE HeldSignal
  BY <1>10 DEF HeldSignal, HaltEnded, Block, EndPhase
<1>11. CASE Aimed \/ Rejected \/ CheckHalt
  <2>1. UNCHANGED <<abort, interrupted, live, gone, stopAfter, pauseAfter, continued,
                    stopped, haltLanded, resumed, wide>>
    BY <1>11 DEF Aimed, Rejected, CheckHalt, Give
  <2>2. told' = (told \/ Listening) \/ told' = told
    BY <1>11 DEF Aimed, Rejected, CheckHalt
  <2>3. told' \in BOOLEAN
    BY <2>2
  <2> HIDE DEF watch, control, halts, life, history
  <2> QED
    BY <2>1, <2>3
<1>12. CASE News
  <2>1. UNCHANGED <<abort, interrupted, live, gone, stopAfter, pauseAfter, continued,
                    stopped, haltLanded, resumed, wide>>
    BY <1>12 DEF News
  <2>2. told' = (told \/ Listening) \/ told' = told
    BY <1>12 DEF News
  <2>3. told' \in BOOLEAN
    BY <2>2
  <2> HIDE DEF watch, control, halts, life, history
  <2> QED
    BY <2>1, <2>3
<1>13. CASE \E i \in 0..MaxHalts : Forward(i) \/ HoldHalt(i)
  <2>1. UNCHANGED <<abort, interrupted, live, gone, stopAfter, pauseAfter, continued,
                    stopped, haltLanded, resumed, told, wide>>
    BY <1>13 DEF Forward, HoldHalt
  <2> QED
    BY <2>1
<1>14. CASE DogGone
  BY <1>14 DEF DogGone
<1>15. CASE Cancel
  BY <1>15 DEF Cancel
<1>16. CASE Control
  BY <1>16 DEF Control
<1>17. CASE Crash
  BY <1>17 DEF Crash
<1>18. CASE Resume
  BY <1>18 DEF Resume, Remaining
<1>19. CASE AtHead \/ DrainDone \/ LeaveOut \/ EnterGone \/ StartPhase \/ Check \/
            Checked \/ StartStep \/ StepRefused \/ StartLand \/ StepDrain \/ StepOK \/
            PhaseEnd \/ Finish \/ RunnerEnd \/ LandOK \/ LandFailed \/ HeldRestart \/
            HeldBlock \/ UNCHANGED vars
  <2>1. UNCHANGED <<abort, interrupted, live, gone, stopAfter, pauseAfter, continued,
      stopped, haltLanded, resumed, told, wide>>
    BY <1>19 DEF vars, AtHead, StartDrain, DrainDone, LeaveOut, EnterGone, Admitted,
           DogGoneAt, StartPhase, Check, Checked, EndPhase, StartStep, StepRefused,
           StartLand, StepDrain, StepOK, PhaseEnd, Block, Finish, RunnerEnd, LandOK,
           LandFailed, HeldRestart, Attempt, HeldBlock
  <2> QED
    BY <2>1
<1> QED
  BY <1>1, <1>2, <1>3, <1>4, <1>5, <1>6, <1>7, <1>8, <1>9, <1>10, <1>11, <1>12, <1>13,
         <1>14, <1>15, <1>16, <1>17, <1>18, <1>19 DEF Next, Loop, Work, Hold, Others,
         Accept

\* Every step keeps the types of the halts.
LEMMA HaltNext ==
  ASSUME RecordTypes, HaltTypes, PlaceTypes, CursorInv, [Next]_vars
  PROVE  HaltTypes'
<1> USE TargetFacts DEF RecordTypes, HaltTypes, PlaceTypes, CursorInv, Inside, watch,
        halts
<1>1. CASE AtHead
  BY <1>1, QueuedTypes DEF AtHead, StartDrain
<1>2. CASE Drain
  BY <1>2 DEF Drain, HaltEnded, Block
<1>3. CASE LeaveOut
  BY <1>3, QueuedTypes DEF LeaveOut, StartDrain
<1>4. CASE EnterGone
  BY <1>4, QueuedTypes DEF EnterGone, StartDrain, Admitted, DogGoneAt
<1>5. CASE Check
  BY <1>5 DEF Check
<1>6. CASE Checked
  BY <1>6 DEF Checked, DogGoneAt, EndPhase
<1>7. CASE StepRefused
  BY <1>7 DEF StepRefused, DogGoneAt, EndPhase
<1>8. CASE StepDrain
  BY <1>8, QueuedTypes DEF StepDrain, StartDrain
<1>9. CASE StepSignal
  BY <1>9 DEF StepSignal, HaltEnded, Block, EndPhase
<1>10. CASE PhaseEnd
  BY <1>10, QueuedTypes DEF PhaseEnd, StartDrain, Block
<1>11. CASE Boundary
  BY <1>11, QueuedTypes DEF Boundary, StartDrain
<1>12. CASE PausedEnd
  BY <1>12, QueuedTypes DEF PausedEnd, StartDrain, DogGoneAt
<1>13. CASE Finish
  BY <1>13 DEF Finish
<1>14. CASE StepStarted
  <2>1. cursor \in Targets /\ cursor \in Phases
    BY <1>14 DEF StepStarted
  <2>2. queue' \in Seq(Targets)
    <3> DEFINE s == CASE slot = None -> <<>> [] slot = RunWide -> <<cursor>>
                      [] OTHER -> <<slot>>
    <3>1. s \in Seq(Targets)
      <4>1. CASE slot = None
        BY <4>1
      <4>2. CASE slot = RunWide
        BY <4>2, <2>1 DEF None, RunWide
      <4>3. CASE slot # None /\ slot # RunWide
        BY <4>3
      <4> QED
        BY <4>1, <4>2, <4>3
    <3>2. queue' = queue \o s
      BY <1>14 DEF StepStarted
    <3> HIDE DEF s
    <3> QED
      BY <3>1, <3>2
  <2>3. call' \in [0..MaxHalts -> Calls]
    BY <1>14, <2>1, CallTypes DEF StepStarted
  <2> QED
    BY <1>14, <2>2, <2>3 DEF StepStarted
<1>15. CASE HeldSignal
  BY <1>15 DEF HeldSignal, HaltEnded, Block, EndPhase
<1>16. CASE Aimed \/ Rejected \/ CheckHalt
  <2>1. PICK c \in Calls : call' = [call EXCEPT ![given + 1] = c]
    BY <1>16, CallTypes DEF Aimed, Rejected, CheckHalt, Give
  <2>2. UNCHANGED <<queue, batch, slot, halted, nextHalt>>
    BY <1>16 DEF Aimed, Rejected, CheckHalt, Give
  <2> QED
    BY <2>1, <2>2
<1>17. CASE News
  <2>1. PICK c \in Calls : call' = [call EXCEPT ![0] = c]
    <3>1. 0 \in 0..MaxHalts /\ call[0] \in Calls
      BY BoundsAssumption
    <3> QED
      BY <1>17, <3>1, CallTypes DEF News
  <2>2. UNCHANGED <<queue, batch, slot, halted, nextHalt>>
    BY <1>17 DEF News
  <2> QED
    BY <2>1, <2>2
<1>18. CASE \E i \in 0..MaxHalts : Forward(i) \/ HoldHalt(i)
  <2>1. PICK i \in 0..MaxHalts : Forward(i) \/ HoldHalt(i)
    BY <1>18
  <2>2. call[i] \in Calls
    OBVIOUS
  <2>3. call[i].stage \in {"forward", "hold"} => call[i].names \in Targets
    BY <2>2, CallTypes
  <2>4. CASE Forward(i)
    <3>1. /\ queue' = Append(queue, call[i].names) /\ call' = [call EXCEPT ![i] = Over]
          /\ UNCHANGED <<batch, slot, halted, nextHalt>>
      BY <2>4 DEF Forward
    <3>2. call[i].names \in Targets
      BY <2>3, <2>4 DEF Forward
    <3> QED
      BY <3>1, <3>2, CallTypes
  <2>5. CASE HoldHalt(i)
    <3>1. PICK c \in Calls : call' = [call EXCEPT ![i] = c]
      BY <2>3, <2>5, CallTypes DEF HoldHalt
    <3>2. slot' \in Targets \cup {None} /\ UNCHANGED <<queue, batch, halted, nextHalt>>
      BY <2>3, <2>5 DEF HoldHalt
    <3> QED
      BY <3>1, <3>2
  <2> QED
    BY <2>1, <2>4, <2>5
<1>19. CASE DogGone
  <2>1. CASE live
    <3>1. cursor \in Targets
      BY <2>1
    <3> QED
      BY <1>19, <2>1, <3>1, CallTypes DEF DogGone
  <2>2. CASE ~live
    BY <1>19, <2>2 DEF DogGone
  <2> QED
    BY <2>1, <2>2
<1>20. CASE Resume
  BY <1>20, CallTypes DEF Resume, Remaining
<1>21. CASE DrainDone \/ StartPhase \/ StartStep \/ StartLand \/ StepDone \/ StepOK \/
            PausedContinue \/ LoopStops \/ RunnerEnd \/ LandOK \/ LandFailed \/
            HeldRestart \/ HeldBlock \/ HeldStop \/ Cancel \/ Control \/ Crash \/
            UNCHANGED vars
  <2>1. UNCHANGED <<queue, batch, slot, halted, nextHalt, call>>
    BY <1>21 DEF vars, DrainDone, StartPhase, Admitted, StartStep, StartLand, StepDone,
           StepOK, EndPhase, PausedContinue, LoopStops, CheckStopped, KindStopped,
           StepStopped, HeldStopped, LandStopped, PhaseStopped, PausedStopped, Stop,
           RunnerEnd, LandOK, LandFailed, HeldRestart, Attempt, HeldBlock, HeldStop,
           Cancel, Control, Crash
  <2> QED
    BY <2>1
<1> QED
  BY <1>1, <1>2, <1>3, <1>4, <1>5, <1>6, <1>7, <1>8, <1>9, <1>10, <1>11, <1>12, <1>13,
         <1>14, <1>15, <1>16, <1>17, <1>18, <1>19, <1>20, <1>21 DEF Next, Loop, Work,
         Hold, Others, Accept

\* Every step keeps the types of the places.
LEMMA PlaceNext ==
  ASSUME RecordTypes, HaltTypes, PlaceTypes, PointTypes, CursorInv, [Next]_vars
  PROVE  PlaceTypes'
<1> USE TargetFacts DEF RecordTypes, HaltTypes, PlaceTypes, PointTypes, CursorInv,
        Inside, Entering, store, sched
<1>1. CASE AtHead
  BY <1>1 DEF AtHead, StartDrain
<1>2. CASE Drain
  BY <1>2 DEF Drain, HaltEnded, Block
<1>3. CASE LeaveOut
  BY <1>3 DEF LeaveOut, StartDrain
<1>4. CASE StartPhase
  BY <1>4 DEF StartPhase, Admitted
<1>5. CASE StepSignal
  BY <1>5 DEF StepSignal, HaltEnded, Block, EndPhase
<1>6. CASE PhaseEnd
  BY <1>6 DEF PhaseEnd, StartDrain, Block
<1>7. CASE LandOK
  BY <1>7 DEF LandOK, EndPhase
<1>8. CASE HeldSignal
  BY <1>8 DEF HeldSignal, HaltEnded, Block, EndPhase
<1>9. CASE Resume
  BY <1>9 DEF Resume, Remaining
<1>10. CASE DrainDone \/ EnterGone \/ Check \/ Checked \/ StartStep \/ StepRefused \/
            StartLand \/ StepDone \/ StepDrain \/ StepOK \/ Boundary \/ PausedEnd \/
            PausedContinue \/ Finish \/ LoopStops \/ StepStarted \/ RunnerEnd \/
            LandFailed \/ HeldRestart \/ HeldBlock \/ HeldStop \/ Aimed \/ Rejected \/ CheckHalt \/
            Accept \/ DogGone \/ Cancel \/ Control \/ Crash \/ UNCHANGED vars
  <2>1. UNCHANGED <<list, landed, pending, ahead, blocked, first, cursor>>
    BY <1>10 DEF vars, DrainDone, EnterGone, StartDrain, Admitted, DogGoneAt, Check,
           Checked, EndPhase, StartStep, StepRefused, StartLand, StepDone, StepDrain,
           StepOK, Boundary, PausedEnd, PausedContinue, Finish, LoopStops, CheckStopped,
           KindStopped, StepStopped, HeldStopped, LandStopped, PhaseStopped,
           PausedStopped, Stop, StepStarted, RunnerEnd, LandFailed, HeldRestart,
           Attempt, HeldBlock, HeldStop, Aimed, Rejected, CheckHalt, Give,
           Accept, News, Forward, HoldHalt, DogGone, Cancel, Control, Crash
  <2> QED
    BY <2>1
<1> QED
  BY <1>1, <1>2, <1>3, <1>4, <1>5, <1>6, <1>7, <1>8, <1>9, <1>10 DEF Next, Loop, Work,
         Hold, Others

\* Every step keeps the types of the control point.
LEMMA PointNext ==
  ASSUME PointTypes, [Next]_vars
  PROVE  PointTypes'
<1> USE DEF PointTypes, step
<1>1. CASE AtHead
  BY <1>1 DEF AtHead, StartDrain
<1>2. CASE DrainDone
  BY <1>2 DEF DrainDone
<1>3. CASE LeaveOut
  BY <1>3 DEF LeaveOut, StartDrain
<1>4. CASE EnterGone
  BY <1>4 DEF EnterGone, StartDrain, Admitted, DogGoneAt
<1>5. CASE StartPhase
  BY <1>5 DEF StartPhase, Admitted
<1>6. CASE Check
  BY <1>6 DEF Check
<1>7. CASE Checked
  BY <1>7 DEF Checked, DogGoneAt, EndPhase
<1>8. CASE StartStep
  BY <1>8 DEF StartStep
<1>9. CASE StepRefused
  BY <1>9 DEF StepRefused, DogGoneAt, EndPhase
<1>10. CASE StartLand
  BY <1>10 DEF StartLand
<1>11. CASE StepDone
  BY <1>11 DEF StepDone
<1>12. CASE StepDrain
  BY <1>12 DEF StepDrain, StartDrain
<1>13. CASE StepSignal
  BY <1>13 DEF StepSignal, HaltEnded, Block, EndPhase
<1>14. CASE StepOK
  BY <1>14 DEF StepOK, EndPhase
<1>15. CASE PhaseEnd
  BY <1>15 DEF PhaseEnd, StartDrain, Block
<1>16. CASE Boundary
  BY <1>16 DEF Boundary, StartDrain
<1>17. CASE PausedEnd
  BY <1>17 DEF PausedEnd, StartDrain, DogGoneAt
<1>18. CASE PausedContinue
  BY <1>18 DEF PausedContinue
<1>19. CASE Finish
  BY <1>19 DEF Finish
<1>20. CASE LoopStops
  BY <1>20, StopOnly DEF Stop
<1>21. CASE RunnerEnd
  BY <1>21 DEF RunnerEnd
<1>22. CASE LandOK
  BY <1>22 DEF LandOK, EndPhase
<1>23. CASE LandFailed
  BY <1>23 DEF LandFailed
<1>24. CASE HeldRestart
  BY <1>24 DEF HeldRestart, Attempt
<1>25. CASE HeldBlock
  BY <1>25 DEF HeldBlock, EndPhase
<1>26. CASE HeldStop
  BY <1>26 DEF HeldStop, EndPhase
<1>27. CASE HeldSignal
  BY <1>27 DEF HeldSignal, HaltEnded, Block, EndPhase
<1>28. CASE Crash
  BY <1>28 DEF Crash
<1>29. CASE Resume
  BY <1>29 DEF Resume, Remaining
<1>30. CASE Drain \/ StepStarted \/ Aimed \/ Rejected \/ CheckHalt \/
            Accept \/ DogGone \/
            Cancel \/ Control \/ UNCHANGED vars
  <2>1. UNCHANGED <<result, out, pc, ret>>
    BY <1>30 DEF vars, Drain, HaltEnded, Block, StepStarted, Aimed, Rejected, CheckHalt, Give,
           Accept, News, Forward, HoldHalt, DogGone, Cancel, Control
  <2> QED
    BY <2>1
<1> QED
  BY <1>1, <1>2, <1>3, <1>4, <1>5, <1>6, <1>7, <1>8, <1>9, <1>10, <1>11, <1>12, <1>13,
         <1>14, <1>15, <1>16, <1>17, <1>18, <1>19, <1>20, <1>21, <1>22, <1>23, <1>24,
         <1>25, <1>26, <1>27, <1>28, <1>29, <1>30 DEF Next, Loop, Work, Hold, Others

\* Every step keeps the types of the records: no step counts past its bound.
LEMMA RecordNext ==
  ASSUME RecordTypes, PlaceTypes, PointTypes, CursorInv, [Next]_vars
  PROVE  RecordTypes'
<1> USE TargetFacts, BoundsAssumption DEF RecordTypes, PlaceTypes, PointTypes,
        CursorInv, Inside, Entering, store, ended, life, history
<1>1. CASE Boundary
  BY <1>1 DEF Boundary, StartDrain
<1>2. CASE PausedContinue
  BY <1>2 DEF PausedContinue
<1>3. CASE Finish
  BY <1>3 DEF Finish
<1>4. CASE LoopStops
  BY <1>4, StopOnly DEF Stop
<1>5. CASE RunnerEnd
  <2>1. cursor \in Phases /\ done[cursor] \in 0..K /\ done[cursor] < K
    BY <1>5 DEF RunnerEnd
  <2>2. done[cursor] + 1 \in 0..K
    BY <2>1, KAssumption
  <2>3. done' = done \/ done' = [done EXCEPT ![cursor] = done[cursor] + 1]
    BY <1>5 DEF RunnerEnd
  <2>4. done' \in [Phases -> 0..K]
    BY <2>1, <2>2, <2>3
  <2> QED
    BY <1>5, <2>4 DEF RunnerEnd
<1>6. CASE LandOK
  BY <1>6 DEF LandOK, EndPhase
<1>7. CASE HeldRestart
  <2>1. cursor \in Phases /\ Attempt \in 1..(K + 1)
    <3>1. cursor \in Phases /\ done[cursor] \in 0..K
      BY <1>7 DEF HeldRestart
    <3> QED
      BY <3>1, KAssumption DEF Attempt
  <2> DEFINE n == restarts[cursor][Attempt]
  <2>2. n \in 0..MaxRestarts /\ n < MaxRestarts
    <3>1. restarts[cursor] \in [1..(K + 1) -> 0..MaxRestarts]
      BY <2>1
    <3>2. n < MaxRestarts
      BY <1>7 DEF HeldRestart
    <3> QED
      BY <2>1, <3>1, <3>2
  <2>3. n + 1 \in 0..MaxRestarts
    BY <2>2, RestartsAssumption
  <2>4. restarts' = [restarts EXCEPT ![cursor] = [restarts[cursor] EXCEPT ![Attempt] = n
      + 1]]
    BY <1>7 DEF HeldRestart
  <2>5. restarts' \in [Phases -> [1..(K + 1) -> 0..MaxRestarts]]
    BY <2>1, <2>3, <2>4
  <2> QED
    BY <1>7, <2>5 DEF HeldRestart
<1>8. CASE Aimed \/ Rejected \/ CheckHalt
  <2>1. given < MaxHalts /\ given' = given + 1
    BY <1>8 DEF Aimed, Rejected, CheckHalt, Give
  <2>2. given' \in 0..MaxHalts
    BY <2>1, BoundsAssumption
  <2> QED
    BY <1>8, <2>2 DEF Aimed, Rejected, CheckHalt, Give
<1>9. CASE News
  BY <1>9 DEF News
<1>10. CASE \E i \in 0..MaxHalts : Forward(i) \/ HoldHalt(i)
  BY <1>10 DEF Forward, HoldHalt
<1>11. CASE Resume
  BY <1>11 DEF Resume, Remaining
<1>12. CASE AtHead \/ Drain \/ DrainDone \/ LeaveOut \/ EnterGone \/ StartPhase \/ Check
            \/ Checked \/ StartStep \/ StepRefused \/ StartLand \/ StepDone \/ StepDrain
            \/ StepSignal \/ StepOK \/ PhaseEnd \/ PausedEnd \/ StepStarted \/
            LandFailed \/ HeldBlock \/ HeldStop \/ HeldSignal \/ DogGone \/ Cancel \/
            Control \/ Crash \/ UNCHANGED vars
  <2>1. UNCHANGED <<list, landed, done, restarts, status, exit, starts, given>>
    BY <1>12 DEF vars, AtHead, StartDrain, Drain, HaltEnded, Block, DrainDone, LeaveOut,
           EnterGone, Admitted, DogGoneAt, StartPhase, Check, Checked, EndPhase,
           StartStep, StepRefused, StartLand, StepDone, StepDrain, StepSignal, StepOK,
           PhaseEnd, PausedEnd, StepStarted, LandFailed, HeldBlock, HeldStop,
           HeldSignal, DogGone, Cancel, Control, Crash
  <2> QED
    BY <2>1
<1> QED
  BY <1>1, <1>2, <1>3, <1>4, <1>5, <1>6, <1>7, <1>8, <1>9, <1>10, <1>11, <1>12 DEF Next,
         Loop, Work, Hold, Others, Accept

\* Every step keeps the cursor at a phase of the run list while one is worked
\* on.
LEMMA CursorNext ==
  ASSUME TypeOK, CursorInv, [Next]_vars
  PROVE  CursorInv'
<1> USE DEF TypeOK, RecordTypes, PlaceTypes, PointTypes, CursorInv, Inside, Entering,
        store, watch, sched, step
<1>1. CASE AtHead
  BY <1>1 DEF AtHead, StartDrain
<1>2. CASE Drain
  BY <1>2 DEF Drain, HaltEnded, Block
<1>3. CASE DrainDone
  BY <1>3 DEF DrainDone
<1>4. CASE LeaveOut
  BY <1>4 DEF LeaveOut, StartDrain
<1>5. CASE EnterGone
  BY <1>5 DEF EnterGone, StartDrain, Admitted, DogGoneAt
<1>6. CASE StartPhase
  BY <1>6 DEF StartPhase, Admitted
<1>7. CASE Check
  BY <1>7 DEF Check
<1>8. CASE Checked
  BY <1>8 DEF Checked, DogGoneAt, EndPhase
<1>9. CASE StartStep
  BY <1>9 DEF StartStep
<1>10. CASE StepRefused
  BY <1>10 DEF StepRefused, DogGoneAt, EndPhase
<1>11. CASE StartLand
  BY <1>11 DEF StartLand
<1>12. CASE StepDone
  BY <1>12 DEF StepDone
<1>13. CASE StepDrain
  BY <1>13 DEF StepDrain, StartDrain
<1>14. CASE StepSignal
  BY <1>14 DEF StepSignal, HaltEnded, Block, EndPhase
<1>15. CASE StepOK
  BY <1>15 DEF StepOK, EndPhase
<1>16. CASE PhaseEnd
  BY <1>16 DEF PhaseEnd, StartDrain, Block
<1>17. CASE Boundary
  BY <1>17 DEF Boundary, StartDrain
<1>18. CASE PausedEnd
  BY <1>18 DEF PausedEnd, StartDrain, DogGoneAt
<1>19. CASE PausedContinue
  BY <1>19 DEF PausedContinue
<1>20. CASE Finish
  BY <1>20 DEF Finish
<1>21. CASE LoopStops
  BY <1>21, StopOnly DEF Stop
<1>22. CASE StepStarted
  BY <1>22 DEF StepStarted
<1>23. CASE RunnerEnd
  BY <1>23 DEF RunnerEnd
<1>24. CASE LandOK
  BY <1>24 DEF LandOK, EndPhase
<1>25. CASE LandFailed
  BY <1>25 DEF LandFailed
<1>26. CASE HeldRestart
  BY <1>26 DEF HeldRestart, Attempt
<1>27. CASE HeldBlock
  BY <1>27 DEF HeldBlock, EndPhase
<1>28. CASE HeldStop
  BY <1>28 DEF HeldStop, EndPhase
<1>29. CASE HeldSignal
  BY <1>29 DEF HeldSignal, HaltEnded, Block, EndPhase
<1>30. CASE Crash
  BY <1>30 DEF Crash
<1>31. CASE Resume
  BY <1>31 DEF Resume, Remaining
<1>32. CASE Aimed \/ Rejected \/ CheckHalt \/
            Accept \/ DogGone \/ Cancel \/ Control \/
            UNCHANGED vars
  <2>1. UNCHANGED <<list, landed, blocked, cursor, live, pc, result, done, out, ret>>
    BY <1>32 DEF vars, Aimed, Rejected, CheckHalt, Give,
           Accept, News, Forward, HoldHalt, DogGone, Cancel,
           Control
  <2> QED
    BY <2>1
<1> QED
  BY <1>1, <1>2, <1>3, <1>4, <1>5, <1>6, <1>7, <1>8, <1>9, <1>10, <1>11, <1>12, <1>13,
         <1>14, <1>15, <1>16, <1>17, <1>18, <1>19, <1>20, <1>21, <1>22, <1>23, <1>24,
         <1>25, <1>26, <1>27, <1>28, <1>29, <1>30, <1>31, <1>32 DEF Next, Loop, Work,
         Hold, Others

\* Every step keeps the places disjoint.
LEMMA DisjointNext ==
  ASSUME TypeOK, CursorInv, PlaceInv, [Next]_vars
  PROVE  Disjoint'
<1> USE DEF PlaceInv, CursorInv, AtCursor, Disjoint, Inside, Entering, Clear, Failing,
        store, sched
<1>1. CASE Drain
  BY <1>1, HaltEndedMoves DEF Drain
<1>2. CASE LeaveOut
  BY <1>2 DEF LeaveOut, StartDrain
<1>3. CASE StartPhase
  BY <1>3 DEF StartPhase, Admitted
<1>4. CASE StepSignal
  BY <1>4, HaltEndedMoves DEF StepSignal, EndPhase
<1>5. CASE PhaseEnd
  BY <1>5, BlockMoves DEF PhaseEnd, StartDrain
<1>6. CASE LandOK
  BY <1>6 DEF LandOK, EndPhase
<1>7. CASE HeldSignal
  BY <1>7, HaltEndedMoves DEF HeldSignal, EndPhase
<1>8. CASE Resume
  BY <1>8 DEF Resume, Remaining
<1>9. CASE AtHead \/ DrainDone \/ EnterGone \/ Check \/ Checked \/ StartStep \/
           StepRefused \/ StartLand \/ StepDone \/ StepDrain \/ StepOK \/ Boundary \/
           PausedEnd \/ PausedContinue \/ Finish \/ LoopStops \/ StepStarted \/
           RunnerEnd \/ LandFailed \/ HeldRestart \/ HeldBlock \/ HeldStop \/ Aimed \/ Rejected \/ CheckHalt \/
            Accept \/ DogGone \/ Cancel \/ Control \/ Crash \/
           UNCHANGED vars
  <2>1. UNCHANGED <<list, landed, pending, blocked>>
    BY <1>9 DEF vars, AtHead, StartDrain, DrainDone, EnterGone, Admitted, DogGoneAt,
           Check, Checked, EndPhase, StartStep, StepRefused, StartLand, StepDone,
           StepDrain, StepOK, Boundary, PausedEnd, PausedContinue, Finish, LoopStops,
           CheckStopped, KindStopped, StepStopped, HeldStopped, LandStopped,
           PhaseStopped, PausedStopped, Stop, StepStarted, RunnerEnd, LandFailed,
           HeldRestart, Attempt, HeldBlock, HeldStop, Aimed, Rejected, CheckHalt, Give,
           Accept, News, Forward, HoldHalt, DogGone, Cancel, Control, Crash
  <2> QED
    BY <2>1
<1> QED
  BY <1>1, <1>2, <1>3, <1>4, <1>5, <1>6, <1>7, <1>8, <1>9 DEF Next, Loop, Work, Hold,
         Others

\* Every step keeps the plan order.
LEMMA InOrderNext ==
  ASSUME TypeOK, CursorInv, PlaceInv, [Next]_vars
  PROVE  InOrder'
<1> USE TargetFacts DEF TypeOK, RecordTypes, PlaceTypes, PointTypes, HaltTypes,
        PlaceInv, InOrder, CursorInv, AtCursor, Disjoint, Inside, Entering, Ending,
        Clear, Failing, Driving, store, sched
<1>1. CASE AtHead
  <2>1. CASE ahead = {}
    BY <1>1, <2>1 DEF AtHead, StartDrain
  <2>2. CASE ahead # {}
    <3>1. PICK p \in ahead : (\A q \in ahead : p <= q) /\ cursor' = p /\ ahead' = ahead
        \ {p}
      BY <1>1, <2>2 DEF AtHead
    <3>2. \A q \in ahead' : p < q
      BY <3>1
    <3>3. pc' = "drain" /\ ret' = "enter" /\ pending' = pending
      BY <1>1, <2>2 DEF AtHead, StartDrain
    <3>4. pending \subseteq ahead
      BY <1>1 DEF AtHead
    <3> QED
      BY <3>1, <3>2, <3>3, <3>4
  <2> QED
    BY <2>1, <2>2
<1>2. CASE Drain
  BY <1>2, HaltEndedMoves DEF Drain
<1>3. CASE DrainDone
  BY <1>3 DEF DrainDone
<1>4. CASE LeaveOut
  BY <1>4 DEF LeaveOut, StartDrain
<1>5. CASE EnterGone
  BY <1>5 DEF EnterGone, StartDrain, Admitted, DogGoneAt
<1>6. CASE StartPhase
  BY <1>6 DEF StartPhase, Admitted
<1>7. CASE Check
  BY <1>7 DEF Check
<1>8. CASE Checked
  BY <1>8 DEF Checked, DogGoneAt, EndPhase
<1>9. CASE StartStep
  BY <1>9 DEF StartStep
<1>10. CASE StepRefused
  BY <1>10 DEF StepRefused, DogGoneAt, EndPhase
<1>11. CASE StartLand
  BY <1>11 DEF StartLand
<1>12. CASE StepDone
  BY <1>12 DEF StepDone
<1>13. CASE StepDrain
  BY <1>13 DEF StepDrain, StartDrain
<1>14. CASE StepSignal
  BY <1>14, HaltEndedMoves DEF StepSignal, EndPhase
<1>15. CASE StepOK
  BY <1>15 DEF StepOK, EndPhase
<1>16. CASE PhaseEnd
  BY <1>16, BlockMoves DEF PhaseEnd, StartDrain
<1>17. CASE Boundary
  BY <1>17 DEF Boundary, StartDrain
<1>18. CASE PausedEnd
  BY <1>18 DEF PausedEnd, StartDrain, DogGoneAt
<1>19. CASE PausedContinue
  BY <1>19 DEF PausedContinue
<1>20. CASE Finish
  BY <1>20 DEF Finish
<1>21. CASE LoopStops
  BY <1>21, StopOnly DEF Stop
<1>22. CASE LandOK
  BY <1>22 DEF LandOK, EndPhase
<1>23. CASE LandFailed
  BY <1>23 DEF LandFailed
<1>24. CASE HeldRestart
  BY <1>24 DEF HeldRestart, Attempt
<1>25. CASE HeldBlock
  BY <1>25 DEF HeldBlock, EndPhase
<1>26. CASE HeldStop
  BY <1>26 DEF HeldStop, EndPhase
<1>27. CASE HeldSignal
  BY <1>27, HaltEndedMoves DEF HeldSignal, EndPhase
<1>28. CASE Crash
  BY <1>28 DEF Crash
<1>29. CASE Resume
  BY <1>29 DEF Resume, Remaining
<1>30. CASE StepStarted \/ RunnerEnd \/ Aimed \/ Rejected \/ CheckHalt \/
            Accept \/ DogGone \/
            Cancel \/ Control \/ UNCHANGED vars
  <2>1. UNCHANGED <<list, landed, pending, blocked, ahead, cursor, pc, ret>>
    BY <1>30 DEF vars, StepStarted, RunnerEnd, Aimed, Rejected, CheckHalt, Give,
           Accept, News, Forward, HoldHalt, DogGone, Cancel, Control
  <2> QED
    BY <2>1
<1> QED
  BY <1>1, <1>2, <1>3, <1>4, <1>5, <1>6, <1>7, <1>8, <1>9, <1>10, <1>11, <1>12, <1>13,
         <1>14, <1>15, <1>16, <1>17, <1>18, <1>19, <1>20, <1>21, <1>22, <1>23, <1>24,
         <1>25, <1>26, <1>27, <1>28, <1>29, <1>30 DEF Next, Loop, Work, Hold, Others

\* No step loses a phase of the run list.
LEMMA NoneLostNext ==
  ASSUME TypeOK, CursorInv, PlaceInv, [Next]_vars
  PROVE  NoneLost'
<1> USE TargetFacts DEF TypeOK, RecordTypes, PlaceTypes, PointTypes, HaltTypes,
        PlaceInv, NoneLost, CursorInv, InOrder, Disjoint, Inside, Entering, Ending,
        Clear, Failing, Driving, store, sched, step
<1>1. CASE AtHead
  BY <1>1 DEF AtHead, StartDrain
<1>2. CASE Drain
  BY <1>2, HaltEndedMoves DEF Drain
<1>3. CASE DrainDone
  BY <1>3 DEF DrainDone
<1>4. CASE LeaveOut
  BY <1>4 DEF LeaveOut, StartDrain
<1>5. CASE EnterGone
  BY <1>5 DEF EnterGone, StartDrain, Admitted, DogGoneAt
<1>6. CASE StartPhase
  BY <1>6 DEF StartPhase, Admitted
<1>7. CASE Check
  BY <1>7 DEF Check
<1>8. CASE Checked
  BY <1>8 DEF Checked, DogGoneAt, EndPhase
<1>9. CASE StartStep
  BY <1>9 DEF StartStep
<1>10. CASE StepRefused
  BY <1>10 DEF StepRefused, DogGoneAt, EndPhase
<1>11. CASE StartLand
  BY <1>11 DEF StartLand
<1>12. CASE StepDone
  BY <1>12 DEF StepDone
<1>13. CASE StepDrain
  BY <1>13 DEF StepDrain, StartDrain
<1>14. CASE StepSignal
  <2>1. UNCHANGED <<list, landed, cursor>> /\ pc = "step"
    BY <1>14 DEF StepSignal
  <2>2. CASE queue[1] = cursor /\ result # "ok"
    <3>1. UNCHANGED <<pending, blocked>> /\ Failing'
      BY <1>14, <2>2 DEF StepSignal, EndPhase
    <3> QED
      BY <2>1, <3>1
  <2>3. CASE ~(queue[1] = cursor /\ result # "ok")
    <3>1. HaltEnded(queue[1]) /\ pc' \in {"step", "stepOK"}
      BY <1>14, <2>3 DEF StepSignal
    <3> QED
      BY <2>1, <3>1, HaltEndedMoves
  <2> QED
    BY <2>2, <2>3
<1>15. CASE StepOK
  <2>1. UNCHANGED <<list, landed, pending, blocked, cursor>> /\ pc = "stepOK"
    BY <1>15 DEF StepOK
  <2>2. CASE cursor \in blocked
    <3>1. list \subseteq pending \cup blocked \cup landed
      BY <2>1, <2>2
    <3> QED
      BY <2>1, <3>1
  <2>3. CASE cursor \notin blocked
    <3>1. pc' = "kind"
      BY <1>15, <2>3 DEF StepOK
    <3> QED
      BY <2>1, <3>1
  <2> QED
    BY <2>2, <2>3
<1>16. CASE PhaseEnd
  BY <1>16, BlockMoves DEF PhaseEnd, StartDrain
<1>17. CASE Boundary
  BY <1>17 DEF Boundary, StartDrain
<1>18. CASE PausedEnd
  BY <1>18 DEF PausedEnd, StartDrain, DogGoneAt
<1>19. CASE PausedContinue
  BY <1>19 DEF PausedContinue
<1>20. CASE Finish
  BY <1>20 DEF Finish
<1>21. CASE LoopStops
  BY <1>21, StopOnly DEF Stop
<1>22. CASE LandOK
  BY <1>22 DEF LandOK, EndPhase
<1>23. CASE LandFailed
  BY <1>23 DEF LandFailed
<1>24. CASE HeldRestart
  BY <1>24 DEF HeldRestart, Attempt
<1>25. CASE HeldBlock
  BY <1>25 DEF HeldBlock, EndPhase
<1>26. CASE HeldStop
  BY <1>26 DEF HeldStop, EndPhase
<1>27. CASE HeldSignal
  <2>1. UNCHANGED <<list, landed, cursor>> /\ pc = "held"
    BY <1>27 DEF HeldSignal
  <2>2. CASE HaltEnded(queue[1]) /\ UNCHANGED <<out, pc>>
    BY <2>1, <2>2, HaltEndedMoves
  <2>3. CASE UNCHANGED <<pending, blocked>> /\ EndPhase(5)
    BY <2>1, <2>3 DEF EndPhase
  <2> QED
    BY <1>27, <2>2, <2>3 DEF HeldSignal
<1>28. CASE Crash
  BY <1>28 DEF Crash
<1>29. CASE Resume
  BY <1>29 DEF Resume, Remaining
<1>30. CASE StepStarted \/ RunnerEnd \/ Aimed \/ Rejected \/ CheckHalt \/
            Accept \/ DogGone \/
            Cancel \/ Control \/ UNCHANGED vars
  <2>1. UNCHANGED <<list, landed, pending, blocked, cursor, pc, ret, out>>
    BY <1>30 DEF vars, StepStarted, RunnerEnd, Aimed, Rejected, CheckHalt, Give,
           Accept, News, Forward, HoldHalt, DogGone, Cancel, Control
  <2> QED
    BY <2>1
<1> QED
  BY <1>1, <1>2, <1>3, <1>4, <1>5, <1>6, <1>7, <1>8, <1>9, <1>10, <1>11, <1>12, <1>13,
         <1>14, <1>15, <1>16, <1>17, <1>18, <1>19, <1>20, <1>21, <1>22, <1>23, <1>24,
         <1>25, <1>26, <1>27, <1>28, <1>29, <1>30 DEF Next, Loop, Work, Hold, Others

\* Every step keeps the phase at the cursor out of the places, and unblocked
\* where it must be.
LEMMA AtCursorNext ==
  ASSUME TypeOK, CursorInv, PlaceInv, QueueInv, [Next]_vars
  PROVE  AtCursor'
<1> USE TargetFacts DEF TypeOK, RecordTypes, PlaceTypes, PointTypes, HaltTypes,
        PlaceInv, AtCursor, CursorInv, QueueInv, Disjoint, InOrder, Inside, Entering,
        Ending, Clear, Failing, Driving, store, sched, step
<1>1. CASE AtHead
  BY <1>1 DEF AtHead, StartDrain
<1>2. CASE Drain
  <2>1. CASE ret = "checked"
    <3>1. batch[1] \in blocked
      BY <1>2, <2>1 DEF Drain
    <3>2. UNCHANGED <<pending, blocked>>
      BY <1>2, <3>1 DEF Drain, HaltEnded
    <3> QED
      BY <1>2, <3>2 DEF Drain
  <2>2. CASE ret # "checked"
    BY <1>2, <2>2, HaltEndedMoves DEF Drain
  <2> QED
    BY <2>1, <2>2
<1>3. CASE DrainDone
  BY <1>3 DEF DrainDone
<1>4. CASE LeaveOut
  BY <1>4 DEF LeaveOut, StartDrain
<1>5. CASE EnterGone
  BY <1>5 DEF EnterGone, StartDrain, Admitted, DogGoneAt
<1>6. CASE StartPhase
  BY <1>6 DEF StartPhase, Admitted
<1>7. CASE Check
  BY <1>7 DEF Check
<1>8. CASE Checked
  BY <1>8 DEF Checked, DogGoneAt, EndPhase
<1>9. CASE StartStep
  BY <1>9 DEF StartStep
<1>10. CASE StepRefused
  BY <1>10 DEF StepRefused, DogGoneAt, EndPhase
<1>11. CASE StartLand
  BY <1>11 DEF StartLand
<1>12. CASE StepDone
  BY <1>12 DEF StepDone
<1>13. CASE StepDrain
  BY <1>13 DEF StepDrain, StartDrain
<1>14. CASE StepSignal
  <2> DEFINE h == queue[1]
  <2>1. CASE h # cursor
    <3>1. HaltEnded(h) /\ cursor \notin pending /\ cursor \notin landed /\ cursor \notin
        blocked
      BY <1>14, <2>1 DEF StepSignal
    <3>2. cursor \notin pending' /\ cursor \notin blocked'
      BY <2>1, <3>1, HaltEndedMoves
    <3> QED
      BY <1>14, <2>1, <3>1, <3>2 DEF StepSignal
  <2>2. CASE h = cursor /\ result # "ok"
    BY <1>14, <2>2 DEF StepSignal, EndPhase
  <2>3. CASE h = cursor /\ result = "ok"
    BY <1>14, <2>3, HaltEndedMoves DEF StepSignal
  <2> QED
    BY <2>1, <2>2, <2>3
<1>15. CASE StepOK
  BY <1>15 DEF StepOK, EndPhase
<1>16. CASE PhaseEnd
  BY <1>16, BlockMoves DEF PhaseEnd, StartDrain
<1>17. CASE Boundary
  BY <1>17 DEF Boundary, StartDrain
<1>18. CASE PausedEnd
  BY <1>18 DEF PausedEnd, StartDrain, DogGoneAt
<1>19. CASE PausedContinue
  BY <1>19 DEF PausedContinue
<1>20. CASE Finish
  BY <1>20 DEF Finish
<1>21. CASE LoopStops
  BY <1>21, StopOnly DEF Stop
<1>22. CASE LandOK
  BY <1>22 DEF LandOK, EndPhase
<1>23. CASE LandFailed
  BY <1>23 DEF LandFailed
<1>24. CASE HeldRestart
  BY <1>24 DEF HeldRestart, Attempt
<1>25. CASE HeldBlock
  BY <1>25 DEF HeldBlock, EndPhase
<1>26. CASE HeldStop
  BY <1>26 DEF HeldStop, EndPhase
<1>27. CASE HeldSignal
  <2>1. UNCHANGED <<list, landed, cursor>> /\ pc = "held"
    BY <1>27 DEF HeldSignal
  <2>2. CASE queue[1] # cursor /\ HaltEnded(queue[1]) /\ UNCHANGED <<out, pc>>
    BY <2>1, <2>2, HaltEndedMoves
  <2>3. CASE UNCHANGED <<pending, blocked>> /\ EndPhase(5)
    BY <2>1, <2>3 DEF EndPhase
  <2> QED
    BY <1>27, <2>2, <2>3 DEF HeldSignal
<1>28. CASE Crash
  BY <1>28 DEF Crash
<1>29. CASE Resume
  BY <1>29 DEF Resume, Remaining
<1>30. CASE StepStarted \/ RunnerEnd \/ Aimed \/ Rejected \/ CheckHalt \/
            Accept \/ DogGone \/
            Cancel \/ Control \/ UNCHANGED vars
  <2>1. UNCHANGED <<list, landed, pending, blocked, cursor, pc, ret, out>>
    BY <1>30 DEF vars, StepStarted, RunnerEnd, Aimed, Rejected, CheckHalt, Give,
           Accept, News, Forward, HoldHalt, DogGone, Cancel, Control
  <2> QED
    BY <2>1
<1> QED
  BY <1>1, <1>2, <1>3, <1>4, <1>5, <1>6, <1>7, <1>8, <1>9, <1>10, <1>11, <1>12, <1>13,
         <1>14, <1>15, <1>16, <1>17, <1>18, <1>19, <1>20, <1>21, <1>22, <1>23, <1>24,
         <1>25, <1>26, <1>27, <1>28, <1>29, <1>30 DEF Next, Loop, Work, Hold, Others

\* Every step keeps what is queued while a phase is entered to blocked phases.
LEMMA QueueInvNext ==
  ASSUME TypeOK, CursorInv, PlaceInv, AtCursor, Disjoint, QueueInv, [Next]_vars
  PROVE  QueueInv'
<1> USE TargetFacts DEF TypeOK, HaltTypes, PlaceTypes, PointTypes, CursorInv, PlaceInv,
        QueueInv, Inside, Entering, Ending, Clear, Failing, Driving, store, watch,
        sched, step
<1>1. CASE AtHead
  <2>1. queue' = <<>> /\ pc' = "drain" /\ ret' # "checked" /\ UNCHANGED call /\ Settled
    BY <1>1 DEF AtHead, StartDrain
  <2>2. \A i \in 0..MaxHalts : call'[i].stage # "forward"
    BY <2>1 DEF Settled
  <2> QED
    BY <2>1, <2>2
<1>2. CASE Drain
  BY <1>2 DEF Drain, HaltEnded, Block
<1>3. CASE DrainDone
  BY <1>3 DEF DrainDone
<1>4. CASE LeaveOut
  BY <1>4 DEF LeaveOut, StartDrain
<1>5. CASE EnterGone
  BY <1>5 DEF EnterGone, StartDrain, Admitted, DogGoneAt
<1>6. CASE StartPhase
  BY <1>6 DEF StartPhase, Admitted
<1>7. CASE Check
  BY <1>7 DEF Check
<1>8. CASE Checked
  BY <1>8 DEF Checked, DogGoneAt, EndPhase
<1>9. CASE StartStep
  BY <1>9 DEF StartStep
<1>10. CASE StepRefused
  BY <1>10 DEF StepRefused, DogGoneAt, EndPhase
<1>11. CASE StartLand
  BY <1>11 DEF StartLand
<1>12. CASE StepDone
  BY <1>12 DEF StepDone
<1>13. CASE StepDrain
  BY <1>13 DEF StepDrain, StartDrain
<1>14. CASE StepSignal
  BY <1>14 DEF StepSignal, HaltEnded, Block, EndPhase
<1>15. CASE StepOK
  BY <1>15 DEF StepOK, EndPhase
<1>16. CASE PhaseEnd
  BY <1>16 DEF PhaseEnd, StartDrain, Block
<1>17. CASE Boundary
  BY <1>17 DEF Boundary, StartDrain
<1>18. CASE PausedEnd
  BY <1>18 DEF PausedEnd, StartDrain, DogGoneAt
<1>19. CASE PausedContinue
  BY <1>19 DEF PausedContinue
<1>20. CASE Finish
  BY <1>20 DEF Finish
<1>21. CASE LoopStops
  BY <1>21, StopOnly DEF Stop
<1>22. CASE StepStarted
  BY <1>22 DEF StepStarted
<1>23. CASE LandOK
  BY <1>23 DEF LandOK, EndPhase
<1>24. CASE LandFailed
  BY <1>24 DEF LandFailed
<1>25. CASE HeldRestart
  BY <1>25 DEF HeldRestart, Attempt
<1>26. CASE HeldBlock
  BY <1>26 DEF HeldBlock, EndPhase
<1>27. CASE HeldStop
  BY <1>27 DEF HeldStop, EndPhase
<1>28. CASE HeldSignal
  BY <1>28 DEF HeldSignal, HaltEnded, Block, EndPhase
<1>29. CASE Aimed \/ Rejected \/ CheckHalt
  <2>1. PICK c \in {Call("forward", p) : p \in {q \in Phases : Judged(q)}}
                  \cup {Call("hold", h) : h \in Targets} \cup {Over} : Give(c)
    BY <1>29 DEF Aimed, Rejected, CheckHalt
  <2>2. /\ call' = [call EXCEPT ![given + 1] = c]
        /\ UNCHANGED <<blocked, pc, ret, queue, batch>>
    BY <2>1 DEF Give
  <2>3. Entering \/ pc = "check" =>
          \A q \in Phases : Judged(q) => q \in blocked
    BY DEF Judged
  <2>4. Entering \/ pc = "check" => (c.stage = "forward" => c.names \in blocked)
    BY <2>1, <2>3, CallTypes
  <2>5. \A i \in 0..MaxHalts : call'[i] = call[i] \/ call'[i] = c
    BY <2>2
  <2>6. Entering \/ pc = "check" => \A i \in 0..MaxHalts :
          call'[i].stage = "forward" => call'[i].names \in blocked
    BY <2>4, <2>5
  <2> QED
    BY <2>2, <2>6
<1>30. CASE News
  <2>1. /\ \/ Judged(call[0].names) /\ call' = [call EXCEPT ![0] = Call("forward", call[0].names)]
           \/ call' = [call EXCEPT ![0] = Over]
        /\ UNCHANGED <<blocked, pc, ret, queue, batch>>
    BY <1>30 DEF News
  <2>2. Entering \/ pc = "check" => (Judged(call[0].names) => call[0].names \in blocked)
    BY DEF Judged
  <2>3. \A i \in 0..MaxHalts :
          \/ call'[i] = call[i] \/ call'[i] = Over
          \/ call'[i] = Call("forward", call[0].names) /\ Judged(call[0].names)
    BY <2>1
  <2>4. Entering \/ pc = "check" =>
          \A i \in 0..MaxHalts : call'[i].stage = "forward" => call'[i].names \in blocked
    BY <2>2, <2>3, CallTypes
  <2> QED
    BY <2>1, <2>4
<1>31. CASE DogGone
  <2>1. UNCHANGED <<blocked, pc, ret, queue, batch>>
    BY <1>31 DEF DogGone
  <2>2. Entering \/ pc = "check" => UNCHANGED call
    BY <1>31 DEF DogGone
  <2> QED
    BY <2>1, <2>2
<1>32. CASE Crash
  BY <1>32 DEF Crash
<1>33. CASE Resume
  BY <1>33 DEF Resume, Remaining
<1>34. CASE RunnerEnd \/ Cancel \/ Control \/ UNCHANGED vars
  <2>1. UNCHANGED <<list, landed, pending, blocked, ahead, cursor, pc, ret, out, queue,
      batch, call>>
    BY <1>34 DEF vars, RunnerEnd, Cancel, Control
  <2> QED
    BY <2>1
<1>35. CASE \E i \in 0..MaxHalts : Forward(i) \/ HoldHalt(i)
  <2>1. PICK i \in 0..MaxHalts : Forward(i) \/ HoldHalt(i)
    BY <1>35
  <2>2. CASE Forward(i)
    <3>1. /\ queue' = Append(queue, call[i].names) /\ call' = [call EXCEPT ![i] = Over]
          /\ call[i].stage = "forward" /\ UNCHANGED <<blocked, pc, ret, batch>>
      BY <2>2 DEF Forward
    <3>2. Entering \/ pc = "check" => \A j \in 1..Len(queue') : queue'[j] \in blocked
      BY <3>1
    <3> QED
      BY <3>1, <3>2, CallTypes
  <2>3. CASE HoldHalt(i)
    <3>1. UNCHANGED <<blocked, pc, ret, queue, batch>>
      BY <2>3 DEF HoldHalt
    <3>2. Entering \/ pc = "check" => call' = [call EXCEPT ![i] = Over]
      BY <2>3 DEF HoldHalt
    <3> QED
      BY <3>1, <3>2, CallTypes
  <2> QED
    BY <2>1, <2>2, <2>3
<1> QED
  BY <1>1, <1>2, <1>3, <1>4, <1>5, <1>6, <1>7, <1>8, <1>9, <1>10, <1>11, <1>12, <1>13,
         <1>14, <1>15, <1>16, <1>17, <1>18, <1>19, <1>20, <1>21, <1>22, <1>23, <1>24,
         <1>25, <1>26, <1>27, <1>28, <1>29, <1>30, <1>31, <1>32, <1>33, <1>34, <1>35
     DEF Next, Loop, Work, Hold, Others, Accept

\* No step of a first run leaves a phase pending that depends on a blocked one.
LEMMA DepsPendingNext ==
  ASSUME TypeOK, CursorInv, PlaceInv, DepsInv, [Next]_vars
  PROVE  DepsPending'
<1> USE TargetFacts DEF TypeOK, RecordTypes, PlaceTypes, CursorInv, DepsInv,
        DepsPending, Inside, sched, life
<1>1. CASE Drain
  <2>1. UNCHANGED <<pending, blocked>> \/ \E h : HaltEnded(h)
    BY <1>1 DEF Drain
  <2>2. UNCHANGED resumed /\ pending \subseteq Phases
    BY <1>1 DEF Drain
  <2> QED
    BY <2>1, <2>2, HaltEndedClosed
<1>2. CASE LeaveOut
  <2>1. UNCHANGED resumed /\ (UNCHANGED <<pending, blocked>> \/ resumed = TRUE)
    BY <1>2 DEF LeaveOut, Unmet, FlagTypes
  <2>2. CASE UNCHANGED <<pending, blocked>>
    BY <2>1, <2>2
  <2>3. CASE resumed = TRUE
    BY <2>1, <2>3
  <2> QED
    BY <2>1, <2>2, <2>3
<1>3. CASE StartPhase
  BY <1>3 DEF StartPhase, Admitted
<1>4. CASE StepSignal
  <2>1. UNCHANGED <<pending, blocked>> \/ \E h : HaltEnded(h)
    BY <1>4 DEF StepSignal
  <2>2. UNCHANGED resumed /\ pending \subseteq Phases
    BY <1>4 DEF StepSignal
  <2> QED
    BY <2>1, <2>2, HaltEndedClosed
<1>5. CASE PhaseEnd
  <2>1. CASE out # 0
    <3>1. Block(cursor) /\ UNCHANGED resumed /\ pending \subseteq Phases /\ cursor \in
        Phases
      BY <1>5, <2>1 DEF PhaseEnd
    <3> QED
      BY <3>1, BlockClosed
  <2>2. CASE out = 0
    BY <1>5, <2>2 DEF PhaseEnd
  <2> QED
    BY <2>1, <2>2
<1>6. CASE HeldSignal
  <2>1. UNCHANGED <<pending, blocked>> \/ \E h : HaltEnded(h)
    BY <1>6 DEF HeldSignal
  <2>2. UNCHANGED resumed /\ pending \subseteq Phases
    BY <1>6 DEF HeldSignal
  <2> QED
    BY <2>1, <2>2, HaltEndedClosed
<1>7. CASE Resume
  BY <1>7 DEF Resume, Remaining
<1>8. CASE AtHead \/ DrainDone \/ EnterGone \/ Check \/ Checked \/ StartStep \/
           StepRefused \/ StartLand \/ StepDone \/ StepDrain \/ StepOK \/ Boundary \/
           PausedEnd \/ PausedContinue \/ Finish \/ LoopStops \/ StepStarted \/
           RunnerEnd \/ LandOK \/ LandFailed \/ HeldRestart \/ HeldBlock \/ HeldStop \/
           Aimed \/ Rejected \/ CheckHalt \/
            Accept \/ DogGone \/ Cancel \/ Control \/ Crash \/
           UNCHANGED vars
  <2>1. UNCHANGED <<resumed, pending, blocked>>
    BY <1>8 DEF vars, AtHead, StartDrain, DrainDone, EnterGone, Admitted, DogGoneAt,
           Check, Checked, EndPhase, StartStep, StepRefused, StartLand, StepDone,
           StepDrain, StepOK, Boundary, PausedEnd, PausedContinue, Finish, LoopStops,
           CheckStopped, KindStopped, StepStopped, HeldStopped, LandStopped,
           PhaseStopped, PausedStopped, Stop, StepStarted, RunnerEnd, LandOK,
           LandFailed, HeldRestart, Attempt, HeldBlock, HeldStop, Aimed, Rejected, CheckHalt, Give,
           Accept, News, Forward, HoldHalt, DogGone, Cancel, Control, Crash
  <2> QED
    BY <2>1
<1> QED
  BY <1>1, <1>2, <1>3, <1>4, <1>5, <1>6, <1>7, <1>8 DEF Next, Loop, Work, Hold, Others

\* No phase is started before those it depends on have landed.
LEMMA DepsCursorNext ==
  ASSUME TypeOK, CursorInv, PlaceInv, DepsInv, [Next]_vars
  PROVE  DepsCursor'
<1>0. list \subseteq Phases /\ pending \subseteq list
  BY DEF TypeOK, RecordTypes, PlaceTypes
<1> USE TargetFacts DEF TypeOK, RecordTypes, PlaceTypes, PointTypes, HaltTypes,
        CursorInv, PlaceInv, Disjoint, NoneLost, InOrder, DepsInv, DepsPending,
        DepsCursor, Inside, Entering, Ending, Clear, Failing, Driving, store, sched
<1>1. CASE AtHead
  BY <1>1 DEF AtHead, StartDrain
<1>2. CASE DrainDone
  BY <1>2 DEF DrainDone
<1>3. CASE LeaveOut
  BY <1>3 DEF LeaveOut, StartDrain
<1>4. CASE EnterGone
  BY <1>4 DEF EnterGone, StartDrain, Admitted, DogGoneAt
<1>5. CASE StartPhase
  <2> SUFFICES ASSUME NEW d \in DependsOn[cursor] \cap list, d < cursor
               PROVE  d \in landed
    BY <1>5 DEF StartPhase
  <2>1. cursor \in pending /\ pc = "enter" /\ ~Unmet(cursor)
    BY <1>5 DEF StartPhase, Admitted
  <2>2. d \in Int /\ cursor \in Int /\ d # cursor
    <3>1. d \in Phases /\ cursor \in Phases
      BY <2>1, <1>0
    <3>2. d < cursor => d # cursor
      BY <3>1
    <3> QED
      BY <3>1, <3>2
  <2>3. d \notin ahead
    BY <2>1, <2>2
  <2>4. d \notin pending
    BY <2>1, <2>2, <2>3
  <2>5. d \notin blocked
    BY <2>1 DEF Unmet
  <2>6. d \in pending \cup blocked \cup landed
    BY <2>1
  <2> QED
    BY <2>4, <2>5, <2>6
<1>6. CASE Check
  BY <1>6 DEF Check
<1>7. CASE Checked
  BY <1>7 DEF Checked, DogGoneAt, EndPhase
<1>8. CASE StartStep
  BY <1>8 DEF StartStep
<1>9. CASE StepRefused
  BY <1>9 DEF StepRefused, DogGoneAt, EndPhase
<1>10. CASE StartLand
  BY <1>10 DEF StartLand
<1>11. CASE StepDone
  BY <1>11 DEF StepDone
<1>12. CASE StepDrain
  BY <1>12 DEF StepDrain, StartDrain
<1>13. CASE StepSignal
  BY <1>13 DEF StepSignal, HaltEnded, Block, EndPhase
<1>14. CASE StepOK
  BY <1>14 DEF StepOK, EndPhase
<1>15. CASE PhaseEnd
  BY <1>15 DEF PhaseEnd, StartDrain, Block
<1>16. CASE Boundary
  BY <1>16 DEF Boundary, StartDrain
<1>17. CASE PausedEnd
  BY <1>17 DEF PausedEnd, StartDrain, DogGoneAt
<1>18. CASE PausedContinue
  BY <1>18 DEF PausedContinue
<1>19. CASE Finish
  BY <1>19 DEF Finish
<1>20. CASE LoopStops
  BY <1>20, StopOnly DEF Stop
<1>21. CASE LandOK
  BY <1>21 DEF LandOK, EndPhase
<1>22. CASE LandFailed
  BY <1>22 DEF LandFailed
<1>23. CASE HeldRestart
  BY <1>23 DEF HeldRestart, Attempt
<1>24. CASE HeldBlock
  BY <1>24 DEF HeldBlock, EndPhase
<1>25. CASE HeldStop
  BY <1>25 DEF HeldStop, EndPhase
<1>26. CASE HeldSignal
  BY <1>26 DEF HeldSignal, HaltEnded, Block, EndPhase
<1>27. CASE Crash
  BY <1>27 DEF Crash
<1>28. CASE Resume
  BY <1>28 DEF Resume, Remaining
<1>29. CASE Drain \/ StepStarted \/ RunnerEnd \/ Aimed \/ Rejected \/ CheckHalt \/
            Accept \/ DogGone \/ Cancel \/ Control \/ UNCHANGED vars
  <2>1. UNCHANGED <<list, landed, cursor, pc, ret>>
    BY <1>29 DEF vars, Drain, HaltEnded, Block, StepStarted, RunnerEnd, Aimed, Rejected, CheckHalt, Give,
           Accept, News, Forward, HoldHalt, DogGone, Cancel, Control
  <2> QED
    BY <2>1
<1> QED
  BY <1>1, <1>2, <1>3, <1>4, <1>5, <1>6, <1>7, <1>8, <1>9, <1>10, <1>11, <1>12, <1>13,
         <1>14, <1>15, <1>16, <1>17, <1>18, <1>19, <1>20, <1>21, <1>22, <1>23, <1>24,
         <1>25, <1>26, <1>27, <1>28, <1>29 DEF Next, Loop, Work, Hold, Others

\* No phase lands before those it depends on.
LEMMA DepsBeforeNext ==
  ASSUME TypeOK, CursorInv, PlaceInv, DepsInv, [Next]_vars
  PROVE  DepsBefore'
<1> USE DEF TypeOK, RecordTypes, PlaceTypes, PointTypes, HaltTypes, DepsInv, DepsCursor,
        DepsBefore, Inside, Entering, Ending, Clear, Failing, Driving, store
<1>1. CASE LandOK
  BY <1>1 DEF LandOK, EndPhase
<1>2. CASE AtHead \/ Drain \/ DrainDone \/ LeaveOut \/ EnterGone \/ StartPhase \/ Check
           \/ Checked \/ StartStep \/ StepRefused \/ StartLand \/ StepDone \/ StepDrain
           \/ StepSignal \/ StepOK \/ PhaseEnd \/ Boundary \/ PausedEnd \/
           PausedContinue \/ Finish \/ LoopStops \/ StepStarted \/ RunnerEnd \/
           LandFailed \/ HeldRestart \/ HeldBlock \/ HeldStop \/ HeldSignal \/ Aimed \/ Rejected \/ CheckHalt \/
            Accept \/ DogGone \/ Cancel \/ Control \/ Crash \/ Resume
           \/ UNCHANGED vars
  <2>1. UNCHANGED <<list, landed>>
    BY <1>2 DEF vars, AtHead, StartDrain, Drain, HaltEnded, Block, DrainDone, LeaveOut,
           EnterGone, Admitted, DogGoneAt, StartPhase, Check, Checked, EndPhase,
           StartStep, StepRefused, StartLand, StepDone, StepDrain, StepSignal, StepOK,
           PhaseEnd, Boundary, PausedEnd, PausedContinue, Finish, LoopStops,
           CheckStopped, KindStopped, StepStopped, HeldStopped, LandStopped,
           PhaseStopped, PausedStopped, Stop, StepStarted, RunnerEnd, LandFailed,
           HeldRestart, Attempt, HeldBlock, HeldStop, HeldSignal, Aimed, Rejected, CheckHalt, Give,
           Accept, News, Forward, HoldHalt, DogGone, Cancel, Control, Crash, Resume
  <2> QED
    BY <2>1
<1> QED
  BY <1>1, <1>2 DEF Next, Loop, Work, Hold, Others

\* Every step keeps what the end of the run relies on.
LEMMA EndInvNext ==
  ASSUME TypeOK, CursorInv, PlaceInv, EndInv, [Next]_vars
  PROVE  EndInv'
<1> USE TargetFacts DEF TypeOK, RecordTypes, PlaceTypes, PointTypes, HaltTypes,
        CursorInv, PlaceInv, NoneLost, InOrder, EndInv, ExitTruth, Inside, Entering,
        Ending, Clear, Failing, Driving, store, ended, halts, sched, step
<1>1. CASE AtHead
  BY <1>1 DEF AtHead, StartDrain
<1>2. CASE Drain
  BY <1>2 DEF Drain, HaltEnded, Block
<1>3. CASE DrainDone
  BY <1>3 DEF DrainDone
<1>4. CASE LeaveOut
  <2>1. CASE Breaking
    BY <1>4, <2>1 DEF LeaveOut, StartDrain, Breaking
  <2>2. CASE ~Breaking /\ cursor \notin pending
    BY <1>4, <2>2 DEF LeaveOut
  <2>3. CASE ~Breaking /\ cursor \in pending
    <3>1. pc' = "head" /\ first' # 0 /\ UNCHANGED <<exit, status, stopped, halted, list,
        landed>>
      BY <1>4, <2>3 DEF LeaveOut
    <3> QED
      BY <1>4, <3>1 DEF LeaveOut
  <2> QED
    BY <2>1, <2>2, <2>3
<1>5. CASE EnterGone
  BY <1>5 DEF EnterGone, StartDrain, Admitted, DogGoneAt
<1>6. CASE StartPhase
  BY <1>6 DEF StartPhase, Admitted
<1>7. CASE Check
  BY <1>7 DEF Check
<1>8. CASE Checked
  BY <1>8 DEF Checked, DogGoneAt, EndPhase
<1>9. CASE StartStep
  BY <1>9 DEF StartStep
<1>10. CASE StepRefused
  BY <1>10 DEF StepRefused, DogGoneAt, EndPhase
<1>11. CASE StartLand
  BY <1>11 DEF StartLand
<1>12. CASE StepDone
  BY <1>12 DEF StepDone
<1>13. CASE StepDrain
  BY <1>13 DEF StepDrain, StartDrain
<1>14. CASE StepSignal
  BY <1>14 DEF StepSignal, HaltEnded, Block, EndPhase
<1>15. CASE StepOK
  BY <1>15 DEF StepOK, EndPhase
<1>16. CASE PhaseEnd
  BY <1>16 DEF PhaseEnd, StartDrain, Block
<1>17. CASE Boundary
  BY <1>17 DEF Boundary, StartDrain
<1>18. CASE PausedEnd
  BY <1>18 DEF PausedEnd, StartDrain, DogGoneAt
<1>19. CASE PausedContinue
  BY <1>19 DEF PausedContinue
<1>20. CASE Finish
  <2>1. CASE exit' = 0
    <3>1. ~stopped /\ halted' = None /\ halted = None /\ first = 0
      BY <1>20, <2>1 DEF Finish
    <3>2. pending = {} /\ blocked = {}
      BY <1>20, <3>1 DEF Finish
    <3>3. list = landed
      BY <1>20, <3>2 DEF Finish
    <3> QED
      BY <1>20, <2>1, <3>1, <3>2, <3>3 DEF Finish
  <2>2. CASE exit' # 0
    BY <1>20, <2>2 DEF Finish
  <2> QED
    BY <2>1, <2>2
<1>21. CASE LoopStops
  BY <1>21, StopOnly DEF Stop
<1>22. CASE LandOK
  BY <1>22 DEF LandOK, EndPhase
<1>23. CASE LandFailed
  BY <1>23 DEF LandFailed
<1>24. CASE HeldRestart
  BY <1>24 DEF HeldRestart, Attempt
<1>25. CASE HeldBlock
  BY <1>25 DEF HeldBlock, EndPhase
<1>26. CASE HeldStop
  BY <1>26 DEF HeldStop, EndPhase
<1>27. CASE HeldSignal
  BY <1>27 DEF HeldSignal, HaltEnded, Block, EndPhase
<1>28. CASE Crash
  BY <1>28 DEF Crash
<1>29. CASE Resume
  BY <1>29 DEF Resume, Remaining
<1>30. CASE StepStarted \/ RunnerEnd \/ Aimed \/ Rejected \/ CheckHalt \/
            Accept \/ DogGone \/
            Cancel \/ Control \/ UNCHANGED vars
  <2>1. UNCHANGED <<list, landed, pending, blocked, pc, ret, out, exit, status, stopped,
      halted, first>>
    BY <1>30 DEF vars, StepStarted, RunnerEnd, Aimed, Rejected, CheckHalt, Give,
           Accept, News, Forward, HoldHalt, DogGone, Cancel, Control
  <2> QED
    BY <2>1
<1> QED
  BY <1>1, <1>2, <1>3, <1>4, <1>5, <1>6, <1>7, <1>8, <1>9, <1>10, <1>11, <1>12, <1>13,
         <1>14, <1>15, <1>16, <1>17, <1>18, <1>19, <1>20, <1>21, <1>22, <1>23, <1>24,
         <1>25, <1>26, <1>27, <1>28, <1>29, <1>30 DEF Next, Loop, Work, Hold, Others

\* Where no call goes on, as many are under way as before.
LEMMA SettledSame == UNCHANGED call => Settled' = Settled
BY DEF Settled

\* Every step keeps the calls to halts that were given, and to a watchdog gone.
LEMMA CallInvNext ==
  ASSUME TypeOK, CallInv, [Next]_vars
  PROVE  CallInv'
<1> USE BoundsAssumption DEF TypeOK, RecordTypes, HaltTypes, CallInv, history
<1>1. CASE StepStarted
  <2>1. UNCHANGED <<given, gone>> /\ (UNCHANGED call \/ (gone /\ \E c : call' = [call EXCEPT ![0] = c]))
    BY <1>1 DEF StepStarted
  <2>2. \A i \in 1..MaxHalts : call'[i] = call[i]
    BY <2>1
  <2> QED
    BY <2>1, <2>2
<1>2. CASE Aimed \/ Rejected \/ CheckHalt
  <2>1. PICK c : Give(c)
    BY <1>2 DEF Aimed, Rejected, CheckHalt
  <2>2. /\ given' = given + 1 /\ given + 1 \in 1..MaxHalts /\ UNCHANGED gone
        /\ call' = [call EXCEPT ![given + 1] = c]
    BY <2>1 DEF Give
  <2> QED
    BY <2>2
<1>3. CASE News
  <2>1. gone /\ UNCHANGED <<given, gone>> /\ \E c : call' = [call EXCEPT ![0] = c]
    BY <1>3, CallTypes DEF News
  <2> QED
    BY <2>1
<1>4. CASE \E i \in 0..MaxHalts : Forward(i) \/ HoldHalt(i)
  <2>1. PICK i \in 0..MaxHalts : Forward(i) \/ HoldHalt(i)
    BY <1>4
  <2>2. call[i].stage \in {"forward", "hold"} /\ UNCHANGED <<given, gone>>
    BY <2>1 DEF Forward, HoldHalt
  <2>3. \E c : call' = [call EXCEPT ![i] = c]
    BY <2>1 DEF Forward, HoldHalt
  <2>4. call[i] # NoCall
    BY <2>2, CallTypes
  <2> QED
    BY <2>2, <2>3, <2>4
<1>5. CASE DogGone
  <2>1. gone' = TRUE /\ given' = given /\ (UNCHANGED call \/ \E c : call' = [call EXCEPT ![0] = c])
    BY <1>5 DEF DogGone
  <2>2. \A i \in 1..MaxHalts : call'[i] = call[i]
    BY <2>1
  <2> QED
    BY <2>1, <2>2
<1>6. CASE Resume
  <2>1. call' = [i \in 0..MaxHalts |-> NoCall]
    BY <1>6 DEF Resume
  <2> QED
    BY <2>1
<1>7. CASE AtHead \/ Drain \/ DrainDone \/ LeaveOut \/ EnterGone \/ StartPhase \/ Check \/
           Checked \/ StartStep \/ StepRefused \/ StartLand \/ StepDone \/ StepDrain \/
           StepSignal \/ StepOK \/ PhaseEnd \/ Boundary \/ PausedEnd \/ PausedContinue \/
           Finish \/ LoopStops \/ RunnerEnd \/ LandOK \/ LandFailed \/ Hold \/ Cancel \/
           Control \/ Crash \/ UNCHANGED vars
  <2>1. UNCHANGED <<call, given, gone>>
    BY <1>7, StopOnly
       DEF vars, watch, history, AtHead, Drain, DrainDone, LeaveOut, EnterGone,
           StartPhase, Check, Checked, StartStep, StepRefused, StartLand, StepDone,
           StepDrain, StepSignal, StepOK, PhaseEnd, Boundary, PausedEnd, PausedContinue,
           Finish, Stop, RunnerEnd, LandOK, LandFailed, Hold, HeldRestart, HeldBlock,
           HeldStop, HeldSignal, Cancel, Control, Crash
  <2> QED
    BY <2>1
<1> QED
  BY <1>1, <1>2, <1>3, <1>4, <1>5, <1>6, <1>7 DEF Next, Loop, Work, Others, Accept

\* No step loses the last trace of a halt.
LEMMA HaltInvNext ==
  ASSUME TypeOK, CursorInv, EndInv, CallInv, HaltInv, [Next]_vars
  PROVE  HaltInv'
<1> USE TargetFacts, QueuedKept, SettledSame DEF TypeOK, RecordTypes, PlaceTypes, PointTypes,
        HaltTypes, CursorInv, EndInv, HaltInv, HaltNotForgotten, ExitTruth, Inside, Entering, Ending,
        Clear, Failing, Driving, ended, watch, halts, sched, step,
        history
<1>1. CASE AtHead
  BY <1>1 DEF AtHead, StartDrain
<1>2. CASE Drain
  BY <1>2 DEF Drain, HaltEnded, Block
<1>3. CASE DrainDone
  BY <1>3 DEF DrainDone
<1>4. CASE LeaveOut
  BY <1>4 DEF LeaveOut, StartDrain
<1>5. CASE EnterGone
  BY <1>5 DEF EnterGone, StartDrain, Admitted, DogGoneAt
<1>6. CASE StartPhase
  BY <1>6 DEF StartPhase, Admitted
<1>7. CASE Check
  BY <1>7 DEF Check
<1>8. CASE Checked
  BY <1>8 DEF Checked, DogGoneAt, EndPhase
<1>9. CASE StartStep
  BY <1>9 DEF StartStep
<1>10. CASE StepRefused
  BY <1>10 DEF StepRefused, DogGoneAt, EndPhase
<1>11. CASE StartLand
  BY <1>11 DEF StartLand
<1>12. CASE StepDone
  BY <1>12 DEF StepDone
<1>13. CASE StepDrain
  BY <1>13 DEF StepDrain, StartDrain
<1>14. CASE StepSignal
  BY <1>14 DEF StepSignal, HaltEnded, Block, EndPhase
<1>15. CASE StepOK
  BY <1>15 DEF StepOK, EndPhase
<1>16. CASE PhaseEnd
  BY <1>16 DEF PhaseEnd, StartDrain, Block
<1>17. CASE Boundary
  BY <1>17 DEF Boundary, StartDrain
<1>18. CASE PausedEnd
  BY <1>18 DEF PausedEnd, StartDrain, DogGoneAt
<1>19. CASE PausedContinue
  BY <1>19 DEF PausedContinue
<1>20. CASE Finish
  BY <1>20 DEF Finish
<1>21. CASE LoopStops
  BY <1>21, StopOnly DEF Stop
<1>22. CASE StepStarted
  <2>1. slot # None \/ queue # <<>> => queue' # <<>>
    BY <1>22 DEF StepStarted
  <2>3. ~Settled => ~Settled'
    <3>1. CASE UNCHANGED call
      BY <3>1
    <3>2. CASE call[0] = NoCall /\ call' = [call EXCEPT ![0] = Call("news", cursor)]
      BY <3>2, CallTypes DEF Settled
    <3> QED
      BY <1>22, <3>1, <3>2 DEF StepStarted
  <2> QED
    BY <1>22, <2>1, <2>3 DEF StepStarted
<1>23. CASE LandOK
  BY <1>23 DEF LandOK, EndPhase
<1>24. CASE LandFailed
  BY <1>24 DEF LandFailed
<1>25. CASE HeldRestart
  BY <1>25 DEF HeldRestart, Attempt
<1>26. CASE HeldBlock
  BY <1>26 DEF HeldBlock, EndPhase
<1>27. CASE HeldStop
  BY <1>27 DEF HeldStop, EndPhase
<1>28. CASE HeldSignal
  BY <1>28 DEF HeldSignal, HaltEnded, Block, EndPhase
<1>29. CASE Aimed \/ Rejected
  <2>1. PICK t \in {"forward", "hold"} : \E h : Give(Call(t, h))
    BY <1>29 DEF Aimed, Rejected
  <2>2. PICK h : Give(Call(t, h))
    BY <2>1
  <2>3. /\ call' = [call EXCEPT ![given + 1] = Call(t, h)] /\ given + 1 \in 1..MaxHalts
        /\ given' = given + 1 /\ Driving
    BY <2>2, BoundsAssumption DEF Give
  <2>4. call'[given + 1].stage \in {"forward", "hold"}
    BY <2>3, CallTypes
  <2>5. ~Settled'
    BY <2>3, <2>4 DEF Settled
  <2>7. told' = (told \/ Listening) /\ (Ending => ~Listening)
    BY <1>29 DEF Aimed, Rejected, Listening
  <2>8. UNCHANGED <<pc, ret, out, exit, halted, nextHalt, first, batch>>
    BY <2>2 DEF Give
  <2> QED
    BY <2>3, <2>5, <2>7, <2>8
<1>30. CASE CheckHalt
  <2>1. /\ call' = [call EXCEPT ![given + 1] = Over] /\ given + 1 \in 1..MaxHalts
        /\ call[given + 1] = NoCall
        /\ UNCHANGED <<pc, ret, out, exit, told, halted, nextHalt, first, batch, queue,
                       slot, gone>>
    BY <1>30, BoundsAssumption DEF CheckHalt, Give, CallInv
  <2>2. ~Settled => ~Settled'
    BY <2>1, CallTypes DEF Settled
  <2> QED
    BY <2>1, <2>2
<1>31. CASE News
  <2>1. /\ call[0].stage = "news" /\ gone /\ Driving
        /\ UNCHANGED <<pc, ret, out, exit, halted, nextHalt, first, batch, queue, slot,
                       gone, given>>
    <3>1. 0 \in 0..MaxHalts /\ call[0].stage = "news" /\ Driving
      BY <1>31, BoundsAssumption DEF News
    <3>2. gone
      BY <3>1, CallTypes DEF CallInv
    <3> QED
      BY <1>31, <3>1, <3>2 DEF News
  <2>2. CASE call' = [call EXCEPT ![0] = Over] /\ UNCHANGED told
    <3>1. ~Settled => ~Settled'
      BY <2>1, <2>2 DEF Settled
    <3> QED
      BY <2>1, <2>2, <3>1
  <2>3. CASE /\ call' = [call EXCEPT ![0] = Call("forward", call[0].names)]
             /\ told' = (told \/ Listening)
    <3>1. ~Settled'
      <4>1. 0 \in 0..MaxHalts
        BY BoundsAssumption
      <4> QED
        BY <2>3, <4>1, CallTypes DEF Settled
    <3>2. Ending => ~Listening
      BY DEF Listening
    <3> QED
      BY <2>1, <2>3, <3>1, <3>2
  <2> QED
    BY <1>31, <2>2, <2>3 DEF News
<1>32. CASE DogGone
  <2>1. /\ gone' = TRUE /\ call[0] = NoCall
        /\ UNCHANGED <<pc, ret, out, exit, told, halted, nextHalt, first, batch, queue,
                       slot, given>>
        /\ call' = call \/ call' = [call EXCEPT ![0] = Call("news", cursor)]
    BY <1>32 DEF DogGone, CallInv
  <2>2. ~Settled => ~Settled'
    BY <2>1, CallTypes DEF Settled
  <2> QED
    BY <2>1, <2>2
<1>33. CASE Crash
  BY <1>33 DEF Crash
<1>34. CASE Resume
  BY <1>34 DEF Resume, Remaining
<1>35. CASE RunnerEnd \/ Cancel \/ Control \/ UNCHANGED vars
  <2>1. UNCHANGED <<pc, ret, out, exit, told, halted, nextHalt, first, batch, queue,
      slot, call, given, gone>>
    BY <1>35 DEF vars, RunnerEnd, Cancel, Control
  <2> QED
    BY <2>1
<1>36. CASE \E i \in 0..MaxHalts : Forward(i) \/ HoldHalt(i)
  <2>1. PICK i \in 0..MaxHalts : Forward(i) \/ HoldHalt(i)
    BY <1>36
  <2>2. /\ call[i].stage \in {"forward", "hold"} /\ Driving
        /\ UNCHANGED <<pc, ret, out, exit, told, halted, nextHalt, first, batch, given,
                       gone>>
        /\ \E c : call' = [call EXCEPT ![i] = c]
    BY <2>1 DEF Forward, HoldHalt
  <2>3. call[i].names \in Targets
    BY <2>2, CallTypes
  <2>5. queue' # <<>> \/ slot' # None \/ ~Settled'
    <3>1. CASE Forward(i)
      BY <3>1 DEF Forward
    <3>2. CASE HoldHalt(i) /\ slot' = call[i].names
      BY <2>3, <3>2
    <3>3. CASE HoldHalt(i) /\ call' = [call EXCEPT ![i] = Call("forward", call[i].names)]
      BY <3>3, CallTypes DEF Settled
    <3> QED
      BY <2>1, <3>1, <3>2, <3>3 DEF HoldHalt
  <2> QED
    BY <2>2, <2>5
<1> QED
  BY <1>1, <1>2, <1>3, <1>4, <1>5, <1>6, <1>7, <1>8, <1>9, <1>10, <1>11, <1>12, <1>13,
         <1>14, <1>15, <1>16, <1>17, <1>18, <1>19, <1>20, <1>21, <1>22, <1>23, <1>24,
         <1>25, <1>26, <1>27, <1>28, <1>29, <1>30, <1>31, <1>32, <1>33, <1>34, <1>35, <1>36
     DEF Next, Loop, Work, Hold, Others, Accept

-----------------------------------------------------------------------------
(* The theorems.                                                           *)

\* The invariant holds in every initial state, of the run's first process.
LEMMA InitInv == Init => IInv
<1> SUFFICES ASSUME Init PROVE IInv
  OBVIOUS
<1> USE TargetFacts DEF Init
<1>1. RecordTypes
  BY KAssumption, RestartsAssumption, BoundsAssumption DEF RecordTypes
<1>2. FlagTypes /\ HaltTypes /\ PlaceTypes /\ PointTypes
  <2>1. FlagTypes
    BY DEF FlagTypes
  <2>2. HaltTypes
    BY CallTypes DEF HaltTypes, None
  <2>3. PlaceTypes
    BY DEF PlaceTypes
  <2>4. PointTypes
    BY DEF PointTypes
  <2> QED
    BY <2>1, <2>2, <2>3, <2>4
<1>3. CursorInv /\ QueueInv
  BY CallTypes DEF CursorInv, QueueInv, Inside, Entering
<1>4. PlaceInv
  BY DEF PlaceInv, Disjoint, InOrder, NoneLost, AtCursor, Inside, Entering, Clear,
         Failing
<1>5. DepsInv
  BY DEF DepsInv, DepsPending, DepsCursor, DepsBefore, Inside
<1>6. EndInv /\ HaltInv
  BY DEF EndInv, HaltInv, ExitTruth, HaltNotForgotten, Ending, None
<1>7. CallInv
  BY BoundsAssumption DEF CallInv
<1> QED
  BY <1>1, <1>2, <1>3, <1>4, <1>5, <1>6, <1>7 DEF IInv, TypeOK

\* Every step of the loop, of the watchdog, of the maintainer, every crash and
\* every resume keeps the invariant.
LEMMA NextInv == IInv /\ [Next]_vars => IInv'
<1> SUFFICES ASSUME IInv, [Next]_vars PROVE IInv'
  OBVIOUS
<1>1. TypeOK'
  BY FlagNext, HaltNext, PlaceNext, PointNext, RecordNext DEF IInv, TypeOK
<1>2. CursorInv'
  BY CursorNext DEF IInv
<1>3. PlaceInv'
  <2>1. PlaceInv /\ TypeOK /\ CursorInv /\ QueueInv
    BY DEF IInv
  <2> QED
    BY <2>1, DisjointNext, InOrderNext, NoneLostNext, AtCursorNext DEF PlaceInv
<1>4. QueueInv'
  BY QueueInvNext DEF IInv, PlaceInv
<1>5. DepsInv'
  <2>1. DepsInv /\ TypeOK /\ CursorInv /\ PlaceInv
    BY DEF IInv
  <2> QED
    BY <2>1, DepsPendingNext, DepsCursorNext, DepsBeforeNext DEF DepsInv
<1>6. EndInv' /\ CallInv' /\ HaltInv'
  BY EndInvNext, CallInvNext, HaltInvNext DEF IInv
<1> QED
  BY <1>1, <1>2, <1>3, <1>4, <1>5, <1>6 DEF IInv

\* The inductive invariant is an invariant.
THEOREM Invariance == Spec => []IInv
  BY InitInv, NextInv, PTL DEF Spec

\* The state of the loop is always of its type; in particular no step is
\* restarted more than MaxRestarts times, whatever crashes and resumes.
THEOREM TypeCorrect == Spec => []TypeOK
<1>1. IInv => TypeOK
  BY DEF IInv
<1> QED
  BY <1>1, Invariance, PTL

\* The loop loses no phase and puts none in two places.
THEOREM PhasesAccounted == Spec => []Accounted
<1>1. IInv => Accounted
  BY DEF IInv, PlaceInv, Disjoint, NoneLost, Accounted
<1> QED
  BY <1>1, Invariance, PTL

\* A run that exits 0 has landed its whole run list and is recorded finished,
\* and only such a run is.
THEOREM ExitIsTrue == Spec => []ExitTruth
<1>1. IInv => ExitTruth
  BY DEF IInv, EndInv
<1> QED
  BY <1>1, Invariance, PTL

\* No halt given before the loop's last look is forgotten.
THEOREM NoHaltForgotten == Spec => []HaltNotForgotten
<1>1. IInv => HaltNotForgotten
  BY DEF IInv, HaltInv
<1> QED
  BY <1>1, Invariance, PTL

\* Phases land after the phases they depend on.
THEOREM DependenciesLandFirst == Spec => []DepsBefore
<1>1. IInv => DepsBefore
  BY DEF IInv, DepsInv
<1> QED
  BY <1>1, Invariance, PTL

\* Only the phase at the cursor lands, and only if nothing has blocked it.
THEOREM NoBlockedLanding == Spec => BlockedNeverLands
<1> DEFINE A == \A p \in landed' \ landed : p \notin blocked /\ p = cursor
<1>1. IInv /\ [Next]_vars => [A]_vars
  <2> SUFFICES ASSUME IInv, Next, NEW p \in landed' \ landed
               PROVE  p \notin blocked /\ p = cursor
    OBVIOUS
  <2>1. CASE LandOK
    BY <2>1 DEF LandOK, IInv, PlaceInv, AtCursor, Clear
  <2>2. CASE ~LandOK
    <3>1. landed' = landed
      BY <2>2, StopOnly
         DEF Next, Loop, Work, Hold, Others, store, AtHead, Drain, DrainDone,
             LeaveOut, EnterGone, StartPhase, Check, Checked, StartStep, StepRefused,
             StartLand, StepDone, StepDrain, StepSignal, StepOK, PhaseEnd, Boundary,
             PausedEnd, PausedContinue, Finish, Stop, StepStarted, RunnerEnd,
             LandFailed, HeldRestart, HeldBlock, HeldStop, HeldSignal, Aimed, Rejected, CheckHalt, Give,
             Accept, News, Forward, HoldHalt, DogGone, Cancel, Control, Crash, Resume
    <3> QED
      BY <3>1
  <2> QED
    BY <2>1, <2>2
<1> QED
  BY <1>1, Invariance, PTL DEF Spec, BlockedNeverLands

=============================================================================
