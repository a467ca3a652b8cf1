----------------------------- MODULE StepWatch -----------------------------
(***************************************************************************)
(* The watch over the agent of one step (waitAll and tick in               *)
(* internal/core/session.go), with what three threads of the driver record *)
(* and show of the step meanwhile: the runner, which ticks, nudges a       *)
(* silent agent, reviews and ends the step; the threads of its questions;  *)
(* and the loop, which may halt it and shows its end.                      *)
(*                                                                         *)
(* Time is counted in ticks.  What runs inside Session.live holds the lock *)
(* of the session until its tag is done.                                   *)
(***************************************************************************)
EXTENDS Panel

CONSTANTS
  Grace,      \* ticks without activity before a nudge (StallGrace)
  TornGrace,  \* ticks a malformed sentinel may take to be whole (sentinelGrace)
  Backstops,  \* bound: what a step's row may give it, in ticks; 0 is no limit
  MaxNudges,  \* maxNudges, 3 in the code
  Background, \* bound: what hooks may say, that work goes on in the background or not
  Gone,       \* bound: how a pane may go, finish or close
  MaxAsks,    \* bound: questions and dialogs of the step
  MaxRounds,  \* the rounds of its review
  Worker,     \* the terminal of the worker
  Reviewer    \* the terminal of a reviewer

ASSUME WatchAssumption ==
  /\ Grace \in Nat \ {0} /\ TornGrace \in Nat /\ Backstops \subseteq Nat
  /\ MaxNudges \in Nat /\ Background \subseteq BOOLEAN /\ Gone \subseteq {"finish", "close"}
  /\ MaxAsks \in Nat /\ MaxRounds \in Nat
  /\ Worker \in Terminals /\ Reviewer \in Terminals /\ Worker # Reviewer
  /\ Home[Worker] = RunSpace /\ Home[Reviewer] = RunSpace
  /\ Writers = {"runner", "asker", "loop"}

VARIABLES
  pc,        \* where the runner is
  round,     \* its review round
  result,    \* the outcome of the runner, or None
  watch,     \* the watch of the worker
  look,      \* what the tick under way read: the agent's state, and its background
  placed,    \* the session has a workspace
  known,     \* the loop knows of the session (l.live)
  ended,     \* Session.ended
  open,      \* questions and dialogs open (l.open, Session.OpenQuestion)
  dialog,    \* one of them is a dialog of the worker
  asks,      \* questions and dialogs so far
  record,    \* store: the step's last record
  loop,      \* where the loop is with the step
  does,      \* the agent: working, idle, blocked or gone
  turn,      \* a turn of it has ended since a tick saw one end
  sentinel,  \* its sentinel file: none, torn, ok or failed
  hooks,     \* its hooks report (hookTurn: seen)
  backstop   \* the row's timeout

session == <<placed, known, ended>>
asking  == <<open, dialog, asks>>
row     == <<hooks, backstop>>
worker  == <<does, turn, sentinel, row>>
vars    == <<panel, pc, round, result, watch, look, session, asking,
             record, loop, worker>>

NewWatch == [quiet |-> 0, elapsed |-> 0, stalled |-> FALSE, nudged |-> FALSE,
             nudges |-> 0, okFor |-> 0, tornFor |-> 0]

NoLook == [agent |-> "idle", background |-> FALSE]

Over(state) == state \in {"ok", "failed"}

\* recordState: a step that ended is not recorded again.
RecordState(state) == record' = IF Over(record) THEN record ELSE state

\* stepState: appended whatever stands there.
StepState(state) == record' = state

\* A bug: the lock of the session is released before the tag.
EmitUnlocked(w, state, half, locked) ==
  tags' = [tags EXCEPT ![w] = Started(Tokens(state, half), FALSE)]

\* emitStep, emitRound, emitHalf: the event, and the tag of the space.
Emit(w, state, half, locked) ==
  tags' = [tags EXCEPT ![w] = Started(Tokens(state, half), locked)]

\* The runner at a place of its, its last tag done.
At(place) == pc = place /\ Idle("runner")

\* The watch is waitAll's, the look a tick's: neither outlives it.
Unwatched == watch' = NewWatch /\ look' = NoLook

\* An outcome: the runner goes on to Finish.
Ends(state) == result' = state /\ pc' = "finish" /\ Unwatched

\* The next tick.
Ticks == pc' = "tick" /\ look' = NoLook

-----------------------------------------------------------------------------
(* The runner: the start of a step.                                        *)

Init ==
  /\ term = [t \in Terminals |-> IF t \in {Worker, Reviewer} THEN "none" ELSE "live"]
  /\ agent = [t \in Terminals |-> Home[t] # RunSpace]
  /\ text = [t \in Terminals |-> ""] /\ wait = [t \in Terminals |-> FALSE]
  /\ tags = [w \in Writers |-> None] /\ warned = FALSE
  /\ pc = "spawn" /\ round = 0 /\ result = None
  /\ watch = NewWatch /\ look = NoLook
  /\ placed = FALSE /\ known = FALSE /\ ended = FALSE
  /\ open = 0 /\ dialog = FALSE /\ asks = 0
  /\ record = "queued" /\ loop = "runs"
  /\ does = "idle" /\ turn = FALSE /\ sentinel = "none"
  /\ hooks \in BOOLEAN /\ backstop \in Backstops

\* Spawn: the step is recorded, and its workspace opened.
SpawnOpens ==
  /\ At("spawn")
  /\ \/ /\ OpenPane(Worker)
        /\ placed' = TRUE
        /\ RecordState("spawned")
        /\ pc' = "start"
        /\ UNCHANGED result
     \/ Ends("failed") /\ UNCHANGED <<term, placed, record>>
  /\ UNCHANGED <<agent, text, wait, tags, warned, round, watch, look, known,
                 ended, asking, loop, worker>>

\* Spawn: its agent starts and is prompted, and the step is recorded running,
\* unless it has ended, which ends the runner too.
SpawnStarts ==
  /\ At("start")
  /\ \/ /\ StartAgent(Worker)
        /\ does' = "working"
        /\ RecordState("running")
        /\ IF Over(record) THEN Ends("failed") ELSE pc' = "started" /\ UNCHANGED result
     \/ /\ StartAgent(Worker) \/ UNCHANGED agent
        /\ Ends("failed")
        /\ UNCHANGED <<does, record>>
  /\ UNCHANGED <<term, text, wait, tags, warned, round, watch, look, session,
                 asking, loop, turn, sentinel, row>>

\* Started: the loop knows of the session before it shows that the step runs.
StartedKnown ==
  /\ At("started") /\ ~known
  /\ known' = TRUE
  /\ UNCHANGED <<panel, pc, round, result, watch, look, placed, ended, asking,
                 record, loop, worker>>

StartedShown ==
  /\ At("started") /\ known
  /\ Emit("runner", "running", "working", FALSE)
  /\ pc' = "tick"
  /\ UNCHANGED <<screen, warned, round, result, watch, look, session, asking,
                 record, loop, worker>>

-----------------------------------------------------------------------------
(* The runner: a tick of waitAll, up to its look at open questions.        *)

\* waitAll: a step that is halted, or whose run is stopped, is interrupted, unless a tick
\* comes first.
Interrupted ==
  /\ At("tick") /\ loop \in {"halted", "stops"}
  /\ Ends("failed")
  /\ UNCHANGED <<panel, round, session, asking, record, loop,
                 worker>>

\* judge: the step is done, or goes to the next round of its review; or the
\* evidence is missing.
Judge ==
  \/ Ends("ok")
  \/ round < MaxRounds /\ pc' = "review" /\ Unwatched /\ UNCHANGED result
  \/ Ends("failed")

\* Host.State: what the agent does, if the host tells; it may know of no state of an
\* agent that is there, and the call may fail.
Reads == {does, "error"} \cup IF does = "gone" THEN {} ELSE {"unknown"}

\* settle: an agent that says ok is judged once its turn is over, or has gone on
\* for a grace, or its state cannot be had.
Settles ==
  /\ At("tick") /\ sentinel = "ok"
  /\ \/ \E read \in Reads : read \in {"idle", "gone", "error"}
     \/ watch.okFor >= Grace
  /\ Judge
  /\ UNCHANGED <<panel, round, session, asking, record, loop,
                 worker>>

\* tick: the agent says that it failed, its sentinel stays malformed, it is gone, or the
\* call for its state times out.
Fails ==
  /\ At("tick")
  /\ \/ sentinel = "failed"
     \/ sentinel = "torn" /\ watch.tornFor >= TornGrace
     \/ sentinel # "ok" /\ \E read \in Reads : read \in {"gone", "error"}
  /\ Ends("failed")
  /\ UNCHANGED <<panel, round, session, asking, record, loop,
                 worker>>

\* Every other tick: whether the agent is settling or not, its sentinel ages.
Aged ==
  IF sentinel = "ok" THEN [watch EXCEPT !.okFor = @ + 1]
  ELSE IF sentinel = "torn" THEN [watch EXCEPT !.tornFor = @ + 1]
  ELSE watch

Waits(read) ==
  /\ At("tick") /\ read \in Reads
  /\ IF sentinel = "ok"
       THEN /\ read \in {"working", "blocked", "unknown"} /\ watch.okFor < Grace
            /\ ~(hooks /\ does = "idle")
       ELSE /\ sentinel # "failed" /\ read # "gone"
            /\ ~(sentinel = "torn" /\ watch.tornFor >= TornGrace)

\* After a settling tick nothing follows; after another, the look at questions.
GoesOn(read) ==
  IF sentinel = "ok" THEN Ticks
  ELSE /\ pc' = "asked"
       /\ look' = [NoLook EXCEPT !.agent = IF read = "error" THEN "unknown" ELSE read]

\* Blocked: a dialog is open, or is raised; the clocks start again.
Dialog ==
  /\ Waits("blocked") /\ known
  /\ \/ dialog /\ UNCHANGED <<asking, record, tags>>
     \/ /\ ~dialog /\ ~ended /\ Unlocked /\ asks < MaxAsks
        /\ dialog' = TRUE /\ open' = open + 1 /\ asks' = asks + 1
        /\ IF open = 0
           THEN StepState("waiting-input") /\ Emit("runner", "waiting-input", "working", TRUE)
           ELSE UNCHANGED <<record, tags>>
  /\ watch' = [Aged EXCEPT !.quiet = IF sentinel = "ok" THEN @ ELSE 0,
                           !.stalled = @ /\ sentinel = "ok"]
  /\ UNCHANGED <<screen, warned, pc, round, result, look, session, loop, worker>>

\* release: the last answer has the step running again.
Release(w) ==
  /\ open' = open - 1
  /\ IF open = 1
     THEN StepState("running") /\ Emit(w, "running", "working", TRUE)
     ELSE UNCHANGED <<record, tags>>

\* Unblocked: the dialog is gone from the pane.
Withdraws ==
  /\ dialog /\ ~ended /\ Unlocked
  /\ \E read \in {"working", "idle"} : Waits(read) /\ GoesOn(read)
  /\ dialog' = FALSE
  /\ Release("runner")
  /\ watch' = Aged
  /\ UNCHANGED <<screen, warned, round, result, session, asks, loop, worker>>

\* No dialog comes or goes: there is none, or its session has ended, or its
\* screen is one that was answered or cannot be read; or the agent's state is not had.
Looks ==
  /\ \E read \in Reads :
       /\ Waits(read)
       /\ dialog => read \in {"unknown", "error"} \/ (ended /\ read # "blocked")
       /\ GoesOn(read)
  /\ watch' = Aged
  /\ UNCHANGED <<panel, round, result, session, asking, record, loop, worker>>

-----------------------------------------------------------------------------
(* The runner: what a tick decides.                                        *)

\* An open question stops the clocks.
Asked ==
  /\ At("asked")
  /\ IF open > 0 THEN Ticks /\ UNCHANGED watch
     ELSE /\ pc' = "decide" /\ UNCHANGED look
          /\ watch' = [watch EXCEPT !.elapsed = IF backstop = 0 THEN 0 ELSE @ + 1]
  /\ UNCHANGED <<panel, round, result, session, asking, record, loop,
                 worker>>

Backstopped ==
  /\ At("decide")
  /\ backstop > 0 /\ watch.elapsed > backstop
  /\ Ends("failed")
  /\ UNCHANGED <<panel, round, session, asking, record, loop,
                 worker>>

\* The hooks tell of a turn that ended, and was not seen to.
TurnEnded == hooks /\ turn /\ does \in {"idle", "gone"}

InTime == At("decide") /\ (backstop = 0 \/ watch.elapsed <= backstop)

\* The hooks tell that work goes on in the background, or not.
Hears(background) == look' = [look EXCEPT !.background = background]

\* The turn answered a nudge, by an act of the agent's or by work in the
\* background: the step is running again, and the tick goes on.
Answered ==
  /\ InTime /\ TurnEnded /\ watch.nudged
  /\ \E b \in Background : Hears(b)
  /\ turn' = FALSE
  /\ watch' = [watch EXCEPT !.nudged = FALSE, !.quiet = 0, !.stalled = FALSE]
  /\ IF watch.stalled THEN RecordState("running") /\ Emit("runner", "running", "working", FALSE)
     ELSE UNCHANGED <<record, tags>>
  /\ pc' = "switch"
  /\ UNCHANGED <<screen, warned, round, result, session, asking, loop, does,
                 sentinel, row>>

\* A bug: a nudge may be given again, however often it was.
StallUncounted(at) ==
  /\ watch' = [watch EXCEPT !.stalled = TRUE, !.nudged = TRUE, !.quiet = 0, !.nudges = 0]
  /\ RecordState("stalled")
  /\ Emit("runner", "stalled", "working", FALSE)
  /\ pc' = at
  /\ UNCHANGED result

\* stallAndNudge: the step is shown stalled before its agent is prompted; when
\* no nudge is left, it fails.
Stall(at) ==
  \/ /\ watch.nudges < MaxNudges
     /\ watch' = [watch EXCEPT !.stalled = TRUE, !.nudged = TRUE, !.quiet = 0]
     /\ RecordState("stalled")
     /\ Emit("runner", "stalled", "working", FALSE)
     /\ pc' = at
     /\ UNCHANGED result
  \/ /\ watch.nudges >= MaxNudges
     /\ IF at = "nudge" THEN Ends("failed") ELSE pc' = "gate" /\ UNCHANGED <<watch, result>>
     /\ UNCHANGED <<record, tags>>

\* The turn did nothing for the step: it is nudged, or fails if it was.
Unanswered ==
  /\ InTime /\ TurnEnded /\ FALSE \in Background
  /\ look' = NoLook
  /\ turn' = FALSE
  /\ \/ ~watch.nudged /\ Stall("nudgeTurn")
     \/ watch.nudged /\ Ends("failed") /\ UNCHANGED <<record, tags>>
  /\ UNCHANGED <<screen, warned, round, session, asking, loop, does, sentinel,
                 row>>

\* The last nudge was given: the step fails, unless a new turn has begun.
GateCheck ==
  /\ At("gate")
  /\ IF does = "idle" THEN Ends("failed") ELSE Ticks /\ UNCHANGED <<watch, result>>
  /\ UNCHANGED <<panel, round, session, asking, record, loop,
                 worker>>

\* No turn ended; or one did that no nudge called for, and work goes on in the
\* background.
NoTurn ==
  /\ InTime
  /\ \E b \in Background :
       /\ ~TurnEnded \/ (b /\ ~watch.nudged)
       /\ Hears(b)
  /\ turn' = (turn /\ ~TurnEnded)
  /\ pc' = "switch"
  /\ UNCHANGED <<panel, round, result, watch, session, asking, record, loop,
                 does, sentinel, row>>

\* The agent works: it is not silent, and a stalled step is running again.
SeenWorking ==
  /\ At("switch") /\ look.agent = "working"
  /\ watch' = [watch EXCEPT !.quiet = 0, !.stalled = FALSE]
  /\ IF watch.stalled THEN RecordState("running") /\ Emit("runner", "running", "working", FALSE)
     ELSE UNCHANGED <<record, tags>>
  /\ Ticks
  /\ UNCHANGED <<screen, warned, round, result, session, asking, loop,
                 worker>>

\* How long it may be silent.
Limit == IF look.background THEN 3 * Grace ELSE Grace

SeenQuiet ==
  /\ At("switch") /\ look.agent \in {"idle", "blocked"} /\ watch.quiet + 1 < Limit
  /\ watch' = [watch EXCEPT !.quiet = @ + 1]
  /\ Ticks
  /\ UNCHANGED <<panel, round, result, session, asking, record, loop,
                 worker>>

\* The agent's state is not had: its clock does not run, and does not start again.
SeenNothing ==
  /\ At("switch") /\ look.agent = "unknown"
  /\ Ticks
  /\ UNCHANGED <<panel, round, result, watch, session, asking, record, loop, worker>>

\* A bug: an agent that leaves its nudge unanswered is waited for.
SeenSilentAgain ==
  /\ At("switch") /\ look.agent \in {"idle", "blocked"} /\ watch.quiet + 1 >= Limit
  /\ look' = NoLook
  /\ IF watch.stalled \/ (hooks /\ watch.nudged)
     THEN Ticks /\ UNCHANGED <<watch, result, record, tags>>
     ELSE Stall("nudge")
  /\ UNCHANGED <<screen, warned, round, session, asking, loop, worker>>

\* It was silent for longer: it is nudged, or fails if it was.
SeenSilent ==
  /\ At("switch") /\ look.agent \in {"idle", "blocked"} /\ watch.quiet + 1 >= Limit
  /\ look' = NoLook
  /\ IF watch.stalled \/ (hooks /\ watch.nudged)
     THEN Ends("failed") /\ UNCHANGED <<record, tags>>
     ELSE Stall("nudge")
  /\ UNCHANGED <<screen, warned, round, session, asking, loop, worker>>

\* The nudge reaches the agent, which may take it up.
Nudged ==
  /\ \/ At("nudge") /\ does # "gone"
     \/ At("nudgeTurn") /\ does = "idle"
  /\ watch' = [watch EXCEPT !.nudges = @ + 1]
  /\ does' \in {does, "working"}
  /\ Ticks
  /\ UNCHANGED <<panel, round, result, session, asking, record, loop,
                 turn, sentinel, row>>

\* A turn has begun meanwhile: there is nothing to nudge for.
NudgeLate ==
  /\ At("nudgeTurn") /\ does \in {"working", "blocked"}
  /\ watch' = [watch EXCEPT !.nudged = FALSE, !.stalled = FALSE]
  /\ RecordState("running")
  /\ Emit("runner", "running", "working", FALSE)
  /\ Ticks
  /\ UNCHANGED <<screen, warned, round, result, session, asking, loop,
                 worker>>

NudgeFails ==
  /\ At("nudge") \/ At("nudgeTurn")
  /\ Ends("failed")
  /\ UNCHANGED <<panel, round, session, asking, record, loop,
                 worker>>

-----------------------------------------------------------------------------
(* The runner: its review, and its end.                                    *)

\* A round begins.
ReviewShown ==
  /\ At("review")
  /\ round' = round + 1
  /\ Emit("runner", "running", "review", FALSE)
  /\ pc' = "close"
  /\ UNCHANGED <<screen, warned, result, watch, look, session, asking, record,
                 loop, worker>>

\* open: the panes of the round before are closed.
ReviewCloses ==
  /\ At("close")
  /\ \/ ClosePane(Reviewer) /\ pc' = "open" /\ UNCHANGED result
     \/ Ends("failed") /\ UNCHANGED screen
  /\ UNCHANGED <<tags, warned, round, watch, look, session, asking,
                 record, loop, worker>>

ReviewOpens ==
  /\ At("open")
  /\ \/ OpenPane(Reviewer) /\ pc' = "launch" /\ UNCHANGED result
     \/ Ends("failed") /\ UNCHANGED term
  /\ UNCHANGED <<agent, text, wait, tags, warned, round, watch, look, session,
                 asking, record, loop, worker>>

\* launch, prompt: the reviewer starts; the worker's own clocks do not run.
ReviewLaunches ==
  /\ At("launch")
  /\ \/ StartAgent(Reviewer) /\ pc' = "reviewing" /\ UNCHANGED result
     \/ Ends("failed") /\ UNCHANGED agent
  /\ UNCHANGED <<term, text, wait, tags, warned, round, watch, look, session, asking, record,
                 loop, worker>>

\* The reviewers end: one failed, or nothing was found, or there is something to
\* fix.
Reviewed ==
  /\ At("reviewing")
  /\ \/ \E state \in {"ok", "failed"} : Ends(state)
     \/ pc' = "fix" /\ UNCHANGED result
  /\ UNCHANGED <<panel, round, watch, look, session, asking, record, loop, worker>>

FixShown ==
  /\ At("fix")
  /\ Emit("runner", "running", "fixing", FALSE)
  /\ pc' = "prompt"
  /\ UNCHANGED <<screen, warned, round, result, watch, look, session, asking,
                 record, loop, worker>>

\* fix: the worker is prompted, with a sentinel and a watch of its own.
FixPrompts ==
  /\ At("prompt")
  /\ \/ /\ does = "idle" /\ does' = "working"
        /\ sentinel' = "none"
        /\ watch' = NewWatch
        /\ pc' = "tick"
        /\ UNCHANGED result
     \/ Ends("failed") /\ UNCHANGED <<does, sentinel, watch>>
  /\ UNCHANGED <<panel, round, look, session, asking, record, loop, turn, row>>

\* A bug: the session is ended beside its lock.
FinishEndsAtOnce ==
  /\ At("finish")
  /\ ended' = TRUE
  /\ pc' = "record"
  /\ UNCHANGED <<panel, round, result, watch, look, placed, known, asking, record,
                 loop, worker>>

\* Finish: the session ends, once nobody holds its lock.
FinishEnds ==
  /\ At("finish") /\ Unlocked
  /\ ended' = TRUE
  /\ pc' = "record"
  /\ UNCHANGED <<panel, round, result, watch, look, placed, known, asking, record,
                 loop, worker>>

\* terminal, commit: a step recorded as ended stands; the commit of an ok step
\* may fail.
FinishChecks ==
  /\ At("record")
  /\ IF Over(record) THEN result' = record /\ pc' = "done"
     ELSE result' \in {result, "failed"} /\ pc' = "recorded"
  /\ UNCHANGED <<panel, round, watch, look, session, asking, record, loop, worker>>

FinishRecords ==
  /\ At("recorded")
  /\ RecordState(result)
  /\ result' = record'
  /\ pc' = "done"
  /\ UNCHANGED <<panel, round, watch, look, session, asking, loop, worker>>

Runner ==
  \/ SpawnOpens \/ SpawnStarts \/ StartedKnown \/ StartedShown
  \/ Interrupted \/ Settles \/ Fails \/ Dialog \/ Withdraws \/ Looks
  \/ Asked \/ Backstopped \/ Answered \/ Unanswered \/ GateCheck \/ NoTurn
  \/ SeenWorking \/ SeenQuiet \/ SeenSilent \/ SeenNothing
  \/ Nudged \/ NudgeLate \/ NudgeFails
  \/ ReviewShown \/ ReviewCloses \/ ReviewOpens \/ ReviewLaunches \/ Reviewed
  \/ FixShown \/ FixPrompts \/ FinishEnds \/ FinishChecks \/ FinishRecords

-----------------------------------------------------------------------------
(* The threads of its questions.                                           *)

\* question: while the session is live, a question of its agent is counted, and
\* the first has the step waiting for input.
Admit ==
  /\ Idle("asker") /\ known /\ ~ended /\ Unlocked
  /\ asks < MaxAsks
  /\ asks' = asks + 1 /\ open' = open + 1
  /\ IF open = 0
     THEN StepState("waiting-input") /\ Emit("asker", "waiting-input", "working", TRUE)
     ELSE UNCHANGED <<record, tags>>
  /\ UNCHANGED <<screen, warned, pc, round, result, watch, look, session, dialog,
                 loop, worker>>

Questions == open - (IF dialog THEN 1 ELSE 0)

\* hand, undeliverable: the answer is typed to the agent, or cannot be.
AnswerQuestion ==
  /\ Idle("asker") /\ ~ended /\ Unlocked
  /\ Questions > 0
  /\ Release("asker")
  /\ does' \in IF does = "idle" THEN {"idle", "working"} ELSE {does}
  /\ UNCHANGED <<screen, warned, pc, round, result, watch, look, session, dialog,
                 asks, loop, turn, sentinel, row>>

\* A bug: the dialog is not claimed by who presses its keys.
AnswerDialogUnclaimed ==
  /\ Idle("asker") /\ ~ended /\ Unlocked
  /\ dialog /\ UNCHANGED dialog
  /\ Release("asker")
  /\ does' \in IF does = "blocked" THEN {"blocked", "working"} ELSE {does}
  /\ UNCHANGED <<screen, warned, pc, round, result, watch, look, session, asks,
                 loop, turn, sentinel, row>>

\* DeliverKeys: the keys are pressed, and the dialog is gone, or it was gone.
AnswerDialog ==
  /\ Idle("asker") /\ ~ended /\ Unlocked
  /\ dialog
  /\ dialog' = FALSE
  /\ Release("asker")
  /\ does' \in IF does = "blocked" THEN {"blocked", "working"} ELSE {does}
  /\ UNCHANGED <<screen, warned, pc, round, result, watch, look, session, asks,
                 loop, turn, sentinel, row>>

-----------------------------------------------------------------------------
(* The loop: it waits for the runner, and may halt the step.               *)

\* A halt ends the session, when the loop knows of it, and records the step
\* failed; a step that had ended is waited for.
Halt ==
  /\ loop = "runs"
  /\ known => Unlocked
  /\ ended' = (ended \/ known)
  /\ RecordState("failed")
  /\ loop' = IF Over(record) THEN "waits" ELSE "halted"
  /\ UNCHANGED <<panel, pc, round, result, watch, look, placed, known, asking,
                 worker>>

\* stopStep: the run is aborted or interrupted; the runner is cancelled and waited
\* for.
StopStep ==
  /\ loop = "runs"
  /\ loop' = "stops"
  /\ UNCHANGED <<panel, pc, round, result, watch, look, session, asking, record, worker>>

\* The end of the step is shown, with the outcome of the halt or the runner's.
LoopEnd ==
  /\ pc = "done" /\ loop \in {"runs", "stops", "halted", "waits"}
  /\ result' = IF loop = "halted" THEN "failed" ELSE result
  /\ IF placed THEN Emit("loop", result', "working", FALSE) ELSE UNCHANGED tags
  /\ loop' = "shown"
  /\ UNCHANGED <<screen, warned, pc, round, watch, look, session, asking, record,
                 worker>>

\* withdrawStep: what its agent still asks is withdrawn.
Withdraw ==
  /\ loop = "shown" /\ Idle("loop")
  /\ open' = 0 /\ dialog' = FALSE
  /\ loop' = "over"
  /\ UNCHANGED <<panel, pc, round, result, watch, look, session, asks, record,
                 worker>>

-----------------------------------------------------------------------------
(* The agents, and whoever is at the terminals.                            *)

\* A turn begins or ends, or a dialog comes or goes, until nobody looks at it.
Turns ==
  /\ Tagged(Worker) /\ result = None
  /\ \/ does = "idle" /\ does' = "working" /\ UNCHANGED turn
     \/ does = "working" /\ does' = "idle" /\ turn' = hooks
     \/ does = "working" /\ does' = "blocked" /\ UNCHANGED turn
     \/ does = "blocked" /\ does' = "working" /\ UNCHANGED turn
  /\ UNCHANGED <<panel, pc, round, result, watch, look, session, asking, record,
                 loop, sentinel, row>>

\* It says how its step ended, in one write or with a part to be seen first.
Says ==
  /\ does = "working" /\ result = None
  /\ \/ sentinel = "none" /\ sentinel' \in {"torn", "ok", "failed"}
     \/ sentinel = "torn" /\ sentinel' \in {"ok", "failed"}
  /\ UNCHANGED <<panel, pc, round, result, watch, look, session, asking, record,
                 loop, does, turn, row>>

\* The program in a pane ends, or the pane is closed.
Goes(t) == ("finish" \in Gone /\ Finish(t)) \/ ("close" \in Gone /\ ClosePane(t))

WorkerGone ==
  /\ Tagged(Worker) /\ loop # "over"
  /\ Goes(Worker)
  /\ does' = "gone"
  /\ UNCHANGED <<tags, warned, pc, round, result, watch, look, session, asking,
                 record, loop, turn, sentinel, row>>

ReviewerGone ==
  /\ Tagged(Reviewer) /\ loop # "over"
  /\ Goes(Reviewer)
  /\ UNCHANGED <<tags, warned, pc, round, result, watch, look, session, asking,
                 record, loop, worker>>

Tagging ==
  /\ \E w \in Writers : Tag(w)
  /\ UNCHANGED <<pc, round, result, watch, look, session, asking, record, loop,
                 worker>>

\* A step that is over stays so.
Ended == loop = "over" /\ UNCHANGED vars

Next ==
  \/ Runner \/ Tagging
  \/ Admit \/ AnswerQuestion \/ AnswerDialog
  \/ Halt \/ StopStep \/ LoopEnd \/ Withdraw
  \/ Turns \/ Says \/ WorkerGone \/ ReviewerGone
  \/ Ended

Spec == Init /\ [][Next]_vars

\* The threads of the driver go on; the agent, the halt and the answers need not
\* come.
Fairness ==
  /\ WF_vars(Runner)
  /\ \A w \in Writers : WF_vars(Tag(w) /\ Tagging)
  /\ WF_vars(LoopEnd) /\ WF_vars(Withdraw)

FairSpec == Spec /\ Fairness

-----------------------------------------------------------------------------
(* Properties.                                                             *)

Watches == [quiet : 0..(3 * Grace), elapsed : Nat, stalled : BOOLEAN, nudged : BOOLEAN,
            nudges : 0..MaxNudges, okFor : 0..Grace, tornFor : 0..TornGrace]

\* The values of the variables: the counters stay within their limits, and a
\* step whose session asks nothing has no dialog.
TypeOK ==
  /\ term \in [Terminals -> States] /\ agent \in [Terminals -> BOOLEAN]
  /\ text \in [Terminals -> Texts] /\ wait \in [Terminals -> BOOLEAN]
  /\ \A w \in Writers : Idle(w) \/ tags[w].left \subseteq Terminals
  /\ watch \in Watches /\ watch.elapsed <= backstop + 1
  /\ open \in 0..MaxAsks /\ asks \in 0..MaxAsks /\ (dialog => open > 0)
  /\ round \in 0..MaxRounds
  /\ result \in {None, "ok", "failed"}
  /\ record \in {"queued", "spawned", "running", "waiting-input", "stalled", "ok", "failed"}
  /\ does \in {"working", "idle", "blocked", "gone"}

\* While no tag is under way and none failed, the panel says that the step waits
\* only if something of it is open ("rloop_wait is set only while the step waits
\* for input", tech-design.md:145), in whatever order the tags of the runner, the
\* question threads and the loop went over the terminals.
RowTells ==
  (~warned /\ \A w \in Writers : Idle(w)) =>
    (Shows(RunSpace) = "waiting" => open > 0)

\* Once the loop is done with a step whose worker is still there, the panel shows
\* the outcome and no wait: no thread of the step tags over the loop's last tag
\* (runStep, loop.go:1140-1200, after Finish ended the session under its lock).
FinalShown ==
  (loop = "over" /\ Tagged(Worker) /\ ~warned /\ \A w \in Writers : Idle(w)) =>
    Shows(RunSpace) = IF result = "ok" THEN "done" ELSE "failed"

\* The row has a timeout, or a tick reads the agent's state and gets as far as the
\* stall clock.
Clocked == backstop > 0 \/ (pc = "switch" /\ look.agent # "unknown")

\* A step whose agent works no more and that has nothing open comes to its end: by the
\* timeout of its row, or, if it has none, by the stall clock, which loses nothing when
\* the host fails to tell the agent's state now and then (tick and stallAndNudge,
\* session.go:635-698).  Where it never tells, and there is no timeout, nothing ends it.
SilentEnds ==
  (<>[](does # "working" /\ open = 0) /\ []<>Clocked) => <>(loop = "over")

\* No agent is nudged for ever, however it takes its nudges up (maxNudges,
\* session.go:668).
NudgesEnd == <>[][~Nudged]_vars

\* A step that is recorded ok or failed stays so ("ok and failed are terminal",
\* tech-design.md:63).  The code breaks it: a halt that comes before the loop
\* knows of the session ends no session, and a question of it is still admitted.
EndedStays == [][Over(record) => record' = record]_vars

=============================================================================
