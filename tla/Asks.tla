-------------------------------- MODULE Asks --------------------------------
(***************************************************************************)
(* One step of a phase, attempt after attempt, and what its agents ask     *)
(* while it runs: questions over the ask channel (internal/askmcp), and    *)
(* dialogs the driver finds in their panes.  Each is handled by threads of *)
(* its own: one admits and routes it, the watchdog's call answers it, one  *)
(* hands the answer over when the agent's turn is over.  They race with    *)
(* each other, with the runner that finishes the step (session.go), with a *)
(* halt that ends it (runStep in loop.go) and with the loop that withdraws *)
(* what the step leaves behind.                                            *)
(*                                                                         *)
(* What runs inside Session.live holds the session's lock and is one step  *)
(* here, but for the pressing of keys: the agent goes on between two of    *)
(* them, and the driver may die, while whoever else wants the lock waits.  *)
(* A pane is seen only through the number of its agent's state and whether *)
(* the agent is blocked: a dialog that takes the place of another without  *)
(* a change of that number is not told from it, here or in the code.       *)
(* Blockers, which are asked through the same tables, the message that     *)
(* follows a declined dialog, and the panics that the threads recover from *)
(* are left out.                                                           *)
(***************************************************************************)
EXTENDS Naturals, FiniteSets

CONSTANTS
  Ids,          \* bound: the questions and dialogs that may be asked
  Agents,       \* the agents of the step: its worker and its reviewers
  Worker,
  Screens,      \* what a pane may show
  None,         \* no screen
  MaxAttempts,  \* bound: attempts of the step
  MaxBlocks,    \* bound: dialogs of an agent, one less in each later attempt
  MaxCrashes    \* bound: deaths of the driver

ASSUME IdsAssumption == Ids \subseteq Nat /\ IsFiniteSet(Ids)
ASSUME AgentsAssumption == Worker \in Agents
ASSUME ScreensAssumption == None \notin Screens
ASSUME BoundsAssumption ==
  MaxAttempts \in Nat \ {0} /\ MaxBlocks \in Nat /\ MaxCrashes \in Nat

VARIABLES
  attempt,   \* the attempt of the step that runs
  status,    \* store: its recorded state
  intent,    \* store: the attempts with a commit intent
  committed, \* git: the attempts whose work is committed
  live,      \* the loop knows the attempt's session
  ended,     \* the session is over: Session.live runs nothing any more
  runner,    \* where the step's runner is
  out,       \* the runner's outcome
  loop,      \* where the loop is
  ask,       \* every question and dialog: its thread, its record, its origin
  tracked,   \* the loop's table of asks
  answered,  \* those of them that are answered but not yet handed over
  count,     \* the session's number of open asks, as the loop counts them
  leaving,   \* asks taken out of the table whose withdrawal is under way
  server,    \* the questions the ask server holds open
  routed,    \* the asks the watchdog's router holds open
  gone,      \* the asks the router was told to forget
  agent,     \* every agent's state, and what the driver saw of its pane
  link,      \* the attempt whose ask address the worker has
  crashes,   \* deaths of the driver
  lost       \* history: the answers a death of the driver kept from their agent

record  == <<status, intent, committed>>
session == <<attempt, live, ended, link>>
flow    == <<runner, out, loop>>
table   == <<tracked, answered, count>>
channel == <<server, routed, gone>>
past    == <<crashes, lost>>
vars    == <<record, session, flow, ask, table, leaving, channel, agent, past>>

-----------------------------------------------------------------------------
(* Helpers.                                                                *)

Up       == loop # "dead"
Terminal == status \in {"ok", "failed"}

\* Session.live of the session an ask belongs to would run its function, once it
\* has the lock.
Live(id) == Up /\ ask[id].att = attempt /\ ~ended

\* A dialog that is claimed and whose keys are being pressed.
Pressing(id) == ask[id].pc \in {"claimed", "keys", "more", "pressed"}

\* The lock of the attempt's session is held from one step to the next.
Locked == \E id \in Ids : Pressing(id)

\* A call of Session.live for the ask, or of end, does not have to wait.
Free(id) == ask[id].att = attempt => ~Locked

\* Session.asksAs and askingSession: an ask is admitted to the session of its own
\* attempt, or to one that adopted the worker it came from.
AsksAs(id) ==
  \/ ask[id].url = attempt
  \/ ask[id].by = Worker /\ ask[id].url = link

\* openQuestion(s, 1), and the state recorded for the first open ask.
Opened ==
  /\ count' = count + 1
  /\ status' = IF count = 0 THEN "waiting" ELSE status

\* A bug: the last ask is closed and the step still recorded as waiting.
ReleaseSilent == count' = count - 1 /\ UNCHANGED status

\* release: openQuestion(s, -1), and the state recorded when none is left.
Release ==
  /\ count' = count - 1
  /\ status' = IF count = 1 THEN "running" ELSE status

\* The dialog of an agent that is in the table.
DialogOf(a) == {id \in tracked : ask[id].kind = "dialog" /\ ask[id].by = a}

\* moved: the agent is not blocked any more, or its state has another number than
\* when the dialog was raised.
Moved(id) ==
  LET a == ask[id].by
  IN  agent[a].state # "blocked" \/ agent[a].seq # ask[id].seq

\* A bug: an ask withdrawn before it was routed is routed all the same.
ForgottenNever(id) == FALSE

\* QuestionRouter.Withdraw was told of the ask.
Forgotten(id) == id \in gone

\* A bug: a withdrawn question stays open at the ask server.
UnaskedNever(id) == server

\* Server.Answer.
Unasked(id) == server \ {id}

\* A bug: an answer is recorded though its question was withdrawn meanwhile.
AnswerableLate(id) == id \notin answered

\* Deliver: under the session's lock, the ask is still in the table, and not answered.
Answerable(id) == id \in tracked \ answered /\ Live(id)

\* A bug: the answer is typed without asking whether the session lives.
TypableAnywhere(id) == id \in tracked /\ agent[ask[id].by].state = "idle"

\* hand: under the session's lock, the ask is still in the table, and the turn of
\* its agent is over.
Typable(id) == Live(id) /\ id \in tracked /\ agent[ask[id].by].state = "idle"

\* A bug: an answer that was not handed over stays recorded as given.
LeftAnswered(id) == IF id \in answered THEN "answered" ELSE "withdrawn"

\* withdrawStep: the record of an ask that its step leaves behind.
Left(id) == "withdrawn"

\* A bug: an answered ask stays in the table when its step is over.
MineUnanswered == {id \in tracked \ answered : ask[id].att = attempt}

\* withdrawStep: the asks of the step.
Mine == {id \in tracked : ask[id].att = attempt}

\* A bug: the outcome stays ok when the commit fails.
UncommittedOK == "ok"

\* Finish: the outcome of a step whose commit failed.
Uncommitted == "failed"

\* An ask never used, and the next one to be used.
Unused == [pc |-> "unused", kind |-> "none", by |-> Worker, url |-> 0, att |-> 0,
           screen |-> None, seq |-> 0, saved |-> "none", told |-> FALSE]
Fresh(id) == ask[id].pc = "unused" /\ \A i \in Ids : i < id => ask[i].pc # "unused"

\* No dialog is being raised for an agent.
NoLook == [screen |-> None, seq |-> 0]

\* An agent before it is started: its state and the state's number, the answered
\* screen that is not to be raised again, and what Blocked read of its pane.
Absent == [state |-> "none", seq |-> 0, last |-> None, look |-> NoLook]
Working == [Absent EXCEPT !.state = "working"]

Init ==
  /\ attempt = 1 /\ status = "queued" /\ intent = {} /\ committed = {}
  /\ live = FALSE /\ ended = FALSE
  /\ runner = "spawn" /\ out = "none" /\ loop = "select"
  /\ ask = [id \in Ids |-> Unused]
  /\ tracked = {} /\ answered = {} /\ count = 0 /\ leaving = {}
  /\ server = {} /\ routed = {} /\ gone = {}
  /\ agent = [a \in Agents |-> IF a = Worker THEN Working ELSE Absent]
  /\ link = 1
  /\ crashes = 0 /\ lost = {}

-----------------------------------------------------------------------------
(* The agents, and the people at their panes.                              *)

\* A reviewer is started and registered with the session.
ReviewerStarts(a) ==
  /\ Up /\ runner = "wait" /\ agent[a].state = "none"
  /\ agent' = [agent EXCEPT ![a] = Working]
  /\ UNCHANGED <<record, session, flow, ask, table, leaving, channel, past>>

\* The agent's turn ends.
TurnEnds(a) ==
  /\ agent[a].state = "working"
  /\ agent' = [agent EXCEPT ![a].state = "idle"]
  /\ UNCHANGED <<record, session, flow, ask, table, leaving, channel, past>>

\* The agent waits on a dialog in its pane.
Blocks(a) ==
  /\ agent[a].state = "working" /\ agent[a].seq + attempt <= MaxBlocks
  /\ agent' = [agent EXCEPT ![a].state = "blocked", ![a].seq = @ + 1]
  /\ UNCHANGED <<record, session, flow, ask, table, leaving, channel, past>>

\* Somebody answers the dialog in the pane; another may follow at once, in a state
\* with a number of its own.
Unblocks(a) ==
  /\ agent[a].state = "blocked"
  /\ \/ agent' = [agent EXCEPT ![a].state = "working"]
     \/ agent[a].seq + attempt <= MaxBlocks /\ agent' = [agent EXCEPT ![a].seq = @ + 1]
  /\ UNCHANGED <<record, session, flow, ask, table, leaving, channel, past>>

\* The agent's process ends.
Dies(a) ==
  /\ agent[a].state \in {"working", "idle", "blocked"}
  /\ agent' = [agent EXCEPT ![a].state = "gone"]
  /\ UNCHANGED <<record, session, flow, ask, table, leaving, channel, past>>

\* Server.ask: a question is accepted when its asker has no other one open, and
\* the loop starts a thread for it.
Ask(id, a) ==
  LET url == IF a = Worker THEN link ELSE attempt
  IN  /\ Up /\ Fresh(id) /\ agent[a].state = "working"
      /\ ~\E i \in server : ask[i].by = a /\ ask[i].url = url
      /\ ask' = [ask EXCEPT ![id] = [@ EXCEPT !.pc = "asking", !.kind = "question",
                                              !.by = a, !.url = url]]
      /\ server' = server \cup {id}
      /\ UNCHANGED <<record, session, flow, table, leaving, routed, gone, agent,
                     past>>

-----------------------------------------------------------------------------
(* The threads of the asks.                                                *)

\* question: the session that asks is found and still live; the question is
\* recorded, tracked and counted.
Admit(id) ==
  /\ ask[id].pc = "asking" /\ Up /\ live /\ AsksAs(id) /\ ~ended /\ ~Locked
  /\ ask' = [ask EXCEPT ![id].pc = "route", ![id].att = attempt, ![id].saved = "open"]
  /\ tracked' = tracked \cup {id} /\ UNCHANGED answered
  /\ Opened
  /\ UNCHANGED <<intent, committed, session, flow, leaving, channel, agent, past>>

\* question: the session is found but its step has ended; the question is
\* withdrawn at once.
TurnAway(id) ==
  /\ ask[id].pc = "asking" /\ Up /\ live /\ AsksAs(id) /\ ended
  /\ ask' = [ask EXCEPT ![id].pc = "over", ![id].att = attempt,
                        ![id].saved = "withdrawn"]
  /\ server' = Unasked(id) /\ gone' = gone \cup {id}
  /\ UNCHANGED <<record, session, flow, table, leaving, routed, agent, past>>

\* Blocked: an agent was found blocked, with no dialog of it open; its screen is read,
\* and is not the one answered last; then the number of its state is read, while it
\* is blocked, still or again.  The text may be of a dialog before that one.
Look(a) ==
  /\ runner = "wait" /\ live
  /\ agent[a].state = "blocked" /\ agent[a].look = NoLook /\ DialogOf(a) = {}
  /\ \E s \in Screens \ {agent[a].last} :
       agent' = [agent EXCEPT ![a].look = [screen |-> s, seq |-> agent[a].seq]]
  /\ UNCHANGED <<record, session, flow, ask, table, leaving, channel, past>>

\* Blocked: under the session's lock, if no dialog of the agent is open and the screen
\* is not answered meanwhile, the dialog is raised, whatever the agent does by now.
Raise(id, a) ==
  /\ agent[a].look # NoLook
  /\ Fresh(id) /\ ~ended /\ ~Locked
  /\ DialogOf(a) = {} /\ agent[a].look.screen # agent[a].last
  /\ ask' = [ask EXCEPT ![id] =
               [@ EXCEPT !.pc = "route", !.kind = "dialog", !.by = a, !.att = attempt,
                         !.saved = "open", !.screen = agent[a].look.screen,
                         !.seq = agent[a].look.seq]]
  /\ agent' = [agent EXCEPT ![a].look = NoLook]
  /\ tracked' = tracked \cup {id} /\ UNCHANGED answered
  /\ Opened
  /\ UNCHANGED <<intent, committed, session, flow, leaving, channel, past>>

\* Blocked raises nothing: the session has ended, the dialog is open or answered, or
\* there is no number to be had for it.
NotRaised(a) ==
  /\ agent[a].look # NoLook /\ ~Locked
  /\ agent' = [agent EXCEPT ![a].look = NoLook]
  /\ UNCHANGED <<record, session, flow, ask, table, leaving, channel, past>>

\* QuestionRouter.Route: an ask withdrawn meanwhile, or a dead watchdog, gets none;
\* else the router opens it and the watchdog is told.
Route(id) ==
  /\ ask[id].pc = "route"
  /\ \/ ask' = [ask EXCEPT ![id].pc = "over"] /\ UNCHANGED routed
     \/ /\ ~Forgotten(id)
        /\ ask' = [ask EXCEPT ![id].pc = "out"] /\ routed' = routed \cup {id}
  /\ UNCHANGED <<record, session, flow, table, leaving, server, gone, agent, past>>

\* QuestionRouter.Answer and AnswerDialog: the watchdog answers an ask that is open
\* to it; the router closes it before anything else.
Take(id) ==
  /\ id \in routed /\ ask[id].pc = "out"
  /\ routed' = routed \ {id}
  /\ ask' = [ask EXCEPT ![id].pc = "taken"]
  /\ UNCHANGED <<record, session, flow, table, leaving, server, gone, agent, past>>

\* Deliver: the answer to a question that is still asked, in a live session, is
\* recorded; any other is dropped.
Deliver(id) ==
  /\ ask[id].pc = "taken" /\ ask[id].kind = "question" /\ Free(id)
  /\ IF Answerable(id)
       THEN /\ answered' = answered \cup {id}
            /\ ask' = [ask EXCEPT ![id].pc = "given", ![id].saved = "answered"]
       ELSE ask' = [ask EXCEPT ![id].pc = "over"] /\ UNCHANGED answered
  /\ UNCHANGED <<record, session, flow, tracked, count, leaving, channel, agent, past>>

\* Deliver: the ask server closes the question, so that its asker may ask again,
\* and a thread is started to hand the answer over.
Given(id) ==
  /\ ask[id].pc = "given"
  /\ server' = server \ {id}
  /\ ask' = [ask EXCEPT ![id].pc = "hand"]
  /\ UNCHANGED <<record, session, flow, table, leaving, routed, gone, agent, past>>

\* hand: the agent's turn is over and the session lives; the answer is typed, and
\* the ask is claimed and released.
HandOver(id) ==
  LET a == ask[id].by
  IN  /\ ask[id].pc = "hand" /\ Typable(id) /\ Free(id)
      /\ ask' = [ask EXCEPT ![id].pc = "over", ![id].told = TRUE]
      /\ agent' = [agent EXCEPT ![a].state = "working"]
      /\ tracked' = tracked \ {id} /\ answered' = answered \ {id}
      /\ Release
      /\ UNCHANGED <<intent, committed, session, flow, leaving, channel, past>>

\* hand: the agent is gone, or the answer cannot be typed (undeliverable): in a live
\* session the ask is claimed, recorded withdrawn and released; in an ended one a
\* gone agent's ask is left to the end of the step.
HandFails(id) ==
  LET a == ask[id].by
  IN  /\ ask[id].pc = "hand" /\ id \in tracked /\ Free(id)
      /\ \/ agent[a].state = "gone"
         \/ agent[a].state = "idle" /\ Live(id)
      /\ IF Live(id)
           THEN /\ ask' = [ask EXCEPT ![id].pc = "over", ![id].saved = "withdrawn"]
                /\ tracked' = tracked \ {id} /\ answered' = answered \ {id}
                /\ Release
           ELSE ask' = [ask EXCEPT ![id].pc = "over"] /\ UNCHANGED <<table, status>>
      /\ UNCHANGED <<intent, committed, session, flow, leaving, channel, agent, past>>

\* hand: the ask was taken out of the table; there is nothing to hand over.
HandNothing(id) ==
  /\ ask[id].pc = "hand" /\ id \notin tracked
  /\ ask' = [ask EXCEPT ![id].pc = "over"]
  /\ UNCHANGED <<record, session, flow, table, leaving, channel, agent, past>>

\* DeliverKeys: in a live session the dialog is claimed, and looked at once more; one
\* that has moved, or cannot be looked at, is closed without a key.
Claim(id) ==
  /\ ask[id].pc = "taken" /\ ask[id].kind = "dialog" /\ Free(id)
  /\ IF ~(Live(id) /\ id \in tracked)
       THEN /\ ask' = [ask EXCEPT ![id].pc = "over"]
            /\ UNCHANGED <<table, status, gone>>
       ELSE /\ tracked' = tracked \ {id} /\ UNCHANGED answered
            /\ \/ /\ ask' = [ask EXCEPT ![id].pc = "over", ![id].saved = "withdrawn"]
                  /\ gone' = gone \cup {id}
                  /\ Release
               \/ /\ ~Moved(id)
                  /\ ask' = [ask EXCEPT ![id].pc = "claimed"]
                  /\ UNCHANGED <<gone, count, status>>
  /\ UNCHANGED <<intent, committed, session, flow, leaving, server, routed, agent, past>>

\* DeliverKeys: the dialog is recorded answered, before any key is pressed.
RecordKeys(id) ==
  /\ ask[id].pc = "claimed"
  /\ ask' = [ask EXCEPT ![id].pc = "keys", ![id].saved = "answered"]
  /\ UNCHANGED <<record, session, flow, table, leaving, channel, agent, past>>

\* pressKeys: the first key is pressed as it is, a later one if the agent is blocked,
\* on this dialog or another; it may be the last, and it may close what it meets.
PressKey(id) ==
  LET a == ask[id].by
  IN  /\ \/ ask[id].pc = "keys"
         \/ ask[id].pc = "more" /\ agent[a].state = "blocked"
      /\ \E next \in {"more", "pressed"} : ask' = [ask EXCEPT ![id].pc = next]
      /\ \/ agent[a].state = "blocked" /\ agent' = [agent EXCEPT ![a].state = "working"]
         \/ UNCHANGED agent
      /\ UNCHANGED <<record, session, flow, table, leaving, channel, past>>

\* pressKeys: a key cannot be sent, or the agent is found not blocked; the rest of the
\* keys are dropped, and the ask is released.
KeysStop(id) ==
  /\ ask[id].pc \in {"keys", "more"}
  /\ ask' = [ask EXCEPT ![id].pc = "over"]
  /\ Release
  /\ UNCHANGED <<intent, committed, session, flow, tracked, answered, leaving, channel,
                 agent, past>>

\* DeliverKeys: all keys are pressed; the screen, which may show on for a while, is
\* remembered as answered, and the ask is released.
KeysDone(id) ==
  /\ ask[id].pc = "pressed"
  /\ ask' = [ask EXCEPT ![id].pc = "over"]
  /\ agent' = [agent EXCEPT ![ask[id].by].last = ask[id].screen]
  /\ Release
  /\ UNCHANGED <<intent, committed, session, flow, tracked, answered, leaving, channel,
                 past>>

Press(id) == Claim(id) \/ RecordKeys(id) \/ PressKey(id) \/ KeysStop(id) \/ KeysDone(id)

\* Unblocked: the runner sees an agent off its dialog; the answered screen is
\* forgotten, and an open dialog is withdrawn.
Unblocked(a) ==
  /\ runner = "wait" /\ agent[a].state \in {"working", "idle"} /\ agent[a].look = NoLook
  /\ agent[a].last # None \/ DialogOf(a) # {}
  /\ agent' = [agent EXCEPT ![a].last = None]
  /\ \/ /\ \E id \in DialogOf(a) :
             /\ Live(id) /\ Free(id)
             /\ ask' = [ask EXCEPT ![id].saved = "withdrawn"]
             /\ tracked' = tracked \ {id} /\ gone' = gone \cup {id}
             /\ routed' = routed \ {id}
             /\ Release
        /\ UNCHANGED answered
     \/ /\ \A id \in DialogOf(a) : Free(id) /\ ~Live(id)
        /\ UNCHANGED <<ask, table, status, gone, routed>>
  /\ UNCHANGED <<intent, committed, session, flow, leaving, server, past>>

-----------------------------------------------------------------------------
(* The runner of the step: Spawn, Wait and Finish.                         *)

\* Spawn: the session is started and recorded running, unless the step was recorded
\* ended meanwhile; or it fails.
Spawned ==
  /\ runner = "spawn"
  /\ \/ /\ ~Terminal
        /\ status' = "running" /\ runner' = "started"
        /\ UNCHANGED out
     \/ /\ runner' = "done" /\ out' = "failed"
        /\ UNCHANGED status
  /\ UNCHANGED <<intent, committed, session, loop, ask, table, leaving, channel, agent,
                 past>>

\* loopObserver.Started: the loop learns of the session.
Started ==
  /\ runner = "started"
  /\ live' = TRUE /\ runner' = "wait"
  /\ UNCHANGED <<record, attempt, ended, link, out, loop, ask, table, leaving, channel,
                 agent, past>>

\* tick: the sentinel, the agent or the interruption decides the outcome, an open
\* question or not; the backstop only when none is open.  No call of Blocked is under
\* way: it is the tick that makes them.
Judge ==
  /\ runner = "wait"
  /\ \A a \in Agents : agent[a].look = NoLook
  /\ \/ out' \in {"ok", "failed"}
     \/ count = 0 /\ out' = "backstop"
  /\ runner' = "done"
  /\ UNCHANGED <<record, session, loop, ask, table, leaving, channel, agent, past>>

\* A bug: the session is over while something runs under its lock.
FinishEndAtOnce ==
  /\ runner = "done"
  /\ ended' = TRUE /\ runner' = "closing"
  /\ UNCHANGED <<record, attempt, live, link, out, loop, ask, table, leaving, channel,
                 agent, past>>

\* Finish, its beginning: the session is over, once what runs under its lock is.
FinishEnd ==
  /\ runner = "done" /\ ~Locked
  /\ ended' = TRUE /\ runner' = "closing"
  /\ UNCHANGED <<record, attempt, live, link, out, loop, ask, table, leaving, channel,
                 agent, past>>

\* Finish: a step recorded ended keeps that outcome; an ok one writes its commit
\* intent, which may fail.
FinishCheck ==
  /\ runner = "closing"
  /\ \/ /\ Terminal
        /\ out' = status /\ runner' = "out"
        /\ UNCHANGED intent
     \/ /\ ~Terminal /\ out = "ok"
        /\ \/ intent' = intent \cup {attempt} /\ runner' = "commit" /\ UNCHANGED out
           \/ out' = "failed" /\ runner' = "record" /\ UNCHANGED intent
     \/ /\ ~Terminal /\ out # "ok"
        /\ runner' = "record"
        /\ UNCHANGED <<intent, out>>
  /\ UNCHANGED <<status, committed, session, loop, ask, table, leaving, channel, agent,
                 past>>

\* Finish: the step's work is committed, or the commit fails.
FinishCommit ==
  /\ runner = "commit"
  /\ \/ committed' = committed \cup {attempt} /\ UNCHANGED out
     \/ out' = Uncommitted /\ UNCHANGED committed
  /\ runner' = "record"
  /\ UNCHANGED <<status, intent, session, loop, ask, table, leaving, channel, agent,
                 past>>

\* Finish, its end: the outcome is recorded, unless the step was recorded ended
\* meanwhile.
FinishRecord ==
  /\ runner = "record"
  /\ IF Terminal
       THEN out' = status /\ UNCHANGED status
       ELSE status' = (IF out = "ok" THEN "ok" ELSE "failed") /\ UNCHANGED out
  /\ runner' = "out"
  /\ UNCHANGED <<intent, committed, session, loop, ask, table, leaving, channel, agent,
                 past>>

-----------------------------------------------------------------------------
(* The loop: runStep, ended, stopStep, and the next attempt.               *)

\* runStep takes a halt of the phase: the session it knows of is over, once what runs
\* under its lock is.
Halt ==
  /\ loop = "select" /\ (live => ~Locked)
  /\ loop' = "halt"
  /\ ended' = (ended \/ live)
  /\ UNCHANGED <<record, attempt, live, link, runner, out, ask, table, leaving, channel,
                 agent, past>>

\* runStep records the halted step failed, unless it was recorded ended, and waits
\* for the runner.
HaltRecord ==
  /\ loop = "halt"
  /\ IF Terminal
       THEN loop' = "late" /\ UNCHANGED status
       ELSE loop' = "halted" /\ status' = "failed"
  /\ UNCHANGED <<intent, committed, session, runner, out, ask, table, leaving, channel,
                 agent, past>>

\* runStep sees an abort, or an interruption, and waits for the runner.
StopStep ==
  /\ loop = "select"
  /\ loop' = "stopping"
  /\ UNCHANGED <<record, session, runner, out, ask, table, leaving, channel, agent, past>>

\* withdrawStep, one ask: it is recorded withdrawn; one that was not answered is
\* withdrawn from the router, and a question from the ask server.
WithdrawOne(id) ==
  /\ id \in leaving
  /\ leaving' = leaving \ {id}
  /\ ask' = [ask EXCEPT ![id].saved = Left(id)]
  /\ IF id \in answered
       THEN answered' = answered \ {id} /\ UNCHANGED <<server, routed, gone>>
       ELSE /\ server' = Unasked(id)
            /\ routed' = routed \ {id} /\ gone' = gone \cup {id}
            /\ UNCHANGED answered
  /\ UNCHANGED <<record, session, flow, tracked, count, agent, past>>

\* ended, and stopStep: the runner's outcome is taken, and the asks of the step
\* leave the table (withdrawStep).  A question open in a step failed by its backstop
\* breaks the run; a halted or stopped one has no attempt after it.
StepEnds ==
  /\ loop \in {"select", "late", "halted", "stopping"} /\ runner = "out"
  /\ tracked' = tracked \ Mine /\ leaving' = Mine
  /\ count' = IF Mine = {} THEN count ELSE 0
  /\ loop' = IF out = "backstop" /\ count > 0 /\ loop \in {"select", "late"}
               THEN "broken"
             ELSE IF loop \in {"halted", "stopping"} THEN "quitting" ELSE "leaving"
  /\ UNCHANGED <<record, session, runner, out, ask, answered, channel, agent, past>>

\* withdrawStep is through: the step is over.
StepOver ==
  /\ loop = "leaving" /\ leaving = {}
  /\ loop' = "idle"
  /\ UNCHANGED <<record, session, runner, out, ask, table, leaving, channel, agent, past>>

\* runAttempts: the next attempt of a failed step, in a session of its own, or in
\* that of the worker when the watchdog continues it (SessionManager.adopt).
Attempt ==
  /\ loop = "idle" /\ status = "failed" /\ attempt < MaxAttempts
  /\ attempt' = attempt + 1 /\ status' = "queued"
  /\ live' = FALSE /\ ended' = FALSE
  /\ runner' = "spawn" /\ out' = "none" /\ loop' = "select"
  /\ \/ /\ link' = attempt + 1
        /\ agent' = [a \in Agents |-> IF a = Worker THEN Working ELSE Absent]
     \/ /\ agent[Worker].state \in {"idle", "working", "blocked"}
        /\ UNCHANGED link
        /\ agent' = [a \in Agents |->
             IF a # Worker THEN Absent
             ELSE [agent[a] EXCEPT !.state = IF @ = "idle" THEN "working" ELSE @]]
  /\ UNCHANGED <<intent, committed, ask, table, leaving, channel, past>>

\* The driver is down: its threads, its tables and its channels are gone, and
\* nothing its agents do reaches it any more.
Down ==
  /\ loop' = "dead" /\ runner' = "none" /\ out' = "none"
  /\ live' = FALSE /\ ended' = TRUE
  /\ lost' = lost \cup answered
  /\ ask' = [id \in Ids |-> IF ask[id].pc = "unused" THEN ask[id]
                            ELSE [ask[id] EXCEPT !.pc = "over"]]
  /\ tracked' = {} /\ answered' = {} /\ count' = 0 /\ leaving' = {}
  /\ server' = {} /\ routed' = {} /\ gone' = {}
  /\ agent' = [a \in Agents |-> Absent]
  /\ UNCHANGED <<record, attempt, link>>

\* The run ends: after a halt, a stop, or an invariant found broken.
Quit ==
  /\ loop \in {"quitting", "broken"} /\ leaving = {}
  /\ Down
  /\ UNCHANGED crashes

\* The driver dies.
Crash ==
  /\ Up /\ crashes < MaxCrashes
  /\ crashes' = crashes + 1
  /\ Down

\* PrepareResume: a question left open is recorded withdrawn, and an interrupted
\* step failed, or, when it has a commit intent, committed and recorded ok.
Resume ==
  /\ loop = "dead"
  /\ IF Terminal \/ attempt \notin intent
       THEN /\ status' = IF Terminal THEN status ELSE "failed"
            /\ UNCHANGED committed
       ELSE status' = "ok" /\ committed' = committed \cup {attempt}
  /\ ask' = [id \in Ids |-> IF ask[id].saved = "open"
                            THEN [ask[id] EXCEPT !.saved = "withdrawn"] ELSE ask[id]]
  /\ loop' = "idle"
  /\ UNCHANGED <<intent, session, runner, out, table, leaving, server, routed, gone,
                 agent, past>>

-----------------------------------------------------------------------------
Thread(id) == \/ Admit(id) \/ TurnAway(id) \/ Route(id) \/ Deliver(id) \/ Given(id)
              \/ HandOver(id) \/ HandFails(id) \/ HandNothing(id) \/ Press(id)

Runner == \/ Spawned \/ Started \/ Judge \/ FinishEnd \/ FinishCheck
          \/ FinishCommit \/ FinishRecord

Loop == \/ HaltRecord \/ StepEnds \/ StepOver \/ \E id \in Ids : WithdrawOne(id)

World ==
  \/ \E a \in Agents : \/ ReviewerStarts(a) \/ TurnEnds(a) \/ Blocks(a) \/ Unblocks(a)
                       \/ Dies(a)
  \/ \E id \in Ids, a \in Agents : Ask(id, a) \/ Raise(id, a)
  \/ \E a \in Agents : Look(a) \/ NotRaised(a) \/ Unblocked(a)
  \/ \E id \in Ids : Take(id)
  \/ Halt \/ StopStep \/ Attempt \/ Quit \/ Crash \/ Resume

Next == (\E id \in Ids : Thread(id)) \/ Runner \/ Loop \/ World

Spec == Init /\ [][Next]_vars

\* The threads, the starting and finishing of a step, the recording of a halt and
\* the withdrawing of asks go on by themselves; a runner that is cancelled ends.  An
\* agent's turn ends, in a dialog or not: the driver can only wait for it.  A call of
\* Blocked returns.
Fairness ==
  /\ \A id \in Ids : WF_vars(Thread(id)) /\ WF_vars(WithdrawOne(id))
  /\ WF_vars(Spawned \/ Started \/ FinishEnd \/ FinishCheck \/ FinishCommit
               \/ FinishRecord)
  /\ WF_vars(loop \in {"halted", "stopping"} /\ Judge)
  /\ WF_vars(HaltRecord \/ StepEnds)
  /\ \A a \in Agents :
       /\ WF_vars(TurnEnds(a))
       /\ WF_vars(NotRaised(a) \/ \E id \in Ids : Raise(id, a))
FairSpec == Spec /\ Fairness

-----------------------------------------------------------------------------
(* Properties.                                                             *)

\* The types of the state.
TypeOK ==
  /\ attempt \in 1..MaxAttempts /\ link \in 1..attempt
  /\ status \in {"queued", "running", "waiting", "ok", "failed"}
  /\ intent \subseteq 1..attempt /\ committed \subseteq intent
  /\ live \in BOOLEAN /\ ended \in BOOLEAN
  /\ runner \in {"none", "spawn", "started", "wait", "done",
                 "closing", "commit", "record", "out"}
  /\ out \in {"none", "ok", "failed", "backstop"}
  /\ loop \in {"select", "halt", "late", "halted", "stopping", "leaving", "broken",
               "quitting", "idle", "dead"}
  /\ ask \in [Ids -> [pc : {"unused", "asking", "route", "out", "taken", "given",
                            "hand", "claimed", "keys", "more", "pressed", "over"},
                      kind : {"none", "question", "dialog"}, by : Agents,
                      url : 0..attempt, att : 0..attempt, screen : Screens \cup {None},
                      seq : 0..MaxBlocks,
                      saved : {"none", "open", "answered", "withdrawn"},
                      told : BOOLEAN]]
  /\ tracked \subseteq Ids /\ answered \subseteq tracked \cup leaving
  /\ leaving \subseteq Ids \ tracked
  /\ count \in 0..Cardinality(Ids)
  /\ server \subseteq Ids /\ routed \subseteq Ids \ gone /\ gone \subseteq Ids
  /\ agent \in [Agents -> [state : {"none", "working", "idle", "blocked", "gone"},
                           seq : 0..MaxBlocks, last : Screens \cup {None},
                           look : [screen : Screens \cup {None}, seq : 0..MaxBlocks]]]
  /\ crashes \in 0..MaxCrashes /\ lost \subseteq Ids

\* What is asked: the asks in the table, and the dialogs whose keys are being pressed.
Asked == tracked \cup {id \in Ids : Pressing(id)}

\* The loop's count of open asks, which pauses the step's timeouts and decides what
\* is recorded of it, is the number of asks in its table and of dialogs whose keys are
\* being pressed, and all of them are the running attempt's, whichever threads opened
\* and closed them.
CountTrue ==
  /\ count = Cardinality(Asked)
  /\ \A id \in Asked : ask[id].att = attempt

\* While its session lives a step is not recorded as waiting for an answer unless
\* something is asked.
WaitsForSomething == status = "waiting" /\ ~ended => Asked # {}

\* When a step is over and its asks are withdrawn, a question is recorded answered
\* only if its agent got the answer, or a death of the driver came between.
AnsweredIsHanded ==
  loop = "idle" => \A id \in Ids :
    ask[id].saved = "answered" /\ ask[id].kind = "question" => ask[id].told \/ id \in lost

\* Between two attempts nothing that was asked is recorded open, and the watchdog
\* can answer nothing: not even what is routed late.
NothingLeftOpen ==
  loop = "idle" => routed = {} /\ \A id \in Ids : ask[id].saved # "open"

\* Once a question is withdrawn, or its answer handed over, the ask server does not
\* hold it open: its asker may ask again.
AskerIsFree ==
  \A id \in server : ask[id].pc = "over" => ask[id].saved = "open"

\* A step recorded ok is committed, a commit that failed, a halt and a death of the
\* driver between its intent, its commit and its record included.
OkIsCommitted == status = "ok" => attempt \in committed

\* An answer is typed only into a session that lives, for an ask in its table; and
\* every key for a dialog is pressed, however many steps lie between the look at the
\* pane and the last of them, in the attempt that raised it, before its session ends.
TypedIntoTheLiving ==
  [][\A id \in Ids :
       /\ ask'[id].told /\ ~ask[id].told =>
            ~ended /\ id \in tracked /\ ask[id].att = attempt
       /\ PressKey(id) => ~ended /\ id \notin tracked /\ ask[id].att = attempt]_vars

\* Every answer is handed over or withdrawn in the end, unless its agent is found
\* waiting on a dialog.
AnswerSettles ==
  \A id \in Ids : id \in answered ~>
    (id \notin answered \/ agent[ask[id].by].state = "blocked")

\* A question never kills a step.
QuestionNeverKills == loop # "broken"

-----------------------------------------------------------------------------
(* The asks as Answering promises them.                                    *)

\* How far an ask is: what is recorded of it, and of a question that is answered,
\* whether its agent got the answer.  A dialog's answer is the key pressed.
Stage(id) ==
  IF ask[id].saved = "none" THEN "new"
  ELSE IF ask[id].saved = "answered" /\ (ask[id].told \/ ask[id].kind = "dialog")
       THEN "handed" ELSE ask[id].saved

Progress == [id \in Ids |-> Stage(id)]

Homes == [id \in Ids |-> ask[id].att]

Promise == INSTANCE Answering WITH life <- Progress, home <- Homes

\* The threads, the loop, the runner, a halt, a death of the driver and a resume keep
\* the promise together: nothing is answered twice, or answered after it was
\* withdrawn, or withdrawn after its answer was typed, or handed to a later attempt.
AnswersOnce == Promise!Spec

=============================================================================
