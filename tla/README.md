# r-loop in TLA+

r-loop is a driver that runs the phases of a plan with AI agent sessions. Each
phase of the plan goes through a few steps (design, plan, implement, each with its
review rounds) in a git worktree of its own, and is then *landed*: merged into the
primary tree, gated by the project's tests, ticked in the plan and committed. A
*watchdog*, itself an agent session, watches the run; it answers questions,
resolves blockers, and may halt a step or the run. What happened is recorded in an
append-only run store, from which `r-loop resume` continues a run that stopped or
whose driver died.

This directory holds a model of the parts of r-loop whose correctness depends on
the order in which several parties act, checked with TLC on small instances and
proved with TLAPS for all sizes where that is done. Paths below are relative to
`src/internal/` unless they start with `src/`.

## 1. Inventory

| part | code | state it keeps | operations | what is hard |
|---|---|---|---|---|
| run loop | `core/loop.go`, `core/control.go` | run list, pending and blocked phases, the halts it took in, requests to stop or pause | `Run`, `runPhase`, `runStep`, `awaitRestart`, `block`, `StopRun`, `PauseRun`, `ContinueRun` | halts, requests and the end of a step arrive at any moment; a crash and a resume |
| watch | `core/watch.go`, `core/checks.go` | signal channel, parked signals, a held halt, the live step | `Accept`, `forward`, `Drain`, `StepStarted`, `StepEnded`, `WatchdogGone` | a halt for a step that ended, no step live, a full channel |
| blockers | `core/blockers.go`, `core/remedies.go` | open blockers, their timeouts, restarts used | `Raise`, `wait`, `ResolveBlocker`, `SettleBlocker`, `expire` | a timeout against a resolution; a limit kept over resumes |
| landing gate | `core/land.go`, `core/gate.go`, `gitrepo/repo.go` | git, the working tree, the store | `Land`, `attempt`, `fix`, `MergeNoFF`, `Commit`, `AbortMerge` | three places written without a transaction; any call fails; a crash between two |
| resume | `app/resume.go` | none of its own | `reconcileLand`, `resume`, `stopStale`, `claim`, `closeInterrupted`, `recoverCommit` | to tell what a dead driver had done |
| run store | `store/store.go`, `core/records.go` | the logs, two file locks, the current run, abort markers | `Append`, `Load`, `Lock`, `Publish`, `Release`, `Live`, `MarkAbort` | a torn last line; several commands at once, each killed at any point |
| sessions | `core/session.go`, `core/runners.go`, `core/commit.go`, `core/evidence.go` | the state of one step's agent | `waitAll`, `tick`, `stallAndNudge`, `resume`, `Finish` | clocks against the agent's own end; `Finish` against a question or a halt |
| questions | `core/loop.go` 1366-1700, `core/questions.go`, `core/dialogs.go`, `askmcp/server.go` | open asks, claims | `question`, `Deliver`, `answer`, `hand`, `withdraw` | delivered once, or withdrawn, never both |
| watchdog | `core/watchdog.go`, `askmcp/watchdog.go` | its session, its message queue | post, hand-over, its tools | messages for a session that is replaced |
| reviews | `core/review.go`, `core/nativereview.go`, `reviewexec/` | rounds of a step | find, fix, gather verdicts | limits, restarts within a round |
| hooks | `core/hooks.go`, `hooktap/` | hooks in flight; what an agent's own hooks reported | `fire`, `waitHooks`, `hookTurn`, `hookWork` | a turn that ended, or work in the background, against the pane's state |
| herdr's panel | `hc/client.go`, `src/herdr-app/rloop/main.js` | the labels of the terminals; the app itself keeps none | `Tag`, `Start`; `rows`, `activity` | three threads tag several terminals, one call each |
| triage, checks, milestones | `core/triage.go`, `core/plancheck.go`, `core/phasecheck.go`, `core/milestone.go` | edits to plan and backlog | one session at a time | a failure half-way through an edit |
| plan | `plan/` | the todo file | `Read`, `Tick`, `Resolve` | text handling |
| the rest | `app/wire.go`, `config/`, `prompts/`, `providers/`, `analyze/`, `herdr/`, `face/`, `notify/`, `memory/` | | | parsing, rendering, clients of other programs |

How they interact: the loop calls sessions (in a goroutine of their own), the
landing gate and the store directly. The watchdog reaches the loop through
`Watch`, by a channel; requests of the maintainer reach it by `control.go`, under
a mutex, and by the abort marker in the store, which is polled. A blocker blocks
the goroutine that raised it until a resolution, a halt or a timeout arrives.
A resume shares nothing with the driver before it but the store and the repository.
The commands (`run`, `resume`, `abort`, `status`, `cleanup`) are processes of their
own that meet in the run store: two file locks, a pointer file, a marker file. The
driver shows where a step is by labels on the terminals of herdr, which herdr's app
reads back as rows of its panel.

What makes each part correct:

- **run loop** — each phase of the run list is in one place; a phase lands after
  what it depends on; a blocked phase does not land; the exit code tells the truth;
  no halt is forgotten; a request to end the run ends it.
- **landing** — no merge commit without its gate, no record without its commit, code
  and tick in one commit, no landing forgotten by a resume.
- **watch** — signals keep their order, none is lost while the loop listens.
- **blockers and questions** — each is resolved once and told to who asked; a
  restart is granted at most so many times in the life of the run.
- **sessions** — a step is recorded ended once, and its commit is recovered or redone;
  a silent agent is given up, and is not nudged for ever.
- **panel** — no row waits for an answer that was given or goes on after the end.
- **store** — a log cut short anywhere loads, and keeps what a load has answered; one
  driver at a time, and it is the one the others name; an abort reaches it.

The hazards behind these, each at its line and with the properties that watch it,
are listed in `PROJECT.json`.

## 2. Modules

| module | models | composed with |
|---|---|---|
| `RunLoop` | the loop, its watch, the halts and requests, crash and resume | |
| `Land` | one landing after another, every call failing, crash and reconcile | `Landing`, which it implements |
| `Asks` | the questions, dialogs, attempts and commit of one step | `Answering`, which it implements |
| `Panel` | tagging terminals and what the panel shows of the tags | |
| `StepWatch` | the ticks of one step, its nudges and its review rounds, with the threads that tag | extends `Panel` |
| `RunStore` | the commands, the locks, the pointer, the markers, the logs | |
| `RunLoopProofs`, `LandProofs`, `AsksProofs`, `StepWatchProofs`, `RunStoreProofs` | theorems | extend the module they name |
| `MC...` | instances for TLC | |

The modules meet where one component is an action of another: a step of `RunLoop` is
what `Asks` and `StepWatch` take apart from two sides, its landing is what `Land`
takes apart, a crash and a resume of these is a `Crash` and a resume of `RunStore`,
and the abort marker of `RunStore` is `abort` in `RunLoop`. They were built, and are
best read, in the order of the table.

What would come next: the blockers' claims and expiry (`core/blockers.go`), the
signal channel with its capacity as an implementation of the queue and slot of
`RunLoop` (`core/watch.go`), the watchdog's queue of messages, the rounds of a review
with their verdicts, triage.

## 3. RunLoop

One action per step of the loop's goroutine, between two points where another party
can act. `pc` is where it is; the loop's maps and fields are variables of the same
names.

| state | code |
|---|---|
| `list`, `landed`, `done`, `restarts`, `status`, `abort` | records in the run store; all that survives a crash |
| `pending`, `blocked`, `first`, `ahead`, `cursor` | locals and maps of `Run` (loop.go:155) |
| `halted`, `nextHalt`, `haltLanded` | fields of `RunLoop` |
| `queue` | the signal channel of `Watch` with its parked signals, in order |
| `slot`, `live`, `gone` | `Watch`: the held halt, the live step, the lost watchdog |
| `call` | how far each call of `Watch.accept` is: judged, about to forward its halt or to hold it; 0 is the driver's own news that the watchdog is gone (`haltGone`) |
| `stopAfter`, `pauseAfter`, `continued`, `stopped` | `control.go`, `l.stopped` |
| `result`, `out` | how the runner recorded the step's end; the phase's outcome |

A halt is the number of the phase it names, 0 when it names none. Steps of a phase
are numbered 1..K and the landing is step K + 1; a retry of either is counted in
`restarts`. `drainSignals` is a loop over signals, so it is `StartDrain`, one `Drain`
per signal, and `DrainDone`, which goes to `ret`.

A call of `Watch.accept` takes the lock of the watch several times, and is several
actions: it judges the halt and looks for a live step (`Aimed`, `Rejected`, `CheckHalt`,
`News`; watch.go:422-449), and then forwards it (`Forward`, 514-530) or, when it saw no
live step, looks again and holds it (`HoldHalt`, 469-477). A step may start between the
two looks. Then the halt is not held but queued, and may name no phase (askmcp/watchdog.go:320-323
gives a malformed step an empty phase): a halt of the run in the queue, which `StepSignal`
takes for one of a step that ended, so that the step goes on and the loop breaks off at its next
head. `Drain` waits for the calls under way
(`Settled`, watch.go:416-421 and 479-485); without that a halt would be lost between its
two looks (the mutant `SettledAlways`). A halt rejected in a phase check, or that
names the check of a phase, is recorded and dropped (`CheckHalt`, watch.go:441-443), as the
tech design (782-786) wants it, so `HaltNotForgotten` does not speak of it; nor of the news of a lost
watchdog when the step it was for has ended, which is a warning only.

Interleavings kept: the runner records its result (`RunnerEnd`) before the loop hears
of it (`StepDone`), and a halt can come between the two; a halt can be given to a
step that has ended; a request can come at each point; a crash at each point. A phase
that a halt blocks need not be in the run list (`haltEnded` looks at the whole plan).

Left out of it: skipped backlog items, `--replan`, questions (module `Asks`),
panics, a store that fails (exit 2), warnings. The landing is one action (see
`Land`). Dependencies on later phases are not refused by the code on a first run,
which is why `DepsBefore` speaks of earlier ones (d < p).

## 4. Land and Landing

`Land` takes the landing apart: every call that writes to git, to the tree or to the
store is an action, each can fail when it is in `Faults`, and `Crash` can come
between any two.

| state | code |
|---|---|
| `head` | first-parent commits of the run's branch since the run began: whose code, from which tip, with which tick, and whether something foreign was swept in |
| `merging` | MERGE_HEAD in the primary tree |
| `tip` | the tip of each phase's branch; a gate fix commits to it |
| `todo` | the boxes ticked in the todo file on disk |
| `edit` | a file of the primary tree changed by somebody else |
| `landed`, `intent` | the run store: landing records; the last merge intent, with its commit intent |
| `green` | history: the tips whose gate passed (or had no gate to pass) |

The tree hashes that the code compares (index, working tree, commit intent) become
what they depend on here: `merging`, `todo`, `edit`. `ReconcileNothing` to `Start`
are `reconcileLand`, its `landing` closure, and the clean check and run list of
`resume`. `ByHand` is the maintainer clearing the tree as a refusal asks; `Edit` is
any other program. Left out: how the gate command is chosen, the item gate's check at
the base, a `continue` that rereads and commits the plan, the milestone report, a
branch moved by hand, panics.

`Landing` is what a landing promises: a phase is open, merged or landed; a merge can
be taken back until it is recorded; and no phase is merged while another waits for
its record. The last clause is what makes it right that a resume looks at the last
merge intent only. `KeepsPromise` says that `Land` implements it, under the mapping
`Progress`. With a local todo file a phase whose tick failed is left merged with
nobody to record it (finding 2); `Progress` counts it as open, so that the promise is
kept for every landing somebody is still to record.

## 5. Asks

`Asks` is one step, attempt after attempt, with the threads that run beside it. What
an agent wants of the watchdog is an *ask*: a question over the ask channel, or a
dialog in its pane. Each has a record `ask[id]` with the place of its thread (`pc`),
who asks, the attempt it counts for and what the store says of it (`saved`).

| state | code |
|---|---|
| `status`, `intent`, `committed`, `ask[id].saved` | step and question records, commit intents; the branch of the phase |
| `live`, `ended` | `l.live`; the end of a `Session` (`Session.live`, `end`) |
| `runner`, `out` | the goroutine of `Spawn`, `Wait`, `Finish`; its `Outcome` |
| `loop` | `runStep`, `ended`, `stopStep`, `runAttempts` |
| `tracked`, `answered`, `count` | `l.asked`, its `answered` flags, `l.open` |
| `leaving` | the local list of `withdrawStep` |
| `server` | `Server.open` of the ask server |
| `routed`, `gone` | `QuestionRouter.open`, `withdrawn` |
| `agent` | each agent's state with its number, `l.screens`, and what a call of `Blocked` read of its pane |
| `link` | the attempt whose ask address the worker was given |

What runs inside `Session.live` holds the session's lock and is one action, but for the
pressing of keys, where the agent goes on meanwhile; what is outside is not, so that a question is taken by the router (`Take`), recorded
answered (`Deliver`), closed at the server (`Given`) and handed over (`HandOver`) in
four steps, between any two of which the step may end, be halted or restarted. The
asks are numbered in the order they come. `TurnEnds`, `Blocks`, `Unblocks` and `Dies`
are the agents and the people at their panes.

`Answering` is what all of that promises of a question or dialog: it is open, answered,
handed over, each at most once and in the attempt it was asked in, or it is withdrawn
and stays so; no attempt begins while one is open; a resume may withdraw many at once.
`AnswersOnce` says that `Asks` implements it under `Progress`: how far an ask is can be
read from its record and from whether its agent was told. A dialog has no time between
its answer and the key that gives it. An answer that a death of the driver kept from its
agent stays recorded as given, and is not handed over by a later attempt.

A dialog is raised and answered in the steps the code takes. `Look` reads the screen and
then the number of the agent's state, outside any lock (dialogs.go:41-52), and `Raise` or
`NotRaised` comes when the session's lock is had; by then the agent may be off the dialog,
or at another, and the screen may be that of a dialog before the number. `Claim` takes the dialog out
of the table and looks once at state and number (120-128); `RecordKeys` records the answer;
`PressKey` presses one key after the other, asking from the second on only whether the
agent is blocked (196-213); `KeysStop` and `KeysDone` end it. The lock of the session is
held from `Claim` to there (`Locked`), so that the end of the session, an admission and a
hand-over wait, while the agent, the people at its pane and a death of the driver do not.
A key can therefore reach a dialog that took the first one's place, and no property says
otherwise. The tech design (1130-1131) and `src/docs/task-loop-driver/todo.md:716` ask for an unchanged normalised
screen before the keys, where `moved` (215-227) compares the number of the state, the time of
its last change (hc/client.go:613-640); in the model that number changes when a dialog
follows another as a state of its own, and a replacement that does not change it is not
seen, here or there. What does hold is in `TypedIntoTheLiving`: every key is pressed in
the attempt that raised the dialog and before its session ends; and in `CountTrue`: the
claimed dialog is counted until the keys are done, so that the step's clocks stand.

Left out: blockers, stalls and nudges, what follows a declined dialog, the checks of
rules and citations, the step kinds that may not ask, panics.

## 6. Panel and StepWatch

`Panel` is the part that herdr's app and the driver share: the terminals, their
labels, and the panel's rows read from them. A `Tag` asks for the layout once and then
labels the terminals one at a time; each is an action, so that the tags of several
threads interleave. `Own` to `Shows` are all of `src/herdr-app/rloop/main.js` but its
colours and the click on a row, which change nothing.

`StepWatch` extends it with the step that is shown, seen by the thread that runs it.

| state | code |
|---|---|
| `term`, `agent`, `text`, `wait` | the terminals of herdr's app: `state`, and the labels `rloop.agent`, `rloop`, `rloop_wait` |
| `tags[w]` | the call of `Tag` that a thread is in: its tokens, the terminals left, whether it holds the session's lock |
| `warned` | a tag failed, which the code records as a warning |
| `pc`, `round`, `result` | the runner's goroutine: `Spawn`, `Started`, `waitAll`, the review, `Finish` |
| `watch`, `look` | the locals of `waitAll` (quiet, elapsed, stalled, nudged, ...) and of the tick under way |
| `placed`, `known`, `ended` | `out.Session` has a workspace; `l.live`; `Session.ended` |
| `open`, `dialog`, `asks` | `l.open[step]`, whether one of them is a dialog |
| `record`, `loop` | the last step record; where `runStep` is with the step |
| `does`, `turn`, `sentinel`, `hooks`, `backstop` | the agent, its sentinel file, its hooks, the timeout of its row |

Three threads write: the `runner`, those of the questions (`asker`), and the `loop`. What
runs inside `Session.live` holds the session's lock until its tag is done: that is the
field `locked` of a tag, and `Unlocked` is the guard of what needs the lock. A tag of
the runner outside the lock (stalled, fixing) can still be going over the terminals
when a question's begins. `RowTells` holds nevertheless, and the proof says why: only a
tag made under the lock puts the wait on, the last answer needs that lock, so its tag
begins when those have ended, and a tag outside the lock can at worst take the wait off
too early. `watch` and `look` are reset when they are out of scope.

A tick asks the host for the agent's state, and may not learn it (`Reads`): the host may
have no status of the agent or one it does not know (hc/client.go:629-640, `AgentUnknown`), or the
call may fail. A call that timed out fails the step (session.go:581); any other failure ends the
settling of an agent that said ok (709-736), and else is as an unknown state: no dialog comes or
goes, the backstop counts, and the stall clock neither runs nor starts again (`SeenNothing`,
the default branch, 647). So an agent whose state is never had is given up by its backstop
or not at all, and `SilentEnds` says so in its premise: the row has a timeout, or a tick
gets as far as the stall clock again and again (`Clocked`). The code's clock for a quiet
agent is `SeenQuiet` and `SeenSilent`, for the idle and the blocked.

What the code does *not* promise, found while stating the properties: that an open
question always shows as waiting (a runner's tag begun before it may go last); and the
text `p3·implement` that `src/README.md:84-85` shows in a row, where the code writes
`◆ working` (loop.go:1947). The instances list the live terminals (`Listed`): a finished
terminal keeps stale labels, as `Tag` skips it (client.go:726), so an app that listed
those would show them.

Left out: quota exits, transcripts, the activity line, which rules a review's findings
meet, and reviewers' own clocks; the dialogs of reviewers are in `Asks`.

## 7. RunStore

Each process is one command, `run`, `resume`, `cleanup` or `abort` (`status` looks as an abort
does). An action is one call on a file; any process may be killed between two.

| state | code |
|---|---|
| `writer`, `readers` | the file lock `runs/gate`, exclusive or shared (store.go:316-425) |
| `lock` | the file lock `runs/lock` |
| `current` | the file `runs/current`: run and pid |
| `made`, `marked` | the run directories; those with an abort marker |
| `log[r]` | the log of the run: whole lines, and what stands after the last line break |
| `pc`, `job`, `run`, `told` | where a process is, its command, its run, who it was told is live |
| `asked` | history: the drivers whose run was marked while they drove it |

The log keeps what matters of the bytes: `tail` says whether nothing, part of a record
or a whole record without its line break stands at the end. `Load` counts such a record
when it can be read; `Append` cuts off a part, ends a whole one with a line break, and
then writes, of which a crash or an error leaves a `Part`. The four files of a run that
are appended in the same way are one.

Not claimed: `Abort` looks who is live, lets the gate go, and then marks the run, so the
marker may meet a later process of the same run, or one that has left; and `status` asks
for the lock and for the pointer in two looks, so that a resume between them may be shown
with the pid of a driver that is gone. Left out: errors of file calls other than a short
write, and a loss of power.

## 8. Runs

| run | instance | checks |
|---|---|---|
| `run_halts` | 3 phases, 3 depending on 1; 2 halts, an abort, a crash; two processes | `TypeOK`, `Accounted`, `ExitTruth`, `HaltNotForgotten`, `DepsBefore`, `BlockedNeverLands` |
| `run_requests` | 2 phases; stop, pause, continue, abort, interrupt, a lost watchdog whose news is a halt, one restart; fairness | `HaltNotForgotten`, `StopAfterEnds`, `AbortEnds`, `RunEnds` |
| `land_faults` | 2 phases, todo tracked or local, every call failing; 3 processes | `TypeOK`, `GateFirst`, `RecordTrue`, `OneCommit`, `LandingKnown`, `ErrorLeavesNoTick`, `KeepsPromise` |
| `asks_restart` | one worker, 2 asks, 2 attempts, 2 dialogs in the first and 1 in the second | `TypeOK`, `CountTrue`, `WaitsForSomething`, `AnsweredIsHanded`, `NothingLeftOpen`, `AskerIsFree`, `TypedIntoTheLiving` |
| `asks_reviewers` | a worker and a reviewer, 2 questions, one attempt, a death of the driver; fairness | `OkIsCommitted`, `AnswerSettles`, `AnswersOnce` |
| `watch_panel` | 3 terminals of 2 spaces, one ask, one review round, one nudge; panes that go | `TypeOK`, `RowTells`, `FinalShown` |
| `watch_clock` | one ask, two nudges, with a backstop of one tick and with none, a host that may not tell the state; fairness | `SilentEnds`, `NudgesEnd` |
| `store_commands` | 3 commands, 2 runs, 2 writes, one killed; fairness | `TypeOK`, `Published`, `Tells`, `ResumesOpen`, `AbortHeld`, `Loads`, `ReadStays`, `Settles` |
| `run_wide_halt` | violated: `RunWideHaltStops` | finding 1 |
| `land_lost` | violated: `ResumeReconciles` | finding 2 |
| `asks_killed` | violated: `QuestionNeverKills` | finding 3 |
| `watch_ended` | violated: `EndedStays` | finding 4 |

### Bounds

`N`, `K`, `MaxRestarts`, `MaxNudges` and the dependencies are parameters of a real run; every
other `Max...`, and the sets `Events`, `Faults`, `Gone`, `Jobs`, `Kinds`, bound what the
outside does.

- *Loop*. Three phases are the least with a phase blocked, one depending on it and one
  that does not; two halts the least where one overwrites another in the slot; two
  processes the least with a resume. The lost watchdog is in `run_requests` only, for the
  size of the run, with `HaltNotForgotten` stated there too. One restart shows the limit reached and refused.
  The theorems need none of these bounds to be small.
- *Landing*. Two phases are the least where one landing follows another that went wrong,
  and three processes the least with a resume that dies while it reconciles.
- *Asks*. Two asks are the least that race each other for one session, or where one is
  left of an attempt before; two dialogs of an agent the least where one takes the place
  of another; two attempts the least where an ask could be counted for the wrong one.
  `AnswersOnce` is checked where the driver dies and resumes; it was seen to hold in the
  instance of `asks_restart`, with dialogs and a second attempt, which it makes too slow
  to keep it there, and its theorem has neither bound.
- *Panel*. Two terminals of the space are the least over which a tag is not atomic, and
  one of another space shows that it is let alone. One ask suffices for a tag that waits
  and one that does not, from two threads. The clock needs the limit of nudges reached
  after one that was taken up, so two.
- *Store*. Two drivers and a third command that asks, kills the pair's order, or comes in
  between; two runs, so that the pointer can name the wrong one; two writes, one cut
  short and one after it. The theorems need none of these bounds.

`LandFaults` leaves two faults out. With a tracked todo file git does not refuse the reset
of a commit that was refused: if it does, the phase is merged and unrecorded, and
`LandingKnown` and `Landing` do not hold; the code has no answer to it, and reports the
error. With a local todo file the gate is never red, for the size of the run.
`LandingKnown` speaks of a tracked todo file only, for the reasons of finding 2 and
because a foreign change swept into a commit keeps a resume from recognising it.

Deadlock is checked for the step of `StepWatch`, which ends in `Ended`. Elsewhere the
system really stops: a run exits and no process may follow, commands end.

### Fairness

- `RunLoop` (`FairSpec`, `run_requests` only): weak fairness of `Loop`, since its goroutine
  polls at every wait; of `RunnerEnd`, since every wait of a runner has a timeout (stall,
  nudge, step timeout); of the end of a landing, since its gate has one; and of `Hold`,
  since a blocker has a timeout after which the phase blocks; and of `Accept`, the calls of the
  watch, which wait for nothing but its lock. The blocker's clock stands
  still while the watchdog waits for the maintainer, so the liveness properties assume
  that the maintainer answers in the end. Nothing is assumed of the watchdog, of
  requests, or of a continue: `RunEnds` allows a run to stay paused.
- `Asks` (`FairSpec`, `asks_reviewers`): weak fairness of each thread of an ask, of starting
  and finishing a step, of recording a halt and of withdrawing, none of which waits for
  anybody; of a runner's end once it is cancelled; of the return of `Blocked`; and of the end of an agent's turn,
  which `hand` waits for and the driver does not control. An agent that sits on a dialog
  is excepted in `AnswerSettles` itself. No fairness for the watchdog, for halts, or for
  a step that nobody stops.
- `StepWatch` (`FairSpec`, `watch_clock`): weak fairness of the runner, which a ticker
  wakes, of each thread's tag, of `LoopEnd` and of `Withdraw`. The agent, the answers and
  the halt need not come; `SilentEnds` assumes in its own words that the agent stops
  working, that nothing stays open, and that there is a backstop or the host tells the
  agent's state again and again.
- `RunStore` (`FairSpec`): weak fairness of each process's own steps. No more is needed for
  the gate, which is waited for, because there are finitely many commands and each
  takes it a bounded number of times. A driver's return of its own is not assumed.

### Findings

1. **A halt of the run before a landing** (`RunWideHaltStops`). The tech design
   (780-782) says that such a halt halts the run with 5; loop.go:434-439 makes it a
   halt of the phase about to land, and the loop goes on to the next phase.
2. **A forgotten landing** (`ResumeReconciles`). With a driver-local todo file, the
   tick comes after the commit, and when it fails (land.go:530) the phase is merged,
   unticked and unrecorded. If another phase lands after it, a resume looks at the
   last intent, which is recorded, and does nothing (resume.go:103-111); the tech
   design (479-481, 536) says that the last *unrecorded* one is reconciled and a local
   todo ticked. The phase is then run again.
3. **A question at the backstop** (`QuestionNeverKills`). `tick` fails a step by its
   backstop when no question is open (session.go:601-611), but its session lives until
   `Finish` ends it (session.go:926). A question admitted in between makes `ended`
   (loop.go:1315) halt the run for the invariant "a question never kills a step"
   (loop.go:67), though the time had run out before the question came.
4. **A failed step that waits for input** (`EndedStays`). A halt ends the session only
   when the loop knows of it (loop.go:1174). Taken in before `Started`, it records the
   step failed and leaves the session open; a question waiting for it is then admitted,
   and `waiting-input` appended after `failed` (loop.go:1717). `Finish` sees a step that has
   not ended. The tech design (63-65, 681-683) says that failed is terminal and that
   such a question never moves the step to `waiting-input`.

Two more disagreements were met that no run shows: `src/README.md:220` says the exit code
comes from the first blocked phase, where loop.go:264-267 exits 5 when a halt or a stop
ended the run, whatever blocked before (`ExitTruth` states what the code does); and the
text of a panel row named in section 6.

## 9. Proofs

`RunLoopProofs` proves for `RunLoop`, for every `N`, dependencies, `K`,
`MaxRestarts`, events and bounds (the named assumptions of the module: sizes are
natural numbers, dependencies are sets of phases):

`TypeCorrect`, `PhasesAccounted`, `ExitIsTrue`, `NoHaltForgotten`,
`DependenciesLandFirst`, `NoBlockedLanding`.

They all follow from the inductive invariant `IInv`, proved in `InitInv`, `NextInv` and
`Invariance`. None of the properties is inductive as it stands:

- that a phase is in one place needs `InOrder` (what is pending is ahead of the
  cursor) and `AtCursor` (the phase the loop is inside of is in no place, except when
  a halt has blocked it as its step ended);
- that a blocked phase does not land needs `QueueInv`: what is queued when a phase is
  entered, and what a call is about to queue, names blocked phases only, so taking it in
  cannot block the phase that is being checked. A halt of the run is queued by a call that
  saw no step and then one, and the loop does not come to the next phase without a drain,
  which waits for the calls. This is where `Watch` forwarding halts only to a live or an ended
  step matters;
- dependencies need `DepsInv`: a first run leaves no phase pending that depends on a
  blocked one (`Dependents` is closed, lemma `BlockClosed`), a resumed run asks at
  entry (`unmetDependency`);
- the exit code needs `EndInv`, which ties `first`, `blocked`, `halted` and `stopped`
  together at the end of the loop, and the forgotten halt needs `HaltInv`, which
  follows a halt from the call that brings it through the queue or slot and `batch` to
  `halted`, `nextHalt` or the outcome of the phase it blocks.

Each part has a lemma with one step per action. `Dependents` is defined as a least
closed set, not by the iteration of the code, so that the proof can use its closure.

`LandProofs` proves for `Land`, for any number of phases, retries, gate fixes and
processes, and any set of faults for either kind of todo file:

- `TypeCorrect`, `GateIsFirst`, `RecordsTrue` and `ErrorsLeaveNoTick`, whatever fails;
- `CommitsWhole`, `LandingsKnown` and `ImplementsLanding` (`Land` implements `Landing`:
  `Spec => KeepsPromise`) under `TrackedResets`: with a tracked todo file, git does not
  refuse the reset of a commit that is not whole. Without it a commit can stay that
  nobody will record, and these are false; the run `land_faults` has the same restriction.

The first group follows from `IInv`. Its parts say that the landing under way is of a
phase not landed (`CtlInv`), that the intent is that landing's and that a commit intent
was written for a tip whose gate passed (`IntentInv`, `GreenInv`), where the branch is,
relative to the base the intent recorded (`HeadInv`), that a tracked todo file is ahead of
the branch by one tick at most and by whose (`TreeInv`, which is what lets a resume take
it back), and that no record is ahead of the branch (`RecordInv`). The second group needs
`KnownInv` too: code that is in the branch and not recorded is that of the last intent,
and is the commit a resume looks for. There is one subtle step: taking back a commit takes
no earlier one's code with it, because a phase that has code has a tick, and a phase whose
tick is being committed had none (`ResetKnown`). For the refinement, `Turn` says what a
step may do to the recorded and the waiting phases; `TurnIsStep` makes it a step of
`Landing`; `TrackedTurn` and `LocalTurn` show that every step is one, with a tracked todo
file from `KnownInv`, with a local one from `IntentInv` alone.

`AsksProofs` proves for `Asks`, for any number of asks, agents, attempts, dialogs and
crashes: `TypeCorrect`, `CountIsTrue`, `WaitingIsAsking`, `AnswersHanded`, `NothingOpen`,
`AskersFree`, `OkCommitted`, `TypedToTheLiving`, and `ImplementsAnswering`
(`Spec => AnswersOnce`). None of the properties is
inductive: what may happen to an ask depends on where its own thread is, on whether the
driver holds it, and on what the router, the ask server and the record were told of it in
the meantime. The parts of `IInv` say this, one relation each:

- `FlowInv`: where the driver and the step's runner are, and what they may hold there; a
  step that was finished has an ended session, so nothing new can be asked while its asks
  are withdrawn;
- `NewInv`: an ask that no thread has admitted is held by nobody;
- `RouteInv`: an ask that is still to be routed is held and not answered, unless the router
  was told to forget it: this is what late routing needs;
- `SavedInv`: what the record says of an ask, by the place of its thread and by who holds
  it; an answered question was told, lost, or is about to be handed over;
- `ServerInv`: a question the ask server holds open is open in the record too;
- `PressInv`: while the keys of a dialog are pressed its session lives and
  it is the running attempt's, in no table and counted still (`Asked`);
- `CommitInv`: the commit of a step about to be recorded ok, over its intent.

Most steps leave the asks alone (`Quiet`, lemma `Touching`), and the lemmas about asks have
one case for each step that does not (`Touch`). For the refinement, `LifeInv` adds that an
ask in somebody's hands is of the running attempt, was not told to its agent, and is
recorded answered just when the table says so; `Turn` is what a step may do to the stages
of the asks, `StepTurn` shows that every step is one and `TurnIsStep` that each is a step
of `Answering`. The count goes up and down with the table
by `Opening` and `Closing`, from the library's facts on finite sets.

`RunStoreProofs` proves for `RunStore`, for any number of commands, runs, writes and
killed processes: `DriverPublished`, `LiveTold`, `ResumedIsOpen`, `AbortKept`, `LogsLoad`,
`ReadRecordsStay` and `StoreTypeCorrect`. Its `IInv` says, part by part: who holds the gate
and the lock by where a process is (`LocksInv`: it is here that one driver at a time
comes from); which command and which run a place implies (`JobInv`); what the pointer
holds while a driver drives, and that nobody else writes it without both locks
(`PointInv`); what a process that was told something may still rely on (`ToldInv`); that a
marker is removed only where no driver is asked (`AskedInv`); and that a cut short record
is the last of its log (`LogInv`). The lemmas about `Written` and `Repaired` carry the two
properties of the log.

`StepWatchProofs` proves for `StepWatch`, for any terminals of the space, graces, timeouts,
numbers of nudges, asks and rounds: `TypeCorrect`, which holds the limits of the watch's
counters, and, when the app lists live terminals only (`ListsLive`), `RowTrue` (`RowTells`)
and `FinalTrue` (`FinalShown`). Without `ListsLive` both are false, for the stale labels
named in section 6. The parts of `IInv`:

- `ClockInv`: a tick looks at the backstop before the next one counts, a nudge is
  prepared only when one is left, a round is entered likewise;
- `AgentInv`: an agent of the space is the worker's or a reviewer's, and a terminal
  without an agent has no labels;
- `EndInv`: who may still tag as the step ends. A tag of a question is made under the
  session's lock, so none is under way once `Finish` has ended the session, and the
  loop tags after the runner is done;
- `WaitInv`: a tag that puts the wait on is under way only while something is open; when
  nothing is, each wait still shown is on a terminal that some tag has yet to pass
  (`Clears`), unless a tag failed;
- `FinalInv`: what the loop's last tag has passed shows the outcome.

`WaitInv` is the one that is not local: a tag goes over the terminals in the order of the
layout it read, while panes open, close and finish, and others tag too. Its proof first
takes every step of the specification to one of a few kinds (`PanelStep`, lemma
`PanelSteps`: nothing on the panel, a tag that takes the wait off, one that puts it on, a
step of a tag, a pane, an ask that ends), and shows the invariant for the kinds; the loop's
part is done likewise (`LoopStep`). A tag in progress and none are told apart by the
assumption that `None` is no tag (`PanelAssumption`).

Only model-checked: liveness and the fairness it needs (`StopAfterEnds`, `AbortEnds`,
`RunEnds`, `AnswerSettles`, `SilentEnds`, `NudgesEnd`, `Settles`), which TLAPS cannot prove with
ENABLED. Every invariant and action property of the passing runs has a theorem.

## 10. Not modelled

Listed with reasons under `components` in `PROJECT.json`. In short:

- text: plan parsing, prompts, configuration, reports, memory;
- clients of external programs (hosts, analysers, notifiers), and displays other than
  herdr's panel;
- who claims and expires a blocker (`core/blockers.go`): its outcomes are the actions
  `Held...` of `RunLoop`, and the mechanism, one claim under a mutex, is the one of the
  asks of `Asks`;
- the capacity of the signal channel and its parked signals, one queue in `RunLoop`,
  because both keep the order of arrival and the loop empties both in `Drain`;
- the watchdog's own session and its queue of messages: what it may do to a run is
  there, unconstrained;
- the findings and verdicts of a review's rounds, the triage, the checks of a plan and
  the milestone's report: each is one session at a time, whose life is that of a step in
  `StepWatch`, around prompts and edits of text.
