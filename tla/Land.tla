-------------------------------- MODULE Land --------------------------------
(***************************************************************************)
(* Landing the phases of a run (internal/core/land.go) and what a resume   *)
(* makes of a landing that a crash cut short (reconcileLand in             *)
(* internal/app/resume.go).  A landing writes to three places that no      *)
(* transaction joins: the run store (a merge intent, a commit intent, the  *)
(* landing record), the git repository (the merge, its commit) and the     *)
(* working tree (the tick in the todo file).  Here every write is a step   *)
(* of its own, the driver can die between any two of them, and somebody    *)
(* else can change a file of the primary tree at any moment.               *)
(*                                                                         *)
(* The todo file is tracked, and then its tick is committed with the code, *)
(* or it is local to the driver, and then it is ticked after the commit.   *)
(* Which of the two a run has never changes.                               *)
(***************************************************************************)
EXTENDS Integers, Sequences, FiniteSets

CONSTANTS
  N,          \* the phases of the run list are 1..N, landed in this order
  TodoFiles,  \* bound: the kinds of todo file a run may have: is it local?
  Faults(_),  \* bound: the operations that may fail, of AllFaults, for each kind
  MaxTries,   \* bound: landings of a phase tried again in one process
  MaxTips,    \* bound: gate fixes committed to a phase's branch
  MaxStarts   \* bound: processes, resumes included

AllFaults == {"store", "conflict", "gate", "tick", "commit", "touches", "abort",
              "reset", "interrupt", "edit"}

ASSUME NAssumption == N \in Nat \ {0}
ASSUME TodoAssumption == TodoFiles \subseteq BOOLEAN
ASSUME FaultsAssumption == \A l \in TodoFiles : Faults(l) \subseteq AllFaults
ASSUME BoundsAssumption ==
  MaxTries \in Nat /\ MaxTips \in Nat /\ MaxStarts \in Nat \ {0}

Phases == 1..N
Tips   == 0..MaxTips
None   == [phase |-> 0]

VARIABLES
  local,    \* the todo file is not tracked by git
  head,     \* git: the commits of the run's branch since the run started
  merging,  \* git: the branch tip in MERGE_HEAD, or None
  tip,      \* git: the tip of each phase's branch
  todo,     \* tree: the phases ticked in the todo file
  edit,     \* tree: a file somebody else changed
  landed,   \* store: the phases whose landing is recorded
  intent,   \* store: the last merge intent, with its commit intent, or None
  pc,       \* where the driver is
  cur,      \* the phase it is landing
  left,     \* the phases it has not visited
  tries,    \* landings tried again
  starts,   \* processes started
  green     \* history: the branch tips whose gate passed

git   == <<head, merging, tip>>
tree  == <<todo, edit>>
store == <<landed, intent>>
ctl   == <<local, cur, left, tries, starts>>
vars  == <<git, tree, store, pc, ctl, green>>

-----------------------------------------------------------------------------
(* The repository.                                                         *)

\* A commit brings the code of a phase, as of a tip of its branch, its tick in
\* the todo file, and, if swept, somebody else's change.
Commits == [phase : Phases, code : BOOLEAN, tick : BOOLEAN, tip : Tips,
            swept : BOOLEAN]

HeadCommits == {head[i] : i \in 1..Len(head)}

\* The phases whose code is in a commit of the branch.
Merged == {c.phase : c \in {d \in HeadCommits : d.code}}

\* The ticks committed; a local todo file has none.
Committed == {c.phase : c \in {d \in HeadCommits : d.tick}}

\* cleanTree: the primary tree holds nothing that HEAD does not.
CleanTree == ~edit /\ (local \/ todo = Committed)

\* git merge finds the branch merged already, and starts no merge.
UpToDate == \E c \in HeadCommits : c.code /\ c.phase = cur /\ c.tip = tip[cur]

Fails(op) == op \in Faults(local)

\* AbortMerge: the merge is gone from the tree, unless git refuses.
AbortMerge ==
  \/ merging' = None
  \/ Fails("abort") /\ merging # None /\ UNCHANGED merging

\* Commit: the index is committed, the todo file with it when it is tracked,
\* everything in the tree when it is not.  Nothing staged is no commit.
Commit(p) ==
  /\ merging # None \/ ~local \/ edit
  /\ head' = Append(head, [phase |-> p, code |-> merging # None,
                           tick |-> ~local /\ p \in todo, tip |-> tip[p],
                           swept |-> local /\ edit])
  /\ merging' = None
  /\ edit' = (edit /\ ~local)

-----------------------------------------------------------------------------
(* The driver, landing a phase.                                            *)

Init ==
  /\ local \in TodoFiles
  /\ head = <<>> /\ merging = None
  /\ tip = [p \in Phases |-> 0]
  /\ todo = {} /\ edit = FALSE
  /\ landed = {} /\ intent = None
  /\ pc = "idle" /\ cur = 0 /\ left = Phases
  /\ tries = 0 /\ starts = 1
  /\ green = {}

\* The loop goes to the next phase, or ends before it.
Pick ==
  /\ pc = "idle"
  /\ \/ /\ pc' = "ended"
        /\ UNCHANGED ctl
     \/ \E p \in left :
        /\ \A q \in left : p <= q
        /\ cur' = p
        /\ left' = left \ {p}
        /\ tries' = 0
        /\ pc' = "guard"
        /\ UNCHANGED <<local, starts>>
  /\ UNCHANGED <<git, tree, store, green>>

\* pickGate, guard: nothing is merging and the tree is clean; a landing that
\* has no gate chosen, or finds no command, fails here too.
Guard ==
  /\ pc = "guard"
  /\ \/ merging = None /\ CleanTree /\ pc' = "intent"
     \/ pc' = "failed"
  /\ UNCHANGED <<git, tree, store, ctl, green>>

\* A record that cannot be written ends the run.
StoreFails == Fails("store") /\ pc' = "ended"

MergeIntent ==
  /\ pc = "intent"
  /\ \/ /\ intent' = [phase |-> cur, base |-> Len(head), ticks |-> {}, commit |-> FALSE]
        /\ pc' = "merge"
     \/ StoreFails /\ UNCHANGED intent
  /\ UNCHANGED <<git, tree, landed, ctl, green>>

\* MergeNoFF: the branch is merged and not committed; a conflict is aborted; an
\* interrupted merge is aborted or, if git refuses, reset away.
Merge ==
  /\ pc = "merge"
  /\ \/ /\ merging' = IF UpToDate THEN None ELSE [phase |-> cur, tip |-> tip[cur]]
        /\ pc' = "merged"
        /\ UNCHANGED edit
     \/ /\ Fails("conflict") /\ ~UpToDate
        /\ \/ merging' = None
           \/ Fails("abort") /\ merging' = [phase |-> cur, tip |-> tip[cur]]
        /\ pc' = "failed"
        /\ UNCHANGED edit
     \/ /\ Fails("interrupt")
        /\ \/ UNCHANGED <<merging, edit>>
           \/ Fails("abort") /\ edit' = FALSE /\ UNCHANGED merging
           \/ /\ Fails("abort") /\ Fails("reset")
              /\ merging' = [phase |-> cur, tip |-> tip[cur]]
              /\ UNCHANGED edit
        /\ pc' = "ended"
  /\ UNCHANGED <<head, tip, todo, store, ctl, green>>

\* attempt, after the merge: what is staged must be what is in the tree.
Baseline ==
  /\ pc = "merged"
  /\ \/ ~edit /\ pc' = "gate" /\ UNCHANGED merging
     \/ edit /\ AbortMerge /\ pc' = "failed"
  /\ UNCHANGED <<head, tip, tree, store, ctl, green>>

\* The gate passes; or it is red, the merge is aborted, and a fix is committed
\* to the phase's branch before the landing starts again, or the landing fails.
Gate ==
  /\ pc = "gate"
  /\ \/ /\ green' = green \cup {<<cur, tip[cur]>>}
        /\ pc' = "gated"
        /\ UNCHANGED <<merging, tip>>
     \/ /\ Fails("gate")
        /\ AbortMerge
        /\ \/ /\ tip[cur] < MaxTips
              /\ tip' = [tip EXCEPT ![cur] = @ + 1]
              /\ pc' = "guard"
           \/ pc' = "failed" /\ UNCHANGED tip
        /\ UNCHANGED green
     \/ /\ Fails("interrupt")
        /\ AbortMerge
        /\ pc' = "ended"
        /\ UNCHANGED <<tip, green>>
  /\ UNCHANGED <<head, tree, store, ctl>>

\* attempt, after the gate: the tree must be as merged; then a tracked todo
\* file is ticked.  A failed tick is taken back before the merge is aborted.
TickTodo ==
  /\ pc = "gated"
  /\ \/ /\ ~edit /\ local
        /\ pc' = "tree"
        /\ UNCHANGED <<merging, todo>>
     \/ /\ ~edit /\ ~local /\ cur \notin todo
        /\ todo' = todo \cup {cur}
        /\ pc' = "tree"
        /\ UNCHANGED merging
     \/ /\ edit \/ (~local /\ (Fails("tick") \/ cur \in todo))
        /\ AbortMerge
        /\ pc' = "failed"
        /\ UNCHANGED todo
  /\ UNCHANGED <<head, tip, edit, store, ctl, green>>

\* attempt, before the commit: the intended index must be the tree; it is
\* recorded in the commit intent.
CommitIntent ==
  /\ pc = "tree"
  /\ \/ /\ ~edit
        /\ intent' = [intent EXCEPT !.commit = TRUE, !.ticks = todo]
        /\ pc' = "commit"
        /\ UNCHANGED <<merging, todo>>
     \/ /\ \/ edit /\ pc' = "failed"
           \/ ~edit /\ StoreFails
        /\ todo' = IF local THEN todo ELSE todo \ {cur}
        /\ AbortMerge
        /\ UNCHANGED intent
  /\ UNCHANGED <<head, tip, edit, landed, ctl, green>>

\* A bug: a failed commit leaves the tick.
CommitLandingTicked ==
  /\ pc = "commit"
  /\ \/ /\ Commit(cur)
        /\ pc' = "check"
     \/ /\ Fails("commit")
        /\ AbortMerge
        /\ pc' = "failed"
        /\ UNCHANGED <<head, edit>>
  /\ UNCHANGED <<tip, todo, store, ctl, green>>

\* Commit, in attempt: when it fails the merge is aborted, twice if need be, and
\* the todo file restored.
CommitLanding ==
  /\ pc = "commit"
  /\ \/ /\ Commit(cur)
        /\ pc' = "check"
        /\ UNCHANGED todo
     \/ /\ Fails("commit") \/ (merging = None /\ local /\ ~edit)
        /\ todo' = IF local THEN todo ELSE todo \ {cur}
        /\ AbortMerge
        /\ pc' = "failed"
        /\ UNCHANGED <<head, edit>>
  /\ UNCHANGED <<tip, store, ctl, green>>

\* CommitTouches: the todo file and one more are in the commit, or, when the
\* todo file is local, any file is.
Whole(c) == IF local THEN c.code \/ c.swept ELSE c.code /\ c.tick

\* A bug: a commit that is refused stays.
CheckCommitKeeps ==
  /\ pc = "check"
  /\ pc' = IF Fails("touches") THEN "failed" ELSE "record"
  /\ UNCHANGED <<git, tree, store, ctl, green>>

\* Code and tick must have landed as one commit, or code alone with a local
\* todo file.  A commit that is not so is reset away.
CheckCommit ==
  /\ pc = "check"
  /\ \/ /\ Whole(head[Len(head)])
        /\ pc' = IF local THEN "tick" ELSE "record"
        /\ UNCHANGED <<head, todo>>
     \/ /\ Fails("touches") \/ ~Whole(head[Len(head)])
        /\ \/ /\ head' = SubSeq(head, 1, Len(head) - 1)
              /\ todo' = IF local THEN todo ELSE todo \ {cur}
           \/ Fails("reset") /\ UNCHANGED <<head, todo>>
        /\ pc' = "failed"
  /\ UNCHANGED <<merging, tip, edit, store, ctl, green>>

\* A local todo file is ticked after the commit, which stays when that fails.
TickLocal ==
  /\ pc = "tick"
  /\ \/ cur \notin todo /\ todo' = todo \cup {cur} /\ pc' = "record"
     \/ (Fails("tick") \/ cur \in todo) /\ pc' = "failed" /\ UNCHANGED todo
  /\ UNCHANGED <<git, edit, store, ctl, green>>

Record ==
  /\ pc = "record"
  /\ \/ landed' = landed \cup {cur} /\ pc' = "idle"
     \/ StoreFails /\ UNCHANGED landed
  /\ UNCHANGED <<git, tree, intent, ctl, green>>

\* A bug: a landing can be tried again without end.
BlockerUnbounded ==
  /\ pc = "failed"
  /\ tries' = tries + 1 /\ pc' = "guard"
  /\ UNCHANGED <<git, tree, store, local, cur, left, starts, green>>

\* landBlocker: the landing is tried again, or the phase is blocked.
Blocker ==
  /\ pc = "failed"
  /\ \/ tries < MaxTries /\ tries' = tries + 1 /\ pc' = "guard"
     \/ pc' = "idle" /\ UNCHANGED tries
  /\ UNCHANGED <<git, tree, store, local, cur, left, starts, green>>

-----------------------------------------------------------------------------
(* A resume.                                                               *)

Crash ==
  /\ pc # "ended"
  /\ pc' = "ended"
  /\ UNCHANGED <<git, tree, store, ctl, green>>

Resume ==
  /\ pc = "ended" /\ starts < MaxStarts
  /\ starts' = starts + 1
  /\ pc' = "reconcile"
  /\ UNCHANGED <<git, tree, store, local, cur, left, tries, green>>

\* The resume is refused; the maintainer has to look.
Refuse == pc' = "ended"

\* The last merge intent, when its phase is not recorded as landed.
Unrecorded == IF intent = None THEN FALSE ELSE intent.phase \notin landed

\* The merge in the tree is the intent's: its branch tip, on its base.
Owned ==
  /\ merging = [phase |-> intent.phase, tip |-> tip[intent.phase]]
  /\ Len(head) = intent.base

\* A bug: a commit is never found.
LandedCommitNever == FALSE

\* LandedCommit: the commit on the intent's base that merges the branch's tip
\* and has the tree the commit intent recorded.
LandedCommit ==
  /\ intent.commit
  /\ Len(head) > intent.base
  /\ LET c == head[intent.base + 1] IN
     c.code /\ c.phase = intent.phase /\ c.tip = tip[intent.phase] /\ ~c.swept

\* reconcileLand finds nothing to do: no landing was open, a merge is not its
\* own (the clean check refuses it later), or nothing was committed.
ReconcileNothing ==
  /\ pc = "reconcile"
  /\ \/ ~Unrecorded
     \/ Unrecorded /\ merging # None /\ ~Owned
     \/ Unrecorded /\ merging = None /\ ~LandedCommit
  /\ pc' = "clean"
  /\ UNCHANGED <<git, tree, store, ctl, green>>

\* Bugs: a merge with no commit intent is completed; any tree is committed.
ReconcileCommitUngated ==
  /\ pc = "reconcile"
  /\ Unrecorded /\ merging # None /\ Owned /\ ~edit
  /\ Commit(intent.phase)
  /\ pc' = "relanded"
  /\ UNCHANGED <<tip, todo, store, ctl, green>>

ReconcileCommitAnyTree ==
  /\ pc = "reconcile"
  /\ Unrecorded /\ merging # None /\ Owned /\ intent.commit
  /\ Commit(intent.phase)
  /\ pc' = "relanded"
  /\ UNCHANGED <<tip, todo, store, ctl, green>>

\* The tree is the one of the commit intent: the merge is completed.
ReconcileCommit ==
  /\ pc = "reconcile"
  /\ Unrecorded /\ merging # None /\ Owned
  /\ intent.commit /\ ~edit /\ todo = intent.ticks
  /\ \/ /\ Commit(intent.phase)
        /\ pc' = "relanded"
     \/ /\ Fails("commit") /\ Refuse
        /\ UNCHANGED <<head, merging, edit>>
  /\ UNCHANGED <<tip, todo, store, ctl, green>>

\* No commit was intended, and the tree holds the merge and at most the phase's
\* own tick: the tick is taken back and the merge aborted.  Any other tree is
\* refused.
ReconcileAbort ==
  /\ pc = "reconcile"
  /\ Unrecorded /\ merging # None /\ Owned
  /\ ~(intent.commit /\ ~edit /\ todo = intent.ticks)
  /\ \/ /\ ~intent.commit /\ ~edit
        /\ local \/ todo \ {intent.phase} = Committed
        /\ \/ /\ merging' = None
              /\ todo' = IF local THEN todo ELSE Committed
              /\ pc' = "clean"
           \/ Fails("abort") /\ Refuse /\ UNCHANGED <<merging, todo>>
     \/ /\ intent.commit \/ edit \/ ~(local \/ todo \ {intent.phase} = Committed)
        /\ Refuse
        /\ UNCHANGED <<merging, todo>>
  /\ UNCHANGED <<head, tip, edit, store, ctl, green>>

\* The commit was made before the crash.
ReconcileLanded ==
  /\ pc = "reconcile"
  /\ Unrecorded /\ merging = None /\ LandedCommit
  /\ pc' = "relanded"
  /\ UNCHANGED <<git, tree, store, ctl, green>>

\* A bug: a local todo file stays unticked.
ReTickNever ==
  /\ pc = "relanded"
  /\ pc' = "rerecord"
  /\ UNCHANGED <<git, tree, store, ctl, green>>

\* landing, in reconcileLand: a local todo file is ticked, if it is not yet,
\* and the landing recorded.
ReTick ==
  /\ pc = "relanded"
  /\ \/ /\ todo' = IF local THEN todo \cup {intent.phase} ELSE todo
        /\ pc' = "rerecord"
     \/ Fails("tick") /\ local /\ Refuse /\ UNCHANGED todo
  /\ UNCHANGED <<git, edit, store, ctl, green>>

ReRecord ==
  /\ pc = "rerecord"
  /\ \/ landed' = landed \cup {intent.phase} /\ pc' = "clean"
     \/ StoreFails /\ UNCHANGED landed
  /\ UNCHANGED <<git, tree, intent, ctl, green>>

\* clean, resume: a clean tree is asked for, and the phases of the recorded run
\* list that are not ticked are run, those recorded as landed left out.
Start ==
  /\ pc = "clean"
  /\ \/ /\ merging = None /\ CleanTree /\ Phases \ todo # {}
        /\ left' = Phases \ (todo \cup landed)
        /\ pc' = "idle"
     \/ /\ merging # None \/ ~CleanTree \/ Phases \ todo = {}
        /\ Refuse
        /\ UNCHANGED left
  /\ UNCHANGED <<git, tree, store, local, cur, tries, starts, green>>

-----------------------------------------------------------------------------
(* Everybody else.                                                         *)

\* A file of the primary tree is changed by somebody else.
Edit ==
  /\ Fails("edit") /\ ~edit
  /\ edit' = TRUE
  /\ UNCHANGED <<git, todo, store, pc, ctl, green>>

\* The maintainer clears the tree of a run that ended, as a refusal asks.
ByHand ==
  /\ pc = "ended"
  /\ merging # None \/ ~CleanTree
  /\ merging' = None
  /\ edit' = FALSE
  /\ todo' = IF local THEN todo ELSE Committed
  /\ UNCHANGED <<head, tip, store, pc, ctl, green>>

-----------------------------------------------------------------------------
Driver == \/ Pick \/ Guard \/ MergeIntent \/ Merge \/ Baseline \/ Gate \/ TickTodo
          \/ CommitIntent \/ CommitLanding \/ CheckCommit \/ TickLocal \/ Record
          \/ Blocker

Reconcile == \/ ReconcileNothing \/ ReconcileCommit \/ ReconcileAbort
             \/ ReconcileLanded \/ ReTick \/ ReRecord \/ Start

Next == Driver \/ Reconcile \/ Crash \/ Resume \/ Edit \/ ByHand

Spec == Init /\ [][Next]_vars

-----------------------------------------------------------------------------
(* Properties.                                                             *)

Intents == [phase : Phases, base : Nat, ticks : SUBSET Phases, commit : BOOLEAN]

\* The type invariant.
TypeOK ==
  /\ local \in TodoFiles
  /\ head \in Seq(Commits)
  /\ merging \in [phase : Phases, tip : Tips] \cup {None}
  /\ tip \in [Phases -> Tips]
  /\ todo \in SUBSET Phases /\ edit \in BOOLEAN
  /\ landed \in SUBSET Phases
  /\ intent \in Intents \cup {None}
  /\ pc \in {"idle", "guard", "intent", "merge", "merged", "gate", "gated", "tree",
             "commit", "check", "tick", "record", "failed", "ended", "reconcile",
             "relanded", "rerecord", "clean"}
  /\ cur \in Phases \cup {0} /\ left \in SUBSET Phases
  /\ tries \in 0..MaxTries /\ starts \in 1..MaxStarts
  /\ green \in SUBSET (Phases \X Tips)

\* No merge commit exists unless its gate passed: for the very tip of the
\* branch that was merged, and whoever made the commit, the landing or a resume.
GateFirst == \A c \in HeadCommits : c.code => <<c.phase, c.tip>> \in green

\* A record of a landing is true: the phase's code is in the branch, and its
\* tick with it.
RecordTrue == landed \subseteq Merged /\ landed \subseteq todo

\* Code and tick land as one commit: between two phases, every commit of the
\* branch holds both.
OneCommit == pc = "idle" /\ ~local => \A c \in HeadCommits : c.code /\ c.tick

\* A landing that was made is known: whenever a driver goes to its next phase,
\* the phases whose code is in the branch are recorded as landed, those a crash
\* cut short included.  With a local todo file this is not so: see
\* ResumeReconciles.
LandingKnown == pc = "idle" /\ ~local => Merged \subseteq landed

\* A landing that failed leaves no tick behind, whatever else failed with it:
\* the todo file is as the branch has it.
ErrorLeavesNoTick == pc = "failed" /\ ~local => todo = Committed

\* What the documentation says of a resume: it reconciles the last unrecorded
\* merge intent.  So when the last intent of all is recorded, and a resume finds
\* nothing to do, no earlier one has a merge commit that is not recorded.
ResumeReconciles ==
  [][pc = "reconcile" /\ pc' = "clean" /\ intent # None /\ ~Unrecorded
       => Merged \subseteq landed]_vars

-----------------------------------------------------------------------------
(* The landings of a run as Landing promises them.                         *)

\* The phase whose landing is under way: the driver's, from its commit to its
\* record, or that of the last intent, until a resume has settled it.
UnderWay == IF pc \in {"check", "tick", "record"} THEN {cur}
            ELSE IF intent # None /\ pc \in {"ended", "reconcile", "relanded", "rerecord"}
                 THEN {intent.phase} ELSE {}

\* How far each phase's landing is.  With a local todo file a phase can be left
\* behind with its commit made and its tick failed; nobody is to record it any
\* more, and it counts as open.
Progress == [p \in Phases |-> IF p \in landed THEN "landed"
                              ELSE IF p \in Merged /\ (~local \/ p \in UnderWay)
                                   THEN "merged" ELSE "open"]

Promise == INSTANCE Landing WITH landing <- Progress, N <- N

\* The driver keeps Landing's promise: one landing at a time is between its
\* commit and its record, which is what lets a resume look at the last merge
\* intent only, and a recorded landing is never taken back.
KeepsPromise == Promise!Spec
=============================================================================
