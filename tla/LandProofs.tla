----------------------------- MODULE LandProofs -----------------------------
(* What a landing guarantees for any number of phases, processes, retries    *)
(* and gate fixes, and for any set of faults: the safety properties that     *)
(* MCLand checks for two phases, and that Land implements Landing.  They     *)
(* follow from the inductive invariant IInv; those which say that no landing *)
(* is forgotten need KnownInv too, and that git does not refuse to reset a   *)
(* commit when the todo file is tracked.                                     *)
EXTENDS Land, TLAPS

\* The places of a driver that has visited a phase and not left it.
Driving == {"guard", "intent", "merge", "merged", "gate", "gated", "tree", "commit",
            "check", "tick", "record", "failed"}

\* From the merge intent on, before the commit intent, to the commit, after it.
Uncommitted == {"merge", "merged", "gate", "gated", "tree"}
ToCommit    == Uncommitted \cup {"commit"}
Made        == {"check", "tick", "record"}

\* The commits of a history, and the phases of those with code, or with a tick.
Of(h)    == {h[i] : i \in 1..Len(h)}
Codes(h) == {c.phase : c \in {d \in Of(h) : d.code}}
Ticks(h) == {c.phase : c \in {d \in Of(h) : d.tick}}

Front  == SubSeq(head, 1, Len(head) - 1)
Newest == head[Len(head)]

\* A driver lands a phase it has not landed yet, and has not to come to again.
CtlInv ==
  /\ pc \in Driving \cup {"idle"} => left \cap landed = {}
  /\ pc \in Driving => cur \in Phases /\ cur \notin left /\ cur \notin landed
  /\ pc = "tick" => local

\* The merge intent is that of the landing under way; a commit intent is written
\* for a tip whose gate passed, with the phase's tick in the todo file.
IntentInv ==
  /\ pc \in ToCommit \cup Made => intent \in Intents /\ intent.phase = cur
  /\ pc \in Uncommitted => ~intent.commit
  /\ pc \in {"commit"} \cup Made => intent.commit
  /\ pc \in {"relanded", "rerecord"} =>
       intent \in Intents /\ intent.phase \in Merged /\ intent.phase \notin landed
  /\ intent \in Intents /\ intent.commit =>
       /\ <<intent.phase, tip[intent.phase]>> \in green
       /\ ~local => intent.phase \in intent.ticks

\* A gate that passed, passed for the tip that is about to be committed.
GreenInv ==
  /\ pc \in {"gated", "tree", "commit"} => <<cur, tip[cur]>> \in green
  /\ GateFirst

\* Where the branch is when a landing is under way.  A merge that is up to date
\* leaves nothing to commit, as the phase's code is there.
HeadInv ==
  /\ pc \in ToCommit => Len(head) = intent.base
  /\ pc \in Made =>
       /\ Len(head) = intent.base + 1
       /\ Newest.phase = cur /\ Newest.tip = tip[cur]
       /\ merging = None
       /\ cur \in Merged
  /\ pc \in ToCommit \ {"merge"} /\ merging = None => cur \in Merged
  /\ ~local => \A c \in HeadCommits : c.tick /\ ~c.swept

\* A tracked todo file is as committed, but for the tick of a landing that is
\* about to be committed, or that was when a driver ended.
TreeInv ==
  ~local =>
    /\ pc \in {"tree", "commit"} => cur \notin Committed /\ todo = Committed \cup {cur}
    /\ pc \in {"ended", "reconcile", "clean"} =>
         \/ todo = Committed
         \/ /\ intent \in Intents /\ intent.phase \notin Committed
            /\ todo = Committed \cup {intent.phase}
    /\ pc \notin {"tree", "commit", "ended", "reconcile", "clean"} => todo = Committed
    /\ pc = "check" => cur \notin Ticks(Front)

\* A landing is recorded when its code is in the branch and its tick is written.
RecordInv ==
  /\ landed \subseteq Merged
  /\ local => landed \subseteq todo
  /\ local /\ pc = "record" => cur \in todo
  /\ local /\ pc = "rerecord" => intent.phase \in todo

IInv == TypeOK /\ CtlInv /\ IntentInv /\ GreenInv /\ HeadInv /\ TreeInv /\ RecordInv

\* With a tracked todo file, every phase whose code is in the branch is recorded,
\* or it is the one under way, whose commit a resume finds.
KnownInv ==
  ~local =>
    /\ \A c \in HeadCommits : c.code
    /\ pc \in {"idle", "guard", "intent", "failed", "clean"} \cup ToCommit =>
         Merged \subseteq landed
    /\ pc \in Made => Merged \subseteq landed \cup {cur}
    /\ pc \in {"ended", "reconcile", "relanded", "rerecord"} =>
         \A p \in Merged \ landed :
           /\ intent \in Intents /\ p = intent.phase
           /\ LandedCommit /\ merging = None

-----------------------------------------------------------------------------
(* Lemmas on the data.                                                       *)

Merges == [phase : Phases, tip : Tips]

\* The value for no intent and no merge is neither.
LEMMA NoneApart == None \notin Intents /\ None \notin Merges
<1>1. \A x : x \in Intents \cup Merges => x.phase \in Phases
  BY DEF Intents, Merges
<1>2. None.phase \notin Phases
  BY NAssumption DEF None, Phases
<1>. QED
  BY <1>1, <1>2

\* A history with one more commit.
LEMMA Grown ==
  ASSUME NEW h \in Seq(Commits), NEW c \in Commits
  PROVE  /\ Append(h, c) \in Seq(Commits)
         /\ Len(Append(h, c)) = Len(h) + 1
         /\ Append(h, c)[Len(h) + 1] = c
         /\ SubSeq(Append(h, c), 1, Len(Append(h, c)) - 1) = h
         /\ Of(Append(h, c)) = Of(h) \cup {c}
         /\ Codes(Append(h, c)) = Codes(h) \cup (IF c.code THEN {c.phase} ELSE {})
         /\ Ticks(Append(h, c)) = Ticks(h) \cup (IF c.tick THEN {c.phase} ELSE {})
<1> DEFINE g == Append(h, c)
<1>1. g \in Seq(Commits) /\ Len(g) = Len(h) + 1 /\ g[Len(h) + 1] = c
      /\ \A i \in 1..Len(h) : g[i] = h[i]
  OBVIOUS
<1>2. SubSeq(g, 1, Len(g) - 1) = h
  OBVIOUS
<1>3. Len(h) \in Nat
  OBVIOUS
<1> HIDE DEF g
<1>4. Of(g) = Of(h) \cup {c}
  <2>1. ASSUME NEW d \in Of(g) PROVE d \in Of(h) \cup {c}
    BY <1>1, <1>3 DEF Of
  <2>2. ASSUME NEW d \in Of(h) PROVE d \in Of(g)
    BY <1>1, <1>3 DEF Of
  <2>3. c \in Of(g)
    BY <1>1, <1>3 DEF Of
  <2>. QED
    BY <2>1, <2>2, <2>3
<1>5. Codes(g) = Codes(h) \cup (IF c.code THEN {c.phase} ELSE {})
  BY <1>4 DEF Codes
<1>6. Ticks(g) = Ticks(h) \cup (IF c.tick THEN {c.phase} ELSE {})
  BY <1>4 DEF Ticks
<1>. QED
  BY <1>1, <1>2, <1>4, <1>5, <1>6 DEF g

\* The branch of the run, as a history.
LEMMA Branch == HeadCommits = Of(head) /\ Merged = Codes(head) /\ Committed = Ticks(head)
  BY DEF HeadCommits, Merged, Committed, Of, Codes, Ticks

\* The branch and its last commit.
LEMMA Parts ==
  ASSUME head \in Seq(Commits), Len(head) > 0
  PROVE  /\ Front \in Seq(Commits) /\ Newest \in Commits
         /\ Len(Front) = Len(head) - 1
         /\ Of(head) = Of(Front) \cup {Newest}
         /\ Codes(head) = Codes(Front) \cup (IF Newest.code THEN {Newest.phase} ELSE {})
         /\ Ticks(head) = Ticks(Front) \cup (IF Newest.tick THEN {Newest.phase} ELSE {})
<1>1. Front \in Seq(Commits) /\ Newest \in Commits
  BY DEF Front, Newest
<1>2. head = Append(Front, Newest)
  BY DEF Front, Newest
<1>3. Len(Front) \in Nat /\ Len(head) = Len(Front) + 1
  BY <1>1, <1>2
<1>4. Len(Front) = Len(head) - 1
  BY <1>3
<1>5. /\ Of(Append(Front, Newest)) = Of(Front) \cup {Newest}
      /\ Codes(Append(Front, Newest))
         = Codes(Front) \cup (IF Newest.code THEN {Newest.phase} ELSE {})
      /\ Ticks(Append(Front, Newest))
         = Ticks(Front) \cup (IF Newest.tick THEN {Newest.phase} ELSE {})
  BY <1>1, Grown
<1>. QED
  BY <1>1, <1>2, <1>4, <1>5

-----------------------------------------------------------------------------
(* Types.                                                                    *)

\* A commit keeps the types of what it writes.
LEMMA CommitType ==
  ASSUME TypeOK, NEW p \in Phases, Commit(p)
  PROVE  head' \in Seq(Commits) /\ merging' = None /\ edit' \in BOOLEAN
<1>1. [phase |-> p, code |-> merging # None, tick |-> ~local /\ p \in todo,
       tip |-> tip[p], swept |-> local /\ edit] \in Commits
  BY DEF TypeOK, Commits
<1>. QED
  BY <1>1 DEF TypeOK, Commit

\* The phases whose code or tick is committed are phases.
LEMMA HeadType == TypeOK => Committed \subseteq Phases /\ Merged \subseteq Phases
<1>1. TypeOK => HeadCommits \subseteq Commits
  BY DEF TypeOK, HeadCommits
<1>2. \A c \in Commits : c.phase \in Phases
  BY DEF Commits
<1>. QED
  BY <1>1, <1>2 DEF Committed, Merged

\* A first process starts with the types.
LEMMA TypeInit == Init => TypeOK
<1> SUFFICES ASSUME Init PROVE TypeOK
  OBVIOUS
<1>1. 0 \in Tips /\ 0 \in 0..MaxTries /\ 1 \in 1..MaxStarts
  BY BoundsAssumption DEF Tips
<1>2. head \in Seq(Commits)
  BY DEF Init
<1>3. tip \in [Phases -> Tips]
  BY <1>1 DEF Init
<1>. QED
  BY <1>1, <1>2, <1>3 DEF Init, TypeOK

\* Every step keeps the types.
LEMMA TypeStep ==
  ASSUME TypeOK, CtlInv, IntentInv, HeadInv, [Next]_vars PROVE TypeOK'
<1> USE DEF TypeOK, git, tree, store, ctl, Phases
<1>1. CASE Pick
  <2>1. CASE pc' = "ended" /\ UNCHANGED ctl
    BY <1>1, <2>1 DEF Pick
  <2>2. ASSUME NEW p \in left, cur' = p, left' = left \ {p}, tries' = 0, pc' = "guard",
               UNCHANGED <<local, starts>>
        PROVE  TypeOK'
    <3>1. 0 \in 0..MaxTries
      BY BoundsAssumption
    <3>. QED
      BY <1>1, <2>2, <3>1 DEF Pick
  <2>. QED
    BY <1>1, <2>1, <2>2 DEF Pick
<1>2. CASE Guard
  BY <1>2 DEF Guard
<1>3. CASE MergeIntent
  <2>1. [phase |-> cur, base |-> Len(head), ticks |-> {}, commit |-> FALSE] \in Intents
    BY <1>3 DEF MergeIntent, CtlInv, Driving, Intents
  <2>. QED
    BY <1>3, <2>1 DEF MergeIntent, StoreFails
<1>4. CASE Merge
  <2>1. [phase |-> cur, tip |-> tip[cur]] \in Merges
    BY <1>4 DEF Merge, CtlInv, Driving, Merges
  <2>. QED
    BY <1>4, <2>1 DEF Merge, Merges
<1>5. CASE Baseline
  BY <1>5 DEF Baseline, AbortMerge
<1>6. CASE Gate
  <2>1. cur \in Phases /\ tip[cur] \in Tips
    BY <1>6 DEF Gate, CtlInv, Driving
  <2>2. tip[cur] < MaxTips => tip[cur] + 1 \in Tips
    BY <2>1, BoundsAssumption DEF Tips
  <2>3. tip' \in [Phases -> Tips] /\ green' \in SUBSET (Phases \X Tips)
    BY <1>6, <2>1, <2>2 DEF Gate
  <2>. QED
    BY <1>6, <2>3 DEF Gate, AbortMerge
<1>7. CASE TickTodo
  BY <1>7 DEF TickTodo, AbortMerge, CtlInv, Driving
<1>8. CASE CommitIntent
  <2>1. intent \in Intents
    BY <1>8 DEF CommitIntent, IntentInv, ToCommit, Uncommitted
  <2>2. [intent EXCEPT !.commit = TRUE, !.ticks = todo] \in Intents
    BY <2>1 DEF Intents
  <2>. QED
    BY <1>8, <2>1, <2>2 DEF CommitIntent, AbortMerge, StoreFails
<1>9. CASE CommitLanding
  <2>1. cur \in Phases
    BY <1>9 DEF CommitLanding, CtlInv, Driving
  <2>2. CASE Commit(cur)
    BY <1>9, <2>1, <2>2, CommitType DEF CommitLanding, AbortMerge
  <2>. QED
    BY <1>9, <2>2 DEF CommitLanding, AbortMerge
<1>10. CASE CheckCommit
  <2>1. Len(head) > 0
    BY <1>10 DEF CheckCommit, HeadInv, IntentInv, Made, Intents
  <2>2. Front \in Seq(Commits)
    BY <2>1, Parts
  <2>. QED
    BY <1>10, <2>2 DEF CheckCommit, Front
<1>11. CASE TickLocal
  BY <1>11 DEF TickLocal, CtlInv, Driving
<1>12. CASE Record
  BY <1>12 DEF Record, CtlInv, Driving, StoreFails
<1>13. CASE Blocker
  BY <1>13, BoundsAssumption DEF Blocker
<1>14. CASE ReconcileNothing
  BY <1>14 DEF ReconcileNothing
<1>15. CASE ReconcileCommit
  <2>1. intent.phase \in Phases
    BY <1>15, NoneApart DEF ReconcileCommit, Unrecorded, Intents
  <2>2. CASE Commit(intent.phase)
    BY <1>15, <2>1, <2>2, CommitType DEF ReconcileCommit, Refuse
  <2>. QED
    BY <1>15, <2>2 DEF ReconcileCommit, Refuse
<1>16. CASE ReconcileAbort
  <2>1. Committed \in SUBSET Phases
    BY HeadType
  <2>. QED
    BY <1>16, <2>1 DEF ReconcileAbort, Refuse
<1>17. CASE ReconcileLanded
  BY <1>17 DEF ReconcileLanded
<1>18. CASE ReTick
  BY <1>18, NoneApart DEF ReTick, Refuse, IntentInv, Intents
<1>19. CASE ReRecord
  BY <1>19 DEF ReRecord, StoreFails, IntentInv, Intents
<1>20. CASE Start
  BY <1>20 DEF Start, Refuse
<1>21. CASE Crash
  BY <1>21 DEF Crash
<1>22. CASE Resume
  BY <1>22, BoundsAssumption DEF Resume
<1>23. CASE Edit
  BY <1>23 DEF Edit
<1>24. CASE ByHand
  <2>1. Committed \in SUBSET Phases
    BY HeadType
  <2>. QED
    BY <1>24, <2>1 DEF ByHand
<1>25. CASE UNCHANGED vars
  BY <1>25 DEF vars
<1>. QED
  BY <1>1, <1>2, <1>3, <1>4, <1>5, <1>6, <1>7, <1>8, <1>9, <1>10, <1>11, <1>12, <1>13,
     <1>14, <1>15, <1>16, <1>17, <1>18, <1>19, <1>20, <1>21, <1>22, <1>23, <1>24, <1>25
  DEF Next, Driver, Reconcile

-----------------------------------------------------------------------------
(* The driver and its intents.                                               *)

\* Every step keeps the phase under way apart from those landed or to come.
LEMMA CtlStep ==
  ASSUME TypeOK, CtlInv, [Next]_vars PROVE CtlInv'
<1> USE DEF CtlInv, Driving, git, tree, store, ctl
<1>1. CASE Pick
  BY <1>1 DEF Pick, TypeOK
<1>2. CASE Guard
  BY <1>2 DEF Guard
<1>3. CASE MergeIntent
  BY <1>3 DEF MergeIntent, StoreFails
<1>4. CASE Merge
  BY <1>4 DEF Merge
<1>5. CASE Baseline
  BY <1>5 DEF Baseline, AbortMerge
<1>6. CASE Gate
  BY <1>6 DEF Gate, AbortMerge
<1>7. CASE TickTodo
  BY <1>7 DEF TickTodo, AbortMerge
<1>8. CASE CommitIntent
  BY <1>8 DEF CommitIntent, AbortMerge, StoreFails
<1>9. CASE CommitLanding
  BY <1>9 DEF CommitLanding, AbortMerge, Commit
<1>10. CASE CheckCommit
  BY <1>10 DEF CheckCommit
<1>11. CASE TickLocal
  BY <1>11 DEF TickLocal
<1>12. CASE Record
  BY <1>12 DEF Record, StoreFails
<1>13. CASE Blocker
  BY <1>13 DEF Blocker
<1>14. CASE ReconcileNothing
  BY <1>14 DEF ReconcileNothing
<1>15. CASE ReconcileCommit
  BY <1>15 DEF ReconcileCommit, Commit, Refuse
<1>16. CASE ReconcileAbort
  BY <1>16 DEF ReconcileAbort, Refuse
<1>17. CASE ReconcileLanded
  BY <1>17 DEF ReconcileLanded
<1>18. CASE ReTick
  BY <1>18 DEF ReTick, Refuse
<1>19. CASE ReRecord
  BY <1>19 DEF ReRecord, StoreFails
<1>20. CASE Start
  BY <1>20 DEF Start, Refuse
<1>21. CASE Crash
  BY <1>21 DEF Crash
<1>22. CASE Resume
  BY <1>22 DEF Resume
<1>23. CASE Edit
  BY <1>23 DEF Edit
<1>24. CASE ByHand
  BY <1>24 DEF ByHand
<1>25. CASE UNCHANGED vars
  BY <1>25 DEF vars
<1>. QED
  BY <1>1, <1>2, <1>3, <1>4, <1>5, <1>6, <1>7, <1>8, <1>9, <1>10, <1>11, <1>12, <1>13,
     <1>14, <1>15, <1>16, <1>17, <1>18, <1>19, <1>20, <1>21, <1>22, <1>23, <1>24, <1>25
  DEF Next, Driver, Reconcile

\* What is said of the branch stays, when the branch does.
LEMMA HeadSame ==
  ASSUME head' = head
  PROVE  /\ HeadCommits' = HeadCommits /\ Merged' = Merged /\ Committed' = Committed
         /\ Front' = Front /\ Newest' = Newest
  BY DEF HeadCommits, Merged, Committed, Front, Newest

\* The commit that a landing makes.
NewCommit(p) == [phase |-> p, code |-> merging # None, tick |-> ~local /\ p \in todo,
                 tip |-> tip[p], swept |-> local /\ edit]

\* The branch with that commit.
LEMMA CommitHead ==
  ASSUME TypeOK, NEW p \in Phases, Commit(p)
  PROVE  /\ head' = Append(head, NewCommit(p)) /\ NewCommit(p) \in Commits
         /\ Len(head') = Len(head) + 1 /\ head'[Len(head) + 1] = NewCommit(p)
         /\ Newest' = NewCommit(p) /\ Front' = head
         /\ HeadCommits' = HeadCommits \cup {NewCommit(p)}
         /\ Merged' = Merged \cup (IF merging # None THEN {p} ELSE {})
         /\ Committed' = Committed \cup (IF ~local /\ p \in todo THEN {p} ELSE {})
<1>1. NewCommit(p) \in Commits
  BY DEF TypeOK, Commits, NewCommit
<1>2. head' = Append(head, NewCommit(p))
  BY DEF Commit, NewCommit
<1>3. head \in Seq(Commits) /\ Len(head) \in Nat
  BY DEF TypeOK
<1>4. /\ Len(head') = Len(head) + 1 /\ head'[Len(head) + 1] = NewCommit(p)
      /\ SubSeq(head', 1, Len(head') - 1) = head
      /\ Of(head') = Of(head) \cup {NewCommit(p)}
      /\ Codes(head')
         = Codes(head) \cup (IF NewCommit(p).code THEN {NewCommit(p).phase} ELSE {})
      /\ Ticks(head')
         = Ticks(head) \cup (IF NewCommit(p).tick THEN {NewCommit(p).phase} ELSE {})
  BY <1>1, <1>2, <1>3, Grown
<1>5. /\ NewCommit(p).code = (merging # None) /\ NewCommit(p).phase = p
      /\ NewCommit(p).tick = (~local /\ p \in todo)
  BY DEF NewCommit
<1>6. Newest' = NewCommit(p) /\ Front' = head
  BY <1>3, <1>4 DEF Newest, Front
<1>7. HeadCommits' = Of(head') /\ Merged' = Codes(head') /\ Committed' = Ticks(head')
  BY DEF HeadCommits, Merged, Committed, Of, Codes, Ticks
<1>. QED
  BY <1>1, <1>2, <1>4, <1>5, <1>6, <1>7, Branch

\* Every step keeps the intents those of the landing under way.
LEMMA IntentStep ==
  ASSUME TypeOK, CtlInv, IntentInv, GreenInv, HeadInv, TreeInv, [Next]_vars PROVE IntentInv'
<1> USE DEF IntentInv, ToCommit, Uncommitted, Made, git, tree, store, ctl
<1>1. CASE Pick
  BY <1>1 DEF Pick
<1>2. CASE Guard
  BY <1>2 DEF Guard
<1>3. CASE MergeIntent
  <2> DEFINE i == [phase |-> cur, base |-> Len(head), ticks |-> {}, commit |-> FALSE]
  <2>1. i \in Intents /\ i.phase = cur /\ ~i.commit
    BY <1>3 DEF MergeIntent, CtlInv, Driving, TypeOK, Intents
  <2>2. (intent' = i /\ pc' = "merge") \/ (intent' = intent /\ pc' = "ended")
    BY <1>3 DEF MergeIntent, StoreFails
  <2>3. UNCHANGED <<git, local, green, landed, cur>>
    BY <1>3 DEF MergeIntent
  <2> HIDE DEF i
  <2>4. CASE intent' = i /\ pc' = "merge"
    BY <2>1, <2>3, <2>4
  <2>5. CASE intent' = intent /\ pc' = "ended"
    BY <2>3, <2>5
  <2>. QED
    BY <2>2, <2>4, <2>5
<1>4. CASE Merge
  BY <1>4 DEF Merge
<1>5. CASE Baseline
  BY <1>5 DEF Baseline, AbortMerge
<1>6. CASE Gate
  BY <1>6 DEF Gate, AbortMerge
<1>7. CASE TickTodo
  BY <1>7 DEF TickTodo, AbortMerge
<1>8. CASE CommitIntent
  <2>1. intent \in Intents /\ intent.phase = cur /\ <<cur, tip[cur]>> \in green
    BY <1>8 DEF CommitIntent, GreenInv
  <2>2. ~local => cur \in todo
    BY <1>8 DEF CommitIntent, TreeInv
  <2> DEFINE i == [intent EXCEPT !.commit = TRUE, !.ticks = todo]
  <2>3. i \in Intents /\ i.phase = cur /\ i.commit /\ i.ticks = todo
    BY <2>1 DEF Intents, TypeOK
  <2>4. \/ intent' = i /\ pc' = "commit"
        \/ intent' = intent /\ pc' \in {"failed", "ended"}
    BY <1>8 DEF CommitIntent, StoreFails
  <2>5. UNCHANGED <<head, tip, local, green, landed, cur>>
    BY <1>8 DEF CommitIntent
  <2> HIDE DEF i
  <2>6. CASE intent' = i /\ pc' = "commit"
    BY <2>1, <2>2, <2>3, <2>5, <2>6
  <2>7. CASE intent' = intent /\ pc' \in {"failed", "ended"}
    BY <2>5, <2>7
  <2>. QED
    BY <2>4, <2>6, <2>7
<1>9. CASE CommitLanding
  BY <1>9 DEF CommitLanding, AbortMerge, Commit
<1>10. CASE CheckCommit
  BY <1>10 DEF CheckCommit
<1>11. CASE TickLocal
  BY <1>11 DEF TickLocal
<1>12. CASE Record
  BY <1>12 DEF Record, StoreFails
<1>13. CASE Blocker
  BY <1>13 DEF Blocker
<1>14. CASE ReconcileNothing
  BY <1>14 DEF ReconcileNothing
<1>15. CASE ReconcileCommit
  <2>1. intent \in Intents /\ intent.phase \in Phases \ landed /\ merging # None
    BY <1>15 DEF ReconcileCommit, Unrecorded, TypeOK, Intents
  <2>2. ASSUME Commit(intent.phase) PROVE intent.phase \in Merged'
    BY <2>1, <2>2, CommitHead
  <2>. QED
    BY <1>15, <2>1, <2>2 DEF ReconcileCommit, Refuse
<1>16. CASE ReconcileAbort
  BY <1>16 DEF ReconcileAbort, Refuse
<1>17. CASE ReconcileLanded
  <2>1. intent \in Intents /\ intent.phase \notin landed
    BY <1>17 DEF ReconcileLanded, Unrecorded, TypeOK
  <2>2. intent.phase \in Merged
    BY <1>17, <2>1 DEF ReconcileLanded, LandedCommit, Merged, HeadCommits, TypeOK, Intents
  <2>. QED
    BY <1>17, <2>1, <2>2, HeadSame DEF ReconcileLanded
<1>18. CASE ReTick
  BY <1>18, HeadSame DEF ReTick, Refuse
<1>19. CASE ReRecord
  BY <1>19 DEF ReRecord, StoreFails
<1>20. CASE Start
  BY <1>20 DEF Start, Refuse
<1>21. CASE Crash
  BY <1>21 DEF Crash
<1>22. CASE Resume
  BY <1>22 DEF Resume
<1>23. CASE Edit
  BY <1>23, HeadSame DEF Edit
<1>24. CASE ByHand
  BY <1>24 DEF ByHand
<1>25. CASE UNCHANGED vars
  BY <1>25, HeadSame DEF vars
<1>. QED
  BY <1>1, <1>2, <1>3, <1>4, <1>5, <1>6, <1>7, <1>8, <1>9, <1>10, <1>11, <1>12, <1>13,
     <1>14, <1>15, <1>16, <1>17, <1>18, <1>19, <1>20, <1>21, <1>22, <1>23, <1>24, <1>25
  DEF Next, Driver, Reconcile

\* A commit that is reset away.
LEMMA ResetHead ==
  ASSUME TypeOK, Len(head) > 0, head' = SubSeq(head, 1, Len(head) - 1)
  PROVE  /\ HeadCommits = HeadCommits' \cup {Newest}
         /\ Merged = Merged' \cup (IF Newest.code THEN {Newest.phase} ELSE {})
         /\ Committed = Committed' \cup (IF Newest.tick THEN {Newest.phase} ELSE {})
         /\ Committed' = Ticks(Front)
<1>1. head' = Front
  BY DEF Front
<1>2. head \in Seq(Commits)
  BY DEF TypeOK
<1>3. HeadCommits' = Of(Front) /\ Merged' = Codes(Front) /\ Committed' = Ticks(Front)
  BY <1>1 DEF HeadCommits, Merged, Committed, Of, Codes, Ticks
<1>. QED
  BY <1>2, <1>3, Parts, Branch

\* When the landing's commit is made, the branch has a commit.
LEMMA HasCommit == TypeOK /\ IntentInv /\ HeadInv /\ pc = "check" => Len(head) > 0
  BY DEF TypeOK, IntentInv, HeadInv, Made, Intents

\* No step commits a merge whose gate has not passed.
LEMMA GreenStep ==
  ASSUME TypeOK, CtlInv, IntentInv, GreenInv, HeadInv, [Next]_vars PROVE GreenInv'
<1> USE DEF GreenInv, git, tree, store, ctl
<1>1. CASE Pick
  BY <1>1, HeadSame DEF Pick, GateFirst
<1>2. CASE Guard
  BY <1>2, HeadSame DEF Guard, GateFirst
<1>3. CASE MergeIntent
  BY <1>3, HeadSame DEF MergeIntent, StoreFails, GateFirst
<1>4. CASE Merge
  BY <1>4, HeadSame DEF Merge, GateFirst
<1>5. CASE Baseline
  BY <1>5, HeadSame DEF Baseline, AbortMerge, GateFirst
<1>6. CASE Gate
  BY <1>6, HeadSame DEF Gate, AbortMerge, GateFirst
<1>7. CASE TickTodo
  BY <1>7, HeadSame DEF TickTodo, AbortMerge, GateFirst
<1>8. CASE CommitIntent
  BY <1>8, HeadSame DEF CommitIntent, AbortMerge, StoreFails, GateFirst
<1>9. CASE CommitLanding
  <2>1. cur \in Phases /\ <<cur, tip[cur]>> \in green
    BY <1>9 DEF CommitLanding, CtlInv, Driving
  <2>2. CASE Commit(cur) /\ pc' = "check"
    <3>1. HeadCommits' = HeadCommits \cup {NewCommit(cur)}
      BY <2>1, <2>2, CommitHead
    <3>2. NewCommit(cur).phase = cur /\ NewCommit(cur).tip = tip[cur]
      BY DEF NewCommit
    <3>. QED
      BY <1>9, <2>1, <2>2, <3>1, <3>2 DEF CommitLanding, GateFirst
  <2>3. CASE head' = head /\ pc' = "failed"
    BY <1>9, <2>3, HeadSame DEF CommitLanding, GateFirst
  <2>. QED
    BY <1>9, <2>2, <2>3 DEF CommitLanding
<1>10. CASE CheckCommit
  <2>1. HeadCommits' \subseteq HeadCommits
    <3>1. CASE head' = head
      BY <3>1, HeadSame
    <3>2. CASE head' = SubSeq(head, 1, Len(head) - 1)
      BY <1>10, <3>2, HasCommit, ResetHead DEF CheckCommit
    <3>. QED
      BY <1>10, <3>1, <3>2 DEF CheckCommit
  <2>. QED
    BY <1>10, <2>1 DEF CheckCommit, GateFirst
<1>11. CASE TickLocal
  BY <1>11, HeadSame DEF TickLocal, GateFirst
<1>12. CASE Record
  BY <1>12, HeadSame DEF Record, StoreFails, GateFirst
<1>13. CASE Blocker
  BY <1>13, HeadSame DEF Blocker, GateFirst
<1>14. CASE ReconcileNothing
  BY <1>14, HeadSame DEF ReconcileNothing, GateFirst
<1>15. CASE ReconcileCommit
  <2>1. /\ intent.phase \in Phases
        /\ <<intent.phase, tip[intent.phase]>> \in green
    BY <1>15 DEF ReconcileCommit, Unrecorded, TypeOK, IntentInv, Intents
  <2>2. CASE Commit(intent.phase) /\ pc' = "relanded"
    <3>1. HeadCommits' = HeadCommits \cup {NewCommit(intent.phase)}
      BY <2>1, <2>2, CommitHead
    <3>2. /\ NewCommit(intent.phase).phase = intent.phase
          /\ NewCommit(intent.phase).tip = tip[intent.phase]
      BY DEF NewCommit
    <3>. QED
      BY <1>15, <2>1, <2>2, <3>1, <3>2 DEF ReconcileCommit, GateFirst
  <2>3. CASE head' = head /\ pc' = "ended"
    BY <1>15, <2>3, HeadSame DEF ReconcileCommit, GateFirst
  <2>. QED
    BY <1>15, <2>2, <2>3 DEF ReconcileCommit, Refuse
<1>16. CASE ReconcileAbort
  BY <1>16, HeadSame DEF ReconcileAbort, Refuse, GateFirst
<1>17. CASE ReconcileLanded
  BY <1>17, HeadSame DEF ReconcileLanded, GateFirst
<1>18. CASE ReTick
  BY <1>18, HeadSame DEF ReTick, Refuse, GateFirst
<1>19. CASE ReRecord
  BY <1>19, HeadSame DEF ReRecord, StoreFails, GateFirst
<1>20. CASE Start
  BY <1>20, HeadSame DEF Start, Refuse, GateFirst
<1>21. CASE Crash
  BY <1>21, HeadSame DEF Crash, GateFirst
<1>22. CASE Resume
  BY <1>22, HeadSame DEF Resume, GateFirst
<1>23. CASE Edit
  BY <1>23, HeadSame DEF Edit, GateFirst
<1>24. CASE ByHand
  BY <1>24, HeadSame DEF ByHand, GateFirst
<1>25. CASE UNCHANGED vars
  BY <1>25, HeadSame DEF vars, GateFirst
<1>. QED
  BY <1>1, <1>2, <1>3, <1>4, <1>5, <1>6, <1>7, <1>8, <1>9, <1>10, <1>11, <1>12, <1>13,
     <1>14, <1>15, <1>16, <1>17, <1>18, <1>19, <1>20, <1>21, <1>22, <1>23, <1>24, <1>25
  DEF Next, Driver, Reconcile

\* Every step keeps the branch where the landing under way says it is.
LEMMA HeadStep ==
  ASSUME TypeOK, CtlInv, IntentInv, HeadInv, TreeInv, [Next]_vars PROVE HeadInv'
<1> USE DEF HeadInv, ToCommit, Uncommitted, Made, git, tree, store, ctl
<1>1. CASE Pick
  BY <1>1, HeadSame DEF Pick
<1>2. CASE Guard
  BY <1>2, HeadSame DEF Guard
<1>3. CASE MergeIntent
  <2>1. pc' = "merge" => intent'.base = Len(head)
    BY <1>3 DEF MergeIntent, StoreFails
  <2>. QED
    BY <1>3, <2>1, HeadSame DEF MergeIntent, StoreFails
<1>4. CASE Merge
  <2>1. UpToDate => cur \in Merged
    BY DEF UpToDate, Merged
  <2>2. [phase |-> cur, tip |-> tip[cur]] # None
    BY <1>4, NoneApart DEF Merge, CtlInv, Driving, Merges, TypeOK
  <2>. QED
    BY <1>4, <2>1, <2>2, HeadSame DEF Merge
<1>5. CASE Baseline
  BY <1>5, HeadSame DEF Baseline, AbortMerge
<1>6. CASE Gate
  BY <1>6, HeadSame DEF Gate, AbortMerge
<1>7. CASE TickTodo
  BY <1>7, HeadSame DEF TickTodo, AbortMerge
<1>8. CASE CommitIntent
  <2>1. intent \in Intents
    BY <1>8 DEF CommitIntent, IntentInv
  <2>2. intent'.base = intent.base
    BY <1>8, <2>1 DEF CommitIntent, Intents
  <2>. QED
    BY <1>8, <2>2, HeadSame DEF CommitIntent, AbortMerge, StoreFails
<1>9. CASE CommitLanding
  <2>1. cur \in Phases
    BY <1>9 DEF CommitLanding, CtlInv, Driving
  <2>2. CASE Commit(cur) /\ pc' = "check"
    <3>1. /\ Len(head') = Len(head) + 1 /\ Newest' = NewCommit(cur)
          /\ HeadCommits' = HeadCommits \cup {NewCommit(cur)}
          /\ Merged' = Merged \cup (IF merging # None THEN {cur} ELSE {})
          /\ merging' = None
      BY <2>1, <2>2, CommitHead, CommitType
    <3>2. /\ NewCommit(cur).phase = cur /\ NewCommit(cur).tip = tip[cur]
          /\ NewCommit(cur).tick = (~local /\ cur \in todo)
          /\ NewCommit(cur).swept = (local /\ edit)
      BY DEF NewCommit
    <3>3. ~local => cur \in todo
      BY <1>9 DEF CommitLanding, TreeInv
    <3>4. cur \in Merged'
      BY <1>9, <3>1 DEF CommitLanding
    <3>. QED
      BY <1>9, <2>2, <3>1, <3>2, <3>3, <3>4 DEF CommitLanding
  <2>3. CASE head' = head /\ pc' = "failed"
    BY <1>9, <2>3, HeadSame DEF CommitLanding
  <2>. QED
    BY <1>9, <2>2, <2>3 DEF CommitLanding
<1>10. CASE CheckCommit
  <2>1. CASE head' = head
    BY <1>10, <2>1, HeadSame DEF CheckCommit
  <2>2. CASE head' = SubSeq(head, 1, Len(head) - 1) /\ pc' = "failed"
    <3>1. HeadCommits' \subseteq HeadCommits
      BY <1>10, <2>2, HasCommit, ResetHead DEF CheckCommit
    <3>. QED
      BY <1>10, <2>2, <3>1 DEF CheckCommit
  <2>. QED
    BY <1>10, <2>1, <2>2 DEF CheckCommit
<1>11. CASE TickLocal
  BY <1>11, HeadSame DEF TickLocal
<1>12. CASE Record
  BY <1>12, HeadSame DEF Record, StoreFails
<1>13. CASE Blocker
  BY <1>13, HeadSame DEF Blocker
<1>14. CASE ReconcileNothing
  BY <1>14, HeadSame DEF ReconcileNothing
<1>15. CASE ReconcileCommit
  <2>1. intent \in Intents /\ (~local => intent.phase \in todo)
    BY <1>15 DEF ReconcileCommit, Unrecorded, TypeOK, IntentInv
  <2>2. CASE Commit(intent.phase) /\ pc' = "relanded"
    <3>1. HeadCommits' = HeadCommits \cup {NewCommit(intent.phase)}
      BY <2>1, <2>2, CommitHead DEF Intents
    <3>2. /\ NewCommit(intent.phase).tick = (~local /\ intent.phase \in todo)
          /\ NewCommit(intent.phase).swept = (local /\ edit)
      BY DEF NewCommit
    <3>. QED
      BY <1>15, <2>1, <2>2, <3>1, <3>2 DEF ReconcileCommit
  <2>3. CASE head' = head /\ pc' = "ended"
    BY <1>15, <2>3, HeadSame DEF ReconcileCommit
  <2>. QED
    BY <1>15, <2>2, <2>3 DEF ReconcileCommit, Refuse
<1>16. CASE ReconcileAbort
  BY <1>16, HeadSame DEF ReconcileAbort, Refuse
<1>17. CASE ReconcileLanded
  BY <1>17, HeadSame DEF ReconcileLanded
<1>18. CASE ReTick
  BY <1>18, HeadSame DEF ReTick, Refuse
<1>19. CASE ReRecord
  BY <1>19, HeadSame DEF ReRecord, StoreFails
<1>20. CASE Start
  BY <1>20, HeadSame DEF Start, Refuse
<1>21. CASE Crash
  BY <1>21, HeadSame DEF Crash
<1>22. CASE Resume
  BY <1>22, HeadSame DEF Resume
<1>23. CASE Edit
  BY <1>23, HeadSame DEF Edit
<1>24. CASE ByHand
  BY <1>24, HeadSame DEF ByHand
<1>25. CASE UNCHANGED vars
  BY <1>25, HeadSame DEF vars
<1>. QED
  BY <1>1, <1>2, <1>3, <1>4, <1>5, <1>6, <1>7, <1>8, <1>9, <1>10, <1>11, <1>12, <1>13,
     <1>14, <1>15, <1>16, <1>17, <1>18, <1>19, <1>20, <1>21, <1>22, <1>23, <1>24, <1>25
  DEF Next, Driver, Reconcile

\* Every step keeps a tracked todo file as committed, or knows the tick it is
\* ahead by.
LEMMA TreeStep ==
  ASSUME TypeOK, CtlInv, IntentInv, HeadInv, TreeInv, [Next]_vars PROVE TreeInv'
<1> USE DEF TreeInv, git, tree, store, ctl
<1>1. CASE Pick
  BY <1>1, HeadSame DEF Pick
<1>2. CASE Guard
  BY <1>2, HeadSame DEF Guard
<1>3. CASE MergeIntent
  BY <1>3, HeadSame DEF MergeIntent, StoreFails
<1>4. CASE Merge
  BY <1>4, HeadSame DEF Merge
<1>5. CASE Baseline
  BY <1>5, HeadSame DEF Baseline, AbortMerge
<1>6. CASE Gate
  BY <1>6, HeadSame DEF Gate, AbortMerge
<1>7. CASE TickTodo
  BY <1>7, HeadSame DEF TickTodo, AbortMerge
<1>8. CASE CommitIntent
  BY <1>8, HeadSame
  DEF CommitIntent, AbortMerge, StoreFails, IntentInv, ToCommit, Uncommitted
<1>9. CASE CommitLanding
  <2>1. cur \in Phases
    BY <1>9 DEF CommitLanding, CtlInv, Driving
  <2>2. CASE Commit(cur) /\ pc' = "check"
    <3>1. Front' = head
          /\ Committed' = Committed \cup (IF ~local /\ cur \in todo THEN {cur} ELSE {})
      BY <2>1, <2>2, CommitHead
    <3>2. ~local => Ticks(Front)' = Committed
      BY <3>1, Branch
    <3>. QED
      BY <1>9, <2>2, <3>1, <3>2 DEF CommitLanding
  <2>3. CASE head' = head /\ pc' = "failed"
    BY <1>9, <2>3, HeadSame DEF CommitLanding
  <2>. QED
    BY <1>9, <2>2, <2>3 DEF CommitLanding
<1>10. CASE CheckCommit
  <2>1. CASE UNCHANGED <<head, todo>>
    BY <1>10, <2>1, HeadSame DEF CheckCommit
  <2>2. CASE /\ head' = SubSeq(head, 1, Len(head) - 1)
             /\ todo' = IF local THEN todo ELSE todo \ {cur}
             /\ pc' = "failed"
    <3>1. /\ Committed = Committed' \cup (IF Newest.tick THEN {Newest.phase} ELSE {})
          /\ Committed' = Ticks(Front)
      BY <1>10, <2>2, HasCommit, ResetHead DEF CheckCommit
    <3>2. Newest.phase = cur /\ (~local => Newest.tick)
      <4>1. Len(head) > 0
        BY <1>10, HasCommit DEF CheckCommit
      <4>2. Newest \in HeadCommits
        BY <4>1 DEF Newest, HeadCommits, TypeOK
      <4>. QED
        BY <1>10, <4>2 DEF CheckCommit, HeadInv, Made
    <3>. QED
      BY <1>10, <2>2, <3>1, <3>2 DEF CheckCommit
  <2>. QED
    BY <1>10, <2>1, <2>2 DEF CheckCommit
<1>11. CASE TickLocal
  BY <1>11, HeadSame DEF TickLocal, CtlInv, Driving
<1>12. CASE Record
  BY <1>12, HeadSame DEF Record, StoreFails
<1>13. CASE Blocker
  BY <1>13, HeadSame DEF Blocker
<1>14. CASE ReconcileNothing
  BY <1>14, HeadSame DEF ReconcileNothing
<1>15. CASE ReconcileCommit
  <2>1. intent \in Intents /\ (~local => intent.phase \in todo)
    BY <1>15 DEF ReconcileCommit, Unrecorded, TypeOK, IntentInv
  <2>2. CASE Commit(intent.phase) /\ pc' = "relanded"
    <3>1. ~local => Committed' = Committed \cup {intent.phase}
      BY <2>1, <2>2, CommitHead DEF Intents
    <3>. QED
      BY <1>15, <2>1, <2>2, <3>1 DEF ReconcileCommit
  <2>3. CASE head' = head /\ pc' = "ended"
    BY <1>15, <2>3, HeadSame DEF ReconcileCommit
  <2>. QED
    BY <1>15, <2>2, <2>3 DEF ReconcileCommit, Refuse
<1>16. CASE ReconcileAbort
  BY <1>16, HeadSame DEF ReconcileAbort, Refuse
<1>17. CASE ReconcileLanded
  <2>1. intent \in Intents
    BY <1>17 DEF ReconcileLanded, Unrecorded, TypeOK
  <2>2. ~local => intent.phase \in Committed
    BY <1>17, <2>1
    DEF ReconcileLanded, LandedCommit, HeadInv, HeadCommits, Committed, TypeOK, Intents
  <2>. QED
    BY <1>17, <2>2, HeadSame DEF ReconcileLanded
<1>18. CASE ReTick
  BY <1>18, HeadSame DEF ReTick, Refuse
<1>19. CASE ReRecord
  BY <1>19, HeadSame DEF ReRecord, StoreFails
<1>20. CASE Start
  BY <1>20, HeadSame DEF Start, Refuse, CleanTree
<1>21. CASE Crash
  BY <1>21, HeadSame, NoneApart DEF Crash, IntentInv, ToCommit, Uncommitted
<1>22. CASE Resume
  BY <1>22, HeadSame DEF Resume
<1>23. CASE Edit
  BY <1>23, HeadSame DEF Edit
<1>24. CASE ByHand
  BY <1>24, HeadSame DEF ByHand
<1>25. CASE UNCHANGED vars
  BY <1>25, HeadSame DEF vars
<1>. QED
  BY <1>1, <1>2, <1>3, <1>4, <1>5, <1>6, <1>7, <1>8, <1>9, <1>10, <1>11, <1>12, <1>13,
     <1>14, <1>15, <1>16, <1>17, <1>18, <1>19, <1>20, <1>21, <1>22, <1>23, <1>24, <1>25
  DEF Next, Driver, Reconcile

\* Every step keeps the records of landings true.
LEMMA RecordStep ==
  ASSUME TypeOK, CtlInv, IntentInv, HeadInv, RecordInv, [Next]_vars PROVE RecordInv'
<1> USE DEF RecordInv, git, tree, store, ctl
<1>1. CASE Pick
  BY <1>1, HeadSame DEF Pick
<1>2. CASE Guard
  BY <1>2, HeadSame DEF Guard
<1>3. CASE MergeIntent
  BY <1>3, HeadSame DEF MergeIntent, StoreFails
<1>4. CASE Merge
  BY <1>4, HeadSame DEF Merge
<1>5. CASE Baseline
  BY <1>5, HeadSame DEF Baseline, AbortMerge
<1>6. CASE Gate
  BY <1>6, HeadSame DEF Gate, AbortMerge
<1>7. CASE TickTodo
  BY <1>7, HeadSame DEF TickTodo, AbortMerge
<1>8. CASE CommitIntent
  BY <1>8, HeadSame DEF CommitIntent, AbortMerge, StoreFails
<1>9. CASE CommitLanding
  <2>1. Merged \subseteq Merged'
    <3>1. cur \in Phases
      BY <1>9 DEF CommitLanding, CtlInv, Driving
    <3>2. CASE Commit(cur)
      BY <3>1, <3>2, CommitHead
    <3>. QED
      BY <1>9, <3>2, HeadSame DEF CommitLanding
  <2>. QED
    BY <1>9, <2>1 DEF CommitLanding
<1>10. CASE CheckCommit
  <2>1. CASE UNCHANGED <<head, todo>>
    BY <1>10, <2>1, HeadSame DEF CheckCommit
  <2>2. CASE /\ head' = SubSeq(head, 1, Len(head) - 1)
             /\ todo' = IF local THEN todo ELSE todo \ {cur}
             /\ pc' = "failed"
    <3>1. Merged \subseteq Merged' \cup {Newest.phase}
      BY <1>10, <2>2, HasCommit, ResetHead DEF CheckCommit
    <3>2. Newest.phase = cur /\ cur \notin landed
      BY <1>10 DEF CheckCommit, HeadInv, Made, CtlInv, Driving
    <3>. QED
      BY <1>10, <2>2, <3>1, <3>2 DEF CheckCommit
  <2>. QED
    BY <1>10, <2>1, <2>2 DEF CheckCommit
<1>11. CASE TickLocal
  BY <1>11, HeadSame DEF TickLocal
<1>12. CASE Record
  BY <1>12, HeadSame DEF Record, StoreFails, HeadInv, Made
<1>13. CASE Blocker
  BY <1>13, HeadSame DEF Blocker
<1>14. CASE ReconcileNothing
  BY <1>14, HeadSame DEF ReconcileNothing
<1>15. CASE ReconcileCommit
  <2>1. Merged \subseteq Merged'
    <3>1. intent.phase \in Phases
      BY <1>15 DEF ReconcileCommit, Unrecorded, TypeOK, Intents
    <3>2. CASE Commit(intent.phase)
      BY <3>1, <3>2, CommitHead
    <3>. QED
      BY <1>15, <3>2, HeadSame DEF ReconcileCommit
  <2>. QED
    BY <1>15, <2>1 DEF ReconcileCommit, Refuse
<1>16. CASE ReconcileAbort
  BY <1>16, HeadSame DEF ReconcileAbort, Refuse
<1>17. CASE ReconcileLanded
  BY <1>17, HeadSame DEF ReconcileLanded
<1>18. CASE ReTick
  BY <1>18, HeadSame DEF ReTick, Refuse
<1>19. CASE ReRecord
  BY <1>19, HeadSame DEF ReRecord, StoreFails, IntentInv
<1>20. CASE Start
  BY <1>20, HeadSame DEF Start, Refuse
<1>21. CASE Crash
  BY <1>21, HeadSame, NoneApart DEF Crash
<1>22. CASE Resume
  BY <1>22, HeadSame DEF Resume
<1>23. CASE Edit
  BY <1>23, HeadSame DEF Edit
<1>24. CASE ByHand
  BY <1>24, HeadSame DEF ByHand
<1>25. CASE UNCHANGED vars
  BY <1>25, HeadSame DEF vars
<1>. QED
  BY <1>1, <1>2, <1>3, <1>4, <1>5, <1>6, <1>7, <1>8, <1>9, <1>10, <1>11, <1>12, <1>13,
     <1>14, <1>15, <1>16, <1>17, <1>18, <1>19, <1>20, <1>21, <1>22, <1>23, <1>24, <1>25
  DEF Next, Driver, Reconcile

-----------------------------------------------------------------------------
(* What holds whatever fails.                                                *)

\* A first process starts in the invariant.
LEMMA InitInv == Init => IInv
<1> SUFFICES ASSUME Init PROVE IInv
  OBVIOUS
<1>1. TypeOK
  BY TypeInit
<1>2. head = <<>> /\ Len(head) = 0
  BY DEF Init
<1>3. HeadCommits = {} /\ Merged = {} /\ Committed = {}
  BY <1>2 DEF HeadCommits, Merged, Committed
<1>4. CtlInv
  BY DEF Init, CtlInv, Driving
<1>5. IntentInv
  BY NoneApart DEF Init, IntentInv, ToCommit, Uncommitted, Made
<1>6. GreenInv
  BY <1>3 DEF Init, GreenInv, GateFirst
<1>7. HeadInv
  BY <1>3 DEF Init, HeadInv, ToCommit, Uncommitted, Made
<1>8. TreeInv
  BY <1>3 DEF Init, TreeInv
<1>9. RecordInv
  BY <1>3 DEF Init, RecordInv
<1>. QED
  BY <1>1, <1>4, <1>5, <1>6, <1>7, <1>8, <1>9 DEF IInv

\* Every step keeps the invariant.
LEMMA NextInv == IInv /\ [Next]_vars => IInv'
  BY TypeStep, CtlStep, IntentStep, GreenStep, HeadStep, TreeStep, RecordStep DEF IInv

\* The inductive invariant of landings, retries, crashes and resumes.
THEOREM Invariance == Spec => []IInv
  BY InitInv, NextInv, PTL DEF Spec

\* The state of a landing and of a resume has its types, in every process.
THEOREM TypeCorrect == Spec => []TypeOK
<1>1. IInv => TypeOK
  BY DEF IInv
<1>. QED
  BY <1>1, Invariance, PTL

\* No merge commit is made of a tip whose gate did not pass, whether the landing
\* makes it (LandGate.attempt) or a resume completes it (reconcileLand).
THEOREM GateIsFirst == Spec => []GateFirst
<1>1. IInv => GateFirst
  BY DEF IInv, GreenInv
<1>. QED
  BY <1>1, Invariance, PTL

\* A phase recorded as landed has its code in the branch and its tick in the todo
\* file, whatever failed, died or was edited before the record (LandGate.Land,
\* reconcileLand).
THEOREM RecordsTrue == Spec => []RecordTrue
<1>1. IInv => RecordTrue
  <2> SUFFICES ASSUME IInv PROVE RecordTrue
    OBVIOUS
  <2>1. landed \subseteq Merged
    BY DEF IInv, RecordInv
  <2>2. CASE local
    BY <2>1, <2>2 DEF IInv, RecordInv, RecordTrue
  <2>3. CASE ~local
    <3>1. Merged \subseteq Committed
      BY <2>3 DEF IInv, HeadInv, Merged, Committed
    <3>2. Committed \subseteq todo
      BY <2>3 DEF IInv, TreeInv
    <3>. QED
      BY <2>1, <3>1, <3>2 DEF RecordTrue
  <2>. QED
    BY <2>2, <2>3
<1>. QED
  BY <1>1, Invariance, PTL

\* A landing that fails leaves no tick of its own in a tracked todo file,
\* whatever fails on the way back (LandGate.attempt, its abort and restore).
THEOREM ErrorsLeaveNoTick == Spec => []ErrorLeavesNoTick
<1>1. IInv => ErrorLeavesNoTick
  BY DEF IInv, TreeInv, ErrorLeavesNoTick
<1>. QED
  BY <1>1, Invariance, PTL

-----------------------------------------------------------------------------
(* What holds when git does not refuse to reset a commit.                    *)

\* With a tracked todo file, a commit that is refused is reset away.
TrackedResets == \A l \in TodoFiles : ~l => "reset" \notin Faults(l)

\* Whether a commit is found stays, when what it is looked for with does.
LEMMA FoundSame ==
  ASSUME UNCHANGED <<intent, head, tip>> PROVE LandedCommit' = LandedCommit
  BY DEF LandedCommit

\* With a tracked todo file a phase to be committed has no commit, and a merge
\* is under way.
LEMMA NotYet == IInv /\ KnownInv /\ ~local /\ pc = "commit"
                => merging # None /\ cur \notin Merged
  BY DEF IInv, KnownInv, ToCommit, Uncommitted, HeadInv, CtlInv, Driving

\* The commit that a landing made is the one a resume finds.
LEMMA MadeFound == IInv /\ KnownInv /\ ~local /\ pc \in Made
                   => LandedCommit /\ intent \in Intents /\ intent.phase = cur
<1> SUFFICES ASSUME IInv, KnownInv, ~local, pc \in Made
             PROVE  LandedCommit /\ intent \in Intents /\ intent.phase = cur
  OBVIOUS
<1>1. intent \in Intents /\ intent.phase = cur /\ intent.commit
  BY DEF IInv, IntentInv, Made
<1>2. /\ Len(head) = intent.base + 1 /\ intent.base \in Nat
      /\ Newest.phase = cur /\ Newest.tip = tip[cur]
  BY <1>1 DEF IInv, HeadInv, Intents
<1>3. Newest = head[intent.base + 1] /\ Newest \in HeadCommits
  BY <1>2 DEF Newest, HeadCommits
<1>4. Newest.code /\ ~Newest.swept
  BY <1>3 DEF KnownInv, IInv, HeadInv
<1>. QED
  BY <1>1, <1>2, <1>3, <1>4 DEF LandedCommit

\* With a tracked todo file, resetting the landing's commit leaves no code that is
\* not recorded.
LEMMA ResetKnown ==
  ASSUME IInv, KnownInv, ~local, pc = "check", head' = SubSeq(head, 1, Len(head) - 1)
  PROVE  Merged' \subseteq landed /\ HeadCommits' \subseteq HeadCommits
<1>1. Len(head) > 0
  BY HasCommit DEF IInv
<1>2. /\ HeadCommits' \subseteq HeadCommits /\ Merged' \subseteq Merged
      /\ Committed' = Ticks(Front)
  BY <1>1, ResetHead DEF IInv
<1>3. \A c \in HeadCommits' : c.tick
  BY <1>2 DEF IInv, HeadInv
<1>4. Merged' \subseteq Committed'
  BY <1>3 DEF Merged, Committed
<1>5. cur \notin Committed' /\ Merged \subseteq landed \cup {cur}
  BY <1>2 DEF IInv, TreeInv, KnownInv, Made
<1>. QED
  BY <1>2, <1>4, <1>5

\* Every step keeps what is known of the commits.
LEMMA KnownStep ==
  ASSUME TrackedResets, IInv, KnownInv, [Next]_vars PROVE KnownInv'
<1> USE DEF KnownInv, ToCommit, Uncommitted, Made, git, tree, store, ctl
<1>1. CASE Pick
  BY <1>1, HeadSame, FoundSame DEF Pick
<1>2. CASE Guard
  BY <1>2, HeadSame, FoundSame DEF Guard
<1>3. CASE MergeIntent
  BY <1>3, HeadSame, FoundSame DEF MergeIntent, StoreFails
<1>4. CASE Merge
  BY <1>4, HeadSame, FoundSame DEF Merge
<1>5. CASE Baseline
  BY <1>5, HeadSame, FoundSame DEF Baseline, AbortMerge
<1>6. CASE Gate
  BY <1>6, HeadSame DEF Gate, AbortMerge
<1>7. CASE TickTodo
  BY <1>7, HeadSame, FoundSame DEF TickTodo, AbortMerge
<1>8. CASE CommitIntent
  BY <1>8, HeadSame, FoundSame DEF CommitIntent, AbortMerge, StoreFails
<1>9. CASE CommitLanding
  <2>1. CASE ~local /\ Commit(cur) /\ pc' = "check"
    <3>1. cur \in Phases /\ TypeOK
      BY <1>9 DEF CommitLanding, IInv, CtlInv, Driving
    <3>2. /\ HeadCommits' = HeadCommits \cup {NewCommit(cur)}
          /\ Merged' \subseteq Merged \cup {cur}
      BY <2>1, <3>1, CommitHead
    <3>3. NewCommit(cur).code = (merging # None)
      BY DEF NewCommit
    <3>. QED
      BY <1>9, <2>1, <3>2, <3>3, NotYet DEF CommitLanding
  <2>2. CASE local \/ (head' = head /\ pc' = "failed")
    BY <1>9, <2>2, HeadSame DEF CommitLanding
  <2>. QED
    BY <1>9, <2>1, <2>2 DEF CommitLanding
<1>10. CASE CheckCommit
  <2>1. CASE local \/ (head' = head /\ pc' # "failed")
    BY <1>10, <2>1, HeadSame DEF CheckCommit
  <2>2. CASE ~local /\ head' = SubSeq(head, 1, Len(head) - 1) /\ pc' = "failed"
    BY <1>10, <2>2, ResetKnown DEF CheckCommit
  <2>3. ~local => ~Fails("reset")
    BY DEF TrackedResets, Fails, IInv, TypeOK
  <2>. QED
    BY <1>10, <2>1, <2>2, <2>3 DEF CheckCommit
<1>11. CASE TickLocal
  BY <1>11, HeadSame, FoundSame DEF TickLocal, IInv, CtlInv
<1>12. CASE Record
  BY <1>12, HeadSame, FoundSame, MadeFound DEF Record, StoreFails, IInv, HeadInv
<1>13. CASE Blocker
  BY <1>13, HeadSame, FoundSame DEF Blocker
<1>14. CASE ReconcileNothing
  <2>1. None \notin Intents
    BY NoneApart
  <2>2. ~local => Merged \subseteq landed
    BY <1>14, <2>1 DEF ReconcileNothing, Unrecorded
  <2>. QED
    BY <1>14, <2>2, HeadSame DEF ReconcileNothing
<1>15. CASE ReconcileCommit
  <2>1. intent \in Intents /\ intent.phase \in Phases /\ TypeOK
    BY <1>15 DEF ReconcileCommit, Unrecorded, IInv, TypeOK, Intents
  <2>2. CASE ~local /\ Commit(intent.phase) /\ pc' = "relanded"
    <3> DEFINE c == NewCommit(intent.phase)
    <3>1. /\ HeadCommits' = HeadCommits \cup {c}
          /\ Merged' \subseteq Merged \cup {intent.phase}
          /\ Len(head') = Len(head) + 1 /\ head'[Len(head) + 1] = c /\ merging' = None
      BY <2>1, <2>2, CommitHead, CommitType
    <3>2. c.code /\ c.phase = intent.phase /\ c.tip = tip[intent.phase] /\ ~c.swept
      BY <1>15, <2>2 DEF ReconcileCommit, NewCommit
    <3> HIDE DEF c
    <3>3. Merged \subseteq landed
      BY <1>15, <2>2 DEF ReconcileCommit
    <3>4. Len(head) = intent.base /\ Len(head) \in Nat /\ intent.commit
          /\ UNCHANGED <<intent, tip, landed, local>>
      BY <1>15, <2>1 DEF ReconcileCommit, Owned, TypeOK
    <3>5. LandedCommit'
      BY <3>1, <3>2, <3>4 DEF LandedCommit
    <3>. QED
      BY <2>1, <2>2, <3>1, <3>2, <3>3, <3>4, <3>5
  <2>3. CASE local \/ (UNCHANGED <<head, merging>> /\ pc' = "ended")
    BY <1>15, <2>3, HeadSame, FoundSame DEF ReconcileCommit
  <2>. QED
    BY <1>15, <2>2, <2>3 DEF ReconcileCommit, Refuse
<1>16. CASE ReconcileAbort
  BY <1>16, HeadSame, FoundSame DEF ReconcileAbort, Refuse
<1>17. CASE ReconcileLanded
  BY <1>17, HeadSame, FoundSame DEF ReconcileLanded
<1>18. CASE ReTick
  BY <1>18, HeadSame, FoundSame DEF ReTick, Refuse
<1>19. CASE ReRecord
  BY <1>19, HeadSame, FoundSame DEF ReRecord, StoreFails
<1>20. CASE Start
  BY <1>20, HeadSame, FoundSame DEF Start, Refuse
<1>21. CASE Crash
  <2>1. HeadCommits' = HeadCommits /\ Merged' = Merged /\ LandedCommit' = LandedCommit
    BY <1>21, HeadSame, FoundSame DEF Crash
  <2>2. CASE ~local /\ pc \in Made
    <3>1. LandedCommit /\ intent \in Intents /\ intent.phase = cur /\ merging = None
      BY <2>2, MadeFound DEF IInv, HeadInv
    <3>. QED
      BY <1>21, <2>1, <2>2, <3>1 DEF Crash
  <2>3. CASE ~(~local /\ pc \in Made)
    BY <1>21, <2>1, <2>3 DEF Crash, IInv, TypeOK
  <2>. QED
    BY <2>2, <2>3
<1>22. CASE Resume
  BY <1>22, HeadSame, FoundSame DEF Resume
<1>23. CASE Edit
  BY <1>23, HeadSame, FoundSame DEF Edit
<1>24. CASE ByHand
  BY <1>24, HeadSame, FoundSame DEF ByHand
<1>25. CASE UNCHANGED vars
  BY <1>25, HeadSame, FoundSame DEF vars
<1>. QED
  BY <1>1, <1>2, <1>3, <1>4, <1>5, <1>6, <1>7, <1>8, <1>9, <1>10, <1>11, <1>12, <1>13,
     <1>14, <1>15, <1>16, <1>17, <1>18, <1>19, <1>20, <1>21, <1>22, <1>23, <1>24, <1>25
  DEF Next, Driver, Reconcile

\* The invariant of a landing that is never forgotten.
LEMMA KnownInvariance == ASSUME TrackedResets PROVE Spec => [](IInv /\ KnownInv)
<1>1. Init => KnownInv
  BY DEF Init, KnownInv, HeadCommits, Merged, ToCommit, Uncommitted, Made
<1>2. IInv /\ KnownInv /\ [Next]_vars => IInv' /\ KnownInv'
  BY NextInv, KnownStep
<1>. QED
  BY <1>1, <1>2, InitInv, PTL DEF Spec

\* With a tracked todo file, code and tick land as one commit, when git does not
\* refuse the reset of one that is not so (LandGate.attempt, CommitTouches).
THEOREM CommitsWhole == ASSUME TrackedResets PROVE Spec => []OneCommit
<1>1. IInv /\ KnownInv => OneCommit
  BY DEF IInv, HeadInv, KnownInv, OneCommit
<1>. QED
  BY <1>1, KnownInvariance, PTL

\* With a tracked todo file, and when git does not refuse a reset, a driver never
\* goes to its next phase with a landing made and not recorded, whichever process
\* made it (LandGate.Land, reconcileLand).
THEOREM LandingsKnown == ASSUME TrackedResets PROVE Spec => []LandingKnown
<1>1. IInv /\ KnownInv => LandingKnown
  BY DEF KnownInv, LandingKnown
<1>. QED
  BY <1>1, KnownInvariance, PTL

-----------------------------------------------------------------------------
(* Land implements Landing.                                                  *)

\* The phases that Landing calls merged.
Waiting == {p \in Merged \ landed : ~local \/ p \in UnderWay}

\* The steps of Landing, as what becomes of the recorded and the waiting phases.
Turn ==
  \/ UNCHANGED <<landed, Waiting>>
  \/ \E p \in Phases : landed' = landed /\ p \notin landed /\ Waiting = {} /\ Waiting' = {p}
  \/ \E p \in Phases : landed' = landed /\ Waiting = {p} /\ Waiting' = {}
  \/ \E p \in Phases : landed' = landed \cup {p} /\ Waiting = {p} /\ Waiting' = {}

\* A turn is a step of Landing.
LEMMA TurnIsStep == Turn => [Promise!Next]_Progress
<1> DEFINE At(l, w) == [p \in Phases |-> IF p \in l THEN "landed"
                                         ELSE IF p \in w THEN "merged" ELSE "open"]
<1> SUFFICES ASSUME Turn PROVE [Promise!Next]_Progress
  OBVIOUS
<1>1. Progress = At(landed, Waiting) /\ Progress' = At(landed', Waiting')
  BY DEF Progress, Waiting
<1>2. \A p \in Waiting : p \notin landed
  BY DEF Waiting
<1>3. Promise!Phases = Phases
  BY DEF Promise!Phases, Phases
<1>4. CASE UNCHANGED <<landed, Waiting>>
  BY <1>1, <1>4
<1>5. ASSUME NEW p \in Phases, landed' = landed, p \notin landed, Waiting = {}, Waiting' = {p}
      PROVE  Promise!Merge(p)
  <2>1. \A q \in Phases : Progress[q] # "merged"
    BY <1>1, <1>5
  <2>2. Progress[p] = "open"
    BY <1>1, <1>5
  <2>3. Progress' = [Progress EXCEPT ![p] = "merged"]
    BY <1>1, <1>5
  <2>. QED
    BY <1>3, <2>1, <2>2, <2>3 DEF Promise!Merge
<1>6. ASSUME NEW p \in Phases, landed' = landed, Waiting = {p}, Waiting' = {}
      PROVE  Promise!TakeBack(p)
  <2>1. Progress[p] = "merged" /\ Progress' = [Progress EXCEPT ![p] = "open"]
    BY <1>1, <1>2, <1>6
  <2>. QED
    BY <2>1 DEF Promise!TakeBack
<1>7. ASSUME NEW p \in Phases, landed' = landed \cup {p}, Waiting = {p}, Waiting' = {}
      PROVE  Promise!Record(p)
  <2>1. Progress[p] = "merged" /\ Progress' = [Progress EXCEPT ![p] = "landed"]
    BY <1>1, <1>2, <1>7
  <2>. QED
    BY <2>1 DEF Promise!Record
<1>. QED
  BY <1>3, <1>4, <1>5, <1>6, <1>7 DEF Turn, Promise!Next

\* The steps that change the branch, the records or the intent.
LEMMA Writers ==
  [Next]_vars =>
    /\ UNCHANGED local
    /\ \/ UNCHANGED <<head, landed>>
       \/ CommitLanding \/ CheckCommit \/ Record \/ ReconcileCommit \/ ReRecord
    /\ UNCHANGED intent \/ MergeIntent \/ CommitIntent
<1> DEFINE Written ==
  /\ UNCHANGED local
  /\ \/ UNCHANGED <<head, landed>>
     \/ CommitLanding \/ CheckCommit \/ Record \/ ReconcileCommit \/ ReRecord
  /\ UNCHANGED intent \/ MergeIntent \/ CommitIntent
<1> SUFFICES ASSUME [Next]_vars PROVE Written
  OBVIOUS
<1> USE DEF git, tree, store, ctl
<1>1. CASE Pick
  BY <1>1 DEF Pick
<1>2. CASE Guard
  BY <1>2 DEF Guard
<1>3. CASE MergeIntent
  BY <1>3 DEF MergeIntent
<1>4. CASE Merge
  BY <1>4 DEF Merge
<1>5. CASE Baseline
  BY <1>5 DEF Baseline, AbortMerge
<1>6. CASE Gate
  BY <1>6 DEF Gate, AbortMerge
<1>7. CASE TickTodo
  BY <1>7 DEF TickTodo, AbortMerge
<1>8. CASE CommitIntent
  BY <1>8 DEF CommitIntent
<1>9. CASE CommitLanding
  BY <1>9 DEF CommitLanding
<1>10. CASE CheckCommit
  BY <1>10 DEF CheckCommit
<1>11. CASE TickLocal
  BY <1>11 DEF TickLocal
<1>12. CASE Record
  BY <1>12 DEF Record
<1>13. CASE Blocker
  BY <1>13 DEF Blocker
<1>14. CASE ReconcileNothing
  BY <1>14 DEF ReconcileNothing
<1>15. CASE ReconcileCommit
  BY <1>15 DEF ReconcileCommit
<1>16. CASE ReconcileAbort
  BY <1>16 DEF ReconcileAbort, Refuse
<1>17. CASE ReconcileLanded
  BY <1>17 DEF ReconcileLanded
<1>18. CASE ReTick
  BY <1>18 DEF ReTick, Refuse
<1>19. CASE ReRecord
  BY <1>19 DEF ReRecord
<1>20. CASE Start
  BY <1>20 DEF Start, Refuse
<1>21. CASE Crash
  BY <1>21 DEF Crash
<1>22. CASE Resume
  BY <1>22 DEF Resume
<1>23. CASE Edit
  BY <1>23 DEF Edit
<1>24. CASE ByHand
  BY <1>24 DEF ByHand
<1>25. CASE UNCHANGED vars
  BY <1>25 DEF vars
<1>. QED
  BY <1>1, <1>2, <1>3, <1>4, <1>5, <1>6, <1>7, <1>8, <1>9, <1>10, <1>11, <1>12, <1>13,
     <1>14, <1>15, <1>16, <1>17, <1>18, <1>19, <1>20, <1>21, <1>22, <1>23, <1>24, <1>25
  DEF Next, Driver, Reconcile

\* At most one phase waits, the same before a step as after it.
LEMMA AtMostOne ==
  ASSUME TypeOK, TypeOK', UNCHANGED landed,
         NEW p, Waiting \subseteq {p}, Waiting' \subseteq {p}
  PROVE  Turn
<1>1. Merged \subseteq Phases /\ Waiting \subseteq Merged
  BY HeadType DEF Waiting
<1>2. Waiting' \subseteq Phases /\ \A q \in Waiting' : q \notin landed'
  <2>1. HeadCommits' \subseteq Commits
    BY DEF TypeOK, HeadCommits
  <2>2. \A c \in Commits : c.phase \in Phases
    BY DEF Commits
  <2>. QED
    BY <2>1, <2>2 DEF Waiting, Merged
<1>3. CASE Waiting = Waiting'
  BY <1>3 DEF Turn
<1>4. CASE Waiting = {} /\ Waiting' = {p}
  BY <1>2, <1>4 DEF Turn
<1>5. CASE Waiting = {p} /\ Waiting' = {}
  BY <1>1, <1>5 DEF Turn
<1>. QED
  BY <1>3, <1>4, <1>5

\* With a tracked todo file, a step is a turn.
LEMMA TrackedTurn ==
  ASSUME TrackedResets, IInv, KnownInv, ~local, [Next]_vars PROVE Turn
<1>1. Waiting = Merged \ landed /\ Waiting' = Merged' \ landed'
  BY Writers DEF Waiting
<1>2. TypeOK /\ TypeOK'
  BY NextInv DEF IInv
<1>3. CASE UNCHANGED <<head, landed>>
  BY <1>1, <1>3, HeadSame DEF Turn
<1>4. CASE CommitLanding
  <2>1. CASE Commit(cur)
    <3>1. cur \in Phases
      BY <1>4 DEF CommitLanding, IInv, CtlInv, Driving
    <3>2. Merged' \subseteq Merged \cup {cur}
      BY <1>2, <2>1, <3>1, CommitHead
    <3>3. Merged \subseteq landed /\ landed' = landed
      BY <1>4 DEF CommitLanding, KnownInv, ToCommit, store
    <3>. QED
      BY <1>1, <1>2, <3>2, <3>3, AtMostOne
  <2>2. CASE head' = head
    BY <1>3, <1>4, <2>2 DEF CommitLanding, store
  <2>. QED
    BY <1>4, <2>1, <2>2 DEF CommitLanding
<1>5. CASE CheckCommit
  <2>1. CASE head' = SubSeq(head, 1, Len(head) - 1)
    <3>1. Merged' \subseteq landed
      BY <1>5, <2>1, ResetKnown DEF CheckCommit
    <3>2. Merged \subseteq landed \cup {cur} /\ landed' = landed
      BY <1>5 DEF CheckCommit, KnownInv, Made, store
    <3>. QED
      BY <1>1, <1>2, <3>1, <3>2, AtMostOne
  <2>2. CASE head' = head
    BY <1>3, <1>5, <2>2 DEF CheckCommit, store
  <2>. QED
    BY <1>5, <2>1, <2>2 DEF CheckCommit
<1>6. CASE Record
  <2>1. CASE landed' = landed \cup {cur}
    <3>1. cur \in Merged /\ cur \notin landed /\ cur \in Phases
      BY <1>6 DEF Record, IInv, HeadInv, CtlInv, Driving, Made
    <3>2. Merged \subseteq landed \cup {cur} /\ Merged' = Merged
      BY <1>6, HeadSame DEF Record, KnownInv, Made, git
    <3>. QED
      BY <1>1, <2>1, <3>1, <3>2 DEF Turn
  <2>2. CASE landed' = landed
    BY <1>3, <1>6, <2>2 DEF Record, git
  <2>. QED
    BY <1>6, <2>1, <2>2 DEF Record
<1>7. CASE ReconcileCommit
  <2>1. CASE Commit(intent.phase)
    <3>1. intent.phase \in Phases
      BY <1>2, <1>7 DEF ReconcileCommit, Unrecorded, TypeOK, Intents
    <3>2. Merged' \subseteq Merged \cup {intent.phase}
      BY <1>2, <2>1, <3>1, CommitHead
    <3>3. Merged \subseteq landed /\ landed' = landed
      BY <1>7 DEF ReconcileCommit, KnownInv, store
    <3>. QED
      BY <1>1, <1>2, <3>2, <3>3, AtMostOne
  <2>2. CASE head' = head
    BY <1>3, <1>7, <2>2 DEF ReconcileCommit, store
  <2>. QED
    BY <1>7, <2>1, <2>2 DEF ReconcileCommit
<1>8. CASE ReRecord
  <2>1. CASE landed' = landed \cup {intent.phase}
    <3>1. intent.phase \in Merged /\ intent.phase \notin landed /\ intent.phase \in Phases
      BY <1>8 DEF ReRecord, IInv, IntentInv, Intents
    <3>2. Merged \subseteq landed \cup {intent.phase} /\ Merged' = Merged
      BY <1>8, HeadSame DEF ReRecord, KnownInv, git
    <3>. QED
      BY <1>1, <2>1, <3>1, <3>2 DEF Turn
  <2>2. CASE landed' = landed
    BY <1>3, <1>8, <2>2 DEF ReRecord, git
  <2>. QED
    BY <1>8, <2>1, <2>2 DEF ReRecord
<1>. QED
  BY <1>3, <1>4, <1>5, <1>6, <1>7, <1>8, Writers

\* The landing under way is that of the last intent.
LEMMA UnderWayIs == IntentInv => UnderWay \subseteq {intent.phase}
  BY DEF IntentInv, UnderWay, Made

\* With a local todo file, a step is a turn.
LEMMA LocalTurn == ASSUME IInv, local, [Next]_vars PROVE Turn
<1>1. Waiting \subseteq UnderWay /\ Waiting' \subseteq UnderWay'
  BY Writers DEF Waiting
<1>2. TypeOK /\ TypeOK' /\ IntentInv /\ IntentInv'
  BY NextInv DEF IInv
<1>3. UnderWay \subseteq {intent.phase}
  BY <1>2, UnderWayIs
<1>4. UnderWay' \subseteq {intent'.phase}
  BY <1>2 DEF IntentInv, UnderWay, Made
<1>5. CASE UNCHANGED landed /\ intent'.phase = intent.phase
  BY <1>1, <1>2, <1>3, <1>4, <1>5, AtMostOne
<1>6. CASE MergeIntent
  <2>1. UNCHANGED landed
    BY <1>6 DEF MergeIntent
  <2>2. UnderWay = {}
    BY <1>6 DEF MergeIntent, UnderWay
  <2>. QED
    BY <1>1, <1>2, <1>4, <2>1, <2>2, AtMostOne
<1>7. CASE CommitIntent
  <2>1. intent'.phase = intent.phase /\ UNCHANGED landed
    <3>1. intent \in Intents
      BY <1>2, <1>7 DEF CommitIntent, IntentInv, ToCommit, Uncommitted
    <3>. QED
      BY <1>7, <3>1 DEF CommitIntent, Intents
  <2>. QED
    BY <1>5, <2>1
<1>8. CASE Record /\ landed' = landed \cup {cur}
  <2>1. cur \in Merged /\ cur \notin landed /\ cur \in Phases
    BY <1>8 DEF Record, IInv, HeadInv, CtlInv, Driving, Made
  <2>2. UnderWay = {cur} /\ UnderWay' = {}
    BY <1>8, <2>1 DEF Record, UnderWay, StoreFails, TypeOK
  <2>. QED
    BY <1>1, <1>8, <2>1, <2>2 DEF Turn, Waiting
<1>9. CASE ReRecord /\ landed' = landed \cup {intent.phase}
  <2>1. /\ intent \in Intents /\ intent.phase \in Merged /\ intent.phase \notin landed
        /\ intent.phase \in Phases
    BY <1>9 DEF ReRecord, IInv, IntentInv, Intents
  <2>2. UnderWay = {intent.phase} /\ UnderWay' = {}
    BY <1>9, <2>1, NoneApart DEF ReRecord, UnderWay, StoreFails
  <2>. QED
    BY <1>1, <1>9, <2>1, <2>2 DEF Turn, Waiting
<1>10. UNCHANGED landed \/ Record \/ ReRecord
  BY Writers DEF CommitLanding, CheckCommit, ReconcileCommit, store
<1>11. (Record => landed' = landed \cup {cur} \/ UNCHANGED landed)
       /\ (ReRecord => landed' = landed \cup {intent.phase} \/ UNCHANGED landed)
  BY DEF Record, ReRecord
<1>. QED
  BY <1>5, <1>6, <1>7, <1>8, <1>9, <1>10, <1>11, Writers

\* A driver lands one phase at a time, through crashes and resumes: with a tracked
\* todo file, when git does not refuse a reset, or with a local one, the landings
\* are those that Landing promises (LandGate.Land, reconcileLand).
THEOREM ImplementsLanding == ASSUME TrackedResets PROVE Spec => KeepsPromise
<1>1. Init => Promise!Init
  <2> SUFFICES ASSUME Init PROVE Promise!Init
    OBVIOUS
  <2>1. HeadCommits = {} /\ Merged = {} /\ landed = {}
    BY DEF Init, HeadCommits, Merged
  <2>. QED
    BY <2>1 DEF Promise!Init, Promise!Phases, Phases, Progress
<1>2. IInv /\ KnownInv /\ [Next]_vars => [Promise!Next]_Progress
  BY TrackedTurn, LocalTurn, TurnIsStep
<1>. QED
  BY <1>1, <1>2, KnownInvariance, PTL DEF Spec, KeepsPromise, Promise!Spec

=============================================================================
