-------------------------- MODULE StepWatchProofs --------------------------
(* What the watch over a step guarantees for any terminals, bounds, timeouts *)
(* and number of asks: the safety properties that MCStepWatch checks on      *)
(* small instances.  They follow from the inductive invariant IInv, which    *)
(* says of every label that is still wrong whose tag will set it right.      *)
EXTENDS StepWatch, Integers, TLAPS

\* The runner may be at these places, the loop at those.
Places == {"spawn", "start", "started", "tick", "asked", "decide", "switch", "gate",
           "nudge", "nudgeTurn", "review", "close", "open", "launch", "reviewing",
           "fix", "prompt", "finish", "record", "recorded", "done"}
LoopPlaces == {"runs", "stops", "halted", "waits", "shown", "over"}

\* The types that TypeOK leaves out.
TypeInv ==
  /\ TypeOK
  /\ tags \in [Writers -> TagRecords \cup {None}] /\ warned \in BOOLEAN
  /\ pc \in Places /\ loop \in LoopPlaces
  /\ look \in [agent : {"working", "idle", "blocked", "unknown"}, background : BOOLEAN]
  /\ placed \in BOOLEAN /\ known \in BOOLEAN /\ ended \in BOOLEAN /\ dialog \in BOOLEAN
  /\ turn \in BOOLEAN /\ hooks \in BOOLEAN /\ backstop \in Backstops
  /\ sentinel \in {"none", "torn", "ok", "failed"}

\* What bounds the counters: a tick looks at the backstop before the next one counts, a
\* nudge is prepared only when one is left, and a round is entered likewise.
ClockInv ==
  /\ pc # "decide" \/ backstop = 0 => watch.elapsed <= backstop
  /\ pc \in {"nudge", "nudgeTurn"} => watch.nudges < MaxNudges
  /\ pc = "review" => round < MaxRounds
  /\ open <= asks

\* Which agents there are in the space, and that a terminal without one has no labels.
AgentInv ==
  /\ \A t \in Terminals :
       /\ term[t] = "none" => ~agent[t]
       /\ ~agent[t] => text[t] = "" /\ ~wait[t]
       /\ Home[t] = RunSpace /\ agent[t] => t \in {Worker, Reviewer}
  /\ ~placed => /\ pc \in {"spawn", "finish", "record", "recorded", "done"}
                /\ ~agent[Worker] /\ ~agent[Reviewer]

\* Who may still tag.  A tag of a question is made under the session's lock, so that
\* none is under way when the session ends, and none begins later; the loop tags last.
EndInv ==
  /\ pc \in {"record", "recorded", "done"} => ended /\ Idle("runner")
  /\ pc \in {"finish", "record", "recorded", "done"} => result \in {"ok", "failed"}
  /\ ~Idle("asker") => tags["asker"].locked /\ known /\ ~ended
  /\ open > 0 => known
  /\ loop \notin {"shown", "over"} => Idle("loop")
  /\ loop \in {"shown", "over"} => pc = "done"
  /\ loop = "over" => Idle("loop")

\* The tag w is still to take the wait off terminal t.
Clears(w, t) ==
  /\ ~Idle(w) /\ ~tags[w].tokens.rloop_wait
  /\ tags[w].laid => t \in tags[w].left

\* Tagged terminals of the space.
Watched == {t \in Terminals : Home[t] = RunSpace /\ Tagged(t)}

\* A tag that sets the wait is under way only while something is open; when nothing is,
\* every wait that is still shown has a tag coming that takes it off.
WaitInv ==
  /\ \A w \in Writers : ~Idle(w) /\ tags[w].tokens.rloop_wait => tags[w].locked /\ open > 0
  /\ open = 0 /\ ~warned =>
       \A t \in Watched : wait[t] => \E w \in Writers : Clears(w, t)

\* Terminal t shows the outcome.
Final(t) == text[t] = (IF result = "ok" THEN "done" ELSE "failed") /\ ~wait[t]

\* The tag of the loop: what it has passed shows the outcome.
FinalInv ==
  loop \in {"shown", "over"} =>
    IF Idle("loop") THEN warned \/ \A t \in Watched : Final(t)
    ELSE /\ tags["loop"].tokens = Tokens(result, "working")
         /\ tags["loop"].laid => \A t \in Watched : t \in tags["loop"].left \/ Final(t)

IInv == TypeInv /\ ClockInv /\ AgentInv /\ EndInv /\ WaitInv /\ FinalInv

-----------------------------------------------------------------------------
(* What the steps do to the panel.                                           *)

\* A tag of a writer begins: one that takes the wait off, or one that sets it, under the
\* lock of the session.
Clearing(w) ==
  /\ Idle(w)
  /\ \E rloop \in Texts, locked \in BOOLEAN :
       /\ tags' = [tags EXCEPT ![w] =
                     Started([rloop |-> rloop, rloop_wait |-> FALSE], locked)]
       /\ w = "asker" => locked
  /\ UNCHANGED <<screen, warned>>

Setting(w) ==
  /\ Idle(w)
  /\ tags' = [tags EXCEPT ![w] =
                Started([rloop |-> "working", rloop_wait |-> TRUE], TRUE)]
  /\ UNCHANGED <<screen, warned>>

\* A pane of the step comes or goes, or its agent does.
PaneStep(t) ==
  /\ t \in {Worker, Reviewer}
  /\ \/ OpenPane(t) /\ UNCHANGED <<agent, text, wait>>
     \/ StartAgent(t) /\ UNCHANGED <<term, text, wait>>
     \/ ClosePane(t)
     \/ Finish(t)
  /\ UNCHANGED <<tags, warned>>

\* A step touches the panel in one of these ways.  The wait is set by the first ask and
\* taken off by the last answer, with no tag under the lock; only when the loop has
\* shown the end is nothing open any more without a tag.
PanelStep ==
  \/ UNCHANGED <<panel, open>>
  \/ UNCHANGED panel /\ open > 0 /\ open' > 0
  \/ \E w \in Writers : Clearing(w) /\ UNCHANGED open
  \/ \E w \in Writers : Clearing(w) /\ Unlocked /\ open = 1 /\ open' = 0
  \/ \E w \in Writers : Setting(w) /\ Unlocked /\ open = 0 /\ open' = 1
  \/ \E w \in Writers : Tag(w) /\ UNCHANGED open
  \/ \E t \in Terminals : PaneStep(t) /\ UNCHANGED open
  \/ UNCHANGED panel /\ loop = "shown" /\ Idle("loop") /\ open' = 0

\* The states that are shown, and what of them.
LEMMA TokensOf ==
  /\ \A half : /\ Tokens("running", half) = [rloop |-> half, rloop_wait |-> FALSE]
               /\ Tokens("waiting-input", half) = [rloop |-> half, rloop_wait |-> TRUE]
               /\ Tokens("stalled", half) = [rloop |-> "stalled", rloop_wait |-> FALSE]
               /\ Tokens("ok", half) = [rloop |-> "done", rloop_wait |-> FALSE]
               /\ Tokens("failed", half) = [rloop |-> "failed", rloop_wait |-> FALSE]
  /\ {"working", "review", "fixing", "stalled", "done", "failed"} \subseteq Texts
  BY DEF Tokens, Texts

\* The assumptions on the threads and the terminals of the step.
LEMMA Threads ==
  /\ Writers = {"runner", "asker", "loop"}
  /\ Worker \in Terminals /\ Reviewer \in Terminals /\ Worker # Reviewer
  /\ Home[Worker] = RunSpace /\ Home[Reviewer] = RunSpace
  /\ None \notin TagRecords
  BY WatchAssumption, PanelAssumption

\* What emits a tag that takes the wait off, or none.
LEMMA Emits ==
  ASSUME NEW w \in Writers, NEW state \in {"running", "stalled", "ok", "failed"},
         NEW half \in {"working", "review", "fixing"}, NEW locked \in BOOLEAN,
         Idle(w), w = "asker" => locked,
         Emit(w, state, half, locked), UNCHANGED <<screen, warned>>
  PROVE  Clearing(w)
  BY TokensOf DEF Emit, Clearing

\* An ask opens: it has the step waiting when it is the only one.
LEMMA Opens ==
  ASSUME NEW w \in {"runner", "asker"}, Idle(w), Unlocked, UNCHANGED <<screen, warned>>,
         open \in Nat, open' = open + 1,
         IF open = 0 THEN Emit(w, "waiting-input", "working", TRUE) ELSE UNCHANGED tags
  PROVE  PanelStep
<1>1. CASE open = 0
  <2>1. Setting(w)
    BY <1>1, TokensOf, Threads DEF Emit, Setting
  <2>. QED
    BY <1>1, <2>1, Threads DEF PanelStep
<1>2. CASE open # 0
  BY <1>2 DEF PanelStep, panel
<1>. QED
  BY <1>1, <1>2

\* One closes: the last answer has the step running again.
LEMMA Closes ==
  ASSUME NEW w \in {"runner", "asker"}, Idle(w), Unlocked, UNCHANGED <<screen, warned>>,
         open \in Nat, open > 0, Release(w)
  PROVE  PanelStep
<1>1. CASE open = 1
  <2>1. Clearing(w)
    BY <1>1, Emits, Threads DEF Release
  <2>. QED
    BY <1>1, <2>1, Threads DEF PanelStep, Release
<1>2. CASE open # 1
  BY <1>2 DEF PanelStep, panel, Release
<1>. QED
  BY <1>1, <1>2

\* A tag of the runner that is made outside the lock, or none.
LEMMA RunnerEmits ==
  ASSUME Idle("runner"), UNCHANGED <<screen, warned, open>>,
         NEW state \in {"running", "stalled"}, NEW half \in {"working", "review", "fixing"},
         Emit("runner", state, half, FALSE) \/ UNCHANGED tags
  PROVE  PanelStep
<1>1. CASE Emit("runner", state, half, FALSE)
  <2>1. Clearing("runner")
    BY <1>1, Emits, Threads
  <2>. QED
    BY <2>1, Threads DEF PanelStep
<1>2. CASE UNCHANGED tags
  BY <1>2 DEF PanelStep, panel
<1>. QED
  BY <1>1, <1>2

\* Every step touches the panel in one of those ways.
LEMMA PanelSteps ==
  ASSUME TypeInv, EndInv, [Next]_vars
  PROVE  PanelStep
<1> USE DEF session, asking, panel
<1>1. CASE SpawnOpens
  <2>1. CASE UNCHANGED screen
    BY <1>1, <2>1 DEF SpawnOpens, PanelStep
  <2>2. CASE PaneStep(Worker)
    BY <1>1, <2>2, Threads DEF SpawnOpens, PanelStep
  <2>. QED
    BY <1>1, <2>1, <2>2 DEF SpawnOpens, PaneStep, screen
<1>2. CASE SpawnStarts
  <2>1. CASE UNCHANGED screen
    BY <1>2, <2>1 DEF SpawnStarts, PanelStep
  <2>2. CASE PaneStep(Worker)
    BY <1>2, <2>2, Threads DEF SpawnStarts, PanelStep
  <2>. QED
    BY <1>2, <2>1, <2>2 DEF SpawnStarts, PaneStep, screen
<1>3. CASE StartedKnown
  BY <1>3
  DEF StartedKnown, PanelStep
<1>4. CASE StartedShown
  <2>1. /\ Idle("runner") /\ UNCHANGED <<screen, warned, open>>
        /\ Emit("runner", "running", "working", FALSE) \/ UNCHANGED tags
    BY <1>4 DEF StartedShown, At
  <2>. QED
    BY <2>1, RunnerEmits
<1>5. CASE Interrupted
  BY <1>5
  DEF Interrupted, PanelStep
<1>6. CASE Settles
  BY <1>6
  DEF Settles, PanelStep
<1>7. CASE Fails
  BY <1>7
  DEF Fails, PanelStep
<1>8. CASE Dialog
  <2>1. CASE UNCHANGED <<asking, tags>>
    BY <1>8, <2>1 DEF Dialog, PanelStep, panel
  <2>2. CASE /\ Unlocked /\ open' = open + 1
             /\ IF open = 0 THEN Emit("runner", "waiting-input", "working", TRUE)
                ELSE UNCHANGED tags
    <3>1. open \in Nat /\ Idle("runner") /\ UNCHANGED <<screen, warned>>
      BY <1>8 DEF Dialog, Waits, At, TypeInv, TypeOK
    <3>. QED
      BY <2>2, <3>1, Opens
  <2>. QED
    BY <1>8, <2>1, <2>2 DEF Dialog
<1>9. CASE Withdraws
  <2>1. Idle("runner") /\ Unlocked /\ open > 0 /\ Release("runner") /\ UNCHANGED <<screen, warned>>
    BY <1>9 DEF Withdraws, Waits, At, TypeInv, TypeOK
  <2>. QED
    BY <2>1, Closes DEF TypeInv, TypeOK
<1>10. CASE Looks
  BY <1>10
  DEF Looks, PanelStep
<1>11. CASE Asked
  BY <1>11
  DEF Asked, PanelStep
<1>12. CASE Backstopped
  BY <1>12
  DEF Backstopped, PanelStep
<1>13. CASE Answered
  <2>1. /\ Idle("runner") /\ UNCHANGED <<screen, warned, open>>
        /\ Emit("runner", "running", "working", FALSE) \/ UNCHANGED tags
    BY <1>13 DEF Answered, At, InTime
  <2>. QED
    BY <2>1, RunnerEmits
<1>14. CASE Unanswered
  <2>1. /\ Idle("runner") /\ UNCHANGED <<screen, warned, open>>
        /\ Emit("runner", "stalled", "working", FALSE) \/ UNCHANGED tags
    BY <1>14 DEF Unanswered, At, InTime, Stall
  <2>. QED
    BY <2>1, RunnerEmits
<1>15. CASE GateCheck
  BY <1>15
  DEF GateCheck, PanelStep
<1>16. CASE NoTurn
  BY <1>16
  DEF NoTurn, PanelStep
<1>17. CASE SeenWorking
  <2>1. /\ Idle("runner") /\ UNCHANGED <<screen, warned, open>>
        /\ Emit("runner", "running", "working", FALSE) \/ UNCHANGED tags
    BY <1>17 DEF SeenWorking, At
  <2>. QED
    BY <2>1, RunnerEmits
<1>18. CASE SeenQuiet
  BY <1>18
  DEF SeenQuiet, PanelStep
<1>18a. CASE SeenNothing
  BY <1>18a
  DEF SeenNothing, PanelStep
<1>19. CASE SeenSilent
  <2>1. /\ Idle("runner") /\ UNCHANGED <<screen, warned, open>>
        /\ Emit("runner", "stalled", "working", FALSE) \/ UNCHANGED tags
    BY <1>19 DEF SeenSilent, At, Stall
  <2>. QED
    BY <2>1, RunnerEmits
<1>20. CASE Nudged
  BY <1>20
  DEF Nudged, PanelStep
<1>21. CASE NudgeLate
  <2>1. /\ Idle("runner") /\ UNCHANGED <<screen, warned, open>>
        /\ Emit("runner", "running", "working", FALSE) \/ UNCHANGED tags
    BY <1>21 DEF NudgeLate, At
  <2>. QED
    BY <2>1, RunnerEmits
<1>22. CASE NudgeFails
  BY <1>22
  DEF NudgeFails, PanelStep
<1>23. CASE ReviewShown
  <2>1. /\ Idle("runner") /\ UNCHANGED <<screen, warned, open>>
        /\ Emit("runner", "running", "review", FALSE) \/ UNCHANGED tags
    BY <1>23 DEF ReviewShown, At
  <2>. QED
    BY <2>1, RunnerEmits
<1>24. CASE ReviewCloses
  <2>1. CASE UNCHANGED screen
    BY <1>24, <2>1 DEF ReviewCloses, PanelStep
  <2>2. CASE PaneStep(Reviewer)
    BY <1>24, <2>2, Threads DEF ReviewCloses, PanelStep
  <2>. QED
    BY <1>24, <2>1, <2>2 DEF ReviewCloses, PaneStep, screen, ClosePane
<1>25. CASE ReviewOpens
  <2>1. CASE UNCHANGED screen
    BY <1>25, <2>1 DEF ReviewOpens, PanelStep
  <2>2. CASE PaneStep(Reviewer)
    BY <1>25, <2>2, Threads DEF ReviewOpens, PanelStep
  <2>. QED
    BY <1>25, <2>1, <2>2 DEF ReviewOpens, PaneStep, screen
<1>26. CASE ReviewLaunches
  <2>1. CASE UNCHANGED screen
    BY <1>26, <2>1 DEF ReviewLaunches, PanelStep
  <2>2. CASE PaneStep(Reviewer)
    BY <1>26, <2>2, Threads DEF ReviewLaunches, PanelStep
  <2>. QED
    BY <1>26, <2>1, <2>2 DEF ReviewLaunches, PaneStep, screen
<1>27. CASE Reviewed
  BY <1>27
  DEF Reviewed, PanelStep
<1>28. CASE FixShown
  <2>1. /\ Idle("runner") /\ UNCHANGED <<screen, warned, open>>
        /\ Emit("runner", "running", "fixing", FALSE) \/ UNCHANGED tags
    BY <1>28 DEF FixShown, At
  <2>. QED
    BY <2>1, RunnerEmits
<1>29. CASE FixPrompts
  BY <1>29
  DEF FixPrompts, PanelStep
<1>30. CASE FinishEnds
  BY <1>30
  DEF FinishEnds, PanelStep
<1>31. CASE FinishChecks
  BY <1>31
  DEF FinishChecks, PanelStep
<1>32. CASE FinishRecords
  BY <1>32
  DEF FinishRecords, PanelStep
<1>33. CASE Tagging
  BY <1>33 DEF Tagging, PanelStep
<1>34. CASE Admit
  <2>1. /\ Idle("asker") /\ Unlocked /\ open' = open + 1 /\ UNCHANGED <<screen, warned>>
        /\ IF open = 0 THEN Emit("asker", "waiting-input", "working", TRUE)
           ELSE UNCHANGED tags
    BY <1>34 DEF Admit
  <2>2. open \in Nat
    BY DEF TypeInv, TypeOK
  <2>. QED
    BY <2>1, <2>2, Opens
<1>35. CASE AnswerQuestion
  <2>1. Idle("asker") /\ Unlocked /\ open > 0 /\ Release("asker") /\ UNCHANGED <<screen, warned>>
    BY <1>35 DEF AnswerQuestion, Questions, TypeInv, TypeOK
  <2>. QED
    BY <2>1, Closes DEF TypeInv, TypeOK
<1>36. CASE AnswerDialog
  <2>1. Idle("asker") /\ Unlocked /\ open > 0 /\ Release("asker") /\ UNCHANGED <<screen, warned>>
    BY <1>36 DEF AnswerDialog, TypeInv, TypeOK
  <2>. QED
    BY <2>1, Closes DEF TypeInv, TypeOK
<1>37. CASE Halt
  BY <1>37
  DEF Halt, PanelStep
<1>38. CASE StopStep
  BY <1>38
  DEF StopStep, PanelStep
<1>39. CASE LoopEnd
  <2>1. CASE UNCHANGED tags
    BY <1>39, <2>1 DEF LoopEnd, PanelStep
  <2>2. CASE Emit("loop", result', "working", FALSE)
    <3>1. Idle("loop") /\ result' \in {"ok", "failed"} /\ UNCHANGED <<screen, warned, open>>
      BY <1>39 DEF LoopEnd, EndInv
    <3>2. Clearing("loop")
      BY <2>2, <3>1, Emits, Threads
    <3>. QED
      BY <3>1, <3>2, Threads DEF PanelStep
  <2>. QED
    BY <1>39, <2>1, <2>2 DEF LoopEnd
<1>40. CASE Withdraw
  BY <1>40 DEF Withdraw, PanelStep
<1>41. CASE Turns
  BY <1>41
  DEF Turns, PanelStep
<1>42. CASE Says
  BY <1>42
  DEF Says, PanelStep
<1>43. CASE WorkerGone
  <2>1. CASE UNCHANGED screen
    BY <1>43, <2>1 DEF WorkerGone, PanelStep
  <2>2. CASE PaneStep(Worker)
    BY <1>43, <2>2, Threads DEF WorkerGone, PanelStep
  <2>. QED
    BY <1>43, <2>1, <2>2 DEF WorkerGone, Goes, PaneStep, screen, Finish, ClosePane
<1>44. CASE ReviewerGone
  <2>1. CASE UNCHANGED screen
    BY <1>44, <2>1 DEF ReviewerGone, PanelStep
  <2>2. CASE PaneStep(Reviewer)
    BY <1>44, <2>2, Threads DEF ReviewerGone, PanelStep
  <2>. QED
    BY <1>44, <2>1, <2>2 DEF ReviewerGone, Goes, PaneStep, screen, Finish, ClosePane
<1>45. CASE UNCHANGED vars
  BY <1>45 DEF vars, PanelStep
<1> HIDE DEF session, asking, panel
<1>. QED
  BY <1>1, <1>2, <1>3, <1>4, <1>5, <1>6, <1>7, <1>8, <1>9, <1>10, <1>11, <1>12,
     <1>13, <1>14, <1>15, <1>16, <1>17, <1>18, <1>18a, <1>19, <1>20, <1>21, <1>22,
     <1>23, <1>24, <1>25, <1>26, <1>27, <1>28, <1>29, <1>30, <1>31, <1>32,
     <1>33, <1>34, <1>35, <1>36, <1>37, <1>38, <1>39, <1>40, <1>41, <1>42,
     <1>43, <1>44, <1>45
  DEF Next, Runner, Ended

-----------------------------------------------------------------------------
(* The panel's types and labels.                                             *)

PanelTypes ==
  /\ term \in [Terminals -> States] /\ agent \in [Terminals -> BOOLEAN]
  /\ text \in [Terminals -> Texts] /\ wait \in [Terminals -> BOOLEAN]
  /\ tags \in [Writers -> TagRecords \cup {None}] /\ warned \in BOOLEAN

\* Which terminals have agents, and which have labels.
Labels ==
  \A t \in Terminals :
    /\ term[t] = "none" => ~agent[t]
    /\ ~agent[t] => text[t] = "" /\ ~wait[t]
    /\ Home[t] = RunSpace /\ agent[t] => t \in {Worker, Reviewer}

\* A tag that is under way is one, whatever None is.
LEMMA TagOf ==
  ASSUME PanelTypes, NEW w \in Writers, ~Idle(w)
  PROVE  /\ tags[w] \in TagRecords /\ tags[w].tokens.rloop \in Texts
         /\ tags[w].tokens.rloop_wait \in BOOLEAN
         /\ tags[w].laid \in BOOLEAN /\ tags[w].left \subseteq Terminals
  BY DEF PanelTypes, Idle, TagRecords

\* A tag that begins is one.
LEMMA StartedIs ==
  ASSUME NEW rloop \in Texts, NEW waits \in BOOLEAN, NEW locked \in BOOLEAN
  PROVE  /\ Started([rloop |-> rloop, rloop_wait |-> waits], locked) \in TagRecords
         /\ Started([rloop |-> rloop, rloop_wait |-> waits], locked) # None
<1>1. [rloop |-> rloop, rloop_wait |-> waits] \in [rloop : Texts, rloop_wait : BOOLEAN]
  OBVIOUS
<1>2. Started([rloop |-> rloop, rloop_wait |-> waits], locked) \in TagRecords
  BY <1>1 DEF Started, TagRecords
<1>. QED
  BY <1>2, Threads

\* What a tag does next: it ends, has the layout, or has passed a terminal.
LEMMA TagMoves ==
  ASSUME PanelTypes, NEW w \in Writers, Tag(w)
  PROVE  /\ ~Idle(w) /\ UNCHANGED <<term, agent>>
         /\ \/ tags' = [tags EXCEPT ![w] = None] /\ UNCHANGED <<text, wait>>
               /\ tags[w].laid /\ tags[w].left = {} /\ UNCHANGED warned
            \/ tags' = [tags EXCEPT ![w] = None] /\ UNCHANGED <<text, wait>> /\ warned'
            \/ /\ tags' = [tags EXCEPT ![w] = [tags[w] EXCEPT !.laid = TRUE, !.left =
                             {t \in Terminals : Home[t] = RunSpace /\ term[t] # "none"}]]
               /\ ~tags[w].laid /\ UNCHANGED <<text, wait, warned>>
            \/ \E t : /\ tags' = [tags EXCEPT ![w] =
                                    [tags[w] EXCEPT !.left = tags[w].left \ {t}]]
                      /\ text' = IF Tagged(t) THEN [text EXCEPT ![t] = tags[w].tokens.rloop]
                                 ELSE text
                      /\ wait' = IF Tagged(t)
                                 THEN [wait EXCEPT ![t] = tags[w].tokens.rloop_wait]
                                 ELSE wait
                      /\ tags[w].laid /\ UNCHANGED warned
<1>1. CASE Layout(w)
  BY <1>1 DEF Layout, screen, PanelTypes
<1>2. CASE TagNext(w)
  BY <1>2 DEF TagNext, PanelTypes
<1>3. CASE TagEnd(w)
  BY <1>3 DEF TagEnd, screen
<1>. QED
  BY <1>1, <1>2, <1>3 DEF Tag

\* The panel keeps its types.
LEMMA PanelTypeStep ==
  ASSUME PanelTypes, PanelStep PROVE PanelTypes'
<1>1. CASE UNCHANGED panel
  BY <1>1 DEF PanelTypes, panel, screen
<1>2. ASSUME NEW w \in Writers, Clearing(w) PROVE PanelTypes'
  BY <1>2, StartedIs DEF PanelTypes, Clearing, screen
<1>3. ASSUME NEW w \in Writers, Setting(w) PROVE PanelTypes'
  BY <1>3, StartedIs, TokensOf DEF PanelTypes, Setting, screen
<1>4. ASSUME NEW w \in Writers, Tag(w) PROVE PanelTypes'
  <2>1. tags[w] \in TagRecords /\ tags[w].tokens.rloop \in Texts
        /\ tags[w].tokens.rloop_wait \in BOOLEAN
    BY <1>4, TagOf, TagMoves
  <2>2. \A S \in SUBSET Terminals :
          /\ [tags[w] EXCEPT !.laid = TRUE, !.left = S] \in TagRecords
          /\ \A t : [tags[w] EXCEPT !.left = tags[w].left \ {t}] \in TagRecords
    BY <2>1 DEF TagRecords
  <2>3. tags' \in [Writers -> TagRecords \cup {None}]
    <3>1. \E v \in TagRecords \cup {None} : tags' = [tags EXCEPT ![w] = v]
      <4>1. {t \in Terminals : Home[t] = RunSpace /\ term[t] # "none"} \in SUBSET Terminals
        OBVIOUS
      <4>. QED
        BY <1>4, <2>2, <4>1, TagMoves
    <3>. QED
      BY <3>1 DEF PanelTypes
  <2>4. /\ text' \in [Terminals -> Texts] /\ wait' \in [Terminals -> BOOLEAN]
        /\ warned' \in BOOLEAN
    BY <1>4, <2>1, TagMoves DEF PanelTypes
  <2>. QED
    BY <1>4, <2>3, <2>4, TagMoves DEF PanelTypes
<1>5. ASSUME NEW t \in Terminals, PaneStep(t) PROVE PanelTypes'
  BY <1>5 DEF PaneStep, OpenPane, StartAgent, ClosePane, Finish, PanelTypes, States, Texts
<1>. QED
  BY <1>1, <1>2, <1>3, <1>4, <1>5 DEF PanelStep, panel

\* A terminal gets labels only while it has an agent, and loses them with it.
LEMMA LabelStep ==
  ASSUME PanelTypes, Labels, PanelStep PROVE Labels'
<1>1. CASE UNCHANGED screen
  BY <1>1 DEF Labels, screen
<1>2. ASSUME NEW w \in Writers, Tag(w) PROVE Labels'
  <2>1. UNCHANGED <<term, agent>>
    BY <1>2, TagMoves
  <2>2. CASE UNCHANGED <<text, wait>>
    BY <2>1, <2>2 DEF Labels
  <2>3. ASSUME NEW u, Tagged(u), NEW a, NEW b, text' = [text EXCEPT ![u] = a],
               wait' = [wait EXCEPT ![u] = b]
        PROVE  Labels'
    BY <2>1, <2>3 DEF Labels, PanelTypes, Tagged
  <2>4. \/ UNCHANGED <<text, wait>>
        \/ \E u : /\ Tagged(u)
                  /\ text' = [text EXCEPT ![u] = tags[w].tokens.rloop]
                  /\ wait' = [wait EXCEPT ![u] = tags[w].tokens.rloop_wait]
    BY <1>2, TagMoves
  <2>. QED
    BY <2>2, <2>3, <2>4
<1>3. ASSUME NEW t \in Terminals, PaneStep(t) PROVE Labels'
  BY <1>3 DEF PaneStep, OpenPane, StartAgent, ClosePane, Finish, PanelTypes, Labels, Tagged
<1>. QED
  BY <1>1, <1>2, <1>3 DEF PanelStep, Clearing, Setting, panel

-----------------------------------------------------------------------------
(* The wait.                                                                 *)

\* What the tags that set the wait rest on.
SetInv ==
  \A w \in Writers : ~Idle(w) /\ tags[w].tokens.rloop_wait => tags[w].locked /\ open > 0

\* What takes a wait off that is over.
ClearInv ==
  open = 0 /\ ~warned =>
    \A t \in Watched : wait[t] => \E w \in Writers : Clears(w, t)

\* A tag that begins is the writer's; the others stay as they are.
LEMMA Beginning ==
  ASSUME PanelTypes, NEW w \in Writers, NEW rloop \in Texts, NEW waits \in BOOLEAN,
         NEW locked \in BOOLEAN,
         tags' = [tags EXCEPT ![w] =
                    Started([rloop |-> rloop, rloop_wait |-> waits], locked)]
  PROVE  /\ tags'[w] # None /\ ~tags'[w].laid
         /\ tags'[w].tokens.rloop_wait = waits /\ tags'[w].locked = locked
         /\ \A v \in Writers \ {w} : tags'[v] = tags[v]
  BY StartedIs DEF PanelTypes, Started

\* A tag of the wait is not under way when the last answer comes: it would hold the
\* session's lock.
LEMMA SetStep ==
  ASSUME PanelTypes, SetInv, PanelStep, open \in Nat,
         loop = "shown" /\ Idle("loop") => \A w \in Writers : Idle(w)
  PROVE  SetInv'
<1> USE DEF Idle
<1>1. CASE UNCHANGED <<tags, open>>
  BY <1>1 DEF SetInv
<1>2. CASE UNCHANGED tags /\ open' > 0
  BY <1>2 DEF SetInv
<1>3. ASSUME NEW w \in Writers, Clearing(w), UNCHANGED open PROVE SetInv'
  <2>1. ~tags'[w].tokens.rloop_wait /\ \A v \in Writers \ {w} : tags'[v] = tags[v]
    BY <1>3, Beginning DEF Clearing
  <2>. QED
    BY <1>3, <2>1 DEF SetInv
<1>4. ASSUME NEW w \in Writers, Clearing(w), Unlocked PROVE SetInv'
  <2>1. ~tags'[w].tokens.rloop_wait /\ \A v \in Writers \ {w} : tags'[v] = tags[v]
    BY <1>4, Beginning DEF Clearing
  <2>. QED
    BY <1>4, <2>1 DEF SetInv, Unlocked
<1>5. ASSUME NEW w \in Writers, Setting(w), open' = 1 PROVE SetInv'
  <2>1. tags'[w].locked /\ \A v \in Writers \ {w} : tags'[v] = tags[v]
    BY <1>5, Beginning, TokensOf DEF Setting
  <2>. QED
    BY <1>5, <2>1 DEF SetInv
<1>6. ASSUME NEW w \in Writers, Tag(w), UNCHANGED open PROVE SetInv'
  <2>1. tags[w] \in TagRecords /\ tags[w] # None
    BY <1>6, TagOf, TagMoves
  <2>2. \/ tags'[w] = None
        \/ tags'[w].tokens = tags[w].tokens /\ tags'[w].locked = tags[w].locked
    <3> DEFINE S == {t \in Terminals : Home[t] = RunSpace /\ term[t] # "none"}
    <3>1. CASE tags' = [tags EXCEPT ![w] = None]
      BY <3>1 DEF PanelTypes
    <3>2. CASE tags' = [tags EXCEPT ![w] = [tags[w] EXCEPT !.laid = TRUE, !.left = S]]
      <4> HIDE DEF S
      <4>. QED
        BY <2>1, <3>2 DEF PanelTypes, TagRecords
    <3>3. ASSUME NEW t, tags' = [tags EXCEPT ![w] =
                                   [tags[w] EXCEPT !.left = tags[w].left \ {t}]]
          PROVE  tags'[w].tokens = tags[w].tokens /\ tags'[w].locked = tags[w].locked
      BY <2>1, <3>3 DEF PanelTypes, TagRecords
    <3>. QED
      BY <1>6, <3>1, <3>2, <3>3, TagMoves
  <2>3. \A v \in Writers \ {w} : tags'[v] = tags[v]
    BY <1>6, TagMoves DEF PanelTypes
  <2>. QED
    BY <1>6, <2>1, <2>2, <2>3 DEF SetInv
<1>7. CASE UNCHANGED tags /\ loop = "shown" /\ Idle("loop")
  BY <1>7 DEF SetInv
<1>. QED
  BY <1>1, <1>2, <1>3, <1>4, <1>5, <1>6, <1>7 DEF PanelStep, panel, PaneStep

\* A wait that is over has a tag coming: the one that began with the last answer, and
\* until that is done, all that it has not passed.
LEMMA ClearStep ==
  ASSUME PanelTypes, Labels, SetInv, ClearInv, PanelStep, open \in Nat,
         loop = "shown" /\ Idle("loop") => warned \/ \A t \in Watched : ~wait[t]
  PROVE  ClearInv'
<1> USE DEF Idle
<1>1. CASE UNCHANGED <<panel, open>>
  BY <1>1 DEF ClearInv, Watched, Tagged, Clears, panel, screen
<1>2. CASE open' > 0
  BY <1>2 DEF ClearInv
<1>3. ASSUME NEW w \in Writers, Clearing(w) PROVE ClearInv'
  <2>1. /\ tags'[w] # None /\ ~tags'[w].laid /\ ~tags'[w].tokens.rloop_wait
    BY <1>3, Beginning DEF Clearing
  <2>2. \A t : Clears(w, t)'
    BY <2>1 DEF Clears
  <2>. QED
    BY <2>2 DEF ClearInv
<1>4. ASSUME NEW w \in Writers, Tag(w), UNCHANGED open PROVE ClearInv'
  <2> SUFFICES ASSUME open = 0, ~warned', NEW t \in Watched', wait'[t]
               PROVE  \E v \in Writers : Clears(v, t)'
    BY <1>4 DEF ClearInv
  <2>1. /\ tags[w] \in TagRecords /\ tags[w] # None /\ ~tags[w].tokens.rloop_wait
    <3>1. tags[w] \in TagRecords /\ tags[w] # None
      BY <1>4, TagOf, TagMoves
    <3>. QED
      BY <3>1 DEF SetInv
  <2>2. t \in Terminals /\ t \in Watched
    BY <1>4, TagMoves DEF Watched, Tagged
  <2>3. ~warned
    BY <1>4, TagMoves
  <2>4. wait[t]
    BY <1>4, <2>1, <2>2, TagMoves DEF PanelTypes
  <2>5. PICK v \in Writers : Clears(v, t)
    BY <2>2, <2>3, <2>4 DEF ClearInv
  <2>6. CASE v # w
    <3>1. tags'[v] = tags[v]
      BY <1>4, <2>6, TagMoves DEF PanelTypes
    <3>. QED
      BY <2>5, <3>1 DEF Clears
  <2>7. CASE v = w
    <3>1. tags[w].laid => t \in tags[w].left
      BY <2>5, <2>7 DEF Clears
    <3>2. CASE tags' = [tags EXCEPT ![w] = [tags[w] EXCEPT !.laid = TRUE, !.left =
                          {u \in Terminals : Home[u] = RunSpace /\ term[u] # "none"}]]
      <4>1. t \in {u \in Terminals : Home[u] = RunSpace /\ term[u] # "none"}
        BY <2>2 DEF Watched, Tagged
      <4>2. /\ tags'[w] \in TagRecords /\ tags'[w].tokens = tags[w].tokens
            /\ t \in tags'[w].left
        BY <2>1, <3>2, <4>1 DEF PanelTypes, TagRecords
      <4>. QED
        BY <2>1, <4>2, Threads DEF Clears
    <3>3. ASSUME NEW u, tags[w].laid,
                 tags' = [tags EXCEPT ![w] = [tags[w] EXCEPT !.left = tags[w].left \ {u}]],
                 wait' = IF Tagged(u) THEN [wait EXCEPT ![u] = tags[w].tokens.rloop_wait]
                         ELSE wait
          PROVE  \E x \in Writers : Clears(x, t)'
      <4>1. u # t
        BY <2>1, <2>2, <3>3 DEF PanelTypes, Watched
      <4>2. /\ tags'[w] \in TagRecords /\ tags'[w].tokens = tags[w].tokens
            /\ t \in tags'[w].left
        BY <2>1, <3>1, <3>3, <4>1 DEF PanelTypes, TagRecords
      <4>. QED
        BY <2>1, <4>2, Threads DEF Clears
    <3>. QED
      BY <1>4, <3>1, <3>2, <3>3, TagMoves
  <2>. QED
    BY <2>6, <2>7
<1>5. ASSUME NEW t \in Terminals, PaneStep(t), UNCHANGED open PROVE ClearInv'
  <2> SUFFICES ASSUME open = 0, ~warned', NEW u \in Watched', wait'[u]
               PROVE  \E w \in Writers : Clears(w, u)'
    BY <1>5 DEF ClearInv
  <2>1. u \in Watched /\ wait[u]
    BY <1>5 DEF PaneStep, OpenPane, StartAgent, ClosePane, Finish, Watched, Tagged, Labels,
                PanelTypes, States
  <2>2. UNCHANGED <<tags, warned>>
    BY <1>5 DEF PaneStep
  <2>. QED
    BY <2>1, <2>2 DEF ClearInv, Clears
<1>6. CASE UNCHANGED panel /\ loop = "shown" /\ Idle("loop")
  BY <1>6 DEF ClearInv, Watched, Tagged, panel, screen
<1>. QED
  BY <1>1, <1>2, <1>3, <1>4, <1>5, <1>6 DEF PanelStep

-----------------------------------------------------------------------------
(* The outcome.                                                              *)

\* What may still happen once the loop shows the end: its tag goes on, its asks are
\* withdrawn, panes go.
LateStep ==
  \/ UNCHANGED <<panel, result>> /\ loop' = loop
  \/ UNCHANGED <<panel, result>> /\ loop' = "over" /\ Idle("loop")
  \/ Tag("loop") /\ UNCHANGED <<result, loop>>
  \/ /\ \E t \in Terminals : PaneStep(t) /\ (ClosePane(t) \/ Finish(t))
     /\ UNCHANGED <<result, loop>>

LoopStep ==
  \/ loop' \notin {"shown", "over"}
  \/ LoopEnd
  \/ loop \in {"shown", "over"} /\ LateStep

\* Once the loop shows the end, nobody else tags, and nothing else begins.
LEMMA LoopSteps ==
  ASSUME EndInv, [Next]_vars
  PROVE  LoopStep
<1> USE DEF session, asking, row, worker, LoopStep, LateStep, EndInv
<1>1. CASE SpawnOpens
  BY <1>1
  DEF SpawnOpens, At
<1>2. CASE SpawnStarts
  BY <1>2
  DEF SpawnStarts, At
<1>3. CASE StartedKnown
  BY <1>3
  DEF StartedKnown, At
<1>4. CASE StartedShown
  BY <1>4
  DEF StartedShown, At
<1>5. CASE Interrupted
  BY <1>5
  DEF Interrupted, At
<1>6. CASE Settles
  BY <1>6
  DEF Settles, At
<1>7. CASE Fails
  BY <1>7
  DEF Fails, At
<1>8. CASE Dialog
  BY <1>8
  DEF Dialog, At, Waits
<1>9. CASE Withdraws
  BY <1>9
  DEF Withdraws, At, Waits
<1>10. CASE Looks
  BY <1>10
  DEF Looks, At, Waits
<1>11. CASE Asked
  BY <1>11
  DEF Asked, At
<1>12. CASE Backstopped
  BY <1>12
  DEF Backstopped, At
<1>13. CASE Answered
  BY <1>13
  DEF Answered, At, InTime
<1>14. CASE Unanswered
  BY <1>14
  DEF Unanswered, At, InTime
<1>15. CASE GateCheck
  BY <1>15
  DEF GateCheck, At
<1>16. CASE NoTurn
  BY <1>16
  DEF NoTurn, At, InTime
<1>17. CASE SeenWorking
  BY <1>17
  DEF SeenWorking, At
<1>18. CASE SeenQuiet
  BY <1>18
  DEF SeenQuiet, At
<1>18a. CASE SeenNothing
  BY <1>18a
  DEF SeenNothing, At
<1>19. CASE SeenSilent
  BY <1>19
  DEF SeenSilent, At
<1>20. CASE Nudged
  BY <1>20
  DEF Nudged, At
<1>21. CASE NudgeLate
  BY <1>21
  DEF NudgeLate, At
<1>22. CASE NudgeFails
  BY <1>22
  DEF NudgeFails, At
<1>23. CASE ReviewShown
  BY <1>23
  DEF ReviewShown, At
<1>24. CASE ReviewCloses
  BY <1>24
  DEF ReviewCloses, At
<1>25. CASE ReviewOpens
  BY <1>25
  DEF ReviewOpens, At
<1>26. CASE ReviewLaunches
  BY <1>26
  DEF ReviewLaunches, At
<1>27. CASE Reviewed
  BY <1>27
  DEF Reviewed, At
<1>28. CASE FixShown
  BY <1>28
  DEF FixShown, At
<1>29. CASE FixPrompts
  BY <1>29
  DEF FixPrompts, At
<1>30. CASE FinishEnds
  BY <1>30
  DEF FinishEnds, At
<1>31. CASE FinishChecks
  BY <1>31
  DEF FinishChecks, At
<1>32. CASE FinishRecords
  BY <1>32
  DEF FinishRecords, At
<1>33. CASE Tagging
  <2>1. ASSUME NEW w \in Writers, Tag(w), loop \in {"shown", "over"} PROVE w = "loop"
    BY <2>1, Threads DEF EndInv, Tag, Layout, TagNext, TagEnd, Idle
  <2>. QED
    BY <1>33, <2>1 DEF Tagging, LoopStep, LateStep
<1>34. CASE Admit
  BY <1>34
  DEF Admit
<1>35. CASE AnswerQuestion
  BY <1>35
  DEF AnswerQuestion
<1>36. CASE AnswerDialog
  BY <1>36
  DEF AnswerDialog
<1>37. CASE Halt
  BY <1>37
  DEF Halt
<1>38. CASE StopStep
  BY <1>38
  DEF StopStep
<1>39. CASE LoopEnd
  BY <1>39 DEF LoopStep
<1>40. CASE Withdraw
  BY <1>40
  DEF Withdraw
<1>41. CASE Turns
  BY <1>41
  DEF Turns
<1>42. CASE Says
  BY <1>42
  DEF Says
<1>43. CASE WorkerGone
  <2>1. PaneStep(Worker) /\ (ClosePane(Worker) \/ Finish(Worker)) /\ UNCHANGED <<result, loop>>
    BY <1>43 DEF WorkerGone, Goes, PaneStep
  <2>. QED
    BY <1>43, <2>1, Threads DEF LoopStep, LateStep
<1>44. CASE ReviewerGone
  <2>1. PaneStep(Reviewer) /\ (ClosePane(Reviewer) \/ Finish(Reviewer)) /\ UNCHANGED <<result, loop>>
    BY <1>44 DEF ReviewerGone, Goes, PaneStep
  <2>. QED
    BY <1>44, <2>1, Threads DEF LoopStep, LateStep
<1>45. CASE UNCHANGED vars
  BY <1>45 DEF vars
<1> HIDE DEF session, asking, row, worker, LoopStep, LateStep, EndInv
<1>. QED
  BY <1>1, <1>2, <1>3, <1>4, <1>5, <1>6, <1>7, <1>8, <1>9, <1>10, <1>11, <1>12,
     <1>13, <1>14, <1>15, <1>16, <1>17, <1>18, <1>18a, <1>19, <1>20, <1>21, <1>22,
     <1>23, <1>24, <1>25, <1>26, <1>27, <1>28, <1>29, <1>30, <1>31, <1>32,
     <1>33, <1>34, <1>35, <1>36, <1>37, <1>38, <1>39, <1>40, <1>41, <1>42,
     <1>43, <1>44, <1>45
  DEF Next, Runner, Ended

\* The watched terminals of a step without a space: none.
LEMMA Unplaced == ASSUME AgentInv, ~placed PROVE Watched = {}
  BY DEF AgentInv, Watched, Tagged

\* Panes that go take nothing off the panel's terminals but themselves.
LEMMA Going ==
  ASSUME PanelTypes, NEW t \in Terminals, ClosePane(t) \/ Finish(t)
  PROVE  \A u \in Watched' : u \in Watched /\ text'[u] = text[u] /\ wait'[u] = wait[u]
  BY DEF PanelTypes, ClosePane, Finish, Watched, Tagged, States

\* The loop's tag, which nobody tags over, brings the outcome to every terminal.
LEMMA FinalStep ==
  ASSUME TypeInv, PanelTypes, AgentInv, EndInv, FinalInv, LoopStep PROVE FinalInv'
<1>1. CASE loop' \notin {"shown", "over"}
  BY <1>1 DEF FinalInv
<1>2. CASE LoopEnd
  <2>1. Idle("loop") /\ result' \in {"ok", "failed"} /\ UNCHANGED <<screen, warned>>
    BY <1>2 DEF LoopEnd, EndInv
  <2>2. CASE placed
    <3>1. PICK rloop \in Texts :
            Tokens(result', "working") = [rloop |-> rloop, rloop_wait |-> FALSE]
      BY <2>1, TokensOf
    <3>2. tags' = [tags EXCEPT !["loop"] =
                     Started([rloop |-> rloop, rloop_wait |-> FALSE], FALSE)]
      BY <1>2, <2>2, <3>1 DEF LoopEnd, Emit
    <3>3. /\ tags'["loop"] # None /\ ~tags'["loop"].laid
          /\ tags'["loop"].tokens = Tokens(result', "working")
      BY <3>1, <3>2, StartedIs, Threads DEF PanelTypes, Started
    <3>. QED
      BY <3>3, TokensOf DEF FinalInv, Idle, Tokens
  <2>3. CASE ~placed
    <3>1. Watched' = {} /\ tags' = tags
      BY <1>2, <2>1, <2>3, Unplaced DEF LoopEnd, Watched, Tagged, screen
    <3>. QED
      BY <2>1, <3>1 DEF FinalInv, Idle
  <2>. QED
    BY <2>2, <2>3
<1>3. CASE /\ loop \in {"shown", "over"} /\ UNCHANGED <<panel, result>>
           /\ loop' = loop \/ Idle("loop")
  <2>1. CASE loop' = loop
    BY <1>3, <2>1 DEF FinalInv, Idle, Final, Watched, Tagged, Tokens, panel, screen
  <2>2. CASE Idle("loop")
    BY <1>3, <2>2 DEF FinalInv, Idle, Final, Watched, Tagged, panel, screen
  <2>. QED
    BY <1>3, <2>1, <2>2
<1>4. CASE loop \in {"shown", "over"} /\ Tag("loop") /\ UNCHANGED <<result, loop>>
  <2> DEFINE S == {t \in Terminals : Home[t] = RunSpace /\ term[t] # "none"}
             tag == tags["loop"]
  <2>1. tag \in TagRecords /\ tag # None /\ "loop" \in Writers
    BY <1>4, TagOf, TagMoves, Threads DEF Idle
  <2>2. /\ tag.tokens = Tokens(result, "working")
        /\ tag.laid => \A t \in Watched : t \in tag.left \/ Final(t)
    BY <1>4, <2>1 DEF FinalInv, Idle
  <2>3. Watched' = Watched /\ Watched \subseteq S
    BY <1>4, TagMoves, Threads DEF Watched, Tagged
  <2>4. Tokens(result', "working") = Tokens(result, "working")
    BY <1>4 DEF Tokens
  <2>5. CASE /\ tags' = [tags EXCEPT !["loop"] = None] /\ UNCHANGED <<text, wait>>
             /\ tag.laid /\ tag.left = {}
    BY <1>4, <2>1, <2>2, <2>3, <2>5 DEF FinalInv, Idle, PanelTypes, Final
  <2>6. CASE tags' = [tags EXCEPT !["loop"] = None] /\ warned'
    BY <2>1, <2>6 DEF FinalInv, Idle, PanelTypes
  <2>7. CASE tags' = [tags EXCEPT !["loop"] = [tag EXCEPT !.laid = TRUE, !.left = S]]
    <3> HIDE DEF S, tag
    <3>1. /\ tags'["loop"] \in TagRecords /\ tags'["loop"].tokens = tag.tokens
          /\ tags'["loop"].left = S
      <4>1. S \subseteq Terminals
        BY DEF S
      <4>. QED
        BY <2>1, <2>7, <4>1 DEF PanelTypes, TagRecords
    <3>2. tags'["loop"] # None
      BY <3>1, Threads
    <3>. QED
      BY <2>2, <2>3, <2>4, <3>1, <3>2 DEF FinalInv, Idle
  <2>8. ASSUME NEW t, tag.laid,
               tags' = [tags EXCEPT !["loop"] = [tag EXCEPT !.left = tag.left \ {t}]],
               text' = IF Tagged(t) THEN [text EXCEPT ![t] = tag.tokens.rloop] ELSE text,
               wait' = IF Tagged(t) THEN [wait EXCEPT ![t] = tag.tokens.rloop_wait] ELSE wait
        PROVE  FinalInv'
    <3> HIDE DEF S, tag
    <3>1. /\ tags'["loop"] \in TagRecords /\ tags'["loop"].tokens = tag.tokens
          /\ tags'["loop"].left = tag.left \ {t}
      BY <2>1, <2>8 DEF PanelTypes, TagRecords
    <3>2. tags'["loop"] # None
      BY <3>1, Threads
    <3>3. /\ tag.tokens.rloop = (IF result = "ok" THEN "done" ELSE "failed")
          /\ tag.tokens.rloop_wait = FALSE
      BY <1>4, <2>2, TokensOf DEF EndInv
    <3>4. ASSUME NEW u \in Watched PROVE u \in tag.left \ {t} \/ Final(u)'
      <4>1. CASE u = t
        BY <1>4, <2>8, <3>3, <4>1 DEF Final, Watched, PanelTypes
      <4>2. CASE u # t
        BY <1>4, <2>2, <2>8, <4>2 DEF Final, Watched, PanelTypes
      <4>. QED
        BY <4>1, <4>2
    <3>. QED
      BY <2>2, <2>3, <2>4, <3>1, <3>2, <3>4 DEF FinalInv, Idle
  <2>. QED
    BY <1>4, <2>5, <2>6, <2>7, <2>8, TagMoves, Threads
<1>5. ASSUME NEW t \in Terminals, PaneStep(t), ClosePane(t) \/ Finish(t),
             loop \in {"shown", "over"}, UNCHANGED <<result, loop>>
      PROVE  FinalInv'
  <2>1. UNCHANGED <<tags, warned>>
    BY <1>5 DEF PaneStep
  <2>2. \A u \in Watched' : u \in Watched /\ text'[u] = text[u] /\ wait'[u] = wait[u]
    BY <1>5, Going
  <2>3. Tokens(result', "working") = Tokens(result, "working")
    BY <1>5 DEF Tokens
  <2>. QED
    BY <1>5, <2>1, <2>2, <2>3 DEF FinalInv, Idle, Final
<1>. QED
  BY <1>1, <1>2, <1>3, <1>4, <1>5 DEF LoopStep, LateStep

-----------------------------------------------------------------------------
(* The clocks.                                                               *)

WatchInv ==
  /\ watch \in Watches /\ watch.elapsed <= backstop + 1
  /\ look \in [agent : {"working", "idle", "blocked", "unknown"}, background : BOOLEAN]
  /\ pc # "decide" \/ backstop = 0 => watch.elapsed <= backstop
  /\ pc \in {"nudge", "nudgeTurn"} => watch.nudges < MaxNudges

\* What the clocks rest on.
Driven == /\ backstop \in Nat /\ Background \subseteq BOOLEAN
          /\ does \in {"working", "idle", "blocked", "gone"}

\* What the bounds of the clocks are.
LEMMA Bounds == Grace \in Nat /\ TornGrace \in Nat /\ MaxNudges \in Nat
                /\ Background \subseteq BOOLEAN
  BY WatchAssumption

\* A new watch.
LEMMA NewWatchIs == /\ NewWatch \in Watches /\ NewWatch.elapsed = 0
                    /\ NoLook \in [agent : {"working", "idle", "blocked", "unknown"},
                                   background : BOOLEAN]
  BY Bounds DEF NewWatch, Watches, NoLook

\* A step that begins with a new watch keeps the clocks within their limits.
LEMMA Resets ==
  ASSUME Driven, UNCHANGED backstop, watch' = NewWatch,
         look' \in [agent : {"working", "idle", "blocked", "unknown"}, background : BOOLEAN],
         pc' \notin {"nudge", "nudgeTurn"}
  PROVE  WatchInv'
  BY NewWatchIs DEF WatchInv, Driven

\* The watch that sees the sentinel age.
LEMMA AgedIs ==
  ASSUME watch \in Watches, NEW read, Waits(read)
  PROVE  Aged \in Watches /\ Aged.elapsed = watch.elapsed /\ Aged.nudges = watch.nudges
  BY Bounds DEF Aged, Watches, Waits

\* A tick that goes on has read a state, or nothing.
LEMMA GoesOnIs ==
  ASSUME Driven, NEW read \in Reads, Waits(read), GoesOn(read)
  PROVE  /\ pc' \in {"tick", "asked"}
         /\ look' \in [agent : {"working", "idle", "blocked", "unknown"},
                      background : BOOLEAN]
<1>1. CASE sentinel = "ok"
  BY <1>1, NewWatchIs DEF GoesOn, Ticks
<1>2. CASE sentinel # "ok"
  <2> DEFINE seen == IF read = "error" THEN "unknown" ELSE read
  <2>1. read # "gone" /\ pc' = "asked" /\ look' = [NoLook EXCEPT !.agent = seen]
    BY <1>2 DEF GoesOn, Waits
  <2>2. seen \in {"working", "idle", "blocked", "unknown"}
    BY <2>1 DEF Driven, Reads
  <2> HIDE DEF seen
  <2>. QED
    BY <2>1, <2>2 DEF NoLook
<1>. QED
  BY <1>1, <1>2

\* The silence is over, or a nudge begins.
LEMMA QuietIs ==
  ASSUME watch \in Watches, NEW stalled \in BOOLEAN, NEW nudged \in BOOLEAN,
         NEW w, w = [watch EXCEPT !.quiet = 0, !.stalled = stalled, !.nudged = nudged]
  PROVE  w \in Watches /\ w.elapsed = watch.elapsed /\ w.nudges = watch.nudges
<1>1. 0 \in 0..(3 * Grace)
  BY Bounds
<1>. QED
  BY <1>1 DEF Watches

\* A step of the watch that counts no time and no nudge.
LEMMA Uncounted ==
  ASSUME WatchInv, Driven, UNCHANGED backstop, watch' \in Watches,
         watch'.elapsed = watch.elapsed, watch'.nudges = watch.nudges,
         look' \in [agent : {"working", "idle", "blocked", "unknown"}, background : BOOLEAN],
         pc # "decide" \/ watch.elapsed <= backstop \/ backstop = 0,
         pc' \notin {"nudge", "nudgeTurn"} \/ watch.nudges < MaxNudges
  PROVE  WatchInv'
  BY DEF WatchInv, Driven

\* A step that leaves the watch alone.
LEMMA Unchanged ==
  ASSUME WatchInv, UNCHANGED <<watch, look, backstop>>, pc # "decide" \/ pc' = pc,
         pc' \notin {"nudge", "nudgeTurn"} \/ pc' = pc
  PROVE  WatchInv'
  BY DEF WatchInv

\* A tick sees to the backstop before the next one counts; a nudge is prepared only when
\* one is left.
LEMMA WatchStep ==
  ASSUME WatchInv, Driven, [Next]_vars
  PROVE  WatchInv'
<1> USE DEF session, asking, row, worker
<1>1. CASE SpawnOpens
  <2>1. CASE watch' = NewWatch
    BY <1>1, <2>1, Resets, NewWatchIs DEF SpawnOpens, At, Ends, Unwatched, WatchInv
  <2>2. CASE UNCHANGED watch
    BY <1>1, <2>2, Uncounted, NewWatchIs DEF SpawnOpens, At, Ends, Unwatched, WatchInv
  <2>. QED
    BY <1>1, <2>1, <2>2 DEF SpawnOpens, Ends, Unwatched
<1>2. CASE SpawnStarts
  <2>1. CASE watch' = NewWatch
    BY <1>2, <2>1, Resets, NewWatchIs DEF SpawnStarts, At, Ends, Unwatched, WatchInv
  <2>2. CASE UNCHANGED watch
    BY <1>2, <2>2, Uncounted, NewWatchIs DEF SpawnStarts, At, Ends, Unwatched, WatchInv
  <2>. QED
    BY <1>2, <2>1, <2>2 DEF SpawnStarts, Ends, Unwatched
<1>3. CASE StartedKnown
  BY <1>3, Unchanged DEF StartedKnown, At
<1>4. CASE StartedShown
  BY <1>4, Unchanged DEF StartedShown, At
<1>5. CASE Interrupted
  BY <1>5, Resets, NewWatchIs DEF Interrupted, At, Ends, Unwatched
<1>6. CASE Settles
  <2>1. CASE watch' = NewWatch
    BY <1>6, <2>1, Resets, NewWatchIs DEF Settles, At, Judge, Ends, Unwatched, WatchInv
  <2>2. CASE UNCHANGED watch
    BY <1>6, <2>2, Uncounted, NewWatchIs DEF Settles, At, Judge, Ends, Unwatched, WatchInv
  <2>. QED
    BY <1>6, <2>1, <2>2 DEF Settles, Judge, Ends, Unwatched
<1>7. CASE Fails
  BY <1>7, Resets, NewWatchIs DEF Fails, At, Ends, Unwatched
<1>8. CASE Dialog
  <2>1. /\ Waits("blocked") /\ pc = "tick" /\ UNCHANGED <<pc, look, backstop>>
        /\ watch' = [Aged EXCEPT !.quiet = IF sentinel = "ok" THEN Aged.quiet ELSE 0,
                                 !.stalled = Aged.stalled /\ sentinel = "ok"]
    BY <1>8 DEF Dialog, Waits, At
  <2>2. Aged \in Watches /\ Aged.elapsed = watch.elapsed /\ Aged.nudges = watch.nudges
    BY <2>1, AgedIs DEF WatchInv
  <2> DEFINE aged == Aged
             quiet == IF sentinel = "ok" THEN aged.quiet ELSE 0
             stalled == aged.stalled /\ sentinel = "ok"
  <2>3. quiet \in 0..(3 * Grace) /\ stalled \in BOOLEAN
    BY <2>2, Bounds DEF Watches
  <2>4. watch' = [aged EXCEPT !.quiet = quiet, !.stalled = stalled] /\ aged \in Watches
        /\ aged.elapsed = watch.elapsed /\ aged.nudges = watch.nudges
    BY <2>1, <2>2
  <2> HIDE DEF aged, quiet, stalled
  <2>5. watch' \in Watches /\ watch'.elapsed = watch.elapsed /\ watch'.nudges = watch.nudges
    BY <2>3, <2>4 DEF Watches
  <2>. QED
    BY <2>1, <2>5, Uncounted DEF WatchInv
<1>9. CASE Withdraws
  <2>1. PICK read \in Reads : Waits(read) /\ GoesOn(read)
    BY <1>9 DEF Withdraws, Waits
  <2>2. watch' = Aged /\ pc = "tick" /\ UNCHANGED backstop
    BY <1>9 DEF Withdraws, Waits, At
  <2>3. /\ pc' \in {"tick", "asked"}
        /\ look' \in [agent : {"working", "idle", "blocked", "unknown"},
                     background : BOOLEAN]
    BY <2>1, GoesOnIs
  <2>. QED
    BY <2>1, <2>2, <2>3, AgedIs, Uncounted, NewWatchIs DEF WatchInv
<1>10. CASE Looks
  <2>1. PICK read \in Reads : Waits(read) /\ GoesOn(read)
    BY <1>10 DEF Looks, Waits
  <2>2. watch' = Aged /\ pc = "tick" /\ UNCHANGED backstop
    BY <1>10 DEF Looks, Waits, At
  <2>3. /\ pc' \in {"tick", "asked"}
        /\ look' \in [agent : {"working", "idle", "blocked", "unknown"},
                     background : BOOLEAN]
    BY <2>1, GoesOnIs
  <2>. QED
    BY <2>1, <2>2, <2>3, AgedIs, Uncounted, NewWatchIs DEF WatchInv
<1>11. CASE Asked
  <2>1. CASE open > 0
    BY <1>11, <2>1, Uncounted, NewWatchIs DEF Asked, At, Ticks, WatchInv
  <2>2. CASE ~(open > 0)
    <3>1. /\ watch.elapsed \in Nat /\ watch.elapsed <= backstop /\ pc' = "decide"
          /\ watch' = [watch EXCEPT !.elapsed = IF backstop = 0 THEN 0 ELSE watch.elapsed + 1]
          /\ UNCHANGED <<look, backstop>>
      BY <1>11, <2>2 DEF Asked, At, WatchInv, Watches
    <3>2. watch' \in Watches
          /\ watch'.elapsed = IF backstop = 0 THEN 0 ELSE watch.elapsed + 1
      BY <3>1 DEF WatchInv, Watches
    <3>. QED
      BY <3>1, <3>2 DEF WatchInv, Driven
  <2>. QED
    BY <2>1, <2>2
<1>12. CASE Backstopped
  BY <1>12, Resets, NewWatchIs DEF Backstopped, At, Ends, Unwatched
<1>13. CASE Answered
  <2>1. PICK b \in Background : Hears(b)
    BY <1>13 DEF Answered
  <2>2. look' \in [agent : {"working", "idle", "blocked", "unknown"}, background : BOOLEAN]
    BY <2>1, Bounds DEF Hears, WatchInv
  <2>3. watch' \in Watches /\ watch'.elapsed = watch.elapsed /\ watch'.nudges = watch.nudges
    <3>1. watch' = [watch EXCEPT !.quiet = 0, !.stalled = FALSE, !.nudged = FALSE]
      BY <1>13 DEF Answered, WatchInv, Watches
    <3>. QED
      BY <3>1, QuietIs DEF WatchInv
  <2>. QED
    BY <1>13, <2>2, <2>3, Uncounted DEF Answered, InTime, At, WatchInv
<1>14. CASE Unanswered
  <2>1. /\ pc # "decide" \/ watch.elapsed <= backstop \/ backstop = 0
        /\ look' = NoLook /\ UNCHANGED backstop
    BY <1>14 DEF Unanswered, InTime, At
  <2>2. CASE Ends("failed")
    BY <2>1, <2>2, Resets, NewWatchIs DEF Ends, Unwatched
  <2>3. CASE /\ watch.nudges < MaxNudges /\ pc' = "nudgeTurn"
             /\ watch' = [watch EXCEPT !.stalled = TRUE, !.nudged = TRUE, !.quiet = 0]
    <3>1. watch' \in Watches /\ watch'.elapsed = watch.elapsed
          /\ watch'.nudges = watch.nudges
      <4>1. watch' = [watch EXCEPT !.quiet = 0, !.stalled = TRUE, !.nudged = TRUE]
        BY <2>3 DEF WatchInv, Watches
      <4>. QED
        BY <4>1, QuietIs DEF WatchInv
    <3>. QED
      BY <2>1, <2>3, <3>1, Uncounted, NewWatchIs
  <2>4. CASE pc' = "gate" /\ UNCHANGED watch
    BY <2>1, <2>4, Uncounted, NewWatchIs DEF WatchInv
  <2>. QED
    BY <1>14, <2>2, <2>3, <2>4 DEF Unanswered, Stall
<1>15. CASE GateCheck
  <2>1. CASE watch' = NewWatch
    BY <1>15, <2>1, Resets, NewWatchIs DEF GateCheck, At, Ticks, Ends, Unwatched, WatchInv
  <2>2. CASE UNCHANGED watch
    BY <1>15, <2>2, Uncounted, NewWatchIs DEF GateCheck, At, Ticks, Ends, Unwatched, WatchInv
  <2>. QED
    BY <1>15, <2>1, <2>2 DEF GateCheck, Ticks, Ends, Unwatched
<1>16. CASE NoTurn
  <2>1. PICK b \in Background : Hears(b)
    BY <1>16 DEF NoTurn
  <2>2. look' \in [agent : {"working", "idle", "blocked", "unknown"}, background : BOOLEAN]
    BY <2>1, Bounds DEF Hears, WatchInv
  <2>. QED
    BY <1>16, <2>2, Uncounted DEF NoTurn, InTime, At, WatchInv
<1>17. CASE SeenWorking
  <2>1. watch' = [watch EXCEPT !.quiet = 0, !.stalled = FALSE, !.nudged = watch.nudged]
        /\ watch.nudged \in BOOLEAN
    BY <1>17 DEF SeenWorking, WatchInv, Watches
  <2>2. watch' \in Watches /\ watch'.elapsed = watch.elapsed /\ watch'.nudges = watch.nudges
    BY <2>1, QuietIs DEF WatchInv
  <2>. QED
    BY <1>17, <2>2, Uncounted, NewWatchIs DEF SeenWorking, At, Ticks
<1>18. CASE SeenQuiet
  <2>1. watch.quiet \in Nat /\ watch.quiet + 1 <= 3 * Grace
    BY <1>18, Bounds DEF SeenQuiet, Limit, WatchInv, Watches
  <2>2. watch' = [watch EXCEPT !.quiet = watch.quiet + 1]
    BY <1>18 DEF SeenQuiet
  <2>3. watch' \in Watches /\ watch'.elapsed = watch.elapsed /\ watch'.nudges = watch.nudges
    BY <2>1, <2>2, Bounds DEF WatchInv, Watches
  <2>. QED
    BY <1>18, <2>3, Uncounted, NewWatchIs DEF SeenQuiet, At, Ticks
<1>18a. CASE SeenNothing
  BY <1>18a, Uncounted, NewWatchIs DEF SeenNothing, At, Ticks, WatchInv
<1>19. CASE SeenSilent
  <2>1. /\ pc # "decide" \/ watch.elapsed <= backstop \/ backstop = 0
        /\ look' = NoLook /\ UNCHANGED backstop
    BY <1>19 DEF SeenSilent, InTime, At
  <2>2. CASE Ends("failed")
    BY <2>1, <2>2, Resets, NewWatchIs DEF Ends, Unwatched
  <2>3. CASE /\ watch.nudges < MaxNudges /\ pc' = "nudge"
             /\ watch' = [watch EXCEPT !.stalled = TRUE, !.nudged = TRUE, !.quiet = 0]
    <3>1. watch' \in Watches /\ watch'.elapsed = watch.elapsed
          /\ watch'.nudges = watch.nudges
      <4>1. watch' = [watch EXCEPT !.quiet = 0, !.stalled = TRUE, !.nudged = TRUE]
        BY <2>3 DEF WatchInv, Watches
      <4>. QED
        BY <4>1, QuietIs DEF WatchInv
    <3>. QED
      BY <2>1, <2>3, <3>1, Uncounted, NewWatchIs
  <2>4. CASE pc' = "gate" /\ UNCHANGED watch
    BY <2>1, <2>4, Uncounted, NewWatchIs DEF WatchInv
  <2>. QED
    BY <1>19, <2>2, <2>3, <2>4 DEF SeenSilent, Stall
<1>20. CASE Nudged
  <2>1. watch.nudges \in Nat /\ watch.nudges < MaxNudges /\ pc # "decide"
    BY <1>20 DEF Nudged, At, WatchInv, Watches
  <2>2. watch' = [watch EXCEPT !.nudges = watch.nudges + 1] /\ pc' = "tick" /\ look' = NoLook
        /\ UNCHANGED backstop
    BY <1>20 DEF Nudged, Ticks
  <2>3. watch' \in Watches /\ watch'.elapsed = watch.elapsed
    BY <2>1, <2>2, Bounds DEF WatchInv, Watches
  <2>. QED
    BY <2>1, <2>2, <2>3, NewWatchIs DEF WatchInv
<1>21. CASE NudgeLate
  <2>1. watch' \in Watches /\ watch'.elapsed = watch.elapsed /\ watch'.nudges = watch.nudges
    BY <1>21, Bounds DEF NudgeLate, WatchInv, Watches
  <2>. QED
    BY <1>21, <2>1, Uncounted, NewWatchIs DEF NudgeLate, At, Ticks
<1>22. CASE NudgeFails
  BY <1>22, Resets, NewWatchIs DEF NudgeFails, At, Ends, Unwatched
<1>23. CASE ReviewShown
  BY <1>23, Unchanged DEF ReviewShown, At
<1>24. CASE ReviewCloses
  <2>1. CASE watch' = NewWatch
    BY <1>24, <2>1, Resets, NewWatchIs DEF ReviewCloses, At, Ends, Unwatched, WatchInv
  <2>2. CASE UNCHANGED watch
    BY <1>24, <2>2, Uncounted, NewWatchIs DEF ReviewCloses, At, Ends, Unwatched, WatchInv
  <2>. QED
    BY <1>24, <2>1, <2>2 DEF ReviewCloses, Ends, Unwatched
<1>25. CASE ReviewOpens
  <2>1. CASE watch' = NewWatch
    BY <1>25, <2>1, Resets, NewWatchIs DEF ReviewOpens, At, Ends, Unwatched, WatchInv
  <2>2. CASE UNCHANGED watch
    BY <1>25, <2>2, Uncounted, NewWatchIs DEF ReviewOpens, At, Ends, Unwatched, WatchInv
  <2>. QED
    BY <1>25, <2>1, <2>2 DEF ReviewOpens, Ends, Unwatched
<1>26. CASE ReviewLaunches
  <2>1. CASE watch' = NewWatch
    BY <1>26, <2>1, Resets, NewWatchIs DEF ReviewLaunches, At, Ends, Unwatched, WatchInv
  <2>2. CASE UNCHANGED watch
    BY <1>26, <2>2, Uncounted, NewWatchIs DEF ReviewLaunches, At, Ends, Unwatched, WatchInv
  <2>. QED
    BY <1>26, <2>1, <2>2 DEF ReviewLaunches, Ends, Unwatched
<1>27. CASE Reviewed
  <2>1. CASE watch' = NewWatch
    BY <1>27, <2>1, Resets, NewWatchIs DEF Reviewed, At, Ends, Unwatched, WatchInv
  <2>2. CASE UNCHANGED watch
    BY <1>27, <2>2, Uncounted, NewWatchIs DEF Reviewed, At, Ends, Unwatched, WatchInv
  <2>. QED
    BY <1>27, <2>1, <2>2 DEF Reviewed, Ends, Unwatched
<1>28. CASE FixShown
  BY <1>28, Unchanged DEF FixShown, At
<1>29. CASE FixPrompts
  <2>1. CASE watch' = NewWatch
    BY <1>29, <2>1, Resets, NewWatchIs DEF FixPrompts, At, Ends, Unwatched, WatchInv
  <2>2. CASE UNCHANGED watch
    BY <1>29, <2>2, Uncounted, NewWatchIs DEF FixPrompts, At, Ends, Unwatched, WatchInv
  <2>. QED
    BY <1>29, <2>1, <2>2 DEF FixPrompts, Ends, Unwatched
<1>30. CASE FinishEnds
  BY <1>30, Unchanged DEF FinishEnds, At
<1>31. CASE FinishChecks
  BY <1>31, Unchanged DEF FinishChecks, At
<1>32. CASE FinishRecords
  BY <1>32, Unchanged DEF FinishRecords, At
<1>33. CASE Tagging
  BY <1>33, Unchanged DEF Tagging
<1>34. CASE Admit
  BY <1>34, Unchanged DEF Admit
<1>35. CASE AnswerQuestion
  BY <1>35, Unchanged DEF AnswerQuestion
<1>36. CASE AnswerDialog
  BY <1>36, Unchanged DEF AnswerDialog
<1>37. CASE Halt
  BY <1>37, Unchanged DEF Halt
<1>38. CASE StopStep
  BY <1>38, Unchanged DEF StopStep
<1>39. CASE LoopEnd
  BY <1>39, Unchanged DEF LoopEnd
<1>40. CASE Withdraw
  BY <1>40, Unchanged DEF Withdraw
<1>41. CASE Turns
  BY <1>41, Unchanged DEF Turns
<1>42. CASE Says
  BY <1>42, Unchanged DEF Says
<1>43. CASE WorkerGone
  BY <1>43, Unchanged DEF WorkerGone
<1>44. CASE ReviewerGone
  BY <1>44, Unchanged DEF ReviewerGone
<1>45. CASE UNCHANGED vars
  BY <1>45, Unchanged DEF vars
<1> HIDE DEF session, asking, row, worker
<1>. QED
  BY <1>1, <1>2, <1>3, <1>4, <1>5, <1>6, <1>7, <1>8, <1>9, <1>10, <1>11, <1>12,
     <1>13, <1>14, <1>15, <1>16, <1>17, <1>18, <1>18a, <1>19, <1>20, <1>21, <1>22,
     <1>23, <1>24, <1>25, <1>26, <1>27, <1>28, <1>29, <1>30, <1>31, <1>32,
     <1>33, <1>34, <1>35, <1>36, <1>37, <1>38, <1>39, <1>40, <1>41, <1>42,
     <1>43, <1>44, <1>45
  DEF Next, Runner, Ended

-----------------------------------------------------------------------------
(* The places of the threads, and who may still tag.                         *)

CtlTypes ==
  /\ pc \in Places /\ loop \in LoopPlaces
  /\ placed \in BOOLEAN /\ known \in BOOLEAN /\ ended \in BOOLEAN
  /\ round \in 0..MaxRounds /\ (pc = "review" => round < MaxRounds)
  /\ result \in {None, "ok", "failed"}
  /\ record \in {"queued", "spawned", "running", "waiting-input", "stalled", "ok", "failed"}

WorkerTypes ==
  /\ does \in {"working", "idle", "blocked", "gone"}
  /\ turn \in BOOLEAN /\ hooks \in BOOLEAN /\ backstop \in Backstops
  /\ sentinel \in {"none", "torn", "ok", "failed"}

AskTypes ==
  /\ open \in 0..MaxAsks /\ asks \in 0..MaxAsks /\ open <= asks
  /\ dialog \in BOOLEAN /\ (dialog => open > 0)

\* A step without a workspace has no agent.
PlacedInv ==
  ~placed => /\ pc \in {"spawn", "finish", "record", "recorded", "done"}
             /\ ~agent[Worker] /\ ~agent[Reviewer]

\* A stopped clock counts nothing: a round that is entered is one of them.
LEMMA Rounds ==
  ASSUME round \in 0..MaxRounds, round < MaxRounds PROVE round + 1 \in 0..MaxRounds
  BY WatchAssumption

\* The places of the threads.
LEMMA CtlStep ==
  ASSUME CtlTypes, EndInv, [Next]_vars
  PROVE  CtlTypes'
<1> USE DEF session, CtlTypes, Places, LoopPlaces
<1>1. CASE SpawnOpens
  BY <1>1
  DEF SpawnOpens, At, RecordState, Ends, Unwatched
<1>2. CASE SpawnStarts
  BY <1>2
  DEF SpawnStarts, At, RecordState, Ends, Unwatched
<1>3. CASE StartedKnown
  BY <1>3
  DEF StartedKnown, At
<1>4. CASE StartedShown
  BY <1>4
  DEF StartedShown, At
<1>5. CASE Interrupted
  BY <1>5
  DEF Interrupted, At, Ends, Unwatched
<1>6. CASE Settles
  BY <1>6
  DEF Settles, At, Judge, Ends, Unwatched
<1>7. CASE Fails
  BY <1>7
  DEF Fails, At, Ends, Unwatched
<1>8. CASE Dialog
  BY <1>8
  DEF Dialog, At, Waits, StepState
<1>9. CASE Withdraws
  <2>1. pc' \in {"tick", "asked"} /\ UNCHANGED <<loop, placed, known, ended, round, result>>
    BY <1>9
    DEF Withdraws, GoesOn, Ticks
  <2>2. record' \in {"running", record}
    BY <1>9
    DEF Withdraws, Release, StepState
  <2>. QED
    BY <2>1, <2>2
<1>10. CASE Looks
  BY <1>10
  DEF Looks, At, Waits, GoesOn, Ticks
<1>11. CASE Asked
  BY <1>11
  DEF Asked, At, Ticks
<1>12. CASE Backstopped
  BY <1>12
  DEF Backstopped, At, Ends, Unwatched
<1>13. CASE Answered
  BY <1>13
  DEF Answered, At, InTime, RecordState
<1>14. CASE Unanswered
  BY <1>14
  DEF Unanswered, At, Ends, Unwatched, InTime, Stall, RecordState
<1>15. CASE GateCheck
  BY <1>15
  DEF GateCheck, At, Ends, Unwatched, Ticks
<1>16. CASE NoTurn
  BY <1>16
  DEF NoTurn, At, InTime, RecordState
<1>17. CASE SeenWorking
  BY <1>17
  DEF SeenWorking, At, Ticks, RecordState
<1>18. CASE SeenQuiet
  BY <1>18
  DEF SeenQuiet, At, Ticks
<1>18a. CASE SeenNothing
  BY <1>18a
  DEF SeenNothing, At, Ticks
<1>19. CASE SeenSilent
  <2>1. UNCHANGED <<loop, placed, known, ended, round>>
    BY <1>19
    DEF SeenSilent
  <2>2. pc' \in {"finish", "nudge"} /\ result' \in {"failed", result}
    BY <1>19
    DEF SeenSilent, Ends, Stall
  <2>3. record' \in {"stalled", record}
    BY <1>19
    DEF SeenSilent, Stall, RecordState
  <2>. QED
    BY <2>1, <2>2, <2>3
<1>20. CASE Nudged
  BY <1>20
  DEF Nudged, At, Ticks
<1>21. CASE NudgeLate
  BY <1>21
  DEF NudgeLate, At, Ticks, RecordState
<1>22. CASE NudgeFails
  BY <1>22
  DEF NudgeFails, At, Ends, Unwatched
<1>23. CASE ReviewShown
  BY <1>23, Rounds
  DEF ReviewShown, At
<1>24. CASE ReviewCloses
  BY <1>24
  DEF ReviewCloses, At, Ends, Unwatched
<1>25. CASE ReviewOpens
  BY <1>25
  DEF ReviewOpens, At, Ends, Unwatched
<1>26. CASE ReviewLaunches
  BY <1>26
  DEF ReviewLaunches, At, Ends, Unwatched
<1>27. CASE Reviewed
  BY <1>27
  DEF Reviewed, At, Ends, Unwatched
<1>28. CASE FixShown
  BY <1>28
  DEF FixShown, At
<1>29. CASE FixPrompts
  BY <1>29
  DEF FixPrompts, At, Ends, Unwatched
<1>30. CASE FinishEnds
  BY <1>30
  DEF FinishEnds, At
<1>31. CASE FinishChecks
  BY <1>31
  DEF FinishChecks, At, Over, EndInv
<1>32. CASE FinishRecords
  BY <1>32
  DEF FinishRecords, At, RecordState, Over, EndInv
<1>33. CASE Tagging
  BY <1>33
  DEF Tagging
<1>34. CASE Admit
  <2>1. record' = record \/ record' = "waiting-input"
    BY <1>34 DEF Admit, StepState
  <2>2. UNCHANGED <<pc, loop, placed, known, ended, round, result>>
    BY <1>34 DEF Admit
  <2>. QED
    BY <2>1, <2>2
<1>35. CASE AnswerQuestion
  <2>1. record' = record \/ record' = "running"
    BY <1>35 DEF AnswerQuestion, Release, StepState
  <2>2. UNCHANGED <<pc, loop, placed, known, ended, round, result>>
    BY <1>35 DEF AnswerQuestion
  <2>. QED
    BY <2>1, <2>2
<1>36. CASE AnswerDialog
  <2>1. record' = record \/ record' = "running"
    BY <1>36 DEF AnswerDialog, Release, StepState
  <2>2. UNCHANGED <<pc, loop, placed, known, ended, round, result>>
    BY <1>36 DEF AnswerDialog
  <2>. QED
    BY <2>1, <2>2
<1>37. CASE Halt
  BY <1>37
  DEF Halt, RecordState, Over
<1>38. CASE StopStep
  BY <1>38
  DEF StopStep
<1>39. CASE LoopEnd
  BY <1>39
  DEF LoopEnd, EndInv
<1>40. CASE Withdraw
  BY <1>40
  DEF Withdraw, EndInv
<1>41. CASE Turns
  BY <1>41
  DEF Turns
<1>42. CASE Says
  BY <1>42
  DEF Says
<1>43. CASE WorkerGone
  BY <1>43
  DEF WorkerGone
<1>44. CASE ReviewerGone
  BY <1>44
  DEF ReviewerGone
<1>45. CASE UNCHANGED vars
  BY <1>45 DEF vars
<1> HIDE DEF session, CtlTypes, Places, LoopPlaces
<1>. QED
  BY <1>1, <1>2, <1>3, <1>4, <1>5, <1>6, <1>7, <1>8, <1>9, <1>10, <1>11, <1>12,
     <1>13, <1>14, <1>15, <1>16, <1>17, <1>18, <1>18a, <1>19, <1>20, <1>21, <1>22,
     <1>23, <1>24, <1>25, <1>26, <1>27, <1>28, <1>29, <1>30, <1>31, <1>32,
     <1>33, <1>34, <1>35, <1>36, <1>37, <1>38, <1>39, <1>40, <1>41, <1>42,
     <1>43, <1>44, <1>45
  DEF Next, Runner, Ended

\* The agent and its row.
LEMMA WorkerStep ==
  ASSUME WorkerTypes, [Next]_vars
  PROVE  WorkerTypes'
<1> USE DEF row, worker, WorkerTypes
<1>1. CASE SpawnOpens
  BY <1>1
  DEF SpawnOpens
<1>2. CASE SpawnStarts
  BY <1>2
  DEF SpawnStarts
<1>3. CASE StartedKnown
  BY <1>3
  DEF StartedKnown
<1>4. CASE StartedShown
  BY <1>4
  DEF StartedShown
<1>5. CASE Interrupted
  BY <1>5
  DEF Interrupted
<1>6. CASE Settles
  BY <1>6
  DEF Settles
<1>7. CASE Fails
  BY <1>7
  DEF Fails
<1>8. CASE Dialog
  BY <1>8
  DEF Dialog, Waits
<1>9. CASE Withdraws
  BY <1>9
  DEF Withdraws, Waits, GoesOn
<1>10. CASE Looks
  BY <1>10
  DEF Looks, Waits, GoesOn
<1>11. CASE Asked
  BY <1>11
  DEF Asked
<1>12. CASE Backstopped
  BY <1>12
  DEF Backstopped
<1>13. CASE Answered
  BY <1>13
  DEF Answered
<1>14. CASE Unanswered
  BY <1>14
  DEF Unanswered
<1>15. CASE GateCheck
  BY <1>15
  DEF GateCheck
<1>16. CASE NoTurn
  BY <1>16
  DEF NoTurn
<1>17. CASE SeenWorking
  BY <1>17
  DEF SeenWorking
<1>18. CASE SeenQuiet
  BY <1>18
  DEF SeenQuiet
<1>18a. CASE SeenNothing
  BY <1>18a
  DEF SeenNothing
<1>19. CASE SeenSilent
  BY <1>19
  DEF SeenSilent
<1>20. CASE Nudged
  BY <1>20
  DEF Nudged
<1>21. CASE NudgeLate
  BY <1>21
  DEF NudgeLate
<1>22. CASE NudgeFails
  BY <1>22
  DEF NudgeFails
<1>23. CASE ReviewShown
  BY <1>23
  DEF ReviewShown
<1>24. CASE ReviewCloses
  BY <1>24
  DEF ReviewCloses
<1>25. CASE ReviewOpens
  BY <1>25
  DEF ReviewOpens
<1>26. CASE ReviewLaunches
  BY <1>26
  DEF ReviewLaunches
<1>27. CASE Reviewed
  BY <1>27
  DEF Reviewed
<1>28. CASE FixShown
  BY <1>28
  DEF FixShown
<1>29. CASE FixPrompts
  BY <1>29
  DEF FixPrompts
<1>30. CASE FinishEnds
  BY <1>30
  DEF FinishEnds
<1>31. CASE FinishChecks
  BY <1>31
  DEF FinishChecks
<1>32. CASE FinishRecords
  BY <1>32
  DEF FinishRecords
<1>33. CASE Tagging
  BY <1>33
  DEF Tagging
<1>34. CASE Admit
  BY <1>34
  DEF Admit
<1>35. CASE AnswerQuestion
  BY <1>35
  DEF AnswerQuestion
<1>36. CASE AnswerDialog
  BY <1>36
  DEF AnswerDialog
<1>37. CASE Halt
  BY <1>37
  DEF Halt
<1>38. CASE StopStep
  BY <1>38
  DEF StopStep
<1>39. CASE LoopEnd
  BY <1>39
  DEF LoopEnd
<1>40. CASE Withdraw
  BY <1>40
  DEF Withdraw
<1>41. CASE Turns
  BY <1>41
  DEF Turns
<1>42. CASE Says
  BY <1>42
  DEF Says
<1>43. CASE WorkerGone
  BY <1>43
  DEF WorkerGone
<1>44. CASE ReviewerGone
  BY <1>44
  DEF ReviewerGone
<1>45. CASE UNCHANGED vars
  BY <1>45 DEF vars
<1> HIDE DEF row, worker, WorkerTypes
<1>. QED
  BY <1>1, <1>2, <1>3, <1>4, <1>5, <1>6, <1>7, <1>8, <1>9, <1>10, <1>11, <1>12,
     <1>13, <1>14, <1>15, <1>16, <1>17, <1>18, <1>18a, <1>19, <1>20, <1>21, <1>22,
     <1>23, <1>24, <1>25, <1>26, <1>27, <1>28, <1>29, <1>30, <1>31, <1>32,
     <1>33, <1>34, <1>35, <1>36, <1>37, <1>38, <1>39, <1>40, <1>41, <1>42,
     <1>43, <1>44, <1>45
  DEF Next, Runner, Ended

\* What is open was asked; a dialog is open.
LEMMA AskStep ==
  ASSUME AskTypes, [Next]_vars
  PROVE  AskTypes'
<1> USE DEF asking, AskTypes
<1>1. CASE SpawnOpens
  BY <1>1
  DEF SpawnOpens
<1>2. CASE SpawnStarts
  BY <1>2
  DEF SpawnStarts
<1>3. CASE StartedKnown
  BY <1>3
  DEF StartedKnown
<1>4. CASE StartedShown
  BY <1>4
  DEF StartedShown
<1>5. CASE Interrupted
  BY <1>5
  DEF Interrupted
<1>6. CASE Settles
  BY <1>6
  DEF Settles
<1>7. CASE Fails
  BY <1>7
  DEF Fails
<1>8. CASE Dialog
  <2>1. CASE UNCHANGED asking
    BY <1>8, <2>1
  <2>2. CASE asks < MaxAsks /\ dialog' = TRUE /\ open' = open + 1 /\ asks' = asks + 1
    <3>1. dialog' \in BOOLEAN
      BY <2>2
    <3>. QED
      BY <2>2, <3>1, WatchAssumption
  <2>. QED
    BY <1>8, <2>1, <2>2 DEF Dialog
<1>9. CASE Withdraws
  <2>1. dialog' \in BOOLEAN /\ ~dialog'
    BY <1>9 DEF Withdraws
  <2>2. open' \in 0..MaxAsks /\ open' <= asks /\ UNCHANGED asks
    BY <1>9, WatchAssumption DEF Withdraws, Release
  <2>. QED
    BY <2>1, <2>2
<1>10. CASE Looks
  BY <1>10
  DEF Looks
<1>11. CASE Asked
  BY <1>11
  DEF Asked
<1>12. CASE Backstopped
  BY <1>12
  DEF Backstopped
<1>13. CASE Answered
  BY <1>13
  DEF Answered
<1>14. CASE Unanswered
  BY <1>14
  DEF Unanswered
<1>15. CASE GateCheck
  BY <1>15
  DEF GateCheck
<1>16. CASE NoTurn
  BY <1>16
  DEF NoTurn
<1>17. CASE SeenWorking
  BY <1>17
  DEF SeenWorking
<1>18. CASE SeenQuiet
  BY <1>18
  DEF SeenQuiet
<1>18a. CASE SeenNothing
  BY <1>18a
  DEF SeenNothing
<1>19. CASE SeenSilent
  BY <1>19
  DEF SeenSilent
<1>20. CASE Nudged
  BY <1>20
  DEF Nudged
<1>21. CASE NudgeLate
  BY <1>21
  DEF NudgeLate
<1>22. CASE NudgeFails
  BY <1>22
  DEF NudgeFails
<1>23. CASE ReviewShown
  BY <1>23
  DEF ReviewShown
<1>24. CASE ReviewCloses
  BY <1>24
  DEF ReviewCloses
<1>25. CASE ReviewOpens
  BY <1>25
  DEF ReviewOpens
<1>26. CASE ReviewLaunches
  BY <1>26
  DEF ReviewLaunches
<1>27. CASE Reviewed
  BY <1>27
  DEF Reviewed
<1>28. CASE FixShown
  BY <1>28
  DEF FixShown
<1>29. CASE FixPrompts
  BY <1>29
  DEF FixPrompts
<1>30. CASE FinishEnds
  BY <1>30
  DEF FinishEnds
<1>31. CASE FinishChecks
  BY <1>31
  DEF FinishChecks
<1>32. CASE FinishRecords
  BY <1>32
  DEF FinishRecords
<1>33. CASE Tagging
  BY <1>33
  DEF Tagging
<1>34. CASE Admit
  BY <1>34, WatchAssumption
  DEF Admit
<1>35. CASE AnswerQuestion
  BY <1>35, WatchAssumption
  DEF AnswerQuestion, Release, Questions
<1>36. CASE AnswerDialog
  <2>1. dialog' \in BOOLEAN /\ ~dialog'
    BY <1>36 DEF AnswerDialog
  <2>2. open' \in 0..MaxAsks /\ open' <= asks /\ UNCHANGED asks
    BY <1>36, WatchAssumption DEF AnswerDialog, Release
  <2>. QED
    BY <2>1, <2>2
<1>37. CASE Halt
  BY <1>37
  DEF Halt
<1>38. CASE StopStep
  BY <1>38
  DEF StopStep
<1>39. CASE LoopEnd
  BY <1>39
  DEF LoopEnd
<1>40. CASE Withdraw
  <2>1. dialog' \in BOOLEAN /\ ~dialog'
    BY <1>40 DEF Withdraw
  <2>2. open' \in 0..MaxAsks /\ open' <= asks /\ UNCHANGED asks
    BY <1>40, WatchAssumption DEF Withdraw
  <2>. QED
    BY <2>1, <2>2
<1>41. CASE Turns
  BY <1>41
  DEF Turns
<1>42. CASE Says
  BY <1>42
  DEF Says
<1>43. CASE WorkerGone
  BY <1>43
  DEF WorkerGone
<1>44. CASE ReviewerGone
  BY <1>44
  DEF ReviewerGone
<1>45. CASE UNCHANGED vars
  BY <1>45 DEF vars
<1> HIDE DEF asking, AskTypes
<1>. QED
  BY <1>1, <1>2, <1>3, <1>4, <1>5, <1>6, <1>7, <1>8, <1>9, <1>10, <1>11, <1>12,
     <1>13, <1>14, <1>15, <1>16, <1>17, <1>18, <1>18a, <1>19, <1>20, <1>21, <1>22,
     <1>23, <1>24, <1>25, <1>26, <1>27, <1>28, <1>29, <1>30, <1>31, <1>32,
     <1>33, <1>34, <1>35, <1>36, <1>37, <1>38, <1>39, <1>40, <1>41, <1>42,
     <1>43, <1>44, <1>45
  DEF Next, Runner, Ended

\* A step is placed before its agents start.
LEMMA PlacedStep ==
  ASSUME PlacedInv, PanelTypes, CtlTypes, EndInv, [Next]_vars
  PROVE  PlacedInv'
<1> USE DEF session, screen, panel, PlacedInv
<1>1. CASE SpawnOpens
  BY <1>1
  DEF SpawnOpens, At, OpenPane, RecordState, Ends, Unwatched
<1>2. CASE SpawnStarts
  BY <1>2, Threads
  DEF SpawnStarts, At, StartAgent, RecordState, Ends, Unwatched, PanelTypes
<1>3. CASE StartedKnown
  BY <1>3
  DEF StartedKnown, At
<1>4. CASE StartedShown
  BY <1>4
  DEF StartedShown, At, Emit
<1>5. CASE Interrupted
  BY <1>5
  DEF Interrupted, At, Ends, Unwatched
<1>6. CASE Settles
  BY <1>6
  DEF Settles, At, Judge, Ends, Unwatched
<1>7. CASE Fails
  BY <1>7
  DEF Fails, At, Ends, Unwatched
<1>8. CASE Dialog
  BY <1>8
  DEF Dialog, At, Waits, Aged, StepState, Emit
<1>9. CASE Withdraws
  BY <1>9
  DEF Withdraws, At, Waits, Aged, Release, StepState, Emit, GoesOn, Ticks
<1>10. CASE Looks
  BY <1>10
  DEF Looks, At, Waits, Aged, GoesOn, Ticks
<1>11. CASE Asked
  BY <1>11
  DEF Asked, At, Ticks
<1>12. CASE Backstopped
  BY <1>12
  DEF Backstopped, At, Ends, Unwatched
<1>13. CASE Answered
  BY <1>13
  DEF Answered, At, Emit, InTime, TurnEnded, Hears, RecordState
<1>14. CASE Unanswered
  BY <1>14
  DEF Unanswered, At, Ends, Unwatched, InTime, TurnEnded, Stall, RecordState,
      Emit
<1>15. CASE GateCheck
  BY <1>15
  DEF GateCheck, At, Ends, Unwatched, Ticks
<1>16. CASE NoTurn
  BY <1>16
  DEF NoTurn, At, InTime, TurnEnded, Hears, RecordState
<1>17. CASE SeenWorking
  BY <1>17
  DEF SeenWorking, At, Emit, Ticks, RecordState
<1>18. CASE SeenQuiet
  BY <1>18
  DEF SeenQuiet, At, Ticks, Limit
<1>18a. CASE SeenNothing
  BY <1>18a
  DEF SeenNothing, At, Ticks, Limit
<1>19. CASE SeenSilent
  BY <1>19
  DEF SeenSilent, At, Ends, Unwatched, Ticks, Stall, RecordState, Emit, Limit
<1>20. CASE Nudged
  BY <1>20
  DEF Nudged, At, Ticks
<1>21. CASE NudgeLate
  BY <1>21
  DEF NudgeLate, At, Emit, Ticks, RecordState
<1>22. CASE NudgeFails
  BY <1>22
  DEF NudgeFails, At, Ends, Unwatched
<1>23. CASE ReviewShown
  BY <1>23
  DEF ReviewShown, At, Emit
<1>24. CASE ReviewCloses
  BY <1>24, Threads
  DEF ReviewCloses, At, Ends, Unwatched, ClosePane, PanelTypes
<1>25. CASE ReviewOpens
  BY <1>25
  DEF ReviewOpens, At, Ends, Unwatched, OpenPane
<1>26. CASE ReviewLaunches
  BY <1>26, Threads
  DEF ReviewLaunches, At, Ends, Unwatched, StartAgent, PanelTypes
<1>27. CASE Reviewed
  BY <1>27
  DEF Reviewed, At, Ends, Unwatched
<1>28. CASE FixShown
  BY <1>28
  DEF FixShown, At, Emit
<1>29. CASE FixPrompts
  BY <1>29
  DEF FixPrompts, At, Ends, Unwatched
<1>30. CASE FinishEnds
  BY <1>30
  DEF FinishEnds, At
<1>31. CASE FinishChecks
  BY <1>31
  DEF FinishChecks, At
<1>32. CASE FinishRecords
  BY <1>32
  DEF FinishRecords, At, RecordState
<1>33. CASE Tagging
  BY <1>33
  DEF Tagging, Tag, Layout, TagNext, TagEnd
<1>34. CASE Admit
  BY <1>34
  DEF Admit, StepState, Emit
<1>35. CASE AnswerQuestion
  BY <1>35
  DEF AnswerQuestion, Release, StepState, Emit
<1>36. CASE AnswerDialog
  BY <1>36
  DEF AnswerDialog, Release, StepState, Emit
<1>37. CASE Halt
  BY <1>37
  DEF Halt, RecordState
<1>38. CASE StopStep
  BY <1>38
  DEF StopStep
<1>39. CASE LoopEnd
  BY <1>39
  DEF LoopEnd, Emit
<1>40. CASE Withdraw
  BY <1>40
  DEF Withdraw
<1>41. CASE Turns
  BY <1>41
  DEF Turns
<1>42. CASE Says
  BY <1>42
  DEF Says
<1>43. CASE WorkerGone
  BY <1>43, Threads
  DEF WorkerGone, Goes, Finish, ClosePane, PanelTypes
<1>44. CASE ReviewerGone
  BY <1>44, Threads
  DEF ReviewerGone, Goes, Finish, ClosePane, PanelTypes
<1>45. CASE UNCHANGED vars
  BY <1>45 DEF vars
<1> HIDE DEF session, screen, panel, PlacedInv
<1>. QED
  BY <1>1, <1>2, <1>3, <1>4, <1>5, <1>6, <1>7, <1>8, <1>9, <1>10, <1>11, <1>12,
     <1>13, <1>14, <1>15, <1>16, <1>17, <1>18, <1>18a, <1>19, <1>20, <1>21, <1>22,
     <1>23, <1>24, <1>25, <1>26, <1>27, <1>28, <1>29, <1>30, <1>31, <1>32,
     <1>33, <1>34, <1>35, <1>36, <1>37, <1>38, <1>39, <1>40, <1>41, <1>42,
     <1>43, <1>44, <1>45
  DEF Next, Runner, Ended

\* The tags of the asker, as they begin.
LEMMA AskerTags ==
  ASSUME PanelTypes, PanelStep, tags'["asker"] # tags["asker"],
         Idle("asker") \/ tags["asker"].locked, ~Idle("asker")'
  PROVE  tags'["asker"].locked
<1> USE DEF Idle
<1>1. ASSUME NEW w \in Writers, Clearing(w) PROVE tags'["asker"].locked
  <2>1. PICK rloop \in Texts, locked \in BOOLEAN :
          /\ tags' = [tags EXCEPT ![w] =
                        Started([rloop |-> rloop, rloop_wait |-> FALSE], locked)]
          /\ w = "asker" => locked
    BY <1>1 DEF Clearing
  <2>2. tags'[w].locked = locked /\ \A v \in Writers \ {w} : tags'[v] = tags[v]
    BY <2>1, Beginning
  <2>. QED
    BY <2>1, <2>2, Threads
<1>2. ASSUME NEW w \in Writers, Setting(w) PROVE tags'["asker"].locked
  <2>1. tags'[w].locked /\ \A v \in Writers \ {w} : tags'[v] = tags[v]
    BY <1>2, Beginning, TokensOf DEF Setting
  <2>. QED
    BY <2>1, Threads
<1>3. ASSUME NEW w \in Writers, Tag(w) PROVE tags'["asker"].locked
  <2>1. tags[w] \in TagRecords /\ tags[w] # None
    BY <1>3, TagOf, TagMoves
  <2> DEFINE S == {t \in Terminals : Home[t] = RunSpace /\ term[t] # "none"}
  <2>2. CASE tags' = [tags EXCEPT ![w] = None]
    BY <2>2, Threads DEF PanelTypes
  <2>3. CASE tags' = [tags EXCEPT ![w] = [tags[w] EXCEPT !.laid = TRUE, !.left = S]]
    <3> HIDE DEF S
    <3>1. tags'[w].locked = tags[w].locked /\ \A v \in Writers \ {w} : tags'[v] = tags[v]
      BY <2>1, <2>3 DEF PanelTypes, TagRecords
    <3>. QED
      BY <2>1, <3>1, Threads
  <2>4. ASSUME NEW t, tags' = [tags EXCEPT ![w] =
                                 [tags[w] EXCEPT !.left = tags[w].left \ {t}]]
        PROVE  tags'["asker"].locked
    <3>1. tags'[w].locked = tags[w].locked /\ \A v \in Writers \ {w} : tags'[v] = tags[v]
      BY <2>1, <2>4 DEF PanelTypes, TagRecords
    <3>. QED
      BY <2>1, <3>1, Threads
  <2>. QED
    BY <1>3, <2>2, <2>3, <2>4, TagMoves
<1>. QED
  BY <1>1, <1>2, <1>3 DEF PanelStep, panel, PaneStep

\* The runner's tags end before its step is recorded; the asker's are made while the
\* session is live; the loop's is the last.
WhoTags ==
  \/ UNCHANGED tags
  \/ /\ \A v \in Writers \ {"runner"} : tags'[v] = tags[v]
     /\ pc \notin {"record", "recorded", "done"} /\ pc' \notin {"record", "recorded", "done"}
  \/ /\ \A v \in Writers \ {"asker"} : tags'[v] = tags[v]
     /\ known /\ ~ended /\ UNCHANGED session
  \/ /\ \A v \in Writers \ {"loop"} : tags'[v] = tags[v]
     /\ loop' \in {"shown", "over"} /\ loop' # "over"
  \/ (\E w \in Writers : Tag(w)) /\ UNCHANGED <<pc, session, loop>>

\* What the places of the threads have to do with the session.
EndMoves ==
  /\ known => known'
  /\ ended => ended'
  /\ ended' => ended \/ Unlocked
  /\ pc' \in {"record", "recorded", "done"} =>
       \/ pc \in {"record", "recorded", "done"}
       \/ Idle("runner") /\ ended' /\ UNCHANGED tags
  /\ pc' \in {"finish", "record", "recorded", "done"} => result' \in {"ok", "failed"}
  /\ open' > 0 => known'
  /\ loop' \notin {"shown", "over"} => loop \notin {"shown", "over"}
  /\ loop' \in {"shown", "over"} => pc' = "done"
  /\ loop' = "over" => \/ loop = "over"
                       \/ Idle("loop") /\ UNCHANGED tags

\* Who tags when.
LEMMA TagWho ==
  ASSUME PanelTypes, AskTypes, EndInv, [Next]_vars
  PROVE  WhoTags
<1> USE DEF panel, WhoTags
<1>1. CASE SpawnOpens
  BY <1>1
  DEF SpawnOpens
<1>2. CASE SpawnStarts
  BY <1>2
  DEF SpawnStarts
<1>3. CASE StartedKnown
  BY <1>3
  DEF StartedKnown
<1>4. CASE StartedShown
  BY <1>4 DEF StartedShown, At, Emit, PanelTypes
<1>5. CASE Interrupted
  BY <1>5
  DEF Interrupted
<1>6. CASE Settles
  BY <1>6
  DEF Settles
<1>7. CASE Fails
  BY <1>7
  DEF Fails
<1>8. CASE Dialog
  <2>1. CASE UNCHANGED tags
    BY <2>1
  <2>2. CASE Emit("runner", "waiting-input", "working", TRUE)
    BY <1>8, <2>2 DEF Dialog, Waits, At, GoesOn, Ticks, Emit, PanelTypes
  <2>. QED
    BY <1>8, <2>1, <2>2 DEF Dialog, Release
<1>9. CASE Withdraws
  <2>1. CASE UNCHANGED tags
    BY <2>1
  <2>2. CASE Emit("runner", "running", "working", TRUE)
    BY <1>9, <2>2 DEF Withdraws, Waits, At, GoesOn, Ticks, Emit, PanelTypes
  <2>. QED
    BY <1>9, <2>1, <2>2 DEF Withdraws, Release
<1>10. CASE Looks
  BY <1>10
  DEF Looks
<1>11. CASE Asked
  BY <1>11
  DEF Asked
<1>12. CASE Backstopped
  BY <1>12
  DEF Backstopped
<1>13. CASE Answered
  BY <1>13 DEF Answered, At, Emit, PanelTypes, InTime
<1>14. CASE Unanswered
  <2>1. CASE UNCHANGED tags
    BY <2>1
  <2>2. CASE Emit("runner", "stalled", "working", FALSE) /\ pc' \in {"nudge", "nudgeTurn"}
    BY <1>14, <2>2 DEF Unanswered, At, InTime, Emit, PanelTypes
  <2>. QED
    BY <1>14, <2>1, <2>2 DEF Unanswered, Stall
<1>15. CASE GateCheck
  BY <1>15
  DEF GateCheck
<1>16. CASE NoTurn
  BY <1>16
  DEF NoTurn
<1>17. CASE SeenWorking
  BY <1>17 DEF SeenWorking, At, Emit, PanelTypes, Ticks
<1>18. CASE SeenQuiet
  BY <1>18
  DEF SeenQuiet
<1>18a. CASE SeenNothing
  BY <1>18a
  DEF SeenNothing
<1>19. CASE SeenSilent
  <2>1. CASE UNCHANGED tags
    BY <2>1
  <2>2. CASE Emit("runner", "stalled", "working", FALSE) /\ pc' \in {"nudge", "nudgeTurn"}
    BY <1>19, <2>2 DEF SeenSilent, At, InTime, Emit, PanelTypes
  <2>. QED
    BY <1>19, <2>1, <2>2 DEF SeenSilent, Stall
<1>20. CASE Nudged
  BY <1>20
  DEF Nudged
<1>21. CASE NudgeLate
  BY <1>21 DEF NudgeLate, At, Emit, PanelTypes, Ticks
<1>22. CASE NudgeFails
  BY <1>22
  DEF NudgeFails
<1>23. CASE ReviewShown
  BY <1>23 DEF ReviewShown, At, Emit, PanelTypes
<1>24. CASE ReviewCloses
  BY <1>24
  DEF ReviewCloses
<1>25. CASE ReviewOpens
  BY <1>25
  DEF ReviewOpens
<1>26. CASE ReviewLaunches
  BY <1>26
  DEF ReviewLaunches
<1>27. CASE Reviewed
  BY <1>27
  DEF Reviewed
<1>28. CASE FixShown
  BY <1>28 DEF FixShown, At, Emit, PanelTypes
<1>29. CASE FixPrompts
  BY <1>29
  DEF FixPrompts
<1>30. CASE FinishEnds
  BY <1>30
  DEF FinishEnds
<1>31. CASE FinishChecks
  BY <1>31
  DEF FinishChecks
<1>32. CASE FinishRecords
  BY <1>32
  DEF FinishRecords
<1>33. CASE Tagging
  BY <1>33 DEF Tagging
<1>34. CASE Admit
  <2>1. CASE UNCHANGED tags
    BY <2>1
  <2>2. CASE Emit("asker", "waiting-input", "working", TRUE)
    <3>1. known /\ ~ended /\ UNCHANGED session
      BY <1>34 DEF Admit, Questions, EndInv, AskTypes
    <3>2. \A v \in Writers \ {"asker"} : tags'[v] = tags[v]
      BY <2>2 DEF Emit, PanelTypes
    <3>. QED
      BY <3>1, <3>2
  <2>. QED
    BY <1>34, <2>1, <2>2 DEF Admit, Release
<1>35. CASE AnswerQuestion
  <2>1. CASE UNCHANGED tags
    BY <2>1
  <2>2. CASE Emit("asker", "running", "working", TRUE)
    <3>1. known /\ ~ended /\ UNCHANGED session
      BY <1>35 DEF AnswerQuestion, Questions, EndInv, AskTypes
    <3>2. \A v \in Writers \ {"asker"} : tags'[v] = tags[v]
      BY <2>2 DEF Emit, PanelTypes
    <3>. QED
      BY <3>1, <3>2
  <2>. QED
    BY <1>35, <2>1, <2>2 DEF AnswerQuestion, Release
<1>36. CASE AnswerDialog
  <2>1. CASE UNCHANGED tags
    BY <2>1
  <2>2. CASE Emit("asker", "running", "working", TRUE)
    <3>1. known /\ ~ended /\ UNCHANGED session
      BY <1>36 DEF AnswerDialog, Questions, EndInv, AskTypes
    <3>2. \A v \in Writers \ {"asker"} : tags'[v] = tags[v]
      BY <2>2 DEF Emit, PanelTypes
    <3>. QED
      BY <3>1, <3>2
  <2>. QED
    BY <1>36, <2>1, <2>2 DEF AnswerDialog, Release
<1>37. CASE Halt
  BY <1>37
  DEF Halt
<1>38. CASE StopStep
  BY <1>38
  DEF StopStep
<1>39. CASE LoopEnd
  <2>1. CASE UNCHANGED tags
    BY <2>1
  <2>2. CASE Emit("loop", result', "working", FALSE)
    BY <1>39, <2>2 DEF LoopEnd, Emit, PanelTypes
  <2>. QED
    BY <1>39, <2>1, <2>2 DEF LoopEnd
<1>40. CASE Withdraw
  BY <1>40
  DEF Withdraw
<1>41. CASE Turns
  BY <1>41
  DEF Turns
<1>42. CASE Says
  BY <1>42
  DEF Says
<1>43. CASE WorkerGone
  BY <1>43
  DEF WorkerGone
<1>44. CASE ReviewerGone
  BY <1>44
  DEF ReviewerGone
<1>45. CASE UNCHANGED vars
  BY <1>45 DEF vars
<1> HIDE DEF panel, WhoTags
<1>. QED
  BY <1>1, <1>2, <1>3, <1>4, <1>5, <1>6, <1>7, <1>8, <1>9, <1>10, <1>11, <1>12,
     <1>13, <1>14, <1>15, <1>16, <1>17, <1>18, <1>18a, <1>19, <1>20, <1>21, <1>22,
     <1>23, <1>24, <1>25, <1>26, <1>27, <1>28, <1>29, <1>30, <1>31, <1>32,
     <1>33, <1>34, <1>35, <1>36, <1>37, <1>38, <1>39, <1>40, <1>41, <1>42,
     <1>43, <1>44, <1>45
  DEF Next, Runner, Ended

\* The threads' moves.
LEMMA EndMove ==
  ASSUME CtlTypes, AskTypes, EndInv, [Next]_vars
  PROVE  EndMoves
<1> USE DEF session, asking, EndMoves, EndInv
<1>1. CASE SpawnOpens
  BY <1>1
  DEF SpawnOpens, At, RecordState, Ends, Unwatched
<1>2. CASE SpawnStarts
  BY <1>2
  DEF SpawnStarts, At, RecordState, Ends, Unwatched
<1>3. CASE StartedKnown
  BY <1>3
  DEF StartedKnown, At
<1>4. CASE StartedShown
  BY <1>4
  DEF StartedShown, At
<1>5. CASE Interrupted
  BY <1>5
  DEF Interrupted, At, Ends, Unwatched
<1>6. CASE Settles
  BY <1>6
  DEF Settles, At, Judge, Ends, Unwatched
<1>7. CASE Fails
  BY <1>7
  DEF Fails, At, Ends, Unwatched
<1>8. CASE Dialog
  BY <1>8
  DEF Dialog, At, Waits
<1>9. CASE Withdraws
  BY <1>9, WatchAssumption
  DEF Withdraws, At, Waits, Release, GoesOn, Ticks, AskTypes
<1>10. CASE Looks
  BY <1>10
  DEF Looks, At, Waits, GoesOn, Ticks
<1>11. CASE Asked
  BY <1>11
  DEF Asked, At, Ticks
<1>12. CASE Backstopped
  BY <1>12
  DEF Backstopped, At, Ends, Unwatched
<1>13. CASE Answered
  BY <1>13
  DEF Answered, At, InTime, RecordState
<1>14. CASE Unanswered
  BY <1>14
  DEF Unanswered, At, Ends, Unwatched, InTime, Stall, RecordState
<1>15. CASE GateCheck
  BY <1>15
  DEF GateCheck, At, Ends, Unwatched, Ticks
<1>16. CASE NoTurn
  BY <1>16
  DEF NoTurn, At, InTime, RecordState
<1>17. CASE SeenWorking
  BY <1>17
  DEF SeenWorking, At, Ticks, RecordState
<1>18. CASE SeenQuiet
  BY <1>18
  DEF SeenQuiet, At, Ticks
<1>18a. CASE SeenNothing
  BY <1>18a
  DEF SeenNothing, At, Ticks
<1>19. CASE SeenSilent
  BY <1>19
  DEF SeenSilent, At, Ends, Unwatched, Ticks, Stall, RecordState
<1>20. CASE Nudged
  BY <1>20
  DEF Nudged, At, Ticks
<1>21. CASE NudgeLate
  BY <1>21
  DEF NudgeLate, At, Ticks, RecordState
<1>22. CASE NudgeFails
  BY <1>22
  DEF NudgeFails, At, Ends, Unwatched
<1>23. CASE ReviewShown
  BY <1>23
  DEF ReviewShown, At
<1>24. CASE ReviewCloses
  BY <1>24
  DEF ReviewCloses, At, Ends, Unwatched
<1>25. CASE ReviewOpens
  BY <1>25
  DEF ReviewOpens, At, Ends, Unwatched
<1>26. CASE ReviewLaunches
  BY <1>26
  DEF ReviewLaunches, At, Ends, Unwatched
<1>27. CASE Reviewed
  BY <1>27
  DEF Reviewed, At, Ends, Unwatched
<1>28. CASE FixShown
  BY <1>28
  DEF FixShown, At
<1>29. CASE FixPrompts
  BY <1>29
  DEF FixPrompts, At, Ends, Unwatched
<1>30. CASE FinishEnds
  BY <1>30
  DEF FinishEnds, At, panel
<1>31. CASE FinishChecks
  BY <1>31
  DEF FinishChecks, At, CtlTypes, Over
<1>32. CASE FinishRecords
  BY <1>32
  DEF FinishRecords, At, RecordState, CtlTypes, Over
<1>33. CASE Tagging
  BY <1>33
  DEF Tagging, Tag, Layout, TagNext, TagEnd, panel
<1>34. CASE Admit
  BY <1>34
  DEF Admit
<1>35. CASE AnswerQuestion
  BY <1>35, WatchAssumption
  DEF AnswerQuestion, Release, AskTypes, Questions
<1>36. CASE AnswerDialog
  BY <1>36, WatchAssumption
  DEF AnswerDialog, Release, AskTypes
<1>37. CASE Halt
  BY <1>37
  DEF Halt, RecordState
<1>38. CASE StopStep
  BY <1>38
  DEF StopStep
<1>39. CASE LoopEnd
  BY <1>39
  DEF LoopEnd
<1>40. CASE Withdraw
  BY <1>40
  DEF Withdraw, panel
<1>41. CASE Turns
  BY <1>41
  DEF Turns
<1>42. CASE Says
  BY <1>42
  DEF Says
<1>43. CASE WorkerGone
  BY <1>43
  DEF WorkerGone
<1>44. CASE ReviewerGone
  BY <1>44
  DEF ReviewerGone
<1>45. CASE UNCHANGED vars
  BY <1>45 DEF vars
<1> HIDE DEF session, asking, EndMoves, EndInv
<1>. QED
  BY <1>1, <1>2, <1>3, <1>4, <1>5, <1>6, <1>7, <1>8, <1>9, <1>10, <1>11, <1>12,
     <1>13, <1>14, <1>15, <1>16, <1>17, <1>18, <1>18a, <1>19, <1>20, <1>21, <1>22,
     <1>23, <1>24, <1>25, <1>26, <1>27, <1>28, <1>29, <1>30, <1>31, <1>32,
     <1>33, <1>34, <1>35, <1>36, <1>37, <1>38, <1>39, <1>40, <1>41, <1>42,
     <1>43, <1>44, <1>45
  DEF Next, Runner, Ended

\* The session ends once no question tags, and none tags afterwards; the loop tags last.
LEMMA EndStep ==
  ASSUME PanelTypes, EndInv, PanelStep, WhoTags, EndMoves PROVE EndInv'
<1> USE DEF Idle
<1>1. /\ pc' \in {"finish", "record", "recorded", "done"} => result' \in {"ok", "failed"}
      /\ open' > 0 => known'
      /\ loop' \in {"shown", "over"} => pc' = "done"
  BY DEF EndMoves
<1>2. ASSUME NEW w \in Writers, Tag(w)
      PROVE  /\ ~Idle(w) /\ \A v \in Writers \ {w} : tags'[v] = tags[v]
  BY <1>2, TagMoves DEF PanelTypes
<1>3. pc' \in {"record", "recorded", "done"} => ended' /\ tags'["runner"] = None
  BY <1>2, Threads DEF EndMoves, WhoTags, EndInv
<1>4. tags'["asker"] # None => tags'["asker"].locked
  BY AskerTags DEF EndInv
<1>5. Unlocked => tags["asker"] = None
  BY Threads DEF EndInv, Unlocked
<1>6. tags'["asker"] # None => known' /\ ~ended'
  <2>1. CASE tags["asker"] # None
    BY <1>5, <2>1 DEF EndInv, EndMoves
  <2>2. CASE tags["asker"] = None /\ tags'["asker"] # None
    BY <1>2, <2>2, Threads DEF WhoTags, EndMoves, session
  <2>. QED
    BY <2>1, <2>2
<1>7. loop' \notin {"shown", "over"} => tags'["loop"] = None
  BY <1>2, Threads DEF EndMoves, WhoTags, EndInv
<1>8. loop' = "over" => tags'["loop"] = None
  BY <1>2, Threads DEF EndMoves, WhoTags, EndInv
<1>. QED
  BY <1>1, <1>3, <1>4, <1>6, <1>7, <1>8 DEF EndInv

-----------------------------------------------------------------------------
(* The theorems.                                                             *)

\* The parts of the invariant.
LEMMA Parts ==
  IInv <=> /\ PanelTypes /\ CtlTypes /\ WorkerTypes /\ AskTypes /\ WatchInv
           /\ Labels /\ PlacedInv /\ EndInv /\ SetInv /\ ClearInv /\ FinalInv
<1>1. ASSUME PanelTypes PROVE \A w \in Writers : Idle(w) \/ tags[w].left \subseteq Terminals
  BY <1>1, TagOf
<1>2. IInv => /\ PanelTypes /\ CtlTypes /\ WorkerTypes /\ AskTypes /\ WatchInv
              /\ Labels /\ PlacedInv /\ EndInv /\ SetInv /\ ClearInv /\ FinalInv
  BY DEF IInv, TypeInv, TypeOK, ClockInv, AgentInv, WaitInv, PanelTypes, CtlTypes,
         WorkerTypes, AskTypes, WatchInv, Labels, PlacedInv, SetInv, ClearInv
<1>3. ASSUME PanelTypes, CtlTypes, WorkerTypes, AskTypes, WatchInv, Labels, PlacedInv,
             EndInv, SetInv, ClearInv, FinalInv
      PROVE  IInv
  <2>1. TypeOK
    BY <1>1, <1>3 DEF TypeOK, PanelTypes, CtlTypes, WorkerTypes, AskTypes, WatchInv
  <2>2. TypeInv /\ ClockInv /\ AgentInv /\ WaitInv
    BY <1>3, <2>1 DEF TypeInv, ClockInv, AgentInv, WaitInv, PanelTypes, CtlTypes,
         WorkerTypes, AskTypes, WatchInv, Labels, PlacedInv, SetInv, ClearInv
  <2>. QED
    BY <1>3, <2>2 DEF IInv
<1>. QED
  BY <1>2, <1>3

\* A step that begins satisfies the invariant.
LEMMA InitInv == Init => IInv
<1> SUFFICES ASSUME Init PROVE IInv
  OBVIOUS
<1>1. PanelTypes
  BY DEF Init, PanelTypes, States, Texts
<1>2. CtlTypes
  <2>1. /\ pc = "spawn" /\ loop = "runs" /\ placed = FALSE /\ known = FALSE /\ ended = FALSE
        /\ round = 0 /\ result = None /\ record = "queued"
    BY Zenon DEF Init
  <2>2. 0 \in 0..MaxRounds
    BY WatchAssumption
  <2>3. pc \in Places /\ loop \in LoopPlaces /\ pc # "review"
    BY <2>1 DEF Places, LoopPlaces
  <2>. QED
    BY <2>1, <2>2, <2>3 DEF CtlTypes
<1>3. WorkerTypes
  BY DEF Init, WorkerTypes
<1>4. AskTypes
  <2>1. open = 0 /\ asks = 0 /\ dialog = FALSE
    BY Zenon DEF Init
  <2>2. 0 \in 0..MaxAsks /\ 0 <= 0
    BY WatchAssumption
  <2>. QED
    BY <2>1, <2>2 DEF AskTypes
<1>5. WatchInv
  <2>1. watch = NewWatch /\ look = NoLook /\ pc = "spawn" /\ backstop \in Backstops
    BY Zenon DEF Init
  <2>. QED
    BY <2>1, NewWatchIs, WatchAssumption DEF WatchInv
<1>6. Labels /\ PlacedInv
  <2>1. /\ term = [t \in Terminals |-> IF t \in {Worker, Reviewer} THEN "none" ELSE "live"]
        /\ agent = [t \in Terminals |-> Home[t] # RunSpace]
        /\ text = [t \in Terminals |-> ""] /\ wait = [t \in Terminals |-> FALSE]
        /\ pc = "spawn"
    BY Zenon DEF Init
  <2>2. Labels
    BY <2>1, Threads DEF Labels
  <2>3. PlacedInv
    BY <2>1, Threads DEF PlacedInv
  <2>. QED
    BY <2>2, <2>3
<1>7. EndInv /\ FinalInv /\ SetInv
  <2>1. /\ pc = "spawn" /\ loop = "runs" /\ open = 0
        /\ \A w \in Writers : Idle(w)
    <3>1. tags = [w \in Writers |-> None] /\ pc = "spawn" /\ loop = "runs" /\ open = 0
      BY Zenon DEF Init
    <3>. QED
      BY <3>1 DEF Idle
  <2>. QED
    BY <2>1, Threads DEF EndInv, FinalInv, SetInv
<1>8. ClearInv
  BY DEF Init, ClearInv, Watched
<1>. QED
  BY <1>1, <1>2, <1>3, <1>4, <1>5, <1>6, <1>7, <1>8, Parts

\* Every step of the runner, the questions, the loop, a tag or the agent keeps it.
LEMMA NextInv == IInv /\ [Next]_vars => IInv'
<1> SUFFICES ASSUME IInv, [Next]_vars PROVE IInv'
  OBVIOUS
<1>1. /\ PanelTypes /\ CtlTypes /\ WorkerTypes /\ AskTypes /\ WatchInv /\ AgentInv /\ TypeInv
      /\ Labels /\ PlacedInv /\ EndInv /\ SetInv /\ ClearInv /\ FinalInv
  BY Parts DEF IInv
<1>2. PanelStep /\ LoopStep /\ WhoTags /\ EndMoves
  BY <1>1, PanelSteps, LoopSteps, TagWho, EndMove
<1>3. Driven
  BY <1>1, WatchAssumption DEF Driven, WorkerTypes
<1>4. open \in Nat
  BY <1>1, WatchAssumption DEF AskTypes
<1>5. loop = "shown" /\ Idle("loop") => \A w \in Writers : Idle(w)
  BY <1>1, Threads DEF EndInv
<1>6. loop = "shown" /\ Idle("loop") => warned \/ \A t \in Watched : ~wait[t]
  BY <1>1 DEF FinalInv, Final
<1>7. PanelTypes' /\ Labels'
  BY <1>1, <1>2, PanelTypeStep, LabelStep
<1>8. SetInv' /\ ClearInv'
  BY <1>1, <1>2, <1>4, <1>5, <1>6, SetStep, ClearStep
<1>9. FinalInv' /\ EndInv'
  BY <1>1, <1>2, FinalStep, EndStep
<1>10. CtlTypes' /\ WorkerTypes' /\ AskTypes' /\ PlacedInv' /\ WatchInv'
  BY <1>1, <1>3, CtlStep, WorkerStep, AskStep, PlacedStep, WatchStep
<1>11. IInv' <=> /\ PanelTypes' /\ CtlTypes' /\ WorkerTypes' /\ AskTypes' /\ WatchInv'
                 /\ Labels' /\ PlacedInv' /\ EndInv' /\ SetInv' /\ ClearInv' /\ FinalInv'
  BY Parts, PTL
<1>. QED
  BY <1>7, <1>8, <1>9, <1>10, <1>11

\* The inductive invariant holds in every reachable state, for any terminals, bounds and
\* row: the runner, the questions and the loop of a step, and the labels they set.
THEOREM Invariance == Spec => []IInv
  BY InitInv, NextInv, PTL DEF Spec

\* The state of the watch keeps its types: the nudges, the silence and the time of a
\* step (waitAll, tick) stay within their limits.
THEOREM TypeCorrect == Spec => []TypeOK
<1>1. IInv => TypeOK
  BY DEF IInv, TypeInv
<1>. QED
  BY <1>1, Invariance, PTL

\* The app lists live terminals only.
ListsLive == Listed = {"live"}

\* The rows of the panel are read from the watched terminals, of which there are two at
\* most.
LEMMA RowsAreWatched ==
  ASSUME IInv, ListsLive
  PROVE  Own(RunSpace) = Watched /\ Watched \subseteq {Worker, Reviewer}
<1>1. Own(RunSpace) = Watched
  BY DEF Own, Watched, Tagged, ListsLive
<1>2. Watched \subseteq {Worker, Reviewer}
  BY DEF IInv, AgentInv, Watched, Tagged
<1>. QED
  BY <1>1, <1>2

\* The first of one or two terminals.
LEMMA FirstIs ==
  ASSUME NEW S, S # {}, S \subseteq {Worker, Reviewer} PROVE First(S) \in S
<1>1. \A t \in 1..Len(Home) : t \in Int
  OBVIOUS
<1>2. Worker \in Int /\ Reviewer \in Int
  BY <1>1, Threads DEF Terminals
<1>3. \E t \in S : \A u \in S : t <= u
  <2>1. CASE Worker \in S /\ (Reviewer \in S => Worker <= Reviewer)
    <3>1. \A u \in S : Worker <= u
      BY <1>2, <2>1
    <3>. QED
      BY <2>1, <3>1
  <2>2. CASE Reviewer \in S /\ (Worker \in S => Reviewer <= Worker)
    <3>1. \A u \in S : Reviewer <= u
      BY <1>2, <2>2
    <3>. QED
      BY <2>2, <3>1
  <2>3. Worker \in S \/ Reviewer \in S
    OBVIOUS
  <2>4. Worker <= Reviewer \/ Reviewer <= Worker
    BY <1>2
  <2>. QED
    BY <2>1, <2>2, <2>3, <2>4
<1>. QED
  BY <1>3 DEF First

\* With no tag under way and none failed, herdr-app's panel (main.js) says that the step
\* waits only if something of it is open, however the tags of the runner, the question
\* threads and the loop went over the terminals (client.go, Tag), when the app lists live
\* terminals.
THEOREM RowTrue == ASSUME ListsLive PROVE Spec => []RowTells
<1>1. IInv => RowTells
  <2> SUFFICES ASSUME IInv, ~warned, \A w \in Writers : Idle(w), Shows(RunSpace) = "waiting"
               PROVE  open > 0
    BY DEF RowTells
  <2>1. Own(RunSpace) = Watched /\ Watched \subseteq {Worker, Reviewer}
    BY RowsAreWatched
  <2>2. RowWait(RunSpace)
    <3> SUFFICES ASSUME ~RowWait(RunSpace) PROVE FALSE
      OBVIOUS
    <3> DEFINE said == {t \in Own(RunSpace) : text[t] # ""}
    <3>1. RowState(RunSpace) = "waiting"
      BY DEF Shows
    <3>2. CASE said = {}
      BY <3>1, <3>2 DEF RowState
    <3>3. CASE said # {}
      <4>1. First(said) \in said
        BY <2>1, <3>3, FirstIs
      <4>2. text[First(said)] = "waiting"
        BY <3>1, <3>3 DEF RowState
      <4>3. First(said) \in Terminals
        BY <4>1 DEF Own
      <4>. QED
        BY <4>2, <4>3 DEF IInv, TypeInv, TypeOK, Texts
    <3>. QED
      BY <3>2, <3>3
  <2>3. \E t \in Watched : wait[t]
    BY <2>1, <2>2 DEF RowWait
  <2>4. \A t \in Watched, w \in Writers : ~Clears(w, t)
    BY DEF Clears
  <2>5. open # 0
    BY <2>3, <2>4 DEF IInv, WaitInv
  <2>. QED
    BY <2>5, WatchAssumption DEF IInv, TypeInv, TypeOK
<1>. QED
  BY <1>1, Invariance, PTL

\* Once the loop is done with a step whose worker is still there, the panel shows its
\* outcome and no wait (runStep, after Finish ended the session under its lock).
THEOREM FinalTrue == ASSUME ListsLive PROVE Spec => []FinalShown
<1>1. IInv => FinalShown
  <2> SUFFICES ASSUME IInv, loop = "over", Tagged(Worker), ~warned, \A w \in Writers : Idle(w)
               PROVE  Shows(RunSpace) = IF result = "ok" THEN "done" ELSE "failed"
    BY DEF FinalShown
  <2>1. Own(RunSpace) = Watched /\ Watched \subseteq {Worker, Reviewer} /\ Worker \in Watched
    BY RowsAreWatched, Threads DEF Watched
  <2>2. \A t \in Watched : Final(t)
    BY Threads DEF IInv, FinalInv
  <2>3. ~RowWait(RunSpace)
    BY <2>1, <2>2 DEF RowWait, Final
  <2> DEFINE said == {t \in Own(RunSpace) : text[t] # ""}
  <2>4. said = Watched
    BY <2>1, <2>2 DEF Final
  <2>5. First(said) \in Watched /\ said # {}
    BY <2>1, <2>4, FirstIs
  <2>. QED
    BY <2>2, <2>3, <2>5 DEF Shows, RowState, Final
<1>. QED
  BY <1>1, Invariance, PTL

=============================================================================
