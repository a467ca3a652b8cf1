----------------------------- MODULE AsksProofs -----------------------------
(* What asking guarantees for any number of questions, agents, attempts and  *)
(* crashes: the safety properties that MCAsks checks on small instances.     *)
(* They follow from the inductive invariant IInv, which says of every ask    *)
(* who holds it and what is recorded of it at every place of its thread.     *)
EXTENDS Asks, TLAPS, FiniteSetTheorems

\* An ask and an agent, as TypeOK has them.
AskRecords == [pc : {"unused", "asking", "route", "out", "taken", "given", "hand",
                     "claimed", "keys", "more", "pressed", "over"},
               kind : {"none", "question", "dialog"}, by : Agents,
               url : 0..attempt, att : 0..attempt, screen : Screens \cup {None},
               seq : 0..MaxBlocks, saved : {"none", "open", "answered", "withdrawn"},
               told : BOOLEAN]
AgentRecords == [state : {"none", "working", "idle", "blocked", "gone"},
                 seq : 0..MaxBlocks, last : Screens \cup {None},
                 look : [screen : Screens \cup {None}, seq : 0..MaxBlocks]]

\* The asks that the driver has in its hands: in the table, or being withdrawn.
Held == tracked \cup leaving

\* Where the driver is, and what it may hold there.  A step that was finished has an
\* ended session, which admits and raises nothing; so nothing is asked any more when
\* its asks are withdrawn, nor until the next attempt.
FlowInv ==
  /\ runner \in {"closing", "commit", "record", "out", "none"} => ended
  /\ loop \in {"leaving", "broken", "quitting", "idle", "dead"} => ended /\ tracked = {}
  /\ loop \notin {"leaving", "broken", "quitting"} => leaving = {}
  /\ loop = "dead" => server = {} /\ routed = {} /\ gone = {}

\* The commit of a step that is about to be recorded ok.
CommitInv ==
  /\ runner = "commit" => attempt \in intent
  /\ runner = "record" /\ out = "ok" => attempt \in committed
  /\ OkIsCommitted

\* An ask that no thread has admitted is in none of the driver's sets.
NewInv == \A id \in Ids :
  /\ ask[id].pc \in {"unused", "asking"} =>
       /\ id \notin Held \cup answered \cup routed \cup gone
       /\ ask[id].saved = "none"
  /\ ask[id].pc = "unused" => id \notin server

\* An ask that is to be routed, or is, is held and not answered, unless the router was
\* told to forget it.
RouteInv == \A id \in Ids :
  /\ ask[id].pc \in {"route", "out"} /\ id \notin gone => id \in Held \ answered
  /\ id \in routed => ask[id].pc = "out"

\* What is recorded of an ask, by where its thread is and who holds it.
SavedInv == \A id \in Ids :
  /\ ask[id].saved = "open" => loop = "dead" \/ id \in Held \/ Pressing(id)
  /\ id \in tracked /\ ask[id].kind = "dialog" => ask[id].saved = "open"
  /\ ask[id].pc \in {"given", "hand"} =>
       ask[id].kind = "question" /\ ask[id].saved # "open"
  /\ id \in answered =>
       ask[id].saved = "answered" /\ ask[id].pc \in {"given", "hand", "over"}
  /\ ask[id].saved = "answered" /\ ask[id].kind = "question" =>
       ask[id].told \/ id \in lost \/ id \in answered

\* A question that the ask server holds open.
ServerInv == \A id \in server :
  /\ ask[id].kind = "question" /\ ask[id].pc # "hand"
  /\ ask[id].pc \in {"route", "out", "taken", "over"} => ask[id].saved = "open"

\* A dialog whose keys are being pressed is the attempt's, whose session is not ended:
\* who wants to end it waits.  It is in the table no more.
PressInv == \A id \in Ids : Pressing(id) =>
  /\ ~ended /\ ask[id].att = attempt /\ ask[id].kind = "dialog"
  /\ id \notin Held \cup answered
  /\ ask[id].saved = IF ask[id].pc = "claimed" THEN "open" ELSE "answered"

IInv == /\ TypeOK /\ CountTrue /\ WaitsForSomething /\ FlowInv /\ CommitInv
        /\ NewInv /\ RouteInv /\ SavedInv /\ ServerInv /\ PressInv

-----------------------------------------------------------------------------
(* What the steps touch.                                                     *)

\* The steps that touch an ask, or what the driver holds of asks.
Touch ==
  \/ StepEnds
  \/ Quit
  \/ Crash
  \/ Resume
  \/ \E id \in Ids : \/ Admit(id) \/ TurnAway(id) \/ Route(id) \/ Deliver(id)
                      \/ Given(id)
                      \/ HandOver(id) \/ HandFails(id) \/ HandNothing(id) \/ Press(id)
                      \/ WithdrawOne(id) \/ Take(id)
  \/ \E a \in Agents : Unblocked(a)
  \/ \E id \in Ids, a \in Agents : Ask(id, a) \/ Raise(id, a)

\* The other steps leave all of that alone, and a driver that is down, down; they may
\* begin an attempt, and end a session whose lock nobody holds.
Quiet == /\ UNCHANGED <<ask, tracked, answered, count, leaving, channel, lost>>
         /\ ended' => ended \/ ~Locked
         /\ status' = "waiting" /\ ~ended' => status = "waiting" /\ ~ended
         /\ loop' = "dead" <=> loop = "dead"
         /\ attempt' = attempt \/ (attempt' = attempt + 1 /\ loop = "idle")

\* Every step touches asks or is quiet.
LEMMA Touching == [Next]_vars => Touch \/ Quiet
<1> SUFFICES ASSUME [Next]_vars PROVE Touch \/ Quiet
  OBVIOUS
<1> USE DEF Quiet, record, session, flow, table, channel, past
<1>1. Spawned => Quiet
  BY DEF Spawned
<1>2. Started => Quiet
  BY DEF Started
<1>3. Judge => Quiet
  BY DEF Judge
<1>4. FinishEnd => Quiet
  BY DEF FinishEnd
<1>5. FinishCheck => Quiet
  BY DEF FinishCheck
<1>6. FinishCommit => Quiet
  BY DEF FinishCommit
<1>7. FinishRecord => Quiet
  BY DEF FinishRecord
<1>8. HaltRecord => Quiet
  BY DEF HaltRecord
<1>9. StepOver => Quiet
  BY DEF StepOver
<1>10. ASSUME NEW a \in Agents, ReviewerStarts(a) PROVE Quiet
  BY <1>10 DEF ReviewerStarts
<1>11. ASSUME NEW a \in Agents, TurnEnds(a) PROVE Quiet
  BY <1>11 DEF TurnEnds
<1>12. ASSUME NEW a \in Agents, Blocks(a) PROVE Quiet
  BY <1>12 DEF Blocks
<1>13. ASSUME NEW a \in Agents, Unblocks(a) PROVE Quiet
  BY <1>13 DEF Unblocks
<1>14. ASSUME NEW a \in Agents, Dies(a) PROVE Quiet
  BY <1>14 DEF Dies
<1>15. Halt => Quiet
  BY DEF Halt
<1>19. ASSUME NEW a \in Agents, Look(a) \/ NotRaised(a) PROVE Quiet
  BY <1>19 DEF Look, NotRaised
<1>16. StopStep => Quiet
  BY DEF StopStep
<1>17. Attempt => Quiet
  BY DEF Attempt
<1>18. UNCHANGED vars => Quiet
  BY DEF vars
<1>. QED
  BY <1>1, <1>2, <1>3, <1>4, <1>5, <1>6, <1>7, <1>8, <1>9, <1>10, <1>11, <1>12,
     <1>13, <1>14, <1>15, <1>16, <1>17, <1>18, <1>19
  DEF Next, Thread, Runner, Loop, World, Touch

\* What TypeOK says of the asks and of those that hold them.
LEMMA Kinds ==
  ASSUME TypeOK
  PROVE  /\ ask \in [Ids -> AskRecords] /\ agent \in [Agents -> AgentRecords]
         /\ tracked \subseteq Ids /\ leaving \subseteq Ids \ tracked
         /\ answered \subseteq Held /\ routed \subseteq Ids \ gone
         /\ server \subseteq Ids
  BY DEF TypeOK, AskRecords, AgentRecords, Held

\* The step's asks are all that is tracked; withdrawing takes them out of the table.
LEMMA Leaving == TypeOK /\ CountTrue /\ FlowInv /\ StepEnds =>
                 leaving = {} /\ tracked' = {} /\ leaving' = tracked /\ Held' = Held
  BY DEF TypeOK, CountTrue, Asked, FlowInv, StepEnds, Mine, Held

-----------------------------------------------------------------------------
(* Who holds an ask.                                                         *)

\* Every step keeps new asks out of the driver's sets.
LEMMA NewStep ==
  ASSUME TypeOK, CountTrue, FlowInv, NewInv, RouteInv, [Next]_vars PROVE NewInv'
<1> USE DEF NewInv, Held, record, session, flow, table, channel, past
<1>1. ASSUME NEW id \in Ids, Admit(id) PROVE NewInv'
  BY <1>1, Kinds DEF Admit, Opened, AskRecords
<1>2. ASSUME NEW id \in Ids, TurnAway(id) PROVE NewInv'
  BY <1>2, Kinds DEF TurnAway, Unasked, AskRecords
<1>3. ASSUME NEW id \in Ids, Route(id) PROVE NewInv'
  BY <1>3, Kinds DEF Route, AskRecords
<1>4. ASSUME NEW id \in Ids, Deliver(id) PROVE NewInv'
  BY <1>4, Kinds DEF Deliver, Answerable, AskRecords
<1>5. ASSUME NEW id \in Ids, Given(id) PROVE NewInv'
  BY <1>5, Kinds DEF Given, AskRecords
<1>6. ASSUME NEW id \in Ids, HandOver(id) PROVE NewInv'
  BY <1>6, Kinds DEF HandOver, Release, AskRecords
<1>7. ASSUME NEW id \in Ids, HandFails(id) PROVE NewInv'
  BY <1>7, Kinds DEF HandFails, Release, AskRecords
<1>8. ASSUME NEW id \in Ids, HandNothing(id) PROVE NewInv'
  BY <1>8, Kinds DEF HandNothing, AskRecords
<1>9. ASSUME NEW id \in Ids, Press(id) PROVE NewInv'
  BY <1>9, Kinds DEF Press, Claim, RecordKeys, PressKey, KeysStop, KeysDone, Release, AskRecords
<1>10. CASE StepEnds
  BY <1>10, Leaving, Kinds DEF StepEnds, Mine, AskRecords
<1>11. ASSUME NEW id \in Ids, WithdrawOne(id) PROVE NewInv'
  BY <1>11, Kinds DEF WithdrawOne, Left, Unasked, AskRecords
<1>12. ASSUME NEW id \in Ids, NEW a \in Agents, Ask(id, a) PROVE NewInv'
  BY <1>12, Kinds DEF Ask, Fresh, AskRecords
<1>13. ASSUME NEW id \in Ids, NEW a \in Agents, Raise(id, a) PROVE NewInv'
  BY <1>13, Kinds DEF Raise, Opened, Fresh, AskRecords
<1>14. ASSUME NEW a \in Agents, Unblocked(a) PROVE NewInv'
  <2>1. CASE UNCHANGED <<ask, table, status, gone, routed>>
    BY <1>14, <2>1 DEF Unblocked
  <2>2. ASSUME NEW id \in DialogOf(a), Live(id),
               ask' = [ask EXCEPT ![id].saved = "withdrawn"], tracked' = tracked \ {id},
               gone' = gone \cup {id}, routed' = routed \ {id}, Release,
               UNCHANGED answered
        PROVE  NewInv'
    BY <1>14, <2>2, Kinds DEF Unblocked, DialogOf, AskRecords
  <2>. QED
    BY <1>14, <2>1, <2>2 DEF Unblocked
<1>15. ASSUME NEW id \in Ids, Take(id) PROVE NewInv'
  BY <1>15, Kinds DEF Take, AskRecords
<1>16. CASE Quit
  BY <1>16, Kinds DEF Quit, Down, AskRecords
<1>17. CASE Crash
  BY <1>17, Kinds DEF Crash, Down, AskRecords
<1>18. CASE Resume
  BY <1>18, Kinds DEF Resume, AskRecords
<1>19. CASE Quiet
  BY <1>19 DEF Quiet
<1> HIDE DEF NewInv, Held, record, session, flow, table, channel, past
<1>. QED
  BY <1>1, <1>2, <1>3, <1>4, <1>5, <1>6, <1>7, <1>8, <1>9, <1>10, <1>11, <1>12,
     <1>13, <1>14, <1>15, <1>16, <1>17, <1>18, <1>19, Touching
  DEF Touch

\* Every step keeps routed asks in hand.
LEMMA RouteStep ==
  ASSUME TypeOK, CountTrue, FlowInv, NewInv, RouteInv, SavedInv, [Next]_vars
  PROVE  RouteInv'
<1> USE DEF RouteInv, Held, record, session, flow, table, channel, past
<1>1. ASSUME NEW id \in Ids, Admit(id) PROVE RouteInv'
  BY <1>1, Kinds DEF Admit, Opened, NewInv, AskRecords
<1>2. ASSUME NEW id \in Ids, TurnAway(id) PROVE RouteInv'
  BY <1>2, Kinds DEF TurnAway, Unasked, AskRecords
<1>3. ASSUME NEW id \in Ids, Route(id) PROVE RouteInv'
  BY <1>3, Kinds DEF Route, Forgotten, AskRecords
<1>4. ASSUME NEW id \in Ids, Deliver(id) PROVE RouteInv'
  BY <1>4, Kinds DEF Deliver, Answerable, AskRecords
<1>5. ASSUME NEW id \in Ids, Given(id) PROVE RouteInv'
  BY <1>5, Kinds DEF Given, AskRecords
<1>6. ASSUME NEW id \in Ids, HandOver(id) PROVE RouteInv'
  BY <1>6, Kinds DEF HandOver, Release, SavedInv, AskRecords
<1>7. ASSUME NEW id \in Ids, HandFails(id) PROVE RouteInv'
  BY <1>7, Kinds DEF HandFails, Release, AskRecords
<1>8. ASSUME NEW id \in Ids, HandNothing(id) PROVE RouteInv'
  BY <1>8, Kinds DEF HandNothing, AskRecords
<1>9. ASSUME NEW id \in Ids, Press(id) PROVE RouteInv'
  BY <1>9, Kinds DEF Press, Claim, RecordKeys, PressKey, KeysStop, KeysDone, Release, AskRecords
<1>10. CASE StepEnds
  BY <1>10, Leaving, Kinds DEF StepEnds, Mine, AskRecords
<1>11. ASSUME NEW id \in Ids, WithdrawOne(id) PROVE RouteInv'
  BY <1>11, Kinds DEF WithdrawOne, Left, Unasked, AskRecords
<1>12. ASSUME NEW id \in Ids, NEW a \in Agents, Ask(id, a) PROVE RouteInv'
  BY <1>12, Kinds DEF Ask, Fresh, NewInv, AskRecords
<1>13. ASSUME NEW id \in Ids, NEW a \in Agents, Raise(id, a) PROVE RouteInv'
  BY <1>13, Kinds DEF Raise, Opened, Fresh, NewInv, AskRecords
<1>14. ASSUME NEW a \in Agents, Unblocked(a) PROVE RouteInv'
  <2>1. CASE UNCHANGED <<ask, table, status, gone, routed>>
    BY <1>14, <2>1 DEF Unblocked
  <2>2. ASSUME NEW id \in DialogOf(a), Live(id),
               ask' = [ask EXCEPT ![id].saved = "withdrawn"], tracked' = tracked \ {id},
               gone' = gone \cup {id}, routed' = routed \ {id}, Release,
               UNCHANGED answered
        PROVE  RouteInv'
    BY <1>14, <2>2, Kinds DEF Unblocked, DialogOf, AskRecords
  <2>. QED
    BY <1>14, <2>1, <2>2 DEF Unblocked
<1>15. ASSUME NEW id \in Ids, Take(id) PROVE RouteInv'
  BY <1>15, Kinds DEF Take, AskRecords
<1>16. CASE Quit
  BY <1>16, Kinds DEF Quit, Down, AskRecords
<1>17. CASE Crash
  BY <1>17, Kinds DEF Crash, Down, AskRecords
<1>18. CASE Resume
  BY <1>18, Kinds DEF Resume, AskRecords
<1>19. CASE Quiet
  BY <1>19 DEF Quiet
<1> HIDE DEF RouteInv, Held, record, session, flow, table, channel, past
<1>. QED
  BY <1>1, <1>2, <1>3, <1>4, <1>5, <1>6, <1>7, <1>8, <1>9, <1>10, <1>11, <1>12,
     <1>13, <1>14, <1>15, <1>16, <1>17, <1>18, <1>19, Touching
  DEF Touch

\* Every step keeps what is recorded of asks.
LEMMA SavedStep ==
  ASSUME TypeOK, CountTrue, FlowInv, NewInv, RouteInv, SavedInv, ServerInv, PressInv,
         [Next]_vars
  PROVE  SavedInv'
<1> USE DEF SavedInv, Held, Pressing, record, session, flow, table, channel, past
<1>1. ASSUME NEW id \in Ids, Admit(id) PROVE SavedInv'
  BY <1>1, Kinds DEF Admit, Opened, NewInv, AskRecords
<1>2. ASSUME NEW id \in Ids, TurnAway(id) PROVE SavedInv'
  BY <1>2, Kinds DEF TurnAway, Unasked, NewInv, AskRecords
<1>3. ASSUME NEW id \in Ids, Route(id) PROVE SavedInv'
  BY <1>3, Kinds DEF Route, AskRecords
<1>4. ASSUME NEW id \in Ids, Deliver(id) PROVE SavedInv'
  BY <1>4, Kinds DEF Deliver, Answerable, AskRecords
<1>5. ASSUME NEW id \in Ids, Given(id) PROVE SavedInv'
  BY <1>5, Kinds DEF Given, AskRecords
<1>6. ASSUME NEW id \in Ids, HandOver(id) PROVE SavedInv'
  BY <1>6, Kinds DEF HandOver, Release, AskRecords
<1>7. ASSUME NEW id \in Ids, HandFails(id) PROVE SavedInv'
  BY <1>7, Kinds DEF HandFails, Release, AskRecords
<1>8. ASSUME NEW id \in Ids, HandNothing(id) PROVE SavedInv'
  BY <1>8, Kinds DEF HandNothing, AskRecords
<1>9. ASSUME NEW id \in Ids, Press(id) PROVE SavedInv'
  <2>1. CASE Claim(id)
    BY <1>9, <2>1, Kinds DEF Claim, Release, RouteInv, AskRecords
  <2>2. CASE RecordKeys(id)
    BY <1>9, <2>2, Kinds DEF RecordKeys, PressInv, AskRecords
  <2>3. CASE PressKey(id)
    BY <1>9, <2>3, Kinds DEF PressKey, PressInv, AskRecords
  <2>4. CASE KeysStop(id) \/ KeysDone(id)
    BY <1>9, <2>4, Kinds DEF KeysStop, KeysDone, Release, PressInv, AskRecords
  <2>. QED
    BY <1>9, <2>1, <2>2, <2>3, <2>4 DEF Press
<1>10. CASE StepEnds
  BY <1>10, Leaving, Kinds DEF StepEnds, Mine, AskRecords
<1>11. ASSUME NEW id \in Ids, WithdrawOne(id) PROVE SavedInv'
  BY <1>11, Kinds DEF WithdrawOne, Left, Unasked, AskRecords
<1>12. ASSUME NEW id \in Ids, NEW a \in Agents, Ask(id, a) PROVE SavedInv'
  BY <1>12, Kinds DEF Ask, Fresh, NewInv, AskRecords
<1>13. ASSUME NEW id \in Ids, NEW a \in Agents, Raise(id, a) PROVE SavedInv'
  BY <1>13, Kinds DEF Raise, Opened, Fresh, NewInv, AskRecords
<1>14. ASSUME NEW a \in Agents, Unblocked(a) PROVE SavedInv'
  <2>1. CASE UNCHANGED <<ask, table, status, gone, routed>>
    BY <1>14, <2>1 DEF Unblocked
  <2>2. ASSUME NEW id \in DialogOf(a), Live(id),
               ask' = [ask EXCEPT ![id].saved = "withdrawn"], tracked' = tracked \ {id},
               gone' = gone \cup {id}, routed' = routed \ {id}, Release,
               UNCHANGED answered
        PROVE  SavedInv'
    BY <1>14, <2>2, Kinds DEF Unblocked, DialogOf, AskRecords
  <2>. QED
    BY <1>14, <2>1, <2>2 DEF Unblocked
<1>15. ASSUME NEW id \in Ids, Take(id) PROVE SavedInv'
  BY <1>15, Kinds DEF Take, AskRecords
<1>16. CASE Quit
  BY <1>16, Kinds DEF Quit, Down, AskRecords
<1>17. CASE Crash
  BY <1>17, Kinds DEF Crash, Down, AskRecords
<1>18. CASE Resume
  BY <1>18, Kinds DEF Resume, FlowInv, AskRecords
<1>19. CASE Quiet
  BY <1>19 DEF Quiet
<1> HIDE DEF SavedInv, Held, Pressing, record, session, flow, table, channel, past
<1>. QED
  BY <1>1, <1>2, <1>3, <1>4, <1>5, <1>6, <1>7, <1>8, <1>9, <1>10, <1>11, <1>12,
     <1>13, <1>14, <1>15, <1>16, <1>17, <1>18, <1>19, Touching
  DEF Touch

\* Every step keeps questions that are over out of the ask server.
LEMMA ServerStep ==
  ASSUME TypeOK, CountTrue, FlowInv, NewInv, RouteInv, SavedInv, ServerInv, PressInv,
         [Next]_vars
  PROVE  ServerInv'
<1> USE DEF ServerInv, Held, record, session, flow, table, channel, past
<1>1. ASSUME NEW id \in Ids, Admit(id) PROVE ServerInv'
  BY <1>1, Kinds DEF Admit, Opened, NewInv, AskRecords
<1>2. ASSUME NEW id \in Ids, TurnAway(id) PROVE ServerInv'
  BY <1>2, Kinds DEF TurnAway, Unasked, AskRecords
<1>3. ASSUME NEW id \in Ids, Route(id) PROVE ServerInv'
  BY <1>3, Kinds DEF Route, AskRecords
<1>4. ASSUME NEW id \in Ids, Deliver(id) PROVE ServerInv'
  <2>1. CASE ask' = [ask EXCEPT ![id].pc = "over"]
    BY <1>4, <2>1, Kinds DEF Deliver, Answerable, AskRecords
  <2>2. CASE ask' = [ask EXCEPT ![id].pc = "given", ![id].saved = "answered"]
    BY <1>4, <2>2, Kinds DEF Deliver, Answerable, AskRecords
  <2>. QED
    BY <1>4, <2>1, <2>2 DEF Deliver
<1>5. ASSUME NEW id \in Ids, Given(id) PROVE ServerInv'
  BY <1>5, Kinds DEF Given, AskRecords
<1>6. ASSUME NEW id \in Ids, HandOver(id) PROVE ServerInv'
  BY <1>6, Kinds DEF HandOver, Release, AskRecords
<1>7. ASSUME NEW id \in Ids, HandFails(id) PROVE ServerInv'
  <2>1. id \notin server
    BY <1>7 DEF HandFails
  <2>2. server' = server /\ \A i \in Ids \ {id} : ask'[i] = ask[i]
    BY <1>7, Kinds DEF HandFails
  <2>. QED
    BY <2>1, <2>2, Kinds
<1>8. ASSUME NEW id \in Ids, HandNothing(id) PROVE ServerInv'
  BY <1>8, Kinds DEF HandNothing, AskRecords
<1>9. ASSUME NEW id \in Ids, Press(id) PROVE ServerInv'
  <2>1. ask[id].kind = "dialog"
    BY <1>9
    DEF Press, Claim, RecordKeys, PressKey, KeysStop, KeysDone, PressInv, Pressing
  <2>2. server' = server /\ \A i \in Ids \ {id} : ask'[i] = ask[i]
    BY <1>9, Kinds DEF Press, Claim, RecordKeys, PressKey, KeysStop, KeysDone
  <2>. QED
    BY <2>1, <2>2, Kinds
<1>10. CASE StepEnds
  BY <1>10, Leaving, Kinds DEF StepEnds, Mine, AskRecords
<1>11. ASSUME NEW id \in Ids, WithdrawOne(id) PROVE ServerInv'
  BY <1>11, Kinds DEF WithdrawOne, Left, Unasked, SavedInv, AskRecords
<1>12. ASSUME NEW id \in Ids, NEW a \in Agents, Ask(id, a) PROVE ServerInv'
  BY <1>12, Kinds DEF Ask, Fresh, AskRecords
<1>13. ASSUME NEW id \in Ids, NEW a \in Agents, Raise(id, a) PROVE ServerInv'
  BY <1>13, Kinds DEF Raise, Opened, Fresh, NewInv, AskRecords
<1>14. ASSUME NEW a \in Agents, Unblocked(a) PROVE ServerInv'
  <2>1. CASE UNCHANGED <<ask, table, status, gone, routed>>
    BY <1>14, <2>1 DEF Unblocked
  <2>2. ASSUME NEW id \in DialogOf(a), Live(id),
               ask' = [ask EXCEPT ![id].saved = "withdrawn"], tracked' = tracked \ {id},
               gone' = gone \cup {id}, routed' = routed \ {id}, Release,
               UNCHANGED answered
        PROVE  ServerInv'
    BY <1>14, <2>2, Kinds DEF Unblocked, DialogOf, AskRecords
  <2>. QED
    BY <1>14, <2>1, <2>2 DEF Unblocked
<1>15. ASSUME NEW id \in Ids, Take(id) PROVE ServerInv'
  BY <1>15, Kinds DEF Take, AskRecords
<1>16. CASE Quit
  BY <1>16, Kinds DEF Quit, Down, AskRecords
<1>17. CASE Crash
  BY <1>17, Kinds DEF Crash, Down, AskRecords
<1>18. CASE Resume
  BY <1>18, Kinds DEF Resume, FlowInv, AskRecords
<1>19. CASE Quiet
  BY <1>19 DEF Quiet
<1> HIDE DEF ServerInv, Held, record, session, flow, table, channel, past
<1>. QED
  BY <1>1, <1>2, <1>3, <1>4, <1>5, <1>6, <1>7, <1>8, <1>9, <1>10, <1>11, <1>12,
     <1>13, <1>14, <1>15, <1>16, <1>17, <1>18, <1>19, Touching
  DEF Touch


-----------------------------------------------------------------------------
(* Where the driver is, and its commits.                                     *)

\* Every step keeps what the driver may hold where it is.
LEMMA FlowStep ==
  ASSUME TypeOK, CountTrue, FlowInv, RouteInv, [Next]_vars PROVE FlowInv'
<1> USE DEF FlowInv, record, session, flow, table, channel, past
<1>1. ASSUME NEW id \in Ids, Admit(id) PROVE FlowInv'
  BY <1>1 DEF Admit, Opened, Up
<1>2. ASSUME NEW id \in Ids, TurnAway(id) PROVE FlowInv'
  BY <1>2 DEF TurnAway, Unasked, Up
<1>3. ASSUME NEW id \in Ids, Route(id) PROVE FlowInv'
  BY <1>3 DEF Route, RouteInv, Forgotten, Held
<1>4. ASSUME NEW id \in Ids, Deliver(id) PROVE FlowInv'
  BY <1>4 DEF Deliver, Answerable
<1>5. ASSUME NEW id \in Ids, Given(id) PROVE FlowInv'
  BY <1>5 DEF Given
<1>6. ASSUME NEW id \in Ids, HandOver(id) PROVE FlowInv'
  BY <1>6 DEF HandOver, Release, Typable, Live, Up
<1>7. ASSUME NEW id \in Ids, HandFails(id) PROVE FlowInv'
  BY <1>7 DEF HandFails, Release, Live, Up
<1>8. ASSUME NEW id \in Ids, HandNothing(id) PROVE FlowInv'
  BY <1>8 DEF HandNothing
<1>9. ASSUME NEW id \in Ids, Press(id) PROVE FlowInv'
  BY <1>9 DEF Press, Claim, RecordKeys, PressKey, KeysStop, KeysDone, Release, Live, Up
<1>10. CASE Spawned
  BY <1>10 DEF Spawned
<1>11. CASE Started
  BY <1>11 DEF Started
<1>12. CASE Judge
  BY <1>12 DEF Judge
<1>13. CASE FinishEnd
  BY <1>13 DEF FinishEnd
<1>14. CASE FinishCheck
  BY <1>14 DEF FinishCheck
<1>15. CASE FinishCommit
  BY <1>15 DEF FinishCommit
<1>16. CASE FinishRecord
  BY <1>16 DEF FinishRecord
<1>17. CASE HaltRecord
  BY <1>17 DEF HaltRecord
<1>18. CASE StepEnds
  BY <1>18, Leaving DEF StepEnds, Mine, CountTrue
<1>19. CASE StepOver
  BY <1>19 DEF StepOver
<1>20. ASSUME NEW id \in Ids, WithdrawOne(id) PROVE FlowInv'
  BY <1>20 DEF WithdrawOne, Left, Unasked
<1>21. ASSUME NEW a \in Agents, ReviewerStarts(a) PROVE FlowInv'
  BY <1>21 DEF ReviewerStarts
<1>22. ASSUME NEW a \in Agents, TurnEnds(a) PROVE FlowInv'
  BY <1>22 DEF TurnEnds
<1>23. ASSUME NEW a \in Agents, Blocks(a) PROVE FlowInv'
  BY <1>23 DEF Blocks
<1>24. ASSUME NEW a \in Agents, Unblocks(a) PROVE FlowInv'
  BY <1>24 DEF Unblocks
<1>25. ASSUME NEW a \in Agents, Dies(a) PROVE FlowInv'
  BY <1>25 DEF Dies
<1>26. ASSUME NEW id \in Ids, NEW a \in Agents, Ask(id, a) PROVE FlowInv'
  BY <1>26 DEF Ask, Up
<1>27. ASSUME NEW id \in Ids, NEW a \in Agents, Raise(id, a) PROVE FlowInv'
  BY <1>27 DEF Raise, Opened, Up
<1>28. ASSUME NEW a \in Agents, Unblocked(a) PROVE FlowInv'
  BY <1>28 DEF Unblocked, Release, Live, Up
<1>29. ASSUME NEW id \in Ids, Take(id) PROVE FlowInv'
  BY <1>29 DEF Take
<1>30. CASE Halt
  BY <1>30 DEF Halt
<1>31. CASE StopStep
  BY <1>31 DEF StopStep
<1>32. CASE Attempt
  BY <1>32 DEF Attempt
<1>33. CASE Quit
  BY <1>33 DEF Quit, Down
<1>34. CASE Crash
  BY <1>34 DEF Crash, Down
<1>35. CASE Resume
  BY <1>35 DEF Resume
<1>36. CASE UNCHANGED vars
  BY <1>36 DEF vars
<1>37. ASSUME NEW a \in Agents, Look(a) \/ NotRaised(a) PROVE FlowInv'
  BY <1>37 DEF Look, NotRaised
<1>. QED
  BY <1>1, <1>2, <1>3, <1>4, <1>5, <1>6, <1>7, <1>8, <1>9, <1>10, <1>11, <1>12,
     <1>13, <1>14, <1>15, <1>16, <1>17, <1>18, <1>19, <1>20, <1>21, <1>22, <1>23,
     <1>24, <1>25, <1>26, <1>27, <1>28, <1>29, <1>30, <1>31, <1>32, <1>33, <1>34,
     <1>35, <1>36, <1>37
  DEF Next, Thread, Runner, Loop, World

\* Every step keeps a step that is recorded ok committed.
LEMMA CommitStep ==
  ASSUME TypeOK, CommitInv, FlowInv, [Next]_vars PROVE CommitInv'
<1> USE DEF CommitInv, OkIsCommitted, record, session, flow, table, channel, past
<1>1. ASSUME NEW id \in Ids, Admit(id) PROVE CommitInv'
  BY <1>1 DEF Admit, Opened
<1>2. ASSUME NEW id \in Ids, TurnAway(id) PROVE CommitInv'
  BY <1>2 DEF TurnAway, Unasked
<1>3. ASSUME NEW id \in Ids, Route(id) PROVE CommitInv'
  BY <1>3 DEF Route
<1>4. ASSUME NEW id \in Ids, Deliver(id) PROVE CommitInv'
  BY <1>4 DEF Deliver, Answerable
<1>5. ASSUME NEW id \in Ids, Given(id) PROVE CommitInv'
  BY <1>5 DEF Given
<1>6. ASSUME NEW id \in Ids, HandOver(id) PROVE CommitInv'
  BY <1>6 DEF HandOver, Release
<1>7. ASSUME NEW id \in Ids, HandFails(id) PROVE CommitInv'
  BY <1>7 DEF HandFails, Release
<1>8. ASSUME NEW id \in Ids, HandNothing(id) PROVE CommitInv'
  BY <1>8 DEF HandNothing
<1>9. ASSUME NEW id \in Ids, Press(id) PROVE CommitInv'
  BY <1>9 DEF Press, Claim, RecordKeys, PressKey, KeysStop, KeysDone, Release
<1>10. CASE Spawned
  BY <1>10 DEF Spawned
<1>11. CASE Started
  BY <1>11 DEF Started
<1>12. CASE Judge
  BY <1>12 DEF Judge
<1>13. CASE FinishEnd
  BY <1>13 DEF FinishEnd
<1>14. CASE FinishCheck
  BY <1>14 DEF FinishCheck
<1>15. CASE FinishCommit
  BY <1>15 DEF FinishCommit, Uncommitted, FlowInv
<1>16. CASE FinishRecord
  BY <1>16 DEF FinishRecord, Terminal, FlowInv
<1>17. CASE HaltRecord
  BY <1>17 DEF HaltRecord
<1>18. CASE StepEnds
  BY <1>18 DEF StepEnds, Mine
<1>19. CASE StepOver
  BY <1>19 DEF StepOver
<1>20. ASSUME NEW id \in Ids, WithdrawOne(id) PROVE CommitInv'
  BY <1>20 DEF WithdrawOne, Left, Unasked
<1>21. ASSUME NEW a \in Agents, ReviewerStarts(a) PROVE CommitInv'
  BY <1>21 DEF ReviewerStarts
<1>22. ASSUME NEW a \in Agents, TurnEnds(a) PROVE CommitInv'
  BY <1>22 DEF TurnEnds
<1>23. ASSUME NEW a \in Agents, Blocks(a) PROVE CommitInv'
  BY <1>23 DEF Blocks
<1>24. ASSUME NEW a \in Agents, Unblocks(a) PROVE CommitInv'
  BY <1>24 DEF Unblocks
<1>25. ASSUME NEW a \in Agents, Dies(a) PROVE CommitInv'
  BY <1>25 DEF Dies
<1>26. ASSUME NEW id \in Ids, NEW a \in Agents, Ask(id, a) PROVE CommitInv'
  BY <1>26 DEF Ask
<1>27. ASSUME NEW id \in Ids, NEW a \in Agents, Raise(id, a) PROVE CommitInv'
  BY <1>27 DEF Raise, Opened
<1>28. ASSUME NEW a \in Agents, Unblocked(a) PROVE CommitInv'
  BY <1>28 DEF Unblocked, Release
<1>29. ASSUME NEW id \in Ids, Take(id) PROVE CommitInv'
  BY <1>29 DEF Take
<1>30. CASE Halt
  BY <1>30 DEF Halt
<1>31. CASE StopStep
  BY <1>31 DEF StopStep
<1>32. CASE Attempt
  BY <1>32 DEF Attempt, TypeOK
<1>33. CASE Quit
  BY <1>33 DEF Quit, Down, FlowInv
<1>34. CASE Crash
  BY <1>34 DEF Crash, Down
<1>35. CASE Resume
  BY <1>35 DEF Resume, Terminal, FlowInv
<1>36. CASE UNCHANGED vars
  BY <1>36 DEF vars
<1>37. ASSUME NEW a \in Agents, Look(a) \/ NotRaised(a) PROVE CommitInv'
  BY <1>37 DEF Look, NotRaised
<1>. QED
  BY <1>1, <1>2, <1>3, <1>4, <1>5, <1>6, <1>7, <1>8, <1>9, <1>10, <1>11, <1>12,
     <1>13, <1>14, <1>15, <1>16, <1>17, <1>18, <1>19, <1>20, <1>21, <1>22, <1>23,
     <1>24, <1>25, <1>26, <1>27, <1>28, <1>29, <1>30, <1>31, <1>32, <1>33, <1>34,
     <1>35, <1>36, <1>37
  DEF Next, Thread, Runner, Loop, World

-----------------------------------------------------------------------------
(* The number of open asks.                                                  *)

\* What is asked is finite.
LEMMA Finite == TypeOK => IsFiniteSet(Asked)
  BY Kinds, IdsAssumption, FS_Subset DEF Asked

\* One more ask is one more in the count.
LEMMA Opening ==
  ASSUME TypeOK, CountTrue, NEW id \in Ids, id \notin Asked,
         Asked' = Asked \cup {id}, Opened
  PROVE  count' = Cardinality(Asked') /\ Asked' # {}
<1>1. Cardinality(Asked \cup {id}) = Cardinality(Asked) + 1
  BY Finite, FS_AddElement
<1>. QED
  BY <1>1 DEF CountTrue, Opened

\* One less is one less, and a step that asks nothing any more is not waiting.
LEMMA Closing ==
  ASSUME TypeOK, CountTrue, NEW id \in Asked, Asked' = Asked \ {id}, Release
  PROVE  /\ count' = Cardinality(Asked')
         /\ status' = "waiting" => Asked' # {}
<1>1. Cardinality(Asked \ {id}) = Cardinality(Asked) - 1
  BY Finite, FS_RemoveElement
<1>2. Cardinality(Asked) \in Nat /\ Cardinality(Asked') \in Nat
  <2>1. IsFiniteSet(Asked')
    BY Finite, FS_Subset
  <2>. QED
    BY <2>1, Finite, FS_CardinalityType
<1>3. Asked' = {} => Cardinality(Asked') = 0
  BY FS_EmptySet
<1>. QED
  BY <1>1, <1>2, <1>3 DEF CountTrue, Release

\* What a step does to what is asked: nothing, one more, one less, or it drops all.
Same == /\ Asked' = Asked /\ UNCHANGED count
        /\ status' = "waiting" /\ ~ended' => status = "waiting" /\ ~ended
More == \E id \in Ids \ Asked : Asked' = Asked \cup {id} /\ Opened
Less == \E id \in Asked : Asked' = Asked \ {id} /\ Release
Drop == Asked' = {} /\ (count' = 0 \/ (Asked = {} /\ UNCHANGED count)) /\ ended'
AskedMoves == Same \/ More \/ Less \/ Drop

\* A step that touches one ask at most: what is asked changes by that one.
LEMMA OneAsk ==
  ASSUME TypeOK, CountTrue, NEW id \in Ids, tracked' \subseteq Ids, UNCHANGED attempt,
         \A i \in Ids \ {id} : ask'[i] = ask[i] /\ (i \in tracked' <=> i \in tracked),
         id \in Asked' => ask'[id].att = attempt
  PROVE  /\ Asked' = IF id \in Asked' THEN Asked \cup {id} ELSE Asked \ {id}
         /\ \A i \in Asked' : ask'[i].att = attempt'
<1>1. \A i \in Ids \ {id} : i \in Asked' <=> i \in Asked
  BY DEF Asked, Pressing
<1>2. Asked \subseteq Ids /\ Asked' \subseteq Ids
  BY Kinds DEF Asked
<1>. QED
  BY <1>1, <1>2 DEF CountTrue

\* Every step does one of these, and what is asked is the attempt's.
LEMMA AskedStep ==
  ASSUME TypeOK, CountTrue, FlowInv, NewInv, SavedInv, PressInv, [Next]_vars
  PROVE  AskedMoves /\ \A i \in Asked' : ask'[i].att = attempt'
<1> DEFINE Goal == AskedMoves /\ \A i \in Asked' : ask'[i].att = attempt'
<1> USE DEF AskedMoves, record, session, flow, table, channel, past
<1>1. ASSUME NEW id \in Ids, Admit(id) PROVE Goal
  <2>1. /\ \A i \in Ids \ {id} : ask'[i] = ask[i] /\ (i \in tracked' <=> i \in tracked)
        /\ tracked' \subseteq Ids /\ UNCHANGED attempt
    BY <1>1, Kinds DEF Admit, Opened
  <2>2. id \notin Asked /\ id \in Asked' /\ ask'[id].att = attempt
    BY <1>1, Kinds DEF Admit, Opened, Asked, Pressing, NewInv, Held, AskRecords
  <2>3. Opened
    BY <1>1 DEF Admit
  <2>. QED
    BY <2>1, <2>2, <2>3, OneAsk DEF More
<1>2. ASSUME NEW id \in Ids, TurnAway(id) PROVE Goal
  <2>1. /\ \A i \in Ids \ {id} : ask'[i] = ask[i] /\ (i \in tracked' <=> i \in tracked)
        /\ tracked' \subseteq Ids /\ UNCHANGED attempt
    BY <1>2, Kinds DEF TurnAway, Unasked
  <2>2. /\ id \in Asked' <=> id \in Asked
        /\ ask'[id].att = ask[id].att \/ id \notin Asked'
    BY <1>2, Kinds DEF TurnAway, Unasked, Asked, Pressing, AskRecords, NewInv, Held
  <2>3. Asked' = Asked
    BY <2>1, <2>2, OneAsk DEF CountTrue
  <2>. QED
    BY <1>2, <2>1, <2>2, <2>3, OneAsk DEF TurnAway, Unasked, Same, CountTrue
<1>3. ASSUME NEW id \in Ids, Route(id) PROVE Goal
  <2>1. /\ \A i \in Ids \ {id} : ask'[i] = ask[i] /\ (i \in tracked' <=> i \in tracked)
        /\ tracked' \subseteq Ids /\ UNCHANGED attempt
    BY <1>3, Kinds DEF Route
  <2>2. /\ id \in Asked' <=> id \in Asked
        /\ ask'[id].att = ask[id].att \/ id \notin Asked'
    BY <1>3, Kinds DEF Route, Asked, Pressing, AskRecords
  <2>3. Asked' = Asked
    BY <2>1, <2>2, OneAsk DEF CountTrue
  <2>. QED
    BY <1>3, <2>1, <2>2, <2>3, OneAsk DEF Route, Same, CountTrue
<1>4. ASSUME NEW id \in Ids, Deliver(id) PROVE Goal
  <2>1. /\ \A i \in Ids \ {id} : ask'[i] = ask[i] /\ (i \in tracked' <=> i \in tracked)
        /\ tracked' \subseteq Ids /\ UNCHANGED attempt
    BY <1>4, Kinds DEF Deliver, Answerable
  <2>2. /\ id \in Asked' <=> id \in Asked
        /\ ask'[id].att = ask[id].att \/ id \notin Asked'
    BY <1>4, Kinds DEF Deliver, Answerable, Asked, Pressing, AskRecords
  <2>3. Asked' = Asked
    BY <2>1, <2>2, OneAsk DEF CountTrue
  <2>. QED
    BY <1>4, <2>1, <2>2, <2>3, OneAsk DEF Deliver, Answerable, Same, CountTrue
<1>5. ASSUME NEW id \in Ids, Given(id) PROVE Goal
  <2>1. /\ \A i \in Ids \ {id} : ask'[i] = ask[i] /\ (i \in tracked' <=> i \in tracked)
        /\ tracked' \subseteq Ids /\ UNCHANGED attempt
    BY <1>5, Kinds DEF Given
  <2>2. /\ id \in Asked' <=> id \in Asked
        /\ ask'[id].att = ask[id].att \/ id \notin Asked'
    BY <1>5, Kinds DEF Given, Asked, Pressing, AskRecords
  <2>3. Asked' = Asked
    BY <2>1, <2>2, OneAsk DEF CountTrue
  <2>. QED
    BY <1>5, <2>1, <2>2, <2>3, OneAsk DEF Given, Same, CountTrue
<1>6. ASSUME NEW id \in Ids, HandOver(id) PROVE Goal
  <2>1. /\ \A i \in Ids \ {id} : ask'[i] = ask[i] /\ (i \in tracked' <=> i \in tracked)
        /\ tracked' \subseteq Ids /\ UNCHANGED attempt
    BY <1>6, Kinds DEF HandOver, Typable
  <2>2. id \in Asked /\ id \notin Asked'
    BY <1>6, Kinds DEF HandOver, Typable, Asked, Pressing, AskRecords
  <2>3. Release
    BY <1>6 DEF HandOver, Typable
  <2>. QED
    BY <2>1, <2>2, <2>3, OneAsk DEF Less
<1>7. ASSUME NEW id \in Ids, HandFails(id), Live(id) PROVE Goal
  <2>1. /\ \A i \in Ids \ {id} : ask'[i] = ask[i] /\ (i \in tracked' <=> i \in tracked)
        /\ tracked' \subseteq Ids /\ UNCHANGED attempt
    BY <1>7, Kinds DEF HandFails
  <2>2. id \in Asked /\ id \notin Asked'
    BY <1>7, Kinds DEF HandFails, Asked, Pressing, AskRecords
  <2>3. Release
    BY <1>7 DEF HandFails
  <2>. QED
    BY <2>1, <2>2, <2>3, OneAsk DEF Less
<1>8. ASSUME NEW id \in Ids, HandFails(id), ~Live(id) PROVE Goal
  <2>1. /\ \A i \in Ids \ {id} : ask'[i] = ask[i] /\ (i \in tracked' <=> i \in tracked)
        /\ tracked' \subseteq Ids /\ UNCHANGED attempt
    BY <1>8, Kinds DEF HandFails
  <2>2. /\ id \in Asked' <=> id \in Asked
        /\ ask'[id].att = ask[id].att \/ id \notin Asked'
    BY <1>8, Kinds DEF HandFails, Asked, Pressing, AskRecords
  <2>3. Asked' = Asked
    BY <2>1, <2>2, OneAsk DEF CountTrue
  <2>. QED
    BY <1>8, <2>1, <2>2, <2>3, OneAsk DEF HandFails, Same, CountTrue
<1>9. ASSUME NEW id \in Ids, HandNothing(id) PROVE Goal
  <2>1. /\ \A i \in Ids \ {id} : ask'[i] = ask[i] /\ (i \in tracked' <=> i \in tracked)
        /\ tracked' \subseteq Ids /\ UNCHANGED attempt
    BY <1>9, Kinds DEF HandNothing
  <2>2. /\ id \in Asked' <=> id \in Asked
        /\ ask'[id].att = ask[id].att \/ id \notin Asked'
    BY <1>9, Kinds DEF HandNothing, Asked, Pressing, AskRecords
  <2>3. Asked' = Asked
    BY <2>1, <2>2, OneAsk DEF CountTrue
  <2>. QED
    BY <1>9, <2>1, <2>2, <2>3, OneAsk DEF HandNothing, Same, CountTrue
<1>10. ASSUME NEW id \in Ids, Claim(id), ask'[id].pc = "claimed" PROVE Goal
  <2>1. /\ \A i \in Ids \ {id} : ask'[i] = ask[i] /\ (i \in tracked' <=> i \in tracked)
        /\ tracked' \subseteq Ids /\ UNCHANGED attempt
    BY <1>10, Kinds DEF Claim
  <2>2. /\ id \in Asked' <=> id \in Asked
        /\ ask'[id].att = ask[id].att \/ id \notin Asked'
    BY <1>10, Kinds DEF Claim, Asked, Pressing, AskRecords
  <2>3. Asked' = Asked
    BY <2>1, <2>2, OneAsk DEF CountTrue
  <2>4. UNCHANGED <<count, status, ended>>
    BY <1>10, Kinds DEF Claim, AskRecords
  <2>. QED
    BY <1>10, <2>1, <2>2, <2>3, <2>4, OneAsk DEF Same, CountTrue
<1>11. ASSUME NEW id \in Ids, Claim(id), ask'[id].pc = "over", Live(id), id \in tracked
       PROVE  Goal
  <2>1. /\ \A i \in Ids \ {id} : ask'[i] = ask[i] /\ (i \in tracked' <=> i \in tracked)
        /\ tracked' \subseteq Ids /\ UNCHANGED attempt
    BY <1>11, Kinds DEF Claim
  <2>2. id \in Asked /\ id \notin Asked'
    BY <1>11, Kinds DEF Claim, Asked, Pressing, AskRecords
  <2>3. Release
    BY <1>11, Kinds DEF Claim, AskRecords
  <2>. QED
    BY <2>1, <2>2, <2>3, OneAsk DEF Less
<1>12. ASSUME NEW id \in Ids, Claim(id), ~(Live(id) /\ id \in tracked)
       PROVE  Goal
  <2>1. /\ \A i \in Ids \ {id} : ask'[i] = ask[i] /\ (i \in tracked' <=> i \in tracked)
        /\ tracked' \subseteq Ids /\ UNCHANGED attempt
    BY <1>12, Kinds DEF Claim
  <2>2. /\ id \in Asked' <=> id \in Asked
        /\ ask'[id].att = ask[id].att \/ id \notin Asked'
    BY <1>12, Kinds DEF Claim, Asked, Pressing, AskRecords
  <2>3. Asked' = Asked
    BY <2>1, <2>2, OneAsk DEF CountTrue
  <2>. QED
    BY <1>12, <2>1, <2>2, <2>3, OneAsk DEF Claim, Same, CountTrue
<1>13. ASSUME NEW id \in Ids, RecordKeys(id) PROVE Goal
  <2>1. /\ \A i \in Ids \ {id} : ask'[i] = ask[i] /\ (i \in tracked' <=> i \in tracked)
        /\ tracked' \subseteq Ids /\ UNCHANGED attempt
    BY <1>13, Kinds DEF RecordKeys
  <2>2. /\ id \in Asked' <=> id \in Asked
        /\ ask'[id].att = ask[id].att \/ id \notin Asked'
    BY <1>13, Kinds DEF RecordKeys, Asked, Pressing, AskRecords
  <2>3. Asked' = Asked
    BY <2>1, <2>2, OneAsk DEF CountTrue
  <2>. QED
    BY <1>13, <2>1, <2>2, <2>3, OneAsk DEF RecordKeys, Same, CountTrue
<1>14. ASSUME NEW id \in Ids, PressKey(id) PROVE Goal
  <2>1. /\ \A i \in Ids \ {id} : ask'[i] = ask[i] /\ (i \in tracked' <=> i \in tracked)
        /\ tracked' \subseteq Ids /\ UNCHANGED attempt
    BY <1>14, Kinds DEF PressKey
  <2>2. /\ id \in Asked' <=> id \in Asked
        /\ ask'[id].att = ask[id].att \/ id \notin Asked'
    BY <1>14, Kinds DEF PressKey, Asked, Pressing, AskRecords
  <2>3. Asked' = Asked
    BY <2>1, <2>2, OneAsk DEF CountTrue
  <2>. QED
    BY <1>14, <2>1, <2>2, <2>3, OneAsk DEF PressKey, Same, CountTrue
<1>15. ASSUME NEW id \in Ids, KeysStop(id) PROVE Goal
  <2>1. /\ \A i \in Ids \ {id} : ask'[i] = ask[i] /\ (i \in tracked' <=> i \in tracked)
        /\ tracked' \subseteq Ids /\ UNCHANGED attempt
    BY <1>15, Kinds DEF KeysStop
  <2>2. id \in Asked /\ id \notin Asked'
    BY <1>15, Kinds DEF KeysStop, Asked, Pressing, AskRecords, PressInv, Held
  <2>3. Release
    BY <1>15 DEF KeysStop
  <2>. QED
    BY <2>1, <2>2, <2>3, OneAsk DEF Less
<1>16. ASSUME NEW id \in Ids, KeysDone(id) PROVE Goal
  <2>1. /\ \A i \in Ids \ {id} : ask'[i] = ask[i] /\ (i \in tracked' <=> i \in tracked)
        /\ tracked' \subseteq Ids /\ UNCHANGED attempt
    BY <1>16, Kinds DEF KeysDone
  <2>2. id \in Asked /\ id \notin Asked'
    BY <1>16, Kinds DEF KeysDone, Asked, Pressing, AskRecords, PressInv, Held
  <2>3. Release
    BY <1>16 DEF KeysDone
  <2>. QED
    BY <2>1, <2>2, <2>3, OneAsk DEF Less
<1>17. ASSUME NEW id \in Ids, WithdrawOne(id) PROVE Goal
  <2>1. /\ \A i \in Ids \ {id} : ask'[i] = ask[i] /\ (i \in tracked' <=> i \in tracked)
        /\ tracked' \subseteq Ids /\ UNCHANGED attempt
    BY <1>17, Kinds DEF WithdrawOne, Left, Unasked
  <2>2. /\ id \in Asked' <=> id \in Asked
        /\ ask'[id].att = ask[id].att \/ id \notin Asked'
    BY <1>17, Kinds DEF WithdrawOne, Left, Unasked, Asked, Pressing, AskRecords
  <2>3. Asked' = Asked
    BY <2>1, <2>2, OneAsk DEF CountTrue
  <2>. QED
    BY <1>17, <2>1, <2>2, <2>3, OneAsk DEF WithdrawOne, Left, Unasked, Same, CountTrue
<1>18. ASSUME NEW id \in Ids, NEW a \in Agents, Ask(id, a) PROVE Goal
  <2>1. /\ \A i \in Ids \ {id} : ask'[i] = ask[i] /\ (i \in tracked' <=> i \in tracked)
        /\ tracked' \subseteq Ids /\ UNCHANGED attempt
    BY <1>18, Kinds DEF Ask, Fresh
  <2>2. /\ id \in Asked' <=> id \in Asked
        /\ ask'[id].att = ask[id].att \/ id \notin Asked'
    BY <1>18, Kinds DEF Ask, Fresh, Asked, Pressing, AskRecords, NewInv, Held
  <2>3. Asked' = Asked
    BY <2>1, <2>2, OneAsk DEF CountTrue
  <2>. QED
    BY <1>18, <2>1, <2>2, <2>3, OneAsk DEF Ask, Fresh, Same, CountTrue
<1>19. ASSUME NEW id \in Ids, NEW a \in Agents, Raise(id, a) PROVE Goal
  <2>1. /\ \A i \in Ids \ {id} : ask'[i] = ask[i] /\ (i \in tracked' <=> i \in tracked)
        /\ tracked' \subseteq Ids /\ UNCHANGED attempt
    BY <1>19, Kinds DEF Raise, Opened, Fresh
  <2>2. id \notin Asked /\ id \in Asked' /\ ask'[id].att = attempt
    BY <1>19, Kinds DEF Raise, Opened, Fresh, Asked, Pressing, NewInv, Held, AskRecords
  <2>3. Opened
    BY <1>19 DEF Raise
  <2>. QED
    BY <2>1, <2>2, <2>3, OneAsk DEF More
<1>20. ASSUME NEW id \in Ids, Take(id) PROVE Goal
  <2>1. /\ \A i \in Ids \ {id} : ask'[i] = ask[i] /\ (i \in tracked' <=> i \in tracked)
        /\ tracked' \subseteq Ids /\ UNCHANGED attempt
    BY <1>20, Kinds DEF Take
  <2>2. /\ id \in Asked' <=> id \in Asked
        /\ ask'[id].att = ask[id].att \/ id \notin Asked'
    BY <1>20, Kinds DEF Take, Asked, Pressing, AskRecords
  <2>3. Asked' = Asked
    BY <2>1, <2>2, OneAsk DEF CountTrue
  <2>. QED
    BY <1>20, <2>1, <2>2, <2>3, OneAsk DEF Take, Same, CountTrue
<1>21. ASSUME NEW a \in Agents, Unblocked(a) PROVE Goal
  <2>1. CASE UNCHANGED <<ask, table, status, gone, routed>>
    <3>1. UNCHANGED <<ask, tracked, count, status, ended, attempt>>
      BY <1>21, <2>1 DEF Unblocked
    <3>2. Asked' = Asked
      BY <3>1 DEF Asked, Pressing
    <3>. QED
      BY <3>1, <3>2 DEF Same, CountTrue
  <2>2. ASSUME NEW id \in DialogOf(a), Live(id),
               ask' = [ask EXCEPT ![id].saved = "withdrawn"], tracked' = tracked \ {id},
               Release
        PROVE  Goal
    <3>1. id \in Ids /\ id \in tracked /\ UNCHANGED attempt
      BY <1>21, <2>2, Kinds DEF Unblocked, DialogOf
    <3>2. /\ \A i \in Ids \ {id} : ask'[i] = ask[i] /\ (i \in tracked' <=> i \in tracked)
          /\ tracked' \subseteq Ids
      BY <2>2, <3>1, Kinds
    <3>3. id \in Asked /\ id \notin Asked'
      BY <2>2, <3>1, Kinds DEF Asked, Pressing, PressInv, Held, AskRecords
    <3>. QED
      BY <2>2, <3>1, <3>2, <3>3, OneAsk DEF Less
  <2>. QED
    BY <1>21, <2>1, <2>2 DEF Unblocked
<1>22. CASE StepEnds
  <2>1. leaving = {} /\ tracked' = {} /\ ended /\ ended' /\ UNCHANGED <<ask, attempt>>
    BY <1>22, Leaving DEF StepEnds, FlowInv
  <2>2. \A i \in Ids : ~Pressing(i) /\ ~Pressing(i)'
    BY <2>1 DEF PressInv, Pressing
  <2>3. Asked' = {} /\ Asked = tracked
    BY <2>1, <2>2 DEF Asked
  <2>4. count' = 0 \/ (Asked = {} /\ UNCHANGED count)
    BY <1>22, <2>3 DEF StepEnds, Mine, CountTrue
  <2>. QED
    BY <2>1, <2>3, <2>4 DEF Drop
<1>23. CASE Quit \/ Crash
  <2>1. Down
    BY <1>23 DEF Quit, Crash
  <2>2. \A i \in Ids : ask'[i].pc \in {"unused", "over"}
    BY <2>1 DEF Down
  <2>3. Asked' = {} /\ count' = 0 /\ ended'
    BY <2>1, <2>2 DEF Down, Asked, Pressing
  <2>. QED
    BY <2>3 DEF Drop
<1>24. CASE Resume
  <2>1. UNCHANGED <<tracked, count, attempt, ended>> /\ ended
        /\ \A i \in Ids : ask'[i].pc = ask[i].pc /\ ask'[i].att = ask[i].att
    BY <1>24, Kinds DEF Resume, FlowInv, AskRecords
  <2>2. Asked' = Asked
    BY <2>1, Kinds DEF Asked, Pressing
  <2>. QED
    BY <2>1, <2>2, Kinds DEF Same, CountTrue, Asked
<1>25. CASE Quiet
  <2>1. Asked' = Asked
    BY <1>25 DEF Quiet, Asked, Pressing
  <2>2. attempt' = attempt \/ Asked = {}
    BY <1>25 DEF Quiet, FlowInv, PressInv, Asked
  <2>. QED
    BY <1>25, <2>1, <2>2 DEF Quiet, Same, CountTrue
<1>26. ASSUME NEW id \in Ids, Claim(id) PROVE Goal
  <2>1. ask[id] \in AskRecords
    BY Kinds
  <2>2. ask'[id].pc \in {"claimed", "over"}
    BY <1>26, <2>1, Kinds DEF Claim, AskRecords
  <2>. QED
    BY <1>26, <1>10, <1>11, <1>12, <2>2
<1> HIDE DEF AskedMoves, record, session, flow, table, channel, past
<1>. QED
  BY <1>1, <1>2, <1>3, <1>4, <1>5, <1>6, <1>7, <1>8, <1>9, <1>26, <1>13, <1>14, <1>15,
     <1>16, <1>17, <1>18, <1>19, <1>20, <1>21, <1>22, <1>23, <1>24, <1>25, Touching
  DEF Touch, Press

\* Every step keeps the count of open asks, and a step that waits waiting for something.
LEMMA CountStep ==
  ASSUME TypeOK, CountTrue, FlowInv, NewInv, SavedInv, PressInv, WaitsForSomething,
         [Next]_vars
  PROVE  CountTrue' /\ WaitsForSomething'
<1>1. AskedMoves /\ \A i \in Asked' : ask'[i].att = attempt'
  BY AskedStep
<1>2. CASE Same
  BY <1>1, <1>2 DEF Same, CountTrue, WaitsForSomething
<1>3. CASE More
  <2>1. PICK id \in Ids \ Asked : Asked' = Asked \cup {id} /\ Opened
    BY <1>3 DEF More
  <2>. QED
    BY <1>1, <2>1, Opening DEF CountTrue, WaitsForSomething
<1>4. CASE Less
  <2>1. PICK id \in Asked : Asked' = Asked \ {id} /\ Release
    BY <1>4 DEF Less
  <2>. QED
    BY <1>1, <2>1, Closing DEF CountTrue, WaitsForSomething
<1>5. CASE Drop
  BY <1>1, <1>5, FS_EmptySet DEF Drop, CountTrue, WaitsForSomething
<1>. QED
  BY <1>1, <1>2, <1>3, <1>4, <1>5 DEF AskedMoves

\* Every step keeps the pressing of keys to the attempt's session, while it lives.
LEMMA PressStep ==
  ASSUME TypeOK, CountTrue, FlowInv, NewInv, RouteInv, SavedInv, PressInv, [Next]_vars
  PROVE  PressInv'
<1> USE DEF PressInv, Pressing, Held, record, session, flow, table, channel, past
<1>1. ASSUME NEW id \in Ids, Admit(id) PROVE PressInv'
  BY <1>1, Kinds DEF Admit, Opened, AskRecords
<1>2. ASSUME NEW id \in Ids, TurnAway(id) PROVE PressInv'
  BY <1>2, Kinds DEF TurnAway, Unasked, AskRecords
<1>3. ASSUME NEW id \in Ids, Route(id) PROVE PressInv'
  BY <1>3, Kinds DEF Route, AskRecords
<1>4. ASSUME NEW id \in Ids, Deliver(id) PROVE PressInv'
  BY <1>4, Kinds DEF Deliver, Answerable, AskRecords
<1>5. ASSUME NEW id \in Ids, Given(id) PROVE PressInv'
  BY <1>5, Kinds DEF Given, AskRecords
<1>6. ASSUME NEW id \in Ids, HandOver(id) PROVE PressInv'
  BY <1>6, Kinds DEF HandOver, Release, AskRecords
<1>7. ASSUME NEW id \in Ids, HandFails(id) PROVE PressInv'
  BY <1>7, Kinds DEF HandFails, Release, AskRecords
<1>8. ASSUME NEW id \in Ids, HandNothing(id) PROVE PressInv'
  BY <1>8, Kinds DEF HandNothing, AskRecords
<1>9. ASSUME NEW id \in Ids, Press(id) PROVE PressInv'
  BY <1>9, Kinds DEF Press, Claim, RecordKeys, PressKey, KeysStop, KeysDone, Release, AskRecords, Live, RouteInv, SavedInv
<1>10. CASE StepEnds
  BY <1>10, Leaving, Kinds DEF StepEnds, Mine, AskRecords
<1>11. ASSUME NEW id \in Ids, WithdrawOne(id) PROVE PressInv'
  BY <1>11, Kinds DEF WithdrawOne, Left, Unasked, AskRecords
<1>12. ASSUME NEW id \in Ids, NEW a \in Agents, Ask(id, a) PROVE PressInv'
  BY <1>12, Kinds DEF Ask, Fresh, AskRecords
<1>13. ASSUME NEW id \in Ids, NEW a \in Agents, Raise(id, a) PROVE PressInv'
  BY <1>13, Kinds DEF Raise, Opened, Fresh, NewInv, AskRecords
<1>14. ASSUME NEW a \in Agents, Unblocked(a) PROVE PressInv'
  <2>1. CASE UNCHANGED <<ask, table, status, gone, routed>>
    BY <1>14, <2>1 DEF Unblocked
  <2>2. ASSUME NEW id \in DialogOf(a), Live(id),
               ask' = [ask EXCEPT ![id].saved = "withdrawn"], tracked' = tracked \ {id},
               gone' = gone \cup {id}, routed' = routed \ {id}, Release,
               UNCHANGED answered
        PROVE  PressInv'
    BY <1>14, <2>2, Kinds DEF Unblocked, DialogOf, AskRecords
  <2>. QED
    BY <1>14, <2>1, <2>2 DEF Unblocked
<1>15. ASSUME NEW id \in Ids, Take(id) PROVE PressInv'
  BY <1>15, Kinds DEF Take, AskRecords
<1>16. CASE Quit
  BY <1>16, Kinds DEF Quit, Down, AskRecords
<1>17. CASE Crash
  BY <1>17, Kinds DEF Crash, Down, AskRecords
<1>18. CASE Resume
  BY <1>18, Kinds DEF Resume, FlowInv, AskRecords
<1>19. CASE Quiet
  BY <1>19 DEF Quiet, Locked, FlowInv
<1> HIDE DEF PressInv, Pressing, Held, record, session, flow, table, channel, past
<1>. QED
  BY <1>1, <1>2, <1>3, <1>4, <1>5, <1>6, <1>7, <1>8, <1>9, <1>10, <1>11, <1>12,
     <1>13, <1>14, <1>15, <1>16, <1>17, <1>18, <1>19, Touching
  DEF Touch

-----------------------------------------------------------------------------
(* Types.                                                                    *)

\* The step and the places of its driver.
CtlTypes ==
  /\ attempt \in 1..MaxAttempts /\ link \in 1..attempt
  /\ status \in {"queued", "running", "waiting", "ok", "failed"}
  /\ intent \subseteq 1..attempt /\ committed \subseteq intent
  /\ live \in BOOLEAN /\ ended \in BOOLEAN
  /\ runner \in {"none", "spawn", "started", "wait", "done",
                 "closing", "commit", "record", "out"}
  /\ out \in {"none", "ok", "failed", "backstop"}
  /\ loop \in {"select", "halt", "late", "halted", "stopping", "leaving", "broken",
               "quitting", "idle", "dead"}
  /\ crashes \in 0..MaxCrashes

\* Those who hold asks.
HeldTypes ==
  /\ tracked \subseteq Ids /\ answered \subseteq Held /\ leaving \subseteq Ids \ tracked
  /\ server \subseteq Ids /\ routed \subseteq Ids \ gone /\ gone \subseteq Ids
  /\ lost \subseteq Ids

\* The parts of the type invariant.
LEMMA TypeParts ==
  TypeOK <=> /\ CtlTypes /\ HeldTypes /\ count \in 0..Cardinality(Ids)
             /\ ask \in [Ids -> AskRecords] /\ agent \in [Agents -> AgentRecords]
  BY DEF TypeOK, CtlTypes, HeldTypes, Held, AskRecords, AgentRecords

\* The numbers of attempts are numbers that asks may have.
LEMMA Numbers == TypeOK => attempt \in 0..attempt /\ link \in 0..attempt /\ attempt >= 1
  BY DEF TypeOK

\* The types of the step, its runner and the loop.
LEMMA CtlTypeStep ==
  ASSUME CtlTypes, CommitInv, FlowInv, [Next]_vars PROVE CtlTypes'
<1> USE DEF CtlTypes, record, session, flow, table, channel, past
<1>1. ASSUME NEW id \in Ids, Admit(id) PROVE CtlTypes'
  BY <1>1 DEF Admit, Opened
<1>2. ASSUME NEW id \in Ids, TurnAway(id) PROVE CtlTypes'
  BY <1>2 DEF TurnAway, Unasked
<1>3. ASSUME NEW id \in Ids, Route(id) PROVE CtlTypes'
  BY <1>3 DEF Route
<1>4. ASSUME NEW id \in Ids, Deliver(id) PROVE CtlTypes'
  BY <1>4 DEF Deliver, Answerable
<1>5. ASSUME NEW id \in Ids, Given(id) PROVE CtlTypes'
  BY <1>5 DEF Given
<1>6. ASSUME NEW id \in Ids, HandOver(id) PROVE CtlTypes'
  BY <1>6 DEF HandOver, Release
<1>7. ASSUME NEW id \in Ids, HandFails(id) PROVE CtlTypes'
  BY <1>7 DEF HandFails, Release
<1>8. ASSUME NEW id \in Ids, HandNothing(id) PROVE CtlTypes'
  BY <1>8 DEF HandNothing
<1>9. ASSUME NEW id \in Ids, Press(id) PROVE CtlTypes'
  BY <1>9 DEF Press, Claim, RecordKeys, PressKey, KeysStop, KeysDone, Release
<1>10. CASE Spawned
  BY <1>10 DEF Spawned
<1>11. CASE Started
  BY <1>11 DEF Started
<1>12. CASE Judge
  BY <1>12 DEF Judge
<1>13. CASE FinishEnd
  BY <1>13 DEF FinishEnd
<1>14. CASE FinishCheck
  <2>1. UNCHANGED <<status, committed, session, loop, past>>
    BY <1>14 DEF FinishCheck
  <2>2. /\ intent' \in {intent, intent \cup {attempt}}
        /\ out' \in {out, "ok", "failed"} /\ runner' \in {"out", "commit", "record"}
    BY <1>14 DEF FinishCheck, Terminal
  <2>3. intent' \subseteq 1..attempt /\ committed \subseteq intent'
    BY <2>2
  <2>. QED
    BY <2>1, <2>2, <2>3
<1>15. CASE FinishCommit
  BY <1>15 DEF FinishCommit, CommitInv, Uncommitted
<1>16. CASE FinishRecord
  BY <1>16 DEF FinishRecord, Terminal
<1>17. CASE HaltRecord
  BY <1>17 DEF HaltRecord
<1>18. CASE StepEnds
  BY <1>18 DEF StepEnds, Mine
<1>19. CASE StepOver
  BY <1>19 DEF StepOver
<1>20. ASSUME NEW id \in Ids, WithdrawOne(id) PROVE CtlTypes'
  BY <1>20 DEF WithdrawOne, Left, Unasked
<1>21. ASSUME NEW a \in Agents, ReviewerStarts(a) PROVE CtlTypes'
  BY <1>21 DEF ReviewerStarts
<1>22. ASSUME NEW a \in Agents, TurnEnds(a) PROVE CtlTypes'
  BY <1>22 DEF TurnEnds
<1>23. ASSUME NEW a \in Agents, Blocks(a) PROVE CtlTypes'
  BY <1>23 DEF Blocks
<1>24. ASSUME NEW a \in Agents, Unblocks(a) PROVE CtlTypes'
  BY <1>24 DEF Unblocks
<1>25. ASSUME NEW a \in Agents, Dies(a) PROVE CtlTypes'
  BY <1>25 DEF Dies
<1>26. ASSUME NEW id \in Ids, NEW a \in Agents, Ask(id, a) PROVE CtlTypes'
  BY <1>26 DEF Ask
<1>27. ASSUME NEW id \in Ids, NEW a \in Agents, Raise(id, a) PROVE CtlTypes'
  BY <1>27 DEF Raise, Opened
<1>28. ASSUME NEW a \in Agents, Unblocked(a) PROVE CtlTypes'
  BY <1>28 DEF Unblocked, Release
<1>29. ASSUME NEW id \in Ids, Take(id) PROVE CtlTypes'
  BY <1>29 DEF Take
<1>30. CASE Halt
  BY <1>30 DEF Halt
<1>31. CASE StopStep
  BY <1>31 DEF StopStep
<1>32. CASE Attempt
  <2>1. /\ attempt' = attempt + 1 /\ link' \in {link, attempt + 1} /\ status' = "queued"
        /\ live' = FALSE /\ ended' = FALSE /\ runner' = "spawn" /\ out' = "none"
        /\ loop' = "select" /\ UNCHANGED <<intent, committed, crashes>>
    BY <1>32 DEF Attempt
  <2>2. /\ attempt' \in 1..MaxAttempts
        /\ link' \in 1..attempt' /\ intent' \subseteq 1..attempt'
    BY <1>32, <2>1, BoundsAssumption DEF Attempt
  <2>. QED
    BY <2>1, <2>2
<1>33. CASE Quit
  BY <1>33 DEF Quit, Down
<1>34. CASE Crash
  <2>1. /\ UNCHANGED <<record, attempt, link>> /\ live' = FALSE /\ ended' = TRUE
        /\ runner' = "none" /\ out' = "none" /\ loop' = "dead"
    BY <1>34 DEF Crash, Down
  <2>2. crashes' \in 0..MaxCrashes
    BY <1>34, BoundsAssumption DEF Crash
  <2>. QED
    BY <2>1, <2>2
<1>35. CASE Resume
  BY <1>35 DEF Resume, Terminal
<1>36. CASE UNCHANGED vars
  BY <1>36 DEF vars
<1>37. ASSUME NEW a \in Agents, Look(a) \/ NotRaised(a) PROVE CtlTypes'
  BY <1>37 DEF Look, NotRaised
<1>. QED
  BY <1>1, <1>2, <1>3, <1>4, <1>5, <1>6, <1>7, <1>8, <1>9, <1>10, <1>11, <1>12,
     <1>13, <1>14, <1>15, <1>16, <1>17, <1>18, <1>19, <1>20, <1>21, <1>22, <1>23,
     <1>24, <1>25, <1>26, <1>27, <1>28, <1>29, <1>30, <1>31, <1>32, <1>33, <1>34,
     <1>35, <1>36, <1>37
  DEF Next, Thread, Runner, Loop, World

\* The asks that end with their driver keep their types.
LEMMA DownType ==
  ASSUME TypeOK, Down PROVE ask' \in [Ids -> AskRecords']
<1>1. AskRecords' = AskRecords
  BY DEF Down, AskRecords
<1>2. \A id \in Ids : [ask[id] EXCEPT !.pc = "over"] \in AskRecords
  BY Kinds DEF AskRecords
<1>. QED
  BY <1>1, <1>2, Kinds DEF Down

\* The types of the asks.
LEMMA AskTypeStep ==
  ASSUME TypeOK, [Next]_vars PROVE ask' \in [Ids -> AskRecords']
<1> USE DEF record, session, flow, table, channel, past
<1>1. ASSUME NEW id \in Ids, Admit(id) PROVE ask' \in [Ids -> AskRecords']
  <2>0. ask[id] \in AskRecords /\ attempt \in 0..attempt
    BY Kinds, Numbers
  <2>1. [ask[id] EXCEPT !.pc = "route", !.att = attempt,
                       !.saved = "open"] \in AskRecords
    BY <2>0 DEF AskRecords
  <2>2. /\ ask' = [ask EXCEPT ![id] = [ask[id] EXCEPT !.pc = "route", !.att = attempt,
                       !.saved = "open"]]
        /\ attempt' = attempt
    BY <1>1 DEF Admit
  <2>. QED
    BY <2>1, <2>2, Kinds DEF AskRecords
<1>2. ASSUME NEW id \in Ids, TurnAway(id) PROVE ask' \in [Ids -> AskRecords']
  <2>0. ask[id] \in AskRecords /\ attempt \in 0..attempt
    BY Kinds, Numbers
  <2>1. [ask[id] EXCEPT !.pc = "over", !.att = attempt,
                       !.saved = "withdrawn"] \in AskRecords
    BY <2>0 DEF AskRecords
  <2>2. /\ ask' = [ask EXCEPT ![id] = [ask[id] EXCEPT !.pc = "over", !.att = attempt,
                       !.saved = "withdrawn"]]
        /\ attempt' = attempt
    BY <1>2 DEF TurnAway
  <2>. QED
    BY <2>1, <2>2, Kinds DEF AskRecords
<1>3. ASSUME NEW id \in Ids, Route(id) PROVE ask' \in [Ids -> AskRecords']
  BY <1>3, Kinds DEF Route, AskRecords
<1>4. ASSUME NEW id \in Ids, Deliver(id) PROVE ask' \in [Ids -> AskRecords']
  BY <1>4, Kinds DEF Deliver, Answerable, AskRecords
<1>5. ASSUME NEW id \in Ids, Given(id) PROVE ask' \in [Ids -> AskRecords']
  BY <1>5, Kinds DEF Given, AskRecords
<1>6. ASSUME NEW id \in Ids, HandOver(id) PROVE ask' \in [Ids -> AskRecords']
  <2>0. ask[id] \in AskRecords /\ attempt \in 0..attempt
    BY Kinds, Numbers
  <2>1. [ask[id] EXCEPT !.pc = "over", !.told = TRUE] \in AskRecords
    BY <2>0 DEF AskRecords
  <2>2. /\ ask' = [ask EXCEPT ![id] = [ask[id] EXCEPT !.pc = "over", !.told = TRUE]]
        /\ attempt' = attempt
    BY <1>6 DEF HandOver
  <2>. QED
    BY <2>1, <2>2, Kinds DEF AskRecords
<1>7. ASSUME NEW id \in Ids, HandFails(id) PROVE ask' \in [Ids -> AskRecords']
  BY <1>7, Kinds DEF HandFails, Release, AskRecords
<1>8. ASSUME NEW id \in Ids, HandNothing(id) PROVE ask' \in [Ids -> AskRecords']
  BY <1>8, Kinds DEF HandNothing, AskRecords
<1>9. ASSUME NEW id \in Ids, Press(id) PROVE ask' \in [Ids -> AskRecords']
  BY <1>9, Kinds DEF Press, Claim, RecordKeys, PressKey, KeysStop, KeysDone, Release, AskRecords
<1>10. CASE StepEnds
  BY <1>10, Kinds DEF StepEnds, Mine, AskRecords
<1>11. ASSUME NEW id \in Ids, WithdrawOne(id) PROVE ask' \in [Ids -> AskRecords']
  BY <1>11, Kinds DEF WithdrawOne, Left, Unasked, AskRecords
<1>12. ASSUME NEW id \in Ids, NEW a \in Agents, Ask(id, a)
       PROVE  ask' \in [Ids -> AskRecords']
  <2> DEFINE url == IF a = Worker THEN link ELSE attempt
             r == [ask[id] EXCEPT !.pc = "asking", !.kind = "question", !.by = a,
                                  !.url = url]
  <2>1. url \in 0..attempt
    BY Numbers
  <2> HIDE DEF url
  <2>0. ask[id] \in AskRecords
    BY Kinds
  <2>2. r \in AskRecords
    BY <2>0, <2>1 DEF AskRecords
  <2>3. ask' = [ask EXCEPT ![id] = r] /\ attempt' = attempt
    BY <1>12 DEF Ask, url
  <2> HIDE DEF r
  <2>. QED
    BY <2>2, <2>3, Kinds DEF AskRecords
<1>13. ASSUME NEW id \in Ids, NEW a \in Agents, Raise(id, a)
       PROVE  ask' \in [Ids -> AskRecords']
  <2> DEFINE r == [ask[id] EXCEPT !.pc = "route", !.kind = "dialog", !.by = a,
                                    !.att = attempt, !.saved = "open",
                                    !.screen = agent[a].look.screen, !.seq = agent[a].look.seq]
  <2>1. agent[a].look.screen \in Screens \cup {None} /\ agent[a].look.seq \in 0..MaxBlocks
    BY Kinds DEF AgentRecords
  <2>2. ask[id] \in AskRecords /\ attempt \in 0..attempt
    BY Kinds, Numbers
  <2>3. ask' = [ask EXCEPT ![id] = r] /\ attempt' = attempt
    BY <1>13 DEF Raise
  <2>4. r \in AskRecords
    BY <2>1, <2>2 DEF AskRecords
  <2> HIDE DEF r
  <2>. QED
    BY <2>3, <2>4, Kinds DEF AskRecords
<1>14. ASSUME NEW a \in Agents, Unblocked(a) PROVE ask' \in [Ids -> AskRecords']
  <2>1. CASE UNCHANGED <<ask, table, status, gone, routed>>
    BY <1>14, <2>1, Kinds DEF Unblocked, AskRecords
  <2>2. ASSUME NEW id \in DialogOf(a), Live(id),
               ask' = [ask EXCEPT ![id].saved = "withdrawn"], tracked' = tracked \ {id},
               gone' = gone \cup {id}, routed' = routed \ {id}, Release,
               UNCHANGED answered
        PROVE  ask' \in [Ids -> AskRecords']
    BY <1>14, <2>2, Kinds DEF Unblocked, DialogOf, AskRecords
  <2>. QED
    BY <1>14, <2>1, <2>2 DEF Unblocked
<1>15. ASSUME NEW id \in Ids, Take(id) PROVE ask' \in [Ids -> AskRecords']
  BY <1>15, Kinds DEF Take, AskRecords
<1>16. CASE Quit
  BY <1>16, DownType DEF Quit
<1>17. CASE Crash
  BY <1>17, DownType DEF Crash
<1>18. CASE Resume
  BY <1>18, Kinds DEF Resume, AskRecords
<1>19. CASE Quiet
  BY <1>19, Kinds DEF Quiet, AskRecords, TypeOK
<1> HIDE DEF record, session, flow, table, channel, past
<1>. QED
  BY <1>1, <1>2, <1>3, <1>4, <1>5, <1>6, <1>7, <1>8, <1>9, <1>10, <1>11, <1>12,
     <1>13, <1>14, <1>15, <1>16, <1>17, <1>18, <1>19, Touching
  DEF Touch

\* The types of those who hold asks.
LEMMA HeldTypeStep ==
  ASSUME TypeOK, CountTrue, FlowInv, HeldTypes, NewInv, RouteInv, SavedInv, [Next]_vars
  PROVE  HeldTypes'
<1> USE DEF HeldTypes, Held, record, session, flow, table, channel, past
<1>1. ASSUME NEW id \in Ids, Admit(id) PROVE HeldTypes'
  BY <1>1 DEF Admit, Opened, NewInv
<1>2. ASSUME NEW id \in Ids, TurnAway(id) PROVE HeldTypes'
  BY <1>2 DEF TurnAway, Unasked, NewInv
<1>3. ASSUME NEW id \in Ids, Route(id) PROVE HeldTypes'
  BY <1>3 DEF Route, Forgotten
<1>4. ASSUME NEW id \in Ids, Deliver(id) PROVE HeldTypes'
  BY <1>4 DEF Deliver, Answerable
<1>5. ASSUME NEW id \in Ids, Given(id) PROVE HeldTypes'
  BY <1>5 DEF Given
<1>6. ASSUME NEW id \in Ids, HandOver(id) PROVE HeldTypes'
  BY <1>6 DEF HandOver, Release, Typable
<1>7. ASSUME NEW id \in Ids, HandFails(id) PROVE HeldTypes'
  BY <1>7 DEF HandFails, Release
<1>8. ASSUME NEW id \in Ids, HandNothing(id) PROVE HeldTypes'
  BY <1>8 DEF HandNothing
<1>9. ASSUME NEW id \in Ids, Press(id) PROVE HeldTypes'
  BY <1>9 DEF Press, Claim, RecordKeys, PressKey, KeysStop, KeysDone, Release, RouteInv, SavedInv
<1>10. CASE StepEnds
  BY <1>10, Leaving DEF StepEnds, Mine
<1>11. ASSUME NEW id \in Ids, WithdrawOne(id) PROVE HeldTypes'
  BY <1>11 DEF WithdrawOne, Left, Unasked
<1>12. ASSUME NEW id \in Ids, NEW a \in Agents, Ask(id, a) PROVE HeldTypes'
  BY <1>12 DEF Ask
<1>13. ASSUME NEW id \in Ids, NEW a \in Agents, Raise(id, a) PROVE HeldTypes'
  BY <1>13 DEF Raise, Opened, Fresh, NewInv
<1>14. ASSUME NEW a \in Agents, Unblocked(a) PROVE HeldTypes'
  <2>1. CASE UNCHANGED <<ask, table, status, gone, routed>>
    BY <1>14, <2>1 DEF Unblocked
  <2>2. ASSUME NEW id \in DialogOf(a), Live(id),
               ask' = [ask EXCEPT ![id].saved = "withdrawn"], tracked' = tracked \ {id},
               gone' = gone \cup {id}, routed' = routed \ {id}, Release,
               UNCHANGED answered
        PROVE  HeldTypes'
    BY <1>14, <2>2 DEF Unblocked, DialogOf, SavedInv
  <2>. QED
    BY <1>14, <2>1, <2>2 DEF Unblocked
<1>15. ASSUME NEW id \in Ids, Take(id) PROVE HeldTypes'
  BY <1>15 DEF Take
<1>16. CASE Quit
  BY <1>16 DEF Quit, Down
<1>17. CASE Crash
  BY <1>17 DEF Crash, Down
<1>18. CASE Resume
  BY <1>18 DEF Resume
<1>19. CASE Quiet
  BY <1>19 DEF Quiet
<1> HIDE DEF HeldTypes, Held, record, session, flow, table, channel, past
<1>. QED
  BY <1>1, <1>2, <1>3, <1>4, <1>5, <1>6, <1>7, <1>8, <1>9, <1>10, <1>11, <1>12,
     <1>13, <1>14, <1>15, <1>16, <1>17, <1>18, <1>19, Touching
  DEF Touch

\* An agent that is not there, or was just started.
LEMMA New == Absent \in AgentRecords /\ Working \in AgentRecords
  BY BoundsAssumption DEF Absent, Working, NoLook, AgentRecords

\* An agent for which no dialog is being raised any more.
LEMMA Unlooked == ASSUME NEW r \in AgentRecords
                  PROVE  [r EXCEPT !.look = NoLook] \in AgentRecords
  BY BoundsAssumption DEF NoLook, AgentRecords

\* The types of the agents.
LEMMA AgentTypeStep ==
  ASSUME TypeOK, [Next]_vars PROVE agent' \in [Agents -> AgentRecords]
<1> USE DEF record, session, flow, table, channel, past
<1>1. ASSUME NEW id \in Ids, Admit(id) PROVE agent' \in [Agents -> AgentRecords]
  BY <1>1, Kinds DEF Admit, Opened, AgentRecords
<1>2. ASSUME NEW id \in Ids, TurnAway(id) PROVE agent' \in [Agents -> AgentRecords]
  BY <1>2, Kinds DEF TurnAway, Unasked, AgentRecords
<1>3. ASSUME NEW id \in Ids, Route(id) PROVE agent' \in [Agents -> AgentRecords]
  BY <1>3, Kinds DEF Route, AgentRecords
<1>4. ASSUME NEW id \in Ids, Deliver(id) PROVE agent' \in [Agents -> AgentRecords]
  BY <1>4, Kinds DEF Deliver, Answerable, AgentRecords
<1>5. ASSUME NEW id \in Ids, Given(id) PROVE agent' \in [Agents -> AgentRecords]
  BY <1>5, Kinds DEF Given, AgentRecords
<1>6. ASSUME NEW id \in Ids, HandOver(id) PROVE agent' \in [Agents -> AgentRecords]
  <2> DEFINE r == [agent[ask[id].by] EXCEPT !.state = "working"]
  <2>1. ask[id].by \in Agents /\ agent[ask[id].by] \in AgentRecords
    BY Kinds DEF AskRecords
  <2>2. r \in AgentRecords
    BY <2>1 DEF AgentRecords
  <2>3. agent' = [agent EXCEPT ![ask[id].by] = r]
    BY <1>6 DEF HandOver
  <2> HIDE DEF r
  <2>. QED
    BY <2>1, <2>2, <2>3, Kinds
<1>7. ASSUME NEW id \in Ids, HandFails(id) PROVE agent' \in [Agents -> AgentRecords]
  BY <1>7, Kinds DEF HandFails, Release, AgentRecords
<1>8. ASSUME NEW id \in Ids, HandNothing(id) PROVE agent' \in [Agents -> AgentRecords]
  BY <1>8, Kinds DEF HandNothing, AgentRecords
<1>9. ASSUME NEW id \in Ids, Press(id) PROVE agent' \in [Agents -> AgentRecords]
  <2> DEFINE a == ask[id].by
  <2>1. /\ a \in Agents /\ agent[a] \in AgentRecords
        /\ ask[id].screen \in Screens \cup {None}
    BY Kinds DEF AskRecords
  <2>2. /\ [agent[a] EXCEPT !.last = ask[id].screen] \in AgentRecords
        /\ [agent[a] EXCEPT !.state = "working"] \in AgentRecords
    BY <2>1 DEF AgentRecords
  <2>3. \/ agent' = agent
        \/ agent' = [agent EXCEPT ![a] = [agent[a] EXCEPT !.last = ask[id].screen]]
        \/ agent' = [agent EXCEPT ![a] = [agent[a] EXCEPT !.state = "working"]]
    BY <1>9 DEF Press, Claim, RecordKeys, PressKey, KeysStop, KeysDone
  <2> HIDE DEF a
  <2>. QED
    BY <2>1, <2>2, <2>3, Kinds
<1>10. CASE Spawned
  BY <1>10, Kinds DEF Spawned, AgentRecords
<1>11. CASE Started
  BY <1>11, Kinds DEF Started, AgentRecords
<1>12. CASE Judge
  BY <1>12, Kinds DEF Judge, AgentRecords
<1>13. CASE FinishEnd
  BY <1>13, Kinds DEF FinishEnd, AgentRecords
<1>14. CASE FinishCheck
  BY <1>14, Kinds DEF FinishCheck, AgentRecords
<1>15. CASE FinishCommit
  BY <1>15, Kinds DEF FinishCommit, AgentRecords
<1>16. CASE FinishRecord
  BY <1>16, Kinds DEF FinishRecord, AgentRecords
<1>17. CASE HaltRecord
  BY <1>17, Kinds DEF HaltRecord, AgentRecords
<1>18. CASE StepEnds
  BY <1>18, Kinds DEF StepEnds, Mine, AgentRecords
<1>19. CASE StepOver
  BY <1>19, Kinds DEF StepOver, AgentRecords
<1>20. ASSUME NEW id \in Ids, WithdrawOne(id) PROVE agent' \in [Agents -> AgentRecords]
  BY <1>20, Kinds DEF WithdrawOne, Left, Unasked, AgentRecords
<1>21. ASSUME NEW a \in Agents, ReviewerStarts(a)
       PROVE  agent' \in [Agents -> AgentRecords]
  BY <1>21, New, Kinds DEF ReviewerStarts
<1>22. ASSUME NEW a \in Agents, TurnEnds(a) PROVE agent' \in [Agents -> AgentRecords]
  BY <1>22, Kinds DEF TurnEnds, AgentRecords
<1>23. ASSUME NEW a \in Agents, Blocks(a) PROVE agent' \in [Agents -> AgentRecords]
  BY <1>23, BoundsAssumption, Kinds DEF Blocks, TypeOK, AgentRecords
<1>24. ASSUME NEW a \in Agents, Unblocks(a) PROVE agent' \in [Agents -> AgentRecords]
  <2>1. agent[a].seq + attempt <= MaxBlocks => agent[a].seq + 1 \in 0..MaxBlocks
    BY Kinds, Numbers, BoundsAssumption DEF AgentRecords, TypeOK
  <2>2. agent[a] \in AgentRecords
    BY Kinds
  <2>3. [agent[a] EXCEPT !.state = "working"] \in AgentRecords
    BY <2>2 DEF AgentRecords
  <2>4. \A n \in 0..MaxBlocks : [agent[a] EXCEPT !.seq = n] \in AgentRecords
    BY <2>2 DEF AgentRecords
  <2>5. CASE agent' = [agent EXCEPT ![a] = [agent[a] EXCEPT !.state = "working"]]
    BY <2>3, <2>5, Kinds
  <2>6. CASE /\ agent[a].seq + attempt <= MaxBlocks
             /\ agent' = [agent EXCEPT ![a] = [agent[a] EXCEPT !.seq = agent[a].seq + 1]]
    BY <2>1, <2>4, <2>6, Kinds
  <2>. QED
    BY <1>24, <2>5, <2>6 DEF Unblocks
<1>25. ASSUME NEW a \in Agents, Dies(a) PROVE agent' \in [Agents -> AgentRecords]
  <2>2. agent[a] \in AgentRecords
    BY Kinds
  <2>1. [agent[a] EXCEPT !.state = "gone"] \in AgentRecords
    BY <2>2 DEF AgentRecords
  <2>. QED
    BY <1>25, <2>1, Kinds DEF Dies
<1>26. ASSUME NEW id \in Ids, NEW a \in Agents, Ask(id, a)
       PROVE  agent' \in [Agents -> AgentRecords]
  BY <1>26, Kinds DEF Ask, AgentRecords
<1>27. ASSUME NEW id \in Ids, NEW a \in Agents, Raise(id, a)
       PROVE  agent' \in [Agents -> AgentRecords]
  BY <1>27, Unlooked, Kinds DEF Raise
<1>28. ASSUME NEW a \in Agents, Unblocked(a) PROVE agent' \in [Agents -> AgentRecords]
  BY <1>28, Kinds DEF Unblocked, Release, AgentRecords
<1>29. ASSUME NEW id \in Ids, Take(id) PROVE agent' \in [Agents -> AgentRecords]
  BY <1>29, Kinds DEF Take, AgentRecords
<1>30. CASE Halt
  BY <1>30, Kinds DEF Halt, AgentRecords
<1>31. CASE StopStep
  BY <1>31, Kinds DEF StopStep, AgentRecords
<1>32. CASE Attempt
  <2>1. \A s \in {"working", agent[Worker].state} :
           [agent[Worker] EXCEPT !.state = s] \in AgentRecords
    BY Kinds, AgentsAssumption DEF AgentRecords
  <2>2. agent' = [a \in Agents |-> agent'[a]]
        /\ \A a \in Agents : \/ agent'[a] \in {Working, Absent}
                            \/ \E s \in {"working", agent[Worker].state} :
                                 agent'[a] = [agent[Worker] EXCEPT !.state = s]
    BY <1>32, Kinds DEF Attempt, AgentRecords
  <2>. QED
    BY <2>1, <2>2, New
<1>33. CASE Quit
  BY <1>33, New DEF Quit, Down
<1>34. CASE Crash
  BY <1>34, New DEF Crash, Down
<1>35. CASE Resume
  BY <1>35, Kinds DEF Resume, AgentRecords
<1>36. CASE UNCHANGED vars
  BY <1>36, Kinds DEF vars, AgentRecords
<1>37. ASSUME NEW a \in Agents, Look(a) PROVE agent' \in [Agents -> AgentRecords]
  <2>1. PICK s \in Screens : agent' = [agent EXCEPT ![a] =
          [agent[a] EXCEPT !.look = [screen |-> s, seq |-> agent[a].seq]]]
    BY <1>37 DEF Look
  <2>2. agent[a] \in AgentRecords
    BY Kinds
  <2>3. [agent[a] EXCEPT !.look = [screen |-> s, seq |-> agent[a].seq]] \in AgentRecords
    BY <2>2 DEF AgentRecords
  <2>. QED
    BY <2>1, <2>3, Kinds
<1>38. ASSUME NEW a \in Agents, NotRaised(a) PROVE agent' \in [Agents -> AgentRecords]
  BY <1>38, Unlooked, Kinds DEF NotRaised
<1>. QED
  BY <1>1, <1>2, <1>3, <1>4, <1>5, <1>6, <1>7, <1>8, <1>9, <1>10, <1>11, <1>12,
     <1>13, <1>14, <1>15, <1>16, <1>17, <1>18, <1>19, <1>20, <1>21, <1>22, <1>23,
     <1>24, <1>25, <1>26, <1>27, <1>28, <1>29, <1>30, <1>31, <1>32, <1>33, <1>34,
     <1>35, <1>36, <1>37, <1>38
  DEF Next, Thread, Runner, Loop, World

\* Every step keeps the types.
LEMMA TypeStep == IInv /\ [Next]_vars => TypeOK'
<1> SUFFICES ASSUME IInv, [Next]_vars PROVE TypeOK'
  OBVIOUS
<1>1. CtlTypes' /\ HeldTypes'
  BY TypeParts, CtlTypeStep, HeldTypeStep DEF IInv
<1>2. ask' \in [Ids -> AskRecords'] /\ agent' \in [Agents -> AgentRecords]
  BY AskTypeStep, AgentTypeStep DEF IInv
<1>3. count' \in 0..Cardinality(Ids)
  <2>1. count' = Cardinality(Asked')
    BY CountStep DEF IInv, CountTrue
  <2>2. Asked' \subseteq Ids
    BY <1>1 DEF HeldTypes, Asked
  <2>3. /\ IsFiniteSet(Asked') /\ Cardinality(Asked') <= Cardinality(Ids)
    BY <2>2, IdsAssumption, FS_Subset
  <2>. QED
    BY <2>1, <2>3, IdsAssumption, FS_CardinalityType
<1>. QED
  BY <1>1, <1>2, <1>3
  DEF TypeOK, CtlTypes, HeldTypes, Held, AskRecords, AgentRecords

-----------------------------------------------------------------------------
(* The theorems.                                                             *)

\* A first process starts in the invariant.
LEMMA InitInv == Init => IInv
<1> SUFFICES ASSUME Init PROVE IInv
  OBVIOUS
<1>1. Cardinality({}) = 0 /\ Cardinality(Ids) \in Nat
  BY IdsAssumption, FS_EmptySet, FS_CardinalityType
<1>2. Unused \in AskRecords /\ Absent \in AgentRecords /\ Working \in AgentRecords
  BY BoundsAssumption, AgentsAssumption
  DEF Init, Unused, Absent, Working, NoLook, AskRecords, AgentRecords
<1>3. CtlTypes /\ HeldTypes
  <2>1. 1 \in 1..MaxAttempts /\ 1 \in 1..1 /\ 0 \in 0..MaxCrashes
    BY BoundsAssumption
  <2>. QED
    BY <2>1 DEF Init, CtlTypes, HeldTypes, Held
<1>4. TypeOK
  BY <1>1, <1>2, <1>3, TypeParts DEF Init
<1>5. CountTrue /\ WaitsForSomething /\ FlowInv /\ CommitInv
  <2>1. Asked = {}
    BY DEF Init, Unused, Asked, Pressing
  <2>. QED
    BY <1>1, <2>1
    DEF Init, CountTrue, WaitsForSomething, FlowInv, CommitInv, OkIsCommitted
<1>6. NewInv /\ RouteInv /\ SavedInv /\ ServerInv /\ PressInv
  BY DEF Init, Unused, Held, Pressing, NewInv, RouteInv, SavedInv, ServerInv, PressInv
<1>. QED
  BY <1>4, <1>5, <1>6 DEF IInv

\* Every step keeps the invariant.
LEMMA NextInv == IInv /\ [Next]_vars => IInv'
<1> SUFFICES ASSUME IInv, [Next]_vars PROVE IInv'
  OBVIOUS
<1>1. TypeOK'
  BY TypeStep
<1>2. CountTrue' /\ WaitsForSomething' /\ FlowInv' /\ CommitInv'
  BY CountStep, FlowStep, CommitStep DEF IInv
<1>3. NewInv' /\ RouteInv' /\ SavedInv' /\ ServerInv' /\ PressInv'
  BY NewStep, RouteStep, SavedStep, ServerStep, PressStep DEF IInv
<1>. QED
  BY <1>1, <1>2, <1>3 DEF IInv

\* The inductive invariant of a step and its asks.
THEOREM Invariance == Spec => []IInv
  BY InitInv, NextInv, PTL DEF Spec

\* The asks, their threads and those who hold them keep their types.
THEOREM TypeCorrect == Spec => []TypeOK
<1>1. IInv => TypeOK
  BY DEF IInv
<1>. QED
  BY <1>1, Invariance, PTL

\* The loop's count of open asks (openQuestion) is the number of asks in its table,
\* whichever threads open and close them, and in whichever order.
THEOREM CountIsTrue == Spec => []CountTrue
<1>1. IInv => CountTrue
  BY DEF IInv
<1>. QED
  BY <1>1, Invariance, PTL

\* A step whose session lives is recorded as waiting only while something is asked
\* (openQuestion, release).
THEOREM WaitingIsAsking == Spec => []WaitsForSomething
<1>1. IInv => WaitsForSomething
  BY DEF IInv
<1>. QED
  BY <1>1, Invariance, PTL

\* Between two attempts, an answer that is on record was handed over, or a death of
\* the driver kept it from its agent (Deliver, hand, withdrawStep).
THEOREM AnswersHanded == Spec => []AnsweredIsHanded
<1>1. IInv => AnsweredIsHanded
  BY DEF IInv, FlowInv, SavedInv, TypeOK, AnsweredIsHanded
<1>. QED
  BY <1>1, Invariance, PTL

\* Between two attempts nothing is recorded open and nothing can be answered, late
\* routing included (Route, withdrawStep, PrepareResume).
THEOREM NothingOpen == Spec => []NothingLeftOpen
<1>1. IInv => NothingLeftOpen
  <2> SUFFICES ASSUME IInv, loop = "idle"
               PROVE  routed = {} /\ \A id \in Ids : ask[id].saved # "open"
    BY DEF NothingLeftOpen
  <2>1. Held = {}
    BY DEF IInv, FlowInv, Held
  <2>2. \A id \in Ids : id \notin routed
    BY <2>1 DEF IInv, RouteInv, TypeOK
  <2>3. routed \subseteq Ids
    BY DEF IInv, TypeOK
  <2>4. \A id \in Ids : ask[id].saved # "open"
    BY <2>1 DEF IInv, FlowInv, SavedInv, PressInv
  <2>. QED
    BY <2>2, <2>3, <2>4
<1>. QED
  BY <1>1, Invariance, PTL

\* A question that is withdrawn or handed over does not keep its asker from asking
\* again (Server.Answer, Server.Withdraw).
THEOREM AskersFree == Spec => []AskerIsFree
<1>1. IInv => AskerIsFree
  BY DEF IInv, ServerInv, AskerIsFree
<1>. QED
  BY <1>1, Invariance, PTL

\* A step recorded ok is committed, whatever failed, was halted or died on the way
\* (Finish, PrepareResume).
THEOREM OkCommitted == Spec => []OkIsCommitted
<1>1. IInv => OkIsCommitted
  BY DEF IInv, CommitInv
<1>. QED
  BY <1>1, Invariance, PTL

\* What TypedIntoTheLiving says of a step.
Told == \A id \in Ids :
  ask'[id].told /\ ~ask[id].told => ~ended /\ id \in tracked /\ ask[id].att = attempt
Typed == \A id \in Ids :
  /\ ask'[id].told /\ ~ask[id].told => ~ended /\ id \in tracked /\ ask[id].att = attempt
  /\ PressKey(id) => ~ended /\ id \notin tracked /\ ask[id].att = attempt

\* What is typed is typed into a session that lives.
LEMMA ToldStep ==
  ASSUME TypeOK, [Next]_vars PROVE Told
<1> USE DEF record, session, flow, table, channel, past
<1>1. ASSUME NEW id \in Ids, Admit(id) PROVE Told
  BY <1>1, Kinds DEF Admit, Opened, AskRecords, Told
<1>2. ASSUME NEW id \in Ids, TurnAway(id) PROVE Told
  BY <1>2, Kinds DEF TurnAway, Unasked, AskRecords, Told
<1>3. ASSUME NEW id \in Ids, Route(id) PROVE Told
  BY <1>3, Kinds DEF Route, AskRecords, Told
<1>4. ASSUME NEW id \in Ids, Deliver(id) PROVE Told
  BY <1>4, Kinds DEF Deliver, Answerable, AskRecords, Told
<1>5. ASSUME NEW id \in Ids, Given(id) PROVE Told
  BY <1>5, Kinds DEF Given, AskRecords, Told
<1>6. ASSUME NEW id \in Ids, HandOver(id) PROVE Told
  BY <1>6, Kinds DEF HandOver, Release, Typable, Live, AskRecords, Told
<1>7. ASSUME NEW id \in Ids, HandFails(id) PROVE Told
  BY <1>7, Kinds DEF HandFails, Release, AskRecords, Told
<1>8. ASSUME NEW id \in Ids, HandNothing(id) PROVE Told
  BY <1>8, Kinds DEF HandNothing, AskRecords, Told
<1>9. ASSUME NEW id \in Ids, Press(id) PROVE Told
  BY <1>9, Kinds DEF Press, Claim, RecordKeys, PressKey, KeysStop, KeysDone, Release, AskRecords, Told
<1>10. CASE StepEnds
  BY <1>10, Kinds DEF StepEnds, Mine, AskRecords, Told
<1>11. ASSUME NEW id \in Ids, WithdrawOne(id) PROVE Told
  BY <1>11, Kinds DEF WithdrawOne, Left, Unasked, AskRecords, Told
<1>12. ASSUME NEW id \in Ids, NEW a \in Agents, Ask(id, a) PROVE Told
  BY <1>12, Kinds DEF Ask, AskRecords, Told
<1>13. ASSUME NEW id \in Ids, NEW a \in Agents, Raise(id, a) PROVE Told
  BY <1>13, Kinds DEF Raise, Opened, AskRecords, Told
<1>14. ASSUME NEW a \in Agents, Unblocked(a) PROVE Told
  <2>1. CASE UNCHANGED <<ask, table, status, gone, routed>>
    BY <1>14, <2>1 DEF Unblocked, Told
  <2>2. ASSUME NEW id \in DialogOf(a), Live(id),
               ask' = [ask EXCEPT ![id].saved = "withdrawn"], tracked' = tracked \ {id},
               gone' = gone \cup {id}, routed' = routed \ {id}, Release,
               UNCHANGED answered
        PROVE  Told
    BY <1>14, <2>2, Kinds DEF Unblocked, DialogOf, AskRecords, Told
  <2>. QED
    BY <1>14, <2>1, <2>2 DEF Unblocked
<1>15. ASSUME NEW id \in Ids, Take(id) PROVE Told
  BY <1>15, Kinds DEF Take, AskRecords, Told
<1>16. CASE Quit
  BY <1>16, Kinds DEF Quit, Down, AskRecords, Told
<1>17. CASE Crash
  BY <1>17, Kinds DEF Crash, Down, AskRecords, Told
<1>18. CASE Resume
  BY <1>18, Kinds DEF Resume, AskRecords, Told
<1>19. CASE Quiet
  BY <1>19 DEF Quiet, Told
<1> HIDE DEF record, session, flow, table, channel, past
<1>. QED
  BY <1>1, <1>2, <1>3, <1>4, <1>5, <1>6, <1>7, <1>8, <1>9, <1>10, <1>11, <1>12,
     <1>13, <1>14, <1>15, <1>16, <1>17, <1>18, <1>19, Touching
  DEF Touch

\* So is every key.
LEMMA TypedStep ==
  ASSUME TypeOK, PressInv, [Next]_vars PROVE Typed
<1>1. ASSUME NEW id \in Ids, PressKey(id)
      PROVE  ~ended /\ id \notin tracked /\ ask[id].att = attempt
  BY <1>1 DEF PressKey, PressInv, Pressing, Held
<1>. QED
  BY <1>1, ToldStep DEF Typed, Told

\* An answer is typed only into a session that lives, for an ask in its table, and every
\* key of a dialog is pressed before the session that raised it ends (hand and
\* DeliverKeys, under Session.live): a step that is over hears nothing late.
THEOREM TypedToTheLiving == Spec => TypedIntoTheLiving
<1>1. IInv /\ [Next]_vars => [Typed]_vars
  BY TypedStep DEF IInv
<1>. QED
  BY <1>1, Invariance, PTL DEF Spec, TypedIntoTheLiving, Typed

-----------------------------------------------------------------------------
(* Asks implements Answering.                                                *)

\* Who holds an ask, what is recorded of it and what its agent got, together.
LifeInv == \A id \in Ids :
  /\ id \in Held => /\ ask[id].att = attempt
                    /\ ask[id].saved = IF id \in answered THEN "answered" ELSE "open"
  /\ ask[id].told => ask[id].saved = "answered" /\ id \notin Held
  /\ id \in answered => ask[id].kind = "question"

\* Every step keeps that.
LEMMA LifeStep ==
  ASSUME TypeOK, CountTrue, FlowInv, NewInv, RouteInv, SavedInv, LifeInv, [Next]_vars
  PROVE  LifeInv'
<1> USE DEF LifeInv, Held, record, session, flow, table, channel, past
<1>1. ASSUME NEW id \in Ids, Admit(id) PROVE LifeInv'
  BY <1>1, Kinds DEF Admit, Opened, NewInv, AskRecords
<1>2. ASSUME NEW id \in Ids, TurnAway(id) PROVE LifeInv'
  BY <1>2, Kinds DEF TurnAway, Unasked, NewInv, AskRecords
<1>3. ASSUME NEW id \in Ids, Route(id) PROVE LifeInv'
  <2>1. \A i \in Ids : /\ ask'[i].att = ask[i].att /\ ask'[i].saved = ask[i].saved
                      /\ ask'[i].told = ask[i].told /\ ask'[i].kind = ask[i].kind
    BY <1>3, Kinds DEF Route, AskRecords
  <2>. QED
    BY <1>3, <2>1 DEF Route
<1>4. ASSUME NEW id \in Ids, Deliver(id) PROVE LifeInv'
  BY <1>4, Kinds DEF Deliver, Answerable, AskRecords
<1>5. ASSUME NEW id \in Ids, Given(id) PROVE LifeInv'
  BY <1>5, Kinds DEF Given, AskRecords
<1>6. ASSUME NEW id \in Ids, HandOver(id) PROVE LifeInv'
  BY <1>6, Kinds DEF HandOver, Release, SavedInv, AskRecords
<1>7. ASSUME NEW id \in Ids, HandFails(id) PROVE LifeInv'
  BY <1>7, Kinds DEF HandFails, Release, SavedInv, AskRecords
<1>8. ASSUME NEW id \in Ids, HandNothing(id) PROVE LifeInv'
  BY <1>8, Kinds DEF HandNothing, AskRecords
<1>9. ASSUME NEW id \in Ids, Press(id) PROVE LifeInv'
  BY <1>9, Kinds DEF Press, Claim, RecordKeys, PressKey, KeysStop, KeysDone, Release, AskRecords
<1>10. CASE StepEnds
  BY <1>10, Leaving, Kinds DEF StepEnds, Mine, AskRecords
<1>11. ASSUME NEW id \in Ids, WithdrawOne(id) PROVE LifeInv'
  BY <1>11, Kinds DEF WithdrawOne, Left, Unasked, AskRecords
<1>12. ASSUME NEW id \in Ids, NEW a \in Agents, Ask(id, a) PROVE LifeInv'
  BY <1>12, Kinds DEF Ask, Fresh, NewInv, AskRecords
<1>13. ASSUME NEW id \in Ids, NEW a \in Agents, Raise(id, a) PROVE LifeInv'
  BY <1>13, Kinds DEF Raise, Opened, Fresh, NewInv, AskRecords
<1>14. ASSUME NEW a \in Agents, Unblocked(a) PROVE LifeInv'
  <2>1. CASE UNCHANGED <<ask, table, status, gone, routed>>
    BY <1>14, <2>1 DEF Unblocked
  <2>2. ASSUME NEW id \in DialogOf(a), Live(id),
               ask' = [ask EXCEPT ![id].saved = "withdrawn"], tracked' = tracked \ {id},
               gone' = gone \cup {id}, routed' = routed \ {id}, Release,
               UNCHANGED answered
        PROVE  LifeInv'
    BY <1>14, <2>2, Kinds DEF Unblocked, DialogOf, AskRecords
  <2>. QED
    BY <1>14, <2>1, <2>2 DEF Unblocked
<1>15. ASSUME NEW id \in Ids, Take(id) PROVE LifeInv'
  BY <1>15, Kinds DEF Take, AskRecords
<1>16. CASE Quit
  BY <1>16, Kinds DEF Quit, Down, AskRecords
<1>17. CASE Crash
  BY <1>17, Kinds DEF Crash, Down, AskRecords
<1>18. CASE Resume
  BY <1>18, Kinds DEF Resume, FlowInv, SavedInv, AskRecords
<1>19. CASE Quiet
  BY <1>19, Kinds DEF Quiet, FlowInv
<1> HIDE DEF LifeInv, Held, record, session, flow, table, channel, past
<1>. QED
  BY <1>1, <1>2, <1>3, <1>4, <1>5, <1>6, <1>7, <1>8, <1>9, <1>10, <1>11, <1>12,
     <1>13, <1>14, <1>15, <1>16, <1>17, <1>18, <1>19, Touching
  DEF Touch

\* What a step may do to one ask, to those left open, or to none.
Opens(id) ==
  Stage(id) = "new" /\ Stage(id)' \in {"open", "withdrawn"} /\ ask'[id].att = attempt

Moves(id) ==
  /\ ask[id].att = attempt /\ ask'[id].att = attempt
  /\ \/ Stage(id) = "open" /\ Stage(id)' = "answered"
     \/ Stage(id) \in {"open", "answered"} /\ Stage(id)' \in {"handed", "withdrawn"}

Turn ==
  \/ attempt' = attempt /\ \A i \in Ids : Stage(i)' = Stage(i) /\ ask'[i].att = ask[i].att
  \/ /\ attempt' = attempt
     /\ \E id \in Ids : /\ Opens(id) \/ Moves(id)
                        /\ \A i \in Ids \ {id} : ask'[i] = ask[i]
  \/ /\ attempt' = attempt
     /\ \A i \in Ids : /\ ask'[i].att = ask[i].att
                       /\ Stage(i)' = IF Stage(i) = "open" THEN "withdrawn" ELSE Stage(i)
  \/ attempt' = attempt + 1 /\ UNCHANGED ask /\ \A i \in Ids : Stage(i) # "open"

\* That is a step that Answering allows.
LEMMA TurnIsStep == Turn => [Promise!Next]_<<Progress, Homes, attempt>>
<1> SUFFICES ASSUME Turn PROVE [Promise!Next]_<<Progress, Homes, attempt>>
  OBVIOUS
<1>1. \A i \in Ids : Progress[i] = Stage(i) /\ Homes[i] = ask[i].att
  BY DEF Progress, Homes
<1>2. Progress' = [i \in Ids |-> Stage(i)'] /\ Homes' = [i \in Ids |-> ask'[i].att]
  BY DEF Progress, Homes
<1>3. CASE attempt' = attempt /\ \A i \in Ids : Stage(i)' = Stage(i) /\ ask'[i].att = ask[i].att
  BY <1>2, <1>3 DEF Progress, Homes
<1>4. ASSUME NEW id \in Ids, attempt' = attempt, \A i \in Ids \ {id} : ask'[i] = ask[i],
             Opens(id) \/ Moves(id)
      PROVE  Promise!Next
  <2>1. \A i \in Ids \ {id} : Stage(i)' = Stage(i)
    BY <1>4 DEF Stage
  <2>2. Progress' = [Progress EXCEPT ![id] = Stage(id)']
    BY <1>2, <2>1 DEF Progress
  <2>3. Homes' = [Homes EXCEPT ![id] = ask'[id].att]
    BY <1>2, <1>4 DEF Homes
  <2>4. CASE Opens(id)
    <3>1. Promise!Open(id)
      BY <1>1, <1>4, <2>2, <2>3, <2>4 DEF Opens, Promise!Open, Promise!Becomes
    <3>. QED
      BY <3>1 DEF Promise!Next
  <2>5. CASE Moves(id)
    <3>1. UNCHANGED Homes
      BY <2>3, <2>5 DEF Moves, Homes
    <3>2. Promise!Current(id)
      BY <1>1, <2>5 DEF Moves, Promise!Current
    <3>3. Promise!Answer(id) \/ Promise!HandOver(id) \/ Promise!Withdraw(id)
      BY <1>1, <1>4, <2>2, <2>5, <3>1, <3>2
      DEF Moves, Promise!Answer, Promise!HandOver, Promise!Withdraw, Promise!Becomes
    <3>. QED
      BY <3>3 DEF Promise!Next
  <2>. QED
    BY <1>4, <2>4, <2>5
<1>5. CASE /\ attempt' = attempt
           /\ \A i \in Ids : /\ ask'[i].att = ask[i].att
                             /\ Stage(i)' = IF Stage(i) = "open" THEN "withdrawn" ELSE Stage(i)
  <2>1. Progress' = [i \in Ids |-> IF Progress[i] = "open" THEN "withdrawn" ELSE Progress[i]]
    BY <1>1, <1>2, <1>5
  <2>2. UNCHANGED Homes
    BY <1>2, <1>5 DEF Homes
  <2>. QED
    BY <1>5, <2>1, <2>2 DEF Promise!Next, Promise!WithdrawAll
<1>6. CASE attempt' = attempt + 1 /\ UNCHANGED ask /\ \A i \in Ids : Stage(i) # "open"
  <2>1. UNCHANGED <<Progress, Homes>>
    BY <1>6 DEF Progress, Homes, Stage
  <2>. QED
    BY <1>1, <1>6, <2>1 DEF Promise!Next, Promise!NextAttempt
<1>. QED
  BY <1>3, <1>4, <1>5, <1>6 DEF Turn

\* Every step is such a turn.
LEMMA StepTurn ==
  ASSUME TypeOK, CountTrue, FlowInv, NewInv, RouteInv, SavedInv, PressInv, LifeInv,
         [Next]_vars
  PROVE  Turn
<1> USE DEF LifeInv, Held, record, session, flow, table, channel, past
<1>1. ASSUME NEW id \in Ids, Admit(id) PROVE Turn
  BY <1>1, Kinds DEF Admit, Opened, NewInv, Turn, Opens, Stage, AskRecords
<1>2. ASSUME NEW id \in Ids, TurnAway(id) PROVE Turn
  BY <1>2, Kinds DEF TurnAway, Unasked, NewInv, Turn, Opens, Stage, AskRecords
<1>3. ASSUME NEW id \in Ids, Route(id) PROVE Turn
  BY <1>3, Kinds DEF Route, Turn, Stage, AskRecords
<1>4. ASSUME NEW id \in Ids, Deliver(id) PROVE Turn
  BY <1>4, Kinds DEF Deliver, Answerable, SavedInv, Turn, Moves, Stage, AskRecords
<1>5. ASSUME NEW id \in Ids, Given(id) PROVE Turn
  BY <1>5, Kinds DEF Given, Turn, Stage, AskRecords
<1>6. ASSUME NEW id \in Ids, HandOver(id) PROVE Turn
  BY <1>6, Kinds DEF HandOver, Release, SavedInv, Turn, Moves, Stage, AskRecords
<1>7. ASSUME NEW id \in Ids, HandFails(id) PROVE Turn
  BY <1>7, Kinds DEF HandFails, Release, SavedInv, Turn, Moves, Stage, AskRecords
<1>8. ASSUME NEW id \in Ids, HandNothing(id) PROVE Turn
  BY <1>8, Kinds DEF HandNothing, Turn, Stage, AskRecords
<1>9. ASSUME NEW id \in Ids, Press(id) PROVE Turn
  BY <1>9, Kinds DEF Press, Claim, RecordKeys, PressKey, KeysStop, KeysDone, Release, SavedInv, Turn, Moves, Stage, AskRecords
<1>10. CASE StepEnds
  BY <1>10, Leaving, Kinds DEF StepEnds, Mine, Turn, Stage, AskRecords
<1>11. ASSUME NEW id \in Ids, WithdrawOne(id) PROVE Turn
  BY <1>11, Kinds DEF WithdrawOne, Left, Unasked, Turn, Moves, Stage, AskRecords
<1>12. ASSUME NEW id \in Ids, NEW a \in Agents, Ask(id, a) PROVE Turn
  BY <1>12, Kinds DEF Ask, Fresh, NewInv, Turn, Stage, AskRecords
<1>13. ASSUME NEW id \in Ids, NEW a \in Agents, Raise(id, a) PROVE Turn
  BY <1>13, Kinds DEF Raise, Opened, Fresh, NewInv, Turn, Opens, Stage, AskRecords
<1>14. ASSUME NEW a \in Agents, Unblocked(a) PROVE Turn
  <2>1. CASE UNCHANGED <<ask, table, status, gone, routed>>
    BY <1>14, <2>1 DEF Unblocked, Turn, Stage
  <2>2. ASSUME NEW id \in DialogOf(a), Live(id),
               ask' = [ask EXCEPT ![id].saved = "withdrawn"], tracked' = tracked \ {id},
               gone' = gone \cup {id}, routed' = routed \ {id}, Release,
               UNCHANGED answered
        PROVE  Turn
    BY <1>14, <2>2, Kinds DEF Unblocked, DialogOf, SavedInv, Turn, Moves, Stage, AskRecords
  <2>. QED
    BY <1>14, <2>1, <2>2 DEF Unblocked
<1>15. ASSUME NEW id \in Ids, Take(id) PROVE Turn
  BY <1>15, Kinds DEF Take, Turn, Stage, AskRecords
<1>16. CASE Quit
  BY <1>16, Kinds DEF Quit, Down, Turn, Stage, AskRecords
<1>17. CASE Crash
  BY <1>17, Kinds DEF Crash, Down, Turn, Stage, AskRecords
<1>18. CASE Resume
  BY <1>18, Kinds DEF Resume, FlowInv, Turn, Stage, AskRecords
<1>19. CASE Quiet
  BY <1>19, Kinds DEF Quiet, FlowInv, SavedInv, PressInv, Turn, Stage
<1> HIDE DEF LifeInv, Held, record, session, flow, table, channel, past
<1>. QED
  BY <1>1, <1>2, <1>3, <1>4, <1>5, <1>6, <1>7, <1>8, <1>9, <1>10, <1>11, <1>12,
     <1>13, <1>14, <1>15, <1>16, <1>17, <1>18, <1>19, Touching
  DEF Touch

\* The threads of the asks, the loop, the runner, a halt, a death of the driver and a
\* resume keep together what Answering promises: nothing is answered twice, or after it
\* was withdrawn, or withdrawn after its answer was typed, or handed to a later attempt
\* (Deliver, hand, DeliverKeys, withdrawStep, PrepareResume).
THEOREM ImplementsAnswering == Spec => AnswersOnce
<1>1. Init => LifeInv /\ Promise!Init
  <2> SUFFICES ASSUME Init PROVE LifeInv /\ Promise!Init
    OBVIOUS
  <2>1. ask = [id \in Ids |-> Unused] /\ tracked = {} /\ leaving = {} /\ answered = {}
        /\ attempt = 1
    BY DEF Init
  <2>2. LifeInv
    BY <2>1 DEF LifeInv, Held, Unused
  <2>3. Progress = [id \in Ids |-> "new"] /\ Homes = [id \in Ids |-> 0]
    BY <2>1 DEF Progress, Homes, Stage, Unused
  <2>. QED
    BY <2>1, <2>2, <2>3 DEF Promise!Init
<1>2. IInv /\ LifeInv /\ [Next]_vars => LifeInv'
  BY LifeStep DEF IInv
<1>3. IInv /\ LifeInv /\ [Next]_vars => [Promise!Next]_<<Progress, Homes, attempt>>
  BY StepTurn, TurnIsStep DEF IInv
<1>. QED
  BY <1>1, <1>2, <1>3, Invariance, PTL DEF Spec, AnswersOnce, Promise!Spec
=============================================================================
