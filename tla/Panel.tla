------------------------------- MODULE Panel -------------------------------
(***************************************************************************)
(* What r-loop shows on herdr-app: the labels it puts on the terminals of  *)
(* a run's space (Tag and Start in internal/hc/client.go), and the panel   *)
(* that reads them (src/herdr-app/rloop/main.js).  Nothing joins the two:  *)
(* a tag goes over the terminals one at a time, several threads of the     *)
(* driver tag the same space, and a terminal may finish or be closed in    *)
(* the middle of it.                                                       *)
(*                                                                         *)
(* A tag is the two labels it sets: rloop, a text, and rloop_wait, which   *)
(* is set or empty.                                                        *)
(***************************************************************************)
EXTENDS Naturals, Sequences, FiniteSets

CONSTANTS
  Home,     \* the space of each terminal, in the order the app lists them
  RunSpace, \* the space of the run's step
  Writers,  \* the threads of the driver that tag it
  Listed,   \* the states in which the app lists a terminal
  None

Terminals == 1..Len(Home)
Spaces    == {Home[t] : t \in Terminals}

States == {"none", "live", "finished"}
Texts  == {"", "working", "review", "fixing", "stalled", "done", "failed"}

\* The values of a tag under way: what it sets, whether its writer holds the lock of
\* the session, and the terminals left, once it has the layout.
TagRecords == [tokens : [rloop : Texts, rloop_wait : BOOLEAN],
               locked : BOOLEAN, laid : BOOLEAN, left : SUBSET Terminals]

ASSUME PanelAssumption ==
  /\ RunSpace \in Spaces
  /\ Listed \subseteq States \ {"none"}
  /\ None \notin TagRecords

VARIABLES
  term,    \* the terminals
  agent,   \* those labelled with an agent's name
  text,    \* label rloop
  wait,    \* label rloop_wait
  tags,    \* the tag each writer is in the middle of, or None
  warned   \* a tag failed

screen == <<term, agent, text, wait>>
panel  == <<screen, tags, warned>>

\* stepTokens: what a state of a step shows; half is the part of its review.
\* Queued and spawned steps are not tagged.
Tokens(state, half) ==
  CASE state = "running"       -> [rloop |-> half, rloop_wait |-> FALSE]
    [] state = "waiting-input" -> [rloop |-> half, rloop_wait |-> TRUE]
    [] state = "stalled"       -> [rloop |-> "stalled", rloop_wait |-> FALSE]
    [] state = "ok"            -> [rloop |-> "done", rloop_wait |-> FALSE]
    [] state = "failed"        -> [rloop |-> "failed", rloop_wait |-> FALSE]

-----------------------------------------------------------------------------
(* Tag.                                                                    *)

\* A tag that has not asked for the layout yet; locked says that its writer
\* holds the lock of the session meanwhile.
Started(tokens, locked) == [tokens |-> tokens, locked |-> locked, laid |-> FALSE, left |-> {}]

Idle(w) == tags[w] = None

\* No writer that holds the session's lock is in the middle of a tag.
Unlocked == \A w \in Writers : ~Idle(w) => ~tags[w].locked

\* layout: the terminals of the space, as they are now; no space is an error.
Layout(w) ==
  /\ ~Idle(w) /\ ~tags[w].laid
  /\ LET placed == {t \in Terminals : Home[t] = RunSpace /\ term[t] # "none"} IN
     IF placed = {}
     THEN tags' = [tags EXCEPT ![w] = None] /\ warned' = TRUE
     ELSE /\ tags' = [tags EXCEPT ![w].laid = TRUE, ![w].left = placed]
          /\ UNCHANGED warned
  /\ UNCHANGED screen

First(S) == CHOOSE t \in S : \A u \in S : t <= u

\* A terminal that is live and runs an agent.
Tagged(t) == term[t] = "live" /\ agent[t]

\* get, label: the next terminal.  One that was closed meanwhile ends the tag,
\* with the terminals after it as they were.
TagNext(w) ==
  /\ ~Idle(w) /\ tags[w].laid /\ tags[w].left # {}
  /\ LET t == First(tags[w].left) IN
     IF term[t] = "none"
     THEN /\ tags' = [tags EXCEPT ![w] = None]
          /\ warned' = TRUE
          /\ UNCHANGED <<text, wait>>
     ELSE /\ tags' = [tags EXCEPT ![w].left = @ \ {t}]
          /\ text' = IF Tagged(t) THEN [text EXCEPT ![t] = tags[w].tokens.rloop] ELSE text
          /\ wait' = IF Tagged(t) THEN [wait EXCEPT ![t] = tags[w].tokens.rloop_wait] ELSE wait
          /\ UNCHANGED warned
  /\ UNCHANGED <<term, agent>>

TagEnd(w) ==
  /\ ~Idle(w) /\ tags[w].laid /\ tags[w].left = {}
  /\ tags' = [tags EXCEPT ![w] = None]
  /\ UNCHANGED <<screen, warned>>

Tag(w) == Layout(w) \/ TagNext(w) \/ TagEnd(w)

-----------------------------------------------------------------------------
(* The terminals.                                                          *)

\* Open, Split: a pane is opened, with a shell in it.
OpenPane(t) ==
  /\ term[t] = "none"
  /\ term' = [term EXCEPT ![t] = "live"]

\* Start: its agent is named and its program started.
StartAgent(t) ==
  /\ term[t] = "live" /\ ~agent[t]
  /\ agent' = [agent EXCEPT ![t] = TRUE]

\* A terminal that is closed takes its labels with it.
ClosePane(t) ==
  /\ term' = [term EXCEPT ![t] = "none"]
  /\ agent' = [agent EXCEPT ![t] = FALSE]
  /\ text' = [text EXCEPT ![t] = ""]
  /\ wait' = [wait EXCEPT ![t] = FALSE]

\* The program of an agent replaced its shell, and its end ends the terminal,
\* which keeps its labels.
Finish(t) ==
  /\ Tagged(t)
  /\ term' = [term EXCEPT ![t] = "finished"]
  /\ UNCHANGED <<agent, text, wait>>

-----------------------------------------------------------------------------
(* The panel.                                                              *)

\* runs: the terminals of a space that the app lists and r-loop labelled.
Own(s) == {t \in Terminals : Home[t] = s /\ term[t] \in Listed /\ agent[t]}

Rows == {s \in Spaces : Own(s) # {}}

\* The first state that is set, in the order of the terminals.
RowState(s) ==
  LET said == {t \in Own(s) : text[t] # ""} IN
  IF said = {} THEN "" ELSE text[First(said)]

RowWait(s) == \E t \in Own(s) : wait[t]

\* render: a row shows what its run waits for, or else its state, or else no
\* more than the name of its space.
Shows(s) == IF RowWait(s) THEN "waiting" ELSE RowState(s)

=============================================================================
