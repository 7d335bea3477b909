---------------------------- MODULE QuestionLedger ----------------------------
(***************************************************************************)
(* What the clarification store promises to the turns of a session. There  *)
(* is at most one open question per session. A question is asked under an  *)
(* identifier that was never used before; it is closed once and for ever.  *)
(* Only the closing of a question by its answer settles anything, it       *)
(* settles at least one decision, and decisions are never taken back       *)
(* except by forgetting the whole session. A question that somebody holds  *)
(* is let go or closed before another one holds it or a new one is asked.  *)
(* When a question is withdrawn or lapses is no part of the promise.       *)
(***************************************************************************)
EXTENDS Naturals

CONSTANTS Sessions, Holders, Ids, Nobody, NoQuestion

VARIABLES
  open,      \* session -> identifier of its open question, or NoQuestion
  holder,    \* session -> who answers the open question, or Nobody
  settled,   \* session -> the decisions it remembers
  used       \* identifiers under which a question was ever asked

ledgerVars == <<open, holder, settled, used>>

Init ==
  /\ open = [s \in Sessions |-> NoQuestion]
  /\ holder = [s \in Sessions |-> Nobody]
  /\ settled = [s \in Sessions |-> {}]
  /\ used = {}

Stays(s) == UNCHANGED <<open[s], holder[s], settled[s]>>

Becomes(s, question, by) == open'[s] = question /\ holder'[s] = by

\* An old question that nobody holds may lapse as the new one is asked.
Ask(s, id) ==
  /\ holder[s] = Nobody
  /\ id \notin used
  /\ Becomes(s, id, Nobody)
  /\ UNCHANGED settled[s]

Hold(s, t) ==
  /\ open[s] # NoQuestion
  /\ holder[s] \in {Nobody, t}
  /\ Becomes(s, open[s], t)
  /\ UNCHANGED settled[s]

LetGo(s) == Becomes(s, open[s], Nobody) /\ UNCHANGED settled[s]

Settle(s, successor) ==
  /\ open[s] # NoQuestion
  /\ successor \notin used
  /\ Becomes(s, successor, Nobody)
  /\ settled[s] \subseteq settled'[s] /\ settled'[s] # settled[s]

\* A question goes without an answer: withdrawn with its turn, or lapsed.
Withdraw(s) == Becomes(s, NoQuestion, Nobody) /\ UNCHANGED settled[s]

ForgetSession(s) == Becomes(s, NoQuestion, Nobody) /\ settled'[s] = {}

SessionStep(s) ==
  \/ Stays(s)
  \/ \E id \in Ids : Ask(s, id)
  \/ \E t \in Holders : Hold(s, t)
  \/ LetGo(s)
  \/ \E successor \in Ids \cup {NoQuestion} : Settle(s, successor)
  \/ Withdraw(s)
  \/ ForgetSession(s)

\* A sweep closes the lapsed questions of several sessions in one step.
Next ==
  /\ \A s \in Sessions : SessionStep(s)
  /\ \A s, t \in Sessions : s # t /\ open'[s] = open'[t] => open'[s] = NoQuestion
  /\ used' = (used \cup {open'[s] : s \in Sessions}) \ {NoQuestion}

Spec == Init /\ [][Next]_ledgerVars
=============================================================================
