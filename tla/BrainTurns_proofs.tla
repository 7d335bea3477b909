--------------------------- MODULE BrainTurns_proofs ---------------------------
(***************************************************************************)
(* Proofs about BrainTurns: the invariants of the turn store, for any      *)
(* number of sessions, threads, workers, turns and questions.              *)
(*                                                                         *)
(* TurnInv is the inductive invariant.  Its parts say of a turn what the   *)
(* place of its worker implies about its record (RunInv), which turns make *)
(* a session active (ActiveInv), what a thread inside cancel may rely on   *)
(* (CancelInv), what an erased session still has (ErasureInv), what a      *)
(* shutdown has done (ServiceInv), who still owes the release of a claim   *)
(* (Releases) and which turn shows an open question (Shows).               *)
(*                                                                         *)
(* There is one lemma ...Keeps per action.  A worker's steps share         *)
(* WorkerKeeps, the steps that touch no turn SideKeeps, and the ends of a  *)
(* turn EndKeeps and MarkKeeps.                                            *)
(***************************************************************************)
EXTENDS BrainTurns, SequenceTheorems, TLAPS

\* Jobs whose worker owns the record, and those before an answer can be open.
Late == {"running", "decided", "answered", "told", "preview", "ready", "provisional", "retrieving",
         "previewing", "working", "staged", "published", "finishing", "failing", "abandoned"}
Owning == {"popped"} \cup Late
Fresh == {"none", "queued", "started", "popped", "cancelled"}
Early == {"queued", "started", "popped", "running", "decided", "answered", "preview", "ready",
          "provisional", "retrieving", "previewing"}

\* Jobs whose worker may have written notes into a record that was cancelled.
Noting == {"answered", "told", "preview", "ready", "provisional", "retrieving", "previewing",
           "working", "staged", "failing"}
Jobs == {"none", "queued"} \cup Working \cup Ended

Cancelling(c, t) == call[c].op = "cancelling" /\ call[c].turn = t

\* The worker's position and its record agree: what a worker has begun no
\* canceller finishes, and only an asking turn has asked.
RecordFits(r, j) ==
  /\ j \in Late => r.started /\ r.terminal = "none"
  /\ j \in Fresh => ~r.started
  /\ j \in Early => r.asks = 0 /\ r.result = "none"
  /\ r.asks # 0 => r.result \in {"asked", "cancelled"}
  /\ r.result = "asked" => r.asks # 0
  /\ j \in {"preview", "provisional", "previewing"} => r.answers # 0
  /\ j = "working" => r.result \in {"none", "asked"}
  /\ j \in {"told", "staged", "published", "finishing"} => r.result # "none"

RunInv ==
  /\ \A t \in TurnIds : job[t] # "none" => t \in DOMAIN record
  /\ \A t \in DOMAIN record : RecordFits(record[t], job[t])

\* The second half of OneActiveTurn.
ActiveInv ==
  \A s \in Sessions :
    /\ (s \in active) = (Unfinished(TurnsOf(s)) # {})
    /\ \A t, u \in Unfinished(TurnsOf(s)) : t = u

CancelInv ==
  /\ \A c \in Callers : call[c].op \in {"cancel", "cancelling"} => call[c].turn \in DOMAIN record
  /\ \A c \in Callers, t \in DOMAIN record :
       Cancelling(c, t) => /\ record[t].terminal = "none" /\ ~record[t].started
                           /\ record[t].cancelled
                           /\ job[t] # "queued"
  /\ \A c, d \in Callers, t \in DOMAIN record : Cancelling(c, t) /\ Cancelling(d, t) => c = d

\* Why a record is not in the store, and what an erased session still has: the
\* guard of the turn that is at work for it.
ErasureInv ==
  /\ \A s \in Sessions : erased[s] => phase[s] \in {"revoked", "gone"}
  /\ \A t \in DOMAIN record \ turns : erased[record[t].session] \/ service = "closed"
  /\ \A t \in DOMAIN record :
       LET s == record[t].session
       IN  erased[s] /\ job[t] \in Owning /\ record[t].terminal = "none" =>
             s \in DOMAIN revoked_sessions /\ revoked_sessions[s] = t

ServiceInv ==
  /\ service \in {"draining", "closed"} => \A t \in TurnIds : job[t] # "queued"
  /\ service = "closed" => turns = {} /\ active = {} /\ \A t \in TurnIds : job[t] \notin Working

\* A turn that goes on has its private data until its worker gives up, and one
\* that was cancelled has notes only while its worker may still empty it.
PrivateInv ==
  \A t \in turns :
    /\ record[t].terminal = "none" /\ ~record[t].cancelled /\ service = "open"
         /\ job[t] # "abandoned" => record[t].private
    /\ record[t].cancelled /\ record[t].notes => job[t] \in Noting

\* The turn of a claim is still going to release it.
Releases(calls, t, r, j) ==
  \/ j \in {"queued", "started"} \cup Owning /\ r.terminal = "none"
  \/ j = "exiting"
  \/ \E c \in Callers : calls[c].op = "cancelling" /\ calls[c].turn = t

QuestionInv ==
  \A s \in Sessions :
    LET q == question[s]
        t == q.holder
    IN  /\ q.id < next_question
        /\ q.id # 0 => q.asker # 0
        /\ t # 0 => /\ t \in turns /\ record[t].session = s /\ record[t].answers = q.id
                    /\ Releases(call, t, record[t], job[t])

\* The turn t has published the question q of its session, or will, unless it
\* withdraws it first.
Shows(q, t, r, j) ==
  /\ r.asks = q.id
  /\ \/ r.terminal = "asked"
     \/ /\ j \in Late
        /\ r.result = "asked"
        /\ q.asker \in {t, r.rest}

VisibleInv ==
  \A s \in Sessions :
    service = "open" /\ question[s].id # 0 =>
      \E t \in turns : record[t].session = s /\ Shows(question[s], t, record[t], job[t])

TurnInv ==
  /\ TypeOK /\ ActiveInv /\ RunInv /\ CancelInv /\ ErasureInv /\ ServiceInv
  /\ RequestsAdmittedOnce /\ NothingSurvivesErasure /\ PrivateWhileUsable /\ PrivateInv
  /\ QuestionInv /\ VisibleInv

-----------------------------------------------------------------------------
(* The steps of a worker: its record becomes r, its job j                  *)

WorkerStep(t, r, j) ==
  /\ t \in DOMAIN record /\ job[t] \in Working
  /\ DOMAIN record' = DOMAIN record /\ r \in Records
  /\ \A u \in DOMAIN record : record'[u] = IF u = t THEN r ELSE record[u]
  /\ r.session = record[t].session /\ r.request = record[t].request
  /\ r.target = record[t].target /\ r.basis = record[t].basis
  /\ r.answers = record[t].answers /\ r.cancelled = record[t].cancelled
  /\ job' = [job EXCEPT ![t] = j] /\ j \in Working \cup {"done"}
  /\ RecordFits(r, j)
  /\ UNCHANGED <<erased, turns, idempotency, next_turn, service, call>>
  /\ admitted_work' \subseteq admitted_work
  /\ queue' = queue

PhaseStep == phase' = phase \/ \E s \in Sessions : phase[s] = "live" /\ phase' = [phase EXCEPT ![s] = "revoked"]

\* The record ends, or stays as it is, and a canceller does not see it move.
EndStep(t, r) ==
  /\ \/ r.terminal = record[t].terminal /\ active' = active
     \/ /\ record[t].terminal = "none" /\ r.terminal # "none"
        /\ active' = active \ {record[t].session}
  /\ \A c \in Callers : Cancelling(c, t) => r.terminal = "none" /\ ~r.started

GuardStep(t, r, j) ==
  /\ revoked_sessions' \in {revoked_sessions, Unguarded({t})}
  /\ j \in Owning /\ r.terminal = "none" =>
       t \in turns \/ (job[t] \in Owning /\ revoked_sessions' = revoked_sessions)

NotesStep(t, r, j) == t \in turns /\ r.cancelled /\ r.notes => j \in Noting

PrivateStep(t, r, j) ==
  /\ r.private => t \in turns /\ ~r.cancelled
  /\ t \in turns /\ r.terminal = "none" /\ ~r.cancelled /\ service = "open" /\ j # "abandoned"
       => r.private
  /\ NotesStep(t, r, j)

HeadStep(t, r) ==
  \/ /\ proposal_heads' = proposal_heads
     /\ record[t].terminal = "none" \/ (r.terminal = record[t].terminal /\ r.private = record[t].private)
  \/ /\ proposal_heads' = With(proposal_heads, <<record[t].session, record[t].target>>, t)
     /\ HeadStands(t)
     /\ t \in turns /\ record[t].terminal = "none" /\ r.terminal = "proposed" /\ r.private

QuestionStep(t, r, j) ==
  /\ question' \in [Sessions -> [id : 0 .. MaxQuestion, asker : 0 .. MaxTurn, holder : 0 .. MaxTurn]]
  /\ next_question' \in 1 .. MaxQuestion + 1
  /\ \A s \in Sessions :
       LET q == question'[s]
       IN  /\ q.id < next_question'
           /\ erased[s] => q = NoQuestion
           /\ q.id # 0 => q.asker # 0
           /\ q.holder \notin {0, t} => q.holder = question[s].holder /\ q.id = question[s].id
           /\ q.holder = t => /\ t \in turns /\ s = r.session /\ r.answers = q.id
                              /\ Releases(call, t, r, j)
           /\ service = "open" /\ q.id # 0 =>
                \/ /\ q.id = question[s].id /\ q.asker = question[s].asker
                   /\ t \in turns /\ s = r.session /\ Shows(question[s], t, record[t], job[t])
                        => Shows(q, t, r, j)
                \/ t \in turns /\ s = r.session /\ Shows(q, t, r, j)

LEMMA StoreFacts ==
  ASSUME TurnInv
  PROVE  /\ DOMAIN record = 1 .. next_turn - 1 /\ DOMAIN record \subseteq TurnIds
         /\ turns \subseteq DOMAIN record
         /\ \A t \in DOMAIN record : record[t] \in Records /\ record[t].session \in Sessions
         /\ \A t \in TurnIds : t # 0 /\ t \in 1 .. MaxTurn
         /\ MaxTurn \in Nat /\ MaxQuestion \in Nat /\ next_turn \in Nat /\ next_question \in Nat
BY LimitsAreNumbers DEF TurnInv, TypeOK, Records, TurnIds

LEMMA WorkerTypes ==
  ASSUME TurnInv, NEW t \in TurnIds, NEW r, NEW j, WorkerStep(t, r, j), PhaseStep, EndStep(t, r),
         GuardStep(t, r, j), QuestionStep(t, r, j)
  PROVE  /\ TypeOK'
         /\ DOMAIN record' = DOMAIN record
         /\ \A u \in DOMAIN record : record'[u] = IF u = t THEN r ELSE record[u]
         /\ \A u \in TurnIds : job'[u] = IF u = t THEN j ELSE job[u]
<1> USE DEF TurnInv, TypeOK, WorkerStep, Jobs
<1>1. \A u \in DOMAIN record : record'[u] = IF u = t THEN r ELSE record[u]
  OBVIOUS
<1>2. \A u \in TurnIds : job'[u] = IF u = t THEN j ELSE job[u]
  OBVIOUS
<1>3. phase' \in [Sessions -> {"absent", "live", "revoked", "gone"}]
  BY DEF PhaseStep
<1>4. DOMAIN revoked_sessions' \subseteq Sessions
      /\ \A s \in DOMAIN revoked_sessions' : revoked_sessions'[s] \in TurnIds
  BY DEF GuardStep, Unguarded, Without, Restrict
<1>5. active' \subseteq Sessions
  BY DEF EndStep
<1>6. job' \in [TurnIds -> {"none", "queued"} \cup Working \cup Ended]
  BY DEF Ended
<1>7. \A u \in DOMAIN record' : record'[u] \in Records
  BY <1>1
<1>8. DOMAIN record' = 1 .. next_turn' - 1 /\ turns' \subseteq DOMAIN record'
      /\ admitted_work' \subseteq turns'
  OBVIOUS
<1>9. UNCHANGED <<erased, queue, service, call>>
  OBVIOUS
<1>10. TypeOK'
  BY <1>3, <1>4, <1>5, <1>6, <1>7, <1>8, <1>9 DEF QuestionStep
<1>11. QED
  BY <1>1, <1>2, <1>10

LEMMA WorkerKeeps ==
  ASSUME TurnInv, NEW t \in TurnIds, NEW r, NEW j, WorkerStep(t, r, j), PhaseStep, EndStep(t, r),
         GuardStep(t, r, j), PrivateStep(t, r, j), HeadStep(t, r), QuestionStep(t, r, j)
  PROVE  TurnInv' /\ ResultsStay
<1>1. /\ TypeOK'
      /\ DOMAIN record' = DOMAIN record
      /\ \A u \in DOMAIN record : record'[u] = IF u = t THEN r ELSE record[u]
      /\ \A u \in TurnIds : job'[u] = IF u = t THEN j ELSE job[u]
  BY WorkerTypes
<1>2. /\ t \in DOMAIN record /\ job[t] \in Working /\ j \in Working \cup {"done"}
      /\ r.session = record[t].session /\ r.request = record[t].request
      /\ r.target = record[t].target /\ r.basis = record[t].basis
      /\ r.answers = record[t].answers /\ r.cancelled = record[t].cancelled
      /\ UNCHANGED <<erased, turns, idempotency, next_turn, service, call>>
      /\ DOMAIN record \subseteq TurnIds /\ turns \subseteq DOMAIN record
      /\ \A u \in DOMAIN record : record[u].session \in Sessions
      /\ RecordFits(r, j)
  BY StoreFacts DEF WorkerStep
<1>3. ActiveInv'
  BY <1>1, <1>2 DEF TurnInv, ActiveInv, EndStep, Unfinished, TurnsOf, ErasureInv, NothingSurvivesErasure, ServiceInv
<1>4. RunInv'
  BY <1>1, <1>2 DEF TurnInv, RunInv, RecordFits, Working
<1>5. CancelInv'
  BY <1>1, <1>2 DEF TurnInv, CancelInv, EndStep, Cancelling, Working
<1>6. ErasureInv'
  <2>1. \A s \in Sessions : erased'[s] => phase'[s] \in {"revoked", "gone"}
    BY <1>2 DEF TurnInv, TypeOK, ErasureInv, PhaseStep
  <2>2. \A u \in DOMAIN record' \ turns' : erased'[record'[u].session] \/ service' = "closed"
    BY <1>1, <1>2 DEF TurnInv, ErasureInv
  <2>3. \A s \in DOMAIN revoked_sessions : revoked_sessions[s] # t =>
          s \in DOMAIN revoked_sessions' /\ revoked_sessions'[s] = revoked_sessions[s]
    BY DEF GuardStep, Unguarded, Without, Restrict
  <2>4. ASSUME NEW u \in DOMAIN record, erased[record[u].session], job'[u] \in Owning,
               record'[u].terminal = "none"
        PROVE  /\ record[u].session \in DOMAIN revoked_sessions'
               /\ revoked_sessions'[record[u].session] = u
    <3>1. CASE u = t
      <4>1. t \notin turns
        BY <1>2, <2>4, <3>1 DEF TurnInv, NothingSurvivesErasure, TurnsOf
      <4>2. job[t] \in Owning /\ revoked_sessions' = revoked_sessions
        BY <1>1, <1>2, <2>4, <3>1, <4>1 DEF GuardStep
      <4>3. record[t].terminal = "none"
        BY <1>1, <1>2, <2>4, <3>1 DEF EndStep
      <4>4. QED
        BY <2>4, <3>1, <4>2, <4>3 DEF TurnInv, ErasureInv
    <3>2. CASE u # t
      BY <1>1, <1>2, <2>3, <2>4, <3>2 DEF TurnInv, ErasureInv
    <3>3. QED
      BY <3>1, <3>2
  <2>5. QED
    BY <1>1, <1>2, <2>1, <2>2, <2>4 DEF ErasureInv
<1>7. ServiceInv'
  BY <1>1, <1>2 DEF TurnInv, ServiceInv, EndStep, Working
<1>8. RequestsAdmittedOnce'
  BY <1>1, <1>2 DEF TurnInv, RequestsAdmittedOnce
<1>9. NothingSurvivesErasure'
  BY <1>1, <1>2 DEF TurnInv, NothingSurvivesErasure, TurnsOf, EndStep, HeadStep, With, QuestionStep
<1>10. PrivateWhileUsable'
  <2>1. ASSUME NEW u \in DOMAIN record
        PROVE  /\ record'[u].private => u \in turns /\ ~record'[u].cancelled
               /\ record'[u].notes /\ u \in turns /\ record'[u].terminal # "none"
                    => ~record'[u].cancelled
    <3>1. CASE u = t
      <4>1. r.private => t \in turns /\ ~r.cancelled
        BY DEF PrivateStep
      <4>2. r.cancelled /\ r.notes /\ t \in turns => r.terminal = "none"
        BY <1>2 DEF PrivateStep, NotesStep, RecordFits, Noting, Late
      <4>3. QED
        BY <1>1, <3>1, <4>1, <4>2
    <3>2. CASE u # t
      BY <1>1, <3>2 DEF TurnInv, PrivateWhileUsable
    <3>3. QED
      BY <3>1, <3>2
  <2>2. HeadsCanBeBasis'
    BY <1>1, <1>2 DEF TurnInv, PrivateWhileUsable, HeadsCanBeBasis, HeadStep, With
  <2>3. QED
    BY <1>1, <1>2, <2>1, <2>2 DEF PrivateWhileUsable
<1>11. PrivateInv'
  BY <1>1, <1>2 DEF TurnInv, PrivateInv, PrivateStep, NotesStep
<1>12. QuestionInv'
  <2>1. ASSUME NEW s \in Sessions, NEW u, u = question'[s].holder, u # 0
        PROVE  /\ u \in turns /\ record'[u].session = s /\ record'[u].answers = question'[s].id
               /\ Releases(call', u, record'[u], job'[u])
    <3>1. CASE u = t
      BY <1>1, <1>2, <2>1, <3>1 DEF QuestionStep, Releases, Cancelling
    <3>2. CASE u # t
      <4>1. u = question[s].holder /\ question'[s].id = question[s].id
        BY <2>1, <3>2 DEF QuestionStep
      <4>2. /\ u \in turns /\ record[u].session = s /\ record[u].answers = question[s].id
            /\ Releases(call, u, record[u], job[u])
        BY <2>1, <4>1 DEF TurnInv, QuestionInv
      <4>3. record'[u] = record[u] /\ job'[u] = job[u]
        BY <1>1, <1>2, <3>2, <4>2
      <4>4. QED
        BY <1>2, <4>1, <4>2, <4>3 DEF Releases, Cancelling
    <3>3. QED
      BY <3>1, <3>2
  <2>2. \A s \in Sessions : question'[s].id < next_question'
                           /\ (question'[s].id # 0 => question'[s].asker # 0)
    BY DEF QuestionStep
  <2>3. QED
    BY <1>2, <2>1, <2>2 DEF QuestionInv, Releases, Cancelling
<1>13. VisibleInv'
  <2>1. ASSUME NEW s \in Sessions, service = "open", question'[s].id # 0
        PROVE  \E u \in turns : record'[u].session = s /\ Shows(question'[s], u, record'[u], job'[u])
    <3>1. CASE t \in turns /\ s = r.session /\ Shows(question'[s], t, r, j)
      BY <1>1, <1>2, <3>1
    <3>2. CASE /\ question'[s].id = question[s].id /\ question'[s].asker = question[s].asker
               /\ t \in turns /\ s = r.session /\ Shows(question[s], t, record[t], job[t])
                    => Shows(question'[s], t, r, j)
      <4>1. PICK u \in turns : record[u].session = s /\ Shows(question[s], u, record[u], job[u])
        BY <2>1, <3>2 DEF TurnInv, VisibleInv
      <4>2. CASE u = t
        BY <1>1, <1>2, <3>2, <4>1, <4>2
      <4>3. CASE u # t
        <5>1. record'[u] = record[u] /\ job'[u] = job[u]
          BY <1>1, <1>2, <4>3
        <5>2. Shows(question'[s], u, record'[u], job'[u])
          BY <3>2, <4>1, <5>1 DEF Shows
        <5>3. QED
          BY <4>1, <5>1, <5>2
      <4>4. QED
        BY <4>2, <4>3
    <3>3. QED
      BY <2>1, <3>1, <3>2 DEF QuestionStep
  <2>2. QED
    BY <1>2, <2>1 DEF VisibleInv
<1>14. ResultsStay
  <2>1. ASSUME NEW k \in DOMAIN proposal_heads
        PROVE  /\ k \in DOMAIN proposal_heads'
               /\ \/ proposal_heads'[k] = proposal_heads[k]
                  \/ record[proposal_heads'[k]].basis = proposal_heads[k]
    BY DEF HeadStep, HeadStands, HeadIs, With
  <2>2. \A u \in DOMAIN record :
          record[u].terminal # "none" => record'[u].terminal = record[u].terminal
    BY <1>1, <1>2 DEF EndStep
  <2>3. QED
    BY <2>1, <2>2 DEF ResultsStay
<1>15. QED
  BY <1>1, <1>3, <1>4, <1>5, <1>6, <1>7, <1>8, <1>9, <1>10, <1>11, <1>12, <1>13, <1>14 DEF TurnInv

-----------------------------------------------------------------------------
(* What the steps of a worker have in common                               *)

LEMMA WorkerFacts ==
  ASSUME TurnInv, NEW t \in TurnIds, job[t] \in Working
  PROVE  /\ t \in DOMAIN record /\ record[t] \in Records /\ record[t].session \in Sessions
         /\ RecordFits(record[t], job[t])
         /\ t # 0 /\ t \in 1 .. MaxTurn
         /\ MaxTurn \in Nat /\ MaxQuestion \in Nat
<1>1. job[t] # "none"
  BY DEF Working
<1>2. t \in DOMAIN record /\ record[t] \in Records
  BY <1>1 DEF TurnInv, RunInv, TypeOK
<1>3. QED
  BY <1>2, LimitsAreNumbers DEF TurnInv, RunInv, Records, TurnIds

\* Notes are only kept where the worker that wrote them goes on.
LEMMA NotesKept ==
  ASSUME TurnInv, NEW t, NEW r, NEW j, r.cancelled = record[t].cancelled, r.notes = record[t].notes,
         job[t] \in Noting => j \in Noting
  PROVE  NotesStep(t, r, j)
BY DEF TurnInv, PrivateInv, NotesStep

\* clear_private
LEMMA EmptiedFacts ==
  ASSUME MaxTurn \in Nat, NEW r \in Records
  PROVE  LET e == Emptied(r)
         IN  /\ e \in Records /\ e.session = r.session /\ e.request = r.request
             /\ e.target = r.target /\ e.basis = r.basis /\ e.answers = r.answers
             /\ e.asks = r.asks /\ e.result = r.result /\ e.terminal = r.terminal
             /\ e.started = r.started /\ e.cancelled = r.cancelled
             /\ e.private = FALSE /\ e.notes = FALSE /\ e.rest = 0
<1>1. 0 \in 0 .. MaxTurn
  OBVIOUS
<1>2. PICK e : e = [r EXCEPT !.private = FALSE, !.notes = FALSE, !.rest = 0]
  OBVIOUS
<1>3. /\ e \in Records /\ e.session = r.session /\ e.request = r.request
      /\ e.target = r.target /\ e.basis = r.basis /\ e.answers = r.answers
      /\ e.asks = r.asks /\ e.result = r.result /\ e.terminal = r.terminal
      /\ e.started = r.started /\ e.cancelled = r.cancelled
      /\ e.private = FALSE /\ e.notes = FALSE /\ e.rest = 0
  BY <1>1, <1>2 DEF Records
<1>4. Emptied(r) = e
  BY <1>2 DEF Emptied
<1>5. QED
  BY <1>3, <1>4

\* A step after which the record is as private and as finished as before.
LEMMA MoveKeeps ==
  ASSUME TurnInv, NEW t \in TurnIds, NEW r, NEW j, WorkerStep(t, r, j), NotesStep(t, r, j),
         job[t] # "abandoned", r.terminal = record[t].terminal, r.private = record[t].private,
         r.started = record[t].started, active' = active, proposal_heads' = proposal_heads,
         PhaseStep, GuardStep(t, r, j), QuestionStep(t, r, j)
  PROVE  TurnInv' /\ ResultsStay
<1>1. t \in DOMAIN record /\ r.cancelled = record[t].cancelled
  BY DEF WorkerStep
<1>2. EndStep(t, r)
  BY <1>1 DEF TurnInv, CancelInv, EndStep
<1>3. PrivateStep(t, r, j)
  BY <1>1 DEF TurnInv, PrivateWhileUsable, PrivateInv, PrivateStep
<1>4. HeadStep(t, r)
  BY DEF HeadStep
<1>5. QED
  BY <1>2, <1>3, <1>4, WorkerKeeps

LEMMA QuestionKept ==
  ASSUME TurnInv, NEW t \in TurnIds, NEW r, NEW j,
         r.session = record[t].session, r.answers = record[t].answers,
         question' = question, next_question' = next_question,
         Releases(call, t, record[t], job[t]) => Releases(call, t, r, j),
         \A q : q.id # 0 /\ q.asker # 0 /\ Shows(q, t, record[t], job[t]) => Shows(q, t, r, j)
  PROVE  QuestionStep(t, r, j)
<1>1. /\ question' \in [Sessions -> [id : 0 .. MaxQuestion, asker : 0 .. MaxTurn, holder : 0 .. MaxTurn]]
      /\ next_question' \in 1 .. MaxQuestion + 1
  BY DEF TurnInv, TypeOK
<1>2. ASSUME NEW s \in Sessions
      PROVE  /\ question'[s].id < next_question'
             /\ erased[s] => question'[s] = NoQuestion
             /\ question'[s].id # 0 => question'[s].asker # 0
             /\ question'[s].holder = t =>
                   t \in turns /\ s = r.session /\ r.answers = question'[s].id
                   /\ Releases(call, t, r, j)
  BY DEF TurnInv, NothingSurvivesErasure, QuestionInv, TurnIds
<1>3. QED
  BY <1>1, <1>2 DEF QuestionStep

\* The claims of t end.
LEMMA QuestionUnclaimed ==
  ASSUME TurnInv, NEW t \in TurnIds, t # 0, NEW r, NEW j,
         r.session = record[t].session, r.answers = record[t].answers,
         question' = Unclaimed({t}), next_question' = next_question,
         \A q : q.id # 0 /\ q.asker # 0 /\ Shows(q, t, record[t], job[t]) => Shows(q, t, r, j)
  PROVE  QuestionStep(t, r, j)
<1>1. \A s \in Sessions : /\ question[s].id \in 0 .. MaxQuestion /\ question[s].asker \in 0 .. MaxTurn
                          /\ question[s].holder \in 0 .. MaxTurn /\ question[s].id < next_question
                          /\ question[s].id # 0 => question[s].asker # 0
  BY DEF TurnInv, TypeOK, QuestionInv
<1>2. ASSUME NEW s \in Sessions
      PROVE  /\ question'[s] \in [id : 0 .. MaxQuestion, asker : 0 .. MaxTurn, holder : 0 .. MaxTurn]
             /\ question'[s].id = question[s].id
             /\ question'[s].asker = question[s].asker
             /\ question'[s].holder = IF question[s].holder = t THEN 0 ELSE question[s].holder
             /\ question[s].holder # t => question'[s] = question[s]
  <2>1. question[s] \in [id : 0 .. MaxQuestion, asker : 0 .. MaxTurn, holder : 0 .. MaxTurn]
        /\ 0 \in 0 .. MaxTurn
    BY LimitsAreNumbers DEF TurnInv, TypeOK
  <2>2. CASE question[s].holder = t
    <3>1. question'[s] = [question[s] EXCEPT !.holder = 0]
      BY <2>2 DEF Unclaimed
    <3>2. QED
      BY <2>1, <2>2, <3>1
  <2>3. CASE question[s].holder # t
    <3>1. question'[s] = question[s]
      BY <2>3 DEF Unclaimed
    <3>2. QED
      BY <2>1, <2>3, <3>1
  <2>4. QED
    BY <2>2, <2>3
<1>3. question' \in [Sessions -> [id : 0 .. MaxQuestion, asker : 0 .. MaxTurn, holder : 0 .. MaxTurn]]
  BY <1>2 DEF Unclaimed
<1>4. next_question' \in 1 .. MaxQuestion + 1
  BY DEF TurnInv, TypeOK
<1>5. ASSUME NEW s \in Sessions, erased[s]
      PROVE  question'[s] = NoQuestion
  <2>1. question[s] = NoQuestion
    BY <1>5 DEF TurnInv, NothingSurvivesErasure
  <2>2. question[s].holder # t
    BY <2>1 DEF NoQuestion
  <2>3. QED
    BY <1>2, <2>1, <2>2
<1>6. ASSUME NEW s \in Sessions
      PROVE  /\ question'[s].id = question[s].id /\ question'[s].asker = question[s].asker
             /\ question'[s].holder # t
             /\ question'[s].holder # 0 => question'[s].holder = question[s].holder
             /\ Shows(question[s], t, r, j) => Shows(question'[s], t, r, j)
  BY <1>2 DEF Shows
<1>7. QED
  BY <1>1, <1>2, <1>3, <1>4, <1>5, <1>6 DEF QuestionStep

LEMMA DiscardedFacts ==
  ASSUME TurnInv, NEW t \in DOMAIN record, NEW T, question' = Discarded(record[t].session, T)
  PROVE  /\ question' \in [Sessions -> [id : 0 .. MaxQuestion, asker : 0 .. MaxTurn, holder : 0 .. MaxTurn]]
         /\ \A s \in Sessions : question'[s] \in {question[s], NoQuestion}
         /\ \A s \in Sessions : s = record[t].session /\ question'[s].id # 0 => question[s].asker \notin T
<1> DEFINE Q == [id : 0 .. MaxQuestion, asker : 0 .. MaxTurn, holder : 0 .. MaxTurn]
           u == record[t].session
<1>1. question \in [Sessions -> Q] /\ NoQuestion \in Q /\ NoQuestion.id = 0 /\ u \in Sessions
  BY StoreFacts DEF TurnInv, TypeOK, NoQuestion
<1>2. CASE question[u].id # 0 /\ question[u].asker \in T
  <2>1. question' = [question EXCEPT ![u] = NoQuestion]
    BY <1>2 DEF Discarded
  <2> HIDE DEF Q, u
  <2>2. question' \in [Sessions -> Q]
        /\ \A s \in Sessions : question'[s] = IF s = u THEN NoQuestion ELSE question[s]
    BY <1>1, <2>1
  <2>3. QED
    BY <1>1, <2>2 DEF Q, u
<1>3. CASE ~(question[u].id # 0 /\ question[u].asker \in T)
  <2>1. question' = question
    BY <1>3 DEF Discarded
  <2>2. QED
    BY <1>1, <1>3, <2>1
<1>4. QED
  BY <1>2, <1>3

\* A question of t's session is withdrawn, or t shows it as before.
LEMMA QuestionDiscarded ==
  ASSUME TurnInv, NEW t \in TurnIds, job[t] \in Late, NEW r, NEW j, NEW T,
         r.session = record[t].session, r.answers = record[t].answers,
         question' = Discarded(record[t].session, T), next_question' = next_question,
         Releases(call, t, record[t], job[t]) => Releases(call, t, r, j),
         \A q : q.id # 0 /\ q.asker \notin T /\ Shows(q, t, record[t], job[t]) => Shows(q, t, r, j)
  PROVE  QuestionStep(t, r, j)
<1>1. t \in DOMAIN record
  BY DEF TurnInv, RunInv, Late
<1>2. /\ question' \in [Sessions -> [id : 0 .. MaxQuestion, asker : 0 .. MaxTurn, holder : 0 .. MaxTurn]]
      /\ \A s \in Sessions : question'[s] \in {question[s], NoQuestion}
      /\ \A s \in Sessions : s = record[t].session /\ question'[s].id # 0 => question[s].asker \notin T
  BY <1>1, DiscardedFacts
<1>3. NoQuestion.id = 0 /\ NoQuestion.holder = 0 /\ next_question \in 1 .. MaxQuestion + 1
  BY DEF NoQuestion, TurnInv, TypeOK
<1>4. ASSUME NEW s \in Sessions
      PROVE  /\ question'[s].id < next_question'
             /\ erased[s] => question'[s] = NoQuestion
             /\ question'[s].id # 0 => question'[s].asker # 0
             /\ question'[s].holder \notin {0, t} =>
                   question'[s].holder = question[s].holder /\ question'[s].id = question[s].id
             /\ question'[s].holder = t =>
                   t \in turns /\ s = r.session /\ r.answers = question'[s].id
                   /\ Releases(call, t, r, j)
             /\ question'[s].id # 0 => question'[s] = question[s]
  <2>1. CASE question'[s] = NoQuestion
    <3>1. t # 0 /\ MaxQuestion \in Nat
      BY StoreFacts
    <3>2. 0 < next_question'
      BY <1>3, <3>1
    <3>3. QED
      BY <1>3, <2>1, <3>1, <3>2
  <2>2. CASE question'[s] = question[s]
    <3>1. /\ question[s].id < next_question
          /\ erased[s] => question[s] = NoQuestion
          /\ question[s].id # 0 => question[s].asker # 0
      BY DEF TurnInv, QuestionInv, NothingSurvivesErasure
    <3>2. question[s].holder = t =>
             /\ t \in turns /\ record[t].session = s /\ record[t].answers = question[s].id
             /\ Releases(call, t, record[t], job[t])
      BY DEF TurnInv, QuestionInv, TurnIds
    <3>3. QED
      BY <2>2, <3>1, <3>2
  <2>3. QED
    BY <1>2, <2>1, <2>2
<1>5. \A s \in Sessions : question'[s].id # 0 /\ s = r.session /\ Shows(question[s], t, record[t], job[t])
                            => Shows(question'[s], t, r, j)
  BY <1>2, <1>4
<1>6. QED
  BY <1>2, <1>3, <1>4, <1>5 DEF QuestionStep

\* The question of t's session is answered in full.
LEMMA QuestionConsumed ==
  ASSUME TurnInv, NEW t \in TurnIds, NEW r, NEW j,
         r.session = record[t].session,
         question' = Consumed(t), next_question' = next_question
  PROVE  QuestionStep(t, r, j)
<1>1. NoQuestion \in [id : 0 .. MaxQuestion, asker : 0 .. MaxTurn, holder : 0 .. MaxTurn]
  BY LimitsAreNumbers DEF NoQuestion
<1>2. question' \in [Sessions -> [id : 0 .. MaxQuestion, asker : 0 .. MaxTurn, holder : 0 .. MaxTurn]]
  BY <1>1 DEF Consumed, TurnInv, TypeOK
<1>3. \A s \in Sessions :
        question'[s] = IF s = record[t].session THEN NoQuestion ELSE question[s]
  BY DEF Consumed, TurnInv, TypeOK
<1>4. NoQuestion.id = 0 /\ NoQuestion.holder = 0 /\ next_question \in 1 .. MaxQuestion + 1
  BY DEF NoQuestion, TurnInv, TypeOK
<1>5. ASSUME NEW s \in Sessions
      PROVE  /\ question'[s].id < next_question'
             /\ erased[s] => question'[s] = NoQuestion
             /\ question'[s].id # 0 => question'[s].asker # 0
             /\ question'[s].holder # t
             /\ question'[s].holder # 0 =>
                   question'[s].holder = question[s].holder /\ question'[s].id = question[s].id
             /\ question'[s].id # 0 => question'[s] = question[s] /\ s # record[t].session
  <2>1. CASE s = record[t].session
    BY <1>3, <1>4, <2>1 DEF TurnIds
  <2>2. CASE s # record[t].session
    BY <1>3, <2>2 DEF TurnInv, QuestionInv, NothingSurvivesErasure, TurnIds
  <2>3. QED
    BY <2>1, <2>2
<1>6. QED
  BY <1>2, <1>4, <1>5 DEF QuestionStep

\* A worker that still has the question of its turn is not erased.
LEMMA AnswersInStore ==
  ASSUME TurnInv, NEW t \in TurnIds, job[t] \in Working, record[t].answers # 0,
         question[record[t].session].id = record[t].answers
  PROVE  t \in turns
<1>1. t \in DOMAIN record /\ record[t].session \in Sessions
  BY WorkerFacts
<1>2. service # "closed"
  BY DEF TurnInv, ServiceInv
<1>3. ~erased[record[t].session]
  BY <1>1 DEF TurnInv, NothingSurvivesErasure, NoQuestion
<1>4. QED
  BY <1>1, <1>2, <1>3 DEF TurnInv, ErasureInv

-----------------------------------------------------------------------------
(* The steps of a worker, one by one                                       *)

LEMMA PopWorkKeeps ==
  ASSUME TurnInv, NEW t \in TurnIds, PopWork(t)
  PROVE  TurnInv' /\ ResultsStay
<1>1. job[t] = "started" /\ job[t] \in Working
  BY DEF PopWork, Working
<1>2. /\ t \in DOMAIN record /\ record[t] \in Records /\ RecordFits(record[t], job[t]) /\ t # 0
  BY <1>1, WorkerFacts
<1>3. PhaseStep
  BY DEF PopWork, PhaseStep, sessionVars
<1>4. CASE /\ t \in admitted_work /\ admitted_work' = WorkLeft({t}) /\ Goto(t, "popped")
           /\ UNCHANGED <<question, revoked_sessions>>
  <2>1. WorkerStep(t, record[t], "popped")
    BY <1>1, <1>2, <1>4 DEF PopWork, WorkerStep, Goto, WorkLeft, sessionVars, RecordFits, Working,
                            Late, Fresh, Early
  <2>2. GuardStep(t, record[t], "popped")
    BY <1>4 DEF GuardStep, TurnInv, TypeOK
  <2>3. QuestionStep(t, record[t], "popped")
    <3>1. Releases(call, t, record[t], job[t]) => Releases(call, t, record[t], "popped")
      BY <1>1 DEF Releases, Owning
    <3>2. \A q : Shows(q, t, record[t], job[t]) => Shows(q, t, record[t], "popped")
      BY <1>1 DEF Shows, Late
    <3>3. QED
      BY <1>4, <3>1, <3>2, QuestionKept DEF PopWork
  <2>4. NotesStep(t, record[t], "popped")
    BY <1>1, NotesKept DEF Noting
  <2>5. QED
    BY <1>1, <1>3, <2>1, <2>2, <2>3, <2>4, MoveKeeps DEF PopWork
<1>5. CASE /\ question' = Unclaimed({t}) /\ revoked_sessions' = Unguarded({t}) /\ Goto(t, "done")
           /\ UNCHANGED admitted_work
  <2>1. WorkerStep(t, record[t], "done")
    BY <1>1, <1>2, <1>5 DEF PopWork, WorkerStep, Goto, sessionVars, RecordFits, Working,
                            Late, Fresh, Early
  <2>2. GuardStep(t, record[t], "done")
    BY <1>5 DEF GuardStep, Owning, Late
  <2>3. QuestionStep(t, record[t], "done")
    <3>1. \A q : Shows(q, t, record[t], job[t]) => Shows(q, t, record[t], "done")
      BY <1>1 DEF Shows, Late
    <3>2. QED
      BY <1>2, <1>5, <3>1, QuestionUnclaimed DEF PopWork
  <2>4. NotesStep(t, record[t], "done")
    BY <1>1, NotesKept DEF Noting
  <2>5. QED
    BY <1>1, <1>3, <2>1, <2>2, <2>3, <2>4, MoveKeeps DEF PopWork
<1>6. QED
  BY <1>4, <1>5 DEF PopWork

LEMMA StartRunKeeps ==
  ASSUME TurnInv, NEW t \in TurnIds, StartRun(t)
  PROVE  TurnInv' /\ ResultsStay
<1>1. job[t] = "popped" /\ job[t] \in Working
  BY DEF StartRun, Working
<1>2. /\ t \in DOMAIN record /\ record[t] \in Records /\ RecordFits(record[t], job[t])
  BY <1>1, WorkerFacts
<1>3. PhaseStep
  BY DEF StartRun, PhaseStep, sessionVars
<1>4. CASE record[t].terminal # "none" /\ Goto(t, "done") /\ UNCHANGED record
  <2>1. WorkerStep(t, record[t], "done")
    BY <1>1, <1>2, <1>4 DEF StartRun, WorkerStep, Goto, sessionVars, storeVars, RecordFits, Working,
                            Late, Fresh, Early
  <2>2. GuardStep(t, record[t], "done")
    BY DEF StartRun, dialogueVars, GuardStep, Owning, Late
  <2>3. QuestionStep(t, record[t], "done")
    <3>1. Releases(call, t, record[t], job[t]) => Releases(call, t, record[t], "done")
      BY <1>1, <1>4 DEF Releases
    <3>2. \A q : Shows(q, t, record[t], job[t]) => Shows(q, t, record[t], "done")
      BY <1>1 DEF Shows, Late
    <3>3. QED
      BY <3>1, <3>2, QuestionKept DEF StartRun, dialogueVars
  <2>4. NotesStep(t, record[t], "done")
    BY <1>1, NotesKept DEF Noting
  <2>5. QED
    BY <1>1, <1>3, <2>1, <2>2, <2>3, <2>4, MoveKeeps DEF StartRun, storeVars
<1>5. CASE /\ record[t].terminal = "none" /\ Goto(t, "running")
           /\ record' = [record EXCEPT ![t].started = TRUE]
  <2>1. PICK r : r = [record[t] EXCEPT !.started = TRUE]
    OBVIOUS
  <2>2. /\ r \in Records /\ r.session = record[t].session /\ r.request = record[t].request
        /\ r.target = record[t].target /\ r.basis = record[t].basis
        /\ r.answers = record[t].answers /\ r.cancelled = record[t].cancelled
        /\ r.asks = record[t].asks /\ r.result = record[t].result
        /\ r.terminal = record[t].terminal /\ r.private = record[t].private /\ r.started
        /\ r.notes = record[t].notes /\ r.rest = record[t].rest
    BY <1>2, <2>1 DEF Records
  <2>3. RecordFits(r, "running")
    BY <1>1, <1>2, <1>5, <2>2 DEF RecordFits, Late, Fresh, Early
  <2>4. WorkerStep(t, r, "running")
    BY <1>1, <1>2, <1>5, <2>1, <2>2, <2>3 DEF StartRun, WorkerStep, Goto, sessionVars, storeVars, Working
  <2>5. GuardStep(t, r, "running")
    BY <1>1 DEF StartRun, dialogueVars, GuardStep, Owning
  <2>6. QuestionStep(t, r, "running")
    <3>1. Releases(call, t, record[t], job[t]) => Releases(call, t, r, "running")
      BY <1>5, <2>2 DEF Releases, Owning, Late
    <3>2. \A q : Shows(q, t, record[t], job[t]) => Shows(q, t, r, "running")
      BY <1>1, <2>2 DEF Shows, Late
    <3>3. QED
      BY <2>2, <3>1, <3>2, QuestionKept DEF StartRun, dialogueVars
  <2>7. EndStep(t, r)
    BY <2>2 DEF EndStep, StartRun, storeVars, ConditionFree, Cancelling
  <2>8. PrivateStep(t, r, "running")
    <3>1. NotesStep(t, r, "running")
      BY <1>1, <2>2, NotesKept DEF Noting
    <3>2. QED
      BY <1>1, <1>2, <2>2, <3>1 DEF PrivateStep, TurnInv, PrivateInv, PrivateWhileUsable
  <2>9. HeadStep(t, r)
    BY <2>2 DEF HeadStep, StartRun, storeVars
  <2>10. QED
    BY <1>3, <2>4, <2>5, <2>6, <2>7, <2>8, <2>9, WorkerKeeps
<1>6. QED
  BY <1>4, <1>5 DEF StartRun

LEMMA ResolveKeeps ==
  ASSUME TurnInv, NEW t \in TurnIds, Resolve(t)
  PROVE  TurnInv' /\ ResultsStay
<1> DEFINE s == record[t].session
<1>1. job[t] = "running" /\ job[t] \in Working
  BY DEF Resolve, Working
<1>2. /\ t \in DOMAIN record /\ record[t] \in Records /\ s \in Sessions
      /\ RecordFits(record[t], job[t]) /\ t \in 1 .. MaxTurn
  BY <1>1, WorkerFacts
<1>3. PhaseStep
  BY DEF Resolve, PhaseStep, sessionVars
<1>4. t \in turns /\ question[s].id = record[t].answers
  BY <1>1, AnswersInStore DEF Resolve
<1>5. WorkerStep(t, record[t], "running")
  <2>1. job' = [job EXCEPT ![t] = "running"]
    BY <1>1 DEF Resolve, workVars, TurnInv, TypeOK
  <2>2. QED
    BY <1>1, <1>2, <2>1 DEF Resolve, WorkerStep, sessionVars, storeVars, workVars, Working
<1>6. GuardStep(t, record[t], "running")
  BY <1>4 DEF Resolve, GuardStep
<1>7. QuestionStep(t, record[t], "running")
  <2>1. question[s] \in [id : 0 .. MaxQuestion, asker : 0 .. MaxTurn, holder : 0 .. MaxTurn]
    BY <1>2 DEF TurnInv, TypeOK
  <2>2. PICK q : q = [question[s] EXCEPT !.holder = t]
    OBVIOUS
  <2>3. /\ q \in [id : 0 .. MaxQuestion, asker : 0 .. MaxTurn, holder : 0 .. MaxTurn]
        /\ q.id = question[s].id /\ q.asker = question[s].asker /\ q.holder = t
    BY <1>2, <2>1, <2>2
  <2>4. question' = [question EXCEPT ![s] = q]
    BY <2>2 DEF Resolve, Claim
  <2>5. /\ question' \in [Sessions -> [id : 0 .. MaxQuestion, asker : 0 .. MaxTurn, holder : 0 .. MaxTurn]]
        /\ \A u \in Sessions : question'[u] = IF u = s THEN q ELSE question[u]
    BY <2>3, <2>4 DEF TurnInv, TypeOK
  <2>6. next_question' = next_question /\ next_question' \in 1 .. MaxQuestion + 1
    BY DEF Resolve, TurnInv, TypeOK
  <2>7. ~erased[s]
    BY <1>2, <1>4 DEF TurnInv, NothingSurvivesErasure, TurnsOf
  <2>8. Releases(call, t, record[t], "running")
    BY <1>1, <1>2 DEF Releases, Owning, Late, RecordFits
  <2>9. Shows(question[s], t, record[t], job[t]) => Shows(q, t, record[t], "running")
    BY <1>1, <2>3 DEF Shows
  <2>10. ASSUME NEW u \in Sessions, u # s
         PROVE  /\ question'[u] = question[u] /\ question[u].id < next_question
                /\ question[u].id # 0 => question[u].asker # 0
                /\ erased[u] => question'[u] = NoQuestion
                /\ question[u].holder # t
    BY <2>5, <2>10 DEF TurnInv, QuestionInv, NothingSurvivesErasure, TurnIds
  <2>11. question[s].id < next_question /\ (question[s].id # 0 => question[s].asker # 0)
    BY <1>2 DEF TurnInv, QuestionInv
  <2>12. QED
    BY <1>4, <2>3, <2>5, <2>6, <2>7, <2>8, <2>9, <2>10, <2>11 DEF QuestionStep
<1>8. NotesStep(t, record[t], "running")
  BY <1>1, NotesKept DEF Noting
<1>9. QED
  BY <1>1, <1>3, <1>5, <1>6, <1>7, <1>8, MoveKeeps DEF Resolve, storeVars

\* A worker that keeps its record and its question and goes from one job that
\* owns the record to another.
LEMMA GoOnKeeps ==
  ASSUME TurnInv, NEW t \in TurnIds, job[t] \in Late, job[t] # "abandoned", NEW j \in Late,
         RecordFits(record[t], j), job[t] \in Noting => j \in Noting,
         Goto(t, j), record' = record, PhaseStep, erased' = erased,
         question' \in {question, Consumed(t)},
         UNCHANGED <<revoked_sessions, next_question, storeVars, service, call>>
  PROVE  TurnInv' /\ ResultsStay
<1>1. job[t] \in Working /\ j \in Working
  BY DEF Late, Working
<1>2. /\ t \in DOMAIN record /\ record[t] \in Records /\ record[t].terminal = "none"
  BY <1>1, WorkerFacts DEF RecordFits
<1>3. WorkerStep(t, record[t], j)
  BY <1>1, <1>2 DEF WorkerStep, Goto, storeVars
<1>4. GuardStep(t, record[t], j)
  BY DEF GuardStep, Owning
<1>5. QuestionStep(t, record[t], j)
  <2>1. Releases(call, t, record[t], job[t]) => Releases(call, t, record[t], j)
    BY <1>2 DEF Releases, Owning
  <2>2. \A q : Shows(q, t, record[t], job[t]) => Shows(q, t, record[t], j)
    BY DEF Shows
  <2>3. CASE question' = question
    BY <2>1, <2>2, <2>3, QuestionKept
  <2>4. CASE question' = Consumed(t)
    BY <2>4, QuestionConsumed
  <2>5. QED
    BY <2>3, <2>4
<1>6. NotesStep(t, record[t], j)
  BY NotesKept
<1>7. QED
  BY <1>3, <1>4, <1>5, <1>6, MoveKeeps DEF storeVars

\* A worker that writes notes.
LEMMA NoteKeeps ==
  ASSUME TurnInv, NEW t \in TurnIds, job[t] \in Late, job[t] # "abandoned",
         NEW j \in Late \cap Noting, RecordFits(record[t], j), Note(t), Goto(t, j)
  PROVE  TurnInv' /\ ResultsStay
<1>1. job[t] \in Working /\ j \in Working
  BY DEF Late, Working
<1>2. /\ t \in DOMAIN record /\ record[t] \in Records /\ record[t].terminal = "none"
  BY <1>1, WorkerFacts DEF RecordFits
<1>3. PhaseStep /\ UNCHANGED <<erased, dialogueVars, storeVars, service, call>>
  BY DEF Note, PhaseStep, sessionVars
<1>4. PICK r : r = [record[t] EXCEPT !.notes = TRUE]
  OBVIOUS
<1>5. /\ r \in Records /\ r.session = record[t].session /\ r.request = record[t].request
      /\ r.target = record[t].target /\ r.basis = record[t].basis
      /\ r.answers = record[t].answers /\ r.cancelled = record[t].cancelled
      /\ r.private = record[t].private /\ r.started = record[t].started
      /\ r.terminal = record[t].terminal /\ r.asks = record[t].asks
      /\ r.result = record[t].result /\ r.rest = record[t].rest
  BY <1>2, <1>4 DEF Records
<1>6. RecordFits(r, j)
  BY <1>5 DEF RecordFits
<1>7. record' = [record EXCEPT ![t] = r]
  BY <1>4 DEF Note
<1>8. WorkerStep(t, r, j)
  <2>1. \A u \in DOMAIN record : record'[u] = IF u = t THEN r ELSE record[u]
    BY <1>7
  <2>2. DOMAIN record' = DOMAIN record
    BY <1>7
  <2>3. QED
    BY <1>1, <1>2, <1>3, <1>5, <1>6, <2>1, <2>2 DEF WorkerStep, Goto, storeVars
<1>9. GuardStep(t, r, j)
  BY <1>3 DEF GuardStep, Owning, dialogueVars
<1>10. QuestionStep(t, r, j)
  <2>1. Releases(call, t, record[t], job[t]) => Releases(call, t, r, j)
    BY <1>2, <1>5 DEF Releases, Owning
  <2>2. \A q : Shows(q, t, record[t], job[t]) => Shows(q, t, r, j)
    BY <1>5 DEF Shows
  <2>3. QED
    BY <1>3, <1>5, <2>1, <2>2, QuestionKept DEF dialogueVars
<1>11. NotesStep(t, r, j)
  BY DEF NotesStep
<1>12. QED
  BY <1>3, <1>5, <1>8, <1>9, <1>10, <1>11, MoveKeeps DEF storeVars

\* A worker whose turn has asked, or asks again, the question that is open.
LEMMA StageKeeps ==
  ASSUME TurnInv, NEW t \in TurnIds, job[t] \in Late, NEW j \in Late \cap Noting, NEW r,
         RecordFits(r, j), job[t] \in Early, r \in Records,
         r.session = record[t].session, r.request = record[t].request,
         r.target = record[t].target, r.basis = record[t].basis,
         r.answers = record[t].answers, r.cancelled = record[t].cancelled,
         r.private = record[t].private, r.started = record[t].started,
         r.terminal = record[t].terminal,
         Goto(t, j), record' = [record EXCEPT ![t] = r], PhaseStep, erased' = erased,
         UNCHANGED <<dialogueVars, storeVars, service, call>>
  PROVE  TurnInv' /\ ResultsStay
<1>1. job[t] \in Working /\ j \in Working
  BY DEF Late, Working
<1>2. /\ t \in DOMAIN record /\ record[t].terminal = "none" /\ record[t].asks = 0
  BY <1>1, WorkerFacts DEF RecordFits
<1>3. WorkerStep(t, r, j)
  BY <1>1, <1>2 DEF WorkerStep, Goto, storeVars
<1>4. GuardStep(t, r, j)
  BY DEF GuardStep, Owning, dialogueVars
<1>5. QuestionStep(t, r, j)
  <2>1. Releases(call, t, record[t], job[t]) => Releases(call, t, r, j)
    BY <1>2 DEF Releases, Owning
  <2>2. \A q : q.id # 0 /\ Shows(q, t, record[t], job[t]) => Shows(q, t, r, j)
    BY <1>2 DEF Shows
  <2>3. QED
    BY <2>1, <2>2, QuestionKept DEF dialogueVars
<1>6. NotesStep(t, r, j) /\ job[t] # "abandoned"
  BY DEF NotesStep, Early
<1>7. QED
  BY <1>3, <1>4, <1>5, <1>6, MoveKeeps DEF storeVars

\* The part of a question that was not answered is open under a new identifier.
LEMMA RotateKeeps ==
  ASSUME TurnInv, NEW t \in TurnIds, job[t] = "running", record[t].answers # 0,
         StillLive(t), Holds(t), next_question \in QuestionIds, question' = Rotated(t),
         record' = [record EXCEPT ![t].asks = next_question, ![t].result = "asked",
                                     ![t].rest = question[record[t].session].asker],
         next_question' = next_question + 1, Goto(t, "told"), PhaseStep, erased' = erased,
         UNCHANGED <<revoked_sessions, storeVars, service, call>>
  PROVE  TurnInv' /\ ResultsStay
<1> DEFINE s == record[t].session
<1>1. job[t] \in Working /\ "told" \in Working
  BY DEF Working
<1>2. /\ t \in DOMAIN record /\ record[t] \in Records /\ s \in Sessions
      /\ RecordFits(record[t], job[t]) /\ t \in 1 .. MaxTurn
      /\ MaxTurn \in Nat /\ MaxQuestion \in Nat
  BY <1>1, WorkerFacts
<1>3. next_question \in 1 .. MaxQuestion
  BY DEF QuestionIds
<1>4. PICK r : r = [record[t] EXCEPT !.asks = next_question, !.result = "asked",
                                   !.rest = question[s].asker]
  OBVIOUS
<1>5. /\ r \in Records /\ r.session = s /\ r.request = record[t].request
      /\ r.target = record[t].target /\ r.basis = record[t].basis
      /\ r.answers = record[t].answers /\ r.cancelled = record[t].cancelled
      /\ r.private = record[t].private /\ r.started = record[t].started
      /\ r.terminal = record[t].terminal /\ r.asks = next_question /\ r.result = "asked"
      /\ r.notes = record[t].notes /\ r.rest = question[s].asker
  <2>1. question[s].asker \in 0 .. MaxTurn
    BY <1>2 DEF TurnInv, TypeOK
  <2>2. QED
    BY <1>2, <1>3, <1>4, <2>1 DEF Records, Outcomes
<1>6. record[t].started /\ record[t].terminal = "none"
  BY <1>2 DEF RecordFits, Late
<1>7. RecordFits(r, "told")
  BY <1>3, <1>5, <1>6 DEF RecordFits, Late, Fresh, Early
<1>8. WorkerStep(t, r, "told")
  <2>1. \A u \in DOMAIN record : record'[u] = IF u = t THEN r ELSE record[u]
    BY <1>4
  <2>2. DOMAIN record' = DOMAIN record
    OBVIOUS
  <2>3. QED
    BY <1>1, <1>2, <1>5, <1>7, <2>1, <2>2 DEF WorkerStep, Goto, storeVars
<1>9. GuardStep(t, r, "told")
  BY DEF GuardStep, StillLive
<1>10. QuestionStep(t, r, "told")
  <2> DEFINE Q == [id : 0 .. MaxQuestion, asker : 0 .. MaxTurn, holder : 0 .. MaxTurn]
  <2>0. question \in [Sessions -> Q]
    BY DEF TurnInv, TypeOK
  <2>1. question[s] \in Q /\ 0 \in 0 .. MaxTurn /\ next_question \in 0 .. MaxQuestion
    BY <1>2, <1>3, <2>0
  <2>2. PICK q : q = [question[s] EXCEPT !.id = next_question, !.holder = 0]
    OBVIOUS
  <2>3. /\ q \in Q
        /\ q.id = next_question /\ q.holder = 0 /\ q.asker = question[s].asker
    BY <2>1, <2>2
  <2>4. question' = [question EXCEPT ![s] = q]
    BY <2>2 DEF Rotated
  <2>5. /\ question' \in [Sessions -> Q]
        /\ \A u \in Sessions : question'[u] = IF u = s THEN q ELSE question[u]
    <3> HIDE DEF Q
    <3>1. QED
      BY <2>0, <2>3, <2>4
  <2>6. next_question' \in 1 .. MaxQuestion + 1 /\ next_question < next_question'
    BY <1>2, <1>3
  <2>7. t \in turns /\ ~erased[s]
    BY <1>2 DEF StillLive, TurnInv, NothingSurvivesErasure, TurnsOf
  <2>8. record[t].answers = question[s].id /\ question[s].id < next_question
    BY <1>2 DEF Holds, TurnInv, QuestionInv
  <2>9. question[s].asker # 0
    BY <1>2, <2>8 DEF TurnInv, QuestionInv
  <2>10. Shows(q, t, r, "told")
    BY <1>5, <2>3 DEF Shows, Late
  <2>11. ASSUME NEW u \in Sessions, u # s
         PROVE  /\ question'[u] = question[u] /\ question[u].id < next_question
                /\ question[u].id # 0 => question[u].asker # 0
                /\ erased[u] => question'[u] = NoQuestion
                /\ question[u].holder # t /\ question[u].id \in 0 .. MaxQuestion
    <3>1. question'[u] = question[u] /\ question[u].id \in 0 .. MaxQuestion
      BY <2>0, <2>5, <2>11
    <3>2. QED
      BY <1>2, <2>11, <3>1 DEF TurnInv, QuestionInv, NothingSurvivesErasure
  <2>12. \A u \in Sessions : question'[u].id < next_question'
    BY <1>2, <1>3, <2>3, <2>5, <2>6, <2>11
  <2>13. t # 0
    BY <1>2
  <2>14. question'[s] = q /\ s = r.session /\ r.session = s /\ q.holder # t
    BY <1>2, <1>5, <2>3, <2>5, <2>13
  <2>15. ASSUME NEW u \in Sessions
         PROVE  LET v == question'[u]
                IN  /\ v.id < next_question'
                    /\ erased[u] => v = NoQuestion
                    /\ v.id # 0 => v.asker # 0
                    /\ v.holder \notin {0, t} => v.holder = question[u].holder /\ v.id = question[u].id
                    /\ v.holder = t => /\ t \in turns /\ u = r.session /\ r.answers = v.id
                                       /\ Releases(call, t, r, "told")
                    /\ service = "open" /\ v.id # 0 =>
                          \/ /\ v.id = question[u].id /\ v.asker = question[u].asker
                             /\ t \in turns /\ u = r.session
                                   /\ Shows(question[u], t, record[t], job[t]) => Shows(v, t, r, "told")
                          \/ t \in turns /\ u = r.session /\ Shows(v, t, r, "told")
    <3>1. CASE u = s
      BY <2>3, <2>7, <2>9, <2>10, <2>12, <2>14, <3>1
    <3>2. CASE u # s
      <4>1. /\ question'[u] = question[u] /\ question[u].holder # t /\ u # r.session
            /\ question[u].id # 0 => question[u].asker # 0
            /\ erased[u] => question'[u] = NoQuestion
        BY <2>11, <2>14, <3>2
      <4>2. QED
        BY <2>12, <4>1
    <3>3. QED
      BY <3>1, <3>2
  <2>16. QED
    BY <2>5, <2>6, <2>15 DEF QuestionStep
<1>11. NotesStep(t, r, "told")
  BY DEF NotesStep, Noting
<1>12. QED
  BY <1>5, <1>8, <1>9, <1>10, <1>11, MoveKeeps DEF storeVars

LEMMA AnswerKeeps ==
  ASSUME TurnInv, NEW t \in TurnIds, Answer(t)
  PROVE  TurnInv' /\ ResultsStay
<1>1. job[t] = "running" /\ job[t] \in Working /\ job[t] \in Late /\ job[t] \in Early
  BY DEF Answer, Working, Late, Early
<1>2. /\ t \in DOMAIN record /\ record[t] \in Records /\ RecordFits(record[t], job[t])
      /\ MaxQuestion \in Nat
  BY <1>1, WorkerFacts
<1>3. PhaseStep /\ UNCHANGED <<erased, revoked_sessions, storeVars, service, call>>
  BY DEF Answer, PhaseStep, sessionVars
<1>4. /\ RecordFits(record[t], "answered") /\ RecordFits(record[t], "failing")
      /\ RecordFits(record[t], "decided")
      /\ record[t].answers # 0 => RecordFits(record[t], "preview")
      /\ {"decided", "answered", "failing", "preview", "told"} \subseteq Late
      /\ job[t] \notin Noting /\ "told" \in Noting
  BY <1>1, <1>2 DEF RecordFits, Late, Fresh, Early, Noting
<1>5. ASSUME NEW j \in {"decided", "answered", "failing", "preview"}, Goto(t, j), record' = record,
             question' \in {question, Consumed(t)}, next_question' = next_question,
             j = "preview" => record[t].answers # 0
      PROVE  TurnInv' /\ ResultsStay
  BY <1>1, <1>3, <1>4, <1>5, GoOnKeeps
<1>6. CASE AnswerV1(t)
  BY <1>5, <1>6 DEF AnswerV1
<1>7. ASSUME record[t].answers # 0, AnswerV2(t)
      PROVE  TurnInv' /\ ResultsStay
  <2>1. CASE /\ question' = Consumed(t)
             /\ Goto(t, "answered")
             /\ UNCHANGED <<record, next_question>>
    BY <1>5, <2>1
  <2>2. CASE /\ Holds(t)
             /\ next_question \in QuestionIds
             /\ question' = Rotated(t)
             /\ record' = [record EXCEPT ![t].asks = next_question, ![t].result = "asked",
                                         ![t].rest = question[record[t].session].asker]
             /\ next_question' = next_question + 1
             /\ Goto(t, "told")
    BY <1>1, <1>3, <1>7, <2>2, RotateKeeps DEF AnswerV2
  <2>3. CASE /\ record' = [record EXCEPT ![t].asks = record[t].answers, ![t].result = "asked"]
             /\ Goto(t, "told")
             /\ UNCHANGED <<question, next_question>>
    <3>1. PICK r : r = [record[t] EXCEPT !.asks = record[t].answers, !.result = "asked"]
      OBVIOUS
    <3>2. /\ r \in Records /\ r.session = record[t].session /\ r.request = record[t].request
          /\ r.target = record[t].target /\ r.basis = record[t].basis
          /\ r.answers = record[t].answers /\ r.cancelled = record[t].cancelled
          /\ r.private = record[t].private /\ r.started = record[t].started
          /\ r.terminal = record[t].terminal /\ r.asks = record[t].answers /\ r.result = "asked"
      BY <1>2, <3>1 DEF Records, Outcomes
    <3>3. RecordFits(r, "told")
      BY <1>1, <1>2, <1>7, <3>2 DEF RecordFits, Late, Fresh, Early
    <3>4. record' = [record EXCEPT ![t] = r]
      BY <2>3, <3>1
    <3>5. UNCHANGED dialogueVars
      BY <1>3, <2>3 DEF dialogueVars
    <3>6. QED
      BY <1>1, <1>3, <1>4, <2>3, <3>2, <3>3, <3>4, <3>5, StageKeeps
  <2>4. CASE Goto(t, "preview") /\ UNCHANGED <<record, question, next_question>>
    BY <1>5, <1>7, <2>4
  <2>5. QED
    BY <1>7, <2>1, <2>2, <2>3, <2>4 DEF AnswerV2
<1>8. CASE /\ Goto(t, "answered") \/ Goto(t, "failing")
           /\ UNCHANGED <<record, question, next_question>>
  BY <1>5, <1>8
<1>9. QED
  BY <1>6, <1>7, <1>8 DEF Answer

LEMMA RecordDecisionKeeps ==
  ASSUME TurnInv, NEW t \in TurnIds, RecordDecision(t)
  PROVE  TurnInv' /\ ResultsStay
<1>1. job[t] = "decided" /\ job[t] \in Working /\ job[t] \in Late
  BY DEF RecordDecision, Working, Late
<1>2. RecordFits(record[t], job[t])
  BY <1>1, WorkerFacts
<1>3. RecordFits(record[t], "answered") /\ "answered" \in Late \cap Noting
  BY <1>1, <1>2 DEF RecordFits, Late, Fresh, Early, Noting
<1>4. QED
  BY <1>1, <1>3, NoteKeeps DEF RecordDecision

LEMMA AddContextKeeps ==
  ASSUME TurnInv, NEW t \in TurnIds, AddContext(t)
  PROVE  TurnInv' /\ ResultsStay
<1>1. /\ job[t] \in {"answered", "told", "preview"} /\ job[t] \in Working /\ job[t] \in Late
      /\ job[t] # "abandoned"
  BY DEF AddContext, Working, Late
<1>2. RecordFits(record[t], job[t])
  BY <1>1, WorkerFacts
<1>3. /\ job[t] = "answered" => RecordFits(record[t], "ready")
      /\ job[t] = "told" => RecordFits(record[t], "staged")
      /\ job[t] = "preview" => RecordFits(record[t], "provisional")
      /\ RecordFits(record[t], "failing")
      /\ {"ready", "staged", "provisional", "failing"} \subseteq Late \cap Noting
  BY <1>1, <1>2 DEF RecordFits, Late, Fresh, Early, Noting
<1>4. PICK next \in Late \cap Noting :
        /\ RecordFits(record[t], next)
        /\ \/ Note(t) /\ Goto(t, next)
           \/ /\ \E other \in {next, "failing"} : Goto(t, other)
              /\ UNCHANGED <<sessionVars, dialogueVars, storeVars, record, service, call>>
  <2>1. CASE job[t] = "answered"
    BY <1>3, <2>1 DEF AddContext
  <2>2. CASE job[t] = "told"
    BY <1>3, <2>2 DEF AddContext
  <2>3. CASE job[t] = "preview"
    BY <1>3, <2>3 DEF AddContext
  <2>4. QED
    BY <1>1, <2>1, <2>2, <2>3
<1>5. CASE Note(t) /\ Goto(t, next)
  BY <1>1, <1>4, <1>5, NoteKeeps
<1>6. CASE /\ \E other \in {next, "failing"} : Goto(t, other)
           /\ UNCHANGED <<sessionVars, dialogueVars, storeVars, record, service, call>>
  <2>1. PICK j \in Late \cap Noting : Goto(t, j) /\ RecordFits(record[t], j)
    BY <1>3, <1>4, <1>6
  <2>2. PhaseStep /\ erased' = erased
    BY <1>6 DEF PhaseStep, sessionVars
  <2>3. QED
    BY <1>1, <1>6, <2>1, <2>2, GoOnKeeps DEF dialogueVars
<1>7. QED
  BY <1>4, <1>5, <1>6

LEMMA BeginWorkKeeps ==
  ASSUME TurnInv, NEW t \in TurnIds, BeginWork(t)
  PROVE  TurnInv' /\ ResultsStay
<1>1. /\ job[t] \in {"ready", "provisional"} /\ job[t] \in Working /\ job[t] \in Late
      /\ job[t] # "abandoned"
  BY DEF BeginWork, Working, Late
<1>2. RecordFits(record[t], job[t])
  BY <1>1, WorkerFacts
<1>3. /\ RecordFits(record[t], "failing")
      /\ job[t] = "provisional" => RecordFits(record[t], "previewing")
      /\ job[t] = "ready" => RecordFits(record[t], "retrieving")
      /\ {"failing", "previewing", "retrieving"} \subseteq Late \cap Noting
  BY <1>1, <1>2 DEF RecordFits, Late, Fresh, Early, Noting
<1>4. PhaseStep /\ UNCHANGED <<erased, dialogueVars, storeVars, record, service, call>>
  BY DEF BeginWork, PhaseStep, sessionVars, Session!Enter
<1>5. PICK j \in Late \cap Noting : Goto(t, j) /\ RecordFits(record[t], j)
  BY <1>1, <1>3 DEF BeginWork
<1>6. QED
  BY <1>1, <1>4, <1>5, GoOnKeeps DEF dialogueVars

LEMMA KeepRequestKeeps ==
  ASSUME TurnInv, NEW t \in TurnIds, KeepRequest(t)
  PROVE  TurnInv' /\ ResultsStay
<1>1. job[t] = "retrieving" /\ job[t] \in Working /\ job[t] \in Late
  BY DEF KeepRequest, Working, Late
<1>2. RecordFits(record[t], job[t])
  BY <1>1, WorkerFacts
<1>3. RecordFits(record[t], "working") /\ "working" \in Late \cap Noting
  BY <1>1, <1>2 DEF RecordFits, Late, Fresh, Early, Noting
<1>4. QED
  BY <1>1, <1>3, NoteKeeps DEF KeepRequest

LEMMA CommitPreviewKeeps ==
  ASSUME TurnInv, NEW t \in TurnIds, CommitPreview(t)
  PROVE  TurnInv' /\ ResultsStay
<1>1. job[t] = "previewing" /\ job[t] \in Working /\ job[t] \in Late
  BY DEF CommitPreview, Working, Late
<1>2. RecordFits(record[t], job[t])
  BY <1>1, WorkerFacts
<1>3. RecordFits(record[t], "working") /\ "working" \in Late \cap Noting
  BY <1>1, <1>2 DEF RecordFits, Late, Fresh, Early, Noting
<1>4. PhaseStep /\ UNCHANGED <<erased, revoked_sessions, next_question, storeVars, record, service, call>>
  BY DEF CommitPreview, PhaseStep, sessionVars
<1>5. QED
  BY <1>1, <1>3, <1>4, GoOnKeeps DEF CommitPreview

LEMMA LeaveWorkPhases ==
  ASSUME TurnInv, NEW t \in TurnIds, NEW next, job[t] \in Working, LeaveWork(t, next)
  PROVE  PhaseStep /\ erased' = erased /\ (Goto(t, next) \/ Goto(t, "failing"))
<1>1. record[t].session \in Sessions
  BY WorkerFacts
<1>2. QED
  BY <1>1 DEF LeaveWork, PhaseStep, Session!Leave, Session!RevokeAndLeave

LEMMA ReplayQuestionKeeps ==
  ASSUME TurnInv, NEW t \in TurnIds, ReplayQuestion(t)
  PROVE  TurnInv' /\ ResultsStay
<1>1. job[t] = "previewing" /\ job[t] \in Working /\ job[t] \in Late /\ job[t] \in Early
  BY DEF ReplayQuestion, Working, Late, Early
<1>2. /\ t \in DOMAIN record /\ record[t] \in Records /\ RecordFits(record[t], job[t])
      /\ MaxQuestion \in Nat
  BY <1>1, WorkerFacts
<1>3. PhaseStep /\ erased' = erased /\ (Goto(t, "staged") \/ Goto(t, "failing"))
  BY <1>1, LeaveWorkPhases DEF ReplayQuestion
<1>4. PICK r : r = [record[t] EXCEPT !.asks = record[t].answers, !.result = "asked"]
  OBVIOUS
<1>5. /\ r \in Records /\ r.session = record[t].session /\ r.request = record[t].request
      /\ r.target = record[t].target /\ r.basis = record[t].basis
      /\ r.answers = record[t].answers /\ r.cancelled = record[t].cancelled
      /\ r.private = record[t].private /\ r.started = record[t].started
      /\ r.terminal = record[t].terminal /\ r.asks = record[t].answers /\ r.result = "asked"
  BY <1>2, <1>4 DEF Records, Outcomes
<1>6. /\ RecordFits(r, "staged") /\ RecordFits(r, "failing")
      /\ {"staged", "failing"} \subseteq Late \cap Noting
  BY <1>1, <1>2, <1>5 DEF RecordFits, Late, Fresh, Early, Noting
<1>7. record' = [record EXCEPT ![t] = r]
  BY <1>4 DEF ReplayQuestion
<1>8. UNCHANGED <<dialogueVars, storeVars, service, call>>
  BY DEF ReplayQuestion
<1>9. PICK j \in Late \cap Noting : Goto(t, j) /\ RecordFits(r, j)
  BY <1>3, <1>6
<1>10. QED
  BY <1>1, <1>3, <1>5, <1>7, <1>8, <1>9, StageKeeps

LEMMA AskQuestionKeeps ==
  ASSUME TurnInv, NEW t \in TurnIds, AskQuestion(t)
  PROVE  TurnInv' /\ ResultsStay
<1> DEFINE s == record[t].session
<1>1. job[t] = "working" /\ job[t] \in Working /\ job[t] \in Late /\ job[t] \in Owning
  BY DEF AskQuestion, Working, Late, Owning
<1>2. /\ t \in DOMAIN record /\ record[t] \in Records /\ s \in Sessions
      /\ RecordFits(record[t], job[t]) /\ t \in 1 .. MaxTurn /\ t # 0
      /\ MaxTurn \in Nat /\ MaxQuestion \in Nat
  BY <1>1, WorkerFacts
<1>3. next_question \in 1 .. MaxQuestion /\ PhaseStep
      /\ UNCHANGED <<erased, revoked_sessions, storeVars, job, queue, service, call>>
  BY DEF AskQuestion, QuestionIds, PhaseStep, sessionVars, workVars
<1>4. record[t].started /\ record[t].terminal = "none"
  BY <1>1, <1>2 DEF RecordFits
<1>5. t \in turns /\ ~erased[s]
  <2>1. t \in turns
    BY <1>1, <1>2, <1>4 DEF AskQuestion, TurnInv, ErasureInv, ServiceInv
  <2>2. QED
    BY <1>2, <2>1 DEF TurnInv, NothingSurvivesErasure, TurnsOf
<1>6. PICK r : r = [record[t] EXCEPT !.asks = next_question, !.result = "asked"]
  OBVIOUS
<1>7. /\ r \in Records /\ r.session = s /\ r.request = record[t].request
      /\ r.target = record[t].target /\ r.basis = record[t].basis
      /\ r.answers = record[t].answers /\ r.cancelled = record[t].cancelled
      /\ r.private = record[t].private /\ r.started = record[t].started
      /\ r.terminal = record[t].terminal /\ r.asks = next_question /\ r.result = "asked"
  <2>1. record[t] \in Records /\ next_question \in 0 .. MaxQuestion
    BY <1>2, <1>3
  <2>2. QED
    BY <1>6, <2>1 DEF Records, Outcomes
<1>8. RecordFits(r, "working")
  BY <1>3, <1>4, <1>7 DEF RecordFits, Late, Fresh, Early
<1>9. WorkerStep(t, r, "working")
  <2>1. record' = [record EXCEPT ![t] = r]
    BY <1>6 DEF AskQuestion
  <2>2. job' = [job EXCEPT ![t] = "working"]
    BY <1>1, <1>3 DEF TurnInv, TypeOK
  <2>3. \A u \in DOMAIN record : record'[u] = IF u = t THEN r ELSE record[u]
    BY <2>1
  <2>4. DOMAIN record' = DOMAIN record
    BY <2>1
  <2>5. QED
    BY <1>1, <1>2, <1>3, <1>7, <1>8, <2>2, <2>3, <2>4 DEF WorkerStep, storeVars
<1>10. GuardStep(t, r, "working")
  BY <1>3, <1>5 DEF GuardStep
<1>11. QuestionStep(t, r, "working")
  <2> DEFINE Q == [id : 0 .. MaxQuestion, asker : 0 .. MaxTurn, holder : 0 .. MaxTurn]
  <2>0. question \in [Sessions -> Q]
    BY DEF TurnInv, TypeOK
  <2>1. 0 \in 0 .. MaxTurn /\ next_question \in 0 .. MaxQuestion /\ t \in 0 .. MaxTurn
    BY <1>2, <1>3
  <2>2. PICK q : q = [id |-> next_question, asker |-> t, holder |-> 0]
    OBVIOUS
  <2>3. q \in Q /\ q.id = next_question /\ q.holder = 0 /\ q.asker = t
    BY <2>1, <2>2
  <2>4. question' = [question EXCEPT ![s] = q]
    BY <2>2 DEF AskQuestion
  <2>5. /\ question' \in [Sessions -> Q]
        /\ \A u \in Sessions : question'[u] = IF u = s THEN q ELSE question[u]
    <3> HIDE DEF Q
    <3>1. QED
      BY <2>0, <2>3, <2>4
  <2>6. next_question' \in 1 .. MaxQuestion + 1 /\ next_question < next_question'
    BY <1>2, <1>3 DEF AskQuestion
  <2>7. Shows(q, t, r, "working")
    BY <1>7, <2>3 DEF Shows, Late
  <2>8. ASSUME NEW u \in Sessions, u # s
        PROVE  /\ question'[u] = question[u] /\ question[u].id < next_question
               /\ question[u].id # 0 => question[u].asker # 0
               /\ erased[u] => question'[u] = NoQuestion
               /\ question[u].holder # t /\ question[u].id \in 0 .. MaxQuestion
    <3>1. question'[u] = question[u] /\ question[u].id \in 0 .. MaxQuestion
      BY <2>0, <2>5, <2>8
    <3>2. QED
      BY <1>2, <2>8, <3>1 DEF TurnInv, QuestionInv, NothingSurvivesErasure
  <2>9. \A u \in Sessions : question'[u].id < next_question'
    BY <1>2, <1>3, <2>3, <2>5, <2>6, <2>8
  <2>10. QED
    BY <1>2, <1>5, <1>7, <2>3, <2>5, <2>6, <2>7, <2>8, <2>9 DEF QuestionStep
<1>12. NotesStep(t, r, "working")
  BY DEF NotesStep, Noting
<1>13. QED
  BY <1>1, <1>3, <1>7, <1>9, <1>10, <1>11, <1>12, MoveKeeps DEF storeVars

LEMMA EndWorkKeeps ==
  ASSUME TurnInv, NEW t \in TurnIds, EndWork(t)
  PROVE  TurnInv' /\ ResultsStay
<1>1. /\ job[t] \in {"retrieving", "working", "previewing"} /\ job[t] \in Working
      /\ job[t] \in Late /\ job[t] # "abandoned"
  BY DEF EndWork, Working, Late
<1>2. /\ t \in DOMAIN record /\ record[t] \in Records /\ RecordFits(record[t], job[t])
  BY <1>1, WorkerFacts
<1>3. UNCHANGED <<dialogueVars, storeVars, service, call>>
  BY DEF EndWork
<1>4. RecordFits(record[t], "failing") /\ {"staged", "failing"} \subseteq Late \cap Noting
  BY <1>1, <1>2 DEF RecordFits, Late, Fresh, Early, Noting
<1>5. CASE LeaveWork(t, "failing") /\ UNCHANGED record
  <2>1. PhaseStep /\ erased' = erased /\ Goto(t, "failing")
    BY <1>1, <1>5, LeaveWorkPhases
  <2>2. QED
    BY <1>1, <1>3, <1>4, <1>5, <2>1, GoOnKeeps DEF dialogueVars
<1>6. CASE /\ job[t] = "working" /\ record[t].result = "asked" /\ UNCHANGED record
           /\ LeaveWork(t, "staged")
  <2>1. PhaseStep /\ erased' = erased /\ (Goto(t, "staged") \/ Goto(t, "failing"))
    BY <1>1, <1>6, LeaveWorkPhases
  <2>2. RecordFits(record[t], "staged")
    BY <1>2, <1>6 DEF RecordFits, Late, Fresh, Early
  <2>3. PICK j \in Late \cap Noting : Goto(t, j) /\ RecordFits(record[t], j)
    BY <1>4, <2>1, <2>2
  <2>4. QED
    BY <1>1, <1>3, <1>6, <2>1, <2>3, GoOnKeeps DEF dialogueVars
<1>7. ASSUME job[t] = "working", record[t].result # "asked", LeaveWork(t, "staged"),
             NEW outcome \in {"proposed", "answered"},
             record' = [record EXCEPT ![t].result = outcome]
      PROVE  TurnInv' /\ ResultsStay
  <2>1. PhaseStep /\ erased' = erased /\ (Goto(t, "staged") \/ Goto(t, "failing"))
    BY <1>1, <1>7, LeaveWorkPhases
  <2>2. PICK r : r = [record[t] EXCEPT !.result = outcome]
    OBVIOUS
  <2>3. /\ r \in Records /\ r.session = record[t].session /\ r.request = record[t].request
        /\ r.target = record[t].target /\ r.basis = record[t].basis
        /\ r.answers = record[t].answers /\ r.cancelled = record[t].cancelled
        /\ r.private = record[t].private /\ r.started = record[t].started
        /\ r.terminal = record[t].terminal /\ r.asks = record[t].asks /\ r.result = outcome
    BY <1>2, <2>2 DEF Records, Outcomes
  <2>4. record[t].asks = 0 /\ record[t].terminal = "none" /\ record[t].started
    BY <1>2, <1>7 DEF RecordFits, Late
  <2>5. RecordFits(r, "staged") /\ RecordFits(r, "failing")
    BY <2>3, <2>4 DEF RecordFits, Late, Fresh, Early
  <2>6. PICK j \in {"staged", "failing"} : Goto(t, j) /\ RecordFits(r, j)
    BY <2>1, <2>5
  <2>7. WorkerStep(t, r, j)
    <3>1. record' = [record EXCEPT ![t] = r]
      BY <1>7, <2>2
    <3>2. \A u \in DOMAIN record : record'[u] = IF u = t THEN r ELSE record[u]
      BY <3>1
    <3>3. DOMAIN record' = DOMAIN record
      BY <3>1
    <3>4. j \in Working
      BY <2>6 DEF Working
    <3>5. QED
      BY <1>1, <1>2, <1>3, <2>1, <2>3, <2>6, <3>2, <3>3, <3>4 DEF WorkerStep, storeVars, Goto
  <2>8. GuardStep(t, r, j)
    BY <1>1, <1>3 DEF GuardStep, Owning, dialogueVars
  <2>9. QuestionStep(t, r, j)
    <3>1. Releases(call, t, record[t], job[t]) => Releases(call, t, r, j)
      BY <1>4, <2>3, <2>4, <2>6 DEF Releases, Owning
    <3>2. \A q : q.id # 0 /\ Shows(q, t, record[t], job[t]) => Shows(q, t, r, j)
      BY <2>4 DEF Shows
    <3>3. QED
      BY <1>3, <2>3, <3>1, <3>2, QuestionKept DEF dialogueVars
  <2>10. NotesStep(t, r, j)
    BY <1>4, <2>6 DEF NotesStep
  <2>11. QED
    BY <1>1, <1>3, <2>1, <2>3, <2>7, <2>8, <2>9, <2>10, MoveKeeps DEF storeVars
<1>8. QED
  BY <1>5, <1>6, <1>7 DEF EndWork

LEMMA ExitRunKeeps ==
  ASSUME TurnInv, NEW t \in TurnIds, ExitRun(t)
  PROVE  TurnInv' /\ ResultsStay
<1>1. job[t] = "exiting" /\ job[t] \in Working
  BY DEF ExitRun, Working
<1>2. /\ t \in DOMAIN record /\ record[t] \in Records /\ RecordFits(record[t], job[t]) /\ t # 0
  BY <1>1, WorkerFacts
<1>3. PhaseStep /\ UNCHANGED <<erased, next_question, storeVars, record, service, call>>
  BY DEF ExitRun, PhaseStep, sessionVars
<1>4. RecordFits(record[t], "done")
  BY <1>1, <1>2 DEF RecordFits, Late, Fresh, Early
<1>5. WorkerStep(t, record[t], "done")
  BY <1>1, <1>2, <1>3, <1>4 DEF ExitRun, WorkerStep, Goto, storeVars
<1>6. GuardStep(t, record[t], "done")
  BY DEF ExitRun, GuardStep, Owning, Late
<1>7. QuestionStep(t, record[t], "done")
  <2>1. \A q : Shows(q, t, record[t], job[t]) => Shows(q, t, record[t], "done")
    BY <1>1 DEF Shows, Late
  <2>2. QED
    BY <1>2, <1>3, <2>1, QuestionUnclaimed DEF ExitRun
<1>8. NotesStep(t, record[t], "done")
  BY <1>1, NotesKept DEF Noting
<1>9. QED
  BY <1>1, <1>3, <1>5, <1>6, <1>7, <1>8, MoveKeeps DEF storeVars

\* A worker that rewrites its record and goes on.
SameTurn(t, r) ==
  /\ r \in Records
  /\ r.session = record[t].session /\ r.request = record[t].request
  /\ r.target = record[t].target /\ r.basis = record[t].basis /\ r.answers = record[t].answers
  /\ r.asks = record[t].asks /\ r.terminal = record[t].terminal
  /\ r.started = record[t].started /\ r.cancelled = record[t].cancelled

LEMMA RewriteKeeps ==
  ASSUME TurnInv, NEW t \in TurnIds, job[t] \in Late, NEW j \in Late, NEW r, SameTurn(t, r),
         RecordFits(r, j), Goto(t, j), record' = [record EXCEPT ![t] = r],
         PrivateStep(t, r, j), QuestionStep(t, r, j), PhaseStep, erased' = erased,
         UNCHANGED <<revoked_sessions, storeVars, service, call>>
  PROVE  TurnInv' /\ ResultsStay
<1>1. job[t] \in Working /\ j \in Working
  BY DEF Late, Working
<1>2. /\ t \in DOMAIN record /\ record[t].terminal = "none" /\ record[t].started
  BY <1>1, WorkerFacts DEF RecordFits
<1>3. WorkerStep(t, r, j)
  <2>1. \A u \in DOMAIN record : record'[u] = IF u = t THEN r ELSE record[u]
    OBVIOUS
  <2>2. DOMAIN record' = DOMAIN record
    OBVIOUS
  <2>3. QED
    BY <1>1, <1>2, <2>1, <2>2 DEF WorkerStep, Goto, storeVars, SameTurn
<1>4. GuardStep(t, r, j)
  BY DEF GuardStep, Owning
<1>5. EndStep(t, r)
  BY <1>2 DEF EndStep, storeVars, TurnInv, CancelInv, SameTurn
<1>6. HeadStep(t, r)
  BY <1>2 DEF HeadStep, storeVars
<1>7. QED
  BY <1>3, <1>4, <1>5, <1>6, WorkerKeeps

\* What is left of a record that is emptied.
LEMMA EmptiedFits ==
  ASSUME TurnInv, NEW t \in DOMAIN record, NEW r \in {Emptied(record[t]), EmptiedIfCurrent(t)}
  PROVE  /\ SameTurn(t, r) /\ r.result = record[t].result
         /\ r.private => record[t].private /\ t \notin turns
         /\ r.notes => record[t].notes /\ t \notin turns
         /\ r.rest \in {0, record[t].rest}
<1>1. record[t] \in Records /\ MaxTurn \in Nat
  BY StoreFacts
<1>2. CASE r = Emptied(record[t])
  BY <1>1, <1>2, EmptiedFacts DEF SameTurn
<1>3. CASE t \notin turns /\ r = record[t]
  BY <1>1, <1>3 DEF SameTurn
<1>4. QED
  BY <1>2, <1>3 DEF EmptiedIfCurrent

LEMMA PublishKeeps ==
  ASSUME TurnInv, NEW t \in TurnIds, Publish(t)
  PROVE  TurnInv' /\ ResultsStay
<1>1. job[t] = "staged" /\ job[t] \in Working /\ job[t] \in Late /\ job[t] \in Owning
      /\ "published" \in Late /\ "failing" \in Late \cap Noting /\ job[t] # "abandoned"
  BY DEF Publish, Working, Late, Owning, Noting
<1>2. /\ t \in DOMAIN record /\ record[t] \in Records /\ RecordFits(record[t], job[t])
      /\ t \in 1 .. MaxTurn /\ MaxTurn \in Nat
  BY <1>1, WorkerFacts
<1>3. PhaseStep
      /\ UNCHANGED <<erased, revoked_sessions, next_question, storeVars, service, call>>
  BY DEF Publish, PhaseStep, sessionVars
<1>4. record[t].terminal = "none" /\ record[t].started
  BY <1>1, <1>2 DEF RecordFits
<1>5. ASSUME StillLive(t), NEW asker \in Attached(t), Goto(t, "published"), question' = question,
             record' = [record EXCEPT ![t].private = TRUE, ![t].notes = TRUE, ![t].rest = asker]
      PROVE  TurnInv' /\ ResultsStay
  <2>1. PICK r : r = [record[t] EXCEPT !.private = TRUE, !.notes = TRUE, !.rest = asker]
    OBVIOUS
  <2>2. asker \in 0 .. MaxTurn /\ (record[t].rest # 0 => asker = record[t].rest)
    BY <1>2, <1>5 DEF Attached, Records
  <2>3. SameTurn(t, r) /\ r.result = record[t].result /\ r.rest = asker /\ r.private
    BY <1>2, <2>1, <2>2 DEF SameTurn, Records
  <2>4. RecordFits(r, "published")
    BY <1>1, <1>2, <2>3 DEF RecordFits, Late, Fresh, Early, SameTurn
  <2>5. PrivateStep(t, r, "published")
    BY <1>5, <2>3 DEF PrivateStep, NotesStep, StillLive, SameTurn
  <2>6. QuestionStep(t, r, "published")
    <3>1. Releases(call, t, record[t], job[t]) => Releases(call, t, r, "published")
      BY <1>1, <1>4, <2>3 DEF Releases, Owning, SameTurn
    <3>2. \A q : q.id # 0 /\ q.asker # 0 /\ Shows(q, t, record[t], job[t]) => Shows(q, t, r, "published")
      BY <1>1, <1>4, <2>2, <2>3 DEF Shows, SameTurn
    <3>3. QED
      BY <1>3, <1>5, <2>3, <3>1, <3>2, QuestionKept DEF SameTurn
  <2>7. record' = [record EXCEPT ![t] = r]
    BY <1>5, <2>1
  <2>8. QED
    BY <1>1, <1>3, <1>5, <2>3, <2>4, <2>5, <2>6, <2>7, RewriteKeeps
<1>6. CASE /\ ~StillLive(t) /\ record' = [record EXCEPT ![t] = Emptied(@)]
           /\ question' = RestWithdrawn(t) /\ Goto(t, "published")
  <2>1. PICK r : r = Emptied(record[t])
    OBVIOUS
  <2>2. /\ SameTurn(t, r) /\ r.result = record[t].result
        /\ ~r.private /\ ~r.notes
    BY <1>1, <1>2, <2>1, EmptiedFits, EmptiedFacts
  <2>3. RecordFits(r, "published")
    BY <1>1, <1>2, <2>2 DEF RecordFits, Late, Fresh, Early, SameTurn
  <2>4. PrivateStep(t, r, "published")
    BY <1>6, <2>2 DEF PrivateStep, NotesStep, StillLive, SameTurn
  <2>5. QuestionStep(t, r, "published")
    <3>1. Releases(call, t, record[t], job[t]) => Releases(call, t, r, "published")
      BY <1>1, <1>4, <2>2 DEF Releases, Owning, SameTurn
    <3>2. \A q : q.id # 0 /\ q.asker \notin {record[t].rest} /\ Shows(q, t, record[t], job[t])
                   => Shows(q, t, r, "published")
      BY <1>1, <1>4, <2>2 DEF Shows, SameTurn
    <3>3. QED
      BY <1>1, <1>3, <1>6, <2>2, <3>1, <3>2, QuestionDiscarded DEF SameTurn, RestWithdrawn
  <2>6. record' = [record EXCEPT ![t] = r]
    BY <1>6, <2>1
  <2>7. QED
    BY <1>1, <1>3, <1>6, <2>2, <2>3, <2>4, <2>5, <2>6, RewriteKeeps
<1>7. CASE Goto(t, "failing") /\ UNCHANGED <<record, question>>
  <2>1. RecordFits(record[t], "failing")
    BY <1>1, <1>2 DEF RecordFits, Late, Fresh, Early
  <2>2. QED
    BY <1>1, <1>3, <1>7, <2>1, GoOnKeeps
<1>8. QED
  BY <1>5, <1>6, <1>7 DEF Publish

LEMMA FinishCheckKeeps ==
  ASSUME TurnInv, NEW t \in TurnIds, FinishCheck(t)
  PROVE  TurnInv' /\ ResultsStay
<1>1. job[t] = "published" /\ job[t] \in Working /\ job[t] \in Late /\ job[t] \in Owning
      /\ "finishing" \in Late /\ job[t] \notin Noting /\ job[t] # "abandoned"
  BY DEF FinishCheck, Working, Late, Owning, Noting
<1>2. /\ t \in DOMAIN record /\ record[t] \in Records /\ RecordFits(record[t], job[t])
  BY <1>1, WorkerFacts
<1>3. PhaseStep /\ Goto(t, "finishing")
      /\ UNCHANGED <<erased, revoked_sessions, next_question, storeVars, service, call>>
  BY DEF FinishCheck, PhaseStep, sessionVars
<1>4. record[t].terminal = "none" /\ record[t].started
  BY <1>1, <1>2 DEF RecordFits
<1>5. CASE UNCHANGED <<record, question>>
  <2>1. RecordFits(record[t], "finishing")
    BY <1>1, <1>2 DEF RecordFits, Late, Fresh, Early
  <2>2. QED
    BY <1>1, <1>3, <1>5, <2>1, GoOnKeeps
<1>6. CASE /\ record[t].cancelled
           /\ record' = [record EXCEPT ![t] = [EmptiedIfCurrent(t) EXCEPT !.result = "cancelled"]]
           /\ question' = Withdrawn(t)
  <2>1. PICK e : e = EmptiedIfCurrent(t)
    OBVIOUS
  <2>2. /\ SameTurn(t, e)
        /\ e.private => record[t].private /\ t \notin turns
        /\ e.notes => t \notin turns
    BY <1>2, <2>1, EmptiedFits
  <2>3. PICK r : r = [e EXCEPT !.result = "cancelled"]
    OBVIOUS
  <2>4. /\ SameTurn(t, r) /\ r.result = "cancelled" /\ r.private = e.private /\ r.notes = e.notes
    <3>1. e \in Records
      BY <2>2 DEF SameTurn
    <3>2. /\ r \in Records /\ r.session = e.session /\ r.request = e.request
          /\ r.target = e.target /\ r.basis = e.basis /\ r.answers = e.answers
          /\ r.asks = e.asks /\ r.terminal = e.terminal /\ r.started = e.started
          /\ r.cancelled = e.cancelled /\ r.private = e.private /\ r.notes = e.notes
          /\ r.result = "cancelled"
      BY <2>3, <3>1 DEF Records, Outcomes
    <3>3. QED
      BY <2>2, <3>2 DEF SameTurn
  <2>5. RecordFits(r, "finishing")
    BY <1>1, <1>2, <2>4 DEF RecordFits, Late, Fresh, Early, SameTurn
  <2>6. PrivateStep(t, r, "finishing")
    <3>1. ~record[t].private
      BY <1>2, <1>6 DEF TurnInv, PrivateWhileUsable
    <3>2. ~r.private /\ (r.notes => t \notin turns) /\ r.cancelled
      BY <1>6, <2>2, <2>4, <3>1 DEF SameTurn
    <3>3. QED
      BY <3>2 DEF PrivateStep, NotesStep
  <2>7. QuestionStep(t, r, "finishing")
    <3>1. Releases(call, t, record[t], job[t]) => Releases(call, t, r, "finishing")
      BY <1>1, <1>4, <2>4 DEF Releases, Owning, SameTurn
    <3>2. \A q : q.id # 0 /\ q.asker \notin {t, record[t].rest} => ~Shows(q, t, record[t], job[t])
      BY <1>4 DEF Shows
    <3>3. QED
      BY <1>1, <1>3, <1>6, <2>4, <3>1, <3>2, QuestionDiscarded DEF SameTurn, Withdrawn
  <2>8. record' = [record EXCEPT ![t] = r]
    BY <1>6, <2>1, <2>3
  <2>9. QED
    BY <1>1, <1>3, <2>4, <2>5, <2>6, <2>7, <2>8, RewriteKeeps
<1>7. QED
  BY <1>5, <1>6 DEF FinishCheck

LEMMA AbandonKeeps ==
  ASSUME TurnInv, NEW t \in TurnIds, Abandon(t)
  PROVE  TurnInv' /\ ResultsStay
<1>1. job[t] = "failing" /\ job[t] \in Working /\ job[t] \in Late /\ "abandoned" \in Late
  BY DEF Abandon, Working, Late
<1>2. /\ t \in DOMAIN record /\ RecordFits(record[t], job[t])
  BY <1>1, WorkerFacts
<1>3. PhaseStep /\ Goto(t, "abandoned")
      /\ UNCHANGED <<erased, revoked_sessions, next_question, storeVars, service, call>>
  BY DEF Abandon, PhaseStep, sessionVars
<1>4. PICK r : r = EmptiedIfCurrent(t)
  OBVIOUS
<1>5. /\ SameTurn(t, r) /\ r.result = record[t].result
      /\ r.private => record[t].private /\ t \notin turns
      /\ r.notes => t \notin turns
      /\ t \notin turns => r.rest = record[t].rest
  BY <1>2, <1>4, EmptiedFits DEF EmptiedIfCurrent
<1>6. RecordFits(r, "abandoned")
  BY <1>1, <1>2, <1>5 DEF RecordFits, Late, Fresh, Early, SameTurn
<1>7. PrivateStep(t, r, "abandoned")
  BY <1>2, <1>5 DEF PrivateStep, NotesStep, TurnInv, PrivateWhileUsable
<1>8. QuestionStep(t, r, "abandoned")
  <2>1. Releases(call, t, record[t], job[t]) => Releases(call, t, r, "abandoned")
    BY <1>1, <1>2, <1>5 DEF Releases, Owning, SameTurn, RecordFits
  <2>2. CASE t \in turns
    <3>1. \A q : q.id # 0 /\ q.asker \notin {record[t].rest} /\ Shows(q, t, record[t], job[t])
                   => Shows(q, t, r, "abandoned")
      BY <1>1, <1>5 DEF Shows, SameTurn
    <3>2. QED
      BY <1>1, <1>3, <1>5, <2>1, <2>2, <3>1, QuestionDiscarded
         DEF Abandon, SameTurn, RestWithdrawnIfCurrent, RestWithdrawn
  <2>3. CASE t \notin turns
    <3>1. \A q : Shows(q, t, record[t], job[t]) => Shows(q, t, r, "abandoned")
      BY <1>1, <1>5, <2>3 DEF Shows, SameTurn
    <3>2. question' = question
      BY <2>3 DEF Abandon, RestWithdrawnIfCurrent
    <3>3. QED
      BY <1>3, <1>5, <2>1, <3>1, <3>2, QuestionKept DEF SameTurn
  <2>4. QED
    BY <2>2, <2>3
<1>9. record' = [record EXCEPT ![t] = r]
  BY <1>4 DEF Abandon
<1>10. QED
  BY <1>1, <1>3, <1>5, <1>6, <1>7, <1>8, <1>9, RewriteKeeps

\* The turn ends with an outcome of its own.
LEMMA EndKeeps ==
  ASSUME TurnInv, NEW t \in TurnIds, job[t] \in {"finishing", "abandoned"},
         NEW outcome \in Outcomes \ {"none"}, Terminate(t, outcome),
         Goto(t, "exiting"), phase' = phase,
         \/ proposal_heads' = proposal_heads
         \/ /\ outcome = "proposed" /\ record[t].private /\ t \in turns /\ HeadStands(t)
            /\ proposal_heads' = With(proposal_heads, <<record[t].session, record[t].target>>, t),
         \/ question' = Withdrawn(t)
         \/ question' = question /\ (record[t].result = "asked" => outcome = "asked"),
         UNCHANGED <<erased, revoked_sessions, next_question, turns, idempotency,
                     admitted_work, next_turn, service, call>>
  PROVE  TurnInv' /\ ResultsStay
<1>1. job[t] \in Working /\ job[t] \in Late /\ job[t] \in Owning /\ "exiting" \in Working
      /\ job[t] \notin Noting
  BY DEF Working, Late, Owning, Noting
<1>2. /\ t \in DOMAIN record /\ record[t] \in Records /\ RecordFits(record[t], job[t])
  BY <1>1, WorkerFacts
<1>3. PhaseStep
  BY DEF PhaseStep
<1>4. record[t].terminal = "none" /\ record[t].started
  BY <1>1, <1>2 DEF RecordFits
<1>5. PICK r : r = [record[t] EXCEPT !.terminal = outcome]
  OBVIOUS
<1>6. /\ r \in Records /\ r.session = record[t].session /\ r.request = record[t].request
      /\ r.target = record[t].target /\ r.basis = record[t].basis
      /\ r.answers = record[t].answers /\ r.cancelled = record[t].cancelled
      /\ r.private = record[t].private /\ r.started = record[t].started
      /\ r.terminal = outcome /\ r.asks = record[t].asks /\ r.result = record[t].result
      /\ r.notes = record[t].notes
  BY <1>2, <1>5 DEF Records
<1>7. RecordFits(r, "exiting")
  BY <1>1, <1>2, <1>6 DEF RecordFits, Late, Fresh, Early
<1>8. WorkerStep(t, r, "exiting")
  <2>1. record' = [record EXCEPT ![t] = r]
    BY <1>5 DEF Terminate
  <2>2. \A u \in DOMAIN record : record'[u] = IF u = t THEN r ELSE record[u]
    BY <2>1
  <2>3. DOMAIN record' = DOMAIN record
    BY <2>1
  <2>4. QED
    BY <1>1, <1>2, <1>6, <1>7, <2>2, <2>3 DEF WorkerStep, Goto
<1>9. GuardStep(t, r, "exiting")
  BY DEF GuardStep, Owning, Late
<1>10. EndStep(t, r)
  BY <1>2, <1>4, <1>6 DEF EndStep, TurnInv, CancelInv, Terminate
<1>11. PrivateStep(t, r, "exiting")
  <2>1. record[t].private => t \in turns /\ ~record[t].cancelled
    BY <1>2 DEF TurnInv, PrivateWhileUsable
  <2>2. NotesStep(t, r, "exiting")
    BY <1>1, <1>6, NotesKept
  <2>3. QED
    BY <1>6, <2>1, <2>2 DEF PrivateStep
<1>12. HeadStep(t, r)
  BY <1>4, <1>6 DEF HeadStep
<1>13. QuestionStep(t, r, "exiting")
  <2>1. Releases(call, t, r, "exiting")
    BY DEF Releases
  <2>2. CASE question' = Withdrawn(t)
    <3>1. \A q : q.id # 0 /\ q.asker \notin {t, record[t].rest} => ~Shows(q, t, record[t], job[t])
      BY <1>4 DEF Shows
    <3>2. QED
      BY <1>1, <1>6, <2>1, <2>2, <3>1, QuestionDiscarded DEF Withdrawn
  <2>3. CASE question' = question /\ (record[t].result = "asked" => outcome = "asked")
    <3>1. \A q : Shows(q, t, record[t], job[t]) => Shows(q, t, r, "exiting")
      BY <1>4, <1>6, <2>3 DEF Shows
    <3>2. QED
      BY <1>6, <2>1, <2>3, <3>1, QuestionKept
  <2>4. QED
    BY <2>2, <2>3
<1>14. QED
  BY <1>3, <1>8, <1>9, <1>10, <1>11, <1>12, <1>13, WorkerKeeps

LEMMA FinishKeeps ==
  ASSUME TurnInv, NEW t \in TurnIds, Finish(t)
  PROVE  TurnInv' /\ ResultsStay
<1>1. job[t] = "finishing" /\ job[t] \in Working /\ job[t] \in Late /\ job[t] \notin Noting
  BY DEF Finish, Working, Late, Noting
<1>2. /\ t \in DOMAIN record /\ record[t] \in Records /\ RecordFits(record[t], job[t])
  BY <1>1, WorkerFacts
<1>3. UNCHANGED <<phase, erased, question, revoked_sessions, next_question, turns, idempotency,
                  admitted_work, next_turn, service, call>>
  BY DEF Finish, sessionVars, dialogueVars
<1>4. /\ record[t].terminal = "none" /\ record[t].result \in Outcomes \ {"none"}
      /\ "proposed" \in Outcomes \ {"none"}
  BY <1>1, <1>2 DEF RecordFits, Records, Outcomes
<1>5. CASE /\ record[t].result # "proposed" /\ Terminate(t, record[t].result) /\ Goto(t, "exiting")
           /\ UNCHANGED proposal_heads
  BY <1>1, <1>3, <1>4, <1>5, EndKeeps
<1>6. CASE /\ record[t].result = "proposed" /\ Terminate(t, "proposed") /\ Goto(t, "exiting")
           /\ UNCHANGED proposal_heads
  BY <1>1, <1>3, <1>4, <1>6, EndKeeps
<1>7. CASE /\ record[t].result = "proposed" /\ MayPropose(t)
           /\ proposal_heads' = With(proposal_heads, <<record[t].session, record[t].target>>, t)
           /\ Terminate(t, "proposed") /\ Goto(t, "exiting")
  <2>1. t \in turns /\ record[t].private /\ HeadStands(t)
    BY <1>1, <1>4, <1>7 DEF MayPropose, StillLive, TurnInv, PrivateInv
  <2>2. QED
    BY <1>1, <1>3, <1>4, <1>7, <2>1, EndKeeps
<1>8. CASE Goto(t, "failing") /\ UNCHANGED <<record, active, proposal_heads>>
  <2>1. RecordFits(record[t], "failing") /\ "failing" \in Late
    BY <1>1, <1>2 DEF RecordFits, Late, Fresh, Early
  <2>2. PhaseStep
    BY <1>3 DEF PhaseStep
  <2>3. QED
    BY <1>1, <1>3, <1>8, <2>1, <2>2, GoOnKeeps DEF storeVars
<1>9. QED
  BY <1>5, <1>6, <1>7, <1>8 DEF Finish

LEMMA FailKeeps ==
  ASSUME TurnInv, NEW t \in TurnIds, Fail(t)
  PROVE  TurnInv' /\ ResultsStay
<1>1. PICK outcome \in {"cancelled", "failed"} : Terminate(t, outcome)
  BY DEF Fail
<1>2. /\ job[t] = "abandoned" /\ Goto(t, "exiting") /\ question' = Withdrawn(t)
      /\ UNCHANGED <<phase, erased, revoked_sessions, next_question, turns, idempotency,
                     proposal_heads, admitted_work, next_turn, service, call>>
  BY DEF Fail, sessionVars
<1>3. outcome \in Outcomes \ {"none"}
  BY DEF Outcomes
<1>4. QED
  BY <1>1, <1>2, <1>3, EndKeeps

LEMMA RunStepKeeps ==
  ASSUME TurnInv, NEW t \in TurnIds, RunStep(t)
  PROVE  TurnInv' /\ ResultsStay
BY PopWorkKeeps, StartRunKeeps, ResolveKeeps, AnswerKeeps, RecordDecisionKeeps, AddContextKeeps,
   BeginWorkKeeps, KeepRequestKeeps, CommitPreviewKeeps, ReplayQuestionKeeps, AskQuestionKeeps,
   EndWorkKeeps, PublishKeeps, FinishCheckKeeps, FinishKeeps, AbandonKeeps, FailKeeps, ExitRunKeeps
   DEF RunStep

-----------------------------------------------------------------------------
(* Steps that leave the turns and their workers alone                      *)

LEMMA SideKeeps ==
  ASSUME TurnInv,
         phase' \in [Sessions -> {"absent", "live", "revoked", "gone"}],
         \A s \in Sessions : erased[s] => phase'[s] \in {"revoked", "gone"},
         call' \in [Callers -> Calls],
         \A d \in Callers : /\ call'[d].op = "cancel" => call'[d].turn \in DOMAIN record
                            /\ call'[d].op = "cancelling" \/ call[d].op = "cancelling" =>
                                  call'[d] = call[d],
         question' \in [Sessions -> [id : 0 .. MaxQuestion, asker : 0 .. MaxTurn, holder : 0 .. MaxTurn]],
         \A s \in Sessions : question'[s] \in {question[s], NoQuestion},
         UNCHANGED <<erased, revoked_sessions, next_question, storeVars, workVars, record, service>>
  PROVE  TurnInv' /\ ResultsStay
<1> USE DEF storeVars, workVars
<1>1. TypeOK'
  BY DEF TurnInv, TypeOK
<1>2. ActiveInv'
  BY DEF TurnInv, ActiveInv, Unfinished, TurnsOf
<1>3. RunInv'
  BY DEF TurnInv, RunInv
<1>4. CancelInv'
  BY DEF TurnInv, CancelInv, Cancelling
<1>5. ErasureInv'
  BY DEF TurnInv, ErasureInv
<1>6. ServiceInv' /\ RequestsAdmittedOnce'
  BY DEF TurnInv, ServiceInv, RequestsAdmittedOnce
<1>7. NothingSurvivesErasure'
  BY DEF TurnInv, NothingSurvivesErasure, TurnsOf
<1>8. PrivateWhileUsable' /\ PrivateInv'
  BY DEF TurnInv, PrivateWhileUsable, PrivateInv, HeadsCanBeBasis
<1>9. QuestionInv'
  <2>1. ASSUME NEW s \in Sessions, NEW t, NEW r, NEW j, Releases(call, t, r, j)
        PROVE  Releases(call', t, r, j)
    BY <2>1 DEF Releases
  <2>2. NoQuestion.id = 0 /\ NoQuestion.holder = 0 /\ next_question > 0
    BY DEF NoQuestion, TurnInv, TypeOK
  <2>3. QED
    BY <2>1, <2>2 DEF TurnInv, QuestionInv
<1>10. VisibleInv'
  BY DEF TurnInv, VisibleInv, Shows, NoQuestion
<1>11. ResultsStay
  BY DEF ResultsStay
<1>12. QED
  BY <1>1, <1>2, <1>3, <1>4, <1>5, <1>6, <1>7, <1>8, <1>9, <1>10, <1>11 DEF TurnInv

LEMMA StutterKeeps ==
  ASSUME TurnInv, UNCHANGED vars
  PROVE  TurnInv' /\ ResultsStay
<1>1. /\ phase \in [Sessions -> {"absent", "live", "revoked", "gone"}]
      /\ \A s \in Sessions : erased[s] => phase[s] \in {"revoked", "gone"}
      /\ call \in [Callers -> Calls]
      /\ \A d \in Callers : call[d].op = "cancel" => call[d].turn \in DOMAIN record
      /\ question \in [Sessions -> [id : 0 .. MaxQuestion, asker : 0 .. MaxTurn, holder : 0 .. MaxTurn]]
  BY DEF TurnInv, TypeOK, ErasureInv, CancelInv
<1>2. QED
  BY <1>1, SideKeeps DEF vars, sessionVars, dialogueVars

\* A thread goes on to the call k.
LEMMA CallKeeps ==
  ASSUME TurnInv, NEW c \in Callers, NEW k \in Calls, call[c].op # "cancelling",
         call' = [call EXCEPT ![c] = k], k.op # "cancelling",
         k.op = "cancel" => k.turn \in DOMAIN record, phase' = phase,
         UNCHANGED <<erased, dialogueVars, storeVars, workVars, record, service>>
  PROVE  TurnInv' /\ ResultsStay
<1>1. /\ phase \in [Sessions -> {"absent", "live", "revoked", "gone"}]
      /\ \A s \in Sessions : erased[s] => phase[s] \in {"revoked", "gone"}
      /\ call \in [Callers -> Calls]
      /\ \A d \in Callers : call[d].op = "cancel" => call[d].turn \in DOMAIN record
      /\ question \in [Sessions -> [id : 0 .. MaxQuestion, asker : 0 .. MaxTurn, holder : 0 .. MaxTurn]]
  BY DEF TurnInv, TypeOK, ErasureInv, CancelInv
<1>2. /\ call' \in [Callers -> Calls]
      /\ \A d \in Callers : call'[d] = IF d = c THEN k ELSE call[d]
  <2> HIDE DEF Calls
  <2>1. QED
    BY <1>1
<1>3. QED
  BY <1>1, <1>2, SideKeeps DEF dialogueVars

LEMMA CheckRequestKeeps ==
  ASSUME TurnInv, NEW c \in Callers, NEW n \in NewTurn, CheckRequest(c, n)
  PROVE  TurnInv' /\ ResultsStay
<1>1. PICK k : k = [op |-> "checked", args |-> n]
  OBVIOUS
<1>2. k \in Calls /\ k.op = "checked" /\ Idle.op = "idle"
  BY <1>1 DEF Calls, Idle
<1>3. call' = [call EXCEPT ![c] = k]
  BY <1>1 DEF CheckRequest
<1>4. QED
  BY <1>2, <1>3, CallKeeps DEF CheckRequest, sessionVars

LEMMA IdleCall == Idle \in Calls /\ Idle.op = "idle"
BY DEF Calls, Idle

LEMMA CallShape ==
  ASSUME TurnInv, NEW c \in Callers
  PROVE  /\ call[c] \in Calls
         /\ call[c].op \in {"checked", "leased"} =>
               /\ call[c].args \in NewTurn
               /\ call[c] = [op |-> call[c].op, args |-> call[c].args]
         /\ call[c].op \in {"cancel", "cancelling"} =>
               /\ call[c].turn \in TurnIds
               /\ call[c] = [op |-> call[c].op, turn |-> call[c].turn]
<1>1. call[c] \in Calls
  BY DEF TurnInv, TypeOK
<1>2. CASE call[c] = Idle
  BY <1>1, <1>2 DEF Idle
<1>3. CASE call[c] \in [op : {"checked", "leased"}, args : NewTurn]
  <2> HIDE DEF NewTurn
  <2>1. QED
    BY <1>1, <1>3
<1>4. CASE call[c] \in [op : {"cancel", "cancelling"}, turn : TurnIds]
  BY <1>1, <1>4
<1>5. QED
  BY <1>1, <1>2, <1>3, <1>4 DEF Calls

LEMMA EnterOperationKeeps ==
  ASSUME TurnInv, NEW c \in Callers, EnterOperation(c)
  PROVE  TurnInv' /\ ResultsStay
<1>1. call[c].op = "checked"
  BY DEF EnterOperation
<1>2. UNCHANGED <<phase, erased, dialogueVars, storeVars, workVars, record, service>>
  BY DEF EnterOperation, sessionVars, Session!Enter
<1>3. PICK n \in NewTurn : call[c] = [op |-> "checked", args |-> n]
  BY <1>1, CallShape
<1>4. PICK k : k = [op |-> "leased", args |-> n]
  OBVIOUS
<1>5. k \in Calls /\ k.op = "leased"
  BY <1>4 DEF Calls
<1>6. call' = [call EXCEPT ![c] = k] \/ call' = [call EXCEPT ![c] = Idle]
  <2>1. [call[c] EXCEPT !.op = "leased"] = k
    BY <1>3, <1>4
  <2>2. QED
    BY <2>1 DEF EnterOperation
<1>7. QED
  BY <1>1, <1>2, <1>5, <1>6, CallKeeps, IdleCall

LEMMA RequestCancelKeeps ==
  ASSUME TurnInv, NEW c \in Callers, NEW t \in TurnIds, RequestCancel(c, t)
  PROVE  TurnInv' /\ ResultsStay
<1>1. PICK k : k = [op |-> "cancel", turn |-> t]
  OBVIOUS
<1>2. k \in Calls /\ k.op = "cancel" /\ k.turn = t
  BY <1>1 DEF Calls
<1>3. call' = [call EXCEPT ![c] = k] /\ t \in DOMAIN record
  BY <1>1, StoreFacts DEF RequestCancel
<1>4. QED
  BY <1>2, <1>3, IdleCall, CallKeeps DEF RequestCancel, sessionVars

LEMMA SessionStepKeeps ==
  ASSUME TurnInv, NEW s \in Sessions, SessionStep(s) \/ LapseQuestion(s)
  PROVE  TurnInv' /\ ResultsStay
<1> DEFINE Q == [id : 0 .. MaxQuestion, asker : 0 .. MaxTurn, holder : 0 .. MaxTurn]
<1>1. /\ phase \in [Sessions -> {"absent", "live", "revoked", "gone"}]
      /\ \A u \in Sessions : erased[u] => phase[u] \in {"revoked", "gone"}
      /\ call \in [Callers -> Calls]
      /\ \A d \in Callers : call[d].op = "cancel" => call[d].turn \in DOMAIN record
      /\ question \in [Sessions -> Q]
  BY DEF TurnInv, TypeOK, ErasureInv, CancelInv
<1>2. UNCHANGED <<call, erased, revoked_sessions, next_question, storeVars, workVars, record, service>>
  BY DEF SessionStep, LapseQuestion, sessionVars, dialogueVars,
         Session!Open, Session!Revoke, Session!Destroy
<1>3. CASE SessionStep(s)
  <2>1. question' = question
    BY <1>3 DEF SessionStep, dialogueVars
  <2>2. phase' \in [Sessions -> {"absent", "live", "revoked", "gone"}]
        /\ \A u \in Sessions : erased[u] => phase'[u] \in {"revoked", "gone"}
    BY <1>1, <1>3 DEF SessionStep, Session!Open, Session!Revoke, Session!Destroy
  <2>3. QED
    BY <1>1, <1>2, <2>1, <2>2, SideKeeps
<1>4. CASE LapseQuestion(s)
  <2>1. NoQuestion \in Q
    BY LimitsAreNumbers DEF NoQuestion
  <2>2. question' \in [Sessions -> Q] /\ \A u \in Sessions : question'[u] \in {question[u], NoQuestion}
    <3> HIDE DEF Q
    <3>1. QED
      BY <1>1, <1>4, <2>1 DEF LapseQuestion
  <2>3. phase' = phase
    BY <1>4 DEF LapseQuestion, sessionVars
  <2>4. QED
    BY <1>1, <1>2, <2>2, <2>3, SideKeeps
<1>5. QED
  BY <1>3, <1>4

-----------------------------------------------------------------------------
(* A turn is admitted, taken from the queue, cancelled                     *)

LEMMA ReleasesLater ==
  ASSUME NEW calls, NEW later, NEW c \in Callers, calls[c].op # "cancelling",
         \A d \in Callers : d # c => later[d] = calls[d],
         NEW t, NEW r, NEW j, Releases(calls, t, r, j)
  PROVE  Releases(later, t, r, j)
BY DEF Releases

LEMMA InsertKeeps ==
  ASSUME TurnInv, NEW c \in Callers, NEW n \in NewTurn, call[c].op = "leased",
         Admissible(n), Insert(n), UNCHANGED <<phase, erased, service>>,
         call' = [call EXCEPT ![c] = Idle]
  PROVE  TurnInv' /\ ResultsStay
<1> DEFINE t == next_turn
           s == n.session
<1>1. /\ n.session \in Sessions /\ n.request \in Requests /\ n.target \in Targets
      /\ n.basis \in 0 .. MaxTurn /\ n.answers \in 0 .. MaxQuestion
  BY DEF NewTurn
<1>2. PICK r : r = Admitted(n)
  OBVIOUS
<1>3. /\ r.session = n.session /\ r.request = n.request /\ r.target = n.target
      /\ r.basis = n.basis /\ r.answers = n.answers /\ r.asks = 0 /\ r.result = "none"
      /\ r.terminal = "none" /\ r.started = FALSE /\ r.cancelled = FALSE /\ r.private = TRUE
      /\ r.rest = 0
  BY <1>2 DEF Admitted
<1>4. r \in Records
  <2>1. 0 \in 0 .. MaxQuestion /\ 0 \in 0 .. MaxTurn
    BY StoreFacts
  <2>2. QED
    BY <1>1, <1>2, <2>1 DEF Admitted, Records, Outcomes
<1>5. /\ t \in TurnIds /\ t \notin DOMAIN record /\ job[t] = "none"
      /\ DOMAIN record \cup {t} = 1 .. next_turn' - 1 /\ next_turn' \in 1 .. MaxTurn + 1
  BY StoreFacts DEF Insert, TurnInv, TypeOK, RunInv, TurnIds
<1>6. /\ DOMAIN record' = DOMAIN record \cup {t}
      /\ \A u \in DOMAIN record' : record'[u] = IF u = t THEN r ELSE record[u]
  BY <1>2 DEF Insert, With
<1>6a. /\ record'[t] = r /\ \A u \in DOMAIN record : u # t /\ record'[u] = record[u]
  BY <1>5, <1>6
<1>7. /\ job' \in [TurnIds -> {"none", "queued"} \cup Working \cup Ended]
      /\ \A u \in TurnIds : job'[u] = IF u = t THEN "queued" ELSE job[u]
  BY <1>5 DEF Insert, TurnInv, TypeOK
<1>8. /\ call' \in [Callers -> Calls]
      /\ \A d \in Callers : call'[d] = IF d = c THEN Idle ELSE call[d]
  <2> HIDE DEF Calls
  <2>1. QED
    BY IdleCall DEF TurnInv, TypeOK
<1>9. /\ turns' = turns \cup {t} /\ active' = active \cup {s}
      /\ idempotency' = With(idempotency, <<s, n.request>>, t)
      /\ queue' = Append(queue, t) /\ admitted_work' = admitted_work \cup {t}
      /\ UNCHANGED <<phase, erased, service, proposal_heads, revoked_sessions, next_question>>
      /\ service \in {"open", "closing"}
  BY DEF Insert
<1>10. ~erased[s] /\ s \notin active /\ question[s].id = n.answers
       /\ <<s, n.request>> \notin DOMAIN idempotency
  BY <1>1 DEF Admissible, NotCancelled, NotAdmitted, QuestionFits, TurnInv, ErasureInv
<1>11. /\ question' \in [Sessions -> [id : 0 .. MaxQuestion, asker : 0 .. MaxTurn, holder : 0 .. MaxTurn]]
       /\ \A u \in Sessions :
             /\ question'[u].id = question[u].id /\ question'[u].asker = question[u].asker
             /\ question'[u] = question[u] \/ (u = s /\ question'[u].holder = t)
  <2> DEFINE Q == [id : 0 .. MaxQuestion, asker : 0 .. MaxTurn, holder : 0 .. MaxTurn]
  <2>1. question \in [Sessions -> Q]
    BY DEF TurnInv, TypeOK
  <2>2. CASE question' = question
    BY <2>1, <2>2
  <2>3. CASE question' = [question EXCEPT ![s].holder = t]
    <3>1. PICK q : q = [question[s] EXCEPT !.holder = t]
      OBVIOUS
    <3>2. question[s] \in Q /\ t \in 0 .. MaxTurn
      BY <1>1, <1>5, <2>1, StoreFacts
    <3>3. q \in Q /\ q.id = question[s].id /\ q.asker = question[s].asker /\ q.holder = t
      BY <3>1, <3>2
    <3>4. question' = [question EXCEPT ![s] = q]
      BY <2>3, <3>1
    <3>5. question' \in [Sessions -> Q] /\ \A u \in Sessions : question'[u] = IF u = s THEN q ELSE question[u]
      <4> HIDE DEF Q
      <4>1. QED
        BY <2>1, <3>3, <3>4
    <3>6. QED
      BY <3>3, <3>5
  <2>4. QED
    BY <2>2, <2>3 DEF Insert, Claim
<1>12. TypeOK'
  <2>1. queue' \in Seq(TurnIds)
    BY <1>5, <1>9 DEF TurnInv, TypeOK
  <2>2. \A u \in DOMAIN record' : record'[u] \in Records
    BY <1>4, <1>6, StoreFacts
  <2>3. QED
    BY <1>1, <1>5, <1>6, <1>7, <1>8, <1>9, <1>11, <2>1, <2>2 DEF TurnInv, TypeOK
<1>13. ActiveInv'
  <2>1. Unfinished(TurnsOf(s)) = {}
    BY <1>1, <1>10 DEF TurnInv, ActiveInv
  <2>2. Unfinished(TurnsOf(s))' = {t}
    BY <1>3, <1>5, <1>6, <1>9, <2>1, StoreFacts DEF Unfinished, TurnsOf
  <2>3. ASSUME NEW u \in Sessions, u # s
        PROVE  Unfinished(TurnsOf(u))' = Unfinished(TurnsOf(u))
    BY <1>3, <1>5, <1>6, <1>9, <2>3, StoreFacts DEF Unfinished, TurnsOf
  <2>4. \A u \in Sessions : u # s => (u \in active' <=> u \in active)
    BY <1>9
  <2>5. s \in active'
    BY <1>9
  <2>6. QED
    BY <2>2, <2>3, <2>4, <2>5 DEF TurnInv, ActiveInv
<1>14. RunInv'
  <2>1. RecordFits(r, "queued")
    BY <1>3 DEF RecordFits, Late, Fresh, Early
  <2>2. QED
    BY <1>5, <1>6, <1>7, <2>1, StoreFacts DEF TurnInv, RunInv
<1>15. CancelInv'
  BY <1>5, <1>6, <1>7, <1>8, IdleCall, StoreFacts DEF TurnInv, CancelInv, Cancelling
<1>16. ErasureInv'
  <2>1. ErasureInv /\ UNCHANGED <<phase, erased, service, revoked_sessions>>
    BY <1>9 DEF TurnInv
  <2>2. \A u \in DOMAIN record' \ turns' : u \in DOMAIN record \ turns /\ record'[u] = record[u]
    BY <1>6, <1>6a, <1>9
  <2>3. ASSUME NEW u \in DOMAIN record', job'[u] \in Owning
        PROVE  u \in DOMAIN record /\ record'[u] = record[u] /\ job'[u] = job[u]
    <3>1. u # t
      BY <1>5, <1>7, <2>3 DEF Owning, Late
    <3>2. QED
      BY <1>6, <1>6a, <1>7, <3>1, StoreFacts
  <2>4. QED
    BY <2>1, <2>2, <2>3 DEF ErasureInv
<1>17. ServiceInv'
  BY <1>9 DEF TurnInv, ServiceInv
<1>18. RequestsAdmittedOnce'
  <2>1. RequestsAdmittedOnce /\ <<s, n.request>> = <<record'[t].session, record'[t].request>>
    BY <1>3, <1>6a DEF TurnInv
  <2>2. \A u \in turns : u # t /\ record'[u] = record[u]
    BY <1>6a, StoreFacts
  <2> DEFINE k == <<s, n.request>>
  <2>3. /\ DOMAIN idempotency' = DOMAIN idempotency \cup {k} /\ idempotency'[k] = t
        /\ \A x \in DOMAIN idempotency : x # k /\ idempotency'[x] = idempotency[x]
    BY <1>9, <1>10 DEF With
  <2> HIDE DEF k
  <2>4. k = <<record'[t].session, record'[t].request>>
    BY <2>1 DEF k
  <2>5. ASSUME NEW x \in DOMAIN idempotency'
        PROVE  /\ idempotency'[x] \in turns'
               /\ x = <<record'[idempotency'[x]].session, record'[idempotency'[x]].request>>
    <3>1. CASE x = k
      BY <1>9, <2>3, <2>4, <3>1
    <3>2. CASE x # k
      <4>1. x \in DOMAIN idempotency /\ idempotency'[x] = idempotency[x]
        BY <2>3, <2>5, <3>2
      <4>2. /\ idempotency[x] \in turns
            /\ x = <<record[idempotency[x]].session, record[idempotency[x]].request>>
        BY <2>1, <4>1 DEF RequestsAdmittedOnce
      <4>3. QED
        BY <1>9, <2>2, <4>1, <4>2
    <3>3. QED
      BY <3>1, <3>2
  <2>6. ASSUME NEW u \in turns'
        PROVE  /\ <<record'[u].session, record'[u].request>> \in DOMAIN idempotency'
               /\ idempotency'[<<record'[u].session, record'[u].request>>] = u
    <3>1. CASE u = t
      BY <2>3, <2>4, <3>1
    <3>2. CASE u # t
      <4>1. u \in turns
        BY <1>9, <2>6, <3>2
      <4>2. /\ <<record[u].session, record[u].request>> \in DOMAIN idempotency
            /\ idempotency[<<record[u].session, record[u].request>>] = u
        BY <2>1, <4>1 DEF RequestsAdmittedOnce
      <4>3. record'[u] = record[u]
        BY <2>2, <4>1
      <4>4. QED
        BY <2>3, <4>2, <4>3
    <3>3. QED
      BY <3>1, <3>2
  <2>7. QED
    BY <2>5, <2>6 DEF RequestsAdmittedOnce
<1>19. NothingSurvivesErasure'
  <2>1. ASSUME NEW u \in Sessions, erased[u]
        PROVE  /\ u # s /\ TurnsOf(u) = {} /\ u \notin active
               /\ \A k \in DOMAIN idempotency \cup DOMAIN proposal_heads : k[1] # u
               /\ question[u] = NoQuestion /\ question[u].holder # t
    BY <1>5, <1>10, <2>1, StoreFacts DEF TurnInv, NothingSurvivesErasure, NoQuestion
  <2>2. ASSUME NEW u \in Sessions, u # s, TurnsOf(u) = {}
        PROVE  TurnsOf(u)' = {}
    BY <1>3, <1>5, <1>6, <1>9, <2>2, StoreFacts DEF TurnsOf
  <2>3. \A k \in DOMAIN idempotency' : k \in DOMAIN idempotency \/ k[1] = s
    BY <1>9 DEF With
  <2>4. \A u \in Sessions : erased[u] => question'[u] = NoQuestion
    BY <1>11, <2>1
  <2>5. QED
    BY <1>9, <2>1, <2>2, <2>3, <2>4 DEF NothingSurvivesErasure
<1>20. PrivateWhileUsable'
  BY <1>3, <1>5, <1>6, <1>9, StoreFacts DEF TurnInv, PrivateWhileUsable, HeadsCanBeBasis
<1>21. PrivateInv'
  BY <1>3, <1>5, <1>6, <1>7, <1>9, StoreFacts DEF TurnInv, PrivateInv
<1>22. QuestionInv'
  <2>1. ASSUME NEW u \in Sessions, NEW v, v = question'[u].holder, v # 0
        PROVE  /\ v \in turns' /\ record'[v].session = u /\ record'[v].answers = question'[u].id
               /\ Releases(call', v, record'[v], job'[v])
    <3>1. CASE question'[u] = question[u]
      <4>1. v \in turns /\ record[v].session = u /\ record[v].answers = question[u].id
            /\ Releases(call, v, record[v], job[v])
        BY <2>1, <3>1 DEF TurnInv, QuestionInv
      <4>2. v # t /\ record'[v] = record[v] /\ job'[v] = job[v]
        BY <1>5, <1>6, <1>7, <4>1, StoreFacts
      <4>3. Releases(call', v, record[v], job[v])
        BY <1>8, <4>1, ReleasesLater
      <4>4. QED
        BY <1>9, <3>1, <4>1, <4>2, <4>3
    <3>2. CASE u = s /\ v = t
      <4>1. record'[t] = r /\ job'[t] = "queued" /\ t \in turns'
        BY <1>5, <1>6, <1>7, <1>9
      <4>2. Releases(call', t, r, "queued")
        BY <1>3 DEF Releases
      <4>3. QED
        BY <1>3, <1>10, <1>11, <3>2, <4>1, <4>2
    <3>3. QED
      BY <1>11, <2>1, <3>1, <3>2
  <2>2. \A u \in Sessions : /\ question'[u].id < next_question'
                            /\ question'[u].id # 0 => question'[u].asker # 0
    BY <1>9, <1>11 DEF TurnInv, QuestionInv
  <2>3. QED
    BY <2>1, <2>2 DEF QuestionInv
<1>23. VisibleInv'
  <2>1. ASSUME NEW u \in Sessions, service = "open", question'[u].id # 0
        PROVE  \E v \in turns' : record'[v].session = u /\ Shows(question'[u], v, record'[v], job'[v])
    <3>1. PICK v \in turns : record[v].session = u /\ Shows(question[u], v, record[v], job[v])
      BY <1>11, <2>1 DEF TurnInv, VisibleInv
    <3>2. v # t /\ record'[v] = record[v] /\ job'[v] = job[v] /\ v \in turns'
      BY <1>5, <1>6, <1>7, <1>9, <3>1, StoreFacts
    <3>3. Shows(question'[u], v, record[v], job[v])
      BY <1>11, <3>1 DEF Shows
    <3>4. QED
      BY <3>1, <3>2, <3>3
  <2>2. QED
    BY <1>9, <2>1 DEF VisibleInv
<1>24. ResultsStay
  BY <1>5, <1>6, <1>9 DEF ResultsStay
<1>25. QED
  BY <1>12, <1>13, <1>14, <1>15, <1>16, <1>17, <1>18, <1>19, <1>20, <1>21, <1>22, <1>23, <1>24 DEF TurnInv

LEMMA AdmitTurnKeeps ==
  ASSUME TurnInv, NEW c \in Callers, AdmitTurn(c)
  PROVE  TurnInv' /\ ResultsStay
<1> DEFINE n == call[c].args
<1>1. call[c].op = "leased" /\ n \in NewTurn
  BY CallShape DEF AdmitTurn
<1>2. call' = [call EXCEPT ![c] = Idle] /\ UNCHANGED <<phase, erased, service>>
  BY DEF AdmitTurn, Session!Leave
<1>3. CASE Admissible(n) /\ Insert(n)
  BY <1>1, <1>2, <1>3, InsertKeeps
<1>4. CASE UNCHANGED <<dialogueVars, storeVars, workVars, record>>
  BY <1>1, <1>2, <1>4, IdleCall, CallKeeps
<1>5. QED
  BY <1>3, <1>4 DEF AdmitTurn

LEMMA DequeueKeeps ==
  ASSUME TurnInv, Dequeue
  PROVE  TurnInv' /\ ResultsStay
<1> DEFINE t == Head(queue)
<1>1. queue \in Seq(TurnIds) /\ queue # <<>>
  BY DEF Dequeue, TurnInv, TypeOK
<1>2. t \in TurnIds /\ queue' \in Seq(TurnIds)
  BY <1>1 DEF Dequeue
<1>3. UNCHANGED <<phase, erased, question, revoked_sessions, next_question, turns, idempotency,
                  proposal_heads, active, admitted_work, next_turn, record, service, call>>
  BY DEF Dequeue, sessionVars, dialogueVars, storeVars
<1>4. ResultsStay
  BY <1>3 DEF ResultsStay
<1>5. CASE job[t] = "queued" /\ job' = [job EXCEPT ![t] = "started"]
  <2>1. /\ job' \in [TurnIds -> {"none", "queued"} \cup Working \cup Ended]
        /\ \A u \in TurnIds : job'[u] = IF u = t THEN "started" ELSE job[u]
    <3>1. "started" \in Working
      BY DEF Working
    <3>2. QED
      BY <1>2, <1>5, <3>1 DEF TurnInv, TypeOK
  <2>2. t \in DOMAIN record /\ RecordFits(record[t], "started")
    <3>1. t \in DOMAIN record /\ RecordFits(record[t], job[t])
      BY <1>2, <1>5 DEF TurnInv, RunInv
    <3>2. QED
      BY <1>5, <3>1 DEF RecordFits, Late, Fresh, Early
  <2>3. TypeOK'
    BY <1>2, <1>3, <2>1 DEF TurnInv, TypeOK
  <2>4. /\ ActiveInv' /\ RequestsAdmittedOnce' /\ NothingSurvivesErasure' /\ PrivateWhileUsable'
        /\ PrivateInv'
    <3>1. ActiveInv' /\ RequestsAdmittedOnce' /\ NothingSurvivesErasure' /\ PrivateWhileUsable'
      BY <1>3 DEF TurnInv, ActiveInv, Unfinished, TurnsOf, RequestsAdmittedOnce,
                  NothingSurvivesErasure, PrivateWhileUsable, HeadsCanBeBasis
    <3>2. PrivateInv'
      BY <1>3, <1>5, <2>1, StoreFacts DEF TurnInv, PrivateInv, Noting
    <3>3. QED
      BY <3>1, <3>2
  <2>5. RunInv'
    BY <1>3, <2>1, <2>2, StoreFacts DEF TurnInv, RunInv
  <2>6. CancelInv'
    BY <1>3, <2>1, StoreFacts DEF TurnInv, CancelInv, Cancelling
  <2>7. ErasureInv'
    BY <1>3, <2>1, StoreFacts DEF TurnInv, ErasureInv, Owning, Late
  <2>8. ServiceInv'
    BY <1>2, <1>3, <1>5, <2>1 DEF TurnInv, ServiceInv
  <2>9. QuestionInv'
    <3>1. ASSUME NEW u \in TurnIds, Releases(call, u, record[u], job[u])
          PROVE  Releases(call', u, record'[u], job'[u])
      BY <1>3, <1>5, <2>1, <3>1 DEF Releases
    <3>2. QED
      BY <1>3, <3>1, StoreFacts DEF TurnInv, QuestionInv
  <2>10. VisibleInv'
    <3>1. ASSUME NEW u \in TurnIds, NEW q, Shows(q, u, record[u], job[u])
          PROVE  Shows(q, u, record'[u], job'[u])
      BY <1>3, <1>5, <2>1, <3>1 DEF Shows, Late
    <3>2. QED
      BY <1>3, <3>1, StoreFacts DEF TurnInv, VisibleInv
  <2>11. QED
    BY <2>3, <2>4, <2>5, <2>6, <2>7, <2>8, <2>9, <2>10, <1>4 DEF TurnInv
<1>6. CASE job' = job
  <2>1. TypeOK'
    BY <1>2, <1>3, <1>6 DEF TurnInv, TypeOK
  <2>2. ActiveInv' /\ RequestsAdmittedOnce' /\ NothingSurvivesErasure' /\ PrivateWhileUsable' /\ PrivateInv'
    BY <1>3, <1>6 DEF TurnInv, ActiveInv, Unfinished, TurnsOf, RequestsAdmittedOnce, NothingSurvivesErasure,
                PrivateWhileUsable, HeadsCanBeBasis, PrivateInv
  <2>3. RunInv' /\ CancelInv' /\ ErasureInv' /\ ServiceInv'
    BY <1>3, <1>6 DEF TurnInv, RunInv, CancelInv, Cancelling, ErasureInv, ServiceInv
  <2>4. QuestionInv' /\ VisibleInv'
    BY <1>3, <1>6 DEF TurnInv, QuestionInv, VisibleInv
  <2>5. QED
    BY <2>1, <2>2, <2>3, <2>4, <1>4 DEF TurnInv
<1>7. QED
  BY <1>5, <1>6 DEF Dequeue

\* What happens to futures, claims and guards of a set of turns.
LEMMA FutureFacts ==
  ASSUME TurnInv, NEW T, CancelFutures(T)
  PROVE  /\ job' \in [TurnIds -> {"none", "queued"} \cup Working \cup Ended]
         /\ \A t \in TurnIds :
               job'[t] = IF t \in T /\ job[t] = "queued" THEN "cancelled" ELSE job[t]
BY DEF TurnInv, TypeOK, CancelFutures, Queued, Ended

LEMMA ClaimFacts ==
  ASSUME TurnInv, NEW T, question' = Unclaimed(T)
  PROVE  /\ question' \in [Sessions -> [id : 0 .. MaxQuestion, asker : 0 .. MaxTurn, holder : 0 .. MaxTurn]]
         /\ \A s \in Sessions :
               /\ question'[s].id = question[s].id /\ question'[s].asker = question[s].asker
               /\ question'[s].holder \in {0, question[s].holder} /\ (question'[s].holder # 0 => question'[s].holder \notin T)
               /\ question[s] = NoQuestion => question'[s] = NoQuestion
<1> DEFINE Q == [id : 0 .. MaxQuestion, asker : 0 .. MaxTurn, holder : 0 .. MaxTurn]
<1>1. question \in [Sessions -> Q] /\ 0 \in 0 .. MaxTurn
  BY StoreFacts DEF TurnInv, TypeOK
<1>2. ASSUME NEW s \in Sessions
      PROVE  /\ question'[s] \in Q
             /\ question'[s].id = question[s].id /\ question'[s].asker = question[s].asker
             /\ question'[s].holder \in {0, question[s].holder} /\ (question'[s].holder # 0 => question'[s].holder \notin T)
             /\ question[s] = NoQuestion => question'[s] = NoQuestion
  <2>1. question[s] \in Q
    BY <1>1
  <2>2. CASE question[s].holder \in T
    <3>1. question'[s] = [question[s] EXCEPT !.holder = 0]
      BY <2>2 DEF Unclaimed
    <3>2. question'[s] \in Q /\ question'[s].id = question[s].id
          /\ question'[s].asker = question[s].asker /\ question'[s].holder = 0
      BY <1>1, <2>1, <3>1
    <3>3. ASSUME question[s] = NoQuestion
          PROVE  question'[s] = NoQuestion
      BY <3>1, <3>3 DEF NoQuestion
    <3>4. QED
      BY <3>2, <3>3
  <2>3. CASE question[s].holder \notin T
    <3>1. question'[s] = question[s]
      BY <2>3 DEF Unclaimed
    <3>2. QED
      BY <2>1, <2>3, <3>1
  <2>4. QED
    BY <2>2, <2>3
<1>3. question' \in [Sessions -> Q]
  BY <1>2 DEF Unclaimed
<1>4. QED
  BY <1>2, <1>3

LEMMA GuardFacts ==
  ASSUME TurnInv, NEW T, revoked_sessions' = Unguarded(T)
  PROVE  /\ DOMAIN revoked_sessions' \subseteq Sessions
         /\ \A s \in DOMAIN revoked_sessions' : revoked_sessions'[s] \in TurnIds
         /\ \A s \in DOMAIN revoked_sessions : revoked_sessions[s] \notin T =>
               s \in DOMAIN revoked_sessions' /\ revoked_sessions'[s] = revoked_sessions[s]
BY DEF TurnInv, TypeOK, Unguarded, Without, Restrict

\* What cancel makes of a record.
Marked(t) == [EmptiedIfCurrent(t) EXCEPT !.cancelled = TRUE]

\* r is the record of t, told to stop and emptied unless it was dropped.
MarkFits(t, r) ==
  /\ r \in Records /\ r.session = record[t].session /\ r.request = record[t].request
  /\ r.target = record[t].target /\ r.basis = record[t].basis
  /\ r.answers = record[t].answers /\ r.cancelled = TRUE
  /\ r.private = FALSE /\ r.started = record[t].started
  /\ r.terminal = "none" /\ r.asks = record[t].asks /\ r.result = record[t].result
  /\ t \in turns => r.notes = FALSE

LEMMA MarkedFacts ==
  ASSUME TurnInv, NEW t \in DOMAIN record, record[t].terminal = "none", NEW r, r = Marked(t)
  PROVE  MarkFits(t, r)
<1>1. PICK e : e = EmptiedIfCurrent(t)
  OBVIOUS
<1>2. /\ SameTurn(t, e) /\ e.result = record[t].result
      /\ e.private => record[t].private /\ t \notin turns
      /\ e.notes => t \notin turns
  BY <1>1, EmptiedFits
<1>3. ~e.private
  BY <1>2 DEF TurnInv, PrivateWhileUsable
<1>4. /\ e \in Records /\ e.session = record[t].session /\ e.request = record[t].request
      /\ e.target = record[t].target /\ e.basis = record[t].basis
      /\ e.answers = record[t].answers /\ e.asks = record[t].asks
      /\ e.terminal = "none" /\ e.started = record[t].started /\ e.private = FALSE
      /\ t \in turns => e.notes = FALSE
  BY <1>2, <1>3 DEF SameTurn, Records
<1>5. r = [e EXCEPT !.cancelled = TRUE]
  BY <1>1 DEF Marked
<1>6. QED
  BY <1>2, <1>4, <1>5 DEF Records, MarkFits

\* A turn that has not ended is told to stop; k is what the canceller does next.
LEMMA MarkKeeps ==
  ASSUME TurnInv, NEW c \in Callers, call[c].op = "cancel", NEW t \in DOMAIN record,
         record[t].terminal = "none",
         record' = [record EXCEPT ![t] = Marked(t)],
         UNCHANGED <<phase, erased, turns, idempotency, proposal_heads, active, next_turn,
                     next_question, service, queue>>,
         admitted_work' \subseteq admitted_work,
         job' \in [TurnIds -> {"none", "queued"} \cup Working \cup Ended],
         \A u \in TurnIds : u # t => job'[u] = job[u],
         job'[t] = job[t] \/ (job[t] = "queued" /\ job'[t] = "cancelled"),
         question' \in [Sessions -> [id : 0 .. MaxQuestion, asker : 0 .. MaxTurn, holder : 0 .. MaxTurn]],
         \A s \in Sessions :
            \/ question'[s] = NoQuestion
            \/ /\ question'[s].id = question[s].id /\ question'[s].asker = question[s].asker
               /\ question'[s].holder \in {0, question[s].holder}
               /\ question'[s].holder = t => job'[t] = job[t]
               /\ question[s] # NoQuestion,
         \A s \in Sessions : question'[s].id # 0 /\ s = record[t].session /\ t \in turns
                              /\ job[t] \in Late => question[s].asker # record[t].rest,
         DOMAIN revoked_sessions' \subseteq Sessions,
         \A s \in DOMAIN revoked_sessions' : revoked_sessions'[s] \in TurnIds,
         \A s \in DOMAIN revoked_sessions : revoked_sessions[s] # t \/ job[t] # "queued" =>
            s \in DOMAIN revoked_sessions' /\ revoked_sessions'[s] = revoked_sessions[s],
         NEW k \in Calls, call' = [call EXCEPT ![c] = k],
         \/ k.op = "idle"
         \/ /\ k.op = "cancelling" /\ k.turn = t /\ ~record[t].started /\ job'[t] # "queued"
            /\ \A d \in Callers : ~Cancelling(d, t)
  PROVE  TurnInv' /\ ResultsStay
<1>1. t \in TurnIds /\ record[t] \in Records /\ record[t].session \in Sessions
      /\ RecordFits(record[t], job[t])
  BY StoreFacts DEF TurnInv, RunInv
<1>2. PICK r : r = Marked(t)
  OBVIOUS
<1>3. /\ r \in Records /\ r.session = record[t].session /\ r.request = record[t].request
      /\ r.target = record[t].target /\ r.basis = record[t].basis
      /\ r.answers = record[t].answers /\ r.cancelled = TRUE
      /\ r.private = FALSE /\ r.started = record[t].started
      /\ r.terminal = "none" /\ r.asks = record[t].asks /\ r.result = record[t].result
      /\ t \in turns => r.notes = FALSE
  <2>1. MarkFits(t, r)
    BY <1>2, MarkedFacts
  <2>2. QED
    BY <2>1 DEF MarkFits
<1>4. /\ DOMAIN record' = DOMAIN record
      /\ \A u \in DOMAIN record : record'[u] = IF u = t THEN r ELSE record[u]
  <2>1. record' = [record EXCEPT ![t] = r]
    BY <1>2
  <2>2. QED
    BY <2>1
<1>4a. \A u \in DOMAIN record :
          /\ record'[u].session = record[u].session /\ record'[u].request = record[u].request
          /\ record'[u].answers = record[u].answers /\ record'[u].terminal = record[u].terminal
  BY <1>3, <1>4
<1>5. /\ call' \in [Callers -> Calls]
      /\ \A d \in Callers : call'[d] = IF d = c THEN k ELSE call[d]
  <2> HIDE DEF Calls
  <2>1. QED
    BY DEF TurnInv, TypeOK
<1>6. TypeOK'
  <2>1. \A u \in DOMAIN record' : record'[u] \in Records
    BY <1>3, <1>4, StoreFacts
  <2>2. QED
    BY <1>4, <1>5, <2>1 DEF TurnInv, TypeOK
<1>7. ActiveInv'
  <2>1. \A s \in Sessions : TurnsOf(s)' = TurnsOf(s)
    BY <1>4a, StoreFacts DEF TurnsOf
  <2>2. \A s \in Sessions : Unfinished(TurnsOf(s))' = Unfinished(TurnsOf(s))
    BY <1>3, <1>4, <2>1, StoreFacts DEF TurnsOf, Unfinished
  <2>3. QED
    BY <2>2 DEF TurnInv, ActiveInv
<1>8. RunInv'
  <2>1. RecordFits(r, job'[t])
    BY <1>1, <1>3 DEF RecordFits, Late, Fresh, Early
  <2>2. QED
    BY <1>1, <1>4, <2>1, StoreFacts DEF TurnInv, RunInv
<1>9. CancelInv'
  <2>1. \A d \in Callers : call'[d].op \in {"cancel", "cancelling"} => call'[d].turn \in DOMAIN record'
    BY <1>4, <1>5 DEF TurnInv, CancelInv
  <2>2. \A d \in Callers, u \in DOMAIN record :
          Cancelling(d, u)' =>
            \/ d # c /\ Cancelling(d, u)
            \/ d = c /\ u = t /\ k.op = "cancelling"
    BY <1>5 DEF Cancelling
  <2>3. \A d \in Callers, u \in DOMAIN record :
          Cancelling(d, u)' => /\ record'[u].terminal = "none" /\ ~record'[u].started
                               /\ record'[u].cancelled /\ job'[u] # "queued"
    <3>1. ASSUME NEW d \in Callers, NEW u \in DOMAIN record, d # c, Cancelling(d, u)
          PROVE  /\ record'[u].terminal = "none" /\ ~record'[u].started
                 /\ record'[u].cancelled /\ job'[u] # "queued"
      <4>1. record[u].terminal = "none" /\ ~record[u].started /\ record[u].cancelled /\ job[u] # "queued"
        BY <3>1 DEF TurnInv, CancelInv
      <4>2. QED
        BY <1>3, <1>4, <4>1, StoreFacts
    <3>2. k.op = "cancelling" => /\ record'[t].terminal = "none" /\ ~record'[t].started
                                 /\ record'[t].cancelled /\ job'[t] # "queued"
      BY <1>3, <1>4
    <3>3. QED
      BY <2>2, <3>1, <3>2
  <2>4. \A d, e \in Callers, u \in DOMAIN record : Cancelling(d, u)' /\ Cancelling(e, u)' => d = e
    BY <2>2 DEF TurnInv, CancelInv
  <2>5. QED
    BY <1>4, <2>1, <2>3, <2>4 DEF CancelInv
<1>10. ErasureInv'
  <2>1. \A u \in DOMAIN record : /\ record'[u].session = record[u].session
                                 /\ record'[u].terminal = record[u].terminal
                                 /\ job'[u] \in Owning => job[u] = job'[u] /\ job[u] # "queued"
    <3>1. \A u \in DOMAIN record : job'[u] \in Owning => job[u] = job'[u] /\ job[u] # "queued"
      BY StoreFacts DEF Owning, Late
    <3>2. QED
      BY <1>4a, <3>1
  <2>2. ASSUME NEW u \in DOMAIN record, erased[record[u].session], job'[u] \in Owning,
               record'[u].terminal = "none"
        PROVE  /\ record[u].session \in DOMAIN revoked_sessions'
               /\ revoked_sessions'[record[u].session] = u
    <3>1. /\ record[u].session \in DOMAIN revoked_sessions
          /\ revoked_sessions[record[u].session] = u
      BY <2>1, <2>2 DEF TurnInv, ErasureInv
    <3>2. QED
      BY <2>1, <2>2, <3>1
  <2>3. QED
    <3>1. ErasureInv /\ UNCHANGED <<phase, erased, turns, service>> /\ DOMAIN record' = DOMAIN record
      BY <1>4 DEF TurnInv
    <3>2. QED
      BY <2>1, <2>2, <3>1 DEF ErasureInv
<1>11. ServiceInv'
  BY <1>1, StoreFacts DEF TurnInv, ServiceInv, Working
<1>12. RequestsAdmittedOnce'
  <2>1. \A u \in turns : <<record'[u].session, record'[u].request>>
                            = <<record[u].session, record[u].request>>
    BY <1>4a, StoreFacts
  <2>2. RequestsAdmittedOnce /\ turns' = turns /\ idempotency' = idempotency
    BY DEF TurnInv
  <2>3. ASSUME NEW x \in DOMAIN idempotency'
        PROVE  /\ idempotency'[x] \in turns'
               /\ x = <<record'[idempotency'[x]].session, record'[idempotency'[x]].request>>
    <3>1. /\ idempotency[x] \in turns /\ idempotency'[x] = idempotency[x]
          /\ x = <<record[idempotency[x]].session, record[idempotency[x]].request>>
      BY <2>2, <2>3 DEF RequestsAdmittedOnce
    <3>2. QED
      BY <2>1, <2>2, <3>1
  <2>4. ASSUME NEW u \in turns'
        PROVE  /\ <<record'[u].session, record'[u].request>> \in DOMAIN idempotency'
               /\ idempotency'[<<record'[u].session, record'[u].request>>] = u
    <3>1. u \in turns
      BY <2>2, <2>4
    <3>2. /\ <<record[u].session, record[u].request>> \in DOMAIN idempotency
          /\ idempotency[<<record[u].session, record[u].request>>] = u
      BY <2>2, <3>1 DEF RequestsAdmittedOnce
    <3>3. QED
      BY <2>1, <2>2, <3>1, <3>2
  <2>5. QED
    BY <2>3, <2>4 DEF RequestsAdmittedOnce
<1>13. NothingSurvivesErasure'
  <2>1. \A s \in Sessions : TurnsOf(s)' = TurnsOf(s)
    BY <1>4a, StoreFacts DEF TurnsOf
  <2>2. QED
    BY <2>1 DEF TurnInv, NothingSurvivesErasure
<1>14. PrivateWhileUsable'
  BY <1>3, <1>4, StoreFacts DEF TurnInv, PrivateWhileUsable, HeadsCanBeBasis
<1>15. PrivateInv'
  BY <1>3, <1>4, StoreFacts DEF TurnInv, PrivateInv
<1>16. QuestionInv'
  <2>1. ASSUME NEW s \in Sessions, NEW u, u = question'[s].holder, u # 0
        PROVE  /\ u \in turns' /\ record'[u].session = s /\ record'[u].answers = question'[s].id
               /\ Releases(call', u, record'[u], job'[u])
    <3>1. /\ question'[s].id = question[s].id /\ u = question[s].holder
          /\ u = t => job'[t] = job[t]
      BY <2>1 DEF NoQuestion
    <3>2. u \in turns /\ record[u].session = s /\ record[u].answers = question[s].id
          /\ Releases(call, u, record[u], job[u])
      BY <2>1, <3>1 DEF TurnInv, QuestionInv
    <3>3. /\ u \in TurnIds /\ job'[u] = job[u] /\ record'[u].terminal = record[u].terminal
          /\ record'[u].session = s /\ record'[u].answers = question[s].id
      <4>1. u \in DOMAIN record /\ u \in TurnIds
        BY <3>2, StoreFacts
      <4>2. job'[u] = job[u]
        BY <3>1, <4>1
      <4>3. QED
        BY <1>4a, <3>2, <4>1, <4>2
    <3>4. Releases(call', u, record'[u], job'[u])
      BY <1>5, <3>2, <3>3 DEF Releases
    <3>5. QED
      BY <3>1, <3>2, <3>3, <3>4
  <2>2. NoQuestion.id = 0 /\ next_question > 0
    BY DEF NoQuestion, TurnInv, TypeOK
  <2>3. \A s \in Sessions : /\ question'[s].id < next_question'
                            /\ question'[s].id # 0 => question'[s].asker # 0
    BY <2>2 DEF TurnInv, QuestionInv
  <2>4. QED
    BY <2>1, <2>3 DEF QuestionInv
<1>17. VisibleInv'
  <2>1. ASSUME NEW s \in Sessions, service = "open", question'[s].id # 0
        PROVE  \E v \in turns' : record'[v].session = s /\ Shows(question'[s], v, record'[v], job'[v])
    <3>1. question'[s].id = question[s].id /\ question'[s].asker = question[s].asker
      BY <2>1 DEF NoQuestion
    <3>2. PICK v \in turns : record[v].session = s /\ Shows(question[s], v, record[v], job[v])
      BY <2>1, <3>1 DEF TurnInv, VisibleInv
    <3>3. CASE v # t
      <4>1. record'[v] = record[v] /\ job'[v] = job[v]
        BY <1>4, <3>2, <3>3, StoreFacts
      <4>2. Shows(question'[s], v, record'[v], job'[v])
        BY <3>1, <3>2, <4>1 DEF Shows
      <4>3. QED
        BY <3>2, <4>1, <4>2
    \* a turn that asks the question withdraws it when its worker sees the cancellation
    <3>4. CASE v = t
      <4>1. job[t] \in Late /\ record[t].result = "asked" /\ question[s].asker \in {t, record[t].rest}
        BY <3>2, <3>4 DEF Shows
      <4>2. question[s].asker = t
        BY <2>1, <3>2, <3>4, <4>1
      <4>3. job'[t] \in Late
        BY <4>1 DEF Late
      <4>4. record'[t] = r
        BY <1>4
      <4>5. Shows(question'[s], t, record'[t], job'[t])
        BY <1>3, <3>1, <3>2, <3>4, <4>1, <4>2, <4>3, <4>4 DEF Shows
      <4>6. QED
        BY <1>3, <3>2, <3>4, <4>4, <4>5
    <3>5. QED
      BY <3>3, <3>4
  <2>2. QED
    BY <2>1 DEF VisibleInv
<1>18. ResultsStay
  BY <1>3, <1>4 DEF ResultsStay
<1>19. QED
  BY <1>6, <1>7, <1>8, <1>9, <1>10, <1>11, <1>12, <1>13, <1>14, <1>15, <1>16, <1>17, <1>18 DEF TurnInv

LEMMA CancelTurnKeeps ==
  ASSUME TurnInv, NEW c \in Callers, CancelTurn(c)
  PROVE  TurnInv' /\ ResultsStay
<1> DEFINE t == call[c].turn
<1>1. call[c].op = "cancel" /\ t \in TurnIds /\ t \in DOMAIN record
      /\ call[c] = [op |-> "cancel", turn |-> t]
  BY CallShape DEF CancelTurn, TurnInv, CancelInv
<1>2. UNCHANGED <<phase, erased, turns, idempotency, proposal_heads, active, next_turn,
                  next_question, service>> /\ ConditionFree(t)
  BY DEF CancelTurn, sessionVars
<1>3. record[t] \in Records /\ RecordFits(record[t], job[t])
  BY <1>1, StoreFacts DEF TurnInv, RunInv
<1>4. /\ job \in [TurnIds -> {"none", "queued"} \cup Working \cup Ended]
      /\ question \in [Sessions -> [id : 0 .. MaxQuestion, asker : 0 .. MaxTurn, holder : 0 .. MaxTurn]]
      /\ DOMAIN revoked_sessions \subseteq Sessions
      /\ \A s \in DOMAIN revoked_sessions : revoked_sessions[s] \in TurnIds
  BY DEF TurnInv, TypeOK
<1>5. CASE /\ call' = [call EXCEPT ![c] = Idle]
           /\ UNCHANGED <<record, admitted_work, workVars, question, revoked_sessions>>
  BY <1>1, <1>2, <1>5, IdleCall, CallKeeps DEF storeVars, dialogueVars
<1>6. CASE /\ record[t].terminal = "none"
           /\ record' = [record EXCEPT ![t] = Marked(t)]
           /\ question' = RestWithdrawnIfCurrent(t)
           /\ call' = [call EXCEPT ![c] = Idle]
           /\ UNCHANGED <<admitted_work, workVars, revoked_sessions>>
  <2>1. /\ question' \in [Sessions -> [id : 0 .. MaxQuestion, asker : 0 .. MaxTurn, holder : 0 .. MaxTurn]]
        /\ \A s \in Sessions : question'[s] \in {question[s], NoQuestion}
        /\ \A s \in Sessions : question'[s].id # 0 /\ s = record[t].session /\ t \in turns
                               => question[s].asker # record[t].rest
    <3>1. CASE t \in turns
      <4>1. question' = Discarded(record[t].session, {record[t].rest})
        BY <1>6, <3>1 DEF RestWithdrawnIfCurrent, RestWithdrawn
      <4>2. QED
        BY <1>1, <4>1, DiscardedFacts
    <3>2. CASE t \notin turns
      BY <1>4, <1>6, <3>2 DEF RestWithdrawnIfCurrent
    <3>3. QED
      BY <3>1, <3>2
  <2>2. job' = job /\ queue' = queue
    BY <1>6 DEF workVars
  <2>3. QED
    BY <1>1, <1>2, <1>4, <1>6, <2>1, <2>2, IdleCall, MarkKeeps
<1>7. CASE /\ record[t].terminal = "none" /\ ~record[t].started
           /\ record' = [record EXCEPT ![t] = Marked(t)]
           /\ admitted_work' = WorkLeft({t})
           /\ CancelFutures({t}) /\ UNCHANGED queue
           /\ question' = Unclaimed(Queued({t}))
           /\ revoked_sessions' = Unguarded(Queued({t}))
           /\ call' = [call EXCEPT ![c].op = "cancelling"]
  <2>1. PICK k : k = [op |-> "cancelling", turn |-> t]
    OBVIOUS
  <2>2. k \in Calls /\ k.op = "cancelling" /\ k.turn = t
    BY <1>1, <2>1 DEF Calls
  <2>3. call' = [call EXCEPT ![c] = k]
    <3>1. PICK u : u = t
      OBVIOUS
    <3>2. call[c] = [op |-> "cancel", turn |-> u] /\ k = [op |-> "cancelling", turn |-> u]
      BY <1>1, <2>1, <3>1
    <3>3. [call[c] EXCEPT !.op = "cancelling"] = k
      BY <3>2
    <3>4. QED
      BY <1>7, <3>3
  <2>4. /\ job' \in [TurnIds -> {"none", "queued"} \cup Working \cup Ended]
        /\ \A u \in TurnIds : job'[u] = IF u \in {t} /\ job[u] = "queued" THEN "cancelled" ELSE job[u]
    BY <1>7, FutureFacts
  <2>5. /\ question' \in [Sessions -> [id : 0 .. MaxQuestion, asker : 0 .. MaxTurn, holder : 0 .. MaxTurn]]
        /\ \A s \in Sessions :
              /\ question'[s].id = question[s].id /\ question'[s].asker = question[s].asker
              /\ question'[s].holder \in {0, question[s].holder}
              /\ question'[s].holder # 0 => question'[s].holder \notin Queued({t})
              /\ question[s] = NoQuestion => question'[s] = NoQuestion
    BY <1>7, ClaimFacts
  <2>6. /\ DOMAIN revoked_sessions' \subseteq Sessions
        /\ \A s \in DOMAIN revoked_sessions' : revoked_sessions'[s] \in TurnIds
        /\ \A s \in DOMAIN revoked_sessions : revoked_sessions[s] \notin Queued({t}) =>
              s \in DOMAIN revoked_sessions' /\ revoked_sessions'[s] = revoked_sessions[s]
    BY <1>7, GuardFacts
  <2>7. job[t] \notin Late
    BY <1>3, <1>7 DEF RecordFits
  <2>8. /\ t \in TurnIds /\ \A u \in TurnIds : u # t => job'[u] = job[u]
        /\ job'[t] = job[t] \/ (job[t] = "queued" /\ job'[t] = "cancelled")
        /\ job'[t] # "queued"
        /\ job[t] = "queued" => t \in Queued({t})
        /\ \A u \in Queued({t}) : u = t /\ job[t] = "queued"
    BY <1>1, <2>4 DEF Queued
  <2>9. \A s \in Sessions :
            \/ question'[s] = NoQuestion
            \/ /\ question'[s].id = question[s].id /\ question'[s].asker = question[s].asker
               /\ question'[s].holder \in {0, question[s].holder}
               /\ question'[s].holder = t => job'[t] = job[t]
               /\ question[s] # NoQuestion
    BY <2>5, <2>8, StoreFacts
  <2>10. \A s \in DOMAIN revoked_sessions : revoked_sessions[s] # t \/ job[t] # "queued" =>
            s \in DOMAIN revoked_sessions' /\ revoked_sessions'[s] = revoked_sessions[s]
    BY <2>6, <2>8
  <2>11. \A d \in Callers : ~Cancelling(d, t)
    BY <1>2 DEF ConditionFree, Cancelling
  <2>12. admitted_work' \subseteq admitted_work
    BY <1>7 DEF WorkLeft
  <2>13. QED
    BY <1>1, <1>2, <1>7, <2>2, <2>3, <2>4, <2>5, <2>6, <2>7, <2>8, <2>9, <2>10, <2>11, <2>12, MarkKeeps
<1>8. QED
  BY <1>5, <1>6, <1>7 DEF CancelTurn, Marked

LEMMA FinishCancelKeeps ==
  ASSUME TurnInv, NEW c \in Callers, FinishCancel(c)
  PROVE  TurnInv' /\ ResultsStay
<1> DEFINE t == call[c].turn
<1>1. call[c].op = "cancelling" /\ t \in TurnIds /\ t \in DOMAIN record /\ Cancelling(c, t)
  BY CallShape DEF FinishCancel, TurnInv, CancelInv, Cancelling
<1>2. /\ UNCHANGED <<phase, erased, revoked_sessions, next_question, turns, idempotency,
                     proposal_heads, admitted_work, next_turn, job, queue, service>>
      /\ active' = active \ {record[t].session} /\ question' = Unclaimed({t})
  BY DEF FinishCancel, Terminate, sessionVars, workVars
<1>3. /\ record[t] \in Records /\ record[t].session \in Sessions /\ RecordFits(record[t], job[t])
      /\ record[t].terminal = "none" /\ ~record[t].started /\ record[t].cancelled
      /\ job[t] \notin Late /\ job[t] \notin Noting /\ t # 0
  BY <1>1, StoreFacts DEF TurnInv, RunInv, CancelInv, RecordFits, Late, Noting
<1>4. PICK r : r = [record[t] EXCEPT !.terminal = "cancelled"]
  OBVIOUS
<1>5. /\ r \in Records /\ r.session = record[t].session /\ r.request = record[t].request
      /\ r.target = record[t].target /\ r.basis = record[t].basis
      /\ r.answers = record[t].answers /\ r.cancelled = record[t].cancelled
      /\ r.private = record[t].private /\ r.started = record[t].started
      /\ r.terminal = "cancelled" /\ r.asks = record[t].asks /\ r.result = record[t].result
      /\ r.notes = record[t].notes
  BY <1>3, <1>4 DEF Records, Outcomes
<1>6. /\ DOMAIN record' = DOMAIN record
      /\ \A u \in DOMAIN record : record'[u] = IF u = t THEN r ELSE record[u]
  <2>1. record' = [record EXCEPT ![t] = r]
    BY <1>4 DEF FinishCancel, Terminate
  <2>2. QED
    BY <2>1
<1>6a. \A u \in DOMAIN record :
          /\ record'[u].session = record[u].session /\ record'[u].request = record[u].request
          /\ record'[u].private = record[u].private /\ record'[u].cancelled = record[u].cancelled
          /\ record'[u].notes = record[u].notes
          /\ record'[u].terminal = "none" => record[u].terminal = "none"
          /\ u # t => record'[u] = record[u]
  BY <1>5, <1>6
<1>7. /\ call' \in [Callers -> Calls]
      /\ \A d \in Callers : call'[d] = IF d = c THEN Idle ELSE call[d]
  <2>1. call' = [call EXCEPT ![c] = Idle]
    BY DEF FinishCancel
  <2> HIDE DEF Calls
  <2>2. QED
    BY <2>1, IdleCall DEF TurnInv, TypeOK
<1>8. /\ question' \in [Sessions -> [id : 0 .. MaxQuestion, asker : 0 .. MaxTurn, holder : 0 .. MaxTurn]]
      /\ \A s \in Sessions :
            /\ question'[s].id = question[s].id /\ question'[s].asker = question[s].asker
            /\ question'[s].holder \in {0, question[s].holder} /\ question'[s].holder # t
            /\ question[s] = NoQuestion => question'[s] = NoQuestion
  <2>1. question' = Unclaimed({t})
    BY <1>2
  <2>2. QED
    BY <1>3, <2>1, ClaimFacts
<1>9. TypeOK'
  <2>1. \A u \in DOMAIN record' : record'[u] \in Records
    BY <1>5, <1>6, StoreFacts
  <2>2. QED
    BY <1>2, <1>6, <1>7, <1>8, <2>1 DEF TurnInv, TypeOK
<1>10. ActiveInv'
  <2>1. ASSUME NEW s \in Sessions, s # r.session
        PROVE  Unfinished(TurnsOf(s))' = Unfinished(TurnsOf(s)) /\ (s \in active' <=> s \in active)
    <3>1. \A u \in TurnsOf(s) : u # t /\ u \in DOMAIN record
      BY <1>5, <2>1, StoreFacts DEF TurnsOf
    <3>2. TurnsOf(s)' = TurnsOf(s)
      BY <1>2, <1>6a, StoreFacts DEF TurnsOf
    <3>3. Unfinished(TurnsOf(s))' = Unfinished(TurnsOf(s))
      BY <1>6a, <3>1, <3>2 DEF Unfinished
    <3>4. QED
      BY <1>2, <1>5, <2>1, <3>3
  <2>2. Unfinished(TurnsOf(r.session))' = {} /\ r.session \notin active'
    <3>1. Unfinished(TurnsOf(r.session)) \subseteq {t}
      <4>1. CASE t \in turns
        <5>1. t \in TurnsOf(r.session) /\ t \in Unfinished(TurnsOf(r.session))
          BY <1>3, <1>5, <4>1 DEF Unfinished, TurnsOf
        <5>2. QED
          BY <1>3, <1>5, <5>1 DEF TurnInv, ActiveInv
      <4>2. CASE t \notin turns
        <5>1. TurnsOf(r.session) = {}
          BY <1>1, <1>3, <1>5, <4>2 DEF TurnInv, ErasureInv, NothingSurvivesErasure, ServiceInv, TurnsOf
        <5>2. QED
          BY <5>1 DEF Unfinished
      <4>3. QED
        BY <4>1, <4>2
    <3>2. TurnsOf(r.session)' = TurnsOf(r.session) /\ TurnsOf(r.session) \subseteq DOMAIN record
      BY <1>2, <1>6a, StoreFacts DEF TurnsOf
    <3>3. record'[t].terminal = "cancelled"
      BY <1>1, <1>5, <1>6
    <3>4. Unfinished(TurnsOf(r.session))' = {}
      BY <1>6a, <3>1, <3>2, <3>3 DEF Unfinished
    <3>5. QED
      BY <1>2, <1>5, <3>4
  <2>3. QED
    BY <2>1, <2>2 DEF TurnInv, ActiveInv
<1>11. RunInv'
  <2>1. RecordFits(r, job[t])
    BY <1>3, <1>5 DEF RecordFits
  <2>2. QED
    BY <1>2, <1>6, <2>1, StoreFacts DEF TurnInv, RunInv
<1>12. CancelInv'
  <2>1. \A d \in Callers : call'[d].op \in {"cancel", "cancelling"} =>
                             call'[d].turn \in DOMAIN record' /\ call'[d] = call[d] /\ d # c
    BY <1>6, <1>7, IdleCall DEF TurnInv, CancelInv
  <2>2. \A d \in Callers, u \in DOMAIN record : Cancelling(d, u)' => Cancelling(d, u) /\ d # c
    BY <1>7, IdleCall DEF Cancelling
  <2>3. \A d \in Callers : Cancelling(d, t) => d = c
    BY <1>1 DEF TurnInv, CancelInv
  <2>4. QED
    BY <1>2, <1>6, <2>1, <2>2, <2>3 DEF TurnInv, CancelInv
<1>13. ErasureInv'
  BY <1>2, <1>6, <1>6a DEF TurnInv, ErasureInv
<1>14. ServiceInv'
  BY <1>2 DEF TurnInv, ServiceInv
<1>15. RequestsAdmittedOnce'
  <2>1. \A u \in turns : <<record'[u].session, record'[u].request>>
                            = <<record[u].session, record[u].request>>
    BY <1>6a, StoreFacts
  <2>2. QED
    BY <1>2, <2>1 DEF TurnInv, RequestsAdmittedOnce
<1>16. NothingSurvivesErasure'
  <2>1. \A s \in Sessions : TurnsOf(s)' = TurnsOf(s)
    BY <1>2, <1>6a, StoreFacts DEF TurnsOf
  <2>2. QED
    BY <1>2, <1>8, <2>1 DEF TurnInv, NothingSurvivesErasure
<1>17. PrivateWhileUsable'
  <2>1. \A u \in DOMAIN record : record[u].terminal # "none" => record'[u] = record[u]
    BY <1>3, <1>6a
  <2>2. t \in turns => ~record[t].notes
    BY <1>3 DEF TurnInv, PrivateInv
  <2>3. QED
    BY <1>2, <1>6, <1>6a, <2>1, <2>2, StoreFacts DEF TurnInv, PrivateWhileUsable, HeadsCanBeBasis
<1>18. PrivateInv'
  BY <1>2, <1>6a, StoreFacts DEF TurnInv, PrivateInv
<1>19. QuestionInv'
  <2>1. ASSUME NEW s \in Sessions, NEW u, u = question'[s].holder, u # 0
        PROVE  /\ u \in turns' /\ record'[u].session = s /\ record'[u].answers = question'[s].id
               /\ Releases(call', u, record'[u], job'[u])
    <3>1. question'[s].id = question[s].id /\ u = question[s].holder /\ u # t
      BY <1>8, <2>1
    <3>2. u \in turns /\ record[u].session = s /\ record[u].answers = question[s].id
          /\ Releases(call, u, record[u], job[u])
      BY <2>1, <3>1 DEF TurnInv, QuestionInv
    <3>3. record'[u] = record[u] /\ job'[u] = job[u]
      BY <1>2, <1>6, <3>1, <3>2, StoreFacts
    <3>4. Releases(call', u, record[u], job[u])
      BY <1>7, <3>1, <3>2 DEF Releases
    <3>5. QED
      BY <1>2, <3>1, <3>2, <3>3, <3>4
  <2>2. ASSUME NEW s \in Sessions
        PROVE  /\ question'[s].id < next_question'
               /\ question'[s].id # 0 => question'[s].asker # 0
    BY <1>2, <1>8 DEF TurnInv, QuestionInv
  <2>3. QED
    BY <2>1, <2>2 DEF QuestionInv
<1>20. VisibleInv'
  <2>1. ASSUME NEW s \in Sessions, service = "open", question'[s].id # 0
        PROVE  \E v \in turns' : record'[v].session = s /\ Shows(question'[s], v, record'[v], job'[v])
    <3>1. question'[s].id = question[s].id /\ question'[s].asker = question[s].asker
      BY <1>8
    <3>2. PICK v \in turns : record[v].session = s /\ Shows(question[s], v, record[v], job[v])
      BY <2>1, <3>1 DEF TurnInv, VisibleInv
    <3>3. v # t
      BY <1>3, <3>2 DEF Shows
    <3>4. record'[v] = record[v] /\ job'[v] = job[v] /\ v \in turns'
      BY <1>2, <1>6, <3>2, <3>3, StoreFacts
    <3>5. Shows(question'[s], v, record'[v], job'[v])
      BY <3>1, <3>2, <3>4 DEF Shows
    <3>6. QED
      BY <3>2, <3>4, <3>5
  <2>2. QED
    BY <1>2, <2>1 DEF VisibleInv
<1>21. ResultsStay
  BY <1>2, <1>3, <1>6 DEF ResultsStay
<1>22. QED
  BY <1>9, <1>10, <1>11, <1>12, <1>13, <1>14, <1>15, <1>16, <1>17, <1>18, <1>19, <1>20, <1>21 DEF TurnInv

-----------------------------------------------------------------------------
(* Erasure and shutdown                                                    *)

\* The record r is x, with less private data or told to stop.
Retired(r, x) ==
  /\ r \in Records
  /\ r.session = x.session /\ r.request = x.request /\ r.target = x.target /\ r.basis = x.basis
  /\ r.answers = x.answers /\ r.asks = x.asks /\ r.result = x.result
  /\ r.terminal = x.terminal /\ r.started = x.started
  /\ r.private => x.private
  /\ r.notes => x.notes
  /\ x.cancelled => r.cancelled

\* Turns leave the store or lose their private data, and the queued ones
\* among T are cancelled.
RetireStep(T) ==
  /\ DOMAIN record' = DOMAIN record
  /\ \A t \in DOMAIN record : Retired(record'[t], record[t])
  /\ job' \in [TurnIds -> {"none", "queued"} \cup Working \cup Ended]
  /\ \A t \in TurnIds : job'[t] = IF t \in T /\ job[t] = "queued" THEN "cancelled" ELSE job[t]
  /\ question' \in [Sessions -> [id : 0 .. MaxQuestion, asker : 0 .. MaxTurn, holder : 0 .. MaxTurn]]
  /\ \A s \in Sessions :
       \/ question'[s] = NoQuestion
       \/ /\ question'[s].id = question[s].id /\ question'[s].asker = question[s].asker
          /\ question'[s].holder # 0 =>
                /\ question'[s].holder = question[s].holder /\ question'[s].holder \in turns'
                /\ ~(question'[s].holder \in T /\ job[question'[s].holder] = "queued")
  /\ UNCHANGED <<phase, next_turn, next_question, call>>
  /\ turns' \subseteq turns /\ admitted_work' \subseteq turns' /\ active' \subseteq active
  /\ queue' \in Seq(TurnIds)
  /\ DOMAIN revoked_sessions' \subseteq Sessions
  /\ \A s \in DOMAIN revoked_sessions' : revoked_sessions'[s] \in TurnIds
  /\ erased' \in [Sessions -> BOOLEAN]
  /\ service' \in {"open", "closing", "draining", "closed"}

LEMMA RetireKeeps ==
  ASSUME TurnInv, NEW T, RetireStep(T)
  PROVE  TypeOK' /\ RunInv' /\ CancelInv' /\ QuestionInv'
<1>1. TypeOK'
  BY DEF RetireStep, Retired, TurnInv, TypeOK
<1>2. RunInv'
  <2>1. \A t \in TurnIds : job'[t] # "none" => t \in DOMAIN record'
    BY DEF RetireStep, TurnInv, RunInv
  <2>2. ASSUME NEW t \in DOMAIN record
        PROVE  RecordFits(record'[t], job'[t])
    <3>1. RecordFits(record[t], job[t]) /\ Retired(record'[t], record[t]) /\ t \in TurnIds
      BY StoreFacts DEF RetireStep, TurnInv, RunInv
    <3>2. job'[t] = job[t] \/ (job[t] = "queued" /\ job'[t] = "cancelled")
      BY <3>1 DEF RetireStep
    <3>3. QED
      BY <3>1, <3>2 DEF RecordFits, Retired, Late, Fresh, Early
  <2>3. QED
    BY <2>1, <2>2 DEF RunInv, RetireStep
<1>3. CancelInv'
  <2>1. \A c \in Callers, t \in DOMAIN record :
          record[t].terminal = "none" /\ ~record[t].started /\ record[t].cancelled /\ job[t] # "queued" =>
            record'[t].terminal = "none" /\ ~record'[t].started /\ record'[t].cancelled /\ job'[t] # "queued"
    BY StoreFacts DEF RetireStep, Retired
  <2>2. call' = call /\ DOMAIN record' = DOMAIN record
    BY DEF RetireStep
  <2>3. QED
    BY <2>1, <2>2 DEF TurnInv, CancelInv, Cancelling
<1>4. QuestionInv'
  <2>1. ASSUME NEW s \in Sessions, NEW u, u = question'[s].holder, u # 0
        PROVE  /\ u \in turns' /\ record'[u].session = s /\ record'[u].answers = question'[s].id
               /\ Releases(call', u, record'[u], job'[u])
    <3>1. /\ question'[s].id = question[s].id /\ u = question[s].holder /\ u \in turns'
          /\ ~(u \in T /\ job[u] = "queued")
      BY <2>1 DEF RetireStep, NoQuestion
    <3>2. u \in turns /\ record[u].session = s /\ record[u].answers = question[s].id
          /\ Releases(call, u, record[u], job[u])
      BY <2>1, <3>1 DEF TurnInv, QuestionInv
    <3>3. u \in DOMAIN record /\ u \in TurnIds
      BY <3>2, StoreFacts
    <3>4. Retired(record'[u], record[u]) /\ job'[u] = job[u] /\ call' = call
      BY <3>1, <3>3 DEF RetireStep
    <3>5. Releases(call', u, record'[u], job'[u])
      BY <3>2, <3>4 DEF Releases, Retired
    <3>6. QED
      BY <3>1, <3>2, <3>4, <3>5 DEF Retired
  <2>2. \A s \in Sessions : /\ question[s].id < next_question
                            /\ question[s].id # 0 => question[s].asker # 0
    BY DEF TurnInv, QuestionInv
  <2>3. 0 < next_question /\ NoQuestion.id = 0
    BY DEF TurnInv, TypeOK, NoQuestion
  <2>4. \A s \in Sessions : /\ question'[s].id < next_question'
                            /\ question'[s].id # 0 => question'[s].asker # 0
    BY <2>2, <2>3 DEF RetireStep
  <2>5. QED
    BY <2>1, <2>4 DEF QuestionInv
<1>5. QED
  BY <1>1, <1>2, <1>3, <1>4

LEMMA ClearedFacts ==
  ASSUME TurnInv, NEW T, NEW S, record' = Cleared(T, S)
  PROVE  /\ DOMAIN record' = DOMAIN record
         /\ \A t \in DOMAIN record :
               /\ Retired(record'[t], record[t])
               /\ t \in T => ~record'[t].private /\ ~record'[t].notes
               /\ t \notin T => record'[t] = record[t]
<1>1. DOMAIN record' = DOMAIN record
  BY DEF Cleared
<1>2. ASSUME NEW t \in DOMAIN record
      PROVE  /\ Retired(record'[t], record[t])
             /\ t \in T => ~record'[t].private /\ ~record'[t].notes
             /\ t \notin T => record'[t] = record[t]
  <2>1. record[t] \in Records
    BY StoreFacts
  <2>2. CASE t \in T
    <3>1. record'[t] = [Emptied(record[t]) EXCEPT !.cancelled = @ \/ t \in S]
      BY <2>2 DEF Cleared
    <3>2. PICK e : e = Emptied(record[t])
      OBVIOUS
    <3>3. /\ e \in Records /\ e.session = record[t].session /\ e.request = record[t].request
          /\ e.target = record[t].target /\ e.basis = record[t].basis
          /\ e.answers = record[t].answers /\ e.asks = record[t].asks
          /\ e.result = record[t].result /\ e.terminal = record[t].terminal
          /\ e.started = record[t].started /\ e.cancelled = record[t].cancelled
          /\ e.private = FALSE /\ e.notes = FALSE
      BY <2>1, <3>2, EmptiedFacts, StoreFacts
    <3>4. (e.cancelled \/ t \in S) \in BOOLEAN
      OBVIOUS
    <3>5. PICK c : c = (e.cancelled \/ t \in S)
      OBVIOUS
    <3>6. record'[t] = [e EXCEPT !.cancelled = c] /\ c \in BOOLEAN /\ (e.cancelled => c)
      BY <3>1, <3>2, <3>4, <3>5
    <3>7. QED
      BY <2>2, <3>3, <3>6 DEF Records, Retired
  <2>3. CASE t \notin T
    <3>1. record'[t] = record[t]
      BY <2>3 DEF Cleared
    <3>2. QED
      BY <2>1, <2>3, <3>1 DEF Retired
  <2>4. QED
    BY <2>2, <2>3
<1>3. QED
  BY <1>1, <1>2

LEMMA StopTurnsKeeps ==
  ASSUME TurnInv, StopTurns
  PROVE  TurnInv' /\ ResultsStay
<1>1. /\ service = "open" /\ service' = "closing" /\ proposal_heads' = <<>>
      /\ record' = Cleared(turns, Unfinished(turns)) /\ admitted_work' = {}
      /\ CancelFutures(turns) /\ queue' = queue
      /\ question' = Unclaimed(Queued(turns)) /\ revoked_sessions' = Unguarded(Queued(turns))
      /\ UNCHANGED <<phase, erased, next_question, turns, idempotency, active, next_turn, call>>
  BY DEF StopTurns, sessionVars
<1>2. /\ DOMAIN record' = DOMAIN record
      /\ \A t \in DOMAIN record : /\ Retired(record'[t], record[t])
                                  /\ t \in turns => ~record'[t].private /\ ~record'[t].notes
                                  /\ t \notin turns => record'[t] = record[t]
  BY <1>1, ClearedFacts
<1>3. /\ job' \in [TurnIds -> {"none", "queued"} \cup Working \cup Ended]
      /\ \A t \in TurnIds : job'[t] = IF t \in turns /\ job[t] = "queued" THEN "cancelled" ELSE job[t]
  BY <1>1, FutureFacts
<1>4. /\ question' \in [Sessions -> [id : 0 .. MaxQuestion, asker : 0 .. MaxTurn, holder : 0 .. MaxTurn]]
      /\ \A s \in Sessions :
            /\ question'[s].id = question[s].id /\ question'[s].asker = question[s].asker
            /\ question'[s].holder \in {0, question[s].holder}
            /\ question'[s].holder # 0 => question'[s].holder \notin Queued(turns)
            /\ question[s] = NoQuestion => question'[s] = NoQuestion
  BY <1>1, ClaimFacts
<1>5. /\ DOMAIN revoked_sessions' \subseteq Sessions
      /\ \A s \in DOMAIN revoked_sessions' : revoked_sessions'[s] \in TurnIds
      /\ \A s \in DOMAIN revoked_sessions : revoked_sessions[s] \notin Queued(turns) =>
            s \in DOMAIN revoked_sessions' /\ revoked_sessions'[s] = revoked_sessions[s]
  BY <1>1, GuardFacts
<1>6. RetireStep(turns)
  <2>1. /\ erased \in [Sessions -> BOOLEAN] /\ queue \in Seq(TurnIds)
        /\ \A s \in Sessions : question[s].holder # 0 => question[s].holder \in turns
    BY DEF TurnInv, TypeOK, QuestionInv
  <2>2. QED
    BY <1>1, <1>2, <1>3, <1>4, <1>5, <2>1 DEF RetireStep, Queued
<1>7. TypeOK' /\ RunInv' /\ CancelInv' /\ QuestionInv'
  BY <1>6, RetireKeeps
<1>8. ActiveInv'
  <2>1. \A s \in Sessions : Unfinished(TurnsOf(s))' = Unfinished(TurnsOf(s))
    <3>1. \A u \in turns : /\ record'[u].session = record[u].session
                            /\ record'[u].terminal = record[u].terminal
      BY <1>2, StoreFacts DEF Retired
    <3>2. QED
      BY <1>1, <3>1 DEF Unfinished, TurnsOf
  <2>2. QED
    BY <1>1, <2>1 DEF TurnInv, ActiveInv
<1>9. ErasureInv'
  <2>1. \A u \in DOMAIN record : /\ record'[u].session = record[u].session
                                 /\ record'[u].terminal = record[u].terminal
                                 /\ job'[u] \in Owning => job[u] = job'[u] /\ u \notin Queued(turns)
    BY <1>2, <1>3, StoreFacts DEF Owning, Late, Retired, Queued
  <2>2. ASSUME NEW u \in DOMAIN record, erased[record[u].session], job'[u] \in Owning,
               record'[u].terminal = "none"
        PROVE  /\ record[u].session \in DOMAIN revoked_sessions'
               /\ revoked_sessions'[record[u].session] = u
    <3>1. /\ record[u].session \in DOMAIN revoked_sessions
          /\ revoked_sessions[record[u].session] = u
      BY <2>1, <2>2 DEF TurnInv, ErasureInv
    <3>2. QED
      BY <1>5, <2>1, <2>2, <3>1
  <2>3. \A u \in DOMAIN record \ turns : erased[record[u].session]
    BY <1>1 DEF TurnInv, ErasureInv
  <2>4. \A s \in Sessions : erased[s] => phase[s] \in {"revoked", "gone"}
    BY DEF TurnInv, ErasureInv
  <2>5. QED
    BY <1>1, <1>2, <2>1, <2>2, <2>3, <2>4 DEF ErasureInv
<1>10. ServiceInv' /\ PrivateInv' /\ VisibleInv'
  BY <1>1, <1>2, StoreFacts DEF ServiceInv, PrivateInv, VisibleInv
<1>11. RequestsAdmittedOnce'
  BY <1>1, <1>2, StoreFacts DEF TurnInv, RequestsAdmittedOnce, Retired
<1>12. NothingSurvivesErasure'
  <2>1. \A s \in Sessions : TurnsOf(s)' = TurnsOf(s)
    BY <1>1, <1>2, StoreFacts DEF TurnsOf, Retired
  <2>2. DOMAIN proposal_heads' = {}
    BY <1>1
  <2>3. QED
    BY <1>1, <1>4, <2>1, <2>2 DEF TurnInv, NothingSurvivesErasure
<1>13. PrivateWhileUsable'
  <2>1. DOMAIN proposal_heads' = {}
    BY <1>1
  <2>2. \A t \in DOMAIN record : ~record'[t].private
    BY <1>2 DEF TurnInv, PrivateWhileUsable
  <2>3. QED
    BY <1>1, <1>2, <2>1, <2>2 DEF PrivateWhileUsable, HeadsCanBeBasis
<1>14. ResultsStay
  BY <1>1, <1>2 DEF ResultsStay, Retired
<1>15. QED
  BY <1>7, <1>8, <1>9, <1>10, <1>11, <1>12, <1>13, <1>14 DEF TurnInv

LEMMA StopExecutorKeeps ==
  ASSUME TurnInv, StopExecutor
  PROVE  TurnInv' /\ ResultsStay
<1>1. /\ service = "closing" /\ service' = "draining"
      /\ CancelFutures(TurnIds) /\ queue' = <<>> /\ admitted_work' = WorkLeft(Queued(TurnIds))
      /\ question' = Unclaimed(Queued(TurnIds)) /\ revoked_sessions' = Unguarded(Queued(TurnIds))
      /\ UNCHANGED <<phase, erased, next_question, turns, idempotency, proposal_heads, active,
                     next_turn, record, call>>
  BY DEF StopExecutor, sessionVars
<1>2. \A t \in DOMAIN record : Retired(record[t], record[t])
  BY StoreFacts DEF Retired
<1>3. /\ job' \in [TurnIds -> {"none", "queued"} \cup Working \cup Ended]
      /\ \A t \in TurnIds : job'[t] = IF t \in TurnIds /\ job[t] = "queued" THEN "cancelled" ELSE job[t]
  BY <1>1, FutureFacts
<1>4. /\ question' \in [Sessions -> [id : 0 .. MaxQuestion, asker : 0 .. MaxTurn, holder : 0 .. MaxTurn]]
      /\ \A s \in Sessions :
            /\ question'[s].id = question[s].id /\ question'[s].asker = question[s].asker
            /\ question'[s].holder \in {0, question[s].holder}
            /\ question'[s].holder # 0 => question'[s].holder \notin Queued(TurnIds)
            /\ question[s] = NoQuestion => question'[s] = NoQuestion
  BY <1>1, ClaimFacts
<1>5. /\ DOMAIN revoked_sessions' \subseteq Sessions
      /\ \A s \in DOMAIN revoked_sessions' : revoked_sessions'[s] \in TurnIds
      /\ \A s \in DOMAIN revoked_sessions : revoked_sessions[s] \notin Queued(TurnIds) =>
            s \in DOMAIN revoked_sessions' /\ revoked_sessions'[s] = revoked_sessions[s]
  BY <1>1, GuardFacts
<1>6. RetireStep(TurnIds)
  <2>1. /\ erased \in [Sessions -> BOOLEAN] /\ queue' \in Seq(TurnIds)
        /\ admitted_work' \subseteq turns
        /\ \A s \in Sessions : question[s].holder # 0 => question[s].holder \in turns
    BY <1>1 DEF TurnInv, TypeOK, QuestionInv, WorkLeft
  <2>2. QED
    BY <1>1, <1>2, <1>3, <1>4, <1>5, <2>1 DEF RetireStep, Queued
<1>7. TypeOK' /\ RunInv' /\ CancelInv' /\ QuestionInv'
  BY <1>6, RetireKeeps
<1>8. ActiveInv' /\ RequestsAdmittedOnce' /\ PrivateWhileUsable'
  BY <1>1 DEF TurnInv, ActiveInv, Unfinished, TurnsOf, RequestsAdmittedOnce, PrivateWhileUsable, HeadsCanBeBasis
<1>9. ErasureInv'
  <2>1. \A u \in DOMAIN record : job'[u] \in Owning => job[u] = job'[u] /\ u \notin Queued(TurnIds)
    BY <1>3, StoreFacts DEF Owning, Late, Queued
  <2>2. ASSUME NEW u \in DOMAIN record, erased[record[u].session], job'[u] \in Owning,
               record[u].terminal = "none"
        PROVE  /\ record[u].session \in DOMAIN revoked_sessions'
               /\ revoked_sessions'[record[u].session] = u
    <3>1. /\ record[u].session \in DOMAIN revoked_sessions
          /\ revoked_sessions[record[u].session] = u
      BY <2>1, <2>2 DEF TurnInv, ErasureInv
    <3>2. QED
      BY <1>5, <2>1, <2>2, <3>1
  <2>3. \A u \in DOMAIN record \ turns : erased[record[u].session]
    BY <1>1 DEF TurnInv, ErasureInv
  <2>4. \A s \in Sessions : erased[s] => phase[s] \in {"revoked", "gone"}
    BY DEF TurnInv, ErasureInv
  <2>5. QED
    BY <1>1, <2>2, <2>3, <2>4 DEF ErasureInv
<1>10. ServiceInv'
  BY <1>1, <1>3 DEF ServiceInv
<1>11. PrivateInv' /\ VisibleInv'
  BY <1>1, <1>3, StoreFacts DEF TurnInv, PrivateInv, VisibleInv, Noting
<1>12. NothingSurvivesErasure'
  BY <1>1, <1>4 DEF TurnInv, NothingSurvivesErasure, TurnsOf
<1>13. ResultsStay
  BY <1>1 DEF ResultsStay
<1>14. QED
  BY <1>7, <1>8, <1>9, <1>10, <1>11, <1>12, <1>13 DEF TurnInv

LEMMA ForgetTurnsKeeps ==
  ASSUME TurnInv, ForgetTurns
  PROVE  TurnInv' /\ ResultsStay
<1>1. /\ service = "draining" /\ service' = "closed" /\ Running = {}
      /\ turns' = {} /\ record' = Cleared(turns, {}) /\ idempotency' = <<>> /\ proposal_heads' = <<>>
      /\ active' = {} /\ admitted_work' = {} /\ question' = [s \in Sessions |-> NoQuestion]
      /\ revoked_sessions' = <<>>
      /\ UNCHANGED <<phase, erased, next_question, next_turn, job, queue, call>>
  BY DEF ForgetTurns, sessionVars, workVars
<1>2. /\ DOMAIN record' = DOMAIN record
      /\ \A t \in DOMAIN record : /\ Retired(record'[t], record[t])
                                  /\ t \in turns => ~record'[t].private /\ ~record'[t].notes
                                  /\ t \notin turns => record'[t] = record[t]
  BY <1>1, ClearedFacts
<1>3. \A t \in TurnIds : job[t] \notin Working /\ job[t] # "queued"
  BY <1>1 DEF Running, TurnInv, ServiceInv
<1>4. NoQuestion \in [id : 0 .. MaxQuestion, asker : 0 .. MaxTurn, holder : 0 .. MaxTurn]
      /\ NoQuestion.id = 0
  BY StoreFacts DEF NoQuestion
<1>5. RetireStep({})
  <2>1. /\ erased \in [Sessions -> BOOLEAN] /\ queue \in Seq(TurnIds)
        /\ job \in [TurnIds -> {"none", "queued"} \cup Working \cup Ended]
    BY DEF TurnInv, TypeOK
  <2>2. DOMAIN revoked_sessions' = {}
    BY <1>1
  <2>3. QED
    BY <1>1, <1>2, <1>4, <2>1, <2>2 DEF RetireStep
<1>6. TypeOK' /\ RunInv' /\ CancelInv' /\ QuestionInv'
  BY <1>5, RetireKeeps
<1>7. DOMAIN idempotency' = {} /\ DOMAIN proposal_heads' = {} /\ \A s \in Sessions : TurnsOf(s)' = {}
  BY <1>1 DEF TurnsOf
<1>8. ActiveInv' /\ RequestsAdmittedOnce' /\ PrivateInv' /\ VisibleInv'
  BY <1>1, <1>7 DEF ActiveInv, RequestsAdmittedOnce, PrivateInv, VisibleInv, Unfinished
<1>9. NothingSurvivesErasure'
  BY <1>1, <1>7 DEF NothingSurvivesErasure
<1>10. PrivateWhileUsable'
  BY <1>1, <1>2, <1>7 DEF TurnInv, PrivateWhileUsable, HeadsCanBeBasis
<1>11. ErasureInv'
  <2>1. \A t \in TurnIds : job[t] \notin Owning
    BY <1>3 DEF Owning, Late, Working
  <2>2. QED
    BY <1>1, <1>2, <2>1, StoreFacts DEF TurnInv, ErasureInv
<1>12. ServiceInv'
  BY <1>1, <1>3 DEF ServiceInv
<1>13. ResultsStay
  BY <1>1, <1>2 DEF ResultsStay, Retired
<1>14. QED
  BY <1>6, <1>8, <1>9, <1>10, <1>11, <1>12, <1>13 DEF TurnInv

LEMMA DropSessionKeeps ==
  ASSUME TurnInv, NEW s \in Sessions, DropSession(s)
  PROVE  TurnInv' /\ ResultsStay
<1> DEFINE doomed == TurnsOf(s)
<1>1. /\ ~erased[s] /\ phase[s] = "revoked" /\ erased' = [erased EXCEPT ![s] = TRUE]
      /\ turns' = turns \ doomed /\ record' = Cleared(doomed, doomed)
      /\ admitted_work' = WorkLeft(doomed) /\ active' = active \ {s}
      /\ idempotency' = Without(idempotency, {k \in DOMAIN idempotency : k[1] = s})
      /\ proposal_heads' = Without(proposal_heads, {k \in DOMAIN proposal_heads : k[1] = s})
      /\ question' = [question EXCEPT ![s] = NoQuestion]
      /\ CancelFutures(doomed) /\ queue' = queue
      /\ UNCHANGED <<phase, next_question, next_turn, service, call>>
  BY DEF DropSession, Session!Erase
<1>2. /\ DOMAIN record' = DOMAIN record
      /\ \A t \in DOMAIN record : /\ Retired(record'[t], record[t])
                                  /\ t \notin doomed => record'[t] = record[t]
  BY <1>1, ClearedFacts
<1>3. /\ job' \in [TurnIds -> {"none", "queued"} \cup Working \cup Ended]
      /\ \A t \in TurnIds : job'[t] = IF t \in doomed /\ job[t] = "queued" THEN "cancelled" ELSE job[t]
  BY <1>1, FutureFacts
<1>4. /\ question' \in [Sessions -> [id : 0 .. MaxQuestion, asker : 0 .. MaxTurn, holder : 0 .. MaxTurn]]
      /\ \A u \in Sessions : question'[u] = IF u = s THEN NoQuestion ELSE question[u]
      /\ NoQuestion.id = 0 /\ NoQuestion.holder = 0
  <2> DEFINE Q == [id : 0 .. MaxQuestion, asker : 0 .. MaxTurn, holder : 0 .. MaxTurn]
  <2>1. question \in [Sessions -> Q] /\ NoQuestion \in Q /\ NoQuestion.id = 0 /\ NoQuestion.holder = 0
    BY StoreFacts DEF TurnInv, TypeOK, NoQuestion
  <2> HIDE DEF Q
  <2>2. question' \in [Sessions -> Q]
        /\ \A u \in Sessions : question'[u] = IF u = s THEN NoQuestion ELSE question[u]
    BY <1>1, <2>1
  <2> USE DEF Q
  <2>3. QED
    BY <2>1, <2>2
<1>5. \A t \in turns : t \in doomed <=> record[t].session = s
  BY DEF TurnsOf
\* The guard is the unfinished turn of the session.
<1>6. s \in active => \E t \in doomed : /\ Unfinished(doomed) = {t}
                                        /\ Guards(s) = With(revoked_sessions, s, t)
  <2>1. SUFFICES ASSUME s \in active
                 PROVE  \E t \in doomed : /\ Unfinished(doomed) = {t}
                                         /\ Guards(s) = With(revoked_sessions, s, t)
    OBVIOUS
  <2>2. PICK t \in doomed : Unfinished(doomed) = {t}
    BY <2>1 DEF TurnInv, ActiveInv, Unfinished
  <2>3. t \in Nat
    BY <2>2, StoreFacts DEF TurnsOf
  <2>4. Latest({t}) = t
    BY <2>3 DEF Latest
  <2>5. QED
    BY <2>1, <2>2, <2>4 DEF Guards
<1>7. /\ DOMAIN revoked_sessions' \subseteq Sessions
      /\ \A u \in DOMAIN revoked_sessions' : revoked_sessions'[u] \in TurnIds
      /\ \A u \in DOMAIN revoked_sessions : u # s /\ revoked_sessions[u] \notin Queued(doomed) =>
            u \in DOMAIN revoked_sessions' /\ revoked_sessions'[u] = revoked_sessions[u]
      /\ \A t \in doomed : s \in active /\ Unfinished(doomed) = {t} /\ job[t] # "queued" =>
            s \in DOMAIN revoked_sessions' /\ revoked_sessions'[s] = t
  <2>1. revoked_sessions' = Without(Guards(s), {r \in DOMAIN Guards(s) : Guards(s)[r] \in Queued(doomed)})
    BY DEF DropSession
  <2>2. /\ DOMAIN revoked_sessions \subseteq Sessions
        /\ \A u \in DOMAIN revoked_sessions : revoked_sessions[u] \in TurnIds
    BY DEF TurnInv, TypeOK
  <2>3. CASE s \in active
    <3>1. PICK t \in doomed : Unfinished(doomed) = {t} /\ Guards(s) = With(revoked_sessions, s, t)
      BY <1>6, <2>3
    <3>2. t \in TurnIds
      BY <3>1, StoreFacts DEF TurnsOf
    <3>3. /\ DOMAIN Guards(s) = DOMAIN revoked_sessions \cup {s}
          /\ \A u \in DOMAIN Guards(s) : Guards(s)[u] = IF u = s THEN t ELSE revoked_sessions[u]
      BY <3>1 DEF With
    <3>4. /\ DOMAIN revoked_sessions' = {u \in DOMAIN Guards(s) : Guards(s)[u] \notin Queued(doomed)}
          /\ \A u \in DOMAIN revoked_sessions' : revoked_sessions'[u] = Guards(s)[u]
      BY <2>1 DEF Without, Restrict
    <3>5. \A u \in Queued(doomed) : job[u] = "queued"
      BY DEF Queued
    <3>6. QED
      BY <2>2, <3>1, <3>2, <3>3, <3>4, <3>5
  <2>4. CASE s \notin active
    <3>1. Guards(s) = revoked_sessions
      BY <2>4 DEF Guards
    <3>2. QED
      BY <2>1, <2>2, <2>4, <3>1 DEF Without, Restrict
  <2>5. QED
    BY <2>3, <2>4
<1>8. RetireStep(doomed)
  <2>1. /\ erased' \in [Sessions -> BOOLEAN] /\ queue \in Seq(TurnIds)
        /\ admitted_work' \subseteq turns' /\ service \in {"open", "closing", "draining", "closed"}
    BY <1>1 DEF TurnInv, TypeOK, WorkLeft
  <2>2. \A u \in Sessions : u # s /\ question[u].holder # 0 =>
          question[u].holder \in turns' /\ question[u].holder \notin doomed
    BY <1>1, <1>5 DEF TurnInv, QuestionInv
  <2>3. \A u \in Sessions :
          \/ question'[u] = NoQuestion
          \/ question'[u] = question[u] /\ u # s
    BY <1>4
  <2>4. QED
    BY <1>1, <1>2, <1>3, <1>4, <1>7, <2>1, <2>2, <2>3 DEF RetireStep
<1>9. TypeOK' /\ RunInv' /\ CancelInv' /\ QuestionInv'
  BY <1>8, RetireKeeps
<1>10. /\ \A u \in Sessions : u # s => TurnsOf(u)' = TurnsOf(u)
       /\ TurnsOf(s)' = {}
       /\ \A t \in turns' : record'[t] = record[t] /\ t \in turns /\ record[t].session # s /\ t \in TurnIds
  BY <1>1, <1>2, <1>5, StoreFacts DEF TurnsOf
<1>11. ActiveInv'
  <2>1. \A u \in Sessions : u # s => Unfinished(TurnsOf(u))' = Unfinished(TurnsOf(u))
    BY <1>2, <1>10, StoreFacts DEF Unfinished, TurnsOf, Retired
  <2>2. Unfinished(TurnsOf(s))' = {}
    BY <1>10 DEF Unfinished
  <2>3. \A u \in Sessions : (u \in active' <=> u \in active /\ u # s)
    BY <1>1
  <2>4. QED
    BY <2>1, <2>2, <2>3 DEF TurnInv, ActiveInv
<1>12. ErasureInv'
  <2>1. \A u \in Sessions : erased'[u] => phase'[u] \in {"revoked", "gone"}
    BY <1>1 DEF TurnInv, TypeOK, ErasureInv
  <2>2. \A t \in DOMAIN record : record'[t].session = record[t].session
                                 /\ record'[t].terminal = record[t].terminal
    BY <1>2 DEF Retired
  <2>3. \A t \in DOMAIN record \ turns' : erased'[record[t].session] \/ service' = "closed"
    BY <1>1, <1>5, StoreFacts DEF TurnInv, TypeOK, ErasureInv
  <2>4. ASSUME NEW t \in DOMAIN record, erased'[record[t].session], job'[t] \in Owning,
               record[t].terminal = "none"
        PROVE  /\ record[t].session \in DOMAIN revoked_sessions'
               /\ revoked_sessions'[record[t].session] = t
    <3>1. t \in TurnIds /\ job[t] = job'[t] /\ job[t] # "queued" /\ job[t] \in Working
          /\ record[t].session \in Sessions
      BY <1>3, <2>4, StoreFacts DEF Owning, Late, Working
    <3>2. CASE record[t].session = s
      <4>1. t \in turns
        BY <1>1, <3>1, <3>2 DEF TurnInv, ErasureInv, ServiceInv
      <4>2. t \in doomed /\ t \in Unfinished(doomed)
        BY <1>5, <2>4, <3>2, <4>1 DEF Unfinished
      <4>3. s \in active
        BY <4>2 DEF TurnInv, ActiveInv
      <4>4. Unfinished(doomed) = {t}
        BY <4>2 DEF TurnInv, ActiveInv
      <4>5. QED
        BY <1>7, <3>1, <3>2, <4>2, <4>3, <4>4
    <3>3. CASE record[t].session # s
      <4>1. erased[record[t].session]
        BY <1>1, <2>4, <3>1, <3>3 DEF TurnInv, TypeOK
      <4>2. /\ record[t].session \in DOMAIN revoked_sessions
            /\ revoked_sessions[record[t].session] = t
        BY <2>4, <3>1, <4>1 DEF TurnInv, ErasureInv
      <4>3. t \notin Queued(doomed)
        BY <3>1 DEF Queued
      <4>4. QED
        BY <1>7, <3>3, <4>2, <4>3
    <3>4. QED
      BY <3>2, <3>3
  <2>5. QED
    BY <1>2, <2>1, <2>2, <2>3, <2>4 DEF ErasureInv
<1>13. ServiceInv'
  BY <1>1, <1>3 DEF TurnInv, ServiceInv, Working
<1>14. RequestsAdmittedOnce'
  <2>1. /\ DOMAIN idempotency' = {k \in DOMAIN idempotency : k[1] # s}
        /\ \A k \in DOMAIN idempotency' : idempotency'[k] = idempotency[k]
    BY <1>1 DEF Without, Restrict
  <2>2. ASSUME NEW k \in DOMAIN idempotency'
        PROVE  /\ idempotency'[k] \in turns'
               /\ k = <<record'[idempotency'[k]].session, record'[idempotency'[k]].request>>
    <3>1. /\ k[1] # s /\ idempotency'[k] \in turns
          /\ k = <<record[idempotency'[k]].session, record[idempotency'[k]].request>>
      BY <2>1, <2>2 DEF TurnInv, RequestsAdmittedOnce
    <3>2. record[idempotency'[k]].session # s
      BY <3>1
    <3>3. idempotency'[k] \in turns'
      BY <1>1, <1>5, <3>1, <3>2
    <3>4. QED
      BY <1>10, <3>1, <3>3
  <2>3. ASSUME NEW t \in turns'
        PROVE  /\ <<record'[t].session, record'[t].request>> \in DOMAIN idempotency'
               /\ idempotency'[<<record'[t].session, record'[t].request>>] = t
    <3>1. record'[t] = record[t] /\ t \in turns /\ record[t].session # s
      BY <1>10, <2>3
    <3>2. /\ <<record[t].session, record[t].request>> \in DOMAIN idempotency
          /\ idempotency[<<record[t].session, record[t].request>>] = t
      BY <3>1 DEF TurnInv, RequestsAdmittedOnce
    <3>3. <<record[t].session, record[t].request>>[1] # s
      BY <3>1
    <3>4. QED
      BY <2>1, <3>1, <3>2, <3>3
  <2>4. QED
    BY <2>2, <2>3 DEF RequestsAdmittedOnce
<1>15. /\ DOMAIN proposal_heads' = {k \in DOMAIN proposal_heads : k[1] # s}
       /\ \A k \in DOMAIN proposal_heads' : proposal_heads'[k] = proposal_heads[k]
  BY <1>1 DEF Without, Restrict
<1>16. NothingSurvivesErasure'
  <2>1. DOMAIN idempotency' = {k \in DOMAIN idempotency : k[1] # s}
    BY <1>1 DEF Without, Restrict
  <2>2. \A u \in Sessions : erased'[u] => u = s \/ erased[u]
    BY <1>1 DEF TurnInv, TypeOK
  <2>3. /\ TurnsOf(s)' = {} /\ s \notin active' /\ question'[s] = NoQuestion
        /\ \A k \in DOMAIN idempotency' \cup DOMAIN proposal_heads' : k[1] # s
    BY <1>1, <1>4, <1>10, <1>15, <2>1
  <2>4. ASSUME NEW u \in Sessions, u # s, erased[u]
        PROVE  /\ TurnsOf(u)' = {} /\ u \notin active' /\ question'[u] = NoQuestion
               /\ \A k \in DOMAIN idempotency' \cup DOMAIN proposal_heads' : k[1] # u
    <3>1. /\ TurnsOf(u) = {} /\ u \notin active /\ question[u] = NoQuestion
          /\ \A k \in DOMAIN idempotency \cup DOMAIN proposal_heads : k[1] # u
      BY <2>4 DEF TurnInv, NothingSurvivesErasure
    <3>2. QED
      BY <1>1, <1>4, <1>10, <1>15, <2>1, <2>4, <3>1
  <2>5. QED
    BY <2>2, <2>3, <2>4 DEF NothingSurvivesErasure
<1>17. PrivateWhileUsable'
  <2>1. \A t \in DOMAIN record' :
          /\ record'[t].private => t \in turns' /\ ~record'[t].cancelled
          /\ record'[t].notes /\ t \in turns' /\ record'[t].terminal # "none" => ~record'[t].cancelled
    <3>1. \A t \in doomed : t \in DOMAIN record /\ ~record'[t].private
      BY <1>1, ClearedFacts, StoreFacts DEF TurnsOf
    <3>2. QED
      BY <1>1, <1>2, <3>1 DEF TurnInv, PrivateWhileUsable
  <2>2. ASSUME NEW k \in DOMAIN proposal_heads'
        PROVE  LET t == proposal_heads'[k]
               IN  /\ t \in turns'
                   /\ k = <<record'[t].session, record'[t].target>>
                   /\ record'[t].terminal = "proposed"
                   /\ record'[t].private
    <3> DEFINE t == proposal_heads'[k]
    <3>1. /\ t \in turns /\ k = <<record[t].session, record[t].target>> /\ k[1] # s
          /\ record[t].terminal = "proposed" /\ record[t].private
      BY <1>15, <2>2 DEF TurnInv, PrivateWhileUsable, HeadsCanBeBasis
    <3>2. record[t].session # s
      BY <3>1
    <3>3. t \in turns'
      BY <1>1, <1>5, <3>1, <3>2
    <3>4. QED
      BY <1>10, <3>1, <3>3
  <2>3. QED
    BY <2>1, <2>2 DEF PrivateWhileUsable, HeadsCanBeBasis
<1>18. PrivateInv'
  <2>1. \A t \in turns' : job'[t] = job[t]
    BY <1>1, <1>3, <1>10
  <2>2. QED
    BY <1>1, <1>10, <2>1 DEF TurnInv, PrivateInv
<1>19. VisibleInv'
  <2>1. ASSUME NEW u \in Sessions, service = "open", question'[u].id # 0
        PROVE  \E v \in turns' : record'[v].session = u /\ Shows(question'[u], v, record'[v], job'[v])
    <3>1. u # s /\ question'[u] = question[u]
      BY <1>4, <2>1
    <3>2. PICK v \in turns : record[v].session = u /\ Shows(question[u], v, record[v], job[v])
      BY <2>1, <3>1 DEF TurnInv, VisibleInv
    <3>3. v \in turns' /\ v \notin doomed
      BY <1>1, <1>5, <3>1, <3>2
    <3>4. record'[v] = record[v] /\ job'[v] = job[v]
      BY <1>3, <1>10, <3>3
    <3>5. QED
      BY <3>1, <3>2, <3>3, <3>4
  <2>2. QED
    BY <1>1, <2>1 DEF VisibleInv
<1>20. ResultsStay
  <2>1. \A k \in DOMAIN proposal_heads : k \in DOMAIN proposal_heads' \/ erased'[k[1]]
    <3>1. erased'[s]
      BY <1>1 DEF TurnInv, TypeOK
    <3>2. QED
      BY <1>15, <3>1
  <2>2. QED
    BY <1>2, <1>15, <2>1 DEF ResultsStay, Retired
<1>21. QED
  BY <1>9, <1>11, <1>12, <1>13, <1>14, <1>16, <1>17, <1>18, <1>19, <1>20 DEF TurnInv

-----------------------------------------------------------------------------
(* The invariant and what follows from it                                  *)

LEMMA InitHolds == Init => TurnInv
<1> SUFFICES ASSUME Init
             PROVE  TurnInv
  OBVIOUS
<1>1. /\ MaxTurn \in Nat /\ MaxQuestion \in Nat
      /\ DOMAIN record = {} /\ turns = {} /\ active = {} /\ admitted_work = {}
      /\ DOMAIN idempotency = {} /\ DOMAIN proposal_heads = {} /\ DOMAIN revoked_sessions = {}
      /\ job = [t \in TurnIds |-> "none"] /\ queue = <<>> /\ service = "open"
      /\ next_turn = 1 /\ next_question = 1
      /\ call = [c \in Callers |-> Idle] /\ question = [s \in Sessions |-> NoQuestion]
      /\ phase = [s \in Sessions |-> "absent"] /\ erased = [s \in Sessions |-> FALSE]
  BY LimitsAreNumbers DEF Init, Session!Init
<1>2. /\ NoQuestion \in [id : 0 .. MaxQuestion, asker : 0 .. MaxTurn, holder : 0 .. MaxTurn]
      /\ NoQuestion.id = 0 /\ NoQuestion.holder = 0
  BY <1>1 DEF NoQuestion
<1>3. TypeOK
  <2>1. call \in [Callers -> Calls]
    <3> HIDE DEF Calls
    <3>1. QED
      BY <1>1, IdleCall
  <2>2. DOMAIN record = 1 .. next_turn - 1
    BY <1>1
  <2>3. queue \in Seq(TurnIds)
    BY <1>1
  <2>4. QED
    BY <1>1, <1>2, <2>1, <2>2, <2>3 DEF TypeOK
<1>4. ActiveInv /\ ErasureInv /\ ServiceInv /\ PrivateInv /\ RunInv
  BY <1>1 DEF ActiveInv, ErasureInv, ServiceInv, PrivateInv, RunInv, Unfinished, TurnsOf
<1>5. CancelInv
  BY <1>1, IdleCall DEF CancelInv
<1>6. RequestsAdmittedOnce /\ NothingSurvivesErasure /\ PrivateWhileUsable
  BY <1>1 DEF RequestsAdmittedOnce, NothingSurvivesErasure, PrivateWhileUsable, HeadsCanBeBasis
<1>7. QuestionInv /\ VisibleInv
  BY <1>1, <1>2 DEF QuestionInv, VisibleInv
<1>8. QED
  BY <1>3, <1>4, <1>5, <1>6, <1>7 DEF TurnInv

LEMMA NextKeeps ==
  ASSUME TurnInv, [Next]_vars
  PROVE  TurnInv' /\ [ResultsStay]_vars
<1>1. ASSUME NEW c \in Callers, CallStep(c)
      PROVE  TurnInv' /\ ResultsStay
  BY <1>1, CheckRequestKeeps, EnterOperationKeeps, AdmitTurnKeeps, RequestCancelKeeps, CancelTurnKeeps,
     FinishCancelKeeps
     DEF CallStep
<1>2. ASSUME NEW s \in Sessions, DropSession(s) \/ SessionStep(s) \/ LapseQuestion(s)
      PROVE  TurnInv' /\ ResultsStay
  BY <1>2, DropSessionKeeps, SessionStepKeeps
<1>3. QED
  BY <1>1, <1>2, DequeueKeeps, RunStepKeeps, StopTurnsKeeps, StopExecutorKeeps, ForgetTurnsKeeps,
     StutterKeeps
     DEF Next

\* The inductive invariant of the turn store.
THEOREM StoreInvariant == Spec => []TurnInv
<1>1. TurnInv /\ [Next]_vars => TurnInv'
  BY NextKeeps
<1>2. QED
  BY InitHolds, <1>1, PTL DEF Spec

\* The store's types, and _active: it is exactly the sessions with an unfinished
\* turn, and no session has two.
THEOREM OneTurnPerSession == Spec => []OneActiveTurn
<1>1. TurnInv => OneActiveTurn
  BY DEF TurnInv, ActiveInv, OneActiveTurn
<1>2. QED
  BY <1>1, StoreInvariant, PTL

\* The idempotency keys and the records are the same set.
THEOREM AdmissionIsIdempotent == Spec => []RequestsAdmittedOnce
<1>1. TurnInv => RequestsAdmittedOnce
  BY DEF TurnInv
<1>2. QED
  BY <1>1, StoreInvariant, PTL

\* Nothing of an erased session is in the store, now or later.
THEOREM ErasureIsComplete == Spec => []NothingSurvivesErasure
<1>1. TurnInv => NothingSurvivesErasure
  BY DEF TurnInv
<1>2. QED
  BY <1>1, StoreInvariant, PTL

\* Private data is attached only to records of the store that nobody has cancelled, a
\* cancelled turn of the store ends without its notes, and the latest proposals keep theirs.
THEOREM PrivacyFollowsUse == Spec => []PrivateWhileUsable
<1>1. TurnInv => PrivateWhileUsable
  BY DEF TurnInv
<1>2. QED
  BY <1>1, StoreInvariant, PTL

\* Who holds a question is still going to answer it or to let it go.
THEOREM ClaimsAreOwned == Spec => []ClaimHasOwner
<1>1. ASSUME TurnInv
      PROVE  ClaimHasOwner
  <2>1. SUFFICES ASSUME NEW s \in Sessions, NEW t, t = question[s].holder, t # 0
                 PROVE  /\ t \in turns
                        /\ record[t].answers = question[s].id
                        /\ \/ job[t] \notin Ended \cup {"none"}
                           \/ \E c \in Callers : call[c] = [op |-> "cancelling", turn |-> t]
    BY DEF ClaimHasOwner
  <2>2. t \in turns /\ record[t].answers = question[s].id /\ Releases(call, t, record[t], job[t])
    BY <1>1, <2>1 DEF TurnInv, QuestionInv
  <2>3. ASSUME NEW c \in Callers, call[c].op = "cancelling", call[c].turn = t
        PROVE  call[c] = [op |-> "cancelling", turn |-> t]
    BY <1>1, <2>3, CallShape
  <2>4. QED
    BY <2>2, <2>3 DEF Releases, Owning, Late, Ended
<1>2. QED
  BY <1>1, StoreInvariant, PTL

\* An open question is published, or its turn is still at work.
THEOREM QuestionsAreShown == Spec => []OpenQuestionIsVisible
<1>1. ASSUME TurnInv
      PROVE  OpenQuestionIsVisible
  BY <1>1 DEF TurnInv, VisibleInv, Shows, OpenQuestionIsVisible, TurnsOf, Late, Working
<1>2. QED
  BY <1>1, StoreInvariant, PTL

\* Latest proposals and results stay.
THEOREM ResultsLast == Spec => ResultsAreFinal
<1>1. TurnInv /\ [Next]_vars => [ResultsStay]_vars
  BY NextKeeps
<1>2. QED
  BY <1>1, StoreInvariant, PTL DEF Spec, ResultsAreFinal
=============================================================================
