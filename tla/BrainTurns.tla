------------------------------ MODULE BrainTurns ------------------------------
(***************************************************************************)
(* The turn store of Metis Brain (brain_turns.py): turns are admitted by   *)
(* HTTP threads, run by an executor, cancelled by their clients and erased *)
(* when their session is revoked or the service shuts down.                *)
(*                                                                         *)
(* It is composed with what it is built on: the sessions behave as         *)
(* SessionLifecycle (which BrainSessions implements), whose Erase step is  *)
(* the cleanup listener drop_session; questions are what BrainClarifica-   *)
(* tions promises in QuestionLedger: at most one per session, under an     *)
(* identifier of its own, held by the turn that answers it.                *)
(*                                                                         *)
(* Steps are the critical sections of the store's lock (_lock). A record's *)
(* condition is a second lock, taken before _lock; it is held in the jobs  *)
(* "finishing" and in the calls "cancelling".                              *)
(***************************************************************************)
EXTENDS Naturals, Sequences, FiniteSets, Functions

CONSTANTS
  Sessions,
  Requests,            \* request_id values: the idempotency keys
  Targets,             \* identities of the sources that proposals change
  Callers,             \* HTTP threads
  MaxWorkers,          \* max_workers of the executor
  MaxQueue,            \* max_queue
  MaxSessionTurns,     \* MAX_SESSION_TURNS
  MaxTurn,             \* bound of the model: turns admitted
  MaxQuestion          \* bound of the model: questions asked

ASSUME LimitsAreNumbers ==
  /\ {MaxWorkers, MaxQueue, MaxSessionTurns} \subseteq Nat \ {0}
  /\ {MaxTurn, MaxQuestion} \subseteq Nat

TurnIds == 1 .. MaxTurn
QuestionIds == 1 .. MaxQuestion

ASSUME CallersAreNotTurns == Callers \cap TurnIds = {}

VARIABLES
  phase, leases, erased,   \* the session manager, as SessionLifecycle describes it
  question,            \* per session: the open question, its asker and its holder
  revoked_sessions,    \* guards of the clarification store: session -> turn
  turns,               \* keys of _turns
  record,              \* the records, which worker and callers share
  idempotency,         \* <<session, request>> -> turn
  proposal_heads,      \* <<session, target>> -> turn
  active,              \* sessions with a turn in progress
  admitted_work,       \* keys of _admitted_work
  job,                 \* the future and the worker of every turn
  queue,               \* the executor's queue
  service,             \* "open", "closing", "draining" or "closed"
  call,                \* what every HTTP thread is doing
  next_turn, next_question

sessionVars == <<phase, leases, erased>>
dialogueVars == <<question, revoked_sessions, next_question>>
storeVars == <<turns, idempotency, proposal_heads, active, admitted_work, next_turn>>
workVars == <<job, queue>>
vars == <<sessionVars, dialogueVars, storeVars, workVars, record, service, call>>

Session == INSTANCE SessionLifecycle WITH Users <- Callers \cup TurnIds

NoQuestion == [id |-> 0, asker |-> 0, holder |-> 0]

Outcomes == {"none", "proposed", "asked", "answered", "cancelled", "failed"}
Ended == {"done", "cancelled"}
Working == {"started", "popped", "running", "decided", "answered", "told", "preview",
            "ready", "provisional", "retrieving", "previewing", "working", "staged",
            "published", "finishing", "failing", "abandoned", "exiting"}

\* clear_private empties three things that are written differently: "private" is
\* the sources, manifests and dialogue, which are written under _lock; "notes"
\* the decision and the conversation in the request, which the worker also
\* writes without it; "rest" the asker of the question in dialogue_pending, when
\* that is not the question the turn answers (0 otherwise).
Records ==
  [session : Sessions, request : Requests, target : Targets, basis : 0 .. MaxTurn,
   answers : 0 .. MaxQuestion, asks : 0 .. MaxQuestion, result : Outcomes,
   terminal : Outcomes, started : BOOLEAN, cancelled : BOOLEAN, private : BOOLEAN,
   notes : BOOLEAN, rest : 0 .. MaxTurn]

Idle == [op |-> "idle"]
NewTurn == [session : Sessions, request : Requests, target : Targets, basis : 0 .. MaxTurn,
            answers : 0 .. MaxQuestion]
Calls ==
  {Idle}
    \cup [op : {"checked", "leased"}, args : NewTurn]
    \cup [op : {"cancel", "cancelling"}, turn : TurnIds]

Init ==
  /\ Session!Init
  /\ question = [s \in Sessions |-> NoQuestion]
  /\ revoked_sessions = <<>>
  /\ turns = {}
  /\ record = <<>>
  /\ idempotency = <<>>
  /\ proposal_heads = <<>>
  /\ active = {}
  /\ admitted_work = {}
  /\ job = [t \in TurnIds |-> "none"]
  /\ queue = <<>>
  /\ service = "open"
  /\ call = [c \in Callers |-> Idle]
  /\ next_turn = 1
  /\ next_question = 1

-----------------------------------------------------------------------------
(* Helpers *)

With(f, x, v) == [y \in DOMAIN f \cup {x} |-> IF y = x THEN v ELSE f[y]]
Without(f, S) == Restrict(f, DOMAIN f \ S)

TurnsOf(s) == {t \in turns : record[t].session = s}

\* Nobody holds the record's condition.
ConditionFree(t) ==
  /\ job[t] # "finishing"
  /\ \A c \in Callers : ~(call[c].op = "cancelling" /\ call[c].turn = t)

\* Faulty variant: the private work of erased turns stays.
WorkLeftAlone(T) == admitted_work

\* _admitted_work once the work of T has been popped
WorkLeft(T) == admitted_work \ T

\* Faulty variant: claims are never released.
UnclaimedNever(T) == question

\* The questions and the guards once the claims and guards of T are released.
Unclaimed(T) == [s \in Sessions |-> IF question[s].holder \in T
                                    THEN [question[s] EXCEPT !.holder = 0]
                                    ELSE question[s]]
Unguarded(T) == Without(revoked_sessions,
                        {s \in DOMAIN revoked_sessions : revoked_sessions[s] \in T})

\* discard_pending_for_turn: the question of session s, when a turn of T asked it
Discarded(s, T) ==
  IF question[s].id # 0 /\ question[s].asker \in T
  THEN [question EXCEPT ![s] = NoQuestion]
  ELSE question

\* Faulty variant: the rest of a question that was answered in part stays open.
RestLeftOpen(t) == question

\* _discard_rotated_dialogue_pending
RestWithdrawn(t) == Discarded(record[t].session, {record[t].rest})

\* _discard_turn_pending
Withdrawn(t) == Discarded(record[t].session, {t, record[t].rest})

\* Faulty variant: the request keeps the conversation.
EmptiedInPart(r) == [r EXCEPT !.private = FALSE, !.rest = 0]

\* clear_private
Emptied(r) == [r EXCEPT !.private = FALSE, !.notes = FALSE, !.rest = 0]

\* _clear_private_if_current: nothing happens to a record the store has dropped.
EmptiedIfCurrent(t) == IF t \in turns THEN Emptied(record[t]) ELSE record[t]
RestWithdrawnIfCurrent(t) == IF t \in turns THEN RestWithdrawn(t) ELSE question

-----------------------------------------------------------------------------
(* submit *)

\* Faulty variant: a request without a basis is not compared with the head.
HeadIsUnlessFresh(key, b) ==
  b # 0 => key \in DOMAIN proposal_heads /\ proposal_heads[key] = b

\* The latest proposal for a target of a session is b; 0 stands for none.
HeadIs(key, b) ==
  IF b = 0 THEN key \notin DOMAIN proposal_heads
  ELSE key \in DOMAIN proposal_heads /\ proposal_heads[key] = b

\* _validate_basis_locked: the basis is the latest proposal for the target.
BasisValid(n) ==
  n.basis # 0 =>
    /\ n.basis \in turns
    /\ record[n.basis].terminal = "proposed"
    /\ record[n.basis].private
    /\ record[n.basis].session = n.session
    /\ HeadIs(<<n.session, n.target>>, n.basis)

\* Faulty variant: the idempotency key is not looked up.
NotAdmittedAnyway(n) == TRUE

NotAdmitted(n) == <<n.session, n.request>> \notin DOMAIN idempotency

\* An answer names the open question; a request without one needs there to be none.
QuestionFits(n) == question[n.session].id = n.answers

HasCapacity(n) ==
  /\ Cardinality(TurnsOf(n.session)) < MaxSessionTurns
  /\ Cardinality(active) < MaxQueue

\* A request that repeats an admitted one is answered with its record.
CheckRequest(c, n) ==
  /\ call[c] = Idle
  /\ phase[n.session] = "live"
  /\ n.session \notin DOMAIN revoked_sessions
  /\ service = "open"
  /\ NotAdmitted(n)
  /\ BasisValid(n)
  /\ n.session \notin active
  /\ n.answers = 0 => QuestionFits(n)
  /\ HasCapacity(n)
  /\ call' = [call EXCEPT ![c] = [op |-> "checked", args |-> n]]
  /\ UNCHANGED <<sessionVars, dialogueVars, storeVars, workVars, record, service>>

\* manager.operation: admitted only while the session is live.
EnterOperation(c) ==
  /\ call[c].op = "checked"
  /\ LET n == call[c].args
     IN  \/ /\ Session!Enter(n.session, c)
            /\ call' = [call EXCEPT ![c].op = "leased"]
         \/ /\ phase[n.session] # "live"
            /\ call' = [call EXCEPT ![c] = Idle]
            /\ UNCHANGED sessionVars
  /\ UNCHANGED <<dialogueVars, storeVars, workVars, record, service>>

\* Faulty variant: the cancellation of the lease is not tested.
NotCancelledAnyway(n) == TRUE

\* The lease's cancellation event is set before the session is erased.
NotCancelled(n) == phase[n.session] = "live"

HeadExpected(n) == BasisValid(n) /\ HeadIs(<<n.session, n.target>>, n.basis)

\* The second critical section: it does not look at the limits again.
Admissible(n) ==
  /\ NotCancelled(n)
  /\ NotAdmitted(n)
  /\ n.session \notin active
  /\ QuestionFits(n)
  /\ HeadExpected(n)

Admitted(n) ==
  [session |-> n.session, request |-> n.request, target |-> n.target, basis |-> n.basis,
   answers |-> n.answers, asks |-> 0, result |-> "none", terminal |-> "none",
   started |-> FALSE, cancelled |-> FALSE, private |-> TRUE, notes |-> TRUE, rest |-> 0]

\* Explicit answers claim the question; a message does so when the worker has
\* resolved it into answers.
Claim(s, t) ==
  /\ question[s].holder \in {0, t}
  /\ question' = [question EXCEPT ![s].holder = t]

\* The record, its key, its claim and its work appear together; when the
\* executor refuses the work they all disappear again.
Insert(n) ==
  /\ next_turn \in TurnIds
  /\ service \in {"open", "closing"}
  /\ turns' = turns \cup {next_turn}
  /\ record' = With(record, next_turn, Admitted(n))
  /\ idempotency' = With(idempotency, <<n.session, n.request>>, next_turn)
  /\ active' = active \cup {n.session}
  /\ admitted_work' = admitted_work \cup {next_turn}
  /\ job' = [job EXCEPT ![next_turn] = "queued"]
  /\ queue' = Append(queue, next_turn)
  /\ \/ UNCHANGED question
     \/ n.answers # 0 /\ Claim(n.session, next_turn)
  /\ next_turn' = next_turn + 1
  /\ UNCHANGED <<proposal_heads, revoked_sessions, next_question>>

AdmitTurn(c) ==
  /\ call[c].op = "leased"
  /\ LET n == call[c].args
     IN  /\ \/ Admissible(n) /\ Insert(n)
            \/ /\ \/ ~Admissible(n)
                  \/ n.answers # 0 /\ question[n.session].holder # 0
                  \/ service \in {"draining", "closed"}
               /\ UNCHANGED <<dialogueVars, storeVars, workVars, record>>
         /\ Session!Leave(n.session, c)
  /\ call' = [call EXCEPT ![c] = Idle]
  /\ UNCHANGED service

-----------------------------------------------------------------------------
(* The executor: _run_admitted and _run *)

Running == {t \in TurnIds : job[t] \in Working}

\* A future that was cancelled is still in the queue: a worker takes it out and
\* does nothing.
Dequeue ==
  /\ queue # <<>>
  /\ Cardinality(Running) < MaxWorkers
  /\ job' = IF job[Head(queue)] = "queued" THEN [job EXCEPT ![Head(queue)] = "started"] ELSE job
  /\ queue' = Tail(queue)
  /\ UNCHANGED <<sessionVars, dialogueVars, storeVars, record, service, call>>

Goto(t, next) == job' = [job EXCEPT ![t] = next] /\ UNCHANGED queue

PopWork(t) ==
  /\ job[t] = "started"
  /\ \/ /\ t \in admitted_work
        /\ admitted_work' = WorkLeft({t})
        /\ Goto(t, "popped")
        /\ UNCHANGED <<question, revoked_sessions>>
     \/ /\ t \notin admitted_work
        /\ question' = Unclaimed({t})
        /\ revoked_sessions' = Unguarded({t})
        /\ Goto(t, "done")
        /\ UNCHANGED admitted_work
  /\ UNCHANGED <<sessionVars, next_question, turns, idempotency, proposal_heads, active,
                 next_turn, record, service, call>>

\* A record that has been finished meanwhile is left alone, claims and guards
\* included.
StartRun(t) ==
  /\ job[t] = "popped"
  /\ ConditionFree(t)
  /\ IF record[t].terminal # "none"
     THEN Goto(t, "done") /\ UNCHANGED record
     ELSE Goto(t, "running") /\ record' = [record EXCEPT ![t].started = TRUE]
  /\ UNCHANGED <<sessionVars, dialogueVars, storeVars, service, call>>

\* Faulty variant: cancellation is not tested, only whether the record is stored.
StillLiveOrCancelled(t) == service = "open" /\ t \in turns

\* The exact record is still the store's and nobody has asked it to stop.
StillLive(t) == service = "open" /\ t \in turns /\ ~record[t].cancelled

Holds(t) ==
  LET s == record[t].session
  IN  /\ record[t].answers # 0
      /\ question[s].id = record[t].answers
      /\ question[s].holder = t
      /\ s \notin DOMAIN revoked_sessions

\* The resolver's answers to a message are validated and claimed.
Resolve(t) ==
  LET s == record[t].session
  IN  /\ job[t] = "running"
      /\ record[t].answers # 0
      /\ question[s].id = record[t].answers
      /\ s \notin DOMAIN revoked_sessions
      /\ Claim(s, t)
      /\ UNCHANGED <<sessionVars, revoked_sessions, next_question, storeVars, workVars, record,
                     service, call>>

Consumed(t) == [question EXCEPT ![record[t].session] = NoQuestion]

\* The part that was not answered is asked again under a new identifier; the
\* turn that asked the original remains its parent.
Rotated(t) == [question EXCEPT ![record[t].session] = [@ EXCEPT !.id = next_question, !.holder = 0]]

\* Dialogue version 2: complete, partial, empty, or provisional answers. What is
\* left to answer is the turn's result; the orchestrator is not asked then.
AnswerV2(t) ==
  /\ StillLive(t)
  /\ \/ /\ Holds(t)
        /\ question' = Consumed(t)
        /\ Goto(t, "answered")
        /\ UNCHANGED <<record, next_question>>
     \/ /\ Holds(t)
        /\ next_question \in QuestionIds
        /\ question' = Rotated(t)
        /\ record' = [record EXCEPT ![t].asks = next_question, ![t].result = "asked",
                                    ![t].rest = question[record[t].session].asker]
        /\ next_question' = next_question + 1
        /\ Goto(t, "told")
     \/ /\ record' = [record EXCEPT ![t].asks = record[t].answers, ![t].result = "asked"]
        /\ Goto(t, "told")
        /\ UNCHANGED <<question, next_question>>
     \/ /\ Goto(t, "preview")
        /\ UNCHANGED <<record, question, next_question>>

\* Version 1 does not look at the lifecycle before it consumes the question.
AnswerV1(t) ==
  /\ Holds(t)
  /\ question' = Consumed(t)
  /\ Goto(t, "decided")
  /\ UNCHANGED <<record, next_question>>

Answer(t) ==
  /\ job[t] = "running"
  /\ \/ record[t].answers # 0 /\ (AnswerV1(t) \/ AnswerV2(t))
     \/ /\ record[t].answers = 0
        /\ Goto(t, "answered")
        /\ UNCHANGED <<record, question, next_question>>
     \* cancel has already taken the answer out of the request
     \/ /\ record[t].answers # 0 /\ record[t].cancelled
        /\ Goto(t, "answered")
        /\ UNCHANGED <<record, question, next_question>>
     \* the resolver fails, or the lifecycle or the store refuses
     \/ /\ record[t].answers # 0
        /\ Goto(t, "failing")
        /\ UNCHANGED <<record, question, next_question>>
  /\ UNCHANGED <<sessionVars, revoked_sessions, storeVars, service, call>>

\* The worker and the orchestrator write to the record without _lock and without
\* asking whether it is still the store's.
Note(t) ==
  /\ record' = [record EXCEPT ![t].notes = TRUE]
  /\ UNCHANGED <<sessionVars, dialogueVars, storeVars, service, call>>

RecordDecision(t) == job[t] = "decided" /\ Note(t) /\ Goto(t, "answered")

\* The conversation's decisions, if it has any, go into the request; reading
\* them may fail, also when the question was answered in part.
AddContext(t) ==
  /\ job[t] \in {"answered", "told", "preview"}
  /\ LET next == CASE job[t] = "answered" -> "ready"
                   [] job[t] = "told" -> "staged"
                   [] job[t] = "preview" -> "provisional"
     IN  \/ Note(t) /\ Goto(t, next)
         \/ /\ \E other \in {next, "failing"} : Goto(t, other)
            /\ UNCHANGED <<sessionVars, dialogueVars, storeVars, record, service, call>>

\* BrainOrchestrator.run works inside an operation of its own.
BeginWork(t) ==
  /\ job[t] \in {"ready", "provisional"}
  /\ \/ /\ Session!Enter(record[t].session, t)
        /\ Goto(t, IF job[t] = "ready" THEN "retrieving" ELSE "previewing")
     \/ /\ phase[record[t].session] # "live"
        /\ Goto(t, "failing")
        /\ UNCHANGED sessionVars
  /\ UNCHANGED <<dialogueVars, storeVars, record, service, call>>

\* After the retrieval the request becomes the record's, unless its decisions
\* are provisional.
KeepRequest(t) == job[t] = "retrieving" /\ Note(t) /\ Goto(t, "working")

\* A provisional answer is committed before its decisions are used ...
CommitPreview(t) ==
  /\ job[t] = "previewing"
  /\ Holds(t)
  /\ question' = Consumed(t)
  /\ Goto(t, "working")
  /\ UNCHANGED <<sessionVars, revoked_sessions, next_question, storeVars, record, service, call>>

\* Leaving the operation fails when the session has been revoked meanwhile,
\* and revokes it when its snapshot is stale.
LeaveWork(t, next) ==
  LET s == record[t].session
  IN  \/ /\ Session!Leave(s, t)
         /\ Goto(t, IF phase[s] = "live" THEN next ELSE "failing")
      \/ Session!RevokeAndLeave(s, t) /\ Goto(t, "failing")

\* ... or the unchanged question is put to the operator once more.
ReplayQuestion(t) ==
  /\ job[t] = "previewing"
  /\ record' = [record EXCEPT ![t].asks = record[t].answers, ![t].result = "asked"]
  /\ LeaveWork(t, "staged")
  /\ UNCHANGED <<dialogueVars, storeVars, service, call>>

AskQuestion(t) ==
  LET s == record[t].session
  IN  /\ job[t] = "working"
      /\ record[t].asks = 0
      /\ s \notin DOMAIN revoked_sessions
      /\ question[s] = NoQuestion
      /\ next_question \in QuestionIds
      /\ question' = [question EXCEPT ![s] = [id |-> next_question, asker |-> t, holder |-> 0]]
      /\ record' = [record EXCEPT ![t].asks = next_question, ![t].result = "asked"]
      /\ next_question' = next_question + 1
      /\ UNCHANGED <<sessionVars, revoked_sessions, storeVars, workVars, service, call>>

\* The orchestrator returns, or raises an error at any time.
EndWork(t) ==
  /\ job[t] \in {"retrieving", "working", "previewing"}
  /\ \/ /\ job[t] = "working"
        /\ IF record[t].result = "asked"
           THEN UNCHANGED record
           ELSE \E outcome \in {"proposed", "answered"} :
                  record' = [record EXCEPT ![t].result = outcome]
        /\ LeaveWork(t, "staged")
     \/ LeaveWork(t, "failing") /\ UNCHANGED record
  /\ UNCHANGED <<dialogueVars, storeVars, service, call>>

\* The asker of the question the turn leaves in dialogue_pending: none when it
\* ends without one or with the one it answers, the parent of the rest of that,
\* or the turn itself; a question of version 1 is not kept there.
Attached(t) ==
  IF record[t].rest # 0 THEN {record[t].rest}
  ELSE IF record[t].answers = 0 \/ record[t].asks \in {0, record[t].answers} THEN {0}
  ELSE {0, t}

\* _publish_private_attachments: only to the record that is still live. A
\* dead one loses what it has, and the rest of the question it answered in
\* part; the result goes on to be refused. Attachments that are stale or
\* invalid are an error.
Publish(t) ==
  /\ job[t] = "staged"
  /\ \/ /\ StillLive(t)
        /\ \E asker \in Attached(t) :
              record' = [record EXCEPT ![t].private = TRUE, ![t].notes = TRUE, ![t].rest = asker]
        /\ Goto(t, "published")
        /\ UNCHANGED question
     \/ /\ ~StillLive(t)
        /\ record' = [record EXCEPT ![t] = Emptied(@)]
        /\ question' = RestWithdrawn(t)
        /\ Goto(t, "published")
     \/ /\ Goto(t, "failing")
        /\ UNCHANGED <<record, question>>
  /\ UNCHANGED <<sessionVars, revoked_sessions, next_question, storeVars, service, call>>

\* The condition is taken and the last look at the cancellation decides. When
\* it was seen before that, the record is emptied; when not, cancel or the
\* shutdown has emptied it.
FinishCheck(t) ==
  /\ job[t] = "published"
  /\ ConditionFree(t)
  /\ IF record[t].cancelled
     THEN /\ record' = [record EXCEPT ![t] = [EmptiedIfCurrent(t) EXCEPT !.result = "cancelled"]]
          /\ question' = Withdrawn(t)
     ELSE UNCHANGED <<record, question>>
  /\ Goto(t, "finishing")
  /\ UNCHANGED <<sessionVars, revoked_sessions, next_question, storeVars, service, call>>

\* _advance_head_locked: the head must be the one the turn was admitted on.
HeadStands(t) == HeadIs(<<record[t].session, record[t].target>>, record[t].basis)

\* Faulty variant: a proposal becomes the head although the turn was cancelled or erased.
MayProposeAfterErasure(t) == HeadStands(t)

MayPropose(t) == StillLive(t) /\ HeadStands(t)

\* Faulty variant: a turn that ends stays the active one of its session.
TerminateStillActive(t, outcome) ==
  /\ record' = [record EXCEPT ![t].terminal = outcome]
  /\ UNCHANGED active

Terminate(t, outcome) ==
  /\ record' = [record EXCEPT ![t].terminal = outcome]
  /\ active' = active \ {record[t].session}

Finish(t) ==
  /\ job[t] = "finishing"
  /\ \/ /\ record[t].result # "proposed"
        /\ Terminate(t, record[t].result)
        /\ Goto(t, "exiting")
        /\ UNCHANGED proposal_heads
     \* a proposal without a manifest is shown but cannot be built on
     \/ /\ record[t].result = "proposed"
        /\ StillLive(t)
        /\ Terminate(t, "proposed")
        /\ Goto(t, "exiting")
        /\ UNCHANGED proposal_heads
     \/ /\ record[t].result = "proposed"
        /\ MayPropose(t)
        /\ proposal_heads' = With(proposal_heads, <<record[t].session, record[t].target>>, t)
        /\ Terminate(t, "proposed")
        /\ Goto(t, "exiting")
     \/ /\ record[t].result = "proposed"
        /\ ~MayPropose(t)
        /\ Goto(t, "failing")
        /\ UNCHANGED <<record, active, proposal_heads>>
  /\ UNCHANGED <<sessionVars, dialogueVars, turns, idempotency, admitted_work, next_turn,
                 service, call>>

\* The error paths of _run: the record is emptied, ...
Abandon(t) ==
  /\ job[t] = "failing"
  /\ record' = [record EXCEPT ![t] = EmptiedIfCurrent(t)]
  /\ question' = RestWithdrawnIfCurrent(t)
  /\ Goto(t, "abandoned")
  /\ UNCHANGED <<sessionVars, revoked_sessions, next_question, storeVars, service, call>>

\* Faulty variant: a turn that fails does not end.
FailSilently(t) ==
  /\ job[t] = "abandoned"
  /\ ConditionFree(t)
  /\ question' = Withdrawn(t)
  /\ Goto(t, "exiting")
  /\ UNCHANGED <<sessionVars, revoked_sessions, next_question, storeVars, record, service, call>>

\* ... its question is withdrawn and the turn ends.
Fail(t) ==
  /\ job[t] = "abandoned"
  /\ ConditionFree(t)
  /\ question' = Withdrawn(t)
  /\ \E outcome \in {"cancelled", "failed"} :
        /\ record[t].cancelled => outcome = "cancelled"
        /\ Terminate(t, outcome)
  /\ Goto(t, "exiting")
  /\ UNCHANGED <<sessionVars, revoked_sessions, next_question, turns, idempotency,
                 proposal_heads, admitted_work, next_turn, service, call>>

\* The "finally" of _run.
ExitRun(t) ==
  /\ job[t] = "exiting"
  /\ question' = Unclaimed({t})
  /\ revoked_sessions' = Unguarded({t})
  /\ Goto(t, "done")
  /\ UNCHANGED <<sessionVars, next_question, storeVars, record, service, call>>

-----------------------------------------------------------------------------
(* cancel *)

RequestCancel(c, t) ==
  /\ call[c] = Idle
  /\ t \in turns
  /\ phase[record[t].session] = "live"
  /\ call' = [call EXCEPT ![c] = [op |-> "cancel", turn |-> t]]
  /\ UNCHANGED <<sessionVars, dialogueVars, storeVars, workVars, record, service>>

\* The futures of the queued turns among T, cancelled; their callbacks
\* (_forget_future) release claims and guards.
Queued(T) == {t \in T : job[t] = "queued"}

CancelFutures(T) == job' = [t \in TurnIds |-> IF t \in Queued(T) THEN "cancelled" ELSE job[t]]

CancelTurn(c) ==
  /\ call[c].op = "cancel"
  /\ LET t == call[c].turn
     IN  /\ ConditionFree(t)
         /\ \/ /\ record[t].terminal # "none"
               /\ call' = [call EXCEPT ![c] = Idle]
               /\ UNCHANGED <<record, admitted_work, workVars, question, revoked_sessions>>
            \/ /\ record[t].terminal = "none"
               /\ record' = [record EXCEPT ![t] = [EmptiedIfCurrent(t) EXCEPT !.cancelled = TRUE]]
               /\ IF record[t].started
                  THEN /\ question' = RestWithdrawnIfCurrent(t)
                       /\ call' = [call EXCEPT ![c] = Idle]
                       /\ UNCHANGED <<admitted_work, workVars, revoked_sessions>>
                  ELSE /\ admitted_work' = WorkLeft({t})
                       /\ CancelFutures({t}) /\ UNCHANGED queue
                       /\ question' = Unclaimed(Queued({t}))
                       /\ revoked_sessions' = Unguarded(Queued({t}))
                       /\ call' = [call EXCEPT ![c].op = "cancelling"]
  /\ UNCHANGED <<sessionVars, next_question, turns, idempotency, proposal_heads, active,
                 next_turn, service>>

FinishCancel(c) ==
  /\ call[c].op = "cancelling"
  /\ question' = Unclaimed({call[c].turn})
  /\ Terminate(call[c].turn, "cancelled")
  /\ call' = [call EXCEPT ![c] = Idle]
  /\ UNCHANGED <<sessionVars, revoked_sessions, next_question, turns, idempotency,
                 proposal_heads, admitted_work, next_turn, workVars, service>>

-----------------------------------------------------------------------------
(* Erasure *)

\* Records that lose their private data; "stopped" tells which are cancelled.
Cleared(T, stopped) ==
  [t \in DOMAIN record |->
     IF t \in T
     THEN [Emptied(record[t]) EXCEPT !.cancelled = @ \/ t \in stopped]
     ELSE record[t]]

Unfinished(T) == {t \in T : record[t].terminal = "none"}

Latest(T) == CHOOSE t \in T : \A u \in T : u <= t

\* The turn whose worker will release the guard.
Guards(s) ==
  LET doomed == TurnsOf(s)
  IN  IF s \notin active \/ doomed = {}
      THEN revoked_sessions
      ELSE With(revoked_sessions, s,
                Latest(IF Unfinished(doomed) # {} THEN Unfinished(doomed) ELSE doomed))

\* The cleanup listener of the session manager; it succeeds once.
DropSession(s) ==
  LET doomed == TurnsOf(s)
      guards == Guards(s)
  IN  /\ ~erased[s]
      /\ Session!Erase(s)
      /\ turns' = turns \ doomed
      /\ record' = Cleared(doomed, doomed)
      /\ admitted_work' = WorkLeft(doomed)
      /\ idempotency' = Without(idempotency, {k \in DOMAIN idempotency : k[1] = s})
      /\ proposal_heads' = Without(proposal_heads, {k \in DOMAIN proposal_heads : k[1] = s})
      /\ active' = active \ {s}
      /\ question' = [question EXCEPT ![s] = NoQuestion]
      /\ CancelFutures(doomed) /\ UNCHANGED queue
      /\ revoked_sessions' =
           Without(guards, {r \in DOMAIN guards : guards[r] \in Queued(doomed)})
      /\ UNCHANGED <<next_question, next_turn, service, call>>

\* shutdown, first critical section
StopTurns ==
  /\ service = "open"
  /\ service' = "closing"
  /\ proposal_heads' = <<>>
  /\ record' = Cleared(turns, Unfinished(turns))
  /\ admitted_work' = {}
  /\ CancelFutures(turns) /\ UNCHANGED queue
  /\ question' = Unclaimed(Queued(turns))
  /\ revoked_sessions' = Unguarded(Queued(turns))
  /\ UNCHANGED <<sessionVars, next_question, turns, idempotency, active, next_turn, call>>

\* executor.shutdown(wait=True, cancel_futures=True) refuses new work, cancels
\* what is queued and waits for what runs
StopExecutor ==
  /\ service = "closing"
  /\ service' = "draining"
  /\ CancelFutures(TurnIds) /\ queue' = <<>>
  /\ admitted_work' = WorkLeft(Queued(TurnIds))
  /\ question' = Unclaimed(Queued(TurnIds))
  /\ revoked_sessions' = Unguarded(Queued(TurnIds))
  /\ UNCHANGED <<sessionVars, next_question, turns, idempotency, proposal_heads, active,
                 next_turn, record, call>>

ForgetTurns ==
  /\ service = "draining"
  /\ Running = {}
  /\ service' = "closed"
  /\ turns' = {}
  /\ record' = Cleared(turns, {})
  /\ idempotency' = <<>>
  /\ proposal_heads' = <<>>
  /\ active' = {}
  /\ admitted_work' = {}
  /\ question' = [s \in Sessions |-> NoQuestion]
  /\ revoked_sessions' = <<>>
  /\ UNCHANGED <<sessionVars, next_question, next_turn, workVars, call>>

-----------------------------------------------------------------------------
(* What the session manager and the clarification store do by themselves *)

SessionStep(s) ==
  /\ Session!Open(s) \/ Session!Revoke({s}) \/ Session!Destroy(s)
  /\ UNCHANGED <<dialogueVars, storeVars, workVars, record, service, call>>

\* A question nobody holds expires.
LapseQuestion(s) ==
  /\ question[s].id # 0
  /\ question[s].holder = 0
  /\ question' = [question EXCEPT ![s] = NoQuestion]
  /\ UNCHANGED <<sessionVars, revoked_sessions, next_question, storeVars, workVars, record,
                 service, call>>

-----------------------------------------------------------------------------
\* The answer route names a parent turn that ended by asking the question.
HasParent(n) ==
  n.answers # 0 =>
    \E p \in TurnsOf(n.session) :
       /\ record[p].terminal = "asked"
       /\ record[p].asks = n.answers
       /\ record[p].target = n.target /\ record[p].basis = n.basis

CallStep(c) ==
  \/ \E n \in NewTurn : HasParent(n) /\ CheckRequest(c, n)
  \/ EnterOperation(c)
  \/ AdmitTurn(c)
  \/ \E t \in TurnIds : RequestCancel(c, t)
  \/ CancelTurn(c)
  \/ FinishCancel(c)

RunStep(t) ==
  \/ PopWork(t) \/ StartRun(t) \/ Resolve(t) \/ Answer(t) \/ RecordDecision(t) \/ AddContext(t)
  \/ BeginWork(t) \/ KeepRequest(t)
  \/ CommitPreview(t) \/ ReplayQuestion(t) \/ AskQuestion(t) \/ EndWork(t)
  \/ Publish(t) \/ FinishCheck(t) \/ Finish(t) \/ Abandon(t) \/ Fail(t) \/ ExitRun(t)

Next ==
  \/ \E c \in Callers : CallStep(c)
  \/ Dequeue
  \/ \E t \in TurnIds : RunStep(t)
  \/ \E s \in Sessions : DropSession(s) \/ SessionStep(s) \/ LapseQuestion(s)
  \/ StopTurns \/ StopExecutor \/ ForgetTurns

Spec == Init /\ [][Next]_vars

\* Threads that are inside the store go on; the executor's workers take what
\* is queued; a shutdown that was begun is completed. Nobody has to submit,
\* cancel, revoke or shut down.
Fairness ==
  /\ \A c \in Callers : WF_vars(FinishCancel(c))
  /\ WF_vars(Dequeue)
  /\ \A t \in TurnIds : WF_vars(RunStep(t))
  /\ WF_vars(StopExecutor) /\ WF_vars(ForgetTurns)

FairSpec == Spec /\ Fairness

-----------------------------------------------------------------------------
(* Properties *)

\* Types of the store's dictionaries and of the records.  The private map of
\* prompts and tokens (_admitted_work) never holds a turn the store has dropped.
TypeOK ==
  /\ phase \in [Sessions -> {"absent", "live", "revoked", "gone"}]
  /\ erased \in [Sessions -> BOOLEAN]
  /\ question \in [Sessions -> [id : 0 .. MaxQuestion, asker : 0 .. MaxTurn, holder : 0 .. MaxTurn]]
  /\ DOMAIN revoked_sessions \subseteq Sessions
  /\ \A s \in DOMAIN revoked_sessions : revoked_sessions[s] \in TurnIds
  /\ DOMAIN record = 1 .. next_turn - 1
  /\ \A t \in DOMAIN record : record[t] \in Records
  /\ turns \subseteq DOMAIN record
  /\ admitted_work \subseteq turns
  /\ active \subseteq Sessions
  /\ job \in [TurnIds -> {"none", "queued"} \cup Working \cup Ended]
  /\ queue \in Seq(TurnIds)
  /\ service \in {"open", "closing", "draining", "closed"}
  /\ call \in [Callers -> Calls]
  /\ next_turn \in 1 .. MaxTurn + 1
  /\ next_question \in 1 .. MaxQuestion + 1

\* Types, and: _active is exactly the set of sessions with an unfinished turn in the
\* store, and no session has two: submit, the worker, cancel and drop_session
\* each touch one side only under _lock.
OneActiveTurn ==
  /\ TypeOK
  /\ \A s \in Sessions :
       /\ (s \in active) = (Unfinished(TurnsOf(s)) # {})
       /\ \A t, u \in Unfinished(TurnsOf(s)) : t = u

\* The idempotency keys and the records are the same set: a retry always finds
\* the record of its first attempt, and no request is admitted twice.
RequestsAdmittedOnce ==
  /\ \A k \in DOMAIN idempotency :
        LET t == idempotency[k]
        IN  t \in turns /\ k = <<record[t].session, record[t].request>>
  /\ \A t \in turns :
        LET k == <<record[t].session, record[t].request>>
        IN  k \in DOMAIN idempotency /\ idempotency[k] = t

\* After drop_session nothing of the session is in the store or comes back
\* into it, whatever threads were in the middle of submit, cancel or _run.
NothingSurvivesErasure ==
  \A s \in Sessions :
    erased[s] => /\ TurnsOf(s) = {} /\ s \notin active
                 /\ \A k \in DOMAIN idempotency \cup DOMAIN proposal_heads : k[1] # s
                 /\ question[s] = NoQuestion

\* The latest proposal for a target is a finished proposal of a turn in the
\* store whose private source can serve as the next basis.
HeadsCanBeBasis ==
  \A k \in DOMAIN proposal_heads :
    LET t == proposal_heads[k]
    IN  /\ t \in turns
        /\ k = <<record[t].session, record[t].target>>
        /\ record[t].terminal = "proposed"
        /\ record[t].private

\* Sources, manifests and dialogue are attached only to a record of the store that
\* nobody has cancelled, whatever its worker was doing when it was dropped or
\* cancelled; but the latest proposal for a target keeps them for the next turn.
\* What the worker wrote into a cancelled record without the lock (_run,
\* BrainOrchestrator.run) is gone when the turn has ended.
PrivateWhileUsable ==
  /\ \A t \in DOMAIN record :
       /\ record[t].private => t \in turns /\ ~record[t].cancelled
       /\ record[t].notes /\ t \in turns /\ record[t].terminal # "none" => ~record[t].cancelled
  /\ HeadsCanBeBasis

\* A question is held only by a turn that is still going to answer it or to
\* let it go.
ClaimHasOwner ==
  \A s \in Sessions :
    LET t == question[s].holder
    IN  t # 0 => /\ t \in turns
                 /\ record[t].answers = question[s].id
                 /\ \/ job[t] \notin Ended \cup {"none"}
                    \/ \E c \in Callers : call[c] = [op |-> "cancelling", turn |-> t]

\* An open question can be answered: a turn of the session has published it,
\* or the turn that asked it is still at work. Otherwise has_pending would
\* refuse every further request of the session.
OpenQuestionIsVisible ==
  \A s \in Sessions :
    service = "open" /\ question[s].id # 0 =>
      \E t \in TurnsOf(s) : /\ record[t].asks = question[s].id
                            /\ record[t].terminal = "asked" \/ job[t] \in Working

\* A step leaves the latest proposals, unless they are built on or erased, and
\* what turns ended with.
ResultsStay ==
  /\ \A k \in DOMAIN proposal_heads :
       \/ /\ k \in DOMAIN proposal_heads'
          /\ \/ proposal_heads'[k] = proposal_heads[k]
             \/ record[proposal_heads'[k]].basis = proposal_heads[k]
       \/ erased'[k[1]]
       \/ service' # "open"
  /\ \A t \in DOMAIN record :
       record[t].terminal # "none" => record'[t].terminal = record[t].terminal

\* A proposal gives way only to one that was built on it, to the erasure of its
\* session or to shutdown (_advance_head_locked); and what a turn ended with
\* stays, whichever of its worker and a canceller came first (_finish).
ResultsAreFinal == [][ResultsStay]_vars

\* Every admitted turn ends or is erased.
AdmittedTurnEnds ==
  \A t \in TurnIds :
    (t \in turns /\ record[t].terminal = "none") ~> (t \notin turns \/ record[t].terminal # "none")

-----------------------------------------------------------------------------
(* What the code does not keep; TLC finds the traces the README describes.     *)

\* The bound named MAX_SESSION_TURNS, as submit checks it.
HistoryBounded == \A s \in Sessions : Cardinality(TurnsOf(s)) <= MaxSessionTurns

\* A record that drop_session has cleared stays empty.
DroppedRecordsAreEmpty == \A t \in DOMAIN record \ turns : ~record[t].notes

\* The guard of a revoked session does not outlive the worker of its owner.
GuardReleased == \A s \in DOMAIN revoked_sessions : job[revoked_sessions[s]] \notin Ended
=============================================================================
