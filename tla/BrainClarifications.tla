-------------------------- MODULE BrainClarifications --------------------------
(***************************************************************************)
(* The clarification store of Metis Brain (brain_clarifications.py): the   *)
(* questions the server has asked and not yet seen answered, the decisions *)
(* that conversations have accumulated, the claims that queued turns hold  *)
(* on a question they answer, the identifiers that must not be replayed    *)
(* and the guard that keeps a revoked session empty.                       *)
(*                                                                         *)
(* Every method holds the store's re-entrant lock from beginning to end,   *)
(* so each is one action. A call that is refused sweeps and does nothing   *)
(* else: it is the action SweepExpired (or, for the first dialogue         *)
(* version, ExpireOnAnswer).                                               *)
(*                                                                         *)
(* The two dialogue versions share the indexes. A version-1 question has   *)
(* one slot; a version-2 question has several and can be answered in part. *)
(* A decision is identified by its key and by the decision it supersedes:  *)
(* "over" counts the decisions already taken on the key, so a slot that    *)
(* names the n-th decision as its predecessor has over = n, and the        *)
(* decision taken on a slot is identified by the slot.                     *)
(***************************************************************************)
EXTENDS Naturals, Sequences, FiniteSets, Functions

CONSTANTS
  Sessions,
  Turns,
  Requests,            \* fingerprints of logical requests: they name conversations
  Keys,                \* question keys (v1), decision and target keys (v2)
  Bases,               \* context, semantic and toolchain revisions taken together
  Assumptions,
  None,
  Ttl,                 \* ttl_seconds, in clock ticks
  MaxRounds,           \* max_rounds of version 1
  MaxRoundsV2,         \* max_rounds_v2
  MaxQuestions,        \* slots in one version-2 question
  MaxDecisions,        \* decisions in one version-2 conversation
  MaxAssumptions,      \* MAX_ROUNDS, used as a bound in _add_assumptions_locked
  MaxConversations,    \* conversations of one session, both versions together
  MaxRetired,          \* replay guards kept for one session
  MaxId                \* bound of the model: how many identifiers are issued

ASSUME NoneIsNobody == None \notin Turns

ASSUME LimitsAreNumbers ==
  /\ {Ttl, MaxRounds, MaxRoundsV2, MaxQuestions} \subseteq Nat \ {0}
  /\ {MaxDecisions, MaxConversations, MaxRetired} \subseteq Nat \ {0}
  /\ {MaxAssumptions, MaxId} \subseteq Nat

ASSUME FiniteData == IsFiniteSet(Keys) /\ IsFiniteSet(Requests) /\ IsFiniteSet(Assumptions)

VARIABLES
  pending_by_id,       \* clarification id -> question
  pending_by_session,  \* session -> clarification id
  conversations,       \* <<session, version, request>> -> conversation
  retired,             \* clarification id -> replay guard
  revoked_sessions,    \* session -> the turn whose end releases the guard
  next_id              \* identifiers are random: the model never repeats one

vars == <<pending_by_id, pending_by_session, conversations, retired, revoked_sessions, next_id>>

Versions == {"v1", "v2"}
Ids == 1 .. MaxId
Slots == [key : Keys, over : Nat]
Owners == Turns \cup {None}

Questions ==
  [session : Sessions, version : Versions, turn : Turns, request : Requests,
   basis : Bases, slots : SUBSET Slots, added : SUBSET Assumptions, round : Nat,
   age : 0 .. Ttl, owner : Owners, roster : SUBSET Slots]

Conversations ==
  [basis : Bases, rounds : Nat, decided : SUBSET Slots, asked : SUBSET Slots,
   assumptions : SUBSET Assumptions, proposal : BOOLEAN]

RetiredIds == [session : Sessions, reason : {"replay", "expired"}, age : 0 .. Ttl]

Init ==
  /\ pending_by_id = <<>>
  /\ pending_by_session = <<>>
  /\ conversations = <<>>
  /\ retired = <<>>
  /\ revoked_sessions = <<>>
  /\ next_id = 1

-----------------------------------------------------------------------------
(* Dictionaries *)

With(f, x, v) == [y \in DOMAIN f \cup {x} |-> IF y = x THEN v ELSE f[y]]
Without(f, S) == Restrict(f, DOMAIN f \ S)

-----------------------------------------------------------------------------
(* Conversations *)

NewConversation(b) ==
  [basis |-> b, rounds |-> 0, decided |-> {}, asked |-> {},
   assumptions |-> {}, proposal |-> FALSE]

ConversationOf(q) == <<q.session, q.version, q.request>>

ConversationsOf(s) == {c \in DOMAIN conversations : c[1] = s}

\* The conversation a question would go into, and whether there may be one.
Conversation(c, b) == IF c \in DOMAIN conversations THEN conversations[c] ELSE NewConversation(b)

HasRoom(c, b) ==
  IF c \in DOMAIN conversations
  THEN conversations[c].basis = b
  ELSE Cardinality(ConversationsOf(c[1])) < MaxConversations

DecisionCount(conversation) == Cardinality(conversation.decided)

\* decision_roster: a decision names exactly its predecessor, the last one on its key.
Follows(slot, conversation) ==
  {decision.over : decision \in {d \in conversation.decided : d.key = slot.key}}
    = 0 .. slot.over - 1

\* Faulty variant: one free place is enough for a whole group of slots.
DecisionsFitOne(conversation, slots) == DecisionCount(conversation) < MaxDecisions

DecisionsFit(conversation, slots) ==
  DecisionCount(conversation) + Cardinality(slots) <= MaxDecisions

Decide(conversation, slots) ==
  [conversation EXCEPT !.decided = @ \cup slots]

-----------------------------------------------------------------------------
(* Retirement and expiry *)

\* Of two guards, the one retired first; of two retired at once, the one inserted first.
Older(guards, n, m) ==
  \/ guards[n].age > guards[m].age
  \/ guards[n].age = guards[m].age /\ n < m

GuardsOf(guards, s) == {n \in DOMAIN guards : guards[n].session = s}

\* Faulty variant: the bound drops the youngest guard instead of the oldest.
YoungestBeyond(guards, n) ==
  LET own == GuardsOf(guards, guards[n].session)
  IN  Cardinality(own) > MaxRetired /\ \A m \in own \ {n} : Older(guards, m, n)

\* A session has one guard too many: the oldest goes.
Surplus(guards, n) ==
  LET own == GuardsOf(guards, guards[n].session)
  IN  Cardinality(own) > MaxRetired /\ \A m \in own \ {n} : Older(guards, n, m)

\* Questions become replay guards, at most one of each session at a time.
Retire(guards, ids, reason) ==
  LET more == [n \in DOMAIN guards \cup ids |->
                 IF n \in ids
                 THEN [session |-> pending_by_id[n].session, reason |-> reason, age |-> 0]
                 ELSE guards[n]]
  IN  Without(more, {n \in DOMAIN more : Surplus(more, n)})

\* Replay guards are kept for one TTL.
Purge(guards) == Without(guards, {n \in DOMAIN guards : guards[n].age >= Ttl})

\* Faulty variant: the sweep does not look at the claim.
ExpirableWhileClaimed(q) == q.age >= Ttl

\* A question that a queued turn has claimed does not expire.
Expirable(q) == q.owner = None /\ q.age >= Ttl

ExpiredIds == {id \in DOMAIN pending_by_id : Expirable(pending_by_id[id])}

SweptIds == Without(pending_by_id, ExpiredIds)

\* Faulty variant: the sweep cleans one of the two indexes.
SweptSessionsForgotten == pending_by_session

SweptSessions ==
  Without(pending_by_session,
          {s \in DOMAIN pending_by_session : pending_by_session[s] \in ExpiredIds})

\* A session has one pending question (StoreConsistent), so one can expire.
SweptRetired == Purge(Retire(retired, ExpiredIds, "expired"))

SweepExpired ==
  /\ pending_by_id' = SweptIds
  /\ pending_by_session' = SweptSessions
  /\ retired' = SweptRetired
  /\ UNCHANGED <<conversations, revoked_sessions, next_id>>

-----------------------------------------------------------------------------
(* Asking *)

\* Faulty variant: the revocation guard is not consulted.
MayAskUnguarded(s) == s \notin DOMAIN SweptSessions

MayAsk(s) == s \notin DOMAIN revoked_sessions /\ s \notin DOMAIN SweptSessions

Insert(q, conversation) ==
  /\ next_id \in Ids
  /\ next_id' = next_id + 1
  /\ pending_by_id' = With(SweptIds, next_id, q)
  /\ pending_by_session' = With(SweptSessions, q.session, next_id)
  /\ conversations' = With(conversations, ConversationOf(q), conversation)
  /\ retired' = SweptRetired
  /\ UNCHANGED revoked_sessions

Question(s, version, t, r, b, slots, added, round) ==
  [session |-> s, version |-> version, turn |-> t, request |-> r, basis |-> b,
   slots |-> slots, added |-> added, round |-> round, age |-> 0,
   owner |-> None, roster |-> {}]

\* What create_pending checks before it looks at the assumptions.
Admissible(s, r, b, slot) ==
  LET c == <<s, "v1", r>>
  IN  /\ MayAsk(s)
      /\ HasRoom(c, b)
      /\ Conversation(c, b).rounds < MaxRounds
      /\ slot \notin Conversation(c, b).asked

AssumptionsFit(conversation, A) == Cardinality(conversation.assumptions \cup A) <= MaxAssumptions

CreatePending(s, t, r, b, k, A) ==
  LET conversation == Conversation(<<s, "v1", r>>, b)
      slot == [key |-> k, over |-> 0]
      added == A \ conversation.assumptions
  IN  /\ Admissible(s, r, b, slot)
      /\ AssumptionsFit(conversation, A)
      /\ Insert(Question(s, "v1", t, r, b, {slot}, added, conversation.rounds + 1),
                [conversation EXCEPT !.asked = @ \cup {slot}, !.assumptions = @ \cup A])

\* Too many assumptions: the question is refused, the conversation stays.
RefuseAssumptions(s, r, b, k, A) ==
  LET c == <<s, "v1", r>>
  IN  /\ Admissible(s, r, b, [key |-> k, over |-> 0])
      /\ ~AssumptionsFit(Conversation(c, b), A)
      /\ conversations' = With(conversations, c, Conversation(c, b))
      /\ pending_by_id' = SweptIds
      /\ pending_by_session' = SweptSessions
      /\ retired' = SweptRetired
      /\ UNCHANGED <<revoked_sessions, next_id>>

OneSlotPerKey(slots) == \A x, y \in slots : x.key = y.key => x = y

CreatePendingV2(s, t, r, b, slots) ==
  LET conversation == Conversation(<<s, "v2", r>>, b)
  IN  /\ slots # {} /\ Cardinality(slots) <= MaxQuestions /\ OneSlotPerKey(slots)
      /\ MayAsk(s)
      /\ HasRoom(<<s, "v2", r>>, b)
      /\ conversation.rounds < MaxRoundsV2
      /\ slots \cap conversation.asked = {}
      /\ \A slot \in slots : Follows(slot, conversation)
      /\ DecisionsFit(conversation, slots)
      /\ Insert(Question(s, "v2", t, r, b, slots, {}, conversation.rounds + 1),
                [conversation EXCEPT !.asked = @ \cup slots])

-----------------------------------------------------------------------------
(* Claiming: the turn that answers is queued, the question waits for it *)

\* Version 1 records who answers, not what; it does not sweep when it finds
\* the question, and it does not look at the revocation guard.
ValidateAnswer(id, t) ==
  /\ id \in DOMAIN pending_by_id
  /\ pending_by_id[id].version = "v1"
  /\ pending_by_id[id].owner \in {None, t}
  /\ ~Expirable(pending_by_id[id])
  /\ pending_by_id' = [pending_by_id EXCEPT ![id].owner = t]
  /\ UNCHANGED <<pending_by_session, conversations, retired, revoked_sessions, next_id>>

\* What _validated_v2_locked requires of an answer to some of the slots.
Answerable(id, roster) ==
  /\ id \in DOMAIN SweptIds
  /\ pending_by_id[id].version = "v2"
  /\ pending_by_id[id].session \notin DOMAIN revoked_sessions
  /\ roster # {} /\ roster \subseteq pending_by_id[id].slots
  /\ pending_by_id[id].owner # None => roster = pending_by_id[id].roster

ValidateAnswersV2(id, t, roster) ==
  /\ Answerable(id, roster)
  /\ pending_by_id[id].owner \in {None, t}
  /\ pending_by_id' = [SweptIds EXCEPT ![id].owner = t, ![id].roster = roster]
  /\ pending_by_session' = SweptSessions
  /\ retired' = SweptRetired
  /\ UNCHANGED <<conversations, revoked_sessions, next_id>>

ReleaseAnswerClaim(s, t) ==
  /\ s \in DOMAIN pending_by_session
  /\ pending_by_id[pending_by_session[s]].owner = t
  /\ pending_by_id' = [pending_by_id EXCEPT ![pending_by_session[s]].owner = None,
                                            ![pending_by_session[s]].roster = {}]
  /\ UNCHANGED <<pending_by_session, conversations, retired, revoked_sessions, next_id>>

-----------------------------------------------------------------------------
(* Answering. "t" is the claim owner, None when the caller names none. *)

Answer(id, t) ==
  /\ id \in DOMAIN pending_by_id
  /\ pending_by_id[id].version = "v1"
  /\ pending_by_id[id].owner = t
  /\ ~Expirable(pending_by_id[id])
  /\ LET q == pending_by_id[id]
         c == ConversationOf(q)
         decided == Decide(conversations[c], q.slots)
     IN  /\ pending_by_id' = Without(pending_by_id, {id})
         /\ pending_by_session' = Without(pending_by_session, {q.session})
         /\ retired' = Retire(retired, {id}, "replay")
         /\ conversations' = [conversations EXCEPT ![c] =
              [decided EXCEPT !.rounds = @ + 1]]
  /\ UNCHANGED <<revoked_sessions, next_id>>

\* Found expired, the question is retired at once; others are not swept.
ExpireOnAnswer(id) ==
  /\ id \in ExpiredIds
  /\ pending_by_id[id].version = "v1"
  /\ pending_by_id' = Without(pending_by_id, {id})
  /\ pending_by_session' = Without(pending_by_session, {pending_by_id[id].session})
  /\ retired' = Retire(retired, {id}, "expired")
  /\ UNCHANGED <<conversations, revoked_sessions, next_id>>

\* Faulty variant: the new question inherits the claim on the old one.
RotateKeepingClaim(q, remaining) == [q EXCEPT !.slots = remaining]

\* Slots that were not answered move to a new question with a new identifier:
\* it has the same round, parent turn and expiry, and nobody claims it.
Rotate(q, remaining) == [q EXCEPT !.slots = remaining, !.owner = None, !.roster = {}]

AnswerV2(id, t, roster) ==
  /\ Answerable(id, roster)
  /\ pending_by_id[id].owner = t
  /\ LET q == pending_by_id[id]
         c == ConversationOf(q)
         decided == Decide(conversations[c], roster)
         remaining == q.slots \ roster
     IN  /\ \A slot \in roster : Follows(slot, conversations[c])
         /\ DecisionsFit(conversations[c], roster)
         /\ retired' = Retire(SweptRetired, {id}, "replay")
         /\ conversations' = [conversations EXCEPT ![c] =
              [decided EXCEPT !.rounds = IF @ > q.round THEN @ ELSE q.round]]
         /\ \/ /\ remaining = {}
               /\ pending_by_id' = Without(SweptIds, {id})
               /\ pending_by_session' = Without(SweptSessions, {q.session})
               /\ UNCHANGED next_id
            \/ /\ remaining # {} /\ next_id \in Ids
               /\ pending_by_id' = With(Without(SweptIds, {id}), next_id, Rotate(q, remaining))
               /\ pending_by_session' = With(SweptSessions, q.session, next_id)
               /\ next_id' = next_id + 1
  /\ UNCHANGED revoked_sessions

-----------------------------------------------------------------------------
(* Withdrawing and forgetting *)

\* Faulty variant: version-2 conversations are not looked at before they are removed.
EmptyAnyway(version, conversation) ==
  version = "v1" => conversation.rounds = 0 /\ conversation.assumptions = {}

\* A conversation about which nothing has been settled is not kept.
Empty(version, conversation) ==
  /\ DecisionCount(conversation) = 0
  /\ conversation.asked = {}
  /\ version = "v1" => /\ conversation.rounds = 0
                       /\ conversation.assumptions = {}
                       /\ ~conversation.proposal

DiscardPendingForTurn(s, t) ==
  /\ s \in DOMAIN pending_by_session
  /\ LET id == pending_by_session[s]
         q == pending_by_id[id]
         c == ConversationOf(q)
         undone == [conversations[c] EXCEPT !.asked = @ \ q.slots, !.assumptions = @ \ q.added]
     IN  /\ q.turn = t
         /\ pending_by_id' = Without(pending_by_id, {id})
         /\ pending_by_session' = Without(pending_by_session, {s})
         /\ conversations' = IF Empty(q.version, undone)
                             THEN Without(conversations, {c})
                             ELSE [conversations EXCEPT ![c] = undone]
  /\ UNCHANGED <<retired, revoked_sessions, next_id>>

GuardedSessions(s, owner) ==
  IF owner = None THEN revoked_sessions ELSE With(revoked_sessions, s, owner)

\* "owner" is the turn still at work for the session, None when there is none.
DropSession(s, owner) ==
  /\ pending_by_session' = Without(pending_by_session, {s})
  /\ pending_by_id' = IF s \in DOMAIN pending_by_session
                      THEN Without(pending_by_id, {pending_by_session[s]})
                      ELSE pending_by_id
  /\ retired' = Without(retired, GuardsOf(retired, s))
  /\ conversations' = Without(conversations, ConversationsOf(s))
  /\ revoked_sessions' = GuardedSessions(s, owner)
  /\ UNCHANGED next_id

ReleaseRevocationGuard(s, t) ==
  /\ s \in DOMAIN revoked_sessions
  /\ revoked_sessions[s] = t
  /\ revoked_sessions' = Without(revoked_sessions, {s})
  /\ UNCHANGED <<pending_by_id, pending_by_session, conversations, retired, next_id>>

SetLatestProposal(s, r) ==
  /\ <<s, "v1", r>> \in DOMAIN conversations
  /\ conversations' = [conversations EXCEPT ![<<s, "v1", r>>].proposal = TRUE]
  /\ pending_by_id' = SweptIds
  /\ pending_by_session' = SweptSessions
  /\ retired' = SweptRetired
  /\ UNCHANGED <<revoked_sessions, next_id>>

Clear ==
  /\ pending_by_id' = <<>>
  /\ pending_by_session' = <<>>
  /\ conversations' = <<>>
  /\ retired' = <<>>
  /\ revoked_sessions' = <<>>
  /\ UNCHANGED next_id

-----------------------------------------------------------------------------
(* Time: ages are what the code derives from monotonic() and its stamps *)

Aged(age) == IF age < Ttl THEN age + 1 ELSE age

Tick ==
  /\ pending_by_id' = [id \in DOMAIN pending_by_id |->
                         [pending_by_id[id] EXCEPT !.age = Aged(@)]]
  /\ retired' = [id \in DOMAIN retired |-> [retired[id] EXCEPT !.age = Aged(@)]]
  /\ UNCHANGED <<pending_by_session, conversations, revoked_sessions, next_id>>

-----------------------------------------------------------------------------
CandidateSlots == [key : Keys, over : 0 .. MaxDecisions]

Ask ==
  \E s \in Sessions, t \in Turns, r \in Requests, b \in Bases :
     \/ \E k \in Keys, A \in SUBSET Assumptions :
           CreatePending(s, t, r, b, k, A) \/ RefuseAssumptions(s, r, b, k, A)
     \/ \E slots \in SUBSET CandidateSlots : CreatePendingV2(s, t, r, b, slots)

Claim ==
  \/ \E id \in DOMAIN pending_by_id, t \in Turns :
        \/ ValidateAnswer(id, t)
        \/ \E roster \in SUBSET pending_by_id[id].slots : ValidateAnswersV2(id, t, roster)
  \/ \E s \in Sessions, t \in Turns : ReleaseAnswerClaim(s, t)

Resolve ==
  \E id \in DOMAIN pending_by_id :
     \/ ExpireOnAnswer(id)
     \/ \E t \in Owners :
           \/ Answer(id, t)
           \/ \E roster \in SUBSET pending_by_id[id].slots : AnswerV2(id, t, roster)

Forget ==
  \/ \E s \in Sessions, t \in Turns : DiscardPendingForTurn(s, t) \/ ReleaseRevocationGuard(s, t)
  \/ \E s \in Sessions, t \in Owners : DropSession(s, t)
  \/ \E s \in Sessions, r \in Requests : SetLatestProposal(s, r)
  \/ SweepExpired
  \/ Clear

Next == Ask \/ Claim \/ Resolve \/ Forget \/ Tick

Spec == Init /\ [][Next]_vars

-----------------------------------------------------------------------------
(* Properties *)

\* Types: questions, conversations, replay guards and revocation guards are
\* dictionaries of the shapes above, over identifiers already issued.
TypeOK ==
  /\ DOMAIN pending_by_id \subseteq Ids
  /\ \A id \in DOMAIN pending_by_id : id < next_id /\ pending_by_id[id] \in Questions
  /\ DOMAIN pending_by_session \subseteq Sessions
  /\ \A s \in DOMAIN pending_by_session : pending_by_session[s] \in Ids
  /\ DOMAIN conversations \subseteq Sessions \X Versions \X Requests
  /\ \A c \in DOMAIN conversations : conversations[c] \in Conversations
  /\ DOMAIN retired \subseteq Ids
  /\ \A id \in DOMAIN retired : id < next_id /\ retired[id] \in RetiredIds
  /\ DOMAIN revoked_sessions \subseteq Sessions
  /\ \A s \in DOMAIN revoked_sessions : revoked_sessions[s] \in Turns
  /\ next_id \in 1 .. MaxId + 1

\* A session under a revocation guard has no question and no conversation:
\* the turn that is still running cannot bring back what drop_session erased.
RevokedStaysEmpty ==
  \A s \in DOMAIN revoked_sessions : s \notin DOMAIN pending_by_session /\ ConversationsOf(s) = {}

\* Types, and: the two indexes hold the same questions, one per session, found
\* under its identifier (every method pops and inserts both; _retire_locked
\* compares the objects), and none for a session that was erased.
StoreConsistent ==
  /\ TypeOK
  /\ RevokedStaysEmpty
  /\ \A s \in DOMAIN pending_by_session :
        /\ pending_by_session[s] \in DOMAIN pending_by_id
        /\ pending_by_id[pending_by_session[s]].session = s
  /\ \A id \in DOMAIN pending_by_id :
        LET s == pending_by_id[id].session
        IN  s \in DOMAIN pending_by_session /\ pending_by_session[s] = id

\* An answer admitted at any later time can be recorded: the conversation of
\* a pending question is still there, it lists the slots as asked, each slot
\* still supersedes the last decision on its key, and there are a round and
\* decisions left for it (answer, answer_v2 and decision_roster look all of
\* this up without being able to repair it).
QuestionResolvable ==
  \A id \in DOMAIN pending_by_id :
    LET q == pending_by_id[id]
        c == ConversationOf(q)
    IN  /\ c \in DOMAIN conversations
        /\ q.slots # {} /\ q.slots \subseteq conversations[c].asked
        /\ q.added \subseteq conversations[c].assumptions
        /\ \A slot \in q.slots : Follows(slot, conversations[c])
        /\ q.basis = conversations[c].basis
        /\ IF q.version = "v1"
           THEN conversations[c].rounds < MaxRounds
           ELSE /\ q.round <= MaxRoundsV2
                /\ DecisionCount(conversations[c]) + Cardinality(q.slots) <= MaxDecisions

\* A session was forgotten in this step (drop_session, clear): its conversations
\* and its replay guards together.
Forgotten(s) ==
  /\ conversations' = Without(conversations, ConversationsOf(s)) \/ conversations' = <<>>
  /\ GuardsOf(retired', s) = {} /\ s \notin DOMAIN pending_by_session'

\* In this step no recorded decision is lost and no round given back, but by
\* forgetting the session.
DecisionsStay ==
  \A c \in DOMAIN conversations :
    DecisionCount(conversations[c]) > 0 =>
      \/ Forgotten(c[1])
      \/ /\ c \in DOMAIN conversations'
         /\ conversations'[c].rounds >= conversations[c].rounds
         /\ conversations[c].decided \subseteq conversations'[c].decided

\* A decision that was recorded stays, and no round is given back, until the
\* session is dropped: a discarded or expired question takes nothing along.
DecisionsAreKept == [][DecisionsStay]_vars

\* In this step a claimed question that is closed is recorded as it was claimed.
ClaimsHonoured ==
  \A id \in DOMAIN pending_by_id :
    LET q == pending_by_id[id]
        c == ConversationOf(q)
    IN  q.owner # None /\ id \notin DOMAIN pending_by_id' =>
          /\ id \in DOMAIN retired' => retired'[id].reason = "replay"
          /\ c \in DOMAIN conversations' /\ conversations'[c].decided # conversations[c].decided =>
               conversations'[c].decided =
                 Decide(conversations[c], IF q.version = "v1" THEN q.slots ELSE q.roster).decided

\* A claimed question does not expire, its answer is the one that was
\* claimed: it records exactly the claimed slots (version 2), or the single
\* slot of a version-1 question.
ClaimIsHonoured == [][ClaimsHonoured]_vars

\* In this step a recorded answer leaves a guard, and the guards before it last.
GuardsLast ==
  /\ \A id \in DOMAIN pending_by_id :
       LET c == ConversationOf(pending_by_id[id])
       IN  c \in DOMAIN conversations' /\ conversations'[c].decided # conversations[c].decided
             => id \in DOMAIN retired'
                /\ retired'[id] = [session |-> c[1], reason |-> "replay", age |-> 0]
  /\ \A id \in DOMAIN retired :
       LET guard == retired[id]
           own == GuardsOf(retired', guard.session)
       IN  /\ id \notin DOMAIN pending_by_id'
           /\ \/ guard.age >= Ttl
              \/ Forgotten(guard.session)
              \/ id \in own
              \/ /\ Cardinality(own) = MaxRetired
                 /\ \A n \in own : retired'[n].age <= guard.age

\* A consumed or expired identifier is remembered for a whole TTL unless
\* MaxRetired younger ones push it out, or the session is dropped; an
\* identifier is never pending and retired at once; and no decision is
\* recorded without a guard against the replay of its answer.
ReplayGuardLasts == [][GuardsLast]_vars

\* Once a question has been retired it is never asked or answered again, at
\* most one is open per session, decisions are settled only by answers: the
\* store implements the ledger, where a session has settled what its
\* conversations have decided.
OpenQuestions ==
  [s \in Sessions |-> IF s \in DOMAIN pending_by_session THEN pending_by_session[s] ELSE 0]
Claimants ==
  [s \in Sessions |-> IF s \in DOMAIN pending_by_session
                      THEN pending_by_id[pending_by_session[s]].owner ELSE None]
Settled == [s \in Sessions |-> UNION {{c} \X conversations[c].decided : c \in ConversationsOf(s)}]
Issued == 1 .. next_id - 1

Ledger ==
  INSTANCE QuestionLedger WITH
    Holders <- Turns, Nobody <- None, NoQuestion <- 0,
    open <- OpenQuestions, holder <- Claimants, settled <- Settled, used <- Issued

ImplementsLedger == Ledger!Spec

=============================================================================
