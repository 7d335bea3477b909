---------------------- MODULE BrainClarifications_proofs ----------------------
(***************************************************************************)
(* Proofs about BrainClarifications: the two indexes and the conversations *)
(* agree, an open question can always be answered, no decision is lost,    *)
(* and the store implements QuestionLedger.                                *)
(***************************************************************************)
EXTENDS BrainClarifications, FiniteSetTheorems, TLAPS

\* A question as it was asked: finitely many slots, one per key, and in version 1 none
\* that replaces a decision.
WellFormed(q) ==
    /\ q \in Questions /\ IsFiniteSet(q.slots) /\ OneSlotPerKey(q.slots)
    /\ q.version = "v1" => \A slot \in q.slots : slot.over = 0

\* The answer to question q can be recorded in conversation v.
FitsIn(q, v) ==
    /\ q.slots # {} /\ q.slots \subseteq v.asked
    /\ q.added \subseteq v.assumptions
    /\ \A slot \in q.slots : Follows(slot, v)
    /\ q.basis = v.basis
    /\ IF q.version = "v1"
       THEN v.rounds < MaxRounds
       ELSE /\ q.round <= MaxRoundsV2
            /\ DecisionCount(v) + Cardinality(q.slots) <= MaxDecisions

\* What conversation c is: in version 1 a key is decided once, and was asked before.
Sound(c, v) ==
    /\ c \in Sessions \X Versions \X Requests
    /\ v \in Conversations /\ IsFiniteSet(v.decided)
    /\ c[2] = "v1" => \A slot \in v.decided : slot \in v.asked /\ slot.over = 0

\* The two indexes hold the same questions, one per session.
Indexed(ids, sessions) ==
    /\ \A s \in DOMAIN sessions : sessions[s] \in DOMAIN ids /\ ids[sessions[s]].session = s
    /\ \A id \in DOMAIN ids :
          ids[id].session \in DOMAIN sessions /\ sessions[ids[id].session] = id

\* Every question issued below n finds its conversation, and can be answered in it.
Resolvable(ids, convs, n) ==
    \A id \in DOMAIN ids :
        /\ id \in Ids /\ id < n /\ WellFormed(ids[id])
        /\ ConversationOf(ids[id]) \in DOMAIN convs
        /\ FitsIn(ids[id], convs[ConversationOf(ids[id])])

AllSound(convs) == \A c \in DOMAIN convs : Sound(c, convs[c])

\* The replay guards of a session are within their bound, and older than its question.
GuardsFit(guards, ids, n) ==
    /\ \A m \in DOMAIN guards : m \in Ids /\ m < n /\ guards[m] \in RetiredIds
    /\ \A s \in Sessions : Cardinality(GuardsOf(guards, s)) <= MaxRetired
    /\ \A id \in DOMAIN ids, m \in DOMAIN guards :
          m # id /\ (guards[m].session = ids[id].session => m < id)

\* A revoked session has no question and no conversation.
ErasedStay(revoked, sessions, convs) ==
    /\ \A s \in DOMAIN revoked :
          /\ s \in Sessions /\ revoked[s] \in Turns /\ s \notin DOMAIN sessions
          /\ \A c \in DOMAIN convs : c[1] # s

StoreInv ==
    /\ Indexed(pending_by_id, pending_by_session)
    /\ Resolvable(pending_by_id, conversations, next_id)
    /\ AllSound(conversations)
    /\ GuardsFit(retired, pending_by_id, next_id)
    /\ ErasedStay(revoked_sessions, pending_by_session, conversations)
    /\ next_id \in 1 .. MaxId + 1

-----------------------------------------------------------------------------
(* Dictionaries and slots                                                  *)

LEMMA WithoutIs ==
    ASSUME NEW f, NEW S
    PROVE  /\ DOMAIN Without(f, S) = DOMAIN f \ S
           /\ \A x \in DOMAIN f \ S : Without(f, S)[x] = f[x]
  BY DEF Without, Restrict

LEMMA WithIs ==
    ASSUME NEW f, NEW x, NEW v
    PROVE  /\ DOMAIN With(f, x, v) = DOMAIN f \cup {x} /\ With(f, x, v)[x] = v
           /\ \A y \in DOMAIN f \ {x} : With(f, x, v)[y] = f[y]
  BY DEF With

LEMMA EmptyIs == DOMAIN <<>> = {}
  OBVIOUS

\* What is taken from both indexes at once: the questions S and their sessions.
Holding(sessions, S) == {s \in DOMAIN sessions : sessions[s] \in S}

LEMMA RemoveIndexed ==
    ASSUME NEW ids, NEW sessions, NEW S, Indexed(ids, sessions)
    PROVE  Indexed(Without(ids, S), Without(sessions, Holding(sessions, S)))
<1> DEFINE gone == Holding(sessions, S)
           ids2 == Without(ids, S)
           sessions2 == Without(sessions, gone)
<1>1. DOMAIN ids2 = DOMAIN ids \ S /\ \A id \in DOMAIN ids \ S : ids2[id] = ids[id]
  BY DEF Without, Restrict
<1>2. /\ DOMAIN sessions2 = DOMAIN sessions \ gone
      /\ \A s \in DOMAIN sessions \ gone : sessions2[s] = sessions[s]
  <2> HIDE DEF gone
  <2>1. QED
    BY DEF Without, Restrict
<1>3. \A s \in DOMAIN sessions : s \in gone <=> sessions[s] \in S
  BY DEF Holding
<1> HIDE DEF ids2, sessions2, gone
<1>4. Indexed(ids2, sessions2)
  BY <1>1, <1>2, <1>3 DEF Indexed
<1>5. QED
  BY <1>4 DEF ids2, sessions2, gone

\* The session of one question.
LEMMA HoldingOne ==
    ASSUME NEW ids, NEW sessions, NEW id \in DOMAIN ids, Indexed(ids, sessions)
    PROVE  Holding(sessions, {id}) = {ids[id].session}
  BY DEF Indexed, Holding

LEMMA AddIndexed ==
    ASSUME NEW ids, NEW sessions, NEW id, NEW q, Indexed(ids, sessions),
           id \notin DOMAIN ids, q.session \notin DOMAIN sessions
    PROVE  Indexed(With(ids, id, q), With(sessions, q.session, id))
<1> DEFINE ids2 == With(ids, id, q)
           sessions2 == With(sessions, q.session, id)
<1>1. /\ DOMAIN ids2 = DOMAIN ids \cup {id} /\ ids2[id] = q
      /\ \A x \in DOMAIN ids \ {id} : ids2[x] = ids[x]
      /\ DOMAIN sessions2 = DOMAIN sessions \cup {q.session} /\ sessions2[q.session] = id
      /\ \A s \in DOMAIN sessions \ {q.session} : sessions2[s] = sessions[s]
  BY DEF With
<1> HIDE DEF ids2, sessions2
<1>2. Indexed(ids2, sessions2)
  BY <1>1 DEF Indexed
<1>3. QED
  BY <1>2 DEF ids2, sessions2

LEMMA RemoveResolvable ==
    ASSUME NEW ids, NEW convs, NEW n, NEW S, Resolvable(ids, convs, n)
    PROVE  Resolvable(Without(ids, S), convs, n)
  BY DEF Without, Restrict, Resolvable

LEMMA AddResolvable ==
    ASSUME NEW ids, NEW convs, NEW n \in Ids, NEW q, Resolvable(ids, convs, n),
           WellFormed(q), ConversationOf(q) \in DOMAIN convs,
           FitsIn(q, convs[ConversationOf(q)])
    PROVE  Resolvable(With(ids, n, q), convs, n + 1)
<1> DEFINE ids2 == With(ids, n, q)
<1>1. /\ DOMAIN ids2 = DOMAIN ids \cup {n} /\ ids2[n] = q
      /\ \A x \in DOMAIN ids \ {n} : ids2[x] = ids[x]
  BY DEF With
<1> HIDE DEF ids2
<1>2. \A id \in Ids : id < n => id < n + 1
  BY DEF Ids
<1>3. n < n + 1
  BY DEF Ids
<1>4. Resolvable(ids2, convs, n + 1)
  BY <1>1, <1>2, <1>3 DEF Resolvable
<1>5. QED
  BY <1>4 DEF ids2

\* Conversations that no question is about may change.
LEMMA OtherConversations ==
    ASSUME NEW ids, NEW convs, NEW convs2, NEW n, Resolvable(ids, convs, n),
           \A id \in DOMAIN ids :
               /\ ConversationOf(ids[id]) \in DOMAIN convs =>
                      ConversationOf(ids[id]) \in DOMAIN convs2
               /\ convs2[ConversationOf(ids[id])] = convs[ConversationOf(ids[id])]
    PROVE  Resolvable(ids, convs2, n)
  BY DEF Resolvable

LEMMA SetSound ==
    ASSUME NEW convs, NEW c, NEW v, AllSound(convs), Sound(c, v)
    PROVE  AllSound(With(convs, c, v))
<1> DEFINE convs2 == With(convs, c, v)
<1>1. /\ DOMAIN convs2 = DOMAIN convs \cup {c} /\ convs2[c] = v
      /\ \A x \in DOMAIN convs \ {c} : convs2[x] = convs[x]
  BY DEF With
<1> HIDE DEF convs2
<1>2. AllSound(convs2)
  BY <1>1 DEF AllSound
<1>3. QED
  BY <1>2 DEF convs2

LEMMA RemoveSound ==
    ASSUME NEW convs, NEW C, AllSound(convs)
    PROVE  AllSound(Without(convs, C))
  BY DEF Without, Restrict, AllSound

-----------------------------------------------------------------------------
(* Replay guards                                                           *)

LEMMA IdsAreFinite ==
    /\ IsFiniteSet(Ids) /\ Ids \subseteq Nat
    /\ \A S \in SUBSET Ids : IsFiniteSet(S) /\ Cardinality(S) \in Nat
<1>1. MaxId \in Nat
  BY LimitsAreNumbers
<1>2. IsFiniteSet(Ids) /\ Ids \subseteq Nat
  BY <1>1, FS_Interval DEF Ids
<1>3. ASSUME NEW S \in SUBSET Ids PROVE IsFiniteSet(S) /\ Cardinality(S) \in Nat
  BY <1>2, FS_Subset, FS_CardinalityType
<1>4. QED
  BY <1>2, <1>3

\* Among some numbers there is a smallest.
LEMMA Smallest ==
    ASSUME NEW S \in SUBSET Nat, S # {}
    PROVE  \E n \in S : \A m \in S : n <= m
<1>1. PICK n \in S : \A m \in S : ~(<<m, n>> \in OpToRel(<, Nat))
  BY NatLessThanWellFounded, WFMin
<1>2. ASSUME NEW m \in S PROVE n <= m
  <2>1. m \in Nat /\ n \in Nat /\ ~(<<m, n>> \in {ss \in Nat \X Nat : ss[1] < ss[2]})
    BY <1>1 DEF OpToRel
  <2>2. QED
    BY <2>1
<1>3. QED
  BY <1>2

TypedGuards(guards) == \A m \in DOMAIN guards : m \in Ids /\ guards[m] \in RetiredIds

\* Of the guards of a session, one is the oldest.
LEMMA OldestExists ==
    ASSUME NEW guards, TypedGuards(guards), NEW own \in SUBSET DOMAIN guards, own # {}
    PROVE  \E n \in own : \A m \in own \ {n} : Older(guards, n, m)
<1>1. own \subseteq Nat /\ \A n \in own : guards[n].age \in 0 .. Ttl
  BY IdsAreFinite DEF TypedGuards, RetiredIds
<1>2. Ttl \in Nat
  BY LimitsAreNumbers
<1> DEFINE Youth(n) == Ttl - guards[n].age
           youths == {Youth(n) : n \in own}
<1>3. \A n \in own : Youth(n) \in Nat
  BY <1>1, <1>2
<1>4. PICK y \in youths : \A z \in youths : y <= z
  <2>1. youths \in SUBSET Nat /\ youths # {}
    BY <1>3
  <2> HIDE DEF youths
  <2>2. QED
    BY <2>1, Smallest
<1> DEFINE first == {n \in own : Youth(n) = y}
<1>5. PICK n \in first : \A m \in first : n <= m
  <2>1. first \in SUBSET Nat /\ first # {}
    BY <1>1, <1>4
  <2> HIDE DEF first
  <2>2. QED
    BY <2>1, Smallest
<1>6. ASSUME NEW m \in own \ {n} PROVE Older(guards, n, m)
  <2>1. n \in own /\ n \in Nat /\ m \in Nat /\ Youth(n) = y /\ y <= Youth(m)
    BY <1>1, <1>4, <1>5
  <2>2. guards[n].age \in Nat /\ guards[m].age \in Nat
    BY <1>1, <1>2, <2>1
  <2>3. guards[m].age <= guards[n].age
    BY <1>2, <2>1, <2>2
  <2>4. CASE guards[m].age = guards[n].age
    <3>1. m \in first
      BY <2>1, <2>4
    <3>2. n < m
      BY <1>5, <1>6, <2>1, <3>1
    <3>3. QED
      BY <2>4, <3>2 DEF Older
  <2>5. QED
    BY <2>2, <2>3, <2>4 DEF Older
<1>7. QED
  BY <1>5, <1>6

Trimmed(more) == Without(more, {n \in DOMAIN more : Surplus(more, n)})

\* Trimming takes the oldest guard of a session that has one too many, and nothing else.
LEMMA TrimSession ==
    ASSUME NEW more, TypedGuards(more), NEW s \in Sessions,
           Cardinality(GuardsOf(more, s)) <= MaxRetired + 1
    PROVE  LET own == GuardsOf(more, s)
               rest == GuardsOf(Trimmed(more), s)
           IN \/ Cardinality(own) <= MaxRetired /\ rest = own
              \/ \E n \in own : /\ \A m \in own \ {n} : Older(more, n, m)
                                /\ rest = own \ {n} /\ Cardinality(rest) = MaxRetired
<1> DEFINE own == GuardsOf(more, s)
           rest == GuardsOf(Trimmed(more), s)
           Oldest(n) == \A m \in own \ {n} : Older(more, n, m)
<1>1. own \subseteq DOMAIN more /\ IsFiniteSet(own) /\ Cardinality(own) \in Nat
      /\ MaxRetired \in Nat
  <2>1. own \in SUBSET Ids /\ own \subseteq DOMAIN more
    BY DEF TypedGuards, GuardsOf
  <2>2. QED
    BY <2>1, IdsAreFinite, LimitsAreNumbers
<1>2. \A n \in own : more[n].session = s
  BY DEF GuardsOf
<1>3. rest = {n \in own : ~Surplus(more, n)}
  BY DEF GuardsOf, Trimmed, Without, Restrict
<1>4. \A n \in own : Surplus(more, n) <=> Cardinality(own) > MaxRetired /\ Oldest(n)
  BY <1>2 DEF Surplus
<1>5. CASE Cardinality(own) <= MaxRetired
  <2>1. rest = own
    BY <1>1, <1>3, <1>4, <1>5
  <2>2. QED
    BY <1>5, <2>1
<1>6. CASE Cardinality(own) = MaxRetired + 1
  <2>1. own # {}
    BY <1>1, <1>6, FS_EmptySet
  <2>2. PICK n \in own : Oldest(n)
    BY <1>1, <2>1, OldestExists
  <2>3. \A m \in own \ {n} : ~Oldest(m)
    <3> SUFFICES ASSUME NEW m \in own \ {n}, Older(more, m, n) PROVE FALSE
      OBVIOUS
    <3>1. Older(more, n, m)
      BY <2>2
    <3>2. more[n].age \in Nat /\ more[m].age \in Nat /\ n \in Nat /\ m \in Nat
      <4>1. more[n].age \in 0 .. Ttl /\ more[m].age \in 0 .. Ttl /\ n \in Ids /\ m \in Ids
        BY <1>1 DEF TypedGuards, RetiredIds
      <4>2. QED
        BY <4>1, IdsAreFinite, LimitsAreNumbers
    <3>3. QED
      BY <3>1, <3>2 DEF Older
  <2>4. rest = own \ {n}
    BY <1>1, <1>3, <1>4, <1>6, <2>2, <2>3
  <2>5. Cardinality(rest) = MaxRetired
    <3> HIDE DEF own, rest
    <3>1. Cardinality(own \ {n}) = Cardinality(own) - 1
      BY <1>1, <2>2, FS_RemoveElement
    <3>2. QED
      BY <1>1, <1>6, <2>4, <3>1
  <2>6. QED
    BY <2>2, <2>4, <2>5
<1>7. QED
  BY <1>1, <1>5, <1>6

\* The guards with those of the questions S added, before the bound is applied.
Extended(guards, S, reason) ==
    [n \in DOMAIN guards \cup S |->
        IF n \in S
        THEN [session |-> pending_by_id[n].session, reason |-> reason, age |-> 0]
        ELSE guards[n]]

LEMMA RetireIs ==
    ASSUME NEW guards, NEW S, NEW reason
    PROVE  Retire(guards, S, reason) = Trimmed(Extended(guards, S, reason))
  BY DEF Retire, Trimmed, Extended

\* A guard that is lost was old, or gave way to MaxRetired that are no older.
Outlived(guards, guards2) ==
    \A m \in DOMAIN guards :
        LET own == GuardsOf(guards2, guards[m].session)
        IN \/ guards[m].age >= Ttl
           \/ m \in own
           \/ /\ Cardinality(own) = MaxRetired
              /\ \A n \in own : guards2[n].age <= guards[m].age

\* What it takes to turn the questions S of ids into guards.
Retirable(guards, ids, S, n) ==
    /\ GuardsFit(guards, ids, n) /\ S \subseteq DOMAIN ids
    /\ \A id \in DOMAIN ids : id \in Ids /\ id < n /\ ids[id].session \in Sessions
    /\ \A id \in S : ids[id].session = pending_by_id[id].session
    /\ \A x, y \in DOMAIN ids : ids[x].session = ids[y].session => x = y

LEMMA RetireSession ==
    ASSUME NEW guards, NEW ids, NEW S, NEW n, Retirable(guards, ids, S, n),
           NEW reason \in {"replay", "expired"}, NEW s \in Sessions
    PROVE  LET before == GuardsOf(guards, s)
               new == {id \in S : ids[id].session = s}
               guards2 == Retire(guards, S, reason)
               own == GuardsOf(guards2, s)
           IN /\ Cardinality(own) <= MaxRetired
              /\ new \subseteq own /\ own \subseteq before \cup new
              /\ \/ own = before \cup new
                 \/ \E m \in before :
                       /\ own = (before \cup new) \ {m}
                       /\ new # {} /\ Cardinality(own) = MaxRetired
                       /\ \A k \in own : guards2[k].age <= guards[m].age
<1> DEFINE more == Extended(guards, S, reason)
           guards2 == Trimmed(more)
           before == GuardsOf(guards, s)
           new == {id \in S : ids[id].session = s}
           own == GuardsOf(guards2, s)
<1>1. /\ DOMAIN more = DOMAIN guards \cup S
      /\ \A id \in S : more[id] = [session |-> ids[id].session, reason |-> reason, age |-> 0]
      /\ \A m \in DOMAIN guards : m \notin S /\ more[m] = guards[m]
  BY DEF Extended, Retirable, GuardsFit
<1>2. /\ MaxRetired \in Nat \ {0} /\ Ttl \in Nat \ {0}
      /\ \A m \in DOMAIN guards : m \in Ids /\ guards[m] \in RetiredIds
      /\ \A id \in S : id \in Ids /\ ids[id].session \in Sessions
      /\ Cardinality(before) <= MaxRetired
  BY LimitsAreNumbers DEF Retirable, GuardsFit
<1>3. TypedGuards(more)
  BY <1>1, <1>2 DEF TypedGuards, RetiredIds
<1>4. \A m \in DOMAIN guards2 : m \in DOMAIN more /\ guards2[m] = more[m]
  BY DEF Trimmed, Without, Restrict
<1>5. \A id \in S : more[id].session = ids[id].session /\ more[id].age = 0
  BY <1>1
<1> HIDE DEF more
<1>6. GuardsOf(more, s) = before \cup new
  BY <1>1, <1>5 DEF GuardsOf
<1>7. IsFiniteSet(before) /\ Cardinality(before) \in Nat
  <2>1. before \in SUBSET Ids
    BY <1>2 DEF GuardsOf
  <2>2. QED
    BY <2>1, IdsAreFinite
<1>8. new = {} \/ \E id \in S : new = {id} /\ ids[id].session = s
  BY DEF Retirable
<1>9. Cardinality(before \cup new) <= MaxRetired + 1
      /\ (new = {} => Cardinality(before \cup new) <= MaxRetired)
  <2>1. CASE new = {}
    <3> HIDE DEF before, new
    <3>1. before \cup new = before
      BY <2>1
    <3>2. Cardinality(before) <= MaxRetired /\ MaxRetired \in Nat
      BY <1>2
    <3>3. QED
      BY <1>7, <3>1, <3>2
  <2>2. CASE \E id \in S : new = {id}
    <3>1. PICK id \in S : new = {id}
      BY <2>2
    <3> HIDE DEF before, new
    <3>2. Cardinality(before \cup {id}) \in {Cardinality(before), Cardinality(before) + 1}
      BY <1>7, FS_AddElement
    <3>3. QED
      BY <1>2, <1>7, <3>1, <3>2
  <2>3. QED
    BY <1>8, <2>1, <2>2
<1>10. \/ Cardinality(before \cup new) <= MaxRetired /\ own = before \cup new
       \/ \E m \in before \cup new :
             /\ \A k \in (before \cup new) \ {m} : Older(more, m, k)
             /\ own = (before \cup new) \ {m} /\ Cardinality(own) = MaxRetired
  <2>1. Cardinality(GuardsOf(more, s)) <= MaxRetired + 1
    BY <1>6, <1>9
  <2> HIDE DEF before, new
  <2>2. QED
    BY <1>3, <1>6, <2>1, TrimSession
<1>11. ASSUME NEW m \in before \cup new,
              \A k \in (before \cup new) \ {m} : Older(more, m, k),
              own = (before \cup new) \ {m}, Cardinality(own) = MaxRetired
       PROVE  /\ m \in before /\ new # {} /\ \A k \in own : guards2[k].age <= guards[m].age
              /\ new \subseteq own
  <2>1. new # {}
    <3>1. Cardinality(before \cup new) = Cardinality(own) + 1
      <4>1. IsFiniteSet(before \cup new) /\ Cardinality(before \cup new) \in Nat
        <5>1. before \cup new \in SUBSET Ids
          BY <1>2 DEF GuardsOf
        <5>2. QED
          BY <5>1, IdsAreFinite
      <4> HIDE DEF before, new, own
      <4>2. Cardinality((before \cup new) \ {m}) = Cardinality(before \cup new) - 1
        BY <1>11, <4>1, FS_RemoveElement
      <4>3. QED
        BY <1>11, <4>1, <4>2
    <3>2. QED
      BY <1>2, <1>9, <1>11, <3>1
  <2>2. PICK id \in S : new = {id} /\ ids[id].session = s
    BY <1>8, <2>1
  <2>3. \A k \in before : k \in Nat /\ id \in Nat /\ k < id /\ guards[k].age \in Nat
    <3>1. \A k \in before : k < id
      BY <2>2 DEF Retirable, GuardsFit, GuardsOf
    <3>2. \A k \in before : k \in Ids /\ guards[k].age \in 0 .. Ttl
      BY <1>2 DEF GuardsOf, RetiredIds
    <3>3. id \in Nat /\ Ids \subseteq Nat
      BY <1>2, IdsAreFinite
    <3>4. \A a \in 0 .. Ttl : a \in Nat
      BY <1>2
    <3>5. QED
      BY <3>1, <3>2, <3>3, <3>4
  <2>4. m # id
    <3> SUFFICES ASSUME m = id PROVE FALSE
      OBVIOUS
    <3>1. before # {}
      <4>1. own # {}
        <5>1. Cardinality(own) # 0
          BY <1>2, <1>11
        <5>2. QED
          BY <5>1, FS_EmptySet
      <4>2. QED
        BY <1>11, <2>2, <4>1
    <3>2. PICK k \in before : TRUE
      BY <3>1
    <3>3. Older(more, id, k)
      BY <1>11, <2>2, <2>3, <3>2
    <3>4. more[id].age = 0 /\ more[k].age = guards[k].age
      BY <1>1, <1>5, <3>2 DEF GuardsOf
    <3>5. QED
      BY <2>3, <3>2, <3>3, <3>4 DEF Older
  <2>5. m \in before /\ new \subseteq own
    BY <1>11, <2>2, <2>4
  <2>6. ASSUME NEW k \in own PROVE guards2[k].age <= guards[m].age
    <3>1. Older(more, m, k)
      BY <1>11, <2>6
    <3>2. guards2[k].age = more[k].age /\ more[m].age = guards[m].age
      BY <1>1, <1>4, <2>5, <2>6 DEF GuardsOf
    <3>3. more[k].age \in Nat /\ more[m].age \in Nat
      <4>1. k \in DOMAIN more /\ m \in DOMAIN more
        BY <1>1, <1>4, <2>5, <2>6 DEF GuardsOf
      <4>2. more[k].age \in 0 .. Ttl /\ more[m].age \in 0 .. Ttl
        BY <1>3, <4>1 DEF TypedGuards, RetiredIds
      <4>3. QED
        BY <1>2, <4>2
    <3>4. QED
      BY <3>1, <3>2, <3>3 DEF Older
  <2>7. QED
    BY <2>1, <2>5, <2>6
<1>12. Retire(guards, S, reason) = guards2
  BY RetireIs DEF more
<1>13. /\ Cardinality(own) <= MaxRetired
       /\ new \subseteq own /\ own \subseteq before \cup new
       /\ \/ own = before \cup new
          \/ \E m \in before :
                /\ own = (before \cup new) \ {m}
                /\ new # {} /\ Cardinality(own) = MaxRetired
                /\ \A k \in own : guards2[k].age <= guards[m].age
  <2> HIDE DEF before, new, own, guards2
  <2>1. CASE Cardinality(before \cup new) <= MaxRetired /\ own = before \cup new
    BY <2>1
  <2>2. CASE \E m \in before \cup new :
             /\ \A k \in (before \cup new) \ {m} : Older(more, m, k)
             /\ own = (before \cup new) \ {m} /\ Cardinality(own) = MaxRetired
    <3>1. PICK m \in before \cup new :
             /\ \A k \in (before \cup new) \ {m} : Older(more, m, k)
             /\ own = (before \cup new) \ {m} /\ Cardinality(own) = MaxRetired
      BY <2>2
    <3>2. /\ m \in before /\ new # {} /\ \A k \in own : guards2[k].age <= guards[m].age
          /\ new \subseteq own
      BY <1>11, <3>1
    <3>3. Cardinality(own) <= MaxRetired
      BY <1>2, <3>1
    <3>4. QED
      BY <3>1, <3>2, <3>3
  <2>3. QED
    BY <1>10, <2>1, <2>2
<1>14. QED
  BY <1>12, <1>13

LEMMA RetireFits ==
    ASSUME NEW guards, NEW ids, NEW S, NEW n, Retirable(guards, ids, S, n),
           NEW reason \in {"replay", "expired"}
    PROVE  /\ GuardsFit(Retire(guards, S, reason), Without(ids, S), n)
           /\ Outlived(guards, Retire(guards, S, reason))
<1> DEFINE guards2 == Retire(guards, S, reason)
           ids2 == Without(ids, S)
<1>1. /\ DOMAIN guards2 \subseteq DOMAIN guards \cup S
      /\ \A id \in S : id \in DOMAIN guards2 =>
             guards2[id] = [session |-> ids[id].session, reason |-> reason, age |-> 0]
      /\ \A m \in DOMAIN guards2 : m \notin S => guards2[m] = guards[m]
  BY DEF Retire, Without, Restrict, Retirable
<1>2. DOMAIN ids2 = DOMAIN ids \ S /\ \A id \in DOMAIN ids2 : ids2[id] = ids[id]
  BY DEF Without, Restrict
<1>3. /\ Ttl \in Nat /\ 0 \in 0 .. Ttl
      /\ \A id \in S : [session |-> ids[id].session, reason |-> reason, age |-> 0] \in RetiredIds
  BY LimitsAreNumbers DEF Retirable, RetiredIds
<1>4. \A s \in Sessions : Cardinality(GuardsOf(guards2, s)) <= MaxRetired
  BY RetireSession
<1>5. ASSUME NEW m \in DOMAIN guards
      PROVE  LET own == GuardsOf(guards2, guards[m].session)
             IN \/ m \in own
                \/ /\ Cardinality(own) = MaxRetired
                   /\ \A k \in own : guards2[k].age <= guards[m].age
  <2> DEFINE s == guards[m].session
             before == GuardsOf(guards, s)
             new == {id \in S : ids[id].session = s}
             own == GuardsOf(guards2, s)
  <2>1. s \in Sessions /\ m \in before
    BY DEF Retirable, GuardsFit, RetiredIds, GuardsOf
  <2>2. \/ own = before \cup new
        \/ \E k \in before :
              /\ own = (before \cup new) \ {k} /\ Cardinality(own) = MaxRetired
              /\ \A x \in own : guards2[x].age <= guards[k].age
    <3>1. s \in Sessions
      BY <2>1
    <3> HIDE DEF s
    <3>2. QED
      BY <3>1, RetireSession
  <2> HIDE DEF before, own, s
  <2>3. m \in own \/ (Cardinality(own) = MaxRetired
                      /\ \A k \in own : guards2[k].age <= guards[m].age)
    BY <2>1, <2>2
  <2>4. QED
    BY <2>3 DEF own, s
<1> HIDE DEF guards2, ids2
<1>6. Outlived(guards, guards2)
  BY <1>5 DEF Outlived
<1>7. GuardsFit(guards2, ids2, n)
  <2>1. \A m \in DOMAIN guards2 : m \in Ids /\ m < n /\ guards2[m] \in RetiredIds
    BY <1>1, <1>3 DEF Retirable, GuardsFit
  <2>2. ASSUME NEW id \in DOMAIN ids2, NEW m \in DOMAIN guards2
        PROVE  m # id /\ (guards2[m].session = ids2[id].session => m < id)
    <3>1. id \in DOMAIN ids /\ id \notin S /\ ids2[id] = ids[id]
      BY <1>2
    <3>2. CASE m \in S
      <4>1. m # id /\ guards2[m].session = ids[m].session /\ m \in DOMAIN ids
        BY <1>1, <3>1, <3>2 DEF Retirable
      <4>2. QED
        BY <3>1, <3>2, <4>1 DEF Retirable
    <3>3. CASE m \notin S
      BY <1>1, <3>1, <3>3 DEF Retirable, GuardsFit
    <3>4. QED
      BY <3>2, <3>3
  <2>3. QED
    BY <1>4, <2>1, <2>2 DEF GuardsFit
<1>8. QED
  BY <1>6, <1>7 DEF guards2, ids2

\* A guard of a question that is retired is there, fresh, after the bound is applied.
LEMMA RetireGuards ==
    ASSUME NEW guards, NEW ids, NEW S, NEW n, Retirable(guards, ids, S, n),
           NEW reason \in {"replay", "expired"}, NEW id \in S
    PROVE  /\ id \in DOMAIN Retire(guards, S, reason)
           /\ Retire(guards, S, reason)[id]
                  = [session |-> ids[id].session, reason |-> reason, age |-> 0]
<1>1. ids[id].session \in Sessions
  BY DEF Retirable
<1>2. id \in GuardsOf(Retire(guards, S, reason), ids[id].session)
  BY <1>1, RetireSession
<1>3. id \in DOMAIN Retire(guards, S, reason)
  BY <1>2 DEF GuardsOf
<1>4. QED
  BY <1>3 DEF Retire, Without, Restrict, Retirable

\* The guards of a session none of whose questions is retired stay as they are.
LEMMA RetireSpares ==
    ASSUME NEW guards, NEW ids, NEW S, NEW n, Retirable(guards, ids, S, n),
           NEW reason \in {"replay", "expired"}, NEW s \in Sessions,
           \A id \in S : ids[id].session # s
    PROVE  /\ GuardsOf(Retire(guards, S, reason), s) = GuardsOf(guards, s)
           /\ \A m \in GuardsOf(guards, s) : Retire(guards, S, reason)[m] = guards[m]
<1>1. GuardsOf(Retire(guards, S, reason), s) = GuardsOf(guards, s)
  <2> DEFINE before == GuardsOf(guards, s)
             new == {id \in S : ids[id].session = s}
             own == GuardsOf(Retire(guards, S, reason), s)
  <2>1. new = {}
    OBVIOUS
  <2>2. \/ own = before \cup new
        \/ \E m \in before : new # {}
    BY RetireSession
  <2> HIDE DEF before, new, own
  <2>3. own = before
    BY <2>1, <2>2
  <2>4. QED
    BY <2>3 DEF before, own
<1>2. ASSUME NEW m \in GuardsOf(guards, s) PROVE Retire(guards, S, reason)[m] = guards[m]
  <2>1. m \in DOMAIN Retire(guards, S, reason) /\ m \in DOMAIN guards
    BY <1>1, <1>2 DEF GuardsOf
  <2>2. m \notin S
    BY <2>1 DEF Retirable, GuardsFit
  <2>3. QED
    BY <2>1, <2>2 DEF Retire, Without, Restrict
<1>3. QED
  BY <1>1, <1>2

\* Guards that are removed leave the rest within its bound.
LEMMA FewerGuards ==
    ASSUME NEW guards, NEW ids, NEW n, NEW M, GuardsFit(guards, ids, n)
    PROVE  GuardsFit(Without(guards, M), ids, n)
<1> DEFINE guards2 == Without(guards, M)
<1>1. DOMAIN guards2 \subseteq DOMAIN guards /\ \A m \in DOMAIN guards2 : guards2[m] = guards[m]
  BY DEF Without, Restrict
<1> HIDE DEF guards2
<1>2. ASSUME NEW s \in Sessions PROVE Cardinality(GuardsOf(guards2, s)) <= MaxRetired
  <2> DEFINE old == GuardsOf(guards, s)
             own == GuardsOf(guards2, s)
  <2>1. own \in SUBSET old /\ old \in SUBSET Ids
    BY <1>1 DEF GuardsOf, GuardsFit
  <2>2. Cardinality(old) <= MaxRetired
    BY DEF GuardsFit
  <2> HIDE DEF old, own
  <2>3. IsFiniteSet(old) /\ Cardinality(old) \in Nat /\ Cardinality(own) \in Nat
    <3>1. own \in SUBSET Ids
      BY <2>1
    <3>2. QED
      BY <2>1, <3>1, IdsAreFinite
  <2>4. Cardinality(own) <= Cardinality(old)
    BY <2>1, <2>3, FS_Subset
  <2>5. Cardinality(own) <= MaxRetired
    BY <2>2, <2>3, <2>4, LimitsAreNumbers
  <2>6. QED
    BY <2>5 DEF own
<1>3. GuardsFit(guards2, ids, n)
  BY <1>1, <1>2 DEF GuardsFit
<1>4. QED
  BY <1>3 DEF guards2

\* The sweep: expired questions become guards, and guards of one TTL are purged.
LEMMA PurgeKeeps ==
    ASSUME NEW guards, NEW guards2, NEW ids, NEW n,
           GuardsFit(guards2, ids, n), Outlived(guards, guards2),
           \A m \in DOMAIN guards \cap DOMAIN guards2 : guards2[m] = guards[m],
           \A m \in DOMAIN guards : m \in Ids /\ guards[m] \in RetiredIds
    PROVE  GuardsFit(Purge(guards2), ids, n) /\ Outlived(guards, Purge(guards2))
<1> DEFINE guards3 == Purge(guards2)
<1>1. GuardsFit(guards3, ids, n)
  BY FewerGuards DEF Purge
<1>2. /\ \A m \in DOMAIN guards2 : guards2[m].age \in Nat
      /\ \A m \in DOMAIN guards : guards[m].age \in Nat
      /\ Ttl \in Nat
  <2>1. \A a \in 0 .. Ttl : a \in Nat
    BY LimitsAreNumbers
  <2>2. QED
    BY <2>1, LimitsAreNumbers DEF GuardsFit, RetiredIds
<1>3. /\ DOMAIN guards3 = {m \in DOMAIN guards2 : guards2[m].age < Ttl}
      /\ \A m \in DOMAIN guards3 : guards3[m] = guards2[m]
  BY <1>2 DEF Purge, Without, Restrict
<1> HIDE DEF guards3
<1>4. ASSUME NEW m \in DOMAIN guards, guards[m].age < Ttl
      PROVE  LET own == GuardsOf(guards3, guards[m].session)
             IN \/ m \in own
                \/ /\ Cardinality(own) = MaxRetired
                   /\ \A k \in own : guards3[k].age <= guards[m].age
  <2> DEFINE own2 == GuardsOf(guards2, guards[m].session)
             own3 == GuardsOf(guards3, guards[m].session)
  <2>1. ~(guards[m].age >= Ttl)
    BY <1>2, <1>4
  <2>2. CASE m \in own2
    <3>1. m \in DOMAIN guards2 /\ guards2[m] = guards[m]
      BY <2>2 DEF GuardsOf
    <3>2. m \in own3
      BY <1>3, <1>4, <3>1 DEF GuardsOf
    <3>3. QED
      BY <3>2
  <2>3. CASE Cardinality(own2) = MaxRetired /\ \A k \in own2 : guards2[k].age <= guards[m].age
    <3>1. \A k \in own2 : k \in DOMAIN guards2 /\ guards2[k].age < Ttl
      BY <1>2, <1>4, <2>3 DEF GuardsOf
    <3>2. own3 = own2
      BY <1>3, <3>1 DEF GuardsOf
    <3>3. \A k \in own3 : guards3[k].age <= guards[m].age
      BY <1>3, <2>3, <3>2 DEF GuardsOf
    <3>4. QED
      BY <2>3, <3>2, <3>3
  <2>4. QED
    BY <2>1, <2>2, <2>3 DEF Outlived
<1>5. Outlived(guards, guards3)
  BY <1>2, <1>4 DEF Outlived
<1>6. QED
  BY <1>1, <1>5 DEF guards3

-----------------------------------------------------------------------------
(* The sweep                                                               *)

LEMMA Uniquely ==
    ASSUME NEW ids, NEW sessions, Indexed(ids, sessions)
    PROVE  \A x, y \in DOMAIN ids : ids[x].session = ids[y].session => x = y
  BY DEF Indexed

LEMMA StoreFacts ==
    ASSUME StoreInv
    PROVE  /\ \A id \in DOMAIN pending_by_id :
                 /\ id \in Ids /\ id < next_id /\ pending_by_id[id] \in Questions
                 /\ pending_by_id[id].session \in Sessions
           /\ DOMAIN pending_by_session \subseteq Sessions
           /\ \A s \in DOMAIN pending_by_session :
                 /\ pending_by_session[s] \in DOMAIN pending_by_id
                 /\ pending_by_id[pending_by_session[s]].session = s
           /\ \A m \in DOMAIN retired :
                 m \in Ids /\ m < next_id /\ retired[m] \in RetiredIds
  BY DEF StoreInv, Resolvable, WellFormed, Questions, Indexed, GuardsFit

\* Any questions of the store can be retired at once.
LEMMA AllRetirable ==
    ASSUME StoreInv, NEW S, S \subseteq DOMAIN pending_by_id
    PROVE  Retirable(retired, pending_by_id, S, next_id)
<1>1. \A x, y \in DOMAIN pending_by_id :
         pending_by_id[x].session = pending_by_id[y].session => x = y
  BY Uniquely DEF StoreInv
<1>2. QED
  BY <1>1, StoreFacts DEF Retirable, StoreInv

LEMMA SweepFits ==
    ASSUME StoreInv
    PROVE  /\ Indexed(SweptIds, SweptSessions)
           /\ Resolvable(SweptIds, conversations, next_id)
           /\ GuardsFit(SweptRetired, SweptIds, next_id)
           /\ Outlived(retired, SweptRetired)
           /\ ErasedStay(revoked_sessions, SweptSessions, conversations)
           /\ DOMAIN SweptIds = DOMAIN pending_by_id \ ExpiredIds
           /\ \A id \in DOMAIN SweptIds : SweptIds[id] = pending_by_id[id]
           /\ DOMAIN SweptSessions =
                 {s \in DOMAIN pending_by_session : pending_by_session[s] \notin ExpiredIds}
           /\ \A s \in DOMAIN SweptSessions : SweptSessions[s] = pending_by_session[s]
           /\ ExpiredIds \subseteq DOMAIN pending_by_id
           /\ \A id \in ExpiredIds : pending_by_id[id].owner = None
<1>1. ExpiredIds \subseteq DOMAIN pending_by_id
      /\ \A id \in ExpiredIds : pending_by_id[id].owner = None
  BY DEF ExpiredIds, Expirable
<1>2. SweptSessions = Without(pending_by_session, Holding(pending_by_session, ExpiredIds))
  BY DEF SweptSessions, Holding
<1>3. Indexed(SweptIds, SweptSessions)
  BY <1>2, RemoveIndexed DEF SweptIds, StoreInv
<1>4. Resolvable(SweptIds, conversations, next_id)
  BY RemoveResolvable DEF SweptIds, StoreInv
<1>5. /\ DOMAIN SweptIds = DOMAIN pending_by_id \ ExpiredIds
      /\ \A id \in DOMAIN SweptIds : SweptIds[id] = pending_by_id[id]
      /\ DOMAIN SweptSessions =
            {s \in DOMAIN pending_by_session : pending_by_session[s] \notin ExpiredIds}
      /\ \A s \in DOMAIN SweptSessions : SweptSessions[s] = pending_by_session[s]
  BY DEF SweptIds, SweptSessions, Without, Restrict
<1>6. ErasedStay(revoked_sessions, SweptSessions, conversations)
  BY <1>5 DEF ErasedStay, StoreInv
<1> DEFINE guards == Retire(retired, ExpiredIds, "expired")
<1>7. Retirable(retired, pending_by_id, ExpiredIds, next_id)
  BY <1>1, AllRetirable
<1>8. GuardsFit(guards, SweptIds, next_id) /\ Outlived(retired, guards)
  BY <1>7, RetireFits DEF SweptIds
<1>9. \A m \in DOMAIN retired \cap DOMAIN guards : guards[m] = retired[m]
  <2>1. \A m \in DOMAIN retired : m \notin ExpiredIds
    BY <1>1 DEF StoreInv, GuardsFit
  <2>2. QED
    BY <2>1 DEF Retire, Without, Restrict
<1>10. GuardsFit(SweptRetired, SweptIds, next_id) /\ Outlived(retired, SweptRetired)
  <2>1. \A m \in DOMAIN retired : m \in Ids /\ retired[m] \in RetiredIds
    BY StoreFacts
  <2> HIDE DEF guards
  <2>2. GuardsFit(Purge(guards), SweptIds, next_id) /\ Outlived(retired, Purge(guards))
    BY <1>8, <1>9, <2>1, PurgeKeeps
  <2>3. QED
    BY <2>2 DEF guards, SweptRetired
<1>11. QED
  BY <1>1, <1>3, <1>4, <1>5, <1>6, <1>10

-----------------------------------------------------------------------------
(* What a step does                                                        *)

\* An identifier is issued only to a question that is open after the step.
IssuesOnce == \/ next_id' = next_id
              \/ next_id' = next_id + 1 /\ next_id \in DOMAIN pending_by_id'

Effects ==
    /\ DecisionsStay /\ ClaimsHonoured /\ GuardsLast /\ IssuesOnce
    /\ \A s \in Sessions : Ledger!SessionStep(s)

\* No conversation changes what it has decided; new ones have decided nothing.
DecidesNothing ==
    /\ \A c \in DOMAIN conversations :
          /\ c \in DOMAIN conversations'
          /\ conversations'[c].decided = conversations[c].decided
          /\ conversations'[c].rounds = conversations[c].rounds
    /\ \A c \in DOMAIN conversations' :
          c \in DOMAIN conversations \/ conversations'[c].decided = {}

\* A step that answers and forgets nothing.
LEMMA QuietStep ==
    ASSUME StoreInv, DecidesNothing, Outlived(retired, retired'),
           \A id \in DOMAIN pending_by_id :
               pending_by_id[id].owner # None => id \in DOMAIN pending_by_id',
           \A id \in DOMAIN pending_by_id' : id \in DOMAIN pending_by_id \/ id = next_id
    PROVE  DecisionsStay /\ ClaimsHonoured /\ GuardsLast
<1>1. DecisionsStay
  <2>1. \A c \in DOMAIN conversations : conversations'[c].rounds >= conversations[c].rounds
    BY DEF DecidesNothing, StoreInv, AllSound, Sound, Conversations
  <2>2. QED
    BY <2>1 DEF DecidesNothing, DecisionsStay
<1>2. ClaimsHonoured
  BY DEF ClaimsHonoured
<1>3. \A id \in DOMAIN pending_by_id : ConversationOf(pending_by_id[id]) \in DOMAIN conversations
  BY DEF StoreInv, Resolvable
<1>4. \A id \in DOMAIN retired : id \notin DOMAIN pending_by_id'
  <2>1. \A id \in DOMAIN retired : id \notin DOMAIN pending_by_id /\ id \in Nat /\ id < next_id
    BY IdsAreFinite DEF StoreInv, GuardsFit
  <2>2. next_id \in Nat
    BY LimitsAreNumbers DEF StoreInv
  <2>3. QED
    BY <2>1, <2>2
<1>5. GuardsLast
  BY <1>3, <1>4 DEF DecidesNothing, GuardsLast, Outlived
<1>6. QED
  BY <1>1, <1>2, <1>5

LEMMA OpenIs ==
    ASSUME NEW s \in Sessions
    PROVE  /\ s \in DOMAIN pending_by_session =>
                 /\ OpenQuestions[s] = pending_by_session[s]
                 /\ Claimants[s] = pending_by_id[pending_by_session[s]].owner
           /\ s \notin DOMAIN pending_by_session => OpenQuestions[s] = 0 /\ Claimants[s] = None
           /\ s \in DOMAIN pending_by_session' =>
                 /\ OpenQuestions'[s] = pending_by_session'[s]
                 /\ Claimants'[s] = pending_by_id'[pending_by_session'[s]].owner
           /\ s \notin DOMAIN pending_by_session' =>
                 OpenQuestions'[s] = 0 /\ Claimants'[s] = None
  BY DEF OpenQuestions, Claimants

LEMMA SettledSame ==
    ASSUME DecidesNothing
    PROVE  Settled' = Settled
<1>1. ASSUME NEW s \in Sessions
      PROVE  UNION {{c} \X conversations'[c].decided : c \in {c \in DOMAIN conversations' : c[1] = s}}
                 = UNION {{c} \X conversations[c].decided : c \in {c \in DOMAIN conversations : c[1] = s}}
  BY DEF DecidesNothing
<1>2. QED
  BY <1>1 DEF Settled, ConversationsOf

\* A session whose question is left alone but for the sweep.
LEMMA SweptSession ==
    ASSUME StoreInv, NEW s \in Sessions, Settled'[s] = Settled[s],
           s \in DOMAIN pending_by_session' <=> s \in DOMAIN SweptSessions,
           s \in DOMAIN SweptSessions =>
               /\ pending_by_session'[s] = SweptSessions[s]
               /\ pending_by_id'[SweptSessions[s]].owner = SweptIds[SweptSessions[s]].owner
    PROVE  Ledger!SessionStep(s)
<1>1. s \in DOMAIN SweptSessions =>
         /\ s \in DOMAIN pending_by_session /\ SweptSessions[s] = pending_by_session[s]
         /\ SweptIds[SweptSessions[s]] = pending_by_id[SweptSessions[s]]
  BY SweepFits DEF Indexed
<1>2. CASE s \in DOMAIN SweptSessions
  <2>1. OpenQuestions'[s] = OpenQuestions[s] /\ Claimants'[s] = Claimants[s]
    BY <1>1, <1>2, OpenIs
  <2>2. QED
    BY <2>1 DEF Ledger!SessionStep, Ledger!Stays
<1>3. CASE s \notin DOMAIN SweptSessions
  <2>1. OpenQuestions'[s] = 0 /\ Claimants'[s] = None
    BY <1>3, OpenIs
  <2>2. QED
    BY <2>1 DEF Ledger!SessionStep, Ledger!Withdraw, Ledger!Becomes
<1>4. QED
  BY <1>2, <1>3

-----------------------------------------------------------------------------
(* Sweeping, asking and claiming                                           *)

\* A sweep, after which a conversation may be opened or marked.
LEMMA SweepWith ==
    ASSUME StoreInv, pending_by_id' = SweptIds, pending_by_session' = SweptSessions,
           retired' = SweptRetired, UNCHANGED <<revoked_sessions, next_id>>,
           DecidesNothing, AllSound(conversations'),
           Resolvable(SweptIds, conversations', next_id),
           ErasedStay(revoked_sessions, SweptSessions, conversations')
    PROVE  StoreInv' /\ Effects
<1>1. StoreInv'
  BY SweepFits DEF StoreInv
<1>2. DecisionsStay /\ ClaimsHonoured /\ GuardsLast
  <2>1. /\ Outlived(retired, retired')
        /\ \A id \in DOMAIN pending_by_id :
               pending_by_id[id].owner # None => id \in DOMAIN pending_by_id'
        /\ \A id \in DOMAIN pending_by_id' : id \in DOMAIN pending_by_id
    BY SweepFits
  <2>2. QED
    BY <2>1, QuietStep
<1>3. ASSUME NEW s \in Sessions PROVE Ledger!SessionStep(s)
  BY <1>3, SettledSame, SweptSession
<1>4. QED
  BY <1>1, <1>2, <1>3 DEF Effects, IssuesOnce

LEMMA SweepExpiredStep ==
    ASSUME StoreInv, SweepExpired
    PROVE  StoreInv' /\ Effects
<1>1. UNCHANGED <<conversations, revoked_sessions, next_id>>
  BY DEF SweepExpired
<1>2. DecidesNothing /\ AllSound(conversations')
      /\ Resolvable(SweptIds, conversations', next_id)
      /\ ErasedStay(revoked_sessions, SweptSessions, conversations')
  BY <1>1, SweepFits DEF DecidesNothing, StoreInv
<1>3. QED
  BY <1>1, <1>2, SweepWith DEF SweepExpired

\* The conversation of a request is sound, also one that is opened now.
LEMMA ConversationSound ==
    ASSUME StoreInv, NEW s \in Sessions, NEW version \in Versions, NEW r \in Requests,
           NEW b \in Bases
    PROVE  Sound(<<s, version, r>>, Conversation(<<s, version, r>>, b))
<1> DEFINE c == <<s, version, r>>
<1>1. CASE c \in DOMAIN conversations
  BY <1>1 DEF Conversation, StoreInv, AllSound
<1>2. CASE c \notin DOMAIN conversations
  <2>1. Conversation(c, b) = NewConversation(b)
    BY <1>2 DEF Conversation
  <2>2. NewConversation(b) \in Conversations /\ NewConversation(b).decided = {}
    BY DEF NewConversation, Conversations
  <2>3. QED
    BY <2>1, <2>2, FS_EmptySet DEF Sound
<1>3. QED
  BY <1>1, <1>2

\* A conversation of a session that is not revoked is set, and no open question is
\* about what changes in it.
LEMMA SetConversation ==
    ASSUME StoreInv, NEW c, NEW v, Sound(c, v), c[1] \notin DOMAIN revoked_sessions,
           conversations' = With(conversations, c, v),
           c \in DOMAIN conversations =>
               v.decided = conversations[c].decided /\ v.rounds = conversations[c].rounds,
           c \notin DOMAIN conversations => v.decided = {}
    PROVE  /\ DecidesNothing /\ AllSound(conversations')
           /\ ErasedStay(revoked_sessions, SweptSessions, conversations')
<1>1. /\ DOMAIN conversations' = DOMAIN conversations \cup {c} /\ conversations'[c] = v
      /\ \A d \in DOMAIN conversations \ {c} : conversations'[d] = conversations[d]
  BY DEF With
<1>2. DecidesNothing
  BY <1>1 DEF DecidesNothing
<1>3. AllSound(conversations')
  BY SetSound DEF StoreInv
<1>4. ErasedStay(revoked_sessions, SweptSessions, conversations')
  BY <1>1, SweepFits DEF ErasedStay
<1>5. QED
  BY <1>2, <1>3, <1>4

LEMMA RefuseStep ==
    ASSUME StoreInv, NEW s \in Sessions, NEW r \in Requests, NEW b \in Bases, NEW k, NEW A,
           RefuseAssumptions(s, r, b, k, A)
    PROVE  StoreInv' /\ Effects
<1> DEFINE c == <<s, "v1", r>>
           v == Conversation(c, b)
<1>1. /\ conversations' = With(conversations, c, v) /\ s \notin DOMAIN revoked_sessions
      /\ pending_by_id' = SweptIds /\ pending_by_session' = SweptSessions
      /\ retired' = SweptRetired /\ UNCHANGED <<revoked_sessions, next_id>>
  BY DEF RefuseAssumptions, Admissible, MayAsk
<1>2. Sound(c, v)
  BY ConversationSound DEF Versions
<1>3. /\ c \in DOMAIN conversations => v = conversations[c]
      /\ c \notin DOMAIN conversations => v.decided = {}
  BY DEF Conversation, NewConversation
<1> HIDE DEF v
<1>4. DecidesNothing /\ AllSound(conversations')
      /\ ErasedStay(revoked_sessions, SweptSessions, conversations')
  BY <1>1, <1>2, <1>3, SetConversation
<1>5. Resolvable(SweptIds, conversations', next_id)
  <2>1. \A d \in DOMAIN conversations :
           d \in DOMAIN conversations' /\ conversations'[d] = conversations[d]
    BY <1>1, <1>3 DEF With
  <2>2. QED
    BY <2>1, SweepFits DEF Resolvable
<1>6. QED
  BY <1>1, <1>4, <1>5, SweepWith

LEMMA ProposalStep ==
    ASSUME StoreInv, NEW s \in Sessions, NEW r \in Requests, SetLatestProposal(s, r)
    PROVE  StoreInv' /\ Effects
<1> DEFINE c == <<s, "v1", r>>
           v == [conversations[c] EXCEPT !.proposal = TRUE]
<1>1. /\ c \in DOMAIN conversations
      /\ conversations' = [conversations EXCEPT ![c] = v]
      /\ pending_by_id' = SweptIds /\ pending_by_session' = SweptSessions
      /\ retired' = SweptRetired /\ UNCHANGED <<revoked_sessions, next_id>>
  BY DEF SetLatestProposal
<1>2. Sound(c, conversations[c])
  BY <1>1 DEF StoreInv, AllSound
<1>3. /\ v.decided = conversations[c].decided /\ v.rounds = conversations[c].rounds
      /\ v.asked = conversations[c].asked /\ v.assumptions = conversations[c].assumptions
      /\ v.basis = conversations[c].basis /\ v \in Conversations
  BY <1>2 DEF Sound, Conversations
<1> HIDE DEF v
<1>4. /\ DOMAIN conversations' = DOMAIN conversations /\ conversations'[c] = v
      /\ \A d \in DOMAIN conversations \ {c} : conversations'[d] = conversations[d]
  BY <1>1
<1>5. Sound(c, v)
  BY <1>2, <1>3 DEF Sound
<1>6. AllSound(conversations')
  BY <1>4, <1>5 DEF StoreInv, AllSound
<1>7. DecidesNothing
  BY <1>3, <1>4 DEF DecidesNothing
<1>8. ErasedStay(revoked_sessions, SweptSessions, conversations')
  BY <1>4, SweepFits DEF ErasedStay
<1>9. Resolvable(SweptIds, conversations', next_id)
  <2>1. \A q : FitsIn(q, conversations[c]) => FitsIn(q, v)
    BY <1>3 DEF FitsIn, Follows, DecisionCount
  <2>2. QED
    BY <1>4, <2>1, SweepFits DEF Resolvable
<1>10. QED
  BY <1>1, <1>6, <1>7, <1>8, <1>9, SweepWith

LEMMA InsertStep ==
    ASSUME StoreInv, NEW q, NEW v, Insert(q, v), WellFormed(q), q.owner = None,
           q.session \notin DOMAIN revoked_sessions, q.session \notin DOMAIN SweptSessions,
           Sound(ConversationOf(q), v), FitsIn(q, v),
           ConversationOf(q) \in DOMAIN conversations =>
               /\ v.decided = conversations[ConversationOf(q)].decided
               /\ v.rounds = conversations[ConversationOf(q)].rounds,
           ConversationOf(q) \notin DOMAIN conversations => v.decided = {}
    PROVE  StoreInv' /\ Effects
<1> DEFINE c == ConversationOf(q)
           s == q.session
<1>1. /\ next_id \in Ids /\ next_id' = next_id + 1
      /\ pending_by_id' = With(SweptIds, next_id, q)
      /\ pending_by_session' = With(SweptSessions, s, next_id)
      /\ conversations' = With(conversations, c, v)
      /\ retired' = SweptRetired /\ UNCHANGED revoked_sessions
  BY DEF Insert
<1>2. /\ MaxId \in Nat /\ next_id \in 1 .. MaxId /\ Ids = 1 .. MaxId
      /\ s \in Sessions /\ c[1] = s
  BY <1>1, LimitsAreNumbers DEF Ids, WellFormed, Questions, ConversationOf
<1>3. /\ \A id \in DOMAIN SweptIds : id \in Ids /\ id < next_id /\ id # next_id
      /\ \A m \in DOMAIN SweptRetired : m \in Ids /\ m < next_id /\ m # next_id
  <2>1. /\ \A id \in DOMAIN SweptIds : id \in Ids /\ id < next_id
        /\ \A m \in DOMAIN SweptRetired : m \in Ids /\ m < next_id
    BY SweepFits DEF Resolvable, GuardsFit
  <2>2. QED
    BY <1>2, <2>1
<1>4. DecidesNothing /\ AllSound(conversations')
      /\ ErasedStay(revoked_sessions, SweptSessions, conversations')
  <2> HIDE DEF c
  <2>1. c[1] \notin DOMAIN revoked_sessions
    BY <1>2
  <2>2. QED
    BY <1>1, <2>1, SetConversation DEF c
<1>5. /\ DOMAIN pending_by_id' = DOMAIN SweptIds \cup {next_id} /\ pending_by_id'[next_id] = q
      /\ \A id \in DOMAIN SweptIds : pending_by_id'[id] = SweptIds[id]
      /\ DOMAIN pending_by_session' = DOMAIN SweptSessions \cup {s}
      /\ pending_by_session'[s] = next_id
      /\ \A x \in DOMAIN SweptSessions : pending_by_session'[x] = SweptSessions[x]
  BY <1>1, <1>3 DEF With
<1>6. Indexed(pending_by_id', pending_by_session')
  BY <1>1, <1>3, SweepFits, AddIndexed
<1>7. Resolvable(SweptIds, conversations', next_id)
  <2>1. \A id \in DOMAIN SweptIds : ConversationOf(SweptIds[id]) # c
    BY <1>2, SweepFits DEF Indexed, ConversationOf
  <2>2. \A d \in DOMAIN conversations \ {c} :
           d \in DOMAIN conversations' /\ conversations'[d] = conversations[d]
    BY <1>1 DEF With
  <2> HIDE DEF c
  <2>3. QED
    BY <2>1, <2>2, SweepFits DEF Resolvable
<1>8. Resolvable(pending_by_id', conversations', next_id')
  <2>1. c \in DOMAIN conversations' /\ conversations'[c] = v
    BY <1>1 DEF With
  <2>2. QED
    BY <1>1, <1>7, <2>1, AddResolvable
<1>9. GuardsFit(retired', pending_by_id', next_id')
  <2>1. \A m \in DOMAIN SweptRetired : m < next_id + 1
    BY <1>2, <1>3
  <2>2. QED
    BY <1>1, <1>3, <1>5, <2>1, SweepFits DEF GuardsFit
<1>10. ErasedStay(revoked_sessions', pending_by_session', conversations')
  BY <1>1, <1>4, <1>5 DEF ErasedStay
<1>11. StoreInv'
  <2>1. next_id' \in 1 .. MaxId + 1
    BY <1>1, <1>2
  <2>2. QED
    BY <1>4, <1>6, <1>8, <1>9, <1>10, <2>1 DEF StoreInv
<1>12. DecisionsStay /\ ClaimsHonoured /\ GuardsLast
  <2>1. /\ Outlived(retired, retired')
        /\ \A id \in DOMAIN pending_by_id :
               pending_by_id[id].owner # None => id \in DOMAIN pending_by_id'
        /\ \A id \in DOMAIN pending_by_id' : id \in DOMAIN pending_by_id \/ id = next_id
    BY <1>1, <1>5, SweepFits
  <2>2. QED
    BY <1>4, <2>1, QuietStep
<1>13. ASSUME NEW x \in Sessions PROVE Ledger!SessionStep(x)
  <2>1. Settled'[x] = Settled[x]
    BY <1>4, SettledSame
  <2>2. CASE x = s
    <3>1. Claimants[s] = None
      <4>1. s \in DOMAIN pending_by_session =>
                pending_by_id[pending_by_session[s]].owner = None
        BY SweepFits
      <4>2. QED
        BY <1>2, <4>1, OpenIs
    <3>2. OpenQuestions'[s] = next_id /\ Claimants'[s] = None
      BY <1>2, <1>5, OpenIs
    <3>3. next_id \notin Issued
      BY <1>2 DEF Issued
    <3>4. Ledger!Ask(s, next_id)
      BY <2>1, <2>2, <3>1, <3>2, <3>3 DEF Ledger!Ask, Ledger!Becomes
    <3>5. QED
      BY <1>1, <2>2, <3>4 DEF Ledger!SessionStep
  <2>3. CASE x # s
    <3>1. /\ x \in DOMAIN pending_by_session' <=> x \in DOMAIN SweptSessions
          /\ x \in DOMAIN SweptSessions =>
                /\ pending_by_session'[x] = SweptSessions[x]
                /\ pending_by_id'[SweptSessions[x]].owner = SweptIds[SweptSessions[x]].owner
      BY <1>5, <2>3, SweepFits DEF Indexed
    <3>2. QED
      BY <2>1, <3>1, SweptSession
  <2>4. QED
    BY <2>2, <2>3
<1>14. QED
  BY <1>1, <1>5, <1>11, <1>12, <1>13 DEF Effects, IssuesOnce

LEMMA CandidatesAreFinite ==
    \A S \in SUBSET CandidateSlots : IsFiniteSet(S) /\ S \subseteq Slots
<1>1. MaxDecisions \in Nat
  BY LimitsAreNumbers
<1> DEFINE D == 0 .. MaxDecisions
           f == [p \in Keys \X D |-> [key |-> p[1], over |-> p[2]]]
<1>2. IsFiniteSet(Keys \X D)
  <2>1. IsFiniteSet(Keys) /\ IsFiniteSet(D)
    BY <1>1, FiniteData, FS_Interval
  <2>2. QED
    BY <2>1, FS_Product
<1>3. f \in Surjection(Keys \X D, CandidateSlots)
  <2>1. f \in [Keys \X D -> CandidateSlots]
    BY DEF CandidateSlots
  <2>2. \A slot \in CandidateSlots : \E p \in Keys \X D : f[p] = slot
    <3> TAKE slot \in CandidateSlots
    <3>1. <<slot.key, slot.over>> \in Keys \X D
      BY DEF CandidateSlots
    <3>2. f[<<slot.key, slot.over>>] = slot
      BY <3>1 DEF CandidateSlots
    <3>3. QED
      BY <3>1, <3>2
  <2>3. QED
    BY <2>1, <2>2 DEF Surjection
<1>4. IsFiniteSet(CandidateSlots)
  <2> HIDE DEF f
  <2>1. QED
    BY <1>2, <1>3, FS_Surjection
<1>5. CandidateSlots \subseteq Slots
  BY <1>1 DEF CandidateSlots, Slots
<1>6. QED
  BY <1>4, <1>5, FS_Subset

\* A version-1 slot that was not asked is on a key that was not decided.
LEMMA FirstSlotFollows ==
    ASSUME NEW c, NEW v, Sound(c, v), c[2] = "v1", NEW slot \in Slots, slot.over = 0,
           slot \notin v.asked
    PROVE  {d \in v.decided : d.key = slot.key} = {}
<1> SUFFICES ASSUME NEW d \in v.decided, d.key = slot.key PROVE FALSE
  OBVIOUS
<1>1. d \in Slots /\ d \in v.asked /\ d.over = 0
  BY DEF Sound, Conversations
<1>2. d = slot
  BY <1>1 DEF Slots
<1>3. QED
  BY <1>1, <1>2

LEMMA CreatePendingStep ==
    ASSUME StoreInv, NEW s \in Sessions, NEW t \in Turns, NEW r \in Requests,
           NEW b \in Bases, NEW k \in Keys, NEW A \in SUBSET Assumptions,
           CreatePending(s, t, r, b, k, A)
    PROVE  StoreInv' /\ Effects
<1> DEFINE c == <<s, "v1", r>>
           old == Conversation(c, b)
           slot == [key |-> k, over |-> 0]
           added == A \ old.assumptions
           q == Question(s, "v1", t, r, b, {slot}, added, old.rounds + 1)
           v == [old EXCEPT !.asked = @ \cup {slot}, !.assumptions = @ \cup A]
<1>1. /\ Insert(q, v) /\ s \notin DOMAIN revoked_sessions /\ s \notin DOMAIN SweptSessions
      /\ old.rounds < MaxRounds /\ slot \notin old.asked /\ HasRoom(c, b)
  BY DEF CreatePending, Admissible, MayAsk
<1>2. Sound(c, old)
  BY ConversationSound DEF Versions
<1>3. /\ c \in DOMAIN conversations => old = conversations[c] /\ old.basis = b
      /\ c \notin DOMAIN conversations => old.decided = {} /\ old.basis = b
  BY <1>1 DEF Conversation, NewConversation, HasRoom
<1>4. old \in Conversations /\ old.rounds \in Nat /\ slot \in Slots /\ slot.over = 0
  BY <1>2 DEF Sound, Conversations, Slots
<1>5. {d \in old.decided : d.key = slot.key} = {}
  <2> HIDE DEF old, slot
  <2>1. c[2] = "v1"
    OBVIOUS
  <2>2. QED
    BY <1>1, <1>2, <1>4, <2>1, FirstSlotFollows
<1> HIDE DEF old, slot
<1>6. /\ v \in Conversations /\ v.decided = old.decided /\ v.rounds = old.rounds
      /\ v.asked = old.asked \cup {slot} /\ v.assumptions = old.assumptions \cup A
      /\ v.basis = old.basis
  BY <1>4 DEF Conversations
<1>7. /\ q.session = s /\ q.version = "v1" /\ q.slots = {slot} /\ q.added = added
      /\ q.basis = b /\ q.owner = None /\ ConversationOf(q) = c
  BY DEF Question, ConversationOf
<1>8. q \in Questions
  <2>1. 0 \in 0 .. Ttl /\ old.rounds + 1 \in Nat
    BY <1>4, LimitsAreNumbers
  <2>2. QED
    BY <1>4, <2>1 DEF Question, Questions, Versions, Owners
<1> HIDE DEF q, v
<1>9. WellFormed(q)
  BY <1>4, <1>7, <1>8, FS_Singleton DEF WellFormed, OneSlotPerKey
<1>10. Sound(c, v)
  BY <1>2, <1>6 DEF Sound
<1>11. FitsIn(q, v)
  <2>1. Follows(slot, v)
    BY <1>4, <1>5, <1>6 DEF Follows
  <2>2. QED
    BY <1>1, <1>3, <1>6, <1>7, <2>1 DEF FitsIn
<1>12. QED
  BY <1>1, <1>3, <1>6, <1>7, <1>9, <1>10, <1>11, InsertStep

LEMMA CreatePendingV2Step ==
    ASSUME StoreInv, NEW s \in Sessions, NEW t \in Turns, NEW r \in Requests,
           NEW b \in Bases, NEW slots \in SUBSET CandidateSlots,
           CreatePendingV2(s, t, r, b, slots)
    PROVE  StoreInv' /\ Effects
<1> DEFINE c == <<s, "v2", r>>
           old == Conversation(c, b)
           q == Question(s, "v2", t, r, b, slots, {}, old.rounds + 1)
           v == [old EXCEPT !.asked = @ \cup slots]
<1>1. /\ Insert(q, v) /\ s \notin DOMAIN revoked_sessions /\ s \notin DOMAIN SweptSessions
      /\ old.rounds < MaxRoundsV2 /\ HasRoom(c, b) /\ slots # {} /\ OneSlotPerKey(slots)
      /\ \A slot \in slots : Follows(slot, old)
      /\ DecisionsFit(old, slots)
  BY DEF CreatePendingV2, MayAsk
<1>2. Sound(c, old)
  BY ConversationSound DEF Versions
<1>3. /\ c \in DOMAIN conversations => old = conversations[c] /\ old.basis = b
      /\ c \notin DOMAIN conversations => old.decided = {} /\ old.basis = b
  BY <1>1 DEF Conversation, NewConversation, HasRoom
<1>4. old \in Conversations /\ old.rounds \in Nat /\ slots \in SUBSET Slots /\ IsFiniteSet(slots)
  BY <1>2, CandidatesAreFinite DEF Sound, Conversations
<1> HIDE DEF old
<1>5. /\ v \in Conversations /\ v.decided = old.decided /\ v.rounds = old.rounds
      /\ v.asked = old.asked \cup slots /\ v.assumptions = old.assumptions
      /\ v.basis = old.basis
  BY <1>4 DEF Conversations
<1>6. /\ q.session = s /\ q.version = "v2" /\ q.slots = slots /\ q.added = {}
      /\ q.basis = b /\ q.owner = None /\ ConversationOf(q) = c /\ q.round = old.rounds + 1
  BY DEF Question, ConversationOf
<1>7. q \in Questions
  <2>1. 0 \in 0 .. Ttl /\ old.rounds + 1 \in Nat
    BY <1>4, LimitsAreNumbers
  <2>2. QED
    BY <1>4, <2>1 DEF Question, Questions, Versions, Owners
<1> HIDE DEF q, v
<1>8. WellFormed(q)
  BY <1>1, <1>4, <1>6, <1>7 DEF WellFormed
<1>9. Sound(c, v)
  BY <1>2, <1>5 DEF Sound
<1>10. FitsIn(q, v)
  <2>1. \A slot \in slots : Follows(slot, v)
    BY <1>1, <1>5 DEF Follows
  <2>2. q.round <= MaxRoundsV2
    BY <1>1, <1>4, <1>6, LimitsAreNumbers
  <2>3. DecisionCount(v) + Cardinality(slots) <= MaxDecisions
    BY <1>1, <1>5 DEF DecisionsFit, DecisionCount
  <2>4. QED
    BY <1>1, <1>3, <1>5, <1>6, <2>1, <2>2, <2>3 DEF FitsIn
<1>11. QED
  BY <1>1, <1>3, <1>5, <1>6, <1>8, <1>9, <1>10, InsertStep

\* A question is the same but for its age and the claim on it.
SameQuestion(q, q2) ==
    /\ q2 \in Questions /\ q2.session = q.session /\ q2.version = q.version
    /\ q2.request = q.request /\ q2.basis = q.basis /\ q2.slots = q.slots
    /\ q2.added = q.added /\ q2.round = q.round

LEMMA Relabel ==
    ASSUME NEW ids, NEW ids2, DOMAIN ids2 = DOMAIN ids,
           \A id \in DOMAIN ids : SameQuestion(ids[id], ids2[id])
    PROVE  /\ \A sessions : Indexed(ids, sessions) => Indexed(ids2, sessions)
           /\ \A convs, n : Resolvable(ids, convs, n) => Resolvable(ids2, convs, n)
           /\ \A guards, n : GuardsFit(guards, ids, n) => GuardsFit(guards, ids2, n)
<1>1. \A id \in DOMAIN ids : ids2[id].session = ids[id].session
  BY DEF SameQuestion
<1>2. ASSUME NEW sessions, Indexed(ids, sessions) PROVE Indexed(ids2, sessions)
  BY <1>1, <1>2 DEF Indexed
<1>3. ASSUME NEW guards, NEW n, GuardsFit(guards, ids, n) PROVE GuardsFit(guards, ids2, n)
  BY <1>1, <1>3 DEF GuardsFit
<1>4. ASSUME NEW id \in DOMAIN ids
      PROVE  /\ ConversationOf(ids2[id]) = ConversationOf(ids[id])
             /\ WellFormed(ids[id]) => WellFormed(ids2[id])
             /\ \A v : FitsIn(ids[id], v) => FitsIn(ids2[id], v)
  <2> DEFINE q == ids[id]
             q2 == ids2[id]
  <2>1. SameQuestion(q, q2)
    OBVIOUS
  <2> HIDE DEF q, q2
  <2>2. ConversationOf(q2) = ConversationOf(q)
    BY <2>1 DEF SameQuestion, ConversationOf
  <2>3. WellFormed(q) => WellFormed(q2)
    BY <2>1 DEF SameQuestion, WellFormed
  <2>4. \A v : FitsIn(q, v) => FitsIn(q2, v)
    BY <2>1 DEF SameQuestion, FitsIn
  <2>5. QED
    BY <2>2, <2>3, <2>4 DEF q, q2
<1>5. ASSUME NEW convs, NEW n, Resolvable(ids, convs, n) PROVE Resolvable(ids2, convs, n)
  BY <1>4, <1>5 DEF Resolvable
<1>6. QED
  BY <1>2, <1>3, <1>5

\* Claims and ages change, and guards may grow old.
LEMMA RelabelStep ==
    ASSUME StoreInv, DOMAIN pending_by_id' = DOMAIN pending_by_id,
           \A id \in DOMAIN pending_by_id : SameQuestion(pending_by_id[id], pending_by_id'[id]),
           UNCHANGED <<pending_by_session, conversations, revoked_sessions, next_id>>,
           GuardsFit(retired', pending_by_id, next_id), Outlived(retired, retired')
    PROVE  /\ StoreInv'
           /\ DecisionsStay /\ ClaimsHonoured /\ GuardsLast /\ IssuesOnce
           /\ Settled' = Settled
<1>1. Indexed(pending_by_id', pending_by_session')
  BY Relabel DEF StoreInv
<1>2. Resolvable(pending_by_id', conversations', next_id')
  BY Relabel DEF StoreInv
<1>3. GuardsFit(retired', pending_by_id', next_id')
  BY Relabel
<1>4. StoreInv'
  BY <1>1, <1>2, <1>3 DEF StoreInv
<1>5. DecidesNothing
  BY DEF DecidesNothing
<1>6. DecisionsStay /\ ClaimsHonoured /\ GuardsLast
  BY <1>5, QuietStep
<1>7. QED
  BY <1>4, <1>5, <1>6, SettledSame DEF IssuesOnce

LEMMA OutlivedItself == Outlived(retired, retired)
  BY DEF Outlived, GuardsOf

\* One open question is claimed or released.
LEMMA ClaimOne ==
    ASSUME StoreInv, NEW id \in DOMAIN pending_by_id, NEW q2,
           SameQuestion(pending_by_id[id], q2),
           pending_by_id' = [pending_by_id EXCEPT ![id] = q2],
           UNCHANGED <<pending_by_session, conversations, retired, revoked_sessions, next_id>>,
           \/ q2.owner = None
           \/ q2.owner \in Turns /\ pending_by_id[id].owner \in {None, q2.owner}
    PROVE  StoreInv' /\ Effects
<1>1. /\ DOMAIN pending_by_id' = DOMAIN pending_by_id /\ pending_by_id'[id] = q2
      /\ \A x \in DOMAIN pending_by_id \ {id} : pending_by_id'[x] = pending_by_id[x]
  OBVIOUS
<1>2. \A x \in DOMAIN pending_by_id : SameQuestion(pending_by_id[x], pending_by_id'[x])
  BY <1>1, StoreFacts DEF SameQuestion
<1>3. GuardsFit(retired', pending_by_id, next_id) /\ Outlived(retired, retired')
  BY OutlivedItself DEF StoreInv
<1>4. /\ StoreInv'
      /\ DecisionsStay /\ ClaimsHonoured /\ GuardsLast /\ IssuesOnce
      /\ Settled' = Settled
  BY <1>1, <1>2, <1>3, RelabelStep
<1>5. ASSUME NEW s \in Sessions PROVE Ledger!SessionStep(s)
  <2>1. Settled'[s] = Settled[s]
    BY <1>4
  <2>2. CASE s \in DOMAIN pending_by_session /\ pending_by_session[s] = id
    <3>1. /\ OpenQuestions[s] = id /\ OpenQuestions'[s] = id
          /\ Claimants[s] = pending_by_id[id].owner /\ Claimants'[s] = q2.owner
      BY <1>1, <2>2, OpenIs
    <3>2. id # 0
      BY StoreFacts, LimitsAreNumbers DEF Ids
    <3>3. CASE q2.owner = None
      BY <2>1, <3>1, <3>3 DEF Ledger!SessionStep, Ledger!LetGo, Ledger!Becomes
    <3>4. CASE q2.owner \in Turns /\ pending_by_id[id].owner \in {None, q2.owner}
      <4>1. Ledger!Hold(s, q2.owner)
        BY <2>1, <3>1, <3>2, <3>4 DEF Ledger!Hold, Ledger!Becomes
      <4>2. QED
        BY <3>4, <4>1 DEF Ledger!SessionStep
    <3>5. QED
      BY <3>3, <3>4
  <2>3. CASE ~(s \in DOMAIN pending_by_session /\ pending_by_session[s] = id)
    <3>1. OpenQuestions'[s] = OpenQuestions[s] /\ Claimants'[s] = Claimants[s]
      BY <1>1, <2>3, OpenIs, StoreFacts
    <3>2. QED
      BY <2>1, <3>1 DEF Ledger!SessionStep, Ledger!Stays
  <2>4. QED
    BY <2>2, <2>3
<1>6. QED
  BY <1>4, <1>5 DEF Effects

LEMMA ValidateAnswerStep ==
    ASSUME StoreInv, NEW id \in DOMAIN pending_by_id, NEW t \in Turns, ValidateAnswer(id, t)
    PROVE  StoreInv' /\ Effects
<1> DEFINE q2 == [pending_by_id[id] EXCEPT !.owner = t]
<1>1. /\ pending_by_id' = [pending_by_id EXCEPT ![id] = q2]
      /\ pending_by_id[id].owner \in {None, t}
      /\ UNCHANGED <<pending_by_session, conversations, retired, revoked_sessions, next_id>>
  BY DEF ValidateAnswer
<1>2. q2.owner = t /\ SameQuestion(pending_by_id[id], q2)
  <2>1. pending_by_id[id] \in Questions
    BY StoreFacts
  <2>2. QED
    BY <2>1 DEF Questions, SameQuestion, Owners
<1> HIDE DEF q2
<1>3. QED
  BY <1>1, <1>2, ClaimOne

LEMMA ReleaseAnswerClaimStep ==
    ASSUME StoreInv, NEW s \in Sessions, NEW t \in Turns, ReleaseAnswerClaim(s, t)
    PROVE  StoreInv' /\ Effects
<1> DEFINE id == pending_by_session[s]
           q2 == [pending_by_id[id] EXCEPT !.owner = None, !.roster = {}]
<1>1. id \in DOMAIN pending_by_id
  BY StoreFacts DEF ReleaseAnswerClaim
<1>2. /\ pending_by_id' = [pending_by_id EXCEPT ![id] = q2]
      /\ UNCHANGED <<pending_by_session, conversations, retired, revoked_sessions, next_id>>
  BY DEF ReleaseAnswerClaim
<1>3. q2.owner = None /\ SameQuestion(pending_by_id[id], q2)
  <2>1. pending_by_id[id] \in Questions
    BY <1>1, StoreFacts
  <2>2. QED
    BY <2>1 DEF Questions, SameQuestion, Owners
<1> HIDE DEF q2, id
<1>4. QED
  BY <1>1, <1>2, <1>3, ClaimOne

LEMMA TickStep ==
    ASSUME StoreInv, Tick
    PROVE  StoreInv' /\ Effects
<1>1. UNCHANGED <<pending_by_session, conversations, revoked_sessions, next_id>>
  BY DEF Tick
<1>2. \A age \in 0 .. Ttl : Aged(age) \in 0 .. Ttl
  BY LimitsAreNumbers DEF Aged
<1>3. /\ DOMAIN pending_by_id' = DOMAIN pending_by_id
      /\ \A id \in DOMAIN pending_by_id :
            pending_by_id'[id] = [pending_by_id[id] EXCEPT !.age = Aged(@)]
      /\ DOMAIN retired' = DOMAIN retired
      /\ \A m \in DOMAIN retired : retired'[m] = [retired[m] EXCEPT !.age = Aged(@)]
  BY DEF Tick
<1>4. ASSUME NEW id \in DOMAIN pending_by_id
      PROVE  SameQuestion(pending_by_id[id], pending_by_id'[id])
             /\ pending_by_id'[id].owner = pending_by_id[id].owner
  <2>1. pending_by_id[id] \in Questions
    BY StoreFacts
  <2>2. QED
    BY <1>2, <1>3, <2>1 DEF Questions, SameQuestion
<1>5. ASSUME NEW m \in DOMAIN retired
      PROVE  retired'[m] \in RetiredIds /\ retired'[m].session = retired[m].session
  <2>1. retired[m] \in RetiredIds
    BY StoreFacts
  <2>2. QED
    BY <1>2, <1>3, <2>1 DEF RetiredIds
<1>6. \A s : GuardsOf(retired', s) = GuardsOf(retired, s)
  BY <1>3, <1>5 DEF GuardsOf
<1>7. GuardsFit(retired', pending_by_id, next_id)
  BY <1>3, <1>5, <1>6 DEF StoreInv, GuardsFit
<1>8. Outlived(retired, retired')
  <2>1. \A m \in DOMAIN retired : m \in GuardsOf(retired', retired[m].session)
    BY <1>6 DEF GuardsOf
  <2>2. QED
    BY <2>1 DEF Outlived
<1>9. /\ StoreInv'
      /\ DecisionsStay /\ ClaimsHonoured /\ GuardsLast /\ IssuesOnce
      /\ Settled' = Settled
  BY <1>1, <1>3, <1>4, <1>7, <1>8, RelabelStep
<1>10. ASSUME NEW s \in Sessions PROVE Ledger!SessionStep(s)
  <2>1. OpenQuestions'[s] = OpenQuestions[s] /\ Claimants'[s] = Claimants[s]
    BY <1>1, <1>4, OpenIs, StoreFacts
  <2>2. Settled'[s] = Settled[s]
    BY <1>9
  <2>3. QED
    BY <2>1, <2>2 DEF Ledger!SessionStep, Ledger!Stays
<1>11. QED
  BY <1>9, <1>10 DEF Effects

LEMMA ReleaseGuardStep ==
    ASSUME StoreInv, NEW s, NEW t, ReleaseRevocationGuard(s, t)
    PROVE  StoreInv' /\ Effects
<1>1. /\ revoked_sessions' = Without(revoked_sessions, {s})
      /\ UNCHANGED <<pending_by_id, pending_by_session, conversations, retired, next_id>>
  BY DEF ReleaseRevocationGuard
<1>2. ErasedStay(revoked_sessions', pending_by_session, conversations)
  BY <1>1 DEF StoreInv, ErasedStay, Without, Restrict
<1>3. StoreInv'
  BY <1>1, <1>2 DEF StoreInv
<1>4. DecidesNothing
  BY <1>1 DEF DecidesNothing
<1>5. DecisionsStay /\ ClaimsHonoured /\ GuardsLast
  <2>1. Outlived(retired, retired')
    BY <1>1, OutlivedItself
  <2>2. QED
    BY <1>1, <1>4, <2>1, QuietStep
<1>6. ASSUME NEW x \in Sessions PROVE Ledger!SessionStep(x)
  <2>1. OpenQuestions'[x] = OpenQuestions[x] /\ Claimants'[x] = Claimants[x]
    BY <1>1 DEF OpenQuestions, Claimants
  <2>2. Settled'[x] = Settled[x]
    BY <1>4, SettledSame
  <2>3. QED
    BY <2>1, <2>2 DEF Ledger!SessionStep, Ledger!Stays
<1>7. QED
  BY <1>1, <1>3, <1>5, <1>6 DEF Effects, IssuesOnce

LEMMA ValidateAnswersV2Step ==
    ASSUME StoreInv, NEW id \in DOMAIN pending_by_id, NEW t \in Turns,
           NEW roster \in SUBSET pending_by_id[id].slots, ValidateAnswersV2(id, t, roster)
    PROVE  StoreInv' /\ Effects
<1> DEFINE q == pending_by_id[id]
           q2 == [q EXCEPT !.owner = t, !.roster = roster]
           s == q.session
<1>1. /\ id \in DOMAIN SweptIds /\ q.owner \in {None, t}
      /\ pending_by_session' = SweptSessions /\ retired' = SweptRetired
      /\ UNCHANGED <<conversations, revoked_sessions, next_id>>
  BY DEF ValidateAnswersV2, Answerable
<1>2. SweptIds[id] = q
  BY <1>1, SweepFits
<1>3. pending_by_id' = [SweptIds EXCEPT ![id] = q2]
  BY <1>1, <1>2 DEF ValidateAnswersV2
<1>4. q2.owner = t /\ SameQuestion(q, q2)
  <2>1. q \in Questions
    BY StoreFacts
  <2>2. roster \in SUBSET Slots
    BY <2>1 DEF Questions
  <2> HIDE DEF q
  <2>3. QED
    BY <2>1, <2>2 DEF Questions, SameQuestion, Owners
<1>5. s \in Sessions
  BY StoreFacts
<1> HIDE DEF q2, q, s
<1>6. /\ DOMAIN pending_by_id' = DOMAIN SweptIds /\ pending_by_id'[id] = q2
      /\ \A x \in DOMAIN SweptIds \ {id} : pending_by_id'[x] = SweptIds[x]
  BY <1>1, <1>3
<1>7. \A x \in DOMAIN SweptIds : SameQuestion(SweptIds[x], pending_by_id'[x])
  <2>1. \A x \in DOMAIN SweptIds : SweptIds[x] \in Questions
    BY SweepFits, StoreFacts
  <2>2. QED
    BY <1>2, <1>4, <1>6, <2>1 DEF SameQuestion
<1>8. StoreInv'
  <2>1. Indexed(pending_by_id', pending_by_session')
    BY <1>1, <1>6, <1>7, SweepFits, Relabel
  <2>2. Resolvable(pending_by_id', conversations', next_id')
    BY <1>1, <1>6, <1>7, SweepFits, Relabel
  <2>3. GuardsFit(retired', pending_by_id', next_id')
    BY <1>1, <1>6, <1>7, SweepFits, Relabel
  <2>4. QED
    BY <1>1, <2>1, <2>2, <2>3, SweepFits DEF StoreInv
<1>9. DecidesNothing
  BY <1>1 DEF DecidesNothing
<1>10. DecisionsStay /\ ClaimsHonoured /\ GuardsLast
  <2>1. /\ Outlived(retired, retired')
        /\ \A x \in DOMAIN pending_by_id :
               pending_by_id[x].owner # None => x \in DOMAIN pending_by_id'
        /\ \A x \in DOMAIN pending_by_id' : x \in DOMAIN pending_by_id
    BY <1>1, <1>6, SweepFits
  <2>2. QED
    BY <1>9, <2>1, QuietStep
<1>11. ASSUME NEW x \in Sessions PROVE Ledger!SessionStep(x)
  <2>1. Settled'[x] = Settled[x]
    BY <1>9, SettledSame
  <2>2. CASE x \in DOMAIN SweptSessions /\ SweptSessions[x] = id
    <3>1. x \in DOMAIN pending_by_session /\ pending_by_session[x] = id
      BY <2>2, SweepFits
    <3>2. /\ OpenQuestions[x] = id /\ OpenQuestions'[x] = id
          /\ Claimants[x] = q.owner /\ Claimants'[x] = t
      BY <1>1, <1>4, <1>6, <2>2, <3>1, OpenIs DEF q
    <3>3. id # 0
      BY StoreFacts, LimitsAreNumbers DEF Ids
    <3>4. Ledger!Hold(x, t)
      BY <1>1, <2>1, <3>2, <3>3 DEF Ledger!Hold, Ledger!Becomes
    <3>5. QED
      BY <3>4 DEF Ledger!SessionStep
  <2>3. CASE ~(x \in DOMAIN SweptSessions /\ SweptSessions[x] = id)
    <3>1. x \in DOMAIN SweptSessions =>
             pending_by_id'[SweptSessions[x]].owner = SweptIds[SweptSessions[x]].owner
      BY <1>6, <2>3, SweepFits DEF Indexed
    <3>2. QED
      BY <1>1, <2>1, <3>1, SweptSession
  <2>4. QED
    BY <2>2, <2>3
<1>12. QED
  BY <1>1, <1>8, <1>10, <1>11 DEF Effects, IssuesOnce

-----------------------------------------------------------------------------
(* Answering                                                               *)

\* One question is taken from both indexes and becomes a guard.
LEMMA CloseOne ==
    ASSUME StoreInv, NEW id \in DOMAIN pending_by_id, NEW reason \in {"replay", "expired"},
           pending_by_id' = Without(pending_by_id, {id}),
           pending_by_session' = Without(pending_by_session, {pending_by_id[id].session}),
           retired' = Retire(retired, {id}, reason)
    PROVE  /\ Indexed(pending_by_id', pending_by_session')
           /\ Resolvable(pending_by_id', conversations, next_id)
           /\ GuardsFit(retired', pending_by_id', next_id) /\ Outlived(retired, retired')
           /\ id \in DOMAIN retired'
           /\ retired'[id] = [session |-> pending_by_id[id].session, reason |-> reason, age |-> 0]
           /\ DOMAIN pending_by_id' = DOMAIN pending_by_id \ {id}
           /\ \A x \in DOMAIN pending_by_id' : pending_by_id'[x] = pending_by_id[x]
           /\ DOMAIN pending_by_session' = DOMAIN pending_by_session \ {pending_by_id[id].session}
           /\ \A s \in DOMAIN pending_by_session' : pending_by_session'[s] = pending_by_session[s]
           /\ ErasedStay(revoked_sessions, pending_by_session', conversations)
<1>1. /\ DOMAIN pending_by_id' = DOMAIN pending_by_id \ {id}
      /\ \A x \in DOMAIN pending_by_id' : pending_by_id'[x] = pending_by_id[x]
      /\ DOMAIN pending_by_session' = DOMAIN pending_by_session \ {pending_by_id[id].session}
      /\ \A s \in DOMAIN pending_by_session' : pending_by_session'[s] = pending_by_session[s]
  BY DEF Without, Restrict
<1>2. Indexed(pending_by_id', pending_by_session')
  <2>1. Holding(pending_by_session, {id}) = {pending_by_id[id].session}
    BY HoldingOne DEF StoreInv
  <2>2. Indexed(Without(pending_by_id, {id}),
                Without(pending_by_session, Holding(pending_by_session, {id})))
    BY RemoveIndexed DEF StoreInv
  <2>3. QED
    BY <2>1, <2>2
<1>3. Resolvable(pending_by_id', conversations, next_id)
  BY RemoveResolvable DEF StoreInv
<1>4. Retirable(retired, pending_by_id, {id}, next_id)
  <2>1. {id} \subseteq DOMAIN pending_by_id
    OBVIOUS
  <2>2. QED
    BY <2>1, AllRetirable
<1>5. GuardsFit(retired', pending_by_id', next_id) /\ Outlived(retired, retired')
  BY <1>4, RetireFits
<1>6. /\ id \in DOMAIN retired'
      /\ retired'[id] = [session |-> pending_by_id[id].session, reason |-> reason, age |-> 0]
  <2>1. id \in {id}
    OBVIOUS
  <2>2. QED
    BY <1>4, <2>1, RetireGuards
<1>7. ErasedStay(revoked_sessions, pending_by_session', conversations)
  BY <1>1 DEF StoreInv, ErasedStay
<1>8. QED
  BY <1>1, <1>2, <1>3, <1>5, <1>6, <1>7

\* The other sessions do not notice that one question is closed.
LEMMA OthersStay ==
    ASSUME StoreInv, NEW id \in DOMAIN pending_by_id,
           DOMAIN pending_by_id' = DOMAIN pending_by_id \ {id},
           \A x \in DOMAIN pending_by_id' : pending_by_id'[x] = pending_by_id[x],
           DOMAIN pending_by_session' = DOMAIN pending_by_session \ {pending_by_id[id].session},
           \A s \in DOMAIN pending_by_session' : pending_by_session'[s] = pending_by_session[s],
           NEW s \in Sessions, s # pending_by_id[id].session, Settled'[s] = Settled[s]
    PROVE  Ledger!SessionStep(s)
<1>1. s \in DOMAIN pending_by_session => pending_by_session[s] \in DOMAIN pending_by_id'
  BY StoreFacts
<1>2. OpenQuestions'[s] = OpenQuestions[s] /\ Claimants'[s] = Claimants[s]
  BY <1>1, OpenIs
<1>3. QED
  BY <1>2 DEF Ledger!SessionStep, Ledger!Stays

LEMMA OpenNow ==
    ASSUME StoreInv, NEW id \in DOMAIN pending_by_id
    PROVE  LET s == pending_by_id[id].session
           IN /\ s \in Sessions /\ OpenQuestions[s] = id /\ id # 0
              /\ Claimants[s] = pending_by_id[id].owner
<1> DEFINE s == pending_by_id[id].session
<1>1. s \in DOMAIN pending_by_session /\ pending_by_session[s] = id
  BY DEF StoreInv, Indexed
<1>2. s \in Sessions /\ id # 0
  BY StoreFacts, LimitsAreNumbers DEF Ids
<1> HIDE DEF s
<1>3. OpenQuestions[s] = id /\ Claimants[s] = pending_by_id[id].owner
  BY <1>1, <1>2, OpenIs
<1>4. QED
  BY <1>2, <1>3 DEF s

LEMMA ExpireOnAnswerStep ==
    ASSUME StoreInv, NEW id \in DOMAIN pending_by_id, ExpireOnAnswer(id)
    PROVE  StoreInv' /\ Effects
<1> DEFINE s == pending_by_id[id].session
<1>1. /\ pending_by_id' = Without(pending_by_id, {id})
      /\ pending_by_session' = Without(pending_by_session, {s})
      /\ retired' = Retire(retired, {id}, "expired")
      /\ UNCHANGED <<conversations, revoked_sessions, next_id>>
      /\ pending_by_id[id].owner = None
  BY DEF ExpireOnAnswer, ExpiredIds, Expirable
<1>2. /\ Indexed(pending_by_id', pending_by_session')
      /\ Resolvable(pending_by_id', conversations, next_id)
      /\ GuardsFit(retired', pending_by_id', next_id) /\ Outlived(retired, retired')
      /\ DOMAIN pending_by_id' = DOMAIN pending_by_id \ {id}
      /\ \A x \in DOMAIN pending_by_id' : pending_by_id'[x] = pending_by_id[x]
      /\ DOMAIN pending_by_session' = DOMAIN pending_by_session \ {s}
      /\ \A x \in DOMAIN pending_by_session' : pending_by_session'[x] = pending_by_session[x]
      /\ ErasedStay(revoked_sessions, pending_by_session', conversations)
  BY <1>1, CloseOne
<1>3. StoreInv'
  BY <1>1, <1>2 DEF StoreInv
<1>4. DecidesNothing
  BY <1>1 DEF DecidesNothing
<1>5. DecisionsStay /\ ClaimsHonoured /\ GuardsLast
  BY <1>1, <1>2, <1>4, QuietStep
<1>6. ASSUME NEW x \in Sessions PROVE Ledger!SessionStep(x)
  <2>1. Settled'[x] = Settled[x]
    BY <1>4, SettledSame
  <2>2. CASE x = s
    <3>1. OpenQuestions'[x] = 0 /\ Claimants'[x] = None
      BY <1>2, <2>2, OpenIs
    <3>2. QED
      BY <2>1, <3>1 DEF Ledger!SessionStep, Ledger!Withdraw, Ledger!Becomes
  <2>3. CASE x # s
    BY <1>2, <2>1, <2>3, OthersStay
  <2>4. QED
    BY <2>2, <2>3
<1>7. QED
  BY <1>1, <1>3, <1>5, <1>6 DEF Effects, IssuesOnce

\* The next decision on a key is not one that was taken before.
LEMMA NextIsNew ==
    ASSUME NEW slot \in Slots, NEW v, Follows(slot, v)
    PROVE  slot \notin v.decided
<1> SUFFICES ASSUME slot \in v.decided PROVE FALSE
  OBVIOUS
<1>1. slot.over \in Nat
  BY DEF Slots
<1>2. slot.over \in {decision.over : decision \in {d \in v.decided : d.key = slot.key}}
  OBVIOUS
<1>3. slot.over \in 0 .. slot.over - 1
  BY <1>2 DEF Follows
<1>4. QED
  BY <1>1, <1>3

\* An answer adds decisions to one conversation.
LEMMA Recorded ==
    ASSUME StoreInv, NEW c \in DOMAIN conversations, NEW v, NEW slots, slots # {},
           conversations' = [conversations EXCEPT ![c] = v], Sound(c, v),
           v.decided = conversations[c].decided \cup slots,
           slots \cap conversations[c].decided = {}, v.rounds >= conversations[c].rounds
    PROVE  /\ DOMAIN conversations' = DOMAIN conversations /\ conversations'[c] = v
           /\ \A d \in DOMAIN conversations \ {c} : conversations'[d] = conversations[d]
           /\ AllSound(conversations') /\ DecisionsStay
           /\ c[1] \in Sessions
           /\ Settled[c[1]] \subseteq Settled'[c[1]] /\ Settled'[c[1]] # Settled[c[1]]
           /\ \A s \in Sessions \ {c[1]} : Settled'[s] = Settled[s]
<1>1. /\ DOMAIN conversations' = DOMAIN conversations /\ conversations'[c] = v
      /\ \A d \in DOMAIN conversations \ {c} : conversations'[d] = conversations[d]
  OBVIOUS
<1>2. AllSound(conversations')
  BY <1>1 DEF StoreInv, AllSound
<1>3. c[1] \in Sessions
  BY DEF Sound
<1>4. DecisionsStay
  <2>1. \A d \in DOMAIN conversations : conversations[d].rounds >= conversations[d].rounds
    BY DEF StoreInv, AllSound, Sound, Conversations
  <2>2. QED
    BY <1>1, <2>1 DEF DecisionsStay
<1>5. ASSUME NEW s \in Sessions
      PROVE  /\ Settled[s] = UNION {{d} \X conversations[d].decided :
                                      d \in {x \in DOMAIN conversations : x[1] = s}}
             /\ Settled'[s] = UNION {{d} \X conversations'[d].decided :
                                      d \in {x \in DOMAIN conversations' : x[1] = s}}
  BY DEF Settled, ConversationsOf
<1>6. ASSUME NEW s \in Sessions \ {c[1]} PROVE Settled'[s] = Settled[s]
  <2>1. \A d : /\ d \in DOMAIN conversations' /\ d[1] = s <=> d \in DOMAIN conversations /\ d[1] = s
              /\ d \in DOMAIN conversations /\ d[1] = s =>
                    conversations'[d].decided = conversations[d].decided
    BY <1>1
  <2>2. UNION {{d} \X conversations'[d].decided : d \in {x \in DOMAIN conversations' : x[1] = s}}
          = UNION {{d} \X conversations[d].decided : d \in {x \in DOMAIN conversations : x[1] = s}}
    BY <2>1
  <2>3. QED
    BY <1>5, <2>2
<1>7. ASSUME NEW d, NEW decision
      PROVE  /\ <<d, decision>> \in Settled[c[1]] <=>
                   /\ d \in DOMAIN conversations /\ d[1] = c[1]
                   /\ decision \in conversations[d].decided
             /\ <<d, decision>> \in Settled'[c[1]] <=>
                   /\ d \in DOMAIN conversations' /\ d[1] = c[1]
                   /\ decision \in conversations'[d].decided
  BY <1>3, <1>5
<1>8. Settled[c[1]] \subseteq Settled'[c[1]]
  <2>1. ASSUME NEW p \in Settled[c[1]] PROVE p \in Settled'[c[1]]
    <3>1. PICK d, decision : p = <<d, decision>> /\ d \in DOMAIN conversations /\ d[1] = c[1]
                             /\ decision \in conversations[d].decided
      BY <1>3, <1>5
    <3>2. QED
      BY <1>1, <1>7, <3>1
  <2>2. QED
    BY <2>1
<1>9. Settled'[c[1]] # Settled[c[1]]
  <2>1. PICK slot \in slots : TRUE
    OBVIOUS
  <2>2. <<c, slot>> \in Settled'[c[1]] /\ <<c, slot>> \notin Settled[c[1]]
    BY <1>1, <1>7, <2>1
  <2>3. QED
    BY <2>2
<1>10. QED
  BY <1>1, <1>2, <1>3, <1>4, <1>6, <1>8, <1>9

\* What a recorded answer to question id shows, whichever version it is.
LEMMA AnswerShows ==
    ASSUME StoreInv, NEW id \in DOMAIN pending_by_id, NEW v, NEW slots,
           DOMAIN conversations' = DOMAIN conversations,
           conversations'[ConversationOf(pending_by_id[id])] = v,
           \A d \in DOMAIN conversations \ {ConversationOf(pending_by_id[id])} :
               conversations'[d] = conversations[d],
           v.decided = conversations[ConversationOf(pending_by_id[id])].decided \cup slots,
           pending_by_id[id].owner # None =>
               slots = IF pending_by_id[id].version = "v1" THEN pending_by_id[id].slots
                                                           ELSE pending_by_id[id].roster,
           \A x \in DOMAIN pending_by_id \ {id} :
               pending_by_id[x].owner # None => x \in DOMAIN pending_by_id',
           \A x \in DOMAIN retired : x \notin DOMAIN pending_by_id',
           Outlived(retired, retired'), id \in DOMAIN retired',
           retired'[id] = [session |-> pending_by_id[id].session, reason |-> "replay", age |-> 0]
    PROVE  ClaimsHonoured /\ GuardsLast
<1> DEFINE q == pending_by_id[id]
           c == ConversationOf(q)
<1>1. c[1] = q.session
  BY DEF ConversationOf
<1>2. \A x \in DOMAIN pending_by_id \ {id} :
         /\ ConversationOf(pending_by_id[x]) # c
         /\ ConversationOf(pending_by_id[x]) \in DOMAIN conversations
  <2>1. \A x \in DOMAIN pending_by_id \ {id} : pending_by_id[x].session # q.session
    BY Uniquely DEF StoreInv
  <2>2. QED
    BY <2>1 DEF ConversationOf, StoreInv, Resolvable
<1>3. \A x \in DOMAIN pending_by_id \ {id} :
         conversations'[ConversationOf(pending_by_id[x])]
           = conversations[ConversationOf(pending_by_id[x])]
  BY <1>2
<1>4. ClaimsHonoured
  <2>1. ASSUME NEW x \in DOMAIN pending_by_id, pending_by_id[x].owner # None,
               x \notin DOMAIN pending_by_id'
        PROVE  x = id
    BY <2>1
  <2>2. conversations[c].decided \cup slots = Decide(conversations[c], slots).decided
    <3>1. conversations[c] \in Conversations
      BY DEF StoreInv, Resolvable, AllSound, Sound
    <3> HIDE DEF c
    <3>2. QED
      BY <3>1 DEF Decide, Conversations
  <2>3. q.owner # None =>
          /\ retired'[id].reason = "replay"
          /\ conversations'[c].decided
               = Decide(conversations[c], IF q.version = "v1" THEN q.slots ELSE q.roster).decided
    BY <2>2
  <2>4. QED
    BY <2>1, <2>3 DEF ClaimsHonoured
<1>5. GuardsLast
  <2>1. ASSUME NEW x \in DOMAIN pending_by_id,
               conversations'[ConversationOf(pending_by_id[x])].decided
                 # conversations[ConversationOf(pending_by_id[x])].decided
        PROVE  x = id
    BY <1>3, <2>1
  <2>2. \A x \in DOMAIN pending_by_id :
          conversations'[ConversationOf(pending_by_id[x])].decided
            # conversations[ConversationOf(pending_by_id[x])].decided
          => /\ x \in DOMAIN retired'
             /\ retired'[x] = [session |-> ConversationOf(pending_by_id[x])[1],
                               reason |-> "replay", age |-> 0]
    BY <1>1, <2>1
  <2>3. QED
    BY <2>2 DEF GuardsLast, Outlived
<1>6. QED
  BY <1>4, <1>5

\* Guards and open questions never share an identifier.
LEMMA GuardsApart ==
    ASSUME NEW guards, NEW ids, NEW n, GuardsFit(guards, ids, n)
    PROVE  \A m \in DOMAIN guards : m \notin DOMAIN ids
  BY DEF GuardsFit

LEMMA AnswerStep ==
    ASSUME StoreInv, NEW id \in DOMAIN pending_by_id, NEW t, Answer(id, t)
    PROVE  StoreInv' /\ Effects
<1> DEFINE q == pending_by_id[id]
           c == ConversationOf(q)
           old == conversations[c]
           v == [Decide(old, q.slots) EXCEPT !.rounds = @ + 1]
           s == q.session
<1>1. /\ pending_by_id' = Without(pending_by_id, {id})
      /\ pending_by_session' = Without(pending_by_session, {s})
      /\ retired' = Retire(retired, {id}, "replay")
      /\ conversations' = [conversations EXCEPT ![c] = v]
      /\ UNCHANGED <<revoked_sessions, next_id>>
      /\ q.version = "v1"
  <2>1. conversations' = [conversations EXCEPT ![c] = v]
    BY DEF Answer
  <2>2. QED
    BY <2>1 DEF Answer
<1>2. /\ c \in DOMAIN conversations /\ WellFormed(q) /\ FitsIn(q, old)
      /\ Sound(c, old) /\ c[1] = s /\ c[2] = "v1"
  BY <1>1 DEF StoreInv, Resolvable, AllSound, ConversationOf
<1>3. /\ Indexed(pending_by_id', pending_by_session')
      /\ Resolvable(pending_by_id', conversations, next_id)
      /\ GuardsFit(retired', pending_by_id', next_id) /\ Outlived(retired, retired')
      /\ id \in DOMAIN retired'
      /\ retired'[id] = [session |-> s, reason |-> "replay", age |-> 0]
      /\ DOMAIN pending_by_id' = DOMAIN pending_by_id \ {id}
      /\ \A x \in DOMAIN pending_by_id' : pending_by_id'[x] = pending_by_id[x]
      /\ DOMAIN pending_by_session' = DOMAIN pending_by_session \ {s}
      /\ \A x \in DOMAIN pending_by_session' : pending_by_session'[x] = pending_by_session[x]
      /\ ErasedStay(revoked_sessions, pending_by_session', conversations)
  BY <1>1, CloseOne
<1>4. \A x \in DOMAIN pending_by_id' :
         /\ pending_by_id'[x] = pending_by_id[x] /\ ConversationOf(pending_by_id[x]) # c
         /\ ConversationOf(pending_by_id'[x]) = ConversationOf(pending_by_id[x])
  <2>1. \A x \in DOMAIN pending_by_id \ {id} : pending_by_id[x].session # s
    BY Uniquely DEF StoreInv
  <2>2. QED
    BY <1>3, <2>1 DEF ConversationOf
<1>5. s \in Sessions /\ OpenQuestions[s] = id /\ id # 0
  BY OpenNow
<1> HIDE DEF q, c, old, s
<1>6. /\ v \in Conversations /\ v.decided = old.decided \cup q.slots
      /\ v.rounds = old.rounds + 1 /\ v.asked = old.asked /\ old.rounds \in Nat
  <2>1. q.slots \in SUBSET Slots /\ old \in Conversations
    BY <1>2 DEF Sound, WellFormed, Questions
  <2> DEFINE decided == Decide(old, q.slots)
  <2>2. /\ decided \in Conversations /\ decided.decided = old.decided \cup q.slots
        /\ decided.rounds = old.rounds /\ decided.asked = old.asked /\ old.rounds \in Nat
    BY <2>1 DEF Decide, Conversations
  <2>3. v = [decided EXCEPT !.rounds = @ + 1]
    OBVIOUS
  <2> HIDE DEF decided, v
  <2>4. QED
    BY <2>2, <2>3 DEF Conversations
<1> HIDE DEF v
<1>7. Sound(c, v)
  <2>1. IsFiniteSet(v.decided)
    <3>1. IsFiniteSet(old.decided) /\ IsFiniteSet(q.slots)
      BY <1>2 DEF Sound, WellFormed
    <3>2. IsFiniteSet(old.decided \cup q.slots)
      BY <3>1, FS_Union
    <3>3. QED
      BY <1>6, <3>2
  <2>2. \A slot \in v.decided : slot \in v.asked /\ slot.over = 0
    BY <1>1, <1>2, <1>6 DEF Sound, WellFormed, FitsIn
  <2>3. QED
    BY <1>2, <1>6, <2>1, <2>2 DEF Sound
<1>8. q.slots # {} /\ q.slots \cap old.decided = {} /\ v.rounds >= old.rounds
  <2>1. \A slot \in q.slots : slot \in Slots /\ Follows(slot, old)
    BY <1>2 DEF FitsIn, WellFormed, Questions
  <2>2. \A slot \in q.slots : slot \notin old.decided
    BY <2>1, NextIsNew
  <2>3. v.rounds >= old.rounds
    BY <1>6
  <2>4. QED
    BY <1>2, <2>2, <2>3 DEF FitsIn
<1>9. /\ DOMAIN conversations' = DOMAIN conversations /\ conversations'[c] = v
      /\ \A d \in DOMAIN conversations \ {c} : conversations'[d] = conversations[d]
      /\ AllSound(conversations') /\ DecisionsStay
      /\ Settled[s] \subseteq Settled'[s] /\ Settled'[s] # Settled[s]
      /\ \A x \in Sessions \ {s} : Settled'[x] = Settled[x]
  <2>1. /\ v.decided = conversations[c].decided \cup q.slots
        /\ q.slots \cap conversations[c].decided = {}
        /\ v.rounds >= conversations[c].rounds
    BY <1>6, <1>8 DEF old
  <2>2. QED
    BY <1>1, <1>2, <1>7, <1>8, <2>1, Recorded
<1>10. StoreInv'
  <2>1. Resolvable(pending_by_id', conversations', next_id')
    <3>1. ASSUME NEW x \in DOMAIN pending_by_id'
          PROVE  /\ x \in Ids /\ x < next_id /\ WellFormed(pending_by_id'[x])
                 /\ ConversationOf(pending_by_id'[x]) \in DOMAIN conversations
                 /\ FitsIn(pending_by_id'[x], conversations[ConversationOf(pending_by_id'[x])])
                 /\ ConversationOf(pending_by_id'[x]) # c
      BY <1>3, <1>4, <3>1 DEF Resolvable
    <3>2. \A d \in DOMAIN conversations : d # c => conversations'[d] = conversations[d]
      BY <1>9
    <3>3. QED
      BY <1>1, <1>9, <3>1, <3>2 DEF Resolvable
  <2>2. ErasedStay(revoked_sessions', pending_by_session', conversations')
    BY <1>1, <1>3, <1>9 DEF ErasedStay
  <2>3. QED
    BY <1>1, <1>3, <1>9, <2>1, <2>2 DEF StoreInv
<1>11. ClaimsHonoured /\ GuardsLast
  <2>1. /\ conversations'[ConversationOf(pending_by_id[id])] = v
        /\ \A d \in DOMAIN conversations \ {ConversationOf(pending_by_id[id])} :
              conversations'[d] = conversations[d]
        /\ v.decided = conversations[ConversationOf(pending_by_id[id])].decided \cup q.slots
    BY <1>6, <1>9 DEF c, q, old
  <2>2. q.slots = IF pending_by_id[id].version = "v1" THEN pending_by_id[id].slots
                                                      ELSE pending_by_id[id].roster
    BY <1>1 DEF q
  <2>3. \A x \in DOMAIN pending_by_id \ {id} : x \in DOMAIN pending_by_id'
    BY <1>3
  <2>4. \A x \in DOMAIN retired : x \notin DOMAIN pending_by_id'
    BY <1>3, GuardsApart DEF StoreInv
  <2>5. retired'[id] = [session |-> pending_by_id[id].session, reason |-> "replay", age |-> 0]
    BY <1>3 DEF s, q
  <2>6. QED
    BY <1>3, <1>9, <2>1, <2>2, <2>3, <2>4, <2>5, AnswerShows
<1>12. ASSUME NEW x \in Sessions PROVE Ledger!SessionStep(x)
  <2>1. CASE x = s
    <3>1. OpenQuestions'[x] = 0 /\ Claimants'[x] = None
      BY <1>3, <2>1, OpenIs
    <3>2. 0 \notin Issued
      BY DEF Issued
    <3>3. Ledger!Settle(x, 0)
      BY <1>5, <1>9, <2>1, <3>1, <3>2 DEF Ledger!Settle, Ledger!Becomes
    <3>4. QED
      BY <3>3 DEF Ledger!SessionStep
  <2>2. CASE x # s
    BY <1>3, <1>9, <2>2, OthersStay DEF s, q
  <2>3. QED
    BY <2>1, <2>2
<1>13. QED
  BY <1>1, <1>9, <1>10, <1>11, <1>12 DEF Effects, IssuesOnce

\* A question that the sweep left is retired after it: no guard suffers from both.
LEMMA RetireAfterSweep ==
    ASSUME StoreInv, NEW id \in DOMAIN SweptIds
    PROVE  LET guards == Retire(SweptRetired, {id}, "replay")
           IN /\ GuardsFit(guards, Without(SweptIds, {id}), next_id)
              /\ Outlived(retired, guards)
              /\ id \in DOMAIN guards
              /\ guards[id] = [session |-> pending_by_id[id].session,
                               reason |-> "replay", age |-> 0]
<1> DEFINE guards == Retire(SweptRetired, {id}, "replay")
           own == pending_by_id[id].session
           first == Retire(retired, ExpiredIds, "expired")
<1>1. SweptIds[id] = pending_by_id[id] /\ id \in DOMAIN pending_by_id /\ id \notin ExpiredIds
  BY SweepFits
<1>2. Retirable(SweptRetired, SweptIds, {id}, next_id)
  <2>1. GuardsFit(SweptRetired, SweptIds, next_id)
    BY SweepFits
  <2>2. \A x \in DOMAIN SweptIds : x \in Ids /\ x < next_id /\ SweptIds[x].session \in Sessions
    BY SweepFits, StoreFacts
  <2>3. \A x, y \in DOMAIN SweptIds : SweptIds[x].session = SweptIds[y].session => x = y
    BY SweepFits, Uniquely
  <2>4. QED
    BY <1>1, <2>1, <2>2, <2>3 DEF Retirable
<1>3. /\ GuardsFit(guards, Without(SweptIds, {id}), next_id)
      /\ Outlived(SweptRetired, guards)
      /\ id \in DOMAIN guards
      /\ guards[id] = [session |-> own, reason |-> "replay", age |-> 0]
  <2>1. id \in {id} /\ "replay" \in {"replay", "expired"}
    OBVIOUS
  <2>2. GuardsFit(guards, Without(SweptIds, {id}), next_id) /\ Outlived(SweptRetired, guards)
    BY <1>2, <2>1, RetireFits
  <2>3. id \in DOMAIN guards
        /\ guards[id] = [session |-> SweptIds[id].session, reason |-> "replay", age |-> 0]
    BY <1>2, <2>1, RetireGuards
  <2>4. QED
    BY <1>1, <2>2, <2>3
<1>4. Outlived(retired, SweptRetired)
  BY SweepFits
<1>5. ASSUME NEW m \in DOMAIN retired, retired[m].session # own
      PROVE  LET mine == GuardsOf(guards, retired[m].session)
             IN \/ retired[m].age >= Ttl \/ m \in mine
                \/ /\ Cardinality(mine) = MaxRetired
                   /\ \A n \in mine : guards[n].age <= retired[m].age
  <2> DEFINE s == retired[m].session
             before == GuardsOf(SweptRetired, s)
             after == GuardsOf(guards, s)
  <2>1. s \in Sessions
    BY StoreFacts DEF RetiredIds
  <2>2. \A x \in {id} : SweptIds[x].session # s
    BY <1>1, <1>5
  <2>3. after = before /\ \A n \in before : guards[n] = SweptRetired[n]
    <3> HIDE DEF s
    <3>1. QED
      BY <1>2, <2>1, <2>2, RetireSpares
  <2>4. \/ retired[m].age >= Ttl \/ m \in before
        \/ /\ Cardinality(before) = MaxRetired
           /\ \A n \in before : SweptRetired[n].age <= retired[m].age
    BY <1>4 DEF Outlived
  <2> HIDE DEF before, after, s, guards
  <2>5. \/ retired[m].age >= Ttl \/ m \in after
        \/ /\ Cardinality(after) = MaxRetired
           /\ \A n \in after : guards[n].age <= retired[m].age
    BY <2>3, <2>4
  <2>6. QED
    BY <2>5 DEF after, s
<1>6. ASSUME NEW m \in DOMAIN retired, retired[m].session = own
      PROVE  LET mine == GuardsOf(guards, retired[m].session)
             IN \/ retired[m].age >= Ttl \/ m \in mine
                \/ /\ Cardinality(mine) = MaxRetired
                   /\ \A n \in mine : guards[n].age <= retired[m].age
  <2>1. \A x \in ExpiredIds : pending_by_id[x].session # own
    <3>1. \A x, y \in DOMAIN pending_by_id :
             pending_by_id[x].session = pending_by_id[y].session => x = y
      BY Uniquely DEF StoreInv
    <3>2. QED
      BY <1>1, <3>1, SweepFits
  <2>2. m \in GuardsOf(first, own) /\ first[m] = retired[m]
    <3>1. Retirable(retired, pending_by_id, ExpiredIds, next_id)
      BY AllRetirable, SweepFits
    <3>2. m \in GuardsOf(retired, own) /\ own \in Sessions
      BY <1>6, StoreFacts DEF GuardsOf, RetiredIds
    <3>3. QED
      BY <2>1, <3>1, <3>2, RetireSpares
  <2>3. retired[m].age >= Ttl \/ (m \in DOMAIN SweptRetired /\ SweptRetired[m] = retired[m])
    BY <2>2 DEF SweptRetired, Purge, Without, Restrict, GuardsOf
  <2> HIDE DEF guards, own, first
  <2>4. CASE m \in DOMAIN SweptRetired /\ SweptRetired[m] = retired[m]
    BY <1>3, <2>4 DEF Outlived
  <2>5. QED
    BY <2>3, <2>4
<1> HIDE DEF guards
<1>7. Outlived(retired, guards)
  BY <1>5, <1>6 DEF Outlived
<1>8. QED
  BY <1>3, <1>7 DEF guards

\* Decisions on other keys do not disturb the slots that were not answered.
LEMMA StillFollows ==
    ASSUME NEW old, NEW v, NEW slots, OneSlotPerKey(slots), NEW roster \in SUBSET slots,
           v.decided = old.decided \cup roster, NEW slot \in slots \ roster,
           Follows(slot, old)
    PROVE  Follows(slot, v)
<1>1. {d \in v.decided : d.key = slot.key} = {d \in old.decided : d.key = slot.key}
  BY DEF OneSlotPerKey
<1>2. QED
  BY <1>1 DEF Follows

LEMMA DecisionsAdd ==
    ASSUME NEW old, NEW slots, NEW roster \in SUBSET slots,
           IsFiniteSet(old), IsFiniteSet(slots), old \cap roster = {}
    PROVE  /\ IsFiniteSet(old \cup roster) /\ IsFiniteSet(slots \ roster)
           /\ Cardinality(old \cup roster) + Cardinality(slots \ roster)
                = Cardinality(old) + Cardinality(slots)
<1>1. IsFiniteSet(roster)
  BY FS_Subset
<1>2. /\ IsFiniteSet(old \cup roster)
      /\ Cardinality(old \cup roster)
           = Cardinality(old) + Cardinality(roster) - Cardinality(old \cap roster)
  BY <1>1, FS_Union
<1>3. IsFiniteSet(slots \ roster)
      /\ Cardinality(slots \ roster) = Cardinality(slots) - Cardinality(slots \cap roster)
  BY FS_Difference
<1>4. slots \cap roster = roster /\ Cardinality({}) = 0
  BY FS_EmptySet
<1>5. /\ Cardinality(old) \in Nat /\ Cardinality(roster) \in Nat /\ Cardinality(slots) \in Nat
  BY <1>1, FS_CardinalityType
<1>6. /\ Cardinality(old \cup roster) = Cardinality(old) + Cardinality(roster)
      /\ Cardinality(slots \ roster) = Cardinality(slots) - Cardinality(roster)
  BY <1>2, <1>3, <1>4, <1>5
<1>7. Cardinality(old \cup roster) + Cardinality(slots \ roster)
        = Cardinality(old) + Cardinality(slots)
  BY <1>5, <1>6
<1>8. QED
  BY <1>2, <1>3, <1>7

\* An answer to the slots in roster of question id turns its conversation into v.
RecordsAnswer(id, roster, v) ==
    LET q == pending_by_id[id]
        c == ConversationOf(q)
        s == q.session
        old == conversations[c]
    IN /\ id \in DOMAIN SweptIds /\ q.version = "v2"
       /\ roster # {} /\ roster \subseteq q.slots /\ (q.owner # None => roster = q.roster)
       /\ c \in DOMAIN conversations /\ c[1] = s /\ s \in Sessions
       /\ WellFormed(q) /\ FitsIn(q, old) /\ Sound(c, old)
       /\ v.decided = old.decided \cup roster /\ old.decided \cap roster = {}
       /\ v.asked = old.asked /\ v.assumptions = old.assumptions /\ v.basis = old.basis
       /\ DOMAIN conversations' = DOMAIN conversations /\ conversations'[c] = v
       /\ \A d \in DOMAIN conversations \ {c} : conversations'[d] = conversations[d]
       /\ AllSound(conversations') /\ DecisionsStay
       /\ Settled[s] \subseteq Settled'[s] /\ Settled'[s] # Settled[s]
       /\ \A x \in Sessions \ {s} : Settled'[x] = Settled[x]
       /\ Indexed(Without(SweptIds, {id}), Without(SweptSessions, {s}))
       /\ Resolvable(Without(SweptIds, {id}), conversations', next_id)
       /\ GuardsFit(retired', Without(SweptIds, {id}), next_id) /\ Outlived(retired, retired')
       /\ id \in DOMAIN retired'
       /\ retired'[id] = [session |-> s, reason |-> "replay", age |-> 0]
       /\ UNCHANGED revoked_sessions

LEMMA AnswerV2Records ==
    ASSUME StoreInv, NEW id \in DOMAIN pending_by_id, NEW t,
           NEW roster \in SUBSET pending_by_id[id].slots, AnswerV2(id, t, roster)
    PROVE  \E v : RecordsAnswer(id, roster, v)
<1> DEFINE q == pending_by_id[id]
           c == ConversationOf(q)
           s == q.session
           old == conversations[c]
           decided == Decide(old, roster)
           v == [decided EXCEPT !.rounds = IF @ > q.round THEN @ ELSE q.round]
<1>1. /\ id \in DOMAIN SweptIds /\ q.version = "v2" /\ roster # {} /\ roster \subseteq q.slots
      /\ q.owner # None => roster = q.roster
      /\ UNCHANGED revoked_sessions
  BY DEF AnswerV2, Answerable
<1>2. conversations' = [conversations EXCEPT ![c] = v]
  BY DEF AnswerV2
<1>3. retired' = Retire(SweptRetired, {id}, "replay")
  BY DEF AnswerV2
<1>4. /\ c \in DOMAIN conversations /\ WellFormed(q) /\ FitsIn(q, old)
      /\ Sound(c, old) /\ c[1] = s /\ c[2] = "v2" /\ s \in Sessions
  BY <1>1, StoreFacts DEF StoreInv, Resolvable, AllSound, ConversationOf
<1>5. /\ GuardsFit(retired', Without(SweptIds, {id}), next_id) /\ Outlived(retired, retired')
      /\ id \in DOMAIN retired'
      /\ retired'[id] = [session |-> s, reason |-> "replay", age |-> 0]
  BY <1>1, <1>3, RetireAfterSweep
<1>6. Indexed(Without(SweptIds, {id}), Without(SweptSessions, {s}))
  <2>1. Indexed(SweptIds, SweptSessions) /\ SweptIds[id].session = s
    BY <1>1, SweepFits
  <2>2. Holding(SweptSessions, {id}) = {s}
    BY <1>1, <2>1, HoldingOne
  <2>3. QED
    BY <2>1, <2>2, RemoveIndexed
<1>7. \A x \in DOMAIN Without(SweptIds, {id}) :
         /\ Without(SweptIds, {id})[x] = SweptIds[x] /\ x \in DOMAIN SweptIds
         /\ ConversationOf(SweptIds[x]) # c
  <2>1. \A x \in DOMAIN SweptIds \ {id} : SweptIds[x].session # s
    BY <1>1, SweepFits, Uniquely
  <2>2. \A x \in DOMAIN Without(SweptIds, {id}) :
           Without(SweptIds, {id})[x] = SweptIds[x] /\ x \in DOMAIN SweptIds \ {id}
    BY DEF Without, Restrict
  <2>3. QED
    BY <2>1, <2>2 DEF ConversationOf
<1>8. old.rounds \in Nat /\ q.round \in Nat /\ old \in Conversations /\ roster \in SUBSET Slots
  BY <1>1, <1>4 DEF Sound, Conversations, WellFormed, Questions
<1> HIDE DEF q, c, s, old
<1>9. /\ decided \in Conversations /\ decided.decided = old.decided \cup roster
      /\ decided.rounds = old.rounds /\ decided.asked = old.asked
      /\ decided.assumptions = old.assumptions /\ decided.basis = old.basis
  BY <1>8 DEF Decide, Conversations
<1> HIDE DEF decided
<1>10. /\ v \in Conversations /\ v.decided = old.decided \cup roster
       /\ v.rounds >= old.rounds /\ v.asked = old.asked
       /\ v.assumptions = old.assumptions /\ v.basis = old.basis
  <2> DEFINE most == IF decided.rounds > q.round THEN decided.rounds ELSE q.round
  <2>1. most \in Nat /\ most >= old.rounds
    BY <1>8, <1>9
  <2>2. v = [decided EXCEPT !.rounds = most]
    OBVIOUS
  <2> HIDE DEF most, v
  <2>3. QED
    BY <1>9, <2>1, <2>2 DEF Conversations
<1> HIDE DEF v
<1>11. Sound(c, v)
  <2>1. IsFiniteSet(old.decided) /\ IsFiniteSet(q.slots)
    BY <1>4 DEF Sound, WellFormed
  <2>2. IsFiniteSet(roster)
    BY <1>1, <2>1, FS_Subset
  <2>3. IsFiniteSet(old.decided \cup roster)
    BY <2>1, <2>2, FS_Union
  <2>4. QED
    BY <1>4, <1>10, <2>3 DEF Sound
<1>12. old.decided \cap roster = {}
  <2>1. \A slot \in roster : slot \in Slots /\ Follows(slot, old)
    BY <1>1, <1>4, <1>8 DEF FitsIn
  <2>2. QED
    BY <2>1, NextIsNew
<1>13. /\ DOMAIN conversations' = DOMAIN conversations /\ conversations'[c] = v
       /\ \A d \in DOMAIN conversations \ {c} : conversations'[d] = conversations[d]
       /\ AllSound(conversations') /\ DecisionsStay
       /\ Settled[s] \subseteq Settled'[s] /\ Settled'[s] # Settled[s]
       /\ \A x \in Sessions \ {s} : Settled'[x] = Settled[x]
  <2>1. /\ v.decided = conversations[c].decided \cup roster
        /\ roster \cap conversations[c].decided = {}
        /\ v.rounds >= conversations[c].rounds
    BY <1>10, <1>12 DEF old
  <2>2. QED
    BY <1>1, <1>2, <1>4, <1>11, <2>1, Recorded
<1>14. Resolvable(Without(SweptIds, {id}), conversations', next_id)
  <2>1. Resolvable(Without(SweptIds, {id}), conversations, next_id)
    BY SweepFits, RemoveResolvable
  <2>2. QED
    BY <1>7, <1>13, <2>1 DEF Resolvable
<1>15. RecordsAnswer(id, roster, v)
  BY <1>1, <1>4, <1>5, <1>6, <1>10, <1>12, <1>13, <1>14 DEF RecordsAnswer, q, c, s, old
<1>16. QED
  BY <1>15

LEMMA RecordsShows ==
    ASSUME StoreInv, NEW id \in DOMAIN pending_by_id, NEW roster, NEW v,
           RecordsAnswer(id, roster, v),
           \A x \in DOMAIN SweptIds \ {id} : x \in DOMAIN pending_by_id',
           \A x \in DOMAIN pending_by_id' : x \in DOMAIN pending_by_id \/ x = next_id
    PROVE  ClaimsHonoured /\ GuardsLast
<1> DEFINE q == pending_by_id[id]
           c == ConversationOf(q)
<1>1. /\ DOMAIN conversations' = DOMAIN conversations /\ conversations'[c] = v
      /\ \A d \in DOMAIN conversations \ {c} : conversations'[d] = conversations[d]
      /\ v.decided = conversations[c].decided \cup roster
      /\ q.owner # None => roster = q.roster
      /\ q.version = "v2"
      /\ Outlived(retired, retired') /\ id \in DOMAIN retired'
      /\ retired'[id] = [session |-> q.session, reason |-> "replay", age |-> 0]
  BY DEF RecordsAnswer
<1>2. q.owner # None => roster = IF q.version = "v1" THEN q.slots ELSE q.roster
  BY <1>1
<1>3. \A x \in DOMAIN pending_by_id \ {id} :
         pending_by_id[x].owner # None => x \in DOMAIN pending_by_id'
  BY SweepFits
<1>4. \A x \in DOMAIN retired : x \notin DOMAIN pending_by_id'
  <2>1. \A x \in DOMAIN retired : x \notin DOMAIN pending_by_id /\ x \in Nat /\ x < next_id
    BY IdsAreFinite DEF StoreInv, GuardsFit
  <2>2. next_id \in Nat
    BY LimitsAreNumbers DEF StoreInv
  <2>3. QED
    BY <2>1, <2>2
<1>5. QED
  BY <1>1, <1>2, <1>3, <1>4, AnswerShows

\* The sessions of other questions see the sweep only.
LEMMA RecordsElsewhere ==
    ASSUME StoreInv, NEW id \in DOMAIN pending_by_id, NEW roster, NEW v,
           RecordsAnswer(id, roster, v), NEW s \in Sessions, s # pending_by_id[id].session,
           s \in DOMAIN pending_by_session' <=> s \in DOMAIN SweptSessions,
           s \in DOMAIN SweptSessions => pending_by_session'[s] = SweptSessions[s],
           \A x \in DOMAIN SweptIds \ {id} : pending_by_id'[x] = SweptIds[x]
    PROVE  Ledger!SessionStep(s)
<1>1. Settled'[s] = Settled[s]
  BY DEF RecordsAnswer
<1>2. s \in DOMAIN SweptSessions => SweptSessions[s] \in DOMAIN SweptIds \ {id}
  <2>1. Indexed(SweptIds, SweptSessions) /\ id \in DOMAIN SweptIds
        /\ SweptIds[id] = pending_by_id[id]
    BY SweepFits DEF RecordsAnswer
  <2>2. QED
    BY <2>1 DEF Indexed
<1>3. QED
  BY <1>1, <1>2, SweptSession

LEMMA AnswerV2Closed ==
    ASSUME StoreInv, NEW id \in DOMAIN pending_by_id, NEW roster, NEW v,
           RecordsAnswer(id, roster, v),
           pending_by_id' = Without(SweptIds, {id}),
           pending_by_session' = Without(SweptSessions, {pending_by_id[id].session}),
           UNCHANGED next_id
    PROVE  StoreInv' /\ Effects
<1> DEFINE s == pending_by_id[id].session
<1>1. /\ DOMAIN pending_by_id' = DOMAIN SweptIds \ {id}
      /\ \A x \in DOMAIN pending_by_id' : pending_by_id'[x] = SweptIds[x]
      /\ DOMAIN pending_by_session' = DOMAIN SweptSessions \ {s}
      /\ \A x \in DOMAIN pending_by_session' : pending_by_session'[x] = SweptSessions[x]
  BY DEF Without, Restrict
<1>2. StoreInv'
  <2>1. ErasedStay(revoked_sessions, SweptSessions, conversations)
    BY SweepFits
  <2>2. DOMAIN conversations' = DOMAIN conversations /\ UNCHANGED revoked_sessions
    BY DEF RecordsAnswer
  <2>3. ErasedStay(revoked_sessions', pending_by_session', conversations')
    BY <1>1, <2>1, <2>2 DEF ErasedStay
  <2>4. QED
    BY <2>3 DEF RecordsAnswer, StoreInv
<1>3. ClaimsHonoured /\ GuardsLast
  <2>1. \A x \in DOMAIN pending_by_id' : x \in DOMAIN pending_by_id
    BY <1>1, SweepFits
  <2>2. QED
    BY <1>1, <2>1, RecordsShows
<1>4. ASSUME NEW x \in Sessions PROVE Ledger!SessionStep(x)
  <2>1. CASE x = s
    <3>1. OpenQuestions'[x] = 0 /\ Claimants'[x] = None /\ 0 \notin Issued
      <4>1. x \notin DOMAIN pending_by_session'
        BY <1>1, <2>1
      <4>2. 0 \notin Issued
        BY DEF Issued
      <4>3. QED
        BY <4>1, <4>2, OpenIs
    <3>2. OpenQuestions[x] # 0 /\ Settled[x] \subseteq Settled'[x] /\ Settled'[x] # Settled[x]
      BY <2>1, OpenNow DEF RecordsAnswer
    <3>3. Ledger!Settle(x, 0)
      BY <3>1, <3>2 DEF Ledger!Settle, Ledger!Becomes
    <3>4. QED
      BY <3>3 DEF Ledger!SessionStep
  <2>2. CASE x # s
    <3>1. \A y \in DOMAIN SweptIds \ {id} : pending_by_id'[y] = SweptIds[y]
      BY <1>1
    <3>2. QED
      BY <1>1, <2>2, <3>1, RecordsElsewhere
  <2>3. QED
    BY <2>1, <2>2
<1>5. QED
  BY <1>2, <1>3, <1>4 DEF Effects, IssuesOnce, RecordsAnswer

LEMMA AnswerV2Rotated ==
    ASSUME StoreInv, NEW id \in DOMAIN pending_by_id, NEW roster, NEW v,
           RecordsAnswer(id, roster, v),
           pending_by_id[id].slots \ roster # {}, next_id \in Ids, next_id' = next_id + 1,
           pending_by_id' = With(Without(SweptIds, {id}), next_id,
                                 Rotate(pending_by_id[id], pending_by_id[id].slots \ roster)),
           pending_by_session' = With(SweptSessions, pending_by_id[id].session, next_id)
    PROVE  StoreInv' /\ Effects
<1> DEFINE q == pending_by_id[id]
           c == ConversationOf(q)
           s == q.session
           old == conversations[c]
           remaining == q.slots \ roster
           q2 == Rotate(q, remaining)
           ids == Without(SweptIds, {id})
           rest == Without(SweptSessions, {s})
<1>1. /\ DOMAIN ids = DOMAIN SweptIds \ {id} /\ \A x \in DOMAIN ids : ids[x] = SweptIds[x]
      /\ DOMAIN rest = DOMAIN SweptSessions \ {s}
      /\ \A x \in DOMAIN rest : rest[x] = SweptSessions[x]
  BY DEF Without, Restrict
<1>2. /\ id \in DOMAIN SweptIds /\ q.version = "v2"
      /\ roster # {} /\ roster \subseteq q.slots
      /\ c \in DOMAIN conversations /\ c[1] = s /\ s \in Sessions
      /\ WellFormed(q) /\ FitsIn(q, old) /\ Sound(c, old)
      /\ v.decided = old.decided \cup roster /\ old.decided \cap roster = {}
      /\ v.asked = old.asked /\ v.assumptions = old.assumptions /\ v.basis = old.basis
      /\ DOMAIN conversations' = DOMAIN conversations /\ conversations'[c] = v
      /\ AllSound(conversations') /\ DecisionsStay
      /\ Settled[s] \subseteq Settled'[s] /\ Settled'[s] # Settled[s]
      /\ Indexed(ids, rest) /\ Resolvable(ids, conversations', next_id)
      /\ GuardsFit(retired', ids, next_id)
      /\ UNCHANGED revoked_sessions
  BY DEF RecordsAnswer
<1>3. /\ DOMAIN pending_by_id' = DOMAIN ids \cup {next_id} /\ pending_by_id'[next_id] = q2
      /\ \A x \in DOMAIN ids \ {next_id} : pending_by_id'[x] = ids[x]
      /\ DOMAIN pending_by_session' = DOMAIN SweptSessions \cup {s}
      /\ pending_by_session'[s] = next_id
      /\ \A x \in DOMAIN SweptSessions \ {s} : pending_by_session'[x] = SweptSessions[x]
  BY DEF With
<1>4. /\ MaxId \in Nat /\ next_id \in 1 .. MaxId /\ next_id' = next_id + 1
  BY LimitsAreNumbers DEF Ids
<1>5. /\ \A x \in DOMAIN SweptIds : x # next_id
      /\ \A m \in DOMAIN retired' : m \in Ids /\ m < next_id /\ m < next_id + 1 /\ m # next_id
  <2>1. /\ \A x \in DOMAIN SweptIds : x \in Ids /\ x < next_id
        /\ \A m \in DOMAIN retired' : m \in Ids /\ m < next_id
    BY <1>2, SweepFits DEF Resolvable, GuardsFit
  <2>2. QED
    BY <1>4, <2>1 DEF Ids
<1>6. q \in Questions /\ IsFiniteSet(q.slots) /\ OneSlotPerKey(q.slots) /\ remaining # {}
      /\ q.slots \in SUBSET Slots /\ IsFiniteSet(old.decided)
  BY <1>2 DEF WellFormed, Questions, Sound
<1>7. SweptIds[id] = q /\ s \in DOMAIN SweptSessions /\ Indexed(SweptIds, SweptSessions)
  BY <1>2, SweepFits DEF Indexed
<1> HIDE DEF ids, rest, q2, remaining, old, c, s, q
<1>8. /\ q2 \in Questions /\ q2.session = q.session /\ q2.version = q.version
      /\ q2.request = q.request /\ q2.basis = q.basis /\ q2.slots = remaining
      /\ q2.added = q.added /\ q2.round = q.round /\ q2.owner = None
  BY <1>6 DEF Questions, Owners, Rotate, q2, remaining
<1>9. ConversationOf(q2) = c /\ q2.session = s
  BY <1>8 DEF ConversationOf, c, s
<1>10. /\ IsFiniteSet(remaining)
       /\ Cardinality(v.decided) + Cardinality(remaining)
            = Cardinality(old.decided) + Cardinality(q.slots)
  <2> DEFINE before == old.decided
             slots == q.slots
  <2>1. /\ IsFiniteSet(before) /\ IsFiniteSet(slots) /\ roster \in SUBSET slots
        /\ before \cap roster = {} /\ v.decided = before \cup roster
        /\ remaining = slots \ roster
    BY <1>2, <1>6 DEF remaining
  <2> HIDE DEF before, slots
  <2>2. /\ IsFiniteSet(slots \ roster)
        /\ Cardinality(before \cup roster) + Cardinality(slots \ roster)
             = Cardinality(before) + Cardinality(slots)
    BY <2>1, DecisionsAdd
  <2>3. QED
    BY <2>1, <2>2 DEF before, slots
<1>11. WellFormed(q2)
  <2>1. OneSlotPerKey(remaining)
    BY <1>6 DEF OneSlotPerKey, remaining
  <2>2. q2.version # "v1"
    BY <1>2, <1>8
  <2>3. QED
    BY <1>8, <1>10, <2>1, <2>2 DEF WellFormed
<1>12. FitsIn(q2, v)
  <2>1. \A slot \in remaining : Follows(slot, v)
    <3>1. \A slot \in q.slots : Follows(slot, old)
      BY <1>2 DEF FitsIn
    <3>2. \A slot \in q.slots \ roster : Follows(slot, v)
      BY <1>2, <1>6, <3>1, StillFollows
    <3>3. QED
      BY <3>2 DEF remaining
  <2>2. q.round <= MaxRoundsV2
        /\ DecisionCount(old) + Cardinality(q.slots) <= MaxDecisions
    BY <1>2 DEF FitsIn
  <2>3. DecisionCount(v) + Cardinality(remaining) <= MaxDecisions
    BY <1>10, <2>2 DEF DecisionCount
  <2>4. remaining \subseteq v.asked /\ q.added \subseteq v.assumptions /\ q.basis = v.basis
    BY <1>2 DEF FitsIn, remaining
  <2>5. QED
    BY <1>2, <1>6, <1>8, <2>1, <2>2, <2>3, <2>4 DEF FitsIn
<1>13. StoreInv'
  <2>1. Indexed(pending_by_id', pending_by_session')
    <3>1. \A x \in DOMAIN ids : ids[x].session \in DOMAIN rest /\ rest[ids[x].session] = x
      BY <1>2 DEF Indexed
    <3>2. \A x \in DOMAIN rest : rest[x] \in DOMAIN ids /\ ids[rest[x]].session = x
      BY <1>2 DEF Indexed
    <3>3. \A x \in DOMAIN ids : x # next_id
      BY <1>1, <1>5
    <3>4. \A x \in DOMAIN rest : x # s /\ pending_by_session'[x] = rest[x]
      BY <1>1, <1>3
    <3>5. DOMAIN pending_by_session' = DOMAIN rest \cup {s}
      BY <1>1, <1>3
    <3>6. \A x \in DOMAIN ids : pending_by_id'[x] = ids[x]
      BY <1>3, <3>3
    <3>7. ASSUME NEW x \in DOMAIN pending_by_id'
          PROVE  /\ pending_by_id'[x].session \in DOMAIN pending_by_session'
                 /\ pending_by_session'[pending_by_id'[x].session] = x
      <4>1. CASE x = next_id
        BY <1>3, <1>9, <4>1
      <4>2. CASE x \in DOMAIN ids
        <5>1. pending_by_id'[x] = ids[x]
          BY <3>6, <4>2
        <5>2. ids[x].session \in DOMAIN rest /\ rest[ids[x].session] = x
          BY <3>1, <4>2
        <5>3. QED
          BY <3>4, <3>5, <5>1, <5>2
      <4>3. QED
        BY <1>3, <4>1, <4>2
    <3>8. ASSUME NEW x \in DOMAIN pending_by_session'
          PROVE  /\ pending_by_session'[x] \in DOMAIN pending_by_id'
                 /\ pending_by_id'[pending_by_session'[x]].session = x
      <4>1. CASE x = s
        BY <1>3, <1>9, <4>1
      <4>2. CASE x \in DOMAIN rest
        <5>1. pending_by_session'[x] = rest[x]
          BY <3>4, <4>2
        <5>2. rest[x] \in DOMAIN ids /\ ids[rest[x]].session = x
          BY <3>2, <4>2
        <5>3. pending_by_id'[rest[x]] = ids[rest[x]] /\ rest[x] \in DOMAIN pending_by_id'
          BY <1>3, <3>6, <5>2
        <5>4. QED
          BY <5>1, <5>2, <5>3
      <4>3. QED
        BY <3>5, <4>1, <4>2
    <3>9. QED
      BY <3>7, <3>8 DEF Indexed
  <2>2. Resolvable(pending_by_id', conversations', next_id')
    <3>1. pending_by_id' = With(ids, next_id, q2)
      BY DEF ids, q2, remaining, q
    <3>2. c \in DOMAIN conversations' /\ conversations'[c] = v
      BY <1>2
    <3>3. QED
      BY <1>2, <1>4, <1>9, <1>11, <1>12, <3>1, <3>2, AddResolvable
  <2>3. GuardsFit(retired', pending_by_id', next_id')
    <3>1. ASSUME NEW x \in DOMAIN pending_by_id', NEW m \in DOMAIN retired'
          PROVE  m # x /\ (retired'[m].session = pending_by_id'[x].session => m < x)
      <4>1. CASE x = next_id
        BY <1>5, <3>1, <4>1
      <4>2. CASE x # next_id
        <5>1. x \in DOMAIN ids /\ pending_by_id'[x] = ids[x]
          BY <1>3, <3>1, <4>2
        <5>2. GuardsFit(retired', ids, next_id)
          BY <1>2
        <5>3. QED
          BY <3>1, <5>1, <5>2 DEF GuardsFit
      <4>3. QED
        BY <4>1, <4>2
    <3>2. QED
      BY <1>2, <1>4, <1>5, <3>1 DEF GuardsFit
  <2>4. ErasedStay(revoked_sessions', pending_by_session', conversations')
    BY <1>2, <1>3, <1>7, SweepFits DEF ErasedStay
  <2>5. next_id' \in 1 .. MaxId + 1
    BY <1>4
  <2>6. QED
    BY <1>2, <2>1, <2>2, <2>3, <2>4, <2>5 DEF StoreInv
<1>14. ClaimsHonoured /\ GuardsLast
  <2>1. \A x \in DOMAIN SweptIds \ {id} : x \in DOMAIN pending_by_id'
    BY <1>1, <1>3
  <2>2. \A x \in DOMAIN pending_by_id' : x \in DOMAIN pending_by_id \/ x = next_id
    BY <1>1, <1>3, SweepFits
  <2>3. QED
    BY <2>1, <2>2, RecordsShows
<1>15. ASSUME NEW x \in Sessions PROVE Ledger!SessionStep(x)
  <2>1. CASE x = s
    <3>1. OpenQuestions'[x] = next_id /\ Claimants'[x] = None
      BY <1>3, <1>8, <2>1, OpenIs
    <3>2. next_id \notin Issued
      BY <1>4 DEF Issued
    <3>3. OpenQuestions[x] # 0 /\ Settled[x] \subseteq Settled'[x] /\ Settled'[x] # Settled[x]
      BY <1>2, <2>1, OpenNow DEF s, q
    <3>4. Ledger!Settle(x, next_id)
      BY <3>1, <3>2, <3>3 DEF Ledger!Settle, Ledger!Becomes
    <3>5. QED
      BY <3>4 DEF Ledger!SessionStep
  <2>2. CASE x # s
    <3>1. \A y \in DOMAIN SweptIds \ {id} : pending_by_id'[y] = SweptIds[y]
      BY <1>1, <1>3, <1>5
    <3>2. /\ x \in DOMAIN pending_by_session' <=> x \in DOMAIN SweptSessions
          /\ x \in DOMAIN SweptSessions => pending_by_session'[x] = SweptSessions[x]
      BY <1>3, <2>2
    <3>3. x # pending_by_id[id].session
      BY <2>2 DEF s, q
    <3>4. QED
      BY <3>1, <3>2, <3>3, RecordsElsewhere
  <2>3. QED
    BY <2>1, <2>2
<1>16. QED
  BY <1>2, <1>3, <1>4, <1>13, <1>14, <1>15 DEF Effects, IssuesOnce

LEMMA AnswerV2Step ==
    ASSUME StoreInv, NEW id \in DOMAIN pending_by_id, NEW t,
           NEW roster \in SUBSET pending_by_id[id].slots, AnswerV2(id, t, roster)
    PROVE  StoreInv' /\ Effects
<1>1. PICK v : RecordsAnswer(id, roster, v)
  BY AnswerV2Records
<1> DEFINE q == pending_by_id[id]
           remaining == q.slots \ roster
<1>2. \/ /\ pending_by_id' = Without(SweptIds, {id})
         /\ pending_by_session' = Without(SweptSessions, {q.session})
         /\ UNCHANGED next_id
      \/ /\ remaining # {} /\ next_id \in Ids /\ next_id' = next_id + 1
         /\ pending_by_id' = With(Without(SweptIds, {id}), next_id, Rotate(q, remaining))
         /\ pending_by_session' = With(SweptSessions, q.session, next_id)
  BY DEF AnswerV2
<1>3. CASE /\ pending_by_id' = Without(SweptIds, {id})
           /\ pending_by_session' = Without(SweptSessions, {q.session})
           /\ UNCHANGED next_id
  BY <1>1, <1>3, AnswerV2Closed
<1>4. CASE /\ remaining # {} /\ next_id \in Ids /\ next_id' = next_id + 1
           /\ pending_by_id' = With(Without(SweptIds, {id}), next_id, Rotate(q, remaining))
           /\ pending_by_session' = With(SweptSessions, q.session, next_id)
  BY <1>1, <1>4, AnswerV2Rotated
<1>5. QED
  BY <1>2, <1>3, <1>4

-----------------------------------------------------------------------------
(* Withdrawing and forgetting                                              *)

\* Conversations without decisions may come and go.
LEMMA SettledAlike ==
    ASSUME \A d \in DOMAIN conversations :
               \/ d \in DOMAIN conversations'
                  /\ conversations'[d].decided = conversations[d].decided
               \/ d \notin DOMAIN conversations' /\ conversations[d].decided = {},
           \A d \in DOMAIN conversations' : d \in DOMAIN conversations
    PROVE  Settled' = Settled
<1>1. ASSUME NEW s \in Sessions
      PROVE  UNION {{c} \X conversations'[c].decided : c \in {c \in DOMAIN conversations' : c[1] = s}}
                 = UNION {{c} \X conversations[c].decided : c \in {c \in DOMAIN conversations : c[1] = s}}
  OBVIOUS
<1>2. QED
  BY <1>1 DEF Settled, ConversationsOf

LEMMA DiscardStep ==
    ASSUME StoreInv, NEW s \in Sessions, NEW t, DiscardPendingForTurn(s, t)
    PROVE  StoreInv' /\ Effects
<1> DEFINE id == pending_by_session[s]
           q == pending_by_id[id]
           c == ConversationOf(q)
           old == conversations[c]
           undone == [old EXCEPT !.asked = @ \ q.slots, !.assumptions = @ \ q.added]
<1>1. /\ s \in DOMAIN pending_by_session
      /\ pending_by_id' = Without(pending_by_id, {id})
      /\ pending_by_session' = Without(pending_by_session, {s})
      /\ UNCHANGED <<retired, revoked_sessions, next_id>>
  BY DEF DiscardPendingForTurn
<1>2. conversations' = IF Empty(q.version, undone)
                       THEN Without(conversations, {c})
                       ELSE [conversations EXCEPT ![c] = undone]
  BY DEF DiscardPendingForTurn
<1>3. id \in DOMAIN pending_by_id /\ q.session = s
  BY <1>1, StoreFacts
<1>4. /\ c \in DOMAIN conversations /\ WellFormed(q) /\ FitsIn(q, old)
      /\ Sound(c, old) /\ c[1] = s /\ c[2] = q.version
  BY <1>3 DEF StoreInv, Resolvable, AllSound, ConversationOf
<1>5. /\ DOMAIN pending_by_id' = DOMAIN pending_by_id \ {id}
      /\ \A x \in DOMAIN pending_by_id' : pending_by_id'[x] = pending_by_id[x]
      /\ DOMAIN pending_by_session' = DOMAIN pending_by_session \ {s}
      /\ \A x \in DOMAIN pending_by_session' : pending_by_session'[x] = pending_by_session[x]
  BY <1>1 DEF Without, Restrict
<1>6. \A x \in DOMAIN pending_by_id' : ConversationOf(pending_by_id[x]) # c
  <2>1. \A x \in DOMAIN pending_by_id \ {id} : pending_by_id[x].session # s
    BY <1>3, Uniquely DEF StoreInv
  <2>2. QED
    BY <1>4, <1>5, <2>1 DEF ConversationOf
<1> HIDE DEF q, c, old, id
<1>7. /\ undone \in Conversations /\ undone.decided = old.decided /\ undone.rounds = old.rounds
      /\ undone.asked = old.asked \ q.slots
  <2>1. old \in Conversations
    BY <1>4 DEF Sound
  <2>2. QED
    BY <2>1 DEF Conversations
<1> HIDE DEF undone
<1>8. Sound(c, undone)
  <2>1. \A slot \in q.slots : slot \notin old.decided
    <3>1. \A slot \in q.slots : slot \in Slots /\ Follows(slot, old)
      BY <1>4 DEF FitsIn, WellFormed, Questions
    <3>2. QED
      BY <3>1, NextIsNew
  <2>2. QED
    BY <1>4, <1>7, <2>1 DEF Sound
<1>9. /\ \A d \in DOMAIN conversations \ {c} :
            d \in DOMAIN conversations' /\ conversations'[d] = conversations[d]
      /\ DOMAIN conversations' \subseteq DOMAIN conversations
      /\ c \in DOMAIN conversations' => conversations'[c] = undone
      /\ c \notin DOMAIN conversations' => DecisionCount(undone) = 0
  <2>1. CASE Empty(q.version, undone)
    <3>1. /\ DOMAIN conversations' = DOMAIN conversations \ {c}
          /\ \A d \in DOMAIN conversations' : conversations'[d] = conversations[d]
      BY <1>2, <2>1 DEF Without, Restrict
    <3>2. DecisionCount(undone) = 0
      BY <2>1 DEF Empty
    <3>3. QED
      BY <3>1, <3>2
  <2>2. CASE ~Empty(q.version, undone)
    BY <1>2, <1>4, <2>2
  <2>3. QED
    BY <2>1, <2>2
<1>10. c \notin DOMAIN conversations' => old.decided = {} /\ ~(DecisionCount(old) > 0)
  <2>1. DecisionCount(undone) = DecisionCount(old)
    BY <1>7 DEF DecisionCount
  <2>2. IsFiniteSet(old.decided)
    BY <1>4 DEF Sound
  <2>3. Cardinality(old.decided) = 0 => old.decided = {}
    BY <2>2, FS_EmptySet
  <2>4. QED
    BY <1>9, <2>1, <2>3 DEF DecisionCount
<1>11. \A d \in DOMAIN conversations :
          \/ /\ d \in DOMAIN conversations'
             /\ conversations'[d].decided = conversations[d].decided
             /\ conversations'[d].rounds = conversations[d].rounds
          \/ /\ d \notin DOMAIN conversations' /\ conversations[d].decided = {}
             /\ ~(DecisionCount(conversations[d]) > 0)
  BY <1>7, <1>9, <1>10 DEF old
<1>12. Settled' = Settled
  BY <1>9, <1>11, SettledAlike
<1>13. StoreInv'
  <2>1. Indexed(pending_by_id', pending_by_session')
    <3>1. Holding(pending_by_session, {id}) = {s}
      BY <1>3, HoldingOne DEF StoreInv, q
    <3>2. Indexed(Without(pending_by_id, {id}),
                  Without(pending_by_session, Holding(pending_by_session, {id})))
      BY RemoveIndexed DEF StoreInv
    <3>3. QED
      BY <1>1, <3>1, <3>2
  <2>2. Resolvable(pending_by_id', conversations', next_id')
    <3>1. Resolvable(pending_by_id, conversations, next_id)
      BY DEF StoreInv
    <3>2. QED
      BY <1>1, <1>5, <1>6, <1>9, <3>1 DEF Resolvable
  <2>3. AllSound(conversations')
    BY <1>8, <1>9 DEF StoreInv, AllSound
  <2>4. GuardsFit(retired', pending_by_id', next_id')
    BY <1>1, <1>5 DEF StoreInv, GuardsFit
  <2>5. ErasedStay(revoked_sessions', pending_by_session', conversations')
    BY <1>1, <1>5, <1>9 DEF StoreInv, ErasedStay
  <2>6. QED
    BY <1>1, <2>1, <2>2, <2>3, <2>4, <2>5 DEF StoreInv
<1>14. DecisionsStay
  <2>1. \A d \in DOMAIN conversations : conversations[d].rounds >= conversations[d].rounds
    BY DEF StoreInv, AllSound, Sound, Conversations
  <2>2. QED
    BY <1>11, <2>1 DEF DecisionsStay
<1>15. \A x \in DOMAIN retired : x \notin DOMAIN pending_by_id
  BY GuardsApart DEF StoreInv
<1>16. \A x \in DOMAIN pending_by_id : ConversationOf(pending_by_id[x]) \in DOMAIN conversations
  BY DEF StoreInv, Resolvable
<1>17. ClaimsHonoured
  BY <1>1, <1>11, <1>15, <1>16 DEF ClaimsHonoured
<1>18. GuardsLast
  <2>1. \A x \in DOMAIN retired : x \in GuardsOf(retired', retired[x].session)
    BY <1>1 DEF GuardsOf
  <2>2. QED
    BY <1>5, <1>11, <1>15, <1>16, <2>1 DEF GuardsLast
<1>19. ASSUME NEW x \in Sessions PROVE Ledger!SessionStep(x)
  <2>1. Settled'[x] = Settled[x]
    BY <1>12
  <2>2. CASE x = s
    <3>1. OpenQuestions'[x] = 0 /\ Claimants'[x] = None
      BY <1>5, <2>2, OpenIs
    <3>2. QED
      BY <2>1, <3>1 DEF Ledger!SessionStep, Ledger!Withdraw, Ledger!Becomes
  <2>3. CASE x # s
    BY <1>3, <1>5, <2>1, <2>3, OthersStay DEF q
  <2>4. QED
    BY <2>2, <2>3
<1>20. QED
  BY <1>1, <1>13, <1>14, <1>17, <1>18, <1>19 DEF Effects, IssuesOnce

LEMMA DropSessionStep ==
    ASSUME StoreInv, NEW s \in Sessions, NEW owner \in Owners, DropSession(s, owner)
    PROVE  StoreInv' /\ Effects
<1>1. /\ pending_by_session' = Without(pending_by_session, {s})
      /\ retired' = Without(retired, GuardsOf(retired, s))
      /\ conversations' = Without(conversations, ConversationsOf(s))
      /\ revoked_sessions' = GuardedSessions(s, owner)
      /\ UNCHANGED next_id
  BY DEF DropSession
<1>2. /\ DOMAIN pending_by_session' = DOMAIN pending_by_session \ {s}
      /\ \A x \in DOMAIN pending_by_session' : pending_by_session'[x] = pending_by_session[x]
      /\ DOMAIN conversations' = {c \in DOMAIN conversations : c[1] # s}
      /\ \A c \in DOMAIN conversations' : conversations'[c] = conversations[c]
      /\ DOMAIN retired' = {m \in DOMAIN retired : retired[m].session # s}
      /\ \A m \in DOMAIN retired' : retired'[m] = retired[m]
  BY <1>1 DEF Without, Restrict, ConversationsOf, GuardsOf
<1>3. /\ DOMAIN pending_by_id' = {id \in DOMAIN pending_by_id : pending_by_id[id].session # s}
      /\ \A id \in DOMAIN pending_by_id' : pending_by_id'[id] = pending_by_id[id]
  <2>1. CASE s \in DOMAIN pending_by_session
    <3>1. pending_by_id' = Without(pending_by_id, {pending_by_session[s]})
      BY <2>1 DEF DropSession
    <3>2. \A id \in DOMAIN pending_by_id :
             pending_by_id[id].session = s <=> id = pending_by_session[s]
      BY <2>1 DEF StoreInv, Indexed
    <3>3. QED
      BY <3>1, <3>2 DEF Without, Restrict
  <2>2. CASE s \notin DOMAIN pending_by_session
    <3>1. pending_by_id' = pending_by_id
      BY <2>2 DEF DropSession
    <3>2. \A id \in DOMAIN pending_by_id : pending_by_id[id].session # s
      BY <2>2 DEF StoreInv, Indexed
    <3>3. QED
      BY <3>1, <3>2
  <2>3. QED
    BY <2>1, <2>2
<1>4. Forgotten(s)
  BY <1>1, <1>2 DEF Forgotten, GuardsOf
<1>5. \A id \in DOMAIN pending_by_id :
         /\ ConversationOf(pending_by_id[id])[1] = pending_by_id[id].session
         /\ ConversationOf(pending_by_id[id]) \in DOMAIN conversations
  BY DEF ConversationOf, StoreInv, Resolvable
<1>6. StoreInv'
  <2>1. Indexed(pending_by_id', pending_by_session')
    BY <1>2, <1>3 DEF StoreInv, Indexed
  <2>2. Resolvable(pending_by_id', conversations', next_id')
    <3>1. Resolvable(pending_by_id, conversations, next_id)
      BY DEF StoreInv
    <3>2. \A id \in DOMAIN pending_by_id' :
             /\ id \in DOMAIN pending_by_id /\ pending_by_id'[id] = pending_by_id[id]
             /\ ConversationOf(pending_by_id[id]) \in DOMAIN conversations'
             /\ conversations'[ConversationOf(pending_by_id[id])]
                  = conversations[ConversationOf(pending_by_id[id])]
      BY <1>2, <1>3, <1>5
    <3>3. QED
      BY <1>1, <3>1, <3>2 DEF Resolvable
  <2>3. AllSound(conversations')
    BY <1>1, RemoveSound DEF StoreInv
  <2>4. GuardsFit(retired', pending_by_id', next_id')
    <3>1. GuardsFit(retired', pending_by_id, next_id)
      BY <1>1, FewerGuards DEF StoreInv
    <3>2. QED
      BY <1>1, <1>3, <3>1 DEF GuardsFit
  <2>5. ErasedStay(revoked_sessions', pending_by_session', conversations')
    <3>1. \A x \in DOMAIN revoked_sessions' :
             \/ x = s /\ revoked_sessions'[x] \in Turns
             \/ x \in DOMAIN revoked_sessions /\ revoked_sessions'[x] = revoked_sessions[x]
      BY <1>1 DEF GuardedSessions, With, Owners
    <3>2. QED
      BY <1>2, <3>1 DEF StoreInv, ErasedStay
  <2>6. QED
    BY <1>1, <2>1, <2>2, <2>3, <2>4, <2>5 DEF StoreInv
<1>7. DecisionsStay
  <2>1. \A c \in DOMAIN conversations : conversations[c].rounds >= conversations[c].rounds
    BY DEF StoreInv, AllSound, Sound, Conversations
  <2>2. QED
    BY <1>2, <1>4, <2>1 DEF DecisionsStay
<1>8. \A m \in DOMAIN retired : m \notin DOMAIN pending_by_id
  BY GuardsApart DEF StoreInv
<1>9. ClaimsHonoured
  BY <1>2, <1>3, <1>5, <1>8 DEF ClaimsHonoured
<1>10. GuardsLast
  <2>1. \A m \in DOMAIN retired :
           retired[m].session = s \/ m \in GuardsOf(retired', retired[m].session)
    BY <1>2 DEF GuardsOf
  <2>2. QED
    BY <1>2, <1>3, <1>4, <1>8, <2>1 DEF GuardsLast
<1>11. ASSUME NEW x \in Sessions PROVE Ledger!SessionStep(x)
  <2>1. /\ Settled[x] = UNION {{c} \X conversations[c].decided :
                                 c \in {c \in DOMAIN conversations : c[1] = x}}
        /\ Settled'[x] = UNION {{c} \X conversations'[c].decided :
                                  c \in {c \in DOMAIN conversations' : c[1] = x}}
    BY DEF Settled, ConversationsOf
  <2>2. CASE x = s
    <3>1. Settled'[x] = {}
      BY <1>2, <2>1, <2>2
    <3>2. OpenQuestions'[x] = 0 /\ Claimants'[x] = None
      BY <1>2, <2>2, OpenIs
    <3>3. QED
      BY <3>1, <3>2 DEF Ledger!SessionStep, Ledger!ForgetSession, Ledger!Becomes
  <2>3. CASE x # s
    <3>1. {c \in DOMAIN conversations' : c[1] = x} = {c \in DOMAIN conversations : c[1] = x}
      BY <1>2, <2>3
    <3>2. \A c \in {c \in DOMAIN conversations : c[1] = x} :
             conversations'[c].decided = conversations[c].decided
      BY <1>2, <2>3
    <3>3. Settled'[x] = Settled[x]
      BY <2>1, <3>1, <3>2
    <3>4. x \in DOMAIN pending_by_session =>
             /\ pending_by_session[x] \in DOMAIN pending_by_id'
             /\ pending_by_id'[pending_by_session[x]] = pending_by_id[pending_by_session[x]]
      BY <1>3, <2>3, StoreFacts
    <3>5. OpenQuestions'[x] = OpenQuestions[x] /\ Claimants'[x] = Claimants[x]
      BY <1>2, <2>3, <3>4, OpenIs
    <3>6. QED
      BY <3>3, <3>5 DEF Ledger!SessionStep, Ledger!Stays
  <2>4. QED
    BY <2>2, <2>3
<1>12. QED
  BY <1>1, <1>6, <1>7, <1>9, <1>10, <1>11 DEF Effects, IssuesOnce

LEMMA ClearStep ==
    ASSUME StoreInv, Clear
    PROVE  StoreInv' /\ Effects
<1>1. /\ DOMAIN pending_by_id' = {} /\ DOMAIN pending_by_session' = {}
      /\ DOMAIN conversations' = {} /\ DOMAIN retired' = {} /\ DOMAIN revoked_sessions' = {}
      /\ conversations' = <<>> /\ UNCHANGED next_id
  BY EmptyIs DEF Clear
<1>2. \A s : GuardsOf(retired', s) = {} /\ Forgotten(s)
  BY <1>1 DEF GuardsOf, Forgotten
<1>3. GuardsFit(retired', pending_by_id', next_id')
  <2>1. Cardinality({}) <= MaxRetired
    BY FS_EmptySet, LimitsAreNumbers
  <2>2. \A s \in Sessions : Cardinality(GuardsOf(retired', s)) <= MaxRetired
    BY <1>2, <2>1
  <2>3. QED
    BY <1>1, <2>2 DEF GuardsFit
<1>4. StoreInv'
  BY <1>1, <1>3 DEF StoreInv, Indexed, Resolvable, AllSound, ErasedStay
<1>5. DecisionsStay
  BY <1>2 DEF DecisionsStay
<1>6. ClaimsHonoured
  BY <1>1 DEF ClaimsHonoured
<1>7. GuardsLast
  BY <1>1, <1>2 DEF GuardsLast
<1>8. ASSUME NEW x \in Sessions PROVE Ledger!SessionStep(x)
  <2>1. Settled'[x] = {}
    BY <1>1 DEF Settled, ConversationsOf
  <2>2. OpenQuestions'[x] = 0 /\ Claimants'[x] = None
    BY <1>1, OpenIs
  <2>3. QED
    BY <2>1, <2>2 DEF Ledger!SessionStep, Ledger!ForgetSession, Ledger!Becomes
<1>9. QED
  BY <1>1, <1>4, <1>5, <1>6, <1>7, <1>8 DEF Effects, IssuesOnce

-----------------------------------------------------------------------------
(* The specification                                                       *)

LEMMA InitStep ==
    ASSUME Init
    PROVE  StoreInv /\ Ledger!Init
<1>1. /\ DOMAIN pending_by_id = {} /\ DOMAIN pending_by_session = {}
      /\ DOMAIN conversations = {} /\ DOMAIN retired = {} /\ DOMAIN revoked_sessions = {}
      /\ next_id = 1
  BY EmptyIs DEF Init
<1>2. GuardsFit(retired, pending_by_id, next_id)
  <2>1. Cardinality({}) <= MaxRetired
    BY FS_EmptySet, LimitsAreNumbers
  <2>2. \A s : GuardsOf(retired, s) = {}
    BY <1>1 DEF GuardsOf
  <2>3. QED
    BY <1>1, <2>1, <2>2 DEF GuardsFit
<1>3. next_id \in 1 .. MaxId + 1
  BY <1>1, LimitsAreNumbers
<1>4. StoreInv
  BY <1>1, <1>2, <1>3 DEF StoreInv, Indexed, Resolvable, AllSound, ErasedStay
<1>5. Ledger!Init
  <2>1. OpenQuestions = [s \in Sessions |-> 0] /\ Claimants = [s \in Sessions |-> None]
    BY <1>1 DEF OpenQuestions, Claimants
  <2>2. Settled = [s \in Sessions |-> {}]
    BY <1>1 DEF Settled, ConversationsOf
  <2>3. Issued = {}
    BY <1>1 DEF Issued
  <2>4. QED
    BY <2>1, <2>2, <2>3 DEF Ledger!Init
<1>6. QED
  BY <1>4, <1>5

LEMMA AskStep ==
    ASSUME StoreInv, Ask
    PROVE  StoreInv' /\ Effects
<1>1. PICK s \in Sessions, t \in Turns, r \in Requests, b \in Bases :
         \/ \E k \in Keys, A \in SUBSET Assumptions :
               CreatePending(s, t, r, b, k, A) \/ RefuseAssumptions(s, r, b, k, A)
         \/ \E slots \in SUBSET CandidateSlots : CreatePendingV2(s, t, r, b, slots)
  BY DEF Ask
<1>2. CASE \E k \in Keys, A \in SUBSET Assumptions :
               CreatePending(s, t, r, b, k, A) \/ RefuseAssumptions(s, r, b, k, A)
  BY <1>2, CreatePendingStep, RefuseStep
<1>3. CASE \E slots \in SUBSET CandidateSlots : CreatePendingV2(s, t, r, b, slots)
  BY <1>3, CreatePendingV2Step
<1>4. QED
  BY <1>1, <1>2, <1>3

LEMMA ClaimStep ==
    ASSUME StoreInv, Claim
    PROVE  StoreInv' /\ Effects
<1>1. CASE \E id \in DOMAIN pending_by_id, t \in Turns : ValidateAnswer(id, t)
  BY <1>1, ValidateAnswerStep
<1>2. CASE \E id \in DOMAIN pending_by_id, t \in Turns :
              \E roster \in SUBSET pending_by_id[id].slots : ValidateAnswersV2(id, t, roster)
  BY <1>2, ValidateAnswersV2Step
<1>3. CASE \E s \in Sessions, t \in Turns : ReleaseAnswerClaim(s, t)
  BY <1>3, ReleaseAnswerClaimStep
<1>4. QED
  BY <1>1, <1>2, <1>3 DEF Claim

LEMMA ResolveStep ==
    ASSUME StoreInv, Resolve
    PROVE  StoreInv' /\ Effects
<1>1. CASE \E id \in DOMAIN pending_by_id : ExpireOnAnswer(id)
  BY <1>1, ExpireOnAnswerStep
<1>2. CASE \E id \in DOMAIN pending_by_id, t \in Owners : Answer(id, t)
  BY <1>2, AnswerStep
<1>3. CASE \E id \in DOMAIN pending_by_id, t \in Owners :
              \E roster \in SUBSET pending_by_id[id].slots : AnswerV2(id, t, roster)
  BY <1>3, AnswerV2Step
<1>4. QED
  BY <1>1, <1>2, <1>3 DEF Resolve

LEMMA ForgetStep ==
    ASSUME StoreInv, Forget
    PROVE  StoreInv' /\ Effects
<1>1. CASE \E s \in Sessions, t \in Turns : DiscardPendingForTurn(s, t)
  BY <1>1, DiscardStep
<1>2. CASE \E s \in Sessions, t \in Turns : ReleaseRevocationGuard(s, t)
  BY <1>2, ReleaseGuardStep
<1>3. CASE \E s \in Sessions, t \in Owners : DropSession(s, t)
  BY <1>3, DropSessionStep
<1>4. CASE \E s \in Sessions, r \in Requests : SetLatestProposal(s, r)
  BY <1>4, ProposalStep
<1>5. CASE SweepExpired
  BY <1>5, SweepExpiredStep
<1>6. CASE Clear
  BY <1>6, ClearStep
<1>7. QED
  BY <1>1, <1>2, <1>3, <1>4, <1>5, <1>6 DEF Forget

LEMMA NextStep ==
    ASSUME StoreInv, Next
    PROVE  StoreInv' /\ Effects
  BY AskStep, ClaimStep, ResolveStep, ForgetStep, TickStep DEF Next

LEMMA Unmoved ==
    ASSUME StoreInv, UNCHANGED vars
    PROVE  StoreInv' /\ UNCHANGED <<OpenQuestions, Claimants, Settled, Issued>>
<1>1. UNCHANGED <<pending_by_id, pending_by_session, conversations, retired,
                  revoked_sessions, next_id>>
  BY DEF vars
<1>2. StoreInv'
  BY <1>1 DEF StoreInv
<1>3. UNCHANGED <<OpenQuestions, Claimants, Settled, Issued>>
  BY <1>1 DEF OpenQuestions, Claimants, Settled, ConversationsOf, Issued
<1>4. QED
  BY <1>2, <1>3

\* What the sessions do together is a step of the ledger.
LEMMA LedgerStep ==
    ASSUME StoreInv, StoreInv', IssuesOnce, \A s \in Sessions : Ledger!SessionStep(s)
    PROVE  Ledger!Next
<1>1. /\ next_id \in Nat /\ next_id >= 1 /\ next_id' \in Nat
      /\ \A id \in DOMAIN pending_by_id' : id \in Nat /\ id >= 1 /\ id < next_id'
  <2>1. /\ MaxId \in Nat /\ next_id \in 1 .. MaxId + 1 /\ next_id' \in 1 .. MaxId + 1
    BY LimitsAreNumbers DEF StoreInv
  <2>2. \A id \in DOMAIN pending_by_id' : id \in Ids /\ id < next_id'
    BY DEF StoreInv, Resolvable
  <2>3. QED
    BY <2>1, <2>2 DEF Ids
<1>2. /\ \A s \in DOMAIN pending_by_session' :
            /\ pending_by_session'[s] \in DOMAIN pending_by_id'
            /\ pending_by_id'[pending_by_session'[s]].session = s
      /\ \A id \in DOMAIN pending_by_id' :
            /\ pending_by_id'[id].session \in DOMAIN pending_by_session'
            /\ pending_by_session'[pending_by_id'[id].session] = id
            /\ pending_by_id'[id].session \in Sessions
  BY DEF StoreInv, Indexed, Resolvable, WellFormed, Questions
<1>3. \A s \in Sessions : OpenQuestions'[s] = IF s \in DOMAIN pending_by_session'
                                              THEN pending_by_session'[s] ELSE 0
  BY DEF OpenQuestions
<1>4. ASSUME NEW s \in Sessions, NEW t \in Sessions, s # t,
             OpenQuestions'[s] = OpenQuestions'[t]
      PROVE  OpenQuestions'[s] = 0
  <2>1. CASE s \in DOMAIN pending_by_session' /\ t \in DOMAIN pending_by_session'
    BY <1>2, <1>3, <1>4, <2>1
  <2>2. CASE s \notin DOMAIN pending_by_session' \/ t \notin DOMAIN pending_by_session'
    BY <1>3, <1>4, <2>2
  <2>3. QED
    BY <2>1, <2>2
<1>5. Issued' = (Issued \cup {OpenQuestions'[s] : s \in Sessions}) \ {0}
  <2> DEFINE opened == {OpenQuestions'[s] : s \in Sessions}
  <2>1. \A id \in opened : id = 0 \/ id \in DOMAIN pending_by_id'
    BY <1>2, <1>3
  <2>2. \A id \in DOMAIN pending_by_id' : id \in opened
    BY <1>2, <1>3
  <2> HIDE DEF opened
  <2>3. \A id \in opened : id = 0 \/ (id \in Nat /\ id >= 1 /\ id < next_id')
    BY <1>1, <2>1
  <2>4. /\ \A n : n \in Issued <=> n \in Nat /\ n >= 1 /\ n < next_id
        /\ \A n : n \in Issued' <=> n \in Nat /\ n >= 1 /\ n < next_id'
    BY <1>1 DEF Issued
  <2>5. \A n : n \in opened /\ n # 0 => n \in Issued'
    BY <2>3, <2>4
  <2>6. 0 \notin Issued'
    BY <2>4
  <2>7. CASE next_id' = next_id
    <3>1. Issued' = Issued
      BY <2>4, <2>7
    <3>2. Issued' = (Issued \cup opened) \ {0}
      BY <2>5, <2>6, <3>1
    <3>3. QED
      BY <3>2 DEF opened
  <2>8. CASE next_id' = next_id + 1 /\ next_id \in DOMAIN pending_by_id'
    <3>1. next_id \in opened
      BY <2>2, <2>8
    <3>2. \A n : n \in Issued' <=> n \in Issued \/ n = next_id
      BY <1>1, <2>4, <2>8
    <3>3. Issued' = (Issued \cup opened) \ {0}
      BY <2>5, <2>6, <3>1, <3>2
    <3>4. QED
      BY <3>3 DEF opened
  <2>9. QED
    BY <2>7, <2>8 DEF IssuesOnce
<1>6. QED
  BY <1>4, <1>5 DEF Ledger!Next

\* What holds of every state: the two indexes of the store hold the same questions, every
\* question can be answered, in version 1 no key is decided twice, the replay guards of a
\* session are bounded and older than its question, and a revoked session is empty.
THEOREM StoreSafety == Spec => []StoreInv
<1>1. Init => StoreInv
  BY InitStep
<1>2. StoreInv /\ [Next]_vars => StoreInv'
  BY NextStep, Unmoved
<1>3. QED
  BY <1>1, <1>2, PTL DEF Spec

\* The by-id and by-session indexes agree, have one question per session, and a session
\* whose erasure is guarded has neither question nor conversation.
THEOREM IndexesAgree == Spec => []StoreConsistent
<1>1. StoreInv => StoreConsistent
  <2> SUFFICES ASSUME StoreInv PROVE StoreConsistent
    OBVIOUS
  <2>1. TypeOK
    <3>1. /\ DOMAIN pending_by_id \subseteq Ids
          /\ \A id \in DOMAIN pending_by_id : id < next_id /\ pending_by_id[id] \in Questions
          /\ DOMAIN pending_by_session \subseteq Sessions
          /\ \A s \in DOMAIN pending_by_session : pending_by_session[s] \in Ids
          /\ DOMAIN retired \subseteq Ids
          /\ \A id \in DOMAIN retired : id < next_id /\ retired[id] \in RetiredIds
      BY StoreFacts
    <3>2. /\ DOMAIN conversations \subseteq Sessions \X Versions \X Requests
          /\ \A c \in DOMAIN conversations : conversations[c] \in Conversations
      BY DEF StoreInv, AllSound, Sound
    <3>3. /\ DOMAIN revoked_sessions \subseteq Sessions
          /\ \A s \in DOMAIN revoked_sessions : revoked_sessions[s] \in Turns
          /\ next_id \in 1 .. MaxId + 1
      BY DEF StoreInv, ErasedStay
    <3>4. QED
      BY <3>1, <3>2, <3>3 DEF TypeOK
  <2>2. RevokedStaysEmpty
    BY DEF RevokedStaysEmpty, ConversationsOf, StoreInv, ErasedStay
  <2>3. QED
    BY <2>1, <2>2 DEF StoreConsistent, StoreInv, Indexed
<1>2. QED
  BY <1>1, StoreSafety, PTL

\* An answer to an open question can be recorded whenever it comes: its conversation, its
\* slots, its round and the room for its decisions are still there.
THEOREM QuestionsCanBeAnswered == Spec => []QuestionResolvable
<1>1. StoreInv => QuestionResolvable
  BY DEF StoreInv, Resolvable, FitsIn, QuestionResolvable
<1>2. QED
  BY <1>1, StoreSafety, PTL

\* No decision is lost and no round given back, but by forgetting the session.
THEOREM DecisionsLast == Spec => DecisionsAreKept
<1>1. StoreInv /\ [Next]_vars => [DecisionsStay]_vars
  BY NextStep DEF Effects
<1>2. QED
  BY <1>1, StoreSafety, PTL DEF Spec, DecisionsAreKept

\* A claimed question is closed by the answer that claimed it, and does not expire.
THEOREM ClaimsAreHonoured == Spec => ClaimIsHonoured
<1>1. StoreInv /\ [Next]_vars => [ClaimsHonoured]_vars
  BY NextStep DEF Effects
<1>2. QED
  BY <1>1, StoreSafety, PTL DEF Spec, ClaimIsHonoured

\* No decision is recorded without a guard against its replay, and a guard lasts a TTL
\* unless MaxRetired younger ones push it out.
THEOREM GuardsOutliveReplays == Spec => ReplayGuardLasts
<1>1. StoreInv /\ [Next]_vars => [GuardsLast]_vars
  BY NextStep DEF Effects
<1>2. QED
  BY <1>1, StoreSafety, PTL DEF Spec, ReplayGuardLasts

\* The store implements the ledger: an identifier is asked once, a held question is
\* let go or closed before another turn holds it or a new one is asked, and only its
\* answer settles anything.
THEOREM LedgerIsImplemented == Spec => ImplementsLedger
<1>1. Init => Ledger!Init
  BY InitStep
<1>2. StoreInv /\ [Next]_vars
        => Ledger!Next \/ UNCHANGED <<OpenQuestions, Claimants, Settled, Issued>>
  <2>1. ASSUME StoreInv, Next PROVE Ledger!Next
    BY <2>1, NextStep, LedgerStep DEF Effects
  <2>2. QED
    BY <2>1, Unmoved
<1>3. StoreInv /\ [Next]_vars => [Ledger!Next]_(Ledger!ledgerVars)
  BY <1>2 DEF Ledger!ledgerVars
<1>4. QED
  BY <1>1, <1>3, StoreSafety, PTL DEF Spec, ImplementsLedger, Ledger!Spec
===============================================================================
