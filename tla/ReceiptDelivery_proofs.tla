------------------------ MODULE ReceiptDelivery_proofs ------------------------
(***************************************************************************)
(* Proofs about ReceiptDelivery: for any number of clients, nonces and     *)
(* faults, journal, anchor and caches follow the broker's chain in this    *)
(* order, and a restarted client returns with the anchor's present state.  *)
(***************************************************************************)
EXTENDS ReceiptDelivery, SequenceTheorems, TLAPS

Phases == {"idle", "waiting", "received", "advancing", "replaying"}
Stages == {"reading", "consumed", "executed", "issued", "journal", "reply"}
Connections == [client : Clients \cup {None}, call : Calls]
Served == [client : Clients \cup {None}, call : Calls, stage : Stages, duplicate : BOOLEAN]
Advances == [expected : Seq(Calls), receipt : Calls, tries : {0, 1}]
Exchanging(c) == phase[c] \in {"advancing", "replaying"}

\* The broker's part of the state.
CoreType ==
  /\ bound \in [Nonces -> Requests \cup {None}]
  /\ open \in Nonces \cup {None}
  /\ chain \in Seq(Calls)

DTypeOK ==
  /\ CoreType
  /\ backlog \subseteq Connections /\ served \in Served \cup {None}
  /\ journal \in Seq(Calls) /\ anchor \in Seq(Calls)
  /\ phase \in [Clients -> Phases]
  /\ got \in [Clients -> Calls \cup {None}]
  /\ cache \in [Clients -> Seq(Calls)]
  /\ advance \in [Clients -> Advances \cup {None}]
  /\ patient \in Clients \cup {None}

\* A nonce has one receipt: a nonce with a receipt stays bound and is not open.
ChainInv ==
  /\ open # None => bound[open] # None
  /\ \A i \in DOMAIN chain : bound[chain[i].nonce] # None /\ open # chain[i].nonce
  /\ \A i, j \in DOMAIN chain : chain[i].nonce = chain[j].nonce => i = j

Journalled(r) == \E i \in DOMAIN journal : journal[i] = r

\* Nothing is answered, held or exchanged before it is in the journal.
FlowInv ==
  /\ AtService("reply") => Journalled(Receipt)
  /\ \A c \in Clients :
       /\ phase[c] = "received" => got[c] \in Calls /\ Journalled(got[c])
       /\ Exchanging(c) => advance[c] \in Advances /\ Journalled(advance[c].receipt)
       /\ phase[c] = "replaying" => cache[c] = <<>>

DInv == DTypeOK /\ ChainInv /\ FlowInv /\ EachFollowsItsSource

-----------------------------------------------------------------------------
(* Prefixes *)

LEMMA PrefixPointwise ==
  ASSUME NEW S, NEW s \in Seq(S), NEW t \in Seq(S)
  PROVE  Prefix(s, t) <=> Len(s) <= Len(t) /\ \A i \in 1 .. Len(s) : s[i] = t[i]
<1> DEFINE u == SubSeq(t, 1, Len(s))
<1> SUFFICES ASSUME Len(s) <= Len(t)
             PROVE  s = u <=> \A i \in 1 .. Len(s) : s[i] = t[i]
  BY DEF Prefix
<1>1. Len(s) \in Nat /\ Len(t) \in Nat
  BY LenProperties
<1>2. \A i \in 1 .. Len(s) : t[i] \in S
  BY <1>1, ElementOfSeq
<1>3. u \in Seq(S) /\ Len(u) = Len(s) /\ \A i \in 1 .. Len(s) : u[i] = t[i]
  BY <1>1, <1>2, SubSeqProperties
<1>4. ASSUME \A i \in 1 .. Len(s) : s[i] = t[i] PROVE s = u
  BY <1>3, <1>4, SeqEqual
<1>5. QED
  BY <1>3, <1>4

LEMMA PrefixOfItself == ASSUME NEW S, NEW s \in Seq(S) PROVE Prefix(s, s) /\ Prefix(<<>>, s)
<1> DEFINE e == <<>>
<1>1. e \in Seq(S) /\ Len(e) = 0
  BY EmptySeq
<1> HIDE DEF e
<1>2. Len(s) \in Nat
  BY LenProperties
<1>3. Prefix(s, s)
  BY <1>2, PrefixPointwise
<1>4. Len(e) <= Len(s) /\ \A i \in 1 .. Len(e) : e[i] = s[i]
  BY <1>1, <1>2
<1>5. Prefix(e, s)
  BY <1>1, <1>4, PrefixPointwise
<1>6. QED
  BY <1>3, <1>5 DEF e

\* What follows a prefix of a sequence may be appended to either.
LEMMA PrefixAppend ==
  ASSUME NEW S, NEW s \in Seq(S), NEW t \in Seq(S), NEW r \in S, Prefix(s, t)
  PROVE  /\ Prefix(s, Append(t, r))
         /\ Len(s) + 1 \in DOMAIN t /\ t[Len(s) + 1] = r => Prefix(Append(s, r), t)
<1>1. Len(s) \in Nat /\ Len(t) \in Nat /\ DOMAIN t = 1 .. Len(t)
  BY LenProperties
<1>2. Len(s) <= Len(t) /\ \A i \in 1 .. Len(s) : s[i] = t[i]
  BY PrefixPointwise
<1>3. Prefix(s, Append(t, r))
  <2> DEFINE u == Append(t, r)
  <2>1. /\ u \in Seq(S) /\ Len(u) = Len(t) + 1
        /\ \A i \in 1 .. Len(t) : u[i] = t[i]
    BY AppendProperties
  <2> HIDE DEF u
  <2>2. Prefix(s, u)
    BY <1>1, <1>2, <2>1, PrefixPointwise
  <2>3. QED
    BY <2>2 DEF u
<1>4. ASSUME Len(s) + 1 \in DOMAIN t, t[Len(s) + 1] = r PROVE Prefix(Append(s, r), t)
  <2> DEFINE u == Append(s, r)
  <2>1. /\ u \in Seq(S) /\ Len(u) = Len(s) + 1
        /\ \A i \in 1 .. Len(s) : u[i] = s[i]
        /\ u[Len(s) + 1] = r
    BY AppendProperties
  <2> HIDE DEF u
  <2>2. \A i \in 1 .. Len(u) : u[i] = t[i]
    BY <1>1, <1>2, <1>4, <2>1
  <2>3. Prefix(u, t)
    BY <1>1, <1>4, <2>1, <2>2, PrefixPointwise
  <2>4. QED
    BY <2>3 DEF u
<1>5. QED
  BY <1>3, <1>4

-----------------------------------------------------------------------------
(* The broker core *)

\* Every step of the delivery is a step of the abstract receipt chain.
LEMMA BrokerStep == ASSUME DTypeOK, [DNext]_dvars PROVE [Next]_vars
<1>1. ASSUME DNext PROVE [Next]_vars
  <2>1. ASSUME served \in Served PROVE Call \in Calls
    BY <2>1 DEF Served, Call
  <2>2. CASE ServiceStep
    <3> USE DEF vars, core
    <3>1. CASE RecoverPending \/ FailExecution
      BY <3>1 DEF RecoverPending, FailExecution, Next
    <3>2. CASE AnswerDuplicate \/ AnswerFresh
      BY <3>2 DEF AnswerDuplicate, AnswerFresh, Positions, Next
    <3>3. CASE ConsumeNonce \/ Execute \/ IssueReceipt
      <4>1. Call \in Calls
        BY <2>1, <3>3 DEF ConsumeNonce, Execute, IssueReceipt, AtService, DTypeOK
      <4>2. Call.nonce \in Nonces /\ Call.request \in Requests
        BY <4>1 DEF Calls
      <4>3. QED
        BY <3>3, <4>2 DEF ConsumeNonce, Execute, IssueReceipt, Next
    <3>4. QED
      BY <2>2, <3>1, <3>2, <3>3
      DEF ServiceStep, Accept, RefuseNonce, JournalTail, JournalNext, JournalRefuses, Reply
  <2>3. CASE CrashService
    BY <2>3 DEF CrashService, vars, core
  <2>4. ASSUME NEW c, ClientStep(c) \/ Abandon(c) \/ Lose(c) \/ Replay(c) \/ RestartClient(c)
        PROVE  [Next]_vars
    BY <2>4 DEF ClientStep, Consider, Reject, Exchange, Abandon, Lose, Replay, RestartClient, vars, core
  <2>5. ASSUME NEW c, NEW call \in Calls, Submit(c, call) \/ PatientSubmit(c, call) PROVE [Next]_vars
    BY <2>5 DEF PatientSubmit, Submit, vars, core
  <2>6. QED
    BY <1>1, <2>2, <2>3, <2>4, <2>5 DEF DNext, AtWork, Free
<1>2. CASE UNCHANGED dvars
  BY <1>2 DEF dvars, vars
<1>3. QED
  BY <1>1, <1>2

LEMMA ChainNonces == ASSUME CoreType PROVE \A i \in DOMAIN chain : chain[i].nonce \in Nonces
<1>1. \A i \in DOMAIN chain : chain[i] \in Calls
  BY DEF CoreType
<1>2. QED
  BY <1>1 DEF Calls

LEMMA CoreStep ==
  ASSUME CoreType, ChainInv, [Next]_vars
  PROVE  /\ CoreType' /\ ChainInv'
         /\ chain' = chain \/ \E r \in Calls : chain' = Append(chain, r)
<1>1. CASE UNCHANGED vars
  BY <1>1 DEF vars, CoreType, ChainInv
<1>2. ASSUME NEW n \in Nonces, NEW q \in Requests, Bind(n, q)
      PROVE  CoreType' /\ ChainInv' /\ chain' = chain
  <2>1. CoreType'
    BY <1>2 DEF Bind, CoreType
  <2>2. \A m \in Nonces : bound'[m] = IF m = n THEN q ELSE bound[m]
    BY <1>2 DEF Bind, CoreType
  <2>3. \A i \in DOMAIN chain : chain[i].nonce \in Nonces
    BY ChainNonces
  <2>4. ChainInv'
    BY <1>2, <2>2, <2>3, NoneIsNoRequest DEF Bind, ChainInv
  <2>5. QED
    BY <1>2, <2>1, <2>4 DEF Bind
<1>3. ASSUME NEW n \in Nonces, Run(n) PROVE CoreType' /\ ChainInv' /\ chain' = chain
  BY <1>3 DEF Run, CoreType, ChainInv
<1>4. ASSUME NEW n \in Nonces, Issue(n)
      PROVE  CoreType' /\ ChainInv' /\ \E r \in Calls : chain' = Append(chain, r)
  <2> DEFINE r == [nonce |-> n, request |-> bound[n]]
  <2>1. r \in Calls
    BY <1>4, NoneIsNoNonce DEF Issue, CoreType, ChainInv, Calls
  <2>2. /\ chain' \in Seq(Calls) /\ Len(chain') = Len(chain) + 1
        /\ \A i \in 1 .. Len(chain) : chain'[i] = chain[i]
        /\ chain'[Len(chain) + 1] = r
    BY <1>4, <2>1, AppendProperties DEF Issue, CoreType
  <2>3. /\ DOMAIN chain = 1 .. Len(chain) /\ DOMAIN chain' = 1 .. Len(chain) + 1
        /\ Len(chain) \in Nat
    BY <2>2, LenProperties DEF CoreType
  <2>4. CoreType'
    BY <1>4, <2>2 DEF Issue, CoreType
  <2>5. \A i \in DOMAIN chain' :
          chain'[i].nonce = IF i \in DOMAIN chain THEN chain[i].nonce ELSE n
    BY <2>2, <2>3
  <2>6. \A i \in DOMAIN chain : chain[i].nonce # n /\ chain[i].nonce \in Nonces
    BY <1>4, ChainNonces DEF Issue, ChainInv
  <2>7. ChainInv'
    BY <1>4, <2>3, <2>5, <2>6, NoneIsNoNonce DEF Issue, ChainInv
  <2>8. QED
    BY <1>4, <2>1, <2>4, <2>7 DEF Issue
<1>5. CASE GiveUp
  <2>1. \A i \in DOMAIN chain : chain[i].nonce \in Nonces
    BY ChainNonces
  <2>2. QED
    BY <1>5, <2>1, NoneIsNoNonce DEF GiveUp, CoreType, ChainInv
<1>6. ASSUME NEW i, Answer(i) PROVE CoreType' /\ ChainInv' /\ chain' = chain
  BY <1>6 DEF Answer, CoreType, ChainInv
<1>7. QED
  BY <1>1, <1>2, <1>3, <1>4, <1>5, <1>6 DEF Next

-----------------------------------------------------------------------------
(* What a step does to journal, anchor and caches *)

LEMMA ReceiptIsCall == ASSUME DTypeOK, served # None PROVE served \in Served /\ Receipt \in Calls
<1>1. served \in Served /\ Call \in Calls
  BY DEF DTypeOK, Served, Call
<1>2. QED
  BY <1>1 DEF Receipt, Calls

LEMMA JournalStep ==
  ASSUME DTypeOK, [DNext]_dvars
  PROVE  \/ journal' = journal
         \/ /\ Receipt \in Calls /\ Follows(Receipt, journal)
            /\ journal' = Append(journal, Receipt) /\ chain' = chain
<1>1. CASE JournalNext
  BY <1>1, ReceiptIsCall DEF JournalNext, AtService, core
<1>2. CASE ServiceStep /\ ~JournalNext
  BY <1>2 DEF ServiceStep, Accept, RecoverPending, AnswerDuplicate, RefuseNonce, ConsumeNonce,
     Execute, FailExecution, IssueReceipt, AnswerFresh, JournalTail, JournalRefuses, Reply, service
<1>3. CASE CrashService
  BY <1>3 DEF CrashService
<1>4. ASSUME NEW c, ClientStep(c) \/ Abandon(c) \/ Lose(c) \/ Replay(c) \/ RestartClient(c)
      PROVE  journal' = journal
  BY <1>4 DEF ClientStep, Consider, Reject, Exchange, Abandon, Lose, Replay, RestartClient, service
<1>5. ASSUME NEW c, NEW call \in Calls, Submit(c, call) \/ PatientSubmit(c, call)
      PROVE  journal' = journal
  BY <1>5 DEF PatientSubmit, Submit
<1>6. CASE UNCHANGED dvars
  BY <1>6 DEF dvars
<1>7. QED
  BY <1>1, <1>2, <1>3, <1>4, <1>5, <1>6 DEF DNext

LEMMA WorkersAreClients ==
  ASSUME DTypeOK PROVE AtWork \subseteq Clients /\ Free \subseteq Clients /\ AtWork \ Free \subseteq Clients
BY DEF DTypeOK, AtWork, Free

LEMMA AnchorStep ==
  ASSUME DTypeOK, FlowInv, [DNext]_dvars
  PROVE  \/ anchor' = anchor
         \/ /\ \E r \in Calls : /\ Journalled(r) /\ Follows(r, anchor)
                                /\ anchor' = Append(anchor, r)
            /\ chain' = chain /\ journal' = journal
<1>1. CASE ServiceStep
  BY <1>1 DEF ServiceStep, Accept, RecoverPending, AnswerDuplicate, RefuseNonce, ConsumeNonce,
     Execute, FailExecution, IssueReceipt, AnswerFresh, JournalTail, JournalNext, JournalRefuses, Reply
<1>2. CASE CrashService
  BY <1>2 DEF CrashService
<1>3. ASSUME NEW c \in Clients, Exchange(c) \/ Lose(c)
      PROVE  \/ anchor' = anchor
             \/ /\ \E r \in Calls : /\ Journalled(r) /\ Follows(r, anchor)
                                    /\ anchor' = Append(anchor, r)
                /\ chain' = chain /\ journal' = journal
  <2>1. Exchanging(c) /\ anchor' \in {anchor, AnchorAfter(advance[c])}
    BY <1>3 DEF Exchange, Lose, Exchanging
  <2>2. advance[c].receipt \in Calls /\ Journalled(advance[c].receipt)
    BY <2>1 DEF FlowInv, Advances
  <2>3. chain' = chain /\ journal' = journal
    BY <1>3 DEF Exchange, Lose, core, service
  <2>4. CASE IsNext(advance[c])
    BY <2>1, <2>2, <2>3, <2>4 DEF AnchorAfter, IsNext
  <2>5. CASE ~IsNext(advance[c])
    BY <2>1, <2>5 DEF AnchorAfter
  <2>6. QED
    BY <2>4, <2>5
<1>4. ASSUME NEW c, Consider(c) \/ Reject(c) \/ Abandon(c) \/ Replay(c) \/ RestartClient(c)
      PROVE  anchor' = anchor
  BY <1>4 DEF Consider, Reject, Abandon, Replay, RestartClient
<1>5. ASSUME NEW c, NEW call \in Calls, Submit(c, call) \/ PatientSubmit(c, call)
      PROVE  anchor' = anchor
  BY <1>5 DEF PatientSubmit, Submit
<1>6. CASE UNCHANGED dvars
  BY <1>6 DEF dvars
<1>7. QED
  BY <1>1, <1>2, <1>3, <1>4, <1>5, <1>6, WorkersAreClients DEF DNext, ClientStep

\* A cache changes to the anchor's new state, or is lost.
LEMMA CacheStep ==
  ASSUME DTypeOK, [DNext]_dvars, NEW c \in Clients
  PROVE  cache'[c] \in {cache[c], anchor', <<>>}
<1>1. CASE ServiceStep
  BY <1>1 DEF ServiceStep, Accept, RecoverPending, AnswerDuplicate, RefuseNonce, ConsumeNonce,
     Execute, FailExecution, IssueReceipt, AnswerFresh, JournalTail, JournalNext, JournalRefuses,
     Reply, client
<1>2. CASE CrashService
  BY <1>2 DEF CrashService
<1>3. ASSUME NEW d \in Clients, Exchange(d) PROVE cache'[c] \in {cache[c], anchor'}
  BY <1>3 DEF Exchange, DTypeOK
<1>4. ASSUME NEW d \in Clients, RestartClient(d) PROVE cache'[c] \in {cache[c], <<>>}
  BY <1>4 DEF RestartClient, DTypeOK
<1>5. ASSUME NEW d, Consider(d) \/ Reject(d) \/ Abandon(d) \/ Lose(d) \/ Replay(d)
      PROVE  cache' = cache
  BY <1>5 DEF Consider, Reject, Abandon, Lose, Replay
<1>6. ASSUME NEW d, NEW call \in Calls, Submit(d, call) \/ PatientSubmit(d, call)
      PROVE  cache' = cache
  BY <1>6 DEF PatientSubmit, Submit
<1>7. CASE UNCHANGED dvars
  BY <1>7 DEF dvars
<1>8. QED
  BY <1>1, <1>2, <1>3, <1>4, <1>5, <1>6, <1>7, WorkersAreClients DEF DNext, ClientStep

-----------------------------------------------------------------------------
(* Each file follows its source *)

\* A receipt has one place, in the chain and so in the journal.
LEMMA SamePlace ==
  ASSUME DInv, NEW r \in Calls, Journalled(r), Follows(r, anchor)
  PROVE  Len(anchor) + 1 \in DOMAIN journal /\ journal[Len(anchor) + 1] = r
<1>1. chain \in Seq(Calls) /\ journal \in Seq(Calls) /\ anchor \in Seq(Calls) /\ Prefix(journal, chain)
  BY DEF DInv, DTypeOK, CoreType, EachFollowsItsSource
<1>2. PICK i \in DOMAIN journal : journal[i] = r
  BY DEF Journalled
<1>3. PICK j \in DOMAIN chain : chain[j] = r /\ j = Len(anchor) + 1
  BY DEF Follows, Positions
<1>4. i \in DOMAIN chain /\ chain[i] = r
  BY <1>1, <1>2, PrefixPointwise, LenProperties
<1>5. i = j
  BY <1>3, <1>4 DEF DInv, ChainInv
<1>6. QED
  BY <1>2, <1>3, <1>5

LEMMA FollowsStep ==
  ASSUME DInv, [DNext]_dvars PROVE EachFollowsItsSource'
<1> USE DEF EachFollowsItsSource
<1>1. /\ chain \in Seq(Calls) /\ journal \in Seq(Calls) /\ anchor \in Seq(Calls)
      /\ \A c \in Clients : cache[c] \in Seq(Calls)
      /\ EachFollowsItsSource
  BY DEF DInv, DTypeOK, CoreType
<1>2. chain' = chain \/ \E r \in Calls : chain' = Append(chain, r)
  BY BrokerStep, CoreStep DEF DInv, DTypeOK
<1>3. Prefix(journal', chain')
  <2>1. CASE journal' = journal
    BY <1>1, <1>2, <2>1, PrefixAppend
  <2>2. CASE journal' = Append(journal, Receipt) /\ Receipt \in Calls /\ Follows(Receipt, journal) /\ chain' = chain
    BY <1>1, <2>2, PrefixAppend DEF Follows, Positions
  <2>3. QED
    BY <2>1, <2>2, JournalStep DEF DInv
<1>4. Prefix(anchor', journal') /\ anchor' \in Seq(Calls)
  <2>1. CASE anchor' = anchor /\ journal' = journal
    BY <1>1, <2>1
  <2>2. CASE anchor' = anchor /\ journal' = Append(journal, Receipt) /\ Receipt \in Calls
    BY <1>1, <2>2, PrefixAppend
  <2>3. ASSUME NEW r \in Calls, Journalled(r), Follows(r, anchor), anchor' = Append(anchor, r), journal' = journal
        PROVE  Prefix(anchor', journal') /\ anchor' \in Seq(Calls)
    BY <1>1, <2>3, SamePlace, PrefixAppend, AppendProperties
  <2>4. QED
    BY <2>1, <2>2, <2>3, AnchorStep, JournalStep DEF DInv
<1>5. ASSUME NEW c \in Clients PROVE Prefix(cache'[c], anchor')
  <2>1. CASE cache'[c] = cache[c]
    <3>1. anchor' = anchor \/ \E r \in Calls : anchor' = Append(anchor, r)
      BY AnchorStep DEF DInv
    <3>2. QED
      BY <1>1, <2>1, <3>1, PrefixAppend
  <2>2. CASE cache'[c] \in {anchor', <<>>}
    BY <1>4, <2>2, PrefixOfItself
  <2>3. QED
    BY <2>1, <2>2, CacheStep DEF DInv
<1>6. QED
  BY <1>3, <1>4, <1>5

-----------------------------------------------------------------------------
(* Types *)

\* The connections a client left behind are connections.
LEMMA OrphanType ==
  ASSUME DTypeOK, NEW c, Orphan(c)
  PROVE  backlog' \subseteq Connections /\ served' \in Served \cup {None}
<1>1. \A b \in Connections : [b EXCEPT !.client = IF @ = c THEN None ELSE @] \in Connections
  BY DEF Connections
<1>2. \A b \in Served : [b EXCEPT !.client = IF @ = c THEN None ELSE @] \in Served
  BY DEF Served
<1>3. QED
  BY <1>1, <1>2 DEF DTypeOK, Orphan

LEMMA ServiceType ==
  ASSUME DTypeOK, CoreType', ServiceStep \/ CrashService
  PROVE  DTypeOK'
<1> USE DEF core, client, run
<1>1. CASE Accept
  <2>1. \A b \in backlog : [client |-> b.client, call |-> b.call, stage |-> "reading", duplicate |-> FALSE] \in Served
    BY DEF DTypeOK, Connections, Served, Stages
  <2>2. QED
    BY <1>1, <2>1 DEF Accept, DTypeOK
<1>2. ASSUME served # None, NEW st \in Stages, NEW d \in BOOLEAN
      PROVE  /\ [served EXCEPT !.stage = st] \in Served
             /\ [served EXCEPT !.stage = st, !.duplicate = d] \in Served
  BY <1>2 DEF DTypeOK, Served
<1>3. CASE \/ RecoverPending \/ AnswerDuplicate \/ ConsumeNonce \/ Execute \/ IssueReceipt
           \/ AnswerFresh \/ JournalTail
  <2>1. served' \in Served \cup {None}
    BY <1>2, <1>3 DEF RecoverPending, AnswerDuplicate, ConsumeNonce, Execute, IssueReceipt,
       AnswerFresh, JournalTail, AtService, GoService, Stages, DTypeOK, service
  <2>2. QED
    BY <1>3, <2>1 DEF RecoverPending, AnswerDuplicate, ConsumeNonce, Execute, IssueReceipt,
       AnswerFresh, JournalTail, DTypeOK, service
<1>4. CASE JournalNext
  <2>1. served' \in Served
    BY <1>2, <1>4 DEF JournalNext, AtService, GoService, Stages
  <2>2. journal' \in Seq(Calls)
    BY <1>4, ReceiptIsCall, AppendProperties DEF JournalNext, AtService, DTypeOK
  <2>3. QED
    BY <1>4, <2>1, <2>2 DEF JournalNext, DTypeOK
<1>5. ASSUME Close PROVE served' = None /\ phase' \in [Clients -> Phases]
  BY <1>5 DEF Close, DTypeOK, Phases
<1>6. CASE RefuseNonce \/ FailExecution \/ JournalRefuses \/ CrashService
  BY <1>5, <1>6 DEF RefuseNonce, FailExecution, JournalRefuses, CrashService, Fault, DTypeOK
<1>7. CASE Reply
  <2>1. Receipt \in Calls
    BY <1>7, ReceiptIsCall DEF Reply, AtService
  <2>2. QED
    BY <1>7, <2>1 DEF Reply, DTypeOK, Phases
<1>8. QED
  BY <1>1, <1>3, <1>4, <1>6, <1>7 DEF ServiceStep

LEMMA ClientType ==
  ASSUME DInv, CoreType', anchor' \in Seq(Calls), NEW c \in Clients,
         ClientStep(c) \/ Abandon(c) \/ Lose(c) \/ Replay(c) \/ RestartClient(c)
  PROVE  DTypeOK'
<1> USE DEF core, service, run, DInv
<1>1. CASE Consider(c)
  <2>1. [expected |-> cache[c], receipt |-> got[c], tries |-> 0] \in Advances
    BY <1>1 DEF Consider, DTypeOK, FlowInv, Advances
  <2>2. QED
    BY <1>1, <2>1 DEF Consider, DTypeOK, Phases
<1>2. CASE Reject(c)
  BY <1>2 DEF Reject, DTypeOK, Phases
<1>3. CASE Exchange(c)
  <2>1. cache' = cache \/ cache' = [cache EXCEPT ![c] = anchor']
    BY <1>3 DEF Exchange
  <2>2. cache' \in [Clients -> Seq(Calls)]
    BY <2>1 DEF DTypeOK
  <2>3. QED
    BY <1>3, <2>2 DEF Exchange, DTypeOK, Phases
<1>4. CASE Abandon(c)
  BY <1>4, OrphanType DEF Abandon, Fault, DTypeOK, Phases
<1>5. CASE Lose(c)
  <2>1. Exchanging(c)
    BY <1>5 DEF Lose, Exchanging
  <2>2. [advance[c] EXCEPT !.tries = 1] \in Advances
    BY <2>1 DEF FlowInv, Advances
  <2>3. advance' \in [Clients -> Advances \cup {None}] /\ phase' \in [Clients -> Phases]
    BY <1>5, <2>2 DEF Lose, DTypeOK, Phases
  <2>4. QED
    BY <1>5, <2>3 DEF Lose, Fault, DTypeOK
<1>6. CASE Replay(c)
  <2>1. Last(journal) \in Calls
    BY <1>6, LenProperties, ElementOfSeq DEF Replay, DTypeOK, Last
  <2>2. [expected |-> journal, receipt |-> Last(journal), tries |-> 0] \in Advances
    BY <2>1 DEF DTypeOK, Advances
  <2>3. QED
    BY <1>6, <2>2 DEF Replay, DTypeOK, Phases
<1>7. CASE RestartClient(c)
  <2>1. <<>> \in Seq(Calls)
    BY EmptySeq
  <2>2. QED
    BY <1>7, <2>1, OrphanType DEF RestartClient, Fault, DTypeOK, Phases
<1>8. QED
  BY <1>1, <1>2, <1>3, <1>4, <1>5, <1>6, <1>7 DEF ClientStep


LEMMA TypeStep == ASSUME DInv, [DNext]_dvars PROVE DTypeOK'
<1> USE DEF DInv
<1>1. CoreType'
  BY BrokerStep, CoreStep DEF DTypeOK
<1>2. anchor' \in Seq(Calls)
  <2>1. anchor \in Seq(Calls) /\ (anchor' = anchor \/ \E r \in Calls : anchor' = Append(anchor, r))
    BY AnchorStep DEF DTypeOK
  <2>2. QED
    BY <2>1, AppendProperties
<1>3. ASSUME NEW c \in Clients, NEW call \in Calls, Submit(c, call) \/ PatientSubmit(c, call)
      PROVE  DTypeOK'
  <2>1. Submit(c, call)
    BY <1>3 DEF PatientSubmit
  <2>2. [client |-> c, call |-> call] \in Connections
    BY DEF Connections
  <2>3. QED
    BY <1>1, <2>1, <2>2 DEF Submit, DTypeOK, Phases, run
<1>4. CASE UNCHANGED dvars
  BY <1>4 DEF dvars, DTypeOK, CoreType
<1>5. QED
  BY <1>1, <1>2, <1>3, <1>4, ServiceType, ClientType, WorkersAreClients DEF DNext

-----------------------------------------------------------------------------
(* What is on its way is in the journal *)

\* The journal only grows.
LEMMA JournalGrows ==
  ASSUME DTypeOK, [DNext]_dvars, NEW r, Journalled(r) PROVE Journalled(r)'
<1>1. CASE journal' = journal
  BY <1>1 DEF Journalled
<1>2. CASE Receipt \in Calls /\ journal' = Append(journal, Receipt)
  <2>1. /\ \A i \in DOMAIN journal : i \in DOMAIN journal' /\ journal'[i] = journal[i]
    BY <1>2 DEF DTypeOK
  <2>2. QED
    BY <2>1 DEF Journalled
<1>3. QED
  BY <1>1, <1>2, JournalStep

LEMMA HeadIsJournalled ==
  ASSUME NEW r, journal \in Seq(Calls), IsHead(r, journal) PROVE Journalled(r)
BY DEF IsHead, Last, Journalled

LEMMA ServiceFlow ==
  ASSUME DInv, ServiceStep \/ CrashService PROVE FlowInv'
<1> USE DEF DInv
<1>1. DNext
  BY DEF DNext
\* Clients only lose what they had.
<1>2. ASSUME ~AtService("reply")', UNCHANGED <<got, cache, advance>>,
             \A c \in Clients : phase'[c] \in {phase[c], "idle"}
      PROVE  FlowInv'
  BY <1>1, <1>2, JournalGrows DEF FlowInv, Exchanging
<1>3. CASE \/ Accept \/ RecoverPending \/ AnswerDuplicate \/ ConsumeNonce \/ Execute
           \/ IssueReceipt \/ AnswerFresh
  <2>1. CASE Accept
    BY <1>2, <2>1 DEF Accept, AtService, client
  <2>2. CASE RecoverPending
    BY <1>2, <2>2 DEF RecoverPending, AtService, client, service
  <2>3. ASSUME served # None, NEW st, st # "reply",
               \/ served' = [served EXCEPT !.stage = st]
               \/ served' = [served EXCEPT !.stage = st, !.duplicate = TRUE]
        PROVE  ~AtService("reply")'
    BY <2>3 DEF AtService, DTypeOK, Served
  <2>4. ~AtService("reply")' \/ Accept \/ RecoverPending
    BY <1>3, <2>3 DEF AnswerDuplicate, ConsumeNonce, Execute, IssueReceipt, AnswerFresh,
       AtService, GoService
  <2>5. UNCHANGED client
    BY <1>3 DEF Accept, RecoverPending, AnswerDuplicate, ConsumeNonce, Execute, IssueReceipt, AnswerFresh
  <2>6. QED
    BY <1>2, <2>1, <2>2, <2>4, <2>5 DEF client
<1>4. CASE RefuseNonce \/ FailExecution \/ JournalRefuses \/ CrashService
  <2>1. UNCHANGED <<got, cache, advance>> /\ Close
    BY <1>4 DEF RefuseNonce, FailExecution, JournalRefuses, CrashService
  <2>2. QED
    BY <1>2, <2>1 DEF Close, AtService
<1>5. CASE JournalTail \/ JournalNext
  <2>1. Journalled(Receipt)'
    <3>1. served' = [served EXCEPT !.stage = "reply"] /\ served \in Served
      BY <1>5, ReceiptIsCall DEF JournalTail, JournalNext, GoService, AtService
    <3>2. Receipt' = Receipt
      BY <3>1 DEF Served, Receipt, Call
    <3>3. CASE JournalTail
      BY <1>1, <3>2, <3>3, HeadIsJournalled, JournalGrows DEF JournalTail, DTypeOK
    <3>4. CASE JournalNext
      <4>1. Receipt \in Calls /\ journal \in Seq(Calls) /\ journal' = Append(journal, Receipt)
        BY <3>4, ReceiptIsCall DEF JournalNext, AtService, DTypeOK
      <4>2. Len(journal) + 1 \in DOMAIN journal' /\ journal'[Len(journal) + 1] = Receipt
        BY <4>1
      <4>3. QED
        BY <3>2, <4>2 DEF Journalled
    <3>5. QED
      BY <1>5, <3>3, <3>4
  <2>2. UNCHANGED client
    BY <1>5 DEF JournalTail, JournalNext
  <2>3. QED
    BY <1>1, <2>1, <2>2, JournalGrows DEF FlowInv, Exchanging, client
<1>6. CASE Reply
  <2>1. PICK r \in Calls : r = Receipt /\ Journalled(r)
    BY <1>6, ReceiptIsCall DEF Reply, AtService, FlowInv
  <2>2. ~AtService("reply")'
    BY <1>6 DEF Reply, AtService
  <2>3. QED
    BY <1>6, <2>1, <2>2 DEF Reply, FlowInv, Exchanging, Journalled, DTypeOK
<1>7. QED
  BY <1>3, <1>4, <1>5, <1>6 DEF ServiceStep

LEMMA ClientFlow ==
  ASSUME DInv, NEW c \in Clients,
         ClientStep(c) \/ Abandon(c) \/ Lose(c) \/ Replay(c) \/ RestartClient(c)
  PROVE  FlowInv'
<1> USE DEF DInv
<1>1. journal' = journal
  BY DEF ClientStep, Consider, Reject, Exchange, Abandon, Lose, Replay, RestartClient, service
<1>2. AtService("reply")' => AtService("reply") /\ Receipt' = Receipt
  <2>1. served' = served \/ Orphan(c)
    BY DEF ClientStep, Consider, Reject, Exchange, Abandon, Lose, Replay, RestartClient, service
  <2>2. CASE Orphan(c)
    BY <2>2 DEF Orphan, AtService, Receipt, Call, DTypeOK, Served
  <2>3. QED
    BY <2>1, <2>2 DEF AtService, Receipt, Call
<1>3. ASSUME NEW d \in Clients, d # c
      PROVE  UNCHANGED <<phase[d], got[d], cache[d], advance[d]>>
  BY <1>3 DEF ClientStep, Consider, Reject, Exchange, Abandon, Lose, Replay, RestartClient, DTypeOK
<1>4. /\ phase'[c] = "received" => FALSE
      /\ Exchanging(c)' => advance'[c] \in Advances /\ Journalled(advance'[c].receipt)
      /\ phase'[c] = "replaying" => cache'[c] = <<>>
  <2>1. CASE Consider(c)
    <3>1. [expected |-> cache[c], receipt |-> got[c], tries |-> 0] \in Advances /\ Journalled(got[c])
      BY <2>1 DEF Consider, DTypeOK, FlowInv, Advances
    <3>2. QED
      BY <2>1, <3>1 DEF Consider, DTypeOK
  <2>2. CASE Reject(c) \/ Exchange(c) \/ Abandon(c) \/ RestartClient(c)
    BY <2>2 DEF Reject, Exchange, Abandon, RestartClient, Exchanging, DTypeOK
  <2>3. CASE Lose(c)
    <3>1. Exchanging(c)
      BY <2>3 DEF Lose, Exchanging
    <3>2. [advance[c] EXCEPT !.tries = 1] \in Advances
          /\ [advance[c] EXCEPT !.tries = 1].receipt = advance[c].receipt
      BY <3>1 DEF FlowInv, Advances
    <3>3. QED
      BY <2>3, <3>1, <3>2 DEF Lose, FlowInv, Exchanging, DTypeOK
  <2>4. CASE Replay(c)
    <3>1. Last(journal) \in Calls /\ Journalled(Last(journal))
      BY <2>4 DEF Replay, DTypeOK, Last, Journalled
    <3>2. [expected |-> journal, receipt |-> Last(journal), tries |-> 0] \in Advances
      BY <3>1 DEF DTypeOK, Advances
    <3>3. QED
      BY <2>4, <3>1, <3>2 DEF Replay, DTypeOK
  <2>5. QED
    BY <2>1, <2>2, <2>3, <2>4 DEF ClientStep
<1>5. QED
  BY <1>1, <1>2, <1>3, <1>4 DEF FlowInv, Exchanging, Journalled

LEMMA FlowStep == ASSUME DInv, [DNext]_dvars PROVE FlowInv'
<1>1. ASSUME NEW c \in Clients, NEW call \in Calls, Submit(c, call) \/ PatientSubmit(c, call)
      PROVE  FlowInv'
  <2>1. Submit(c, call)
    BY <1>1 DEF PatientSubmit
  <2>2. QED
    BY <2>1 DEF Submit, DInv, DTypeOK, FlowInv, Exchanging, Journalled, AtService, Receipt, Call
<1>2. CASE UNCHANGED dvars
  BY <1>2 DEF dvars, DInv, FlowInv, Exchanging, Journalled, AtService, Receipt, Call
<1>3. QED
  BY <1>1, <1>2, ServiceFlow, ClientFlow, WorkersAreClients DEF DNext, DInv

-----------------------------------------------------------------------------
(* Theorems *)

LEMMA DInitInv == DInit => DInv
<1> SUFFICES ASSUME DInit PROVE DInv
  OBVIOUS
<1> USE DEF DInit, Init
<1>1. <<>> \in Seq(Calls) /\ DOMAIN <<>> = {}
  BY EmptySeq
<1>2. DTypeOK
  BY <1>1 DEF DTypeOK, CoreType, Phases
<1>3. ChainInv /\ FlowInv
  BY <1>1 DEF ChainInv, FlowInv, AtService, Exchanging
<1>4. EachFollowsItsSource
  BY <1>1, PrefixOfItself DEF EachFollowsItsSource
<1>5. QED
  BY <1>2, <1>3, <1>4 DEF DInv

LEMMA DInvStep == DInv /\ [DNext]_dvars => DInv'
<1>1. ASSUME DInv, [DNext]_dvars PROVE ChainInv'
  BY <1>1, BrokerStep, CoreStep DEF DInv, DTypeOK
<1>2. QED
  BY <1>1, TypeStep, FlowStep, FollowsStep DEF DInv

\* Types, and what every exchange relies on: a nonce has one receipt, and what
\* is answered, held or exchanged is in the journal already.
THEOREM DeliverySafety == DSpec => []DInv
BY DInitInv, DInvStep, PTL DEF DSpec

\* The public journal holds only the chain's receipts, the anchor only the
\* journal's, a cache only the anchor's, each from the first on
\* (PublicReceiptJournal.append, ProtectedAnchorService.advance, and
\* ProtectedAnchorClient.advance), with any number of clients and faults.
THEOREM SourcesAreFollowed == DSpec => []EachFollowsItsSource
BY DeliverySafety, PTL DEF DInv

LEMMA RestartStep ==
  ASSUME DInv, [DNext]_dvars, NEW c \in Clients, phase[c] = "replaying", cache'[c] # cache[c]
  PROVE  cache'[c] = anchor
<1> USE DEF DInv
<1>1. cache[c] = <<>>
  BY DEF FlowInv
<1>2. ASSUME Exchange(c) PROVE cache'[c] = anchor
  <2>1. StatusAllowed(c) /\ cache'[c] = AnchorAfter(advance[c])
    BY <1>2 DEF Exchange, DTypeOK
  <2>2. IsReplay(advance[c])
    BY <2>1 DEF StatusAllowed
  <2>3. QED
    BY <2>1, <2>2 DEF IsReplay, AnchorAfter, IsNext
<1>3. ASSUME NEW d \in Clients, d # c, Exchange(d) \/ RestartClient(d) PROVE cache'[c] = cache[c]
  BY <1>3 DEF Exchange, RestartClient, DTypeOK
<1>4. ASSUME RestartClient(c) PROVE cache'[c] = <<>>
  BY <1>4 DEF RestartClient, DTypeOK
<1>5. ASSUME NEW d, Consider(d) \/ Reject(d) \/ Abandon(d) \/ Lose(d) \/ Replay(d)
      PROVE  cache' = cache
  BY <1>5 DEF Consider, Reject, Abandon, Lose, Replay
<1>6. ASSUME NEW d, NEW call \in Calls, Submit(d, call) \/ PatientSubmit(d, call)
      PROVE  cache' = cache
  BY <1>6 DEF PatientSubmit, Submit
<1>7. ServiceStep \/ CrashService \/ UNCHANGED dvars => cache' = cache
  BY DEF ServiceStep, CrashService, Accept, RecoverPending, AnswerDuplicate, RefuseNonce,
     ConsumeNonce, Execute, FailExecution, IssueReceipt, AnswerFresh, JournalTail, JournalNext,
     JournalRefuses, Reply, client, dvars
<1>8. QED
  BY <1>1, <1>2, <1>3, <1>4, <1>5, <1>6, <1>7, WorkersAreClients DEF DNext, ClientStep

\* A restarted client is back only with the anchor's state of that moment
\* (replay_protected_journal: the anchor has to find the journal's head
\* idempotent), whatever the journal and the other clients did meanwhile.
THEOREM RestartsAreCurrent == DSpec => RestartIsCurrent
<1>1. DInv /\ [DNext]_dvars =>
        [\A c \in Clients :
           phase[c] = "replaying" /\ cache'[c] # cache[c] => cache'[c] = anchor]_dvars
  BY RestartStep
<1>2. QED
  BY <1>1, DeliverySafety, PTL DEF DSpec, RestartIsCurrent

\* The service uses the broker only as the receipt chain allows: what
\* ProtectedBroker implements is all that the delivery takes for granted.
THEOREM DeliveryUsesTheChain == DSpec => Spec
<1>1. DInit => Init
  BY DEF DInit
<1>2. DInv /\ [DNext]_dvars => [Next]_vars
  BY BrokerStep DEF DInv
<1>3. QED
  BY <1>1, <1>2, DeliverySafety, PTL DEF DSpec, Spec
=============================================================================
