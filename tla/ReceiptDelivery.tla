--------------------------- MODULE ReceiptDelivery ---------------------------
(* How receipts reach their consumers: the serial service around the broker   *)
(* (runtime/w3_broker_service.py), the public receipt journal it writes       *)
(* before it answers (runtime/w3_installed_worker.py), the protected anchor   *)
(* (runtime/w3_anchor_service.py) and the clients that submit requests and    *)
(* advance the anchor (src/metis_model1/w3_broker_client.py).                 *)
(*                                                                            *)
(* The broker core is the abstract receipt chain, which ProtectedBroker       *)
(* implements.  A receipt is its nonce and request; its sequence is its       *)
(* position in the chain, its previous hash the receipt at the position       *)
(* before.  An anchor state, and so its digest, is the sequence of receipts   *)
(* it accepted.  Signatures, keys, releases and policies are always valid,    *)
(* nobody replaces a file, and the anchor's own log is never torn.            *)
EXTENDS ReceiptChain, FiniteSets

CONSTANTS
  Clients,    \* processes with a BrokerClient and its ReceiptConsumer
  MaxFaults   \* bound: crashes, restarts and losses of a run

VARIABLES
  backlog,    \* connections not yet accepted: their client and their call
  served,     \* the connection being served, or None
  journal,    \* the complete receipts of the public journal
  torn,       \* whether a partial receipt follows them
  anchor,     \* the receipts the anchor service accepted
  phase,      \* where each client is
  want,       \* the call each client submitted, or None
  got,        \* the receipt each client received, or None
  cache,      \* the anchor state each client holds
  advance,    \* the ADVANCE each client exchanges, or None
  faults,     \* how many faults happened
  patient     \* the client that works alone and retries, or None

core == <<bound, open, ran, chain, answers>>
service == <<backlog, served, journal, torn>>
client == <<phase, want, got, cache, advance>>
run == <<faults, patient>>
dvars == <<bound, open, ran, chain, answers, backlog, served, journal, torn, anchor,
           phase, want, got, cache, advance, faults, patient>>

Calls == [nonce : Nonces, request : Requests]
Positions(r) == {i \in DOMAIN chain : chain[i] = r}
Last(s) == s[Len(s)]
Front(s) == SubSeq(s, 1, Len(s) - 1)
Prefix(s, t) == Len(s) <= Len(t) /\ s = SubSeq(t, 1, Len(s))

(* The receipt r has the next sequence after s and names its last as previous. *)
Follows(r, s) ==
  \E i \in Positions(r) :
    /\ i = Len(s) + 1
    /\ s # <<>> => chain[i - 1] = Last(s)

IsHead(r, s) == s # <<>> /\ Last(s) = r

DInit ==
  /\ Init
  /\ backlog = {}
  /\ served = None
  /\ journal = <<>>
  /\ torn = FALSE
  /\ anchor = <<>>
  /\ phase = [c \in Clients |-> "idle"]
  /\ want = [c \in Clients |-> None]
  /\ got = [c \in Clients |-> None]
  /\ cache = [c \in Clients |-> <<>>]
  /\ advance = [c \in Clients |-> None]
  /\ faults = 0
  /\ patient \in Clients \union {None}

Fault ==
  /\ faults < MaxFaults
  /\ faults' = faults + 1
  /\ UNCHANGED patient

------------------------------------------------------------------------------
(* Clients submit. *)

(* BrokerClient.submit opens a connection; a client may resubmit any nonce. *)
Submit(c, call) ==
  /\ phase[c] = "idle"
  /\ phase' = [phase EXCEPT ![c] = "waiting"]
  /\ want' = [want EXCEPT ![c] = call]
  /\ backlog' = backlog \union {[client |-> c, call |-> call]}
  /\ UNCHANGED <<core, served, journal, torn, anchor, got, cache, advance, run>>

(* What a client leaves behind: its connections stay, without a reader. *)
Orphan(c) ==
  /\ backlog' = {[b EXCEPT !.client = IF @ = c THEN None ELSE @] : b \in backlog}
  /\ served' = IF served = None THEN None
               ELSE [served EXCEPT !.client = IF @ = c THEN None ELSE @]

(* A timeout of the client: the service does not notice. *)
Abandon(c) ==
  /\ phase[c] = "waiting"
  /\ Fault
  /\ phase' = [phase EXCEPT ![c] = "idle"]
  /\ Orphan(c)
  /\ UNCHANGED <<core, journal, torn, anchor, want, got, cache, advance>>

------------------------------------------------------------------------------
(* The service: one connection at a time. *)

AtService(s) == served # None /\ served.stage = s
GoService(s) == served' = [served EXCEPT !.stage = s]
Call == served.call
Receipt == [nonce |-> Call.nonce, request |-> Call.request]

(* The connection is closed without an answer; a waiting client sees an error. *)
Close ==
  /\ served' = None
  /\ phase' = [c \in Clients |-> IF c = served.client THEN "idle" ELSE phase[c]]

Accept ==
  /\ served = None
  /\ \E b \in backlog :
       /\ backlog' = backlog \ {b}
       /\ served' = [client |-> b.client, call |-> b.call, stage |-> "reading", duplicate |-> FALSE]
  /\ UNCHANGED <<core, journal, torn, anchor, client, run>>

(* _recover_pending: what an earlier crash left open is given up. *)
RecoverPending ==
  /\ AtService("reading")
  /\ GiveUp
  /\ UNCHANGED <<service, anchor, client, run>>

(* handle finds the durable receipt of the call. *)
AnswerDuplicate ==
  /\ AtService("reading")
  /\ open = None
  /\ \E i \in Positions(Receipt) : Answer(i)
  /\ served' = [served EXCEPT !.stage = "journal", !.duplicate = TRUE]
  /\ UNCHANGED <<backlog, journal, torn, anchor, client, run>>

(* NONCE_CONSUMED_NO_RECEIPT *)
RefuseNonce ==
  /\ AtService("reading")
  /\ open = None
  /\ bound[Call.nonce] # None
  /\ Positions(Receipt) = {}
  /\ Close
  /\ UNCHANGED <<core, backlog, journal, torn, anchor, want, got, cache, advance, run>>

ConsumeNonce ==
  /\ AtService("reading")
  /\ Bind(Call.nonce, Call.request)
  /\ GoService("consumed")
  /\ UNCHANGED <<backlog, journal, torn, anchor, client, run>>

Execute ==
  /\ AtService("consumed")
  /\ Run(Call.nonce)
  /\ GoService("executed")
  /\ UNCHANGED <<backlog, journal, torn, anchor, client, run>>

FailExecution ==
  /\ AtService("executed")
  /\ GiveUp
  /\ Close
  /\ UNCHANGED <<backlog, journal, torn, anchor, want, got, cache, advance, run>>

IssueReceipt ==
  /\ AtService("executed")
  /\ Issue(Call.nonce)
  /\ GoService("issued")
  /\ UNCHANGED <<backlog, journal, torn, anchor, client, run>>

AnswerFresh ==
  /\ AtService("issued")
  /\ \E i \in Positions(Receipt) : Answer(i)
  /\ GoService("journal")
  /\ UNCHANGED <<backlog, journal, torn, anchor, client, run>>

(* PublicReceiptJournal.append: the current tail again changes nothing. *)
JournalTail ==
  /\ AtService("journal")
  /\ IsHead(Receipt, journal)
  /\ GoService("reply")
  /\ UNCHANGED <<core, backlog, journal, torn, anchor, client, run>>

(* Faulty variant: a torn receipt is not cut off, and hides what follows it.  *)
JournalAfterTorn ==
  /\ AtService("journal")
  /\ Follows(Receipt, journal)
  /\ journal' = IF torn THEN journal ELSE Append(journal, Receipt)
  /\ GoService("reply")
  /\ UNCHANGED <<core, backlog, torn, anchor, client, run>>

(* Faulty variant: The journal does not compare sequences: it takes any receipt but its tail. *)
JournalAnything ==
  /\ AtService("journal")
  /\ ~ IsHead(Receipt, journal)
  /\ journal' = Append(journal, Receipt)
  /\ torn' = FALSE
  /\ GoService("reply")
  /\ UNCHANGED <<core, backlog, anchor, client, run>>

(* The next receipt is appended, in place of a torn one. *)
JournalNext ==
  /\ AtService("journal")
  /\ Follows(Receipt, journal)
  /\ journal' = Append(journal, Receipt)
  /\ torn' = FALSE
  /\ GoService("reply")
  /\ UNCHANGED <<core, backlog, anchor, client, run>>

(* PUBLIC_JOURNAL_CHAIN_MISMATCH, PUBLIC_JOURNAL_GENESIS_MISMATCH *)
JournalRefuses ==
  /\ AtService("journal")
  /\ ~ IsHead(Receipt, journal)
  /\ ~ Follows(Receipt, journal)
  /\ Close
  /\ UNCHANGED <<core, backlog, journal, torn, anchor, want, got, cache, advance, run>>

Reply ==
  /\ AtService("reply")
  /\ served' = None
  /\ phase' = [c \in Clients |-> IF c = served.client THEN "received" ELSE phase[c]]
  /\ got' = [c \in Clients |-> IF c = served.client THEN Receipt ELSE got[c]]
  /\ UNCHANGED <<core, backlog, journal, torn, anchor, want, cache, advance, run>>

(* The service stops and launchd starts it again; the listener stays.  A crash *)
(* while a receipt is appended to the journal may leave a part of it.          *)
CrashService ==
  /\ served # None
  /\ Fault
  /\ torn' \in IF AtService("journal") /\ Follows(Receipt, journal) THEN {torn, TRUE} ELSE {torn}
  /\ Close
  /\ UNCHANGED <<core, backlog, journal, anchor, want, got, cache, advance>>

------------------------------------------------------------------------------
(* Clients accept receipts through the anchor. *)

(* ReceiptConsumer.accept and ProtectedAnchorClient.advance, before the wire. *)
Consider(c) ==
  /\ phase[c] = "received"
  /\ IsHead(got[c], cache[c]) \/ Follows(got[c], cache[c])
  /\ phase' = [phase EXCEPT ![c] = "advancing"]
  /\ advance' = [advance EXCEPT ![c] = [expected |-> cache[c], receipt |-> got[c], tries |-> 0]]
  /\ UNCHANGED <<core, service, anchor, want, got, cache, run>>

(* A regression, a gap or a fork. *)
Reject(c) ==
  /\ phase[c] = "received"
  /\ ~ IsHead(got[c], cache[c])
  /\ ~ Follows(got[c], cache[c])
  /\ phase' = [phase EXCEPT ![c] = "idle"]
  /\ UNCHANGED <<core, service, anchor, want, got, cache, advance, run>>

(* Faulty variant: A replay is idempotent only when it is expected from the present state. *)
IsReplayOfPresent(a) ==
  /\ IsHead(a.receipt, anchor)
  /\ a.expected = anchor

(* ProtectedAnchorService.advance: the head again, expected from its state or  *)
(* from the state before it, is idempotent; the next receipt on the expected   *)
(* state advances; anything else is an error.                                  *)
IsReplay(a) ==
  /\ IsHead(a.receipt, anchor)
  /\ a.expected \in {anchor, Front(anchor)}

IsNext(a) ==
  /\ ~ IsHead(a.receipt, anchor)
  /\ a.expected = anchor
  /\ Follows(a.receipt, anchor)

AnchorAfter(a) == IF IsNext(a) THEN Append(anchor, a.receipt) ELSE anchor

(* The state the client derives, the only one it takes for a success. *)
Derived(c) ==
  IF phase[c] = "replaying" \/ IsHead(advance[c].receipt, cache[c])
  THEN advance[c].expected
  ELSE Append(cache[c], advance[c].receipt)

(* The statuses the client takes for a success: its own head and a replayed    *)
(* journal must be found idempotent.                                           *)
StatusAllowed(c) ==
  \/ IsReplay(advance[c])
  \/ /\ IsNext(advance[c])
     /\ phase[c] = "advancing"
     /\ ~ IsHead(advance[c].receipt, cache[c])

(* Faulty variant: The client believes its own derivation, not the answer. *)
ExchangeTrusting(c) ==
  /\ phase[c] \in {"advancing", "replaying"}
  /\ anchor' = AnchorAfter(advance[c])
  /\ cache' = [cache EXCEPT ![c] = Derived(c)]
  /\ phase' = [phase EXCEPT ![c] = "idle"]
  /\ advance' = [advance EXCEPT ![c] = None]
  /\ UNCHANGED <<core, service, want, got, run>>

Exchange(c) ==
  /\ phase[c] \in {"advancing", "replaying"}
  /\ anchor' = AnchorAfter(advance[c])
  /\ cache' = IF StatusAllowed(c) /\ AnchorAfter(advance[c]) = Derived(c)
              THEN [cache EXCEPT ![c] = Derived(c)] ELSE cache
  /\ phase' = [phase EXCEPT ![c] = "idle"]
  /\ advance' = [advance EXCEPT ![c] = None]
  /\ UNCHANGED <<core, service, want, got, run>>

(* Faulty variant: After two losses the client takes its ADVANCE for done. *)
LoseAssuming(c) ==
  /\ phase[c] \in {"advancing", "replaying"}
  /\ Fault
  /\ anchor' \in {anchor, AnchorAfter(advance[c])}
  /\ IF advance[c].tries = 0
     THEN /\ advance' = [advance EXCEPT ![c].tries = 1]
          /\ UNCHANGED <<phase, cache>>
     ELSE /\ phase' = [phase EXCEPT ![c] = "idle"]
          /\ advance' = [advance EXCEPT ![c] = None]
          /\ cache' = [cache EXCEPT ![c] = Derived(c)]
  /\ UNCHANGED <<core, service, want, got>>

(* The request or its response is lost; the same bytes are sent once more. *)
Lose(c) ==
  /\ phase[c] \in {"advancing", "replaying"}
  /\ Fault
  /\ anchor' \in {anchor, AnchorAfter(advance[c])}
  /\ IF advance[c].tries = 0
     THEN /\ advance' = [advance EXCEPT ![c].tries = 1]
          /\ UNCHANGED phase
     ELSE /\ phase' = [phase EXCEPT ![c] = "idle"]
          /\ advance' = [advance EXCEPT ![c] = None]
  /\ UNCHANGED <<core, service, want, got, cache>>

(* A new consumer process starts from the pinned genesis. *)
RestartClient(c) ==
  /\ Fault
  /\ phase' = [phase EXCEPT ![c] = "idle"]
  /\ want' = [want EXCEPT ![c] = None]
  /\ got' = [got EXCEPT ![c] = None]
  /\ cache' = [cache EXCEPT ![c] = <<>>]
  /\ advance' = [advance EXCEPT ![c] = None]
  /\ Orphan(c)
  /\ UNCHANGED <<core, journal, torn, anchor>>

(* replay_protected_journal: the whole journal rebuilds the cache, and the     *)
(* anchor has to prove its head; a torn journal is refused.                    *)
Replay(c) ==
  /\ phase[c] = "idle"
  /\ cache[c] = <<>>
  /\ journal # <<>>
  /\ ~ torn
  /\ phase' = [phase EXCEPT ![c] = "replaying"]
  /\ advance' = [advance EXCEPT ![c] = [expected |-> journal, receipt |-> Last(journal), tries |-> 0]]
  /\ UNCHANGED <<core, service, anchor, want, got, cache, run>>

ServiceStep ==
  \/ Accept \/ RecoverPending \/ AnswerDuplicate \/ RefuseNonce \/ ConsumeNonce
  \/ Execute \/ FailExecution \/ IssueReceipt \/ AnswerFresh
  \/ JournalTail \/ JournalNext \/ JournalRefuses \/ Reply

ClientStep(c) == Consider(c) \/ Reject(c) \/ Exchange(c)

(* The clients that are at work; and those that do what they like.             *)
AtWork == IF patient = None THEN Clients ELSE {patient}
Free == AtWork \ {patient}

(* A patient client resubmits a nonce until it has its receipt accepted, or    *)
(* learns that the nonce was consumed without one, before it draws another.    *)
Accepted(c, n) == \E i \in DOMAIN cache[c] : cache[c][i].nonce = n
Spent(n) == bound[n] # None /\ open # n /\ ~ \E i \in DOMAIN chain : chain[i].nonce = n

PatientSubmit(c, call) ==
  /\ want[c] \notin {None, call} => Accepted(c, want[c].nonce) \/ Spent(want[c].nonce)
  /\ Submit(c, call)

DNext ==
  \/ ServiceStep \/ CrashService
  \/ \E c \in AtWork : ClientStep(c) \/ Abandon(c) \/ Lose(c)
  \/ \E c \in Free : Replay(c) \/ RestartClient(c)
  \/ \E c \in Free, call \in Calls : Submit(c, call)
  \/ \E c \in AtWork \ Free, call \in Calls : PatientSubmit(c, call)

(* With a patient client the service and the client go on, and it retries; the *)
(* other behaviours promise nothing.                                           *)
DSpec ==
  /\ DInit /\ [][DNext]_dvars
  /\ WF_dvars(patient # None /\ ServiceStep)
  /\ \A c \in Clients :
       /\ WF_dvars(patient = c /\ ClientStep(c))
       /\ \A call \in Calls : WF_dvars(patient = c /\ want[c] = call /\ PatientSubmit(c, call))

------------------------------------------------------------------------------
(* Properties *)

(* What consumers rely on can be replayed: the public journal holds only        *)
(* receipts of the broker's ledger, the anchor accepts only receipts of the    *)
(* journal, and a client's cache never runs ahead of the anchor or off it,     *)
(* whatever crashes between the files, through lost requests and responses,    *)
(* retries, competing clients and restarts.                                    *)
EachFollowsItsSource ==
  /\ Prefix(journal, chain)
  /\ Prefix(anchor, journal)
  /\ \A c \in Clients : Prefix(cache[c], anchor)

(* A restarted client is back only with the state the anchor has at that       *)
(* moment: a journal behind or ahead of the anchor does not bring it back.     *)
RestartIsCurrent ==
  [][\A c \in Clients :
       phase[c] = "replaying" /\ cache'[c] # cache[c] => cache'[c] = anchor]_dvars

(* Every durable receipt is finally accepted by a client that retries, however *)
(* the service crashes between ledger, journal and reply, and whichever        *)
(* requests, responses and ADVANCE exchanges are lost.                         *)
RetriedIsAccepted ==
  \A n \in Nonces :
    patient # None /\ (\E i \in DOMAIN chain : chain[i].nonce = n) ~>
      (\E c \in Clients : Accepted(c, n))

(* The documented answer to a duplicate nonce: the receipt, if there is one.   *)
(* The code violates it: the journal refuses every receipt but its tail and    *)
(* the next one, and the service then closes the connection.                   *)
DuplicateIsAnswered ==
  AtService("journal") /\ served.duplicate =>
    IsHead(Receipt, journal) \/ Follows(Receipt, journal)
==============================================================================
