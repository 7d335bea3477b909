--------------------------- MODULE ProtectedBroker ---------------------------
(* The durable core of the protected execution broker:                       *)
(* runtime/w3_protected_broker.py, ProtectedExecutionBroker.handle and its    *)
(* ledger, with the publication of runtime/w3_installed_worker.py.            *)
(*                                                                            *)
(* The ledger is a file of length-prefixed records; it survives everything.   *)
(* A handler (a thread inside handle, of this process or of another one that  *)
(* opened the same file) holds the file lock from reading the ledger to its   *)
(* answer.  A record is appended whole, or a failure in the middle of the     *)
(* write leaves a torn tail: a part of the length prefix ("prefix"), or the   *)
(* prefix and a part of the body ("body").                                    *)
(*                                                                            *)
(* Abstractions: a request is its hash; nonces, hashes and signatures do not  *)
(* collide; what a receipt measures (identities, rosters, censuses) is one    *)
(* outcome, valid or not; no one replaces the ledger file, so nothing is      *)
(* poisoned; requests that fail validation change nothing and are left out.   *)
EXTENDS Naturals, Sequences, FiniteSets, FiniteSetsExt

CONSTANTS
  Handlers,     \* threads that may be inside handle at the same time
  Nonces,       \* client nonces
  Requests,     \* request hashes
  MaxInflight,  \* max_inflight, the slots of the bounded semaphore
  None

ASSUME InflightAssumption == MaxInflight \in Nat \ {0}
ASSUME NoneAssumption ==
  None \notin Nonces \union Requests \union Handlers \union [nonce : Nonces, request : Requests]

VARIABLES
  ledger,      \* the readable records of the ledger file
  tail,        \* what follows them: nothing ("whole"), "prefix" or "body"
  published,   \* attempt sequences whose output file exists
  lock,        \* the handler that holds the file lock, or None
  stage,       \* where each handler is inside handle
  call,        \* the nonce and the request each handler serves
  executions,  \* history: nonce -> how often the executor was started for it
  signatures,  \* history: nonce -> how often a receipt was signed for it
  answers      \* history: the receipts handle returned, and for which call

disk == <<ledger, tail, published>>
vars == <<ledger, tail, published, lock, stage, call, executions, signatures, answers>>

Kinds == {"attempt", "tombstone", "receipt"}
Stages == {"idle", "queued", "reading", "recovering", "deciding", "consumed",
           "executing", "published", "proven", "signed", "delivering"}

------------------------------------------------------------------------------
(* The ledger, as _state_from_records reads it. *)

Positions(l, kind) == {i \in DOMAIN l : l[i].kind = kind}

NoncesOf(l, kind) == {l[i].nonce : i \in Positions(l, kind)}

(* last_attempt_sequence and last_receipt_sequence: zero before the first one. *)
LastAttempt(l) ==
  IF Positions(l, "attempt") = {} THEN 0 ELSE l[Max(Positions(l, "attempt"))].attempt

LastReceipt(l) ==
  IF Positions(l, "receipt") = {} THEN 0 ELSE l[Max(Positions(l, "receipt"))].receipt

(* receipt_hash: what identifies a receipt; 0 is the genesis digest. *)
LastDigest(l) ==
  IF Positions(l, "receipt") = {} THEN 0 ELSE l[Max(Positions(l, "receipt"))].attempt

AttemptOf(l, n) == l[CHOOSE i \in Positions(l, "attempt") : l[i].nonce = n]

(* Attempts that have neither a receipt nor a tombstone. *)
Pending(l) == NoncesOf(l, "attempt") \ (NoncesOf(l, "receipt") \union NoncesOf(l, "tombstone"))

AttemptFits(l, r) ==
  /\ r.attempt = LastAttempt(l) + 1
  /\ r.nonce \notin NoncesOf(l, "attempt")

TerminalFits(l, r) ==
  /\ r.nonce \in Pending(l)
  /\ r.attempt = AttemptOf(l, r.nonce).attempt
  /\ r.request = AttemptOf(l, r.nonce).request

ReceiptFits(l, r) ==
  /\ TerminalFits(l, r)
  /\ r.receipt = LastReceipt(l) + 1
  /\ r.previous = LastDigest(l)

Fits(l, r) ==
  \/ r.kind = "attempt" /\ AttemptFits(l, r)
  \/ r.kind = "tombstone" /\ TerminalFits(l, r)
  \/ r.kind = "receipt" /\ ReceiptFits(l, r)

(* Every record fits the records before it: recovery raises no LEDGER_CORRUPT. *)
Readable(l) == \A i \in DOMAIN l : Fits(SubSeq(l, 1, i - 1), l[i])

(* Faulty variant: Attempts are numbered after the receipts: a failed one's number is reused. *)
AttemptNumberedByReceipts(c) ==
  [kind |-> "attempt", nonce |-> c.nonce, request |-> c.request,
   attempt |-> LastReceipt(ledger) + 1, receipt |-> 0, previous |-> 0]

NewAttempt(c) ==
  [kind |-> "attempt", nonce |-> c.nonce, request |-> c.request,
   attempt |-> LastAttempt(ledger) + 1, receipt |-> 0, previous |-> 0]

Tombstone(n) == [AttemptOf(ledger, n) EXCEPT !.kind = "tombstone"]

(* Faulty variant: The receipt's sequence is the attempt's: tombstones leave gaps. *)
ReceiptNumberedByAttempt(n) ==
  [AttemptOf(ledger, n) EXCEPT !.kind = "receipt",
                               !.receipt = AttemptOf(ledger, n).attempt,
                               !.previous = LastDigest(ledger)]

NewReceipt(n) ==
  [AttemptOf(ledger, n) EXCEPT !.kind = "receipt",
                               !.receipt = LastReceipt(ledger) + 1,
                               !.previous = LastDigest(ledger)]

ReceiptOf(n) == ledger[CHOOSE i \in Positions(ledger, "receipt") : ledger[i].nonce = n]

HasReceipt(c) ==
  /\ c.nonce \in NoncesOf(ledger, "receipt")
  /\ ReceiptOf(c.nonce).request = c.request

------------------------------------------------------------------------------

Init ==
  /\ ledger = <<>>
  /\ tail = "whole"
  /\ published = {}
  /\ lock = None
  /\ stage = [h \in Handlers |-> "idle"]
  /\ call = [h \in Handlers |-> None]
  /\ executions = [n \in Nonces |-> 0]
  /\ signatures = [n \in Nonces |-> 0]
  /\ answers = {}

Active == {h \in Handlers : stage[h] # "idle"}

At(h, s) == stage[h] = s
Go(h, s) == stage' = [stage EXCEPT ![h] = s]

(* Leaving the with block and the finally clause: lock and slot are given back. *)
Leave(h) ==
  /\ lock' = None
  /\ stage' = [stage EXCEPT ![h] = "idle"]
  /\ call' = [call EXCEPT ![h] = None]

(* A validated request gets a slot; without a free one QUEUE_FULL is raised   *)
(* and nothing changes.                                                       *)
Enter(h, n, q) ==
  /\ At(h, "idle")
  /\ Cardinality(Active) < MaxInflight
  /\ Go(h, "queued")
  /\ call' = [call EXCEPT ![h] = [nonce |-> n, request |-> q]]
  /\ UNCHANGED <<disk, lock, executions, signatures, answers>>

Lock(h) ==
  /\ At(h, "queued")
  /\ lock = None
  /\ lock' = h
  /\ Go(h, "reading")
  /\ UNCHANGED <<disk, call, executions, signatures, answers>>

(* Faulty variant: The repair cuts at the start of the last complete record. *)
ReadLedgerCuttingDeep(h) ==
  /\ At(h, "reading")
  /\ tail # "body"
  /\ tail' = "whole"
  /\ ledger' = IF tail = "prefix" /\ ledger # <<>> THEN SubSeq(ledger, 1, Len(ledger) - 1) ELSE ledger
  /\ Go(h, "recovering")
  /\ UNCHANGED <<published, lock, call, executions, signatures, answers>>

(* _read_records(repair_torn_tail=True): a partial length prefix is cut off. *)
ReadLedger(h) ==
  /\ At(h, "reading")
  /\ tail # "body"
  /\ Readable(ledger)
  /\ tail' = "whole"
  /\ Go(h, "recovering")
  /\ UNCHANGED <<ledger, published, lock, call, executions, signatures, answers>>

(* Faulty variant: An error while reading leaves the lock held. *)
RefuseToReadKeepingLock(h) ==
  /\ At(h, "reading")
  /\ tail = "body"
  /\ stage' = [stage EXCEPT ![h] = "idle"]
  /\ call' = [call EXCEPT ![h] = None]
  /\ UNCHANGED <<disk, lock, executions, signatures, answers>>

(* TORN_TAIL_AMBIGUOUS: a short body stops the broker for good, and so would a *)
(* record that does not fit, LEDGER_CORRUPT.                                   *)
RefuseToRead(h) ==
  /\ At(h, "reading")
  /\ tail = "body" \/ ~ Readable(ledger)
  /\ Leave(h)
  /\ UNCHANGED <<disk, executions, signatures, answers>>

(* Faulty variant: Recovery finishes a pending attempt with a receipt instead of a tombstone. *)
RecoverByFinishing(h) ==
  /\ At(h, "recovering")
  /\ \E n \in Pending(ledger) : ledger' = Append(ledger, NewReceipt(n))
  /\ UNCHANGED <<tail, published, lock, stage, call, executions, signatures, answers>>

(* _recover_pending: every attempt a crash left without an end, oldest first. *)
Recover(h) ==
  /\ At(h, "recovering")
  /\ \E n \in Pending(ledger) :
       /\ \A m \in Pending(ledger) : AttemptOf(ledger, n).attempt <= AttemptOf(ledger, m).attempt
       /\ ledger' = Append(ledger, Tombstone(n))
  /\ UNCHANGED <<tail, published, lock, stage, call, executions, signatures, answers>>

(* Faulty variant: Recovery is forgotten. *)
RecoveredAnyway(h) ==
  /\ At(h, "recovering")
  /\ Go(h, "deciding")
  /\ UNCHANGED <<disk, lock, call, executions, signatures, answers>>

Recovered(h) ==
  /\ At(h, "recovering")
  /\ Pending(ledger) = {}
  /\ Go(h, "deciding")
  /\ UNCHANGED <<disk, lock, call, executions, signatures, answers>>

(* A durable receipt of the same request is returned as it is. *)
ReturnDuplicate(h) ==
  /\ At(h, "deciding")
  /\ HasReceipt(call[h])
  /\ answers' = answers \union {[call |-> call[h], receipt |-> ReceiptOf(call[h].nonce)]}
  /\ Leave(h)
  /\ UNCHANGED <<disk, executions, signatures>>

(* NONCE_CONSUMED_NO_RECEIPT *)
RefuseConsumed(h) ==
  /\ At(h, "deciding")
  /\ call[h].nonce \in NoncesOf(ledger, "attempt")
  /\ ~ HasReceipt(call[h])
  /\ Leave(h)
  /\ UNCHANGED <<disk, executions, signatures, answers>>

(* Faulty variant: Only completed nonces count as consumed: a tombstoned one runs again. *)
ConsumeUnlessComplete(h) ==
  /\ At(h, "deciding")
  /\ call[h].nonce \notin NoncesOf(ledger, "receipt")
  /\ ledger' = Append(ledger, NewAttempt(call[h]))
  /\ Go(h, "consumed")
  /\ UNCHANGED <<tail, published, lock, call, executions, signatures, answers>>

Consume(h) ==
  /\ At(h, "deciding")
  /\ call[h].nonce \notin NoncesOf(ledger, "attempt")
  /\ ledger' = Append(ledger, NewAttempt(call[h]))
  /\ Go(h, "consumed")
  /\ UNCHANGED <<tail, published, lock, call, executions, signatures, answers>>

Execute(h) ==
  /\ At(h, "consumed")
  /\ executions' = [executions EXCEPT ![call[h].nonce] = @ + 1]
  /\ Go(h, "executing")
  /\ UNCHANGED <<disk, lock, call, signatures, answers>>

(* AtomicPublicationWriter: the file is named after the attempt's sequence. *)
Publish(h) ==
  /\ At(h, "executing")
  /\ AttemptOf(ledger, call[h].nonce).attempt \notin published
  /\ published' = published \union {AttemptOf(ledger, call[h].nonce).attempt}
  /\ Go(h, "published")
  /\ UNCHANGED <<ledger, tail, lock, call, executions, signatures, answers>>

(* _validate_execution_result accepts. *)
Prove(h) ==
  /\ At(h, "published")
  /\ Go(h, "proven")
  /\ UNCHANGED <<disk, lock, call, executions, signatures, answers>>

(* The executor, its result's validation or the signer raises: a tombstone. *)
Fail(h) ==
  /\ stage[h] \in {"executing", "published", "proven"}
  /\ ledger' = Append(ledger, Tombstone(call[h].nonce))
  /\ Leave(h)
  /\ UNCHANGED <<tail, published, executions, signatures, answers>>

Sign(h) ==
  /\ At(h, "proven")
  /\ signatures' = [signatures EXCEPT ![call[h].nonce] = @ + 1]
  /\ Go(h, "signed")
  /\ UNCHANGED <<disk, lock, call, executions, answers>>

AppendReceipt(h) ==
  /\ At(h, "signed")
  /\ ledger' = Append(ledger, NewReceipt(call[h].nonce))
  /\ Go(h, "delivering")
  /\ UNCHANGED <<tail, published, lock, call, executions, signatures, answers>>

Deliver(h) ==
  /\ At(h, "delivering")
  /\ answers' = answers \union {[call |-> call[h], receipt |-> ReceiptOf(call[h].nonce)]}
  /\ Leave(h)
  /\ UNCHANGED <<disk, executions, signatures>>

(* The stages in which the handler's next step may write to the ledger. *)
Writing(h) ==
  \/ stage[h] \in {"executing", "published", "proven", "signed"}
  \/ At(h, "recovering") /\ Pending(ledger) # {}
  \/ At(h, "deciding") /\ call[h].nonce \notin NoncesOf(ledger, "attempt")

(* A failure inside a write leaves the tail torn; at any other point, and     *)
(* before the write's first byte, it leaves the file as it is.                *)
TailAfterFailureOf(h) == IF Writing(h) THEN {tail, "prefix", "body"} ELSE {tail}

(* handle ends with an exception that writes no tombstone: an injected crash, *)
(* an error of the file system, an interrupt.                                 *)
Abort(h) ==
  /\ lock = h
  /\ tail' \in TailAfterFailureOf(h)
  /\ Leave(h)
  /\ UNCHANGED <<ledger, published, executions, signatures, answers>>

(* The machine or the process stops and starts again: only files are left. *)
Crash ==
  /\ Active # {}
  /\ tail' \in UNION {TailAfterFailureOf(h) : h \in Active}
  /\ lock' = None
  /\ stage' = [h \in Handlers |-> "idle"]
  /\ call' = [h \in Handlers |-> None]
  /\ UNCHANGED <<ledger, published, executions, signatures, answers>>

(* inspect_ledger(repair_torn_tail=True) *)
Inspect ==
  /\ lock = None
  /\ tail = "prefix"
  /\ tail' = "whole"
  /\ UNCHANGED <<ledger, published, lock, stage, call, executions, signatures, answers>>

HandlerStep(h) ==
  \/ Lock(h) \/ ReadLedger(h) \/ RefuseToRead(h) \/ Recover(h) \/ Recovered(h)
  \/ ReturnDuplicate(h) \/ RefuseConsumed(h) \/ Consume(h)
  \/ Execute(h) \/ Publish(h) \/ Prove(h) \/ Fail(h)
  \/ Sign(h) \/ AppendReceipt(h) \/ Deliver(h)

Next ==
  \/ \E h \in Handlers, n \in Nonces, q \in Requests : Enter(h, n, q)
  \/ \E h \in Handlers : HandlerStep(h) \/ Abort(h)
  \/ Crash
  \/ Inspect

Spec == Init /\ [][Next]_vars

------------------------------------------------------------------------------
(* Properties *)

Records ==
  [kind : Kinds, nonce : Nonces, request : Requests, attempt : Nat, receipt : Nat, previous : Nat]

Calls == [nonce : Nonces, request : Requests]

TypeOK ==
  /\ ledger \in Seq(Records)
  /\ tail \in {"whole", "prefix", "body"}
  /\ published \subseteq Nat
  /\ lock \in Handlers \union {None}
  /\ stage \in [Handlers -> Stages]
  /\ call \in [Handlers -> Calls \union {None}]
  /\ executions \in [Nonces -> Nat]
  /\ signatures \in [Nonces -> Nat]
  /\ answers \subseteq [call : Calls, receipt : Records]
  /\ \A h \in Handlers :
       /\ call[h] = None <=> At(h, "idle")
       /\ lock = h <=> stage[h] \notin {"idle", "queued"}

(* Types, and: whatever crashes, failures and handlers follow each other, the  *)
(* broker never writes a record that its own recovery rejects as corrupt:      *)
(* attempt sequences and receipt sequences have no gap, receipts chain without *)
(* a fork, and an attempt has at most one end.                                 *)
LedgerReadable == TypeOK /\ Readable(ledger)

(* The name of an attempt's output file is free when it is published, whatever *)
(* attempts crashed before, and every receipt has its output.                  *)
OutputIsFresh ==
  /\ \A h \in Handlers :
       At(h, "executing") => AttemptOf(ledger, call[h].nonce).attempt \notin published
  /\ \A i \in Positions(ledger, "receipt") : ledger[i].attempt \in published

(* One consumed nonce causes at most one execution, which its durable attempt  *)
(* precedes and whose output has a name of its own, and at most one signature, *)
(* only for what was executed: not a crash, not a retry, not two handlers      *)
(* start a second one, and recovery never signs again.                         *)
ExecutedOnce ==
  /\ \A n \in Nonces :
       /\ executions[n] <= 1
       /\ executions[n] = 1 => n \in NoncesOf(ledger, "attempt")
       /\ signatures[n] <= executions[n]
       /\ n \in NoncesOf(ledger, "receipt") => signatures[n] = 1
  /\ OutputIsFresh

(* Repairing a torn tail, recovering and appending never change or drop a      *)
(* record that was written.                                                    *)
LedgerOnlyGrows ==
  [][/\ Len(ledger) <= Len(ledger')
     /\ SubSeq(ledger', 1, Len(ledger)) = ledger]_vars

(* The promise the ledger stands for: the request of each attempted nonce, the *)
(* attempt without an end, and the chain of receipts, each at its own number.  *)
Content(r) == [nonce |-> r.nonce, request |-> r.request]

ReceiptNumbered(l, k) == l[CHOOSE i \in Positions(l, "receipt") : l[i].receipt = k]

Bound ==
  [n \in Nonces |->
     IF n \in NoncesOf(ledger, "attempt") THEN AttemptOf(ledger, n).request ELSE None]
Open == IF Pending(ledger) = {} THEN None ELSE CHOOSE n \in Pending(ledger) : TRUE
Chained == [k \in 1 .. LastReceipt(ledger) |-> Content(ReceiptNumbered(ledger, k))]
Answered == {Content(a.receipt) : a \in answers}

Chain == INSTANCE ReceiptChain WITH
  bound <- Bound, open <- Open, ran <- executions, chain <- Chained, answers <- Answered

(* The broker with its file, its crashes and its concurrent handlers keeps the *)
(* promise of the abstract receipt chain.                                      *)
ImplementsReceiptChain == Chain!Spec
==============================================================================
