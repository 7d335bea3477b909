------------------------ MODULE ProtectedBroker_proofs ------------------------
(***************************************************************************)
(* Proofs about ProtectedBroker: whatever handlers, crashes and torn tails *)
(* there are, the ledger stays readable and a nonce runs once.             *)
(*                                                                         *)
(* The first part says what appending a record does to what is read from a *)
(* ledger; the second is the inductive invariant and its proof.            *)
(***************************************************************************)
EXTENDS ProtectedBroker, SequenceTheorems, TLAPS

(* There is a last record of every kind of which there is one, and no nonce *)
(* has two records of a kind.  Both hold of a ledger because it is built by *)
(* appending, which spares an induction over its length.                    *)
HasLast(l) ==
  \A k \in Kinds : Positions(l, k) # {} =>
    \E m \in Positions(l, k) : \A i \in Positions(l, k) : i <= m

OneAttempt(l) ==
  \A i, j \in Positions(l, "attempt") : l[i].nonce = l[j].nonce => i = j

(* Only attempted nonces have receipts. *)
EndsHaveAttempts(l) ==
  NoncesOf(l, "receipt") \union NoncesOf(l, "tombstone") \subseteq NoncesOf(l, "attempt")

LEMMA MaxIs ==
  ASSUME NEW S \in SUBSET Nat, NEW m \in S, \A i \in S : i <= m
  PROVE  Max(S) = m
<1>1. \A y \in S : m >= y
  OBVIOUS
<1>2. Max(S) \in S /\ \A y \in S : Max(S) >= y
  BY <1>1 DEF Max
<1>3. Max(S) \in Nat /\ m \in Nat /\ Max(S) >= m /\ m >= Max(S)
  BY <1>1, <1>2
<1>4. QED
  BY <1>3

LEMMA AppendedAt ==
  ASSUME NEW l \in Seq(Records), NEW r \in Records
  PROVE  /\ Append(l, r) \in Seq(Records)
         /\ DOMAIN Append(l, r) = DOMAIN l \union {Len(l) + 1}
         /\ Len(l) + 1 \notin DOMAIN l
         /\ \A i \in DOMAIN l : Append(l, r)[i] = l[i]
         /\ Append(l, r)[Len(l) + 1] = r
         /\ DOMAIN l = 1 .. Len(l) /\ Len(l) \in Nat
  OBVIOUS

LEMMA AppendPositions ==
  ASSUME NEW l \in Seq(Records), NEW r \in Records, NEW k
  PROVE  /\ r.kind = k => Positions(Append(l, r), k) = Positions(l, k) \union {Len(l) + 1}
         /\ r.kind # k => Positions(Append(l, r), k) = Positions(l, k)
  BY AppendedAt DEF Positions

LEMMA AppendNonces ==
  ASSUME NEW l \in Seq(Records), NEW r \in Records, NEW k
  PROVE  /\ r.kind = k => NoncesOf(Append(l, r), k) = NoncesOf(l, k) \union {r.nonce}
         /\ r.kind # k => NoncesOf(Append(l, r), k) = NoncesOf(l, k)
<1>1. \A i \in Positions(l, k) : Append(l, r)[i].nonce = l[i].nonce
  BY AppendedAt DEF Positions
<1>2. CASE r.kind = k
  <2>1. Positions(Append(l, r), k) = Positions(l, k) \union {Len(l) + 1}
    BY <1>2, AppendPositions
  <2>2. Append(l, r)[Len(l) + 1].nonce = r.nonce
    BY AppendedAt
  <2>3. ASSUME NEW x \in NoncesOf(Append(l, r), k)
        PROVE  x \in NoncesOf(l, k) \union {r.nonce}
    BY <1>1, <2>1, <2>2 DEF NoncesOf
  <2>4. ASSUME NEW x \in NoncesOf(l, k) \union {r.nonce}
        PROVE  x \in NoncesOf(Append(l, r), k)
    BY <1>1, <2>1, <2>2 DEF NoncesOf
  <2>5. QED
    BY <1>2, <2>3, <2>4
<1>3. CASE r.kind # k
  <2>1. Positions(Append(l, r), k) = Positions(l, k)
    BY <1>3, AppendPositions
  <2>2. QED
    BY <1>1, <1>3, <2>1 DEF NoncesOf
<1>4. QED
  BY <1>2, <1>3

LEMMA AppendHasLast ==
  ASSUME NEW l \in Seq(Records), NEW r \in Records, HasLast(l)
  PROVE  HasLast(Append(l, r))
<1> SUFFICES ASSUME NEW k \in Kinds, Positions(Append(l, r), k) # {}
             PROVE  \E m \in Positions(Append(l, r), k) :
                      \A i \in Positions(Append(l, r), k) : i <= m
  BY DEF HasLast
<1>1. \A i \in Positions(l, k) : i \in Nat /\ i <= Len(l) + 1
  BY AppendedAt DEF Positions
<1>2. CASE r.kind = k
  <2>1. Positions(Append(l, r), k) = Positions(l, k) \union {Len(l) + 1}
    BY <1>2, AppendPositions
  <2>2. Len(l) + 1 \in Nat
    BY AppendedAt
  <2>3. QED
    BY <1>1, <2>1, <2>2
<1>3. CASE r.kind # k
  <2>1. Positions(Append(l, r), k) = Positions(l, k)
    BY <1>3, AppendPositions
  <2>2. QED
    BY <2>1 DEF HasLast
<1>4. QED
  BY <1>2, <1>3

(* The last record of a kind, before and after. *)
LEMMA LastOfKind ==
  ASSUME NEW l \in Seq(Records), HasLast(l), NEW k \in Kinds, Positions(l, k) # {}
  PROVE  /\ Max(Positions(l, k)) \in Positions(l, k)
         /\ \A i \in Positions(l, k) : i <= Max(Positions(l, k))
<1>1. Positions(l, k) \in SUBSET Nat
  BY AppendedAt DEF Positions
<1>2. PICK m \in Positions(l, k) : \A i \in Positions(l, k) : i <= m
  BY DEF HasLast
<1>3. QED
  BY <1>1, <1>2, MaxIs

LEMMA AppendLast ==
  ASSUME NEW l \in Seq(Records), HasLast(l), NEW r \in Records, NEW k \in Kinds
  PROVE  /\ r.kind = k => Append(l, r)[Max(Positions(Append(l, r), k))] = r
         /\ (r.kind # k /\ Positions(l, k) # {}) =>
              Append(l, r)[Max(Positions(Append(l, r), k))] = l[Max(Positions(l, k))]
<1>1. CASE r.kind = k
  <2>1. /\ Positions(Append(l, r), k) = Positions(l, k) \union {Len(l) + 1}
        /\ \A i \in Positions(l, k) : i \in Nat /\ i <= Len(l) + 1
    BY <1>1, AppendPositions, AppendedAt DEF Positions
  <2>2. Max(Positions(Append(l, r), k)) = Len(l) + 1
    <3>1. Positions(Append(l, r), k) \in SUBSET Nat /\ Len(l) + 1 \in Positions(Append(l, r), k)
      BY <2>1, AppendedAt
    <3>2. \A i \in Positions(Append(l, r), k) : i <= Len(l) + 1
      BY <2>1, AppendedAt
    <3>3. QED
      BY <3>1, <3>2, MaxIs
  <2>3. QED
    BY <1>1, <2>2, AppendedAt
<1>2. CASE r.kind # k /\ Positions(l, k) # {}
  <2>1. Positions(Append(l, r), k) = Positions(l, k)
    BY <1>2, AppendPositions
  <2>2. Max(Positions(l, k)) \in DOMAIN l
    BY <1>2, LastOfKind DEF Positions
  <2>3. QED
    BY <1>2, <2>1, <2>2, AppendedAt
<1>3. QED
  BY <1>1, <1>2

LEMMA AppendLastAttempt ==
  ASSUME NEW l \in Seq(Records), HasLast(l), NEW r \in Records
  PROVE  LastAttempt(Append(l, r)) = IF r.kind = "attempt" THEN r.attempt ELSE LastAttempt(l)
<1>1. "attempt" \in Kinds
  BY DEF Kinds
<1>2. CASE r.kind = "attempt"
  <2>1. Positions(Append(l, r), "attempt") # {}
    BY <1>2, AppendPositions
  <2>2. QED
    BY <1>1, <1>2, <2>1, AppendLast DEF LastAttempt
<1>3. CASE r.kind # "attempt"
  <2>1. Positions(Append(l, r), "attempt") = Positions(l, "attempt")
    BY <1>3, AppendPositions
  <2>2. QED
    BY <1>1, <1>3, <2>1, AppendLast DEF LastAttempt
<1>4. QED
  BY <1>2, <1>3

LEMMA LastTypes ==
  ASSUME NEW l \in Seq(Records), HasLast(l)
  PROVE  LastAttempt(l) \in Nat /\ LastReceipt(l) \in Nat /\ LastDigest(l) \in Nat
<1>1. \A k \in Kinds : Positions(l, k) # {} => l[Max(Positions(l, k))] \in Records
  BY LastOfKind, ElementOfSeq, AppendedAt DEF Positions
<1>2. "attempt" \in Kinds /\ "receipt" \in Kinds
  BY DEF Kinds
<1>3. QED
  BY <1>1, <1>2 DEF LastAttempt, LastReceipt, LastDigest, Records

(* The attempt of a nonce is its own, and later records do not change it. *)
LEMMA AttemptIs ==
  ASSUME NEW l \in Seq(Records), OneAttempt(l), NEW i \in Positions(l, "attempt")
  PROVE  AttemptOf(l, l[i].nonce) = l[i]
  BY DEF AttemptOf, OneAttempt

LEMMA AttemptOfNonce ==
  ASSUME NEW l \in Seq(Records), OneAttempt(l), NEW n \in NoncesOf(l, "attempt")
  PROVE  /\ AttemptOf(l, n) \in Records
         /\ AttemptOf(l, n).kind = "attempt" /\ AttemptOf(l, n).nonce = n
<1>1. PICK i \in Positions(l, "attempt") : l[i].nonce = n
  BY DEF NoncesOf
<1>2. i \in DOMAIN l /\ l[i].kind = "attempt"
  BY DEF Positions
<1>3. l[i] \in Records
  BY <1>2, ElementOfSeq, AppendedAt
<1>4. QED
  BY <1>1, <1>2, <1>3, AttemptIs

LEMMA AppendKeepsAttempt ==
  ASSUME NEW l \in Seq(Records), OneAttempt(l), NEW r \in Records,
         r.kind = "attempt" => r.nonce \notin NoncesOf(l, "attempt")
  PROVE  /\ OneAttempt(Append(l, r))
         /\ \A n \in NoncesOf(l, "attempt") : AttemptOf(Append(l, r), n) = AttemptOf(l, n)
         /\ r.kind = "attempt" => AttemptOf(Append(l, r), r.nonce) = r
<1> DEFINE m == Append(l, r)
<1>1. /\ m \in Seq(Records)
      /\ \A i \in Positions(l, "attempt") : i \in DOMAIN l /\ m[i] = l[i]
      /\ m[Len(l) + 1] = r
  BY AppendedAt DEF Positions
<1>2. \A i : i \in Positions(m, "attempt") <=>
              i \in Positions(l, "attempt") \/ (r.kind = "attempt" /\ i = Len(l) + 1)
  BY AppendPositions
<1>3. OneAttempt(m)
  <2>1. \A i \in Positions(l, "attempt") : l[i].nonce \in NoncesOf(l, "attempt")
    BY DEF NoncesOf
  <2>2. QED
    BY <1>1, <1>2, <2>1 DEF OneAttempt
<1>4. ASSUME NEW n \in NoncesOf(l, "attempt") PROVE AttemptOf(m, n) = AttemptOf(l, n)
  <2>1. PICK i \in Positions(l, "attempt") : l[i].nonce = n
    BY DEF NoncesOf
  <2>2. AttemptOf(l, n) = l[i]
    BY <2>1, AttemptIs
  <2>3. i \in Positions(m, "attempt") /\ m[i] = l[i]
    BY <1>1, <1>2
  <2>4. AttemptOf(m, m[i].nonce) = m[i]
    BY <1>1, <1>3, <2>3, AttemptIs
  <2>5. QED
    BY <2>1, <2>2, <2>3, <2>4
<1>5. ASSUME r.kind = "attempt" PROVE AttemptOf(m, r.nonce) = r
  <2>1. Len(l) + 1 \in Positions(m, "attempt")
    BY <1>2, <1>5
  <2>2. AttemptOf(m, m[Len(l) + 1].nonce) = m[Len(l) + 1]
    BY <1>1, <1>3, <2>1, AttemptIs
  <2>3. QED
    BY <1>1, <2>2
<1>6. QED
  BY <1>3, <1>4, <1>5

(* A readable ledger stays readable when the record appended fits it. *)
LEMMA AppendReadable ==
  ASSUME NEW l \in Seq(Records), Readable(l), NEW r \in Records, Fits(l, r)
  PROVE  Readable(Append(l, r))
<1> DEFINE m == Append(l, r)
<1> SUFFICES ASSUME NEW i \in DOMAIN m PROVE Fits(SubSeq(m, 1, i - 1), m[i])
  BY DEF Readable
<1>1. CASE i \in DOMAIN l
  <2>1. SubSeq(m, 1, i - 1) = SubSeq(l, 1, i - 1)
    BY <1>1
  <2>2. m[i] = l[i]
    BY <1>1, AppendedAt
  <2>3. QED
    BY <1>1, <2>1, <2>2 DEF Readable
<1>2. CASE i = Len(l) + 1
  <2>1. SubSeq(m, 1, i - 1) = l
    BY <1>2
  <2>2. QED
    BY <1>2, <2>1, AppendedAt
<1>3. QED
  BY <1>1, <1>2, AppendedAt

------------------------------------------------------------------------------
(* The inductive invariant. *)

LedgerInv ==
  /\ Readable(ledger) /\ HasLast(ledger) /\ OneAttempt(ledger) /\ EndsHaveAttempts(ledger)

(* How the history of a nonce and the ledger fit. *)
CountInv ==
  \A n \in Nonces :
    /\ executions[n] <= 1
    /\ executions[n] = 1 => n \in NoncesOf(ledger, "attempt")
    /\ signatures[n] <= executions[n]
    /\ n \in NoncesOf(ledger, "receipt") => signatures[n] = 1

FileInv ==
  /\ \A p \in published : p <= LastAttempt(ledger)
  /\ \A i \in Positions(ledger, "receipt") : ledger[i].attempt \in published

Serving(h) == stage[h] \in {"consumed", "executing", "published", "proven", "signed"}

(* What the one handler with an open attempt knows of it. *)
ServeInv ==
  \A h \in Handlers :
    LET n == call[h].nonce
    IN  /\ Serving(h) =>
             /\ n \in Pending(ledger)
             /\ AttemptOf(ledger, n).attempt = LastAttempt(ledger)
             /\ executions[n] = IF At(h, "consumed") THEN 0 ELSE 1
             /\ signatures[n] = IF At(h, "signed") THEN 1 ELSE 0
             /\ LastAttempt(ledger) \in published <=> stage[h] \notin {"consumed", "executing"}
        /\ At(h, "delivering") => n \in NoncesOf(ledger, "receipt")

BrokerInv == TypeOK /\ LedgerInv /\ CountInv /\ FileInv /\ ServeInv

LEMMA InitInv == Init => BrokerInv
<1> SUFFICES ASSUME Init PROVE BrokerInv
  OBVIOUS
<1> USE DEF Init
<1>1. TypeOK
  BY NoneAssumption DEF TypeOK, At, Stages, Calls
<1>2. \A k : Positions(ledger, k) = {} /\ NoncesOf(ledger, k) = {}
  BY DEF Positions, NoncesOf
<1>3. LedgerInv
  <2>1. HasLast(ledger) /\ OneAttempt(ledger) /\ EndsHaveAttempts(ledger)
    BY <1>2 DEF HasLast, OneAttempt, EndsHaveAttempts
  <2>2. Readable(ledger)
    BY DEF Readable
  <2>3. QED
    BY <2>1, <2>2 DEF LedgerInv
<1>4. CountInv /\ FileInv
  BY <1>2 DEF CountInv, FileInv
<1>5. ServeInv
  BY DEF ServeInv, Serving, At
<1>6. QED
  BY <1>1, <1>3, <1>4, <1>5 DEF BrokerInv

(* Steps that write nothing and count nothing: a handler with an open attempt *)
(* stays where it is, leaves, or has its result validated.                    *)
LEMMA QuietStep ==
  ASSUME BrokerInv, TypeOK', UNCHANGED <<ledger, published, executions, signatures>>,
         \A h \in Handlers :
           /\ Serving(h)' => /\ Serving(h) /\ call'[h] = call[h]
                             /\ \/ stage'[h] = stage[h]
                                \/ stage[h] = "published" /\ stage'[h] = "proven"
           /\ At(h, "delivering")' => At(h, "delivering") /\ call'[h] = call[h]
  PROVE  BrokerInv'
<1>1. LedgerInv' /\ CountInv' /\ FileInv'
  BY DEF BrokerInv, LedgerInv, CountInv, FileInv
<1>2. ServeInv'
  BY DEF BrokerInv, ServeInv, Serving, At
<1>3. QED
  BY <1>1, <1>2 DEF BrokerInv

(* Only the holder of the lock is in a stage at which it may write. *)
LEMMA OneWriter ==
  ASSUME TypeOK, NEW h \in Handlers, stage[h] \notin {"idle", "queued"},
         NEW g \in Handlers, g # h
  PROVE  ~Serving(g) /\ ~At(g, "delivering") /\ lock = h
  BY DEF TypeOK, Serving, At

(* The end of an attempt is written: a tombstone. *)
LEMMA AppendTombstone ==
  ASSUME TypeOK, LedgerInv, NEW n \in Pending(ledger),
         ledger' = Append(ledger, Tombstone(n))
  PROVE  /\ ledger' \in Seq(Records) /\ LedgerInv'
         /\ NoncesOf(ledger', "attempt") = NoncesOf(ledger, "attempt")
         /\ NoncesOf(ledger', "receipt") = NoncesOf(ledger, "receipt")
         /\ LastAttempt(ledger') = LastAttempt(ledger)
         /\ \A i \in Positions(ledger', "receipt") :
              i \in Positions(ledger, "receipt") /\ ledger'[i] = ledger[i]
<1> DEFINE r == Tombstone(n)
<1>1. ledger \in Seq(Records) /\ n \in NoncesOf(ledger, "attempt")
  BY DEF TypeOK, Pending
<1>2. /\ r \in Records /\ r.kind = "tombstone" /\ r.nonce = n
      /\ r.attempt = AttemptOf(ledger, n).attempt /\ r.request = AttemptOf(ledger, n).request
  BY <1>1, AttemptOfNonce DEF LedgerInv, Tombstone, Records, Kinds
<1>3. Fits(ledger, r)
  BY <1>2 DEF Fits, TerminalFits
<1>4. Readable(ledger') /\ HasLast(ledger') /\ OneAttempt(ledger')
  BY <1>1, <1>2, <1>3, AppendReadable, AppendHasLast, AppendKeepsAttempt DEF LedgerInv
<1>5. /\ NoncesOf(ledger', "attempt") = NoncesOf(ledger, "attempt")
      /\ NoncesOf(ledger', "receipt") = NoncesOf(ledger, "receipt")
      /\ NoncesOf(ledger', "tombstone") = NoncesOf(ledger, "tombstone") \union {n}
  BY <1>1, <1>2, AppendNonces
<1>6. LedgerInv'
  BY <1>1, <1>4, <1>5 DEF LedgerInv, EndsHaveAttempts
<1>7. LastAttempt(ledger') = LastAttempt(ledger)
  BY <1>1, <1>2, AppendLastAttempt DEF LedgerInv
<1>8. \A i \in Positions(ledger', "receipt") :
        i \in Positions(ledger, "receipt") /\ ledger'[i] = ledger[i]
  <2>1. Positions(ledger', "receipt") = Positions(ledger, "receipt")
    BY <1>1, <1>2, AppendPositions
  <2>2. QED
    BY <1>1, <1>2, <2>1, AppendedAt DEF Positions
<1>9. QED
  BY <1>1, <1>2, <1>5, <1>6, <1>7, <1>8, AppendedAt

(* Types at the end of handle. *)
LEMMA LeaveTypes ==
  ASSUME TypeOK, NEW h \in Handlers, Leave(h), stage[h] \notin {"idle", "queued"}
  PROVE  /\ lock' \in Handlers \union {None}
         /\ stage' \in [Handlers -> Stages]
         /\ call' \in [Handlers -> Calls \union {None}]
         /\ \A g \in Handlers :
              /\ call'[g] = None <=> stage'[g] = "idle"
              /\ lock' = g <=> stage'[g] \notin {"idle", "queued"}
         /\ stage'[h] = "idle"
         /\ \A g \in Handlers \ {h} : stage'[g] = stage[g] /\ call'[g] = call[g]
<1>1. /\ lock' = None /\ None \notin Handlers
      /\ stage' = [stage EXCEPT ![h] = "idle"] /\ call' = [call EXCEPT ![h] = None]
  BY NoneAssumption DEF Leave
<1>2. \A g \in Handlers \ {h} : stage[g] \in {"idle", "queued"}
  BY DEF TypeOK
<1>3. "idle" \in Stages
  BY DEF Stages
<1>4. QED
  BY <1>1, <1>2, <1>3 DEF TypeOK, At

(* Types when the holder of the lock goes on to another stage. *)
LEMMA GoTypes ==
  ASSUME TypeOK, NEW h \in Handlers, stage[h] \notin {"idle", "queued"},
         NEW next \in Stages \ {"idle", "queued"}, Go(h, next), UNCHANGED <<lock, call>>
  PROVE  /\ lock' \in Handlers \union {None}
         /\ stage' \in [Handlers -> Stages]
         /\ call' \in [Handlers -> Calls \union {None}]
         /\ \A g \in Handlers :
              /\ call'[g] = None <=> stage'[g] = "idle"
              /\ lock' = g <=> stage'[g] \notin {"idle", "queued"}
         /\ stage'[h] = next
         /\ \A g \in Handlers \ {h} : stage'[g] = stage[g]
  BY DEF TypeOK, Go, At

LEMMA CallTypes ==
  ASSUME TypeOK, NEW h \in Handlers, stage[h] # "idle"
  PROVE  call[h] \in Calls /\ call[h].nonce \in Nonces /\ call[h].request \in Requests
  BY DEF TypeOK, At, Calls

LEMMA EnterInv ==
  ASSUME BrokerInv, NEW h \in Handlers, NEW n \in Nonces, NEW q \in Requests, Enter(h, n, q)
  PROVE  BrokerInv'
<1> DEFINE c == [nonce |-> n, request |-> q]
<1>1. c \in Calls /\ c # None
  BY NoneAssumption DEF Calls
<1>2. /\ stage' = [stage EXCEPT ![h] = "queued"] /\ call' = [call EXCEPT ![h] = c]
      /\ stage[h] = "idle" /\ "queued" \in Stages
      /\ UNCHANGED <<disk, lock, executions, signatures, answers>>
  BY DEF Enter, Go, At, Stages
<1>3. TypeOK'
  <2> HIDE DEF c
  <2>1. QED
    BY <1>1, <1>2 DEF BrokerInv, TypeOK, At, disk
<1>4. QED
  <2> HIDE DEF c
  <2>1. QED
    BY <1>2, <1>3, QuietStep DEF BrokerInv, TypeOK, At, Serving, disk

(* Taking the lock, reading, recovery without anything to recover, validation: *)
(* the handler only goes on.                                                   *)
LEMMA ProceedInv ==
  ASSUME BrokerInv, NEW h \in Handlers,
         Lock(h) \/ ReadLedger(h) \/ Recovered(h) \/ Prove(h)
  PROVE  BrokerInv'
<1>1. CASE Lock(h)
  <2>1. /\ stage' = [stage EXCEPT ![h] = "reading"] /\ "reading" \in Stages
        /\ lock = None /\ lock' = h /\ stage[h] = "queued"
        /\ UNCHANGED <<disk, call, executions, signatures, answers>>
    BY <1>1 DEF Lock, Go, At, Stages
  <2>2. \A g \in Handlers : stage[g] \in {"idle", "queued"}
    BY <2>1, NoneAssumption DEF BrokerInv, TypeOK
  <2>3. TypeOK'
    BY <2>1, <2>2 DEF BrokerInv, TypeOK, At, disk
  <2>4. QED
    BY <2>1, <2>3, QuietStep DEF BrokerInv, TypeOK, At, Serving, disk
<1>2. CASE ReadLedger(h) \/ Recovered(h) \/ Prove(h)
  <2>1. PICK next \in {"recovering", "deciding", "proven"} :
          /\ Go(h, next) /\ stage[h] \notin {"idle", "queued"}
          /\ next = "proven" => stage[h] = "published"
          /\ tail' \in {tail, "whole"}
          /\ UNCHANGED <<ledger, published, lock, call, executions, signatures, answers>>
    BY <1>2 DEF ReadLedger, Recovered, Prove, At, disk
  <2>2. next \in Stages \ {"idle", "queued"}
    BY DEF Stages
  <2>3. TypeOK'
    BY <2>1, <2>2, GoTypes DEF BrokerInv, TypeOK, At
  <2>4. QED
    BY <2>1, <2>2, <2>3, GoTypes, QuietStep DEF BrokerInv, At, Serving
<1>3. QED
  BY <1>1, <1>2

(* A handler ends and has written nothing. *)
LEMMA QuitInv ==
  ASSUME BrokerInv, NEW h \in Handlers, Leave(h), stage[h] \notin {"idle", "queued"},
         UNCHANGED <<ledger, published, executions, signatures>>,
         tail' \in {"whole", "prefix", "body"},
         answers' \subseteq [call : Calls, receipt : Records]
  PROVE  BrokerInv'
<1>1. TypeOK'
  BY LeaveTypes DEF BrokerInv, TypeOK, At
<1>2. QED
  BY <1>1, LeaveTypes, QuietStep DEF BrokerInv, At, Serving

(* The receipt of a nonce is a record. *)
LEMMA ReceiptTypes ==
  ASSUME TypeOK, NEW n \in NoncesOf(ledger, "receipt")
  PROVE  ReceiptOf(n) \in Records
<1>1. PICK i \in Positions(ledger, "receipt") : ledger[i].nonce = n
  BY DEF NoncesOf
<1>2. (CHOOSE k \in Positions(ledger, "receipt") : ledger[k].nonce = n) \in DOMAIN ledger
  BY <1>1 DEF Positions
<1>3. QED
  BY <1>2, ElementOfSeq, AppendedAt DEF ReceiptOf, TypeOK

LEMMA AnswerInv ==
  ASSUME BrokerInv, NEW h \in Handlers,
         RefuseToRead(h) \/ ReturnDuplicate(h) \/ RefuseConsumed(h) \/ Deliver(h) \/ Abort(h)
  PROVE  BrokerInv'
<1>1. CASE RefuseToRead(h) \/ RefuseConsumed(h)
  BY <1>1, QuitInv DEF RefuseToRead, RefuseConsumed, At, disk, BrokerInv, TypeOK
<1>2. CASE Abort(h)
  <2>1. stage[h] \notin {"idle", "queued"} /\ Leave(h)
    BY <1>2 DEF Abort, BrokerInv, TypeOK
  <2>2. tail' \in {"whole", "prefix", "body"}
    BY <1>2 DEF Abort, TailAfterFailureOf, BrokerInv, TypeOK
  <2>3. QED
    BY <1>2, <2>1, <2>2, QuitInv DEF Abort, BrokerInv, TypeOK
<1>3. CASE ReturnDuplicate(h) \/ Deliver(h)
  <2>1. /\ stage[h] \in {"deciding", "delivering"} /\ Leave(h)
        /\ call[h].nonce \in NoncesOf(ledger, "receipt")
        /\ answers' = answers \union {[call |-> call[h], receipt |-> ReceiptOf(call[h].nonce)]}
        /\ UNCHANGED <<disk, executions, signatures>>
    BY <1>3 DEF ReturnDuplicate, Deliver, HasReceipt, BrokerInv, ServeInv, At
  <2>2. [call |-> call[h], receipt |-> ReceiptOf(call[h].nonce)] \in [call : Calls, receipt : Records]
    BY <2>1, CallTypes, ReceiptTypes DEF BrokerInv
  <2>3. answers' \subseteq [call : Calls, receipt : Records]
    BY <2>1, <2>2 DEF BrokerInv, TypeOK
  <2>4. QED
    BY <2>1, <2>3, QuitInv DEF disk, BrokerInv, TypeOK
<1>4. QED
  BY <1>1, <1>2, <1>3

LEMMA CrashInv ==
  ASSUME BrokerInv, Crash
  PROVE  BrokerInv'
<1>1. TypeOK'
  <2>1. tail' \in {"whole", "prefix", "body"}
    BY DEF Crash, TailAfterFailureOf, BrokerInv, TypeOK
  <2>2. "idle" \in Stages
    BY DEF Stages
  <2>3. QED
    BY <2>1, <2>2, NoneAssumption DEF Crash, BrokerInv, TypeOK, At
<1>2. QED
  BY <1>1, QuietStep DEF Crash, Serving, At

LEMMA InspectInv ==
  ASSUME BrokerInv, Inspect
  PROVE  BrokerInv'
<1>1. TypeOK'
  BY DEF Inspect, BrokerInv, TypeOK, At
<1>2. QED
  BY <1>1, QuietStep DEF Inspect, Serving, At

(* A tombstone, by recovery or by the handler that failed. *)
LEMMA TombstoneInv ==
  ASSUME BrokerInv, NEW h \in Handlers, Recover(h) \/ Fail(h)
  PROVE  BrokerInv'
<1>1. PICK n \in Pending(ledger) :
        /\ ledger' = Append(ledger, Tombstone(n))
        /\ UNCHANGED <<tail, published, executions, signatures, answers>>
        /\ stage[h] \notin {"idle", "queued", "consumed", "delivering"}
        /\ \/ UNCHANGED <<lock, stage, call>> /\ stage[h] = "recovering"
           \/ Leave(h)
  BY DEF Recover, Fail, BrokerInv, ServeInv, Serving, At
<1>2. TypeOK /\ LedgerInv /\ n \in NoncesOf(ledger, "attempt")
  BY DEF BrokerInv, Pending
<1>3. /\ ledger' \in Seq(Records) /\ LedgerInv'
      /\ NoncesOf(ledger', "attempt") = NoncesOf(ledger, "attempt")
      /\ NoncesOf(ledger', "receipt") = NoncesOf(ledger, "receipt")
      /\ LastAttempt(ledger') = LastAttempt(ledger)
      /\ \A i \in Positions(ledger', "receipt") :
           i \in Positions(ledger, "receipt") /\ ledger'[i] = ledger[i]
  BY <1>1, <1>2, AppendTombstone
<1>4. TypeOK'
  BY <1>1, <1>2, <1>3, LeaveTypes DEF TypeOK, At
<1>5. CountInv' /\ FileInv'
  BY <1>1, <1>3 DEF BrokerInv, CountInv, FileInv
<1>6. ServeInv'
  <2>1. \A g \in Handlers : ~Serving(g)' /\ ~At(g, "delivering")'
    BY <1>1, <1>2, OneWriter, LeaveTypes DEF Serving, At
  <2>2. QED
    BY <2>1 DEF ServeInv
<1>7. QED
  BY <1>3, <1>4, <1>5, <1>6 DEF BrokerInv

LEMMA ConsumeInv ==
  ASSUME BrokerInv, NEW h \in Handlers, Consume(h)
  PROVE  BrokerInv'
<1> DEFINE n == call[h].nonce
           r == NewAttempt(call[h])
<1>1. /\ stage[h] = "deciding" /\ n \notin NoncesOf(ledger, "attempt")
      /\ ledger' = Append(ledger, r) /\ Go(h, "consumed")
      /\ UNCHANGED <<tail, published, lock, call, executions, signatures, answers>>
  BY DEF Consume, At
<1>2. TypeOK /\ LedgerInv /\ ledger \in Seq(Records) /\ HasLast(ledger) /\ OneAttempt(ledger)
  BY DEF BrokerInv, LedgerInv, TypeOK
<1>3. n \in Nonces /\ call[h].request \in Requests
  BY <1>1, <1>2, CallTypes
<1>4. /\ r \in Records /\ r.kind = "attempt" /\ r.nonce = n
      /\ r.attempt = LastAttempt(ledger) + 1 /\ LastAttempt(ledger) \in Nat
  <2>1. LastAttempt(ledger) \in Nat /\ LastAttempt(ledger) + 1 \in Nat
    BY <1>2, LastTypes
  <2> DEFINE number == LastAttempt(ledger) + 1
  <2>2. r = [kind |-> "attempt", nonce |-> n, request |-> call[h].request,
             attempt |-> number, receipt |-> 0, previous |-> 0]
    BY DEF NewAttempt
  <2>3. number \in Nat
    BY <2>1
  <2> HIDE DEF number, r, n
  <2>4. r \in Records /\ r.kind = "attempt" /\ r.nonce = n /\ r.attempt = number
    BY <1>3, <2>2, <2>3 DEF Records, Kinds
  <2>5. QED
    BY <2>1, <2>4 DEF number
<1>5. Fits(ledger, r)
  BY <1>1, <1>4 DEF Fits, AttemptFits
<1> HIDE DEF r
<1>6. /\ NoncesOf(ledger', "attempt") = NoncesOf(ledger, "attempt") \union {n}
      /\ NoncesOf(ledger', "receipt") = NoncesOf(ledger, "receipt")
      /\ NoncesOf(ledger', "tombstone") = NoncesOf(ledger, "tombstone")
  <2>1. ledger' = Append(ledger, r) /\ r \in Records /\ r.kind = "attempt" /\ r.nonce = n
    BY <1>1, <1>4
  <2>2. NoncesOf(Append(ledger, r), "attempt") = NoncesOf(ledger, "attempt") \union {n}
    BY <1>2, <2>1, AppendNonces
  <2>3. /\ NoncesOf(Append(ledger, r), "receipt") = NoncesOf(ledger, "receipt")
        /\ NoncesOf(Append(ledger, r), "tombstone") = NoncesOf(ledger, "tombstone")
    BY <1>2, <2>1, AppendNonces
  <2>4. QED
    BY <2>1, <2>2, <2>3
<1>7. LedgerInv'
  <2>1. Readable(ledger') /\ HasLast(ledger') /\ OneAttempt(ledger')
    BY <1>1, <1>2, <1>4, <1>5, AppendReadable, AppendHasLast, AppendKeepsAttempt DEF LedgerInv
  <2>2. EndsHaveAttempts(ledger')
    BY <1>2, <1>6 DEF LedgerInv, EndsHaveAttempts
  <2>3. QED
    BY <2>1, <2>2 DEF LedgerInv
<1>8. LastAttempt(ledger') = LastAttempt(ledger) + 1 /\ AttemptOf(ledger', n) = r
  BY <1>1, <1>2, <1>4, AppendLastAttempt, AppendKeepsAttempt
<1>9. TypeOK'
  <2>1. ledger' \in Seq(Records) /\ "consumed" \in Stages \ {"idle", "queued"}
    BY <1>1, <1>2, <1>4, AppendedAt DEF Stages
  <2>2. QED
    BY <1>1, <1>2, <2>1, GoTypes DEF TypeOK, At
<1>10. CountInv'
  BY <1>1, <1>6 DEF BrokerInv, CountInv
<1>11. FileInv'
  <2>1. Positions(ledger', "receipt") = Positions(ledger, "receipt")
    BY <1>1, <1>2, <1>4, AppendPositions
  <2>2. \A i \in Positions(ledger, "receipt") : ledger'[i] = ledger[i]
    BY <1>1, <1>2, <1>4, AppendedAt DEF Positions
  <2>3. published \subseteq Nat /\ published' = published
    BY <1>1, <1>2 DEF TypeOK
  <2>4. \A p \in published' : p <= LastAttempt(ledger')
    <3> DEFINE last == LastAttempt(ledger)
    <3>1. last \in Nat /\ LastAttempt(ledger') = last + 1
      BY <1>4, <1>8
    <3>2. \A p \in published : p \in Nat /\ p <= last
      BY <2>3 DEF BrokerInv, FileInv
    <3> HIDE DEF last
    <3>3. QED
      BY <2>3, <3>1, <3>2
  <2>5. \A k \in Positions(ledger', "receipt") : ledger'[k].attempt \in published'
    BY <2>1, <2>2, <2>3 DEF BrokerInv, FileInv
  <2>6. QED
    BY <2>4, <2>5 DEF FileInv
<1>12. ServeInv'
  <2>1. \A g \in Handlers \ {h} : ~Serving(g)' /\ ~At(g, "delivering")'
    BY <1>1, <1>2, OneWriter DEF Go, Serving, At, TypeOK
  <2>2. stage'[h] = "consumed" /\ call'[h].nonce = n
    BY <1>1, <1>2 DEF Go, TypeOK
  <2>3. n \in Pending(ledger')
    BY <1>1, <1>2, <1>6 DEF Pending, LedgerInv, EndsHaveAttempts
  <2>4. AttemptOf(ledger', n).attempt = LastAttempt(ledger')
    BY <1>4, <1>8
  <2>5. executions'[n] = 0 /\ signatures'[n] = 0
    <3>1. executions[n] \in Nat /\ signatures[n] \in Nat
      BY <1>2, <1>3 DEF TypeOK
    <3>2. executions[n] <= 1 /\ executions[n] # 1 /\ signatures[n] <= executions[n]
      BY <1>1, <1>3 DEF BrokerInv, CountInv
    <3>3. QED
      BY <1>1, <3>1, <3>2
  <2>6. LastAttempt(ledger') \notin published'
    <3>1. \A p \in published : p \in Nat /\ p <= LastAttempt(ledger)
      BY <1>2 DEF TypeOK, BrokerInv, FileInv
    <3>2. QED
      BY <1>1, <1>4, <1>8, <3>1
  <2>7. QED
    BY <2>1, <2>2, <2>3, <2>4, <2>5, <2>6 DEF ServeInv, Serving, At
<1>13. QED
  BY <1>7, <1>9, <1>10, <1>11, <1>12 DEF BrokerInv

LEMMA ExecuteInv ==
  ASSUME BrokerInv, NEW h \in Handlers, Execute(h)
  PROVE  BrokerInv'
<1> DEFINE n == call[h].nonce
<1>1. /\ stage[h] = "consumed" /\ Go(h, "executing")
      /\ executions' = [executions EXCEPT ![n] = @ + 1]
      /\ UNCHANGED <<disk, lock, call, signatures, answers>>
  BY DEF Execute, At
<1>2. TypeOK /\ n \in Nonces
  BY <1>1, CallTypes DEF BrokerInv
<1>3. executions[n] = 0 /\ signatures[n] = 0 /\ n \in NoncesOf(ledger, "attempt")
  <2>1. Serving(h) /\ At(h, "consumed") /\ ~At(h, "signed")
    BY <1>1 DEF Serving, At
  <2>2. QED
    BY <2>1 DEF BrokerInv, ServeInv, Pending
<1>4. TypeOK'
  <2>1. "executing" \in Stages \ {"idle", "queued"} /\ executions' \in [Nonces -> Nat]
    BY <1>1, <1>2 DEF Stages, TypeOK
  <2>2. QED
    BY <1>1, <1>2, <2>1, GoTypes DEF TypeOK, At, disk
<1>5. LedgerInv' /\ FileInv'
  BY <1>1 DEF BrokerInv, LedgerInv, FileInv, disk
<1>6. CountInv'
  <2>1. ledger' = ledger /\ signatures' = signatures
    BY <1>1 DEF disk
  <2>2. /\ executions' \in [Nonces -> Nat] /\ executions'[n] = 1
        /\ \A m \in Nonces \ {n} : executions'[m] = executions[m]
    BY <1>1, <1>2, <1>3 DEF TypeOK
  <2>3. QED
    BY <1>2, <1>3, <2>1, <2>2 DEF BrokerInv, CountInv
<1>7. ServeInv'
  <2>1. \A g \in Handlers \ {h} : ~Serving(g)' /\ ~At(g, "delivering")'
    BY <1>1, <1>2, OneWriter DEF Go, Serving, At, TypeOK
  <2>2. stage'[h] = "executing" /\ call'[h].nonce = n /\ executions'[n] = 1
    BY <1>1, <1>2, <1>3 DEF Go, TypeOK
  <2>3. QED
    BY <1>1, <2>1, <2>2 DEF BrokerInv, ServeInv, Serving, At, disk
<1>8. QED
  BY <1>4, <1>5, <1>6, <1>7 DEF BrokerInv

LEMMA PublishInv ==
  ASSUME BrokerInv, NEW h \in Handlers, Publish(h)
  PROVE  BrokerInv'
<1> DEFINE n == call[h].nonce
           number == AttemptOf(ledger, n).attempt
<1>1. /\ stage[h] = "executing" /\ Go(h, "published")
      /\ published' = published \union {number}
      /\ UNCHANGED <<ledger, tail, lock, call, executions, signatures, answers>>
  BY DEF Publish, At
<1>2. TypeOK /\ LedgerInv
  BY DEF BrokerInv
<1>3. /\ n \in Pending(ledger) /\ number = LastAttempt(ledger)
      /\ executions[n] = 1 /\ signatures[n] = 0
  <2>1. Serving(h) /\ ~At(h, "consumed") /\ ~At(h, "signed")
    BY <1>1 DEF Serving, At
  <2>2. QED
    BY <2>1 DEF BrokerInv, ServeInv
<1>4. number \in Nat
  BY <1>2, <1>3, LastTypes DEF TypeOK, LedgerInv
<1> HIDE DEF number
<1>5. TypeOK'
  <2>1. "published" \in Stages \ {"idle", "queued"} /\ published' \subseteq Nat
    BY <1>1, <1>2, <1>4 DEF Stages, TypeOK
  <2>2. QED
    BY <1>1, <1>2, <2>1, GoTypes DEF TypeOK, At
<1>6. LedgerInv' /\ CountInv'
  BY <1>1 DEF BrokerInv, LedgerInv, CountInv
<1>7. FileInv'
  BY <1>1, <1>3, <1>4 DEF BrokerInv, FileInv
<1>8. ServeInv'
  <2>1. \A g \in Handlers \ {h} : ~Serving(g)' /\ ~At(g, "delivering")'
    BY <1>1, <1>2, OneWriter DEF Go, Serving, At, TypeOK
  <2>2. stage'[h] = "published" /\ call'[h].nonce = n
    BY <1>1, <1>2 DEF Go, TypeOK
  <2>3. QED
    BY <1>1, <1>3, <2>1, <2>2 DEF ServeInv, Serving, At, number
<1>9. QED
  BY <1>5, <1>6, <1>7, <1>8 DEF BrokerInv

LEMMA SignInv ==
  ASSUME BrokerInv, NEW h \in Handlers, Sign(h)
  PROVE  BrokerInv'
<1> DEFINE n == call[h].nonce
<1>1. /\ stage[h] = "proven" /\ Go(h, "signed")
      /\ signatures' = [signatures EXCEPT ![n] = @ + 1]
      /\ UNCHANGED <<disk, lock, call, executions, answers>>
  BY DEF Sign, At
<1>2. TypeOK /\ n \in Nonces
  BY <1>1, CallTypes DEF BrokerInv
<1>3. executions[n] = 1 /\ signatures[n] = 0 /\ n \in Pending(ledger)
  <2>1. Serving(h) /\ ~At(h, "consumed") /\ ~At(h, "signed")
    BY <1>1 DEF Serving, At
  <2>2. QED
    BY <2>1 DEF BrokerInv, ServeInv
<1>4. TypeOK'
  <2>1. "signed" \in Stages \ {"idle", "queued"} /\ signatures' \in [Nonces -> Nat]
    BY <1>1, <1>2 DEF Stages, TypeOK
  <2>2. QED
    BY <1>1, <1>2, <2>1, GoTypes DEF TypeOK, At, disk
<1>5. LedgerInv' /\ FileInv'
  BY <1>1 DEF BrokerInv, LedgerInv, FileInv, disk
<1>6. signatures'[n] = 1 /\ \A m \in Nonces \ {n} : signatures'[m] = signatures[m]
  BY <1>1, <1>2, <1>3 DEF TypeOK
<1>7. CountInv'
  <2>1. ledger' = ledger /\ executions' = executions
    BY <1>1 DEF disk
  <2>2. QED
    BY <1>2, <1>3, <1>6, <2>1 DEF BrokerInv, CountInv
<1>8. ServeInv'
  <2>1. \A g \in Handlers \ {h} : ~Serving(g)' /\ ~At(g, "delivering")'
    BY <1>1, <1>2, OneWriter DEF Go, Serving, At, TypeOK
  <2>2. stage'[h] = "signed" /\ call'[h].nonce = n
    BY <1>1, <1>2 DEF Go, TypeOK
  <2>3. Serving(h) /\ stage[h] \notin {"consumed", "executing"}
    BY <1>1 DEF Serving
  <2>4. QED
    BY <1>1, <1>3, <1>6, <2>1, <2>2, <2>3 DEF BrokerInv, ServeInv, Serving, At, disk
<1>9. QED
  BY <1>4, <1>5, <1>7, <1>8 DEF BrokerInv

LEMMA AppendReceiptInv ==
  ASSUME BrokerInv, NEW h \in Handlers, AppendReceipt(h)
  PROVE  BrokerInv'
<1> DEFINE n == call[h].nonce
           r == NewReceipt(n)
<1>1. /\ stage[h] = "signed" /\ ledger' = Append(ledger, r) /\ Go(h, "delivering")
      /\ UNCHANGED <<tail, published, lock, call, executions, signatures, answers>>
  BY DEF AppendReceipt, At
<1>2. /\ TypeOK /\ LedgerInv /\ ledger \in Seq(Records) /\ HasLast(ledger)
      /\ OneAttempt(ledger) /\ n \in Nonces
  BY <1>1, CallTypes DEF BrokerInv, LedgerInv, TypeOK
<1>3. /\ n \in Pending(ledger) /\ n \in NoncesOf(ledger, "attempt")
      /\ AttemptOf(ledger, n).attempt = LastAttempt(ledger)
      /\ signatures[n] = 1 /\ LastAttempt(ledger) \in published
  <2>1. Serving(h) /\ At(h, "signed") /\ stage[h] \notin {"consumed", "executing"}
    BY <1>1 DEF Serving, At
  <2>2. QED
    BY <2>1 DEF BrokerInv, ServeInv, Pending
<1>4. /\ r \in Records /\ r.kind = "receipt" /\ r.nonce = n
      /\ r.attempt = LastAttempt(ledger) /\ r.request = AttemptOf(ledger, n).request
      /\ r.receipt = LastReceipt(ledger) + 1 /\ r.previous = LastDigest(ledger)
  <2> DEFINE a == AttemptOf(ledger, n)
             number == LastReceipt(ledger) + 1
             digest == LastDigest(ledger)
  <2>1. a \in Records /\ a.nonce = n /\ a.attempt = LastAttempt(ledger)
    BY <1>2, <1>3, AttemptOfNonce
  <2>2. number \in Nat /\ digest \in Nat
    BY <1>2, LastTypes
  <2>3. r = [a EXCEPT !.kind = "receipt", !.receipt = number, !.previous = digest]
    BY DEF NewReceipt
  <2> HIDE DEF a, number, digest, r
  <2>4. /\ r \in Records /\ r.kind = "receipt" /\ r.nonce = n /\ r.attempt = LastAttempt(ledger)
        /\ r.request = a.request /\ r.receipt = number /\ r.previous = digest
    BY <2>1, <2>2, <2>3 DEF Records, Kinds
  <2>5. QED
    BY <2>4 DEF a, number, digest
<1>5. Fits(ledger, r)
  BY <1>3, <1>4 DEF Fits, ReceiptFits, TerminalFits
<1> HIDE DEF r
<1>6. /\ NoncesOf(ledger', "attempt") = NoncesOf(ledger, "attempt")
      /\ NoncesOf(ledger', "receipt") = NoncesOf(ledger, "receipt") \union {n}
      /\ NoncesOf(ledger', "tombstone") = NoncesOf(ledger, "tombstone")
  <2>1. NoncesOf(Append(ledger, r), "receipt") = NoncesOf(ledger, "receipt") \union {n}
    BY <1>2, <1>4, AppendNonces
  <2>2. /\ NoncesOf(Append(ledger, r), "attempt") = NoncesOf(ledger, "attempt")
        /\ NoncesOf(Append(ledger, r), "tombstone") = NoncesOf(ledger, "tombstone")
    BY <1>2, <1>4, AppendNonces
  <2>3. QED
    BY <1>1, <2>1, <2>2
<1>7. LedgerInv'
  <2>1. Readable(ledger') /\ HasLast(ledger') /\ OneAttempt(ledger')
    BY <1>1, <1>2, <1>4, <1>5, AppendReadable, AppendHasLast, AppendKeepsAttempt DEF LedgerInv
  <2>2. EndsHaveAttempts(ledger')
    BY <1>2, <1>3, <1>6 DEF LedgerInv, EndsHaveAttempts
  <2>3. QED
    BY <2>1, <2>2 DEF LedgerInv
<1>8. TypeOK'
  <2>1. ledger' \in Seq(Records) /\ "delivering" \in Stages \ {"idle", "queued"}
    BY <1>1, <1>2, <1>4, AppendedAt DEF Stages
  <2>2. QED
    BY <1>1, <1>2, <2>1, GoTypes DEF TypeOK, At
<1>9. CountInv'
  BY <1>1, <1>3, <1>6 DEF BrokerInv, CountInv
<1>10. FileInv'
  <2>1. LastAttempt(ledger') = LastAttempt(ledger)
    BY <1>1, <1>2, <1>4, AppendLastAttempt
  <2>2. Positions(ledger', "receipt") = Positions(ledger, "receipt") \union {Len(ledger) + 1}
    BY <1>1, <1>2, <1>4, AppendPositions
  <2>3. /\ \A i \in Positions(ledger, "receipt") : ledger'[i] = ledger[i]
        /\ ledger'[Len(ledger) + 1] = r
    BY <1>1, <1>2, <1>4, AppendedAt DEF Positions
  <2>4. QED
    BY <1>1, <1>3, <1>4, <2>1, <2>2, <2>3 DEF BrokerInv, FileInv
<1>11. ServeInv'
  <2>1. \A g \in Handlers \ {h} : ~Serving(g)' /\ ~At(g, "delivering")'
    BY <1>1, <1>2, OneWriter DEF Go, Serving, At, TypeOK
  <2>2. stage'[h] = "delivering" /\ call'[h].nonce = n
    BY <1>1, <1>2 DEF Go, TypeOK
  <2>3. QED
    BY <1>6, <2>1, <2>2 DEF ServeInv, Serving, At
<1>12. QED
  BY <1>7, <1>8, <1>9, <1>10, <1>11 DEF BrokerInv

LEMMA NextInv ==
  ASSUME BrokerInv, [Next]_vars
  PROVE  BrokerInv'
<1>1. ASSUME NEW h \in Handlers, NEW n \in Nonces, NEW q \in Requests, Enter(h, n, q)
      PROVE  BrokerInv'
  BY <1>1, EnterInv
<1>2. ASSUME NEW h \in Handlers, HandlerStep(h) \/ Abort(h)
      PROVE  BrokerInv'
  BY <1>2, ProceedInv, AnswerInv, TombstoneInv, ConsumeInv, ExecuteInv, PublishInv, SignInv,
     AppendReceiptInv DEF HandlerStep
<1>3. CASE Crash \/ Inspect
  BY <1>3, CrashInv, InspectInv
<1>4. CASE UNCHANGED vars
  <2>1. TypeOK'
    BY <1>4 DEF vars, disk, BrokerInv, TypeOK, At
  <2>2. QED
    BY <1>4, <2>1, QuietStep DEF vars, disk, Serving, At
<1>5. QED
  BY <1>1, <1>2, <1>3, <1>4 DEF Next

(* BrokerInv holds in every state: the ledger is readable, the histories fit *)
(* it, and the one handler with an open attempt knows which it is.           *)
THEOREM BrokerSafety == Spec => []BrokerInv
<1>1. Init => BrokerInv
  BY InitInv
<1>2. BrokerInv /\ [Next]_vars => BrokerInv'
  BY NextInv
<1>3. QED
  BY <1>1, <1>2, PTL DEF Spec

(* Recovery never finds a record it must call corrupt: for any number of      *)
(* handlers and nonces, whatever is killed, torn, repaired or resubmitted.    *)
THEOREM LedgerStaysReadable == Spec => []LedgerReadable
<1>1. BrokerInv => LedgerReadable
  BY DEF BrokerInv, LedgerInv, LedgerReadable
<1>2. QED
  BY <1>1, BrokerSafety, PTL

(* A nonce is executed and signed at most once, only after its attempt is     *)
(* durable, and its output file has a name of its own.                        *)
THEOREM NoncesExecuteOnce == Spec => []ExecutedOnce
<1>1. BrokerInv => ExecutedOnce
  <2> SUFFICES ASSUME BrokerInv PROVE ExecutedOnce
    OBVIOUS
  <2>1. \A h \in Handlers :
          At(h, "executing") => AttemptOf(ledger, call[h].nonce).attempt \notin published
    <3> SUFFICES ASSUME NEW h \in Handlers, At(h, "executing")
                 PROVE  AttemptOf(ledger, call[h].nonce).attempt \notin published
      OBVIOUS
    <3>1. Serving(h) /\ stage[h] \in {"consumed", "executing"}
      BY DEF Serving, At
    <3>2. QED
      BY <3>1 DEF BrokerInv, ServeInv
  <2>2. QED
    BY <2>1 DEF BrokerInv, CountInv, FileInv, ExecutedOnce, OutputIsFresh
<1>2. QED
  BY <1>1, BrokerSafety, PTL

(* A step appends one record or none. *)
LEMMA StepAppends ==
  ASSUME BrokerInv, [Next]_vars
  PROVE  ledger' = ledger \/ \E r \in Records : ledger' = Append(ledger, r)
<1>1. ledger' = ledger \/ \E r : ledger' = Append(ledger, r)
  BY DEF Next, HandlerStep, Enter, Lock, ReadLedger, RefuseToRead, Recover, Recovered,
     ReturnDuplicate, RefuseConsumed, Consume, Execute, Publish, Prove, Fail, Sign,
     AppendReceipt, Deliver, Abort, Crash, Inspect, disk, vars
<1>2. ledger \in Seq(Records) /\ ledger' \in Seq(Records)
  BY NextInv DEF BrokerInv, TypeOK
<1>3. ASSUME NEW r, ledger' = Append(ledger, r) PROVE r \in Records
  <2>1. Len(ledger) + 1 \in DOMAIN ledger' /\ ledger'[Len(ledger) + 1] = r
    BY <1>2, <1>3
  <2>2. QED
    BY <1>2, <2>1, ElementOfSeq
<1>4. QED
  BY <1>1, <1>3

(* No step changes or drops a record that was written. *)
THEOREM LedgerIsAppendOnly == Spec => LedgerOnlyGrows
<1> DEFINE Grows == /\ Len(ledger) <= Len(ledger')
                    /\ SubSeq(ledger', 1, Len(ledger)) = ledger
<1>1. BrokerInv /\ [Next]_vars => Grows
  <2> SUFFICES ASSUME BrokerInv, [Next]_vars PROVE Grows
    OBVIOUS
  <2>1. ledger \in Seq(Records)
    BY DEF BrokerInv, TypeOK
  <2>2. CASE ledger' = ledger
    BY <2>1, <2>2
  <2>3. ASSUME NEW r \in Records, ledger' = Append(ledger, r) PROVE Grows
    BY <2>1, <2>3
  <2>4. QED
    BY <2>2, <2>3, StepAppends
<1>2. QED
  BY <1>1, BrokerSafety, PTL DEF Spec, LedgerOnlyGrows

------------------------------------------------------------------------------
(* The receipt chain the broker promises. *)

(* Receipts have the numbers from 1 to the last one's, each of them once. *)
Numbered(l) ==
  /\ \A i \in Positions(l, "receipt") : l[i].receipt \in 1 .. LastReceipt(l)
  /\ \A k \in 1 .. LastReceipt(l) : \E i \in Positions(l, "receipt") : l[i].receipt = k
  /\ \A i, j \in Positions(l, "receipt") : l[i].receipt = l[j].receipt => i = j

(* At most one attempt has no end, and none while a handler decides. *)
OpenInv ==
  /\ \A m, n \in Pending(ledger) : m = n
  /\ \A h \in Handlers : At(h, "deciding") => Pending(ledger) = {}

PromiseInv == Numbered(ledger) /\ OpenInv

LEMMA AppendLastReceipt ==
  ASSUME NEW l \in Seq(Records), HasLast(l), NEW r \in Records
  PROVE  LastReceipt(Append(l, r)) = IF r.kind = "receipt" THEN r.receipt ELSE LastReceipt(l)
<1>1. "receipt" \in Kinds
  BY DEF Kinds
<1>2. CASE r.kind = "receipt"
  <2>1. Positions(Append(l, r), "receipt") # {}
    BY <1>2, AppendPositions
  <2>2. QED
    BY <1>1, <1>2, <2>1, AppendLast DEF LastReceipt
<1>3. CASE r.kind # "receipt"
  <2>1. Positions(Append(l, r), "receipt") = Positions(l, "receipt")
    BY <1>3, AppendPositions
  <2>2. QED
    BY <1>1, <1>3, <2>1, AppendLast DEF LastReceipt
<1>4. QED
  BY <1>2, <1>3

(* A receipt is found by its number. *)
LEMMA NumberedIs ==
  ASSUME NEW l \in Seq(Records), Numbered(l), NEW i \in Positions(l, "receipt")
  PROVE  ReceiptNumbered(l, l[i].receipt) = l[i]
  BY DEF ReceiptNumbered, Numbered

(* The next receipt takes the next number and leaves the others. *)
LEMMA AppendNumbered ==
  ASSUME NEW l \in Seq(Records), HasLast(l), Numbered(l), NEW r \in Records,
         r.kind = "receipt", r.receipt = LastReceipt(l) + 1
  PROVE  /\ Numbered(Append(l, r))
         /\ LastReceipt(Append(l, r)) = LastReceipt(l) + 1
         /\ ReceiptNumbered(Append(l, r), LastReceipt(l) + 1) = r
         /\ \A k \in 1 .. LastReceipt(l) :
              ReceiptNumbered(Append(l, r), k) = ReceiptNumbered(l, k)
<1> DEFINE m == Append(l, r)
           P == Positions(l, "receipt")
           Q == Positions(m, "receipt")
<1>1. LastReceipt(l) \in Nat /\ LastReceipt(m) = LastReceipt(l) + 1
  BY LastTypes, AppendLastReceipt
<1>2. /\ Q = P \union {Len(l) + 1} /\ m \in Seq(Records) /\ m[Len(l) + 1] = r
      /\ \A i \in P : m[i] = l[i]
  BY AppendPositions, AppendedAt DEF Positions
<1>3. \A i \in P : l[i].receipt \in 1 .. LastReceipt(l)
  BY DEF Numbered
<1> HIDE DEF m, P, Q
<1>4. \A i \in Q : m[i].receipt \in 1 .. LastReceipt(m)
  BY <1>1, <1>2, <1>3
<1>5. \A k \in 1 .. LastReceipt(m) : \E i \in Q : m[i].receipt = k
  <2> SUFFICES ASSUME NEW k \in 1 .. LastReceipt(m) PROVE \E i \in Q : m[i].receipt = k
    OBVIOUS
  <2>1. CASE k = LastReceipt(l) + 1
    BY <1>2, <2>1
  <2>2. CASE k # LastReceipt(l) + 1
    <3>1. k \in 1 .. LastReceipt(l)
      BY <1>1, <2>2
    <3>2. PICK i \in P : l[i].receipt = k
      BY <3>1 DEF Numbered, P
    <3>3. QED
      BY <1>2, <3>2
  <2>3. QED
    BY <2>1, <2>2
<1>6. \A i, j \in Q : m[i].receipt = m[j].receipt => i = j
  <2> SUFFICES ASSUME NEW i \in Q, NEW j \in Q, m[i].receipt = m[j].receipt PROVE i = j
    OBVIOUS
  <2>1. \A a \in P : m[a].receipt # m[Len(l) + 1].receipt
    BY <1>1, <1>2, <1>3
  <2>2. i \in P <=> j \in P
    BY <1>2, <2>1
  <2>3. CASE i \in P /\ j \in P
    BY <1>2, <2>3 DEF Numbered, P
  <2>4. QED
    BY <1>2, <2>2, <2>3
<1>7. Numbered(m)
  BY <1>4, <1>5, <1>6 DEF Numbered, Q
<1>8. ReceiptNumbered(m, LastReceipt(l) + 1) = r
  BY <1>2, <1>7, NumberedIs DEF Q
<1>9. ASSUME NEW k \in 1 .. LastReceipt(l)
      PROVE  ReceiptNumbered(m, k) = ReceiptNumbered(l, k)
  <2>1. PICK i \in P : l[i].receipt = k
    BY DEF Numbered, P
  <2>2. ReceiptNumbered(l, k) = l[i]
    BY <2>1, NumberedIs DEF P
  <2>3. ReceiptNumbered(m, m[i].receipt) = m[i]
    BY <1>2, <1>7, <2>1, NumberedIs DEF Q
  <2>4. QED
    BY <1>2, <2>1, <2>2, <2>3
<1>10. QED
  BY <1>1, <1>7, <1>8, <1>9 DEF m

(* A record of another kind leaves the chain as it is. *)
LEMMA AppendOther ==
  ASSUME NEW l \in Seq(Records), HasLast(l), Numbered(l), NEW r \in Records, r.kind # "receipt"
  PROVE  /\ Numbered(Append(l, r))
         /\ LastReceipt(Append(l, r)) = LastReceipt(l)
         /\ \A k \in 1 .. LastReceipt(l) :
              ReceiptNumbered(Append(l, r), k) = ReceiptNumbered(l, k)
<1> DEFINE m == Append(l, r)
<1>1. LastReceipt(m) = LastReceipt(l)
  BY AppendLastReceipt
<1>2. /\ Positions(m, "receipt") = Positions(l, "receipt") /\ m \in Seq(Records)
      /\ \A i \in Positions(l, "receipt") : m[i] = l[i]
  BY AppendPositions, AppendedAt DEF Positions
<1> HIDE DEF m
<1>3. Numbered(m)
  BY <1>1, <1>2 DEF Numbered
<1>4. ASSUME NEW k \in 1 .. LastReceipt(l)
      PROVE  ReceiptNumbered(m, k) = ReceiptNumbered(l, k)
  <2>1. PICK i \in Positions(l, "receipt") : l[i].receipt = k
    BY DEF Numbered
  <2>2. ReceiptNumbered(l, l[i].receipt) = l[i] /\ ReceiptNumbered(m, m[i].receipt) = m[i]
    BY <1>2, <1>3, NumberedIs
  <2>3. QED
    BY <1>2, <2>1, <2>2
<1>5. QED
  BY <1>1, <1>3, <1>4 DEF m

(* The nonce without an end is the one that is open. *)
LEMMA OpenIs ==
  ASSUME BrokerInv, OpenInv
  PROVE  /\ Pending(ledger) \subseteq Nonces
         /\ \A n \in Pending(ledger) : Open = n /\ Pending(ledger) = {n} /\ n # None
         /\ Pending(ledger) = {} => Open = None
<1>1. Pending(ledger) \subseteq Nonces
  <2>1. ledger \in Seq(Records) /\ OneAttempt(ledger)
    BY DEF BrokerInv, TypeOK, LedgerInv
  <2>2. \A n \in NoncesOf(ledger, "attempt") : n \in Nonces
    BY <2>1, AttemptOfNonce DEF Records
  <2>3. QED
    BY <2>2 DEF Pending
<1>2. QED
  BY <1>1, NoneAssumption DEF Open, OpenInv

(* Whoever writes nothing and answers nothing stutters. *)
LEMMA SilentStep ==
  ASSUME UNCHANGED <<ledger, executions, answers>>
  PROVE  UNCHANGED Chain!vars /\ (Numbered(ledger) => Numbered(ledger)')
  BY DEF Chain!vars, Bound, Open, Chained, Answered, Numbered

LEMMA SilentPromise ==
  ASSUME BrokerInv, PromiseInv, NEW h \in Handlers,
         \/ Lock(h) \/ ReadLedger(h) \/ RefuseToRead(h) \/ Recovered(h) \/ RefuseConsumed(h)
         \/ Publish(h) \/ Prove(h) \/ Sign(h) \/ Abort(h)
  PROVE  PromiseInv' /\ UNCHANGED Chain!vars
<1>1. UNCHANGED <<ledger, executions, answers>>
  BY DEF Lock, ReadLedger, RefuseToRead, Recovered, RefuseConsumed, Publish, Prove, Sign, Abort, disk
<1>2. stage \in [Handlers -> Stages]
  BY DEF BrokerInv, TypeOK
<1>3. \A g \in Handlers : At(g, "deciding")' => At(g, "deciding") \/ Pending(ledger) = {}
  BY <1>2 DEF Lock, ReadLedger, RefuseToRead, Recovered, RefuseConsumed, Publish, Prove, Sign,
              Abort, Go, Leave, At
<1>4. OpenInv'
  BY <1>1, <1>3 DEF PromiseInv, OpenInv
<1>5. QED
  BY <1>1, <1>4, SilentStep DEF PromiseInv

LEMMA EnterPromise ==
  ASSUME BrokerInv, PromiseInv, Crash \/ Inspect \/ UNCHANGED vars \/
           \E h \in Handlers, n \in Nonces, q \in Requests : Enter(h, n, q)
  PROVE  PromiseInv' /\ UNCHANGED Chain!vars
<1>1. UNCHANGED <<ledger, executions, answers>>
  BY DEF Crash, Inspect, Enter, vars, disk
<1>2. stage \in [Handlers -> Stages]
  BY DEF BrokerInv, TypeOK
<1>3. \A g \in Handlers : At(g, "deciding")' => At(g, "deciding")
  BY <1>2 DEF Crash, Inspect, Enter, Go, At, vars
<1>4. OpenInv'
  BY <1>1, <1>3 DEF PromiseInv, OpenInv
<1>5. QED
  BY <1>1, <1>4, SilentStep DEF PromiseInv

(* A tombstone gives up the one attempt that was open. *)
LEMMA TombstonePromise ==
  ASSUME BrokerInv, PromiseInv, NEW h \in Handlers, Recover(h) \/ Fail(h)
  PROVE  PromiseInv' /\ Chain!GiveUp
<1>1. PICK n \in Pending(ledger) :
        ledger' = Append(ledger, Tombstone(n)) /\ UNCHANGED <<executions, answers>>
  BY DEF Recover, Fail, BrokerInv, ServeInv, Serving, At
<1> DEFINE r == Tombstone(n)
<1>2. /\ ledger \in Seq(Records) /\ HasLast(ledger) /\ OneAttempt(ledger)
      /\ n \in NoncesOf(ledger, "attempt")
  BY DEF BrokerInv, LedgerInv, TypeOK, Pending
<1>3. r \in Records /\ r.kind = "tombstone" /\ r.nonce = n
  BY <1>2, AttemptOfNonce DEF Tombstone, Records, Kinds
<1> HIDE DEF r
<1>4. /\ NoncesOf(ledger', "attempt") = NoncesOf(ledger, "attempt")
      /\ NoncesOf(ledger', "receipt") = NoncesOf(ledger, "receipt")
      /\ NoncesOf(ledger', "tombstone") = NoncesOf(ledger, "tombstone") \union {n}
  BY <1>1, <1>2, <1>3, AppendNonces DEF r
<1>5. Open = n /\ n # None /\ Pending(ledger) = {n}
  BY OpenIs DEF PromiseInv
<1>6. Pending(ledger') = {}
  BY <1>4, <1>5 DEF Pending
<1>7. Bound' = Bound
  BY <1>1, <1>2, <1>3, <1>4, AppendKeepsAttempt DEF Bound, r
<1>8. /\ Numbered(ledger') /\ LastReceipt(ledger') = LastReceipt(ledger)
      /\ \A k \in 1 .. LastReceipt(ledger) :
           ReceiptNumbered(ledger', k) = ReceiptNumbered(ledger, k)
  BY <1>1, <1>2, <1>3, AppendOther DEF PromiseInv, r
<1>9. Chained' = Chained
  BY <1>8 DEF Chained
<1>10. Open' = None
  BY <1>6 DEF Open
<1>11. Answered' = Answered /\ executions' = executions
  BY <1>1 DEF Answered
<1>12. Chain!GiveUp
  BY <1>5, <1>7, <1>9, <1>10, <1>11 DEF Chain!GiveUp
<1>13. QED
  BY <1>6, <1>8, <1>12 DEF PromiseInv, OpenInv

(* A fresh nonce is bound to the request, when no other is open. *)
LEMMA ConsumePromise ==
  ASSUME BrokerInv, PromiseInv, NEW h \in Handlers, Consume(h)
  PROVE  PromiseInv' /\ Chain!Bind(call[h].nonce, call[h].request) /\ call[h] \in Calls
<1> DEFINE n == call[h].nonce
           q == call[h].request
           r == NewAttempt(call[h])
<1>1. /\ stage[h] = "deciding" /\ n \notin NoncesOf(ledger, "attempt")
      /\ ledger' = Append(ledger, r) /\ Go(h, "consumed")
      /\ UNCHANGED <<executions, answers>>
  BY DEF Consume, At
<1>2. /\ TypeOK /\ ledger \in Seq(Records) /\ HasLast(ledger) /\ OneAttempt(ledger)
      /\ EndsHaveAttempts(ledger)
  BY DEF BrokerInv, LedgerInv, TypeOK
<1>3. call[h] \in Calls /\ n \in Nonces /\ q \in Requests
  BY <1>1, <1>2, CallTypes
<1>4. r \in Records /\ r.kind = "attempt" /\ r.nonce = n /\ r.request = q
  <2> DEFINE number == LastAttempt(ledger) + 1
  <2>1. number \in Nat
    BY <1>2, LastTypes
  <2>2. r = [kind |-> "attempt", nonce |-> n, request |-> q,
             attempt |-> number, receipt |-> 0, previous |-> 0]
    BY DEF NewAttempt
  <2> HIDE DEF number, r, n, q
  <2>3. QED
    BY <1>3, <2>1, <2>2 DEF Records, Kinds
<1> HIDE DEF r
<1>5. /\ NoncesOf(ledger', "attempt") = NoncesOf(ledger, "attempt") \union {n}
      /\ NoncesOf(ledger', "receipt") = NoncesOf(ledger, "receipt")
      /\ NoncesOf(ledger', "tombstone") = NoncesOf(ledger, "tombstone")
  BY <1>1, <1>2, <1>4, AppendNonces
<1>6. Pending(ledger) = {} /\ Open = None
  BY <1>1, OpenIs DEF PromiseInv, OpenInv, At
<1>7. Pending(ledger') = {n} /\ Open' = n
  <2>1. Pending(ledger') = {n}
    BY <1>1, <1>2, <1>5, <1>6 DEF Pending, EndsHaveAttempts
  <2>2. QED
    BY <2>1 DEF Open
<1>8. /\ \A m \in NoncesOf(ledger, "attempt") : AttemptOf(ledger', m) = AttemptOf(ledger, m)
      /\ AttemptOf(ledger', n) = r
  BY <1>1, <1>2, <1>4, AppendKeepsAttempt
<1>9. Bound[n] = None /\ Bound' = [Bound EXCEPT ![n] = q]
  BY <1>1, <1>3, <1>4, <1>5, <1>8 DEF Bound
<1>10. /\ Numbered(ledger') /\ LastReceipt(ledger') = LastReceipt(ledger)
       /\ \A k \in 1 .. LastReceipt(ledger) :
            ReceiptNumbered(ledger', k) = ReceiptNumbered(ledger, k)
  BY <1>1, <1>2, <1>4, AppendOther DEF PromiseInv
<1>11. Chained' = Chained
  BY <1>10 DEF Chained
<1>12. \A g \in Handlers : ~At(g, "deciding")'
  <2>1. stage'[h] = "consumed" /\ \A g \in Handlers \ {h} : stage'[g] = stage[g]
    BY <1>1, <1>2 DEF Go, TypeOK
  <2>2. \A g \in Handlers \ {h} : stage[g] \in {"idle", "queued"}
    BY <1>1, <1>2 DEF TypeOK
  <2>3. QED
    BY <2>1, <2>2 DEF At
<1>13. Chain!Bind(n, q)
  BY <1>1, <1>6, <1>7, <1>9, <1>11 DEF Chain!Bind, Answered
<1>14. QED
  BY <1>3, <1>7, <1>10, <1>12, <1>13 DEF PromiseInv, OpenInv

LEMMA ExecutePromise ==
  ASSUME BrokerInv, PromiseInv, NEW h \in Handlers, Execute(h)
  PROVE  PromiseInv' /\ Chain!Run(call[h].nonce) /\ call[h].nonce \in Nonces
<1> DEFINE n == call[h].nonce
<1>1. /\ stage[h] = "consumed" /\ Go(h, "executing") /\ UNCHANGED <<ledger, answers>>
      /\ executions' = [executions EXCEPT ![n] = @ + 1]
  BY DEF Execute, At, disk
<1>2. TypeOK /\ n \in Nonces /\ n \in Pending(ledger) /\ executions[n] = 0
  BY <1>1, CallTypes DEF BrokerInv, ServeInv, Serving, At
<1>3. Open = n
  BY <1>2, OpenIs DEF PromiseInv
<1>4. executions' = [executions EXCEPT ![n] = 1]
  BY <1>1, <1>2 DEF TypeOK
<1>5. UNCHANGED <<Bound, Open, Chained, Answered>> /\ Numbered(ledger')
  BY <1>1 DEF Bound, Open, Chained, Answered, PromiseInv
<1>6. \A g \in Handlers : At(g, "deciding")' => At(g, "deciding")
  BY <1>1, <1>2 DEF Go, At, TypeOK
<1>7. QED
  BY <1>1, <1>2, <1>3, <1>4, <1>5, <1>6 DEF PromiseInv, OpenInv, Chain!Run

(* A sequence that agrees with another one and has one more element. *)
LEMMA OneLonger ==
  ASSUME NEW S, NEW len \in Nat, NEW f \in [1 .. len -> S], NEW g \in [1 .. len + 1 -> S],
         \A k \in 1 .. len : g[k] = f[k]
  PROVE  g = Append(f, g[len + 1])
<1> DEFINE e == g[len + 1]
           t == Append(f, e)
<1>1. f \in Seq(S) /\ Len(f) = len /\ e \in S
  OBVIOUS
<1>2. /\ t \in Seq(S) /\ Len(t) = len + 1
      /\ t[len + 1] = e /\ \A k \in 1 .. len : t[k] = f[k]
  BY <1>1, AppendProperties
<1>3. \A k \in 1 .. len + 1 : k \in 1 .. len \/ k = len + 1
  OBVIOUS
<1> HIDE DEF t
<1>4. \A k \in 1 .. len + 1 : t[k] = g[k]
  BY <1>2, <1>3
<1>5. t \in [1 .. len + 1 -> S]
  BY <1>2
<1>6. t = g
  BY <1>4, <1>5
<1>7. QED
  BY <1>6 DEF t

(* The open nonce, which ran, gets the next receipt of the chain. *)
LEMMA AppendReceiptPromise ==
  ASSUME BrokerInv, PromiseInv, NEW h \in Handlers, AppendReceipt(h)
  PROVE  PromiseInv' /\ Chain!Issue(call[h].nonce) /\ call[h].nonce \in Nonces
<1> DEFINE n == call[h].nonce
           r == NewReceipt(n)
<1>1. /\ stage[h] = "signed" /\ ledger' = Append(ledger, r) /\ Go(h, "delivering")
      /\ UNCHANGED <<executions, answers>>
  BY DEF AppendReceipt, At
<1>2. /\ TypeOK /\ ledger \in Seq(Records) /\ HasLast(ledger) /\ OneAttempt(ledger) /\ n \in Nonces
  BY <1>1, CallTypes DEF BrokerInv, LedgerInv, TypeOK
<1>3. n \in Pending(ledger) /\ n \in NoncesOf(ledger, "attempt") /\ executions[n] = 1
  BY <1>1 DEF BrokerInv, ServeInv, Serving, At, Pending
<1>4. /\ r \in Records /\ r.kind = "receipt" /\ r.nonce = n
      /\ r.request = AttemptOf(ledger, n).request /\ r.receipt = LastReceipt(ledger) + 1
  <2> DEFINE a == AttemptOf(ledger, n)
             number == LastReceipt(ledger) + 1
             digest == LastDigest(ledger)
  <2>1. a \in Records /\ a.nonce = n
    BY <1>2, <1>3, AttemptOfNonce
  <2>2. number \in Nat /\ digest \in Nat
    BY <1>2, LastTypes
  <2>3. r = [a EXCEPT !.kind = "receipt", !.receipt = number, !.previous = digest]
    BY DEF NewReceipt
  <2> HIDE DEF a, number, digest, r
  <2>4. /\ r \in Records /\ r.kind = "receipt" /\ r.nonce = n
        /\ r.request = a.request /\ r.receipt = number
    BY <2>1, <2>2, <2>3 DEF Records, Kinds
  <2>5. QED
    BY <2>4 DEF a, number
<1> HIDE DEF r
<1>5. /\ NoncesOf(ledger', "attempt") = NoncesOf(ledger, "attempt")
      /\ NoncesOf(ledger', "tombstone") = NoncesOf(ledger, "tombstone")
  <2>1. /\ NoncesOf(Append(ledger, r), "attempt") = NoncesOf(ledger, "attempt")
        /\ NoncesOf(Append(ledger, r), "tombstone") = NoncesOf(ledger, "tombstone")
    BY <1>2, <1>4, AppendNonces
  <2>2. QED
    BY <1>1, <2>1
<1>6. NoncesOf(ledger', "receipt") = NoncesOf(ledger, "receipt") \union {n}
  BY <1>1, <1>2, <1>4, AppendNonces
<1>7. Open = n /\ Pending(ledger) = {n} /\ Bound[n] = AttemptOf(ledger, n).request
  BY <1>2, <1>3, OpenIs DEF PromiseInv, Bound
<1>8. Pending(ledger') = {} /\ Open' = None
  <2>1. Pending(ledger') = {}
    BY <1>5, <1>6, <1>7 DEF Pending
  <2>2. QED
    BY <2>1 DEF Open
<1>9. Bound' = Bound
  BY <1>1, <1>2, <1>4, <1>5, AppendKeepsAttempt DEF Bound
<1>10. /\ Numbered(ledger') /\ LastReceipt(ledger') = LastReceipt(ledger) + 1
       /\ LastReceipt(ledger) \in Nat
       /\ ReceiptNumbered(ledger', LastReceipt(ledger) + 1) = r
       /\ \A k \in 1 .. LastReceipt(ledger) :
            ReceiptNumbered(ledger', k) = ReceiptNumbered(ledger, k)
  BY <1>1, <1>2, <1>4, AppendNumbered, LastTypes DEF PromiseInv
<1>11. Chained' = Append(Chained, [nonce |-> n, request |-> Bound[n]])
  <2> DEFINE last == LastReceipt(ledger)
             e == [nonce |-> n, request |-> Bound[n]]
             f == [k \in 1 .. last |-> Content(ReceiptNumbered(ledger, k))]
             g == [k \in 1 .. last + 1 |-> Content(ReceiptNumbered(ledger', k))]
  <2>1. Content(r) = e
    BY <1>4, <1>7 DEF Content
  <2>2. last \in Nat /\ g[last + 1] = e /\ \A k \in 1 .. last : g[k] = f[k]
    BY <1>10, <2>1
  <2>3. g = Append(f, e)
    <3> DEFINE S == {f[k] : k \in 1 .. last} \union {e}
    <3>1. f \in [1 .. last -> S]
      OBVIOUS
    <3>2. DOMAIN g = 1 .. last + 1 /\ g = [k \in 1 .. last + 1 |-> g[k]]
      OBVIOUS
    <3> HIDE DEF f, g, last, e
    <3>3. \A k \in 1 .. last + 1 : g[k] \in S
      <4>1. \A k \in 1 .. last + 1 : k \in 1 .. last \/ k = last + 1
        BY <2>2
      <4>2. QED
        BY <2>2, <4>1
    <3> HIDE DEF S
    <3>4. g \in [1 .. last + 1 -> S]
      BY <3>2, <3>3
    <3>5. QED
      BY <2>2, <3>1, <3>4, OneLonger
  <2>4. QED
    BY <1>10, <2>3 DEF Chained
<1>12. \A g \in Handlers : At(g, "deciding")' => At(g, "deciding")
  BY <1>1, <1>2 DEF Go, At, TypeOK
<1>13. Chain!Issue(n)
  BY <1>1, <1>3, <1>7, <1>8, <1>9, <1>11 DEF Chain!Issue, Answered
<1>14. QED
  BY <1>2, <1>8, <1>10, <1>13 DEF PromiseInv, OpenInv

(* What a caller gets is a receipt of the chain. *)
LEMMA AnswerPromise ==
  ASSUME BrokerInv, PromiseInv, NEW h \in Handlers, ReturnDuplicate(h) \/ Deliver(h)
  PROVE  PromiseInv' /\ \E k \in DOMAIN Chained : Chain!Answer(k)
<1> DEFINE n == call[h].nonce
           r == ReceiptOf(n)
<1>1. /\ answers' = answers \union {[call |-> call[h], receipt |-> r]}
      /\ n \in NoncesOf(ledger, "receipt") /\ Leave(h) /\ UNCHANGED <<ledger, executions>>
  BY DEF ReturnDuplicate, Deliver, HasReceipt, BrokerInv, ServeInv, disk
<1>2. ledger \in Seq(Records) /\ TypeOK
  BY DEF BrokerInv, TypeOK
<1>3. PICK i \in Positions(ledger, "receipt") : r = ledger[i]
  BY <1>1 DEF NoncesOf, ReceiptOf
<1>4. r.receipt \in DOMAIN Chained /\ ReceiptNumbered(ledger, r.receipt) = r
  BY <1>2, <1>3, NumberedIs DEF PromiseInv, Numbered, Chained
<1>5. Chained[r.receipt] = Content(r)
  BY <1>4 DEF Chained
<1>6. Answered' = Answered \union {Content(r)}
  <2> DEFINE d == [call |-> call[h], receipt |-> r]
             before == {Content(a.receipt) : a \in answers}
             after == {Content(a.receipt) : a \in answers \union {d}}
  <2>1. Answered = before /\ Answered' = after
    BY <1>1 DEF Answered, Content
  <2>2. d.receipt = r
    OBVIOUS
  <2> HIDE DEF d, r
  <2>3. after = before \union {Content(r)}
    BY <2>2
  <2>4. QED
    BY <2>1, <2>3
<1>7. UNCHANGED <<Bound, Open, Chained>> /\ Numbered(ledger')
  BY <1>1 DEF Bound, Open, Chained, PromiseInv
<1>8. \A g \in Handlers : At(g, "deciding")' => At(g, "deciding")
  BY <1>1, <1>2 DEF Leave, At, TypeOK
<1>9. Chain!Answer(r.receipt)
  BY <1>1, <1>5, <1>6, <1>7 DEF Chain!Answer
<1>10. QED
  BY <1>1, <1>4, <1>7, <1>8, <1>9 DEF PromiseInv, OpenInv

LEMMA NextPromise ==
  ASSUME BrokerInv, PromiseInv, [Next]_vars
  PROVE  PromiseInv' /\ [Chain!Next]_Chain!vars
<1>1. CASE \E h \in Handlers : \/ Lock(h) \/ ReadLedger(h) \/ RefuseToRead(h) \/ Recovered(h)
                               \/ RefuseConsumed(h) \/ Publish(h) \/ Prove(h) \/ Sign(h) \/ Abort(h)
  BY <1>1, SilentPromise
<1>2. CASE Crash \/ Inspect \/ UNCHANGED vars \/
             \E h \in Handlers, n \in Nonces, q \in Requests : Enter(h, n, q)
  BY <1>2, EnterPromise
<1>3. ASSUME NEW h \in Handlers, Recover(h) \/ Fail(h)
      PROVE  PromiseInv' /\ [Chain!Next]_Chain!vars
  BY <1>3, TombstonePromise DEF Chain!Next
<1>4. ASSUME NEW h \in Handlers, Consume(h)
      PROVE  PromiseInv' /\ [Chain!Next]_Chain!vars
  BY <1>4, ConsumePromise DEF Chain!Next, Calls
<1>5. ASSUME NEW h \in Handlers, Execute(h)
      PROVE  PromiseInv' /\ [Chain!Next]_Chain!vars
  BY <1>5, ExecutePromise DEF Chain!Next
<1>6. ASSUME NEW h \in Handlers, AppendReceipt(h)
      PROVE  PromiseInv' /\ [Chain!Next]_Chain!vars
  BY <1>6, AppendReceiptPromise DEF Chain!Next
<1>7. ASSUME NEW h \in Handlers, ReturnDuplicate(h) \/ Deliver(h)
      PROVE  PromiseInv' /\ [Chain!Next]_Chain!vars
  BY <1>7, AnswerPromise DEF Chain!Next
<1>8. QED
  BY <1>1, <1>2, <1>3, <1>4, <1>5, <1>6, <1>7 DEF Next, HandlerStep

LEMMA InitPromise == Init => PromiseInv /\ Chain!Init
<1> SUFFICES ASSUME Init PROVE PromiseInv /\ Chain!Init
  OBVIOUS
<1>1. \A k : Positions(ledger, k) = {} /\ NoncesOf(ledger, k) = {}
  BY DEF Init, Positions, NoncesOf
<1>2. LastReceipt(ledger) = 0 /\ Pending(ledger) = {}
  BY <1>1 DEF LastReceipt, Pending
<1>3. PromiseInv
  BY <1>1, <1>2 DEF PromiseInv, Numbered, OpenInv
<1>4. Bound = [n \in Nonces |-> None] /\ Open = None
  BY <1>1, <1>2 DEF Bound, Open
<1>5. Chained = <<>>
  BY <1>2 DEF Chained
<1>6. Answered = {} /\ executions = [n \in Nonces |-> 0]
  BY DEF Init, Answered
<1>7. QED
  BY <1>3, <1>4, <1>5, <1>6 DEF Chain!Init

(* Every step of the broker, with its file, its crashes and its handlers, is a *)
(* step of the receipt chain or none: a nonce is bound once, runs at most once *)
(* and gets at most one receipt, at the next position, and callers get only    *)
(* receipts of the chain (handle and _recover_pending).                        *)
THEOREM BrokerKeepsItsPromise == Spec => ImplementsReceiptChain
<1>1. Init => PromiseInv /\ Chain!Init
  BY InitPromise
<1>2. BrokerInv /\ PromiseInv /\ [Next]_vars => PromiseInv' /\ [Chain!Next]_Chain!vars
  BY NextPromise
<1>3. QED
  BY <1>1, <1>2, BrokerSafety, PTL DEF Spec, ImplementsReceiptChain, Chain!Spec
===============================================================================
