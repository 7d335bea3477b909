----------------------------- MODULE ReceiptChain -----------------------------
(* What the protected broker promises its callers.  A client nonce is bound to *)
(* one request, for good; the bound request runs at most once; what ran, and   *)
(* only that, may get one receipt, at the next position of one gapless chain;  *)
(* every answer is a receipt of the chain.  A bound request may be given up at *)
(* any time, after which it never runs and never gets a receipt.               *)
EXTENDS Naturals, Sequences

CONSTANTS
  Nonces,     \* the nonces clients draw
  Requests,   \* the requests, by their hash
  None        \* no nonce, and no request

ASSUME NoneIsNoNonce == None \notin Nonces

ASSUME NoneIsNoRequest == None \notin Requests

VARIABLES
  bound,      \* nonce -> the request it was consumed for, or None
  open,       \* the nonce being served, or None
  ran,        \* nonce -> how often its request was executed
  chain,      \* the receipts, in the order of their sequence numbers
  answers     \* the receipts callers got

vars == <<bound, open, ran, chain, answers>>

Init ==
  /\ bound = [n \in Nonces |-> None]
  /\ open = None
  /\ ran = [n \in Nonces |-> 0]
  /\ chain = <<>>
  /\ answers = {}

(* A fresh nonce is consumed; only one is served at a time. *)
Bind(n, q) ==
  /\ open = None
  /\ bound[n] = None
  /\ bound' = [bound EXCEPT ![n] = q]
  /\ open' = n
  /\ UNCHANGED <<ran, chain, answers>>

Run(n) ==
  /\ open = n
  /\ ran[n] = 0
  /\ ran' = [ran EXCEPT ![n] = 1]
  /\ UNCHANGED <<bound, open, chain, answers>>

(* The receipt of the nonce being served takes the next position of the chain. *)
Issue(n) ==
  /\ open = n
  /\ ran[n] = 1
  /\ chain' = Append(chain, [nonce |-> n, request |-> bound[n]])
  /\ open' = None
  /\ UNCHANGED <<bound, ran, answers>>

GiveUp ==
  /\ open # None
  /\ open' = None
  /\ UNCHANGED <<bound, ran, chain, answers>>

Answer(i) ==
  /\ answers' = answers \union {chain[i]}
  /\ UNCHANGED <<bound, open, ran, chain>>

Next ==
  \/ \E n \in Nonces, q \in Requests : Bind(n, q)
  \/ \E n \in Nonces : Run(n) \/ Issue(n)
  \/ GiveUp
  \/ \E i \in DOMAIN chain : Answer(i)

Spec == Init /\ [][Next]_vars

===============================================================================
