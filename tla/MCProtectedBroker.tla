--------------------------- MODULE MCProtectedBroker ---------------------------
EXTENDS ProtectedBroker, TLC

(* Handlers, nonces and requests are interchangeable. *)
Symmetry == Permutations(Handlers) \union Permutations(Nonces) \union Permutations(Requests)
===============================================================================
