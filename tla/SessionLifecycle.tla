--------------------------- MODULE SessionLifecycle ---------------------------
(***************************************************************************)
(* What the session core promises to its users: a session is opened once,  *)
(* can be entered only while it is live, is revoked once and for ever, is  *)
(* erased (its volatile state is dropped) only after it was revoked, and   *)
(* is destroyed only when it has been erased and the last user has left.   *)
(***************************************************************************)
CONSTANTS Sessions, Users

VARIABLES
  phase,     \* "absent", "live", "revoked" or "gone"
  leases,    \* the users inside the session
  erased     \* every observer has dropped what it held for the session

lifecycleVars == <<phase, leases, erased>>

Init ==
  /\ phase = [s \in Sessions |-> "absent"]
  /\ leases = [s \in Sessions |-> {}]
  /\ erased = [s \in Sessions |-> FALSE]

Open(s) ==
  /\ phase[s] = "absent"
  /\ phase' = [phase EXCEPT ![s] = "live"]
  /\ UNCHANGED <<leases, erased>>

Enter(s, u) ==
  /\ phase[s] = "live"
  /\ leases' = [leases EXCEPT ![s] = @ \cup {u}]
  /\ UNCHANGED <<phase, erased>>

Leave(s, u) ==
  /\ u \in leases[s]
  /\ leases' = [leases EXCEPT ![s] = @ \ {u}]
  /\ UNCHANGED <<phase, erased>>

\* One or many sessions at once (a sweep, a shutdown).
Revoke(S) ==
  /\ \A s \in S : phase[s] = "live"
  /\ phase' = [s \in Sessions |-> IF s \in S THEN "revoked" ELSE phase[s]]
  /\ UNCHANGED <<leases, erased>>

\* A user that finds its snapshot stale revokes the session as it leaves.
RevokeAndLeave(s, u) ==
  /\ phase[s] = "live"
  /\ u \in leases[s]
  /\ phase' = [phase EXCEPT ![s] = "revoked"]
  /\ leases' = [leases EXCEPT ![s] = @ \ {u}]
  /\ UNCHANGED erased

Erase(s) ==
  /\ phase[s] = "revoked"
  /\ erased' = [erased EXCEPT ![s] = TRUE]
  /\ UNCHANGED <<phase, leases>>

Destroy(s) ==
  /\ phase[s] = "revoked"
  /\ erased[s]
  /\ leases[s] = {}
  /\ phase' = [phase EXCEPT ![s] = "gone"]
  /\ UNCHANGED <<leases, erased>>

Next ==
  \/ \E s \in Sessions : Open(s) \/ Erase(s) \/ Destroy(s)
  \/ \E s \in Sessions, u \in Users : Enter(s, u) \/ Leave(s, u) \/ RevokeAndLeave(s, u)
  \/ \E S \in SUBSET Sessions : Revoke(S)

Spec == Init /\ [][Next]_lifecycleVars
=============================================================================
