----------------------------- MODULE BrainSessions -----------------------------
(***************************************************************************)
(* The SessionManager of src/metis_model1/brain_sessions.py: tenant-scoped *)
(* sessions that are opened against a captured tenant snapshot, leased to  *)
(* operations, revoked (idle expiry, close, stale snapshot, shutdown) and  *)
(* erased.  Threads interleave at the places where the code releases the   *)
(* manager lock: around assert_current, around the cleanup listeners and   *)
(* around the removal of the overlay directory.                            *)
(*                                                                         *)
(* A session identifier is fresh for every create_session, so the life of  *)
(* a session is one pass from "absent" to "CLOSED".  A thread runs the     *)
(* call pc[t] on session on[t]; before the call goes on it must finish the *)
(* notifications toNotify[t] and then the cleanups toClean[t] it owes, one *)
(* session (at[t]) at a time.                                              *)
(***************************************************************************)
EXTENDS Integers, FiniteSets

CONSTANTS
  Sessions,     \* session identifiers
  NoSession,    \* not a session
  Workers,      \* HTTP handler and turn worker threads
  Reaper,       \* the thread that runs sweep_expired
  Closer,       \* the thread that runs shutdown
  ClientOf,     \* client_id of the request that opens a session
  TenantOf,     \* tenant_alias of that request
  Revisions,    \* revisions a tenant's context can have on disk
  GlobalLimit, ClientLimit, TenantLimit,    \* SessionLimits
  TTL,          \* clock ticks in idle_ttl_seconds
  NListeners,   \* registered cleanup listeners
  MaxFaults     \* bound on failing listeners and failing overlay removals

ASSUME SessionsAssumption ==
  /\ IsFiniteSet(Sessions) /\ NoSession \notin Sessions
  /\ IsFiniteSet(Workers)
  /\ Reaper \notin Workers /\ Closer \notin Workers /\ Reaper # Closer
  /\ Revisions # {}
  /\ GlobalLimit \in Nat /\ ClientLimit \in Nat /\ TenantLimit \in Nat
  /\ TTL \in Nat \ {0}
  /\ NListeners \in Nat \ {0}
  /\ MaxFaults \in Nat

Threads == Workers \cup {Reaper, Closer}
Clients == {ClientOf[s] : s \in Sessions}
Tenants == {TenantOf[s] : s \in Sessions}

VARIABLES
  create,               \* progress of the create_session call of each session
  state,                \* _Session.state, "absent" before _sessions holds it
  token,                \* token_digest is not empty
  cancelled,            \* the cancellation event is set
  revision,             \* the revision of the captured snapshot
  snapshot,             \* _Session.snapshot is not None
  overlay,              \* the overlay directory exists
  idle,                 \* ticks since last_activity, counted up to TTL
  in_flight, cleanup_started, listeners_completed,
  pending_total, pending_by_client, pending_by_tenant,
  shutdown,             \* _shutdown
  reaping,              \* the reaper loop has not been told to stop
  current,              \* the revision assert_current finds for a tenant
  faults,               \* failures injected so far
  pc, on,               \* the call a thread runs and its session
  toNotify, toClean,    \* sessions it still has to notify and to clean
  doing, at, cursor     \* the notification or cleanup step it is in

sessionVars == <<state, token, cancelled, snapshot, overlay, idle, in_flight,
                 cleanup_started, listeners_completed>>
captureVars == <<create, revision, pending_total, pending_by_client, pending_by_tenant>>
callVars    == <<pc, on>>
dutyVars    == <<toNotify, toClean>>
stepVars    == <<doing, at, cursor>>
envVars     == <<shutdown, reaping, current, faults>>
vars == <<sessionVars, captureVars, callVars, dutyVars, stepVars, envVars>>

-----------------------------------------------------------------------------
Live    == {s \in Sessions : state[s] \notin {"absent", "CLOSED"}}
Revoked == {s \in Sessions : state[s] \in {"EXPIRED", "STALE", "CLOSING"}}

\* The points of operation() at which its thread counts in in_flight.
LeasePoints == {"check2", "activate", "body", "check3", "exit"}
Leases(t, s) == on[t] = s /\ pc[t] \in LeasePoints

\* Faulty variant: the operations in flight are not looked at.
SchedulableWhileBusy(s, n) == ~cleanup_started[s]

\* Faulty variant: a cleanup that already has an owner is handed out again.
SchedulableTwice(s, n) == n = 0

\* Faulty variant: the count is read before the lease is given back.
SchedulableOnOldCount(s, n) == in_flight[s] = 0 /\ ~cleanup_started[s]

\* What _schedule_cleanup_locked tests before it hands out the cleanup of s,
\* with n operations left on it.
Schedulable(s, n) == n = 0 /\ ~cleanup_started[s]

\* Faulty variant: a session expires during an operation.
DueWhileBusy(s) == state[s] = "ACTIVE" /\ idle[s] >= TTL

\* What _mark_expired_locked tests.
Due(s) == state[s] = "ACTIVE" /\ in_flight[s] = 0 /\ idle[s] >= TTL

\* Faulty variant: a revoked session that is still known is available.
AvailableWhileKnown(s) == s \in Live

\* What operation() tests when it authenticates for the second time.
Available(s) == state[s] = "ACTIVE"

\* Faulty variant: shutdown is not tested again after the capture.
AcceptingAnyway == TRUE

\* The second shutdown test of create_session, after the capture.
StillAccepting == ~shutdown

\* Faulty variant: captures in progress are not counted.
HasCapacityForOpen(s) ==
  /\ Cardinality(Live) < GlobalLimit
  /\ Cardinality({x \in Live : ClientOf[x] = ClientOf[s]}) < ClientLimit
  /\ Cardinality({x \in Live : TenantOf[x] = TenantOf[s]}) < TenantLimit

\* What _check_capacity tests for the client and the tenant of s.
HasCapacity(s) ==
  /\ Cardinality(Live) + pending_total < GlobalLimit
  /\ Cardinality({x \in Live : ClientOf[x] = ClientOf[s]}) + pending_by_client[ClientOf[s]]
       < ClientLimit
  /\ Cardinality({x \in Live : TenantOf[x] = TenantOf[s]}) + pending_by_tenant[TenantOf[s]]
       < TenantLimit

-----------------------------------------------------------------------------
Init ==
  /\ create = [s \in Sessions |-> "none"]
  /\ state = [s \in Sessions |-> "absent"]
  /\ token = [s \in Sessions |-> FALSE]
  /\ cancelled = [s \in Sessions |-> FALSE]
  /\ revision \in {[s \in Sessions |-> r] : r \in Revisions}
  /\ snapshot = [s \in Sessions |-> FALSE]
  /\ overlay = [s \in Sessions |-> FALSE]
  /\ idle = [s \in Sessions |-> 0]
  /\ in_flight = [s \in Sessions |-> 0]
  /\ cleanup_started = [s \in Sessions |-> FALSE]
  /\ listeners_completed = [s \in Sessions |-> {}]
  /\ pending_total = 0
  /\ pending_by_client = [c \in Clients |-> 0]
  /\ pending_by_tenant = [n \in Tenants |-> 0]
  /\ shutdown = FALSE
  /\ reaping = TRUE
  /\ current \in {[n \in Tenants |-> r] : r \in Revisions}
  /\ faults = 0
  /\ pc = [t \in Threads |-> "idle"]
  /\ on = [t \in Threads |-> NoSession]
  /\ toNotify = [t \in Threads |-> {}]
  /\ toClean = [t \in Threads |-> {}]
  /\ doing = [t \in Threads |-> "none"]
  /\ at = [t \in Threads |-> NoSession]
  /\ cursor = [t \in Threads |-> 1]

-----------------------------------------------------------------------------
(* create_session: reserve under the lock, capture without it, insert.     *)

AddPending(s, n) ==
  /\ pending_total' = pending_total + n
  /\ pending_by_client' = [pending_by_client EXCEPT ![ClientOf[s]] = @ + n]
  /\ pending_by_tenant' = [pending_by_tenant EXCEPT ![TenantOf[s]] = @ + n]

ReserveCapture(s) ==
  /\ create[s] = "none"
  /\ ~shutdown
  /\ HasCapacity(s)
  /\ create' = [create EXCEPT ![s] = "reserved"]
  /\ AddPending(s, 1)
  /\ UNCHANGED <<sessionVars, revision, callVars, dutyVars, stepVars, envVars>>

Capture(s) ==
  /\ create[s] = "reserved"
  /\ create' = [create EXCEPT ![s] = "captured"]
  /\ revision' = [revision EXCEPT ![s] = current[TenantOf[s]]]
  /\ UNCHANGED <<sessionVars, pending_total, pending_by_client, pending_by_tenant,
                 callVars, dutyVars, stepVars, envVars>>

\* The capture raises, the overlay cannot be made, or the insertion finds the
\* manager shut down: the reservation is released and nothing is inserted.
AbandonCapture(s) ==
  /\ create[s] \in {"reserved", "captured"}
  /\ create' = [create EXCEPT ![s] = "none"]
  /\ AddPending(s, -1)
  /\ UNCHANGED <<sessionVars, revision, callVars, dutyVars, stepVars, envVars>>

InsertSession(s) ==
  /\ create[s] = "captured"
  /\ StillAccepting
  /\ create' = [create EXCEPT ![s] = "opened"]
  /\ AddPending(s, -1)
  /\ state' = [state EXCEPT ![s] = "ACTIVE"]
  /\ token' = [token EXCEPT ![s] = TRUE]
  /\ snapshot' = [snapshot EXCEPT ![s] = TRUE]
  /\ overlay' = [overlay EXCEPT ![s] = TRUE]
  /\ idle' = [idle EXCEPT ![s] = 0]
  /\ UNCHANGED <<cancelled, in_flight, cleanup_started, listeners_completed, revision,
                 callVars, dutyVars, stepVars, envVars>>

-----------------------------------------------------------------------------
(* The parts that several operations share.                                *)

Free(t) == toNotify[t] = {} /\ toClean[t] = {}
At(t, point) == pc[t] = point /\ Free(t)

GoTo(t, point) ==
  /\ pc' = [pc EXCEPT ![t] = point]
  /\ on' = [on EXCEPT ![t] = IF point = "idle" THEN NoSession ELSE @]

\* The sessions of S lose their token, are cancelled and leave "ACTIVE".
Revoke(S, reason) ==
  /\ state' = [s \in Sessions |-> IF s \in S THEN reason ELSE state[s]]
  /\ token' = [s \in Sessions |-> token[s] /\ s \notin S]
  /\ cancelled' = [s \in Sessions |-> cancelled[s] \/ s \in S]

\* _schedule_cleanup_locked for every session of S, for thread t.
Schedule(t, S) ==
  /\ cleanup_started' = [s \in Sessions |-> cleanup_started[s] \/ s \in S]
  /\ toClean' = [toClean EXCEPT ![t] = @ \cup S]

\* _mark_expired_locked when it is due: expiry and the cleanup that follows.
Expire(t, s) ==
  /\ Due(s)
  /\ Revoke({s}, "EXPIRED")
  /\ Schedule(t, IF Schedulable(s, in_flight[s]) THEN {s} ELSE {})
  /\ UNCHANGED <<snapshot, overlay, idle, in_flight, listeners_completed, toNotify>>

\* The operation count that _revoke_stale leaves: release is release_operation.
Remaining(s, release) == IF release THEN in_flight[s] - 1 ELSE in_flight[s]

RevokeStale(t, s, release) ==
  LET n == Remaining(s, release) IN
  /\ Revoke(IF state[s] = "ACTIVE" THEN {s} ELSE {}, "STALE")
  /\ in_flight' = [in_flight EXCEPT ![s] = n]
  /\ Schedule(t, IF Schedulable(s, n) THEN {s} ELSE {})
  /\ toNotify' = [toNotify EXCEPT ![t] = {s}]
  /\ GoTo(t, "idle")
  /\ UNCHANGED <<snapshot, overlay, idle, listeners_completed>>

Current(s) == revision[s] = current[TenantOf[s]]

-----------------------------------------------------------------------------
(* Calls.                                                                  *)

\* _authenticate with a valid token, for operation ("check1"), for close
\* ("close") and for the calls that only read ("idle").
Authenticate(t, s, next) ==
  /\ At(t, "idle")
  /\ s \in Live
  /\ \/ /\ Expire(t, s)
        /\ UNCHANGED callVars
     \/ /\ ~Due(s)
        /\ state[s] = "ACTIVE" /\ token[s]
        /\ next # "idle"
        /\ pc' = [pc EXCEPT ![t] = next]
        /\ on' = [on EXCEPT ![t] = s]
        /\ UNCHANGED <<sessionVars, dutyVars>>
  /\ UNCHANGED <<captureVars, stepVars, envVars>>

\* The first assert_current of operation(), before the operation is counted.
CheckBeforeAdmission(t) ==
  LET s == on[t] IN
  /\ At(t, "check1")
  /\ \/ Current(s) /\ GoTo(t, "admit") /\ UNCHANGED <<sessionVars, dutyVars>>
     \/ ~Current(s) /\ RevokeStale(t, s, FALSE)
     \/ ~snapshot[s] /\ GoTo(t, "idle") /\ UNCHANGED <<sessionVars, dutyVars>>
  /\ UNCHANGED <<captureVars, stepVars, envVars>>

\* The second authentication, which counts the operation in in_flight.
Admit(t) ==
  LET s == on[t] IN
  /\ At(t, "admit")
  /\ \/ Expire(t, s) /\ GoTo(t, "idle")
     \/ /\ ~Available(s)
        /\ GoTo(t, "idle")
        /\ UNCHANGED <<sessionVars, dutyVars>>
     \/ /\ ~Due(s) /\ Available(s)
        /\ in_flight' = [in_flight EXCEPT ![s] = @ + 1]
        /\ GoTo(t, "check2")
        /\ UNCHANGED <<state, token, cancelled, snapshot, overlay, idle, cleanup_started,
                       listeners_completed, dutyVars>>
  /\ UNCHANGED <<captureVars, stepVars, envVars>>

CheckAfterAdmission(t) ==
  LET s == on[t] IN
  /\ At(t, "check2")
  /\ \/ Current(s) /\ GoTo(t, "activate") /\ UNCHANGED <<sessionVars, dutyVars>>
     \/ ~Current(s) /\ RevokeStale(t, s, TRUE)
  /\ UNCHANGED <<captureVars, stepVars, envVars>>

\* Ends the lease of t on s; the last one out schedules the cleanup.
Release(t, s) ==
  /\ in_flight' = [in_flight EXCEPT ![s] = @ - 1]
  /\ GoTo(t, "idle")
  /\ IF state[s] # "ACTIVE" \/ cancelled[s]
       THEN /\ Schedule(t, IF Schedulable(s, in_flight[s] - 1) THEN {s} ELSE {})
            /\ UNCHANGED idle
       ELSE /\ idle' = [idle EXCEPT ![s] = 0]
            /\ UNCHANGED <<cleanup_started, toClean>>
  /\ UNCHANGED <<state, token, cancelled, snapshot, overlay, listeners_completed, toNotify>>

\* The body starts only if no revocation arrived since the admission.
Activate(t) ==
  LET s == on[t] IN
  /\ At(t, "activate")
  /\ \/ (state[s] # "ACTIVE" \/ cancelled[s]) /\ Release(t, s)
     \/ /\ state[s] = "ACTIVE" /\ ~cancelled[s]
        /\ idle' = [idle EXCEPT ![s] = 0]
        /\ GoTo(t, "body")
        /\ UNCHANGED <<state, token, cancelled, snapshot, overlay, in_flight,
                       cleanup_started, listeners_completed, dutyVars>>
  /\ UNCHANGED <<captureVars, stepVars, envVars>>

\* The body returns (and is checked again) or raises.
EndBody(t) ==
  /\ At(t, "body")
  /\ GoTo(t, "check3") \/ GoTo(t, "exit")
  /\ UNCHANGED <<sessionVars, captureVars, dutyVars, stepVars, envVars>>

CheckAfterBody(t) ==
  LET s == on[t] IN
  /\ At(t, "check3")
  /\ GoTo(t, "exit")
  /\ \/ Current(s) /\ UNCHANGED <<sessionVars, dutyVars>>
     \/ /\ ~Current(s)
        /\ Revoke(IF state[s] = "ACTIVE" THEN {s} ELSE {}, "STALE")
        /\ toNotify' = [toNotify EXCEPT ![t] = {s}]
        /\ UNCHANGED <<snapshot, overlay, idle, in_flight, cleanup_started,
                       listeners_completed, toClean>>
  /\ UNCHANGED <<captureVars, stepVars, envVars>>

ExitOperation(t) ==
  /\ At(t, "exit")
  /\ Release(t, on[t])
  /\ UNCHANGED <<captureVars, stepVars, envVars>>

Close(t) ==
  LET s == on[t] IN
  /\ At(t, "close")
  /\ GoTo(t, "idle")
  /\ \/ state[s] # "ACTIVE" /\ UNCHANGED <<sessionVars, dutyVars>>
     \/ /\ state[s] = "ACTIVE"
        /\ Revoke({s}, "CLOSING")
        /\ Schedule(t, IF Schedulable(s, in_flight[s]) THEN {s} ELSE {})
        /\ toNotify' = [toNotify EXCEPT ![t] = {s}]
        /\ UNCHANGED <<snapshot, overlay, idle, in_flight, listeners_completed>>
  /\ UNCHANGED <<captureVars, stepVars, envVars>>

\* One round of the reaper: expire what is due, retry what was left behind.
Expired == {s \in Sessions : Due(s)}

SweepExpired ==
  LET retried == {s \in Revoked : Schedulable(s, in_flight[s])}
  IN
  /\ reaping
  /\ At(Reaper, "idle")
  /\ Expired \cup retried # {}
  /\ Revoke(Expired, "EXPIRED")
  /\ Schedule(Reaper, {s \in Expired : Schedulable(s, in_flight[s])} \cup retried)
  /\ UNCHANGED <<snapshot, overlay, idle, in_flight, listeners_completed, toNotify>>
  /\ UNCHANGED <<captureVars, callVars, stepVars, envVars>>

\* MetisBrainService.close tells the reaper to stop before it shuts down.
StopReaper ==
  /\ reaping
  /\ reaping' = FALSE
  /\ UNCHANGED <<sessionVars, captureVars, callVars, dutyVars, stepVars,
                 shutdown, current, faults>>

Shutdown ==
  /\ ~reaping /\ ~shutdown
  /\ shutdown' = TRUE
  /\ Revoke({s \in Sessions : state[s] = "ACTIVE"}, "CLOSING")
  /\ Schedule(Closer, {s \in Live : Schedulable(s, in_flight[s])})
  /\ toNotify' = [toNotify EXCEPT ![Closer] = Live]
  /\ UNCHANGED <<snapshot, overlay, idle, in_flight, listeners_completed>>
  /\ UNCHANGED <<captureVars, callVars, stepVars, reaping, current, faults>>

-----------------------------------------------------------------------------
(* _notify_cleanup_listeners and _cleanup.  The per-session listener lock  *)
(* is held from BeginNotify to EndNotify.                                  *)

Notifying(t, s) == doing[t] \in {"notify", "erase"} /\ at[t] = s
Listeners == 1..NListeners
\* Faulty variant: listeners that failed count as completed.
EraseAttempted(s) == TRUE

EraseComplete(s) == listeners_completed[s] = Listeners
Untried(t) == {l \in Listeners : l >= cursor[t] /\ l \notin listeners_completed[at[t]]}

BeginNotify(t, s) ==
  /\ doing[t] = "none"
  /\ ~\E u \in Threads : Notifying(u, s)
  /\ \/ s \in toNotify[t] /\ doing' = [doing EXCEPT ![t] = "notify"]
     \/ /\ toNotify[t] = {} /\ s \in toClean[t]
        /\ doing' = [doing EXCEPT ![t] = "erase"]
  /\ at' = [at EXCEPT ![t] = s]
  /\ cursor' = [cursor EXCEPT ![t] = 1]
  /\ UNCHANGED <<sessionVars, captureVars, callVars, dutyVars, envVars>>

\* The next listener that has not succeeded yet succeeds, or raises.
RunListener(t, l) ==
  LET s == at[t] IN
  /\ doing[t] \in {"notify", "erase"}
  /\ l \in Untried(t) /\ \A k \in Untried(t) : l <= k
  /\ cursor' = [cursor EXCEPT ![t] = l + 1]
  /\ \/ /\ listeners_completed' = [listeners_completed EXCEPT ![s] = @ \cup {l}]
        /\ UNCHANGED faults
     \/ faults < MaxFaults /\ faults' = faults + 1 /\ UNCHANGED listeners_completed
  /\ UNCHANGED <<state, token, cancelled, snapshot, overlay, idle, in_flight, cleanup_started>>
  /\ UNCHANGED <<captureVars, callVars, dutyVars, doing, at, shutdown, reaping, current>>

StepDone(t) ==
  /\ doing' = [doing EXCEPT ![t] = "none"]
  /\ at' = [at EXCEPT ![t] = NoSession]
  /\ cursor' = [cursor EXCEPT ![t] = 1]

\* Faulty variant: cleanup_started is not given back after a failure.
CleanupFailsForGood(t, s) ==
  /\ toClean' = [toClean EXCEPT ![t] = @ \ {s}]
  /\ StepDone(t)
  /\ UNCHANGED cleanup_started

\* _cleanup raises CLEANUP_FAILED: another thread may schedule it again.
CleanupFails(t, s) ==
  /\ cleanup_started' = [cleanup_started EXCEPT ![s] = FALSE]
  /\ toClean' = [toClean EXCEPT ![t] = @ \ {s}]
  /\ StepDone(t)

EndNotify(t) ==
  LET s == at[t] IN
  /\ doing[t] \in {"notify", "erase"}
  /\ Untried(t) = {}
  /\ \/ /\ doing[t] = "notify"
        /\ toNotify' = [toNotify EXCEPT ![t] = @ \ {s}]
        /\ StepDone(t)
        /\ UNCHANGED <<cleanup_started, toClean>>
     \/ /\ doing[t] = "erase" /\ EraseComplete(s)
        /\ doing' = [doing EXCEPT ![t] = "remove"]
        /\ UNCHANGED <<cleanup_started, dutyVars, at, cursor>>
     \/ /\ doing[t] = "erase" /\ ~EraseComplete(s)
        /\ CleanupFails(t, s)
        /\ UNCHANGED toNotify
  /\ UNCHANGED <<state, token, cancelled, snapshot, overlay, idle, in_flight,
                 listeners_completed, captureVars, callVars, envVars>>

RemoveOverlay(t) ==
  LET s == at[t] IN
  /\ doing[t] = "remove"
  /\ \/ /\ overlay' = [overlay EXCEPT ![s] = FALSE]
        /\ doing' = [doing EXCEPT ![t] = "finalize"]
        /\ UNCHANGED <<cleanup_started, toClean, at, cursor, faults>>
     \/ /\ faults < MaxFaults /\ faults' = faults + 1
        /\ CleanupFails(t, s)
        /\ UNCHANGED overlay
  /\ UNCHANGED <<state, token, cancelled, snapshot, idle, in_flight, listeners_completed>>
  /\ UNCHANGED <<captureVars, callVars, toNotify, shutdown, reaping, current>>

FinalizeSession(t) ==
  LET s == at[t] IN
  /\ doing[t] = "finalize"
  /\ snapshot' = [snapshot EXCEPT ![s] = FALSE]
  /\ state' = [state EXCEPT ![s] = "CLOSED"]
  /\ toClean' = [toClean EXCEPT ![t] = @ \ {s}]
  /\ StepDone(t)
  /\ UNCHANGED <<token, cancelled, overlay, idle, in_flight, cleanup_started,
                 listeners_completed, captureVars, callVars, toNotify, envVars>>

-----------------------------------------------------------------------------
(* The environment: time passes and tenant sources change on disk.         *)

Tick ==
  /\ idle' = [s \in Sessions |->
                IF state[s] = "ACTIVE" /\ idle[s] < TTL THEN idle[s] + 1 ELSE idle[s]]
  /\ UNCHANGED <<state, token, cancelled, snapshot, overlay, in_flight, cleanup_started,
                 listeners_completed, captureVars, callVars, dutyVars, stepVars, envVars>>

ContextChanges(n, r) ==
  /\ current' = [current EXCEPT ![n] = r]
  /\ UNCHANGED <<sessionVars, captureVars, callVars, dutyVars, stepVars,
                 shutdown, reaping, faults>>

-----------------------------------------------------------------------------
CreateSession(s) ==
  ReserveCapture(s) \/ Capture(s) \/ AbandonCapture(s) \/ InsertSession(s)

\* What a thread does once it has started a call.
CallStep(t) ==
  \/ CheckBeforeAdmission(t) \/ Admit(t) \/ CheckAfterAdmission(t) \/ Activate(t)
  \/ EndBody(t) \/ CheckAfterBody(t) \/ ExitOperation(t) \/ Close(t)

DutyStep(t) ==
  \/ \E s \in Sessions : BeginNotify(t, s)
  \/ \E l \in Listeners : RunListener(t, l)
  \/ EndNotify(t) \/ RemoveOverlay(t) \/ FinalizeSession(t)

Next ==
  \/ \E s \in Sessions : CreateSession(s)
  \/ \E t \in Workers, s \in Sessions, next \in {"check1", "close", "idle"} :
       Authenticate(t, s, next)
  \/ \E t \in Workers : CallStep(t)
  \/ \E t \in Threads : DutyStep(t)
  \/ SweepExpired \/ StopReaper \/ Shutdown
  \/ Tick
  \/ \E n \in Tenants, r \in Revisions : ContextChanges(n, r)

Spec == Init /\ [][Next]_vars

\* Every thread that has started something goes on, the reaper wakes up every
\* five seconds, and time passes.
Fairness ==
  /\ \A t \in Workers : WF_vars(CallStep(t))
  /\ \A t \in Threads : WF_vars(DutyStep(t))
  /\ WF_vars(SweepExpired)
  /\ WF_vars(Tick)

FairSpec == Spec /\ Fairness

-----------------------------------------------------------------------------
(* Properties.                                                             *)

States   == {"absent", "ACTIVE", "EXPIRED", "STALE", "CLOSING", "CLOSED"}
Points   == {"idle", "check1", "admit", "close"} \cup LeasePoints
Doings   == {"none", "notify", "erase", "remove", "finalize"}

\* The type of every variable of the manager and of its threads.
TypeOK ==
  /\ create \in [Sessions -> {"none", "reserved", "captured", "opened"}]
  /\ state \in [Sessions -> States]
  /\ token \in [Sessions -> BOOLEAN] /\ cancelled \in [Sessions -> BOOLEAN]
  /\ revision \in [Sessions -> Revisions]
  /\ snapshot \in [Sessions -> BOOLEAN] /\ overlay \in [Sessions -> BOOLEAN]
  /\ idle \in [Sessions -> Nat]
  /\ in_flight \in [Sessions -> Nat]
  /\ cleanup_started \in [Sessions -> BOOLEAN]
  /\ listeners_completed \in [Sessions -> SUBSET Listeners]
  /\ pending_total \in Nat
  /\ pending_by_client \in [Clients -> Nat] /\ pending_by_tenant \in [Tenants -> Nat]
  /\ shutdown \in BOOLEAN /\ reaping \in BOOLEAN
  /\ current \in [Tenants -> Revisions]
  /\ faults \in Nat
  /\ pc \in [Threads -> Points] /\ on \in [Threads -> Sessions \cup {NoSession}]
  /\ toNotify \in [Threads -> SUBSET Sessions] /\ toClean \in [Threads -> SUBSET Sessions]
  /\ doing \in [Threads -> Doings] /\ at \in [Threads -> Sessions \cup {NoSession}]
  /\ cursor \in [Threads -> Nat]

Reserving == {s \in Sessions : create[s] \in {"reserved", "captured"}}

\* Open sessions and captures in progress together never exceed the limits,
\* although the capture runs without the lock (_reserve_capture_locked).
CapacityRespected ==
  LET claimed == Live \cup Reserving IN
  /\ Cardinality(claimed) <= GlobalLimit
  /\ \A c \in Clients : Cardinality({s \in claimed : ClientOf[s] = c}) <= ClientLimit
  /\ \A n \in Tenants : Cardinality({s \in claimed : TenantOf[s] = n}) <= TenantLimit

\* The pending rosters count exactly the captures in progress: no failure path
\* leaks a reservation or releases one twice (_release_capture_locked).
ReservationsExact ==
  /\ pending_total = Cardinality(Reserving)
  /\ \A c \in Clients :
       pending_by_client[c] = Cardinality({s \in Reserving : ClientOf[s] = c})
  /\ \A n \in Tenants :
       pending_by_tenant[n] = Cardinality({s \in Reserving : TenantOf[s] = n})

\* in_flight counts exactly the operations admitted and not yet left, on every
\* path out of operation(), so it is never negative and never stuck above zero.
InFlightExact ==
  \A s \in Sessions : in_flight[s] = Cardinality({t \in Workers : Leases(t, s)})

\* While an operation holds a lease the snapshot and the overlay it works on
\* exist: cleanup waits for the last lease, whatever revoked the session.
LeaseKeepsSession ==
  \A t \in Workers, s \in Sessions :
    Leases(t, s) => state[s] \in {"ACTIVE"} \cup {"STALE", "CLOSING"}
                    /\ snapshot[s] /\ overlay[s]

\* A session's cleanup is owed by exactly one thread from the moment
\* cleanup_started is set until it is reset or the session is CLOSED: it is
\* neither run twice at once nor abandoned with the flag left set.
CleanupHasOneOwner ==
  \A s \in Sessions :
    /\ \A t, u \in Threads : s \in toClean[t] /\ s \in toClean[u] => t = u
    /\ (\E t \in Threads : s \in toClean[t]) <=> (cleanup_started[s] /\ state[s] # "CLOSED")

\* The overlay goes only after every volatile-state eraser has succeeded, and
\* only from a session whose token is gone ("A stuck overlay must never retain
\* prompts, proposals or clarification decisions in RAM").
ErasedBeforeRemoved ==
  \A s \in Sessions :
    state[s] # "absent" /\ ~overlay[s] =>
      listeners_completed[s] = Listeners /\ ~token[s] /\ cancelled[s]

\* After shutdown no session is usable and none can still become so, even one
\* whose capture was under way (the second shutdown test of create_session).
NothingOpenAfterShutdown ==
  shutdown => \A s \in Sessions : state[s] # "ACTIVE" /\ ~token[s]

\* A revoked session is never ACTIVE again and never gets its token back, and
\* a session that expires has no operation in flight at that moment.
RevocationIsFinal ==
  [][\A s \in Sessions :
       /\ state[s] \in {"EXPIRED", "STALE", "CLOSING", "CLOSED"} =>
            state'[s] \in {state[s], "CLOSED"} /\ ~token'[s] /\ cancelled'[s]
       /\ state[s] = "ACTIVE" /\ state'[s] = "EXPIRED" =>
            \A t \in Workers : ~Leases(t, s)]_vars

\* A listener erases a session's volatile state only after the session was
\* cancelled, so that the eraser sees every writer that was let in before.
EraseAfterCancel ==
  \A t \in Threads, s \in Sessions : Notifying(t, s) => cancelled[s]

\* Unless the service shuts down first, every revoked session is finally
\* CLOSED: a failed listener or a failed removal is retried by the reaper.
RevokedIsCleaned ==
  \A s \in Sessions : (s \in Revoked) ~> (state[s] = "CLOSED" \/ ~reaping)

\* Unless a cleanup failed, shutdown finally removes every session, those with
\* operations still running included (the last operation out cleans up).
ShutdownDrains ==
  shutdown ~> (faults > 0 \/ Live = {})

-----------------------------------------------------------------------------
(* The inductive strengthening that the proofs of these properties use.    *)

\* What the state of a session says of its other fields.
StatesConsistent ==
  \A s \in Sessions :
    /\ state[s] = "absent" <=> create[s] # "opened"
    /\ state[s] = "absent" => ~token[s] /\ ~cancelled[s] /\ ~cleanup_started[s]
    /\ state[s] = "ACTIVE" =>
         token[s] /\ ~cancelled[s] /\ ~cleanup_started[s] /\ snapshot[s] /\ overlay[s]
    /\ state[s] \notin {"absent", "ACTIVE"} => ~token[s] /\ cancelled[s]
    /\ state[s] = "CLOSED" => cleanup_started[s]

\* A running call names a session that was opened.
CallsOnSessions ==
  \A t \in Threads : pc[t] # "idle" => t \in Workers /\ on[t] \in Sessions /\ state[on[t]] # "absent"

\* A thread works only on what it owes; what it owes was revoked and, for a
\* cleanup, left by every operation.
DutiesConsistent ==
  \A t \in Threads :
    /\ doing[t] = "notify" => at[t] \in toNotify[t]
    /\ doing[t] \in {"erase", "remove", "finalize"} => at[t] \in toClean[t]
    /\ doing[t] \in {"remove", "finalize"} => EraseComplete(at[t])
    /\ \A s \in toNotify[t] : cancelled[s] /\ state[s] # "absent"
    /\ \A s \in toClean[t] :
         s \in Revoked /\ in_flight[s] = 0 /\ \A u \in Workers : ~Leases(u, s)
    /\ t = Closer /\ ~shutdown => toNotify[t] = {}

SafetyInv ==
  /\ StatesConsistent /\ CallsOnSessions /\ DutiesConsistent
  /\ LeaseKeepsSession /\ CleanupHasOneOwner /\ ErasedBeforeRemoved /\ EraseAfterCancel

-----------------------------------------------------------------------------
(* The abstract lifecycle that the manager implements.  A session is gone  *)
(* from the moment its overlay is, before it is popped from _sessions.     *)

Phase(s) ==
  CASE state[s] = "absent" -> "absent"
    [] state[s] = "ACTIVE" -> "live"
    [] s \in Revoked /\ overlay[s] -> "revoked"
    [] OTHER -> "gone"

Phases == [s \in Sessions |-> Phase(s)]
Inside == [s \in Sessions |-> {t \in Workers : Leases(t, s)}]
Erased == [s \in Sessions |-> listeners_completed[s] = Listeners]

Lifecycle == INSTANCE SessionLifecycle WITH
  Users <- Workers, phase <- Phases, leases <- Inside, erased <- Erased

\* Every step of the manager is a step of the abstract lifecycle or leaves it
\* unchanged: sessions are entered only while live, erased only once revoked,
\* destroyed only when erased and left by everyone.
ImplementsLifecycle == Lifecycle!Spec

=============================================================================
