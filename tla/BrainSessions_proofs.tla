------------------------- MODULE BrainSessions_proofs -------------------------
(***************************************************************************)
(* Proofs about BrainSessions.  BaseInv is type correctness without the   *)
(* sign of the counters; CountsInv says that the counters are the sizes of *)
(* the sets they count; SafetyInv (BrainSessions) carries the rest.        *)
(***************************************************************************)
EXTENDS BrainSessions, FiniteSetTheorems, TLAPS

SessionTypes ==
  /\ state \in [Sessions -> States]
  /\ token \in [Sessions -> BOOLEAN] /\ cancelled \in [Sessions -> BOOLEAN]
  /\ snapshot \in [Sessions -> BOOLEAN] /\ overlay \in [Sessions -> BOOLEAN]
  /\ idle \in [Sessions -> Nat]
  /\ in_flight \in [Sessions -> Int]
  /\ cleanup_started \in [Sessions -> BOOLEAN]
  /\ listeners_completed \in [Sessions -> SUBSET Listeners]

CaptureTypes ==
  /\ create \in [Sessions -> {"none", "reserved", "captured", "opened"}]
  /\ revision \in [Sessions -> Revisions]
  /\ pending_total \in Int
  /\ pending_by_client \in [Clients -> Int] /\ pending_by_tenant \in [Tenants -> Int]

ThreadTypes ==
  /\ pc \in [Threads -> Points] /\ on \in [Threads -> Sessions \cup {NoSession}]
  /\ toNotify \in [Threads -> SUBSET Sessions] /\ toClean \in [Threads -> SUBSET Sessions]
  /\ doing \in [Threads -> Doings] /\ at \in [Threads -> Sessions \cup {NoSession}]
  /\ cursor \in [Threads -> Nat]

EnvTypes ==
  /\ shutdown \in BOOLEAN /\ reaping \in BOOLEAN
  /\ current \in [Tenants -> Revisions]
  /\ faults \in Nat

\* A running call and a running duty have a session.
TargetsInv ==
  /\ \A t \in Threads : pc[t] # "idle" => on[t] \in Sessions
  /\ \A t \in Threads : doing[t] # "none" => at[t] \in Sessions

BaseInv == SessionTypes /\ CaptureTypes /\ ThreadTypes /\ EnvTypes /\ TargetsInv

-----------------------------------------------------------------------------
(* Type correctness and targets.                                           *)

LEMMA BaseInit == Init => BaseInv
<1> SUFFICES ASSUME Init PROVE BaseInv
  OBVIOUS
<1> USE SessionsAssumption DEF Init
<1>1. SessionTypes
  BY DEF SessionTypes, States, Listeners
<1>2. CaptureTypes
  BY DEF CaptureTypes
<1>3. ThreadTypes /\ TargetsInv
  BY DEF ThreadTypes, TargetsInv, Points, LeasePoints, Doings
<1>4. EnvTypes
  BY DEF EnvTypes
<1>5. QED
  BY <1>1, <1>2, <1>3, <1>4 DEF BaseInv

\* What the shared parts of the actions do to the types.
LEMMA RevokeTypes ==
  ASSUME SessionTypes, NEW S, NEW r \in States, Revoke(S, r)
  PROVE  /\ state' \in [Sessions -> States]
         /\ token' \in [Sessions -> BOOLEAN] /\ cancelled' \in [Sessions -> BOOLEAN]
  BY DEF SessionTypes, Revoke

LEMMA ScheduleTypes ==
  ASSUME SessionTypes, ThreadTypes, NEW t \in Threads, NEW S \in SUBSET Sessions, Schedule(t, S)
  PROVE  /\ cleanup_started' \in [Sessions -> BOOLEAN]
         /\ toClean' \in [Threads -> SUBSET Sessions]
  BY DEF SessionTypes, ThreadTypes, Schedule

LEMMA GoToTypes ==
  ASSUME ThreadTypes, TargetsInv, NEW t \in Threads, NEW point \in Points, GoTo(t, point),
         point # "idle" => pc[t] # "idle"
  PROVE  /\ pc' \in [Threads -> Points] /\ on' \in [Threads -> Sessions \cup {NoSession}]
         /\ \A u \in Threads : pc'[u] # "idle" => on'[u] \in Sessions
<1>1. pc' \in [Threads -> Points] /\ on' \in [Threads -> Sessions \cup {NoSession}]
  BY DEF ThreadTypes, GoTo
<1>2. ASSUME NEW u \in Threads, pc'[u] # "idle" PROVE on'[u] \in Sessions
  BY <1>2 DEF ThreadTypes, TargetsInv, GoTo
<1>3. QED
  BY <1>1, <1>2

LEMMA ExpireTypes ==
  ASSUME BaseInv, NEW t \in Threads, NEW s \in Sessions, Expire(t, s)
  PROVE  SessionTypes' /\ toClean' \in [Threads -> SUBSET Sessions]
<1>1. /\ Revoke({s}, "EXPIRED") /\ "EXPIRED" \in States
      /\ Schedule(t, IF Schedulable(s, in_flight[s]) THEN {s} ELSE {})
      /\ UNCHANGED <<snapshot, overlay, idle, in_flight, listeners_completed>>
  BY DEF Expire, States
<1>2. QED
  BY <1>1, RevokeTypes, ScheduleTypes DEF BaseInv, SessionTypes

LEMMA RevokeStaleTypes ==
  ASSUME BaseInv, NEW t \in Threads, NEW s \in Sessions, NEW release \in BOOLEAN,
         RevokeStale(t, s, release)
  PROVE  /\ SessionTypes'
         /\ toNotify' \in [Threads -> SUBSET Sessions] /\ toClean' \in [Threads -> SUBSET Sessions]
         /\ GoTo(t, "idle")
<1> DEFINE S == IF state[s] = "ACTIVE" THEN {s} ELSE {}
<1> DEFINE C == IF Schedulable(s, Remaining(s, release)) THEN {s} ELSE {}
<1>1. /\ Revoke(S, "STALE") /\ "STALE" \in States
      /\ Schedule(t, C) /\ C \in SUBSET Sessions
      /\ in_flight' = [in_flight EXCEPT ![s] = Remaining(s, release)]
      /\ toNotify' = [toNotify EXCEPT ![t] = {s}]
      /\ GoTo(t, "idle")
      /\ UNCHANGED <<snapshot, overlay, idle, listeners_completed>>
  BY DEF RevokeStale, States
<1>2. Remaining(s, release) \in Int
  BY DEF Remaining, BaseInv, SessionTypes
<1>3. /\ state' \in [Sessions -> States]
      /\ token' \in [Sessions -> BOOLEAN] /\ cancelled' \in [Sessions -> BOOLEAN]
  BY <1>1, RevokeTypes DEF BaseInv
<1>4. cleanup_started' \in [Sessions -> BOOLEAN] /\ toClean' \in [Threads -> SUBSET Sessions]
  BY <1>1, ScheduleTypes DEF BaseInv
<1>5. toNotify' \in [Threads -> SUBSET Sessions] /\ in_flight' \in [Sessions -> Int]
  BY <1>1, <1>2 DEF BaseInv, SessionTypes, ThreadTypes
<1>6. QED
  BY <1>1, <1>3, <1>4, <1>5 DEF BaseInv, SessionTypes

LEMMA ReleaseTypes ==
  ASSUME BaseInv, NEW t \in Threads, NEW s \in Sessions, Release(t, s)
  PROVE  SessionTypes' /\ toClean' \in [Threads -> SUBSET Sessions]
<1> DEFINE C == IF Schedulable(s, in_flight[s] - 1) THEN {s} ELSE {}
<1>1. in_flight' \in [Sessions -> Int] /\ C \in SUBSET Sessions
  BY DEF Release, BaseInv, SessionTypes
<1>2. CASE state[s] # "ACTIVE" \/ cancelled[s]
  <2>1. Schedule(t, C) /\ UNCHANGED idle
    BY <1>2 DEF Release
  <2>2. cleanup_started' \in [Sessions -> BOOLEAN] /\ toClean' \in [Threads -> SUBSET Sessions]
    BY <1>1, <2>1, ScheduleTypes DEF BaseInv
  <2>3. QED
    BY <1>1, <2>1, <2>2 DEF Release, BaseInv, SessionTypes
<1>3. CASE ~(state[s] # "ACTIVE" \/ cancelled[s])
  BY <1>1, <1>3 DEF Release, BaseInv, SessionTypes, ThreadTypes
<1>4. QED
  BY <1>2, <1>3

LEMMA StepDoneTypes ==
  ASSUME ThreadTypes, TargetsInv, NEW t \in Threads, StepDone(t)
  PROVE  /\ doing' \in [Threads -> Doings] /\ at' \in [Threads -> Sessions \cup {NoSession}]
         /\ cursor' \in [Threads -> Nat]
         /\ \A u \in Threads : doing'[u] # "none" => at'[u] \in Sessions
  BY DEF ThreadTypes, TargetsInv, StepDone, Doings

LEMMA DutyWorkTypes ==
  ASSUME ThreadTypes, TargetsInv, NEW t \in Threads, NEW what \in Doings \ {"none"},
         doing' = [doing EXCEPT ![t] = what], doing[t] # "none", UNCHANGED <<at, cursor>>
  PROVE  /\ doing' \in [Threads -> Doings] /\ at' \in [Threads -> Sessions \cup {NoSession}]
         /\ cursor' \in [Threads -> Nat]
         /\ \A u \in Threads : doing'[u] # "none" => at'[u] \in Sessions
  BY DEF ThreadTypes, TargetsInv

LEMMA BaseStep == BaseInv /\ [Next]_vars => BaseInv'
<1> SUFFICES ASSUME BaseInv, [Next]_vars PROVE BaseInv'
  OBVIOUS
<1> USE SessionsAssumption DEF BaseInv, sessionVars, captureVars, callVars, dutyVars, stepVars, envVars
<1>1. CASE \E s \in Sessions : CreateSession(s)
  <2> PICK s \in Sessions : CreateSession(s)
    BY <1>1
  <2>1. CASE ReserveCapture(s)
    <3>1. CaptureTypes'
      BY <2>1 DEF ReserveCapture, AddPending, Clients, Tenants, CaptureTypes
    <3>2. QED
      BY <3>1, <2>1 DEF ReserveCapture, SessionTypes, ThreadTypes, EnvTypes, TargetsInv
  <2>2. CASE Capture(s)
    <3>1. CaptureTypes'
      BY <2>2 DEF Capture, EnvTypes, Clients, Tenants, CaptureTypes
    <3>2. QED
      BY <3>1, <2>2 DEF Capture, SessionTypes, ThreadTypes, EnvTypes, TargetsInv
  <2>3. CASE AbandonCapture(s)
    <3>1. CaptureTypes'
      BY <2>3 DEF AbandonCapture, AddPending, Clients, Tenants, CaptureTypes
    <3>2. QED
      BY <3>1, <2>3 DEF AbandonCapture, SessionTypes, ThreadTypes, EnvTypes, TargetsInv
  <2>4. CASE InsertSession(s)
    <3>1. SessionTypes'
      BY <2>4 DEF InsertSession, AddPending, Clients, Tenants, SessionTypes, States, ThreadTypes, TargetsInv
    <3>2. CaptureTypes'
      BY <2>4 DEF InsertSession, AddPending, Clients, Tenants, CaptureTypes
    <3>3. QED
      BY <3>1, <3>2, <2>4 DEF InsertSession, ThreadTypes, EnvTypes, TargetsInv
  <2>5. QED
    BY <2>1, <2>2, <2>3, <2>4 DEF CreateSession
<1>2. CASE \E t \in Workers, s \in Sessions, next \in {"check1", "close", "idle"} :
             Authenticate(t, s, next)
  <2> PICK t \in Workers, s \in Sessions, next \in {"check1", "close", "idle"} :
           Authenticate(t, s, next)
    BY <1>2
  <2>0. t \in Threads /\ next \in Points
    BY DEF Threads, Points
  <2>1. CASE Expire(t, s) /\ UNCHANGED callVars
    <3>1. SessionTypes' /\ toClean' \in [Threads -> SUBSET Sessions]
      BY <2>0, <2>1, ExpireTypes
    <3>2. UNCHANGED <<captureVars, stepVars, envVars, toNotify>>
      BY <2>1 DEF Authenticate, Expire
    <3>3. QED
      BY <2>1, <3>1, <3>2 DEF ThreadTypes, TargetsInv, CaptureTypes, EnvTypes
  <2>2. CASE ~(Expire(t, s) /\ UNCHANGED callVars)
    <3>1. /\ UNCHANGED <<sessionVars, dutyVars, captureVars, stepVars, envVars>>
          /\ pc' = [pc EXCEPT ![t] = next] /\ on' = [on EXCEPT ![t] = s]
      BY <2>2 DEF Authenticate
    <3>2. SessionTypes' /\ CaptureTypes' /\ EnvTypes'
      BY <3>1 DEF SessionTypes, CaptureTypes, EnvTypes
    <3>3. (ThreadTypes /\ TargetsInv)'
      BY <2>0, <3>1 DEF ThreadTypes, TargetsInv
    <3>4. QED
      BY <3>2, <3>3
  <2>3. QED
    BY <2>1, <2>2 DEF Authenticate
<1>3. CASE \E t \in Workers : CallStep(t)
  <2> PICK t \in Workers : CallStep(t)
    BY <1>3
  <2>0. t \in Threads /\ {"idle", "check2", "admit", "activate", "body", "check3", "exit"} \subseteq Points
    BY DEF Threads, Points, LeasePoints
  <2>u. UNCHANGED <<captureVars, stepVars, envVars>>
    BY DEF CallStep, CheckBeforeAdmission, Admit, CheckAfterAdmission, Activate, EndBody,
       CheckAfterBody, ExitOperation, Close
  <2>t. pc[t] # "idle" /\ on[t] \in Sessions
    BY <2>0 DEF CallStep, CheckBeforeAdmission, Admit, CheckAfterAdmission, Activate, EndBody,
       CheckAfterBody, ExitOperation, Close, At, TargetsInv
  <2>s. SUFFICES ASSUME NEW point \in Points, GoTo(t, point), SessionTypes',
                        toNotify' \in [Threads -> SUBSET Sessions],
                        toClean' \in [Threads -> SUBSET Sessions]
                 PROVE  BaseInv'
    <3>1. \E point \in Points : GoTo(t, point)
      BY <2>0 DEF CallStep, CheckBeforeAdmission, Admit, CheckAfterAdmission, Activate, EndBody,
         CheckAfterBody, ExitOperation, Close, RevokeStale, Release
    <3>2. SessionTypes' /\ toNotify' \in [Threads -> SUBSET Sessions]
                        /\ toClean' \in [Threads -> SUBSET Sessions]
      <4> DEFINE Goal == SessionTypes' /\ toNotify' \in [Threads -> SUBSET Sessions]
                                       /\ toClean' \in [Threads -> SUBSET Sessions]
      <4>1. CASE UNCHANGED <<sessionVars, dutyVars>>
        BY <4>1 DEF SessionTypes, ThreadTypes
      <4>2. CASE \E release \in BOOLEAN : RevokeStale(t, on[t], release)
        BY <2>0, <2>t, <4>2, RevokeStaleTypes
      <4>3. CASE Expire(t, on[t])
        BY <2>0, <2>t, <4>3, ExpireTypes DEF Expire, ThreadTypes
      <4>4. CASE Release(t, on[t])
        BY <2>0, <2>t, <4>4, ReleaseTypes DEF Release, ThreadTypes
      <4>5. CASE CheckBeforeAdmission(t) \/ CheckAfterAdmission(t)
        BY <4>1, <4>2, <4>5 DEF CheckBeforeAdmission, CheckAfterAdmission
      <4>6. CASE Admit(t)
        <5>1. CASE ~Expire(t, on[t])
          BY <2>t, <4>6, <5>1 DEF Admit, SessionTypes, ThreadTypes
        <5>2. QED
          BY <4>3, <5>1
      <4>7. CASE Activate(t)
        <5>1. CASE ~Release(t, on[t])
          BY <2>t, <4>7, <5>1 DEF Activate, SessionTypes, ThreadTypes
        <5>2. QED
          BY <4>4, <5>1
      <4>8. CASE EndBody(t) \/ ExitOperation(t)
        BY <4>1, <4>4, <4>8 DEF EndBody, ExitOperation
      <4>9. CASE CheckAfterBody(t)
        <5> DEFINE S == IF state[on[t]] = "ACTIVE" THEN {on[t]} ELSE {}
        <5>1. CASE Revoke(S, "STALE") /\ ~UNCHANGED <<sessionVars, dutyVars>>
          <6>1. /\ state' \in [Sessions -> States]
                /\ token' \in [Sessions -> BOOLEAN] /\ cancelled' \in [Sessions -> BOOLEAN]
            BY <5>1, RevokeTypes DEF States
          <6>2. QED
            BY SMTT(20), <2>t, <4>9, <5>1, <6>1 DEF CheckAfterBody, SessionTypes, ThreadTypes
        <5>2. QED
          BY <4>1, <4>9, <5>1 DEF CheckAfterBody
      <4>10. CASE Close(t)
        <5> DEFINE C == IF Schedulable(on[t], in_flight[on[t]]) THEN {on[t]} ELSE {}
        <5>1. CASE ~UNCHANGED <<sessionVars, dutyVars>>
          <6>1. /\ Revoke({on[t]}, "CLOSING") /\ "CLOSING" \in States
                /\ Schedule(t, C) /\ C \in SUBSET Sessions
                /\ toNotify' = [toNotify EXCEPT ![t] = {on[t]}]
                /\ UNCHANGED <<snapshot, overlay, idle, in_flight, listeners_completed>>
            BY <2>t, <4>10, <5>1 DEF Close, States
          <6>2. /\ state' \in [Sessions -> States]
                /\ token' \in [Sessions -> BOOLEAN] /\ cancelled' \in [Sessions -> BOOLEAN]
            BY <6>1, RevokeTypes
          <6>3. /\ cleanup_started' \in [Sessions -> BOOLEAN]
                /\ toClean' \in [Threads -> SUBSET Sessions]
            BY <2>0, <6>1, ScheduleTypes
          <6>4. QED
            BY <2>t, <6>1, <6>2, <6>3 DEF SessionTypes, ThreadTypes
        <5>2. QED
          BY <4>1, <5>1
      <4>11. QED
        BY <4>5, <4>6, <4>7, <4>8, <4>9, <4>10 DEF CallStep
    <3>3. QED
      BY <3>1, <3>2
  <2>1. /\ pc' \in [Threads -> Points] /\ on' \in [Threads -> Sessions \cup {NoSession}]
        /\ \A u \in Threads : pc'[u] # "idle" => on'[u] \in Sessions
    BY <2>0, <2>t, <2>s, GoToTypes
  <2>2. CaptureTypes' /\ EnvTypes'
    BY <2>u DEF CaptureTypes, EnvTypes
  <2>3. (ThreadTypes /\ TargetsInv)'
    BY <2>u, <2>s, <2>1 DEF ThreadTypes, TargetsInv
  <2>4. QED
    BY <2>s, <2>2, <2>3
<1>4. CASE \E t \in Threads : DutyStep(t)
  <2> PICK t \in Threads : DutyStep(t)
    BY <1>4
  <2>1. CASE \E s \in Sessions : BeginNotify(t, s)
    <3>1. (ThreadTypes /\ TargetsInv)'
      BY <2>1 DEF BeginNotify, ThreadTypes, TargetsInv, Points, LeasePoints, Doings, SessionTypes
    <3>2. QED
      BY <3>1, <2>1 DEF BeginNotify, SessionTypes, CaptureTypes, EnvTypes
  <2>2. CASE \E l \in Listeners : RunListener(t, l)
    <3>1. SessionTypes'
      BY SMTT(60), <2>2 DEF RunListener, Listeners, SessionTypes, States, ThreadTypes, TargetsInv
    <3>2. (ThreadTypes /\ TargetsInv)'
      BY <2>2 DEF RunListener, Listeners, ThreadTypes, TargetsInv, Points, LeasePoints, Doings, SessionTypes
    <3>3. EnvTypes'
      BY <2>2 DEF RunListener, Listeners, EnvTypes
    <3>4. QED
      BY <3>1, <3>2, <3>3, <2>2 DEF RunListener, CaptureTypes
  <2>3. CASE EndNotify(t)
    <3>1. SessionTypes'
      BY <2>3 DEF EndNotify, CleanupFails, StepDone, SessionTypes, States, ThreadTypes, TargetsInv
    <3>2. (ThreadTypes /\ TargetsInv)'
      <4>1. /\ \/ StepDone(t)
               \/ /\ doing' = [doing EXCEPT ![t] = "remove"] /\ "remove" \in Doings \ {"none"}
                  /\ doing[t] # "none" /\ UNCHANGED <<at, cursor>>
            /\ UNCHANGED <<pc, on>>
            /\ toNotify' \in [Threads -> SUBSET Sessions] /\ toClean' \in [Threads -> SUBSET Sessions]
        BY <2>3 DEF EndNotify, CleanupFails, ThreadTypes, Doings
      <4>2. /\ doing' \in [Threads -> Doings] /\ at' \in [Threads -> Sessions \cup {NoSession}]
            /\ cursor' \in [Threads -> Nat]
            /\ \A u \in Threads : doing'[u] # "none" => at'[u] \in Sessions
        BY <4>1, StepDoneTypes, DutyWorkTypes
      <4>3. QED
        BY <4>1, <4>2 DEF ThreadTypes, TargetsInv
    <3>3. QED
      BY <3>1, <3>2, <2>3 DEF EndNotify, CaptureTypes, EnvTypes
  <2>4. CASE RemoveOverlay(t)
    <3>1. SessionTypes'
      BY <2>4 DEF RemoveOverlay, CleanupFails, StepDone, SessionTypes, States, ThreadTypes, TargetsInv
    <3>2. (ThreadTypes /\ TargetsInv)'
      <4>1. /\ \/ StepDone(t)
               \/ /\ doing' = [doing EXCEPT ![t] = "finalize"] /\ "finalize" \in Doings \ {"none"}
                  /\ doing[t] # "none" /\ UNCHANGED <<at, cursor>>
            /\ UNCHANGED <<pc, on>>
            /\ toNotify' \in [Threads -> SUBSET Sessions] /\ toClean' \in [Threads -> SUBSET Sessions]
        BY <2>4 DEF RemoveOverlay, CleanupFails, ThreadTypes, Doings
      <4>2. /\ doing' \in [Threads -> Doings] /\ at' \in [Threads -> Sessions \cup {NoSession}]
            /\ cursor' \in [Threads -> Nat]
            /\ \A u \in Threads : doing'[u] # "none" => at'[u] \in Sessions
        BY <4>1, StepDoneTypes, DutyWorkTypes
      <4>3. QED
        BY <4>1, <4>2 DEF ThreadTypes, TargetsInv
    <3>3. EnvTypes'
      BY <2>4 DEF RemoveOverlay, CleanupFails, StepDone, EnvTypes
    <3>4. QED
      BY <3>1, <3>2, <3>3, <2>4 DEF RemoveOverlay, CaptureTypes
  <2>5. CASE FinalizeSession(t)
    <3>1. SessionTypes'
      BY <2>5 DEF FinalizeSession, StepDone, SessionTypes, States, ThreadTypes, TargetsInv
    <3>2. (ThreadTypes /\ TargetsInv)'
      BY <2>5 DEF FinalizeSession, StepDone, ThreadTypes, TargetsInv, Points, LeasePoints, Doings, SessionTypes
    <3>3. QED
      BY <3>1, <3>2, <2>5 DEF FinalizeSession, CaptureTypes, EnvTypes
  <2>6. QED
    BY <2>1, <2>2, <2>3, <2>4, <2>5 DEF DutyStep
<1>5. CASE SweepExpired
  <2>1. SessionTypes'
    BY <1>5 DEF SweepExpired, Revoke, Schedule, Expired, Revoked, Threads, SessionTypes, States, ThreadTypes, TargetsInv
  <2>2. (ThreadTypes /\ TargetsInv)'
    BY <1>5 DEF SweepExpired, Revoke, Schedule, Expired, Revoked, Threads, ThreadTypes, TargetsInv, Points, LeasePoints, Doings, SessionTypes
  <2>3. QED
    BY <2>1, <2>2, <1>5 DEF SweepExpired, CaptureTypes, EnvTypes
<1>6. CASE StopReaper
  <2>1. EnvTypes'
    BY <1>6 DEF StopReaper, EnvTypes
  <2>2. QED
    BY <2>1, <1>6 DEF StopReaper, SessionTypes, CaptureTypes, ThreadTypes, TargetsInv
<1>7. CASE Shutdown
  <2>1. SessionTypes'
    BY <1>7 DEF Shutdown, Revoke, Schedule, Live, Threads, SessionTypes, States, ThreadTypes, TargetsInv
  <2>2. (ThreadTypes /\ TargetsInv)'
    BY <1>7 DEF Shutdown, Revoke, Schedule, Live, Threads, ThreadTypes, TargetsInv, Points, LeasePoints, Doings, SessionTypes
  <2>3. EnvTypes'
    BY <1>7 DEF Shutdown, Revoke, Schedule, Live, Threads, EnvTypes
  <2>4. QED
    BY <2>1, <2>2, <2>3, <1>7 DEF Shutdown, CaptureTypes
<1>8. CASE Tick
  <2>1. SessionTypes'
    BY <1>8 DEF Tick, SessionTypes, States, ThreadTypes, TargetsInv
  <2>2. QED
    BY <2>1, <1>8 DEF Tick, CaptureTypes, ThreadTypes, EnvTypes, TargetsInv
<1>9. CASE \E n \in Tenants, r \in Revisions : ContextChanges(n, r)
  <2>1. EnvTypes'
    BY <1>9 DEF ContextChanges, EnvTypes
  <2>2. QED
    BY <2>1, <1>9 DEF ContextChanges, SessionTypes, CaptureTypes, ThreadTypes, TargetsInv
<1>10. CASE UNCHANGED vars
  BY <1>10 DEF vars, SessionTypes, CaptureTypes, ThreadTypes, EnvTypes, TargetsInv
<1>11. QED
  BY <1>1, <1>2, <1>3, <1>4, <1>5, <1>6, <1>7, <1>8, <1>9, <1>10 DEF Next

LEMMA BaseInvariant == Spec => []BaseInv
<1>1. Init => BaseInv
  BY BaseInit
<1>2. BaseInv /\ [Next]_vars => BaseInv'
  BY BaseStep
<1>3. QED
  BY <1>1, <1>2, PTL DEF Spec

-----------------------------------------------------------------------------
(* in_flight counts the leases.                                            *)

Users(s) == {t \in Workers : Leases(t, s)}

LEMMA UsersFinite == \A s : IsFiniteSet(Users(s)) /\ Cardinality(Users(s)) \in Nat
<1> TAKE s
<1>1. IsFiniteSet(Users(s))
  BY SessionsAssumption, FS_Subset DEF Users
<1>2. QED
  BY <1>1, FS_CardinalityType

\* Only the thread that moves changes the users, and only of its session.
LEMMA GoToUsers ==
  ASSUME BaseInv, NEW t \in Workers, NEW point \in Points, GoTo(t, point),
         pc[t] # "idle", NEW s \in Sessions
  PROVE  /\ on[t] # s => Users(s)' = Users(s)
         /\ on[t] = s /\ point \in LeasePoints => Users(s)' = Users(s) \cup {t}
         /\ on[t] = s /\ point \notin LeasePoints => Users(s)' = Users(s) \ {t}
<1> USE DEF BaseInv, ThreadTypes, Threads, GoTo, Users, Leases, LeasePoints
<1>1. \A u \in Workers \ {t} : Leases(u, s)' <=> Leases(u, s)
  OBVIOUS
<1>2. Leases(t, s)' <=> on[t] = s /\ point \in LeasePoints
  BY SessionsAssumption
<1>3. on[t] # s => ~Leases(t, s)
  OBVIOUS
<1>4. QED
  BY <1>1, <1>2, <1>3

LEMMA CountSame ==
  ASSUME BaseInv, InFlightExact, NEW t \in Workers, NEW point \in Points, GoTo(t, point),
         pc[t] # "idle", pc[t] \in LeasePoints <=> point \in LeasePoints, UNCHANGED in_flight
  PROVE  InFlightExact'
<1> SUFFICES ASSUME NEW s \in Sessions PROVE in_flight'[s] = Cardinality(Users(s)')
  BY DEF InFlightExact, Users
<1>1. on[t] = s => (t \in Users(s) <=> point \in LeasePoints)
  BY DEF Users, Leases
<1>2. Users(s)' = Users(s)
  BY <1>1, GoToUsers
<1>3. QED
  BY <1>2 DEF InFlightExact, Users

LEMMA CountEnter ==
  ASSUME BaseInv, InFlightExact, NEW t \in Workers, NEW point \in LeasePoints, GoTo(t, point),
         pc[t] # "idle", pc[t] \notin LeasePoints,
         in_flight' = [in_flight EXCEPT ![on[t]] = @ + 1]
  PROVE  InFlightExact'
<1> SUFFICES ASSUME NEW s \in Sessions PROVE in_flight'[s] = Cardinality(Users(s)')
  BY DEF InFlightExact, Users
<1>1. in_flight[s] = Cardinality(Users(s))
  BY DEF InFlightExact, Users
<1>2. CASE on[t] # s
  BY <1>1, <1>2, GoToUsers DEF BaseInv, SessionTypes, Points
<1>3. CASE on[t] = s
  <2>1. Users(s)' = Users(s) \cup {t} /\ t \notin Users(s)
    BY <1>3, GoToUsers DEF Users, Leases, Points
  <2>2. Cardinality(Users(s)') = Cardinality(Users(s)) + 1
    BY <2>1, UsersFinite, FS_AddElement
  <2>3. QED
    BY <1>1, <1>3, <2>2 DEF BaseInv, SessionTypes
<1>4. QED
  BY <1>2, <1>3

LEMMA CountLeave ==
  ASSUME BaseInv, InFlightExact, NEW t \in Workers, GoTo(t, "idle"), pc[t] \in LeasePoints,
         in_flight' = [in_flight EXCEPT ![on[t]] = @ - 1]
  PROVE  InFlightExact'
<1> SUFFICES ASSUME NEW s \in Sessions PROVE in_flight'[s] = Cardinality(Users(s)')
  BY DEF InFlightExact, Users
<1>0. pc[t] # "idle" /\ "idle" \in Points \ LeasePoints
  BY DEF LeasePoints, Points
<1>1. in_flight[s] = Cardinality(Users(s))
  BY DEF InFlightExact, Users
<1>2. CASE on[t] # s
  BY <1>0, <1>1, <1>2, GoToUsers DEF BaseInv, SessionTypes
<1>3. CASE on[t] = s
  <2>1. Users(s)' = Users(s) \ {t} /\ t \in Users(s)
    BY <1>0, <1>3, GoToUsers DEF Users, Leases
  <2>2. Cardinality(Users(s)') = Cardinality(Users(s)) - 1
    BY <2>1, UsersFinite, FS_RemoveElement
  <2>3. QED
    BY <1>1, <1>3, <2>2 DEF BaseInv, SessionTypes
<1>4. QED
  BY <1>2, <1>3

LEMMA CountsInit == Init => InFlightExact
<1> SUFFICES ASSUME Init, NEW s \in Sessions PROVE in_flight[s] = Cardinality(Users(s))
  BY DEF InFlightExact, Users
<1>1. Users(s) = {}
  BY DEF Init, Users, Leases, LeasePoints, Threads
<1>2. QED
  BY <1>1, FS_EmptySet DEF Init

LEMMA CountsStep == BaseInv /\ InFlightExact /\ [Next]_vars => InFlightExact'
<1> SUFFICES ASSUME BaseInv, InFlightExact, [Next]_vars PROVE InFlightExact'
  OBVIOUS
<1>1. CASE UNCHANGED <<pc, on, in_flight>>
  BY <1>1 DEF InFlightExact, Leases
<1>2. CASE \E t \in Workers, s \in Sessions, next \in {"check1", "close", "idle"} :
             Authenticate(t, s, next)
  <2> PICK t \in Workers, s \in Sessions, next \in {"check1", "close", "idle"} :
           Authenticate(t, s, next)
    BY <1>2
  <2>1. CASE Expire(t, s) /\ UNCHANGED callVars
    BY <1>1, <2>1 DEF Expire, callVars
  <2>2. CASE ~(Expire(t, s) /\ UNCHANGED callVars)
    <3>1. /\ pc[t] = "idle" /\ UNCHANGED in_flight
          /\ pc' = [pc EXCEPT ![t] = next] /\ on' = [on EXCEPT ![t] = s]
      BY <2>2 DEF Authenticate, At, sessionVars
    <3>2. \A u \in Workers, x \in Sessions : Leases(u, x)' <=> Leases(u, x)
      BY <3>1 DEF Leases, LeasePoints, BaseInv, ThreadTypes, Threads
    <3>3. QED
      BY <3>1, <3>2 DEF InFlightExact
  <2>3. QED
    BY <2>1, <2>2
<1>3. CASE \E t \in Workers : CallStep(t)
  <2> PICK t \in Workers : CallStep(t)
    BY <1>3
  <2>0. t \in Threads /\ (pc[t] # "idle" => on[t] \in Sessions)
    BY DEF Threads, BaseInv, TargetsInv
  <2> USE DEF Points, LeasePoints, At, sessionVars
  <2>1. CASE CheckBeforeAdmission(t)
    <3>1. CASE RevokeStale(t, on[t], FALSE)
      <4>1. UNCHANGED in_flight
        BY <2>0, <2>1, <3>1 DEF RevokeStale, Remaining, CheckBeforeAdmission, BaseInv, SessionTypes
      <4>2. QED
        BY <2>1, <3>1, <4>1, CountSame DEF CheckBeforeAdmission, RevokeStale
    <3>2. CASE ~RevokeStale(t, on[t], FALSE)
      BY <2>1, <3>2, CountSame DEF CheckBeforeAdmission
    <3>3. QED
      BY <3>1, <3>2
  <2>2. CASE Admit(t)
    BY <2>0, <2>2, CountSame, CountEnter DEF Admit, Expire
  <2>3. CASE CheckAfterAdmission(t)
    <3>1. CASE RevokeStale(t, on[t], TRUE)
      <4>1. in_flight' = [in_flight EXCEPT ![on[t]] = @ - 1]
        BY <2>0, <2>3, <3>1 DEF RevokeStale, Remaining, CheckAfterAdmission, BaseInv, SessionTypes
      <4>2. QED
        BY <2>3, <3>1, <4>1, CountLeave DEF CheckAfterAdmission, RevokeStale
    <3>2. CASE ~RevokeStale(t, on[t], TRUE)
      BY <2>3, <3>2, CountSame DEF CheckAfterAdmission
    <3>3. QED
      BY <3>1, <3>2
  <2>4. CASE Activate(t)
    BY <2>4, CountSame, CountLeave DEF Activate, Release
  <2>5. CASE EndBody(t)
    BY <2>5, CountSame DEF EndBody
  <2>6. CASE CheckAfterBody(t)
    BY <2>6, CountSame DEF CheckAfterBody
  <2>7. CASE ExitOperation(t)
    BY <2>7, CountLeave DEF ExitOperation, Release
  <2>8. CASE Close(t)
    BY <2>8, CountSame DEF Close
  <2>9. QED
    BY <2>1, <2>2, <2>3, <2>4, <2>5, <2>6, <2>7, <2>8 DEF CallStep
<1>4. CASE \E s \in Sessions : CreateSession(s)
  BY <1>1, <1>4 DEF CreateSession, ReserveCapture, Capture, AbandonCapture, InsertSession,
     sessionVars, callVars
<1>5. CASE \E t \in Threads : DutyStep(t)
  BY <1>1, <1>5 DEF DutyStep, BeginNotify, RunListener, EndNotify, RemoveOverlay,
     FinalizeSession, sessionVars, callVars
<1>6. CASE SweepExpired \/ StopReaper \/ Shutdown \/ Tick
             \/ \E n \in Tenants, r \in Revisions : ContextChanges(n, r)
  BY <1>1, <1>6 DEF SweepExpired, StopReaper, Shutdown, Tick, ContextChanges, sessionVars, callVars
<1>7. CASE UNCHANGED vars
  BY <1>1, <1>7 DEF vars, sessionVars, callVars
<1>8. QED
  BY <1>2, <1>3, <1>4, <1>5, <1>6, <1>7 DEF Next

\* in_flight is exactly the number of operations inside the session, so it is
\* never negative and reaches zero when the last one leaves.
THEOREM InFlightIsExact == Spec => []InFlightExact
<1>1. Init => InFlightExact
  BY CountsInit
<1>2. BaseInv /\ InFlightExact /\ [Next]_vars => InFlightExact'
  BY CountsStep
<1>3. QED
  BY <1>1, <1>2, BaseInvariant, PTL DEF Spec

-----------------------------------------------------------------------------
(* Leases, cleanups and erasure.                                           *)

NobodyAtZero == \A s \in Sessions : in_flight[s] = 0 => \A u \in Workers : ~Leases(u, s)

LEMMA ZeroMeansNobody == InFlightExact => NobodyAtZero
<1> SUFFICES ASSUME InFlightExact, NEW s \in Sessions, in_flight[s] = 0 PROVE Users(s) = {}
  BY DEF NobodyAtZero, Users
<1>1. Cardinality(Users(s)) = 0
  BY DEF InFlightExact, Users
<1>2. QED
  BY <1>1, UsersFinite, FS_EmptySet

LEMMA SafetyInit == Init => SafetyInv
  BY SessionsAssumption DEF Init, SafetyInv, StatesConsistent, CallsOnSessions, DutiesConsistent, LeaseKeepsSession,
     CleanupHasOneOwner, ErasedBeforeRemoved, EraseAfterCancel, Leases, LeasePoints, Notifying, Threads

\* What every step of a call, of the reaper and of the closer does to the
\* sessions: thread t revokes those of S for one reason and takes over the
\* cleanup of those of C.  A thread may leave a session, and enter one that is
\* and stays ACTIVE.
Retires(t, S, reason, C) ==
  /\ S \in SUBSET {s \in Sessions : state[s] = "ACTIVE"}
  /\ C \in SUBSET Sessions
  /\ reason \in {"EXPIRED", "STALE", "CLOSING"}
  /\ \A s \in Sessions :
       /\ state'[s] = (IF s \in S THEN reason ELSE state[s])
       /\ token'[s] = (token[s] /\ s \notin S)
       /\ cancelled'[s] = (cancelled[s] \/ s \in S)
       /\ cleanup_started'[s] = (cleanup_started[s] \/ s \in C)
  /\ \A u \in Threads : toClean'[u] = (IF u = t THEN toClean[u] \cup C ELSE toClean[u])
  /\ \A s \in C : in_flight'[s] = 0 /\ ~cleanup_started[s]
                  /\ state'[s] \in {"EXPIRED", "STALE", "CLOSING"}
  /\ \A u \in Threads : \A s \in toNotify'[u] :
       s \in toNotify[u] \/ (cancelled'[s] /\ state'[s] # "absent")
  /\ \A u \in Threads : doing[u] = "notify" => toNotify[u] \subseteq toNotify'[u]
  /\ ~shutdown' => ~shutdown /\ toNotify'[Closer] = toNotify[Closer]
  /\ \A s \in Sessions : in_flight'[s] # in_flight[s] =>
       state[s] = "ACTIVE" \/ \E u \in Workers : Leases(u, s)
  /\ \A u \in Workers, s \in Sessions : Leases(u, s)' =>
       Leases(u, s) \/ (state[s] = "ACTIVE" /\ s \notin S)
  /\ reason = "EXPIRED" => \A s \in S : \A u \in Workers : ~Leases(u, s)
  /\ \A s \in Sessions : (create'[s] = "opened") = (create[s] = "opened")
  /\ UNCHANGED <<snapshot, overlay, listeners_completed, doing, at>>

\* CallsOnSessions is the only conjunct that such a step may disturb.
LEMMA RetiresSafe ==
  ASSUME BaseInv, BaseInv', NobodyAtZero', SafetyInv,
         NEW t \in Threads, NEW S, NEW reason, NEW C, Retires(t, S, reason, C),
         CallsOnSessions'
  PROVE  SafetyInv'
<1>a. \A s \in Sessions :
         /\ state'[s] = (IF s \in S THEN reason ELSE state[s])
         /\ token'[s] = (token[s] /\ s \notin S)
         /\ cancelled'[s] = (cancelled[s] \/ s \in S)
         /\ cleanup_started'[s] = (cleanup_started[s] \/ s \in C)
         /\ (create'[s] = "opened") = (create[s] = "opened")
         /\ s \in S => state[s] = "ACTIVE"
  BY DEF Retires
<1>b. reason \in {"EXPIRED", "STALE", "CLOSING"}
  BY DEF Retires
<1>c. \A u \in Threads : toClean'[u] = (IF u = t THEN toClean[u] \cup C ELSE toClean[u])
  BY DEF Retires
<1>d. \A s \in C : /\ s \in Sessions /\ in_flight'[s] = 0 /\ ~cleanup_started[s]
                   /\ state'[s] \in {"EXPIRED", "STALE", "CLOSING"}
  BY DEF Retires
<1>e. /\ snapshot' = snapshot /\ overlay' = overlay
      /\ listeners_completed' = listeners_completed /\ doing' = doing /\ at' = at
  BY DEF Retires
<1>1. StatesConsistent'
  <2> SUFFICES ASSUME NEW s \in Sessions
               PROVE  /\ state'[s] = "absent" <=> create'[s] # "opened"
                      /\ state'[s] = "absent" => ~token'[s] /\ ~cancelled'[s] /\ ~cleanup_started'[s]
                      /\ state'[s] = "ACTIVE" => /\ token'[s] /\ ~cancelled'[s] /\ ~cleanup_started'[s]
                                                 /\ snapshot'[s] /\ overlay'[s]
                      /\ state'[s] \notin {"absent", "ACTIVE"} => ~token'[s] /\ cancelled'[s]
                      /\ state'[s] = "CLOSED" => cleanup_started'[s]
    BY DEF StatesConsistent
  <2>1. /\ state[s] = "absent" <=> create[s] # "opened"
        /\ state[s] = "absent" => ~token[s] /\ ~cancelled[s] /\ ~cleanup_started[s]
        /\ state[s] = "ACTIVE" => /\ token[s] /\ ~cancelled[s] /\ ~cleanup_started[s]
                                  /\ snapshot[s] /\ overlay[s]
        /\ state[s] \notin {"absent", "ACTIVE"} => ~token[s] /\ cancelled[s]
        /\ state[s] = "CLOSED" => cleanup_started[s]
    BY DEF SafetyInv, StatesConsistent
  <2>2. s \in C => state'[s] \notin {"absent", "ACTIVE"}
    BY <1>d
  <2>3. QED
    BY <1>a, <1>b, <1>e, <2>1, <2>2
<1>2. DutiesConsistent'
  <2> SUFFICES ASSUME NEW u \in Threads
               PROVE  /\ doing'[u] = "notify" => at'[u] \in toNotify'[u]
                      /\ doing'[u] \in {"erase", "remove", "finalize"} => at'[u] \in toClean'[u]
                      /\ doing'[u] \in {"remove", "finalize"} => EraseComplete(at[u])'
                      /\ \A s \in toNotify'[u] : cancelled'[s] /\ state'[s] # "absent"
                      /\ \A s \in toClean'[u] : s \in Revoked' /\ in_flight'[s] = 0
                                                /\ \A w \in Workers : ~Leases(w, s)'
                      /\ u = Closer /\ ~shutdown' => toNotify'[u] = {}
    BY DEF DutiesConsistent
  <2>1. doing'[u] = "notify" => at'[u] \in toNotify'[u]
    BY <1>e DEF SafetyInv, DutiesConsistent, Retires
  <2>2. doing'[u] \in {"erase", "remove", "finalize"} => at'[u] \in toClean'[u]
    BY <1>c, <1>e DEF SafetyInv, DutiesConsistent
  <2>3. doing'[u] \in {"remove", "finalize"} => EraseComplete(at[u])'
    BY <1>e DEF SafetyInv, DutiesConsistent, EraseComplete
  <2>4. ASSUME NEW s \in toNotify'[u] PROVE cancelled'[s] /\ state'[s] # "absent"
    <3>1. s \in Sessions
      BY DEF BaseInv, ThreadTypes
    <3>2. s \in toNotify[u] => cancelled[s] /\ state[s] # "absent"
      BY DEF SafetyInv, DutiesConsistent
    <3>3. s \in toNotify[u] \/ (cancelled'[s] /\ state'[s] # "absent")
      BY DEF Retires
    <3>4. QED
      BY <1>a, <1>b, <3>1, <3>2, <3>3
  <2>5. ASSUME NEW s \in toClean'[u]
        PROVE  s \in Revoked' /\ in_flight'[s] = 0
    <3>1. s \in Sessions
      BY DEF BaseInv, ThreadTypes
    <3>2. CASE s \in C
      BY <1>d, <3>1, <3>2 DEF Revoked
    <3>3. CASE s \notin C
      <4>1. s \in toClean[u]
        BY <1>c, <3>3
      <4>2. s \in Revoked /\ in_flight[s] = 0 /\ \A w \in Workers : ~Leases(w, s)
        BY <4>1 DEF SafetyInv, DutiesConsistent
      <4>3. s \in Revoked'
        BY <1>a, <3>1, <4>2 DEF Revoked
      <4>4. in_flight'[s] = in_flight[s]
        BY <3>1, <4>2 DEF Retires, Revoked
      <4>5. QED
        BY <4>2, <4>3, <4>4
    <3>4. QED
      BY <3>2, <3>3
  <2>6. ASSUME NEW s \in toClean'[u], NEW w \in Workers PROVE ~Leases(w, s)'
    BY <2>5 DEF NobodyAtZero, BaseInv, ThreadTypes
  <2>7. u = Closer /\ ~shutdown' => toNotify'[u] = {}
    BY DEF Retires, SafetyInv, DutiesConsistent
  <2>8. QED
    BY <2>1, <2>2, <2>3, <2>4, <2>5, <2>6, <2>7
<1>3. LeaseKeepsSession'
  <2> SUFFICES ASSUME NEW u \in Workers, NEW s \in Sessions, Leases(u, s)'
               PROVE  state'[s] \in {"ACTIVE"} \cup {"STALE", "CLOSING"} /\ snapshot'[s] /\ overlay'[s]
    BY DEF LeaseKeepsSession
  <2>1. CASE Leases(u, s)
    <3>1. state[s] \in {"ACTIVE"} \cup {"STALE", "CLOSING"} /\ snapshot[s] /\ overlay[s]
      BY <2>1 DEF SafetyInv, LeaseKeepsSession
    <3>2. s \in S => reason # "EXPIRED"
      BY <2>1 DEF Retires
    <3>3. QED
      BY <1>a, <1>b, <1>e, <3>1, <3>2
  <2>2. CASE ~Leases(u, s)
    <3>1. state[s] = "ACTIVE" /\ s \notin S
      BY <2>2 DEF Retires
    <3>2. QED
      BY <1>a, <1>e, <3>1 DEF SafetyInv, StatesConsistent
  <2>3. QED
    BY <2>1, <2>2
<1>4. CleanupHasOneOwner'
  <2> SUFFICES ASSUME NEW s \in Sessions
               PROVE  /\ \A u, w \in Threads : s \in toClean'[u] /\ s \in toClean'[w] => u = w
                      /\ (\E u \in Threads : s \in toClean'[u])
                           <=> (cleanup_started'[s] /\ state'[s] # "CLOSED")
    BY DEF CleanupHasOneOwner
  <2>0. /\ \A u, w \in Threads : s \in toClean[u] /\ s \in toClean[w] => u = w
        /\ (\E u \in Threads : s \in toClean[u]) <=> (cleanup_started[s] /\ state[s] # "CLOSED")
    BY DEF SafetyInv, CleanupHasOneOwner
  <2>1. CASE s \in C
    <3>1. \A u \in Threads : s \in toClean'[u] <=> u = t
      BY <1>c, <1>d, <2>0, <2>1
    <3>2. QED
      BY <1>a, <1>d, <2>1, <3>1
  <2>2. CASE s \notin C
    <3>1. \A u \in Threads : s \in toClean'[u] <=> s \in toClean[u]
      BY <1>c, <2>2
    <3>2. s \in S => ~cleanup_started[s]
      BY <1>a DEF SafetyInv, StatesConsistent
    <3>3. QED
      BY <1>a, <2>0, <2>2, <3>1, <3>2
  <2>3. QED
    BY <2>1, <2>2
<1>5. ErasedBeforeRemoved'
  <2> SUFFICES ASSUME NEW s \in Sessions, state'[s] # "absent", ~overlay'[s]
               PROVE  listeners_completed'[s] = Listeners /\ ~token'[s] /\ cancelled'[s]
    BY DEF ErasedBeforeRemoved
  <2>1. state[s] # "absent" /\ ~overlay[s]
    BY <1>a, <1>e
  <2>2. listeners_completed[s] = Listeners /\ ~token[s] /\ cancelled[s]
    BY <2>1 DEF SafetyInv, ErasedBeforeRemoved
  <2>3. QED
    BY <1>a, <1>e, <2>2
<1>6. EraseAfterCancel'
  BY <1>a, <1>e DEF SafetyInv, EraseAfterCancel, Notifying
<1>7. QED
  BY <1>1, <1>2, <1>3, <1>4, <1>5, <1>6 DEF SafetyInv

LEMMA GoToLeases ==
  ASSUME BaseInv, NEW t \in Workers, NEW point \in Points, GoTo(t, point),
         NEW u \in Workers, NEW s \in Sessions, Leases(u, s)'
  PROVE  Leases(u, s) \/ (u = t /\ s = on[t] /\ point \in LeasePoints)
  BY SessionsAssumption DEF BaseInv, ThreadTypes, Threads, GoTo, Leases

LEMMA RetiresCalls ==
  ASSUME BaseInv, BaseInv', SafetyInv, NEW t \in Threads, NEW S, NEW reason, NEW C,
         Retires(t, S, reason, C),
         UNCHANGED callVars \/ (pc[t] # "idle" /\ \E point \in Points : GoTo(t, point))
  PROVE  CallsOnSessions'
<1> SUFFICES ASSUME NEW u \in Threads, pc'[u] # "idle"
             PROVE  u \in Workers /\ on'[u] \in Sessions /\ state'[on'[u]] # "absent"
  BY DEF CallsOnSessions
<1>1. pc[u] # "idle" /\ on'[u] = on[u]
  BY DEF BaseInv, ThreadTypes, GoTo, callVars
<1>2. u \in Workers /\ on[u] \in Sessions /\ state[on[u]] # "absent"
  BY <1>1 DEF SafetyInv, CallsOnSessions
<1>3. \A s \in Sessions : state[s] # "absent" => state'[s] # "absent"
  BY DEF Retires
<1>4. QED
  BY <1>1, <1>2, <1>3

\* A step that leaves the fields of the sessions alone.
LEMMA QuietRetires ==
  ASSUME NEW t \in Threads,
         UNCHANGED <<state, token, cancelled, snapshot, overlay, cleanup_started,
                     listeners_completed, dutyVars, doing, at>>,
         BaseInv, ~shutdown' => ~shutdown,
         \A s \in Sessions : (create'[s] = "opened") = (create[s] = "opened"),
         \A s \in Sessions : in_flight'[s] # in_flight[s] =>
           state[s] = "ACTIVE" \/ \E u \in Workers : Leases(u, s),
         \A u \in Workers, s \in Sessions : Leases(u, s)' =>
           Leases(u, s) \/ state[s] = "ACTIVE"
  PROVE  Retires(t, {}, "CLOSING", {})
<1>1. /\ state' = state /\ token' = token /\ cancelled' = cancelled
      /\ cleanup_started' = cleanup_started /\ toClean' = toClean /\ toNotify' = toNotify
  BY DEF dutyVars
<1>2. \A s \in Sessions : token[s] \in BOOLEAN /\ cancelled[s] \in BOOLEAN
                          /\ cleanup_started[s] \in BOOLEAN
  BY DEF BaseInv, SessionTypes
<1>3. \A u \in Threads : toClean'[u] = (IF u = t THEN toClean[u] \cup {} ELSE toClean[u])
  BY <1>1
<1>4. QED
  BY <1>1, <1>2, <1>3 DEF Retires

\* A step that revokes S and schedules the cleanup of C for thread t.
LEMMA RevokeRetires ==
  ASSUME BaseInv, SafetyInv, NEW t \in Threads, NEW reason \in {"EXPIRED", "STALE", "CLOSING"},
         NEW S \in SUBSET {s \in Sessions : state[s] = "ACTIVE"}, NEW C \in SUBSET Sessions,
         Revoke(S, reason), Schedule(t, C),
         \A s \in C : in_flight'[s] = 0 /\ ~cleanup_started[s] /\ state[s] # "absent"
                      /\ (state[s] = "ACTIVE" => s \in S),
         \/ UNCHANGED <<toNotify, shutdown>>
         \/ \E N \in SUBSET Sessions :
              /\ toNotify' = [toNotify EXCEPT ![t] = N] /\ doing[t] # "notify"
              /\ (UNCHANGED shutdown /\ t # Closer) \/ shutdown'
              /\ \A s \in N : state[s] # "absent" /\ (state[s] = "ACTIVE" => s \in S),
         \A s \in Sessions : in_flight'[s] # in_flight[s] => \E u \in Workers : Leases(u, s),
         \A u \in Workers, s \in Sessions : Leases(u, s)' => Leases(u, s),
         reason = "EXPIRED" => \A s \in S : \A u \in Workers : ~Leases(u, s),
         UNCHANGED <<create, snapshot, overlay, listeners_completed, doing, at>>
  PROVE  Retires(t, S, reason, C)
<1>1. \A s \in Sessions :
        /\ state'[s] = (IF s \in S THEN reason ELSE state[s])
        /\ token'[s] = (token[s] /\ s \notin S)
        /\ cancelled'[s] = (cancelled[s] \/ s \in S)
  BY DEF Revoke
<1>2. /\ \A s \in Sessions : cleanup_started'[s] = (cleanup_started[s] \/ s \in C)
      /\ \A u \in Threads : toClean'[u] = (IF u = t THEN toClean[u] \cup C ELSE toClean[u])
  BY DEF Schedule, BaseInv, ThreadTypes
<1>3. \A s \in C : state'[s] \in {"EXPIRED", "STALE", "CLOSING"}
  <2> SUFFICES ASSUME NEW s \in C PROVE state'[s] \in {"EXPIRED", "STALE", "CLOSING"}
    OBVIOUS
  <2>1. state[s] # "CLOSED"
    BY DEF SafetyInv, StatesConsistent
  <2>2. state[s] \in States
    BY DEF BaseInv, SessionTypes
  <2>3. QED
    BY <1>1, <2>1, <2>2 DEF States
<1>4. /\ \A u \in Threads : \A s \in toNotify'[u] :
           s \in toNotify[u] \/ (cancelled'[s] /\ state'[s] # "absent")
      /\ \A u \in Threads : doing[u] = "notify" => toNotify[u] \subseteq toNotify'[u]
      /\ ~shutdown' => ~shutdown /\ toNotify'[Closer] = toNotify[Closer]
  <2>1. CASE UNCHANGED <<toNotify, shutdown>>
    BY <2>1
  <2>2. CASE ~UNCHANGED <<toNotify, shutdown>>
    <3> PICK N \in SUBSET Sessions :
          /\ toNotify' = [toNotify EXCEPT ![t] = N] /\ doing[t] # "notify"
          /\ (UNCHANGED shutdown /\ t # Closer) \/ shutdown'
          /\ \A s \in N : state[s] # "absent" /\ (state[s] = "ACTIVE" => s \in S)
      BY <2>2
    <3>1. \A s \in N : cancelled'[s] /\ state'[s] # "absent"
      BY <1>1 DEF SafetyInv, StatesConsistent
    <3>2. \A u \in Threads : toNotify'[u] = (IF u = t THEN N ELSE toNotify[u])
      BY DEF BaseInv, ThreadTypes
    <3>3. ~shutdown' => ~shutdown /\ toNotify'[Closer] = toNotify[Closer]
      BY <3>2 DEF Threads
    <3>4. QED
      BY <3>1, <3>2, <3>3
  <2>3. QED
    BY <2>1, <2>2
<1>5. QED
  BY <1>1, <1>2, <1>3, <1>4 DEF Retires

LEMMA ExpireRetires ==
  ASSUME BaseInv, SafetyInv, NobodyAtZero, NEW t \in Threads, NEW s \in Sessions, Expire(t, s),
         \A u \in Workers, x \in Sessions : Leases(u, x)' => Leases(u, x),
         UNCHANGED <<create, shutdown, doing, at>>
  PROVE  \E C : Retires(t, {s}, "EXPIRED", C)
<1> DEFINE C == IF Schedulable(s, in_flight[s]) THEN {s} ELSE {}
<1>1. /\ Revoke({s}, "EXPIRED") /\ Schedule(t, C)
      /\ UNCHANGED <<snapshot, overlay, in_flight, listeners_completed, toNotify>>
  BY DEF Expire
<1>2. state[s] = "ACTIVE" /\ \A u \in Workers : ~Leases(u, s)
  BY DEF Expire, Due, NobodyAtZero
<1>3. \A x \in C : x = s /\ in_flight[x] = 0 /\ ~cleanup_started[x]
  BY DEF Schedulable
<1>4. Retires(t, {s}, "EXPIRED", C)
  <2> HIDE DEF C
  <2>1. {s} \in SUBSET {x \in Sessions : state[x] = "ACTIVE"} /\ C \in SUBSET Sessions
    BY <1>2, <1>3
  <2>2. \A x \in C : in_flight'[x] = 0 /\ ~cleanup_started[x] /\ state[x] # "absent"
                     /\ (state[x] = "ACTIVE" => x \in {s})
    BY <1>1, <1>2, <1>3
  <2>3. QED
    BY <1>1, <1>2, <2>1, <2>2, RevokeRetires
<1>5. QED
  BY <1>4

LEMMA StaleRetires ==
  ASSUME BaseInv, SafetyInv, NobodyAtZero, NEW t \in Workers, NEW s \in Sessions,
         NEW release \in BOOLEAN, RevokeStale(t, s, release),
         state[s] # "absent", Free(t), release => Leases(t, s),
         UNCHANGED <<create, shutdown, doing, at>>
  PROVE  \E S, C : Retires(t, S, "STALE", C)
<1> DEFINE S == IF state[s] = "ACTIVE" THEN {s} ELSE {}
           C == IF Schedulable(s, Remaining(s, release)) THEN {s} ELSE {}
<1>1. /\ Revoke(S, "STALE") /\ Schedule(t, C) /\ GoTo(t, "idle")
      /\ in_flight' = [in_flight EXCEPT ![s] = Remaining(s, release)]
      /\ toNotify' = [toNotify EXCEPT ![t] = {s}]
      /\ UNCHANGED <<snapshot, overlay, listeners_completed>>
  BY DEF RevokeStale
<1>2. t \in Threads /\ t # Closer
  BY SessionsAssumption DEF Threads
<1>3. \A x \in Sessions : in_flight'[x] # in_flight[x] => \E u \in Workers : Leases(u, x)
  BY <1>1 DEF Remaining, BaseInv, SessionTypes
<1>4. \A x \in C : x = s /\ in_flight'[x] = 0 /\ ~cleanup_started[x]
  BY <1>1 DEF Schedulable, BaseInv, SessionTypes
<1>5. \A u \in Workers, x \in Sessions : Leases(u, x)' => Leases(u, x)
  BY <1>1, GoToLeases DEF Points, LeasePoints
<1>6. doing[t] # "notify"
  BY <1>2 DEF Free, SafetyInv, DutiesConsistent
<1>7. S \in SUBSET {x \in Sessions : state[x] = "ACTIVE"} /\ C \in SUBSET Sessions
      /\ (state[s] = "ACTIVE" => s \in S)
  OBVIOUS
<1>8. Retires(t, S, "STALE", C)
  <2> HIDE DEF S, C
  <2>1. \A x \in C : in_flight'[x] = 0 /\ ~cleanup_started[x] /\ state[x] # "absent"
                     /\ (state[x] = "ACTIVE" => x \in S)
    BY <1>4, <1>7
  <2>2. \E N \in SUBSET Sessions :
          /\ toNotify' = [toNotify EXCEPT ![t] = N] /\ doing[t] # "notify"
          /\ (UNCHANGED shutdown /\ t # Closer) \/ shutdown'
          /\ \A x \in N : state[x] # "absent" /\ (state[x] = "ACTIVE" => x \in S)
    <3>1. {s} \in SUBSET Sessions
      OBVIOUS
    <3>2. QED
      BY <1>1, <1>2, <1>6, <1>7, <3>1
  <2>3. QED
    BY <1>1, <1>2, <1>3, <1>5, <1>7, <2>1, <2>2, RevokeRetires
<1>9. QED
  BY <1>8

LEMMA ReleaseRetires ==
  ASSUME BaseInv, SafetyInv, NobodyAtZero, NEW t \in Workers, NEW s \in Sessions, Release(t, s),
         Leases(t, s), UNCHANGED <<create, shutdown, doing, at>>
  PROVE  \E S, reason, C : Retires(t, S, reason, C)
<1>1. /\ in_flight' = [in_flight EXCEPT ![s] = @ - 1] /\ GoTo(t, "idle")
      /\ UNCHANGED <<state, token, cancelled, snapshot, overlay, listeners_completed, toNotify>>
  BY DEF Release
<1>2. t \in Threads
  BY DEF Threads
<1>3. \A x \in Sessions : in_flight'[x] # in_flight[x] => \E u \in Workers : Leases(u, x)
  BY <1>1 DEF BaseInv, SessionTypes
<1>4. \A u \in Workers, x \in Sessions : Leases(u, x)' => Leases(u, x)
  BY <1>1, GoToLeases DEF Points, LeasePoints
<1>5. state[s] # "absent"
  BY DEF SafetyInv, LeaseKeepsSession
<1>6. CASE state[s] # "ACTIVE" \/ cancelled[s]
  <2> DEFINE C == IF Schedulable(s, in_flight[s] - 1) THEN {s} ELSE {}
  <2>1. Schedule(t, C) /\ C \in SUBSET Sessions
    BY <1>6 DEF Release
  <2>2. state[s] # "ACTIVE"
    BY <1>6 DEF SafetyInv, StatesConsistent
  <2>3. \A x \in C : in_flight'[x] = 0 /\ ~cleanup_started[x] /\ state[x] # "absent"
                     /\ (state[x] = "ACTIVE" => x \in {})
    BY <1>1, <1>5, <2>2 DEF Schedulable, BaseInv, SessionTypes
  <2>4. Revoke({}, "CLOSING")
    BY <1>1 DEF Revoke, BaseInv, SessionTypes
  <2>5. Retires(t, {}, "CLOSING", C)
    <3> HIDE DEF C
    <3>1. {} \in SUBSET {x \in Sessions : state[x] = "ACTIVE"}
      OBVIOUS
    <3>2. QED
      BY <1>1, <1>2, <1>3, <1>4, <2>1, <2>3, <2>4, <3>1, RevokeRetires
  <2>6. QED
    BY <2>5
<1>7. CASE ~(state[s] # "ACTIVE" \/ cancelled[s])
  <2>1. UNCHANGED <<cleanup_started, toClean>>
    BY <1>7 DEF Release
  <2>2. QED
    BY <1>1, <1>2, <1>3, <1>4, <2>1, QuietRetires DEF dutyVars
<1>8. QED
  BY <1>6, <1>7

LEMMA CallRetires ==
  ASSUME BaseInv, SafetyInv, NobodyAtZero, NEW t \in Workers, CallStep(t)
  PROVE  \E S, reason, C : Retires(t, S, reason, C)
<1>1. /\ UNCHANGED <<create, shutdown, doing, at>> /\ Free(t)
      /\ t \in Threads /\ on[t] \in Sessions /\ state[on[t]] # "absent"
  BY DEF CallStep, CheckBeforeAdmission, Admit, CheckAfterAdmission, Activate, EndBody,
     CheckAfterBody, ExitOperation, Close, At, captureVars, stepVars, envVars,
     SafetyInv, CallsOnSessions, Threads
<1>2. ASSUME UNCHANGED <<state, token, cancelled, snapshot, overlay, cleanup_started,
                         listeners_completed, dutyVars>>,
             \A s \in Sessions : in_flight'[s] # in_flight[s] => state[s] = "ACTIVE",
             NEW point \in Points, GoTo(t, point),
             point \in LeasePoints => pc[t] \in LeasePoints \/ state[on[t]] = "ACTIVE"
      PROVE  Retires(t, {}, "CLOSING", {})
  <2>1. \A u \in Workers, s \in Sessions : Leases(u, s)' => Leases(u, s) \/ state[s] = "ACTIVE"
    <3> SUFFICES ASSUME NEW u \in Workers, NEW s \in Sessions, Leases(u, s)'
                 PROVE  Leases(u, s) \/ state[s] = "ACTIVE"
      OBVIOUS
    <3>1. Leases(u, s) \/ (u = t /\ s = on[t] /\ point \in LeasePoints)
      BY <1>2, GoToLeases
    <3>2. QED
      BY <1>2, <3>1 DEF Leases
  <2>2. QED
    BY <1>1, <1>2, <2>1, QuietRetires
<1>3. ASSUME UNCHANGED <<sessionVars, dutyVars>>, NEW point \in Points, GoTo(t, point),
             point \in LeasePoints => pc[t] \in LeasePoints
      PROVE  Retires(t, {}, "CLOSING", {})
  BY <1>2, <1>3 DEF sessionVars
<1>4. Expire(t, on[t]) /\ GoTo(t, "idle") => \E S, reason, C : Retires(t, S, reason, C)
  <2>1. GoTo(t, "idle") => \A u \in Workers, x \in Sessions : Leases(u, x)' => Leases(u, x)
    BY GoToLeases DEF Points, LeasePoints
  <2>2. QED
    BY <1>1, <2>1, ExpireRetires
<1>5. CASE CheckBeforeAdmission(t)
  BY <1>1, <1>3, <1>5, StaleRetires DEF CheckBeforeAdmission, Points, LeasePoints
<1>6. CASE Admit(t)
  <2>1. CASE ~Available(on[t]) /\ GoTo(t, "idle") /\ UNCHANGED <<sessionVars, dutyVars>>
    BY <1>3, <2>1 DEF Points, LeasePoints
  <2>2. CASE /\ Available(on[t]) /\ GoTo(t, "check2")
             /\ in_flight' = [in_flight EXCEPT ![on[t]] = @ + 1]
             /\ UNCHANGED <<state, token, cancelled, snapshot, overlay, idle, cleanup_started,
                            listeners_completed, dutyVars>>
    <3>1. \A s \in Sessions : in_flight'[s] # in_flight[s] => state[s] = "ACTIVE"
      BY <2>2 DEF Available, BaseInv, SessionTypes
    <3>2. QED
      BY <1>2, <2>2, <3>1 DEF Available, Points, LeasePoints
  <2>3. QED
    BY <1>4, <1>6, <2>1, <2>2 DEF Admit
<1>7. CASE CheckAfterAdmission(t)
  BY <1>1, <1>3, <1>7, StaleRetires DEF CheckAfterAdmission, At, Points, LeasePoints, Leases
<1>8. CASE Activate(t)
  <2>1. CASE Release(t, on[t])
    BY <1>1, <1>8, <2>1, ReleaseRetires DEF Activate, At, Leases, LeasePoints
  <2>2. CASE ~Release(t, on[t])
    <3>1. /\ GoTo(t, "body") /\ pc[t] = "activate" /\ UNCHANGED in_flight
          /\ UNCHANGED <<state, token, cancelled, snapshot, overlay, cleanup_started,
                         listeners_completed, dutyVars>>
      BY <1>8, <2>2 DEF Activate, At
    <3>2. QED
      BY <1>2, <3>1 DEF Points, LeasePoints
  <2>3. QED
    BY <2>1, <2>2
<1>9. CASE EndBody(t)
  BY <1>3, <1>9 DEF EndBody, At, Points, LeasePoints
<1>10. CASE CheckAfterBody(t)
  <2> DEFINE S == IF state[on[t]] = "ACTIVE" THEN {on[t]} ELSE {}
  <2>1. GoTo(t, "exit") /\ pc[t] \in LeasePoints
    BY <1>10 DEF CheckAfterBody, At, LeasePoints
  <2>2. CASE UNCHANGED <<sessionVars, dutyVars>>
    BY <1>3, <2>1, <2>2 DEF Points, LeasePoints
  <2>3. CASE ~UNCHANGED <<sessionVars, dutyVars>>
    <3>1. /\ Revoke(S, "STALE") /\ toNotify' = [toNotify EXCEPT ![t] = {on[t]}]
          /\ UNCHANGED <<snapshot, overlay, in_flight, cleanup_started, listeners_completed, toClean>>
      BY <1>10, <2>3 DEF CheckAfterBody
    <3>2. Schedule(t, {}) /\ doing[t] # "notify" /\ t # Closer
      BY <1>1, <3>1, SessionsAssumption
      DEF Schedule, BaseInv, SessionTypes, ThreadTypes, Free, SafetyInv, DutiesConsistent
    <3>3. \A u \in Workers, x \in Sessions : Leases(u, x)' => Leases(u, x)
      BY <2>1, GoToLeases DEF Points, LeasePoints, Leases
    <3>4. /\ S \in SUBSET {x \in Sessions : state[x] = "ACTIVE"} /\ {} \in SUBSET Sessions
          /\ {on[t]} \in SUBSET Sessions /\ (state[on[t]] = "ACTIVE" => on[t] \in S)
      BY <1>1
    <3>5. Retires(t, S, "STALE", {})
      <4> HIDE DEF S
      <4>1. \E N \in SUBSET Sessions :
              /\ toNotify' = [toNotify EXCEPT ![t] = N] /\ doing[t] # "notify"
              /\ (UNCHANGED shutdown /\ t # Closer) \/ shutdown'
              /\ \A x \in N : state[x] # "absent" /\ (state[x] = "ACTIVE" => x \in S)
        BY <1>1, <3>1, <3>2, <3>4
      <4>2. QED
        BY <1>1, <3>1, <3>2, <3>3, <3>4, <4>1, RevokeRetires
    <3>6. QED
      BY <3>5
  <2>4. QED
    BY <2>2, <2>3
<1>11. CASE ExitOperation(t)
  BY <1>1, <1>11, ReleaseRetires DEF ExitOperation, At, Leases, LeasePoints
<1>12. CASE Close(t)
  <2> DEFINE C == IF Schedulable(on[t], in_flight[on[t]]) THEN {on[t]} ELSE {}
  <2>1. GoTo(t, "idle")
    BY <1>12 DEF Close
  <2>2. CASE UNCHANGED <<sessionVars, dutyVars>>
    BY <1>3, <2>1, <2>2 DEF Points, LeasePoints
  <2>3. CASE ~UNCHANGED <<sessionVars, dutyVars>>
    <3>1. /\ state[on[t]] = "ACTIVE" /\ Revoke({on[t]}, "CLOSING") /\ Schedule(t, C)
          /\ toNotify' = [toNotify EXCEPT ![t] = {on[t]}]
          /\ UNCHANGED <<snapshot, overlay, in_flight, listeners_completed>>
      BY <1>12, <2>3 DEF Close
    <3>2. \A u \in Workers, x \in Sessions : Leases(u, x)' => Leases(u, x)
      BY <2>1, GoToLeases DEF Points, LeasePoints
    <3>3. \A x \in C : x = on[t] /\ in_flight[x] = 0 /\ ~cleanup_started[x]
      BY DEF Schedulable
    <3>4. doing[t] # "notify" /\ t # Closer
      BY <1>1, SessionsAssumption DEF Free, SafetyInv, DutiesConsistent
    <3>5. Retires(t, {on[t]}, "CLOSING", C)
      <4> HIDE DEF C
      <4>1. {on[t]} \in SUBSET {x \in Sessions : state[x] = "ACTIVE"} /\ C \in SUBSET Sessions
            /\ {on[t]} \in SUBSET Sessions
        BY <1>1, <3>1, <3>3
      <4>2. \A x \in C : in_flight'[x] = 0 /\ ~cleanup_started[x] /\ state[x] # "absent"
                         /\ (state[x] = "ACTIVE" => x \in {on[t]})
        BY <3>1, <3>3
      <4>3. \E N \in SUBSET Sessions :
              /\ toNotify' = [toNotify EXCEPT ![t] = N] /\ doing[t] # "notify"
              /\ (UNCHANGED shutdown /\ t # Closer) \/ shutdown'
              /\ \A x \in N : state[x] # "absent" /\ (state[x] = "ACTIVE" => x \in {on[t]})
        BY <1>1, <3>1, <3>4, <4>1
      <4>4. QED
        BY <1>1, <3>1, <3>2, <4>1, <4>2, <4>3, RevokeRetires
    <3>6. QED
      BY <3>5
  <2>4. QED
    BY <2>2, <2>3
<1>13. QED
  BY <1>5, <1>6, <1>7, <1>8, <1>9, <1>10, <1>11, <1>12 DEF CallStep

LEMMA SweepRetires ==
  ASSUME BaseInv, SafetyInv, NobodyAtZero, SweepExpired
  PROVE  \E S, C : Retires(Reaper, S, "EXPIRED", C)
<1> DEFINE C == {s \in Expired : Schedulable(s, in_flight[s])}
                  \cup {s \in Revoked : Schedulable(s, in_flight[s])}
<1>1. /\ Revoke(Expired, "EXPIRED") /\ Schedule(Reaper, C)
      /\ UNCHANGED <<snapshot, overlay, in_flight, listeners_completed, toNotify>>
      /\ UNCHANGED <<create, pc, on, shutdown, doing, at>>
  BY DEF SweepExpired, captureVars, callVars, stepVars, envVars
<1>2. /\ Expired \in SUBSET {s \in Sessions : state[s] = "ACTIVE"}
      /\ \A s \in Expired : \A u \in Workers : ~Leases(u, s)
  BY DEF Expired, Due, NobodyAtZero
<1>3. \A s \in C : /\ s \in Sessions /\ in_flight[s] = 0 /\ ~cleanup_started[s]
                   /\ state[s] # "absent" /\ (state[s] = "ACTIVE" => s \in Expired)
  BY DEF Expired, Due, Revoked, Schedulable
<1>4. \A u \in Workers, s \in Sessions : Leases(u, s)' => Leases(u, s)
  BY <1>1 DEF Leases
<1>5. Retires(Reaper, Expired, "EXPIRED", C)
  <2> HIDE DEF C
  <2>1. Reaper \in Threads /\ C \in SUBSET Sessions
    BY <1>3 DEF Threads
  <2>2. QED
    BY <1>1, <1>2, <1>3, <1>4, <2>1, RevokeRetires
<1>6. QED
  BY <1>5

LEMMA ShutdownRetires ==
  ASSUME BaseInv, SafetyInv, NobodyAtZero, Shutdown
  PROVE  \E S, C : Retires(Closer, S, "CLOSING", C)
<1> DEFINE S == {s \in Sessions : state[s] = "ACTIVE"}
           C == {s \in Live : Schedulable(s, in_flight[s])}
<1>1. /\ Revoke(S, "CLOSING") /\ Schedule(Closer, C) /\ ~shutdown /\ shutdown' = TRUE
      /\ toNotify' = [toNotify EXCEPT ![Closer] = Live]
      /\ UNCHANGED <<snapshot, overlay, in_flight, listeners_completed, create, pc, on, doing, at>>
  BY DEF Shutdown, captureVars, callVars, stepVars
<1>2. \A s \in C : /\ s \in Sessions /\ in_flight[s] = 0 /\ ~cleanup_started[s]
                   /\ state[s] # "absent" /\ (state[s] = "ACTIVE" => s \in S)
  BY DEF Live, Schedulable
<1>3. \A u \in Workers, s \in Sessions : Leases(u, s)' => Leases(u, s)
  BY <1>1 DEF Leases
<1>4. Closer \in Threads /\ doing[Closer] # "notify"
  BY <1>1 DEF Threads, SafetyInv, DutiesConsistent
<1>5. Live \in SUBSET Sessions /\ \A s \in Live : state[s] # "absent" /\ (state[s] = "ACTIVE" => s \in S)
  BY DEF Live
<1>6. Retires(Closer, S, "CLOSING", C)
  <2>1. S \in SUBSET {s \in Sessions : state[s] = "ACTIVE"}
    OBVIOUS
  <2> HIDE DEF S, C
  <2>2. C \in SUBSET Sessions
    BY <1>2
  <2>3. \E N \in SUBSET Sessions :
          /\ toNotify' = [toNotify EXCEPT ![Closer] = N] /\ doing[Closer] # "notify"
          /\ (UNCHANGED shutdown /\ Closer # Closer) \/ shutdown'
          /\ \A s \in N : state[s] # "absent" /\ (state[s] = "ACTIVE" => s \in S)
    BY <1>1, <1>4, <1>5
  <2>4. QED
    BY <1>1, <1>2, <1>3, <1>4, <2>1, <2>2, <2>3, RevokeRetires
<1>7. QED
  BY <1>6

LEMMA InsertSafe ==
  ASSUME BaseInv, SafetyInv, NEW s \in Sessions, InsertSession(s)
  PROVE  SafetyInv'
<1>1. /\ state' = [state EXCEPT ![s] = "ACTIVE"] /\ token' = [token EXCEPT ![s] = TRUE]
      /\ snapshot' = [snapshot EXCEPT ![s] = TRUE] /\ overlay' = [overlay EXCEPT ![s] = TRUE]
      /\ create' = [create EXCEPT ![s] = "opened"]
      /\ UNCHANGED <<cancelled, in_flight, cleanup_started, listeners_completed, pc, on,
                     toNotify, toClean, doing, at, shutdown>>
  BY DEF InsertSession, callVars, dutyVars, stepVars, envVars
<1>2. state[s] = "absent" /\ ~cancelled[s] /\ ~cleanup_started[s]
  BY DEF InsertSession, SafetyInv, StatesConsistent
<1>3. /\ \A t \in Threads : s \notin toNotify[t] /\ s \notin toClean[t]
      /\ \A t \in Workers : ~Leases(t, s)
  BY <1>2 DEF SafetyInv, DutiesConsistent, LeaseKeepsSession, Revoked
<1>4. StatesConsistent'
  BY <1>1, <1>2 DEF SafetyInv, StatesConsistent, BaseInv, SessionTypes, CaptureTypes
<1>5. CallsOnSessions'
  BY <1>1 DEF SafetyInv, CallsOnSessions, BaseInv, SessionTypes
<1>6. DutiesConsistent'
  BY <1>1, <1>3 DEF SafetyInv, DutiesConsistent, EraseComplete, Revoked, Leases, BaseInv, SessionTypes, ThreadTypes
<1>7. LeaseKeepsSession'
  BY <1>1, <1>3 DEF SafetyInv, LeaseKeepsSession, Leases, BaseInv, SessionTypes
<1>8. CleanupHasOneOwner'
  BY <1>1, <1>2 DEF SafetyInv, CleanupHasOneOwner, BaseInv, SessionTypes
<1>9. ErasedBeforeRemoved' /\ EraseAfterCancel'
  BY <1>1 DEF SafetyInv, ErasedBeforeRemoved, EraseAfterCancel, Notifying, BaseInv, SessionTypes
<1>10. QED
  BY <1>4, <1>5, <1>6, <1>7, <1>8, <1>9 DEF SafetyInv

\* What thread t knows of the session it is cleaning.
LEMMA CleaningFacts ==
  ASSUME BaseInv, SafetyInv, NEW t \in Threads, doing[t] \in {"erase", "remove", "finalize"}
  PROVE  /\ at[t] \in Sessions /\ at[t] \in toClean[t] /\ at[t] \in Revoked
         /\ ~token[at[t]] /\ cancelled[at[t]] /\ cleanup_started[at[t]]
         /\ \A u \in Workers : ~Leases(u, at[t])
         /\ \A u \in Threads : at[t] \in toClean[u] => u = t
<1>1. at[t] \in Sessions /\ at[t] \in toClean[t]
  BY DEF BaseInv, TargetsInv, SafetyInv, DutiesConsistent
<1>2. at[t] \in Revoked /\ \A u \in Workers : ~Leases(u, at[t])
  BY <1>1 DEF SafetyInv, DutiesConsistent
<1>3. ~token[at[t]] /\ cancelled[at[t]]
  BY <1>1, <1>2 DEF SafetyInv, StatesConsistent, Revoked
<1>4. cleanup_started[at[t]] /\ \A u \in Threads : at[t] \in toClean[u] => u = t
  BY <1>1 DEF SafetyInv, CleanupHasOneOwner
<1>5. QED
  BY <1>1, <1>2, <1>3, <1>4

LEMMA BeginNotifySafe ==
  ASSUME BaseInv, SafetyInv, NEW t \in Threads, NEW s \in Sessions, BeginNotify(t, s)
  PROVE  SafetyInv'
<1>1. /\ doing[t] = "none" /\ at' = [at EXCEPT ![t] = s]
      /\ \/ s \in toNotify[t] /\ doing' = [doing EXCEPT ![t] = "notify"]
         \/ s \in toClean[t] /\ doing' = [doing EXCEPT ![t] = "erase"]
      /\ UNCHANGED <<state, token, cancelled, snapshot, overlay, in_flight, cleanup_started,
                     listeners_completed, create, pc, on, toNotify, toClean, shutdown>>
  BY DEF BeginNotify, sessionVars, captureVars, callVars, dutyVars, envVars
<1>2. DutiesConsistent'
  BY <1>1 DEF SafetyInv, DutiesConsistent, Revoked, Leases, EraseComplete, BaseInv, ThreadTypes
<1>3. EraseAfterCancel'
  <2>1. cancelled[s]
    BY <1>1 DEF SafetyInv, DutiesConsistent, StatesConsistent, Revoked
  <2>2. QED
    BY <1>1, <2>1 DEF SafetyInv, EraseAfterCancel, Notifying, BaseInv, ThreadTypes
<1>4. StatesConsistent' /\ CallsOnSessions'
  BY <1>1 DEF SafetyInv, StatesConsistent, CallsOnSessions
<1>5. LeaseKeepsSession' /\ CleanupHasOneOwner' /\ ErasedBeforeRemoved'
  BY <1>1 DEF SafetyInv, LeaseKeepsSession, Leases, CleanupHasOneOwner, ErasedBeforeRemoved
<1>6. QED
  BY <1>2, <1>3, <1>4, <1>5 DEF SafetyInv

LEMMA RunListenerSafe ==
  ASSUME BaseInv, SafetyInv, NEW t \in Threads, NEW l \in Listeners, RunListener(t, l)
  PROVE  SafetyInv'
<1>1. /\ \/ listeners_completed' = [listeners_completed EXCEPT ![at[t]] = @ \cup {l}]
         \/ UNCHANGED listeners_completed
      /\ at[t] \in Sessions
      /\ UNCHANGED <<state, token, cancelled, snapshot, overlay, in_flight, cleanup_started,
                     create, pc, on, toNotify, toClean, doing, at, shutdown>>
  BY DEF RunListener, captureVars, callVars, dutyVars, BaseInv, TargetsInv
<1>2. \A s \in Sessions : listeners_completed[s] = Listeners => listeners_completed'[s] = Listeners
  BY <1>1 DEF BaseInv, SessionTypes
<1>3. DutiesConsistent'
  <2>1. \A u \in Threads : doing[u] # "none" => at[u] \in Sessions
    BY DEF BaseInv, TargetsInv
  <2>2. QED
    BY <1>1, <1>2, <2>1 DEF SafetyInv, DutiesConsistent, Revoked, Leases, EraseComplete
<1>4. ErasedBeforeRemoved'
  BY <1>1, <1>2 DEF SafetyInv, ErasedBeforeRemoved
<1>5. StatesConsistent' /\ CallsOnSessions' /\ EraseAfterCancel'
  BY <1>1 DEF SafetyInv, StatesConsistent, CallsOnSessions, EraseAfterCancel, Notifying
<1>6. LeaseKeepsSession' /\ CleanupHasOneOwner'
  BY <1>1 DEF SafetyInv, LeaseKeepsSession, Leases, CleanupHasOneOwner
<1>7. QED
  BY <1>3, <1>4, <1>5, <1>6 DEF SafetyInv

\* A failed cleanup gives the session back.
LEMMA CleanupFailsSafe ==
  ASSUME BaseInv, SafetyInv, NEW t \in Threads, doing[t] \in {"erase", "remove"},
         CleanupFails(t, at[t]),
         UNCHANGED <<state, token, cancelled, snapshot, overlay, in_flight, listeners_completed,
                     create, pc, on, toNotify, shutdown>>
  PROVE  SafetyInv'
<1>1. /\ cleanup_started' = [cleanup_started EXCEPT ![at[t]] = FALSE]
      /\ toClean' = [toClean EXCEPT ![t] = @ \ {at[t]}]
      /\ doing' = [doing EXCEPT ![t] = "none"] /\ at' = [at EXCEPT ![t] = NoSession]
  BY DEF CleanupFails, StepDone
<1>2. /\ at[t] \in Sessions /\ at[t] \in Revoked
      /\ \A u \in Threads : at[t] \in toClean[u] => u = t
  BY CleaningFacts
<1>3. StatesConsistent'
  BY <1>1, <1>2 DEF SafetyInv, StatesConsistent, Revoked, BaseInv, SessionTypes
<1>4. DutiesConsistent'
  BY <1>1 DEF SafetyInv, DutiesConsistent, Revoked, Leases, EraseComplete, BaseInv, ThreadTypes
<1>5. CleanupHasOneOwner'
  BY <1>1, <1>2 DEF SafetyInv, CleanupHasOneOwner, BaseInv, SessionTypes, ThreadTypes
<1>6. CallsOnSessions' /\ LeaseKeepsSession' /\ ErasedBeforeRemoved'
  BY DEF SafetyInv, CallsOnSessions, LeaseKeepsSession, Leases, ErasedBeforeRemoved
<1>7. EraseAfterCancel'
  BY <1>1 DEF SafetyInv, EraseAfterCancel, Notifying, BaseInv, ThreadTypes
<1>8. QED
  BY <1>3, <1>4, <1>5, <1>6, <1>7 DEF SafetyInv

LEMMA EndNotifySafe ==
  ASSUME BaseInv, SafetyInv, NEW t \in Threads, EndNotify(t)
  PROVE  SafetyInv'
<1>0. UNCHANGED <<state, token, cancelled, snapshot, overlay, in_flight, listeners_completed,
                  create, pc, on, shutdown>>
  BY DEF EndNotify, captureVars, callVars, envVars
<1>1. CASE doing[t] = "erase" /\ ~EraseComplete(at[t])
  BY <1>0, <1>1, CleanupFailsSafe DEF EndNotify
<1>2. CASE ~(doing[t] = "erase" /\ ~EraseComplete(at[t]))
  <2>1. /\ UNCHANGED <<cleanup_started, toClean>>
        /\ \/ /\ doing[t] = "notify" /\ toNotify' = [toNotify EXCEPT ![t] = @ \ {at[t]}]
              /\ doing' = [doing EXCEPT ![t] = "none"] /\ at' = [at EXCEPT ![t] = NoSession]
           \/ /\ doing[t] = "erase" /\ EraseComplete(at[t])
              /\ doing' = [doing EXCEPT ![t] = "remove"] /\ UNCHANGED <<toNotify, at>>
    BY <1>2 DEF EndNotify, StepDone, dutyVars
  <2>2. DutiesConsistent'
    <3>1. ASSUME doing[t] = "notify", toNotify' = [toNotify EXCEPT ![t] = @ \ {at[t]}],
                 doing' = [doing EXCEPT ![t] = "none"], at' = [at EXCEPT ![t] = NoSession]
          PROVE  DutiesConsistent'
      BY <1>0, <2>1, <3>1 DEF SafetyInv, DutiesConsistent, Revoked, Leases, EraseComplete,
         BaseInv, ThreadTypes
    <3>2. ASSUME doing[t] = "erase", EraseComplete(at[t]),
                 doing' = [doing EXCEPT ![t] = "remove"], UNCHANGED <<toNotify, at>>
          PROVE  DutiesConsistent'
      BY <1>0, <2>1, <3>2 DEF SafetyInv, DutiesConsistent, Revoked, Leases, EraseComplete,
         BaseInv, ThreadTypes
    <3>3. QED
      BY <2>1, <3>1, <3>2
  <2>3. EraseAfterCancel'
    BY <1>0, <2>1 DEF SafetyInv, EraseAfterCancel, Notifying, BaseInv, ThreadTypes
  <2>4. StatesConsistent' /\ CallsOnSessions' /\ CleanupHasOneOwner'
    BY <1>0, <2>1 DEF SafetyInv, StatesConsistent, CallsOnSessions, CleanupHasOneOwner
  <2>5. LeaseKeepsSession' /\ ErasedBeforeRemoved'
    BY <1>0 DEF SafetyInv, LeaseKeepsSession, Leases, ErasedBeforeRemoved
  <2>6. QED
    BY <2>2, <2>3, <2>4, <2>5 DEF SafetyInv
<1>3. QED
  BY <1>1, <1>2

LEMMA RemoveOverlaySafe ==
  ASSUME BaseInv, SafetyInv, NEW t \in Threads, RemoveOverlay(t)
  PROVE  SafetyInv'
<1>0. UNCHANGED <<state, token, cancelled, snapshot, in_flight, listeners_completed,
                  create, pc, on, toNotify, shutdown>> /\ doing[t] = "remove"
  BY DEF RemoveOverlay, captureVars, callVars
<1>1. CASE CleanupFails(t, at[t]) /\ UNCHANGED overlay
  BY <1>0, <1>1, CleanupFailsSafe
<1>2. CASE ~(CleanupFails(t, at[t]) /\ UNCHANGED overlay)
  <2>1. /\ overlay' = [overlay EXCEPT ![at[t]] = FALSE]
        /\ doing' = [doing EXCEPT ![t] = "finalize"] /\ UNCHANGED <<cleanup_started, toClean, at>>
    BY <1>2 DEF RemoveOverlay
  <2>2. /\ at[t] \in Sessions /\ at[t] \in Revoked /\ ~token[at[t]] /\ cancelled[at[t]]
        /\ \A u \in Workers : ~Leases(u, at[t])
    BY <1>0, CleaningFacts
  <2>3. listeners_completed[at[t]] = Listeners
    BY <1>0 DEF SafetyInv, DutiesConsistent, EraseComplete
  <2>4. DutiesConsistent'
    BY <1>0, <2>1 DEF SafetyInv, DutiesConsistent, Revoked, Leases, EraseComplete, BaseInv, ThreadTypes
  <2>5. StatesConsistent'
    BY <1>0, <2>1, <2>2 DEF SafetyInv, StatesConsistent, Revoked, BaseInv, SessionTypes
  <2>6. LeaseKeepsSession'
    BY <1>0, <2>1, <2>2 DEF SafetyInv, LeaseKeepsSession, Leases, BaseInv, SessionTypes
  <2>7. ErasedBeforeRemoved'
    BY <1>0, <2>1, <2>2, <2>3 DEF SafetyInv, ErasedBeforeRemoved, BaseInv, SessionTypes
  <2>8. CallsOnSessions' /\ CleanupHasOneOwner'
    BY <1>0, <2>1 DEF SafetyInv, CallsOnSessions, CleanupHasOneOwner
  <2>9. EraseAfterCancel'
    BY <1>0, <2>1 DEF SafetyInv, EraseAfterCancel, Notifying, BaseInv, ThreadTypes
  <2>10. QED
    BY <2>4, <2>5, <2>6, <2>7, <2>8, <2>9 DEF SafetyInv
<1>3. QED
  BY <1>1, <1>2

LEMMA FinalizeSafe ==
  ASSUME BaseInv, SafetyInv, NEW t \in Threads, FinalizeSession(t)
  PROVE  SafetyInv'
<1>1. /\ doing[t] = "finalize"
      /\ state' = [state EXCEPT ![at[t]] = "CLOSED"]
      /\ snapshot' = [snapshot EXCEPT ![at[t]] = FALSE]
      /\ toClean' = [toClean EXCEPT ![t] = @ \ {at[t]}]
      /\ doing' = [doing EXCEPT ![t] = "none"] /\ at' = [at EXCEPT ![t] = NoSession]
      /\ UNCHANGED <<token, cancelled, overlay, in_flight, cleanup_started, listeners_completed,
                     create, pc, on, toNotify, shutdown>>
  BY DEF FinalizeSession, StepDone, captureVars, callVars, envVars
<1>2. /\ at[t] \in Sessions /\ at[t] \in Revoked /\ ~token[at[t]] /\ cancelled[at[t]]
      /\ cleanup_started[at[t]] /\ \A u \in Workers : ~Leases(u, at[t])
      /\ \A u \in Threads : at[t] \in toClean[u] => u = t
  BY <1>1, CleaningFacts
<1>3. state[at[t]] # "absent"
  BY <1>2 DEF Revoked
<1>4. StatesConsistent'
  BY <1>1, <1>2, <1>3 DEF SafetyInv, StatesConsistent, BaseInv, SessionTypes
<1>5. CallsOnSessions'
  BY <1>1 DEF SafetyInv, CallsOnSessions, BaseInv, SessionTypes
<1>6. DutiesConsistent'
  BY <1>1, <1>2 DEF SafetyInv, DutiesConsistent, Revoked, Leases, EraseComplete, BaseInv, SessionTypes, ThreadTypes
<1>7. LeaseKeepsSession'
  BY <1>1, <1>2 DEF SafetyInv, LeaseKeepsSession, Leases, BaseInv, SessionTypes
<1>8. CleanupHasOneOwner'
  BY <1>1, <1>2 DEF SafetyInv, CleanupHasOneOwner, BaseInv, SessionTypes, ThreadTypes
<1>9. ErasedBeforeRemoved'
  BY <1>1, <1>3 DEF SafetyInv, ErasedBeforeRemoved, BaseInv, SessionTypes
<1>10. EraseAfterCancel'
  BY <1>1 DEF SafetyInv, EraseAfterCancel, Notifying, BaseInv, ThreadTypes
<1>11. QED
  BY <1>4, <1>5, <1>6, <1>7, <1>8, <1>9, <1>10 DEF SafetyInv

\* Every step that neither inserts a session nor works off a duty is a Retires
\* step, and keeps the running calls on sessions that were opened.
LEMMA NextRetires ==
  ASSUME BaseInv, BaseInv', NobodyAtZero, SafetyInv, [Next]_vars,
         ~\E s \in Sessions : InsertSession(s), ~\E t \in Threads : DutyStep(t)
  PROVE  CallsOnSessions' /\ \E t \in Threads : \E S, reason, C : Retires(t, S, reason, C)
<1>0. ASSUME NEW t \in Threads, NEW S, NEW reason, NEW C, Retires(t, S, reason, C),
             UNCHANGED callVars \/ (pc[t] # "idle" /\ \E point \in Points : GoTo(t, point))
      PROVE  CallsOnSessions' /\ \E u \in Threads : \E X, r, D : Retires(u, X, r, D)
  BY <1>0, RetiresCalls
<1>1. ASSUME NEW s \in Sessions, CreateSession(s)
      PROVE  CallsOnSessions' /\ \E u \in Threads : \E X, r, D : Retires(u, X, r, D)
  <2>1. ReserveCapture(s) \/ Capture(s) \/ AbandonCapture(s)
    BY <1>1 DEF CreateSession
  <2>2. /\ UNCHANGED <<sessionVars, callVars, dutyVars, stepVars, envVars>>
        /\ \A x \in Sessions : (create'[x] = "opened") = (create[x] = "opened")
    BY <2>1 DEF ReserveCapture, Capture, AbandonCapture, BaseInv, CaptureTypes
  <2>3. Retires(Closer, {}, "CLOSING", {}) /\ Closer \in Threads
    BY <2>2, QuietRetires DEF sessionVars, callVars, stepVars, envVars, Leases, Threads
  <2>4. QED
    BY <1>0, <2>2, <2>3
<1>2. ASSUME NEW t \in Workers, NEW s \in Sessions, NEW next \in {"check1", "close", "idle"},
             Authenticate(t, s, next)
      PROVE  CallsOnSessions' /\ \E u \in Threads : \E X, r, D : Retires(u, X, r, D)
  <2>0. t \in Threads /\ UNCHANGED <<create, doing, at, shutdown>>
    BY <1>2 DEF Threads, Authenticate, captureVars, stepVars, envVars
  <2>1. CASE Expire(t, s) /\ UNCHANGED callVars
    <3>1. \A u \in Workers, x \in Sessions : Leases(u, x)' => Leases(u, x)
      BY <2>1 DEF callVars, Leases
    <3>2. \E C : Retires(t, {s}, "EXPIRED", C)
      BY <2>0, <2>1, <3>1, ExpireRetires
    <3>3. QED
      BY <1>0, <2>0, <2>1, <3>2
  <2>2. CASE ~(Expire(t, s) /\ UNCHANGED callVars)
    <3>1. /\ UNCHANGED <<sessionVars, dutyVars>>
          /\ pc' = [pc EXCEPT ![t] = next] /\ on' = [on EXCEPT ![t] = s] /\ state[s] = "ACTIVE"
      BY <1>2, <2>2 DEF Authenticate
    <3>2. \A u \in Workers, x \in Sessions : Leases(u, x)' => Leases(u, x)
      BY <2>0, <3>1 DEF Leases, LeasePoints, BaseInv, ThreadTypes, Threads
    <3>3. Retires(t, {}, "CLOSING", {})
      BY <2>0, <3>1, <3>2, QuietRetires DEF sessionVars
    <3>4. CallsOnSessions'
      BY <2>0, <3>1 DEF SafetyInv, CallsOnSessions, BaseInv, ThreadTypes, sessionVars
    <3>5. QED
      BY <2>0, <3>3, <3>4
  <2>3. QED
    BY <2>1, <2>2
<1>3. ASSUME NEW t \in Workers, CallStep(t)
      PROVE  CallsOnSessions' /\ \E u \in Threads : \E X, r, D : Retires(u, X, r, D)
  <2>1. \E S, reason, C : Retires(t, S, reason, C)
    BY <1>3, CallRetires
  <2>2. t \in Threads /\ pc[t] # "idle" /\ \E point \in Points : GoTo(t, point)
    BY <1>3 DEF CallStep, CheckBeforeAdmission, Admit, CheckAfterAdmission, Activate, EndBody,
       CheckAfterBody, ExitOperation, Close, RevokeStale, Release, At, Threads, Points, LeasePoints
  <2>3. QED
    BY <1>0, <2>1, <2>2
<1>4. CASE SweepExpired
  <2>1. \E S, C : Retires(Reaper, S, "EXPIRED", C)
    BY <1>4, SweepRetires
  <2>2. Reaper \in Threads /\ UNCHANGED callVars
    BY <1>4 DEF SweepExpired, Threads
  <2>3. QED
    BY <1>0, <2>1, <2>2
<1>5. CASE Shutdown
  <2>1. \E S, C : Retires(Closer, S, "CLOSING", C)
    BY <1>5, ShutdownRetires
  <2>2. Closer \in Threads /\ UNCHANGED callVars
    BY <1>5 DEF Shutdown, Threads
  <2>3. QED
    BY <1>0, <2>1, <2>2
<1>6. CASE \/ StopReaper \/ Tick \/ UNCHANGED vars
           \/ \E n \in Tenants, r \in Revisions : ContextChanges(n, r)
  <2>1. /\ UNCHANGED <<state, token, cancelled, snapshot, overlay, in_flight, cleanup_started,
                       listeners_completed, create, callVars, dutyVars, doing, at, shutdown>>
    BY <1>6 DEF StopReaper, Tick, ContextChanges, vars, sessionVars, captureVars, stepVars, envVars
  <2>2. Retires(Closer, {}, "CLOSING", {}) /\ Closer \in Threads
    BY <2>1, QuietRetires DEF callVars, Leases, Threads
  <2>3. QED
    BY <1>0, <2>1, <2>2
<1>7. QED
  BY <1>1, <1>2, <1>3, <1>4, <1>5, <1>6 DEF Next

LEMMA SafetyStep ==
  ASSUME BaseInv, BaseInv', NobodyAtZero, NobodyAtZero', SafetyInv, [Next]_vars
  PROVE  SafetyInv'
<1>1. ASSUME NEW s \in Sessions, InsertSession(s) PROVE SafetyInv'
  BY <1>1, InsertSafe
<1>2. ASSUME NEW t \in Threads, DutyStep(t) PROVE SafetyInv'
  BY <1>2, BeginNotifySafe, RunListenerSafe, EndNotifySafe, RemoveOverlaySafe, FinalizeSafe DEF DutyStep
<1>3. CASE ~(\E s \in Sessions : InsertSession(s)) /\ ~(\E t \in Threads : DutyStep(t))
  BY <1>3, NextRetires, RetiresSafe
<1>4. QED
  BY <1>1, <1>2, <1>3

\* The safety of leases and cleanups, for every number of sessions, threads,
\* listeners and failures: the inductive invariant behind the next theorems.
THEOREM SessionSafety == Spec => []SafetyInv
<1>1. Init => SafetyInv
  BY SafetyInit
<1>2. InFlightExact => NobodyAtZero
  BY ZeroMeansNobody
<1>3. BaseInv /\ BaseInv' /\ NobodyAtZero /\ NobodyAtZero' /\ SafetyInv /\ [Next]_vars => SafetyInv'
  BY SafetyStep
<1>4. QED
  BY <1>1, <1>2, <1>3, BaseInvariant, InFlightIsExact, PTL DEF Spec

\* A session that an operation holds keeps its snapshot and its overlay.
THEOREM LeasesKeepSessions == Spec => []LeaseKeepsSession
<1>1. SafetyInv => LeaseKeepsSession
  BY DEF SafetyInv
<1>2. QED
  BY <1>1, SessionSafety, PTL

\* A cleanup has exactly one owner until it is given back or the session is CLOSED.
THEOREM CleanupsHaveOneOwner == Spec => []CleanupHasOneOwner
<1>1. SafetyInv => CleanupHasOneOwner
  BY DEF SafetyInv
<1>2. QED
  BY <1>1, SessionSafety, PTL

\* No overlay is removed before every eraser has succeeded, and no eraser runs
\* before the session was cancelled.
THEOREM ErasureIsOrdered == Spec => [](ErasedBeforeRemoved /\ EraseAfterCancel)
<1>1. SafetyInv => ErasedBeforeRemoved /\ EraseAfterCancel
  BY DEF SafetyInv
<1>2. QED
  BY <1>1, SessionSafety, PTL

LEMMA FinalStep ==
  ASSUME BaseInv, BaseInv', NobodyAtZero, SafetyInv, SafetyInv', [Next]_vars, NEW s \in Sessions
  PROVE  /\ state[s] \in {"EXPIRED", "STALE", "CLOSING", "CLOSED"} =>
              state'[s] \in {state[s], "CLOSED"} /\ ~token'[s] /\ cancelled'[s]
         /\ state[s] = "ACTIVE" /\ state'[s] = "EXPIRED" =>
              \A t \in Workers : ~Leases(t, s)
<1>1. state'[s] \in {"EXPIRED", "STALE", "CLOSING", "CLOSED"} => ~token'[s] /\ cancelled'[s]
  BY DEF SafetyInv, StatesConsistent
<1>2. CASE \E x \in Sessions : InsertSession(x)
  <2> PICK x \in Sessions : InsertSession(x)
    BY <1>2
  <2>1. state' = [state EXCEPT ![x] = "ACTIVE"] /\ state[x] = "absent"
    BY DEF InsertSession, SafetyInv, StatesConsistent
  <2>2. QED
    BY <1>1, <2>1 DEF BaseInv, SessionTypes
<1>3. CASE \E t \in Threads : DutyStep(t)
  <2>1. state'[s] \in {state[s], "CLOSED"}
    BY <1>3 DEF DutyStep, BeginNotify, RunListener, EndNotify, RemoveOverlay, FinalizeSession,
       sessionVars, BaseInv, SessionTypes
  <2>2. QED
    BY <1>1, <2>1
<1>4. CASE ~(\E x \in Sessions : InsertSession(x)) /\ ~(\E t \in Threads : DutyStep(t))
  <2> PICK t \in Threads : \E S, reason, C : Retires(t, S, reason, C)
    BY <1>4, NextRetires
  <2> PICK S, reason, C : Retires(t, S, reason, C)
    OBVIOUS
  <2>1. /\ state'[s] = (IF s \in S THEN reason ELSE state[s])
        /\ s \in S => state[s] = "ACTIVE"
        /\ reason = "EXPIRED" /\ s \in S => \A u \in Workers : ~Leases(u, s)
    BY DEF Retires
  <2>2. QED
    BY <1>1, <2>1
<1>5. QED
  BY <1>2, <1>3, <1>4

\* A revoked session never comes back, and expiry never hits a running operation.
THEOREM RevocationsAreFinal == Spec => RevocationIsFinal
<1>1. InFlightExact => NobodyAtZero
  BY ZeroMeansNobody
<1>2. BaseInv /\ BaseInv' /\ NobodyAtZero /\ SafetyInv /\ SafetyInv' /\ [Next]_vars
        => [\A s \in Sessions :
              /\ state[s] \in {"EXPIRED", "STALE", "CLOSING", "CLOSED"} =>
                   state'[s] \in {state[s], "CLOSED"} /\ ~token'[s] /\ cancelled'[s]
              /\ state[s] = "ACTIVE" /\ state'[s] = "EXPIRED" =>
                   \A t \in Workers : ~Leases(t, s)]_vars
  BY FinalStep
<1>3. QED
  BY <1>1, <1>2, BaseInvariant, InFlightIsExact, SessionSafety, PTL DEF Spec, RevocationIsFinal

\* No session is open in a manager that was shut down.
THEOREM ShutdownIsFinal == Spec => []NothingOpenAfterShutdown
<1> DEFINE NoneActive == shutdown => \A s \in Sessions : state[s] # "ACTIVE"
<1>1. Init => NoneActive
  BY DEF Init
<1>2. ASSUME BaseInv, BaseInv', NobodyAtZero, SafetyInv, NoneActive, [Next]_vars
      PROVE  NoneActive'
  <2>1. CASE \E x \in Sessions : InsertSession(x)
    BY <2>1 DEF InsertSession, StillAccepting, envVars
  <2>2. CASE Shutdown
    <3>1. \A s \in Sessions : state'[s] # "ACTIVE"
      BY <2>2 DEF Shutdown, Revoke
    <3>2. QED
      BY <3>1
  <2>3. CASE ~Shutdown /\ ~(\E x \in Sessions : InsertSession(x))
    <3>1. UNCHANGED shutdown
      BY <1>2, <2>3 DEF Next, CreateSession, ReserveCapture, Capture, AbandonCapture, Authenticate,
         CallStep, CheckBeforeAdmission, Admit, CheckAfterAdmission, Activate, EndBody,
         CheckAfterBody, ExitOperation, Close, DutyStep, BeginNotify, RunListener, EndNotify,
         RemoveOverlay, FinalizeSession, SweepExpired, StopReaper, Tick, ContextChanges, vars, envVars
    <3>2. ASSUME NEW s \in Sessions PROVE state'[s] = "ACTIVE" => state[s] = "ACTIVE"
      <4>1. CASE \E t \in Threads : DutyStep(t)
        BY <1>2, <4>1 DEF DutyStep, BeginNotify, RunListener, EndNotify, RemoveOverlay, FinalizeSession,
           sessionVars, BaseInv, SessionTypes
      <4>2. CASE ~\E t \in Threads : DutyStep(t)
        <5> PICK t \in Threads : \E S, reason, C : Retires(t, S, reason, C)
          BY <1>2, <2>3, <4>2, NextRetires
        <5> PICK S, reason, C : Retires(t, S, reason, C)
          OBVIOUS
        <5>1. state'[s] = (IF s \in S THEN reason ELSE state[s]) /\ reason # "ACTIVE"
          BY DEF Retires
        <5>2. QED
          BY <5>1
      <4>3. QED
        BY <4>1, <4>2
    <3>3. QED
      BY <1>2, <3>1, <3>2
  <2>4. QED
    BY <2>1, <2>2, <2>3
<1>3. InFlightExact => NobodyAtZero
  BY ZeroMeansNobody
<1>4. NoneActive /\ SafetyInv => NothingOpenAfterShutdown
  BY DEF NothingOpenAfterShutdown, SafetyInv, StatesConsistent
<1>5. QED
  BY <1>1, <1>2, <1>3, <1>4, BaseInvariant, InFlightIsExact, SessionSafety, PTL DEF Spec

-----------------------------------------------------------------------------
(* The rosters of pending captures and the limits.                         *)

\* The sets that the rosters count: by client c (1), by tenant n (2) or all (0).
InRoster(s, kind, k) ==
  CASE kind = 1 -> ClientOf[s] = k [] kind = 2 -> TenantOf[s] = k [] OTHER -> TRUE
ReservingOf(kind, k) == {s \in Reserving : InRoster(s, kind, k)}
LiveOf(kind, k) == {s \in Live : InRoster(s, kind, k)}
PendingOf(kind, k) ==
  CASE kind = 1 -> pending_by_client[k] [] kind = 2 -> pending_by_tenant[k] [] OTHER -> pending_total
LimitOf(kind) == CASE kind = 1 -> ClientLimit [] kind = 2 -> TenantLimit [] OTHER -> GlobalLimit
Keys(kind) == CASE kind = 1 -> Clients [] kind = 2 -> Tenants [] OTHER -> {0}

RosterInv == \A kind \in 0..2 : \A k \in Keys(kind) :
               PendingOf(kind, k) = Cardinality(ReservingOf(kind, k))

LEMMA RosterIsReservations == RosterInv <=> ReservationsExact
<1>1. PendingOf(0, 0) = Cardinality(ReservingOf(0, 0)) <=> pending_total = Cardinality(Reserving)
  <2>1. ReservingOf(0, 0) = Reserving
    BY DEF ReservingOf, InRoster
  <2>2. QED
    BY <2>1 DEF PendingOf
<1>2. ASSUME NEW c PROVE PendingOf(1, c) = Cardinality(ReservingOf(1, c))
        <=> pending_by_client[c] = Cardinality({s \in Reserving : ClientOf[s] = c})
  BY DEF PendingOf, ReservingOf, InRoster
<1>3. ASSUME NEW n PROVE PendingOf(2, n) = Cardinality(ReservingOf(2, n))
        <=> pending_by_tenant[n] = Cardinality({s \in Reserving : TenantOf[s] = n})
  <2>1. ReservingOf(2, n) = {s \in Reserving : TenantOf[s] = n}
    BY DEF ReservingOf, InRoster
  <2>2. QED
    BY <2>1 DEF PendingOf
<1>4. Keys(0) = {0} /\ Keys(1) = Clients /\ Keys(2) = Tenants /\ 0..2 = {0, 1, 2}
  BY DEF Keys
<1>5. RosterInv <=> /\ PendingOf(0, 0) = Cardinality(ReservingOf(0, 0))
                    /\ \A c \in Clients : PendingOf(1, c) = Cardinality(ReservingOf(1, c))
                    /\ \A n \in Tenants : PendingOf(2, n) = Cardinality(ReservingOf(2, n))
  BY <1>4 DEF RosterInv
<1>6. QED
  BY <1>1, <1>2, <1>3, <1>5 DEF ReservationsExact

LEMMA RostersFinite ==
  ASSUME NEW kind, NEW k
  PROVE  /\ IsFiniteSet(ReservingOf(kind, k)) /\ Cardinality(ReservingOf(kind, k)) \in Nat
         /\ IsFiniteSet(LiveOf(kind, k)) /\ Cardinality(LiveOf(kind, k)) \in Nat
<1>1. /\ ReservingOf(kind, k) \in SUBSET Sessions /\ LiveOf(kind, k) \in SUBSET Sessions
      /\ IsFiniteSet(Sessions)
  BY SessionsAssumption DEF ReservingOf, LiveOf, Reserving, Live
<1>2. IsFiniteSet(ReservingOf(kind, k)) /\ IsFiniteSet(LiveOf(kind, k))
  BY <1>1, FS_Subset
<1>3. QED
  BY <1>2, FS_CardinalityType

\* What AddPending does to a roster.
LEMMA AddPendingRoster ==
  ASSUME BaseInv, NEW s \in Sessions, NEW n \in Int, AddPending(s, n),
         NEW kind \in 0..2, NEW k \in Keys(kind)
  PROVE  PendingOf(kind, k)' =
           (IF InRoster(s, kind, k) THEN PendingOf(kind, k) + n ELSE PendingOf(kind, k))
<1>1. CASE kind = 0
  BY <1>1 DEF AddPending, PendingOf, InRoster
<1>2. CASE kind = 1
  BY <1>2 DEF AddPending, PendingOf, InRoster, Keys, Clients, BaseInv, CaptureTypes
<1>3. CASE kind = 2
  <2>1. k \in Tenants /\ pending_by_tenant' = [pending_by_tenant EXCEPT ![TenantOf[s]] = @ + n]
    BY <1>3 DEF AddPending, Keys
  <2>2. pending_by_tenant'[k] =
          (IF TenantOf[s] = k THEN pending_by_tenant[k] + n ELSE pending_by_tenant[k])
    BY <2>1 DEF BaseInv, CaptureTypes
  <2>3. QED
    BY <1>3, <2>2 DEF PendingOf, InRoster
<1>4. QED
  BY <1>1, <1>2, <1>3

LEMMA RosterStep ==
  ASSUME BaseInv, RosterInv, [Next]_vars
  PROVE  RosterInv'
<1> SUFFICES ASSUME NEW kind \in 0..2, NEW k \in Keys(kind)
             PROVE  PendingOf(kind, k)' = Cardinality(ReservingOf(kind, k)')
  BY DEF RosterInv, Keys
<1>0. PendingOf(kind, k) = Cardinality(ReservingOf(kind, k))
  BY DEF RosterInv
<1>f. IsFiniteSet(ReservingOf(kind, k)) /\ Cardinality(ReservingOf(kind, k)) \in Nat
  BY RostersFinite
<1>1. ASSUME NEW s \in Sessions, ReserveCapture(s)
      PROVE  PendingOf(kind, k)' = Cardinality(ReservingOf(kind, k)')
  <2>1. create[s] = "none" /\ create' = [create EXCEPT ![s] = "reserved"] /\ AddPending(s, 1)
    BY <1>1 DEF ReserveCapture
  <2>2. s \notin ReservingOf(kind, k)
    BY <2>1 DEF ReservingOf, Reserving
  <2>3. ReservingOf(kind, k)' =
          (IF InRoster(s, kind, k) THEN ReservingOf(kind, k) \cup {s} ELSE ReservingOf(kind, k))
    BY <2>1 DEF ReservingOf, Reserving, InRoster, BaseInv, CaptureTypes
  <2>4. Cardinality(ReservingOf(kind, k) \cup {s}) = Cardinality(ReservingOf(kind, k)) + 1
    BY <1>f, <2>2, FS_AddElement
  <2>5. QED
    BY <1>0, <2>1, <2>3, <2>4, AddPendingRoster
<1>2. ASSUME NEW s \in Sessions, AbandonCapture(s) \/ InsertSession(s)
      PROVE  PendingOf(kind, k)' = Cardinality(ReservingOf(kind, k)')
  <2>1. /\ create[s] \in {"reserved", "captured"} /\ AddPending(s, -1)
        /\ \E c \in {"none", "opened"} : create' = [create EXCEPT ![s] = c]
    BY <1>2 DEF AbandonCapture, InsertSession
  <2>2. InRoster(s, kind, k) => s \in ReservingOf(kind, k)
    BY <2>1 DEF ReservingOf, Reserving
  <2>3. ReservingOf(kind, k)' =
          (IF InRoster(s, kind, k) THEN ReservingOf(kind, k) \ {s} ELSE ReservingOf(kind, k))
    BY <2>1 DEF ReservingOf, Reserving, InRoster, BaseInv, CaptureTypes
  <2>4. s \in ReservingOf(kind, k) =>
          Cardinality(ReservingOf(kind, k) \ {s}) = Cardinality(ReservingOf(kind, k)) - 1
    BY <1>f, FS_RemoveElement
  <2>5. QED
    BY <1>0, <1>f, <2>1, <2>2, <2>3, <2>4, AddPendingRoster
<1>3. ASSUME NEW s \in Sessions, Capture(s)
      PROVE  PendingOf(kind, k)' = Cardinality(ReservingOf(kind, k)')
  <2>1. /\ create[s] = "reserved" /\ create' = [create EXCEPT ![s] = "captured"]
        /\ UNCHANGED <<pending_total, pending_by_client, pending_by_tenant>>
    BY <1>3 DEF Capture
  <2>2. ReservingOf(kind, k)' = ReservingOf(kind, k)
    BY <2>1 DEF ReservingOf, Reserving, InRoster, BaseInv, CaptureTypes
  <2>3. PendingOf(kind, k)' = PendingOf(kind, k)
    BY <2>1 DEF PendingOf
  <2>4. QED
    BY <1>0, <2>2, <2>3
<1>4. CASE UNCHANGED captureVars
  <2>1. create' = create /\ PendingOf(kind, k)' = PendingOf(kind, k)
    BY <1>4 DEF captureVars, PendingOf
  <2>2. ReservingOf(kind, k)' = ReservingOf(kind, k)
    BY <2>1 DEF ReservingOf, Reserving, InRoster
  <2>3. QED
    BY <1>0, <2>1, <2>2
<1>5. CASE ~\E s \in Sessions : CreateSession(s)
  BY <1>4, <1>5 DEF Next, Authenticate, CallStep, CheckBeforeAdmission, Admit, CheckAfterAdmission,
     Activate, EndBody, CheckAfterBody, ExitOperation, Close, DutyStep, BeginNotify, RunListener,
     EndNotify, RemoveOverlay, FinalizeSession, SweepExpired, StopReaper, Shutdown, Tick,
     ContextChanges, vars
<1>6. QED
  BY <1>1, <1>2, <1>3, <1>5 DEF CreateSession

\* The rosters of pending captures count exactly the captures in progress.
THEOREM ReservationsAreExact == Spec => []ReservationsExact
<1>1. Init => RosterInv
  <2> SUFFICES ASSUME Init, NEW kind \in 0..2, NEW k \in Keys(kind)
               PROVE  PendingOf(kind, k) = Cardinality(ReservingOf(kind, k))
    BY DEF RosterInv
  <2>1. ReservingOf(kind, k) = {}
    BY DEF Init, ReservingOf, Reserving
  <2>2. PendingOf(kind, k) = 0
    <3>1. kind = 1 => k \in Clients
      BY DEF Keys
    <3>2. kind = 2 => k \in Tenants
      BY DEF Keys
    <3>3. QED
      BY <3>1, <3>2 DEF Init, PendingOf
  <2>3. QED
    BY <2>1, <2>2, FS_EmptySet
<1>2. BaseInv /\ RosterInv /\ [Next]_vars => RosterInv'
  BY RosterStep
<1>3. RosterInv => ReservationsExact
  BY RosterIsReservations
<1>4. QED
  BY <1>1, <1>2, <1>3, BaseInvariant, PTL DEF Spec

\* What the limits bound: live sessions and captures in progress.
ClaimedOf(kind, k) == LiveOf(kind, k) \cup ReservingOf(kind, k)
CapacityInv == \A kind \in 0..2 : \A k \in Keys(kind) :
                 Cardinality(ClaimedOf(kind, k)) <= LimitOf(kind)

LEMMA ClaimedFinite ==
  ASSUME NEW kind, NEW k
  PROVE  IsFiniteSet(ClaimedOf(kind, k)) /\ Cardinality(ClaimedOf(kind, k)) \in Nat
  BY RostersFinite, FS_Union, FS_CardinalityType DEF ClaimedOf

LEMMA CapacityIsRespected == CapacityInv => CapacityRespected
<1> SUFFICES ASSUME CapacityInv PROVE CapacityRespected
  OBVIOUS
<1>1. ClaimedOf(0, 0) = Live \cup Reserving
  BY DEF ClaimedOf, LiveOf, ReservingOf, InRoster
<1>2. ASSUME NEW c \in Clients
      PROVE  ClaimedOf(1, c) = {s \in Live \cup Reserving : ClientOf[s] = c}
  BY DEF ClaimedOf, LiveOf, ReservingOf, InRoster
<1>3. ASSUME NEW n \in Tenants
      PROVE  ClaimedOf(2, n) = {s \in Live \cup Reserving : TenantOf[s] = n}
  <2>1. LiveOf(2, n) = {s \in Live : TenantOf[s] = n}
        /\ ReservingOf(2, n) = {s \in Reserving : TenantOf[s] = n}
    BY DEF LiveOf, ReservingOf, InRoster
  <2>2. QED
    BY <2>1 DEF ClaimedOf
<1>4. /\ Keys(0) = {0} /\ Keys(1) = Clients /\ Keys(2) = Tenants /\ 0..2 = {0, 1, 2}
      /\ LimitOf(0) = GlobalLimit /\ LimitOf(1) = ClientLimit /\ LimitOf(2) = TenantLimit
  BY DEF Keys, LimitOf
<1>5. QED
  BY <1>1, <1>2, <1>3, <1>4 DEF CapacityInv, CapacityRespected

\* Nothing but a reservation adds to what is claimed.
LEMMA ClaimedShrinks ==
  ASSUME BaseInv, BaseInv', NobodyAtZero, SafetyInv, [Next]_vars,
         ~\E s \in Sessions : ReserveCapture(s)
  PROVE  (Live \cup Reserving)' \subseteq Live \cup Reserving
<1>1. CASE \E s \in Sessions : InsertSession(s)
  <2> PICK s \in Sessions : InsertSession(s)
    BY <1>1
  <2>1. /\ create[s] = "captured" /\ create' = [create EXCEPT ![s] = "opened"]
        /\ state' = [state EXCEPT ![s] = "ACTIVE"]
    BY DEF InsertSession
  <2>2. QED
    BY <2>1 DEF Live, Reserving, BaseInv, SessionTypes, CaptureTypes
<1>2. CASE ~\E s \in Sessions : InsertSession(s)
  <2>1. Live' \subseteq Live
    <3>1. CASE \E t \in Threads : DutyStep(t)
      <4>1. \A s \in Sessions : state'[s] \in {state[s], "CLOSED"}
        BY <3>1 DEF DutyStep, BeginNotify, RunListener, EndNotify, RemoveOverlay, FinalizeSession,
           sessionVars, BaseInv, SessionTypes
      <4>2. QED
        BY <4>1 DEF Live
    <3>2. CASE ~\E t \in Threads : DutyStep(t)
      <4> PICK t \in Threads : \E S, reason, C : Retires(t, S, reason, C)
        BY <1>2, <3>2, NextRetires
      <4> PICK S, reason, C : Retires(t, S, reason, C)
        OBVIOUS
      <4>1. \A s \in Sessions : state'[s] = (IF s \in S THEN reason ELSE state[s])
                                /\ (s \in S => state[s] = "ACTIVE")
        BY DEF Retires
      <4>2. QED
        BY <4>1 DEF Live
    <3>3. QED
      BY <3>1, <3>2
  <2>2. Reserving' \subseteq Reserving
    <3>1. CASE \E s \in Sessions : Capture(s) \/ AbandonCapture(s)
      BY <3>1 DEF Capture, AbandonCapture, Reserving, BaseInv, CaptureTypes
    <3>2. CASE UNCHANGED create
      BY <3>2 DEF Reserving
    <3>3. CASE ~\E s \in Sessions : CreateSession(s)
      <4>1. UNCHANGED create
        BY <3>3 DEF Next, Authenticate, CallStep, CheckBeforeAdmission, Admit, CheckAfterAdmission,
           Activate, EndBody, CheckAfterBody, ExitOperation, Close, DutyStep, BeginNotify,
           RunListener, EndNotify, RemoveOverlay, FinalizeSession, SweepExpired, StopReaper,
           Shutdown, Tick, ContextChanges, vars, captureVars
      <4>2. QED
        BY <3>2, <4>1
    <3>4. QED
      BY <1>2, <3>1, <3>3 DEF CreateSession
  <2>3. QED
    BY <2>1, <2>2
<1>3. QED
  BY <1>1, <1>2

LEMMA CapacityStep ==
  ASSUME BaseInv, BaseInv', NobodyAtZero, SafetyInv, RosterInv, CapacityInv, [Next]_vars
  PROVE  CapacityInv'
<1> SUFFICES ASSUME NEW kind \in 0..2, NEW k \in Keys(kind)
             PROVE  Cardinality(ClaimedOf(kind, k)') <= LimitOf(kind)
  BY DEF CapacityInv, Keys, LimitOf
<1>f. /\ IsFiniteSet(ClaimedOf(kind, k)) /\ Cardinality(ClaimedOf(kind, k)) \in Nat
      /\ LimitOf(kind) \in Nat
  BY ClaimedFinite, SessionsAssumption DEF LimitOf
<1>0. Cardinality(ClaimedOf(kind, k)) <= LimitOf(kind)
  BY DEF CapacityInv
<1>1. CASE \E s \in Sessions : ReserveCapture(s)
  <2> PICK s \in Sessions : ReserveCapture(s)
    BY <1>1
  <2>1. /\ HasCapacity(s) /\ create' = [create EXCEPT ![s] = "reserved"] /\ state' = state
        /\ create[s] = "none"
    BY DEF ReserveCapture, sessionVars
  <2>2. ClaimedOf(kind, k)' =
          (IF InRoster(s, kind, k) THEN ClaimedOf(kind, k) \cup {s} ELSE ClaimedOf(kind, k))
    <3>1. LiveOf(kind, k)' = LiveOf(kind, k)
      BY <2>1 DEF LiveOf, Live, InRoster
    <3>2. ReservingOf(kind, k)' =
            (IF InRoster(s, kind, k) THEN ReservingOf(kind, k) \cup {s} ELSE ReservingOf(kind, k))
      BY <2>1 DEF ReservingOf, Reserving, InRoster, BaseInv, CaptureTypes
    <3>3. QED
      BY <3>1, <3>2 DEF ClaimedOf
  <2>3. CASE ~InRoster(s, kind, k)
    BY <1>0, <2>2, <2>3
  <2>4. CASE InRoster(s, kind, k)
    <3>1. Cardinality(LiveOf(kind, k)) + PendingOf(kind, k) < LimitOf(kind)
      <4>1. CASE kind = 0
        <5>1. LiveOf(0, k) = Live
          BY DEF LiveOf, InRoster
        <5>2. QED
          BY <2>1, <4>1, <5>1 DEF HasCapacity, PendingOf, LimitOf
      <4>2. CASE kind = 1
        <5>1. k = ClientOf[s] /\ LiveOf(1, k) = {x \in Live : ClientOf[x] = ClientOf[s]}
          BY <2>4, <4>2 DEF LiveOf, InRoster
        <5>2. QED
          BY <2>1, <4>2, <5>1 DEF HasCapacity, PendingOf, LimitOf
      <4>3. CASE kind = 2
        <5>1. k = TenantOf[s] /\ LiveOf(2, k) = {x \in Live : TenantOf[x] = TenantOf[s]}
          BY <2>4, <4>3 DEF LiveOf, InRoster
        <5>2. PendingOf(2, k) = pending_by_tenant[k] /\ LimitOf(2) = TenantLimit
          BY DEF PendingOf, LimitOf
        <5>3. QED
          BY <2>1, <4>3, <5>1, <5>2 DEF HasCapacity
      <4>4. QED
        BY <4>1, <4>2, <4>3
    <3>2. PendingOf(kind, k) = Cardinality(ReservingOf(kind, k))
      BY DEF RosterInv
    <3>3. /\ IsFiniteSet(LiveOf(kind, k)) /\ IsFiniteSet(ReservingOf(kind, k))
          /\ Cardinality(LiveOf(kind, k)) \in Nat /\ Cardinality(ReservingOf(kind, k)) \in Nat
      BY RostersFinite
    <3>4. LiveOf(kind, k) \cap ReservingOf(kind, k) = {} /\ Cardinality({}) = 0
      <4>1. ASSUME NEW x \in Live PROVE x \notin Reserving
        BY DEF Live, Reserving, SafetyInv, StatesConsistent
      <4>2. LiveOf(kind, k) \subseteq Live /\ ReservingOf(kind, k) \subseteq Reserving
        BY DEF LiveOf, ReservingOf
      <4>3. QED
        BY <4>1, <4>2, FS_EmptySet
    <3>5. Cardinality(ClaimedOf(kind, k)) =
            Cardinality(LiveOf(kind, k)) + Cardinality(ReservingOf(kind, k))
      <4> DEFINE A == LiveOf(kind, k)
                 B == ReservingOf(kind, k)
      <4>1. Cardinality(A \cup B) = Cardinality(A) + Cardinality(B) - Cardinality(A \cap B)
        <5> HIDE DEF A, B
        <5>1. IsFiniteSet(A) /\ IsFiniteSet(B)
          BY <3>3 DEF A, B
        <5>2. QED
          BY <5>1, FS_Union
      <4>2. Cardinality(A \cap B) = 0 /\ Cardinality(A) \in Nat /\ Cardinality(B) \in Nat
        BY <3>3, <3>4
      <4>3. ClaimedOf(kind, k) = A \cup B
        BY DEF ClaimedOf
      <4> HIDE DEF A, B
      <4>4. Cardinality(ClaimedOf(kind, k)) = Cardinality(A) + Cardinality(B)
        BY <4>1, <4>2, <4>3
      <4>5. QED
        BY <4>4 DEF A, B
    <3>6. s \notin ClaimedOf(kind, k)
      <4>1. state[s] = "absent"
        BY <2>1 DEF SafetyInv, StatesConsistent
      <4>2. s \notin Live /\ s \notin Reserving
        BY <2>1, <4>1 DEF Live, Reserving
      <4>3. QED
        BY <4>2 DEF ClaimedOf, LiveOf, ReservingOf
    <3>7. Cardinality(ClaimedOf(kind, k) \cup {s}) = Cardinality(ClaimedOf(kind, k)) + 1
      BY <1>f, <3>6, FS_AddElement
    <3>8. QED
      BY <1>f, <2>2, <2>4, <3>1, <3>2, <3>3, <3>5, <3>7
  <2>5. QED
    BY <2>3, <2>4
<1>2. CASE ~\E s \in Sessions : ReserveCapture(s)
  <2>1. (Live \cup Reserving)' \subseteq Live \cup Reserving
    BY <1>2, ClaimedShrinks
  <2>2. ClaimedOf(kind, k)' \in SUBSET ClaimedOf(kind, k)
    BY <2>1 DEF ClaimedOf, LiveOf, ReservingOf, InRoster
  <2>3. /\ Cardinality(ClaimedOf(kind, k)') <= Cardinality(ClaimedOf(kind, k))
        /\ Cardinality(ClaimedOf(kind, k)') \in Nat
    BY <1>f, <2>2, FS_Subset, FS_CardinalityType
  <2>4. QED
    BY <1>0, <1>f, <2>3
<1>3. QED
  BY <1>1, <1>2

\* The limits hold for every number of concurrent create_session calls.
THEOREM CapacityIsNeverExceeded == Spec => []CapacityRespected
<1>1. Init => CapacityInv /\ RosterInv
  <2> SUFFICES ASSUME Init, NEW kind \in 0..2, NEW k \in Keys(kind)
               PROVE  /\ Cardinality(ClaimedOf(kind, k)) <= LimitOf(kind)
                      /\ PendingOf(kind, k) = Cardinality(ReservingOf(kind, k))
    BY DEF CapacityInv, RosterInv
  <2>1. ReservingOf(kind, k) = {} /\ ClaimedOf(kind, k) = {} /\ LimitOf(kind) \in Nat
    BY SessionsAssumption DEF Init, ClaimedOf, LiveOf, Live, ReservingOf, Reserving, LimitOf
  <2>2. kind = 1 => k \in Clients
    BY DEF Keys
  <2>3. kind = 2 => k \in Tenants
    BY DEF Keys
  <2>4. PendingOf(kind, k) = 0
    BY <2>2, <2>3 DEF Init, PendingOf
  <2>5. QED
    BY <2>1, <2>4, FS_EmptySet
<1>2. InFlightExact => NobodyAtZero
  BY ZeroMeansNobody
<1>3. BaseInv /\ RosterInv /\ [Next]_vars => RosterInv'
  BY RosterStep
<1>4. BaseInv /\ BaseInv' /\ NobodyAtZero /\ SafetyInv /\ RosterInv /\ CapacityInv /\ [Next]_vars
        => CapacityInv'
  BY CapacityStep
<1>5. CapacityInv => CapacityRespected
  BY CapacityIsRespected
<1>6. QED
  BY <1>1, <1>2, <1>3, <1>4, <1>5, BaseInvariant, InFlightIsExact, SessionSafety, PTL DEF Spec

\* Type correctness: the counters that are only decremented on the way out of
\* an operation or a capture never become negative.
THEOREM TypeCorrect == Spec => []TypeOK
<1>1. BaseInv /\ InFlightExact /\ ReservationsExact => TypeOK
  <2> SUFFICES ASSUME BaseInv, InFlightExact, ReservationsExact PROVE TypeOK
    OBVIOUS
  <2>1. in_flight \in [Sessions -> Nat]
    <3>1. \A s \in Sessions : in_flight[s] \in Nat
      BY UsersFinite DEF InFlightExact, Users
    <3>2. QED
      BY <3>1 DEF BaseInv, SessionTypes
  <2>2. RosterInv
    BY RosterIsReservations
  <2>3. /\ \A kind \in 0..2 : \A k \in Keys(kind) : PendingOf(kind, k) \in Nat
        /\ Keys(0) = {0} /\ Keys(1) = Clients /\ Keys(2) = Tenants
    BY <2>2, RostersFinite DEF RosterInv, Keys
  <2>4. /\ pending_total = PendingOf(0, 0) /\ \A c : pending_by_client[c] = PendingOf(1, c)
        /\ \A n : pending_by_tenant[n] = PendingOf(2, n)
    BY DEF PendingOf
  <2>5. /\ pending_total \in Nat
        /\ \A c \in Clients : pending_by_client[c] \in Nat
        /\ \A n \in Tenants : pending_by_tenant[n] \in Nat
    BY <2>3, <2>4
  <2>6. pending_by_client \in [Clients -> Nat] /\ pending_by_tenant \in [Tenants -> Nat]
    BY <2>5 DEF BaseInv, CaptureTypes
  <2>7. QED
    BY <2>1, <2>5, <2>6 DEF TypeOK, BaseInv, SessionTypes, CaptureTypes, ThreadTypes, EnvTypes
<1>2. QED
  BY <1>1, BaseInvariant, InFlightIsExact, ReservationsAreExact, PTL
-----------------------------------------------------------------------------
(* The manager implements the abstract lifecycle.                          *)

\* A session that was finished, or is about to be, has no overlay.
GoneInv ==
  /\ \A s \in Sessions : state[s] = "CLOSED" => ~overlay[s]
  /\ \A t \in Threads : doing[t] = "finalize" => ~overlay[at[t]]

LEMMA PhaseIs ==
  ASSUME BaseInv, NEW s \in Sessions
  PROVE  /\ Phases[s] = Phase(s)
         /\ state[s] = "absent" => Phase(s) = "absent"
         /\ state[s] = "ACTIVE" => Phase(s) = "live"
         /\ s \in Revoked /\ overlay[s] => Phase(s) = "revoked"
         /\ state[s] \notin {"absent", "ACTIVE"} /\ ~overlay[s] => Phase(s) = "gone"
         /\ state[s] = "CLOSED" => Phase(s) = "gone"
  BY DEF Phases, Phase, Revoked

\* What a step does that revokes the sessions of S.
LEMMA RetiresPhases ==
  ASSUME BaseInv, BaseInv', SafetyInv, NEW t \in Threads, NEW S, NEW reason, NEW C,
         Retires(t, S, reason, C)
  PROVE  /\ S \in SUBSET Sessions /\ \A s \in S : Phases[s] = "live" /\ state'[s] # state[s]
         /\ Phases' = [s \in Sessions |-> IF s \in S THEN "revoked" ELSE Phases[s]]
         /\ Erased' = Erased
<1>1. /\ S \in SUBSET {s \in Sessions : state[s] = "ACTIVE"}
      /\ reason \in {"EXPIRED", "STALE", "CLOSING"}
      /\ \A s \in Sessions : state'[s] = (IF s \in S THEN reason ELSE state[s])
      /\ UNCHANGED <<overlay, listeners_completed>>
  BY DEF Retires
<1>2. ASSUME NEW s \in S
      PROVE  s \in Sessions /\ Phases[s] = "live" /\ state'[s] # state[s] /\ Phase(s)' = "revoked"
  <2>1. s \in Sessions /\ state[s] = "ACTIVE" /\ state'[s] = reason
    BY <1>1
  <2>2. overlay'[s] /\ s \in Revoked'
    BY <1>1, <2>1 DEF SafetyInv, StatesConsistent, Revoked
  <2>3. Phases[s] = "live"
    BY <2>1, PhaseIs
  <2>4. Phase(s)' = "revoked"
    BY <2>2 DEF Phase, Revoked
  <2>5. QED
    BY <1>1, <2>1, <2>3, <2>4
<1>3. ASSUME NEW s \in Sessions \ S PROVE Phase(s)' = Phase(s)
  <2>1. state'[s] = state[s] /\ overlay'[s] = overlay[s]
    BY <1>1
  <2>2. QED
    BY <2>1 DEF Phase, Revoked
<1>4. Phases' = [s \in Sessions |-> IF s \in S THEN "revoked" ELSE Phases[s]]
  BY <1>2, <1>3 DEF Phases
<1>5. Erased' = Erased
  BY <1>1 DEF Erased
<1>6. QED
  BY <1>1, <1>2, <1>4, <1>5

\* A step of a call that lets its thread enter a session revokes nothing, and one that
\* lets it leave revokes no other session.
LEMMA CallMoves ==
  ASSUME BaseInv, NEW t \in Workers, CallStep(t)
  PROVE  \E point \in Points :
           /\ GoTo(t, point) /\ pc[t] # "idle" /\ on[t] \in Sessions
           /\ \A s \in Sessions \ {on[t]} : state'[s] = state[s]
           /\ point \in LeasePoints => pc[t] \in LeasePoints \/ UNCHANGED state
<1>0. pc[t] # "idle" /\ t \in Threads
  BY DEF CallStep, CheckBeforeAdmission, Admit, CheckAfterAdmission, Activate, EndBody,
     CheckAfterBody, ExitOperation, Close, At, Threads
<1>1. on[t] \in Sessions
  BY <1>0 DEF BaseInv, TargetsInv
<1> DEFINE Others == \A s \in Sessions \ {on[t]} : state'[s] = state[s]
<1>2. /\ UNCHANGED state => Others
      /\ \A reason : Revoke({on[t]}, reason) => Others
      /\ \A reason : Revoke(IF state[on[t]] = "ACTIVE" THEN {on[t]} ELSE {}, reason) => Others
  BY DEF Revoke
<1>3. \A release : RevokeStale(t, on[t], release) => Others /\ GoTo(t, "idle")
  BY <1>2 DEF RevokeStale
<1>4. Release(t, on[t]) => UNCHANGED state /\ GoTo(t, "idle")
  BY DEF Release
<1>5. Expire(t, on[t]) => Others
  BY <1>2 DEF Expire
<1> HIDE DEF Others
<1>6. \E point \in Points :
        /\ GoTo(t, point) /\ Others
        /\ point \in LeasePoints => pc[t] \in LeasePoints \/ UNCHANGED state
  <2> USE DEF Points, LeasePoints
  <2>1. CASE CheckBeforeAdmission(t)
    <3>1. CASE RevokeStale(t, on[t], FALSE)
      <4>1. Others /\ GoTo(t, "idle")
        BY <1>3, <3>1
      <4>2. "idle" \in Points /\ "idle" \notin LeasePoints
        OBVIOUS
      <4>3. QED
        BY <4>1, <4>2
    <3>2. CASE UNCHANGED <<sessionVars, dutyVars>> /\ (GoTo(t, "admit") \/ GoTo(t, "idle"))
      BY <1>2, <3>2 DEF sessionVars
    <3>3. QED
      BY <2>1, <3>1, <3>2 DEF CheckBeforeAdmission
  <2>2. CASE Admit(t)
    BY <1>2, <1>5, <2>2 DEF Admit, sessionVars
  <2>3. CASE CheckAfterAdmission(t)
    BY <1>2, <1>3, <2>3 DEF CheckAfterAdmission, At, sessionVars
  <2>4. CASE Activate(t)
    BY <1>2, <1>4, <2>4 DEF Activate, At
  <2>5. CASE EndBody(t)
    BY <1>2, <2>5 DEF EndBody, At, sessionVars
  <2>6. CASE CheckAfterBody(t)
    BY <1>2, <2>6 DEF CheckAfterBody, At, sessionVars
  <2>7. CASE ExitOperation(t)
    BY <1>2, <1>4, <2>7 DEF ExitOperation
  <2>8. CASE Close(t)
    BY <1>2, <2>8 DEF Close, sessionVars
  <2>9. QED
    BY <2>1, <2>2, <2>3, <2>4, <2>5, <2>6, <2>7, <2>8 DEF CallStep
<1>7. QED
  BY <1>0, <1>1, <1>6 DEF Others

\* The steps of the calls: enter, leave, revoke, or revoke and leave.
LEMMA CallIsLifecycle ==
  ASSUME BaseInv, BaseInv', SafetyInv, NEW t \in Workers, CallStep(t),
         NEW u \in Threads, NEW S, NEW reason, NEW C, Retires(u, S, reason, C)
  PROVE  Lifecycle!Next
<1>0. PICK s \in Sessions : s = on[t]
  BY CallMoves
<1>1. PICK point \in Points :
        /\ GoTo(t, point) /\ pc[t] # "idle" /\ s \in Sessions
        /\ \A x \in Sessions \ {s} : state'[x] = state[x]
        /\ point \in LeasePoints => pc[t] \in LeasePoints \/ UNCHANGED state
  BY <1>0, CallMoves
<1>2. /\ S \in SUBSET Sessions /\ \A x \in S : Phases[x] = "live" /\ state'[x] # state[x]
      /\ Phases' = [x \in Sessions |-> IF x \in S THEN "revoked" ELSE Phases[x]]
      /\ Erased' = Erased
  BY RetiresPhases
<1>3. S = {} \/ S = {s}
  BY <1>1, <1>2
<1>4. \A x \in Sessions : Inside[x] = Users(x) /\ Inside'[x] = Users(x)'
  BY DEF Inside, Users
<1>5. DOMAIN Inside = Sessions /\ DOMAIN Inside' = Sessions
      /\ Inside = [x \in Sessions |-> Inside[x]] /\ Inside' = [x \in Sessions |-> Inside'[x]]
  BY DEF Inside
<1>6. \A x \in Sessions \ {s} : Users(x)' = Users(x)
  BY <1>0, <1>1, GoToUsers
<1>7. t \in Users(s) <=> pc[t] \in LeasePoints
  BY <1>0 DEF Users, Leases
<1>8. DOMAIN Phases = Sessions /\ Phases = [x \in Sessions |-> Phases[x]]
  BY DEF Phases
<1>9. CASE pc[t] \in LeasePoints <=> point \in LeasePoints
  <2>1. Users(s)' = Users(s)
    BY <1>0, <1>1, <1>7, <1>9, GoToUsers
  <2>2. Inside' = Inside
    BY <1>4, <1>5, <1>6, <2>1
  <2>3. Lifecycle!Revoke(S)
    BY <1>2, <2>2 DEF Lifecycle!Revoke
  <2>4. QED
    BY <1>2, <2>3 DEF Lifecycle!Next
<1>10. CASE pc[t] \notin LeasePoints /\ point \in LeasePoints
  <2>1. Users(s)' = Users(s) \cup {t}
    BY <1>0, <1>1, <1>10, GoToUsers
  <2>2. Inside' = [Inside EXCEPT ![s] = @ \cup {t}]
    BY <1>1, <1>4, <1>5, <1>6, <2>1
  <2>3. S = {} /\ Phases' = Phases
    BY <1>1, <1>2, <1>8, <1>10
  <2>4. state[s] = "ACTIVE"
    <3>1. t \in Users(s)' /\ t \notin Users(s)
      BY <1>7, <1>10, <2>1
    <3>2. Leases(t, s)' /\ ~Leases(t, s)
      BY <3>1 DEF Users
    <3>3. QED
      BY <1>1, <3>2 DEF Retires
  <2>5. Phases[s] = "live"
    BY <1>1, <2>4, PhaseIs
  <2>6. Lifecycle!Enter(s, t)
    BY <1>2, <2>2, <2>3, <2>5 DEF Lifecycle!Enter
  <2>7. QED
    BY <1>1, <2>6 DEF Lifecycle!Next
<1>11. CASE pc[t] \in LeasePoints /\ point \notin LeasePoints
  <2>1. Users(s)' = Users(s) \ {t} /\ t \in Inside[s]
    BY <1>0, <1>1, <1>4, <1>7, <1>11, GoToUsers
  <2>2. Inside' = [Inside EXCEPT ![s] = @ \ {t}]
    BY <1>1, <1>4, <1>5, <1>6, <2>1
  <2>3. CASE S = {}
    <3>1. Phases' = Phases
      BY <1>2, <1>8, <2>3
    <3>2. Lifecycle!Leave(s, t)
      BY <1>2, <2>1, <2>2, <3>1 DEF Lifecycle!Leave
    <3>3. QED
      BY <1>1, <3>2 DEF Lifecycle!Next
  <2>4. CASE S = {s}
    <3>1. Phases' = [Phases EXCEPT ![s] = "revoked"] /\ Phases[s] = "live"
      BY <1>1, <1>2, <1>8, <2>4
    <3>2. Lifecycle!RevokeAndLeave(s, t)
      BY <1>2, <2>1, <2>2, <3>1 DEF Lifecycle!RevokeAndLeave
    <3>3. QED
      BY <1>1, <3>2 DEF Lifecycle!Next
  <2>5. QED
    BY <1>3, <2>3, <2>4
<1>12. QED
  BY <1>9, <1>10, <1>11

\* The steps that neither insert a session nor work off a duty.
LEMMA RetiresIsLifecycle ==
  ASSUME BaseInv, BaseInv', NobodyAtZero, SafetyInv, GoneInv, [Next]_vars,
         ~\E s \in Sessions : InsertSession(s), ~\E t \in Threads : DutyStep(t)
  PROVE  GoneInv' /\ Lifecycle!Next
<1>1. PICK u \in Threads : \E S, reason, C : Retires(u, S, reason, C)
  BY NextRetires
<1>2. PICK S, reason, C : Retires(u, S, reason, C)
  BY <1>1
<1>3. GoneInv'
  <2>1. /\ \A s \in Sessions : state'[s] = "CLOSED" => state[s] = "CLOSED"
        /\ UNCHANGED <<overlay, doing, at>>
    BY <1>2 DEF Retires
  <2>2. QED
    BY <2>1 DEF GoneInv
<1>4. CASE \E t \in Workers : CallStep(t)
  BY <1>2, <1>3, <1>4, CallIsLifecycle
<1>5. CASE ~\E t \in Workers : CallStep(t)
  <2>1. UNCHANGED callVars \/ \E t \in Workers, s \in Sessions :
           /\ pc[t] = "idle" /\ \E next \in {"check1", "close", "idle"} :
                                  pc' = [pc EXCEPT ![t] = next]
           /\ on' = [on EXCEPT ![t] = s]
    BY <1>5 DEF Next, CreateSession, ReserveCapture, Capture, AbandonCapture, Authenticate, At,
       SweepExpired, StopReaper, Shutdown, Tick, ContextChanges, vars
  <2>2. \A t \in Workers, s \in Sessions : Leases(t, s)' <=> Leases(t, s)
    BY <2>1 DEF Leases, LeasePoints, callVars, BaseInv, ThreadTypes, Threads
  <2>3. Inside' = Inside
    BY <2>2 DEF Inside
  <2>4. Lifecycle!Revoke(S) /\ S \in SUBSET Sessions
    BY <1>2, <2>3, RetiresPhases DEF Lifecycle!Revoke
  <2>5. QED
    BY <1>3, <2>4 DEF Lifecycle!Next
<1>6. QED
  BY <1>4, <1>5

LEMMA InsertIsLifecycle ==
  ASSUME BaseInv, BaseInv', SafetyInv, GoneInv, NEW s \in Sessions, InsertSession(s)
  PROVE  GoneInv' /\ Lifecycle!Next
<1>1. /\ state' = [state EXCEPT ![s] = "ACTIVE"] /\ overlay' = [overlay EXCEPT ![s] = TRUE]
      /\ UNCHANGED <<listeners_completed, pc, on, doing, at>>
  BY DEF InsertSession, callVars, stepVars
<1>2. state[s] = "absent"
  BY DEF InsertSession, SafetyInv, StatesConsistent
<1>3. \A t \in Threads : doing[t] = "finalize" => at[t] \in Sessions \ {s}
  BY <1>2, CleaningFacts DEF Revoked
<1>4. GoneInv'
  BY <1>1, <1>3 DEF GoneInv, BaseInv, SessionTypes
<1>5. Inside' = Inside /\ Erased' = Erased
  BY <1>1 DEF Inside, Erased, Leases
<1>6. \A x \in Sessions \ {s} : Phase(x)' = Phase(x)
  BY <1>1 DEF Phase, Revoked, BaseInv, SessionTypes
<1>7. Phase(s)' = "live"
  <2>1. state'[s] = "ACTIVE"
    BY <1>1 DEF BaseInv, SessionTypes
  <2>2. QED
    BY <2>1 DEF Phase, Revoked
<1>8. Phases' = [Phases EXCEPT ![s] = "live"]
  BY <1>6, <1>7 DEF Phases
<1>9. Phases[s] = "absent"
  BY <1>2, PhaseIs
<1>10. QED
  BY <1>4, <1>5, <1>8, <1>9 DEF Lifecycle!Open, Lifecycle!Next

\* The last listener that succeeds erases its session, which is revoked by then.
LEMMA ListenerIsLifecycle ==
  ASSUME BaseInv, BaseInv', SafetyInv, GoneInv, NEW t \in Threads, NEW l \in Listeners,
         RunListener(t, l)
  PROVE  GoneInv' /\ [Lifecycle!Next]_Lifecycle!lifecycleVars
<1> DEFINE s == at[t]
<1>1. /\ \/ listeners_completed' = [listeners_completed EXCEPT ![s] = @ \cup {l}]
         \/ UNCHANGED listeners_completed
      /\ s \in Sessions /\ l \notin listeners_completed[s] /\ Notifying(t, s)
      /\ UNCHANGED <<state, overlay, pc, on, doing, at>>
  BY DEF RunListener, Untried, callVars, Notifying, BaseInv, TargetsInv
<1>2. GoneInv'
  BY <1>1 DEF GoneInv
<1>3. Phases' = Phases /\ Inside' = Inside
  BY <1>1 DEF Phases, Phase, Revoked, Inside, Leases
<1>4. listeners_completed[s] # Listeners
  BY <1>1
<1>5. cancelled[s] /\ state[s] # "absent"
  BY <1>1 DEF SafetyInv, EraseAfterCancel, StatesConsistent
<1>6. overlay[s] /\ s \in Revoked
  <2>1. overlay[s]
    BY <1>1, <1>4, <1>5 DEF SafetyInv, ErasedBeforeRemoved
  <2>2. state[s] # "ACTIVE" /\ state[s] # "CLOSED"
    BY <1>1, <1>5, <2>1 DEF SafetyInv, StatesConsistent, GoneInv
  <2>3. QED
    BY <1>1, <1>5, <2>1, <2>2 DEF Revoked, BaseInv, SessionTypes, States
<1>7. Phases[s] = "revoked"
  BY <1>1, <1>6, PhaseIs
<1>8. \A x \in Sessions \ {s} : listeners_completed'[x] = listeners_completed[x]
  BY <1>1 DEF BaseInv, SessionTypes
<1>9. CASE listeners_completed'[s] = Listeners
  <2>1. Erased' = [Erased EXCEPT ![s] = TRUE]
    BY <1>1, <1>8, <1>9 DEF Erased
  <2>2. QED
    BY <1>1, <1>2, <1>3, <1>7, <2>1 DEF Lifecycle!Erase, Lifecycle!Next
<1>10. CASE listeners_completed'[s] # Listeners
  <2>1. Erased' = Erased
    BY <1>4, <1>8, <1>10 DEF Erased
  <2>2. QED
    BY <1>2, <1>3, <2>1 DEF Lifecycle!lifecycleVars
<1>11. QED
  BY <1>9, <1>10

\* The overlay goes: the session is destroyed.
LEMMA RemoveIsLifecycle ==
  ASSUME BaseInv, BaseInv', SafetyInv, GoneInv, NEW t \in Threads, RemoveOverlay(t)
  PROVE  GoneInv' /\ [Lifecycle!Next]_Lifecycle!lifecycleVars
<1>0. PICK s \in Sessions : s = at[t]
  BY CleaningFacts DEF RemoveOverlay
<1>1. /\ doing[t] = "remove" /\ UNCHANGED <<state, listeners_completed, pc, on>>
      /\ \/ overlay' = [overlay EXCEPT ![s] = FALSE]
            /\ doing' = [doing EXCEPT ![t] = "finalize"] /\ at' = at
         \/ UNCHANGED overlay /\ doing' = [doing EXCEPT ![t] = "none"]
            /\ at' = [at EXCEPT ![t] = NoSession]
  BY <1>0 DEF RemoveOverlay, CleanupFails, StepDone, callVars
<1>2. /\ s \in Sessions /\ s \in Revoked /\ \A u \in Workers : ~Leases(u, s)
      /\ listeners_completed[s] = Listeners
  BY <1>0, <1>1, CleaningFacts DEF SafetyInv, DutiesConsistent, EraseComplete
<1>3. GoneInv'
  <2>1. \A x \in Sessions : state'[x] = "CLOSED" => ~overlay'[x]
    BY <1>1, <1>2 DEF GoneInv, BaseInv, SessionTypes
  <2>2. ASSUME NEW u \in Threads, doing'[u] = "finalize" PROVE ~overlay'[at'[u]]
    <3>1. CASE u = t
      <4>1. overlay' = [overlay EXCEPT ![s] = FALSE] /\ at'[u] = s
        BY <1>0, <1>1, <2>2, <3>1 DEF BaseInv, ThreadTypes
      <4>2. QED
        BY <1>2, <4>1 DEF BaseInv, SessionTypes
    <3>2. CASE u # t
      <4>1. doing[u] = "finalize" /\ at'[u] = at[u]
        BY <1>1, <2>2, <3>2 DEF BaseInv, ThreadTypes
      <4>2. at[u] \in Sessions /\ ~overlay[at[u]]
        BY <4>1 DEF GoneInv, BaseInv, TargetsInv
      <4>3. QED
        BY <1>1, <4>1, <4>2 DEF BaseInv, SessionTypes
    <3>3. QED
      BY <3>1, <3>2
  <2>3. QED
    BY <2>1, <2>2 DEF GoneInv
<1>4. Inside' = Inside /\ Erased' = Erased /\ Inside[s] = {} /\ Erased[s]
  BY <1>1, <1>2 DEF Inside, Erased, Leases
<1>5. CASE overlay'[s] = overlay[s]
  <2>1. overlay' = overlay
    BY <1>1, <1>5 DEF BaseInv, SessionTypes
  <2>2. Phases' = Phases
    BY <1>1, <2>1 DEF Phases, Phase, Revoked
  <2>3. QED
    BY <1>3, <1>4, <2>2 DEF Lifecycle!lifecycleVars
<1>6. CASE overlay'[s] # overlay[s]
  <2>1. overlay[s] /\ overlay' = [overlay EXCEPT ![s] = FALSE]
    BY <1>1, <1>2, <1>6 DEF BaseInv, SessionTypes
  <2>2. Phases[s] = "revoked"
    BY <1>2, <2>1, PhaseIs
  <2>3. \A x \in Sessions \ {s} : Phase(x)' = Phase(x)
    BY <1>1, <2>1 DEF Phase, Revoked, BaseInv, SessionTypes
  <2>4. Phase(s)' = "gone"
    BY <1>1, <1>2, <2>1 DEF Phase, Revoked, BaseInv, SessionTypes
  <2>5. Phases' = [Phases EXCEPT ![s] = "gone"]
    BY <2>3, <2>4 DEF Phases
  <2>6. QED
    BY <1>2, <1>3, <1>4, <2>2, <2>5 DEF Lifecycle!Destroy, Lifecycle!Next
<1>7. QED
  BY <1>5, <1>6

LEMMA FinalizeIsLifecycle ==
  ASSUME BaseInv, BaseInv', SafetyInv, GoneInv, NEW t \in Threads, FinalizeSession(t)
  PROVE  GoneInv' /\ [Lifecycle!Next]_Lifecycle!lifecycleVars
<1>0. PICK s \in Sessions : s = at[t]
  BY CleaningFacts DEF FinalizeSession
<1>1. /\ doing[t] = "finalize" /\ state' = [state EXCEPT ![s] = "CLOSED"]
      /\ doing' = [doing EXCEPT ![t] = "none"] /\ at' = [at EXCEPT ![t] = NoSession]
      /\ UNCHANGED <<overlay, listeners_completed, pc, on>>
  BY <1>0 DEF FinalizeSession, StepDone, callVars
<1>2. s \in Sessions /\ s \in Revoked /\ ~overlay[s]
  BY <1>0, <1>1, CleaningFacts DEF GoneInv
<1>3. GoneInv'
  BY <1>0, <1>1, <1>2 DEF GoneInv, BaseInv, SessionTypes, ThreadTypes
<1>4. Inside' = Inside /\ Erased' = Erased
  BY <1>1 DEF Inside, Erased, Leases
<1>5. \A x \in Sessions \ {s} : Phase(x)' = Phase(x)
  BY <1>1 DEF Phase, Revoked, BaseInv, SessionTypes
<1>6. Phase(s)' = "gone" /\ Phase(s) = "gone"
  BY <1>1, <1>2 DEF Phase, Revoked, BaseInv, SessionTypes
<1>7. Phases' = Phases
  BY <1>5, <1>6 DEF Phases
<1>8. QED
  BY <1>3, <1>4, <1>7 DEF Lifecycle!lifecycleVars

LEMMA LifecycleStep ==
  ASSUME BaseInv, BaseInv', NobodyAtZero, SafetyInv, GoneInv, [Next]_vars
  PROVE  GoneInv' /\ [Lifecycle!Next]_Lifecycle!lifecycleVars
<1>1. ASSUME NEW s \in Sessions, InsertSession(s)
      PROVE  GoneInv' /\ [Lifecycle!Next]_Lifecycle!lifecycleVars
  BY <1>1, InsertIsLifecycle
<1>2. ASSUME NEW t \in Threads, (\E s \in Sessions : BeginNotify(t, s)) \/ EndNotify(t)
      PROVE  GoneInv' /\ [Lifecycle!Next]_Lifecycle!lifecycleVars
  <2>1. /\ UNCHANGED <<state, overlay, listeners_completed, pc, on>>
        /\ \A u \in Threads : doing'[u] = "finalize" => doing[u] = "finalize" /\ at'[u] = at[u]
    BY <1>2 DEF BeginNotify, EndNotify, CleanupFails, StepDone, sessionVars, callVars,
       BaseInv, ThreadTypes
  <2>2. GoneInv'
    BY <2>1 DEF GoneInv
  <2>3. Phases' = Phases /\ Inside' = Inside /\ Erased' = Erased
    BY <2>1 DEF Phases, Phase, Revoked, Inside, Leases, Erased
  <2>4. QED
    BY <2>2, <2>3 DEF Lifecycle!lifecycleVars
<1>3. ASSUME NEW t \in Threads, DutyStep(t)
      PROVE  GoneInv' /\ [Lifecycle!Next]_Lifecycle!lifecycleVars
  BY <1>2, <1>3, ListenerIsLifecycle, RemoveIsLifecycle, FinalizeIsLifecycle DEF DutyStep
<1>4. CASE ~(\E s \in Sessions : InsertSession(s)) /\ ~(\E t \in Threads : DutyStep(t))
  BY <1>4, RetiresIsLifecycle
<1>5. QED
  BY <1>1, <1>3, <1>4

LEMMA LifecycleInit == Init => GoneInv /\ Lifecycle!Init
<1> SUFFICES ASSUME Init PROVE GoneInv /\ Lifecycle!Init
  OBVIOUS
<1>1. GoneInv
  BY DEF Init, GoneInv
<1>2. \A s \in Sessions : Phase(s) = "absent" /\ \A t \in Workers : ~Leases(t, s)
  BY DEF Init, Phase, Leases, LeasePoints, Threads
<1>3. \A s \in Sessions : listeners_completed[s] # Listeners
  <2>1. 1 \in Listeners
    BY SessionsAssumption DEF Listeners
  <2>2. QED
    BY <2>1 DEF Init
<1>4. Phases = [s \in Sessions |-> "absent"]
  BY <1>2 DEF Phases
<1>5. Inside = [s \in Sessions |-> {}]
  BY <1>2 DEF Inside
<1>6. Erased = [s \in Sessions |-> FALSE]
  BY <1>3 DEF Erased
<1>7. QED
  BY <1>1, <1>4, <1>5, <1>6 DEF Lifecycle!Init

\* Every step of the session manager is a step of the abstract lifecycle or leaves it
\* unchanged: sessions are entered only while live, erased only once revoked, and
\* destroyed only when erased and left by everyone.
THEOREM LifecycleIsImplemented == Spec => ImplementsLifecycle
<1>1. Init => GoneInv /\ Lifecycle!Init
  BY LifecycleInit
<1>2. InFlightExact => NobodyAtZero
  BY ZeroMeansNobody
<1>3. /\ BaseInv /\ BaseInv' /\ NobodyAtZero /\ SafetyInv /\ GoneInv /\ [Next]_vars
      => GoneInv' /\ [Lifecycle!Next]_Lifecycle!lifecycleVars
  BY LifecycleStep
<1>4. QED
  BY <1>1, <1>2, <1>3, BaseInvariant, InFlightIsExact, SessionSafety, PTL
  DEF Spec, ImplementsLifecycle, Lifecycle!Spec
=============================================================================
