-------------------------- MODULE ModelWorker_proofs --------------------------
(***************************************************************************)
(* Proofs about ModelWorker: whatever callers, closes, deaths and recycled *)
(* processes there are, no worker process is left without an owner; and as *)
(* long as none of them misbehaves, no runtime is ever broken.             *)
(***************************************************************************)
EXTENDS ModelWorker, SequenceTheorems, TLAPS

Inside == {"spawn", "write", "read"}

(* Only the current process is alive, and none once the runtime is closed. *)
OneProcess == \A p \in DOMAIN workers : workers[p].alive => p = process /\ ~closed

(* A caller between the lock and its return holds the lock, and nobody else. *)
HolderInv == \A c \in Callers : calls[c].pc \in Inside <=> lock = c

(* What the holder of the lock knows: there is no process before the start, *)
(* there is one after it, and a request goes to a ready one only.           *)
StartInv == \A c \in Callers : At(c, "spawn") => /\ process = 0 /\ status # "ready"
                                                /\ calls[c].op \in Operation
ExchangeInv == \A c \in Callers : Exchanging(c) => /\ process # 0
                                                   /\ calls[c].op \in Operation
                                                   /\ calls[c].phase = "request" => status = "ready"

(* What everybody may read when nobody holds it. *)
IdleInv == lock = None => (status = "ready" <=> process # 0)
ClosedInv == closed => lock = None /\ process = 0

WorkerInv == /\ TypeOK /\ OneProcess /\ HolderInv /\ StartInv
             /\ ExchangeInv /\ IdleInv /\ ClosedInv

-----------------------------------------------------------------------------
(* Replacing one process, or what is known of it                           *)

LEMMA ChangedWorker ==
  ASSUME workers \in Seq(Workers), NEW p \in DOMAIN workers, NEW w \in Workers
  PROVE  /\ [workers EXCEPT ![p] = w] \in Seq(Workers)
         /\ Len([workers EXCEPT ![p] = w]) = Len(workers)
         /\ DOMAIN [workers EXCEPT ![p] = w] = DOMAIN workers
         /\ [workers EXCEPT ![p] = w][p] = w
         /\ \A q \in DOMAIN workers : q # p => [workers EXCEPT ![p] = w][q] = workers[q]
<1>1. DOMAIN workers = 1 .. Len(workers) /\ Len(workers) \in Nat
  BY LenProperties
<1>2. p \in 1 .. Len(workers)
  BY <1>1
<1>3. [workers EXCEPT ![p] = w] \in Seq(Workers) /\ Len([workers EXCEPT ![p] = w]) = Len(workers)
  BY <1>2, ExceptSeq
<1>4. QED
  BY <1>1, <1>2, <1>3

LEMMA WorkerAt ==
  ASSUME workers \in Seq(Workers), NEW p \in DOMAIN workers
  PROVE  /\ workers[p] \in Workers /\ p # 0 /\ p \in 1 .. Len(workers)
         /\ Len(workers) \in Nat
  BY LenProperties

\* Whoever terminates or drops a process changes nothing about the others.
LEMMA TerminatedIs ==
  ASSUME workers \in Seq(Workers), NEW p \in 0 .. Len(workers)
  PROVE  /\ Terminated(p) \in Seq(Workers) /\ Len(Terminated(p)) = Len(workers)
         /\ DOMAIN Terminated(p) = DOMAIN workers
         /\ \A q \in DOMAIN workers : Terminated(p)[q].alive => workers[q].alive
<1>1. CASE p = 0
  BY <1>1 DEF Terminated
<1>2. CASE p # 0
  <2>1. p \in DOMAIN workers
    BY <1>2, LenProperties
  <2>2. workers[p] \in Workers
    BY <2>1, WorkerAt
  <2> DEFINE w == [workers[p] EXCEPT !.alive = FALSE]
  <2>3. w \in Workers /\ w.alive = FALSE
    BY <2>2 DEF Workers
  <2>4. Terminated(p) = [workers EXCEPT ![p] = w]
    BY <1>2 DEF Terminated
  <2> HIDE DEF w
  <2>5. QED
    BY <2>1, <2>3, <2>4, ChangedWorker
<1>3. QED
  BY <1>1, <1>2

LEMMA DroppedIs ==
  ASSUME workers \in Seq(Workers), NEW p \in 0 .. Len(workers)
  PROVE  /\ Dropped(p) \in Seq(Workers) /\ Len(Dropped(p)) = Len(workers)
         /\ DOMAIN Dropped(p) = DOMAIN workers
         /\ \A q \in DOMAIN workers : q = p => ~Dropped(p)[q].alive
         /\ \A q \in DOMAIN workers : q # p => Dropped(p)[q] = workers[q]
<1>0. DOMAIN workers = 1 .. Len(workers) /\ Len(workers) \in Nat
  BY LenProperties
<1>1. CASE p = 0
  BY <1>0, <1>1 DEF Dropped
<1>2. CASE p # 0
  <2>1. p \in DOMAIN workers
    BY <1>0, <1>2
  <2>2. workers[p] \in Workers
    BY <2>1, WorkerAt
  <2> DEFINE w == [alive |-> FALSE, inbox |-> <<>>, answers |-> <<>>, served |-> 0,
                   stalled |-> FALSE, noisy |-> workers[p].noisy]
  <2>3. w \in Workers /\ w.alive = FALSE
    BY <2>2, EmptySeq DEF Workers
  <2>4. Dropped(p) = [workers EXCEPT ![p] = w]
    BY <1>2 DEF Dropped
  <2> HIDE DEF w
  <2>5. QED
    BY <2>1, <2>3, <2>4, ChangedWorker
<1>3. QED
  BY <1>1, <1>2

-----------------------------------------------------------------------------
(* Steps that many actions share                                           *)

LEMMA EndedCall ==
  ASSUME calls \in [Callers -> Calls], NEW c \in Callers,
         NEW outcome \in {"none", "answered", "rejected", "cancelled", "failed"}, Finish(c, outcome)
  PROVE  /\ calls' \in [Callers -> Calls] /\ calls'[c].pc = "done"
         /\ \A d \in Callers : d # c => calls'[d] = calls[d]
         /\ lock' = None
<1> DEFINE call == [calls[c] EXCEPT !.pc = "done", !.outcome = outcome]
<1>1. call \in Calls /\ call.pc = "done"
  BY DEF Calls
<1>2. calls' = [calls EXCEPT ![c] = call] /\ lock' = None
  BY DEF Finish
<1> HIDE DEF call
<1>3. QED
  BY <1>1, <1>2

\* A process changes and none comes to life.
LEMMA OutsideStep ==
  ASSUME WorkerInv,
         workers' \in Seq(Workers), Len(workers') = Len(workers), DOMAIN workers' = DOMAIN workers,
         \A p \in DOMAIN workers : workers'[p].alive => workers[p].alive,
         UNCHANGED <<kind, runtime, closed, lock, calls>>,
         overflow' \in BOOLEAN, faults' \in Nat,
         closing' \in [Closers -> [pc : {"idle", "read", "killed", "done"},
                                   process : 0 .. Len(workers)]]
  PROVE  WorkerInv'
<1> USE DEF WorkerInv, runtime
<1>1. TypeOK'
  BY DEF TypeOK
<1>2. OneProcess'
  BY DEF OneProcess
<1>3. HolderInv' /\ StartInv' /\ ExchangeInv' /\ IdleInv' /\ ClosedInv'
  BY DEF HolderInv, StartInv, ExchangeInv, Exchanging, At, IdleInv, ClosedInv
<1>4. QED
  BY <1>1, <1>2, <1>3

\* A call ends and the process is given up with it.
LEMMA GivenUp ==
  ASSUME WorkerInv, NEW c \in Callers, lock = None \/ lock = c,
         NEW outcome \in {"none", "answered", "rejected", "cancelled", "failed"},
         workers' = Dropped(process), process' = 0, requests' = 0,
         status' \in {"cold", "failed"}, broken' \in BOOLEAN, Finish(c, outcome),
         UNCHANGED <<kind, closed, overflow, closing>>, faults' \in Nat
  PROVE  WorkerInv'
<1> USE DEF WorkerInv, Finish
<1>1. /\ workers' \in Seq(Workers) /\ Len(workers') = Len(workers)
      /\ DOMAIN workers' = DOMAIN workers
      /\ \A q \in DOMAIN workers : ~workers'[q].alive
  BY DroppedIs DEF TypeOK, OneProcess
<1>2. calls' \in [Callers -> Calls] /\ calls'[c].pc = "done"
      /\ \A d \in Callers : d # c => calls'[d] = calls[d]
  BY EndedCall DEF TypeOK
<1>3. TypeOK'
  <2>1. Len(workers) \in Nat
    BY LenProperties DEF TypeOK
  <2>2. QED
    BY <1>1, <1>2, <2>1 DEF TypeOK
<1>4. OneProcess'
  BY <1>1 DEF OneProcess
<1>5. \A d \in Callers : calls'[d].pc \notin Inside
  BY <1>2, LimitsAssumption DEF HolderInv, Inside
<1>6. HolderInv'
  BY <1>5, LimitsAssumption DEF HolderInv
<1>7. StartInv' /\ ExchangeInv'
  BY <1>5 DEF StartInv, ExchangeInv, Exchanging, At, Inside
<1>8. IdleInv' /\ ClosedInv'
  BY DEF IdleInv, ClosedInv
<1>9. QED
  BY <1>3, <1>4, <1>6, <1>7, <1>8

\* A call that holds the lock, or takes it, moves on or ends; the processes keep
\* their lives.
LEMMA CallerStep ==
  ASSUME WorkerInv, NEW c \in Callers, lock = None \/ lock = c,
         workers' \in Seq(Workers), Len(workers') = Len(workers), DOMAIN workers' = DOMAIN workers,
         \A p \in DOMAIN workers : workers'[p].alive => workers[p].alive,
         NEW call \in Calls, calls' = [calls EXCEPT ![c] = call],
         UNCHANGED <<kind, process, closed, overflow, closing>>,
         requests' \in Nat, status' \in {"cold", "ready", "failed", "closed"},
         broken' \in BOOLEAN, faults' \in Nat,
         call.pc \in Inside => lock' = c /\ ~closed,
         call.pc \notin Inside => lock' = None /\ (status' = "ready" <=> process # 0),
         call.pc = "spawn" => process = 0 /\ status' # "ready" /\ call.op \in Operation,
         call.pc \in {"write", "read"} => /\ process # 0 /\ call.op \in Operation
                                          /\ call.phase = "request" => status' = "ready"
  PROVE  WorkerInv'
<1> USE DEF WorkerInv
<1>1. calls' \in [Callers -> Calls] /\ calls'[c] = call
  BY DEF TypeOK
<1>2. lock' \in Callers \union {None}
  OBVIOUS
<1>3. TypeOK'
  BY <1>1, <1>2 DEF TypeOK
<1>4. OneProcess'
  BY DEF OneProcess
<1>5. \A d \in Callers : d # c => calls'[d].pc \notin Inside
  BY LimitsAssumption DEF TypeOK, HolderInv
<1>6. HolderInv'
  BY <1>1, <1>5, LimitsAssumption DEF HolderInv
<1>7. StartInv' /\ ExchangeInv'
  <2>1. ASSUME NEW d \in Callers, At(d, "spawn")'
        PROVE  process' = 0 /\ status' # "ready" /\ calls'[d].op \in Operation
    BY <1>1, <1>5, <2>1 DEF At, Inside
  <2>2. ASSUME NEW d \in Callers, Exchanging(d)'
        PROVE  /\ process' # 0 /\ calls'[d].op \in Operation
               /\ calls'[d].phase = "request" => status' = "ready"
    BY <1>1, <1>5, <2>2 DEF Exchanging, At, Inside
  <2>3. QED
    BY <2>1, <2>2 DEF StartInv, ExchangeInv
<1>8. IdleInv' /\ ClosedInv'
  BY LimitsAssumption DEF IdleInv, ClosedInv
<1>9. QED
  BY <1>3, <1>4, <1>6, <1>7, <1>8

-----------------------------------------------------------------------------
(* The actions of a call                                                   *)

LEMMA InitOK == Init => WorkerInv
<1> SUFFICES ASSUME Init PROVE WorkerInv
  OBVIOUS
<1> USE DEF Init
<1>1. calls \in [Callers -> Calls] /\ \A c \in Callers : calls[c].pc = "waiting"
  BY DEF Calls, Phases
<1>2. TypeOK
  <2>1. workers \in Seq(Workers) /\ Len(workers) = 0
    BY EmptySeq
  <2>2. closing \in [Closers -> [pc : {"idle", "read", "killed", "done"},
                                 process : 0 .. Len(workers)]]
    BY <2>1
  <2>3. process \in 0 .. Len(workers) /\ requests \in Nat /\ faults \in Nat
    BY <2>1
  <2>4. /\ kind \in {"mlx", "flash"} /\ status = "cold" /\ lock = None
        /\ broken \in BOOLEAN /\ closed \in BOOLEAN /\ overflow \in BOOLEAN
    OBVIOUS
  <2> HIDE DEF Init
  <2>5. QED
    BY <1>1, <2>1, <2>2, <2>3, <2>4 DEF TypeOK
<1>3. OneProcess /\ IdleInv /\ ClosedInv
  BY EmptySeq DEF OneProcess, IdleInv, ClosedInv
<1>4. HolderInv /\ StartInv /\ ExchangeInv
  BY <1>1, LimitsAssumption DEF HolderInv, StartInv, ExchangeInv, Exchanging, At, Inside
<1>5. QED
  BY <1>2, <1>3, <1>4 DEF WorkerInv

LEMMA Quiet ==
  ASSUME WorkerInv
  PROVE  /\ workers \in Seq(Workers) /\ process \in 0 .. Len(workers) /\ requests \in Nat
         /\ status \in {"cold", "ready", "failed", "closed"} /\ broken \in BOOLEAN
         /\ calls \in [Callers -> Calls] /\ faults \in Nat
         /\ DOMAIN workers = 1 .. Len(workers) /\ Len(workers) \in Nat
         /\ process # 0 => process \in DOMAIN workers
  BY LenProperties DEF WorkerInv, TypeOK

\* A caller inside holds the lock, and the runtime is open.
LEMMA InsideHolds ==
  ASSUME WorkerInv, NEW c \in Callers, calls[c].pc \in Inside
  PROVE  lock = c /\ ~closed
  BY LimitsAssumption DEF WorkerInv, HolderInv, ClosedInv

LEMMA CancelOK ==
  ASSUME WorkerInv, NEW c \in Callers, Cancel(c)
  PROVE  WorkerInv'
<1> USE DEF WorkerInv, Cancel
<1> DEFINE call == [calls[c] EXCEPT !.cancelled = TRUE]
<1>1. call \in Calls /\ call.pc = calls[c].pc /\ call.op = calls[c].op /\ call.phase = calls[c].phase
  BY DEF TypeOK, Calls
<1>2. calls' = [calls EXCEPT ![c] = call]
  OBVIOUS
<1> HIDE DEF call
<1>3. /\ calls' \in [Callers -> Calls]
      /\ \A d \in Callers : /\ calls'[d].pc = calls[d].pc
                            /\ calls'[d].op = calls[d].op
                            /\ calls'[d].phase = calls[d].phase
  BY <1>1, <1>2 DEF TypeOK
<1>4. TypeOK' /\ OneProcess' /\ IdleInv' /\ ClosedInv'
  BY <1>3 DEF TypeOK, OneProcess, IdleInv, ClosedInv, runtime
<1>5. HolderInv' /\ StartInv' /\ ExchangeInv'
  BY <1>3 DEF HolderInv, StartInv, ExchangeInv, Exchanging, At, runtime
<1>6. QED
  BY <1>4, <1>5

\* A call that ends and leaves the process as it is.
LEMMA Ended ==
  ASSUME WorkerInv, NEW c \in Callers, lock = None \/ lock = c,
         NEW outcome \in {"none", "answered", "rejected", "cancelled", "failed"},
         Finish(c, outcome),
         workers' \in Seq(Workers), Len(workers') = Len(workers), DOMAIN workers' = DOMAIN workers,
         \A p \in DOMAIN workers : workers'[p].alive => workers[p].alive,
         UNCHANGED <<kind, process, closed, overflow, closing, broken>>,
         requests' \in Nat, status' \in {"cold", "ready", "failed", "closed"},
         faults' \in Nat, status' = "ready" <=> process # 0
  PROVE  WorkerInv'
<1> DEFINE call == [calls[c] EXCEPT !.pc = "done", !.outcome = outcome]
<1>1. call \in Calls /\ call.pc = "done"
  BY Quiet DEF Calls
<1>2. calls' = [calls EXCEPT ![c] = call] /\ lock' = None
  BY DEF Finish
<1> HIDE DEF call
<1>3. broken' \in BOOLEAN
  BY Quiet
<1>4. QED
  BY <1>1, <1>2, <1>3, CallerStep DEF Inside

LEMMA RefuseOK ==
  ASSUME WorkerInv, NEW c \in Callers, Refuse(c)
  PROVE  WorkerInv'
<1>1. PICK outcome \in {"failed", "cancelled"} : Finish(c, outcome)
  BY DEF Refuse
<1>2. /\ lock = None
      /\ UNCHANGED <<workers, kind, process, closed, overflow, closing, broken, requests, status, faults>>
  BY DEF Refuse, runtime
<1>3. status = "ready" <=> process # 0
  BY <1>2 DEF WorkerInv, IdleInv
<1>4. QED
  BY <1>1, <1>2, <1>3, Quiet, Ended

\* The request of a caller goes to a process that is ready for it.
LEMMA GoOnOK ==
  ASSUME WorkerInv, NEW c \in Callers, lock = None \/ lock = c, ~closed,
         NEW op \in Operation, GoOn(c, op), process # 0, status' = "ready",
         workers' \in Seq(Workers), Len(workers') = Len(workers), DOMAIN workers' = DOMAIN workers,
         \A p \in DOMAIN workers : workers'[p].alive => workers[p].alive,
         UNCHANGED <<kind, process, closed, overflow, closing, broken, requests, faults>>
  PROVE  WorkerInv'
<1>1. CASE op = "generate"
  <2> DEFINE call == [calls[c] EXCEPT !.pc = "write", !.op = op, !.phase = "request"]
  <2>1. /\ call \in Calls /\ call.pc = "write" /\ call.op = op
    BY ZenonT(60), Quiet DEF Calls, Phases
  <2>2. calls' = [calls EXCEPT ![c] = call] /\ lock' = c
    BY <1>1 DEF GoOn
  <2> HIDE DEF call
  <2>3. QED
    BY <2>1, <2>2, Quiet, CallerStep DEF Inside
<1>2. CASE op # "generate"
  BY <1>2, Quiet, Ended DEF GoOn
<1>3. QED
  BY <1>1, <1>2

\* A caller takes the lock to start a process.
LEMMA PrepareOK ==
  ASSUME WorkerInv, NEW c \in Callers, Admitted(c),
         NEW op \in Operation, Prepare(c, op),
         workers' = Dropped(process), process' = 0, requests' \in Nat,
         status' \in {"cold", "ready", "failed", "closed"}, status' # "ready",
         UNCHANGED <<kind, closed, overflow, closing, broken, faults>>
  PROVE  WorkerInv'
<1> USE DEF WorkerInv
<1>0. lock = None /\ ~closed /\ lock' = c
  BY DEF Admitted, Prepare
<1> DEFINE call == [calls[c] EXCEPT !.pc = "spawn", !.op = op]
<1>1. call \in Calls /\ call.pc = "spawn" /\ call.op = op
  BY Quiet DEF Calls
<1>2. calls' = [calls EXCEPT ![c] = call]
  BY DEF Prepare
<1> HIDE DEF call
<1>3. /\ workers' \in Seq(Workers) /\ Len(workers') = Len(workers)
      /\ DOMAIN workers' = DOMAIN workers
      /\ \A q \in DOMAIN workers : ~workers'[q].alive
  BY Quiet, DroppedIs DEF OneProcess
<1>4. /\ calls' \in [Callers -> Calls] /\ calls'[c].pc = "spawn" /\ calls'[c].op = op
      /\ \A d \in Callers : d # c => calls'[d].pc \notin Inside
  BY <1>0, <1>1, <1>2, Quiet, LimitsAssumption DEF HolderInv
<1>5. TypeOK'
  BY <1>0, <1>3, <1>4, Quiet DEF TypeOK
<1>6. OneProcess' /\ IdleInv' /\ ClosedInv'
  BY <1>0, <1>3, LimitsAssumption DEF OneProcess, IdleInv, ClosedInv
<1>7. HolderInv' /\ StartInv' /\ ExchangeInv'
  BY <1>0, <1>4 DEF HolderInv, StartInv, ExchangeInv, Exchanging, At, Inside
<1>8. QED
  BY <1>5, <1>6, <1>7

\* A new process for a caller that found none.
LEMMA SpawnOK ==
  ASSUME WorkerInv, NEW c \in Callers, Spawn(c)
  PROVE  WorkerInv'
<1> USE DEF WorkerInv
<1>0. /\ calls[c].pc = "spawn" /\ lock = c /\ ~closed /\ process = 0 /\ status # "ready"
      /\ UNCHANGED <<kind, closed, closing>>
  BY InsideHolds DEF Spawn, At, Inside, StartInv
<1>1. ASSUME workers' = Append(workers, [alive |-> TRUE, inbox |-> <<>>, answers |-> <<>>,
                                         served |-> 0, stalled |-> FALSE, noisy |-> FALSE]),
             process' = Len(workers) + 1, overflow' = FALSE,
             calls' = [calls EXCEPT ![c].pc = "write", ![c].phase = "warmup"],
             UNCHANGED <<requests, status, broken, lock, faults>>
      PROVE  WorkerInv'
  <2> DEFINE w == [alive |-> TRUE, inbox |-> <<>>, answers |-> <<>>,
                   served |-> 0, stalled |-> FALSE, noisy |-> FALSE]
             call == [calls[c] EXCEPT !.pc = "write", !.phase = "warmup"]
  <2>1. w \in Workers
    BY EmptySeq DEF Workers
  <2>2. workers' = Append(workers, w)
    BY <1>1
  <2>3. call \in Calls /\ call.pc = "write" /\ call.phase = "warmup" /\ call.op = calls[c].op
    BY Quiet DEF Calls, Phases
  <2>4. calls' = [calls EXCEPT ![c] = call]
    BY <1>1
  <2> HIDE DEF w, call
  <2>5. /\ workers' \in Seq(Workers) /\ Len(workers') = Len(workers) + 1
        /\ DOMAIN workers' = DOMAIN workers \union {Len(workers) + 1}
        /\ \A q \in DOMAIN workers : workers'[q] = workers[q]
    BY <2>1, <2>2, Quiet, AppendProperties, LenProperties
  <2>6. /\ calls' \in [Callers -> Calls] /\ calls'[c] = call
        /\ \A d \in Callers : d # c => calls'[d].pc \notin Inside
    BY <1>0, <2>3, <2>4, Quiet DEF HolderInv
  <2>7. closing' \in [Closers -> [pc : {"idle", "read", "killed", "done"},
                                  process : 0 .. Len(workers')]]
    BY <1>0, <2>5, Quiet DEF TypeOK
  <2>8. TypeOK'
    <3>1. process' \in 0 .. Len(workers') /\ requests' \in Nat /\ faults' \in Nat
      BY <1>1, <2>5, Quiet
    <3>2. /\ kind' \in {"mlx", "flash"} /\ lock' \in Callers \union {None}
          /\ status' \in {"cold", "ready", "failed", "closed"}
          /\ broken' \in BOOLEAN /\ closed' \in BOOLEAN /\ overflow' \in BOOLEAN
      BY <1>0, <1>1 DEF TypeOK
    <3>3. QED
      BY <2>5, <2>6, <2>7, <3>1, <3>2 DEF TypeOK
  <2>9. OneProcess'
    BY <1>0, <1>1, <2>5, Quiet DEF OneProcess
  <2>10. calls[c].op \in Operation
    BY <1>0 DEF StartInv, At
  <2>11. HolderInv' /\ StartInv' /\ ExchangeInv'
    BY <1>0, <1>1, <2>3, <2>6, <2>10, Quiet
       DEF HolderInv, StartInv, ExchangeInv, Exchanging, At, Inside
  <2>12. IdleInv' /\ ClosedInv'
    BY <1>0, <1>1, LimitsAssumption DEF IdleInv, ClosedInv
  <2>13. QED
    BY <2>8, <2>9, <2>11, <2>12
<1>2. ASSUME Fault, MarkBroken(c), UNCHANGED overflow
      PROVE  WorkerInv'
  <2>1. faults' \in Nat
    BY <1>2, Quiet DEF Fault
  <2>2. QED
    BY <1>0, <1>2, <2>1, GivenUp DEF MarkBroken
<1>3. ASSUME Fault, Finish(c, "failed"), UNCHANGED <<workers, runtime, overflow>>
      PROVE  WorkerInv'
  <2>1. faults' \in Nat
    BY <1>3, Quiet DEF Fault
  <2>2. QED
    BY <1>0, <1>3, <2>1, Quiet, Ended DEF runtime
<1>4. QED
  BY <1>1, <1>2, <1>3 DEF Spawn

-----------------------------------------------------------------------------
(* The exchange                                                            *)

\* What the holder knows in an exchange.
LEMMA InExchange ==
  ASSUME WorkerInv, NEW c \in Callers, Exchanging(c)
  PROVE  /\ lock = c /\ ~closed /\ process # 0 /\ process \in DOMAIN workers
         /\ workers[process] \in Workers
         /\ calls[c].op \in Operation
         /\ calls[c].phase = "request" => status = "ready"
<1>1. lock = c /\ ~closed
  BY InsideHolds DEF Exchanging, At, Inside
<1>2. process \in DOMAIN workers
  BY Quiet DEF WorkerInv, ExchangeInv
<1>3. QED
  BY <1>1, <1>2, Quiet, WorkerAt DEF WorkerInv, ExchangeInv

\* The answer has been read; the process lives or dies as it did.
LEMMA TakenIs ==
  ASSUME WorkerInv, process \in DOMAIN workers, workers[process] \in Workers, Taken
  PROVE  /\ workers' \in Seq(Workers) /\ Len(workers') = Len(workers)
         /\ DOMAIN workers' = DOMAIN workers
         /\ \A p \in DOMAIN workers : workers'[p].alive => workers[p].alive
<1> DEFINE w == [workers[process] EXCEPT !.answers = <<>>]
<1>1. w \in Workers /\ w.alive = workers[process].alive
  BY EmptySeq DEF Workers
<1>2. workers' = [workers EXCEPT ![process] = w]
  BY DEF Taken
<1> HIDE DEF w
<1>3. QED
  BY <1>1, <1>2, Quiet, ChangedWorker

LEMMA WriteLineOK ==
  ASSUME WorkerInv, NEW c \in Callers, WriteLine(c)
  PROVE  WorkerInv'
<1>0. Exchanging(c)
  BY DEF WriteLine, Exchanging
<1>1. calls[c] \in Calls
  BY Quiet
<1>2. Line(c) \in Lines
  BY <1>1 DEF Line, Lines, Calls
<1> DEFINE inbox == Append(workers[process].inbox, Line(c))
           w == [workers[process] EXCEPT !.inbox = inbox]
           call == [calls[c] EXCEPT !.pc = "read"]
<1>3. inbox \in Seq(Lines)
  BY <1>0, <1>2, InExchange, AppendProperties DEF Workers
<1> HIDE DEF inbox
<1>4. w \in Workers /\ w.alive = workers[process].alive
  BY <1>0, <1>3, InExchange DEF Workers
<1>5. workers' = [workers EXCEPT ![process] = w]
  BY DEF WriteLine, inbox
<1>6. call \in Calls /\ call.pc = "read" /\ call.op = calls[c].op /\ call.phase = calls[c].phase
  BY <1>1 DEF Calls
<1>7. calls' = [calls EXCEPT ![c] = call]
  BY DEF WriteLine, Go
<1>8. UNCHANGED <<kind, process, requests, status, broken, closed, overflow, lock, closing, faults>>
  BY DEF WriteLine, runtime
<1> HIDE DEF w, call
<1>9. /\ workers' \in Seq(Workers) /\ Len(workers') = Len(workers)
      /\ DOMAIN workers' = DOMAIN workers
      /\ \A p \in DOMAIN workers : workers'[p].alive => workers[p].alive
  BY <1>0, <1>4, <1>5, Quiet, InExchange, ChangedWorker
<1>10. QED
  BY <1>0, <1>6, <1>7, <1>8, <1>9, Quiet, InExchange, CallerStep DEF Inside

\* An end of file, a deadline, an unusable process or a bad answer.
LEMMA BrokenOK ==
  ASSUME WorkerInv, NEW c \in Callers, lock = None \/ lock = c, MarkBroken(c),
         UNCHANGED <<kind, closed, overflow, closing, faults>>
  PROVE  WorkerInv'
<1>1. faults' \in Nat
  BY Quiet
<1>2. QED
  BY <1>1, GivenUp DEF MarkBroken

LEMMA BreakingOK ==
  ASSUME WorkerInv, NEW c \in Callers,
         FindUnusable(c) \/ Eof(c) \/ Timeout(c) \/ ReadInvalid(c)
  PROVE  WorkerInv'
<1>1. lock = None \/ lock = c
  BY InExchange DEF FindUnusable, Admitted, Eof, Timeout, ReadInvalid
<1>2. MarkBroken(c) /\ UNCHANGED <<kind, closed, overflow, closing, faults>>
  BY DEF FindUnusable, Eof, Timeout, ReadInvalid
<1>3. QED
  BY <1>1, <1>2, BrokenOK

LEMMA SeeCancellationOK ==
  ASSUME WorkerInv, NEW c \in Callers, SeeCancellation(c)
  PROVE  WorkerInv'
<1>1. lock = c
  BY InExchange DEF SeeCancellation
<1>2. QED
  BY <1>1, Quiet, GivenUp DEF SeeCancellation, ResetCancelled

LEMMA ReadWarmupOK ==
  ASSUME WorkerInv, NEW c \in Callers, ReadWarmup(c)
  PROVE  WorkerInv'
<1>1. Exchanging(c) /\ Taken /\ status' = "ready" /\ GoOn(c, calls[c].op)
      /\ UNCHANGED <<kind, process, requests, broken, closed, overflow, closing, faults>>
  BY DEF ReadWarmup
<1>2. QED
  BY <1>1, InExchange, TakenIs, GoOnOK

LEMMA AnsweredOK ==
  ASSUME WorkerInv, NEW c \in Callers, ReadAnswer(c) \/ ReadRejected(c)
  PROVE  WorkerInv'
<1>1. PICK outcome \in {"answered", "rejected"} : Finish(c, outcome)
  BY DEF ReadAnswer, ReadRejected
<1>2. Exchanging(c) /\ Taken /\ status' = "ready" /\ requests' = requests + 1
      /\ UNCHANGED <<kind, process, broken, closed, overflow, closing, faults>>
  BY DEF ReadAnswer, ReadRejected
<1>3. requests' \in Nat /\ faults' \in Nat
  BY <1>2, Quiet
<1>4. QED
  BY <1>1, <1>2, <1>3, InExchange, TakenIs, Ended

LEMMA ReuseOK ==
  ASSUME WorkerInv, NEW c \in Callers, NEW op \in Operation, Reuse(c, op)
  PROVE  WorkerInv'
<1>1. lock = None /\ ~closed /\ process # 0 /\ status = "ready" /\ GoOn(c, op)
      /\ UNCHANGED <<workers, kind, process, requests, status, broken, closed, overflow,
                     closing, faults>>
  BY DEF Reuse, Admitted, Alive, runtime
<1>2. QED
  BY <1>1, Quiet, GoOnOK

LEMMA RecycleOK ==
  ASSUME WorkerInv, NEW c \in Callers, NEW op \in Operation, Recycle(c, op)
  PROVE  WorkerInv'
  BY PrepareOK DEF Recycle

LEMMA LackOK ==
  ASSUME WorkerInv, NEW c \in Callers, NEW op \in Operation, Lack(c, op)
  PROVE  WorkerInv'
<1>1. status # "ready"
  BY DEF WorkerInv, IdleInv, Lack, Admitted
<1>2. workers' = Dropped(process)
  BY DEF Lack, Dropped
<1>3. QED
  BY <1>1, <1>2, Quiet, PrepareOK DEF Lack, runtime

-----------------------------------------------------------------------------
(* The worker process and close                                            *)

\* Whatever happens to a process, it does not come back to life.
LEMMA ProcessStep ==
  ASSUME WorkerInv, NEW p \in DOMAIN workers, NEW w \in Workers,
         w.alive => workers[p].alive, workers' = [workers EXCEPT ![p] = w],
         UNCHANGED <<kind, runtime, closed, lock, calls, closing>>,
         overflow' \in BOOLEAN, faults' \in Nat
  PROVE  WorkerInv'
<1>1. /\ workers' \in Seq(Workers) /\ Len(workers') = Len(workers)
      /\ DOMAIN workers' = DOMAIN workers
      /\ \A q \in DOMAIN workers : workers'[q].alive => workers[q].alive
  BY Quiet, ChangedWorker
<1>2. closing' \in [Closers -> [pc : {"idle", "read", "killed", "done"},
                                process : 0 .. Len(workers)]]
  BY DEF WorkerInv, TypeOK
<1>3. QED
  BY <1>1, <1>2, OutsideStep

LEMMA ServeOK ==
  ASSUME WorkerInv, NEW p \in DOMAIN workers, Serve(p)
  PROVE  WorkerInv'
<1>1. workers[p] \in Workers /\ overflow \in BOOLEAN /\ faults \in Nat
  BY Quiet, WorkerAt DEF WorkerInv, TypeOK
<1>2. UNCHANGED <<kind, runtime, closed, overflow, lock, calls, closing>>
  BY DEF Serve
<1>3. faults' \in Nat
  BY <1>1 DEF Serve, Fault
<1>4. ASSUME workers' = [workers EXCEPT ![p].alive = FALSE]
      PROVE  WorkerInv'
  <2> DEFINE w == [workers[p] EXCEPT !.alive = FALSE]
  <2>1. w \in Workers /\ w.alive = FALSE /\ workers' = [workers EXCEPT ![p] = w]
    BY <1>1, <1>4 DEF Workers
  <2> HIDE DEF w
  <2>2. QED
    BY <1>1, <1>2, <1>3, <2>1, ProcessStep
<1>5. ASSUME NEW good \in BOOLEAN,
             workers' = [workers EXCEPT ![p].inbox = Tail(@),
                             ![p].answers = Append(@, [line |-> Head(workers[p].inbox),
                                                       good |-> good]),
                             ![p].served = @ + 1]
      PROVE  WorkerInv'
  <2> DEFINE answer == [line |-> Head(workers[p].inbox), good |-> good]
             inbox == Tail(workers[p].inbox)
             answers == Append(workers[p].answers, answer)
             served == workers[p].served + 1
             w == [workers[p] EXCEPT !.inbox = inbox, !.answers = answers, !.served = served]
  <2>1. workers[p].inbox \in Seq(Lines) /\ workers[p].inbox # <<>>
    BY <1>1 DEF Serve, Workers
  <2>2. Head(workers[p].inbox) \in Lines /\ inbox \in Seq(Lines)
    BY <2>1, HeadTailProperties
  <2>3. answer \in [line : Lines, good : BOOLEAN]
    BY <2>2
  <2>4. workers[p].answers \in Seq([line : Lines, good : BOOLEAN]) /\ served \in Nat
    BY <1>1 DEF Workers
  <2> HIDE DEF answer
  <2>5. answers \in Seq([line : Lines, good : BOOLEAN])
    BY <2>3, <2>4, AppendProperties
  <2>6. workers' = [workers EXCEPT ![p] = w]
    BY <1>5 DEF answer
  <2> HIDE DEF inbox, answers, served
  <2>7. w \in Workers /\ w.alive = workers[p].alive
    BY <1>1, <2>2, <2>4, <2>5 DEF Workers
  <2> HIDE DEF w
  <2>8. QED
    BY <1>1, <1>2, <1>3, <2>6, <2>7, ProcessStep
<1>6. \/ workers' = [workers EXCEPT ![p].alive = FALSE]
      \/ \E good \in BOOLEAN :
            workers' = [workers EXCEPT ![p].inbox = Tail(@),
                            ![p].answers = Append(@, [line |-> Head(workers[p].inbox),
                                                      good |-> good]),
                            ![p].served = @ + 1]
  BY DEF Serve
<1>7. QED
  BY <1>4, <1>5, <1>6

LEMMA MisbehaveOK ==
  ASSUME WorkerInv, NEW p \in DOMAIN workers, Misbehave(p)
  PROVE  WorkerInv'
<1>1. workers[p] \in Workers /\ overflow' \in BOOLEAN /\ faults' \in Nat
  BY Quiet, WorkerAt DEF WorkerInv, TypeOK, Misbehave, Fault
<1> DEFINE dead == [workers[p] EXCEPT !.alive = FALSE]
           stuck == [workers[p] EXCEPT !.stalled = TRUE]
           loud == [workers[p] EXCEPT !.noisy = TRUE]
<1>2. dead \in Workers /\ stuck \in Workers /\ loud \in Workers
      /\ ~dead.alive /\ stuck.alive = workers[p].alive /\ loud.alive = workers[p].alive
  BY <1>1 DEF Workers
<1>3. \E w \in {dead, stuck, loud} : workers' = [workers EXCEPT ![p] = w]
  BY DEF Misbehave
<1> HIDE DEF dead, stuck, loud
<1>4. PICK w \in {dead, stuck, loud} : workers' = [workers EXCEPT ![p] = w]
  BY <1>3
<1>5. w \in Workers /\ (w.alive => workers[p].alive)
  BY <1>2
<1>6. UNCHANGED <<kind, runtime, closed, overflow, lock, calls, closing>>
  BY DEF Misbehave
<1>7. QED
  BY <1>1, <1>4, <1>5, <1>6, ProcessStep

LEMMA DrainOK ==
  ASSUME WorkerInv, NEW p \in DOMAIN workers, Drain(p)
  PROVE  WorkerInv'
<1>1. workers[p] \in Workers /\ overflow' \in BOOLEAN /\ faults' \in Nat
  BY Quiet, WorkerAt DEF Drain
<1> DEFINE w == [workers[p] EXCEPT !.noisy = FALSE]
<1>2. w \in Workers /\ w.alive = workers[p].alive /\ workers' = [workers EXCEPT ![p] = w]
  BY <1>1 DEF Workers, Drain
<1>3. UNCHANGED <<kind, runtime, closed, lock, calls, closing>>
  BY DEF Drain
<1> HIDE DEF w
<1>4. QED
  BY <1>1, <1>2, <1>3, ProcessStep

Closings == [pc : {"idle", "read", "killed", "done"}, process : 0 .. Len(workers)]

LEMMA CloseReadOK ==
  ASSUME WorkerInv, NEW k \in Closers, CloseRead(k)
  PROVE  WorkerInv'
<1>1. closing' \in [Closers -> Closings]
  BY Quiet DEF WorkerInv, TypeOK, CloseRead, Closings
<1>2. UNCHANGED <<kind, workers, runtime, closed, overflow, lock, calls, faults>>
  BY DEF CloseRead
<1>3. overflow' \in BOOLEAN /\ faults' \in Nat
  BY <1>2 DEF WorkerInv, TypeOK
<1>4. QED
  BY <1>1, <1>2, <1>3, Quiet, OutsideStep DEF Closings

LEMMA CloseKillOK ==
  ASSUME WorkerInv, NEW k \in Closers, CloseKill(k)
  PROVE  WorkerInv'
<1>1. closing \in [Closers -> Closings] /\ closing[k].process \in 0 .. Len(workers)
  BY DEF WorkerInv, TypeOK, Closings
<1>2. closing' \in [Closers -> Closings]
  BY <1>1 DEF CloseKill, Closings
<1>3. /\ workers' \in Seq(Workers) /\ Len(workers') = Len(workers)
      /\ DOMAIN workers' = DOMAIN workers
      /\ \A q \in DOMAIN workers : workers'[q].alive => workers[q].alive
  BY <1>1, Quiet, TerminatedIs DEF CloseKill
<1>4. UNCHANGED <<kind, runtime, closed, overflow, lock, calls, faults>>
  BY DEF CloseKill
<1>5. overflow' \in BOOLEAN /\ faults' \in Nat
  BY <1>4 DEF WorkerInv, TypeOK
<1>6. QED
  BY <1>2, <1>3, <1>4, <1>5, OutsideStep DEF Closings

\* Under the lock nobody is inside, so whatever process there is can go.
LEMMA CloseFinallyOK ==
  ASSUME WorkerInv, NEW k \in Closers, CloseFinally(k)
  PROVE  WorkerInv'
<1>1. closing \in [Closers -> Closings]
  BY DEF WorkerInv, TypeOK, Closings
<1>2. closing' \in [Closers -> Closings]
  BY <1>1 DEF CloseFinally, Closings
<1>3. UNCHANGED <<kind, overflow, lock, calls, faults>> /\ lock = None
  BY DEF CloseFinally
<1>4. overflow' \in BOOLEAN /\ faults' \in Nat
  BY <1>3 DEF WorkerInv, TypeOK
<1>5. CASE closed
  BY <1>2, <1>3, <1>4, <1>5, Quiet, OutsideStep DEF CloseFinally, Closings
<1>6. CASE ~closed
  <2>1. /\ closed' = TRUE /\ status' = "closed" /\ process' = 0 /\ requests' = 0
        /\ workers' = Dropped(process) /\ UNCHANGED broken
    BY <1>6 DEF CloseFinally
  <2>2. /\ workers' \in Seq(Workers) /\ Len(workers') = Len(workers)
        /\ DOMAIN workers' = DOMAIN workers
        /\ \A q \in DOMAIN workers : ~workers'[q].alive
    BY <2>1, Quiet, DroppedIs DEF WorkerInv, OneProcess
  <2>3. TypeOK'
    BY <1>2, <1>3, <2>1, <2>2, Quiet DEF WorkerInv, TypeOK, Closings
  <2>4. \A c \in Callers : calls[c].pc \notin Inside
    BY <1>3, LimitsAssumption DEF WorkerInv, HolderInv
  <2>5. HolderInv' /\ StartInv' /\ ExchangeInv'
    BY <1>3, <2>4, LimitsAssumption DEF HolderInv, StartInv, ExchangeInv, Exchanging, At, Inside
  <2>6. OneProcess' /\ IdleInv' /\ ClosedInv'
    BY <1>3, <2>1, <2>2 DEF OneProcess, IdleInv, ClosedInv
  <2>7. QED
    BY <2>3, <2>5, <2>6 DEF WorkerInv
<1>7. QED
  BY <1>5, <1>6

-----------------------------------------------------------------------------
LEMMA NextOK ==
  ASSUME WorkerInv, [Next]_vars
  PROVE  WorkerInv'
<1>1. CASE UNCHANGED vars
  BY <1>1 DEF vars, runtime, WorkerInv, TypeOK, OneProcess, HolderInv, StartInv, ExchangeInv,
              Exchanging, At, IdleInv, ClosedInv
<1>2. ASSUME NEW c \in Callers, Step(c)
      PROVE  WorkerInv'
  <2>1. CASE \E op \in Operation : Reuse(c, op) \/ Recycle(c, op) \/ Lack(c, op)
    BY <2>1, ReuseOK, RecycleOK, LackOK
  <2>2. CASE FindUnusable(c) \/ Eof(c) \/ Timeout(c) \/ ReadInvalid(c)
    BY <2>2, BreakingOK
  <2>3. CASE Refuse(c)
    BY <2>3, RefuseOK
  <2>4. CASE Spawn(c)
    BY <2>4, SpawnOK
  <2>5. CASE WriteLine(c)
    BY <2>5, WriteLineOK
  <2>6. CASE SeeCancellation(c)
    BY <2>6, SeeCancellationOK
  <2>7. CASE ReadWarmup(c)
    BY <2>7, ReadWarmupOK
  <2>8. CASE ReadAnswer(c) \/ ReadRejected(c)
    BY <2>8, AnsweredOK
  <2>9. QED
    BY <1>2, <2>1, <2>2, <2>3, <2>4, <2>5, <2>6, <2>7, <2>8 DEF Step
<1>3. ASSUME NEW c \in Callers, Cancel(c)
      PROVE  WorkerInv'
  BY <1>3, CancelOK
<1>4. ASSUME NEW p \in DOMAIN workers, Serve(p) \/ Misbehave(p) \/ Drain(p)
      PROVE  WorkerInv'
  BY <1>4, ServeOK, MisbehaveOK, DrainOK
<1>5. ASSUME NEW k \in Closers, CloseStep(k)
      PROVE  WorkerInv'
  BY <1>5, CloseReadOK, CloseKillOK, CloseFinallyOK DEF CloseStep
<1>6. QED
  BY <1>1, <1>2, <1>3, <1>4, <1>5 DEF Next, Stopped

\* For any number of callers, closes, processes and faults: only the process the
\* runtime names is alive, the lock has one holder, and the holder finds what it
\* left before its last wait.
THEOREM WorkerSafety == Spec => []WorkerInv
<1>1. Init => WorkerInv
  BY InitOK
<1>2. WorkerInv /\ [Next]_vars => WorkerInv'
  BY NextOK
<1>3. QED
  BY <1>1, <1>2, PTL DEF Spec

\* No model is left in memory by a cancellation, a replacement, a failed start or
\* a close that races them, and an idle runtime reports a process exactly when it
\* has one.
THEOREM NoWorkerIsStray == Spec => []NoStrayWorker
<1>1. WorkerInv => NoStrayWorker
  BY DEF WorkerInv, NoStrayWorker, OneProcess, IdleInv
<1>2. QED
  BY <1>1, WorkerSafety, PTL

-----------------------------------------------------------------------------
(* A runtime in which nothing has gone wrong                               *)

Calm == faults = 0 /\ \A k \in Closers : closing[k].pc = "idle"

\* The lines a process had answered before the caller's.
Before(c) == IF calls[c].phase = "warmup" THEN 0 ELSE requests + 1

Silent(w, n) == w.inbox = <<>> /\ w.answers = <<>> /\ w.served = n
Sent(w, c) == w.inbox = <<Line(c)>> /\ w.answers = <<>> /\ w.served = Before(c)
Answered(w, c) ==
  /\ w.inbox = <<>> /\ w.served = Before(c) + 1
  /\ \E good \in BOOLEAN : /\ w.answers = <<[line |-> Line(c), good |-> good]>>
                           /\ good \/ (kind = "flash" /\ calls[c].phase = "request")

\* What is in the pipes of the process while c is in its exchange.
PipeInv(c) ==
  /\ calls[c].phase \in {"warmup", "request"}
  /\ calls[c].phase = "warmup" => requests = 0
  /\ calls[c].phase = "request" => requests < MaxRequests
  /\ At(c, "write") => Silent(workers[process], Before(c))
  /\ At(c, "read") => Sent(workers[process], c) \/ Answered(workers[process], c)

\* The process is healthy and within its limit, and its pipes hold nothing but the
\* exchange under way.
HealthInv ==
  /\ ~broken /\ ~closed /\ ~overflow
  /\ \A p \in DOMAIN workers : ~workers[p].stalled /\ ~workers[p].noisy
  /\ process # 0 => workers[process].alive
  /\ requests <= MaxRequests /\ (process = 0 => requests = 0)
  /\ lock = None /\ process # 0 => Silent(workers[process], requests + 1)
  /\ \A c \in Callers : Exchanging(c) => PipeInv(c)

OutcomeFits(c) == /\ calls[c].outcome # "failed"
                  /\ calls[c].outcome = "rejected" => kind = "flash"
                  /\ calls[c].outcome = "cancelled" => calls[c].cancelled

CalmInv == Calm => HealthInv /\ \A c \in Callers : OutcomeFits(c)

\* A call changes and what it may rely on still holds; nobody else is inside.
LEMMA HealthyCall ==
  ASSUME WorkerInv, HealthInv, \A d \in Callers : OutcomeFits(d),
         NEW c \in Callers, lock = None \/ lock = c,
         NEW call \in Calls, calls' = [calls EXCEPT ![c] = call],
         UNCHANGED <<kind, broken, closed, overflow>>,
         \A p \in DOMAIN workers' : ~workers'[p].stalled /\ ~workers'[p].noisy,
         process' # 0 => workers'[process'].alive,
         requests' <= MaxRequests, process' = 0 => requests' = 0,
         lock' = None /\ process' # 0 => Silent(workers'[process'], requests' + 1),
         call.pc \in {"write", "read"} => PipeInv(c)',
         /\ call.outcome # "failed"
         /\ call.outcome = "rejected" => kind = "flash"
         /\ call.outcome = "cancelled" => call.cancelled
  PROVE  HealthInv' /\ \A d \in Callers : OutcomeFits(d)'
<1>1. calls' \in [Callers -> Calls] /\ calls'[c] = call
      /\ \A d \in Callers : d # c => calls'[d] = calls[d]
  BY Quiet
<1>2. \A d \in Callers : d # c => calls[d].pc \notin Inside
  BY LimitsAssumption DEF WorkerInv, HolderInv
<1>3. \A d \in Callers : Exchanging(d)' => PipeInv(d)'
  <2> SUFFICES ASSUME NEW d \in Callers, Exchanging(d)'
               PROVE  PipeInv(d)'
    OBVIOUS
  <2>1. d = c
    BY <1>1, <1>2 DEF Exchanging, At, Inside
  <2>2. call.pc \in {"write", "read"}
    BY <1>1, <2>1 DEF Exchanging, At
  <2>3. QED
    BY <2>1, <2>2
<1>4. \A d \in Callers : OutcomeFits(d)'
  BY <1>1 DEF OutcomeFits
<1>5. HealthInv'
  BY <1>3 DEF HealthInv
<1>6. QED
  BY <1>4, <1>5

\* A process that is dropped leaves no noise and no stall behind.
LEMMA DroppedIsHealthy ==
  ASSUME WorkerInv, HealthInv, workers' = Dropped(process)
  PROVE  \A p \in DOMAIN workers' : ~workers'[p].stalled /\ ~workers'[p].noisy
<1>1. DOMAIN workers' = DOMAIN workers /\ \A p \in DOMAIN workers : p # process => workers'[p] = workers[p]
  BY Quiet, DroppedIs
<1>2. CASE process = 0
  BY <1>2, Quiet DEF HealthInv, Dropped
<1>3. CASE process # 0
  <2>1. process \in DOMAIN workers
    BY <1>3, Quiet
  <2>2. /\ workers'[process].stalled = FALSE
        /\ workers'[process].noisy = workers[process].noisy
    BY <1>3, <2>1 DEF Dropped
  <2>3. QED
    BY <1>1, <2>1, <2>2 DEF HealthInv
<1>4. QED
  BY <1>2, <1>3

LEMMA HealthyCancel ==
  ASSUME WorkerInv, HealthInv, \A d \in Callers : OutcomeFits(d), NEW c \in Callers, Cancel(c)
  PROVE  HealthInv' /\ \A d \in Callers : OutcomeFits(d)'
<1> DEFINE call == [calls[c] EXCEPT !.cancelled = TRUE]
<1>1. /\ call.pc = calls[c].pc /\ call.phase = calls[c].phase
      /\ call.outcome = calls[c].outcome /\ call.cancelled = TRUE
  BY Quiet DEF Calls
<1>2. calls' = [calls EXCEPT ![c] = call]
      /\ UNCHANGED <<kind, workers, process, requests, broken, closed, overflow, lock>>
  BY DEF Cancel, runtime
<1> HIDE DEF call
<1>3. \A d \in Callers : /\ calls'[d].pc = calls[d].pc /\ calls'[d].phase = calls[d].phase
                         /\ calls'[d].outcome = calls[d].outcome
                         /\ calls'[d].cancelled \/ calls'[d].cancelled = calls[d].cancelled
  BY <1>1, <1>2, Quiet
<1>4. \A d \in Callers : /\ Exchanging(d)' = Exchanging(d)
                         /\ PipeInv(d) => PipeInv(d)'
  BY <1>2, <1>3 DEF Exchanging, At, PipeInv, Silent, Sent, Answered, Before, Line
<1>5. HealthInv'
  BY <1>2, <1>4 DEF HealthInv, Silent
<1>6. QED
  BY <1>2, <1>3, <1>5 DEF OutcomeFits

LEMMA HealthyRefuse ==
  ASSUME WorkerInv, HealthInv, \A d \in Callers : OutcomeFits(d), NEW c \in Callers, Refuse(c)
  PROVE  HealthInv' /\ \A d \in Callers : OutcomeFits(d)'
<1>1. /\ lock = None /\ calls[c].cancelled /\ Finish(c, "cancelled")
      /\ UNCHANGED <<kind, workers, process, requests, broken, closed, overflow>>
  BY DEF Refuse, HealthInv, runtime
<1> DEFINE call == [calls[c] EXCEPT !.pc = "done", !.outcome = "cancelled"]
<1>2. call \in Calls /\ call.pc = "done" /\ call.outcome = "cancelled"
      /\ call.cancelled = calls[c].cancelled
  BY Quiet DEF Calls
<1>3. calls' = [calls EXCEPT ![c] = call] /\ lock' = None
  BY <1>1 DEF Finish
<1> HIDE DEF call
<1>4. QED
  BY <1>1, <1>2, <1>3, HealthyCall DEF HealthInv, Silent

\* A warm process takes the caller's request, or the call is at its end.
LEMMA HealthyGoOn ==
  ASSUME WorkerInv, HealthInv, \A d \in Callers : OutcomeFits(d),
         NEW c \in Callers, lock = None \/ lock = c,
         NEW op \in Operation, GoOn(c, op), process # 0,
         UNCHANGED <<kind, process, requests, broken, closed, overflow>>,
         \A p \in DOMAIN workers' : ~workers'[p].stalled /\ ~workers'[p].noisy,
         workers'[process].alive, Silent(workers'[process], requests + 1),
         requests < MaxRequests
  PROVE  HealthInv' /\ \A d \in Callers : OutcomeFits(d)'
<1>0. calls \in [Callers -> Calls] /\ requests \in Nat /\ MaxRequests \in Nat
  BY Quiet, LimitsAssumption
<1>1. CASE op = "generate"
  <2> DEFINE call == [calls[c] EXCEPT !.pc = "write", !.op = op, !.phase = "request"]
  <2>1. /\ call \in Calls /\ call.pc = "write" /\ call.phase = "request"
        /\ call.outcome = calls[c].outcome /\ call.cancelled = calls[c].cancelled
    BY ZenonT(60), <1>0 DEF Calls, Phases
  <2>2. calls' = [calls EXCEPT ![c] = call] /\ lock' = c
    BY <1>1 DEF GoOn
  <2> HIDE DEF call
  <2>3. calls'[c] = call
    BY <1>0, <2>2
  <2>4. PipeInv(c)'
    BY <2>1, <2>3 DEF PipeInv, Before, At
  <2>5. requests' <= MaxRequests
    BY <1>0
  <2>6. /\ call.outcome # "failed" /\ (call.outcome = "rejected" => kind = "flash")
        /\ call.outcome = "cancelled" => call.cancelled
    BY <2>1 DEF OutcomeFits
  <2>7. lock' # None
    BY <2>2, LimitsAssumption
  <2>8. QED
    BY <2>1, <2>2, <2>4, <2>5, <2>6, <2>7, HealthyCall
<1>2. CASE op # "generate"
  <2> DEFINE call == [calls[c] EXCEPT !.pc = "done", !.outcome = "answered"]
  <2>1. call \in Calls /\ call.pc = "done" /\ call.outcome = "answered"
    BY <1>0 DEF Calls
  <2>2. calls' = [calls EXCEPT ![c] = call] /\ lock' = None
    BY <1>2 DEF GoOn, Finish
  <2> HIDE DEF call
  <2>3. requests' <= MaxRequests
    BY <1>0
  <2>4. QED
    BY <2>1, <2>2, <2>3, HealthyCall
<1>3. QED
  BY <1>1, <1>2

LEMMA HealthyReuse ==
  ASSUME WorkerInv, HealthInv, \A d \in Callers : OutcomeFits(d),
         NEW c \in Callers, NEW op \in Operation, Reuse(c, op)
  PROVE  HealthInv' /\ \A d \in Callers : OutcomeFits(d)'
<1>1. /\ lock = None /\ process # 0 /\ requests < MaxRequests /\ GoOn(c, op)
      /\ UNCHANGED <<kind, workers, process, requests, broken, closed, overflow>>
  BY DEF Reuse, Admitted, Alive, runtime
<1>2. QED
  BY <1>1, HealthyGoOn DEF HealthInv

\* A caller takes the lock for the start of a process.
LEMMA HealthyPrepare ==
  ASSUME WorkerInv, HealthInv, \A d \in Callers : OutcomeFits(d),
         NEW c \in Callers, NEW op \in Operation, Recycle(c, op) \/ Lack(c, op)
  PROVE  HealthInv' /\ \A d \in Callers : OutcomeFits(d)'
<1>1. /\ lock = None /\ Prepare(c, op) /\ process' = 0 /\ workers' = Dropped(process)
      /\ UNCHANGED <<kind, broken, closed, overflow>>
  BY DEF Recycle, Lack, Admitted, runtime, Dropped
<1>2. requests' = 0
  BY DEF Recycle, Lack, runtime, HealthInv
<1> DEFINE call == [calls[c] EXCEPT !.pc = "spawn", !.op = op]
<1>3. /\ call \in Calls /\ call.pc = "spawn"
      /\ call.outcome = calls[c].outcome /\ call.cancelled = calls[c].cancelled
  BY Quiet DEF Calls
<1>4. calls' = [calls EXCEPT ![c] = call]
  BY <1>1 DEF Prepare
<1> HIDE DEF call
<1>5. requests' <= MaxRequests
  BY <1>2, LimitsAssumption
<1>6. /\ call.outcome # "failed" /\ (call.outcome = "rejected" => kind = "flash")
      /\ call.outcome = "cancelled" => call.cancelled
  BY <1>3 DEF OutcomeFits
<1>7. \A p \in DOMAIN workers' : ~workers'[p].stalled /\ ~workers'[p].noisy
  BY <1>1, DroppedIsHealthy
<1>8. QED
  BY <1>1, <1>2, <1>3, <1>4, <1>5, <1>6, <1>7, HealthyCall

LEMMA HealthySpawn ==
  ASSUME WorkerInv, HealthInv, \A d \in Callers : OutcomeFits(d), Calm,
         NEW c \in Callers, Spawn(c), Calm'
  PROVE  HealthInv' /\ \A d \in Callers : OutcomeFits(d)'
<1>0. /\ lock = c /\ process = 0 /\ requests = 0
  BY InsideHolds DEF Spawn, At, Inside, WorkerInv, StartInv, HealthInv
<1> DEFINE w == [alive |-> TRUE, inbox |-> <<>>, answers |-> <<>>,
                 served |-> 0, stalled |-> FALSE, noisy |-> FALSE]
           call == [calls[c] EXCEPT !.pc = "write", !.phase = "warmup"]
<1>1. ~Fault
  BY DEF Calm, Fault
<1>2. /\ workers' = Append(workers, w) /\ process' = Len(workers) + 1 /\ overflow' = FALSE
      /\ calls' = [calls EXCEPT ![c] = call]
      /\ UNCHANGED <<requests, broken, lock, kind, closed>>
  BY <1>1 DEF Spawn
<1>3. w \in Workers /\ w.alive /\ ~w.stalled /\ ~w.noisy /\ Silent(w, 0)
  BY EmptySeq DEF Workers, Silent
<1>4. /\ call \in Calls /\ call.pc = "write" /\ call.phase = "warmup"
      /\ call.outcome = calls[c].outcome /\ call.cancelled = calls[c].cancelled
  BY Quiet DEF Calls, Phases
<1> HIDE DEF w, call
<1>5. /\ DOMAIN workers' = DOMAIN workers \union {Len(workers) + 1}
      /\ workers'[Len(workers) + 1] = w
      /\ \A q \in DOMAIN workers : workers'[q] = workers[q]
  BY <1>2, <1>3, Quiet, AppendProperties, LenProperties
<1>6. \A p \in DOMAIN workers' : ~workers'[p].stalled /\ ~workers'[p].noisy
  BY <1>3, <1>5 DEF HealthInv
<1>7. calls'[c] = call
  BY <1>2, Quiet
<1>8. PipeInv(c)'
  BY <1>0, <1>2, <1>3, <1>4, <1>5, <1>7 DEF PipeInv, Before, At
<1>9. requests' <= MaxRequests /\ process' # 0 /\ lock' # None
  BY <1>0, <1>2, Quiet, LimitsAssumption
<1>10. /\ call.outcome # "failed" /\ (call.outcome = "rejected" => kind = "flash")
       /\ call.outcome = "cancelled" => call.cancelled
  BY <1>4 DEF OutcomeFits
<1>11. workers'[process'].alive /\ UNCHANGED overflow
  BY <1>2, <1>3, <1>5 DEF HealthInv, WorkerInv, TypeOK
<1>12. QED
  BY <1>0, <1>2, <1>4, <1>6, <1>8, <1>9, <1>10, <1>11, HealthyCall

\* What the caller finds in the pipes in a healthy exchange.
LEMMA HealthyExchange ==
  ASSUME WorkerInv, HealthInv, NEW c \in Callers, Exchanging(c)
  PROVE  /\ lock = c /\ process # 0 /\ process \in DOMAIN workers /\ workers[process] \in Workers
         /\ workers[process].alive /\ ~workers[process].stalled
         /\ PipeInv(c)
         /\ workers[process].answers # <<>> => At(c, "read") /\ Answered(workers[process], c)
  BY InExchange DEF HealthInv, PipeInv, Exchanging, Silent, Sent

LEMMA HealthyWrite ==
  ASSUME WorkerInv, HealthInv, \A d \in Callers : OutcomeFits(d), NEW c \in Callers, WriteLine(c)
  PROVE  HealthInv' /\ \A d \in Callers : OutcomeFits(d)'
<1>0. Exchanging(c) /\ At(c, "write")
  BY DEF WriteLine, Exchanging
<1>1. /\ lock = c /\ process # 0 /\ process \in DOMAIN workers /\ workers[process] \in Workers
      /\ workers[process].alive /\ PipeInv(c) /\ Silent(workers[process], Before(c))
  BY <1>0, HealthyExchange DEF PipeInv
<1>2. calls[c] \in Calls
  BY Quiet
<1> DEFINE w == [workers[process] EXCEPT !.inbox = Append(@, Line(c))]
           call == [calls[c] EXCEPT !.pc = "read"]
<1>3. Append(workers[process].inbox, Line(c)) = <<Line(c)>>
  BY <1>1 DEF Silent
<1>4. /\ w.alive = workers[process].alive /\ w.inbox = <<Line(c)>> /\ w.answers = <<>>
      /\ w.served = Before(c) /\ w.stalled = workers[process].stalled
      /\ w.noisy = workers[process].noisy
  BY <1>1, <1>3 DEF Workers, Silent
<1>5. workers' = [workers EXCEPT ![process] = w] /\ calls' = [calls EXCEPT ![c] = call]
      /\ UNCHANGED <<kind, process, requests, broken, closed, overflow, lock>>
  BY DEF WriteLine, Go, runtime
<1>6. /\ call \in Calls /\ call.pc = "read" /\ call.phase = calls[c].phase
      /\ call.outcome = calls[c].outcome /\ call.cancelled = calls[c].cancelled
  BY <1>2 DEF Calls
<1> HIDE DEF w, call
<1>7. calls'[c] = call /\ workers'[process] = w /\ DOMAIN workers' = DOMAIN workers
      /\ \A p \in DOMAIN workers : p # process => workers'[p] = workers[p]
  BY <1>1, <1>5, Quiet
<1>8. Line(c)' = Line(c) /\ Before(c)' = Before(c)
  BY <1>5, <1>6, <1>7 DEF Line, Before
<1>9. PipeInv(c)'
  BY <1>1, <1>4, <1>5, <1>6, <1>7, <1>8 DEF PipeInv, At, Sent
<1>10. \A p \in DOMAIN workers' : ~workers'[p].stalled /\ ~workers'[p].noisy
  BY <1>1, <1>4, <1>7 DEF HealthInv
<1>11. /\ call.outcome # "failed" /\ (call.outcome = "rejected" => kind = "flash")
       /\ call.outcome = "cancelled" => call.cancelled
  BY <1>6 DEF OutcomeFits
<1>12. workers'[process'].alive /\ requests' <= MaxRequests /\ lock' # None
  BY <1>1, <1>4, <1>5, <1>7, LimitsAssumption DEF HealthInv
<1>13. QED
  BY <1>1, <1>5, <1>6, <1>9, <1>10, <1>11, <1>12, HealthyCall

\* A healthy process gives no reason to break the runtime.
LEMMA HealthyNeverBreaks ==
  ASSUME WorkerInv, HealthInv, NEW c \in Callers,
         FindUnusable(c) \/ Eof(c) \/ Timeout(c) \/ ReadInvalid(c)
  PROVE  FALSE
<1>1. CASE FindUnusable(c)
  <2>1. lock = None /\ process # 0 /\ workers[process].alive
    BY <1>1 DEF FindUnusable, Admitted, HealthInv
  <2>2. status = "ready"
    BY <2>1 DEF WorkerInv, IdleInv
  <2>3. QED
    BY <1>1, <2>1, <2>2 DEF FindUnusable, Alive
<1>2. CASE Eof(c)
  BY <1>2, HealthyExchange DEF Eof, Alive
<1>3. CASE Timeout(c)
  BY <1>3, HealthyExchange DEF Timeout
<1>4. CASE ReadInvalid(c)
  <2>1. Exchanging(c) /\ workers[process].answers # <<>>
    BY <1>4 DEF ReadInvalid
  <2>2. process # 0 /\ workers[process].alive /\ Answered(workers[process], c)
    BY <2>1, HealthyExchange
  <2>3. PICK good \in BOOLEAN :
              /\ workers[process].answers = <<[line |-> Line(c), good |-> good]>>
              /\ good \/ (kind = "flash" /\ calls[c].phase = "request")
    BY <2>2 DEF Answered
  <2>4. Len(workers[process].answers) = 1
        /\ workers[process].answers[1] = [line |-> Line(c), good |-> good]
    BY <2>3
  <2>5. Valid(c) /\ (Sound(c) <=> good)
    BY <2>4 DEF Valid, Sound, HealthInv
  <2>6. QED
    BY <1>4, <2>2, <2>3, <2>5 DEF ReadInvalid, Alive
<1>5. QED
  BY <1>1, <1>2, <1>3, <1>4

LEMMA HealthySeeCancellation ==
  ASSUME WorkerInv, HealthInv, \A d \in Callers : OutcomeFits(d),
         NEW c \in Callers, SeeCancellation(c)
  PROVE  HealthInv' /\ \A d \in Callers : OutcomeFits(d)'
<1>1. /\ lock = c /\ calls[c].cancelled /\ broken' = FALSE /\ requests' = 0 /\ process' = 0
      /\ workers' = Dropped(process) /\ Finish(c, "cancelled")
      /\ UNCHANGED <<kind, closed, overflow>>
  BY InExchange DEF SeeCancellation, ResetCancelled
<1> DEFINE call == [calls[c] EXCEPT !.pc = "done", !.outcome = "cancelled"]
<1>2. call \in Calls /\ call.pc = "done" /\ call.outcome = "cancelled"
      /\ call.cancelled = calls[c].cancelled
  BY Quiet DEF Calls
<1>3. calls' = [calls EXCEPT ![c] = call] /\ lock' = None
  BY <1>1 DEF Finish
<1> HIDE DEF call
<1>4. \A p \in DOMAIN workers' : ~workers'[p].stalled /\ ~workers'[p].noisy
  BY <1>1, DroppedIsHealthy
<1>5. requests' <= MaxRequests
  BY <1>1, LimitsAssumption
<1>6. UNCHANGED broken
  BY <1>1, Quiet DEF HealthInv
<1>7. QED
  BY <1>1, <1>2, <1>3, <1>4, <1>5, <1>6, HealthyCall

\* The answer is taken out of the pipe, which leaves both pipes empty.
LEMMA HealthyTaken ==
  ASSUME WorkerInv, HealthInv, NEW c \in Callers, Exchanging(c),
         workers[process].answers # <<>>, Taken
  PROVE  /\ \A p \in DOMAIN workers' : ~workers'[p].stalled /\ ~workers'[p].noisy
         /\ workers'[process].alive
         /\ Silent(workers'[process], Before(c) + 1)
<1>1. /\ process \in DOMAIN workers /\ workers[process] \in Workers /\ workers[process].alive
      /\ Answered(workers[process], c)
  BY HealthyExchange
<1> DEFINE w == [workers[process] EXCEPT !.answers = <<>>]
<1>2. /\ w.alive = workers[process].alive /\ w.answers = <<>> /\ w.inbox = workers[process].inbox
      /\ w.served = workers[process].served /\ w.stalled = workers[process].stalled
      /\ w.noisy = workers[process].noisy
  BY <1>1 DEF Workers
<1>3. workers' = [workers EXCEPT ![process] = w]
  BY DEF Taken
<1> HIDE DEF w
<1>4. workers'[process] = w /\ DOMAIN workers' = DOMAIN workers
      /\ \A p \in DOMAIN workers : p # process => workers'[p] = workers[p]
  BY <1>1, <1>3, Quiet
<1>5. QED
  BY <1>1, <1>2, <1>4 DEF HealthInv, Silent, Answered

LEMMA HealthyWarmup ==
  ASSUME WorkerInv, HealthInv, \A d \in Callers : OutcomeFits(d), NEW c \in Callers, ReadWarmup(c)
  PROVE  HealthInv' /\ \A d \in Callers : OutcomeFits(d)'
<1>1. /\ Exchanging(c) /\ calls[c].phase = "warmup" /\ workers[process].answers # <<>> /\ Taken
      /\ GoOn(c, calls[c].op)
      /\ UNCHANGED <<kind, process, requests, broken, closed, overflow>>
  BY DEF ReadWarmup
<1>2. lock = c /\ process # 0 /\ requests = 0 /\ Before(c) = 0
  BY <1>1, HealthyExchange DEF PipeInv, Before
<1>3. calls[c].op \in Operation /\ requests < MaxRequests
  BY <1>1, <1>2, InExchange, LimitsAssumption
<1>4. QED
  BY <1>1, <1>2, <1>3, HealthyTaken, HealthyGoOn

LEMMA HealthyAnswer ==
  ASSUME WorkerInv, HealthInv, \A d \in Callers : OutcomeFits(d),
         NEW c \in Callers, ReadAnswer(c) \/ ReadRejected(c)
  PROVE  HealthInv' /\ \A d \in Callers : OutcomeFits(d)'
<1>1. PICK outcome \in {"answered", "rejected"} :
             Finish(c, outcome) /\ (outcome = "rejected" => kind = "flash")
  BY DEF ReadAnswer, ReadRejected
<1>2. /\ Exchanging(c) /\ calls[c].phase = "request" /\ workers[process].answers # <<>> /\ Taken
      /\ requests' = requests + 1
      /\ UNCHANGED <<kind, process, broken, closed, overflow>>
  BY DEF ReadAnswer, ReadRejected
<1>3. lock = c /\ process # 0 /\ requests < MaxRequests /\ Before(c) = requests + 1
  BY <1>2, HealthyExchange DEF PipeInv, Before
<1> DEFINE call == [calls[c] EXCEPT !.pc = "done", !.outcome = outcome]
<1>4. call \in Calls /\ call.pc = "done" /\ call.outcome = outcome
  BY Quiet DEF Calls
<1>5. calls' = [calls EXCEPT ![c] = call] /\ lock' = None
  BY <1>1 DEF Finish
<1> HIDE DEF call
<1>6. requests' <= MaxRequests
  BY <1>2, <1>3, Quiet, LimitsAssumption
<1>7. /\ \A p \in DOMAIN workers' : ~workers'[p].stalled /\ ~workers'[p].noisy
      /\ workers'[process'].alive /\ Silent(workers'[process'], requests' + 1)
  BY <1>2, <1>3, HealthyTaken
<1>8. QED
  BY <1>1, <1>2, <1>3, <1>4, <1>5, <1>6, <1>7, HealthyCall

\* The worker has one line to serve, that of the caller, and is within its limit.
LEMMA HealthyServe ==
  ASSUME WorkerInv, HealthInv, \A d \in Callers : OutcomeFits(d), Calm, Calm',
         NEW p \in DOMAIN workers, Serve(p)
  PROVE  HealthInv' /\ \A d \in Callers : OutcomeFits(d)'
<1>1. p = process /\ process # 0 /\ workers[process].inbox # <<>>
  BY DEF Serve, Alive, WorkerInv, OneProcess
<1>2. lock # None
  BY <1>1 DEF HealthInv, Silent
<1>3. PICK c \in Callers : lock = c
  BY <1>2 DEF WorkerInv, TypeOK
<1>4. Exchanging(c)
  BY <1>1, <1>3 DEF WorkerInv, HolderInv, StartInv, Exchanging, At, Inside
<1>5. /\ workers[process] \in Workers /\ workers[process].alive /\ PipeInv(c)
      /\ Sent(workers[process], c)
  BY <1>1, <1>4, HealthyExchange DEF PipeInv, Exchanging, Silent, Answered
<1>6. /\ workers[process].inbox = <<Line(c)>> /\ workers[process].answers = <<>>
      /\ workers[process].served = Before(c) /\ At(c, "read")
  BY <1>1, <1>4, <1>5 DEF Sent, PipeInv, Exchanging, Silent
<1>7. Before(c) < WorkerLimit /\ Before(c) \in Nat
  BY <1>5, Quiet, LimitsAssumption DEF PipeInv, Before
<1>8. Head(workers[process].inbox) = Line(c) /\ Tail(workers[process].inbox) = <<>>
  BY <1>6
<1>9. ~Fault
  BY DEF Calm, Fault
<1>10. Line(c)[2] = calls[c].phase
  BY DEF Line
<1>11. PICK good \in BOOLEAN :
              /\ workers' = [workers EXCEPT ![p].inbox = Tail(@),
                                ![p].answers = Append(@, [line |-> Line(c), good |-> good]),
                                ![p].served = @ + 1]
              /\ good \/ (kind = "flash" /\ calls[c].phase = "request")
  <2>1. ~(kind = "mlx" /\ workers[p].served >= WorkerLimit)
    BY <1>1, <1>6, <1>7, LimitsAssumption
  <2>2. \/ workers' = [workers EXCEPT ![p].inbox = Tail(@),
                                ![p].answers = Append(@, [line |-> Line(c), good |-> TRUE]),
                                ![p].served = @ + 1]
        \/ /\ kind = "flash" /\ Line(c)[2] = "request"
           /\ workers' = [workers EXCEPT ![p].inbox = Tail(@),
                                ![p].answers = Append(@, [line |-> Line(c), good |-> FALSE]),
                                ![p].served = @ + 1]
    BY <1>1, <1>8, <1>9, <2>1 DEF Serve
  <2>3. QED
    BY <1>10, <2>2
<1> DEFINE answer == [line |-> Line(c), good |-> good]
           w == [workers[p] EXCEPT !.inbox = Tail(workers[p].inbox),
                    !.answers = Append(workers[p].answers, answer), !.served = Before(c) + 1]
<1>12. workers' = [workers EXCEPT ![p] = w]
  BY <1>1, <1>6, <1>11
<1>13. Append(workers[p].answers, answer) = <<answer>>
  BY <1>1, <1>6
<1>14. /\ w.alive = workers[p].alive /\ w.inbox = <<>> /\ w.answers = <<answer>>
       /\ w.served = Before(c) + 1 /\ w.stalled = workers[p].stalled /\ w.noisy = workers[p].noisy
  BY <1>1, <1>5, <1>8, <1>13 DEF Workers
<1> HIDE DEF w
<1>15. workers'[p] = w /\ DOMAIN workers' = DOMAIN workers
       /\ \A q \in DOMAIN workers : q # p => workers'[q] = workers[q]
  BY <1>12, Quiet
<1>16. UNCHANGED <<kind, process, requests, status, broken, closed, overflow, lock, calls>>
  BY DEF Serve, runtime
<1>17. Answered(workers'[process], c)
  BY <1>1, <1>11, <1>14, <1>15 DEF Answered
<1>18. PipeInv(c)'
  BY <1>5, <1>6, <1>16, <1>17 DEF PipeInv, Answered, Before, Line, At
<1>19. \A d \in Callers : Exchanging(d)' => d = c
  BY <1>3, <1>16, LimitsAssumption DEF WorkerInv, HolderInv, Exchanging, At, Inside
<1>20. \A d \in Callers : Exchanging(d)' => PipeInv(d)'
  BY <1>18, <1>19
<1>21. HealthInv'
  BY <1>1, <1>2, <1>5, <1>14, <1>15, <1>16, <1>20 DEF HealthInv
<1>22. QED
  BY <1>16, <1>21 DEF OutcomeFits

\* What has gone wrong stays wrong, and a close stays begun.
LEMMA CalmWasCalm ==
  ASSUME WorkerInv, [Next]_vars, Calm'
  PROVE  Calm /\ closing' = closing
<1>1. faults \in Nat
  BY Quiet
<1>2. ASSUME NEW c \in Callers, Cancel(c) \/ Step(c)
      PROVE  closing' = closing /\ (faults' = faults \/ Fault)
  <2>1. ASSUME NEW op \in Operation, Reuse(c, op) \/ Recycle(c, op) \/ Lack(c, op)
        PROVE  closing' = closing /\ faults' = faults
    BY <2>1 DEF Reuse, Recycle, Lack
  <2>2. CASE Refuse(c) \/ FindUnusable(c) \/ WriteLine(c) \/ Eof(c) \/ Timeout(c)
    BY <2>2 DEF Refuse, FindUnusable, WriteLine, Eof, Timeout
  <2>3. CASE SeeCancellation(c) \/ ReadWarmup(c) \/ ReadAnswer(c) \/ ReadRejected(c) \/ ReadInvalid(c)
    BY <2>3 DEF SeeCancellation, ReadWarmup, ReadAnswer, ReadRejected, ReadInvalid
  <2>4. CASE Cancel(c)
    BY <2>4 DEF Cancel
  <2>5. CASE Spawn(c)
    BY <2>5 DEF Spawn
  <2>6. QED
    BY <1>2, <2>1, <2>2, <2>3, <2>4, <2>5 DEF Step
<1>3. ASSUME NEW p \in DOMAIN workers, Serve(p) \/ Misbehave(p) \/ Drain(p)
      PROVE  closing' = closing /\ (faults' = faults \/ Fault)
  BY <1>3 DEF Serve, Misbehave, Drain
<1>4. ASSUME NEW k \in Closers, CloseStep(k)
      PROVE  FALSE
  <2>1. closing'[k].pc \in {"read", "killed", "done"}
    BY <1>4 DEF CloseStep, CloseRead, CloseKill, CloseFinally, WorkerInv, TypeOK
  <2>2. QED
    BY <2>1 DEF Calm
<1>5. CASE UNCHANGED vars
  BY <1>5 DEF Calm, vars
<1>6. ASSUME closing' = closing, faults' = faults \/ Fault
      PROVE  Calm
  BY <1>1, <1>6 DEF Calm, Fault
<1>7. QED
  BY <1>2, <1>3, <1>4, <1>5, <1>6 DEF Next, Stopped, vars

LEMMA CalmNext ==
  ASSUME WorkerInv, CalmInv, [Next]_vars
  PROVE  CalmInv'
<1> SUFFICES ASSUME Calm'
             PROVE  HealthInv' /\ \A d \in Callers : OutcomeFits(d)'
  BY DEF CalmInv
<1>1. Calm
  BY CalmWasCalm
<1>2. HealthInv /\ \A d \in Callers : OutcomeFits(d)
  BY <1>1 DEF CalmInv
<1>3. CASE UNCHANGED vars
  BY <1>2, <1>3 DEF HealthInv, OutcomeFits, PipeInv, Silent, Sent, Answered, Before, Line,
                    Exchanging, At, vars, runtime
<1>4. ASSUME NEW c \in Callers, Step(c)
      PROVE  HealthInv' /\ \A d \in Callers : OutcomeFits(d)'
  <2>1. CASE \E op \in Operation : Reuse(c, op) \/ Recycle(c, op) \/ Lack(c, op)
    BY <1>2, <2>1, HealthyReuse, HealthyPrepare
  <2>2. CASE FindUnusable(c) \/ Eof(c) \/ Timeout(c) \/ ReadInvalid(c)
    BY <1>2, <2>2, HealthyNeverBreaks
  <2>3. CASE Refuse(c)
    BY <1>2, <2>3, HealthyRefuse
  <2>4. CASE Spawn(c)
    BY <1>1, <1>2, <2>4, HealthySpawn
  <2>5. CASE WriteLine(c)
    BY <1>2, <2>5, HealthyWrite
  <2>6. CASE SeeCancellation(c)
    BY <1>2, <2>6, HealthySeeCancellation
  <2>7. CASE ReadWarmup(c)
    BY <1>2, <2>7, HealthyWarmup
  <2>8. CASE ReadAnswer(c) \/ ReadRejected(c)
    BY <1>2, <2>8, HealthyAnswer
  <2>9. QED
    BY <1>4, <2>1, <2>2, <2>3, <2>4, <2>5, <2>6, <2>7, <2>8 DEF Step
<1>5. ASSUME NEW c \in Callers, Cancel(c)
      PROVE  HealthInv' /\ \A d \in Callers : OutcomeFits(d)'
  BY <1>2, <1>5, HealthyCancel
<1>6. ASSUME NEW p \in DOMAIN workers, Serve(p)
      PROVE  HealthInv' /\ \A d \in Callers : OutcomeFits(d)'
  BY <1>1, <1>2, <1>6, HealthyServe
<1>7. ASSUME NEW p \in DOMAIN workers, Misbehave(p) \/ Drain(p)
      PROVE  FALSE
  BY <1>1, <1>2, <1>7 DEF Calm, Misbehave, Fault, Drain, HealthInv
<1>8. ASSUME NEW k \in Closers, CloseStep(k)
      PROVE  FALSE
  <2>1. closing'[k].pc \in {"read", "killed", "done"}
    BY <1>8 DEF CloseStep, CloseRead, CloseKill, CloseFinally, WorkerInv, TypeOK
  <2>2. QED
    BY <2>1 DEF Calm
<1>9. QED
  BY <1>3, <1>4, <1>5, <1>6, <1>7, <1>8 DEF Next, Stopped

\* As long as no worker dies, hangs or answers badly and nobody closes the runtime,
\* whatever is cancelled and however many processes are recycled, no call fails and
\* the runtime is not broken: a stale line, a limit counted differently on the two
\* sides or another caller's cancellation is never taken for a fault.
THEOREM OnlyRealFaultsBreak == Spec => []OnlyFaultsBreak
<1>1. Init => CalmInv
  BY EmptySeq, LimitsAssumption
     DEF Init, CalmInv, HealthInv, OutcomeFits, Exchanging, At
<1>2. WorkerInv /\ CalmInv /\ [Next]_vars => CalmInv'
  BY CalmNext
<1>3. CalmInv => OnlyFaultsBreak
  BY DEF CalmInv, Calm, HealthInv, OutcomeFits, OnlyFaultsBreak
<1>4. QED
  BY <1>1, <1>2, <1>3, WorkerSafety, PTL DEF Spec
=============================================================================
