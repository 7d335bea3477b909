---------------------------- MODULE ModelWorker ----------------------------
(***************************************************************************)
(* The persistent model workers of the Brain: MlxBrainModelRuntime of      *)
(* src/src/metis_model1/brain_mlx_runtime.py and MlxFlashIntentRuntime of  *)
(* brain_flash_runtime.py.  Each owns at most one worker process, talks to *)
(* it over a pair of pipes, one line per request and one per answer, and   *)
(* serialises its callers with _request_lock.                              *)
(*                                                                         *)
(* The two follow one protocol: the first call starts the process and      *)
(* warms it up, a process is replaced after a number of requests, a        *)
(* cancelled exchange kills its process and leaves the runtime usable, and *)
(* any other failure breaks the runtime for good.  They differ in two      *)
(* points: Flash survives an answer its own validation rejects, and only   *)
(* the MLX worker counts its requests itself.  close kills the process     *)
(* without the lock, so that it need not wait for an exchange.             *)
(***************************************************************************)
EXTENDS Naturals, Sequences, FiniteSets

CONSTANTS Callers,      \* threads, each of which makes one call
          Closers,      \* threads that call close
          None,         \* a model value: the lock is free
          MaxRequests,  \* MAX_REQUESTS_PER_PROCESS
          WorkerLimit,  \* the lines the MLX worker accepts in its life
          MaxFaults     \* bound: deaths, stalls, bad answers, failed starts

ASSUME LimitsAssumption ==
    /\ MaxRequests \in Nat \ {0} /\ WorkerLimit \in Nat /\ MaxFaults \in Nat
    /\ MaxRequests + 1 <= WorkerLimit
    /\ None \notin Callers

VARIABLES
    kind,      \* which of the two runtimes this is: "mlx" or "flash"
    workers,   \* the processes started so far, with their two pipes
    process,   \* _process: the index of the current one, 0 for None
    requests,  \* _process_requests
    status,    \* _warmup_status
    broken,    \* _broken
    closed,    \* _closed
    overflow,  \* _stderr_overflow
    lock,      \* the caller that holds _request_lock
    calls,     \* what each caller is doing
    closing,   \* what each closer is doing, with the process it has read
    faults     \* faults so far

runtime == <<process, requests, status, broken>>
vars == <<kind, workers, process, requests, status, broken, closed, overflow, lock,
          calls, closing, faults>>

-----------------------------------------------------------------------------
Alive(p) == p # 0 /\ workers[p].alive

\* The line a caller has on its way, and what it waits for.
Line(c) == <<c, calls[c].phase>>

At(c, where) == calls[c].pc = where
Go(c, where) == calls' = [calls EXCEPT ![c].pc = where]

\* The call ends, and the lock with it.
Finish(c, outcome) ==
    /\ calls' = [calls EXCEPT ![c].pc = "done", ![c].outcome = outcome]
    /\ lock' = None

Fault == faults < MaxFaults /\ faults' = faults + 1

\* _terminate: the process group is gone when it returns; what it has answered
\* stays in the pipe.
Terminated(p) == IF p = 0 THEN workers ELSE [workers EXCEPT ![p].alive = FALSE]

\* The same for a process that is dropped: nobody reads its pipes any more.
Dropped(p) ==
    IF p = 0 THEN workers
    ELSE [workers EXCEPT ![p] = [alive |-> FALSE, inbox |-> <<>>, answers |-> <<>>, served |-> 0,
                                 stalled |-> FALSE, noisy |-> @.noisy]]

\* _mark_broken
MarkBroken(c) ==
    /\ broken' = TRUE /\ status' = "failed" /\ requests' = 0 /\ process' = 0
    /\ workers' = Dropped(process)
    /\ Finish(c, "failed")

\* Faulty variant: a cancelled exchange leaves the process to the next caller.
ResetKeepingWorker(c) ==
    /\ UNCHANGED <<broken, status, requests, process, workers>>
    /\ Finish(c, "cancelled")

\* _reset_cancelled
ResetCancelled(c) ==
    /\ broken' = FALSE /\ status' = "cold" /\ requests' = 0 /\ process' = 0
    /\ workers' = Dropped(process)
    /\ Finish(c, "cancelled")

-----------------------------------------------------------------------------
Init ==
    /\ kind \in {"mlx", "flash"}
    /\ workers = <<>> /\ process = 0 /\ requests = 0
    /\ status = "cold" /\ broken = FALSE /\ closed = FALSE /\ overflow = FALSE
    /\ lock = None
    /\ calls = [c \in Callers |-> [pc |-> "waiting", op |-> "none", cancelled |-> FALSE,
                                   phase |-> "none", outcome |-> "none"]]
    /\ closing = [k \in Closers |-> [pc |-> "idle", process |-> 0]]
    /\ faults = 0

\* The turn is cancelled, at any time; warmup has no cancellation.
Cancel(c) ==
    /\ calls[c].op # "warmup" /\ ~At(c, "done") /\ ~calls[c].cancelled
    /\ calls' = [calls EXCEPT ![c].cancelled = TRUE]
    /\ UNCHANGED <<kind, workers, runtime, closed, overflow, lock, closing, faults>>

\* A call finds the runtime closed or broken, or has been cancelled before it
\* got the lock.
Refuse(c) ==
    /\ At(c, "waiting") /\ lock = None
    /\ \/ (closed \/ broken) /\ Finish(c, "failed")
       \/ ~(closed \/ broken) /\ calls[c].cancelled /\ Finish(c, "cancelled")
    /\ UNCHANGED <<kind, workers, runtime, closed, overflow, closing, faults>>

\* The call has the lock and goes on to _ensure_process.
Admitted(c) == At(c, "waiting") /\ lock = None /\ ~(closed \/ broken) /\ ~calls[c].cancelled

\* generate, plan_create, plan_create_v2 and compile, or warmup alone.
Operation == {"generate", "warmup"}

\* The exchange of a request starts, or the call had asked for the warmup only.
GoOn(c, op) ==
    IF op = "generate"
    THEN /\ calls' = [calls EXCEPT ![c].pc = "write", ![c].op = op, ![c].phase = "request"]
         /\ lock' = c
    ELSE Finish(c, "answered")

Prepare(c, op) == /\ calls' = [calls EXCEPT ![c].pc = "spawn", ![c].op = op]
                  /\ lock' = c

\* A warm process that may serve one more request.
Reuse(c, op) ==
    /\ Admitted(c) /\ Alive(process) /\ requests < MaxRequests /\ status = "ready"
    /\ GoOn(c, op)
    /\ UNCHANGED <<kind, workers, runtime, closed, overflow, closing, faults>>

\* Faulty variant: the runtime counts as warm until the next process has failed.
RecycleStillReady(c, op) ==
    /\ Admitted(c) /\ Alive(process) /\ requests >= MaxRequests
    /\ workers' = Dropped(process)
    /\ process' = 0 /\ requests' = 0
    /\ Prepare(c, op)
    /\ UNCHANGED <<kind, status, broken, closed, overflow, closing, faults>>

\* The process has served its requests: it is replaced.
Recycle(c, op) ==
    /\ Admitted(c) /\ Alive(process) /\ requests >= MaxRequests
    /\ workers' = Dropped(process)
    /\ process' = 0 /\ requests' = 0 /\ status' = "cold"
    /\ Prepare(c, op)
    /\ UNCHANGED <<kind, broken, closed, overflow, closing, faults>>

\* There is no process yet, or not any more.
Lack(c, op) ==
    /\ Admitted(c) /\ process = 0
    /\ Prepare(c, op)
    /\ UNCHANGED <<kind, workers, runtime, closed, overflow, closing, faults>>

\* A process that has died, or that is not warm.
FindUnusable(c) ==
    /\ Admitted(c) /\ process # 0
    /\ ~(Alive(process) /\ (requests < MaxRequests => status = "ready"))
    /\ MarkBroken(c)
    /\ UNCHANGED <<kind, closed, overflow, closing, faults>>

\* Popen and the pipes; the warmup is the first exchange of a process.  The
\* start can fail, and so can the check of the worker's digest before it.
Spawn(c) ==
    /\ At(c, "spawn")
    /\ \/ /\ workers' = Append(workers, [alive |-> TRUE, inbox |-> <<>>, answers |-> <<>>,
                                         served |-> 0, stalled |-> FALSE, noisy |-> FALSE])
          /\ process' = Len(workers) + 1 /\ overflow' = FALSE
          /\ calls' = [calls EXCEPT ![c].pc = "write", ![c].phase = "warmup"]
          /\ UNCHANGED <<requests, status, broken, lock, faults>>
       \/ /\ Fault /\ MarkBroken(c)
          /\ UNCHANGED overflow
       \/ /\ Fault /\ Finish(c, "failed")
          /\ UNCHANGED <<workers, runtime, overflow>>
    /\ UNCHANGED <<kind, closed, closing>>

-----------------------------------------------------------------------------
(* _exchange: one line out, one line in, until the deadline                *)

Exchanging(c) == At(c, "write") \/ At(c, "read")

WriteLine(c) ==
    /\ At(c, "write") /\ Alive(process)
    /\ workers' = [workers EXCEPT ![process].inbox = Append(@, Line(c))]
    /\ Go(c, "read")
    /\ UNCHANGED <<kind, runtime, closed, overflow, lock, closing, faults>>

\* The other end of a pipe is gone and nothing is left to read.
Eof(c) ==
    /\ Exchanging(c) /\ ~Alive(process) /\ workers[process].answers = <<>>
    /\ MarkBroken(c)
    /\ UNCHANGED <<kind, closed, overflow, closing, faults>>

\* Faulty variant: the deadline is taken anew in every round of the loop.
TimeoutWaitingOn(c) ==
    Exchanging(c) /\ workers[process].stalled /\ UNCHANGED vars

\* The deadline passes while the worker is busy.
Timeout(c) ==
    /\ Exchanging(c) /\ workers[process].stalled
    /\ MarkBroken(c)
    /\ UNCHANGED <<kind, closed, overflow, closing, faults>>

SeeCancellation(c) ==
    /\ Exchanging(c) /\ calls[c].op = "generate" /\ calls[c].cancelled
    /\ ResetCancelled(c)
    /\ UNCHANGED <<kind, closed, overflow, closing, faults>>

\* The pipe holds one line and it answers the line of this caller.
Valid(c) == /\ Len(workers[process].answers) = 1 /\ ~overflow
            /\ workers[process].answers[1].line = Line(c)

\* What the readers of the answer make of it.
Sound(c) == Valid(c) /\ workers[process].answers[1].good
Taken == workers' = [workers EXCEPT ![process].answers = <<>>]

\* The warmup has been answered: the process is ready for the request.
ReadWarmup(c) ==
    /\ Exchanging(c) /\ calls[c].phase = "warmup" /\ workers[process].answers # <<>>
    /\ Sound(c)
    /\ Taken /\ status' = "ready"
    /\ GoOn(c, calls[c].op)
    /\ UNCHANGED <<kind, process, requests, broken, closed, overflow, closing, faults>>

ReadAnswer(c) ==
    /\ Exchanging(c) /\ calls[c].phase = "request" /\ workers[process].answers # <<>>
    /\ Sound(c)
    /\ Taken /\ status' = "ready" /\ requests' = requests + 1
    /\ Finish(c, "answered")
    /\ UNCHANGED <<kind, process, broken, closed, overflow, closing, faults>>

\* Flash rejects an answer of a worker that is alive and in step.
ReadRejected(c) ==
    /\ Exchanging(c) /\ calls[c].phase = "request" /\ workers[process].answers # <<>>
    /\ kind = "flash" /\ Valid(c) /\ ~Sound(c) /\ Alive(process)
    /\ Taken /\ status' = "ready" /\ requests' = requests + 1
    /\ Finish(c, "rejected")
    /\ UNCHANGED <<kind, process, broken, closed, overflow, closing, faults>>

\* Any other answer breaks the runtime.
ReadInvalid(c) ==
    /\ Exchanging(c) /\ workers[process].answers # <<>> /\ ~Sound(c)
    /\ ~(kind = "flash" /\ calls[c].phase = "request" /\ Valid(c) /\ Alive(process))
    /\ MarkBroken(c)
    /\ UNCHANGED <<kind, closed, overflow, closing, faults>>

-----------------------------------------------------------------------------
(* The worker process and its standard error                               *)

\* One line in, one answer out; the MLX worker gives up at its limit.
Serve(p) ==
    /\ Alive(p) /\ workers[p].inbox # <<>>
    /\ LET line == Head(workers[p].inbox)
           Answer(good) == workers' = [workers EXCEPT ![p].inbox = Tail(@),
                                ![p].answers = Append(@, [line |-> line, good |-> good]),
                                ![p].served = @ + 1]
       IN IF kind = "mlx" /\ workers[p].served >= WorkerLimit
          THEN workers' = [workers EXCEPT ![p].alive = FALSE] /\ UNCHANGED faults
          ELSE \/ Answer(TRUE) /\ UNCHANGED faults
               \/ kind = "flash" /\ line[2] = "request" /\ Answer(FALSE) /\ UNCHANGED faults
               \/ ~(kind = "flash" /\ line[2] = "request") /\ Fault /\ Answer(FALSE)
    /\ UNCHANGED <<kind, runtime, closed, overflow, lock, calls, closing>>

\* The worker dies, hangs for longer than the deadline, or floods its standard
\* error.
Misbehave(p) ==
    /\ Alive(p) /\ Fault
    /\ \/ workers' = [workers EXCEPT ![p].alive = FALSE]
       \/ ~workers[p].stalled /\ workers' = [workers EXCEPT ![p].stalled = TRUE]
       \/ ~workers[p].noisy /\ workers' = [workers EXCEPT ![p].noisy = TRUE]
    /\ UNCHANGED <<kind, runtime, closed, overflow, lock, calls, closing>>

\* _drain_stderr: the thread of a process reads on after the process has been
\* replaced, and the flag does not say of which process it speaks.
Drain(p) ==
    /\ workers[p].noisy
    /\ workers' = [workers EXCEPT ![p].noisy = FALSE]
    /\ overflow' = TRUE
    /\ UNCHANGED <<kind, runtime, closed, lock, calls, closing, faults>>

-----------------------------------------------------------------------------
(* close                                                                   *)

CloseRead(k) ==
    /\ closing[k].pc = "idle"
    /\ closing' = [closing EXCEPT ![k] = [pc |-> "read", process |-> process]]
    /\ UNCHANGED <<kind, workers, runtime, closed, overflow, lock, calls, faults>>

CloseKill(k) ==
    /\ closing[k].pc = "read"
    /\ closing' = [closing EXCEPT ![k].pc = "killed"]
    /\ workers' = Terminated(closing[k].process)
    /\ UNCHANGED <<kind, runtime, closed, overflow, lock, calls, faults>>

\* Faulty variant: close trusts the process it has read and killed before.
CloseTrusting(k) ==
    /\ closing[k].pc = "killed" /\ lock = None
    /\ closing' = [closing EXCEPT ![k].pc = "done"]
    /\ closed' = TRUE /\ status' = "closed" /\ process' = 0 /\ requests' = 0
    /\ UNCHANGED <<kind, workers, broken, overflow, lock, calls, faults>>

\* The state changes once, under the lock, and a process started meanwhile is
\* killed.
CloseFinally(k) ==
    /\ closing[k].pc = "killed" /\ lock = None
    /\ closing' = [closing EXCEPT ![k].pc = "done"]
    /\ IF closed
       THEN UNCHANGED <<workers, runtime, closed>>
       ELSE /\ closed' = TRUE /\ status' = "closed" /\ process' = 0 /\ requests' = 0
            /\ workers' = Dropped(process)
            /\ UNCHANGED broken
    /\ UNCHANGED <<kind, overflow, lock, calls, faults>>

-----------------------------------------------------------------------------
\* What the thread of a call does, from the lock to its return.
Step(c) ==
    \/ Refuse(c) \/ FindUnusable(c)
    \/ \E op \in Operation : Reuse(c, op) \/ Recycle(c, op) \/ Lack(c, op)
    \/ Spawn(c) \/ WriteLine(c) \/ Eof(c) \/ Timeout(c) \/ SeeCancellation(c)
    \/ ReadWarmup(c) \/ ReadAnswer(c) \/ ReadRejected(c) \/ ReadInvalid(c)

CloseStep(k) == CloseRead(k) \/ CloseKill(k) \/ CloseFinally(k)

Stopped == /\ \A c \in Callers : At(c, "done")
           /\ \A k \in Closers : closing[k].pc = "done"
           /\ UNCHANGED vars

Next ==
    \/ \E c \in Callers : Cancel(c) \/ Step(c)
    \/ \E p \in DOMAIN workers : Serve(p) \/ Misbehave(p) \/ Drain(p)
    \/ \E k \in Closers : CloseStep(k)
    \/ Stopped

Spec == Init /\ [][Next]_vars

\* Threads run and a worker that is not stalled answers.  Every thread makes one
\* call, so the lock is free for good in the end and needs no fairness of its own.
Fairness ==
    /\ \A c \in Callers : WF_vars(Step(c))
    /\ \A k \in Closers : WF_vars(closing[k].pc # "idle" /\ CloseStep(k))
    /\ \A p \in 1..Cardinality(Callers) :
           WF_vars(p \in DOMAIN workers /\ ~workers[p].stalled /\ Serve(p))

FairSpec == Spec /\ Fairness

-----------------------------------------------------------------------------
(* Properties                                                              *)

Phases == {"none", "warmup", "request"}
Lines == Callers \X Phases
Workers ==
    [alive : BOOLEAN, inbox : Seq(Lines), answers : Seq([line : Lines, good : BOOLEAN]),
     served : Nat, stalled : BOOLEAN, noisy : BOOLEAN]
Calls ==
    [pc : {"waiting", "spawn", "write", "read", "done"},
     op : Operation \cup {"none"}, cancelled : BOOLEAN, phase : Phases,
     outcome : {"none", "answered", "rejected", "cancelled", "failed"}]

TypeOK ==
    /\ kind \in {"mlx", "flash"}
    /\ workers \in Seq(Workers) /\ process \in 0..Len(workers) /\ requests \in Nat
    /\ status \in {"cold", "ready", "failed", "closed"}
    /\ broken \in BOOLEAN /\ closed \in BOOLEAN /\ overflow \in BOOLEAN
    /\ lock \in Callers \cup {None}
    /\ calls \in [Callers -> Calls]
    /\ closing \in [Closers -> [pc : {"idle", "read", "killed", "done"},
                               process : 0..Len(workers)]]
    /\ faults \in Nat

\* There is never a model in memory that nobody owns: the only process alive is
\* the one the runtime names, and none is once close is done, whatever was
\* recycled, cancelled or started while close waited for the lock.  And what
\* health reports is true when nobody is inside: a ready runtime has a process
\* to its name, and one that is cold, failed or closed has none.
NoStrayWorker ==
    /\ TypeOK
    /\ \A p \in DOMAIN workers : workers[p].alive => p = process /\ ~closed
    /\ lock = None => (status = "ready" <=> process # 0)

\* Without a death, a stall, a bad answer or a close, every call is answered or
\* was cancelled itself: no stale answer of a cancelled exchange, no limit of the
\* worker and no other caller's cancellation ever breaks the runtime.
OnlyFaultsBreak ==
    (faults = 0 /\ \A k \in Closers : closing[k].pc = "idle") =>
        /\ ~broken
        /\ \A c \in Callers : /\ calls[c].outcome # "failed"
                              /\ calls[c].outcome = "rejected" => kind = "flash"
                              /\ calls[c].outcome = "cancelled" => calls[c].cancelled

\* Every call and every close ends, whoever holds the lock and whatever the
\* worker does.
EveryCallEnds ==
    /\ \A c \in Callers : At(c, "waiting") ~> At(c, "done")
    /\ \A k \in Closers : closing[k].pc = "read" ~> closing[k].pc = "done"
=============================================================================
