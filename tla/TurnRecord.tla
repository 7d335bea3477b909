----------------------------- MODULE TurnRecord ----------------------------
(***************************************************************************)
(* The events of one turn: TurnRecord of brain_turns.py (its journal, its  *)
(* heartbeat threads and its condition) with the operations of TurnStore   *)
(* that write to it, and GET .../events of brain_server.py, by which       *)
(* clients read it and reconnect with Last-Event-ID.                       *)
(*                                                                         *)
(* Everything that touches the journal holds record.condition, so that     *)
(* each critical section is a step; what the threads do between two of     *)
(* them is not protected.  A request for the events has two such sections: *)
(* the first, in TurnStore.events, finds the record and reports a gap, the *)
(* second, in _dispatch_sse, waits for news and takes the answer.          *)
(***************************************************************************)
EXTENDS Integers, Sequences, FiniteSets

CONSTANTS Clients,      \* readers of the stream, each with one connection at a time
          MaxEvents,    \* the events the journal keeps, 256 in the code
          MaxPhases,    \* bound: phases of the worker with a heartbeat
          MaxSequence,  \* bound: number of the last event before the terminal one
          MaxLosses     \* bound: connections that break

ASSUME TurnRecordAssumption ==
    /\ MaxEvents \in Nat \ {0}
    /\ MaxPhases \in Nat /\ MaxSequence \in Nat \ {0} /\ MaxLosses \in Nat

VARIABLES
    events,    \* record.events: number and kind of each
    next,      \* record._next_sequence
    terminal,  \* record.terminal is not None
    dropped,   \* the session is closed and the record out of TurnStore._turns
    worker,    \* the thread of the turn: where it is and the phases it has begun
    beats,     \* the heartbeat thread of each phase
    clients,   \* what each client has received, and its connection
    losses     \* connections that broke so far

journal == <<events, next, terminal>>
vars == <<events, next, terminal, dropped, worker, beats, clients, losses>>

Phases == 1..MaxPhases

-----------------------------------------------------------------------------
\* The journal with one event more, and the oldest out when it is full.
Appended(kind) ==
    LET longer == Append(events, [sequence |-> next, kind |-> kind])
    IN IF Len(longer) > MaxEvents THEN Tail(longer) ELSE longer

\* TurnRecord.emit
Emit(kind) == events' = Appended(kind) /\ next' = next + 1

\* Room below the bound, with one number left for the terminal event.
MayEmit == next <= MaxSequence

\* TurnStore._finish: the result and its event in one critical section, once.
Finish ==
    IF terminal THEN UNCHANGED journal
    ELSE terminal' = TRUE /\ Emit("terminal")

\* The positions of the events after number n, and these events in their order.
Later(n) == {i \in DOMAIN events : events[i].sequence > n}
After(n) ==
    [k \in 1..Cardinality(Later(n)) |->
        events[CHOOSE i \in Later(n) : Cardinality({j \in Later(n) : j <= i}) = k]]
News(n) == Later(n) # {}
Earliest == IF events = <<>> THEN 1 ELSE events[1].sequence

Init ==
    /\ events = <<[sequence |-> 1, kind |-> "accepted"]>> /\ next = 2
    /\ terminal = FALSE /\ dropped = FALSE
    /\ worker = [pc |-> "queued", phase |-> 0]
    /\ beats = [p \in Phases |-> [pc |-> "off", stop |-> FALSE]]
    /\ clients = [c \in Clients |-> [pc |-> "idle", last |-> 0, found |-> FALSE,
                                     answer |-> <<>>, knows |-> FALSE]]
    /\ losses = 0

-----------------------------------------------------------------------------
(* The turn                                                                *)

\* _run: a turn that was cancelled while it was queued does nothing.
Start ==
    /\ worker.pc = "queued"
    /\ worker' = [worker EXCEPT !.pc = IF terminal THEN "gone" ELSE "working"]
    /\ UNCHANGED <<journal, dropped, beats, clients, losses>>

Progress ==
    /\ worker.pc = "working" /\ MayEmit
    /\ Emit("progress")
    /\ UNCHANGED <<terminal, dropped, worker, beats, clients, losses>>

\* heartbeat_while is entered: its thread starts.
BeginPhase ==
    /\ worker.pc = "working" /\ worker.phase < MaxPhases
    /\ worker' = [pc |-> "blocked", phase |-> worker.phase + 1]
    /\ beats' = [beats EXCEPT ![worker.phase + 1].pc = "waiting"]
    /\ UNCHANGED <<journal, dropped, clients, losses>>

\* heartbeat_while is left.  The join has a deadline: the thread may live on.
EndPhase ==
    /\ worker.pc = "blocked"
    /\ worker' = [worker EXCEPT !.pc = "working"]
    /\ beats' = [beats EXCEPT ![worker.phase].stop = TRUE]
    /\ UNCHANGED <<journal, dropped, clients, losses>>

\* The end of _run, with any outcome.
EndTurn ==
    /\ worker.pc = "working"
    /\ worker' = [worker EXCEPT !.pc = "gone"]
    /\ Finish
    /\ UNCHANGED <<dropped, beats, clients, losses>>

\* cancel of a turn whose worker has not begun; it may have found the record
\* before the session was closed, and the worker may come to it all the same.
CancelQueued ==
    /\ worker.pc \in {"queued", "removed"} /\ ~terminal
    /\ \/ UNCHANGED worker
       \/ worker' = [worker EXCEPT !.pc = "gone"]
    /\ Finish
    /\ UNCHANGED <<dropped, beats, clients, losses>>

\* drop_session: the record is out of reach of new requests, and a queued turn
\* is taken off the queue without a result, unless a thread has it already.
DropSession ==
    /\ ~dropped
    /\ dropped' = TRUE
    /\ \/ UNCHANGED worker
       \/ worker.pc = "queued" /\ worker' = [worker EXCEPT !.pc = "removed"]
    /\ UNCHANGED <<journal, beats, clients, losses>>

-----------------------------------------------------------------------------
(* The heartbeat thread of phase p                                         *)

\* stop.wait: the interval has passed, or the phase is over.
BeatDue(p) ==
    /\ beats[p].pc = "waiting"
    /\ beats' = [beats EXCEPT ![p].pc = IF beats[p].stop THEN "off" ELSE "due"]
    /\ UNCHANGED <<journal, dropped, worker, clients, losses>>

\* Faulty variant: the thread trusts the event it has waited for.
BeatUnchecked(p) ==
    /\ beats[p].pc = "due" /\ MayEmit
    /\ beats' = [beats EXCEPT ![p].pc = "waiting"]
    /\ Emit("heartbeat") /\ UNCHANGED terminal
    /\ UNCHANGED <<dropped, worker, clients, losses>>

Beat(p) ==
    /\ beats[p].pc = "due"
    /\ \/ /\ terminal
          /\ beats' = [beats EXCEPT ![p].pc = "off"]
          /\ UNCHANGED journal
       \/ /\ ~terminal /\ MayEmit
          /\ beats' = [beats EXCEPT ![p].pc = "waiting"]
          /\ Emit("heartbeat") /\ UNCHANGED terminal
    /\ UNCHANGED <<dropped, worker, clients, losses>>

-----------------------------------------------------------------------------
(* A client, and the thread that serves its connection                     *)

At(c, pc) == clients[c].pc = pc

\* TurnStore.events, with the Last-Event-ID of the client
Open(c) ==
    /\ At(c, "idle") /\ ~clients[c].knows
    /\ LET last == clients[c].last
       IN clients' = IF dropped THEN [clients EXCEPT ![c].pc = "unavailable"]
                     ELSE IF last # 0 /\ last + 1 < Earliest
                     THEN [clients EXCEPT ![c].pc = "gap"]
                     ELSE [clients EXCEPT ![c].pc = "open", ![c].found = News(last)]
    /\ UNCHANGED <<journal, dropped, worker, beats, losses>>

\* The answer is what the journal holds now.
Answering(c) == [clients EXCEPT ![c].pc = "sending", ![c].answer = After(clients[c].last)]

\* The second critical section of _dispatch_sse.
Look(c) ==
    /\ At(c, "open")
    /\ clients' = IF ~clients[c].found /\ ~terminal /\ ~News(clients[c].last)
                  THEN [clients EXCEPT ![c].pc = "waiting"]
                  ELSE Answering(c)
    /\ UNCHANGED <<journal, dropped, worker, beats, losses>>

\* Faulty variant: the wait for news has no deadline.
WakeOnNews(c) ==
    /\ At(c, "waiting") /\ (terminal \/ News(clients[c].last))
    /\ clients' = Answering(c)
    /\ UNCHANGED <<journal, dropped, worker, beats, losses>>

\* wait_for ends with news or after 30 seconds, which may pass first.
Wake(c) ==
    /\ At(c, "waiting")
    /\ clients' = Answering(c)
    /\ UNCHANGED <<journal, dropped, worker, beats, losses>>

\* One event reaches the client.
Deliver(c) ==
    /\ At(c, "sending") /\ clients[c].answer # <<>>
    /\ LET e == Head(clients[c].answer)
       IN clients' = [clients EXCEPT ![c].last = e.sequence, ![c].answer = Tail(@),
                                     ![c].knows = e.kind = "terminal"]
    /\ UNCHANGED <<journal, dropped, worker, beats, losses>>

\* The answer is complete and the connection is closed.
Close(c) ==
    /\ At(c, "sending") /\ clients[c].answer = <<>>
    /\ clients' = [clients EXCEPT ![c].pc = "idle", ![c].found = FALSE]
    /\ UNCHANGED <<journal, dropped, worker, beats, losses>>

\* The connection breaks, and what was not received is lost.
Break(c) ==
    /\ At(c, "open") \/ At(c, "waiting") \/ At(c, "sending")
    /\ losses < MaxLosses /\ losses' = losses + 1
    /\ clients' = [clients EXCEPT ![c].pc = "idle", ![c].answer = <<>>, ![c].found = FALSE]
    /\ UNCHANGED <<journal, dropped, worker, beats>>

\* GET of the turn itself, for a client that was told of a gap.
Poll(c) ==
    /\ At(c, "gap")
    /\ \/ dropped /\ clients' = [clients EXCEPT ![c].pc = "unavailable"]
       \/ ~dropped /\ terminal /\ clients' = [clients EXCEPT ![c].pc = "idle", ![c].knows = TRUE]
    /\ UNCHANGED <<journal, dropped, worker, beats, losses>>

-----------------------------------------------------------------------------
Work == Start \/ Progress \/ BeginPhase \/ EndPhase \/ EndTurn

Serve(c) == Open(c) \/ Look(c) \/ Wake(c) \/ Deliver(c) \/ Close(c) \/ Poll(c)

Next ==
    \/ Work \/ CancelQueued \/ DropSession
    \/ \E p \in Phases : BeatDue(p) \/ Beat(p)
    \/ \E c \in Clients : Serve(c) \/ Break(c)

Spec == Init /\ [][Next]_vars

\* The worker's phases have deadlines, and a client comes back until it knows.
FairSpec == Spec /\ WF_vars(Work) /\ \A c \in Clients : WF_vars(Serve(c))

-----------------------------------------------------------------------------
(* Properties                                                              *)

\* The stream keeps its promise: numbers without a hole, nothing after the
\* terminal event although heartbeat threads outlive their phases, and clients
\* that get every event in order but those that were evicted.
Cursors == [c \in Clients |-> clients[c].last]
Stream == INSTANCE EventStream WITH
    Capacity <- MaxEvents, ended <- terminal, cursor <- Cursors
ImplementsEventStream == Stream!Spec

\* Every client that keeps coming back learns how the turn ended, or that it is
\* not there any more, also the one that was waiting when a queued turn was
\* taken away without a result.
TheEndIsLearned ==
    \A c \in Clients : <>(clients[c].knows \/ At(c, "unavailable"))

-----------------------------------------------------------------------------
(* What the code does not keep                                             *)

\* A client that goes on finds the event after its last one, or is told of a gap:
\* this does not hold.  The gap is looked for in the first section only, and what
\* the journal evicts before the second one is left out without a word.
GapsAreTold ==
    \A c \in Clients :
        (At(c, "sending") /\ clients[c].answer # <<>> /\ clients[c].last # 0) =>
            Head(clients[c].answer).sequence = clients[c].last + 1
=============================================================================
