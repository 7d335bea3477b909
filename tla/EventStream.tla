---------------------------- MODULE EventStream ----------------------------
(***************************************************************************)
(* What the event stream of a turn promises to its clients, whatever the   *)
(* worker, the heartbeat threads and the connections do: events are        *)
(* numbered without a hole, the terminal one is the last, and a client     *)
(* gets them in order and misses none but those the journal had no room    *)
(* for any more.                                                           *)
(***************************************************************************)
EXTENDS Naturals

CONSTANTS Clients, Capacity

VARIABLES next,    \* the number the next event will have
          ended,   \* the terminal event has been published
          cursor   \* the last event each client has received

\* A turn begins with one event, which says that it was accepted.
Init == next = 2 /\ ended = FALSE /\ cursor = [c \in Clients |-> 0]

Publish == ~ended /\ next' = next + 1 /\ UNCHANGED <<ended, cursor>>

End == ~ended /\ ended' = TRUE /\ next' = next + 1 /\ UNCHANGED cursor

Receive(c) ==
    /\ cursor[c] + 1 < next
    /\ cursor' = [cursor EXCEPT ![c] = @ + 1]
    /\ UNCHANGED <<next, ended>>

\* A client that fell behind goes on with an event that is still there, and
\* has missed only events that are not.
Skip(c) ==
    /\ \E k \in (cursor[c] + 2)..(next - 1) :
           /\ k + Capacity <= next
           /\ cursor' = [cursor EXCEPT ![c] = k]
    /\ UNCHANGED <<next, ended>>

Next == Publish \/ End \/ \E c \in Clients : Receive(c) \/ Skip(c)

Spec == Init /\ [][Next]_<<next, ended, cursor>>
=============================================================================
