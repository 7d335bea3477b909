-------------------------- MODULE TurnRecord_proofs -------------------------
(***************************************************************************)
(* Proofs about TurnRecord: whatever the worker, the heartbeat threads and *)
(* the connections do, the journal is a window on a numbered stream that   *)
(* ends with the terminal event, and clients receive it in order.          *)
(***************************************************************************)
EXTENDS TurnRecord, FiniteSetTheorems, SequenceTheorems, TLAPS

Events == [sequence : Nat, kind : {"accepted", "progress", "heartbeat", "terminal"}]

Connections == [pc : {"idle", "open", "waiting", "sending", "gap", "unavailable"},
                last : Nat, found : BOOLEAN,
                answer : Seq(Events), knows : BOOLEAN]

\* The journal holds the last events published, numbered without a hole, and has lost
\* some only if it is full.
JournalInv ==
    /\ events \in Seq(Events) /\ next \in Nat /\ terminal \in BOOLEAN
    /\ Len(events) \in 1..MaxEvents
    /\ Len(events) = MaxEvents \/ Len(events) = next - 1
    /\ Len(events) < next
    /\ \A i \in DOMAIN events : events[i].sequence = next - Len(events) + i - 1

\* Only the end of the turn lets the worker past the terminal event.
WorkerInv ==
    /\ worker \in [pc : {"queued", "working", "blocked", "removed", "gone"}, phase : Nat]
    /\ worker.pc \in {"working", "blocked"} => ~terminal

\* A list of events numbered from first, none of them unpublished at the number n.
Run(list, first, n) ==
    /\ \A i \in DOMAIN list : list[i].sequence = first + i - 1
    /\ first + Len(list) <= n

\* What a client has yet to receive of its answer: a run that goes on where it is, or
\* begins with an event that the journal has outlived by now.
AnswerFits(client, n) ==
    /\ client.last < n
    /\ client.pc # "sending" => client.answer = <<>>
    /\ client.answer # <<>> =>
           LET first == client.answer[1].sequence
           IN /\ Run(client.answer, first, n) /\ first > client.last
              /\ first = client.last + 1 \/ first + MaxEvents <= n

ClientInv ==
    /\ clients \in [Clients -> Connections]
    /\ \A c \in Clients : AnswerFits(clients[c], next)

RecordInv == JournalInv /\ WorkerInv /\ ClientInv

-----------------------------------------------------------------------------
(* The journal                                                             *)

\* The events after number n are the rest of the journal.
LEMMA AfterIsTheRest ==
    ASSUME JournalInv, NEW n \in Nat, n < next
    PROVE  LET first == IF next - Len(events) <= n + 1 THEN n + 1 ELSE next - Len(events)
           IN /\ After(n) \in Seq(Events) /\ Len(After(n)) = next - first
              /\ \A i \in DOMAIN After(n) : After(n)[i].sequence = first + i - 1
<1> DEFINE len == Len(events)
           first == IF next - len <= n + 1 THEN n + 1 ELSE next - len
           before == first - (next - len)
           Rank(i) == Cardinality({j \in Later(n) : j <= i})
<1>1. /\ len \in Nat \ {0} /\ len < next /\ next \in Nat /\ DOMAIN events = 1..len
      /\ \A i \in 1..len : events[i] \in Events /\ events[i].sequence = next - len + i - 1
  BY DEF JournalInv
<1>2. first \in Nat /\ before \in 0..len /\ before + 1 \in Int /\ len - before = next - first
  BY <1>1
<1>3. Later(n) = (before + 1)..len
  BY <1>1 DEF Later
<1> HIDE DEF before, first, len
<1>4. \A i \in Later(n) : Rank(i) = i - before
  <2> TAKE i \in Later(n)
  <2>1. {j \in Later(n) : j <= i} = (before + 1)..i
    BY <1>1, <1>2, <1>3
  <2>2. Cardinality((before + 1)..i) = i - before
    <3>1. i \in Int /\ before + 1 \in Int /\ before + 1 <= i
      BY <1>1, <1>2, <1>3
    <3>2. Cardinality((before + 1)..i) = i - (before + 1) + 1
      BY <3>1, FS_Interval
    <3>3. QED
      BY <1>2, <3>1, <3>2
  <2>3. QED
    BY <2>1, <2>2
<1> HIDE DEF Rank
<1>5. Cardinality(Later(n)) = len - before
  <2>1. len \in Int /\ before + 1 \in Int
    BY <1>1, <1>2
  <2>2. CASE before + 1 <= len
    <3>1. Cardinality((before + 1)..len) = len - (before + 1) + 1
      BY <2>1, <2>2, FS_Interval
    <3>2. QED
      BY <1>1, <1>2, <1>3, <3>1
  <2>3. CASE before = len
    <3>1. Later(n) = {}
      BY <1>1, <1>2, <1>3, <2>3
    <3>2. QED
      BY <1>1, <2>3, <3>1, FS_EmptySet
  <2>4. QED
    BY <1>1, <1>2, <2>2, <2>3
<1>6. \A k \in 1..(len - before) :
        (CHOOSE i \in Later(n) : Rank(i) = k) = before + k
  <2> TAKE k \in 1..(len - before)
  <2>1. before + k \in Later(n) /\ (before + k) - before = k
    BY <1>1, <1>2, <1>3
  <2>2. ASSUME NEW i \in Later(n) PROVE Rank(i) = k <=> i = before + k
    <3>1. i \in Int /\ before \in Int /\ k \in Int /\ Rank(i) = i - before
      BY <1>1, <1>2, <1>3, <1>4
    <3>2. QED
      BY <3>1
  <2>3. QED
    BY <2>1, <2>2
<1>7. After(n) = [k \in 1..(len - before) |-> events[before + k]]
  <2>1. After(n) = [k \in 1..Cardinality(Later(n)) |->
                        events[CHOOSE i \in Later(n) : Rank(i) = k]]
    BY DEF After, Rank
  <2>2. QED
    BY <1>5, <1>6, <2>1
<1>8. \A k \in 1..(len - before) :
        /\ events[before + k] \in Events
        /\ events[before + k].sequence = first + k - 1
  <2> TAKE k \in 1..(len - before)
  <2>1. before + k \in 1..len
    BY <1>1, <1>2
  <2>2. events[before + k].sequence = next - len + (before + k) - 1
    BY <1>1, <2>1
  <2>3. next - len + (before + k) - 1 = first + k - 1
    BY <1>1, <1>2 DEF before
  <2>4. QED
    BY <1>1, <2>1, <2>2, <2>3
<1>9. len - before \in Nat
  BY <1>1, <1>2
<1>10. After(n) \in Seq(Events) /\ Len(After(n)) = len - before
  BY <1>7, <1>8, <1>9
<1>11. QED
  BY <1>2, <1>7, <1>8, <1>10 DEF len, first

\* One event more.
LEMMA EmitJournal ==
    ASSUME JournalInv, NEW kind \in {"accepted", "progress", "heartbeat", "terminal"},
           Emit(kind), terminal' \in BOOLEAN
    PROVE  JournalInv' /\ next' = next + 1
<1> DEFINE e == [sequence |-> next, kind |-> kind]
           longer == Append(events, e)
           len == Len(events)
<1>1. /\ events \in Seq(Events) /\ next \in Nat /\ len \in 1..MaxEvents /\ len < next
      /\ len = MaxEvents \/ len = next - 1
      /\ \A i \in 1..len : events[i].sequence = next - len + i - 1
      /\ MaxEvents \in Nat /\ e \in Events /\ e.sequence = next
  BY TurnRecordAssumption DEF JournalInv, Events
<1>2. /\ next' = next + 1
      /\ events' = (IF Len(longer) > MaxEvents THEN Tail(longer) ELSE longer)
  BY DEF Emit, Appended
<1> HIDE DEF e
<1>3. /\ longer \in Seq(Events) /\ Len(longer) = len + 1
      /\ longer[len + 1] = e /\ \A i \in 1..len : longer[i] = events[i]
  BY <1>1, AppendProperties
<1> HIDE DEF longer
<1>4. \A i \in 1..(len + 1) : longer[i].sequence = next - len + i - 1
  <2>1. \A i \in 1..(len + 1) : i \in 1..len \/ i = len + 1
    BY <1>1
  <2>2. ASSUME NEW i \in 1..len PROVE longer[i].sequence = next - len + i - 1
    BY <1>1, <1>3
  <2>3. longer[len + 1].sequence = next - len + (len + 1) - 1
    <3>1. longer[len + 1].sequence = next /\ len \in Int /\ next \in Int
      BY <1>1, <1>3
    <3>2. QED
      BY <3>1
  <2>4. QED
    BY <2>1, <2>2, <2>3
<1> DEFINE Window(list, size) ==
               /\ list \in Seq(Events) /\ Len(list) = size
               /\ size = MaxEvents \/ size = len + 1
               /\ size <= len + 1
               /\ \A i \in 1..size : list[i].sequence = next - size + i
<1>5. ASSUME NEW size \in 1..MaxEvents, Window(events', size)
      PROVE  JournalInv'
  <2>1. size \in Nat /\ size < next' /\ next' \in Nat /\ (size = MaxEvents \/ size = next' - 1)
    BY <1>1, <1>2, <1>5
  <2>2. ASSUME NEW i \in 1..size PROVE events'[i].sequence = next' - size + i - 1
    <3>1. next - size + i = (next + 1) - size + i - 1
      BY <1>1, <2>1
    <3>2. QED
      BY <1>2, <1>5, <3>1
  <2>3. DOMAIN events' = 1..size
    BY <1>5
  <2>4. QED
    BY <1>5, <2>1, <2>2, <2>3 DEF JournalInv
<1> HIDE DEF Window
<1>6. CASE len + 1 <= MaxEvents
  <2>1. events' = longer
    BY <1>1, <1>2, <1>3, <1>6
  <2>2. len + 1 \in 1..MaxEvents
    BY <1>1, <1>6
  <2>3. \A i \in 1..(len + 1) : events'[i].sequence = next - (len + 1) + i
    <3> TAKE i \in 1..(len + 1)
    <3>1. next - len + i - 1 = next - (len + 1) + i
      BY <1>1
    <3>2. QED
      BY <1>4, <2>1, <3>1
  <2>4. Window(events', len + 1)
    BY <1>1, <1>3, <2>1, <2>2, <2>3 DEF Window
  <2>5. QED
    BY <1>2, <1>5, <2>2, <2>4
<1>7. CASE len = MaxEvents
  <2> DEFINE rest == Tail(longer)
  <2>1. events' = rest /\ longer # <<>>
    BY <1>1, <1>2, <1>3, <1>7
  <2>2. /\ rest \in Seq(Events) /\ Len(rest) = len
        /\ \A i \in 1..len : rest[i] = longer[i + 1]
    BY <1>1, <1>3, <2>1, HeadTailProperties
  <2> HIDE DEF rest
  <2>3. \A i \in 1..len : events'[i].sequence = next - len + i
    <3> TAKE i \in 1..len
    <3>1. i + 1 \in 1..(len + 1) /\ next - len + (i + 1) - 1 = next - len + i
      BY <1>1
    <3>2. QED
      BY <1>4, <2>1, <2>2, <3>1
  <2>4. Window(events', len)
    BY <1>1, <1>7, <2>1, <2>2, <2>3 DEF Window
  <2>5. QED
    BY <1>1, <1>2, <1>5, <2>4
<1>8. QED
  BY <1>1, <1>2, <1>6, <1>7

-----------------------------------------------------------------------------
(* The clients                                                             *)

\* What a client holds stays right when events are published.
LEMMA ClientsKeep ==
    ASSUME RecordInv, next' \in Nat, next' >= next, UNCHANGED clients
    PROVE  ClientInv' /\ Cursors' = Cursors
<1>1. ASSUME NEW c \in Clients PROVE AnswerFits(clients[c], next')
  <2> DEFINE client == clients[c]
  <2>1. client \in Connections /\ AnswerFits(client, next) /\ next \in Nat
    BY DEF RecordInv, ClientInv, JournalInv
  <2> HIDE DEF client
  <2>2. client.last \in Nat /\ client.answer \in Seq(Events) /\ MaxEvents \in Nat
    BY <2>1, TurnRecordAssumption DEF Connections
  <2>3. client.answer # <<>> => client.answer[1].sequence \in Nat /\ Len(client.answer) \in Nat
    <3>1. client.answer # <<>> => client.answer[1] \in Events /\ Len(client.answer) \in Nat
      BY <2>2
    <3>2. QED
      BY <3>1 DEF Events
  <2> DEFINE first == client.answer[1].sequence
             len == Len(client.answer)
  <2>4. client.last < next => client.last < next'
    BY <2>1, <2>2
  <2>5. ASSUME client.answer # <<>>
        PROVE  /\ first + len <= next => first + len <= next'
               /\ first + MaxEvents <= next => first + MaxEvents <= next'
    <3>1. first \in Nat /\ len \in Nat
      BY <2>3, <2>5
    <3> HIDE DEF first, len
    <3>2. QED
      BY <2>1, <2>2, <3>1
  <2>6. AnswerFits(client, next')
    BY <2>1, <2>4, <2>5 DEF AnswerFits, Run
  <2>7. QED
    BY <2>6 DEF client
<1>2. ClientInv'
  BY <1>1 DEF RecordInv, ClientInv
<1>3. QED
  BY <1>2 DEF Cursors

\* A step of one client.
LEMMA ClientStep ==
    ASSUME RecordInv, NEW c \in Clients, NEW client \in Connections,
           clients' = [clients EXCEPT ![c] = client], UNCHANGED <<journal, worker>>,
           AnswerFits(client, next)
    PROVE  /\ RecordInv' /\ UNCHANGED <<next, terminal>>
           /\ Cursors' = [Cursors EXCEPT ![c] = client.last]
<1>1. clients \in [Clients -> Connections] /\ clients'[c] = client
      /\ \A d \in Clients \ {c} : clients'[d] = clients[d]
  BY DEF RecordInv, ClientInv
<1>2. ClientInv'
  BY <1>1 DEF RecordInv, ClientInv, journal
<1>3. JournalInv' /\ WorkerInv' /\ UNCHANGED <<next, terminal>>
  BY DEF RecordInv, JournalInv, WorkerInv, journal
<1>4. Cursors' = [Cursors EXCEPT ![c] = client.last]
  BY <1>1 DEF Cursors
<1>5. QED
  BY <1>2, <1>3, <1>4 DEF RecordInv

\* A client that holds no part of an answer moves, and has received nothing new.
LEMMA ClientMoves ==
    ASSUME RecordInv, NEW c \in Clients, NEW client \in Connections,
           clients' = [clients EXCEPT ![c] = client], UNCHANGED <<journal, worker>>,
           client.last = clients[c].last, client.answer = <<>>
    PROVE  RecordInv' /\ UNCHANGED <<next, terminal, Cursors>>
<1>1. AnswerFits(client, next)
  BY DEF RecordInv, ClientInv, AnswerFits
<1>2. /\ RecordInv' /\ UNCHANGED <<next, terminal>>
      /\ Cursors' = [Cursors EXCEPT ![c] = client.last]
  BY <1>1, ClientStep
<1>3. Cursors' = Cursors
  BY <1>2 DEF Cursors
<1>4. QED
  BY <1>2, <1>3

LEMMA OpenKeeps ==
    ASSUME RecordInv, NEW c \in Clients, Open(c)
    PROVE  RecordInv' /\ UNCHANGED <<next, terminal, Cursors>>
<1> DEFINE old == clients[c]
<1>1. old \in Connections /\ old.pc = "idle" /\ old.answer = <<>>
      /\ clients \in [Clients -> Connections]
  BY DEF Open, At, RecordInv, ClientInv, AnswerFits
<1>2. News(old.last) \in BOOLEAN
  BY Zenon DEF News
<1>3. UNCHANGED <<journal, worker>>
  BY DEF Open
<1>4. CASE dropped
  <2> DEFINE w == [old EXCEPT !.pc = "unavailable"]
  <2>1. clients' = [clients EXCEPT ![c] = w]
    BY <1>1, <1>4 DEF Open
  <2>2. w \in Connections /\ w.pc = "unavailable" /\ w.last = old.last /\ w.answer = <<>>
    BY <1>1 DEF Connections
  <2> HIDE DEF w
  <2>3. QED
    BY <1>3, <2>1, <2>2, ClientMoves
<1>5. CASE ~dropped /\ (old.last # 0 /\ old.last + 1 < Earliest)
  <2> DEFINE w == [old EXCEPT !.pc = "gap"]
  <2>1. clients' = [clients EXCEPT ![c] = w]
    BY <1>1, <1>5 DEF Open
  <2>2. w \in Connections /\ w.pc = "gap" /\ w.last = old.last /\ w.answer = <<>>
    BY <1>1 DEF Connections
  <2> HIDE DEF w
  <2>3. QED
    BY <1>3, <2>1, <2>2, ClientMoves
<1>6. CASE ~dropped /\ ~(old.last # 0 /\ old.last + 1 < Earliest)
  <2> DEFINE news == News(old.last)
             w == [old EXCEPT !.pc = "open", !.found = news]
  <2>1. clients' = [clients EXCEPT ![c] = w]
    BY <1>1, <1>6 DEF Open
  <2>2. news \in BOOLEAN
    BY <1>2
  <2> HIDE DEF news
  <2>3. w \in Connections /\ w.last = old.last /\ w.answer = <<>>
    BY <1>1, <2>2 DEF Connections
  <2> HIDE DEF w
  <2>4. QED
    BY <1>3, <2>1, <2>3, ClientMoves
<1>7. QED
  BY <1>4, <1>5, <1>6

\* A client takes its answer, at once or after a wait.
LEMMA AnswerKeeps ==
    ASSUME RecordInv, NEW c \in Clients, At(c, "open") \/ At(c, "waiting"),
           clients' = Answering(c), UNCHANGED <<journal, worker>>
    PROVE  RecordInv' /\ UNCHANGED <<next, terminal, Cursors>>
<1> DEFINE old == clients[c]
           answer == After(old.last)
           w == [old EXCEPT !.pc = "sending", !.answer = answer]
           len == Len(events)
<1>1. /\ old \in Connections /\ AnswerFits(old, next)
      /\ clients \in [Clients -> Connections] /\ JournalInv
  BY DEF RecordInv, ClientInv
<1>2. old.last \in Nat /\ old.last < next
  BY <1>1 DEF Connections, AnswerFits
<1>3. PICK first \in Nat :
        /\ first = (IF next - len <= old.last + 1 THEN old.last + 1 ELSE next - len)
        /\ answer \in Seq(Events) /\ Len(answer) = next - first
        /\ \A i \in DOMAIN answer : answer[i].sequence = first + i - 1
  <2> DEFINE f == IF next - len <= old.last + 1 THEN old.last + 1 ELSE next - len
  <2>1. len \in Nat /\ next \in Nat /\ len < next
    BY <1>1 DEF JournalInv
  <2>2. f \in Nat
    BY <1>2, <2>1
  <2>3. /\ answer \in Seq(Events) /\ Len(answer) = next - f
        /\ \A i \in DOMAIN answer : answer[i].sequence = f + i - 1
    BY <1>1, <1>2, AfterIsTheRest
  <2>4. QED
    BY <2>2, <2>3
<1>4. clients' = [clients EXCEPT ![c] = w]
  BY <1>1 DEF Answering
<1> HIDE DEF answer, old
<1>5. /\ w \in Connections /\ w.pc = "sending" /\ w.last = old.last /\ w.answer = answer
  BY <1>1, <1>3 DEF Connections
<1> HIDE DEF w
<1>6. AnswerFits(w, next)
  <2>1. w.last < next /\ w.pc = "sending"
    BY <1>2, <1>5
  <2>2. ASSUME answer # <<>>
        PROVE  /\ answer[1].sequence = first /\ Run(answer, first, next) /\ first > old.last
               /\ first = old.last + 1 \/ first + MaxEvents <= next
    <3>1. len \in Nat /\ next \in Nat /\ len < next /\ (len = MaxEvents \/ len = next - 1)
      BY <1>1 DEF JournalInv
    <3>2. first > old.last /\ (first = old.last + 1 \/ first + MaxEvents <= next)
      BY <1>2, <1>3, <3>1
    <3>3. answer[1].sequence = first
      <4>1. 1 \in DOMAIN answer
        BY <1>3, <2>2
      <4>2. QED
        BY <1>3, <4>1
    <3>4. Run(answer, first, next)
      BY <1>3, <3>1 DEF Run
    <3>5. QED
      BY <3>2, <3>3, <3>4
  <2>3. QED
    BY <1>5, <2>1, <2>2 DEF AnswerFits
<1>7. /\ RecordInv' /\ UNCHANGED <<next, terminal>>
      /\ Cursors' = [Cursors EXCEPT ![c] = w.last]
  BY <1>4, <1>5, <1>6, ClientStep
<1>8. Cursors' = Cursors
  BY <1>5, <1>7 DEF Cursors, old
<1>9. QED
  BY <1>7, <1>8

LEMMA LookKeeps ==
    ASSUME RecordInv, NEW c \in Clients, Look(c)
    PROVE  RecordInv' /\ UNCHANGED <<next, terminal, Cursors>>
<1> DEFINE old == clients[c]
           w == [old EXCEPT !.pc = "waiting"]
<1>1. UNCHANGED <<journal, worker>> /\ At(c, "open")
  BY DEF Look
<1>2. CASE clients' = Answering(c)
  BY <1>1, <1>2, AnswerKeeps
<1>3. CASE clients' # Answering(c)
  <2>1. /\ old \in Connections /\ old.pc = "open" /\ old.answer = <<>>
        /\ clients \in [Clients -> Connections]
    BY <1>1 DEF At, RecordInv, ClientInv, AnswerFits
  <2>2. clients' = [clients EXCEPT ![c] = w]
    BY <1>3, <2>1 DEF Look
  <2>3. /\ w \in Connections /\ w.last = old.last /\ w.answer = <<>>
    BY <2>1 DEF Connections
  <2> HIDE DEF w
  <2>4. QED
    BY <1>1, <2>2, <2>3, ClientMoves
<1>4. QED
  BY <1>2, <1>3

\* The answer is complete, the connection breaks, or the turn is polled: nothing is held.
LEMMA IdleKeeps ==
    ASSUME RecordInv, NEW c \in Clients, Close(c) \/ Break(c) \/ Poll(c)
    PROVE  RecordInv' /\ UNCHANGED <<next, terminal, Cursors>>
<1> DEFINE old == clients[c]
<1>1. /\ old \in Connections /\ AnswerFits(old, next) /\ clients \in [Clients -> Connections]
      /\ UNCHANGED <<journal, worker>>
  BY DEF RecordInv, ClientInv, Close, Break, Poll
<1>2. \E w \in Connections :
        /\ clients' = [clients EXCEPT ![c] = w] /\ w.last = old.last /\ w.answer = <<>>
  <2>1. CASE Close(c)
    <3> DEFINE w == [old EXCEPT !.pc = "idle", !.found = FALSE]
    <3>1. clients' = [clients EXCEPT ![c] = w] /\ old.answer = <<>>
      BY <1>1, <2>1 DEF Close
    <3>2. w \in Connections /\ w.pc = "idle" /\ w.last = old.last /\ w.answer = <<>>
      BY <1>1, <3>1 DEF Connections
    <3>3. QED
      BY <3>1, <3>2
  <2>2. CASE Break(c)
    <3> DEFINE nothing == <<>>
               w == [old EXCEPT !.pc = "idle", !.answer = nothing, !.found = FALSE]
    <3>1. clients' = [clients EXCEPT ![c] = w]
      BY <1>1, <2>2 DEF Break
    <3>2. nothing \in Seq(Events)
      OBVIOUS
    <3> HIDE DEF nothing
    <3>3. w \in Connections /\ w.pc = "idle" /\ w.last = old.last /\ w.answer = nothing
      BY <1>1, <3>2 DEF Connections
    <3>4. QED
      BY <3>1, <3>3 DEF nothing
  <2>3. CASE Poll(c)
    <3>1. old.answer = <<>>
      BY <1>1, <2>3 DEF Poll, At, AnswerFits
    <3>2. CASE clients' = [clients EXCEPT ![c].pc = "unavailable"]
      <4> DEFINE w == [old EXCEPT !.pc = "unavailable"]
      <4>1. w \in Connections /\ w.pc = "unavailable" /\ w.last = old.last /\ w.answer = <<>>
        BY <1>1, <3>1 DEF Connections
      <4>2. QED
        BY <1>1, <3>2, <4>1
    <3>3. CASE clients' = [clients EXCEPT ![c].pc = "idle", ![c].knows = TRUE]
      <4> DEFINE w == [old EXCEPT !.pc = "idle", !.knows = TRUE]
      <4>1. w \in Connections /\ w.pc = "idle" /\ w.last = old.last /\ w.answer = <<>>
        BY <1>1, <3>1 DEF Connections
      <4>2. QED
        BY <1>1, <3>3, <4>1
    <3>4. QED
      BY <2>3, <3>2, <3>3 DEF Poll
  <2>4. QED
    BY <2>1, <2>2, <2>3
<1>3. PICK w \in Connections :
        /\ clients' = [clients EXCEPT ![c] = w] /\ w.last = old.last /\ w.answer = <<>>
  BY <1>2
<1>4. QED
  BY <1>1, <1>3, ClientMoves

\* The next event of the answer reaches the client, which has received it before it goes on.
LEMMA DeliverKeeps ==
    ASSUME RecordInv, NEW c \in Clients, Deliver(c)
    PROVE  /\ RecordInv' /\ UNCHANGED <<next, terminal>>
           /\ Stream!Receive(c) \/ Stream!Skip(c)
<1> DEFINE old == clients[c]
           answer == old.answer
           rest == Tail(answer)
           first == answer[1].sequence
           told == answer[1].kind = "terminal"
           w == [old EXCEPT !.last = first, !.answer = rest, !.knows = told]
<1>1. /\ old \in Connections /\ old.pc = "sending" /\ answer # <<>> /\ AnswerFits(old, next)
      /\ clients \in [Clients -> Connections] /\ UNCHANGED <<journal, worker>>
      /\ next \in Nat /\ MaxEvents \in Nat
  BY TurnRecordAssumption DEF Deliver, At, RecordInv, ClientInv, JournalInv
<1>2. /\ answer \in Seq(Events) /\ Len(answer) \in Nat \ {0} /\ old.last \in Nat
      /\ answer[1] \in Events /\ first \in Nat /\ Head(answer) = answer[1]
  <2>1. answer \in Seq(Events) /\ old.last \in Nat
    BY <1>1 DEF Connections
  <2>2. Len(answer) \in Nat \ {0} /\ answer[1] \in Events /\ Head(answer) = answer[1]
    BY <1>1, <2>1
  <2>3. QED
    BY <2>1, <2>2 DEF Events
<1>3. /\ \A i \in DOMAIN answer : answer[i].sequence = first + i - 1
      /\ first + Len(answer) <= next /\ first > old.last
      /\ first = old.last + 1 \/ first + MaxEvents <= next
  BY <1>1 DEF AnswerFits, Run
<1>4. clients' = [clients EXCEPT ![c] = w]
  BY <1>1, <1>2 DEF Deliver
<1>5. told \in BOOLEAN
  BY Zenon
<1>6. rest \in Seq(Events) /\ Len(rest) = Len(answer) - 1
      /\ \A i \in 1..Len(rest) : rest[i] = answer[i + 1]
  BY <1>1, <1>2, HeadTailProperties
<1> HIDE DEF answer, rest, first, told
<1>7. w \in Connections /\ w.last = first /\ w.answer = rest /\ w.pc = "sending"
  BY <1>1, <1>2, <1>5, <1>6 DEF Connections
<1> HIDE DEF w, old
<1>8. \A i \in 1..Len(rest) : rest[i].sequence = (first + 1) + i - 1
  <2> TAKE i \in 1..Len(rest)
  <2>1. i + 1 \in DOMAIN answer /\ i \in Int
    BY <1>2, <1>6
  <2>2. rest[i].sequence = first + (i + 1) - 1
    BY <1>3, <1>6, <2>1
  <2>3. QED
    BY <1>2, <2>1, <2>2
<1>9. ASSUME rest # <<>>
      PROVE  /\ rest[1].sequence = first + 1 /\ Run(rest, first + 1, next)
  <2>1. 1 \in 1..Len(rest)
    BY <1>6, <1>9
  <2>2. rest[1].sequence = first + 1
    BY <1>2, <1>8, <2>1
  <2>3. (first + 1) + Len(rest) <= next
    BY <1>1, <1>2, <1>3, <1>6
  <2>4. Run(rest, first + 1, next)
    BY <1>6, <1>8, <2>3 DEF Run
  <2>5. QED
    BY <2>2, <2>4
<1>10. first < next
  BY <1>1, <1>2, <1>3
<1>11. AnswerFits(w, next)
  BY <1>2, <1>7, <1>9, <1>10 DEF AnswerFits
<1>12. /\ RecordInv' /\ UNCHANGED <<next, terminal>>
       /\ Cursors' = [Cursors EXCEPT ![c] = first]
  BY <1>1, <1>4, <1>7, <1>11, ClientStep
<1>13. Cursors[c] = old.last
  BY DEF Cursors, old
<1>14. CASE first = old.last + 1
  <2>1. Stream!Receive(c)
    BY <1>1, <1>2, <1>10, <1>12, <1>13, <1>14 DEF Stream!Receive
  <2>2. QED
    BY <1>12, <2>1
<1>15. CASE first # old.last + 1
  <2>1. /\ first \in Nat /\ old.last \in Nat /\ next \in Nat
        /\ first > old.last /\ first < next /\ first # old.last + 1
        /\ first + MaxEvents <= next
    BY <1>1, <1>2, <1>3, <1>10, <1>15
  <2>2. first \in (old.last + 2)..(next - 1)
    BY <2>1
  <2>3. Stream!Skip(c)
    BY <1>12, <1>13, <2>1, <2>2 DEF Stream!Skip
  <2>4. QED
    BY <1>12, <2>3
<1>16. QED
  BY <1>14, <1>15

-----------------------------------------------------------------------------
(* The turn and its heartbeats                                             *)

\* An event that is published before the end, or as the end.
LEMMA PublishStep ==
    ASSUME RecordInv, ~terminal, NEW kind \in {"accepted", "progress", "heartbeat", "terminal"},
           Emit(kind), terminal' \in BOOLEAN, UNCHANGED clients, WorkerInv'
    PROVE  RecordInv' /\ (Stream!Publish \/ Stream!End)
<1>1. JournalInv' /\ next' = next + 1 /\ next \in Nat
  BY EmitJournal DEF RecordInv, JournalInv
<1>2. ClientInv' /\ Cursors' = Cursors
  BY <1>1, ClientsKeep
<1>3. Stream!Publish \/ Stream!End
  <2>1. CASE terminal'
    <3>1. terminal' = TRUE
      BY <2>1
    <3>2. QED
      BY <1>1, <1>2, <3>1 DEF Stream!End
  <2>2. CASE ~terminal'
    <3>1. terminal' = terminal
      BY <2>2 DEF RecordInv, JournalInv
    <3>2. QED
      BY <1>1, <1>2, <3>1 DEF Stream!Publish
  <2>3. QED
    BY <2>1, <2>2
<1>4. QED
  BY <1>1, <1>2, <1>3 DEF RecordInv

\* A step that publishes nothing.
LEMMA SilentStep ==
    ASSUME RecordInv, UNCHANGED <<journal, clients>>, WorkerInv'
    PROVE  RecordInv' /\ UNCHANGED <<next, terminal, Cursors>>
  BY DEF RecordInv, JournalInv, ClientInv, journal, Cursors

LEMMA WorkStep ==
    ASSUME RecordInv, Work \/ CancelQueued \/ DropSession
    PROVE  RecordInv' /\ [Stream!Next]_<<next, terminal, Cursors>>
<1>1. /\ worker \in [pc : {"queued", "working", "blocked", "removed", "gone"}, phase : Nat]
      /\ worker.pc \in {"working", "blocked"} => ~terminal
      /\ terminal \in BOOLEAN
  BY DEF RecordInv, WorkerInv, JournalInv
<1>2. UNCHANGED clients
  BY DEF Work, Start, Progress, BeginPhase, EndPhase, EndTurn, CancelQueued, DropSession
<1>3. CASE Start \/ BeginPhase \/ EndPhase \/ DropSession
  <2>1. UNCHANGED journal
    BY <1>3 DEF Start, BeginPhase, EndPhase, DropSession
  <2>2. WorkerInv'
    BY <1>1, <1>3 DEF Start, BeginPhase, EndPhase, DropSession, WorkerInv, journal
  <2>3. QED
    BY <1>2, <2>1, <2>2, SilentStep
<1>4. CASE Progress
  <2>1. Emit("progress") /\ UNCHANGED <<terminal, worker>> /\ ~terminal
    BY <1>1, <1>4 DEF Progress
  <2>2. WorkerInv'
    BY <2>1 DEF RecordInv, WorkerInv
  <2>3. QED
    BY <1>1, <1>2, <2>1, <2>2, PublishStep DEF Stream!Next
<1>5. CASE EndTurn \/ CancelQueued
  <2>1. WorkerInv'
    BY <1>1, <1>5 DEF EndTurn, CancelQueued, WorkerInv
  <2>2. CASE terminal
    BY <1>2, <1>5, <2>1, <2>2, SilentStep DEF EndTurn, CancelQueued, Finish
  <2>3. CASE ~terminal
    <3>1. Emit("terminal") /\ terminal' = TRUE
      BY <1>5, <2>3 DEF EndTurn, CancelQueued, Finish
    <3>2. QED
      BY <1>2, <2>1, <2>3, <3>1, PublishStep DEF Stream!Next
  <2>4. QED
    BY <2>2, <2>3
<1>6. QED
  BY <1>3, <1>4, <1>5 DEF Work

LEMMA BeatStep ==
    ASSUME RecordInv, NEW p \in Phases, BeatDue(p) \/ Beat(p)
    PROVE  RecordInv' /\ [Stream!Next]_<<next, terminal, Cursors>>
<1>1. UNCHANGED <<worker, clients>> /\ terminal \in BOOLEAN
  BY DEF BeatDue, Beat, RecordInv, JournalInv
<1>2. CASE UNCHANGED journal
  BY <1>1, <1>2, SilentStep DEF RecordInv, WorkerInv, journal
<1>3. CASE ~UNCHANGED journal
  <2>1. Emit("heartbeat") /\ UNCHANGED terminal /\ ~terminal
    BY <1>3 DEF BeatDue, Beat
  <2>2. WorkerInv'
    BY <1>1, <2>1 DEF RecordInv, WorkerInv
  <2>3. QED
    BY <1>1, <2>1, <2>2, PublishStep DEF Stream!Next
<1>4. QED
  BY <1>2, <1>3

LEMMA NextStep ==
    ASSUME RecordInv, [Next]_vars
    PROVE  RecordInv' /\ [Stream!Next]_<<next, terminal, Cursors>>
<1>1. CASE Work \/ CancelQueued \/ DropSession
  BY <1>1, WorkStep
<1>2. CASE \E p \in Phases : BeatDue(p) \/ Beat(p)
  BY <1>2, BeatStep
<1>3. ASSUME NEW c \in Clients, Serve(c) \/ Break(c)
      PROVE  RecordInv' /\ [Stream!Next]_<<next, terminal, Cursors>>
  <2>1. CASE Open(c)
    BY <2>1, OpenKeeps
  <2>2. CASE Look(c)
    BY <2>2, LookKeeps
  <2>3. CASE Wake(c)
    BY <2>3, AnswerKeeps DEF Wake
  <2>4. CASE Deliver(c)
    BY <2>4, DeliverKeeps DEF Stream!Next
  <2>5. CASE Close(c) \/ Break(c) \/ Poll(c)
    BY <2>5, IdleKeeps
  <2>6. QED
    BY <1>3, <2>1, <2>2, <2>3, <2>4, <2>5 DEF Serve
<1>4. CASE UNCHANGED vars
  <2>1. UNCHANGED <<journal, clients, worker>>
    BY <1>4 DEF vars, journal
  <2>2. WorkerInv'
    BY <2>1 DEF RecordInv, WorkerInv, journal
  <2>3. QED
    BY <2>1, <2>2, SilentStep
<1>5. QED
  BY <1>1, <1>2, <1>3, <1>4 DEF Next

LEMMA InitStep == Init => RecordInv /\ Stream!Init
<1> SUFFICES ASSUME Init PROVE RecordInv /\ Stream!Init
  OBVIOUS
<1> DEFINE e == [sequence |-> 1, kind |-> "accepted"]
           client == [pc |-> "idle", last |-> 0, found |-> FALSE,
                      answer |-> <<>>, knows |-> FALSE]
<1>1. events = <<e>> /\ next = 2 /\ terminal = FALSE /\ clients = [c \in Clients |-> client]
      /\ worker = [pc |-> "queued", phase |-> 0]
  BY DEF Init
<1>2. e \in Events /\ e.sequence = 1
  BY DEF Events
<1>3. client \in Connections /\ client.pc = "idle" /\ client.last = 0 /\ client.answer = <<>>
  BY DEF Connections
<1> HIDE DEF e, client
<1>4. JournalInv
  <2>1. <<e>> \in Seq(Events) /\ Len(<<e>>) = 1 /\ DOMAIN <<e>> = {1} /\ <<e>>[1] = e
    BY <1>2
  <2> DEFINE list == <<e>>
  <2>2. events = list /\ list \in Seq(Events) /\ Len(list) = 1 /\ DOMAIN list = {1}
        /\ list[1].sequence = 1
    BY <1>1, <1>2, <2>1
  <2> HIDE DEF list
  <2>3. \A i \in DOMAIN list : list[i].sequence = 2 - 1 + i - 1
    BY <2>2
  <2>4. /\ events \in Seq(Events) /\ Len(events) = 1 /\ next = 2 /\ terminal \in BOOLEAN
        /\ \A i \in DOMAIN events : events[i].sequence = next - Len(events) + i - 1
    BY <1>1, <2>2, <2>3
  <2>5. QED
    BY <2>4, TurnRecordAssumption DEF JournalInv
<1>5. WorkerInv
  BY <1>1 DEF WorkerInv
<1>6. ClientInv
  BY <1>1, <1>3 DEF ClientInv, AnswerFits
<1>7. Cursors = [c \in Clients |-> 0]
  BY <1>1, <1>3 DEF Cursors
<1>8. QED
  BY <1>1, <1>4, <1>5, <1>6, <1>7 DEF RecordInv, Stream!Init

\* The inductive invariant of the record and its readers.
THEOREM RecordSafety == Spec => []RecordInv
<1>1. Init => RecordInv
  BY InitStep
<1>2. RecordInv /\ [Next]_vars => RecordInv'
  BY NextStep
<1>3. QED
  BY <1>1, <1>2, PTL DEF Spec

\* Every step of the record and its readers is a step of the event stream or none: numbers
\* without a hole, nothing after the terminal event, and no reader misses an event that
\* the journal still had room for.
THEOREM StreamIsImplemented == Spec => ImplementsEventStream
<1>1. Init => Stream!Init
  BY InitStep
<1>2. RecordInv /\ [Next]_vars => [Stream!Next]_<<next, terminal, Cursors>>
  BY NextStep
<1>3. QED
  BY <1>1, <1>2, RecordSafety, PTL DEF Spec, ImplementsEventStream, Stream!Spec
=============================================================================
