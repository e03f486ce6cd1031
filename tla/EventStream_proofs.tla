-------------------------- MODULE EventStream_proofs --------------------------
(***************************************************************************)
(* Proofs about the event stream, for any clients, queue size and number   *)
(* of events.                                                              *)
(***************************************************************************)
EXTENDS EventStream, TLAPS

-----------------------------------------------------------------------------
(* Queues.                                                                 *)

\* What appending an event does to a queue.
LEMMA AppendQueue ==
    ASSUME NEW q \in Seq(Nat), NEW e \in Nat
    PROVE  /\ Append(q, e) \in Seq(Nat)
           /\ Len(Append(q, e)) = Len(q) + 1
           /\ DOMAIN Append(q, e) = 1..Len(q) + 1
           /\ \A i \in DOMAIN q : Append(q, e)[i] = q[i]
           /\ Append(q, e)[Len(q) + 1] = e
           /\ Range(Append(q, e)) = Range(q) \cup {e}
<1>1. /\ Append(q, e) \in Seq(Nat) /\ Len(Append(q, e)) = Len(q) + 1
      /\ DOMAIN Append(q, e) = 1..Len(q) + 1 /\ DOMAIN q = 1..Len(q) /\ Len(q) \in Nat
      /\ \A i \in DOMAIN q : Append(q, e)[i] = q[i]
      /\ Append(q, e)[Len(q) + 1] = e
  OBVIOUS
<1>2. Range(Append(q, e)) = Range(q) \cup {e}
  <2>1. \A i \in DOMAIN Append(q, e) : i \in DOMAIN q \/ i = Len(q) + 1
    BY <1>1
  <2>2. DOMAIN q \subseteq DOMAIN Append(q, e) /\ Len(q) + 1 \in DOMAIN Append(q, e)
    BY <1>1
  <2> QED
    BY <1>1, <2>1, <2>2 DEF Range
<1> QED
  BY <1>1, <1>2

\* What taking the first event does to a queue.
LEMMA TailQueue ==
    ASSUME NEW q \in Seq(Nat), q # <<>>
    PROVE  /\ Tail(q) \in Seq(Nat)
           /\ Len(q) >= 1
           /\ Len(Tail(q)) = Len(q) - 1
           /\ DOMAIN Tail(q) = 1..Len(q) - 1
           /\ \A i \in DOMAIN Tail(q) : i + 1 \in DOMAIN q /\ Tail(q)[i] = q[i + 1]
           /\ 1 \in DOMAIN q /\ Head(q) = q[1] /\ Head(q) \in Nat
           /\ Range(q) = {Head(q)} \cup Range(Tail(q))
<1>1. /\ Tail(q) \in Seq(Nat) /\ Len(q) >= 1 /\ Len(Tail(q)) = Len(q) - 1
      /\ DOMAIN Tail(q) = 1..Len(q) - 1
      /\ \A i \in DOMAIN Tail(q) : i + 1 \in DOMAIN q /\ Tail(q)[i] = q[i + 1]
      /\ 1 \in DOMAIN q /\ Head(q) = q[1] /\ Head(q) \in Nat
      /\ DOMAIN q = 1..Len(q) /\ Len(q) \in Nat
  OBVIOUS
<1>2. Range(q) \subseteq {Head(q)} \cup Range(Tail(q))
  <2> SUFFICES ASSUME NEW i \in DOMAIN q PROVE q[i] \in {Head(q)} \cup Range(Tail(q))
    BY DEF Range
  <2>1. CASE i = 1
    BY <2>1, <1>1
  <2>2. CASE i # 1
    <3>1. i - 1 \in DOMAIN Tail(q) /\ i - 1 + 1 = i
      BY <2>2, <1>1
    <3>2. Tail(q)[i - 1] = q[i - 1 + 1]
      BY <3>1, <1>1
    <3> QED
      BY <3>1, <3>2 DEF Range
  <2> QED
    BY <2>1, <2>2
<1>3. {Head(q)} \cup Range(Tail(q)) \subseteq Range(q)
  BY <1>1 DEF Range
<1> QED
  BY <1>1, <1>2, <1>3

-----------------------------------------------------------------------------
(* Types.                                                                  *)

\* A move keeps the type of pc.
LEMMA MoveType ==
    ASSUME TypeOK, NEW c \in Clients, NEW from, NEW to \in PCs, Moves(c, from, to)
    PROVE  pc' \in [Clients -> PCs]
BY DEF TypeOK, Moves

\* Offering an event to a queue keeps its type and its bound.
LEMMA PutType ==
    ASSUME NEW q \in Seq(Nat), NEW e \in Nat, Len(q) <= Capacity
    PROVE  Put(q, e) \in Seq(Nat) /\ Len(Put(q, e)) <= Capacity
<1>1. CASE Len(q) < Capacity
  BY <1>1, AppendQueue, StreamAssumption DEF Put
<1>2. CASE ~(Len(q) < Capacity)
  BY <1>2 DEF Put
<1> QED
  BY <1>1, <1>2

\* Every step of the daemon or of a client keeps the types.
LEMMA NextTypeOK ==
    ASSUME TypeOK, [Next]_vars
    PROVE  TypeOK'
<1> USE DEF TypeOK
<1>1. CASE Emit
  <2>1. queue' \in [Clients -> Seq(Nat)] /\ \A c \in Clients : Len(queue'[c]) <= Capacity
    <3>1. \A c \in Clients : queue'[c] \in Seq(Nat) /\ Len(queue'[c]) <= Capacity
      BY <1>1, PutType DEF Emit
    <3>2. queue' = [c \in Clients |-> queue'[c]]
      BY <1>1 DEF Emit
    <3> QED
      BY <3>1, <3>2
  <2>2. missed' \in [Clients -> SUBSET Nat]
    BY <1>1 DEF Emit
  <2> QED
    BY <1>1, <2>1, <2>2 DEF Emit
<1>2. ASSUME NEW c \in Clients, Connect(c) PROVE TypeOK'
  BY <1>2, MoveType DEF Connect, PCs
<1>3. ASSUME NEW c \in Clients, Disconnect(c) PROVE TypeOK'
  BY <1>3 DEF Disconnect
<1>4. ASSUME NEW c \in Clients, Abandon(c) PROVE TypeOK'
  BY <1>4, MoveType DEF Abandon, PCs
<1>5. ASSUME NEW c \in Clients, Cancel(c) PROVE TypeOK'
  <2>1. queue' \in [Clients -> Seq(Nat)] /\ \A d \in Clients : Len(queue'[d]) <= Capacity
    <3>1. <<>> \in Seq(Nat) /\ Len(<<>>) = 0
      OBVIOUS
    <3> QED
      BY <1>5, <3>1, StreamAssumption DEF Cancel
  <2> QED
    BY <1>5, <2>1 DEF Cancel, PCs, Unregister
<1>6. ASSUME NEW c \in Clients, StartStream(c) PROVE TypeOK'
  BY <1>6, MoveType DEF StartStream, PCs, Generating
<1>7. ASSUME NEW c \in Clients, Check(c) PROVE TypeOK'
  BY <1>7, MoveType DEF Check, PCs, Generating
<1>8. ASSUME NEW c \in Clients, Leave(c) PROVE TypeOK'
  <2>1. queue' \in [Clients -> Seq(Nat)] /\ \A d \in Clients : Len(queue'[d]) <= Capacity
    <3>1. <<>> \in Seq(Nat) /\ Len(<<>>) = 0
      OBVIOUS
    <3> QED
      BY <1>8, <3>1, StreamAssumption DEF Leave
  <2> QED
    BY <1>8, <2>1, MoveType DEF Leave, PCs, Unregister
<1>9. ASSUME NEW c \in Clients, Take(c) PROVE TypeOK'
  <2>1. /\ Tail(queue[c]) \in Seq(Nat) /\ Len(Tail(queue[c])) = Len(queue[c]) - 1
        /\ Head(queue[c]) \in Nat /\ Len(queue[c]) \in Nat
    BY <1>9, TailQueue DEF Take
  <2>2. queue' \in [Clients -> Seq(Nat)] /\ \A d \in Clients : Len(queue'[d]) <= Capacity
    BY <1>9, <2>1, StreamAssumption DEF Take
  <2> QED
    BY <1>9, <2>1, <2>2, MoveType DEF Take, PCs, Generating
<1>10. ASSUME NEW c \in Clients, KeepAlive(c) PROVE TypeOK'
  BY <1>10, MoveType DEF KeepAlive, PCs, Generating, AfterKeepalive
<1>11. ASSUME NEW c \in Clients, Send(c) PROVE TypeOK'
  <2>1. last' \in [Clients -> Nat] /\ got' \in [Clients -> SUBSET Nat]
    <3>1. item[c] \in Nat /\ got[c] \cup {item[c]} \in SUBSET Nat
      OBVIOUS
    <3>2. CASE here[c]
      BY <1>11, <3>1, <3>2 DEF Send
    <3>3. CASE ~here[c]
      BY <1>11, <3>3 DEF Send
    <3> QED
      BY <3>2, <3>3
  <2>2. pc' \in [Clients -> PCs]
    BY <1>11, MoveType DEF Send, PCs, Generating
  <2> QED
    BY <1>11, <2>1, <2>2 DEF Send
<1>12. CASE SignalStop \/ Stopped
  BY <1>12 DEF SignalStop, Stopped
<1>13. CASE UNCHANGED vars
  BY <1>13 DEF vars
<1> QED
  BY <1>1, <1>2, <1>3, <1>4, <1>5, <1>6, <1>7, <1>8, <1>9, <1>10, <1>11, <1>12, <1>13
  DEF Next, Server

\* The start state is well typed.
LEMMA InitTypeOK == Init => TypeOK
BY StreamAssumption DEF Init, TypeOK, PCs

\* The types hold throughout, and no queue outgrows its maxsize.
THEOREM TypeCorrect == Spec => []TypeOK
BY InitTypeOK, NextTypeOK, PTL DEF Spec

-----------------------------------------------------------------------------
(* The inductive invariant.                                                *)

\* Nothing has been done yet for a client that has not asked.
Untouched(c) ==
    pc[c] = "away" => /\ c \notin registered /\ ~here[c] /\ item[c] = 0
                      /\ queue[c] = <<>> /\ got[c] = {} /\ missed[c] = {}

\* An event is in hand exactly while the generator sends.
InHand(c) == item[c] # 0 <=> pc[c] = "sending"

\* What was got, is in hand and waits is in the order of emission, and an event
\* at position i of the queue is at least the i-th since the client asked.
InOrder(c) ==
    /\ since[c] <= emitted
    /\ last[c] <= emitted
    /\ item[c] # 0 => last[c] < item[c] /\ item[c] <= emitted
    /\ \A i \in DOMAIN queue[c] :
         /\ last[c] < queue[c][i] /\ item[c] < queue[c][i] /\ queue[c][i] <= emitted
         /\ queue[c][i] >= since[c] + i
    /\ \A i, j \in DOMAIN queue[c] : i < j => queue[c][i] < queue[c][j]

\* The property of one client.
Accounted(c) ==
    c \in registered /\ here[c] =>
        /\ since[c] + 1 .. emitted = got[c] \cup Held(c) \cup missed[c]
        /\ missed[c] \cap (since[c] + 1 .. since[c] + Capacity) = {}

Of(c) == Untouched(c) /\ InHand(c) /\ InOrder(c) /\ Accounted(c)

Inv == TypeOK /\ \A c \in Clients : Of(c)

\* A step that leaves what concerns a client alone keeps all that is said of it.
LEMMA OthersKept ==
    ASSUME NEW c \in Clients, Of(c), emitted' = emitted,
           pc'[c] = pc[c], here'[c] = here[c], c \in registered' <=> c \in registered,
           queue'[c] = queue[c], item'[c] = item[c], since'[c] = since[c],
           last'[c] = last[c], got'[c] = got[c], missed'[c] = missed[c]
    PROVE  Of(c)'
BY DEF Of, Untouched, InHand, InOrder, Accounted, Held

\* An event is offered to every registered queue.
LEMMA EmitKeeps ==
    ASSUME Inv, Emit, NEW c \in Clients
    PROVE  Of(c)'
<1> DEFINE e == emitted + 1
           q == queue[c]
<1>1. /\ q \in Seq(Nat) /\ Len(q) <= Capacity /\ Len(q) \in Nat /\ DOMAIN q = 1..Len(q)
      /\ e \in Nat /\ emitted \in Nat /\ since[c] \in Nat /\ last[c] \in Nat /\ item[c] \in Nat
      /\ \A i \in DOMAIN q : q[i] \in Nat
      /\ got[c] \subseteq Nat /\ missed[c] \subseteq Nat /\ Capacity \in Nat \ {0}
  BY StreamAssumption DEF Inv, TypeOK
<1>2. /\ emitted' = e /\ pc' = pc /\ here' = here /\ registered' = registered
      /\ item' = item /\ since' = since /\ last' = last /\ got' = got
      /\ queue'[c] = IF c \in registered THEN Put(q, e) ELSE q
      /\ missed'[c] = IF c \in registered /\ e \notin Range(queue'[c])
                      THEN missed[c] \cup {e} ELSE missed[c]
  BY DEF Emit, Inv, TypeOK
<1>3. Untouched(c) /\ InHand(c) /\ InOrder(c) /\ Accounted(c)
  BY DEF Inv, Of
<1>4. Untouched(c)' /\ InHand(c)'
  BY <1>2, <1>3 DEF Untouched, InHand
<1>5. CASE c \notin registered
  <2>1. queue'[c] = q /\ missed'[c] = missed[c]
    BY <1>2, <1>5
  <2>2. InOrder(c)'
    BY <2>1, <1>1, <1>2, <1>3 DEF InOrder
  <2>3. Accounted(c)'
    BY <1>2, <1>5 DEF Accounted
  <2> QED
    BY <1>4, <2>2, <2>3 DEF Of
<1>6. CASE c \in registered /\ Len(q) < Capacity
  <2>1. queue'[c] = Append(q, e)
    BY <1>2, <1>6 DEF Put
  <2>2. /\ DOMAIN queue'[c] = 1..Len(q) + 1
        /\ \A i \in DOMAIN q : queue'[c][i] = q[i]
        /\ queue'[c][Len(q) + 1] = e
        /\ Range(queue'[c]) = Range(q) \cup {e}
    BY <1>1, <2>1, AppendQueue
  <2>3. missed'[c] = missed[c]
    BY <1>2, <2>2
  <2>4. e >= since[c] + (Len(q) + 1)
    <3>1. CASE Len(q) = 0
      BY <3>1, <1>1, <1>3 DEF InOrder
    <3>2. CASE Len(q) # 0
      <4>1. Len(q) \in DOMAIN q /\ q[Len(q)] \in Nat
        BY <3>2, <1>1
      <4>2. q[Len(q)] >= since[c] + Len(q) /\ q[Len(q)] <= emitted
        BY <4>1, <1>3 DEF InOrder
      <4>3. emitted >= since[c] + Len(q)
        BY <4>1, <4>2, <1>1
      <4> QED
        BY <4>3, <1>1
    <3> QED
      BY <3>1, <3>2
  <2>5. \A i \in DOMAIN queue'[c] : i \in DOMAIN q \/ i = Len(q) + 1
    BY <1>1, <2>2
  <2>6. \A i \in DOMAIN queue'[c] :
          /\ last[c] < queue'[c][i] /\ item[c] < queue'[c][i] /\ queue'[c][i] <= e
          /\ queue'[c][i] >= since[c] + i
    <3> SUFFICES ASSUME NEW i \in DOMAIN queue'[c]
                 PROVE  /\ last[c] < queue'[c][i] /\ item[c] < queue'[c][i] /\ queue'[c][i] <= e
                        /\ queue'[c][i] >= since[c] + i
      OBVIOUS
    <3>1. CASE i \in DOMAIN q
      <4>1. queue'[c][i] = q[i]
        BY <3>1, <2>2
      <4>2. last[c] < q[i] /\ item[c] < q[i] /\ q[i] <= emitted /\ q[i] >= since[c] + i
        BY <3>1, <1>3 DEF InOrder
      <4>3. q[i] <= e
        BY <3>1, <4>2, <1>1
      <4> QED
        BY <4>1, <4>2, <4>3
    <3>2. CASE i = Len(q) + 1
      <4>1. last[c] <= emitted /\ (item[c] # 0 => item[c] <= emitted)
        BY <1>3 DEF InOrder
      <4>2. queue'[c][i] = e /\ e >= since[c] + i
        BY <3>2, <2>2, <2>4
      <4> QED
        BY <4>1, <4>2, <1>1
    <3> QED
      BY <3>1, <3>2, <2>5
  <2>7. \A i, j \in DOMAIN queue'[c] : i < j => queue'[c][i] < queue'[c][j]
    <3> SUFFICES ASSUME NEW i \in DOMAIN queue'[c], NEW j \in DOMAIN queue'[c], i < j
                 PROVE  queue'[c][i] < queue'[c][j]
      OBVIOUS
    <3>1. i \in DOMAIN q
      BY <2>2, <1>1
    <3>2. CASE j \in DOMAIN q
      BY <3>1, <3>2, <2>2, <1>3 DEF InOrder
    <3>3. CASE j = Len(q) + 1
      <4>1. queue'[c][i] = q[i] /\ queue'[c][j] = e
        BY <3>1, <3>3, <2>2
      <4>2. q[i] <= emitted /\ q[i] \in Nat
        BY <3>1, <1>1, <1>3 DEF InOrder
      <4> QED
        BY <4>1, <4>2, <1>1
    <3> QED
      BY <3>2, <3>3, <2>5
  <2>8. InOrder(c)'
    BY <2>6, <2>7, <1>1, <1>2, <1>3 DEF InOrder
  <2>9. Accounted(c)'
    <3>1. Held(c)' = Held(c) \cup {e}
      BY <2>2, <1>2 DEF Held
    <3>2. since[c] + 1 .. e = (since[c] + 1 .. emitted) \cup {e}
      BY <1>1, <1>3 DEF InOrder
    <3> QED
      BY <3>1, <3>2, <2>3, <1>2, <1>3 DEF Accounted
  <2> QED
    BY <1>4, <2>8, <2>9 DEF Of
<1>7. CASE c \in registered /\ ~(Len(q) < Capacity)
  <2>1. queue'[c] = q
    BY <1>2, <1>7 DEF Put
  <2>2. e \notin Range(queue'[c])
    BY <2>1, <1>1, <1>3 DEF Range, InOrder
  <2>3. missed'[c] = missed[c] \cup {e}
    BY <2>2, <1>2, <1>7
  <2>4. InOrder(c)'
    BY <2>1, <1>1, <1>2, <1>3 DEF InOrder
  <2>5. e > since[c] + Capacity
    <3>1. Len(q) = Capacity /\ Len(q) \in DOMAIN q
      BY <1>1, <1>7
    <3>2. q[Len(q)] >= since[c] + Len(q) /\ q[Len(q)] <= emitted
      BY <3>1, <1>3 DEF InOrder
    <3> QED
      BY <3>1, <3>2, <1>1
  <2>6. Accounted(c)'
    <3>1. Held(c)' = Held(c)
      BY <2>1, <1>2 DEF Held
    <3>2. since[c] + 1 .. e = (since[c] + 1 .. emitted) \cup {e}
      BY <1>1, <1>3 DEF InOrder
    <3>3. e \notin since[c] + 1 .. since[c] + Capacity
      BY <2>5, <1>1
    <3> QED
      BY <3>1, <3>2, <3>3, <2>3, <1>2, <1>3 DEF Accounted
  <2> QED
    BY <1>4, <2>4, <2>6 DEF Of
<1> QED
  BY <1>5, <1>6, <1>7

\* A client asks.
LEMMA ConnectKeeps ==
    ASSUME Inv, NEW c \in Clients, Connect(c)
    PROVE  Of(c)'
<1>1. /\ pc[c] = "away" /\ pc'[c] = "accepted" /\ item'[c] = 0 /\ queue'[c] = <<>>
      /\ got'[c] = {} /\ missed'[c] = {} /\ since'[c] = emitted /\ last'[c] = emitted
      /\ emitted' = emitted /\ emitted \in Nat /\ Capacity \in Nat
  BY StreamAssumption DEF Connect, Moves, Inv, TypeOK, Of, Untouched
<1>2. Range(<<>>) = {} /\ DOMAIN <<>> = {}
  BY DEF Range
<1>3. emitted + 1 .. emitted = {}
  BY <1>1
<1>4. Untouched(c)' /\ InHand(c)'
  BY <1>1 DEF Untouched, InHand
<1>5. InOrder(c)'
  BY <1>1, <1>2 DEF InOrder
<1>6. Accounted(c)'
  BY <1>1, <1>2, <1>3 DEF Accounted, Held
<1> QED
  BY <1>4, <1>5, <1>6 DEF Of

\* A queue that goes with its generator.
LEMMA UnregisteredKeeps ==
    ASSUME Inv, NEW c \in Clients, Leave(c) \/ Cancel(c)
    PROVE  Of(c)'
<1>1. /\ pc'[c] = "over" /\ c \notin registered' /\ queue'[c] = <<>> /\ item'[c] = 0
      /\ emitted' = emitted /\ since' = since /\ last' = last
  BY DEF Leave, Cancel, Moves, Unregister, Inv, TypeOK, Of, InHand
<1>2. Untouched(c)' /\ InHand(c)' /\ Accounted(c)'
  BY <1>1 DEF Untouched, InHand, Accounted
<1>3. InOrder(c)'
  <2>1. DOMAIN <<>> = {}
    OBVIOUS
  <2>2. since[c] <= emitted /\ last[c] <= emitted
    BY DEF Inv, Of, InOrder
  <2> QED
    BY <1>1, <2>1, <2>2 DEF InOrder
<1> QED
  BY <1>2, <1>3 DEF Of

\* The generator takes the first event of its queue.
LEMMA TakeKeeps ==
    ASSUME Inv, NEW c \in Clients, Take(c)
    PROVE  Of(c)'
<1> DEFINE q == queue[c]
<1>1. /\ q \in Seq(Nat) /\ q # <<>>
      /\ pc[c] = "waiting" /\ pc'[c] = "sending"
      /\ item'[c] = Head(q) /\ queue'[c] = Tail(q)
      /\ emitted' = emitted /\ here' = here /\ registered' = registered
      /\ since' = since /\ last' = last /\ got' = got /\ missed' = missed
      /\ emitted \in Nat /\ last[c] \in Nat /\ since[c] \in Nat
      /\ \A i \in DOMAIN q : q[i] \in Nat
  BY DEF Take, Moves, Inv, TypeOK
<1>2. /\ Len(q) >= 1 /\ Len(q) \in Nat /\ DOMAIN Tail(q) = 1..Len(q) - 1
      /\ \A i \in DOMAIN Tail(q) : i + 1 \in DOMAIN q /\ Tail(q)[i] = q[i + 1]
      /\ 1 \in DOMAIN q /\ Head(q) = q[1] /\ Head(q) \in Nat
      /\ Range(q) = {Head(q)} \cup Range(Tail(q))
  BY <1>1, TailQueue
<1>3. InHand(c) /\ InOrder(c) /\ Accounted(c)
  BY DEF Inv, Of
<1>4. last[c] < Head(q) /\ Head(q) <= emitted /\ Head(q) # 0
  BY <1>1, <1>2, <1>3 DEF InOrder
<1>5. Untouched(c)' /\ InHand(c)'
  BY <1>1, <1>4 DEF Untouched, InHand
<1>6. \A i \in DOMAIN Tail(q) :
        /\ last[c] < Tail(q)[i] /\ Head(q) < Tail(q)[i] /\ Tail(q)[i] <= emitted
        /\ Tail(q)[i] >= since[c] + i
  <2> SUFFICES ASSUME NEW i \in DOMAIN Tail(q)
               PROVE  /\ last[c] < Tail(q)[i] /\ Head(q) < Tail(q)[i] /\ Tail(q)[i] <= emitted
                      /\ Tail(q)[i] >= since[c] + i
    OBVIOUS
  <2>1. i \in Nat /\ i >= 1 /\ i + 1 \in DOMAIN q /\ Tail(q)[i] = q[i + 1] /\ 1 < i + 1
    BY <1>2
  <2>2. last[c] < q[i + 1] /\ q[i + 1] <= emitted /\ q[i + 1] >= since[c] + (i + 1) /\ q[1] < q[i + 1]
    BY <2>1, <1>2, <1>3 DEF InOrder
  <2> QED
    BY <2>1, <2>2, <1>1, <1>2
<1>7. \A i, j \in DOMAIN Tail(q) : i < j => Tail(q)[i] < Tail(q)[j]
  <2> SUFFICES ASSUME NEW i \in DOMAIN Tail(q), NEW j \in DOMAIN Tail(q), i < j
               PROVE  Tail(q)[i] < Tail(q)[j]
    OBVIOUS
  <2>1. i + 1 \in DOMAIN q /\ j + 1 \in DOMAIN q /\ i + 1 < j + 1
    BY <1>2
  <2> QED
    BY <2>1, <1>2, <1>3 DEF InOrder
<1>8. InOrder(c)'
  BY <1>1, <1>3, <1>4, <1>6, <1>7 DEF InOrder
<1>9. Accounted(c)'
  <2>1. item[c] = 0
    BY <1>1, <1>3 DEF InHand
  <2>2. Held(c)' = Held(c)
    BY <2>1, <1>1, <1>2, <1>4 DEF Held
  <2> QED
    BY <2>2, <1>1, <1>3 DEF Accounted
<1> QED
  BY <1>5, <1>8, <1>9 DEF Of

\* The yields return; a client that is there has got the event.
LEMMA SendKeeps ==
    ASSUME Inv, NEW c \in Clients, Send(c)
    PROVE  Of(c)'
<1>1. /\ pc[c] = "sending" /\ pc'[c] = "checking" /\ item'[c] = 0
      /\ queue' = queue /\ emitted' = emitted /\ here' = here /\ registered' = registered
      /\ since' = since /\ missed' = missed
      /\ emitted \in Nat /\ last[c] \in Nat /\ since[c] \in Nat /\ item[c] \in Nat
      /\ \A i \in DOMAIN queue[c] : queue[c][i] \in Nat
  BY DEF Send, Moves, Inv, TypeOK
<1>2. InHand(c) /\ InOrder(c) /\ Accounted(c)
  BY DEF Inv, Of
<1>3. item[c] # 0
  BY <1>1, <1>2 DEF InHand
<1>4. Untouched(c)' /\ InHand(c)'
  BY <1>1 DEF Untouched, InHand
<1>5. CASE here[c]
  <2>1. last'[c] = item[c] /\ got'[c] = got[c] \cup {item[c]}
    BY <1>5 DEF Send, Inv, TypeOK
  <2>2. InOrder(c)'
    BY <2>1, <1>1, <1>2, <1>3 DEF InOrder
  <2>3. Accounted(c)'
    BY <2>1, <1>1, <1>2, <1>3 DEF Accounted, Held
  <2> QED
    BY <1>4, <2>2, <2>3 DEF Of
<1>6. CASE ~here[c]
  <2>1. last' = last
    BY <1>6 DEF Send
  <2>2. InOrder(c)'
    BY <2>1, <1>1, <1>2, <1>3 DEF InOrder
  <2>3. Accounted(c)'
    BY <1>1, <1>6 DEF Accounted
  <2> QED
    BY <1>4, <2>2, <2>3 DEF Of
<1> QED
  BY <1>5, <1>6

\* The steps of one client that move it on and touch no event.
LEMMA MovesKeep ==
    ASSUME Inv, NEW c \in Clients,
           Disconnect(c) \/ Abandon(c) \/ StartStream(c) \/ Check(c) \/ KeepAlive(c)
    PROVE  Of(c)'
<1>1. /\ emitted' = emitted /\ registered' = registered /\ queue' = queue /\ item' = item
      /\ since' = since /\ last' = last /\ got' = got /\ missed' = missed
      /\ here'[c] => here[c]
      /\ pc'[c] = "sending" <=> pc[c] = "sending"
      /\ pc'[c] = "away" => pc[c] = "away" /\ ~here[c]
  BY DEF Disconnect, Abandon, StartStream, Check, KeepAlive, Moves, AfterKeepalive, Inv, TypeOK,
         Of, Untouched
<1>2. Of(c)
  BY DEF Inv
<1> QED
  BY <1>1, <1>2 DEF Of, Untouched, InHand, InOrder, Accounted, Held

ClientStep(c) == Connect(c) \/ Disconnect(c) \/ Abandon(c) \/ Cancel(c) \/ Server(c)

\* A step of one client touches nothing of another.
LEMMA ClientStepIsLocal ==
    ASSUME Inv, NEW c \in Clients, ClientStep(c), NEW d \in Clients, d # c
    PROVE  /\ emitted' = emitted
           /\ pc'[d] = pc[d] /\ here'[d] = here[d] /\ (d \in registered' <=> d \in registered)
           /\ queue'[d] = queue[d] /\ item'[d] = item[d] /\ since'[d] = since[d]
           /\ last'[d] = last[d] /\ got'[d] = got[d] /\ missed'[d] = missed[d]
<1>1. CASE Connect(c)
  BY <1>1 DEF Connect, Moves, Inv, TypeOK
<1>2. CASE Disconnect(c) \/ Abandon(c) \/ StartStream(c) \/ Check(c) \/ KeepAlive(c)
  BY <1>2 DEF Disconnect, Abandon, StartStream, Check, KeepAlive, Moves, Inv, TypeOK
<1>3. CASE Cancel(c) \/ Leave(c)
  BY <1>3 DEF Cancel, Leave, Moves, Unregister, Inv, TypeOK
<1>4. CASE Take(c)
  BY <1>4 DEF Take, Moves, Inv, TypeOK
<1>5. CASE Send(c)
  <2>1. last'[d] = last[d] /\ got'[d] = got[d]
    BY <1>5 DEF Send, Inv, TypeOK
  <2> QED
    BY <1>5, <2>1 DEF Send, Moves, Inv, TypeOK
<1> QED
  BY <1>1, <1>2, <1>3, <1>4, <1>5 DEF ClientStep, Server

\* Every step keeps the invariant.
LEMMA NextInv ==
    ASSUME Inv, [Next]_vars
    PROVE  Inv'
<1>1. TypeOK'
  BY NextTypeOK DEF Inv
<1>2. CASE Emit
  BY <1>1, <1>2, EmitKeeps DEF Inv
<1>3. ASSUME NEW c \in Clients, ClientStep(c) PROVE Inv'
  <2>1. Of(c)'
    BY <1>3, ConnectKeeps, UnregisteredKeeps, TakeKeeps, SendKeeps, MovesKeep DEF ClientStep, Server
  <2>2. ASSUME NEW d \in Clients, d # c PROVE Of(d)'
    <3>1. Of(d)
      BY DEF Inv
    <3> QED
      BY <1>3, <2>2, <3>1, ClientStepIsLocal, OthersKept
  <2> QED
    BY <1>1, <2>1, <2>2 DEF Inv
<1>4. CASE SignalStop \/ Stopped \/ UNCHANGED vars
  <2>1. ASSUME NEW c \in Clients PROVE Of(c)'
    <3>1. Of(c)
      BY DEF Inv
    <3>2. /\ emitted' = emitted /\ pc' = pc /\ here' = here /\ registered' = registered
          /\ queue' = queue /\ item' = item /\ since' = since /\ last' = last
          /\ got' = got /\ missed' = missed
      BY <1>4 DEF SignalStop, Stopped, vars
    <3> QED
      BY <3>1, <3>2, OthersKept
  <2> QED
    BY <1>1, <2>1 DEF Inv
<1> QED
  BY <1>2, <1>3, <1>4 DEF Next, ClientStep

\* The invariant holds of every behaviour.
LEMMA InvHolds == Spec => []Inv
<1>1. Init => Inv
  <2> SUFFICES ASSUME Init PROVE Inv
    OBVIOUS
  <2>1. ASSUME NEW c \in Clients PROVE Of(c)
    <3>1. DOMAIN <<>> = {}
      OBVIOUS
    <3> QED
      BY <3>1 DEF Init, Of, Untouched, InHand, InOrder, Accounted
  <2> QED
    BY <2>1, InitTypeOK DEF Inv
<1> QED
  BY <1>1, NextInv, PTL DEF Spec

-----------------------------------------------------------------------------
(* The properties.                                                         *)

\* Whatever the number of clients and the maxsize of their queues: a connected
\* client has or will be offered every event since it asked, except those that
\* came while its queue was full, and never misses one of the first Capacity.
THEOREM NothingIsLost == Spec => []NothingLostSilently
<1>1. Inv => NothingLostSilently
  BY DEF Inv, TypeOK, Of, Accounted, NothingLostSilently
<1> QED
  BY <1>1, InvHolds, PTL

\* The queues and the generators implement the feed: no client gets events out of
\* order, twice, or from before it asked.
THEOREM Implements == Spec => RefinesEventFeed
<1>1. Init => Feed!Init
  BY DEF Init, Feed!Init
<1>2. Inv /\ [Next]_vars => [Feed!Next]_<<emitted, last>>
  <2> SUFFICES ASSUME Inv, [Next]_vars PROVE Feed!Next \/ UNCHANGED <<emitted, last>>
    OBVIOUS
  <2>1. CASE Emit
    BY <2>1 DEF Emit, Feed!Next, Feed!Publish
  <2>2. ASSUME NEW c \in Clients, Connect(c) PROVE Feed!Next \/ UNCHANGED <<emitted, last>>
    <3>1. emitted \in Nat /\ last[c] \in Nat /\ last[c] <= emitted
      BY DEF Inv, TypeOK, Of, InOrder
    <3>2. last' = [last EXCEPT ![c] = emitted] /\ emitted' = emitted
      BY <2>2 DEF Connect
    <3>3. CASE last[c] = emitted
      BY <3>2, <3>3 DEF Inv, TypeOK
    <3>4. CASE last[c] # emitted
      <4>1. last[c] < emitted /\ emitted \in 1..emitted
        BY <3>1, <3>4
      <4> QED
        BY <3>2, <4>1 DEF Feed!Next, Feed!Advance
    <3> QED
      BY <3>3, <3>4
  <2>3. ASSUME NEW c \in Clients, Send(c) PROVE Feed!Next \/ UNCHANGED <<emitted, last>>
    <3>1. CASE here[c]
      <4>1. emitted \in Nat /\ item[c] \in Nat /\ last[c] < item[c] /\ item[c] <= emitted /\ item[c] # 0
        BY <2>3 DEF Inv, TypeOK, Of, InHand, InOrder, Send, Moves
      <4>2. item[c] \in 1..emitted
        BY <4>1
      <4>3. last' = [last EXCEPT ![c] = item[c]] /\ emitted' = emitted
        BY <2>3, <3>1 DEF Send
      <4> QED
        BY <4>1, <4>2, <4>3 DEF Feed!Next, Feed!Advance
    <3>2. CASE ~here[c]
      BY <2>3, <3>2 DEF Send
    <3> QED
      BY <3>1, <3>2
  <2>4. ASSUME NEW c \in Clients,
               \/ Disconnect(c) \/ Abandon(c) \/ Cancel(c) \/ StartStream(c) \/ Check(c)
               \/ Leave(c) \/ Take(c) \/ KeepAlive(c)
        PROVE  UNCHANGED <<emitted, last>>
    BY <2>4 DEF Disconnect, Abandon, Cancel, StartStream, Check, Leave, Take, KeepAlive
  <2>5. CASE SignalStop \/ Stopped \/ UNCHANGED vars
    BY <2>5 DEF SignalStop, Stopped, vars
  <2> QED
    BY <2>1, <2>2, <2>3, <2>4, <2>5 DEF Next, Server
<1> QED
  BY <1>1, <1>2, InvHolds, PTL DEF Spec, RefinesEventFeed, Feed!Spec

=============================================================================
