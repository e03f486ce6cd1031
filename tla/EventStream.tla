----------------------------- MODULE EventStream -----------------------------
(***************************************************************************)
(* The server-sent events: Monitor._emit hands each event to               *)
(* _broadcast_event, which offers it to the queue of every subscriber; the *)
(* generator of sse_events sends what its queue holds.  One client stands  *)
(* for one request of /api/events; the browser's next attempt is another.  *)
(*                                                                         *)
(* Events are numbered.  The two frames of an event are sent as one.  The  *)
(* transport (StreamingResponse, uvicorn) is modelled from its use: it may *)
(* cancel the generator, or never start it, once the client is gone.  A     *)
(* daemon told to stop accepts no more requests and waits for the open ones. *)
(***************************************************************************)
EXTENDS Naturals, Sequences

CONSTANTS
    Clients,
    Capacity,  \* maxsize of a queue
    MaxEvents  \* bound on the events of a behaviour

ASSUME StreamAssumption == Capacity \in Nat \ {0} /\ MaxEvents \in Nat

VARIABLES
    emitted,     \* events so far
    pc,          \* where the request is
    here,        \* the client is connected
    registered,  \* whose queue is in _sse_queues
    queue,       \* what each queue holds
    item,        \* the event being sent, 0 if none
    since,       \* events emitted before the client asked
    last,        \* the newest event the client got, or since
    got,         \* the events it got
    missed,      \* the events its queue had no room for
    daemon       \* "running", "stopping" or "stopped"

vars == <<emitted, pc, here, registered, queue, item, since, last, got, missed, daemon>>

\* The generator has started: at is_disconnected, in wait_for(queue.get()) or at
\* a yield.
Generating == {"checking", "waiting", "sending"}
PCs == {"away", "accepted", "abandoned", "over"} \cup Generating

Init ==
    /\ emitted = 0
    /\ pc = [c \in Clients |-> "away"]
    /\ here = [c \in Clients |-> FALSE]
    /\ registered = {}
    /\ queue = [c \in Clients |-> <<>>]
    /\ item = [c \in Clients |-> 0]
    /\ since = [c \in Clients |-> 0]
    /\ last = [c \in Clients |-> 0]
    /\ got = [c \in Clients |-> {}]
    /\ missed = [c \in Clients |-> {}]
    /\ daemon = "running"

Range(q) == {q[i] : i \in DOMAIN q}

\* Mutants: no maxsize; a full queue drops its oldest event; newest event first.
PutUnbounded(q, e) == Append(q, e)
PutDroppingOldest(q, e) == IF Len(q) < Capacity THEN Append(q, e) ELSE Append(Tail(q), e)
PutInFront(q, e) == IF Len(q) < Capacity THEN <<e>> \o q ELSE q

\* put_nowait; QueueFull is ignored.
Put(q, e) == IF Len(q) < Capacity THEN Append(q, e) ELSE q

\* _emit, _broadcast_event
Emit ==
    LET e == emitted + 1 IN
    /\ daemon # "stopped"
    /\ emitted < MaxEvents
    /\ emitted' = e
    /\ queue' = [c \in Clients |-> IF c \in registered THEN Put(queue[c], e) ELSE queue[c]]
    /\ missed' = [c \in Clients |->
                     IF c \in registered /\ e \notin Range(queue'[c]) THEN missed[c] \cup {e} ELSE missed[c]]
    /\ UNCHANGED <<pc, here, registered, item, since, last, got, daemon>>

Moves(c, from, to) == pc[c] = from /\ pc' = [pc EXCEPT ![c] = to]

\* sse_events: the queue is registered before the response starts.
Connect(c) ==
    /\ daemon = "running"
    /\ Moves(c, "away", "accepted")
    /\ here' = [here EXCEPT ![c] = TRUE]
    /\ registered' = registered \cup {c}
    /\ since' = [since EXCEPT ![c] = emitted]
    /\ last' = [last EXCEPT ![c] = emitted]
    /\ UNCHANGED <<emitted, queue, item, got, missed, daemon>>

Disconnect(c) ==
    /\ here[c]
    /\ here' = [here EXCEPT ![c] = FALSE]
    /\ UNCHANGED <<emitted, pc, registered, queue, item, since, last, got, missed, daemon>>

StartStream(c) ==
    /\ Moves(c, "accepted", "checking")
    /\ UNCHANGED <<emitted, here, registered, queue, item, since, last, got, missed, daemon>>

\* A generator that never started has no finally to run: its queue stays.
Abandon(c) ==
    /\ ~here[c]
    /\ Moves(c, "accepted", "abandoned")
    /\ UNCHANGED <<emitted, here, registered, queue, item, since, last, got, missed, daemon>>

\* Mutant: the generator ends without its finally.
KeepQueue(c) == UNCHANGED registered
Unregister(c) == registered' = registered \ {c}

\* The generator goes on after is_disconnected said no.
Check(c) ==
    /\ here[c]
    /\ Moves(c, "checking", "waiting")
    /\ UNCHANGED <<emitted, here, registered, queue, item, since, last, got, missed, daemon>>

\* It said yes: the loop breaks, and the finally runs; the queue goes with it.
Leave(c) ==
    /\ ~here[c]
    /\ Moves(c, "checking", "over")
    /\ Unregister(c)
    /\ queue' = [queue EXCEPT ![c] = <<>>]
    /\ UNCHANGED <<emitted, here, item, since, last, got, missed, daemon>>

Take(c) ==
    /\ queue[c] # <<>>
    /\ Moves(c, "waiting", "sending")
    /\ item' = [item EXCEPT ![c] = Head(queue[c])]
    /\ queue' = [queue EXCEPT ![c] = Tail(@)]
    /\ UNCHANGED <<emitted, here, registered, since, last, got, missed, daemon>>

\* Mutants: a quiet stream ends at its first timeout; or waits on, unchecked.
EndsWhenQuiet == "over"
WaitsOn == "waiting"
AfterKeepalive == "checking"

\* 30 s without an event: a comment is sent.
KeepAlive(c) ==
    /\ queue[c] = <<>>
    /\ Moves(c, "waiting", AfterKeepalive)
    /\ UNCHANGED <<emitted, here, registered, queue, item, since, last, got, missed, daemon>>

\* The yields of an event return; a client that is gone gets nothing of it.
Send(c) ==
    /\ Moves(c, "sending", "checking")
    /\ item' = [item EXCEPT ![c] = 0]
    /\ IF here[c]
       THEN /\ last' = [last EXCEPT ![c] = item[c]]
            /\ got' = [got EXCEPT ![c] = @ \cup {item[c]}]
       ELSE UNCHANGED <<last, got>>
    /\ UNCHANGED <<emitted, here, registered, queue, since, missed, daemon>>

\* The transport noticed that the client is gone and cancels the response,
\* wherever the generator waits.
Cancel(c) ==
    /\ ~here[c]
    /\ pc[c] \in Generating
    /\ pc' = [pc EXCEPT ![c] = "over"]
    /\ item' = [item EXCEPT ![c] = 0]
    /\ Unregister(c)
    /\ queue' = [queue EXCEPT ![c] = <<>>]
    /\ UNCHANGED <<emitted, here, since, last, got, missed, daemon>>

-----------------------------------------------------------------------------
(* The end of _run: SIGTERM, then the server finishes its open responses,  *)
(* then the monitor stops.                                                 *)

SignalStop ==
    /\ daemon = "running"
    /\ daemon' = "stopping"
    /\ UNCHANGED <<emitted, pc, here, registered, queue, item, since, last, got, missed>>

Stopped ==
    /\ daemon = "stopping"
    /\ \A c \in Clients : pc[c] \in {"away", "abandoned", "over"}
    /\ daemon' = "stopped"
    /\ UNCHANGED <<emitted, pc, here, registered, queue, item, since, last, got, missed>>

-----------------------------------------------------------------------------
Server(c) == StartStream(c) \/ Check(c) \/ Leave(c) \/ Take(c) \/ KeepAlive(c) \/ Send(c)

Next ==
    \/ Emit \/ SignalStop \/ Stopped
    \/ \E c \in Clients :
         Connect(c) \/ Disconnect(c) \/ Abandon(c) \/ Cancel(c) \/ Server(c)

Spec == Init /\ [][Next]_vars

\* The event loop runs what is ready, a quiet get times out, and a client that
\* does not read ends up disconnected by TCP, which lets the send go on.
FairSpec == Spec /\ WF_vars(Stopped) /\ \A c \in Clients : WF_vars(Server(c))

-----------------------------------------------------------------------------
\* Every variable keeps its type; no queue exceeds its maxsize.
TypeOK ==
    /\ emitted \in Nat
    /\ pc \in [Clients -> PCs]
    /\ here \in [Clients -> BOOLEAN]
    /\ registered \subseteq Clients
    /\ queue \in [Clients -> Seq(Nat)]
    /\ \A c \in Clients : Len(queue[c]) <= Capacity
    /\ item \in [Clients -> Nat]
    /\ since \in [Clients -> Nat]
    /\ last \in [Clients -> Nat]
    /\ got \in [Clients -> SUBSET Nat]
    /\ missed \in [Clients -> SUBSET Nat]
    /\ daemon \in {"running", "stopping", "stopped"}

Held(c) == Range(queue[c]) \cup ({item[c]} \ {0})

\* A connected client has, or is still to get, every event since it asked,
\* whether or not its stream had started by then, but for those that came while
\* its queue was full; the first Capacity events are never among these.
NothingLostSilently ==
    \A c \in registered : here[c] =>
        /\ since[c] + 1 .. emitted = got[c] \cup Held(c) \cup missed[c]
        /\ missed[c] \cap (since[c] + 1 .. since[c] + Capacity) = {}

Feed == INSTANCE EventFeed WITH published <- emitted, last <- last

\* What clients get is an EventFeed: in order, no event twice, none older than
\* the request.
RefinesEventFeed == Feed!Spec

\* An event in the queue of a client reaches it, or the client leaves.
EventArrives ==
    \A c \in Clients : \A e \in 1..MaxEvents :
        e \in Range(queue[c]) ~> e \in got[c] \/ ~here[c]

\* The queue of a client that left is removed, however quiet the mounts are, if
\* its stream had started.
LeaverIsForgotten ==
    \A c \in Clients : pc[c] \in Generating /\ ~here[c] ~> c \notin registered

\* A daemon told to stop does so once no client is connected (one that stays on
\* its stream holds it up for as long as it likes).
StopsOnceLeft ==
    daemon = "stopping" /\ (\A c \in Clients : ~here[c]) ~> daemon = "stopped"

=============================================================================
