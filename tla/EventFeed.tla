------------------------------ MODULE EventFeed ------------------------------
(***************************************************************************)
(* What /api/events promises a client (api.py, docs/api.md): the events of *)
(* the mounts in the order they were emitted, none twice, none from before *)
(* it asked.  It may miss some.                                            *)
(***************************************************************************)
EXTENDS Naturals

CONSTANT Clients

VARIABLES
    published,  \* events so far; they are numbered from 1
    last        \* per client the newest event it has had, or may no longer have

Init == published = 0 /\ last = [c \in Clients |-> 0]

Publish == published' = published + 1 /\ UNCHANGED last

\* The client gets event e, or asks for the feed when e was the newest.
Advance(c, e) ==
    /\ last[c] < e
    /\ last' = [last EXCEPT ![c] = e]
    /\ UNCHANGED published

Next == Publish \/ \E c \in Clients : \E e \in 1..published : Advance(c, e)

Spec == Init /\ [][Next]_<<published, last>>

=============================================================================
