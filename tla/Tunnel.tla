-------------------------------- MODULE Tunnel --------------------------------
(***************************************************************************)
(* The two gates of a portal that proxies its client (src/client.cpp): the *)
(* gate "from" with the client and the gate "to" with the backend.  The    *)
(* kernel takes only as much as its buffer has room for, so gate::send may *)
(* write a part of the output; the rest waits for an event that says that  *)
(* the socket is writable again.  Sockets are edge-triggered: an event that*)
(* is missed does not come back.                                           *)
(*                                                                         *)
(* A callback runs to its end on the worker's thread and is one action.    *)
(* Its mask was taken by epoll_wait (Report), and may be out of date.      *)
(* The model begins when from_s and to_s are both proxy or proxy_stable.   *)
(***************************************************************************)
EXTENDS Naturals, Sequences

CONSTANTS
    Capacity, \* units that the kernel's send buffer of a socket holds
    MaxEarly, \* bound: units the hub has written to the backend at the start
    MaxSent   \* bound: units the peer of a gate sends

ASSUME TunnelAssumption ==
    /\ Capacity \in Nat \ {0}
    /\ MaxEarly \in Nat
    /\ MaxSent \in [{"from", "to"} -> Nat]

Gates == {"from", "to"}
Other(g) == IF g = "from" THEN "to" ELSE "from"
Events == {"in", "out", "rdhup", "err"}

VARIABLES
    \* of each gate: its input and output, and the kernel's side of its socket:
    \* what is received and not read (rcv), written and not taken by the peer
    \* (snd), and whether a write has found no room (nospace, SOCK_NOSPACE)
    gate,
    stable,       \* to_s is proxy_stable
    disconnected, \* portal::disconnected
    alive,        \* the portal is in worker::clients, and proxies
    edge,         \* something has happened that epoll_wait has not reported
    mask,         \* what epoll_wait has reported, until the callback runs
    peer,         \* the peer's end: "open", "fin", "rst"
    put,          \* every unit the peer has sent
    got           \* every unit the peer has taken

vars == <<gate, stable, disconnected, alive, edge, mask, peer, put, got>>

Units == Nat
GateType == [input: Seq(Units), output: Seq(Units), rcv: Seq(Units), snd: Seq(Units),
             nospace: BOOLEAN]

(* The type invariant; the kernel holds no more than it has room for. *)
TypeOK ==
    /\ gate \in [Gates -> GateType]
    /\ \A g \in Gates : Len(gate[g].snd) <= Capacity
    /\ stable \in BOOLEAN
    /\ disconnected \in BOOLEAN
    /\ alive \in BOOLEAN
    /\ edge \in [Gates -> BOOLEAN]
    /\ mask \in [Gates -> SUBSET Events]
    /\ peer \in [Gates -> {"open", "fin", "rst"}]
    /\ put \in [Gates -> Seq(Units)]
    /\ got \in [Gates -> Seq(Units)]

-----------------------------------------------------------------------------
(* The operations of a gate, on a state gs of both *)

(* Mutant: a short write is taken for a whole one. *)
WrittenInFull(g, output, snd) == Len(output)

(* The number of units of an output that sock.write takes, with so much in   *)
(* the kernel already; none when the peer has reset.                         *)
Written(g, output, snd) ==
    LET room == Capacity - Len(snd)
    IN IF peer[g] = "rst" THEN 0
       ELSE IF room < Len(output) THEN room ELSE Len(output)

(* Mutant: the output is cleared whatever was written. *)
FlushedAndCleared(g, gt) ==
    LET n == Written(g, gt.output, gt.snd)
    IN [gt EXCEPT !.snd = @ \o SubSeq(gt.output, 1, n),
                  !.output = <<>>,
                  !.nospace = @ \/ n < Len(gt.output)]

(* One gate after gate::send: what is not written is kept. *)
Flushed(g, gt) ==
    LET n == Written(g, gt.output, gt.snd)
    IN [gt EXCEPT !.snd = @ \o SubSeq(gt.output, 1, n),
                  !.output = SubSeq(@, n + 1, Len(@)),
                  !.nospace = @ \/ n < Len(gt.output)]

Send(gs, g) == [gs EXCEPT ![g] = Flushed(g, @)]

(* gate::receive reads all that the kernel has. *)
Received(gt) == [gt EXCEPT !.input = @ \o gt.rcv, !.rcv = <<>>]
Receive(gs, g) == [gs EXCEPT ![g] = Received(@)]

(* Mutant: input.clear() is missing. *)
Copied(gs, g) == [gs EXCEPT ![Other(g)].output = @ \o gs[g].input]

(* The output of the other gate, to which tunnel appends the whole input. *)
Moved(gs, g) ==
    [gs EXCEPT ![Other(g)].output = @ \o gs[g].input, ![g].input = <<>>]

(* gate::tunnel moves the input on, and starts to write it. *)
Tunnel(gs, g) == Send(Moved(gs, g), Other(g))

(* The erasure of a portal destroys its buffers and closes its sockets; the *)
(* kernel goes on to send what it has.                                      *)
Erased(gs) == [g \in Gates |-> [gs[g] EXCEPT !.input = <<>>, !.output = <<>>, !.rcv = <<>>]]

-----------------------------------------------------------------------------

Numbered(first, last) == [i \in 1..(last - first + 1) |-> first + i - 1]
EmptyGate == [input |-> <<>>, output |-> <<>>, rcv |-> <<>>, snd |-> <<>>, nospace |-> FALSE]

(* The hub has just written the client's first packets to the backend (in   *)
(* to_send_new_hs, or from_login), as far as there was room; what the       *)
(* client sent in one piece with its login is left in the input.           *)
Init ==
    /\ peer = [g \in Gates |-> "open"]
    /\ \E early \in 1..MaxEarly, left \in {0, 1} :
          /\ put = [g \in Gates |-> IF g = "from" THEN Numbered(1, early + left) ELSE <<>>]
          /\ gate = Send([from |-> [EmptyGate EXCEPT !.input = Numbered(early + 1, early + left)],
                          to |-> [EmptyGate EXCEPT !.output = Numbered(1, early)]], "to")
    /\ stable \in BOOLEAN
    /\ stable => gate["from"].input = <<>>
    /\ disconnected = FALSE
    /\ alive = TRUE
    /\ edge = [g \in Gates |-> FALSE]
    /\ mask = [g \in Gates |-> {}]
    /\ got = [g \in Gates |-> <<>>]

-----------------------------------------------------------------------------
(* The callbacks *)

(* What each of the two events does to the buffers. *)
In(gs, g) == IF "in" \in mask[g] THEN Tunnel(Receive(gs, g), g) ELSE gs

(* Mutant: the client's socket is never written to when it is writable. *)
OutFromForgotten(gs) == gs

OutFrom(gs) == IF "out" \in mask["from"] THEN Send(gs, "from") ELSE gs

(* A writable backend makes the tunnel stable, and takes what is left of the *)
(* client's input along.                                                     *)
OutTo(gs) == IF "out" \in mask["to"] THEN Tunnel(Send(gs, "to"), "from") ELSE gs

(* The lambda of on_accept and on_from_event: the portal is erased at the   *)
(* end when either side has hung up.                                       *)
OnFrom ==
    LET after == OutFrom(In(gate, "from"))
        gone == disconnected \/ "rdhup" \in mask["from"]
    IN /\ alive /\ mask["from"] # {} /\ "err" \notin mask["from"]
       /\ disconnected' = gone
       /\ alive' = ~gone
       /\ gate' = IF gone THEN Erased(after) ELSE after
       /\ mask' = IF gone THEN [g \in Gates |-> {}] ELSE [mask EXCEPT !["from"] = {}]
       /\ UNCHANGED <<stable, edge, peer, put, got>>

(* An error of the client's socket: nothing is received. *)
OnFromError ==
    /\ alive /\ "err" \in mask["from"]
    /\ disconnected' = TRUE
    /\ alive' = FALSE
    /\ gate' = Erased(gate)
    /\ mask' = [g \in Gates |-> {}]
    /\ UNCHANGED <<stable, edge, peer, put, got>>

(* on_to_event: a hangup is noted, and what came with it is passed on. *)
OnTo ==
    /\ alive /\ mask["to"] # {} /\ "err" \notin mask["to"]
    /\ disconnected' = (disconnected \/ "rdhup" \in mask["to"])
    /\ stable' = (stable \/ "out" \in mask["to"])
    /\ gate' = OutTo(In(gate, "to"))
    /\ mask' = [mask EXCEPT !["to"] = {}]
    /\ UNCHANGED <<alive, edge, peer, put, got>>

(* An error of the backend's socket: a stable tunnel is disconnected, and    *)
(* before that the hub stands in for the backend, which ends the tunnel.     *)
OnToError ==
    /\ alive /\ "err" \in mask["to"]
    /\ disconnected' = TRUE
    /\ alive' = stable
    /\ gate' = IF stable THEN gate ELSE Erased(gate)
    /\ mask' = IF stable THEN [mask EXCEPT !["to"] = {}] ELSE [g \in Gates |-> {}]
    /\ UNCHANGED <<stable, edge, peer, put, got>>

-----------------------------------------------------------------------------
(* The kernel and the peers *)

(* A socket is writable when enough of its buffer is free: all of it is     *)
(* enough, and none is not.                                                *)
WritableIf(g, writable) ==
    /\ writable => Len(gate[g].snd) < Capacity \/ peer[g] = "rst"
    /\ gate[g].snd = <<>> \/ peer[g] = "rst" => writable

(* The mask tcp_poll computes for a socket. *)
EventMask(g, writable) ==
    {e \in Events :
        \/ e = "in" /\ (gate[g].rcv # <<>> \/ peer[g] # "open")
        \/ e = "out" /\ writable
        \/ e = "rdhup" /\ peer[g] # "open"
        \/ e = "err" /\ peer[g] = "rst"}

(* epoll_wait reports a socket, and asks to be woken when it is writable.   *)
Report(g) ==
    /\ alive /\ edge[g] /\ mask[g] = {}
    /\ edge' = [edge EXCEPT ![g] = FALSE]
    /\ \E writable \in BOOLEAN :
          /\ WritableIf(g, writable)
          /\ mask' = [mask EXCEPT ![g] = EventMask(g, writable)]
          /\ gate' = [gate EXCEPT ![g].nospace = @ \/ ~writable]
    /\ UNCHANGED <<stable, disconnected, alive, peer, put, got>>

(* A peer takes a unit.  When the hub waits for room the socket becomes      *)
(* writable, at the latest when all is taken.                                *)
Take(g) ==
    /\ peer[g] # "rst"
    /\ gate[g].snd # <<>>
    /\ got' = [got EXCEPT ![g] = Append(@, Head(gate[g].snd))]
    /\ \E wakes \in BOOLEAN :
          /\ wakes => gate[g].nospace
          /\ gate[g].nospace /\ Len(gate[g].snd) = 1 => wakes
          /\ gate' = [gate EXCEPT ![g].snd = Tail(@), ![g].nospace = @ /\ ~wakes]
          /\ edge' = [edge EXCEPT ![g] = @ \/ wakes]
    /\ UNCHANGED <<stable, disconnected, alive, mask, peer, put>>

(* A peer sends a unit. *)
Put(g) ==
    /\ alive /\ peer[g] = "open"
    /\ Len(put[g]) < MaxSent[g]
    /\ put' = [put EXCEPT ![g] = Append(@, Len(@) + 1)]
    /\ gate' = [gate EXCEPT ![g].rcv = Append(@, Len(put[g]) + 1)]
    /\ edge' = [edge EXCEPT ![g] = TRUE]
    /\ UNCHANGED <<stable, disconnected, alive, mask, peer, got>>

(* A peer hangs up, or its connection is reset. *)
Leave(g, how) ==
    /\ alive
    /\ <<peer[g], how>> \in {<<"open", "fin">>, <<"open", "rst">>, <<"fin", "rst">>}
    /\ peer' = [peer EXCEPT ![g] = how]
    /\ edge' = [edge EXCEPT ![g] = TRUE]
    /\ UNCHANGED <<gate, stable, disconnected, alive, mask, put, got>>

-----------------------------------------------------------------------------

Callback == OnFrom \/ OnFromError \/ OnTo \/ OnToError

Environment ==
    \E g \in Gates : Take(g) \/ Put(g) \/ (\E how \in {"fin", "rst"} : Leave(g, how))

Next == Callback \/ (\E g \in Gates : Report(g)) \/ Environment

(* The first answer of the backend to what the hub has written to it. *)
Answer == ~stable /\ got["to"] # <<>> /\ Put("to")

(* The worker goes on to wait for events and to handle them, the peers read  *)
(* what they are sent, and a backend answers the client's login.            *)
Fairness ==
    /\ \A g \in Gates : WF_vars(Report(g)) /\ WF_vars(Take(g))
    /\ WF_vars(Answer)
    /\ WF_vars(OnFrom \/ OnFromError)
    /\ WF_vars(OnTo \/ OnToError)

Spec == Init /\ [][Next]_vars /\ Fairness

-----------------------------------------------------------------------------
(* Properties *)

(* What is on its way from the peer of gate g to the other peer. *)
Stream(gs, g) == gs[Other(g)].snd \o gs[Other(g)].output \o gs[g].input \o gs[g].rcv

(* Nothing is lost, doubled or overtaken between two short writes           *)
(* (gate::send, tunnel and receive): what a peer has sent is what the other *)
(* has got, and what is in the buffers, in this order.                      *)
Conserved == alive => \A g \in Gates : put[g] = got[Other(g)] \o Stream(gate, g)

(* Nobody waits in vain: where there is data to receive, or output that did *)
(* not fit, an event that takes it on is pending or will be raised, although *)
(* each is reported once (client.cpp:320-330, 386-416).  Only what the client *)
(* sent in one piece with its login waits, until the backend is writable.   *)
NobodyWaits ==
    alive =>
        /\ gate["to"].input = <<>> /\ (stable => gate["from"].input = <<>>)
        /\ \A g \in Gates :
            /\ gate[g].rcv # <<>> => edge[g] \/ "in" \in mask[g] \/ peer[g] = "rst"
            /\ peer[g] # "open" /\ ~disconnected => edge[g] \/ "rdhup" \in mask[g]
            /\ gate[g].nospace => gate[g].snd # <<>> \/ peer[g] = "rst"
            /\ gate[g].output # <<>> =>
                  gate[g].nospace \/ edge[g] \/ "out" \in mask[g] \/ peer[g] = "rst"

(* A tunnel implements a pipe in each direction, until one of the peers     *)
(* leaves (gate::tunnel, gate::send and the events that call them).         *)
Ended == ~alive \/ disconnected \/ \E g \in Gates : peer[g] # "open"

Up == INSTANCE Pipe WITH
    Bound <- MaxSent["from"], sent <- put["from"], got <- got["to"], cut <- Ended
Down == INSTANCE Pipe WITH
    Bound <- MaxSent["to"], sent <- put["to"], got <- got["from"], cut <- Ended

ImplementsPipes == Up!Spec /\ Down!Spec

=============================================================================
