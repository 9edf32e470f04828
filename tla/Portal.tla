------------------------------- MODULE Portal -------------------------------
(***************************************************************************)
(* One portal of MCSHub (src/client.cpp): the two sockets of a client      *)
(* connection, the state machines from_s and to_s that the epoll callbacks *)
(* drive, and the timer that bounds the dial of the backend.               *)
(*                                                                         *)
(* A callback runs to its end on the worker's thread, so each path through *)
(* a callback is one action.  The kernel, the client and the backend move  *)
(* between callbacks.  Sockets are edge-triggered: fromEdge and toEdge say *)
(* that something has happened since epoll_wait last reported the socket.  *)
(* The event mask of the backend's socket is taken by epoll_wait (PollTo), *)
(* and by the time its callback runs it may be out of date.                *)
(*                                                                         *)
(* The client's bytes are cut into the units the code tells apart:         *)
(*   "hs"           the handshake                                          *)
(*   "first" "rest" the first byte, and the remainder, of the second       *)
(*                  packet: the status request or the login start          *)
(*   "more"         what follows: a ping, or opaque proxied data           *)
(*   "bad"          a packet gate::head or gate::paket_read refuses        *)
(* What the backend says is only relayed, so its units are counted.        *)
(***************************************************************************)
EXTENDS Naturals, Sequences

CONSTANTS
    Intents,   \* next-state fields a handshake may carry: 1 status, 2 login
    Routes,    \* kinds of record a handshake may be routed to
    Malformed, \* may a client send a packet that the hub refuses?
    Eager,     \* may a backend speak before it has been asked anything?
    MaxUnits,  \* bound: units a client sends
    MaxSaid    \* bound: units a backend says

ASSUME PortalAssumption ==
    /\ Intents \subseteq Nat
    /\ Routes \subseteq {"drop", "local", "backend"}
    /\ Malformed \in BOOLEAN
    /\ Eager \in BOOLEAN
    /\ MaxUnits \in Nat
    /\ MaxSaid \in Nat

VARIABLES
    \* the portal and its place in the worker's list
    from_s,       \* portal::from_s
    to_s,         \* portal::to_s, "none" until it is first assigned
    disconnected, \* portal::disconnected
    timer,        \* the timer made by poll.later: "none" or "armed"
    toSock,       \* to.sock: "closed", "polled", or open but "removed" from the poll
    fromIn,       \* from.input
    toIn,         \* to.input
    alive,        \* the portal is still in worker::clients
    fault,        \* the process died: "assert" failed, or "stale" memory was used
    \* what the portal has put in its two output buffers so far
    toOut,        \* units for the backend
    relayed,      \* backend units for the client
    answers,      \* packets the hub itself made for the client
    \* the peers and the kernel's buffers
    intent, route,
    client,       \* client's end: "open", "fin", "rst"
    sent,         \* every unit the client has sent
    fromWire,     \* sent and not yet received by the portal
    fromEdge,
    backend,      \* the backend's connection, as the kernel sees it
    said,         \* number of units the backend has said
    toWire,       \* said and not yet received by the portal
    toEdge,
    toMask        \* what epoll_wait reported, until the callback runs

portalVars == <<from_s, to_s, disconnected, timer, toSock, fromIn, toIn, alive, fault>>
outVars == <<toOut, relayed, answers>>
clientVars == <<intent, route, client, sent>>
backendVars == <<backend, said>>
vars == <<portalVars, outVars, clientVars, fromWire, fromEdge, backendVars, toWire, toEdge, toMask>>

Units == {"hs", "first", "rest", "more", "bad"}
FakeStates == {"status_fake", "login_fake"}
FromStates == FakeStates \cup {"handshake", "wait", "login", "proxy", "proxy_stable"}
ToStates == {"none", "connect", "proxy", "proxy_stable"}
Answers == {"response", "pong", "disconnect"}
BackendStates == {"idle", "syn", "up", "fin", "err", "rst"}
Events == {"in", "out", "rdhup", "err", "hup"}

ControlOK ==
    /\ from_s \in FromStates
    /\ to_s \in ToStates
    /\ disconnected \in BOOLEAN
    /\ timer \in {"none", "armed"}
    /\ toSock \in {"closed", "polled", "removed"}
    /\ alive \in BOOLEAN
    /\ fault \in {"none", "assert", "stale"}
    /\ intent \in Intents
    /\ route \in Routes
    /\ client \in {"open", "fin", "rst"}
    /\ fromEdge \in BOOLEAN
    /\ backend \in BackendStates
    /\ toEdge \in BOOLEAN
    /\ toMask \subseteq Events

DataOK ==
    /\ fromIn \in Seq(Units)
    /\ toIn \in Nat
    /\ toOut \in Seq(Units)
    /\ relayed \in Nat
    /\ answers \in Seq(Answers)
    /\ sent \in Seq(Units)
    /\ fromWire \in Seq(Units)
    /\ said \in Nat
    /\ toWire \in Nat

(* The type invariant. *)
TypeOK == ControlOK /\ DataOK

Init ==
    /\ from_s = "handshake" /\ to_s = "none"
    /\ disconnected = FALSE
    /\ timer = "none"
    /\ toSock = "closed"
    /\ fromIn = <<>> /\ toIn = 0
    /\ alive = TRUE
    /\ fault = "none"
    /\ toOut = <<>> /\ relayed = 0 /\ answers = <<>>
    /\ intent \in Intents
    /\ route \in Routes
    /\ client = "open" /\ sent = <<>> /\ fromWire = <<>> /\ fromEdge = FALSE
    /\ backend = "idle" /\ said = 0 /\ toWire = 0 /\ toEdge = FALSE /\ toMask = {}

-----------------------------------------------------------------------------
(* Reading packets from from.input *)

(* The second packet of the client is whole and at the front of the input. *)
SecondPacket(in) == Len(in) >= 2 /\ in[1] = "first" /\ in[2] = "rest"
Drop2(in) == Tail(Tail(in))

(* gate::avail_read() < 2: nothing, or just one byte. *)
Short(in) == in \in {<<>>, <<"first">>}

(* kostilA and kostilB put a request, or a login, of the hub's own behind   *)
(* what there is.                                                          *)
Kostil(in) == IF Short(in) THEN in \o <<"first", "rest">> ELSE in

(* gate::head finds no whole packet.  A client's login whose first byte was *)
(* followed by the hub's own, shorter, packet is not whole either.         *)
NoRequest(in) == Short(in)
NoLogin(in) == Short(in) \/ in = <<"first", "first", "rest">>

(* set_from_state_by_hs throws unless the handshake asks for status or login. *)
IntentOK == intent \in {1, 2}
FakeState == IF intent = 1 THEN "status_fake" ELSE "login_fake"

(* What process_from_request does past the handshake: the next from_s, what *)
(* is left in from.input, what is added to the two outputs, and how it ends: *)
(* "ok", "kick" (disconnect() was called) or "throw".                      *)
Outcome(state, in, to, ans, end) ==
    [state |-> state, in |-> in, to |-> to, ans |-> ans, end |-> end]

Return(state, in) == Outcome(state, in, <<>>, <<>>, "ok")
Throw(state, in) == Outcome(state, in, <<>>, <<>>, "throw")

FromLogin(in) ==
    CASE NoLogin(in) -> Return("login", in)
      [] SecondPacket(in) -> Outcome("proxy", Drop2(in), <<"first", "rest">>, <<>>, "ok")
      [] OTHER -> Throw("login", in)

(* One packet is answered, whatever else there is in the input. *)
FromFakeStatus(in) ==
    CASE NoRequest(in) -> Return("status_fake", in)
      [] SecondPacket(in) -> Outcome("status_fake", Drop2(in), <<>>, <<"response">>, "ok")
      [] in # <<>> /\ Head(in) = "more" ->
            Outcome("status_fake", Tail(in), <<>>, <<"pong">>, "ok")
      [] OTHER -> Throw("status_fake", in)

(* Mutant: the case of login_fake falls through to that of login. *)
FromFakeLoginForwards(in) == FromLogin(in)

FromFakeLogin(in) ==
    CASE NoLogin(in) -> Return("login_fake", in)
      [] SecondPacket(in) ->
            Outcome("login_fake", Drop2(in), <<>>, <<"disconnect">>, "kick")
      [] OTHER -> Throw("login_fake", in)

(* Mutant: tunnel forgets input.clear(). *)
FromProxyKeepsInput(state, in) == Outcome(state, in, in, <<>>, "ok")

(* gate::tunnel moves the whole input to the other output. *)
FromProxy(state, in) == Outcome(state, <<>>, in, <<>>, "ok")

ProcessFrom(state, in) ==
    CASE state = "login" -> FromLogin(in)
      [] state = "status_fake" -> FromFakeStatus(in)
      [] state = "login_fake" -> FromFakeLogin(in)
      [] state \in {"proxy", "proxy_stable"} -> FromProxy(state, in)
      [] OTHER -> Return(state, in)

(* The portal keeps what process_from_request left behind. *)
Apply(r) ==
    /\ from_s' = r.state
    /\ fromIn' = r.in
    /\ toOut' = toOut \o r.to
    /\ answers' = answers \o r.ans

(* Mutants: the timer is never armed; the backend's socket stays open and  *)
(* polled when the hub stands in.                                          *)
LaterForgotten == UNCHANGED timer
CloseToForgotten == UNCHANGED toSock /\ toMask' = {}

(* poll.later arms the timer of the dial, poll.refuse disarms it. *)
Later == timer' = "armed"
Refuse == timer' = "none"

(* to.sock.close(): no callback of the socket runs after it. *)
CloseTo == toSock' = "closed" /\ toMask' = {}

-----------------------------------------------------------------------------
(* The callback of the client's socket: the lambda of worker::on_accept and *)
(* portal::on_from_event.  Everything the client has sent is received, one *)
(* request is processed, and a portal that is disconnected is erased.      *)

Received == fromIn \o fromWire

(* Mutant: rdhup of the client's socket does not disconnect. *)
ErasingOnKick(kicked) == disconnected \/ kicked

Erasing(kicked) == disconnected \/ client # "open" \/ kicked

(* Erasing the portal closes its sockets; its timer stays in the poll. *)
FromEvent(kicked) ==
    /\ fault = "none" /\ alive
    /\ fromEdge /\ client # "rst"
    /\ fromEdge' = FALSE
    /\ fromWire' = <<>>
    /\ disconnected' = Erasing(kicked)
    /\ alive' = ~Erasing(kicked)
    /\ UNCHANGED <<relayed, fault, clientVars, said, toWire, toIn>>

ToSockUnlessErased(kicked, sock) ==
    IF Erasing(kicked)
    THEN CloseTo
    ELSE toSock' = sock /\ UNCHANGED toMask

(* from_handshake with a backend: a non-blocking connect and a timer. *)
FromConnect ==
    /\ FromEvent(FALSE)
    /\ from_s = "handshake" /\ Received # <<>> /\ Head(Received) = "hs"
    /\ route = "backend"
    /\ to_s' = "connect" /\ from_s' = "wait"
    /\ backend' = "syn"
    /\ Later
    /\ fromIn' = Tail(Received)
    /\ ToSockUnlessErased(FALSE, "polled")
    /\ UNCHANGED <<toOut, answers, toEdge>>

(* from_handshake without a backend: none in the record, or its name does  *)
(* not resolve.  The hub answers itself, in the same callback.             *)
FromLocal ==
    LET r == IF IntentOK THEN ProcessFrom(FakeState, Tail(Received))
                         ELSE Throw("handshake", Tail(Received))
    IN /\ from_s = "handshake" /\ Received # <<>> /\ Head(Received) = "hs"
       /\ route \in {"local", "backend"}
       /\ FromEvent(r.end # "ok")
       /\ Apply(r)
       /\ ToSockUnlessErased(r.end # "ok", toSock)
       /\ UNCHANGED <<to_s, timer, backend, toEdge>>

(* A dropped record, a first packet that is refused, or a connect that     *)
(* fails at once: the exception disconnects the client.                    *)
FromReject ==
    /\ FromEvent(TRUE)
    /\ from_s = "handshake" /\ Received # <<>>
    /\ Head(Received) = "hs" => route \in {"drop", "backend"}
    /\ fromIn' = IF Head(Received) = "hs" THEN Tail(Received) ELSE Received
    /\ ToSockUnlessErased(TRUE, toSock)
    /\ UNCHANGED <<from_s, to_s, timer, toOut, answers, backend, toEdge>>

(* Any other state, or a handshake that has not arrived. *)
FromRequest ==
    LET r == ProcessFrom(from_s, Received)
    IN /\ FromEvent(r.end # "ok")
       /\ from_s = "handshake" => Received = <<>>
       /\ Apply(r)
       /\ ToSockUnlessErased(r.end # "ok", toSock)
       /\ UNCHANGED <<to_s, timer, backend, toEdge>>

(* An asynchronous error of the client's socket: nothing is received, and  *)
(* on_accept's lambda asks for the peer's address, for the log, before it  *)
(* erases the portal.  A reset client may have none: then that throws, the *)
(* portal stays in the list and the rest of epoll_wait's batch is dropped. *)
FromReset ==
    /\ fault = "none" /\ alive
    /\ fromEdge /\ client = "rst"
    /\ fromEdge' = FALSE
    /\ disconnected' = TRUE
    /\ \/ alive' = FALSE /\ CloseTo
       \/ UNCHANGED <<alive, toSock>> /\ toMask' \in {toMask, {}}
    /\ UNCHANGED <<from_s, to_s, timer, fromIn, toIn, fault, outVars, clientVars,
                   fromWire, backendVars, toWire, toEdge>>

-----------------------------------------------------------------------------
(* The callback of the backend's socket, portal::on_to_event.              *)

(* The mask tcp_poll computes for a connection in this state. *)
EventMask(state, wire) ==
    CASE state = "up" -> {"out"} \cup {e \in {"in"} : wire > 0}
      [] state = "fin" -> {"in", "out", "rdhup"}
      [] state = "err" -> {"err"}
      [] state = "rst" -> Events
      [] OTHER -> {}

(* epoll_wait reports the socket; its callback runs later. *)
PollTo ==
    /\ fault = "none" /\ alive /\ toSock = "polled"
    /\ toEdge /\ toMask = {}
    /\ toEdge' = FALSE
    /\ toMask' = EventMask(backend, toWire)
    /\ UNCHANGED <<portalVars, outVars, clientVars, fromWire, fromEdge, backendVars, toWire>>

ToEvent ==
    /\ fault = "none" /\ alive /\ toSock = "polled"
    /\ toMask # {}
    /\ toMask' = {}
    /\ UNCHANGED <<alive, clientVars, fromWire, fromEdge, backendVars, toEdge>>

Hangup == disconnected \/ "rdhup" \in toMask

(* What ensure_connected and last_error tell of the socket. *)
Broken == backend \in {"err", "rst"}

(* Mutant: the fallback also replaces a stable backend. *)
FallbackAlways == {"connect", "proxy", "proxy_stable"}

FallbackStates == {"connect", "proxy"}

(* The backend refused: the client is to be answered by the hub, but what  *)
(* it has already sent is not processed here.                              *)
ToHup ==
    /\ ToEvent
    /\ "hup" \in toMask
    /\ to_s = "connect" /\ IntentOK
    /\ disconnected' = Hangup
    /\ from_s' = FakeState
    /\ toSock' = "removed"
    /\ UNCHANGED <<to_s, timer, fromIn, toIn, fault, outVars, toWire>>

(* What the hub makes of the client's input when it takes over from a broken *)
(* backend.  Reading that peer's address, for the log, may throw as well:   *)
(* then the catch block stands in, and leaves the request in the input.    *)
Fallback(in) == {ProcessFrom(FakeState, in), Return(FakeState, in)}

(* An error before the backend is stable: the hub answers in its place, and *)
(* makes up the request when it has none.  When the processing throws, the *)
(* handler's catch block ends the same way.                                *)
ToErrFallback ==
    \E r \in Fallback(Kostil(fromIn)) :
        /\ ToEvent
        /\ "err" \in toMask
        /\ to_s \in FallbackStates /\ IntentOK
        /\ "hup" \in toMask => to_s # "connect"
        /\ disconnected' = (Hangup \/ r.end = "kick")
        /\ Apply(r)
        /\ CloseTo
        /\ UNCHANGED <<to_s, timer, toIn, fault, relayed, toWire>>

(* An error once the backend is stable. *)
ToErrDisconnect ==
    /\ ToEvent
    /\ "err" \in toMask
    /\ to_s \notin FallbackStates
    /\ disconnected' = TRUE
    /\ UNCHANGED <<from_s, to_s, timer, toSock, fromIn, toIn, fault, outVars, toWire>>

ConnectDone == to_s = "connect" /\ "out" \in toMask /\ "err" \notin toMask

(* The socket is writable because the connection failed. *)
ToOutFailed ==
    /\ ToEvent
    /\ ConnectDone /\ Broken /\ IntentOK
    /\ disconnected' = Hangup
    /\ from_s' = FakeState
    /\ CloseTo
    /\ toIn' = toIn + (IF "in" \in toMask THEN toWire ELSE 0)
    /\ toWire' = IF "in" \in toMask THEN 0 ELSE toWire
    /\ UNCHANGED <<to_s, timer, fromIn, fault, outVars>>

(* The backend failed but the handshake has a state the hub cannot stand in *)
(* for: set_from_state_by_hs throws in the handler and in its catch block, *)
(* and worker::job drops the exception.                                    *)
ToEscape ==
    /\ ToEvent
    /\ ~IntentOK
    /\ \/ "err" \in toMask /\ to_s \in FallbackStates
       \/ ConnectDone /\ Broken
    /\ disconnected' = Hangup
    /\ LET got == IF "in" \in toMask /\ "err" \notin toMask THEN toWire ELSE 0
       IN toIn' = toIn + got /\ toWire' = toWire - got
    /\ UNCHANGED <<from_s, to_s, timer, toSock, fromIn, fault, outVars>>

(* Mutant: the value of state_t that belongs to to_s. *)
StateAfterHandshakeOfTo == IF intent = 1 THEN "connect" ELSE "login"

StateAfterHandshake == IF intent = 1 THEN "proxy" ELSE "login"
FirstRequest == ProcessFrom(StateAfterHandshake, fromIn)

(* to_send_new_hs: the backend gets the handshake, the timer is refused and *)
(* whatever either side has already said is passed on.                     *)
ToEstablished ==
    LET got == IF "in" \in toMask THEN toWire ELSE 0
        r == FirstRequest
    IN /\ ToEvent
       /\ ConnectDone /\ ~Broken
       /\ timer = "armed" /\ r.end # "throw"
       /\ disconnected' = Hangup
       /\ Refuse
       /\ to_s' = "proxy"
       /\ from_s' = r.state /\ fromIn' = r.in
       /\ toOut' = toOut \o <<"hs">> \o r.to
       /\ answers' = answers \o r.ans
       /\ relayed' = relayed + toIn + got
       /\ toIn' = 0
       /\ toWire' = toWire - got
       /\ UNCHANGED <<toSock, fault>>

(* assert(poll.refuse(timeout)) fails: the timer has fired already, or the *)
(* catch block runs to_send_new_hs again after the client's login threw.   *)
ToAssertFails ==
    /\ ToEvent
    /\ ConnectDone /\ ~Broken
    /\ timer # "armed" \/ FirstRequest.end = "throw"
    /\ fault' = "assert"
    /\ UNCHANGED <<from_s, to_s, disconnected, timer, toSock, fromIn, toIn, outVars, toWire>>

(* Any later event without an error: both directions are passed on.  The   *)
(* second event makes the backend stable, whatever from_s was.             *)
ToReady ==
    LET got == IF "in" \in toMask THEN toWire ELSE 0
    IN /\ ToEvent
       /\ to_s \in {"proxy", "proxy_stable"}
       /\ "err" \notin toMask
       /\ disconnected' = Hangup
       /\ relayed' = relayed + toIn + got
       /\ toIn' = 0
       /\ toWire' = toWire - got
       /\ to_s' = "proxy_stable"
       /\ Apply(FromProxy("proxy_stable", fromIn))
       /\ UNCHANGED <<timer, toSock, fault>>

-----------------------------------------------------------------------------
(* The timer, portal::on_timeout.                                          *)

(* While the backend is being dialled the hub answers in its place.  What  *)
(* process_from_request throws here is dropped by worker::job.             *)
OnTimeout ==
    LET r == ProcessFrom(FakeState, fromIn)
    IN /\ fault = "none" /\ alive
       /\ timer = "armed"
       /\ timer' = "none"
       /\ IF to_s = "connect" /\ IntentOK
          THEN /\ disconnected' = (disconnected \/ r.end = "kick")
               /\ CloseTo
               /\ Apply(r)
          ELSE UNCHANGED <<disconnected, toSock, toMask, from_s, fromIn, toOut, answers>>
       /\ UNCHANGED <<to_s, toIn, alive, fault, relayed, clientVars, fromWire,
                      fromEdge, backendVars, toWire, toEdge>>

(* The timer of a portal that has been erased runs on freed memory: what    *)
(* it does is undefined, and it may kill the process.                      *)
StaleTimeout ==
    /\ fault = "none" /\ ~alive
    /\ timer = "armed"
    /\ timer' = "none"
    /\ fault' \in {"none", "stale"}
    /\ UNCHANGED <<from_s, to_s, disconnected, toSock, fromIn, toIn, alive, outVars,
                   clientVars, fromWire, fromEdge, backendVars, toWire, toEdge, toMask>>

-----------------------------------------------------------------------------
(* The peers and the kernel; nothing obliges them to do anything.          *)

(* What a client may send after what it has sent. *)
MaySend(u) ==
    LET last == IF sent = <<>> THEN "" ELSE sent[Len(sent)]
    IN CASE last = "" -> u = "hs" \/ (u = "bad" /\ Malformed)
         [] last = "hs" -> u = "first" \/ (u = "bad" /\ Malformed)
         [] last = "first" -> u = "rest"
         [] OTHER -> u = "more"

ClientSend(u) ==
    /\ fault = "none" /\ alive /\ client = "open"
    /\ Len(sent) < MaxUnits
    /\ MaySend(u)
    /\ sent' = Append(sent, u)
    /\ fromWire' = Append(fromWire, u)
    /\ fromEdge' = TRUE
    /\ UNCHANGED <<portalVars, outVars, intent, route, client, backendVars, toWire, toEdge, toMask>>

ClientLeave(how) ==
    /\ fault = "none" /\ alive
    /\ <<client, how>> \in {<<"open", "fin">>, <<"open", "rst">>, <<"fin", "rst">>}
    /\ client' = how
    /\ fromEdge' = TRUE
    /\ UNCHANGED <<portalVars, outVars, intent, route, sent, fromWire, backendVars, toWire, toEdge, toMask>>

BackendMoves == {
    <<"syn", "up">>, <<"syn", "err">>, <<"syn", "rst">>,
    <<"up", "fin">>, <<"up", "err">>, <<"up", "rst">>,
    <<"fin", "err">>, <<"fin", "rst">>, <<"err", "rst">> }

(* The backend's end of the connection, or the network, changes: "err" is a *)
(* connection whose error is recorded and that is about to be torn down.   *)
BackendMove(to) ==
    /\ fault = "none" /\ alive /\ toSock = "polled"
    /\ <<backend, to>> \in BackendMoves
    /\ backend' = to
    /\ toEdge' = TRUE
    /\ UNCHANGED <<portalVars, outVars, clientVars, fromWire, fromEdge, said, toWire, toMask>>

BackendSay ==
    /\ fault = "none" /\ alive /\ toSock = "polled"
    /\ backend = "up"
    /\ said < MaxSaid
    /\ Eager \/ \E i \in DOMAIN toOut : toOut[i] = "rest"
    /\ said' = said + 1
    /\ toWire' = toWire + 1
    /\ toEdge' = TRUE
    /\ UNCHANGED <<portalVars, outVars, clientVars, fromWire, fromEdge, backend, toMask>>

-----------------------------------------------------------------------------

FromCallback == FromConnect \/ FromLocal \/ FromReject \/ FromRequest \/ FromReset

ToCallback ==
    \/ ToHup \/ ToErrFallback \/ ToErrDisconnect \/ ToOutFailed \/ ToEscape
    \/ ToEstablished \/ ToAssertFails \/ ToReady

TimerCallback == OnTimeout \/ StaleTimeout

Environment ==
    \/ \E u \in Units : ClientSend(u)
    \/ \E how \in {"fin", "rst"} : ClientLeave(how)
    \/ \E to \in BackendStates : BackendMove(to)
    \/ BackendSay

Next == FromCallback \/ PollTo \/ ToCallback \/ TimerCallback \/ Environment

(* The worker keeps waiting for events and the timer's clock runs.  Nothing *)
(* is assumed of the client or of the backend.                             *)
Fairness ==
    /\ WF_vars(FromCallback)
    /\ WF_vars(PollTo)
    /\ WF_vars(ToCallback)
    /\ WF_vars(TimerCallback)

Spec == Init /\ [][Next]_vars /\ Fairness

-----------------------------------------------------------------------------
(* Properties *)

(* The two state machines move together: the pairs of from_s and to_s that *)
(* a live portal can be in, with the timer and with the backend's socket   *)
(* (the hub never stands in while that socket can still deliver events).   *)
Phases ==
    alive =>
        /\ from_s = "handshake" => to_s = "none"
        /\ to_s = "none" => from_s \in FakeStates \cup {"handshake"} /\ toSock = "closed"
        /\ from_s = "wait" => to_s = "connect"
        /\ to_s = "connect" => from_s \in FakeStates \cup {"wait"}
        /\ toSock = "polled" => from_s \notin FakeStates
        /\ to_s \in {"none", "connect"} => toOut = <<>>
        /\ timer = "armed" => to_s = "connect"

(* No unit is lost, doubled or reordered on its way to the backend or to   *)
(* the client, however the two callbacks, the dial and the late requests   *)
(* interleave (from.input, gate::tunnel, to_send_new_hs).                  *)
StreamConserved ==
    alive =>
        /\ from_s = "handshake" => sent = fromIn \o fromWire
        /\ from_s = "wait" => sent = <<"hs">> \o fromIn \o fromWire
        /\ from_s \in {"login", "proxy", "proxy_stable"} =>
                sent = toOut \o fromIn \o fromWire
        /\ said = relayed + toIn + toWire

(* What keeps the client from hearing both: nothing of the backend's is     *)
(* relayed before it is stable, and the hub never stands in after that.    *)
(* It holds when backends only answer (~Eager).                            *)
Quiet ==
    /\ to_s \in {"none", "connect"} => toOut = <<>> /\ said = 0
    /\ said = relayed + toIn + toWire
    /\ to_s # "proxy_stable" => relayed = 0 /\ toIn = 0
    /\ from_s \notin FakeStates => answers = <<>>
    /\ from_s \in FakeStates => to_s # "proxy_stable"

(* Once the hub stands in for the backend it does so for good: no late     *)
(* event of the backend's socket brings the client back to it.             *)
FakeIsFinal == [][(from_s \in FakeStates) => (from_s' \in FakeStates)]_vars

(* A client never hears both the backend and the hub, as long as a backend *)
(* only answers: the fallback of on_to_event (client.cpp:362-377) comes    *)
(* before the backend's first answer is relayed.                           *)
OneOrigin == relayed = 0 \/ answers = <<>>

(* While the connect is pending its timer is: when a client asks for status *)
(* or login, the timer that gives up the dial also closes the socket.      *)
Dialling == alive /\ toSock = "polled" /\ to_s = "connect" => timer = "armed"

(* assert(poll.refuse(timeout)) (client.cpp:292): a connection is          *)
(* established once and never after its timer has fired.                   *)
AssertHolds == fault # "assert"

(* A client does not wait for its backend for ever: mcshub.yml's timeout is *)
(* the "maximum time waiting connection to background server".             *)
WaitIsBounded == (alive /\ from_s = "wait") ~> (~alive \/ from_s # "wait")

(* A status request that came before the backend refused is answered by the *)
(* hub, although on_to_event returns without processing it                 *)
(* (client.cpp:348-353): the timer does.                                   *)
RefusedClientIsAnswered ==
    (alive /\ to_s = "connect" /\ from_s = "status_fake" /\ SecondPacket(fromIn))
        ~> (~alive \/ answers # <<>>)

(* A client that has hung up is erased from the worker's list, unless it   *)
(* has reset the connection as well: then it is at least disconnected,     *)
(* though the exception of the log line may leave it in the list           *)
(* (thread_controller.cpp:38-41).                                          *)
LeavingClientIsErased ==
    (client # "open") ~>
        (~alive \/ fault # "none" \/ (client = "rst" /\ disconnected))

(* The portal implements the promise made to one client. *)
Mode ==
    CASE ~alive -> "closed"
      [] alive /\ from_s \in FakeStates -> "hub"
      [] alive /\ from_s \notin FakeStates /\ to_s \in {"proxy", "proxy_stable"} -> "backend"
      [] alive /\ from_s \notin FakeStates /\ to_s = "connect" -> "connecting"
      [] OTHER -> "new"

Session == INSTANCE ClientSession WITH
    mode <- Mode, backendHeard <- relayed > 0, hubHeard <- answers # <<>>

(* One client connection is decided once: Portal implements ClientSession. *)
ImplementsSession == Session!Spec

=============================================================================
