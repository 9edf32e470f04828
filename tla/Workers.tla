------------------------------ MODULE Workers ------------------------------
(***************************************************************************)
(* The threads of MCSHub: the workers (src/thread_controller.cpp), each    *)
(* with a listener on the common port, an eventfd, a list of portals and a *)
(* loop over epoll, and the main thread that makes them and, at SIGTERM,   *)
(* stops them and waits for them (src/mcshub.cpp).                         *)
(*                                                                         *)
(* epoll reports an edge once (et), in a batch with whatever else is       *)
(* ready.  The loop swallows every exception, and with it what is left of  *)
(* the batch: edges[w] are those not reported yet, batch[w] those reported *)
(* and not handled, lost[w] those swallowed and not followed by another.   *)
(* A listener is level-triggered: it is ready while a connection waits.    *)
(***************************************************************************)
EXTENDS Naturals, FiniteSets

CONSTANTS
    Worker,     \* the workers
    Client,     \* the clients' connections
    Homes,      \* the ways the kernel may spread the connections over the workers
    Ports,      \* ports that the kernel may pick
    ConfPort    \* the configured port, or 0 for any

ASSUME WorkersAssumption ==
    /\ Homes \subseteq [Client -> Worker]
    /\ 0 \notin Ports /\ Ports \cup {ConfPort} \subseteq Nat
    /\ {"listener", "events", "backend"} \cap Client = {}

VARIABLES
    main,       \* what the main thread is doing
    real_port,  \* thread_controller::real_port
    port,       \* the port of each worker, or 0 when it is not started
    notified,   \* the workers whose stop() has been called
    working,    \* worker::working
    ended,      \* the workers whose thread is at its end
    counter,    \* the value of the eventfd
    stage,      \* of each connection
    home,       \* the worker whose listener the kernel gave it to
    gone,       \* the clients that have left
    told,       \* the clients a message of disconnection has been written to
    rdhup,      \* the clients with an event reported that says they have left
    edges, batch, lost

starting == <<main, real_port, port>>
threads == <<working, ended, counter, notified>>
clients == <<stage, home, gone, told, rdhup>>
events == <<edges, batch, lost>>
vars == <<starting, threads, clients, events>>

Stages == {"new", "waiting", "polled", "orphan", "erased"}
Edges == Client \cup {"events"}
Sources == Edges \cup {"listener", "backend"}

(* The type invariant. *)
TypeOK ==
    /\ main \in {"starting", "serving", "stopping", "exited"}
    /\ real_port \in Ports \cup {0, ConfPort} /\ port \in [Worker -> Ports \cup {0, ConfPort}]
    /\ notified \subseteq Worker /\ ended \subseteq Worker
    /\ working \in [Worker -> BOOLEAN]
    /\ counter \in [Worker -> Nat]
    /\ stage \in [Client -> Stages] /\ home \in [Client -> Worker]
    /\ gone \subseteq Client /\ told \subseteq Client /\ rdhup \subseteq Client
    /\ edges \in [Worker -> SUBSET Edges] /\ lost \in [Worker -> SUBSET (Sources \ {"listener"})]
    /\ batch \in [Worker -> SUBSET Sources]

Waiting(w) == {c \in Client : home[c] = w /\ stage[c] = "waiting"}
Polled(w) == {c \in Client : home[c] = w /\ stage[c] = "polled"}

(* worker::clients: an orphan is in the list and not in the poll. *)
List(w) == {c \in Client : home[c] = w /\ stage[c] \in {"polled", "orphan"}}

(* An edge appears; what was lost before it does not matter any more. *)
Raise(w, s) ==
    /\ edges' = [edges EXCEPT ![w] = @ \cup {s}]
    /\ lost' = [lost EXCEPT ![w] = @ \ {s}]

Init ==
    /\ main = "starting" /\ real_port = 0 /\ port = [w \in Worker |-> 0]
    /\ notified = {} /\ ended = {}
    /\ working = [w \in Worker |-> TRUE]
    /\ counter = [w \in Worker |-> 0]
    /\ stage = [c \in Client |-> "new"] /\ home \in Homes
    /\ gone = {} /\ told = {} /\ rdhup = {}
    \* an eventfd can be written to from the beginning
    /\ edges = [w \in Worker |-> {"events"}]
    /\ batch = [w \in Worker |-> {}] /\ lost = [w \in Worker |-> {}]

-----------------------------------------------------------------------------
(* The main thread *)

(* The bitwise or of two ports, one of which is 0 or the other. *)
Or(p, q) == IF p = 0 THEN q ELSE p

(* Mutant: every worker takes the port of the configuration. *)
PortAskedFromConf == ConfPort

PortAsked == Or(ConfPort, real_port)

(* worker::worker: listen, and start the thread. *)
Start(w) ==
    /\ main = "starting" /\ port[w] = 0
    /\ \E p \in IF PortAsked = 0 THEN Ports ELSE {PortAsked} :
            port' = [port EXCEPT ![w] = p] /\ real_port' = p
    /\ main' = IF \A v \in Worker \ {w} : port[v] # 0 THEN "serving" ELSE main
    /\ UNCHANGED <<threads, clients, events>>

Sigterm ==
    /\ main = "serving"
    /\ main' = "stopping"
    /\ UNCHANGED <<real_port, port, threads, clients, events>>

(* worker::stop, for each of them in turn. *)
Stop(w) ==
    /\ main = "stopping" /\ w \notin notified
    /\ notified' = notified \cup {w}
    /\ counter' = [counter EXCEPT ![w] = @ + 1]
    /\ Raise(w, "events")
    /\ UNCHANGED <<starting, working, ended, clients, batch>>

(* thread_controller::terminate has waited for every thread. *)
Exit ==
    /\ main = "stopping" /\ notified = Worker /\ ended = Worker
    /\ main' = "exited"
    /\ UNCHANGED <<real_port, port, threads, clients, events>>

-----------------------------------------------------------------------------
(* A worker *)

Works(w) == port[w] # 0 /\ w \notin ended

(* The eventfd is reported as readable only when something is written. *)
Ready(w) ==
    {s \in edges[w] : s = "events" => counter[w] > 0}
        \cup {s \in {"listener"} : Waiting(w) # {}}

(* epoll_wait, in the loop of worker::job.  A backend's socket may be ready *)
(* as well, or a timer run out: what these do is told by Portal.           *)
Wait(w) ==
    /\ Works(w) /\ batch[w] = {} /\ working[w]
    /\ \E more \in {{}, IF Polled(w) = {} THEN {} ELSE {"backend"}} :
            /\ Ready(w) \cup more # {}
            /\ batch' = [batch EXCEPT ![w] = Ready(w) \cup more]
    /\ edges' = [edges EXCEPT ![w] = {}]
    /\ rdhup' = rdhup \cup (Ready(w) \cap gone)
    /\ UNCHANGED <<starting, threads, stage, home, gone, told, lost>>

Handling(w, s) == Works(w) /\ s \in batch[w]
Handled(w, s) == batch' = [batch EXCEPT ![w] = @ \ {s}]

(* Mutant: the listener is polled for edges, too. *)
ThrowEdges(w) ==
    /\ batch' = [batch EXCEPT ![w] = {}]
    /\ lost' = [lost EXCEPT ![w] = @ \cup (batch[w] \ edges[w])]

(* An exception ends the batch. *)
Throw(w) ==
    /\ batch' = [batch EXCEPT ![w] = {}]
    /\ lost' = [lost EXCEPT ![w] = @ \cup (batch[w] \ (edges[w] \cup {"listener"}))]

SetStage(c, to) == stage' = [stage EXCEPT ![c] = to]

(* worker::on_accept.  The new socket can be written to, and perhaps read. *)
Accept(w, c) ==
    /\ Handling(w, "listener") /\ c \in Waiting(w)
    /\ SetStage(c, "polled")
    /\ Handled(w, "listener")
    /\ Raise(w, c)
    /\ UNCHANGED <<starting, threads, home, gone, told, rdhup>>

(* accept fails, or, once the portal is in the list, one of the calls that *)
(* follow: remote_endpoint when the client has left, or poll.add.          *)
AcceptThrows(w, c) ==
    /\ Handling(w, "listener") /\ c \in Waiting(w)
    /\ \E to \in {"waiting", "erased", "orphan"} : SetStage(c, to)
    /\ Throw(w)
    /\ UNCHANGED <<starting, threads, home, gone, told, rdhup, edges>>

Keep == UNCHANGED <<stage, edges>>

(* Mutant: a portal leaves the list and its socket stays in the poll. *)
EraseFromList(w, c) == SetStage(c, "erased") /\ UNCHANGED edges

Erase(w, c) == SetStage(c, "erased") /\ edges' = [edges EXCEPT ![w] = @ \ {c}]

(* Mutant: rdhup is not looked at. *)
OnClientDeaf(w, c) ==
    /\ Handling(w, c)
    /\ \/ Erase(w, c) /\ Handled(w, c) /\ UNCHANGED lost
       \/ Keep /\ Handled(w, c) /\ UNCHANGED lost
       \/ c \in gone /\ Keep /\ Throw(w)
    /\ UNCHANGED <<starting, threads, home, gone, told, rdhup>>

(* The lambda of on_accept: on_from_event, and a portal that is then       *)
(* disconnected, as it is if the event says that the client has left, is   *)
(* erased; but before that, remote_endpoint may throw if it has.           *)
OnClient(w, c) ==
    /\ Handling(w, c)
    /\ \/ Erase(w, c) /\ Handled(w, c) /\ UNCHANGED lost
       \/ c \notin rdhup /\ Keep /\ Handled(w, c) /\ UNCHANGED lost
       \/ c \in gone /\ Keep /\ Throw(w)
    /\ UNCHANGED <<starting, threads, home, gone, told, rdhup>>

(* Portal's callbacks of the backend, which may let an exception out. *)
OnBackend(w) ==
    /\ Handling(w, "backend")
    /\ Throw(w) \/ (Handled(w, "backend") /\ UNCHANGED lost)
    /\ UNCHANGED <<starting, threads, clients, edges>>

(* Mutant: nobody is told. *)
TellNobody(w) == UNCHANGED told

Tell(w) == told' = told \cup List(w)

(* worker::on_event.  It reads the counter, and takes 1 for "stop". *)
OnEvent(w) ==
    /\ Handling(w, "events")
    /\ counter' = [counter EXCEPT ![w] = 0]
    /\ IF counter[w] = 1
       THEN /\ working' = [working EXCEPT ![w] = FALSE]
            /\ Tell(w)
            /\ Handled(w, "events") /\ UNCHANGED lost
       ELSE /\ UNCHANGED <<working, told>>
            /\ Throw(w)
    /\ UNCHANGED <<starting, notified, ended, stage, home, gone, rdhup, edges>>

(* Mutant: a worker stops when its last client has left. *)
StoppedAndEmpty(w) == ~working[w] /\ List(w) = {}

Stopped(w) == ~working[w]

(* The loop ends, and with it the thread. *)
EndLoop(w) ==
    /\ Works(w) /\ batch[w] = {} /\ Stopped(w)
    /\ ended' = ended \cup {w}
    /\ UNCHANGED <<starting, working, counter, notified, clients, events>>

-----------------------------------------------------------------------------
(* The clients *)

Connect(c) ==
    /\ main # "exited" /\ stage[c] = "new" /\ port[home[c]] # 0
    /\ SetStage(c, "waiting")
    /\ UNCHANGED <<starting, threads, home, gone, told, rdhup, events>>

(* What a client does is an edge on its socket, once that is polled. *)
Edge(c) == IF stage[c] = "polled" THEN Raise(home[c], c) ELSE UNCHANGED <<edges, lost>>

Speak(c) ==
    /\ stage[c] = "polled" /\ c \notin gone
    /\ Edge(c)
    /\ UNCHANGED <<starting, threads, stage, home, gone, told, rdhup, batch>>

Leave(c) ==
    /\ stage[c] \in {"waiting", "polled"} /\ c \notin gone
    /\ gone' = gone \cup {c}
    /\ Edge(c)
    /\ UNCHANGED <<starting, threads, stage, home, told, rdhup, batch>>

-----------------------------------------------------------------------------

MainStep == (\E w \in Worker : Start(w) \/ Stop(w)) \/ Exit

WorkerStep(w) ==
    \/ Wait(w) \/ OnEvent(w) \/ OnBackend(w) \/ EndLoop(w)
    \/ \E c \in Client : Accept(w, c) \/ AcceptThrows(w, c) \/ OnClient(w, c)

Environment == Sigterm \/ \E c \in Client : Connect(c) \/ Speak(c) \/ Leave(c)

Next == MainStep \/ (\E w \in Worker : WorkerStep(w)) \/ Environment

(* The threads run; nothing is assumed of the clients or of the signal. *)
Fairness == WF_vars(MainStep) /\ \A w \in Worker : WF_vars(WorkerStep(w))

Spec == Init /\ [][Next]_vars /\ Fairness

-----------------------------------------------------------------------------
(* Properties *)

(* All workers listen on one port, the configured one if there is one, also *)
(* when the first of them let the kernel pick it (thread_controller.cpp:13). *)
OnePort ==
    /\ \A v, w \in Worker : port[v] # 0 /\ port[w] # 0 => port[v] = port[w]
    /\ ConfPort # 0 => \A w \in Worker : port[w] \in {0, ConfPort}

(* No wake-up is lost but by an exception: a worker that is to stop and a  *)
(* portal whose client has left have an event on its way, or one in hand   *)
(* that says so (the edges of worker::worker and worker::on_accept).       *)
InHand(w) == {s \in batch[w] : s \in Client => s \in rdhup}
Awake(w, s) == s \in edges[w] \cup InHand(w) \cup lost[w]
NoWakeupIsLost ==
    \A w \in Worker :
        /\ w \in notified /\ working[w] => Awake(w, "events")
        /\ \A c \in Polled(w) \cap gone : Awake(w, c)

(* A portal's event is handled while the portal is there: no event of an   *)
(* erased portal is waiting anywhere (the lambda of on_accept keeps a      *)
(* reference to it).                                                       *)
NoStaleEvent == \A w \in Worker : (edges[w] \cup batch[w]) \cap Client \subseteq Polled(w)

(* A worker that stops sends a message to each of its clients, and accepts *)
(* no other, but for one whose connection was in the batch of the "stop":  *)
(* at most that one goes without a word (worker::on_event, worker::job).   *)
AtMostOneUntold == \A w \in Worker : ~working[w] => Cardinality(List(w) \ told) <= 1

(* SIGTERM ends the process: every worker stops, unless an exception has   *)
(* swallowed its stop (test/test_server.hpp:179-184 waits for the hub).    *)
Terminates ==
    main = "stopping" ~> main = "exited" \/ \E w \in Worker : "events" \in lost[w]

(* A portal whose client has left is erased, unless its worker stops or an *)
(* exception has swallowed the event (the lambda of worker::on_accept).    *)
GoneAreErased ==
    \A c \in Client :
        stage[c] = "polled" /\ c \in gone
            ~> stage[c] = "erased" \/ ~working[home[c]] \/ c \in lost[home[c]]

=============================================================================
