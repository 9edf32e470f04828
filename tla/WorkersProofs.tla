--------------------------- MODULE WorkersProofs ---------------------------
(***************************************************************************)
(* Proofs about Workers for every value of its constants: any number of    *)
(* workers and of clients, spread in any way.                              *)
(***************************************************************************)
EXTENDS Workers, FiniteSetTheorems, TLAPS

-----------------------------------------------------------------------------
(* Type correctness *)

(* Every step of the main thread keeps the types. *)
LEMMA MainTypes == ASSUME TypeOK, MainStep PROVE TypeOK'
<1> USE DEF TypeOK, starting, threads, clients, events
<1>1. ASSUME NEW w \in Worker, Start(w) PROVE TypeOK'
    <2>1. PICK p \in IF PortAsked = 0 THEN Ports ELSE {PortAsked} :
                port' = [port EXCEPT ![w] = p] /\ real_port' = p
        BY <1>1 DEF Start
    <2>2. p \in Ports \cup {0, ConfPort}
        BY <2>1 DEF PortAsked, Or
    <2>3. port' \in [Worker -> Ports \cup {0, ConfPort}]
        BY <2>1, <2>2
    <2>4. main' \in {"starting", "serving", "stopping", "exited"}
        BY <1>1 DEF Start
    <2> QED BY <1>1, <2>1, <2>2, <2>3, <2>4 DEF Start
<1>2. ASSUME NEW w \in Worker, Stop(w) PROVE TypeOK'
    <2>1. counter' \in [Worker -> Nat]
        BY <1>2 DEF Stop
    <2>2. edges' \in [Worker -> SUBSET Edges]
        BY <1>2 DEF Stop, Raise, Edges
    <2>3. lost' \in [Worker -> SUBSET (Sources \ {"listener"})]
        BY <1>2 DEF Stop, Raise
    <2> QED BY <1>2, <2>1, <2>2, <2>3 DEF Stop
<1>3. CASE Exit
    BY <1>3 DEF Exit
<1> QED BY <1>1, <1>2, <1>3 DEF MainStep

(* Every step of a worker keeps the types. *)
LEMMA WorkerTypes == ASSUME TypeOK, NEW w \in Worker, WorkerStep(w) PROVE TypeOK'
<1> USE DEF TypeOK, starting, threads, clients, events
<1>0. Edges \subseteq Sources /\ Client \subseteq Edges /\ "listener" \in Sources /\ "backend" \in Sources
    BY DEF Edges, Sources
<1>t. ASSUME Throw(w)
      PROVE  /\ batch' \in [Worker -> SUBSET Sources]
             /\ lost' \in [Worker -> SUBSET (Sources \ {"listener"})]
    <2>1. batch' \in [Worker -> SUBSET Sources]
        BY <1>t DEF Throw
    <2>2. lost[w] \cup (batch[w] \ (edges[w] \cup {"listener"})) \subseteq Sources \ {"listener"}
        OBVIOUS
    <2> QED BY <1>t, <2>1, <2>2 DEF Throw
<1>h. ASSUME NEW s, Handled(w, s) PROVE batch' \in [Worker -> SUBSET Sources]
    BY <1>h DEF Handled
<1>s. ASSUME NEW c \in Client, NEW to \in Stages, SetStage(c, to) PROVE stage' \in [Client -> Stages]
    BY <1>s DEF SetStage
<1>1. CASE Wait(w)
    <2>1. PICK more \in {{}, IF Polled(w) = {} THEN {} ELSE {"backend"}} :
                batch' = [batch EXCEPT ![w] = Ready(w) \cup more]
        BY <1>1 DEF Wait
    <2>2. Ready(w) \cup more \subseteq Sources
        BY <1>0 DEF Ready
    <2>3. batch' \in [Worker -> SUBSET Sources]
        BY <2>1, <2>2
    <2>4. edges' \in [Worker -> SUBSET Edges]
        BY <1>1 DEF Wait
    <2> QED BY <1>1, <2>3, <2>4 DEF Wait
<1>2. CASE OnEvent(w)
    <2>1. counter' \in [Worker -> Nat]
        BY <1>2 DEF OnEvent
    <2>2. CASE counter[w] = 1
        <3>1. working' \in [Worker -> BOOLEAN]
            BY <1>2, <2>2 DEF OnEvent
        <3>2. told' \subseteq Client
            BY <1>2, <2>2 DEF OnEvent, Tell, List
        <3>3. batch' \in [Worker -> SUBSET Sources] /\ lost' = lost
            BY <1>2, <2>2, <1>h DEF OnEvent
        <3> QED BY <1>2, <2>1, <3>1, <3>2, <3>3 DEF OnEvent
    <2>3. CASE counter[w] # 1
        <3>1. Throw(w) /\ UNCHANGED <<working, told>>
            BY <1>2, <2>3 DEF OnEvent
        <3> QED BY <1>2, <2>1, <3>1, <1>t DEF OnEvent
    <2> QED BY <2>2, <2>3
<1>3. CASE OnBackend(w)
    BY <1>3, <1>t, <1>h DEF OnBackend
<1>4. CASE EndLoop(w)
    BY <1>4 DEF EndLoop
<1>5. ASSUME NEW c \in Client, Accept(w, c) PROVE TypeOK'
    <2>1. stage' \in [Client -> Stages]
        BY <1>5, <1>s DEF Accept, Stages
    <2>2. batch' \in [Worker -> SUBSET Sources]
        BY <1>5, <1>h DEF Accept
    <2>3. edges' \in [Worker -> SUBSET Edges]
        BY <1>0, <1>5 DEF Accept, Raise
    <2>4. lost' \in [Worker -> SUBSET (Sources \ {"listener"})]
        BY <1>5 DEF Accept, Raise
    <2> QED BY <1>5, <2>1, <2>2, <2>3, <2>4 DEF Accept
<1>6. ASSUME NEW c \in Client, AcceptThrows(w, c) PROVE TypeOK'
    <2>1. stage' \in [Client -> Stages]
        BY <1>6, <1>s DEF AcceptThrows, Stages
    <2> QED BY <1>6, <2>1, <1>t DEF AcceptThrows
<1>7. ASSUME NEW c \in Client, OnClient(w, c) PROVE TypeOK'
    <2>1. stage' \in [Client -> Stages]
        BY <1>7, <1>s DEF OnClient, Erase, Keep, Stages
    <2>2. edges' \in [Worker -> SUBSET Edges]
        BY <1>7 DEF OnClient, Erase, Keep
    <2>3. /\ batch' \in [Worker -> SUBSET Sources]
          /\ lost' \in [Worker -> SUBSET (Sources \ {"listener"})]
        BY <1>7, <1>h, <1>t DEF OnClient
    <2> QED BY <1>7, <2>1, <2>2, <2>3 DEF OnClient
<1> QED BY <1>1, <1>2, <1>3, <1>4, <1>5, <1>6, <1>7 DEF WorkerStep

(* Whatever the clients do, the types stay. *)
LEMMA EnvironmentTypes == ASSUME TypeOK, Environment PROVE TypeOK'
<1> USE DEF TypeOK, starting, threads, clients, events
<1>1. CASE Sigterm
    BY <1>1 DEF Sigterm
<1>2. ASSUME NEW c \in Client, Connect(c) PROVE TypeOK'
    <2>1. stage' \in [Client -> Stages]
        BY <1>2 DEF Connect, SetStage, Stages
    <2> QED BY <1>2, <2>1 DEF Connect
<1>e. ASSUME NEW c \in Client, Edge(c)
      PROVE  /\ edges' \in [Worker -> SUBSET Edges]
             /\ lost' \in [Worker -> SUBSET (Sources \ {"listener"})]
    BY <1>e DEF Edge, Raise, Edges
<1>3. ASSUME NEW c \in Client, Speak(c) PROVE TypeOK'
    BY <1>3, <1>e DEF Speak
<1>4. ASSUME NEW c \in Client, Leave(c) PROVE TypeOK'
    BY <1>4, <1>e DEF Leave
<1> QED BY <1>1, <1>2, <1>3, <1>4 DEF Environment

(* The hub starts well typed. *)
LEMMA InitTypes == ASSUME Init PROVE TypeOK
BY WorkersAssumption DEF Init, TypeOK, Stages, Edges

(* Every step keeps the types. *)
LEMMA TypeStep == TypeOK /\ [Next]_vars => TypeOK'
<1> SUFFICES ASSUME TypeOK, [Next]_vars PROVE TypeOK'
    OBVIOUS
<1>1. CASE Next
    BY <1>1, MainTypes, WorkerTypes, EnvironmentTypes DEF Next
<1>2. CASE UNCHANGED vars
    BY <1>2 DEF vars, starting, threads, clients, events, TypeOK
<1> QED BY <1>1, <1>2

(* Threads, connections and events are of their types. *)
THEOREM TypeCorrect == Spec => []TypeOK
<1>1. Init => TypeOK
    BY InitTypes
<1> QED BY <1>1, TypeStep, PTL DEF Spec

-----------------------------------------------------------------------------
(* The port *)

(* Every worker that is started listens on real_port. *)
PortsAgree ==
    /\ \A w \in Worker : port[w] \in {0, real_port}
    /\ ConfPort # 0 => real_port \in {0, ConfPort}

(* All workers listen on one port, whoever picks it. *)
THEOREM OnePortHolds == Spec => []OnePort
<1>1. Init => PortsAgree
    BY DEF Init, PortsAgree
<1>2. TypeOK /\ PortsAgree /\ [Next]_vars => PortsAgree'
    <2> SUFFICES ASSUME TypeOK, PortsAgree, [Next]_vars PROVE PortsAgree'
        OBVIOUS
    <2>1. ASSUME NEW w \in Worker, Start(w) PROVE PortsAgree'
        <3>1. PICK p \in IF PortAsked = 0 THEN Ports ELSE {PortAsked} :
                    port' = [port EXCEPT ![w] = p] /\ real_port' = p
            BY <2>1 DEF Start
        <3>2. real_port # 0 => p = real_port
            BY <3>1 DEF PortAsked, Or, PortsAgree
        <3>3. ConfPort # 0 => p = ConfPort
            BY <3>1 DEF PortAsked, Or
        <3>4. \A v \in Worker : port'[v] \in {0, p}
            BY <3>1, <3>2 DEF PortsAgree, TypeOK
        <3> QED BY <3>1, <3>3, <3>4 DEF PortsAgree
    <2>2. CASE UNCHANGED <<real_port, port>>
        BY <2>2 DEF PortsAgree
    <2>3. (\E w \in Worker : Start(w)) \/ UNCHANGED <<real_port, port>>
        BY DEF Next, MainStep, WorkerStep, Environment, Stop, Exit, Wait, OnEvent, OnBackend,
               EndLoop, Accept, AcceptThrows, OnClient, Sigterm, Connect, Speak, Leave, vars, starting
    <2> QED BY <2>1, <2>2, <2>3
<1>3. PortsAgree => OnePort
    BY DEF PortsAgree, OnePort
<1>4. Init => TypeOK
    BY InitTypes
<1> QED BY <1>1, <1>2, <1>3, <1>4, TypeStep, PTL DEF Spec

-----------------------------------------------------------------------------
(* Stopping *)

(* Nothing is written to an eventfd before the stop, and the stop is 1. *)
OneStop == \A w \in Worker : counter[w] \in {0, 1} /\ (w \notin notified => counter[w] = 0)

(* A stop is there to be read, until it is. *)
StopOnItsWay ==
    \A w \in Worker :
        w \in notified /\ working[w] =>
            \/ "events" \in lost[w]
            \/ counter[w] = 1 /\ "events" \in edges[w] \cup batch[w]

(* A portal whose client has left has an event on its way. *)
LeaversAwake == \A w \in Worker, c \in Client : c \in Polled(w) \cap gone => Awake(w, c)

WakeInv == OneStop /\ StopOnItsWay /\ LeaversAwake

(* Stop raises the event that it writes. *)
LEMMA StopWakes == ASSUME TypeOK, WakeInv, NEW w \in Worker, Stop(w) PROVE WakeInv'
<1> USE DEF TypeOK, WakeInv
<1>0. counter[w] = 0 /\ counter' = [counter EXCEPT ![w] = @ + 1]
    BY DEF Stop, OneStop
<1>1. counter[w] = 0 /\ counter' = [counter EXCEPT ![w] = 1]
    BY <1>0
<1>2. OneStop'
    BY <1>1 DEF Stop, OneStop
<1>3. \A v \in Worker : /\ edges[v] \subseteq edges'[v] /\ batch'[v] = batch[v]
                        /\ lost[v] \ {"events"} \subseteq lost'[v]
    BY DEF Stop, Raise
<1>4. "events" \in edges'[w] /\ \A v \in Worker : v # w => lost'[v] = lost[v]
    BY DEF Stop, Raise
<1>5. StopOnItsWay'
    BY <1>1, <1>3, <1>4 DEF Stop, StopOnItsWay
<1>6. LeaversAwake'
    <2> SUFFICES ASSUME NEW v \in Worker, NEW c \in Client, (c \in Polled(v) \cap gone)'
                 PROVE  Awake(v, c)'
        BY DEF LeaversAwake
    <2>1. c \in Polled(v) \cap gone /\ c # "events" /\ rdhup' = rdhup
        BY WorkersAssumption DEF Stop, clients, Polled
    <2> QED BY <1>3, <2>1 DEF LeaversAwake, Awake, InHand
<1> QED BY <1>2, <1>5, <1>6

(* What keeps the events that matter in sight keeps the invariant. *)
LEMMA InSight ==
    ASSUME TypeOK, WakeInv,
           UNCHANGED <<counter, working, notified>>,
           \A v \in Worker : "events" \in lost[v] => "events" \in lost'[v],
           \A v \in Worker : counter[v] = 1 /\ "events" \in edges[v] \cup batch[v]
                                => "events" \in edges'[v] \cup batch'[v] \cup lost'[v],
           \A v \in Worker, c \in Client :
                (c \in Polled(v) \cap gone)' =>
                    Awake(v, c)' \/ (c \in Polled(v) \cap gone /\ ~Awake(v, c))
    PROVE  WakeInv'
<1>1. OneStop'
    BY DEF WakeInv, OneStop
<1>2. StopOnItsWay'
    BY DEF WakeInv, StopOnItsWay
<1>3. LeaversAwake'
    BY DEF WakeInv, LeaversAwake
<1> QED BY <1>1, <1>2, <1>3 DEF WakeInv

(* What a worker does with its events leaves nobody asleep. *)
LEMMA WorkerWakes == ASSUME TypeOK, WakeInv, NEW w \in Worker, WorkerStep(w) PROVE WakeInv'
<1> USE DEF TypeOK
<1>e. "events" \notin Client /\ "listener" \notin Client /\ "backend" \notin Client
    BY WorkersAssumption
<1>t. ASSUME Throw(w)
      PROVE  /\ \A v \in Worker : lost[v] \subseteq lost'[v]
             /\ \A v \in Worker : batch[v] \ {"listener"} \subseteq edges[v] \cup batch'[v] \cup lost'[v]
    BY <1>t DEF Throw
<1>h. ASSUME NEW s, Handled(w, s)
      PROVE  \A v \in Worker : batch[v] \ {s} \subseteq batch'[v] /\ (v # w => batch'[v] = batch[v])
    BY <1>h DEF Handled
<1>1. CASE Wait(w)
    <2>1. PICK more \in {{}, IF Polled(w) = {} THEN {} ELSE {"backend"}} :
                batch' = [batch EXCEPT ![w] = Ready(w) \cup more]
        BY <1>1 DEF Wait
    <2>2. batch[w] = {} /\ lost' = lost /\ UNCHANGED <<counter, working, notified, stage, home, gone>>
        BY <1>1 DEF Wait, threads
    <2>3. edges' = [edges EXCEPT ![w] = {}] /\ rdhup' = rdhup \cup (Ready(w) \cap gone)
        BY <1>1 DEF Wait
    <2>4. ASSUME NEW v \in Worker, counter[v] = 1, "events" \in edges[v] \cup batch[v]
          PROVE  "events" \in edges'[v] \cup batch'[v] \cup lost'[v]
        BY <2>1, <2>2, <2>3, <2>4 DEF Ready
    <2>5. ASSUME NEW v \in Worker, NEW c \in Client, c \in gone, Awake(v, c) PROVE Awake(v, c)'
        <3>1. CASE v = w /\ c \in edges[w]
            BY <2>1, <2>3, <2>5, <3>1, <1>e DEF Ready, Awake, InHand
        <3>2. CASE v # w \/ c \notin edges[w]
            BY <2>1, <2>2, <2>3, <2>5, <3>2 DEF Awake, InHand
        <3> QED BY <3>1, <3>2
    <2>6. \A v \in Worker : Polled(v)' = Polled(v)
        BY <2>2 DEF Polled
    <2> QED BY <2>2, <2>4, <2>5, <2>6, InSight
<1>2. CASE OnEvent(w)
    <2>1. UNCHANGED <<notified, stage, home, gone, rdhup, edges>> /\ counter' = [counter EXCEPT ![w] = 0]
        BY <1>2 DEF OnEvent
    <2>2. OneStop'
        BY <2>1 DEF WakeInv, OneStop
    <2>3. /\ \A v \in Worker : lost[v] \subseteq lost'[v]
          /\ \A v \in Worker : v # w => working'[v] = working[v] /\ batch'[v] = batch[v] /\ lost'[v] = lost[v]
          /\ \A c \in Client : c \in batch[w] => c \in edges[w] \cup batch'[w] \cup lost'[w]
          /\ batch'[w] \subseteq batch[w]
        BY <1>2, <1>e DEF OnEvent, Handling, Handled, Throw
    <2>4. ~working'[w] \/ (counter[w] # 1 /\ working' = working)
        BY <1>2 DEF OnEvent
    <2>5. StopOnItsWay'
        BY <2>1, <2>3, <2>4 DEF WakeInv, StopOnItsWay
    <2>6. ASSUME NEW v \in Worker, NEW c \in Client, Awake(v, c) PROVE Awake(v, c)'
        BY <2>1, <2>3, <2>6 DEF Awake, InHand
    <2>7. \A v \in Worker : Polled(v)' = Polled(v)
        BY <2>1 DEF Polled
    <2>8. LeaversAwake'
        BY <2>1, <2>6, <2>7 DEF WakeInv, LeaversAwake
    <2> QED BY <2>2, <2>5, <2>8 DEF WakeInv
<1>3. CASE OnBackend(w)
    <2>1. UNCHANGED <<counter, working, notified, stage, home, gone, rdhup, edges>>
        BY <1>3 DEF OnBackend, threads, clients
    <2>2. /\ \A v \in Worker : lost[v] \subseteq lost'[v]
          /\ \A v \in Worker : batch[v] \ {"listener", "backend"} \subseteq edges[v] \cup batch'[v] \cup lost'[v]
        BY <1>3, <1>t, <1>h DEF OnBackend
    <2>3. ASSUME NEW v \in Worker, NEW c \in Client, Awake(v, c) PROVE Awake(v, c)'
        BY <2>1, <2>2, <2>3, <1>e DEF Awake, InHand
    <2>4. \A v \in Worker : Polled(v)' = Polled(v)
        BY <2>1 DEF Polled
    <2> QED BY <2>1, <2>2, <2>3, <2>4, InSight
<1>4. CASE EndLoop(w)
    BY <1>4 DEF EndLoop, WakeInv, OneStop, StopOnItsWay, LeaversAwake, Awake, InHand, Polled, clients, events
<1>5. ASSUME NEW c \in Client, Accept(w, c) PROVE WakeInv'
    <2>1. /\ UNCHANGED <<counter, working, notified, home, gone, rdhup>>
          /\ stage' = [stage EXCEPT ![c] = "polled"]
          /\ home[c] = w
        BY <1>5 DEF Accept, SetStage, Waiting, threads
    <2>2. /\ \A v \in Worker : /\ edges[v] \subseteq edges'[v]
                               /\ lost[v] \ {c} \subseteq lost'[v]
                               /\ batch[v] \ {"listener"} \subseteq batch'[v]
                               /\ v # w => lost'[v] = lost[v]
          /\ c \in edges'[w]
        BY <1>5, <1>h DEF Accept, Raise
    <2>3. ASSUME NEW v \in Worker, NEW d \in Client, (d \in Polled(v) \cap gone)'
          PROVE  Awake(v, d)' \/ (d \in Polled(v) \cap gone /\ ~Awake(v, d))
        <3>1. CASE d = c
            BY <2>1, <2>2, <2>3, <3>1 DEF Polled, Awake, InHand
        <3>2. CASE d # c
            BY <2>1, <2>2, <2>3, <3>2, <1>e DEF Polled, Awake, InHand
        <3> QED BY <3>1, <3>2
    <2> QED BY <2>1, <2>2, <2>3, <1>e, InSight
<1>6. ASSUME NEW c \in Client, AcceptThrows(w, c) PROVE WakeInv'
    <2>1. /\ UNCHANGED <<counter, working, notified, home, gone, rdhup, edges>>
          /\ \A d \in Client : stage'[d] = "polled" => stage[d] = "polled"
        BY <1>6 DEF AcceptThrows, SetStage, threads
    <2>2. ASSUME NEW v \in Worker, NEW d \in Client, Awake(v, d) PROVE Awake(v, d)'
        BY <1>6, <1>t, <2>1, <2>2, <1>e DEF AcceptThrows, Awake, InHand
    <2>3. \A v \in Worker : Polled(v)' \subseteq Polled(v)
        BY <2>1 DEF Polled
    <2> QED BY <1>6, <1>t, <2>1, <2>2, <2>3, InSight DEF AcceptThrows
<1>7. ASSUME NEW c \in Client, OnClient(w, c) PROVE WakeInv'
    <2>1. UNCHANGED <<counter, working, notified, home, gone, rdhup>>
        BY <1>7 DEF OnClient, threads
    <2>2. CASE Throw(w) /\ Keep
        <3>1. ASSUME NEW v \in Worker, NEW d \in Client, Awake(v, d) PROVE Awake(v, d)'
            BY <2>1, <2>2, <1>t, <3>1, <1>e DEF Keep, Awake, InHand
        <3>2. \A v \in Worker : Polled(v)' = Polled(v)
            BY <2>1, <2>2 DEF Polled, Keep
        <3> QED BY <1>t, <2>1, <2>2, <3>1, <3>2, InSight DEF Keep
    <2>3. CASE Handled(w, c) /\ UNCHANGED lost /\ (Erase(w, c) \/ (c \notin rdhup /\ Keep))
        <3>1. \A v \in Worker : edges[v] \ {c} \subseteq edges'[v] /\ batch[v] \ {c} \subseteq batch'[v]
            BY <1>h, <2>3 DEF Erase, Keep
        <3>2. \A d \in Client : stage'[d] = "polled" => stage[d] = "polled"
            BY <2>3 DEF Erase, Keep, SetStage, Stages
        <3>3. stage'[c] = "polled" => c \notin rdhup /\ edges' = edges
            BY <2>3 DEF Erase, Keep, SetStage, Stages
        <3>4. c # "events" /\ lost' = lost
            BY <1>e, <2>3
        <3>5. OneStop'
            BY <2>1 DEF WakeInv, OneStop
        <3>6. StopOnItsWay'
            BY <2>1, <3>1, <3>4 DEF WakeInv, StopOnItsWay
        <3>7. ASSUME NEW v \in Worker, NEW d \in Client, (d \in Polled(v) \cap gone)' PROVE Awake(v, d)'
            <4>1. d \in Polled(v) \cap gone /\ stage'[d] = "polled"
                BY <2>1, <3>2, <3>7 DEF Polled
            <4>2. Awake(v, d)
                BY <4>1 DEF WakeInv, LeaversAwake
            <4>3. CASE d = c
                BY <2>1, <3>3, <3>4, <4>1, <4>2, <4>3 DEF Awake, InHand
            <4>4. CASE d # c
                BY <2>1, <3>1, <3>4, <4>2, <4>4 DEF Awake, InHand
            <4> QED BY <4>3, <4>4
        <3>8. LeaversAwake'
            BY <3>7 DEF LeaversAwake
        <3> QED BY <3>5, <3>6, <3>8 DEF WakeInv
    <2>4. \/ Throw(w) /\ Keep
          \/ Handled(w, c) /\ UNCHANGED lost /\ (Erase(w, c) \/ (c \notin rdhup /\ Keep))
        BY <1>7 DEF OnClient
    <2> QED BY <2>2, <2>3, <2>4
<1> QED BY <1>1, <1>2, <1>3, <1>4, <1>5, <1>6, <1>7 DEF WorkerStep

(* A client that leaves, or that sends something, raises an event. *)
LEMMA EnvironmentWakes == ASSUME TypeOK, WakeInv, Environment PROVE WakeInv'
<1> USE DEF TypeOK
<1>1. CASE Sigterm
    BY <1>1 DEF Sigterm, WakeInv, OneStop, StopOnItsWay, LeaversAwake, Awake, InHand, Polled, threads, clients, events
<1>2. ASSUME NEW c \in Client, Connect(c) PROVE WakeInv'
    <2>1. /\ UNCHANGED <<counter, working, notified, home, gone, rdhup, edges, batch, lost>>
          /\ \A d \in Client : stage'[d] = "polled" => stage[d] = "polled"
        BY <1>2 DEF Connect, SetStage, threads, events
    <2>2. \A v \in Worker : Polled(v)' \subseteq Polled(v)
        BY <2>1 DEF Polled
    <2> QED BY <2>1, <2>2, InSight DEF Awake, InHand
<1>3. ASSUME NEW c \in Client, Speak(c) \/ Leave(c) PROVE WakeInv'
    <2>1. /\ UNCHANGED <<counter, working, notified, home, stage, rdhup, batch>> /\ Edge(c)
          /\ gone' \subseteq gone \cup {c}
        BY <1>3 DEF Speak, Leave, threads
    <2>2. "events" # c
        BY WorkersAssumption
    <2>3. /\ \A v \in Worker : edges[v] \subseteq edges'[v] /\ lost[v] \ {c} \subseteq lost'[v]
          /\ stage[c] # "polled" => lost' = lost
          /\ stage[c] = "polled" => c \in edges'[home[c]]
          /\ \A v \in Worker : v # home[c] => lost'[v] = lost[v]
        BY <2>1 DEF Edge, Raise
    <2>4. ASSUME NEW v \in Worker, NEW d \in Client, (d \in Polled(v) \cap gone)'
          PROVE  Awake(v, d)' \/ (d \in Polled(v) \cap gone /\ ~Awake(v, d))
        <3>1. CASE d = c
            BY <2>1, <2>3, <2>4, <3>1 DEF Polled, Awake, InHand
        <3>2. CASE d # c
            BY <2>1, <2>3, <2>4, <3>2 DEF Polled, Awake, InHand
        <3> QED BY <3>1, <3>2
    <2>5. \A v \in Worker : "events" \in lost[v] => "events" \in lost'[v]
        BY <2>2, <2>3
    <2>6. \A v \in Worker : "events" \in edges[v] \cup batch[v]
                                => "events" \in edges'[v] \cup batch'[v] \cup lost'[v]
        BY <2>1, <2>3
    <2> QED BY <2>1, <2>4, <2>5, <2>6, InSight
<1> QED BY <1>1, <1>2, <1>3 DEF Environment

(* Every step leaves nobody asleep. *)
LEMMA WakeStep == TypeOK /\ WakeInv /\ [Next]_vars => WakeInv'
<1> SUFFICES ASSUME TypeOK, WakeInv, [Next]_vars PROVE WakeInv'
    OBVIOUS
<1>1. ASSUME NEW w \in Worker, Start(w) PROVE WakeInv'
    BY <1>1 DEF Start, WakeInv, OneStop, StopOnItsWay, LeaversAwake, Awake, InHand, Polled, threads, clients, events
<1>2. CASE Exit
    BY <1>2 DEF Exit, WakeInv, OneStop, StopOnItsWay, LeaversAwake, Awake, InHand, Polled, threads, clients, events
<1>3. CASE UNCHANGED vars
    BY <1>3 DEF vars, WakeInv, OneStop, StopOnItsWay, LeaversAwake, Awake, InHand, Polled, threads, clients, events
<1> QED BY <1>1, <1>2, <1>3, StopWakes, WorkerWakes, EnvironmentWakes DEF Next, MainStep

(* The hub starts with nothing to wake for. *)
LEMMA InitWakes == ASSUME Init PROVE WakeInv
BY DEF Init, WakeInv, OneStop, StopOnItsWay, LeaversAwake, Polled

(* No wake-up is lost but by an exception. *)
THEOREM NobodySleeps == Spec => []NoWakeupIsLost
<1>1. Init => TypeOK /\ WakeInv
    BY InitTypes, InitWakes
<1>2. WakeInv => NoWakeupIsLost
    BY WorkersAssumption DEF WakeInv, StopOnItsWay, LeaversAwake, NoWakeupIsLost, Awake, InHand, Polled
<1> QED BY <1>1, <1>2, TypeStep, WakeStep, PTL DEF Spec

-----------------------------------------------------------------------------
(* Erased portals *)

(* Where an event may come from, and which portals may leave the poll. *)
NoNewStale(c) ==
    /\ \A v \in Worker : (edges'[v] \cup batch'[v]) \ {c} \subseteq edges[v] \cup batch[v] \cup {"listener", "events", "backend"}
    /\ \A v \in Worker, d \in Client \ {c} : d \in Polled(v) => d \in Polled(v)'
    /\ \A v \in Worker : c \in edges'[v] \cup batch'[v] => c \in Polled(v)'

(* One step touches the events of one connection, c, and of no other. *)
LEMMA OneAtATime ==
    ASSUME TypeOK, NoStaleEvent, NEW c, NoNewStale(c)
    PROVE  NoStaleEvent'
<1> SUFFICES ASSUME NEW v \in Worker, NEW d \in Client, d \in edges'[v] \cup batch'[v]
             PROVE  d \in Polled(v)'
    BY DEF NoStaleEvent
<1>1. CASE d = c
    BY <1>1 DEF NoNewStale
<1>2. CASE d # c
    <2>1. d \in edges[v] \cup batch[v]
        BY <1>2, WorkersAssumption DEF NoNewStale
    <2>2. d \in Polled(v)
        BY <2>1 DEF NoStaleEvent
    <2> QED BY <1>2, <2>2 DEF NoNewStale
<1> QED BY <1>1, <1>2

(* Steps that erase nobody and raise nothing of a client. *)
LEMMA NothingStale ==
    ASSUME NoStaleEvent, UNCHANGED <<stage, home>>,
           \A v \in Worker : edges'[v] \cup batch'[v] \subseteq edges[v] \cup batch[v] \cup {"listener", "events", "backend"}
    PROVE  NoStaleEvent'
BY WorkersAssumption DEF NoStaleEvent, Polled

(* The event of a portal is handled while the portal is there. *)
LEMMA StaleStep == TypeOK /\ NoStaleEvent /\ [Next]_vars => NoStaleEvent'
<1> SUFFICES ASSUME TypeOK, NoStaleEvent, [Next]_vars PROVE NoStaleEvent'
    OBVIOUS
<1> USE DEF TypeOK
<1>t. ASSUME NEW w \in Worker, Throw(w) PROVE \A v \in Worker : batch'[v] \subseteq batch[v]
    BY <1>t DEF Throw
<1>h. ASSUME NEW w \in Worker, NEW s, Handled(w, s)
      PROVE  /\ \A v \in Worker : batch'[v] \subseteq batch[v]
             /\ batch'[w] = batch[w] \ {s}
    BY <1>h DEF Handled
<1>1. ASSUME UNCHANGED <<stage, home, edges, batch>> PROVE NoStaleEvent'
    BY <1>1 DEF NoStaleEvent, Polled
<1>2. ASSUME NEW w \in Worker, Stop(w) PROVE NoStaleEvent'
    <2>1. UNCHANGED <<stage, home, batch>> /\ edges' = [edges EXCEPT ![w] = @ \cup {"events"}]
        BY <1>2 DEF Stop, Raise, clients
    <2> QED BY <2>1, NothingStale
<1>3. ASSUME NEW w \in Worker, Wait(w) PROVE NoStaleEvent'
    <2>1. PICK more \in {{}, IF Polled(w) = {} THEN {} ELSE {"backend"}} :
                batch' = [batch EXCEPT ![w] = Ready(w) \cup more]
        BY <1>3 DEF Wait
    <2>2. UNCHANGED <<stage, home>> /\ edges' = [edges EXCEPT ![w] = {}]
        BY <1>3 DEF Wait
    <2> QED BY <2>1, <2>2, NothingStale DEF Ready
<1>4. ASSUME NEW w \in Worker, OnEvent(w) PROVE NoStaleEvent'
    <2>1. UNCHANGED <<stage, home, edges>> /\ \A v \in Worker : batch'[v] \subseteq batch[v]
        BY <1>4, <1>t, <1>h DEF OnEvent
    <2> QED BY <2>1, NothingStale
<1>5. ASSUME NEW w \in Worker, OnBackend(w) PROVE NoStaleEvent'
    <2>1. UNCHANGED <<stage, home, edges>> /\ \A v \in Worker : batch'[v] \subseteq batch[v]
        BY <1>5, <1>t, <1>h DEF OnBackend, clients
    <2> QED BY <2>1, NothingStale
<1>6. ASSUME NEW w \in Worker, NEW c \in Client, Accept(w, c) PROVE NoStaleEvent'
    <2>1. /\ UNCHANGED home /\ stage' = [stage EXCEPT ![c] = "polled"]
          /\ edges' = [edges EXCEPT ![w] = @ \cup {c}]
          /\ \A v \in Worker : batch'[v] \subseteq batch[v]
          /\ home[c] = w /\ stage[c] = "waiting"
        BY <1>6, <1>h DEF Accept, SetStage, Raise, Waiting
    <2>2. \A v \in Worker : c \notin edges[v] \cup batch[v]
        BY <2>1 DEF NoStaleEvent, Polled
    <2>3. NoNewStale(c)
        BY <2>1, <2>2 DEF NoNewStale, Polled
    <2> QED BY <2>3, OneAtATime
<1>7. ASSUME NEW w \in Worker, NEW c \in Client, AcceptThrows(w, c) PROVE NoStaleEvent'
    <2>1. /\ UNCHANGED <<home, edges>> /\ stage[c] = "waiting"
          /\ \A v \in Worker : batch'[v] \subseteq batch[v]
          /\ \A d \in Client \ {c} : stage'[d] = stage[d]
        BY <1>7, <1>t DEF AcceptThrows, SetStage, Waiting
    <2>2. \A v \in Worker : c \notin edges'[v] \cup batch'[v]
        BY <2>1 DEF NoStaleEvent, Polled
    <2>3. NoNewStale(c)
        BY <2>1, <2>2 DEF NoNewStale, Polled
    <2> QED BY <2>3, OneAtATime
<1>8. ASSUME NEW w \in Worker, NEW c \in Client, OnClient(w, c) PROVE NoStaleEvent'
    <2>1. UNCHANGED home /\ \A v \in Worker : batch'[v] \subseteq batch[v]
        BY <1>8, <1>t, <1>h DEF OnClient
    <2>2. CASE Keep
        BY <2>1, <2>2, NothingStale DEF Keep
    <2>3. CASE Erase(w, c) /\ Handled(w, c)
        <3>1. /\ edges' = [edges EXCEPT ![w] = @ \ {c}]
              /\ \A d \in Client \ {c} : stage'[d] = stage[d]
            BY <2>3 DEF Erase, SetStage
        <3>2. home[c] = w
            BY <1>8 DEF OnClient, Handling, NoStaleEvent, Polled
        <3>3. \A v \in Worker : c \notin edges'[v] \cup batch'[v]
            BY <1>h, <2>1, <2>3, <3>1, <3>2 DEF NoStaleEvent, Polled
        <3>4. NoNewStale(c)
            BY <2>1, <3>1, <3>3 DEF NoNewStale, Polled
        <3> QED BY <3>4, OneAtATime
    <2>4. Keep \/ (Erase(w, c) /\ Handled(w, c))
        BY <1>8 DEF OnClient
    <2> QED BY <2>2, <2>3, <2>4
<1>9. ASSUME NEW c \in Client, Connect(c) PROVE NoStaleEvent'
    <2>1. /\ UNCHANGED <<home, edges, batch>> /\ stage[c] = "new"
          /\ \A d \in Client \ {c} : stage'[d] = stage[d]
        BY <1>9 DEF Connect, SetStage, events
    <2> QED BY <2>1 DEF NoStaleEvent, Polled
<1>10. ASSUME NEW c \in Client, Speak(c) \/ Leave(c) PROVE NoStaleEvent'
    <2>1. UNCHANGED <<stage, home, batch>> /\ Edge(c)
        BY <1>10 DEF Speak, Leave
    <2>2. CASE stage[c] = "polled"
        <3>1. edges' = [edges EXCEPT ![home[c]] = @ \cup {c}]
            BY <2>1, <2>2 DEF Edge, Raise
        <3> QED BY <2>1, <2>2, <3>1 DEF NoStaleEvent, Polled
    <2>3. CASE stage[c] # "polled"
        BY <1>1, <2>1, <2>3 DEF Edge
    <2> QED BY <2>2, <2>3
<1>11. ASSUME NEW w \in Worker, Start(w) \/ EndLoop(w) PROVE NoStaleEvent'
    BY <1>1, <1>11 DEF Start, EndLoop, clients, events
<1>12. CASE Exit \/ Sigterm \/ UNCHANGED vars
    BY <1>1, <1>12 DEF Exit, Sigterm, vars, clients, events
<1> QED BY <1>2, <1>3, <1>4, <1>5, <1>6, <1>7, <1>8, <1>9, <1>10, <1>11, <1>12
        DEF Next, MainStep, WorkerStep, Environment

(* No event of an erased portal is ever handled. *)
THEOREM NothingIsStale == Spec => []NoStaleEvent
<1>1. Init => TypeOK /\ NoStaleEvent
    BY InitTypes, WorkersAssumption DEF Init, NoStaleEvent
<1> QED BY <1>1, TypeStep, StaleStep, PTL DEF Spec

-----------------------------------------------------------------------------
(* The last words *)

(* Once a worker is to stop, a client that it has told nothing is one that *)
(* it accepted since, and then its listener is not in the batch any more.  *)
Told(w) == List(w) \subseteq told
OneIsNot(w) == "listener" \notin batch[w] /\ \E c \in Client : List(w) \subseteq told \cup {c}
LastWords == \A w \in Worker : working[w] \/ Told(w) \/ OneIsNot(w)

(* A step that adds nobody to a list adds nobody who is not told. *)
LEMMA NobodyNew ==
    ASSUME LastWords, \A v \in Worker : List(v)' \subseteq List(v), told \subseteq told',
           \A v \in Worker : (working[v] => working'[v]) /\ ("listener" \in batch'[v] => "listener" \in batch[v] \/ working[v])
    PROVE  LastWords'
BY DEF LastWords, Told, OneIsNot

(* A connection that a worker accepts is the last one of its batch. *)
LEMMA OneNew ==
    ASSUME TypeOK, LastWords, NEW w \in Worker, NEW c \in Client,
           UNCHANGED <<working, told>>, "listener" \in batch[w], "listener" \notin batch'[w],
           \A v \in Worker : v # w => batch'[v] = batch[v],
           List(w)' \subseteq List(w) \cup {c}, \A v \in Worker : v # w => List(v)' = List(v)
    PROVE  LastWords'
<1>1. working[w] \/ List(w) \subseteq told
    BY DEF LastWords, Told, OneIsNot
<1>2. working'[w] \/ OneIsNot(w)'
    BY <1>1 DEF OneIsNot
<1> QED BY <1>2 DEF LastWords, Told, OneIsNot

(* Every step leaves at most one client without a word. *)
LEMMA WordsStep == TypeOK /\ LastWords /\ [Next]_vars => LastWords'
<1> SUFFICES ASSUME TypeOK, LastWords, [Next]_vars PROVE LastWords'
    OBVIOUS
<1> USE DEF TypeOK
<1>t. ASSUME NEW w \in Worker, Throw(w)
      PROVE  batch'[w] = {} /\ \A v \in Worker : v # w => batch'[v] = batch[v]
    BY <1>t DEF Throw
<1>h. ASSUME NEW w \in Worker, NEW s, Handled(w, s)
      PROVE  batch'[w] = batch[w] \ {s} /\ \A v \in Worker : v # w => batch'[v] = batch[v]
    BY <1>h DEF Handled
<1>1. ASSUME UNCHANGED <<stage, home, told, working, batch>> PROVE LastWords'
    BY <1>1 DEF LastWords, Told, OneIsNot, List
<1>2. ASSUME NEW w \in Worker, Wait(w) PROVE LastWords'
    <2>1. UNCHANGED <<stage, home, told, working>> /\ working[w]
        BY <1>2 DEF Wait, threads
    <2>2. \A v \in Worker : v # w => batch'[v] = batch[v]
        BY <1>2 DEF Wait
    <2>3. \A v \in Worker : List(v)' = List(v)
        BY <2>1 DEF List
    <2> QED BY <2>1, <2>2, <2>3, NobodyNew
<1>3. ASSUME NEW w \in Worker, OnEvent(w) PROVE LastWords'
    <2>1. UNCHANGED <<stage, home>>
        BY <1>3 DEF OnEvent
    <2>2. \A v \in Worker : List(v)' = List(v)
        BY <2>1 DEF List
    <2>3. CASE counter[w] = 1
        <3>1. told' = told \cup List(w) /\ Handled(w, "events") /\ working' = [working EXCEPT ![w] = FALSE]
            BY <1>3, <2>3 DEF OnEvent, Tell
        <3>2. Told(w)'
            BY <2>2, <3>1 DEF Told
        <3> QED BY <1>h, <2>2, <3>1, <3>2 DEF LastWords, Told, OneIsNot
    <2>4. CASE counter[w] # 1
        <3>1. UNCHANGED <<working, told>> /\ Throw(w)
            BY <1>3, <2>4 DEF OnEvent
        <3> QED BY <1>t, <2>2, <3>1, NobodyNew
    <2> QED BY <2>3, <2>4
<1>4. ASSUME NEW w \in Worker, OnBackend(w) PROVE LastWords'
    <2>1. UNCHANGED <<stage, home, told, working>> /\ (Throw(w) \/ Handled(w, "backend"))
        BY <1>4 DEF OnBackend, clients, threads
    <2>2. \A v \in Worker : List(v)' = List(v)
        BY <2>1 DEF List
    <2> QED BY <1>t, <1>h, <2>1, <2>2, NobodyNew
<1>5. ASSUME NEW w \in Worker, NEW c \in Client, Accept(w, c) \/ AcceptThrows(w, c) PROVE LastWords'
    <2>1. /\ UNCHANGED <<home, told, working>> /\ "listener" \in batch[w] /\ home[c] = w
          /\ \A d \in Client \ {c} : stage'[d] = stage[d]
          /\ Throw(w) \/ Handled(w, "listener")
        BY <1>5 DEF Accept, AcceptThrows, SetStage, Handling, Waiting, threads
    <2>2. "listener" \notin batch'[w] /\ \A v \in Worker : v # w => batch'[v] = batch[v]
        BY <1>t, <1>h, <2>1
    <2>3. List(w)' \subseteq List(w) \cup {c} /\ \A v \in Worker : v # w => List(v)' = List(v)
        BY <2>1 DEF List
    <2> QED BY <2>1, <2>2, <2>3, OneNew
<1>6. ASSUME NEW w \in Worker, NEW c \in Client, OnClient(w, c) PROVE LastWords'
    <2>1. /\ UNCHANGED <<home, told, working>> /\ (Throw(w) \/ Handled(w, c))
          /\ \A d \in Client : stage'[d] = stage[d] \/ stage'[d] = "erased"
        BY <1>6 DEF OnClient, Keep, Erase, SetStage, threads
    <2>2. \A v \in Worker : List(v)' \subseteq List(v)
        BY <2>1 DEF List
    <2> QED BY <1>t, <1>h, <2>1, <2>2, NobodyNew
<1>7. ASSUME NEW c \in Client, Connect(c) PROVE LastWords'
    <2>1. /\ UNCHANGED <<home, told, working, batch>>
          /\ \A d \in Client : stage'[d] = stage[d] \/ stage'[d] = "waiting"
        BY <1>7 DEF Connect, SetStage, threads, events
    <2>2. \A v \in Worker : List(v)' \subseteq List(v)
        BY <2>1 DEF List
    <2> QED BY <2>1, <2>2, NobodyNew
<1>8. ASSUME NEW c \in Client, Speak(c) \/ Leave(c) PROVE LastWords'
    BY <1>1, <1>8 DEF Speak, Leave, threads
<1>9. ASSUME NEW w \in Worker, Start(w) \/ Stop(w) \/ EndLoop(w) PROVE LastWords'
    BY <1>1, <1>9 DEF Start, Stop, EndLoop, clients, events, threads
<1>10. CASE Exit \/ Sigterm \/ UNCHANGED vars
    BY <1>1, <1>10 DEF Exit, Sigterm, vars, clients, events, threads
<1> QED BY <1>2, <1>3, <1>4, <1>5, <1>6, <1>7, <1>8, <1>9, <1>10
        DEF Next, MainStep, WorkerStep, Environment

(* A worker that stops leaves at most one of its clients without a word. *)
THEOREM LastWordsAreSaid == Spec => []AtMostOneUntold
<1>1. Init => TypeOK /\ LastWords
    BY InitTypes DEF Init, LastWords
<1>2. LastWords => AtMostOneUntold
    <2> SUFFICES ASSUME LastWords, NEW w \in Worker, ~working[w]
                 PROVE  Cardinality(List(w) \ told) <= 1
        BY DEF AtMostOneUntold
    <2>1. CASE Told(w)
        <3>1. List(w) \ told = {}
            BY <2>1 DEF Told
        <3> QED BY <3>1, FS_EmptySet
    <2>2. CASE OneIsNot(w)
        <3>1. PICK c \in Client : List(w) \ told \subseteq {c}
            BY <2>2 DEF OneIsNot
        <3>2. IsFiniteSet({c}) /\ Cardinality({c}) = 1
            BY FS_Singleton
        <3> QED BY <3>1, <3>2, FS_Subset
    <2> QED BY <2>1, <2>2 DEF LastWords
<1> QED BY <1>1, <1>2, TypeStep, WordsStep, PTL DEF Spec

=============================================================================
