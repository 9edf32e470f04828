------------------------ MODULE PortalSessionProofs ------------------------
(***************************************************************************)
(* Portal implements ClientSession, for backends that only answer: the     *)
(* client hears the backend or the hub and never both.                     *)
(***************************************************************************)
EXTENDS PortalProofs

(* Nobody has spoken to a client that has just been accepted. *)
LEMMA QuietInit == Init => Quiet
BY DEF Init, Quiet, FakeStates

(* The client's callback preserves Quiet. *)
LEMMA QuietFrom == TypeOK /\ Phases /\ Quiet /\ FromCallback => Quiet'
<1> SUFFICES ASSUME TypeOK, Phases, Quiet, FromCallback PROVE Quiet'
    OBVIOUS
<1>1. /\ toOut \in Seq(Units) /\ Received \in Seq(Units) /\ answers \in Seq(Answers)
    BY DEF TypeOK, DataOK, Received
<1>2. /\ alive
      /\ said' = said /\ relayed' = relayed /\ toIn' = toIn /\ toWire' = toWire
    BY DEF FromCallback, FromConnect, FromLocal, FromReject, FromRequest, FromReset, FromEvent,
           outVars, backendVars
<1>3. CASE FromConnect
    BY <1>2, <1>3 DEF FromConnect, Quiet, Phases, FakeStates
<1>4. CASE FromLocal
    <2>1. PICK r : /\ r = IF IntentOK THEN ProcessFrom(FakeState, Tail(Received))
                                      ELSE Throw("handshake", Tail(Received))
                   /\ Apply(r)
        BY <1>4 DEF FromLocal
    <2>2. /\ to_s' = to_s /\ from_s = "handshake" /\ to_s = "none"
          /\ Tail(Received) \in Seq(Units)
        BY <1>1, <1>2, <1>4 DEF FromLocal, Phases
    <2>3. CASE IntentOK
        <3>1. from_s' \in FakeStates /\ toOut' = toOut \o <<>>
            BY <2>1, <2>2, <2>3, FakeBegins DEF Apply
        <3> QED BY <1>1, <1>2, <2>2, <3>1 DEF Quiet
    <2>4. CASE ~IntentOK
        <3>1. from_s' = "handshake" /\ toOut' = toOut \o <<>> /\ answers' = answers \o <<>>
            BY <2>1, <2>4 DEF Throw, Outcome, Apply
        <3> QED BY <1>1, <1>2, <2>2, <3>1 DEF Quiet, FakeStates
    <2> QED BY <2>3, <2>4
<1>5. CASE FromReject
    BY <1>2, <1>5 DEF FromReject, Quiet
<1>6. CASE FromRequest
    <2>1. PICK r : r = ProcessFrom(from_s, Received) /\ Apply(r)
        BY <1>6 DEF FromRequest
    <2>2. to_s' = to_s
        BY <1>6 DEF FromRequest
    <2>3. CASE from_s \in FakeStates
        <3>1. from_s' = from_s /\ toOut' = toOut \o <<>>
            BY <2>1, <2>3, FakeStays DEF Apply
        <3> QED BY <1>1, <1>2, <2>2, <2>3, <3>1 DEF Quiet
    <2>4. CASE from_s \in {"handshake", "wait"}
        <3>1. from_s' = from_s /\ toOut' = toOut \o <<>> /\ answers' = answers \o <<>>
            BY <2>1, <2>4 DEF ProcessFrom, Return, Outcome, Apply
        <3> QED BY <1>1, <1>2, <2>2, <3>1 DEF Quiet
    <2>5. CASE from_s \in {"login", "proxy", "proxy_stable"}
        <3>1. /\ from_s' \in {"login", "proxy", "proxy_stable"}
              /\ answers' = answers \o <<>>
            BY <1>1, <2>1, <2>5, ProcessFromConserves DEF Apply
        <3>2. to_s \notin {"none", "connect"}
            BY <1>2, <2>5 DEF Phases, FakeStates
        <3> QED BY <1>1, <1>2, <2>2, <2>5, <3>1, <3>2 DEF Quiet, FakeStates
    <2> QED BY <2>3, <2>4, <2>5 DEF TypeOK, ControlOK, FromStates
<1>7. CASE FromReset
    BY <1>2, <1>7 DEF FromReset, Quiet, outVars
<1> QED BY <1>3, <1>4, <1>5, <1>6, <1>7 DEF FromCallback

(* The backend's callback preserves Quiet. *)
LEMMA QuietTo == TypeOK /\ Phases /\ Quiet /\ ToCallback => Quiet'
<1> SUFFICES ASSUME TypeOK, Phases, Quiet, ToCallback PROVE Quiet'
    OBVIOUS
<1> USE DEF ToEvent, backendVars, outVars
<1>1. /\ toOut \in Seq(Units) /\ fromIn \in Seq(Units) /\ Kostil(fromIn) \in Seq(Units)
      /\ answers \in Seq(Answers)
      /\ toIn \in Nat /\ toWire \in Nat /\ relayed \in Nat /\ said \in Nat
    BY KostilType DEF TypeOK, DataOK
<1>2. from_s \notin FakeStates /\ answers = <<>>
    BY DEF Phases, Quiet, ToCallback, ToHup, ToErrFallback, ToErrDisconnect,
           ToOutFailed, ToEscape, ToEstablished, ToAssertFails, ToReady
<1>3. CASE ToHup
    BY <1>3, FakeStateType DEF ToHup, Quiet
<1>4. CASE ToErrFallback
    <2>1. from_s' \in FakeStates /\ toOut' = toOut \o <<>>
        BY <1>4, FallbackStep
    <2>2. to_s' = to_s /\ to_s \in {"connect", "proxy"}
        BY <1>4 DEF ToErrFallback, FallbackStates
    <2> QED BY <1>1, <1>4, <2>1, <2>2 DEF ToErrFallback, Quiet
<1>5. CASE ToErrDisconnect
    BY <1>5 DEF ToErrDisconnect, Quiet
<1>6. CASE ToOutFailed
    <2>1. to_s = "connect" /\ toWire = 0
        BY <1>1, <1>6 DEF ToOutFailed, ConnectDone, Quiet
    <2> QED BY <1>1, <1>6, <2>1, FakeStateType DEF ToOutFailed, Quiet
<1>7. CASE ToEscape
    <2>1. CASE to_s = "connect"
        <3>1. toWire = 0
            BY <1>1, <2>1 DEF Quiet
        <3> QED BY <1>1, <1>7, <2>1, <3>1 DEF ToEscape, Quiet
    <2>2. CASE to_s # "connect"
        BY <1>1, <1>7, <2>2 DEF ToEscape, ConnectDone, FallbackStates, Quiet
    <2> QED BY <2>1, <2>2
<1>8. CASE ToEstablished
    <2>1. PICK r : r = FirstRequest /\ from_s' = r.state /\ answers' = answers \o r.ans
        BY <1>8 DEF ToEstablished
    <2>2. StateAfterHandshake \in {"login", "proxy", "proxy_stable"}
        BY DEF StateAfterHandshake
    <2>3. from_s' \in {"login", "proxy", "proxy_stable"} /\ answers' = answers \o <<>>
        BY <1>1, <2>1, <2>2, ProcessFromConserves DEF FirstRequest
    <2>4. to_s = "connect" /\ to_s' = "proxy"
        BY <1>8 DEF ToEstablished, ConnectDone
    <2>5. said = 0 /\ toWire = 0 /\ toIn = 0 /\ relayed = 0
        BY <1>1, <2>4 DEF Quiet
    <2>6. said' = 0 /\ toWire' = 0 /\ toIn' = 0 /\ relayed' = 0
        BY <1>8, <2>5 DEF ToEstablished
    <2> QED BY <1>1, <1>2, <2>3, <2>4, <2>6 DEF Quiet, FakeStates
<1>9. CASE ToAssertFails
    BY <1>9 DEF ToAssertFails, Quiet
<1>10. CASE ToReady
    <2>1. from_s' = "proxy_stable" /\ to_s' = "proxy_stable" /\ answers' = answers \o <<>>
        BY <1>10 DEF ToReady, Apply, FromProxy, Outcome
    <2>2. said' = relayed' + toIn' + toWire'
        BY <1>1, <1>10 DEF ToReady, Quiet
    <2> QED BY <1>1, <1>2, <2>1, <2>2 DEF Quiet, FakeStates
<1> QED BY <1>3, <1>4, <1>5, <1>6, <1>7, <1>8, <1>9, <1>10 DEF ToCallback

(* on_timeout, epoll_wait and peers that only answer preserve Quiet. *)
LEMMA QuietOther ==
    ~Eager /\ TypeOK /\ Quiet /\ (TimerCallback \/ PollTo \/ Environment) => Quiet'
<1> SUFFICES ASSUME ~Eager, TypeOK, Quiet, TimerCallback \/ PollTo \/ Environment PROVE Quiet'
    OBVIOUS
<1> USE DEF portalVars, outVars, backendVars
<1>1. CASE OnTimeout
    <2>1. CASE to_s = "connect" /\ IntentOK
        <3>1. fromIn \in Seq(Units) /\ toOut \in Seq(Units)
            BY DEF TypeOK, DataOK
        <3>2. from_s' \in FakeStates /\ toOut' = toOut \o <<>>
            BY <1>1, <2>1, <3>1, FakeBegins DEF OnTimeout, Apply
        <3>3. UNCHANGED <<to_s, said, relayed, toIn, toWire>>
            BY <1>1 DEF OnTimeout
        <3> QED BY <2>1, <3>1, <3>2, <3>3 DEF Quiet
    <2>2. CASE ~(to_s = "connect" /\ IntentOK)
        BY <1>1, <2>2 DEF OnTimeout, Quiet
    <2> QED BY <2>1, <2>2
<1>2. CASE StaleTimeout
    BY <1>2 DEF StaleTimeout, Quiet
<1>3. CASE PollTo
    BY <1>3 DEF PollTo, Quiet
<1>4. ASSUME NEW u \in Units, ClientSend(u) PROVE Quiet'
    BY <1>4 DEF ClientSend, Quiet
<1>5. ASSUME NEW how \in {"fin", "rst"}, ClientLeave(how) PROVE Quiet'
    BY <1>5 DEF ClientLeave, Quiet
<1>6. ASSUME NEW to \in BackendStates, BackendMove(to) PROVE Quiet'
    BY <1>6 DEF BackendMove, Quiet
<1>7. CASE BackendSay
    <2>1. toOut # <<>>
        <3>1. PICK i \in DOMAIN toOut : toOut[i] = "rest"
            BY <1>7 DEF BackendSay
        <3>2. DOMAIN toOut = 1..Len(toOut) /\ Len(toOut) \in Nat
            BY DEF TypeOK, DataOK
        <3>3. Len(toOut) >= 1
            BY <3>1, <3>2
        <3> QED BY <3>3, NotEmpty DEF TypeOK, DataOK
    <2>2. /\ UNCHANGED <<to_s, from_s, toOut, answers, relayed, toIn>>
          /\ said' = said + 1 /\ toWire' = toWire + 1
        BY <1>7 DEF BackendSay
    <2> QED BY <2>1, <2>2 DEF Quiet, TypeOK, DataOK
<1> QED BY <1>1, <1>2, <1>3, <1>4, <1>5, <1>6, <1>7 DEF TimerCallback, Environment

(* With backends that only answer, nothing of a backend's reaches a client *)
(* before the backend is stable, and the hub never stands in after that.   *)
THEOREM QuietHolds == ASSUME ~Eager PROVE Spec => []Quiet
<1>1. Quiet /\ UNCHANGED vars => Quiet'
    BY DEF Quiet, vars, portalVars, outVars, backendVars
<1>2. ~Eager /\ TypeOK /\ Phases /\ Quiet /\ [Next]_vars => Quiet'
    BY <1>1, QuietFrom, QuietTo, QuietOther DEF Next
<1>3. TypeOK /\ Phases /\ Quiet /\ [Next]_vars => Quiet'
    BY <1>2
<1> QED BY <1>3, TypeCorrect, PhasesHold, QuietInit, PTL DEF Spec

(* The client never hears both the backend and the hub. *)
THEOREM OneOriginHolds == ASSUME ~Eager PROVE Spec => []OneOrigin
<1>1. TypeOK /\ Quiet => OneOrigin
    BY DEF Quiet, OneOrigin
<1> QED BY <1>1, TypeCorrect, QuietHolds, PTL

-----------------------------------------------------------------------------
(* Portal implements ClientSession: one lemma for each abstract action.    *)

Voices == <<relayed, answers>>

(* Who has the connection, case by case of the two machines. *)
LEMMA ModeAt ==
    /\ ~alive => Mode = "closed"
    /\ alive /\ from_s \in FakeStates => Mode = "hub"
    /\ alive /\ from_s \notin FakeStates /\ to_s \in {"proxy", "proxy_stable"} => Mode = "backend"
    /\ alive /\ from_s \notin FakeStates /\ to_s = "connect" => Mode = "connecting"
    /\ alive /\ from_s \notin FakeStates /\ to_s = "none" => Mode = "new"
BY DEF Mode

(* The same in the next state. *)
LEMMA ModeAfter ==
    /\ ~alive' => Mode' = "closed"
    /\ alive' /\ from_s' \in FakeStates => Mode' = "hub"
    /\ alive' /\ from_s' \notin FakeStates /\ to_s' \in {"proxy", "proxy_stable"} => Mode' = "backend"
    /\ alive' /\ from_s' \notin FakeStates /\ to_s' = "connect" => Mode' = "connecting"
    /\ alive' /\ from_s' \notin FakeStates /\ to_s' = "none" => Mode' = "new"
BY DEF Mode

(* Stepping is one abstract action or none. *)
Step == Session!Next \/ UNCHANGED Session!sessionVars

(* What a step must do to be the abstract Dial. *)
LEMMA DialStep ==
    ASSUME Mode = "new", Mode' = "connecting", UNCHANGED Voices
    PROVE  Session!Dial
BY DEF Session!Dial, Voices

(* What a step must do to be the abstract Relay. *)
LEMMA RelayStep ==
    ASSUME Mode \in {"connecting", "backend"}, Mode' = "backend",
           answers = <<>>, answers' = answers, relayed > 0 => relayed' > 0
    PROVE  Session!Relay
BY DEF Session!Relay

(* What a step must do to be the abstract Stand. *)
LEMMA StandStep ==
    ASSUME Mode # "closed", Mode' \in {"hub", "closed"}, relayed = 0, relayed' = relayed,
           answers # <<>> => answers' # <<>>
    PROVE  Session!Stand
BY DEF Session!Stand

(* What a step must do to be the abstract Close. *)
LEMMA CloseStep ==
    ASSUME Mode' = "closed", UNCHANGED Voices
    PROVE  Session!Close
BY DEF Session!Close, Voices

(* What a step must do to be a stutter of the session. *)
LEMMA SameStep ==
    ASSUME Mode' = Mode, UNCHANGED Voices
    PROVE  UNCHANGED Session!sessionVars
BY DEF Session!sessionVars, Voices

(* An answer once made is not unsaid. *)
LEMMA AnswersGrow ==
    ASSUME NEW a \in Seq(Answers), NEW b \in Seq(Answers), a # <<>>
    PROVE  a \o b # <<>>
BY ConcatEqualIffEmpty

(* Every path of the client's callback is an abstract action or a stutter. *)
LEMMA SimulateFrom == TypeOK /\ Phases /\ Quiet /\ FromCallback => Step
<1> SUFFICES ASSUME TypeOK, Phases, Quiet, FromCallback PROVE Step
    OBVIOUS
<1> USE DEF Step, Session!Next
<1>1. Received \in Seq(Units) /\ answers \in Seq(Answers)
    BY DEF TypeOK, DataOK, Received
<1>2. alive /\ relayed' = relayed /\ Mode # "closed"
    <2>1. alive /\ relayed' = relayed
        BY DEF FromCallback, FromConnect, FromLocal, FromReject, FromRequest, FromReset, FromEvent,
               outVars
    <2> QED BY <2>1, ModeAt DEF TypeOK, ControlOK, Phases, FromStates, ToStates
<1>3. CASE FromConnect
    <2>1. from_s \notin FakeStates /\ from_s' \notin FakeStates /\ to_s = "none" /\ to_s' = "connect"
        BY <1>2, <1>3 DEF FromConnect, Phases, FakeStates
    <2>2. UNCHANGED Voices
        BY <1>2, <1>3 DEF FromConnect, Voices
    <2>3. CASE alive'
        BY <1>2, <2>1, <2>2, <2>3, ModeAt, ModeAfter, DialStep
    <2>4. CASE ~alive'
        BY <2>2, <2>4, ModeAfter, CloseStep
    <2> QED BY <2>3, <2>4
<1>4. CASE FromLocal
    <2>1. PICK r : /\ r = IF IntentOK THEN ProcessFrom(FakeState, Tail(Received))
                                      ELSE Throw("handshake", Tail(Received))
                   /\ FromEvent(r.end # "ok") /\ Apply(r)
        BY <1>4 DEF FromLocal
    <2>2. Tail(Received) \in Seq(Units) /\ from_s = "handshake"
        BY <1>1, <1>4 DEF FromLocal
    <2>3. r.ans \in Seq(Answers)
        <3>1. CASE IntentOK
            BY <2>1, <2>2, <3>1, FakeStateType, ProcessFromType
        <3>2. CASE ~IntentOK
            BY <2>1, <3>2 DEF Throw, Outcome
        <3> QED BY <3>1, <3>2
    <2>4. answers # <<>> => answers' # <<>>
        BY <1>1, <2>1, <2>3, AnswersGrow DEF Apply
    <2>5. alive' => from_s' \in FakeStates
        <3>1. alive' => IntentOK
            BY <2>1 DEF Throw, Outcome, FromEvent, Erasing
        <3> QED BY <2>1, <2>2, <3>1, FakeBegins DEF Apply
    <2>6. relayed = 0
        BY <1>2, <2>2 DEF Phases, Quiet
    <2>7. Mode' \in {"hub", "closed"}
        BY <2>5, ModeAfter
    <2> QED BY <1>2, <2>4, <2>6, <2>7, StandStep
<1>5. CASE FromReject
    <2>1. ~alive' /\ UNCHANGED Voices
        BY <1>2, <1>5 DEF FromReject, FromEvent, Erasing, Voices
    <2> QED BY <2>1, ModeAfter, CloseStep
<1>7. CASE FromReset
    <2>1. UNCHANGED Voices
        BY <1>2, <1>7 DEF FromReset, Voices, outVars
    <2>2. CASE ~alive'
        BY <2>1, <2>2, ModeAfter, CloseStep
    <2>3. CASE alive' = alive
        <3>1. from_s' = from_s /\ to_s' = to_s
            BY <1>7 DEF FromReset
        <3>2. Mode' = Mode
            BY <2>3, <3>1 DEF Mode
        <3> QED BY <2>1, <3>2, SameStep
    <2> QED BY <1>7, <2>2, <2>3 DEF FromReset
<1>6. CASE FromRequest
    <2>1. PICK r : r = ProcessFrom(from_s, Received) /\ Apply(r)
        BY <1>6 DEF FromRequest
    <2>2. to_s' = to_s
        BY <1>6 DEF FromRequest
    <2>3. r.ans \in Seq(Answers)
        BY <1>1, <2>1, ProcessFromType DEF TypeOK, ControlOK
    <2>4. CASE from_s \in FakeStates
        <3>1. from_s' \in FakeStates
            BY <2>1, <2>4, FakeStays DEF Apply
        <3>2. Mode' \in {"hub", "closed"}
            BY <3>1, ModeAfter
        <3>3. answers # <<>> => answers' # <<>>
            BY <1>1, <2>1, <2>3, AnswersGrow DEF Apply
        <3>4. relayed = 0
            BY <2>4 DEF Quiet
        <3> QED BY <1>2, <3>2, <3>3, <3>4, StandStep
    <2>5. CASE from_s \notin FakeStates
        <3>1. /\ from_s' \notin FakeStates /\ answers' = answers \o <<>>
            <4>1. CASE from_s \in {"handshake", "wait"}
                BY <2>1, <4>1 DEF ProcessFrom, Return, Outcome, Apply, FakeStates
            <4>2. CASE from_s \in {"login", "proxy", "proxy_stable"}
                BY <1>1, <2>1, <4>2, ProcessFromConserves DEF Apply, FakeStates
            <4> QED BY <2>5, <4>1, <4>2 DEF TypeOK, ControlOK, FromStates
        <3>2. UNCHANGED Voices
            BY <1>1, <1>2, <3>1 DEF Voices
        <3>3. CASE alive'
            <4>1. Mode' = Mode
                BY <1>2, <2>2, <2>5, <3>1, <3>3, ModeAt, ModeAfter DEF TypeOK, ControlOK, ToStates
            <4> QED BY <3>2, <4>1, SameStep
        <3>4. CASE ~alive'
            BY <3>2, <3>4, ModeAfter, CloseStep
        <3> QED BY <3>3, <3>4
    <2> QED BY <2>4, <2>5
<1> QED BY <1>3, <1>4, <1>5, <1>6, <1>7 DEF FromCallback

(* Every path of the backend's callback is an abstract action or a stutter. *)
LEMMA SimulateTo == TypeOK /\ Phases /\ Quiet /\ ToCallback => Step
<1> SUFFICES ASSUME TypeOK, Phases, Quiet, ToCallback PROVE Step
    OBVIOUS
<1> USE DEF Step, Session!Next
<1>1. /\ fromIn \in Seq(Units) /\ Kostil(fromIn) \in Seq(Units)
      /\ answers \in Seq(Answers)
      /\ toIn \in Nat /\ toWire \in Nat /\ relayed \in Nat
    BY KostilType DEF TypeOK, DataOK
<1>2. alive /\ alive' /\ from_s \notin FakeStates /\ answers = <<>>
    <2>1. ToEvent
        BY DEF ToCallback, ToHup, ToErrFallback, ToErrDisconnect,
               ToOutFailed, ToEscape, ToEstablished, ToAssertFails, ToReady
    <2>2. alive /\ alive' /\ toSock = "polled"
        BY <2>1 DEF ToEvent
    <2> QED BY <2>2 DEF Phases, Quiet
<1>3. CASE ToHup \/ ToErrFallback \/ ToOutFailed
    <2>1. to_s \in {"connect", "proxy"} /\ relayed' = relayed
        BY <1>3 DEF ToHup, ToErrFallback, ToOutFailed, FallbackStates, ConnectDone, outVars
    <2>2. from_s' \in FakeStates
        BY <1>1, <1>3, FakeStateType, FallbackStep DEF ToHup, ToOutFailed
    <2>3. relayed = 0
        BY <2>1 DEF Quiet
    <2>4. Mode' = "hub" /\ Mode # "closed"
        BY <1>2, <2>1, <2>2, ModeAt, ModeAfter
    <2> QED BY <1>2, <2>1, <2>3, <2>4, StandStep
<1>4. CASE ToErrDisconnect \/ ToEscape \/ ToAssertFails
    <2>1. /\ from_s' = from_s /\ to_s' = to_s /\ UNCHANGED Voices
        BY <1>4 DEF ToErrDisconnect, ToEscape, ToAssertFails, outVars, Voices
    <2>2. Mode' = Mode
        BY <1>2, <2>1, ModeAt, ModeAfter DEF TypeOK, ControlOK, ToStates
    <2> QED BY <2>1, <2>2, SameStep
<1>5. CASE ToEstablished
    <2>1. PICK r : r = FirstRequest /\ from_s' = r.state /\ answers' = answers \o r.ans
        BY <1>5 DEF ToEstablished
    <2>2. StateAfterHandshake \in {"login", "proxy", "proxy_stable"}
        BY DEF StateAfterHandshake
    <2>3. from_s' \notin FakeStates /\ answers' = answers \o <<>>
        BY <1>1, <2>1, <2>2, ProcessFromConserves DEF FirstRequest, FakeStates
    <2>4. to_s = "connect" /\ to_s' = "proxy"
        BY <1>5 DEF ToEstablished, ConnectDone
    <2>5. relayed = 0
        BY <2>4 DEF Quiet
    <2>6. Mode = "connecting" /\ Mode' = "backend"
        BY <1>2, <2>3, <2>4, ModeAt, ModeAfter
    <2> QED BY <1>1, <1>2, <2>3, <2>5, <2>6, RelayStep
<1>6. CASE ToReady
    <2>1. /\ from_s' = "proxy_stable" /\ to_s' = "proxy_stable" /\ answers' = answers \o <<>>
        BY <1>6 DEF ToReady, Apply, FromProxy, Outcome
    <2>2. to_s \in {"proxy", "proxy_stable"}
        BY <1>6 DEF ToReady
    <2>3. Mode = "backend" /\ Mode' = "backend"
        BY <1>2, <2>1, <2>2, ModeAt, ModeAfter DEF FakeStates
    <2>4. relayed > 0 => relayed' > 0
        BY <1>1, <1>6 DEF ToReady
    <2> QED BY <1>1, <1>2, <2>1, <2>3, <2>4, RelayStep
<1> QED BY <1>3, <1>4, <1>5, <1>6 DEF ToCallback

(* So is everything else. *)
LEMMA SimulateOther ==
    TypeOK /\ Phases /\ Quiet /\ (TimerCallback \/ PollTo \/ Environment \/ UNCHANGED vars) => Step
<1> SUFFICES ASSUME TypeOK, Phases, Quiet,
                    TimerCallback \/ PollTo \/ Environment \/ UNCHANGED vars
             PROVE Step
    OBVIOUS
<1> USE DEF Step, Session!Next
<1>1. ASSUME UNCHANGED <<alive, from_s, to_s, relayed, answers>> PROVE Step
    <2>1. Mode' = Mode /\ UNCHANGED Voices
        BY <1>1 DEF Mode, Voices
    <2> QED BY <2>1, SameStep
<1>2. CASE OnTimeout
    <2>1. CASE to_s = "connect" /\ IntentOK
        <3>1. PICK r : r = ProcessFrom(FakeState, fromIn) /\ Apply(r)
            BY <1>2, <2>1 DEF OnTimeout
        <3>2. fromIn \in Seq(Units) /\ answers \in Seq(Answers)
            BY DEF TypeOK, DataOK
        <3>3. r.ans \in Seq(Answers) /\ from_s' \in FakeStates
            BY <3>1, <3>2, FakeStateType, FakeBegins, ProcessFromType DEF Apply
        <3>4. answers # <<>> => answers' # <<>>
            BY <3>1, <3>2, <3>3, AnswersGrow DEF Apply
        <3>5. alive /\ alive' /\ relayed' = relayed /\ relayed = 0
            BY <1>2, <2>1 DEF OnTimeout, Quiet
        <3>6. Mode' = "hub" /\ Mode # "closed"
            BY <2>1, <3>3, <3>5, ModeAt, ModeAfter
        <3> QED BY <3>4, <3>5, <3>6, StandStep
    <2>2. CASE ~(to_s = "connect" /\ IntentOK)
        BY <1>1, <1>2, <2>2 DEF OnTimeout
    <2> QED BY <2>1, <2>2
<1>3. CASE StaleTimeout
    BY <1>1, <1>3 DEF StaleTimeout, outVars
<1>4. CASE PollTo
    BY <1>1, <1>4 DEF PollTo, portalVars, outVars
<1>5. CASE Environment
    BY <1>1, <1>5 DEF Environment, ClientSend, ClientLeave, BackendMove, BackendSay,
                      portalVars, outVars
<1>6. CASE UNCHANGED vars
    BY <1>1, <1>6 DEF vars, portalVars, outVars
<1> QED BY <1>2, <1>3, <1>4, <1>5, <1>6 DEF TimerCallback

(* A portal just made is a new session. *)
LEMMA SessionInit == Init => Session!Init
<1> SUFFICES ASSUME Init PROVE Session!Init
    OBVIOUS
<1>1. Mode = "new"
    BY ModeAt DEF Init, FakeStates
<1> QED BY <1>1 DEF Init, Session!Init

(* A client connection is decided once, between the backend and the hub:   *)
(* Portal implements ClientSession when backends only answer.              *)
THEOREM PortalImplementsSession == ASSUME ~Eager PROVE Spec => ImplementsSession
<1>1. TypeOK /\ Phases /\ Quiet /\ [Next]_vars => [Session!Next]_(Session!sessionVars)
    BY SimulateFrom, SimulateTo, SimulateOther DEF Next, Step
<1> QED BY <1>1, SessionInit, TypeCorrect, PhasesHold, QuietHolds, PTL
        DEF Spec, ImplementsSession, Session!Spec

=============================================================================
