--------------------------- MODULE PortalProofs ---------------------------
(***************************************************************************)
(* Proofs about Portal for every value of its constants.                   *)
(***************************************************************************)
EXTENDS Portal, SequenceTheorems, TLAPS

(* Concatenation of sequences of units is associative. *)
LEMMA Associative ==
    \A a, b, c \in Seq(Units) : (a \o b) \o c = a \o (b \o c)
<1> TAKE a, b, c \in Seq(Units)
<1> QED BY ConcatAssociative

(* A sequence with an element is not empty. *)
LEMMA NotEmpty ==
    ASSUME NEW seq \in Seq(Units), Len(seq) >= 1
    PROVE  seq # <<>>
<1>1. ASSUME seq = <<>> PROVE Len(seq) = 0
    <2>1. Len(<<>>) = 0
        BY EmptySeq
    <2> QED BY <1>1, <2>1, Zenon
<1> QED BY <1>1

(* A whole second packet at the front of the input is cut off it. *)
LEMMA SecondPacketSplit ==
    ASSUME NEW in \in Seq(Units), SecondPacket(in)
    PROVE  /\ Drop2(in) \in Seq(Units)
           /\ in = <<"first", "rest">> \o Drop2(in)
<1>1. Len(in) >= 2 /\ Len(in) \in Nat
    BY LenProperties DEF SecondPacket
<1>2. in # <<>>
    BY <1>1, NotEmpty
<1>3. Tail(in) \in Seq(Units) /\ Len(Tail(in)) = Len(in) - 1 /\ Tail(in) # <<>>
    BY <1>1, <1>2, NotEmpty
<1>4. /\ Drop2(in) \in Seq(Units)
      /\ Len(Drop2(in)) = Len(in) - 2
      /\ \A i \in 1..Len(in) - 2 : Drop2(in)[i] = in[i + 2]
    BY <1>1, <1>2, <1>3 DEF Drop2
<1>5. <<"first", "rest">> \in Seq(Units)
    BY DEF Units
<1> DEFINE whole == <<"first", "rest">> \o Drop2(in)
<1>6. whole \in Seq(Units) /\ Len(whole) = Len(in)
    BY <1>1, <1>4, <1>5
<1>7. \A i \in 1..Len(in) : whole[i] = in[i]
    BY <1>1, <1>4, <1>5 DEF SecondPacket
<1>8. whole = in
    BY <1>6, <1>7, SeqEqual
<1> QED BY <1>4, <1>8

(* What process_from_request returns is of the right types. *)
LEMMA ProcessFromType ==
    ASSUME NEW s \in FromStates, NEW in \in Seq(Units)
    PROVE  LET r == ProcessFrom(s, in)
           IN /\ r.state \in FromStates
              /\ r.in \in Seq(Units)
              /\ r.to \in Seq(Units)
              /\ r.ans \in Seq(Answers)
<1>1. ASSUME in # <<>> PROVE Tail(in) \in Seq(Units)
    BY <1>1
<1>2. ASSUME SecondPacket(in) PROVE Drop2(in) \in Seq(Units)
    BY <1>2, SecondPacketSplit
<1>3. /\ <<>> \in Seq(Units) /\ <<"first", "rest">> \in Seq(Units)
      /\ <<>> \in Seq(Answers) /\ <<"response">> \in Seq(Answers)
      /\ <<"pong">> \in Seq(Answers) /\ <<"disconnect">> \in Seq(Answers)
    BY DEF Units, Answers
<1>4. CASE s = "login"
    BY <1>2, <1>3, <1>4 DEF ProcessFrom, FromLogin, Outcome, Return, Throw, FromStates
<1>5. CASE s = "status_fake"
    BY <1>1, <1>2, <1>3, <1>5 DEF ProcessFrom, FromFakeStatus, Outcome, Return, Throw, FromStates, FakeStates
<1>6. CASE s = "login_fake"
    BY <1>2, <1>3, <1>6 DEF ProcessFrom, FromFakeLogin, Outcome, Return, Throw, FromStates, FakeStates
<1>7. CASE s \in {"proxy", "proxy_stable"}
    BY <1>3, <1>7 DEF ProcessFrom, FromProxy, Outcome, FromStates
<1>8. CASE s \in {"handshake", "wait"}
    BY <1>3, <1>8 DEF ProcessFrom, Outcome, Return, FromStates
<1> QED BY <1>4, <1>5, <1>6, <1>7, <1>8 DEF FromStates, FakeStates

(* What process_from_request passes on to the backend and what it leaves   *)
(* make up its input; the portal stays with the backend.                   *)
LEMMA ProcessFromConserves ==
    ASSUME NEW s \in {"login", "proxy", "proxy_stable"}, NEW in \in Seq(Units)
    PROVE  LET r == ProcessFrom(s, in)
           IN /\ r.state \in {"login", "proxy", "proxy_stable"}
              /\ in = r.to \o r.in
              /\ r.ans = <<>>
<1>1. in = <<>> \o in /\ in = in \o <<>>
    BY ConcatEmptySeq
<1>2. ASSUME SecondPacket(in) PROVE in = <<"first", "rest">> \o Drop2(in)
    BY <1>2, SecondPacketSplit
<1>3. CASE s = "login"
    BY <1>1, <1>2, <1>3 DEF ProcessFrom, FromLogin, Outcome, Return, Throw
<1>4. CASE s \in {"proxy", "proxy_stable"}
    BY <1>1, <1>4 DEF ProcessFrom, FromProxy, Outcome
<1> QED BY <1>3, <1>4

(* The hub stands in for good, and then passes nothing on to the backend. *)
LEMMA ProcessFromFake ==
    ASSUME NEW s \in FakeStates, NEW in \in Seq(Units)
    PROVE  ProcessFrom(s, in).state = s /\ ProcessFrom(s, in).to = <<>>
<1>1. CASE s = "status_fake"
    BY <1>1 DEF ProcessFrom, FromFakeStatus, Outcome, Return, Throw
<1>2. CASE s = "login_fake"
    BY <1>2 DEF ProcessFrom, FromFakeLogin, Outcome, Return, Throw
<1> QED BY <1>1, <1>2 DEF FakeStates

(* A non-empty input is its first unit followed by the rest (gate::paket_read). *)
LEMMA HeadTail ==
    ASSUME NEW in \in Seq(Units), in # <<>>
    PROVE  Tail(in) \in Seq(Units) /\ in = <<Head(in)>> \o Tail(in)
<1>1. Tail(in) \in Seq(Units) /\ Head(in) \in Units /\ Len(Tail(in)) = Len(in) - 1
    BY HeadTailProperties
<1>2. <<Head(in)>> \o Tail(in) \in Seq(Units) /\ Len(<<Head(in)>> \o Tail(in)) = Len(in)
    BY <1>1, LenProperties
<1>3. \A i \in 1..Len(in) : (<<Head(in)>> \o Tail(in))[i] = in[i]
    BY <1>1, HeadTailProperties
<1> QED BY <1>1, <1>2, <1>3, SeqEqual

(* kostilA and kostilB leave a sequence of units in the client's input. *)
LEMMA KostilType == ASSUME NEW in \in Seq(Units) PROVE Kostil(in) \in Seq(Units)
<1>1. <<"first", "rest">> \in Seq(Units)
    BY DEF Units
<1> QED BY <1>1 DEF Kostil

-----------------------------------------------------------------------------
(* Type correctness *)

(* A portal just made by on_accept is well typed. *)
LEMMA InitType == Init => TypeOK
<1> SUFFICES ASSUME Init PROVE TypeOK
    OBVIOUS
<1>1. ControlOK
    BY DEF Init, ControlOK, FromStates, ToStates, BackendStates
<1>2. <<>> \in Seq(Units) /\ <<>> \in Seq(Answers)
    OBVIOUS
<1>3. DataOK
    BY <1>2 DEF Init, DataOK
<1> QED BY <1>1, <1>3 DEF TypeOK

(* Every path of the client's callback preserves the types. *)
LEMMA FromType == TypeOK /\ FromCallback => TypeOK'
<1> SUFFICES ASSUME ControlOK, DataOK, FromCallback PROVE ControlOK' /\ DataOK'
    BY DEF TypeOK
<1> USE DEF FromEvent, Erasing, ToSockUnlessErased, CloseTo, clientVars
<1>1. Received \in Seq(Units) /\ <<>> \in Seq(Units)
    BY DEF Received, DataOK
<1>2. Received # <<>> => Tail(Received) \in Seq(Units)
    BY <1>1
<1>4. CASE FromConnect
    <2>1. ControlOK'
        BY <1>4 DEF FromConnect, ControlOK, Later, FromStates, ToStates, BackendStates
    <2>2. DataOK'
        BY <1>1, <1>2, <1>4 DEF FromConnect, DataOK
    <2> QED BY <2>1, <2>2
<1>5. CASE FromLocal
    <2>1. PICK r \in {ProcessFrom(FakeState, Tail(Received)), Throw("handshake", Tail(Received))} :
                FromEvent(r.end # "ok") /\ Apply(r) /\ ToSockUnlessErased(r.end # "ok", toSock)
        BY <1>5 DEF FromLocal
    <2>2. Tail(Received) \in Seq(Units)
        BY <1>2, <1>5 DEF FromLocal
    <2>3. FakeState \in FromStates
        BY DEF FakeState, FromStates, FakeStates
    <2>4. /\ r.state \in FromStates /\ r.in \in Seq(Units)
          /\ r.to \in Seq(Units) /\ r.ans \in Seq(Answers)
        <3>1. CASE r = ProcessFrom(FakeState, Tail(Received))
            BY <2>2, <2>3, <3>1, ProcessFromType
        <3>2. CASE r = Throw("handshake", Tail(Received))
            BY <2>2, <3>2 DEF Throw, Outcome, FromStates
        <3> QED BY <3>1, <3>2
    <2>5. ControlOK'
        BY <1>5, <2>1, <2>4 DEF FromLocal, Apply, ControlOK
    <2>6. DataOK'
        BY <1>1, <2>1, <2>4 DEF Apply, DataOK
    <2> QED BY <2>5, <2>6
<1>6. CASE FromReject
    <2>1. ControlOK'
        BY <1>6 DEF FromReject, ControlOK
    <2>2. DataOK'
        BY <1>1, <1>2, <1>6 DEF FromReject, DataOK
    <2> QED BY <2>1, <2>2
<1>7. CASE FromRequest
    <2>1. PICK r : /\ r = ProcessFrom(from_s, Received)
                   /\ FromEvent(r.end # "ok") /\ Apply(r)
                   /\ ToSockUnlessErased(r.end # "ok", toSock)
        BY <1>7 DEF FromRequest
    <2>2. /\ r.state \in FromStates /\ r.in \in Seq(Units)
          /\ r.to \in Seq(Units) /\ r.ans \in Seq(Answers)
        BY <1>1, <2>1, ProcessFromType DEF ControlOK
    <2>3. ControlOK'
        BY <1>7, <2>1, <2>2 DEF FromRequest, Apply, ControlOK
    <2>4. DataOK'
        BY <1>1, <2>1, <2>2 DEF Apply, DataOK
    <2> QED BY <2>3, <2>4
<1>8. CASE FromReset
    <2>1. ControlOK'
        BY <1>8 DEF FromReset, ControlOK, outVars, backendVars
    <2>2. DataOK'
        BY <1>8 DEF FromReset, DataOK, outVars, backendVars
    <2> QED BY <2>1, <2>2
<1> QED BY <1>4, <1>5, <1>6, <1>7, <1>8 DEF FromCallback

(* set_from_state_by_hs assigns a stand-in state. *)
LEMMA FakeStateType == FakeState \in FakeStates /\ FakeState \in FromStates
BY DEF FakeState, FromStates, FakeStates

(* Standing in for a broken backend keeps the types, begins the stand-in    *)
(* and passes nothing on.                                                  *)
LEMMA FallbackResult ==
    ASSUME NEW in \in Seq(Units), NEW r \in Fallback(in)
    PROVE  /\ r.state \in FakeStates /\ r.state \in FromStates
           /\ r.in \in Seq(Units) /\ r.to = <<>> /\ r.to \in Seq(Units)
           /\ r.ans \in Seq(Answers)
<1>1. CASE r = ProcessFrom(FakeState, in)
    BY <1>1, FakeStateType, ProcessFromType, ProcessFromFake
<1>2. CASE r = Return(FakeState, in)
    <2>1. <<>> \in Seq(Units) /\ <<>> \in Seq(Answers)
        OBVIOUS
    <2> QED BY <1>2, <2>1, FakeStateType DEF Return, Outcome
<1> QED BY <1>1, <1>2 DEF Fallback

(* Every path of the backend's callback preserves the types. *)
LEMMA ToType == TypeOK /\ ToCallback => TypeOK'
<1> SUFFICES ASSUME ControlOK, DataOK, ToCallback PROVE ControlOK' /\ DataOK'
    BY DEF TypeOK
<1> USE DEF ToEvent, CloseTo, clientVars, backendVars, outVars, Hangup
<1>1. CASE ToHup
    <2>1. ControlOK'
        BY <1>1, FakeStateType DEF ToHup, ControlOK
    <2>2. DataOK'
        BY <1>1 DEF ToHup, DataOK
    <2> QED BY <2>1, <2>2
<1>2. CASE ToErrFallback
    <2>1. PICK r \in Fallback(Kostil(fromIn)) :
                   /\ disconnected' = (Hangup \/ r.end = "kick")
                   /\ Apply(r)
        BY <1>2 DEF ToErrFallback
    <2>2. /\ r.state \in FromStates /\ r.in \in Seq(Units)
          /\ r.to \in Seq(Units) /\ r.ans \in Seq(Answers)
        BY KostilType, FallbackResult DEF DataOK
    <2>3. ControlOK'
        BY <1>2, <2>1, <2>2 DEF ToErrFallback, Apply, ControlOK
    <2>4. toIn' = toIn /\ relayed' = relayed /\ toWire' = toWire
        BY <1>2 DEF ToErrFallback
    <2>5. DataOK'
        BY <1>2, <2>1, <2>2, <2>4 DEF ToErrFallback, Apply, DataOK
    <2> QED BY <2>3, <2>5
<1>3. CASE ToErrDisconnect
    <2>1. ControlOK'
        BY <1>3 DEF ToErrDisconnect, ControlOK
    <2>2. DataOK'
        BY <1>3 DEF ToErrDisconnect, DataOK
    <2> QED BY <2>1, <2>2
<1>4. CASE ToOutFailed
    <2>1. ControlOK'
        BY <1>4, FakeStateType DEF ToOutFailed, ControlOK
    <2>2. DataOK'
        BY <1>4 DEF ToOutFailed, DataOK
    <2> QED BY <2>1, <2>2
<1>5. CASE ToEscape
    <2>1. ControlOK'
        BY <1>5 DEF ToEscape, ControlOK
    <2>2. DataOK'
        BY <1>5 DEF ToEscape, DataOK
    <2> QED BY <2>1, <2>2
<1>6. CASE ToEstablished
    <2>1. PICK r : /\ r = FirstRequest
                   /\ from_s' = r.state /\ fromIn' = r.in
                   /\ toOut' = toOut \o <<"hs">> \o r.to
                   /\ answers' = answers \o r.ans
        BY <1>6 DEF ToEstablished
    <2>2. StateAfterHandshake \in FromStates
        BY DEF StateAfterHandshake, FromStates
    <2>3. /\ r.state \in FromStates /\ r.in \in Seq(Units)
          /\ r.to \in Seq(Units) /\ r.ans \in Seq(Answers)
        BY <2>1, <2>2, ProcessFromType DEF FirstRequest, DataOK
    <2>4. ControlOK'
        BY <1>6, <2>1, <2>3 DEF ToEstablished, Refuse, ControlOK, ToStates
    <2>5. /\ <<"hs">> \in Seq(Units)
          /\ toIn' \in Nat /\ relayed' \in Nat /\ toWire' \in Nat
        BY <1>6 DEF ToEstablished, DataOK, Units
    <2>6. toOut' \in Seq(Units) /\ answers' \in Seq(Answers)
        BY <2>1, <2>3, <2>5 DEF DataOK
    <2>7. sent' = sent /\ fromWire' = fromWire /\ said' = said
        BY <1>6 DEF ToEstablished
    <2>8. DataOK'
        BY <2>1, <2>3, <2>5, <2>6, <2>7 DEF DataOK
    <2> QED BY <2>4, <2>8
<1>7. CASE ToAssertFails
    <2>1. ControlOK'
        BY <1>7 DEF ToAssertFails, ControlOK
    <2>2. DataOK'
        BY <1>7 DEF ToAssertFails, DataOK
    <2> QED BY <2>1, <2>2
<1>8. CASE ToReady
    <2>1. /\ from_s' = "proxy_stable" /\ fromIn' = <<>>
          /\ toOut' = toOut \o fromIn /\ answers' = answers \o <<>>
        BY <1>8 DEF ToReady, Apply, FromProxy, Outcome
    <2>2. ControlOK'
        BY <1>8, <2>1 DEF ToReady, ControlOK, FromStates, ToStates
    <2>3. toIn' \in Nat /\ relayed' \in Nat /\ toWire' \in Nat
        BY <1>8 DEF ToReady, DataOK
    <2>4. sent' = sent /\ fromWire' = fromWire /\ said' = said
        BY <1>8 DEF ToReady
    <2>5. DataOK'
        BY <2>1, <2>3, <2>4 DEF DataOK
    <2> QED BY <2>2, <2>5
<1> QED BY <1>1, <1>2, <1>3, <1>4, <1>5, <1>6, <1>7, <1>8 DEF ToCallback

(* on_timeout, on a live portal or a stale one, preserves the types. *)
LEMMA TimerType == TypeOK /\ TimerCallback => TypeOK'
<1> SUFFICES ASSUME ControlOK, DataOK, TimerCallback PROVE ControlOK' /\ DataOK'
    BY DEF TypeOK
<1> USE DEF CloseTo, clientVars, backendVars, outVars
<1>1. CASE OnTimeout
    <2>1. PICK r : /\ r = ProcessFrom(FakeState, fromIn)
                   /\ IF to_s = "connect" /\ IntentOK
                      THEN disconnected' = (disconnected \/ r.end = "kick") /\ CloseTo /\ Apply(r)
                      ELSE UNCHANGED <<disconnected, toSock, toMask, from_s, fromIn, toOut, answers>>
        BY <1>1 DEF OnTimeout
    <2>2. /\ r.state \in FromStates /\ r.in \in Seq(Units)
          /\ r.to \in Seq(Units) /\ r.ans \in Seq(Answers)
        BY <2>1, FakeStateType, ProcessFromType DEF DataOK
    <2>3. /\ timer' = "none"
          /\ UNCHANGED <<to_s, toIn, alive, fault, relayed, clientVars, fromWire,
                         fromEdge, backendVars, toWire, toEdge>>
        BY <1>1 DEF OnTimeout
    <2>4. ControlOK'
        BY <2>1, <2>2, <2>3 DEF Apply, ControlOK
    <2>5. /\ fromIn' \in Seq(Units) /\ toOut' \in Seq(Units) /\ answers' \in Seq(Answers)
        <3>1. CASE to_s = "connect" /\ IntentOK
            <4>1. /\ fromIn' = r.in
                  /\ toOut' = toOut \o r.to /\ answers' = answers \o r.ans
                BY <2>1, <3>1 DEF Apply
            <4> QED BY <2>2, <4>1 DEF DataOK
        <3>2. CASE ~(to_s = "connect" /\ IntentOK)
            BY <2>1, <3>2 DEF DataOK
        <3> QED BY <3>1, <3>2
    <2>6. DataOK'
        BY <2>3, <2>5 DEF DataOK
    <2> QED BY <2>4, <2>6
<1>2. CASE StaleTimeout
    <2>1. ControlOK'
        BY <1>2 DEF StaleTimeout, ControlOK
    <2>2. DataOK'
        BY <1>2 DEF StaleTimeout, DataOK
    <2> QED BY <2>1, <2>2
<1> QED BY <1>1, <1>2 DEF TimerCallback

(* So do epoll_wait, the client and the backend. *)
LEMMA EnvironmentType == TypeOK /\ (PollTo \/ Environment) => TypeOK'
<1> SUFFICES ASSUME ControlOK, DataOK, PollTo \/ Environment PROVE ControlOK' /\ DataOK'
    BY DEF TypeOK
<1> USE DEF portalVars, clientVars, backendVars, outVars
<1>1. CASE PollTo
    <2>1. ControlOK'
        BY <1>1 DEF PollTo, EventMask, ControlOK, Events
    <2>2. DataOK'
        BY <1>1 DEF PollTo, DataOK
    <2> QED BY <2>1, <2>2
<1>2. ASSUME NEW u \in Units, ClientSend(u) PROVE ControlOK' /\ DataOK'
    <2>1. ControlOK'
        BY <1>2 DEF ClientSend, ControlOK
    <2>2. Append(sent, u) \in Seq(Units) /\ Append(fromWire, u) \in Seq(Units)
        BY DEF DataOK
    <2>3. DataOK'
        BY <1>2, <2>2 DEF ClientSend, DataOK
    <2> QED BY <2>1, <2>3
<1>3. ASSUME NEW how \in {"fin", "rst"}, ClientLeave(how) PROVE ControlOK' /\ DataOK'
    <2>1. ControlOK'
        BY <1>3 DEF ClientLeave, ControlOK
    <2>2. DataOK'
        BY <1>3 DEF ClientLeave, DataOK
    <2> QED BY <2>1, <2>2
<1>4. ASSUME NEW to \in BackendStates, BackendMove(to) PROVE ControlOK' /\ DataOK'
    <2>1. ControlOK'
        BY <1>4 DEF BackendMove, ControlOK
    <2>2. DataOK'
        BY <1>4 DEF BackendMove, DataOK
    <2> QED BY <2>1, <2>2
<1>5. CASE BackendSay
    <2>1. ControlOK'
        BY <1>5 DEF BackendSay, ControlOK
    <2>2. DataOK'
        BY <1>5 DEF BackendSay, DataOK
    <2> QED BY <2>1, <2>2
<1> QED BY <1>1, <1>2, <1>3, <1>4, <1>5 DEF Environment

(* So does a step of something else. *)
LEMMA StutterType == TypeOK /\ UNCHANGED vars => TypeOK'
BY DEF TypeOK, ControlOK, DataOK, vars, portalVars, outVars, clientVars, backendVars

(* The variables of the portal, of its peers and of the kernel stay within *)
(* their types, in every reachable state.                                  *)
THEOREM TypeCorrect == Spec => []TypeOK
<1>1. TypeOK /\ [Next]_vars => TypeOK'
    BY FromType, ToType, TimerType, EnvironmentType, StutterType DEF Next
<1> QED BY <1>1, InitType, PTL DEF Spec

-----------------------------------------------------------------------------
(* The two state machines move together *)

(* Answering a request does not take the client's machine out of the stand-in. *)
LEMMA FakeStays ==
    ASSUME TypeOK, from_s \in FakeStates
    PROVE  /\ ProcessFrom(from_s, Received).state = from_s
           /\ ProcessFrom(from_s, Received).to = <<>>
<1>1. Received \in Seq(Units)
    BY DEF Received, TypeOK, DataOK
<1> QED BY <1>1, ProcessFromFake

(* Nor does it when the stand-in has just begun, whatever the input is. *)
LEMMA FakeBegins ==
    ASSUME NEW in \in Seq(Units)
    PROVE  /\ ProcessFrom(FakeState, in).state \in FakeStates
           /\ ProcessFrom(FakeState, in).to = <<>>
BY FakeStateType, ProcessFromFake

(* Taking over from a broken backend, on_to_event stands in and passes      *)
(* nothing on to it.                                                       *)
LEMMA FallbackStep ==
    ASSUME TypeOK, ToErrFallback
    PROVE  from_s' \in FakeStates /\ toOut' = toOut \o <<>>
<1>1. Kostil(fromIn) \in Seq(Units)
    BY KostilType DEF TypeOK, DataOK
<1>2. PICK r \in Fallback(Kostil(fromIn)) : Apply(r)
    BY DEF ToErrFallback
<1> QED BY <1>1, <1>2, FallbackResult DEF Apply

(* The client's callback keeps the two machines in step. *)
LEMMA PhasesFrom == TypeOK /\ Phases /\ FromCallback => Phases'
<1> SUFFICES ASSUME TypeOK, Phases, FromCallback PROVE Phases'
    OBVIOUS
<1> USE DEF FromEvent, ToSockUnlessErased, CloseTo
<1>1. toOut \in Seq(Units) /\ Received \in Seq(Units)
    BY DEF TypeOK, DataOK, Received
<1>2. CASE FromConnect
    BY <1>2 DEF FromConnect, Later, Phases, FakeStates
<1>3. CASE FromLocal
    <2>1. PICK r : /\ r = IF IntentOK THEN ProcessFrom(FakeState, Tail(Received))
                                      ELSE Throw("handshake", Tail(Received))
                   /\ FromEvent(r.end # "ok") /\ Apply(r)
                   /\ ToSockUnlessErased(r.end # "ok", toSock)
        BY <1>3 DEF FromLocal
    <2>2. alive' => IntentOK
        BY <2>1 DEF Throw, Outcome, Erasing
    <2>3. /\ to_s' = to_s /\ timer' = timer /\ from_s = "handshake"
          /\ Tail(Received) \in Seq(Units)
        BY <1>1, <1>3 DEF FromLocal
    <2>4. alive' => /\ from_s' \in FakeStates
                    /\ toOut' = toOut \o <<>>
                    /\ toSock' = toSock
        BY <2>1, <2>2, <2>3, FakeBegins DEF Apply
    <2> QED BY <1>1, <2>1, <2>3, <2>4 DEF Phases, FakeStates
<1>4. CASE FromReject
    BY <1>4 DEF FromReject, Erasing, Phases
<1>5. CASE FromRequest
    <2>1. PICK r : /\ r = ProcessFrom(from_s, Received)
                   /\ FromEvent(r.end # "ok") /\ Apply(r)
                   /\ ToSockUnlessErased(r.end # "ok", toSock)
        BY <1>5 DEF FromRequest
    <2>2. to_s' = to_s /\ timer' = timer
        BY <1>5 DEF FromRequest
    <2>3. CASE from_s \in FakeStates
        BY <1>1, <2>1, <2>2, <2>3, FakeStays DEF Apply, Phases, FakeStates
    <2>4. CASE from_s \in {"handshake", "wait"}
        <3>1. r = Return(from_s, Received)
            BY <2>1, <2>4 DEF ProcessFrom
        <3> QED BY <1>1, <2>1, <2>2, <2>4, <3>1 DEF Return, Outcome, Apply, Phases, FakeStates
    <2>5. CASE from_s \in {"login", "proxy", "proxy_stable"}
        <3>1. r.state \in {"login", "proxy", "proxy_stable"}
            BY <1>1, <2>1, <2>5, ProcessFromConserves
        <3> QED BY <2>1, <2>2, <2>5, <3>1 DEF Apply, Phases, FakeStates, TypeOK, ControlOK, ToStates
    <2> QED BY <2>3, <2>4, <2>5 DEF TypeOK, ControlOK, FromStates
<1>6. CASE FromReset
    BY <1>6 DEF FromReset, Phases, outVars
<1> QED BY <1>2, <1>3, <1>4, <1>5, <1>6 DEF FromCallback

(* The backend's callback keeps the two machines in step. *)
LEMMA PhasesTo == TypeOK /\ Phases /\ ToCallback => Phases'
<1> SUFFICES ASSUME TypeOK, Phases, ToCallback PROVE Phases'
    OBVIOUS
<1> USE DEF ToEvent, CloseTo, outVars
<1>1. fromIn \in Seq(Units) /\ toOut \in Seq(Units) /\ Kostil(fromIn) \in Seq(Units)
    BY KostilType DEF TypeOK, DataOK
<1>2. CASE ToHup
    BY <1>2, FakeStateType DEF ToHup, Phases, FakeStates
<1>3. CASE ToErrFallback
    <2>1. from_s' \in FakeStates /\ toOut' = toOut \o <<>>
        BY <1>3, FallbackStep
    <2> QED BY <1>1, <1>3, <2>1 DEF ToErrFallback, FallbackStates, Phases, FakeStates
<1>4. CASE ToErrDisconnect
    BY <1>4 DEF ToErrDisconnect, Phases
<1>5. CASE ToOutFailed
    BY <1>5, FakeStateType DEF ToOutFailed, ConnectDone, Phases, FakeStates
<1>6. CASE ToEscape
    BY <1>6 DEF ToEscape, Phases
<1>7. CASE ToEstablished
    <2>1. StateAfterHandshake \in {"login", "proxy", "proxy_stable"}
        BY DEF StateAfterHandshake
    <2>2. FirstRequest.state \in {"login", "proxy", "proxy_stable"}
        BY <1>1, <2>1, ProcessFromConserves DEF FirstRequest
    <2> QED BY <1>7, <2>2 DEF ToEstablished, Refuse, Phases, FakeStates
<1>8. CASE ToAssertFails
    BY <1>8 DEF ToAssertFails, Phases
<1>9. CASE ToReady
    BY <1>9 DEF ToReady, Apply, FromProxy, Outcome, Phases, FakeStates
<1> QED BY <1>2, <1>3, <1>4, <1>5, <1>6, <1>7, <1>8, <1>9 DEF ToCallback

(* on_timeout, epoll_wait and the peers keep the two machines in step. *)
LEMMA PhasesOther == TypeOK /\ Phases /\ (TimerCallback \/ PollTo \/ Environment) => Phases'
<1> SUFFICES ASSUME TypeOK, Phases, TimerCallback \/ PollTo \/ Environment PROVE Phases'
    OBVIOUS
<1> USE DEF portalVars, outVars
<1>1. CASE OnTimeout
    <2>1. CASE to_s = "connect" /\ IntentOK
        <3>1. fromIn \in Seq(Units) /\ toOut \in Seq(Units)
            BY DEF TypeOK, DataOK
        <3>2. from_s' \in FakeStates /\ toOut' = toOut \o <<>>
            BY <1>1, <2>1, <3>1, FakeBegins DEF OnTimeout, Apply
        <3> QED BY <1>1, <2>1, <3>1, <3>2 DEF OnTimeout, CloseTo, Phases, FakeStates
    <2>2. CASE ~(to_s = "connect" /\ IntentOK)
        BY <1>1, <2>2 DEF OnTimeout, Phases
    <2> QED BY <2>1, <2>2
<1>2. CASE StaleTimeout
    BY <1>2 DEF StaleTimeout, Phases
<1>3. CASE PollTo
    BY <1>3 DEF PollTo, Phases
<1>4. ASSUME NEW u \in Units, ClientSend(u) PROVE Phases'
    BY <1>4 DEF ClientSend, Phases
<1>5. ASSUME NEW how \in {"fin", "rst"}, ClientLeave(how) PROVE Phases'
    BY <1>5 DEF ClientLeave, Phases
<1>6. ASSUME NEW to \in BackendStates, BackendMove(to) PROVE Phases'
    BY <1>6 DEF BackendMove, Phases
<1>7. CASE BackendSay
    BY <1>7 DEF BackendSay, Phases
<1> QED BY <1>1, <1>2, <1>3, <1>4, <1>5, <1>6, <1>7 DEF TimerCallback, Environment

(* Phases is inductive, given the types. *)
LEMMA PhasesStep == TypeOK /\ Phases /\ [Next]_vars => Phases'
<1>1. TypeOK /\ Phases /\ UNCHANGED vars => Phases'
    BY DEF Phases, vars, portalVars, outVars
<1> QED BY <1>1, PhasesFrom, PhasesTo, PhasesOther DEF Next

(* Phases holds of a portal just made. *)
LEMMA PhasesInit == Init => Phases
BY DEF Init, Phases, FakeStates

(* Only certain pairs of states of the two machines of a portal occur, and *)
(* a portal that stands in has stopped listening to its backend.           *)
THEOREM PhasesHold == Spec => []Phases
<1> QED BY TypeCorrect, PhasesInit, PhasesStep, PTL DEF Spec

-----------------------------------------------------------------------------
(* The hub stands in for good *)

(* No step takes a client back from the hub: the step of FakeIsFinal. *)
LEMMA FakeStep ==
    ASSUME TypeOK, Phases, from_s \in FakeStates, [Next]_vars
    PROVE  from_s' \in FakeStates
<1> USE DEF portalVars, outVars
<1>1. fromIn \in Seq(Units) /\ Kostil(fromIn) \in Seq(Units)
    BY KostilType DEF TypeOK, DataOK
<1>2. CASE FromCallback
    <2>1. CASE FromConnect
        BY <2>1 DEF FromConnect, FakeStates
    <2>2. CASE FromLocal
        BY <2>2 DEF FromLocal, FakeStates
    <2>3. CASE FromReject
        BY <2>3 DEF FromReject
    <2>4. CASE FromRequest
        BY <2>4, FakeStays DEF FromRequest, Apply
    <2>5. CASE FromReset
        BY <2>5 DEF FromReset
    <2> QED BY <1>2, <2>1, <2>2, <2>3, <2>4, <2>5 DEF FromCallback
<1>3. CASE ToCallback
    <2>1. alive /\ toSock = "polled"
        BY <1>3 DEF ToCallback, ToEvent, ToHup, ToErrFallback, ToErrDisconnect,
                    ToOutFailed, ToEscape, ToEstablished, ToAssertFails, ToReady
    <2> QED BY <2>1 DEF Phases
<1>4. CASE TimerCallback
    <2>1. CASE OnTimeout
        <3>1. CASE to_s = "connect" /\ IntentOK
            BY <1>1, <2>1, <3>1, FakeBegins DEF OnTimeout, Apply
        <3>2. CASE ~(to_s = "connect" /\ IntentOK)
            BY <2>1, <3>2 DEF OnTimeout
        <3> QED BY <3>1, <3>2
    <2>2. CASE StaleTimeout
        BY <2>2 DEF StaleTimeout
    <2> QED BY <1>4, <2>1, <2>2 DEF TimerCallback
<1>5. CASE PollTo \/ Environment
    BY <1>5 DEF PollTo, Environment, ClientSend, ClientLeave, BackendMove, BackendSay
<1>6. CASE UNCHANGED vars
    BY <1>6 DEF vars
<1> QED BY <1>2, <1>3, <1>4, <1>5, <1>6 DEF Next

(* Once the hub has stood in for the backend, no step gives the client back *)
(* to it.                                                                  *)
THEOREM HubStaysFinal == Spec => FakeIsFinal
<1>1. TypeOK /\ Phases /\ [Next]_vars =>
        [(from_s \in FakeStates) => (from_s' \in FakeStates)]_vars
    BY FakeStep
<1> QED BY <1>1, TypeCorrect, PhasesHold, PTL DEF Spec, FakeIsFinal

-----------------------------------------------------------------------------
(* No unit is lost, doubled or reordered *)

(* Nothing has been sent to a portal just made. *)
LEMMA StreamInit == Init => StreamConserved
<1>1. <<>> = <<>> \o <<>>
    BY ConcatEmptySeq
<1> QED BY <1>1 DEF Init, StreamConserved

(* The client's callback loses and doubles no unit. *)
LEMMA StreamFrom == TypeOK /\ Phases /\ StreamConserved /\ FromCallback => StreamConserved'
<1> SUFFICES ASSUME TypeOK, Phases, StreamConserved, FromCallback, alive' PROVE StreamConserved'
    BY DEF StreamConserved
<1>1. /\ toOut \in Seq(Units) /\ fromIn \in Seq(Units) /\ fromWire \in Seq(Units)
      /\ Received \in Seq(Units) /\ sent \in Seq(Units) /\ <<>> \in Seq(Units)
    BY DEF TypeOK, DataOK, Received
<1>8. CASE FromReset
    BY <1>8 DEF FromReset, StreamConserved, outVars, clientVars, backendVars
<1> SUFFICES ASSUME FromConnect \/ FromLocal \/ FromReject \/ FromRequest
             PROVE  StreamConserved'
    BY <1>8 DEF FromCallback
<1>2. /\ alive /\ fromWire' = <<>> /\ sent' = sent
      /\ said' = said /\ relayed' = relayed /\ toIn' = toIn /\ toWire' = toWire
    <2>1. PICK kicked : FromEvent(kicked)
        BY DEF FromConnect, FromLocal, FromReject, FromRequest
    <2>2. alive
        BY <2>1 DEF FromEvent
    <2> QED BY <2>1, <2>2 DEF FromEvent, clientVars
<1>3. said' = relayed' + toIn' + toWire'
    BY <1>2 DEF StreamConserved
<1>4. CASE FromConnect
    <2>1. /\ from_s = "handshake" /\ Received # <<>> /\ Head(Received) = "hs"
          /\ from_s' = "wait" /\ fromIn' = Tail(Received)
        BY <1>4 DEF FromConnect
    <2>2. sent = Received
        BY <1>2, <2>1 DEF StreamConserved, Received
    <2>3. /\ Tail(Received) \in Seq(Units)
          /\ Received = <<"hs">> \o Tail(Received)
        BY <1>1, <2>1, HeadTail
    <2>4. <<"hs">> \o Tail(Received) \in Seq(Units)
        BY <1>1, <2>3
    <2>5. (<<"hs">> \o Tail(Received)) \o <<>> = <<"hs">> \o Tail(Received)
        BY <2>4, ConcatEmptySeq
    <2> QED BY <1>2, <1>3, <2>1, <2>2, <2>3, <2>5 DEF StreamConserved
<1>5. CASE FromLocal
    <2>1. from_s' \in FakeStates
        <3>1. PICK r : /\ r = IF IntentOK THEN ProcessFrom(FakeState, Tail(Received))
                                          ELSE Throw("handshake", Tail(Received))
                       /\ FromEvent(r.end # "ok") /\ Apply(r)
            BY <1>5 DEF FromLocal
        <3>2. IntentOK
            BY <3>1 DEF Throw, Outcome, FromEvent, Erasing
        <3>3. Tail(Received) \in Seq(Units)
            BY <1>1, <1>5 DEF FromLocal
        <3> QED BY <3>1, <3>2, <3>3, FakeBegins DEF Apply
    <2> QED BY <1>3, <2>1 DEF StreamConserved, FakeStates
<1>6. CASE FromReject
    BY <1>6 DEF FromReject, FromEvent, Erasing
<1>7. CASE FromRequest
    <2>1. PICK r : r = ProcessFrom(from_s, Received) /\ Apply(r)
        BY <1>7 DEF FromRequest
    <2>2. CASE from_s \in FakeStates
        <3>1. from_s' \in FakeStates
            BY <2>1, <2>2, FakeStays DEF Apply
        <3> QED BY <1>3, <3>1 DEF StreamConserved, FakeStates
    <2>3. CASE from_s \in {"handshake", "wait"}
        <3>1. from_s' = from_s /\ fromIn' = Received
            BY <2>1, <2>3 DEF ProcessFrom, Return, Outcome, Apply
        <3>2. Received \o <<>> = Received
            BY <1>1, ConcatEmptySeq
        <3>3. from_s = "handshake" => sent = Received
            BY <1>2 DEF StreamConserved, Received
        <3>4. from_s = "wait" => sent = <<"hs">> \o Received
            <4>1. (<<"hs">> \o fromIn) \o fromWire = <<"hs">> \o (fromIn \o fromWire)
                BY <1>1, Associative DEF Units
            <4> QED BY <1>2, <4>1 DEF StreamConserved, Received
        <3>5. <<"hs">> \o Received \in Seq(Units)
            BY <1>1 DEF Units
        <3>6. (<<"hs">> \o Received) \o <<>> = <<"hs">> \o Received
            BY <3>5, ConcatEmptySeq
        <3> QED BY <1>2, <1>3, <2>3, <3>1, <3>2, <3>3, <3>4, <3>6 DEF StreamConserved
    <2>4. CASE from_s \in {"login", "proxy", "proxy_stable"}
        <3>1. /\ r.state \in {"login", "proxy", "proxy_stable"}
              /\ Received = r.to \o r.in
            BY <1>1, <2>1, <2>4, ProcessFromConserves
        <3>2. r.to \in Seq(Units) /\ r.in \in Seq(Units)
            BY <1>1, <2>1, ProcessFromType DEF TypeOK, ControlOK
        <3>3. sent = (toOut \o fromIn) \o fromWire
            BY <1>2, <2>4 DEF StreamConserved
        <3>4. sent = toOut \o Received
            BY <1>1, <3>3, Associative DEF Received
        <3>5. sent = (toOut \o r.to) \o r.in
            <4>1. sent = toOut \o (r.to \o r.in)
                BY <3>1, <3>4
            <4>2. (toOut \o r.to) \o r.in = toOut \o (r.to \o r.in)
                <5>1. toOut \in Seq(Units)
                    BY <1>1
                <5> QED BY <5>1, <3>2, Associative
            <4> QED BY <4>1, <4>2
        <3>6. ((toOut \o r.to) \o r.in) \o <<>> = (toOut \o r.to) \o r.in
            <4>1. (toOut \o r.to) \o r.in \in Seq(Units)
                BY <1>1, <3>2
            <4> QED BY <4>1, ConcatEmptySeq
        <3>7. from_s' = r.state /\ fromIn' = r.in /\ toOut' = toOut \o r.to
            BY <2>1 DEF Apply
        <3> QED BY <1>2, <1>3, <3>1, <3>5, <3>6, <3>7 DEF StreamConserved
    <2> QED BY <2>2, <2>3, <2>4 DEF TypeOK, ControlOK, FromStates
<1> QED BY <1>4, <1>5, <1>6, <1>7

(* The backend's callback loses and doubles no unit. *)
LEMMA StreamTo == TypeOK /\ Phases /\ StreamConserved /\ ToCallback => StreamConserved'
<1> SUFFICES ASSUME TypeOK, Phases, StreamConserved, ToCallback PROVE StreamConserved'
    OBVIOUS
<1> USE DEF ToEvent, clientVars, backendVars, outVars
<1>1. /\ toOut \in Seq(Units) /\ fromIn \in Seq(Units) /\ fromWire \in Seq(Units)
      /\ Kostil(fromIn) \in Seq(Units) /\ <<"hs">> \in Seq(Units)
      /\ toIn \in Nat /\ toWire \in Nat /\ relayed \in Nat /\ said \in Nat
    BY KostilType DEF TypeOK, DataOK, Units
<1>2. /\ alive /\ sent' = sent /\ fromWire' = fromWire /\ said' = said
      /\ toSock = "polled"
    BY DEF ToCallback, ToHup, ToErrFallback, ToErrDisconnect,
           ToOutFailed, ToEscape, ToEstablished, ToAssertFails, ToReady
<1>3. said' = relayed' + toIn' + toWire'
    <2>1. said = relayed + toIn + toWire
        BY <1>2 DEF StreamConserved
    <2>2. CASE ToHup \/ ToErrFallback \/ ToErrDisconnect \/ ToAssertFails
        BY <1>2, <2>1, <2>2 DEF ToHup, ToErrFallback, ToErrDisconnect, ToAssertFails
    <2>3. CASE ToOutFailed
        BY <1>1, <1>2, <2>1, <2>3 DEF ToOutFailed
    <2>4. CASE ToEscape
        BY <1>1, <1>2, <2>1, <2>4 DEF ToEscape
    <2>5. CASE ToEstablished
        BY <1>1, <1>2, <2>1, <2>5 DEF ToEstablished
    <2>6. CASE ToReady
        BY <1>1, <1>2, <2>1, <2>6 DEF ToReady
    <2> QED BY <2>2, <2>3, <2>4, <2>5, <2>6 DEF ToCallback
<1>4. CASE ToHup \/ ToErrFallback \/ ToOutFailed
    <2>1. from_s' \in FakeStates
        BY <1>1, <1>4, FakeStateType, FallbackStep DEF ToHup, ToOutFailed
    <2> QED BY <1>3, <2>1 DEF StreamConserved, FakeStates
<1>5. CASE ToErrDisconnect \/ ToEscape \/ ToAssertFails
    <2>1. from_s' = from_s /\ fromIn' = fromIn /\ toOut' = toOut
        BY <1>5 DEF ToErrDisconnect, ToEscape, ToAssertFails
    <2> QED BY <1>2, <1>3, <2>1 DEF StreamConserved
<1>6. CASE ToEstablished
    <2>1. PICK r : /\ r = FirstRequest
                   /\ from_s' = r.state /\ fromIn' = r.in
                   /\ toOut' = toOut \o <<"hs">> \o r.to
        BY <1>6 DEF ToEstablished
    <2>2. StateAfterHandshake \in {"login", "proxy", "proxy_stable"}
        BY DEF StateAfterHandshake
    <2>3. /\ r.state \in {"login", "proxy", "proxy_stable"}
          /\ fromIn = r.to \o r.in
        BY <1>1, <2>1, <2>2, ProcessFromConserves DEF FirstRequest
    <2>4. r.to \in Seq(Units) /\ r.in \in Seq(Units)
        BY <1>1, <2>1, <2>2, ProcessFromType DEF FirstRequest, FromStates
    <2>5. from_s = "wait" /\ toOut = <<>>
        <3>1. to_s = "connect"
            BY <1>6 DEF ToEstablished, ConnectDone
        <3> QED BY <1>2, <3>1 DEF Phases, FakeStates
    <2>6. sent = (<<"hs">> \o (r.to \o r.in)) \o fromWire
        BY <1>2, <2>3, <2>5 DEF StreamConserved
    <2>7. toOut' = <<"hs">> \o r.to
        BY <1>1, <2>1, <2>5, ConcatEmptySeq
    <2>8. <<"hs">> \o (r.to \o r.in) = (<<"hs">> \o r.to) \o r.in
        BY <1>1, <2>4, Associative
    <2>9. sent = (toOut' \o fromIn') \o fromWire
        BY <2>1, <2>6, <2>7, <2>8
    <2> QED BY <1>2, <1>3, <2>1, <2>3, <2>9 DEF StreamConserved
<1>7. CASE ToReady
    <2>1. /\ from_s' = "proxy_stable" /\ fromIn' = <<>> /\ toOut' = toOut \o fromIn
        BY <1>7 DEF ToReady, Apply, FromProxy, Outcome
    <2>2. from_s \in {"login", "proxy", "proxy_stable"}
        <3>1. to_s \in {"proxy", "proxy_stable"}
            BY <1>7 DEF ToReady
        <3> QED BY <1>2, <3>1 DEF Phases, TypeOK, ControlOK, FromStates
    <2>3. sent = (toOut \o fromIn) \o fromWire
        BY <1>2, <2>2 DEF StreamConserved
    <2>4. (toOut \o fromIn) \o <<>> = toOut \o fromIn
        <3>1. toOut \o fromIn \in Seq(Units)
            BY <1>1
        <3> QED BY <3>1, ConcatEmptySeq
    <2> QED BY <1>2, <1>3, <2>1, <2>3, <2>4 DEF StreamConserved
<1> QED BY <1>4, <1>5, <1>6, <1>7 DEF ToCallback

(* Neither do on_timeout, epoll_wait and the peers. *)
LEMMA StreamOther ==
    TypeOK /\ StreamConserved /\ (TimerCallback \/ PollTo \/ Environment) => StreamConserved'
<1> SUFFICES ASSUME TypeOK, StreamConserved, TimerCallback \/ PollTo \/ Environment
             PROVE StreamConserved'
    OBVIOUS
<1> USE DEF portalVars, outVars, clientVars, backendVars
<1>1. /\ toOut \in Seq(Units) /\ fromIn \in Seq(Units) /\ fromWire \in Seq(Units)
      /\ sent \in Seq(Units) /\ <<"hs">> \in Seq(Units)
    BY DEF TypeOK, DataOK, Units
<1>2. CASE OnTimeout
    <2>1. said' = said /\ relayed' = relayed /\ toIn' = toIn /\ toWire' = toWire /\ alive
        BY <1>2 DEF OnTimeout
    <2>2. CASE to_s = "connect" /\ IntentOK
        <3>1. from_s' \in FakeStates
            BY <1>1, <1>2, <2>2, FakeBegins DEF OnTimeout, Apply
        <3> QED BY <2>1, <3>1 DEF StreamConserved, FakeStates
    <2>3. CASE ~(to_s = "connect" /\ IntentOK)
        BY <1>2, <2>3 DEF OnTimeout, StreamConserved
    <2> QED BY <2>2, <2>3
<1>3. CASE StaleTimeout
    BY <1>3 DEF StaleTimeout, StreamConserved
<1>4. CASE PollTo
    BY <1>4 DEF PollTo, StreamConserved
<1>5. ASSUME NEW u \in Units, ClientSend(u) PROVE StreamConserved'
    <2>1. /\ sent' = sent \o <<u>> /\ fromWire' = fromWire \o <<u>>
          /\ alive /\ UNCHANGED <<from_s, fromIn, toOut, said, relayed, toIn, toWire>>
        BY <1>1, <1>5, AppendIsConcat DEF ClientSend
    <2>2. <<u>> \in Seq(Units)
        OBVIOUS
    <2>3. /\ (fromIn \o fromWire) \o <<u>> = fromIn \o (fromWire \o <<u>>)
          /\ ((<<"hs">> \o fromIn) \o fromWire) \o <<u>> = (<<"hs">> \o fromIn) \o (fromWire \o <<u>>)
          /\ ((toOut \o fromIn) \o fromWire) \o <<u>> = (toOut \o fromIn) \o (fromWire \o <<u>>)
        <3>1. <<"hs">> \o fromIn \in Seq(Units) /\ toOut \o fromIn \in Seq(Units)
            BY <1>1
        <3>2. \A a \in Seq(Units) : (a \o fromWire) \o <<u>> = a \o (fromWire \o <<u>>)
            <4> TAKE a \in Seq(Units)
            <4> QED BY <1>1, <2>2, Associative
        <3>3. (fromIn \o fromWire) \o <<u>> = fromIn \o (fromWire \o <<u>>)
            BY <1>1, <3>2, Zenon
        <3>4. ((<<"hs">> \o fromIn) \o fromWire) \o <<u>> = (<<"hs">> \o fromIn) \o (fromWire \o <<u>>)
            <4> DEFINE a == <<"hs">> \o fromIn
            <4>1. a \in Seq(Units)
                BY <3>1
            <4> HIDE DEF a
            <4>2. (a \o fromWire) \o <<u>> = a \o (fromWire \o <<u>>)
                BY <3>2, <4>1
            <4> QED BY <4>2 DEF a
        <3>5. ((toOut \o fromIn) \o fromWire) \o <<u>> = (toOut \o fromIn) \o (fromWire \o <<u>>)
            <4> DEFINE a == toOut \o fromIn
            <4>1. a \in Seq(Units)
                BY <3>1
            <4> HIDE DEF a
            <4>2. (a \o fromWire) \o <<u>> = a \o (fromWire \o <<u>>)
                BY <3>2, <4>1
            <4> QED BY <4>2 DEF a
        <3> QED BY <3>3, <3>4, <3>5
    <2>4. from_s = "handshake" => sent \o <<u>> = fromIn \o (fromWire \o <<u>>)
        BY <2>1, <2>3 DEF StreamConserved
    <2>5. from_s = "wait" => sent \o <<u>> = (<<"hs">> \o fromIn) \o (fromWire \o <<u>>)
        BY <2>1, <2>3 DEF StreamConserved
    <2>6. from_s \in {"login", "proxy", "proxy_stable"} =>
                sent \o <<u>> = (toOut \o fromIn) \o (fromWire \o <<u>>)
        BY <2>1, <2>3 DEF StreamConserved
    <2> QED BY <2>1, <2>4, <2>5, <2>6 DEF StreamConserved
<1>6. ASSUME NEW how \in {"fin", "rst"}, ClientLeave(how) PROVE StreamConserved'
    BY <1>6 DEF ClientLeave, StreamConserved
<1>7. ASSUME NEW to \in BackendStates, BackendMove(to) PROVE StreamConserved'
    BY <1>7 DEF BackendMove, StreamConserved
<1>8. CASE BackendSay
    <2>1. /\ UNCHANGED <<from_s, fromIn, fromWire, toOut, sent, alive, relayed, toIn>>
          /\ said' = said + 1 /\ toWire' = toWire + 1 /\ alive
        BY <1>8 DEF BackendSay
    <2>2. said' = relayed' + toIn' + toWire'
        BY <2>1 DEF StreamConserved, TypeOK, DataOK
    <2> QED BY <2>1, <2>2 DEF StreamConserved
<1> QED BY <1>2, <1>3, <1>4, <1>5, <1>6, <1>7, <1>8 DEF TimerCallback, Environment

(* StreamConserved is inductive, given the types and Phases. *)
LEMMA StreamStep == TypeOK /\ Phases /\ StreamConserved /\ [Next]_vars => StreamConserved'
<1>1. StreamConserved /\ UNCHANGED vars => StreamConserved'
    BY DEF StreamConserved, vars, portalVars, outVars, clientVars, backendVars
<1> QED BY <1>1, StreamFrom, StreamTo, StreamOther DEF Next

(* Whatever the order of events, every unit either side has said is passed *)
(* on once and in order, or still waits in a buffer of its connection.     *)
THEOREM StreamsConserved == Spec => []StreamConserved
<1> QED BY TypeCorrect, PhasesHold, StreamInit, StreamStep, PTL DEF Spec

-----------------------------------------------------------------------------
(* The assertion of to_send_new_hs, for clients that keep to the protocol  *)

Polite == Intents \subseteq {1, 2} /\ ~Malformed

(* What such a client has sent. *)
Orderly ==
    \A i \in 1..Len(sent) : /\ i = 1 => sent[i] = "hs"
                            /\ i = 2 => sent[i] = "first"
                            /\ i = 3 => sent[i] = "rest"
                            /\ i > 3 => sent[i] = "more"

AssertInv == Orderly /\ Dialling /\ AssertHolds

(* set_from_state_by_hs never throws for a polite client. *)
LEMMA PoliteIntent == Polite /\ TypeOK => IntentOK
BY DEF Polite, TypeOK, ControlOK, IntentOK

(* A polite client sends its packets in the order of the protocol. *)
LEMMA OrderlyStep == Polite /\ TypeOK /\ Orderly /\ [Next]_vars => Orderly'
<1> SUFFICES ASSUME Polite, TypeOK, Orderly, [Next]_vars PROVE Orderly'
    OBVIOUS
<1>1. ASSUME NEW u \in Units, ClientSend(u) PROVE Orderly'
    <2>1. PICK n \in Nat : Len(sent) = n
        BY DEF TypeOK, DataOK
    <2>2. /\ sent' = Append(sent, u)
          /\ Len(sent') = n + 1
          /\ \A i \in 1..n : sent'[i] = sent[i]
          /\ sent'[n + 1] = u
        BY <1>1, <2>1, AppendProperties DEF ClientSend, TypeOK, DataOK
    <2>3. /\ n = 0 => u = "hs"
          /\ n = 1 => u = "first"
          /\ n = 2 => u = "rest"
          /\ n > 2 => u = "more"
        <3>1. MaySend(u) /\ ~Malformed
            BY <1>1 DEF ClientSend, Polite
        <3>2. CASE n = 0
            <4>1. sent = <<>>
                BY <2>1, <3>2, EmptySeq DEF TypeOK, DataOK
            <4> QED BY <3>1, <3>2, <4>1 DEF MaySend
        <3>3. CASE n >= 1
            <4>1. sent # <<>>
                BY <2>1, <3>3, NotEmpty DEF TypeOK, DataOK
            <4>2. PICK last : last = sent[n]
                OBVIOUS
            <4>3. /\ last = "hs" => u = "first"
                  /\ last = "first" => u = "rest"
                  /\ last \in {"rest", "more"} => u = "more"
                BY <2>1, <3>1, <4>1, <4>2 DEF MaySend
            <4>4. n \in 1..n
                BY <3>3
            <4>5. /\ n = 1 => last = "hs"
                  /\ n = 2 => last = "first"
                  /\ n = 3 => last = "rest"
                  /\ n > 3 => last = "more"
                BY <2>1, <4>2, <4>4 DEF Orderly
            <4> QED BY <3>3, <4>3, <4>5
        <3> QED BY <3>2, <3>3
    <2>4. ASSUME NEW i \in 1..(n + 1)
          PROVE  /\ i = 1 => sent'[i] = "hs"
                 /\ i = 2 => sent'[i] = "first"
                 /\ i = 3 => sent'[i] = "rest"
                 /\ i > 3 => sent'[i] = "more"
        <3>1. CASE i \in 1..n
            BY <2>1, <2>2, <3>1 DEF Orderly
        <3>2. CASE i = n + 1
            <4>1. sent'[i] = u
                BY <2>2, <3>2
            <4> QED BY <2>3, <3>2, <4>1
        <3> QED BY <3>1, <3>2
    <2> QED BY <2>2, <2>4 DEF Orderly
<1>2. CASE UNCHANGED sent
    BY <1>2 DEF Orderly
<1>3. CASE FromCallback
    BY <1>2, <1>3 DEF FromCallback, FromConnect, FromLocal, FromReject, FromRequest, FromReset,
                      FromEvent, clientVars
<1>4. CASE ToCallback
    BY <1>2, <1>4 DEF ToCallback, ToHup, ToErrFallback, ToErrDisconnect, ToOutFailed, ToEscape,
                      ToEstablished, ToAssertFails, ToReady, ToEvent, clientVars
<1>5. CASE TimerCallback \/ PollTo
    BY <1>2, <1>5 DEF TimerCallback, OnTimeout, StaleTimeout, PollTo, clientVars
<1>6. CASE Environment
    BY <1>1, <1>2, <1>6 DEF Environment, ClientLeave, BackendMove, BackendSay, clientVars
<1>7. CASE UNCHANGED vars
    BY <1>2, <1>7 DEF vars, clientVars
<1> QED BY <1>3, <1>4, <1>5, <1>6, <1>7 DEF Next

(* The login of such a client, whole or not, does not make from_login throw. *)
LEMMA FirstRequestReturns ==
    ASSUME Polite, TypeOK, Orderly, alive, from_s = "wait", StreamConserved
    PROVE  FirstRequest.end # "throw"
<1>1. /\ fromIn \in Seq(Units) /\ fromWire \in Seq(Units) /\ <<"hs">> \in Seq(Units)
      /\ Len(fromIn) \in Nat /\ Len(fromWire) \in Nat
    BY DEF TypeOK, DataOK, Units
<1>2. sent = (<<"hs">> \o fromIn) \o fromWire
    BY DEF StreamConserved
<1>3. /\ Len(sent) = 1 + Len(fromIn) + Len(fromWire)
      /\ \A i \in 1..Len(fromIn) : sent[i + 1] = fromIn[i]
    <2>1. /\ <<"hs">> \o fromIn \in Seq(Units)
          /\ Len(<<"hs">> \o fromIn) = 1 + Len(fromIn)
          /\ \A i \in 1..Len(fromIn) : (<<"hs">> \o fromIn)[i + 1] = fromIn[i]
        BY <1>1
    <2>2. /\ Len(sent) = Len(<<"hs">> \o fromIn) + Len(fromWire)
          /\ \A i \in 1..Len(<<"hs">> \o fromIn) : sent[i] = (<<"hs">> \o fromIn)[i]
        BY <1>1, <1>2, <2>1, ConcatProperties
    <2> QED BY <1>1, <2>1, <2>2
<1>4. ASSUME Len(fromIn) >= 2 PROVE SecondPacket(fromIn)
    <2>1. sent[2] = "first" /\ sent[3] = "rest"
        BY <1>1, <1>3, <1>4 DEF Orderly
    <2> QED BY <1>1, <1>3, <1>4, <2>1 DEF SecondPacket
<1>5. ASSUME Len(fromIn) = 1 PROVE fromIn = <<"first">>
    <2>1. sent[2] = "first"
        BY <1>1, <1>3, <1>5 DEF Orderly
    <2>2. fromIn[1] = "first"
        BY <1>3, <1>5, <2>1
    <2>3. <<"first">> \in Seq(Units) /\ Len(<<"first">>) = 1
        BY DEF Units
    <2> QED BY <1>1, <1>5, <2>2, <2>3, SeqEqual
<1>6. ASSUME Len(fromIn) = 0 PROVE fromIn = <<>>
    BY <1>1, <1>6, EmptySeq
<1>7. NoLogin(fromIn) \/ SecondPacket(fromIn)
    <2> \A n \in Nat : n = 0 \/ n = 1 \/ n >= 2
        OBVIOUS
    <2>1. Len(fromIn) = 0 \/ Len(fromIn) = 1 \/ Len(fromIn) >= 2
        BY <1>1, Zenon
    <2>2. fromIn \in {<<>>, <<"first">>} \/ SecondPacket(fromIn)
        BY <2>1, <1>4, <1>5, <1>6, Zenon
    <2> QED BY <2>2 DEF NoLogin, Short
<1>8. CASE StateAfterHandshake = "login"
    BY <1>7, <1>8 DEF FirstRequest, ProcessFrom, FromLogin, Return, Outcome
<1>9. CASE StateAfterHandshake = "proxy"
    BY <1>9 DEF FirstRequest, ProcessFrom, FromProxy, Outcome
<1> QED BY <1>8, <1>9 DEF StateAfterHandshake

(* For a polite client, a connect that is pending has its timer pending. *)
LEMMA DiallingStep ==
    Polite /\ TypeOK /\ Phases /\ Dialling /\ [Next]_vars => Dialling'
<1> SUFFICES ASSUME Polite, TypeOK, Phases, Dialling, [Next]_vars PROVE Dialling'
    OBVIOUS
<1> USE DEF portalVars
<1>1. IntentOK
    BY PoliteIntent
<1>2. CASE FromCallback
    BY <1>2 DEF FromCallback, FromConnect, FromLocal, FromReject, FromRequest, FromReset,
                FromEvent, ToSockUnlessErased, CloseTo, Later, Dialling
<1>3. CASE ToCallback
    BY <1>1, <1>3 DEF ToCallback, ToHup, ToErrFallback, ToErrDisconnect, ToOutFailed, ToEscape,
                ToEstablished, ToAssertFails, ToReady, ToEvent, CloseTo, Dialling
<1>4. CASE TimerCallback
    BY <1>1, <1>4 DEF TimerCallback, OnTimeout, StaleTimeout, CloseTo, Dialling
<1>5. CASE PollTo \/ Environment
    BY <1>5 DEF PollTo, Environment, ClientSend, ClientLeave, BackendMove, BackendSay, Dialling
<1>6. CASE UNCHANGED vars
    BY <1>6 DEF vars, Dialling
<1> QED BY <1>2, <1>3, <1>4, <1>5, <1>6 DEF Next

(* The backend's callback never finds the timer gone: the step of AssertHolds. *)
LEMMA AssertStep ==
    Polite /\ TypeOK /\ Phases /\ StreamConserved /\ AssertInv /\ [Next]_vars => AssertHolds'
<1> SUFFICES ASSUME Polite, TypeOK, Phases, StreamConserved, AssertInv, [Next]_vars
             PROVE AssertHolds'
    OBVIOUS
<1> USE DEF portalVars
<1>1. ASSUME ToAssertFails PROVE FALSE
    <2>1. /\ alive /\ toSock = "polled" /\ to_s = "connect"
          /\ timer # "armed" \/ FirstRequest.end = "throw"
        BY <1>1 DEF ToAssertFails, ToEvent, ConnectDone
    <2>2. timer = "armed"
        BY <2>1 DEF AssertInv, Dialling
    <2>3. from_s = "wait"
        BY <2>1 DEF Phases
    <2> QED BY <2>1, <2>2, <2>3, FirstRequestReturns DEF AssertInv
<1>2. CASE FromCallback
    BY <1>2 DEF FromCallback, FromConnect, FromLocal, FromReject, FromRequest, FromReset,
                FromEvent, AssertInv, AssertHolds
<1>3. CASE ToCallback
    BY <1>1, <1>3 DEF ToCallback, ToHup, ToErrFallback, ToErrDisconnect, ToOutFailed, ToEscape,
                ToEstablished, ToReady, AssertInv, AssertHolds
<1>4. CASE TimerCallback
    BY <1>4 DEF TimerCallback, OnTimeout, StaleTimeout, AssertInv, AssertHolds
<1>5. CASE PollTo \/ Environment
    BY <1>5 DEF PollTo, Environment, ClientSend, ClientLeave, BackendMove, BackendSay,
                AssertInv, AssertHolds
<1>6. CASE UNCHANGED vars
    BY <1>6 DEF vars, AssertInv, AssertHolds
<1> QED BY <1>2, <1>3, <1>4, <1>5, <1>6 DEF Next

(* The strengthened invariant holds of a portal just made. *)
LEMMA AssertInit == Init => AssertInv
<1> SUFFICES ASSUME Init PROVE AssertInv
    OBVIOUS
<1>1. Len(sent) = 0
    BY EmptySeq DEF Init
<1>2. Orderly
    BY <1>1 DEF Orderly
<1>3. Dialling /\ AssertHolds
    BY DEF Init, Dialling, AssertHolds
<1> QED BY <1>2, <1>3 DEF AssertInv

(* While the connect of such a client is pending, its timer is. *)
THEOREM DialsAreTimed == ASSUME Polite PROVE Spec => []Dialling
<1>1. Init => Dialling
    BY AssertInit DEF AssertInv
<1>2. TypeOK /\ Phases /\ Dialling /\ [Next]_vars => Dialling'
    BY DiallingStep
<1> QED BY <1>1, <1>2, TypeCorrect, PhasesHold, PTL DEF Spec

(* When every client asks for status or login in well-formed packets, the   *)
(* assertion of to_send_new_hs never fails, whatever the backends do.       *)
THEOREM AssertionHolds == ASSUME Polite PROVE Spec => []AssertHolds
<1>1. TypeOK /\ Phases /\ StreamConserved /\ AssertInv /\ [Next]_vars => AssertInv'
    BY OrderlyStep, DiallingStep, AssertStep DEF AssertInv
<1>2. AssertInv => AssertHolds
    BY DEF AssertInv
<1> QED BY <1>1, <1>2, AssertInit, TypeCorrect, PhasesHold, StreamsConserved, PTL DEF Spec

=============================================================================
