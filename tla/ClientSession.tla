------------------------------ MODULE ClientSession -------------------------------
(***************************************************************************)
(* What one client connection of MCSHub promises, seen from the client:    *)
(* the connection is decided once.  Either the backend server answers, or  *)
(* the hub answers in the backend's place (the fake status or the fake     *)
(* login of README and mcshub.yml); the hub may still take a connection    *)
(* over from a backend that has not said anything yet, but a client that   *)
(* has heard one of the two never hears the other.                         *)
(*                                                                         *)
(* Portal.tla is shown to implement this specification.                    *)
(***************************************************************************)

VARIABLES
    mode,         \* who has the connection
    backendHeard, \* has the client been sent anything the backend said?
    hubHeard      \* has the client been sent an answer made by the hub?

Modes == {"new", "connecting", "backend", "hub", "closed"}

sessionVars == <<mode, backendHeard, hubHeard>>

TypeOK ==
    /\ mode \in Modes
    /\ backendHeard \in BOOLEAN
    /\ hubHeard \in BOOLEAN

Init ==
    /\ mode = "new"
    /\ backendHeard = FALSE
    /\ hubHeard = FALSE

-----------------------------------------------------------------------------

(* A backend server is found for the client and the hub dials it. *)
Dial ==
    /\ mode = "new"
    /\ mode' = "connecting"
    /\ UNCHANGED <<backendHeard, hubHeard>>

(* The backend has the connection; what it says goes to the client. *)
Relay ==
    /\ mode \in {"connecting", "backend"}
    /\ ~hubHeard
    /\ mode' = "backend"
    /\ backendHeard' \in BOOLEAN
    /\ backendHeard => backendHeard'
    /\ UNCHANGED hubHeard

(* The hub takes the connection over and may answer, and hang up after it. *)
Stand ==
    /\ mode # "closed"
    /\ ~backendHeard
    /\ mode' \in {"hub", "closed"}
    /\ hubHeard' \in BOOLEAN
    /\ hubHeard => hubHeard'
    /\ UNCHANGED backendHeard

Close ==
    /\ mode' = "closed"
    /\ UNCHANGED <<backendHeard, hubHeard>>

Next == Dial \/ Relay \/ Stand \/ Close

Spec == Init /\ [][Next]_sessionVars

-----------------------------------------------------------------------------

(* The client never hears both the backend and the hub. *)
OneVoice == ~(backendHeard /\ hubHeard)

=============================================================================
