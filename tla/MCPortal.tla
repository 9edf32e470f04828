------------------------------ MODULE MCPortal ------------------------------
(* Values of Portal's constants for TLC. *)
EXTENDS Portal

AllRoutes == {"drop", "local", "backend"}
Known == {1, 2}      \* status and login
Unknown == {3}       \* a next state the hub has no answer for
AnyIntent == Known \cup Unknown

=============================================================================
