------------------------------- MODULE MCTunnel -------------------------------
(* A small instance of Tunnel for TLC. *)
EXTENDS Tunnel

FewFromClient == [from |-> 2, to |-> 3]

=============================================================================
