----------------------------- MODULE MCWorkers -----------------------------
(* A small instance of Workers for TLC. *)
EXTENDS Workers

TwoWorkers == {"w1", "w2"}
TwoClients == {"c1", "c2"}
(* Both clients on one worker: their events share its batches. *)
OnOne == {[c \in Client |-> "w1"]}
TwoPorts == {1, 2}

=============================================================================
