--------------------------------- MODULE Pipe ---------------------------------
(***************************************************************************)
(* What the hub promises for one direction of a proxied connection: what   *)
(* one peer sends reaches the other, in order and unchanged, until the     *)
(* connection is cut.                                                      *)
(***************************************************************************)
EXTENDS Naturals, Sequences

CONSTANT Bound \* bound: units that are sent

VARIABLES
    sent, \* what the one peer has sent
    got,  \* what has reached the other
    cut   \* one of the peers, or the hub, has ended the connection

vars == <<sent, got, cut>>

Init == got = <<>> /\ cut = FALSE

Send ==
    /\ \E unit \in 1..Bound : sent' = Append(sent, unit)
    /\ UNCHANGED <<got, cut>>

Deliver ==
    /\ Len(got) < Len(sent)
    /\ got' = Append(got, sent[Len(got) + 1])
    /\ UNCHANGED <<sent, cut>>

Cut == cut' = TRUE /\ UNCHANGED <<sent, got>>

Next == Send \/ Deliver \/ Cut

(* As long as nobody cuts the connection, whatever was sent arrives. *)
Arrives == \A n \in 1..Bound : (Len(sent) >= n) ~> (Len(got) >= n \/ cut)

Spec == Init /\ [][Next]_vars /\ Arrives

=============================================================================
