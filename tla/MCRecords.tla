------------------------------ MODULE MCRecords ------------------------------
(* A small instance of Records for TLC. *)
EXTENDS Records

OneOrTwo == {"one", "two"}
TwoAddresses == {"a1", "a2"}
TwoPorts == {"p0", "p1"}
SomeDomains == {"", ".d", "bad", "worse"}
TwoRefused == {"bad", "worse"}
SomeArguments == {"", "worse"}

Absent == [kind |-> "absent", address |-> "unset", port |-> "unset"]
Map(address, port) == [kind |-> "map", address |-> address, port |-> port]
WithFml(node, fml) ==
    [kind |-> node.kind, address |-> node.address, port |-> node.port, fml |-> fml]
Only(node) == WithFml(node, Absent)
Word(word) == [kind |-> word, address |-> "unset", port |-> "unset"]

(* Files of a server: none, maps with and without a port, dropped, for      *)
(* modded clients, and one that breaks off.                                *)
SomeConf == {
    Only(Absent), Only(Word("drop")),
    Only(Map("a1", "p1")), WithFml(Map("unset", "unset"), Word("true")),
    WithFml(Map("a2", "p1"), Map("a1", "unset")),
    WithFml(Map("a1", "unset"), Word("drop")),
    Only(Map("a2", "bad"))}

MainFile(domain, default, one) ==
    [domain |-> domain, default |-> default,
     servers |-> [n \in Names |-> IF n = "one" THEN one ELSE Only(Absent)]]

(* Main files: with nothing in it, one of each section, and broken ones. *)
SomeMain == {
    MainFile("unset", Only(Absent), Only(Absent)),
    MainFile(".d", WithFml(Map("unset", "p1"), Word("false")), WithFml(Map("a1", "p1"), Word("drop"))),
    MainFile("bad", Only(Absent), Only(Map("a1", "unset"))),
    MainFile("unset", Only(Map("a2", "unset")), WithFml(Map("a1", "unset"), Word("scalar"))),
    MainFile("unset", Only(Map("a2", "bad")), Only(Absent))}

TwoForms == {[address |-> "a2", port |-> "p0", drop |-> FALSE],
             [address |-> "", port |-> "p1", drop |-> FALSE]}

=============================================================================
