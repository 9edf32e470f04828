------------------------------- MODULE MCDial -------------------------------
(* A small instance of Dial for TLC. *)
EXTENDS Dial, TLC

TwoWorkers == {"w1", "w2"}
TwoAddresses == {"addr1", "addr2"}
NoDomain == <<>>
ArgumentD == <<"d">>

ThreeChars == {"a", "d", "."}

(* All names of up to four characters of an alphabet of three. *)
ShortNames == UNION {[1..k -> Char] : k \in 0..4}
(* The names that are dialled: a server, it with the domain, and mcsman's. *)
SomeNames == {<<"a">>, <<"a", ".", "d">>, <<"d">>}

Basic(address, port, mcsman) == [address |-> address, port |-> port, drop |-> FALSE, mcsman |-> mcsman]
Plain(basic) == [plain |-> basic, fml |-> {}]

Local == Basic(<<>>, 1, FALSE)
Mcs == Basic(<<"m">>, 1, TRUE)
(* The server "a" on either port of one host, which may be written with a  *)
(* dot; modded clients are dropped, or get another host.                   *)
OnPort(p) == [plain |-> Basic(<<"h">>, p, FALSE), fml |-> {[Local EXCEPT !.drop = TRUE]}]
WithDot == [plain |-> Basic(<<"h", ".">>, 1, FALSE), fml |-> {Basic(<<"g">>, 1, FALSE)}]

Conf(domain, dns_cache, a) ==
    [domain |-> domain, dns_cache |-> dns_cache, default_server |-> Plain(Local),
     servers |-> (<<"a">> :> a) @@ (<<"d">> :> Plain(Mcs))]

SomeConfs == {
    Conf({}, TRUE, OnPort(1)), Conf({<<"d">>}, TRUE, OnPort(2)),
    Conf({<<"d", ".">>}, TRUE, WithDot), Conf({<<".">>}, FALSE, WithDot)}

=============================================================================
