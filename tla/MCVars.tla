------------------------------- MODULE MCVars -------------------------------
(* A small instance of Vars for TLC. *)
EXTENDS Vars

SomeWords == {"main", "var", "hs", "env", "img", "file", "uuid", "port", "x", "icon", "s"}

Unit(u) == [kind |-> "unit", unit |-> u]
Ref(style, ns, name) == [kind |-> style, ns |-> ns, name |-> name]

(* Parts of templates: units of every kind, all namespaces and an unknown   *)
(* one, names that are there and not, empty, with spaces or brackets.       *)
SomeParts ==
    {Unit(u) : u \in {"$", "open", "close", "space", "x", "."}} \cup {[kind |-> "dollar"]}
    \cup {Ref("bare", <<>>, <<"uuid">>), Ref("bare", <<"hs">>, <<"port">>),
          Ref("bare", <<"x">>, <<"x">>)}
    \cup {Ref("braced", <<>>, <<>>), Ref("braced", <<"var">>, <<"x">>),
          Ref("braced", <<>>, <<"open", "x", "close">>), Ref("braced", <<"file">>, <<"/", "s", "/", "x">>),
          Ref("braced", <<"img">>, <<"/", "icon">>)}
    \cup {Ref("spaced", <<"env">>, <<"x">>), Ref("spaced", <<"file">>, <<"x">>),
          Ref("spaced", <<"hs">>, <<"x", "space", "x">>), Ref("spaced", <<"img">>, <<"icon">>)}

Bytes == {0, 63, 103, 104, 207, 208, 247, 248, 255}

SomeInputs ==
    {[template |-> t, image |-> <<255>>] :
        t \in {t \in UNION {[1..n -> SomeParts] : n \in 0..3} : Clear(t)}}
    \cup {[template |-> <<Ref("braced", <<"img">>, <<"/", "icon">>)>>, image |-> b] :
              b \in UNION {[1..n -> Bytes] : n \in 0..4}}

Server == <<"s">>
SomeVars == (<<"x">> :> <<"$", "hs", ":", "port">>)
SomeEnvironment == (<<"x">> :> <<"an", "x">>)
SomeFiles == (<<"s", "/", "x">> :> <<"text">>)

=============================================================================
