-------------------------------- MODULE Vars --------------------------------
(***************************************************************************)
(* The variables of status and login texts (src/response_props.hpp and     *)
(* .cpp): vars_manager::resolve, which scans a text for "$$", "$name" and  *)
(* "${ ns : name }", one turn of its loop in each action, and the          *)
(* namespaces.                                                             *)
(*                                                                         *)
(* A text is a sequence of units: a word of letters and digits, one of     *)
(* $ : / { } and the space (here "open", "close" and "space"), or another  *)
(* character.  A text is what a template renders to, whose brackets are    *)
(* closed, and it is a std::string with a NUL behind it.  A path is a      *)
(* sequence of units, too.                                                 *)
(***************************************************************************)
EXTENDS Integers, SequencesExt

CONSTANTS
    Words,       \* words of letters, digits and _
    Parts,       \* what templates are made of
    Inputs,      \* templates, each with the content of the image file
    ServerName,  \* server_name of the portal, a path
    RecordVars,  \* vars of the record: texts by name
    Environment, \* the environment: texts by name
    TextFiles    \* files that can be read, but for the image: texts by path

ImagePath == <<"icon">>

(* A template is what its author means: units that stand for themselves,   *)
(* dollars, and references to variables in one of three styles.            *)
Styles == {"bare", "braced", "spaced"}
Joined(t) == (IF t.ns = <<>> THEN <<>> ELSE t.ns \o <<":">>) \o t.name
Render(t) ==
    CASE t.kind = "unit" -> <<t.unit>>
      [] t.kind = "dollar" -> <<"$", "$">>
      [] t.kind = "bare" -> <<"$">> \o Joined(t)
      [] t.kind = "braced" -> <<"$", "open">> \o Joined(t) \o <<"close">>
      [] t.kind = "spaced" ->
            <<"$", "open", "space">> \o t.ns \o <<"space", ":", "space">> \o t.name \o <<"space", "close">>
TextOf(template) == FlattenSeq([k \in DOMAIN template |-> Render(template[k])])

isvar(unit) == unit \in Words \cup {":"}

(* A reader of the text can tell a bare name from what follows it, and a   *)
(* dollar that stands for itself from a variable.                          *)
Clear(template) ==
    \A k \in 1..(Len(template) - 1) :
        LET next == Render(template[k + 1])[1]
        IN /\ template[k].kind = "bare" => ~isvar(next)
           /\ template[k].kind = "unit" /\ template[k].unit = "$" =>
                  ~isvar(next) /\ next \notin {"$", "open"}

(* A name has no spaces around it, which are trimmed, its brackets are     *)
(* closed, and a bare one ends where its words do.  One without a          *)
(* namespace has no ":", which would make it one.                          *)
Count(unit, string) == Cardinality({k \in DOMAIN string : string[k] = unit})
Closed(string) ==
    /\ Count("open", string) = Count("close", string)
    /\ \A n \in 0..Len(string) :
            Count("open", SubSeq(string, 1, n)) >= Count("close", SubSeq(string, 1, n))

Named(t) ==
    /\ t.ns = <<>> \/ \E word \in Words : t.ns = <<word>>
    /\ t.name \in Seq(STRING) /\ Closed(t.name)
    /\ t.name # <<>> => t.name[1] # "space" /\ t.name[Len(t.name)] # "space"
    /\ t.ns = <<>> => t.kind # "spaced" /\ \A k \in DOMAIN t.name : t.name[k] # ":"
    /\ t.kind = "bare" => Joined(t) # <<>> /\ \A k \in DOMAIN t.name : isvar(t.name[k])

ASSUME VarsAssumption ==
    /\ Words \subseteq STRING \ {"$", ":", "/", "open", "close", "space", "NUL"}
    /\ \A t \in Parts :
           \/ t.kind = "unit" /\ t.unit \in STRING
           \/ t.kind = "dollar"
           \/ t.kind \in Styles /\ Named(t)
    /\ \A input \in Inputs :
           /\ input.template \in Seq(Parts) /\ Clear(input.template)
           /\ input.image \in Seq(0..255)
    /\ ServerName \in Seq(STRING) /\ DOMAIN TextFiles \subseteq Seq(STRING)
    /\ \A texts \in {RecordVars, Environment, TextFiles} :
           \A x \in DOMAIN texts : texts[x] \in Seq(STRING)

VARIABLES
    template, text,  \* the text, by what it means and as it is written
    image,           \* the bytes of the image file
    i, j,            \* resolve's place in the text, and the end of what is in result
    result,          \* resolve's pieces, put together
    done             \* resolve has returned

given == <<template, text, image>>
vars == <<given, i, j, result, done>>

str(k) == IF k < Len(text) THEN text[k + 1] ELSE "NUL"

(* A string is given by where it begins and its length. *)
String(at, size) == SubSeq(text, at + 1, at + size)

-----------------------------------------------------------------------------
(* The namespaces *)

nothing == <<"no_value">>

Lookup(texts, name) == IF name \in DOMAIN texts THEN texts[name] ELSE nothing

main_vars(name) == IF name = <<"uuid">> THEN <<"random_uuid">> ELSE nothing

Handshake == [name \in {<<"version">>, <<"address">>, <<"port">>, <<"state">>} |->
                  <<"of_the_client">> \o name]

Path(name) == IF name[1] = "/" THEN Tail(name) ELSE ServerName \o <<"/">> \o name

file_vars(name) == IF name = <<>> THEN nothing ELSE Lookup(TextFiles, Path(name))

(* Mutant: the digits end at 60. *)
code2charShort(c) ==
    IF c <= 25 THEN c + 65 ELSE IF c <= 51 THEN c - 26 + 97 ELSE IF c <= 60 THEN c - 52 + 48
    ELSE IF c = 62 THEN 43 ELSE 47

(* A digit of base 64, as the number of a character. *)
code2char(c) ==
    IF c <= 25 THEN c + 65 ELSE IF c <= 51 THEN c - 26 + 97 ELSE IF c <= 61 THEN c - 52 + 48
    ELSE IF c = 62 THEN 43 ELSE 47

Triplet(a, b, c) ==
    << code2char((a \div 4) % 64), code2char(((a % 4) * 16) + ((b \div 16) % 16)),
       code2char(((b % 16) * 4) + ((c \div 64) % 4)), code2char(c % 64) >>
Rest(bytes) ==
    CASE Len(bytes) = 0 -> <<>>
      [] Len(bytes) = 1 ->
            << code2char((bytes[1] \div 4) % 64), code2char((bytes[1] % 4) * 16), "=", "=" >>
      [] Len(bytes) = 2 ->
            << code2char((bytes[1] \div 4) % 64),
               code2char(((bytes[1] % 4) * 16) + ((bytes[2] \div 16) % 16)),
               code2char((bytes[2] % 16) * 4), "=" >>
Encoded(bytes) ==
    LET whole == Len(bytes) \div 3
    IN FlattenSeq([k \in 1..whole |->
                       Triplet(bytes[3 * k - 2], bytes[3 * k - 1], bytes[3 * k])])
       \o Rest(SubSeq(bytes, 3 * whole + 1, Len(bytes)))

img_vars(name) ==
    IF name = <<>> \/ Path(name) # ImagePath THEN nothing
    ELSE <<"data_image_base64">> \o Encoded(image)

(* The namespaces of a portal, in their order: a name without one is the   *)
(* first one's.                                                            *)
find_in_next(ns, name) ==
    CASE ns = <<"main">> -> main_vars(name)
      [] ns = <<"var">> -> Lookup(RecordVars, name)
      [] ns = <<"file">> -> file_vars(name)
      [] ns = <<"img">> -> img_vars(name)
      [] ns = <<"hs">> -> Lookup(Handshake, name)
      [] ns = <<"env">> -> Lookup(Environment, name)
      [] OTHER -> <<"no_namespace">>

-----------------------------------------------------------------------------
(* resolve *)

(* trim_string moves the beginning and the length of a string. *)
Least(S) == CHOOSE x \in S : \A y \in S : x <= y
trim(at, size) ==
    LET inside == {k \in 0..(size - 1) : str(at + k) # "space"}
        first == Least(inside)
        last == CHOOSE k \in inside : \A m \in inside : k >= m
    IN IF inside = {} THEN [at |-> at, size |-> 0]
                      ELSE [at |-> at + first, size |-> last - first + 1]

find_closing_bracket(at) ==
    Least({n \in 1..(Len(text) - at) : Count("open", String(at, n)) = Count("close", String(at, n))})

(* Mutant: the namespace and the name are trimmed, the whole is not. *)
get_value_untrimmed(at, size) ==
    LET colons == {k \in 0..(size - 1) : str(at + k) = ":"}
        d == Least(colons)
        ns == trim(at, d)
        name == trim(ns.at + d + 1, size - d - 1)
    IN IF colons = {} THEN main_vars(String(at, size))
       ELSE find_in_next(String(ns.at, ns.size), String(name.at, name.size))

(* The name is found from where the trimmed namespace begins. *)
get_value(at, size) ==
    LET s == trim(at, size)
        colons == {k \in 0..(s.size - 1) : str(s.at + k) = ":"}
        d == Least(colons)
        ns == trim(s.at, d)
        name == trim(ns.at + d + 1, s.size - d - 1)
    IN IF colons = {} THEN main_vars(String(s.at, s.size))
       ELSE find_in_next(String(ns.at, ns.size), String(name.at, name.size))

Init ==
    /\ \E input \in Inputs :
          /\ template = input.template /\ image = input.image
          /\ text = TextOf(input.template)
    /\ i = 0 /\ j = 0
    /\ result = <<>>
    /\ done = FALSE

Scan == ~done /\ i < Len(text) /\ UNCHANGED <<given, done>>
IsVariable == str(i) = "$" /\ (isvar(str(i + 1)) \/ str(i + 1) \in {"open", "$"})

(* What has been passed since j, and a value, for size units. *)
Push(value, size) ==
    /\ result' = result \o String(j, i - j) \o value
    /\ i' = i + size
    /\ j' = i + size

Pass == Scan /\ ~IsVariable /\ i' = i + 1 /\ UNCHANGED <<j, result>>

Dollar == Scan /\ IsVariable /\ str(i + 1) = "$" /\ Push(<<"$">>, 2)

(* Mutant: the closing bracket is not counted. *)
BracedInside ==
    /\ Scan /\ IsVariable /\ str(i + 1) = "open"
    /\ LET t == find_closing_bracket(i + 1) IN Push(get_value(i + 2, t - 2), t + 2)

Braced ==
    /\ Scan /\ IsVariable /\ str(i + 1) = "open"
    /\ LET t == find_closing_bracket(i + 1) IN Push(get_value(i + 2, t - 2), t + 1)

Bare ==
    /\ Scan /\ IsVariable /\ isvar(str(i + 1))
    /\ LET t == Least({n \in 1..Len(text) : ~isvar(str(i + 1 + n))})
       IN Push(get_value(i + 1, t), t + 1)

Finish ==
    /\ ~done /\ i >= Len(text)
    /\ result' = IF i # j THEN result \o String(j, i - j) ELSE result
    /\ done' = TRUE
    /\ UNCHANGED <<given, i, j>>

Next == Pass \/ Dollar \/ Braced \/ Bare \/ Finish

Spec == Init /\ [][Next]_vars

-----------------------------------------------------------------------------
(* Properties *)

(* The type invariant: resolve never takes a piece from beyond the text. *)
TypeOK ==
    /\ image \in Seq(0..255)
    /\ i \in 0..Len(text) /\ j \in 0..i
    /\ done \in BOOLEAN

(* Base 64 as it is defined: the bits of the bytes in groups of six, padded *)
(* to whole groups with zeros and to fours with "=".                       *)
Alphabet == [k \in 1..26 |-> 64 + k] \o [k \in 1..26 |-> 96 + k] \o [k \in 1..10 |-> 47 + k]
            \o <<43, 47>>
Powers == <<1, 2, 4, 8, 16, 32, 64, 128>>
Bit(bytes, k) ==
    IF k > 8 * Len(bytes) THEN 0
    ELSE (bytes[((k - 1) \div 8) + 1] \div Powers[8 - ((k - 1) % 8)]) % 2
Base64(bytes) ==
    LET size == 4 * ((Len(bytes) + 2) \div 3)
        digits == (8 * Len(bytes) + 5) \div 6
        Digit(g) == LET Of(b) == Bit(bytes, 6 * g - 6 + b) * Powers[7 - b]
                    IN Of(1) + Of(2) + Of(3) + Of(4) + Of(5) + Of(6)
    IN [g \in 1..size |-> IF g > digits THEN "=" ELSE Alphabet[Digit(g) + 1]]

(* What a variable means to the author of a template: without a namespace   *)
(* it is one of main's.                                                    *)
Texts == [ns \in {"var", "hs", "env"} |->
              CASE ns = "var" -> RecordVars [] ns = "hs" -> Handshake [] ns = "env" -> Environment]
Names(path) ==
    {<<"/">> \o path} \cup {name \in {SubSeq(path, k, Len(path)) : k \in 1..Len(path)} :
                                 name[1] # "/" /\ path = ServerName \o <<"/">> \o name}
Value(ns, name) ==
    LET values ==
            {Texts[n][name] : n \in {n \in DOMAIN Texts : n = ns /\ name \in DOMAIN Texts[n]}}
            \cup {TextFiles[path] : path \in {p \in DOMAIN TextFiles : ns = "file" /\ name \in Names(p)}}
            \cup (IF ns = "img" /\ name \in Names(ImagePath)
                  THEN {<<"data_image_base64">> \o Base64(image)} ELSE {})
            \cup (IF ns = "main" /\ name = <<"uuid">> THEN {<<"random_uuid">>} ELSE {})
    IN IF ns \notin DOMAIN Texts \cup {"main", "img", "file"} THEN <<"no_namespace">>
       ELSE IF values = {} THEN <<"no_value">> ELSE CHOOSE v \in values : TRUE

Meaning(t) ==
    CASE t.kind = "unit" -> <<t.unit>>
      [] t.kind = "dollar" -> <<"$">>
      [] t.kind \in Styles -> Value(IF t.ns = <<>> THEN "main" ELSE t.ns[1], t.name)

(* What resolve returns is what the template means, part by part, with the  *)
(* values as they are: nothing is lost or doubled around a variable, in     *)
(* whichever style it is written, dollars stand for themselves, and an      *)
(* image is its file in base 64 (vars_manager::resolve, get_value,          *)
(* img_vars::operator[]).                                                  *)
Resolved == done => result = FlattenSeq([k \in DOMAIN template |-> Meaning(template[k])])

=============================================================================
