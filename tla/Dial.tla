-------------------------------- MODULE Dial --------------------------------
(***************************************************************************)
(* From the name in a handshake to the address that is dialled: the choice *)
(* of a record (portal::record in src/client.cpp, check_domain in          *)
(* src/settings.cpp), and the cache of resolved hosts that the workers     *)
(* share without a lock (src/hosts_db.cpp).                                *)
(*                                                                         *)
(* A name is a sequence of characters; what a client sends has been cut at *)
(* its first NUL, and fml says that there was one.  A list of addresses is *)
(* a sequence, empty or with one element.  A worker has many portals, and  *)
(* each keeps the configuration that was published when it was made: the   *)
(* next handshake of a worker may be read with any of them, older or newer *)
(* than the one before.                                                    *)
(***************************************************************************)
EXTENDS Naturals, Sequences, FiniteSets

CONSTANTS
    Worker,     \* the workers
    Char,       \* characters
    Names,      \* names that clients ask for
    Asked,      \* those among them that are followed through to the dial
    DomainArg,  \* the argument --domain
    Confs,      \* what the main file may say
    Addr        \* what the resolver may answer

(* A server's record, and the one for modded clients if it has one. *)
Basics(c) ==
    UNION {{r.plain} \cup r.fml : r \in {c.default_server} \cup {c.servers[s] : s \in DOMAIN c.servers}}
Records == UNION {Basics(c) : c \in Confs}

ASSUME DialAssumption ==
    /\ IsFiniteSet(Worker)
    /\ Asked \subseteq Names /\ Names \subseteq Seq(Char)
    /\ \A c \in Confs : c.dns_cache \in BOOLEAN
    /\ \A r \in Records : r.mcsman \in BOOLEAN

VARIABLES
    conf,       \* portal::conf of the client that each worker serves
    hosts_db,
    pc,         \* where each worker is in connect
    rec,        \* portal::rec of that client
    cache,      \* the argument of connect
    told,       \* what the resolver has told it
    dialled,    \* where it has opened a socket to
    queries,    \* how often the resolver has answered for the cache
    alive       \* the process works

progress == <<conf, pc, rec, cache, told, dialled>>
vars == <<hosts_db, progress, queries, alive>>

-----------------------------------------------------------------------------
(* Names *)

Dotted(n) == n # <<>> /\ n[Len(n)] = "."
WithoutDot(n) == IF Dotted(n) THEN SubSeq(n, 1, Len(n) - 1) ELSE n

(* check_domain, of a domain that it accepts. *)
CheckDomain(d) == IF d \in {<<>>, <<".">>} THEN <<>> ELSE <<".">> \o WithoutDot(d)

(* std::string::resize *)
Resize(n, size) == IF size <= Len(n) THEN SubSeq(n, 1, size) ELSE Append(n, "NUL")

(* Mutant: the sizes are compared and nothing else. *)
RecordNameBySize(n, domain) ==
    IF Len(n) > Len(domain) THEN Resize(WithoutDot(n), Len(n) - Len(domain)) ELSE WithoutDot(n)

(* The name that portal::record looks up.  name_sz is the size with the    *)
(* final dot, name has none: the suffix is compared from one too far, and  *)
(* with no domain it is found there, behind the end of the string.         *)
RecordName(n, domain) ==
    LET name == WithoutDot(n)
        size == Len(n) - Len(domain)
    IN  IF Len(n) > Len(domain) /\ SubSeq(name, size + 1, Len(name)) = domain
        THEN Resize(name, size) ELSE name

(* portal::record *)
Record(c, n, fml) ==
    LET name == RecordName(n, c.domain)
        r == IF name \in DOMAIN c.servers THEN c.servers[name] ELSE c.default_server
    IN  IF fml /\ r.fml # {} THEN CHOOSE b \in r.fml : TRUE ELSE r.plain

(* connect removes the final dot of an address: an entry is for a host. *)
Host(r) == WithoutDot(r.address)

Hosts == {Host(r) : r \in Records}
Endpoints == [host : Hosts, addr : Addr, port : {r.port : r \in Records}]
Lists == {<<>>} \cup {<<e>> : e \in Endpoints}

(* A domain in the file goes through check_domain, the argument does not. *)
Load(c) ==
    [domain |-> IF c.domain = {} THEN DomainArg ELSE CheckDomain(CHOOSE d \in c.domain : TRUE),
     dns_cache |-> c.dns_cache, default_server |-> c.default_server, servers |-> c.servers]

(* Servers have names, and no name or domain ends with a dot once it is    *)
(* loaded.                                                                 *)
ASSUME NamesAssumption ==
    \A c \in Confs :
        LET domain == Load(c).domain
        IN  /\ domain \in Seq(Char) /\ ~Dotted(domain)
            /\ \A s \in DOMAIN c.servers : s \in Seq(Char) \ {<<>>} /\ ~Dotted(s)

-----------------------------------------------------------------------------

(* The type invariant. *)
TypeOK ==
    /\ DOMAIN hosts_db \subseteq Hosts /\ \A h \in DOMAIN hosts_db : hosts_db[h] \in Lists
    /\ pc \in [Worker -> {"idle", "find", "resolve", "insert", "assign", "open"}]
    /\ conf \in [Worker -> {Load(c) : c \in Confs}]
    /\ rec \in [Worker -> Records] /\ cache \in [Worker -> BOOLEAN]
    /\ told \in [Worker -> Lists] /\ dialled \in [Worker -> Lists]
    /\ queries \in [Hosts -> Nat] /\ alive \in BOOLEAN

Init ==
    /\ \E c \in Confs : conf = [w \in Worker |-> Load(c)]
    /\ hosts_db = <<>>
    /\ pc = [w \in Worker |-> "idle"]
    /\ rec = [w \in Worker |-> conf[w].default_server.plain]
    /\ cache = [w \in Worker |-> FALSE]
    /\ told = [w \in Worker |-> <<>>] /\ dialled = [w \in Worker |-> <<>>]
    /\ queries = [h \in Hosts |-> 0] /\ alive = TRUE

Goto(w, to) == pc' = [pc EXCEPT ![w] = to]

(* Mutant: mcsman's records are cached, too. *)
CachesAll(c, r) == c.dns_cache

Caches(c, r) == c.dns_cache /\ ~r.mcsman

(* from_handshake, with the portal's configuration, for a record with a    *)
(* backend.                                                                *)
Handshake(w, c, n, fml) ==
    LET r == Record(c, n, fml)
    IN  /\ alive /\ pc[w] = "idle"
        /\ ~r.drop /\ r.address # <<>> /\ r.port # 0
        /\ conf' = [conf EXCEPT ![w] = c]
        /\ rec' = [rec EXCEPT ![w] = r]
        /\ cache' = [cache EXCEPT ![w] = Caches(c, r)]
        /\ Goto(w, IF Caches(c, r) THEN "find" ELSE "resolve")
        /\ told' = [told EXCEPT ![w] = <<>>] /\ dialled' = [dialled EXCEPT ![w] = <<>>]
        /\ UNCHANGED <<hosts_db, queries, alive>>

Put(h, list) == hosts_db' = [k \in DOMAIN hosts_db \cup {h} |-> IF k = h THEN list ELSE hosts_db[k]]

(* Mutant: the key is the address as it is written. *)
KeyAsWritten(w) == rec[w].address

(* Mutant: there is one entry for all hosts. *)
KeyOfAny(w) == CHOOSE h \in Hosts : TRUE

(* The key of a record's entry. *)
Key(w) == Host(rec[w])

(* Mutant: what is in the cache is not found. *)
FindNothing(w) ==
    /\ alive /\ pc[w] = "find"
    /\ Goto(w, "resolve")
    /\ UNCHANGED <<conf, hosts_db, rec, cache, told, dialled, queries, alive>>

(* Mutant: the entry is made first, as before C++17. *)
FindOrInsert(w) ==
    /\ alive /\ pc[w] = "find"
    /\ Goto(w, IF Key(w) \in DOMAIN hosts_db THEN "open" ELSE "resolve")
    /\ IF Key(w) \in DOMAIN hosts_db THEN UNCHANGED hosts_db ELSE Put(Key(w), <<>>)
    /\ UNCHANGED <<conf, rec, cache, told, dialled, queries, alive>>

(* request_dns_cache looks the host up. *)
Find(w) ==
    /\ alive /\ pc[w] = "find"
    /\ Goto(w, IF Key(w) \in DOMAIN hosts_db THEN "open" ELSE "resolve")
    /\ UNCHANGED <<conf, hosts_db, rec, cache, told, dialled, queries, alive>>

(* connection_info::resolve, for the cache and without it: an answer... *)
Resolve(w) ==
    /\ alive /\ pc[w] = "resolve"
    /\ \E a \in Addr : told' = [told EXCEPT ![w] = <<[host |-> Host(rec[w]), addr |-> a, port |-> rec[w].port]>>]
    /\ queries' = IF cache[w] THEN [queries EXCEPT ![Host(rec[w])] = @ + 1] ELSE queries
    /\ Goto(w, IF cache[w] THEN "insert" ELSE "open")
    /\ UNCHANGED <<conf, hosts_db, rec, cache, dialled, alive>>

(* ...or a dns_error, which from_handshake catches. *)
ResolveFails(w) ==
    /\ alive /\ pc[w] = "resolve"
    /\ Goto(w, "idle")
    /\ UNCHANGED <<conf, hosts_db, rec, cache, told, dialled, queries, alive>>

(* operator[] makes an empty entry, unless there is one by now... *)
Insert(w) ==
    /\ alive /\ pc[w] = "insert"
    /\ IF Key(w) \in DOMAIN hosts_db THEN UNCHANGED hosts_db ELSE Put(Key(w), <<>>)
    /\ Goto(w, "assign")
    /\ UNCHANGED <<conf, rec, cache, told, dialled, queries, alive>>

(* ...and the answer is moved into it. *)
Assign(w) ==
    /\ alive /\ pc[w] = "assign"
    /\ Put(Key(w), told[w])
    /\ Goto(w, "open")
    /\ UNCHANGED <<conf, rec, cache, told, dialled, queries, alive>>

(* tcp_socket_d::open gets the entry by reference.  An empty list leads    *)
(* nowhere.                                                                *)
Open(w) ==
    /\ alive /\ pc[w] = "open"
    /\ dialled' = [dialled EXCEPT ![w] = IF cache[w] THEN hosts_db[Key(w)] ELSE told[w]]
    /\ Goto(w, "idle")
    /\ UNCHANGED <<conf, hosts_db, rec, cache, told, queries, alive>>

(* Two workers are in the map at once and one of them writes: the map is   *)
(* not made for it, and the process may end.                               *)
InMap(w) == pc[w] \in {"find", "insert", "assign"} \/ (pc[w] = "open" /\ cache[w])
Race ==
    /\ alive
    /\ \E v, w \in Worker : v # w /\ InMap(v) /\ pc[w] \in {"insert", "assign"}
    /\ alive' = FALSE
    /\ UNCHANGED <<hosts_db, progress, queries>>

WorkerStep(w) ==
    \/ \E c \in Confs, n \in Asked, fml \in BOOLEAN : Handshake(w, Load(c), n, fml)
    \/ Find(w) \/ Resolve(w) \/ ResolveFails(w) \/ Insert(w) \/ Assign(w) \/ Open(w)

Next == Race \/ \E w \in Worker : WorkerStep(w)

Spec == Init /\ [][Next]_vars

-----------------------------------------------------------------------------
(* Properties *)

(* A server is found by its name with the domain behind it, whatever the   *)
(* domain is, and a name finds no server but the one that it names, with   *)
(* or without the domain.  Names that end with a dot are left out.         *)
Routed ==
    \A w \in Worker :
        LET domain == conf[w].domain
            servers == conf[w].servers
        IN  /\ \A s \in DOMAIN servers : RecordName(s \o domain, domain) = s
            /\ \A n \in Names :
                ~Dotted(n) /\ RecordName(n, domain) \in DOMAIN servers
                    => n \in {RecordName(n, domain), RecordName(n, domain) \o domain}

(* A client is sent to the host of its own record, whatever other workers  *)
(* put into the cache meanwhile.                                           *)
OwnHost == \A w \in Worker : dialled[w] # <<>> => dialled[w][1].host = Host(rec[w])

(* The containers of mcsman move: their records are never taken from the   *)
(* cache (CHANGELOG:8, "MCSMan records swap due DNS cache").               *)
McsIsFresh == \A w \in Worker : dialled[w] # <<>> /\ rec[w].mcsman => dialled[w] = told[w]

(* An entry is empty only while a worker is about to fill it: a host that  *)
(* could not be resolved, by one worker or by several, leaves no entry     *)
(* that would answer for it from then on.                                  *)
NoEmptyEntry ==
    \A h \in DOMAIN hosts_db :
        hosts_db[h] = <<>> => \E w \in Worker : pc[w] = "assign" /\ Key(w) = h

(* The resolver answers for a host at most once to each worker, for the    *)
(* cache, whatever the records and the order of the workers (a host that   *)
(* it does not know is asked for each time; "otherwise caches dns          *)
(* requests", CHANGELOG:11).                                                *)
AskedOnce == \A h \in Hosts : queries[h] <= Cardinality(Worker)

(* A client is sent to the port in its record (res/config/mcshub.yml:45,   *)
(* "Backend server port. (dynamic)").                                      *)
PortApplies == \A w \in Worker : dialled[w] # <<>> => dialled[w][1].port = rec[w].port

(* The argument --domain is "the same option as in mcshub.yml file"       *)
(* (mcshub.cpp:28-29): where the file gives no domain, a server is found by *)
(* its name with the domain that the file would have made of the argument.  *)
ArgumentIsOption ==
    \A c \in Confs, w \in Worker : conf[w] = Load(c) /\ c.domain = {} =>
        \A s \in DOMAIN c.servers : RecordName(s \o CheckDomain(DomainArg), conf[w].domain) = s

=============================================================================
