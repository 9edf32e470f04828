----------------------------- MODULE DialProofs -----------------------------
(***************************************************************************)
(* Proofs about Dial for every value of its constants: any names, domains  *)
(* and records, and any number of workers.                                 *)
(***************************************************************************)
EXTENDS Dial, SequenceTheorems, FiniteSetTheorems, TLAPS

-----------------------------------------------------------------------------
(* Names *)

(* A name with a domain behind it ends as the domain does. *)
LEMMA EndOfConcat ==
    ASSUME NEW s \in Seq(Char), ~Dotted(s), NEW d \in Seq(Char), ~Dotted(d)
    PROVE  ~Dotted(s \o d)
<1>1. CASE d = <<>>
    <2>1. s \o d = s
        BY <1>1, ConcatEmptySeq
    <2> QED BY <2>1
<1>2. CASE d # <<>>
    <2>1. Len(d) \in Nat \ {0}
        BY <1>2, EmptySeq
    <2>2. Len(s) \in Nat
        BY LenProperties
    <2>3. Len(s \o d) = Len(s) + Len(d)
        BY ConcatProperties
    <2>4. (s \o d)[Len(s) + Len(d)] = d[Len(d)]
        BY <2>1, <2>2, ConcatProperties
    <2> QED BY <1>2, <2>3, <2>4 DEF Dotted
<1> QED BY <1>1, <1>2

(* A server is found by its name and the domain. *)
LEMMA FoundByFullName ==
    ASSUME NEW s \in Seq(Char), s # <<>>, NEW d \in Seq(Char), ~Dotted(s \o d)
    PROVE  RecordName(s \o d, d) = s
<1>1. Len(s) \in Nat \ {0} /\ Len(d) \in Nat
    BY EmptySeq, LenProperties
<1>2. s \o d \in Seq(Char) /\ Len(s \o d) = Len(s) + Len(d)
    BY ConcatProperties
<1>3. WithoutDot(s \o d) = s \o d
    BY DEF WithoutDot
<1>4. SubSeq(s \o d, Len(s) + 1, Len(s) + Len(d)) = d
    <2>1. CASE Len(d) = 0
        BY <1>1, <2>1, SubSeqEmpty, EmptySeq
    <2>2. CASE Len(d) # 0
        <3>1. SubSeq(s \o d, Len(s) + 1, Len(s) + Len(d)) = SubSeq(d, Len(s) + 1 - Len(s), Len(s) + Len(d) - Len(s))
            BY <1>1, <2>2, SubSeqOfConcat2
        <3>2. Len(s) + 1 - Len(s) = 1 /\ Len(s) + Len(d) - Len(s) = Len(d)
            BY <1>1
        <3> QED BY <3>1, <3>2, SubSeqFull
    <2> QED BY <2>1, <2>2
<1>5. SubSeq(s \o d, 1, Len(s)) = s
    <2>1. SubSeq(s \o d, 1, Len(s)) = SubSeq(s, 1, Len(s))
        BY <1>1, SubSeqOfConcat1
    <2> QED BY <2>1, SubSeqFull
<1>6. Len(s \o d) - Len(d) = Len(s) /\ Len(s \o d) > Len(d) /\ Len(s) <= Len(s \o d)
    BY <1>1, <1>2
<1>7. SubSeq(s \o d, Len(s) + 1, Len(s \o d)) = d
    BY <1>2, <1>4
<1> QED BY <1>3, <1>5, <1>6, <1>7 DEF RecordName, Resize

(* What is looked up is the name, or the name without the domain. *)
LEMMA FoundIsNamed ==
    ASSUME NEW n \in Seq(Char), ~Dotted(n), NEW d \in Seq(Char)
    PROVE  n \in {RecordName(n, d), RecordName(n, d) \o d}
<1>1. Len(n) \in Nat /\ Len(d) \in Nat
    BY LenProperties
<1>2. WithoutDot(n) = n
    BY DEF WithoutDot
<1> DEFINE size == Len(n) - Len(d)
<1>3. CASE Len(n) > Len(d) /\ SubSeq(n, size + 1, Len(n)) = d
    <2>1. size \in 0..Len(n) /\ size <= Len(n)
        BY <1>1, <1>3
    <2>2. SubSeq(n, 1, size) \o SubSeq(n, size + 1, Len(n)) = SubSeq(n, 1, Len(n))
        <3>1. 1 \in 1..(Len(n) + 1) /\ size \in (1 - 1)..Len(n) /\ Len(n) \in size..Len(n)
            BY <1>1, <2>1
        <3> HIDE DEF size
        <3> QED BY <3>1, ConcatAdjacentSubSeq
    <2>3. RecordName(n, d) = SubSeq(n, 1, size)
        BY <1>2, <1>3, <2>1 DEF RecordName, Resize
    <2> QED BY <1>3, <2>2, <2>3, SubSeqFull
<1>4. CASE ~(Len(n) > Len(d) /\ SubSeq(n, size + 1, Len(n)) = d)
    BY <1>2, <1>4 DEF RecordName
<1> QED BY <1>3, <1>4

(* Every portal has a configuration that the file may hold. *)
ConfOK == conf \in [Worker -> {Load(c) : c \in Confs}]

(* Clients reach the server they name, with any domain and any servers. *)
THEOREM ServersAreRouted == Spec => []Routed
<1>1. Init => ConfOK
    BY DEF Init, ConfOK
<1>2. ConfOK /\ [Next]_vars => ConfOK'
    BY DEF ConfOK, Next, Race, WorkerStep, Handshake, Find, Resolve, ResolveFails, Insert, Assign, Open, vars,
           progress
<1>3. ConfOK => Routed
    <2> SUFFICES ASSUME ConfOK, NEW w \in Worker
                 PROVE  LET d == conf[w].domain
                            servers == conf[w].servers
                        IN  /\ \A s \in DOMAIN servers : RecordName(s \o d, d) = s
                            /\ \A n \in Names : ~Dotted(n) => n \in {RecordName(n, d), RecordName(n, d) \o d}
        BY DEF Routed
    <2>1. PICK c \in Confs : conf[w] = Load(c)
        BY DEF ConfOK
    <2> DEFINE d == conf[w].domain
               servers == conf[w].servers
    <2>2. d \in Seq(Char) /\ ~Dotted(d)
        BY <2>1, NamesAssumption
    <2>3. servers = c.servers
        BY <2>1 DEF Load
    <2>4. \A s \in DOMAIN servers : s \in Seq(Char) /\ s # <<>> /\ ~Dotted(s)
        BY <2>3, NamesAssumption
    <2> HIDE DEF d, servers
    <2>5. ASSUME NEW s \in DOMAIN servers PROVE RecordName(s \o d, d) = s
        BY <2>2, <2>4, <2>5, EndOfConcat, FoundByFullName
    <2>6. ASSUME NEW n \in Names, ~Dotted(n) PROVE n \in {RecordName(n, d), RecordName(n, d) \o d}
        <3>1. n \in Seq(Char)
            BY DialAssumption
        <3> QED BY <2>2, <2>6, <3>1, FoundIsNamed
    <2> QED BY <2>5, <2>6 DEF d, servers
<1> QED BY <1>1, <1>2, <1>3, PTL DEF Spec

-----------------------------------------------------------------------------
(* Types *)

(* What portal::record yields is a record of the configuration. *)
LEMMA RecordTypes == ASSUME NEW c \in Confs, NEW n, NEW fml PROVE Record(Load(c), n, fml) \in Records
<1> DEFINE k == Load(c)
           name == RecordName(n, k.domain)
           all == {c.default_server} \cup {c.servers[s] : s \in DOMAIN c.servers}
           r == IF name \in DOMAIN k.servers THEN k.servers[name] ELSE k.default_server
<1>1. k.servers = c.servers /\ k.default_server = c.default_server
    BY DEF Load
<1>2. r \in all
    BY <1>1
<1>3. \A q \in all : q.plain \in Basics(c) /\ q.fml \subseteq Basics(c)
    BY DEF Basics
<1>4. Record(k, n, fml) = IF fml /\ r.fml # {} THEN CHOOSE b \in r.fml : TRUE ELSE r.plain
    BY DEF Record
<1> HIDE DEF all, r
<1>5. r.plain \in Records /\ r.fml \subseteq Records
    BY <1>2, <1>3 DEF Records
<1>6. r.fml # {} => (CHOOSE b \in r.fml : TRUE) \in r.fml
    OBVIOUS
<1> QED BY <1>4, <1>5, <1>6

(* What the resolver answers is a list. *)
LEMMA AnswerTypes ==
    ASSUME NEW r \in Records, NEW a \in Addr
    PROVE  <<[host |-> Host(r), addr |-> a, port |-> r.port]>> \in Lists
<1>1. Host(r) \in Hosts /\ r.port \in {q.port : q \in Records}
    BY DEF Hosts
<1>2. [host |-> Host(r), addr |-> a, port |-> r.port] \in Endpoints
    BY <1>1 DEF Endpoints
<1> QED BY <1>2 DEF Lists

(* The configuration and the types, as one inductive invariant. *)
Typed == ConfOK /\ TypeOK

(* Where a worker is in connect, and what it has by then. *)
Steps ==
    \A w \in Worker :
        /\ dialled[w] # <<>> => pc[w] = "idle"
        /\ told[w] # <<>> => told[w][1].host = Key(w)
        /\ pc[w] \in {"find", "insert", "assign"} => cache[w]
        /\ pc[w] \in {"insert", "assign"} => told[w] # <<>>
        /\ pc[w] = "assign" \/ (pc[w] = "open" /\ cache[w]) => Key(w) \in DOMAIN hosts_db
        /\ rec[w].mcsman => ~cache[w]

(* An entry is for its key. *)
Entries == \A h \in DOMAIN hosts_db : hosts_db[h] # <<>> => hosts_db[h][1].host = h

CacheInv == Typed /\ Steps /\ Entries /\ OwnHost /\ McsIsFresh /\ NoEmptyEntry

(* Steps that read the cache, and those that do not use it. *)
LEMMA QuietSteps ==
    ASSUME CacheInv, NEW w \in Worker, UNCHANGED <<conf, hosts_db, rec, cache, told, dialled>>,
           NEW to \in {"idle", "open", "resolve"}, pc' = [pc EXCEPT ![w] = to],
           pc[w] \in {"find", "resolve"}, to = "open" => cache[w] /\ Key(w) \in DOMAIN hosts_db,
           queries' = queries, alive' = alive
    PROVE  CacheInv'
<1> USE DEF CacheInv
<1>1. Typed'
    BY DEF Typed, ConfOK, TypeOK
<1>2. \A v \in Worker : Key(v)' = Key(v) /\ (v # w => pc'[v] = pc[v]) /\ pc'[w] = to
    BY DEF Key, Typed, TypeOK
<1>3. Steps'
    BY <1>2 DEF Steps
<1>4. Entries' /\ OwnHost' /\ McsIsFresh'
    BY DEF Entries, OwnHost, McsIsFresh
<1>5. NoEmptyEntry'
    BY <1>2 DEF NoEmptyEntry
<1> QED BY <1>1, <1>3, <1>4, <1>5

(* A new client of a worker. *)
LEMMA HandshakeKeeps ==
    ASSUME CacheInv, NEW w \in Worker, NEW c \in Confs, NEW n, NEW fml \in BOOLEAN, Handshake(w, Load(c), n, fml)
    PROVE  CacheInv'
<1> USE DEF CacheInv
<1> DEFINE k == Load(c)
           r == Record(k, n, fml)
           caches == Caches(k, r)
           to == IF caches THEN "find" ELSE "resolve"
<1>1. r \in Records /\ caches \in BOOLEAN /\ (r.mcsman => ~caches) /\ k \in {Load(d) : d \in Confs}
    <2>1. r \in Records
        BY RecordTypes
    <2>2. k.dns_cache \in BOOLEAN
        BY DialAssumption DEF Load
    <2> QED BY <2>1, <2>2, DialAssumption DEF Caches
<1>2. /\ conf' = [conf EXCEPT ![w] = k] /\ rec' = [rec EXCEPT ![w] = r]
      /\ cache' = [cache EXCEPT ![w] = caches]
      /\ pc' = [pc EXCEPT ![w] = to]
      /\ told' = [told EXCEPT ![w] = <<>>] /\ dialled' = [dialled EXCEPT ![w] = <<>>]
      /\ UNCHANGED <<hosts_db, queries, alive>> /\ pc[w] = "idle"
    BY DEF Handshake, Goto
<1>3. to \in {"find", "resolve"} /\ (to = "find" => caches)
    OBVIOUS
<1> HIDE DEF k, r, caches, to
<1>4. Typed'
    <2>1. ConfOK'
        BY <1>1, <1>2 DEF Typed, ConfOK
    <2>2. TypeOK'
        BY <1>1, <1>2, <1>3, <2>1 DEF Typed, TypeOK, ConfOK, Lists
    <2> QED BY <2>1, <2>2 DEF Typed
<1>5. \A v \in Worker \ {w} :
            /\ Key(v)' = Key(v) /\ pc'[v] = pc[v] /\ rec'[v] = rec[v] /\ cache'[v] = cache[v]
            /\ told'[v] = told[v] /\ dialled'[v] = dialled[v]
    BY <1>2 DEF Key, Typed, TypeOK
<1>6. pc'[w] = to /\ rec'[w] = r /\ cache'[w] = caches /\ told'[w] = <<>> /\ dialled'[w] = <<>>
    BY <1>2 DEF Typed, TypeOK
<1>7. Steps'
    BY <1>1, <1>2, <1>3, <1>5, <1>6 DEF Steps
<1>8. Entries' /\ OwnHost' /\ McsIsFresh'
    BY <1>2, <1>5, <1>6 DEF Entries, OwnHost, McsIsFresh
<1>9. NoEmptyEntry'
    BY <1>2, <1>5 DEF NoEmptyEntry
<1> QED BY <1>4, <1>7, <1>8, <1>9

(* An answer of the resolver. *)
LEMMA ResolveKeeps == ASSUME CacheInv, NEW w \in Worker, Resolve(w) PROVE CacheInv'
<1> USE DEF CacheInv
<1>1. PICK a \in Addr : told' = [told EXCEPT ![w] = <<[host |-> Host(rec[w]), addr |-> a, port |-> rec[w].port]>>]
    BY DEF Resolve
<1> DEFINE list == <<[host |-> Host(rec[w]), addr |-> a, port |-> rec[w].port]>>
           to == IF cache[w] THEN "insert" ELSE "open"
<1>2. list \in Lists /\ list # <<>> /\ list[1].host = Key(w) /\ to \in {"insert", "open"}
    BY AnswerTypes DEF Typed, TypeOK, Key
<1>3. told' = [told EXCEPT ![w] = list] /\ pc' = [pc EXCEPT ![w] = to]
    BY <1>1 DEF Resolve, Goto
<1>4. /\ UNCHANGED <<conf, hosts_db, rec, cache, dialled, alive>> /\ pc[w] = "resolve"
      /\ queries' = IF cache[w] THEN [queries EXCEPT ![Host(rec[w])] = @ + 1] ELSE queries
    BY DEF Resolve
<1>5. to = "insert" <=> cache[w]
    OBVIOUS
<1> HIDE DEF list, to
<1>6. Typed'
    <2>1. queries' \in [Hosts -> Nat]
        BY <1>4 DEF Typed, TypeOK, Hosts
    <2>2. told' \in [Worker -> Lists]
        BY <1>2, <1>3 DEF Typed, TypeOK
    <2>3. pc' \in [Worker -> {"idle", "find", "resolve", "insert", "assign", "open"}]
        BY <1>2, <1>3 DEF Typed, TypeOK
    <2> QED BY <1>4, <2>1, <2>2, <2>3 DEF Typed, ConfOK, TypeOK
<1>7. \A v \in Worker \ {w} : pc'[v] = pc[v] /\ told'[v] = told[v]
    BY <1>3 DEF Typed, TypeOK
<1>8. pc'[w] = to /\ told'[w] = list /\ \A v \in Worker : Key(v)' = Key(v)
    BY <1>3, <1>4 DEF Typed, TypeOK, Key
<1>9. Steps'
    BY <1>2, <1>4, <1>5, <1>7, <1>8 DEF Steps
<1>10. dialled[w] = <<>>
    BY <1>4 DEF Steps
<1>11. Entries' /\ OwnHost' /\ McsIsFresh'
    BY <1>4, <1>7, <1>10 DEF Entries, OwnHost, McsIsFresh
<1>12. NoEmptyEntry'
    BY <1>4, <1>7, <1>8 DEF NoEmptyEntry
<1> QED BY <1>6, <1>9, <1>11, <1>12

(* The two halves of an assignment to an entry. *)
LEMMA InsertKeeps == ASSUME CacheInv, NEW w \in Worker, Insert(w) PROVE CacheInv'
<1> USE DEF CacheInv
<1>1. /\ UNCHANGED <<conf, rec, cache, told, dialled, queries, alive>> /\ pc[w] = "insert"
      /\ pc' = [pc EXCEPT ![w] = "assign"]
    BY DEF Insert, Goto
<1>2. /\ DOMAIN hosts_db' = DOMAIN hosts_db \cup {Key(w)}
      /\ \A h \in DOMAIN hosts_db : hosts_db'[h] = hosts_db[h]
      /\ Key(w) \notin DOMAIN hosts_db => hosts_db'[Key(w)] = <<>>
    BY DEF Insert, Put
<1>3. Key(w) \in Hosts
    BY DEF Key, Hosts, Typed, TypeOK
<1>4. Typed'
    BY <1>1, <1>2, <1>3 DEF Typed, ConfOK, TypeOK, Lists
<1>5. \A v \in Worker : Key(v)' = Key(v) /\ (v # w => pc'[v] = pc[v]) /\ pc'[w] = "assign"
    BY <1>1 DEF Key, Typed, TypeOK
<1>6. Steps'
    BY <1>1, <1>2, <1>5 DEF Steps
<1>7. Entries' /\ OwnHost' /\ McsIsFresh'
    BY <1>1, <1>2 DEF Entries, OwnHost, McsIsFresh
<1>8. NoEmptyEntry'
    BY <1>1, <1>2, <1>5 DEF NoEmptyEntry
<1> QED BY <1>4, <1>6, <1>7, <1>8

LEMMA AssignKeeps == ASSUME CacheInv, NEW w \in Worker, Assign(w) PROVE CacheInv'
<1> USE DEF CacheInv
<1>1. /\ UNCHANGED <<conf, rec, cache, told, dialled, queries, alive>> /\ pc[w] = "assign"
      /\ pc' = [pc EXCEPT ![w] = "open"]
    BY DEF Assign, Goto
<1>2. Key(w) \in DOMAIN hosts_db /\ told[w] # <<>> /\ told[w][1].host = Key(w) /\ cache[w]
    BY <1>1 DEF Steps
<1>3. /\ DOMAIN hosts_db' = DOMAIN hosts_db /\ hosts_db'[Key(w)] = told[w]
      /\ \A h \in DOMAIN hosts_db : h # Key(w) => hosts_db'[h] = hosts_db[h]
    BY <1>2 DEF Assign, Put
<1>4. Typed'
    BY <1>1, <1>3 DEF Typed, ConfOK, TypeOK
<1>5. \A v \in Worker : Key(v)' = Key(v) /\ (v # w => pc'[v] = pc[v]) /\ pc'[w] = "open"
    BY <1>1 DEF Key, Typed, TypeOK
<1>6. Steps'
    BY <1>1, <1>2, <1>3, <1>5 DEF Steps
<1>7. Entries' /\ OwnHost' /\ McsIsFresh'
    BY <1>1, <1>2, <1>3 DEF Entries, OwnHost, McsIsFresh
<1>8. NoEmptyEntry'
    BY <1>1, <1>2, <1>3, <1>5 DEF NoEmptyEntry
<1> QED BY <1>4, <1>6, <1>7, <1>8

(* A socket is opened to what the entry says, or the resolver. *)
LEMMA OpenKeeps == ASSUME CacheInv, NEW w \in Worker, Open(w) PROVE CacheInv'
<1> USE DEF CacheInv
<1> DEFINE list == IF cache[w] THEN hosts_db[Key(w)] ELSE told[w]
<1>1. /\ UNCHANGED <<conf, hosts_db, rec, cache, told, queries, alive>> /\ pc[w] = "open"
      /\ pc' = [pc EXCEPT ![w] = "idle"] /\ dialled' = [dialled EXCEPT ![w] = list]
    BY DEF Open, Goto
<1>2. cache[w] => Key(w) \in DOMAIN hosts_db
    BY <1>1 DEF Steps
<1>3. list \in Lists /\ (list # <<>> => list[1].host = Key(w)) /\ (rec[w].mcsman => list = told[w])
    BY <1>2 DEF Steps, Entries, Typed, TypeOK
<1> HIDE DEF list
<1>4. Typed'
    BY <1>1, <1>3 DEF Typed, ConfOK, TypeOK
<1>5. \A v \in Worker : /\ Key(v)' = Key(v)
                        /\ v # w => pc'[v] = pc[v] /\ dialled'[v] = dialled[v]
                        /\ pc'[w] = "idle" /\ dialled'[w] = list
    BY <1>1 DEF Key, Typed, TypeOK
<1>6. Steps'
    BY <1>1, <1>5 DEF Steps
<1>7. Entries' /\ OwnHost' /\ McsIsFresh'
    BY <1>1, <1>3, <1>5 DEF Entries, OwnHost, McsIsFresh, Key
<1>8. NoEmptyEntry'
    BY <1>1, <1>5 DEF NoEmptyEntry
<1> QED BY <1>4, <1>6, <1>7, <1>8

(* Nothing is dialled and nothing cached in the beginning. *)
LEMMA InitKeeps == ASSUME Init PROVE CacheInv
<1>1. ConfOK
    BY DEF Init, ConfOK
<1>2. \A w \in Worker : conf[w].default_server.plain \in Records
    <2> TAKE w \in Worker
    <2>1. PICK c \in Confs : conf[w] = Load(c)
        BY <1>1 DEF ConfOK
    <2>2. conf[w].default_server = c.default_server
        BY <2>1 DEF Load
    <2>3. c.default_server.plain \in Basics(c)
        BY DEF Basics
    <2> QED BY <2>2, <2>3 DEF Records
<1>3. DOMAIN hosts_db = {}
    BY DEF Init
<1>4. TypeOK
    BY <1>1, <1>2, <1>3 DEF Init, ConfOK, TypeOK, Lists
<1>5. Steps /\ Entries /\ OwnHost /\ McsIsFresh /\ NoEmptyEntry
    BY <1>3 DEF Init, Steps, Entries, OwnHost, McsIsFresh, NoEmptyEntry
<1> QED BY <1>1, <1>4, <1>5 DEF CacheInv, Typed

(* Every step keeps the invariant of the cache. *)
LEMMA CacheStep == CacheInv /\ [Next]_vars => CacheInv'
<1> SUFFICES ASSUME CacheInv, [Next]_vars PROVE CacheInv'
    OBVIOUS
<1>1. ASSUME UNCHANGED <<hosts_db, progress, queries>>, alive' \in BOOLEAN PROVE CacheInv'
    BY <1>1 DEF progress, CacheInv, Typed, ConfOK, TypeOK, Steps, Entries, OwnHost, McsIsFresh, NoEmptyEntry, Key
<1>2. CASE Race
    BY <1>1, <1>2 DEF Race
<1>3. CASE UNCHANGED vars
    BY <1>1, <1>3 DEF vars, CacheInv, Typed, TypeOK
<1>4. ASSUME NEW w \in Worker, Find(w) PROVE CacheInv'
    <2>1. pc[w] = "find" /\ cache[w]
        BY <1>4 DEF Find, CacheInv, Steps
    <2>2. PICK to \in {"open", "resolve"} :
                pc' = [pc EXCEPT ![w] = to] /\ (to = "open" => Key(w) \in DOMAIN hosts_db)
        BY <1>4 DEF Find, Goto
    <2> QED BY <1>4, <2>1, <2>2, QuietSteps DEF Find
<1>5. ASSUME NEW w \in Worker, ResolveFails(w) PROVE CacheInv'
    BY <1>5, QuietSteps DEF ResolveFails, Goto
<1> QED BY <1>2, <1>3, <1>4, <1>5, HandshakeKeeps, ResolveKeeps, InsertKeeps, AssignKeeps, OpenKeeps
        DEF Next, WorkerStep

(* Configuration, cache and workers are of their types. *)
THEOREM TypeCorrect == Spec => []TypeOK
<1>1. CacheInv => TypeOK
    BY DEF CacheInv, Typed
<1> QED BY <1>1, InitKeeps, CacheStep, PTL DEF Spec

(* A client is sent to the host of its own record. *)
THEOREM HostsAreOwn == Spec => []OwnHost
<1>1. CacheInv => OwnHost
    BY DEF CacheInv
<1> QED BY <1>1, InitKeeps, CacheStep, PTL DEF Spec

(* The records of mcsman are never taken from the cache. *)
THEOREM McsStaysFresh == Spec => []McsIsFresh
<1>1. CacheInv => McsIsFresh
    BY DEF CacheInv
<1> QED BY <1>1, InitKeeps, CacheStep, PTL DEF Spec

(* A host that could not be resolved leaves no entry. *)
THEOREM EntriesAreFilled == Spec => []NoEmptyEntry
<1>1. CacheInv => NoEmptyEntry
    BY DEF CacheInv
<1> QED BY <1>1, InitKeeps, CacheStep, PTL DEF Spec

-----------------------------------------------------------------------------
(* Queries *)

(* The workers that resolve a host for the cache, and those that have. *)
At(h, s) == {w \in Worker : pc[w] = s /\ cache[w] /\ Key(w) = h}

(* As long as a host has no entry, whoever resolved it is about to make    *)
(* it; when it has one, nobody starts to resolve it any more.              *)
Bounded(h) ==
    IF h \in DOMAIN hosts_db
    THEN queries[h] + Cardinality(At(h, "resolve")) <= Cardinality(Worker)
    ELSE queries[h] <= Cardinality(At(h, "insert"))

QueriesBounded == \A h \in Hosts : Bounded(h)

(* Sets of workers are finite. *)
LEMMA WorkersFinite ==
    ASSUME NEW S \in SUBSET Worker
    PROVE  IsFiniteSet(S) /\ Cardinality(S) \in Nat /\ Cardinality(S) <= Cardinality(Worker)
           /\ Cardinality(Worker) \in Nat
BY DialAssumption, FS_Subset, FS_CardinalityType

(* Steps in which no worker resolves a host. *)
LEMMA NoQuery ==
    ASSUME QueriesBounded, queries' = queries, DOMAIN hosts_db' = DOMAIN hosts_db,
           queries \in [Hosts -> Nat], \A h \in Hosts : At(h, "insert")' = At(h, "insert"),
           \A h \in Hosts : h \in DOMAIN hosts_db => At(h, "resolve")' \subseteq At(h, "resolve")
    PROVE  QueriesBounded'
<1> SUFFICES ASSUME NEW h \in Hosts PROVE Bounded(h)'
    BY DEF QueriesBounded
<1>1. CASE h \in DOMAIN hosts_db
    <2>1. At(h, "resolve") \in SUBSET Worker
        BY DEF At
    <2>2. IsFiniteSet(At(h, "resolve"))
        BY <2>1, WorkersFinite
    <2>3. At(h, "resolve")' \in SUBSET At(h, "resolve") /\ At(h, "resolve")' \in SUBSET Worker
        BY <1>1, <2>1
    <2>4. Cardinality(At(h, "resolve")') <= Cardinality(At(h, "resolve"))
        <3> DEFINE S == At(h, "resolve")
                   T == At(h, "resolve")'
        <3>1. IsFiniteSet(S) /\ T \in SUBSET S
            BY <2>2, <2>3
        <3> HIDE DEF S, T
        <3>2. Cardinality(T) <= Cardinality(S)
            BY <3>1, FS_Subset
        <3> QED BY <3>2 DEF S, T
    <2>5. /\ Cardinality(At(h, "resolve")) \in Nat /\ Cardinality(At(h, "resolve")') \in Nat
          /\ Cardinality(Worker) \in Nat /\ queries[h] \in Nat
        BY <2>1, <2>3, WorkersFinite
    <2>6. queries[h] + Cardinality(At(h, "resolve")) <= Cardinality(Worker)
        BY <1>1 DEF QueriesBounded, Bounded
    <2>7. queries[h] + Cardinality(At(h, "resolve")') <= Cardinality(Worker)
        BY <2>4, <2>5, <2>6
    <2> QED BY <1>1, <2>7 DEF Bounded
<1>2. CASE h \notin DOMAIN hosts_db
    <2>1. queries[h] <= Cardinality(At(h, "insert"))
        BY <1>2 DEF QueriesBounded, Bounded
    <2> QED BY <1>2, <2>1 DEF Bounded
<1> QED BY <1>1, <1>2

(* The answer of the resolver is counted, and its worker goes on to make   *)
(* the entry.                                                              *)
LEMMA ResolveCounts ==
    ASSUME CacheInv, QueriesBounded, NEW w \in Worker, Resolve(w), cache[w]
    PROVE  QueriesBounded'
<1> SUFFICES ASSUME NEW h \in Hosts PROVE Bounded(h)'
    BY DEF QueriesBounded
<1> DEFINE R == At(h, "resolve")
           I == At(h, "insert")
           R1 == At(h, "resolve")'
           I1 == At(h, "insert")'
<1>1. /\ UNCHANGED <<hosts_db, rec, cache>> /\ pc[w] = "resolve" /\ pc' = [pc EXCEPT ![w] = "insert"]
      /\ queries' = [queries EXCEPT ![Key(w)] = @ + 1]
    BY DEF Resolve, Goto, Key
<1>2. pc \in [Worker -> {"idle", "find", "resolve", "insert", "assign", "open"}] /\ queries \in [Hosts -> Nat]
    BY DEF CacheInv, Typed, TypeOK
<1>3. \A v \in Worker : Key(v)' = Key(v) /\ pc'[v] = IF v = w THEN "insert" ELSE pc[v]
    BY <1>1, <1>2 DEF Key
<1>4. R \in SUBSET Worker /\ I \in SUBSET Worker
    BY DEF At
<1>5. CASE Key(w) = h
    <2>1. R1 = R \ {w} /\ I1 = I \cup {w} /\ w \in R /\ w \notin I
        BY <1>1, <1>3, <1>5 DEF At
    <2>2. queries'[h] = queries[h] + 1 /\ queries[h] \in Nat
        BY <1>1, <1>2, <1>5
    <2>3. queries[h] + Cardinality(R) <= Cardinality(Worker) \/ h \notin DOMAIN hosts_db
        BY DEF QueriesBounded, Bounded
    <2>4. queries[h] <= Cardinality(I) \/ h \in DOMAIN hosts_db
        BY DEF QueriesBounded, Bounded
    <2> HIDE DEF R, I, R1, I1
    <2>5. IsFiniteSet(R) /\ Cardinality(R) \in Nat /\ IsFiniteSet(I) /\ Cardinality(I) \in Nat
          /\ Cardinality(Worker) \in Nat
        BY <1>4, WorkersFinite
    <2>6. Cardinality(R \ {w}) = Cardinality(R) - 1
        BY <2>1, <2>5, FS_RemoveElement
    <2>7. Cardinality(I \cup {w}) = Cardinality(I) + 1
        BY <2>1, <2>5, FS_AddElement
    <2>8. h \in DOMAIN hosts_db => queries'[h] + Cardinality(R1) <= Cardinality(Worker)
        BY <2>1, <2>2, <2>3, <2>5, <2>6
    <2>9. h \notin DOMAIN hosts_db => queries'[h] <= Cardinality(I1)
        BY <2>1, <2>2, <2>4, <2>5, <2>7
    <2> QED BY <1>1, <2>8, <2>9 DEF Bounded, R1, I1
<1>6. CASE Key(w) # h
    <2>1. R1 = R /\ I1 = I
        BY <1>1, <1>3, <1>6 DEF At
    <2>2. queries'[h] = queries[h]
        BY <1>1, <1>2, <1>6
    <2>3. h \in DOMAIN hosts_db => queries'[h] + Cardinality(R1) <= Cardinality(Worker)
        BY <2>1, <2>2 DEF QueriesBounded, Bounded
    <2>4. h \notin DOMAIN hosts_db => queries'[h] <= Cardinality(I1)
        BY <2>1, <2>2 DEF QueriesBounded, Bounded
    <2> QED BY <1>1, <2>3, <2>4 DEF Bounded
<1> QED BY <1>5, <1>6

(* When the entry is made, those who resolve its host have not done so     *)
(* yet, and those who have are about to make it.                           *)
LEMMA InsertCounts ==
    ASSUME CacheInv, QueriesBounded, NEW w \in Worker, Insert(w)
    PROVE  QueriesBounded'
<1> SUFFICES ASSUME NEW h \in Hosts PROVE Bounded(h)'
    BY DEF QueriesBounded
<1> DEFINE R == At(h, "resolve")
           I == At(h, "insert")
           R1 == At(h, "resolve")'
           I1 == At(h, "insert")'
<1>1. /\ UNCHANGED <<rec, cache, queries>> /\ pc[w] = "insert" /\ pc' = [pc EXCEPT ![w] = "assign"]
      /\ DOMAIN hosts_db' = DOMAIN hosts_db \cup {Key(w)}
    BY DEF Insert, Goto, Put
<1>2. pc \in [Worker -> {"idle", "find", "resolve", "insert", "assign", "open"}] /\ queries[h] \in Nat
    BY DEF CacheInv, Typed, TypeOK
<1>3. \A v \in Worker : Key(v)' = Key(v) /\ pc'[v] = IF v = w THEN "assign" ELSE pc[v]
    BY <1>1, <1>2 DEF Key
<1>4. R1 = R
    BY <1>1, <1>3 DEF At
<1>5. Key(w) # h => I1 = I
    BY <1>1, <1>3 DEF At
<1>6. h \in DOMAIN hosts_db => queries[h] + Cardinality(R) <= Cardinality(Worker)
    BY DEF QueriesBounded, Bounded
<1>7. h \notin DOMAIN hosts_db => queries[h] <= Cardinality(I)
    BY DEF QueriesBounded, Bounded
<1>8. R \in SUBSET Worker /\ I \in SUBSET Worker /\ R \cap I = {}
    BY DEF At
<1> HIDE DEF R, I, R1, I1
<1>9. Cardinality(R) + Cardinality(I) <= Cardinality(Worker)
    <2>1. IsFiniteSet(R) /\ Cardinality(R) \in Nat /\ IsFiniteSet(I) /\ Cardinality(I) \in Nat
        BY <1>8, WorkersFinite
    <2>2. Cardinality(R \cup I) = Cardinality(R) + Cardinality(I) - Cardinality(R \cap I)
        BY <2>1, FS_Union
    <2>3. Cardinality(R \cap I) = 0
        BY <1>8, FS_EmptySet
    <2>4. Cardinality(R \cup I) <= Cardinality(Worker)
        BY <1>8, WorkersFinite
    <2> QED BY <2>1, <2>2, <2>3, <2>4
<1>10. Cardinality(R) \in Nat /\ Cardinality(I) \in Nat /\ Cardinality(Worker) \in Nat
    BY <1>8, WorkersFinite
<1>11. CASE Key(w) = h \/ h \in DOMAIN hosts_db
    <2>1. queries[h] + Cardinality(R1) <= Cardinality(Worker)
        BY <1>2, <1>4, <1>6, <1>7, <1>9, <1>10
    <2> QED BY <1>1, <1>11, <2>1 DEF Bounded, R1
<1>12. CASE Key(w) # h /\ h \notin DOMAIN hosts_db
    BY <1>1, <1>5, <1>7, <1>12 DEF Bounded, I1
<1> QED BY <1>11, <1>12

(* No step resolves a host more often than the workers that are there. *)
LEMMA QueriesStep == CacheInv /\ QueriesBounded /\ [Next]_vars => QueriesBounded'
<1> SUFFICES ASSUME CacheInv, QueriesBounded, [Next]_vars PROVE QueriesBounded'
    OBVIOUS
<1>1. /\ pc \in [Worker -> {"idle", "find", "resolve", "insert", "assign", "open"}]
      /\ rec \in [Worker -> Records] /\ cache \in [Worker -> BOOLEAN] /\ queries \in [Hosts -> Nat]
    BY DEF CacheInv, Typed, TypeOK
<1>2. ASSUME UNCHANGED <<hosts_db, queries, pc, rec, cache>> PROVE QueriesBounded'
    <2>1. \A h \in Hosts : At(h, "insert")' = At(h, "insert") /\ At(h, "resolve")' = At(h, "resolve")
        BY <1>2 DEF At, Key
    <2> QED BY <1>1, <1>2, <2>1, NoQuery
<1>3. CASE Race \/ UNCHANGED vars
    BY <1>2, <1>3 DEF Race, vars, progress
<1>4. ASSUME NEW w \in Worker, NEW c \in Confs, NEW n, NEW fml \in BOOLEAN, Handshake(w, Load(c), n, fml)
      PROVE  QueriesBounded'
    <2> DEFINE r == Record(Load(c), n, fml)
               caches == Caches(Load(c), r)
               to == IF caches THEN "find" ELSE "resolve"
    <2>1. /\ rec' = [rec EXCEPT ![w] = r] /\ cache' = [cache EXCEPT ![w] = caches]
          /\ pc' = [pc EXCEPT ![w] = to] /\ pc[w] = "idle" /\ UNCHANGED <<hosts_db, queries>>
        BY <1>4 DEF Handshake, Goto
    <2>2. to # "insert" /\ (to = "resolve" => ~caches)
        OBVIOUS
    <2> HIDE DEF r, caches, to
    <2>3. \A h \in Hosts : At(h, "insert")' = At(h, "insert") /\ At(h, "resolve")' = At(h, "resolve")
        BY <1>1, <2>1, <2>2 DEF At, Key
    <2> QED BY <1>1, <2>1, <2>3, NoQuery
<1>5. ASSUME NEW w \in Worker, UNCHANGED <<rec, cache, queries>>, DOMAIN hosts_db' = DOMAIN hosts_db,
             NEW to \in {"idle", "open", "resolve"}, pc' = [pc EXCEPT ![w] = to], pc[w] # "insert",
             to = "resolve" => Key(w) \notin DOMAIN hosts_db
      PROVE  QueriesBounded'
    <2>1. \A h \in Hosts : At(h, "insert")' = At(h, "insert")
        BY <1>1, <1>5 DEF At, Key
    <2>2. \A h \in Hosts : h \in DOMAIN hosts_db => At(h, "resolve")' \subseteq At(h, "resolve")
        BY <1>1, <1>5 DEF At, Key
    <2> QED BY <1>1, <1>5, <2>1, <2>2, NoQuery
<1>6. ASSUME NEW w \in Worker, Find(w) PROVE QueriesBounded'
    BY <1>5, <1>6 DEF Find, Goto
<1>7. ASSUME NEW w \in Worker, ResolveFails(w) PROVE QueriesBounded'
    BY <1>5, <1>7 DEF ResolveFails, Goto
<1>8. ASSUME NEW w \in Worker, Open(w) PROVE QueriesBounded'
    BY <1>5, <1>8 DEF Open, Goto
<1>9. ASSUME NEW w \in Worker, Assign(w) PROVE QueriesBounded'
    <2>1. DOMAIN hosts_db' = DOMAIN hosts_db
        BY <1>9 DEF Assign, Put, CacheInv, Steps
    <2> QED BY <1>5, <1>9, <2>1 DEF Assign, Goto
<1>10. ASSUME NEW w \in Worker, Resolve(w) PROVE QueriesBounded'
    <2>1. CASE ~cache[w]
        BY <1>5, <1>10, <2>1 DEF Resolve, Goto
    <2> QED BY <1>10, <2>1, ResolveCounts
<1> QED BY <1>3, <1>4, <1>6, <1>7, <1>8, <1>9, <1>10, InsertCounts DEF Next, WorkerStep

(* However many clients come and however the workers interleave, a host is *)
(* resolved for the cache at most once by each worker.                     *)
THEOREM QueriesAreFew == Spec => []AskedOnce
<1>1. Init => QueriesBounded
    <2> SUFFICES ASSUME Init, NEW h \in Hosts PROVE Bounded(h)
        BY DEF QueriesBounded
    <2>1. queries[h] = 0 /\ h \notin DOMAIN hosts_db
        BY DEF Init
    <2>2. At(h, "insert") \in SUBSET Worker
        BY DEF At
    <2>3. Cardinality(At(h, "insert")) \in Nat
        BY <2>2, WorkersFinite
    <2> QED BY <2>1, <2>3 DEF Bounded
<1>2. CacheInv /\ QueriesBounded => AskedOnce
    <2> SUFFICES ASSUME CacheInv, QueriesBounded, NEW h \in Hosts PROVE queries[h] <= Cardinality(Worker)
        BY DEF AskedOnce
    <2> DEFINE r == Cardinality(At(h, "resolve"))
               i == Cardinality(At(h, "insert"))
    <2>1. queries[h] + r <= Cardinality(Worker) \/ queries[h] <= i
        BY DEF QueriesBounded, Bounded
    <2>2. At(h, "resolve") \in SUBSET Worker /\ At(h, "insert") \in SUBSET Worker
        BY DEF At
    <2>3. r \in Nat /\ i \in Nat /\ i <= Cardinality(Worker) /\ Cardinality(Worker) \in Nat
        BY <2>2, WorkersFinite
    <2>4. queries[h] \in Nat
        BY DEF CacheInv, Typed, TypeOK
    <2> HIDE DEF r, i
    <2> QED BY <2>1, <2>3, <2>4
<1> QED BY <1>1, <1>2, InitKeeps, CacheStep, QueriesStep, PTL DEF Spec

=============================================================================
