--------------------------- MODULE RecordsProofs ---------------------------
(***************************************************************************)
(* Proofs about Records for every value of its constants.                  *)
(***************************************************************************)
EXTENDS Records, TLAPS

-----------------------------------------------------------------------------
(* Reading a record *)

Ends == {"ok", "yaml", "field"}

LEMMA DefaultIsBasic == default_record \in Basic /\ New(default_record) \in Servers
BY RecordsAssumption DEF default_record, New, Basic, Servers, Optional

(* How fill_record ends. *)
EndOf(node) ==
    IF node.kind = "drop" THEN "ok"
    ELSE IF node.kind = "scalar" THEN "field" ELSE IF node.port = "bad" THEN "yaml" ELSE "ok"

(* fill_record keeps the types, makes of a record what the node says, and    *)
(* ends in a way that does not depend on the record.                        *)
LEMMA FillOK ==
    ASSUME NEW node \in Nodes \cup FmlNodes, NEW record \in Basic
    PROVE  LET read == fill_record(node, record)
           IN /\ read.result \in Basic
              /\ read.end = EndOf(node)
              /\ read.end = "ok" => /\ Says(node, read.result)
                                    /\ read.result.drop <=> node.kind = "drop"
<1> DEFINE kept == Mentioned(node, record)
           read == [kept EXCEPT !.drop = FALSE]
<1>1. /\ node.address \in Addresses \cup {"unset"}
      /\ node.port \in Ports \cup {"unset", "bad"}
    BY DEF Nodes, FmlNodes
<1>2. /\ kept \in Basic
      /\ node.address # "unset" => kept.address = node.address
    BY <1>1 DEF Mentioned, Basic
<1> HIDE DEF kept
<1>3. /\ read \in Basic /\ ~read.drop
      /\ read.address = kept.address
    BY <1>2 DEF Basic
<1> HIDE DEF read
<1> DEFINE filled == fill_record(node, record)
<1> SUFFICES /\ filled.result \in Basic
             /\ filled.end = EndOf(node)
             /\ filled.end = "ok" => /\ Says(node, filled.result)
                                     /\ filled.result.drop <=> node.kind = "drop"
    OBVIOUS
<1>4. ASSUME NEW result \in Basic, NEW end \in Ends, filled = Outcome(result, end),
             end = EndOf(node),
             end = "ok" => Says(node, result) /\ (result.drop <=> node.kind = "drop")
      PROVE  /\ filled.result \in Basic
             /\ filled.end = EndOf(node)
             /\ filled.end = "ok" => /\ Says(node, filled.result)
                                     /\ filled.result.drop <=> node.kind = "drop"
    BY <1>4 DEF Outcome
<1>5. CASE node.kind = "drop"
    <2> DEFINE dropped == [record EXCEPT !.drop = TRUE]
    <2>1. filled = Outcome(dropped, "ok") /\ EndOf(node) = "ok" /\ "ok" \in Ends
        BY <1>5 DEF fill_record, EndOf, Ends
    <2>2. dropped \in Basic /\ dropped.drop
        BY DEF Basic
    <2> HIDE DEF dropped, filled
    <2> QED BY <1>4, <1>5, <2>1, <2>2 DEF Says
<1>6. CASE node.kind = "scalar"
    <2>1. filled = Outcome(record, "field") /\ EndOf(node) = "field" /\ "field" \in Ends
        BY <1>6 DEF fill_record, EndOf, Ends
    <2> HIDE DEF filled
    <2> QED BY <1>4, <2>1
<1>7. CASE node.kind \notin {"drop", "scalar"} /\ node.port = "bad"
    <2>1. filled = Outcome(read, "yaml") /\ EndOf(node) = "yaml" /\ "yaml" \in Ends
        BY <1>7 DEF fill_record, read, kept, EndOf, Ends
    <2> HIDE DEF filled
    <2> QED BY <1>3, <1>4, <2>1
<1>8. CASE node.kind \notin {"drop", "scalar"} /\ node.port # "bad"
    <2> DEFINE all == [read EXCEPT !.port = Port(node)]
    <2>1. filled = Outcome(all, "ok") /\ EndOf(node) = "ok" /\ "ok" \in Ends
        BY <1>8 DEF fill_record, read, kept, EndOf, Ends
    <2>2. Port(node) \in Ports
        BY <1>1, <1>8, RecordsAssumption DEF Port
    <2>3. /\ all \in Basic /\ ~all.drop /\ all.port = Port(node)
          /\ all.address = read.address
        BY <1>3, <2>2 DEF Basic
    <2> HIDE DEF all, filled
    <2>4. Says(node, all)
        BY <1>2, <1>3, <1>8, <2>3 DEF Says
    <2> QED BY <1>4, <1>8, <2>1, <2>3, <2>4
<1> QED BY <1>5, <1>6, <1>7, <1>8

(* The same of a server_record. *)
LEMMA ReadOK ==
    ASSUME NEW node \in Nodes, NEW server \in Servers
    PROVE  LET read == Read(node, server)
           IN /\ read.result \in Servers /\ read.end \in Ends
              /\ read.end = "ok" => Decides(node, read.result)
<1> DEFINE base == fill_record(node, server.auto)
           modded == fill_record(node.fml, default_record)
           read == Read(node, server)
           Fml(fml, end) == Outcome([auto |-> base.result, fml |-> fml], end)
<1> SUFFICES /\ read.result \in Servers /\ read.end \in Ends
             /\ read.end = "ok" => Decides(node, read.result)
    OBVIOUS
<1>1. /\ server.auto \in Basic /\ server.fml \in Optional(Basic)
      /\ node.fml \in FmlNodes /\ default_record \in Basic
      /\ node.fml.kind \in {"map", "drop", "scalar", "true", "false", "absent"}
    BY DefaultIsBasic DEF Servers, Nodes, FmlNodes
<1>2. /\ base.result \in Basic /\ base.end \in Ends
      /\ base.end = "ok" => /\ Says(node, base.result)
                            /\ base.result.drop <=> node.kind = "drop"
    BY <1>1, FillOK DEF Ends, EndOf
<1>3. /\ modded.result \in Basic /\ modded.end \in Ends
      /\ modded.end = "ok" => Says(node.fml, modded.result)
    BY <1>1, FillOK DEF Ends, EndOf
<1>4. read = IF base.end # "ok" \/ base.result.drop THEN Fml(server.fml, base.end)
             ELSE CASE node.fml.kind = "absent" -> Fml(server.fml, "ok")
                    [] node.fml.kind = "true" -> Fml({}, "ok")
                    [] node.fml.kind = "false" -> Fml({default_record}, "ok")
                    [] node.fml.kind = "scalar" -> Fml(server.fml, "field")
                    [] OTHER -> Fml({modded.result}, modded.end)
    BY DEF Read
<1> HIDE DEF base, modded, read
<1>5. ASSUME NEW fml \in Optional(Basic), NEW end \in Ends,
             read = Fml(fml, end),
             end = "ok" => base.end = "ok" /\ (node.kind = "map" => SaysFml(node.fml, fml))
      PROVE  /\ read.result \in Servers /\ read.end \in Ends
             /\ read.end = "ok" => Decides(node, read.result)
    BY <1>2, <1>5 DEF Outcome, Servers, Decides
<1> HIDE DEF Fml
<1>6. "ok" \in Ends /\ "field" \in Ends /\ "field" # "ok"
    BY DEF Ends
<1>7. CASE base.end # "ok" \/ base.result.drop
    <2>1. read = Fml(server.fml, base.end)
        BY <1>4, <1>7
    <2>2. base.end = "ok" => node.kind # "map"
        BY <1>2, <1>7
    <2> QED BY <1>1, <1>2, <1>5, <2>1, <2>2
<1>8. CASE base.end = "ok" /\ ~base.result.drop
    <2>1. CASE node.fml.kind = "absent"
        <3>1. read = Fml(server.fml, "ok") /\ SaysFml(node.fml, server.fml)
            BY <1>4, <1>8, <2>1 DEF SaysFml
        <3> QED BY <1>1, <1>5, <1>6, <1>8, <3>1
    <2>2. CASE node.fml.kind = "true"
        <3>1. read = Fml({}, "ok") /\ SaysFml(node.fml, {}) /\ {} \in Optional(Basic)
            BY <1>4, <1>8, <2>2 DEF SaysFml, Optional
        <3> QED BY <1>5, <1>6, <1>8, <3>1
    <2>3. CASE node.fml.kind = "false"
        <3>1. /\ read = Fml({default_record}, "ok") /\ SaysFml(node.fml, {default_record})
              /\ {default_record} \in Optional(Basic)
            BY <1>1, <1>4, <1>8, <2>3 DEF SaysFml, Optional
        <3> QED BY <1>5, <1>6, <1>8, <3>1
    <2>4. CASE node.fml.kind = "scalar"
        <3>1. read = Fml(server.fml, "field")
            BY <1>4, <1>8, <2>4
        <3> QED BY <1>1, <1>5, <1>6, <3>1
    <2>5. CASE node.fml.kind \in {"map", "drop"}
        <3>1. read = Fml({modded.result}, modded.end) /\ {modded.result} \in Optional(Basic)
            BY <1>3, <1>4, <1>8, <2>5 DEF Optional
        <3>2. modded.end = "ok" => SaysFml(node.fml, {modded.result})
            BY <1>3, <2>5 DEF SaysFml
        <3> QED BY <1>3, <1>5, <1>8, <3>1, <3>2
    <2> QED BY <1>1, <2>1, <2>2, <2>3, <2>4, <2>5
<1> QED BY <1>7, <1>8

(* How the reading of a node ends does not depend on the record. *)
LEMMA SameEnd ==
    ASSUME NEW node \in Nodes, NEW server \in Servers, NEW other \in Servers
    PROVE  Read(node, server).end = Read(node, other).end
<1> DEFINE modded == fill_record(node.fml, default_record)
           end == IF EndOf(node) # "ok" \/ node.kind = "drop" THEN EndOf(node)
                  ELSE CASE node.fml.kind \in {"absent", "true", "false"} -> "ok"
                         [] node.fml.kind = "scalar" -> "field"
                         [] OTHER -> modded.end
<1>1. ASSUME NEW s \in Servers PROVE Read(node, s).end = end
    <2> DEFINE base == fill_record(node, s.auto)
    <2>1. s.auto \in Basic
        BY DEF Servers
    <2>2. base.end = EndOf(node) /\ (base.end = "ok" => (base.result.drop <=> node.kind = "drop"))
        BY <2>1, FillOK
    <2>3. node.fml.kind \in {"map", "drop", "scalar", "true", "false", "absent"}
        BY DEF Nodes, FmlNodes
    <2> HIDE DEF modded
    <2>4. Read(node, s).end =
              IF base.end # "ok" \/ base.result.drop THEN base.end
              ELSE CASE node.fml.kind \in {"absent", "true", "false"} -> "ok"
                     [] node.fml.kind = "scalar" -> "field"
                     [] OTHER -> modded.end
        BY <2>3 DEF Read, Outcome, modded
    <2> HIDE DEF base
    <2> QED BY <2>2, <2>4 DEF end
<1> QED BY <1>1

LEMMA EntryOK ==
    ASSUME NEW node \in Nodes, NEW entry \in Optional(Servers)
    PROVE  LET read == ReadConf(entry, node)
           IN /\ read.result \in Optional(Servers) /\ read.end \in Ends
              /\ CanBeRead(node) =>
                    /\ read.end = "ok"
                    /\ \E server \in read.result : Decides(node, server)
              /\ read.end = "ok" /\ Given(node) => CanBeRead(node)
<1>1. New(default_record) \in Servers
    BY DefaultIsBasic
<1>2. CASE entry = {}
    <2> DEFINE new == Read(node, New(default_record))
    <2>1. /\ new.result \in Servers /\ new.end \in Ends
          /\ new.end = "ok" => Decides(node, new.result)
        BY <1>1, ReadOK
    <2>2. ReadConf(entry, node) = Outcome(IF new.end = "ok" THEN {new.result} ELSE {}, new.end)
        BY <1>2 DEF ReadConf
    <2>3. CanBeRead(node) <=> Given(node) /\ new.end = "ok"
        BY DEF CanBeRead
    <2> HIDE DEF new
    <2> QED BY <2>1, <2>2, <2>3 DEF Outcome, Optional
<1>3. CASE entry # {}
    <2>1. PICK server \in Servers : entry = {server}
        BY <1>3 DEF Optional
    <2> DEFINE read == Read(node, server)
    <2>2. /\ read.result \in Servers /\ read.end \in Ends
          /\ read.end = "ok" => Decides(node, read.result)
        BY ReadOK
    <2>3. (CHOOSE s \in entry : TRUE) = server
        BY <2>1
    <2>4. ReadConf(entry, node) = Outcome({read.result}, read.end)
        BY <1>3, <2>3 DEF ReadConf
    <2>5. CanBeRead(node) <=> Given(node) /\ read.end = "ok"
        BY <1>1, SameEnd DEF CanBeRead
    <2> HIDE DEF read
    <2> QED BY <2>2, <2>4, <2>5 DEF Outcome, Optional
<1> QED BY <1>2, <1>3

-----------------------------------------------------------------------------
(* Reading the files *)

FilesTyped == main \in MainFiles /\ file \in [Names -> Nodes]

(* What the files that can be read decide, those of some servers left out. *)
MainDecides(c) == CanBeRead(main.default) => Decides(main.default, c.default)
OwnDecide(c, left) ==
    \A n \in Names \ left : CanBeRead(file[n]) =>
        \E server \in c.servers[n] : Decides(file[n], server)

(* A domain that was there before, or one that check_domain has not refused. *)
Sound(before) == {before} \cup (Domains \ Refused)

(* A configuration in whose place another may come. *)
LEMMA ConfFields ==
    ASSUME NEW c \in Confs
    PROVE  c.domain \in Domains /\ c.default \in Servers
           /\ c.servers \in [Names -> Optional(Servers)]
BY DEF Confs

LEMMA WithServers ==
    ASSUME NEW c \in Confs, NEW servers \in [Names -> Optional(Servers)]
    PROVE  LET d == [c EXCEPT !.servers = servers]
           IN /\ d \in Confs /\ d.servers = servers
              /\ d.domain = c.domain /\ d.default = c.default
BY DEF Confs

LEMMA ListedOK ==
    FilesTyped => \A c \in Confs : \A these \in SUBSET Names :
        LET d == WithListed(c, these)
        IN d \in Confs /\ d.domain = c.domain /\ d.default = c.default
<1> SUFFICES ASSUME FilesTyped, NEW c \in Confs, NEW these \in SUBSET Names
             PROVE  LET d == WithListed(c, these)
                    IN d \in Confs /\ d.domain = c.domain /\ d.default = c.default
    OBVIOUS
<1> DEFINE servers == [n \in Names |-> IF n \in these THEN {ListedServer(n).result}
                                                    ELSE c.servers[n]]
<1>1. \A n \in Names : ListedServer(n).result \in Servers
    BY DefaultIsBasic, ReadOK DEF FilesTyped, MainFiles, ListedServer
<1>2. servers \in [Names -> Optional(Servers)]
    BY <1>1, ConfFields DEF Optional
<1>3. WithListed(c, these) = [c EXCEPT !.servers = servers]
    BY ConfFields DEF WithListed
<1> HIDE DEF servers
<1> QED BY <1>2, <1>3, WithServers

(* What the main file makes of a configuration. *)
LEMMA MainOK ==
    FilesTyped => \A c \in Confs : \A m \in ReadMain(c) :
        /\ m.result \in Confs /\ m.end \in Ends
        /\ m.end # "field" => m.result.domain \in Sound(c.domain) /\ MainDecides(m.result)
<1> SUFFICES ASSUME FilesTyped, NEW c \in Confs, NEW m \in ReadMain(c)
             PROVE  /\ m.result \in Confs /\ m.end \in Ends
                    /\ m.end # "field" =>
                          m.result.domain \in Sound(c.domain) /\ MainDecides(m.result)
    OBVIOUS
<1> DEFINE domain == IF main.domain = "unset" THEN c.domain ELSE main.domain
           c1 == [c EXCEPT !.domain = domain]
           default == IF Given(main.default) THEN Read(main.default, c1.default)
                                             ELSE Outcome(c1.default, "ok")
           c2 == [c1 EXCEPT !.default = default.result]
<1>1. /\ main.domain \in Domains \cup {"unset"} /\ main.default \in Nodes
      /\ main.servers \in [Names -> Nodes]
    BY DEF FilesTyped, MainFiles
<1>2. domain \in Domains /\ (main.domain \notin Refused => domain \in Sound(c.domain))
    BY <1>1, ConfFields DEF Sound
<1>3. c1 \in Confs /\ c1.domain = domain
    BY <1>2 DEF Confs
<1> HIDE DEF domain
<1>4. /\ default.result \in Servers /\ default.end \in Ends
      /\ CanBeRead(main.default) =>
            default.end = "ok" /\ Decides(main.default, default.result)
    <2>1. c1.default \in Servers /\ New(default_record) \in Servers
        BY <1>3, ConfFields, DefaultIsBasic
    <2>2. CASE Given(main.default)
        <3>1. /\ default.result \in Servers /\ default.end \in Ends
              /\ default.end = "ok" => Decides(main.default, default.result)
            BY <1>1, <2>1, <2>2, ReadOK
        <3>2. CanBeRead(main.default) => default.end = "ok"
            BY <1>1, <2>1, <2>2, SameEnd DEF CanBeRead
        <3> QED BY <3>1, <3>2
    <2>3. CASE ~Given(main.default)
        BY <2>1, <2>3 DEF Outcome, Ends, CanBeRead
    <2> QED BY <2>2, <2>3
<1>5. ReadMain(c) =
          IF main.domain \in Refused \/ main.default.kind \in {"drop", "scalar"}
          THEN {Outcome(c1, "field")}
          ELSE IF default.end # "ok" THEN {Outcome(c2, default.end)}
          ELSE IF ListedWell = Listed THEN {Outcome(WithListed(c2, Listed), "ok")}
          ELSE {Outcome(WithListed(c2, before), ListedServer(n).end) :
                   before \in SUBSET ListedWell, n \in Listed \ ListedWell}
    BY DEF ReadMain, domain
<1> HIDE DEF c1, default
<1>6. c2 \in Confs /\ c2.domain = domain /\ c2.default = default.result
    BY <1>3, <1>4 DEF Confs
<1> HIDE DEF c2
<1>7. Listed \subseteq Names /\ ListedWell \subseteq Listed
    BY DEF Listed, ListedWell
<1>8. \A these \in SUBSET Names :
          /\ WithListed(c2, these) \in Confs
          /\ WithListed(c2, these).domain = domain
          /\ WithListed(c2, these).default = default.result
    BY <1>6, ListedOK
<1>9. CASE main.domain \in Refused \/ main.default.kind \in {"drop", "scalar"}
    BY <1>3, <1>5, <1>9 DEF Outcome, Ends
<1>10. CASE ~(main.domain \in Refused \/ main.default.kind \in {"drop", "scalar"})
    <2>1. CASE default.end # "ok"
        <3>1. m.result = c2 /\ m.end = default.end
            BY <1>5, <1>10, <2>1 DEF Outcome
        <3>2. MainDecides(m.result)
            BY <1>4, <2>1 DEF MainDecides
        <3> QED BY <1>2, <1>4, <1>6, <1>10, <3>1, <3>2
    <2>2. CASE default.end = "ok" /\ ListedWell = Listed
        <3>1. m = Outcome(WithListed(c2, Listed), "ok")
            BY <1>5, <1>10, <2>2
        <3>2. m.result = WithListed(c2, Listed) /\ m.end = "ok"
            BY <3>1 DEF Outcome
        <3>3. MainDecides(m.result)
            BY <1>4, <1>7, <1>8, <3>2 DEF MainDecides
        <3> QED BY <1>2, <1>7, <1>8, <1>10, <3>2, <3>3 DEF Ends
    <2>3. CASE default.end = "ok" /\ ListedWell # Listed
        <3>1. PICK before \in SUBSET ListedWell, n \in Listed \ ListedWell :
                  m = Outcome(WithListed(c2, before), ListedServer(n).end)
            BY <1>5, <1>10, <2>3
        <3>2. m.result = WithListed(c2, before) /\ m.end = ListedServer(n).end
            BY <3>1 DEF Outcome
        <3>3. n \in Names /\ before \in SUBSET Names
            BY <1>7
        <3>4. m.end \in Ends /\ m.end # "ok"
            <4>1. ListedServer(n).end \in Ends
                BY <1>1, <3>3, DefaultIsBasic, ReadOK DEF ListedServer
            <4> QED BY <3>2, <4>1, <1>7 DEF ListedWell
        <3>5. MainDecides(m.result)
            BY <1>4, <1>8, <3>2, <3>3 DEF MainDecides
        <3> QED BY <1>2, <1>8, <1>10, <3>2, <3>3, <3>4, <3>5
    <2> QED BY <2>1, <2>2, <2>3
<1> QED BY <1>9, <1>10

LEMMA VisitOK ==
    FilesTyped => \A c \in Confs, n \in Names :
        /\ Visit(c, n).result \in Optional(Servers) /\ Visit(c, n).end \in Ends
        /\ CanBeRead(file[n]) =>
               /\ Visit(c, n).end = "ok"
               /\ \E server \in Visit(c, n).result : Decides(file[n], server)
BY EntryOK, ConfFields DEF FilesTyped, Visit

(* What the servers' files make of it. *)
LEMMA FilesOK ==
    FilesTyped => \A c \in Confs : \A load \in LoadFiles(c) :
        /\ load.result \in Confs /\ load.end \in Ends
        /\ load.result.domain = c.domain /\ load.result.default = c.default
        /\ load.unread \subseteq Names /\ (load.end = "ok" => load.unread = {})
        /\ OwnDecide(load.result, load.unread)
<1> SUFFICES ASSUME FilesTyped, NEW c \in Confs, NEW load \in LoadFiles(c)
             PROVE  /\ load.result \in Confs /\ load.end \in Ends
                    /\ load.result.domain = c.domain /\ load.result.default = c.default
                    /\ load.unread \subseteq Names /\ (load.end = "ok" => load.unread = {})
                    /\ OwnDecide(load.result, load.unread)
    OBVIOUS
<1> DEFINE servers(these) == [n \in Names |-> IF n \in these THEN Visit(c, n).result
                                                           ELSE c.servers[n]]
<1>1. ASSUME NEW these \in SUBSET Names
      PROVE  LET d == WithFiles(c, these)
             IN /\ d \in Confs /\ d.domain = c.domain /\ d.default = c.default
                /\ \A n \in these : d.servers[n] = Visit(c, n).result
    <2>1. servers(these) \in [Names -> Optional(Servers)]
        BY VisitOK, ConfFields
    <2>2. WithFiles(c, these) = [c EXCEPT !.servers = servers(these)]
        BY ConfFields DEF WithFiles
    <2>3. \A n \in these : servers(these)[n] = Visit(c, n).result
        OBVIOUS
    <2> HIDE DEF servers
    <2> QED BY <2>1, <2>2, <2>3, WithServers
<1>2. Present \subseteq Names /\ ReadWell(c) \subseteq Present
    BY DEF Present, ReadWell
<1>3. ASSUME NEW these \in SUBSET Names, NEW left, load.result = WithFiles(c, these),
             load.unread = left, \A n \in Present \ left : CanBeRead(file[n]) => n \in these
      PROVE  OwnDecide(load.result, load.unread)
    <2> SUFFICES ASSUME NEW n \in Names \ left, CanBeRead(file[n])
                 PROVE  \E server \in load.result.servers[n] : Decides(file[n], server)
        BY <1>3 DEF OwnDecide
    <2>1. n \in Present /\ n \in these
        BY <1>3 DEF CanBeRead, Present
    <2> QED BY <1>1, <1>3, <2>1, VisitOK
<1>4. CASE ReadWell(c) = Present
    <2>1. load = Load(WithFiles(c, Present), "ok", {})
        BY <1>4 DEF LoadFiles
    <2>2. load.result = WithFiles(c, Present) /\ load.end = "ok" /\ load.unread = {}
        BY <2>1 DEF Load
    <2> QED BY <1>1, <1>2, <1>3, <2>2 DEF Ends
<1>5. CASE ReadWell(c) # Present
    <2> HIDE DEF servers
    <2> DEFINE Ended(before, n) == Load(WithFiles(c, before \cup {n}), Visit(c, n).end,
                                        Present \ (before \cup {n}))
    <2>1. LoadFiles(c) = {Ended(before, n) :
                             before \in SUBSET ReadWell(c), n \in Present \ ReadWell(c)}
        BY <1>5 DEF LoadFiles
    <2> HIDE DEF Ended
    <2>2. PICK before \in SUBSET ReadWell(c), n \in Present \ ReadWell(c) :
              load = Ended(before, n)
        BY <2>1
    <2>3. /\ load.result = WithFiles(c, before \cup {n}) /\ load.end = Visit(c, n).end
          /\ load.unread = Present \ (before \cup {n})
        BY <2>2 DEF Load, Ended
    <2>4. n \in Names /\ before \cup {n} \in SUBSET Names
        BY <1>2
    <2>5. load.end \in Ends /\ load.end # "ok"
        BY <1>2, <2>3, <2>4, VisitOK DEF ReadWell
    <2>6. OwnDecide(load.result, load.unread)
        BY <1>3, <2>3, <2>4
    <2> QED BY <1>1, <1>2, <2>3, <2>4, <2>5, <2>6
<1> QED BY <1>4, <1>5

(* Whatever has been loaded is a configuration, and what may be published    *)
(* is what the files say that the load has come to.                         *)
Loads(c) ==
    \A load \in LoadAll(c) :
        /\ load.result \in Confs /\ load.unread \subseteq Names
        /\ load.end = "ok" => load.unread = {}
        /\ load.end # "field" => /\ load.result.domain \in Sound(c.domain)
                                 /\ MainDecides(load.result)
                                 /\ OwnDecide(load.result, load.unread)

LEMMA LoadsOK == FilesTyped => \A c \in Confs : Loads(c)
<1> SUFFICES ASSUME FilesTyped, NEW c \in Confs, NEW load \in LoadAll(c)
             PROVE  /\ load.result \in Confs /\ load.unread \subseteq Names
                    /\ load.end = "ok" => load.unread = {}
                    /\ load.end # "field" => /\ load.result.domain \in Sound(c.domain)
                                             /\ MainDecides(load.result)
                                             /\ OwnDecide(load.result, load.unread)
    BY DEF Loads
<1>1. PICK m \in ReadMain(c) : load \in IF m.end = "ok" THEN LoadFiles(m.result)
                                         ELSE {Load(m.result, m.end, Present)}
    BY DEF LoadAll
<1>2. /\ m.result \in Confs
      /\ m.end # "field" => m.result.domain \in Sound(c.domain) /\ MainDecides(m.result)
    BY MainOK
<1>3. CASE m.end # "ok"
    <2>1. load.result = m.result /\ load.end = m.end /\ load.unread = Present
        BY <1>1, <1>3 DEF Load
    <2>2. Present \subseteq Names /\ OwnDecide(load.result, Present)
        BY DEF Present, OwnDecide, CanBeRead
    <2> QED BY <1>2, <1>3, <2>1, <2>2
<1>4. CASE m.end = "ok"
    <2>1. /\ load.result \in Confs
          /\ load.result.domain = m.result.domain /\ load.result.default = m.result.default
          /\ load.unread \subseteq Names /\ (load.end = "ok" => load.unread = {})
          /\ OwnDecide(load.result, load.unread)
        BY <1>1, <1>2, <1>4, FilesOK
    <2>2. load.result.domain \in Sound(c.domain) /\ MainDecides(load.result)
        BY <1>2, <1>4, <2>1 DEF MainDecides
    <2> QED BY <2>1, <2>2
<1> QED BY <1>3, <1>4

LEMMA LoadsWillBeOK == FilesTyped' => \A c \in Confs : Loads(c)'
<1>1. (FilesTyped => \A c \in Confs : Loads(c))'
    BY LoadsOK, PTL
<1> QED BY <1>1

-----------------------------------------------------------------------------
(* Type correctness *)

Commands ==
    \/ \E domain \in Domains : SetDomain(domain)
    \/ \E kind \in {"auto", "fml"}, form \in Forms :
          SetDefault(kind, form) \/ (\E n \in Names : SetServer(kind, n, form))

LEMMA Bounded ==
    /\ 0 \in 0..MaxOps
    /\ ops \in 0..MaxOps /\ ops' = ops + 1 /\ ops < MaxOps => ops' \in 0..MaxOps
<1>1. MaxOps \in Nat
    BY RecordsAssumption
<1> QED BY <1>1

LEMMA FormsAreBasic == \A form \in Forms : form \in Basic
BY RecordsAssumption

(* A command sets the record of one kind. *)
LEMMA SetOK ==
    ASSUME NEW kind \in {"auto", "fml"}, NEW server \in Servers, NEW form \in Forms
    PROVE  Set(kind, server, form) \in Servers /\ KindsApart(server, Set(kind, server, form))
<1>1. form \in Basic /\ {form} \in Optional(Basic)
    BY FormsAreBasic DEF Optional
<1>2. CASE kind = "auto"
    BY <1>1, <1>2 DEF Set, special_assign, Servers, KindsApart
<1>3. CASE kind = "fml"
    BY <1>1, <1>3 DEF Set, Servers, KindsApart
<1> QED BY <1>2, <1>3

(* What the commands make of the defaults. *)
LEMMA CommandsOK ==
    ASSUME TypeOK, Commands
    PROVE  /\ default_conf' \in Confs
           /\ default_conf'.domain \in {default_conf.domain} \cup (Domains \ Refused)
           /\ KindsApart(default_conf.default, default_conf'.default)
           /\ \A n \in Names :
                 \A old \in default_conf.servers[n], new \in default_conf'.servers[n] :
                     KindsApart(old, new)
<1>1. /\ default_conf \in Confs /\ default_conf.domain \in Domains
      /\ default_conf.default \in Servers
      /\ default_conf.servers \in [Names -> Optional(Servers)]
    BY ConfFields DEF TypeOK
<1>2. \A n \in Names : \A old, new \in default_conf.servers[n] : old = new
    BY <1>1 DEF Optional
<1>3. ASSUME NEW domain \in Domains, SetDomain(domain)
      PROVE  /\ default_conf' \in Confs
             /\ default_conf'.domain = domain /\ domain \notin Refused
             /\ default_conf'.default = default_conf.default
             /\ default_conf'.servers = default_conf.servers
    BY <1>1, <1>3 DEF SetDomain, Confs
<1>4. ASSUME NEW kind \in {"auto", "fml"}, NEW form \in Forms, SetDefault(kind, form)
      PROVE  /\ default_conf' \in Confs
             /\ default_conf'.domain = default_conf.domain
             /\ KindsApart(default_conf.default, default_conf'.default)
             /\ default_conf'.servers = default_conf.servers
    <2> DEFINE default == Set(kind, default_conf.default, form)
    <2>1. default \in Servers /\ KindsApart(default_conf.default, default)
        BY <1>1, SetOK
    <2>2. default_conf' = [default_conf EXCEPT !.default = default]
        BY <1>4 DEF SetDefault
    <2> HIDE DEF default
    <2> QED BY <1>1, <2>1, <2>2 DEF Confs
<1>5. ASSUME NEW kind \in {"auto", "fml"}, NEW form \in Forms, NEW n \in Names,
             SetServer(kind, n, form)
      PROVE  /\ default_conf' \in Confs
             /\ default_conf'.domain = default_conf.domain
             /\ default_conf'.default = default_conf.default
             /\ \A m \in Names :
                   \A old \in default_conf.servers[m], new \in default_conf'.servers[m] :
                       KindsApart(old, new)
    <2> DEFINE entry == default_conf.servers[n]
               server == IF entry = {} THEN New(default_record) ELSE CHOOSE s \in entry : TRUE
               set == Set(kind, server, form)
               servers == [default_conf.servers EXCEPT ![n] = {set}]
    <2>1. entry \in Optional(Servers)
        BY <1>1
    <2>2. server \in Servers /\ (entry # {} => entry = {server})
        BY <2>1, DefaultIsBasic DEF Optional
    <2>3. default_conf' = [default_conf EXCEPT !.servers = servers]
        BY <1>1, <1>5 DEF SetServer, Confs
    <2> HIDE DEF server
    <2>4. set \in Servers /\ KindsApart(server, set)
        BY <2>2, SetOK
    <2> HIDE DEF set
    <2>5. {set} \in Optional(Servers)
        BY <2>4 DEF Optional
    <2>6. servers \in [Names -> Optional(Servers)]
        BY <1>1, <2>5
    <2>7. servers[n] = {set} /\ \A m \in Names \ {n} : servers[m] = default_conf.servers[m]
        BY <1>1
    <2> HIDE DEF servers
    <2>8. /\ default_conf' \in Confs /\ default_conf'.servers = servers
          /\ default_conf'.domain = default_conf.domain
          /\ default_conf'.default = default_conf.default
        BY <1>1, <2>3, <2>6, WithServers
    <2> HIDE DEF entry
    <2>9. ASSUME NEW m \in Names, NEW old \in default_conf.servers[m],
                 NEW new \in default_conf'.servers[m]
          PROVE  KindsApart(old, new)
        <3>1. CASE m = n
            <4>1. old = server /\ new = set
                BY <2>2, <2>7, <2>8, <2>9, <3>1 DEF entry
            <4> QED BY <2>4, <4>1
        <3>2. CASE m # n
            BY <1>2, <2>7, <2>8, <2>9, <3>2 DEF KindsApart
        <3> QED BY <3>1, <3>2
    <2> QED BY <2>8, <2>9
<1>6. \A s : KindsApart(s, s)
    BY DEF KindsApart
<1>7. CASE \E domain \in Domains : SetDomain(domain)
    BY <1>2, <1>3, <1>6, <1>7
<1>8. CASE \E kind \in {"auto", "fml"}, form \in Forms : SetDefault(kind, form)
    BY <1>2, <1>4, <1>6, <1>8
<1>9. CASE \E kind \in {"auto", "fml"}, form \in Forms, n \in Names : SetServer(kind, n, form)
    BY <1>5, <1>6, <1>9
<1> QED BY <1>7, <1>8, <1>9 DEF Commands

LEMMA InitTyped == Init => TypeOK /\ DomainsAreSound /\ FilesDecide
<1> SUFFICES ASSUME Init PROVE TypeOK /\ DomainsAreSound /\ FilesDecide
    OBVIOUS
<1>1. FilesTyped
    BY RecordsAssumption DEF Init, FilesTyped
<1>2. default_conf \in Confs /\ default_conf.domain = argument /\ argument \in Arguments
    <2>1. default_conf = [domain |-> argument, default |-> New(default_record),
                          servers |-> [n \in Names |-> {}]]
        BY DEF Init
    <2>2. [n \in Names |-> {}] \in [Names -> Optional(Servers)]
        BY DEF Optional
    <2>3. argument \in Arguments /\ argument \in Domains
        BY RecordsAssumption DEF Init
    <2> QED BY <2>1, <2>2, <2>3, DefaultIsBasic DEF Confs
<1>3. PICK load \in LoadAll(default_conf) : load.end = "ok" /\ conf = load.result
    BY DEF Init
<1>4. Loads(default_conf)
    BY <1>1, <1>2, LoadsOK
<1>5. /\ conf \in Confs /\ conf.domain \in Sound(argument)
      /\ MainDecides(conf) /\ OwnDecide(conf, {}) /\ unread = {}
    <2>1. load.end # "field" /\ load.unread = {} /\ unread = {}
        BY <1>3, <1>4 DEF Loads, Init
    <2> QED BY <1>2, <1>3, <1>4, <2>1 DEF Loads
<1>6. TypeOK
    <2>1. running = TRUE /\ ops = 0
        BY DEF Init
    <2>2. ops \in 0..MaxOps
        BY <2>1, Bounded
    <2> QED BY <1>1, <1>2, <1>5, <2>1, <2>2 DEF FilesTyped, TypeOK
<1> QED BY <1>2, <1>5, <1>6 DEF DomainsAreSound, FilesDecide, MainDecides, OwnDecide, Sound

(* The configuration and the files are not touched by these commands. *)
LEMMA CommandsFrame ==
    Commands => /\ UNCHANGED <<argument, conf, unread, main, file, running>>
                /\ ops' = ops + 1 /\ ops < MaxOps
BY DEF Commands, SetDomain, SetDefault, SetServer, Command, files

(* What a load makes of the defaults, now and after a step. *)
LEMMA LoadOfDefaults == FilesTyped /\ default_conf \in Confs => Loads(default_conf)
BY LoadsOK

LEMMA LoadOfDefaultsWillBe ==
    (FilesTyped /\ default_conf \in Confs)' =>
        \A load \in LoadAll(default_conf)' :
            /\ load.result \in Confs /\ load.unread \subseteq Names
            /\ load.end # "field" => /\ load.result.domain \in Sound(default_conf'.domain)
                                     /\ MainDecides(load.result)'
                                     /\ OwnDecide(load.result, load.unread)'
<1>1. (FilesTyped /\ default_conf \in Confs => Loads(default_conf))'
    BY LoadOfDefaults, PTL
<1> QED BY <1>1 DEF Loads

-----------------------------------------------------------------------------
(* One step *)

LEMMA ReloadOK ==
    ASSUME TypeOK, Reload
    PROVE  /\ TypeOK'
           /\ DomainsAreSound => DomainsAreSound'
           /\ FilesDecide => FilesDecide'
<1>1. /\ UNCHANGED <<argument, default_conf, main, file, running>>
      /\ ops' = ops + 1 /\ ops < MaxOps
    BY DEF Reload, Command, files
<1>2. PICK load \in LoadAll(default_conf) :
          IF load.end = "ok" THEN conf' = load.result /\ unread' = {}
                             ELSE UNCHANGED <<conf, unread>>
    BY DEF Reload, Copy
<1>3. FilesTyped /\ default_conf \in Confs
    BY DEF TypeOK, FilesTyped
<1>4. /\ load.result \in Confs
      /\ load.end = "ok" => /\ load.result.domain \in Sound(default_conf.domain)
                            /\ MainDecides(load.result) /\ OwnDecide(load.result, {})
    BY <1>2, <1>3, LoadOfDefaults DEF Loads
<1>5. ops' \in 0..MaxOps
    BY <1>1, Bounded DEF TypeOK
<1>6. CASE load.end = "ok"
    <2>1. conf' = load.result /\ unread' = {}
        BY <1>2, <1>6
    <2>2. TypeOK'
        BY <1>1, <1>4, <1>5, <2>1 DEF TypeOK
    <2>3. FilesDecide'
        BY <1>1, <1>4, <1>6, <2>1 DEF FilesDecide, MainDecides, OwnDecide
    <2> QED BY <1>1, <1>4, <1>6, <2>1, <2>2, <2>3 DEF DomainsAreSound, Sound
<1>7. CASE load.end # "ok"
    <2>1. UNCHANGED <<conf, unread>>
        BY <1>2, <1>7
    <2>2. TypeOK'
        BY <1>1, <1>5, <2>1 DEF TypeOK
    <2> QED BY <1>1, <2>1, <2>2 DEF DomainsAreSound, FilesDecide
<1> QED BY <1>6, <1>7

LEMMA WriteMainOK ==
    ASSUME TypeOK, NEW content \in MainContents, WriteMain(content)
    PROVE  /\ TypeOK'
           /\ DomainsAreSound => DomainsAreSound'
           /\ FilesDecide'
<1>1. /\ UNCHANGED <<argument, default_conf, file>> /\ main' = content
      /\ ops' = ops + 1 /\ ops < MaxOps /\ running
    BY DEF WriteMain, Written
<1>2. PICK load \in LoadAll(default_conf)' :
          Publish(load.result, load.end) /\ unread' = load.unread
    BY DEF WriteMain, Copy
<1>3. (FilesTyped /\ default_conf \in Confs)'
    BY <1>1, RecordsAssumption DEF TypeOK, FilesTyped
<1>4. /\ load.result \in Confs
      /\ load.unread \subseteq Names
      /\ load.end # "field" => /\ load.result.domain \in Sound(default_conf'.domain)
                               /\ MainDecides(load.result)'
                               /\ OwnDecide(load.result, load.unread)'
    BY <1>2, <1>3, LoadOfDefaultsWillBe
<1>5. ops' \in 0..MaxOps
    BY <1>1, Bounded DEF TypeOK
<1>6. \/ load.end = "field" /\ running' = FALSE /\ conf' = conf
      \/ load.end # "field" /\ running' = running /\ conf' = load.result
    BY <1>2 DEF Publish
<1>7. TypeOK'
    <2>1. conf' \in Confs /\ running' \in BOOLEAN
        BY <1>4, <1>6 DEF TypeOK
    <2>2. unread' \subseteq Names
        BY <1>2, <1>4
    <2> QED BY <1>1, <1>3, <1>5, <2>1, <2>2 DEF TypeOK, FilesTyped
<1>8. DomainsAreSound => DomainsAreSound'
    BY <1>1, <1>4, <1>6 DEF DomainsAreSound, Sound
<1>9. FilesDecide'
    <2> SUFFICES ASSUME running' PROVE MainDecides(conf)' /\ OwnDecide(conf, unread)'
        BY DEF FilesDecide, MainDecides, OwnDecide
    <2>1. load.end # "field" /\ conf' = load.result /\ unread' = load.unread
        BY <1>2, <1>6
    <2> QED BY <1>4, <2>1 DEF MainDecides, OwnDecide
<1> QED BY <1>7, <1>8, <1>9

LEMMA WriteConfOK ==
    ASSUME TypeOK, NEW n \in Names, NEW node \in ConfContents, WriteConf(n, node)
    PROVE  /\ TypeOK'
           /\ DomainsAreSound => DomainsAreSound'
           /\ FilesDecide => FilesDecide'
           /\ \A m \in Names \ {n} : conf'.servers[m] = conf.servers[m]
<1> DEFINE read == ReadConf(conf.servers[n], node)
           servers == [conf.servers EXCEPT ![n] = read.result]
<1>1. /\ UNCHANGED <<argument, default_conf, main>> /\ file' = [file EXCEPT ![n] = node]
      /\ unread' = unread \ {n}
      /\ ops' = ops + 1 /\ ops < MaxOps /\ running
    BY DEF WriteConf, Written
<1>2. conf \in Confs /\ conf.servers \in [Names -> Optional(Servers)] /\ node \in Nodes
    BY ConfFields, RecordsAssumption DEF TypeOK
<1>3. \/ running' = FALSE /\ conf' = conf
      \/ running' = running /\ conf' = [conf EXCEPT !.servers = servers]
    <2>1. [conf EXCEPT !.servers[n] = read.result] = [conf EXCEPT !.servers = servers]
        BY <1>2 DEF Confs
    <2>2. Publish([conf EXCEPT !.servers[n] = read.result], read.end)
        BY DEF WriteConf, Copy
    <2> HIDE DEF servers, read
    <2> QED BY <2>1, <2>2 DEF Publish
<1>4. /\ read.result \in Optional(Servers)
      /\ CanBeRead(node) => \E server \in read.result : Decides(node, server)
    BY <1>2, EntryOK
<1> HIDE DEF read
<1>5. /\ servers \in [Names -> Optional(Servers)] /\ servers[n] = read.result
      /\ \A m \in Names \ {n} : servers[m] = conf.servers[m]
    BY <1>2, <1>4
<1> HIDE DEF servers
<1>6. /\ conf' \in Confs /\ conf'.domain = conf.domain /\ conf'.default = conf.default
      /\ \A m \in Names \ {n} : conf'.servers[m] = conf.servers[m]
      /\ running' => conf'.servers[n] = read.result
    <2> DEFINE written == [conf EXCEPT !.servers = servers]
    <2>1. /\ written \in Confs /\ written.servers = servers
          /\ written.domain = conf.domain /\ written.default = conf.default
        BY <1>2, <1>5, WithServers
    <2> HIDE DEF written
    <2>2. CASE running' = FALSE /\ conf' = conf
        BY <1>2, <2>2
    <2>3. CASE running' = running /\ conf' = written
        BY <1>5, <2>1, <2>3
    <2> QED BY <1>3, <2>2, <2>3 DEF written
<1>7. TypeOK'
    <2>1. ops' \in 0..MaxOps
        BY <1>1, Bounded DEF TypeOK
    <2>2. file' \in [Names -> Nodes]
        BY <1>1, <1>2 DEF TypeOK
    <2>3. running' \in BOOLEAN
        BY <1>3 DEF TypeOK
    <2> QED BY <1>1, <1>6, <2>1, <2>2, <2>3 DEF TypeOK
<1>8. FilesDecide => FilesDecide'
    <2> SUFFICES ASSUME FilesDecide, running'
                 PROVE  /\ CanBeRead(main'.default) => Decides(main'.default, conf'.default)
                        /\ \A m \in Names \ unread' : CanBeRead(file'[m]) =>
                               \E server \in conf'.servers[m] : Decides(file'[m], server)
        BY DEF FilesDecide
    <2>1. file'[n] = node /\ \A m \in Names \ {n} : file'[m] = file[m]
        BY <1>1 DEF TypeOK
    <2>2. /\ CanBeRead(main.default) => Decides(main.default, conf.default)
          /\ \A m \in Names \ unread : CanBeRead(file[m]) =>
                \E server \in conf.servers[m] : Decides(file[m], server)
        BY <1>1 DEF FilesDecide
    <2> QED BY <1>1, <1>4, <1>6, <2>1, <2>2
<1> QED BY <1>1, <1>6, <1>7, <1>8 DEF DomainsAreSound

IInv == TypeOK /\ DomainsAreSound /\ FilesDecide

(* The invariant is inductive. *)
LEMMA StepOK == IInv /\ [Next]_vars => IInv'
<1> SUFFICES ASSUME IInv, [Next]_vars PROVE IInv'
    OBVIOUS
<1>1. CASE Commands
    <2>1. /\ UNCHANGED <<argument, conf, unread, main, file, running>>
          /\ ops' = ops + 1 /\ ops < MaxOps
        BY <1>1, CommandsFrame
    <2>2. /\ default_conf' \in Confs
          /\ default_conf'.domain \in {default_conf.domain} \cup (Domains \ Refused)
        BY <1>1, CommandsOK DEF IInv
    <2>3. ops' \in 0..MaxOps
        BY <2>1, Bounded DEF IInv, TypeOK
    <2>4. TypeOK'
        BY <2>1, <2>2, <2>3 DEF IInv, TypeOK
    <2>5. DomainsAreSound'
        BY <2>1, <2>2 DEF IInv, DomainsAreSound
    <2>6. FilesDecide'
        BY <2>1 DEF IInv, FilesDecide
    <2> QED BY <2>4, <2>5, <2>6 DEF IInv
<1>2. CASE Reload
    BY <1>2, ReloadOK DEF IInv
<1>3. CASE \E content \in MainContents : WriteMain(content)
    BY <1>3, WriteMainOK DEF IInv
<1>4. CASE \E n \in Names, node \in ConfContents : WriteConf(n, node)
    BY <1>4, WriteConfOK DEF IInv
<1>5. CASE UNCHANGED vars
    BY <1>5 DEF vars, files, IInv, TypeOK, DomainsAreSound, FilesDecide
<1> QED BY <1>1, <1>2, <1>3, <1>4, <1>5 DEF Next, Commands

LEMMA Invariance == Spec => []IInv
<1>1. Init => IInv
    BY InitTyped DEF IInv
<1> QED BY <1>1, StepOK, PTL DEF Spec

(* Every variable has its type: what is read, set and published are records *)
(* with a drop that is a Boolean, a known address and a port.               *)
THEOREM TypeCorrect == Spec => []TypeOK
BY Invariance, PTL DEF IInv

(* A domain that check_domain refuses, in force or in the defaults, is the  *)
(* one that the hub was started with: no file and no command brings one in. *)
THEOREM DomainsStaySound == Spec => []DomainsAreSound
BY Invariance, PTL DEF IInv

(* A file that can be read decides its record, whatever was there before,    *)
(* unless the load published last ended before it came to that file.        *)
THEOREM FilesPrevail == Spec => []FilesDecide
BY Invariance, PTL DEF IInv

(* A server's file and a command leave alone what they are not about. *)
THEOREM OthersStay == Spec => OthersAreKept
<1> DEFINE Kept ==
        /\ \A n \in Names, node \in ConfContents :
              WriteConf(n, node) => \A m \in Names \ {n} : conf'.servers[m] = conf.servers[m]
        /\ KindsApart(default_conf.default, default_conf'.default)
        /\ \A n \in Names :
              \A old \in default_conf.servers[n], new \in default_conf'.servers[n] :
                  KindsApart(old, new)
<1>1. ASSUME IInv, [Next]_vars PROVE [Kept]_vars
    <2>1. \A n \in Names, node \in ConfContents :
              WriteConf(n, node) => \A m \in Names \ {n} : conf'.servers[m] = conf.servers[m]
        BY <1>1, WriteConfOK DEF IInv
    <2>2. CASE Commands
        BY <1>1, <2>1, <2>2, CommandsOK DEF IInv
    <2>3. CASE UNCHANGED default_conf
        <3>1. default_conf.servers \in [Names -> Optional(Servers)]
            BY <1>1, ConfFields DEF IInv, TypeOK
        <3>2. \A n \in Names : \A old, new \in default_conf.servers[n] : old = new
            BY <3>1 DEF Optional
        <3> QED BY <2>1, <2>3, <3>2 DEF KindsApart
    <2>4. ~Commands => UNCHANGED default_conf
        BY <1>1 DEF Next, Commands, Reload, WriteMain, WriteConf, Written, vars
    <2> QED BY <2>2, <2>3, <2>4
<1>2. OthersAreKept <=> [][Kept]_vars
    BY DEF OthersAreKept
<1> HIDE DEF Kept
<1> QED BY <1>1, <1>2, Invariance, PTL DEF Spec

=============================================================================
