------------------------------ MODULE Records ------------------------------
(***************************************************************************)
(* The records of servers (src/settings.hpp): what the files make of them  *)
(* (fill_record and the operators >> of src/settings.cpp), what the        *)
(* manager's commands make of the defaults (src/manager.cpp), and what is  *)
(* published of it.                                                        *)
(*                                                                         *)
(* A server_record is a basic_record, "auto", and perhaps another one for  *)
(* modded clients, "fml".  An optional value is a set of at most one.      *)
(* The address stands for the fields that are read like it.  A file is     *)
(* written, and its event is handled, in one step; Settings has the rest   *)
(* of the listener.  Every server has a directory, and distributed is set. *)
(***************************************************************************)
EXTENDS Naturals

CONSTANTS
    Names,        \* names of servers
    Addresses,    \* backend addresses
    Ports,        \* backend ports
    DefaultPort,  \* arguments.default_port
    Domains,      \* domains,
    Refused,      \* those that check_domain refuses,
    Arguments,    \* and those that the hub may be started with
    MainContents, \* what may be written to the main file
    ConfContents, \* what may be written to a server's file
    Forms,        \* the records that the commands set
    MaxOps        \* bound: commands and files written

Basic == [address : Addresses \cup {""}, port : Ports, drop : BOOLEAN]
Optional(S) == {{}} \cup {{x} : x \in S}
Servers == [auto : Basic, fml : Optional(Basic)]
Confs == [domain : Domains, default : Servers, servers : [Names -> Optional(Servers)]]

(* A node of a file: a map, the word "drop", another scalar, or none at all. *)
(* Of the scalars only fml knows "true" and "false".                       *)
FmlNodes == [kind : {"map", "drop", "scalar", "true", "false", "absent"},
             address : Addresses \cup {"unset"}, port : Ports \cup {"unset", "bad"}]
Nodes == [kind : {"map", "drop", "scalar", "absent"},
          address : Addresses \cup {"unset"}, port : Ports \cup {"unset", "bad"},
          fml : FmlNodes]
MainFiles == [domain : Domains \cup {"unset"}, default : Nodes, servers : [Names -> Nodes]]

ASSUME RecordsAssumption ==
    /\ DefaultPort \in Ports
    /\ "unset" \notin Addresses \cup Ports \cup Domains
    /\ "bad" \notin Ports
    /\ Arguments \subseteq Domains
    /\ MainContents \subseteq MainFiles
    /\ ConfContents \subseteq Nodes
    /\ Forms \subseteq {b \in Basic : ~b.drop}
    /\ MaxOps \in Nat

VARIABLES
    argument,     \* arguments.domain
    default_conf, \* what the arguments and the commands have set
    conf,         \* conf_instance, what a new client gets
    unread,       \* the servers that the load published last did not come to
    main, file,   \* the files
    running,      \* no exception has ended the process
    ops           \* commands and files written so far

files == <<main, file>>
vars == <<argument, default_conf, conf, unread, files, running, ops>>

(* The type invariant. *)
TypeOK ==
    /\ argument \in Arguments
    /\ default_conf \in Confs /\ conf \in Confs
    /\ unread \subseteq Names /\ running \in BOOLEAN
    /\ main \in MainFiles /\ file \in [Names -> Nodes]
    /\ ops \in 0..MaxOps

-----------------------------------------------------------------------------
(* Reading a record.  An outcome is what has been made of it, and how the    *)
(* reading ended: "ok", with an exception of YAML, or a config_exception.   *)

default_record == [address |-> "", port |-> DefaultPort, drop |-> FALSE]
New(record) == [auto |-> record, fml |-> {}]

Outcome(r, end) == [result |-> r, end |-> end]

(* Mutant: an address is assigned whether the map mentions it or not. *)
MentionedOrNot(node, record) == [record EXCEPT !.address = node.address]

(* What a map says: a field that it does not mention is kept, but a port     *)
(* that it does not mention is the default port.                           *)
Mentioned(node, record) ==
    [record EXCEPT !.address = IF node.address = "unset" THEN @ ELSE node.address]
Port(node) == IF node.port = "unset" THEN DefaultPort ELSE node.port

(* Mutant: a record that was dropped stays dropped. *)
FillAndKeepDrop(node, record) ==
    IF node.kind = "drop" THEN Outcome([record EXCEPT !.drop = TRUE], "ok")
    ELSE IF node.kind = "scalar" THEN Outcome(record, "field")
    ELSE IF node.port = "bad" THEN Outcome(Mentioned(node, record), "yaml")
    ELSE Outcome([Mentioned(node, record) EXCEPT !.port = Port(node)], "ok")

(* fill_record *)
fill_record(node, record) ==
    LET read == [Mentioned(node, record) EXCEPT !.drop = FALSE]
    IN IF node.kind = "drop" THEN Outcome([record EXCEPT !.drop = TRUE], "ok")
       ELSE IF node.kind = "scalar" THEN Outcome(record, "field")
       ELSE IF node.port = "bad" THEN Outcome(read, "yaml")
       ELSE Outcome([read EXCEPT !.port = Port(node)], "ok")

(* operator>> for a server_record: fml is left alone by "drop". *)
Read(node, server) ==
    LET base == fill_record(node, server.auto)
        modded == fill_record(node.fml, default_record)
        Fml(fml, end) == Outcome([auto |-> base.result, fml |-> fml], end)
    IN IF base.end # "ok" \/ base.result.drop THEN Fml(server.fml, base.end)
       ELSE CASE node.fml.kind = "absent" -> Fml(server.fml, "ok")
              [] node.fml.kind = "true" -> Fml({}, "ok")
              [] node.fml.kind = "false" -> Fml({default_record}, "ok")
              [] node.fml.kind = "scalar" -> Fml(server.fml, "field")
              [] OTHER -> Fml({modded.result}, modded.end)

-----------------------------------------------------------------------------
(* Reading the files *)

Given(node) == node.kind # "absent"

(* The servers listed in the main file, each made from default_record.  The  *)
(* first that cannot be read ends it, and is not kept.                      *)
ListedServer(n) == Read(main.servers[n], New(default_record))
Listed == {n \in Names : Given(main.servers[n])}
ListedWell == {n \in Listed : ListedServer(n).end = "ok"}
WithListed(c, these) == [c EXCEPT !.servers =
    [n \in Names |-> IF n \in these THEN {ListedServer(n).result} ELSE @[n]]]

(* operator>> for the settings: the domain is assigned before it is checked. *)
ReadMain(c0) ==
    LET c1 == [c0 EXCEPT !.domain = IF main.domain = "unset" THEN @ ELSE main.domain]
        default == IF Given(main.default) THEN Read(main.default, c1.default)
                                          ELSE Outcome(c1.default, "ok")
        c2 == [c1 EXCEPT !.default = default.result]
    IN IF main.domain \in Refused \/ main.default.kind \in {"drop", "scalar"}
       THEN {Outcome(c1, "field")}
       ELSE IF default.end # "ok" THEN {Outcome(c2, default.end)}
       ELSE IF ListedWell = Listed THEN {Outcome(WithListed(c2, Listed), "ok")}
       ELSE {Outcome(WithListed(c2, before), ListedServer(n).end) :
                before \in SUBSET ListedWell, n \in Listed \ ListedWell}

(* A server's own file is read into its entry, or into a new one that is     *)
(* kept only when the whole file could be read.                             *)
ReadConf(entry, node) ==
    IF entry = {} THEN LET new == Read(node, New(default_record))
                       IN Outcome(IF new.end = "ok" THEN {new.result} ELSE {}, new.end)
    ELSE LET server == CHOOSE s \in entry : TRUE
             read == Read(node, server)
         IN Outcome({read.result}, read.end)

Visit(c, n) == ReadConf(c.servers[n], file[n])
Present == {n \in Names : Given(file[n])}
ReadWell(c) == {n \in Present : Visit(c, n).end = "ok"}
WithFiles(c, these) == [c EXCEPT !.servers =
    [n \in Names |-> IF n \in these THEN Visit(c, n).result ELSE @[n]]]

Load(c, end, left) == [result |-> c, end |-> end, unread |-> left]

(* load_all_conf goes through the directories in any order, to the first     *)
(* whose file cannot be read.                                               *)
LoadFiles(c) ==
    IF ReadWell(c) = Present THEN {Load(WithFiles(c, Present), "ok", {})}
    ELSE {Load(WithFiles(c, before \cup {n}), Visit(c, n).end, Present \ (before \cup {n})) :
             before \in SUBSET ReadWell(c), n \in Present \ ReadWell(c)}

LoadAll(c) == UNION {IF m.end = "ok" THEN LoadFiles(m.result)
                                     ELSE {Load(m.result, m.end, Present)} : m \in ReadMain(c)}

(* Mutant: the copy constructor of server_record forgets fml. *)
CopyWithoutFml(c) ==
    [c EXCEPT !.servers = [n \in Names |-> {New(s.auto) : s \in @[n]}]]

(* settings and server_record are copied as they are (copy_fml). *)
Copy(c) == c

Init ==
    /\ argument \in Arguments
    /\ default_conf = [domain |-> argument, default |-> New(default_record),
                       servers |-> [n \in Names |-> {}]]
    /\ main \in MainContents
    /\ file \in [Names -> ConfContents]
    /\ \E load \in LoadAll(default_conf) : load.end = "ok" /\ conf = load.result
    /\ unread = {}
    /\ running = TRUE
    /\ ops = 0

-----------------------------------------------------------------------------
(* The manager's commands.  An exception in one is caught by on_line.       *)

Command ==
    /\ running /\ ops < MaxOps
    /\ ops' = ops + 1
    /\ UNCHANGED <<argument, files, running>>

(* Mutant: the domain is assigned first, as it is when a file is read. *)
SetDomainUnchecked(domain) ==
    /\ Command
    /\ default_conf' = [default_conf EXCEPT !.domain = domain]
    /\ UNCHANGED <<conf, unread>>

SetDomain(domain) ==
    /\ Command
    /\ domain \notin Refused
    /\ default_conf' = [default_conf EXCEPT !.domain = domain]
    /\ UNCHANGED <<conf, unread>>

(* Mutant: an assignment from a basic_record resets fml. *)
Assign(server, form) == New(form)

(* The assignment for a record of the kind "auto" keeps fml. *)
special_assign(server, form) == [server EXCEPT !.auto = form]

Set(kind, server, form) ==
    IF kind = "auto" THEN special_assign(server, form) ELSE [server EXCEPT !.fml = {form}]

SetDefault(kind, form) ==
    /\ Command
    /\ default_conf' = [default_conf EXCEPT !.default = Set(kind, @, form)]
    /\ UNCHANGED <<conf, unread>>

SetServer(kind, n, form) ==
    /\ Command
    /\ LET entry == default_conf.servers[n]
           server == IF entry = {} THEN New(default_record) ELSE CHOOSE s \in entry : TRUE
       IN default_conf' = [default_conf EXCEPT !.servers[n] = {Set(kind, server, form)}]
    /\ UNCHANGED <<conf, unread>>

(* conf reload: what could not be loaded to its end is not published. *)
Reload ==
    /\ Command
    /\ \E load \in LoadAll(Copy(default_conf)) :
          IF load.end = "ok" THEN conf' = load.result /\ unread' = {}
                             ELSE UNCHANGED <<conf, unread>>
    /\ UNCHANGED default_conf

-----------------------------------------------------------------------------
(* The listener.  It publishes what has been read although an exception of   *)
(* YAML has ended the reading; a config_exception ends the process.         *)

Written ==
    /\ running /\ ops < MaxOps
    /\ ops' = ops + 1
    /\ UNCHANGED <<argument, default_conf>>

Publish(c, end) ==
    IF end = "field" THEN running' = FALSE /\ UNCHANGED conf
                     ELSE conf' = c /\ UNCHANGED running

WriteMain(content) ==
    /\ Written
    /\ main' = content /\ UNCHANGED file
    /\ \E load \in LoadAll(Copy(default_conf))' :
          Publish(load.result, load.end) /\ unread' = load.unread

WriteConf(n, node) ==
    /\ Written /\ Given(file[n]) /\ Given(node)
    /\ file' = [file EXCEPT ![n] = node]
    /\ LET draft == Copy(conf)
           read == ReadConf(draft.servers[n], node)
       IN Publish([draft EXCEPT !.servers[n] = read.result], read.end)
    /\ unread' = unread \ {n}
    /\ UNCHANGED main

Next ==
    \/ \E domain \in Domains : SetDomain(domain)
    \/ \E kind \in {"auto", "fml"}, form \in Forms :
          SetDefault(kind, form) \/ (\E n \in Names : SetServer(kind, n, form))
    \/ Reload
    \/ \E content \in MainContents : WriteMain(content)
    \/ \E n \in Names, node \in ConfContents : WriteConf(n, node)

Spec == Init /\ [][Next]_vars

-----------------------------------------------------------------------------
(* Properties *)

(* A basic record is what a node says, whatever it was before. *)
Says(node, record) ==
    IF node.kind = "drop" THEN record.drop
    ELSE /\ ~record.drop /\ record.port = Port(node)
         /\ node.address # "unset" => record.address = node.address

(* And so is the record for modded clients, of a server that is not dropped. *)
SaysFml(node, fml) ==
    CASE node.kind = "true" -> fml = {}
      [] node.kind = "false" -> fml = {default_record}
      [] node.kind = "absent" -> TRUE
      [] OTHER -> \E record \in fml : Says(node, record)

Decides(node, server) ==
    /\ Says(node, server.auto)
    /\ node.kind = "map" => SaysFml(node.fml, server.fml)

CanBeRead(node) == Given(node) /\ Read(node, New(default_record)).end = "ok"

(* A file that can be read decides its server's record, and the main file    *)
(* the default one: whatever was published before, whatever the commands    *)
(* have set, however the record was dropped, broken or for modded clients   *)
(* (fill_record and the operators >>, which read into a record that is      *)
(* published already).  But a main file or a server's file that cannot be   *)
(* read ends a load, and the listener publishes it all the same: the files  *)
(* that it did not come to decide nothing until they are written again, or  *)
(* all of them are loaded (settings.cpp:184-189, 307).                      *)
FilesDecide ==
    running =>
        /\ CanBeRead(main.default) => Decides(main.default, conf.default)
        /\ \A n \in Names \ unread : CanBeRead(file[n]) =>
              \E server \in conf.servers[n] : Decides(file[n], server)

(* No domain comes into force that check_domain refuses, from a file, whose  *)
(* domain is assigned before it is checked, or from a command: if one is in *)
(* force the hub was started with it, for the argument is not checked       *)
(* (settings.cpp:136).                                                      *)
DomainsAreSound == {conf.domain, default_conf.domain} \cap Refused \subseteq {argument}

(* "Specify domain name (the same option as in mcshub.yml file)"            *)
(* (mcshub.cpp:28-29): a domain that the file may not give, the argument    *)
(* does not give either.                                                    *)
DomainsAreChecked == conf.domain \notin Refused

KindsApart(old, new) == new.auto = old.auto \/ new.fml = old.fml

(* A server's file leaves the other servers alone, and a command for a       *)
(* record of one kind leaves the one of the other kind alone, although both *)
(* assign whole records (the copies of init_listener, special_assign).      *)
OthersAreKept ==
    [][/\ \A n \in Names, node \in ConfContents :
             WriteConf(n, node) => \A m \in Names \ {n} : conf'.servers[m] = conf.servers[m]
       /\ KindsApart(default_conf.default, default_conf'.default)
       /\ \A n \in Names :
             \A old \in default_conf.servers[n], new \in default_conf'.servers[n] :
                 KindsApart(old, new)]_vars

=============================================================================
