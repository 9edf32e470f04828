------------------------------ MODULE Settings ------------------------------
(***************************************************************************)
(* The live configuration of MCSHub (src/settings.cpp): the main file, a   *)
(* directory for each server with a file of its own, the inotify watches   *)
(* on them, and the listener that turns a batch of their events into a new *)
(* configuration, published at once for the workers (conf_instance).       *)
(*                                                                         *)
(* The listener runs on the main thread, but the files change under it:    *)
(* it reads them when it handles an event, not when the event was queued,  *)
(* and a new file is loaded before it is watched.  So a batch is handled   *)
(* one event at a time, and the load and the watch are two steps.          *)
(*                                                                         *)
(* A file's content is what the code tells apart: the flag "distributed",  *)
(* the servers with their addresses, and how reading it ends:              *)
(*   "none"    it is read                                                  *)
(*   "absent"  there is no file; "syntax" it is not YAML                   *)
(*   "value"   a field of the wrong type, met before the servers           *)
(*   "field"   a config_exception, which the listener does not catch       *)
(* A server's record is its address: "own" when no file has given one.     *)
(***************************************************************************)
EXTENDS Naturals, Sequences

CONSTANTS
    Names,              \* names of servers
    DirNames,           \* those that may have a directory
    Addresses,          \* backend addresses
    MainContents,       \* what may be written to the main file
    ConfContents,       \* what may be written to a server's file
    Mcsmans,            \* values of the program argument mcsman
    DefaultDistributed, \* the program argument distributed
    Habits,             \* what the operator does that a careful one does not
    MaxOps              \* bound: operations on the files

Errors == {"none", "absent", "syntax", "value", "field"}
MainFiles == [distributed : {"unset", "yes", "no"},
              servers : [Names -> Addresses \cup {"absent", "unset"}],
              error : Errors]
ConfFiles == [address : Addresses \cup {"unset"}, error : Errors]

ASSUME SettingsAssumption ==
    /\ DirNames \subseteq Names
    /\ "" \notin Names
    /\ MainContents \subseteq {c \in MainFiles : c.error # "absent"}
    /\ ConfContents \subseteq {c \in ConfFiles : c.error # "absent"}
    /\ Mcsmans \subseteq BOOLEAN
    /\ DefaultDistributed \in BOOLEAN
    /\ Habits \subseteq {"hasty", "moves", "ignored", "main"}
    /\ MaxOps \in Nat

VARIABLES
    mcsman,      \* arguments.mcsman
    \* the files, and the watches on those that are there now
    main, dirs, file,
    mainWatch, dirWatch, confWatch,
    queue,       \* inotify events not read yet
    \* the listener
    conf,        \* conf_instance, what a new client gets
    draft,       \* new_conf
    batch,       \* the events read
    at,          \* the one being handled: from the last to the first
    adding,      \* its file is loaded and its watch is due
    running,     \* no exception has ended the process
    ops          \* operations on the files so far

files == <<main, dirs, file>>
watches == <<mainWatch, dirWatch, confWatch>>
listener == <<conf, draft, batch, at, adding, running>>
vars == <<mcsman, files, watches, queue, listener, ops>>

MainKinds == {"main_written", "main_gone", "main_created"}
ServerKinds == {"dir_created", "dir_gone", "conf_written", "conf_gone", "conf_created"}
Events == (MainKinds \X {""}) \cup (ServerKinds \X Names)
Records == Addresses \cup {"none", "own", "mcs"}
Confs == [distributed : BOOLEAN, servers : [Names -> Records]]

(* The type invariant. *)
TypeOK ==
    /\ mcsman \in Mcsmans
    /\ main \in MainFiles /\ dirs \subseteq DirNames /\ file \in [Names -> ConfFiles]
    /\ mainWatch \in BOOLEAN /\ dirWatch \subseteq dirs
    /\ confWatch \subseteq {n \in dirs : file[n].error # "absent"}
    /\ queue \in Seq(Events) /\ batch \in Seq(Events)
    /\ conf \in Confs /\ draft \in Confs
    /\ at \in 0..Len(batch)
    /\ adding \in BOOLEAN /\ running \in BOOLEAN
    /\ ops \in 0..MaxOps

-----------------------------------------------------------------------------
(* Reading the files *)

NoMain == [distributed |-> "unset", servers |-> [n \in Names |-> "absent"], error |-> "absent"]
NoConf == [address |-> "unset", error |-> "absent"]
default_conf == [distributed |-> DefaultDistributed, servers |-> [n \in Names |-> "none"]]

Automatic(n) == mcsman /\ n # "default"
Put(c, n, record) == [c EXCEPT !.servers[n] = record]
Outcome(c, end) == [conf |-> c, end |-> end]

(* Mutant: an address is assigned whether the file mentions it or not. *)
MergeBlindly(record, address) == address

(* fill_record keeps the fields that the file does not mention. *)
Merge(record, address) == IF address = "unset" THEN record ELSE address

(* operator>> for the settings: the fields in order, up to the first error. *)
ReadMain(c) ==
    LET flagged == [c EXCEPT !.distributed =
                        IF main.distributed = "unset" THEN @ ELSE main.distributed = "yes"]
        named == [n \in Names |-> IF main.servers[n] = "absent"
                                  THEN c.servers[n] ELSE Merge("own", main.servers[n])]
    IN CASE main.error \in {"absent", "syntax"} -> Outcome(c, "yaml")
         [] main.error = "value" -> Outcome(flagged, "yaml")
         [] main.error = "field" -> Outcome(flagged, "field")
         [] OTHER -> Outcome([flagged EXCEPT !.servers = named], "ok")

(* A server's file is read into its entry, or into a new one that is kept   *)
(* only when the whole file could be read.                                 *)
ReadConf(c, n) ==
    LET known == c.servers[n] # "none"
        record == Merge(IF known THEN c.servers[n] ELSE "own", file[n].address)
    IN CASE file[n].error \in {"absent", "syntax"} -> Outcome(c, "yaml")
         [] file[n].error = "value" -> Outcome(IF known THEN Put(c, n, record) ELSE c, "yaml")
         [] file[n].error = "field" -> Outcome(c, "field")
         [] OTHER -> Outcome(Put(c, n, record), "ok")

(* One directory: the automatic record first, then the file. *)
Visit(c, n) ==
    LET c0 == IF Automatic(n) THEN Put(c, n, "mcs") ELSE c
    IN IF c.distributed /\ file[n].error # "absent" THEN ReadConf(c0, n) ELSE Outcome(c0, "ok")

WithDirs(c, these) == [c EXCEPT !.servers =
    [n \in Names |-> IF n \in these THEN Visit(c, n).conf.servers[n] ELSE @[n]]]

(* load_all_conf.  The directories come in any order and the first one that *)
(* cannot be read ends it: those before it, whichever they are, are loaded. *)
Whole(c) == {n \in dirs : Visit(c, n).end = "ok"}

Stopped(c, before, n) == Outcome(WithDirs(c, before \cup {n}), Visit(c, n).end)
Interrupted(c) == {Stopped(c, before, n) : before \in SUBSET Whole(c), n \in dirs \ Whole(c)}

LoadAll(c) ==
    LET m == ReadMain(c)
    IN IF m.end # "ok" THEN {m}
       ELSE IF Whole(m.conf) = dirs THEN {Outcome(WithDirs(m.conf, dirs), "ok")}
       ELSE Interrupted(m.conf)

Init ==
    /\ mcsman \in Mcsmans
    /\ main \in {c \in MainContents : c.error = "none"}
    /\ dirs \in SUBSET DirNames
    /\ file \in [Names -> {c \in ConfContents : c.error = "none"} \cup {NoConf}]
    /\ \A n \in Names \ dirs : file[n] = NoConf
    /\ mainWatch = TRUE
    /\ dirWatch = dirs
    /\ confWatch = {n \in dirs : file[n] # NoConf}
    /\ queue = <<>>
    /\ \E r \in LoadAll(default_conf) : conf = r.conf
    /\ draft = conf
    /\ batch = <<>> /\ at = 0 /\ adding = FALSE
    /\ running = TRUE
    /\ ops = 0

-----------------------------------------------------------------------------
(* The listener *)

(* Mutant: the new configuration does not start from the old one. *)
DraftFromDefault == draft' = default_conf

(* new_conf starts as a copy of what is published. *)
StartDraft == draft' = conf

Take ==
    /\ running /\ batch = <<>> /\ queue # <<>>
    /\ batch' = queue /\ at' = Len(queue)
    /\ queue' = <<>>
    /\ StartDraft
    /\ UNCHANGED <<mcsman, files, watches, conf, adding, running, ops>>

Subject == batch[at][2]

Handling(kind) ==
    /\ running /\ at > 0 /\ ~adding
    /\ batch[at][1] = kind
    /\ UNCHANGED <<mcsman, files, watches, queue, conf, batch, ops>>

Done == at' = at - 1 /\ UNCHANGED <<adding, running>>
Watching == adding' = TRUE /\ UNCHANGED <<at, running>>

(* YAML's exceptions are logged, and what has been read is kept; any other *)
(* exception ends the process.                                             *)
Keep(r, next) ==
    /\ draft' = r.conf
    /\ IF r.end = "field" THEN running' = FALSE /\ UNCHANGED <<at, adding>> ELSE next

MainWritten ==
    /\ Handling("main_written")
    /\ \E r \in LoadAll(default_conf) : Keep(r, Done)

(* The main file is away: the configuration stays as it is. *)
MainGone == Handling("main_gone") /\ Done /\ UNCHANGED draft

MainCreated == Handling("main_created") /\ Keep(ReadMain(draft), Watching)

DirCreated ==
    /\ Handling("dir_created")
    /\ IF Subject \in dirs
       THEN Watching /\ draft' = IF Automatic(Subject) THEN Put(draft, Subject, "mcs") ELSE draft
       ELSE Done /\ UNCHANGED draft

(* Mutant: the automatic record comes back whatever the arguments are. *)
RecordWithoutConfAlwaysMcs(n) == IF conf.distributed THEN "mcs" ELSE "none"

RecordWithoutConf(n) == IF conf.distributed /\ Automatic(n) THEN "mcs" ELSE "none"

ConfGone ==
    /\ Handling("conf_gone")
    /\ draft' = Put(draft, Subject, RecordWithoutConf(Subject))
    /\ Done

ReadIfDistributed ==
    IF draft.distributed THEN ReadConf(draft, Subject) ELSE Outcome(draft, "ok")

ConfWritten == Handling("conf_written") /\ Keep(ReadIfDistributed, Done)

ConfCreated == Handling("conf_created") /\ Keep(ReadIfDistributed, Watching)

DirGone ==
    /\ Handling("dir_gone")
    /\ draft' = IF mcsman THEN Put(draft, Subject, "none") ELSE draft
    /\ Done

(* Mutant: a new file is loaded but not watched. *)
NoWatch == UNCHANGED watches

(* fs_watcher.add_watch, for the file of the event. *)
Watch ==
    CASE batch[at][1] = "main_created" -> mainWatch' = TRUE /\ UNCHANGED <<dirWatch, confWatch>>
      [] batch[at][1] = "dir_created" ->
            dirWatch' = dirWatch \cup {Subject} /\ UNCHANGED <<mainWatch, confWatch>>
      [] OTHER -> confWatch' = confWatch \cup {Subject} /\ UNCHANGED <<mainWatch, dirWatch>>

Watchable ==
    CASE batch[at][1] = "main_created" -> main.error # "absent"
      [] batch[at][1] = "dir_created" -> Subject \in dirs
      [] OTHER -> file[Subject].error # "absent"

(* A file that has gone in the meantime cannot be watched; that may or may *)
(* not be an exception.                                                    *)
AddWatch ==
    /\ running /\ adding
    /\ adding' = FALSE
    /\ at' = at - 1
    /\ IF Watchable THEN Watch /\ UNCHANGED running
                    ELSE running' \in BOOLEAN /\ UNCHANGED watches
    /\ UNCHANGED <<mcsman, files, queue, conf, draft, batch, ops>>

Publish ==
    /\ running /\ batch # <<>> /\ at = 0
    /\ conf' = draft
    /\ batch' = <<>>
    /\ UNCHANGED <<mcsman, files, watches, queue, draft, at, adding, running, ops>>

(* The command "conf reload" of the manager, on the same thread. *)
Reload ==
    /\ running /\ batch = <<>> /\ ("hasty" \in Habits \/ queue = <<>>)
    /\ \E r \in LoadAll(default_conf) : conf' = IF r.end = "ok" THEN r.conf ELSE conf
    /\ UNCHANGED <<mcsman, files, watches, queue, draft, batch, at, adding, running, ops>>

-----------------------------------------------------------------------------
(* Whoever edits the files.  A careful operator edits files in place at any *)
(* time, once they are watched, and otherwise changes one thing while the  *)
(* hub is idle.  Habits is what he does besides, that the hub loses:       *)
(*   "hasty"   makes, removes and replaces files and directories, edits    *)
(*             files not watched yet, or reloads, while changes are pending *)
(*   "moves"   moves a directory here with a file in it, or away from a hub *)
(*             that reads such files and has no mcsman                     *)
(*   "ignored" removes or replaces, under mcsman, a server's file that the *)
(*             hub is told to ignore                                       *)
(*   "main"    removes the main file                                       *)

Idle == queue = <<>> /\ batch = <<>>
InTime == "hasty" \in Habits \/ Idle

Edit(events) ==
    /\ running /\ ops < MaxOps
    /\ ops' = ops + 1
    /\ queue' = queue \o events
    /\ UNCHANGED <<mcsman, listener>>

If(watched, kind, n) == IF watched THEN <<<<kind, n>>>> ELSE <<>>

WriteMain(c) ==
    /\ main.error # "absent" /\ ("hasty" \in Habits \/ mainWatch)
    /\ main' = c
    /\ Edit(If(mainWatch, "main_written", ""))
    /\ UNCHANGED <<dirs, file, watches>>

RemoveMain ==
    /\ main.error # "absent" /\ "main" \in Habits
    /\ main' = NoMain /\ mainWatch' = FALSE
    /\ Edit(If(mainWatch, "main_gone", ""))
    /\ UNCHANGED <<dirs, file, dirWatch, confWatch>>

CreateMain ==
    /\ main.error = "absent"
    /\ main' = [NoMain EXCEPT !.error = "none"]
    /\ Edit(<<<<"main_created", "">>>>)
    /\ UNCHANGED <<dirs, file, watches>>

(* mkdir, or a directory moved here with a file in it. *)
MakeDir(n, c) ==
    /\ n \notin dirs /\ InTime
    /\ c # NoConf => "moves" \in Habits
    /\ dirs' = dirs \cup {n}
    /\ file' = [file EXCEPT ![n] = c]
    /\ Edit(<<<<"dir_created", n>>>>)
    /\ UNCHANGED <<main, watches>>

(* rmdir, or a directory moved away with the file in it. *)
RemoveDir(n) ==
    /\ n \in dirs /\ InTime
    /\ file[n] # NoConf /\ conf.distributed /\ ~mcsman => "moves" \in Habits
    /\ dirs' = dirs \ {n}
    /\ file' = [file EXCEPT ![n] = NoConf]
    /\ dirWatch' = dirWatch \ {n} /\ confWatch' = confWatch \ {n}
    /\ Edit(If(n \in dirWatch, "dir_gone", n))
    /\ UNCHANGED <<main, mainWatch>>

(* A new file is empty at first. *)
CreateConf(n) ==
    /\ n \in dirs /\ file[n] = NoConf /\ InTime
    /\ file' = [file EXCEPT ![n].error = "none"]
    /\ Edit(If(n \in dirWatch, "conf_created", n))
    /\ UNCHANGED <<main, dirs, watches>>

WriteConf(n, c) ==
    /\ n \in dirs /\ file[n] # NoConf /\ ("hasty" \in Habits \/ n \in confWatch)
    /\ file' = [file EXCEPT ![n] = c]
    /\ Edit(If(n \in confWatch, "conf_written", n))
    /\ UNCHANGED <<main, dirs, watches>>

RemoveConf(n) ==
    /\ n \in dirs /\ file[n] # NoConf /\ InTime
    /\ Automatic(n) /\ ~conf.distributed => "ignored" \in Habits
    /\ file' = [file EXCEPT ![n] = NoConf]
    /\ confWatch' = confWatch \ {n}
    /\ Edit(If(n \in confWatch, "conf_gone", n))
    /\ UNCHANGED <<main, dirs, mainWatch, dirWatch>>

(* An editor that renames a new file over the old one. *)
ReplaceConf(n, c) ==
    /\ n \in dirs /\ file[n] # NoConf /\ InTime
    /\ Automatic(n) /\ ~conf.distributed => "ignored" \in Habits
    /\ file' = [file EXCEPT ![n] = c]
    /\ confWatch' = confWatch \ {n}
    /\ Edit(If(n \in dirWatch, "conf_created", n) \o If(n \in confWatch, "conf_gone", n))
    /\ UNCHANGED <<main, dirs, mainWatch, dirWatch>>

-----------------------------------------------------------------------------

Handle ==
    \/ MainWritten \/ MainGone \/ MainCreated \/ DirCreated \/ DirGone
    \/ ConfGone \/ ConfWritten \/ ConfCreated \/ AddWatch

Listener == Take \/ Handle \/ Publish

Operator ==
    \/ \E c \in MainContents : WriteMain(c)
    \/ RemoveMain \/ CreateMain
    \/ \E n \in DirNames, c \in ConfContents \cup {NoConf} : MakeDir(n, c)
    \/ \E n \in DirNames : RemoveDir(n) \/ CreateConf(n) \/ RemoveConf(n)
    \/ \E n \in DirNames, c \in ConfContents : WriteConf(n, c) \/ ReplaceConf(n, c)

Next == Listener \/ Reload \/ Operator

(* The main thread never stops waiting for events and handling them. *)
Fairness == WF_vars(Listener)

Spec == Init /\ [][Next]_vars /\ Fairness

-----------------------------------------------------------------------------
(* Properties *)

(* There is something to agree with: every file can be read. *)
Readable == main.error = "none" /\ \A n \in dirs : file[n].error \in {"none", "absent"}

(* conf is what the hub would load if it were started now. *)
Current == \A r \in LoadAll(default_conf) : conf = r.conf

(* A careful operator, and what he writes: the main file lists no server   *)
(* that may have a directory, and a server's file can be read and gives an *)
(* address.                                                                *)
Orderly ==
    /\ Habits = {}
    /\ \A c \in MainContents, n \in DirNames : c.servers[n] = "absent"
    /\ \A c \in ConfContents : c.error = "none" /\ c.address # "unset"

(* Options marked as dynamic are applied while the hub works               *)
(* (mcshub.yml:3-4): when there is no event left to handle, what is        *)
(* published is what a restart would load, however the events were batched *)
(* and although init_listener handles a batch from its last event.         *)
Settled == running /\ Idle /\ Readable => Current

(* And it gets there: once the files stop changing, what is published is   *)
(* what a restart would load, for good.                                    *)
Converges == <>[](running /\ Readable => Current)

(* When the hub is idle every file it has is watched: the next change to   *)
(* any of them will be noticed (the add_watch calls of init_listener).     *)
Watched ==
    running /\ Idle =>
        mainWatch /\ dirWatch = dirs /\ confWatch = {n \in dirs : file[n] # NoConf}

(* A batch of events about some servers' files leaves the other servers    *)
(* alone: a record changes only when the batch is about it, or about the   *)
(* main file (every branch of init_listener works on a copy of old_conf).  *)
Isolation ==
    [][\A n \in Names :
        batch # <<>> /\ conf'.servers[n] # conf.servers[n]
            => \E i \in DOMAIN batch : batch[i][1] \in MainKinds \/ batch[i][2] = n]_vars

=============================================================================
