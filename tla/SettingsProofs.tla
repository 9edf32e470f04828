--------------------------- MODULE SettingsProofs ---------------------------
(***************************************************************************)
(* Proofs about Settings for every value of its constants.                 *)
(***************************************************************************)
EXTENDS Settings, SequenceTheorems, TLAPS

(* A file is in a directory that is there. *)
Located == \A n \in Names : file[n].error # "absent" => n \in dirs

(* A watch is due only for the file of an event that says it was made. *)
WatchIsDue == adding => at > 0 /\ batch[at][1] \in {"main_created", "dir_created", "conf_created"}

(* The draft differs from what is published only by what the batch is about. *)
About(events, n) == \E i \in DOMAIN events : events[i][1] \in MainKinds \/ events[i][2] = n
DraftApart ==
    batch # <<>> => \A n \in Names : draft.servers[n] # conf.servers[n] => About(batch, n)

(* The files are of their types. *)
FileTypes == main \in MainFiles /\ dirs \subseteq DirNames /\ file \in [Names -> ConfFiles]

-----------------------------------------------------------------------------
(* Reading the files *)

(* A record in its place makes a configuration of a configuration. *)
LEMMA PutType ==
    ASSUME NEW c \in Confs, NEW n, NEW record \in Records
    PROVE  /\ Put(c, n, record) \in Confs
           /\ \A m \in Names : m # n => Put(c, n, record).servers[m] = c.servers[m]
BY DEF Put, Confs

(* The program's arguments alone make a configuration. *)
LEMMA DefaultType == default_conf \in Confs
BY SettingsAssumption DEF default_conf, Confs, Records

(* Reading the main file makes a configuration, however it ends. *)
LEMMA ReadMainType ==
    ASSUME FileTypes, NEW c \in Confs
    PROVE  ReadMain(c).conf \in Confs
<1> DEFINE flag == IF main.distributed = "unset" THEN c.distributed ELSE main.distributed = "yes"
           flagged == [c EXCEPT !.distributed = IF main.distributed = "unset" THEN @ ELSE main.distributed = "yes"]
           named == [n \in Names |-> IF main.servers[n] = "absent"
                                     THEN c.servers[n] ELSE Merge("own", main.servers[n])]
<1>1. flag \in BOOLEAN
    BY DEF Confs
<1>2. flagged \in Confs
    BY <1>1 DEF Confs
<1>3. named \in [Names -> Records]
    BY DEF FileTypes, MainFiles, Merge, Records, Confs
<1>4. [flagged EXCEPT !.servers = named] \in Confs
    BY <1>2, <1>3 DEF Confs
<1> HIDE DEF flag, flagged, named
<1>5. \/ ReadMain(c).conf = c
      \/ ReadMain(c).conf = flagged
      \/ ReadMain(c).conf = [flagged EXCEPT !.servers = named]
    BY DEF ReadMain, Outcome, flagged, named
<1> QED BY <1>2, <1>4, <1>5

(* Reading a server's file makes a configuration, however it ends, and     *)
(* leaves the other servers alone.                                         *)
LEMMA ReadConfType ==
    ASSUME FileTypes, NEW c \in Confs, NEW n \in Names
    PROVE  /\ ReadConf(c, n).conf \in Confs
           /\ \A m \in Names : m # n => ReadConf(c, n).conf.servers[m] = c.servers[m]
<1> DEFINE record == Merge(IF c.servers[n] # "none" THEN c.servers[n] ELSE "own", file[n].address)
<1>1. record \in Records
    BY DEF FileTypes, ConfFiles, Merge, Records, Confs
<1>2. /\ Put(c, n, record) \in Confs
      /\ \A m \in Names : m # n => Put(c, n, record).servers[m] = c.servers[m]
    BY <1>1, PutType
<1>3. ReadConf(c, n).conf \in {c, Put(c, n, record)}
    BY DEF ReadConf, Outcome
<1> QED BY <1>2, <1>3

(* So does a visit of a server's directory. *)
LEMMA VisitType ==
    ASSUME FileTypes, NEW c \in Confs, NEW n \in Names
    PROVE  Visit(c, n).conf \in Confs
<1>1. "mcs" \in Records
    BY DEF Records
<1>2. Put(c, n, "mcs") \in Confs
    BY <1>1, PutType
<1> DEFINE c0 == IF Automatic(n) THEN Put(c, n, "mcs") ELSE c
<1>3. c0 \in Confs
    BY <1>2
<1>4. ReadConf(c0, n).conf \in Confs
    BY <1>3, ReadConfType
<1>5. Visit(c, n).conf \in {c0, ReadConf(c0, n).conf}
    BY DEF Visit, Outcome
<1> HIDE DEF c0
<1> QED BY <1>3, <1>4, <1>5

(* So does loading some of the directories. *)
LEMMA WithDirsType ==
    ASSUME FileTypes, NEW c \in Confs, NEW these
    PROVE  WithDirs(c, these) \in Confs
<1>1. \A n \in Names : Visit(c, n).conf \in Confs
    BY VisitType
<1>2. \A n \in Names : Visit(c, n).conf.servers[n] \in Records
    BY <1>1 DEF Confs
<1> QED BY <1>2 DEF WithDirs, Confs

(* load_all_conf makes a configuration, however far it comes. *)
LEMMA LoadAllType ==
    ASSUME FileTypes, NEW r \in LoadAll(default_conf)
    PROVE  r.conf \in Confs
<1> DEFINE m == ReadMain(default_conf)
<1>1. m.conf \in Confs
    BY DefaultType, ReadMainType
<1>2. \/ r = m
      \/ r = Outcome(WithDirs(m.conf, dirs), "ok")
      \/ r \in Interrupted(m.conf)
    BY DEF LoadAll
<1> HIDE DEF m
<1>3. ASSUME r \in Interrupted(m.conf) PROVE  \E before, n : r = Stopped(m.conf, before, n)
    BY <1>3 DEF Interrupted
<1>4. \A these, end : Outcome(WithDirs(m.conf, these), end).conf \in Confs
    BY <1>1, WithDirsType DEF Outcome
<1> QED BY <1>1, <1>2, <1>3, <1>4 DEF Stopped

-----------------------------------------------------------------------------
(* Events *)

(* The event at hand is one of the events. *)
LEMMA SubjectType ==
    ASSUME TypeOK, at > 0
    PROVE  /\ at \in DOMAIN batch /\ batch[at] \in Events
           /\ batch[at][1] \in ServerKinds => Subject \in Names
           /\ batch[at][1] \in MainKinds \cup ServerKinds
<1>1. Len(batch) \in Nat /\ DOMAIN batch = 1..Len(batch)
    BY LenProperties DEF TypeOK
<1>2. at \in 1..Len(batch)
    BY <1>1 DEF TypeOK
<1>3. batch[at] \in Events
    BY <1>2, ElementOfSeq DEF TypeOK
<1>4. \A e \in Events : /\ e[1] \in MainKinds \cup ServerKinds
                        /\ e[1] \in ServerKinds => e[2] \in Names
    BY DEF Events, MainKinds, ServerKinds
<1> QED BY <1>1, <1>2, <1>3, <1>4 DEF Subject

(* inotify's queue stays a sequence of events. *)
LEMMA QueueType ==
    ASSUME TypeOK, NEW watched, NEW kind, NEW n, <<kind, n>> \in Events
    PROVE  /\ If(watched, kind, n) \in Seq(Events)
           /\ <<<<kind, n>>>> \in Seq(Events)
           /\ queue \o If(watched, kind, n) \in Seq(Events)
           /\ queue \o <<<<kind, n>>>> \in Seq(Events)
<1>1. <<>> \in Seq(Events) /\ <<<<kind, n>>>> \in Seq(Events)
    OBVIOUS
<1>2. If(watched, kind, n) \in Seq(Events)
    BY <1>1 DEF If
<1> QED BY <1>1, <1>2, ConcatProperties DEF TypeOK

-----------------------------------------------------------------------------
(* Type correctness *)

IInv == TypeOK /\ Located /\ WatchIsDue

CreatedKinds == {"main_created", "dir_created", "conf_created"}

(* The ways a handler leaves the event at hand. *)
Leaves(kind) ==
    \/ Done
    \/ Watching /\ kind \in CreatedKinds
    \/ running' = FALSE /\ UNCHANGED <<at, adding>>

(* A handler that makes a configuration keeps the invariant. *)
LEMMA HandlerStep ==
    ASSUME IInv, NEW kind, Handling(kind), draft' \in Confs, Leaves(kind)
    PROVE  IInv'
<1>0. Len(batch) \in Nat
    BY LenProperties DEF IInv, TypeOK
<1>1. at \in 1..Len(batch) /\ adding = FALSE /\ batch' = batch
    BY <1>0 DEF IInv, TypeOK, Handling
<1>2. at' \in 0..Len(batch')
    <2>1. at' = at - 1 \/ at' = at
        BY DEF Leaves, Done, Watching
    <2> QED BY <2>1, <1>0, <1>1
<1>6. adding' \in BOOLEAN /\ running' \in BOOLEAN
    BY DEF Leaves, Done, Watching, IInv, TypeOK
<1>7. adding' => at' = at /\ kind \in CreatedKinds
    BY <1>1 DEF Leaves, Done, Watching
<1>3. TypeOK'
    BY <1>2, <1>6 DEF IInv, TypeOK, Handling, files, watches
<1>4. Located'
    BY DEF IInv, Located, Handling, files
<1>5. WatchIsDue'
    BY <1>1, <1>7 DEF WatchIsDue, Handling, CreatedKinds
<1> QED BY <1>3, <1>4, <1>5 DEF IInv

(* Each handler of init_listener keeps the invariant. *)
LEMMA HandleType == ASSUME IInv, Handle PROVE IInv'
<1> USE DEF IInv
<1>0. draft \in Confs /\ conf \in Confs /\ FileTypes
    BY DEF TypeOK, FileTypes
<1>s. ASSUME NEW kind \in ServerKinds, Handling(kind) PROVE Subject \in Names
    BY <1>s, SubjectType DEF Handling
<1>r. "mcs" \in Records /\ "none" \in Records
    BY DEF Records
<1>c. ASSUME NEW kind \in ServerKinds, Handling(kind)
      PROVE  ReadIfDistributed.conf \in Confs
    <2>1. ReadConf(draft, Subject).conf \in Confs
        BY <1>0, <1>s, <1>c, ReadConfType
    <2> QED BY <2>1, <1>0 DEF ReadIfDistributed, Outcome
<1>1. CASE MainWritten
    <2>1. Handling("main_written")
        BY <1>1 DEF MainWritten
    <2>2. PICK r \in LoadAll(default_conf) : Keep(r, Done)
        BY <1>1 DEF MainWritten
    <2>3. r.conf \in Confs
        BY <1>0, LoadAllType
    <2>4. draft' \in Confs /\ Leaves("main_written")
        BY <2>2, <2>3 DEF Keep, Leaves
    <2> QED BY <2>1, <2>4, HandlerStep
<1>2. CASE MainGone
    BY <1>0, <1>2, HandlerStep DEF MainGone, Leaves
<1>3. CASE MainCreated
    <2>1. Handling("main_created") /\ Keep(ReadMain(draft), Watching)
        BY <1>3 DEF MainCreated
    <2>2. ReadMain(draft).conf \in Confs
        BY <1>0, ReadMainType
    <2>3. draft' \in Confs /\ Leaves("main_created")
        BY <2>1, <2>2 DEF Keep, Leaves, CreatedKinds
    <2> QED BY <2>1, <2>3, HandlerStep
<1>4. CASE DirCreated
    <2>1. Handling("dir_created")
        BY <1>4 DEF DirCreated
    <2>2. Put(draft, Subject, "mcs") \in Confs
        BY <1>0, <1>r, PutType
    <2>3. draft' \in Confs /\ Leaves("dir_created")
        BY <1>0, <1>4, <2>2 DEF DirCreated, Leaves, CreatedKinds
    <2> QED BY <2>1, <2>3, HandlerStep
<1>5. CASE DirGone
    <2>1. Put(draft, Subject, "none") \in Confs
        BY <1>0, <1>r, PutType
    <2>2. Handling("dir_gone") /\ draft' \in Confs /\ Leaves("dir_gone")
        BY <1>0, <1>5, <2>1 DEF DirGone, Leaves
    <2> QED BY <2>2, HandlerStep
<1>6. CASE ConfGone
    <2>1. RecordWithoutConf(Subject) \in Records
        BY <1>r DEF RecordWithoutConf
    <2>2. Put(draft, Subject, RecordWithoutConf(Subject)) \in Confs
        BY <1>0, <2>1, PutType
    <2>3. Handling("conf_gone") /\ draft' \in Confs /\ Leaves("conf_gone")
        BY <1>6, <2>2 DEF ConfGone, Leaves
    <2> QED BY <2>3, HandlerStep
<1>7. CASE ConfWritten
    <2>1. Handling("conf_written") /\ Keep(ReadIfDistributed, Done)
        BY <1>7 DEF ConfWritten
    <2>3. ReadIfDistributed.conf \in Confs
        BY <2>1, <1>c DEF ServerKinds
    <2>2. draft' \in Confs /\ Leaves("conf_written")
        BY <2>1, <2>3 DEF Keep, Leaves
    <2> QED BY <2>1, <2>2, HandlerStep
<1>8. CASE ConfCreated
    <2>1. Handling("conf_created") /\ Keep(ReadIfDistributed, Watching)
        BY <1>8 DEF ConfCreated
    <2>3. ReadIfDistributed.conf \in Confs
        BY <2>1, <1>c DEF ServerKinds
    <2>2. draft' \in Confs /\ Leaves("conf_created")
        BY <2>1, <2>3 DEF Keep, Leaves, CreatedKinds
    <2> QED BY <2>1, <2>2, HandlerStep
<1>9. CASE AddWatch
    <2>1. at > 0 /\ batch[at][1] \in CreatedKinds
        BY <1>9 DEF AddWatch, WatchIsDue, CreatedKinds
    <2>2. at' \in 0..Len(batch') /\ adding' = FALSE /\ running' \in BOOLEAN
        <3>1. Len(batch) \in Nat /\ at \in 0..Len(batch)
            BY LenProperties DEF TypeOK
        <3>2. at' = at - 1 /\ batch' = batch /\ adding' = FALSE
            BY <1>9 DEF AddWatch
        <3>3. running' \in BOOLEAN
            BY <1>9 DEF AddWatch, TypeOK
        <3> QED BY <2>1, <3>1, <3>2, <3>3
    <2>3. batch[at][1] \in {"dir_created", "conf_created"} => Subject \in Names
        BY <2>1, SubjectType DEF ServerKinds
    <2>4. /\ mainWatch' \in BOOLEAN /\ dirWatch' \subseteq dirs
          /\ confWatch' \subseteq {n \in dirs : file[n].error # "absent"}
        BY <1>9, <2>1, <2>3 DEF AddWatch, Watchable, Watch, TypeOK, Located, watches, CreatedKinds
    <2>5. TypeOK'
        BY <1>9, <2>2, <2>4 DEF AddWatch, TypeOK, files
    <2>6. Located' /\ WatchIsDue'
        BY <1>9, <2>2 DEF AddWatch, Located, WatchIsDue, files
    <2> QED BY <2>5, <2>6
<1> QED BY <1>1, <1>2, <1>3, <1>4, <1>5, <1>6, <1>7, <1>8, <1>9 DEF Handle

(* Files and watches as they should be, and the events of a change to them. *)
FilesOK ==
    /\ FileTypes
    /\ mainWatch \in BOOLEAN /\ dirWatch \subseteq dirs
    /\ confWatch \subseteq {n \in dirs : file[n].error # "absent"}
    /\ Located

(* What an edit does besides changing the files. *)
Edited ==
    /\ ops < MaxOps /\ ops' = ops + 1
    /\ queue' \in Seq(Events)
    /\ UNCHANGED <<mcsman, listener>>

(* A change to the files keeps the invariant. *)
LEMMA EditStep == ASSUME IInv, Edited, FilesOK' PROVE IInv'
<1>2. ops' \in 0..MaxOps
    <2>1. MaxOps \in Nat /\ ops \in 0..MaxOps
        BY SettingsAssumption DEF IInv, TypeOK
    <2>2. ops < MaxOps /\ ops' = ops + 1
        BY DEF Edited
    <2> QED BY <2>1, <2>2
<1>3. TypeOK'
    BY <1>2 DEF IInv, TypeOK, FilesOK, FileTypes, Edited, listener
<1>4. WatchIsDue'
    BY DEF IInv, WatchIsDue, Edited, listener
<1> QED BY <1>3, <1>4 DEF IInv, FilesOK

(* The events of one change. *)
LEMMA EventTypes ==
    /\ \A kind \in MainKinds : \A watched : If(watched, kind, "") \in Seq(Events)
    /\ \A kind \in ServerKinds, n \in Names : \A watched : If(watched, kind, n) \in Seq(Events)
    /\ \A kind \in MainKinds : <<<<kind, "">>>> \in Seq(Events)
    /\ \A kind \in ServerKinds, n \in Names : <<<<kind, n>>>> \in Seq(Events)
<1>1. <<>> \in Seq(Events) /\ \A e \in Events : <<e>> \in Seq(Events)
    OBVIOUS
<1>2. /\ \A kind \in MainKinds : <<kind, "">> \in Events
      /\ \A kind \in ServerKinds, n \in Names : <<kind, n>> \in Events
    BY DEF Events
<1>3. /\ \A kind \in MainKinds : <<<<kind, "">>>> \in Seq(Events)
      /\ \A kind \in ServerKinds, n \in Names : <<<<kind, n>>>> \in Seq(Events)
    BY <1>1, <1>2, Zenon
<1>4. /\ \A kind \in MainKinds : \A watched : If(watched, kind, "") \in Seq(Events)
      /\ \A kind \in ServerKinds, n \in Names : \A watched : If(watched, kind, n) \in Seq(Events)
    BY <1>1, <1>3, Zenon DEF If
<1> QED BY <1>3, <1>4

(* Whatever is done to the files, the invariant stays. *)
LEMMA OperatorType == ASSUME IInv, Operator PROVE IInv'
<1> USE DEF IInv
<1>0. FilesOK /\ DirNames \subseteq Names
    BY SettingsAssumption DEF TypeOK, FilesOK, FileTypes
<1>n. /\ NoMain \in MainFiles /\ NoConf \in ConfFiles /\ NoConf.error = "absent"
      /\ [NoMain EXCEPT !.error = "none"] \in MainFiles
    BY DEF NoMain, NoConf, MainFiles, ConfFiles, Errors
<1>c. /\ \A c \in MainContents : c \in MainFiles
      /\ \A c \in ConfContents : c \in ConfFiles /\ c.error # "absent"
    BY SettingsAssumption
<1>k. /\ "main_written" \in MainKinds /\ "main_gone" \in MainKinds /\ "main_created" \in MainKinds
      /\ "dir_created" \in ServerKinds /\ "dir_gone" \in ServerKinds
      /\ "conf_written" \in ServerKinds /\ "conf_gone" \in ServerKinds /\ "conf_created" \in ServerKinds
    BY DEF MainKinds, ServerKinds
<1>1. ASSUME NEW c \in MainContents, WriteMain(c) PROVE IInv'
    <2>1. FilesOK'
        BY <1>0, <1>n, <1>c, <1>1 DEF WriteMain, FilesOK, FileTypes, Located, watches
    <2>2. If(mainWatch, "main_written", "") \in Seq(Events)
        BY <1>0, <1>k, EventTypes
    <2>3. queue' = queue \o If(mainWatch, "main_written", "")
        BY <1>1 DEF WriteMain, Edit
    <2>4. Edited
        BY <1>0, <1>1, <2>2, <2>3, ConcatProperties DEF WriteMain, Edit, Edited, TypeOK
    <2> QED BY <2>1, <2>4, EditStep
<1>2. ASSUME RemoveMain PROVE IInv'
    <2>1. FilesOK'
        BY <1>0, <1>n, <1>c, <1>2 DEF RemoveMain, FilesOK, FileTypes, Located, watches
    <2>2. If(mainWatch, "main_gone", "") \in Seq(Events)
        BY <1>0, <1>k, EventTypes
    <2>3. queue' = queue \o If(mainWatch, "main_gone", "")
        BY <1>2 DEF RemoveMain, Edit
    <2>4. Edited
        BY <1>0, <1>2, <2>2, <2>3, ConcatProperties DEF RemoveMain, Edit, Edited, TypeOK
    <2> QED BY <2>1, <2>4, EditStep
<1>3. ASSUME CreateMain PROVE IInv'
    <2>1. FilesOK'
        BY <1>0, <1>n, <1>c, <1>3 DEF CreateMain, FilesOK, FileTypes, Located, watches
    <2>2. <<<<"main_created", "">>>> \in Seq(Events)
        BY <1>0, <1>k, EventTypes
    <2>3. queue' = queue \o <<<<"main_created", "">>>>
        BY <1>3 DEF CreateMain, Edit
    <2>4. Edited
        BY <1>0, <1>3, <2>2, <2>3, ConcatProperties DEF CreateMain, Edit, Edited, TypeOK
    <2> QED BY <2>1, <2>4, EditStep
<1>4. ASSUME NEW n \in DirNames, NEW c \in ConfContents \cup {NoConf}, MakeDir(n, c) PROVE IInv'
    <2>1. FilesOK'
        BY <1>0, <1>n, <1>c, <1>4 DEF MakeDir, FilesOK, FileTypes, Located, watches
    <2>2. <<<<"dir_created", n>>>> \in Seq(Events)
        BY <1>0, <1>k, EventTypes
    <2>3. queue' = queue \o <<<<"dir_created", n>>>>
        BY <1>4 DEF MakeDir, Edit
    <2>4. Edited
        BY <1>0, <1>4, <2>2, <2>3, ConcatProperties DEF MakeDir, Edit, Edited, TypeOK
    <2> QED BY <2>1, <2>4, EditStep
<1>5. ASSUME NEW n \in DirNames, RemoveDir(n) PROVE IInv'
    <2>1. FilesOK'
        BY <1>0, <1>n, <1>c, <1>5 DEF RemoveDir, FilesOK, FileTypes, Located, watches
    <2>2. If(n \in dirWatch, "dir_gone", n) \in Seq(Events)
        BY <1>0, <1>k, EventTypes
    <2>3. queue' = queue \o If(n \in dirWatch, "dir_gone", n)
        BY <1>5 DEF RemoveDir, Edit
    <2>4. Edited
        BY <1>0, <1>5, <2>2, <2>3, ConcatProperties DEF RemoveDir, Edit, Edited, TypeOK
    <2> QED BY <2>1, <2>4, EditStep
<1>6. ASSUME NEW n \in DirNames, CreateConf(n) PROVE IInv'
    <2>0. file' \in [Names -> ConfFiles]
        BY <1>0, <1>6 DEF CreateConf, FilesOK, FileTypes, ConfFiles, Errors
    <2>5. \A m \in Names : m # n => file'[m] = file[m]
        BY <1>6 DEF CreateConf
    <2>6. n \in dirs /\ file[n] = NoConf /\ UNCHANGED <<main, dirs, watches>>
        BY <1>6 DEF CreateConf
    <2>1. FilesOK'
        BY <1>0, <1>n, <2>0, <2>5, <2>6 DEF FilesOK, FileTypes, Located, watches
    <2>2. If(n \in dirWatch, "conf_created", n) \in Seq(Events)
        BY <1>0, <1>k, EventTypes
    <2>3. queue' = queue \o If(n \in dirWatch, "conf_created", n)
        BY <1>6 DEF CreateConf, Edit
    <2>4. Edited
        BY <1>0, <1>6, <2>2, <2>3, ConcatProperties DEF CreateConf, Edit, Edited, TypeOK
    <2> QED BY <2>1, <2>4, EditStep
<1>7. ASSUME NEW n \in DirNames, RemoveConf(n) PROVE IInv'
    <2>1. FilesOK'
        BY <1>0, <1>n, <1>c, <1>7 DEF RemoveConf, FilesOK, FileTypes, Located, watches
    <2>2. If(n \in confWatch, "conf_gone", n) \in Seq(Events)
        BY <1>0, <1>k, EventTypes
    <2>3. queue' = queue \o If(n \in confWatch, "conf_gone", n)
        BY <1>7 DEF RemoveConf, Edit
    <2>4. Edited
        BY <1>0, <1>7, <2>2, <2>3, ConcatProperties DEF RemoveConf, Edit, Edited, TypeOK
    <2> QED BY <2>1, <2>4, EditStep
<1>8. ASSUME NEW n \in DirNames, NEW c \in ConfContents, WriteConf(n, c) PROVE IInv'
    <2>1. FilesOK'
        BY <1>0, <1>n, <1>c, <1>8 DEF WriteConf, FilesOK, FileTypes, Located, watches
    <2>2. If(n \in confWatch, "conf_written", n) \in Seq(Events)
        BY <1>0, <1>k, EventTypes
    <2>3. queue' = queue \o If(n \in confWatch, "conf_written", n)
        BY <1>8 DEF WriteConf, Edit
    <2>4. Edited
        BY <1>0, <1>8, <2>2, <2>3, ConcatProperties DEF WriteConf, Edit, Edited, TypeOK
    <2> QED BY <2>1, <2>4, EditStep
<1>9. ASSUME NEW n \in DirNames, NEW c \in ConfContents, ReplaceConf(n, c) PROVE IInv'
    <2>1. FilesOK'
        BY <1>0, <1>n, <1>c, <1>9 DEF ReplaceConf, FilesOK, FileTypes, Located, watches
    <2>2. If(n \in dirWatch, "conf_created", n) \o If(n \in confWatch, "conf_gone", n) \in Seq(Events)
        <3>1. /\ If(n \in dirWatch, "conf_created", n) \in Seq(Events)
              /\ If(n \in confWatch, "conf_gone", n) \in Seq(Events)
            BY <1>0, <1>k, EventTypes
        <3> QED BY <3>1, ConcatProperties
    <2>3. queue' = queue \o (If(n \in dirWatch, "conf_created", n) \o If(n \in confWatch, "conf_gone", n))
        BY <1>9 DEF ReplaceConf, Edit
    <2>4. Edited
        BY <1>0, <1>9, <2>2, <2>3, ConcatProperties DEF ReplaceConf, Edit, Edited, TypeOK
    <2> QED BY <2>1, <2>4, EditStep
<1> QED BY <1>1, <1>2, <1>3, <1>4, <1>5, <1>6, <1>7, <1>8, <1>9 DEF Operator

(* The hub starts with what it has read and with every file watched. *)
LEMMA InitType == ASSUME Init PROVE IInv
<1>1. /\ mcsman \in Mcsmans /\ main \in MainFiles /\ dirs \subseteq DirNames
      /\ file \in [Names -> ConfFiles]
      /\ mainWatch \in BOOLEAN /\ dirWatch \subseteq dirs
      /\ confWatch \subseteq {n \in dirs : file[n].error # "absent"}
      /\ Located
    <2>1. /\ mcsman \in Mcsmans /\ main \in MainFiles /\ dirs \subseteq DirNames
          /\ mainWatch \in BOOLEAN /\ dirWatch \subseteq dirs
        BY SettingsAssumption DEF Init
    <2>2. NoConf \in ConfFiles /\ NoConf.error = "absent"
        BY DEF NoConf, ConfFiles, Errors
    <2>3. file \in [Names -> ConfFiles]
        BY <2>2, SettingsAssumption DEF Init
    <2>4. \A n \in Names : file[n] = NoConf \/ file[n].error = "none"
        BY DEF Init
    <2>5. confWatch \subseteq {n \in dirs : file[n].error # "absent"}
        BY <2>1, <2>4, SettingsAssumption DEF Init
    <2>6. Located
        BY <2>2 DEF Located, Init
    <2> QED BY <2>1, <2>3, <2>5, <2>6
<1>2. conf \in Confs /\ draft \in Confs
    <2>1. PICK r \in LoadAll(default_conf) : conf = r.conf
        BY DEF Init
    <2>2. FileTypes
        BY <1>1 DEF FileTypes
    <2> QED BY <2>1, <2>2, LoadAllType DEF Init
<1>3. queue = <<>> /\ batch = <<>> /\ at = 0 /\ adding = FALSE /\ running = TRUE /\ ops = 0
    BY DEF Init
<1>4. <<>> \in Seq(Events) /\ 0 \in 0..Len(<<>>)
    OBVIOUS
<1>6. 0 \in 0..MaxOps
    <2>1. MaxOps \in Nat
        BY SettingsAssumption
    <2> QED BY <2>1
<1>5. TypeOK /\ WatchIsDue
    BY <1>1, <1>2, <1>3, <1>4, <1>6 DEF TypeOK, WatchIsDue
<1> QED BY <1>1, <1>5 DEF IInv

(* A batch is taken when the last one is published, with no event at hand. *)
LEMMA ListenerType == ASSUME IInv, Take \/ Publish \/ Reload PROVE IInv'
<1>0. /\ Len(queue) \in Nat /\ Len(batch) \in Nat
      /\ <<>> \in Seq(Events) /\ Len(<<>>) = 0
    BY LenProperties DEF IInv, TypeOK
<1>1. CASE Take
    <2>1. batch = <<>> /\ at = 0 /\ ~adding
        BY <1>0, <1>1 DEF Take, IInv, TypeOK, WatchIsDue
    <2>2. at' \in 0..Len(batch')
        BY <1>0, <1>1 DEF Take
    <2>3. TypeOK'
        BY <1>0, <1>1, <2>2 DEF Take, StartDraft, IInv, TypeOK, files, watches
    <2> QED BY <1>1, <2>1, <2>3 DEF Take, IInv, Located, WatchIsDue, files
<1>2. CASE Publish
    <2>1. TypeOK'
        BY <1>0, <1>2 DEF Publish, IInv, TypeOK, files, watches
    <2> QED BY <1>2, <2>1 DEF Publish, IInv, Located, WatchIsDue, files
<1>3. CASE Reload
    <2>1. PICK r \in LoadAll(default_conf) : conf' = IF r.end = "ok" THEN r.conf ELSE conf
        BY <1>3 DEF Reload
    <2>2. conf' \in Confs
        BY <2>1, LoadAllType DEF IInv, TypeOK, FileTypes
    <2>3. TypeOK'
        BY <1>3, <2>2 DEF Reload, IInv, TypeOK, files, watches
    <2> QED BY <1>3, <2>3 DEF Reload, IInv, Located, WatchIsDue, files
<1> QED BY <1>1, <1>2, <1>3

(* Every step keeps the invariant. *)
LEMMA TypeStep == IInv /\ [Next]_vars => IInv'
<1> SUFFICES ASSUME IInv, [Next]_vars PROVE IInv'
    OBVIOUS
<1>1. CASE Next
    BY <1>1, ListenerType, HandleType, OperatorType DEF Next, Listener
<1>2. CASE UNCHANGED vars
    BY <1>2 DEF IInv, TypeOK, Located, WatchIsDue, vars, files, watches, listener
<1> QED BY <1>1, <1>2

(* What is published and what is being made are configurations, events are  *)
(* about servers, and a watch is of a file that is there.                  *)
THEOREM ConfsAreTyped == Spec => []TypeOK
<1>1. Init => IInv
    BY InitType
<1>2. IInv /\ [Next]_vars => IInv'
    BY TypeStep
<1>3. IInv => TypeOK
    BY DEF IInv
<1> QED BY <1>1, <1>2, <1>3, PTL DEF Spec

-----------------------------------------------------------------------------
(* The isolation of servers *)

(* A handler changes a record only when the batch is about it. *)
LEMMA HandleApart ==
    ASSUME IInv, DraftApart, Handle
    PROVE  DraftApart' /\ conf' = conf
<1> USE DEF IInv
<1>0. draft \in Confs /\ conf \in Confs /\ FileTypes
    BY DEF TypeOK, FileTypes
<1>1. CASE AddWatch
    BY <1>1 DEF AddWatch, DraftApart, About
<1>2. ASSUME NEW kind, Handling(kind),
             \/ kind \in MainKinds
             \/ \A m \in Names : m # Subject => draft'.servers[m] = draft.servers[m]
      PROVE  DraftApart' /\ conf' = conf
    <2>1. at \in DOMAIN batch /\ batch[at][1] = kind /\ batch' = batch /\ conf' = conf
        BY <1>2, SubjectType DEF Handling
    <2>2. ASSUME kind \in MainKinds, NEW n PROVE About(batch, n)
        BY <2>1, <2>2 DEF About
    <2>3. About(batch, Subject)
        BY <2>1 DEF About, Subject
    <2> QED BY <1>2, <2>1, <2>2, <2>3 DEF DraftApart, About
<1>3. CASE MainWritten
    BY <1>2, <1>3 DEF MainWritten, MainKinds
<1>4. CASE MainGone
    BY <1>2, <1>4 DEF MainGone, MainKinds
<1>5. CASE MainCreated
    BY <1>2, <1>5 DEF MainCreated, MainKinds
<1>s. ASSUME NEW kind \in ServerKinds, Handling(kind) PROVE Subject \in Names
    BY <1>s, SubjectType DEF Handling
<1>p. ASSUME NEW record PROVE \A m \in Names : m # Subject =>
                                  Put(draft, Subject, record).servers[m] = draft.servers[m]
    BY <1>0 DEF Put, Confs
<1>c. ASSUME Subject \in Names
      PROVE  \A m \in Names : m # Subject => ReadIfDistributed.conf.servers[m] = draft.servers[m]
    <2>1. \A m \in Names : m # Subject => ReadConf(draft, Subject).conf.servers[m] = draft.servers[m]
        BY <1>0, <1>c, ReadConfType
    <2> QED BY <2>1 DEF ReadIfDistributed, Outcome
<1>6. CASE DirCreated
    BY <1>2, <1>6, <1>p DEF DirCreated
<1>7. CASE DirGone
    BY <1>2, <1>7, <1>p DEF DirGone
<1>8. CASE ConfGone
    BY <1>2, <1>8, <1>p DEF ConfGone
<1>9. CASE ConfWritten
    BY <1>2, <1>9, <1>c, <1>s DEF ConfWritten, Keep, ServerKinds
<1>10. CASE ConfCreated
    BY <1>2, <1>10, <1>c, <1>s DEF ConfCreated, Keep, ServerKinds
<1> QED BY <1>1, <1>3, <1>4, <1>5, <1>6, <1>7, <1>8, <1>9, <1>10 DEF Handle

(* Whoever edits the files does nothing to the listener. *)
LEMMA OperatorLeaves == Operator => UNCHANGED listener
BY DEF Operator, WriteMain, RemoveMain, CreateMain, MakeDir, RemoveDir,
       CreateConf, WriteConf, RemoveConf, ReplaceConf, Edit

(* A batch of events about some servers leaves the others as they are. *)
THEOREM ServersAreIsolated == Spec => Isolation
<1>1. Init => IInv /\ DraftApart
    BY InitType DEF Init, DraftApart
<1>2. IInv /\ [Next]_vars => IInv'
    BY TypeStep
<1>3. IInv /\ DraftApart /\ [Next]_vars => DraftApart'
    <2> SUFFICES ASSUME IInv, DraftApart, [Next]_vars PROVE DraftApart'
        OBVIOUS
    <2>1. CASE Take
        BY <2>1 DEF Take, StartDraft, DraftApart
    <2>2. CASE Handle
        BY <2>2, HandleApart
    <2>3. CASE Publish \/ Reload
        BY <2>3 DEF Publish, Reload, DraftApart
    <2>4. CASE Operator
        BY <2>4, OperatorLeaves DEF DraftApart, About, listener
    <2>5. CASE UNCHANGED vars
        BY <2>5 DEF vars, listener, DraftApart, About
    <2> QED BY <2>1, <2>2, <2>3, <2>4, <2>5 DEF Next, Listener
<1>4. IInv /\ DraftApart /\ [Next]_vars =>
        [\A n \in Names : batch # <<>> /\ conf'.servers[n] # conf.servers[n]
            => \E i \in DOMAIN batch : batch[i][1] \in MainKinds \/ batch[i][2] = n]_vars
    <2> SUFFICES ASSUME IInv, DraftApart, Next, NEW n \in Names,
                        batch # <<>>, conf'.servers[n] # conf.servers[n]
                 PROVE  About(batch, n)
        BY DEF About
    <2>1. CASE Publish
        BY <2>1 DEF Publish, DraftApart
    <2>2. CASE Take \/ Reload
        BY <2>2 DEF Take, Reload
    <2>3. CASE Handle
        BY <2>3, HandleApart
    <2>4. CASE Operator
        BY <2>4, OperatorLeaves DEF listener
    <2> QED BY <2>1, <2>2, <2>3, <2>4 DEF Next, Listener
<1> QED BY <1>1, <1>2, <1>3, <1>4, PTL DEF Spec, Isolation

-----------------------------------------------------------------------------
(* An orderly operator: what is published follows the files.               *)

(* What the files ask for. *)
Flag == IF main.distributed = "unset" THEN DefaultDistributed ELSE main.distributed = "yes"
Present(n) == file[n] # NoConf
Base(n) == IF n \in dirs /\ Automatic(n) THEN "mcs" ELSE "none"
Wanted(n) ==
    IF Flag /\ Present(n)
    THEN IF file[n].address # "unset" THEN file[n].address
         ELSE IF Automatic(n) THEN "mcs" ELSE "own"
    ELSE IF main.servers[n] = "absent" THEN Base(n) ELSE Merge("own", main.servers[n])

(* The events that are not handled yet, and those whose handler has not     *)
(* begun: while a watch is due, the event at hand is of the first only.    *)
Occurs(events, e) == \E k \in DOMAIN events : events[k] = e
Pending(last, e) == (\E k \in 1..last : batch[k] = e) \/ Occurs(queue, e)
Due(kind, n) == Pending(at, <<kind, n>>)
Awaits(kind, n) == Pending(IF adding THEN at - 1 ELSE at, <<kind, n>>)

(* The configuration that the events still to handle work on. *)
View == IF batch = <<>> THEN conf ELSE draft

FilesInOrder ==
    /\ main \in MainContents
    /\ \A n \in Names : Present(n) => n \in dirs /\ file[n].error = "none"

(* An event that is due tells what its server's files are now. *)
Explains(n) ==
    /\ Due("conf_written", n) => Present(n) /\ file[n].address # "unset"
    /\ Due("conf_created", n) => Present(n)
    /\ Due("conf_gone", n) =>
        /\ n \in dirs
        /\ Automatic(n) => conf.distributed
        /\ IF Due("conf_created", n) THEN Present(n) /\ file[n].address # "unset" ELSE ~Present(n)
    /\ Due("dir_created", n) => n \in dirs /\ ~Present(n)
    /\ Due("dir_gone", n) => n \in DirNames \ dirs

(* A file that was replaced is gone first, as batches are handled. *)
GoneFirst(events) ==
    \A i, j \in DOMAIN events :
        events[i][1] = "conf_gone" /\ events[j] = <<"conf_created", events[i][2]>> => j < i

Changes == {"dir_created", "dir_gone", "conf_created", "conf_gone"}
EventsInOrder ==
    /\ ~Due("main_gone", "") /\ ~Due("main_created", "")
    /\ \A n \in Names : Explains(n)
    /\ GoneFirst(batch) /\ GoneFirst(queue)
    /\ batch # <<>> => \A k \in DOMAIN queue : queue[k][1] \notin Changes

(* Whatever is not watched yet is due to be. *)
WatchesInOrder ==
    /\ mainWatch
    /\ \A n \in dirs : n \in dirWatch \/ Due("dir_created", n)
    /\ \A n \in dirs : Present(n) => n \in confWatch \/ Due("conf_created", n)

(* A record is what the files ask for, or an event will make it so. *)
Agrees(n) ==
    \/ View.servers[n] = Wanted(n)
    \/ /\ Awaits("conf_written", n) \/ Awaits("conf_created", n)
       /\ Flag /\ Present(n) /\ file[n].address # "unset"
    \/ Awaits("conf_created", n) /\ View.servers[n] = Base(n)
    \/ Awaits("conf_gone", n)
    \/ Awaits("dir_created", n) /\ View.servers[n] = "none"
    \/ Awaits("dir_gone", n) /\ mcsman

(* So it is for all of them, unless the main file is to be read again. *)
ViewInOrder ==
    main.error = "none" /\ ~Awaits("main_written", "") =>
        View.distributed = Flag /\ \A n \in Names : Agrees(n)

FilesWatched == FilesInOrder /\ EventsInOrder /\ WatchesInOrder
InOrder == running => FilesWatched /\ ViewInOrder

-----------------------------------------------------------------------------
(* What an orderly operator's files load as: what they ask for. *)
LEMMA LoadAllWanted ==
    ASSUME Orderly, IInv, FilesInOrder, main.error = "none", NEW r \in LoadAll(default_conf)
    PROVE  /\ r.end = "ok" /\ r.conf.distributed = Flag
           /\ r.conf.servers = [n \in Names |-> Wanted(n)]
<1> DEFINE m == ReadMain(default_conf)
           c == m.conf
<1>0. /\ FileTypes /\ DirNames \subseteq Names /\ dirs \subseteq DirNames
      /\ \A n \in dirs : main.servers[n] = "absent"
    BY SettingsAssumption DEF IInv, TypeOK, FileTypes, Orderly, FilesInOrder
<1>1. /\ m.end = "ok" /\ c.distributed = Flag
      /\ c.servers = [n \in Names |-> IF main.servers[n] = "absent"
                                      THEN "none" ELSE Merge("own", main.servers[n])]
    BY DEF ReadMain, Outcome, default_conf, Flag
<1>2. c \in Confs
    BY <1>0, DefaultType, ReadMainType
<1> HIDE DEF m, c
<1>3. ASSUME NEW n \in dirs
      PROVE  Visit(c, n).end = "ok" /\ Visit(c, n).conf.servers[n] = Wanted(n)
    <2> DEFINE c0 == IF Automatic(n) THEN Put(c, n, "mcs") ELSE c
    <2>1. n \in Names /\ c.servers[n] = "none" /\ main.servers[n] = "absent"
        BY <1>0, <1>1, <1>3
    <2>2. c0.servers[n] = Base(n) /\ c0 \in Confs /\ c0.distributed = c.distributed
        <3>1. "mcs" \in Records
            BY DEF Records
        <3> QED BY <3>1, <1>2, <1>3, <2>1 DEF Put, Confs, Base
    <2>3. NoConf.error = "absent" /\ (Present(n) => file[n].error = "none")
        BY <2>1 DEF FilesInOrder, NoConf
    <2>4. \A record : Put(c0, n, record).servers[n] = record
        BY <2>1, <2>2 DEF Put, Confs
    <2>5. Visit(c, n) = IF c.distributed /\ file[n].error # "absent"
                        THEN ReadConf(c0, n) ELSE Outcome(c0, "ok")
        BY DEF Visit
    <2> HIDE DEF c0
    <2>6. CASE Flag /\ Present(n)
        <3>1. Visit(c, n) = ReadConf(c0, n)
            BY <1>1, <2>3, <2>5, <2>6
        <3>2. ReadConf(c0, n) = Outcome(Put(c0, n,
                    Merge(IF c0.servers[n] # "none" THEN c0.servers[n] ELSE "own", file[n].address)), "ok")
            BY <2>3, <2>6 DEF ReadConf
        <3>3. Merge(IF c0.servers[n] # "none" THEN c0.servers[n] ELSE "own", file[n].address) = Wanted(n)
            BY <1>3, <2>2, <2>6 DEF Merge, Base, Wanted
        <3> QED BY <3>1, <3>2, <3>3, <2>4 DEF Outcome
    <2>7. CASE ~(Flag /\ Present(n))
        BY <1>1, <1>3, <2>1, <2>2, <2>3, <2>5, <2>7 DEF Outcome, Wanted, Base, Present
    <2> QED BY <2>6, <2>7
<1>4. Whole(c) = dirs
    BY <1>3 DEF Whole
<1>5. r = Outcome(WithDirs(c, dirs), "ok")
    BY <1>1, <1>4 DEF LoadAll, m, c
<1>6. ASSUME NEW n \in Names, n \notin dirs PROVE c.servers[n] = Wanted(n)
    BY <1>1, <1>6 DEF Wanted, Base, FilesInOrder
<1>7. WithDirs(c, dirs).distributed = c.distributed
    BY <1>2 DEF WithDirs, Confs
<1>8. WithDirs(c, dirs).servers
        = [n \in Names |-> IF n \in dirs THEN Visit(c, n).conf.servers[n] ELSE c.servers[n]]
    BY <1>2 DEF WithDirs, Confs
<1>9. WithDirs(c, dirs).servers = [n \in Names |-> Wanted(n)]
    BY <1>3, <1>6, <1>8
<1> QED BY <1>1, <1>5, <1>7, <1>9 DEF Outcome

-----------------------------------------------------------------------------
(* Pending events *)

(* What a queue holds after an edit. *)
LEMMA OccursConcat ==
    ASSUME NEW s \in Seq(Events), NEW t \in Seq(Events), NEW e
    PROVE  Occurs(s \o t, e) <=> Occurs(s, e) \/ Occurs(t, e)
<1>1. /\ Len(s) \in Nat /\ Len(t) \in Nat
      /\ DOMAIN s = 1..Len(s) /\ DOMAIN t = 1..Len(t)
      /\ DOMAIN (s \o t) = 1..(Len(s) + Len(t))
      /\ \A k \in 1..Len(s) : (s \o t)[k] = s[k]
      /\ \A k \in 1..Len(t) : (s \o t)[Len(s) + k] = t[k]
    BY ConcatProperties, LenProperties
<1> DEFINE u == s \o t
           p == Len(s)
           q == Len(t)
<1> HIDE DEF u, p, q
<1>2. /\ p \in Nat /\ q \in Nat
      /\ DOMAIN s = 1..p /\ DOMAIN t = 1..q /\ DOMAIN u = 1..(p + q)
      /\ \A k \in 1..p : u[k] = s[k]
      /\ \A k \in 1..q : u[p + k] = t[k]
    BY <1>1 DEF u, p, q
<1>3. ASSUME NEW k \in DOMAIN s, s[k] = e PROVE Occurs(u, e)
    <2>1. k \in 1..(p + q) /\ u[k] = e
        BY <1>2, <1>3
    <2> QED BY <1>2, <2>1 DEF Occurs
<1>4. ASSUME NEW k \in DOMAIN t, t[k] = e PROVE Occurs(u, e)
    <2>1. p + k \in 1..(p + q) /\ u[p + k] = e
        BY <1>2, <1>4
    <2> QED BY <1>2, <2>1 DEF Occurs
<1>5. ASSUME NEW k \in DOMAIN u, u[k] = e PROVE Occurs(s, e) \/ Occurs(t, e)
    <2>1. CASE k \in 1..p
        BY <1>2, <1>5, <2>1 DEF Occurs
    <2>2. CASE k \notin 1..p
        <3>1. k - p \in 1..q /\ k = p + (k - p)
            BY <1>2, <2>2
        <3>2. t[k - p] = e
            BY <1>2, <1>5, <3>1
        <3> QED BY <1>2, <3>1, <3>2 DEF Occurs
    <2> QED BY <2>1, <2>2
<1> QED BY <1>3, <1>4, <1>5 DEF Occurs, u

(* The listener is idle between batches, and an event is at hand otherwise. *)
LEMMA AtRest ==
    ASSUME IInv
    PROVE  /\ batch = <<>> => at = 0 /\ ~adding
           /\ at = 0 => ~adding
           /\ at \in Nat
<1>1. Len(batch) \in Nat /\ (batch = <<>> => Len(batch) = 0)
    BY LenProperties DEF IInv, TypeOK
<1> QED BY <1>1 DEF IInv, TypeOK, WatchIsDue

(* Without a batch only the queue's events are pending. *)
LEMMA PendingAtRest == \A e : Pending(0, e) <=> Occurs(queue, e)
BY DEF Pending

(* Only the event at hand stops to be pending when the next is at hand. *)
LEMMA PendingOneLess ==
    ASSUME IInv, at > 0
    PROVE  /\ \A e : Pending(at - 1, e) => Pending(at, e)
           /\ \A e : Pending(at, e) /\ e # batch[at] => Pending(at - 1, e)
           /\ Pending(at, batch[at])
<1>1. at \in Nat /\ at > 0
    BY AtRest
<1>2. at \in 1..at /\ \A k \in 1..at : k = at \/ k \in 1..(at - 1)
    BY <1>1
<1>3. \A k \in 1..(at - 1) : k \in 1..at
    BY <1>1
<1> QED BY <1>2, <1>3 DEF Pending

(* Nothing is due when the hub is idle. *)
LEMMA NothingIsDue ==
    ASSUME IInv, Idle
    PROVE  \A kind, n : ~Due(kind, n) /\ ~Awaits(kind, n)
<1>1. at = 0 /\ ~adding
    BY AtRest DEF Idle
<1>2. \A e : ~Occurs(queue, e)
    BY DEF Idle, Occurs
<1> QED BY <1>1, <1>2, PendingAtRest DEF Due, Awaits

-----------------------------------------------------------------------------
(* Batches *)

(* The event is the same before and after it is taken, and conf and draft  *)
(* when they are published.                                                *)
LEMMA TakeOrder == ASSUME IInv, InOrder, Take PROVE InOrder'
<1>1. /\ running /\ batch = <<>> /\ queue # <<>> /\ at = 0 /\ ~adding
      /\ batch' = queue /\ at' = Len(queue) /\ queue' = <<>> /\ draft' = conf
      /\ UNCHANGED <<mcsman, main, dirs, file, mainWatch, dirWatch, confWatch, conf, adding, running>>
    BY AtRest DEF Take, StartDraft, files, watches
<1>2. DOMAIN queue = 1..Len(queue)
    BY LenProperties DEF IInv, TypeOK
<1>3. \A e : ~Occurs(<<>>, e)
    BY DEF Occurs
<1>4. \A e : Pending(at, e)' <=> Pending(at, e)
    BY <1>1, <1>2, <1>3 DEF Pending, Occurs
<1>5. \A kind, n : /\ Due(kind, n)' <=> Due(kind, n)
                   /\ Awaits(kind, n)' <=> Awaits(kind, n)
    BY <1>1, <1>4 DEF Due, Awaits
<1>6. View' = View
    BY <1>1 DEF View
<1>e. EventsInOrder
    BY <1>1 DEF InOrder, FilesWatched
<1>n. \A n \in Names : Explains(n)'
    BY <1>1, <1>5, <1>e DEF EventsInOrder, Explains, Automatic, Present
<1>g. GoneFirst(batch)' /\ GoneFirst(queue)'
    BY <1>1, <1>e DEF EventsInOrder, GoneFirst
<1>k. ~Due("main_gone", "")' /\ ~Due("main_created", "")'
    BY <1>5, <1>e DEF EventsInOrder
<1>q. batch' # <<>> => \A k \in DOMAIN queue' : queue'[k][1] \notin Changes
    BY <1>1
<1>7. EventsInOrder'
    BY <1>k, <1>n, <1>g, <1>q DEF EventsInOrder, Changes
<1>8. FilesInOrder' /\ WatchesInOrder'
    BY <1>1, <1>5 DEF InOrder, FilesWatched, FilesInOrder, WatchesInOrder, Present
<1>9. ViewInOrder'
    BY <1>1, <1>5, <1>6 DEF InOrder, ViewInOrder, Agrees, Wanted, Flag, Present, Base, Automatic
<1> QED BY <1>7, <1>8, <1>9 DEF InOrder, FilesWatched

(* Publishing changes nothing of what is to come. *)
LEMMA PublishOrder == ASSUME IInv, InOrder, Publish PROVE InOrder'
<1>1. /\ running /\ batch # <<>> /\ at = 0 /\ ~adding
      /\ batch' = <<>> /\ conf' = draft
      /\ UNCHANGED <<mcsman, main, dirs, file, mainWatch, dirWatch, confWatch,
                     queue, draft, at, adding, running>>
    BY AtRest DEF Publish, files, watches
<1>4. \A e : /\ Pending(at, e)' <=> Pending(at, e)
             /\ Pending(at, e) <=> Occurs(queue, e)
    BY <1>1 DEF Pending, Occurs
<1>5. \A kind, n : /\ Due(kind, n)' <=> Due(kind, n)
                   /\ Awaits(kind, n)' <=> Awaits(kind, n)
    BY <1>1, <1>4 DEF Due, Awaits
<1>6. View' = View
    BY <1>1 DEF View
<1>e. EventsInOrder
    BY <1>1 DEF InOrder, FilesWatched
<1>q. \A k \in DOMAIN queue : queue[k][1] # "conf_gone"
    BY <1>1, <1>e DEF EventsInOrder, Changes
<1>2. \A n : ~Due("conf_gone", n)
    BY <1>4, <1>q DEF Due, Occurs
<1>n. \A n \in Names : Explains(n)'
    BY <1>1, <1>2, <1>5, <1>e DEF EventsInOrder, Explains, Present
<1>z. GoneFirst(<<>>)
    BY DEF GoneFirst
<1>g. GoneFirst(batch)' /\ GoneFirst(queue)'
    <2>1. GoneFirst(batch)' = GoneFirst(<<>>) /\ GoneFirst(queue)' = GoneFirst(queue)
        BY <1>1 DEF GoneFirst
    <2> QED BY <1>e, <1>z, <2>1 DEF EventsInOrder
<1>k. ~Due("main_gone", "")' /\ ~Due("main_created", "")'
    BY <1>5, <1>e DEF EventsInOrder
<1>b. batch' # <<>> => \A k \in DOMAIN queue' : queue'[k][1] \notin Changes
    BY <1>1
<1>7. EventsInOrder'
    BY <1>k, <1>n, <1>g, <1>b DEF EventsInOrder, Changes
<1>8. FilesInOrder' /\ WatchesInOrder'
    BY <1>1, <1>5 DEF InOrder, FilesWatched, FilesInOrder, WatchesInOrder, Present
<1>9. ViewInOrder'
    BY <1>1, <1>5, <1>6 DEF InOrder, ViewInOrder, Agrees, Wanted, Flag, Present, Base, Automatic
<1> QED BY <1>7, <1>8, <1>9 DEF InOrder, FilesWatched

(* A restart by hand, when nothing is pending, loads what the files ask for. *)
LEMMA ReloadOrder == ASSUME Orderly, IInv, InOrder, Reload PROVE InOrder'
<1>1. /\ running /\ batch = <<>> /\ queue = <<>>
      /\ UNCHANGED <<mcsman, main, dirs, file, mainWatch, dirWatch, confWatch,
                     queue, draft, batch, at, adding, running>>
    BY DEF Reload, Orderly, files, watches
<1>2. PICK r \in LoadAll(default_conf) : conf' = IF r.end = "ok" THEN r.conf ELSE conf
    BY DEF Reload
<1>3. \A kind, n : ~Due(kind, n)
    BY <1>1, NothingIsDue DEF Idle
<1>5. \A kind, n : /\ Due(kind, n)' <=> Due(kind, n)
                   /\ Awaits(kind, n)' <=> Awaits(kind, n)
    BY <1>1 DEF Due, Awaits, Pending
<1>7. EventsInOrder'
    BY <1>1, <1>3, <1>5 DEF InOrder, FilesWatched, EventsInOrder, Explains, GoneFirst, Present
<1>8. FilesInOrder' /\ WatchesInOrder'
    BY <1>1, <1>5 DEF InOrder, FilesWatched, FilesInOrder, WatchesInOrder, Present
<1>9. ASSUME main.error = "none"
      PROVE  View'.distributed = Flag /\ View'.servers = [n \in Names |-> Wanted(n)]
    BY <1>1, <1>2, <1>9, LoadAllWanted DEF View, InOrder, FilesWatched
<1>10. ViewInOrder'
    BY <1>1, <1>9 DEF ViewInOrder, Agrees, Wanted, Flag, Present, Base, Automatic
<1> QED BY <1>7, <1>8, <1>10 DEF InOrder, FilesWatched

-----------------------------------------------------------------------------
(* Handlers *)

(* A pair is made of its parts. *)
LEMMA PairIs == ASSUME NEW A, NEW B, NEW e \in A \X B PROVE e = <<e[1], e[2]>>
OBVIOUS

(* A handler, or the first half of one that has a watch to add, leaves the *)
(* other events as they are.                                               *)
LEMMA HandlerPending ==
    ASSUME IInv, NEW kind, Handling(kind), Done \/ Watching
    PROVE  /\ batch[at] = <<kind, Subject>>
           /\ \A k, n : Awaits(k, n)' => Awaits(k, n)
           /\ \A k, n : Awaits(k, n) /\ <<k, n>> # batch[at] => Awaits(k, n)'
           /\ \A k, n : Due(k, n)' => Due(k, n)
           /\ \A k, n : Due(k, n) /\ (Watching \/ <<k, n>> # batch[at]) => Due(k, n)'
           /\ \A k, n : Awaits(k, n) <=> Due(k, n)
           /\ Due(kind, Subject)
<1>1. at > 0 /\ ~adding /\ batch' = batch /\ queue' = queue /\ batch[at][1] = kind
    BY DEF Handling
<1>2. batch[at] = <<kind, Subject>>
    <2>1. batch[at] \in Events
        BY <1>1, SubjectType DEF IInv
    <2>2. batch[at] = <<batch[at][1], batch[at][2]>>
        BY <2>1, PairIs DEF Events
    <2> QED BY <1>1, <2>2 DEF Subject
<1>3. \A e : Pending(IF adding THEN at - 1 ELSE at, e)' <=> Pending(at - 1, e)
    <2>1. (IF adding THEN at - 1 ELSE at)' = at - 1
        BY <1>1, AtRest DEF Done, Watching
    <2> QED BY <1>1, <2>1 DEF Pending
<1>4. \A e : Pending(at, e)' <=> Pending(at', e)
    BY <1>1 DEF Pending
<1>7. Pending(at, <<kind, Subject>>)
    BY <1>1, <1>2, PendingOneLess
<1>5. CASE Watching
    <2>1. at' = at
        BY <1>5 DEF Watching
    <2>2. \A k, n : Due(k, n)' <=> Due(k, n)
        BY <1>4, <2>1 DEF Due
    <2> QED BY <1>1, <1>2, <1>3, <1>7, <2>2, PendingOneLess DEF Awaits, Due
<1>6. CASE Done
    <2>1. at' = at - 1 /\ (Watching => at' = at) /\ at \in Nat
        BY <1>1, <1>6, AtRest DEF Done, Watching
    <2>2. ~Watching
        BY <2>1
    <2> QED BY <1>1, <1>2, <1>3, <1>4, <1>7, <2>1, <2>2, PendingOneLess DEF Awaits, Due
<1> QED BY <1>5, <1>6

(* The files, their watches and the events of a handler stay in order: the *)
(* events that a later handler looks back to are not the one at hand.      *)
LEMMA HandlerWatched ==
    ASSUME IInv, FilesWatched, NEW kind, Handling(kind),
           Watching \/ (Done /\ kind \notin CreatedKinds)
    PROVE  FilesWatched'
<1>1. UNCHANGED <<mcsman, main, dirs, file, mainWatch, dirWatch, confWatch, queue, conf, batch>>
    BY DEF Handling, files, watches
<1>2. /\ \A k, n : Due(k, n)' => Due(k, n)
      /\ \A k \in CreatedKinds : \A n : Due(k, n) => Due(k, n)'
    BY HandlerPending
<1>e. EventsInOrder
    BY DEF FilesWatched
<1>n. ASSUME NEW n \in Names PROVE Explains(n)'
    BY <1>1, <1>2, <1>e DEF EventsInOrder, Explains, Automatic, Present, CreatedKinds
<1>k. ~Due("main_gone", "")' /\ ~Due("main_created", "")'
    BY <1>2, <1>e DEF EventsInOrder
<1>b. /\ GoneFirst(batch)' /\ GoneFirst(queue)'
      /\ batch' # <<>> => \A k \in DOMAIN queue' : queue'[k][1] \notin Changes
    <2>1. GoneFirst(batch)' = GoneFirst(batch) /\ GoneFirst(queue)' = GoneFirst(queue)
        BY <1>1 DEF GoneFirst
    <2> QED BY <1>1, <1>e, <2>1 DEF EventsInOrder
<1>7. EventsInOrder'
    BY <1>k, <1>n, <1>b DEF EventsInOrder, Changes
<1>8. FilesInOrder' /\ WatchesInOrder'
    BY <1>1, <1>2 DEF FilesWatched, FilesInOrder, WatchesInOrder, Present, CreatedKinds
<1> QED BY <1>7, <1>8 DEF FilesWatched

(* A handler of a server's event leaves the other servers alone, so the     *)
(* draft is in order when the server's own record is.                      *)
LEMMA HandlerView ==
    ASSUME IInv, ViewInOrder, NEW kind \in ServerKinds, Handling(kind), Done \/ Watching,
           NEW n, n = Subject,
           draft'.distributed = draft.distributed,
           \A m \in Names : m # n => draft'.servers[m] = draft.servers[m],
           Agrees(n) /\ draft.distributed = Flag => Agrees(n)'
    PROVE  ViewInOrder'
<1>1. /\ UNCHANGED <<mcsman, main, dirs, file, batch>>
      /\ batch # <<>> /\ at > 0
    <2>1. at > 0 /\ UNCHANGED <<mcsman, main, dirs, file, batch>>
        BY DEF Handling, files
    <2> QED BY <2>1, AtRest
<1>2. View = draft /\ View' = draft'
    BY <1>1 DEF View
<1>3. \A k, m : m # n => (Awaits(k, m)' <=> Awaits(k, m))
    BY HandlerPending
<1>4. Awaits("main_written", "") => Awaits("main_written", "")'
    <2>1. <<"main_written", "">> # <<kind, n>>
        BY DEF ServerKinds
    <2> QED BY <2>1, HandlerPending
<1>5. ASSUME NEW m \in Names, Agrees(m), m # n PROVE Agrees(m)'
    BY <1>1, <1>2, <1>3, <1>5 DEF Agrees, Wanted, Flag, Present, Base, Automatic
<1>6. Flag' = Flag /\ main' = main
    BY <1>1 DEF Flag
<1> QED BY <1>2, <1>4, <1>5, <1>6 DEF ViewInOrder

(* Reading the main file again loads what the files ask for. *)
LEMMA MainWrittenOrder == ASSUME Orderly, IInv, InOrder, MainWritten PROVE InOrder'
<1>1. Handling("main_written") /\ running
    BY DEF MainWritten, Handling
<1>2. PICK r \in LoadAll(default_conf) : Keep(r, Done)
    BY DEF MainWritten
<1>3. CASE r.end = "field"
    BY <1>2, <1>3 DEF Keep, InOrder
<1>4. CASE r.end # "field"
    <2>1. draft' = r.conf /\ Done
        BY <1>2, <1>4 DEF Keep
    <2>2. FilesWatched'
        BY <1>1, <2>1, HandlerWatched DEF InOrder, CreatedKinds
    <2>3. /\ UNCHANGED <<mcsman, main, dirs, file, batch>> /\ batch # <<>>
        BY <1>1, AtRest DEF Handling, files
    <2>4. ASSUME main.error = "none"
          PROVE  View'.distributed = Flag /\ View'.servers = [n \in Names |-> Wanted(n)]
        BY <1>1, <2>1, <2>3, <2>4, LoadAllWanted DEF View, InOrder, FilesWatched
    <2>5. ViewInOrder'
        BY <2>3, <2>4 DEF ViewInOrder, Agrees, Wanted, Flag, Present, Base, Automatic
    <2> QED BY <2>2, <2>5 DEF InOrder
<1> QED BY <1>3, <1>4

(* What a handler of a server's event starts from. *)
LEMMA HandlerFacts ==
    ASSUME Orderly, IInv, InOrder, NEW kind \in ServerKinds, Handling(kind), NEW n, n = Subject
    PROVE  /\ n \in Names /\ draft \in Confs /\ running
           /\ Explains(n) /\ Due(kind, n)
           /\ Present(n) => n \in dirs /\ file[n].error = "none"
           /\ n \in DirNames => main.servers[n] = "absent"
           /\ View = draft /\ View' = draft'
           /\ Flag' = Flag /\ Present(n)' = Present(n) /\ Base(n)' = Base(n)
           /\ Wanted(n)' = Wanted(n)
           /\ UNCHANGED <<mcsman, main, dirs, file, batch>>
           /\ FilesWatched /\ ViewInOrder
           /\ batch # <<>> /\ batch[at] = <<kind, n>>
           /\ dirs \subseteq DirNames
<1>1. /\ at > 0 /\ running /\ UNCHANGED <<mcsman, main, dirs, file, batch>>
      /\ batch[at][1] = kind
    BY DEF Handling, files
<1>2. n \in Names /\ batch # <<>>
    BY <1>1, SubjectType, AtRest DEF IInv
<1>3. FilesWatched /\ ViewInOrder /\ draft \in Confs /\ dirs \subseteq DirNames
    BY <1>1 DEF InOrder, IInv, TypeOK
<1>4. Explains(n) /\ (Present(n) => n \in dirs /\ file[n].error = "none")
    BY <1>2, <1>3 DEF FilesWatched, EventsInOrder, FilesInOrder
<1>5. n \in DirNames => main.servers[n] = "absent"
    BY <1>3 DEF FilesWatched, FilesInOrder, Orderly
<1>6. View = draft /\ View' = draft'
    BY <1>1, <1>2 DEF View
<1>7. batch[at] = <<kind, n>> /\ Due(kind, n)
    <2>1. batch[at] = <<batch[at][1], batch[at][2]>>
        BY <1>1, SubjectType, PairIs DEF IInv, Events
    <2>2. batch[at] = <<kind, n>>
        BY <1>1, <2>1 DEF Subject
    <2> QED BY <1>1, <2>2, PendingOneLess DEF Due
<1>8. /\ Flag' = Flag /\ Present(n)' = Present(n) /\ Base(n)' = Base(n)
      /\ Wanted(n)' = Wanted(n)
    BY <1>1 DEF Flag, Present, Base, Wanted, Automatic
<1> QED BY <1>1, <1>2, <1>3, <1>4, <1>5, <1>6, <1>7, <1>8

(* When a file that was made is at hand, none of that name is to go. *)
LEMMA GoneBefore ==
    ASSUME IInv, EventsInOrder, at > 0, NEW n, batch[at] = <<"conf_created", n>>
    PROVE  ~Due("conf_gone", n)
<1>1. at \in DOMAIN batch /\ at \in Nat /\ batch # <<>>
    BY SubjectType, AtRest DEF IInv
<1>2. ASSUME NEW i \in 1..at, batch[i] = <<"conf_gone", n>> PROVE FALSE
    <2>1. i \in DOMAIN batch /\ ~(at < i)
        <3>1. DOMAIN batch = 1..Len(batch) /\ Len(batch) \in Nat
            BY LenProperties DEF IInv, TypeOK
        <3> QED BY <1>1, <3>1
    <2>2. batch[i][1] = "conf_gone" /\ batch[at] = <<"conf_created", batch[i][2]>>
        BY <1>2
    <2> QED BY <1>1, <2>1, <2>2 DEF EventsInOrder, GoneFirst
<1>3. \A k \in DOMAIN queue : queue[k][1] # "conf_gone"
    BY <1>1 DEF EventsInOrder, Changes
<1>4. ~Occurs(queue, <<"conf_gone", n>>)
    BY <1>3 DEF Occurs
<1> QED BY <1>2, <1>4 DEF Due, Pending

(* Reading a file that is there, into a draft. *)
LEMMA ReadPresent ==
    ASSUME NEW c \in Confs, NEW n \in Names, file[n].error = "none"
    PROVE  /\ ReadConf(c, n).end = "ok"
           /\ ReadConf(c, n).conf.distributed = c.distributed
           /\ \A m \in Names : m # n => ReadConf(c, n).conf.servers[m] = c.servers[m]
           /\ file[n].address # "unset" => ReadConf(c, n).conf.servers[n] = file[n].address
           /\ file[n].address = "unset" => ReadConf(c, n).conf.servers[n] =
                    IF c.servers[n] = "none" THEN "own" ELSE c.servers[n]
<1> DEFINE record == Merge(IF c.servers[n] # "none" THEN c.servers[n] ELSE "own", file[n].address)
<1>1. ReadConf(c, n) = Outcome(Put(c, n, record), "ok")
    BY DEF ReadConf
<1>2. /\ Put(c, n, record).distributed = c.distributed
      /\ Put(c, n, record).servers[n] = record
      /\ \A m \in Names : m # n => Put(c, n, record).servers[m] = c.servers[m]
    BY DEF Put, Confs
<1>3. /\ file[n].address # "unset" => record = file[n].address
      /\ file[n].address = "unset" => record = IF c.servers[n] = "none" THEN "own" ELSE c.servers[n]
    BY DEF Merge
<1> HIDE DEF record
<1> QED BY <1>1, <1>2, <1>3 DEF Outcome

(* A file that was written or made gives its server the record it asks for. *)
LEMMA ConfReadOrder ==
    ASSUME Orderly, IInv, InOrder, ConfWritten \/ ConfCreated
    PROVE  InOrder'
<1>1. PICK kind \in {"conf_written", "conf_created"} :
        /\ Handling(kind)
        /\ \/ kind = "conf_written" /\ Keep(ReadIfDistributed, Done)
           \/ kind = "conf_created" /\ Keep(ReadIfDistributed, Watching)
    BY DEF ConfWritten, ConfCreated
<1>n. PICK n : n = Subject
    OBVIOUS
<1>2. kind \in ServerKinds
    BY DEF ServerKinds
<1>3. /\ n \in Names /\ draft \in Confs /\ running /\ Explains(n) /\ Due(kind, n)
      /\ Present(n) => n \in dirs /\ file[n].error = "none"
      /\ n \in DirNames => main.servers[n] = "absent"
      /\ View = draft /\ View' = draft'
      /\ Flag' = Flag /\ Present(n)' = Present(n) /\ Base(n)' = Base(n)
      /\ Wanted(n)' = Wanted(n)
      /\ UNCHANGED <<mcsman, main, dirs, file, batch>>
      /\ FilesWatched /\ ViewInOrder /\ batch # <<>> /\ batch[at] = <<kind, n>>
      /\ dirs \subseteq DirNames
    BY <1>1, <1>2, <1>n, HandlerFacts
<1>4. Present(n) /\ (kind = "conf_written" => file[n].address # "unset")
    BY <1>1, <1>3 DEF Explains
<1>5. n \in dirs /\ file[n].error = "none" /\ main.servers[n] = "absent"
    BY <1>3, <1>4
<1>6. /\ ReadConf(draft, n).end = "ok" /\ ReadConf(draft, n).conf.distributed = draft.distributed
      /\ \A m \in Names : m # n => ReadConf(draft, n).conf.servers[m] = draft.servers[m]
      /\ file[n].address # "unset" => ReadConf(draft, n).conf.servers[n] = file[n].address
      /\ file[n].address = "unset" => ReadConf(draft, n).conf.servers[n] =
                    IF draft.servers[n] = "none" THEN "own" ELSE draft.servers[n]
    BY <1>3, <1>5, ReadPresent
<1>7. /\ ReadIfDistributed.end = "ok"
      /\ draft.distributed => ReadIfDistributed.conf = ReadConf(draft, n).conf
      /\ ~draft.distributed => ReadIfDistributed.conf = draft
    BY <1>6, <1>n DEF ReadIfDistributed, Outcome
<1>8. /\ draft' = ReadIfDistributed.conf
      /\ kind = "conf_written" => Done
      /\ kind = "conf_created" => Watching
    BY <1>1, <1>7 DEF Keep
<1>9. Done \/ Watching
    BY <1>8
<1>10. /\ draft'.distributed = draft.distributed
       /\ \A m \in Names : m # n => draft'.servers[m] = draft.servers[m]
    BY <1>6, <1>7, <1>8, <1>3
<1>11. /\ \A k : Awaits(k, n) /\ k # kind => Awaits(k, n)'
       /\ \A k : Awaits(k, n) <=> Due(k, n)
    <2>1. /\ \A k : Awaits(k, n) /\ <<k, n>> # batch[at] => Awaits(k, n)'
          /\ \A k : Awaits(k, n) <=> Due(k, n)
        BY <1>1, <1>9, HandlerPending
    <2>2. \A k : k # kind => <<k, n>> # batch[at]
        BY <1>3
    <2> QED BY <2>1, <2>2
<1>12. kind = "conf_created" => ~Due("conf_gone", n)
    <2>1. at > 0
        BY <1>1 DEF Handling
    <2> QED BY <1>3, <2>1, GoneBefore DEF FilesWatched
<1>13. ASSUME Agrees(n), draft.distributed = Flag PROVE Agrees(n)'
    <2>1. /\ Flag => IF file[n].address # "unset" THEN draft'.servers[n] = file[n].address
                     ELSE draft'.servers[n] = IF draft.servers[n] = "none" THEN "own" ELSE draft.servers[n]
          /\ ~Flag => draft'.servers[n] = draft.servers[n]
        BY <1>6, <1>7, <1>8, <1>13
    <2>2. /\ Base(n) = IF Automatic(n) THEN "mcs" ELSE "none"
          /\ Wanted(n) = IF ~Flag THEN Base(n)
                         ELSE IF file[n].address # "unset" THEN file[n].address
                         ELSE IF Automatic(n) THEN "mcs" ELSE "own"
        BY <1>4, <1>5 DEF Base, Wanted
    <2>3. CASE Flag /\ file[n].address # "unset"
        BY <1>3, <2>1, <2>2, <2>3 DEF Agrees
    <2>4. CASE Flag /\ file[n].address = "unset"
        <3>1. kind = "conf_created"
            BY <1>1, <1>4, <2>4
        <3>2. draft.servers[n] \in {Wanted(n), Base(n)}
            BY <1>3, <1>4, <1>5, <1>11, <1>12, <1>13, <2>4, <3>1 DEF Agrees, Explains
        <3> QED BY <1>3, <2>1, <2>2, <2>4, <3>2 DEF Agrees
    <2>5. CASE ~Flag
        <3>1. \/ draft.servers[n] = Wanted(n)
              \/ Base(n) = Wanted(n) /\ draft.servers[n] = Base(n)
              \/ Awaits("conf_gone", n)
            BY <1>3, <1>4, <1>5, <1>11, <1>13, <2>2, <2>5 DEF Agrees, Explains
        <3>2. Awaits("conf_gone", n) => Awaits("conf_gone", n)'
            BY <1>1, <1>11
        <3> QED BY <1>3, <2>1, <2>5, <3>1, <3>2 DEF Agrees
    <2> QED BY <2>3, <2>4, <2>5
<1>14. ViewInOrder'
    BY <1>1, <1>2, <1>3, <1>9, <1>10, <1>13, <1>n, HandlerView
<1>15. FilesWatched'
    <2>1. CASE kind = "conf_written"
        BY <1>1, <1>3, <1>8, <2>1, HandlerWatched DEF CreatedKinds
    <2>2. CASE kind = "conf_created"
        BY <1>1, <1>3, <1>8, <2>2, HandlerWatched
    <2> QED BY <1>1, <2>1, <2>2
<1> QED BY <1>14, <1>15 DEF InOrder

(* A file that has gone leaves its server the record it has without one,   *)
(* whatever the draft says: "distributed" is as it was when the file went. *)
LEMMA ConfGoneOrder == ASSUME Orderly, IInv, InOrder, ConfGone PROVE InOrder'
<1>n. PICK n : n = Subject
    OBVIOUS
<1>1. Handling("conf_gone") /\ Done /\ draft' = Put(draft, n, RecordWithoutConf(n))
    BY <1>n DEF ConfGone
<1>3. /\ n \in Names /\ draft \in Confs /\ Explains(n) /\ Due("conf_gone", n)
      /\ n \in DirNames => main.servers[n] = "absent"
      /\ View' = draft'
      /\ Present(n)' = Present(n) /\ Base(n)' = Base(n) /\ Wanted(n)' = Wanted(n)
      /\ FilesWatched /\ ViewInOrder /\ batch[at] = <<"conf_gone", n>>
      /\ dirs \subseteq DirNames
    BY <1>1, <1>n, HandlerFacts DEF ServerKinds
<1>4. /\ draft'.distributed = draft.distributed
      /\ \A m \in Names : m # n => draft'.servers[m] = draft.servers[m]
      /\ draft'.servers[n] = RecordWithoutConf(n)
    BY <1>1, <1>3 DEF Put, Confs
<1>5. RecordWithoutConf(n) = Base(n)
    BY <1>3 DEF RecordWithoutConf, Base, Explains, Automatic
<1>6. Agrees(n)'
    <2>1. CASE Due("conf_created", n)
        <3>1. <<"conf_created", n>> # batch[at]
            BY <1>3
        <3>2. Awaits("conf_created", n)'
            BY <1>1, <2>1, <3>1, HandlerPending
        <3> QED BY <1>3, <1>4, <1>5, <3>2 DEF Agrees
    <2>2. CASE ~Due("conf_created", n)
        <3>1. Wanted(n) = Base(n)
            BY <1>3, <2>2 DEF Explains, Wanted
        <3> QED BY <1>3, <1>4, <1>5, <3>1 DEF Agrees
    <2> QED BY <2>1, <2>2
<1>7. ViewInOrder'
    BY <1>1, <1>3, <1>4, <1>6, <1>n, HandlerView DEF ServerKinds
<1>8. FilesWatched'
    BY <1>1, <1>3, HandlerWatched DEF CreatedKinds
<1> QED BY <1>7, <1>8 DEF InOrder

(* A new directory gives its server the automatic record, if there is one. *)
LEMMA DirCreatedOrder == ASSUME Orderly, IInv, InOrder, DirCreated PROVE InOrder'
<1>n. PICK n : n = Subject
    OBVIOUS
<1>1. /\ Handling("dir_created")
      /\ IF n \in dirs
         THEN Watching /\ draft' = IF Automatic(n) THEN Put(draft, n, "mcs") ELSE draft
         ELSE Done /\ UNCHANGED draft
    BY <1>n DEF DirCreated
<1>3. /\ n \in Names /\ draft \in Confs /\ Explains(n) /\ Due("dir_created", n)
      /\ n \in DirNames => main.servers[n] = "absent"
      /\ View = draft /\ View' = draft'
      /\ Wanted(n)' = Wanted(n)
      /\ FilesWatched /\ ViewInOrder /\ batch[at] = <<"dir_created", n>>
      /\ dirs \subseteq DirNames
    BY <1>1, <1>n, HandlerFacts DEF ServerKinds
<1>2. n \in dirs /\ ~Present(n) /\ main.servers[n] = "absent"
    BY <1>3 DEF Explains
<1>4. /\ draft'.distributed = draft.distributed
      /\ \A m \in Names : m # n => draft'.servers[m] = draft.servers[m]
      /\ Automatic(n) => draft'.servers[n] = "mcs"
      /\ ~Automatic(n) => draft'.servers[n] = draft.servers[n]
    BY <1>1, <1>2, <1>3 DEF Put, Confs
<1>5. Wanted(n) = IF Automatic(n) THEN "mcs" ELSE "none"
    BY <1>2 DEF Wanted, Base
<1>9. Watching
    BY <1>1, <1>2
<1>6. ASSUME Agrees(n) PROVE Agrees(n)'
    <2>1. CASE Automatic(n)
        BY <1>3, <1>4, <1>5, <2>1 DEF Agrees
    <2>2. CASE ~Automatic(n)
        <3>1. Awaits("conf_gone", n) => Awaits("conf_gone", n)'
            <4>1. <<"conf_gone", n>> # batch[at]
                BY <1>3
            <4> QED BY <1>1, <1>9, <4>1, HandlerPending
        <3>2. ~Awaits("dir_gone", n)
            <4>1. ~Due("dir_gone", n)
                BY <1>2, <1>3 DEF Explains
            <4> QED BY <1>1, <1>9, <4>1, HandlerPending
        <3>3. Wanted(n) = Base(n)
            BY <1>2 DEF Wanted
        <3>4. draft.servers[n] = Wanted(n) \/ Awaits("conf_gone", n)
            BY <1>2, <1>3, <1>5, <1>6, <2>2, <3>2, <3>3 DEF Agrees
        <3> QED BY <1>3, <1>4, <2>2, <3>1, <3>4 DEF Agrees
    <2> QED BY <2>1, <2>2
<1>7. ViewInOrder'
    BY <1>1, <1>3, <1>4, <1>6, <1>9, <1>n, HandlerView DEF ServerKinds
<1>8. FilesWatched'
    BY <1>1, <1>3, <1>9, HandlerWatched
<1> QED BY <1>7, <1>8 DEF InOrder

(* A directory that has gone takes its server's record with it. *)
LEMMA DirGoneOrder == ASSUME Orderly, IInv, InOrder, DirGone PROVE InOrder'
<1>n. PICK n : n = Subject
    OBVIOUS
<1>1. /\ Handling("dir_gone") /\ Done
      /\ draft' = IF mcsman THEN Put(draft, n, "none") ELSE draft
    BY <1>n DEF DirGone
<1>3. /\ n \in Names /\ draft \in Confs /\ Explains(n) /\ Due("dir_gone", n)
      /\ Present(n) => n \in dirs
      /\ n \in DirNames => main.servers[n] = "absent"
      /\ View = draft /\ View' = draft'
      /\ Wanted(n)' = Wanted(n)
      /\ FilesWatched /\ ViewInOrder /\ batch[at] = <<"dir_gone", n>>
    BY <1>1, <1>n, HandlerFacts DEF ServerKinds
<1>2. n \notin dirs /\ ~Present(n) /\ Wanted(n) = "none" /\ Base(n) = "none"
    BY <1>3 DEF Explains, Wanted, Base
<1>4. /\ draft'.distributed = draft.distributed
      /\ \A m \in Names : m # n => draft'.servers[m] = draft.servers[m]
      /\ draft'.servers[n] = IF mcsman THEN "none" ELSE draft.servers[n]
    BY <1>1, <1>3 DEF Put, Confs
<1>6. ASSUME Agrees(n) PROVE Agrees(n)'
    <2>1. \A k : Awaits(k, n) => Due(k, n)
        BY <1>1, HandlerPending
    <2>2. draft.servers[n] = "none" \/ mcsman
        BY <1>2, <1>3, <1>6, <2>1 DEF Agrees, Explains
    <2> QED BY <1>2, <1>3, <1>4, <2>2 DEF Agrees
<1>7. ViewInOrder'
    BY <1>1, <1>3, <1>4, <1>6, <1>n, HandlerView DEF ServerKinds
<1>8. FilesWatched'
    BY <1>1, <1>3, HandlerWatched DEF CreatedKinds
<1> QED BY <1>7, <1>8 DEF InOrder

(* The main file stays where it is. *)
LEMMA MainStays ==
    ASSUME IInv, EventsInOrder, NEW kind \in {"main_gone", "main_created"},
           at > 0, batch[at][1] = kind
    PROVE  FALSE
<1>1. batch[at] \in Events
    BY SubjectType DEF IInv
<1>2. batch[at] \in MainKinds \X {""}
    BY <1>1 DEF Events, ServerKinds, MainKinds
<1>3. batch[at] = <<kind, "">>
    BY <1>2, PairIs
<1>4. Due(kind, "")
    BY <1>3, PendingOneLess DEF Due
<1> QED BY <1>4 DEF EventsInOrder

(* Every step of init_listener keeps the order. *)
LEMMA HandlersOrder == ASSUME Orderly, IInv, InOrder, Handle, ~AddWatch PROVE InOrder'
<1>1. ASSUME MainGone \/ MainCreated PROVE FALSE
    <2>1. PICK kind \in {"main_gone", "main_created"} : Handling(kind)
        BY <1>1 DEF MainGone, MainCreated
    <2> QED BY <2>1, MainStays DEF Handling, InOrder, FilesWatched
<1> QED BY <1>1, MainWrittenOrder, ConfReadOrder, ConfGoneOrder, DirCreatedOrder, DirGoneOrder
        DEF Handle

(* The file of the event at hand is still there and will be watched. *)
LEMMA AddWatchOrder == ASSUME Orderly, IInv, InOrder, AddWatch PROVE InOrder'
<1>1. /\ running /\ adding /\ at > 0 /\ batch # <<>> /\ batch[at][1] \in CreatedKinds
      /\ adding' = FALSE /\ at' = at - 1
      /\ UNCHANGED <<mcsman, main, dirs, file, queue, conf, draft, batch>>
      /\ FilesWatched /\ ViewInOrder
    BY AtRest DEF AddWatch, IInv, WatchIsDue, CreatedKinds, files, InOrder
<1>n. PICK n : n = Subject
    OBVIOUS
<1>2. batch[at][1] \in {"dir_created", "conf_created"} /\ n \in Names
      /\ batch[at] = <<batch[at][1], n>>
    <2>1. batch[at][1] # "main_created"
        BY <1>1, MainStays DEF FilesWatched
    <2>2. batch[at] = <<batch[at][1], batch[at][2]>>
        BY <1>1, SubjectType, PairIs DEF IInv, Events
    <2> QED BY <1>1, <1>n, <2>1, <2>2, SubjectType DEF CreatedKinds, ServerKinds, IInv, Subject
<1>3. /\ \A e : Pending(IF adding THEN at - 1 ELSE at, e)' <=> Pending(at - 1, e)
      /\ \A e : Pending(at, e)' <=> Pending(at - 1, e)
    BY <1>1 DEF Pending
<1>4. /\ \A k, m : Awaits(k, m)' <=> Awaits(k, m)
      /\ \A k, m : Due(k, m)' => Due(k, m)
      /\ \A k, m : Due(k, m) /\ <<k, m>> # batch[at] => Due(k, m)'
      /\ Due(batch[at][1], n)
    BY <1>1, <1>2, <1>3, PendingOneLess DEF Due, Awaits
<1>5. Explains(n) /\ (Present(n) => n \in dirs /\ file[n].error = "none")
    BY <1>1, <1>2 DEF FilesWatched, FilesInOrder, EventsInOrder
<1>6. Watchable
    BY <1>2, <1>4, <1>5, <1>n DEF Watchable, Explains
<1>7. /\ mainWatch' = mainWatch
      /\ dirWatch' = IF batch[at][1] = "dir_created" THEN dirWatch \cup {n} ELSE dirWatch
      /\ confWatch' = IF batch[at][1] = "dir_created" THEN confWatch ELSE confWatch \cup {n}
    BY <1>2, <1>6, <1>n DEF AddWatch, Watch
<1>8. WatchesInOrder'
    <2>1. \A k, m : <<k, m>> = batch[at] => k = batch[at][1] /\ m = n
        BY <1>2
    <2>2. \A m \in dirs : m \in dirWatch' \/ Due("dir_created", m)'
        BY <1>1, <1>4, <1>7, <2>1 DEF FilesWatched, WatchesInOrder
    <2>3. \A m \in dirs : Present(m) => m \in confWatch' \/ Due("conf_created", m)'
        BY <1>1, <1>2, <1>4, <1>7, <2>1 DEF FilesWatched, WatchesInOrder
    <2> QED BY <1>1, <1>7, <2>2, <2>3 DEF FilesWatched, WatchesInOrder, Present
<1>9. EventsInOrder'
    <2>e. EventsInOrder
        BY <1>1 DEF FilesWatched
    <2>n. ASSUME NEW m \in Names PROVE Explains(m)'
        <3>1. Explains(m)
            BY <2>e DEF EventsInOrder
        <3>2. Due("conf_created", m) /\ ~Due("conf_created", m)' => ~Due("conf_gone", m)
            <4>1. Due("conf_created", m) /\ ~Due("conf_created", m)' => batch[at] = <<"conf_created", m>>
                BY <1>4
            <4> QED BY <1>1, <2>e, <4>1, GoneBefore
        <3> QED BY <1>1, <1>4, <3>1, <3>2 DEF Explains, Automatic, Present
    <2>k. ~Due("main_gone", "")' /\ ~Due("main_created", "")'
        BY <1>4, <2>e DEF EventsInOrder
    <2>b. /\ GoneFirst(batch)' /\ GoneFirst(queue)'
          /\ batch' # <<>> => \A k \in DOMAIN queue' : queue'[k][1] \notin Changes
        <3>1. GoneFirst(batch)' = GoneFirst(batch) /\ GoneFirst(queue)' = GoneFirst(queue)
            BY <1>1 DEF GoneFirst
        <3> QED BY <1>1, <2>e, <3>1 DEF EventsInOrder
    <2> QED BY <2>k, <2>n, <2>b DEF EventsInOrder, Changes
<1>10. FilesInOrder'
    BY <1>1 DEF FilesWatched, FilesInOrder, Present
<1>11. ViewInOrder'
    <2>1. View' = View
        BY <1>1 DEF View
    <2> QED BY <1>1, <1>4, <2>1 DEF ViewInOrder, Agrees, Wanted, Flag, Present, Base, Automatic
<1> QED BY <1>8, <1>9, <1>10, <1>11 DEF InOrder, FilesWatched

-----------------------------------------------------------------------------
(* Edits *)

(* The events of an edit are pending besides those that were. *)
LEMMA EditPending ==
    ASSUME IInv, NEW events \in Seq(Events), Edit(events)
    PROVE  /\ \A k, n : Due(k, n)' <=> Due(k, n) \/ Occurs(events, <<k, n>>)
           /\ \A k, n : Awaits(k, n)' <=> Awaits(k, n) \/ Occurs(events, <<k, n>>)
           /\ View' = View
           /\ UNCHANGED <<mcsman, conf, batch, at, adding, running>>
           /\ running
<1>1. UNCHANGED <<mcsman, conf, draft, batch, at, adding, running>> /\ running
    BY DEF Edit, listener
<1>2. \A e : Occurs(queue, e)' <=> Occurs(queue, e) \/ Occurs(events, e)
    <2>1. TAKE e
    <2>2. Occurs(queue, e)' <=> Occurs(queue \o events, e)
        BY DEF Edit, Occurs
    <2> QED BY <2>2, OccursConcat DEF IInv, TypeOK
<1>3. \A e : /\ Pending(at, e)' <=> Pending(at, e) \/ Occurs(events, e)
             /\ Pending(IF adding THEN at - 1 ELSE at, e)'
                    <=> Pending(IF adding THEN at - 1 ELSE at, e) \/ Occurs(events, e)
    BY <1>1, <1>2 DEF Pending
<1> QED BY <1>1, <1>3 DEF Due, Awaits, View

(* The events of a watched change. *)
LEMMA OccursOne ==
    ASSUME NEW e, NEW f
    PROVE  /\ \A x : Occurs(<<e>>, x) <=> x = e
           /\ \A x : Occurs(<<e, f>>, x) <=> x = e \/ x = f
BY DEF Occurs

(* A change in place does not come between the events of a replacement. *)
LEMMA GoneFirstAppend ==
    ASSUME NEW s \in Seq(Events), GoneFirst(s), NEW e, e[1] \notin Changes
    PROVE  GoneFirst(s \o <<e>>)
<1> DEFINE u == s \o <<e>>
           p == Len(s)
<1>1. /\ p \in Nat /\ DOMAIN s = 1..p /\ DOMAIN u = 1..(p + 1)
      /\ \A k \in 1..p : u[k] = s[k]
      /\ u[p + 1] = e
    BY LenProperties
<1> HIDE DEF u, p
<1>2. ASSUME NEW i \in DOMAIN u, NEW j \in DOMAIN u,
             u[i][1] = "conf_gone", u[j] = <<"conf_created", u[i][2]>>
      PROVE  j < i
    <2>1. u[i] # e /\ u[j] # e
        BY <1>2 DEF Changes
    <2>2. i \in 1..p /\ j \in 1..p
        BY <1>1, <2>1
    <2> QED BY <1>1, <1>2, <2>2 DEF GoneFirst
<1> QED BY <1>2 DEF GoneFirst, u

(* An edit in place, of a file that is watched. *)
LEMMA WriteOrder ==
    ASSUME IInv, EventsInOrder, NEW e \in Events, Edit(<<e>>), e[1] \notin Changes,
           e[1] \notin {"main_gone", "main_created"},
           \A n \in Names : Explains(n)'
    PROVE  EventsInOrder'
<1>1. <<e>> \in Seq(Events) /\ queue \in Seq(Events)
    BY DEF IInv, TypeOK
<1>2. /\ \A k, n : Due(k, n)' <=> Due(k, n) \/ Occurs(<<e>>, <<k, n>>)
      /\ UNCHANGED batch
    BY <1>1, EditPending
<1>3. queue' = queue \o <<e>>
    BY DEF Edit
<1>4. ~Due("main_gone", "")' /\ ~Due("main_created", "")'
    <2>1. ASSUME NEW k \in {"main_gone", "main_created"} PROVE <<k, "">> # e
        <3>1. <<k, "">>[1] = k
            OBVIOUS
        <3> QED BY <3>1
    <2> QED BY <1>2, <2>1, OccursOne DEF EventsInOrder
<1>5. GoneFirst(batch)' /\ GoneFirst(queue)'
    <2>1. GoneFirst(queue \o <<e>>)
        BY <1>1, GoneFirstAppend DEF EventsInOrder
    <2>2. GoneFirst(batch)' = GoneFirst(batch) /\ GoneFirst(queue)' = GoneFirst(queue \o <<e>>)
        BY <1>2, <1>3 DEF GoneFirst
    <2> QED BY <2>1, <2>2 DEF EventsInOrder
<1>6. ASSUME batch # <<>>, NEW k \in DOMAIN (queue \o <<e>>)
      PROVE  (queue \o <<e>>)[k][1] \notin Changes
    <2>1. DOMAIN queue = 1..Len(queue) /\ Len(queue) \in Nat
        BY <1>1, LenProperties
    <2>2. DOMAIN (queue \o <<e>>) = 1..(Len(queue) + 1)
        BY <1>1, <2>1
    <2>3. k \in DOMAIN queue \/ k = Len(queue) + 1
        BY <2>1, <2>2
    <2>4. (queue \o <<e>>)[k] = IF k \in DOMAIN queue THEN queue[k] ELSE e
        BY <1>1, <2>1, <2>2, <2>3
    <2> QED BY <1>6, <2>4 DEF EventsInOrder
<1> QED BY <1>2, <1>3, <1>4, <1>5, <1>6 DEF EventsInOrder, Changes

(* An event that is queued is pending besides those that were. *)
LEMMA OneEvent ==
    ASSUME IInv, NEW e \in Events, Edit(<<e>>)
    PROVE  /\ \A k, n : Due(k, n)' <=> Due(k, n) \/ <<k, n>> = e
           /\ \A k, n : Awaits(k, n)' <=> Awaits(k, n) \/ <<k, n>> = e
           /\ View' = View
           /\ UNCHANGED <<mcsman, conf, batch>>
<1>1. <<e>> \in Seq(Events)
    OBVIOUS
<1>2. /\ \A k, n : Due(k, n)' <=> Due(k, n) \/ Occurs(<<e>>, <<k, n>>)
      /\ \A k, n : Awaits(k, n)' <=> Awaits(k, n) \/ Occurs(<<e>>, <<k, n>>)
      /\ View' = View
      /\ UNCHANGED <<mcsman, conf, batch>>
    BY <1>1, EditPending
<1>3. \A x : Occurs(<<e>>, x) <=> x = e
    BY OccursOne
<1> QED BY <1>2, <1>3

(* The main file is written: it will be read again, with all the others. *)
LEMMA WriteMainOrder ==
    ASSUME Orderly, IInv, InOrder, NEW c \in MainContents, WriteMain(c) PROVE InOrder'
<1> DEFINE e == <<"main_written", "">>
<1>1. /\ FilesWatched /\ main' = c /\ Edit(<<e>>)
      /\ UNCHANGED <<dirs, file, mainWatch, dirWatch, confWatch>>
    BY DEF WriteMain, Orderly, If, Edit, InOrder, watches
<1>2. e \in Events /\ <<e>> \in Seq(Events) /\ e[1] = "main_written"
    <2>1. e \in MainKinds \X {""}
        BY DEF MainKinds
    <2>2. e \in Events
        BY <2>1 DEF Events
    <2>3. e[1] = "main_written"
        OBVIOUS
    <2> HIDE DEF e
    <2>4. <<e>> \in Seq(Events)
        BY <2>2
    <2> QED BY <2>2, <2>3, <2>4
<1>3. /\ \A k, n : Due(k, n)' <=> Due(k, n) \/ <<k, n>> = e
      /\ \A k, n : Awaits(k, n)' <=> Awaits(k, n) \/ <<k, n>> = e
      /\ UNCHANGED <<mcsman, conf, batch>>
    BY <1>1, <1>2, OneEvent
<1> HIDE DEF e
<1>4. \A k \in ServerKinds \cup {"main_gone", "main_created"} : \A n : <<k, n>> # e
    BY <1>2 DEF ServerKinds
<1>5. \A n \in Names : Explains(n)'
    <2>1. \A k \in ServerKinds : \A n : Due(k, n)' <=> Due(k, n)
        BY <1>3, <1>4
    <2> QED BY <1>1, <1>3, <2>1 DEF FilesWatched, EventsInOrder, Explains, Automatic, Present, ServerKinds
<1>6. EventsInOrder'
    BY <1>1, <1>2, <1>5, WriteOrder DEF FilesWatched, Changes
<1>7. FilesInOrder' /\ WatchesInOrder'
    BY <1>1, <1>3 DEF FilesWatched, FilesInOrder, WatchesInOrder, Present
<1>8. ViewInOrder'
    BY <1>3 DEF ViewInOrder, e
<1> QED BY <1>6, <1>7, <1>8 DEF InOrder, FilesWatched

(* A server's file is written: it is watched, so it will be read. *)
LEMMA WriteConfOrder ==
    ASSUME Orderly, IInv, InOrder, NEW n \in DirNames, NEW c \in ConfContents, WriteConf(n, c)
    PROVE  InOrder'
<1> DEFINE e == <<"conf_written", n>>
<1>1. /\ FilesWatched /\ ViewInOrder /\ n \in dirs /\ Present(n)
      /\ file' = [file EXCEPT ![n] = c] /\ Edit(<<e>>)
      /\ UNCHANGED <<main, dirs, mainWatch, dirWatch, confWatch>>
    BY DEF WriteConf, Orderly, If, Edit, InOrder, watches, Present
<1>2. n \in Names /\ c.error = "none" /\ c.address # "unset" /\ c # NoConf
    <2>1. NoConf.error = "absent"
        BY DEF NoConf
    <2>2. c.error = "none" /\ c.address # "unset"
        BY DEF Orderly
    <2> QED BY <2>1, <2>2, SettingsAssumption
<1>3. e \in Events /\ <<e>> \in Seq(Events) /\ e[1] = "conf_written"
    <2>1. e \in ServerKinds \X Names
        BY <1>2 DEF ServerKinds
    <2>2. e \in Events
        BY <2>1 DEF Events
    <2> QED BY <2>2
<1>4. /\ \A k, m : Due(k, m)' <=> Due(k, m) \/ <<k, m>> = e
      /\ \A k, m : Awaits(k, m)' <=> Awaits(k, m) \/ <<k, m>> = e
      /\ UNCHANGED <<mcsman, conf, batch>> /\ View' = View
    BY <1>1, <1>3, OneEvent
<1>5. /\ file'[n] = c /\ Present(n)'
      /\ \A m \in Names : m # n => file'[m] = file[m] /\ (Present(m)' <=> Present(m))
    BY <1>1, <1>2 DEF IInv, TypeOK, Present
<1>6. \A k, m : <<k, m>> = e <=> k = "conf_written" /\ m = n
    OBVIOUS
<1> HIDE DEF e
<1>7. \A m \in Names : Explains(m)'
    <2>1. ASSUME NEW m \in Names, m # n PROVE Explains(m)'
        <3>1. \A k : Due(k, m)' <=> Due(k, m)
            BY <1>4, <1>6, <2>1
        <3>2. Explains(m)
            BY <1>1 DEF FilesWatched, EventsInOrder
        <3> QED BY <1>1, <1>4, <1>5, <2>1, <3>1, <3>2 DEF Explains, Automatic
    <2>2. Explains(n)'
        <3>1. Explains(n) /\ \A k : k # "conf_written" => (Due(k, n)' <=> Due(k, n))
            BY <1>1, <1>2, <1>4, <1>6 DEF FilesWatched, EventsInOrder
        <3> QED BY <1>1, <1>2, <1>4, <1>5, <3>1 DEF Explains, Automatic
    <2> QED BY <2>1, <2>2
<1>8. EventsInOrder'
    BY <1>1, <1>3, <1>7, WriteOrder DEF FilesWatched, Changes
<1>9. FilesInOrder'
    BY <1>1, <1>2, <1>5 DEF FilesWatched, FilesInOrder
<1>10. WatchesInOrder'
    BY <1>1, <1>2, <1>4, <1>5, <1>6, SettingsAssumption DEF FilesWatched, WatchesInOrder, IInv, TypeOK
<1>11. ASSUME NEW m \in Names, Agrees(m) PROVE Agrees(m)'
    <2>1. CASE m # n
        BY <1>1, <1>4, <1>5, <1>6, <1>11, <2>1 DEF Agrees, Wanted, Base, Flag, Automatic
    <2>2. CASE m = n /\ Flag
        BY <1>1, <1>2, <1>4, <1>5, <1>6, <2>2 DEF Agrees, Flag
    <2>3. CASE m = n /\ ~Flag
        BY <1>1, <1>4, <1>6, <1>11, <2>3 DEF Agrees, Wanted, Base, Flag, Automatic
    <2> QED BY <2>1, <2>2, <2>3
<1>12. ViewInOrder'
    BY <1>1, <1>4, <1>6, <1>11 DEF ViewInOrder, Flag
<1> QED BY <1>8, <1>9, <1>10, <1>12 DEF InOrder, FilesWatched

(* Any other edit is of an idle hub: it leaves the other servers alone, *)
Apart(n) ==
    /\ UNCHANGED <<main, mainWatch>> /\ dirs' \subseteq DirNames
    /\ \A m \in Names : m # n =>
            /\ file'[m] = file[m]
            /\ m \in dirs' <=> m \in dirs
            /\ m \in dirWatch' <=> m \in dirWatch
            /\ m \in confWatch' <=> m \in confWatch

(* and its events tell what has become of this one. *)
Told(n, events) ==
    /\ \A k, m : Occurs(events, <<k, m>>) => k \in ServerKinds /\ m = n
    /\ GoneFirst(events)
    /\ Explains(n)'
    /\ Present(n)' => n \in dirs' /\ file'[n].error = "none"
    /\ n \in dirs' => n \in dirWatch' \/ Occurs(events, <<"dir_created", n>>)
    /\ n \in dirs' /\ Present(n)' => n \in confWatch' \/ Occurs(events, <<"conf_created", n>>)

(* Such an edit keeps the order. *)
LEMMA IdleEditOrder ==
    ASSUME IInv, InOrder, Idle, NEW n \in Names, NEW events \in Seq(Events), Edit(events),
           Apart(n), Told(n, events),
           View.distributed = Flag /\ View.servers[n] = Wanted(n) => Agrees(n)'
    PROVE  InOrder'
<1> USE DEF Apart, Told
<1>1. /\ FilesWatched /\ ViewInOrder /\ dirs \subseteq Names /\ dirs' \subseteq Names
      /\ batch = <<>> /\ queue = <<>>
    BY SettingsAssumption DEF IInv, TypeOK, InOrder, Edit, Idle
<1>2. \A k, m : ~Due(k, m) /\ ~Awaits(k, m)
    BY NothingIsDue
<1>3. /\ \A k, m : Due(k, m)' <=> Occurs(events, <<k, m>>)
      /\ \A k, m : Awaits(k, m)' <=> Occurs(events, <<k, m>>)
      /\ View' = View
      /\ UNCHANGED <<mcsman, conf, batch, at, adding, running>>
    BY <1>2, EditPending
<1>4. queue' = events
    <2>1. <<>> \o events = events
        OBVIOUS
    <2> QED BY <1>1, <2>1 DEF Edit
<1>5. \A m \in Names : m # n => (Present(m)' <=> Present(m))
    BY DEF Present
<1>6. EventsInOrder'
    <2>1. \A m \in Names : m # n => Explains(m)'
        BY <1>3 DEF Explains
    <2>2. ~Due("main_gone", "")' /\ ~Due("main_created", "")'
        <3>1. "main_gone" \notin ServerKinds /\ "main_created" \notin ServerKinds
            BY DEF ServerKinds
        <3> QED BY <1>3, <3>1
    <2>3. GoneFirst(<<>>)
        BY DEF GoneFirst
    <2>4. GoneFirst(batch)' = GoneFirst(<<>>) /\ GoneFirst(queue)' = GoneFirst(events)
        BY <1>1, <1>3, <1>4 DEF GoneFirst
    <2>5. batch' = <<>>
        BY <1>1, <1>3
    <2>6. GoneFirst(batch)' /\ GoneFirst(queue)'
        BY <2>3, <2>4
    <2>7. batch' # <<>> => \A k \in DOMAIN queue' : queue'[k][1] \notin Changes
        BY <2>5
    <2>8. \A m \in Names : Explains(m)'
        BY <2>1
    <2> QED BY <2>2, <2>6, <2>7, <2>8 DEF EventsInOrder, Changes
<1>7. FilesInOrder'
    BY <1>1, <1>5 DEF FilesWatched, FilesInOrder
<1>8. WatchesInOrder'
    <2>1. \A m \in dirs' : m \in dirWatch' \/ Due("dir_created", m)'
        BY <1>1, <1>2, <1>3 DEF FilesWatched, WatchesInOrder
    <2>2. \A m \in dirs' : Present(m)' => m \in confWatch' \/ Due("conf_created", m)'
        BY <1>1, <1>2, <1>3, <1>5 DEF FilesWatched, WatchesInOrder
    <2> QED BY <1>1, <2>1, <2>2 DEF FilesWatched, WatchesInOrder
<1>9. ASSUME View.distributed = Flag, View.servers[n] = Wanted(n),
             NEW m \in Names, View.servers[m] = Wanted(m)
      PROVE  Agrees(m)'
    <2>1. CASE m # n
        BY <1>3, <1>5, <1>9, <2>1 DEF Agrees, Wanted, Base, Flag, Automatic
    <2> QED BY <1>9, <2>1
<1>10. ViewInOrder'
    BY <1>1, <1>2, <1>3, <1>9 DEF ViewInOrder, Flag, Agrees
<1> QED BY <1>6, <1>7, <1>8, <1>10 DEF InOrder, FilesWatched

(* What happens to a server is one of the events. *)
LEMMA EventOf == ASSUME NEW k \in ServerKinds, NEW n \in Names PROVE <<k, n>> \in Events
BY DEF Events

(* The events of one change, *)
LEMMA OneChange ==
    ASSUME NEW kind, NEW n
    PROVE  /\ \A k, m : Occurs(<<<<kind, n>>>>, <<k, m>>) <=> k = kind /\ m = n
           /\ GoneFirst(<<<<kind, n>>>>)
<1>1. \A k, m : <<k, m>> = <<kind, n>> <=> k = kind /\ m = n
    OBVIOUS
<1>2. GoneFirst(<<<<kind, n>>>>)
    BY DEF GoneFirst
<1> DEFINE e == <<kind, n>>
<1> HIDE DEF e
<1>3. \A x : Occurs(<<e>>, x) <=> x = e
    BY OccursOne
<1> QED BY <1>1, <1>2, <1>3 DEF e

(* A new directory gets its record when its event is handled. *)
LEMMA MakeDirOrder ==
    ASSUME Orderly, IInv, InOrder, NEW n \in DirNames,
           NEW c \in ConfContents \cup {NoConf}, MakeDir(n, c)
    PROVE  InOrder'
<1> DEFINE events == <<<<"dir_created", n>>>>
<1>1. /\ FilesWatched /\ Idle /\ c = NoConf /\ n \notin dirs /\ n \in Names
      /\ dirs' = dirs \cup {n} /\ file' = [file EXCEPT ![n] = NoConf] /\ Edit(events)
      /\ UNCHANGED <<main, mainWatch, dirWatch, confWatch>>
    BY SettingsAssumption DEF MakeDir, Orderly, InTime, Edit, InOrder, watches
<1>2. "dir_created" \in ServerKinds /\ events \in Seq(Events)
    <2>1. "dir_created" \in ServerKinds
        BY DEF ServerKinds
    <2> QED BY <1>1, <2>1, EventOf
<1>3. \A k, m : Occurs(events, <<k, m>>) <=> k = "dir_created" /\ m = n
    BY OneChange
<1>4. GoneFirst(events)
    BY OneChange
<1> HIDE DEF events
<1>5. /\ file'[n] = NoConf /\ ~Present(n)'
      /\ \A m \in Names : m # n => file'[m] = file[m]
    BY <1>1 DEF IInv, TypeOK, Present
<1>6. \A k : Due(k, n)' <=> k = "dir_created"
    BY <1>1, <1>2, <1>3, NothingIsDue, EditPending
<1>7. Explains(n)'
    BY <1>1, <1>5, <1>6 DEF Explains
<1>8. ASSUME View.servers[n] = Wanted(n) PROVE Agrees(n)'
    <2>1. ~Present(n) /\ main.servers[n] = "absent"
        BY <1>1 DEF FilesWatched, FilesInOrder, Orderly
    <2>2. Wanted(n) = "none"
        BY <1>1, <2>1 DEF Wanted, Base
    <2>3. View' = View /\ Awaits("dir_created", n)'
        BY <1>1, <1>2, <1>3, EditPending
    <2> QED BY <1>8, <2>2, <2>3 DEF Agrees
<1>9. dirs' \subseteq DirNames
    BY <1>1 DEF IInv, TypeOK
<1>10. Apart(n)
    BY <1>1, <1>5, <1>9 DEF Apart
<1>11. Told(n, events)
    BY <1>1, <1>2, <1>3, <1>4, <1>5, <1>7 DEF Told
<1> QED BY <1>1, <1>2, <1>8, <1>10, <1>11, IdleEditOrder

(* A directory is removed, with its file if mcsman's record stands for it  *)
(* or the hub does not read it.                                            *)
LEMMA RemoveDirOrder ==
    ASSUME Orderly, IInv, InOrder, NEW n \in DirNames, RemoveDir(n)
    PROVE  InOrder'
<1> DEFINE events == <<<<"dir_gone", n>>>>
<1>1. /\ FilesWatched /\ ViewInOrder /\ Idle /\ n \in dirs /\ n \in Names
      /\ Present(n) => mcsman \/ ~conf.distributed
      /\ dirs' = dirs \ {n} /\ file' = [file EXCEPT ![n] = NoConf]
      /\ dirWatch' = dirWatch \ {n} /\ confWatch' = confWatch \ {n}
      /\ UNCHANGED <<main, mainWatch>>
    BY SettingsAssumption DEF RemoveDir, Orderly, InTime, Edit, InOrder, Present
<1>0. n \in dirWatch /\ Edit(events)
    <2>1. n \in dirWatch
        BY <1>1, NothingIsDue DEF FilesWatched, WatchesInOrder
    <2> QED BY <2>1 DEF RemoveDir, If
<1>2. events \in Seq(Events) /\ "dir_gone" \in ServerKinds
    <2>1. "dir_gone" \in ServerKinds
        BY DEF ServerKinds
    <2> QED BY <1>1, <2>1, EventOf
<1>3. \A k, m : Occurs(events, <<k, m>>) <=> k = "dir_gone" /\ m = n
    BY OneChange
<1>4. GoneFirst(events)
    BY OneChange
<1> HIDE DEF events
<1>5. /\ file'[n] = NoConf /\ ~Present(n)'
      /\ \A m \in Names : m # n => file'[m] = file[m]
    BY <1>1 DEF IInv, TypeOK, Present
<1>6. \A k : Due(k, n)' <=> k = "dir_gone"
    BY <1>0, <1>1, <1>2, <1>3, NothingIsDue, EditPending
<1>7. Explains(n)'
    BY <1>1, <1>5, <1>6 DEF Explains
<1>8. ASSUME View.distributed = Flag, View.servers[n] = Wanted(n) PROVE Agrees(n)'
    <2>3. View' = View /\ mcsman' = mcsman /\ Awaits("dir_gone", n)'
        BY <1>0, <1>1, <1>2, <1>3, EditPending
    <2>4. CASE mcsman
        BY <2>3, <2>4 DEF Agrees
    <2>5. CASE ~mcsman
        <3>1. ~(Flag /\ Present(n))
            BY <1>1, <1>8, <2>5 DEF View, Idle
        <3> QED BY <1>1, <1>5, <1>8, <2>3, <2>5, <3>1 DEF Agrees, Wanted, Base, Automatic
    <2> QED BY <2>4, <2>5
<1>9. dirs' \subseteq DirNames
    BY <1>1 DEF IInv, TypeOK
<1>10. Apart(n)
    BY <1>1, <1>5, <1>9 DEF Apart
<1>11. Told(n, events)
    BY <1>0, <1>1, <1>2, <1>3, <1>4, <1>5, <1>7 DEF Told
<1> QED BY <1>0, <1>1, <1>2, <1>8, <1>10, <1>11, IdleEditOrder

(* A new file asks for nothing: the automatic record stays. *)
LEMMA CreateConfOrder ==
    ASSUME Orderly, IInv, InOrder, NEW n \in DirNames, CreateConf(n)
    PROVE  InOrder'
<1> DEFINE events == <<<<"conf_created", n>>>>
<1>1. /\ FilesWatched /\ Idle /\ ~Present(n) /\ n \in dirs /\ n \in Names
      /\ file' = [file EXCEPT ![n].error = "none"]
      /\ UNCHANGED <<main, dirs, mainWatch, dirWatch, confWatch>>
    BY SettingsAssumption DEF CreateConf, Orderly, InTime, Edit, InOrder, watches, Present
<1>0. n \in dirWatch /\ Edit(events)
    <2>1. n \in dirWatch
        BY <1>1, NothingIsDue DEF FilesWatched, WatchesInOrder
    <2> QED BY <2>1 DEF CreateConf, If
<1>2. events \in Seq(Events) /\ "conf_created" \in ServerKinds
    <2>1. "conf_created" \in ServerKinds
        BY DEF ServerKinds
    <2> QED BY <1>1, <2>1, EventOf
<1>3. \A k, m : Occurs(events, <<k, m>>) <=> k = "conf_created" /\ m = n
    BY OneChange
<1>4. GoneFirst(events)
    BY OneChange
<1> HIDE DEF events
<1>5. /\ file'[n].error = "none" /\ file'[n].address = "unset" /\ Present(n)'
      /\ \A m \in Names : m # n => file'[m] = file[m]
    BY <1>1 DEF IInv, TypeOK, Present, NoConf
<1>6. \A k : Due(k, n)' <=> k = "conf_created"
    BY <1>0, <1>1, <1>2, <1>3, NothingIsDue, EditPending
<1>7. Explains(n)'
    BY <1>1, <1>5, <1>6 DEF Explains
<1>8. ASSUME View.servers[n] = Wanted(n) PROVE Agrees(n)'
    <2>1. main.servers[n] = "absent"
        BY <1>1 DEF FilesWatched, FilesInOrder, Orderly
    <2>2. View' = View /\ mcsman' = mcsman /\ Awaits("conf_created", n)'
        BY <1>0, <1>2, <1>3, EditPending
    <2>3. Wanted(n) = Base(n) /\ Base(n)' = Base(n)
        BY <1>1, <2>1, <2>2 DEF Wanted, Base, Automatic
    <2> QED BY <1>8, <2>2, <2>3 DEF Agrees
<1>9. dirs' \subseteq DirNames
    BY <1>1 DEF IInv, TypeOK
<1>10. Apart(n)
    BY <1>1, <1>5, <1>9 DEF Apart
<1>11. Told(n, events)
    BY <1>0, <1>1, <1>2, <1>3, <1>4, <1>5, <1>7 DEF Told
<1> QED BY <1>0, <1>1, <1>2, <1>8, <1>10, <1>11, IdleEditOrder

(* A file is removed where its record goes with it. *)
LEMMA RemoveConfOrder ==
    ASSUME Orderly, IInv, InOrder, NEW n \in DirNames, RemoveConf(n)
    PROVE  InOrder'
<1> DEFINE events == <<<<"conf_gone", n>>>>
<1>1. /\ FilesWatched /\ Idle /\ Present(n) /\ n \in dirs /\ n \in Names
      /\ Automatic(n) => conf.distributed
      /\ file' = [file EXCEPT ![n] = NoConf] /\ confWatch' = confWatch \ {n}
      /\ UNCHANGED <<main, dirs, mainWatch, dirWatch>>
    BY SettingsAssumption DEF RemoveConf, Orderly, InTime, Edit, InOrder, watches, Present
<1>0. n \in confWatch /\ n \in dirWatch /\ Edit(events)
    <2>1. n \in confWatch /\ n \in dirWatch
        BY <1>1, NothingIsDue DEF FilesWatched, WatchesInOrder
    <2> QED BY <2>1 DEF RemoveConf, If
<1>2. events \in Seq(Events) /\ "conf_gone" \in ServerKinds
    <2>1. "conf_gone" \in ServerKinds
        BY DEF ServerKinds
    <2> QED BY <1>1, <2>1, EventOf
<1>3. \A k, m : Occurs(events, <<k, m>>) <=> k = "conf_gone" /\ m = n
    BY OneChange
<1>4. GoneFirst(events)
    BY OneChange
<1> HIDE DEF events
<1>5. /\ file'[n] = NoConf /\ ~Present(n)'
      /\ \A m \in Names : m # n => file'[m] = file[m]
    BY <1>1 DEF IInv, TypeOK, Present
<1>6. /\ \A k : Due(k, n)' <=> k = "conf_gone"
      /\ UNCHANGED <<mcsman, conf>> /\ Awaits("conf_gone", n)'
    BY <1>0, <1>1, <1>2, <1>3, NothingIsDue, EditPending
<1>7. Explains(n)'
    BY <1>1, <1>5, <1>6 DEF Explains, Automatic
<1>8. Agrees(n)'
    BY <1>6 DEF Agrees
<1>9. dirs' \subseteq DirNames
    BY <1>1 DEF IInv, TypeOK
<1>10. Apart(n)
    BY <1>1, <1>5, <1>9 DEF Apart
<1>11. Told(n, events)
    BY <1>0, <1>1, <1>2, <1>3, <1>4, <1>5, <1>7 DEF Told
<1> QED BY <1>0, <1>1, <1>2, <1>8, <1>10, <1>11, IdleEditOrder

(* A pair of sequences of one. *)
LEMMA TwoEvents == \A e, f : <<e>> \o <<f>> = <<e, f>>
<1> SUFFICES ASSUME NEW e, NEW f PROVE <<e>> \o <<f>> = <<e, f>>
    OBVIOUS
<1> DEFINE S == {e, f}
           s == <<e>> \o <<f>>
           t == <<e, f>>
<1>1. <<e>> \in Seq(S) /\ <<f>> \in Seq(S) /\ t \in Seq(S) /\ Len(t) = 2
    OBVIOUS
<1>2. /\ s \in Seq(S) /\ Len(s) = 2 /\ s[1] = e /\ s[2] = f
      /\ t[1] = e /\ t[2] = f
    BY <1>1, ConcatProperties
<1> HIDE DEF s, t
<1>3. \A i \in 1..Len(s) : s[i] = t[i]
    BY <1>2
<1>4. s = t
    BY <1>1, <1>2, <1>3, SeqEqual
<1> QED BY <1>4 DEF s, t

(* and those of a replacement. *)
LEMMA TwoChanges ==
    ASSUME NEW n
    PROVE  LET events == <<<<"conf_created", n>>, <<"conf_gone", n>>>>
           IN /\ \A k, m : Occurs(events, <<k, m>>) <=> k \in {"conf_created", "conf_gone"} /\ m = n
              /\ GoneFirst(events)
<1> DEFINE e == <<"conf_created", n>>
           f == <<"conf_gone", n>>
<1>1. \A k, m : (<<k, m>> = e <=> k = "conf_created" /\ m = n)
              /\ (<<k, m>> = f <=> k = "conf_gone" /\ m = n)
    OBVIOUS
<1>2. e[1] = "conf_created" /\ f[1] = "conf_gone"
    OBVIOUS
<1> HIDE DEF e, f
<1>3. \A x : Occurs(<<e, f>>, x) <=> x = e \/ x = f
    BY OccursOne
<1>4. GoneFirst(<<e, f>>)
    <2>1. \A i \in 1..2 : <<e, f>>[i][1] = "conf_gone" => i = 2
        BY <1>2
    <2>2. \A m : \A j \in 1..2 : <<e, f>>[j] = <<"conf_created", m>> => j = 1
        <3>1. \A m : f # <<"conf_created", m>>
            BY <1>2
        <3> QED BY <3>1
    <2> QED BY <2>1, <2>2 DEF GoneFirst
<1> QED BY <1>1, <1>3, <1>4 DEF e, f

(* A file is replaced: its new one is there when the old one is missed. *)
LEMMA ReplaceConfOrder ==
    ASSUME Orderly, IInv, InOrder, NEW n \in DirNames, NEW c \in ConfContents, ReplaceConf(n, c)
    PROVE  InOrder'
<1> DEFINE events == <<<<"conf_created", n>>, <<"conf_gone", n>>>>
<1>1. /\ FilesWatched /\ Idle /\ Present(n) /\ n \in dirs /\ n \in Names
      /\ Automatic(n) => conf.distributed
      /\ file' = [file EXCEPT ![n] = c] /\ confWatch' = confWatch \ {n}
      /\ UNCHANGED <<main, dirs, mainWatch, dirWatch>>
    BY SettingsAssumption DEF ReplaceConf, Orderly, InTime, Edit, InOrder, watches, Present
<1>0. n \in confWatch /\ n \in dirWatch /\ Edit(events)
    <2>1. n \in confWatch /\ n \in dirWatch
        BY <1>1, NothingIsDue DEF FilesWatched, WatchesInOrder
    <2>2. Edit(<<<<"conf_created", n>>>> \o <<<<"conf_gone", n>>>>)
        BY <2>1 DEF ReplaceConf, If
    <2>3. <<<<"conf_created", n>>>> \o <<<<"conf_gone", n>>>> = events
        BY TwoEvents, Zenon
    <2> QED BY <2>1, <2>2, <2>3
<1>2. events \in Seq(Events) /\ "conf_gone" \in ServerKinds /\ "conf_created" \in ServerKinds
    <2>1. "conf_gone" \in ServerKinds /\ "conf_created" \in ServerKinds
        BY DEF ServerKinds
    <2>2. <<"conf_created", n>> \in Events /\ <<"conf_gone", n>> \in Events
        BY <1>1, <2>1, EventOf
    <2> QED BY <2>1, <2>2
<1>3. /\ \A k, m : Occurs(events, <<k, m>>) <=> k \in {"conf_created", "conf_gone"} /\ m = n
      /\ GoneFirst(events)
    BY TwoChanges
<1> HIDE DEF events
<1>5. /\ file'[n] = c /\ Present(n)' /\ c.address # "unset" /\ c.error = "none"
      /\ \A m \in Names : m # n => file'[m] = file[m]
    <2>1. c.address # "unset" /\ c.error = "none" /\ NoConf.error = "absent"
        BY DEF Orderly, NoConf
    <2> QED BY <1>1, <2>1 DEF IInv, TypeOK, Present
<1>6. /\ \A k : Due(k, n)' <=> k \in {"conf_created", "conf_gone"}
      /\ UNCHANGED <<mcsman, conf>> /\ Awaits("conf_gone", n)'
    BY <1>0, <1>1, <1>2, <1>3, NothingIsDue, EditPending
<1>7. Explains(n)'
    BY <1>1, <1>5, <1>6 DEF Explains, Automatic
<1>8. Agrees(n)'
    BY <1>6 DEF Agrees
<1>9. dirs' \subseteq DirNames
    BY <1>1 DEF IInv, TypeOK
<1>10. Apart(n)
    BY <1>1, <1>5, <1>9 DEF Apart
<1>11. Told(n, events)
    BY <1>0, <1>1, <1>2, <1>3, <1>5, <1>7 DEF Told
<1> QED BY <1>0, <1>1, <1>2, <1>8, <1>10, <1>11, IdleEditOrder

(* Every edit of an orderly operator keeps the order. *)
LEMMA OperatorOrder == ASSUME Orderly, IInv, InOrder, Operator PROVE InOrder'
<1>1. ~RemoveMain
    BY DEF RemoveMain, Orderly
<1>2. ~CreateMain
    BY SettingsAssumption DEF CreateMain, Edit, InOrder, FilesWatched, FilesInOrder
<1> QED BY <1>1, <1>2, WriteMainOrder, MakeDirOrder, RemoveDirOrder, CreateConfOrder,
           RemoveConfOrder, WriteConfOrder, ReplaceConfOrder DEF Operator

-----------------------------------------------------------------------------
(* The specification *)

(* The hub starts with everything loaded and watched. *)
LEMMA InitOrder == ASSUME Orderly, Init PROVE InOrder
<1>1. IInv
    BY InitType
<1>2. /\ batch = <<>> /\ queue = <<>> /\ Idle /\ at = 0 /\ ~adding
      /\ mainWatch /\ dirWatch = dirs /\ confWatch = {n \in dirs : file[n] # NoConf}
      /\ main \in MainContents /\ main.error = "none"
      /\ \A n \in Names \ dirs : file[n] = NoConf
      /\ \A n \in Names : file[n] # NoConf => file[n].error = "none"
    BY DEF Init, Idle
<1>3. \A k, n : ~Due(k, n) /\ ~Awaits(k, n)
    BY <1>1, <1>2, NothingIsDue
<1>4. FilesInOrder /\ WatchesInOrder
    BY <1>2 DEF FilesInOrder, WatchesInOrder, Present
<1>5. GoneFirst(batch) /\ GoneFirst(queue)
    BY <1>2 DEF GoneFirst
<1>6. EventsInOrder
    BY <1>2, <1>3, <1>5 DEF EventsInOrder, Explains
<1>7. PICK r \in LoadAll(default_conf) : conf = r.conf
    BY DEF Init
<1>8. conf.distributed = Flag /\ conf.servers = [n \in Names |-> Wanted(n)]
    BY <1>1, <1>2, <1>4, <1>7, LoadAllWanted
<1>9. ViewInOrder
    BY <1>2, <1>8 DEF ViewInOrder, View, Agrees
<1> QED BY <1>4, <1>6, <1>9 DEF InOrder, FilesWatched

(* No step disturbs the order; once the process has ended there is none.   *)
LEMMA OrderStep == ASSUME Orderly, IInv, InOrder, [Next]_vars PROVE InOrder'
<1>1. CASE UNCHANGED vars
    <2>1. UNCHANGED <<mcsman, main, dirs, file, mainWatch, dirWatch, confWatch, queue,
                      conf, draft, batch, at, adding, running>>
        BY <1>1 DEF vars, files, watches, listener
    <2>2. \A k, n : (Due(k, n)' <=> Due(k, n)) /\ (Awaits(k, n)' <=> Awaits(k, n))
        BY <2>1 DEF Due, Awaits, Pending, Occurs
    <2>3. \A n : Explains(n)' <=> Explains(n)
        BY <2>1, <2>2 DEF Explains, Automatic, Present
    <2>4. EventsInOrder' <=> EventsInOrder
        BY <2>1, <2>2, <2>3 DEF EventsInOrder, GoneFirst
    <2>5. (FilesInOrder' <=> FilesInOrder) /\ (WatchesInOrder' <=> WatchesInOrder)
        BY <2>1, <2>2 DEF FilesInOrder, WatchesInOrder, Present
    <2>6. \A n : Agrees(n)' <=> Agrees(n)
        BY <2>1, <2>2 DEF Agrees, View, Wanted, Flag, Present, Base, Automatic
    <2>7. ViewInOrder' <=> ViewInOrder
        BY <2>1, <2>2, <2>6 DEF ViewInOrder, View, Flag
    <2> QED BY <2>1, <2>4, <2>5, <2>7 DEF InOrder, FilesWatched
<1>2. CASE Next
    BY <1>2, TakeOrder, PublishOrder, ReloadOrder, HandlersOrder, AddWatchOrder, OperatorOrder
       DEF Next, Listener
<1> QED BY <1>1, <1>2

(* In order and idle, what is published is what a restart would load. *)
LEMMA OrderSettles == ASSUME Orderly, IInv, InOrder PROVE Settled /\ Watched
<1> SUFFICES ASSUME running, Idle PROVE /\ Readable => Current
                                       /\ mainWatch /\ dirWatch = dirs
                                       /\ confWatch = {n \in dirs : file[n] # NoConf}
    BY DEF Settled, Watched
<1>1. FilesWatched /\ ViewInOrder /\ \A k, n : ~Due(k, n) /\ ~Awaits(k, n)
    BY NothingIsDue DEF InOrder
<1>2. /\ dirWatch \subseteq dirs
      /\ confWatch \subseteq {n \in dirs : file[n].error # "absent"}
      /\ conf \in Confs /\ NoConf.error = "absent"
    BY DEF IInv, TypeOK, NoConf
<1>3. mainWatch /\ dirWatch = dirs /\ confWatch = {n \in dirs : file[n] # NoConf}
    BY <1>1, <1>2 DEF FilesWatched, WatchesInOrder, Present
<1>4. ASSUME Readable, NEW r \in LoadAll(default_conf) PROVE conf = r.conf
    <2>1. main.error = "none" /\ View = conf
        BY <1>4 DEF Readable, View, Idle
    <2>2. conf.distributed = Flag /\ \A n \in Names : conf.servers[n] = Wanted(n)
        BY <1>1, <2>1 DEF ViewInOrder, Agrees
    <2>3. r.conf.distributed = Flag /\ r.conf.servers = [n \in Names |-> Wanted(n)]
        BY <1>1, <1>4, <2>1, LoadAllWanted DEF FilesWatched
    <2>4. r.conf \in Confs
        BY <1>4, LoadAllType DEF IInv, TypeOK, FileTypes
    <2>5. conf.servers = r.conf.servers
        BY <1>2, <2>2, <2>3 DEF Confs
    <2> QED BY <1>2, <2>2, <2>3, <2>4, <2>5 DEF Confs
<1> QED BY <1>3, <1>4 DEF Current

(* So it is in every state. *)
LEMMA AlwaysInOrder == ASSUME Orderly PROVE Spec => [](Settled /\ Watched)
<1>1. Init => IInv /\ InOrder
    BY InitType, InitOrder
<1>2. IInv /\ InOrder /\ [Next]_vars => (IInv /\ InOrder)'
    BY TypeStep, OrderStep
<1>3. IInv /\ InOrder => Settled /\ Watched
    BY OrderSettles
<1> QED BY <1>1, <1>2, <1>3, PTL DEF Spec

(* Options are dynamic: with an orderly operator, whenever no event is left *)
(* to handle, what is published is what a restart would load, whatever was  *)
(* changed, however the events were batched (init_listener).               *)
THEOREM OrderlyChangesSettle == ASSUME Orderly PROVE Spec => []Settled
BY AlwaysInOrder, PTL

(* And it watches every file it has, so that it notices the next change.   *)
THEOREM OrderlyFilesAreWatched == ASSUME Orderly PROVE Spec => []Watched
BY AlwaysInOrder, PTL

=============================================================================
