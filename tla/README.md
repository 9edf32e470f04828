# MCSHub, specified

MCSHub is a reverse proxy for Minecraft servers. It accepts a client, reads the
handshake, picks a backend by the host name in it, and either pipes the
connection to that backend or, when there is none or it is down, answers the
client itself with a status or a login message of its own. This directory holds
TLA+ models of the parts of the program that carry that logic, the TLC runs that
check them, and proofs of the properties that matter most.

## The system

| part | source | state | operations |
|---|---|---|---|
| client portal | `src/client.cpp` | two sockets with input and output buffers, `from_s`, `to_s`, `disconnected`, a timer | `on_from_event`, `on_to_event`, `on_timeout`, `on_disconnect` |
| worker threads | `src/thread_controller.cpp` | a listener, an epoll, an eventfd, the list of portals | `on_accept`, `on_event`, `job`, `stop`; `thread_controller::terminate` |
| configuration | `src/settings.cpp` | `conf_instance`, `default_conf`, the inotify watches | `initialize`, the inotify listener, `reload_configuration` |
| DNS cache, connect | `src/hosts_db.cpp` | a map from host names to addresses | `connect`, `request_dns_cache` |
| routing | `portal::record` (`src/client.cpp`), `check_domain` (`src/settings.cpp`) | none | the record for a host name |
| template variables | `src/response_props.*` | none | the text of a status or a login message |
| process lifecycle | `src/mcshub.cpp`, `src/main.cpp` | signals, the main epoll loop | start, SIGTERM |
| manager | `src/manager.cpp` | `default_conf` | lines on standard input |
| program arguments, status client, packets | `src/prog_args.*`, `src/sclient.*`, `src/mc_pakets.*` | | |

The main thread runs the inotify listener, the signals and the manager. Each
worker is a thread with its own epoll: it accepts clients from the shared port
and runs the callbacks of its clients, of their backends and of their timers.
The threads meet in two places. A portal takes a snapshot of `conf_instance`
when it is made, and keeps it; and the workers share the DNS cache, without a
lock.

### What is hard

* **Portal.** Three callbacks that arrive in any order drive two state machines
  that must stay in step. The mask of an event is older than the callback that
  gets it. An exception moves `on_to_event` into a catch block that repeats part
  of the work; another one leaves the callback and is dropped by `worker::job`.
  Correct means: the client is served by the backend or by the hub and never by
  both, nothing it sent is lost or doubled, its wait is bounded, and it is
  erased when it leaves.
* **Configuration.** Events arrive in batches, are handled from the last to the
  first, and are about files that have changed again by then; a new file is
  loaded before it is watched. Correct means: what is published becomes what a
  restart would load, and a batch leaves the other servers alone.
* **Workers.** Stopping races with accepting, and with the batch of events that
  an exception interrupts; epoll reports most events once. Correct means: no
  event is lost that somebody waits for, every worker stops, its clients are
  told, and the process ends after them.
* **DNS cache.** The workers look up, insert and assign entries of one map at
  once; a resolve may fail between a lookup and an entry; an entry made for one
  port answers for every other. Correct means: a client is sent to the host of
  its own record, and a failure leaves nothing behind.
* **Tunnel.** The kernel takes a part of what is written, and says once when it
  has room again; both directions share two gates and two callbacks. Correct
  means: each direction is a pipe, and no data waits for an event that will not
  come.
* **Records.** A file is read into the record that is published, a command is
  assigned over a record that has another inside it, and a reading may break off
  half way. Correct means: a file decides its own record, and nothing else.
* **Template variables.** A hand-written scan with two places in a text, and
  strings that are trimmed by moving their beginning. Correct means: the text
  means what its author wrote.
* **Routing.** A suffix is compared at an offset that is computed before the
  name is changed. Correct means: a server is found by its name, with the
  domain or without it, and by nothing else.

`PROJECT.json` lists each hazard at its line.

## The modules

| module | what it is |
|---|---|
| `ClientSession` | what one connection promises to its client: it is decided once |
| `Portal` | one portal, with its client, its backend, the kernel between them and its timer |
| `MCPortal` | small instances of `Portal` for TLC |
| `PortalProofs` | the invariants of `Portal`, proved |
| `PortalSessionProofs` | `Portal` implements `ClientSession`, proved |
| `Pipe` | what one direction of a proxied connection promises |
| `Tunnel` | the two gates of a proxied client, the kernel's buffers and its events |
| `MCTunnel` | a small instance of `Tunnel` for TLC |
| `TunnelProofs` | all safety of `Tunnel`, with that of the refinement, proved for any capacity |
| `Settings` | the files, the inotify queue, the listener and what it publishes |
| `MCSettings` | small instances of `Settings` for TLC |
| `SettingsProofs` | all safety of `Settings`, proved for any servers, files and contents |
| `Records` | what the files and the commands make of whole records |
| `MCRecords` | a small instance of `Records` for TLC |
| `RecordsProofs` | all properties of `Records`, proved for any files and forms |
| `Workers` | the main thread, the workers' loops with their batches of events, and their clients |
| `MCWorkers` | a small instance of `Workers` for TLC |
| `WorkersProofs` | all safety of `Workers`, proved for any number of workers and clients |
| `Dial` | names and records, `connect`, and the cache that the workers share |
| `MCDial` | a small instance of `Dial` for TLC |
| `DialProofs` | all safety of `Dial`, proved for any names, records and number of workers |
| `Vars` | the scan for variables in a status or login text, and the namespaces |
| `MCVars` | a small instance of `Vars` for TLC |
| `VarsProofs` | what `resolve` returns is what a template means, proved for texts of any length |

The modules meet at named places. The callbacks of `Portal` are `OnClient` and
`OnBackend` in `Workers`, which keeps of them only whether the portal is erased
and whether an exception leaves. What `Settings` publishes is what a portal in
`Dial` may have been made with; the record that `Dial` chooses is one of the
records of `Portal`, and `Dial` ends where the dial of `Portal` (`FromConnect`)
begins. `Tunnel` begins where `Portal` has sent its first packets
(`ToEstablished`), and replaces the unbounded outputs there by what the kernel
takes. `Records` is `Settings` without its queue and with all of a record. `Vars`
makes the texts that are one answer in `Portal`.

### Portal

The variables carry the names of the members of `portal` and `gate`. `toSock` is
the state of `to.sock` (closed, polled, or removed from the poll but open),
`timer` the one made by `poll.later`, `alive` whether the portal is in
`worker::clients`. `fromWire` and `toWire` are the kernel's receive buffers,
`fromEdge` and `toEdge` the edges that epoll has not reported yet. `toOut`,
`relayed` and `answers` are the history of the two output buffers, which is what
the properties are about.

A callback runs to its end on one thread, so one path through it is one action:

| action | path |
|---|---|
| `FromConnect`, `FromLocal`, `FromReject` | the handshake, `from_handshake`: dial; answer locally; throw |
| `FromRequest` | any other packet, `process_from_request` |
| `FromReset` | an error of the client's socket |
| `PollTo` | `epoll_wait` reports the backend's socket: the mask is taken |
| `ToHup`, `ToErrFallback`, `ToErrDisconnect` | `on_to_event`, hup and err |
| `ToEstablished`, `ToOutFailed`, `ToAssertFails` | the connect is over: `to_send_new_hs`, or not |
| `ToReady` | any later event: both tunnels, the stable state |
| `ToEscape` | an exception leaves `on_to_event` |
| `OnTimeout`, `StaleTimeout` | the timer, of a live portal and of an erased one |

The first two rows end with the erasure of a portal that is disconnected, as the
lambda of `on_accept` does. So does `FromReset`, or it leaves the portal in the
list: before the erasure the lambda asks the socket for its `remote_endpoint` to
log it, and of a connection that was reset this may be an exception
(`thread_controller.cpp:39`). A reset portal that stays is `disconnected`, gets
no more events of its client, and its backend and timer go on.

What the model abstracts. The client's bytes are cut into units: the handshake,
the first byte and the remainder of the second packet (`kostilA` and `kostilB`
depend on whether two bytes are there), what follows, and a packet that the hub
refuses. Routing is a choice of a record: dropped, local or with a backend.
Output is unbounded and always written: partial writes (`gate::send`) are in
`Tunnel`. Events of the
client's socket that only say that it is writable change nothing here.
`receive` reads all there is. `last_error` and `ensure_connected` tell the truth
about the socket when they are called. `assert` is compiled in, as in the
default build of `meson.build`. A client's reset is taken between two callbacks:
no write of a callback meets it, so an exception of a write while the backend is
in the `proxy` state, which would come to the catch block of `client.cpp:418-427`
with no timer to refuse, is left out. An exception that leaves a callback drops
the rest of its batch; that is in `Workers` (`lost`), and the timer of a portal is
taken to be reported again. A portal that is erased while it dials leaves
its timer in the poll: what the timer then does to freed memory is a choice
between nothing and the end of the process.

### Settings

The files are `main`, `dirs` and `file`; `mainWatch`, `dirWatch` and `confWatch`
say which of those that are there now are watched. `queue` holds the events that
inotify has queued, `batch` those that the listener has read, `at` the one it is
handling. `draft` is `new_conf`, `conf` is `conf_instance`. Each branch of
`init_listener` is an action: `MainWritten`, `MainGone`, `MainCreated`,
`DirCreated`, `DirGone`, `ConfWritten`, `ConfGone`, `ConfCreated`; the files may
change between two of them, and between the load of a new file and its watch
(`AddWatch`). `Publish` is the last line of the listener, `Reload` the command
of the manager. `LoadAll` is `load_all_conf`: it yields a set of outcomes,
because the directories come in any order and the first that cannot be read ends
the load.

What the model abstracts. A record is its address: the other fields are read in
the same way. A file's content says how reading it ends. A write to a file is
one step with its `close_write`. The startup is one step, with every file
watched. `drop` and `fml` are in `Records`.

The other actions are the operator's. What he does is a constant, `Habits`. With
none he is careful: he edits files in place at any time, once they are watched;
he makes, removes or replaces one file, or makes or removes one directory, while
the hub is idle (`Idle`: no event is queued or in hand); and he keeps from what
the habits are, of which each is a thing that the hub loses:

| habit | what he does besides |
|---|---|
| `"hasty"` | does any of it, or edits a file not watched yet, or reloads, while events wait or are in hand. `rm -r` of a directory with a file is hasty, too: two removals, one after the other |
| `"moves"` | moves a directory here with a file in it; or away, from a hub that reads such files and has no mcsman |
| `"ignored"` | under mcsman, removes or replaces a file that the hub is told to ignore (`distributed` is not set) |
| `"main"` | removes the main file |

### Tunnel

`gate` has the two gates, each with `input`, `output`, and the kernel's side of
its socket: `rcv` and `snd`, the two buffers, and `nospace`, the kernel's note
that a write has found no room. `edge` and `mask` are an event that epoll has not
reported, and one that it has; `peer` is the other end of the socket, `put` and
`got` the history of what it has sent and taken. `Send`, `Receive` and `Tunnel`
are the functions of `gate`, as operators on both gates.

| action | code |
|---|---|
| `OnFrom`, `OnFromError` | `on_from_event`, and the erasure in the lambda of `on_accept` |
| `OnTo`, `OnToError` | `on_to_event` once the backend is connected |
| `Report` | `epoll_wait`: the mask is taken |
| `Take`, `Put`, `Leave` | a peer reads, writes, hangs up or is reset |

What the model abstracts. A unit is any piece of data that is not split; the
packets before the tunnel are in `Portal`, so that a tunnel begins with what
`to_send_new_hs` has written and with what is left in the input. A socket is
reported writable when all of its buffer is free, not when none is, and perhaps
in between, as the kernel's threshold is a fraction of the buffer; the wake-up
after a full buffer likewise. An error before the tunnel is stable makes the hub
stand in, which is in `Portal`: here it ends the tunnel. What an erased portal
had in its output is gone, and what the kernel has is still sent.

### Records

`default_conf` and `conf` are the code's, `main` and `file` the files. A file is a
node of YAML by its kind: a map, a scalar, nothing; `Read` is `operator>>` for a
server's record, `ReadMain` the one for the settings, `LoadAll` `load_all_conf`;
each yields what has been made of the record and how it ended. `argument` is
`--domain`, any domain that the hub may be started with, refused ones among them.
`unread` is history: the servers whose files the load published last did not come
to, because it ended at a file that could not be read, and that have not been
written since.

| action | code |
|---|---|
| `SetDomain`, `SetDefault`, `SetServer` | the commands `conf default ...` of the manager |
| `Reload` | `conf reload`, `reload_configuration` |
| `WriteMain`, `WriteConf` | `init_listener`, for a file that was edited in place |

What the model abstracts. The address stands for the fields that are kept when a
file does not mention them (`status`, `login`, each entry of `vars`); the port is
not kept. A domain is as `check_domain` leaves it, or is one that it refuses.
Every server has a directory and `distributed` is set; mcsman and the files that
come and go are in `Settings`. A form cannot drop a record. `--drop` is not
accepted by the program, so a default record is never dropped at the start.

### Vars

`i`, `j` and `result` are the variables of `resolve`; one turn of its loop is one
action: `Pass` (a character that begins no variable), `Dollar`, `Braced`, `Bare`,
and `Finish`. `get_value` works on strings as the code does, by where they begin
and how long they are. Each namespace is an operator; base64 is computed by
triplets.

What the model abstracts. A word of letters and digits is one unit of a text; a
bracket and a space are units with a name (`"open"`, `"close"`, `"space"`). A
text is what a template renders to, so its brackets are closed, and it ends with
a NUL. `VarsAssumption` says what a template is: each part is a unit, a dollar or
a reference (`Named`), and a reader can tell where a bare name ends (`Clear`). Values that come from outside are constants; the uuid is one value. The
choice between the record's file, mcsman's text and the fallback
(`resolve_status`, `resolve_login`) is left out.

### Workers

`main`, `real_port`, `working` and `counter` (the eventfd) are the code's;
`port` is set when a worker has started, `ended` when its thread has. `stage`
says of a connection whether it waits in the listener's queue, is in
`worker::clients` and polled, is in the list only (`orphan`: an exception came
between the two), or erased. `edges` are the edges that epoll has not reported,
`batch` what `epoll_wait` has reported and the loop has not handled, `lost` what
an exception has swallowed. `told` has the clients that `on_disconnect` has
written a message to.

| action | code |
|---|---|
| `Start`, `Stop`, `Exit` | `thread_controller`: `worker::worker`, `worker::stop`, `terminate` |
| `Sigterm` | the signal listener of `mcshub.cpp` |
| `Wait`, `EndLoop` | `epoll_wait` in the loop of `worker::job`; its end |
| `Accept`, `AcceptThrows` | `worker::on_accept` |
| `OnClient` | the lambda of `on_accept`, with the erasure |
| `OnBackend` | the callbacks of backends and timers |
| `OnEvent` | `worker::on_event`: the eventfd |

What the model abstracts. A batch holds everything that is ready and is handled
in any order; `epoll_wait` reports a bounded number of events, and what it leaves
comes with the next batch, as if it had come later. The callbacks of a portal are
reduced to their effect on the list; backends and timers are one source
(`backend`), present while any client is. `accept`, `remote_endpoint` and
`poll.add` may throw, and any callback of a portal may let an exception out
whenever the code can. The sockets of clients are polled for edges, the listener
for its level (`worker::worker` and `on_accept` ask for that). A worker that
cannot be started is left out: it would destroy the workers that run. So is the
list of a worker after its end, which nobody uses.

### Dial

A worker is in one of the steps of `connect` (`pc`), with the record it dials
(`rec`), the argument `cache`, the answer of the resolver (`told`) and what it
has opened a socket to (`dialled`). Names are sequences of characters, because
`portal::record` computes with their sizes. A handshake is read with the
portal's own configuration (`conf`): a worker has portals of all ages, so the
next may have any that was ever published.

| action | code |
|---|---|
| `Handshake` | `from_handshake` up to `connect`, with `record` |
| `Find` | the lookup of `request_dns_cache` |
| `Resolve`, `ResolveFails` | `connection_info::resolve`: an answer, or the `dns_error` that `from_handshake` catches |
| `Insert`, `Assign` | the two halves of `hosts_db[hostname] = ...`, in the order of C++17 (`meson.build` asks for it): the right side is evaluated first |
| `Open` | `tcp_socket_d::open`, which reads the entry |
| `Race` | two workers in the map at once, one of them writing |

What the model abstracts. The name is what `c_str()` leaves of the address, cut
at its first NUL, and `fml` says that there was one. Records that are dropped or
have no backend do not come to `connect`. `Race` may end the process, in any
state where it can happen; the other outcomes of an unsynchronised map are those
of its operations in some order. An empty list of addresses is dialled nowhere. The empty name
has no last character: the code reads the byte before the string, which is not a
dot in the string of libstdc++. `check_domain` refuses some domains; the load
ends there, so no such configuration is published. The argument `--domain` does
not go through `check_domain`: `NamesAssumption` says that it does not end with a
dot, and `MCDial_domain.cfg` shows what else comes of it.

## What is checked

| run | module | expects | shows |
|---|---|---|---|
| `portal_any` | `MCPortal` | pass | safety, whatever the client sends and however early the backend speaks |
| `portal_known` | `MCPortal` | pass | one origin, the assertion, liveness and the refinement, for clients that keep to the protocol |
| `portal_assert` | `MCPortal` | violation | the assertion on the timer fails after a handshake with next state 3 |
| `tunnel` | `MCTunnel` | pass | each direction is a pipe, whatever the writes and the events are |
| `settings_careful` | `MCSettings` | pass | what is published is what a restart would load, for a careful operator and readable servers' files |
| `settings_any` | `MCSettings` | pass | a batch changes only the servers it is about |
| `settings_ignored` | `MCSettings` | violation | removing an ignored file erases mcsman's record |
| `records` | `MCRecords` | pass | a file decides its record, no file and no command brings a refused domain in, nothing else is touched |
| `workers` | `MCWorkers` | pass | one port, no wake-up lost, clients told, termination |
| `dial` | `MCDial` | pass | the right record, its host, and a cache without stale or empty entries |
| `dial_port` | `MCDial` | violation | an entry of the cache answers for a port it was not made for |
| `vars` | `MCVars` | pass | what `resolve` returns is what the text means |

Besides, there are configurations that no run lists, and under each of which TLC
finds one property violated in a moment. They are the counterexamples to what the
documents say, and what the conditions of `settings_careful` are for:

| configuration | module | refutes | shows |
|---|---|---|---|
| `MCSettings_moved.cfg` | `MCSettings` | `Settled` | a directory moved away from an idle hub leaves its record |
| `MCSettings_main.cfg` | `MCSettings` | `Settled` | a main file made again keeps the servers of the one before |
| `MCSettings_listed.cfg` | `MCSettings` | `Settled` | removing its file erases a server that the main file lists |
| `MCSettings_unset.cfg` | `MCSettings` | `Settled` | an address taken out of a file stays |
| `MCSettings_broken.cfg` | `MCSettings` | `Settled` | a load that ended at a broken file is not made up for by its repair |
| `MCSettings_hasty.cfg` | `MCSettings` | `Settled` | a file made before its directory is watched is never noticed |
| `MCRecords_domain.cfg` | `MCRecords` | `DomainsAreChecked` | a refused domain is in force, from the argument |
| `MCDial_domain.cfg` | `MCDial` | `ArgumentIsOption` | a domain given as an argument is not the same option as in the file |

**Properties of Portal.** `TypeOK`; `Phases`, the pairs of states the two
machines, the timer and the backend's socket can be in; `Dialling`, a pending
connect has its timer; `StreamConserved`, no
unit lost, doubled or overtaken; `FakeIsFinal`, the hub stands in for good;
`OneOrigin`, a client never hears both; `AssertHolds`, the assertion
of `to_send_new_hs`; `WaitIsBounded`, `RefusedClientIsAnswered` and
`LeavingClientIsErased` (or, when it has reset the connection, at least
disconnected), what must happen; `ImplementsSession`, the refinement
(`Session == INSTANCE ClientSession WITH mode <- Mode, ...`).

**Properties of Tunnel.** `TypeOK`, with no write that overfills the kernel's
buffer; `Conserved`, what one peer has sent is what the other has got and what is
in the buffers between them, in this order; `NobodyWaits`, data in a buffer has an
event to come that takes it on; `ImplementsPipes`, each direction implements
`Pipe`, with its liveness: what is sent arrives, unless somebody leaves.

**Properties of Records.** `TypeOK`; `FilesDecide`, a file that can be read
decides its record, whatever was published or commanded before, and even after
loads that ended at a broken file, which the listener publishes all the same: only
the servers that the last of them did not come to are left out (`unread`);
`DomainsAreSound`, no file and no command brings in a domain that is refused,
although it is assigned before it is checked: one that is in force is the
argument; `OthersAreKept`, an action property. `DomainsAreChecked` is what the
usage text says of the argument, and fails.

**Properties of Vars.** `TypeOK`, no piece is taken from beyond the text;
`Resolved`, the result is the meaning of the template the text was rendered from,
with base64 as it is defined, by bits.

**Properties of Settings.** `TypeOK`; `Settled`, what is published when nothing
is left to handle; `Converges`, the same as liveness; `Watched`, nothing that is
there goes unwatched; `Isolation`, an action property. The three but `Isolation` hold of a
careful operator, with a main file that lists no server with a directory, and with
servers' files that can be read and give an address. Nothing of that can be
spared: `settings_ignored` and the six configurations of `MCSettings` above each
give up one of these conditions, and `Settled` fails.

**Properties of Workers.** `TypeOK`; `OnePort`, whoever picks the port;
`NoWakeupIsLost`, an edge that somebody waits for is on its way, in hand, or
swallowed by an exception;
`NoStaleEvent`, no event of an erased portal, whose lambda keeps a reference to
it; `AtMostOneUntold`, a stopped worker has told every client of it but one that
was accepted in the batch of the stop; `Terminates` and `GoneAreErased`, what
must happen. `lost` appears in three of them: `worker::job` swallows an exception and
drops the rest of the batch, and an edge is not reported twice. Without that
escape they do not hold.

**Properties of Dial.** `TypeOK`; `Routed`, a server is found by its name and
nothing else; `OwnHost`, no client is sent to the host of another's record;
`McsIsFresh`, mcsman's records are never taken from the cache; `NoEmptyEntry`, a
failed resolve leaves no entry; `AskedOnce`, at most one answered query for each
worker and host (a host that cannot be resolved is asked for each time).
`PortApplies` and `ArgumentIsOption` are what the documents say, and fail.

**Bounds.** `MaxUnits = 5` lets a client send its handshake, both parts of its
second packet and two more; nothing in the code counts further. `MaxSaid = 2`
gives the backend one unit before and one after the hub has relayed something.
The records, the two requests, an unknown next state and a refused packet are
all there. `MaxOps` bounds the file operations: four make the longest story that
the listener tells apart (remove, make, write, and a change of the main file);
two are enough for `Isolation`, which is about one batch, over every kind of
broken file, and larger bounds were tried; two or three are enough to refute
`Settled` where it fails. The two directories are an ordinary
one and `default`, which mcsman leaves alone, and the main file lists a third
server. `Workers` has two workers, the least that can disagree on a port and be
stopped in turn, and two clients of one of them, so that their events share a
batch with a stop and with each other; the kernel may pick either of two ports.
`Dial` has two workers and two addresses for each host, all names of up to four
characters over three, one of them the dot (a server's name, a domain and what
is around them), and four configurations: no domain, one with and one without a
final dot, and "."; the cache on and off; two ports of one host; a host written
with a final dot; a record of mcsman; a record for modded clients and one that
drops them. No counter is bounded: `queries` is bounded by what `AskedOnce` says.

`Tunnel` has room for two units in the kernel, the hub begins with one or two, and
the peers send up to three: a write may be whole, short or refused in each
direction, twice. `Records` has two servers, three operations on files and
defaults, and a content for each branch of the readers: dropped, with and without
a port, broken half way, with each kind of `fml`, two domains that are refused, of which the hub may be
started with one; three steps are what it takes to break a record, repair it and
break another. `Vars` has all
texts of up to three parts out of nineteen, so that each kind of part is between
any two others, and images of up to four bytes, with a byte on each side of every
border of the alphabet.

**Deadlock** is not checked: a portal that is erased, files that nobody
changes, a text that is resolved, a process that has exited or has died of a race
are where the models stop.

**Fairness.** `Portal` assumes weak fairness of the worker's callbacks, of
`epoll_wait` and of the timer: the worker's loop (`job`) never ends while the
hub works, and the clock runs. Nothing is assumed of the client, of the backend
or of the network. `Settings` assumes that the main loop goes on handling
events. `Workers` assumes that each worker's thread and the main thread run; it
assumes nothing of the clients and of the signal. `Tunnel` assumes of the worker
what `Portal` does, and of the peers that they read what they are sent (a peer
that does not is what a full buffer is for, and then nothing has to arrive) and
that a backend answers what it has read of a login (`Answer`): what a client sends
in one piece with its login stays in the input until the backend's socket is
reported once more, and nothing but the backend brings that about. `Dial`,
`Records` and `Vars` have no liveness.

**Where the code and its documents disagree.**

* A handshake may carry any next state. With one that is neither 1 nor 2 the
  timer's callback throws before it closes the socket: when the connect completes
  after all, the assertion on the timer ends the process (`portal_assert`), and
  until then the client waits, longer than the "maximum time waiting connection
  to background server" (`res/config/mcshub.yml:20`).
* "Disconnect" in the backend's callback (`client.cpp:355`) is a flag that only
  the client's callback reads: a client that stays silent stays in the list.
* "All options marked as dynamic can be changed while MCSHub is working. They will
  be applied for new connections immideatly" (`res/config/mcshub.yml:3-4`) does
  not hold, even when the hub is idle:
  - with mcsman and without `distributed`, removing a file that is ignored erases
    the server's automatic record (the run `settings_ignored`,
    `settings.cpp:232-241`);
  - a directory moved away with its file leaves its record, without mcsman
    (`MCSettings_moved.cfg`, 295-303);
  - a main file that is removed and made again is read into the configuration of
    before (`MCSettings_main.cfg`, 214-220);
  - removing the file of a server that the main file lists erases it altogether
    (`MCSettings_listed.cfg`, 234);

  or when events wait: a file made in a new directory before that is watched is
  never loaded (`MCSettings_hasty.cfg`, 199-211); a load that ends at a broken file is
  published, and when the file is repaired only that file is read
  (`MCSettings_broken.cfg`, 184-189, 246-257, 307).
* "If address not present, fake status will be returned"
  (`res/config/mcshub.yml:41-42`) does not hold of a changed file: `fill_record`
  keeps what a file does not mention, so the address stays until the hub is
  restarted (`MCSettings_unset.cfg`).
* `--domain` is "the same option as in mcshub.yml file" (`mcshub.cpp:28-29`, where
  it is spelt `--domian`; the program knows `--domain`), but the argument never
  goes through `check_domain`: it gets no dot before it, so that with the argument
  `example.org` the name `srv.example.org` does not find `srv` (`MCDial_domain.cfg`),
  and a domain that the file may not give can be in force
  (`MCRecords_domain.cfg`). `--domain .example.org` would work, and is what the
  file refuses.
* A backend's port is "dynamic", but the cache is keyed by the host alone and its
  entries carry a port (`dial_port`): a changed port, or the second of two servers
  on one host, is not dialled.
* `res/config/mcshub.yml:58-60` documents `allowFML`; the code reads `fml`, with
  the same values and two more (`settings.cpp:357`), and never `allowFML`.
* The usage text has `--timeout` ("set timeout") and `--drop` (`mcshub.cpp:32-35`);
  the first sets the maximal size of a packet (`prog_args.cpp:70-71`), the second
  is refused, because its branch asks for `distributed` again (60-61).

## What is proved

For every value of the constants, and with no assumption but those named:

| theorem | says |
|---|---|
| `TypeCorrect` | `Spec => []TypeOK` |
| `PhasesHold` | the two machines, the timer and the socket stay in step |
| `DialsAreTimed` | `Dialling`, for the same clients as the assertion |
| `HubStaysFinal` | `FakeIsFinal` |
| `StreamsConserved` | no unit is lost, doubled or overtaken |
| `AssertionHolds` | the assertion, if clients ask for status or login in packets the hub accepts (`Polite`) |
| `QuietHolds`, `OneOriginHolds` | one origin, if backends only answer (`~Eager`) |
| `PortalImplementsSession` | the refinement, if backends only answer |
| `TypeCorrect`, `StreamsConserved`, `NobodyWaitsInVain` of `TunnelProofs` | `TypeOK`, `Conserved`, `NobodyWaits`, for any capacity and any number of units |
| `PipesImplemented` | each direction of a tunnel takes the steps of a pipe |
| `TypeCorrect` of `RecordsProofs`, `OthersStay` | `TypeOK` and `OthersAreKept` of `Records` |
| `FilesPrevail` | `FilesDecide`: a readable file decides its record, unless the load published last ended before it |
| `DomainsStaySound` | `DomainsAreSound`: a refused domain in force is the argument |
| `ConfsAreTyped` | `Spec => []TypeOK` of `Settings`: what is published is a whole configuration, only files that are there are watched |
| `ServersAreIsolated` | `Isolation` |
| `OrderlyChangesSettle`, `OrderlyFilesAreWatched` | `Settled` and `Watched`, for an operator that is `Orderly` |
| `TypeCorrect` of `WorkersProofs` and of `DialProofs` | `Spec => []TypeOK` of `Workers` and of `Dial` |
| `OnePortHolds` | `OnePort` |
| `NobodySleeps` | `NoWakeupIsLost` |
| `NothingIsStale` | `NoStaleEvent` |
| `LastWordsAreSaid` | `AtMostOneUntold` |
| `ServersAreRouted` | `Routed`, for any names, domains and servers |
| `HostsAreOwn`, `McsStaysFresh`, `EntriesAreFilled` | `OwnHost`, `McsIsFresh`, `NoEmptyEntry` |
| `QueriesAreFew` | `AskedOnce`, for any number of workers |
| `VarsTypeOK`, `TemplatesAreResolved` | `TypeOK` and `Resolved` of `Vars`, for templates of any length |
| `EncodedIs` | the triplets of `img_vars` are base 64, for any sequence of bytes |

The argument for Portal goes in layers. `TypeOK` is inductive alone. `Phases` is
inductive over it: it says that the backend's socket is never polled while the
hub stands in, which is why no late event takes a client back (`FakeIsFinal`).
`StreamConserved` is inductive over those two. The assertion needs more: that a
pending connect has its timer pending (`Dialling`), and that what a polite
client has sent is in the order of the protocol (`Orderly`), so that the login
which waits in the input when the backend connects cannot make `from_login`
throw; `StreamConserved` ties the input to what was sent. `Quiet` is the
strengthening of `OneOrigin`. The refinement has one lemma for each abstract
action, and one for each group of callbacks.

For the tunnel, `Conserved` is proved of `Flushed`, `Moved` and `Received` as
facts about sequences, one lemma each, and of the callbacks by composing them; its
invariant also says that the units are numbered as they were sent (`StreamInv`).
`NobodyWaits` is inductive with the types: each callback either empties a buffer,
or leaves `nospace` set by the write that was short. The steps of `Pipe` follow
from `Conserved`: what a peer takes is the first unit that is not among what it
has got.

For the records, every reader has a lemma that says what it keeps and how it ends
(`FillOK`, `ReadOK`, `EntryOK`, `MainOK`, `FilesOK`), and that how it ends does
not depend on the record it reads into (`SameEnd`): so a file that a new server
could be made of can be read into any record. `LoadsOK` puts them together: what a
load has come to is decided, however it ended, unless it ended in a way that is not
published. The invariant is the conjunction of `TypeOK`, `FilesDecide` and
`DomainsAreSound`.

Isolation is an action property. Its invariant (`DraftApart`) says that the draft
differs from what is published only in servers that an event handled so far is
about.

That the files settle needs an operator who is `Orderly`, a constant predicate of
`Settings`: one without `Habits`, a main file that lists no server with a directory,
and servers' files that can be read and give an address. Without any of these the
code loses changes for good, as the configurations that TLC refutes show. `settings_careful` is such
an instance: TLC
evaluates `CarefulIsOrderly` on it. The invariant (`InOrder`) has four parts.
`FilesInOrder`: the files are what such an operator makes. `EventsInOrder`: an
event that is still due tells what its server's files are now (`Explains`), and of
a file that was replaced the removal is handled before the creation, although the
batch is handled from its end (`GoneFirst`). `WatchesInOrder`: what is not watched
yet has an event that will watch it. `ViewInOrder`: in the configuration that the
rest of the batch works on, each record is what the files ask for (`Wanted`), or an
event whose handler has not begun will make it so (`Agrees`). `Settled` alone is not
inductive, because it says nothing of a configuration with events to come. When
nothing is due, `InOrder` leaves `Wanted` for every server, which is what
`LoadAll` yields in any order of the directories (`LoadAllWanted`).

For the workers, one port is an invariant with `real_port` in it (`PortsAgree`): a
worker takes the port of the one before, so the last stands for all. Wake-ups
need to know where a stop is (`WakeInv`): written once, not read, and with its
edge not yet handled. `NoStaleEvent` is inductive with the types: an erasure takes
the edge and the event with it, and nothing else adds one for a portal that is
not polled. Last words are about the batch of the stop (`LastWords`): a worker
that does not work has told all its list, or all but one and has no listener in
its batch any more.

For routing, `RecordName` is shown to undo the concatenation of a name and a
domain, and to yield nothing but the name or the name without the domain, by
the library's facts about sequences. The cache has one invariant (`CacheInv`):
what a worker knows in each step of `connect` (`Steps`), that an entry is for its
key (`Entries`), and the properties themselves. Queries are counted (`Bounded`):
while a host has no entry, whoever has resolved it is about to make one; when it
has one, nobody starts to, and those who do already are as many as are left.

For the template variables, the invariant (`InPlace`) says that `resolve` is always
at the beginning of a part, and that `result`, with what has been passed since `j`,
is the meaning of the parts before (`Reached`). It holds of nothing in between,
because one turn of the loop takes exactly one part: a unit begins no variable
(`UnitFound`), and a dollar or a variable is found as a whole and with the size it
was written with (`DollarFound`, `BracedFound`, `BareFound`). Under those are lemmas
about the text: `find_closing_bracket` finds the bracket that closes the first, if
what is between them is closed (`BracketIs`, by counting); `trim_string` leaves what
is between the spaces (`TrimIs`); `get_value` finds the namespace and the name from
the offsets it moves (`GetNamed`, `GetPlain`); a name leads to the file that it
means (`PathIs`); `find_in_next` gives the value (`FindIs`). Base 64 goes by groups
of six bits, of which each triplet has four. Where a proof would go by induction over the
text, it takes the least place at which the claim fails (`LeastNat`), and
`FlattenSeq`, a recursive function of the library, is unfolded once (`FlattenIs`).

The assumptions are the modules' own. `SettingsAssumption`: the directories are
among the servers, and contents are well typed. `VarsAssumption`: words, templates
and texts are what Vars says above. `WorkersAssumption`: ports are numbers
other than 0, and clients are none of the other sources of events.
`DialAssumption`: finitely many workers, names are sequences of characters.
`NamesAssumption`: servers have names, and no name of a server ends with a dot
(see Dial).

`RecordsAssumption`: the default port is a port, the arguments are domains, and "unset" and "bad"
are no values. `TunnelAssumption`: the kernel holds at least one unit.

Every safety property that a passing run checks is a theorem. Only model-checked:
liveness (`WaitIsBounded`, `RefusedClientIsAnswered`, `LeavingClientIsErased`,
`Converges`, `Terminates`, `GoneAreErased`, and what arrives in `ImplementsPipes`),
which the prover does not reach.

## What is left

1. Proofs: `Settled` when the main file lists a server that has a directory, for
   those orders of events in which the code gets it right.
2. The composition of `Tunnel` with the fallback of `Portal`: an output that did
   not fit when the hub stands in.
3. Routing of names that end with a dot, of which no document speaks.
4. The program arguments, as the loop that they are, and the choice of a status or
   login file.
5. A worker that fails to start.

## Not modelled

The status client (a blocking request and answer for the ping tool and the tests),
the declarations of packets, the log and the installation of files are
input and output without decisions of their own. The libraries ekutils, yaml-cpp
and paket-cpp are not in the repository; they are modelled from how the code uses
them.
