# rweb: TLA+ models, checks and proofs

rweb makes a device that sits behind a NAT reachable from a browser. The device
runs a *node* (`rwebc`, usually loaded through the C interface `cso`) that keeps
one QUIC connection to a *relay* (`rwebs`) and registers labels there (MAC
addresses). A browser connects to the relay over TCP or TLS and asks for
`<label>.example.com`; the relay opens a stream on the connection of the device
that owns the label, and the node connects that stream to a service of its own
network. With the `p2p` feature two devices can also connect to each other
directly.

Line numbers below are those of the files under `src/`.

## 1. Inventory

### 1.1 Components

| component | code | state | operations |
|---|---|---|---|
| relay registry | `rwebs/src/quic_server.rs` 19-79, 143-180 | `peers`: label -> connection, behind a tokio `RwLock` | `start` spawns `handle_incomming` per device connection (read the labels, check, insert, wait for the close, remove); `translate` per browser (look up, open a stream, announce the label, copy) |
| relay front door | `rwebs/src/http_server.rs` | none beyond a call | `handle_stream` (TLS or not, by the first byte), `handle_client` (peek the header, find the label, call `translate`), `extract_full_pem_certificates` when it starts |
| node, streams from the relay | `rwebc/src/quic_client.rs` 172-331, 384-434 | per stream: the peek buffer, the service's connection | `listen_bi`, `handle_bi` (label, header, CONNECT / old proxy / forward / P2P), `new_diy_stream` |
| node, registration and reconnect | `rwebc/src/quic_client.rs` 41-170, `cso/src/lib.rs` 9-54 | the QUIC connection, its timers | `quic_node_run` (for ever: `node_run`, sleep 30 s), `run_diy_stream` |
| peekable streams | `rweb-common/src/io/peek_stream.rs`, `stream_copy.rs` | `peek_buf` in front of a stream | `peek_header`, `read_mac`, `peek_remove`, `reset_header`, reads that drain the buffer first |
| HTTP header type | `rweb-common/src/io/header.rs` 36-60, 103-167 | a hash map of lines | parse, write, get, remove, insert |
| P2P headers and address codec | `rweb-common/src/io/header.rs` 62-100, 169-249 | none | `new_p2p`, `parse_p2p`, `get_header`, `write_addr`, `read_addr` |
| p2p signalling | `rwebs/src/quic_server.rs` 81-141, `rwebc/src/p2p_client.rs` 59-149, `quic_client.rs` 236-289 | the exchange of one request | client asks the relay, relay asks the other device, both dial each other |
| p2p port prediction and race | `rwebc/src/symmetric.rs` | the attempts | `symmetric_connect`, `p2p_cell` |
| p2p sessions | `rwebc/src/p2p_client.rs` 113-169, `quic_client.rs` 157-178, `cso/src/lib.rs` 87-96 | the p2p connection (open as long as a handle of it is), one task per local program | the listener of `p2p_cell`, `p2p_stream_cell`, `handle_incoming_bi` |
| labels | `rweb-common/src/mac.rs` | none | parse (three times), print (twice) |
| start of a device | `rwebc-demo/src/main.rs`, `cso/src/lib.rs`, `proxy_list.rs`, `p2p_list.rs` | none beyond a call | read the options, make C strings, check and parse the lists, run for ever |
| tools | `proxy-change-header`, `p2ptest`, `cert-key-file` | none | set the Host of a browser's request and copy; tell an address; write a certificate. See PROJECT.json |

### 1.2 How they interact

* Device to relay: one QUIC connection; one unidirectional stream with the
  number of labels (u16) and six bytes for each.
* Relay to node: one bidirectional stream per browser session, opened by the
  relay. The label comes first, then the browser's bytes from the first one on.
* `handle_incomming` and `translate` share `peers` and nothing else. A writer
  never awaits while it holds the lock; a reader awaits `open_bi` under it (l. 50).
* P2p: a device opens a stream to the relay and writes a header; `handle_bi_cell` takes
  the read guard of `peers`, looks up the other device, opens a stream to it, writes
  and waits for its answer, and only then answers and gives the guard back. Both devices
  then dial each other's predicted ports, in loops of their own, at once.
* The relay has one thread (`rwebs/src/main.rs:1`), and so has a device
  (`cso/src/lib.rs:24`): a step without an await that does not end stops every task there.
* In a device, the cells, the streams and the registration are branches of one `select!`,
  and end together.
* After the punching, the asking device listens on a port and opens a stream of the p2p
  connection for every program that connects there. The other device accepts one
  stream of a connection, hands it to `handle_bi`, and drops the connection afterwards.
* Tasks that were spawned (sessions of browsers, of local programs) outlive the run that
  spawned them and keep its connections open; the thread that would poll them sleeps
  30 s between two runs.
* `handle_client` and `handle_bi` both peek at the same header with the same code;
  what they peeked at stays in front of the stream they hand on.
* The reconnect loop and the relay's `handle_incomming` interact only through
  timers: the relay's idle timer (21 s), its keep-alive (10 s), the node's idle
  timer (21 s) and its sleep (30 s).

### 1.3 What is hard

Tasks that interleave at every await and share a map under a fair lock; a guard
held across an await; an entry that outlives its device; half-closed streams
with buffers on both sides; a partial `write`; retries against timers nobody
configured together; tasks and handles that outlive the run they belong to, on a
thread that sleeps; u16 arithmetic at the borders of port ranges; a hash map as
the memory of a header. The list, with lines, is `hazards` in PROJECT.json.

### 1.4 What makes each component correct

* registry: the map is exactly what the online tasks announced; all labels or
  none; first come, first kept; a session is with an owner of the label; a closed
  connection is removed, and nobody waits for ever for the lock.
* front door and node: the service gets the bytes it is entitled to, once, in
  order; the browser is told the truth about the tunnel; the node dials only what
  it was asked to dial; nothing is kept when everybody has left.
* reconnect: after the last failure a device is online within a known time, and is kept out
  by its own past at most twice.
* hole punching: a failed attempt does not beat one that may succeed; both sides dial at
  the same time.
* start: what runs is what was given, whole; what is refused is refused for its reason.
* port prediction: attempts are different, and every one is a port that can be dialled.
* p2p sessions: the connection is open as long as somebody uses it and no longer, and
  nobody waits for a session that cannot come any more.
* labels: what is printed is found again; every way to write a label gives the same bytes.
* PEM: the chain is the whole certificates of the file, in their order.
* header: what is rewritten is only what should be.
* p2p signalling: both sides get each other's address before either dials; requests come
  to an end; the map stands while it is borrowed, and is updated afterwards.

## 2. Modules

| module | models | refined by or uses |
|---|---|---|
| `Directory` | abstract: atomic claim, release, ask, attach, finish | implemented by `Registry` |
| `Registry` | the relay's map, lock, `handle_incomming`, `translate` | INSTANCEs `Directory` |
| `RegistryProofs` | theorems about `Registry` | EXTENDS `Registry`, TLAPS |
| `Tunnel` | one session from browser to service and back | |
| `TunnelProofs` | theorems about `Tunnel` | EXTENDS `Tunnel`, TLAPS |
| `Reconnect` | a device against the relay over time | |
| `ReconnectProofs` | theorems about `Reconnect` | |
| `SymmetricPorts` | the ports `symmetric_connect` dials | |
| `HeaderRewrite` | `Header` parse and write, the tool that sets the Host, the rewriting in `handle_bi` | |
| `Signal` | one p2p request through asking device, relay and device asked for | |
| `Punch` | the attempts and loops of both sides after the introduction | ports: `SymmetricPorts` |
| `P2pSession` | local programs, their tasks and the p2p connections, over several runs | the session itself: `Tunnel` |
| `PemSplit`, `PemSplitProofs` | the certificates of a PEM file, and a theorem | |
| `Labels` | parsing and printing of labels | |
| `Places` | the elements of a sequence at some of its places, for `replace` and `trim` | used by `HeaderRewrite`, `Labels` |
| `Launch` | options, C strings, checks and lists of a device's start | what follows: `Reconnect` |
| `SignalProofs`, `PunchProofs` | theorems about `Signal` and `Punch` | |
| `Sequential` | the five parts that run alone, as one specification | EXTENDS `SymmetricPorts`, `HeaderRewrite`, `Launch`, `PemSplit`, `Labels` |
| `SequentialProofs` | theorems about all of these but `PemSplit`, and about `Sequential` | EXTENDS `Sequential`, `PemSplitProofs` |
| `MC...` | constants of the instances that TLC checks | |

In every module an operator named `X_Mistake` is a wrong version of `X`, stated to
show which property notices it; no specification uses it.

### 2.1 Registry

A step is the code between two awaits. `handler[c]` is the await at which
`handle_incomming` of connection `c` stands: `accept_uni` (l. 145), `read_len` (146),
`read_mac` (150), `register` (153), `online` (172), `deregister` (174).
`request[r]` is the await of `translate`: `lookup` (48), `opening` (50, holding the
guard), `announce` (53), `copying` (54), `replying` (65 or 75). The lock is a queue of
tickets: tokio's lock is fair, so a reader that comes after a waiting writer waits
too. `ReadHolders` are the requests in `opening`. As the write lock is not held across
an await, a critical section is one step (`RegisterOk`, `RegisterRefused`,
`Deregister`).

`ConnLost` is any end of a connection that is not the relay's doing. A connection
that closes is noticed by its task later (`CloseSeen`), which leaves the stale entries
that `LookupStale` meets. Identities of connections are used again after the task
has ended, so that the state space is finite while devices come and go for ever.

External: tokio's lock (fair), quinn's `open_bi` (fails at once on a closed
connection, waits for stream credit on an open one), `conn.closed()`.

### 2.2 Directory

What a user of the relay sees. The mapping is `owner <- peers` and
`session <- Session`: a request is attached when it has a stream of its own. A
waiting request is not attached, and the step that ends the wait has to attach it to
the owner *at that moment*, which is true only because the guard was held.

### 2.3 Tunnel

The streams of a session are sequences of tokens: a token for the first line and
the other header lines, one for the blank line, one per piece of body; `FIN` is
the end. The label is one token, `Mac`, or `Part` when the one `write` that sends it is cut
short. `read_mac` takes six bytes whatever they are: it then completes the label with bytes of
the request (`ReadsLabel`), which may give any label, also another one of the node's list, and
the first line reads as one of `Leftovers`. `Asked` is the request as the node gets it.
`relay` and `node` are the awaits of `handle_client`/`translate` and of
`handle_bi`. `relayBuf` and `nodeBuf` are the two `peek_buf`. A copy is two actions per
side, one per direction, each moving one token, buffer first (`poll_read`).
A task that returns drops its streams: its side of each is closed, and the other
side meets an error when it writes (`RelayFails`, `NodeFails`). A header that does not
end within 64 KiB (the line `LONG`) makes `peek_header` panic, which ends the task
(`HeaderTooLong`). The limit of the node's peek is the same and cannot be reached through
the relay.

The browser may close or reset at any time, the service may send or close at any
time, the connection may be lost at any time. Whether the device is in the map
is a free choice here (`RelayOffline` or `RelayOpens`): `Registry` is about that.

### 2.4 Reconnect

Timers count down; `Tick` lets a second pass when nothing is due. `entry` is the
relay's entry for the device's labels: of its current connection, a `ghost` of a past
one, or none. The idle timer follows RFC 9000, 10.1, as quinn implements it: it starts
again when a packet is received, and when the first ack-eliciting packet since
then is sent. That second half is what makes the relay's keep-alive prolong a
ghost. `healthy` counts the seconds since the last failure (`Crash`, `RelayRestart`,
`NetworkFails`). A device that waits out its sleep is followed like any other.

With p2p a run also ends when a cell of its list does (`RunEnds`), while its connection is
well. Sessions of browsers that go on are tasks, and their streams hold that connection
(`held`). The thread sleeps longer than its idle timer, but when the next run polls again,
packets are read before timers are looked at: if the relay's last keep-alive still lies
there, or one arrives, the connection answers and lives on (`HeldAnswers`), and the relay
refuses the device for the sake of its own past. Otherwise it is dropped (`HeldDropped`):
the last session is over, or the timer fires.

### 2.5 SymmetricPorts

The loop of `symmetric_connect`, with the arms of its match (the third arm's pattern
`13684..32768` overlaps the second; the first that fits wins, so it starts at 16384).

### 2.6 HeaderRewrite

`Parse`, `Bytes` (a set: a hash map is written in any order) and `Rewrite`. A line is cut
at its colons and a URI is a sequence of its parts, which is all the properties
tell apart. A browser may go through `proxy-change-header` (`tool`), which parses the header,
sets its Host and writes it; the node then parses what the tool has written. The parser
skips a line that is not UTF-8 (`header.rs:123`), so that a rewritten header is without it
(`Decodes`), and refuses a first line that is not. An absolute URI may have any scheme
(`Schemes`). White space, case and line ends are left out.

### 2.7 Signal

`client[r]`, `relay[r]` and, through `down[r]`, the node's handler are the three programs of
the exchange `r`, a pair of devices. `up` and `down` are the two streams, by what they
carry. `task[d]`, `peers` and `lockq` are the registry again, reduced to one label per device,
with the same fair lock. `handle_bi_cell` keeps its guard in the states of `GuardHeld`.

`get_header` (`header.rs:169-185`) ignores errors and ends of stream and tries again without
a pause. Where its stream can end first, the model has the step that does not come back:
`RelayFreezes` takes the relay's one thread, so that no task of the relay takes a step any more
(`Frozen`), and `ClientFreezes` that of a device (`node[d]` is `frozen`).

A stream to the device asked for is opened (`RelayAsks`), accepted (`NodeAccepts`) and answered
(`NodeAnswers`, `NodeFails`) in steps of their own, none of which has to come: `open_bi` waits
while the device has as many streams as it allows, a held connection (`Reconnect`) has nobody
who accepts, and a handler that copies from a silent service does not return. The relay's task
is then `Silent`, with the guard.

`RunEnds`: a cell of a p2p list that returns ends `p2p_connect`, and with it the run.

### 2.8 Punch

`cell[s][a]` is the future of attempt `a` of side `s` with the time it has left, `round` and
`phase` the loop around `symmetric_connect`. An attempt that fails sleeps as long as its
timeout before it says so; one that `connect()` refuses (`Refusable`) says so at once. `met`
and `early` remember what the properties ask for: that both sides were dialling at once,
and that some attempt failed before its time. Time passes only when nothing is due.

### 2.9 Launch

One action per outcome of the demo (it panics or calls) and of the library (it returns a
code, runs, or crashes). `Checks` is the list of checks in the order of the code. A text
is what its JSON stands for: an entry is a record of the fields it has. The text of a p2p
list read from a file is passed without its final zero (`main.rs:51`), so the library reads
it whole, or with what lies behind it, or crashes (`ReadAs`, `LibraryCrashes`);
`RunsWhatWasGiven` promises the p2p list for the option only.

### 2.10 P2pSession

`local[l]` is the task of one TCP connection and the p2p connection it has a handle of:
`accepted`, `copying`, `told` (the answer has ended, and tokio's `copy_bidirectional` waits for
the program's half and for nothing else) or `dropped`. `cur` is the connection of the listener.
`Dropped` is the rule of quinn: the client's end closes with its last handle. `node[c]` is the
task of `handle_incoming_bi`, which accepts the first of `streams[c]` and whose handle is the
node's only one; `ended` are the connections whose service has ended its answer.

`RunEnds` drops the listener, not the tasks. While the thread is `asleep`, or `frozen` in
`get_header` (`Freeze`, on the stream of another p2p entry), no task of the client takes a
step, and the node's idle timer may run out (`NodeIdles`). Both ends have an idle timer of their
own: when the path is gone (`lost`) either may be the first (`ClientIdles`, `NodeIdles`), and a
thread that wakes up may find the client's run out (`Wake`).

### 2.11 PemSplit, Labels

`PemSplit` has an action per kind of line, with the variables of the loop. `IsBlock` is what
a certificate is by the format: from a start to the next end, no start or end between.
`Labels` takes a text character by character through the steps of the parsers (which are the
same three times) and of the printers; a sign before a digit is what `from_str_radix` allows.

### 2.12 Sequential, Places

Ports, header, start, PEM file and label are programs of one thread without a partner. A
behaviour of `SequentialSpec` is one of any of them; the variables of the others stay as they are.
The modules stand alone, and are put together to be checked in one run.

`PickAt(s, K)` is the sequence of those elements of `s` that stand at the places `K`. It
gives what `SelectSeq` gives (`MCSequential` has TLC compare the two) and is defined by counting
places instead of walking along the sequence, so that the prover can say which element is
where. A definition that walks along its data would need induction over it.

## 3. Runs

| run | checks | bounds and why they are enough |
|---|---|---|
| `registry_safety` | `TypeOK`, `OwnershipExact`, `HeldEntryStable`, `RoutedToAnnouncer`, `NoEviction`, `DirectorySpec` | two labels, lists of up to two (overlapping, repeated, empty), two devices, two browsers, one stream per device so that `open_bi` waits; symmetry in all three sets, sound as no property here is a liveness property. The theorems of section 5 cover every size |
| `registry_live` | `GhostsRemoved`, `LookupServed`, `RegistrationServed`, `ReadsBounded` | a stream for every browser; sessions may last for ever; lists of one |
| `registry_stall` | `RegistrationServed`, violated | one stream per device, so requests wait in `open_bi`; sessions may last for ever |
| `tunnel` | `TypeOK`, `ServiceExact`, `BrowserExact`, `DialsAskedTarget`, `Answered`, `Released` | fifteen requests, one for each way through the two handlers; a body of two tokens that may come with the header; answers of up to two tokens, so that order and loss can be seen |
| `tunnel_short_write` | `LabelAnnounced`, violated | as `tunnel` |
| `reconnect` | `TypeOK`, `RefusedAtMostTwice`, `BackOnline` | the constants of the code in seconds, with the p2p build's `RunEnds`; `Horizon` 73 is the smallest value for which `BackOnline` holds |
| `reconnect_refused_twice` | `LetInAfterIdleTimeout`, violated | the same, without p2p |
| `sequential` | `SequentialTypeOK`, `PortsDistinct`, `PortsDialable`, `ServiceGetsRequest`, `PathKept`, `RunsWhatWasGiven`, `CodeNamesTheList`, `WholeCertificates`, `PrintedFindsDevice`, `LabelsAreTheDigits` | 24 observed ports at the borders of the match, all 1000 offsets; headers of up to three of eight lines (one not in UTF-8) with eleven first lines, with the tool and without; lists of up to two entries, each field right, wrong, missing or of the wrong type, in all four options; PEM files of up to seven lines, which is two certificates with a start, an end or a text in every place between them; labels of two bytes in texts of up to five of nine characters, which is one separator, sign or bad digit in every place. The theorems cover every port, list, header, file and text |
| `signal` | `TypeOK`, `BothIntroduced`, `EntriesStand`, `RequestSettled`, `MapUpdated` | three devices with every kind of NAT (symmetric, full cone, not tested), one asking for the second, which asks for the third: a relay task that waits for a device, a device that waits for the relay, and tasks of the registry behind both |
| `punch` | `TypeOK`, `FailureComesLast`, `MetBeforeGivingUp` | the times and tries of the code in seconds (the node's pause of 100 ms counted as none), two attempts a call, one of which may be refused; every lag up to 18 s. With 19 `MetBeforeGivingUp` fails: the node's last try begins at 18 s |
| `p2p_session` | `TypeOK`, `OpenWhileUsed`, `NoneHangs` | two local programs, so that one is served and the other waits, or comes when the session is over; two connections, so that tasks of a past run meet the next one. The theorems cover every number |
| `p2p_listened` | `ListenedIsProxied`, violated | two local programs, one connection; under `ShortSpec`, where sessions whose program has gone also end: even then it fails |

Deadlock is checked except in `sequential`, where the way of a header, a start or a label
simply ends, and in `signal`, `p2p_session` and `p2p_listened`, where a thread that is lost in
`get_header`, or programs that are all served and gone, can leave nothing to happen.

### 3.1 What the violations show

* `registry_stall`: README.md:3 gives as the relay's use that many devices are managed at
  the same time. `translate` holds the read guard while it waits for one device's stream
  credit; a device that cannot grant any (10000 sessions that do not end) keeps every
  other device from registering, and lookups queue behind the waiting writer.
* `tunnel_short_write`: the comment on `quic_server.rs:53` says that the label is sent
  first, but `write` may send a part of it. The node then completes the label with the start of
  the request, and answers 400 or, if that is another label of its list, dials that service with
  the request less those bytes. `ServiceExact` and `DialsAskedTarget` say what holds even then.
* `reconnect_refused_twice`: `cso/src/lib.rs:43` and `rwebc-demo/src/main.rs:72` say that a
  wait longer than 21 s is enough. The relay's keep-alive, sent up to 10 s after the
  last packet it received, starts its idle timer again, so that a ghost lives up to 31 s.
  `RefusedAtMostTwice` shows that the damage is one more round of 30 s.
* `p2p_listened`: `rwebc-demo/src/main.rs:27` says that the port of a p2p entry is carried to
  the p2p stream. Of two programs that connect at the same time the other device accepts
  one stream only; the second program is neither served nor dropped while the first goes
  on, with the thread running and the path up. It is dropped (`NoneHangs`) when the connection
  is over.

### 3.2 Fairness

* `Registry`: weak fairness of every step the runtime takes by itself: a lock that can
  be granted is granted, a timer fires, a close is noticed, `open_bi` returns when it can.
  None for devices (whether they send or stay) and none for browsers.
* `Signal`: weak fairness of the relay's tasks, whose guards end it when the relay is frozen,
  and of a device that reads what has come for it (`ClientRuns`). None for the device that is
  asked (`NodeAccepts`, `NodeAnswers`, `NodeFails`), as no timer limits it; none for `RelayAsks`,
  which needs stream credit of that device; none for `ConnLost`, as a connection may be held up
  by a session of an earlier run (`Reconnect`); none for asking, dialling or coming back.
* `Tunnel`: each task is polled when it can go on, each direction of a copy separately, as
  `copy_bidirectional` polls both; a dial ends. Of the outside: a browser closes after
  the end of its answer, and a service answers and closes after the end of its request.
  None for a browser that never closes and never finishes its header: there is no timer
  in the code for it, and `Released` speaks only of browsers that have gone or were
  answered.
* `P2pSession`: weak fairness of the node's `accept_bi`, whether it returns a stream or fails.
  Strong fairness of the tasks of the client, of `ClientSeesEnd` and of `ClientIdles`: the thread
  polls them only while a run is on, but at its start, long before the run can end (its own
  dials take seconds). None for `Wake`: a run that cannot resolve the relay's name
  (`quic_client.rs:69` and `108`) returns before its first await, so that a thread may sleep
  for good. None for ends of sessions, for a copying that waits for its open half, for the
  node's idle timer, for programs that connect, or for runs. `ShortSpec` adds that a served
  session whose program has gone ends; it is used for the violation only, where assuming more
  than the code gives makes the counterexample stronger.
* `Reconnect` has no liveness property: `BackOnline` bounds the time instead. `Tick` is the
  only action that lets time pass and waits for everything that is due.

## 4. Properties

Each is stated in words above its definition. The deepest are `DirectorySpec` (the
registry as atomic operations), `HeldEntryStable`, `RoutedToAnnouncer` (several tasks over
time), `OpenWhileUsed` (handles in tasks of several runs), `ServiceExact` (two peeks, a
rewrite and a copy lose nothing), `BackOnline` (four timers), `MetBeforeGivingUp` (two loops
with times of their own), `BothIntroduced` (three programs), and the liveness properties of the lock. For each property of each
passing run PROJECT.json names a mistake in the model that TLC finds by that property.

`RequestSettled` and `MapUpdated` name the two ways in which they do not hold. `Frozen`: a
`get_header` of the relay does not return because its stream has ended, on the relay's one
thread. `[]Silent(q)`: the relay waits for ever, with the registry's guard, for a device that
stays and does not answer. In both no device is let in or removed from then on. TLC reaches
both within the bounds; they are the behaviour of the code, not assumptions. What the two
properties add is that nothing else keeps a request or a registration waiting: not the queue
of the lock, not a chain of devices that ask each other, not a device that goes.

`BackOnline` names its exception, too: `held`, a session of an ended run that keeps the
connection of that run. The relay hears of it in every round, and refuses the device's new
connection every 30 s until that session is over. TLC reaches a healthy device that is
kept out so for the whole horizon; only an end of the session undoes it, and no timer is
there to bring one. A new browser finds that connection in the map, on which nobody
accepts streams any more. The build without p2p does not have it, since there
a run ends only with its connection.

`OpenWhileUsed` allows two ends that are not the client's doing: the other device has ended the
connection (`gone`), or the two have lost each other (`lost`) and an idle timer has run out.
`NoneHangs` leaves out a client whose thread never runs again, and counts a program as served
that is told the end of its answer: what it waits for then is in its own hands.

`ServiceGetsRequest` promises the lines of a request that are UTF-8. One that is not is lost
when a header is rewritten, by the tool or by the node; a header that is not rewritten
is passed on as it came. No document of the repository speaks of it.

`PathKept` leaves out two kinds of URI by name (`Plain`), for which the code does something
else: a URI that contains its own scheme and host again loses that too
(`String::replace` replaces all), and `http://h:80/x`, whose port the url crate reports
as none, becomes `:80/x`. No document of the repository says anything of these.

## 5. Proofs

`RegistryProofs` proves for all sets of labels, connections and requests, and all
bounds, from `RegistryAssumption` alone:

* `TypeCorrect`, `OwnershipCorrect`, `HeldEntryCorrect`, `RoutingCorrect`: the invariants of
  `registry_safety`. The inductive invariant `IInv` adds two facts: requests that use
  a connection found it under a label it announced (`RequestsConsistent`), and a task
  waits to remove its labels only after its connection is closed
  (`ClosedBeforeRemoval`). They are needed together: a removal takes away nothing but its
  own entries because of `OwnershipExact`; it pulls no entry from under a request in
  `open_bi` because the write lock needs every guard back; a request that leaves `open_bi`
  is with a device that announced the label because of `HeldEntryStable` and
  `OwnershipExact`; and it stays so because a connection's identity is not taken again
  while a request uses it.
* `NoEvictionCorrect`: the action property, from `IInv`.
* `RefinesDirectory`: `Spec => DirectorySpec`, one lemma per kind of task, each step mapped
  to a step of `Directory` or a stutter.

`SignalProofs` proves `IntroducedCorrect` (`BothIntroduced`) and `EntriesStandCorrect` for every set of
devices, pairs and addresses (`SignalAssumption`). The inductive invariant follows the
answer on its way (`ToldBefore`): on the stream from the node, in the relay, on the stream to
the client and in the client that dials, the node was told before. `EntriesStand` needs no
invariant: only two steps change the map, and both wait until every guard is back.

`TypeCorrect` is about the lock's queue (`Line`): every ticket in it is of a task that waits for
the lock, and no task has two. Only then does a grant, which takes the first ticket away, leave
no other ticket of a task that has gone on, and the queue is never longer than there are tasks.

`PunchProofs` proves `TypeCorrect` and `FailureComesLastCorrect` for all timeouts, tries and numbers
of attempts (`PunchAssumption`). The invariant `SleepersWakeLater` says that one that sleeps has
at least as much time left as any that dials, which holds because the sleep is a
whole timeout long, and time takes the same from all.

`MetBeforeGivingUpCorrect` is for all timings that satisfy `TimesFit`: the node pauses for less
time than the client dials (its attempts sleep as long as they dial), and the client is
introduced no later than the node's last call starts. Both are needed, and the code's numbers
satisfy them with a lag of 18 s, exactly; with one second more TLC finds the client alone.
The invariant `WillMeet` dates both loops: there are ages `c` and `e` of the two calls such that
every attempt is where a call of that age has it (`InStep`, as long as none ended early), and
either the client is not yet introduced and will be by the node's last call (`Waits`), or it
dials for the first time, has not dialled for longer than the node's timeout, and the node will
call again before it has (`Dials`).

`P2pSessionProofs` proves `TypeCorrect` and `OpenWhileUsedCorrect` for any number of local programs
and runs. The inductive invariant adds `UnusedBefore`: nobody has a handle of a connection that
has not been made. Every step that drops a handle is an application of `Dropped`, and one
lemma (`DropInv`) says that the rule keeps the invariant whatever was dropped. The client closes
a connection in use only for one that is `gone` or `lost` (`ClientClosesInv`), whichever idle timer
is first; what is lost or gone stays so (`LostInv`, `NodeInv`).

`PemSplitProofs` proves `WholeCorrect` (`WholeCertificates`) for files of every length. The
invariant says what `current_cert` is (`CurrentIsOpen`: the lines since a start that has not
ended, or nothing is open), that every certificate returned is a block (`Sound`), every block
read is returned (`Complete`), and that they do not overlap (`Ordered`, `Counted`).

`ReconnectProofs` proves for all timers `TypeCorrect`, `BackOnlineCorrect` (when two idle times and a wait
are less than the horizon) and `RefusedCorrect` (when idle time and keep-alive together are
less than two waits, `WaitsOutlastGhosts`; the code's 31 < 60). The invariant measures how long
each side can still believe in a dead connection (`RelayLife`, `NodeLife`: what it sends first
starts its timer again) and says that this shrinks as fast as the healthy period grows
(`DeadShrinks`), so that the next dial comes in time (`DialsSoon`). For the refusals,
`WaitsSpendLife`: each refusal has cost the device a whole wait, and the past connection as
much of its life.

`TunnelProofs` proves the four invariants of `tunnel` for all requests, labels, service lists,
bodies and answers, and however the label is cut on its way: `TypeCorrect`,
`ServiceExactCorrect`, `BrowserExactCorrect`, `DialsAskedTargetCorrect`. The inductive invariant says
where every byte is.

* A sequence is never cut up in it: `Carries(s, F, i)` says that what can be read of stream `s`
  is what follows place `i` of the text `F`, element by element. A buffer and the stream behind
  it share what is left (`Spread`), and one lemma (`MoveFacts`) covers every peek and every
  step of a copy: what moves from the second to the first changes neither text nor place.
* Towards the service, the text changes with the state of the two tasks: the request before
  the stream is announced (`BeforeAnnounce`), the label and the request until the node has
  read the label (`BeforeMac`), the request until it dispatches (`BeforeDispatch`), and then what
  the service is entitled to (`AfterDispatch`), of which it has a beginning (`Received`). A relay
  that closes in between leaves a text cut short (`CutShort`), never one with a hole; where a
  direction has ended everything was written (`EndMeansAll`).
* Towards the browser: while nothing is dialled there is at most one page of the relay or the
  node (`BeforeDial`, `NothingTold`), and from then on a beginning of the service's words behind
  the one "200" of a CONNECT (`AfterDial`).
* `MacFits`: a label that passes the node's check is one of its list, and the session's if it
  came whole. When it came cut short it may be any of the list, and the texts above are those
  of `Asked`, the request without the bytes that completed the label: the theorems say that no
  other byte is missing, and that what is dialled then is still a service of the list or the
  address in the header, never the relay. `Places` says where one task can be
  when the other is somewhere, `Streams` that nothing stands behind an end.

`SequentialProofs` is about the programs of one thread, for all inputs of every length:

* `SymmetricPorts`: `TypeCorrect`, `DistinctCorrect` and `DialableCorrect` for
  every observed port and every `PortLen` up to 1000 (`PortsAssumption`), which TLC checks at
  the borders only. The argument: an offset runs past the end of a pool only in the
  pools that end at 32767 and 65535 (`PastEndPools`), what is then subtracted is at
  least 16384, more than the loop adds, so nothing underflows and no candidate comes
  twice.
* `Launch`: `RunsWhatWasGivenCorrect` and `CodeNamesTheListCorrect`, for all lists, files and
  options. `LaunchInv` says what the library is called with, and what each code means about it.
* `HeaderRewrite`: `ServiceGetsRequestCorrect` and `PathKeptCorrect`, for headers of any number of
  lines, in UTF-8 or not, with the tool and without, and for any set of schemes. `HeaderInv`
  keeps what the node saw: the browser's header, or any of the ways in which the tool may write
  it (`Seen`). A hash map is written as a bijection
  from the places of lines to its names (`BytesFacts`), which is why each name stands there
  once, whatever the order; what is parsed of it is the last line of a name, which is that one.
  For the path, `NewUriFacts`: a text that stands in a URI once, at its start, is what `replace`
  takes out. `HeaderAssumption` says only what is no header in any case: an empty line has no
  name, and a URI is a sequence of parts.
* `Labels`: `PrintedFindsDeviceCorrect` and `LabelsAreTheDigitsCorrect`, for labels of every length
  and texts of every length with any characters. The lemma they stand on is `NthExact`: whatever
  enumerates the places of a text from the left, without a gap, says which is the n-th. For a
  printed label with a separator in it the enumeration is given outright; for a text of its
  own it is the places of the digits, which are what is kept.
* `Sequential`: `SequentialTypeCorrect`, from the five inductive invariants.

Only model-checked: liveness (`Answered`, `Released`, `GhostsRemoved`, `LookupServed`,
`RegistrationServed`, `ReadsBounded`, `RequestSettled`, `MapUpdated`, `NoneHangs`), which is out of the
prover's reach. Every invariant of a run is a theorem. That `PickAt` is what `SelectSeq` computes
is checked by TLC for texts of up to four characters: `SelectSeq` is recursive, and what it
computes for every input needs induction over data.

## 6. Not modelled

* QUIC and TLS themselves, certificates and `NoVerify`: libraries and configuration. What
  the models take from quinn: streams are reliable and in order, an end or reset is
  seen by the other side, a lost connection fails every call on it.
* The relay does not compile with its `p2p` feature: `quic_server.rs:168` names `connection` and
  `peers_bi`, which do not exist. `Signal` takes them to be `conn` and `peers`. The panic
  of `mac_list[0]` on an empty list, in the same line, is left out.
* The client does not compile with its `p2p` feature, either: `quic_client.rs:72` and `74` pass
  `CER_BIN` and `KEY_BIN` without the `.as_bytes()` of the other build (111, 113) to functions
  that take bytes. With `p2ptest`, `p2p_client.rs:162` names a crate `common`, which is
  `rweb_common` elsewhere. The models take both as meant. The module `rweb_common::key`, with the
  two constants, is not in the repository at all.
* Whether a packet gets through NATs: an attempt of `Punch` may succeed whenever it dials.
* Ports past the end of their range: for an observed port from 49152 on, what is
  subtracted past 65535 is 49152, so that the prediction goes on at 16384. The ports are
  different and can be dialled, which is what is stated.
* The codecs of `header.rs` 193-249: that of addresses is used with the p2ptest server only (one
  sender, 7 or 19 bytes on a stream of their own), that of lists by nothing, like `Serialize` of
  the lists. The text of the address `new_diy_stream` makes from a URL.
* Labels with characters of more than one byte, and labels of other than two bytes in TLC's
  runs: the steps are the same for six.
* A request that is not an old-style proxy request keeps the line `GET: uri` that
  `proxy-change-header` adds to it on its way to the service (`HeaderRewrite` has it so; no
  document speaks of it).
* Texts that are not UTF-8 in the host or the list of services (-35, -36): the demo makes
  none.
* What a panic does to the others: with the release profile (`panic = "abort"`) the process
  ends, and with it every session of the relay. `Tunnel` has one session.
* Two p2p entries with one port (the second cell finds the first entry again and cannot bind
  its port, which ends the run), and an empty p2p list (`select_all` panics on it).
* Endpoints that close: `accept` would return `None` for ever and `start` and
  `listen_incoming` would loop without a pause. Nothing closes them while they run.
* The copying half of `proxy-change-header`, whose `select!` ends a session with the direction
  that ends first; the `p2ptest` server, which keeps nothing; `cert-key-file`, which is I/O.

## 7. Plan

Done: `Directory`, `Registry`, `Tunnel`, `Reconnect`, `SymmetricPorts`, `HeaderRewrite`, `Signal`, `Punch`,
`Launch`, `P2pSession`, `PemSplit`, `Labels`, and proofs of every invariant that a run checks, of the
three action properties, and of `Registry` against `Directory`.

To model next:

1. Several sessions of one node: `listen_bi`, the registration stream of `run_diy_stream`,
   stream credit that old sessions use up, and the select that ends a run.
2. The copying of `proxy-change-header`, with half-closed connections.
3. Two p2p entries in one list, with equal ports and with one device.
4. Documented claims to compare with the code: error code -20, the `rstp` scheme of
   README.md:30, the port in quotes of `rwebc-demo/src/main.rs:27`, `--proxy_list` alone
   (`main.rs:24` and `:47`).

To prove next:

1. An abstract session (bytes appear at the service and at the browser, in order) that `Tunnel`
   implements, with the invariant of `TunnelProofs` as its mapping's proof.
2. The steps that liveness rests on, as action properties: in `Signal`, that a task which has
   answered is out of every queue; in `Registry`, that the lock's queue only gets shorter in
   front of a waiting task.
