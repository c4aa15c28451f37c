-------------------------------- MODULE Signal --------------------------------
(***************************************************************************)
(* P2p signalling: a device asks the relay for another device, the relay   *)
(* asks that device, and both are told where to dial.  Three programs take *)
(* part in one exchange: p2p_cell in the asking device, handle_bi_cell in  *)
(* the relay, and the P2P arm of handle_bi in the device asked for.        *)
(*                                                                         *)
(* A step is the code between two awaits.  handle_bi_cell keeps the read   *)
(* guard of the registry from its lookup to its end, so the tasks that     *)
(* register and deregister devices are here too, with the lock's queue; of *)
(* a device only its first label is, as a device comes and goes with all.  *)
(*                                                                         *)
(* get_header ignores read errors and ends of stream and reads again,      *)
(* without an await.  The relay and a device have one thread each, so that *)
(* is the end of everything they do ("frozen").  Nothing limits the time a *)
(* device takes for its answer, or the relay waits for a stream to it.     *)
(*                                                                         *)
(* This is the code behind the feature `p2p`, which does not compile at    *)
(* this commit.  In the relay, quic_server.rs:168 names `connection` and   *)
(* `peers_bi`: they are taken to be the `conn` and `peers` of              *)
(* handle_incomming.  In the client, quic_client.rs:72 and 74 pass texts   *)
(* where bytes are asked for.                                              *)
(***************************************************************************)
EXTENDS Naturals, Sequences, FiniteSets

CONSTANTS
    Devices,
    Reqs,        \* pairs <<asking device, device asked for>>
    SeenAddr,    \* remote_address(): where the relay sees a device
    TestedAddr,  \* where the test server sees it, or NoAddr (no p2ptest)
    NoAddr,
    PortLen      \* PORT_LEN, ports to try at a symmetric NAT

ASSUME SignalAssumption ==
    /\ IsFiniteSet(Devices) /\ Reqs \subseteq Devices \X Devices
    /\ Devices \cap Reqs = {}
    /\ DOMAIN SeenAddr = Devices /\ DOMAIN TestedAddr = Devices
    /\ \A d \in Devices : SeenAddr[d] # NoAddr
    /\ PortLen \in Nat /\ PortLen > 1
    /\ NoAddr \notin [addr : {SeenAddr[d] : d \in Devices} \cup {TestedAddr[d] : d \in Devices},
                     ports : {1, PortLen}]

VARIABLES
    peers,     \* the devices whose label is in the map
    task,      \* task[d]: where handle_incomming of d's connection is
    linked,    \* the devices whose connection with the relay is up
    node,      \* node[d]: the thread of device d
    client,    \* client[r]: where p2p_cell of the asking device is
    relay,     \* relay[r]: where handle_bi_cell is
    up,        \* up[r]: the stream from the asking device to the relay
    down,      \* down[r]: the stream from the relay to the device asked for
    dials,     \* dials[r]: what the two devices were told to dial, if anything
    lockq      \* tickets waiting for the RwLock

deviceVars == <<peers, task, linked, node>>
vars == <<deviceVars, client, relay, up, down, dials, lockq>>

Untold == [client |-> NoAddr, node |-> NoAddr]

GuardHeld == {"opening", "waiting", "replying", "refusing"}

\* The relay's thread is lost in a get_header; no task of the relay is polled.
Frozen == \E r \in Reqs : relay[r] = "frozen"

Init ==
    /\ peers = {} /\ linked = {}
    /\ task = [d \in Devices |-> "off"]
    /\ node = [d \in Devices |-> "off"]
    /\ client = [r \in Reqs |-> "idle"]
    /\ relay = [r \in Reqs |-> "idle"]
    /\ up = [r \in Reqs |-> "none"]
    /\ down = [r \in Reqs |-> "none"]
    /\ dials = [r \in Reqs |-> Untold]
    /\ lockq = <<>>

(***************************************************************************)
(* What the relay tells each of the two about the other.                   *)
(***************************************************************************)

\* self_addr.unwrap_or(remote_address()): the address to predict ports from.
Best(d) == IF TestedAddr[d] = NoAddr THEN SeenAddr[d] ELSE TestedAddr[d]

\* The header's Nat-Type; it is left out for a device that was not tested.
Symmetric(d) == TestedAddr[d] # NoAddr /\ TestedAddr[d] # SeenAddr[d]

\* The address in the header and, from its Nat-Type, how many ports to try.
Introduction(d) == [addr |-> Best(d), ports |-> IF Symmetric(d) THEN PortLen ELSE 1]

(***************************************************************************)
(* Devices come, register, and go; the relay's lock.                       *)
(***************************************************************************)

\* A mistake the code does not make: the guard is not given back before the
\* answer has come.
ReadHolders_EarlyDrop == {r \in Reqs : relay[r] = "opening"}
ReadHolders == {r \in Reqs : relay[r] \in GuardHeld}

FirstInLine(t) == lockq # <<>> /\ Head(lockq) = t
WriteGranted(d) == FirstInLine(d) /\ ReadHolders = {}

\* A run starts and sends its labels.  A device comes back when its old entry is
\* gone (Reconnect is about the wait).
Start(d) ==
    /\ node[d] = "off" /\ task[d] = "off" /\ ~Frozen
    /\ node' = [node EXCEPT ![d] = "running"]
    /\ linked' = linked \cup {d}
    /\ task' = [task EXCEPT ![d] = "register"]
    /\ lockq' = Append(lockq, d)
    /\ UNCHANGED <<peers, client, relay, up, down, dials>>

Register(d) ==
    /\ task[d] = "register" /\ WriteGranted(d) /\ ~Frozen
    /\ peers' = peers \cup {d}
    /\ task' = [task EXCEPT ![d] = "online"]
    /\ lockq' = Tail(lockq)
    /\ UNCHANGED <<linked, node, client, relay, up, down, dials>>

\* select! of handle_bi and conn.closed(): both end with the connection.
CloseSeen(d) ==
    /\ task[d] = "online" /\ d \notin linked /\ ~Frozen
    /\ task' = [task EXCEPT ![d] = "deregister"]
    /\ lockq' = Append(lockq, d)
    /\ UNCHANGED <<peers, linked, node, client, relay, up, down, dials>>

Deregister(d) ==
    /\ task[d] = "deregister" /\ WriteGranted(d) /\ ~Frozen
    /\ peers' = peers \ {d}
    /\ task' = [task EXCEPT ![d] = "off"]
    /\ lockq' = Tail(lockq)
    /\ UNCHANGED <<linked, node, client, relay, up, down, dials>>

StopCells(d) == client' = [r \in Reqs |-> IF r[1] = d THEN "idle" ELSE client[r]]

\* The connection of d is lost, with its streams.  In the device, the select! of
\* run_diy_stream polls its branches in any order: listen_bi returns the error
\* and ends the run, unless a get_header is polled first and never returns.
ConnLost(d) ==
    /\ d \in linked
    /\ linked' = linked \ {d}
    /\ up' = [r \in Reqs |-> IF r[1] = d /\ up[r] # "none" THEN "lost" ELSE up[r]]
    /\ down' = [r \in Reqs |-> IF r[2] = d /\ down[r] # "none" THEN "lost" ELSE down[r]]
    /\ \/ /\ node[d] = "frozen"
          /\ UNCHANGED <<node, client>>
       \/ /\ node[d] # "frozen"
          /\ node' = [node EXCEPT ![d] = "off"]
          /\ StopCells(d)
       \/ /\ node[d] = "running"
          /\ \E r \in Reqs : r[1] = d /\ client[r] = "asking"
          /\ node' = [node EXCEPT ![d] = "frozen"]
          /\ UNCHANGED client
    /\ UNCHANGED <<peers, task, relay, dials, lockq>>

(***************************************************************************)
(* The asking device: p2p_cell, one per entry of its p2p list.             *)
(***************************************************************************)

\* open_bi and write_header.  Bound: one exchange per pair at a time.
Ask(r) ==
    /\ node[r[1]] = "running" /\ r[1] \in linked
    /\ client[r] = "idle" /\ relay[r] = "idle"
    /\ client' = [client EXCEPT ![r] = "asking"]
    /\ up' = [up EXCEPT ![r] = "open"]
    /\ down' = [down EXCEPT ![r] = "none"]
    /\ dials' = [dials EXCEPT ![r] = Untold]
    /\ UNCHANGED <<deviceVars, relay, lockq>>

ClientReads(r) ==
    /\ client[r] = "asking" /\ node[r[1]] = "running" /\ up[r] = "answered"
    /\ client' = [client EXCEPT ![r] = "dialling"]
    /\ dials' = [dials EXCEPT ![r].client = Introduction(r[2])]
    /\ UNCHANGED <<deviceVars, relay, up, down, lockq>>

\* One cell that returns ends p2p_connect (select_all), and with it the run and
\* all other cells (select!); the thread sleeps and answers nothing.
RunEnds(d) ==
    /\ node' = [node EXCEPT ![d] = "stopped"]
    /\ StopCells(d)
    /\ UNCHANGED <<peers, task, linked, relay, up, down, dials, lockq>>

\* The relay's 404 is not a p2p header: parse_p2p fails.
ClientRefused(r) ==
    /\ client[r] = "asking" /\ node[r[1]] = "running" /\ up[r] = "refused"
    /\ RunEnds(r[1])

\* The relay closed the stream without an answer: get_header never returns.
ClientFreezes(r) ==
    /\ client[r] = "asking" /\ node[r[1]] = "running" /\ up[r] = "ended"
    /\ node' = [node EXCEPT ![r[1]] = "frozen"]
    /\ UNCHANGED <<peers, task, linked, client, relay, up, down, dials, lockq>>

\* One of the five tries succeeds (Punch), and the device listens on its port.
DialSucceeds(r) ==
    /\ client[r] = "dialling" /\ node[r[1]] = "running"
    /\ client' = [client EXCEPT ![r] = "listening"]
    /\ UNCHANGED <<deviceVars, relay, up, down, dials, lockq>>

\* All tries failed, or the listener did.
CellEnds(r) ==
    /\ client[r] \in {"dialling", "listening"} /\ node[r[1]] = "running"
    /\ RunEnds(r[1])

(***************************************************************************)
(* The relay: handle_bi accepts the stream, handle_bi_cell serves it.      *)
(***************************************************************************)
RelayStep(r, from, to) ==
    /\ relay[r] = from /\ ~Frozen
    /\ relay' = [relay EXCEPT ![r] = to]
    /\ UNCHANGED <<deviceVars, client, dials>>

\* accept_bi is called once the device is registered.
RelayAccepts(r) ==
    /\ RelayStep(r, "idle", "reading")
    /\ task[r[1]] = "online" /\ up[r] = "open"
    /\ UNCHANGED <<up, down, lockq>>

\* A mistake the code avoids: reading one header after the other from a stream.
RelayParses_Again(r) ==
    /\ RelayStep(r, "reading", "reading")
    /\ up[r] = "open"
    /\ lockq' = Append(lockq, r)
    /\ UNCHANGED <<up, down>>

RelayParses(r) ==
    /\ RelayStep(r, "reading", "lookup")
    /\ up[r] = "open"
    /\ lockq' = Append(lockq, r)
    /\ UNCHANGED <<up, down>>

RelayLooksUp(r) ==
    /\ FirstInLine(r)
    /\ RelayStep(r, "lookup", IF r[2] \in peers THEN "opening" ELSE "refusing")
    /\ lockq' = Tail(lockq)
    /\ UNCHANGED <<up, down>>

\* handle_bi_cell returns: the guard is given back and the stream is closed, with
\* the answer `last` if one was written and the stream still took it.
RelayReturns(r, from, last) ==
    /\ RelayStep(r, from, "idle")
    /\ up' = [up EXCEPT ![r] = IF @ = "open" THEN last ELSE @]
    /\ UNCHANGED <<down, lockq>>

\* A mistake the code avoids: a 404 that is not sent.
RelayRefuses_Forgotten(r) ==
    /\ RelayStep(r, "refusing", "refusing")
    /\ UNCHANGED <<up, down, lockq>>

RelayRefuses(r) == RelayReturns(r, "refusing", "refused")

\* open_bi on the other device's connection, which waits as long as the device has
\* as many streams as it allows, and the label and header written.
RelayAsks(r) ==
    /\ RelayStep(r, "opening", "waiting")
    /\ r[2] \in linked
    /\ down' = [down EXCEPT ![r] = "asked"]
    /\ UNCHANGED <<up, lockq>>

RelayAskFails(r) == r[2] \notin linked /\ RelayReturns(r, "opening", "ended")

\* A mistake the code avoids: an answer before the other device has given its own.
RelayReads_NoAnswer(r) ==
    /\ RelayStep(r, "waiting", "replying")
    /\ down[r] = "asked"
    /\ UNCHANGED <<up, down, lockq>>

RelayReads(r) ==
    /\ RelayStep(r, "waiting", "replying")
    /\ down[r] = "answered"
    /\ UNCHANGED <<up, down, lockq>>

\* A mistake the code avoids: waiting for a better answer.
RelayRejects_ReadsOn(r) ==
    /\ RelayStep(r, "waiting", "waiting")
    /\ down[r] = "nonsense"
    /\ UNCHANGED <<up, down, lockq>>

RelayRejects(r) == down[r] = "nonsense" /\ RelayReturns(r, "waiting", "ended")

\* The asking device is gone before its header was read, or the other device is
\* gone or closed the stream: get_header never returns.
RelayFreezes(r) ==
    /\ \/ relay[r] = "reading" /\ up[r] = "lost"
       \/ relay[r] = "waiting" /\ down[r] \in {"ended", "lost"}
    /\ RelayStep(r, relay[r], "frozen")
    /\ UNCHANGED <<up, down, lockq>>

RelayReplies(r) == RelayReturns(r, "replying", "answered")

(***************************************************************************)
(* The device asked for: the P2P arm of handle_bi.                         *)
(***************************************************************************)

\* listen_bi gives the stream a task of its own, which outlives the run.
NodeAccepts(r) ==
    /\ node[r[2]] = "running" /\ r[2] \in linked /\ down[r] = "asked"
    /\ down' = [down EXCEPT ![r] = "taken"]
    /\ UNCHANGED <<deviceVars, client, relay, up, dials, lockq>>

Handles(r) == down[r] = "taken" /\ r[2] \in linked /\ node[r[2]] \in {"running", "stopped"}

\* The header is parsed and answered; then the tries of Punch begin.
NodeAnswers(r) ==
    /\ Handles(r)
    /\ down' = [down EXCEPT ![r] = "answered"]
    /\ dials' = [dials EXCEPT ![r].node = Introduction(r[1])]
    /\ UNCHANGED <<deviceVars, client, relay, up, lockq>>

\* The handler fails (the stream just closes), or the node was built without
\* p2p and passes the header on to its service, which answers with a page, or
\* never.
NodeFails(r) ==
    /\ Handles(r)
    /\ \E s \in {"ended", "nonsense"} : down' = [down EXCEPT ![r] = s]
    /\ UNCHANGED <<deviceVars, client, relay, up, dials, lockq>>

------------------------------------------------------------------------------

DeviceNext(d) == Start(d) \/ Register(d) \/ CloseSeen(d) \/ Deregister(d) \/ ConnLost(d)

ClientRuns(r) == ClientReads(r) \/ ClientRefused(r) \/ ClientFreezes(r)

RelayRuns(r) ==
    \/ RelayAccepts(r) \/ RelayParses(r) \/ RelayLooksUp(r) \/ RelayRefuses(r)
    \/ RelayAskFails(r) \/ RelayReads(r) \/ RelayRejects(r) \/ RelayFreezes(r)
    \/ RelayReplies(r)

NodeRuns(r) == NodeAccepts(r) \/ NodeAnswers(r) \/ NodeFails(r)

ReqNext(r) ==
    \/ Ask(r) \/ ClientRuns(r) \/ DialSucceeds(r) \/ CellEnds(r)
    \/ RelayRuns(r) \/ RelayAsks(r)
    \/ NodeRuns(r)

Next ==
    \/ \E d \in Devices : DeviceNext(d)
    \/ \E r \in Reqs : ReqNext(r)

Spec == Init /\ [][Next]_vars

\* Tasks that can go on are polled, on the relay until it is frozen.  Nothing is
\* assumed of the device that is asked: it may be slow, its service silent, its
\* streams used up, its connection held by a session of an earlier run and served
\* by nobody (Reconnect); of the one that asks, that it reads what has come.
FairSpec ==
    /\ Spec
    /\ \A d \in Devices :
        WF_vars(Register(d)) /\ WF_vars(CloseSeen(d)) /\ WF_vars(Deregister(d))
    /\ \A r \in Reqs : WF_vars(ClientRuns(r)) /\ WF_vars(RelayRuns(r))

(***************************************************************************)
(* Properties                                                              *)
(***************************************************************************)
Told == [addr : {SeenAddr[d] : d \in Devices} \cup {TestedAddr[d] : d \in Devices},
         ports : {1, PortLen}] \cup {NoAddr}

TypeOK ==
    /\ peers \subseteq Devices /\ linked \subseteq Devices
    /\ task \in [Devices -> {"off", "register", "online", "deregister"}]
    /\ node \in [Devices -> {"off", "running", "stopped", "frozen"}]
    /\ client \in [Reqs -> {"idle", "asking", "dialling", "listening"}]
    /\ relay \in [Reqs -> {"idle", "reading", "lookup", "frozen"} \cup GuardHeld]
    /\ up \in [Reqs -> {"none", "open", "answered", "refused", "ended", "lost"}]
    /\ down \in [Reqs -> {"none", "asked", "taken", "answered", "nonsense", "ended", "lost"}]
    /\ dials \in [Reqs -> [client : Told, node : Told]]
    /\ lockq \in Seq(Devices \cup Reqs)
    /\ Len(lockq) <= Cardinality(Devices) + Cardinality(Reqs)

\* When a device starts to dial, the other one has been told to dial it, so
\* that both NATs are opened; each was given an address of the other, and a
\* thousand ports are tried exactly where the relay and the test server see
\* different addresses.
BothIntroduced ==
    \A r \in Reqs : client[r] \in {"dialling", "listening"} =>
        \A side \in {"client", "node"} :
            LET other == IF side = "client" THEN r[2] ELSE r[1] IN
            /\ dials[r][side] # NoAddr
            /\ dials[r][side].addr \in {SeenAddr[other], TestedAddr[other]} \ {NoAddr}
            /\ dials[r][side].ports > 1 <=>
                   Cardinality({SeenAddr[other], TestedAddr[other]} \ {NoAddr}) > 1

\* While the relay waits for a device's answer, no device is let in or taken
\* off the map: what handle_bi_cell borrowed from the map stays valid.
EntriesStand ==
    [][(\E r \in Reqs : relay[r] \in {"opening", "waiting"}) => peers' = peers]_vars

\* The relay waits for the device asked for, with the guard: for a stream to it,
\* or for the answer of a device that is there.
Silent(q) ==
    \/ relay[q] = "opening" /\ q[2] \in linked
    \/ relay[q] = "waiting" /\ down[q] \in {"asked", "taken"}

\* A device that asks for another is given an answer, a refusal or an end, or
\* its thread is lost in get_header; unless the relay's is, or some device that
\* is asked stays there and never answers.
RequestSettled ==
    \A r \in Reqs : client[r] = "asking" /\ task[r[1]] = "online"
        ~> \/ client[r] # "asking" \/ node[r[1]] = "frozen" \/ Frozen
           \/ \E q \in Reqs : []Silent(q)

\* A device that comes or goes gets the lock; only a frozen relay prevents it, or a
\* device that is asked, stays there and never answers.
MapUpdated ==
    \A d \in Devices : task[d] \in {"register", "deregister"}
        ~> \/ task[d] \in {"online", "off"} \/ Frozen
           \/ \E q \in Reqs : []Silent(q)
==============================================================================
