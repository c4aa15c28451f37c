------------------------------ MODULE Reconnect ------------------------------
(***************************************************************************)
(* One device against one relay over time: the reconnect loop of           *)
(* quic_node_run, the connection of run_diy_stream, the relay's entry for  *)
(* the device, and the QUIC timers both sides configure.  A tick is one    *)
(* second.                                                                 *)
(*                                                                         *)
(* Only the relay sends keep-alives: the client's are commented out.  The  *)
(* QUIC library restarts a side's idle timer when it receives a packet,    *)
(* and when it sends the first packet that asks for an acknowledgement     *)
(* since then (RFC 9000, 10.1); an idle connection is dropped silently.    *)
(*                                                                         *)
(* A handshake with registration takes less than a second when the relay   *)
(* can be reached.                                                         *)
(*                                                                         *)
(* With p2p a run can end while its connection is well.  The sessions of   *)
(* browsers are tasks of their own, and their streams hold the connection; *)
(* the thread sleeps, so that nobody tells the relay either way.           *)
(***************************************************************************)
EXTENDS Naturals

CONSTANTS
    Idle,        \* IDLE_TIMEOUT_MILLIS, 21 s, the same on both sides
    KeepAlive,   \* KEEPALIVE_INTERVAL_MILLIS, 10 s, on the relay
    Retry,       \* the sleep between two runs of node_run, 30 s
    P2pBuilt,    \* the p2p feature
    Horizon      \* bound: how long a healthy period is followed

ASSUME ReconnectAssumption ==
    /\ {Idle, KeepAlive, Retry, Horizon} \subseteq Nat \ {0}
    /\ KeepAlive < Idle
    /\ P2pBuilt \in BOOLEAN

VARIABLES
    node,       \* "off", "dial", "up" or "sleep": where quic_node_run is
    nodeTimer,  \* seconds until it gives up dialling, idles out, or wakes up
    nodeSent,   \* has it sent data since it last received anything
    entry,      \* the relay's entry: "none", "current", or of a past connection, a
                \* "ghost" or one that the device still has ("held")
    relayTimer, \* seconds until the entry's connection idles out
    pingTimer,  \* seconds until the relay's next keep-alive
    relaySent,  \* has the relay sent data since it last received anything
    network,    \* do packets arrive
    refusals,   \* refusals (401) since the relay last heard of the device, or its start
    healthy     \* seconds since something last failed or was given up

nodeVars == <<node, nodeTimer, nodeSent>>
relayVars == <<entry, relayTimer, pingTimer, relaySent>>
vars == <<nodeVars, relayVars, network, refusals, healthy>>

\* Where both sides are, and what their timers can show.
TimersOK ==
    /\ node \in {"off", "dial", "up", "sleep"}
    /\ nodeTimer \in 0..(IF node = "sleep" THEN Retry ELSE Idle)
    /\ entry \in {"none", "current", "ghost", "held"}
    /\ entry = "current" => node = "up"
    /\ relayTimer \in 0..Idle
    /\ pingTimer \in 0..KeepAlive
    /\ refusals \in Nat
    /\ healthy \in 0..Horizon

FlagsOK == {nodeSent, relaySent, network} \subseteq BOOLEAN

TypeOK == TimersOK /\ FlagsOK

Init ==
    /\ node = "off"
    /\ nodeTimer = 0
    /\ nodeSent = FALSE
    /\ entry = "none"
    /\ relayTimer = 0
    /\ pingTimer = 0
    /\ relaySent = FALSE
    /\ network = TRUE
    /\ refusals = 0
    /\ healthy = 0

\* The device's connection is over; the relay has not noticed yet.
Ghost == entry' = IF entry \in {"current", "held"} THEN "ghost" ELSE entry

\* A packet of the live connection has gone each way: all timers start again.
Refresh ==
    /\ nodeTimer' = Idle
    /\ relayTimer' = Idle
    /\ pingTimer' = KeepAlive
    /\ nodeSent' = FALSE
    /\ relaySent' = FALSE

Reachable == network /\ entry = "current"

(***************************************************************************)
(* The device: quic_node_run and run_diy_stream.                           *)
(***************************************************************************)

\* Mistakes the code avoids: hardly any wait between two runs, and too long a one.
RetryWait_None == 1
RetryWait_Doubled == 2 * Retry

RetryWait == Retry

IdlesOut == node = "up" /\ nodeTimer = 0

Sleep ==
    /\ node' = "sleep"
    /\ nodeTimer' = RetryWait
    /\ nodeSent' = FALSE

Dial ==
    /\ \/ node = "off"
       \/ node = "sleep" /\ nodeTimer = 0
    /\ node' = "dial"
    /\ nodeTimer' = Idle
    /\ UNCHANGED <<nodeSent, relayVars, network, refusals, healthy>>

\* The labels are free: the device is registered.
Register ==
    /\ node = "dial"
    /\ network
    /\ entry = "none"
    /\ node' = "up"
    /\ entry' = "current"
    /\ Refresh
    /\ refusals' = 0
    /\ UNCHANGED <<network, healthy>>

\* The labels are taken, by an earlier connection of this device: the relay
\* closes with code 401, accept_bi fails, node_run returns -20.
Refused ==
    /\ node = "dial"
    /\ network
    /\ entry \in {"ghost", "held"}
    /\ Sleep
    /\ refusals' = refusals + 1
    /\ UNCHANGED <<relayVars, network, healthy>>

\* The handshake times out (-14), or an established connection does (-20).
RunFails ==
    /\ \/ node = "dial" /\ nodeTimer = 0
       \/ IdlesOut
    /\ Sleep
    /\ Ghost
    /\ UNCHANGED <<relayTimer, pingTimer, relaySent, network, refusals, healthy>>

\* A cell of the p2p list returns, and with it the run (select_all, select!).
RunEnds ==
    /\ P2pBuilt
    /\ node = "up"
    /\ Sleep
    /\ entry' = IF entry = "current" THEN "held" ELSE entry
    /\ healthy' = 0
    /\ UNCHANGED <<relayTimer, pingTimer, relaySent, network, refusals>>

(***************************************************************************)
(* The past connection, while the thread runs the tasks again.             *)
(***************************************************************************)

\* Its packets are read before its idle timer is looked at: the relay hears of it.
HeldAnswers ==
    /\ entry = "held" /\ node = "dial" /\ network
    /\ relayTimer' = Idle /\ pingTimer' = KeepAlive /\ relaySent' = FALSE
    /\ refusals' = 0
    /\ UNCHANGED <<nodeVars, entry, network, healthy>>

\* Its last session is over, or was when the run ended, and it is closed; or its
\* idle timer fires, and the relay is not told.
HeldDropped ==
    /\ entry = "held" /\ node = "dial"
    /\ \/ entry' = "ghost" /\ UNCHANGED <<relayTimer, pingTimer, relaySent>>
       \/ /\ network /\ entry' = "none"
          /\ relayTimer' = 0 /\ pingTimer' = 0 /\ relaySent' = FALSE
    /\ healthy' = 0
    /\ UNCHANGED <<nodeVars, network, refusals>>

(***************************************************************************)
(* Packets.                                                                *)
(***************************************************************************)

\* The relay sends a keep-alive or a browser's data on the entry's connection.
RelaySends ==
    /\ entry # "none"
    /\ UNCHANGED <<node, entry, network, refusals, healthy>>
    /\ \/ Reachable /\ Refresh
       \/ /\ ~Reachable
          /\ pingTimer' = KeepAlive
          /\ relayTimer' = IF relaySent THEN relayTimer ELSE Idle
          /\ relaySent' = TRUE
          /\ UNCHANGED <<nodeTimer, nodeSent>>

\* The device sends an answer of a service.
NodeSends ==
    /\ node = "up"
    /\ UNCHANGED <<node, entry, network, refusals, healthy>>
    /\ \/ Reachable /\ Refresh
       \/ /\ ~Reachable
          /\ nodeTimer' = IF nodeSent THEN nodeTimer ELSE Idle
          /\ nodeSent' = TRUE
          /\ UNCHANGED <<relayTimer, pingTimer, relaySent>>

\* conn.closed() returns on the relay, and the entry is removed.
RelayIdles ==
    /\ entry # "none"
    /\ relayTimer = 0
    /\ entry' = "none"
    /\ relaySent' = FALSE
    /\ pingTimer' = 0
    /\ healthy' = IF entry = "held" THEN 0 ELSE healthy
    /\ UNCHANGED <<nodeVars, relayTimer, network, refusals>>

(***************************************************************************)
(* Failures.                                                               *)
(***************************************************************************)

\* The device is switched off or its process killed: nobody is told.
Crash ==
    /\ node # "off"
    /\ node' = "off"
    /\ nodeTimer' = 0
    /\ nodeSent' = FALSE
    /\ Ghost
    /\ refusals' = 0
    /\ healthy' = 0
    /\ UNCHANGED <<relayTimer, pingTimer, relaySent, network>>

\* The relay forgets everything; the device goes on until it idles out.
RelayRestart ==
    /\ entry # "none"
    /\ entry' = "none"
    /\ relayTimer' = 0
    /\ pingTimer' = 0
    /\ relaySent' = FALSE
    /\ healthy' = 0
    /\ UNCHANGED <<nodeVars, network, refusals>>

NetworkFails ==
    /\ network
    /\ network' = FALSE
    /\ healthy' = 0
    /\ UNCHANGED <<nodeVars, relayVars, refusals>>

NetworkHeals ==
    /\ ~network
    /\ network' = TRUE
    /\ UNCHANGED <<nodeVars, relayVars, refusals, healthy>>

(***************************************************************************)
(* Time.  Nothing that is due, and no handshake with a relay that can be   *)
(* reached, waits for the next second.                                     *)
(***************************************************************************)
Due ==
    \/ node \in {"dial", "up", "sleep"} /\ nodeTimer = 0
    \/ node = "dial" /\ network /\ entry # "current"
    \/ entry # "none" /\ (relayTimer = 0 \/ pingTimer = 0)

Down(n) == IF n = 0 THEN 0 ELSE n - 1

Tick ==
    /\ ~Due
    /\ nodeTimer' = Down(nodeTimer)
    /\ relayTimer' = Down(relayTimer)
    /\ pingTimer' = Down(pingTimer)
    /\ healthy' = IF network /\ node # "off" /\ healthy < Horizon THEN healthy + 1 ELSE healthy
    /\ UNCHANGED <<node, nodeSent, entry, relaySent, network, refusals>>

Next ==
    \/ Dial
    \/ Register
    \/ Refused
    \/ RunFails
    \/ RunEnds
    \/ HeldAnswers
    \/ HeldDropped
    \/ RelaySends
    \/ NodeSends
    \/ RelayIdles
    \/ Crash
    \/ RelayRestart
    \/ NetworkFails
    \/ NetworkHeals
    \/ Tick

Spec == Init /\ [][Next]_vars

\* A past connection of a device that the relay does not hear of any more keeps
\* the device out at most twice: the wait of quic_node_run outlasts what is left
\* of the relay's idle timer.
RefusedAtMostTwice == refusals <= 2

\* When nothing has failed for the horizon, the device is online, or a session of
\* a run that has ended keeps the connection of that run, and with it the labels.
BackOnline == healthy = Horizon => entry \in {"current", "held"}

\* A device that waits longer than the idle timeout after a refusal is let in.
LetInAfterIdleTimeout == Retry > Idle => refusals <= 1
==============================================================================
