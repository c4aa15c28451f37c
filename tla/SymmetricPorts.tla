--------------------------- MODULE SymmetricPorts ----------------------------
(***************************************************************************)
(* Port prediction for a peer behind a symmetric NAT: symmetric_connect    *)
(* dials the observed port and the ones a NAT would give out next, going   *)
(* back to the start of the NAT's pool at its end.  Arithmetic is on u16:  *)
(* an intermediate value out of range wraps in the release build.          *)
(***************************************************************************)
EXTENDS Integers

\* The ports a socket address can be dialled at.
Port == {n \in Nat : 0 < n /\ n < 65536}

CONSTANTS
    StartPorts,   \* the observed ports considered
    PortLen       \* port_len: 1, or PORT_LEN = 1000

ASSUME PortsAssumption ==
    /\ StartPorts \subseteq Port
    /\ PortLen \in Nat \ {0}
    /\ PortLen <= 1000

VARIABLES
    port,   \* addr.port(), the port the server or the test server observed
    i       \* the loop counter: ports for 0..i-1 have been pushed to joins

vars == <<port, i>>

Wrap16(n) == n % 65536

\* First and last port of the pool that port p is taken to come from.  The arms
\* of the match overlap; the first that fits counts, so 16384 starts the third.
PoolEnd(p) ==
    IF p < 16384 THEN 65535
    ELSE IF p < 32768 THEN 32767
    ELSE IF p < 49152 THEN 60999 ELSE 65535

\* What is subtracted from a port whose offset runs past the end of the pool.
Rebase(p) ==
    IF p < 1025 THEN 0
    ELSE IF p < 16384 THEN 1025
    ELSE IF p < 32768 THEN 16384
    ELSE IF p < 49152 THEN 32768 ELSE 49152

\* A mistake the code avoids: going back to the start of the pool one port late.
PastEnd_OffByOne(p, k) == PoolEnd(p) - p < k - 1
\* A mistake the code avoids: a rebase to the observed port itself.
Candidate_SamePort(p, k) ==
    IF PoolEnd(p) - p < k THEN p ELSE Wrap16(p + k)

PastEnd(p, k) == PoolEnd(p) - p < k

\* The k-th port to dial, for the observed port p.
Candidate(p, k) ==
    IF PastEnd(p, k) THEN Wrap16(Wrap16(p - Rebase(p)) + k) ELSE Wrap16(p + k)

Init ==
    /\ port \in StartPorts
    /\ i = 0

\* A mistake the code avoids: one port too many (0..=port_len).
Push_Inclusive ==
    /\ i <= PortLen
    /\ i' = i + 1
    /\ UNCHANGED port

Push ==
    /\ i < PortLen
    /\ i' = i + 1
    /\ UNCHANGED port

\* All futures are in joins: select_all waits for the first to end.
SelectAll == i = PortLen /\ UNCHANGED vars

Next == Push \/ SelectAll

Spec == Init /\ [][Next]_vars

TypeOK == port \in Port /\ i \in 0..PortLen

\* The attempts are different: none of the futures is wasted on a port that is
\* already being dialled, also after going back to the start of the pool.
PortsDistinct ==
    \A k \in 0..(i - 1) : i < PortLen => Candidate(port, k) # Candidate(port, i)

\* Every attempt is at a port that can be dialled, and is computed without
\* leaving u16: quinn refuses port 0 at once, and select_all would return that
\* error before any other attempt had a chance.
PortsDialable ==
    i < PortLen =>
        /\ Candidate(port, i) \in Port
        /\ IF PastEnd(port, i) THEN port - Rebase(port) + i \in Port
                               ELSE port + i \in Port
==============================================================================
