------------------------------ MODULE MCTunnel -------------------------------
\* Requests for Tunnel: one of each way through the relay and the node, with a
\* body that is sent together with the header.
EXTENDS Tunnel

CONSTANTS m1, m2, m3, a1, a2, relayAddr

\* Behind m1 and m2 is a service each, m3 is another device's.
MCRoute == [m \in {m1, m2} |-> IF m = m1 THEN a1 ELSE a2]

Ask(line, tls, sni, host, dest) ==
    [tls |-> tls, line |-> line, complete |-> TRUE, data |-> 2,
     sni |-> sni, host |-> host, uri |-> NoLabel, dest |-> dest]

Served == {
    Ask("GET", TRUE, m2, m1, NoAddr),
    Ask("GET", FALSE, NoLabel, m2, NoAddr),
    Ask("CONNECT", TRUE, m1, NotMac, a2),
    Ask("CONNECT", TRUE, m1, NotMac, relayAddr),
    Ask("PROXY", TRUE, m1, NotMac, a2),
    [Ask("RTSP", FALSE, NoLabel, NoLabel, NoAddr) EXCEPT !.uri = m1],
    [Ask("CONNECT", TRUE, m1, NotMac, a2) EXCEPT !.complete = FALSE],
    [Ask("PROXY", TRUE, m1, NotMac, a2) EXCEPT !.complete = FALSE]}

Refused == {
    Ask("JUNK", TRUE, m1, m1, NoAddr),
    [Ask("LONG", TRUE, m1, m1, NoAddr) EXCEPT !.complete = FALSE],
    Ask("CONNECT", FALSE, NoLabel, m1, a2),
    Ask("GET", TRUE, m1, NoLabel, NoAddr),
    Ask("GET", TRUE, m3, m3, NoAddr),
    Ask("GET", FALSE, NoLabel, NotMac, NoAddr),
    Ask("CONNECT", TRUE, m1, NotMac, NoAddr)}

MCRequests == Served \cup Refused
==============================================================================
