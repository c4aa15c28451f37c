------------------------------- MODULE MCLaunch -------------------------------
\* Lists of none, one or two entries, with each field right, wrong, missing or of
\* another type (a port in quotes is the example in rwebc-demo/src/main.rs:27).
EXTENDS Launch

S(legal) == [type |-> "string", legal |-> legal]
U(scheme, host) == [type |-> "string", legal |-> TRUE, scheme |-> scheme, host |-> host]
N(value) == [type |-> "int", value |-> value]

GoodProxy == {[mac |-> S(TRUE), url |-> U(s, "name")] : s \in {"http", "rtsp"}}
BadProxy == {[mac |-> S(FALSE), url |-> U("http", "name")], [mac |-> S(TRUE), url |-> S(FALSE)],
             [mac |-> S(TRUE), url |-> U("http", "name"), weight |-> N(1)]}
GoodP2p == {[mac |-> S(TRUE), port |-> N(n)] : n \in {8080, 65535}}
BadP2p == {[mac |-> N(1), port |-> N(1)], [mac |-> S(TRUE)],
           [mac |-> S(TRUE), port |-> N(65536)], [mac |-> S(TRUE), port |-> S(TRUE)]}

ListsOf(good, bad) ==
    {Text("list", l) : l \in {<<>>} \cup {<<x>> : x \in good \cup bad}}
      \cup {Text("list", <<x, CHOOSE y \in bad : TRUE>>) : x \in good}

MCHosts == {"", "server.aaa.cn"}
MCProxyTexts == {Empty, Garbage} \cup ListsOf(GoodProxy, BadProxy)
MCP2pTexts == {Empty, Garbage} \cup ListsOf(GoodP2p, BadP2p)
==============================================================================
