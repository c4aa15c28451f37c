------------------------------- MODULE Tunnel --------------------------------
(***************************************************************************)
(* One browser session from end to end: the browser's request is peeked by *)
(* the relay (handle_client), announced and copied to the device on a new  *)
(* QUIC stream (translate), peeked again by the device's node (handle_bi), *)
(* perhaps rewritten, and copied to the service the node dials; the answer *)
(* comes back the same way.                                                *)
(*                                                                         *)
(* Both peeks keep what they read in a peek_buf in front of the stream     *)
(* (PeekableStream on the relay, Stream on the node), one byte per read.   *)
(* A stream is a sequence of tokens: one for the first line with the other *)
(* header lines, one for the blank line that ends the header, some for     *)
(* what follows; a label is one, and so is the part of it that a write cut *)
(* short leaves.  Reading at the end of a stream leaves FIN where it is.   *)
(*                                                                         *)
(* The registry is Registry's subject: here translate finds the device or  *)
(* it does not.  The build is the one without the p2p feature.             *)
(***************************************************************************)
EXTENDS Naturals, Sequences, SequencesExt

CONSTANTS
    Requests,     \* what browsers may ask for: see RequestType
    Macs,         \* device labels
    Addrs,        \* socket addresses
    Route,        \* the node's proxy_list: the address behind each of its labels
    ServerAddr,   \* the relay's own address
    NoLabel,      \* no SNI, no Host header
    NotMac,       \* a host name whose first part is not a label
    NoAddr,       \* a name that does not resolve; nothing dialled
    MaxAnswer     \* bound: tokens in the answer of a service

Label == Macs \cup {NoLabel, NotMac}
Lines == {"GET", "CONNECT", "PROXY", "RTSP", "JUNK", "LONG", "CUT", "CUTPROXY"}

\* PROXY is a method other than CONNECT with a Proxy-Connection header, RTSP an
\* OPTIONS request of RTSP/1.0, JUNK a first line without its three parts, LONG
\* the first 64 KiB of a header that goes on.  CUT is what is left of a first line
\* when some bytes of its method are gone, CUTPROXY the same of a PROXY.
RequestType ==
    [tls : BOOLEAN, line : Lines, complete : BOOLEAN, data : Nat,
     sni : Label, host : Label, uri : Label, dest : Addrs \cup {NoAddr}]

ASSUME TunnelAssumption ==
    /\ Requests \subseteq RequestType
    /\ ServerAddr \in Addrs
    /\ NoAddr \notin Addrs
    /\ {NoLabel, NotMac} \cap Macs = {}
    /\ DOMAIN Route \subseteq Macs
    /\ \A m \in DOMAIN Route : Route[m] \in Addrs \cup {NoAddr}
    /\ MaxAnswer \in Nat

VARIABLES
    req,        \* the request, one of Requests
    toRelay,    \* sent by the browser, not yet read by the relay
    relayBuf,   \* peek_buf of the relay's PeekableStream
    relay,      \* where handle_client is
    toNode,     \* on the QUIC stream, not yet read by the node
    nodeBuf,    \* peek_buf of the node's Stream
    node,       \* where handle_bi is
    macRead,    \* the label the node read, and what is left of a line it took bytes from
    dialled,    \* the address the node has connected to
    toService,  \* everything the service has received
    said,       \* everything the service has sent
    fromService,\* sent by the service, not yet read by the node
    toBack,     \* written by the node on the QUIC stream, not yet read by the relay
    toBrowser,  \* everything the browser has received
    linkUp      \* is the QUIC connection alive

relayVars == <<toRelay, relayBuf, relay>>
nodeVars == <<nodeBuf, node, macRead, dialled>>
serviceVars == <<toService, said, fromService>>
vars == <<req, relayVars, toNode, nodeVars, serviceVars, toBack, toBrowser, linkUp>>

Line(k) == <<"line", k>>
END == <<"end", "">>
FIN == <<"fin", "">>
Reply(code) == <<"reply", code>>
Body(n) == [i \in 1..n |-> <<"body", i>>]
Mac(m) == <<"mac", m>>    \* the six bytes of a label
Part(m) == <<"part", m>>  \* its first bytes, fewer than six

\* What the browser writes.
Script(q) == <<Line(q.line)>> \o (IF q.complete THEN <<END>> \o Body(q.data) ELSE <<>>)

Ended(s) == s # <<>> /\ Last(s) = FIN
Readable(s) == IF Ended(s) THEN Len(s) - 1 ELSE Len(s)
Content(s) == SubSeq(s, 1, Readable(s))
Rest(s) == IF Head(s) = FIN THEN s ELSE Tail(s)
Close(s) == IF Ended(s) THEN s ELSE Append(s, FIN)

Tokens ==
    {END, FIN} \cup {Line(k) : k \in Lines} \cup {Reply(c) : c \in {"200", "400", "offline"}}
    \cup ({"body", "answer"} \X Nat) \cup ({"mac", "part"} \X Macs)

TypeOK ==
    /\ req \in Requests
    /\ relay \in {"header", "route", "announce", "copy", "closed"}
    /\ node \in {"none", "mac", "header", "dial", "copy", "closed"}
    /\ \A s \in {toRelay, relayBuf, toNode, nodeBuf, macRead, toService, said,
                 fromService, toBack, toBrowser} :
           /\ s \in Seq(Tokens)
           /\ \A i \in 1..Len(s) : s[i] = FIN => i = Len(s)
    /\ ~Ended(relayBuf) /\ ~Ended(nodeBuf)
    /\ dialled \in Addrs \cup {NoAddr}
    /\ linkUp \in BOOLEAN

Init ==
    /\ req \in Requests
    /\ toRelay = Script(req)
    /\ relay = "header"
    /\ node = "none"
    /\ dialled = NoAddr
    /\ linkUp = TRUE
    /\ relayBuf = <<>>
    /\ toNode = <<>>
    /\ nodeBuf = <<>>
    /\ macRead = <<>>
    /\ toService = <<>>
    /\ said = <<>>
    /\ fromService = <<>>
    /\ toBack = <<>>
    /\ toBrowser = <<>>

(***************************************************************************)
(* peek_header: read byte by byte into the buffer until the blank line or  *)
(* the end of the stream, and no more than 64 KiB.                         *)
(***************************************************************************)
TooLong(buf) == buf # <<>> /\ buf[1] = Line("LONG")

\* A mistake the code avoids: waiting for the blank line after the end of the stream.
HeaderRead_NoEof(buf, input) == buf # <<>> /\ Last(buf) = END

HeaderRead(buf, input) ==
    \/ buf # <<>> /\ Last(buf) = END
    \/ input # <<>> /\ Head(input) = FIN

\* A mistake the code avoids: reading as much as there is instead of a byte.
PeekWidth_All(input) == Readable(input)

PeekWidth(input) == 1

Keep(buf, read) == buf \o read

\* The header parses when its first line has three parts.
Parses(buf) == buf # <<>> /\ buf[1] # Line("JUNK")

(***************************************************************************)
(* The relay: handle_client, then translate.                               *)
(***************************************************************************)

\* handle_client or translate returns: the browser's connection and the QUIC
\* stream are dropped.  The node sees the end of the stream.
RelayReturns(answer) ==
    /\ relay' = "closed"
    /\ toBrowser' = Close(toBrowser \o answer)
    /\ toNode' = IF relay = "copy" THEN Close(toNode) ELSE toNode

RelayPeek ==
    /\ relay = "header"
    /\ ~HeaderRead(relayBuf, toRelay) /\ ~TooLong(relayBuf)
    /\ toRelay # <<>>
    /\ LET n == PeekWidth(toRelay)
       IN  /\ relayBuf' = Keep(relayBuf, SubSeq(toRelay, 1, n))
           /\ toRelay' = SubSeq(toRelay, n + 1, Len(toRelay))
    /\ UNCHANGED <<req, relay, toNode, nodeVars, serviceVars, toBack, toBrowser, linkUp>>

\* A mistake the code avoids: a header of any length is waited for.
HeaderTooLong_ReadOn ==
    /\ relay = "header"
    /\ TooLong(relayBuf)
    /\ UNCHANGED vars

\* A panic ends the task; in the release profile it ends the relay, and the link
\* with it.
HeaderTooLong ==
    /\ relay = "header"
    /\ TooLong(relayBuf)
    /\ RelayReturns(<<>>)
    /\ linkUp' \in {linkUp, FALSE}
    /\ UNCHANGED <<req, toRelay, relayBuf, nodeVars, serviceVars, toBack>>

RejectedMethod(q) == q.line = "CONNECT" /\ ~q.tls

\* The label: from the URI for RTSP, otherwise from the SNI or else the Host
\* header, which has to be there even when the SNI is used.
LabelOf(q) ==
    IF q.line = "RTSP" THEN q.uri
    ELSE IF q.host = NoLabel THEN NoLabel
    ELSE IF q.tls /\ q.sni # NoLabel THEN q.sni
    ELSE q.host

Accepted(q) == ~RejectedMethod(q) /\ LabelOf(q) \in Macs

RelayRejects ==
    /\ relay = "header"
    /\ HeaderRead(relayBuf, toRelay) /\ ~TooLong(relayBuf)
    /\ \/ ~Parses(relayBuf) /\ RelayReturns(<<>>)
       \/ Parses(relayBuf) /\ RejectedMethod(req) /\ RelayReturns(<<Reply("400")>>)
       \/ /\ Parses(relayBuf) /\ ~RejectedMethod(req)
          /\ ~Accepted(req)
          /\ RelayReturns(<<>>)
    /\ UNCHANGED <<req, toRelay, relayBuf, nodeVars, serviceVars, toBack, linkUp>>

RelayAccepts ==
    /\ relay = "header"
    /\ HeaderRead(relayBuf, toRelay) /\ ~TooLong(relayBuf)
    /\ Parses(relayBuf)
    /\ Accepted(req)
    /\ relay' = "route"
    /\ UNCHANGED <<req, toRelay, relayBuf, toNode, nodeVars, serviceVars, toBack,
                   toBrowser, linkUp>>

\* The device is not in the map, or its connection is gone.
RelayOffline ==
    /\ relay = "route"
    /\ RelayReturns(<<Reply("offline")>>)
    /\ UNCHANGED <<req, toRelay, relayBuf, nodeVars, serviceVars, toBack, linkUp>>

RelayOpens ==
    /\ relay = "route"
    /\ linkUp
    /\ relay' = "announce"
    /\ UNCHANGED <<req, toRelay, relayBuf, toNode, nodeVars, serviceVars, toBack,
                   toBrowser, linkUp>>

\* One call of write, which may take the first bytes of the label only, when the
\* connection's send window has no room for more.
RelayAnnounces ==
    /\ relay = "announce"
    /\ linkUp
    /\ \E t \in {Mac(LabelOf(req)), Part(LabelOf(req))} : toNode' = Append(toNode, t)
    /\ relay' = "copy"
    /\ node' = "mac"
    /\ UNCHANGED <<req, toRelay, relayBuf, nodeBuf, macRead, dialled, serviceVars,
                   toBack, toBrowser, linkUp>>

\* copy_bidirectional, browser to device: the buffer first, then the stream.
RelayForwards ==
    /\ relay = "copy"
    /\ linkUp
    /\ ~Ended(toNode)
    /\ \/ /\ relayBuf # <<>>
          /\ node # "closed"
          /\ toNode' = Append(toNode, Head(relayBuf))
          /\ relayBuf' = Tail(relayBuf)
          /\ UNCHANGED toRelay
       \/ /\ relayBuf = <<>>
          /\ toRelay # <<>>
          /\ node = "closed" => Head(toRelay) = FIN
          /\ toNode' = Append(toNode, Head(toRelay))
          /\ toRelay' = Rest(toRelay)
          /\ UNCHANGED relayBuf
    /\ UNCHANGED <<req, relay, nodeVars, serviceVars, toBack, toBrowser, linkUp>>

\* copy_bidirectional, device to browser.
RelayReturnsAnswer ==
    /\ relay = "copy"
    /\ linkUp
    /\ toBack # <<>>
    /\ ~Ended(toBrowser)
    /\ toBrowser' = Append(toBrowser, Head(toBack))
    /\ toBack' = Rest(toBack)
    /\ UNCHANGED <<req, relayVars, toNode, nodeVars, serviceVars, linkUp>>

\* Both directions of the copy are at their end.
RelayDone ==
    /\ relay = "copy"
    /\ Ended(toNode)
    /\ Ended(toBrowser)
    /\ RelayReturns(<<>>)
    /\ UNCHANGED <<req, toRelay, relayBuf, nodeVars, serviceVars, toBack, linkUp>>

\* The connection is lost, the node has given up the stream while the browser
\* still sends, or the browser resets its side: an error ends both directions.
RelayFails ==
    /\ \/ relay \in {"announce", "copy"} /\ ~linkUp
       \/ /\ relay = "copy"
          /\ node = "closed"
          /\ Content(relayBuf \o toRelay) # <<>>
    /\ RelayReturns(<<>>)
    /\ UNCHANGED <<req, toRelay, relayBuf, nodeVars, serviceVars, toBack, linkUp>>

BrowserResets ==
    /\ relay \in {"header", "copy"}
    /\ RelayReturns(<<>>)
    /\ toRelay' = Close(toRelay)
    /\ UNCHANGED <<req, relayBuf, nodeVars, serviceVars, toBack, linkUp>>

(***************************************************************************)
(* The node: handle_bi, with new_diy_stream of ProxyStringList.            *)
(***************************************************************************)

\* A mistake the code avoids: the stream stays open when the task is over.
NodeReturns_NoClose(answer) ==
    /\ node' = "closed"
    /\ toBack' = toBack \o answer
    /\ toService' = IF dialled = NoAddr THEN toService ELSE Close(toService)
    /\ UNCHANGED <<req, relayVars, dialled, said, fromService, toBrowser, linkUp>>

\* handle_bi returns: the QUIC stream and the service's connection are dropped.
NodeReturns(answer) ==
    /\ node' = "closed"
    /\ toBack' = Close(toBack \o answer)
    /\ toService' = IF dialled = NoAddr THEN toService ELSE Close(toService)
    /\ UNCHANGED <<req, relayVars, dialled, said, fromService, toBrowser, linkUp>>

\* How a first line may read without its first bytes, five at the most: a word is
\* gone, or the method is another one, and not CONNECT.  A CONNECT with a
\* Proxy-Connection header has no URL then, and ends as JUNK does.
Leftovers(k) == {"JUNK", IF k \in {"PROXY", "CUTPROXY"} THEN "CUTPROXY" ELSE "CUT"}

\* read_exact of six bytes: the label; or the part of it that was written with as
\* many bytes of the request as it takes, which together may be any label.
ReadsLabel ==
    \/ /\ Readable(toNode) >= 1
       /\ \E m \in Macs : Head(toNode) = Mac(m)
       /\ macRead' = <<Head(toNode)>>
       /\ toNode' = Tail(toNode)
    \/ /\ Readable(toNode) >= 2
       /\ \E m \in Macs : Head(toNode) = Part(m)
       /\ \E m \in Macs, k \in Leftovers(req.line) :
              /\ macRead' = <<Mac(m), Line(k)>>
              /\ toNode' = <<Line(k)>> \o SubSeq(toNode, 3, Len(toNode))

\* The label is read past the buffer, as it comes before any peek.
NodeReadsMac ==
    /\ node = "mac"
    /\ linkUp
    /\ ReadsLabel
    /\ UNCHANGED nodeBuf
    /\ \/ /\ macRead'[1][2] \in DOMAIN Route
          /\ node' = "header"
          /\ UNCHANGED <<req, relayVars, dialled, serviceVars, toBack, toBrowser, linkUp>>
       \/ /\ macRead'[1][2] \notin DOMAIN Route
          /\ NodeReturns(<<Reply("400")>>)

\* The stream ends before the six bytes.
NodeMacTruncated ==
    /\ node = "mac"
    /\ linkUp
    /\ Ended(toNode)
    /\ \/ Readable(toNode) = 0
       \/ Readable(toNode) = 1 /\ \E m \in Macs : Head(toNode) = Part(m)
    /\ NodeReturns(<<Reply("400")>>)
    /\ UNCHANGED <<toNode, nodeBuf, macRead>>

\* The request as the node gets it: without the bytes it took for the label.
Asked == [req EXCEPT !.line = IF Len(macRead) = 2 THEN macRead[2][2] ELSE @]

NodePeek ==
    /\ node = "header"
    /\ linkUp
    /\ ~HeaderRead(nodeBuf, toNode)
    /\ toNode # <<>>
    /\ LET n == PeekWidth(toNode)
       IN  /\ nodeBuf' = Keep(nodeBuf, SubSeq(toNode, 1, n))
           /\ toNode' = SubSeq(toNode, n + 1, Len(toNode))
    /\ UNCHANGED <<req, relayVars, node, macRead, dialled, serviceVars, toBack,
                   toBrowser, linkUp>>

NodeRejects ==
    /\ node = "header"
    /\ linkUp
    /\ HeaderRead(nodeBuf, toNode)
    /\ ~Parses(nodeBuf)
    /\ NodeReturns(<<>>)
    /\ UNCHANGED <<toNode, nodeBuf, macRead>>

\* peek_remove for CONNECT, reset_header for an old proxy request, and the
\* header as it came for everything else.
Rewritten(buf) ==
    CASE buf[1] = Line("CONNECT") -> <<>>
      [] buf[1] = Line("PROXY") -> <<Line("GET"), END>>
      [] buf[1] = Line("CUTPROXY") -> <<Line("CUT"), END>>
      [] OTHER -> buf

\* A mistake the code avoids: "200" before the service is reached.
NodeDispatches_EarlyOk ==
    /\ node = "header"
    /\ linkUp
    /\ HeaderRead(nodeBuf, toNode)
    /\ Parses(nodeBuf)
    /\ nodeBuf' = Rewritten(nodeBuf)
    /\ toBack' = IF Asked.line = "CONNECT" THEN <<Reply("200")>> ELSE toBack
    /\ node' = "dial"
    /\ UNCHANGED <<req, relayVars, toNode, macRead, dialled, serviceVars, toBrowser, linkUp>>

NodeDispatches ==
    /\ node = "header"
    /\ linkUp
    /\ HeaderRead(nodeBuf, toNode)
    /\ Parses(nodeBuf)
    /\ nodeBuf' = Rewritten(nodeBuf)
    /\ node' = "dial"
    /\ UNCHANGED <<req, relayVars, toNode, macRead, dialled, serviceVars, toBack,
                   toBrowser, linkUp>>

\* A proxy request: the address is in the header.
ByHeader(q) == q.line \in {"CONNECT", "PROXY", "CUTPROXY"}

\* A mistake the code avoids: every label goes to the first entry of the list.
Target_FirstEntry(q, mac) ==
    IF ByHeader(q) THEN q.dest ELSE Route[CHOOSE m \in DOMAIN Route : TRUE]

\* The address in the header for the proxy methods, the entry of the label in
\* the proxy_list for the others.
Target(q, mac) == IF ByHeader(q) THEN q.dest ELSE Route[mac]

\* The service is reached; only then does a CONNECT get its answer.
NodeDials ==
    /\ node = "dial"
    /\ linkUp
    /\ LET target == Target(Asked, macRead[1][2])
       IN  /\ target \notin {NoAddr, ServerAddr}
           /\ dialled' = target
    /\ toBack' = IF Asked.line = "CONNECT" THEN Append(toBack, Reply("200")) ELSE toBack
    /\ node' = "copy"
    /\ UNCHANGED <<req, relayVars, toNode, nodeBuf, macRead, serviceVars, toBrowser, linkUp>>

\* No such name, the relay itself, or no connection.
NodeDialFails ==
    /\ node = "dial"
    /\ NodeReturns(<<>>)
    /\ UNCHANGED <<toNode, nodeBuf, macRead>>

\* copy_bidirectional, browser to service: the buffer first, then the stream.
NodeForwards ==
    /\ node = "copy"
    /\ linkUp
    /\ ~Ended(toService)
    /\ \/ /\ nodeBuf # <<>>
          /\ toService' = Append(toService, Head(nodeBuf))
          /\ nodeBuf' = Tail(nodeBuf)
          /\ UNCHANGED toNode
       \/ /\ nodeBuf = <<>>
          /\ toNode # <<>>
          /\ toService' = Append(toService, Head(toNode))
          /\ toNode' = Rest(toNode)
          /\ UNCHANGED nodeBuf
    /\ UNCHANGED <<req, relayVars, node, macRead, dialled, said, fromService, toBack,
                   toBrowser, linkUp>>

\* copy_bidirectional, service to browser.
NodeReturnsAnswer ==
    /\ node = "copy"
    /\ linkUp
    /\ fromService # <<>>
    /\ relay = "closed" => Head(fromService) = FIN
    /\ ~Ended(toBack)
    /\ toBack' = Append(toBack, Head(fromService))
    /\ fromService' = Rest(fromService)
    /\ UNCHANGED <<req, relayVars, toNode, nodeVars, toService, said, toBrowser, linkUp>>

NodeDone ==
    /\ node = "copy"
    /\ Ended(toService)
    /\ Ended(toBack)
    /\ NodeReturns(<<>>)
    /\ UNCHANGED <<toNode, nodeBuf, macRead>>

\* The connection is lost, or there is nobody left to write to: the service has
\* closed while the browser still sends, or the relay has given up the stream
\* while the service still sends.
NodeFails ==
    /\ \/ node \in {"mac", "header", "dial", "copy"} /\ ~linkUp
       \/ node = "copy" /\ Ended(said) /\ Content(nodeBuf \o toNode) # <<>>
       \/ node = "copy" /\ relay = "closed" /\ Content(fromService) # <<>>
    /\ NodeReturns(<<>>)
    /\ UNCHANGED <<toNode, nodeBuf, macRead>>

(***************************************************************************)
(* The browser, the service and the network.                               *)
(***************************************************************************)

BrowserCloses ==
    /\ ~Ended(toRelay)
    /\ toRelay' = Append(toRelay, FIN)
    /\ UNCHANGED <<req, relayBuf, relay, toNode, nodeVars, serviceVars, toBack,
                   toBrowser, linkUp>>

ServiceSends(t) ==
    /\ node = "copy"
    /\ ~Ended(said)
    /\ said' = Append(said, t)
    /\ fromService' = Append(fromService, t)
    /\ UNCHANGED <<req, relayVars, toNode, nodeVars, toService, toBack, toBrowser, linkUp>>

ServiceAnswers == Len(said) < MaxAnswer /\ ServiceSends(<<"answer", Len(said)>>)

ServiceCloses == ServiceSends(FIN)

LinkLost ==
    /\ linkUp
    /\ linkUp' = FALSE
    /\ UNCHANGED <<req, relayVars, toNode, nodeVars, serviceVars, toBack, toBrowser>>

Over == relay = "closed" /\ node \in {"none", "closed"}

\* The session is over: nothing is left to do.
Finished == Over /\ Ended(toRelay) /\ ~linkUp /\ UNCHANGED vars

RelayNext ==
    \/ RelayPeek
    \/ HeaderTooLong
    \/ RelayRejects
    \/ RelayAccepts
    \/ RelayOffline
    \/ RelayOpens
    \/ RelayAnnounces
    \/ RelayForwards
    \/ RelayReturnsAnswer
    \/ RelayDone
    \/ RelayFails

NodeNext ==
    \/ NodeReadsMac
    \/ NodeMacTruncated
    \/ NodePeek
    \/ NodeRejects
    \/ NodeDispatches
    \/ NodeDials
    \/ NodeDialFails
    \/ NodeForwards
    \/ NodeReturnsAnswer
    \/ NodeDone
    \/ NodeFails

Next ==
    \/ RelayNext
    \/ NodeNext
    \/ BrowserCloses
    \/ BrowserResets
    \/ ServiceAnswers
    \/ ServiceCloses
    \/ LinkLost
    \/ Finished

Spec == Init /\ [][Next]_vars

(***************************************************************************)
(* Fairness: the tasks run, each direction of a copy goes on when it can,  *)
(* a connect ends; a browser closes after the end of its answer, a service *)
(* answers, and closes after the end of its request.                       *)
(***************************************************************************)
FairSpec ==
    /\ Spec
    /\ WF_vars(RelayPeek \/ HeaderTooLong \/ RelayRejects \/ RelayAccepts)
    /\ WF_vars(RelayOffline \/ RelayOpens)
    /\ WF_vars(RelayAnnounces)
    /\ WF_vars(RelayForwards)
    /\ WF_vars(RelayReturnsAnswer)
    /\ WF_vars(RelayDone \/ RelayFails)
    /\ WF_vars(NodeReadsMac \/ NodeMacTruncated)
    /\ WF_vars(NodePeek \/ NodeRejects \/ NodeDispatches)
    /\ WF_vars(NodeDials \/ NodeDialFails)
    /\ WF_vars(NodeForwards)
    /\ WF_vars(NodeReturnsAnswer)
    /\ WF_vars(NodeDone \/ NodeFails)
    /\ WF_vars(Ended(toBrowser) /\ BrowserCloses)
    /\ WF_vars(ServiceAnswers)
    /\ WF_vars(Ended(toService) /\ ServiceCloses)

(***************************************************************************)
(* Safety                                                                  *)
(***************************************************************************)

\* What a service is meant to receive of a request.
Entitled(q) ==
    LET body == IF q.complete THEN Body(q.data) ELSE <<>>
    IN  CASE q.line = "CONNECT" -> body
          [] q.line = "PROXY" -> <<Line("GET"), END>> \o body
          [] q.line = "CUTPROXY" -> <<Line("CUT"), END>> \o body
          [] OTHER -> Script(q)

\* Through two peeks and a rewrite, the service gets what it is entitled to, in
\* order, nothing twice, and when both sides have come to the end nothing is
\* missing: a body that arrived in one piece with its header is not lost, and a
\* CONNECT header is not passed on.  After a label cut short it is the request
\* without the bytes that completed the label, and no other byte is missing.
ServiceExact ==
    /\ IsPrefix(Content(toService), Entitled(Asked))
    /\ /\ node = "copy" /\ Ended(toService)
       /\ relayBuf = <<>> /\ toRelay = <<FIN>>
       => Content(toService) = Entitled(Asked)

\* The browser gets one of the error pages or what the service said, after a
\* "200" if and only if the node is asked for a tunnel and the service is reached.
BrowserExact ==
    LET seen == Content(toBrowser)
        opening == IF Asked.line = "CONNECT" THEN <<Reply("200")>> ELSE <<>>
    IN  \/ seen = <<>>
        \/ dialled = NoAddr /\ seen \in {<<Reply("400")>>, <<Reply("offline")>>}
        \/ dialled # NoAddr /\ IsPrefix(seen, opening \o Content(said))

\* A node that got the label whole dials only what the browser asked of it: the
\* address in a proxy request, otherwise the service listed for the label in the
\* browser's URL.  After a label cut short it may be any service of its list.  It is
\* never the relay, which would come back to the same node.
DialsAskedTarget ==
    dialled # NoAddr =>
        /\ dialled # ServerAddr
        /\ dialled = req.dest \/ \E m \in DOMAIN Route : dialled = Route[m]
        /\ Len(macRead) = 1 =>
              /\ LabelOf(req) \in DOMAIN Route
              /\ dialled = IF ByHeader(req) THEN req.dest ELSE Route[LabelOf(req)]

\* The first bytes of every stream to a node tell it the label, whole.
LabelAnnounced ==
    macRead # <<>> => macRead = <<Mac(LabelOf(req))>>

(***************************************************************************)
(* Liveness                                                                *)
(***************************************************************************)

\* A browser whose request was passed on is told something, an answer or the
\* end, also when the device, the service or the link fails.
Answered == relay = "copy" ~> toBrowser # <<>>

\* When the browser has gone, has its whole answer, or sends a header without an
\* end, neither the relay nor the node keeps a task for the session.
Released == Ended(toRelay) \/ Ended(toBrowser) \/ TooLong(relayBuf) ~> Over
==============================================================================
