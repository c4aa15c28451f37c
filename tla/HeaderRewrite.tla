---------------------------- MODULE HeaderRewrite ----------------------------
(***************************************************************************)
(* The Header type (parse, write) and the two that write one again: the    *)
(* tool proxy-change-header, which a browser may use as its proxy and      *)
(* which sets the Host to the device's address, and handle_bi of the node  *)
(* for an old-style proxy request: it drops the proxy's own line, asks for *)
(* "Connection: close" and cuts scheme and host from the URI.              *)
(*                                                                         *)
(* A header is a first line of words and other lines.  A line is cut at    *)
(* its colons: <<"Host", "h", "8080">> is "Host:h:8080".  A URI is a       *)
(* sequence of its parts: <<"http://", "h", ":8080", "/x">>.  Some texts   *)
(* are not UTF-8 (a name in Latin-1, say): a line with one of them in it   *)
(* is no line to the parser.  A Header keeps its lines in a hash map: one  *)
(* value for a name, written in any order.  White space, line ends and the *)
(* case of letters are left out.                                           *)
(***************************************************************************)
EXTENDS Naturals, Sequences, FiniteSets, SequencesExt, Places

CONSTANTS
    FirstLines,  \* the first lines considered, sequences of words
    Lines,       \* the other lines considered
    MaxLines,    \* bound: lines in a header
    Undecodable, \* the texts that are not UTF-8
    DeviceAddr,  \* device_addr of the tool, cut at its colon
    Schemes,     \* the parts of a URI that are a scheme
    Ports        \* the parts of a URI that are a port

\* std::str::from_utf8
Decodes(line) == \A k \in DOMAIN line : line[k] \notin Undecodable

ASSUME HeaderAssumption ==
    /\ MaxLines \in Nat
    /\ Lines \subseteq Seq(STRING) \ {<<>>}
    /\ DeviceAddr \in Seq(STRING) \ {<<>>} /\ Decodes(DeviceAddr)
    /\ {"Host", "Connection", "close"} \cap Undecodable = {}
    /\ \A f \in FirstLines : Len(f) \in Nat /\ DOMAIN f = 1..Len(f) /\ f[2] \in Seq(STRING)

VARIABLES
    received,   \* the header as the browser wrote it
    header,     \* the node's Header value
    tool,       \* whether the browser goes through proxy-change-header
    wire,       \* the header as it is on its way, in the end as the service gets it
    headerStage \* where the request is

headerVars == <<received, tool, header, wire, headerStage>>

Raw == [first : FirstLines, lines : UNION {[1..n -> Lines] : n \in 0..MaxLines}]
NoHeader == [method |-> "", uri |-> <<>>, version |-> "", map |-> <<>>]

(***************************************************************************)
(* impl TryFrom<Vec<u8>> for Header                                        *)
(***************************************************************************)

\* The mistake the code avoids: taking two blanks in a row for one word more.
Parses_EmptyWord(raw) == Len(raw.first) > 2

Parses(raw) ==
    /\ Len(raw.first) > 2
    /\ \A k \in DOMAIN raw.first \ {2} : raw.first[k] \notin Undecodable
    /\ Decodes(raw.first[2])
    /\ raw.first[1] # "" /\ raw.first[2] # <<>> /\ raw.first[3] # ""

\* A line needs a colon, and is skipped when it is not UTF-8 and when it has the
\* method's name.
Fields(raw) ==
    {i \in DOMAIN raw.lines :
        Decodes(raw.lines[i]) /\ Len(raw.lines[i]) > 1 /\ raw.lines[i][1] # raw.first[1]}

\* A later line replaces an earlier one of the same name.
LastField(raw, name) ==
    CHOOSE i \in Fields(raw) :
        /\ raw.lines[i][1] = name
        /\ \A j \in Fields(raw) : raw.lines[j][1] = name => j <= i

\* A line is cut at its first colon only.
Value(line) == Tail(line)

\* The first thing the map gets is "method: uri".
Parse(raw) ==
    LET names == {raw.lines[i][1] : i \in Fields(raw)}
        method == raw.first[1]
    IN  [method |-> method, uri |-> raw.first[2], version |-> raw.first[3],
         map |-> [n \in names \cup {method} |->
                     IF n \in names THEN Value(raw.lines[LastField(raw, n)])
                     ELSE raw.first[2]]]

(***************************************************************************)
(* impl Into<Vec<u8>> for Header: the lines in the order of the hash map.  *)
(***************************************************************************)
Bytes(h) ==
    {[first |-> <<h.method, h.uri, h.version>>,
      lines |-> [i \in DOMAIN order |-> <<order[i]>> \o h.map[order[i]]]] :
        order \in SetToSeqs(DOMAIN h.map)}

(***************************************************************************)
(* handle_bi: the URI                                                      *)
(***************************************************************************)

\* Url::try_from refuses a URI without scheme and host.
Absolute(uri) == Len(uri) > 1 /\ uri[1] \in Schemes

\* The ports that Url knows: other schemes have none of their own.
DefaultPort(scheme) ==
    CASE scheme \in {"http://", "ws://"} -> ":80"
      [] scheme \in {"https://", "wss://"} -> ":443"
      [] scheme = "ftp://" -> ":21"
      [] OTHER -> ""

\* Url::port: None when there is no port and when it is the scheme's own.
HasPort(uri) == Len(uri) > 2 /\ uri[3] \in Ports /\ uri[3] # DefaultPort(uri[1])

\* The mistake the code avoids: a host without its port.
SchemeAndHost_NoPort(uri) == SubSeq(uri, 1, 2)

SchemeAndHost(uri) == SubSeq(uri, 1, IF HasPort(uri) THEN 3 ELSE 2)

\* String::replace: every occurrence of a text that does not overlap itself.
Without(uri, text) ==
    LET OccursAt(j) ==
            j + Len(text) - 1 <= Len(uri) /\ SubSeq(uri, j, j + Len(text) - 1) = text
        Within(k) == \E j \in 1..k : k < j + Len(text) /\ OccursAt(j)
    IN  PickAt(uri, {k \in DOMAIN uri : ~Within(k)})

NewUri(uri) ==
    LET rest == Without(uri, SchemeAndHost(uri))
    IN  IF rest = <<>> THEN <<"/">> ELSE rest

(***************************************************************************)
(* handle_bi: the header                                                   *)
(***************************************************************************)

\* The mistake the code avoids: leaving the entry "method: uri" in the header.
Rewrite_KeepMethod(h) ==
    LET names == (DOMAIN h.map \ {"Proxy-Connection"}) \cup {"Connection"}
    IN  [h EXCEPT !.uri = NewUri(@),
                  !.map = [n \in names |->
                              IF n = "Connection" THEN <<"close">> ELSE h.map[n]]]

Rewrite(h) ==
    LET names == (DOMAIN h.map \ {"Proxy-Connection", h.method}) \cup {"Connection"}
    IN  [h EXCEPT !.uri = NewUri(@),
                  !.map = [n \in names |->
                              IF n = "Connection" THEN <<"close">> ELSE h.map[n]]]

OldProxy(h) == h.method # "CONNECT" /\ "Proxy-Connection" \in DOMAIN h.map

HeaderInit ==
    /\ received \in Raw
    /\ header = NoHeader
    /\ tool \in BOOLEAN
    /\ wire = received
    /\ headerStage = IF tool THEN "sent" ELSE "peeked"

\* header.set("Host", device_addr)
SetHost(h) ==
    [h EXCEPT !.map = [n \in DOMAIN h.map \cup {"Host"} |->
                          IF n = "Host" THEN DeviceAddr ELSE h.map[n]]]

\* translate of the tool: the header is written again, all of it.
Translate ==
    /\ headerStage = "sent"
    /\ Parses(wire)
    /\ wire' \in Bytes(SetHost(Parse(wire)))
    /\ headerStage' = "peeked"
    /\ UNCHANGED <<received, tool, header>>

\* The node's peek.
ParseHeader ==
    /\ headerStage = "peeked"
    /\ Parses(wire)
    /\ header' = Parse(wire)
    /\ headerStage' = "parsed"
    /\ UNCHANGED <<received, tool, wire>>

\* header error, 2400: in the tool or in the node.
ParseFails ==
    /\ headerStage \in {"sent", "peeked"}
    /\ ~Parses(wire)
    /\ headerStage' = "failed"
    /\ UNCHANGED <<received, tool, header, wire>>

\* An old-style proxy request: rewritten, and written into the peek buffer.
ForwardRewritten ==
    /\ headerStage = "parsed"
    /\ OldProxy(header)
    /\ Absolute(header.uri)
    /\ header' = Rewrite(header)
    /\ wire' \in Bytes(header')
    /\ headerStage' = "rewritten"
    /\ UNCHANGED <<received, tool>>

\* The ? after Url::try_from.
UriFails ==
    /\ headerStage = "parsed"
    /\ OldProxy(header)
    /\ ~Absolute(header.uri)
    /\ headerStage' = "failed"
    /\ UNCHANGED <<received, tool, header, wire>>

\* Any other request: the peek buffer stays as it is, whatever the parser skipped.
ForwardAsIs ==
    /\ headerStage = "parsed"
    /\ header.method # "CONNECT" /\ ~OldProxy(header)
    /\ headerStage' = "asis"
    /\ UNCHANGED <<received, tool, header, wire>>

\* The header is for the node alone: peek_remove.
OpenTunnel ==
    /\ headerStage = "parsed"
    /\ header.method = "CONNECT"
    /\ headerStage' = "tunnel"
    /\ UNCHANGED <<received, tool, header, wire>>

HeaderNext ==
    \/ Translate
    \/ ParseHeader
    \/ ParseFails
    \/ ForwardRewritten
    \/ UriFails
    \/ ForwardAsIs
    \/ OpenTunnel

HeaderSpec == HeaderInit /\ [][HeaderNext]_headerVars

\* The words of a Header are never empty, before and after the rewriting: it can
\* always be written as a first line of three words.
HeaderTypeOK ==
    /\ received \in Raw
    /\ headerStage \in {"sent", "peeked", "parsed", "failed", "rewritten", "asis", "tunnel"}
    /\ tool \in BOOLEAN
    /\ headerStage \notin {"sent", "peeked", "failed"} =>
          /\ header.method # "" /\ header.uri # <<>> /\ header.version # ""

\* Where the lines of name n stand that have a value and are UTF-8.
At(raw, n) ==
    {k \in DOMAIN raw.lines :
        raw.lines[k][1] = n /\ Len(raw.lines[k]) > 1 /\ Decodes(raw.lines[k])}

Names(raw) == {raw.lines[k][1] : k \in DOMAIN raw.lines}

\* This line is there, and no other of its name.
OnlyLine(raw, line) == \E k \in DOMAIN raw.lines : At(raw, line[1]) = {k} /\ raw.lines[k] = line

\* The service gets the last of the lines that the browser wrote of this name in
\* UTF-8, whole and once, and nothing of the name if it wrote none.
GetsLast(n) ==
    \/ At(received, n) = {} /\ At(wire, n) = {}
    \/ \E k \in At(received, n) :
          (\A j \in At(received, n) : j <= k) /\ OnlyLine(wire, received.lines[k])

\* The service of a rewritten request gets the browser's lines that are UTF-8, each
\* whole and at most once, whatever the order of the hash maps: not the proxy's
\* line, "close" for the connection, the device as its Host if the tool is used, no
\* line made up from the first line, though the tool writes one, and of a name given
\* twice the last.  A line that is not UTF-8 is lost, and takes no other with it.
ServiceGetsRequest ==
    headerStage = "rewritten" =>
        LET method == received.first[1]
            own == {"Proxy-Connection", "Connection", method}
                       \cup (IF tool THEN {"Host"} ELSE {})
        IN  /\ wire.first[1] = method /\ wire.first[3] = received.first[3]
            /\ \A k \in DOMAIN wire.lines : Decodes(wire.lines[k])
            /\ At(wire, "Proxy-Connection") = {}
            /\ OnlyLine(wire, <<"Connection", "close">>)
            /\ method # "Connection" => At(wire, method) = {}
            /\ tool /\ method # "Host" => OnlyLine(wire, <<"Host">> \o DeviceAddr)
            /\ \A n \in (Names(received) \cup Names(wire)) \ own : GetsLast(n)

\* A URI that is rewritten faithfully: its scheme and host stand in it once, and
\* its port is not the scheme's own written out.
Plain(uri) ==
    /\ ~ \E k \in 2..Len(uri) : uri[k] = uri[1]
    /\ Len(uri) > 2 => uri[3] # DefaultPort(uri[1])

\* What the browser wrote behind scheme, host and port.
Path(uri) ==
    LET first == IF Len(uri) > 2 /\ uri[3] \in Ports THEN 4 ELSE 3
    IN  SubSeq(uri, first, Len(uri))

\* The service is asked for the path the browser wrote, and "/" for none: its
\* URI has neither the scheme, the host nor the port of a Plain URI in it.
PathKept ==
    headerStage = "rewritten" /\ Plain(received.first[2]) =>
        LET path == Path(received.first[2])
        IN  wire.first[2] = IF path = <<>> THEN <<"/">> ELSE path
==============================================================================
