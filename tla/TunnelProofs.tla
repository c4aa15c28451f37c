----------------------------- MODULE TunnelProofs -----------------------------
(***************************************************************************)
(* Proofs about Tunnel, for all requests, labels, lists, lengths and cuts: *)
(* what the service and the browser of a session receive, and which        *)
(* address the node connects the session with.                             *)
(***************************************************************************)
EXTENDS Tunnel, SequenceTheorems, TLAPS

\* A sequence of tokens that has its end last, if it has one.
Stream(s) ==
    /\ s \in Seq(Tokens)
    /\ \A i \in 1..Len(s) : s[i] = FIN => i = Len(s)

\* What can be read of a stream is what follows position i of F.
Carries(s, F, i) == \A k \in 1..Readable(s) : s[k] = F[i + k]

\* Every stream of a session is one, and no buffer keeps an end: Rest leaves it in the stream.
Streams ==
    /\ Stream(toRelay) /\ Stream(relayBuf) /\ Stream(toNode) /\ Stream(nodeBuf)
    /\ Stream(macRead) /\ Stream(toService) /\ Stream(said) /\ Stream(fromService)
    /\ Stream(toBack) /\ Stream(toBrowser)
    /\ ~Ended(relayBuf) /\ ~Ended(nodeBuf)

\* Where handle_client is says where handle_bi can be.
Places ==
    /\ req \in Requests
    /\ Asked \in RequestType
    /\ relay \in {"header", "route", "announce", "copy", "closed"}
    /\ node \in {"none", "mac", "header", "dial", "copy", "closed"}
    /\ linkUp \in BOOLEAN
    /\ dialled \in Addrs \cup {NoAddr}
    /\ relay \in {"header", "route", "announce"} => node = "none"
    /\ relay = "copy" => node # "none"
    /\ relay \in {"route", "announce", "copy"} => LabelOf(req) \in Macs
    /\ node # "none" => LabelOf(req) \in Macs

\* A buffer and the stream behind it hold all that follows position i of F.
Spread(F, i, buf, s) ==
    /\ i + Readable(buf) + Readable(s) = Len(F)
    /\ Carries(buf, F, i)
    /\ Carries(s, F, i + Readable(buf))

\* The relay still has, read ahead or not, all that follows position i of F.
RelayHas(F, i) == Spread(F, i, relayBuf, toRelay)

\* What the relay writes of a session, when t of the label gets through.
Wire(q, t) == <<t>> \o Script(q)

\* The label of the session, or the part of it that a short write leaves.
Opener(t) == t \in {Mac(LabelOf(req)), Part(LabelOf(req))}

\* Until the stream is announced, the relay has the whole request.
BeforeAnnounce == node = "none" => toNode = <<>> /\ RelayHas(Script(Asked), 0)

\* Until the node has read the label, the relay has announced it and forwards what follows.
BeforeMac ==
    node = "mac" =>
        \E t \in Tokens :
            /\ Opener(t)
            /\ RelayHas(Wire(Asked, t), Readable(toNode))
            /\ Carries(toNode, Wire(Asked, t), 0)

\* Until the node dials, it has the request itself or a beginning of it, or nothing comes.
BeforeDispatch ==
    node = "header" =>
        /\ Len(nodeBuf) <= 2
        /\ RelayHas(Script(Asked), Readable(nodeBuf) + Readable(toNode))
        /\ Carries(nodeBuf, Script(Asked), 0)
        /\ Carries(toNode, Script(Asked), Readable(nodeBuf))

\* How much of its due is at the service, in the node or on the way to the node.
Sent == Readable(toService) + Readable(nodeBuf) + Readable(toNode)

\* The relay has given up the stream with a part of the request still to send.
CutShort ==
    /\ relay = "closed"
    /\ Ended(toNode)
    /\ Readable(relayBuf) + Readable(toRelay) > 0

\* Once the node has dialled, what the service got, what the node has and what the relay has
\* make up what the service is entitled to.
AfterDispatch ==
    node \in {"dial", "copy"} =>
        /\ Sent <= Len(Entitled(Asked))
        /\ Carries(nodeBuf, Entitled(Asked), Readable(toService))
        /\ Carries(toNode, Entitled(Asked), Readable(toService) + Readable(nodeBuf))
        /\ RelayHas(Entitled(Asked), Sent) \/ CutShort

\* What is at the service is a beginning of what it is entitled to.
Received ==
    /\ Readable(toService) <= Len(Entitled(Asked))
    /\ Carries(toService, Entitled(Asked), 0)
    /\ node \in {"none", "mac", "header", "dial"} => toService = <<>>
    /\ node \in {"none", "mac"} => nodeBuf = <<>>

\* A direction of a copy ends when everything is written.
EndMeansAll ==
    /\ relay = "copy" /\ Ended(toNode) => Readable(relayBuf) = 0 /\ Readable(toRelay) = 0
    /\ node = "copy" /\ Ended(toService) =>
           Readable(nodeBuf) = 0 /\ Readable(toNode) = 0 /\ Ended(toNode)

\* The answer of the service as the browser is to see it.
Answer == (IF Asked.line = "CONNECT" THEN <<Reply("200")>> ELSE <<>>) \o said

\* How much of it there is.
Due == Len(Answer) - Len(said) + Readable(said)

\* How much of the answer is at the browser or on the way from the node.
Told == Readable(toBrowser) + Readable(toBack)

\* Without a service, at most one page of the relay or the node.
BeforeDial ==
    dialled = NoAddr =>
        /\ said = <<>> /\ fromService = <<>>
        /\ node # "copy"
        /\ Told <= 1
        /\ \A k \in 1..Readable(toBrowser) : toBrowser[k] \in {Reply("400"), Reply("offline")}
        /\ \A k \in 1..Readable(toBack) : toBack[k] = Reply("400")

\* A service that is not connected has said nothing, and a node that is not asked says nothing.
NothingTold ==
    /\ node \in {"none", "mac", "header", "dial"} => dialled = NoAddr /\ toBack = <<>>
    /\ node \in {"mac", "header", "dial"} => Readable(toBrowser) = 0
    /\ relay \in {"header", "route", "announce"} => toBrowser = <<>>

\* Once the node has dialled, what is on its way to the browser is the answer, in order.
AfterDial ==
    dialled # NoAddr =>
        /\ Told <= Due
        /\ Carries(toBrowser, Answer, 0)
        /\ Carries(toBack, Answer, Readable(toBrowser))
        /\ node = "copy" =>
               /\ Told + Readable(fromService) = Due
               /\ Carries(fromService, Answer, Told)
               /\ Ended(fromService) <=> Ended(said)

\* A label the node lets pass is one of its list, and the session's if it came whole.
MacFits ==
    /\ node \in {"none", "mac"} => macRead = <<>>
    /\ node \in {"header", "dial", "copy"} =>
           /\ macRead # <<>> /\ macRead[1][2] \in DOMAIN Route
           /\ Len(macRead) = 1 => macRead[1][2] = LabelOf(req)

\* The inductive invariant.
IInv ==
    /\ Streams /\ Places
    /\ BeforeAnnounce /\ BeforeMac /\ BeforeDispatch /\ AfterDispatch /\ Received /\ EndMeansAll
    /\ BeforeDial /\ NothingTold /\ AfterDial
    /\ MacFits /\ DialsAskedTarget

------------------------------------------------------------------------------
(* Streams. *)

\* What a token is not.
LEMMA TokenFacts ==
  /\ FIN \in Tokens /\ END \in Tokens /\ END # FIN
  /\ \A k \in Lines : Line(k) \in Tokens /\ Line(k) # FIN /\ Line(k) # END
  /\ \A c \in {"200", "400", "offline"} : Reply(c) \in Tokens /\ Reply(c) # FIN
  /\ \A n \in Nat : <<"body", n>> \in Tokens /\ <<"answer", n>> \in Tokens
                    /\ <<"body", n>> # FIN /\ <<"answer", n>> # FIN
  /\ \A m \in Macs : Mac(m) \in Tokens /\ Part(m) \in Tokens /\ Mac(m) # FIN /\ Part(m) # FIN
  /\ \A m, n : Mac(m) # Part(n) /\ (Mac(m) = Mac(n) => m = n)
  BY DEF Tokens, FIN, END, Line, Reply, Mac, Part

\* How much of a stream can be read, and what its first token says of the rest.
LEMMA StreamFacts ==
  ASSUME NEW s, Stream(s)
  PROVE  /\ Len(s) \in Nat /\ Readable(s) \in Nat
         /\ Ended(s) => Len(s) = Readable(s) + 1 /\ s[Len(s)] = FIN
         /\ ~Ended(s) => Len(s) = Readable(s)
         /\ \A k \in 1..Readable(s) : s[k] \in Tokens /\ s[k] # FIN
         /\ s # <<>> <=> Len(s) > 0
         /\ s # <<>> /\ Head(s) = FIN => Ended(s) /\ Readable(s) = 0
         /\ s # <<>> /\ Head(s) # FIN => Readable(s) >= 1
         /\ s # <<>> => Head(s) = s[1] /\ Head(s) \in Tokens
<1> USE DEF Stream, Ended, Readable, Last
<1>1. s \in Seq(Tokens) /\ Len(s) \in Nat /\ (s # <<>> <=> Len(s) > 0)
  OBVIOUS
<1>2. s # <<>> => Head(s) = s[1] /\ Head(s) \in Tokens
  BY <1>1
<1>3. Readable(s) \in Nat
  BY <1>1
<1>4. Ended(s) => Len(s) = Readable(s) + 1 /\ s[Len(s)] = FIN
  BY <1>1
<1>5. ~Ended(s) => Len(s) = Readable(s)
  BY <1>1
<1>6. ASSUME NEW k \in 1..Readable(s) PROVE s[k] \in Tokens /\ s[k] # FIN
  <2>1. k \in 1..Len(s) /\ s[k] \in Tokens
    BY <1>1, <1>3, <1>4, <1>5
  <2>2. CASE Ended(s)
    BY <2>1, <2>2, <1>1
  <2>3. CASE ~Ended(s)
    BY <2>1, <2>3, <1>1
  <2> QED
    BY <2>1, <2>2, <2>3
<1>7. ASSUME s # <<>>, Head(s) = FIN PROVE Ended(s) /\ Readable(s) = 0
  <2>1. s[1] = FIN /\ 1 \in 1..Len(s)
    BY <1>1, <1>2, <1>7
  <2>2. 1 = Len(s)
    BY <2>1
  <2>3. Ended(s)
    BY <2>1, <2>2, <1>7
  <2> QED
    BY <2>2, <2>3
<1>8. ASSUME s # <<>>, Head(s) # FIN PROVE Readable(s) >= 1
  BY <1>1, <1>2, <1>8
<1> QED
  BY <1>1, <1>2, <1>3, <1>4, <1>5, <1>6, <1>7, <1>8

\* Nothing on it: a stream nobody has written to.
LEMMA EmptyStream ==
  /\ Stream(<<>>) /\ ~Ended(<<>>) /\ Readable(<<>>) = 0
  /\ \A F, i : Carries(<<>>, F, i)
  BY DEF Stream, Ended, Readable, Carries

\* A write goes behind what is there.
LEMMA AppendFacts ==
  ASSUME NEW s, Stream(s), ~Ended(s), NEW t \in Tokens, t # FIN
  PROVE  /\ Stream(Append(s, t)) /\ ~Ended(Append(s, t))
         /\ Readable(Append(s, t)) = Readable(s) + 1
         /\ \A k \in 1..Readable(s) : Append(s, t)[k] = s[k]
         /\ Append(s, t)[Readable(s) + 1] = t
<1>1. s \in Seq(Tokens) /\ Len(s) \in Nat /\ Readable(s) = Len(s)
  BY DEF Stream, Readable
<1> DEFINE u == Append(s, t)
<1>2. u \in Seq(Tokens) /\ Len(u) = Len(s) + 1 /\ u # <<>>
  BY <1>1
<1>3. u[Len(s) + 1] = t /\ \A k \in 1..Len(s) : u[k] = s[k]
  BY <1>1
<1>4. \A k \in 1..Len(s) : s[k] # FIN
  BY <1>1, StreamFacts
<1>5. ~Ended(u)
  BY <1>2, <1>3 DEF Ended, Last
<1>6. Readable(u) = Len(u)
  BY <1>5 DEF Readable
<1>7. \A k \in 1..Len(u) : u[k] # FIN
  BY <1>1, <1>2, <1>3, <1>4
<1>8. Stream(u)
  BY <1>2, <1>7 DEF Stream
<1> HIDE DEF u
<1> QED
  BY <1>1, <1>2, <1>3, <1>5, <1>6, <1>8 DEF u

\* The end of a stream adds nothing to read.
LEMMA CloseFacts ==
  ASSUME NEW s, Stream(s)
  PROVE  /\ Stream(Close(s)) /\ Ended(Close(s))
         /\ Readable(Close(s)) = Readable(s)
         /\ \A k \in 1..Readable(s) : Close(s)[k] = s[k]
         /\ ~Ended(s) => Close(s) = Append(s, FIN)
<1>1. CASE Ended(s)
  BY <1>1 DEF Close
<1>2. CASE ~Ended(s)
  <2>1. s \in Seq(Tokens) /\ Len(s) \in Nat /\ Readable(s) = Len(s)
    BY <1>2 DEF Stream, Readable
  <2> DEFINE u == Append(s, FIN)
  <2>2. u \in Seq(Tokens) /\ Len(u) = Len(s) + 1 /\ u # <<>>
    BY <2>1, TokenFacts
  <2>3. u[Len(s) + 1] = FIN /\ \A k \in 1..Len(s) : u[k] = s[k]
    BY <2>1
  <2>4. \A k \in 1..Len(s) : s[k] # FIN
    BY <2>1, StreamFacts
  <2>5. Ended(u)
    BY <2>2, <2>3 DEF Ended, Last
  <2>6. Readable(u) = Len(s)
    BY <2>1, <2>2, <2>5 DEF Readable
  <2>7. Stream(u)
    BY <2>1, <2>2, <2>3, <2>4 DEF Stream
  <2>8. Close(s) = u
    BY <1>2 DEF Close
  <2> HIDE DEF u
  <2>9. u = Append(s, FIN)
    BY DEF u
  <2> QED
    BY <2>1, <2>3, <2>5, <2>6, <2>7, <2>8, <2>9
<1> QED
  BY <1>1, <1>2

\* What is read is gone from the front, and the rest has moved up.
LEMMA CutFacts ==
  ASSUME NEW s, Stream(s), NEW n \in Nat, n <= Readable(s)
  PROVE  /\ Stream(SubSeq(s, n + 1, Len(s)))
         /\ Readable(SubSeq(s, n + 1, Len(s))) = Readable(s) - n
         /\ Ended(SubSeq(s, n + 1, Len(s))) <=> Ended(s)
         /\ \A k \in 1..Readable(s) - n : SubSeq(s, n + 1, Len(s))[k] = s[n + k]
<1>1. s \in Seq(Tokens) /\ Len(s) \in Nat /\ Readable(s) \in Nat
  BY StreamFacts DEF Stream
<1>2. Readable(s) = IF Ended(s) THEN Len(s) - 1 ELSE Len(s)
  BY DEF Readable
<1>3. Readable(s) <= Len(s)
  BY <1>1, <1>2
<1> DEFINE u == SubSeq(s, n + 1, Len(s))
<1>4. u \in Seq(Tokens) /\ Len(u) = Len(s) - n
  BY <1>1, <1>3
<1>5. \A k \in 1..Len(u) : u[k] = s[n + k]
  BY <1>1, <1>3, <1>4
<1> HIDE DEF u
<1>6. Ended(u) <=> Ended(s)
  <2>1. CASE Len(u) = 0
    <3>1. ~Ended(s) /\ u = <<>>
      BY <2>1, <1>1, <1>2, <1>4
    <3> QED
      BY <3>1 DEF Ended
  <2>2. CASE Len(u) > 0
    <3>1. u # <<>> /\ s # <<>> /\ Len(u) \in 1..Len(u) /\ u[Len(u)] = s[Len(s)]
      BY <2>2, <1>1, <1>4, <1>5
    <3> QED
      BY <3>1 DEF Ended, Last
  <2> QED
    BY <2>1, <2>2, <1>4, <1>1, <1>3
<1>7. Readable(u) = Readable(s) - n
  BY <1>1, <1>2, <1>4, <1>6 DEF Readable
<1>8. Stream(u)
  <2>1. ASSUME NEW i \in 1..Len(u), u[i] = FIN PROVE i = Len(u)
    <3>1. n + i \in 1..Len(s) /\ s[n + i] = FIN
      BY <2>1, <1>1, <1>3, <1>4, <1>5
    <3>2. n + i = Len(s)
      BY <3>1 DEF Stream
    <3> QED
      BY <3>2, <1>1, <1>3, <1>4
  <2> QED
    BY <2>1, <1>4 DEF Stream
<1>9. \A k \in 1..Readable(s) - n : u[k] = s[n + k]
  BY <1>1, <1>3, <1>4, <1>5
<1> QED
  BY <1>6, <1>7, <1>8, <1>9 DEF u

\* The same for a read of one token.
LEMMA TailFacts ==
  ASSUME NEW s, Stream(s), s # <<>>, Head(s) # FIN
  PROVE  /\ Stream(Tail(s))
         /\ Readable(Tail(s)) = Readable(s) - 1
         /\ Ended(Tail(s)) <=> Ended(s)
         /\ \A k \in 1..Readable(s) - 1 : Tail(s)[k] = s[k + 1]
         /\ Tail(s) = SubSeq(s, 2, Len(s))
<1>1. s \in Seq(Tokens) /\ Len(s) \in Nat /\ Readable(s) \in Nat /\ Readable(s) >= 1
  BY StreamFacts DEF Stream
<1>2. Tail(s) = SubSeq(s, 2, Len(s))
  BY <1>1
<1> HIDE DEF Stream, Ended, Readable
<1>3. /\ Stream(SubSeq(s, 1 + 1, Len(s)))
      /\ Readable(SubSeq(s, 1 + 1, Len(s))) = Readable(s) - 1
      /\ Ended(SubSeq(s, 1 + 1, Len(s))) <=> Ended(s)
      /\ \A k \in 1..Readable(s) - 1 : SubSeq(s, 1 + 1, Len(s))[k] = s[1 + k]
  BY <1>1, CutFacts
<1>4. 1 + 1 = 2
  OBVIOUS
<1>5. SubSeq(s, 1 + 1, Len(s)) = Tail(s)
  BY <1>2, <1>4
<1>6. /\ Stream(Tail(s))
      /\ Readable(Tail(s)) = Readable(s) - 1
      /\ Ended(Tail(s)) <=> Ended(s)
      /\ \A k \in 1..Readable(s) - 1 : Tail(s)[k] = s[1 + k]
  BY <1>3, <1>5
<1>7. ASSUME NEW k \in 1..Readable(s) - 1 PROVE Tail(s)[k] = s[k + 1]
  <2>1. 1 + k = k + 1
    BY <1>1
  <2>2. Tail(s)[k] = s[1 + k]
    BY <1>6, Zenon
  <2> QED
    BY <2>1, <2>2
<1> QED
  BY <1>2, <1>6, <1>7

\* What a stream carries is a matter of what can be read of it.
LEMMA CarriesSame ==
  ASSUME NEW s, NEW t, Readable(t) = Readable(s), \A k \in 1..Readable(s) : t[k] = s[k],
         NEW F, NEW i
  PROVE  Carries(s, F, i) <=> Carries(t, F, i)
  BY DEF Carries

\* A read of n tokens brings the stream n further into what it carries.
LEMMA CutCarries ==
  ASSUME NEW s, Stream(s), NEW n \in Nat, n <= Readable(s), NEW F, NEW i \in Nat, Carries(s, F, i)
  PROVE  Carries(SubSeq(s, n + 1, Len(s)), F, i + n)
<1> DEFINE u == SubSeq(s, n + 1, Len(s))
<1>1. /\ Readable(s) \in Nat /\ Readable(u) = Readable(s) - n
      /\ \A k \in 1..Readable(s) - n : u[k] = s[n + k]
  BY StreamFacts, CutFacts
<1> HIDE DEF u
<1>2. ASSUME NEW k \in 1..Readable(u) PROVE u[k] = F[(i + n) + k]
  <2>1. k \in Nat /\ n + k \in 1..Readable(s) /\ u[k] = s[n + k]
    BY <1>1
  <2>2. s[n + k] = F[i + (n + k)]
    BY <2>1 DEF Carries
  <2>3. i + (n + k) = (i + n) + k
    BY <2>1
  <2> QED
    BY <2>1, <2>2, <2>3
<1> QED
  BY <1>2 DEF Carries, u

\* What the one stream is after a step of a copy from the other.
Moved(out, in) == Append(out, Head(in))

\* One step of a copy: a token leaves one stream and is written to the other, or
\* the end is passed on.
LEMMA MoveFacts ==
  ASSUME NEW in, Stream(in), in # <<>>,
         NEW out, Stream(out), ~Ended(out)
  PROVE  /\ Stream(Moved(out, in)) /\ Stream(Rest(in))
         /\ Ended(Rest(in)) <=> Ended(in)
         /\ Ended(Moved(out, in)) <=> Head(in) = FIN
         /\ Readable(Moved(out, in)) + Readable(Rest(in)) = Readable(out) + Readable(in)
         /\ Ended(Moved(out, in)) => Readable(Rest(in)) = 0 /\ Readable(in) = 0 /\ Ended(in)
         /\ ~Ended(Moved(out, in)) =>
                Readable(Moved(out, in)) = Readable(out) + 1 /\ Moved(out, in)[Readable(out) + 1] = in[1]
         /\ Ended(Moved(out, in)) => Readable(Moved(out, in)) = Readable(out)
<1> DEFINE new == Moved(out, in)
           rest == Rest(in)
<1>0. new = Append(out, Head(in)) /\ rest = IF Head(in) = FIN THEN in ELSE Tail(in)
  BY DEF Rest, Moved
<1> SUFFICES /\ Stream(new) /\ Stream(rest)
             /\ Ended(rest) <=> Ended(in)
             /\ Ended(new) <=> Head(in) = FIN
             /\ Readable(new) + Readable(rest) = Readable(out) + Readable(in)
             /\ Ended(new) => Readable(rest) = 0 /\ Readable(in) = 0 /\ Ended(in)
             /\ ~Ended(new) => Readable(new) = Readable(out) + 1 /\ new[Readable(out) + 1] = in[1]
             /\ Ended(new) => Readable(new) = Readable(out)
  OBVIOUS
<1> HIDE DEF new, rest
<1>1. Readable(in) \in Nat /\ Readable(out) \in Nat /\ Head(in) = in[1] /\ Head(in) \in Tokens
  BY StreamFacts
<1>2. CASE Head(in) = FIN
  <2>1. Ended(in) /\ Readable(in) = 0 /\ rest = in
    BY <1>0, <1>2, StreamFacts
  <2>2. new = Close(out)
    BY <1>0, <1>2, CloseFacts
  <2>3. /\ Stream(new) /\ Ended(new) /\ Readable(new) = Readable(out)
        /\ \A k \in 1..Readable(out) : new[k] = out[k]
    BY <2>2, CloseFacts
  <2> QED
    BY <1>1, <1>2, <2>1, <2>3
<1>3. CASE Head(in) # FIN
  <2>1. rest = Tail(in)
    BY <1>0, <1>3
  <2>2. Stream(rest) /\ Readable(rest) = Readable(in) - 1 /\ (Ended(rest) <=> Ended(in))
    BY <1>3, <2>1, TailFacts
  <2>3. /\ Stream(new) /\ ~Ended(new) /\ Readable(new) = Readable(out) + 1
        /\ \A k \in 1..Readable(out) : new[k] = out[k]
        /\ new[Readable(out) + 1] = Head(in)
    BY <1>0, <1>1, <1>3, AppendFacts
  <2>4. Readable(in) >= 1
    BY <1>3, StreamFacts
  <2>5. new[Readable(out) + 1] = in[1]
    BY <1>1, <2>3
  <2>6. Readable(new) + Readable(rest) = Readable(out) + Readable(in)
    BY <1>1, <2>2, <2>3, <2>4
  <2> QED
    BY <1>3, <2>2, <2>3, <2>5, <2>6
<1> QED
  BY <1>2, <1>3

\* What is already written stays.
LEMMA MoveKeeps ==
  ASSUME NEW in, Stream(in), in # <<>>,
         NEW out, Stream(out), ~Ended(out),
         NEW k \in 1..Readable(out)
  PROVE  Moved(out, in)[k] = out[k]
<1>1. out \in Seq(Tokens) /\ Readable(out) = Len(out)
  BY StreamFacts DEF Stream
<1> QED
  BY <1>1 DEF Moved

\* Together the two streams carry what they carried.
LEMMA MoveCarries ==
  ASSUME NEW in, Stream(in), in # <<>>,
         NEW out, Stream(out), ~Ended(out),
         NEW F, NEW i \in Nat, Carries(out, F, i), Carries(in, F, i + Readable(out))
  PROVE  Carries(Moved(out, in), F, i) /\ Carries(Rest(in), F, i + Readable(Moved(out, in)))
<1> DEFINE new == Moved(out, in)
           rest == Rest(in)
<1>0. Head(in) # FIN => rest = Tail(in)
  BY DEF Rest
<1> SUFFICES Carries(new, F, i) /\ Carries(rest, F, i + Readable(new))
  OBVIOUS
<1>1. /\ Stream(new) /\ Stream(rest)
      /\ Ended(new) <=> Head(in) = FIN
      /\ Readable(new) + Readable(rest) = Readable(out) + Readable(in)
      /\ Ended(new) => Readable(rest) = 0 /\ Readable(in) = 0
      /\ \A k \in 1..Readable(out) : new[k] = out[k]
      /\ ~Ended(new) => Readable(new) = Readable(out) + 1 /\ new[Readable(out) + 1] = in[1]
      /\ Ended(new) => Readable(new) = Readable(out)
  <2>1. Stream(new) /\ Stream(rest)
    BY MoveFacts
  <2>2. Ended(new) <=> Head(in) = FIN
    BY MoveFacts
  <2>3. Readable(new) + Readable(rest) = Readable(out) + Readable(in)
    BY MoveFacts
  <2>4. Ended(new) => Readable(rest) = 0 /\ Readable(in) = 0
    BY MoveFacts
  <2>5. ASSUME NEW k \in 1..Readable(out) PROVE new[k] = out[k]
    BY MoveKeeps
  <2>6. ~Ended(new) => Readable(new) = Readable(out) + 1 /\ new[Readable(out) + 1] = in[1]
    BY MoveFacts
  <2>7. Ended(new) => Readable(new) = Readable(out)
    BY MoveFacts
  <2> QED
    BY <2>1, <2>2, <2>3, <2>4, <2>5, <2>6, <2>7
<1> HIDE DEF new, rest
<1>2. Readable(in) \in Nat /\ Readable(out) \in Nat /\ Readable(new) \in Nat
  BY <1>1, StreamFacts
<1>3. CASE Ended(new)
  <2>1. Carries(new, F, i)
    BY <1>1, <1>3, CarriesSame
  <2>2. Carries(rest, F, i + Readable(new))
    BY <1>1, <1>3 DEF Carries
  <2> QED
    BY <2>1, <2>2
<1>4. CASE ~Ended(new)
  <2>1. Head(in) # FIN /\ rest = Tail(in) /\ Readable(in) >= 1
    BY <1>0, <1>1, <1>4, StreamFacts
  <2>2. /\ Readable(rest) = Readable(in) - 1
        /\ \A k \in 1..Readable(in) - 1 : rest[k] = in[k + 1]
    BY <2>1, TailFacts
  <2>3. Carries(new, F, i)
    <3>1. in[1] = F[i + Readable(new)]
      <4>1. in[1] = F[i + Readable(out) + 1]
        BY <1>2, <2>1 DEF Carries
      <4>2. i + Readable(out) + 1 = i + Readable(new)
        BY <1>1, <1>2, <1>4
      <4> QED
        BY <4>1, <4>2
    <3>2. ASSUME NEW k \in 1..Readable(new) PROVE new[k] = F[i + k]
      <4>1. CASE k = Readable(new)
        BY <1>1, <1>4, <3>1, <4>1
      <4>2. CASE k # Readable(new)
        <5>1. k \in 1..Readable(out)
          BY <1>1, <1>2, <1>4, <4>2
        <5> QED
          BY <1>1, <5>1 DEF Carries
      <4> QED
        BY <4>1, <4>2
    <3> QED
      BY <3>2 DEF Carries
  <2>4. ASSUME NEW k \in 1..Readable(rest) PROVE rest[k] = F[i + Readable(new) + k]
    <3>1. k \in Nat /\ k + 1 \in 1..Readable(in) /\ rest[k] = in[k + 1]
      BY <1>2, <2>2
    <3>2. in[k + 1] = F[i + Readable(out) + (k + 1)]
      BY <3>1 DEF Carries
    <3>3. i + Readable(out) + (k + 1) = i + Readable(new) + k
      BY <1>1, <1>2, <1>4, <3>1
    <3> QED
      BY <3>1, <3>2, <3>3
  <2>5. Carries(rest, F, i + Readable(new))
    BY <2>4 DEF Carries
  <2> QED
    BY <2>3, <2>5
<1> QED
  BY <1>3, <1>4

------------------------------------------------------------------------------
(* Requests, and what is made of them. *)

\* A browser's script: the first lines, and then the rest.
LEMMA ScriptFacts ==
  ASSUME NEW q \in RequestType
  PROVE  /\ q.line \in Lines /\ q.data \in Nat /\ q.complete \in BOOLEAN
         /\ Stream(Script(q)) /\ ~Ended(Script(q)) /\ Script(q) # <<>>
         /\ Readable(Script(q)) = Len(Script(q))
         /\ Len(Script(q)) = IF q.complete THEN 2 + q.data ELSE 1
         /\ Script(q)[1] = Line(q.line)
         /\ q.complete => Script(q)[2] = END
         /\ q.complete => \A k \in 1..q.data : Script(q)[k + 2] = <<"body", k>>
<1>1. q.line \in Lines /\ q.data \in Nat /\ q.complete \in BOOLEAN
  BY DEF RequestType
<1>2. Line(q.line) \in Tokens /\ Line(q.line) # FIN
  BY <1>1, TokenFacts
<1>3. CASE ~q.complete
  <2>1. Script(q) = <<Line(q.line)>> \o <<>>
    BY <1>3 DEF Script
  <2>2. Script(q) = <<Line(q.line)>>
    BY <2>1
  <2> DEFINE t == Line(q.line)
  <2> HIDE DEF t
  <2>3. Script(q) = <<t>> /\ t \in Tokens /\ t # FIN
    BY <1>2, <2>2 DEF t
  <2>4. Len(Script(q)) = 1 /\ Script(q)[1] = t /\ Script(q) \in Seq(Tokens)
    BY <2>3
  <2>5. Stream(Script(q)) /\ ~Ended(Script(q)) /\ Script(q) # <<>>
    BY <2>3, <2>4 DEF Stream, Ended, Last
  <2> QED
    BY <1>1, <1>3, <2>4, <2>5 DEF Readable, t
<1>4. CASE q.complete
  <2> DEFINE b == Body(q.data)
  <2>1. b \in Seq(Tokens) /\ Len(b) = q.data /\ \A k \in 1..q.data : b[k] = <<"body", k>>
    <3>1. b \in [1..q.data -> Tokens]
      <4>1. \A k \in 1..q.data : <<"body", k>> \in Tokens
        BY <1>1 DEF Tokens
      <4> QED
        BY <4>1 DEF Body
    <3>2. b \in Seq(Tokens) /\ Len(b) = q.data
      BY <1>1, <3>1
    <3> QED
      BY <3>2 DEF Body
  <2> HIDE DEF b
  <2>2. Script(q) = <<Line(q.line)>> \o (<<END>> \o b)
    BY <1>4 DEF Script, b
  <2> DEFINE s == Script(q)
  <2>3. s \in Seq(Tokens) /\ Len(s) = 2 + q.data
    BY <1>1, <1>2, <2>1, <2>2, TokenFacts
  <2>4. s[1] = Line(q.line) /\ s[2] = END
    BY <1>1, <1>2, <2>1, <2>2, TokenFacts
  <2>5. ASSUME NEW k \in 1..q.data PROVE s[k + 2] = <<"body", k>>
    BY <1>1, <1>2, <2>1, <2>2, TokenFacts
  <2> HIDE DEF s
  <2>6. ASSUME NEW i \in 1..Len(s) PROVE s[i] # FIN
    <3>1. CASE i = 1 \/ i = 2
      BY <1>2, <2>4, <3>1, TokenFacts
    <3>2. CASE i > 2
      <4>1. i - 2 \in 1..q.data /\ (i - 2) + 2 = i
        BY <1>1, <2>3, <3>2
      <4>2. s[i] = <<"body", i - 2>>
        BY <2>5, <4>1
      <4>3. i - 2 \in Nat
        BY <4>1
      <4>4. <<"body", i - 2>> # FIN
        BY <4>3, TokenFacts, Zenon
      <4> QED
        BY <4>2, <4>4
    <3> QED
      BY <1>1, <2>3, <3>1, <3>2
  <2>7. Stream(s) /\ s # <<>>
    BY <1>1, <2>3, <2>6 DEF Stream
  <2>8. ~Ended(s)
    <3>1. Len(s) \in 1..Len(s)
      BY <1>1, <2>3
    <3> QED
      BY <3>1, <2>6 DEF Ended, Last
  <2> QED
    BY <1>1, <1>4, <2>3, <2>4, <2>5, <2>7, <2>8 DEF Readable, s
<1> QED
  BY <1>3, <1>4

\* The first line of a request to a proxy, as the service gets it.
Direct(q) == IF q.line = "PROXY" THEN "GET" ELSE "CUT"

\* What a service is meant to get: the rest alone, the rest behind another header, or
\* the script as it is.
LEMMA EntitledFacts ==
  ASSUME NEW q \in RequestType
  PROVE  /\ Entitled(q) \in Seq(Tokens) /\ Len(Entitled(q)) \in Nat
         /\ ~ByHeader(q) => Entitled(q) = Script(q)
         /\ q.line = "CONNECT" =>
                /\ Len(Entitled(q)) = IF q.complete THEN q.data ELSE 0
                /\ q.complete => \A k \in 1..q.data : Entitled(q)[k] = Script(q)[k + 2]
         /\ q.line \in {"PROXY", "CUTPROXY"} =>
                /\ Len(Entitled(q)) = IF q.complete THEN 2 + q.data ELSE 2
                /\ Entitled(q)[1] = Line(Direct(q)) /\ Entitled(q)[2] = END
                /\ q.complete => \A k \in 1..q.data : Entitled(q)[k + 2] = Script(q)[k + 2]
<1>1. q.line \in Lines /\ q.data \in Nat /\ q.complete \in BOOLEAN
  BY DEF RequestType
<1> DEFINE b == IF q.complete THEN Body(q.data) ELSE <<>>
           e == Entitled(q)
<1>2. b \in Seq(Tokens) /\ Len(b) = IF q.complete THEN q.data ELSE 0
  <2>1. \A k \in 1..q.data : <<"body", k>> \in Tokens
    BY <1>1 DEF Tokens
  <2>2. Body(q.data) \in [1..q.data -> Tokens]
    BY <2>1 DEF Body
  <2>3. Body(q.data) \in Seq(Tokens) /\ Len(Body(q.data)) = q.data
    BY <1>1, <2>2
  <2> QED
    BY <2>3
<1>3. q.complete => \A k \in 1..q.data : b[k] = Script(q)[k + 2]
  <2>1. q.complete => \A k \in 1..q.data : b[k] = <<"body", k>>
    BY DEF Body
  <2>2. q.complete => \A k \in 1..q.data : Script(q)[k + 2] = <<"body", k>>
    BY ScriptFacts
  <2> QED
    BY <2>1, <2>2
<1>4. /\ q.line = "CONNECT" => e = b
      /\ q.line \in {"PROXY", "CUTPROXY"} => e = <<Line(Direct(q)), END>> \o b
      /\ ~ByHeader(q) => e = Script(q)
  BY DEF Entitled, Direct, ByHeader
<1>5. Script(q) \in Seq(Tokens)
  BY ScriptFacts DEF Stream
<1>6. Line(Direct(q)) \in Tokens /\ END \in Tokens
  BY TokenFacts DEF Lines, Direct
<1> HIDE DEF b, e
<1>7. CASE q.line = "CONNECT"
  BY <1>1, <1>2, <1>3, <1>4, <1>7 DEF e, ByHeader
<1>8. CASE q.line \in {"PROXY", "CUTPROXY"}
  <2> DEFINE g == Line(Direct(q))
  <2> HIDE DEF g
  <2>0. g \in Tokens /\ e = <<g, END>> \o b
    BY <1>4, <1>6, <1>8 DEF g
  <2>1. e \in Seq(Tokens) /\ Len(e) = 2 + Len(b)
    BY <1>2, <1>6, <2>0
  <2>2. e[1] = g /\ e[2] = END
    BY <1>2, <1>6, <2>0
  <2>3. ASSUME q.complete, NEW k \in 1..q.data PROVE e[k + 2] = Script(q)[k + 2]
    <3>1. k + 2 \in 3..2 + Len(b) /\ k \in 1..Len(b)
      BY <1>1, <1>2, <2>3
    <3>2. e[k + 2] = b[k]
      BY <1>2, <1>6, <2>0, <3>1
    <3> QED
      BY <1>3, <2>3, <3>2
  <2>4. Len(e) = IF q.complete THEN 2 + q.data ELSE 2
    BY <1>1, <1>2, <2>1
  <2> QED
    BY <1>8, <2>1, <2>2, <2>3, <2>4 DEF e, g, ByHeader
<1>9. CASE ~ByHeader(q)
  BY <1>4, <1>5, <1>9 DEF e, ByHeader
<1> QED
  BY <1>7, <1>8, <1>9 DEF ByHeader

\* What the relay writes for a session: the label or its first part, and the script.
LEMMA WireFacts ==
  ASSUME NEW q \in RequestType, NEW t \in Tokens, t # FIN
  PROVE  /\ Len(Wire(q, t)) = 1 + Len(Script(q)) /\ Len(Wire(q, t)) \in Nat
         /\ Wire(q, t)[1] = t
         /\ \A k \in 1..Len(Script(q)) : Wire(q, t)[1 + k] = Script(q)[k]
         /\ Stream(<<t>>) /\ ~Ended(<<t>>) /\ Readable(<<t>>) = 1 /\ <<t>>[1] = t
<1> DEFINE s == Script(q)
<1>1. s \in Seq(Tokens) /\ Len(s) \in Nat
  BY ScriptFacts DEF Stream
<1>2. Wire(q, t) = <<t>> \o s
  BY DEF Wire
<1> HIDE DEF s
<1>3. <<t>> \in Seq(Tokens) /\ Len(<<t>>) = 1 /\ <<t>>[1] = t
  OBVIOUS
<1>4. Len(Wire(q, t)) = 1 + Len(s) /\ Wire(q, t)[1] = t
  BY <1>1, <1>2, <1>3
<1>5. ASSUME NEW k \in 1..Len(s) PROVE Wire(q, t)[1 + k] = s[k]
  BY <1>1, <1>2, <1>3
<1>6. Stream(<<t>>) /\ ~Ended(<<t>>)
  BY <1>3 DEF Stream, Ended, Last
<1>7. Readable(<<t>>) = 1
  BY <1>3, <1>6 DEF Readable
<1> QED
  BY <1>1, <1>3, <1>4, <1>5, <1>6, <1>7 DEF s

\* A token in front of a stream.
LEMMA FrontFacts ==
  ASSUME NEW s, Stream(s), NEW t \in Tokens, t # FIN
  PROVE  /\ Stream(<<t>> \o s)
         /\ Readable(<<t>> \o s) = Readable(s) + 1
         /\ Ended(<<t>> \o s) <=> Ended(s)
         /\ (<<t>> \o s)[1] = t
         /\ \A k \in 1..Readable(s) : (<<t>> \o s)[k + 1] = s[k]
<1>1. s \in Seq(Tokens) /\ Len(s) \in Nat /\ Readable(s) \in Nat /\ Readable(s) <= Len(s)
  BY StreamFacts DEF Stream
<1> DEFINE u == <<t>> \o s
<1>2. u \in Seq(Tokens) /\ Len(u) = Len(s) + 1 /\ u[1] = t
  BY <1>1
<1>3. \A k \in 1..Len(s) : u[k + 1] = s[k]
  BY <1>1
<1> HIDE DEF u
<1>4. Ended(u) <=> Ended(s)
  <2>1. CASE Len(s) = 0
    <3>1. ~Ended(s) /\ Last(u) = t
      BY <1>1, <1>2, <2>1 DEF Ended, Last
    <3> QED
      BY <3>1 DEF Ended
  <2>2. CASE Len(s) > 0
    <3>1. Len(s) \in 1..Len(s) /\ s # <<>> /\ u # <<>>
      BY <1>1, <1>2, <2>2
    <3>2. u[Len(u)] = s[Len(s)]
      BY <1>2, <1>3, <3>1
    <3> QED
      BY <3>1, <3>2 DEF Ended, Last
  <2> QED
    BY <1>1, <2>1, <2>2
<1>5. Readable(u) = Readable(s) + 1
  BY <1>1, <1>2, <1>4 DEF Readable
<1>6. Stream(u)
  <2>1. ASSUME NEW i \in 1..Len(u), u[i] = FIN PROVE i = Len(u)
    <3>1. i - 1 \in 1..Len(s) /\ (i - 1) + 1 = i
      BY <1>1, <1>2, <2>1
    <3>2. s[i - 1] = FIN
      BY <1>3, <2>1, <3>1
    <3>3. i - 1 = Len(s)
      BY <3>1, <3>2 DEF Stream
    <3> QED
      BY <1>1, <1>2, <3>3
  <2> QED
    BY <1>2, <2>1 DEF Stream
<1>7. \A k \in 1..Readable(s) : u[k + 1] = s[k]
  BY <1>1, <1>3
<1> QED
  BY <1>2, <1>4, <1>5, <1>6, <1>7 DEF u

\* With another first line a script is otherwise the same.
LEMMA SameButLine ==
  ASSUME NEW q \in RequestType, NEW k \in Lines, NEW p, p = [q EXCEPT !.line = k]
  PROVE  /\ p \in RequestType
         /\ Len(Script(p)) \in Nat /\ Len(Script(q)) = Len(Script(p))
         /\ Script(p)[1] = Line(k)
         /\ \A j \in 2..Len(Script(p)) : Script(p)[j] = Script(q)[j]
<1>1. p \in RequestType /\ p.line = k /\ p.complete = q.complete /\ p.data = q.data
  BY DEF RequestType
<1>2. /\ p.data \in Nat /\ p.complete \in BOOLEAN
      /\ Script(p)[1] = Line(k)
      /\ Len(Script(p)) = IF p.complete THEN 2 + p.data ELSE 1
      /\ Len(Script(q)) = IF p.complete THEN 2 + p.data ELSE 1
      /\ p.complete => Script(p)[2] = END /\ Script(q)[2] = END
  BY <1>1, ScriptFacts
<1>3. p.complete => \A i \in 1..p.data : Script(p)[i + 2] = Script(q)[i + 2]
  <2>1. p.complete => \A i \in 1..p.data : Script(p)[i + 2] = <<"body", i>>
    BY <1>1, ScriptFacts
  <2>2. p.complete => \A i \in 1..p.data : Script(q)[i + 2] = <<"body", i>>
    BY <1>1, ScriptFacts
  <2> QED
    BY <2>1, <2>2
<1>4. ASSUME NEW j \in 2..Len(Script(p)) PROVE Script(p)[j] = Script(q)[j]
  <2>1. p.complete /\ (j = 2 \/ (j - 2 \in 1..p.data /\ (j - 2) + 2 = j))
    <3>1. CASE p.complete
      <4>1. Len(Script(p)) = 2 + p.data
        BY <1>2, <3>1
      <4>2. j \in 2..(2 + p.data) /\ p.data \in Nat
        BY <1>2, <4>1
      <4>3. j = 2 \/ (j - 2 \in 1..p.data /\ (j - 2) + 2 = j)
        BY <4>2
      <4> QED
        BY <3>1, <4>3
    <3>2. CASE ~p.complete
      <4>1. Len(Script(p)) = 1
        BY <1>2, <3>2
      <4>2. j \in 2..1
        BY <4>1
      <4> QED
        BY <4>2
    <3> QED
      BY <3>1, <3>2
  <2>2. CASE j = 2
    BY <1>2, <2>1, <2>2
  <2>3. CASE j - 2 \in 1..p.data /\ (j - 2) + 2 = j
    BY <1>3, <2>1, <2>3
  <2> QED
    BY <2>1, <2>2, <2>3
<1>5. Len(Script(p)) \in Nat /\ Len(Script(q)) = Len(Script(p))
  BY <1>2
<1>6. \A j \in 2..Len(Script(p)) : Script(p)[j] = Script(q)[j]
  BY <1>4
<1> QED
  BY <1>1, <1>2, <1>5, <1>6, Zenon

\* The request as the node gets it stays, and it is the browser's when nothing of it went
\* into the label.
LEMMA AskedFacts ==
  ASSUME Places
  PROVE  /\ UNCHANGED <<req, macRead>> => Asked' = Asked
         /\ Len(macRead) # 2 => Asked = req
<1>1. UNCHANGED <<req, macRead>> => Asked' = Asked
  BY DEF Asked
<1>2. req \in RequestType
  BY TunnelAssumption DEF Places, TunnelAssumption
<1>3. Len(macRead) # 2 => Asked = [req EXCEPT !.line = req.line]
  BY DEF Asked
<1>4. [req EXCEPT !.line = req.line] = req
  BY <1>2 DEF RequestType
<1> QED
  BY <1>1, <1>3, <1>4

------------------------------------------------------------------------------
\* Initially everything is still with the browser.
LEMMA InitInv == ASSUME Init PROVE IInv
<1>0. req \in Requests /\ req \in RequestType /\ macRead = <<>>
  BY TunnelAssumption DEF Init, TunnelAssumption
<1>1. Asked = req /\ Asked \in RequestType
  <2>1. Asked = [req EXCEPT !.line = req.line]
    BY <1>0 DEF Asked
  <2>2. [req EXCEPT !.line = req.line] = req
    BY <1>0 DEF RequestType
  <2> QED
    BY <1>0, <2>1, <2>2
<1>2. Stream(toRelay) /\ Readable(toRelay) = Len(toRelay) /\ toRelay = Script(Asked)
  BY <1>1, ScriptFacts DEF Init
<1>3. Streams
  BY <1>2, EmptyStream DEF Init, Streams
<1>4. Places
  BY <1>0, <1>1, TunnelAssumption DEF Init, Places, TunnelAssumption
<1>5. BeforeAnnounce
  <2>1. 0 + Readable(relayBuf) + Readable(toRelay) = Len(Script(Asked))
    BY <1>2, EmptyStream, StreamFacts DEF Init
  <2>2. Carries(relayBuf, Script(Asked), 0)
    BY EmptyStream DEF Init
  <2>3. Carries(toRelay, Script(Asked), 0 + Readable(relayBuf))
    <3>1. \A k \in 1..Readable(toRelay) : toRelay[k] = Script(Asked)[0 + k]
      BY <1>2, StreamFacts
    <3>2. 0 + Readable(relayBuf) = 0
      BY EmptyStream DEF Init
    <3> QED
      BY <3>1, <3>2 DEF Carries
  <2> QED
    BY <2>1, <2>2, <2>3 DEF Init, BeforeAnnounce, RelayHas, Spread
<1>6. BeforeMac /\ BeforeDispatch /\ AfterDispatch
  BY DEF Init, BeforeMac, BeforeDispatch, AfterDispatch
<1>7. Received /\ EndMeansAll
  <2>1. Len(Entitled(Asked)) \in Nat
    BY <1>1, EntitledFacts
  <2> QED
    BY <2>1, EmptyStream DEF Init, Received, EndMeansAll
<1>8. BeforeDial /\ NothingTold /\ AfterDial
  BY EmptyStream DEF Init, BeforeDial, NothingTold, AfterDial, Told
<1>9. MacFits /\ DialsAskedTarget
  BY DEF Init, MacFits, DialsAskedTarget
<1> QED
  BY <1>3, <1>4, <1>5, <1>6, <1>7, <1>8, <1>9 DEF IInv

------------------------------------------------------------------------------
(* What the steps have in common. *)

\* When handle_client returns, streams are closed and nothing else happens to them.
LEMMA RelayReturnsStreams ==
  ASSUME Streams, NEW a, RelayReturns(a), Stream(toBrowser \o a)
  PROVE  /\ Stream(toNode') /\ Readable(toNode') = Readable(toNode)
         /\ \A F, i : Carries(toNode, F, i) => Carries(toNode', F, i)
         /\ toNode = <<>> /\ relay # "copy" => toNode' = <<>>
         /\ Ended(toNode) => Ended(toNode')
         /\ Stream(toBrowser')
<1>1. Stream(toNode)
  BY DEF Streams
<1>2. toNode' = toNode \/ toNode' = Close(toNode)
  BY DEF RelayReturns
<1>3. Stream(toNode') /\ Readable(toNode') = Readable(toNode) /\ (Ended(toNode) => Ended(toNode'))
  BY <1>1, <1>2, CloseFacts
<1>4. ASSUME NEW F, NEW i, Carries(toNode, F, i) PROVE Carries(toNode', F, i)
  <2>1. \A k \in 1..Readable(toNode) : Close(toNode)[k] = toNode[k]
    BY <1>1, CloseFacts
  <2>2. Readable(Close(toNode)) = Readable(toNode)
    BY <1>1, CloseFacts
  <2>3. Carries(Close(toNode), F, i)
    BY <1>4, <2>1, <2>2, CarriesSame
  <2> QED
    BY <1>2, <1>4, <2>3
<1>5. Stream(toBrowser')
  BY CloseFacts DEF RelayReturns
<1> QED
  BY <1>3, <1>4, <1>5 DEF RelayReturns

\* Nothing is added by an empty answer, and a page is the first thing said.
LEMMA Answers ==
  ASSUME Streams, NEW c \in {"200", "400", "offline"}
  PROVE  /\ toBrowser \o <<>> = toBrowser /\ toBack \o <<>> = toBack
         /\ <<>> \o <<Reply(c)>> = <<Reply(c)>>
         /\ Stream(<<Reply(c)>>) /\ ~Ended(<<Reply(c)>>)
         /\ Readable(<<Reply(c)>>) = 1
         /\ <<Reply(c)>>[1] = Reply(c)
<1>1. toBrowser \in Seq(Tokens) /\ toBack \in Seq(Tokens)
  BY DEF Streams, Stream
<1> DEFINE r == Reply(c)
<1>2. r \in Tokens /\ r # FIN
  BY TokenFacts
<1> HIDE DEF r
<1>3. <<r>> \in Seq(Tokens) /\ Len(<<r>>) = 1 /\ <<r>>[1] = r /\ <<>> \o <<r>> = <<r>>
  BY <1>2
<1>4. Stream(<<r>>) /\ ~Ended(<<r>>)
  BY <1>2, <1>3 DEF Stream, Ended, Last
<1>5. Readable(<<r>>) = 1
  BY <1>3, <1>4 DEF Readable
<1>6. toBrowser \o <<>> = toBrowser /\ toBack \o <<>> = toBack
  BY <1>1
<1> QED
  BY <1>3, <1>4, <1>5, <1>6 DEF r

\* The steps in which handle_client returns, with what the browser is told.
LEMMA RelayReturnsCases ==
  ASSUME IInv,
         HeaderTooLong \/ RelayRejects \/ RelayOffline \/ RelayDone \/ RelayFails \/ BrowserResets
  PROVE  \E a : /\ RelayReturns(a)
                /\ \/ a = <<>>
                   \/ /\ a \in {<<Reply("400")>>, <<Reply("offline")>>}
                      /\ relay \in {"header", "route"} /\ toBrowser = <<>>
                /\ Stream(toBrowser \o a)
                /\ relay # "closed"
                /\ UNCHANGED <<req, relayBuf, nodeVars, serviceVars, toBack>>
                /\ toRelay' = toRelay \/ toRelay' = Close(toRelay)
                /\ linkUp' \in {linkUp, FALSE}
<1> USE DEF IInv
<1>1. toBrowser \o <<>> = toBrowser /\ Stream(toBrowser)
  BY Answers DEF Streams
<1>2. CASE HeaderTooLong
  BY <1>1, <1>2 DEF HeaderTooLong
<1>3. CASE RelayRejects
  <2>1. relay = "header" /\ toBrowser = <<>>
    BY <1>3 DEF RelayRejects, NothingTold
  <2>2. Stream(toBrowser \o <<Reply("400")>>)
    BY <2>1, Answers
  <2>3. RelayReturns(<<>>) \/ RelayReturns(<<Reply("400")>>)
    BY <1>3 DEF RelayRejects
  <2> QED
    BY <1>1, <1>3, <2>1, <2>2, <2>3 DEF RelayRejects
<1>4. CASE RelayOffline
  <2>1. relay = "route" /\ toBrowser = <<>>
    BY <1>4 DEF RelayOffline, NothingTold
  <2>2. Stream(toBrowser \o <<Reply("offline")>>)
    BY <2>1, Answers
  <2> QED
    BY <1>4, <2>1, <2>2 DEF RelayOffline
<1>5. CASE RelayDone
  BY <1>1, <1>5 DEF RelayDone
<1>6. CASE RelayFails
  BY <1>1, <1>6 DEF RelayFails
<1>7. CASE BrowserResets
  BY <1>1, <1>7 DEF BrowserResets
<1> QED
  BY <1>2, <1>3, <1>4, <1>5, <1>6, <1>7

\* The steps in which handle_bi returns, with what it says.
LEMMA NodeReturnsCases ==
  ASSUME IInv,
         \/ NodeReadsMac /\ node' # "header"
         \/ NodeMacTruncated \/ NodeRejects \/ NodeDialFails \/ NodeDone \/ NodeFails
  PROVE  \E a : /\ NodeReturns(a)
                /\ \/ a = <<>>
                   \/ a = <<Reply("400")>> /\ node = "mac" /\ toBack = <<>>
                /\ Stream(toBack \o a)
                /\ node \in {"mac", "header", "dial", "copy"}
                /\ UNCHANGED nodeBuf
                /\ \/ UNCHANGED <<toNode, macRead>>
                   \/ node = "mac" /\ ReadsLabel
<1>1. Streams /\ NothingTold
  BY DEF IInv
<1>2. Stream(toBack \o <<>>)
  BY <1>1, Answers DEF Streams
<1>9. node = "mac" => toBack = <<>> /\ Stream(toBack \o <<Reply("400")>>)
  BY <1>1, Answers DEF NothingTold
<1>3. CASE NodeReadsMac /\ node' # "header"
  BY <1>9, <1>3 DEF NodeReadsMac
<1>4. CASE NodeMacTruncated
  BY <1>9, <1>4 DEF NodeMacTruncated
<1>5. CASE NodeRejects
  <2>1. NodeReturns(<<>>) /\ UNCHANGED <<toNode, nodeBuf, macRead>>
        /\ node \in {"mac", "header", "dial", "copy"}
    BY <1>5 DEF NodeRejects
  <2> WITNESS <<>>
  <2> QED
    BY <1>2, <2>1
<1>6. CASE NodeDialFails
  <2>1. NodeReturns(<<>>) /\ UNCHANGED <<toNode, nodeBuf, macRead>>
        /\ node \in {"mac", "header", "dial", "copy"}
    BY <1>6 DEF NodeDialFails
  <2> WITNESS <<>>
  <2> QED
    BY <1>2, <2>1
<1>7. CASE NodeDone
  <2>1. NodeReturns(<<>>) /\ UNCHANGED <<toNode, nodeBuf, macRead>>
        /\ node \in {"mac", "header", "dial", "copy"}
    BY <1>7 DEF NodeDone
  <2> WITNESS <<>>
  <2> QED
    BY <1>2, <2>1
<1>8. CASE NodeFails
  <2>1. NodeReturns(<<>>) /\ UNCHANGED <<toNode, nodeBuf, macRead>>
        /\ node \in {"mac", "header", "dial", "copy"}
    BY <1>8 DEF NodeFails
  <2> WITNESS <<>>
  <2> QED
    BY <1>2, <2>1
<1> QED
  BY <1>3, <1>4, <1>5, <1>6, <1>7, <1>8

\* A peek of one byte moves it from the stream to the buffer.
LEMMA PeekIsMove ==
  ASSUME NEW buf, Stream(buf), ~Ended(buf), NEW in, Stream(in), in # <<>>, Head(in) # FIN
  PROVE  /\ Keep(buf, SubSeq(in, 1, PeekWidth(in))) = Moved(buf, in)
         /\ SubSeq(in, PeekWidth(in) + 1, Len(in)) = Rest(in)
         /\ ~Ended(Moved(buf, in))
<1>1. buf \in Seq(Tokens) /\ in \in Seq(Tokens) /\ Len(in) \in Nat /\ Len(in) > 0
  BY StreamFacts DEF Stream
<1>2. SubSeq(in, 1, 1) = <<Head(in)>>
  <2>1. 1 \in 1..Len(in) /\ Head(in) = in[1] /\ Head(in) \in Tokens
    BY <1>1
  <2>2. SubSeq(in, 1, 1) \in Seq(Tokens) /\ Len(SubSeq(in, 1, 1)) = 1
    BY <1>1, <2>1, SubSeqProperties
  <2>3. SubSeq(in, 1, 1)[1] = in[1]
    BY <1>1, <2>1
  <2>4. <<Head(in)>> \in Seq(Tokens) /\ Len(<<Head(in)>>) = 1 /\ <<Head(in)>>[1] = Head(in)
    BY <2>1
  <2>5. \A k \in 1..1 : SubSeq(in, 1, 1)[k] = <<Head(in)>>[k]
    BY <2>1, <2>3, <2>4
  <2> QED
    BY <2>2, <2>4, <2>5, SeqEqual
<1>3. buf \o <<Head(in)>> = Append(buf, Head(in))
  <2>1. Head(in) \in Tokens
    BY <1>1
  <2> QED
    BY <1>1, <2>1
<1>4. Tail(in) = SubSeq(in, 2, Len(in))
  BY TailFacts
<1>5. ~Ended(Moved(buf, in))
  BY MoveFacts
<1>6. 1 + 1 = 2
  OBVIOUS
<1> QED
  BY <1>2, <1>3, <1>4, <1>5, <1>6 DEF Keep, PeekWidth, Moved, Rest

\* The node takes part of a line for the rest of a label.
TakesPart(m, k) ==
    /\ macRead' = <<Mac(m), Line(k)>>
    /\ toNode' = <<Line(k)>> \o SubSeq(toNode, 3, Len(toNode))

\* What the node has read is a token less on the stream, whether the label came whole or
\* was made up with the first bytes of a line.
LEMMA LabelRead ==
  ASSUME Streams, Places, BeforeMac, node = "mac", ReadsLabel
  PROVE  /\ Stream(toNode') /\ Stream(macRead')
         /\ Readable(toNode) >= 1
         /\ Readable(toNode') = Readable(toNode) - 1
         /\ Ended(toNode') <=> Ended(toNode)
         /\ \A k \in 2..Readable(toNode') : toNode'[k] = toNode[k + 1]
         /\ macRead' # <<>>
         /\ \/ /\ macRead' = <<Mac(LabelOf(req))>>
               /\ 1 \in 1..Readable(toNode') => toNode'[1] = toNode[2]
            \/ \E m \in Macs, k \in Lines :
                   /\ macRead' = <<Mac(m), Line(k)>>
                   /\ Readable(toNode') >= 1 /\ toNode'[1] = Line(k)
<1>1. Stream(toNode) /\ toNode \in Seq(Tokens) /\ Len(toNode) \in Nat
      /\ Readable(toNode) \in Nat /\ Readable(toNode) <= Len(toNode)
  BY StreamFacts DEF Streams, Stream
<1>2. CASE \E m \in Macs :
              /\ Readable(toNode) >= 1 /\ Head(toNode) = Mac(m)
              /\ macRead' = <<Mac(m)>> /\ toNode' = Tail(toNode)
  <2>1. PICK m \in Macs :
              /\ Readable(toNode) >= 1 /\ Head(toNode) = Mac(m)
              /\ macRead' = <<Mac(m)>> /\ toNode' = Tail(toNode)
    BY <1>2
  <2> DEFINE a == Mac(m)
  <2>2. a \in Tokens /\ a # FIN
    BY TokenFacts
  <2>3. toNode # <<>> /\ Head(toNode) = toNode[1] /\ 1 \in 1..Readable(toNode)
    BY <1>1, <2>1
  <2>4. /\ Stream(toNode') /\ Readable(toNode') = Readable(toNode) - 1
        /\ Ended(toNode') <=> Ended(toNode)
        /\ \A k \in 1..Readable(toNode) - 1 : toNode'[k] = toNode[k + 1]
    BY <1>1, <2>1, <2>2, <2>3, TailFacts
  <2>5. m = LabelOf(req)
    <3>1. PICK t \in Tokens : Opener(t) /\ Carries(toNode, Wire(Asked, t), 0)
      BY DEF BeforeMac
    <3>2. LabelOf(req) \in Macs
      BY DEF Places
    <3>3. t # FIN
      BY <3>1, <3>2, TokenFacts DEF Opener
    <3>4. Wire(Asked, t)[1] = t
      BY <3>3, WireFacts DEF Places
    <3>5. toNode[1] = Wire(Asked, t)[0 + 1] /\ 0 + 1 = 1
      BY <2>3, <3>1 DEF Carries
    <3>6. Mac(m) = t
      BY <2>1, <2>3, <3>4, <3>5
    <3> QED
      BY <3>1, <3>6, TokenFacts DEF Opener
  <2> HIDE DEF a
  <2>6. macRead' = <<a>>
    BY <2>1 DEF a
  <2>7. Stream(macRead') /\ macRead' # <<>>
    BY <2>2, <2>6 DEF Stream
  <2>8. macRead' = <<Mac(LabelOf(req))>>
    BY <2>1, <2>5
  <2>9. \A k \in 2..Readable(toNode') : toNode'[k] = toNode[k + 1]
    BY <1>1, <2>4
  <2>10. 1 \in 1..Readable(toNode') => toNode'[1] = toNode[2]
    <3>1. 1 + 1 = 2
      OBVIOUS
    <3> QED
      BY <2>4, <3>1
  <2> QED
    BY <2>1, <2>4, <2>7, <2>8, <2>9, <2>10
<1>3. CASE \E m \in Macs, k \in Lines : Readable(toNode) >= 2 /\ TakesPart(m, k)
  <2>1. PICK m \in Macs, k \in Lines : Readable(toNode) >= 2 /\ TakesPart(m, k)
    BY <1>3
  <2> DEFINE a == Mac(m)
             l == Line(k)
             u == SubSeq(toNode, 3, Len(toNode))
  <2>2. a \in Tokens /\ a # FIN /\ l \in Tokens /\ l # FIN
    BY TokenFacts
  <2>3. macRead' = <<a, l>> /\ toNode' = <<l>> \o u
    BY <2>1 DEF TakesPart
  <2>4. /\ Stream(u) /\ Readable(u) = Readable(toNode) - 2
        /\ Ended(u) <=> Ended(toNode)
        /\ \A j \in 1..Readable(toNode) - 2 : u[j] = toNode[2 + j]
    <3>1. 2 + 1 = 3
      OBVIOUS
    <3>2. /\ Stream(SubSeq(toNode, 2 + 1, Len(toNode)))
          /\ Readable(SubSeq(toNode, 2 + 1, Len(toNode))) = Readable(toNode) - 2
          /\ Ended(SubSeq(toNode, 2 + 1, Len(toNode))) <=> Ended(toNode)
          /\ \A j \in 1..Readable(toNode) - 2 : SubSeq(toNode, 2 + 1, Len(toNode))[j] = toNode[2 + j]
      BY <1>1, <2>1, CutFacts
    <3> QED
      BY <3>1, <3>2
  <2> HIDE DEF a, l, u
  <2>5. Stream(macRead') /\ macRead' # <<>>
    BY <2>2, <2>3 DEF Stream
  <2>6. /\ Stream(toNode') /\ Readable(toNode') = Readable(u) + 1
        /\ Ended(toNode') <=> Ended(u)
        /\ toNode'[1] = l
        /\ \A j \in 1..Readable(u) : toNode'[j + 1] = u[j]
    BY <2>2, <2>3, <2>4, FrontFacts
  <2>7. Readable(toNode') = Readable(toNode) - 1
    BY <1>1, <2>1, <2>4, <2>6
  <2>8. ASSUME NEW j \in 2..Readable(toNode') PROVE toNode'[j] = toNode[j + 1]
    <3>1. j - 1 \in 1..Readable(u) /\ (j - 1) + 1 = j /\ 2 + (j - 1) = j + 1
          /\ j - 1 \in 1..Readable(toNode) - 2
      BY <1>1, <2>1, <2>4, <2>7
    <3>2. toNode'[(j - 1) + 1] = u[j - 1] /\ u[j - 1] = toNode[2 + (j - 1)]
      BY <2>4, <2>6, <3>1
    <3> QED
      BY <3>1, <3>2
  <2>9. macRead' = <<Mac(m), Line(k)>> /\ toNode'[1] = Line(k) /\ Readable(toNode') >= 1
    BY <1>1, <2>1, <2>3, <2>4, <2>6 DEF a, l
  <2>10. Readable(toNode) >= 1 /\ (Ended(toNode') <=> Ended(toNode))
    BY <1>1, <2>1, <2>4, <2>6
  <2> QED
    BY <2>5, <2>6, <2>7, <2>8, <2>9, <2>10
<1>4. \A k : Leftovers(k) \subseteq Lines
  BY DEF Leftovers, Lines
<1> QED
  BY <1>2, <1>3, <1>4 DEF ReadsLabel, TakesPart

\* The header that takes the place of a proxy request's.
LEMMA GetHeader ==
  ASSUME NEW k \in Lines
  PROVE  /\ Stream(<<Line(k), END>>) /\ ~Ended(<<Line(k), END>>)
         /\ Readable(<<Line(k), END>>) = 2
         /\ <<Line(k), END>>[1] = Line(k) /\ <<Line(k), END>>[2] = END
<1> DEFINE g == Line(k)
           h == <<g, END>>
<1>1. g \in Tokens /\ g # FIN /\ END \in Tokens /\ END # FIN
  BY TokenFacts
<1> HIDE DEF g
<1>2. h \in Seq(Tokens) /\ Len(h) = 2 /\ h[1] = g /\ h[2] = END
  BY <1>1
<1> HIDE DEF h
<1>3. Stream(h) /\ ~Ended(h)
  BY <1>1, <1>2 DEF Stream, Ended, Last
<1>4. Readable(h) = 2
  BY <1>2, <1>3 DEF Readable
<1> QED
  BY <1>2, <1>3, <1>4 DEF g, h

\* What a service sends is behind all it has sent, and behind all that is on the way.
LEMMA ServiceAppends ==
  ASSUME IInv, NEW t \in Tokens, ServiceSends(t)
  PROVE  /\ ~Ended(said) /\ ~Ended(fromService) /\ dialled # NoAddr
         /\ Stream(said') /\ Stream(fromService')
         /\ Ended(said') <=> t = FIN
         /\ Ended(fromService') <=> t = FIN
<1>1. ~Ended(said) /\ node = "copy"
  BY DEF ServiceSends
<1>2. dialled # NoAddr /\ ~Ended(fromService)
  BY <1>1 DEF IInv, BeforeDial, AfterDial
<1>3. Stream(said) /\ Stream(fromService)
  BY DEF IInv, Streams
<1>4. said' = Append(said, t) /\ fromService' = Append(fromService, t)
  BY DEF ServiceSends
<1>5. CASE t = FIN
  <2>1. said' = Close(said) /\ fromService' = Close(fromService)
    BY <1>1, <1>2, <1>4, <1>5 DEF Close
  <2> QED
    BY <1>1, <1>2, <1>3, <1>5, <2>1, CloseFacts
<1>6. CASE t # FIN
  BY <1>1, <1>2, <1>3, <1>4, <1>6, AppendFacts
<1> QED
  BY <1>5, <1>6

\* A relay that peeks, and a node that does, move a token to the buffer.
LEMMA PeekSteps ==
  ASSUME IInv
  PROVE  /\ RelayPeek =>
                /\ toRelay # <<>> /\ Head(toRelay) # FIN
                /\ relayBuf' = Moved(relayBuf, toRelay) /\ toRelay' = Rest(toRelay)
                /\ ~Ended(relayBuf')
         /\ NodePeek =>
                /\ toNode # <<>> /\ Head(toNode) # FIN
                /\ nodeBuf' = Moved(nodeBuf, toNode) /\ toNode' = Rest(toNode)
                /\ ~Ended(nodeBuf')
<1>1. Stream(relayBuf) /\ ~Ended(relayBuf) /\ Stream(toRelay)
      /\ Stream(nodeBuf) /\ ~Ended(nodeBuf) /\ Stream(toNode)
  BY DEF IInv, Streams
<1>2. ASSUME RelayPeek
      PROVE  /\ toRelay # <<>> /\ Head(toRelay) # FIN
             /\ relayBuf' = Moved(relayBuf, toRelay) /\ toRelay' = Rest(toRelay)
             /\ ~Ended(relayBuf')
  <2>1. toRelay # <<>> /\ Head(toRelay) # FIN
    BY <1>2 DEF RelayPeek, HeaderRead
  <2>2. /\ Keep(relayBuf, SubSeq(toRelay, 1, PeekWidth(toRelay))) = Moved(relayBuf, toRelay)
        /\ SubSeq(toRelay, PeekWidth(toRelay) + 1, Len(toRelay)) = Rest(toRelay)
        /\ ~Ended(Moved(relayBuf, toRelay))
    BY <1>1, <2>1, PeekIsMove
  <2> QED
    BY <1>2, <2>1, <2>2 DEF RelayPeek
<1>3. ASSUME NodePeek
      PROVE  /\ toNode # <<>> /\ Head(toNode) # FIN
             /\ nodeBuf' = Moved(nodeBuf, toNode) /\ toNode' = Rest(toNode)
             /\ ~Ended(nodeBuf')
  <2>1. toNode # <<>> /\ Head(toNode) # FIN
    BY <1>3 DEF NodePeek, HeaderRead
  <2>2. /\ Keep(nodeBuf, SubSeq(toNode, 1, PeekWidth(toNode))) = Moved(nodeBuf, toNode)
        /\ SubSeq(toNode, PeekWidth(toNode) + 1, Len(toNode)) = Rest(toNode)
        /\ ~Ended(Moved(nodeBuf, toNode))
    BY <1>1, <2>1, PeekIsMove
  <2> QED
    BY <1>3, <2>1, <2>2 DEF NodePeek
<1> QED
  BY <1>2, <1>3

\* A step of a copy takes from the buffer, and from the stream when that is empty.
LEMMA ForwardSteps ==
  ASSUME IInv
  PROVE  /\ RelayForwards =>
                \/ /\ relayBuf # <<>> /\ Head(relayBuf) # FIN
                   /\ toNode' = Moved(toNode, relayBuf) /\ relayBuf' = Rest(relayBuf)
                   /\ UNCHANGED toRelay
                \/ /\ relayBuf = <<>> /\ toRelay # <<>>
                   /\ toNode' = Moved(toNode, toRelay) /\ toRelay' = Rest(toRelay)
                   /\ UNCHANGED relayBuf
         /\ NodeForwards =>
                \/ /\ nodeBuf # <<>> /\ Head(nodeBuf) # FIN
                   /\ toService' = Moved(toService, nodeBuf) /\ nodeBuf' = Rest(nodeBuf)
                   /\ UNCHANGED toNode
                \/ /\ nodeBuf = <<>> /\ toNode # <<>>
                   /\ toService' = Moved(toService, toNode) /\ toNode' = Rest(toNode)
                   /\ UNCHANGED nodeBuf
<1>1. relayBuf # <<>> => Head(relayBuf) # FIN
  BY StreamFacts DEF IInv, Streams
<1>2. nodeBuf # <<>> => Head(nodeBuf) # FIN
  BY StreamFacts DEF IInv, Streams
<1> QED
  BY <1>1, <1>2 DEF RelayForwards, NodeForwards, Moved, Rest

\* The streams, one action at a time.
LEMMA StreamsInv == ASSUME IInv, [Next]_vars PROVE Streams'
<1>1. Streams
  BY DEF IInv
<1> USE DEF Streams, relayVars, nodeVars, serviceVars
<1>2. CASE HeaderTooLong \/ RelayRejects \/ RelayOffline \/ RelayDone \/ RelayFails \/ BrowserResets
  <2>1. PICK a : /\ RelayReturns(a) /\ Stream(toBrowser \o a)
                 /\ UNCHANGED <<req, relayBuf, nodeVars, serviceVars, toBack>>
                 /\ toRelay' = toRelay \/ toRelay' = Close(toRelay)
    BY <1>2, RelayReturnsCases
  <2>2. Stream(toNode') /\ Stream(toBrowser')
    BY <1>1, <2>1, RelayReturnsStreams
  <2>3. Stream(toRelay')
    BY <1>1, <2>1, CloseFacts
  <2> QED
    BY <1>1, <2>1, <2>2, <2>3
<1>3. CASE \/ NodeReadsMac /\ node' # "header"
           \/ NodeMacTruncated \/ NodeRejects \/ NodeDialFails \/ NodeDone \/ NodeFails
  <2>1. PICK a : /\ NodeReturns(a) /\ Stream(toBack \o a)
                 /\ UNCHANGED nodeBuf
                 /\ UNCHANGED <<toNode, macRead>> \/ (node = "mac" /\ ReadsLabel)
    BY <1>3, NodeReturnsCases
  <2>2. Stream(toBack') /\ Stream(toService')
    BY <1>1, <2>1, CloseFacts DEF NodeReturns
  <2>3. Stream(toNode') /\ Stream(macRead')
    <3>1. CASE UNCHANGED <<toNode, macRead>>
      BY <1>1, <3>1
    <3>2. CASE node = "mac" /\ ReadsLabel
      BY <1>1, <3>2, LabelRead DEF IInv
    <3> QED
      BY <2>1, <3>1, <3>2
  <2> QED
    BY <1>1, <2>1, <2>2, <2>3 DEF NodeReturns
<1>4. CASE NodeReadsMac /\ node' = "header"
  <2>1. Stream(toNode') /\ Stream(macRead')
    BY <1>1, <1>4, LabelRead DEF NodeReadsMac, IInv
  <2> QED
    BY <1>1, <1>4, <2>1 DEF NodeReadsMac, NodeReturns
<1>5. CASE RelayPeek
  <2>1. Stream(relayBuf') /\ Stream(toRelay') /\ ~Ended(relayBuf')
    BY <1>1, <1>5, PeekSteps, MoveFacts
  <2> QED
    BY <1>1, <1>5, <2>1 DEF RelayPeek
<1>6. CASE RelayAccepts \/ RelayOpens
  BY <1>1, <1>6 DEF RelayAccepts, RelayOpens
<1>7. CASE RelayAnnounces
  <2>1. toNode = <<>> /\ LabelOf(req) \in Macs
    BY <1>7 DEF IInv, Places, BeforeAnnounce, RelayAnnounces
  <2>2. PICK t \in Tokens : t # FIN /\ toNode' = Append(toNode, t)
    BY <1>7, <2>1, TokenFacts DEF RelayAnnounces
  <2>3. Stream(toNode')
    BY <2>1, <2>2, EmptyStream, AppendFacts
  <2> QED
    BY <1>1, <1>7, <2>3 DEF RelayAnnounces
<1>8. CASE RelayForwards
  <2>1. CASE relayBuf # <<>>
    <3>1. /\ Head(relayBuf) # FIN /\ toNode' = Moved(toNode, relayBuf)
          /\ relayBuf' = Rest(relayBuf) /\ UNCHANGED toRelay /\ ~Ended(toNode)
      BY <1>8, <2>1, ForwardSteps DEF RelayForwards
    <3>2. Stream(toNode') /\ Stream(relayBuf') /\ ~Ended(relayBuf')
      BY <1>1, <2>1, <3>1, MoveFacts
    <3> QED
      BY <1>1, <1>8, <3>1, <3>2 DEF RelayForwards
  <2>2. CASE relayBuf = <<>>
    <3>1. /\ toRelay # <<>> /\ toNode' = Moved(toNode, toRelay) /\ toRelay' = Rest(toRelay)
          /\ UNCHANGED relayBuf /\ ~Ended(toNode)
      BY <1>8, <2>2, ForwardSteps DEF RelayForwards
    <3>2. Stream(toNode') /\ Stream(toRelay')
      BY <1>1, <3>1, MoveFacts
    <3> QED
      BY <1>1, <1>8, <3>1, <3>2 DEF RelayForwards
  <2> QED
    BY <2>1, <2>2
<1>9. CASE RelayReturnsAnswer
  <2>1. /\ toBack # <<>> /\ ~Ended(toBrowser)
        /\ toBrowser' = Moved(toBrowser, toBack) /\ toBack' = Rest(toBack)
    BY <1>9 DEF RelayReturnsAnswer, Moved
  <2>2. Stream(toBrowser') /\ Stream(toBack')
    BY <1>1, <2>1, MoveFacts
  <2> QED
    BY <1>1, <1>9, <2>2 DEF RelayReturnsAnswer
<1>10. CASE NodePeek
  <2>1. Stream(nodeBuf') /\ Stream(toNode') /\ ~Ended(nodeBuf')
    BY <1>1, <1>10, PeekSteps, MoveFacts
  <2> QED
    BY <1>1, <1>10, <2>1 DEF NodePeek
<1>11. CASE NodeDispatches
  <2>1. Stream(Rewritten(nodeBuf)) /\ ~Ended(Rewritten(nodeBuf))
    BY <1>1, EmptyStream, GetHeader DEF Rewritten, Lines
  <2> QED
    BY <1>1, <1>11, <2>1 DEF NodeDispatches
<1>12. CASE NodeDials
  <2>1. toBack = <<>>
    BY <1>12 DEF IInv, NothingTold, NodeDials
  <2>2. Append(<<>>, Reply("200")) = <<Reply("200")>>
    BY TokenFacts
  <2>3. Stream(toBack')
    BY <1>1, <1>12, <2>1, <2>2, Answers DEF NodeDials
  <2> QED
    BY <1>1, <1>12, <2>3 DEF NodeDials
<1>13. CASE NodeForwards
  <2>1. CASE nodeBuf # <<>>
    <3>1. /\ Head(nodeBuf) # FIN /\ toService' = Moved(toService, nodeBuf)
          /\ nodeBuf' = Rest(nodeBuf) /\ UNCHANGED toNode /\ ~Ended(toService)
      BY <1>13, <2>1, ForwardSteps DEF NodeForwards
    <3>2. Stream(toService') /\ Stream(nodeBuf') /\ ~Ended(nodeBuf')
      BY <1>1, <2>1, <3>1, MoveFacts
    <3> QED
      BY <1>1, <1>13, <3>1, <3>2 DEF NodeForwards
  <2>2. CASE nodeBuf = <<>>
    <3>1. /\ toNode # <<>> /\ toService' = Moved(toService, toNode) /\ toNode' = Rest(toNode)
          /\ UNCHANGED nodeBuf /\ ~Ended(toService)
      BY <1>13, <2>2, ForwardSteps DEF NodeForwards
    <3>2. Stream(toService') /\ Stream(toNode')
      BY <1>1, <3>1, MoveFacts
    <3> QED
      BY <1>1, <1>13, <3>1, <3>2 DEF NodeForwards
  <2> QED
    BY <2>1, <2>2
<1>14. CASE NodeReturnsAnswer
  <2>1. /\ fromService # <<>> /\ ~Ended(toBack)
        /\ toBack' = Moved(toBack, fromService) /\ fromService' = Rest(fromService)
    BY <1>14 DEF NodeReturnsAnswer, Moved
  <2>2. Stream(toBack') /\ Stream(fromService')
    BY <1>1, <2>1, MoveFacts
  <2> QED
    BY <1>1, <1>14, <2>2 DEF NodeReturnsAnswer
<1>15. CASE BrowserCloses
  <2>1. toRelay' = Close(toRelay)
    BY <1>15 DEF BrowserCloses, Close
  <2>2. Stream(toRelay')
    BY <1>1, <2>1, CloseFacts
  <2> QED
    BY <1>1, <1>15, <2>2 DEF BrowserCloses
<1>16. CASE ServiceAnswers \/ ServiceCloses
  <2>1. PICK t \in Tokens : ServiceSends(t)
    BY <1>1, <1>16, TokenFacts, StreamFacts DEF ServiceAnswers, ServiceCloses
  <2>2. Stream(said') /\ Stream(fromService')
    BY <1>1, <2>1, ServiceAppends
  <2> QED
    BY <1>1, <2>1, <2>2 DEF ServiceSends
<1>17. CASE LinkLost
  BY <1>1, <1>17 DEF LinkLost
<1>18. CASE UNCHANGED vars
  BY <1>1, <1>18 DEF vars
<1> QED
  BY <1>2, <1>3, <1>4, <1>5, <1>6, <1>7, <1>8, <1>9, <1>10, <1>11, <1>12, <1>13, <1>14, <1>15,
     <1>16, <1>17, <1>18 DEF Next, RelayNext, NodeNext, Finished

------------------------------------------------------------------------------
(* Where the two ends are, and what the node takes for the label. *)

\* What the node makes of a label: a label that came whole is the session's, and what a
\* label cut short leaves of the first line is a line.
LEMMA LabelPassed ==
  ASSUME IInv, NodeReadsMac, node' = "header"
  PROVE  /\ node = "mac" /\ ReadsLabel
         /\ macRead = <<>> /\ macRead' # <<>> /\ macRead'[1][2] \in DOMAIN Route
         /\ Len(macRead') = 1 => macRead'[1][2] = LabelOf(req)
         /\ UNCHANGED <<req, relayVars, nodeBuf, dialled, serviceVars, toBack, toBrowser, linkUp>>
         /\ \/ Asked' = Asked /\ (1 \in 1..Readable(toNode') => toNode'[1] = toNode[2])
            \/ \E k \in Lines : /\ Asked' = [Asked EXCEPT !.line = k]
                               /\ Readable(toNode') >= 1 /\ toNode'[1] = Line(k)
<1>1. node = "mac" /\ ReadsLabel
  BY DEF NodeReadsMac
<1>2. macRead = <<>> /\ Streams /\ Places /\ BeforeMac
  BY <1>1 DEF IInv, MacFits
<1>3. macRead'[1][2] \in DOMAIN Route
      /\ UNCHANGED <<req, relayVars, nodeBuf, dialled, serviceVars, toBack, toBrowser, linkUp>>
  BY DEF NodeReadsMac, NodeReturns
<1>4. Asked = req
  BY <1>2, AskedFacts
<1>5. req \in RequestType
  BY <1>2, TunnelAssumption DEF Places, TunnelAssumption
<1>6. CASE /\ macRead' = <<Mac(LabelOf(req))>>
           /\ 1 \in 1..Readable(toNode') => toNode'[1] = toNode[2]
  <2>1. Len(macRead') = 1 /\ macRead'[1][2] = LabelOf(req) /\ macRead' # <<>>
    BY <1>6 DEF Mac
  <2>2. Asked' = [req EXCEPT !.line = req.line]
    BY <1>3, <2>1 DEF Asked
  <2>3. [req EXCEPT !.line = req.line] = req
    BY <1>5 DEF RequestType
  <2> QED
    BY <1>1, <1>2, <1>3, <1>4, <1>6, <2>1, <2>2, <2>3
<1>7. CASE \E m \in Macs, k \in Lines : /\ macRead' = <<Mac(m), Line(k)>>
                                      /\ Readable(toNode') >= 1 /\ toNode'[1] = Line(k)
  <2>1. PICK m \in Macs, k \in Lines : /\ macRead' = <<Mac(m), Line(k)>>
                                     /\ Readable(toNode') >= 1 /\ toNode'[1] = Line(k)
    BY <1>7
  <2>2. Len(macRead') = 2 /\ macRead'[2][2] = k /\ macRead' # <<>>
    BY <2>1 DEF Mac, Line
  <2>3. Asked' = [req EXCEPT !.line = k]
    BY <1>3, <2>2 DEF Asked
  <2> QED
    BY <1>1, <1>2, <1>3, <1>4, <2>1, <2>2, <2>3
<1> QED
  BY <1>1, <1>2, <1>6, <1>7, LabelRead

\* With a label read, what is asked is still a request.
LEMMA LabelRetyped ==
  ASSUME Streams, Places, BeforeMac, node = "mac", ReadsLabel, UNCHANGED req
  PROVE  Asked' \in RequestType
<1>1. req \in RequestType
  BY TunnelAssumption DEF Places, TunnelAssumption
<1>2. CASE macRead' = <<Mac(LabelOf(req))>>
  <2>1. Asked' = [req EXCEPT !.line = req.line]
    BY <1>2 DEF Asked
  <2> QED
    BY <1>1, <2>1 DEF RequestType
<1>3. CASE \E m \in Macs, k \in Lines : macRead' = <<Mac(m), Line(k)>>
  <2>1. PICK m \in Macs, k \in Lines : macRead' = <<Mac(m), Line(k)>>
    BY <1>3
  <2>2. Len(macRead') = 2 /\ macRead'[2][2] = k
    BY <2>1 DEF Line
  <2>3. Asked' = [req EXCEPT !.line = k]
    BY <2>2 DEF Asked
  <2> QED
    BY <1>1, <2>3 DEF RequestType
<1> QED
  BY <1>2, <1>3, LabelRead

\* Where the relay and the node are, and what they dial.
LEMMA PlacesInv == ASSUME IInv, [Next]_vars PROVE Places' /\ MacFits' /\ DialsAskedTarget'
<1>1. Places /\ MacFits /\ DialsAskedTarget
  BY DEF IInv
<1>0. UNCHANGED <<req, macRead>> => Asked' = Asked
  BY <1>1, AskedFacts
<1> USE DEF Places, MacFits, DialsAskedTarget, relayVars, nodeVars, serviceVars
<1>2. CASE HeaderTooLong \/ RelayRejects \/ RelayOffline \/ RelayDone \/ RelayFails \/ BrowserResets
  <2>1. PICK a : /\ RelayReturns(a)
                 /\ UNCHANGED <<req, relayBuf, nodeVars, serviceVars, toBack>>
                 /\ linkUp' \in {linkUp, FALSE}
    BY <1>2, RelayReturnsCases
  <2> QED
    BY <1>0, <1>1, <2>1 DEF RelayReturns
<1>3. CASE \/ NodeReadsMac /\ node' # "header"
           \/ NodeMacTruncated \/ NodeRejects \/ NodeDialFails \/ NodeDone \/ NodeFails
  <2>1. PICK a : /\ NodeReturns(a) /\ node \in {"mac", "header", "dial", "copy"}
                 /\ UNCHANGED <<toNode, macRead>> \/ (node = "mac" /\ ReadsLabel)
    BY <1>3, NodeReturnsCases
  <2>2. node' = "closed" /\ UNCHANGED <<req, relayVars, dialled, linkUp>>
    BY <2>1 DEF NodeReturns
  <2>3. CASE UNCHANGED macRead
    BY <1>0, <1>1, <2>1, <2>2, <2>3
  <2>4. CASE node = "mac" /\ ReadsLabel
    <3>1. Asked' \in RequestType
      BY <1>1, <2>2, <2>4, LabelRetyped DEF IInv
    <3>2. dialled = NoAddr
      BY <2>4 DEF IInv, NothingTold
    <3> QED
      BY <1>1, <2>1, <2>2, <3>1, <3>2
  <2> QED
    BY <2>1, <2>3, <2>4
<1>4. CASE NodeReadsMac /\ node' = "header"
  <2>1. node = "mac" /\ ReadsLabel /\ dialled = NoAddr
    BY <1>4, LabelPassed DEF IInv, NothingTold
  <2>2. /\ macRead' # <<>> /\ macRead'[1][2] \in DOMAIN Route
        /\ Len(macRead') = 1 => macRead'[1][2] = LabelOf(req)
        /\ UNCHANGED <<req, relayVars, dialled, linkUp>>
    BY <1>4, LabelPassed
  <2>3. Asked' \in RequestType
    BY <1>1, <2>1, <2>2, LabelRetyped DEF IInv
  <2> QED
    BY <1>1, <1>4, <2>1, <2>2, <2>3
<1>5. CASE RelayPeek \/ RelayForwards \/ RelayReturnsAnswer \/ RelayOpens
  BY <1>0, <1>1, <1>5 DEF RelayPeek, RelayForwards, RelayReturnsAnswer, RelayOpens
<1>6. CASE RelayAccepts
  BY <1>0, <1>1, <1>6 DEF RelayAccepts, Accepted
<1>7. CASE RelayAnnounces
  BY <1>0, <1>1, <1>7 DEF RelayAnnounces
<1>8. CASE NodePeek \/ NodeDispatches \/ NodeForwards \/ NodeReturnsAnswer
  BY <1>0, <1>1, <1>8 DEF NodePeek, NodeDispatches, NodeForwards, NodeReturnsAnswer
<1>9. CASE NodeDials
  <2> DEFINE m == macRead[1][2]
  <2>1. m \in DOMAIN Route /\ (Len(macRead) = 1 => m = LabelOf(req))
    BY <1>1, <1>9 DEF NodeDials
  <2>2. UNCHANGED <<req, macRead, relay, linkUp>> /\ node = "dial" /\ node' = "copy"
    BY <1>9 DEF NodeDials
  <2>3. dialled' = Target(Asked, m) /\ dialled' \notin {NoAddr, ServerAddr}
    BY <1>9 DEF NodeDials
  <2>4. /\ Asked.dest = req.dest
        /\ Len(macRead) = 1 => Asked = req
    BY <1>1, AskedFacts, TunnelAssumption DEF Asked, RequestType, TunnelAssumption
  <2>5. req.dest \in Addrs \cup {NoAddr} /\ Route[m] \in Addrs \cup {NoAddr}
    BY <1>1, <2>1, TunnelAssumption DEF TunnelAssumption, RequestType
  <2>6. dialled' = IF ByHeader(Asked) THEN req.dest ELSE Route[m]
    BY <2>3, <2>4 DEF Target
  <2> HIDE DEF m
  <2>7. dialled' \in Addrs \cup {NoAddr}
        /\ (dialled' = req.dest \/ \E i \in DOMAIN Route : dialled' = Route[i])
    BY <2>1, <2>5, <2>6
  <2>8. Len(macRead) = 1 =>
            /\ LabelOf(req) \in DOMAIN Route
            /\ dialled' = IF ByHeader(req) THEN req.dest ELSE Route[LabelOf(req)]
    BY <2>1, <2>4, <2>6
  <2>9. DialsAskedTarget'
    BY <2>2, <2>3, <2>7, <2>8
  <2>10. MacFits'
    BY <1>1, <2>2
  <2>11. Places'
    BY <1>0, <1>1, <2>2, <2>7
  <2> QED
    BY <2>9, <2>10, <2>11
<1>10. CASE BrowserCloses \/ ServiceAnswers \/ ServiceCloses \/ LinkLost
  BY <1>0, <1>1, <1>10 DEF BrowserCloses, ServiceAnswers, ServiceCloses, ServiceSends, LinkLost
<1>11. CASE UNCHANGED vars
  BY <1>0, <1>1, <1>11 DEF vars
<1> QED
  BY <1>2, <1>3, <1>4, <1>5, <1>6, <1>7, <1>8, <1>9, <1>10, <1>11
     DEF Next, RelayNext, NodeNext, Finished

------------------------------------------------------------------------------
(* The way of a request. *)

\* The parts about what travels to the service.
Upstream ==
    BeforeAnnounce /\ BeforeMac /\ BeforeDispatch /\ AfterDispatch /\ Received /\ EndMeansAll

\* One step of copy_bidirectional, from a buffer and the stream behind it.
CopyStep(out, buf, s, out2, buf2, s2) ==
    \/ buf # <<>> /\ out2 = Moved(out, buf) /\ buf2 = Rest(buf) /\ s2 = s
    \/ buf = <<>> /\ s # <<>> /\ out2 = Moved(out, s) /\ s2 = Rest(s) /\ buf2 = buf

\* It loses nothing and adds nothing, and it passes the end on last.
LEMMA CopyStepFacts ==
  ASSUME NEW out, Stream(out), ~Ended(out), NEW buf, Stream(buf), ~Ended(buf), NEW s, Stream(s),
         NEW out2, NEW buf2, NEW s2, CopyStep(out, buf, s, out2, buf2, s2)
  PROVE  /\ Readable(out2) \in Nat /\ Readable(buf2) \in Nat /\ Readable(s2) \in Nat
         /\ Readable(out2) + Readable(buf2) + Readable(s2)
              = Readable(out) + Readable(buf) + Readable(s)
         /\ Ended(s2) <=> Ended(s)
         /\ Ended(out2) => Readable(buf2) = 0 /\ Readable(s2) = 0 /\ Ended(s2)
<1>1. Readable(out) \in Nat /\ Readable(buf) \in Nat /\ Readable(s) \in Nat
  BY StreamFacts
<1>2. CASE buf # <<>> /\ out2 = Moved(out, buf) /\ buf2 = Rest(buf) /\ s2 = s
  <2>1. Head(buf) # FIN
    BY <1>2, StreamFacts
  <2>2. Stream(out2) /\ Stream(buf2) /\ ~Ended(out2)
        /\ Readable(out2) + Readable(buf2) = Readable(out) + Readable(buf)
    BY <1>2, <2>1, MoveFacts
  <2>3. Readable(out2) \in Nat /\ Readable(buf2) \in Nat
    BY <2>2, StreamFacts
  <2> QED
    BY <1>1, <1>2, <2>2, <2>3
<1>3. CASE buf = <<>> /\ s # <<>> /\ out2 = Moved(out, s) /\ s2 = Rest(s) /\ buf2 = buf
  <2>1. /\ Stream(out2) /\ Stream(s2) /\ (Ended(s2) <=> Ended(s))
        /\ Readable(out2) + Readable(s2) = Readable(out) + Readable(s)
        /\ Ended(out2) => Readable(s2) = 0 /\ Ended(s)
    BY <1>3, MoveFacts
  <2>2. Readable(out2) \in Nat /\ Readable(s2) \in Nat
    BY <2>1, StreamFacts
  <2>3. Readable(buf) = 0
    BY <1>3, EmptyStream
  <2> QED
    BY <1>1, <1>3, <2>1, <2>2, <2>3
<1> QED
  BY <1>2, <1>3 DEF CopyStep

\* And it keeps the order.
LEMMA CopyStepCarries ==
  ASSUME NEW out, Stream(out), ~Ended(out), NEW buf, Stream(buf), ~Ended(buf), NEW s, Stream(s),
         NEW out2, NEW buf2, NEW s2, CopyStep(out, buf, s, out2, buf2, s2),
         NEW F, NEW i \in Nat, Carries(out, F, i), Carries(buf, F, i + Readable(out)),
         Carries(s, F, i + Readable(out) + Readable(buf))
  PROVE  /\ Carries(out2, F, i) /\ Carries(buf2, F, i + Readable(out2))
         /\ Carries(s2, F, i + Readable(out2) + Readable(buf2))
<1>1. Readable(out) \in Nat /\ Readable(buf) \in Nat /\ Readable(s) \in Nat
  BY StreamFacts
<1>2. CASE buf # <<>> /\ out2 = Moved(out, buf) /\ buf2 = Rest(buf) /\ s2 = s
  <2>1. Carries(out2, F, i) /\ Carries(buf2, F, i + Readable(out2))
    BY <1>2, MoveCarries
  <2>2. Readable(out2) + Readable(buf2) = Readable(out) + Readable(buf)
        /\ Readable(out2) \in Nat /\ Readable(buf2) \in Nat
    BY <1>2, MoveFacts, CopyStepFacts
  <2>3. i + Readable(out2) + Readable(buf2) = i + Readable(out) + Readable(buf)
    BY <1>1, <2>2
  <2> QED
    BY <1>2, <2>1, <2>3
<1>3. CASE buf = <<>> /\ s # <<>> /\ out2 = Moved(out, s) /\ s2 = Rest(s) /\ buf2 = buf
  <2>1. Readable(buf) = 0 /\ i + Readable(out) + Readable(buf) = i + Readable(out)
    BY <1>1, <1>3, EmptyStream
  <2>2. Carries(s, F, i + Readable(out))
    BY <2>1
  <2>3. Carries(out2, F, i) /\ Carries(s2, F, i + Readable(out2))
    BY <1>3, <2>2, MoveCarries
  <2>4. Readable(out2) \in Nat
    BY CopyStepFacts
  <2>5. i + Readable(out2) + Readable(buf2) = i + Readable(out2)
    BY <1>3, <2>1, <2>4
  <2>6. Carries(buf2, F, i + Readable(out2))
    BY <1>3, EmptyStream
  <2> QED
    BY <2>3, <2>5, <2>6
<1> QED
  BY <1>2, <1>3 DEF CopyStep

\* A stream that carries F carries what says the same where it is.
LEMMA CarriesOver ==
  ASSUME NEW s, NEW F, NEW i, NEW G, NEW j, Carries(s, F, i),
         \A k \in 1..Readable(s) : F[i + k] = G[j + k]
  PROVE  Carries(s, G, j)
  BY DEF Carries

\* Steps that leave the request where it is, but for the end of a stream.
LEMMA UpstreamKept ==
  ASSUME IInv, UNCHANGED <<req, macRead, relayBuf, nodeBuf, toService>>,
         node' = node \/ (node = "dial" /\ node' = "copy"),
         toRelay' = toRelay \/ toRelay' = Close(toRelay),
         toNode' = toNode \/ (toNode' = Close(toNode) /\ node # "none"),
         relay = "closed" => relay' = "closed",
         relay' = "copy" => relay = "copy" /\ toNode' = toNode
  PROVE  Upstream'
<1>1. Upstream /\ Streams /\ Places
  BY DEF IInv, Upstream
<1>2. ASSUME NEW s, Stream(s), NEW F, NEW i, Carries(s, F, i) PROVE Carries(Close(s), F, i)
  <2>1. Readable(Close(s)) = Readable(s) /\ \A k \in 1..Readable(s) : Close(s)[k] = s[k]
    BY <1>2, CloseFacts
  <2> QED
    BY <1>2, <2>1, CarriesSame
<1>3. Stream(toRelay) /\ Stream(toNode)
  BY <1>1 DEF Streams
<1>4. /\ req' = req /\ relayBuf' = relayBuf /\ nodeBuf' = nodeBuf /\ toService' = toService
      /\ Asked' = Asked
  BY <1>1, AskedFacts
<1>5. /\ Readable(toRelay') = Readable(toRelay) /\ Readable(toNode') = Readable(toNode)
      /\ Ended(toNode) => Ended(toNode')
      /\ node = "none" => toNode' = toNode
  BY <1>3, CloseFacts
<1>6. ASSUME NEW F, NEW i, Carries(toNode, F, i) PROVE Carries(toNode', F, i)
  BY <1>2, <1>3, <1>6
<1>7. ASSUME NEW F, NEW i, Spread(F, i, relayBuf, toRelay)
      PROVE  Spread(F, i, relayBuf', toRelay')
  <2>1. Carries(toRelay, F, i + Readable(relayBuf)) => Carries(toRelay', F, i + Readable(relayBuf))
    BY <1>2, <1>3
  <2> QED
    BY <1>4, <1>5, <1>7, <2>1 DEF Spread
<1>8. BeforeAnnounce'
  <2> SUFFICES ASSUME node' = "none"
               PROVE  toNode' = <<>> /\ Spread(Script(Asked), 0, relayBuf', toRelay')
    BY <1>4 DEF BeforeAnnounce, RelayHas
  <2>1. node = "none" /\ toNode = <<>> /\ Spread(Script(Asked), 0, relayBuf, toRelay)
    BY <1>1 DEF Upstream, BeforeAnnounce, RelayHas
  <2> QED
    BY <1>5, <1>7, <2>1
<1>9. BeforeMac'
  <2> SUFFICES ASSUME node' = "mac" PROVE BeforeMac'
    BY DEF BeforeMac
  <2>1. PICK t \in Tokens : /\ Opener(t)
                            /\ Spread(Wire(Asked, t), Readable(toNode), relayBuf, toRelay)
                            /\ Carries(toNode, Wire(Asked, t), 0)
    BY <1>1 DEF Upstream, BeforeMac, RelayHas
  <2>2. Spread(Wire(Asked, t), Readable(toNode), relayBuf', toRelay') /\ Carries(toNode', Wire(Asked, t), 0)
    BY <1>6, <1>7, <2>1
  <2> QED
    BY <1>4, <1>5, <2>1, <2>2 DEF BeforeMac, RelayHas, Opener
<1>10. BeforeDispatch'
  <2> DEFINE F == Script(Asked)
             i == Readable(nodeBuf)
  <2> SUFFICES ASSUME node' = "header"
               PROVE  /\ Len(nodeBuf) <= 2 /\ Carries(nodeBuf, F, 0) /\ Carries(toNode', F, i)
                      /\ Spread(F, i + Readable(toNode), relayBuf', toRelay')
    BY <1>4, <1>5 DEF BeforeDispatch, RelayHas
  <2>1. /\ Len(nodeBuf) <= 2 /\ Carries(nodeBuf, F, 0) /\ Carries(toNode, F, i)
        /\ Spread(F, i + Readable(toNode), relayBuf, toRelay)
    BY <1>1 DEF Upstream, BeforeDispatch, RelayHas
  <2> QED
    BY <1>6, <1>7, <2>1
<1>11. AfterDispatch'
  <2> DEFINE F == Entitled(Asked)
             i == Readable(toService)
             j == Readable(toService) + Readable(nodeBuf)
  <2>1. Sent' = Sent
    BY <1>4, <1>5 DEF Sent
  <2> SUFFICES ASSUME node' \in {"dial", "copy"}
               PROVE  /\ Sent <= Len(F)
                      /\ Carries(nodeBuf, F, i) /\ Carries(toNode', F, j)
                      /\ Spread(F, Sent, relayBuf', toRelay') \/ CutShort'
    BY <1>4, <2>1 DEF AfterDispatch, RelayHas
  <2>2. /\ Sent <= Len(F)
        /\ Carries(nodeBuf, F, i) /\ Carries(toNode, F, j)
        /\ Spread(F, Sent, relayBuf, toRelay) \/ CutShort
    BY <1>1 DEF Upstream, AfterDispatch, RelayHas
  <2>3. CutShort => CutShort'
    BY <1>4, <1>5 DEF CutShort
  <2> QED
    BY <1>6, <1>7, <2>2, <2>3
<1>12. Received'
  BY <1>1, <1>4 DEF Upstream, Received
<1>13. EndMeansAll'
  <2>1. node = "dial" => ~Ended(toService)
    BY <1>1, EmptyStream DEF Upstream, Received
  <2> QED
    BY <1>1, <1>4, <1>5, <2>1 DEF Upstream, EndMeansAll
<1> QED
  BY <1>8, <1>9, <1>10, <1>11, <1>12, <1>13 DEF Upstream

\* The relay's peek.
LEMMA RelayPeekUp == ASSUME IInv, RelayPeek PROVE Upstream'
<1>1. Upstream /\ Streams /\ Places
  BY DEF IInv, Upstream
<1>2. relay = "header" /\ node = "none"
      /\ UNCHANGED <<req, relay, toNode, nodeVars, serviceVars>>
      /\ Asked' = Asked
  BY <1>1, AskedFacts DEF RelayPeek, Places, nodeVars
<1>3. toRelay # <<>> /\ relayBuf' = Moved(relayBuf, toRelay) /\ toRelay' = Rest(toRelay)
  BY PeekSteps
<1>4. Stream(toRelay) /\ Stream(relayBuf) /\ ~Ended(relayBuf)
  BY <1>1 DEF Streams
<1>5. Spread(Script(Asked), 0, relayBuf, toRelay)
  BY <1>1, <1>2 DEF Upstream, BeforeAnnounce, RelayHas
<1>6. Carries(relayBuf', Script(Asked), 0) /\ Carries(toRelay', Script(Asked), 0 + Readable(relayBuf'))
  BY <1>3, <1>4, <1>5, MoveCarries DEF Spread
<1>7. 0 + Readable(relayBuf') + Readable(toRelay') = 0 + Readable(relayBuf) + Readable(toRelay)
  <2>1. Readable(relayBuf') + Readable(toRelay') = Readable(relayBuf) + Readable(toRelay)
        /\ Stream(relayBuf') /\ Stream(toRelay')
    BY <1>3, <1>4, MoveFacts
  <2>2. Readable(relayBuf') \in Nat /\ Readable(toRelay') \in Nat
        /\ Readable(relayBuf) \in Nat /\ Readable(toRelay) \in Nat
    BY <1>4, <2>1, StreamFacts
  <2> QED
    BY <2>1, <2>2
<1>8. Spread(Script(Asked'), 0, relayBuf', toRelay')
  BY <1>2, <1>5, <1>6, <1>7 DEF Spread
<1>9. BeforeAnnounce' /\ BeforeMac' /\ BeforeDispatch' /\ AfterDispatch'
  BY <1>1, <1>2, <1>8
     DEF Upstream, BeforeAnnounce, BeforeMac, BeforeDispatch, AfterDispatch, RelayHas, nodeVars
<1>10. Received' /\ EndMeansAll'
  BY <1>1, <1>2 DEF Upstream, Received, EndMeansAll, nodeVars, serviceVars
<1> QED
  BY <1>9, <1>10 DEF Upstream

\* The stream to the node begins with the label, or with its first part.
LEMMA RelayAnnouncesUp == ASSUME IInv, RelayAnnounces PROVE Upstream'
<1>1. Upstream /\ Streams /\ Places
  BY DEF IInv, Upstream
<1>2. relay = "announce" /\ node = "none" /\ LabelOf(req) \in Macs /\ Asked \in RequestType
  BY <1>1 DEF RelayAnnounces, Places
<1>3. /\ UNCHANGED <<req, macRead, toRelay, relayBuf, nodeBuf, toService>>
      /\ node' = "mac" /\ relay' = "copy" /\ Asked' = Asked
  BY <1>1, AskedFacts DEF RelayAnnounces, serviceVars
<1>4. toNode = <<>> /\ Spread(Script(Asked), 0, relayBuf, toRelay)
  BY <1>1, <1>2 DEF Upstream, BeforeAnnounce, RelayHas
<1>5. PICK t \in Tokens : t # FIN /\ Opener(t) /\ toNode' = Append(toNode, t)
  BY <1>2, TokenFacts DEF RelayAnnounces, Opener
<1> DEFINE w == Wire(Asked, t)
           s == Script(Asked)
<1>6. /\ Len(w) = 1 + Len(s) /\ w[1] = t
      /\ \A k \in 1..Len(s) : w[1 + k] = s[k]
  BY <1>2, <1>5, WireFacts
<1>7. Len(s) \in Nat
  BY <1>2, ScriptFacts, StreamFacts
<1> HIDE DEF w, s
<1>8. Readable(toNode') = 1 /\ toNode'[1] = t /\ ~Ended(toNode')
  <2> DEFINE e == <<>>
  <2>1. Stream(e) /\ ~Ended(e) /\ Readable(e) = 0 /\ toNode' = Append(e, t)
    BY <1>4, <1>5, EmptyStream
  <2> HIDE DEF e
  <2>2. /\ Readable(Append(e, t)) = Readable(e) + 1 /\ ~Ended(Append(e, t))
        /\ Append(e, t)[Readable(e) + 1] = t
    BY <1>5, <2>1, AppendFacts
  <2>3. Readable(e) + 1 = 1
    BY <2>1
  <2> QED
    BY <2>1, <2>2, <2>3
<1>9. Carries(toNode', w, 0)
  <2>1. ASSUME NEW k \in 1..Readable(toNode') PROVE toNode'[k] = w[0 + k]
    <3>1. k = 1 /\ 0 + k = 1
      BY <1>8
    <3> QED
      BY <1>6, <1>8, <3>1
  <2> QED
    BY <2>1 DEF Carries
<1>10. Readable(relayBuf) \in Nat /\ Readable(toRelay) \in Nat
  BY <1>1, StreamFacts DEF Streams
<1>11. Readable(relayBuf) + Readable(toRelay) = Len(s)
  BY <1>4, <1>10 DEF Spread, s
<1>12. Carries(relayBuf, w, 1)
  <2>1. Carries(relayBuf, s, 0)
    BY <1>4 DEF Spread, s
  <2>2. ASSUME NEW k \in 1..Readable(relayBuf) PROVE relayBuf[k] = w[1 + k]
    <3>1. k \in 1..Len(s) /\ 0 + k = k
      BY <1>7, <1>10, <1>11
    <3> QED
      BY <1>6, <2>1, <3>1 DEF Carries
  <2> QED
    BY <2>2 DEF Carries
<1>13. Carries(toRelay, w, 1 + Readable(relayBuf))
  <2>1. Carries(toRelay, s, 0 + Readable(relayBuf))
    BY <1>4 DEF Spread, s
  <2>2. ASSUME NEW k \in 1..Readable(toRelay) PROVE toRelay[k] = w[1 + Readable(relayBuf) + k]
    <3>1. /\ Readable(relayBuf) + k \in 1..Len(s)
          /\ 0 + Readable(relayBuf) + k = Readable(relayBuf) + k
          /\ 1 + (Readable(relayBuf) + k) = 1 + Readable(relayBuf) + k
      BY <1>7, <1>10, <1>11
    <3>2. toRelay[k] = s[Readable(relayBuf) + k]
      BY <2>1, <3>1 DEF Carries
    <3>3. w[1 + (Readable(relayBuf) + k)] = s[Readable(relayBuf) + k]
      BY <1>6, <3>1
    <3> QED
      BY <3>1, <3>2, <3>3
  <2> QED
    BY <2>2 DEF Carries
<1>14. 1 + Readable(relayBuf) + Readable(toRelay) = Len(w)
  <2>1. Len(w) = 1 + Len(s)
    BY <1>6
  <2> QED
    BY <1>7, <1>10, <1>11, <2>1
<1>15. Spread(w, Readable(toNode'), relayBuf', toRelay')
  BY <1>3, <1>8, <1>12, <1>13, <1>14 DEF Spread
<1>16. BeforeMac'
  <2>1. Spread(Wire(Asked', t), Readable(toNode'), relayBuf', toRelay')
        /\ Carries(toNode', Wire(Asked', t), 0)
    BY <1>3, <1>9, <1>15 DEF w
  <2>2. Opener(t)'
    BY <1>3, <1>5 DEF Opener
  <2> QED
    BY <2>1, <2>2 DEF BeforeMac, RelayHas
<1>17. BeforeAnnounce' /\ BeforeDispatch' /\ AfterDispatch'
  BY <1>3 DEF BeforeAnnounce, BeforeDispatch, AfterDispatch
<1>18. Received' /\ EndMeansAll'
  BY <1>1, <1>2, <1>3, <1>8 DEF Upstream, Received, EndMeansAll
<1> QED
  BY <1>16, <1>17, <1>18 DEF Upstream

\* The relay forwards to a node that reads the label or the header, or that copies.
LEMMA RelayForwardsUp == ASSUME IInv, RelayForwards PROVE Upstream'
<1>1. Upstream /\ Streams /\ Places
  BY DEF IInv, Upstream
<1>2. /\ relay = "copy" /\ node # "none" /\ ~Ended(toNode)
      /\ UNCHANGED <<req, relay, node, nodeBuf, toService>> /\ Asked' = Asked
  BY <1>1, AskedFacts DEF RelayForwards, Places, nodeVars, serviceVars
<1>3. CopyStep(toNode, relayBuf, toRelay, toNode', relayBuf', toRelay')
  BY ForwardSteps DEF CopyStep
<1>4. /\ Stream(toNode) /\ Stream(relayBuf) /\ ~Ended(relayBuf) /\ Stream(toRelay)
      /\ Readable(toNode) \in Nat /\ Readable(relayBuf) \in Nat /\ Readable(toRelay) \in Nat
      /\ Readable(nodeBuf) \in Nat /\ Readable(toService) \in Nat
  BY <1>1, StreamFacts DEF Streams
<1>5. /\ Readable(toNode') \in Nat /\ Readable(relayBuf') \in Nat /\ Readable(toRelay') \in Nat
      /\ Readable(toNode') + Readable(relayBuf') + Readable(toRelay')
           = Readable(toNode) + Readable(relayBuf) + Readable(toRelay)
      /\ Ended(toNode') => Readable(relayBuf') = 0 /\ Readable(toRelay') = 0
  BY <1>2, <1>3, <1>4, CopyStepFacts
<1>6. ASSUME NEW F, NEW i \in Nat, Carries(toNode, F, i),
             Spread(F, i + Readable(toNode), relayBuf, toRelay)
      PROVE  Carries(toNode', F, i) /\ Spread(F, i + Readable(toNode'), relayBuf', toRelay')
  <2>1. /\ Carries(toNode', F, i) /\ Carries(relayBuf', F, i + Readable(toNode'))
        /\ Carries(toRelay', F, i + Readable(toNode') + Readable(relayBuf'))
    BY <1>2, <1>3, <1>4, <1>6, CopyStepCarries DEF Spread
  <2>2. i + Readable(toNode') + Readable(relayBuf') + Readable(toRelay') = Len(F)
    <3>1. i + Readable(toNode) + Readable(relayBuf) + Readable(toRelay) = Len(F)
      BY <1>6 DEF Spread
    <3>2. i \in Nat
      OBVIOUS
    <3>3. i + Readable(toNode') + Readable(relayBuf') + Readable(toRelay')
            = i + Readable(toNode) + Readable(relayBuf) + Readable(toRelay)
      BY <1>4, <1>5, <3>2
    <3> QED
      BY <3>1, <3>3
  <2> QED
    BY <2>1, <2>2 DEF Spread
<1>7. BeforeMac'
  <2> SUFFICES ASSUME node' = "mac" PROVE BeforeMac'
    BY DEF BeforeMac
  <2>1. PICK t \in Tokens : /\ Opener(t)
                            /\ Spread(Wire(Asked, t), Readable(toNode), relayBuf, toRelay)
                            /\ Carries(toNode, Wire(Asked, t), 0)
    BY <1>1, <1>2 DEF Upstream, BeforeMac, RelayHas
  <2>2. 0 + Readable(toNode) = Readable(toNode) /\ 0 + Readable(toNode') = Readable(toNode')
    BY <1>4, <1>5
  <2>3. Spread(Wire(Asked, t), 0 + Readable(toNode'), relayBuf', toRelay')
        /\ Carries(toNode', Wire(Asked, t), 0)
    BY <1>6, <2>1, <2>2
  <2>4. Spread(Wire(Asked', t), Readable(toNode'), relayBuf', toRelay')
        /\ Carries(toNode', Wire(Asked', t), 0)
    BY <1>2, <2>2, <2>3
  <2> QED
    BY <1>2, <2>1, <2>4 DEF BeforeMac, RelayHas, Opener
<1>8. BeforeDispatch'
  <2> SUFFICES ASSUME node' = "header" PROVE BeforeDispatch'
    BY DEF BeforeDispatch
  <2>1. /\ Len(nodeBuf) <= 2
        /\ Spread(Script(Asked), Readable(nodeBuf) + Readable(toNode), relayBuf, toRelay)
        /\ Carries(nodeBuf, Script(Asked), 0) /\ Carries(toNode, Script(Asked), Readable(nodeBuf))
    BY <1>1, <1>2 DEF Upstream, BeforeDispatch, RelayHas
  <2>2. /\ Spread(Script(Asked), Readable(nodeBuf) + Readable(toNode'), relayBuf', toRelay')
        /\ Carries(toNode', Script(Asked), Readable(nodeBuf))
    BY <1>4, <1>6, <2>1
  <2> QED
    BY <1>2, <2>1, <2>2 DEF BeforeDispatch, RelayHas
<1>9. AfterDispatch'
  <2> SUFFICES ASSUME node' \in {"dial", "copy"} PROVE AfterDispatch'
    BY DEF AfterDispatch
  <2> DEFINE E == Entitled(Asked)
             i == Readable(toService) + Readable(nodeBuf)
  <2>1. /\ Carries(nodeBuf, E, Readable(toService)) /\ Carries(toNode, E, i)
        /\ Spread(E, i + Readable(toNode), relayBuf, toRelay) \/ CutShort
    BY <1>1, <1>2 DEF Upstream, AfterDispatch, RelayHas, Sent
  <2>2. ~CutShort
    BY <1>2 DEF CutShort
  <2>3. i \in Nat
    BY <1>4
  <2> HIDE DEF i, E
  <2>4. Spread(E, i + Readable(toNode'), relayBuf', toRelay') /\ Carries(toNode', E, i)
    BY <1>6, <2>1, <2>2, <2>3
  <2>5. i + Readable(toNode') <= Len(E)
    BY <1>5, <2>3, <2>4 DEF Spread
  <2> QED
    BY <1>2, <2>1, <2>4, <2>5 DEF AfterDispatch, RelayHas, Sent, i, E
<1>10. BeforeAnnounce' /\ Received'
  BY <1>1, <1>2 DEF Upstream, BeforeAnnounce, Received
<1>11. EndMeansAll'
  BY <1>1, <1>2, <1>5 DEF Upstream, EndMeansAll
<1> QED
  BY <1>7, <1>8, <1>9, <1>10, <1>11 DEF Upstream

\* The label is read: what is left on the stream is the script of what the node is asked.
LEMMA NodeReadsMacUp == ASSUME IInv, NodeReadsMac, node' = "header" PROVE Upstream'
<1>1. Upstream /\ Streams /\ Places /\ BeforeMac
  BY DEF IInv, Upstream
<1>2. /\ node = "mac" /\ ReadsLabel
      /\ UNCHANGED <<req, toRelay, relayBuf, relay, nodeBuf, toService>>
  BY LabelPassed DEF relayVars, serviceVars
<1>3. PICK t \in Tokens :
          /\ Opener(t)
          /\ Spread(Wire(Asked, t), Readable(toNode), relayBuf, toRelay)
          /\ Carries(toNode, Wire(Asked, t), 0)
  BY <1>1, <1>2 DEF BeforeMac, RelayHas
<1> DEFINE w == Wire(Asked, t)
           z == Script(Asked)
           s == Script(Asked')
<1>4. t # FIN
  BY <1>1, <1>2, <1>3, TokenFacts DEF Opener, Places
<1>5. /\ Len(w) = 1 + Len(z)
      /\ \A k \in 1..Len(z) : w[1 + k] = z[k]
  BY <1>1, <1>4, WireFacts DEF Places
<1>6. Asked' \in RequestType
  BY <1>1, <1>2, LabelRetyped
<1>7. /\ Len(s) \in Nat /\ Len(z) = Len(s)
      /\ \A k \in 2..Len(s) : s[k] = z[k]
      /\ \/ s = z /\ (1 \in 1..Readable(toNode') => toNode'[1] = toNode[2])
         \/ Readable(toNode') >= 1 /\ toNode'[1] = s[1]
  <2>1. CASE Asked' = Asked /\ (1 \in 1..Readable(toNode') => toNode'[1] = toNode[2])
    BY <1>1, <2>1, ScriptFacts, StreamFacts DEF Places
  <2>2. ASSUME NEW k \in Lines, Asked' = [Asked EXCEPT !.line = k],
               Readable(toNode') >= 1, toNode'[1] = Line(k)
        PROVE  /\ Len(s) \in Nat /\ Len(z) = Len(s)
               /\ \A j \in 2..Len(s) : s[j] = z[j]
               /\ toNode'[1] = s[1]
    BY <1>1, <2>2, SameButLine DEF Places
  <2> QED
    BY <2>1, <2>2, LabelPassed
<1> HIDE DEF w, s, z
<1>8. /\ Stream(toNode) /\ Stream(relayBuf) /\ Stream(toRelay)
      /\ Readable(toNode) \in Nat /\ Readable(relayBuf) \in Nat /\ Readable(toRelay) \in Nat
  BY <1>1, StreamFacts DEF Streams
<1>9. /\ Stream(toNode') /\ Readable(toNode') = Readable(toNode) - 1 /\ Readable(toNode) >= 1
      /\ Ended(toNode') <=> Ended(toNode)
      /\ \A k \in 2..Readable(toNode') : toNode'[k] = toNode[k + 1]
  BY <1>1, <1>2, LabelRead
<1>10. /\ Readable(toNode) + Readable(relayBuf) + Readable(toRelay) = 1 + Len(s)
       /\ Carries(relayBuf, w, Readable(toNode))
       /\ Carries(toRelay, w, Readable(toNode) + Readable(relayBuf))
  BY <1>3, <1>5, <1>7 DEF Spread, w
<1>11. /\ \A k \in 1..Len(s) : k >= 2 \/ Readable(toNode') = 0 => w[1 + k] = s[k]
       /\ 1 \in 1..Readable(toNode') => toNode'[1] = s[1]
  <2>1. ASSUME NEW k \in 1..Len(s), k >= 2 \/ Readable(toNode') = 0 PROVE w[1 + k] = s[k]
    <3>1. w[1 + k] = z[k]
      BY <1>5, <1>7
    <3>2. CASE s = z
      BY <3>1, <3>2
    <3>3. CASE Readable(toNode') >= 1
      <4>1. k \in 2..Len(s)
        BY <1>7, <2>1, <3>3
      <4> QED
        BY <1>7, <3>1, <4>1
    <3> QED
      BY <1>7, <3>2, <3>3
  <2>2. ASSUME 1 \in 1..Readable(toNode'), s = z, toNode'[1] = toNode[2] PROVE toNode'[1] = s[1]
    <3>1. 2 \in 1..Readable(toNode) /\ 1 \in 1..Len(z) /\ 0 + 2 = 1 + 1
      BY <1>7, <1>8, <1>9, <1>10, <2>2
    <3>2. toNode[2] = w[0 + 2] /\ w[1 + 1] = z[1]
      BY <1>3, <1>5, <3>1 DEF Carries, w
    <3> QED
      BY <2>2, <3>1, <3>2
  <2> QED
    BY <1>7, <2>1, <2>2
<1>12. Carries(toNode', s, 0)
  <2>1. ASSUME NEW k \in 1..Readable(toNode') PROVE toNode'[k] = s[0 + k]
    <3>1. k + 1 \in 1..Readable(toNode) /\ 0 + k = k /\ k \in 1..Len(s) /\ 0 + (k + 1) = 1 + k
      BY <1>7, <1>8, <1>9, <1>10
    <3>2. CASE k = 1
      BY <1>11, <3>1, <3>2
    <3>3. CASE k >= 2
      <4>1. k \in 2..Readable(toNode')
        BY <3>1, <3>3
      <4>2. toNode[k + 1] = w[0 + (k + 1)]
        BY <1>3, <3>1 DEF Carries, w
      <4>3. w[1 + k] = s[k]
        BY <1>11, <3>1, <3>3
      <4> QED
        BY <1>9, <3>1, <4>1, <4>2, <4>3
    <3> QED
      BY <3>1, <3>2, <3>3
  <2> QED
    BY <2>1 DEF Carries
<1>13. Carries(relayBuf, s, Readable(toNode'))
  <2>1. ASSUME NEW k \in 1..Readable(relayBuf) PROVE w[Readable(toNode) + k] = s[Readable(toNode') + k]
    <3>1. /\ Readable(toNode') + k \in 1..Len(s)
          /\ Readable(toNode') + k >= 2 \/ Readable(toNode') = 0
          /\ 1 + (Readable(toNode') + k) = Readable(toNode) + k
      BY <1>7, <1>8, <1>9, <1>10
    <3> QED
      BY <1>11, <3>1
  <2> QED
    BY <1>10, <2>1, CarriesOver
<1>14. Carries(toRelay, s, Readable(toNode') + Readable(relayBuf))
  <2>1. ASSUME NEW k \in 1..Readable(toRelay)
        PROVE  w[Readable(toNode) + Readable(relayBuf) + k] = s[Readable(toNode') + Readable(relayBuf) + k]
    <3>1. /\ Readable(toNode') + Readable(relayBuf) + k \in 1..Len(s)
          /\ Readable(toNode') + Readable(relayBuf) + k >= 2 \/ Readable(toNode') = 0
          /\ 1 + (Readable(toNode') + Readable(relayBuf) + k) = Readable(toNode) + Readable(relayBuf) + k
      BY <1>7, <1>8, <1>9, <1>10
    <3> QED
      BY <1>11, <3>1
  <2> QED
    BY <1>10, <2>1, CarriesOver
<1>15. Readable(toNode') + Readable(relayBuf) + Readable(toRelay) = Len(s)
  BY <1>7, <1>8, <1>9, <1>10
<1>16. Spread(s, Readable(toNode'), relayBuf, toRelay)
  BY <1>13, <1>14, <1>15 DEF Spread
<1>17. nodeBuf = <<>> /\ toService = <<>>
  BY <1>1, <1>2 DEF Upstream, Received
<1>18. BeforeDispatch'
  <2>1. Readable(nodeBuf) = 0 /\ 0 + Readable(toNode') = Readable(toNode') /\ Len(<<>>) = 0
    BY <1>8, <1>9, <1>17, EmptyStream
  <2>2. Len(nodeBuf') <= 2 /\ Carries(nodeBuf', s, 0)
    BY <1>2, <1>17, <2>1, EmptyStream
  <2> QED
    BY <1>2, <1>12, <1>16, <2>1, <2>2 DEF BeforeDispatch, RelayHas, s
<1>19. BeforeAnnounce' /\ BeforeMac' /\ AfterDispatch'
  BY DEF BeforeAnnounce, BeforeMac, AfterDispatch
<1>20. Received'
  <2>1. Len(Entitled(Asked')) \in Nat
    BY <1>6, EntitledFacts
  <2> QED
    BY <1>1, <1>2, <1>17, <2>1, EmptyStream DEF Upstream, Received
<1>21. EndMeansAll'
  BY <1>1, <1>2, <1>9 DEF Upstream, EndMeansAll
<1> QED
  BY <1>18, <1>19, <1>20, <1>21 DEF Upstream

\* The header that a peek has read so far.
LEMMA HeaderSoFar ==
  ASSUME IInv, node = "header"
  PROVE  /\ Readable(nodeBuf) = Len(nodeBuf) /\ Len(nodeBuf) \in 0..2
         /\ nodeBuf # <<>> => nodeBuf[1] = Line(Asked.line)
         /\ Len(nodeBuf) = 2 => Asked.complete /\ nodeBuf[2] = END
         /\ nodeBuf # <<>> /\ Last(nodeBuf) = END => Len(nodeBuf) = 2
<1>1. Streams /\ BeforeDispatch /\ Asked \in RequestType
  BY DEF IInv, Places
<1>2. Stream(nodeBuf) /\ ~Ended(nodeBuf)
  BY <1>1 DEF Streams
<1>3. /\ Len(nodeBuf) <= 2 /\ Carries(nodeBuf, Script(Asked), 0)
      /\ Readable(nodeBuf) + Readable(toNode) + Readable(relayBuf) + Readable(toRelay) = Len(Script(Asked))
  BY <1>1 DEF BeforeDispatch, RelayHas, Spread
<1>4. /\ Readable(nodeBuf) = Len(nodeBuf) /\ Len(nodeBuf) \in Nat
      /\ Readable(toNode) \in Nat /\ Readable(relayBuf) \in Nat /\ Readable(toRelay) \in Nat
      /\ nodeBuf # <<>> => Len(nodeBuf) > 0
  BY <1>1, <1>2, StreamFacts DEF Streams
<1>5. \A k \in 1..Len(nodeBuf) : nodeBuf[k] = Script(Asked)[k]
  BY <1>3, <1>4 DEF Carries
<1>6. nodeBuf # <<>> => nodeBuf[1] = Line(Asked.line)
  BY <1>1, <1>4, <1>5, ScriptFacts
<1>7. Len(nodeBuf) = 2 => Asked.complete /\ nodeBuf[2] = END
  <2>1. Len(nodeBuf) = 2 => Len(Script(Asked)) >= 2
    BY <1>3, <1>4
  <2>2. Len(nodeBuf) = 2 => Asked.complete
    <3> SUFFICES ASSUME Len(nodeBuf) = 2, ~Asked.complete PROVE FALSE
      OBVIOUS
    <3>1. Len(Script(Asked)) = 1
      BY <1>1, ScriptFacts
    <3> QED
      BY <2>1, <3>1
  <2> QED
    BY <1>1, <1>5, <2>2, ScriptFacts
<1>8. nodeBuf # <<>> /\ Last(nodeBuf) = END => Len(nodeBuf) = 2
  <2> SUFFICES ASSUME nodeBuf # <<>>, Last(nodeBuf) = END, Len(nodeBuf) = 1 PROVE FALSE
    BY <1>3, <1>4
  <2>1. nodeBuf[1] = END
    BY DEF Last
  <2>2. Line(Asked.line) = END /\ Asked.line \in Lines
    BY <1>1, <1>6, <2>1, ScriptFacts
  <2> QED
    BY <2>2, TokenFacts
<1>9. Len(nodeBuf) \in 0..2
  BY <1>3, <1>4
<1> QED
  BY <1>4, <1>6, <1>7, <1>8, <1>9, Zenon

\* The node's peek.
LEMMA NodePeekUp == ASSUME IInv, NodePeek PROVE Upstream'
<1>1. Upstream /\ Streams /\ Places
  BY DEF IInv, Upstream
<1>2. /\ node = "header" /\ ~HeaderRead(nodeBuf, toNode)
      /\ UNCHANGED <<req, toRelay, relayBuf, relay, node, toService>> /\ Asked' = Asked
  BY <1>1, AskedFacts DEF NodePeek, relayVars, serviceVars
<1>3. toNode # <<>> /\ Head(toNode) # FIN /\ nodeBuf' = Moved(nodeBuf, toNode) /\ toNode' = Rest(toNode)
  BY PeekSteps
<1>4. Stream(toNode) /\ Stream(nodeBuf) /\ ~Ended(nodeBuf)
  BY <1>1 DEF Streams
<1>5. /\ Carries(nodeBuf, Script(Asked), 0) /\ Carries(toNode, Script(Asked), Readable(nodeBuf))
      /\ Spread(Script(Asked), Readable(nodeBuf) + Readable(toNode), relayBuf, toRelay)
  BY <1>1, <1>2 DEF Upstream, BeforeDispatch, RelayHas
<1>6. Carries(nodeBuf', Script(Asked), 0) /\ Carries(toNode', Script(Asked), Readable(nodeBuf'))
  <2>1. 0 + Readable(nodeBuf) = Readable(nodeBuf)
    BY <1>4, StreamFacts
  <2>2. /\ Carries(Moved(nodeBuf, toNode), Script(Asked), 0)
        /\ Carries(Rest(toNode), Script(Asked), 0 + Readable(Moved(nodeBuf, toNode)))
    BY <1>3, <1>4, <1>5, <2>1, MoveCarries
  <2>3. Stream(Moved(nodeBuf, toNode))
    BY <1>3, <1>4, MoveFacts
  <2>4. 0 + Readable(Moved(nodeBuf, toNode)) = Readable(Moved(nodeBuf, toNode))
    BY <2>3, StreamFacts
  <2> QED
    BY <1>3, <2>2, <2>4
<1>7. /\ Readable(nodeBuf') + Readable(toNode') = Readable(nodeBuf) + Readable(toNode)
      /\ Readable(nodeBuf') = Readable(nodeBuf) + 1 /\ Len(nodeBuf') = Readable(nodeBuf')
      /\ Ended(toNode') <=> Ended(toNode)
  <2>1. /\ Stream(nodeBuf') /\ ~Ended(nodeBuf')
        /\ Readable(nodeBuf') + Readable(toNode') = Readable(nodeBuf) + Readable(toNode)
        /\ Readable(nodeBuf') = Readable(nodeBuf) + 1
        /\ Ended(toNode') <=> Ended(toNode)
    BY <1>3, <1>4, MoveFacts
  <2> QED
    BY <2>1, StreamFacts
<1>8. Len(nodeBuf') <= 2
  <2>1. /\ Readable(nodeBuf) = Len(nodeBuf) /\ Len(nodeBuf) \in 0..2
        /\ Len(nodeBuf) = 2 => nodeBuf[2] = END
    BY <1>2, HeaderSoFar
  <2>2. Len(nodeBuf) # 2
    <3> SUFFICES ASSUME Len(nodeBuf) = 2 PROVE FALSE
      OBVIOUS
    <3>1. nodeBuf # <<>> /\ Last(nodeBuf) = END
      BY <1>4, <2>1, StreamFacts DEF Last
    <3> QED
      BY <1>2, <3>1 DEF HeaderRead
  <2> QED
    BY <1>7, <2>1, <2>2
<1>9. BeforeDispatch'
  BY <1>2, <1>5, <1>6, <1>7, <1>8 DEF BeforeDispatch, RelayHas
<1>10. BeforeAnnounce' /\ BeforeMac' /\ AfterDispatch'
  BY <1>2 DEF BeforeAnnounce, BeforeMac, AfterDispatch
<1>11. Received' /\ EndMeansAll'
  BY <1>1, <1>2, <1>7 DEF Upstream, Received, EndMeansAll
<1> QED
  BY <1>9, <1>10, <1>11 DEF Upstream

\* The node forwards to the service.
LEMMA NodeForwardsUp == ASSUME IInv, NodeForwards PROVE Upstream'
<1>1. Upstream /\ Streams /\ Places
  BY DEF IInv, Upstream
<1>2. /\ node = "copy" /\ ~Ended(toService)
      /\ UNCHANGED <<req, toRelay, relayBuf, relay, node>> /\ Asked' = Asked
  BY <1>1, AskedFacts DEF NodeForwards, relayVars
<1>3. CopyStep(toService, nodeBuf, toNode, toService', nodeBuf', toNode')
  BY ForwardSteps DEF CopyStep
<1>4. /\ Stream(toService) /\ Stream(nodeBuf) /\ ~Ended(nodeBuf) /\ Stream(toNode)
      /\ Readable(toService) \in Nat /\ Readable(nodeBuf) \in Nat /\ Readable(toNode) \in Nat
  BY <1>1, StreamFacts DEF Streams
<1>5. /\ Readable(toService') \in Nat /\ Readable(nodeBuf') \in Nat /\ Readable(toNode') \in Nat
      /\ Sent' = Sent
      /\ Ended(toNode') <=> Ended(toNode)
      /\ Ended(toService') => Readable(nodeBuf') = 0 /\ Readable(toNode') = 0 /\ Ended(toNode')
  BY <1>2, <1>3, <1>4, CopyStepFacts DEF Sent
<1> DEFINE E == Entitled(Asked)
<1>6. /\ Carries(toService, E, 0) /\ Carries(nodeBuf, E, Readable(toService))
      /\ Carries(toNode, E, Readable(toService) + Readable(nodeBuf))
      /\ Sent <= Len(E) /\ Len(E) \in Nat
      /\ Spread(E, Sent, relayBuf, toRelay) \/ CutShort
  BY <1>1, <1>2, EntitledFacts DEF Upstream, AfterDispatch, Received, RelayHas, Places
<1> HIDE DEF E
<1>7. /\ Carries(toService', E, 0) /\ Carries(nodeBuf', E, Readable(toService'))
      /\ Carries(toNode', E, Readable(toService') + Readable(nodeBuf'))
  <2>1. 0 + Readable(toService) = Readable(toService) /\ 0 + Readable(toService') = Readable(toService')
    BY <1>4, <1>5
  <2>2. /\ Carries(toService', E, 0) /\ Carries(nodeBuf', E, 0 + Readable(toService'))
        /\ Carries(toNode', E, 0 + Readable(toService') + Readable(nodeBuf'))
    BY <1>2, <1>3, <1>4, <1>6, <2>1, CopyStepCarries
  <2> QED
    BY <2>1, <2>2
<1>8. CutShort => CutShort'
  BY <1>2, <1>5 DEF CutShort
<1>9. Spread(E, Sent', relayBuf', toRelay') \/ CutShort'
  BY <1>2, <1>5, <1>6, <1>8
<1>10. AfterDispatch'
  BY <1>2, <1>5, <1>6, <1>7, <1>9 DEF AfterDispatch, RelayHas, E
<1>11. Received'
  <2>1. Readable(toService') <= Len(E)
    BY <1>4, <1>5, <1>6 DEF Sent
  <2> QED
    BY <1>2, <1>7, <2>1 DEF Received, E
<1>12. BeforeAnnounce' /\ BeforeMac' /\ BeforeDispatch'
  BY <1>2 DEF BeforeAnnounce, BeforeMac, BeforeDispatch
<1>13. EndMeansAll'
  BY <1>1, <1>2, <1>5 DEF Upstream, EndMeansAll
<1> QED
  BY <1>10, <1>11, <1>12, <1>13 DEF Upstream

\* When the header is over: it is whole, or it is cut short and nothing follows.
LEMMA HeaderOver ==
  ASSUME IInv, NodeDispatches
  PROVE  /\ nodeBuf # <<>> /\ nodeBuf[1] = Line(Asked.line) /\ Len(nodeBuf) \in 1..2
         /\ \/ Len(nodeBuf) = 2 /\ Asked.complete
            \/ /\ Len(nodeBuf) = 1 /\ Ended(toNode) /\ Readable(toNode) = 0
               /\ Len(Script(Asked)) = 1 \/ CutShort
<1>1. Upstream /\ Streams /\ Places
  BY DEF IInv, Upstream
<1>2. node = "header" /\ HeaderRead(nodeBuf, toNode) /\ nodeBuf # <<>>
  BY DEF NodeDispatches, Parses
<1>3. /\ Readable(nodeBuf) = Len(nodeBuf) /\ Len(nodeBuf) \in 0..2
      /\ nodeBuf[1] = Line(Asked.line)
      /\ Len(nodeBuf) = 2 => Asked.complete
      /\ Last(nodeBuf) = END => Len(nodeBuf) = 2
  BY <1>2, HeaderSoFar
<1>4. Len(nodeBuf) # 0
  BY <1>1, <1>2, StreamFacts DEF Streams
<1>5. CASE Len(nodeBuf) = 2
  BY <1>2, <1>3, <1>5
<1>6. CASE Len(nodeBuf) # 2
  <2>1. toNode # <<>> /\ Head(toNode) = FIN
    BY <1>2, <1>3, <1>6 DEF HeaderRead
  <2>2. Ended(toNode) /\ Readable(toNode) = 0
    BY <1>1, <2>1, StreamFacts DEF Streams
  <2>3. Len(nodeBuf) = 1
    BY <1>3, <1>4, <1>6
  <2>4. Readable(nodeBuf) + Readable(toNode) + Readable(relayBuf) + Readable(toRelay) = Len(Script(Asked))
    BY <1>1, <1>2 DEF Upstream, BeforeDispatch, RelayHas, Spread
  <2>5. Readable(relayBuf) \in Nat /\ Readable(toRelay) \in Nat
    BY <1>1, StreamFacts DEF Streams
  <2>6. Len(Script(Asked)) = 1 + (Readable(relayBuf) + Readable(toRelay))
    BY <1>3, <2>2, <2>3, <2>4, <2>5
  <2>7. relay \in {"copy", "closed"}
    BY <1>1, <1>2 DEF Places
  <2>8. relay = "copy" => Readable(relayBuf) = 0 /\ Readable(toRelay) = 0
    BY <1>1, <2>2 DEF Upstream, EndMeansAll
  <2>9. Len(Script(Asked)) = 1 \/ CutShort
    BY <2>2, <2>5, <2>6, <2>7, <2>8 DEF CutShort
  <2> QED
    BY <1>2, <1>3, <2>2, <2>3, <2>9
<1> QED
  BY <1>5, <1>6

\* The header is dropped, replaced or kept; then the node has a part of what the service
\* is to get.
LEMMA NodeDispatchesUp == ASSUME IInv, NodeDispatches PROVE Upstream'
<1>1. Upstream /\ Streams /\ Places /\ Asked \in RequestType
  BY DEF IInv, Upstream, Places
<1>2. /\ node = "header" /\ node' = "dial" /\ nodeBuf' = Rewritten(nodeBuf)
      /\ UNCHANGED <<req, toRelay, relayBuf, relay, toNode, toService>> /\ Asked' = Asked
  BY <1>1, AskedFacts DEF NodeDispatches, relayVars, serviceVars
<1>3. toService = <<>>
  BY <1>1, <1>2 DEF Upstream, Received
<1> DEFINE S == Script(Asked)
           E == Entitled(Asked)
           b == Readable(nodeBuf)
           c == Readable(toNode)
           r == Readable(relayBuf)
           t == Readable(toRelay)
           d == Readable(nodeBuf')
<1>4. /\ Carries(nodeBuf, S, 0) /\ Carries(toNode, S, b)
      /\ Carries(relayBuf, S, b + c) /\ Carries(toRelay, S, b + c + r)
      /\ b + c + r + t = Len(S)
  BY <1>1, <1>2 DEF Upstream, BeforeDispatch, RelayHas, Spread
<1>5. b \in Nat /\ c \in Nat /\ r \in Nat /\ t \in Nat /\ b = Len(nodeBuf) /\ Len(S) \in Nat
  BY <1>1, <1>2, StreamFacts, HeaderSoFar, ScriptFacts DEF Streams
<1>6. /\ nodeBuf[1] = Line(Asked.line) /\ b \in 1..2
      /\ \/ b = 2 /\ Asked.complete
         \/ /\ b = 1 /\ Ended(toNode) /\ c = 0
            /\ Len(S) = 1 \/ CutShort
  BY <1>5, HeaderOver
<1>7. CutShort => CutShort'
  BY <1>2 DEF CutShort
<1> HIDE DEF S, E, b, c, r, t, d
<1>8. SUFFICES /\ d \in Nat /\ d + c <= Len(E)
               /\ Carries(nodeBuf', E, 0) /\ Carries(toNode, E, d)
               /\ \/ /\ Carries(relayBuf, E, d + c) /\ Carries(toRelay, E, d + c + r)
                     /\ d + c + r + t = Len(E)
                  \/ CutShort'
  <2>1. Readable(toService') = 0
    BY <1>2, <1>3, EmptyStream
  <2>2. 0 + d + c = d + c /\ 0 + d = d
    BY <1>5, <1>8
  <2>3. Sent' = d + c
    BY <1>2, <2>1, <2>2 DEF Sent, d, c
  <2>4. Spread(E, d + c, relayBuf, toRelay) \/ CutShort'
    BY <1>8 DEF Spread, r, t
  <2>5. AfterDispatch'
    BY <1>2, <1>8, <2>1, <2>2, <2>3, <2>4 DEF AfterDispatch, RelayHas, E, d
  <2>6. BeforeAnnounce' /\ BeforeMac' /\ BeforeDispatch'
    BY <1>2 DEF BeforeAnnounce, BeforeMac, BeforeDispatch
  <2>7. Received' /\ EndMeansAll'
    BY <1>1, <1>2, <1>3 DEF Upstream, Received, EndMeansAll
  <2> QED
    BY <2>5, <2>6, <2>7 DEF Upstream
<1>9. CASE ~ByHeader(Asked)
  <2>1. E = S
    BY <1>1, <1>9, EntitledFacts DEF E, S
  <2>2. Rewritten(nodeBuf) = nodeBuf
    <3>1. /\ nodeBuf[1] # Line("CONNECT") /\ nodeBuf[1] # Line("PROXY")
          /\ nodeBuf[1] # Line("CUTPROXY")
      BY <1>6, <1>9 DEF Line, ByHeader
    <3> QED
      BY <3>1, Zenon DEF Rewritten
  <2>3. d = b
    BY <1>2, <2>2 DEF d, b
  <2> QED
    BY <1>2, <1>4, <1>5, <2>1, <2>2, <2>3
<1>10. CASE Asked.line = "CONNECT"
  <2>1. nodeBuf' = <<>>
    <3>1. /\ nodeBuf[1] = Line("CONNECT") /\ Line("CONNECT") # Line("PROXY")
          /\ Line("CONNECT") # Line("CUTPROXY")
      BY <1>6, <1>10 DEF Line
    <3> QED
      BY <1>2, <3>1 DEF Rewritten
  <2>2. d = 0 /\ Carries(nodeBuf', E, 0)
    BY <2>1, EmptyStream DEF d
  <2>3. /\ Len(E) = IF Asked.complete THEN Asked.data ELSE 0
        /\ Asked.complete => \A k \in 1..Asked.data : E[k] = S[k + 2]
    BY <1>1, <1>10, EntitledFacts DEF E, S
  <2>4. Asked.data \in Nat /\ Len(S) = IF Asked.complete THEN 2 + Asked.data ELSE 1
    BY <1>1, ScriptFacts DEF S
  <2>5. CASE b = 2 /\ Asked.complete
    <3>1. Len(E) = Asked.data /\ Len(S) = 2 + Asked.data /\ \A k \in 1..Asked.data : E[k] = S[k + 2]
      BY <2>3, <2>4, <2>5
    <3>2. Carries(toNode, E, 0)
      <4>1. ASSUME NEW k \in 1..c PROVE S[b + k] = E[0 + k]
        <5>1. k \in 1..Asked.data /\ 0 + k = k /\ b + k = k + 2
          BY <1>4, <1>5, <2>4, <2>5, <3>1
        <5> QED
          BY <3>1, <5>1
      <4> QED
        BY <1>4, <4>1, CarriesOver DEF c
    <3>3. Carries(relayBuf, E, c)
      <4>1. ASSUME NEW k \in 1..r PROVE S[b + c + k] = E[c + k]
        <5>1. c + k \in 1..Asked.data /\ b + c + k = (c + k) + 2
          BY <1>4, <1>5, <2>4, <2>5, <3>1
        <5> QED
          BY <3>1, <5>1
      <4> QED
        BY <1>4, <4>1, CarriesOver DEF r
    <3>4. Carries(toRelay, E, c + r)
      <4>1. ASSUME NEW k \in 1..t PROVE S[b + c + r + k] = E[c + r + k]
        <5>1. c + r + k \in 1..Asked.data /\ b + c + r + k = (c + r + k) + 2
          BY <1>4, <1>5, <2>4, <2>5, <3>1
        <5> QED
          BY <3>1, <5>1
      <4> QED
        BY <1>4, <4>1, CarriesOver DEF t
    <3>5. d \in Nat /\ d + c <= Len(E) /\ d + c = c /\ d + c + r = c + r /\ d + c + r + t = Len(E)
      BY <1>4, <1>5, <2>2, <2>4, <2>5, <3>1
    <3> QED
      BY <2>2, <3>2, <3>3, <3>4, <3>5
  <2>6. CASE b = 1 /\ Ended(toNode) /\ c = 0 /\ (Len(S) = 1 \/ CutShort)
    <3>1. Len(E) \in Nat /\ d + c = 0 /\ d + c <= Len(E)
      BY <1>1, <2>2, <2>6, EntitledFacts DEF E
    <3>2. Carries(toNode, E, d)
      BY <2>6 DEF Carries, c
    <3>3. CASE CutShort
      BY <1>7, <2>2, <3>1, <3>2, <3>3
    <3>4. CASE Len(S) = 1
      <4>1. r = 0 /\ t = 0
        BY <1>4, <1>5, <2>6, <3>4
      <4>2. Len(E) = 0
        <5>1. ~Asked.complete
          BY <2>4, <3>4
        <5> QED
          BY <2>3, <5>1
      <4>3. Carries(relayBuf, E, d + c) /\ Carries(toRelay, E, d + c + r)
        BY <4>1 DEF Carries, r, t
      <4>4. d + c + r + t = Len(E)
        BY <2>2, <2>6, <4>1, <4>2
      <4> QED
        BY <2>2, <3>1, <3>2, <4>3, <4>4
    <3> QED
      BY <2>6, <3>3, <3>4
  <2> QED
    BY <1>6, <2>5, <2>6
<1>11. CASE Asked.line \in {"PROXY", "CUTPROXY"}
  <2>1. nodeBuf' = <<Line(Direct(Asked)), END>>
    <3>1. /\ nodeBuf[1] = Line(Asked.line)
          /\ Line("PROXY") # Line("CONNECT") /\ Line("CUTPROXY") # Line("CONNECT")
          /\ Line("CUTPROXY") # Line("PROXY")
      BY <1>6 DEF Line
    <3>2. CASE Asked.line = "PROXY"
      BY <1>2, <3>1, <3>2 DEF Rewritten, Direct
    <3>3. CASE Asked.line = "CUTPROXY"
      BY <1>2, <3>1, <3>3 DEF Rewritten, Direct
    <3> QED
      BY <1>11, <3>2, <3>3
  <2>2. d = 2 /\ nodeBuf'[1] = Line(Direct(Asked)) /\ nodeBuf'[2] = END
    <3>1. Direct(Asked) \in Lines
      BY DEF Direct, Lines
    <3> QED
      BY <2>1, <3>1, GetHeader DEF d
  <2>3. /\ Len(E) = IF Asked.complete THEN 2 + Asked.data ELSE 2
        /\ E[1] = Line(Direct(Asked)) /\ E[2] = END
        /\ Asked.complete => \A k \in 1..Asked.data : E[k + 2] = S[k + 2]
    BY <1>1, <1>11, EntitledFacts DEF E, S
  <2>4. Asked.data \in Nat /\ Len(S) = IF Asked.complete THEN 2 + Asked.data ELSE 1
    BY <1>1, ScriptFacts DEF S
  <2>5. Carries(nodeBuf', E, 0)
    <3>1. ASSUME NEW k \in 1..d PROVE nodeBuf'[k] = E[0 + k]
      <4>1. k = 1 \/ k = 2
        BY <2>2
      <4> QED
        BY <2>2, <2>3, <4>1
    <3> QED
      BY <3>1 DEF Carries, d
  <2>6. CASE b = 2 /\ Asked.complete
    <3>1. Len(E) = 2 + Asked.data /\ Len(S) = 2 + Asked.data /\ \A k \in 1..Asked.data : E[k + 2] = S[k + 2]
      BY <2>3, <2>4, <2>6
    <3>2. ASSUME NEW j \in 3..Len(S) PROVE S[j] = E[j]
      <4>1. j - 2 \in 1..Asked.data /\ (j - 2) + 2 = j
        BY <2>4, <3>1
      <4> QED
        BY <3>1, <4>1
    <3>3. Carries(toNode, E, d)
      <4>1. ASSUME NEW k \in 1..c PROVE S[b + k] = E[d + k]
        <5>1. b + k \in 3..Len(S) /\ b + k = d + k
          BY <1>4, <1>5, <2>2, <2>6
        <5> QED
          BY <3>2, <5>1
      <4> QED
        BY <1>4, <4>1, CarriesOver DEF c
    <3>4. b = d
      BY <2>2, <2>6
    <3>5. Carries(relayBuf, E, d + c)
      <4>1. ASSUME NEW k \in 1..r PROVE S[b + c + k] = E[d + c + k]
        <5>1. b + c + k \in 3..Len(S)
          BY <1>4, <1>5, <2>6
        <5> QED
          BY <3>2, <3>4, <5>1
      <4> QED
        BY <1>4, <4>1, CarriesOver DEF r
    <3>6. Carries(toRelay, E, d + c + r)
      <4>1. ASSUME NEW k \in 1..t PROVE S[b + c + r + k] = E[d + c + r + k]
        <5>1. b + c + r + k \in 3..Len(S)
          BY <1>4, <1>5, <2>6
        <5> QED
          BY <3>2, <3>4, <5>1
      <4> QED
        BY <1>4, <4>1, CarriesOver DEF t
    <3>7. d \in Nat /\ d + c <= Len(E) /\ d + c + r + t = Len(E)
      BY <1>4, <1>5, <3>1, <3>4
    <3> QED
      BY <2>5, <3>3, <3>5, <3>6, <3>7
  <2>7. CASE b = 1 /\ Ended(toNode) /\ c = 0 /\ (Len(S) = 1 \/ CutShort)
    <3>1. d \in Nat /\ d + c = 2 /\ d + c <= Len(E)
      BY <2>2, <2>3, <2>4, <2>7
    <3>2. Carries(toNode, E, d)
      BY <2>7 DEF Carries, c
    <3>3. CASE CutShort
      BY <1>7, <2>5, <3>1, <3>2, <3>3
    <3>4. CASE Len(S) = 1
      <4>1. r = 0 /\ t = 0
        BY <1>4, <1>5, <2>7, <3>4
      <4>2. Len(E) = 2
        <5>1. ~Asked.complete
          BY <2>4, <3>4
        <5> QED
          BY <2>3, <5>1
      <4>3. Carries(relayBuf, E, d + c) /\ Carries(toRelay, E, d + c + r)
        BY <4>1 DEF Carries, r, t
      <4>4. d + c + r + t = Len(E)
        BY <3>1, <4>1, <4>2
      <4> QED
        BY <2>5, <3>1, <3>2, <4>3, <4>4
    <3> QED
      BY <2>7, <3>3, <3>4
  <2> QED
    BY <1>6, <2>6, <2>7
<1> QED
  BY <1>9, <1>10, <1>11 DEF ByHeader

\* When handle_bi has returned, what the service has is what it will have.
LEMMA NodeReturnsUp ==
  ASSUME IInv,
         \/ NodeReadsMac /\ node' # "header"
         \/ NodeMacTruncated \/ NodeRejects \/ NodeDialFails \/ NodeDone \/ NodeFails
  PROVE  Upstream'
<1>1. Upstream /\ Streams /\ Places
  BY DEF IInv, Upstream
<1>2. PICK a : /\ NodeReturns(a)
               /\ UNCHANGED <<toNode, macRead>> \/ (node = "mac" /\ ReadsLabel)
  BY NodeReturnsCases
<1>3. node' = "closed" /\ UNCHANGED <<req, toRelay, relayBuf, relay>>
  BY <1>2 DEF NodeReturns, relayVars
<1>4. Ended(toNode') <=> Ended(toNode)
  <2>1. CASE UNCHANGED <<toNode, macRead>>
    BY <2>1
  <2>2. CASE node = "mac" /\ ReadsLabel
    BY <1>1, <2>2, LabelRead DEF Upstream
  <2> QED
    BY <1>2, <2>1, <2>2
<1>5. toService' = toService \/ toService' = Close(toService)
  BY <1>2 DEF NodeReturns
<1>6. /\ Readable(toService') = Readable(toService)
      /\ \A k \in 1..Readable(toService) : toService'[k] = toService[k]
  BY <1>1, <1>5, CloseFacts DEF Streams
<1>7. Received'
  <2>1. CASE UNCHANGED macRead
    <3>1. Carries(toService', Entitled(Asked), 0) /\ Asked' = Asked
      BY <1>1, <1>3, <1>6, <2>1, AskedFacts, CarriesSame DEF Upstream, Received
    <3> QED
      BY <1>1, <1>3, <1>6, <3>1 DEF Upstream, Received
  <2>2. CASE node = "mac" /\ ReadsLabel
    <3>1. Readable(toService') = 0
      BY <1>1, <1>6, <2>2, EmptyStream DEF Upstream, Received
    <3>2. Len(Entitled(Asked')) \in Nat
      BY <1>1, <1>3, <2>2, LabelRetyped, EntitledFacts DEF Upstream
    <3> QED
      BY <1>3, <3>1, <3>2 DEF Received, Carries
  <2> QED
    BY <1>2, <2>1, <2>2
<1>8. BeforeAnnounce' /\ BeforeMac' /\ BeforeDispatch' /\ AfterDispatch'
  BY <1>3 DEF BeforeAnnounce, BeforeMac, BeforeDispatch, AfterDispatch
<1>9. EndMeansAll'
  BY <1>1, <1>3, <1>4 DEF Upstream, EndMeansAll
<1> QED
  BY <1>7, <1>8, <1>9 DEF Upstream

\* The way of the request, one action at a time.
LEMMA UpstreamInv == ASSUME IInv, [Next]_vars PROVE Upstream'
<1> USE DEF relayVars, nodeVars, serviceVars
<1>1. CASE HeaderTooLong \/ RelayRejects \/ RelayOffline \/ RelayDone \/ RelayFails \/ BrowserResets
  <2>1. PICK a : /\ RelayReturns(a) /\ Stream(toBrowser \o a)
                 /\ relay # "closed"
                 /\ UNCHANGED <<req, relayBuf, nodeVars, serviceVars, toBack>>
                 /\ toRelay' = toRelay \/ toRelay' = Close(toRelay)
    BY <1>1, RelayReturnsCases
  <2>2. /\ relay' = "closed"
        /\ toNode' = toNode \/ (toNode' = Close(toNode) /\ node # "none")
    BY <2>1 DEF RelayReturns, IInv, Places
  <2> QED
    BY <2>1, <2>2, UpstreamKept
<1>2. CASE \/ NodeReadsMac /\ node' # "header"
           \/ NodeMacTruncated \/ NodeRejects \/ NodeDialFails \/ NodeDone \/ NodeFails
  BY <1>2, NodeReturnsUp
<1>3. CASE RelayAccepts \/ RelayOpens
  <2>1. /\ UNCHANGED <<req, macRead, relayBuf, nodeBuf, toService, node, toRelay, toNode>>
        /\ relay # "closed" /\ relay' # "copy"
    BY <1>3 DEF RelayAccepts, RelayOpens
  <2> QED
    BY <2>1, UpstreamKept
<1>4. CASE BrowserCloses
  <2>1. /\ UNCHANGED <<req, macRead, relayBuf, nodeBuf, toService, node, relay, toNode>>
        /\ toRelay' = Close(toRelay)
    BY <1>4 DEF BrowserCloses, Close
  <2> QED
    BY <2>1, UpstreamKept
<1>5. CASE \/ RelayReturnsAnswer \/ NodeDials \/ NodeReturnsAnswer
           \/ ServiceAnswers \/ ServiceCloses \/ LinkLost \/ UNCHANGED vars
  <2>1. /\ UNCHANGED <<req, macRead, relayBuf, nodeBuf, toService, relay, toRelay, toNode>>
        /\ node' = node \/ (node = "dial" /\ node' = "copy")
    BY <1>5 DEF RelayReturnsAnswer, NodeDials, NodeReturnsAnswer, ServiceAnswers, ServiceCloses,
       ServiceSends, LinkLost, vars
  <2> QED
    BY <2>1, UpstreamKept
<1> QED
  BY <1>1, <1>2, <1>3, <1>4, <1>5, RelayPeekUp, RelayAnnouncesUp, RelayForwardsUp, NodeReadsMacUp,
     NodePeekUp, NodeForwardsUp, NodeDispatchesUp DEF Next, RelayNext, NodeNext, Finished

------------------------------------------------------------------------------
(* The way of an answer. *)

\* The parts about what travels to the browser.
Downstream == BeforeDial /\ NothingTold /\ AfterDial

\* What a browser that asked for a tunnel sees first.
Opening == IF Asked.line = "CONNECT" THEN <<Reply("200")>> ELSE <<>>

\* The answer is the opening and then what the service has said.
LEMMA AnswerFacts ==
  ASSUME NEW s \in Seq(Tokens)
  PROVE  /\ Opening \in Seq(Tokens) /\ Len(Opening) \in Nat
         /\ Len(Opening \o s) = Len(Opening) + Len(s)
         /\ Opening \o s \in Seq(Tokens)
         /\ \A k \in 1..Len(Opening) : (Opening \o s)[k] = Opening[k]
         /\ \A k \in 1..Len(s) : (Opening \o s)[Len(Opening) + k] = s[k]
<1>1. Reply("200") \in Tokens
  BY TokenFacts
<1>2. Opening \in Seq(Tokens) /\ Len(Opening) \in Nat
  <2> DEFINE r == Reply("200")
  <2> HIDE DEF r
  <2>1. <<r>> \in Seq(Tokens)
    BY <1>1 DEF r
  <2> QED
    BY <2>1 DEF Opening, r
<1> QED
  BY <1>2

\* And that is how much of it there is.
LEMMA DueFacts ==
  ASSUME Streams
  PROVE  /\ Answer = Opening \o said /\ Len(Opening) \in Nat
         /\ Len(Answer) = Len(Opening) + Len(said)
         /\ Due = Len(Opening) + Readable(said) /\ Due \in Nat /\ Due <= Len(Answer)
         /\ Len(said) \in Nat
         /\ Readable(toBrowser) \in Nat /\ Readable(toBack) \in Nat
         /\ Readable(fromService) \in Nat /\ Told \in Nat
<1>1. said \in Seq(Tokens) /\ Len(said) \in Nat /\ Readable(said) \in Nat
      /\ Readable(said) <= Len(said)
  <2>1. Stream(said)
    BY DEF Streams
  <2> QED
    BY <2>1, StreamFacts DEF Stream
<1>2. Answer = Opening \o said
  BY DEF Answer, Opening
<1>3. Len(Opening) \in Nat /\ Len(Answer) = Len(Opening) + Len(said)
  BY <1>1, <1>2, AnswerFacts
<1>4. Due = Len(Opening) + Readable(said)
  BY <1>1, <1>3 DEF Due
<1>5. Readable(toBrowser) \in Nat /\ Readable(toBack) \in Nat /\ Readable(fromService) \in Nat
  BY StreamFacts DEF Streams
<1> QED
  BY <1>1, <1>2, <1>3, <1>4, <1>5 DEF Told

\* Steps that say nothing to anybody.
LEMMA DownstreamKept ==
  ASSUME IInv, UNCHANGED <<req, dialled, said, fromService, toBack, toBrowser>>,
         dialled = NoAddr \/ UNCHANGED macRead,
         \/ node' = node
         \/ node \in {"mac", "header"} /\ node' \in {"header", "dial"}
         \/ node = "none" /\ relay = "announce" /\ node' = "mac",
         relay' \in {"header", "route", "announce"} => relay \in {"header", "route", "announce"}
  PROVE  Downstream'
<1>1. Downstream
  BY DEF IInv, Downstream
<1>2. BeforeDial'
  BY <1>1 DEF Downstream, BeforeDial, Told
<1>3. NothingTold'
  BY <1>1, EmptyStream DEF Downstream, NothingTold
<1>4. AfterDial'
  <2>1. CASE dialled = NoAddr
    BY <2>1 DEF AfterDial
  <2>2. CASE UNCHANGED macRead
    <3>1. Asked' = Asked
      BY <2>2, AskedFacts DEF IInv
    <3> QED
      BY <1>1, <3>1 DEF Downstream, AfterDial, Told, Due, Answer
  <2> QED
    BY <2>1, <2>2
<1> QED
  BY <1>2, <1>3, <1>4 DEF Downstream

\* Steps that change what has been written to the browser or on the way back by no more
\* than the end, when the relay or the node returns.
LEMMA DownstreamClosed ==
  ASSUME IInv, UNCHANGED <<req, dialled, said, fromService>>,
         dialled = NoAddr \/ UNCHANGED macRead,
         toBrowser' = toBrowser \/ toBrowser' = Close(toBrowser),
         toBack' = toBack \/ toBack' = Close(toBack),
         \/ relay' = "closed" /\ node' = node /\ toBack' = toBack
         \/ relay' = relay /\ node' = "closed" /\ node # "none" /\ toBrowser' = toBrowser
  PROVE  Downstream'
<1>1. Downstream /\ Streams /\ Places
  BY DEF IInv, Downstream
<1>2. Stream(toBrowser) /\ Stream(toBack)
  BY <1>1 DEF Streams
<1>3. /\ Readable(toBrowser') = Readable(toBrowser)
      /\ \A k \in 1..Readable(toBrowser) : toBrowser'[k] = toBrowser[k]
  BY <1>2, CloseFacts
<1>4. /\ Readable(toBack') = Readable(toBack)
      /\ \A k \in 1..Readable(toBack) : toBack'[k] = toBack[k]
  BY <1>2, CloseFacts
<1>5. BeforeDial'
  BY <1>1, <1>3, <1>4 DEF Downstream, BeforeDial, Told
<1>6. NothingTold'
  BY <1>1, <1>3 DEF Downstream, NothingTold, Places
<1>7. AfterDial'
  <2> SUFFICES ASSUME dialled' # NoAddr PROVE AfterDial'
    BY DEF AfterDial
  <2>0. Asked' = Asked
    BY <1>1, AskedFacts
  <2>1. Carries(toBrowser', Answer', 0) /\ Carries(toBack', Answer', Readable(toBrowser'))
    <3>1. Carries(toBrowser, Answer, 0) /\ Carries(toBack, Answer, Readable(toBrowser))
          /\ Answer' = Answer
      BY <1>1, <2>0 DEF Downstream, AfterDial, Answer
    <3> QED
      BY <1>3, <1>4, <3>1, CarriesSame
  <2>2. Told' = Told /\ Due' = Due /\ Answer' = Answer
    BY <1>3, <1>4, <2>0 DEF Told, Due, Answer
  <2> QED
    BY <1>1, <2>1, <2>2 DEF Downstream, AfterDial
<1> QED
  BY <1>5, <1>6, <1>7 DEF Downstream

\* The relay returns, with a page when nothing was said before.
LEMMA RelayReturnsDown ==
  ASSUME IInv,
         HeaderTooLong \/ RelayRejects \/ RelayOffline \/ RelayDone \/ RelayFails \/ BrowserResets
  PROVE  Downstream'
<1>1. Downstream /\ Streams /\ Places
  BY DEF IInv, Downstream
<1>2. PICK a : /\ RelayReturns(a)
               /\ \/ a = <<>>
                  \/ /\ a \in {<<Reply("400")>>, <<Reply("offline")>>}
                     /\ relay \in {"header", "route"} /\ toBrowser = <<>>
               /\ UNCHANGED <<req, relayBuf, nodeVars, serviceVars, toBack>>
  BY RelayReturnsCases
<1>3. /\ toBrowser' = Close(toBrowser \o a) /\ relay' = "closed"
      /\ UNCHANGED <<req, node, macRead, dialled, said, fromService, toBack>>
  BY <1>2 DEF RelayReturns, nodeVars, serviceVars
<1>4. CASE a = <<>>
  <2>1. toBrowser' = Close(toBrowser)
    BY <1>1, <1>3, <1>4, Answers
  <2> QED
    BY <1>3, <2>1, DownstreamClosed
<1>5. CASE a \in {<<Reply("400")>>, <<Reply("offline")>>} /\ relay \in {"header", "route"} /\ toBrowser = <<>>
  <2>1. PICK c \in {"400", "offline"} : a = <<Reply(c)>>
    BY <1>5
  <2>2. /\ <<>> \o a = a /\ Stream(a) /\ Readable(a) = 1 /\ a[1] = Reply(c)
    BY <1>1, <2>1, Answers
  <2>3. toBrowser' = Close(a)
    BY <1>3, <1>5, <2>2
  <2>4. Readable(toBrowser') = 1 /\ toBrowser'[1] = Reply(c)
    BY <2>2, <2>3, CloseFacts
  <2>5. node = "none"
    BY <1>1, <1>5 DEF Places
  <2>6. dialled = NoAddr /\ toBack = <<>>
    BY <1>1, <2>5 DEF Downstream, NothingTold
  <2>7. Told' <= 1
    BY <1>3, <2>4, <2>6, EmptyStream DEF Told
  <2>8. \A k \in 1..Readable(toBrowser') : toBrowser'[k] \in {Reply("400"), Reply("offline")}
    BY <2>4
  <2>9. BeforeDial'
    BY <1>1, <1>3, <2>5, <2>6, <2>7, <2>8 DEF Downstream, BeforeDial
  <2>10. NothingTold' /\ AfterDial'
    BY <1>3, <2>5, <2>6 DEF NothingTold, AfterDial
  <2> QED
    BY <2>9, <2>10 DEF Downstream
<1> QED
  BY <1>2, <1>4, <1>5

\* The node returns, with a page when it could not tell the label.
LEMMA NodeReturnsDown ==
  ASSUME IInv,
         \/ NodeReadsMac /\ node' # "header"
         \/ NodeMacTruncated \/ NodeRejects \/ NodeDialFails \/ NodeDone \/ NodeFails
  PROVE  Downstream'
<1>1. Downstream /\ Streams /\ Places
  BY DEF IInv, Downstream
<1>2. PICK a : /\ NodeReturns(a)
               /\ \/ a = <<>>
                  \/ a = <<Reply("400")>> /\ node = "mac" /\ toBack = <<>>
               /\ node \in {"mac", "header", "dial", "copy"}
               /\ UNCHANGED <<toNode, macRead>> \/ (node = "mac" /\ ReadsLabel)
  BY NodeReturnsCases
<1>3. /\ toBack' = Close(toBack \o a) /\ node' = "closed"
      /\ UNCHANGED <<req, relay, dialled, said, fromService, toBrowser>>
      /\ dialled = NoAddr \/ UNCHANGED macRead
  BY <1>1, <1>2 DEF NodeReturns, relayVars, Downstream, NothingTold
<1>4. CASE a = <<>>
  <2>1. toBack' = Close(toBack)
    BY <1>1, <1>3, <1>4, Answers
  <2> QED
    BY <1>2, <1>3, <2>1, DownstreamClosed
<1>5. CASE a = <<Reply("400")>> /\ node = "mac" /\ toBack = <<>>
  <2>1. /\ <<>> \o a = a /\ Stream(a) /\ Readable(a) = 1 /\ a[1] = Reply("400")
    BY <1>1, <1>5, Answers
  <2>2. toBack' = Close(a)
    BY <1>3, <1>5, <2>1
  <2>3. Readable(toBack') = 1 /\ toBack'[1] = Reply("400")
    BY <2>1, <2>2, CloseFacts
  <2>4. dialled = NoAddr /\ Readable(toBrowser) = 0
    BY <1>1, <1>5 DEF Downstream, NothingTold
  <2>5. Told' <= 1
    BY <1>3, <2>3, <2>4 DEF Told
  <2>6. \A k \in 1..Readable(toBack') : toBack'[k] = Reply("400")
    BY <2>3
  <2>7. BeforeDial'
    BY <1>1, <1>3, <2>4, <2>5, <2>6 DEF Downstream, BeforeDial
  <2>8. NothingTold' /\ AfterDial'
    BY <1>1, <1>3, <1>5, <2>4 DEF NothingTold, AfterDial, Places
  <2> QED
    BY <2>7, <2>8 DEF Downstream
<1> QED
  BY <1>2, <1>4, <1>5

\* The relay copies a token of the answer to the browser.
LEMMA RelayReturnsAnswerDown == ASSUME IInv, RelayReturnsAnswer PROVE Downstream'
<1>1. Downstream /\ Streams /\ Places
  BY DEF IInv, Downstream
<1>2. /\ relay = "copy" /\ toBack # <<>> /\ ~Ended(toBrowser)
      /\ toBrowser' = Moved(toBrowser, toBack) /\ toBack' = Rest(toBack)
      /\ UNCHANGED <<req, relay, node, dialled, said, fromService>> /\ Asked' = Asked
  BY <1>1, AskedFacts DEF RelayReturnsAnswer, Moved, relayVars, nodeVars, serviceVars
<1>3. Stream(toBrowser) /\ Stream(toBack)
  BY <1>1 DEF Streams
<1>4. node \in {"copy", "closed"}
  BY <1>1, <1>2 DEF Downstream, NothingTold, Places
<1>5. Told' = Told /\ Readable(toBrowser') \in Nat
  <2>1. /\ Readable(toBrowser') + Readable(toBack') = Readable(toBrowser) + Readable(toBack)
        /\ Stream(toBrowser')
    BY <1>2, <1>3, MoveFacts
  <2> QED
    BY <2>1, StreamFacts DEF Told
<1>6. BeforeDial'
  <2> SUFFICES ASSUME dialled = NoAddr PROVE BeforeDial'
    BY <1>2 DEF BeforeDial
  <2>1. /\ said = <<>> /\ fromService = <<>> /\ node # "copy" /\ Told <= 1
        /\ \A k \in 1..Readable(toBrowser) : toBrowser[k] \in {Reply("400"), Reply("offline")}
        /\ \A k \in 1..Readable(toBack) : toBack[k] = Reply("400")
    BY <1>1 DEF Downstream, BeforeDial
  <2>2. \A k \in 1..Readable(toBrowser') : toBrowser'[k] \in {Reply("400"), Reply("offline")}
    <3>1. CASE Head(toBack) = FIN
      <4>1. Readable(toBrowser') = Readable(toBrowser)
        BY <1>2, <1>3, <3>1, MoveFacts
      <4>2. \A k \in 1..Readable(toBrowser) : toBrowser'[k] = toBrowser[k]
        BY <1>2, <1>3, MoveKeeps
      <4> QED
        BY <2>1, <4>1, <4>2
    <3>2. CASE Head(toBack) # FIN
      <4>1. Readable(toBrowser') = Readable(toBrowser) + 1
            /\ toBrowser'[Readable(toBrowser) + 1] = toBack[1]
        BY <1>2, <1>3, <3>2, MoveFacts
      <4>2. Readable(toBack) \in Nat /\ Readable(toBack) >= 1 /\ Readable(toBrowser) \in Nat
        BY <1>2, <1>3, <3>2, StreamFacts
      <4>3. toBack[1] = Reply("400")
        BY <2>1, <4>2
      <4>4. \A k \in 1..Readable(toBrowser) : toBrowser'[k] = toBrowser[k]
        BY <1>2, <1>3, MoveKeeps
      <4> QED
        BY <2>1, <4>1, <4>2, <4>3, <4>4
    <3> QED
      BY <3>1, <3>2
  <2>3. \A k \in 1..Readable(toBack') : toBack'[k] = Reply("400")
    <3>1. CASE Head(toBack) = FIN
      BY <1>2, <2>1, <3>1 DEF Rest
    <3>2. CASE Head(toBack) # FIN
      <4>1. toBack' = Tail(toBack)
        BY <1>2, <3>2 DEF Rest
      <4>2. Readable(toBack') = Readable(toBack) - 1
            /\ \A k \in 1..Readable(toBack) - 1 : Tail(toBack)[k] = toBack[k + 1]
        BY <1>2, <1>3, <3>2, <4>1, TailFacts
      <4>3. ASSUME NEW k \in 1..Readable(toBack') PROVE toBack'[k] = Reply("400")
        <5>1. Readable(toBack) \in Nat
          BY <1>3, StreamFacts
        <5>2. k + 1 \in 1..Readable(toBack) /\ k \in 1..Readable(toBack) - 1
          BY <4>2, <5>1
        <5>3. toBack'[k] = toBack[k + 1]
          BY <4>1, <4>2, <5>2, Zenon
        <5> QED
          BY <2>1, <5>2, <5>3
      <4> QED
        BY <4>3
    <3> QED
      BY <3>1, <3>2
  <2> QED
    BY <1>2, <1>5, <2>1, <2>2, <2>3 DEF BeforeDial
<1>7. NothingTold'
  BY <1>2, <1>4 DEF NothingTold
<1>8. AfterDial'
  <2> SUFFICES ASSUME dialled # NoAddr PROVE AfterDial'
    BY <1>2 DEF AfterDial
  <2>1. Carries(toBrowser, Answer, 0) /\ Carries(toBack, Answer, Readable(toBrowser))
    BY <1>1 DEF Downstream, AfterDial
  <2>2. 0 + Readable(toBrowser) = Readable(toBrowser) /\ 0 + Readable(toBrowser') = Readable(toBrowser')
    BY <1>3, <1>5, StreamFacts
  <2>3. Carries(toBrowser', Answer, 0) /\ Carries(toBack', Answer, Readable(toBrowser'))
    BY <1>2, <1>3, <2>1, <2>2, MoveCarries
  <2>4. Answer' = Answer /\ Due' = Due
    BY <1>2 DEF Answer, Due
  <2> QED
    BY <1>1, <1>2, <1>5, <2>3, <2>4 DEF Downstream, AfterDial
<1> QED
  BY <1>6, <1>7, <1>8 DEF Downstream

\* The node copies a token of the answer to the stream of the relay.
LEMMA NodeReturnsAnswerDown == ASSUME IInv, NodeReturnsAnswer PROVE Downstream'
<1>1. Downstream /\ Streams /\ Places
  BY DEF IInv, Downstream
<1>2. /\ node = "copy" /\ fromService # <<>> /\ ~Ended(toBack)
      /\ toBack' = Moved(toBack, fromService) /\ fromService' = Rest(fromService)
      /\ UNCHANGED <<req, relay, node, dialled, said, toBrowser>> /\ Asked' = Asked
  BY <1>1, AskedFacts DEF NodeReturnsAnswer, Moved, relayVars, nodeVars
<1>3. Stream(toBrowser) /\ Stream(toBack) /\ Stream(fromService)
  BY <1>1 DEF Streams
<1>4. dialled # NoAddr
  BY <1>1, <1>2 DEF Downstream, BeforeDial
<1>5. /\ Readable(toBack') + Readable(fromService') = Readable(toBack) + Readable(fromService)
      /\ Ended(fromService') <=> Ended(fromService)
      /\ Readable(toBack') \in Nat /\ Readable(fromService') \in Nat
      /\ Readable(toBack) \in Nat /\ Readable(fromService) \in Nat /\ Readable(toBrowser) \in Nat
  <2>1. /\ Readable(toBack') + Readable(fromService') = Readable(toBack) + Readable(fromService)
        /\ Ended(fromService') <=> Ended(fromService)
        /\ Stream(toBack') /\ Stream(fromService')
    BY <1>2, <1>3, MoveFacts
  <2> QED
    BY <1>3, <2>1, StreamFacts
<1>6. /\ Told + Readable(fromService) = Due
      /\ Carries(toBrowser, Answer, 0) /\ Carries(toBack, Answer, Readable(toBrowser))
      /\ Carries(fromService, Answer, Told)
      /\ Ended(fromService) <=> Ended(said)
  BY <1>1, <1>2, <1>4 DEF Downstream, AfterDial
<1>7. Told' + Readable(fromService') = Due
  BY <1>2, <1>5, <1>6 DEF Told
<1>8. Told' <= Due
  <2>1. Told' \in Nat
    BY <1>2, <1>5 DEF Told
  <2> QED
    BY <1>5, <1>7, <2>1
<1>9. Carries(toBack', Answer, Readable(toBrowser)) /\ Carries(fromService', Answer, Told')
  BY <1>2, <1>3, <1>5, <1>6, MoveCarries DEF Told
<1>10. Answer' = Answer /\ Due' = Due
  BY <1>2 DEF Answer, Due
<1>11. AfterDial'
  BY <1>2, <1>5, <1>6, <1>7, <1>8, <1>9, <1>10 DEF AfterDial
<1>12. BeforeDial' /\ NothingTold'
  BY <1>1, <1>2, <1>4 DEF Downstream, BeforeDial, NothingTold
<1> QED
  BY <1>11, <1>12 DEF Downstream

\* The service is reached: a browser that asked for a tunnel is told, the others are not.
LEMMA NodeDialsDown == ASSUME IInv, NodeDials PROVE Downstream'
<1>1. Downstream /\ Streams /\ Places
  BY DEF IInv, Downstream
<1>2. /\ node = "dial" /\ node' = "copy" /\ dialled' # NoAddr
      /\ toBack' = IF Asked.line = "CONNECT" THEN Append(toBack, Reply("200")) ELSE toBack
      /\ UNCHANGED <<req, relay, said, fromService, toBrowser>> /\ Asked' = Asked
  BY <1>1, AskedFacts DEF NodeDials, relayVars, serviceVars
<1>3. /\ dialled = NoAddr /\ toBack = <<>> /\ Readable(toBrowser) = 0
      /\ said = <<>> /\ fromService = <<>> /\ relay \in {"copy", "closed"}
  BY <1>1, <1>2 DEF Downstream, NothingTold, BeforeDial, Places
<1>4. toBack' = Opening
  <2>1. Append(<<>>, Reply("200")) = <<Reply("200")>>
    BY TokenFacts
  <2> QED
    BY <1>2, <1>3, <2>1 DEF Opening
<1>5. Answer' = Opening
  <2>1. Answer' = Opening \o <<>>
    BY <1>2, <1>3 DEF Answer, Opening
  <2>2. <<>> \in Seq(Tokens)
    OBVIOUS
  <2>3. Opening \in Seq(Tokens)
    BY <2>2, AnswerFacts
  <2> QED
    BY <2>1, <2>3
<1>6. Readable(Opening) = Len(Opening) /\ Len(Opening) \in Nat
  <2>1. Stream(Opening) /\ ~Ended(Opening)
    BY <1>1, Answers, EmptyStream DEF Opening
  <2> QED
    BY <2>1, StreamFacts
<1>7. Readable(fromService') = 0 /\ Readable(said') = 0 /\ Len(said') = 0
      /\ ~Ended(fromService') /\ ~Ended(said')
  BY <1>2, <1>3, EmptyStream
<1>8. Due' = Len(Opening)
  BY <1>5, <1>6, <1>7 DEF Due
<1>9. Told' = Len(Opening)
  BY <1>2, <1>3, <1>4, <1>6 DEF Told
<1>10. Carries(toBrowser', Answer', 0) /\ Carries(fromService', Answer', Told')
  BY <1>2, <1>3, <1>7 DEF Carries
<1>11. Carries(toBack', Answer', Readable(toBrowser'))
  <2>1. \A k \in 1..Len(Opening) : Opening[k] = Opening[0 + k]
    BY <1>6
  <2>2. Carries(Opening, Opening, 0)
    BY <1>6, <2>1 DEF Carries
  <2> QED
    BY <1>2, <1>3, <1>4, <1>5, <2>2
<1>12. AfterDial'
  BY <1>6, <1>7, <1>8, <1>9, <1>10, <1>11 DEF AfterDial
<1>13. BeforeDial' /\ NothingTold'
  BY <1>2, <1>3 DEF BeforeDial, NothingTold
<1> QED
  BY <1>12, <1>13 DEF Downstream

\* What the service says is due behind the rest.
LEMMA ServiceSendsDown == ASSUME IInv, NEW t \in Tokens, ServiceSends(t) PROVE Downstream'
<1>1. Downstream /\ Streams /\ Places
  BY DEF IInv, Downstream
<1>2. /\ node = "copy" /\ said' = Append(said, t) /\ fromService' = Append(fromService, t)
      /\ UNCHANGED <<req, relay, node, dialled, toBack, toBrowser>> /\ Asked' = Asked
  BY <1>1, AskedFacts DEF ServiceSends, relayVars, nodeVars
<1>3. /\ ~Ended(said) /\ ~Ended(fromService) /\ dialled # NoAddr
      /\ Stream(said') /\ Stream(fromService')
      /\ Ended(said') <=> t = FIN
      /\ Ended(fromService') <=> t = FIN
  BY ServiceAppends
<1>4. Stream(said) /\ Stream(fromService) /\ said \in Seq(Tokens)
  BY <1>1 DEF Streams, Stream
<1> DEFINE o == Len(Opening)
           n == Len(said)
           r == Readable(fromService)
<1>5. /\ Answer = Opening \o said /\ o \in Nat /\ Len(Answer) = o + n
      /\ Due = o + Readable(said) /\ n \in Nat
      /\ Readable(toBrowser) \in Nat /\ Readable(toBack) \in Nat /\ r \in Nat /\ Told \in Nat
  BY <1>1, DueFacts
<1>6. Readable(said) = n
  BY <1>3, <1>4, StreamFacts
<1>7. /\ Told + r = Due
      /\ Carries(toBrowser, Answer, 0) /\ Carries(toBack, Answer, Readable(toBrowser))
      /\ Carries(fromService, Answer, Told)
  BY <1>1, <1>2, <1>3 DEF Downstream, AfterDial
<1>8. Told + r = o + n
  BY <1>5, <1>6, <1>7
<1>9. Answer' = Opening \o said' /\ said' \in Seq(Tokens) /\ Len(said') = n + 1
  BY <1>2, <1>4 DEF Answer, Opening
<1>10. \A k \in 1..n : said'[k] = said[k]
  BY <1>2, <1>4
<1>11. said'[n + 1] = t
  BY <1>2, <1>4
<1>12. Len(Answer') = o + (n + 1)
  BY <1>9, AnswerFacts
<1>13. ASSUME NEW j \in 1..o + n PROVE Answer'[j] = Answer[j]
  <2>1. CASE j <= o
    <3>1. j \in 1..o
      BY <1>5, <2>1
    <3>2. (Opening \o said')[j] = Opening[j]
      BY <1>9, <3>1, AnswerFacts
    <3>3. (Opening \o said)[j] = Opening[j]
      BY <1>4, <3>1, AnswerFacts
    <3> QED
      BY <1>5, <1>9, <3>2, <3>3
  <2>2. CASE j > o
    <3>1. j - o \in 1..n /\ j - o \in 1..n + 1 /\ o + (j - o) = j
      BY <1>5, <2>2
    <3>2. (Opening \o said')[o + (j - o)] = said'[j - o]
      BY <1>9, <3>1, AnswerFacts
    <3>3. (Opening \o said)[o + (j - o)] = said[j - o]
      BY <1>4, <3>1, AnswerFacts
    <3> QED
      BY <1>5, <1>9, <1>10, <3>1, <3>2, <3>3
  <2> QED
    BY <1>5, <2>1, <2>2
<1>14. Answer'[o + n + 1] = t
  <2>1. n + 1 \in 1..Len(said') /\ o + (n + 1) = o + n + 1
    BY <1>5, <1>9
  <2>2. (Opening \o said')[o + (n + 1)] = said'[n + 1]
    BY <1>9, <2>1, AnswerFacts
  <2> QED
    BY <1>9, <1>11, <2>1, <2>2
<1> HIDE DEF o, n, r
<1>15. Carries(toBrowser', Answer', 0)
  <2>1. ASSUME NEW k \in 1..Readable(toBrowser) PROVE Answer[0 + k] = Answer'[0 + k]
    <3>1. 0 + k \in 1..o + n
      BY <1>5, <1>8 DEF Told
    <3> QED
      BY <1>13, <3>1
  <2>2. Carries(toBrowser, Answer', 0)
    BY <1>7, <2>1, CarriesOver
  <2> QED
    BY <1>2, <2>2
<1>16. Carries(toBack', Answer', Readable(toBrowser'))
  <2>1. ASSUME NEW k \in 1..Readable(toBack)
        PROVE  Answer[Readable(toBrowser) + k] = Answer'[Readable(toBrowser) + k]
    <3>1. Readable(toBrowser) + k \in 1..o + n
      BY <1>5, <1>8 DEF Told
    <3> QED
      BY <1>13, <3>1
  <2>2. Carries(toBack, Answer', Readable(toBrowser))
    BY <1>7, <2>1, CarriesOver
  <2> QED
    BY <1>2, <2>2
<1>17. Carries(fromService, Answer', Told)
  <2>1. ASSUME NEW k \in 1..r PROVE Answer[Told + k] = Answer'[Told + k]
    <3>1. Told + k \in 1..o + n
      BY <1>5, <1>8
    <3> QED
      BY <1>13, <3>1
  <2> QED
    BY <1>7, <2>1, CarriesOver DEF r
<1>18. Told' = Told
  BY <1>2 DEF Told
<1>19. Due' = o + Readable(said')
  <2>1. Readable(said') \in Nat
    BY <1>3, StreamFacts
  <2> QED
    BY <1>5, <1>9, <1>12, <2>1 DEF Due
<1>20. Carries(fromService', Answer', Told) /\ Told + Readable(fromService') = Due'
  <2>1. CASE t = FIN
    <3>1. said' = Close(said) /\ fromService' = Close(fromService)
      BY <1>2, <1>3, <2>1 DEF Close
    <3>2. /\ Readable(said') = n /\ Readable(fromService') = r
          /\ \A k \in 1..r : fromService'[k] = fromService[k]
      BY <1>4, <1>6, <3>1, CloseFacts DEF r
    <3>3. Carries(fromService', Answer', Told)
      BY <1>17, <3>2, CarriesSame DEF r
    <3> QED
      BY <1>8, <1>19, <3>2, <3>3
  <2>2. CASE t # FIN
    <3>1. Readable(said') = n + 1
      BY <1>2, <1>3, <1>4, <1>6, <2>2, AppendFacts
    <3>2. /\ Readable(fromService') = r + 1
          /\ \A k \in 1..r : fromService'[k] = fromService[k]
          /\ fromService'[r + 1] = t
      BY <1>2, <1>3, <1>4, <2>2, AppendFacts DEF r
    <3>3. ASSUME NEW k \in 1..r + 1 PROVE fromService'[k] = Answer'[Told + k]
      <4>1. CASE k = r + 1
        <5>1. Told + k = o + n + 1
          BY <1>5, <1>8, <4>1
        <5> QED
          BY <1>14, <3>2, <4>1, <5>1
      <4>2. CASE k # r + 1
        <5>1. k \in 1..r
          BY <1>5, <4>2
        <5> QED
          BY <1>17, <3>2, <5>1 DEF Carries, r
      <4> QED
        BY <4>1, <4>2
    <3>4. Told + Readable(fromService') = Due'
      BY <1>5, <1>8, <1>19, <3>1, <3>2
    <3> QED
      BY <3>2, <3>3, <3>4 DEF Carries
  <2> QED
    BY <2>1, <2>2
<1>21. Told' <= Due'
  <2>1. Readable(fromService') \in Nat
    BY <1>3, StreamFacts
  <2> QED
    BY <1>5, <1>18, <1>20, <2>1
<1>22. AfterDial'
  BY <1>3, <1>15, <1>16, <1>18, <1>20, <1>21 DEF AfterDial
<1>23. BeforeDial' /\ NothingTold'
  BY <1>1, <1>2, <1>3 DEF Downstream, BeforeDial, NothingTold
<1> QED
  BY <1>22, <1>23 DEF Downstream

\* The way of the answer, one action at a time.
LEMMA DownstreamInv == ASSUME IInv, [Next]_vars PROVE Downstream'
<1> USE DEF relayVars, nodeVars, serviceVars
<1>1. CASE HeaderTooLong \/ RelayRejects \/ RelayOffline \/ RelayDone \/ RelayFails \/ BrowserResets
  BY <1>1, RelayReturnsDown
<1>2. CASE \/ NodeReadsMac /\ node' # "header"
           \/ NodeMacTruncated \/ NodeRejects \/ NodeDialFails \/ NodeDone \/ NodeFails
  BY <1>2, NodeReturnsDown
<1>3. CASE NodeReadsMac /\ node' = "header"
  <2>1. /\ node = "mac" /\ dialled = NoAddr
        /\ UNCHANGED <<req, relay, dialled, said, fromService, toBack, toBrowser>>
    BY <1>3, LabelPassed DEF NodeReadsMac, IInv, NothingTold
  <2> QED
    BY <1>3, <2>1, DownstreamKept
<1>4. CASE RelayPeek \/ RelayForwards \/ NodePeek \/ NodeForwards \/ BrowserCloses \/ LinkLost
           \/ UNCHANGED vars
  <2>1. UNCHANGED <<req, relay, node, macRead, dialled, said, fromService, toBack, toBrowser>>
    BY <1>4 DEF RelayPeek, RelayForwards, NodePeek, NodeForwards, BrowserCloses, LinkLost, vars
  <2> QED
    BY <2>1, DownstreamKept
<1>5. CASE RelayAccepts \/ RelayOpens
  <2>1. /\ UNCHANGED <<req, node, macRead, dialled, said, fromService, toBack, toBrowser>>
        /\ relay \in {"header", "route"}
    BY <1>5 DEF RelayAccepts, RelayOpens
  <2> QED
    BY <2>1, DownstreamKept
<1>6. CASE RelayAnnounces
  <2>1. relay = "announce" /\ node = "none"
    BY <1>6 DEF RelayAnnounces, IInv, Places
  <2>2. /\ UNCHANGED <<req, macRead, dialled, said, fromService, toBack, toBrowser>>
        /\ relay' = "copy" /\ node' = "mac"
    BY <1>6 DEF RelayAnnounces
  <2> QED
    BY <2>1, <2>2, DownstreamKept
<1>7. CASE NodeDispatches
  <2>1. /\ UNCHANGED <<req, relay, macRead, dialled, said, fromService, toBack, toBrowser>>
        /\ node = "header" /\ node' = "dial"
    BY <1>7 DEF NodeDispatches
  <2> QED
    BY <2>1, DownstreamKept
<1>8. CASE ServiceAnswers \/ ServiceCloses
  <2>1. Len(said) \in Nat
    BY StreamFacts DEF IInv, Streams
  <2>2. PICK t \in Tokens : ServiceSends(t)
    BY <1>8, <2>1, TokenFacts DEF ServiceAnswers, ServiceCloses
  <2> QED
    BY <2>2, ServiceSendsDown
<1> QED
  BY <1>1, <1>2, <1>3, <1>4, <1>5, <1>6, <1>7, <1>8, RelayReturnsAnswerDown, NodeReturnsAnswerDown,
     NodeDialsDown DEF Next, RelayNext, NodeNext, Finished

------------------------------------------------------------------------------
(* What follows from the invariant. *)

\* The invariant fixes the types.
LEMMA TypeFollows == ASSUME IInv PROVE TypeOK
<1>1. Streams /\ Places
  BY DEF IInv
<1> QED
  BY <1>1 DEF TypeOK, Streams, Stream, Places

\* What is read of a stream is a part of what it carries.
LEMMA ReadIsPrefix ==
  ASSUME NEW s, Stream(s), NEW F \in Seq(Tokens), Carries(s, F, 0), Readable(s) <= Len(F)
  PROVE  /\ IsPrefix(Content(s), F)
         /\ Readable(s) = Len(F) => Content(s) = F
<1>1. s \in Seq(Tokens) /\ Len(s) \in Nat /\ Readable(s) \in Nat /\ Readable(s) <= Len(s)
      /\ Len(F) \in Nat
  BY StreamFacts DEF Stream
<1> DEFINE c == Content(s)
           n == Readable(s)
<1>2. c = SubSeq(s, 1, n)
  BY DEF Content
<1> HIDE DEF c, n
<1>3. n \in Nat /\ n <= Len(s) /\ n <= Len(F)
  BY <1>1 DEF n
<1>4. c \in Seq(Tokens) /\ Len(c) = n /\ \A k \in 1..n : c[k] = s[k]
  BY <1>1, <1>2, <1>3
<1>5. ASSUME NEW k \in 1..n PROVE c[k] = F[k]
  <2>1. s[k] = F[0 + k] /\ 0 + k = k
    BY <1>3 DEF Carries, n
  <2> QED
    BY <1>4, <2>1
<1>6. SubSeq(c, 1, Len(c)) = SubSeq(F, 1, Len(c))
  <2>1. SubSeq(F, 1, n) \in Seq(Tokens) /\ Len(SubSeq(F, 1, n)) = n
    BY <1>1, <1>3
  <2>2. \A k \in 1..n : SubSeq(F, 1, n)[k] = F[k]
    BY <1>1, <1>3
  <2>3. c = SubSeq(F, 1, n)
    BY <1>3, <1>4, <1>5, <2>1, <2>2, SeqEqual
  <2>4. SubSeq(c, 1, n) = c
    BY <1>3, <1>4
  <2> QED
    BY <1>4, <2>3, <2>4
<1>7. IsPrefix(c, F)
  BY <1>1, <1>3, <1>4, <1>6 DEF IsPrefix
<1>8. n = Len(F) => c = F
  BY <1>1, <1>4, <1>5, SeqEqual
<1> QED
  BY <1>7, <1>8 DEF c, n

\* What is at the service is what it is entitled to.
LEMMA ServiceExactFollows == ASSUME IInv PROVE ServiceExact
<1>1. Streams /\ Places /\ Received /\ AfterDispatch /\ EndMeansAll
  BY DEF IInv
<1> DEFINE E == Entitled(Asked)
<1>2. E \in Seq(Tokens) /\ Len(E) \in Nat
  BY <1>1, EntitledFacts DEF Places
<1>3. Stream(toService) /\ Carries(toService, E, 0) /\ Readable(toService) <= Len(E)
  BY <1>1 DEF Streams, Received
<1>4. IsPrefix(Content(toService), E) /\ (Readable(toService) = Len(E) => Content(toService) = E)
  BY <1>2, <1>3, ReadIsPrefix
<1>5. ASSUME node = "copy", Ended(toService), relayBuf = <<>>, toRelay = <<FIN>>
      PROVE  Content(toService) = E
  <2>1. Readable(nodeBuf) = 0 /\ Readable(toNode) = 0
    BY <1>1, <1>5 DEF EndMeansAll
  <2>2. Readable(relayBuf) = 0 /\ Readable(toRelay) = 0
    <3>1. Head(<<FIN>>) = FIN /\ <<FIN>> # <<>>
      OBVIOUS
    <3>2. Readable(toRelay) = 0
      BY <1>1, <1>5, <3>1, StreamFacts DEF Streams
    <3> QED
      BY <1>5, <3>2, EmptyStream
  <2>3. Spread(E, Sent, relayBuf, toRelay)
    BY <1>1, <1>5, <2>2 DEF AfterDispatch, CutShort, RelayHas
  <2>4. Readable(toService) \in Nat
    BY <1>3, StreamFacts
  <2>5. Readable(toService) = Len(E)
    BY <2>1, <2>2, <2>3, <2>4 DEF Spread, Sent
  <2> QED
    BY <1>4, <2>5
<1> QED
  BY <1>4, <1>5 DEF ServiceExact

\* What is at the browser is a page or the answer that is due.
LEMMA BrowserExactFollows == ASSUME IInv PROVE BrowserExact
<1>1. Streams /\ BeforeDial /\ AfterDial
  BY DEF IInv
<1>2. Stream(toBrowser) /\ toBrowser \in Seq(Tokens) /\ Stream(said) /\ said \in Seq(Tokens)
  BY <1>1 DEF Streams, Stream
<1> DEFINE n == Readable(toBrowser)
           seen == Content(toBrowser)
<1>3. n \in Nat /\ n <= Len(toBrowser) /\ Len(toBrowser) \in Nat
  BY <1>2, StreamFacts
<1>4. seen = SubSeq(toBrowser, 1, n)
  BY DEF Content
<1> HIDE DEF n, seen
<1>5. seen \in Seq(Tokens) /\ Len(seen) = n /\ \A k \in 1..n : seen[k] = toBrowser[k]
  BY <1>2, <1>3, <1>4
<1>6. CASE dialled = NoAddr
  <2>1. /\ Told <= 1 /\ Readable(toBack) \in Nat
        /\ \A k \in 1..n : toBrowser[k] \in {Reply("400"), Reply("offline")}
    BY <1>1, <1>6, StreamFacts DEF BeforeDial, Streams, n
  <2>2. n \in {0, 1}
    BY <1>3, <2>1 DEF Told, n
  <2>3. CASE n = 0
    <3>1. seen = <<>>
      BY <1>5, <2>3
    <3> QED
      BY <3>1 DEF BrowserExact, seen
  <2>4. CASE n = 1
    <3>1. seen[1] \in {Reply("400"), Reply("offline")}
      BY <1>5, <2>1, <2>4
    <3>2. ASSUME NEW c \in {"400", "offline"}, seen[1] = Reply(c) PROVE seen = <<Reply(c)>>
      <4> DEFINE r == Reply(c)
      <4>1. r \in Tokens /\ seen[1] = r
        BY <3>2, TokenFacts
      <4> HIDE DEF r
      <4>2. <<r>> \in Seq(Tokens) /\ Len(<<r>>) = 1 /\ <<r>>[1] = r
        BY <4>1
      <4>3. \A k \in 1..Len(seen) : seen[k] = <<r>>[k]
        BY <1>5, <2>4, <4>1, <4>2
      <4>4. seen = <<r>>
        BY <1>5, <2>4, <4>2, <4>3, SeqEqual
      <4> QED
        BY <4>4 DEF r
    <3>3. seen \in {<<Reply("400")>>, <<Reply("offline")>>}
      BY <3>1, <3>2
    <3> QED
      BY <1>6, <3>3 DEF BrowserExact, seen
  <2> QED
    BY <2>2, <2>3, <2>4
<1>7. CASE dialled # NoAddr
  <2> DEFINE G == Opening \o Content(said)
  <2>1. /\ Answer = Opening \o said /\ Len(Opening) \in Nat
        /\ Due = Len(Opening) + Readable(said)
        /\ Readable(toBack) \in Nat
    BY <1>1, DueFacts
  <2>2. Told <= Due /\ Carries(toBrowser, Answer, 0)
    BY <1>1, <1>7 DEF AfterDial
  <2>3. /\ Readable(said) \in Nat /\ Len(said) \in Nat /\ Readable(said) <= Len(said)
    BY <1>2, StreamFacts
  <2>4. /\ Content(said) \in Seq(Tokens) /\ Len(Content(said)) = Readable(said)
        /\ \A k \in 1..Readable(said) : Content(said)[k] = said[k]
    BY <1>2, <2>3 DEF Content
  <2>5. /\ G \in Seq(Tokens) /\ Len(G) = Len(Opening) + Readable(said)
        /\ \A k \in 1..Len(Opening) : G[k] = Opening[k]
        /\ \A k \in 1..Readable(said) : G[Len(Opening) + k] = Content(said)[k]
    BY <2>4, AnswerFacts
  <2>6. /\ \A k \in 1..Len(Opening) : Answer[k] = Opening[k]
        /\ \A k \in 1..Len(said) : Answer[Len(Opening) + k] = said[k]
    BY <1>2, <2>1, AnswerFacts
  <2> HIDE DEF G
  <2>7. n <= Len(G)
    BY <1>3, <2>1, <2>2, <2>3, <2>5 DEF Told, n
  <2>8. ASSUME NEW k \in 1..n PROVE Answer[0 + k] = G[0 + k]
    <3>1. 0 + k = k /\ k \in 1..Len(G)
      BY <1>3, <2>1, <2>3, <2>5, <2>7
    <3>2. CASE k <= Len(Opening)
      <4>1. k \in 1..Len(Opening)
        BY <2>1, <3>2
      <4> QED
        BY <2>5, <2>6, <3>1, <4>1
    <3>3. CASE k > Len(Opening)
      <4>1. /\ k - Len(Opening) \in 1..Readable(said) /\ k - Len(Opening) \in 1..Len(said)
            /\ Len(Opening) + (k - Len(Opening)) = k
        BY <2>1, <2>3, <2>5, <3>1, <3>3
      <4>2. Answer[Len(Opening) + (k - Len(Opening))] = said[k - Len(Opening)]
        BY <2>6, <4>1
      <4>3. G[Len(Opening) + (k - Len(Opening))] = said[k - Len(Opening)]
        BY <2>4, <2>5, <4>1
      <4> QED
        BY <3>1, <4>1, <4>2, <4>3
    <3>4. k <= Len(Opening) \/ k > Len(Opening)
      BY <1>3, <2>1
    <3> QED
      BY <3>2, <3>3, <3>4, Zenon
  <2>9. Carries(toBrowser, G, 0)
    BY <2>2, <2>8, CarriesOver DEF n
  <2>10. IsPrefix(seen, G)
    BY <1>2, <2>5, <2>7, <2>9, ReadIsPrefix DEF n, seen
  <2> QED
    BY <1>7, <2>10 DEF BrowserExact, seen, G, Opening
<1> QED
  BY <1>6, <1>7

------------------------------------------------------------------------------
(* The theorems. *)

\* The inductive invariant.
THEOREM Invariant == Spec => []IInv
<1>1. IInv /\ [Next]_vars => IInv'
  BY StreamsInv, PlacesInv, UpstreamInv, DownstreamInv DEF IInv, Upstream, Downstream
<1> QED
  BY <1>1, InitInv, PTL DEF Spec

\* At any time, each stream and each task of a session is in a state the code gives it.
THEOREM TypeCorrect == Spec => []TypeOK
  BY Invariant, TypeFollows, PTL

\* Whatever the request, its length and the cuts between its bytes: a service receives
\* what it is entitled to, in order and once, and all of it when both sides are at the end.
\* After a label cut short, that is the request without the bytes that completed the label.
THEOREM ServiceExactCorrect == Spec => []ServiceExact
  BY Invariant, ServiceExactFollows, PTL

\* Whatever the answer and whoever fails: a browser receives one page of the relay or the
\* node, or what the service said, behind a "200" only if it asked for a tunnel.
THEOREM BrowserExactCorrect == Spec => []BrowserExact
  BY Invariant, BrowserExactFollows, PTL

\* Whatever a browser sends and however its bytes are cut: a node that got the label whole
\* dials what was asked of it or nothing; one that got only a part of it, and completed it
\* with bytes of the request, an address of its list or of the request, and never the relay.
THEOREM DialsAskedTargetCorrect == Spec => []DialsAskedTarget
  BY Invariant, PTL DEF IInv
==============================================================================
