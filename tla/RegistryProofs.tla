--------------------------- MODULE RegistryProofs ----------------------------
(***************************************************************************)
(* Proofs about Registry, for every set of labels, connections and         *)
(* requests: the safety properties of the relay's map, and that it         *)
(* implements Directory.                                                   *)
(***************************************************************************)
EXTENDS Registry, TLAPS

Linked == {"opening", "announce", "copying"}

\* Every request that uses a connection found it under a label it announced;
\* a free slot asks for nothing and a used one asks for a label.
RequestsConsistent ==
    \A r \in Reqs :
        /\ asked[r] = NoMac <=> request[r] = "idle"
        /\ request[r] \in Linked => via[r] \in Conns
        /\ request[r] \in Linked => asked[r] \in Range(macList[via[r]])

\* A handler waits to remove its labels only after its connection is closed.
ClosedBeforeRemoval ==
    \A c \in Conns : handler[c] = "deregister" => quic[c] = "closed"

\* None of the four properties is inductive alone: that a removal takes the
\* task's own entries only needs OwnershipExact, that it happens to no request
\* in open_bi needs the guard (ReadHolders), and that a session's connection
\* announced the label needs HeldEntryStable at the end of open_bi.
IInv ==
    /\ TypeOK
    /\ OwnershipExact
    /\ HeldEntryStable
    /\ RequestsConsistent
    /\ ClosedBeforeRemoval

------------------------------------------------------------------------------

\* What the list of labels contributes: nothing at first, then its elements.
LEMMA RangeEmpty == Range(<<>>) = {}
  BY DEF Range

\* One more label on the list adds exactly that label.
LEMMA RangeAppend ==
  ASSUME NEW S, NEW s \in Seq(S), NEW e \in S
  PROVE  Range(Append(s, e)) = Range(s) \cup {e}
  <1>1. DOMAIN Append(s, e) = 1..(Len(s) + 1) /\ DOMAIN s = 1..Len(s) /\ Len(s) \in Nat
    OBVIOUS
  <1>2. \A i \in 1..Len(s) : Append(s, e)[i] = s[i]
    OBVIOUS
  <1>3. Append(s, e)[Len(s) + 1] = e
    OBVIOUS
  <1>4. 1..(Len(s) + 1) = (1..Len(s)) \cup {Len(s) + 1}
    BY <1>1
  <1> QED
    BY <1>1, <1>2, <1>3, <1>4 DEF Range

\* The labels of a list of labels are labels.
LEMMA RangeType ==
  ASSUME NEW S, NEW s \in Seq(S)
  PROVE  Range(s) \subseteq S
  BY DEF Range

\* A free lock queue entry is removed from the front.
LEMMA TailType ==
  ASSUME NEW S, NEW s \in Seq(S), s # <<>>
  PROVE  Tail(s) \in Seq(S)
  OBVIOUS

------------------------------------------------------------------------------

\* The empty registry is well typed.
LEMMA TypeInit == Init => TypeOK
  BY RegistryAssumption DEF Init, TypeOK, HandlerState, RequestState

\* Every step of a device connection's task keeps the types.
LEMMA TypeConn ==
  ASSUME TypeOK, NEW c \in Conns, ConnNext(c)
  PROVE  TypeOK'
<1> USE RegistryAssumption DEF TypeOK, HandlerState, RequestState, connVars, reqVars
<1>1. CASE Incoming(c)
  BY <1>1 DEF Incoming
<1>2. CASE AcceptUni(c)
  BY <1>2 DEF AcceptUni
<1>3. CASE ReadLen(c)
  <2>1. PICK n \in 0..MaxMacs : want' = [want EXCEPT ![c] = n]
    BY <1>3 DEF ReadLen
  <2>2. /\ handler[c] = "read_len"
        /\ handler' = [handler EXCEPT ![c] = "read_mac"]
        /\ UNCHANGED <<peers, quic, macList, request, asked, via, lockq>>
    BY <1>3 DEF ReadLen
  <2>3. Len(<<>>) = 0
    OBVIOUS
  <2> QED
    BY <2>1, <2>2, <2>3
<1>4. CASE ReadMac(c)
  <2>1. PICK m \in Macs : macList' = [macList EXCEPT ![c] = Append(@, m)]
    BY <1>4 DEF ReadMac
  <2>2. /\ handler[c] = "read_mac"
        /\ Len(macList[c]) < want[c]
        /\ UNCHANGED <<peers, quic, handler, want, request, asked, via, lockq>>
    BY <1>4 DEF ReadMac
  <2>3. /\ Append(macList[c], m) \in Seq(Macs)
        /\ Len(Append(macList[c], m)) = Len(macList[c]) + 1
        /\ Len(macList[c]) \in Nat
    OBVIOUS
  <2> QED
    BY <2>1, <2>2, <2>3
<1>5. CASE ReadFails(c)
  BY <1>5 DEF ReadFails
<1>6. CASE ListComplete(c)
  BY <1>6 DEF ListComplete
<1>7. CASE RegisterOk(c)
  BY <1>7, TailType DEF RegisterOk, WriteGranted, FirstInLine
<1>8. CASE RegisterRefused(c)
  BY <1>8, TailType DEF RegisterRefused, WriteGranted, FirstInLine
<1>9. CASE CloseSeen(c)
  BY <1>9 DEF CloseSeen
<1>10. CASE Deregister(c)
  BY <1>10, TailType DEF Deregister, WriteGranted, FirstInLine
<1>11. CASE ConnLost(c)
  BY <1>11 DEF ConnLost
<1> QED
  BY <1>1, <1>2, <1>3, <1>4, <1>5, <1>6, <1>7, <1>8, <1>9, <1>10, <1>11 DEF ConnNext

\* Every step of a browser request keeps the types.
LEMMA TypeReq ==
  ASSUME TypeOK, RequestsConsistent, NEW r \in Reqs, ReqNext(r)
  PROVE  TypeOK'
<1> USE RegistryAssumption DEF TypeOK, HandlerState, RequestState, connVars, reqVars
<1>1. CASE Arrive(r)
  <2>1. PICK m \in Macs : asked' = [asked EXCEPT ![r] = m]
    BY <1>1 DEF Arrive
  <2> QED
    BY <1>1, <2>1 DEF Arrive
<1>2. CASE LookupOffline(r)
  BY <1>2, TailType DEF LookupOffline, ReadGranted, FirstInLine
<1>3. CASE LookupStale(r)
  BY <1>3, TailType DEF LookupStale, ReadGranted, FirstInLine
<1>4. CASE LookupOpen(r)
  <2>1. Found(r) \in Conns \cup {NoConn}
    BY <1>4 DEF LookupOpen, Found, RequestsConsistent
  <2> QED
    BY <1>4, <2>1, TailType DEF LookupOpen, ReadGranted, FirstInLine
<1>5. CASE LookupWait(r)
  <2>1. Found(r) \in Conns \cup {NoConn}
    BY <1>5 DEF LookupWait, Found, RequestsConsistent
  <2> QED
    BY <1>5, <2>1, TailType DEF LookupWait, ReadGranted, FirstInLine
<1>6. CASE OpenReady(r)
  BY <1>6 DEF OpenReady
<1>7. CASE OpenLost(r)
  BY <1>7 DEF OpenLost
<1>8. CASE Announce(r)
  BY <1>8 DEF Announce
<1>9. CASE AnnounceFails(r) \/ SessionEnds(r) \/ Reply(r)
  BY <1>9 DEF AnnounceFails, SessionEnds, Reply, Leave
<1> QED
  BY <1>1, <1>2, <1>3, <1>4, <1>5, <1>6, <1>7, <1>8, <1>9 DEF ReqNext

\* Every step of the registry keeps the types: a task's step or a stutter.
LEMMA TypeStep ==
  ASSUME TypeOK, RequestsConsistent, [Next]_vars
  PROVE  TypeOK'
<1>1. CASE Next
  BY <1>1, TypeConn, TypeReq DEF Next
<1>2. CASE UNCHANGED vars
  BY <1>2 DEF vars, connVars, reqVars, TypeOK
<1> QED
  BY <1>1, <1>2

------------------------------------------------------------------------------

\* The two kinds of task share the map and the lock queue only: a request never
\* writes the map or a handler's state, a handler never writes a request's.
LEMMA ReqFrame ==
  ASSUME NEW r \in Reqs, ReqNext(r)
  PROVE  UNCHANGED <<peers, quic, handler, want, macList>>
  BY DEF ReqNext, Arrive, LookupOffline, LookupStale, LookupOpen, LookupWait,
         OpenReady, OpenLost, Announce, AnnounceFails, SessionEnds, Reply, Leave,
         connVars

\* A connection's task never writes a request's state.
LEMMA ConnFrame ==
  ASSUME NEW c \in Conns, ConnNext(c)
  PROVE  UNCHANGED <<request, asked, via>>
  BY DEF ConnNext, Incoming, AcceptUni, ReadLen, ReadMac, ReadFails, ListComplete,
         RegisterOk, RegisterRefused, CloseSeen, Deregister, ConnLost, reqVars

\* A task works on its own connection only.
LEMMA ConnOthers ==
  ASSUME TypeOK, NEW c \in Conns, ConnNext(c), NEW d \in Conns \ {c}
  PROVE  /\ handler'[d] = handler[d]
         /\ quic'[d] = quic[d]
         /\ macList'[d] = macList[d]
  BY DEF ConnNext, Incoming, AcceptUni, ReadLen, ReadMac, ReadFails, ListComplete,
         RegisterOk, RegisterRefused, CloseSeen, Deregister, ConnLost, TypeOK

\* The map changes only in the two critical sections of the write lock.
LEMMA PeersWriters ==
  ASSUME NEW c \in Conns, ConnNext(c), peers' # peers
  PROVE  RegisterOk(c) \/ Deregister(c)
  BY DEF ConnNext, Incoming, AcceptUni, ReadLen, ReadMac, ReadFails, ListComplete,
         RegisterRefused, CloseSeen, ConnLost

------------------------------------------------------------------------------

\* Each step of a connection's task keeps the map equal to what the tasks that
\* are online announced.
LEMMA OwnershipConn ==
  ASSUME TypeOK, OwnershipExact, NEW c \in Conns, ConnNext(c)
  PROVE  OwnershipExact'
<1> USE RegistryAssumption DEF TypeOK
<1> SUFFICES ASSUME NEW d \in Conns, NEW m \in Macs
             PROVE  peers'[m] = d <=> /\ handler'[d] \in {"online", "deregister"}
                                      /\ m \in Range(macList'[d])
  BY DEF OwnershipExact
<1>1. peers[m] = d <=> /\ handler[d] \in {"online", "deregister"}
                       /\ m \in Range(macList[d])
  BY DEF OwnershipExact
<1>2. peers[m] = c <=> /\ handler[c] \in {"online", "deregister"}
                       /\ m \in Range(macList[c])
  BY DEF OwnershipExact
<1>3. CASE RegisterOk(c)
  <2>1. /\ handler[c] = "register"
        /\ handler' = [handler EXCEPT ![c] = "online"]
        /\ macList' = macList
        /\ peers'[m] = IF m \in Range(macList[c]) THEN c ELSE peers[m]
    BY <1>3 DEF RegisterOk
  <2>2. m \in Range(macList[c]) => peers[m] = NoConn
    BY <1>3 DEF RegisterOk, AllFree
  <2> QED
    BY <1>1, <1>2, <2>1, <2>2
<1>4. CASE Deregister(c)
  <2>1. /\ handler[c] = "deregister"
        /\ handler' = [handler EXCEPT ![c] = "idle"]
        /\ macList' = macList
        /\ peers'[m] = IF m \in Range(macList[c]) THEN NoConn ELSE peers[m]
    BY <1>4 DEF Deregister
  <2> QED
    BY <1>1, <1>2, <2>1
<1>5. CASE peers' = peers
  <2>1. CASE d # c
    BY <1>1, <1>5, <2>1, ConnOthers
  <2>2. CASE d = c
    <3>1. handler[c] \in {"online", "deregister"} =>
             \/ /\ handler'[c] \in {"online", "deregister"}
                /\ macList'[c] = macList[c]
             \/ Deregister(c)
      BY DEF ConnNext, Incoming, AcceptUni, ReadLen, ReadMac, ReadFails,
             ListComplete, RegisterOk, RegisterRefused, CloseSeen, ConnLost
    <3>2. handler[c] \notin {"online", "deregister"} =>
             handler'[c] \notin {"online", "deregister"} \/ RegisterOk(c)
      BY DEF ConnNext, Incoming, AcceptUni, ReadLen, ReadMac, ReadFails,
             ListComplete, RegisterRefused, CloseSeen, Deregister, ConnLost
    <3> QED
      BY <1>1, <1>3, <1>4, <1>5, <2>2, <3>1, <3>2
  <2> QED
    BY <2>1, <2>2
<1> QED
  BY <1>3, <1>4, <1>5, PeersWriters

\* While a request waits in open_bi its entry cannot change, because both
\* writers need every read guard back; a request that starts to wait has just
\* read the entry.
LEMMA HeldStep ==
  ASSUME TypeOK, RequestsConsistent, HeldEntryStable, Next
  PROVE  HeldEntryStable'
<1> SUFFICES ASSUME NEW r \in Reqs, request'[r] = "opening"
             PROVE  peers'[asked'[r]] = via'[r]
  BY DEF HeldEntryStable
<1>1. CASE \E c \in Conns : ConnNext(c)
  <2>1. PICK c \in Conns : ConnNext(c)
    BY <1>1
  <2>2. request[r] = "opening" /\ asked' = asked /\ via' = via
    BY <2>1, ConnFrame
  <2>3. ReadHolders # {}
    BY <2>2 DEF ReadHolders
  <2>4. peers' = peers
    BY <2>1, <2>3, PeersWriters DEF RegisterOk, Deregister, WriteGranted
  <2> QED
    BY <2>2, <2>4 DEF HeldEntryStable
<1>2. CASE \E q \in Reqs : ReqNext(q)
  <2>1. PICK q \in Reqs : ReqNext(q)
    BY <1>2
  <2>2. peers' = peers
    BY <2>1, ReqFrame
  <2>3. CASE LookupWait(q)
    BY <2>2, <2>3 DEF LookupWait, Found, HeldEntryStable, TypeOK
  <2>4. CASE ~LookupWait(q)
    <3>1. request[r] = "opening" /\ asked'[r] = asked[r] /\ via'[r] = via[r]
      BY <2>1, <2>4 DEF ReqNext, Arrive, LookupOffline, LookupStale, LookupOpen,
         OpenReady, OpenLost, Announce, AnnounceFails, SessionEnds, Reply, Leave,
         TypeOK
    <3> QED
      BY <2>2, <3>1 DEF HeldEntryStable
  <2> QED
    BY <2>3, <2>4
<1> QED
  BY <1>1, <1>2 DEF Next

\* The list of a connection some request uses only grows: its identity is not
\* taken again, and a label read is not lost.
LEMMA ListGrows ==
  ASSUME TypeOK, NEW c \in Conns, ConnNext(c), NEW d \in Conns,
         NEW r \in Reqs, via[r] = d
  PROVE  Range(macList[d]) \subseteq Range(macList'[d])
<1>1. CASE d # c
  BY <1>1, ConnOthers
<1>2. CASE d = c
  <2>1. CASE ReadMac(c)
    <3>1. PICK m \in Macs : macList' = [macList EXCEPT ![c] = Append(@, m)]
      BY <2>1 DEF ReadMac
    <3>2. macList'[c] = Append(macList[c], m) /\ macList[c] \in Seq(Macs)
      BY <3>1 DEF TypeOK
    <3> QED
      BY <1>2, <3>2, RangeAppend
  <2>2. CASE Incoming(c)
    BY <1>2, <2>2 DEF Incoming
  <2>3. CASE ~ReadMac(c) /\ ~Incoming(c)
    <3>1. macList' = macList
      BY <2>3 DEF ConnNext, AcceptUni, ReadLen, ReadFails, ListComplete,
         RegisterOk, RegisterRefused, CloseSeen, Deregister, ConnLost
    <3> QED
      BY <3>1
  <2> QED
    BY <2>1, <2>2, <2>3
<1> QED
  BY <1>1, <1>2

\* A request starts to use a connection only by reading its entry in the map,
\* and the map holds what the connection announced.
LEMMA RequestsStep ==
  ASSUME TypeOK, OwnershipExact, RequestsConsistent, Next
  PROVE  RequestsConsistent'
<1> USE RegistryAssumption
<1> SUFFICES ASSUME NEW r \in Reqs
             PROVE  /\ asked'[r] = NoMac <=> request'[r] = "idle"
                    /\ request'[r] \in Linked => via'[r] \in Conns
                    /\ request'[r] \in Linked => asked'[r] \in Range(macList'[via'[r]])
  BY DEF RequestsConsistent
<1>0. /\ asked[r] = NoMac <=> request[r] = "idle"
      /\ request[r] \in Linked => via[r] \in Conns
      /\ request[r] \in Linked => asked[r] \in Range(macList[via[r]])
  BY DEF RequestsConsistent
<1>1. CASE \E c \in Conns : ConnNext(c)
  <2>1. PICK c \in Conns : ConnNext(c)
    BY <1>1
  <2>2. request' = request /\ asked' = asked /\ via' = via
    BY <2>1, ConnFrame
  <2> QED
    BY <1>0, <2>1, <2>2, ListGrows
<1>2. CASE \E q \in Reqs : ReqNext(q)
  <2>1. PICK q \in Reqs : ReqNext(q)
    BY <1>2
  <2>2. macList' = macList
    BY <2>1, ReqFrame
  <2>3. CASE q # r
    <3>1. request'[r] = request[r] /\ asked'[r] = asked[r] /\ via'[r] = via[r]
      BY <2>1, <2>3 DEF ReqNext, Arrive, LookupOffline, LookupStale, LookupOpen,
         LookupWait, OpenReady, OpenLost, Announce, AnnounceFails, SessionEnds,
         Reply, Leave, TypeOK
    <3> QED
      BY <1>0, <2>2, <3>1
  <2>4. CASE q = r /\ (LookupOpen(r) \/ LookupWait(r))
    <3>1. /\ via'[r] = Found(r) /\ asked' = asked
          /\ request'[r] \in Linked /\ request'[r] # "idle"
          /\ request[r] = "lookup" /\ Found(r) # NoConn
      BY <2>4 DEF LookupOpen, LookupWait, Linked, TypeOK
    <3>2. asked[r] \in Macs
      BY <1>0, <3>1 DEF TypeOK
    <3>3. Found(r) \in Conns
      BY <3>1, <3>2 DEF TypeOK, Found
    <3>4. asked[r] \in Range(macList[Found(r)])
      BY <3>2, <3>3 DEF OwnershipExact, Found
    <3> QED
      BY <1>0, <2>2, <3>1, <3>3, <3>4
  <2>5. CASE q = r /\ (Arrive(r) \/ LookupOffline(r) \/ LookupStale(r))
    BY <1>0, <2>5 DEF Arrive, LookupOffline, LookupStale, TypeOK, Linked
  <2>6. CASE q = r /\ (OpenReady(r) \/ OpenLost(r) \/ Announce(r))
    BY <1>0, <2>2, <2>6 DEF OpenReady, OpenLost, Announce, TypeOK, Linked
  <2>7. CASE q = r /\ (AnnounceFails(r) \/ SessionEnds(r) \/ Reply(r))
    BY <2>7 DEF AnnounceFails, SessionEnds, Reply, Leave, TypeOK, Linked
  <2> QED
    BY <2>1, <2>3, <2>4, <2>5, <2>6, <2>7 DEF ReqNext
<1> QED
  BY <1>1, <1>2 DEF Next

\* CloseSeen alone leads to the removal, and only after conn.closed().
LEMMA ClosedStep ==
  ASSUME TypeOK, ClosedBeforeRemoval, Next
  PROVE  ClosedBeforeRemoval'
<1> SUFFICES ASSUME NEW d \in Conns, handler'[d] = "deregister"
             PROVE  quic'[d] = "closed"
  BY DEF ClosedBeforeRemoval
<1>1. CASE \E r \in Reqs : ReqNext(r)
  BY <1>1, ReqFrame DEF ClosedBeforeRemoval
<1>2. ASSUME NEW c \in Conns, ConnNext(c) PROVE quic'[d] = "closed"
  <2>1. CASE d # c
    BY <1>2, <2>1, ConnOthers DEF ClosedBeforeRemoval
  <2>2. CASE d = c
    BY <1>2, <2>2 DEF ConnNext, Incoming, AcceptUni, ReadLen, ReadMac, ReadFails,
       ListComplete, RegisterOk, RegisterRefused, CloseSeen, Deregister, ConnLost,
       TypeOK, ClosedBeforeRemoval
  <2> QED
    BY <2>1, <2>2
<1> QED
  BY <1>1, <1>2 DEF Next

------------------------------------------------------------------------------

\* The empty registry satisfies the inductive invariant.
LEMMA InvInit == Init => IInv
<1> SUFFICES ASSUME Init PROVE IInv
  OBVIOUS
<1>1. TypeOK
  BY TypeInit
<1>2. OwnershipExact
  BY RegistryAssumption DEF Init, OwnershipExact
<1>3. HeldEntryStable /\ RequestsConsistent /\ ClosedBeforeRemoval
  BY DEF Init, HeldEntryStable, RequestsConsistent, ClosedBeforeRemoval, Linked
<1> QED
  BY <1>1, <1>2, <1>3 DEF IInv

\* Every step of the registry keeps the inductive invariant.
LEMMA InvStep ==
  ASSUME IInv, [Next]_vars
  PROVE  IInv'
<1> USE DEF IInv
<1>1. CASE Next
  <2>1. TypeOK'
    BY <1>1, TypeStep
  <2>2. OwnershipExact'
    <3>1. CASE \E r \in Reqs : ReqNext(r)
      BY <3>1, ReqFrame DEF OwnershipExact
    <3> QED
      BY <1>1, <3>1, OwnershipConn DEF Next
  <2>3. HeldEntryStable' /\ RequestsConsistent' /\ ClosedBeforeRemoval'
    BY <1>1, HeldStep, RequestsStep, ClosedStep
  <2> QED
    BY <2>1, <2>2, <2>3
<1>2. CASE UNCHANGED vars
  BY <1>2 DEF vars, connVars, reqVars, TypeOK, OwnershipExact, HeldEntryStable,
              RequestsConsistent, ClosedBeforeRemoval
<1> QED
  BY <1>1, <1>2

\* The inductive invariant holds in every reachable state.
THEOREM Invariant == Spec => []IInv
  BY InvInit, InvStep, PTL DEF Spec

\* Every variable of the registry keeps its type: handle_incomming and
\* translate stay within the states they are modelled with.
THEOREM TypeCorrect == Spec => []TypeOK
  BY Invariant, PTL DEF IInv

\* handle_incomming inserts and removes exactly its own labels, whatever the
\* number of devices that come, go and claim the same label.
THEOREM OwnershipCorrect == Spec => []OwnershipExact
  BY Invariant, PTL DEF IInv

\* The read guard translate holds across open_bi pins the entry it read.
THEOREM HeldEntryCorrect == Spec => []HeldEntryStable
  BY Invariant, PTL DEF IInv

\* A session is only ever with a device that announced the label asked for.
THEOREM RoutingCorrect == Spec => []RoutedToAnnouncer
<1>1. IInv => RoutedToAnnouncer
  BY DEF IInv, RequestsConsistent, RoutedToAnnouncer, Linked
<1> QED
  BY <1>1, Invariant, PTL

------------------------------------------------------------------------------

\* What one step may do to an entry of the map.
LEMMA EvictionStep ==
  ASSUME IInv, [Next]_vars, NEW m \in Macs, peers[m] # NoConn, peers'[m] # peers[m]
  PROVE  quic[peers[m]] = "closed" /\ peers'[m] = NoConn
<1> USE RegistryAssumption DEF IInv
<1>1. CASE UNCHANGED vars
  BY <1>1 DEF vars
<1>2. CASE Next
  <2>1. PICK c \in Conns : ConnNext(c)
    BY <1>2, ReqFrame DEF Next
  <2>2. CASE RegisterOk(c)
    BY <2>2 DEF RegisterOk, AllFree, TypeOK
  <2>3. CASE Deregister(c)
    <3>1. peers'[m] = IF m \in Range(macList[c]) THEN NoConn ELSE peers[m]
      BY <2>3 DEF Deregister
    <3>2. peers[m] = c
      BY <2>3, <3>1 DEF Deregister, OwnershipExact
    <3> QED
      BY <2>3, <3>1, <3>2 DEF Deregister, ClosedBeforeRemoval
  <2> QED
    BY <2>1, <2>2, <2>3, PeersWriters
<1> QED
  BY <1>1, <1>2

\* A label is never taken from a connection that is still open, and never goes
\* straight from one connection to another.
THEOREM NoEvictionCorrect == Spec => NoEviction
<1>1. IInv /\ [Next]_vars =>
        [\A m \in Macs : peers[m] # NoConn /\ peers'[m] # peers[m] =>
            quic[peers[m]] = "closed" /\ peers'[m] = NoConn]_vars
  BY EvictionStep
<1> QED
  BY <1>1, Invariant, PTL DEF Spec, NoEviction

------------------------------------------------------------------------------

\* The first state of the registry is the first state of the directory.
LEMMA RefinesInit == Init => Dir!DirInit
  BY DEF Init, Dir!DirInit, Session

\* A connection's task claims and releases, and does nothing else a user of the
\* directory could notice.
LEMMA RefinesConn ==
  ASSUME IInv, NEW c \in Conns, ConnNext(c)
  PROVE  [Dir!DirNext]_Dir!dirVars
<1> USE RegistryAssumption DEF IInv
<1>1. asked' = asked /\ Session' = Session
  BY ConnFrame DEF Session
<1>2. CASE RegisterOk(c)
  <2>1. Range(macList[c]) \in SUBSET Macs
    BY RangeType DEF TypeOK
  <2>2. \A m \in Macs : peers[m] # c
    BY <1>2 DEF RegisterOk, OwnershipExact
  <2>3. \A m \in Range(macList[c]) : peers[m] = NoConn
    BY <1>2 DEF RegisterOk, AllFree
  <2>4. Dir!Claim(c, Range(macList[c]))
    BY <1>1, <1>2, <2>2, <2>3 DEF RegisterOk, Dir!Claim
  <2> QED
    BY <2>1, <2>4 DEF Dir!DirNext
<1>3. CASE Deregister(c)
  <2>1. \A m \in Macs : peers[m] = c <=> m \in Range(macList[c])
    BY <1>3 DEF Deregister, OwnershipExact
  <2>2. Dir!Release(c)
    BY <1>1, <1>3, <2>1 DEF Deregister, Dir!Release
  <2> QED
    BY <2>2 DEF Dir!DirNext
<1>4. CASE peers' = peers
  BY <1>1, <1>4 DEF Dir!dirVars
<1> QED
  BY <1>2, <1>3, <1>4, PeersWriters

\* A browser request asks, is attached to the owner of the label, and leaves;
\* the wait in open_bi is a stutter, because the entry is still the same after it.
LEMMA RefinesReq ==
  ASSUME IInv, NEW r \in Reqs, ReqNext(r)
  PROVE  [Dir!DirNext]_Dir!dirVars
<1> USE RegistryAssumption DEF IInv
<1>1. peers' = peers
  BY ReqFrame
<1>2. asked[r] = NoMac <=> request[r] = "idle"
  BY DEF RequestsConsistent
<1>3. CASE Arrive(r)
  <2>1. PICK m \in Macs : asked' = [asked EXCEPT ![r] = m]
    BY <1>3 DEF Arrive
  <2>2. Session' = Session
    BY <1>3 DEF Arrive, Session, TypeOK
  <2>3. Dir!Ask(r, m)
    BY <1>1, <1>2, <1>3, <2>1, <2>2 DEF Arrive, Dir!Ask
  <2> QED
    BY <2>3 DEF Dir!DirNext
<1>4. CASE LookupOpen(r) \/ OpenReady(r)
  <2>1. /\ request[r] \in {"lookup", "opening"}
        /\ request' = [request EXCEPT ![r] = "announce"]
        /\ asked' = asked
        /\ \A q \in Reqs \ {r} : via'[q] = via[q]
    BY <1>4 DEF LookupOpen, OpenReady, TypeOK
  <2>2. via'[r] = peers[asked[r]]
    BY <1>4 DEF LookupOpen, OpenReady, Found, HeldEntryStable, TypeOK
  <2>3. peers[asked[r]] # NoConn
    BY <1>4 DEF LookupOpen, OpenReady, Found, HeldEntryStable, RequestsConsistent, Linked
  <2>4. Session[r] = NoConn
    BY <2>1 DEF Session
  <2>5. Session' = [Session EXCEPT ![r] = peers[asked[r]]]
    BY <2>1, <2>2 DEF Session, TypeOK
  <2>6. Dir!Attach(r)
    BY <1>1, <1>2, <2>1, <2>3, <2>4, <2>5 DEF Dir!Attach
  <2> QED
    BY <2>6 DEF Dir!DirNext
<1>5. CASE AnnounceFails(r) \/ SessionEnds(r) \/ Reply(r)
  <2>1. asked' = [asked EXCEPT ![r] = NoMac]
    BY <1>5 DEF AnnounceFails, SessionEnds, Reply, Leave
  <2>2. Session' = [Session EXCEPT ![r] = NoConn]
    BY <1>5 DEF AnnounceFails, SessionEnds, Reply, Leave, Session, TypeOK
  <2>3. Dir!Finish(r)
    BY <1>1, <2>1, <2>2 DEF Dir!Finish
  <2> QED
    BY <2>3 DEF Dir!DirNext
<1>6. CASE LookupOffline(r) \/ LookupStale(r) \/ LookupWait(r) \/ OpenLost(r) \/ Announce(r)
  <2>1. asked' = asked
    BY <1>6 DEF LookupOffline, LookupStale, LookupWait, OpenLost, Announce
  <2>2. Session' = Session
    BY <1>6 DEF LookupOffline, LookupStale, LookupWait, OpenLost, Announce, Session,
                TypeOK
  <2> QED
    BY <1>1, <2>1, <2>2 DEF Dir!dirVars
<1> QED
  BY <1>3, <1>4, <1>5, <1>6 DEF ReqNext

\* The registry with its tasks, lock and awaits implements Directory.
THEOREM RefinesDirectory == Spec => DirectorySpec
<1>1. IInv /\ [Next]_vars => [Dir!DirNext]_Dir!dirVars
  <2> SUFFICES ASSUME IInv, [Next]_vars PROVE [Dir!DirNext]_Dir!dirVars
    OBVIOUS
  <2>1. CASE Next
    BY <2>1, RefinesConn, RefinesReq DEF Next
  <2>2. CASE UNCHANGED vars
    BY <2>2 DEF vars, reqVars, Dir!dirVars, Session
  <2> QED
    BY <2>1, <2>2
<1> QED
  BY <1>1, RefinesInit, Invariant, PTL DEF Spec, DirectorySpec, Dir!DirSpec
==============================================================================
