----------------------------- MODULE SignalProofs -----------------------------
(***************************************************************************)
(* Proofs about Signal, for every set of devices, of pairs that ask, and   *)
(* of addresses: both devices are told before either dials, the map stands *)
(* while the relay has borrowed from it, and nobody waits for it twice.    *)
(***************************************************************************)
EXTENDS Signal, FiniteSetTheorems, SequenceTheorems, TLAPS

\* The part of TypeOK that the argument needs.
Types ==
    /\ client \in [Reqs -> {"idle", "asking", "dialling", "listening"}]
    /\ relay \in [Reqs -> {"idle", "reading", "lookup", "frozen"} \cup GuardHeld]
    /\ up \in [Reqs -> {"none", "open", "answered", "refused", "ended", "lost"}]
    /\ down \in [Reqs -> {"none", "asked", "taken", "answered", "nonsense", "ended", "lost"}]
    /\ dials \in [Reqs -> [client : Told, node : Told]]

\* The device asked for has been told of the asking device.
NodeTold(r) == dials[r].node = Introduction(r[1])

\* The answer travels from the node over the relay to the client, and wherever
\* it is now, the node was told before: on the stream from the node, in the
\* relay, on the stream to the client, or in the client that dials.
ToldBefore ==
    \A r \in Reqs :
        /\ down[r] = "answered" => NodeTold(r)
        /\ relay[r] = "replying" => NodeTold(r)
        /\ up[r] = "answered" => NodeTold(r)
        /\ client[r] \in {"dialling", "listening"} =>
               NodeTold(r) /\ dials[r].client = Introduction(r[2])

IInv == Types /\ ToldBefore

------------------------------------------------------------------------------

\* A request is a pair of devices.
LEMMA ReqPair == ASSUME NEW r \in Reqs PROVE r[1] \in Devices /\ r[2] \in Devices
  BY SignalAssumption DEF SignalAssumption

\* What a device is told of another is an address of that device and a number
\* of ports, and never the value that stands for nothing.
LEMMA IntroductionType ==
  ASSUME NEW d \in Devices
  PROVE  Introduction(d) \in Told /\ Introduction(d) # NoAddr
<1>1. Introduction(d) \in [addr : {SeenAddr[e] : e \in Devices} \cup {TestedAddr[e] : e \in Devices},
                          ports : {1, PortLen}]
  BY DEF Introduction, Best
<1> QED
  BY <1>1, SignalAssumption DEF SignalAssumption, Told

\* The number of ports is more than one exactly where the relay and the test
\* server see a device at different addresses.
LEMMA PortsFitNat ==
  ASSUME NEW d \in Devices
  PROVE  Introduction(d).ports > 1 <=>
             Cardinality({SeenAddr[d], TestedAddr[d]} \ {NoAddr}) > 1
<1> DEFINE seen == SeenAddr[d]
           tested == TestedAddr[d]
<1>1. seen # NoAddr /\ PortLen \in Nat /\ PortLen > 1
  BY SignalAssumption DEF SignalAssumption
<1>2. CASE Symmetric(d)
  <2>1. {seen, tested} \ {NoAddr} = {seen} \cup {tested} /\ tested \notin {seen}
    BY <1>1, <1>2 DEF Symmetric
  <2>2. IsFiniteSet({seen}) /\ Cardinality({seen}) = 1
    BY FS_Singleton
  <2>3. Cardinality({seen} \cup {tested}) = 1 + 1
    BY <2>1, <2>2, FS_AddElement
  <2> QED
    BY <1>1, <1>2, <2>1, <2>3 DEF Introduction
<1>3. CASE ~Symmetric(d)
  <2>1. {seen, tested} \ {NoAddr} = {seen}
    BY <1>1, <1>3 DEF Symmetric
  <2>2. Cardinality({seen}) = 1
    BY FS_Singleton
  <2> QED
    BY <1>3, <2>1, <2>2 DEF Introduction
<1> QED
  BY <1>2, <1>3

------------------------------------------------------------------------------

\* At first nothing has been told and nobody dials.
LEMMA InitInv == Init => IInv
  BY DEF Init, IInv, Types, ToldBefore, Untold, Told

\* Devices that come and go, and their tasks in the relay.
LEMMA DeviceInv ==
  ASSUME IInv, NEW d \in Devices, DeviceNext(d)
  PROVE  IInv'
<1> USE DEF IInv, Types, ToldBefore, NodeTold
<1>1. CASE Start(d) \/ Register(d) \/ CloseSeen(d) \/ Deregister(d)
  BY <1>1 DEF Start, Register, CloseSeen, Deregister
<1>2. CASE ConnLost(d)
  <2>1. client' = client \/ StopCells(d)
    BY <1>2 DEF ConnLost
  <2>2. Types'
    BY <1>2, <2>1 DEF ConnLost, StopCells
  <2>3. ToldBefore'
    BY <1>2, <2>1 DEF ConnLost, StopCells
  <2> QED
    BY <2>2, <2>3
<1> QED
  BY <1>1, <1>2 DEF DeviceNext

\* The steps of the asking device.
LEMMA ClientInv ==
  ASSUME IInv, NEW r \in Reqs,
         Ask(r) \/ ClientRuns(r) \/ DialSucceeds(r) \/ CellEnds(r)
  PROVE  IInv'
<1> USE DEF IInv, Types, ToldBefore, NodeTold, deviceVars
<1>1. CASE Ask(r)
  <2>1. Untold \in [client : Told, node : Told]
    BY DEF Untold, Told
  <2> QED
    BY <1>1, <2>1 DEF Ask
<1>2. CASE ClientReads(r)
  <2>1. Introduction(r[2]) \in Told
    BY ReqPair, IntroductionType
  <2>2. dials' \in [Reqs -> [client : Told, node : Told]]
    BY <1>2, <2>1 DEF ClientReads
  <2>3. \A q \in Reqs : dials'[q].node = dials[q].node
    BY <1>2 DEF ClientReads
  <2>4. dials'[r].client = Introduction(r[2])
    BY <1>2 DEF ClientReads
  <2>5. \A q \in Reqs \ {r} : dials'[q] = dials[q]
    BY <1>2 DEF ClientReads
  <2> QED
    BY <1>2, <2>2, <2>3, <2>4, <2>5 DEF ClientReads
<1>3. CASE ClientRefused(r) \/ CellEnds(r)
  BY <1>3 DEF ClientRefused, CellEnds, RunEnds, StopCells
<1>4. CASE ClientFreezes(r)
  BY <1>4 DEF ClientFreezes
<1>5. CASE DialSucceeds(r)
  BY <1>5 DEF DialSucceeds
<1> QED
  BY <1>1, <1>2, <1>3, <1>4, <1>5 DEF ClientRuns

\* The relay passes on an answer only where it has read one.
LEMMA RelayInv ==
  ASSUME IInv, NEW r \in Reqs, RelayRuns(r) \/ RelayAsks(r)
  PROVE  IInv'
<1> USE DEF IInv, Types, ToldBefore, NodeTold, RelayStep, GuardHeld, deviceVars
<1>1. CASE RelayAccepts(r) \/ RelayParses(r)
  BY <1>1 DEF RelayAccepts, RelayParses
<1>2. CASE RelayLooksUp(r)
  BY <1>2 DEF RelayLooksUp
<1>3. CASE RelayRefuses(r) \/ RelayAskFails(r) \/ RelayRejects(r)
  <2>1. CASE RelayRefuses(r)
    BY <2>1 DEF RelayRefuses, RelayReturns
  <2>2. CASE RelayAskFails(r)
    BY <2>2 DEF RelayAskFails, RelayReturns
  <2>3. CASE RelayRejects(r)
    BY <2>3 DEF RelayRejects, RelayReturns
  <2> QED
    BY <1>3, <2>1, <2>2, <2>3
<1>4. CASE RelayAsks(r)
  BY <1>4 DEF RelayAsks
<1>5. CASE RelayReads(r) \/ RelayFreezes(r)
  BY <1>5 DEF RelayReads, RelayFreezes
<1>6. CASE RelayReplies(r)
  BY <1>6 DEF RelayReplies, RelayReturns
<1> QED
  BY <1>1, <1>2, <1>3, <1>4, <1>5, <1>6 DEF RelayRuns

\* The node answers and is told in one step.
LEMMA NodeInv ==
  ASSUME IInv, NEW r \in Reqs, NodeRuns(r)
  PROVE  IInv'
<1> USE DEF IInv, Types, ToldBefore, NodeTold, deviceVars
<1>1. CASE NodeAnswers(r)
  <2>1. Introduction(r[1]) \in Told
    BY ReqPair, IntroductionType
  <2>2. dials' \in [Reqs -> [client : Told, node : Told]]
    BY <1>1, <2>1 DEF NodeAnswers
  <2>3. \A q \in Reqs : dials'[q].client = dials[q].client
    BY <1>1 DEF NodeAnswers
  <2>4. dials'[r].node = Introduction(r[1])
    BY <1>1 DEF NodeAnswers
  <2>5. \A q \in Reqs \ {r} : dials'[q] = dials[q]
    BY <1>1 DEF NodeAnswers
  <2> QED
    BY <1>1, <2>2, <2>3, <2>4, <2>5 DEF NodeAnswers
<1>2. CASE NodeAccepts(r) \/ NodeFails(r)
  BY <1>2 DEF NodeAccepts, NodeFails
<1> QED
  BY <1>1, <1>2 DEF NodeRuns

\* The inductive invariant: an answer is anywhere between node and client only
\* after the node was told of the asking device.
THEOREM Invariant == Spec => []IInv
<1>1. IInv /\ [Next]_vars => IInv'
  <2> SUFFICES ASSUME IInv, [Next]_vars PROVE IInv'
    OBVIOUS
  <2>1. CASE Next
    BY <2>1, DeviceInv, ClientInv, RelayInv, NodeInv DEF Next, ReqNext
  <2>2. CASE UNCHANGED vars
    BY <2>2 DEF vars, IInv, Types, ToldBefore, NodeTold
  <2> QED
    BY <2>1, <2>2
<1> QED
  BY <1>1, InitInv, PTL DEF Spec

\* The invariant gives both introductions, with the addresses and the number of
\* ports that fit the other device.
LEMMA InvGivesIntroductions == IInv => BothIntroduced
<1> SUFFICES ASSUME IInv, NEW r \in Reqs, client[r] \in {"dialling", "listening"},
                    NEW side \in {"client", "node"}
             PROVE  LET other == IF side = "client" THEN r[2] ELSE r[1] IN
                    /\ dials[r][side] # NoAddr
                    /\ dials[r][side].addr \in {SeenAddr[other], TestedAddr[other]} \ {NoAddr}
                    /\ dials[r][side].ports > 1 <=>
                           Cardinality({SeenAddr[other], TestedAddr[other]} \ {NoAddr}) > 1
  BY DEF BothIntroduced
<1> DEFINE other == IF side = "client" THEN r[2] ELSE r[1]
<1>1. dials[r][side] = Introduction(other)
  BY DEF IInv, ToldBefore, NodeTold
<1>2. other \in Devices
  BY ReqPair
<1>3. Introduction(other).addr \in {SeenAddr[other], TestedAddr[other]} \ {NoAddr}
  BY <1>2, SignalAssumption DEF SignalAssumption, Introduction, Best
<1> QED
  BY <1>1, <1>2, <1>3, IntroductionType, PortsFitNat

\* When a device starts to dial, both have been told to dial each other, so that
\* both NATs are opened.
THEOREM IntroducedCorrect == Spec => []BothIntroduced
  BY Invariant, InvGivesIntroductions, PTL

\* While handle_bi_cell of the relay holds what it borrowed from the map, no
\* step lets a device in or takes one off the map.
THEOREM EntriesStandCorrect == Spec => EntriesStand
<1>1. [Next]_vars =>
          [(\E r \in Reqs : relay[r] \in {"opening", "waiting"}) => peers' = peers]_vars
  <2> SUFFICES ASSUME Next, NEW r \in Reqs, relay[r] \in {"opening", "waiting"}
               PROVE  peers' = peers
    BY DEF vars, deviceVars
  <2>1. ReadHolders # {}
    BY DEF ReadHolders, GuardHeld
  <2>2. ASSUME NEW d \in Devices, DeviceNext(d) PROVE peers' = peers
    BY <2>1, <2>2 DEF DeviceNext, Start, Register, CloseSeen, Deregister, ConnLost,
                      WriteGranted
  <2>3. ASSUME NEW q \in Reqs, RelayRuns(q) \/ RelayAsks(q) PROVE peers' = peers
    BY <2>3 DEF RelayRuns, RelayAccepts, RelayParses, RelayFreezes, RelayLooksUp,
                RelayRefuses, RelayAsks, RelayAskFails, RelayReads, RelayRejects,
                RelayReplies, RelayReturns, RelayStep, deviceVars
  <2>4. ASSUME NEW q \in Reqs, Ask(q) \/ ClientRuns(q) \/ DialSucceeds(q) \/ CellEnds(q)
        PROVE  peers' = peers
    BY <2>4 DEF Ask, ClientRuns, ClientReads, ClientRefused, ClientFreezes, RunEnds,
                DialSucceeds, CellEnds, deviceVars
  <2>5. ASSUME NEW q \in Reqs, NodeRuns(q) PROVE peers' = peers
    BY <2>5 DEF NodeRuns, NodeAccepts, NodeAnswers, NodeFails, deviceVars
  <2> QED
    BY <2>2, <2>3, <2>4, <2>5 DEF Next, ReqNext
<1> QED
  BY <1>1, PTL DEF Spec, EntriesStand

------------------------------------------------------------------------------
(* The lock's queue. *)

\* Somewhere in a queue.
InQueue(x, q) == \E i \in 1..Len(q) : q[i] = x

\* Nothing is in a queue twice.
Once(q) == \A i, j \in 1..Len(q) : q[i] = q[j] => i = j

\* Every ticket is of a task that waits for the lock, and of no other ticket's.
Line ==
    /\ lockq \in Seq(Devices \cup Reqs)
    /\ Once(lockq)
    /\ \A d \in Devices : InQueue(d, lockq) => task[d] \in {"register", "deregister"}
    /\ \A r \in Reqs : InQueue(r, lockq) => relay[r] = "lookup"

\* The rest of TypeOK.
DeviceTypes ==
    /\ peers \subseteq Devices /\ linked \subseteq Devices
    /\ task \in [Devices -> {"off", "register", "online", "deregister"}]
    /\ node \in [Devices -> {"off", "running", "stopped", "frozen"}]

\* A ticket that is not in the queue yet joins it.
LEMMA JoinsQueue ==
  ASSUME NEW S, NEW q \in Seq(S), NEW t \in S, Once(q), ~InQueue(t, q)
  PROVE  /\ Append(q, t) \in Seq(S) /\ Once(Append(q, t))
         /\ \A x : InQueue(x, Append(q, t)) => x = t \/ InQueue(x, q)
<1> DEFINE u == Append(q, t)
<1>1. /\ Len(q) \in Nat /\ u \in Seq(S) /\ Len(u) = Len(q) + 1
      /\ \A i \in 1..Len(q) : u[i] = q[i]
      /\ u[Len(q) + 1] = t
  BY AppendProperties
<1> HIDE DEF u
<1>2. ASSUME NEW i \in 1..Len(u), NEW j \in 1..Len(u), u[i] = u[j] PROVE i = j
  <2>1. \A k \in 1..Len(u) : k \in 1..Len(q) \/ k = Len(q) + 1
    BY <1>1
  <2>2. \A k \in 1..Len(q) : u[k] # t
    BY <1>1 DEF InQueue
  <2>3. CASE i \in 1..Len(q) /\ j \in 1..Len(q)
    BY <1>1, <1>2, <2>3 DEF Once
  <2> QED
    BY <1>1, <1>2, <2>1, <2>2, <2>3
<1>3. ASSUME NEW x, InQueue(x, u) PROVE x = t \/ InQueue(x, q)
  <2>1. PICK i \in 1..Len(u) : u[i] = x
    BY <1>3 DEF InQueue
  <2>2. i \in 1..Len(q) \/ i = Len(q) + 1
    BY <1>1
  <2> QED
    BY <1>1, <2>1, <2>2 DEF InQueue
<1>4. Once(u)
  BY <1>2 DEF Once
<1> QED
  BY <1>1, <1>3, <1>4 DEF u

\* The first in a queue leaves it, and is in it no more.
LEMMA LeavesQueue ==
  ASSUME NEW S, NEW q \in Seq(S), q # <<>>, Once(q)
  PROVE  /\ Tail(q) \in Seq(S) /\ Once(Tail(q))
         /\ \A x : InQueue(x, Tail(q)) => x # Head(q) /\ InQueue(x, q)
<1> DEFINE u == Tail(q)
<1>1. /\ Len(q) \in Nat /\ Len(q) > 0 /\ u \in Seq(S) /\ Len(u) = Len(q) - 1
      /\ \A i \in 1..Len(u) : u[i] = q[i + 1]
      /\ Head(q) = q[1]
  BY HeadTailProperties
<1> HIDE DEF u
<1>2. \A i \in 1..Len(u) : i + 1 \in 1..Len(q) /\ i + 1 # 1
  BY <1>1
<1>3. ASSUME NEW i \in 1..Len(u), NEW j \in 1..Len(u), u[i] = u[j] PROVE i = j
  <2>1. i + 1 = j + 1
    BY <1>1, <1>2, <1>3 DEF Once
  <2> QED
    BY <2>1
<1>4. ASSUME NEW x, InQueue(x, u) PROVE x # Head(q) /\ InQueue(x, q)
  <2>1. PICK i \in 1..Len(u) : u[i] = x
    BY <1>4 DEF InQueue
  <2>2. q[i + 1] = x /\ i + 1 \in 1..Len(q) /\ i + 1 # 1 /\ 1 \in 1..Len(q)
    BY <1>1, <1>2, <2>1
  <2>3. x # q[1]
    BY <2>2 DEF Once
  <2> QED
    BY <1>1, <2>2, <2>3 DEF InQueue
<1>5. Once(u)
  BY <1>3 DEF Once
<1> QED
  BY <1>1, <1>4, <1>5 DEF u

\* Every ticket of a queue is another, so there are no more than there are tasks.
LEMMA QueueBound ==
  ASSUME Line
  PROVE  Len(lockq) <= Cardinality(Devices) + Cardinality(Reqs)
<1>1. IsFiniteSet(Devices) /\ IsFiniteSet(Reqs)
  <2>1. IsFiniteSet(Devices \X Devices)
    BY SignalAssumption, FS_Product DEF SignalAssumption
  <2> QED
    BY <2>1, SignalAssumption, FS_Subset DEF SignalAssumption
<1> DEFINE T == Devices \cup Reqs
<1>2. /\ IsFiniteSet(T) /\ Cardinality(T) \in Nat
      /\ Cardinality(T) = Cardinality(Devices) + Cardinality(Reqs)
  <2>1. Cardinality(Devices \cap Reqs) = 0
    BY SignalAssumption, FS_EmptySet DEF SignalAssumption
  <2>2. Cardinality(Devices) \in Nat /\ Cardinality(Reqs) \in Nat
    BY <1>1, FS_CardinalityType
  <2>3. IsFiniteSet(T) /\ Cardinality(T) = Cardinality(Devices) + Cardinality(Reqs)
                                           - Cardinality(Devices \cap Reqs)
    BY <1>1, FS_Union
  <2> QED
    BY <2>1, <2>2, <2>3
<1>3. lockq \in [1..Len(lockq) -> T] /\ Len(lockq) \in Nat
  BY DEF Line
<1>4. IsFiniteSet(1..Len(lockq)) /\ Cardinality(1..Len(lockq)) = Len(lockq)
  <2>1. Len(lockq) \in Int /\ 1 \in Int
    BY <1>3
  <2>2. /\ IsFiniteSet(1..Len(lockq))
        /\ Cardinality(1..Len(lockq)) = IF 1 > Len(lockq) THEN 0 ELSE Len(lockq) - 1 + 1
    BY <2>1, FS_Interval
  <2> QED
    BY <1>3, <2>2
<1> HIDE DEF T
<1>5. ASSUME Cardinality(T) < Len(lockq) PROVE FALSE
  <2>1. \E i, j \in 1..Len(lockq) : i # j /\ lockq[i] = lockq[j]
    BY <1>2, <1>3, <1>4, <1>5, FS_PigeonHole
  <2> QED
    BY <2>1 DEF Line, Once
<1> QED
  BY <1>2, <1>3, <1>5

\* A ticket that waits for nothing is not in the queue; each is of one task.
LEMMA TicketFacts ==
  ASSUME Line
  PROVE  /\ \A d \in Devices : d \notin Reqs /\ d \in Devices \cup Reqs
         /\ \A r \in Reqs : r \notin Devices /\ r \in Devices \cup Reqs
         /\ \A d \in Devices : task[d] \in {"off", "online"} => ~InQueue(d, lockq)
         /\ \A r \in Reqs : relay[r] # "lookup" => ~InQueue(r, lockq)
<1>1. Devices \cap Reqs = {}
  BY SignalAssumption DEF SignalAssumption
<1>2. ASSUME NEW d \in Devices, task[d] \in {"off", "online"} PROVE ~InQueue(d, lockq)
  BY <1>2 DEF Line
<1>3. ASSUME NEW r \in Reqs, relay[r] # "lookup" PROVE ~InQueue(r, lockq)
  BY <1>3 DEF Line
<1> QED
  BY <1>1, <1>2, <1>3

\* Steps that leave the queue alone and take nobody out of it.
LEMMA LineKept ==
  ASSUME Line, lockq' = lockq,
         \A d \in Devices : task[d] \in {"register", "deregister"} => task'[d] = task[d],
         \A r \in Reqs : relay[r] = "lookup" => relay'[r] = "lookup"
  PROVE  Line'
  BY DEF Line

\* A task of the relay that waits for the lock joins the line.
LEMMA DeviceJoins ==
  ASSUME Line, DeviceTypes, NEW d \in Devices, task[d] \in {"off", "online"},
         NEW how \in {"register", "deregister"}, task' = [task EXCEPT ![d] = how],
         lockq' = Append(lockq, d), relay' = relay
  PROVE  Line'
<1>1. /\ lockq' \in Seq(Devices \cup Reqs) /\ Once(lockq')
      /\ \A x : InQueue(x, lockq') => x = d \/ InQueue(x, lockq)
  <2>1. lockq \in Seq(Devices \cup Reqs) /\ d \in Devices \cup Reqs /\ Once(lockq)
    BY DEF Line
  <2>2. ~InQueue(d, lockq)
    BY TicketFacts
  <2> QED
    BY <2>1, <2>2, JoinsQueue
<1>2. \A e \in Devices : task'[e] = IF e = d THEN how ELSE task[e]
  BY DEF DeviceTypes
<1>3. \A r \in Reqs : r # d
  BY TicketFacts
<1> QED
  BY <1>1, <1>2, <1>3 DEF Line

\* A task that is given the lock for writing leaves the line.
LEMMA DeviceLeaves ==
  ASSUME Line, DeviceTypes, NEW d \in Devices, FirstInLine(d),
         NEW how, task' = [task EXCEPT ![d] = how], lockq' = Tail(lockq), relay' = relay
  PROVE  Line'
<1>1. /\ lockq' \in Seq(Devices \cup Reqs) /\ Once(lockq')
      /\ \A x : InQueue(x, lockq') => x # d /\ InQueue(x, lockq)
  <2>1. lockq \in Seq(Devices \cup Reqs) /\ lockq # <<>> /\ Once(lockq) /\ Head(lockq) = d
    BY DEF Line, FirstInLine
  <2> QED
    BY <2>1, LeavesQueue
<1>2. \A e \in Devices : e # d => task'[e] = task[e]
  BY DEF DeviceTypes
<1> QED
  BY <1>1, <1>2 DEF Line

\* A request that looks a device up joins the line when its header is read.
LEMMA RequestJoins ==
  ASSUME Line, Types, NEW r \in Reqs, RelayParses(r)
  PROVE  Line'
<1>1. /\ relay[r] = "reading" /\ relay' = [relay EXCEPT ![r] = "lookup"]
      /\ lockq' = Append(lockq, r) /\ task' = task
  BY DEF RelayParses, RelayStep, deviceVars
<1>2. /\ lockq' \in Seq(Devices \cup Reqs) /\ Once(lockq')
      /\ \A x : InQueue(x, lockq') => x = r \/ InQueue(x, lockq)
  <2>1. lockq \in Seq(Devices \cup Reqs) /\ r \in Devices \cup Reqs /\ Once(lockq)
    BY DEF Line
  <2>2. ~InQueue(r, lockq)
    BY <1>1, TicketFacts
  <2> QED
    BY <1>1, <2>1, <2>2, JoinsQueue
<1>3. \A q \in Reqs : relay'[q] = IF q = r THEN "lookup" ELSE relay[q]
  BY <1>1 DEF Types
<1>4. \A d \in Devices : d # r
  BY TicketFacts
<1> QED
  BY <1>1, <1>2, <1>3, <1>4 DEF Line

\* And leaves it with the guard.
LEMMA RequestLeaves ==
  ASSUME Line, Types, NEW r \in Reqs, RelayLooksUp(r)
  PROVE  Line'
<1>1. /\ \E to : relay' = [relay EXCEPT ![r] = to]
      /\ lockq' = Tail(lockq) /\ task' = task
  BY DEF RelayLooksUp, RelayStep, deviceVars
<1>2. /\ lockq' \in Seq(Devices \cup Reqs) /\ Once(lockq')
      /\ \A x : InQueue(x, lockq') => x # r /\ InQueue(x, lockq)
  <2>1. lockq \in Seq(Devices \cup Reqs) /\ lockq # <<>> /\ Once(lockq) /\ Head(lockq) = r
    BY DEF Line, RelayLooksUp, FirstInLine
  <2> QED
    BY <1>1, <2>1, LeavesQueue
<1>3. \A q \in Reqs : q # r => relay'[q] = relay[q]
  BY <1>1 DEF Types
<1> QED
  BY <1>1, <1>2, <1>3 DEF Line

\* Devices and their tasks.
LEMMA DeviceLine ==
  ASSUME DeviceTypes, Line, NEW d \in Devices, DeviceNext(d)
  PROVE  DeviceTypes' /\ Line'
<1>1. CASE Start(d) \/ CloseSeen(d)
  <2>1. DeviceTypes'
    BY <1>1 DEF DeviceTypes, Start, CloseSeen
  <2>2. task[d] \in {"off", "online"} /\ lockq' = Append(lockq, d) /\ relay' = relay
    BY <1>1 DEF Start, CloseSeen
  <2>3. task' = [task EXCEPT ![d] = "register"] \/ task' = [task EXCEPT ![d] = "deregister"]
    BY <1>1 DEF Start, CloseSeen
  <2> QED
    BY <2>1, <2>2, <2>3, DeviceJoins
<1>2. CASE Register(d) \/ Deregister(d)
  <2>1. DeviceTypes'
    BY <1>2 DEF DeviceTypes, Register, Deregister
  <2>2. FirstInLine(d) /\ lockq' = Tail(lockq) /\ relay' = relay
    BY <1>2 DEF Register, Deregister, WriteGranted
  <2>3. task' = [task EXCEPT ![d] = "online"] \/ task' = [task EXCEPT ![d] = "off"]
    BY <1>2 DEF Register, Deregister
  <2> QED
    BY <2>1, <2>2, <2>3, DeviceLeaves
<1>3. CASE ConnLost(d)
  <2>1. UNCHANGED <<peers, task, relay, lockq>> /\ linked' \subseteq linked
    BY <1>3 DEF ConnLost
  <2>2. node' \in [Devices -> {"off", "running", "stopped", "frozen"}]
    BY <1>3 DEF ConnLost, DeviceTypes
  <2>3. Line'
    BY <2>1, LineKept
  <2> QED
    BY <2>1, <2>2, <2>3 DEF DeviceTypes
<1> QED
  BY <1>1, <1>2, <1>3 DEF DeviceNext

\* Requests, in all three programs.
LEMMA RequestLine ==
  ASSUME Types, DeviceTypes, Line, NEW r \in Reqs, ReqNext(r)
  PROVE  DeviceTypes' /\ Line'
<1>1. CASE Ask(r) \/ ClientReads(r) \/ DialSucceeds(r) \/ NodeRuns(r)
  <2>1. UNCHANGED <<deviceVars, relay, lockq>>
    BY <1>1 DEF Ask, ClientReads, DialSucceeds, NodeRuns, NodeAccepts, NodeAnswers, NodeFails
  <2>2. Line'
    BY <2>1, LineKept DEF deviceVars
  <2> QED
    BY <2>1, <2>2 DEF DeviceTypes, deviceVars
<1>2. CASE ClientRefused(r) \/ ClientFreezes(r) \/ CellEnds(r)
  <2>1. /\ UNCHANGED <<peers, task, linked, relay, lockq>>
        /\ \/ node' = [node EXCEPT ![r[1]] = "stopped"]
           \/ node' = [node EXCEPT ![r[1]] = "frozen"]
    BY <1>2 DEF ClientRefused, ClientFreezes, CellEnds, RunEnds
  <2>2. DeviceTypes'
    BY <2>1 DEF DeviceTypes
  <2>3. Line'
    BY <2>1, LineKept
  <2> QED
    BY <2>2, <2>3
<1>3. CASE RelayRuns(r) \/ RelayAsks(r)
  <2>1. UNCHANGED deviceVars
    BY <1>3 DEF RelayRuns, RelayAccepts, RelayParses, RelayFreezes, RelayLooksUp,
                RelayRefuses, RelayAsks, RelayAskFails, RelayReads, RelayRejects,
                RelayReplies, RelayReturns, RelayStep
  <2>2. DeviceTypes'
    BY <2>1 DEF DeviceTypes, deviceVars
  <2>3. CASE RelayParses(r) \/ RelayLooksUp(r)
    BY <2>2, <2>3, RequestJoins, RequestLeaves
  <2>4. CASE ~RelayParses(r) /\ ~RelayLooksUp(r)
    <3>1. /\ relay[r] # "lookup" /\ lockq' = lockq
          /\ \E to : relay' = [relay EXCEPT ![r] = to]
      BY <1>3, <2>4 DEF RelayRuns, RelayAccepts, RelayFreezes, RelayRefuses, RelayAsks,
                RelayAskFails, RelayReads, RelayRejects, RelayReplies, RelayReturns, RelayStep
    <3>2. \A q \in Reqs : relay[q] = "lookup" => relay'[q] = "lookup"
      BY <3>1 DEF Types
    <3>3. Line'
      BY <2>1, <3>1, <3>2, LineKept DEF deviceVars
    <3> QED
      BY <2>2, <3>3
  <2> QED
    BY <2>3, <2>4
<1> QED
  BY <1>1, <1>2, <1>3 DEF ReqNext, ClientRuns

\* All states of all tasks are the code's, and no task waits for the lock twice: the
\* queue is never longer than there are tasks.
THEOREM TypeCorrect == Spec => []TypeOK
<1>1. Init => DeviceTypes /\ Line
  <2> SUFFICES ASSUME Init PROVE DeviceTypes /\ Line
    OBVIOUS
  <2>1. lockq \in Seq(Devices \cup Reqs) /\ Len(lockq) = 0
    BY DEF Init
  <2> QED
    BY <2>1 DEF Init, DeviceTypes, Line, Once, InQueue
<1>2. IInv /\ DeviceTypes /\ Line /\ [Next]_vars => (DeviceTypes /\ Line)'
  <2> SUFFICES ASSUME Types, DeviceTypes, Line, [Next]_vars PROVE DeviceTypes' /\ Line'
    BY DEF IInv
  <2>1. CASE Next
    BY <2>1, DeviceLine, RequestLine DEF Next
  <2>2. CASE UNCHANGED vars
    BY <2>2 DEF vars, deviceVars, DeviceTypes, Line
  <2> QED
    BY <2>1, <2>2
<1>3. IInv /\ DeviceTypes /\ Line => TypeOK
  BY QueueBound DEF IInv, Types, DeviceTypes, Line, TypeOK
<1> QED
  BY <1>1, <1>2, <1>3, Invariant, PTL DEF Spec
==============================================================================
