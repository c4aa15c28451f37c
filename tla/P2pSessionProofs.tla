--------------------------- MODULE P2pSessionProofs ---------------------------
(***************************************************************************)
(* Proofs about P2pSession, for every set of connections and of local      *)
(* programs: a p2p connection stays open at the client's end exactly as    *)
(* long as somebody uses it, or until its end is lost.                     *)
(***************************************************************************)
EXTENDS P2pSession, TLAPS

\* What was never connected is used by nobody, at either end.
UnusedBefore == \A c \in Conns : client[c] = "none" => node[c] = "none" /\ ~InUse(c)

IInv == TypeOK /\ OpenWhileUsed /\ UnusedBefore

------------------------------------------------------------------------------

\* What a change of the handles makes of the client's ends: an end that was open
\* and has no handle left is closed, every other end stays as it is.
LEMMA DroppedEnds ==
  ASSUME NEW listener, NEW tasks, NEW c \in Conns
  PROVE  Dropped(listener, tasks)[c] =
             IF client[c] = "open" /\ listener # c /\ \A l \in Locals : ~HoldsIn(tasks, l, c)
             THEN "closed" ELSE client[c]
  BY DEF Dropped

\* Dropping handles keeps the type of the client's ends.
LEMMA DroppedType ==
  ASSUME TypeOK, NEW listener, NEW tasks
  PROVE  Dropped(listener, tasks) \in [Conns -> {"none", "open", "closed"}]
  BY DEF Dropped, TypeOK

\* At first nothing is open and nobody is there.
LEMMA InitInv == Init => IInv
<1> SUFFICES ASSUME Init PROVE IInv
  OBVIOUS
<1>1. TypeOK
  BY DEF Init, TypeOK, Away
<1>2. \A c \in Conns : ~InUse(c)
  BY P2pSessionAssumption DEF Init, InUse, HoldsIn, Away, P2pSessionAssumption
<1> QED
  BY <1>1, <1>2 DEF Init, IInv, OpenWhileUsed, UnusedBefore

\* A connection that has just been made is open, and the listener has it.
LEMMA ConnectInv == ASSUME IInv, NEW c \in Conns, Connect(c) PROVE IInv'
<1> USE DEF Connect
<1>1. TypeOK'
  BY DEF IInv, TypeOK
<1>2. \A e \in Conns \ {c} : client'[e] = client[e] /\ node'[e] = node[e] /\ (InUse(e) <=> InUse(e)')
  BY P2pSessionAssumption DEF IInv, TypeOK, InUse, HoldsIn, P2pSessionAssumption
<1>3. client'[c] = "open" /\ InUse(c)'
  BY DEF IInv, TypeOK, InUse
<1> QED
  BY <1>1, <1>2, <1>3 DEF IInv, OpenWhileUsed, UnusedBefore

\* A task that is started has a handle of the listener's connection, which is
\* used already.
LEMMA TcpAcceptedInv == ASSUME IInv, NEW l \in Locals, TcpAccepted(l) PROVE IInv'
<1> USE DEF TcpAccepted, nodeVars
<1>1. TypeOK'
  BY P2pSessionAssumption DEF IInv, TypeOK, P2pSessionAssumption
<1>2. local'[l].conn = cur /\ \A k \in Locals \ {l} : local'[k] = local[k]
  BY DEF IInv, TypeOK
<1>3. \A e \in Conns : InUse(e) <=> InUse(e)'
  BY <1>2, P2pSessionAssumption
  DEF IInv, TypeOK, InUse, HoldsIn, Away, P2pSessionAssumption
<1> QED
  BY <1>1, <1>3 DEF IInv, OpenWhileUsed, UnusedBefore

\* Opening a stream changes no handle.
LEMMA OpenBiInv == ASSUME IInv, NEW l \in Locals, OpenBi(l) PROVE IInv'
<1> USE DEF OpenBi, nodeVars
<1>1. local[l].conn \in Conns
  BY DEF IInv, TypeOK
<1>2. streams' \in [Conns -> Seq(Locals)]
  <2>1. Append(streams[local[l].conn], l) \in Seq(Locals)
    BY <1>1 DEF IInv, TypeOK
  <2> QED
    BY <1>1, <2>1 DEF IInv, TypeOK
<1>3. local'[l] = [local[l] EXCEPT !.at = "copying"] /\ \A k \in Locals \ {l} : local'[k] = local[k]
  BY DEF IInv, TypeOK
<1>4. local'[l].conn = local[l].conn /\ local'[l].at = "copying"
  BY <1>3 DEF IInv, TypeOK
<1>5. TypeOK'
  BY <1>2, <1>3, <1>4 DEF IInv, TypeOK
<1>6. \A e \in Conns : InUse(e) <=> InUse(e)'
  BY <1>3, <1>4 DEF InUse, HoldsIn
<1> QED
  BY <1>5, <1>6 DEF IInv, OpenWhileUsed, UnusedBefore

\* Handles are only dropped, and an end is closed with its last: the common part
\* of a task's and of a run's end.
LEMMA DropInv ==
  ASSUME IInv, TypeOK', UNCHANGED <<node, lost>>,
         client' = Dropped(cur', local'),
         \A e \in Conns : InUse(e)' => InUse(e)
  PROVE  IInv'
<1> SUFFICES ASSUME NEW e \in Conns
             PROVE  /\ client'[e] = "open" => InUse(e)'
                    /\ client'[e] = "closed" /\ InUse(e)' => node'[e] = "gone" \/ e \in lost'
                    /\ client'[e] = "none" => node'[e] = "none" /\ ~InUse(e)'
  BY DEF IInv, OpenWhileUsed, UnusedBefore
<1>1. client'[e] = IF client[e] = "open" /\ ~InUse(e)' THEN "closed" ELSE client[e]
  BY DroppedEnds DEF InUse, HoldsIn
<1> QED
  BY <1>1 DEF IInv, OpenWhileUsed, UnusedBefore

\* A task that returns drops one handle.
LEMMA TaskEndsInv ==
  ASSUME IInv, NEW l \in Locals, local[l].at # "away", TaskEnds(l)
  PROVE  IInv'
<1> USE DEF TaskEnds, nodeVars
<1>1. local'[l] = [local[l] EXCEPT !.at = "dropped"] /\ \A k \in Locals \ {l} : local'[k] = local[k]
  BY DEF IInv, TypeOK
<1>2. local'[l].conn = local[l].conn /\ local'[l].at = "dropped"
  BY <1>1 DEF IInv, TypeOK
<1>3. TypeOK'
  <2>1. client' \in [Conns -> {"none", "open", "closed"}]
    BY DroppedType DEF IInv
  <2>2. /\ local' \in [Locals -> [at : {"away", "accepted", "copying", "told", "dropped"},
                                  conn : Conns \cup {NoConn}]]
        /\ \A k \in Locals : local'[k].at = "away" <=> local'[k].conn = NoConn
    BY <1>1, <1>2 DEF IInv, TypeOK
  <2> QED
    BY <2>1, <2>2 DEF IInv, TypeOK
<1>4. \A e \in Conns : InUse(e)' => InUse(e)
  BY <1>1, <1>2 DEF InUse, HoldsIn
<1> QED
  BY <1>3, <1>4, DropInv

\* A task that has read the end of the answer keeps its handle.
LEMMA ToldInv ==
  ASSUME IInv, NEW l \in Locals, local[l].at = "copying",
         local' = [local EXCEPT ![l].at = "told"],
         UNCHANGED <<thread, cur, client, nodeVars, lost, streams>>
  PROVE  IInv'
<1> USE DEF nodeVars
<1>1. local'[l] = [local[l] EXCEPT !.at = "told"] /\ \A k \in Locals \ {l} : local'[k] = local[k]
  BY DEF IInv, TypeOK
<1>2. local'[l].conn = local[l].conn /\ local'[l].at = "told"
  BY <1>1 DEF IInv, TypeOK
<1>3. TypeOK'
  BY <1>1, <1>2 DEF IInv, TypeOK
<1>4. \A e \in Conns : InUse(e) <=> InUse(e)'
  BY <1>1, <1>2 DEF InUse, HoldsIn
<1> QED
  BY <1>3, <1>4 DEF IInv, OpenWhileUsed, UnusedBefore

\* A run that ends drops the listener's handle.
LEMMA RunEndsInv == ASSUME IInv, RunEnds PROVE IInv'
<1> USE DEF RunEnds, nodeVars
<1>1. TypeOK'
  BY DroppedType DEF IInv, TypeOK
<1>2. client' = Dropped(cur', local')
  OBVIOUS
<1>3. \A e \in Conns : InUse(e)' => InUse(e)
  BY P2pSessionAssumption DEF InUse, HoldsIn, P2pSessionAssumption
<1> QED
  BY <1>1, <1>2, <1>3, DropInv

\* The client closes its end when the node has ended the connection, or when it
\* hears no more from the node.
LEMMA ClientClosesInv ==
  ASSUME IInv, NEW c \in Conns, ClientSeesEnd(c) \/ ClientIdles(c)
  PROVE  IInv'
<1> USE DEF ClientSeesEnd, ClientIdles, ClientCloses, nodeVars
<1>1. TypeOK'
  BY DEF IInv, TypeOK
<1>2. /\ client'[c] = "closed" /\ (node'[c] = "gone" \/ c \in lost')
      /\ \A e \in Conns \ {c} : client'[e] = client[e]
  BY DEF IInv, TypeOK
<1>3. client[c] = "open" /\ UNCHANGED <<node, lost>>
  OBVIOUS
<1>4. \A e \in Conns : InUse(e) <=> InUse(e)'
  BY DEF InUse, HoldsIn
<1> QED
  BY <1>1, <1>2, <1>3, <1>4 DEF IInv, OpenWhileUsed, UnusedBefore

\* Ends may lose each other, at any time and in a sleep, and never find each other
\* again.
LEMMA LostInv ==
  ASSUME IInv, Wake \/ \E c \in Conns : PathLost(c)
  PROVE  IInv'
<1> USE DEF Wake, PathLost, nodeVars
<1>1. lost \subseteq lost' /\ lost' \subseteq Conns
  BY DEF IInv, TypeOK
<1>2. UNCHANGED <<cur, client, node, ended, streams, local>> /\ thread' \in {thread, "up"}
  OBVIOUS
<1>3. TypeOK'
  BY <1>1, <1>2 DEF IInv, TypeOK
<1>4. \A e \in Conns : InUse(e) <=> InUse(e)'
  BY <1>2 DEF InUse, HoldsIn
<1> QED
  BY <1>1, <1>2, <1>3, <1>4 DEF IInv, OpenWhileUsed, UnusedBefore

\* The node's task accepts the stream and ends its half, or ends and never comes
\* back.
LEMMA NodeInv ==
  ASSUME IInv, NEW c \in Conns, AcceptBi(c) \/ ServiceEnds(c) \/ NodeEnds(c)
  PROVE  IInv'
<1> USE DEF AcceptBi, ServiceEnds, NodeEnds
<1>1. TypeOK'
  BY DEF IInv, TypeOK
<1>2. /\ node[c] # "gone" /\ node[c] # "none"
      /\ \A e \in Conns \ {c} : node'[e] = node[e]
  BY DEF IInv, TypeOK
<1>3. \A e \in Conns : (InUse(e) <=> InUse(e)') /\ client'[e] = client[e]
  BY DEF InUse, HoldsIn
<1>4. lost' = lost
  OBVIOUS
<1> QED
  BY <1>1, <1>2, <1>3, <1>4 DEF IInv, OpenWhileUsed, UnusedBefore

\* The inductive invariant.
THEOREM Invariant == Spec => []IInv
<1>1. IInv /\ [Next]_vars => IInv'
  <2> SUFFICES ASSUME IInv, [Next]_vars PROVE IInv'
    OBVIOUS
  <2>1. ASSUME NEW c \in Conns,
               \/ Connect(c) \/ ClientSeesEnd(c) \/ ClientIdles(c) \/ PathLost(c)
               \/ AcceptBi(c) \/ ServiceEnds(c) \/ Served(c) \/ AcceptFails(c) \/ NodeIdles(c)
        PROVE  IInv'
    BY <2>1, ConnectInv, ClientClosesInv, LostInv, NodeInv DEF Served, AcceptFails, NodeIdles
  <2>2. ASSUME NEW l \in Locals, TcpAccepted(l) PROVE IInv'
    BY <2>2, TcpAcceptedInv
  <2>3. ASSUME NEW l \in Locals, ClientTask(l) \/ AnswerEnds(l) \/ LocalEnds(l) PROVE IInv'
    BY <2>3, OpenBiInv, TaskEndsInv, ToldInv
    DEF ClientTask, OpenBiFails, CopyFails, AnswerEnds, LocalEnds
  <2>4. CASE RunEnds
    BY <2>4, RunEndsInv
  <2>5. CASE Wake
    BY <2>5, LostInv
  <2>6. CASE Freeze \/ UNCHANGED vars
    BY <2>6 DEF Freeze, vars, nodeVars, IInv, TypeOK, OpenWhileUsed, UnusedBefore, InUse, HoldsIn
  <2> QED
    BY <2>1, <2>2, <2>3, <2>4, <2>5, <2>6 DEF Next
<1> QED
  BY <1>1, InitInv, PTL DEF Spec

\* Threads, connections, streams and tasks keep their types.
THEOREM TypeCorrect == Spec => []TypeOK
  BY Invariant, PTL DEF IInv

\* A connection is open at the client's end exactly as long as the listener or a
\* task uses it, unless the node has ended it or the two ends have lost each other:
\* over all runs, their ends, and the idle timers of both ends.
THEOREM OpenWhileUsedCorrect == Spec => []OpenWhileUsed
  BY Invariant, PTL DEF IInv
==============================================================================
