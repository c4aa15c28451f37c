------------------------------ MODULE P2pSession ------------------------------
(***************************************************************************)
(* After the punching (Punch): the asking device listens on the port of a  *)
(* p2p entry (p2p_cell) and gives every TCP connection it accepts a task   *)
(* with a stream of its own on the p2p connection (p2p_stream_cell).  The  *)
(* device asked for accepts one stream of that connection, serves it like  *)
(* a stream from the relay (handle_bi, see Tunnel), and drops the          *)
(* connection when that is done (handle_incoming_bi).                      *)
(*                                                                         *)
(* A QUIC connection closes when its last handle is dropped: the client's  *)
(* are those of p2p_cell and of the tasks, the node's is its task's.  The  *)
(* client has one thread, which sleeps between two runs and stands still   *)
(* for ever when get_header reads from a stream that has ended; its QUIC   *)
(* stack stands still with it, while the node's idle timer goes on.  Each  *)
(* end has an idle timer of its own: when the path is lost, either may be  *)
(* the first to close.                                                     *)
(***************************************************************************)
EXTENDS Sequences

CONSTANTS
    Locals,   \* TCP connections to the client's port
    Conns,    \* p2p connections, one for each run that gets so far
    NoConn

ASSUME P2pSessionAssumption == NoConn \notin Conns

VARIABLES
    thread,   \* the client's thread: "up" in node_run, "asleep", or "frozen"
    cur,      \* the connection of the p2p_cell that listens, or NoConn
    client,   \* client[c]: the client's end of c
    node,     \* node[c]: the task of handle_incoming_bi
    ended,    \* the connections with a served stream whose answer has ended
    lost,     \* the connections whose ends hear no more from each other
    streams,  \* streams[c]: whose streams have been opened on c, in order
    local     \* local[l]: the task of l, and its connection

nodeVars == <<node, ended>>
vars == <<thread, cur, client, nodeVars, lost, streams, local>>

Away == [at |-> "away", conn |-> NoConn]

Init ==
    /\ thread = "up" /\ cur = NoConn
    /\ client = [c \in Conns |-> "none"]
    /\ node = [c \in Conns |-> "none"]
    /\ ended = {} /\ lost = {}
    /\ streams = [c \in Conns |-> <<>>]
    /\ local = [l \in Locals |-> Away]

\* Task l has a handle of connection c.
HoldsIn(tasks, l, c) == tasks[l].conn = c /\ tasks[l].at \in {"accepted", "copying", "told"}
InUse(c) == cur = c \/ \E l \in Locals : HoldsIn(local, l, c)

\* A mistake the code avoids: handles that are not dropped with their task.
Dropped_Kept(listener, tasks) == client
\* A mistake the code avoids: the listener's handle is the only one (no clone).
Dropped_NoClone(listener, tasks) ==
    [c \in Conns |-> IF client[c] = "open" /\ listener # c THEN "closed" ELSE client[c]]

\* The client's ends once the handles are those of this listener and these tasks.
Dropped(listener, tasks) ==
    [c \in Conns |->
        IF client[c] = "open" /\ listener # c /\ \A l \in Locals : ~HoldsIn(tasks, l, c)
        THEN "closed" ELSE client[c]]

(***************************************************************************)
(* The client: p2p_cell, p2p_stream_cell, and the runs around them.        *)
(***************************************************************************)

\* symmetric_connect and listen have succeeded; the node's task has accepted the
\* connection.
Connect(c) ==
    /\ thread = "up" /\ cur = NoConn /\ client[c] = "none"
    /\ cur' = c
    /\ client' = [client EXCEPT ![c] = "open"]
    /\ node' = [node EXCEPT ![c] = "accepting"]
    /\ UNCHANGED <<thread, ended, lost, streams, local>>

\* A mistake the code avoids: a listener that outlives its run.
TcpAccepted_Late(l) ==
    /\ thread = "up" /\ local[l] = Away
    /\ local' = [local EXCEPT ![l] = [at |-> "accepted", conn |-> cur]]
    /\ UNCHANGED <<thread, cur, client, nodeVars, lost, streams>>

TcpAccepted(l) ==
    /\ thread = "up" /\ cur # NoConn /\ local[l] = Away
    /\ local' = [local EXCEPT ![l] = [at |-> "accepted", conn |-> cur]]
    /\ UNCHANGED <<thread, cur, client, nodeVars, lost, streams>>

\* open_bi and the label; the peer's stream limit is far away.
OpenBi(l) ==
    /\ thread = "up" /\ local[l].at = "accepted" /\ client[local[l].conn] = "open"
    /\ streams' = [streams EXCEPT ![local[l].conn] = Append(@, l)]
    /\ local' = [local EXCEPT ![l].at = "copying"]
    /\ UNCHANGED <<thread, cur, client, nodeVars, lost>>

\* The task returns: the TCP connection and a handle are dropped.
TaskEnds(l) ==
    /\ thread = "up"
    /\ local' = [local EXCEPT ![l].at = "dropped"]
    /\ client' = Dropped(cur, local')
    /\ UNCHANGED <<thread, cur, nodeVars, lost, streams>>

\* A mistake the code avoids: trying again on a connection that is closed.
OpenBiFails_Again(l) ==
    local[l].at = "accepted" /\ client[local[l].conn] = "closed" /\ UNCHANGED vars

OpenBiFails(l) ==
    local[l].at = "accepted" /\ client[local[l].conn] = "closed" /\ TaskEnds(l)

\* copy_bidirectional reads from the connection, and that is closed.
CopyFails(l) ==
    local[l].at = "copying" /\ client[local[l].conn] = "closed" /\ TaskEnds(l)

\* The end of the answer is read, perhaps when the connection is closed already.
\* The copying goes on in the other direction, where it waits for the program and
\* for nothing else; or the program has closed its half before.
AnswerEnds(l) ==
    /\ thread = "up" /\ local[l].at = "copying"
    /\ local[l].conn \in ended /\ Head(streams[local[l].conn]) = l
    /\ \/ TaskEnds(l)
       \/ /\ local' = [local EXCEPT ![l].at = "told"]
          /\ UNCHANGED <<thread, cur, client, nodeVars, lost, streams>>

\* The program closes or resets its connection, or writes after the node's end.
LocalEnds(l) == local[l].at \in {"copying", "told"} /\ TaskEnds(l)

\* The relay's connection is lost, or a p2p entry fails: the select! drops
\* p2p_cell with its listener, and the thread sleeps.
RunEnds ==
    /\ thread = "up"
    /\ thread' = "asleep" /\ cur' = NoConn
    /\ client' = Dropped(NoConn, local)
    /\ UNCHANGED <<nodeVars, lost, streams, local>>

\* A run gets as far as its first await.  What was sent meanwhile is read, or the
\* idle timer of an end is found to have run out first.
Wake ==
    /\ thread = "asleep"
    /\ thread' = "up"
    /\ \E out \in SUBSET {c \in Conns : client[c] = "open"} : lost' = lost \cup out
    /\ UNCHANGED <<cur, client, nodeVars, streams, local>>

\* The stream on which another p2p entry waits for its answer has ended: its
\* get_header tries again without an await.
Freeze ==
    /\ thread = "up"
    /\ thread' = "frozen"
    /\ UNCHANGED <<cur, client, nodeVars, lost, streams, local>>

ClientCloses(c) ==
    /\ thread = "up" /\ client[c] = "open"
    /\ client' = [client EXCEPT ![c] = "closed"]
    /\ UNCHANGED <<thread, cur, nodeVars, lost, streams, local>>

\* The node has closed the connection.
ClientSeesEnd(c) == node[c] = "gone" /\ c \notin lost /\ ClientCloses(c)

\* The client's idle timer runs out, whatever the node's does.
ClientIdles(c) == c \in lost /\ ClientCloses(c)

(***************************************************************************)
(* The path, and the node: listen_incoming, handle_incoming_bi.            *)
(***************************************************************************)

\* Nothing gets through any more, or the other device's only thread stands still.
PathLost(c) ==
    /\ client[c] # "none" /\ c \notin lost
    /\ lost' = lost \cup {c}
    /\ UNCHANGED <<thread, cur, client, nodeVars, streams, local>>

\* A stream is there with its first bytes, also if it has been reset since.
AcceptBi(c) ==
    /\ node[c] = "accepting" /\ streams[c] # <<>> /\ c \notin lost
    /\ node' = [node EXCEPT ![c] = "serving"]
    /\ UNCHANGED <<thread, cur, client, ended, lost, streams, local>>

\* The service closes its half, and the node ends the stream's.
ServiceEnds(c) ==
    /\ node[c] = "serving" /\ c \notin lost
    /\ ended' = ended \cup {c}
    /\ UNCHANGED <<thread, cur, client, node, lost, streams, local>>

\* handle_incoming_bi returns, and the node's only handle is dropped.
NodeEnds(c) ==
    /\ node[c] \in {"accepting", "serving"}
    /\ node' = [node EXCEPT ![c] = "gone"]
    /\ UNCHANGED <<thread, cur, client, ended, lost, streams, local>>

\* handle_bi returns: the session is over, or was refused.
Served(c) == node[c] = "serving" /\ NodeEnds(c)

\* accept_bi fails: the client has closed the connection.
AcceptFails(c) ==
    node[c] = "accepting" /\ client[c] = "closed" /\ c \notin lost /\ NodeEnds(c)

\* The node's idle timer runs out, as the client stands still or is not heard.
NodeIdles(c) == (thread # "up" \/ c \in lost) /\ NodeEnds(c)

------------------------------------------------------------------------------

ClientTask(l) == OpenBi(l) \/ OpenBiFails(l) \/ CopyFails(l)

Next ==
    \/ \E c \in Conns :
         \/ Connect(c) \/ ClientSeesEnd(c) \/ ClientIdles(c) \/ PathLost(c)
         \/ AcceptBi(c) \/ ServiceEnds(c) \/ Served(c) \/ AcceptFails(c) \/ NodeIdles(c)
    \/ \E l \in Locals :
         TcpAccepted(l) \/ ClientTask(l) \/ AnswerEnds(l) \/ LocalEnds(l)
    \/ RunEnds
    \/ Wake
    \/ Freeze

Spec == Init /\ [][Next]_vars

\* Tasks that can go on are polled.  The client's and its idle timers are only in a
\* run, but then at its start, long before it can end: hence SF.  The thread may
\* sleep for good, as a run that cannot resolve the relay's name has no await; a
\* session may go on for ever, also when one side of it has gone (a copying waits
\* for the half that is open); and nobody has to connect.
FairSpec ==
    /\ Spec
    /\ \A c \in Conns :
        /\ WF_vars(AcceptBi(c)) /\ WF_vars(AcceptFails(c))
        /\ SF_vars(ClientSeesEnd(c)) /\ SF_vars(ClientIdles(c))
    /\ \A l \in Locals : SF_vars(ClientTask(l))

\* More than the code promises: a session also ends when its program has gone.
ShortSpec ==
    /\ FairSpec
    /\ \A c \in Conns : WF_vars(Served(c) /\ local[Head(streams[c])].at = "dropped")

(***************************************************************************)
(* Properties                                                              *)
(***************************************************************************)
TypeOK ==
    /\ thread \in {"up", "asleep", "frozen"}
    /\ cur \in Conns \cup {NoConn}
    /\ client \in [Conns -> {"none", "open", "closed"}]
    /\ node \in [Conns -> {"none", "accepting", "serving", "gone"}]
    /\ ended \subseteq Conns /\ lost \subseteq Conns
    /\ streams \in [Conns -> Seq(Locals)]
    /\ local \in [Locals -> [at : {"away", "accepted", "copying", "told", "dropped"},
                             conn : Conns \cup {NoConn}]]
    /\ \A l \in Locals : local[l].at = "away" <=> local[l].conn = NoConn

\* A connection is open at the client's end exactly as long as it is used, by
\* the listener or by a task that has not ended, unless the node has ended it or
\* the two ends have lost each other: a run that ends does not close it under a
\* session, and none is left behind.
OpenWhileUsed ==
    \A c \in Conns :
        /\ client[c] = "open" => InUse(c)
        /\ client[c] = "closed" /\ InUse(c) => node[c] = "gone" \/ c \in lost

\* The session of this connection is over, at one end or at both.
Over(c) == node[c] = "gone" \/ c \in lost \/ client[c] = "closed"

\* No local program is left hanging: once the connection is over, after the one
\* session the node serves or for any other reason, every TCP connection that had
\* or wanted a stream on it is dropped, also those that were accepted in a run
\* that is over, or is told the end of its answer; unless the client's thread
\* never runs again.
NoneHangs ==
    \A l \in Locals :
        local[l].at \in {"accepted", "copying"} /\ Over(local[l].conn)
            ~> local[l].at \in {"told", "dropped"} \/ [](thread # "up")

\* What the port is for: a TCP connection that is accepted there is carried to
\* the other device, or at least dropped, as long as the client's thread runs.
ListenedIsProxied ==
    \A l \in Locals :
        local[l].at = "accepted" ~>
            \/ local[l].at = "dropped"
            \/ \E c \in Conns : node[c] = "serving" /\ Head(streams[c]) = l
            \/ [](thread # "up")
==============================================================================
