------------------------------ MODULE Registry -------------------------------
(***************************************************************************)
(* The relay server's registry of online devices: the map `peers` behind a *)
(* tokio RwLock, the task handle_incomming that serves one device          *)
(* connection, and the function translate that serves one browser request. *)
(*                                                                         *)
(* A step is the code between two awaits.  The write lock is never held    *)
(* across an await, so a writer's critical section is one step, taken when *)
(* its ticket is first in the lock's queue and nobody holds a read guard.  *)
(* A read guard IS held across `conn.open_bi().await`: that wait is the    *)
(* state "opening", and the requests in it are the read holders.           *)
(*                                                                         *)
(* Abstracted: bytes, addresses, TLS and the QUIC handshake.  A handshake  *)
(* that fails ends the task before it has touched anything, so Incoming    *)
(* starts where the handshake has succeeded.  The identity of a connection *)
(* is used again once its task has ended and no session refers to it.      *)
(***************************************************************************)
EXTENDS Naturals, Sequences, FiniteSets, Functions

CONSTANTS
    Macs,         \* device labels
    Conns,        \* identities of QUIC connections from devices
    Reqs,         \* identities of browser requests (calls of translate)
    NoConn,       \* no entry in the map, no connection chosen
    NoMac,        \* a request slot that is not in use
    MaxMacs,      \* bound: longest label list a device announces (u16 in the code)
    MaxStreams    \* concurrent bidirectional streams a device grants (10000)

ASSUME RegistryAssumption ==
    /\ NoConn \notin Conns
    /\ NoMac \notin Macs
    /\ Conns \cap Reqs = {}
    /\ MaxMacs \in Nat
    /\ MaxStreams \in Nat \ {0}

VARIABLES
    peers,     \* the HashMap: peers[m] is a connection, or NoConn when absent
    quic,      \* quic[c]: is the QUIC connection still usable
    handler,   \* handler[c]: where the task handle_incomming of c is
    want,      \* want[c]: mac_list_len
    macList,   \* macList[c]: mac_list, the labels read so far
    request,   \* request[r]: where the call translate of r is
    asked,     \* asked[r]: its argument mac
    via,       \* via[r]: the connection it found in the map and still uses
    lockq      \* tickets waiting for the RwLock, first come first served

connVars == <<quic, handler, want, macList>>
reqVars == <<request, asked, via>>
vars == <<peers, connVars, reqVars, lockq>>

HandlerState ==
    {"idle", "accept_uni", "read_len", "read_mac", "register", "online", "deregister"}
RequestState == {"idle", "lookup", "opening", "announce", "copying", "replying"}

TypeOK ==
    /\ peers \in [Macs -> Conns \cup {NoConn}]
    /\ quic \in [Conns -> {"open", "closed"}]
    /\ handler \in [Conns -> HandlerState]
    /\ want \in [Conns -> 0..MaxMacs]
    /\ macList \in [Conns -> Seq(Macs)]
    /\ \A c \in Conns : IF handler[c] \in {"accept_uni", "read_len"}
                         THEN macList[c] = <<>>
                         ELSE Len(macList[c]) <= want[c]
    /\ request \in [Reqs -> RequestState]
    /\ asked \in [Reqs -> Macs \cup {NoMac}]
    /\ via \in [Reqs -> Conns \cup {NoConn}]
    /\ lockq \in Seq(Conns \cup Reqs)

Init ==
    /\ peers = [m \in Macs |-> NoConn]
    /\ quic = [c \in Conns |-> "closed"]
    /\ handler = [c \in Conns |-> "idle"]
    /\ want = [c \in Conns |-> 0]
    /\ macList = [c \in Conns |-> <<>>]
    /\ request = [r \in Reqs |-> "idle"]
    /\ asked = [r \in Reqs |-> NoMac]
    /\ via = [r \in Reqs |-> NoConn]
    /\ lockq = <<>>

(***************************************************************************)
(* The RwLock.  tokio grants it in the order of the requests: a waiting    *)
(* writer holds back the readers that came after it.                       *)
(***************************************************************************)

\* A mistake the code avoids: keeping the guard for the whole session.
ReadHolders_KeepGuard ==
    {r \in Reqs : request[r] \in {"opening", "announce", "copying"}}

\* A mistake the code avoids: giving the guard back before open_bi.
ReadHolders_EarlyDrop == {}

ReadHolders == {r \in Reqs : request[r] = "opening"}

FirstInLine(t) == lockq # <<>> /\ Head(lockq) = t

ReadGranted(r) == FirstInLine(r)

WriteGranted(c) == FirstInLine(c) /\ ReadHolders = {}

(***************************************************************************)
(* One device connection: handle_incomming.                                *)
(***************************************************************************)

\* A device connects; the task starts and waits for the stream with its labels.
Incoming(c) ==
    /\ handler[c] = "idle"
    /\ \A r \in Reqs : via[r] # c
    /\ quic' = [quic EXCEPT ![c] = "open"]
    /\ handler' = [handler EXCEPT ![c] = "accept_uni"]
    /\ want' = [want EXCEPT ![c] = 0]
    /\ macList' = [macList EXCEPT ![c] = <<>>]
    /\ UNCHANGED <<peers, reqVars, lockq>>

AcceptUni(c) ==
    /\ handler[c] = "accept_uni"
    /\ handler' = [handler EXCEPT ![c] = "read_len"]
    /\ UNCHANGED <<peers, quic, want, macList, reqVars, lockq>>

ReadLen(c) ==
    /\ handler[c] = "read_len"
    /\ \E n \in 0..MaxMacs : want' = [want EXCEPT ![c] = n]
    /\ handler' = [handler EXCEPT ![c] = "read_mac"]
    /\ UNCHANGED <<peers, quic, macList, reqVars, lockq>>

\* A mistake the code avoids: one label too many (0..=mac_list_len).
ReadMac_OneMore(c) ==
    /\ handler[c] = "read_mac"
    /\ Len(macList[c]) <= want[c]
    /\ \E m \in Macs : macList' = [macList EXCEPT ![c] = Append(@, m)]
    /\ UNCHANGED <<peers, quic, handler, want, reqVars, lockq>>

ReadMac(c) ==
    /\ handler[c] = "read_mac"
    /\ Len(macList[c]) < want[c]
    /\ \E m \in Macs : macList' = [macList EXCEPT ![c] = Append(@, m)]
    /\ UNCHANGED <<peers, quic, handler, want, reqVars, lockq>>

\* A mistake the code avoids: a read without a timer.
ReadExpires_NoTimer(c) == quic[c] = "closed"

\* Waiting for the stream ends only with the connection; waiting for the
\* length and for each label also ends after five seconds.
ReadExpires(c) ==
    \/ quic[c] = "closed"
    \/ handler[c] \in {"read_len", "read_mac"}

\* The task returns early; dropping its handle closes the connection.
ReadFails(c) ==
    /\ \/ handler[c] \in {"accept_uni", "read_len"}
       \/ handler[c] = "read_mac" /\ Len(macList[c]) < want[c]
    /\ ReadExpires(c)
    /\ quic' = [quic EXCEPT ![c] = "closed"]
    /\ handler' = [handler EXCEPT ![c] = "idle"]
    /\ UNCHANGED <<peers, want, macList, reqVars, lockq>>

\* The whole list is read: ask for the write lock.
ListComplete(c) ==
    /\ handler[c] = "read_mac"
    /\ Len(macList[c]) = want[c]
    /\ handler' = [handler EXCEPT ![c] = "register"]
    /\ lockq' = Append(lockq, c)
    /\ UNCHANGED <<peers, quic, want, macList, reqVars>>

\* Mistakes the code avoids: no look at the map before inserting, and a look
\* at the first label only.
AllFree_Unchecked(c) == TRUE
AllFree_FirstOnly(c) == IF macList[c] = <<>> THEN TRUE ELSE peers[macList[c][1]] = NoConn

AllFree(c) == \A m \in Range(macList[c]) : peers[m] = NoConn

\* Under the write lock: check every label, and only then insert them all.
RegisterOk(c) ==
    /\ handler[c] = "register"
    /\ WriteGranted(c)
    /\ AllFree(c)
    /\ peers' = [m \in Macs |-> IF m \in Range(macList[c]) THEN c ELSE peers[m]]
    /\ handler' = [handler EXCEPT ![c] = "online"]
    /\ lockq' = Tail(lockq)
    /\ UNCHANGED <<quic, want, macList, reqVars>>

\* A label is taken: close the newcomer with code 401, leave the map alone.
RegisterRefused(c) ==
    /\ handler[c] = "register"
    /\ WriteGranted(c)
    /\ ~AllFree(c)
    /\ quic' = [quic EXCEPT ![c] = "closed"]
    /\ handler' = [handler EXCEPT ![c] = "idle"]
    /\ lockq' = Tail(lockq)
    /\ UNCHANGED <<peers, want, macList, reqVars>>

\* conn.closed() returns: ask for the write lock again.
CloseSeen(c) ==
    /\ handler[c] = "online"
    /\ quic[c] = "closed"
    /\ handler' = [handler EXCEPT ![c] = "deregister"]
    /\ lockq' = Append(lockq, c)
    /\ UNCHANGED <<peers, quic, want, macList, reqVars>>

Deregister(c) ==
    /\ handler[c] = "deregister"
    /\ WriteGranted(c)
    /\ peers' = [m \in Macs |-> IF m \in Range(macList[c]) THEN NoConn ELSE peers[m]]
    /\ handler' = [handler EXCEPT ![c] = "idle"]
    /\ lockq' = Tail(lockq)
    /\ UNCHANGED <<quic, want, macList, reqVars>>

\* The device goes away, resets, or is silent for the idle timeout.
ConnLost(c) ==
    /\ quic[c] = "open"
    /\ quic' = [quic EXCEPT ![c] = "closed"]
    /\ UNCHANGED <<peers, handler, want, macList, reqVars, lockq>>

(***************************************************************************)
(* One browser request: translate.                                         *)
(***************************************************************************)

Arrive(r) ==
    /\ request[r] = "idle"
    /\ \E m \in Macs : asked' = [asked EXCEPT ![r] = m]
    /\ request' = [request EXCEPT ![r] = "lookup"]
    /\ lockq' = Append(lockq, r)
    /\ UNCHANGED <<peers, connVars, via>>

\* A mistake the code avoids: any online device when the one asked for is away.
Found_AnyOnline(r) ==
    LET online == {m \in Macs : peers[m] # NoConn}
    IN  IF asked[r] \in online \/ online = {} THEN peers[asked[r]]
        ELSE peers[CHOOSE m \in online : TRUE]

Found(r) == peers[asked[r]]

\* Streams of connection c that the device has not seen the end of.
OpenStreams(c) ==
    {r \in Reqs : via[r] = c /\ request[r] \in {"announce", "copying"}}

StreamCredit(c) == Cardinality(OpenStreams(c)) < MaxStreams

\* The label is not in the map: drop the guard, answer "device offline" (402).
LookupOffline(r) ==
    /\ request[r] = "lookup"
    /\ ReadGranted(r)
    /\ Found(r) = NoConn
    /\ request' = [request EXCEPT ![r] = "replying"]
    /\ lockq' = Tail(lockq)
    /\ UNCHANGED <<peers, connVars, asked, via>>

\* The entry is stale: open_bi fails at once (502).
LookupStale(r) ==
    /\ request[r] = "lookup"
    /\ ReadGranted(r)
    /\ Found(r) # NoConn
    /\ quic[Found(r)] = "closed"
    /\ request' = [request EXCEPT ![r] = "replying"]
    /\ lockq' = Tail(lockq)
    /\ UNCHANGED <<peers, connVars, asked, via>>

\* open_bi succeeds at once, and the guard is dropped.
LookupOpen(r) ==
    /\ request[r] = "lookup"
    /\ ReadGranted(r)
    /\ Found(r) # NoConn
    /\ quic[Found(r)] = "open"
    /\ StreamCredit(Found(r))
    /\ request' = [request EXCEPT ![r] = "announce"]
    /\ via' = [via EXCEPT ![r] = Found(r)]
    /\ lockq' = Tail(lockq)
    /\ UNCHANGED <<peers, connVars, asked>>

\* The device is out of stream credit: wait in open_bi, holding the guard.
LookupWait(r) ==
    /\ request[r] = "lookup"
    /\ ReadGranted(r)
    /\ Found(r) # NoConn
    /\ quic[Found(r)] = "open"
    /\ ~StreamCredit(Found(r))
    /\ request' = [request EXCEPT ![r] = "opening"]
    /\ via' = [via EXCEPT ![r] = Found(r)]
    /\ lockq' = Tail(lockq)
    /\ UNCHANGED <<peers, connVars, asked>>

\* The wait ends with a stream ...
OpenReady(r) ==
    /\ request[r] = "opening"
    /\ quic[via[r]] = "open"
    /\ StreamCredit(via[r])
    /\ request' = [request EXCEPT ![r] = "announce"]
    /\ UNCHANGED <<peers, connVars, asked, via, lockq>>

\* ... or with the connection (502).
OpenLost(r) ==
    /\ request[r] = "opening"
    /\ quic[via[r]] = "closed"
    /\ request' = [request EXCEPT ![r] = "replying"]
    /\ via' = [via EXCEPT ![r] = NoConn]
    /\ UNCHANGED <<peers, connVars, asked, lockq>>

\* The label is written on the new stream, and copying starts.
Announce(r) ==
    /\ request[r] = "announce"
    /\ quic[via[r]] = "open"
    /\ request' = [request EXCEPT ![r] = "copying"]
    /\ UNCHANGED <<peers, connVars, asked, via, lockq>>

Leave(r) ==
    /\ request' = [request EXCEPT ![r] = "idle"]
    /\ asked' = [asked EXCEPT ![r] = NoMac]
    /\ via' = [via EXCEPT ![r] = NoConn]
    /\ UNCHANGED <<peers, connVars, lockq>>

AnnounceFails(r) ==
    /\ request[r] = "announce"
    /\ quic[via[r]] = "closed"
    /\ Leave(r)

\* copy_bidirectional returns: both directions ended, or one of them failed.
SessionEnds(r) ==
    /\ request[r] = "copying"
    /\ Leave(r)

\* The "device offline" page is written, or the browser is gone.
Reply(r) ==
    /\ request[r] = "replying"
    /\ Leave(r)

------------------------------------------------------------------------------

ConnNext(c) ==
    \/ Incoming(c)
    \/ AcceptUni(c)
    \/ ReadLen(c)
    \/ ReadMac(c)
    \/ ReadFails(c)
    \/ ListComplete(c)
    \/ RegisterOk(c)
    \/ RegisterRefused(c)
    \/ CloseSeen(c)
    \/ Deregister(c)
    \/ ConnLost(c)

ReqNext(r) ==
    \/ Arrive(r)
    \/ LookupOffline(r)
    \/ LookupStale(r)
    \/ LookupOpen(r)
    \/ LookupWait(r)
    \/ OpenReady(r)
    \/ OpenLost(r)
    \/ Announce(r)
    \/ AnnounceFails(r)
    \/ SessionEnds(r)
    \/ Reply(r)

Next ==
    \/ \E c \in Conns : ConnNext(c)
    \/ \E r \in Reqs : ReqNext(r)

Spec == Init /\ [][Next]_vars

(***************************************************************************)
(* Fairness.  The runtime polls every task that can go on, and timers      *)
(* fire.  Nothing is assumed of devices (what they send, whether they      *)
(* stay) nor of browsers (when they arrive, when a session ends).          *)
(***************************************************************************)
HandlerFairness(c) ==
    /\ WF_vars(ReadFails(c))
    /\ WF_vars(ListComplete(c))
    /\ WF_vars(RegisterOk(c) \/ RegisterRefused(c))
    /\ WF_vars(CloseSeen(c))
    /\ WF_vars(Deregister(c))

RequestFairness(r) ==
    /\ WF_vars(LookupOffline(r) \/ LookupStale(r) \/ LookupOpen(r) \/ LookupWait(r))
    /\ WF_vars(OpenReady(r) \/ OpenLost(r))
    /\ WF_vars(AnnounceFails(r))

FairSpec ==
    /\ Spec
    /\ \A c \in Conns : HandlerFairness(c)
    /\ \A r \in Reqs : RequestFairness(r)

(***************************************************************************)
(* Safety                                                                  *)
(***************************************************************************)

\* The labels c has in the map are exactly those it announced while its task
\* is between the insert and the remove of handle_incomming, and none at any
\* other time: no partial insert, no left-over, no removal of another's entry.
OwnershipExact ==
    \A c \in Conns, m \in Macs :
        peers[m] = c <=> /\ handler[c] \in {"online", "deregister"}
                         /\ m \in Range(macList[c])

\* What translate read from the map stays true while it waits in open_bi, as
\* it keeps the guard there: nobody can take the label away or give it to
\* another device between the lookup and the stream.
HeldEntryStable ==
    \A r \in Reqs : request[r] = "opening" => peers[asked[r]] = via[r]

\* A browser is only ever connected to a device that announced the label it
\* asked for, also when devices come and go during the session.
RoutedToAnnouncer ==
    \A r \in Reqs : request[r] \in {"announce", "copying"} =>
        asked[r] \in Range(macList[via[r]])

\* An entry of the map is never handed from one device to another, and it is
\* removed only when its connection is closed: the first device to come keeps
\* the label against any later one (code 401 is for the newcomer).
NoEviction ==
    [][\A m \in Macs : peers[m] # NoConn /\ peers'[m] # peers[m] =>
            quic[peers[m]] = "closed" /\ peers'[m] = NoConn]_vars

\* Who a request is connected to: it is when it has a stream of its own.
Session ==
    [r \in Reqs |-> IF request[r] \in {"announce", "copying"} THEN via[r] ELSE NoConn]

Dir == INSTANCE Directory WITH owner <- peers, session <- Session

\* The registry keeps the promises of Directory: atomic claim and release,
\* and a session that starts on the owner of the label at that moment.
DirectorySpec == Dir!DirSpec

(***************************************************************************)
(* Liveness                                                                *)
(***************************************************************************)

\* A connection that is gone does not keep its labels.
GhostsRemoved ==
    \A c \in Conns : quic[c] = "closed" ~> \A m \in Macs : peers[m] # c

\* translate gets past `peers.read().await`.
LookupServed ==
    \A r \in Reqs : request[r] = "lookup" ~> request[r] # "lookup"

\* A device that has announced its labels is admitted or refused: it does not
\* wait for the browser sessions of other devices.
RegistrationServed ==
    \A c \in Conns : handler[c] = "register" ~> handler[c] # "register"

\* A device that stops in the middle of its list does not keep its task.
ReadsBounded ==
    \A c \in Conns : handler[c] \in {"read_len", "read_mac"}
                       ~> handler[c] \notin {"read_len", "read_mac"}
==============================================================================
