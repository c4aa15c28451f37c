------------------------------ MODULE Directory ------------------------------
(***************************************************************************)
(* What the relay server promises about device labels (MAC addresses),     *)
(* with no tasks, locks or awaits: a label belongs to at most one device   *)
(* connection, a connection gets all the labels it asks for or none, it    *)
(* gives them up together, and a browser session is attached in one step   *)
(* to the connection that owns the label at that moment.                   *)
(*                                                                         *)
(* Registry implements this module under the mapping given there.          *)
(***************************************************************************)

CONSTANTS
    Macs,     \* device labels
    Conns,    \* identities of device connections
    Reqs,     \* identities of browser requests
    NoConn,   \* "nobody"
    NoMac     \* "asks for nothing"

VARIABLES
    owner,    \* owner[m]: the connection that label m belongs to, or NoConn
    asked,    \* asked[r]: the label request r wants, or NoMac
    session   \* session[r]: the connection r is attached to, or NoConn

dirVars == <<owner, asked, session>>

DirInit ==
    /\ owner = [m \in Macs |-> NoConn]
    /\ asked = [r \in Reqs |-> NoMac]
    /\ session = [r \in Reqs |-> NoConn]

\* Connection c, which owns nothing yet, gets every label of S: all are free.
Claim(c, S) ==
    /\ \A m \in Macs : owner[m] # c
    /\ \A m \in S : owner[m] = NoConn
    /\ owner' = [m \in Macs |-> IF m \in S THEN c ELSE owner[m]]
    /\ UNCHANGED <<asked, session>>

\* Connection c gives up everything it owns, at once, and nothing else.
Release(c) ==
    /\ owner' = [m \in Macs |-> IF owner[m] = c THEN NoConn ELSE owner[m]]
    /\ UNCHANGED <<asked, session>>

Ask(r, m) ==
    /\ asked[r] = NoMac
    /\ asked' = [asked EXCEPT ![r] = m]
    /\ UNCHANGED <<owner, session>>

\* The session starts on whoever owns the label now, never on a past owner.
Attach(r) ==
    /\ asked[r] # NoMac
    /\ session[r] = NoConn
    /\ owner[asked[r]] # NoConn
    /\ session' = [session EXCEPT ![r] = owner[asked[r]]]
    /\ UNCHANGED <<owner, asked>>

\* The request is over, whether it was ever attached or not.
Finish(r) ==
    /\ asked' = [asked EXCEPT ![r] = NoMac]
    /\ session' = [session EXCEPT ![r] = NoConn]
    /\ UNCHANGED owner

DirNext ==
    \/ \E c \in Conns, S \in SUBSET Macs : Claim(c, S)
    \/ \E c \in Conns : Release(c)
    \/ \E r \in Reqs, m \in Macs : Ask(r, m)
    \/ \E r \in Reqs : Attach(r) \/ Finish(r)

DirSpec == DirInit /\ [][DirNext]_dirVars
==============================================================================
