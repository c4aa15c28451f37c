-------------------------------- MODULE Punch ---------------------------------
(***************************************************************************)
(* Hole punching, once two devices have been introduced (Signal): each     *)
(* calls symmetric_connect in a loop, the asking device five times with    *)
(* three seconds, the device asked for ten times with one second and a     *)
(* pause of 100 ms after each.  One call starts an attempt for every       *)
(* predicted port (SymmetricPorts) and returns what the first attempt to   *)
(* end returns.  An attempt that fails sleeps as long as a timeout before  *)
(* it says so, except when connect() itself refuses the address.           *)
(*                                                                         *)
(* Time is counted in ticks of a second; the node's pause is rounded down  *)
(* to none, so that it gives up a second sooner than it does.  Whether a   *)
(* packet gets through the NATs is not modelled: an attempt may succeed at *)
(* any time while it dials.                                                *)
(***************************************************************************)
EXTENDS Naturals, FiniteSets

CONSTANTS
    Attempts,    \* the ports of one call
    Tmo,         \* Tmo[s]: cell_timeout
    Tries,       \* Tries[s]: calls of symmetric_connect
    Refusable,   \* attempts that connect() may refuse
    MaxLag       \* the client is introduced at most this long after the node

Sides == {"client", "node"}

ASSUME PunchAssumption ==
    /\ Attempts # {} /\ IsFiniteSet(Attempts) /\ Refusable \subseteq Attempts
    /\ Tmo \in [Sides -> Nat \ {0}] /\ Tries \in [Sides -> Nat \ {0}]
    /\ MaxLag \in Nat

VARIABLES
    phase,    \* phase[s]: of the loop around symmetric_connect
    round,    \* round[s]: calls begun
    left,     \* left[s]: ticks to the start of the loop
    cell,     \* cell[s][a]: p2p_cell of attempt a, its state and remaining ticks
    early,    \* some attempt failed before its time was over
    met       \* the two have been dialling at the same time, or are connected

vars == <<phase, round, left, cell, early, met>>

Idle == [at |-> "none", left |-> 0]
Failed == {"failed", "refused"}
Cell == [at : {"none", "dialling", "sleeping", "ok"} \cup Failed, left : Nat]
Calling(s) == phase[s] = "calling"
Dialling(s) == Calling(s) /\ \E a \in Attempts : cell[s][a].at = "dialling"

Init ==
    /\ phase = [s \in Sides |-> "pausing"]
    /\ round = [s \in Sides |-> 0]
    /\ \E lag \in 0..MaxLag : left = [s \in Sides |-> IF s = "client" THEN lag ELSE 0]
    /\ cell = [s \in Sides |-> [a \in Attempts |-> Idle]]
    /\ early = FALSE /\ met = FALSE

\* A mistake the code avoids: one call too many (0..=5).
Call_OneMore(s) ==
    /\ phase[s] = "pausing" /\ left[s] = 0 /\ round[s] <= Tries[s]
    /\ cell' = [cell EXCEPT ![s] = [a \in Attempts |-> [at |-> "dialling", left |-> Tmo[s]]]]
    /\ phase' = [phase EXCEPT ![s] = "calling"]
    /\ round' = [round EXCEPT ![s] = @ + 1]
    /\ UNCHANGED <<left, early, met>>

\* The loop makes its next call: all attempts are created and polled, and those
\* that connect() refuses have their error at once.
Call(s) ==
    /\ phase[s] = "pausing" /\ left[s] = 0 /\ round[s] < Tries[s]
    /\ \E no \in SUBSET Refusable :
         /\ cell' = [cell EXCEPT ![s] = [a \in Attempts |->
                    IF a \in no THEN [at |-> "refused", left |-> 0]
                                ELSE [at |-> "dialling", left |-> Tmo[s]]]]
         /\ early' = (early \/ no # {})
    /\ phase' = [phase EXCEPT ![s] = "calling"]
    /\ round' = [round EXCEPT ![s] = @ + 1]
    /\ UNCHANGED left
    /\ met' = (met \/ \E t \in Sides : t # s /\ Dialling(t))

Becomes(s, a, at, n) ==
    /\ cell' = [cell EXCEPT ![s][a] = [at |-> at, left |-> n]]
    /\ UNCHANGED <<phase, round, left, met>>

AttemptSucceeds(s, a) ==
    /\ Calling(s) /\ cell[s][a].at = "dialling"
    /\ Becomes(s, a, "ok", 0)
    /\ UNCHANGED early

\* A mistake the code avoids: an error reported as soon as it is there.
AttemptFails_AtOnce(s, a) ==
    /\ Calling(s) /\ cell[s][a].at = "dialling"
    /\ Becomes(s, a, "failed", 0)
    /\ early' = (early \/ cell[s][a].left > 0)

\* An error of the connection or the timeout: the attempt first sleeps.
AttemptFails(s, a) ==
    /\ Calling(s) /\ cell[s][a].at = "dialling"
    /\ Becomes(s, a, "sleeping", Tmo[s])
    /\ early' = (early \/ cell[s][a].left > 0)

AttemptWakes(s, a) ==
    /\ Calling(s) /\ cell[s][a].at = "sleeping" /\ cell[s][a].left = 0
    /\ Becomes(s, a, "failed", 0)
    /\ UNCHANGED early

\* select_all drops the other attempts.
CallReturns(s, a) ==
    /\ Calling(s)
    /\ cell' = [cell EXCEPT ![s] = [b \in Attempts |-> Idle]]
    /\ UNCHANGED <<round, left, early>>

\* The client keeps the connection; the node only wanted its packets out and
\* closes it.  Both leave their loop.
CallSucceeds(s, a) ==
    /\ cell[s][a].at = "ok"
    /\ CallReturns(s, a)
    /\ phase' = [phase EXCEPT ![s] = "connected"]
    /\ met' = TRUE

CallFails(s, a) ==
    /\ cell[s][a].at \in Failed
    /\ CallReturns(s, a)
    /\ phase' = [phase EXCEPT ![s] = "pausing"]
    /\ UNCHANGED met

\* A mistake the code avoids: leaving the loop after the first call that failed.
GiveUp_FirstFailure(s) ==
    /\ phase[s] = "pausing" /\ left[s] = 0 /\ round[s] > 0
    /\ phase' = [phase EXCEPT ![s] = "gave up"]
    /\ UNCHANGED <<round, left, cell, early, met>>

\* The loop is over: the client's cell ends with error 56, the node's returns.
GiveUp(s) ==
    /\ phase[s] = "pausing" /\ left[s] = 0 /\ round[s] = Tries[s]
    /\ phase' = [phase EXCEPT ![s] = "gave up"]
    /\ UNCHANGED <<round, left, cell, early, met>>

\* Something is due now: no time may pass before it is done.
Due(s) ==
    \/ (phase[s] = "pausing" /\ left[s] = 0)
    \/ Calling(s) /\ \E a \in Attempts :
         \/ cell[s][a].at \in {"ok"} \cup Failed
         \/ cell[s][a].at \in {"dialling", "sleeping"} /\ cell[s][a].left = 0

Less(n) == IF n = 0 THEN 0 ELSE n - 1

Tick ==
    /\ \A s \in Sides : ~Due(s)
    /\ \E s \in Sides : phase[s] \in {"pausing", "calling"}
    /\ left' = [s \in Sides |-> Less(left[s])]
    /\ cell' = [s \in Sides |-> [a \in Attempts |->
                  [cell[s][a] EXCEPT !.left = Less(@)]]]
    /\ UNCHANGED <<phase, round, early, met>>

Done == (\A s \in Sides : phase[s] \in {"connected", "gave up"}) /\ UNCHANGED vars

Next ==
    \/ \E s \in Sides : Call(s) \/ GiveUp(s)
    \/ \E s \in Sides, a \in Attempts :
         \/ AttemptSucceeds(s, a) \/ AttemptFails(s, a) \/ AttemptWakes(s, a)
         \/ CallSucceeds(s, a) \/ CallFails(s, a)
    \/ Tick
    \/ Done

Spec == Init /\ [][Next]_vars

TypeOK ==
    /\ phase \in [Sides -> {"pausing", "calling", "connected", "gave up"}]
    /\ round \in [Sides -> Nat] /\ \A s \in Sides : round[s] <= Tries[s]
    /\ left \in [Sides -> 0..MaxLag]
    /\ cell \in [Sides -> [Attempts -> Cell]]
    /\ \A s \in Sides, a \in Attempts : cell[s][a].left <= Tmo[s]
    /\ early \in BOOLEAN /\ met \in BOOLEAN

\* A failure never wins the race against an attempt that may still succeed:
\* when a call fails while another attempt is still dialling, connect() had
\* refused one, or that attempt's own time is over at this very moment.
FailureComesLast ==
    [][\A s \in Sides :
         /\ Dialling(s)
         /\ phase'[s] = "pausing"
         /\ \A a \in Attempts : cell[s][a].at # "refused"
         => \A a \in Attempts : cell[s][a].at = "dialling" => cell[s][a].left = 0]_vars

\* The timings of the two loops fit each other: the node pauses for less time than the
\* client dials, and its last call does not start before the client is introduced.
TimesFit ==
    /\ Tmo["node"] < Tmo["client"]
    /\ MaxLag <= 2 * Tmo["node"] * (Tries["node"] - 1)

\* The two loops fit each other: however late the client is told, up to MaxLag,
\* it does not give up before there was a moment at which both were dialling, so
\* that each NAT had seen its own side's packet, unless attempts fail at once.
MetBeforeGivingUp == phase["client"] = "gave up" /\ ~early => met
==============================================================================
