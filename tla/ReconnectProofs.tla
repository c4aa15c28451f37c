--------------------------- MODULE ReconnectProofs ---------------------------
(***************************************************************************)
(* Proofs about Reconnect, for all timers: how often a device is kept out  *)
(* by its own past connection, and how soon it is back.                    *)
(***************************************************************************)
EXTENDS Reconnect, TLAPS

\* How long each side still believes in a connection that is dead: what it
\* sends first starts its idle timer again, and the relay sends by itself.
RelayLife == IF relaySent THEN relayTimer ELSE pingTimer + Idle
NodeLife == IF nodeSent THEN nodeTimer ELSE nodeTimer + Idle

\* Who is online was let in, and its refusals are forgotten.
OnlineForgets == node = "up" \/ entry = "current" => refusals = 0

\* A healthy period begins with network, device and dial.
HealthyMeans ==
    /\ ~network \/ node = "off" => healthy = 0
    /\ node = "dial" => healthy = 0 \/ nodeTimer = Idle

\* The keep-alive reaches both before they lose patience.
Alive == network /\ pingTimer < nodeTimer /\ pingTimer < relayTimer

\* What is left of a dead connection has been shrinking since the last failure.
DeadShrinks ==
    /\ entry = "ghost" => healthy + RelayLife <= Idle + KeepAlive
    /\ entry = "current" =>
          \/ Alive
          \/ healthy + RelayLife <= Idle + KeepAlive /\ healthy + NodeLife <= Idle + Idle
    /\ node = "up" /\ entry # "current" => healthy + NodeLife <= Idle + Idle
    /\ entry = "held" => node # "up"

\* The next dial comes in time.
DialsSoon ==
    /\ node = "sleep" /\ entry # "held" => healthy + nodeTimer <= Idle + Idle + Retry
    /\ node = "dial" /\ entry # "held" => healthy <= Idle + Idle + Retry

IInv == TypeOK /\ OnlineForgets /\ HealthyMeans /\ DeadShrinks /\ DialsSoon

\* Each refusal has cost the device a whole wait, and the past connection as much of its life.
Waited == IF refusals = 0 THEN 0 ELSE IF refusals = 1 THEN Retry ELSE Retry + Retry
WaitsSpendLife ==
    entry \in {"ghost", "held"} =>
        RelayLife + Waited <= Idle + KeepAlive + (IF node = "sleep" THEN nodeTimer ELSE 0)

\* Two waits are longer than a past connection can live unheard of.
WaitsOutlastGhosts == Idle + KeepAlive < Retry + Retry

RInv == RefusedAtMostTwice /\ WaitsSpendLife

------------------------------------------------------------------------------

\* Timers start at what they are set to and stop at zero.
LEMMA TimersInv == ASSUME TypeOK, [Next]_vars PROVE TimersOK'
<1> USE ReconnectAssumption DEF ReconnectAssumption, TypeOK, TimersOK
<1>1. CASE Dial
  BY <1>1 DEF Dial, nodeVars, relayVars
<1>2. CASE Register
  BY <1>2 DEF Register, Refresh, nodeVars, relayVars
<1>3. CASE Refused
  BY <1>3 DEF Refused, Sleep, RetryWait, nodeVars, relayVars
<1>4. CASE RunFails
  BY <1>4 DEF RunFails, IdlesOut, Sleep, RetryWait, Ghost, nodeVars, relayVars
<1>5. CASE RunEnds
  BY <1>5 DEF RunEnds, Sleep, RetryWait, nodeVars, relayVars
<1>6. CASE HeldAnswers
  BY <1>6 DEF HeldAnswers, nodeVars, relayVars
<1>7. CASE HeldDropped
  BY <1>7 DEF HeldDropped, nodeVars, relayVars
<1>8. CASE RelaySends
  BY <1>8 DEF RelaySends, Reachable, Refresh, nodeVars, relayVars
<1>9. CASE NodeSends
  BY <1>9 DEF NodeSends, Reachable, Refresh, nodeVars, relayVars
<1>10. CASE RelayIdles
  BY <1>10 DEF RelayIdles, nodeVars, relayVars
<1>11. CASE Crash
  BY <1>11 DEF Crash, Ghost, nodeVars, relayVars
<1>12. CASE RelayRestart
  BY <1>12 DEF RelayRestart, nodeVars, relayVars
<1>13. CASE NetworkFails
  BY <1>13 DEF NetworkFails, nodeVars, relayVars
<1>14. CASE NetworkHeals
  BY <1>14 DEF NetworkHeals, nodeVars, relayVars
<1>15. CASE Tick
  BY <1>15 DEF Tick, Due, Down, nodeVars, relayVars
<1>16. CASE UNCHANGED vars
  BY <1>16 DEF vars, nodeVars, relayVars
<1> QED
  BY <1>1, <1>2, <1>3, <1>4, <1>5, <1>6, <1>7, <1>8, <1>9, <1>10, <1>11, <1>12, <1>13, <1>14, <1>15, <1>16 DEF Next

\* A flag stays one.
LEMMA FlagsInv == ASSUME FlagsOK, [Next]_vars PROVE FlagsOK'
<1> USE DEF FlagsOK
<1>1. CASE Dial
  BY <1>1 DEF Dial, nodeVars, relayVars
<1>2. CASE Register
  BY <1>2 DEF Register, Refresh, nodeVars, relayVars
<1>3. CASE Refused
  BY <1>3 DEF Refused, Sleep, RetryWait, nodeVars, relayVars
<1>4. CASE RunFails
  BY <1>4 DEF RunFails, IdlesOut, Sleep, RetryWait, Ghost, nodeVars, relayVars
<1>5. CASE RunEnds
  BY <1>5 DEF RunEnds, Sleep, RetryWait, nodeVars, relayVars
<1>6. CASE HeldAnswers
  BY <1>6 DEF HeldAnswers, nodeVars, relayVars
<1>7. CASE HeldDropped
  BY <1>7 DEF HeldDropped, nodeVars, relayVars
<1>8. CASE RelaySends
  BY <1>8 DEF RelaySends, Reachable, Refresh, nodeVars, relayVars
<1>9. CASE NodeSends
  BY <1>9 DEF NodeSends, Reachable, Refresh, nodeVars, relayVars
<1>10. CASE RelayIdles
  BY <1>10 DEF RelayIdles, nodeVars, relayVars
<1>11. CASE Crash
  BY <1>11 DEF Crash, Ghost, nodeVars, relayVars
<1>12. CASE RelayRestart
  BY <1>12 DEF RelayRestart, nodeVars, relayVars
<1>13. CASE NetworkFails
  BY <1>13 DEF NetworkFails, nodeVars, relayVars
<1>14. CASE NetworkHeals
  BY <1>14 DEF NetworkHeals, nodeVars, relayVars
<1>15. CASE Tick
  BY <1>15 DEF Tick, Due, Down, nodeVars, relayVars
<1>16. CASE UNCHANGED vars
  BY <1>16 DEF vars, nodeVars, relayVars
<1> QED
  BY <1>1, <1>2, <1>3, <1>4, <1>5, <1>6, <1>7, <1>8, <1>9, <1>10, <1>11, <1>12, <1>13, <1>14, <1>15, <1>16 DEF Next

\* Only a device that is let in has an entry of its own.
LEMMA ForgetInv == ASSUME TypeOK, OnlineForgets, [Next]_vars PROVE OnlineForgets'
<1> USE ReconnectAssumption DEF TypeOK, TimersOK, OnlineForgets
<1>1. CASE Dial
  BY <1>1 DEF Dial, nodeVars, relayVars
<1>2. CASE Register
  BY <1>2 DEF Register, Refresh, nodeVars, relayVars
<1>3. CASE Refused
  BY <1>3 DEF Refused, Sleep, RetryWait, nodeVars, relayVars
<1>4. CASE RunFails
  BY <1>4 DEF RunFails, IdlesOut, Sleep, RetryWait, Ghost, nodeVars, relayVars
<1>5. CASE RunEnds
  BY <1>5 DEF RunEnds, Sleep, RetryWait, nodeVars, relayVars
<1>6. CASE HeldAnswers
  BY <1>6 DEF HeldAnswers, nodeVars, relayVars
<1>7. CASE HeldDropped
  BY <1>7 DEF HeldDropped, nodeVars, relayVars
<1>8. CASE RelaySends
  BY <1>8 DEF RelaySends, Reachable, Refresh, nodeVars, relayVars
<1>9. CASE NodeSends
  BY <1>9 DEF NodeSends, Reachable, Refresh, nodeVars, relayVars
<1>10. CASE RelayIdles
  BY <1>10 DEF RelayIdles, nodeVars, relayVars
<1>11. CASE Crash
  BY <1>11 DEF Crash, Ghost, nodeVars, relayVars
<1>12. CASE RelayRestart
  BY <1>12 DEF RelayRestart, nodeVars, relayVars
<1>13. CASE NetworkFails
  BY <1>13 DEF NetworkFails, nodeVars, relayVars
<1>14. CASE NetworkHeals
  BY <1>14 DEF NetworkHeals, nodeVars, relayVars
<1>15. CASE Tick
  BY <1>15 DEF Tick, Due, Down, nodeVars, relayVars
<1>16. CASE UNCHANGED vars
  BY <1>16 DEF vars, nodeVars, relayVars
<1> QED
  BY <1>1, <1>2, <1>3, <1>4, <1>5, <1>6, <1>7, <1>8, <1>9, <1>10, <1>11, <1>12, <1>13, <1>14, <1>15, <1>16 DEF Next

\* A failure starts the healthy period anew, and a dial that can be answered is.
LEMMA HealthyInv == ASSUME TypeOK, HealthyMeans, [Next]_vars PROVE HealthyMeans'
<1> USE ReconnectAssumption DEF ReconnectAssumption, TypeOK, TimersOK, HealthyMeans
<1>1. CASE Dial
  BY <1>1 DEF Dial, nodeVars, relayVars
<1>2. CASE Register
  BY <1>2 DEF Register, Refresh, nodeVars, relayVars
<1>3. CASE Refused
  BY <1>3 DEF Refused, Sleep, RetryWait, nodeVars, relayVars
<1>4. CASE RunFails
  BY <1>4 DEF RunFails, IdlesOut, Sleep, RetryWait, Ghost, nodeVars, relayVars
<1>5. CASE RunEnds
  BY <1>5 DEF RunEnds, Sleep, RetryWait, nodeVars, relayVars
<1>6. CASE HeldAnswers
  BY <1>6 DEF HeldAnswers, nodeVars, relayVars
<1>7. CASE HeldDropped
  BY <1>7 DEF HeldDropped, nodeVars, relayVars
<1>8. CASE RelaySends
  BY <1>8 DEF RelaySends, Reachable, Refresh, nodeVars, relayVars
<1>9. CASE NodeSends
  BY <1>9 DEF NodeSends, Reachable, Refresh, nodeVars, relayVars
<1>10. CASE RelayIdles
  BY <1>10 DEF RelayIdles, nodeVars, relayVars
<1>11. CASE Crash
  BY <1>11 DEF Crash, Ghost, nodeVars, relayVars
<1>12. CASE RelayRestart
  BY <1>12 DEF RelayRestart, nodeVars, relayVars
<1>13. CASE NetworkFails
  BY <1>13 DEF NetworkFails, nodeVars, relayVars
<1>14. CASE NetworkHeals
  BY <1>14 DEF NetworkHeals, nodeVars, relayVars
<1>15. CASE Tick
  BY <1>15 DEF Tick, Due, Down, nodeVars, relayVars
<1>16. CASE UNCHANGED vars
  BY <1>16 DEF vars, nodeVars, relayVars
<1> QED
  BY <1>1, <1>2, <1>3, <1>4, <1>5, <1>6, <1>7, <1>8, <1>9, <1>10, <1>11, <1>12, <1>13, <1>14, <1>15, <1>16 DEF Next

\* A dead connection loses a second with each that passes.
LEMMA DeadInv == ASSUME IInv, [Next]_vars PROVE DeadShrinks'
<1> USE ReconnectAssumption DEF ReconnectAssumption, IInv, TypeOK, TimersOK, HealthyMeans, DeadShrinks, RelayLife, NodeLife, Alive
<1>1. CASE Dial
  BY <1>1 DEF Dial, nodeVars, relayVars
<1>2. CASE Register
  BY <1>2 DEF Register, Refresh, nodeVars, relayVars
<1>3. CASE Refused
  BY <1>3 DEF Refused, Sleep, RetryWait, nodeVars, relayVars
<1>4. CASE RunFails
  BY <1>4 DEF RunFails, IdlesOut, Sleep, RetryWait, Ghost, nodeVars, relayVars
<1>5. CASE RunEnds
  BY <1>5 DEF RunEnds, Sleep, RetryWait, nodeVars, relayVars
<1>6. CASE HeldAnswers
  BY <1>6 DEF HeldAnswers, nodeVars, relayVars
<1>7. CASE HeldDropped
  BY <1>7 DEF HeldDropped, nodeVars, relayVars
<1>8. CASE RelaySends
  BY <1>8 DEF RelaySends, Reachable, Refresh, nodeVars, relayVars
<1>9. CASE NodeSends
  BY <1>9 DEF NodeSends, Reachable, Refresh, nodeVars, relayVars
<1>10. CASE RelayIdles
  BY <1>10 DEF RelayIdles, nodeVars, relayVars
<1>11. CASE Crash
  BY <1>11 DEF Crash, Ghost, nodeVars, relayVars
<1>12. CASE RelayRestart
  BY <1>12 DEF RelayRestart, nodeVars, relayVars
<1>13. CASE NetworkFails
  BY <1>13 DEF NetworkFails, nodeVars, relayVars
<1>14. CASE NetworkHeals
  BY <1>14 DEF NetworkHeals, nodeVars, relayVars
<1>15. CASE Tick
  BY <1>15 DEF Tick, Due, Down, nodeVars, relayVars
<1>16. CASE UNCHANGED vars
  BY <1>16 DEF vars, nodeVars, relayVars
<1> QED
  BY <1>1, <1>2, <1>3, <1>4, <1>5, <1>6, <1>7, <1>8, <1>9, <1>10, <1>11, <1>12, <1>13, <1>14, <1>15, <1>16 DEF Next

\* A device sleeps after what it believed in is gone, or after a refusal.
LEMMA DialsInv == ASSUME IInv, [Next]_vars PROVE DialsSoon'
<1> USE ReconnectAssumption DEF ReconnectAssumption, IInv, TypeOK, TimersOK, HealthyMeans, DeadShrinks, DialsSoon, RelayLife, NodeLife, Alive
<1>1. CASE Dial
  BY <1>1 DEF Dial, nodeVars, relayVars
<1>2. CASE Register
  BY <1>2 DEF Register, Refresh, nodeVars, relayVars
<1>3. CASE Refused
  BY <1>3 DEF Refused, Sleep, RetryWait, nodeVars, relayVars
<1>4. CASE RunFails
  BY <1>4 DEF RunFails, IdlesOut, Sleep, RetryWait, Ghost, nodeVars, relayVars
<1>5. CASE RunEnds
  BY <1>5 DEF RunEnds, Sleep, RetryWait, nodeVars, relayVars
<1>6. CASE HeldAnswers
  BY <1>6 DEF HeldAnswers, nodeVars, relayVars
<1>7. CASE HeldDropped
  BY <1>7 DEF HeldDropped, nodeVars, relayVars
<1>8. CASE RelaySends
  BY <1>8 DEF RelaySends, Reachable, Refresh, nodeVars, relayVars
<1>9. CASE NodeSends
  BY <1>9 DEF NodeSends, Reachable, Refresh, nodeVars, relayVars
<1>10. CASE RelayIdles
  BY <1>10 DEF RelayIdles, nodeVars, relayVars
<1>11. CASE Crash
  BY <1>11 DEF Crash, Ghost, nodeVars, relayVars
<1>12. CASE RelayRestart
  BY <1>12 DEF RelayRestart, nodeVars, relayVars
<1>13. CASE NetworkFails
  BY <1>13 DEF NetworkFails, nodeVars, relayVars
<1>14. CASE NetworkHeals
  BY <1>14 DEF NetworkHeals, nodeVars, relayVars
<1>15. CASE Tick
  BY <1>15 DEF Tick, Due, Down, nodeVars, relayVars
<1>16. CASE UNCHANGED vars
  BY <1>16 DEF vars, nodeVars, relayVars
<1> QED
  BY <1>1, <1>2, <1>3, <1>4, <1>5, <1>6, <1>7, <1>8, <1>9, <1>10, <1>11, <1>12, <1>13, <1>14, <1>15, <1>16 DEF Next

\* The inductive invariant.
THEOREM Invariant == Spec => []IInv
<1>1. Init => IInv
  <2> SUFFICES ASSUME Init PROVE IInv
    OBVIOUS
  <2>1. TimersOK
    BY ReconnectAssumption DEF Init, ReconnectAssumption, TimersOK
  <2>2. FlagsOK
    BY DEF Init, FlagsOK
  <2>3. OnlineForgets /\ DeadShrinks
    BY DEF Init, OnlineForgets, DeadShrinks
  <2>4. HealthyMeans /\ DialsSoon
    BY DEF Init, HealthyMeans, DialsSoon
  <2> QED
    BY <2>1, <2>2, <2>3, <2>4 DEF IInv, TypeOK
<1>2. IInv /\ [Next]_vars => IInv'
  BY TimersInv, FlagsInv, ForgetInv, HealthyInv, DeadInv, DialsInv DEF IInv, TypeOK
<1> QED
  BY <1>1, <1>2, PTL DEF Spec

\* The timers stay within what they are set to, and an entry of the device's
\* current connection means that the device is online.
THEOREM TypeCorrect == Spec => []TypeOK
  BY Invariant, PTL DEF IInv

\* With a horizon longer than two idle times and a wait, a device that nothing
\* has failed for is online.
THEOREM BackOnlineCorrect ==
  ASSUME Idle + Idle + Retry < Horizon
  PROVE  Spec => []BackOnline
<1>1. IInv => BackOnline
  BY ReconnectAssumption DEF ReconnectAssumption, IInv, TypeOK, TimersOK, HealthyMeans, DeadShrinks, DialsSoon,
     NodeLife, BackOnline
<1> QED
  BY <1>1, Invariant, PTL

\* A third refusal would come after the ghost has gone.
LEMMA WaitsInv == ASSUME WaitsOutlastGhosts, IInv, IInv', RInv, [Next]_vars PROVE RInv'
<1> USE ReconnectAssumption DEF ReconnectAssumption, WaitsOutlastGhosts, IInv, TypeOK, TimersOK, OnlineForgets, RInv, RefusedAtMostTwice, WaitsSpendLife, Waited, RelayLife
<1>1. CASE Dial
  BY <1>1 DEF Dial, nodeVars, relayVars
<1>2. CASE Register
  BY <1>2 DEF Register, Refresh, nodeVars, relayVars
<1>3. CASE Refused
  BY <1>3 DEF Refused, Sleep, RetryWait, nodeVars, relayVars
<1>4. CASE RunFails
  BY <1>4 DEF RunFails, IdlesOut, Sleep, RetryWait, Ghost, nodeVars, relayVars
<1>5. CASE RunEnds
  BY <1>5 DEF RunEnds, Sleep, RetryWait, nodeVars, relayVars
<1>6. CASE HeldAnswers
  BY <1>6 DEF HeldAnswers, nodeVars, relayVars
<1>7. CASE HeldDropped
  BY <1>7 DEF HeldDropped, nodeVars, relayVars
<1>8. CASE RelaySends
  BY <1>8 DEF RelaySends, Reachable, Refresh, nodeVars, relayVars
<1>9. CASE NodeSends
  BY <1>9 DEF NodeSends, Reachable, Refresh, nodeVars, relayVars
<1>10. CASE RelayIdles
  BY <1>10 DEF RelayIdles, nodeVars, relayVars
<1>11. CASE Crash
  BY <1>11 DEF Crash, Ghost, nodeVars, relayVars
<1>12. CASE RelayRestart
  BY <1>12 DEF RelayRestart, nodeVars, relayVars
<1>13. CASE NetworkFails
  BY <1>13 DEF NetworkFails, nodeVars, relayVars
<1>14. CASE NetworkHeals
  BY <1>14 DEF NetworkHeals, nodeVars, relayVars
<1>15. CASE Tick
  BY <1>15 DEF Tick, Due, Down, nodeVars, relayVars
<1>16. CASE UNCHANGED vars
  BY <1>16 DEF vars, nodeVars, relayVars
<1> QED
  BY <1>1, <1>2, <1>3, <1>4, <1>5, <1>6, <1>7, <1>8, <1>9, <1>10, <1>11, <1>12, <1>13, <1>14, <1>15, <1>16 DEF Next

\* When two waits are longer than a ghost's life, no past connection of a device
\* keeps it out three times.
THEOREM RefusedCorrect ==
  ASSUME WaitsOutlastGhosts
  PROVE  Spec => []RefusedAtMostTwice
<1>1. Init => RInv
  BY DEF Init, RInv, RefusedAtMostTwice, WaitsSpendLife
<1>2. IInv /\ IInv' /\ RInv /\ [Next]_vars => RInv'
  BY WaitsInv
<1>3. RInv => RefusedAtMostTwice
  BY DEF RInv
<1> QED
  BY <1>1, <1>2, <1>3, Invariant, PTL DEF Spec
==============================================================================
