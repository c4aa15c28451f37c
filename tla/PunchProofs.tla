----------------------------- MODULE PunchProofs ------------------------------
(***************************************************************************)
(* Proofs about Punch, for all timeouts, numbers of tries and of attempts: *)
(* an attempt that failed does not end a call while another may succeed, and *)
(* two loops whose timings fit each other meet before the client gives up.   *)
(***************************************************************************)
EXTENDS Punch, Integers, TLAPS

\* An attempt that sleeps wakes no earlier than any other attempt's time is over,
\* and one that has woken finds that time over.
SleepersWakeLater ==
    \A s \in Sides : \A a, b \in Attempts :
        cell[s][a].at = "dialling" =>
            /\ cell[s][b].at = "sleeping" => cell[s][a].left <= cell[s][b].left
            /\ cell[s][b].at = "failed" => cell[s][a].left = 0

\* The inductive invariant that holds for all timings.
IInv == TypeOK /\ SleepersWakeLater

\* When no attempt ended early, those of a call that is e ticks old are in step.
InStep(s, e) ==
    \A a \in Attempts :
        \/ cell[s][a].at = "dialling" /\ cell[s][a].left = Tmo[s] - e
        \/ cell[s][a].at = "ok" /\ e <= Tmo[s]
        \/ cell[s][a].at = "sleeping" /\ cell[s][a].left = 2 * Tmo[s] - e /\ Tmo[s] <= e
        \/ cell[s][a].at = "failed" /\ e = 2 * Tmo[s]

\* How long the calls take that the node makes after the first r and before its last.
Before(r) == 2 * Tmo["node"] * (Tries["node"] - 1 - r)

\* How long it is until the node's last call starts.
ToLastCall(e) ==
    IF Calling("node") THEN Before(round["node"]) + 2 * Tmo["node"] - e
                       ELSE Before(round["node"])

\* The client is introduced in time for the node's last call.
Waits(e) ==
    /\ phase["client"] = "pausing" /\ round["client"] = 0
    /\ phase["node"] \in {"pausing", "calling"}
    /\ left["client"] <= ToLastCall(e)

Succeeds(s) == \E a \in Attempts : cell[s][a].at = "ok"

\* The client's first call has an answer, or the node's has, or the node calls again
\* before the client has dialled for longer than the node's timeout.
Dials(c, e) ==
    /\ Calling("client") /\ round["client"] = 1
    /\ \/ Succeeds("client")
       \/ /\ c <= Tmo["node"]
          /\ \/ Calling("node") /\ Succeeds("node")
             \/ phase["node"] = "pausing" /\ round["node"] < Tries["node"]
             \/ /\ Calling("node") /\ round["node"] < Tries["node"]
                /\ Tmo["node"] <= e /\ c <= e - Tmo["node"]

\* Calls that are c and e ticks old.
OnCourse(c, e) ==
    /\ Calling("client") => InStep("client", c)
    /\ Calling("node") => InStep("node", e)
    /\ Waits(e) \/ Dials(c, e)

\* As long as no attempt has ended early and the two have not met, they will.
WillMeet ==
    ~early /\ ~met => left["node"] = 0 /\ \E c, e \in Nat : OnCourse(c, e)

\* Two that dial at the same time have met.
BothDial == Dialling("client") /\ Dialling("node") => met

------------------------------------------------------------------------------

\* The bounds are numbers.
LEMMA Bounds ==
  /\ MaxLag \in Nat
  /\ \A s \in Sides : Tmo[s] \in Nat /\ Tries[s] \in Nat
  BY PunchAssumption DEF PunchAssumption

\* What TypeOK says of one attempt.
LEMMA CellTypes ==
  ASSUME TypeOK, NEW s \in Sides, NEW a \in Attempts
  PROVE  /\ cell[s][a] \in Cell
         /\ cell[s][a].left \in Nat
         /\ cell[s][a].left <= Tmo[s]
<1>1. cell[s][a] \in Cell
  BY DEF TypeOK
<1>2. cell[s][a].left \in Nat
  BY <1>1 DEF Cell
<1>3. cell[s][a].left <= Tmo[s]
  BY DEF TypeOK
<1> QED
  BY <1>1, <1>2, <1>3

\* At first there are no attempts.
LEMMA InitInv == Init => IInv
<1> SUFFICES ASSUME Init PROVE IInv
  OBVIOUS
<1>1. cell \in [Sides -> [Attempts -> Cell]]
  BY DEF Init, Idle, Cell
<1>2. \A s \in Sides, a \in Attempts : cell[s][a] = Idle
  BY DEF Init
<1>3. \A s \in Sides, a \in Attempts : cell[s][a].left <= Tmo[s]
  BY <1>2, Bounds DEF Idle
<1>4. left \in [Sides -> 0..MaxLag]
  BY Bounds DEF Init
<1>5. TypeOK
  <2>1. round \in [Sides -> Nat] /\ \A s \in Sides : round[s] <= Tries[s]
    BY Bounds DEF Init
  <2>2. phase \in [Sides -> {"pausing", "calling", "connected", "gave up"}]
    BY DEF Init
  <2>3. early \in BOOLEAN /\ met \in BOOLEAN
    BY DEF Init
  <2> QED
    BY <1>1, <1>3, <1>4, <2>1, <2>2, <2>3 DEF TypeOK
<1>6. SleepersWakeLater
  BY <1>2 DEF SleepersWakeLater, Idle
<1> QED
  BY <1>5, <1>6 DEF IInv

\* The steps of the loops around symmetric_connect.
LEMMA LoopInv ==
  ASSUME IInv, NEW s \in Sides, Call(s) \/ GiveUp(s)
  PROVE  IInv'
<1> USE DEF IInv
<1>1. CASE Call(s)
  <2>1. PICK no \in SUBSET Refusable :
          cell' = [cell EXCEPT ![s] = [a \in Attempts |->
                     IF a \in no THEN [at |-> "refused", left |-> 0]
                                 ELSE [at |-> "dialling", left |-> Tmo[s]]]]
    BY <1>1 DEF Call
  <2>2. \A a \in Attempts :
          cell'[s][a] = IF a \in no THEN [at |-> "refused", left |-> 0]
                                    ELSE [at |-> "dialling", left |-> Tmo[s]]
    BY <2>1 DEF TypeOK
  <2>3. \A t \in Sides \ {s} : cell'[t] = cell[t]
    BY <2>1 DEF TypeOK
  <2>4. TypeOK'
    <3>1. cell' \in [Sides -> [Attempts -> Cell]]
      BY <2>1, Bounds DEF TypeOK, Failed, Cell
    <3>2. \A t \in Sides, a \in Attempts : cell'[t][a].left <= Tmo[t]
      <4> SUFFICES ASSUME NEW t \in Sides, NEW a \in Attempts
                   PROVE  cell'[t][a].left <= Tmo[t]
        OBVIOUS
      <4>1. CASE t = s
        BY <2>2, <4>1, Bounds
      <4>2. CASE t # s
        BY <2>3, <4>2, CellTypes
      <4> QED
        BY <4>1, <4>2
    <3>3. round' \in [Sides -> Nat] /\ \A t \in Sides : round'[t] <= Tries[t]
      <4>1. round' = [round EXCEPT ![s] = @ + 1] /\ round[s] < Tries[s]
        BY <1>1 DEF Call
      <4>2. round \in [Sides -> Nat] /\ \A t \in Sides : round[t] <= Tries[t]
        BY DEF TypeOK
      <4> QED
        BY <4>1, <4>2, Bounds
    <3>4. early' \in BOOLEAN /\ met' \in BOOLEAN
      BY <1>1 DEF Call, TypeOK
    <3> QED
      BY <1>1, <3>1, <3>2, <3>3, <3>4 DEF TypeOK, Call
  <2>5. SleepersWakeLater'
    BY <2>2, <2>3 DEF SleepersWakeLater
  <2> QED
    BY <2>4, <2>5
<1>2. CASE GiveUp(s)
  BY <1>2 DEF GiveUp, TypeOK, SleepersWakeLater
<1> QED
  BY <1>1, <1>2

\* What one attempt becomes leaves the other attempts alone.
LEMMA BecomesCells ==
  ASSUME TypeOK, NEW s \in Sides, NEW a \in Attempts, NEW at, NEW n,
         Becomes(s, a, at, n)
  PROVE  /\ cell'[s][a].at = at /\ cell'[s][a].left = n
         /\ \A b \in Attempts \ {a} : cell'[s][b] = cell[s][b]
         /\ \A t \in Sides \ {s} : cell'[t] = cell[t]
  BY DEF Becomes, TypeOK

\* A change of one attempt to a legal state keeps the types.
LEMMA BecomesType ==
  ASSUME TypeOK, NEW s \in Sides, NEW a \in Attempts,
         NEW at \in {"ok", "sleeping", "failed"}, NEW n \in Nat, n <= Tmo[s],
         Becomes(s, a, at, n), early' \in BOOLEAN
  PROVE  TypeOK'
<1>1. cell' \in [Sides -> [Attempts -> Cell]]
  BY DEF Becomes, TypeOK, Failed, Cell
<1>2. \A t \in Sides, b \in Attempts : cell'[t][b].left <= Tmo[t]
  <2> SUFFICES ASSUME NEW t \in Sides, NEW b \in Attempts
               PROVE  cell'[t][b].left <= Tmo[t]
    OBVIOUS
  <2>1. CASE t = s /\ b = a
    BY <2>1, BecomesCells
  <2>2. CASE t # s \/ b # a
    BY <2>2, BecomesCells, CellTypes
  <2> QED
    BY <2>1, <2>2
<1> QED
  BY <1>1, <1>2 DEF TypeOK, Becomes

\* The steps of one attempt: one that fails sleeps for a whole timeout, which
\* is no less than what any other has left.
LEMMA AttemptInv ==
  ASSUME IInv, NEW s \in Sides, NEW a \in Attempts,
         AttemptSucceeds(s, a) \/ AttemptFails(s, a) \/ AttemptWakes(s, a)
  PROVE  IInv'
<1>0. Tmo[s] \in Nat /\ TypeOK
  BY Bounds DEF IInv
<1>1. CASE AttemptSucceeds(s, a)
  <2>1. Becomes(s, a, "ok", 0) /\ early' = early
    BY <1>1 DEF AttemptSucceeds
  <2>2. TypeOK'
    <3>1. early' \in BOOLEAN
      BY <1>0, <2>1 DEF TypeOK
    <3> QED
      BY <1>0, <2>1, <3>1, BecomesType
  <2>3. SleepersWakeLater'
    BY <1>0, <2>1, BecomesCells DEF IInv, SleepersWakeLater
  <2> QED
    BY <2>2, <2>3 DEF IInv
<1>2. CASE AttemptFails(s, a)
  <2>1. Becomes(s, a, "sleeping", Tmo[s]) /\ early' \in BOOLEAN
    BY <1>2 DEF AttemptFails
  <2>2. TypeOK'
    BY <1>0, <2>1, BecomesType
  <2>3. \A b \in Attempts : cell[s][b].left <= Tmo[s]
    BY <1>0 DEF TypeOK
  <2>4. SleepersWakeLater'
    BY <1>0, <2>1, <2>3, BecomesCells DEF IInv, SleepersWakeLater
  <2> QED
    BY <2>2, <2>4 DEF IInv
<1>3. CASE AttemptWakes(s, a)
  <2>1. Becomes(s, a, "failed", 0) /\ early' = early
    BY <1>3 DEF AttemptWakes
  <2>2. TypeOK'
    <3>1. early' \in BOOLEAN
      BY <1>0, <2>1 DEF TypeOK
    <3> QED
      BY <1>0, <2>1, <3>1, BecomesType
  <2>3. cell[s][a].at = "sleeping" /\ cell[s][a].left = 0
    BY <1>3 DEF AttemptWakes
  <2>4. \A b \in Attempts : cell[s][b].left \in Nat
    BY <1>0, CellTypes
  <2>5. \A b \in Attempts : cell[s][b].at = "dialling" => cell[s][b].left = 0
    BY <2>3, <2>4 DEF IInv, SleepersWakeLater
  <2>6. SleepersWakeLater'
    BY <1>0, <2>1, <2>5, BecomesCells DEF IInv, SleepersWakeLater
  <2> QED
    BY <2>2, <2>6 DEF IInv
<1> QED
  BY <1>1, <1>2, <1>3

\* When a call returns, its attempts are gone.
LEMMA ReturnInv ==
  ASSUME IInv, NEW s \in Sides, NEW a \in Attempts,
         CallSucceeds(s, a) \/ CallFails(s, a)
  PROVE  IInv'
<1>1. CallReturns(s, a)
  BY DEF CallSucceeds, CallFails
<1>2. /\ \A b \in Attempts : cell'[s][b] = Idle
      /\ \A t \in Sides \ {s} : cell'[t] = cell[t]
  BY <1>1 DEF CallReturns, IInv, TypeOK
<1>3. cell' \in [Sides -> [Attempts -> Cell]]
  BY <1>1 DEF CallReturns, IInv, TypeOK, Idle, Cell
<1>4. \A t \in Sides, b \in Attempts : cell'[t][b].left <= Tmo[t]
  <2> SUFFICES ASSUME NEW t \in Sides, NEW b \in Attempts
               PROVE  cell'[t][b].left <= Tmo[t]
    OBVIOUS
  <2>1. CASE t = s
    BY <1>2, <2>1, Bounds DEF Idle
  <2>2. CASE t # s
    BY <1>2, <2>2, CellTypes DEF IInv
  <2> QED
    BY <2>1, <2>2
<1>5. TypeOK'
  BY <1>1, <1>3, <1>4 DEF CallReturns, CallSucceeds, CallFails, IInv, TypeOK
<1>6. SleepersWakeLater'
  BY <1>2 DEF IInv, SleepersWakeLater, Idle
<1> QED
  BY <1>5, <1>6 DEF IInv

\* Less time leaves an attempt in the same state.
LEMMA LessCell ==
  ASSUME NEW c \in Cell
  PROVE  /\ [c EXCEPT !.left = Less(@)].at = c.at
         /\ [c EXCEPT !.left = Less(@)].left = Less(c.left)
  BY DEF Cell, Less

\* A tick takes the same from everybody.
LEMMA TickInv ==
  ASSUME IInv, Tick
  PROVE  IInv'
<1>1. \A s \in Sides, a \in Attempts :
        cell'[s][a] = [cell[s][a] EXCEPT !.left = Less(@)]
  BY DEF Tick
<1>2. \A s \in Sides, a \in Attempts :
        /\ cell[s][a] \in Cell
        /\ cell[s][a].left \in Nat /\ cell[s][a].left <= Tmo[s] /\ Tmo[s] \in Nat
  BY Bounds, CellTypes DEF IInv
<1>3. \A s \in Sides, a \in Attempts :
        /\ cell'[s][a].at = cell[s][a].at
        /\ cell'[s][a].left = Less(cell[s][a].left)
  BY <1>1, <1>2, LessCell
<1>4. TypeOK'
  <2>1. cell' \in [Sides -> [Attempts -> Cell]]
    <3>1. \A s \in Sides, a \in Attempts : Less(cell[s][a].left) \in Nat
      BY <1>2 DEF Less
    <3>2. \A s \in Sides, a \in Attempts : [cell[s][a] EXCEPT !.left = Less(@)] \in Cell
      BY <1>2, <3>1 DEF Cell
    <3> QED
      BY <3>2 DEF Tick
  <2>2. \A s \in Sides, a \in Attempts : cell'[s][a].left <= Tmo[s]
    BY <1>2, <1>3 DEF Less
  <2>3. left' \in [Sides -> 0..MaxLag]
    <3>1. \A s \in Sides : left[s] \in 0..MaxLag
      BY DEF IInv, TypeOK
    <3>2. \A s \in Sides : Less(left[s]) \in 0..MaxLag
      BY <3>1, Bounds DEF Less
    <3> QED
      BY <3>2 DEF Tick
  <2> QED
    BY <2>1, <2>2, <2>3 DEF Tick, IInv, TypeOK
<1>5. SleepersWakeLater'
  BY <1>2, <1>3 DEF IInv, SleepersWakeLater, Less
<1> QED
  BY <1>4, <1>5 DEF IInv

\* The inductive invariant: who sleeps after a failure wakes last.
THEOREM Invariant == Spec => []IInv
<1>1. IInv /\ [Next]_vars => IInv'
  <2> SUFFICES ASSUME IInv, [Next]_vars PROVE IInv'
    OBVIOUS
  <2>1. CASE Next /\ ~Done
    BY <2>1, LoopInv, AttemptInv, ReturnInv, TickInv DEF Next
  <2>2. CASE UNCHANGED vars
    BY <2>2 DEF vars, IInv, TypeOK, SleepersWakeLater
  <2> QED
    BY <2>1, <2>2 DEF Done
<1> QED
  BY <1>1, InitInv, PTL DEF Spec

\* The loops and their attempts keep their types, and nobody calls too often or
\* waits longer than a timeout.
THEOREM TypeCorrect == Spec => []TypeOK
  BY Invariant, PTL DEF IInv

\* A call fails only by an attempt that was refused or has slept, and then no
\* other attempt of it has any time left.
THEOREM FailureComesLastCorrect == Spec => FailureComesLast
<1> DEFINE Step == \A s \in Sides :
             /\ Dialling(s)
             /\ phase'[s] = "pausing"
             /\ \A a \in Attempts : cell[s][a].at # "refused"
             => \A a \in Attempts : cell[s][a].at = "dialling" => cell[s][a].left = 0
<1>1. IInv /\ [Next]_vars => [Step]_vars
  <2> SUFFICES ASSUME IInv, Next, NEW s \in Sides, Dialling(s), phase'[s] = "pausing",
                      \A a \in Attempts : cell[s][a].at # "refused",
                      NEW a \in Attempts, cell[s][a].at = "dialling"
               PROVE  cell[s][a].left = 0
    OBVIOUS
  <2>1. phase[s] = "calling" /\ phase' # phase
    BY DEF Dialling, Calling
  <2>2. PICK t \in Sides, b \in Attempts : CallFails(t, b) \/ CallSucceeds(t, b) \/ Call(t) \/ GiveUp(t)
    BY <2>1, PunchAssumption DEF PunchAssumption, Next, AttemptSucceeds, AttemptFails,
       AttemptWakes, Becomes, Tick, Done, vars
  <2>3. CallFails(s, b)
    BY <2>1, <2>2 DEF CallFails, CallSucceeds, Call, GiveUp, IInv, TypeOK
  <2>4. cell[s][b].at = "failed"
    BY <2>3 DEF CallFails, Failed
  <2> QED
    BY <2>4 DEF IInv, SleepersWakeLater
<1> QED
  BY <1>1, Invariant, PTL DEF Spec, FailureComesLast

------------------------------------------------------------------------------
(* Two loops that fit each other. *)

\* What the timings amount to.
LEMMA FitFacts ==
  ASSUME TimesFit
  PROVE  /\ Tmo["node"] \in Nat /\ Tmo["node"] > 0 /\ Tmo["node"] < Tmo["client"]
         /\ Tmo["client"] \in Nat
         /\ Tries["node"] \in Nat /\ Tries["node"] > 0
         /\ Tries["client"] \in Nat /\ Tries["client"] > 0
         /\ MaxLag \in Nat
         /\ "client" \in Sides /\ "node" \in Sides
         /\ \A s \in Sides : s = "client" \/ s = "node"
         /\ \E a \in Attempts : TRUE
<1>1. "client" \in Sides /\ "node" \in Sides /\ \A s \in Sides : s = "client" \/ s = "node"
  BY DEF Sides
<1>2. \A s \in Sides : Tmo[s] \in Nat \ {0} /\ Tries[s] \in Nat \ {0}
  BY PunchAssumption DEF PunchAssumption
<1>3. \E a \in Attempts : TRUE
  BY PunchAssumption DEF PunchAssumption
<1> QED
  BY <1>1, <1>2, <1>3, Bounds DEF TimesFit

\* A number of things, and one more.
LEMMA OneMore ==
  ASSUME NEW m \in Nat, NEW n \in Int
  PROVE  /\ m * n \in Int
         /\ m * (n + 1) = m * n + m
         /\ n >= 0 => m * n >= 0
  OBVIOUS

\* The node's last call comes one call later for every call that is still to be made.
LEMMA BeforeFacts ==
  ASSUME TimesFit, NEW r \in Nat, r <= Tries["node"]
  PROVE  /\ Before(r) \in Int
         /\ Before(r) = Before(r + 1) + 2 * Tmo["node"]
         /\ r = Tries["node"] => Before(r) < 0 /\ Before(r) + 2 * Tmo["node"] = 0
         /\ MaxLag <= Before(0)
<1> DEFINE m == 2 * Tmo["node"]
<1>1. m \in Nat /\ m > 0 /\ Tries["node"] \in Nat
  BY FitFacts
<1>2. Before(r) = m * (Tries["node"] - 1 - r) /\ Before(r + 1) = m * (Tries["node"] - 1 - (r + 1))
  BY DEF Before
<1> HIDE DEF m
<1>3. ASSUME NEW n \in Int, n = Tries["node"] - 1 - (r + 1)
      PROVE  m * (Tries["node"] - 1 - r) = m * n + m /\ m * n \in Int
  <2>1. Tries["node"] - 1 - r = n + 1
    BY <1>1, <1>3
  <2> QED
    BY <1>1, <2>1, OneMore
<1>4. Tries["node"] - 1 - (r + 1) \in Int
  BY <1>1
<1>5. Before(r) = Before(r + 1) + m /\ Before(r + 1) \in Int
  BY <1>2, <1>3, <1>4
<1>6. r = Tries["node"] => Before(r) = 0 - m
  <2>1. r = Tries["node"] => Tries["node"] - 1 - r = -1
    BY <1>1
  <2>2. m * (-1) = 0 - m
    BY <1>1
  <2> QED
    BY <1>2, <2>1, <2>2
<1>7. MaxLag <= Before(0)
  <2>1. Tries["node"] - 1 - 0 = Tries["node"] - 1
    BY <1>1
  <2> QED
    BY <2>1 DEF TimesFit, Before, m
<1> QED
  BY <1>1, <1>5, <1>6, <1>7 DEF m

\* A call whose attempts are in step has time for those that still dial or sleep, has an
\* answer only while it dials, and fails at its end.
LEMMA StepFacts ==
  ASSUME TypeOK, TimesFit, NEW s \in Sides, NEW e \in Nat, InStep(s, e), NEW a \in Attempts
  PROVE  /\ Tmo[s] \in Nat /\ Tmo[s] > 0
         /\ cell[s][a].at \in {"dialling", "ok", "sleeping", "failed"}
         /\ cell[s][a].left \in Nat
         /\ cell[s][a].at = "dialling" => cell[s][a].left = Tmo[s] - e /\ e <= Tmo[s]
         /\ cell[s][a].at = "ok" => e <= Tmo[s]
         /\ cell[s][a].at = "sleeping" => cell[s][a].left = 2 * Tmo[s] - e /\ Tmo[s] <= e
         /\ cell[s][a].at = "failed" => e = 2 * Tmo[s]
<1>1. cell[s][a].left \in Nat
  BY CellTypes
<1>2. Tmo[s] \in Nat /\ Tmo[s] > 0
  BY FitFacts
<1>3. \/ cell[s][a].at = "dialling" /\ cell[s][a].left = Tmo[s] - e
      \/ cell[s][a].at = "ok" /\ e <= Tmo[s]
      \/ cell[s][a].at = "sleeping" /\ cell[s][a].left = 2 * Tmo[s] - e /\ Tmo[s] <= e
      \/ cell[s][a].at = "failed" /\ e = 2 * Tmo[s]
  BY DEF InStep
<1> QED
  BY <1>1, <1>2, <1>3

\* Initially the client is on its way.
LEMMA InitMeet == ASSUME TimesFit, Init PROVE BothDial /\ WillMeet
<1>1. phase["client"] = "pausing" /\ phase["node"] = "pausing" /\ round["client"] = 0
      /\ round["node"] = 0 /\ left["node"] = 0 /\ left["client"] <= MaxLag
      /\ left["client"] \in Nat
  BY FitFacts DEF Init
<1>2. left["client"] <= Before(0)
  BY <1>1, FitFacts, BeforeFacts
<1>3. OnCourse(0, 0)
  BY <1>1, <1>2 DEF OnCourse, Waits, ToLastCall, Calling
<1> QED
  BY <1>1, <1>3 DEF WillMeet, BothDial, Dialling, Calling

\* An attempt that becomes something else leaves the loops and the other attempts alone,
\* and starts no dialling.
LEMMA BecomesFacts ==
  ASSUME TypeOK, NEW s \in Sides, NEW a \in Attempts, NEW at, NEW n,
         Becomes(s, a, at, n), at # "dialling"
  PROVE  /\ UNCHANGED <<phase, round, left, met>>
         /\ \A t \in Sides : Dialling(t)' => Dialling(t)
<1>1. UNCHANGED <<phase, round, left, met>>
  BY DEF Becomes
<1>2. ASSUME NEW t \in Sides, Dialling(t)' PROVE Dialling(t)
  <2>1. PICK b \in Attempts : cell'[t][b].at = "dialling"
    BY <1>2 DEF Dialling
  <2>2. cell[t][b].at = "dialling"
    BY <2>1, BecomesCells
  <2> QED
    BY <1>1, <1>2, <2>2 DEF Dialling, Calling
<1> QED
  BY <1>1, <1>2

\* Whoever begins to dial while the other dials has met it.
LEMMA BothDialInv ==
  ASSUME TypeOK, BothDial, [Next]_vars
  PROVE  BothDial'
<1> SUFFICES ASSUME Dialling("client")', Dialling("node")' PROVE met'
  BY DEF BothDial
<1>1. "client" \in Sides /\ "node" \in Sides /\ \A s \in Sides : s = "client" \/ s = "node"
  BY DEF Sides
<1>2. ASSUME NEW s \in Sides, Call(s) PROVE met'
  <2>1. PICK t \in Sides : t # s /\ Dialling(t)'
    BY <1>1
  <2>2. cell'[t] = cell[t] /\ phase'[t] = phase[t]
    BY <1>2, <2>1 DEF Call, TypeOK
  <2>3. Dialling(t)
    BY <2>1, <2>2 DEF Dialling, Calling
  <2> QED
    BY <1>2, <2>1, <2>3 DEF Call
<1>3. ASSUME NEW s \in Sides, GiveUp(s) PROVE met'
  <2>1. phase'[s] = "gave up"
    BY <1>3 DEF GiveUp, TypeOK
  <2> QED
    BY <1>1, <2>1 DEF Dialling, Calling
<1>4. ASSUME NEW s \in Sides, NEW a \in Attempts,
             AttemptSucceeds(s, a) \/ AttemptFails(s, a) \/ AttemptWakes(s, a)
      PROVE  met'
  <2>1. \/ Becomes(s, a, "ok", 0) \/ Becomes(s, a, "sleeping", Tmo[s]) \/ Becomes(s, a, "failed", 0)
    BY <1>4 DEF AttemptSucceeds, AttemptFails, AttemptWakes
  <2>2. met' = met /\ Dialling("client") /\ Dialling("node")
    BY <1>1, <2>1, BecomesFacts
  <2> QED
    BY <2>2 DEF BothDial
<1>5. ASSUME NEW s \in Sides, NEW a \in Attempts, CallSucceeds(s, a) \/ CallFails(s, a)
      PROVE  met'
  <2>1. phase'[s] \in {"connected", "pausing"}
    BY <1>5 DEF CallSucceeds, CallFails, TypeOK
  <2> QED
    BY <1>1, <2>1 DEF Dialling, Calling
<1>6. CASE Tick
  <2>1. \A s \in Sides, a \in Attempts : cell'[s][a] = [cell[s][a] EXCEPT !.left = Less(@)]
    BY <1>6 DEF Tick
  <2>2. \A s \in Sides, a \in Attempts : cell'[s][a].at = cell[s][a].at
    BY <2>1, CellTypes, LessCell
  <2>3. Dialling("client") /\ Dialling("node")
    BY <1>1, <1>6, <2>2 DEF Dialling, Calling, Tick
  <2> QED
    BY <1>6, <2>3 DEF BothDial, Tick
<1>7. CASE UNCHANGED vars
  BY <1>7 DEF BothDial, Dialling, Calling, vars
<1> QED
  BY <1>2, <1>3, <1>4, <1>5, <1>6, <1>7 DEF Next, Done

\* The client's first call: the node does not dial, so it has an answer or calls again soon.
LEMMA ClientCalls ==
  ASSUME TimesFit, TypeOK, WillMeet, Call("client"), ~early', ~met'
  PROVE  left'["node"] = 0 /\ \E c, e \in Nat : OnCourse(c, e)'
<1>1. PICK no \in SUBSET Refusable :
        /\ cell' = [cell EXCEPT !["client"] = [a \in Attempts |->
                     IF a \in no THEN [at |-> "refused", left |-> 0]
                                 ELSE [at |-> "dialling", left |-> Tmo["client"]]]]
        /\ early' = (early \/ no # {})
  BY DEF Call
<1>2. ~early /\ no = {} /\ ~met
  BY <1>1 DEF Call, TypeOK
<1>3. PICK c \in Nat, e \in Nat : OnCourse(c, e)
  BY <1>2 DEF WillMeet
<1>4. phase["client"] = "pausing" /\ left["client"] = 0 /\ left["node"] = 0 /\ UNCHANGED left
  BY <1>2 DEF Call, WillMeet
<1>5. Waits(e)
  BY <1>3, <1>4 DEF OnCourse, Dials, Calling
<1>6. /\ phase' = [phase EXCEPT !["client"] = "calling"]
      /\ round' = [round EXCEPT !["client"] = @ + 1]
  BY DEF Call
<1>7. /\ phase'["client"] = "calling" /\ round'["client"] = 1
      /\ phase'["node"] = phase["node"] /\ round'["node"] = round["node"]
      /\ round["node"] \in Nat /\ round["node"] <= Tries["node"]
  <2>1. /\ phase \in [Sides -> {"pausing", "calling", "connected", "gave up"}]
        /\ round \in [Sides -> Nat] /\ round["node"] <= Tries["node"]
    BY FitFacts DEF TypeOK
  <2>2. round["client"] = 0
    BY <1>5 DEF Waits
  <2>3. phase'["client"] = "calling" /\ phase'["node"] = phase["node"]
    BY <1>6, <2>1, FitFacts
  <2>4. round'["client"] = round["client"] + 1 /\ round'["node"] = round["node"]
    BY <1>6, <2>1, FitFacts
  <2>5. round'["client"] = 1
    BY <2>2, <2>4
  <2>6. round["node"] \in Nat
    BY <2>1, FitFacts
  <2> QED
    BY <2>1, <2>3, <2>4, <2>5, <2>6
<1>8. /\ cell'["node"] = cell["node"]
      /\ \A a \in Attempts : cell'["client"][a] = [at |-> "dialling", left |-> Tmo["client"]]
  <2>1. cell \in [Sides -> [Attempts -> Cell]]
    BY DEF TypeOK
  <2>2. \A a \in Attempts : a \notin no
    BY <1>2
  <2> QED
    BY <1>1, <2>1, <2>2, FitFacts
<1>9. InStep("client", 0)'
  BY <1>8, FitFacts DEF InStep
<1>10. Calling("node") => InStep("node", e) /\ InStep("node", e)'
  BY <1>3, <1>8 DEF OnCourse, InStep
<1>11. ~Dialling("node")
  BY FitFacts DEF Call
<1>12. phase["node"] = "pausing" => round["node"] < Tries["node"]
  <2> SUFFICES ASSUME phase["node"] = "pausing", round["node"] = Tries["node"] PROVE FALSE
    BY <1>7, FitFacts
  <2>1. 0 <= Before(round["node"])
    BY <1>4, <1>5 DEF Waits, ToLastCall, Calling
  <2> QED
    BY <1>7, <2>1, BeforeFacts
<1>13. ASSUME Calling("node"), ~Succeeds("node")
       PROVE  round["node"] < Tries["node"] /\ Tmo["node"] <= e
  <2>1. PICK a \in Attempts : TRUE
    BY FitFacts
  <2>2. cell["node"][a].at # "dialling" /\ cell["node"][a].at # "ok"
    BY <1>11, <1>13 DEF Dialling, Succeeds
  <2>3. Tmo["node"] <= e /\ Tmo["node"] > 0
    BY <1>10, <1>13, <2>2, StepFacts, FitFacts
  <2>4. 0 <= Before(round["node"]) + 2 * Tmo["node"] - e
    BY <1>4, <1>5, <1>13 DEF Waits, ToLastCall
  <2>5. round["node"] # Tries["node"]
    BY <1>7, <2>3, <2>4, BeforeFacts, FitFacts
  <2> QED
    BY <1>7, <2>3, <2>5, FitFacts
<1>14. Dials(0, e)'
  <2>1. phase["node"] = "pausing" \/ Calling("node")
    BY <1>5 DEF Waits, Calling
  <2>2. Succeeds("node") => Succeeds("node")'
    BY <1>8 DEF Succeeds
  <2> QED
    BY <1>7, <1>12, <1>13, <2>1, <2>2, FitFacts DEF Dials, Calling
<1>15. OnCourse(0, e)'
  BY <1>7, <1>9, <1>10, <1>14 DEF OnCourse, Calling
<1> QED
  BY <1>4, <1>15

\* A call of the node while the client dials would be where they meet.
LEMMA NodeCalls ==
  ASSUME TimesFit, TypeOK, WillMeet, Call("node"), ~early', ~met'
  PROVE  left'["node"] = 0 /\ \E c, e \in Nat : OnCourse(c, e)'
<1>1. PICK no \in SUBSET Refusable :
        /\ cell' = [cell EXCEPT !["node"] = [a \in Attempts |->
                     IF a \in no THEN [at |-> "refused", left |-> 0]
                                 ELSE [at |-> "dialling", left |-> Tmo["node"]]]]
        /\ early' = (early \/ no # {})
  BY DEF Call
<1>2. ~early /\ no = {} /\ ~met
  BY <1>1 DEF Call, TypeOK
<1>3. PICK c \in Nat, e \in Nat : OnCourse(c, e)
  BY <1>2 DEF WillMeet
<1>4. phase["node"] = "pausing" /\ round["node"] < Tries["node"] /\ left["node"] = 0
      /\ UNCHANGED left
  BY <1>2 DEF Call, WillMeet
<1>5. /\ phase' = [phase EXCEPT !["node"] = "calling"]
      /\ round' = [round EXCEPT !["node"] = @ + 1]
  BY DEF Call
<1>6. /\ phase'["node"] = "calling" /\ round'["node"] = round["node"] + 1
      /\ phase'["client"] = phase["client"] /\ round'["client"] = round["client"]
      /\ round["node"] \in Nat
  BY <1>5, FitFacts DEF TypeOK
<1>7. /\ cell'["client"] = cell["client"]
      /\ \A a \in Attempts : cell'["node"][a] = [at |-> "dialling", left |-> Tmo["node"]]
  BY <1>1, <1>2, FitFacts DEF TypeOK
<1>8. InStep("node", 0)'
  BY <1>7, FitFacts DEF InStep
<1>9. Calling("client") => InStep("client", c) /\ InStep("client", c)'
  BY <1>3, <1>7 DEF OnCourse, InStep
<1>10. ~Dialling("client")
  BY FitFacts DEF Call
<1>11. CASE Waits(e)
  <2>1. left["client"] <= Before(round["node"])
    BY <1>4, <1>11 DEF Waits, ToLastCall, Calling
  <2>2. left["client"] <= Before(round["node"] + 1) + 2 * Tmo["node"] - 0
    <3>1. Before(round["node"]) = Before(round["node"] + 1) + 2 * Tmo["node"]
      BY <1>4, <1>6, BeforeFacts, FitFacts
    <3>2. Before(round["node"] + 1) \in Int
      <4>1. round["node"] + 1 \in Nat /\ round["node"] + 1 <= Tries["node"]
        BY <1>4, <1>6, FitFacts
      <4> QED
        BY <4>1, BeforeFacts
    <3> QED
      BY <2>1, <3>1, <3>2, FitFacts
  <2>3. ToLastCall(0)' = Before(round["node"] + 1) + 2 * Tmo["node"] - 0
    BY <1>6 DEF ToLastCall, Calling, Before
  <2>4. Waits(0)'
    BY <1>4, <1>6, <1>11, <2>2, <2>3 DEF Waits
  <2> QED
    BY <1>4, <1>6, <1>8, <1>11, <2>4 DEF OnCourse, Calling, Waits
<1>12. CASE Dials(c, e)
  <2>1. Calling("client") /\ InStep("client", c)
    BY <1>9, <1>12 DEF Dials
  <2>2. Succeeds("client")
    <3> SUFFICES ASSUME ~Succeeds("client") PROVE FALSE
      OBVIOUS
    <3>1. PICK a \in Attempts : TRUE
      BY FitFacts
    <3>2. c <= Tmo["node"]
      BY <1>12 DEF Dials
    <3>3. cell["client"][a].at = "dialling"
      <4>1. cell["client"][a].at # "ok"
        BY DEF Succeeds
      <4>2. c < Tmo["client"]
        BY <3>2, FitFacts
      <4> QED
        BY <2>1, <4>1, <4>2, StepFacts, FitFacts
    <3> QED
      BY <1>10, <2>1, <3>3 DEF Dialling
  <2>3. Dials(c, 0)'
    BY <1>6, <1>7, <1>12, <2>2 DEF Dials, Succeeds, Calling
  <2> QED
    BY <1>4, <1>8, <1>9, <2>1, <2>3 DEF OnCourse
<1> QED
  BY <1>3, <1>11, <1>12 DEF OnCourse

\* Nobody gives up.
LEMMA NobodyGivesUp ==
  ASSUME TimesFit, TypeOK, WillMeet, NEW s \in Sides, GiveUp(s), ~early', ~met'
  PROVE  left'["node"] = 0 /\ \E c, e \in Nat : OnCourse(c, e)'
<1>1. ~early /\ ~met /\ UNCHANGED <<round, left, cell>>
      /\ phase' = [phase EXCEPT ![s] = "gave up"]
  BY DEF GiveUp
<1>2. PICK c \in Nat, e \in Nat : OnCourse(c, e)
  BY <1>1 DEF WillMeet
<1>3. phase[s] = "pausing" /\ round[s] = Tries[s] /\ left["client"] \in Nat /\ left["node"] = 0
  <2>1. left \in [Sides -> 0..MaxLag]
    BY DEF TypeOK
  <2>2. left["client"] \in Nat
    BY <2>1, FitFacts
  <2>3. phase[s] = "pausing" /\ round[s] = Tries[s]
    BY DEF GiveUp
  <2>4. left["node"] = 0
    BY <1>1 DEF WillMeet
  <2> QED
    BY <2>2, <2>3, <2>4
<1>4. s = "node"
  <2> SUFFICES ASSUME s = "client" PROVE FALSE
    BY FitFacts
  <2> QED
    BY <1>2, <1>3, FitFacts DEF OnCourse, Waits, Dials, Calling
<1>5. ~Waits(e)
  <2> SUFFICES ASSUME Waits(e) PROVE FALSE
    OBVIOUS
  <2>1. left["client"] <= Before(Tries["node"])
    BY <1>3, <1>4 DEF Waits, ToLastCall, Calling
  <2> QED
    BY <1>3, <2>1, BeforeFacts, FitFacts
<1>6. Dials(c, e) /\ Succeeds("client")
  BY <1>2, <1>3, <1>4, <1>5, FitFacts DEF OnCourse, Dials, Calling
<1>7. phase'["client"] = phase["client"] /\ phase'["node"] = "gave up"
  BY <1>1, <1>4, FitFacts DEF TypeOK
<1>8. Dials(c, e)'
  BY <1>1, <1>6, <1>7 DEF Dials, Succeeds, Calling
<1>9. OnCourse(c, e)'
  BY <1>1, <1>2, <1>7, <1>8 DEF OnCourse, InStep, Calling
<1> QED
  BY <1>1, <1>3, <1>9

\* One attempt's step moves it as the time says.
LEMMA AttemptSteps ==
  ASSUME TimesFit, TypeOK, WillMeet, NEW s \in Sides, NEW a \in Attempts,
         AttemptSucceeds(s, a) \/ AttemptFails(s, a) \/ AttemptWakes(s, a), ~early', ~met'
  PROVE  left'["node"] = 0 /\ \E c, e \in Nat : OnCourse(c, e)'
<1>1. PICK at, n : /\ Becomes(s, a, at, n)
                   /\ \/ cell[s][a].at = "dialling" /\ at = "ok"
                      \/ /\ cell[s][a].at = "dialling" /\ at = "sleeping"
                         /\ n = Tmo[s] /\ ~(cell[s][a].left > 0)
                      \/ /\ cell[s][a].at = "sleeping" /\ at = "failed"
                         /\ cell[s][a].left = 0
  BY DEF AttemptSucceeds, AttemptFails, AttemptWakes
<1>2. ~early /\ ~met /\ Calling(s)
  BY DEF AttemptSucceeds, AttemptFails, AttemptWakes, Becomes, TypeOK
<1>3. PICK c \in Nat, e \in Nat : OnCourse(c, e)
  BY <1>2 DEF WillMeet
<1>4. UNCHANGED <<phase, round, left, met>> /\ left["node"] = 0
  BY <1>1, <1>2, BecomesFacts DEF WillMeet
<1>5. /\ cell'[s][a].at = at /\ cell'[s][a].left = n
      /\ \A b \in Attempts \ {a} : cell'[s][b] = cell[s][b]
      /\ \A t \in Sides \ {s} : cell'[t] = cell[t]
  BY <1>1, BecomesCells
<1>6. ASSUME NEW t \in Sides, NEW x \in Nat, InStep(t, x) PROVE InStep(t, x)'
  <2>1. CASE t = s
    <3>1. \/ at = "ok" /\ x <= Tmo[t]
          \/ at = "sleeping" /\ n = 2 * Tmo[t] - x /\ Tmo[t] <= x
          \/ at = "failed" /\ x = 2 * Tmo[t]
      BY <1>1, <1>6, <2>1, StepFacts
    <3> QED
      BY <1>5, <1>6, <2>1, <3>1 DEF InStep
  <2>2. CASE t # s
    BY <1>5, <1>6, <2>2 DEF InStep
  <2> QED
    BY <2>1, <2>2
<1>7. ASSUME NEW t \in Sides, Succeeds(t) PROVE Succeeds(t)'
  <2>1. PICK b \in Attempts : cell[t][b].at = "ok"
    BY <1>7 DEF Succeeds
  <2>2. cell'[t][b] = cell[t][b]
    BY <1>1, <1>5, <2>1
  <2> QED
    BY <2>1, <2>2 DEF Succeeds
<1>8. Waits(e) => Waits(e)'
  BY <1>4 DEF Waits, ToLastCall, Calling, Before
<1>9. ASSUME Dials(c, e) PROVE Dials(c, e)'
  BY <1>4, <1>7, <1>9, FitFacts DEF Dials, Calling
<1>10. OnCourse(c, e)'
  BY <1>3, <1>4, <1>6, <1>8, <1>9, FitFacts DEF OnCourse, Calling
<1> QED
  BY <1>4, <1>10

\* A call that ends without an answer is two timeouts long: the client's does not end
\* before they meet, and the node's next one comes in time.
LEMMA CallEnds ==
  ASSUME TimesFit, TypeOK, WillMeet, NEW s \in Sides, NEW a \in Attempts,
         CallFails(s, a), ~early', ~met'
  PROVE  left'["node"] = 0 /\ \E c, e \in Nat : OnCourse(c, e)'
<1>1. ~early /\ ~met /\ Calling(s) /\ cell[s][a].at \in {"failed", "refused"}
  BY DEF CallFails, CallReturns, Failed
<1>2. PICK c \in Nat, e \in Nat : OnCourse(c, e)
  BY <1>1 DEF WillMeet
<1>3. UNCHANGED <<round, left>> /\ left["node"] = 0
      /\ phase' = [phase EXCEPT ![s] = "pausing"]
  BY <1>1 DEF CallFails, CallReturns, WillMeet
<1>4. \A t \in Sides \ {s} : cell'[t] = cell[t] /\ phase'[t] = phase[t]
  BY <1>3 DEF CallFails, CallReturns, TypeOK
<1>5. phase'[s] = "pausing"
  BY <1>3 DEF TypeOK
<1>6. s = "node"
  <2> SUFFICES ASSUME s = "client" PROVE FALSE
    BY FitFacts
  <2>1. InStep("client", c) /\ Dials(c, e)
    BY <1>1, <1>2 DEF OnCourse, Waits, Calling
  <2>2. c = 2 * Tmo["client"]
    BY <1>1, <2>1, StepFacts
  <2>3. ASSUME NEW b \in Attempts, cell["client"][b].at = "ok" PROVE FALSE
    BY <2>1, <2>2, <2>3, StepFacts, FitFacts
  <2>4. c <= Tmo["node"]
    BY <2>1, <2>3 DEF Dials, Succeeds
  <2> QED
    BY <2>2, <2>4, FitFacts
<1>7. Calling("node") /\ InStep("node", e)
  BY <1>1, <1>2, <1>6 DEF OnCourse
<1>8. e = 2 * Tmo["node"]
  BY <1>1, <1>6, <1>7, StepFacts
<1>9. ~Succeeds("node")
  <2> SUFFICES ASSUME NEW b \in Attempts, cell["node"][b].at = "ok" PROVE FALSE
    BY DEF Succeeds
  <2> QED
    BY <1>7, <1>8, StepFacts, FitFacts
<1>10. phase'["client"] = phase["client"] /\ cell'["client"] = cell["client"]
  BY <1>4, <1>6, FitFacts
<1>11. ASSUME Waits(e) PROVE Waits(0)'
  <2>1. round["node"] \in Nat /\ round["node"] <= Tries["node"]
    BY FitFacts DEF TypeOK
  <2>2. left["client"] <= Before(round["node"]) + 2 * Tmo["node"] - e
    BY <1>7, <1>11 DEF Waits, ToLastCall
  <2>3. left["client"] <= Before(round["node"])
    BY <1>8, <2>1, <2>2, BeforeFacts, FitFacts
  <2>4. ToLastCall(0)' = Before(round["node"])
    BY <1>3, <1>5, <1>6 DEF ToLastCall, Calling, Before
  <2> QED
    BY <1>3, <1>5, <1>6, <1>10, <1>11, <2>3, <2>4 DEF Waits
<1>12. ASSUME Dials(c, e) PROVE Dials(c, 0)'
  <2>1. Succeeds("client") => Succeeds("client")'
    BY <1>10 DEF Succeeds
  <2>2. Succeeds("client") \/ (c <= Tmo["node"] /\ round["node"] < Tries["node"])
    BY <1>7, <1>9, <1>12 DEF Dials, Calling
  <2> QED
    BY <1>3, <1>5, <1>6, <1>10, <1>12, <2>1, <2>2 DEF Dials, Calling
<1>13. Calling("client")' => InStep("client", c)'
  BY <1>2, <1>10 DEF OnCourse, InStep, Calling
<1>14. OnCourse(c, 0)'
  BY <1>2, <1>5, <1>6, <1>11, <1>12, <1>13 DEF OnCourse, Calling
<1> QED
  BY <1>3, <1>14

\* A tick: neither has an answer, and the two calls grow older alike.
LEMMA TimePasses ==
  ASSUME TimesFit, TypeOK, WillMeet, Tick, ~early', ~met'
  PROVE  left'["node"] = 0 /\ \E c, e \in Nat : OnCourse(c, e)'
<1>1. ~early /\ ~met /\ UNCHANGED <<phase, round>> /\ \A s \in Sides : ~Due(s)
  BY DEF Tick
<1>2. PICK c \in Nat, e \in Nat : OnCourse(c, e)
  BY <1>1 DEF WillMeet
<1>3. /\ left["node"] = 0 /\ left["client"] \in Nat
      /\ left' = [s \in Sides |-> Less(left[s])]
  <2>1. left \in [Sides -> 0..MaxLag]
    BY DEF TypeOK
  <2>2. left["client"] \in Nat
    BY <2>1, FitFacts
  <2> QED
    BY <1>1, <2>2 DEF WillMeet, Tick
<1>4. left'["node"] = 0 /\ left'["client"] = Less(left["client"])
  BY <1>3, FitFacts DEF Less
<1>5. \A s \in Sides, a \in Attempts :
        /\ cell'[s][a].at = cell[s][a].at
        /\ cell'[s][a].left = Less(cell[s][a].left)
  <2>1. \A s \in Sides, a \in Attempts : cell'[s][a] = [cell[s][a] EXCEPT !.left = Less(@)]
    BY DEF Tick
  <2> QED
    BY <2>1, CellTypes, LessCell
<1>6. ASSUME NEW s \in Sides, Calling(s), NEW a \in Attempts
      PROVE  /\ cell[s][a].at \notin {"ok", "failed", "refused"}
             /\ cell[s][a].at \in {"dialling", "sleeping"} => cell[s][a].left # 0
  BY <1>1, <1>6 DEF Due, Failed
<1>7. ASSUME NEW s \in Sides, Calling(s), NEW x \in Nat, InStep(s, x), NEW a \in Attempts
      PROVE  /\ \/ cell'[s][a].at = "dialling" /\ cell'[s][a].left = Tmo[s] - (x + 1)
                \/ /\ cell'[s][a].at = "sleeping" /\ cell'[s][a].left = 2 * Tmo[s] - (x + 1)
                   /\ Tmo[s] <= x + 1
             /\ Tmo[s] <= x => x < 2 * Tmo[s]
  <2>1. cell[s][a].at \in {"dialling", "sleeping"} /\ cell[s][a].left # 0
    BY <1>6, <1>7, StepFacts
  <2>2. cell[s][a].left \in Nat /\ cell'[s][a].left = cell[s][a].left - 1
    BY <1>5, <1>7, <2>1, StepFacts DEF Less
  <2>3. CASE cell[s][a].at = "dialling"
    BY <1>5, <1>7, <2>1, <2>2, <2>3, StepFacts
  <2>4. CASE cell[s][a].at = "sleeping"
    BY <1>5, <1>7, <2>1, <2>2, <2>4, StepFacts
  <2> QED
    BY <2>1, <2>3, <2>4
<1>8. ASSUME NEW s \in Sides, NEW x \in Nat, Calling(s) => InStep(s, x)
      PROVE  Calling(s)' => InStep(s, x + 1)'
  BY <1>1, <1>7, <1>8 DEF InStep, Calling
<1>9. \A s \in Sides : phase[s] = "pausing" => left[s] # 0
  BY <1>1 DEF Due
<1>10. \A s \in Sides : Calling(s) => ~Succeeds(s)
  BY <1>6 DEF Succeeds
<1>11. ASSUME Waits(e) PROVE Waits(e + 1)'
  <2>1. Calling("node")
    BY <1>3, <1>9, <1>11, FitFacts DEF Waits, Calling
  <2>2. left["client"] <= Before(round["node"]) + 2 * Tmo["node"] - e /\ left["client"] # 0
    BY <1>9, <1>11, <2>1, FitFacts DEF Waits, ToLastCall
  <2>3. Before(round["node"]) \in Int
    <3>1. round["node"] \in Nat /\ round["node"] <= Tries["node"]
      BY FitFacts DEF TypeOK
    <3> QED
      BY <3>1, BeforeFacts
  <2>4. left'["client"] <= Before(round["node"]) + 2 * Tmo["node"] - (e + 1)
    BY <1>3, <1>4, <2>2, <2>3, FitFacts DEF Less
  <2>5. ToLastCall(e + 1)' = Before(round["node"]) + 2 * Tmo["node"] - (e + 1)
    BY <1>1, <2>1 DEF ToLastCall, Calling, Before
  <2> QED
    BY <1>1, <1>11, <2>4, <2>5 DEF Waits
<1>12. ASSUME Dials(c, e) PROVE Dials(c + 1, e + 1)'
  <2>1. /\ Calling("client") /\ round["client"] = 1
        /\ Calling("node") /\ round["node"] < Tries["node"]
        /\ Tmo["node"] <= e /\ c <= e - Tmo["node"]
    BY <1>3, <1>9, <1>10, <1>12, FitFacts DEF Dials
  <2>2. e < 2 * Tmo["node"]
    <3>1. PICK a \in Attempts : TRUE
      BY FitFacts
    <3>2. InStep("node", e)
      BY <1>2, <2>1 DEF OnCourse
    <3> QED
      BY <1>7, <2>1, <3>1, <3>2, FitFacts
  <2>3. Tmo["node"] <= e + 1 /\ c + 1 <= (e + 1) - Tmo["node"] /\ c + 1 <= Tmo["node"]
    BY <2>1, <2>2, FitFacts
  <2> QED
    BY <1>1, <2>1, <2>3 DEF Dials, Calling
<1>13. OnCourse(c + 1, e + 1)'
  BY <1>2, <1>8, <1>11, <1>12, FitFacts DEF OnCourse
<1> QED
  BY <1>4, <1>13

\* For all timings that fit, and as long as nobody's attempt ends early, two loops meet.
THEOREM MetBeforeGivingUpCorrect == TimesFit => (Spec => []MetBeforeGivingUp)
<1> SUFFICES ASSUME TimesFit PROVE Spec => []MetBeforeGivingUp
  OBVIOUS
<1> DEFINE Meets == BothDial /\ WillMeet
<1>1. Init => Meets
  BY InitMeet
<1>2. IInv /\ Meets /\ [Next]_vars => Meets'
  <2> SUFFICES ASSUME TypeOK, Meets, [Next]_vars PROVE Meets'
    BY DEF IInv
  <2>1. BothDial'
    BY BothDialInv
  <2>2. WillMeet'
    <3> SUFFICES ASSUME ~early', ~met'
                 PROVE  left'["node"] = 0 /\ \E c, e \in Nat : OnCourse(c, e)'
      BY DEF WillMeet
    <3>1. ASSUME NEW s \in Sides, Call(s)
          PROVE  left'["node"] = 0 /\ \E c, e \in Nat : OnCourse(c, e)'
      BY <3>1, ClientCalls, NodeCalls, FitFacts
    <3>2. ASSUME NEW s \in Sides, NEW a \in Attempts, CallSucceeds(s, a) PROVE FALSE
      BY <3>2 DEF CallSucceeds
    <3>3. CASE UNCHANGED vars
      BY <3>3 DEF WillMeet, OnCourse, InStep, Waits, Dials, Calling, Succeeds, ToLastCall,
                  Before, vars
    <3> QED
      BY <3>1, <3>2, <3>3, NobodyGivesUp, AttemptSteps, CallEnds, TimePasses DEF Next, Done
  <2> QED
    BY <2>1, <2>2
<1>3. Meets => MetBeforeGivingUp
  BY DEF WillMeet, OnCourse, Waits, Dials, Calling, MetBeforeGivingUp
<1> QED
  BY <1>1, <1>2, <1>3, Invariant, PTL DEF Spec
==============================================================================
