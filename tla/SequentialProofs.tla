--------------------------- MODULE SequentialProofs ---------------------------
(***************************************************************************)
(* Proofs about the parts that run alone: the ports of SymmetricPorts, for *)
(* every observed port and every length up to PORT_LEN; the start of a     *)
(* device of Launch, for all lists a user may give; the headers of         *)
(* HeaderRewrite, of any length and with any lines; the texts of Labels,   *)
(* of any length and with any characters; and Sequential, which composes   *)
(* them and PemSplit.                                                      *)
(***************************************************************************)
EXTENDS Sequential, PemSplitProofs, FiniteSetTheorems

(***************************************************************************)
(* SymmetricPorts                                                          *)
(***************************************************************************)

\* Within u16 the wrap does nothing.
LEMMA WrapSmall == ASSUME NEW n \in Nat, n < 65536 PROVE Wrap16(n) = n
  BY SMT DEF Wrap16

\* The offset runs past the end of two of the five pools only.
LEMMA PastEndPools ==
  ASSUME NEW p \in Port, NEW k \in Nat, k < 1000, PastEnd(p, k)
  PROVE  \/ 16384 <= p /\ p < 32768 /\ 32767 - p < k /\ Rebase(p) = 16384
         \/ 49152 <= p /\ 65535 - p < k /\ Rebase(p) = 49152
  BY SMT DEF Port, PastEnd, PoolEnd, Rebase

\* An offset that stays within the pool stays within u16.
LEMMA WithinPool ==
  ASSUME NEW p \in Port, NEW k \in Nat, k < 1000, ~PastEnd(p, k)
  PROVE  p + k \in Port
  BY SMT DEF Port, PastEnd, PoolEnd

\* The arithmetic of one attempt never leaves u16, so that no attempt depends on
\* how the build treats overflow, and never gives port 0.
LEMMA CandidateExact ==
  ASSUME NEW p \in Port, NEW k \in Nat, k < 1000
  PROVE  /\ Candidate(p, k) = IF PastEnd(p, k) THEN p - Rebase(p) + k ELSE p + k
         /\ Candidate(p, k) \in Port
<1>1. CASE PastEnd(p, k)
  <2>1. /\ p - Rebase(p) \in Nat /\ p - Rebase(p) < 65536
        /\ p - Rebase(p) + k \in Port
    BY <1>1, PastEndPools, SMT DEF Port
  <2>2. p - Rebase(p) + k \in Nat /\ p - Rebase(p) + k < 65536
    BY <2>1, SMT DEF Port
  <2>3. Wrap16(p - Rebase(p)) = p - Rebase(p)
    BY <2>1, WrapSmall, SMT
  <2>4. Wrap16(p - Rebase(p) + k) = p - Rebase(p) + k
    BY <2>2, WrapSmall, SMT
  <2> QED
    BY <1>1, <2>1, <2>3, <2>4, SMT DEF Candidate
<1>2. CASE ~PastEnd(p, k)
  <2>1. p + k \in Port
    BY <1>2, WithinPool, SMT
  <2>2. Wrap16(p + k) = p + k
    BY <2>1, WrapSmall, SMT DEF Port
  <2> QED
    BY <1>2, <2>1, <2>2, SMT DEF Candidate
<1> QED
  BY <1>1, <1>2

\* Going back takes away more ports than the loop can add, so candidates after
\* the end of the pool and before it never meet.
LEMMA CandidateInjective ==
  ASSUME NEW p \in Port, NEW j \in Nat, NEW k \in Nat, j < k, k < 1000
  PROVE  Candidate(p, j) # Candidate(p, k)
<1>1. /\ Candidate(p, j) = IF PastEnd(p, j) THEN p - Rebase(p) + j ELSE p + j
      /\ Candidate(p, k) = IF PastEnd(p, k) THEN p - Rebase(p) + k ELSE p + k
  BY CandidateExact, SMT
<1>2. PastEnd(p, k) => Rebase(p) \in {16384, 49152}
  BY PastEndPools, SMT
<1>3. PastEnd(p, j) => PastEnd(p, k)
  BY SMT DEF Port, PastEnd, PoolEnd
<1>4. CASE PastEnd(p, k)
  BY <1>1, <1>2, <1>4, SMT DEF Port
<1>5. CASE ~PastEnd(p, k)
  BY <1>1, <1>3, <1>5, SMT DEF Port
<1> QED
  BY <1>4, <1>5

------------------------------------------------------------------------------

\* The first attempt, and every other.
LEMMA PortsInit == Init => TypeOK
  BY PortsAssumption, SMT DEF Init, TypeOK

LEMMA PortsStep == TypeOK /\ [Next]_vars => TypeOK'
  BY PortsAssumption, SMT DEF TypeOK, Next, Push, SelectAll, vars

\* The loop counter and the observed port keep their types.
THEOREM TypeCorrect == Spec => []TypeOK
  BY PortsInit, PortsStep, PTL DEF Spec

\* No two attempts of symmetric_connect are at the same port, whatever the port
\* the server observed.
THEOREM DistinctCorrect == Spec => []PortsDistinct
<1>1. TypeOK => PortsDistinct
  BY PortsAssumption, CandidateInjective, SMT DEF TypeOK, PortsDistinct
<1> QED
  BY <1>1, TypeCorrect, PTL

\* No attempt is at port 0, and none overflows.
THEOREM DialableCorrect == Spec => []PortsDialable
<1>1. ASSUME TypeOK, i < PortLen
      PROVE  /\ Candidate(port, i) = IF PastEnd(port, i) THEN port - Rebase(port) + i
                                     ELSE port + i
             /\ Candidate(port, i) \in Port
  <2>1. i \in Nat /\ i < 1000 /\ port \in Port
    BY <1>1, PortsAssumption, SMT DEF TypeOK
  <2> QED
    BY <2>1, CandidateExact
<1>2. TypeOK => PortsDialable
  BY <1>1 DEF PortsDialable
<1> QED
  BY <1>2, TypeCorrect, PTL

(***************************************************************************)
(* Launch                                                                  *)
(***************************************************************************)

\* A text that is a list is one of those considered, and not the mark of an absent option.
LEMMA TextKinds ==
  ASSUME NEW t \in ProxyTexts \cup P2pTexts \cup {Absent, Unreadable, Garbage, NotUtf8}
  PROVE  /\ t \in ProxyTexts \cup P2pTexts => t # Absent /\ t # NotUtf8
         /\ t.kind = "list" => t \in ProxyTexts \cup P2pTexts
         /\ t = Empty => t.kind = "empty"
         /\ Absent.list = <<>> /\ Absent # NotUtf8
<1>1. \A u \in ProxyTexts \cup P2pTexts : u.kind \in {"empty", "garbage", "list"}
  BY LaunchAssumption DEF LaunchAssumption, Kinds
<1>2. /\ Absent.kind = "absent" /\ Absent.list = <<>> /\ Unreadable.kind = "unreadable"
      /\ NotUtf8.kind = "not utf-8" /\ Garbage.kind = "garbage" /\ Empty.kind = "empty"
  BY DEF Absent, Unreadable, NotUtf8, Garbage, Empty, Text
<1> QED
  BY <1>1, <1>2

\* One of five is the first.
LEMMA Least ==
  ASSUME NEW S, S \subseteq 1..5, S # {}
  PROVE  \E k \in S : \A j \in S : k <= j
<1>1. CASE 1 \in S
  BY <1>1
<1>2. CASE 1 \notin S /\ 2 \in S
  BY <1>2
<1>3. CASE 1 \notin S /\ 2 \notin S /\ 3 \in S
  BY <1>3
<1>4. CASE 1 \notin S /\ 2 \notin S /\ 3 \notin S /\ 4 \in S
  BY <1>4
<1>5. CASE 1 \notin S /\ 2 \notin S /\ 3 \notin S /\ 4 \notin S
  <2>1. \A k \in S : k = 5
    BY <1>5
  <2>2. 5 \in S
    BY <2>1
  <2> QED
    BY <2>1, <2>2
<1> QED
  BY <1>1, <1>2, <1>3, <1>4, <1>5

\* The first check that finds a fault decides.
LEMMA VerdictFacts ==
  ASSUME NEW p2p
  PROVE  /\ Verdict(p2p) = 0 => ProxyParses(call.proxy.text) /\ (p2p = Absent \/ P2pParses(p2p))
         /\ Verdict(p2p) \in {0} \cup -34..-30
         /\ Verdict(p2p) \in {-33, -34} => ProxyParses(call.proxy.text) /\ p2p # Absent
         /\ Verdict(p2p) \in {-31, -32} => ~ProxyParses(call.proxy.text)
<1> DEFINE found == {k \in DOMAIN Checks : Fault(Checks[k], p2p)}
           first == CHOOSE k \in found : \A j \in found : k <= j
<1>1. /\ DOMAIN Checks = 1..5
      /\ Checks[1] = -30 /\ Checks[2] = -31 /\ Checks[3] = -32 /\ Checks[4] = -33 /\ Checks[5] = -34
  BY DEF Checks, ProxyChecks, P2pChecks
<1>2. Fault(-33, p2p) <=> p2p = NotUtf8
  BY DEF Fault
<1>3. Fault(-32, p2p) <=> ~ProxyParses(call.proxy.text)
  BY DEF Fault
<1>4. Fault(-31, p2p) => ~ProxyParses(call.proxy.text)
  <2>1. Fault(-31, p2p) => call.proxy.text = Empty
    BY DEF Fault
  <2> QED
    BY <2>1 DEF ProxyParses, Empty, Text
<1>5. Fault(-34, p2p) <=> p2p # Absent /\ ~P2pParses(p2p)
  BY DEF Fault
<1>6. Absent # NotUtf8
  BY DEF Absent, NotUtf8, Text
<1>7. Verdict(p2p) = IF found = {} THEN 0 ELSE Checks[first]
  BY DEF Verdict
<1>8. CASE found = {}
  <2>1. \A k \in 1..5 : ~Fault(Checks[k], p2p)
    BY <1>1, <1>8
  <2>2. ~Fault(-32, p2p) /\ ~Fault(-34, p2p)
    BY <1>1, <2>1
  <2> QED
    BY <1>3, <1>5, <1>7, <1>8, <2>2
<1>9. CASE found # {}
  <2>1. found \subseteq 1..5
    BY <1>1
  <2>2. \E k \in found : \A j \in found : k <= j
    <3> HIDE DEF found
    <3> QED
      BY <1>9, <2>1, Least
  <2>3. first \in found /\ \A j \in found : first <= j
    BY <2>2
  <2>4. first \in 1..5 /\ Fault(Checks[first], p2p)
    BY <1>1, <2>3
  <2>5. first > 3 => ~Fault(-32, p2p)
    <3> SUFFICES ASSUME first > 3, Fault(-32, p2p) PROVE FALSE
      OBVIOUS
    <3>1. 3 \in found
      BY <1>1
    <3> HIDE DEF first, found
    <3> QED
      BY <2>3, <3>1, <2>4
  <2>6. Verdict(p2p) = Checks[first]
    BY <1>7, <1>9
  <2> HIDE DEF first, found
  <2>7. CASE first = 1
    BY <1>1, <2>6, <2>7
  <2>8. CASE first = 2
    BY <1>1, <1>4, <2>4, <2>6, <2>8
  <2>9. CASE first = 3
    BY <1>1, <1>3, <2>4, <2>6, <2>9
  <2>10. CASE first = 4
    BY <1>1, <1>2, <1>3, <1>6, <2>4, <2>5, <2>6, <2>10
  <2>11. CASE first = 5
    BY <1>1, <1>3, <1>5, <2>4, <2>5, <2>6, <2>11
  <2> QED
    BY <2>4, <2>7, <2>8, <2>9, <2>10, <2>11
<1> QED
  BY <1>8, <1>9

\* What is read of a p2p list is what was given, if it was an option or absent.
LEMMA ReadFacts ==
  ASSUME opts \in Options, NEW p2p \in ReadAs(P2pArg)
  PROVE  /\ p2p # Absent => P2pArg.text # Absent
         /\ opts.p2p # Absent => p2p = opts.p2p
         /\ p2p \in P2pTexts \cup {Absent, Garbage, NotUtf8}
<1>1. opts.p2p \in P2pTexts \cup {Absent}
      /\ opts.p2pFile \in P2pTexts \cup {Absent, Unreadable}
  BY DEF Options
<1>2. CASE opts.p2p # Absent
  <2>1. P2pArg.text = opts.p2p /\ P2pArg.ended = TRUE
    BY <1>2 DEF P2pArg, CString
  <2>2. p2p = opts.p2p
    BY <2>1 DEF ReadAs
  <2> QED
    BY <1>1, <1>2, <2>1, <2>2
<1>3. CASE opts.p2p = Absent /\ opts.p2pFile \in {Absent, Unreadable}
  <2>1. P2pArg.text = Absent /\ P2pArg.ended = TRUE
    BY <1>3 DEF P2pArg, CString
  <2>2. p2p = Absent
    BY <2>1 DEF ReadAs
  <2> QED
    BY <1>3, <2>2
<1>4. CASE opts.p2p = Absent /\ opts.p2pFile \notin {Absent, Unreadable}
  <2>1. P2pArg.text = opts.p2pFile
    BY <1>4 DEF P2pArg, CString
  <2>2. p2p \in {opts.p2pFile, Garbage, NotUtf8}
    BY <2>1 DEF ReadAs
  <2> QED
    BY <1>1, <1>4, <2>1, <2>2
<1> QED
  BY <1>2, <1>3, <1>4

\* The lists that run were taken whole from what was read.
Given ==
    /\ ProxyParses(ProxyText) /\ run.proxy = ProxyText.list
    /\ \E p2p \in ReadAs(P2pArg) : (p2p = Absent \/ P2pParses(p2p)) /\ run.p2p = p2p.list

\* The inductive invariant.
LaunchInv ==
    /\ opts \in Options
    /\ launchStage \in {"demo", "library", "running", "returned", "crashed"}
    /\ code \in {0} \cup -37..-30 /\ (code # 0 <=> launchStage = "returned")
    /\ launchStage \in {"library", "running", "returned"} =>
           call = [host |-> opts.host, proxy |-> CString(ProxyText, TRUE), p2p |-> P2pArg]
    /\ launchStage = "running" => Given
    /\ launchStage # "running" => run = NoRun
    /\ code \in {-33, -34} => ProxyParses(ProxyText) /\ P2pArg.text # Absent
    /\ code \in {-31, -32} => ~ProxyParses(ProxyText)

\* Initially nothing has been called.
LEMMA LaunchInitInv == ASSUME LaunchInit PROVE LaunchInv
  BY DEF LaunchInit, LaunchInv

\* Every step of the demo and the library.
LEMMA LaunchStep == ASSUME LaunchInv, [LaunchNext]_launchVars PROVE LaunchInv'
<1>1. /\ opts \in Options /\ (code # 0 <=> launchStage = "returned")
      /\ code \in {0} \cup -37..-30
  BY DEF LaunchInv
<1>2. ASSUME launchStage = "library", NEW p2p \in ReadAs(call.p2p)
      PROVE  /\ call = [host |-> opts.host, proxy |-> CString(ProxyText, TRUE), p2p |-> P2pArg]
             /\ call.proxy.text = ProxyText /\ p2p \in ReadAs(P2pArg) /\ run = NoRun
             /\ code = 0
  BY <1>1, <1>2 DEF LaunchInv, CString
<1>3. ASSUME opts' = opts PROVE ProxyText' = ProxyText /\ P2pArg' = P2pArg
  BY <1>3 DEF ProxyText, P2pArg
<1>4. CASE DemoPanics
  BY <1>1, <1>4 DEF DemoPanics, LaunchInv
<1>5. CASE DemoCalls
  <2>1. call' = [host |-> opts.host, proxy |-> CString(ProxyText, TRUE), p2p |-> P2pArg]
        /\ UNCHANGED <<opts, code, run>> /\ launchStage = "demo" /\ launchStage' = "library"
    BY <1>5 DEF DemoCalls
  <2>2. code = 0
    BY <1>1, <2>1
  <2> QED
    BY <1>1, <1>3, <2>1, <2>2 DEF LaunchInv
<1>6. CASE LibraryReturns
  <2>1. PICK p2p \in ReadAs(call.p2p) : Verdict(p2p) # 0 /\ code' = Verdict(p2p)
    BY <1>6 DEF LibraryReturns
  <2>2. /\ UNCHANGED <<opts, call, run>> /\ launchStage = "library" /\ launchStage' = "returned"
    BY <1>6 DEF LibraryReturns
  <2>3. /\ code' \in {-33, -34} => ProxyParses(ProxyText) /\ P2pArg.text # Absent
        /\ code' \in {-31, -32} => ~ProxyParses(ProxyText)
        /\ code' \in -37..-30 /\ code' # 0
    <3>1. call.proxy.text = ProxyText /\ p2p \in ReadAs(P2pArg)
      BY <1>2, <2>1, <2>2
    <3>2. p2p # Absent => P2pArg.text # Absent
      BY <1>1, <3>1, ReadFacts
    <3>3. /\ Verdict(p2p) \in {0} \cup -34..-30
          /\ Verdict(p2p) \in {-33, -34} => ProxyParses(ProxyText) /\ p2p # Absent
          /\ Verdict(p2p) \in {-31, -32} => ~ProxyParses(ProxyText)
      BY <3>1, VerdictFacts
    <3> QED
      BY <2>1, <3>2, <3>3
  <2> QED
    BY <1>1, <1>2, <1>3, <2>1, <2>2, <2>3 DEF LaunchInv
<1>7. CASE RuntimeFails
  <2>1. /\ UNCHANGED <<opts, call, run>> /\ launchStage = "library" /\ launchStage' = "returned"
        /\ code' = -37 /\ \E p2p \in ReadAs(call.p2p) : TRUE
    BY <1>7 DEF RuntimeFails
  <2>2. PICK p2p \in ReadAs(call.p2p) : TRUE
    BY <2>1
  <2>3. call = [host |-> opts.host, proxy |-> CString(ProxyText, TRUE), p2p |-> P2pArg]
        /\ run = NoRun
    BY <1>2, <2>1, <2>2
  <2> QED
    BY <1>1, <1>3, <2>1, <2>3 DEF LaunchInv
<1>8. CASE LibraryRuns
  <2>1. PICK p2p \in ReadAs(call.p2p) :
          Verdict(p2p) = 0 /\ run' = [proxy |-> call.proxy.text.list, p2p |-> p2p.list]
    BY <1>8 DEF LibraryRuns
  <2>2. UNCHANGED <<opts, call, code>> /\ launchStage = "library" /\ launchStage' = "running"
    BY <1>8 DEF LibraryRuns
  <2>3. /\ p2p \in ReadAs(P2pArg) /\ ProxyParses(ProxyText) /\ (p2p = Absent \/ P2pParses(p2p))
        /\ run'.proxy = ProxyText.list /\ run'.p2p = p2p.list
    BY <1>2, <2>1, <2>2, VerdictFacts
  <2>4. Given'
    BY <1>3, <2>2, <2>3 DEF Given, ProxyParses, P2pParses, ReadAs
  <2> QED
    BY <1>1, <1>2, <1>3, <2>2, <2>4 DEF LaunchInv
<1>9. CASE LibraryCrashes
  BY <1>1, <1>9 DEF LibraryCrashes, LaunchInv
<1>10. CASE UNCHANGED launchVars
  BY <1>10 DEF launchVars, LaunchInv, Given, ProxyText, P2pArg
<1> QED
  BY <1>4, <1>5, <1>6, <1>7, <1>8, <1>9, <1>10 DEF LaunchNext

\* What the invariant says of the types.
LEMMA LaunchTypes == ASSUME LaunchInv PROVE LaunchTypeOK
<1>1. /\ opts \in Options
      /\ launchStage \in {"demo", "library", "running", "returned", "crashed"}
      /\ code \in {0} \cup -37..-30 /\ (code # 0 <=> launchStage = "returned")
  BY DEF LaunchInv
<1>2. CASE launchStage # "running"
  <2>1. run.proxy = <<>> /\ run.p2p = <<>>
    BY <1>2 DEF LaunchInv, NoRun
  <2> QED
    BY <1>1, <2>1 DEF LaunchTypeOK
<1>3. CASE launchStage = "running"
  <2>1. ProxyParses(ProxyText) /\ run.proxy = ProxyText.list
    BY <1>3 DEF LaunchInv, Given
  <2>2. PICK p2p \in ReadAs(P2pArg) : (p2p = Absent \/ P2pParses(p2p)) /\ run.p2p = p2p.list
    BY <1>3 DEF LaunchInv, Given
  <2>3. ProxyText \in ProxyTexts
    <3>1. ProxyText \in ProxyTexts \cup {Absent, Unreadable}
      BY <1>1 DEF ProxyText, Options
    <3>2. ProxyText.kind = "list"
      BY <2>1 DEF ProxyParses
    <3>3. Absent.kind # "list" /\ Unreadable.kind # "list"
      BY DEF Absent, Unreadable, Text
    <3> QED
      BY <3>1, <3>2, <3>3
  <2>4. p2p = Absent \/ p2p \in P2pTexts
    <3>1. p2p \in P2pTexts \cup {Absent, Garbage, NotUtf8}
      BY <1>1, ReadFacts
    <3>2. Garbage.kind # "list" /\ NotUtf8.kind # "list"
      BY DEF Garbage, NotUtf8, Text
    <3> QED
      BY <2>2, <3>1, <3>2 DEF P2pParses
  <2>5. Absent.list = <<>>
    BY DEF Absent, Text
  <2> QED
    BY <1>1, <2>1, <2>2, <2>3, <2>4, <2>5 DEF LaunchTypeOK
<1> QED
  BY <1>2, <1>3

\* A u16 is one.
LEMMA U16Small == ASSUME NEW v \in U16 PROVE v < 65536
  BY DEF U16

\* A list that parses has what is needed in each of its entries.
LEMMA ParsedEntries ==
  ASSUME NEW t
  PROVE  /\ ProxyParses(t) => \A k \in DOMAIN t.list : t.list[k].mac.legal /\ t.list[k].url.legal
         /\ P2pParses(t) => \A k \in DOMAIN t.list :
                                t.list[k].mac.legal /\ t.list[k].port.value < 65536
<1>1. ASSUME ProxyParses(t), NEW k \in DOMAIN t.list
      PROVE  t.list[k].mac.legal /\ t.list[k].url.legal
  BY <1>1 DEF ProxyParses, ProxyEntry
<1>2. ASSUME P2pParses(t), NEW k \in DOMAIN t.list
      PROVE  t.list[k].mac.legal /\ t.list[k].port.value < 65536
  <2> DEFINE e == t.list[k]
  <2>1. P2pEntry(e)
    BY <1>2 DEF P2pParses
  <2> HIDE DEF e
  <2>2. e.mac.legal /\ "port" \in DOMAIN e /\ e.port.type = "int"
    BY <2>1 DEF P2pEntry, Has
  <2>3. e["port"].type = "int" => e["port"].value \in U16
    BY <2>1, <2>2 DEF P2pEntry
  <2>4. e.port.value \in U16
    BY <2>2, <2>3
  <2> QED
    BY <2>2, <2>4, U16Small DEF e
<1> QED
  BY <1>1, <1>2

\* What runs is what was given.
LEMMA LaunchRuns == ASSUME LaunchInv PROVE RunsWhatWasGiven
<1> SUFFICES ASSUME launchStage = "running"
             PROVE  /\ run.proxy = (IF opts.proxy = Absent THEN opts.proxyFile ELSE opts.proxy).list
                    /\ opts.p2p # Absent => run.p2p = opts.p2p.list
                    /\ \A k \in DOMAIN run.proxy : run.proxy[k].mac.legal /\ run.proxy[k].url.legal
                    /\ \A k \in DOMAIN run.p2p :
                           run.p2p[k].mac.legal /\ run.p2p[k].port.value < 65536
  BY DEF RunsWhatWasGiven
<1>1. opts \in Options /\ ProxyParses(ProxyText) /\ run.proxy = ProxyText.list
  BY DEF LaunchInv, Given
<1>2. PICK p2p \in ReadAs(P2pArg) : (p2p = Absent \/ P2pParses(p2p)) /\ run.p2p = p2p.list
  BY DEF LaunchInv, Given
<1>3. opts.p2p # Absent => run.p2p = opts.p2p.list
  BY <1>1, <1>2, ReadFacts
<1>4. \A k \in DOMAIN run.proxy : run.proxy[k].mac.legal /\ run.proxy[k].url.legal
  BY <1>1, ParsedEntries
<1>5. \A k \in DOMAIN run.p2p : run.p2p[k].mac.legal /\ run.p2p[k].port.value < 65536
  <2>1. CASE p2p = Absent
    <3>1. run.p2p = <<>>
      BY <1>2, <2>1 DEF Absent, Text
    <3> QED
      BY <3>1
  <2>2. CASE P2pParses(p2p)
    BY <1>2, <2>2, ParsedEntries
  <2> QED
    BY <1>2, <2>1, <2>2
<1> QED
  BY <1>1, <1>3, <1>4, <1>5 DEF ProxyText

\* A code names the list it is about.
LEMMA LaunchCodes == ASSUME LaunchInv PROVE CodeNamesTheList
<1>1. launchStage = "running" /\ opts.p2p # Absent => P2pParses(opts.p2p)
  <2> SUFFICES ASSUME launchStage = "running", opts.p2p # Absent PROVE P2pParses(opts.p2p)
    OBVIOUS
  <2>1. opts \in Options
        /\ \E p2p \in ReadAs(P2pArg) : (p2p = Absent \/ P2pParses(p2p)) /\ run.p2p = p2p.list
    BY DEF LaunchInv, Given
  <2> QED
    BY <2>1, ReadFacts
<1> QED
  BY <1>1 DEF LaunchInv, CodeNamesTheList

\* The inductive invariant of Launch.
THEOREM LaunchInvariant == LaunchSpec => []LaunchInv
  BY LaunchInitInv, LaunchStep, PTL DEF LaunchSpec

\* The start of a device is in a state the code gives it, and the lists that run are lists
\* that were given.
THEOREM LaunchTypeCorrect == LaunchSpec => []LaunchTypeOK
  BY LaunchInvariant, LaunchTypes, PTL

\* Whatever the options, the files and the lists: what runs is all of what was given, and
\* every entry of it can be used.
THEOREM RunsWhatWasGivenCorrect == LaunchSpec => []RunsWhatWasGiven
  BY LaunchInvariant, LaunchRuns, PTL

\* Whatever the lists: a code names the list that is bad.
THEOREM CodeNamesTheListCorrect == LaunchSpec => []CodeNamesTheList
  BY LaunchInvariant, LaunchCodes, PTL

(***************************************************************************)
(* Places: which element of a sequence is where                            *)
(***************************************************************************)

\* The places up to the one that is meant.
UpTo(K, k) == {j \in K : j <= k}

\* An enumeration from the left: increasing, and it reaches every place.
Enumerates(f, m, K) ==
    /\ m \in Nat /\ f \in [1..m -> K]
    /\ \A a, b \in 1..m : a < b => f[a] < f[b]
    /\ \A k \in K : \E a \in 1..m : f[a] = k

\* Whatever enumerates the places says which is the n-th.
LEMMA NthExact ==
  ASSUME NEW K, K \subseteq Nat, NEW m, NEW f, Enumerates(f, m, K)
  PROVE  Cardinality(K) = m /\ \A n \in 1..m : Nth(K, n) = f[n]
<1>1. m \in Nat /\ f \in [1..m -> K] /\ (\A a, b \in 1..m : a < b => f[a] < f[b])
      /\ \A k \in K : \E a \in 1..m : f[a] = k
  BY DEF Enumerates
<1>0. m \in Nat /\ \A a \in 1..m : f[a] \in K /\ f[a] \in Nat /\ a \in Nat
  <2>1. m \in Nat
    BY <1>1
  <2>2. ASSUME NEW a \in 1..m PROVE f[a] \in K /\ a \in Nat
    BY <1>1, <2>1
  <2> QED
    BY <2>1, <2>2
<1>2. \A a, b \in 1..m : f[a] <= f[b] <=> a <= b
  <2> SUFFICES ASSUME NEW a \in 1..m, NEW b \in 1..m PROVE f[a] <= f[b] <=> a <= b
    OBVIOUS
  <2>1. f[a] \in Nat /\ f[b] \in Nat /\ a \in Nat /\ b \in Nat
    BY <1>0
  <2>2. (a < b => f[a] < f[b]) /\ (b < a => f[b] < f[a])
    BY <1>1
  <2> QED
    BY <2>1, <2>2
<1>3. \A a, b \in 1..m : f[a] = f[b] => a = b
  <2> SUFFICES ASSUME NEW a \in 1..m, NEW b \in 1..m, f[a] = f[b] PROVE a = b
    OBVIOUS
  <2>1. f[a] \in Nat /\ f[b] \in Nat /\ a \in Nat /\ b \in Nat
    BY <1>0
  <2>2. a <= b /\ b <= a
    BY <1>2, <2>1
  <2> QED
    BY <2>1, <2>2
<1>4. f \in Bijection(1..m, K)
  BY <1>1, <1>3 DEF Bijection, Injection, Surjection, IsInjective
<1>5. Cardinality(K) = m
  BY <1>1, <1>4, FS_CountingElements DEF ExistsBijection
<1>6. ASSUME NEW n \in 1..m PROVE Cardinality(UpTo(K, f[n])) = n
  <2> DEFINE g == [a \in 1..n |-> f[a]]
  <2>1. n \in Nat /\ 1..n \subseteq 1..m
    BY <1>0
  <2>2. \A a \in 1..n : f[a] \in UpTo(K, f[n])
    BY <1>1, <1>2, <2>1 DEF UpTo
  <2>3. \A k \in UpTo(K, f[n]) : \E a \in 1..n : f[a] = k
    <3> SUFFICES ASSUME NEW k \in UpTo(K, f[n]) PROVE \E a \in 1..n : f[a] = k
      OBVIOUS
    <3>1. k \in K /\ k <= f[n]
      BY DEF UpTo
    <3>2. PICK a \in 1..m : f[a] = k
      BY <1>1, <3>1
    <3>3. a <= n
      BY <1>2, <3>1, <3>2
    <3>4. a \in 1..n
      BY <2>1, <3>3
    <3> QED
      BY <3>2, <3>4
  <2>4. g \in Bijection(1..n, UpTo(K, f[n]))
    BY <1>3, <2>1, <2>2, <2>3 DEF Bijection, Injection, Surjection, IsInjective
  <2> HIDE DEF g
  <2> QED
    BY <2>1, <2>4, FS_CountingElements DEF ExistsBijection
<1>7. ASSUME NEW n \in 1..m PROVE Nth(K, n) = f[n]
  <2>1. f[n] \in K /\ Cardinality(UpTo(K, f[n])) = n
    BY <1>1, <1>6
  <2>2. ASSUME NEW k \in K, Cardinality(UpTo(K, k)) = n PROVE k = f[n]
    <3>1. PICK a \in 1..m : f[a] = k
      BY <1>1
    <3>2. Cardinality(UpTo(K, f[a])) = a
      BY <1>6
    <3> QED
      BY <2>2, <3>1, <3>2
  <2> QED
    BY <2>1, <2>2 DEF Nth, UpTo
<1> QED
  BY <1>5, <1>7

\* Nth enumerates any places up to a bound.
LEMMA NthEnumerates ==
  ASSUME NEW c \in Nat, NEW K, K \subseteq 1..c
  PROVE  IsFiniteSet(K) /\ Enumerates([n \in 1..Cardinality(K) |-> Nth(K, n)], Cardinality(K), K)
<1>1. IsFiniteSet(1..c)
  BY FS_Interval
<1>2. IsFiniteSet(K)
  BY <1>1, FS_Subset
<1>3. Cardinality(K) \in Nat
  BY <1>2, FS_CardinalityType
<1> DEFINE m == Cardinality(K)
           rank == [k \in K |-> Cardinality(UpTo(K, k))]
<1>4. ASSUME NEW k \in K PROVE IsFiniteSet(UpTo(K, k)) /\ rank[k] \in 1..m
  <2>1. UpTo(K, k) \in SUBSET K
    BY DEF UpTo
  <2>2. IsFiniteSet(UpTo(K, k)) /\ Cardinality(UpTo(K, k)) <= m
    BY <1>2, <2>1, FS_Subset
  <2>3. Cardinality(UpTo(K, k)) \in Nat
    BY <2>2, FS_CardinalityType
  <2>4. k \in UpTo(K, k)
    BY DEF UpTo
  <2>5. Cardinality(UpTo(K, k)) # 0
    BY <2>2, <2>4, FS_EmptySet
  <2>6. rank[k] = Cardinality(UpTo(K, k))
    OBVIOUS
  <2> QED
    BY <1>3, <2>2, <2>3, <2>5, <2>6
<1>5. ASSUME NEW k \in K, NEW l \in K, k < l PROVE rank[k] < rank[l]
  <2>1. UpTo(K, k) \in SUBSET UpTo(K, l) /\ l \in UpTo(K, l) /\ l \notin UpTo(K, k)
    <3>1. k \in Nat /\ l \in Nat /\ \A j \in K : j \in Nat
      OBVIOUS
    <3>2. k < l
      BY <1>5
    <3>3. UpTo(K, k) \subseteq UpTo(K, l)
      <4> SUFFICES ASSUME NEW j \in UpTo(K, k) PROVE j \in UpTo(K, l)
        OBVIOUS
      <4>1. j \in K /\ j <= k
        BY DEF UpTo
      <4>2. j <= l
        BY <3>1, <3>2, <4>1
      <4> QED
        BY <4>1, <4>2 DEF UpTo
    <3>4. l \in UpTo(K, l) /\ l \notin UpTo(K, k)
      BY <3>1, <3>2 DEF UpTo
    <3> QED
      BY <3>3, <3>4
  <2>2. Cardinality(UpTo(K, k)) <= Cardinality(UpTo(K, l))
        /\ Cardinality(UpTo(K, k)) # Cardinality(UpTo(K, l))
    BY <1>4, <2>1, FS_Subset
  <2>3. rank[k] = Cardinality(UpTo(K, k)) /\ rank[l] = Cardinality(UpTo(K, l))
    OBVIOUS
  <2>4. rank[k] \in Nat /\ rank[l] \in Nat
    BY <1>4
  <2> QED
    BY <2>2, <2>3, <2>4
<1>6. \A k, l \in K : rank[k] = rank[l] => k = l
  <2> SUFFICES ASSUME NEW k \in K, NEW l \in K, rank[k] = rank[l] PROVE k = l
    OBVIOUS
  <2>1. ~(k < l) /\ ~(l < k)
    <3>1. rank[k] \in Nat /\ rank[l] \in Nat
      BY <1>4
    <3> QED
      BY <1>5, <3>1
  <2>2. k \in Nat /\ l \in Nat
    OBVIOUS
  <2> QED
    BY <2>1, <2>2
<1>7. rank \in [K -> 1..m]
  BY <1>4
<1>8. \A n \in 1..m : \E k \in K : rank[k] = n
  <2>1. rank \in Injection(K, 1..m)
    BY <1>6, <1>7 DEF Injection, IsInjective
  <2>2. IsFiniteSet(1..m) /\ Cardinality(1..m) = m
    <3>1. m \in Int /\ 1 \in Int
      BY <1>3
    <3> QED
      BY <1>3, <3>1, FS_Interval
  <2>3. rank \in Surjection(K, 1..m)
    BY <2>1, <2>2, FS_Injection
  <2> QED
    BY <2>3 DEF Surjection
<1>9. ASSUME NEW n \in 1..m PROVE Nth(K, n) \in K /\ rank[Nth(K, n)] = n
  <2>1. PICK k \in K : Cardinality({j \in K : j <= k}) = n
    BY <1>8 DEF UpTo
  <2>2. Nth(K, n) \in K /\ Cardinality({j \in K : j <= Nth(K, n)}) = n
    BY <2>1 DEF Nth
  <2> QED
    BY <2>2 DEF UpTo
<1> HIDE DEF rank
<1>10. ASSUME NEW a \in 1..m, NEW b \in 1..m, a < b PROVE Nth(K, a) < Nth(K, b)
  <2>1. SUFFICES ASSUME ~(Nth(K, a) < Nth(K, b)) PROVE FALSE
    OBVIOUS
  <2>2. Nth(K, a) \in Nat /\ Nth(K, b) \in Nat /\ Nth(K, a) \in K /\ Nth(K, b) \in K
    <3>1. Nth(K, a) \in K /\ Nth(K, b) \in K
      BY <1>9
    <3>2. \A k \in K : k \in Nat
      OBVIOUS
    <3> QED
      BY <3>1, <3>2
  <2>3. Nth(K, b) < Nth(K, a) \/ Nth(K, b) = Nth(K, a)
    BY <2>1, <2>2
  <2>4. rank[Nth(K, b)] <= rank[Nth(K, a)]
    <3>1. rank[Nth(K, b)] \in Nat /\ rank[Nth(K, a)] \in Nat
      BY <1>4, <2>2
    <3> QED
      BY <1>5, <2>2, <2>3, <3>1
  <2>5. rank[Nth(K, b)] = b /\ rank[Nth(K, a)] = a
    BY <1>9
  <2>6. a \in Nat /\ b \in Nat
    OBVIOUS
  <2> QED
    BY <1>10, <2>4, <2>5, <2>6
<1>11. ASSUME NEW k \in K PROVE \E a \in 1..m : Nth(K, a) = k
  <2>1. rank[k] \in 1..m
    BY <1>4
  <2>2. Nth(K, rank[k]) \in K /\ rank[Nth(K, rank[k])] = rank[k]
    BY <1>9, <2>1
  <2> QED
    BY <1>6, <2>1, <2>2
<1> DEFINE f == [n \in 1..m |-> Nth(K, n)]
<1>12. f \in [1..m -> K] /\ \A n \in 1..m : f[n] = Nth(K, n)
  <2>1. \A n \in 1..m : Nth(K, n) \in K
    <3> HIDE DEF m
    <3> QED
      BY <1>9
  <2> HIDE DEF m
  <2> QED
    BY <2>1
<1> HIDE DEF f
<1>13. Enumerates(f, m, K)
  BY <1>3, <1>10, <1>11, <1>12 DEF Enumerates
<1> QED
  BY <1>2, <1>13 DEF f

\* All places, and all from some place on.
LEMMA PickFrom ==
  ASSUME NEW s, NEW d \in Nat, NEW m \in Nat
  PROVE  /\ Cardinality((d + 1)..(d + m)) = m
         /\ PickAt(s, (d + 1)..(d + m)) = [n \in 1..m |-> s[d + n]]
<1> DEFINE f == [n \in 1..m |-> d + n]
           K == (d + 1)..(d + m)
<1>1. Enumerates(f, m, K)
  <2>1. f \in [1..m -> K]
    OBVIOUS
  <2>2. \A a, b \in 1..m : a < b => f[a] < f[b]
    OBVIOUS
  <2>3. ASSUME NEW k \in K PROVE \E a \in 1..m : f[a] = k
    <3>1. k - d \in 1..m /\ f[k - d] = k
      OBVIOUS
    <3> QED
      BY <3>1
  <2> QED
    BY <2>1, <2>2, <2>3 DEF Enumerates
<1>2. K \subseteq Nat
  OBVIOUS
<1>3. \A n \in 1..m : f[n] = d + n
  OBVIOUS
<1> HIDE DEF f, K
<1>4. Cardinality(K) = m /\ \A n \in 1..m : Nth(K, n) = f[n]
  BY <1>1, <1>2, NthExact
<1>5. PickAt(s, K) = [n \in 1..m |-> s[d + n]]
  BY <1>3, <1>4 DEF PickAt
<1> QED
  BY <1>4, <1>5 DEF K

(***************************************************************************)
(* HeaderRewrite                                                           *)
(***************************************************************************)

\* What stands in a line: texts (three of them by name, for the provers), and what
\* a first line has as method.
Words == STRING \cup {"Host", "Connection", "close"} \cup {f[1] : f \in FirstLines}

\* Those that are UTF-8.
Texts == Words \ Undecodable

\* A line is a text cut at its colons: there is a first part.
LineOf(S) == Seq(S) \ {<<>>}
HeaderLine == LineOf(Words)
TextLine == LineOf(Texts)

\* The lines of a header are a sequence.
HasLines(raw) == \E n \in Nat : DOMAIN raw.lines = 1..n /\ \A k \in 1..n : raw.lines[k] \in HeaderLine

\* A line of two words, cut.
LEMMA Joined == ASSUME NEW a, NEW b PROVE <<a>> \o <<b>> = <<a, b>>
<1> DEFINE S == {a, b}
<1>1. <<a>> \in Seq(S) /\ <<b>> \in Seq(S) /\ <<a, b>> \in Seq(S)
  OBVIOUS
<1>2. Len(<<a>>) = 1 /\ Len(<<b>>) = 1 /\ Len(<<a, b>>) = 2
  OBVIOUS
<1>3. <<a>> \o <<b>> \in Seq(S) /\ Len(<<a>> \o <<b>>) = 2
      /\ \A k \in 1..2 : (<<a>> \o <<b>>)[k] = <<a, b>>[k]
  BY <1>1, <1>2
<1> DEFINE l == <<a>> \o <<b>>
           t == <<a, b>>
<1>4. l \in Seq(S) /\ t \in Seq(S) /\ Len(l) = 2 /\ Len(t) = 2 /\ \A k \in 1..2 : l[k] = t[k]
  BY <1>1, <1>2, <1>3
<1> HIDE DEF l, t
<1>5. l = t
  BY <1>4
<1> QED
  BY <1>5 DEF l, t

\* A line is its name and its value.
LEMMA LineParts ==
  ASSUME NEW S, NEW l \in LineOf(S)
  PROVE  /\ Len(l) > 1 => Tail(l) \in LineOf(S) /\ <<l[1]>> \o Tail(l) = l
         /\ l[1] \in S /\ Len(l) \in Nat
<1>1. l \in Seq(S) /\ l # <<>> /\ Len(l) \in Nat /\ Len(l) > 0
  BY DEF LineOf
<1>2. l[1] \in S
  BY <1>1
<1>3. ASSUME Len(l) > 1 PROVE Tail(l) \in LineOf(S) /\ <<l[1]>> \o Tail(l) = l
  <2>1. Tail(l) \in Seq(S) /\ Len(Tail(l)) = Len(l) - 1
        /\ \A k \in 1..(Len(l) - 1) : Tail(l)[k] = l[k + 1]
    BY <1>1
  <2>2. <<l[1]>> \in Seq(S) /\ Len(<<l[1]>>) = 1 /\ <<l[1]>>[1] = l[1]
    BY <1>2
  <2>3. /\ <<l[1]>> \o Tail(l) \in Seq(S) /\ Len(<<l[1]>> \o Tail(l)) = Len(l)
        /\ \A k \in 1..Len(l) : (<<l[1]>> \o Tail(l))[k] = l[k]
    BY <1>1, <2>1, <2>2
  <2>4. <<l[1]>> \o Tail(l) = l
    BY <1>1, <2>3
  <2>5. Tail(l) # <<>>
    <3>1. PICK n \in Nat : n = Len(l)
      BY <1>1
    <3>2. n > 1 /\ n - 1 # 0
      BY <1>3, <3>1
    <3>3. Len(Tail(l)) # 0
      BY <2>1, <3>1, <3>2
    <3>4. \A t : Len(t) # 0 => t # <<>>
      OBVIOUS
    <3> QED
      BY <3>3, <3>4
  <2> QED
    BY <2>1, <2>4, <2>5 DEF LineOf
<1> QED
  BY <1>1, <1>2, <1>3

\* And a name with a value behind it is a line.
LEMMA LineMade ==
  ASSUME NEW S, NEW n \in S, NEW v \in LineOf(S)
  PROVE  /\ <<n>> \o v \in LineOf(S) /\ (<<n>> \o v)[1] = n /\ Len(<<n>> \o v) > 1
         /\ Tail(<<n>> \o v) = v
<1>1. <<n>> \in Seq(S) /\ Len(<<n>>) = 1 /\ <<n>>[1] = n
  OBVIOUS
<1>2. v \in Seq(S) /\ Len(v) \in Nat /\ Len(v) > 0
  BY DEF LineOf
<1>3. /\ <<n>> \o v \in Seq(S) /\ Len(<<n>> \o v) = 1 + Len(v) /\ (<<n>> \o v)[1] = n
      /\ \A k \in 1..Len(v) : (<<n>> \o v)[k + 1] = v[k]
  BY <1>1, <1>2
<1>4. /\ Tail(<<n>> \o v) \in Seq(S) /\ Len(Tail(<<n>> \o v)) = Len(v)
      /\ \A k \in 1..Len(v) : Tail(<<n>> \o v)[k] = v[k]
  BY <1>2, <1>3
<1>5. Tail(<<n>> \o v) = v
  BY <1>2, <1>4
<1>6. <<n>> \o v # <<>>
  BY <1>2, <1>3
<1> QED
  BY <1>2, <1>3, <1>5, <1>6 DEF LineOf

\* A line that is UTF-8 is of texts that are.
LEMMA TextLines ==
  ASSUME NEW l \in HeaderLine
  PROVE  Decodes(l) <=> l \in TextLine
<1>1. l \in Seq(Words) /\ l # <<>> /\ Len(l) \in Nat /\ DOMAIN l = 1..Len(l)
  BY DEF HeaderLine, LineOf
<1>2. \A k \in 1..Len(l) : l[k] \in Words
  BY <1>1
<1>3. ASSUME Decodes(l) PROVE l \in TextLine
  <2>1. \A k \in 1..Len(l) : l[k] \in Texts
    BY <1>1, <1>2, <1>3 DEF Decodes, Texts
  <2>2. l = [k \in 1..Len(l) |-> l[k]]
    BY <1>1
  <2>3. l \in [1..Len(l) -> Texts]
    BY <2>1, <2>2
  <2>4. l \in Seq(Texts)
    BY <1>1, <2>3
  <2> QED
    BY <1>1, <2>4 DEF TextLine, LineOf
<1>4. ASSUME l \in TextLine PROVE Decodes(l)
  <2>1. l \in Seq(Texts)
    BY <1>4 DEF TextLine, LineOf
  <2>2. \A k \in 1..Len(l) : l[k] \in Texts
    BY <2>1
  <2> QED
    BY <1>1, <2>2 DEF Decodes, Texts
<1> QED
  BY <1>3, <1>4

\* And is a line like every other.
LEMMA TextIsLine == TextLine \subseteq HeaderLine
<1>1. Seq(Texts) \subseteq Seq(Words)
  BY DEF Texts
<1> QED
  BY <1>1 DEF TextLine, HeaderLine, LineOf

\* Of some of the numbers up to n, one is the greatest.
LEMMA Greatest ==
  ASSUME NEW n \in Nat, NEW A, A \subseteq 1..n, A # {}
  PROVE  \E k \in A : \A j \in A : j <= k
<1> DEFINE From(k) == {m \in 1..n : k <= m}
           Ends == {From(k) : k \in A}
           R == StrictSubsetOrdering(1..n)
           F == FiniteSubsetsOf(1..n)
<1>1. IsFiniteSet(1..n)
  BY FS_Interval
<1>2. F = SUBSET (1..n)
  BY <1>1, FS_FiniteSubsetsOfFinite
<1>3. IsWellFoundedOn(R, F)
  BY FS_StrictSubsetOrderingWellFounded
<1>4. Ends \subseteq F /\ Ends # {}
  <2>1. \A k \in A : From(k) \in SUBSET (1..n)
    OBVIOUS
  <2>2. Ends \subseteq F
    <3> HIDE DEF F
    <3> QED
      BY <1>2, <2>1
  <2>3. PICK k : k \in A
    OBVIOUS
  <2>4. From(k) \in Ends
    BY <2>3
  <2> QED
    BY <2>2, <2>4
<1>5. PICK x \in Ends : \A y \in Ends : ~ (<<y, x>> \in R)
  <2> HIDE DEF Ends, R, F
  <2> QED
    BY <1>3, <1>4, WFMin
<1>6. PICK k \in A : x = From(k)
  BY <1>5
<1>7. ASSUME NEW j \in A PROVE j <= k
  <2>1. SUFFICES ASSUME k < j PROVE FALSE
    <3>1. j \in Int /\ k \in Int
      BY <1>6
    <3> QED
      BY <2>1, <3>1
  <2>2. From(j) \subseteq From(k) /\ k \in From(k) /\ k \notin From(j)
    BY <2>1, <1>6
  <2>3. <<From(j), From(k)>> \in R
    BY <2>2 DEF StrictSubsetOrdering
  <2> QED
    BY <1>5, <1>6, <2>3
<1> QED
  BY <1>6, <1>7

\* The last line of name n that has a value and is UTF-8.
IsLast(raw, n, k) == k \in At(raw, n) /\ \A j \in At(raw, n) : j <= k

\* The hash map of a header: names, each with a value.
IsMap(m) == IsFiniteSet(DOMAIN m) /\ DOMAIN m \subseteq Texts /\ \A n \in DOMAIN m : m[n] \in TextLine

\* Of the fields of one name the last is taken.
LEMMA LastFieldExact ==
  ASSUME NEW raw, HasLines(raw), NEW n, n # raw.first[1], At(raw, n) # {}
  PROVE  IsLast(raw, n, LastField(raw, n))
<1>1. PICK c \in Nat : DOMAIN raw.lines = 1..c
  BY DEF HasLines
<1>2. At(raw, n) \subseteq 1..c
  BY <1>1 DEF At
<1>3. PICK k \in At(raw, n) : \A j \in At(raw, n) : j <= k
  BY <1>2, Greatest
<1>4. \A j : j \in At(raw, n) <=> j \in Fields(raw) /\ raw.lines[j][1] = n
  BY DEF At, Fields
<1>5. k \in Fields(raw) /\ raw.lines[k][1] = n
      /\ \A j \in Fields(raw) : raw.lines[j][1] = n => j <= k
  BY <1>3, <1>4
<1>6. /\ LastField(raw, n) \in Fields(raw) /\ raw.lines[LastField(raw, n)][1] = n
      /\ \A j \in Fields(raw) : raw.lines[j][1] = n => j <= LastField(raw, n)
  BY <1>5 DEF LastField
<1> QED
  BY <1>4, <1>6 DEF IsLast

\* What parse makes of a header: an entry for every name with a value, which is that
\* of the last line, and one for the method.
LEMMA ParseFacts ==
  ASSUME NEW raw, HasLines(raw), raw.first[1] \in Texts, raw.first[2] \in TextLine
  PROVE  /\ Parse(raw) = [method |-> raw.first[1], uri |-> raw.first[2],
                          version |-> raw.first[3], map |-> Parse(raw).map]
         /\ IsMap(Parse(raw).map) /\ raw.first[1] \in DOMAIN Parse(raw).map
         /\ \A n : n # raw.first[1] => (n \in DOMAIN Parse(raw).map <=> At(raw, n) # {})
         /\ \A n \in DOMAIN Parse(raw).map : n # raw.first[1] =>
               \E k : IsLast(raw, n, k) /\ Parse(raw).map[n] = Tail(raw.lines[k])
<1> DEFINE names == {raw.lines[k][1] : k \in Fields(raw)}
           method == raw.first[1]
           m == [n \in names \cup {method} |->
                    IF n \in names THEN Tail(raw.lines[LastField(raw, n)]) ELSE raw.first[2]]
<1>1. Parse(raw) = [method |-> method, uri |-> raw.first[2], version |-> raw.first[3], map |-> m]
  BY DEF Parse, Value
<1>2. PICK c \in Nat : DOMAIN raw.lines = 1..c /\ \A k \in 1..c : raw.lines[k] \in HeaderLine
  BY DEF HasLines
<1>3. Fields(raw) \in SUBSET (1..c) /\ IsFiniteSet(1..c)
  <2>1. IsFiniteSet(1..c)
    BY FS_Interval
  <2> QED
    BY <1>2, <2>1 DEF Fields
<1>4. IsFiniteSet(Fields(raw))
  BY <1>3, FS_Subset
<1>5. IsFiniteSet(names)
  <2> DEFINE g == [k \in Fields(raw) |-> raw.lines[k][1]]
  <2>1. g \in Surjection(Fields(raw), names)
    BY DEF Surjection
  <2> QED
    BY <1>4, <2>1, FS_Surjection
<1>6. IsFiniteSet(names \cup {method})
  BY <1>5, FS_AddElement
<1>7. ASSUME NEW k \in Fields(raw)
      PROVE  raw.lines[k] \in TextLine /\ raw.lines[k][1] \in Texts
  <2>1. raw.lines[k] \in TextLine
    BY <1>2, TextLines DEF Fields
  <2> QED
    BY <2>1, LineParts DEF TextLine
<1>8. \A n : n \in names <=> n # method /\ At(raw, n) # {}
  BY DEF Fields, At
<1>9. ASSUME NEW n \in names
      PROVE  IsLast(raw, n, LastField(raw, n)) /\ m[n] = Tail(raw.lines[LastField(raw, n)])
             /\ m[n] \in TextLine
  <2>1. IsLast(raw, n, LastField(raw, n))
    BY <1>8, LastFieldExact
  <2>2. raw.lines[LastField(raw, n)] \in TextLine /\ Len(raw.lines[LastField(raw, n)]) > 1
    BY <2>1, <1>2, TextLines DEF IsLast, At
  <2>3. m[n] = Tail(raw.lines[LastField(raw, n)])
    OBVIOUS
  <2> QED
    BY <2>1, <2>2, <2>3, LineParts DEF TextLine
<1>10. m[method] = raw.first[2]
  <2>1. method \notin names
    BY <1>8
  <2> QED
    BY <2>1
<1>11. DOMAIN m = names \cup {method} /\ Parse(raw).map = m /\ names \subseteq Texts
  BY <1>1, <1>7
<1> HIDE DEF m, names
<1>12. IsMap(m)
  BY <1>6, <1>9, <1>10, <1>11 DEF IsMap
<1> QED
  BY <1>1, <1>8, <1>9, <1>11, <1>12

\* What a header is written as: every entry once, in some order.
LEMMA BytesFacts ==
  ASSUME NEW h, IsMap(h.map), NEW w \in Bytes(h)
  PROVE  /\ w.first = <<h.method, h.uri, h.version>> /\ HasLines(w)
         /\ \A k \in DOMAIN w.lines : Decodes(w.lines[k])
         /\ \A n \in DOMAIN h.map : OnlyLine(w, <<n>> \o h.map[n])
         /\ \A n : n \notin DOMAIN h.map => At(w, n) = {}
<1> DEFINE D == DOMAIN h.map
           c == Cardinality(D)
<1>1. PICK order \in SetToSeqs(D) :
         w = [first |-> <<h.method, h.uri, h.version>>,
              lines |-> [k \in DOMAIN order |-> <<order[k]>> \o h.map[order[k]]]]
  BY DEF Bytes
<1>2. IsFiniteSet(D) /\ D \subseteq Texts /\ \A n \in D : h.map[n] \in TextLine
  BY DEF IsMap
<1>3. c \in Nat
  BY <1>2, FS_CardinalityType
<1>4. order \in [1..c -> D] /\ \A a, b \in 1..c : a # b => order[a] # order[b]
  BY <1>1 DEF SetToSeqs
<1>5. \A n \in D : \E k \in 1..c : order[k] = n
  <2>1. order \in Injection(1..c, D)
    BY <1>4 DEF Injection, IsInjective
  <2>2. Cardinality(1..c) = c
    BY <1>3, FS_Interval
  <2>3. order \in Surjection(1..c, D)
    BY <1>2, <2>1, <2>2, FS_Injection
  <2> QED
    BY <2>3 DEF Surjection
<1> HIDE DEF c, D
<1>6. w.lines = [k \in 1..c |-> <<order[k]>> \o h.map[order[k]]]
  BY <1>1, <1>4
<1>7. ASSUME NEW k \in 1..c
      PROVE  /\ order[k] \in D /\ w.lines[k] = <<order[k]>> \o h.map[order[k]]
             /\ w.lines[k] \in HeaderLine /\ Decodes(w.lines[k])
             /\ w.lines[k][1] = order[k] /\ Len(w.lines[k]) > 1
  <2>1. order[k] \in D /\ order[k] \in Texts /\ h.map[order[k]] \in TextLine
    BY <1>2, <1>4
  <2>2. w.lines[k] = <<order[k]>> \o h.map[order[k]]
    BY <1>6
  <2>3. w.lines[k] \in TextLine /\ w.lines[k][1] = order[k] /\ Len(w.lines[k]) > 1
    BY <2>1, <2>2, LineMade DEF TextLine
  <2> QED
    BY <2>1, <2>2, <2>3, TextLines, TextIsLine
<1>8. DOMAIN w.lines = 1..c
  BY <1>6
<1>9. \A n : At(w, n) = {k \in 1..c : order[k] = n}
  BY <1>7, <1>8 DEF At
<1>10. ASSUME NEW n \in D PROVE OnlyLine(w, <<n>> \o h.map[n])
  <2>1. PICK k \in 1..c : order[k] = n
    BY <1>5
  <2>2. At(w, n) = {k}
    BY <1>4, <1>9, <2>1
  <2>3. w.lines[k] = <<n>> \o h.map[n] /\ w.lines[k][1] = n
    BY <1>7, <2>1
  <2> QED
    BY <1>8, <2>1, <2>2, <2>3 DEF OnlyLine
<1>11. ASSUME NEW n, n \notin D PROVE At(w, n) = {}
  <2>1. \A k \in 1..c : order[k] # n
    BY <1>7, <1>11
  <2> QED
    BY <1>9, <2>1
<1>12. HasLines(w)
  BY <1>3, <1>7, <1>8 DEF HasLines
<1>13. w.first = <<h.method, h.uri, h.version>>
  BY <1>1
<1> QED
  BY <1>7, <1>8, <1>10, <1>11, <1>12, <1>13 DEF D

\* How the header that the node peeks comes from what the browser wrote.
Seen(w) ==
    IF tool THEN Parses(received) /\ w \in Bytes(SetHost(Parse(received))) ELSE w = received

\* The inductive invariant: where the header is, and what it went through.
HeaderInv ==
    /\ received \in Raw /\ tool \in BOOLEAN
    /\ headerStage \in {"sent", "peeked", "parsed", "failed", "rewritten", "asis", "tunnel"}
    /\ headerStage = "sent" => tool /\ wire = received
    /\ headerStage \in {"peeked", "parsed", "asis", "tunnel"} => Seen(wire)
    /\ headerStage \in {"parsed", "asis", "tunnel"} => Parses(wire) /\ header = Parse(wire)
    /\ headerStage = "rewritten" =>
          \E w : /\ Seen(w) /\ Parses(w) /\ Absolute(w.first[2])
                 /\ header = Rewrite(Parse(w)) /\ wire \in Bytes(header)

\* The browser's header is one.
LEMMA ReceivedLines ==
  ASSUME received \in Raw
  PROVE  /\ HasLines(received)
         /\ Parses(received) => received.first[1] \in Texts /\ received.first[2] \in TextLine
<1>1. received.first \in FirstLines
  BY DEF Raw
<1>2. PICK n \in 0..MaxLines : received.lines \in [1..n -> Lines]
  BY DEF Raw
<1>3. n \in Nat
  BY <1>2, HeaderAssumption DEF HeaderAssumption
<1>4. \A k \in 1..n : received.lines[k] \in HeaderLine
  <2>1. \A k \in 1..n : received.lines[k] \in Seq(STRING) \ {<<>>}
    BY <1>2, HeaderAssumption DEF HeaderAssumption
  <2>2. Seq(STRING) \subseteq Seq(Words)
    BY DEF Words
  <2> QED
    BY <2>1, <2>2 DEF HeaderLine, LineOf
<1>5. DOMAIN received.lines = 1..n
  BY <1>2
<1>6. ASSUME Parses(received)
      PROVE  received.first[1] \in Texts /\ received.first[2] \in TextLine
  <2>1. /\ received.first[1] \notin Undecodable /\ Decodes(received.first[2])
        /\ received.first[2] # <<>>
    <3>1. PICK m \in Nat : m = Len(received.first) /\ DOMAIN received.first = 1..m
      BY <1>1, HeaderAssumption DEF HeaderAssumption
    <3>2. m > 2
      BY <1>6, <3>1 DEF Parses
    <3>3. 1 \in DOMAIN received.first \ {2}
      BY <3>1, <3>2
    <3> QED
      BY <1>6, <3>3 DEF Parses
  <2>2. received.first[1] \in Words
    BY <1>1 DEF Words
  <2>3. received.first[2] \in HeaderLine
    <3>1. received.first[2] \in Seq(STRING)
      BY <1>1, HeaderAssumption DEF HeaderAssumption
    <3>2. Seq(STRING) \subseteq Seq(Words)
      BY DEF Words
    <3> QED
      BY <2>1, <3>1, <3>2 DEF HeaderLine, LineOf
  <2> QED
    BY <2>1, <2>2, <2>3, TextLines DEF Texts
<1> QED
  BY <1>3, <1>4, <1>5, <1>6 DEF HasLines

\* A line that is the last of its name stands in OnlyLine as it is.
LEMMA LastWhole ==
  ASSUME NEW raw, HasLines(raw), NEW n, NEW k, IsLast(raw, n, k)
  PROVE  <<n>> \o Tail(raw.lines[k]) = raw.lines[k] /\ raw.lines[k][1] = n
         /\ raw.lines[k] \in TextLine /\ Len(raw.lines[k]) > 1 /\ At(raw, n) # {}
<1>1. PICK c \in Nat : DOMAIN raw.lines = 1..c /\ \A j \in 1..c : raw.lines[j] \in HeaderLine
  BY DEF HasLines
<1>2. k \in 1..c /\ raw.lines[k][1] = n /\ Len(raw.lines[k]) > 1 /\ Decodes(raw.lines[k])
  BY <1>1 DEF IsLast, At
<1>3. At(raw, n) # {}
  BY DEF IsLast
<1>4. raw.lines[k] \in TextLine
  BY <1>1, <1>2, TextLines
<1> QED
  BY <1>2, <1>3, <1>4, LineParts DEF TextLine

\* An only line is the last, and its position the only one.
LEMMA OnlyIsLast ==
  ASSUME NEW raw, HasLines(raw), NEW line, OnlyLine(raw, line), NEW k, IsLast(raw, line[1], k)
  PROVE  raw.lines[k] = line
  BY DEF OnlyLine, IsLast

\* What the tool puts into a header.
LEMMA DeviceLine == DeviceAddr \in TextLine /\ "Host" \in Texts
<1>1. DeviceAddr \in HeaderLine
  <2>1. Seq(STRING) \subseteq Seq(Words)
    BY DEF Words
  <2> QED
    BY <2>1, HeaderAssumption DEF HeaderAssumption, HeaderLine, LineOf
<1>2. DeviceAddr \in TextLine
  BY <1>1, HeaderAssumption, TextLines DEF HeaderAssumption
<1>3. "Host" \in Texts
  BY HeaderAssumption DEF HeaderAssumption, Words, Texts
<1> QED
  BY <1>2, <1>3

\* What the tool writes: the browser's lines, the device as Host, and the first line.
LEMMA ToolFacts ==
  ASSUME received \in Raw, Parses(received), NEW w \in Bytes(SetHost(Parse(received)))
  PROVE  /\ w.first = <<received.first[1], received.first[2], received.first[3]>>
         /\ HasLines(w)
         /\ OnlyLine(w, <<"Host">> \o DeviceAddr)
         /\ \A n : n \notin {received.first[1], "Host"} =>
               \/ At(received, n) = {} /\ At(w, n) = {}
               \/ \E k : IsLast(received, n, k) /\ OnlyLine(w, received.lines[k])
<1> DEFINE h == Parse(received)
           s == SetHost(h)
<1>1. HasLines(received) /\ received.first[1] \in Texts /\ received.first[2] \in TextLine
  BY ReceivedLines
<1>2. /\ h = [method |-> received.first[1], uri |-> received.first[2],
              version |-> received.first[3], map |-> h.map]
      /\ IsMap(h.map)
      /\ \A n : n # received.first[1] => (n \in DOMAIN h.map <=> At(received, n) # {})
      /\ \A n \in DOMAIN h.map : n # received.first[1] =>
            \E k : IsLast(received, n, k) /\ h.map[n] = Tail(received.lines[k])
  BY <1>1, ParseFacts
<1> HIDE DEF h
<1>3. /\ s.method = received.first[1] /\ s.uri = received.first[2] /\ s.version = received.first[3]
      /\ s.map = [n \in DOMAIN h.map \cup {"Host"} |-> IF n = "Host" THEN DeviceAddr ELSE h.map[n]]
  BY <1>2 DEF SetHost
<1>4. IsMap(s.map)
  <2>1. DeviceAddr \in TextLine
    BY DeviceLine
  <2>2. IsFiniteSet(DOMAIN h.map \cup {"Host"})
    BY <1>2, FS_AddElement DEF IsMap
  <2>3. "Host" \in Texts
    BY DeviceLine
  <2> QED
    BY <1>2, <1>3, <2>1, <2>2, <2>3 DEF IsMap
<1>5. w \in Bytes(s)
  BY DEF h
<1> HIDE DEF s
<1>6. /\ w.first = <<s.method, s.uri, s.version>> /\ HasLines(w)
      /\ \A n \in DOMAIN s.map : OnlyLine(w, <<n>> \o s.map[n])
      /\ \A n : n \notin DOMAIN s.map => At(w, n) = {}
  BY <1>4, <1>5, BytesFacts
<1>7. OnlyLine(w, <<"Host">> \o DeviceAddr)
  <2>1. "Host" \in DOMAIN s.map /\ s.map["Host"] = DeviceAddr
    BY <1>3
  <2>2. OnlyLine(w, <<"Host">> \o s.map["Host"])
    BY <1>6, <2>1
  <2> QED
    BY <2>1, <2>2
<1>8. ASSUME NEW n, n \notin {received.first[1], "Host"}
      PROVE  \/ At(received, n) = {} /\ At(w, n) = {}
             \/ \E k : IsLast(received, n, k) /\ OnlyLine(w, received.lines[k])
  <2>1. CASE n \notin DOMAIN h.map
    BY <1>2, <1>3, <1>6, <1>8, <2>1
  <2>2. CASE n \in DOMAIN h.map
    <3>1. PICK k : IsLast(received, n, k) /\ h.map[n] = Tail(received.lines[k])
      BY <1>2, <1>8, <2>2
    <3>2. n \in DOMAIN s.map /\ s.map[n] = h.map[n]
      BY <1>3, <1>8, <2>2
    <3>3. OnlyLine(w, <<n>> \o Tail(received.lines[k]))
      BY <1>6, <3>1, <3>2
    <3>4. <<n>> \o Tail(received.lines[k]) = received.lines[k]
      BY <1>1, <3>1, LastWhole
    <3> QED
      BY <3>1, <3>3, <3>4
  <2> QED
    BY <2>1, <2>2
<1> QED
  BY <1>3, <1>6, <1>7, <1>8

\* What the node makes of the header it peeks.
LEMMA NodeFacts ==
  ASSUME NEW w, HasLines(w), w.first[1] \in Texts, w.first[2] \in TextLine,
         NEW out \in Bytes(Rewrite(Parse(w)))
  PROVE  /\ out.first[1] = w.first[1] /\ out.first[3] = w.first[3]
         /\ \A k \in DOMAIN out.lines : Decodes(out.lines[k])
         /\ At(out, "Proxy-Connection") = {}
         /\ OnlyLine(out, <<"Connection", "close">>)
         /\ w.first[1] # "Connection" => At(out, w.first[1]) = {}
         /\ \A n : n \notin {"Proxy-Connection", "Connection", w.first[1]} =>
               \/ At(w, n) = {} /\ At(out, n) = {}
               \/ \E k : IsLast(w, n, k) /\ OnlyLine(out, w.lines[k])
<1> DEFINE h == Parse(w)
           r == Rewrite(h)
<1>2. /\ h = [method |-> w.first[1], uri |-> w.first[2], version |-> w.first[3], map |-> h.map]
      /\ IsMap(h.map)
      /\ \A n : n # w.first[1] => (n \in DOMAIN h.map <=> At(w, n) # {})
      /\ \A n \in DOMAIN h.map : n # w.first[1] =>
            \E k : IsLast(w, n, k) /\ h.map[n] = Tail(w.lines[k])
  BY ParseFacts
<1> HIDE DEF h
<1>3. /\ r.method = w.first[1] /\ r.version = w.first[3]
      /\ r.map = [n \in (DOMAIN h.map \ {"Proxy-Connection", w.first[1]}) \cup {"Connection"} |->
                     IF n = "Connection" THEN <<"close">> ELSE h.map[n]]
  BY <1>2 DEF Rewrite
<1>4. IsMap(r.map)
  <2>1. <<"close">> \in TextLine
    <3>1. "close" \in Texts
      BY HeaderAssumption DEF HeaderAssumption, Words, Texts
    <3>2. <<"close">> \in Seq(Texts) /\ <<"close">> # <<>>
      BY <3>1
    <3> QED
      BY <3>2 DEF TextLine, LineOf
  <2>2. IsFiniteSet((DOMAIN h.map \ {"Proxy-Connection", w.first[1]}) \cup {"Connection"})
    <3>1. IsFiniteSet(DOMAIN h.map \ {"Proxy-Connection", w.first[1]})
      BY <1>2, FS_Difference DEF IsMap
    <3> QED
      BY <3>1, FS_AddElement
  <2>3. "Connection" \in Texts
    BY HeaderAssumption DEF HeaderAssumption, Words, Texts
  <2>4. DOMAIN r.map = (DOMAIN h.map \ {"Proxy-Connection", w.first[1]}) \cup {"Connection"}
    BY <1>3
  <2>5. \A n \in DOMAIN r.map : r.map[n] \in TextLine
    BY <1>2, <1>3, <2>1 DEF IsMap
  <2>6. DOMAIN r.map \subseteq Texts
    BY <1>2, <2>3, <2>4 DEF IsMap
  <2> QED
    BY <2>2, <2>4, <2>5, <2>6 DEF IsMap
<1>5. out \in Bytes(r)
  BY DEF h
<1> HIDE DEF r
<1>6. /\ out.first = <<r.method, r.uri, r.version>> /\ HasLines(out)
      /\ \A k \in DOMAIN out.lines : Decodes(out.lines[k])
      /\ \A n \in DOMAIN r.map : OnlyLine(out, <<n>> \o r.map[n])
      /\ \A n : n \notin DOMAIN r.map => At(out, n) = {}
  BY <1>4, <1>5, BytesFacts
<1>7. out.first[1] = w.first[1] /\ out.first[3] = w.first[3]
  BY <1>3, <1>6
<1>8. OnlyLine(out, <<"Connection", "close">>)
  <2>1. "Connection" \in DOMAIN r.map /\ r.map["Connection"] = <<"close">>
    BY <1>3
  <2>2. OnlyLine(out, <<"Connection">> \o r.map["Connection"])
    BY <1>6, <2>1
  <2>3. <<"Connection">> \o <<"close">> = <<"Connection", "close">>
    BY Joined
  <2> QED
    BY <2>1, <2>2, <2>3
<1>9. At(out, "Proxy-Connection") = {}
      /\ (w.first[1] # "Connection" => At(out, w.first[1]) = {})
  BY <1>3, <1>6
<1>10. ASSUME NEW n, n \notin {"Proxy-Connection", "Connection", w.first[1]}
       PROVE  \/ At(w, n) = {} /\ At(out, n) = {}
              \/ \E k : IsLast(w, n, k) /\ OnlyLine(out, w.lines[k])
  <2>1. CASE n \notin DOMAIN h.map
    BY <1>2, <1>3, <1>6, <1>10, <2>1
  <2>2. CASE n \in DOMAIN h.map
    <3>1. PICK k : IsLast(w, n, k) /\ h.map[n] = Tail(w.lines[k])
      BY <1>2, <1>10, <2>2
    <3>2. n \in DOMAIN r.map /\ r.map[n] = h.map[n]
      BY <1>3, <1>10, <2>2
    <3>3. OnlyLine(out, <<n>> \o Tail(w.lines[k]))
      BY <1>6, <3>1, <3>2
    <3>4. <<n>> \o Tail(w.lines[k]) = w.lines[k]
      BY <3>1, LastWhole
    <3> QED
      BY <3>1, <3>3, <3>4
  <2> QED
    BY <2>1, <2>2
<1> QED
  BY <1>6, <1>7, <1>8, <1>9, <1>10

\* Initially the header is as the browser wrote it.
LEMMA HeaderInitInv == ASSUME HeaderInit PROVE HeaderInv
<1>1. received \in Raw /\ tool \in BOOLEAN /\ wire = received
      /\ headerStage = IF tool THEN "sent" ELSE "peeked"
  BY DEF HeaderInit
<1>2. CASE tool
  BY <1>1, <1>2 DEF HeaderInv
<1>3. CASE ~tool
  BY <1>1, <1>3 DEF HeaderInv, Seen
<1> QED
  BY <1>2, <1>3

\* Every step of the tool and the node.
LEMMA HeaderStep == ASSUME HeaderInv, [HeaderNext]_headerVars PROVE HeaderInv'
<1>1. received \in Raw /\ tool \in BOOLEAN
  BY DEF HeaderInv
<1>2. ASSUME UNCHANGED <<received, tool>> PROVE \A w : Seen(w)' <=> Seen(w)
  BY <1>2 DEF Seen
<1>3. CASE Translate
  <2>1. tool /\ wire = received /\ Parses(received) /\ wire' \in Bytes(SetHost(Parse(received)))
    BY <1>3 DEF Translate, HeaderInv
  <2>2. UNCHANGED <<received, tool>> /\ headerStage' = "peeked"
    BY <1>3 DEF Translate
  <2>3. Seen(wire)'
    BY <2>1, <2>2 DEF Seen
  <2> QED
    BY <1>1, <2>2, <2>3 DEF HeaderInv
<1>4. CASE ParseHeader
  <2>1. Seen(wire) /\ Parses(wire) /\ header' = Parse(wire)
        /\ UNCHANGED <<received, tool, wire>> /\ headerStage' = "parsed"
    BY <1>4 DEF ParseHeader, HeaderInv
  <2>2. Seen(wire)' /\ Parses(wire)' /\ header' = Parse(wire)'
    BY <2>1 DEF Seen
  <2> QED
    BY <1>1, <2>1, <2>2 DEF HeaderInv
<1>5. CASE ParseFails
  BY <1>1, <1>5 DEF ParseFails, HeaderInv
<1>6. CASE ForwardRewritten
  <2>1. /\ Seen(wire) /\ Parses(wire) /\ Absolute(Parse(wire).uri)
        /\ header' = Rewrite(Parse(wire)) /\ wire' \in Bytes(header')
        /\ UNCHANGED <<received, tool>> /\ headerStage' = "rewritten"
    BY <1>6 DEF ForwardRewritten, HeaderInv
  <2>2. PICK w : w = wire /\ Absolute(w.first[2])
    BY <2>1 DEF Parse
  <2>3. Seen(w)' /\ Parses(w) /\ header' = Rewrite(Parse(w)) /\ wire' \in Bytes(header')
    BY <1>2, <2>1, <2>2
  <2> QED
    BY <1>1, <2>1, <2>2, <2>3 DEF HeaderInv
<1>7. CASE UriFails
  BY <1>1, <1>7 DEF UriFails, HeaderInv
<1>8. CASE ForwardAsIs \/ OpenTunnel
  <2>1. Seen(wire) /\ Parses(wire) /\ header = Parse(wire)
        /\ UNCHANGED <<received, tool, header, wire>> /\ headerStage' \in {"asis", "tunnel"}
    BY <1>8 DEF ForwardAsIs, OpenTunnel, HeaderInv
  <2>2. Seen(wire)' /\ Parses(wire)' /\ header' = Parse(wire)'
    BY <2>1 DEF Seen
  <2> QED
    BY <1>1, <2>1, <2>2 DEF HeaderInv
<1>9. CASE UNCHANGED headerVars
  BY <1>9 DEF HeaderInv, headerVars, Seen
<1> QED
  BY <1>3, <1>4, <1>5, <1>6, <1>7, <1>8, <1>9 DEF HeaderNext

\* A header that parses is one of three words, and stays one.
LEMMA HeaderTypes == ASSUME HeaderInv PROVE HeaderTypeOK
<1>1. CASE headerStage \in {"parsed", "asis", "tunnel"}
  <2>1. Parses(wire) /\ header = Parse(wire)
    BY <1>1 DEF HeaderInv
  <2> QED
    BY <1>1, <2>1 DEF HeaderInv, HeaderTypeOK, Parses, Parse
<1>2. CASE headerStage = "rewritten"
  <2>1. PICK w : Parses(w) /\ header = Rewrite(Parse(w))
    BY <1>2 DEF HeaderInv
  <2>2. Parse(w).method = w.first[1] /\ Parse(w).version = w.first[3]
    BY DEF Parse
  <2>3. header.method = w.first[1] /\ header.version = w.first[3]
        /\ header.uri = NewUri(w.first[2])
    BY <2>1 DEF Rewrite, Parse
  <2>4. header.uri # <<>>
    BY <2>3 DEF NewUri
  <2> QED
    BY <1>2, <2>1, <2>3, <2>4 DEF HeaderInv, HeaderTypeOK, Parses
<1>3. CASE headerStage \in {"sent", "peeked", "failed"}
  BY <1>3 DEF HeaderInv, HeaderTypeOK
<1> QED
  BY <1>1, <1>2, <1>3 DEF HeaderInv

\* Rewriting what was seen gives the service the browser's request.
LEMMA HeaderService == ASSUME HeaderInv PROVE ServiceGetsRequest
<1> SUFFICES ASSUME headerStage = "rewritten"
             PROVE  ServiceGetsRequest
  BY DEF ServiceGetsRequest
<1> DEFINE method == received.first[1]
           own == {"Proxy-Connection", "Connection", method} \cup (IF tool THEN {"Host"} ELSE {})
<1>1. PICK w : Seen(w) /\ Parses(w) /\ header = Rewrite(Parse(w)) /\ wire \in Bytes(header)
  BY DEF HeaderInv
<1>2. received \in Raw
  BY DEF HeaderInv
<1>3. HasLines(received)
  BY <1>2, ReceivedLines
<1>4. tool =>
        /\ w.first = <<received.first[1], received.first[2], received.first[3]>>
        /\ HasLines(w)
        /\ OnlyLine(w, <<"Host">> \o DeviceAddr)
        /\ \A n : n \notin {received.first[1], "Host"} =>
               \/ At(received, n) = {} /\ At(w, n) = {}
               \/ \E k : IsLast(received, n, k) /\ OnlyLine(w, received.lines[k])
  <2> SUFFICES ASSUME tool PROVE Parses(received) /\ w \in Bytes(SetHost(Parse(received)))
    BY <1>2, ToolFacts
  <2> QED
    BY <1>1 DEF Seen
<1>5. ~tool => w = received
  BY <1>1 DEF Seen
<1>6. /\ w.first[1] = method /\ w.first[2] = received.first[2] /\ w.first[3] = received.first[3]
      /\ HasLines(w)
  <2>1. CASE tool
    <3>1. w.first = <<received.first[1], received.first[2], received.first[3]>> /\ HasLines(w)
      BY <1>4, <2>1
    <3> QED
      BY <3>1
  <2>2. CASE ~tool
    BY <1>3, <1>5, <2>2
  <2> QED
    BY <2>1, <2>2
<1>7. /\ wire.first[1] = method /\ wire.first[3] = received.first[3]
      /\ \A k \in DOMAIN wire.lines : Decodes(wire.lines[k])
      /\ At(wire, "Proxy-Connection") = {}
      /\ OnlyLine(wire, <<"Connection", "close">>)
      /\ method # "Connection" => At(wire, method) = {}
      /\ \A n : n \notin {"Proxy-Connection", "Connection", method} =>
            \/ At(w, n) = {} /\ At(wire, n) = {}
            \/ \E k : IsLast(w, n, k) /\ OnlyLine(wire, w.lines[k])
  <2>1. wire \in Bytes(Rewrite(Parse(w)))
    BY <1>1
  <2>2. w.first[1] \in Texts /\ w.first[2] \in TextLine
    <3>1. Parses(received)
      BY <1>1, <1>5 DEF Seen
    <3> QED
      BY <1>2, <1>6, <3>1, ReceivedLines
  <2> QED
    BY <1>6, <2>1, <2>2, NodeFacts
<1>8. ASSUME NEW line \in HeaderLine, OnlyLine(w, line), Len(line) > 1,
             line[1] \notin {"Proxy-Connection", "Connection", method}
      PROVE  OnlyLine(wire, line)
  <2>1. At(w, line[1]) # {}
    BY <1>8 DEF OnlyLine
  <2>2. PICK k : IsLast(w, line[1], k) /\ OnlyLine(wire, w.lines[k])
    BY <1>7, <1>8, <2>1
  <2>3. w.lines[k] = line
    BY <1>6, <1>8, <2>2, OnlyIsLast
  <2> QED
    BY <2>2, <2>3
<1>9. ASSUME tool, method # "Host" PROVE OnlyLine(wire, <<"Host">> \o DeviceAddr)
  <2>1. DeviceAddr \in TextLine /\ "Host" \in Texts
    BY DeviceLine
  <2>2. <<"Host">> \o DeviceAddr \in HeaderLine /\ (<<"Host">> \o DeviceAddr)[1] = "Host"
        /\ Len(<<"Host">> \o DeviceAddr) > 1
    <3>1. <<"Host">> \o DeviceAddr \in TextLine /\ (<<"Host">> \o DeviceAddr)[1] = "Host"
          /\ Len(<<"Host">> \o DeviceAddr) > 1
      BY <2>1, LineMade DEF TextLine
    <3> QED
      BY <3>1, TextIsLine
  <2>3. PICK line : line = <<"Host">> \o DeviceAddr
    OBVIOUS
  <2>4. line \in HeaderLine /\ OnlyLine(w, line) /\ Len(line) > 1
        /\ line[1] \notin {"Proxy-Connection", "Connection", method}
    BY <1>4, <1>9, <2>2, <2>3
  <2> QED
    BY <1>8, <2>3, <2>4
<1>10. ASSUME NEW n, n \notin own PROVE GetsLast(n)
  <2>1. n \notin {"Proxy-Connection", "Connection", method} /\ (tool => n # "Host")
    BY <1>10
  <2>2. CASE ~tool
    BY <1>5, <1>7, <2>1, <2>2 DEF GetsLast, IsLast
  <2>3. CASE tool /\ At(received, n) = {} /\ At(w, n) = {}
    <3>1. \A k : ~IsLast(w, n, k)
      BY <2>3 DEF IsLast
    <3> QED
      BY <1>7, <2>1, <2>3, <3>1 DEF GetsLast
  <2>4. CASE tool /\ \E k : IsLast(received, n, k) /\ OnlyLine(w, received.lines[k])
    <3>1. PICK k : IsLast(received, n, k) /\ OnlyLine(w, received.lines[k])
      BY <2>4
    <3>2. received.lines[k] \in HeaderLine /\ received.lines[k][1] = n /\ Len(received.lines[k]) > 1
      <4>1. k \in DOMAIN received.lines /\ received.lines[k][1] = n /\ Len(received.lines[k]) > 1
        BY <3>1 DEF IsLast, At
      <4>2. received.lines[k] \in HeaderLine
        BY <1>3, <4>1 DEF HasLines
      <4> QED
        BY <4>1, <4>2
    <3>3. OnlyLine(wire, received.lines[k])
      BY <1>8, <2>1, <3>1, <3>2
    <3> QED
      BY <3>1, <3>3 DEF GetsLast, IsLast
  <2> QED
    BY <1>4, <2>1, <2>2, <2>3, <2>4
<1> QED
  BY <1>7, <1>9, <1>10 DEF ServiceGetsRequest

\* What is left of a sequence from place a on.
LEMMA SuffixFacts ==
  ASSUME NEW s \in Seq(STRING), NEW a \in Nat, a >= 1, a <= Len(s) + 1
  PROVE  /\ SubSeq(s, a, Len(s)) \in Seq(STRING)
         /\ Len(SubSeq(s, a, Len(s))) = Len(s) + 1 - a
         /\ \A n \in 1..(Len(s) + 1 - a) : SubSeq(s, a, Len(s))[n] = s[a + n - 1]
<1>1. SubSeq(s, a, Len(s)) \in Seq(STRING)
  OBVIOUS
<1>2. Len(SubSeq(s, a, Len(s))) = Len(s) + 1 - a
  OBVIOUS
<1>3. ASSUME NEW n \in 1..(Len(s) + 1 - a) PROVE SubSeq(s, a, Len(s))[n] = s[a + n - 1]
  OBVIOUS
<1> QED
  BY <1>1, <1>2, <1>3

\* A Plain URI keeps what stands behind scheme, host and port.
LEMMA NewUriFacts ==
  ASSUME NEW uri \in Seq(STRING), Absolute(uri), Plain(uri)
  PROVE  NewUri(uri) = IF Path(uri) = <<>> THEN <<"/">> ELSE Path(uri)
<1> DEFINE L == IF HasPort(uri) THEN 3 ELSE 2
           t == SchemeAndHost(uri)
           c == Len(uri)
           OccursAt(j) == j + Len(t) - 1 <= Len(uri) /\ SubSeq(uri, j, j + Len(t) - 1) = t
           Within(k) == \E j \in 1..k : k < j + Len(t) /\ OccursAt(j)
           K == {k \in DOMAIN uri : ~Within(k)}
<1>1. c \in Nat /\ L \in Nat /\ 1 < L /\ L <= c /\ DOMAIN uri = 1..c
  <2>1. c \in Nat /\ c > 1 /\ DOMAIN uri = 1..c
    BY DEF Absolute
  <2>2. HasPort(uri) => c > 2
    BY DEF HasPort
  <2> QED
    BY <2>1, <2>2
<1>2. t = SubSeq(uri, 1, L)
  BY DEF SchemeAndHost
<1> HIDE DEF L, c, t
<1>3. Len(t) = L /\ t[1] = uri[1]
  BY <1>1, <1>2 DEF c
<1>4. OccursAt(1)
  <2>1. 1 + Len(t) - 1 = L
    BY <1>1, <1>3
  <2> QED
    BY <1>1, <1>2, <2>1 DEF c
<1>5. ASSUME NEW j \in 2..c PROVE ~OccursAt(j)
  <2> SUFFICES ASSUME OccursAt(j) PROVE FALSE
    OBVIOUS
  <2>1. j \in Nat /\ j + L - 1 <= c /\ SubSeq(uri, j, j + L - 1) = t
    BY <1>1, <1>3 DEF c
  <2>2. SubSeq(uri, j, j + L - 1)[1] = uri[j]
    BY <1>1, <2>1 DEF c
  <2>3. uri[j] = uri[1]
    BY <1>3, <2>1, <2>2
  <2> QED
    BY <2>3 DEF Plain, c
<1> HIDE DEF OccursAt
<1>6. ASSUME NEW k \in 1..c PROVE Within(k) <=> k <= L
  <2>1. k \in Nat /\ k >= 1
    BY <1>1
  <2>2. ASSUME k <= L PROVE Within(k)
    <3>1. 1 \in 1..k /\ k < 1 + Len(t)
      BY <1>1, <1>3, <2>1, <2>2
    <3> QED
      BY <1>4, <3>1
  <2>3. ASSUME NEW j \in 1..k, k < j + Len(t), OccursAt(j) PROVE k <= L
    <3>1. j = 1
      BY <1>1, <1>5, <2>1, <2>3
    <3> QED
      BY <1>1, <1>3, <2>1, <2>3, <3>1
  <2> QED
    BY <2>2, <2>3
<1> HIDE DEF Within
<1>7. K = (L + 1)..(L + (c - L))
  <2>1. L + (c - L) = c
    BY <1>1
  <2> QED
    BY <1>1, <1>6, <2>1
<1>8. Without(uri, t) = PickAt(uri, K)
  BY DEF Without, K, Within, OccursAt
<1> HIDE DEF K
<1>9. c - L \in Nat
  BY <1>1
<1>10. Without(uri, t) = [n \in 1..(c - L) |-> uri[L + n]]
  BY <1>1, <1>7, <1>8, <1>9, PickFrom
<1>11. SubSeq(uri, L + 1, c) = [n \in 1..(c - L) |-> uri[L + n]]
  <2> DEFINE p == SubSeq(uri, L + 1, c)
  <2>1. L + 1 \in Nat /\ L + 1 >= 1 /\ L + 1 <= Len(uri) + 1
    BY <1>1 DEF c
  <2>2. p \in Seq(STRING) /\ Len(p) = Len(uri) + 1 - (L + 1)
        /\ \A n \in 1..(Len(uri) + 1 - (L + 1)) : p[n] = uri[L + 1 + n - 1]
    BY <2>1, SuffixFacts DEF c
  <2>3. c + 1 - (L + 1) = c - L /\ \A n \in 1..(c - L) : L + 1 + n - 1 = L + n
    BY <1>1, <1>9
  <2>4. DOMAIN p = 1..(c - L) /\ p = [n \in DOMAIN p |-> p[n]]
    BY <2>2, <2>3 DEF c
  <2> HIDE DEF p
  <2>5. p = [n \in 1..(c - L) |-> uri[L + n]]
    BY <2>2, <2>3, <2>4 DEF c
  <2> QED
    BY <2>5 DEF p
<1>12. Path(uri) = SubSeq(uri, L + 1, c)
  <2>1. HasPort(uri) <=> Len(uri) > 2 /\ uri[3] \in Ports
    BY DEF HasPort, Plain
  <2>2. (IF Len(uri) > 2 /\ uri[3] \in Ports THEN 4 ELSE 3) = L + 1
    BY <2>1 DEF L
  <2> QED
    BY <2>2 DEF Path, c
<1>13. Without(uri, t) = Path(uri)
  BY <1>10, <1>11, <1>12
<1> QED
  BY <1>13 DEF NewUri, t

\* First lines go on as they are.
LEMMA SeenFirst ==
  ASSUME NEW w, Seen(w)
  PROVE  w.first[2] = received.first[2]
<1>1. CASE tool
  <2>1. w \in Bytes(SetHost(Parse(received)))
    BY <1>1 DEF Seen
  <2>2. w.first = <<SetHost(Parse(received)).method, SetHost(Parse(received)).uri,
                    SetHost(Parse(received)).version>>
    BY <2>1 DEF Bytes
  <2>3. SetHost(Parse(received)).uri = received.first[2]
    BY DEF SetHost, Parse
  <2> QED
    BY <2>2, <2>3
<1>2. CASE ~tool
  BY <1>2 DEF Seen
<1> QED
  BY <1>1, <1>2

\* The service is asked for the path.
LEMMA HeaderPath == ASSUME HeaderInv PROVE PathKept
<1> SUFFICES ASSUME headerStage = "rewritten", Plain(received.first[2])
             PROVE  PathKept
  BY DEF PathKept
<1>1. PICK w : /\ Seen(w) /\ Parses(w) /\ Absolute(w.first[2])
               /\ header = Rewrite(Parse(w)) /\ wire \in Bytes(header)
  BY DEF HeaderInv
<1>2. w.first[2] = received.first[2]
  BY <1>1, SeenFirst
<1>3. received.first[2] \in Seq(STRING)
  <2>1. received.first \in FirstLines
    BY DEF HeaderInv, Raw
  <2> QED
    BY <2>1, HeaderAssumption DEF HeaderAssumption
<1>4. wire.first[2] = header.uri
  <2>1. wire.first = <<header.method, header.uri, header.version>>
    BY <1>1 DEF Bytes
  <2> QED
    BY <2>1
<1>5. header.uri = NewUri(received.first[2])
  BY <1>1, <1>2 DEF Rewrite, Parse
<1>6. Absolute(received.first[2])
  BY <1>1, <1>2
<1>7. NewUri(received.first[2]) =
         IF Path(received.first[2]) = <<>> THEN <<"/">> ELSE Path(received.first[2])
  BY <1>3, <1>6, NewUriFacts
<1> QED
  BY <1>4, <1>5, <1>7 DEF PathKept

\* The inductive invariant holds.
THEOREM HeaderInvariant == HeaderSpec => []HeaderInv
<1>1. HeaderInit => HeaderInv
  BY HeaderInitInv
<1>2. HeaderInv /\ [HeaderNext]_headerVars => HeaderInv'
  BY HeaderStep
<1> QED
  BY <1>1, <1>2, PTL DEF HeaderSpec

\* The words of a Header are never empty (try_from, into, handle_bi).
THEOREM HeaderTypeCorrect == HeaderSpec => []HeaderTypeOK
<1>1. HeaderInv => HeaderTypeOK
  BY HeaderTypes
<1> QED
  BY <1>1, HeaderInvariant, PTL

\* For all headers, with the tool and without, in whatever order the hash maps are
\* written: the service gets those of the browser's lines that are UTF-8, each whole
\* and at most once, but for those that handle_bi and the tool are there to change.
THEOREM ServiceGetsRequestCorrect == HeaderSpec => []ServiceGetsRequest
<1>1. HeaderInv => ServiceGetsRequest
  BY HeaderService
<1> QED
  BY <1>1, HeaderInvariant, PTL

\* For all headers and all Plain URIs: the service is asked for what stands behind
\* scheme, host and port, and for "/" when nothing does.
THEOREM PathKeptCorrect == HeaderSpec => []PathKept
<1>1. HeaderInv => PathKept
  BY HeaderPath
<1> QED
  BY <1>1, HeaderInvariant, PTL

(***************************************************************************)
(* Labels                                                                  *)
(***************************************************************************)

\* The two tables.
LEMMA Tables ==
  /\ DOMAIN Lower = 1..16 /\ DOMAIN Upper = 1..16
  /\ Lower[1] = "0" /\ Lower[2] = "1" /\ Lower[3] = "2" /\ Lower[4] = "3"
  /\ Lower[5] = "4" /\ Lower[6] = "5" /\ Lower[7] = "6" /\ Lower[8] = "7"
  /\ Lower[9] = "8" /\ Lower[10] = "9" /\ Lower[11] = "a" /\ Lower[12] = "b"
  /\ Lower[13] = "c" /\ Lower[14] = "d" /\ Lower[15] = "e" /\ Lower[16] = "f"
  /\ Upper[1] = "0" /\ Upper[2] = "1" /\ Upper[3] = "2" /\ Upper[4] = "3"
  /\ Upper[5] = "4" /\ Upper[6] = "5" /\ Upper[7] = "6" /\ Upper[8] = "7"
  /\ Upper[9] = "8" /\ Upper[10] = "9" /\ Upper[11] = "A" /\ Upper[12] = "B"
  /\ Upper[13] = "C" /\ Upper[14] = "D" /\ Upper[15] = "E" /\ Upper[16] = "F"
  BY DEF Lower, Upper

\* No digit stands twice in a table, and in both tables only at the same place.
LEMMA TablesDiffer ==
  \A k, l \in 1..16 : /\ Lower[k] = Lower[l] => k = l
                      /\ Upper[k] = Upper[l] => k = l
                      /\ Upper[k] = Lower[l] => k = l
<1> SUFFICES ASSUME NEW k \in 1..16, NEW l \in 1..16
             PROVE  /\ Lower[k] = Lower[l] => k = l
                    /\ Upper[k] = Upper[l] => k = l
                    /\ Upper[k] = Lower[l] => k = l
  OBVIOUS
<1>1. k = 1 \/ k = 2 \/ k = 3 \/ k = 4 \/ k = 5 \/ k = 6 \/ k = 7 \/ k = 8
      \/ k = 9 \/ k = 10 \/ k = 11 \/ k = 12 \/ k = 13 \/ k = 14 \/ k = 15 \/ k = 16
  OBVIOUS
<1>2. l = 1 \/ l = 2 \/ l = 3 \/ l = 4 \/ l = 5 \/ l = 6 \/ l = 7 \/ l = 8
      \/ l = 9 \/ l = 10 \/ l = 11 \/ l = 12 \/ l = 13 \/ l = 14 \/ l = 15 \/ l = 16
  OBVIOUS
<1> QED
  BY <1>1, <1>2, Tables, SMTT(60)

\* The digits are neither separators nor white nor a sign.
LEMMA DigitsAlone ==
  \A c \in Digits : c \notin Separators \cup White /\ c # "+"
<1> SUFFICES ASSUME NEW k \in 1..16, NEW c \in {Lower[k], Upper[k]}
             PROVE  c \notin Separators \cup White /\ c # "+"
  BY Tables DEF Digits, ToSet
<1>1. k = 1 \/ k = 2 \/ k = 3 \/ k = 4 \/ k = 5 \/ k = 6 \/ k = 7 \/ k = 8
      \/ k = 9 \/ k = 10 \/ k = 11 \/ k = 12 \/ k = 13 \/ k = 14 \/ k = 15 \/ k = 16
  OBVIOUS
<1>2. c = Lower[k] \/ c = Upper[k]
  OBVIOUS
<1>3. c # ":" /\ c # "-" /\ c # " " /\ c # "tab" /\ c # "+"
  <2>1. Lower[k] # ":" /\ Upper[k] # ":"
    BY <1>1, Tables
  <2>2. Lower[k] # "-" /\ Upper[k] # "-"
    BY <1>1, Tables
  <2>3. Lower[k] # " " /\ Upper[k] # " "
    BY <1>1, Tables
  <2>4. Lower[k] # "tab" /\ Upper[k] # "tab"
    BY <1>1, Tables
  <2>5. Lower[k] # "+" /\ Upper[k] # "+"
    BY <1>1, Tables
  <2> QED
    BY <1>2, <2>1, <2>2, <2>3, <2>4, <2>5
<1> QED
  BY <1>3 DEF Separators, White

\* A digit is one, and the same, in either case.
LEMMA DigitFacts ==
  ASSUME NEW k \in 1..16
  PROVE  /\ Lower[k] \in Digits /\ Upper[k] \in Digits
         /\ ToUpper(Lower[k]) = Upper[k] /\ ToUpper(Upper[k]) = Upper[k]
         /\ DigitOf(Lower[k]) = k - 1 /\ DigitOf(Upper[k]) = k - 1
<1>1. Lower[k] \in Digits /\ Upper[k] \in Digits
  BY Tables DEF Digits, ToSet
<1>2. ToUpper(Lower[k]) = Upper[k]
  <2>1. Lower[k] \in ToSet(Lower)
    BY Tables DEF ToSet
  <2>2. (CHOOSE l \in 1..16 : Lower[l] = Lower[k]) = k
    BY TablesDiffer
  <2> QED
    BY <2>1, <2>2, Tables DEF ToUpper
<1>3. ToUpper(Upper[k]) = Upper[k]
  <2>1. CASE Upper[k] \in ToSet(Lower)
    <3>1. PICK l \in 1..16 : Lower[l] = Upper[k]
      BY <2>1, Tables DEF ToSet
    <3>2. l = k
      BY <3>1, TablesDiffer
    <3> QED
      BY <1>2, <3>1, <3>2
  <2>2. CASE Upper[k] \notin ToSet(Lower)
    BY <2>2 DEF ToUpper
  <2> QED
    BY <2>1, <2>2
<1>4. (CHOOSE l \in 1..16 : Upper[l] = Upper[k]) = k
  BY TablesDiffer
<1>5. DigitOf(Lower[k]) = k - 1 /\ DigitOf(Upper[k]) = k - 1
  BY <1>2, <1>3, <1>4, Tables DEF DigitOf
<1> QED
  BY <1>1, <1>2, <1>3, <1>5

\* What ToUpper makes of a character, digit or not.
LEMMA UpperFacts ==
  ASSUME NEW c
  PROVE  /\ ToUpper(c) \in Digits <=> c \in Digits
         /\ ToUpper(c) = "+" <=> c = "+"
         /\ ToUpper(ToUpper(c)) = ToUpper(c)
         /\ c \in Digits => DigitOf(ToUpper(c)) = DigitOf(c) /\ DigitOf(c) \in 0..15
<1>1. CASE c \in Digits
  <2>1. PICK k \in 1..16 : c = Lower[k] \/ c = Upper[k]
    BY <1>1, Tables DEF Digits, ToSet
  <2>2. ToUpper(c) = Upper[k] /\ DigitOf(c) = k - 1
    BY <2>1, DigitFacts
  <2>3. Upper[k] \in Digits /\ ToUpper(Upper[k]) = Upper[k] /\ DigitOf(Upper[k]) = k - 1
    BY DigitFacts
  <2>4. Upper[k] # "+" /\ c # "+"
    BY <1>1, <2>3, DigitsAlone
  <2>5. k - 1 \in 0..15
    OBVIOUS
  <2> QED
    BY <1>1, <2>2, <2>3, <2>4, <2>5
<1>2. CASE c \notin Digits
  <2>1. ToUpper(c) = c
    BY <1>2 DEF ToUpper, Digits
  <2> QED
    BY <1>2, <2>1
<1> QED
  BY <1>1, <1>2
\* A text is a sequence of characters.
IsText(s) == \E c \in Nat : DOMAIN s = 1..c

\* Where its digits stand.
DigitsAt(s) == {k \in DOMAIN s : IsDigit(s[k])}

\* Every digit is kept; and if nothing else is, what is kept is the digits.
LEMMA DigitsKept ==
  ASSUME NEW s, IsText(s)
  PROVE  /\ DigitsAt(s) \subseteq Kept(s)
         /\ (\A k \in Kept(s) : s[k] \in Digits) => Kept(s) = DigitsAt(s)
<1>1. PICK c \in Nat : DOMAIN s = 1..c
  BY DEF IsText
<1>2. ASSUME NEW k \in DigitsAt(s) PROVE k \in Kept(s)
  <2>1. k \in DOMAIN s /\ k \in Nat /\ s[k] \in Digits
    BY <1>1 DEF DigitsAt, IsDigit
  <2>2. s[k] \notin Separators \cup White
    BY <2>1, DigitsAlone
  <2>3. k \in Solid(s) /\ k <= k
    BY <2>1, <2>2 DEF Solid
  <2> QED
    BY <2>1, <2>2, <2>3 DEF Kept
<1>3. ASSUME \A k \in Kept(s) : s[k] \in Digits PROVE Kept(s) \subseteq DigitsAt(s)
  BY <1>3 DEF Kept, DigitsAt, IsDigit
<1> QED
  BY <1>2, <1>3

\* A text that holds only digits and separators keeps its digits.
LEMMA HexKept ==
  ASSUME NEW s, IsText(s), \A k \in DOMAIN s : s[k] \in Digits \cup Separators
  PROVE  Kept(s) = DigitsAt(s)
<1>1. \A k \in Kept(s) : s[k] \in Digits
  BY DEF Kept
<1> QED
  BY <1>1, DigitsKept

\* What is kept, in its order, in upper case.
LEMMA CleanedFacts ==
  ASSUME NEW s, IsText(s)
  PROVE  /\ Len(Cleaned(s)) = Cardinality(Kept(s)) /\ Cardinality(Kept(s)) \in Nat
         /\ \A n \in 1..Cardinality(Kept(s)) :
               /\ Nth(Kept(s), n) \in Kept(s)
               /\ PickAt(s, Kept(s))[n] = s[Nth(Kept(s), n)]
               /\ Cleaned(s)[n] = ToUpper(s[Nth(Kept(s), n)])
         /\ \A k \in Kept(s) : \E n \in 1..Cardinality(Kept(s)) : Nth(Kept(s), n) = k
<1> DEFINE K == Kept(s)
           m == Cardinality(K)
           f == [n \in 1..m |-> Nth(K, n)]
           S == {ToUpper(s[k]) : k \in K}
<1>1. PICK c \in Nat : DOMAIN s = 1..c
  BY DEF IsText
<1>2. K \subseteq 1..c
  BY <1>1 DEF Kept
<1> HIDE DEF K
<1>3. Enumerates(f, m, K)
  BY <1>1, <1>2, NthEnumerates
<1>4. m \in Nat /\ (\A n \in 1..m : f[n] \in K) /\ \A k \in K : \E n \in 1..m : f[n] = k
  BY <1>3 DEF Enumerates
<1>5. \A n \in 1..m : f[n] = Nth(K, n)
  OBVIOUS
<1>6. \A n \in 1..m : Nth(K, n) \in K
  BY <1>4, <1>5
<1>7. \A k \in K : \E n \in 1..m : Nth(K, n) = k
  BY <1>4, <1>5
<1> HIDE DEF f, m
<1>8. PickAt(s, K) = [n \in 1..m |-> s[Nth(K, n)]]
  BY DEF PickAt, m
<1>9. Cleaned(s) = [n \in 1..m |-> ToUpper(PickAt(s, K)[n])]
  BY DEF Cleaned, m, K
<1>10. \A n \in 1..m : /\ PickAt(s, K)[n] = s[Nth(K, n)]
                       /\ Cleaned(s)[n] = ToUpper(s[Nth(K, n)])
  BY <1>8, <1>9
<1>11. Cleaned(s) \in [1..m -> S]
  BY <1>6, <1>8, <1>9
<1> HIDE DEF S
<1>12. Len(Cleaned(s)) = m
  BY <1>4, <1>11
<1> QED
  BY <1>4, <1>6, <1>7, <1>10, <1>12 DEF m, K

\* A pair of digits is a byte, whatever their case.
LEMMA PairOfDigits ==
  ASSUME NEW x \in Digits, NEW y \in Digits
  PROVE  /\ PairParses(ToUpper(x), ToUpper(y))
         /\ PairValue(ToUpper(x), ToUpper(y)) = 16 * DigitOf(x) + DigitOf(y)
<1>1. ToUpper(x) \in Digits /\ ToUpper(y) \in Digits
      /\ DigitOf(ToUpper(x)) = DigitOf(x) /\ DigitOf(ToUpper(y)) = DigitOf(y)
      /\ DigitOf(x) \in 0..15 /\ DigitOf(y) \in 0..15
  BY UpperFacts
<1>2. ToUpper(x) # "+"
  BY <1>1, DigitsAlone
<1>3. PairParses(ToUpper(x), ToUpper(y))
  BY <1>1 DEF PairParses, IsDigit
<1>4. PairValue(ToUpper(x), ToUpper(y)) = 16 * DigitOf(x) + DigitOf(y)
  BY <1>1, <1>2 DEF PairValue
<1> QED
  BY <1>3, <1>4

\* A pair that parses is a byte.
LEMMA PairIsByte ==
  ASSUME NEW x, NEW y, PairParses(x, y)
  PROVE  PairValue(x, y) \in 0..255
<1>1. DigitOf(y) \in 0..15
  BY UpperFacts DEF PairParses, IsDigit
<1>2. CASE x = "+"
  BY <1>1, <1>2 DEF PairValue
<1>3. CASE x # "+"
  <2>1. DigitOf(x) \in 0..15
    BY <1>3, UpperFacts DEF PairParses, IsDigit
  <2> QED
    BY <1>1, <1>3, <2>1 DEF PairValue
<1> QED
  BY <1>2, <1>3

\* Where the two digits of a byte stand.
LEMMA BytePlaces ==
  ASSUME NEW k \in 1..MacLen
  PROVE  2 * k - 1 \in 1..(2 * MacLen) /\ 2 * k \in 1..(2 * MacLen)
  BY LabelsAssumption DEF LabelsAssumption

\* A text of which the digits are kept is a label when there are enough of them.
LEMMA OnlyDigits ==
  ASSUME NEW s, IsText(s), Kept(s) = DigitsAt(s)
  PROVE  /\ LabelParses(s) <=> Cardinality(DigitsAt(s)) = 2 * MacLen
         /\ LabelParses(s) => \A k \in 1..MacLen :
               LabelValue(s)[k] = 16 * DigitOf(PickAt(s, DigitsAt(s))[2 * k - 1])
                                      + DigitOf(PickAt(s, DigitsAt(s))[2 * k])
<1> DEFINE K == Kept(s)
           m == Cardinality(K)
           g == PickAt(s, K)
<1>1. Len(Cleaned(s)) = m /\ \A n \in 1..m : g[n] \in Digits /\ Cleaned(s)[n] = ToUpper(g[n])
  BY CleanedFacts DEF DigitsAt, IsDigit
<1> HIDE DEF g
<1>2. ASSUME m = 2 * MacLen, NEW k \in 1..MacLen
      PROVE  /\ PairParses(Cleaned(s)[2 * k - 1], Cleaned(s)[2 * k])
             /\ PairValue(Cleaned(s)[2 * k - 1], Cleaned(s)[2 * k])
                   = 16 * DigitOf(g[2 * k - 1]) + DigitOf(g[2 * k])
  <2>1. 2 * k - 1 \in 1..m /\ 2 * k \in 1..m
    BY <1>2, BytePlaces
  <2>2. PICK a, b : a = 2 * k - 1 /\ b = 2 * k
    OBVIOUS
  <2>3. g[a] \in Digits /\ g[b] \in Digits
        /\ Cleaned(s)[a] = ToUpper(g[a]) /\ Cleaned(s)[b] = ToUpper(g[b])
    BY <1>1, <2>1, <2>2
  <2>4. PairParses(Cleaned(s)[a], Cleaned(s)[b])
        /\ PairValue(Cleaned(s)[a], Cleaned(s)[b]) = 16 * DigitOf(g[a]) + DigitOf(g[b])
    BY <2>3, PairOfDigits
  <2> QED
    BY <2>2, <2>4
<1>3. LabelParses(s) => m = 2 * MacLen
  BY <1>1 DEF LabelParses
<1>4. m = 2 * MacLen => LabelParses(s)
  BY <1>1, <1>2 DEF LabelParses
<1>5. LabelParses(s) => \A k \in 1..MacLen :
         LabelValue(s)[k] = 16 * DigitOf(g[2 * k - 1]) + DigitOf(g[2 * k])
  BY <1>2, <1>3 DEF LabelValue
<1> QED
  BY <1>3, <1>4, <1>5 DEF g

\* The two ways to write a digit.
Both(v) == {Lower[v + 1], Upper[v + 1]}

\* A byte is two digits.
LEMMA ByteDigits ==
  ASSUME NEW b \in 0..255
  PROVE  b \div 16 \in 0..15 /\ b % 16 \in 0..15 /\ 16 * (b \div 16) + (b % 16) = b
<1>1. b \in Nat /\ b < 256
  OBVIOUS
<1>2. b \div 16 \in 0..15
  BY <1>1
<1>3. b % 16 \in 0..15
  BY <1>1
<1>4. 16 * (b \div 16) + (b % 16) = b
  BY <1>1
<1> QED
  BY <1>2, <1>3, <1>4

\* Both ways are read the same.
LEMMA BothRead ==
  ASSUME NEW v \in 0..15, NEW c \in Both(v)
  PROVE  c \in Digits /\ DigitOf(c) = v /\ ToUpper(c) \in Both(v)
<1>1. v + 1 \in 1..16 /\ (v + 1) - 1 = v
  OBVIOUS
<1>2. PICK k \in 1..16 : k = v + 1 /\ k - 1 = v
  BY <1>1
<1>3. c = Lower[k] \/ c = Upper[k]
  BY <1>2 DEF Both
<1>4. c \in Digits /\ DigitOf(c) = k - 1 /\ ToUpper(c) = Upper[k]
  BY <1>3, DigitFacts
<1> QED
  BY <1>2, <1>4 DEF Both

\* A text whose kept characters are the digits of a label, in order, is that label.
LEMMA ReadsBack ==
  ASSUME NEW s, IsText(s), Kept(s) = DigitsAt(s),
         NEW m \in [1..MacLen -> 0..255],
         NEW f, Enumerates(f, 2 * MacLen, DigitsAt(s)),
         \A k \in 1..MacLen : s[f[2 * k - 1]] \in Both(m[k] \div 16)
                              /\ s[f[2 * k]] \in Both(m[k] % 16)
  PROVE  LabelParses(s) /\ LabelValue(s) = m
<1> DEFINE D == DigitsAt(s)
           g == PickAt(s, D)
<1>1. D \subseteq Nat
  BY DEF IsText, DigitsAt
<1>2. Cardinality(D) = 2 * MacLen /\ \A n \in 1..(2 * MacLen) : Nth(D, n) = f[n]
  BY <1>1, NthExact
<1>3. \A n \in 1..(2 * MacLen) : g[n] = s[f[n]]
  BY <1>2 DEF PickAt
<1>4. LabelParses(s)
  BY <1>2, OnlyDigits
<1>5. \A k \in 1..MacLen : LabelValue(s)[k] = 16 * DigitOf(g[2 * k - 1]) + DigitOf(g[2 * k])
  BY <1>4, OnlyDigits
<1> HIDE DEF g, D
<1>6. ASSUME NEW k \in 1..MacLen PROVE LabelValue(s)[k] = m[k]
  <2>1. g[2 * k - 1] \in Both(m[k] \div 16) /\ g[2 * k] \in Both(m[k] % 16)
    BY <1>3, BytePlaces
  <2>2. m[k] \in 0..255
    OBVIOUS
  <2>3. PICK hi \in 0..15, lo \in 0..15 :
           hi = m[k] \div 16 /\ lo = m[k] % 16 /\ 16 * hi + lo = m[k]
    BY <2>2, ByteDigits
  <2>4. DigitOf(g[2 * k - 1]) = hi /\ DigitOf(g[2 * k]) = lo
    <3>1. g[2 * k - 1] \in Both(hi) /\ g[2 * k] \in Both(lo)
      BY <2>1, <2>3
    <3>2. \A v \in 0..15 : \A c \in Both(v) : DigitOf(c) = v
      BY BothRead
    <3>3. hi \in 0..15 /\ lo \in 0..15
      BY <2>3
    <3> QED
      BY <3>1, <3>2, <3>3
  <2>5. LabelValue(s)[k] = 16 * DigitOf(g[2 * k - 1]) + DigitOf(g[2 * k])
    BY <1>5
  <2> QED
    BY <2>3, <2>4, <2>5
<1>7. LabelValue(s) = [k \in 1..MacLen |-> LabelValue(s)[k]]
  BY DEF LabelValue
<1> QED
  BY <1>4, <1>6, <1>7

\* Every place of a printed label is that of one of the digits of one byte.
LEMMA EitherDigit ==
  ASSUME NEW j \in 1..(2 * MacLen)
  PROVE  \E k \in 1..MacLen : j = 2 * k - 1 \/ j = 2 * k
<1>1. MacLen \in Nat /\ j \in Nat
  BY LabelsAssumption DEF LabelsAssumption
<1>2. PICK k \in Nat : k = (j + 1) \div 2
  BY <1>1
<1>3. j = 2 * k - 1 \/ j = 2 * k
  BY <1>1, <1>2
<1>4. k \in 1..MacLen
  BY <1>1, <1>3
<1> QED
  BY <1>3, <1>4

\* What is printed: two digits for every byte.
LEMMA DisplayFacts ==
  ASSUME NEW m \in [1..MacLen -> 0..255]
  PROVE  /\ Display(m) \in [1..(2 * MacLen) -> Digits]
         /\ \A k \in 1..MacLen : Display(m)[2 * k - 1] = Lower[(m[k] \div 16) + 1]
                                 /\ Display(m)[2 * k] = Lower[(m[k] % 16) + 1]
<1>1. MacLen \in Nat
  BY LabelsAssumption DEF LabelsAssumption
<1>2. Len(m) = MacLen
  BY <1>1
<1>3. Display(m) = [j \in 1..(2 * MacLen) |-> Hex(m[(j + 1) \div 2])[2 - (j % 2)]]
  BY <1>2 DEF Display
<1>4. ASSUME NEW k \in 1..MacLen
      PROVE  /\ Display(m)[2 * k - 1] = Lower[(m[k] \div 16) + 1]
             /\ Display(m)[2 * k] = Lower[(m[k] % 16) + 1]
  <2>1. PICK a, b : a = 2 * k - 1 /\ b = 2 * k
    OBVIOUS
  <2>2. a \in 1..(2 * MacLen) /\ b \in 1..(2 * MacLen)
    BY <2>1, BytePlaces
  <2>3. (a + 1) \div 2 = k /\ 2 - (a % 2) = 1 /\ (b + 1) \div 2 = k /\ 2 - (b % 2) = 2
    BY <1>1, <2>1
  <2>4. Display(m)[a] = Hex(m[k])[1] /\ Display(m)[b] = Hex(m[k])[2]
    BY <1>3, <2>2, <2>3
  <2> QED
    BY <2>1, <2>4 DEF Hex
<1>5. ASSUME NEW j \in 1..(2 * MacLen) PROVE Display(m)[j] \in Digits
  <2>1. PICK k \in 1..MacLen : j = 2 * k - 1 \/ j = 2 * k
    BY EitherDigit
  <2>2. m[k] \in 0..255
    OBVIOUS
  <2>3. m[k] \div 16 \in 0..15 /\ m[k] % 16 \in 0..15
    BY <2>2, ByteDigits
  <2>4. \E v \in 0..15 : Display(m)[j] \in Both(v)
    BY <1>4, <2>1, <2>3 DEF Both
  <2> QED
    BY <2>4, BothRead
<1> QED
  BY <1>3, <1>4, <1>5

\* t is u with c put in at place k.
Inserted(t, u, k, c) ==
    /\ DOMAIN t = 1..(Len(u) + 1)
    /\ \A j \in 1..(Len(u) + 1) :
          t[j] = IF j < k THEN u[j] ELSE IF j = k THEN c ELSE u[j - 1]

\* A text with one more character in it.
LEMMA InsertFacts ==
  ASSUME NEW S, NEW u \in Seq(S), NEW c \in S, NEW k \in 1..Len(u)
  PROVE  Inserted(InsertAt(u, k, c), u, k, c)
<1> DEFINE p == SubSeq(u, 1, k - 1)
           q == SubSeq(u, k, Len(u))
<1>1. Len(u) \in Nat /\ k \in Nat /\ 1 <= k /\ k <= Len(u)
  OBVIOUS
<1>2. p \in Seq(S) /\ Len(p) = k - 1 /\ \A j \in 1..(k - 1) : p[j] = u[j]
  BY <1>1
<1>3. q \in Seq(S) /\ Len(q) = Len(u) - k + 1 /\ \A j \in 1..(Len(u) - k + 1) : q[j] = u[k + j - 1]
  BY <1>1
<1>4. <<c>> \in Seq(S) /\ Len(<<c>>) = 1 /\ <<c>>[1] = c
  OBVIOUS
<1> HIDE DEF p, q
<1>5. /\ p \o <<c>> \in Seq(S) /\ Len(p \o <<c>>) = k /\ (p \o <<c>>)[k] = c
      /\ \A j \in 1..(k - 1) : (p \o <<c>>)[j] = u[j]
  BY <1>1, <1>2, <1>4
<1> DEFINE r == p \o <<c>>
<1> HIDE DEF r
<1>6. r \in Seq(S) /\ Len(r) = k /\ r[k] = c /\ \A j \in 1..(k - 1) : r[j] = u[j]
  BY <1>5 DEF r
<1>7. r \o q \in Seq(S) /\ Len(r \o q) = Len(u) + 1
  <2>1. r \o q \in Seq(S) /\ Len(r \o q) = Len(r) + Len(q)
    <3>1. r \in Seq(S) /\ q \in Seq(S)
      BY <1>3, <1>6
    <3> QED
      BY <3>1
  <2> QED
    BY <1>1, <1>3, <1>6, <2>1
<1>8. ASSUME NEW j \in 1..(Len(u) + 1)
      PROVE  (r \o q)[j] = IF j < k THEN u[j] ELSE IF j = k THEN c ELSE u[j - 1]
  <2>1. CASE j <= k
    <3>1. j \in 1..Len(r)
      BY <1>1, <1>6, <2>1
    <3>2. (r \o q)[j] = r[j]
      <4>1. r \in Seq(S) /\ q \in Seq(S)
        BY <1>3, <1>6
      <4>2. j \in 1..(Len(r) + Len(q)) /\ j <= Len(r)
        BY <1>1, <1>3, <1>6, <2>1
      <4> QED
        BY <4>1, <4>2, ConcatProperties
    <3> QED
      BY <1>1, <1>6, <2>1, <3>2
  <2>2. CASE j > k
    <3>1. j - k \in 1..Len(q) /\ j = Len(r) + (j - k)
      BY <1>1, <1>3, <1>6, <2>2
    <3>2. (r \o q)[j] = q[j - k]
      <4>1. r \in Seq(S) /\ q \in Seq(S) /\ Len(r) = k
        BY <1>3, <1>6
      <4>2. j \in 1..(Len(r) + Len(q)) /\ ~(j <= Len(r))
        BY <1>1, <1>3, <1>6, <2>2
      <4>3. (r \o q)[j] = q[j - Len(r)]
        BY <4>1, <4>2, ConcatProperties
      <4> QED
        BY <4>1, <4>3
    <3>3. q[j - k] = u[j - 1]
      <4>1. PICK a \in 1..(Len(u) - k + 1) : a = j - k
        BY <1>1, <1>3, <3>1
      <4>2. q[a] = u[k + a - 1]
        BY <1>3
      <4>3. k + a - 1 = j - 1
        BY <1>1, <4>1
      <4> QED
        BY <4>1, <4>2, <4>3
    <3> QED
      BY <1>1, <2>2, <3>2, <3>3
  <2>3. j <= k \/ j > k
    BY <1>1
  <2> QED
    BY <2>1, <2>2, <2>3
<1>9. InsertAt(u, k, c) = r \o q
  BY DEF InsertAt, p, q, r
<1>10. DOMAIN (r \o q) = 1..(Len(u) + 1)
  BY <1>7
<1> QED
  BY <1>8, <1>9, <1>10 DEF Inserted

\* What is printed is read as what was printed.
LEMMA PrintedReads ==
  ASSUME NEW m \in [1..MacLen -> 0..255]
  PROVE  LabelParses(Display(m)) /\ LabelValue(Display(m)) = m
<1> DEFINE s == Display(m)
           f == [n \in 1..(2 * MacLen) |-> n]
<1>1. 2 * MacLen \in Nat
  BY LabelsAssumption DEF LabelsAssumption
<1>2. s \in [1..(2 * MacLen) -> Digits]
  BY DisplayFacts
<1>3. IsText(s)
  BY <1>1, <1>2 DEF IsText
<1>4. DigitsAt(s) = 1..(2 * MacLen)
  BY <1>2 DEF DigitsAt, IsDigit
<1>5. Kept(s) = DigitsAt(s)
  BY <1>2, <1>3, HexKept
<1>6. Enumerates(f, 2 * MacLen, DigitsAt(s))
  BY <1>1, <1>4 DEF Enumerates
<1>7. ASSUME NEW k \in 1..MacLen
      PROVE  s[f[2 * k - 1]] \in Both(m[k] \div 16) /\ s[f[2 * k]] \in Both(m[k] % 16)
  <2>1. f[2 * k - 1] = 2 * k - 1 /\ f[2 * k] = 2 * k
    BY BytePlaces
  <2>2. s[2 * k - 1] = Lower[(m[k] \div 16) + 1] /\ s[2 * k] = Lower[(m[k] % 16) + 1]
    BY DisplayFacts
  <2>3. \A v : Lower[v + 1] \in Both(v)
    BY DEF Both
  <2> HIDE DEF s, f
  <2> QED
    BY <2>1, <2>2, <2>3
<1> HIDE DEF s, f
<1>8. LabelParses(s) /\ LabelValue(s) = m
  BY <1>3, <1>5, <1>6, <1>7, ReadsBack
<1> QED
  BY <1>8 DEF s

\* So is what is printed in upper case and with a separator in it.
LEMMA SeparatedReads ==
  ASSUME NEW m \in [1..MacLen -> 0..255], NEW c \in Separators, NEW k \in 1..(2 * MacLen),
         NEW s, s = InsertAt([j \in DOMAIN Display(m) |-> ToUpper(Display(m)[j])], k, c)
  PROVE  LabelParses(s) /\ LabelValue(s) = m
<1> DEFINE N == 2 * MacLen
           u == [j \in DOMAIN Display(m) |-> ToUpper(Display(m)[j])]
           f == [n \in 1..N |-> IF n < k THEN n ELSE n + 1]
           S == Digits \cup {c}
<1>1. N \in Nat /\ k \in Nat /\ 1 <= k /\ k <= N
  BY LabelsAssumption DEF LabelsAssumption
<1>2. Display(m) \in [1..N -> Digits]
  BY DisplayFacts
<1>3. u \in [1..N -> Digits] /\ \A j \in 1..N : u[j] = ToUpper(Display(m)[j])
  <2>1. \A j \in 1..N : ToUpper(Display(m)[j]) \in Digits
    BY <1>2, UpperFacts
  <2> QED
    BY <1>2, <2>1
<1> HIDE DEF N, u
<1>4. u \in Seq(S) /\ Len(u) = N
  BY <1>1, <1>3
<1>5. Inserted(s, u, k, c)
  <2>1. u \in Seq(S) /\ c \in S /\ k \in 1..Len(u)
    BY <1>1, <1>4
  <2>2. s = InsertAt(u, k, c)
    BY DEF u
  <2> HIDE DEF S
  <2>3. Inserted(InsertAt(u, k, c), u, k, c)
    BY <2>1, InsertFacts
  <2> QED
    BY <2>2, <2>3
<1>6. /\ DOMAIN s = 1..(N + 1)
      /\ \A j \in 1..(N + 1) : s[j] = IF j < k THEN u[j] ELSE IF j = k THEN c ELSE u[j - 1]
  BY <1>4, <1>5 DEF Inserted
<1>7. IsText(s)
  BY <1>1, <1>6 DEF IsText
<1>8. s[k] = c /\ c \notin Digits
  <2>1. s[k] = c
    BY <1>1, <1>6
  <2> QED
    BY <2>1, DigitsAlone
<1>9. ASSUME NEW n \in 1..N PROVE f[n] \in 1..(N + 1) /\ f[n] # k /\ s[f[n]] = u[n]
  <2>1. CASE n < k
    BY <1>1, <1>6, <2>1
  <2>2. CASE ~(n < k)
    <3>1. f[n] = n + 1 /\ n + 1 \in 1..(N + 1) /\ ~(n + 1 < k) /\ n + 1 # k /\ (n + 1) - 1 = n
      BY <1>1, <2>2
    <3> QED
      BY <1>6, <3>1
  <2> QED
    BY <2>1, <2>2
<1>10. ASSUME NEW j \in 1..(N + 1), j # k PROVE \E n \in 1..N : f[n] = j
  <2>1. CASE j < k
    <3>1. j \in 1..N /\ f[j] = j
      BY <1>1, <2>1
    <3> QED
      BY <3>1
  <2>2. CASE ~(j < k)
    <3>1. j - 1 \in 1..N /\ ~(j - 1 < k) /\ (j - 1) + 1 = j
      BY <1>1, <1>10, <2>2
    <3>2. f[j - 1] = j
      BY <3>1
    <3> QED
      BY <3>1, <3>2
  <2> QED
    BY <2>1, <2>2
<1>11. DigitsAt(s) = 1..(N + 1) \ {k}
  <2>1. ASSUME NEW j \in 1..(N + 1), j # k PROVE s[j] \in Digits
    BY <1>3, <1>9, <1>10, <2>1
  <2> QED
    BY <1>6, <1>8, <2>1 DEF DigitsAt, IsDigit
<1>12. Kept(s) = DigitsAt(s)
  <2>1. \A j \in DOMAIN s : s[j] \in Digits \cup Separators
    BY <1>6, <1>8, <1>11 DEF DigitsAt, IsDigit
  <2> QED
    BY <1>7, <2>1, HexKept
<1>13. Enumerates(f, N, DigitsAt(s))
  <2>1. f \in [1..N -> DigitsAt(s)]
    BY <1>9, <1>11
  <2>2. \A a, b \in 1..N : a < b => f[a] < f[b]
    BY <1>1
  <2>3. \A j \in DigitsAt(s) : \E n \in 1..N : f[n] = j
    BY <1>10, <1>11
  <2> QED
    BY <1>1, <2>1, <2>2, <2>3 DEF Enumerates
<1>14. ASSUME NEW b \in 1..MacLen
       PROVE  s[f[2 * b - 1]] \in Both(m[b] \div 16) /\ s[f[2 * b]] \in Both(m[b] % 16)
  <2>1. 2 * b - 1 \in 1..N /\ 2 * b \in 1..N
    BY BytePlaces DEF N
  <2>2. s[f[2 * b - 1]] = u[2 * b - 1] /\ s[f[2 * b]] = u[2 * b]
    BY <1>9, <2>1
  <2>3. m[b] \div 16 \in 0..15 /\ m[b] % 16 \in 0..15
    <3>1. m[b] \in 0..255
      OBVIOUS
    <3> QED
      BY <3>1, ByteDigits
  <2>4. Display(m)[2 * b - 1] \in Both(m[b] \div 16) /\ Display(m)[2 * b] \in Both(m[b] % 16)
    <3>1. /\ Display(m)[2 * b - 1] = Lower[(m[b] \div 16) + 1]
          /\ Display(m)[2 * b] = Lower[(m[b] % 16) + 1]
      BY DisplayFacts
    <3>2. \A v : Lower[v + 1] \in Both(v)
      BY DEF Both
    <3> QED
      BY <3>1, <3>2
  <2>5. u[2 * b - 1] \in Both(m[b] \div 16) /\ u[2 * b] \in Both(m[b] % 16)
    <3>1. \A v \in 0..15 : \A x \in Both(v) : ToUpper(x) \in Both(v)
      BY BothRead
    <3>2. PICK hi \in 0..15, lo \in 0..15 : hi = m[b] \div 16 /\ lo = m[b] % 16
      BY <2>3
    <3>3. ToUpper(Display(m)[2 * b - 1]) \in Both(hi) /\ ToUpper(Display(m)[2 * b]) \in Both(lo)
      BY <2>4, <3>1, <3>2
    <3> QED
      BY <1>3, <2>1, <3>2, <3>3
  <2> QED
    BY <2>2, <2>5
<1> HIDE DEF f
<1>15. Enumerates(f, 2 * MacLen, DigitsAt(s))
  BY <1>13 DEF N
<1> QED
  BY <1>7, <1>12, <1>14, <1>15, ReadsBack

\* The inductive invariant: what is held is what the text says.
LabelInv ==
    /\ IsText(text)
    /\ labelStage \in {"text", "rejected", "parsed", "printed"}
    /\ labelStage \in {"text", "rejected"} => mac = NoMac
    /\ labelStage = "rejected" => ~LabelParses(text)
    /\ labelStage \in {"parsed", "printed"} => LabelParses(text) /\ mac = LabelValue(text)
    /\ labelStage = "printed" => printed = Display(mac)

\* Initially there is a text.
LEMMA LabelInitInv == ASSUME LabelInit PROVE LabelInv
<1>1. PICK c \in 0..MaxText : text \in [1..c -> Chars]
  BY DEF LabelInit, SeqOf
<1>2. c \in Nat /\ DOMAIN text = 1..c
  BY <1>1, LabelsAssumption DEF LabelsAssumption
<1>3. IsText(text)
  BY <1>2 DEF IsText
<1> QED
  BY <1>3 DEF LabelInit, LabelInv

\* Every step keeps to the text.
LEMMA LabelStep == ASSUME LabelInv, [LabelNext]_labelVars PROVE LabelInv'
<1>1. IsText(text)
  BY DEF LabelInv
<1>2. ASSUME text' = text PROVE (IsText(text))' /\ ((LabelParses(text))' <=> LabelParses(text))
  BY <1>1, <1>2
<1>3. CASE ParseLabelFails
  BY <1>1, <1>3 DEF ParseLabelFails, LabelInv
<1>4. CASE ParseLabel
  BY <1>1, <1>4 DEF ParseLabel, LabelInv
<1>5. CASE Printing
  BY <1>1, <1>5 DEF Printing, LabelInv
<1>6. CASE UNCHANGED labelVars
  BY <1>6 DEF LabelInv, labelVars
<1> QED
  BY <1>3, <1>4, <1>5, <1>6 DEF LabelNext

\* A label is bytes.
LEMMA ValueType ==
  ASSUME NEW s, LabelParses(s)
  PROVE  LabelValue(s) \in [1..MacLen -> 0..255]
<1>1. \A k \in 1..MacLen : PairValue(Cleaned(s)[2 * k - 1], Cleaned(s)[2 * k]) \in 0..255
  BY PairIsByte DEF LabelParses
<1> QED
  BY <1>1 DEF LabelValue

\* What is held after parsing is bytes.
LEMMA HeldLabel ==
  ASSUME LabelInv, labelStage \in {"parsed", "printed"}
  PROVE  mac \in [1..MacLen -> 0..255]
<1>1. LabelParses(text) /\ mac = LabelValue(text)
  BY DEF LabelInv
<1>2. LabelValue(text) \in [1..MacLen -> 0..255]
  BY <1>1, ValueType
<1> QED
  BY <1>1, <1>2

\* The types of a label.
LEMMA LabelTypes == ASSUME LabelInv PROVE LabelTypeOK
<1>1. labelStage \in {"parsed", "printed"} => mac \in [1..MacLen -> 0..255]
  BY HeldLabel
<1>2. labelStage = "printed" => Len(printed) = 2 * MacLen
  <2> SUFFICES ASSUME labelStage = "printed" PROVE Len(printed) = 2 * MacLen
    OBVIOUS
  <2>1. printed \in [1..(2 * MacLen) -> Digits]
    <3>1. printed = Display(mac)
      BY DEF LabelInv
    <3>2. mac \in [1..MacLen -> 0..255]
      BY <1>1
    <3>3. Display(mac) \in [1..(2 * MacLen) -> Digits]
      BY <3>2, DisplayFacts
    <3> QED
      BY <3>1, <3>3
  <2>2. 2 * MacLen \in Nat
    BY LabelsAssumption DEF LabelsAssumption
  <2> QED
    BY <2>1, <2>2
<1> QED
  BY <1>1, <1>2 DEF LabelInv, LabelTypeOK

\* A printed label is found again.
LEMMA LabelPrinted == ASSUME LabelInv PROVE PrintedFindsDevice
<1> SUFFICES ASSUME labelStage = "printed" PROVE PrintedFindsDevice
  BY DEF PrintedFindsDevice
<1>1. mac \in [1..MacLen -> 0..255] /\ printed = Display(mac)
  <2>1. printed = Display(mac)
    BY DEF LabelInv
  <2> QED
    BY <2>1, HeldLabel
<1>2. LabelParses(printed) /\ LabelValue(printed) = mac
  BY <1>1, PrintedReads
<1>3. ASSUME NEW c \in Separators, NEW k \in 1..(2 * MacLen), NEW s,
             s = InsertAt([j \in DOMAIN printed |-> ToUpper(printed[j])], k, c)
      PROVE  LabelParses(s) /\ LabelValue(s) = mac
  <2>1. s = InsertAt([j \in DOMAIN Display(mac) |-> ToUpper(Display(mac)[j])], k, c)
    BY <1>1, <1>3
  <2>2. mac \in [1..MacLen -> 0..255]
    BY <1>1
  <2> QED
    BY <2>1, <2>2, SeparatedReads
<1> QED
  BY <1>2, <1>3 DEF PrintedFindsDevice

\* Without a sign, what a label keeps is its digits.
LEMMA SignlessKept ==
  ASSUME NEW s, IsText(s), LabelParses(s), \A k \in DOMAIN s : s[k] # "+"
  PROVE  Kept(s) = DigitsAt(s)
<1>1. Len(Cleaned(s)) = 2 * MacLen
      /\ \A k \in 1..MacLen : PairParses(Cleaned(s)[2 * k - 1], Cleaned(s)[2 * k])
  BY DEF LabelParses
<1>2. /\ Cardinality(Kept(s)) = 2 * MacLen
      /\ \A n \in 1..(2 * MacLen) : Nth(Kept(s), n) \in Kept(s)
                                    /\ Cleaned(s)[n] = ToUpper(s[Nth(Kept(s), n)])
      /\ \A k \in Kept(s) : \E n \in 1..(2 * MacLen) : Nth(Kept(s), n) = k
  <2>1. Cardinality(Kept(s)) = 2 * MacLen
    BY <1>1, CleanedFacts
  <2> QED
    BY <2>1, CleanedFacts
<1>3. ASSUME NEW k \in Kept(s) PROVE s[k] \in Digits
  <2>1. PICK n \in 1..(2 * MacLen) : Nth(Kept(s), n) = k
    BY <1>2
  <2>2. Cleaned(s)[n] = ToUpper(s[k])
    BY <1>2, <2>1
  <2>3. PICK b \in 1..MacLen : n = 2 * b - 1 \/ n = 2 * b
    BY EitherDigit
  <2>4. Cleaned(s)[n] \in Digits \/ Cleaned(s)[n] = "+"
    <3>1. PairParses(Cleaned(s)[2 * b - 1], Cleaned(s)[2 * b])
      BY <1>1
    <3> QED
      BY <2>3, <3>1 DEF PairParses, IsDigit
  <2>5. s[k] # "+"
    BY DEF Kept
  <2> QED
    BY <2>2, <2>4, <2>5, UpperFacts
<1> QED
  BY <1>3, DigitsKept

\* A text is a label exactly as far as its digits are.
LEMMA LabelDigits == ASSUME LabelInv PROVE LabelsAreTheDigits
<1> DEFINE g == PickAt(text, DigitsAt(text))
           hexOnly == ToSet(text) \subseteq Digits \cup Separators
<1>1. IsText(text)
  BY DEF LabelInv
<1>2. Len(g) = Cardinality(DigitsAt(text)) /\ Cardinality(DigitsAt(text)) \in Nat
  <2> DEFINE D == DigitsAt(text)
             m == Cardinality(D)
  <2>1. PICK c \in Nat : DOMAIN text = 1..c
    BY <1>1 DEF IsText
  <2>2. D \subseteq 1..c
    BY <2>1 DEF DigitsAt
  <2>3. IsFiniteSet(D)
    BY <2>1, <2>2, NthEnumerates
  <2>4. m \in Nat
    BY <2>3, FS_CardinalityType
  <2>5. g = [n \in 1..m |-> text[Nth(D, n)]]
    BY DEF PickAt
  <2> HIDE DEF g, D, m
  <2>6. Len(g) = m
    BY <2>4, <2>5
  <2> QED
    BY <2>4, <2>6 DEF m, D
<1>3. ASSUME hexOnly PROVE LabelParses(text) <=> Len(g) = 2 * MacLen
  <2>1. \A k \in DOMAIN text : text[k] \in Digits \cup Separators
    BY <1>3 DEF ToSet
  <2>2. Kept(text) = DigitsAt(text)
    BY <1>1, <2>1, HexKept
  <2> QED
    BY <1>1, <1>2, <2>2, OnlyDigits
<1>4. ASSUME labelStage = "parsed", "+" \notin ToSet(text)
      PROVE  /\ Len(g) = 2 * MacLen
             /\ \A k \in 1..MacLen : mac[k] = 16 * DigitOf(g[2 * k - 1]) + DigitOf(g[2 * k])
  <2>1. LabelParses(text) /\ mac = LabelValue(text)
    BY <1>4 DEF LabelInv
  <2>2. \A k \in DOMAIN text : text[k] # "+"
    BY <1>4 DEF ToSet
  <2>3. Kept(text) = DigitsAt(text)
    BY <1>1, <2>1, <2>2, SignlessKept
  <2> QED
    BY <1>1, <1>2, <2>1, <2>3, OnlyDigits
<1>5. labelStage # "text" => ((labelStage # "rejected") <=> LabelParses(text))
  BY DEF LabelInv
<1>6. g = PickAt(text, {k \in DOMAIN text : IsDigit(text[k])})
  BY DEF DigitsAt
<1> HIDE DEF g
<1>7. labelStage # "text" /\ hexOnly => ((labelStage # "rejected") <=> Len(g) = 2 * MacLen)
  BY <1>3, <1>5
<1> QED
  BY <1>4, <1>6, <1>7 DEF LabelsAreTheDigits

\* The inductive invariant holds.
THEOREM LabelInvariant == LabelSpec => []LabelInv
<1>1. LabelInit => LabelInv
  BY LabelInitInv
<1>2. LabelInv /\ [LabelNext]_labelVars => LabelInv'
  BY LabelStep
<1> QED
  BY <1>1, <1>2, PTL DEF LabelSpec

\* A Mac is bytes, and is printed with two characters for each.
THEOREM LabelTypeCorrect == LabelSpec => []LabelTypeOK
<1>1. LabelInv => LabelTypeOK
  BY LabelTypes
<1> QED
  BY <1>1, LabelInvariant, PTL

\* For labels of every length: what is printed (Display, Into<String>) is read by the
\* parsers (from_str, try_from) as the same label, in either case and with a separator
\* in any place.
THEOREM PrintedFindsDeviceCorrect == LabelSpec => []PrintedFindsDevice
<1>1. LabelInv => PrintedFindsDevice
  BY LabelPrinted
<1> QED
  BY <1>1, LabelInvariant, PTL

\* For texts of every length and with any characters: the parsers see the digits, in
\* their order, and nothing else but a sign.
THEOREM LabelsAreTheDigitsCorrect == LabelSpec => []LabelsAreTheDigits
<1>1. LabelInv => LabelsAreTheDigits
  BY LabelDigits
<1> QED
  BY <1>1, LabelInvariant, PTL

(***************************************************************************)
(* Sequential                                                              *)
(***************************************************************************)

\* The inductive invariant: that of the part that runs.
SequentialInv ==
    /\ task \in Tasks
    /\ task = "ports" => TypeOK
    /\ task = "header" => HeaderInv
    /\ task = "launch" => LaunchInv
    /\ task = "pem" => IInv
    /\ task = "label" => LabelInv

\* Each part starts in its own way.
LEMMA SequentialInitInv == SequentialInit => SequentialInv
<1> SUFFICES ASSUME SequentialInit PROVE SequentialInv
  OBVIOUS
<1>1. task \in Tasks
  BY DEF SequentialInit
<1>2. task = "ports" => TypeOK
  BY PortsInit DEF SequentialInit
<1>3. task = "header" => HeaderInv
  BY HeaderInitInv DEF SequentialInit
<1>4. task = "launch" => LaunchInv
  BY LaunchInitInv DEF SequentialInit
<1>5. task = "pem" => IInv
  BY InitInv DEF SequentialInit
<1>6. task = "label" => LabelInv
  BY LabelInitInv DEF SequentialInit
<1> QED
  BY <1>1, <1>2, <1>3, <1>4, <1>5, <1>6 DEF SequentialInv

\* A step is of the part that runs.
LEMMA OwnStep ==
  ASSUME [SequentialNext]_<<task, vars, headerVars, launchVars, pemVars, labelVars>>
  PROVE  /\ task' = task
         /\ task = "ports" => [Next]_vars
         /\ task = "header" => [HeaderNext]_headerVars
         /\ task = "launch" => [LaunchNext]_launchVars
         /\ task = "pem" => [PemNext]_pemVars
         /\ task = "label" => [LabelNext]_labelVars
  BY DEF SequentialNext

LEMMA SequentialStep ==
  SequentialInv /\ [SequentialNext]_<<task, vars, headerVars, launchVars, pemVars, labelVars>>
      => SequentialInv'
<1> SUFFICES ASSUME SequentialInv,
                    [SequentialNext]_<<task, vars, headerVars, launchVars, pemVars, labelVars>>
             PROVE  SequentialInv'
  OBVIOUS
<1>1. task \in Tasks /\ task' = task
  BY OwnStep DEF SequentialInv
<1>2. task = "ports" => TypeOK'
  BY OwnStep, PortsStep DEF SequentialInv
<1>3. task = "header" => HeaderInv'
  BY OwnStep, HeaderStep DEF SequentialInv
<1>4. task = "launch" => LaunchInv'
  BY OwnStep, LaunchStep DEF SequentialInv
<1>5. task = "pem" => IInv'
  BY OwnStep, PemStep DEF SequentialInv
<1>6. task = "label" => LabelInv'
  BY OwnStep, LabelStep DEF SequentialInv
<1> QED
  BY <1>1, <1>2, <1>3, <1>4, <1>5, <1>6 DEF SequentialInv

\* Whichever part runs, its state is one that its code gives it.
THEOREM SequentialTypeCorrect == SequentialSpec => []SequentialTypeOK
<1>1. SequentialInv => SequentialTypeOK
  BY HeaderTypes, LaunchTypes, LabelTypes DEF SequentialInv, SequentialTypeOK, IInv
<1> QED
  BY <1>1, SequentialInitInv, SequentialStep, PTL DEF SequentialSpec
==============================================================================
