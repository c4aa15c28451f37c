---------------------------- MODULE PemSplitProofs ----------------------------
(***************************************************************************)
(* Proofs about PemSplit, for files of every length: what is returned is   *)
(* the whole certificates of the file, each once, in their order.          *)
(***************************************************************************)
EXTENDS PemSplit, SequenceTheorems, TLAPS

\* A certificate was begun in line b and has not ended yet.
OpenAt(b) == lines[b] = "BEGIN" /\ \A k \in (b + 1)..read : lines[k] = "text"

\* What has been begun is in current_cert, and nothing is when the flag says so.
CurrentIsOpen ==
    /\ in_certificate => \E b \in 1..read : OpenAt(b) /\ current_cert = Interval(b, read)
    /\ ~in_certificate => \A b \in 1..read : ~OpenAt(b)

\* Every certificate returned is a whole one.
Sound ==
    \A k \in DOMAIN certificates :
        \E b, e \in 1..read : IsBlock(b, e) /\ certificates[k] = Interval(b, e)

\* Every whole certificate read so far is returned.
Complete ==
    \A b, e \in 1..read :
        IsBlock(b, e) => \E k \in DOMAIN certificates : certificates[k] = Interval(b, e)

Ordered ==
    \A j, k \in DOMAIN certificates :
        j < k => certificates[j][Len(certificates[j])] < certificates[k][1]

\* A certificate takes two lines, and one that is begun one more.
Counted == 2 * Len(certificates) + (IF in_certificate THEN 1 ELSE 0) <= read

IInv == PemTypeOK /\ CurrentIsOpen /\ Sound /\ Complete /\ Ordered /\ Counted

------------------------------------------------------------------------------

\* The lines of a block, from its first to its last.
LEMMA IntervalFacts ==
  ASSUME NEW b \in Nat \ {0}, NEW e \in Nat, b <= e
  PROVE  /\ Interval(b, e) \in Seq(Nat)
         /\ Len(Interval(b, e)) = e - b + 1
         /\ Len(Interval(b, e)) + b = e + 1
         /\ Interval(b, e)[1] = b
         /\ Interval(b, e)[Len(Interval(b, e))] = e
<1>1. e - b + 1 \in Nat
  OBVIOUS
<1>2. \A k \in 1..(e - b + 1) : b + k - 1 \in Nat
  OBVIOUS
<1>3. Interval(b, e) \in [1..(e - b + 1) -> Nat]
  BY <1>2 DEF Interval
<1>4. Interval(b, e) \in Seq(Nat) /\ Len(Interval(b, e)) = e - b + 1
  BY <1>1, <1>3
<1> QED
  BY <1>1, <1>4 DEF Interval

\* One more line at the end of an interval.
LEMMA IntervalGrows ==
  ASSUME NEW b \in Nat \ {0}, NEW e \in Nat, b <= e
  PROVE  Append(Interval(b, e), e + 1) = Interval(b, e + 1)
<1>1. PICK m \in Nat : m = e - b + 1
  OBVIOUS
<1>2. m + 1 = (e + 1) - b + 1 /\ e + 1 \in Nat /\ b <= e + 1
  BY <1>1
<1> DEFINE s == Interval(b, e)
           t == Interval(b, e + 1)
<1>3. s \in Seq(Nat) /\ Len(s) = m
  BY <1>1, IntervalFacts
<1>4. t \in Seq(Nat) /\ Len(t) = m + 1
  BY <1>2, IntervalFacts
<1>5. \A k \in 1..m : s[k] = t[k]
  BY <1>1 DEF Interval
<1>6. t[m + 1] = e + 1
  BY <1>1 DEF Interval
<1> HIDE DEF s, t
<1>7. /\ Append(s, e + 1) \in Seq(Nat) /\ Len(Append(s, e + 1)) = m + 1
      /\ \A k \in 1..m : Append(s, e + 1)[k] = s[k]
      /\ Append(s, e + 1)[m + 1] = e + 1
  BY <1>2, <1>3, AppendProperties
<1>8. \A k \in 1..(m + 1) : Append(s, e + 1)[k] = t[k]
  <2>1. \A k \in 1..(m + 1) : k \in 1..m \/ k = m + 1
    OBVIOUS
  <2> QED
    BY <1>5, <1>6, <1>7, <2>1
<1>9. Append(s, e + 1) = t
  BY <1>4, <1>7, <1>8, SeqEqual
<1> QED
  BY <1>9 DEF s, t

\* A line that is read: where it is and what is not touched.
LEMMA LineFacts ==
  ASSUME PemTypeOK, NEW kind \in LineKind, Line(kind)
  PROVE  /\ read \in Nat /\ read' = read + 1 /\ read + 1 \in 1..Len(lines)
         /\ lines' = lines /\ lines[read + 1] = kind
  BY DEF PemTypeOK, Line

\* The blocks that end before the new line are those there were.
LEMMA OldBlocks ==
  ASSUME PemTypeOK, NEW kind \in LineKind, Line(kind), kind # "END"
  PROVE  \A b, e \in 1..read' : IsBlock(b, e)' <=> (b \in 1..read /\ e \in 1..read /\ IsBlock(b, e))
<1>1. read \in Nat /\ read' = read + 1 /\ lines' = lines /\ lines[read + 1] # "END"
  BY LineFacts DEF LineKind
<1>2. \A b, e : IsBlock(b, e)' <=> IsBlock(b, e)
  BY <1>1 DEF IsBlock
<1>3. \A b, e \in 1..read' : IsBlock(b, e) => b < e /\ e # read + 1
  BY <1>1 DEF IsBlock
<1> QED
  BY <1>1, <1>2, <1>3

\* With nothing more returned and no block more, both inclusions stay.
LEMMA SameCertificates ==
  ASSUME IInv, certificates' = certificates, read' = read + 1,
         \A b, e \in 1..read' : IsBlock(b, e)' <=> (b \in 1..read /\ e \in 1..read /\ IsBlock(b, e))
  PROVE  Sound' /\ Complete' /\ Ordered'
<1>1. read \in Nat
  BY DEF IInv, PemTypeOK
<1>2. Sound'
  BY <1>1 DEF IInv, Sound, Interval
<1>3. Complete'
  BY <1>1 DEF IInv, Complete, Interval
<1> QED
  BY <1>2, <1>3 DEF IInv, Ordered

\* At first nothing is read, begun or returned.
LEMMA InitInv == PemInit => IInv
<1> SUFFICES ASSUME PemInit PROVE IInv
  OBVIOUS
<1>1. lines \in Seq(LineKind)
  BY PemAssumption DEF PemInit, PemAssumption
<1>2. certificates = <<>> /\ Len(certificates) = 0 /\ DOMAIN certificates = {}
  BY DEF PemInit
<1>3. PemTypeOK /\ Counted
  <2>1. Len(lines) \in Nat
    BY <1>1
  <2>2. read = 0 /\ in_certificate = FALSE
    BY DEF PemInit
  <2>3. certificates \in Seq(Seq(Nat)) /\ current_cert \in Seq(Nat)
    BY DEF PemInit
  <2>4. read \in 0..Len(lines)
    BY <2>1, <2>2
  <2>5. in_certificate \in BOOLEAN
    BY <2>2
  <2>6. 2 * Len(certificates) <= read /\ Counted
    BY <1>2, <2>2 DEF Counted
  <2> QED
    BY <1>1, <2>3, <2>4, <2>5, <2>6 DEF PemTypeOK
<1>4. Sound /\ Ordered
  BY <1>2 DEF Sound, Ordered
<1>5. Complete /\ CurrentIsOpen
  BY DEF PemInit, Complete, CurrentIsOpen
<1> QED
  BY <1>3, <1>4, <1>5 DEF IInv

\* A start drops what was begun before and begins anew.
LEMMA BeginInv == ASSUME IInv, BeginLine PROVE IInv'
<1>1. PemTypeOK /\ "BEGIN" \in LineKind /\ Line("BEGIN")
  BY DEF IInv, BeginLine, LineKind
<1>2. /\ read \in Nat /\ read' = read + 1 /\ read + 1 \in 1..Len(lines)
      /\ lines' = lines /\ lines[read + 1] = "BEGIN"
  BY <1>1, LineFacts
<1>3. in_certificate' = TRUE /\ current_cert' = <<read + 1>> /\ certificates' = certificates
  BY DEF BeginLine
<1>4. Sound' /\ Complete' /\ Ordered'
  BY <1>1, <1>2, <1>3, OldBlocks, SameCertificates
<1>5. Counted'
  BY <1>2, <1>3 DEF IInv, Counted, PemTypeOK
<1>6. PemTypeOK'
  BY <1>2, <1>3, <1>5 DEF IInv, PemTypeOK, Counted
<1>7. CurrentIsOpen'
  <2>1. PICK b \in Nat : b = read + 1
    BY <1>2
  <2>2. b \in Nat \ {0} /\ b \in 1..read' /\ b <= b /\ b = read'
    BY <1>2, <2>1
  <2>3. OpenAt(b)'
    BY <1>2, <2>1 DEF OpenAt
  <2>4. current_cert' = Interval(b, b)
    <3>1. Interval(b, b) \in Seq(Nat) /\ Len(Interval(b, b)) + b = b + 1 /\ Interval(b, b)[1] = b
      BY <2>2, IntervalFacts
    <3>2. Len(Interval(b, b)) = 1
      BY <3>1
    <3>3. Interval(b, b) = <<b>>
      BY <3>1, <3>2
    <3> QED
      BY <1>3, <2>1, <3>3
  <2> QED
    BY <1>3, <2>2, <2>3, <2>4 DEF CurrentIsOpen
<1> QED
  BY <1>4, <1>5, <1>6, <1>7 DEF IInv

\* Any other line is kept with what was begun, and dropped otherwise.
LEMMA OtherInv == ASSUME IInv, OtherLine PROVE IInv'
<1>1. PemTypeOK /\ "text" \in LineKind /\ Line("text")
  BY DEF IInv, OtherLine, LineKind
<1>2. /\ read \in Nat /\ read' = read + 1 /\ read + 1 \in 1..Len(lines)
      /\ lines' = lines /\ lines[read + 1] = "text"
  BY <1>1, LineFacts
<1>3. in_certificate' = in_certificate /\ certificates' = certificates
  BY DEF OtherLine
<1>4. Sound' /\ Complete' /\ Ordered'
  BY <1>1, <1>2, <1>3, OldBlocks, SameCertificates
<1>5. Counted'
  BY <1>2, <1>3 DEF IInv, Counted, PemTypeOK
<1>6. current_cert' \in Seq(Nat)
  BY <1>2 DEF IInv, PemTypeOK, OtherLine
<1>7. PemTypeOK'
  BY <1>2, <1>3, <1>5, <1>6 DEF IInv, PemTypeOK, Counted
<1>8. CurrentIsOpen'
  <2>1. CASE in_certificate
    <3>1. PICK b \in 1..read : OpenAt(b) /\ current_cert = Interval(b, read)
      BY <2>1 DEF IInv, CurrentIsOpen
    <3>2. OpenAt(b)'
      BY <1>2, <3>1 DEF OpenAt
    <3>3. current_cert' = Interval(b, read + 1)
      <4>1. b \in Nat \ {0} /\ b <= read /\ read \in Nat
        BY <1>2
      <4>2. Append(Interval(b, read), read + 1) = Interval(b, read + 1)
        BY <4>1, IntervalGrows
      <4> QED
        BY <2>1, <3>1, <4>2 DEF OtherLine
    <3> QED
      BY <1>2, <1>3, <2>1, <3>2, <3>3 DEF CurrentIsOpen, Interval
  <2>2. CASE ~in_certificate
    <3>1. \A b \in 1..read' : ~OpenAt(b)'
      BY <1>2, <2>2 DEF IInv, CurrentIsOpen, OpenAt
    <3> QED
      BY <1>3, <2>2, <3>1 DEF CurrentIsOpen
  <2> QED
    BY <2>1, <2>2
<1> QED
  BY <1>4, <1>5, <1>7, <1>8 DEF IInv

\* An end without a start ends nothing.
LEMMA StrayEndInv == ASSUME IInv, EndLine, ~in_certificate PROVE IInv'
<1>1. PemTypeOK /\ "END" \in LineKind /\ Line("END")
  BY DEF IInv, EndLine, LineKind
<1>2. /\ read \in Nat /\ read' = read + 1 /\ read + 1 \in 1..Len(lines)
      /\ lines' = lines /\ lines[read + 1] = "END"
  BY <1>1, LineFacts
<1>3. in_certificate' = FALSE /\ certificates' = certificates /\ current_cert' = current_cert
  BY DEF EndLine, Closes
<1>4. \A b \in 1..read : ~OpenAt(b)
  BY DEF IInv, CurrentIsOpen
<1>5. \A b, e \in 1..read' : IsBlock(b, e)' <=> (b \in 1..read /\ e \in 1..read /\ IsBlock(b, e))
  <2>1. \A b, e : IsBlock(b, e)' <=> IsBlock(b, e)
    BY <1>2 DEF IsBlock
  <2>2. \A b \in 1..read : ~IsBlock(b, read + 1)
    BY <1>2, <1>4 DEF IsBlock, OpenAt
  <2>3. \A b, e \in 1..read' : IsBlock(b, e) => b < e
    BY DEF IsBlock
  <2> QED
    BY <1>2, <2>1, <2>2, <2>3
<1>6. Sound' /\ Complete' /\ Ordered'
  BY <1>2, <1>3, <1>5, SameCertificates
<1>7. Counted'
  BY <1>2, <1>3 DEF IInv, Counted, PemTypeOK
<1>8. PemTypeOK'
  <2>1. lines' \in Seq(LineKind) /\ read' \in 0..Len(lines')
    BY <1>2 DEF IInv, PemTypeOK
  <2>2. 2 * Len(certificates') <= read'
    BY <1>3, <1>7 DEF Counted
  <2> QED
    BY <1>3, <2>1, <2>2 DEF IInv, PemTypeOK
<1>9. CurrentIsOpen'
  <2>1. \A b \in 1..read' : ~OpenAt(b)'
    BY <1>2, <1>4 DEF OpenAt
  <2> QED
    BY <1>3, <2>1 DEF CurrentIsOpen
<1> QED
  BY <1>6, <1>7, <1>8, <1>9 DEF IInv

\* An end completes the certificate that was begun last: no other block ends
\* here, and every one returned before has ended before it began.
LEMMA EndInv == ASSUME IInv, EndLine, in_certificate PROVE IInv'
<1>1. PemTypeOK /\ "END" \in LineKind /\ Line("END")
  BY DEF IInv, EndLine, LineKind
<1>2. /\ read \in Nat /\ read' = read + 1 /\ read + 1 \in 1..Len(lines)
      /\ lines' = lines /\ lines[read + 1] = "END"
  BY <1>1, LineFacts
<1>3. PICK b \in 1..read : OpenAt(b) /\ current_cert = Interval(b, read)
  BY DEF IInv, CurrentIsOpen
<1> DEFINE new == Interval(b, read + 1)
           n == Len(certificates) + 1
<1>4. new \in Seq(Nat) /\ new[1] = b /\ new[Len(new)] = read + 1
  <2>1. b \in Nat \ {0} /\ read + 1 \in Nat /\ b <= read + 1
    BY <1>2
  <2> QED
    BY <2>1, IntervalFacts
<1>5. Append(current_cert, read + 1) = new
  <2>1. b \in Nat \ {0} /\ b <= read /\ read \in Nat
    BY <1>2
  <2>2. Append(Interval(b, read), read + 1) = new
    BY <2>1, IntervalGrows
  <2> QED
    BY <1>3, <2>2
<1>6. /\ in_certificate' = FALSE
      /\ current_cert' = new
      /\ certificates' = Append(certificates, new)
  BY <1>5 DEF EndLine, Closes
<1>7. /\ certificates \in Seq(Seq(Nat)) /\ certificates' \in Seq(Seq(Nat))
      /\ n \in Nat /\ Len(certificates') = n /\ DOMAIN certificates' = DOMAIN certificates \cup {n}
      /\ certificates'[n] = new /\ n \notin DOMAIN certificates
      /\ \A k \in DOMAIN certificates : k < n /\ certificates'[k] = certificates[k]
  <2>1. certificates \in Seq(Seq(Nat))
    BY DEF IInv, PemTypeOK
  <2> HIDE DEF new
  <2> QED
    BY <1>4, <1>6, <2>1
<1>8. \A c, e : (IsBlock(c, e)' <=> IsBlock(c, e)) /\ Interval(c, e)' = Interval(c, e)
  BY <1>2 DEF IsBlock, Interval
<1>9. IsBlock(b, read + 1)
  BY <1>2, <1>3 DEF IsBlock, OpenAt
<1>10. \A c, e \in 1..read' : IsBlock(c, e) => c \in 1..read /\ (e \in 1..read \/ (e = read + 1 /\ c = b))
  <2> SUFFICES ASSUME NEW c \in 1..read', NEW e \in 1..read', IsBlock(c, e)
               PROVE  c \in 1..read /\ (e \in 1..read \/ (e = read + 1 /\ c = b))
    OBVIOUS
  <2>1. c < e /\ c \in 1..read /\ e \in 1..(read + 1)
    BY <1>2 DEF IsBlock
  <2>2. CASE e = read + 1
    BY <1>2, <1>3, <2>1, <2>2 DEF IsBlock, OpenAt
  <2> QED
    BY <1>2, <2>1, <2>2
<1>11. Sound'
  <2> SUFFICES ASSUME NEW k \in DOMAIN certificates'
               PROVE  \E c, e \in 1..read' : IsBlock(c, e)' /\ certificates'[k] = Interval(c, e)'
    BY DEF Sound
  <2>1. CASE k = n
    BY <1>2, <1>7, <1>8, <1>9, <2>1
  <2>2. CASE k \in DOMAIN certificates
    <3>1. PICK c, e \in 1..read : IsBlock(c, e) /\ certificates[k] = Interval(c, e)
      BY <2>2 DEF IInv, Sound
    <3>2. c \in 1..read' /\ e \in 1..read'
      BY <1>2, <3>1
    <3>3. certificates'[k] = certificates[k]
      BY <1>7, <2>2
    <3>4. IsBlock(c, e)' /\ certificates'[k] = Interval(c, e)'
      BY <1>8, <3>1, <3>3
    <3> QED
      BY <3>2, <3>4
  <2> QED
    BY <1>7, <2>1, <2>2
<1>12. Complete'
  <2> SUFFICES ASSUME NEW c \in 1..read', NEW e \in 1..read', IsBlock(c, e)
               PROVE  \E k \in DOMAIN certificates' : certificates'[k] = Interval(c, e)
    BY <1>8 DEF Complete
  <2>1. CASE e = read + 1 /\ c = b
    BY <1>7, <2>1
  <2>2. CASE c \in 1..read /\ e \in 1..read
    <3>1. PICK k \in DOMAIN certificates : certificates[k] = Interval(c, e)
      BY <2>2 DEF IInv, Complete
    <3> QED
      BY <1>7, <3>1
  <2> QED
    BY <1>10, <2>1, <2>2
<1>13. Ordered'
  <2>1. \A j \in DOMAIN certificates : certificates[j][Len(certificates[j])] < b
    <3> SUFFICES ASSUME NEW j \in DOMAIN certificates
                 PROVE  certificates[j][Len(certificates[j])] < b
      OBVIOUS
    <3>1. PICK c, e \in 1..read : IsBlock(c, e) /\ certificates[j] = Interval(c, e)
      BY DEF IInv, Sound
    <3>2. e < b
      BY <1>2, <1>3, <3>1 DEF IsBlock, OpenAt
    <3>3. Interval(c, e)[Len(Interval(c, e))] = e
      <4>1. c \in Nat \ {0} /\ e \in Nat /\ c <= e
        BY <1>2, <3>1 DEF IsBlock
      <4> QED
        BY <4>1, IntervalFacts
    <3> QED
      BY <3>1, <3>2, <3>3
  <2> SUFFICES ASSUME NEW j \in DOMAIN certificates', NEW k \in DOMAIN certificates', j < k
               PROVE  certificates'[j][Len(certificates'[j])] < certificates'[k][1]
    BY DEF Ordered
  <2>2. j \in DOMAIN certificates /\ certificates'[j] = certificates[j]
    BY <1>7
  <2>3. CASE k = n
    BY <1>4, <1>7, <2>1, <2>2, <2>3
  <2>4. CASE k \in DOMAIN certificates
    BY <1>7, <2>2, <2>4 DEF IInv, Ordered
  <2> QED
    BY <1>7, <2>3, <2>4
<1>14. Counted'
  BY <1>2, <1>6, <1>7 DEF IInv, Counted, PemTypeOK
<1>15. PemTypeOK'
  <2>1. lines' \in Seq(LineKind) /\ read' \in 0..Len(lines')
    BY <1>2 DEF IInv, PemTypeOK
  <2>2. Len(certificates') \in Nat
    BY <1>7
  <2>3. 2 * Len(certificates') <= read'
    BY <1>6, <1>14 DEF Counted
  <2> HIDE DEF new
  <2> QED
    BY <1>4, <1>6, <1>7, <2>1, <2>3 DEF PemTypeOK
<1>16. CurrentIsOpen'
  <2>1. \A c \in 1..read' : ~OpenAt(c)'
    BY <1>2 DEF OpenAt
  <2> QED
    BY <1>6, <2>1 DEF CurrentIsOpen
<1> QED
  BY <1>11, <1>12, <1>13, <1>14, <1>15, <1>16 DEF IInv

\* Every line keeps the invariant.
LEMMA PemStep == IInv /\ [PemNext]_pemVars => IInv'
<1> SUFFICES ASSUME IInv, [PemNext]_pemVars PROVE IInv'
  OBVIOUS
<1>1. CASE UNCHANGED pemVars
  BY <1>1 DEF pemVars, IInv, PemTypeOK, CurrentIsOpen, Sound, Complete, Ordered, Counted,
              IsBlock, OpenAt, Interval
<1>2. CASE BeginLine \/ EndLine \/ OtherLine
  BY <1>2, BeginInv, EndInv, StrayEndInv, OtherInv
<1> QED
  BY <1>1, <1>2 DEF PemNext, Returns

\* The inductive invariant.
THEOREM Invariant == PemSpec => []IInv
  BY InitInv, PemStep, PTL DEF PemSpec

\* The invariant says what is returned, certificate by certificate.
LEMMA InvGivesWhole == IInv => WholeCertificates
<1> SUFFICES ASSUME IInv PROVE WholeCertificates
  OBVIOUS
<1> DEFINE blocks == {q \in (1..read) \X (1..read) : IsBlock(q[1], q[2])}
<1>1. ASSUME NEW k \in DOMAIN certificates
      PROVE  \E p \in blocks : certificates[k] = Interval(p[1], p[2])
  <2>1. PICK b, e \in 1..read : IsBlock(b, e) /\ certificates[k] = Interval(b, e)
    BY DEF IInv, Sound
  <2>2. <<b, e>> \in blocks /\ <<b, e>>[1] = b /\ <<b, e>>[2] = e
    BY <2>1
  <2> HIDE DEF blocks
  <2> QED
    BY <2>1, <2>2
<1>2. ASSUME NEW p \in blocks
      PROVE  \E k \in DOMAIN certificates : certificates[k] = Interval(p[1], p[2])
  BY DEF IInv, Complete
<1>3. {certificates[k] : k \in DOMAIN certificates} = {Interval(p[1], p[2]) : p \in blocks}
  BY <1>1, <1>2
<1> QED
  BY <1>3 DEF IInv, Ordered, WholeCertificates

\* Whatever else a file holds, and however long it is, its whole certificates are
\* returned, nothing else is, and they come in the order of the file.
THEOREM WholeCorrect == PemSpec => []WholeCertificates
  BY Invariant, InvGivesWhole, PTL
==============================================================================
