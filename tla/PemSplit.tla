------------------------------- MODULE PemSplit -------------------------------
(***************************************************************************)
(* extract_full_pem_certificates: how the relay cuts a PEM file into the   *)
(* certificates of its chain, line by line.  A line is the start or the    *)
(* end of a certificate (it only begins so) or anything else; lines are    *)
(* told apart by their numbers.                                            *)
(***************************************************************************)
EXTENDS Naturals, Sequences

CONSTANT MaxPemLines    \* bound: the longest file

ASSUME PemAssumption == MaxPemLines \in Nat

LineKind == {"BEGIN", "END", "text"}

VARIABLES
    lines,           \* pem_content.lines()
    read,            \* how many have been read
    certificates,    \* what is returned: each a sequence of line numbers
    current_cert,
    in_certificate

pemVars == <<lines, read, certificates, current_cert, in_certificate>>

PemInit ==
    /\ lines \in UNION {[1..n -> LineKind] : n \in 0..MaxPemLines}
    /\ read = 0
    /\ certificates = <<>> /\ current_cert = <<>> /\ in_certificate = FALSE

Line(kind) ==
    /\ read < Len(lines) /\ lines[read + 1] = kind
    /\ read' = read + 1
    /\ UNCHANGED lines

\* A mistake the code avoids: a second start does not drop what was begun.
BeginLine_NoClear ==
    /\ Line("BEGIN")
    /\ in_certificate' = TRUE
    /\ current_cert' = Append(current_cert, read + 1)
    /\ UNCHANGED certificates

\* A mistake the code avoids: a start ends what came before it.
BeginLine_Pushes ==
    /\ Line("BEGIN")
    /\ in_certificate' = TRUE
    /\ certificates' = Append(certificates, current_cert)
    /\ current_cert' = <<read + 1>>

BeginLine ==
    /\ Line("BEGIN")
    /\ in_certificate' = TRUE
    /\ current_cert' = <<read + 1>>
    /\ UNCHANGED certificates

\* A mistake the code avoids: an end without a start counts, too.
Closes_Always == TRUE

Closes == in_certificate

\* current_cert keeps the lines of a certificate that is complete.
EndLine ==
    /\ Line("END")
    /\ in_certificate' = FALSE
    /\ IF Closes
       THEN /\ current_cert' = Append(current_cert, read + 1)
            /\ certificates' = Append(certificates, Append(current_cert, read + 1))
       ELSE UNCHANGED <<current_cert, certificates>>

OtherLine ==
    /\ Line("text")
    /\ current_cert' =
          IF in_certificate THEN Append(current_cert, read + 1) ELSE current_cert
    /\ UNCHANGED <<certificates, in_certificate>>

Returns == read = Len(lines) /\ UNCHANGED pemVars

PemNext == BeginLine \/ EndLine \/ OtherLine \/ Returns

PemSpec == PemInit /\ [][PemNext]_pemVars

(***************************************************************************)
(* What a certificate is: from a start to the next end, with no other start *)
(* or end between.                                                         *)
(***************************************************************************)
IsBlock(b, e) ==
    /\ b < e /\ lines[b] = "BEGIN" /\ lines[e] = "END"
    /\ \A k \in (b + 1)..(e - 1) : lines[k] = "text"

Interval(b, e) == [k \in 1..(e - b + 1) |-> b + k - 1]

PemTypeOK ==
    /\ lines \in Seq(LineKind)
    /\ read \in 0..Len(lines)
    /\ certificates \in Seq(Seq(Nat))
    /\ current_cert \in Seq(Nat)
    /\ in_certificate \in BOOLEAN
    /\ 2 * Len(certificates) <= read

\* Whatever else the file holds (text around, a start that is not ended, an end
\* that was not started), every whole certificate is returned and nothing but
\* whole certificates, each with all its lines; they come in the order of the
\* file, so that the leaf stays the first.
WholeCertificates ==
    /\ {certificates[k] : k \in DOMAIN certificates}
          = {Interval(p[1], p[2]) :
                p \in {q \in (1..read) \X (1..read) : IsBlock(q[1], q[2])}}
    /\ \A j, k \in DOMAIN certificates :
          j < k => certificates[j][Len(certificates[j])] < certificates[k][1]
==============================================================================
