-------------------------------- MODULE Labels --------------------------------
(***************************************************************************)
(* Labels (MAC addresses): how a text becomes the bytes under which a      *)
(* device is registered and looked up, and how they are printed.  The same *)
(* parser is written three times (from_str for the lists, try_from for a   *)
(* browser's host name), with the same steps.                              *)
(*                                                                         *)
(* A text is a sequence of characters: digits of base 16 in either case,   *)
(* separators, and some others.  Characters of several bytes are left out. *)
(***************************************************************************)
EXTENDS Naturals, Sequences, SequencesExt, Places

CONSTANTS
    Chars,      \* the characters of texts
    MacLen,      \* bytes of a label: 6
    MaxText      \* bound: longest text

Lower == <<"0", "1", "2", "3", "4", "5", "6", "7", "8", "9", "a", "b", "c", "d", "e", "f">>
Upper == <<"0", "1", "2", "3", "4", "5", "6", "7", "8", "9", "A", "B", "C", "D", "E", "F">>
Digits == ToSet(Lower) \cup ToSet(Upper)

ASSUME LabelsAssumption == MacLen \in Nat \ {0} /\ MaxText \in Nat

VARIABLES
    text,         \* what was written in a list or as a host name
    labelStage,   \* how far it has come
    mac,          \* Mac
    printed       \* its text

labelVars == <<text, labelStage, mac, printed>>

NoMac == <<>>

LabelInit ==
    /\ text \in SeqOf(Chars, MaxText)
    /\ labelStage = "text" /\ mac = NoMac /\ printed = <<>>

Separators == {":", "-", " "}
White == {" ", "tab"}

ToUpper(c) ==
    IF c \in ToSet(Lower) THEN Upper[CHOOSE k \in DOMAIN Lower : Lower[k] = c] ELSE c

\* What neither replace nor trim takes out.
Solid(s) == {k \in DOMAIN s : s[k] \notin Separators \cup White}

\* A mistake the code avoids: only colons taken out.
Kept_Colons(s) ==
    {k \in DOMAIN s : s[k] # ":" /\ \E a, b \in Solid(s) : a <= k /\ k <= b}

\* replace, replace, replace, trim: white is left between other characters only.
Kept(s) ==
    {k \in DOMAIN s : s[k] \notin Separators /\ \E a, b \in Solid(s) : a <= k /\ k <= b}

\* And to_uppercase.
Cleaned(s) == [n \in 1..Cardinality(Kept(s)) |-> ToUpper(PickAt(s, Kept(s))[n])]

IsDigit(c) == c \in Digits
DigitOf(c) == (CHOOSE k \in DOMAIN Upper : Upper[k] = ToUpper(c)) - 1

\* u8::from_str_radix of two characters: the first may be a sign.
PairParses(x, y) == IsDigit(y) /\ (IsDigit(x) \/ x = "+")
PairValue(x, y) == DigitOf(y) + (IF x = "+" THEN 0 ELSE 16 * DigitOf(x))

LabelParses(s) ==
    /\ Len(Cleaned(s)) = 2 * MacLen
    /\ \A k \in 1..MacLen : PairParses(Cleaned(s)[2 * k - 1], Cleaned(s)[2 * k])

LabelValue(s) == [k \in 1..MacLen |-> PairValue(Cleaned(s)[2 * k - 1], Cleaned(s)[2 * k])]

\* A mistake the code avoids: a small byte printed with a blank ({:2x}).
Hex_Blank(b) == <<IF b < 16 THEN " " ELSE Lower[(b \div 16) + 1], Lower[(b % 16) + 1]>>

\* {:02x}: two characters a byte.
Hex(b) == <<Lower[(b \div 16) + 1], Lower[(b % 16) + 1]>>

Display(m) == [k \in 1..(2 * Len(m)) |-> Hex(m[(k + 1) \div 2])[2 - (k % 2)]]

\* A mistake the code avoids: the bytes before a bad digit taken for the label.
ParseLabelFails_KeepPrefix ==
    /\ labelStage = "text" /\ ~LabelParses(text)
    /\ labelStage' = "parsed"
    /\ \E n \in 0..(MacLen - 1) : mac' = [k \in 1..n |-> 0]
    /\ UNCHANGED <<text, printed>>

\* 50001 for the length, 50002 for a digit.
ParseLabelFails ==
    /\ labelStage = "text" /\ ~LabelParses(text)
    /\ labelStage' = "rejected"
    /\ UNCHANGED <<text, mac, printed>>

ParseLabel ==
    /\ labelStage = "text" /\ LabelParses(text)
    /\ labelStage' = "parsed" /\ mac' = LabelValue(text)
    /\ UNCHANGED <<text, printed>>

\* to_string, as in the p2p headers and the lists that are written.
Printing ==
    /\ labelStage = "parsed"
    /\ labelStage' = "printed" /\ printed' = Display(mac)
    /\ UNCHANGED <<text, mac>>

LabelNext == ParseLabelFails \/ ParseLabel \/ Printing

LabelSpec == LabelInit /\ [][LabelNext]_labelVars

LabelTypeOK ==
    /\ labelStage \in {"text", "rejected", "parsed", "printed"}
    /\ IF labelStage \in {"text", "rejected"} THEN mac = NoMac
       ELSE mac \in [1..MacLen -> 0..255]
    /\ labelStage = "printed" => Len(printed) = 2 * MacLen

\* A label that was printed is found again under the same bytes: the relay
\* answers a p2p request, and a browser finds the device, by the printed text,
\* in either case and with separators of either kind in it.
PrintedFindsDevice ==
    labelStage = "printed" =>
        /\ LabelParses(printed) /\ LabelValue(printed) = mac
        /\ \A c \in Separators, k \in 1..(2 * MacLen) :
             LET other == InsertAt([j \in DOMAIN printed |-> ToUpper(printed[j])], k, c)
             IN  LabelParses(other) /\ LabelValue(other) = mac

\* Every text with the digits of a label is a label, however they are separated
\* and written, and but for a sign in place of a digit no other text is one.
LabelsAreTheDigits ==
    LET digits == PickAt(text, {k \in DOMAIN text : IsDigit(text[k])})
        hexOnly == ToSet(text) \subseteq Digits \cup Separators
    IN  /\ labelStage # "text" /\ hexOnly =>
             ((labelStage # "rejected") <=> Len(digits) = 2 * MacLen)
        /\ labelStage = "parsed" /\ "+" \notin ToSet(text) =>
             /\ Len(digits) = 2 * MacLen
             /\ \A k \in 1..MacLen :
                  mac[k] = 16 * DigitOf(digits[2 * k - 1]) + DigitOf(digits[2 * k])
==============================================================================
