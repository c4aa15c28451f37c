----------------------------- MODULE MCSequential -----------------------------
\* The parts that run alone, together: the small instances of their MC modules, and
\* for labels the characters that tell a parser apart.
EXTENDS Sequential, MCSymmetricPorts, MCHeaderRewrite, MCLaunch

\* PickAt gives what SelectSeq gives.
ASSUME PlacesSelect ==
    \A s \in SeqOf({"a", "b", ":"}, 4) :
        PickAt(s, {k \in DOMAIN s : s[k] # ":"}) = SelectSeq(s, LAMBDA c : c # ":")

MCChars == {"0", "7", "b", "B", "-", ":", "tab", "+", "g"}
==============================================================================
