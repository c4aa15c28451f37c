--------------------------- MODULE MCSymmetricPorts --------------------------
\* The observed ports that matter: both sides of every border of the match, and
\* those whose last candidates run past the end of their pool.
EXTENDS SymmetricPorts

Borders == {1025, 16384, 32768, 49152, 60100}

MCStartPorts ==
    {1, 1024, 31769, 32767, 60000, 60999, 64535, 64536, 64537, 65000, 65535}
    \cup UNION {{b - 1, b, b + 1} : b \in Borders}
==============================================================================
