------------------------------- MODULE MCPunch --------------------------------
\* The constants of p2p_client.rs:123 and quic_client.rs:272, in seconds.
EXTENDS Punch

CodeTmo == [s \in Sides |-> IF s = "client" THEN 3 ELSE 1]
CodeTries == [s \in Sides |-> IF s = "client" THEN 5 ELSE 10]

\* The code's timings are of the kind PunchProofs proves about.
ASSUME CodeTimesFit == TimesFit
==============================================================================
