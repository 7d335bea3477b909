--------------------------- MODULE MCBrainSessions ---------------------------
(* Values of the constants of BrainSessions for TLC.                       *)
EXTENDS BrainSessions, TLC

CONSTANTS s1, s2, s3, s4    \* the sessions a run may choose from

\* s1 and s2 share a client, s1 and s3 a tenant, s4 shares neither.
MCClientOf == [s \in Sessions |-> IF s \in {s1, s2} THEN "c1" ELSE IF s = s3 THEN "c2" ELSE "c3"]
MCTenantOf == [s \in Sessions |-> IF s \in {s1, s3} THEN "t1" ELSE IF s = s2 THEN "t2" ELSE "t3"]

=============================================================================
