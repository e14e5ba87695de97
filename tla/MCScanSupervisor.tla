-------------------------- MODULE MCScanSupervisor --------------------------
(* Three requests, two of them for one script, and a queue and a batch of two. *)
EXTENDS ScanSupervisor

CONSTANTS r1, r2, r3, s1, s2

MCRequests == {r1, r2, r3}
MCScripts == {s1, s2}
MCScript == [r \in MCRequests |-> IF r = r3 THEN s2 ELSE s1]
=============================================================================
