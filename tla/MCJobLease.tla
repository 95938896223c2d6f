----------------------------- MODULE MCJobLease -----------------------------
(***************************************************************************)
(* Two replicas, whose clocks agree or of which one is ahead.              *)
(***************************************************************************)
EXTENDS JobLease
CONSTANTS a, b
Two == {a, b}
Ahead == [r \in Replicas |-> IF r = b THEN MaxSkew ELSE 0]
Agreeing == [r \in Replicas |-> 0]
=============================================================================
