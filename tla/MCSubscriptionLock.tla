------------------------- MODULE MCSubscriptionLock -------------------------
(***************************************************************************)
(* One broadcaster's lease: the queue's reconcile, the queue's removal on  *)
(* another replica and a subscribe request.                                *)
(***************************************************************************)
EXTENDS SubscriptionLock

CONSTANTS reconcile, remove, subscribe

MCCalls == {reconcile, remove, subscribe}
MCJobs == {"reconcile"}
MCJob == [c \in Calls |-> IF c = reconcile THEN "reconcile" ELSE NoJob]
MCWait == [c \in Calls |-> c # reconcile]
MCWaitLimit == [c \in Calls |-> IF c = subscribe THEN 1 ELSE 0]
MCBeside == [c \in Calls |-> IF c = subscribe THEN MCJobs ELSE {}]
MCSkew == [c \in Calls |-> IF c = remove THEN MaxSkew ELSE 0]
=============================================================================
