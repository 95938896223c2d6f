--------------------------- MODULE MCTokenRefresh ---------------------------
(***************************************************************************)
(* Two calls whose clocks disagree by the most the safety window allows.   *)
(***************************************************************************)
EXTENDS TokenRefresh
CONSTANTS c1, c2
MCSkew == [c \in Calls |-> IF c = c2 THEN MaxSkew ELSE 0]
=============================================================================
