----------------------------- MODULE MCWoodward -----------------------------
(* An interval is 5 s in the code, and the windows are 3, 18 and 60 of them: *)
(* here they are the smallest numbers in the same order.  Of the services    *)
(* that the code supervises there are two: while one is kicked, the other    *)
(* waits for its checks.                                                     *)
EXTENDS Woodward

TwoServices == <<"seedbank", "resin">>
=============================================================================
