----------------------------- MODULE MCUpgrade -----------------------------
(* Two services stand for the four: the supervisor, which like resin and the *)
(* seedbank is killed, and bract, which is asked first.                      *)
EXTENDS Upgrade

TwoServices == <<"woodward", "bract">>
TwoIfSlow == [h \in Hosts |-> IF h THEN 2 ELSE 4]

NewFormat == [v \in Versions |-> IF v < 3 THEN 1 ELSE 2]
=============================================================================
