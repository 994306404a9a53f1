---------------------------- MODULE MCBlueprint ----------------------------
(* Plans of up to four commands, with a failure possible at every command   *)
(* and at every rollback: the shortest plans in which a rollback can fail   *)
(* before, between and after rollbacks that succeed.                        *)
EXTENDS Blueprint
=============================================================================
