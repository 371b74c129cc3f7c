------------------------------ MODULE MCLocEng ------------------------------
(* Instances of LocEng: each run picks the events and the calls that its   *)
(* question is about.                                                      *)
EXTENDS LocEng, TLC

(* Everything but AGPS connections. *)
MCStatusKinds == AllKinds \ ServerKinds

(* Everything but what stops a fix. *)
MCStatusCalls == AllCalls \ {"stop", "cleanup"}
=============================================================================
