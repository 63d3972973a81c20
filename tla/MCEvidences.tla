---------------------------- MODULE MCEvidences ----------------------------
(***************************************************************************)
(* Deliveries for Evidences: d1 and d2 deliver one evidence, d3 an older   *)
(* one whose fee may be too low.                                           *)
(***************************************************************************)
EXTENDS Evidences, TLC

CONSTANTS d1, d2, d3

KeyOf == [d \in Dgrams |-> IF d = d2 THEN d1 ELSE d]
TsOf  == [d \in Dgrams |-> IF d = d3 THEN 0 ELSE 1]
=============================================================================
