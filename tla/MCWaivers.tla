----------------------------- MODULE MCWaivers -----------------------------
(* Waivers with one that expires early and one that expires late. *)
EXTENDS Waivers

CONSTANTS early, late

MCExpires == [w \in Ids |-> IF w = early THEN 1 ELSE MaxTime]
=============================================================================
