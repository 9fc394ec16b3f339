------------------------------ MODULE MCAIQuota ------------------------------
(* Instances of AIQuota for TLC; every constant is a number given in the cfg. *)
EXTENDS AIQuota
==============================================================================
