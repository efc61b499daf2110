----------------------------- MODULE MCCampaign -----------------------------
(***************************************************************************)
(* Two stages: the results of the first come back one by one; the one      *)
(* element of the second fails, and of it comes what its reduce makes.     *)
(***************************************************************************)
EXTENDS Campaign

MCSize == <<2, 1>>
MCFailing == {<<2, 1>>}
=============================================================================
