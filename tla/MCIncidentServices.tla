------------------------- MODULE MCIncidentServices -------------------------
(***************************************************************************)
(* IncidentServices on two request rows.  plan and variant pass the policy *)
(* engine and differ in a reference; stale names facts that do not exist;  *)
(* astray aims at another credential.                                      *)
(***************************************************************************)
EXTENDS IncidentServices

CONSTANTS r1, r2, plan, variant, stale, astray

MCRequests  == {r1, r2}
MCContents  == {plan, variant, stale, astray}
MCCompliant == {plan, variant}
MCOnTarget  == {plan, variant, stale}
=============================================================================
