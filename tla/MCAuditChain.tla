----------------------------- MODULE MCAuditChain -----------------------------
(***************************************************************************)
(* AuditChain with two sessions, two contents and every kind of edit.      *)
(***************************************************************************)
EXTENDS AuditChain

CONSTANTS s1, s2, a, b

MCSessions == {s1, s2}
MCEvents   == {a, b}
=============================================================================
