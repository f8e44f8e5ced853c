----------------------------- MODULE MCStatement -----------------------------
(* An instance of Statement for TLC. *)
EXTENDS Statement

CONSTANTS a, b, x, y

\* Two tables, one of them listed twice, with one column name in common.
MCNames     == <<a, b, a>>
MCColumnsOf == (a :> <<x, y>>) @@ (b :> <<y>>)
=============================================================================
