------------------------------ MODULE MCCcdPdf ------------------------------
(* A small instance of CcdPdf for TLC. *)
EXTENDS CcdPdf, TLC

CONSTANTS d1, d2, d3, u1, u2

\* u1 adds d1 and then d2 or the other way round; u2 adds d3.
MCCallerOf  == (d1 :> u1) @@ (d2 :> u1) @@ (d3 :> u2)
\* A statement to add on its own, a document to merge, one to generate.
MCOperation == (d1 :> "updateDoc") @@ (d2 :> "mergeDoc") @@ (d3 :> "generate")
=============================================================================
