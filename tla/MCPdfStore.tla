----------------------------- MODULE MCPdfStore -----------------------------
(* A small instance of PdfStore for TLC. *)
EXTENDS PdfStore, TLC

CONSTANTS d1, d2, i1, i2

MCSymmetry == Permutations({d1, d2}) \cup Permutations({i1, i2})
=============================================================================
