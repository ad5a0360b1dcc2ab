-------------------------- MODULE MCFileConversion --------------------------
(* A small instance of FileConversion for TLC. *)
EXTENDS FileConversion, TLC

CONSTANTS b1, b2, u1, u2, f1, f2, f3, f4, w1

\* Two batches that share an upload; each may be over when the other begins.
\* The first cannot be converted because of f4, the other can.
MCCallerOf == (b1 :> u1) @@ (b2 :> u2)
MCRequest  == (b1 :> <<f1, f2, f4>>) @@ (b2 :> <<f3, f1>>)
MCKind     == (f1 :> "rtf") @@ (f2 :> "image") @@ (f3 :> "other") @@ (f4 :> "word")
MCStorage  == (f1 :> "disk") @@ (f2 :> "memory") @@ (f3 :> "disk") @@ (f4 :> "bytes")
\* Wide, and upright but limited by its width.
MCImages   == {[width |-> 1300, height |-> 700], [width |-> 700, height |-> 701]}
=============================================================================
