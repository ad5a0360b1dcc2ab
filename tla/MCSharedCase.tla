---------------------------- MODULE MCSharedCase ----------------------------
(* A small instance of SharedCase for TLC. *)
EXTENDS SharedCase, TLC

CONSTANTS c1, d1, d2, u1, u2

\* u1 merges a correspondence, by a method that hands its object on, one that
\* reads the case itself or one with a consumer, and a statement; u2 merges a
\* document to be translated.
MCSentOn     == (c1 :> 1)
MCCallerOf   == (c1 :> u1)
MCLetterType == (c1 :> "APPELLANT")
MCMethods    == (c1 :> {"correspondence", "letter", "adjustmentV2"})
MCAdderOf    == (d1 :> u1) @@ (d2 :> u2)
MCOperation  == (d1 :> "mergeDoc") @@ (d2 :> "mergeDoc")
=============================================================================
