------------------------- MODULE MCCcdNotifications -------------------------
(* Small instances of CcdNotifications for TLC. *)
EXTENDS CcdNotifications, TLC

CONSTANTS c1, c2, c3, u1, u2

\* c1 and c2 were sent in the same minute, c3 later; u1 sends c1 and c3.
MCSentOn     == (c1 :> 1) @@ (c2 :> 1) @@ (c3 :> 2)
MCCallerOf   == (c1 :> u1) @@ (c2 :> u2) @@ (c3 :> u1)
MCLetterType == (c1 :> "APPELLANT") @@ (c2 :> "APPELLANT") @@ (c3 :> "APPOINTEE")

\* The instances with two calls, of one caller each.
MC2SentOn     == (c1 :> 1) @@ (c2 :> 2)
MC2CallerOf   == (c1 :> u1) @@ (c2 :> u2)
MC2Addressees == (c1 :> "APPELLANT") @@ (c2 :> "APPOINTEE")
MC2LetterType == (c1 :> "APPELLANT") @@ (c2 :> "APPELLANT")

\* Which methods merge which correspondence.
MCAnyMethod   == [c \in Correspondences |-> AllMethods]
MCJavadoc     == [c \in Correspondences |-> {"correspondenceV2"}]
\* Every method but those that submit a snapshot, beside a retried letter.
MCConsumers   == (c1 :> AllMethods \ SnapshotMethods) @@ (c2 :> {"adjustmentV2"})
\* u1 merges c1 and c3 into the same object while u2 retries c2.
MCSnapshots   == (c1 :> {"correspondence"}) @@ (c2 :> {"letterV2"})
                   @@ (c3 :> {"correspondence"})
=============================================================================
