-------------------------- MODULE MCEvidenceUpload --------------------------
(* A small instance of EvidenceUpload for TLC. *)
EXTENDS EvidenceUpload

CONSTANTS f1, f2, f3, b1
=============================================================================
