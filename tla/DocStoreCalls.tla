---------------------------- MODULE DocStoreCalls ----------------------------
(***************************************************************************)
(* How an answer of a document store reaches the callers of                *)
(* PdfStoreService.  The stores are external; an answer is named by the    *)
(* class of exception the HTTP client raises, which is all that            *)
(* EvidenceManagementService, EvidenceManagementSecureDocStoreService and  *)
(* PdfStoreService tell apart:                                             *)
(*   client_error   HttpClientErrorException, the store refused the call   *)
(*   rest_error     any other RestClientException (5xx, no connection)     *)
(*   feign_error    a FeignException, from a store called through Feign    *)
(*   other_error    anything else, an unusable response included           *)
(* `enabled` is feature.secure-doc-store.enabled of the running instance.  *)
(***************************************************************************)
EXTENDS Naturals

Failures == {"client_error", "rest_error", "feign_error", "other_error"}
UploadAnswers == {"uploaded"} \cup Failures

(***************************************************************************)
(* What may be true of the store after an answer: a refused document is    *)
(* not kept, but a call that broke may have reached the store.             *)
(***************************************************************************)
MayHold(answer) ==
    CASE answer = "uploaded"     -> {TRUE}
      [] answer = "client_error" -> {FALSE}
      [] OTHER                   -> BOOLEAN

\* EvidenceManagementService, the client of dm-store: a client error, and
\* only that, becomes an UnsupportedDocumentTypeException.
DmStore(answer) == IF answer = "client_error" THEN "unsupported" ELSE answer

\* EvidenceManagementSecureDocStoreService does the same.
SecureStore(answer) == IF answer = "client_error" THEN "unsupported" ELSE answer

\* Mutant: a document is built without a look at whether the upload worked.
StoreDocumentUnchecked(enabled, answer) ==
    IF answer \in {"uploaded", "rest_error"} THEN "document" ELSE "throws"

(***************************************************************************)
(* storeDocument and storeSecureDocStore: an SscsDocument with the link,   *)
(* or null for a RestClientException ("carrying on").  Any other exception *)
(* goes through to the caller; UnsupportedDocumentTypeException is none of *)
(* the RestClientExceptions.                                               *)
(***************************************************************************)
StoreDocument(enabled, answer) ==
    LET seen == IF enabled THEN SecureStore(answer) ELSE DmStore(answer)
    IN  CASE seen = "uploaded"   -> "document"
          [] seen = "rest_error" -> "null"
          [] OTHER               -> "throws"
=============================================================================
