------------------------------ MODULE PdfStore ------------------------------
(***************************************************************************)
(* PdfStoreService while a service moves from dm-store to the secure store *)
(* and perhaps back: its instances run with different values of            *)
(* feature.secure-doc-store.enabled, and a document stored by one is       *)
(* downloaded by another.  With the secure store on, a download that fails *)
(* with a FeignException is made again from dm-store, in two calls.        *)
(***************************************************************************)
EXTENDS DocStoreCalls

CONSTANTS Instances,   \* instances of the services that use the library
          Documents,   \* documents, each stored by at most one upload
          MaxChanges   \* how often an instance is deployed with another flag

ASSUME ChangesAssumption == MaxChanges \in Nat

VARIABLES
    secure,    \* secureDocStoreEnabled of each instance
    changes,   \* how often the flag of an instance has changed
    holder,    \* the store that holds each document, or "none"
    link,      \* documents whose link a caller was given
    at,        \* where the download of each instance is
    wanted,    \* the document it is for
    outage,    \* history: whether a store failed it for a document it held
    refused    \* history: how the calls of a store without it failed

download == <<at, wanted, outage, refused>>
vars     == <<secure, changes, holder, link, download>>

InDownload == {"secure", "metadata", "binary"}
Returned   == {"content", "empty"}

Init ==
    /\ secure  = [i \in Instances |-> FALSE]
    /\ changes = [i \in Instances |-> 0]
    /\ holder  = [d \in Documents |-> "none"]
    /\ link    = {}
    /\ at      = [i \in Instances |-> "idle"]
    /\ wanted  \in [Instances -> Documents]
    /\ outage  = [i \in Instances |-> FALSE]
    /\ refused = [i \in Instances |-> {}]

\* External: an instance is deployed again; the download it made is lost.
ChangeFlag(i) ==
    /\ changes[i] < MaxChanges
    /\ secure'  = [secure EXCEPT ![i] = ~@]
    /\ changes' = [changes EXCEPT ![i] = @ + 1]
    /\ at'      = [at EXCEPT ![i] = "idle"]
    /\ UNCHANGED <<holder, link, wanted, outage, refused>>

\* External: the retention period of a document ends.
Expire(d) ==
    /\ holder[d] # "none"
    /\ holder' = [holder EXCEPT ![d] = "none"]
    /\ UNCHANGED <<secure, changes, link, download>>

Upload(i, d) ==
    /\ at[i] \notin InDownload
    /\ holder[d] = "none" /\ d \notin link
    /\ \E answer \in UploadAnswers : \E lands \in MayHold(answer) :
          /\ holder' = [holder EXCEPT ![d] =
                           IF ~lands THEN "none" ELSE IF secure[i] THEN "secure" ELSE "dm"]
          /\ link' = IF StoreDocument(secure[i], answer) = "document"
                     THEN link \cup {d} ELSE link
    /\ UNCHANGED <<secure, changes, download>>

BeginDownload(i, d) ==
    /\ at[i] \notin InDownload
    /\ d \in link
    /\ at'      = [at EXCEPT ![i] = IF secure[i] THEN "secure" ELSE "metadata"]
    /\ wanted'  = [wanted EXCEPT ![i] = d]
    /\ outage'  = [outage EXCEPT ![i] = FALSE]
    /\ refused' = [refused EXCEPT ![i] = {}]
    /\ UNCHANGED <<secure, changes, holder, link>>

\* External: what a call of the store may end in, the tokens it needs
\* included, and what that says of the store.  Only what it holds can it
\* give, and any call may fail in any way.
Answered(i, store, answer) ==
    LET holds == holder[wanted[i]] = store IN
    /\ answer \in {"content", "no_body"} => holds
    /\ outage'  = [outage EXCEPT ![i] = @ \/ (holds /\ answer \in Failures)]
    /\ refused' = [refused EXCEPT ![i] = IF holds THEN @ ELSE @ \cup {<<store, answer>>}]

\* Mutant: the missing resource is handed on.
BytesOrNull(answer) == IF answer = "no_body" THEN "null" ELSE "content"

\* The bytes of the resource, or none for a response without one.
BytesOf(answer) == IF answer = "no_body" THEN "empty" ELSE "content"

\* Mutant: the secure store has the last word.
FromSecureOnly(i) ==
    /\ at[i] = "secure"
    /\ \E answer \in {"content", "no_body"} \cup Failures :
          /\ Answered(i, "secure", answer)
          /\ at' = [at EXCEPT ![i] = IF answer \in Failures THEN "thrown" ELSE BytesOf(answer)]
    /\ UNCHANGED <<secure, changes, holder, link, wanted>>

\* Only a FeignException falls back to dm-store.  A client error is thrown as
\* an UnsupportedDocumentTypeException, and any other failure of the store or
\* of getIdamTokens as it is.
FromSecureStore(i) ==
    /\ at[i] = "secure"
    /\ \E answer \in {"content", "no_body"} \cup Failures :
          /\ Answered(i, "secure", answer)
          /\ at' = [at EXCEPT ![i] =
                       IF answer \notin Failures THEN BytesOf(answer)
                       ELSE IF SecureStore(answer) = "feign_error" THEN "metadata"
                       ELSE "thrown"]
    /\ UNCHANGED <<secure, changes, holder, link, wanted>>

\* dm-store: the metadata names the binary, and the binary is another call.
\* Metadata without a body is of no use: an other_error.
FromDmStore(i) ==
    /\ at[i] \in {"metadata", "binary"}
    /\ \E answer \in {"content", "no_body"} \cup Failures :
          /\ at[i] = "metadata" => answer # "no_body"
          /\ Answered(i, "dm", answer)
          /\ at' = [at EXCEPT ![i] =
                       IF answer \in Failures THEN "thrown"
                       ELSE IF at[i] = "metadata" THEN "binary"
                       ELSE BytesOf(answer)]
    /\ UNCHANGED <<secure, changes, holder, link, wanted>>

Next ==
    \/ \E i \in Instances : \/ ChangeFlag(i) \/ FromSecureStore(i) \/ FromDmStore(i)
                            \/ \E d \in Documents : Upload(i, d) \/ BeginDownload(i, d)
    \/ \E d \in Documents : Expire(d)

Spec == Init /\ [][Next]_vars
-----------------------------------------------------------------------------
(* Properties *)

\* The state keeps its shape; a download that returns gives bytes, if none.
TypeOK ==
    /\ secure  \in [Instances -> BOOLEAN]
    /\ changes \in [Instances -> 0..MaxChanges]
    /\ holder  \in [Documents -> {"none", "dm", "secure"}]
    /\ link    \subseteq Documents
    /\ at      \in [Instances -> {"idle", "thrown"} \cup InDownload \cup Returned]
    /\ wanted  \in [Instances -> Documents]
    /\ outage  \in [Instances -> BOOLEAN]
    /\ refused \in [Instances -> SUBSET ({"dm", "secure"} \X Failures)]

\* While the store that holds a document does not fail it, a download of it
\* fails in three cases only: it is in the secure store and the instance has
\* that off; or it is in dm-store, and the secure store, asked first, refused
\* it with a client error, or could not be asked, in a way that the fallback
\* does not cover.
FailedDownloadsExplained ==
    \A i \in Instances :
        at[i] = "thrown" /\ ~outage[i] =>
            /\ holder[wanted[i]] = "secure" => ~secure[i]
            /\ holder[wanted[i]] = "dm" => \E failure \in Failures \ {"feign_error"} :
                                           <<"secure", failure>> \in refused[i]
=============================================================================
