------------------------------- MODULE CcdPdf -------------------------------
(***************************************************************************)
(* CcdPdfService, and DocumentManagementService on top of it: a document   *)
(* is stored, added to the SscsCaseData object its caller holds, and that  *)
(* whole object is sent to CCD with ccdService.updateCase, which retries.  *)
(* A caller makes its calls one after the other and may go on with the     *)
(* same object, so that what one call left in it is sent by the next.      *)
(***************************************************************************)
EXTENDS Naturals, Sequences, FiniteSets, Functions, DocStoreCalls

CONSTANTS Docs,           \* the documents, one for each call
          Callers,        \* threads of the services that use the library
          CallerOf,       \* the caller that adds each document
          Operation,      \* how it does: "updateDoc", "mergeDoc" or "generate"
          Statements,     \* documents whose file name is that of a statement
          ToTranslate,    \* documents passed as TRANSLATION_REQUIRED
          NoCaseId,       \* calls without a case id
          NoBenefitType,  \* calls for a case without a benefit type
          SecureEnabled,  \* feature.secure-doc-store.enabled
          MaxAttempts     \* attempts of the retrying CCD client

ASSUME CallersAssumption == CallerOf \in [Docs -> Callers]
ASSUME OperationAssumption == Operation \in [Docs -> {"updateDoc", "mergeDoc", "generate"}]
ASSUME SecureAssumption == SecureEnabled \in BOOLEAN
ASSUME AttemptsAssumption == MaxAttempts \in Nat \ {0}

VARIABLES
    ccdCase,    \* the case in CCD: its version and its data
    held,       \* the SscsCaseData object of each caller
    pc,         \* where the call for each document is
    token,      \* the version the call's event was started on
    attempts,   \* how many events the call has started
    result,     \* what the call returned
    stored,     \* documents a document store holds
    overtaken   \* history: callers whose object others have made stale

callVars == <<pc, token, attempts, result>>
vars     == <<ccdCase, held, callVars, stored, overtaken>>

\* `handled` is the scanned documents a caseworker has dealt with.
Data == [documents       : Seq(Docs),
         scanned         : Seq(Docs),
         evidenceHandled : BOOLEAN,
         handled         : SUBSET Docs,
         translation     : BOOLEAN]

EmptyData == [documents |-> <<>>, scanned |-> <<>>, evidenceHandled |-> TRUE,
              handled |-> {}, translation |-> FALSE]

RecordedIn(d) == Range(d.documents) \cup Range(d.scanned)

Active == {"generate", "store", "start", "submit"}
Ended  == {"returned", "thrown", "crashed"}
IsIdle(u) == \A d \in Docs : CallerOf[d] = u => pc[d] \notin Active

Init ==
    /\ ccdCase   = [version |-> 0, data |-> EmptyData]
    /\ held      = [u \in Callers |-> EmptyData]
    /\ pc        = [d \in Docs |-> "idle"]
    /\ token     = [d \in Docs |-> 0]
    /\ attempts  = [d \in Docs |-> 0]
    /\ result    = [d \in Docs |-> "none"]
    /\ stored    = {}
    /\ overtaken = {}

Goto(d, there) == pc' = [pc EXCEPT ![d] = there]
Leave(d, there, value) == Goto(d, there) /\ result' = [result EXCEPT ![d] = value]

\* External: a caller that still has a call to make takes a fresh copy of
\* the case for it.
CallerReads(u) ==
    /\ IsIdle(u)
    /\ \E d \in Docs : CallerOf[d] = u /\ pc[d] = "idle"
    /\ held' = [held EXCEPT ![u] = ccdCase.data]
    /\ overtaken' = overtaken \ {u}
    /\ UNCHANGED <<ccdCase, callVars, stored>>

\* External: a caseworker deals with the evidence that the case shows.
HandleEvidence ==
    /\ ~ccdCase.data.evidenceHandled
    /\ ccdCase' = [version |-> ccdCase.version + 1,
                   data |-> [ccdCase.data EXCEPT !.evidenceHandled = TRUE,
                                                 !.handled = Range(ccdCase.data.scanned)]]
    /\ overtaken' = Callers
    /\ UNCHANGED <<held, callVars, stored>>

Begin(d) ==
    /\ pc[d] = "idle"
    /\ IsIdle(CallerOf[d])
    /\ Goto(d, IF Operation[d] = "generate" THEN "generate" ELSE "store")
    /\ UNCHANGED <<ccdCase, held, token, attempts, result, stored, overtaken>>

\* generateDocumentAndAddToCcd: the Docmosis call and the IDAM tokens throw.
GeneratePdf(d) ==
    /\ pc[d] = "generate"
    /\ Goto(d, "store") \/ Goto(d, "thrown")
    /\ UNCHANGED <<ccdCase, held, token, attempts, result, stored, overtaken>>

\* buildScannedDocListFromSscsDoc and emptyIfNull: nothing stored, nothing new.
NewEntries(d, link) == IF link THEN <<d>> ELSE <<>>

UpdateCaseDataWithNewDoc(data, d, link) ==
    IF d \in Statements
    THEN [data EXCEPT !.scanned = @ \o NewEntries(d, link), !.evidenceHandled = FALSE]
    ELSE [data EXCEPT !.documents = @ \o NewEntries(d, link)]

\* Mutant: a statement is added only to the documents a caseworker sees.
UpdateDocWithoutEvidence(data, d, link) ==
    IF d \in NoCaseId THEN data
    ELSE [data EXCEPT !.scanned = @ \o NewEntries(d, link)]

\* Mutant: the translation status is passed on to the store only.
UpdateDocWithoutFlag(data, d, link) ==
    IF d \in NoCaseId THEN data ELSE UpdateCaseDataWithNewDoc(data, d, link)

\* Mutant: the new document takes the place of the list.
UpdateDocReplacing(data, d, link) ==
    IF d \in NoCaseId THEN data
    ELSE [data EXCEPT !.documents = NewEntries(d, link)]

\* Mutant: the document is put into the object and into what it returns.
UpdateDocTwice(data, d, link) ==
    IF d \in NoCaseId THEN data
    ELSE UpdateCaseDataWithNewDoc(UpdateCaseDataWithNewDoc(data, d, link), d, link)

(***************************************************************************)
(* updateDoc after the store's answer.  Without a case id the object stays *)
(* as it is; a translation that is required marks the case even when the   *)
(* store failed.                                                           *)
(***************************************************************************)
UpdateDoc(data, d, link) ==
    IF d \in NoCaseId THEN data
    ELSE LET updated == UpdateCaseDataWithNewDoc(data, d, link)
         IN  IF d \in ToTranslate THEN [updated EXCEPT !.translation = TRUE]
                                  ELSE updated

(***************************************************************************)
(* A null from the store is logged with the benefit type of the case, and  *)
(* a case without one throws there.  updateDoc alone is done now; a merge  *)
(* goes on to CCD, with or without a case id.                              *)
(***************************************************************************)
UploadAnswered(d, answer, lands) ==
    LET outcome == StoreDocument(SecureEnabled, answer)
        u       == CallerOf[d]
        throws  == outcome = "throws" \/ (outcome = "null" /\ d \in NoBenefitType)
    IN
    /\ stored' = IF lands THEN stored \cup {d} ELSE stored
    /\ \/ throws /\ Leave(d, "thrown", result[d]) /\ UNCHANGED held
       \/ /\ ~throws
          /\ held' = [held EXCEPT ![u] = UpdateDoc(@, d, outcome = "document")]
          /\ IF Operation[d] = "updateDoc"
             THEN Leave(d, "returned", "data")
             ELSE Leave(d, "start", result[d])

StorePdf(d) ==
    /\ pc[d] = "store"
    /\ \E answer \in UploadAnswers : \E lands \in MayHold(answer) :
          UploadAnswered(d, answer, lands)
    /\ UNCHANGED <<ccdCase, token, attempts, overtaken>>

\* Mutant: the document is added again by every attempt.
StartEventAddingAgain(d) ==
    /\ pc[d] = "start"
    /\ token'    = [token EXCEPT ![d] = ccdCase.version]
    /\ attempts' = [attempts EXCEPT ![d] = @ + 1]
    /\ held'     = [held EXCEPT ![CallerOf[d]] =
                       IF attempts[d] = 0 THEN @ ELSE UpdateDoc(@, d, d \in stored)]
    /\ Goto(d, "submit")
    /\ UNCHANGED <<ccdCase, result, stored, overtaken>>

\* ccdService.updateCase: start the event, then submit the whole object.
StartEvent(d) ==
    /\ pc[d] = "start"
    /\ token'    = [token EXCEPT ![d] = ccdCase.version]
    /\ attempts' = [attempts EXCEPT ![d] = @ + 1]
    /\ Goto(d, "submit")
    /\ UNCHANGED <<ccdCase, held, result, stored, overtaken>>

\* generateDocumentAndAddToCcd returns its Pdf whatever the merge returned.
ReturnOf(d, value) == IF Operation[d] = "generate" THEN "pdf" ELSE value

\* Mutant: the client retries without a bound.
AttemptFailsForever(d) == Leave(d, "start", result[d])

\* A failed attempt: try again, swallow a CcdException, or throw.
AttemptFails(d) ==
    \/ attempts[d] < MaxAttempts /\ Leave(d, "start", result[d])
    \/ Leave(d, "returned", ReturnOf(d, "null"))
    \/ Leave(d, "thrown", result[d])

EventRejected(d) ==
    /\ pc[d] = "submit"
    /\ AttemptFails(d)
    /\ UNCHANGED <<ccdCase, held, token, attempts, stored, overtaken>>

\* CCD knows no case without an id.  An accepted event's answer may be lost.
EventCommitted(d) ==
    /\ pc[d] = "submit"
    /\ d \notin NoCaseId
    /\ token[d] = ccdCase.version
    /\ ccdCase' = [version |-> ccdCase.version + 1, data |-> held[CallerOf[d]]]
    /\ overtaken' = overtaken \cup (Callers \ {CallerOf[d]})
    /\ Leave(d, "returned", ReturnOf(d, "data")) \/ AttemptFails(d)
    /\ UNCHANGED <<held, token, attempts, stored>>

\* A caller dies in a call, and after its restart has read the case again.
Crash(u) ==
    /\ ~IsIdle(u)
    /\ pc' = [d \in Docs |->
                 IF CallerOf[d] = u /\ pc[d] \in Active THEN "crashed" ELSE pc[d]]
    /\ held' = [held EXCEPT ![u] = ccdCase.data]
    /\ overtaken' = overtaken \ {u}
    /\ UNCHANGED <<ccdCase, token, attempts, result, stored>>

CallStep(d) ==
    \/ GeneratePdf(d) \/ StorePdf(d)
    \/ StartEvent(d) \/ EventRejected(d) \/ EventCommitted(d)

Next ==
    \/ \E d \in Docs : Begin(d) \/ CallStep(d)
    \/ \E u \in Callers : CallerReads(u) \/ Crash(u)
    \/ HandleEvidence

Spec == Init /\ [][Next]_vars

-----------------------------------------------------------------------------
(* Properties *)

\* Every variable keeps its shape, the attempts of a call within the bound.
TypeOK ==
    /\ ccdCase   \in [version : Nat, data : Data]
    /\ held      \in [Callers -> Data]
    /\ pc        \in [Docs -> {"idle"} \cup Active \cup Ended]
    /\ token     \in [Docs -> Nat]
    /\ attempts  \in [Docs -> 0..MaxAttempts]
    /\ result    \in [Docs -> {"none", "data", "null", "pdf"}]
    /\ stored    \subseteq Docs
    /\ overtaken \subseteq Callers

\* The case links only to documents a store holds, although what a failed
\* call left in its caller's object is written by later calls.
DocumentsExist == RecordedIn(ccdCase.data) \subseteq stored

Copies(data, d) ==
    Cardinality({i \in DOMAIN data.documents : data.documents[i] = d})
      + Cardinality({i \in DOMAIN data.scanned : data.scanned[i] = d})

\* Retrying a whole-object update, even one whose answer was lost, and
\* reusing the object after a failure never put a document in twice.
NeverTwice == \A d \in Docs : Copies(ccdCase.data, d) <= 1

\* The case claims its evidence handled only if a caseworker has dealt with
\* every scanned document it shows, whatever stale object was written last.
HandledMeansSeen ==
    ccdCase.data.evidenceHandled => Range(ccdCase.data.scanned) \subseteq ccdCase.data.handled

\* A document waiting for translation is never in a case that does not say
\* that translation work is outstanding.
TranslationFlagged ==
    Range(ccdCase.data.documents) \cap ToTranslate # {} => ccdCase.data.translation

\* A document leaves the case only in an update by a caller whose object
\* others have overtaken: a caller that is alone on the case loses nothing,
\* whatever failed, was retried or was left in its object before.
OnlyOvertakenErase ==
    [][\A d \in RecordedIn(ccdCase.data) \ RecordedIn(ccdCase'.data) :
          \E x \in Docs : /\ pc[x] = "submit" /\ pc'[x] # "submit"
                          /\ CallerOf[x] \in overtaken]_vars

(***************************************************************************)
(* What the log message of updateDoc says of a call without a case id: the *)
(* step to update CCD is skipped.  The merges make it all the same.        *)
(***************************************************************************)
NoCaseIdSkipsCcd == \A d \in NoCaseId : attempts[d] = 0
=============================================================================
