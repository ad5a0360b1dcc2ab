------------------------------ MODULE SharedCase ------------------------------
(***************************************************************************)
(* CcdNotificationsPdfService and CcdPdfService on one case, as a service  *)
(* uses them: a caller has one SscsCaseData object, makes its calls of     *)
(* both services one after the other, and may hand the object from one to  *)
(* the other.  Whatever submits a case submits all of it, so what one      *)
(* service read travels with what the other changes.                       *)
(*                                                                         *)
(* CcdNotifications is extended and keeps its half of the case, with the   *)
(* correspondence, in ccdCase, held and work; CcdPdf has the documents in  *)
(* docCase and docHeld.  Both halves carry the version of the one case.    *)
(***************************************************************************)
EXTENDS CcdNotifications

CONSTANTS Docs, AdderOf, Operation, Statements, ToTranslate, NoCaseId, NoBenefitType

ASSUME AddersAssumption == AdderOf \in [Docs -> Callers]
ASSUME OperationAssumption == Operation \in [Docs -> {"updateDoc", "mergeDoc", "generate"}]

VARIABLES
    docCase, docHeld, docPc, docToken, docAttempts, docResult, docStored,
    overtaken,
    docWork     \* the documents in the data that a merge is about to submit

docCallVars == <<docPc, docToken, docAttempts, docResult, docStored>>
docVars     == <<docCase, docHeld, docCallVars, overtaken>>
sharedVars  == <<vars, docVars, docWork>>

D == INSTANCE CcdPdf WITH
        CallerOf <- AdderOf, ccdCase <- docCase, held <- docHeld, pc <- docPc,
        token <- docToken, attempts <- docAttempts, result <- docResult,
        stored <- docStored

SharedInit ==
    /\ Init
    /\ D!Init
    /\ docWork = [c \in Correspondences |-> D!EmptyData]

\* A caller is in no call of either service.
AllIdle(u) == IsIdle(u) /\ D!IsIdle(u)

\* A caller's whole object is read, whichever service it is for.
ObjectRead(u) ==
    /\ held'      = [held EXCEPT ![u] = ccdCase.data]
    /\ heldAt'    = [heldAt EXCEPT ![u] = ccdCase.version]
    /\ docHeld'   = [docHeld EXCEPT ![u] = docCase.data]
    /\ overtaken' = overtaken \ {u}

CallerReadsCase(u) ==
    /\ AllIdle(u)
    /\ \/ CallerReads(u) /\ ObjectRead(u) /\ UNCHANGED <<docCase, docCallVars>>
       \/ /\ D!CallerReads(u) /\ ObjectRead(u)
          /\ UNCHANGED <<ccdCase, callVars, storeVars, commits, faults, readAt>>
    /\ UNCHANGED docWork

CallerDies(u) ==
    /\ \/ Crash(u) /\ ObjectRead(u) /\ UNCHANGED <<docCase, docCallVars>>
       \/ /\ D!Crash(u) /\ ObjectRead(u)
          /\ UNCHANGED <<ccdCase, callVars, storeVars, commits, faults, readAt>>
    /\ UNCHANGED docWork

\* The steps of a merge that neither read nor write the case.
MergeGoesOn(c) ==
    /\ \/ AllIdle(CallerOf[c]) /\ Begin(c)
       \/ GeneratePdf(c) \/ MergePdfs(c) \/ UnguardedCallFails(c) \/ EventRejected(c)
    /\ UNCHANGED <<docVars, docWork>>

\* Mutant: a merge that reads the case keeps the documents its caller holds.
DocumentsOfCaller(c) == docHeld[CallerOf[c]]

\* What a merge reads of the case, its documents are read with.
DocumentsRead(c) == docCase.data

MergeReads(c) ==
    /\ \/ /\ StorePdf(c)
          /\ docWork' = [docWork EXCEPT ![c] =
                            IF method[c] = "correspondence" THEN docHeld[CallerOf[c]] ELSE @]
       \/ /\ ReadCase(c)
          /\ docWork' = [docWork EXCEPT ![c] = DocumentsRead(c)]
       \/ /\ StartEvent(c)
          /\ docWork' = [docWork EXCEPT ![c] =
                            IF method[c] \in SnapshotMethods THEN @ ELSE DocumentsRead(c)]
    /\ UNCHANGED docVars

\* Every commit of one half is a commit of the other.
MergeCommits(c) ==
    /\ EventCommitted(c)
    /\ docCase'   = [version |-> ccdCase'.version, data |-> docWork[c]]
    /\ overtaken' = overtaken \cup (IF method[c] = "correspondence"
                                    THEN Callers \ {CallerOf[c]} ELSE Callers)
    /\ UNCHANGED <<docHeld, docCallVars, docWork>>

DocGoesOn(d) ==
    /\ \/ AllIdle(AdderOf[d]) /\ D!Begin(d)
       \/ D!GeneratePdf(d) \/ D!StorePdf(d) \/ D!StartEvent(d) \/ D!EventRejected(d)
    /\ UNCHANGED <<vars, docWork>>

DocCommits(d) ==
    /\ D!EventCommitted(d)
    /\ ccdCase' = [version |-> docCase'.version, data |-> held[AdderOf[d]]]
    /\ UNCHANGED <<held, callVars, storeVars, history, docWork>>

\* External: the events of other services and of caseworkers.
OthersAct ==
    \/ /\ \E c \in Correspondences : ActionLetter(c)
       /\ docCase'   = [docCase EXCEPT !.version = @ + 1]
       /\ overtaken' = Callers
       /\ UNCHANGED <<docHeld, docCallVars, docWork>>
    \/ /\ D!HandleEvidence
       /\ ccdCase' = [ccdCase EXCEPT !.version = @ + 1]
       /\ UNCHANGED <<held, callVars, storeVars, history, docWork>>

SharedNext ==
    \/ \E u \in Callers : CallerReadsCase(u) \/ CallerDies(u)
    \/ \E c \in Correspondences : MergeGoesOn(c) \/ MergeReads(c) \/ MergeCommits(c)
    \/ \E d \in Docs : DocGoesOn(d) \/ DocCommits(d)
    \/ OthersAct

SharedSpec == SharedInit /\ [][SharedNext]_sharedVars
-----------------------------------------------------------------------------
(* Properties *)

\* The two services, on one case and through one object, keep each other's
\* invariants: links exist, flags agree with what they speak of, and nothing
\* is recorded too often.
CaseConsistent ==
    /\ ccdCase.version = docCase.version
    /\ RecordedDocumentsExist /\ OutstandingFlagAgrees /\ ListsNewestFirst
    /\ D!DocumentsExist /\ D!HandledMeansSeen /\ D!TranslationFlagged

NothingTwice == AtMostOncePerUpdate /\ D!NeverTwice

\* An entry of either kind disappears only when somebody submits a whole case
\* that is older than the one it replaces: a caller of CcdPdfService whose
\* object was overtaken, or a V1 merge.
OnlyStaleWholesErase ==
    [][ (\/ D!RecordedIn(docCase.data) \ D!RecordedIn(docCase'.data) # {}
         \/ RecordedIn(ccdCase.data) \ RecordedIn(ccdCase'.data) # {})
        => \/ \E d \in Docs : /\ docPc[d] = "submit" /\ docPc'[d] # "submit"
                              /\ AdderOf[d] \in overtaken
           \/ \E c \in Correspondences : /\ commits'[c] > commits[c]
                                         /\ method[c] \in SnapshotMethods
                                         /\ readAt[c] < ccdCase.version]_sharedVars

\* The methods that update through a consumer leave the documents as they
\* found them, and a document added to the case by a caller whose object is
\* current leaves the correspondence of others as it found it.
OthersHalfKept ==
    [][ /\ \A c \in Correspondences :
              commits'[c] > commits[c] /\ method[c] \notin SnapshotMethods
                 => docCase'.data = docCase.data
        /\ \A d \in Docs :
              docPc[d] = "submit" /\ ccdCase' # ccdCase /\ docPc'[d] # "submit"
                 /\ AdderOf[d] \notin overtaken
                 => \A c \in RecordedIn(ccdCase'.data) :
                       c \in RecordedIn(ccdCase.data)
                         \/ (CallerOf[c] = AdderOf[d] /\ method[c] = "correspondence")
      ]_sharedVars
=============================================================================
