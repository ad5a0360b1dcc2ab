-------------------------- MODULE SharedCase_proofs --------------------------
(***************************************************************************)
(* The safety of SharedCase, for any number of callers and calls of both   *)
(* services.  Each half of the case has its own invariant, from the proofs *)
(* about CcdNotifications and CcdPdf, and every step of one service is a   *)
(* step the invariant of the other half must survive as well: a read takes *)
(* both halves, a commit replaces both, the rest leaves the other alone.   *)
(***************************************************************************)
EXTENDS SharedCase, CcdNotificationsUpdates_proofs

DP == INSTANCE CcdPdf_proofs WITH
        CallerOf <- AdderOf, ccdCase <- docCase, held <- docHeld, pc <- docPc,
        token <- docToken, attempts <- docAttempts, result <- docResult,
        stored <- docStored

SameVersion == ccdCase.version = docCase.version

\* What a merge is about to submit of the other service's half is as good as
\* the documents in the case and in the callers' objects.
DocWorkIsGood ==
    /\ docWork \in [Correspondences -> DP!Data]
    /\ \A c \in Correspondences :
          /\ DP!GoodData(docWork[c], docStored)
          /\ \A d \in Docs : docPc[d] \in {"idle", "generate", "store"} =>
                d \notin DP!RecordedIn(docWork[c])

HalvesInv == SameVersion /\ Inv /\ CopiesInv /\ DP!Inv /\ DocWorkIsGood

\* A caller makes one call of either service at a time, and a merge into the
\* caller's own object submits that object as it is.
OneCallAtATime ==
    \A c \in Correspondences : pc[c] \in Active =>
        /\ \A x \in Correspondences \ {c} : pc[x] \in Active => CallerOf[x] # CallerOf[c]
        /\ \A d \in Docs : docPc[d] \in DP!Active => AdderOf[d] # CallerOf[c]

SubmitsItsObject ==
    \A c \in Correspondences :
        method[c] = "correspondence" /\ pc[c] \in {"start", "submit"} =>
            work[c] = held[CallerOf[c]] /\ docWork[c] = docHeld[CallerOf[c]]

\* Case data with all that is recorded in the case, of both kinds.
HoldsCase(data, documents) ==
    /\ RecordedIn(ccdCase.data) \subseteq RecordedIn(data)
    /\ DP!RecordedIn(docCase.data) \subseteq DP!RecordedIn(documents)

\* The entries a caller's own V1 merges put into its object.
PutByCaller(u) ==
    {c \in Correspondences : CallerOf[c] = u /\ method[c] = "correspondence"}

\* An object read at the current version, or not overtaken since, has all
\* that the case has, and the latter no correspondence but the caller's own
\* besides.
HeldHoldsCase ==
    \A u \in Callers :
        /\ heldAt[u] <= ccdCase.version
        /\ heldAt[u] = ccdCase.version => HoldsCase(held[u], docHeld[u])
        /\ u \notin overtaken =>
              /\ HoldsCase(held[u], docHeld[u])
              /\ RecordedIn(held[u]) \subseteq RecordedIn(ccdCase.data) \cup PutByCaller(u)

\* So do the data of a merge that were read at the current version; the
\* documents a consumer was given are those of the case.
WorkHoldsCase ==
    \A c \in Correspondences :
        /\ readAt[c] <= ccdCase.version
        /\ /\ pc[c] = "submit" \/ (pc[c] = "start" /\ method[c] \in SnapshotMethods)
           /\ readAt[c] = ccdCase.version
           => HoldsCase(work[c], docWork[c])
        /\ pc[c] = "submit" /\ method[c] \notin SnapshotMethods =>
              /\ readAt[c] = token[c]
              /\ readAt[c] = ccdCase.version => docWork[c] = docCase.data

ObjectsInv == OneCallAtATime /\ SubmitsItsObject /\ HeldHoldsCase /\ WorkHoldsCase

SharedInv == HalvesInv /\ ObjectsInv
-----------------------------------------------------------------------------
(* The documents *)

\* What CcdPdf assumes of its constants.
LEMMA DocAssumptions ==
    /\ AdderOf \in [Docs -> Callers]
    /\ Operation \in [Docs -> {"updateDoc", "mergeDoc", "generate"}]
    /\ SecureEnabled \in BOOLEAN
    /\ MaxAttempts \in Nat \ {0}
BY AddersAssumption, OperationAssumption, SecureAssumption, AttemptsAssumption

\* The actions of the two instances of CcdPdf are the same.
LEMMA DocActions ==
    ASSUME NEW d, NEW u
    PROVE  /\ D!CallerReads(u) = DP!CallerReads(u) /\ D!Crash(u) = DP!Crash(u)
           /\ D!Begin(d) = DP!Begin(d) /\ D!GeneratePdf(d) = DP!GeneratePdf(d)
           /\ D!StorePdf(d) = DP!StorePdf(d) /\ D!StartEvent(d) = DP!StartEvent(d)
           /\ D!EventRejected(d) = DP!EventRejected(d)
           /\ D!EventCommitted(d) = DP!EventCommitted(d)
           /\ D!HandleEvidence = DP!HandleEvidence
<1>1. D!IsIdle(u) = DP!IsIdle(u)
  BY DEF D!IsIdle, DP!IsIdle, D!Active, DP!Active
<1>2. D!CallerReads(u) = DP!CallerReads(u)
  BY <1>1 DEF D!CallerReads, DP!CallerReads, D!callVars, DP!callVars
<1>3. D!Crash(u) = DP!Crash(u)
  BY <1>1 DEF D!Crash, DP!Crash, D!Active, DP!Active
<1>4. D!Begin(d) = DP!Begin(d)
  BY DEF D!Begin, DP!Begin, D!IsIdle, DP!IsIdle, D!Active, DP!Active, D!Goto, DP!Goto
<1>5. D!GeneratePdf(d) = DP!GeneratePdf(d)
  BY DEF D!GeneratePdf, DP!GeneratePdf, D!Goto, DP!Goto
<1>6. D!StorePdf(d) = DP!StorePdf(d)
  <2>1. ASSUME NEW data, NEW link PROVE D!UpdateDoc(data, d, link) = DP!UpdateDoc(data, d, link)
    BY DEF D!UpdateDoc, DP!UpdateDoc, D!UpdateCaseDataWithNewDoc,
           DP!UpdateCaseDataWithNewDoc, D!NewEntries, DP!NewEntries
  <2>2. ASSUME NEW answer PROVE D!StoreDocument(SecureEnabled, answer)
                                  = DP!StoreDocument(SecureEnabled, answer)
    BY DEF D!StoreDocument, DP!StoreDocument, D!SecureStore, DP!SecureStore,
           D!DmStore, DP!DmStore
  <2>3. ASSUME NEW answer, NEW lands
        PROVE  D!UploadAnswered(d, answer, lands) = DP!UploadAnswered(d, answer, lands)
    BY <2>1, <2>2 DEF D!UploadAnswered, DP!UploadAnswered, D!Leave, DP!Leave, D!Goto, DP!Goto
  <2>4. ASSUME NEW answer PROVE D!MayHold(answer) = DP!MayHold(answer)
    BY DEF D!MayHold, DP!MayHold
  <2>5. D!UploadAnswers = DP!UploadAnswers
    BY DEF D!UploadAnswers, DP!UploadAnswers, D!Failures, DP!Failures
  <2> QED BY <2>3, <2>4, <2>5 DEF D!StorePdf, DP!StorePdf
<1>7. D!StartEvent(d) = DP!StartEvent(d)
  BY DEF D!StartEvent, DP!StartEvent, D!Goto, DP!Goto
<1>8. D!AttemptFails(d) = DP!AttemptFails(d)
  BY DEF D!AttemptFails, DP!AttemptFails, D!Leave, DP!Leave, D!Goto, DP!Goto,
         D!ReturnOf, DP!ReturnOf
<1>9. D!EventRejected(d) = DP!EventRejected(d)
  BY <1>8 DEF D!EventRejected, DP!EventRejected
<1>10. D!EventCommitted(d) = DP!EventCommitted(d)
  BY <1>8 DEF D!EventCommitted, DP!EventCommitted, D!Leave, DP!Leave, D!Goto, DP!Goto,
              D!ReturnOf, DP!ReturnOf
<1>11. D!HandleEvidence = DP!HandleEvidence
  BY DEF D!HandleEvidence, DP!HandleEvidence, D!callVars, DP!callVars, D!Range, DP!Range
<1> QED BY <1>2, <1>3, <1>4, <1>5, <1>6, <1>7, <1>9, <1>10, <1>11

\* A step of CcdPdfService keeps the invariant of its half.
LEMMA DocStepInv ==
    ASSUME DP!Inv, NEW d \in Docs,
           \/ D!Begin(d) \/ D!GeneratePdf(d) \/ D!StorePdf(d) \/ D!StartEvent(d)
           \/ D!EventRejected(d) \/ D!EventCommitted(d) \/ D!HandleEvidence
    PROVE  DP!Inv'
<1>1. DP!Next
  BY DocActions DEF DP!Next, DP!CallStep
<1> QED BY <1>1, DP!StepPreserves, DocAssumptions DEF DP!StepPreserves

LEMMA DocCallerInv ==
    ASSUME DP!Inv, NEW u \in Callers, D!CallerReads(u) \/ D!Crash(u)
    PROVE  DP!Inv'
<1>1. DP!Next
  BY DocActions DEF DP!Next
<1> QED BY <1>1, DP!StepPreserves, DocAssumptions DEF DP!StepPreserves

\* What DP!Inv looks at, when a merge goes on.
LEMMA DocStutterInv ==
    ASSUME DP!Inv, UNCHANGED docVars PROVE DP!Inv'
<1>1. UNCHANGED DP!vars
  BY DEF docVars, docCallVars, DP!vars, DP!callVars
<1> QED BY <1>1, DP!StepPreserves, DocAssumptions DEF DP!StepPreserves

\* A caller takes its object from the case for a call of the other service.
LEMMA DocCopyInv ==
    ASSUME DP!Inv, NEW u \in Callers,
           docHeld' = [docHeld EXCEPT ![u] = docCase.data],
           overtaken' = overtaken \ {u}, UNCHANGED <<docCase, docCallVars>>
    PROVE  DP!Inv'
<1>1. /\ docHeld' \in [Callers -> DP!Data] /\ overtaken' \subseteq Callers
      /\ DP!GoodCopies' /\ DP!CurrentHoldsAll'
      /\ \A v \in Callers : docHeld'[v] \in {docHeld[v], docCase.data}
  BY DP!CopyIsGood, DocAssumptions DEF DP!CopyIsGood, docCallVars
<1>2. DP!TypeOK'
  BY <1>1 DEF DP!Inv, DP!TypeOK, docCallVars
<1>3. DP!NewIsNowhere'
  BY <1>1 DEF DP!Inv, DP!NewIsNowhere, docCallVars
<1>4. DP!AttemptsLeft'
  BY DEF DP!Inv, DP!AttemptsLeft, docCallVars
<1> QED BY <1>1, <1>2, <1>3, <1>4 DEF DP!Inv

\* The case becomes other data, as good as what callers hold, and those who
\* are not overtaken hold all of it.
LEMMA DocCommitInv ==
    ASSUME DP!Inv, NEW e \in DP!Data, DP!GoodData(e, docStored),
           \A d \in Docs : docPc[d] \in {"idle", "generate", "store"} =>
              d \notin DP!RecordedIn(e),
           docCase' = [version |-> docCase.version + 1, data |-> e],
           overtaken' \subseteq Callers,
           \A u \in Callers \ overtaken' : DP!RecordedIn(e) \subseteq DP!RecordedIn(docHeld[u]),
           UNCHANGED <<docHeld, docCallVars>>
    PROVE  DP!Inv'
<1>1. docCase'.data = e /\ docCase' \in [version : Nat, data : DP!Data]
  BY DEF DP!Inv, DP!TypeOK
<1>2. DP!TypeOK'
  BY <1>1 DEF DP!Inv, DP!TypeOK, docCallVars
<1>3. DP!GoodCopies'
  BY <1>1 DEF DP!Inv, DP!GoodCopies, docCallVars
<1>4. DP!NewIsNowhere'
  BY <1>1 DEF DP!Inv, DP!NewIsNowhere, docCallVars
<1>5. DP!AttemptsLeft'
  BY DEF DP!Inv, DP!AttemptsLeft, docCallVars
<1>6. DP!CurrentHoldsAll'
  BY <1>1 DEF DP!Inv, DP!CurrentHoldsAll
<1> QED BY <1>2, <1>3, <1>4, <1>5, <1>6 DEF DP!Inv

\* The documents of a merge stay good while documents are stored and calls
\* go on.
LEMMA DocWorkStays ==
    ASSUME DocWorkIsGood, UNCHANGED docWork, docStored \subseteq docStored',
           \A d \in Docs : docPc'[d] \in {"idle", "generate", "store"} =>
              docPc[d] \in {"idle", "generate", "store"}
    PROVE  DocWorkIsGood'
BY DEF DocWorkIsGood, DP!GoodData

LEMMA DocWorkRead ==
    ASSUME DocWorkIsGood, NEW c \in Correspondences, NEW e \in DP!Data,
           DP!GoodData(e, docStored),
           \A d \in Docs : docPc[d] \in {"idle", "generate", "store"} =>
              d \notin DP!RecordedIn(e),
           docWork' = [docWork EXCEPT ![c] = e], UNCHANGED <<docStored, docPc>>
    PROVE  DocWorkIsGood'
<1>1. docWork' \in [Correspondences -> DP!Data]
  BY DEF DocWorkIsGood
<1>2. ASSUME NEW x \in Correspondences PROVE docWork'[x] = e \/ docWork'[x] = docWork[x]
  BY DEF DocWorkIsGood
<1> QED BY <1>1, <1>2 DEF DocWorkIsGood
-----------------------------------------------------------------------------
(* The correspondence *)

\* A step of CcdNotificationsPdfService keeps the invariants of its half.
LEMMA LibraryStepInv ==
    ASSUME Inv, CopiesInv, [Next]_vars PROVE Inv' /\ CopiesInv'
BY NextInv, NextCopies

\* A caller takes its object from the case for a call of CcdPdfService.
LEMMA LibraryCopyInv ==
    ASSUME Inv, CopiesInv, NEW u \in Callers,
           held' = [held EXCEPT ![u] = ccdCase.data],
           heldAt' = [heldAt EXCEPT ![u] = ccdCase.version],
           UNCHANGED <<ccdCase, callVars, storeVars, commits, faults, readAt>>
    PROVE  Inv' /\ CopiesInv'
<1>1. TypeOK'
  BY DEF Inv, TypeOK, callVars, storeVars
<1>2. GoodCopies'
  BY DEF Inv, TypeOK, GoodCopies, callVars
<1>3. LinksExist' /\ AttemptsLeft'
  BY DEF Inv, LinksExist, AttemptsLeft, callVars, storeVars
<1>4. CopiesInv'
  BY TakeCaseCopies DEF callVars
<1> QED BY <1>1, <1>2, <1>3, <1>4 DEF Inv

\* The case becomes what a caller holds, or stays as it is in a new version.
LEMMA LibraryCommitInv ==
    ASSUME Inv, CopiesInv, NEW e, e = ccdCase.data \/ \E u \in Callers : e = held[u],
           ccdCase' = [version |-> ccdCase.version + 1, data |-> e],
           UNCHANGED <<held, callVars, storeVars, history>>
    PROVE  Inv' /\ CopiesInv'
<1>1. e \in Data /\ GoodData(e, linked)
  BY DEF Inv, TypeOK, GoodCopies
<1>2. ccdCase'.data = e /\ ccdCase' \in [version : Nat, data : Data]
  BY <1>1 DEF Inv, TypeOK
<1>3. TypeOK'
  BY <1>2 DEF Inv, TypeOK, callVars, storeVars, history
<1>4. GoodCopies'
  BY <1>1, <1>2 DEF Inv, GoodCopies, callVars
<1>5. LinksExist' /\ AttemptsLeft'
  BY DEF Inv, LinksExist, AttemptsLeft, callVars, storeVars
<1>6. CopiesInv'
  <2>1. ASSUME NEW x \in Correspondences
        PROVE  Copies(e, x) <= Limit(x) /\ (NoCopies(x) => Copies(e, x) = 0)
    BY DEF CopiesInv, NoCopies
  <2>2. UNCHANGED <<held, work, pc, method, attempts, commits>>
    BY DEF callVars, history
  <2>3. ASSUME NEW x \in Correspondences
        PROVE  /\ Limit(x)' = Limit(x) /\ WorkLimit(x)' = WorkLimit(x)
               /\ Unmerged(x)' <=> Unmerged(x)
               /\ Copies(ccdCase'.data, x) = Copies(e, x)
               /\ NoCopies(x) => NoCopies(x)'
    BY <2>1, <2>2, <1>2 DEF Limit, WorkLimit, Unmerged, NoCopies
  <2> QED BY <2>1, <2>2, <2>3 DEF CopiesInv
<1> QED BY <1>3, <1>4, <1>5, <1>6 DEF Inv
-----------------------------------------------------------------------------
(* The steps of both services, and the invariants of both halves *)

LEMMA CallerReadsCaseHalves ==
    ASSUME SharedInv, NEW u \in Callers, CallerReadsCase(u) PROVE HalvesInv'
<1>0. Inv /\ CopiesInv /\ DP!Inv /\ DocWorkIsGood /\ SameVersion
  BY DEF SharedInv, HalvesInv
<1>1. UNCHANGED <<ccdCase, docCase, docWork, docStored, docPc>>
  BY DEF CallerReadsCase, CallerReads, D!CallerReads, docCallVars, D!callVars
<1>2. Inv' /\ CopiesInv'
  BY <1>0, LibraryStepInv, LibraryCopyInv DEF CallerReadsCase, ObjectRead, Next
<1>3. DP!Inv'
  BY <1>0, DocCallerInv, DocCopyInv DEF CallerReadsCase, ObjectRead
<1>4. DocWorkIsGood'
  BY <1>0, <1>1, DocWorkStays
<1> QED BY <1>0, <1>1, <1>2, <1>3, <1>4 DEF HalvesInv, SameVersion

LEMMA CallerDiesHalves ==
    ASSUME SharedInv, NEW u \in Callers, CallerDies(u) PROVE HalvesInv'
<1>0. Inv /\ CopiesInv /\ DP!Inv /\ DocWorkIsGood /\ SameVersion
  BY DEF SharedInv, HalvesInv
<1>1. UNCHANGED <<ccdCase, docCase, docWork, docStored>>
  BY DEF CallerDies, Crash, D!Crash, docCallVars
<1>2. Inv' /\ CopiesInv'
  BY <1>0, LibraryStepInv, LibraryCopyInv DEF CallerDies, ObjectRead, Next
<1>3. DP!Inv'
  BY <1>0, DocCallerInv, DocCopyInv DEF CallerDies, ObjectRead
<1>4. \A d \in Docs : docPc'[d] \in {"idle", "generate", "store"} =>
          docPc[d] \in {"idle", "generate", "store"}
  BY DEF CallerDies, D!Crash, docCallVars
<1>5. DocWorkIsGood'
  BY <1>0, <1>1, <1>4, DocWorkStays
<1> QED BY <1>0, <1>1, <1>2, <1>3, <1>5 DEF HalvesInv, SameVersion

LEMMA MergeGoesOnHalves ==
    ASSUME SharedInv, NEW c \in Correspondences, MergeGoesOn(c) PROVE HalvesInv'
<1>0. Inv /\ CopiesInv /\ DP!Inv /\ DocWorkIsGood /\ SameVersion
  BY DEF SharedInv, HalvesInv
<1>1. UNCHANGED <<ccdCase, docCase, docWork, docStored, docPc>>
  BY DEF MergeGoesOn, Begin, GeneratePdf, MergePdfs, UnguardedCallFails, EventRejected,
         Throw, docVars, docCallVars
<1>2. Inv' /\ CopiesInv'
  BY <1>0, LibraryStepInv DEF MergeGoesOn, Next, CallStep
<1>3. DP!Inv'
  BY <1>0, DocStutterInv DEF MergeGoesOn
<1>4. DocWorkIsGood'
  BY <1>0, <1>1, DocWorkStays
<1> QED BY <1>0, <1>1, <1>2, <1>3, <1>4 DEF HalvesInv, SameVersion

\* What a merge reads of the documents is in the case or in its caller's
\* object.
LEMMA MergeReadsHalves ==
    ASSUME SharedInv, NEW c \in Correspondences, MergeReads(c) PROVE HalvesInv'
<1>0. Inv /\ CopiesInv /\ DP!Inv /\ DocWorkIsGood /\ SameVersion
  BY DEF SharedInv, HalvesInv
<1>1. UNCHANGED <<ccdCase, docCase, docStored, docPc>>
  BY DEF MergeReads, StorePdf, UploadAnswered, Throw, ReadCase, StartEvent, docVars,
         docCallVars
<1>2. Inv' /\ CopiesInv'
  BY <1>0, LibraryStepInv DEF MergeReads, Next, CallStep
<1>3. DP!Inv'
  BY <1>0, DocStutterInv DEF MergeReads
<1>4. PICK e \in {docHeld[CallerOf[c]], docCase.data, docWork[c]} :
          docWork' = [docWork EXCEPT ![c] = e]
  BY DEF MergeReads, DocumentsRead
<1>5. /\ e \in DP!Data /\ DP!GoodData(e, docStored)
      /\ \A d \in Docs : docPc[d] \in {"idle", "generate", "store"} => d \notin DP!RecordedIn(e)
  <2>1. CASE e = docHeld[CallerOf[c]]
    BY <1>0, <2>1, CallersAssumption DEF DP!Inv, DP!TypeOK, DP!GoodCopies, DP!NewIsNowhere
  <2>2. CASE e = docCase.data
    BY <1>0, <2>2 DEF DP!Inv, DP!TypeOK, DP!GoodCopies, DP!NewIsNowhere
  <2>3. CASE e = docWork[c]
    BY <1>0, <2>3 DEF DocWorkIsGood
  <2> QED BY <2>1, <2>2, <2>3
<1>6. DocWorkIsGood'
  BY <1>0, <1>1, <1>4, <1>5, DocWorkRead
<1> QED BY <1>0, <1>1, <1>2, <1>3, <1>6 DEF HalvesInv, SameVersion

\* A merge commits documents as well.  Only the caller of a V1 notification
\* is not overtaken by it, since the object it holds is what was submitted.
LEMMA MergeCommitsHalves ==
    ASSUME SharedInv, NEW c \in Correspondences, MergeCommits(c) PROVE HalvesInv'
<1>0. Inv /\ CopiesInv /\ DP!Inv /\ DocWorkIsGood /\ SameVersion /\ SubmitsItsObject
  BY DEF SharedInv, HalvesInv, ObjectsInv
<1>1. /\ ccdCase'.version = docCase.version + 1 /\ pc[c] = "submit"
      /\ docCase' = [version |-> docCase.version + 1, data |-> docWork[c]]
      /\ UNCHANGED <<docHeld, docCallVars, docWork>>
  BY <1>0 DEF MergeCommits, EventCommitted, SameVersion
<1>2. Inv' /\ CopiesInv'
  BY <1>0, LibraryStepInv DEF MergeCommits, Next, CallStep
<1>3. overtaken' \subseteq Callers
  BY <1>0 DEF MergeCommits, DP!Inv, DP!TypeOK
<1>4. ASSUME NEW u \in Callers \ overtaken'
      PROVE  docWork[c] = docHeld[u]
  BY <1>0, <1>1, <1>4 DEF MergeCommits, SubmitsItsObject
<1>5. DP!Inv'
  BY <1>0, <1>1, <1>3, <1>4, DocCommitInv DEF DocWorkIsGood
<1>6. DocWorkIsGood'
  BY <1>0, <1>1, DocWorkStays DEF docCallVars
<1> QED BY <1>0, <1>1, <1>2, <1>5, <1>6 DEF HalvesInv, SameVersion

LEMMA DocGoesOnHalves ==
    ASSUME SharedInv, NEW d \in Docs, DocGoesOn(d) PROVE HalvesInv'
<1>0. Inv /\ CopiesInv /\ DP!Inv /\ DocWorkIsGood /\ SameVersion
  BY DEF SharedInv, HalvesInv
<1>1. UNCHANGED <<ccdCase, docCase, docWork>>
  BY DEF DocGoesOn, vars, D!Begin, D!GeneratePdf, D!StorePdf, D!StartEvent, D!EventRejected
<1>2. Inv' /\ CopiesInv'
  BY <1>0, LibraryStepInv DEF DocGoesOn
<1>3. DP!Inv'
  BY <1>0, DocStepInv DEF DocGoesOn
<1>4. /\ docStored \subseteq docStored'
      /\ \A x \in Docs : docPc'[x] \in {"idle", "generate", "store"} =>
            docPc[x] \in {"idle", "generate", "store"}
  <2>1. docPc \in [Docs -> {"idle"} \cup DP!Active \cup DP!Ended]
    BY <1>0 DEF DP!Inv, DP!TypeOK
  <2>2. /\ \A x \in Docs \ {d} : docPc'[x] = docPc[x]
        /\ docPc'[d] \in {"idle", "generate", "store"} => docPc[d] \in {"idle", "generate"}
    BY <2>1 DEF DocGoesOn, D!Begin, D!GeneratePdf, D!StorePdf, D!StartEvent,
                D!EventRejected, D!UploadAnswered, D!AttemptFails, D!Leave, D!Goto
  <2>3. docStored \subseteq docStored'
    BY DEF DocGoesOn, D!Begin, D!GeneratePdf, D!StorePdf, D!StartEvent, D!EventRejected,
           D!UploadAnswered
  <2> QED BY <2>1, <2>2, <2>3 
<1>5. DocWorkIsGood'
  BY <1>0, <1>1, <1>4, DocWorkStays
<1> QED BY <1>0, <1>1, <1>2, <1>3, <1>5 DEF HalvesInv, SameVersion

LEMMA DocCommitsHalves ==
    ASSUME SharedInv, NEW d \in Docs, DocCommits(d) PROVE HalvesInv'
<1>0. Inv /\ CopiesInv /\ DP!Inv /\ DocWorkIsGood /\ SameVersion
  BY DEF SharedInv, HalvesInv
<1>1. /\ docCase' = [version |-> docCase.version + 1, data |-> docHeld[AdderOf[d]]]
      /\ ccdCase' = [version |-> ccdCase.version + 1, data |-> held[AdderOf[d]]]
      /\ UNCHANGED <<docWork, docStored>>
  BY <1>0 DEF DocCommits, D!EventCommitted, SameVersion
<1>2. Inv' /\ CopiesInv'
  BY <1>0, <1>1, LibraryCommitInv, AddersAssumption DEF DocCommits
<1>3. DP!Inv'
  BY <1>0, DocStepInv DEF DocCommits
<1>4. \A x \in Docs : docPc'[x] \in {"idle", "generate", "store"} =>
          docPc[x] \in {"idle", "generate", "store"}
  <2>1. docPc \in [Docs -> {"idle"} \cup DP!Active \cup DP!Ended]
    BY <1>0 DEF DP!Inv, DP!TypeOK
  <2> QED BY <2>1 DEF DocCommits, D!EventCommitted, D!AttemptFails, D!Leave, D!Goto
<1>5. DocWorkIsGood'
  BY <1>0, <1>1, <1>4, DocWorkStays
<1> QED BY <1>0, <1>1, <1>2, <1>3, <1>5 DEF HalvesInv, SameVersion

LEMMA OthersActHalves ==
    ASSUME SharedInv, OthersAct PROVE HalvesInv'
<1>0. Inv /\ CopiesInv /\ DP!Inv /\ DocWorkIsGood /\ SameVersion
  BY DEF SharedInv, HalvesInv
<1>1. CASE \E c \in Correspondences : ActionLetter(c)
           /\ docCase'   = [docCase EXCEPT !.version = @ + 1]
           /\ overtaken' = Callers
           /\ UNCHANGED <<docHeld, docCallVars, docWork>>
  <2>1. docCase' = [version |-> docCase.version + 1, data |-> docCase.data]
    BY <1>0, <1>1 DEF DP!Inv, DP!TypeOK
  <2>2. DP!Inv'
    BY <1>0, <1>1, <2>1, DocCommitInv
       DEF DP!Inv, DP!TypeOK, DP!GoodCopies, DP!NewIsNowhere
  <2>3. Inv' /\ CopiesInv'
    BY <1>0, <1>1, LibraryStepInv DEF Next
  <2>4. DocWorkIsGood'
    BY <1>0, <1>1, DocWorkStays DEF docCallVars
  <2>5. SameVersion'
    BY <1>0, <1>1, <2>1 DEF SameVersion, ActionLetter
  <2> QED BY <2>2, <2>3, <2>4, <2>5 DEF HalvesInv
<1>2. CASE /\ D!HandleEvidence
           /\ ccdCase' = [ccdCase EXCEPT !.version = @ + 1]
           /\ UNCHANGED <<held, callVars, storeVars, history, docWork>>
  <2>1. ccdCase' = [version |-> ccdCase.version + 1, data |-> ccdCase.data]
    BY <1>0, <1>2 DEF Inv, TypeOK
  <2>2. Inv' /\ CopiesInv'
    BY <1>0, <1>2, <2>1, LibraryCommitInv
  <2>3. DP!Inv'
    <3>1. DP!Next
      BY <1>2, DocActions DEF DP!Next
    <3> QED BY <1>0, <3>1, DP!StepPreserves, DocAssumptions DEF DP!StepPreserves
  <2>4. DocWorkIsGood'
    BY <1>0, <1>2, DocWorkStays DEF D!HandleEvidence, D!callVars
  <2>5. SameVersion'
    BY <1>0, <1>2, <2>1 DEF SameVersion, D!HandleEvidence
  <2> QED BY <2>2, <2>3, <2>4, <2>5 DEF HalvesInv
<1> QED BY <1>1, <1>2 DEF OthersAct

LEMMA StutterHalves ==
    ASSUME SharedInv, UNCHANGED sharedVars PROVE HalvesInv'
<1>0. Inv /\ CopiesInv /\ DP!Inv /\ DocWorkIsGood /\ SameVersion
  BY DEF SharedInv, HalvesInv
<1>1. UNCHANGED <<vars, docVars, docWork, ccdCase, docCase, docStored, docPc>>
  BY DEF sharedVars, vars, docVars, docCallVars
<1>2. Inv' /\ CopiesInv' /\ DP!Inv' /\ DocWorkIsGood'
  BY <1>0, <1>1, LibraryStepInv, DocStutterInv, DocWorkStays
<1> QED BY <1>0, <1>1, <1>2 DEF HalvesInv, SameVersion
-----------------------------------------------------------------------------
(* The calls of one caller *)

\* Calls that go on, or end.
LEMMA CallsGoOn ==
    ASSUME OneCallAtATime,
           \A c \in Correspondences : pc'[c] \in Active => pc[c] \in Active,
           \A d \in Docs : docPc'[d] \in DP!Active => docPc[d] \in DP!Active
    PROVE  OneCallAtATime'
BY DEF OneCallAtATime

LEMMA DocActive == D!Active = DP!Active
BY DEF D!Active, DP!Active

\* Begin of either service waits until its caller is in no call of either.
LEMMA MergeGoesOnCalls ==
    ASSUME SharedInv, NEW c \in Correspondences, MergeGoesOn(c)
    PROVE  OneCallAtATime'
<1>0. OneCallAtATime /\ pc \in [Correspondences -> {"idle"} \cup Active \cup Ended]
  BY DEF SharedInv, ObjectsInv, HalvesInv, Inv, TypeOK
<1>1. docPc' = docPc /\ \A x \in Correspondences \ {c} : pc'[x] = pc[x]
  BY <1>0 DEF MergeGoesOn, Begin, GeneratePdf, MergePdfs, UnguardedCallFails,
              EventRejected, AttemptFails, Leave, Throw, Goto, docVars, docCallVars
<1>2. CASE AllIdle(CallerOf[c])
  <2>1. /\ \A x \in Correspondences : CallerOf[x] = CallerOf[c] => pc[x] \notin Active
        /\ \A d \in Docs : AdderOf[d] = CallerOf[c] => docPc[d] \notin DP!Active
    BY <1>2, DocActive DEF AllIdle, IsIdle, D!IsIdle
  <2> QED BY <1>0, <1>1, <2>1 DEF OneCallAtATime
<1>3. CASE GeneratePdf(c) \/ MergePdfs(c) \/ UnguardedCallFails(c) \/ EventRejected(c)
  <2>1. pc[c] \in Active
    BY <1>3 DEF GeneratePdf, MergePdfs, UnguardedCallFails, UnguardedPlace, EventRejected,
                Active
  <2> QED BY <1>0, <1>1, <2>1, CallsGoOn
<1> QED BY <1>2, <1>3 DEF MergeGoesOn

LEMMA MergeCalls ==
    ASSUME SharedInv, NEW c \in Correspondences, MergeReads(c) \/ MergeCommits(c)
    PROVE  OneCallAtATime' /\ docPc' = docPc
<1>0. OneCallAtATime /\ pc \in [Correspondences -> {"idle"} \cup Active \cup Ended]
  BY DEF SharedInv, ObjectsInv, HalvesInv, Inv, TypeOK
<1>1. docPc' = docPc
  BY DEF MergeReads, MergeCommits, docVars, docCallVars
<1>2. pc[c] \in Active
  BY DEF MergeReads, MergeCommits, StorePdf, ReadCase, StartEvent, EventCommitted, Active
<1>3. \A x \in Correspondences \ {c} : pc'[x] = pc[x]
  BY <1>0 DEF MergeReads, MergeCommits, StorePdf, UploadAnswered, ReadCase, StartEvent,
              EventCommitted, Succeed, AttemptFails, Leave, Throw, Goto
<1> QED BY <1>0, <1>1, <1>2, <1>3, CallsGoOn

LEMMA DocCalls ==
    ASSUME SharedInv, NEW d \in Docs, DocGoesOn(d) \/ DocCommits(d)
    PROVE  OneCallAtATime' /\ pc' = pc
<1>0. OneCallAtATime /\ docPc \in [Docs -> {"idle"} \cup DP!Active \cup DP!Ended]
  BY DEF SharedInv, ObjectsInv, HalvesInv, DP!Inv, DP!TypeOK
<1>1. pc' = pc
  BY DEF DocGoesOn, DocCommits, vars, callVars
<1>2. \A x \in Docs \ {d} : docPc'[x] = docPc[x]
  BY <1>0 DEF DocGoesOn, DocCommits, D!Begin, D!GeneratePdf, D!StorePdf, D!UploadAnswered,
              D!StartEvent, D!EventRejected, D!EventCommitted, D!AttemptFails, D!Leave, D!Goto
<1>3. CASE AllIdle(AdderOf[d])
  <2>1. /\ \A x \in Correspondences : CallerOf[x] = AdderOf[d] => pc[x] \notin Active
    BY <1>3 DEF AllIdle, IsIdle
  <2> QED BY <1>0, <1>1, <1>2, <2>1 DEF OneCallAtATime
<1>4. CASE \/ D!GeneratePdf(d) \/ D!StorePdf(d) \/ D!StartEvent(d) \/ D!EventRejected(d)
           \/ DocCommits(d)
  <2>1. docPc[d] \in DP!Active
    BY <1>4 DEF D!GeneratePdf, D!StorePdf, D!StartEvent, D!EventRejected, DocCommits,
                D!EventCommitted, DP!Active
  <2> QED BY <1>0, <1>1, <1>2, <2>1, CallsGoOn
<1> QED BY <1>3, <1>4 DEF DocGoesOn

-----------------------------------------------------------------------------
(* What the objects of the callers hold *)

\* A step that leaves all case data alone.
LEMMA QuietObjects ==
    ASSUME ObjectsInv, OneCallAtATime',
           UNCHANGED <<ccdCase, held, method, work, token, readAt, heldAt,
                       docCase, docHeld, docWork, overtaken>>,
           \A c \in Correspondences :
              /\ pc'[c] = "submit" => pc[c] = "submit"
              /\ pc'[c] = "start" /\ method[c] \in SnapshotMethods =>
                    pc[c] \in {"start", "submit"}
    PROVE  ObjectsInv'
<1>1. SubmitsItsObject'
  BY DEF ObjectsInv, SubmitsItsObject, SnapshotMethods
<1>2. HeldHoldsCase'
  BY DEF ObjectsInv, HeldHoldsCase, HoldsCase, PutByCaller
<1>3. WorkHoldsCase'
  BY DEF ObjectsInv, WorkHoldsCase, HoldsCase
<1> QED BY <1>1, <1>2, <1>3 DEF ObjectsInv

\* A caller that is in no call takes its object from the case.
LEMMA ObjectReadObjects ==
    ASSUME SharedInv, NEW u \in Callers, ObjectRead(u), OneCallAtATime',
           UNCHANGED <<ccdCase, method, work, token, readAt, docCase, docWork>>,
           \A c \in Correspondences :
              /\ pc'[c] \in Active => pc'[c] = pc[c]
              /\ CallerOf[c] = u => pc'[c] \notin Active
    PROVE  ObjectsInv'
<1>0. ObjectsInv /\ TypeOK /\ DP!TypeOK
  BY DEF SharedInv, HalvesInv, Inv, DP!Inv
<1>1. ASSUME NEW v \in Callers, v # u
      PROVE  /\ held'[v] = held[v] /\ heldAt'[v] = heldAt[v] /\ docHeld'[v] = docHeld[v]
             /\ v \in overtaken' <=> v \in overtaken
  BY <1>0, <1>1 DEF ObjectRead, TypeOK, DP!TypeOK
<1>2. /\ held'[u] = ccdCase.data /\ heldAt'[u] = ccdCase.version
      /\ docHeld'[u] = docCase.data
  BY <1>0 DEF ObjectRead, TypeOK, DP!TypeOK
<1>3. SubmitsItsObject'
  <2> SUFFICES ASSUME NEW c \in Correspondences,
                      method[c] = "correspondence", pc'[c] \in {"start", "submit"}
               PROVE  work[c] = held'[CallerOf[c]] /\ docWork[c] = docHeld'[CallerOf[c]]
    BY DEF SubmitsItsObject
  <2>1. pc[c] \in {"start", "submit"} /\ CallerOf[c] \in Callers \ {u}
    BY CallersAssumption DEF Active
  <2> QED BY <1>0, <1>1, <2>1 DEF ObjectsInv, SubmitsItsObject
<1>4. HeldHoldsCase'
  <2> SUFFICES ASSUME NEW v \in Callers
               PROVE  /\ heldAt'[v] <= ccdCase.version
                      /\ heldAt'[v] = ccdCase.version => HoldsCase(held'[v], docHeld'[v])
                      /\ v \notin overtaken' =>
                            /\ HoldsCase(held'[v], docHeld'[v])
                            /\ RecordedIn(held'[v])
                                  \subseteq RecordedIn(ccdCase.data) \cup PutByCaller(v)
    BY DEF HeldHoldsCase, HoldsCase, PutByCaller
  <2>1. CASE v # u
    BY <1>0, <1>1, <2>1 DEF ObjectsInv, HeldHoldsCase
  <2>2. CASE v = u
    BY <1>0, <1>2, <2>2 DEF HoldsCase, TypeOK
  <2> QED BY <2>1, <2>2
<1>5. WorkHoldsCase'
  BY <1>0 DEF ObjectsInv, WorkHoldsCase, HoldsCase, Active
<1> QED BY <1>3, <1>4, <1>5 DEF ObjectsInv

\* A merge takes nothing out of case data, and puts in its own entry at most.
LEMMA MergeKeepsRecorded ==
    ASSUME NEW d \in Data, NEW c \in Correspondences, NEW m, NEW link \in BOOLEAN
    PROVE  /\ RecordedIn(d) \subseteq RecordedIn(Merge(d, c, m, link))
           /\ RecordedIn(Merge(d, c, m, link)) \subseteq RecordedIn(d) \cup {c}
<1> DEFINE new == NewEntries(c, link)
<1>1. new \in Seq(Correspondences) /\ Range(new) \subseteq {c}
  BY NewEntriesFacts
<1>2. ASSUME NEW s \in Seq(Correspondences)
      PROVE  Range(AppendNewestFirst(s, new)) = Range(s) \cup Range(new)
  BY <1>1, AppendNewestFirstFacts
<1> HIDE DEF new
<1>3. CASE m \notin AdjustmentMethods
  <2>1. Merge(d, c, m, link) = MergeCorrespondence(d, new)
    BY <1>3 DEF Merge, new
  <2>2. /\ MergeCorrespondence(d, new).correspondence
             = AppendNewestFirst(d.correspondence, new)
        /\ MergeCorrespondence(d, new).letters = d.letters
    BY DEF MergeCorrespondence, Data
  <2> QED BY <1>1, <1>2, <2>1, <2>2 DEF RecordedIn, LettersIn, Data
<1>4. CASE m \in AdjustmentMethods
  <2> DEFINE b == BuildCorrespondenceByParty(d, new, LetterType[c])
  <2>1. Merge(d, c, m, link) = Recomputed(b)
    BY <1>4 DEF Merge, MergeLetter, new
  <2>2. /\ b \in Data /\ b.correspondence = d.correspondence
        /\ \A p \in Parties : b.letters[p] = d.letters[p]
                              \/ b.letters[p] = AppendNewestFirst(d.letters[p], new)
    BY <1>1, AppendNewestFirstFacts DEF BuildCorrespondenceByParty, Data
  <2> HIDE DEF b
  <2>3. Recomputed(b).correspondence = b.correspondence /\ Recomputed(b).letters = b.letters
    BY <2>2 DEF Recomputed, Data
  <2>4. \A p \in Parties : /\ Range(d.letters[p]) \subseteq Range(b.letters[p])
                           /\ Range(b.letters[p]) \subseteq Range(d.letters[p]) \cup {c}
    BY <1>1, <1>2, <2>2 DEF Data
  <2>5. LettersIn(d) \subseteq LettersIn(b) /\ LettersIn(b) \subseteq LettersIn(d) \cup {c}
    BY <2>4 DEF LettersIn
  <2>6. LettersIn(Recomputed(b)) = LettersIn(b)
    BY <2>3 DEF LettersIn
  <2> QED BY <2>1, <2>2, <2>3, <2>5, <2>6 DEF RecordedIn
<1> QED BY <1>3, <1>4

\* A V1 notification goes into its caller's object, and the whole of that is
\* what it submits.
LEMMA StorePdfObjects ==
    ASSUME SharedInv, NEW c \in Correspondences, MergeReads(c), StorePdf(c),
           OneCallAtATime',
           docWork' = [docWork EXCEPT ![c] =
                          IF method[c] = "correspondence" THEN docHeld[CallerOf[c]] ELSE @]
    PROVE  ObjectsInv'
<1> DEFINE u == CallerOf[c]
<1>0. /\ ObjectsInv /\ TypeOK /\ DocWorkIsGood /\ OneCallAtATime /\ u \in Callers
      /\ pc[c] = "store" /\ pc[c] \in Active
  BY CallersAssumption DEF SharedInv, HalvesInv, Inv, ObjectsInv, StorePdf, Active
<1>1. UNCHANGED <<ccdCase, method, token, heldAt, docCase, docHeld, overtaken>>
  BY DEF MergeReads, docVars, docCallVars, StorePdf, UploadAnswered, Throw, ReadCase, StartEvent
<1>2. /\ \A x \in Correspondences \ {c} :
            pc'[x] = pc[x] /\ work'[x] = work[x] /\ docWork'[x] = docWork[x]
            /\ readAt'[x] = readAt[x]
      /\ pc'[c] \in {"thrown", "read", "start"}
      /\ pc'[c] = "start" => method[c] # "letter"
  BY <1>0 DEF StorePdf, UploadAnswered, Throw, Goto, MergeIntoHeld, TypeOK, DocWorkIsGood
<1>3. \/ pc'[c] # "thrown" /\ method[c] = "correspondence"
      \/ UNCHANGED <<held, work, readAt>> /\ (pc'[c] = "start" => method[c] \notin SnapshotMethods)
  BY <1>0, <1>2 DEF StorePdf, UploadAnswered, Throw, Goto, TypeOK, SnapshotMethods
<1>4. CASE UNCHANGED <<held, work, readAt>> /\ (pc'[c] = "start" => method[c] \notin SnapshotMethods)
  <2>1. SubmitsItsObject'
    BY <1>0, <1>1, <1>2, <1>4 DEF ObjectsInv, SubmitsItsObject, SnapshotMethods
  <2>2. HeldHoldsCase'
    BY <1>0, <1>1, <1>4 DEF ObjectsInv, HeldHoldsCase, HoldsCase, PutByCaller
  <2>3. WorkHoldsCase'
    BY <1>0, <1>1, <1>2, <1>4 DEF ObjectsInv, WorkHoldsCase, HoldsCase
  <2> QED BY <2>1, <2>2, <2>3 DEF ObjectsInv
<1>5. CASE pc'[c] # "thrown" /\ method[c] = "correspondence"
  <2>1. PICK link \in BOOLEAN :
           /\ held'   = [held EXCEPT ![u] = Merge(held[u], c, method[c], link)]
           /\ work'   = [work EXCEPT ![c] = Merge(held[u], c, method[c], link)]
           /\ readAt' = [readAt EXCEPT ![c] = heldAt[u]]
    BY <1>0, <1>5 DEF StorePdf, UploadAnswered, Throw, Goto, MergeIntoHeld, TypeOK
  <2> DEFINE merged == Merge(held[u], c, method[c], link)
  <2>2. /\ RecordedIn(held[u]) \subseteq RecordedIn(merged)
        /\ RecordedIn(merged) \subseteq RecordedIn(held[u]) \cup {c}
    BY <1>0, MergeKeepsRecorded DEF TypeOK
  <2>3. /\ held'[u] = merged /\ work'[c] = merged /\ readAt'[c] = heldAt[u]
        /\ docWork'[c] = docHeld[u]
        /\ \A v \in Callers \ {u} : held'[v] = held[v]
    BY <1>0, <1>5, <2>1 DEF TypeOK, DocWorkIsGood
  <2> HIDE DEF merged
  <2>4. SubmitsItsObject'
    <3> SUFFICES ASSUME NEW x \in Correspondences,
                        method[x] = "correspondence", pc'[x] \in {"start", "submit"}
                 PROVE  work'[x] = held'[CallerOf[x]] /\ docWork'[x] = docHeld[CallerOf[x]]
      BY <1>1 DEF SubmitsItsObject
    <3>1. CASE x = c
      BY <2>3, <3>1
    <3>2. CASE x # c
      <4>1. pc[x] \in Active /\ pc[x] \in {"start", "submit"}
        BY <1>2, <3>2 DEF Active
      <4>2. CallerOf[x] \in Callers \ {u}
        BY <1>0, <3>2, <4>1, CallersAssumption DEF OneCallAtATime
      <4> QED BY <1>0, <1>2, <2>3, <3>2, <4>1, <4>2 DEF ObjectsInv, SubmitsItsObject
    <3> QED BY <3>1, <3>2
  <2>5. HeldHoldsCase'
    <3> SUFFICES ASSUME NEW v \in Callers
                 PROVE  /\ heldAt[v] <= ccdCase.version
                        /\ heldAt[v] = ccdCase.version => HoldsCase(held'[v], docHeld[v])
                        /\ v \notin overtaken =>
                              /\ HoldsCase(held'[v], docHeld[v])
                              /\ RecordedIn(held'[v])
                                    \subseteq RecordedIn(ccdCase.data) \cup PutByCaller(v)
      BY <1>1 DEF HeldHoldsCase, HoldsCase, PutByCaller
    <3>1. CASE v # u
      BY <1>0, <2>3, <3>1 DEF ObjectsInv, HeldHoldsCase
    <3>2. CASE v = u
      BY <1>0, <1>5, <2>2, <2>3, <3>2 DEF ObjectsInv, HeldHoldsCase, HoldsCase, PutByCaller
    <3> QED BY <3>1, <3>2
  <2>6. WorkHoldsCase'
    <3>1. /\ heldAt[u] <= ccdCase.version
          /\ heldAt[u] = ccdCase.version => HoldsCase(merged, docHeld[u])
      BY <1>0, <2>2 DEF ObjectsInv, HeldHoldsCase, HoldsCase
    <3>2. method[c] \in SnapshotMethods
      BY <1>5 DEF SnapshotMethods
    <3> QED BY <1>0, <1>1, <1>2, <2>3, <3>1, <3>2 DEF ObjectsInv, WorkHoldsCase, HoldsCase
  <2> QED BY <2>4, <2>5, <2>6 DEF ObjectsInv
<1> QED BY <1>3, <1>4, <1>5

\* Data read from the case, for a V1 letter or by a consumer, have all that
\* the case has.
LEMMA CaseReadObjects ==
    ASSUME SharedInv, NEW c \in Correspondences, OneCallAtATime',
           work' = [work EXCEPT ![c] = Merge(ccdCase.data, c, method[c], linked[c])],
           readAt' = [readAt EXCEPT ![c] = ccdCase.version],
           docWork' = [docWork EXCEPT ![c] = docCase.data],
           UNCHANGED <<ccdCase, held, method, heldAt, docCase, docHeld, overtaken>>,
           method[c] # "correspondence",
           method[c] \notin SnapshotMethods /\ pc'[c] = "submit" => token'[c] = ccdCase.version,
           \A x \in Correspondences \ {c} : pc'[x] = pc[x] /\ token'[x] = token[x]
    PROVE  ObjectsInv'
<1>0. ObjectsInv /\ TypeOK /\ DocWorkIsGood
  BY DEF SharedInv, HalvesInv, Inv
<1>1. /\ \A x \in Correspondences \ {c} :
            work'[x] = work[x] /\ docWork'[x] = docWork[x] /\ readAt'[x] = readAt[x]
      /\ work'[c] = Merge(ccdCase.data, c, method[c], linked[c])
      /\ docWork'[c] = docCase.data /\ readAt'[c] = ccdCase.version
  BY <1>0 DEF TypeOK, DocWorkIsGood
<1>2. RecordedIn(ccdCase.data) \subseteq RecordedIn(work'[c])
  BY <1>0, <1>1, MergeKeepsRecorded DEF TypeOK
<1>3. SubmitsItsObject'
  BY <1>0, <1>1 DEF ObjectsInv, SubmitsItsObject
<1>4. HeldHoldsCase'
  BY <1>0 DEF ObjectsInv, HeldHoldsCase, HoldsCase, PutByCaller
<1>5. WorkHoldsCase'
  <2> SUFFICES ASSUME NEW x \in Correspondences
               PROVE  /\ readAt'[x] <= ccdCase.version
                      /\ /\ pc'[x] = "submit" \/ (pc'[x] = "start" /\ method[x] \in SnapshotMethods)
                         /\ readAt'[x] = ccdCase.version
                         => HoldsCase(work'[x], docWork'[x])
                      /\ pc'[x] = "submit" /\ method[x] \notin SnapshotMethods =>
                            /\ readAt'[x] = token'[x]
                            /\ readAt'[x] = ccdCase.version => docWork'[x] = docCase.data
    BY DEF WorkHoldsCase, HoldsCase
  <2>1. CASE x = c
    BY <1>0, <1>1, <1>2, <2>1 DEF HoldsCase, TypeOK
  <2>2. CASE x # c
    BY <1>0, <1>1, <2>2 DEF ObjectsInv, WorkHoldsCase
  <2> QED BY <2>1, <2>2
<1> QED BY <1>3, <1>4, <1>5 DEF ObjectsInv

LEMMA MergeReadsObjects ==
    ASSUME SharedInv, NEW c \in Correspondences, MergeReads(c) PROVE ObjectsInv'
<1>0. /\ ObjectsInv /\ TypeOK /\ DocWorkIsGood
      /\ pc[c] = "read" => method[c] = "letter"
  BY DEF SharedInv, HalvesInv, Inv, CopiesInv
<1>1. OneCallAtATime' /\ UNCHANGED <<docCase, docHeld, overtaken>>
  BY MergeCalls DEF MergeReads, docVars
<1>2. CASE /\ StorePdf(c)
           /\ docWork' = [docWork EXCEPT ![c] =
                             IF method[c] = "correspondence" THEN docHeld[CallerOf[c]] ELSE @]
  BY <1>1, <1>2, StorePdfObjects
<1>3. CASE /\ ReadCase(c)
           /\ docWork' = [docWork EXCEPT ![c] = DocumentsRead(c)]
  <2>1. \A x \in Correspondences \ {c} : pc'[x] = pc[x] /\ token'[x] = token[x]
    BY <1>0, <1>3 DEF ReadCase, Goto, TypeOK
  <2>2. pc'[c] # "submit"
    BY <1>0, <1>3 DEF ReadCase, Goto, TypeOK
  <2>3. method[c] # "correspondence"
    BY <1>0, <1>3 DEF ReadCase
  <2> QED BY <1>1, <1>3, <2>1, <2>2, <2>3, CaseReadObjects DEF ReadCase, DocumentsRead
<1>4. CASE /\ StartEvent(c)
           /\ docWork' = [docWork EXCEPT ![c] =
                             IF method[c] \in SnapshotMethods THEN @ ELSE DocumentsRead(c)]
  <2>1. /\ pc[c] = "start" /\ pc'[c] = "submit" /\ token'[c] = ccdCase.version
        /\ \A x \in Correspondences \ {c} : pc'[x] = pc[x] /\ token'[x] = token[x]
        /\ UNCHANGED <<ccdCase, held, method, heldAt>>
    BY <1>0, <1>4 DEF StartEvent, Goto, TypeOK
  <2>2. CASE method[c] \in SnapshotMethods
    <3>1. UNCHANGED <<work, readAt, docWork>>
      BY <1>0, <1>4, <2>2 DEF StartEvent, DocWorkIsGood
    <3>2. SubmitsItsObject'
      BY <1>0, <1>1, <2>1, <3>1 DEF ObjectsInv, SubmitsItsObject
    <3>3. HeldHoldsCase'
      BY <1>0, <1>1, <2>1 DEF ObjectsInv, HeldHoldsCase, HoldsCase, PutByCaller
    <3>4. WorkHoldsCase'
      BY <1>0, <1>1, <2>1, <2>2, <3>1 DEF ObjectsInv, WorkHoldsCase, HoldsCase
    <3> QED BY <1>1, <3>2, <3>3, <3>4 DEF ObjectsInv
  <2>3. CASE method[c] \notin SnapshotMethods
    <3>1. /\ work' = [work EXCEPT ![c] = Merge(ccdCase.data, c, method[c], linked[c])]
          /\ readAt' = [readAt EXCEPT ![c] = ccdCase.version]
          /\ docWork' = [docWork EXCEPT ![c] = docCase.data]
      BY <1>4, <2>3 DEF StartEvent, DocumentsRead
    <3> QED BY <1>1, <2>1, <2>3, <3>1, CaseReadObjects DEF SnapshotMethods
  <2> QED BY <2>2, <2>3
<1> QED BY <1>2, <1>3, <1>4 DEF MergeReads

\* A new version of the case: nothing in memory was read at it, and those
\* who are not overtaken hold what it has.
LEMMA NewVersionObjects ==
    ASSUME SharedInv, OneCallAtATime', ccdCase'.version = ccdCase.version + 1,
           UNCHANGED <<held, method, work, token, readAt, heldAt, docHeld, docWork>>,
           \A c \in Correspondences :
              /\ pc'[c] = "submit" => pc[c] = "submit"
              /\ pc'[c] = "start" => pc[c] \in {"start", "submit"},
           \A u \in Callers \ overtaken' :
              /\ ccdCase'.data = held[u]
              /\ docCase'.data = docHeld[u]
    PROVE  ObjectsInv'
<1>0. ObjectsInv /\ TypeOK
  BY DEF SharedInv, HalvesInv, Inv
<1>1. SubmitsItsObject'
  BY <1>0 DEF ObjectsInv, SubmitsItsObject
<1>2. HeldHoldsCase'
  <2> SUFFICES ASSUME NEW u \in Callers
               PROVE  /\ heldAt[u] <= ccdCase'.version /\ heldAt[u] # ccdCase'.version
                      /\ u \notin overtaken' =>
                            /\ RecordedIn(ccdCase'.data) \subseteq RecordedIn(held[u])
                            /\ DP!RecordedIn(docCase'.data) \subseteq DP!RecordedIn(docHeld[u])
                            /\ RecordedIn(held[u]) \subseteq RecordedIn(ccdCase'.data)
    BY DEF HeldHoldsCase, HoldsCase
  <2>1. heldAt[u] \in Nat /\ ccdCase.version \in Nat /\ heldAt[u] <= ccdCase.version
    BY <1>0 DEF ObjectsInv, HeldHoldsCase, TypeOK
  <2> QED BY <2>1
<1>3. WorkHoldsCase'
  <2>1. \A c \in Correspondences :
            readAt[c] \in Nat /\ ccdCase.version \in Nat /\ readAt[c] <= ccdCase.version
    BY <1>0 DEF ObjectsInv, WorkHoldsCase, TypeOK
  <2> QED BY <1>0, <2>1 DEF ObjectsInv, WorkHoldsCase
<1> QED BY <1>1, <1>2, <1>3 DEF ObjectsInv

LEMMA MergeCommitsObjects ==
    ASSUME SharedInv, NEW c \in Correspondences, MergeCommits(c) PROVE ObjectsInv'
<1>0. ObjectsInv /\ TypeOK /\ DP!TypeOK /\ pc[c] = "submit"
  BY DEF SharedInv, HalvesInv, Inv, DP!Inv, MergeCommits, EventCommitted
<1>1. /\ ccdCase'.version = ccdCase.version + 1 /\ ccdCase'.data = work[c]
      /\ docCase'.data = docWork[c]
      /\ UNCHANGED <<held, method, work, token, readAt, heldAt, docHeld, docWork>>
  BY DEF MergeCommits, EventCommitted
<1>2. /\ \A x \in Correspondences \ {c} : pc'[x] = pc[x]
      /\ pc'[c] # "submit"
  BY <1>0 DEF MergeCommits, EventCommitted, Succeed, AttemptFails, Leave, Goto, TypeOK
<1>3. ASSUME NEW u \in Callers \ overtaken'
      PROVE  method[c] = "correspondence" /\ u = CallerOf[c]
  BY <1>3 DEF MergeCommits
<1>4. \A u \in Callers \ overtaken' : work[c] = held[u] /\ docWork[c] = docHeld[u]
  BY <1>0, <1>3 DEF ObjectsInv, SubmitsItsObject
<1> QED BY <1>0, <1>1, <1>2, <1>4, MergeCalls, NewVersionObjects

LEMMA DocCommitsObjects ==
    ASSUME SharedInv, NEW d \in Docs, DocCommits(d) PROVE ObjectsInv'
<1>1. /\ ccdCase'.version = ccdCase.version + 1
      /\ ccdCase'.data = held[AdderOf[d]] /\ docCase'.data = docHeld[AdderOf[d]]
      /\ UNCHANGED <<held, pc, method, work, token, readAt, heldAt, docHeld, docWork>>
      /\ overtaken' = overtaken \cup (Callers \ {AdderOf[d]})
  BY DEF SharedInv, HalvesInv, SameVersion, DocCommits, D!EventCommitted, callVars, history
<1> QED BY <1>1, DocCalls, NewVersionObjects

LEMMA OthersActObjects ==
    ASSUME SharedInv, OthersAct PROVE ObjectsInv'
<1>0. ObjectsInv /\ TypeOK /\ DP!TypeOK /\ SameVersion
  BY DEF SharedInv, HalvesInv, Inv, DP!Inv
<1>1. /\ ccdCase'.version = ccdCase.version + 1 /\ overtaken' = Callers
      /\ UNCHANGED <<held, pc, method, work, token, readAt, heldAt, docHeld, docWork, docPc>>
  <2>1. CASE \E c \in Correspondences : ActionLetter(c)
             /\ overtaken' = Callers /\ UNCHANGED <<docHeld, docCallVars, docWork>>
    BY <2>1 DEF ActionLetter, callVars, history, docCallVars
  <2>2. CASE /\ D!HandleEvidence /\ ccdCase' = [ccdCase EXCEPT !.version = @ + 1]
             /\ UNCHANGED <<held, callVars, storeVars, history, docWork>>
    BY <1>0, <2>2 DEF D!HandleEvidence, D!callVars, callVars, history, TypeOK
  <2> QED BY <2>1, <2>2 DEF OthersAct
<1>2. OneCallAtATime'
  BY <1>0, <1>1, CallsGoOn DEF ObjectsInv
<1> QED BY <1>1, <1>2, NewVersionObjects

LEMMA CallerReadsCaseObjects ==
    ASSUME SharedInv, NEW u \in Callers, CallerReadsCase(u) PROVE ObjectsInv'
<1>0. ObjectsInv /\ TypeOK
  BY DEF SharedInv, HalvesInv, Inv
<1>1. /\ ObjectRead(u)
      /\ UNCHANGED <<ccdCase, pc, method, work, token, readAt, docCase, docWork, docPc>>
  BY DEF CallerReadsCase, CallerReads, D!CallerReads, callVars, docCallVars, D!callVars
<1>2. OneCallAtATime'
  BY <1>0, <1>1, CallsGoOn DEF ObjectsInv
<1>3. \A c \in Correspondences : CallerOf[c] = u => pc'[c] \notin Active
  BY <1>1 DEF CallerReadsCase, AllIdle, IsIdle
<1> QED BY <1>1, <1>2, <1>3, ObjectReadObjects

\* A caller that dies in a call of one service is in none of the other.
LEMMA CallerDiesObjects ==
    ASSUME SharedInv, NEW u \in Callers, CallerDies(u) PROVE ObjectsInv'
<1>0. ObjectsInv /\ TypeOK /\ DP!TypeOK
  BY DEF SharedInv, HalvesInv, Inv, DP!Inv
<1>1. /\ ObjectRead(u)
      /\ UNCHANGED <<ccdCase, method, work, token, readAt, docCase, docWork>>
  BY DEF CallerDies, Crash, D!Crash, callVars, docCallVars
<1>2. /\ \A c \in Correspondences : pc'[c] \in Active => pc'[c] = pc[c]
      /\ \A d \in Docs : docPc'[d] \in DP!Active => docPc[d] \in DP!Active
  BY DocActive DEF CallerDies, Crash, D!Crash, callVars, docCallVars, DP!Active, Active
<1>3. OneCallAtATime'
  BY <1>0, <1>2, CallsGoOn DEF ObjectsInv
<1>4. ASSUME NEW c \in Correspondences, CallerOf[c] = u PROVE pc'[c] \notin Active
  <2>1. CASE Crash(u)
    BY <2>1, <1>4 DEF Crash, Active
  <2>2. CASE D!Crash(u) /\ UNCHANGED callVars
    <3>1. PICK d \in Docs : AdderOf[d] = u /\ docPc[d] \in DP!Active
      BY <2>2, DocActive DEF D!Crash, D!IsIdle
    <3> QED BY <1>0, <1>4, <2>2, <3>1 DEF ObjectsInv, OneCallAtATime, callVars
  <2> QED BY <2>1, <2>2 DEF CallerDies
<1> QED BY <1>1, <1>2, <1>3, <1>4, ObjectReadObjects

LEMMA MergeGoesOnObjects ==
    ASSUME SharedInv, NEW c \in Correspondences, MergeGoesOn(c) PROVE ObjectsInv'
<1>0. ObjectsInv /\ TypeOK
  BY DEF SharedInv, HalvesInv, Inv
<1>1. UNCHANGED <<ccdCase, held, method, work, token, readAt, heldAt,
                  docCase, docHeld, docWork, overtaken>>
  BY DEF MergeGoesOn, Begin, GeneratePdf, MergePdfs, UnguardedCallFails, EventRejected,
         Throw, docVars, history
<1>2. ASSUME NEW x \in Correspondences
      PROVE  /\ pc'[x] = "submit" => pc[x] = "submit"
             /\ pc'[x] = "start" => pc[x] \in {"start", "submit"}
  BY <1>0 DEF MergeGoesOn, Begin, GeneratePdf, MergePdfs, UnguardedCallFails,
              EventRejected, AttemptFails, Leave, Throw, Goto, TypeOK
<1> QED BY <1>0, <1>1, <1>2, MergeGoesOnCalls, QuietObjects

\* updateDoc puts a document into its caller's object, of which no merge of
\* the same caller is under way.
LEMMA DocGoesOnObjects ==
    ASSUME SharedInv, NEW d \in Docs, DocGoesOn(d) PROVE ObjectsInv'
<1>0. /\ ObjectsInv /\ TypeOK /\ DP!TypeOK /\ OneCallAtATime' /\ pc' = pc /\ DP!Inv
  BY DocCalls DEF SharedInv, HalvesInv, Inv, DP!Inv
<1>1. UNCHANGED <<ccdCase, held, method, work, token, readAt, heldAt,
                  docCase, docWork, overtaken>>
  BY DEF DocGoesOn, vars, callVars, history, D!Begin, D!GeneratePdf, D!StorePdf,
         D!StartEvent, D!EventRejected
<1>2. CASE UNCHANGED docHeld
  BY <1>0, <1>1, <1>2, QuietObjects
<1>3. CASE D!StorePdf(d)
  <2>1. /\ docPc[d] \in DP!Active
        /\ \A u \in Callers \ {AdderOf[d]} : docHeld'[u] = docHeld[u]
    BY <1>0, <1>3 DEF D!StorePdf, D!UploadAnswered, DP!Active, DP!TypeOK
  <2>2. ASSUME NEW u \in Callers
        PROVE  DP!RecordedIn(docHeld[u]) \subseteq DP!RecordedIn(docHeld'[u])
    <3>1. CASE u # AdderOf[d]
      BY <2>1, <3>1
    <3>2. CASE u = AdderOf[d]
      <4>1. DP!StorePdf(d)
        BY <1>3, DocActions
      <4>2. PICK link \in BOOLEAN :
                docHeld'[u] \in {docHeld[u], DP!UpdateDoc(docHeld[u], d, link)}
        BY <1>0, <3>2, <4>1 DEF DP!StorePdf, DP!UploadAnswered, DP!TypeOK
      <4>3. DP!RecordedIn(docHeld[u]) \subseteq DP!RecordedIn(DP!UpdateDoc(docHeld[u], d, link))
        <5>1. /\ docHeld[u] \in DP!Data /\ DP!GoodData(docHeld[u], docStored \cup {d})
              /\ d \notin DP!RecordedIn(docHeld[u])
          BY <1>0, <4>1 DEF DP!Inv, DP!TypeOK, DP!GoodCopies, DP!GoodData,
                            DP!NewIsNowhere, DP!StorePdf
        <5> QED BY <5>1, DP!UpdateDocIsGood, DocAssumptions DEF DP!UpdateDocIsGood
      <4> QED BY <4>2, <4>3
    <3> QED BY <3>1, <3>2
  <2>3. SubmitsItsObject'
    <3> SUFFICES ASSUME NEW c \in Correspondences,
                        method[c] = "correspondence", pc[c] \in {"start", "submit"}
                 PROVE  work[c] = held[CallerOf[c]] /\ docWork[c] = docHeld'[CallerOf[c]]
      BY <1>0, <1>1 DEF SubmitsItsObject
    <3>1. CallerOf[c] \in Callers \ {AdderOf[d]}
      BY <1>0, <2>1, CallersAssumption DEF ObjectsInv, OneCallAtATime, Active
    <3> QED BY <1>0, <2>1, <3>1 DEF ObjectsInv, SubmitsItsObject
  <2>4. HeldHoldsCase'
    BY <1>0, <1>1, <2>2 DEF ObjectsInv, HeldHoldsCase, HoldsCase, PutByCaller
  <2>5. WorkHoldsCase'
    BY <1>0, <1>1 DEF ObjectsInv, WorkHoldsCase, HoldsCase
  <2> QED BY <1>0, <2>3, <2>4, <2>5 DEF ObjectsInv
<1>4. UNCHANGED docHeld \/ D!StorePdf(d)
  BY DEF DocGoesOn, D!Begin, D!GeneratePdf, D!StartEvent, D!EventRejected
<1> QED BY <1>2, <1>3, <1>4

LEMMA StutterObjects ==
    ASSUME SharedInv, UNCHANGED sharedVars PROVE ObjectsInv'
<1>1. UNCHANGED <<ccdCase, held, pc, method, work, token, readAt, heldAt,
                  docCase, docHeld, docPc, docWork, overtaken>>
  BY DEF sharedVars, vars, callVars, history, docVars, docCallVars
<1>2. OneCallAtATime'
  BY <1>1, CallsGoOn DEF SharedInv, ObjectsInv
<1> QED BY <1>1, <1>2, QuietObjects DEF SharedInv

-----------------------------------------------------------------------------
(* The invariant *)

LEMMA SharedInitInv == SharedInit => SharedInv
<1> SUFFICES ASSUME SharedInit PROVE SharedInv
  OBVIOUS
<1>1. Inv /\ CopiesInv
  BY InitInv, InitCopies DEF SharedInit
<1>2. DP!Inv
  <2>1. DP!Init
    BY DEF SharedInit, D!Init, DP!Init, D!EmptyData, DP!EmptyData
  <2> QED BY <2>1, DP!InitEstablishes, DocAssumptions DEF DP!InitEstablishes
<1>3. /\ docWork = [c \in Correspondences |-> DP!EmptyData]
      /\ docCase = [version |-> 0, data |-> DP!EmptyData]
      /\ docHeld = [u \in Callers |-> DP!EmptyData]
      /\ docPc = [d \in Docs |-> "idle"] /\ overtaken = {}
  BY DEF SharedInit, D!Init, D!EmptyData, DP!EmptyData
<1>4. DocWorkIsGood
  <2>1. /\ DP!EmptyData \in DP!Data /\ DP!RecordedIn(DP!EmptyData) = {}
        /\ DP!GoodData(DP!EmptyData, docStored)
    BY DP!EmptyDataIsGood, DocAssumptions DEF DP!EmptyDataIsGood
  <2> QED BY <1>3, <2>1 DEF DocWorkIsGood
<1>5. SameVersion
  BY <1>3 DEF SharedInit, Init, SameVersion
<1>6. ObjectsInv
  <2>1. /\ ccdCase = [version |-> 0, data |-> EmptyData]
        /\ held = [u \in Callers |-> EmptyData] /\ heldAt = [u \in Callers |-> 0]
        /\ readAt = [c \in Correspondences |-> 0]
        /\ pc = [c \in Correspondences |-> "idle"]
    BY DEF SharedInit, Init
  <2>2. OneCallAtATime /\ SubmitsItsObject
    BY <2>1 DEF OneCallAtATime, SubmitsItsObject, Active
  <2>3. HeldHoldsCase
    BY <1>3, <2>1 DEF HeldHoldsCase, HoldsCase
  <2>4. WorkHoldsCase
    BY <1>3, <2>1 DEF WorkHoldsCase
  <2> QED BY <2>2, <2>3, <2>4 DEF ObjectsInv
<1> QED BY <1>1, <1>2, <1>4, <1>5, <1>6 DEF SharedInv, HalvesInv

LEMMA SharedNextInv == SharedInv /\ [SharedNext]_sharedVars => SharedInv'
<1> SUFFICES ASSUME SharedInv, [SharedNext]_sharedVars PROVE SharedInv'
  OBVIOUS
<1>1. ASSUME NEW u \in Callers, CallerReadsCase(u) \/ CallerDies(u) PROVE SharedInv'
  BY <1>1, CallerReadsCaseHalves, CallerDiesHalves, CallerReadsCaseObjects, CallerDiesObjects
     DEF SharedInv
<1>2. ASSUME NEW c \in Correspondences, MergeGoesOn(c) \/ MergeReads(c) \/ MergeCommits(c)
      PROVE  SharedInv'
  BY <1>2, MergeGoesOnHalves, MergeReadsHalves, MergeCommitsHalves,
     MergeGoesOnObjects, MergeReadsObjects, MergeCommitsObjects DEF SharedInv
<1>3. ASSUME NEW d \in Docs, DocGoesOn(d) \/ DocCommits(d) PROVE SharedInv'
  BY <1>3, DocGoesOnHalves, DocCommitsHalves, DocGoesOnObjects, DocCommitsObjects
     DEF SharedInv
<1>4. ASSUME OthersAct PROVE SharedInv'
  BY <1>4, OthersActHalves, OthersActObjects DEF SharedInv
<1>5. ASSUME UNCHANGED sharedVars PROVE SharedInv'
  BY <1>5, StutterHalves, StutterObjects DEF SharedInv
<1> QED BY <1>1, <1>2, <1>3, <1>4, <1>5 DEF SharedNext

THEOREM SharedInvariance == SharedSpec => []SharedInv
BY SharedInitInv, SharedNextInv, PTL DEF SharedSpec

-----------------------------------------------------------------------------
(* The properties *)

(***************************************************************************)
(* Each service keeps the invariants of the other, whatever it submits     *)
(* along with what it changes: links exist, flags agree with what they     *)
(* speak of, lists are in order.                                           *)
(***************************************************************************)
THEOREM CaseConsistentSafe == SharedSpec => []CaseConsistent
<1>1. SharedInv => CaseConsistent
  <2> SUFFICES ASSUME SharedInv PROVE CaseConsistent
    OBVIOUS
  <2>1. SameVersion /\ Inv /\ DP!Inv
    BY DEF SharedInv, HalvesInv
  <2>2. RecordedDocumentsExist /\ OutstandingFlagAgrees /\ ListsNewestFirst
    BY <2>1, RecordedDocumentsInv
       DEF Inv, GoodCopies, GoodData, InOrder, OutstandingFlagAgrees, ListsNewestFirst
  <2>3. D!DocumentsExist /\ D!HandledMeansSeen /\ D!TranslationFlagged
    BY <2>1 DEF DP!Inv, DP!GoodCopies, DP!GoodData, DP!RecordedIn, D!RecordedIn,
                D!DocumentsExist, D!HandledMeansSeen, D!TranslationFlagged,
                D!Range, DP!Range
  <2> QED BY <2>1, <2>2, <2>3 DEF CaseConsistent, SameVersion
<1> QED BY <1>1, SharedInvariance, PTL

(***************************************************************************)
(* No retry of one service, and no whole case that the other submits, puts *)
(* an entry of either kind into the case more often than it may be there.  *)
(***************************************************************************)
THEOREM NothingTwiceSafe == SharedSpec => []NothingTwice
<1>1. SharedInv => NothingTwice
  <2> SUFFICES ASSUME SharedInv PROVE NothingTwice
    OBVIOUS
  <2>1. AtMostOncePerUpdate
    BY DEF SharedInv, HalvesInv, CopiesInv, Limit, AtMostOncePerUpdate
  <2>2. DP!NeverTwice
    BY DP!NoneTwice, DocAssumptions DEF DP!NoneTwice, SharedInv, HalvesInv
  <2>3. D!NeverTwice
    BY <2>2 DEF D!NeverTwice, DP!NeverTwice, D!Copies, DP!Copies, D!Cardinality, DP!Cardinality
  <2> QED BY <2>1, <2>3 DEF NothingTwice
<1> QED BY <1>1, SharedInvariance, PTL

\* The steps that write the case; only a merge counts an update.
LEMMA CaseWriters ==
    ASSUME SharedNext
    PROVE  \/ UNCHANGED <<ccdCase, docCase, commits>>
           \/ \E c \in Correspondences : MergeCommits(c)
           \/ \E d \in Docs : DocCommits(d)
           \/ OthersAct
BY DEF SharedNext, CallerReadsCase, CallerReads, D!CallerReads, CallerDies, Crash, D!Crash,
       MergeGoesOn, Begin, GeneratePdf, MergePdfs, UnguardedCallFails, EventRejected, Throw,
       MergeReads, StorePdf, UploadAnswered, ReadCase, StartEvent, docVars, DocGoesOn, vars,
       history, D!Begin, D!GeneratePdf, D!StorePdf, D!StartEvent, D!EventRejected

(***************************************************************************)
(* An entry of either kind leaves the case only when somebody submits a    *)
(* whole case that is older than the one it replaces.  Everybody else      *)
(* submits data that hold all that both halves of the case have.           *)
(***************************************************************************)
THEOREM SharedErasureSafe == SharedSpec => OnlyStaleWholesErase
<1> DEFINE Erased == \/ D!RecordedIn(docCase.data) \ D!RecordedIn(docCase'.data) # {}
                     \/ RecordedIn(ccdCase.data) \ RecordedIn(ccdCase'.data) # {}
           ByDoc == \E d \in Docs : /\ docPc[d] = "submit" /\ docPc'[d] # "submit"
                                    /\ AdderOf[d] \in overtaken
           ByMerge == \E c \in Correspondences : /\ commits'[c] > commits[c]
                                                 /\ method[c] \in SnapshotMethods
                                                 /\ readAt[c] < ccdCase.version
<1>1. SharedInv /\ [SharedNext]_sharedVars => [Erased => ByDoc \/ ByMerge]_sharedVars
  <2> SUFFICES ASSUME SharedInv, SharedNext, Erased PROVE ByDoc \/ ByMerge
    OBVIOUS
  <2>1. ObjectsInv /\ TypeOK /\ DP!TypeOK /\ SameVersion
    BY DEF SharedInv, HalvesInv, Inv, DP!Inv
  <2>2. \A e : D!RecordedIn(e) = DP!RecordedIn(e)
    BY DEF D!RecordedIn, DP!RecordedIn, D!Range, DP!Range
  <2>3. ASSUME NEW c \in Correspondences, MergeCommits(c) PROVE ByMerge
    <3>1. /\ ccdCase'.data = work[c] /\ docCase'.data = docWork[c]
          /\ pc[c] = "submit" /\ token[c] = ccdCase.version /\ commits'[c] > commits[c]
      BY <2>1, <2>3 DEF MergeCommits, EventCommitted, TypeOK
    <3>2. ~HoldsCase(work[c], docWork[c])
      BY <2>2, <3>1 DEF HoldsCase
    <3>3. readAt[c] # ccdCase.version /\ readAt[c] <= ccdCase.version
      BY <2>1, <3>1, <3>2 DEF ObjectsInv, WorkHoldsCase
    <3>4. method[c] \in SnapshotMethods
      BY <2>1, <3>1, <3>3 DEF ObjectsInv, WorkHoldsCase
    <3>5. readAt[c] \in Nat /\ ccdCase.version \in Nat
      BY <2>1 DEF TypeOK
    <3> QED BY <3>1, <3>3, <3>4, <3>5
  <2>4. ASSUME NEW d \in Docs, DocCommits(d) PROVE ByDoc
    <3>1. /\ docPc[d] = "submit" /\ docPc'[d] # "submit"
          /\ ccdCase'.data = held[AdderOf[d]] /\ docCase'.data = docHeld[AdderOf[d]]
      BY <2>1, <2>4 DEF DocCommits, D!EventCommitted, D!AttemptFails, D!Leave, D!Goto,
                        DP!TypeOK
    <3>2. ~HoldsCase(held[AdderOf[d]], docHeld[AdderOf[d]])
      BY <2>2, <3>1 DEF HoldsCase
    <3>3. AdderOf[d] \in overtaken
      BY <2>1, <3>2, AddersAssumption DEF ObjectsInv, HeldHoldsCase
    <3> QED BY <3>1, <3>3
  <2>5. ASSUME OthersAct PROVE FALSE
    <3>1. CASE \E c \in Correspondences : ActionLetter(c)
               /\ docCase' = [docCase EXCEPT !.version = @ + 1]
      <4>1. docCase'.data = docCase.data
        BY <2>1, <3>1 DEF DP!TypeOK
      <4>2. /\ ccdCase'.data.correspondence = ccdCase.data.correspondence
            /\ ccdCase'.data.letters = ccdCase.data.letters
        <5>1. PICK x \in Correspondences : ActionLetter(x)
          BY <3>1
        <5> DEFINE e == [ccdCase.data EXCEPT !.actioned = @ \cup {x}]
        <5>2. /\ e.correspondence = ccdCase.data.correspondence
              /\ e.letters = ccdCase.data.letters /\ e \in Data
          BY <2>1 DEF TypeOK, Data
        <5>3. ccdCase'.data = Recomputed(e)
          BY <5>1 DEF ActionLetter
        <5> HIDE DEF e
        <5> QED BY <5>2, <5>3 DEF Recomputed, Data
      <4> QED BY <4>1, <4>2 DEF RecordedIn, LettersIn
    <3>2. CASE D!HandleEvidence /\ ccdCase' = [ccdCase EXCEPT !.version = @ + 1]
      <4>1. ccdCase'.data = ccdCase.data
        BY <2>1, <3>2 DEF TypeOK
      <4>2. /\ docCase'.data.documents = docCase.data.documents
            /\ docCase'.data.scanned = docCase.data.scanned
        BY <2>1, <3>2 DEF D!HandleEvidence, DP!TypeOK, DP!Data
      <4> QED BY <4>1, <4>2 DEF D!RecordedIn
    <3> QED BY <2>5, <3>1, <3>2 DEF OthersAct
  <2> QED BY <2>3, <2>4, <2>5, CaseWriters
<1> QED BY <1>1, SharedInvariance, PTL DEF SharedSpec, OnlyStaleWholesErase

(***************************************************************************)
(* A method with a consumer submits the documents it found in the version  *)
(* it commits on; and a caller that nobody has overtaken adds no           *)
(* correspondence with its documents but what its own V1 calls put into    *)
(* the object it holds.                                                    *)
(***************************************************************************)
THEOREM OthersHalfSafe == SharedSpec => OthersHalfKept
<1> DEFINE DocumentsKept ==
              \A c \in Correspondences :
                 commits'[c] > commits[c] /\ method[c] \notin SnapshotMethods
                    => docCase'.data = docCase.data
           CorrespondenceKept ==
              \A d \in Docs :
                 docPc[d] = "submit" /\ ccdCase' # ccdCase /\ docPc'[d] # "submit"
                    /\ AdderOf[d] \notin overtaken
                    => \A c \in RecordedIn(ccdCase'.data) :
                          c \in RecordedIn(ccdCase.data)
                            \/ (CallerOf[c] = AdderOf[d] /\ method[c] = "correspondence")
<1>1. SharedInv /\ [SharedNext]_sharedVars => [DocumentsKept /\ CorrespondenceKept]_sharedVars
  <2> SUFFICES ASSUME SharedInv, SharedNext PROVE DocumentsKept /\ CorrespondenceKept
    OBVIOUS
  <2>1. ObjectsInv /\ TypeOK /\ DP!TypeOK
    BY DEF SharedInv, HalvesInv, Inv, DP!Inv
  <2>2. \A c \in Correspondences : ~(commits[c] > commits[c])
    BY <2>1 DEF TypeOK
  <2>3. CASE UNCHANGED <<ccdCase, docCase, commits>>
    BY <2>3
  <2>4. ASSUME NEW c \in Correspondences, MergeCommits(c)
        PROVE  DocumentsKept /\ CorrespondenceKept
    <3>1. /\ pc[c] = "submit" /\ token[c] = ccdCase.version /\ docCase'.data = docWork[c]
          /\ docPc' = docPc
          /\ \A x \in Correspondences \ {c} : commits'[x] = commits[x]
      BY <2>1, <2>4 DEF MergeCommits, EventCommitted, docCallVars, TypeOK
    <3>2. method[c] \notin SnapshotMethods => docCase'.data = docCase.data
      BY <2>1, <3>1 DEF ObjectsInv, WorkHoldsCase
    <3> QED BY <2>2, <3>1, <3>2
  <2>5. ASSUME NEW d \in Docs, DocCommits(d)
        PROVE  DocumentsKept /\ CorrespondenceKept
    <3>1. /\ ccdCase'.data = held[AdderOf[d]] /\ commits' = commits
          /\ \A x \in Docs \ {d} : docPc'[x] = docPc[x]
      BY <2>1, <2>5 DEF DocCommits, D!EventCommitted, D!AttemptFails, D!Leave, D!Goto,
                        DP!TypeOK, history
    <3>2. AdderOf[d] \notin overtaken =>
             RecordedIn(held[AdderOf[d]])
                \subseteq RecordedIn(ccdCase.data) \cup PutByCaller(AdderOf[d])
      BY <2>1, AddersAssumption DEF ObjectsInv, HeldHoldsCase
    <3> QED BY <2>2, <3>1, <3>2 DEF PutByCaller
  <2>6. CASE OthersAct
    <3>1. UNCHANGED <<commits, docPc>>
      BY <2>6 DEF OthersAct, ActionLetter, D!HandleEvidence, history, docCallVars, D!callVars
    <3> QED BY <2>2, <3>1
  <2> QED BY <2>3, <2>4, <2>5, <2>6, CaseWriters
<1> QED BY <1>1, SharedInvariance, PTL DEF SharedSpec, OthersHalfKept
=============================================================================
