-------------------------- MODULE CcdNotifications --------------------------
(***************************************************************************)
(* CcdNotificationsPdfService: the merging of notifications, letters and   *)
(* letters stopped for a reasonable adjustment into one CCD case.  Each    *)
(* call merges one correspondence; calls of different callers interleave   *)
(* between the remote calls they make.  CCD is external: a case has a      *)
(* version, an event is started on a version and its submission commits    *)
(* only if the case still has that version.                                *)
(*                                                                         *)
(* V1 notifications and letters submit a whole case read earlier.  All the *)
(* other methods give CCD's client a consumer that is applied to the case  *)
(* the event was started on.                                               *)
(***************************************************************************)
EXTENDS CorrespondenceLists, DocStoreCalls

CONSTANTS Callers,       \* threads of the services that use the library
          CallerOf,      \* the caller that merges each correspondence
          Methods,       \* the methods that may merge each correspondence
          Parties,       \* the parties with a list of their own
          LetterType,    \* the party each correspondence is addressed to
          Required,      \* correspondence with an adjustment still REQUIRED
          SecureEnabled, \* feature.secure-doc-store.enabled
          MaxAttempts    \* attempts the CCD client makes when it retries

NotificationMethods == {"correspondence", "correspondenceV2"}
LetterMethods       == {"letter", "letterV2"}
AdjustmentMethods   == {"adjustment", "adjustmentV2"}
V2Methods           == {"correspondenceV2", "letterV2", "adjustmentV2"}
SnapshotMethods     == {"correspondence", "letter"}
AllMethods          == NotificationMethods \cup LetterMethods \cup AdjustmentMethods

ASSUME CallersAssumption == CallerOf \in [Correspondences -> Callers]
ASSUME MethodsAssumption == Methods \in [Correspondences -> SUBSET AllMethods]
ASSUME RequiredAssumption == Required \subseteq Correspondences
ASSUME SecureAssumption == SecureEnabled \in BOOLEAN
ASSUME AttemptsAssumption == MaxAttempts \in Nat \ {0}

VARIABLES
    ccdCase,    \* the case in CCD: its version and its data
    held,       \* the SscsCaseData object each caller has in memory
    pc,         \* where the call for each correspondence is
    method,     \* the method the call uses
    linked,     \* whether the call got a document link from the store
    work,       \* the case data the call is about to submit
    token,      \* the version of the case the call's event was started on
    attempts,   \* how many times the call has started an event
    result,     \* what the call returned
    stored,     \* correspondence whose document a document store holds
    damaged,    \* correspondence whose merged document is not complete
    commits,    \* history: updates of the case the call has committed
    faults,     \* history: the failures the call has met
    readAt,     \* history: the version at which `work` was read
    heldAt      \* history: the version at which `held` was read

callVars  == <<pc, method, linked, work, token, attempts, result>>
storeVars == <<stored, damaged>>
history   == <<commits, faults, readAt, heldAt>>
vars      == <<ccdCase, held, callVars, storeVars, history>>

Data == [correspondence : Seq(Correspondences),
         letters        : [Parties -> Seq(Correspondences)],
         actioned       : SUBSET Correspondences,
         outstanding    : BOOLEAN]

EmptyData == [correspondence |-> <<>>, letters |-> [p \in Parties |-> <<>>],
              actioned |-> {}, outstanding |-> FALSE]

LettersIn(d)  == UNION {Range(d.letters[p]) : p \in Parties}
RecordedIn(d) == Range(d.correspondence) \cup LettersIn(d)

\* updateReasonableAdjustmentsOutstanding: a letter is still REQUIRED.
AnyRequired(d) == LettersIn(d) \cap (Required \ d.actioned) # {}
Recomputed(d)  == [d EXCEPT !.outstanding = AnyRequired(d)]

MergeCorrespondence(d, new) ==
    [d EXCEPT !.correspondence = AppendNewestFirst(@, new)]

\* A letter type that is none of the parties leaves the lists alone.
BuildCorrespondenceByParty(d, new, type) ==
    IF type \in Parties
    THEN [d EXCEPT !.letters[type] = AppendNewestFirst(@, new)]
    ELSE d

MergeLetter(d, new, type) ==
    Recomputed(BuildCorrespondenceByParty(d, new, type))

\* getCorrespondences: one correspondence per stored document, so none or one.
NewEntries(c, link) == IF link THEN <<c>> ELSE <<>>

\* What the method's consumer, or its V1 body, does to case data.
Merge(d, c, m, link) ==
    IF m \in AdjustmentMethods
    THEN MergeLetter(d, NewEntries(c, link), LetterType[c])
    ELSE MergeCorrespondence(d, NewEntries(c, link))

AttemptsOf(m) == IF m \in V2Methods THEN MaxAttempts ELSE 1

Active == {"produce", "store", "read", "start", "submit"}
Ended  == {"returned", "thrown", "crashed"}
IsIdle(u) == \A c \in Correspondences : CallerOf[c] = u => pc[c] \notin Active

-----------------------------------------------------------------------------
Init ==
    /\ ccdCase  = [version |-> 0, data |-> EmptyData]
    /\ held     = [u \in Callers |-> EmptyData]
    /\ pc       = [c \in Correspondences |-> "idle"]
    /\ method   \in {m \in [Correspondences -> AllMethods] :
                       \A c \in Correspondences : m[c] \in Methods[c]}
    /\ linked   = [c \in Correspondences |-> FALSE]
    /\ work     = [c \in Correspondences |-> EmptyData]
    /\ token    = [c \in Correspondences |-> 0]
    /\ attempts = [c \in Correspondences |-> 0]
    /\ result   = [c \in Correspondences |-> "none"]
    /\ stored   = {}
    /\ damaged  = {}
    /\ commits  = [c \in Correspondences |-> 0]
    /\ faults   = [c \in Correspondences |-> {}]
    /\ readAt   = [c \in Correspondences |-> 0]
    /\ heldAt   = [u \in Callers |-> 0]

Goto(c, there) == pc' = [pc EXCEPT ![c] = there]

\* External: a caller takes the case from CCD, to hand it to the V1 method
\* that expects one.
CallerReads(u) ==
    /\ IsIdle(u)
    /\ \E c \in Correspondences :
          CallerOf[c] = u /\ pc[c] = "idle" /\ method[c] = "correspondence"
    /\ held'   = [held EXCEPT ![u] = ccdCase.data]
    /\ heldAt' = [heldAt EXCEPT ![u] = ccdCase.version]
    /\ UNCHANGED <<ccdCase, callVars, storeVars, commits, faults, readAt>>

\* External: another service marks a letter as dealt with, and the flag too.
ActionLetter(c) ==
    /\ c \in (LettersIn(ccdCase.data) \cap Required) \ ccdCase.data.actioned
    /\ ccdCase' = [version |-> ccdCase.version + 1,
                   data |-> Recomputed([ccdCase.data EXCEPT !.actioned = @ \cup {c}])]
    /\ UNCHANGED <<held, callVars, storeVars, history>>

Begin(c) ==
    /\ pc[c] = "idle"
    /\ IsIdle(CallerOf[c])
    /\ Goto(c, IF method[c] \in LetterMethods THEN "store" ELSE "produce")
    /\ UNCHANGED <<ccdCase, held, method, linked, work, token, attempts, result,
                   storeVars, history>>

\* The call ends with an exception for its caller.
Throw(c) ==
    /\ Goto(c, "thrown")
    /\ UNCHANGED <<ccdCase, held, method, linked, work, token, attempts, result>>

\* The template and PDFServiceClient.generateFromHtml, which may throw.
GeneratePdf(c) ==
    /\ pc[c] = "produce" /\ method[c] \in NotificationMethods
    /\ \/ Goto(c, "store") /\ UNCHANGED <<ccdCase, held, method, linked, work,
                                          token, attempts, result>>
       \/ Throw(c)
    /\ UNCHANGED <<storeVars, history>>

\* An IOException of the merger is logged; what it wrote so far goes on.
MergePdfs(c) ==
    /\ pc[c] = "produce" /\ method[c] \in AdjustmentMethods
    /\ \E broken \in BOOLEAN :
          damaged' = IF broken THEN damaged \cup {c} ELSE damaged
    /\ Goto(c, "store")
    /\ UNCHANGED <<ccdCase, held, method, linked, work, token, attempts, result,
                   stored, history>>

(***************************************************************************)
(* The calls that no catch clause covers: idamService.getIdamTokens (its   *)
(* place differs by method) and ccdService.getByCaseId of a V1 letter.     *)
(***************************************************************************)
UnguardedPlace(m) == CASE m = "adjustment" -> "store"
                       [] m = "letter"     -> "read"
                       [] OTHER            -> "start"

UnguardedCallFails(c) ==
    /\ pc[c] = UnguardedPlace(method[c]) /\ attempts[c] = 0
    /\ Throw(c)
    /\ UNCHANGED <<storeVars, history>>

\* setCorrespondence on the caller's own object, which it goes on holding.
MergeIntoHeld(c, link) ==
    LET u == CallerOf[c]
        merged == Merge(held[u], c, method[c], link)
    IN  /\ held'   = [held EXCEPT ![u] = merged]
        /\ work'   = [work EXCEPT ![c] = merged]
        /\ readAt' = [readAt EXCEPT ![c] = heldAt[u]]

\* Mutant: the document is made again until the store takes it.
StorePdfUntilStored(c) ==
    /\ pc[c] = "store"
    /\ \/ Goto(c, "start")
       \/ method[c] \notin LetterMethods /\ Goto(c, "produce")
    /\ UNCHANGED <<ccdCase, held, method, linked, work, token, attempts, result,
                   storeVars, history>>

\* The upload threw, or it gave getCorrespondences a document or none.
UploadAnswered(c, answer, lands) ==
    LET outcome == StoreDocument(SecureEnabled, answer)
        link    == outcome = "document"
    IN
    /\ stored' = IF lands THEN stored \cup {c} ELSE stored
    /\ \/ /\ outcome = "throws"
          /\ Throw(c)
          /\ UNCHANGED <<faults, readAt>>
       \/ /\ outcome # "throws"
          /\ linked' = [linked EXCEPT ![c] = link]
          /\ faults' = [faults EXCEPT ![c] = IF link THEN @ ELSE @ \cup {"store"}]
          /\ IF method[c] = "correspondence"
             THEN MergeIntoHeld(c, link)
             ELSE UNCHANGED <<held, work, readAt>>
          /\ Goto(c, IF method[c] = "letter" THEN "read" ELSE "start")
          /\ UNCHANGED <<ccdCase, method, token, attempts, result>>

StorePdf(c) ==
    /\ pc[c] = "store"
    /\ \E answer \in UploadAnswers : \E lands \in MayHold(answer) :
          UploadAnswered(c, answer, lands)
    /\ UNCHANGED <<damaged, commits, heldAt>>

\* V1 letters: getByCaseId, and the merge into what it returned.
ReadCase(c) ==
    /\ pc[c] = "read"
    /\ work'   = [work EXCEPT ![c] = Merge(ccdCase.data, c, method[c], linked[c])]
    /\ readAt' = [readAt EXCEPT ![c] = ccdCase.version]
    /\ Goto(c, "start")
    /\ UNCHANGED <<ccdCase, held, method, linked, token, attempts, result,
                   storeVars, commits, faults, heldAt>>

\* Mutant: a retry goes on from the data of the attempt before it.
StartEventFromLastAttempt(c) ==
    /\ pc[c] = "start"
    /\ token'    = [token EXCEPT ![c] = ccdCase.version]
    /\ attempts' = [attempts EXCEPT ![c] = @ + 1]
    /\ work'     = [work EXCEPT ![c] =
                       IF method[c] \in SnapshotMethods THEN @
                       ELSE Merge(IF attempts[c] = 0 THEN ccdCase.data ELSE @,
                                  c, method[c], linked[c])]
    /\ Goto(c, "submit")
    /\ UNCHANGED <<ccdCase, held, method, linked, result, storeVars, history>>

\* CCD's start event; a consumer is applied to the case that it returns.
StartEvent(c) ==
    /\ pc[c] = "start"
    /\ token'    = [token EXCEPT ![c] = ccdCase.version]
    /\ attempts' = [attempts EXCEPT ![c] = @ + 1]
    /\ IF method[c] \in SnapshotMethods
       THEN UNCHANGED <<work, readAt>>
       ELSE /\ work'   = [work EXCEPT ![c] =
                            Merge(ccdCase.data, c, method[c], linked[c])]
            /\ readAt' = [readAt EXCEPT ![c] = ccdCase.version]
    /\ Goto(c, "submit")
    /\ UNCHANGED <<ccdCase, held, method, linked, result, storeVars,
                   commits, faults, heldAt>>

(***************************************************************************)
(* An attempt that its caller sees fail.  It may be made again while       *)
(* attempts remain; otherwise a CcdException is swallowed, V1 returning    *)
(* the null data of an empty SscsCaseDetails, and any other exception is   *)
(* thrown.                                                                 *)
(***************************************************************************)
Leave(c, place, value) ==
    /\ Goto(c, place)
    /\ result' = [result EXCEPT ![c] = value]

\* What a method returns for an update that was made, and for one that was
\* not although the method returns.
Updated(m)   == IF m \in V2Methods THEN "void" ELSE "data"
Swallowed(m) == IF m \in V2Methods THEN "void" ELSE "null"

\* Mutant: one attempt too many.
AttemptFailsOnceMore(c) ==
    /\ faults' = [faults EXCEPT ![c] = @ \cup {"ccd"}]
    /\ \/ attempts[c] <= AttemptsOf(method[c]) /\ Leave(c, "start", result[c])
       \/ Leave(c, "returned", Swallowed(method[c]))

AttemptFails(c) ==
    /\ faults' = [faults EXCEPT ![c] = @ \cup {"ccd"}]
    /\ \/ /\ attempts[c] < AttemptsOf(method[c])
          /\ Leave(c, "start", result[c])
       \/ Leave(c, "returned", Swallowed(method[c]))
       \/ Leave(c, "thrown", result[c])

Succeed(c) ==
    /\ Leave(c, "returned", Updated(method[c]))
    /\ UNCHANGED faults

\* The start or the submission fails, or the case has moved on: no update.
EventRejected(c) ==
    /\ pc[c] = "submit"
    /\ AttemptFails(c)
    /\ UNCHANGED <<ccdCase, held, method, linked, work, token, attempts,
                   storeVars, commits, readAt, heldAt>>

\* CCD accepts the event; its answer may still be lost on the way back.
EventCommitted(c) ==
    /\ pc[c] = "submit"
    /\ token[c] = ccdCase.version
    /\ ccdCase' = [version |-> ccdCase.version + 1, data |-> work[c]]
    /\ commits' = [commits EXCEPT ![c] = @ + 1]
    /\ Succeed(c) \/ AttemptFails(c)
    /\ UNCHANGED <<held, method, linked, work, token, attempts,
                   storeVars, readAt, heldAt>>

\* A caller dies in a call, and after its restart has read the case again.
Crash(u) ==
    /\ ~IsIdle(u)
    /\ pc' = [c \in Correspondences |->
                 IF CallerOf[c] = u /\ pc[c] \in Active THEN "crashed" ELSE pc[c]]
    /\ held'   = [held EXCEPT ![u] = ccdCase.data]
    /\ heldAt' = [heldAt EXCEPT ![u] = ccdCase.version]
    /\ UNCHANGED <<ccdCase, method, linked, work, token, attempts, result,
                   storeVars, commits, faults, readAt>>

CallStep(c) ==
    \/ GeneratePdf(c) \/ MergePdfs(c) \/ UnguardedCallFails(c) \/ StorePdf(c)
    \/ ReadCase(c) \/ StartEvent(c) \/ EventRejected(c) \/ EventCommitted(c)

Next ==
    \/ \E c \in Correspondences : Begin(c) \/ CallStep(c) \/ ActionLetter(c)
    \/ \E u \in Callers : CallerReads(u) \/ Crash(u)

Spec == Init /\ [][Next]_vars

(***************************************************************************)
(* Remote calls answer or time out, so a call that has begun goes on; a    *)
(* caller need not begin one.                                              *)
(***************************************************************************)
FairSpec == Spec /\ \A c \in Correspondences : WF_vars(CallStep(c))
-----------------------------------------------------------------------------
(* Properties *)

\* Every variable keeps its shape; in particular no call makes more attempts
\* than its method has, which is the bound on the client's retrying.
TypeOK ==
    /\ ccdCase  \in [version : Nat, data : Data]
    /\ held     \in [Callers -> Data]
    /\ pc       \in [Correspondences -> {"idle"} \cup Active \cup Ended]
    /\ method   \in [Correspondences -> AllMethods]
    /\ linked   \in [Correspondences -> BOOLEAN]
    /\ work     \in [Correspondences -> Data]
    /\ token    \in [Correspondences -> Nat]
    /\ attempts \in [Correspondences -> 0..MaxAttempts]
    /\ result   \in [Correspondences -> {"none", "data", "null", "void"}]
    /\ stored   \subseteq Correspondences
    /\ damaged  \subseteq Correspondences
    /\ commits  \in [Correspondences -> Nat]
    /\ faults   \in [Correspondences -> SUBSET {"store", "ccd"}]
    /\ readAt   \in [Correspondences -> Nat]
    /\ heldAt   \in [Callers -> Nat]

\* A correspondence is written to the case only once a document store holds
\* its document, whatever the store answered; and the document is complete
\* unless it is a letter for reasonable adjustment whose merging failed.
RecordedDocumentsExist ==
    \A c \in RecordedIn(ccdCase.data) :
        c \in stored /\ (c \in damaged => method[c] \in AdjustmentMethods)

\* The flag that says letters are outstanding is set exactly while one of
\* the parties has a letter that is still required, whichever methods and
\* services have written the case, whole-case snapshots included.
OutstandingFlagAgrees ==
    ccdCase.data.outstanding = AnyRequired(ccdCase.data)

\* Every list in the case is newest first after every update, whatever the
\* order in which the updates of concurrent calls reach CCD.
ListsNewestFirst ==
    /\ IsNewestFirst(ccdCase.data.correspondence)
    /\ \A p \in Parties : IsNewestFirst(ccdCase.data.letters[p])

Copies(d, c) ==
    Occurrences(d.correspondence, c)
      + (IF LetterType[c] \in Parties THEN Occurrences(d.letters[LetterType[c]], c)
                                      ELSE 0)

\* A correspondence appears at most once per update its call committed; in
\* particular a retry after a conflict adds nothing twice, and only a retry
\* after a lost answer can.  A V1 call never duplicates, although a V1
\* notification also stays in its caller's object for later calls to write.
AtMostOncePerUpdate ==
    \A c \in Correspondences :
        Copies(ccdCase.data, c) <= IF method[c] \in V2Methods THEN commits[c] ELSE 1

\* What a call returns is true of the case: data means that its update was
\* committed, once; null that CCD failed; and a normal return without an
\* update, or without a document, means that a failure was swallowed.
ResultIsHonest ==
    \A c \in Correspondences :
        /\ result[c] = "data" => commits[c] = 1
        /\ result[c] = "null" => "ccd" \in faults[c]
        /\ pc[c] = "returned" =>
              /\ commits[c] > 0 \/ "ccd" \in faults[c]
              /\ linked[c] \/ "store" \in faults[c]

\* An entry disappears from the case, or an extra copy of it, only when a V1
\* method submits a snapshot read before the version it overwrites.  No
\* method that updates through a consumer ever undoes another update.
OnlyStaleSnapshotsErase ==
    [][\A c \in Correspondences :
          Copies(ccdCase'.data, c) < Copies(ccdCase.data, c) =>
             \E d \in Correspondences :
                /\ commits'[d] > commits[d]
                /\ method[d] \in SnapshotMethods
                /\ readAt[d] < ccdCase.version]_vars

\* A call that has begun ends: it returns, throws, or dies with its caller.
\* The retrying against a case that others keep changing is bounded.
EveryCallEnds ==
    \A c \in Correspondences : pc[c] \in Active ~> pc[c] \in Ended

(***************************************************************************)
(* What the javadoc of the V2 methods promises of a normal return: the     *)
(* document is stored and the case updated with the correspondence.  The   *)
(* code does not keep it.                                                  *)
(***************************************************************************)
V2ReturnMeansRecorded ==
    \A c \in Correspondences :
        pc[c] = "returned" /\ method[c] = "correspondenceV2" => linked[c] /\ commits[c] > 0

(***************************************************************************)
(* Callers that use only methods with a consumer implement a log that      *)
(* grows: the copies of each correspondence in the case, and the calls     *)
(* that may still add to them.                                             *)
(***************************************************************************)
Log == INSTANCE CorrespondenceLog WITH
          Entries <- Correspondences,
          Bound   <- MaxAttempts,
          log     <- [c \in Correspondences |-> Copies(ccdCase.data, c)],
          open    <- {c \in Correspondences : pc[c] \notin Ended}
ImplementsLog == Log!Spec
=============================================================================
