# A verification of sscs-pdf-email-common

`sscs-pdf-email-common` is a library of the SSCS tribunal services. It turns
notifications and letters into PDFs, puts the PDFs into a document store and
records them in a case of CCD, the case-data store. It has no process and no
database of its own: everything that can go wrong in it goes wrong between
remote calls, in the services that use it, on a case that others write at the
same time. This directory holds TLA+ models of that behaviour, the TLC runs that
check them and proofs about them. Paths below are relative to
`src/src/main/java/uk/gov/hmcts/reform/sscs/`, those of scripts to
`src/src/main/resources/templates/letter_template_files/`.

## The system

| part | state | operations | what makes it correct |
|---|---|---|---|
| `service/CcdNotificationsPdfService` | the `SscsCaseData` of its caller; the case in CCD | six merges: notification, letter, letter for reasonable adjustment, each in a V1 and a V2 form | no update of another service is undone, nothing recorded twice or without a document, the outstanding flag and the order of the lists right, an honest result, an end |
| `service/PdfStoreService`, `EvidenceManagementService`, `EvidenceManagementSecureDocStoreService` | the two document stores | store, download, chosen by `feature.secure-doc-store.enabled` | a document is reported exactly when there is one |
| `service/CcdPdfService` | the `SscsCaseData` of its caller; the case in CCD | `updateDoc`, `mergeDocIntoCcd` | as the first, and the flags for evidence and translation |
| `docmosis/service/DocumentManagementService`, `DocmosisPdfGenerationService` | none | generate a document and add it to the case | a document that is returned was generated |
| `helper/PdfHelper` | the pages of a `PDDocument` | scale to a page size, in place | returned pages have the size and show their content |
| `service/conversion/FileToPdfConversionService` and its converters | temporary files, connections to Docmosis, the uploads of the caller | convert a batch of files in parallel | all or nothing, in order; what is handed back can be read; what is left behind is explained |
| `newFileUpload.js` on `dropzone.js` | the queue of uploads and the list of files on a page | select, upload, delete and restore files | the queue moves on; list, message and progress bar agree with what is stored and under way |
| the other scripts | of their pages | toggling of elements, polyfills, jQuery | - |
| `service/SscsGeneratePdfService`, `LocalDateToWelshStringConverter`, `helper/EmailHelper`, `domain/*`, `config/*`, `document/*` | none | values, formatting, declarations of clients | - |

The services call each other in one direction:
`DocumentManagementService -> CcdPdfService -> PdfStoreService -> Evidence...`,
and `CcdNotificationsPdfService -> PdfStoreService`. The first and third also
call CCD through clients (`CcdService`, `UpdateCcdCaseService`) that are not in
this repository. What they share is the case in CCD, the stores, and the
`SscsCaseData` object that a caller hands from one call to the next, of the same
or of the other service. File conversion calls none of them: its batches share
the threads of the JVM's common pool, and uploads where a caller converts them
again. The scripts talk to a server that is not in this repository.

What is hard, and listed with its line under `hazards` in `PROJECT.json`:
snapshots that are stale when submitted; retries after an answer that was lost;
failures that are logged and "carried on" with; exceptions that the carrying on
does not cover; objects changed before the update that should justify the
change; a crash between upload and update; rounding, orientation and the place of
the boxes in scaling;
tasks of a parallel batch that go on after it has failed; an upload that can be
moved once only; timers and answers of a page that arrive in any order.

## The modules

| module | of | for |
|---|---|---|
| `CorrespondenceLists` | the append-and-sort of all merges | operators, proved about in `CcdNotifications_proofs` |
| `DocStoreCalls` | the store's answers on their way to the merges | operators, used by both services |
| `PdfStore` | `PdfStoreService`, with its two services | state machine of instances that store and download; `MCPdfStore`, `PdfStore_proofs` |
| `CcdNotifications` | `CcdNotificationsPdfService` | state machine; `MCCcdNotifications` instantiates it, `CcdNotifications_proofs` and `CcdNotificationsUpdates_proofs` |
| `CorrespondenceLog` | what a case promises of correspondence | abstract specification that `CcdNotifications` implements |
| `CcdPdf` | `CcdPdfService` and `DocumentManagementService` | state machine; `MCCcdPdf`, `CcdPdf_proofs` |
| `SharedCase` | both services on one case | composition of `CcdNotifications` and `CcdPdf`; `MCSharedCase`, `SharedCase_proofs` |
| `PdfScaling` | `PdfHelper` | state machine of the loop over pages; `MCPdfScaling`, `PdfScaling_proofs` |
| `ImageLayout` | where `ImageConverter` draws an image | operators, used by `FileConversion` |
| `FileConversion` | `FileToPdfConversionService` with its converters | state machine of batches, tasks and threads; `MCFileConversion`, `FileConversion_proofs` |
| `EvidenceUpload` | `newFileUpload.js` with the queue of `dropzone.js` | state machine of the page's events; `MCEvidenceUpload`, `EvidenceUpload_proofs` |

### CcdNotifications

One call per correspondence, made by the caller `CallerOf` gives; a caller makes
its calls one after the other, and calls of different callers interleave at
every remote call. `pc` says where a call is:

| action | code |
|---|---|
| `Begin` | the overloads of the method |
| `GeneratePdf` | template and `generateFromHtml` (notifications, 301-317) |
| `MergePdfs` | `PDFMergerUtility`; an `IOException` is logged, 153 and 282 |
| `StorePdf` | `pdfStoreService.store` with every answer of the store (290-326), and for a V1 notification the merge into the caller's object (51-55) |
| `ReadCase` | V1 letters: `getByCaseId` and the merge into it (97-104) |
| `StartEvent` | the start of CCD's event; the consumer of the other methods is applied to the case it returns |
| `EventCommitted`, `EventRejected` | the submission: accepted, its answer lost or not, or refused; with the retry, the swallowed `CcdException` or the exception that follows (81-86, 249-267) |
| `UnguardedCallFails` | `getIdamTokens` and `getByCaseId`, outside every `try` |
| `Crash` | the process of a caller dies and is restarted |
| `CallerReads`, `ActionLetter` | external: a caller reads the case; another service deals with a letter |

`ccdCase` is the case, `held` the object each caller has in memory, `work` the
data a call is about to submit. `commits`, `faults`, `readAt` and `heldAt` are
history: nothing in the code has them, they only let a property speak of what
happened, and no guard reads them.

### CcdPdf

The same shape for `CcdPdfService`: `StorePdf` is the whole of `updateDoc`, which
changes the caller's object; `StartEvent`, `EventCommitted` and `EventRejected`
are `updateCase`, which retries the whole object. A caller may go on with its
object after a failure or read the case again. `HandleEvidence` is a caseworker
who deals with the scanned documents. `overtaken` is history: the callers whose
object others have made stale.

### PdfScaling

`CheckDocument`, then `KeepPage` or `ScalePage` for each page in turn, then
`Finish`. Lengths are whole numbers of some unit and a scale is a whole number of
ten-thousandths, the four places of line 122. `media` and `crop` are the boxes
the code reads, each a lower-left corner and a size; bleed, trim and art box are
set with them and read by nothing. `NewBox` begins at the origin (137), and
`ScaleContent` scales about the origin without moving anything (152), so that a
side of a box that ran from `start` for `length` comes to lie at `start * s` and
is `length * s` long. `LosesAtMost` compares that with what the page shows.

### PdfStore

`feature.secure-doc-store.enabled` belongs to an instance, and `ChangeFlag`
deploys an instance with the other value. `Upload` is one step, by the answer
that `DocStoreCalls` translates. A download goes through `FromSecureStore` and,
after a `FeignException`, through the two calls of `FromDmStore`, while documents
come and go. `outage` and `refused` are history.

### SharedCase

`CcdNotifications` is extended and `CcdPdf` is an instance of it, `D`. The first
keeps the correspondence of the case, the second its documents, and both halves
carry the one version: every commit of either service, and every event of
others, moves both. `docWork` is the documents in the data that a merge is about
to submit, which the merge read with the correspondence (`MergeReads`) and
writes back with it (`MergeCommits`). A caller has one object for both services,
reads it whole, and is in one call at a time.

### FileConversion

Each upload of a batch is a task of the parallel stream, run by a thread of the
common pool or by the thread that called `convert`, which takes part in its own
batch as long as that lasts.

| action | code |
|---|---|
| `Begin`, `Return`, `Throw` | `convert`, 37-44: the stream, the collected list, the exception |
| `Take` | external: a free thread takes a task, also one of a batch that has thrown |
| `Detect` | the type and the choice of a converter, 46-60 and 87-92 |
| `TransferToFile` | the temporary file and `transferTo`, 94-100 |
| `ParseRtf` | `RtfConverter`: the text, in a second file |
| `DrawImage` | `ImageConverter`: the page is drawn at `Placed` and saved |
| `PostToDocmosis`, `ReadPdf` | `WordDocumentConverter`: the call, and its answer into a file |
| `WrapPdf` | `getMultipartFile`: the bytes of the PDF |
| `Exit` | an orderly end of the JVM: registered files are deleted |

`transferTo` moves the file of an upload on disk, which can be done once; an
upload in memory is copied; a `ByteArrayMultipartFile` supports neither. The
file that `WordDocumentConverter` creates for an answer is the one that is not
registered with `deleteOnExit`, and its response is closed by reading the body
and by nothing else. `movedBy` and `faults` are history.

### EvidenceUpload

The state of the page is one record, and the functions of the scripts
(`AddFile`, `ProcessQueue`, `Complete`, `RemovedFile`, ...) are operators from
page to page; each event of the browser is one action. What `processQueue`
takes from the queue are the `Oldest` files: those that have fewer files `AheadOf`
them than there is room. `Select` adds a whole
selection in one event; `TimerFires` runs the callbacks of `setTimeout(..., 0)`
first in, first out; `UploadAnswered`, `DeleteAnswered` and `Restore` are answers
of the server. `ServerStores` and `ServerLists` are external: the server may have
kept a file the page believes to have failed, and may look up its list at any
time before it answers.

## What is assumed of CCD and the stores

* A case has a version; an event is started on the current version and its
  submission is accepted only while the case has that version. The clients are
  called `...WithoutRetry` where they try once; `updateCase` and `updateCaseV2`
  try at most `MaxAttempts` times and start a new event each time.
* A submission replaces the data by the data submitted. This is what sending a
  whole `SscsCaseData` means.
* A store that refuses a document does not keep it; one that breaks may have.
* Any remote call may fail with any of the classes of exception its client
  has, and the answer to an accepted update may be lost.
* Only the store that holds a document can give it. A download may fail with any
  class of exception whether the store holds the document or not: by the store's
  refusal, by the store, or by IDAM and the token generator, which are asked
  before it (`PdfStoreService` 151, `EvidenceManagementService` 64-90).
* The page size asked for is upright and begins at the origin, as A4 does, the
  only one the library asks for.

## The runs

Every cfg sets `CHECK_DEADLOCK FALSE`: when every call has ended and nothing is
left to deal with, these systems stop.

| run | bounds | what it shows |
|---|---|---|
| `ccd_mixed` | 2 callers, a call each by any of the 6 methods, 1 party, 2 attempts | `RecordedDocumentsExist`, `OutstandingFlagAgrees`, `ListsNewestFirst`, `ResultIsHonest`, and that `OnlyStaleSnapshotsErase` |
| `ccd_snapshots` | 3 calls, two by one caller through one object, dm-store instead of the secure store | `AtMostOncePerUpdate`, with an object that is used again beside a letter that is retried |
| `ccd_consumers` | 2 calls without the snapshot methods, 2 parties, 2 attempts | the service implements `CorrespondenceLog`, and `EveryCallEnds` |
| `ccd_javadoc` | 2 calls | a violation: a V2 notification returns normally without its promise |
| `pdf_store` | 2 instances, each deployed again twice, 2 documents; symmetric in both | `FailedDownloadsExplained` |
| `ccd_pdf` | 3 calls of 2 callers, one of each operation, 2 attempts | `DocumentsExist`, `NeverTwice`, `HandledMeansSeen`, `TranslationFlagged`, `OnlyOvertakenErase` |
| `ccd_pdf_no_case_id` | as `ccd_pdf`, one call without a case id | a violation: the update is not skipped |
| `pdf_scaling` | 2 pages, 47 pairs of boxes, 9 of them off the origin | `ScalingIsIdempotent`, `CorrectPagesUntouched`, `LostContentExplained` |
| `file_conversion` | 2 batches of 2 callers that share an upload, a pool of 1 thread | `AnswersTheRequest`, `OriginalsIntact`, `FailureExplained`, `OnlyDocmosisFilesSurvive`, `ConnectionsExplained`, `ImagesFit`, `BatchEnds` |
| `shared_case` | a correspondence by one of three methods and a statement of one caller, a document to translate of another, 1 attempt | `CaseConsistent`, `NothingTwice`, `OnlyStaleWholesErase`, `OthersHalfKept` |
| `evidence_upload` | 3 files of which one is too big, 1 restored, 1 upload at a time, 2 clicks on delete links | `QueueWithinLimit`, `BarExplained`, `MessageExplained`, `StoredIsListed`, `EveryFileSettles`, and that `OldestFirst` |

The bounds are enough for the cases that matter. Losing an update takes two
writers; duplicating one takes a lost answer and one more attempt; writing a
failed entry takes two calls with one object; a tie takes two correspondences of
one minute, which are c1 and c2 of `ccd_snapshots`. A third attempt would add a
second duplicate, of which the proofs speak for any number. Two services that
undo each other need one call of each and a version in between. A pool of one
thread is the one that a failed batch can keep from another; uploads that are
taken from a batch take two batches with one upload. The queue of a page needs a
file that waits, one that is under way and one that is rejected. Pages do not influence each other except
through the check of the whole document, for which two are enough; the boxes lie
below, at, within and beyond the tolerance in each direction and orientation,
and boxes of the right size, too small and too large lie to each side of the
origin.

What holds and what does not, in words:

* No method that updates through a consumer (V2, and both adjustment methods)
  undoes another's update. The V1 notification and the V1 letter submit a snapshot and do,
  when the case has moved on since it was read.
* The retry after a conflict never records an entry twice; the retry after a
  lost answer does, once per committed update. V1 calls never do.
* Downloads have three gaps, apart from a failure of the store that holds the
  document. An instance with the secure store off does not find what is there. A
  client error of the secure store is not fallen back on. And when the secure
  store, or IDAM, fails in another way than by a `FeignException`, the document
  cannot be had although dm-store holds it.
* A page that was scaled is within tolerance and is not scaled again. It shows
  all that its media box held if that is upright and begins at the origin. A box
  that begins elsewhere loses up to its scaled distance from the origin, because
  the content is not moved there; one on its side loses up to the difference
  between the two sides of the size, because its scale is that of the size
  turned this way (94-97) and its new boxes are upright (137).
* A normal return says nothing about the document or the update: only the
  absence of a swallowed failure does, and the V2 methods report none.
* `CcdPdfService` retries whole objects, which cannot duplicate, but erases when
  the object is stale.
* On one case the invariants of both services hold together. Documents and
  correspondence are undone only by a whole case that is older than the one it
  replaces; a consumer leaves the documents as they are.
* A batch is answered whole and in order, or throws. After a failure its tasks
  go on, and the uploads on disk it has converted are gone: a caller that tries
  the same uploads again fails for those. An upload handed back unconverted is
  always readable.
* Files that Docmosis sent outlive the JVM, and a response that is an error
  keeps its connection.
* The page shows what is stored, with two oddities: a `queuecomplete` that is
  still to come hides the progress bar of an upload that began before it fired,
  and a delete link clicked twice counts two files off, so that the page says
  there are none while it shows one.

### Fairness

`FairSpec` of `CcdNotifications` has weak fairness of each call's own steps and
nothing else: a caller's thread runs, and its remote calls answer or time out
(`docmosis/config/HttpConnectionConfiguration`, 43-47). No success is assumed, no
caller is obliged to begin a call, and nothing is fair about crashes, other
services or CCD accepting anything. V1 calls are subject to the same fairness,
but the run that checks it has the methods with a consumer, those that retry.

`FairSpec` of `FileConversion` has a thread go on with the task it runs, whose
calls return or time out, and a caller go on with its batch, whose queued tasks
it may run itself. The pool is obliged to nothing, so that `BatchEnds` does not
rest on a free thread.

`FairSpec` of `EvidenceUpload` says that timers fire and that a request comes to
an end, by an answer or by an error. Nothing is fair about the user or about the
server keeping a file.

## The proofs

Every module that is a state machine has its proofs in a module of its own, and
every safety property of a passing run is a theorem there: the run shows it on a
small instance, the theorem for every value of the constants. The invariants
were checked on the runs' instances before they were proved.

### The lists, and CcdNotifications

The first part of `CcdNotifications_proofs` is about the sort, from
`SentOnAssumption` alone. The stable sort is a rank: position p gets the index with p - 1 predecessors. `PrecedesOrder` and
`RankGrows` make the rank injective, cardinality makes it onto
(`RankBijection`), and from that `SortIsPermutation`, `SortIsNewestFirst` and
`SortKeepsOccurrences` follow for lists of any length.

The rest is from the assumptions named in the modules and for any number of
callers, calls, parties and attempts. The inductive invariant is

    Inv == TypeOK /\ GoodCopies /\ LinksExist /\ AttemptsLeft

`RecordedDocumentsExist`, `OutstandingFlagAgrees` and `ListsNewestFirst` speak of
the case alone and are not inductive, because a step may replace the case by
data that a call or a caller has held for any time. `GoodCopies` says that every
copy of case data, in CCD, in a caller's hands or about to be submitted, is
good: newest first, with the right flag, and recording only stored documents.
`LinksExist` says that a call with a link has its document stored, and
`AttemptsLeft` bounds the attempts by where the call is. Each action has a lemma
that it preserves `Inv`; `Invariance` puts them together.

`CcdNotificationsUpdates_proofs` is about what updates do to each other. Its two
invariants are proved together with `Inv`.

* `CurrencyInv`: data read at the current version of the case have every copy
  that the case has, and a consumer was applied to the version its event was
  started on. A commit makes all data that others hold older than the case, so
  the first part never has to survive one. A submission is accepted only on the
  version of its event. Data that lack a copy were therefore read earlier, which
  only the methods that submit snapshots do (`ErasureSafe`).
* `CopiesInv`: the copies of an entry in the case, in what callers hold and in
  what others are about to submit are bounded by the updates its call committed;
  its own V2 call may be about to submit one more; and a V1 entry is nowhere
  before its call has merged it. This last part is what makes the bound one, and
  it needs that a V1 call has no second attempt (`CopiesBounded`).

The last part of that module is about what callers may conclude. `ResultInv` adds to `ResultIsHonest` that a V1 call has committed nothing until
it ends. For the refinement of `CorrespondenceLog`, under the assumption that no
call uses a snapshot method, `LogInv` adds that a caller has one call at a time
(so that a crash ends one entry of the log), that every commit is of an attempt
of its own (so that there are at most `MaxAttempts`), and that data submitted at
the version they were read at add the entry of their call and nothing else.

| theorem | property | also assumes |
|---|---|---|
| `TypeCorrect` | `TypeOK` | |
| `RecordedDocumentsSafe` | `RecordedDocumentsExist` | |
| `OutstandingFlagSafe` | `OutstandingFlagAgrees` | |
| `ListsNewestFirstSafe` | `ListsNewestFirst` | |
| `ErasureSafe` | `OnlyStaleSnapshotsErase` | |
| `CopiesBounded` | `AtMostOncePerUpdate` | |
| `ResultsHonest` | `ResultIsHonest` | |
| `ConsumersImplementLog` | `ImplementsLog` | no call uses a snapshot method |
| `RetriesEnd` | the safety part of `EveryCallEnds`, for every method | |
| `SortIsPermutation`, `SortIsNewestFirst`, `SortKeepsOccurrences`, `AppendNewestFirstFacts` | of the lists | |
| `PdfTypeCorrect`, `DocumentsExistSafe`, `NeverTwiceSafe`, `HandledMeansSeenSafe`, `TranslationFlaggedSafe`, `ErasureOnlyByOvertaken` | `TypeOK`, `DocumentsExist`, `NeverTwice`, `HandledMeansSeen`, `TranslationFlagged`, `OnlyOvertakenErase` of `CcdPdf` | |
| `PdfRetriesEnd` | the same of `CcdPdf` | |
| `StoreTypeCorrect`, `FailedDownloadsSafe` | `TypeOK`, `FailedDownloadsExplained` of `PdfStore` | |
| `ScalingTypeCorrect`, `ScalingIdempotent`, `CorrectPagesSafe`, `LostContentSafe` | `TypeOK`, `ScalingIsIdempotent`, `CorrectPagesUntouched`, `LostContentExplained` of `PdfScaling` | |
| `ConversionTypeCorrect`, `RequestsAnswered`, `OriginalsSafe`, `FailuresExplained`, `FilesCleanedUp`, `ConnectionsSafe`, `ImagesAlwaysFit` | `TypeOK`, `AnswersTheRequest`, `OriginalsIntact`, `FailureExplained`, `OnlyDocmosisFilesSurvive`, `ConnectionsExplained`, `ImagesFit` of `FileConversion` | |
| `BatchesNeverStuck`, `ConversionsEnd` | the safety part of `BatchEnds` | |
| `ImageIsPlacedWell` | of `ImageLayout` | |
| `CaseConsistentSafe`, `NothingTwiceSafe`, `SharedErasureSafe`, `OthersHalfSafe` | `CaseConsistent`, `NothingTwice`, `OnlyStaleWholesErase`, `OthersHalfKept` of `SharedCase` | |
| `TypeCorrect`, `QueueSafe`, `QueueInOrder`, `BarSafe`, `MessageSafe`, `ListedSafe` | `TypeOK`, `QueueWithinLimit`, `OldestFirst`, `BarExplained`, `MessageExplained`, `StoredIsListed` of `EvidenceUpload` | |

### The other modules

`CcdPdf_proofs`. As above, a case is replaced by what a caller holds, so
`GoodCopies` asks of every object what the properties ask of the case: links to
stored documents only, each document in one list and in it once, the two flags
right. That a document is added once needs `NewIsNowhere`: it is in no object
before its call has put it there, and a retry adds nothing. `CurrentHoldsAll`
says that the object of a caller whom nobody has overtaken holds all documents
of the case; it makes `OnlyOvertakenErase` true, and it survives a commit because
a commit makes all other objects stale.

`PdfStore_proofs`. A failure is explained by what the stores answered before, so
`FallbackExplained` says what is known in the middle of a download: one that has
gone on from the secure store to dm-store, without an outage, wants a document
that the secure store does not hold. `WantedIsLinked` keeps the document from
being stored while it is asked for.

`FileConversion_proofs`. The seven steps of a task are first shown to be steps
of an abstraction, `TaskStep`: the task goes on to a place that fits its upload
or fails with a known reason, moves its upload at most once, and makes files
that are registered or come from Docmosis. `TaskStep` preserves `TaskInv`, which
says where a task may be, who moved an upload (a task past the transfer, for a
converter), why a task failed, and which files are not registered. What batches
promise follows from their tasks. `ImageIsPlacedWell` is arithmetic: a quotient
rounded down stays below any whole bound of it.

`PdfScaling_proofs`. `PagesInOrder` says of every page before the loop's that it
is dealt with, of every page after it that it is untouched, and of the loop's
own that it is untouched or was left by a failure between boxes and content.
`ShareBounds` bounds a rounded share from both sides, which gives that no page is
enlarged and that a box under its scale fits the size turned the way it lies
(`ContentFits`). `SideLosesAtMost` adds what the box's corner and an upright page
take away from that.

`SharedCase_proofs`, from the assumptions of both services and two on the
constants that compose them: every document has a caller and an operation
(`AddersAssumption`, `OperationAssumption`). The lemmas of `CcdPdf_proofs` are
used as those of the instance `DP`, whose state is the case's half of documents.
The invariant has two parts.

* `HalvesInv`: both halves carry one version; each has the invariant of its own
  service; and `docWork`, the documents that a merge is about to write back,
  satisfies what `CcdPdf_proofs` asks of a caller's object, and has no document
  whose call has yet to add it. Without that last part a merge that writes its
  documents back could bring one in early, and its own call a second time.
  `CaseConsistent` and `NothingTwice` follow.
* `ObjectsInv`: a caller is in one call of either service at a time; a V1
  notification submits its caller's object as it is; the object of a caller whom
  nobody has overtaken, and data that were read at the case's own version, hold
  all that the case holds of both kinds. `OnlyStaleWholesErase` and
  `OthersHalfKept` follow: what is submitted at the case's version holds all, so
  that what erases was read earlier.

Each step of one service is a step of its own half, whose invariant its own
lemmas preserve, and for the other half one of three things: nothing happens to
it, a caller reads it, or a commit replaces it by data that are as good.

`EvidenceUpload_proofs`. `PageInv(p, n)` describes a page, and each function of
the scripts is shown to return one that satisfies it (`ProcessQueueFacts`,
`EndOfFile`, `EndOfUpload`, `AddFileFacts`, `TimerFacts`, `RemovedFacts`,
`RestoredFacts`); n is the number of rows that were counted off though they had
gone before. Its parts that make the properties inductive:

* `BarShown`: while a `queuecomplete` is to come, whatever uploads has begun
  after it was set; so when it fires and hides the bar, all that goes on has
  been overtaken. `BarWillHide`: a bar that is shown has an upload, a file that
  waits or a `queuecomplete` that will hide it.
* `RowsOK`: a file that has not come to an end has its row, which only the
  answer of a delete request takes away; and those are for uploads that
  succeeded (`DeletesInv`).
* `MessageOK`: `count` and n together are the number of rows. `StoredInv`: a
  stored file has the row it was chosen or listed with.

`OldestFacts` says that the queue starts all files that wait or exactly as many
as there is room for: the number of files ahead of a file is different for each,
and the first file that is not taken has only files ahead of it that are.
`FoldOfAddFile` turns the fold over a selection into a sequence of pages, and
`RestoreFold` gives the fold over a listing in closed form. Both are inductions,
over the numbers or the sizes of sets, by the least counterexample
(`LeastNumber`, from the well-foundedness of the numbers).

For `OldestFirst`, `Follows` carries `InOrder` from one page to the next:
statuses only go onward, the list of files only grows at its end, and a file
leaves the queue only after those ahead of it. It is transitive
(`InOrderTransitive`), which a selection needs, in which a rejected file may
start the queue between two others that are chosen.

### What remains of liveness

Liveness under fairness is out of reach of the prover, so that `EveryCallEnds`,
`BatchEnds` and `EveryFileSettles` are only model-checked. Their safety parts are
proved: what is left to do is bounded, every step of the work takes some of it
away, and no step of anybody adds to it.

* `RetriesEnd` and `PdfRetriesEnd`: a call has `StepsLeft`, two for each attempt
  left and the distance to its end. An attempt is started only while one is
  left (`AttemptsLeft`), so that a conflict, a lost answer or a stale case
  brings a call back to "start" with less than before. The theorems hold of all
  six methods; the run of `EveryCallEnds` has those that retry.
* `ConversionsEnd`: no task goes back, by `StagesLeft`. `BatchesNeverStuck`, from
  `ThreadsKnown` (a task has a thread exactly while it is converted, and nothing
  is lost before the JVM ends): a running batch always has a step that fairness
  covers, even with no pool at all, because the caller takes part. It assumes
  that "none" is no thread (`ThreadsAssumption`).
* `QueueSafe` and `QueueInOrder`: a file waits only while uploads or a timer will
  start it, and no file chosen later goes before it.

What fairness adds in each case is that whoever has a step takes it.

## What is not modelled

* The text of documents, file names, templates, the formatting of dates and
  what is logged.
* What PDFBox, Tika and Docmosis make of a document, and Tika's own temporary
  files; an end of the JVM that is not orderly, after which every file is left.
  `createTempFile` and `deleteOnExit` are one step.
* The rotation of a page (`/Rotate`) and its user unit, which `PdfHelper` does not
  read.
* Floating point in `PdfHelper` and `ImageConverter`: the models compute exact
  shares, and round where the code does.
* CCD's own merging of a partial submission: the library always submits whole
  data.
* Of the upload page: thumbnails, drag events, the preview, and `removeFile` and
  `cancelUpload`, for which this page has no link. Uploads that failed stay in
  the list and are counted, as in the code.
* The other scripts. jQuery, which is most of the repository's lines of script,
  and the polyfills are third-party code; the rest toggles elements of pages
  that are not in the repository, and nothing in the repository loads them.
* `SscsGeneratePdfService`, the Welsh dates, the e-mail values, the domain values
  and the configuration: single calls, formatting and declarations, without
  state of their own.

## Plan

1. The V1 methods under the fairness of `FairSpec`, with bounds small enough for
   a liveness check; what `RetriesEnd` says of them is proved.
2. For `PdfStore`, the same two questions: that a download takes a bounded number
   of calls, and which stores it has asked when it fails.
