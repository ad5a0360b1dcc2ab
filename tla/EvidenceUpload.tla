---------------------------- MODULE EvidenceUpload ----------------------------
(***************************************************************************)
(* The page on which evidence is uploaded: newFileUpload.js on top of the  *)
(* queue of dropzone.js 4.2.0.  Everything the page does, it does in one   *)
(* event: a selection of files, a timer, an answer of the server.  A state *)
(* of the page is a record, and the functions of the scripts take one page *)
(* to the next.                                                            *)
(***************************************************************************)
EXTENDS Integers, FiniteSets, Sequences, SequencesExt

CONSTANTS Files,            \* files the user may choose
          TooBig,           \* those above maxFilesize
          Before,           \* files the server holds from an earlier visit
          ParallelUploads,  \* option parallelUploads
          MaxClicks         \* bound: clicks on delete links in all

ASSUME FilesAssumption ==
    /\ IsFiniteSet(Files) /\ IsFiniteSet(Before)
    /\ TooBig \subseteq Files /\ Files \cap Before = {}
ASSUME LimitsAssumption == ParallelUploads \in Nat \ {0} /\ MaxClicks \in Nat

VARIABLES
    page,     \* what the scripts keep and show
    stored,   \* external: the files the server holds
    upload,   \* where the request of each upload is
    clicks,   \* clicks on delete links so far
    deletes,  \* delete requests of each row that are not answered
    listing,  \* the request for the files of an earlier visit
    again     \* history: answers for rows that were gone already

vars == <<page, stored, upload, clicks, deletes, listing, again>>

\* A row of the list shows a file chosen here or one the server listed.
Row == (Files \X {"chosen"}) \cup ((Files \cup Before) \X {"restored"})

InStatus(p, s) == {f \in Files : p.status[f] = s}
Uploading(p)   == InStatus(p, "uploading")
Pending(p, t)  == t \in Range(p.timers)

Init ==
    /\ page = [status    |-> [f \in Files |-> "none"],
               files     |-> <<>>,    \* those chosen; the script never reads the status of others
               timers    |-> <<>>,    \* setTimeout(..., 0), first in, first out
               bar       |-> FALSE,   \* the progress bar is visible
               rows      |-> {},
               count     |-> 0,
               empty     |-> FALSE,   \* "No files uploaded" is shown
               overtaken |-> {}]      \* history: started with a queuecomplete pending
    /\ stored  = Before
    /\ upload  = [f \in Files |-> "none"]
    /\ clicks  = 0
    /\ deletes = [r \in Row |-> 0]
    /\ listing = [state |-> "asked", files |-> {}]
    /\ again   = 0
-----------------------------------------------------------------------------
(* The functions of the scripts *)

SetTimer(p, t) == [p EXCEPT !.timers = Append(@, t)]

\* The files in the queue that were chosen before f.
AheadOf(p, f) ==
    {g \in InStatus(p, "queued") :
        \E i, j \in DOMAIN p.files : i < j /\ p.files[i] = g /\ p.files[j] = f}

\* Mutant: files are taken from the end of the queue.
Newest(p, room) ==
    {f \in InStatus(p, "queued") :
        Cardinality({g \in InStatus(p, "queued") : f \in AheadOf(p, g)}) < room}

\* The oldest files in the queue, as many as there is room for.
Oldest(p, room) == {f \in InStatus(p, "queued") : Cardinality(AheadOf(p, f)) < room}

\* uploadFiles: they are sent, and "sending" shows the progress bar.
UploadFiles(p, started) ==
    [p EXCEPT !.status = [f \in Files |-> IF f \in started THEN "uploading" ELSE @[f]],
              !.bar    = @ \/ started # {},
              !.overtaken = IF Pending(p, "queuecomplete") THEN @ \cup started ELSE @]

\* Mutant: uploads that are under way do not count.
ProcessQueueInFull(p) == UploadFiles(p, Oldest(p, ParallelUploads))

ProcessQueue(p) ==
    UploadFiles(p, Oldest(p, ParallelUploads - Cardinality(Uploading(p))))

\* The handler of "complete".
Complete(p) ==
    IF Uploading(p) \cup InStatus(p, "queued") = {} THEN SetTimer(p, "queuecomplete") ELSE p

Finished(p, f) == ProcessQueue(Complete([p EXCEPT !.status[f] = "success"]))

\* Mutant: an error leaves the queue alone.
ErrorLeavingTheQueue(p, f) == Complete([p EXCEPT !.status[f] = "error"])

\* Mutant: an error is not a completion.
ErrorWithoutComplete(p, f) == ProcessQueue([p EXCEPT !.status[f] = "error"])

ErrorProcessing(p, f) == ProcessQueue(Complete([p EXCEPT !.status[f] = "error"]))

\* Mutant: the message stays.
AddedFileBelowMessage(p, row) == [p EXCEPT !.rows = @ \cup {row}, !.count = @ + 1]

\* The handlers of "addedfile": a row, and no message.
AddedFile(p, row) ==
    [p EXCEPT !.rows = @ \cup {row}, !.count = @ + 1, !.empty = FALSE]

\* The answer of a delete request: the row goes, and one is counted off even
\* if it had gone before.
RemovedFile(p, row) ==
    [p EXCEPT !.rows = @ \ {row}, !.count = @ - 1, !.empty = @ \/ p.count <= 1]

\* Mutant: a chosen file is pushed twice, as the restored ones are.
AddFileTwice(p, f) ==
    LET q == AddedFile([p EXCEPT !.files = @ \o <<f, f>>], <<f, "chosen">>)
    IN  IF f \in TooBig THEN ErrorProcessing(q, f)
        ELSE SetTimer([q EXCEPT !.status[f] = "queued"], "processQueue")

\* addFile, accept and enqueueFile.
AddFile(p, f) ==
    LET q == AddedFile([p EXCEPT !.files = Append(@, f)], <<f, "chosen">>)
    IN  IF f \in TooBig THEN ErrorProcessing(q, f)
        ELSE SetTimer([q EXCEPT !.status[f] = "queued"], "processQueue")
-----------------------------------------------------------------------------
(* The events *)

\* The page is p, and what has just begun uploading is sent.
Becomes(p) ==
    /\ page' = p
    /\ upload' = [f \in Files |-> IF p.status[f] # "uploading" THEN "none"
                                  ELSE IF upload[f] = "none" THEN "sent" ELSE upload[f]]

\* One selection may hold several files; they are added in one event.
Select ==
    \E chosen \in (SUBSET InStatus(page, "none")) \ {{}} :
        \E selection \in SetToSeqs(chosen) :
            /\ Becomes(FoldLeft(AddFile, page, selection))
            /\ UNCHANGED <<stored, clicks, deletes, listing, again>>

TimerFires ==
    /\ page.timers # <<>>
    /\ LET p == [page EXCEPT !.timers = Tail(@)] IN
       Becomes(IF Head(page.timers) = "processQueue" THEN ProcessQueue(p)
               ELSE [p EXCEPT !.bar = FALSE])
    /\ UNCHANGED <<stored, clicks, deletes, listing, again>>

\* External: the server keeps a file; the page does not know yet.
ServerStores(f) ==
    /\ upload[f] = "sent"
    /\ upload' = [upload EXCEPT ![f] = "kept"]
    /\ stored' = stored \cup {f}
    /\ UNCHANGED <<page, clicks, deletes, listing, again>>

\* onload, with an answer that says so, or onerror; an error may also hide
\* that the server has kept the file.
UploadAnswered(f) ==
    /\ upload[f] # "none"
    /\ \/ upload[f] = "kept" /\ Becomes(Finished(page, f))
       \/ Becomes(ErrorProcessing(page, f))
    /\ UNCHANGED <<stored, clicks, deletes, listing, again>>

\* Only a success attaches the handler of the delete link.
HasDeleteLink(row) ==
    row \in page.rows /\ (row[2] = "chosen" => page.status[row[1]] = "success")

\* Mutant: the row goes before the answer has come.
ClickDeleteAtOnce(row) ==
    /\ HasDeleteLink(row) /\ clicks < MaxClicks
    /\ clicks'  = clicks + 1
    /\ deletes' = [deletes EXCEPT ![row] = @ + 1]
    /\ page'    = [page EXCEPT !.rows = @ \ {row}]
    /\ UNCHANGED <<stored, upload, listing, again>>

\* The link stays while the request is under way.
ClickDelete(row) ==
    /\ HasDeleteLink(row) /\ clicks < MaxClicks
    /\ clicks'  = clicks + 1
    /\ deletes' = [deletes EXCEPT ![row] = @ + 1]
    /\ UNCHANGED <<page, stored, upload, listing, again>>

\* The server deletes the file and says so, or the page learns of an error
\* only, which nothing handles.
DeleteAnswered(row) ==
    /\ deletes[row] > 0
    /\ deletes' = [deletes EXCEPT ![row] = @ - 1]
    /\ \/ /\ stored' = stored \ {row[1]}
          /\ page'   = RemovedFile(page, row)
          /\ again'  = IF row \in page.rows THEN again ELSE again + 1
       \/ stored' \in {stored, stored \ {row[1]}} /\ UNCHANGED <<page, again>>
    /\ UNCHANGED <<upload, clicks, listing>>

\* External: the server looks up what it holds.
ServerLists ==
    /\ listing.state = "asked"
    /\ listing' = [state |-> "listed", files |-> stored]
    /\ UNCHANGED <<page, stored, upload, clicks, deletes, again>>

\* The answer makes a row of every file, whether or not it has one already.
Restore ==
    /\ listing.state # "done"
    /\ listing' = [listing EXCEPT !.state = "done"]
    /\ page' = IF listing.state = "listed"
               THEN FoldSet(LAMBDA f, p : AddedFile(p, <<f, "restored">>), page, listing.files)
               ELSE page
    /\ UNCHANGED <<stored, upload, clicks, deletes, again>>

Next ==
    \/ Select \/ TimerFires \/ ServerLists \/ Restore
    \/ \E f \in Files : ServerStores(f) \/ UploadAnswered(f)
    \/ \E row \in Row : ClickDelete(row) \/ DeleteAnswered(row)

Spec == Init /\ [][Next]_vars

\* A timer fires, and a request comes to an end: with an answer or an error.
FairSpec ==
    /\ Spec
    /\ WF_vars(TimerFires)
    /\ \A f \in Files : WF_vars(UploadAnswered(f))
-----------------------------------------------------------------------------
(* Properties *)

\* Every variable keeps its shape, and a chosen file is in the queue's list
\* once.
TypeOK ==
    /\ page.status \in [Files -> {"none", "queued", "uploading", "success", "error"}]
    /\ IsInjective(page.files) /\ Range(page.files) = Files \ InStatus(page, "none")
    /\ page.timers \in Seq({"processQueue", "queuecomplete"})
    /\ page.rows   \subseteq Row
    /\ stored      \subseteq Files \cup Before
    /\ \A f \in Files : upload[f] = "none" <=> page.status[f] # "uploading"

\* Whatever starts the queue (a timer of each file, an answer, a rejected
\* file), no more than parallelUploads files are under way, and a file waits
\* only while that many are or a timer will start it.
QueueWithinLimit ==
    /\ Cardinality(Uploading(page)) <= ParallelUploads
    /\ InStatus(page, "queued") # {} =>
          Cardinality(Uploading(page)) = ParallelUploads \/ Pending(page, "processQueue")

Stage == [none |-> 0, queued |-> 1, uploading |-> 2, success |-> 3, error |-> 3]
Onward(s, t) == s = t \/ Stage[s] < Stage[t]

\* A file is uploaded once, and none overtakes a file that was chosen before
\* it, whatever a selection, an error or a rejected file does to the queue.
OldestFirst ==
    [][\A f \in Files :
          /\ Onward(page.status[f], page'.status[f])
          /\ page.status[f] = "queued" /\ page'.status[f] # "queued" =>
                \A g \in AheadOf(page, f) : page'.status[g] # "queued"]_vars

\* The progress bar is hidden when nothing is uploaded any more.  While files
\* are, it is visible, unless all of them began with a queuecomplete of an
\* earlier file still to come, which hides it although they go on.
BarExplained ==
    IF Uploading(page) = {}
    THEN page.timers = <<>> /\ InStatus(page, "queued") = {} => ~page.bar
    ELSE page.bar \/ Uploading(page) \subseteq page.overtaken

\* The message that there are no files is shown when the last row has gone.
\* It is shown above rows only if one delete link was clicked twice before
\* its answer came.
MessageExplained ==
    /\ page.rows = {} /\ page.files # <<>> => page.empty
    /\ page.empty /\ page.rows # {} => again > 0

\* Once the list of an earlier visit has come, every file the server holds is
\* on the page, whatever was uploaded or deleted while it was under way.
StoredIsListed ==
    listing.state = "done" /\ Before \subseteq listing.files =>
        \A f \in stored : \E row \in page.rows : row[1] = f

\* Every chosen file is uploaded or marked as failed in the end: no error of
\* another one leaves it in the queue.
EveryFileSettles ==
    \A f \in Files : page.status[f] = "queued" ~> page.status[f] \in {"success", "error"}
=============================================================================
