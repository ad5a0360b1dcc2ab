---------------------------- MODULE FileConversion ----------------------------
(***************************************************************************)
(* FileToPdfConversionService and its converters.  A batch of uploads is   *)
(* converted by a parallel stream: each upload is a task, and a task is    *)
(* run by a thread of the JVM's common pool or by the thread that called   *)
(* convert.  The first task that fails makes convert throw; tasks that     *)
(* have begun go on, and tasks that have not may still begin.  Uploads,    *)
(* files and connections are shared by all batches of the JVM, and a       *)
(* caller may convert the same uploads again.                              *)
(***************************************************************************)
EXTENDS Sequences, FiniteSets, Functions, ImageLayout

CONSTANTS Batches,    \* the calls of convert
          Callers,    \* the threads that make them
          CallerOf,   \* the thread of each call
          Uploads,    \* MultipartFile objects
          Request,    \* the uploads of each batch, in order
          Kind,       \* what the detector finds: "image", "word", "rtf", "other"
          Storage,    \* where an upload is: "memory", "disk", or "bytes" for
                      \* a ByteArrayMultipartFile
          Images,     \* the sizes an image may have
          Pool        \* threads of the common pool

ASSUME CallersAssumption == CallerOf \in [Batches -> Callers]
ASSUME RequestAssumption == Request \in [Batches -> Seq(Uploads)]
ASSUME KindAssumption == Kind \in [Uploads -> {"image", "word", "rtf", "other"}]
ASSUME StorageAssumption == Storage \in [Uploads -> {"memory", "disk", "bytes"}]
ASSUME ImagesAssumption == Images \subseteq Image

Task      == UNION {{b} \X DOMAIN Request[b] : b \in Batches}
TaskOf(b) == {t \in Task : t[1] = b}
Upload(t) == Request[t[1]][t[2]]
Threads == Pool \cup Callers

ASSUME ThreadsAssumption == "none" \notin Threads

VARIABLES
    jvm,      \* "up" or "exited"
    call,     \* the state of each call of convert
    result,   \* what it returned: for each position the upload or its PDF
    at,       \* where each task is
    thread,   \* the thread that runs it
    moved,    \* uploads whose file transferTo has taken away
    temp,     \* temporary files, by task and purpose
    onExit,   \* those registered with deleteOnExit
    open,     \* tasks whose response of Docmosis has not been closed
    drawn,    \* the page of each image, and where it is on it
    movedBy,  \* history: the task that took an upload's file
    faults    \* history: how a task failed

taskVars == <<at, thread>>
fileVars == <<moved, temp, onExit, drawn>>
history  == <<movedBy, faults>>
vars     == <<jvm, call, result, taskVars, fileVars, open, history>>

Converting == {"detect", "transfer", "parse", "draw", "post", "read", "wrap"}
Finished   == {"original", "pdf"}
Purposes   == {"input", "text", "output"}
None       == <<>>

Free(w)        == \A t \in Task : thread[t] # w
CallerIdle(u)  == \A b \in Batches : CallerOf[b] = u => call[b] # "running"

Init ==
    /\ jvm     = "up"
    /\ call    = [b \in Batches |-> "idle"]
    /\ result  = [b \in Batches |-> <<>>]
    /\ at      = [t \in Task |-> "queued"]
    /\ thread  = [t \in Task |-> "none"]
    /\ moved   = {}
    /\ temp    = {}
    /\ onExit  = {}
    /\ open    = {}
    /\ drawn   = [t \in Task |-> None]
    /\ movedBy = [f \in Uploads |-> None]
    /\ faults  = [t \in Task |-> "none"]

Begin(b) ==
    /\ jvm = "up"
    /\ call[b] = "idle"
    /\ CallerIdle(CallerOf[b])
    /\ call' = [call EXCEPT ![b] = "running"]
    /\ UNCHANGED <<jvm, result, taskVars, fileVars, open, history>>

\* Mutant: the caller only waits for the pool.
PoolMayRun(w, b) == w \in Pool

\* External: the caller takes part in its own batch, as long as it lasts.
MayRun(w, b) == w \in Pool \/ (w = CallerOf[b] /\ call[b] = "running")

\* External: a free thread takes a task of the stream.  Nothing takes the
\* tasks of a batch that has thrown out of the queues of the pool.
Take(w, t) ==
    /\ at[t] = "queued"
    /\ call[t[1]] \in {"running", "thrown"}
    /\ MayRun(w, t[1]) /\ Free(w)
    /\ at'     = [at EXCEPT ![t] = "detect"]
    /\ thread' = [thread EXCEPT ![t] = w]
    /\ UNCHANGED <<jvm, call, result, fileVars, open, history>>

Goto(t, there) ==
    /\ at' = [at EXCEPT ![t] = there]
    /\ thread' = IF there \in Finished THEN [thread EXCEPT ![t] = "none"] ELSE thread
    /\ UNCHANGED faults

Fail(t, why) ==
    /\ at'     = [at EXCEPT ![t] = "failed"]
    /\ thread' = [thread EXCEPT ![t] = "none"]
    /\ faults' = [faults EXCEPT ![t] = why]

\* createTempFile and deleteOnExit.
Create(t, purpose) ==
    /\ temp'   = temp \cup {<<t, purpose>>}
    /\ onExit' = onExit \cup {<<t, purpose>>}

\* createTempFile alone.
CreateUnregistered(t, purpose) ==
    /\ temp' = temp \cup {<<t, purpose>>}
    /\ UNCHANGED onExit

FilesUnchanged == UNCHANGED <<temp, onExit>>

\* Mutant: the upload is transferred before a converter is looked for.
DetectMovingFirst(t) ==
    LET f == Upload(t) IN
    /\ at[t] = "detect"
    /\ f \notin moved
    /\ IF Storage[f] = "disk" /\ Kind[f] = "other"
       THEN moved' = moved \cup {f} /\ movedBy' = [movedBy EXCEPT ![f] = t]
       ELSE UNCHANGED <<moved, movedBy>>
    /\ Goto(t, IF Kind[f] = "other" THEN "original" ELSE "transfer")
    /\ UNCHANGED <<jvm, call, result, temp, onExit, drawn, open>>

\* The stream of an upload whose file has been moved cannot be opened.  An
\* upload that no converter accepts is done.
Detect(t) ==
    /\ at[t] = "detect"
    /\ \/ Fail(t, IF Upload(t) \in moved THEN "moved" ELSE "error")
       \/ /\ Upload(t) \notin moved
          /\ Goto(t, IF Kind[Upload(t)] = "other" THEN "original" ELSE "transfer")
    /\ UNCHANGED <<jvm, call, result, fileVars, open, movedBy>>

\* Mutant: an RtfConverter that transfers the upload once more for its parent.
ConverterTransferringAgain(kind) ==
    CASE kind = "image" -> "draw" [] kind = "rtf" -> "transfer" [] OTHER -> "post"

\* ImageConverter, RtfConverter or WordDocumentConverter: no type is accepted
\* by two of them.
Converter(kind) ==
    CASE kind = "image" -> "draw" [] kind = "rtf" -> "parse" [] OTHER -> "post"

(***************************************************************************)
(* transferTo.  An upload on disk can be moved once; one in memory is      *)
(* written as often as one likes; a ByteArrayMultipartFile supports none.  *)
(***************************************************************************)
TransferTo(t) ==
    LET f == Upload(t) IN
    \/ /\ Fail(t, CASE Storage[f] = "bytes" -> "unsupported"
                    [] f \in moved          -> "moved"
                    [] OTHER                -> "error")
       /\ UNCHANGED <<moved, movedBy>>
    \/ /\ Storage[f] = "memory"
       /\ Goto(t, Converter(Kind[f]))
       /\ UNCHANGED <<moved, movedBy>>
    \/ /\ Storage[f] = "disk" /\ f \notin moved
       /\ moved'   = moved \cup {f}
       /\ movedBy' = [movedBy EXCEPT ![f] = t]
       /\ Goto(t, Converter(Kind[f]))

\* The temporary file is there whether or not the upload can be moved to it.
TransferToFile(t) ==
    /\ at[t] = "transfer"
    /\ \/ Fail(t, "error") /\ FilesUnchanged /\ UNCHANGED <<moved, movedBy>>
       \/ Create(t, "input") /\ TransferTo(t)
    /\ UNCHANGED <<jvm, call, result, drawn, open>>

\* Mutant: the text file is left to the system.
ParseRtfUnregistered(t) ==
    /\ at[t] = "parse"
    /\ CreateUnregistered(t, "text") /\ Goto(t, "post")
    /\ UNCHANGED <<jvm, call, result, moved, drawn, open, movedBy>>

\* RtfConverter: the text of the document, in a file, goes to Docmosis.
ParseRtf(t) ==
    /\ at[t] = "parse"
    /\ \/ Fail(t, "error") /\ FilesUnchanged
       \/ Create(t, "text") /\ (Fail(t, "error") \/ Goto(t, "post"))
    /\ UNCHANGED <<jvm, call, result, moved, drawn, open, movedBy>>

\* ImageConverter: the page is drawn, then saved.
DrawImage(t) ==
    /\ at[t] = "draw"
    /\ \/ Fail(t, "error") /\ FilesUnchanged /\ UNCHANGED drawn
       \/ /\ \E image \in Images : drawn' = [drawn EXCEPT ![t] = <<PageOf(image), Placed(image)>>]
          /\ \/ Fail(t, "error") /\ FilesUnchanged
             \/ Create(t, "output") /\ (Fail(t, "error") \/ Goto(t, "wrap"))
    /\ UNCHANGED <<jvm, call, result, moved, open, movedBy>>

\* WordDocumentConverter: no response, an error, which nobody closes, or a
\* response to read the PDF from.
PostToDocmosis(t) ==
    /\ at[t] = "post"
    /\ \/ Fail(t, "error") /\ UNCHANGED open
       \/ open' = open \cup {t} /\ (Fail(t, "docmosis") \/ Goto(t, "read"))
    /\ UNCHANGED <<jvm, call, result, fileVars, movedBy>>

\* Mutant: the body is copied from its stream, which a failure leaves open.
ReadPdfFromStream(t) ==
    /\ at[t] = "read"
    /\ CreateUnregistered(t, "output")
    /\ \/ Fail(t, "error") /\ UNCHANGED open
       \/ Goto(t, "wrap") /\ open' = open \ {t}
    /\ UNCHANGED <<jvm, call, result, moved, drawn, movedBy>>

\* The file comes first; reading the body, whether or not that succeeds,
\* closes the response.
ReadPdf(t) ==
    /\ at[t] = "read"
    /\ \/ Fail(t, "no_file") /\ FilesUnchanged /\ UNCHANGED open
       \/ /\ CreateUnregistered(t, "output")
          /\ open' = open \ {t}
          /\ Fail(t, "error") \/ Goto(t, "wrap")
    /\ UNCHANGED <<jvm, call, result, moved, drawn, movedBy>>

\* getMultipartFile: the bytes of the PDF, in memory.
WrapPdf(t) ==
    /\ at[t] = "wrap"
    /\ Fail(t, "error") \/ Goto(t, "pdf")
    /\ UNCHANGED <<jvm, call, result, fileVars, open, movedBy>>

\* Mutant: what could not be converted is left out.
ReturnWhatThereIs(b) ==
    /\ call[b] = "running"
    /\ \A t \in TaskOf(b) : at[t] \in Finished \cup {"failed"}
    /\ call'   = [call EXCEPT ![b] = "returned"]
    /\ result' = [result EXCEPT ![b] =
          LET Done(i) == at[<<b, i>>] \in Finished
              places  == SelectSeq([i \in DOMAIN Request[b] |-> i], Done)
          IN  [n \in DOMAIN places |-> <<Request[b][places[n]], at[<<b, places[n]>>]>>]]
    /\ UNCHANGED <<jvm, taskVars, fileVars, open, history>>

\* Mutant: a null for what could not be converted.
ReturnWithNulls(b) ==
    /\ call[b] = "running"
    /\ \A t \in TaskOf(b) : at[t] \in Finished \cup {"failed"}
    /\ call'   = [call EXCEPT ![b] = "returned"]
    /\ result' = [result EXCEPT ![b] =
                     [i \in DOMAIN Request[b] |-> <<Request[b][i], at[<<b, i>>]>>]]
    /\ UNCHANGED <<jvm, taskVars, fileVars, open, history>>

\* collect: the results in the order of the request.
Return(b) ==
    /\ call[b] = "running"
    /\ \A t \in TaskOf(b) : at[t] \in Finished
    /\ call'   = [call EXCEPT ![b] = "returned"]
    /\ result' = [result EXCEPT ![b] =
                     [i \in DOMAIN Request[b] |-> <<Request[b][i], at[<<b, i>>]>>]]
    /\ UNCHANGED <<jvm, taskVars, fileVars, open, history>>

\* FileToPdfConversionException, as soon as the caller's own task is over.
Throw(b) ==
    /\ call[b] = "running"
    /\ Free(CallerOf[b])
    /\ \E t \in TaskOf(b) : at[t] = "failed"
    /\ call' = [call EXCEPT ![b] = "thrown"]
    /\ UNCHANGED <<jvm, result, taskVars, fileVars, open, history>>

\* The JVM ends in order, and everything in it: what is registered is deleted.
Exit ==
    /\ jvm = "up"
    /\ jvm'    = "exited"
    /\ temp'   = temp \ onExit
    /\ onExit' = {}
    /\ open'   = {}
    /\ call'   = [b \in Batches |-> IF call[b] = "running" THEN "lost" ELSE call[b]]
    /\ at'     = [t \in Task |-> IF at[t] \in Converting \cup {"queued"} THEN "lost" ELSE at[t]]
    /\ thread' = [t \in Task |-> "none"]
    /\ UNCHANGED <<result, moved, drawn, history>>

Convert(t) ==
    \/ Detect(t) \/ TransferToFile(t) \/ ParseRtf(t) \/ DrawImage(t)
    \/ PostToDocmosis(t) \/ ReadPdf(t) \/ WrapPdf(t)

Next ==
    \/ \E b \in Batches : Begin(b) \/ Return(b) \/ Throw(b)
    \/ \E t \in Task : Convert(t) \/ \E w \in Threads : Take(w, t)
    \/ Exit

Spec == Init /\ [][Next]_vars

(***************************************************************************)
(* A thread goes on with its task, since what a task calls returns or      *)
(* times out, and a caller with its batch.  The pool is obliged to nothing.*)
(***************************************************************************)
Fairness ==
    /\ \A w \in Threads : WF_vars(\E t \in Task : thread[t] = w /\ Convert(t))
    /\ \A b \in Batches :
          WF_vars(Return(b) \/ Throw(b) \/ \E t \in TaskOf(b) : Take(CallerOf[b], t))

FairSpec == Spec /\ Fairness
-----------------------------------------------------------------------------
(* Properties *)

\* Every variable keeps its shape, and a thread runs one task at a time.
TypeOK ==
    /\ jvm     \in {"up", "exited"}
    /\ call    \in [Batches -> {"idle", "running", "returned", "thrown", "lost"}]
    /\ result  \in [Batches -> Seq(Uploads \X Finished)]
    /\ at      \in [Task -> {"queued", "failed", "lost"} \cup Converting \cup Finished]
    /\ thread  \in [Task -> Threads \cup {"none"}]
    /\ \A s, t \in Task : thread[s] = thread[t] => s = t \/ thread[t] = "none"
    /\ moved   \subseteq Uploads
    /\ temp    \subseteq Task \X Purposes
    /\ onExit  \subseteq temp
    /\ open    \subseteq Task
    /\ movedBy \in [Uploads -> Task \cup {None}]

\* All or nothing, in order: what a batch returns answers its request place
\* by place, with the upload itself exactly where no converter accepts it.
AnswersTheRequest ==
    \A b \in Batches : call[b] = "returned" =>
        /\ DOMAIN result[b] = DOMAIN Request[b]
        /\ \A i \in DOMAIN Request[b] :
              result[b][i] = <<Request[b][i],
                               IF Kind[Request[b][i]] = "other" THEN "original" ELSE "pdf">>

\* An upload that a batch returned can be read, whatever other batches do
\* with it and whatever has happened to it before.
OriginalsIntact ==
    \A b \in Batches : call[b] = "returned" =>
        \A i \in DOMAIN result[b] : result[b][i][2] = "original" => result[b][i][1] \notin moved

\* A batch that met no error throws only for an upload that cannot be
\* transferred: a byte array, or one whose file another task, of this batch
\* or an earlier one, has taken.  It is what makes a batch that failed for
\* one upload impossible to repeat with the others.
FailureExplained ==
    \A b \in Batches :
        call[b] = "thrown" /\ (\A t \in TaskOf(b) : faults[t] \in {"none", "unsupported", "moved"}) =>
            \E t \in TaskOf(b) :
                \/ Storage[Upload(t)] = "bytes" /\ Kind[Upload(t)] # "other"
                \/ Storage[Upload(t)] = "disk"  /\ movedBy[Upload(t)] \notin {None, t}

\* An orderly end of the JVM leaves no temporary file behind but PDFs that
\* came from Docmosis, of tasks that nobody waits for any more included.
OnlyDocmosisFilesSurvive ==
    jvm = "exited" =>
        \A x \in temp : x[2] = "output" /\ Kind[Upload(x[1])] \in {"word", "rtf"}

\* A connection outlives its conversion in two cases only: Docmosis answered
\* with an error, or there was no file to put its answer into.
ConnectionsExplained ==
    \A t \in open : at[t] = "read" \/ faults[t] \in {"docmosis", "no_file"}

\* An image is drawn inside the margins of its page and fills one direction.
ImagesFit ==
    \A t \in Task : drawn[t] # None =>
        /\ WithinMargins(drawn[t][2], drawn[t][1])
        /\ FillsOneDirection(drawn[t][2], drawn[t][1])

\* Every batch ends, even while the tasks of batches that have failed keep
\* all threads of the pool.
BatchEnds == \A b \in Batches : call[b] = "running" ~> call[b] # "running"
=============================================================================
