------------------------ MODULE FileConversion_proofs ------------------------
(***************************************************************************)
(* What FileConversion keeps for any batches, uploads, images, sizes of    *)
(* the page and of the pool.  The first part is the arithmetic of          *)
(* ImageLayout.  The second gives TaskStep, an abstraction of the seven    *)
(* steps of a conversion, to which the invariance proof is reduced.        *)
(***************************************************************************)
EXTENDS FileConversion, TLAPS

(* The layout of an image *)

\* A quotient rounded down stays below any whole bound of the quotient.
LEMMA DivBound ==
    ASSUME NEW a \in Nat, NEW b \in Nat \ {0}, NEW k \in Nat, a <= k * b
    PROVE  a \div b \in Nat /\ a \div b <= k
  <1> DEFINE q == a \div b
  <1>1. q \in Nat /\ q * b <= a
    OBVIOUS
  <1>2. SUFFICES ASSUME q >= k + 1 PROVE FALSE
    BY <1>1
  <1>3. q * b >= (k + 1) * b
    BY <1>1, <1>2
  <1>4. (k + 1) * b = k * b + b
    OBVIOUS
  <1> QED BY <1>1, <1>3, <1>4

\* An image of any size is drawn within the margins of its page, on pages of
\* any size that the margins leave room on, and fills one direction.
THEOREM ImageIsPlacedWell ==
    ASSUME NEW image \in Image
    PROVE  /\ WithinMargins(Placed(image), PageOf(image))
           /\ FillsOneDirection(Placed(image), PageOf(image))
  <1> DEFINE page == PageOf(image)
             iw == image.width
             ih == image.height
             w  == Inner(page.width)
             h  == Inner(page.height)
  <1>1. iw \in Nat \ {0} /\ ih \in Nat \ {0}
    BY DEF Image
  <1>2. page.width \in Nat /\ page.height \in Nat /\ w \in Nat /\ h \in Nat
    BY PageAssumption DEF PageOf, Inner
  <1>3. CASE w * ih <= h * iw
    <2>1. /\ Placed(image).x = Margin /\ Placed(image).width = w
          /\ Placed(image).height = (w * ih) \div iw
          /\ Placed(image).y = page.height - ((w * ih) \div iw) - Margin
      BY <1>3 DEF Placed, LimitedByWidth
    <2>2. w * ih \in Nat
      BY <1>1, <1>2
    <2>3. (w * ih) \div iw \in Nat /\ (w * ih) \div iw <= h
      BY <1>1, <1>2, <1>3, <2>2, DivBound
    <2>4. FillsOneDirection(Placed(image), page)
      BY <2>1 DEF FillsOneDirection
    <2>5. WithinMargins(Placed(image), page)
      BY <1>2, <2>1, <2>3, PageAssumption DEF WithinMargins, Inner
    <2> QED BY <2>4, <2>5
  <1>4. CASE ~(w * ih <= h * iw)
    <2>1. /\ Placed(image).x = Margin /\ Placed(image).height = h
          /\ Placed(image).width = (h * iw) \div ih
          /\ Placed(image).y = page.height - h - Margin
      BY <1>4 DEF Placed, LimitedByWidth
    <2>2. h * iw \in Nat /\ w * ih \in Nat
      BY <1>1, <1>2
    <2>3. h * iw <= w * ih
      BY <1>4, <2>2
    <2>4. (h * iw) \div ih \in Nat /\ (h * iw) \div ih <= w
      BY <1>1, <1>2, <2>2, <2>3, DivBound
    <2>5. FillsOneDirection(Placed(image), page)
      BY <2>1 DEF FillsOneDirection
    <2>6. WithinMargins(Placed(image), page)
      BY <1>2, <2>1, <2>4, PageAssumption DEF WithinMargins, Inner
    <2> QED BY <2>5, <2>6
  <1> QED BY <1>3, <1>4
-----------------------------------------------------------------------------
(* The invariant *)

Reasons  == {"error", "unsupported", "moved", "docmosis", "no_file"}
Drawings == {<<PageOf(image), Placed(image)>> : image \in Images}

\* Where a task may be, given what its upload is.
PlaceFits(place, kind) ==
    /\ place = "original" => kind = "other"
    /\ place \in (Converting \ {"detect"}) \cup {"pdf"} => kind # "other"
    /\ place = "draw"  => kind = "image"
    /\ place = "parse" => kind = "rtf"
    /\ place \in {"post", "read"} => kind \in {"word", "rtf"}

PlacesFit == \A t \in Task : PlaceFits(at[t], Kind[Upload(t)])

HistoryTypes ==
    /\ drawn  \in [Task -> {None} \cup Drawings]
    /\ faults \in [Task -> {"none"} \cup Reasons]

\* Only files on disk are moved, for a converter, by a task that is past it.
MovesKnown ==
    \A f \in moved :
        /\ Storage[f] = "disk" /\ Kind[f] # "other"
        /\ movedBy[f] \in Task
        /\ at[movedBy[f]] \notin {"queued", "detect", "transfer"}

FaultsKnown ==
    \A t \in Task :
        /\ faults[t] # "none" <=> at[t] = "failed"
        /\ faults[t] = "unsupported" => Storage[Upload(t)] = "bytes" /\ Kind[Upload(t)] # "other"
        /\ faults[t] = "moved" => Upload(t) \in moved /\ movedBy[Upload(t)] # t

FilesKnown ==
    /\ \A x \in temp \ onExit : x[2] = "output" /\ Kind[Upload(x[1])] \in {"word", "rtf"}
    /\ jvm = "exited" => /\ onExit = {}
                         /\ \A t \in Task : at[t] \notin Converting \cup {"queued"}

ThrownKnown ==
    \A b \in Batches : call[b] = "thrown" => \E t \in TaskOf(b) : faults[t] # "none"

TaskInv == /\ TypeOK /\ PlacesFit /\ HistoryTypes /\ MovesKnown /\ FaultsKnown
           /\ FilesKnown /\ ConnectionsExplained

Inv == TaskInv /\ ThrownKnown /\ AnswersTheRequest

LEMMA UploadOfTask ==
    ASSUME NEW t \in Task
    PROVE  Upload(t) \in Uploads
  <1>1. PICK b \in Batches : t \in {b} \X DOMAIN Request[b]
    BY DEF Task
  <1>2. Request[b] \in Seq(Uploads) /\ t[1] = b /\ t[2] \in DOMAIN Request[b]
    BY <1>1, RequestAssumption
  <1> QED BY <1>2 DEF Upload

LEMMA TaskOfBatch ==
    ASSUME NEW b \in Batches, NEW i \in DOMAIN Request[b]
    PROVE  <<b, i>> \in Task /\ <<b, i>> \in TaskOf(b) /\ Upload(<<b, i>>) = Request[b][i]
  BY DEF Task, TaskOf, Upload

LEMMA InitEstablishes == Init => Inv
  <1> SUFFICES ASSUME Init PROVE Inv
    OBVIOUS
  <1> USE DEF Init
  <1>1. TypeOK
    BY DEF TypeOK, Converting, Finished
  <1>2. PlacesFit /\ FaultsKnown
    BY DEF PlacesFit, PlaceFits, FaultsKnown, Converting
  <1>3. HistoryTypes /\ MovesKnown
    BY DEF HistoryTypes, MovesKnown
  <1>4. FilesKnown /\ ConnectionsExplained
    BY DEF FilesKnown, ConnectionsExplained
  <1>5. ThrownKnown /\ AnswersTheRequest
    BY DEF ThrownKnown, AnswersTheRequest
  <1> QED BY <1>1, <1>2, <1>3, <1>4, <1>5 DEF Inv, TaskInv
-----------------------------------------------------------------------------
(* The steps of a task *)

\* The task goes on to another place, or is over.
GoesOn(t) ==
    \E place \in (Converting \ {"detect"}) \cup Finished :
        /\ at' = [at EXCEPT ![t] = place]
        /\ PlaceFits(place, Kind[Upload(t)])
        /\ at[t] # "detect" => place # "transfer"
        /\ thread' \in {thread, [thread EXCEPT ![t] = "none"]}
        /\ t \in open' => place = "read"
        /\ UNCHANGED faults

FailsWith(t) ==
    \E why \in Reasons :
        /\ at'     = [at EXCEPT ![t] = "failed"]
        /\ thread' = [thread EXCEPT ![t] = "none"]
        /\ faults' = [faults EXCEPT ![t] = why]
        /\ why = "unsupported" => Storage[Upload(t)] = "bytes" /\ at[t] = "transfer"
        /\ why = "moved" => Upload(t) \in moved /\ at[t] \in {"detect", "transfer"}
        /\ t \in open' => why \in {"docmosis", "no_file"}

\* An upload is moved on the way past "transfer", once.
MovesOnce(t) ==
    \/ UNCHANGED <<moved, movedBy>>
    \/ /\ at[t] = "transfer"
       /\ UNCHANGED faults
       /\ Storage[Upload(t)] = "disk" /\ Upload(t) \notin moved
       /\ moved'   = moved \cup {Upload(t)}
       /\ movedBy' = [movedBy EXCEPT ![Upload(t)] = t]

\* A file is registered, or is a PDF from Docmosis.
MakesFiles(t) ==
    \/ UNCHANGED <<temp, onExit>>
    \/ \E purpose \in Purposes : Create(t, purpose)
    \/ CreateUnregistered(t, "output") /\ Kind[Upload(t)] \in {"word", "rtf"}

TaskStep(t) ==
    /\ at[t] \in Converting
    /\ UNCHANGED <<jvm, call, result>>
    /\ GoesOn(t) \/ FailsWith(t)
    /\ MovesOnce(t)
    /\ MakesFiles(t)
    /\ open' \subseteq open \cup {t}
    /\ \/ UNCHANGED drawn
       \/ \E drawing \in Drawings : drawn' = [drawn EXCEPT ![t] = drawing]

\* A step that goes to a place that fits, or fails, is one of the two.
LEMMA GotoGoesOn ==
    ASSUME NEW t \in Task, NEW place \in (Converting \ {"detect"}) \cup Finished,
           Goto(t, place), PlaceFits(place, Kind[Upload(t)]),
           at[t] # "detect" => place # "transfer",
           t \in open' => place = "read"
    PROVE  GoesOn(t) /\ UNCHANGED faults
  BY DEF Goto, GoesOn

LEMMA FailFailsWith ==
    ASSUME NEW t \in Task, NEW why \in Reasons, Fail(t, why),
           why = "unsupported" => Storage[Upload(t)] = "bytes" /\ at[t] = "transfer",
           why = "moved" => Upload(t) \in moved /\ at[t] \in {"detect", "transfer"},
           t \in open' => why \in {"docmosis", "no_file"}
    PROVE  FailsWith(t)
  BY DEF Fail, FailsWith

\* A task has a connection only while it reads from it.
LEMMA OpenWhileReading ==
    ASSUME TaskInv, NEW t \in Task, at[t] \in Converting \ {"read"}
    PROVE  t \notin open
  BY DEF TaskInv, ConnectionsExplained, FaultsKnown, Converting

LEMMA DetectIsTaskStep ==
    ASSUME TaskInv, NEW t \in Task, Detect(t)
    PROVE  TaskStep(t)
  <1> USE DEF Detect, fileVars
  <1>1. at[t] = "detect" /\ t \notin open'
    BY OpenWhileReading DEF Converting
  <1>2. GoesOn(t) \/ FailsWith(t)
    <2>1. CASE Fail(t, IF Upload(t) \in moved THEN "moved" ELSE "error")
      BY <1>1, <2>1, FailFailsWith DEF Reasons
    <2>2. CASE Goto(t, IF Kind[Upload(t)] = "other" THEN "original" ELSE "transfer")
      <3> DEFINE place == IF Kind[Upload(t)] = "other" THEN "original" ELSE "transfer"
      <3>1. place \in (Converting \ {"detect"}) \cup Finished
        BY DEF Converting, Finished
      <3>2. PlaceFits(place, Kind[Upload(t)])
        BY DEF PlaceFits, Converting
      <3> QED BY <1>1, <2>2, <3>1, <3>2, GotoGoesOn
    <2> QED BY <2>1, <2>2
  <1> QED BY <1>1, <1>2 DEF TaskStep, MovesOnce, MakesFiles, Converting

\* A converter accepts the kind that brought the task to it.
LEMMA ConverterFits ==
    ASSUME NEW kind \in {"image", "word", "rtf"}
    PROVE  /\ Converter(kind) \in (Converting \ {"detect"}) \cup Finished
           /\ Converter(kind) \notin {"transfer", "read"}
           /\ PlaceFits(Converter(kind), kind)
  <1>1. CASE kind = "image"
    BY <1>1 DEF Converter, PlaceFits, Converting
  <1>2. CASE kind = "rtf"
    BY <1>2 DEF Converter, PlaceFits, Converting
  <1>3. CASE kind = "word"
    BY <1>3 DEF Converter, PlaceFits, Converting
  <1> QED BY <1>1, <1>2, <1>3

LEMMA TransferIsTaskStep ==
    ASSUME TaskInv, NEW t \in Task, TransferToFile(t)
    PROVE  TaskStep(t)
  <1> DEFINE f == Upload(t)
  <1>1. /\ at[t] = "transfer"
        /\ UNCHANGED <<jvm, call, result, drawn, open>>
    BY DEF TransferToFile
  <1>2. t \notin open'
    BY <1>1, OpenWhileReading DEF Converting
  <1>3. Kind[f] \in {"image", "word", "rtf"}
    BY <1>1, UploadOfTask, KindAssumption DEF TaskInv, PlacesFit, PlaceFits, Converting
  <1>4. MakesFiles(t)
    BY DEF TransferToFile, MakesFiles, FilesUnchanged, Purposes
  <1>5. (GoesOn(t) \/ FailsWith(t)) /\ MovesOnce(t)
    <2>1. CASE Fail(t, "error") /\ UNCHANGED <<moved, movedBy>>
      BY <1>2, <2>1, FailFailsWith DEF Reasons, MovesOnce
    <2>2. CASE Goto(t, Converter(Kind[f]))
               /\ \/ UNCHANGED <<moved, movedBy>>
                  \/ /\ Storage[f] = "disk" /\ f \notin moved
                     /\ moved'   = moved \cup {f}
                     /\ movedBy' = [movedBy EXCEPT ![f] = t]
      <3>1. GoesOn(t) /\ UNCHANGED faults
        BY <1>2, <1>3, <2>2, ConverterFits, GotoGoesOn
      <3>2. MovesOnce(t)
        BY <1>1, <2>2, <3>1 DEF MovesOnce
      <3> QED BY <3>1, <3>2
    <2>3. CASE /\ Fail(t, CASE Storage[f] = "bytes" -> "unsupported"
                             [] f \in moved          -> "moved"
                             [] OTHER                -> "error")
               /\ UNCHANGED <<moved, movedBy>>
      <3>1. CASE Storage[f] = "bytes"
        <4>1. f \notin moved
          BY <3>1 DEF TaskInv, MovesKnown
        <4>2. Fail(t, "unsupported")
          BY <2>3, <3>1, <4>1
        <4> QED BY <1>1, <1>2, <2>3, <3>1, <4>2, FailFailsWith DEF Reasons, MovesOnce
      <3>2. CASE Storage[f] # "bytes" /\ f \in moved
        <4>1. Fail(t, "moved")
          BY <2>3, <3>2
        <4> QED BY <1>1, <1>2, <2>3, <3>2, <4>1, FailFailsWith DEF Reasons, MovesOnce
      <3>3. CASE Storage[f] # "bytes" /\ f \notin moved
        <4>1. Fail(t, "error")
          BY <2>3, <3>3
        <4> QED BY <1>1, <1>2, <2>3, <4>1, FailFailsWith DEF Reasons, MovesOnce
      <3> QED BY <3>1, <3>2, <3>3
    <2> QED BY <2>1, <2>2, <2>3 DEF TransferToFile, TransferTo
  <1> QED BY <1>1, <1>4, <1>5 DEF TaskStep, Converting

LEMMA ParseIsTaskStep ==
    ASSUME TaskInv, NEW t \in Task, ParseRtf(t)
    PROVE  TaskStep(t)
  <1>1. /\ at[t] = "parse"
        /\ UNCHANGED <<jvm, call, result, moved, drawn, open, movedBy>>
    BY DEF ParseRtf
  <1>2. t \notin open'
    BY <1>1, OpenWhileReading DEF Converting
  <1>3. PlaceFits("post", Kind[Upload(t)])
    BY <1>1 DEF TaskInv, PlacesFit, PlaceFits, Converting
  <1>4. MakesFiles(t)
    BY DEF ParseRtf, MakesFiles, FilesUnchanged, Purposes
  <1>5. Fail(t, "error") => FailsWith(t)
    BY <1>2, FailFailsWith DEF Reasons
  <1>6. Goto(t, "post") => GoesOn(t)
    BY <1>2, <1>3, GotoGoesOn DEF Converting
  <1>7. GoesOn(t) \/ FailsWith(t)
    BY <1>5, <1>6 DEF ParseRtf
  <1> QED BY <1>1, <1>4, <1>7 DEF TaskStep, MovesOnce, Converting

LEMMA DrawIsTaskStep ==
    ASSUME TaskInv, NEW t \in Task, DrawImage(t)
    PROVE  TaskStep(t)
  <1>1. /\ at[t] = "draw"
        /\ UNCHANGED <<jvm, call, result, moved, open, movedBy>>
    BY DEF DrawImage
  <1>2. t \notin open'
    BY <1>1, OpenWhileReading DEF Converting
  <1>3. PlaceFits("wrap", Kind[Upload(t)])
    BY <1>1 DEF TaskInv, PlacesFit, PlaceFits, Converting
  <1>4. MakesFiles(t)
    BY DEF DrawImage, MakesFiles, FilesUnchanged, Purposes
  <1>5. Fail(t, "error") => FailsWith(t)
    BY <1>2, FailFailsWith DEF Reasons
  <1>6. Goto(t, "wrap") => GoesOn(t)
    BY <1>2, <1>3, GotoGoesOn DEF Converting
  <1>7. GoesOn(t) \/ FailsWith(t)
    BY <1>5, <1>6 DEF DrawImage
  <1>8. UNCHANGED drawn \/ \E drawing \in Drawings : drawn' = [drawn EXCEPT ![t] = drawing]
    BY DEF DrawImage, Drawings
  <1> QED BY <1>1, <1>4, <1>7, <1>8 DEF TaskStep, MovesOnce, Converting

LEMMA PostIsTaskStep ==
    ASSUME TaskInv, NEW t \in Task, PostToDocmosis(t)
    PROVE  TaskStep(t)
  <1>1. /\ at[t] = "post"
        /\ UNCHANGED <<jvm, call, result, moved, temp, onExit, drawn, movedBy>>
        /\ open' \subseteq open \cup {t}
    BY DEF PostToDocmosis, fileVars
  <1>2. t \notin open
    BY <1>1, OpenWhileReading DEF Converting
  <1>3. PlaceFits("read", Kind[Upload(t)])
    BY <1>1 DEF TaskInv, PlacesFit, PlaceFits, Converting
  <1>4. GoesOn(t) \/ FailsWith(t)
    <2>1. CASE Fail(t, "error") /\ UNCHANGED open
      BY <1>2, <2>1, FailFailsWith DEF Reasons
    <2>2. CASE Fail(t, "docmosis")
      BY <2>2, FailFailsWith DEF Reasons
    <2>3. CASE Goto(t, "read")
      BY <1>3, <2>3, GotoGoesOn DEF Converting
    <2> QED BY <2>1, <2>2, <2>3 DEF PostToDocmosis
  <1> QED BY <1>1, <1>4 DEF TaskStep, MovesOnce, MakesFiles, Converting

LEMMA ReadIsTaskStep ==
    ASSUME TaskInv, NEW t \in Task, ReadPdf(t)
    PROVE  TaskStep(t)
  <1>1. /\ at[t] = "read"
        /\ UNCHANGED <<jvm, call, result, moved, drawn, movedBy>>
        /\ open' \subseteq open \cup {t}
    BY DEF ReadPdf
  <1>2. Kind[Upload(t)] \in {"word", "rtf"}
    BY <1>1 DEF TaskInv, PlacesFit, PlaceFits
  <1>3. PlaceFits("wrap", Kind[Upload(t)])
    BY <1>2 DEF PlaceFits
  <1>4. MakesFiles(t)
    BY <1>2 DEF ReadPdf, MakesFiles, FilesUnchanged
  <1>5. GoesOn(t) \/ FailsWith(t)
    <2>1. CASE Fail(t, "no_file")
      BY <2>1, FailFailsWith DEF Reasons
    <2>2. CASE open' = open \ {t} /\ Fail(t, "error")
      BY <2>2, FailFailsWith DEF Reasons
    <2>3. CASE open' = open \ {t} /\ Goto(t, "wrap")
      BY <1>3, <2>3, GotoGoesOn DEF Converting
    <2> QED BY <2>1, <2>2, <2>3 DEF ReadPdf
  <1> QED BY <1>1, <1>4, <1>5 DEF TaskStep, MovesOnce, Converting

LEMMA WrapIsTaskStep ==
    ASSUME TaskInv, NEW t \in Task, WrapPdf(t)
    PROVE  TaskStep(t)
  <1> USE DEF WrapPdf, fileVars
  <1>1. at[t] = "wrap" /\ t \notin open'
    BY OpenWhileReading DEF Converting
  <1>2. PlaceFits("pdf", Kind[Upload(t)])
    BY <1>1 DEF TaskInv, PlacesFit, PlaceFits, Converting
  <1>3. CASE Fail(t, "error")
    BY <1>1, <1>3, FailFailsWith DEF TaskStep, MovesOnce, MakesFiles, Converting, Reasons
  <1>4. CASE Goto(t, "pdf")
    <2>1. GoesOn(t)
      BY <1>1, <1>2, <1>4, GotoGoesOn DEF Finished
    <2> QED BY <1>1, <2>1 DEF TaskStep, MovesOnce, MakesFiles, Converting
  <1> QED BY <1>3, <1>4

LEMMA ConvertIsTaskStep ==
    ASSUME TaskInv, NEW t \in Task, Convert(t)
    PROVE  TaskStep(t)
  BY DetectIsTaskStep, TransferIsTaskStep, ParseIsTaskStep, DrawIsTaskStep,
     PostIsTaskStep, ReadIsTaskStep, WrapIsTaskStep DEF Convert

\* What a step does to the place, the thread and the fault of its task, and
\* that it does nothing to those of others.
LEMMA TaskStepFacts ==
    ASSUME TaskInv, NEW t \in Task, TaskStep(t)
    PROVE  /\ at' \in [Task -> {"queued", "failed", "lost"} \cup Converting \cup Finished]
           /\ thread' \in [Task -> Threads \cup {"none"}]
           /\ faults' \in [Task -> {"none"} \cup Reasons]
           /\ \A s \in Task \ {t} : UNCHANGED <<at[s], thread[s], faults[s]>>
           /\ at'[t] \notin {"queued", "detect"}
           /\ at[t] # "detect" => at'[t] # "transfer"
           /\ thread'[t] \in {thread[t], "none"}
           /\ PlaceFits(at'[t], Kind[Upload(t)])
           /\ faults'[t] # "none" <=> at'[t] = "failed"
           /\ faults'[t] = "unsupported" => Storage[Upload(t)] = "bytes" /\ at[t] = "transfer"
           /\ faults'[t] = "moved" => Upload(t) \in moved /\ at[t] \in {"detect", "transfer"}
           /\ t \in open' => at'[t] = "read" \/ faults'[t] \in {"docmosis", "no_file"}
  <1>1. /\ at \in [Task -> {"queued", "failed", "lost"} \cup Converting \cup Finished]
        /\ thread \in [Task -> Threads \cup {"none"}]
        /\ faults \in [Task -> {"none"} \cup Reasons]
        /\ at[t] \in Converting /\ faults[t] = "none"
    BY DEF TaskInv, TypeOK, HistoryTypes, FaultsKnown, TaskStep, Converting
  <1>2. CASE GoesOn(t)
    <2>1. PICK place \in (Converting \ {"detect"}) \cup Finished :
             /\ at' = [at EXCEPT ![t] = place]
             /\ PlaceFits(place, Kind[Upload(t)])
             /\ at[t] # "detect" => place # "transfer"
             /\ thread' \in {thread, [thread EXCEPT ![t] = "none"]}
             /\ t \in open' => place = "read"
             /\ UNCHANGED faults
      BY <1>2 DEF GoesOn
    <2>2. place \notin {"queued", "detect", "failed"}
      BY DEF Converting, Finished
    <2> QED BY <1>1, <2>1, <2>2
  <1>3. CASE FailsWith(t)
    <2>1. PICK why \in Reasons :
             /\ at'     = [at EXCEPT ![t] = "failed"]
             /\ thread' = [thread EXCEPT ![t] = "none"]
             /\ faults' = [faults EXCEPT ![t] = why]
             /\ why = "unsupported" => Storage[Upload(t)] = "bytes" /\ at[t] = "transfer"
             /\ why = "moved" => Upload(t) \in moved /\ at[t] \in {"detect", "transfer"}
             /\ t \in open' => why \in {"docmosis", "no_file"}
      BY <1>3 DEF FailsWith
    <2>2. why # "none"
      BY DEF Reasons
    <2>3. PlaceFits("failed", Kind[Upload(t)])
      BY DEF PlaceFits, Converting
    <2> QED BY <1>1, <2>1, <2>2, <2>3
  <1> QED BY <1>2, <1>3 DEF TaskStep

LEMMA TaskStepFiles ==
    ASSUME TaskInv, NEW t \in Task, TaskStep(t)
    PROVE  /\ temp' \subseteq Task \X Purposes
           /\ onExit' \subseteq temp'
           /\ \A x \in temp' \ onExit' :
                 x[2] = "output" /\ Kind[Upload(x[1])] \in {"word", "rtf"}
  <1>1. /\ temp \subseteq Task \X Purposes /\ onExit \subseteq temp
        /\ \A x \in temp \ onExit : x[2] = "output" /\ Kind[Upload(x[1])] \in {"word", "rtf"}
    BY DEF TaskInv, TypeOK, FilesKnown
  <1>2. CASE UNCHANGED <<temp, onExit>>
    BY <1>1, <1>2
  <1>3. CASE \E purpose \in Purposes : Create(t, purpose)
    <2>1. PICK purpose \in Purposes : Create(t, purpose)
      BY <1>3
    <2> QED BY <1>1, <2>1 DEF Create
  <1>4. CASE CreateUnregistered(t, "output") /\ Kind[Upload(t)] \in {"word", "rtf"}
    <2> DEFINE file == <<t, "output">>
    <2>1. temp' = temp \cup {file} /\ onExit' = onExit
      BY <1>4 DEF CreateUnregistered
    <2>2. file \in Task \X Purposes /\ file[1] = t /\ file[2] = "output"
      BY DEF Purposes
    <2> HIDE DEF file
    <2> QED BY <1>1, <1>4, <2>1, <2>2
  <1> QED BY <1>2, <1>3, <1>4 DEF TaskStep, MakesFiles

\* A moved upload has been on disk, needed a converter, and was not moved
\* before; and tasks do not go back.
LEMMA TaskStepMoves ==
    ASSUME TaskInv, NEW t \in Task, TaskStep(t)
    PROVE  /\ MovesKnown' /\ moved' \subseteq Uploads
           /\ movedBy' \in [Uploads -> Task \cup {None}]
           /\ moved \subseteq moved' /\ \A f \in moved : movedBy'[f] = movedBy[f]
  <1> DEFINE u == Upload(t)
  <1>1. /\ moved \subseteq Uploads /\ movedBy \in [Uploads -> Task \cup {None}]
        /\ u \in Uploads /\ at[t] \in Converting
    BY UploadOfTask DEF TaskInv, TypeOK, TaskStep
  <1>2. /\ \A s \in Task \ {t} : at'[s] = at[s]
        /\ at'[t] \notin {"queued", "detect"}
        /\ at[t] # "detect" => at'[t] # "transfer"
    BY TaskStepFacts
  <1>3. \A f \in moved : /\ Storage[f] = "disk" /\ Kind[f] # "other" /\ movedBy[f] \in Task
                         /\ at[movedBy[f]] \notin {"queued", "detect", "transfer"}
    BY DEF TaskInv, MovesKnown
  <1>4. \A f \in moved : at'[movedBy[f]] \notin {"queued", "detect", "transfer"}
    BY <1>2, <1>3
  <1>5. CASE UNCHANGED <<moved, movedBy>>
    BY <1>1, <1>3, <1>4, <1>5 DEF MovesKnown
  <1>6. CASE /\ at[t] = "transfer"
             /\ Storage[u] = "disk" /\ u \notin moved
             /\ moved'   = moved \cup {u}
             /\ movedBy' = [movedBy EXCEPT ![u] = t]
    <2>1. Kind[u] # "other"
      BY <1>6 DEF TaskInv, PlacesFit, PlaceFits, Converting
    <2>2. movedBy'[u] = t /\ \A f \in moved : movedBy'[f] = movedBy[f]
      BY <1>1, <1>6
    <2>3. movedBy' \in [Uploads -> Task \cup {None}]
      BY <1>1, <1>6
    <2>4. at'[t] \notin {"queued", "detect", "transfer"}
      BY <1>2, <1>6
    <2>5. MovesKnown'
      BY <1>3, <1>4, <1>6, <2>1, <2>2, <2>4 DEF MovesKnown
    <2> QED BY <1>1, <1>6, <2>2, <2>3, <2>5
  <1> QED BY <1>5, <1>6 DEF TaskStep, MovesOnce

LEMMA TaskStepPreserves ==
    ASSUME TaskInv, NEW t \in Task, TaskStep(t)
    PROVE  TaskInv'
  <1> DEFINE u == Upload(t)
  <1>1. at[t] \in Converting /\ UNCHANGED <<jvm, call, result>>
    BY DEF TaskStep
  <1>2. TypeOK'
    <2>1. \A r, s \in Task : thread'[r] = thread'[s] => r = s \/ thread'[s] = "none"
      BY TaskStepFacts DEF TaskInv, TypeOK
    <2>2. open' \subseteq Task
      BY DEF TaskStep, TaskInv, TypeOK
    <2> QED BY <1>1, <2>1, <2>2, TaskStepFacts, TaskStepFiles, TaskStepMoves DEF TaskInv, TypeOK
  <1>3. PlacesFit'
    BY TaskStepFacts DEF TaskInv, PlacesFit
  <1>4. HistoryTypes'
    <2>1. drawn' \in [Task -> {None} \cup Drawings]
      BY DEF TaskStep, TaskInv, HistoryTypes
    <2> QED BY <2>1, TaskStepFacts DEF HistoryTypes
  <1>5. FaultsKnown'
    <2> SUFFICES ASSUME NEW s \in Task
                 PROVE  /\ faults'[s] # "none" <=> at'[s] = "failed"
                        /\ faults'[s] = "unsupported" =>
                              Storage[Upload(s)] = "bytes" /\ Kind[Upload(s)] # "other"
                        /\ faults'[s] = "moved" => Upload(s) \in moved' /\ movedBy'[Upload(s)] # s
      BY DEF FaultsKnown
    <2>1. CASE s # t
      BY <2>1, TaskStepFacts, TaskStepMoves DEF TaskInv, FaultsKnown
    <2>2. CASE s = t
      <3>1. at[t] = "transfer" => Kind[u] # "other"
        BY DEF TaskInv, PlacesFit, PlaceFits, Converting
      <3>2. u \in moved /\ at[t] \in {"detect", "transfer"} => movedBy[u] # t
        BY DEF TaskInv, MovesKnown
      <3> QED BY <2>2, <3>1, <3>2, TaskStepFacts, TaskStepMoves
    <2> QED BY <2>1, <2>2
  <1>6. FilesKnown'
    <2>1. jvm = "up"
      BY <1>1 DEF TaskInv, TypeOK, FilesKnown
    <2> QED BY <1>1, <2>1, TaskStepFiles DEF FilesKnown
  <1>7. ConnectionsExplained'
    <2> SUFFICES ASSUME NEW s \in open'
                 PROVE  at'[s] = "read" \/ faults'[s] \in {"docmosis", "no_file"}
      BY DEF ConnectionsExplained
    <2>1. CASE s = t
      BY <2>1, TaskStepFacts
    <2>2. CASE s # t
      <3>1. s \in open /\ s \in Task
        BY <2>2 DEF TaskStep, TaskInv, TypeOK
      <3> QED BY <2>2, <3>1, TaskStepFacts DEF TaskInv, ConnectionsExplained
    <2> QED BY <2>1, <2>2
  <1> QED BY <1>2, <1>3, <1>4, <1>5, <1>6, <1>7, TaskStepMoves DEF TaskInv
-----------------------------------------------------------------------------
(* The steps of a batch, and the end of the JVM *)

\* A batch begins, returns or throws without a change of its tasks.
LEMMA BatchStepKeepsTasks ==
    ASSUME TaskInv,
           UNCHANGED <<jvm, taskVars, fileVars, open, history>>,
           call' \in [Batches -> {"idle", "running", "returned", "thrown", "lost"}],
           result' \in [Batches -> Seq(Uploads \X Finished)]
    PROVE  TaskInv'
  <1> USE DEF TaskInv, taskVars, fileVars, history
  <1>1. TypeOK'
    BY DEF TypeOK
  <1>2. PlacesFit' /\ HistoryTypes' /\ MovesKnown'
    BY DEF PlacesFit, HistoryTypes, MovesKnown
  <1>3. FaultsKnown' /\ FilesKnown' /\ ConnectionsExplained'
    BY DEF FaultsKnown, FilesKnown, ConnectionsExplained
  <1> QED BY <1>1, <1>2, <1>3

LEMMA BeginPreserves ==
    ASSUME Inv, NEW b \in Batches, Begin(b)
    PROVE  Inv'
  <1> USE DEF Inv, Begin
  <1>1. /\ call' \in [Batches -> {"idle", "running", "returned", "thrown", "lost"}]
        /\ \A c \in Batches : call'[c] \in {"returned", "thrown"} => call'[c] = call[c]
    BY DEF TaskInv, TypeOK
  <1>2. TaskInv'
    BY <1>1, BatchStepKeepsTasks DEF TaskInv, TypeOK
  <1>3. ThrownKnown' /\ AnswersTheRequest'
    BY <1>1 DEF ThrownKnown, AnswersTheRequest, history
  <1> QED BY <1>2, <1>3

\* Every element is done: those no converter accepts are as they were.
LEMMA ReturnPreserves ==
    ASSUME Inv, NEW b \in Batches, Return(b)
    PROVE  Inv'
  <1> USE DEF Inv
  <1> DEFINE answer == [i \in DOMAIN Request[b] |-> <<Request[b][i], at[<<b, i>>]>>]
  <1>1. /\ call[b] = "running"
        /\ \A t \in TaskOf(b) : at[t] \in Finished
        /\ call' = [call EXCEPT ![b] = "returned"]
        /\ result' = [result EXCEPT ![b] = answer]
        /\ UNCHANGED <<jvm, taskVars, fileVars, open, history>>
    BY DEF Return
  <1>2. /\ call \in [Batches -> {"idle", "running", "returned", "thrown", "lost"}]
        /\ result \in [Batches -> Seq(Uploads \X Finished)]
    BY DEF TaskInv, TypeOK
  <1>3. \A i \in DOMAIN Request[b] :
           answer[i] = <<Request[b][i], IF Kind[Request[b][i]] = "other" THEN "original" ELSE "pdf">>
    <2> SUFFICES ASSUME NEW i \in DOMAIN Request[b]
                 PROVE  at[<<b, i>>] = IF Kind[Request[b][i]] = "other" THEN "original" ELSE "pdf"
      OBVIOUS
    <2>1. at[<<b, i>>] \in {"original", "pdf"}
      BY <1>1, TaskOfBatch DEF Finished
    <2>2. PlaceFits(at[<<b, i>>], Kind[Request[b][i]])
      BY TaskOfBatch DEF TaskInv, PlacesFit
    <2> QED BY <2>1, <2>2 DEF PlaceFits
  <1>4. answer \in Seq(Uploads \X Finished)
    <2>1. PICK n \in Nat : DOMAIN Request[b] = 1..n
      BY RequestAssumption
    <2>2. \A i \in 1..n : Request[b][i] \in Uploads
      BY <2>1, RequestAssumption
    <2>3. \A i \in 1..n : answer[i] \in Uploads \X Finished
      BY <1>3, <2>1, <2>2 DEF Finished
    <2>4. answer \in [1..n -> Uploads \X Finished]
      BY <2>1, <2>3
    <2> HIDE DEF answer
    <2> QED BY <2>1, <2>4
  <1>5. DOMAIN answer = DOMAIN Request[b]
    OBVIOUS
  <1> HIDE DEF answer
  <1>6. TaskInv'
    BY <1>1, <1>2, <1>4, BatchStepKeepsTasks
  <1>7. ThrownKnown'
    BY <1>1, <1>2 DEF ThrownKnown, history
  <1>8. AnswersTheRequest'
    BY <1>1, <1>2, <1>3, <1>5 DEF AnswersTheRequest
  <1> QED BY <1>6, <1>7, <1>8

LEMMA ThrowPreserves ==
    ASSUME Inv, NEW b \in Batches, Throw(b)
    PROVE  Inv'
  <1> USE DEF Inv, Throw
  <1>1. /\ call' \in [Batches -> {"idle", "running", "returned", "thrown", "lost"}]
        /\ \A c \in Batches \ {b} : call'[c] = call[c]
        /\ call'[b] = "thrown"
    BY DEF TaskInv, TypeOK
  <1>2. TaskInv'
    BY <1>1, BatchStepKeepsTasks DEF TaskInv, TypeOK
  <1>3. \E t \in TaskOf(b) : faults[t] # "none"
    BY DEF TaskInv, FaultsKnown, TaskOf
  <1>4. ThrownKnown' /\ AnswersTheRequest'
    BY <1>1, <1>3 DEF ThrownKnown, AnswersTheRequest, history
  <1> QED BY <1>2, <1>4

\* A thread that takes a task is free.
LEMMA TakePreserves ==
    ASSUME Inv, NEW t \in Task, NEW w \in Threads, Take(w, t)
    PROVE  Inv'
  <1> USE DEF Inv, Take, fileVars, history
  <1>1. /\ \A s \in Task \ {t} : at'[s] = at[s] /\ thread'[s] = thread[s] /\ thread[s] # w
        /\ at'[t] = "detect" /\ thread'[t] = w /\ at[t] = "queued"
    BY DEF TaskInv, TypeOK, Free
  <1>2. TypeOK'
    <2>1. /\ at' \in [Task -> {"queued", "failed", "lost"} \cup Converting \cup Finished]
          /\ thread' \in [Task -> Threads \cup {"none"}]
      BY DEF TaskInv, TypeOK, Converting
    <2>2. \A r, s \in Task : thread'[r] = thread'[s] => r = s \/ thread'[s] = "none"
      BY <1>1 DEF TaskInv, TypeOK
    <2> QED BY <2>1, <2>2 DEF TaskInv, TypeOK
  <1>3. PlaceFits("detect", Kind[Upload(t)])
    BY DEF PlaceFits, Converting
  <1>4. PlacesFit' /\ HistoryTypes' /\ MovesKnown'
    BY <1>1, <1>3 DEF TaskInv, PlacesFit, HistoryTypes, MovesKnown
  <1>5. FaultsKnown' /\ ConnectionsExplained'
    BY <1>1 DEF TaskInv, FaultsKnown, ConnectionsExplained, TypeOK
  <1>6. FilesKnown'
    BY <1>1 DEF TaskInv, FilesKnown, TypeOK
  <1>7. ThrownKnown' /\ AnswersTheRequest'
    BY DEF ThrownKnown, AnswersTheRequest
  <1> QED BY <1>2, <1>4, <1>5, <1>6, <1>7 DEF TaskInv

\* What is left of the files was not registered.
LEMMA ExitPreserves ==
    ASSUME Inv, Exit
    PROVE  Inv'
  <1> USE DEF Inv, Exit, history
  <1>1. /\ \A t \in Task : /\ at'[t] \notin Converting \cup {"queued"}
                           /\ at'[t] # at[t] => at'[t] = "lost" /\ at[t] # "failed"
        /\ \A b \in Batches : call'[b] \in {"returned", "thrown"} => call'[b] = call[b]
    <2>1. \A t \in Task :
             at'[t] = IF at[t] \in Converting \cup {"queued"} THEN "lost" ELSE at[t]
      OBVIOUS
    <2>2. \A b \in Batches : call'[b] = IF call[b] = "running" THEN "lost" ELSE call[b]
      OBVIOUS
    <2> QED BY <2>1, <2>2 DEF Converting
  <1>2. TypeOK'
    <2>1. /\ at' \in [Task -> {"queued", "failed", "lost"} \cup Converting \cup Finished]
          /\ call' \in [Batches -> {"idle", "running", "returned", "thrown", "lost"}]
      BY DEF TaskInv, TypeOK
    <2>2. thread' \in [Task -> Threads \cup {"none"}] /\ \A t \in Task : thread'[t] = "none"
      OBVIOUS
    <2> QED BY <2>1, <2>2 DEF TaskInv, TypeOK
  <1>3. \A t \in Task : PlaceFits("lost", Kind[Upload(t)])
    BY DEF PlaceFits, Converting
  <1>4. PlacesFit' /\ HistoryTypes' /\ MovesKnown'
    BY <1>1, <1>3 DEF TaskInv, PlacesFit, HistoryTypes, MovesKnown
  <1>5. FaultsKnown' /\ FilesKnown' /\ ConnectionsExplained'
    BY <1>1 DEF TaskInv, FaultsKnown, FilesKnown, ConnectionsExplained
  <1>6. ThrownKnown' /\ AnswersTheRequest'
    BY <1>1 DEF ThrownKnown, AnswersTheRequest
  <1> QED BY <1>2, <1>4, <1>5, <1>6 DEF TaskInv

LEMMA ConvertPreserves ==
    ASSUME Inv, NEW t \in Task, Convert(t)
    PROVE  Inv'
  <1> USE DEF Inv
  <1>1. TaskStep(t) /\ TaskInv'
    BY ConvertIsTaskStep, TaskStepPreserves
  <1>2. UNCHANGED <<call, result>>
    BY <1>1 DEF TaskStep
  <1>3. \A s \in Task : faults[s] # "none" => faults'[s] # "none"
    BY <1>1, TaskStepFacts DEF TaskStep, TaskInv, FaultsKnown, Converting
  <1>4. ThrownKnown' /\ AnswersTheRequest'
    BY <1>2, <1>3 DEF ThrownKnown, AnswersTheRequest, TaskOf
  <1> QED BY <1>1, <1>4

LEMMA StepPreserves == Inv /\ [Next]_vars => Inv'
  <1> SUFFICES ASSUME Inv, [Next]_vars PROVE Inv'
    OBVIOUS
  <1>1. CASE UNCHANGED vars
    <2>1. TaskInv'
      BY <1>1, BatchStepKeepsTasks DEF Inv, TaskInv, TypeOK, vars
    <2> QED BY <1>1, <2>1 DEF Inv, ThrownKnown, AnswersTheRequest, vars, history
  <1>2. ASSUME NEW b \in Batches, Begin(b) \/ Return(b) \/ Throw(b) PROVE Inv'
    BY <1>2, BeginPreserves, ReturnPreserves, ThrowPreserves
  <1>3. ASSUME NEW t \in Task, Convert(t) PROVE Inv'
    BY <1>3, ConvertPreserves
  <1>4. ASSUME NEW t \in Task, NEW w \in Threads, Take(w, t) PROVE Inv'
    BY <1>4, TakePreserves
  <1>5. CASE Exit
    BY <1>5, ExitPreserves
  <1> QED BY <1>1, <1>2, <1>3, <1>4, <1>5 DEF Next

LEMMA Invariance == Spec => []Inv
  <1> QED BY InitEstablishes, StepPreserves, PTL DEF Spec
-----------------------------------------------------------------------------
(* Theorems *)

\* The state keeps its shape, and a thread runs one task, for any batches.
THEOREM ConversionTypeCorrect == Spec => []TypeOK
  <1>1. Inv => TypeOK
    BY DEF Inv, TaskInv
  <1> QED BY Invariance, <1>1, PTL

\* convert returns all results in the order of the request, or nothing,
\* whatever the threads that ran its tasks and whatever failed.
THEOREM RequestsAnswered == Spec => []AnswersTheRequest
  <1>1. Inv => AnswersTheRequest
    BY DEF Inv
  <1> QED BY Invariance, <1>1, PTL

\* An upload that convert returns as it is was not transferred by anybody:
\* only what a converter accepts ever is.
THEOREM OriginalsSafe == Spec => []OriginalsIntact
  <1>1. Inv => OriginalsIntact
    <2> SUFFICES ASSUME Inv, NEW b \in Batches, call[b] = "returned",
                        NEW i \in DOMAIN result[b], result[b][i][2] = "original"
                 PROVE  result[b][i][1] \notin moved
      BY DEF OriginalsIntact
    <2>1. Kind[result[b][i][1]] = "other"
      BY DEF Inv, AnswersTheRequest
    <2> QED BY <2>1 DEF Inv, TaskInv, MovesKnown
  <1> QED BY Invariance, <1>1, PTL

\* Without an error of a library or a service, convert throws only for a byte
\* array or for an upload that another task has taken the file of.
THEOREM FailuresExplained == Spec => []FailureExplained
  <1>1. Inv => FailureExplained
    <2> SUFFICES ASSUME Inv, NEW b \in Batches, call[b] = "thrown",
                        \A t \in TaskOf(b) : faults[t] \in {"none", "unsupported", "moved"}
                 PROVE  \E t \in TaskOf(b) :
                           \/ Storage[Upload(t)] = "bytes" /\ Kind[Upload(t)] # "other"
                           \/ Storage[Upload(t)] = "disk"  /\ movedBy[Upload(t)] \notin {None, t}
      BY DEF FailureExplained
    <2>1. PICK t \in TaskOf(b) : faults[t] \in {"unsupported", "moved"}
      BY DEF Inv, ThrownKnown
    <2>2. t \in Task
      BY DEF TaskOf
    <2>3. CASE faults[t] = "unsupported"
      BY <2>2, <2>3 DEF Inv, TaskInv, FaultsKnown
    <2>4. CASE faults[t] = "moved"
      <3>1. Upload(t) \in moved /\ movedBy[Upload(t)] # t
        BY <2>2, <2>4 DEF Inv, TaskInv, FaultsKnown
      <3>2. Storage[Upload(t)] = "disk" /\ movedBy[Upload(t)] \in Task
        BY <3>1 DEF Inv, TaskInv, MovesKnown
      <3>3. None \notin Task
        BY DEF None, Task
      <3> QED BY <3>1, <3>2, <3>3
    <2> QED BY <2>1, <2>3, <2>4
  <1> QED BY Invariance, <1>1, PTL

\* An orderly exit leaves only the PDFs that WordDocumentConverter wrote.
THEOREM FilesCleanedUp == Spec => []OnlyDocmosisFilesSurvive
  <1>1. Inv => OnlyDocmosisFilesSurvive
    BY DEF Inv, TaskInv, FilesKnown, OnlyDocmosisFilesSurvive
  <1> QED BY Invariance, <1>1, PTL

\* WordDocumentConverter leaves a response open in two cases only.
THEOREM ConnectionsSafe == Spec => []ConnectionsExplained
  <1>1. Inv => ConnectionsExplained
    BY DEF Inv, TaskInv
  <1> QED BY Invariance, <1>1, PTL

\* Every image that ImageConverter draws fits its page, whatever its size.
THEOREM ImagesAlwaysFit == Spec => []ImagesFit
  <1>1. Inv => ImagesFit
    <2> SUFFICES ASSUME Inv, NEW t \in Task, drawn[t] # None
                 PROVE  /\ WithinMargins(drawn[t][2], drawn[t][1])
                        /\ FillsOneDirection(drawn[t][2], drawn[t][1])
      BY DEF ImagesFit
    <2>1. PICK image \in Images : drawn[t] = <<PageOf(image), Placed(image)>>
      BY DEF Inv, TaskInv, HistoryTypes, Drawings
    <2>2. drawn[t][1] = PageOf(image) /\ drawn[t][2] = Placed(image)
      BY <2>1
    <2>3. image \in Image
      BY ImagesAssumption
    <2> QED BY <2>2, <2>3, ImageIsPlacedWell
  <1> QED BY Invariance, <1>1, PTL
-----------------------------------------------------------------------------
(* Batches come to an end *)

\* A task has a thread exactly while it is converted, and what is lost was
\* lost with the JVM.
ThreadsKnown ==
    /\ \A t \in Task : at[t] \in Converting <=> thread[t] # "none"
    /\ jvm = "up" => \A t \in Task : at[t] # "lost"
    /\ \A b \in Batches : call[b] = "running" => jvm = "up"

LEMMA ThreadsAreKnown == Spec => []ThreadsKnown
  <1>1. Init => ThreadsKnown
    BY DEF Init, ThreadsKnown, Converting
  <1>2. Inv /\ ThreadsKnown /\ [Next]_vars => ThreadsKnown'
    <2> SUFFICES ASSUME Inv, ThreadsKnown, [Next]_vars
                 PROVE  ThreadsKnown'
      OBVIOUS
    <2> USE DEF ThreadsKnown
    <2>0. /\ at \in [Task -> {"queued", "failed", "lost"} \cup Converting \cup Finished]
          /\ thread \in [Task -> Threads \cup {"none"}]
          /\ call \in [Batches -> {"idle", "running", "returned", "thrown", "lost"}]
      BY DEF Inv, TaskInv, TypeOK
    <2>1. CASE UNCHANGED vars
      BY <2>1 DEF vars, taskVars
    <2>2. ASSUME NEW b \in Batches, Begin(b) \/ Return(b) \/ Throw(b)
          PROVE  ThreadsKnown'
      <3>1. UNCHANGED <<jvm, at, thread>>
        BY <2>2 DEF Begin, Return, Throw, taskVars
      <3>2. \A c \in Batches : call'[c] = "running" => jvm = "up"
        BY <2>0, <2>2 DEF Begin, Return, Throw
      <3> QED BY <3>1, <3>2
    <2>3. ASSUME NEW t \in Task, NEW w \in Threads, Take(w, t)
          PROVE  ThreadsKnown'
      <3>1. /\ \A s \in Task \ {t} : at'[s] = at[s] /\ thread'[s] = thread[s]
            /\ at'[t] = "detect" /\ thread'[t] = w /\ UNCHANGED <<jvm, call>>
        BY <2>0, <2>3 DEF Take
      <3> QED BY <3>1, ThreadsAssumption DEF Converting
    <2>4. ASSUME NEW t \in Task, Convert(t)
          PROVE  ThreadsKnown'
      <3>1. UNCHANGED <<jvm, call>> /\ \A s \in Task \ {t} : UNCHANGED <<at[s], thread[s]>>
        BY <2>4, ConvertIsTaskStep, TaskStepFacts DEF Inv, TaskStep
      <3>2. at'[t] # "lost" /\ (at'[t] \in Converting <=> thread'[t] # "none")
        <4>1. thread[t] # "none"
          BY <2>4 DEF Convert, Detect, TransferToFile, ParseRtf, DrawImage,
             PostToDocmosis, ReadPdf, WrapPdf, Converting
        <4>2. ASSUME NEW why, Fail(t, why)
              PROVE  at'[t] # "lost" /\ (at'[t] \in Converting <=> thread'[t] # "none")
          BY <2>0, <4>2 DEF Fail, Converting
        <4>3. ASSUME NEW place \in Converting \cup Finished, Goto(t, place)
              PROVE  at'[t] # "lost" /\ (at'[t] \in Converting <=> thread'[t] # "none")
          BY <2>0, <4>1, <4>3 DEF Goto, Converting, Finished
        <4>4. \/ \E why : Fail(t, why)
              \/ \E place \in Converting \cup Finished : Goto(t, place)
          BY <2>4 DEF Convert, Detect, TransferToFile, TransferTo, ParseRtf, DrawImage,
             PostToDocmosis, ReadPdf, WrapPdf, Converter, Converting, Finished
        <4> QED BY <4>2, <4>3, <4>4
      <3> QED BY <3>1, <3>2
    <2>5. CASE Exit
      <3>1. \A t \in Task : at'[t] \notin Converting /\ thread'[t] = "none"
        <4>1. \A t \in Task :
                 at'[t] = IF at[t] \in Converting \cup {"queued"} THEN "lost" ELSE at[t]
          BY <2>5 DEF Exit
        <4> QED BY <2>5, <4>1 DEF Exit, Converting
      <3>2. \A b \in Batches : call'[b] # "running"
        BY <2>5 DEF Exit
      <3> QED BY <2>5, <3>1, <3>2 DEF Exit
    <2> QED BY <2>1, <2>2, <2>3, <2>4, <2>5 DEF Next
  <1> QED BY <1>1, <1>2, Invariance, PTL DEF Spec

\* A batch that goes on has somebody who can go on with it, however many
\* threads of the pool other batches keep: its results are there, or its
\* caller is free to throw or to take a task itself, or a task of the batch
\* or of its caller's is being converted.
BatchNeverStuck ==
    \A b \in Batches : call[b] = "running" =>
        \/ \A t \in TaskOf(b) : at[t] \in Finished
        \/ /\ Free(CallerOf[b])
           /\ \E t \in TaskOf(b) :
                 at[t] = "failed" \/ (at[t] = "queued" /\ MayRun(CallerOf[b], b))
        \/ \E t \in Task : at[t] \in Converting /\ (t[1] = b \/ thread[t] = CallerOf[b])

(***************************************************************************)
(* Of any number of batches, callers and threads of the pool, none ever    *)
(* waits for what cannot happen: the caller of parallelStream takes part,  *)
(* so that it needs no thread of the pool.                                 *)
(***************************************************************************)
THEOREM BatchesNeverStuck == Spec => []BatchNeverStuck
  <1>1. Inv /\ ThreadsKnown => BatchNeverStuck
    <2> SUFFICES ASSUME Inv, ThreadsKnown, NEW b \in Batches, call[b] = "running",
                        ~ \A t \in TaskOf(b) : at[t] \in Finished,
                        ~ \E t \in Task : at[t] \in Converting /\ (t[1] = b \/ thread[t] = CallerOf[b])
                 PROVE  /\ Free(CallerOf[b])
                        /\ \E t \in TaskOf(b) :
                              at[t] = "failed" \/ (at[t] = "queued" /\ MayRun(CallerOf[b], b))
      BY DEF BatchNeverStuck
    <2>1. Free(CallerOf[b])
      <3>1. CallerOf[b] # "none"
        BY CallersAssumption, ThreadsAssumption DEF Threads
      <3> QED BY <3>1 DEF Free, ThreadsKnown
    <2>2. PICK t \in TaskOf(b) : at[t] \notin Finished
      OBVIOUS
    <2>3. t \in Task /\ t[1] = b
      BY DEF TaskOf
    <2>4. at[t] \in {"queued", "failed", "lost"} /\ at[t] # "lost"
      BY <2>2, <2>3 DEF ThreadsKnown, Inv, TaskInv, TypeOK
    <2> QED BY <2>1, <2>4 DEF MayRun
  <1> QED BY <1>1, Invariance, ThreadsAreKnown, PTL

\* The most steps that a task can still take.
Stages ==
    [queued |-> 7, detect |-> 6, transfer |-> 5, parse |-> 4, post |-> 3,
     draw |-> 2, read |-> 2, wrap |-> 1,
     original |-> 0, pdf |-> 0, failed |-> 0, lost |-> 0]

StagesLeft(t) == Stages[at[t]]

\* Every step of a task brings it nearer to its end, and no step of other
\* tasks, batches or the JVM takes it further away.
TasksAdvance ==
    [][\A t \in Task :
          /\ StagesLeft(t)' <= StagesLeft(t)
          /\ Convert(t) \/ (\E w \in Threads : Take(w, t)) =>
                StagesLeft(t)' < StagesLeft(t)]_vars

LEMMA StagesFacts ==
    /\ \A place \in {"queued", "failed", "lost"} \cup Converting \cup Finished :
          Stages[place] \in 0..7
    /\ \A place \in {"queued"} \cup Converting : Stages[place] > 0
  BY DEF Stages, Converting, Finished

LEMMA TaskNearer ==
    ASSUME Inv, NEW t \in Task,
           Convert(t) \/ \E w \in Threads : Take(w, t)
    PROVE  /\ StagesLeft(t)' < StagesLeft(t)
           /\ \A s \in Task \ {t} : at'[s] = at[s]
  <1>0. at \in [Task -> {"queued", "failed", "lost"} \cup Converting \cup Finished]
    BY DEF Inv, TaskInv, TypeOK
  <1>1. \A s \in Task \ {t} : at'[s] = at[s]
    BY <1>0 DEF Convert, Detect, TransferToFile, TransferTo, ParseRtf, DrawImage,
       PostToDocmosis, ReadPdf, WrapPdf, Take, Fail, Goto
  <1>2. ASSUME NEW why, Fail(t, why), at[t] \in Converting
        PROVE  StagesLeft(t)' < StagesLeft(t)
    BY <1>0, <1>2 DEF Fail, StagesLeft, Stages, Converting
  <1>3. ASSUME NEW place, Goto(t, place), Stages[place] < Stages[at[t]]
        PROVE  StagesLeft(t)' < StagesLeft(t)
    BY <1>0, <1>3 DEF Goto, StagesLeft
  <1>4. CASE \E w \in Threads : Take(w, t)
    BY <1>0, <1>1, <1>4 DEF Take, StagesLeft, Stages
  <1>5. CASE Detect(t)
    BY <1>1, <1>2, <1>3, <1>5 DEF Detect, Stages, Converting
  <1>6. CASE TransferToFile(t)
    <2>1. Stages[Converter(Kind[Upload(t)])] < 5
      BY DEF Converter, Stages
    <2> QED BY <1>1, <1>2, <1>3, <1>6, <2>1 DEF TransferToFile, TransferTo, Stages, Converting
  <1>7. CASE ParseRtf(t) \/ DrawImage(t)
    BY <1>1, <1>2, <1>3, <1>7 DEF ParseRtf, DrawImage, Stages, Converting
  <1>8. CASE PostToDocmosis(t) \/ ReadPdf(t) \/ WrapPdf(t)
    BY <1>1, <1>2, <1>3, <1>8 DEF PostToDocmosis, ReadPdf, WrapPdf, Stages, Converting
  <1> QED BY <1>4, <1>5, <1>6, <1>7, <1>8 DEF Convert

(***************************************************************************)
(* A conversion takes at most six steps after a thread has taken its task, *)
(* whatever fails and whatever other threads do.  With BatchesNeverStuck   *)
(* it leaves of BatchEnds only that who can go on does.                    *)
(***************************************************************************)
THEOREM ConversionsEnd == Spec => [](\A t \in Task : StagesLeft(t) \in 0..7) /\ TasksAdvance
  <1>1. Inv => \A t \in Task : StagesLeft(t) \in 0..7
    BY StagesFacts DEF Inv, TaskInv, TypeOK, StagesLeft
  <1>2. Inv /\ [Next]_vars =>
           [\A t \in Task :
               /\ StagesLeft(t)' <= StagesLeft(t)
               /\ Convert(t) \/ (\E w \in Threads : Take(w, t)) =>
                     StagesLeft(t)' < StagesLeft(t)]_vars
    <2> SUFFICES ASSUME Inv, [Next]_vars, NEW t \in Task, ~ UNCHANGED vars
                 PROVE  /\ StagesLeft(t)' <= StagesLeft(t)
                        /\ Convert(t) \/ (\E w \in Threads : Take(w, t)) =>
                              StagesLeft(t)' < StagesLeft(t)
      OBVIOUS
    <2>1. Inv'
      BY StepPreserves
    <2>2. StagesLeft(t) \in 0..7 /\ StagesLeft(t)' \in 0..7
      <3>1. /\ at[t] \in {"queued", "failed", "lost"} \cup Converting \cup Finished
            /\ at'[t] \in {"queued", "failed", "lost"} \cup Converting \cup Finished
        BY <2>1 DEF Inv, TaskInv, TypeOK
      <3> QED BY <3>1, StagesFacts DEF StagesLeft
    <2>3. ASSUME at'[t] = at[t] PROVE StagesLeft(t)' = StagesLeft(t)
      BY <2>3 DEF StagesLeft
    <2>4. Convert(t) \/ (\E w \in Threads : Take(w, t)) => StagesLeft(t)' < StagesLeft(t)
      BY TaskNearer
    <2>5. ASSUME NEW s \in Task, Convert(s) \/ \E w \in Threads : Take(w, s)
          PROVE  StagesLeft(t)' <= StagesLeft(t)
      <3>1. CASE s = t
        BY <2>2, <2>5, <3>1, TaskNearer
      <3>2. CASE s # t
        <4>1. at'[t] = at[t]
          BY <2>5, <3>2, TaskNearer
        <4> QED BY <2>2, <2>3, <4>1
      <3> QED BY <3>1, <3>2
    <2>6. ASSUME NEW b \in Batches, Begin(b) \/ Return(b) \/ Throw(b)
          PROVE  StagesLeft(t)' <= StagesLeft(t)
      <3>1. at'[t] = at[t]
        BY <2>6 DEF Begin, Return, Throw, taskVars
      <3> QED BY <2>2, <2>3, <3>1
    <2>7. ASSUME Exit PROVE StagesLeft(t)' <= StagesLeft(t)
      <3>1. at'[t] = at[t] \/ at'[t] = "lost"
        BY <2>7 DEF Exit
      <3>2. at'[t] = "lost" => StagesLeft(t)' = 0
        BY DEF StagesLeft, Stages
      <3> QED BY <2>2, <2>3, <3>1, <3>2
    <2>8. StagesLeft(t)' <= StagesLeft(t)
      BY <2>5, <2>6, <2>7 DEF Next
    <2> QED BY <2>4, <2>8
  <1> QED BY <1>1, <1>2, Invariance, PTL DEF Spec, TasksAdvance
=============================================================================
