---------------------------- MODULE CcdPdf_proofs ----------------------------
(***************************************************************************)
(* The safety of CcdPdf for any number of callers, documents and attempts. *)
(* A case is replaced by whatever a caller holds, so the invariants of the *)
(* case are asked of every caller's object as well.                        *)
(***************************************************************************)
EXTENDS CcdPdf, FiniteSetTheorems, TLAPS

\* A document has one place: the scanned ones if it is a statement, the
\* others if not.
InPlace(d) ==
    /\ IsInjective(d.documents) /\ IsInjective(d.scanned)
    /\ Range(d.scanned) \subseteq Statements
    /\ Range(d.documents) \cap Statements = {}

GoodData(d, links) ==
    /\ RecordedIn(d) \subseteq links
    /\ InPlace(d)
    /\ d.evidenceHandled => Range(d.scanned) \subseteq d.handled
    /\ Range(d.documents) \cap ToTranslate # {} => d.translation

GoodCopies == /\ GoodData(ccdCase.data, stored)
              /\ \A u \in Callers : GoodData(held[u], stored)

\* A document is nowhere before its call has put it into an object.
NewIsNowhere ==
    \A d \in Docs : pc[d] \in {"idle", "generate", "store"} =>
        /\ d \notin RecordedIn(ccdCase.data)
        /\ \A u \in Callers : d \notin RecordedIn(held[u])

\* A call that may start an event has an attempt left for it.
AttemptsLeft ==
    \A d \in Docs : pc[d] \in {"idle", "generate", "store", "start"} => attempts[d] < MaxAttempts

\* A caller that nobody has overtaken holds all that the case has.
CurrentHoldsAll ==
    \A u \in Callers \ overtaken : RecordedIn(ccdCase.data) \subseteq RecordedIn(held[u])

Inv == TypeOK /\ GoodCopies /\ NewIsNowhere /\ AttemptsLeft /\ CurrentHoldsAll
-----------------------------------------------------------------------------
(* Lists and case data *)

LEMMA AppendedEntries ==
    ASSUME NEW s \in Seq(Docs), NEW d \in Docs, NEW link \in BOOLEAN
    PROVE  /\ s \o NewEntries(d, link) \in Seq(Docs)
           /\ Range(s \o NewEntries(d, link)) = Range(s) \cup (IF link THEN {d} ELSE {})
           /\ IsInjective(s) /\ d \notin Range(s) => IsInjective(s \o NewEntries(d, link))
  <1>1. CASE link
    <2> DEFINE t == s \o <<d>>
    <2>1. NewEntries(d, link) = <<d>>
      BY <1>1 DEF NewEntries
    <2>2. /\ t \in Seq(Docs) /\ Len(t) = Len(s) + 1 /\ t[Len(s) + 1] = d
          /\ \A i \in 1..Len(s) : t[i] = s[i]
      OBVIOUS
    <2>3. DOMAIN s = 1..Len(s) /\ DOMAIN t = 1..Len(s) + 1
      BY <2>2
    <2> HIDE DEF t
    <2>4. Range(t) = Range(s) \cup {d}
      BY <2>2, <2>3 DEF Range
    <2>5. IsInjective(s) /\ d \notin Range(s) => IsInjective(t)
      BY <2>2, <2>3 DEF Range, IsInjective
    <2>6. t \in Seq(Docs) /\ t = s \o NewEntries(d, link)
      BY <2>1, <2>2 DEF t
    <2> QED BY <1>1, <2>4, <2>5, <2>6
  <1>2. CASE ~link
    <2>1. s \o NewEntries(d, link) = s
      BY <1>2 DEF NewEntries
    <2> QED BY <1>2, <2>1
  <1> QED BY <1>1, <1>2

LEMMA EmptyDataIsGood ==
    ASSUME NEW links
    PROVE  EmptyData \in Data /\ RecordedIn(EmptyData) = {} /\ GoodData(EmptyData, links)
  <1>1. Range(<<>>) = {} /\ IsInjective(<<>>)
    BY DEF Range, IsInjective
  <1>2. RecordedIn(EmptyData) = {}
    BY <1>1 DEF RecordedIn, EmptyData
  <1>3. EmptyData \in Data
    BY DEF EmptyData, Data
  <1>4. InPlace(EmptyData)
    BY <1>1 DEF InPlace, EmptyData
  <1> QED BY <1>1, <1>2, <1>3, <1>4 DEF GoodData, EmptyData

\* updateDoc leaves good data good, and adds its document at most.
LEMMA UpdateDocIsGood ==
    ASSUME NEW data \in Data, NEW d \in Docs, NEW link \in BOOLEAN, NEW links,
           GoodData(data, links), d \notin RecordedIn(data), link => d \in links
    PROVE  LET new == UpdateDoc(data, d, link) IN
           /\ new \in Data /\ GoodData(new, links)
           /\ RecordedIn(data) \subseteq RecordedIn(new)
           /\ RecordedIn(new) \subseteq RecordedIn(data) \cup {d}
  <1> DEFINE new == UpdateDoc(data, d, link)
             added == IF link THEN {d} ELSE {}
  <1>1. /\ data.documents \in Seq(Docs) /\ data.scanned \in Seq(Docs)
        /\ data.evidenceHandled \in BOOLEAN /\ data.handled \in SUBSET Docs
        /\ data.translation \in BOOLEAN
    BY DEF Data
  <1>2. d \notin Range(data.documents) /\ d \notin Range(data.scanned)
    BY DEF RecordedIn
  <1>3. added \subseteq links /\ added \subseteq {d}
    OBVIOUS
  <1>4. CASE d \in NoCaseId
    BY <1>4 DEF UpdateDoc
  <1>5. CASE d \notin NoCaseId /\ d \in Statements
    <2> DEFINE list == data.scanned \o NewEntries(d, link)
    <2>1. new = [documents |-> data.documents, scanned |-> list, evidenceHandled |-> FALSE,
                 handled |-> data.handled,
                 translation |-> IF d \in ToTranslate THEN TRUE ELSE data.translation]
      BY <1>5 DEF UpdateDoc, UpdateCaseDataWithNewDoc, Data
    <2>2. /\ list \in Seq(Docs) /\ Range(list) = Range(data.scanned) \cup added
          /\ IsInjective(data.scanned) => IsInjective(list)
      BY <1>1, <1>2, AppendedEntries
    <2> HIDE DEF list, new
    <2>3. new \in Data
      BY <1>1, <2>1, <2>2 DEF Data
    <2>4. RecordedIn(new) = RecordedIn(data) \cup added
      BY <2>1, <2>2 DEF RecordedIn
    <2>5. InPlace(new)
      BY <1>5, <2>1, <2>2 DEF GoodData, InPlace
    <2>6. GoodData(new, links)
      BY <1>3, <2>1, <2>4, <2>5 DEF GoodData
    <2> QED BY <1>3, <2>3, <2>4, <2>6 DEF new
  <1>6. CASE d \notin NoCaseId /\ d \notin Statements
    <2> DEFINE list == data.documents \o NewEntries(d, link)
    <2>1. new = [documents |-> list, scanned |-> data.scanned,
                 evidenceHandled |-> data.evidenceHandled, handled |-> data.handled,
                 translation |-> IF d \in ToTranslate THEN TRUE ELSE data.translation]
      BY <1>6 DEF UpdateDoc, UpdateCaseDataWithNewDoc, Data
    <2>2. /\ list \in Seq(Docs) /\ Range(list) = Range(data.documents) \cup added
          /\ IsInjective(data.documents) => IsInjective(list)
      BY <1>1, <1>2, AppendedEntries
    <2> HIDE DEF list, new
    <2>3. new \in Data
      BY <1>1, <2>1, <2>2 DEF Data
    <2>4. RecordedIn(new) = RecordedIn(data) \cup added
      BY <2>1, <2>2 DEF RecordedIn
    <2>5. InPlace(new)
      BY <1>6, <2>1, <2>2 DEF GoodData, InPlace
    <2>6. Range(list) \cap ToTranslate # {} => new.translation
      BY <2>1, <2>2 DEF GoodData
    <2>7. GoodData(new, links)
      BY <1>3, <2>1, <2>4, <2>5, <2>6 DEF GoodData
    <2> QED BY <1>3, <2>3, <2>4, <2>7 DEF new
  <1> QED BY <1>4, <1>5, <1>6

\* A document that is stored later does not spoil case data.
LEMMA MoreStored ==
    ASSUME NEW data, NEW links, NEW more, GoodData(data, links), links \subseteq more
    PROVE  GoodData(data, more)
  BY DEF GoodData
-----------------------------------------------------------------------------
(* The steps *)

LEMMA InitEstablishes == Init => Inv
  <1> SUFFICES ASSUME Init PROVE Inv
    OBVIOUS
  <1> USE DEF Init
  <1>1. TypeOK
    BY EmptyDataIsGood, AttemptsAssumption DEF TypeOK
  <1>2. GoodCopies /\ NewIsNowhere /\ CurrentHoldsAll
    BY EmptyDataIsGood DEF GoodCopies, NewIsNowhere, CurrentHoldsAll
  <1>3. AttemptsLeft
    BY AttemptsAssumption DEF AttemptsLeft
  <1> QED BY <1>1, <1>2, <1>3 DEF Inv

\* A caller's object becomes a copy of the case.
LEMMA CopyIsGood ==
    ASSUME Inv, NEW u \in Callers,
           held' = [held EXCEPT ![u] = ccdCase.data],
           overtaken' = overtaken \ {u},
           UNCHANGED <<ccdCase, stored>>
    PROVE  /\ held' \in [Callers -> Data] /\ overtaken' \subseteq Callers
           /\ GoodCopies' /\ CurrentHoldsAll'
           /\ \A v \in Callers : held'[v] \in {held[v], ccdCase.data}
  <1>1. /\ held' \in [Callers -> Data] /\ overtaken' \subseteq Callers
        /\ held'[u] = ccdCase.data /\ \A v \in Callers \ {u} : held'[v] = held[v]
    BY DEF Inv, TypeOK
  <1>2. GoodCopies'
    BY <1>1 DEF Inv, GoodCopies
  <1>3. CurrentHoldsAll'
    BY <1>1 DEF Inv, CurrentHoldsAll
  <1> QED BY <1>1, <1>2, <1>3

LEMMA CallerReadsPreserves ==
    ASSUME Inv, NEW u \in Callers, CallerReads(u)
    PROVE  Inv'
  <1> USE DEF Inv, CallerReads, callVars
  <1>1. TypeOK' /\ GoodCopies' /\ CurrentHoldsAll'
    BY CopyIsGood DEF TypeOK
  <1>2. NewIsNowhere'
    BY CopyIsGood DEF NewIsNowhere
  <1>3. AttemptsLeft'
    BY DEF AttemptsLeft
  <1> QED BY <1>1, <1>2, <1>3

LEMMA CrashPreserves ==
    ASSUME Inv, NEW u \in Callers, Crash(u)
    PROVE  Inv'
  <1> USE DEF Inv, Crash
  <1>1. /\ pc' \in [Docs -> {"idle"} \cup Active \cup Ended]
        /\ \A d \in Docs : pc'[d] = pc[d] \/ pc'[d] = "crashed"
    BY DEF TypeOK, Ended
  <1>2. TypeOK' /\ GoodCopies' /\ CurrentHoldsAll'
    BY <1>1, CopyIsGood DEF TypeOK
  <1>3. NewIsNowhere'
    BY <1>1, CopyIsGood DEF NewIsNowhere
  <1>4. AttemptsLeft'
    BY <1>1 DEF AttemptsLeft
  <1> QED BY <1>2, <1>3, <1>4

LEMMA DealtWith ==
    ASSUME NEW data \in Data, NEW dealt \in SUBSET Docs
    PROVE  [data EXCEPT !.evidenceHandled = TRUE, !.handled = dealt] \in Data
  <1>1. [data EXCEPT !.evidenceHandled = TRUE] \in Data
    BY DEF Data
  <1>2. ASSUME NEW m \in Data
        PROVE  [m EXCEPT !.handled = dealt] \in Data
    BY DEF Data
  <1> QED BY <1>1, <1>2

\* What a caseworker has dealt with is what the case shows.
LEMMA HandleEvidencePreserves ==
    ASSUME Inv, HandleEvidence
    PROVE  Inv'
  <1> USE DEF Inv, HandleEvidence, callVars
  <1> DEFINE old == ccdCase.data
             new == [old EXCEPT !.evidenceHandled = TRUE, !.handled = Range(old.scanned)]
  <1>1. old \in Data /\ ccdCase' = [version |-> ccdCase.version + 1, data |-> new]
    BY DEF TypeOK
  <1>2. /\ new.documents = old.documents /\ new.scanned = old.scanned
        /\ new.translation = old.translation /\ new.handled = Range(old.scanned)
    BY <1>1 DEF Data
  <1>3. new \in Data
    <2>1. old.scanned \in Seq(Docs)
      BY <1>1 DEF Data
    <2>2. Range(old.scanned) \subseteq Docs
      BY <2>1 DEF Range
    <2> QED BY <1>1, <2>2, DealtWith
  <1> HIDE DEF new
  <1>4. RecordedIn(new) = RecordedIn(old)
    BY <1>2 DEF RecordedIn
  <1>5. GoodData(new, stored)
    BY <1>2, <1>4 DEF GoodCopies, GoodData, InPlace
  <1>6. TypeOK'
    BY <1>1, <1>3 DEF TypeOK
  <1>7. GoodCopies' /\ CurrentHoldsAll'
    BY <1>1, <1>5 DEF GoodCopies, CurrentHoldsAll
  <1>8. NewIsNowhere' /\ AttemptsLeft'
    BY <1>1, <1>4 DEF NewIsNowhere, AttemptsLeft
  <1> QED BY <1>6, <1>7, <1>8

\* A call moves on, and nothing but its place, event and result changes.
LEMMA CallMovesOn ==
    ASSUME Inv, NEW d \in Docs,
           UNCHANGED <<ccdCase, held, stored, overtaken>>,
           \A x \in Docs \ {d} : pc'[x] = pc[x] /\ attempts'[x] = attempts[x],
           pc'[d] \in {"generate", "store"} => pc[d] \in {"idle", "generate"},
           pc'[d] # "idle",
           pc'[d] \in {"generate", "store", "start"} => attempts'[d] < MaxAttempts,
           TypeOK'
    PROVE  Inv'
  <1> USE DEF Inv
  <1>1. GoodCopies' /\ CurrentHoldsAll'
    BY DEF GoodCopies, CurrentHoldsAll
  <1>2. NewIsNowhere'
    BY DEF NewIsNowhere
  <1>3. AttemptsLeft'
    BY DEF AttemptsLeft
  <1> QED BY <1>1, <1>2, <1>3

LEMMA BeginPreserves ==
    ASSUME Inv, NEW d \in Docs, Begin(d)
    PROVE  Inv'
  <1> USE DEF Begin, Goto
  <1>1. pc'[d] \in {"generate", "store"} /\ \A x \in Docs \ {d} : pc'[x] = pc[x]
    BY DEF Inv, TypeOK
  <1>2. TypeOK'
    BY DEF Inv, TypeOK, Active
  <1>3. attempts[d] < MaxAttempts
    BY DEF Inv, AttemptsLeft
  <1> QED BY <1>1, <1>2, <1>3, CallMovesOn

LEMMA GeneratePreserves ==
    ASSUME Inv, NEW d \in Docs, GeneratePdf(d)
    PROVE  Inv'
  <1> USE DEF GeneratePdf, Goto
  <1>1. pc'[d] \in {"store", "thrown"} /\ \A x \in Docs \ {d} : pc'[x] = pc[x]
    BY DEF Inv, TypeOK
  <1>2. TypeOK'
    BY DEF Inv, TypeOK, Active, Ended
  <1>3. attempts[d] < MaxAttempts
    BY DEF Inv, AttemptsLeft
  <1> QED BY <1>1, <1>2, <1>3, CallMovesOn

LEMMA StartEventPreserves ==
    ASSUME Inv, NEW d \in Docs, StartEvent(d)
    PROVE  Inv'
  <1> USE DEF StartEvent, Goto
  <1>1. /\ pc'[d] = "submit"
        /\ \A x \in Docs \ {d} : pc'[x] = pc[x] /\ attempts'[x] = attempts[x]
    BY DEF Inv, TypeOK
  <1>2. attempts[d] + 1 \in 0..MaxAttempts
    BY AttemptsAssumption DEF Inv, AttemptsLeft, TypeOK
  <1>3. TypeOK'
    BY <1>2 DEF Inv, TypeOK, Active
  <1> QED BY <1>1, <1>3, CallMovesOn

\* A failed attempt returns, throws, or has another one left.
LEMMA AttemptFailsFacts ==
    ASSUME Inv, NEW d \in Docs, AttemptFails(d)
    PROVE  /\ pc' \in [Docs -> {"idle"} \cup Active \cup Ended]
           /\ result' \in [Docs -> {"none", "data", "null", "pdf"}]
           /\ pc'[d] \in {"start", "returned", "thrown"}
           /\ pc'[d] = "start" => attempts[d] < MaxAttempts
           /\ \A x \in Docs \ {d} : pc'[x] = pc[x]
  <1>1. PICK there \in {"start", "returned", "thrown"},
             value \in {"none", "data", "null", "pdf"} :
           /\ Leave(d, there, value)
           /\ there = "start" => attempts[d] < MaxAttempts
    <2>1. result[d] \in {"none", "data", "null", "pdf"} /\ ReturnOf(d, "null") \in {"null", "pdf"}
      BY DEF Inv, TypeOK, ReturnOf
    <2> QED BY <2>1 DEF AttemptFails
  <1> QED BY <1>1 DEF Leave, Goto, Inv, TypeOK, Active, Ended

LEMMA EventRejectedPreserves ==
    ASSUME Inv, NEW d \in Docs, EventRejected(d)
    PROVE  Inv'
  <1> USE DEF EventRejected
  <1>1. TypeOK'
    BY AttemptFailsFacts DEF Inv, TypeOK
  <1> QED BY <1>1, AttemptFailsFacts, CallMovesOn

\* A document whose link is returned is one the store has taken.
LEMMA LinkMeansStored ==
    ASSUME NEW answer \in UploadAnswers, NEW lands \in MayHold(answer),
           StoreDocument(SecureEnabled, answer) = "document"
    PROVE  lands = TRUE
  <1>1. answer = "uploaded"
    <2> DEFINE seen == IF SecureEnabled THEN SecureStore(answer) ELSE DmStore(answer)
    <2>1. StoreDocument(SecureEnabled, answer) =
            CASE seen = "uploaded"   -> "document"
              [] seen = "rest_error" -> "null"
              [] OTHER               -> "throws"
      BY DEF StoreDocument
    <2> HIDE DEF seen
    <2>2. seen = "uploaded"
      BY <2>1
    <2> QED BY <2>2 DEF seen, SecureStore, DmStore
  <1> QED BY <1>1 DEF MayHold

\* What updateDoc does to the object of its caller.
LEMMA UploadAnsweredPreserves ==
    ASSUME Inv, NEW d \in Docs, pc[d] = "store",
           NEW answer \in UploadAnswers, NEW lands \in MayHold(answer),
           UploadAnswered(d, answer, lands),
           UNCHANGED <<ccdCase, token, attempts, overtaken>>
    PROVE  Inv'
  <1> USE DEF Inv
  <1> DEFINE u    == CallerOf[d]
             link == StoreDocument(SecureEnabled, answer) = "document"
             new  == UpdateDoc(held[u], d, link)
  <1>1. /\ u \in Callers /\ held[u] \in Data
        /\ d \notin RecordedIn(held[u]) /\ GoodData(held[u], stored)
    BY CallersAssumption DEF TypeOK, NewIsNowhere, GoodCopies
  <1>2. stored \subseteq stored' /\ stored' \subseteq Docs /\ (link => d \in stored')
    BY LinkMeansStored DEF UploadAnswered, TypeOK
  <1>3. /\ new \in Data /\ GoodData(new, stored')
        /\ RecordedIn(held[u]) \subseteq RecordedIn(new)
        /\ RecordedIn(new) \subseteq RecordedIn(held[u]) \cup {d}
    BY <1>1, <1>2, MoreStored, UpdateDocIsGood
  <1> HIDE DEF new
  <1>4. held' \in {held, [held EXCEPT ![u] = new]}
    BY DEF UploadAnswered, new
  <1>5. /\ held' \in [Callers -> Data]
        /\ \A v \in Callers : /\ held'[v] = held[v] \/ (v = u /\ held'[v] = new)
    BY <1>1, <1>3, <1>4 DEF TypeOK
  <1>6. /\ pc' \in [Docs -> {"idle"} \cup Active \cup Ended]
        /\ result' \in [Docs -> {"none", "data", "null", "pdf"}]
        /\ pc'[d] \in {"start", "returned", "thrown"}
        /\ \A x \in Docs \ {d} : pc'[x] = pc[x]
    <2>1. PICK there \in {"start", "returned", "thrown"},
               value \in {"none", "data", "null", "pdf"} : Leave(d, there, value)
      BY DEF UploadAnswered, TypeOK
    <2> QED BY <2>1 DEF Leave, Goto, TypeOK, Active, Ended
  <1>7. TypeOK'
    BY <1>2, <1>5, <1>6 DEF TypeOK
  <1>8. GoodCopies'
    <2>1. GoodData(ccdCase.data, stored') /\ \A v \in Callers : GoodData(held[v], stored')
      BY <1>2, MoreStored DEF GoodCopies
    <2> QED BY <1>3, <1>5, <2>1 DEF GoodCopies
  <1>9. NewIsNowhere'
    BY <1>3, <1>5, <1>6 DEF NewIsNowhere
  <1>10. AttemptsLeft'
    BY <1>6 DEF AttemptsLeft
  <1>11. CurrentHoldsAll'
    BY <1>3, <1>5 DEF CurrentHoldsAll
  <1> QED BY <1>7, <1>8, <1>9, <1>10, <1>11

LEMMA StorePdfPreserves ==
    ASSUME Inv, NEW d \in Docs, StorePdf(d)
    PROVE  Inv'
  BY UploadAnsweredPreserves DEF StorePdf

\* The object of the caller becomes the case, and all others are stale.
LEMMA EventCommittedPreserves ==
    ASSUME Inv, NEW d \in Docs, EventCommitted(d)
    PROVE  Inv'
  <1> USE DEF Inv
  <1> DEFINE u == CallerOf[d]
  <1>1. /\ u \in Callers /\ pc[d] = "submit"
        /\ ccdCase' = [version |-> ccdCase.version + 1, data |-> held[u]]
        /\ overtaken' = overtaken \cup (Callers \ {u})
        /\ UNCHANGED <<held, token, attempts, stored>>
    BY CallersAssumption DEF EventCommitted
  <1>2. /\ pc' \in [Docs -> {"idle"} \cup Active \cup Ended]
        /\ result' \in [Docs -> {"none", "data", "null", "pdf"}]
        /\ pc'[d] \in {"start", "returned", "thrown"}
        /\ pc'[d] = "start" => attempts[d] < MaxAttempts
        /\ \A x \in Docs \ {d} : pc'[x] = pc[x]
    <2>1. CASE Leave(d, "returned", ReturnOf(d, "data"))
      BY <2>1 DEF Leave, Goto, ReturnOf, TypeOK, Ended
    <2>2. CASE AttemptFails(d)
      BY <2>2, AttemptFailsFacts
    <2> QED BY <2>1, <2>2 DEF EventCommitted
  <1>3. TypeOK'
    BY <1>1, <1>2 DEF TypeOK
  <1>4. GoodCopies' /\ CurrentHoldsAll'
    BY <1>1 DEF GoodCopies, CurrentHoldsAll
  <1>5. NewIsNowhere' /\ AttemptsLeft'
    BY <1>1, <1>2 DEF NewIsNowhere, AttemptsLeft
  <1> QED BY <1>3, <1>4, <1>5

LEMMA StutteringPreserves == Inv /\ UNCHANGED vars => Inv'
  BY DEF Inv, vars, callVars, TypeOK, GoodCopies, NewIsNowhere, AttemptsLeft, CurrentHoldsAll

LEMMA StepPreserves == Inv /\ [Next]_vars => Inv'
  <1> SUFFICES ASSUME Inv, [Next]_vars PROVE Inv'
    OBVIOUS
  <1>1. CASE UNCHANGED vars
    BY <1>1, StutteringPreserves
  <1>2. ASSUME NEW d \in Docs, Begin(d) PROVE Inv'
    BY <1>2, BeginPreserves
  <1>3. ASSUME NEW d \in Docs, CallStep(d) PROVE Inv'
    BY <1>3, GeneratePreserves, StorePdfPreserves, StartEventPreserves,
       EventRejectedPreserves, EventCommittedPreserves DEF CallStep
  <1>4. ASSUME NEW u \in Callers, CallerReads(u) \/ Crash(u) PROVE Inv'
    BY <1>4, CallerReadsPreserves, CrashPreserves
  <1>5. CASE HandleEvidence
    BY <1>5, HandleEvidencePreserves
  <1> QED BY <1>1, <1>2, <1>3, <1>4, <1>5 DEF Next

LEMMA Invariance == Spec => []Inv
  BY InitEstablishes, StepPreserves, PTL DEF Spec
-----------------------------------------------------------------------------
(* Theorems *)

\* Every variable keeps its shape: in particular a call of updateCase never
\* starts more events than the client has attempts.
THEOREM PdfTypeCorrect == Spec => []TypeOK
  <1>1. Inv => TypeOK
    BY DEF Inv
  <1> QED BY <1>1, Invariance, PTL

\* The case links only to documents a store holds: a caller's object never
\* gets a link the store did not return, so no later call can write one.
THEOREM DocumentsExistSafe == Spec => []DocumentsExist
  <1>1. Inv => DocumentsExist
    BY DEF Inv, GoodCopies, GoodData, DocumentsExist
  <1> QED BY <1>1, Invariance, PTL

\* Evidence that the case calls handled was seen by a caseworker, whatever
\* stale object was written last: UpdateDoc resets the flag in the object in
\* which it puts a statement, and the flag travels with that object.
THEOREM HandledMeansSeenSafe == Spec => []HandledMeansSeen
  <1>1. Inv => HandledMeansSeen
    BY DEF Inv, GoodCopies, GoodData, HandledMeansSeen
  <1> QED BY <1>1, Invariance, PTL

\* A document that waits for translation is never in a case without the
\* flag that says so.
THEOREM TranslationFlaggedSafe == Spec => []TranslationFlagged
  <1>1. Inv => TranslationFlagged
    BY DEF Inv, GoodCopies, GoodData, TranslationFlagged
  <1> QED BY <1>1, Invariance, PTL

\* An injective list has an entry at most once.
LEMMA AtMostOneIndex ==
    ASSUME NEW s \in Seq(Docs), NEW d \in Docs, IsInjective(s)
    PROVE  LET at == {i \in DOMAIN s : s[i] = d}
           IN  /\ Cardinality(at) \in {0, 1}
               /\ d \notin Range(s) => Cardinality(at) = 0
  <1> DEFINE at == {i \in DOMAIN s : s[i] = d}
  <1>1. CASE at = {}
    BY <1>1, FS_EmptySet
  <1>2. CASE at # {}
    <2>1. PICK i \in DOMAIN s : s[i] = d
      BY <1>2
    <2>2. at = {i}
      BY <2>1 DEF IsInjective
    <2>3. Cardinality(at) = 1
      BY <2>2, FS_Singleton
    <2>4. d \in Range(s)
      BY <2>1 DEF Range
    <2> QED BY <2>3, <2>4
  <1> QED BY <1>1, <1>2

LEMMA NoneTwice == Inv => NeverTwice
  <1> SUFFICES ASSUME Inv, NEW d \in Docs PROVE Copies(ccdCase.data, d) <= 1
    BY DEF NeverTwice
  <1> DEFINE case == ccdCase.data
  <1>1. /\ case.documents \in Seq(Docs) /\ case.scanned \in Seq(Docs) /\ InPlace(case)
    BY DEF Inv, TypeOK, Data, GoodCopies, GoodData
  <1>2. d \notin Range(case.documents) \/ d \notin Range(case.scanned)
    BY <1>1 DEF InPlace
  <1> HIDE DEF case
  <1>3. Copies(case, d) <= 1
    BY <1>1, <1>2, AtMostOneIndex DEF InPlace, Copies
  <1> QED BY <1>3 DEF case

\* No retry, lost answer or reused object puts a document in the case twice.
THEOREM NeverTwiceSafe == Spec => []NeverTwice
BY NoneTwice, Invariance, PTL

\* A document is lost only by an update whose caller others have overtaken:
\* the object of any other caller holds all that the case has.
THEOREM ErasureOnlyByOvertaken == Spec => OnlyOvertakenErase
  <1> DEFINE Erasure == \A d \in RecordedIn(ccdCase.data) \ RecordedIn(ccdCase'.data) :
                           \E x \in Docs : /\ pc[x] = "submit" /\ pc'[x] # "submit"
                                           /\ CallerOf[x] \in overtaken
  <1>1. Inv /\ [Next]_vars => [Erasure]_vars
    <2> SUFFICES ASSUME Inv, Next PROVE Erasure
      OBVIOUS
    <2>1. CASE ccdCase' = ccdCase
      BY <2>1
    <2>2. CASE HandleEvidence
      <3>1. RecordedIn(ccdCase'.data) = RecordedIn(ccdCase.data)
        BY <2>2 DEF HandleEvidence, Inv, TypeOK, Data, RecordedIn
      <3> QED BY <3>1
    <2>3. ASSUME NEW x \in Docs, EventCommitted(x) PROVE Erasure
      <3>1. /\ pc[x] = "submit" /\ ccdCase'.data = held[CallerOf[x]]
            /\ CallerOf[x] \in Callers
        BY <2>3, CallersAssumption DEF EventCommitted
      <3>2. pc'[x] # "submit"
        <4>1. CASE Leave(x, "returned", ReturnOf(x, "data"))
          BY <4>1 DEF Leave, Goto, Inv, TypeOK
        <4>2. CASE AttemptFails(x)
          BY <4>2, AttemptFailsFacts
        <4> QED BY <2>3, <4>1, <4>2 DEF EventCommitted
      <3>3. CASE CallerOf[x] \in overtaken
        BY <3>1, <3>2, <3>3
      <3>4. CASE CallerOf[x] \notin overtaken
        BY <3>1, <3>4 DEF Inv, CurrentHoldsAll
      <3> QED BY <3>3, <3>4
    <2> QED
      BY <2>1, <2>2, <2>3
         DEF Next, CallStep, Begin, GeneratePdf, StorePdf, StartEvent, EventRejected,
             CallerReads, Crash
  <1> QED BY <1>1, Invariance, PTL DEF Spec, OnlyOvertakenErase

-----------------------------------------------------------------------------
(* Retries come to an end *)

\* The steps from each place of a call to its end, but for retries.
Distance == [idle |-> 4, generate |-> 3, store |-> 2, start |-> 1, submit |-> 2]

\* The most steps a call can still take: two for each attempt it has left.
StepsLeft(d) ==
    IF pc[d] \in Ended THEN 0 ELSE 2 * (MaxAttempts - attempts[d]) + Distance[pc[d]]

\* Every step of a call brings it nearer to its end, and no step of others,
\* a crash included, takes it further away.
CallsAdvance ==
    [][\A d \in Docs :
          /\ StepsLeft(d)' <= StepsLeft(d)
          /\ CallStep(d) => StepsLeft(d)' < StepsLeft(d)]_vars

LEMMA StepsLeftType ==
    ASSUME TypeOK, NEW d \in Docs
    PROVE  StepsLeft(d) \in 0..(2 * MaxAttempts + 4)
  <1>1. /\ MaxAttempts \in Nat /\ attempts[d] \in Nat /\ attempts[d] <= MaxAttempts
        /\ pc[d] \in {"idle", "generate", "store", "start", "submit"} \cup Ended
    BY AttemptsAssumption DEF TypeOK, Active
  <1>2. pc[d] \notin Ended => Distance[pc[d]] \in 0..4
    BY <1>1 DEF Distance
  <1> QED BY <1>1, <1>2 DEF StepsLeft

\* A move from one place to another, with a new attempt or without.
LEMMA CallNearer ==
    ASSUME TypeOK, NEW d \in Docs, pc[d] \in Active \cup {"idle"},
           \/ /\ attempts'[d] = attempts[d]
              /\ \/ pc'[d] \in Ended
                 \/ Distance[pc'[d]] < Distance[pc[d]] /\ pc'[d] \in Active
           \/ pc[d] = "start" /\ pc'[d] = "submit" /\ attempts'[d] = attempts[d] + 1
              /\ attempts[d] < MaxAttempts
    PROVE  StepsLeft(d)' < StepsLeft(d)
  <1> DEFINE room == MaxAttempts - attempts[d]
  <1>1. /\ MaxAttempts \in Nat /\ attempts[d] \in Nat /\ attempts[d] <= MaxAttempts
        /\ pc[d] \notin Ended
    BY AttemptsAssumption DEF TypeOK, Active, Ended
  <1>2. \A there \in Active \cup {"idle"} : Distance[there] \in 1..4 /\ there \notin Ended
    BY DEF Distance, Active, Ended
  <1>3. room \in Nat
    BY <1>1
  <1>4. StepsLeft(d) = 2 * room + Distance[pc[d]]
    BY <1>1 DEF StepsLeft
  <1>5. CASE pc'[d] \in Ended
    <2>1. StepsLeft(d)' = 0
      BY <1>5 DEF StepsLeft
    <2> HIDE DEF room
    <2> QED BY <1>2, <1>3, <1>4, <2>1
  <1>6. CASE attempts'[d] = attempts[d] /\ Distance[pc'[d]] < Distance[pc[d]] /\ pc'[d] \in Active
    <2>1. StepsLeft(d)' = 2 * room + Distance[pc'[d]]
      BY <1>2, <1>6 DEF StepsLeft
    <2> HIDE DEF room
    <2>2. Distance[pc'[d]] \in 1..4 /\ Distance[pc[d]] \in 1..4
      BY <1>2, <1>6
    <2> QED BY <1>3, <1>4, <1>6, <2>1, <2>2
  <1>7. CASE pc[d] = "start" /\ pc'[d] = "submit" /\ attempts'[d] = attempts[d] + 1
              /\ attempts[d] < MaxAttempts
    <2>1. StepsLeft(d)' = 2 * (room - 1) + 2
      BY <1>1, <1>7 DEF StepsLeft, Distance, Ended
    <2>2. StepsLeft(d) = 2 * room + 1
      BY <1>4, <1>7 DEF Distance
    <2> HIDE DEF room
    <2> QED BY <1>3, <2>1, <2>2
  <1> QED BY <1>5, <1>6, <1>7

LEMMA StepsDecrease ==
    ASSUME Inv, NEW d \in Docs, CallStep(d) \/ Begin(d)
    PROVE  /\ StepsLeft(d)' < StepsLeft(d)
           /\ \A x \in Docs \ {d} : pc'[x] = pc[x] /\ attempts'[x] = attempts[x]
  <1>0. TypeOK /\ pc \in [Docs -> {"idle"} \cup Active \cup Ended]
        /\ attempts \in [Docs -> 0..MaxAttempts]
    BY DEF Inv, TypeOK
  <1>1. \A x \in Docs \ {d} : pc'[x] = pc[x] /\ attempts'[x] = attempts[x]
    BY <1>0 DEF CallStep, Begin, GeneratePdf, StorePdf, UploadAnswered, StartEvent,
       EventRejected, EventCommitted, AttemptFails, Leave, Goto
  <1>2. pc[d] \in Active \cup {"idle"}
    BY DEF CallStep, Begin, GeneratePdf, StorePdf, StartEvent, EventRejected,
       EventCommitted, Active
  <1>3. CASE Begin(d) \/ GeneratePdf(d) \/ StorePdf(d)
    <2>1. attempts'[d] = attempts[d] /\ (pc'[d] \in Ended \/ (/\ pc'[d] \in Active
                                            /\ Distance[pc'[d]] < Distance[pc[d]]))
      BY <1>0, <1>3 DEF Begin, GeneratePdf, StorePdf, UploadAnswered, Leave, Goto,
         Distance, Active, Ended
    <2> QED BY <1>0, <1>1, <1>2, <2>1, CallNearer
  <1>4. CASE StartEvent(d)
    <2>1. /\ pc[d] = "start" /\ pc'[d] = "submit" /\ attempts'[d] = attempts[d] + 1
      BY <1>0, <1>4 DEF StartEvent, Goto
    <2>2. attempts[d] < MaxAttempts
      BY <2>1 DEF Inv, AttemptsLeft
    <2> QED BY <1>0, <1>1, <1>2, <2>1, <2>2, CallNearer
  <1>5. CASE EventRejected(d) \/ EventCommitted(d)
    <2>1. /\ pc[d] = "submit" /\ attempts'[d] = attempts[d]
          /\ pc'[d] \in {"start", "returned", "thrown"}
      BY <1>0, <1>5 DEF EventRejected, EventCommitted, AttemptFails, Leave, Goto
    <2>2. pc'[d] \in Ended \/ (Distance[pc'[d]] < Distance[pc[d]] /\ pc'[d] \in Active)
      BY <2>1 DEF Ended, Active, Distance
    <2> QED BY <1>0, <1>1, <1>2, <2>1, <2>2, CallNearer
  <1> QED BY <1>3, <1>4, <1>5 DEF CallStep

(***************************************************************************)
(* A call of CcdPdfService takes at most 2 * MaxAttempts + 4 steps of its  *)
(* own, whatever the store, CCD and other callers do: retrying a whole     *)
(* object comes to an end as well.                                         *)
(***************************************************************************)
THEOREM PdfRetriesEnd ==
    Spec => /\ [](\A d \in Docs : StepsLeft(d) \in 0..(2 * MaxAttempts + 4))
            /\ CallsAdvance
  <1>1. Inv => \A d \in Docs : StepsLeft(d) \in 0..(2 * MaxAttempts + 4)
    BY StepsLeftType DEF Inv
  <1>2. Inv /\ [Next]_vars =>
           [\A d \in Docs :
               /\ StepsLeft(d)' <= StepsLeft(d)
               /\ CallStep(d) => StepsLeft(d)' < StepsLeft(d)]_vars
    <2> SUFFICES ASSUME Inv, [Next]_vars, NEW d \in Docs, ~ UNCHANGED vars
                 PROVE  /\ StepsLeft(d)' <= StepsLeft(d)
                        /\ CallStep(d) => StepsLeft(d)' < StepsLeft(d)
      OBVIOUS
    <2>0. Inv'
      BY StepPreserves
    <2>1. StepsLeft(d) \in Nat /\ StepsLeft(d)' \in Nat
      <3>1. StepsLeft(d) \in 0..(2 * MaxAttempts + 4)
        BY StepsLeftType DEF Inv
      <3>2. StepsLeft(d)' \in Nat
        <4>1. /\ MaxAttempts \in Nat /\ attempts'[d] \in Nat /\ attempts'[d] <= MaxAttempts
              /\ pc'[d] \in {"idle", "generate", "store", "start", "submit"} \cup Ended
          BY <2>0, AttemptsAssumption DEF Inv, TypeOK, Active
        <4>2. pc'[d] \notin Ended => Distance[pc'[d]] \in 0..4
          BY <4>1 DEF Distance
        <4> QED BY <4>1, <4>2 DEF StepsLeft
      <3> QED BY <3>1, <3>2, AttemptsAssumption
    <2>2. CallStep(d) => StepsLeft(d)' < StepsLeft(d)
      BY StepsDecrease
    <2>3. ASSUME pc'[d] = pc[d], attempts'[d] = attempts[d]
          PROVE  StepsLeft(d)' = StepsLeft(d)
      BY <2>3 DEF StepsLeft
    <2>4. ASSUME NEW x \in Docs, CallStep(x) \/ Begin(x)
          PROVE  StepsLeft(d)' <= StepsLeft(d)
      <3>1. CASE x = d
        BY <2>1, <2>4, <3>1, StepsDecrease
      <3>2. CASE x # d
        BY <2>1, <2>3, <2>4, <3>2, StepsDecrease
      <3> QED BY <3>1, <3>2
    <2>5. ASSUME HandleEvidence \/ \E u \in Callers : CallerReads(u)
          PROVE  StepsLeft(d)' <= StepsLeft(d)
      <3>1. pc' = pc /\ attempts' = attempts
        BY <2>5 DEF HandleEvidence, CallerReads, callVars
      <3> QED BY <2>1, <2>3, <3>1
    <2>6. ASSUME NEW u \in Callers, Crash(u) PROVE StepsLeft(d)' <= StepsLeft(d)
      <3>1. attempts' = attempts /\ (pc'[d] = "crashed" \/ pc'[d] = pc[d])
        BY <2>6 DEF Crash
      <3>2. CASE pc'[d] = "crashed"
        <4>1. StepsLeft(d)' = 0
          BY <3>2 DEF StepsLeft, Ended
        <4> QED BY <2>1, <4>1
      <3>3. CASE pc'[d] = pc[d]
        BY <2>1, <2>3, <3>1, <3>3
      <3> QED BY <3>1, <3>2, <3>3
    <2> QED BY <2>2, <2>4, <2>5, <2>6 DEF Next
  <1> QED BY <1>1, <1>2, Invariance, PTL DEF Spec, CallsAdvance
=============================================================================
