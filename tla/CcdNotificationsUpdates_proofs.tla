------------------- MODULE CcdNotificationsUpdates_proofs -------------------
(***************************************************************************)
(* What the updates of CcdNotifications do to each other, for any number   *)
(* of callers and calls: which of them may erase an entry, and how often   *)
(* an entry may appear.  Both are about the number of copies of an entry   *)
(* in case data, and about the version of the case the data were read at.  *)
(* The last part is about what callers may conclude from what they see.    *)
(***************************************************************************)
EXTENDS CcdNotifications_proofs

\* Case data that have at least the copies that d has.
Covers(e, d) == \A x \in Correspondences : Copies(e, x) >= Copies(d, x)

(***************************************************************************)
(* Data read at the current version have all that the case has.  A commit  *)
(* makes all data that are held or being worked on older than the case.    *)
(***************************************************************************)
HeldIsCurrent ==
    \A u \in Callers :
        /\ heldAt[u] <= ccdCase.version
        /\ heldAt[u] = ccdCase.version => Covers(held[u], ccdCase.data)

WorkIsCurrent ==
    \A c \in Correspondences :
        /\ readAt[c] <= ccdCase.version
        /\ readAt[c] = ccdCase.version => Covers(work[c], ccdCase.data)

\* A consumer was applied to the version its event was started on.
ConsumersReadTheirVersion ==
    \A c \in Correspondences :
        pc[c] = "submit" /\ method[c] \notin SnapshotMethods => readAt[c] = token[c]

CurrencyInv == HeldIsCurrent /\ WorkIsCurrent /\ ConsumersReadTheirVersion

(***************************************************************************)
(* The copies of an entry: no more than updates committed, or one for a V1 *)
(* call; one more in what its own V2 call is about to submit; and none     *)
(* anywhere before a V1 call has merged it.  A V1 call that has started an *)
(* event has no attempt left, so that it does not merge a second time.     *)
(***************************************************************************)
Limit(c) == IF method[c] \in V2Methods THEN commits[c] ELSE 1
WorkLimit(c) == IF method[c] \in V2Methods THEN commits[c] + 1 ELSE 1

Unmerged(c) ==
    \/ pc[c] \in {"idle", "produce", "store", "read"}
    \/ pc[c] = "start" /\ method[c] = "adjustment"

NoCopies(c) ==
    /\ Copies(ccdCase.data, c) = 0
    /\ \A u \in Callers : Copies(held[u], c) = 0
    /\ \A x \in Correspondences : Copies(work[x], c) = 0

CopiesInv ==
    \A c \in Correspondences :
        /\ pc[c] = "read" => method[c] = "letter"
        /\ pc[c] = "submit" => attempts[c] > 0
        /\ Copies(ccdCase.data, c) <= Limit(c)
        /\ \A u \in Callers : Copies(held[u], c) <= Limit(c)
        /\ \A x \in Correspondences \ {c} : Copies(work[x], c) <= Limit(c)
        /\ Copies(work[c], c) <= WorkLimit(c)
        /\ Unmerged(c) /\ method[c] \notin V2Methods => NoCopies(c)

-----------------------------------------------------------------------------
(* Copies in lists and in case data *)

LEMMA OccurrencesType ==
    ASSUME NEW s \in Seq(Correspondences), NEW x
    PROVE  /\ Occurrences(s, x) \in Nat
           /\ IsFiniteSet({i \in 1..Len(s) : s[i] = x})
  <1>1. Len(s) \in Int /\ IsFiniteSet(1..Len(s))
    BY FS_Interval, LenProperties, 1 \in Int
  <1>2. IsFiniteSet({i \in 1..Len(s) : s[i] = x})
    BY <1>1, FS_Subset
  <1> QED BY <1>2, FS_CardinalityType DEF Occurrences

\* One more entry in a list is one more copy of it, and of nothing else.
LEMMA OccurrencesOfAppend ==
    ASSUME NEW s \in Seq(Correspondences), NEW c \in Correspondences,
           NEW x \in Correspondences
    PROVE  Occurrences(Append(s, c), x) = Occurrences(s, x) + (IF x = c THEN 1 ELSE 0)
  <1> DEFINE n == Len(s)
             t == Append(s, c)
             S == {i \in 1..n : s[i] = x}
             T == {i \in 1..(n + 1) : t[i] = x}
  <1>1. /\ n \in Nat /\ Len(t) = n + 1 /\ t[n + 1] = c
        /\ \A i \in 1..n : t[i] = s[i]
    BY LenProperties
  <1>2. IsFiniteSet(S) /\ Cardinality(S) \in Nat
    BY OccurrencesType, FS_CardinalityType
  <1>3. Occurrences(s, x) = Cardinality(S) /\ Occurrences(t, x) = Cardinality(T)
    BY <1>1 DEF Occurrences
  <1>4. CASE x = c
    <2>1. T = S \cup {n + 1} /\ n + 1 \notin S
      BY <1>1, <1>4
    <2> HIDE DEF S, T, t
    <2>2. Cardinality(T) = Cardinality(S) + 1
      BY <1>2, <2>1, FS_AddElement
    <2> QED BY <1>3, <1>4, <2>2 DEF t
  <1>5. CASE x # c
    <2>1. T = S
      BY <1>1, <1>5
    <2> HIDE DEF S, T, t
    <2> QED BY <1>2, <1>3, <1>5, <2>1 DEF t
  <1> QED BY <1>4, <1>5

LEMMA OccurrencesOfMerge ==
    ASSUME NEW s \in Seq(Correspondences), NEW c \in Correspondences,
           NEW link \in BOOLEAN, NEW x \in Correspondences
    PROVE  Occurrences(AppendNewestFirst(s, NewEntries(c, link)), x)
             = Occurrences(s, x) + (IF link /\ x = c THEN 1 ELSE 0)
  <1>1. NewEntries(c, link) \in Seq(Correspondences)
    BY NewEntriesFacts
  <1>2. s \o NewEntries(c, link) \in Seq(Correspondences)
    BY <1>1
  <1>3. Occurrences(AppendNewestFirst(s, NewEntries(c, link)), x)
          = Occurrences(s \o NewEntries(c, link), x)
    BY <1>2, SortKeepsOccurrences DEF AppendNewestFirst
  <1>4. CASE link
    <2>1. s \o NewEntries(c, link) = Append(s, c)
      BY <1>4 DEF NewEntries
    <2>2. Occurrences(Append(s, c), x) = Occurrences(s, x) + (IF x = c THEN 1 ELSE 0)
      BY OccurrencesOfAppend
    <2> QED BY <1>3, <1>4, <2>1, <2>2
  <1>5. CASE ~link
    <2>1. s \o NewEntries(c, link) = s
      BY <1>5 DEF NewEntries
    <2>2. Occurrences(s, x) \in Nat
      BY OccurrencesType
    <2> QED BY <1>3, <1>5, <2>1, <2>2
  <1> QED BY <1>4, <1>5

LEMMA CopiesType ==
    ASSUME NEW d \in Data, NEW x \in Correspondences
    PROVE  Copies(d, x) \in Nat
  <1>1. /\ d.correspondence \in Seq(Correspondences)
        /\ \A p \in Parties : d.letters[p] \in Seq(Correspondences)
    BY DEF Data
  <1>2. Occurrences(d.correspondence, x) \in Nat
    BY <1>1, OccurrencesType
  <1>3. \A p \in Parties : Occurrences(d.letters[p], x) \in Nat
    BY <1>1, OccurrencesType
  <1> QED BY <1>2, <1>3 DEF Copies

(***************************************************************************)
(* Merging the entry of a call adds at most one copy, of that entry, and   *)
(* takes nothing away.                                                     *)
(***************************************************************************)
LEMMA CopiesOfMerge ==
    ASSUME NEW d \in Data, NEW c \in Correspondences, NEW m,
           NEW link \in BOOLEAN, NEW x \in Correspondences
    PROVE  /\ Copies(Merge(d, c, m, link), x) \in Nat
           /\ Copies(Merge(d, c, m, link), x) >= Copies(d, x)
           /\ x # c => Copies(Merge(d, c, m, link), x) = Copies(d, x)
           /\ Copies(Merge(d, c, m, link), x) <= Copies(d, x) + 1
  <1> DEFINE e == Merge(d, c, m, link)
             new == NewEntries(c, link)
             more == IF link /\ x = c THEN 1 ELSE 0
  <1>1. /\ d.correspondence \in Seq(Correspondences)
        /\ d.letters \in [Parties -> Seq(Correspondences)]
    BY DEF Data
  <1>2. /\ Occurrences(d.correspondence, x) \in Nat
        /\ \A p \in Parties : Occurrences(d.letters[p], x) \in Nat
    BY <1>1, OccurrencesType
  <1>3. \A s \in Seq(Correspondences) :
           Occurrences(AppendNewestFirst(s, new), x) = Occurrences(s, x) + more
    BY OccurrencesOfMerge
  <1>4. more \in {0, 1} /\ (x # c => more = 0)
    OBVIOUS
  <1> HIDE DEF new, more
  <1>5. CASE m \in AdjustmentMethods
    <2> DEFINE type == LetterType[c]
    <2>1. CASE type \in Parties
      <3>1. /\ e.correspondence = d.correspondence
            /\ e.letters = [d.letters EXCEPT ![type] = AppendNewestFirst(@, new)]
        BY <1>5, <2>1 DEF Merge, MergeLetter, BuildCorrespondenceByParty, Recomputed, Data, new
      <3> HIDE DEF e, type
      <3>2. \A p \in Parties :
               \/ Occurrences(e.letters[p], x) = Occurrences(d.letters[p], x)
               \/ Occurrences(e.letters[p], x) = Occurrences(d.letters[p], x) + more
        BY <1>1, <1>3, <2>1, <3>1
      <3>3. \/ Copies(e, x) = Copies(d, x)
            \/ Copies(e, x) = Copies(d, x) + more
        BY <1>2, <1>4, <3>1, <3>2 DEF Copies
      <3> QED BY <1>4, <3>3, CopiesType DEF e
    <2>2. CASE type \notin Parties
      <3>1. e.correspondence = d.correspondence /\ e.letters = d.letters
        BY <1>5, <2>2 DEF Merge, MergeLetter, BuildCorrespondenceByParty, Recomputed, Data
      <3> QED BY <3>1, CopiesType DEF Copies
    <2> QED BY <2>1, <2>2
  <1>6. CASE m \notin AdjustmentMethods
    <2>1. /\ e.correspondence = AppendNewestFirst(d.correspondence, new)
          /\ e.letters = d.letters
      BY <1>6 DEF Merge, MergeCorrespondence, Data, new
    <2> HIDE DEF e
    <2>2. Copies(e, x) = Copies(d, x) + more
      BY <1>1, <1>2, <1>3, <1>4, <2>1 DEF Copies
    <2> QED BY <1>4, <2>2, CopiesType DEF e
  <1> QED BY <1>5, <1>6

\* ActionLetter changes what is actioned, and the flag, but no list.
LEMMA ActionLetterKeepsCopies ==
    ASSUME Inv, NEW c \in Correspondences, ActionLetter(c), NEW x \in Correspondences
    PROVE  Copies(ccdCase'.data, x) = Copies(ccdCase.data, x)
  <1>1. ccdCase.data \in Data
    BY DEF Inv, TypeOK
  <1>2. /\ ccdCase'.data.correspondence = ccdCase.data.correspondence
        /\ ccdCase'.data.letters = ccdCase.data.letters
    BY <1>1 DEF ActionLetter, Recomputed, Data
  <1> QED BY <1>2 DEF Copies

LEMMA CoversSelf ==
    ASSUME NEW d \in Data PROVE Covers(d, d)
  BY CopiesType DEF Covers

LEMMA CoversMerge ==
    ASSUME NEW d \in Data, NEW e \in Data, Covers(d, e),
           NEW c \in Correspondences, NEW m, NEW link \in BOOLEAN
    PROVE  Covers(Merge(d, c, m, link), e)
  <1> DEFINE f == Merge(d, c, m, link)
  <1> SUFFICES ASSUME NEW x \in Correspondences PROVE Copies(f, x) >= Copies(e, x)
    BY DEF Covers
  <1>1. Copies(f, x) \in Nat /\ Copies(f, x) >= Copies(d, x)
    BY CopiesOfMerge
  <1>2. Copies(d, x) \in Nat /\ Copies(e, x) \in Nat /\ Copies(d, x) >= Copies(e, x)
    BY CopiesType DEF Covers
  <1> QED BY <1>1, <1>2

-----------------------------------------------------------------------------
(* Which data are current *)

\* Steps that leave all case data alone and start no event.
LEMMA QuietCurrency ==
    ASSUME CurrencyInv,
           UNCHANGED <<ccdCase, held, work, token, method, heldAt, readAt>>,
           \A c \in Correspondences : pc'[c] = "submit" => pc[c] = "submit"
    PROVE  CurrencyInv'
  <1>1. HeldIsCurrent'
    BY DEF CurrencyInv, HeldIsCurrent
  <1>2. WorkIsCurrent'
    BY DEF CurrencyInv, WorkIsCurrent
  <1>3. ConsumersReadTheirVersion'
    BY DEF CurrencyInv, ConsumersReadTheirVersion
  <1> QED BY <1>1, <1>2, <1>3 DEF CurrencyInv

\* Steps that make a version of the case: what was current no longer is.
LEMMA NewVersionCurrency ==
    ASSUME Inv, CurrencyInv, ccdCase'.version = ccdCase.version + 1,
           UNCHANGED <<held, work, token, method, heldAt, readAt>>,
           \A c \in Correspondences : pc'[c] = "submit" => pc[c] = "submit"
    PROVE  CurrencyInv'
  <1>1. /\ ccdCase.version \in Nat
        /\ \A u \in Callers : heldAt[u] \in Nat
        /\ \A c \in Correspondences : readAt[c] \in Nat
    BY DEF Inv, TypeOK
  <1>2. \A u \in Callers : heldAt'[u] <= ccdCase.version /\ heldAt'[u] < ccdCase'.version
    BY <1>1 DEF CurrencyInv, HeldIsCurrent
  <1>3. \A c \in Correspondences :
           readAt'[c] <= ccdCase.version /\ readAt'[c] < ccdCase'.version
    BY <1>1 DEF CurrencyInv, WorkIsCurrent
  <1>4. HeldIsCurrent'
    BY <1>1, <1>2 DEF HeldIsCurrent
  <1>5. WorkIsCurrent'
    BY <1>1, <1>3 DEF WorkIsCurrent
  <1>6. ConsumersReadTheirVersion'
    BY DEF CurrencyInv, ConsumersReadTheirVersion
  <1> QED BY <1>4, <1>5, <1>6 DEF CurrencyInv

\* CallerReads and Crash: a caller takes the case as it is.
LEMMA TakeCaseCurrency ==
    ASSUME Inv, CurrencyInv, NEW u \in Callers,
           held' = [held EXCEPT ![u] = ccdCase.data],
           heldAt' = [heldAt EXCEPT ![u] = ccdCase.version],
           UNCHANGED <<ccdCase, work, token, method, readAt>>,
           \A c \in Correspondences : pc'[c] = "submit" => pc[c] = "submit"
    PROVE  CurrencyInv'
  <1>1. Covers(ccdCase.data, ccdCase.data) /\ ccdCase.version \in Nat
    BY CoversSelf DEF Inv, TypeOK
  <1>2. HeldIsCurrent'
    BY <1>1 DEF Inv, TypeOK, CurrencyInv, HeldIsCurrent
  <1>3. WorkIsCurrent' /\ ConsumersReadTheirVersion'
    BY DEF CurrencyInv, WorkIsCurrent, ConsumersReadTheirVersion
  <1> QED BY <1>2, <1>3 DEF CurrencyInv

\* ReadCase, and StartEvent of a method with a consumer: the case as it is,
\* and the entry of the call.
LEMMA MergeCaseCurrency ==
    ASSUME Inv, CurrencyInv, NEW c \in Correspondences,
           work' = [work EXCEPT ![c] = Merge(ccdCase.data, c, method[c], linked[c])],
           readAt' = [readAt EXCEPT ![c] = ccdCase.version],
           UNCHANGED <<ccdCase, held, heldAt>>
    PROVE  HeldIsCurrent' /\ WorkIsCurrent'
  <1> DEFINE merged == Merge(ccdCase.data, c, method[c], linked[c])
  <1>1. Covers(merged, ccdCase.data)
    <2>1. ccdCase.data \in Data /\ linked[c] \in BOOLEAN
      BY DEF Inv, TypeOK
    <2> QED BY <2>1, CoversSelf, CoversMerge
  <1>2. ccdCase.version \in Nat /\ ccdCase' = ccdCase
    BY DEF Inv, TypeOK
  <1>3. work' = [work EXCEPT ![c] = merged]
    OBVIOUS
  <1> HIDE DEF merged
  <1>4. HeldIsCurrent'
    BY DEF CurrencyInv, HeldIsCurrent
  <1>5. WorkIsCurrent'
    BY <1>1, <1>2, <1>3 DEF Inv, TypeOK, CurrencyInv, WorkIsCurrent
  <1> QED BY <1>4, <1>5

LEMMA StorePdfCurrency ==
    ASSUME Inv, CurrencyInv, NEW c \in Correspondences, StorePdf(c)
    PROVE  CurrencyInv'
  <1> PICK answer \in UploadAnswers :
          \E lands \in MayHold(answer) : UploadAnswered(c, answer, lands)
    BY DEF StorePdf
  <1> PICK lands \in MayHold(answer) : UploadAnswered(c, answer, lands)
    OBVIOUS
  <1> DEFINE link == StoreDocument(SecureEnabled, answer) = "document"
             u == CallerOf[c]
             merged == Merge(held[u], c, method[c], link)
  <1>1. UNCHANGED <<ccdCase, token, method, heldAt>>
    BY DEF StorePdf, UploadAnswered, Throw
  <1>2. \A x \in Correspondences : pc'[x] = "submit" => pc[x] = "submit"
    BY DEF UploadAnswered, Throw, Goto, Inv, TypeOK
  <1>3. CASE UNCHANGED <<held, work, readAt>>
    BY <1>1, <1>2, <1>3, QuietCurrency
  <1>4. CASE /\ held'   = [held EXCEPT ![u] = merged]
             /\ work'   = [work EXCEPT ![c] = merged]
             /\ readAt' = [readAt EXCEPT ![c] = heldAt[u]]
             /\ method[c] = "correspondence"
    <2>1. /\ u \in Callers /\ held[u] \in Data /\ ccdCase.data \in Data
          /\ link \in BOOLEAN
      BY CallersAssumption DEF Inv, TypeOK
    <2>2. heldAt[u] = ccdCase.version => Covers(merged, ccdCase.data)
      <3> HIDE DEF u, link
      <3> QED BY <2>1, CoversMerge DEF CurrencyInv, HeldIsCurrent
    <2> HIDE DEF merged, u
    <2>3. HeldIsCurrent'
      BY <1>1, <1>4, <2>1, <2>2 DEF Inv, TypeOK, CurrencyInv, HeldIsCurrent
    <2>4. WorkIsCurrent'
      <3>1. heldAt[u] <= ccdCase.version
        BY <2>1 DEF CurrencyInv, HeldIsCurrent
      <3> QED BY <1>1, <1>4, <2>1, <2>2, <3>1 DEF Inv, TypeOK, CurrencyInv, WorkIsCurrent
    <2>5. ConsumersReadTheirVersion'
      BY <1>1, <1>2, <1>4 DEF Inv, TypeOK, CurrencyInv, ConsumersReadTheirVersion,
                              SnapshotMethods
    <2> QED BY <2>3, <2>4, <2>5 DEF CurrencyInv
  <1>5. \/ UNCHANGED <<held, work, readAt>>
        \/ /\ held'   = [held EXCEPT ![u] = merged]
           /\ work'   = [work EXCEPT ![c] = merged]
           /\ readAt' = [readAt EXCEPT ![c] = heldAt[u]]
           /\ method[c] = "correspondence"
    BY DEF UploadAnswered, Throw, MergeIntoHeld
  <1> QED BY <1>3, <1>4, <1>5

LEMMA ReadCaseCurrency ==
    ASSUME Inv, CurrencyInv, NEW c \in Correspondences, ReadCase(c)
    PROVE  CurrencyInv'
  <1>1. HeldIsCurrent' /\ WorkIsCurrent'
    BY MergeCaseCurrency DEF ReadCase
  <1>2. /\ pc' = [pc EXCEPT ![c] = "start"]
        /\ readAt' = [readAt EXCEPT ![c] = ccdCase.version]
        /\ UNCHANGED <<method, token>>
    BY DEF ReadCase, Goto
  <1>3. ConsumersReadTheirVersion'
    BY <1>2 DEF Inv, TypeOK, CurrencyInv, ConsumersReadTheirVersion
  <1> QED BY <1>1, <1>3 DEF CurrencyInv

LEMMA StartEventCurrency ==
    ASSUME Inv, CurrencyInv, NEW c \in Correspondences, StartEvent(c)
    PROVE  CurrencyInv'
  <1>1. /\ pc' = [pc EXCEPT ![c] = "submit"]
        /\ token' = [token EXCEPT ![c] = ccdCase.version]
        /\ UNCHANGED <<ccdCase, held, heldAt, method>>
    BY DEF StartEvent, Goto
  <1>2. CASE method[c] \in SnapshotMethods
    <2>1. UNCHANGED <<work, readAt>>
      BY <1>2 DEF StartEvent
    <2>2. HeldIsCurrent' /\ WorkIsCurrent'
      BY <1>1, <2>1 DEF CurrencyInv, HeldIsCurrent, WorkIsCurrent
    <2>3. ConsumersReadTheirVersion'
      BY <1>1, <1>2, <2>1 DEF Inv, TypeOK, CurrencyInv, ConsumersReadTheirVersion
    <2> QED BY <2>2, <2>3 DEF CurrencyInv
  <1>3. CASE method[c] \notin SnapshotMethods
    <2>1. /\ work' = [work EXCEPT ![c] = Merge(ccdCase.data, c, method[c], linked[c])]
          /\ readAt' = [readAt EXCEPT ![c] = ccdCase.version]
      BY <1>3 DEF StartEvent
    <2>2. HeldIsCurrent' /\ WorkIsCurrent'
      BY <1>1, <2>1, MergeCaseCurrency
    <2>3. ConsumersReadTheirVersion'
      BY <1>1, <2>1 DEF Inv, TypeOK, CurrencyInv, ConsumersReadTheirVersion
    <2> QED BY <2>2, <2>3 DEF CurrencyInv
  <1> QED BY <1>2, <1>3

LEMMA EndOfAttemptCurrency ==
    ASSUME Inv, CurrencyInv, NEW c \in Correspondences,
           EventRejected(c) \/ EventCommitted(c)
    PROVE  CurrencyInv'
  <1>1. /\ Succeed(c) \/ AttemptFails(c)
        /\ UNCHANGED <<held, work, token, method, heldAt, readAt>>
        /\ ccdCase' = ccdCase \/ ccdCase'.version = ccdCase.version + 1
    BY DEF EventRejected, EventCommitted
  <1>2. \A x \in Correspondences : pc'[x] = "submit" => pc[x] = "submit"
    BY <1>1 DEF Inv, TypeOK, Succeed, AttemptFails, Leave, Goto
  <1> QED BY <1>1, <1>2, QuietCurrency, NewVersionCurrency

LEMMA NextCurrency == Inv /\ CurrencyInv /\ [Next]_vars => CurrencyInv'
  <1> SUFFICES ASSUME Inv, CurrencyInv, [Next]_vars PROVE CurrencyInv'
    OBVIOUS
  <1>1. CASE UNCHANGED vars
    BY <1>1, QuietCurrency DEF vars, callVars, history
  <1>2. ASSUME NEW c \in Correspondences,
               Begin(c) \/ GeneratePdf(c) \/ MergePdfs(c) \/ UnguardedCallFails(c)
        PROVE  CurrencyInv'
    <2>1. UNCHANGED <<ccdCase, held, work, token, method, heldAt, readAt>>
      BY <1>2 DEF Begin, GeneratePdf, MergePdfs, UnguardedCallFails, Throw, history
    <2>2. \A x \in Correspondences : pc'[x] = "submit" => pc[x] = "submit"
      BY <1>2 DEF Begin, GeneratePdf, MergePdfs, UnguardedCallFails, Throw, Goto,
                  Inv, TypeOK
    <2> QED BY <2>1, <2>2, QuietCurrency
  <1>3. ASSUME NEW c \in Correspondences, CallStep(c) PROVE CurrencyInv'
    BY <1>2, <1>3, StorePdfCurrency, ReadCaseCurrency, StartEventCurrency,
       EndOfAttemptCurrency DEF CallStep
  <1>4. ASSUME NEW c \in Correspondences, ActionLetter(c) PROVE CurrencyInv'
    BY <1>4, NewVersionCurrency DEF ActionLetter, callVars, history
  <1>5. ASSUME NEW u \in Callers, CallerReads(u) PROVE CurrencyInv'
    BY <1>5, TakeCaseCurrency DEF CallerReads, callVars
  <1>6. ASSUME NEW u \in Callers, Crash(u) PROVE CurrencyInv'
    <2>1. \A x \in Correspondences : pc'[x] = "submit" => pc[x] = "submit"
      BY <1>6 DEF Crash
    <2> QED BY <1>6, <2>1, TakeCaseCurrency DEF Crash
  <1> QED BY <1>1, <1>2, <1>3, <1>4, <1>5, <1>6 DEF Next

LEMMA InitCurrency == Init => CurrencyInv
  <1> SUFFICES ASSUME Init PROVE CurrencyInv
    OBVIOUS
  <1>1. Covers(EmptyData, EmptyData)
    BY EmptyDataIsGood, CoversSelf
  <1> QED BY <1>1 DEF Init, CurrencyInv, HeldIsCurrent, WorkIsCurrent,
                      ConsumersReadTheirVersion

(***************************************************************************)
(* No update takes an entry, or a copy of it, out of the case, except one  *)
(* of a V1 notification or letter that was read before the version it      *)
(* overwrites.  A submission whose data were read at the version that it   *)
(* commits on has all that the case has, and those of the methods with a   *)
(* consumer are never of another kind.                                     *)
(***************************************************************************)
THEOREM ErasureSafe == Spec => OnlyStaleSnapshotsErase
  <1>1. Inv /\ CurrencyInv /\ [Next]_vars =>
           [\A c \in Correspondences :
               Copies(ccdCase'.data, c) < Copies(ccdCase.data, c) =>
                  \E d \in Correspondences :
                     /\ commits'[d] > commits[d]
                     /\ method[d] \in SnapshotMethods
                     /\ readAt[d] < ccdCase.version]_vars
    <2> SUFFICES ASSUME Inv, CurrencyInv, Next, NEW x \in Correspondences,
                        Copies(ccdCase'.data, x) < Copies(ccdCase.data, x)
                 PROVE  \E d \in Correspondences :
                           /\ commits'[d] > commits[d]
                           /\ method[d] \in SnapshotMethods
                           /\ readAt[d] < ccdCase.version
      OBVIOUS
    <2>1. Copies(ccdCase.data, x) \in Nat
      BY CopiesType DEF Inv, TypeOK
    <2>2. ccdCase' # ccdCase
      BY <2>1
    <2>3. ~\E c \in Correspondences : ActionLetter(c)
      BY <2>1, ActionLetterKeepsCopies
    <2>4. PICK c \in Correspondences : EventCommitted(c)
      BY <2>2, <2>3 DEF Next, Begin, CallStep, GeneratePdf, MergePdfs,
         UnguardedCallFails, Throw, StorePdf, UploadAnswered, ReadCase, StartEvent,
         EventRejected, CallerReads, Crash
    <2>5. /\ pc[c] = "submit" /\ token[c] = ccdCase.version
          /\ ccdCase'.data = work[c] /\ commits' = [commits EXCEPT ![c] = @ + 1]
      BY <2>4 DEF EventCommitted
    <2>6. ~Covers(work[c], ccdCase.data)
      <3>1. Copies(work[c], x) \in Nat
        BY CopiesType DEF Inv, TypeOK
      <3> QED BY <2>1, <2>5, <3>1 DEF Covers
    <2>7. /\ readAt[c] \in Nat /\ ccdCase.version \in Nat
          /\ readAt[c] < ccdCase.version
      BY <2>6 DEF Inv, TypeOK, CurrencyInv, WorkIsCurrent
    <2>8. method[c] \in SnapshotMethods
      BY <2>5, <2>7 DEF CurrencyInv, ConsumersReadTheirVersion
    <2>9. commits'[c] > commits[c]
      BY <2>5 DEF Inv, TypeOK
    <2> QED BY <2>7, <2>8, <2>9
  <1>2. Spec => []CurrencyInv
    BY InitInv, InitCurrency, NextInv, NextCurrency, PTL DEF Spec
  <1> QED BY <1>1, <1>2, Invariance, PTL DEF Spec, OnlyStaleSnapshotsErase

-----------------------------------------------------------------------------
(* How many copies there are *)

LEMMA EmptyDataHasNone ==
    ASSUME NEW x \in Correspondences PROVE Copies(EmptyData, x) = 0
  <1>1. Occurrences(<<>>, x) = 0
    <2>1. {i \in 1..Len(<<>>) : <<>>[i] = x} = {}
      OBVIOUS
    <2> QED BY <2>1, FS_EmptySet DEF Occurrences
  <1> QED BY <1>1 DEF Copies, EmptyData

\* The copies of all case data, as numbers, and what bounds them.
LEMMA CopiesNumbers ==
    ASSUME Inv, NEW x \in Correspondences
    PROVE  /\ Copies(ccdCase.data, x) \in Nat
           /\ \A u \in Callers : Copies(held[u], x) \in Nat
           /\ \A c \in Correspondences : Copies(work[c], x) \in Nat
           /\ commits[x] \in Nat /\ Limit(x) \in Nat
           /\ WorkLimit(x) \in Nat /\ Limit(x) <= WorkLimit(x)
  <1>1. /\ ccdCase.data \in Data
        /\ \A u \in Callers : held[u] \in Data
        /\ \A c \in Correspondences : work[c] \in Data
        /\ commits[x] \in Nat
    BY DEF Inv, TypeOK
  <1> QED BY <1>1, CopiesType DEF Limit, WorkLimit

\* Steps that leave all case data alone, and take no call back to before
\* its merge.
LEMMA QuietCopies ==
    ASSUME CopiesInv,
           UNCHANGED <<ccdCase, held, work, method, commits>>,
           \A x \in Correspondences :
              /\ Unmerged(x)' => Unmerged(x)
              /\ pc'[x] = "read" => pc[x] = "read" \/ method[x] = "letter"
              /\ pc'[x] = "submit" => pc[x] = "submit" /\ attempts'[x] = attempts[x]
    PROVE  CopiesInv'
  BY DEF CopiesInv, NoCopies, Limit, WorkLimit

\* CallerReads and Crash: a caller takes the case as it is.
LEMMA TakeCaseCopies ==
    ASSUME CopiesInv, Inv, NEW u \in Callers,
           held' = [held EXCEPT ![u] = ccdCase.data],
           UNCHANGED <<ccdCase, work, method, attempts, commits>>,
           \A x \in Correspondences : pc'[x] = pc[x] \/ pc'[x] = "crashed"
    PROVE  CopiesInv'
  <1>1. \A x \in Correspondences :
           /\ Unmerged(x)' => Unmerged(x)
           /\ Limit(x)' = Limit(x) /\ WorkLimit(x)' = WorkLimit(x)
    BY DEF Unmerged, Limit, WorkLimit
  <1>2. \A v \in Callers : held'[v] = held[v] \/ held'[v] = ccdCase.data
    BY DEF Inv, TypeOK
  <1>3. \A x \in Correspondences : NoCopies(x) => NoCopies(x)'
    BY <1>2 DEF NoCopies
  <1> QED BY <1>1, <1>2, <1>3 DEF CopiesInv

LEMMA ActionLetterCopies ==
    ASSUME CopiesInv, Inv, NEW c \in Correspondences, ActionLetter(c)
    PROVE  CopiesInv'
  <1>1. \A x \in Correspondences : Copies(ccdCase'.data, x) = Copies(ccdCase.data, x)
    BY ActionLetterKeepsCopies
  <1>2. UNCHANGED <<held, pc, method, work, attempts, commits>>
    BY DEF ActionLetter, callVars, history
  <1>3. \A x \in Correspondences :
           /\ Unmerged(x)' => Unmerged(x)
           /\ Limit(x)' = Limit(x) /\ WorkLimit(x)' = WorkLimit(x)
           /\ NoCopies(x) => NoCopies(x)'
    BY <1>1, <1>2 DEF Unmerged, Limit, WorkLimit, NoCopies
  <1> QED BY <1>1, <1>2, <1>3 DEF CopiesInv

(***************************************************************************)
(* A merge for call c into the case as it is, in ReadCase and StartEvent:  *)
(* c has one more copy at most, and all the others as many.                *)
(***************************************************************************)
LEMMA MergeCaseCopies ==
    ASSUME CopiesInv, Inv, NEW c \in Correspondences,
           work' = [work EXCEPT ![c] = Merge(ccdCase.data, c, method[c], linked[c])],
           UNCHANGED <<ccdCase, held, method, commits>>,
           Unmerged(c) \/ method[c] \in V2Methods,
           ~(Unmerged(c)') \/ method[c] \in V2Methods,
           \A x \in Correspondences :
              /\ Unmerged(x)' => Unmerged(x)
              /\ pc'[x] = "read" => pc[x] = "read"
              /\ pc'[x] = "submit" => attempts'[x] > 0
    PROVE  CopiesInv'
  <1> DEFINE merged == Merge(ccdCase.data, c, method[c], linked[c])
  <1>1. ccdCase.data \in Data /\ linked[c] \in BOOLEAN
    BY DEF Inv, TypeOK
  <1>2. \A x \in Correspondences :
           /\ Copies(merged, x) \in Nat
           /\ x # c => Copies(merged, x) = Copies(ccdCase.data, x)
           /\ Copies(merged, x) <= Copies(ccdCase.data, x) + 1
    BY <1>1, CopiesOfMerge
  <1>3. work' = [work EXCEPT ![c] = merged] /\ work'[c] = merged
    BY DEF Inv, TypeOK
  <1> HIDE DEF merged
  <1>4. \A y \in Correspondences \ {c} : work'[y] = work[y]
    BY <1>3 DEF Inv, TypeOK
  <1> SUFFICES ASSUME NEW x \in Correspondences
               PROVE  /\ pc'[x] = "read" => method'[x] = "letter"
                      /\ pc'[x] = "submit" => attempts'[x] > 0
                      /\ Copies(ccdCase'.data, x) <= Limit(x)'
                      /\ \A u \in Callers : Copies(held'[u], x) <= Limit(x)'
                      /\ \A y \in Correspondences \ {x} : Copies(work'[y], x) <= Limit(x)'
                      /\ Copies(work'[x], x) <= WorkLimit(x)'
                      /\ Unmerged(x)' /\ method'[x] \notin V2Methods => NoCopies(x)'
    BY DEF CopiesInv
  <1>5. Limit(x)' = Limit(x) /\ WorkLimit(x)' = WorkLimit(x)
    BY DEF Limit, WorkLimit
  <1>6. pc'[x] = "read" => method'[x] = "letter"
    BY DEF CopiesInv
  <1>7. /\ Copies(ccdCase'.data, x) <= Limit(x)'
        /\ \A u \in Callers : Copies(held'[u], x) <= Limit(x)'
    BY <1>5 DEF CopiesInv
  <1>8. \A y \in Correspondences \ {x} : Copies(work'[y], x) <= Limit(x)'
    BY <1>2, <1>3, <1>4, <1>5 DEF CopiesInv
  <1>9. Copies(work'[x], x) <= WorkLimit(x)'
    <2>1. CASE x # c
      BY <1>4, <1>5, <2>1 DEF CopiesInv
    <2>2. CASE x = c
      <3>1. CASE method[c] \in V2Methods
        <4>1. WorkLimit(c) = Limit(c) + 1
          BY <3>1 DEF WorkLimit, Limit
        <4>2. Copies(ccdCase.data, c) <= Limit(c)
          BY DEF CopiesInv
        <4> QED BY <1>2, <1>3, <1>5, <2>2, <4>1, <4>2, CopiesNumbers
      <3>2. CASE method[c] \notin V2Methods
        <4>1. Copies(ccdCase.data, c) = 0
          BY <3>2 DEF CopiesInv, NoCopies
        <4>2. WorkLimit(c) = 1
          BY <3>2 DEF WorkLimit
        <4> QED BY <1>2, <1>3, <1>5, <2>2, <4>1, <4>2
      <3> QED BY <3>1, <3>2
    <2> QED BY <2>1, <2>2
  <1>10. Unmerged(x)' /\ method'[x] \notin V2Methods => NoCopies(x)'
    <2> SUFFICES ASSUME Unmerged(x)', method[x] \notin V2Methods PROVE NoCopies(x)'
      OBVIOUS
    <2>1. x # c /\ NoCopies(x)
      BY DEF CopiesInv
    <2> QED BY <1>2, <1>3, <1>4, <2>1 DEF NoCopies
  <1> QED BY <1>6, <1>7, <1>8, <1>9, <1>10

LEMMA StorePdfCopies ==
    ASSUME CopiesInv, Inv, NEW c \in Correspondences, StorePdf(c)
    PROVE  CopiesInv'
  <1> PICK answer \in UploadAnswers :
          \E lands \in MayHold(answer) : UploadAnswered(c, answer, lands)
    BY DEF StorePdf
  <1> PICK lands \in MayHold(answer) : UploadAnswered(c, answer, lands)
    OBVIOUS
  <1> DEFINE link == StoreDocument(SecureEnabled, answer) = "document"
             u == CallerOf[c]
             merged == Merge(held[u], c, method[c], link)
  <1>1. /\ UNCHANGED <<ccdCase, method, attempts, commits>>
        /\ pc[c] = "store"
    BY DEF StorePdf, UploadAnswered, Throw
  <1>2. /\ \A x \in Correspondences : x # c => pc'[x] = pc[x]
        /\ pc'[c] \in {"thrown", "start"} \/ (pc'[c] = "read" /\ method[c] = "letter")
    BY DEF UploadAnswered, Throw, Goto, Inv, TypeOK
  <1>3. CASE UNCHANGED <<held, work>>
    <2>1. \A x \in Correspondences : Unmerged(x)' => Unmerged(x)
      BY <1>1, <1>2 DEF Unmerged
    <2> QED BY <1>1, <1>2, <1>3, <2>1, QuietCopies
  <1>4. CASE /\ held' = [held EXCEPT ![u] = merged]
             /\ work' = [work EXCEPT ![c] = merged]
             /\ method[c] = "correspondence"
    <2>1. u \in Callers /\ held[u] \in Data /\ link \in BOOLEAN
      BY CallersAssumption DEF Inv, TypeOK
    <2>2. \A x \in Correspondences :
             /\ Copies(merged, x) \in Nat
             /\ x # c => Copies(merged, x) = Copies(held[u], x)
             /\ Copies(merged, x) <= Copies(held[u], x) + 1
      <3> HIDE DEF u, link
      <3> QED BY <2>1, CopiesOfMerge
    <2> HIDE DEF merged, u
    <2>3. /\ \A v \in Callers : held'[v] = IF v = u THEN merged ELSE held[v]
          /\ \A y \in Correspondences : work'[y] = IF y = c THEN merged ELSE work[y]
      BY <1>4 DEF Inv, TypeOK
    <2>4. \A x \in Correspondences : Limit(x)' = Limit(x) /\ WorkLimit(x)' = WorkLimit(x)
      BY <1>1 DEF Limit, WorkLimit
    <2>5. NoCopies(c) /\ Limit(c) = 1 /\ WorkLimit(c) = 1
      BY <1>1, <1>4 DEF CopiesInv, Unmerged, Limit, WorkLimit, V2Methods
    <2>6. Copies(merged, c) <= 1
      BY <2>1, <2>2, <2>5 DEF NoCopies
    <2>7. \A x \in Correspondences :
             /\ pc'[x] = "read" => method'[x] = "letter"
             /\ pc'[x] = "submit" => attempts'[x] > 0
             /\ Unmerged(x)' => x # c /\ Unmerged(x)
      BY <1>1, <1>2, <1>4 DEF CopiesInv, Unmerged
    <2>8. ASSUME NEW x \in Correspondences, x # c
          PROVE  /\ Copies(ccdCase'.data, x) <= Limit(x)'
                 /\ \A v \in Callers : Copies(held'[v], x) <= Limit(x)'
                 /\ \A y \in Correspondences \ {x} : Copies(work'[y], x) <= Limit(x)'
                 /\ Copies(work'[x], x) <= WorkLimit(x)'
                 /\ NoCopies(x) => NoCopies(x)'
      <3>1. Copies(merged, x) = Copies(held[u], x) /\ Copies(held[u], x) <= Limit(x)
        BY <2>1, <2>2, <2>8 DEF CopiesInv
      <3>2. NoCopies(x) => NoCopies(x)'
        BY <1>1, <2>1, <2>3, <3>1 DEF NoCopies
      <3> QED BY <1>1, <2>3, <2>4, <2>8, <3>1, <3>2 DEF CopiesInv
    <2>9. /\ Copies(ccdCase'.data, c) <= Limit(c)'
          /\ \A v \in Callers : Copies(held'[v], c) <= Limit(c)'
          /\ \A y \in Correspondences \ {c} : Copies(work'[y], c) <= Limit(c)'
          /\ Copies(work'[c], c) <= WorkLimit(c)'
      BY <1>1, <2>3, <2>4, <2>5, <2>6 DEF NoCopies
    <2> QED BY <1>1, <2>7, <2>8, <2>9 DEF CopiesInv
  <1>5. \/ UNCHANGED <<held, work>>
        \/ /\ held' = [held EXCEPT ![u] = merged]
           /\ work' = [work EXCEPT ![c] = merged]
           /\ method[c] = "correspondence"
    BY DEF UploadAnswered, Throw, MergeIntoHeld
  <1> QED BY <1>3, <1>4, <1>5

LEMMA ReadCaseCopies ==
    ASSUME CopiesInv, Inv, NEW c \in Correspondences, ReadCase(c)
    PROVE  CopiesInv'
  <1>1. /\ pc[c] = "read" /\ pc' = [pc EXCEPT ![c] = "start"]
        /\ UNCHANGED <<ccdCase, held, method, attempts, commits>>
        /\ method[c] = "letter"
    BY DEF ReadCase, Goto, CopiesInv
  <1>2. Unmerged(c) /\ ~(Unmerged(c)')
    BY <1>1 DEF Inv, TypeOK, Unmerged
  <1>3. \A x \in Correspondences :
           /\ Unmerged(x)' => Unmerged(x)
           /\ pc'[x] = "read" => pc[x] = "read"
           /\ pc'[x] = "submit" => attempts'[x] > 0
    BY <1>1 DEF Inv, TypeOK, Unmerged, CopiesInv
  <1> QED BY <1>1, <1>2, <1>3, MergeCaseCopies DEF ReadCase

LEMMA StartEventCopies ==
    ASSUME CopiesInv, Inv, NEW c \in Correspondences, StartEvent(c)
    PROVE  CopiesInv'
  <1>1. /\ pc[c] = "start" /\ pc' = [pc EXCEPT ![c] = "submit"]
        /\ attempts' = [attempts EXCEPT ![c] = @ + 1]
        /\ UNCHANGED <<ccdCase, held, method, commits>>
    BY DEF StartEvent, Goto
  <1>2. \A x \in Correspondences :
           /\ Unmerged(x)' => Unmerged(x)
           /\ pc'[x] = "read" => pc[x] = "read"
           /\ pc'[x] = "submit" => attempts'[x] > 0
    BY <1>1 DEF Inv, TypeOK, Unmerged, CopiesInv
  <1>3. ~(Unmerged(c)')
    BY <1>1 DEF Inv, TypeOK, Unmerged
  <1>4. CASE method[c] \in SnapshotMethods
    <2>1. UNCHANGED work
      BY <1>4 DEF StartEvent
    <2>2. \A x \in Correspondences :
             /\ Limit(x)' = Limit(x) /\ WorkLimit(x)' = WorkLimit(x)
             /\ NoCopies(x) => NoCopies(x)'
      BY <1>1, <2>1 DEF Limit, WorkLimit, NoCopies
    <2> QED BY <1>1, <1>2, <2>1, <2>2 DEF CopiesInv
  <1>5. CASE method[c] \notin SnapshotMethods
    <2>1. work' = [work EXCEPT ![c] = Merge(ccdCase.data, c, method[c], linked[c])]
      BY <1>5 DEF StartEvent
    <2>2. method[c] \in AllMethods
      BY DEF Inv, TypeOK
    <2>3. Unmerged(c) \/ method[c] \in V2Methods
      BY <1>1, <1>5, <2>2 DEF Unmerged, AllMethods, NotificationMethods, LetterMethods,
                              AdjustmentMethods, SnapshotMethods, V2Methods
    <2> QED BY <1>1, <1>2, <1>3, <2>1, <2>3, MergeCaseCopies
  <1> QED BY <1>4, <1>5

\* After an attempt a V1 call is not back before its merge.
LEMMA EndOfAttempt ==
    ASSUME CopiesInv, Inv, NEW c \in Correspondences, pc[c] = "submit",
           Succeed(c) \/ AttemptFails(c), UNCHANGED <<method, attempts>>
    PROVE  /\ \A x \in Correspondences :
                 /\ pc'[x] = "read" => pc[x] = "read"
                 /\ pc'[x] = "submit" => pc[x] = "submit"
                 /\ Unmerged(x)' => x # c /\ Unmerged(x)
  <1>1. /\ \A x \in Correspondences : x # c => pc'[x] = pc[x]
        /\ pc'[c] \in {"start", "returned", "thrown"}
        /\ pc'[c] = "start" => attempts[c] < AttemptsOf(method[c])
    BY DEF Inv, TypeOK, Succeed, AttemptFails, Leave, Goto
  <1>2. ~(Unmerged(c)')
    <2> SUFFICES ASSUME pc'[c] = "start", method[c] = "adjustment" PROVE FALSE
      BY <1>1 DEF Unmerged
    <2>1. AttemptsOf(method[c]) = 1
      BY DEF AttemptsOf, V2Methods
    <2>2. attempts[c] > 0 /\ attempts[c] \in 0..MaxAttempts
      BY DEF CopiesInv, Inv, TypeOK
    <2> QED BY <1>1, <2>1, <2>2, AttemptsAssumption
  <1>3. \A x \in Correspondences : x # c => (Unmerged(x)' => Unmerged(x))
    BY <1>1 DEF Unmerged
  <1> QED BY <1>1, <1>2, <1>3

LEMMA EventRejectedCopies ==
    ASSUME CopiesInv, Inv, NEW c \in Correspondences, EventRejected(c)
    PROVE  CopiesInv'
  <1>1. /\ pc[c] = "submit" /\ AttemptFails(c)
        /\ UNCHANGED <<ccdCase, held, method, work, attempts, commits>>
    BY DEF EventRejected
  <1> QED BY <1>1, EndOfAttempt, QuietCopies

(***************************************************************************)
(* A commit writes what the call was about to submit, and counts itself.   *)
(***************************************************************************)
LEMMA EventCommittedCopies ==
    ASSUME CopiesInv, Inv, NEW c \in Correspondences, EventCommitted(c)
    PROVE  CopiesInv'
  <1>1. /\ pc[c] = "submit" /\ (Succeed(c) \/ AttemptFails(c))
        /\ ccdCase'.data = work[c]
        /\ commits' = [commits EXCEPT ![c] = @ + 1]
        /\ UNCHANGED <<held, method, work, attempts>>
    BY DEF EventCommitted
  <1>2. \A x \in Correspondences :
           /\ pc'[x] = "read" => pc[x] = "read"
           /\ pc'[x] = "submit" => pc[x] = "submit"
           /\ Unmerged(x)' => x # c /\ Unmerged(x)
    BY <1>1, EndOfAttempt
  <1>3. ASSUME NEW x \in Correspondences
        PROVE  /\ Limit(x)' \in Nat /\ Limit(x) <= Limit(x)'
               /\ WorkLimit(x)' \in Nat /\ WorkLimit(x) <= WorkLimit(x)'
               /\ Limit(c)' = WorkLimit(c)
    BY <1>1 DEF Inv, TypeOK, Limit, WorkLimit
  <1>4. ASSUME NEW x \in Correspondences
        PROVE  /\ Copies(ccdCase'.data, x) <= Limit(x)'
               /\ \A u \in Callers : Copies(held'[u], x) <= Limit(x)'
               /\ \A y \in Correspondences \ {x} : Copies(work'[y], x) <= Limit(x)'
               /\ Copies(work'[x], x) <= WorkLimit(x)'
    <2>1. Copies(work[c], x) <= Limit(x)'
      <3>1. CASE x = c
        BY <1>3, <3>1 DEF CopiesInv
      <3>2. CASE x # c
        <4>1. Copies(work[c], x) <= Limit(x)
          BY <3>2 DEF CopiesInv
        <4> QED BY <1>3, <4>1, CopiesNumbers
      <3> QED BY <3>1, <3>2
    <2>2. \A u \in Callers : Copies(held[u], x) <= Limit(x)'
      <3> SUFFICES ASSUME NEW u \in Callers PROVE Copies(held[u], x) <= Limit(x)'
        OBVIOUS
      <3>1. Copies(held[u], x) <= Limit(x)
        BY DEF CopiesInv
      <3> QED BY <1>3, <3>1, CopiesNumbers
    <2>3. \A y \in Correspondences \ {x} : Copies(work[y], x) <= Limit(x)'
      <3> SUFFICES ASSUME NEW y \in Correspondences \ {x}
                   PROVE  Copies(work[y], x) <= Limit(x)'
        OBVIOUS
      <3>1. Copies(work[y], x) <= Limit(x)
        BY DEF CopiesInv
      <3> QED BY <1>3, <3>1, CopiesNumbers
    <2>4. Copies(work[x], x) <= WorkLimit(x)'
      <3>1. Copies(work[x], x) <= WorkLimit(x)
        BY DEF CopiesInv
      <3> QED BY <1>3, <3>1, CopiesNumbers
    <2> QED BY <1>1, <2>1, <2>2, <2>3, <2>4
  <1>5. \A x \in Correspondences : NoCopies(x) => NoCopies(x)'
    BY <1>1 DEF NoCopies
  <1>6. \A x \in Correspondences :
           /\ pc'[x] = "read" => method'[x] = "letter"
           /\ pc'[x] = "submit" => attempts'[x] > 0
           /\ Unmerged(x)' /\ method'[x] \notin V2Methods => NoCopies(x)'
    BY <1>1, <1>2, <1>5 DEF CopiesInv
  <1> QED BY <1>4, <1>6 DEF CopiesInv

LEMMA NextCopies == Inv /\ CopiesInv /\ [Next]_vars => CopiesInv'
  <1> SUFFICES ASSUME Inv, CopiesInv, [Next]_vars PROVE CopiesInv'
    OBVIOUS
  <1>1. CASE UNCHANGED vars
    <2>1. UNCHANGED <<ccdCase, held, pc, method, work, attempts, commits>>
      BY <1>1 DEF vars, callVars, history
    <2> QED BY <2>1, QuietCopies DEF Unmerged
  <1>2. ASSUME NEW c \in Correspondences,
               Begin(c) \/ GeneratePdf(c) \/ MergePdfs(c) \/ UnguardedCallFails(c)
        PROVE  CopiesInv'
    <2>1. UNCHANGED <<ccdCase, held, work, method, attempts, commits>>
      BY <1>2 DEF Begin, GeneratePdf, MergePdfs, UnguardedCallFails, Throw, history
    <2>2. /\ \A x \in Correspondences : x # c => pc'[x] = pc[x]
          /\ \/ pc[c] \in {"idle", "produce"} /\ pc'[c] \in {"produce", "store", "thrown"}
             \/ pc'[c] = "thrown"
      BY <1>2 DEF Begin, GeneratePdf, MergePdfs, UnguardedCallFails, Throw, Goto,
                  Inv, TypeOK
    <2> QED BY <2>1, <2>2, QuietCopies DEF Unmerged
  <1>3. ASSUME NEW c \in Correspondences, CallStep(c) PROVE CopiesInv'
    BY <1>2, <1>3, StorePdfCopies, ReadCaseCopies, StartEventCopies,
       EventRejectedCopies, EventCommittedCopies DEF CallStep
  <1>4. ASSUME NEW c \in Correspondences, ActionLetter(c) PROVE CopiesInv'
    BY <1>4, ActionLetterCopies
  <1>5. ASSUME NEW u \in Callers, CallerReads(u) PROVE CopiesInv'
    BY <1>5, TakeCaseCopies DEF CallerReads, callVars
  <1>6. ASSUME NEW u \in Callers, Crash(u) PROVE CopiesInv'
    BY <1>6, TakeCaseCopies DEF Crash
  <1> QED BY <1>1, <1>2, <1>3, <1>4, <1>5, <1>6 DEF Next

LEMMA InitCopies == Init => CopiesInv
  <1> SUFFICES ASSUME Init, NEW x \in Correspondences
               PROVE  /\ pc[x] = "read" => method[x] = "letter"
                      /\ pc[x] = "submit" => attempts[x] > 0
                      /\ Copies(ccdCase.data, x) <= Limit(x)
                      /\ \A u \in Callers : Copies(held[u], x) <= Limit(x)
                      /\ \A y \in Correspondences \ {x} : Copies(work[y], x) <= Limit(x)
                      /\ Copies(work[x], x) <= WorkLimit(x)
                      /\ Unmerged(x) /\ method[x] \notin V2Methods => NoCopies(x)
    BY DEF CopiesInv
  <1>1. Copies(EmptyData, x) = 0
    BY EmptyDataHasNone
  <1>2. Limit(x) \in {0, 1} /\ WorkLimit(x) = 1
    BY DEF Init, Limit, WorkLimit
  <1> QED BY <1>1, <1>2 DEF Init, NoCopies

(***************************************************************************)
(* A correspondence is in the case no more often than its call committed   *)
(* updates, however often it tried; once, if the call is of a V1 method,   *)
(* although other callers' snapshots and the caller's own object go on     *)
(* carrying it.                                                            *)
(***************************************************************************)
THEOREM CopiesBounded == Spec => []AtMostOncePerUpdate
  <1>1. CopiesInv => AtMostOncePerUpdate
    BY DEF CopiesInv, Limit, AtMostOncePerUpdate
  <1>2. Spec => []CopiesInv
    BY InitInv, InitCopies, NextInv, NextCopies, PTL DEF Spec
  <1> QED BY <1>1, <1>2, PTL
-----------------------------------------------------------------------------
(***************************************************************************)
(* What a caller may conclude: what a normal return says of the case, and  *)
(* that callers which use only methods with a consumer see a log that      *)
(* grows.                                                                  *)
(***************************************************************************)

(***************************************************************************)
(* A result, and what the history of its call must contain.  A V1 call has *)
(* committed nothing until it ends, since it has one attempt.              *)
(***************************************************************************)
ResultInv ==
    \A c \in Correspondences :
        /\ result[c] = "data" => pc[c] = "returned" /\ commits[c] = 1
        /\ result[c] = "null" => "ccd" \in faults[c]
        /\ pc[c] = "returned" => commits[c] > 0 \/ "ccd" \in faults[c]
        /\ pc[c] \in {"read", "start", "submit", "returned"} =>
              linked[c] \/ "store" \in faults[c]
        /\ pc[c] \in {"idle"} \cup Active /\ method[c] \notin V2Methods => commits[c] = 0

-----------------------------------------------------------------------------
(* What a return says *)

\* Steps in which no attempt ends.
LEMMA NoAttemptEndsResult ==
    ASSUME ResultInv, Inv, NEW c \in Correspondences,
           UNCHANGED <<method, result, commits>>,
           \A x \in Correspondences :
              /\ pc'[x] = pc[x] \/ (x = c /\ pc[x] # "returned" /\ pc'[x] # "returned")
              /\ pc'[x] \in {"idle"} \cup Active => pc[x] \in {"idle"} \cup Active
              /\ faults[x] \subseteq faults'[x]
              /\ pc'[x] \in {"read", "start", "submit", "returned"} =>
                    linked'[x] \/ "store" \in faults'[x]
    PROVE  ResultInv'
  BY DEF ResultInv

LEMMA StorePdfResult ==
    ASSUME ResultInv, Inv, NEW c \in Correspondences, StorePdf(c)
    PROVE  ResultInv'
  <1> PICK answer \in UploadAnswers :
          \E lands \in MayHold(answer) : UploadAnswered(c, answer, lands)
    BY DEF StorePdf
  <1> PICK lands \in MayHold(answer) : UploadAnswered(c, answer, lands)
    OBVIOUS
  <1> DEFINE link == StoreDocument(SecureEnabled, answer) = "document"
  <1>1. pc[c] = "store" /\ UNCHANGED <<method, result, commits>>
    BY DEF StorePdf, UploadAnswered, Throw
  <1>2. CASE StoreDocument(SecureEnabled, answer) = "throws"
    <2>1. pc' = [pc EXCEPT ![c] = "thrown"] /\ UNCHANGED <<linked, faults>>
      BY <1>2 DEF UploadAnswered, Throw, Goto
    <2> QED BY <1>1, <2>1, NoAttemptEndsResult DEF ResultInv, Inv, TypeOK, Active
  <1>3. CASE StoreDocument(SecureEnabled, answer) # "throws"
    <2>1. /\ linked' = [linked EXCEPT ![c] = link]
          /\ faults' = [faults EXCEPT ![c] = IF link THEN @ ELSE @ \cup {"store"}]
          /\ pc' = [pc EXCEPT ![c] = IF method[c] = "letter" THEN "read" ELSE "start"]
      BY <1>3 DEF UploadAnswered, Goto
    <2> HIDE DEF link
    <2>2. /\ \A x \in Correspondences : faults[x] \subseteq faults'[x]
          /\ linked'[c] \/ "store" \in faults'[c]
          /\ \A x \in Correspondences \ {c} : linked'[x] = linked[x] /\ pc'[x] = pc[x]
          /\ pc'[c] \in {"read", "start"}
      BY <2>1 DEF Inv, TypeOK
    <2> QED BY <1>1, <2>2, NoAttemptEndsResult DEF ResultInv, Active
  <1> QED BY <1>2, <1>3

LEMMA EndOfAttemptResult ==
    ASSUME ResultInv, CopiesInv, Inv, NEW c \in Correspondences,
           EventRejected(c) \/ EventCommitted(c)
    PROVE  ResultInv'
  <1>1. /\ pc[c] = "submit" /\ UNCHANGED <<method, linked, attempts>>
        /\ \A x \in Correspondences \ {c} : commits'[x] = commits[x]
      BY DEF EventRejected, EventCommitted, Inv, TypeOK
  <1>2. /\ \A x \in Correspondences \ {c} :
              pc'[x] = pc[x] /\ result'[x] = result[x] /\ faults'[x] = faults[x]
        /\ "store" \in faults[c] => "store" \in faults'[c]
    BY DEF EventRejected, EventCommitted, Succeed, AttemptFails, Leave, Goto, Inv, TypeOK
  <1>3. /\ result[c] # "data"
        /\ linked[c] \/ "store" \in faults[c]
        /\ method[c] \notin V2Methods => commits[c] = 0 /\ attempts[c] >= AttemptsOf(method[c])
    <2>1. method[c] \notin V2Methods => attempts[c] >= AttemptsOf(method[c])
      <3>1. attempts[c] > 0 /\ attempts[c] \in 0..MaxAttempts
        BY <1>1 DEF CopiesInv, Inv, TypeOK
      <3> QED BY <3>1, AttemptsAssumption DEF AttemptsOf
    <2> QED BY <1>1, <2>1 DEF ResultInv, Active
  <1>4. CASE AttemptFails(c)
    <2>1. /\ "ccd" \in faults'[c]
          /\ \/ /\ pc'[c] = "start" /\ result'[c] = result[c]
                /\ attempts[c] < AttemptsOf(method[c])
             \/ pc'[c] = "returned" /\ result'[c] = Swallowed(method[c])
             \/ pc'[c] = "thrown" /\ result'[c] = result[c]
      BY <1>4 DEF AttemptFails, Leave, Goto, Inv, TypeOK
    <2>2. result'[c] # "data"
      BY <1>3, <2>1 DEF Swallowed
    <2>3. method[c] \notin V2Methods => pc'[c] \in {"returned", "thrown"}
      <3>1. /\ attempts[c] \in 0..MaxAttempts /\ AttemptsOf(method[c]) \in 1..MaxAttempts
        BY AttemptsOfType DEF Inv, TypeOK
      <3> QED BY <1>3, <2>1, <3>1, AttemptsAssumption
    <2> QED BY <1>1, <1>2, <1>3, <2>1, <2>2, <2>3 DEF ResultInv, Active
  <1>5. CASE Succeed(c)
    <2>1. /\ pc'[c] = "returned" /\ result'[c] = Updated(method[c])
          /\ faults' = faults
      BY <1>5 DEF Succeed, Leave, Goto, Inv, TypeOK
    <2>2. commits[c] \in Nat
      BY DEF Inv, TypeOK
    <2>3. EventCommitted(c) => commits'[c] = commits[c] + 1
      BY DEF EventCommitted, Inv, TypeOK
    <2>4. EventCommitted(c) \/ AttemptFails(c)
      BY DEF EventRejected
    <2> QED BY <1>1, <1>2, <1>3, <1>4, <2>1, <2>2, <2>3, <2>4 DEF ResultInv, Updated, Active
  <1> QED BY <1>4, <1>5 DEF EventRejected, EventCommitted

LEMMA NextResult == Inv /\ CopiesInv /\ ResultInv /\ [Next]_vars => ResultInv'
  <1> SUFFICES ASSUME Inv, CopiesInv, ResultInv, [Next]_vars PROVE ResultInv'
    OBVIOUS
  <1>1. CASE UNCHANGED vars
    BY <1>1 DEF vars, callVars, history, ResultInv
  <1>2. ASSUME NEW c \in Correspondences,
               \/ Begin(c) \/ GeneratePdf(c) \/ MergePdfs(c) \/ UnguardedCallFails(c)
               \/ ReadCase(c) \/ StartEvent(c)
        PROVE  ResultInv'
    <2>1. UNCHANGED <<method, result, commits, linked, faults>>
      BY <1>2 DEF Begin, GeneratePdf, MergePdfs, UnguardedCallFails, Throw, ReadCase,
                  StartEvent, storeVars, history
    <2>2. /\ \A x \in Correspondences \ {c} : pc'[x] = pc[x]
          /\ pc[c] \in {"idle"} \cup Active
          /\ \/ pc'[c] \in {"produce", "store", "thrown"}
             \/ pc[c] \in {"read", "start"} /\ pc'[c] \in {"start", "submit"}
      BY <1>2 DEF Begin, GeneratePdf, MergePdfs, UnguardedCallFails, UnguardedPlace,
                  Throw, ReadCase, StartEvent, Goto, Inv, TypeOK, Active
    <2> QED BY <2>1, <2>2, NoAttemptEndsResult DEF ResultInv, Active
  <1>3. ASSUME NEW c \in Correspondences, CallStep(c) PROVE ResultInv'
    BY <1>2, <1>3, StorePdfResult, EndOfAttemptResult DEF CallStep
  <1>4. ASSUME NEW c \in Correspondences, ActionLetter(c) PROVE ResultInv'
    BY <1>4 DEF ActionLetter, callVars, history, ResultInv
  <1>5. ASSUME NEW u \in Callers, CallerReads(u) PROVE ResultInv'
    BY <1>5 DEF CallerReads, callVars, ResultInv
  <1>6. ASSUME NEW u \in Callers, Crash(u) PROVE ResultInv'
    <2>1. \A x \in Correspondences :
             pc'[x] = pc[x] \/ (pc[x] \in Active /\ pc'[x] = "crashed")
      BY <1>6 DEF Crash
    <2>2. UNCHANGED <<method, result, linked, commits, faults>>
      BY <1>6 DEF Crash
    <2> QED BY <2>1, <2>2 DEF ResultInv, Active
  <1> QED BY <1>1, <1>2, <1>3, <1>4, <1>5, <1>6 DEF Next

(***************************************************************************)
(* Results are honest: data means one committed update, null a failure of  *)
(* CCD, and a normal return without an update or without a document a      *)
(* failure that was swallowed.                                             *)
(***************************************************************************)
THEOREM ResultsHonest == Spec => []ResultIsHonest
  <1>1. Init => ResultInv
    BY DEF Init, ResultInv
  <1>2. ResultInv => ResultIsHonest
    BY DEF ResultInv, ResultIsHonest
  <1>3. Spec => [](Inv /\ CopiesInv)
    BY InitInv, InitCopies, NextInv, NextCopies, PTL DEF Spec
  <1> QED BY <1>1, <1>2, <1>3, NextResult, PTL DEF Spec

-----------------------------------------------------------------------------
(* The log *)

(***************************************************************************)
(* What relates the case to the log, as long as no call submits a snapshot *)
(* (NoSnapshots).  A caller makes one call at a time, so that a crash ends *)
(* one.  Each commit is of an attempt of its own.  Data that are submitted *)
(* at the version they were read at add at most the entry of their call.   *)
(***************************************************************************)
NoSnapshots == \A c \in Correspondences : method[c] \notin SnapshotMethods

OneCallPerCaller ==
    \A c, x \in Correspondences :
        pc[c] \in Active /\ pc[x] \in Active /\ CallerOf[c] = CallerOf[x] => c = x

CommitsCounted ==
    \A c \in Correspondences :
        /\ commits[c] <= attempts[c]
        /\ pc[c] = "submit" => commits[c] < attempts[c]

AddsItsEntry(c) ==
    \A x \in Correspondences :
        \/ Copies(work[c], x) = Copies(ccdCase.data, x)
        \/ x = c /\ Copies(work[c], x) = Copies(ccdCase.data, x) + 1

WorkIsMerged ==
    \A c \in Correspondences :
        pc[c] = "submit" /\ readAt[c] = ccdCase.version => AddsItsEntry(c)

RecordedCounted == \A c \in Correspondences : Copies(ccdCase.data, c) <= commits[c]

LogInv == /\ NoSnapshots /\ OneCallPerCaller /\ CommitsCounted
          /\ WorkIsMerged /\ RecordedCounted

\* Steps that leave the case alone and start no event.
LEMMA QuietLog ==
    ASSUME LogInv,
           UNCHANGED <<ccdCase, method, attempts, commits>>,
           \A x \in Correspondences :
              pc'[x] = "submit" =>
                 pc[x] = "submit" /\ work'[x] = work[x] /\ readAt'[x] = readAt[x],
           OneCallPerCaller'
    PROVE  LogInv'
  <1>1. NoSnapshots' /\ CommitsCounted' /\ RecordedCounted'
    BY DEF LogInv, NoSnapshots, CommitsCounted, RecordedCounted
  <1>2. WorkIsMerged'
    BY DEF LogInv, WorkIsMerged, AddsItsEntry
  <1> QED BY <1>1, <1>2 DEF LogInv

\* A call becomes active only by Begin, while its caller is idle.
LEMMA OneCallKept ==
    ASSUME LogInv, \A x \in Correspondences : pc'[x] \in Active => pc[x] \in Active
    PROVE  OneCallPerCaller'
  BY DEF LogInv, OneCallPerCaller

LEMMA BeginLog ==
    ASSUME LogInv, Inv, NEW c \in Correspondences, Begin(c)
    PROVE  LogInv'
  <1>1. /\ IsIdle(CallerOf[c]) /\ pc'[c] # "submit"
        /\ \A x \in Correspondences \ {c} : pc'[x] = pc[x]
        /\ UNCHANGED <<ccdCase, method, work, readAt, attempts, commits>>
    BY DEF Begin, Goto, Inv, TypeOK, history
  <1>2. OneCallPerCaller'
    BY <1>1 DEF LogInv, OneCallPerCaller, IsIdle
  <1> QED BY <1>1, <1>2, QuietLog

LEMMA StartEventLog ==
    ASSUME LogInv, Inv, NEW c \in Correspondences, StartEvent(c)
    PROVE  LogInv'
  <1> DEFINE merged == Merge(ccdCase.data, c, method[c], linked[c])
  <1>1. /\ pc[c] = "start" /\ pc' = [pc EXCEPT ![c] = "submit"]
        /\ attempts' = [attempts EXCEPT ![c] = @ + 1]
        /\ work' = [work EXCEPT ![c] = merged]
        /\ readAt' = [readAt EXCEPT ![c] = ccdCase.version]
        /\ UNCHANGED <<ccdCase, method, commits>>
    BY DEF StartEvent, Goto, LogInv, NoSnapshots
  <1>2. ccdCase.data \in Data /\ linked[c] \in BOOLEAN
    BY DEF Inv, TypeOK
  <1>3. ASSUME NEW x \in Correspondences
        PROVE  \/ Copies(merged, x) = Copies(ccdCase.data, x)
               \/ x = c /\ Copies(merged, x) = Copies(ccdCase.data, x) + 1
    <2>1. /\ Copies(merged, x) \in Nat
          /\ Copies(merged, x) >= Copies(ccdCase.data, x)
          /\ x # c => Copies(merged, x) = Copies(ccdCase.data, x)
          /\ Copies(merged, x) <= Copies(ccdCase.data, x) + 1
      BY <1>2, CopiesOfMerge
    <2>2. Copies(ccdCase.data, x) \in Nat
      BY <1>2, CopiesType
    <2> HIDE DEF merged
    <2> QED BY <2>1, <2>2
  <1> HIDE DEF merged
  <1>4. WorkIsMerged'
    <2>1. AddsItsEntry(c)'
      BY <1>1, <1>3 DEF AddsItsEntry, Inv, TypeOK
    <2>2. \A x \in Correspondences \ {c} :
             /\ pc'[x] = pc[x] /\ work'[x] = work[x] /\ readAt'[x] = readAt[x]
      BY <1>1 DEF Inv, TypeOK
    <2>3. \A x \in Correspondences \ {c} : AddsItsEntry(x) => AddsItsEntry(x)'
      BY <1>1, <2>2 DEF AddsItsEntry
    <2> QED BY <1>1, <2>1, <2>2, <2>3 DEF LogInv, WorkIsMerged
  <1>5. CommitsCounted'
    <2>1. \A x \in Correspondences :
             commits[x] \in Nat /\ attempts[x] \in Nat
      BY AttemptsAssumption DEF Inv, TypeOK
    <2> QED BY <1>1, <2>1 DEF LogInv, CommitsCounted, Inv, TypeOK
  <1>6. OneCallPerCaller'
    BY <1>1, OneCallKept DEF Inv, TypeOK, Active
  <1>7. NoSnapshots' /\ RecordedCounted'
    BY <1>1 DEF LogInv, NoSnapshots, RecordedCounted
  <1> QED BY <1>4, <1>5, <1>6, <1>7 DEF LogInv

\* What a commit does to the log, where no snapshots are submitted.
LEMMA CommitAddsItsEntry ==
    ASSUME LogInv, CurrencyInv, NEW c \in Correspondences, EventCommitted(c)
    PROVE  /\ pc[c] = "submit" /\ ccdCase'.data = work[c]
           /\ AddsItsEntry(c)
  <1>1. /\ pc[c] = "submit" /\ token[c] = ccdCase.version
        /\ ccdCase'.data = work[c]
    BY DEF EventCommitted
  <1>2. readAt[c] = ccdCase.version
    BY <1>1 DEF LogInv, NoSnapshots, CurrencyInv, ConsumersReadTheirVersion
  <1> QED BY <1>1, <1>2 DEF LogInv, WorkIsMerged

LEMMA EventCommittedLog ==
    ASSUME LogInv, CurrencyInv, Inv, NEW c \in Correspondences, EventCommitted(c)
    PROVE  LogInv'
  <1>1. /\ pc[c] = "submit" /\ ccdCase'.data = work[c]
        /\ ccdCase'.version = ccdCase.version + 1
        /\ commits' = [commits EXCEPT ![c] = @ + 1]
        /\ UNCHANGED <<method, work, attempts, readAt>>
        /\ Succeed(c) \/ AttemptFails(c)
    BY DEF EventCommitted
  <1>2. /\ \A x \in Correspondences \ {c} : pc'[x] = pc[x]
        /\ pc'[c] # "submit"
    BY <1>1 DEF Succeed, AttemptFails, Leave, Goto, Inv, TypeOK
  <1>3. \A x \in Correspondences :
           commits[x] \in Nat /\ attempts[x] \in Nat /\ Copies(ccdCase.data, x) \in Nat
    BY AttemptsAssumption, CopiesNumbers DEF Inv, TypeOK
  <1>4. WorkIsMerged'
    <2>1. \A x \in Correspondences : readAt[x] # ccdCase'.version
      BY <1>1 DEF CurrencyInv, WorkIsCurrent, Inv, TypeOK
    <2> QED BY <1>1, <2>1 DEF WorkIsMerged
  <1>5. RecordedCounted'
    <2> SUFFICES ASSUME NEW x \in Correspondences
                 PROVE  Copies(ccdCase'.data, x) <= commits'[x]
      BY DEF RecordedCounted
    <2>1. \/ Copies(work[c], x) = Copies(ccdCase.data, x)
          \/ x = c /\ Copies(work[c], x) = Copies(ccdCase.data, x) + 1
      BY CommitAddsItsEntry DEF AddsItsEntry
    <2>2. Copies(ccdCase.data, x) <= commits[x]
      BY DEF LogInv, RecordedCounted
    <2>3. commits'[x] = IF x = c THEN commits[x] + 1 ELSE commits[x]
      BY <1>1 DEF Inv, TypeOK
    <2> QED BY <1>1, <1>3, <2>1, <2>2, <2>3
  <1>6. CommitsCounted'
    BY <1>1, <1>2, <1>3 DEF LogInv, CommitsCounted, Inv, TypeOK
  <1>7. OneCallPerCaller'
    BY <1>1, <1>2, OneCallKept DEF Active
  <1>8. NoSnapshots'
    BY <1>1 DEF LogInv, NoSnapshots
  <1> QED BY <1>4, <1>5, <1>6, <1>7, <1>8 DEF LogInv

LEMMA ActionLetterLog ==
    ASSUME LogInv, CurrencyInv, Inv, NEW c \in Correspondences, ActionLetter(c)
    PROVE  LogInv'
  <1>1. /\ ccdCase'.version = ccdCase.version + 1
        /\ UNCHANGED <<pc, method, work, attempts, commits, readAt>>
    BY DEF ActionLetter, callVars, history
  <1>2. \A x \in Correspondences : Copies(ccdCase'.data, x) = Copies(ccdCase.data, x)
    BY ActionLetterKeepsCopies
  <1>3. WorkIsMerged'
    <2>1. \A x \in Correspondences : readAt[x] # ccdCase'.version
      BY <1>1 DEF CurrencyInv, WorkIsCurrent, Inv, TypeOK
    <2> QED BY <1>1, <2>1 DEF WorkIsMerged
  <1>4. NoSnapshots' /\ OneCallPerCaller' /\ CommitsCounted' /\ RecordedCounted'
    BY <1>1, <1>2 DEF LogInv, NoSnapshots, OneCallPerCaller, CommitsCounted, RecordedCounted
  <1> QED BY <1>3, <1>4 DEF LogInv

(***************************************************************************)
(* Every other step leaves the case alone; it moves at most one call, and  *)
(* none that has ended.                                                    *)
(***************************************************************************)
Quiet(c) ==
    \/ GeneratePdf(c) \/ MergePdfs(c) \/ UnguardedCallFails(c)
    \/ StorePdf(c) \/ ReadCase(c) \/ EventRejected(c)

LEMMA QuietMoves ==
    ASSUME Inv, NEW c \in Correspondences, Quiet(c)
    PROVE  /\ UNCHANGED <<ccdCase, method, attempts, commits>>
           /\ pc[c] \in Active /\ pc'[c] # "submit"
           /\ \A x \in Correspondences \ {c} :
                 pc'[x] = pc[x] /\ work'[x] = work[x] /\ readAt'[x] = readAt[x]
  <1>1. CASE StorePdf(c)
    <2> PICK answer \in UploadAnswers :
            \E lands \in MayHold(answer) : UploadAnswered(c, answer, lands)
      BY <1>1 DEF StorePdf
    <2> PICK lands \in MayHold(answer) : UploadAnswered(c, answer, lands)
      OBVIOUS
    <2>1. /\ pc[c] = "store"
          /\ UNCHANGED <<ccdCase, method, attempts, commits>>
      BY <1>1 DEF StorePdf, UploadAnswered, Throw
    <2>2. /\ pc'[c] # "submit"
          /\ \A x \in Correspondences \ {c} : pc'[x] = pc[x]
      BY DEF UploadAnswered, Throw, Goto, Inv, TypeOK
    <2>3. \A x \in Correspondences \ {c} : work'[x] = work[x] /\ readAt'[x] = readAt[x]
      BY DEF UploadAnswered, Throw, MergeIntoHeld, Inv, TypeOK
    <2> QED BY <2>1, <2>2, <2>3 DEF Active
  <1>2. CASE ReadCase(c)
    BY <1>2 DEF ReadCase, Goto, Inv, TypeOK, Active
  <1>3. CASE EventRejected(c)
    BY <1>3 DEF EventRejected, AttemptFails, Leave, Goto, Inv, TypeOK, Active
  <1>4. CASE GeneratePdf(c) \/ MergePdfs(c)
    BY <1>4 DEF GeneratePdf, MergePdfs, Throw, Goto, history, Inv, TypeOK, Active
  <1>5. CASE UnguardedCallFails(c)
    BY <1>5 DEF UnguardedCallFails, UnguardedPlace, Throw, Goto, history, Inv, TypeOK, Active
  <1> QED BY <1>1, <1>2, <1>3, <1>4, <1>5 DEF Quiet

LEMMA NextLog == Inv /\ CurrencyInv /\ LogInv /\ [Next]_vars => LogInv'
  <1> SUFFICES ASSUME Inv, CurrencyInv, LogInv, [Next]_vars PROVE LogInv'
    OBVIOUS
  <1>1. CASE UNCHANGED vars
    <2>1. UNCHANGED <<ccdCase, pc, method, work, attempts, commits, readAt>>
      BY <1>1 DEF vars, callVars, history
    <2> QED BY <2>1, OneCallKept, QuietLog
  <1>2. ASSUME NEW c \in Correspondences, Quiet(c) PROVE LogInv'
    <2>1. \A x \in Correspondences : pc'[x] \in Active => pc[x] \in Active
      BY <1>2, QuietMoves
    <2> QED BY <1>2, <2>1, QuietMoves, OneCallKept, QuietLog
  <1>3. ASSUME NEW c \in Correspondences, CallStep(c) PROVE LogInv'
    BY <1>2, <1>3, StartEventLog, EventCommittedLog DEF CallStep, Quiet
  <1>4. ASSUME NEW u \in Callers, CallerReads(u) \/ Crash(u) PROVE LogInv'
    <2>1. /\ UNCHANGED <<ccdCase, method, work, attempts, commits, readAt>>
          /\ \A x \in Correspondences : pc'[x] = pc[x] \/ pc'[x] = "crashed"
      BY <1>4 DEF CallerReads, Crash, callVars
    <2> QED BY <2>1, OneCallKept, QuietLog DEF Active
  <1> QED BY <1>1, <1>3, <1>4, BeginLog, ActionLetterLog DEF Next

-----------------------------------------------------------------------------
(* Steps of the log: what the refinement mapping makes of the state *)

LogOf  == [c \in Correspondences |-> Copies(ccdCase.data, c)]
OpenOf == {c \in Correspondences : pc[c] \notin Ended}

\* A step that leaves the case alone, and moves a call that has not ended.
LEMMA CallMoves ==
    ASSUME ccdCase' = ccdCase, NEW c \in Correspondences,
           \A x \in Correspondences \ {c} : pc'[x] = pc[x], pc[c] \notin Ended
    PROVE  LogOf' = LogOf /\ (OpenOf' = OpenOf \/ OpenOf' = OpenOf \ {c})
  <1>1. LogOf' = LogOf
    BY DEF LogOf
  <1>2. CASE pc'[c] \in Ended
    BY <1>1, <1>2 DEF OpenOf
  <1>3. CASE pc'[c] \notin Ended
    BY <1>1, <1>3 DEF OpenOf
  <1> QED BY <1>1, <1>2, <1>3

LEMMA CommitRecords ==
    ASSUME LogInv, CurrencyInv, Inv, NEW c \in Correspondences, EventCommitted(c)
    PROVE  \/ LogOf' = LogOf
           \/ /\ LogOf[c] < MaxAttempts
              /\ LogOf' = [LogOf EXCEPT ![c] = @ + 1]
  <1>1. ccdCase'.data = work[c] /\ pc[c] = "submit"
    BY CommitAddsItsEntry
  <1>2. \A x \in Correspondences :
           \/ Copies(work[c], x) = Copies(ccdCase.data, x)
           \/ x = c /\ Copies(work[c], x) = Copies(ccdCase.data, x) + 1
    BY CommitAddsItsEntry DEF AddsItsEntry
  <1>3. CASE Copies(work[c], c) = Copies(ccdCase.data, c)
    BY <1>1, <1>2, <1>3 DEF LogOf
  <1>4. CASE Copies(work[c], c) = Copies(ccdCase.data, c) + 1
    <2>1. LogOf' = [LogOf EXCEPT ![c] = @ + 1]
      BY <1>1, <1>2, <1>4 DEF LogOf
    <2>2. /\ Copies(ccdCase.data, c) \in Nat /\ commits[c] \in Nat
          /\ attempts[c] \in 0..MaxAttempts
      BY CopiesNumbers DEF Inv, TypeOK
    <2>3. Copies(ccdCase.data, c) <= commits[c] /\ commits[c] < attempts[c]
      BY <1>1 DEF LogInv, RecordedCounted, CommitsCounted
    <2>4. Copies(ccdCase.data, c) < MaxAttempts
      BY <2>2, <2>3, AttemptsAssumption
    <2> QED BY <2>1, <2>4 DEF LogOf
  <1> QED BY <1>2, <1>3, <1>4

LEMMA LogStep ==
    ASSUME LogInv, CurrencyInv, Inv, [Next]_vars
    PROVE  \/ UNCHANGED <<LogOf, OpenOf>>
           \/ \E c \in Correspondences :
                \/ /\ c \in OpenOf /\ LogOf[c] < MaxAttempts
                   /\ LogOf' = [LogOf EXCEPT ![c] = @ + 1]
                   /\ OpenOf' \in {OpenOf, OpenOf \ {c}}
                \/ OpenOf' = OpenOf \ {c} /\ UNCHANGED LogOf
  <1>1. CASE UNCHANGED vars
    BY <1>1 DEF vars, callVars, LogOf, OpenOf
  <1>2. ASSUME NEW c \in Correspondences, Begin(c) \/ Quiet(c) \/ StartEvent(c)
        PROVE  LogOf' = LogOf /\ (OpenOf' = OpenOf \/ OpenOf' = OpenOf \ {c})
    <2>1. /\ ccdCase' = ccdCase /\ pc[c] \notin Ended
          /\ \A x \in Correspondences \ {c} : pc'[x] = pc[x]
      BY <1>2, QuietMoves DEF Begin, StartEvent, Goto, Inv, TypeOK, Active, Ended
    <2> QED BY <2>1, CallMoves
  <1>3. ASSUME NEW c \in Correspondences, EventCommitted(c)
        PROVE  /\ c \in OpenOf
               /\ OpenOf' = OpenOf \/ OpenOf' = OpenOf \ {c}
    <2>1. /\ pc[c] = "submit"
          /\ \A x \in Correspondences \ {c} : pc'[x] = pc[x]
      BY <1>3 DEF EventCommitted, Succeed, AttemptFails, Leave, Goto, Inv, TypeOK
    <2>2. CASE pc'[c] \in Ended
      BY <2>1, <2>2 DEF OpenOf, Ended
    <2>3. CASE pc'[c] \notin Ended
      BY <2>1, <2>3 DEF OpenOf, Ended
    <2> QED BY <2>1, <2>2, <2>3 DEF OpenOf, Ended
  <1>4. ASSUME NEW c \in Correspondences, ActionLetter(c)
        PROVE  UNCHANGED <<LogOf, OpenOf>>
    <2>1. pc' = pc
      BY <1>4 DEF ActionLetter, callVars
    <2>2. \A x \in Correspondences : Copies(ccdCase'.data, x) = Copies(ccdCase.data, x)
      BY <1>4, ActionLetterKeepsCopies
    <2> QED BY <2>1, <2>2 DEF LogOf, OpenOf
  <1>5. ASSUME NEW u \in Callers, CallerReads(u) PROVE UNCHANGED <<LogOf, OpenOf>>
    BY <1>5 DEF CallerReads, callVars, LogOf, OpenOf
  <1>6. ASSUME NEW u \in Callers, Crash(u)
        PROVE  \E c \in Correspondences :
                  LogOf' = LogOf /\ (OpenOf' = OpenOf \/ OpenOf' = OpenOf \ {c})
    <2>1. PICK c \in Correspondences : CallerOf[c] = u /\ pc[c] \in Active
      BY <1>6 DEF Crash, IsIdle
    <2>2. \A x \in Correspondences \ {c} : pc'[x] = pc[x]
      BY <1>6, <2>1 DEF Crash, LogInv, OneCallPerCaller
    <2> QED BY <1>6, <2>1, <2>2, CallMoves DEF Crash, Active, Ended
  <1> QED BY <1>1, <1>2, <1>3, <1>4, <1>5, <1>6, CommitRecords
          DEF Next, CallStep, Quiet

(***************************************************************************)
(* Callers that use only the methods with a consumer implement the log of  *)
(* CorrespondenceLog, for any number of them: no entry goes away, a call   *)
(* adds its entry only while it is running, and at most once per attempt.  *)
(***************************************************************************)
THEOREM ConsumersImplementLog ==
    ASSUME \A c \in Correspondences : Methods[c] \cap SnapshotMethods = {}
    PROVE  Spec => ImplementsLog
  <1>1. Init => LogInv
    <2> SUFFICES ASSUME Init PROVE LogInv
      OBVIOUS
    <2>1. NoSnapshots /\ OneCallPerCaller /\ CommitsCounted /\ WorkIsMerged
      BY DEF Init, NoSnapshots, OneCallPerCaller, CommitsCounted, WorkIsMerged, Active
    <2>2. RecordedCounted
      BY EmptyDataHasNone DEF Init, RecordedCounted
    <2> QED BY <2>1, <2>2 DEF LogInv
  <1>2. Init => Log!Init
    BY EmptyDataHasNone DEF Init, Log!Init, Ended
  <1>3. LogInv /\ CurrencyInv /\ Inv /\ [Next]_vars =>
           [Log!Next]_<<[c \in Correspondences |-> Copies(ccdCase.data, c)],
                        {c \in Correspondences : pc[c] \notin Ended}>>
    BY LogStep DEF LogOf, OpenOf, Log!Next, Log!Record, Log!End
  <1>4. Spec => [](Inv /\ CurrencyInv)
    BY InitInv, InitCurrency, NextInv, NextCurrency, PTL DEF Spec
  <1>5. Spec => []LogInv
    BY <1>1, <1>4, NextLog, PTL DEF Spec
  <1> QED BY <1>2, <1>3, <1>4, <1>5, PTL DEF Spec, ImplementsLog, Log!Spec
=============================================================================
