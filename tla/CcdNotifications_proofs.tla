----------------------- MODULE CcdNotifications_proofs -----------------------
(***************************************************************************)
(* The safety of CcdNotifications, for any number of callers and calls,    *)
(* any choice of methods, and any number of attempts.  The case can only   *)
(* be as good as the data that calls write into it, and those are read     *)
(* from the case or from objects that callers hold.  The invariant thus    *)
(* asks the same of the three kinds of case data in the system.            *)
(***************************************************************************)
EXTENDS CcdNotifications, FiniteSetTheorems, SequenceTheorems, TLAPS
-----------------------------------------------------------------------------
(* The append-and-sort of all merges *)

(***************************************************************************)
(* What the sort of CorrespondenceLists returns, for every list: a         *)
(* permutation of it, newest first.  Rank numbers the entries of a list    *)
(* from 1 without a gap because it is injective (its predecessors grow     *)
(* strictly along Precedes) and a pigeonhole argument makes it surjective. *)
(***************************************************************************)

\* Precedes orders the indices of a list strictly and totally.
LEMMA PrecedesOrder ==
    ASSUME NEW s \in Seq(Correspondences),
           NEW i \in 1..Len(s), NEW j \in 1..Len(s), NEW k \in 1..Len(s)
    PROVE  /\ ~Precedes(s, i, i)
           /\ i # j => Precedes(s, i, j) \/ Precedes(s, j, i)
           /\ Precedes(s, i, j) /\ Precedes(s, j, k) => Precedes(s, i, k)
  <1>1. SentOn[s[i]] \in Int /\ SentOn[s[j]] \in Int /\ SentOn[s[k]] \in Int
    BY SentOnAssumption
  <1> QED BY <1>1 DEF Precedes

\* The rank of an index is a position of the list.
LEMMA RankType ==
    ASSUME NEW s \in Seq(Correspondences), NEW j \in 1..Len(s)
    PROVE  /\ IsFiniteSet(Predecessors(s, j))
           /\ Rank(s, j) \in 1..Len(s)
  <1> DEFINE others == (1..Len(s)) \ {j}
  <1>1. Len(s) \in Nat /\ IsFiniteSet(1..Len(s)) /\ Cardinality(1..Len(s)) = Len(s)
    BY FS_Interval, LenProperties, 1 \in Int
  <1>2. IsFiniteSet(others) /\ Cardinality(others) = Len(s) - 1
    BY <1>1, FS_RemoveElement
  <1>3. Predecessors(s, j) \subseteq others
    BY PrecedesOrder DEF Predecessors
  <1>4. /\ IsFiniteSet(Predecessors(s, j))
        /\ Cardinality(Predecessors(s, j)) <= Len(s) - 1
        /\ Cardinality(Predecessors(s, j)) \in Nat
    BY <1>2, <1>3, FS_Subset, FS_CardinalityType
  <1> QED BY <1>1, <1>4 DEF Rank

\* An index that precedes another has the smaller rank.
LEMMA RankGrows ==
    ASSUME NEW s \in Seq(Correspondences),
           NEW i \in 1..Len(s), NEW j \in 1..Len(s), Precedes(s, i, j)
    PROVE  Rank(s, i) < Rank(s, j)
  <1>1. Predecessors(s, i) \subseteq Predecessors(s, j)
    BY PrecedesOrder DEF Predecessors
  <1>2. i \in Predecessors(s, j) /\ i \notin Predecessors(s, i)
    BY PrecedesOrder DEF Predecessors
  <1>3. /\ IsFiniteSet(Predecessors(s, j))
        /\ Cardinality(Predecessors(s, i)) \in Nat
        /\ Cardinality(Predecessors(s, j)) \in Nat
    BY RankType, FS_CardinalityType
  <1>4. Cardinality(Predecessors(s, i)) < Cardinality(Predecessors(s, j))
    BY <1>1, <1>2, <1>3, FS_Subset
  <1> QED BY <1>3, <1>4 DEF Rank

\* Ranks number the indices of a list: each position is the rank of one index.
LEMMA RankBijection ==
    ASSUME NEW s \in Seq(Correspondences)
    PROVE  [j \in 1..Len(s) |-> Rank(s, j)] \in Bijection(1..Len(s), 1..Len(s))
  <1> DEFINE n == Len(s)
             r == [j \in 1..n |-> Rank(s, j)]
  <1>1. n \in Nat /\ IsFiniteSet(1..n)
    BY FS_Interval, LenProperties, 1 \in Int
  <1>2. r \in [1..n -> 1..n]
    BY RankType
  <1>3. ASSUME NEW i \in 1..n, NEW j \in 1..n, r[i] = r[j] PROVE i = j
    <2>1. Rank(s, i) \in Int /\ Rank(s, j) \in Int
      BY RankType
    <2>2. ~Precedes(s, i, j) /\ ~Precedes(s, j, i)
      BY <1>3, <2>1, RankGrows
    <2> QED BY <2>2, PrecedesOrder
  <1>4. r \in Injection(1..n, 1..n)
    BY <1>2, <1>3 DEF Injection, IsInjective
  <1>5. r \in Surjection(1..n, 1..n)
    BY <1>1, <1>4, FS_Injection
  <1> QED BY <1>4, <1>5 DEF Bijection

\* The index the sort takes an entry from exists and has the right rank.
LEMMA IndexAtRank ==
    ASSUME NEW s \in Seq(Correspondences), NEW p \in 1..Len(s)
    PROVE  IndexAt(s, p) \in 1..Len(s) /\ Rank(s, IndexAt(s, p)) = p
  <1>1. \E i \in 1..Len(s) : Rank(s, i) = p
    BY RankBijection DEF Bijection, Surjection
  <1> QED BY <1>1 DEF IndexAt

LEMMA IndexOfRank ==
    ASSUME NEW s \in Seq(Correspondences), NEW j \in 1..Len(s)
    PROVE  IndexAt(s, Rank(s, j)) = j
  <1>1. Rank(s, j) \in 1..Len(s)
    BY RankType
  <1>2. /\ IndexAt(s, Rank(s, j)) \in 1..Len(s)
        /\ Rank(s, IndexAt(s, Rank(s, j))) = Rank(s, j)
    BY <1>1, IndexAtRank
  <1> QED BY <1>2, RankBijection DEF Bijection, Injection, IsInjective

(***************************************************************************)
(* Sorting a list of correspondence gives a list of the same length with   *)
(* the same entries: no merge loses or invents one.                        *)
(***************************************************************************)
THEOREM SortIsPermutation ==
    ASSUME NEW s \in Seq(Correspondences)
    PROVE  /\ SortNewestFirst(s) \in Seq(Correspondences)
           /\ Len(SortNewestFirst(s)) = Len(s)
           /\ Range(SortNewestFirst(s)) = Range(s)
  <1> DEFINE n == Len(s)
             t == SortNewestFirst(s)
  <1>1. n \in Nat /\ s \in [1..n -> Correspondences]
    BY LenProperties
  <1>2. t = [p \in 1..n |-> s[IndexAt(s, p)]]
    BY DEF SortNewestFirst
  <1>3. t \in [1..n -> Correspondences]
    BY <1>1, <1>2, IndexAtRank
  <1>4. t \in Seq(Correspondences) /\ Len(t) = n
    BY <1>1, <1>3
  <1>5. ASSUME NEW p \in 1..n PROVE t[p] \in Range(s)
    BY <1>1, <1>2, IndexAtRank DEF Range
  <1>6. ASSUME NEW j \in 1..n PROVE s[j] \in Range(t)
    <2>1. Rank(s, j) \in 1..n /\ t[Rank(s, j)] = s[j]
      BY <1>2, RankType, IndexOfRank
    <2> QED BY <2>1, <1>3 DEF Range
  <1>7. DOMAIN s = 1..n /\ DOMAIN t = 1..n
    BY <1>1, <1>3
  <1>8. Range(t) = Range(s)
    BY <1>5, <1>6, <1>7 DEF Range
  <1> QED BY <1>4, <1>8

(***************************************************************************)
(* The sorted list is newest first, whatever the order it arrived in.      *)
(***************************************************************************)
THEOREM SortIsNewestFirst ==
    ASSUME NEW s \in Seq(Correspondences)
    PROVE  IsNewestFirst(SortNewestFirst(s))
  <1> DEFINE t == SortNewestFirst(s)
  <1>1. Len(t) = Len(s)
    BY SortIsPermutation
  <1> SUFFICES ASSUME NEW p \in 1..Len(s), NEW q \in 1..Len(s), p < q
               PROVE  SentOn[t[p]] >= SentOn[t[q]]
    BY <1>1 DEF IsNewestFirst
  <1> DEFINE i == IndexAt(s, p)
             j == IndexAt(s, q)
  <1>2. /\ i \in 1..Len(s) /\ Rank(s, i) = p
        /\ j \in 1..Len(s) /\ Rank(s, j) = q
    BY IndexAtRank
  <1>3. ~Precedes(s, j, i) /\ i # j
    <2>1. p \in Int /\ q \in Int
      OBVIOUS
    <2> HIDE DEF i, j
    <2> QED BY <1>2, <2>1, RankGrows
  <1>4. Precedes(s, i, j)
    <2> HIDE DEF i, j
    <2> QED BY <1>2, <1>3, PrecedesOrder
  <1>5. t[p] = s[i] /\ t[q] = s[j]
    BY DEF SortNewestFirst
  <1>6. SentOn[s[i]] \in Int /\ SentOn[s[j]] \in Int
    BY <1>2, SentOnAssumption
  <1> HIDE DEF i, j, t
  <1> QED BY <1>4, <1>5, <1>6 DEF Precedes

(***************************************************************************)
(* The sort keeps how often each correspondence occurs.                    *)
(***************************************************************************)
THEOREM SortKeepsOccurrences ==
    ASSUME NEW s \in Seq(Correspondences), NEW c
    PROVE  Occurrences(SortNewestFirst(s), c) = Occurrences(s, c)
  <1> DEFINE n == Len(s)
             t == SortNewestFirst(s)
             S == {i \in 1..n : s[i] = c}
             T == {p \in 1..n : t[p] = c}
             r == [j \in S |-> Rank(s, j)]
  <1>1. n \in Nat /\ Len(t) = n
    BY SortIsPermutation, LenProperties
  <1>2. t = [p \in 1..n |-> s[IndexAt(s, p)]]
    BY DEF SortNewestFirst
  <1>3. ASSUME NEW j \in S PROVE Rank(s, j) \in T
    BY <1>2, RankType, IndexOfRank
  <1>4. ASSUME NEW p \in T PROVE IndexAt(s, p) \in S /\ Rank(s, IndexAt(s, p)) = p
    BY <1>2, IndexAtRank
  <1>5. ASSUME NEW i \in S, NEW j \in S, Rank(s, i) = Rank(s, j) PROVE i = j
    BY <1>5, RankBijection DEF Bijection, Injection, IsInjective
  <1> HIDE DEF S, T
  <1>6. r \in Bijection(S, T)
    BY <1>3, <1>4, <1>5 DEF Bijection, Injection, IsInjective, Surjection
  <1>7. IsFiniteSet(S)
    <2>1. IsFiniteSet(1..n)
      BY <1>1, FS_Interval, 1 \in Int
    <2> QED BY <2>1, FS_Subset DEF S
  <1>8. Cardinality(S) = Cardinality(T)
    <2>1. ExistsBijection(S, T)
      BY <1>6 DEF ExistsBijection
    <2> QED BY <2>1, <1>7, FS_Bijection
  <1> QED BY <1>1, <1>8 DEF Occurrences, S, T

(***************************************************************************)
(* What a merge makes of a list: the new entries are added to the old ones *)
(* and the result is newest first.                                         *)
(***************************************************************************)
THEOREM AppendNewestFirstFacts ==
    ASSUME NEW s \in Seq(Correspondences), NEW new \in Seq(Correspondences)
    PROVE  /\ AppendNewestFirst(s, new) \in Seq(Correspondences)
           /\ Range(AppendNewestFirst(s, new)) = Range(s) \cup Range(new)
           /\ IsNewestFirst(AppendNewestFirst(s, new))
  <1>1. s \o new \in Seq(Correspondences)
    OBVIOUS
  <1>2. Range(s \o new) = Range(s) \cup Range(new)
    <2>1. /\ Len(s) \in Nat /\ Len(new) \in Nat
          /\ DOMAIN s = 1..Len(s) /\ DOMAIN new = 1..Len(new)
          /\ DOMAIN (s \o new) = 1..(Len(s) + Len(new))
      OBVIOUS
    <2>2. ASSUME NEW i \in 1..(Len(s) + Len(new))
          PROVE  (s \o new)[i] \in Range(s) \cup Range(new)
      <3>1. CASE i <= Len(s)
        <4>1. (s \o new)[i] = s[i] /\ i \in DOMAIN s
          BY <2>1, <3>1
        <4> QED BY <4>1 DEF Range
      <3>2. CASE i > Len(s)
        <4>1. (s \o new)[i] = new[i - Len(s)] /\ i - Len(s) \in DOMAIN new
          BY <2>1, <3>2
        <4> QED BY <4>1 DEF Range
      <3> QED BY <2>1, <3>1, <3>2
    <2>3. ASSUME NEW i \in DOMAIN s PROVE s[i] \in Range(s \o new)
      <3>1. (s \o new)[i] = s[i] /\ i \in DOMAIN (s \o new)
        BY <2>1
      <3> QED BY <3>1 DEF Range
    <2>4. ASSUME NEW i \in DOMAIN new PROVE new[i] \in Range(s \o new)
      <3>1. (s \o new)[i + Len(s)] = new[i] /\ i + Len(s) \in DOMAIN (s \o new)
        BY <2>1
      <3> QED BY <3>1 DEF Range
    <2> QED BY <2>1, <2>2, <2>3, <2>4 DEF Range
  <1> QED BY <1>1, <1>2, SortIsPermutation, SortIsNewestFirst DEF AppendNewestFirst
-----------------------------------------------------------------------------
(* The invariant *)

\* Case data whose entries all have a document, whose flag is up to date
\* and whose lists are in order.
AllLinked(d, links) == \A c \in RecordedIn(d) : links[c]
InOrder(d) == /\ IsNewestFirst(d.correspondence)
              /\ \A p \in Parties : IsNewestFirst(d.letters[p])
GoodData(d, links) ==
    AllLinked(d, links) /\ d.outstanding = AnyRequired(d) /\ InOrder(d)

GoodCopies == /\ GoodData(ccdCase.data, linked)
              /\ \A u \in Callers : GoodData(held[u], linked)
              /\ \A c \in Correspondences : GoodData(work[c], linked)

\* A link comes from the store, and is there only after the store's answer.
LinksExist ==
    \A c \in Correspondences :
        /\ linked[c] => c \in stored
        /\ pc[c] \in {"idle", "produce", "store"} => ~linked[c]
        /\ c \in damaged => method[c] \in AdjustmentMethods

\* A call that may start an event has an attempt left for it.
AttemptsLeft ==
    \A c \in Correspondences :
        /\ attempts[c] <= AttemptsOf(method[c])
        /\ pc[c] \in {"idle", "produce", "store", "read", "start"} =>
              attempts[c] < AttemptsOf(method[c])

Inv == TypeOK /\ GoodCopies /\ LinksExist /\ AttemptsLeft

-----------------------------------------------------------------------------
(* Case data *)

LEMMA EmptyDataIsGood ==
    ASSUME NEW links
    PROVE  EmptyData \in Data /\ GoodData(EmptyData, links)
  <1>1. EmptyData \in Data
    BY DEF EmptyData, Data
  <1>2. Range(<<>>) = {}
    BY DEF Range
  <1>3. LettersIn(EmptyData) = {} /\ RecordedIn(EmptyData) = {}
    BY <1>2 DEF LettersIn, RecordedIn, EmptyData
  <1>4. IsNewestFirst(<<>>)
    BY DEF IsNewestFirst
  <1>5. InOrder(EmptyData)
    BY <1>4 DEF InOrder, EmptyData
  <1> QED BY <1>1, <1>3, <1>5 DEF GoodData, AllLinked, AnyRequired, EmptyData

\* Links that appear later do not spoil case data.
LEMMA MoreLinks ==
    ASSUME NEW d \in Data, NEW links, NEW more, GoodData(d, links),
           \A c \in Correspondences : links[c] => more[c]
    PROVE  GoodData(d, more)
  <1>1. RecordedIn(d) \subseteq Correspondences
    BY DEF RecordedIn, LettersIn, Range, Data
  <1> QED BY <1>1 DEF GoodData, AllLinked

LEMMA NewEntriesFacts ==
    ASSUME NEW c \in Correspondences, NEW link \in BOOLEAN
    PROVE  /\ NewEntries(c, link) \in Seq(Correspondences)
           /\ Range(NewEntries(c, link)) = IF link THEN {c} ELSE {}
  <1>1. Range(<<c>>) = {c} /\ Range(<<>>) = {}
    BY DEF Range
  <1> QED BY <1>1 DEF NewEntries

LEMMA MergeCorrespondenceIsGood ==
    ASSUME NEW d \in Data, NEW links, GoodData(d, links),
           NEW new \in Seq(Correspondences), \A c \in Range(new) : links[c]
    PROVE  /\ MergeCorrespondence(d, new) \in Data
           /\ GoodData(MergeCorrespondence(d, new), links)
  <1> DEFINE e == MergeCorrespondence(d, new)
             list == AppendNewestFirst(d.correspondence, new)
  <1>1. d.correspondence \in Seq(Correspondences)
    BY DEF Data
  <1>2. /\ list \in Seq(Correspondences) /\ IsNewestFirst(list)
        /\ Range(list) = Range(d.correspondence) \cup Range(new)
    BY <1>1, AppendNewestFirstFacts
  <1>3. /\ e.correspondence = list /\ e.letters = d.letters
        /\ e.actioned = d.actioned /\ e.outstanding = d.outstanding
        /\ e \in Data
    BY <1>2 DEF MergeCorrespondence, Data
  <1>4. LettersIn(e) = LettersIn(d)
    BY <1>3 DEF LettersIn
  <1>5. RecordedIn(e) = RecordedIn(d) \cup Range(new)
    BY <1>2, <1>3, <1>4 DEF RecordedIn
  <1> HIDE DEF e
  <1>6. AllLinked(e, links)
    BY <1>5 DEF GoodData, AllLinked
  <1>7. e.outstanding = AnyRequired(e)
    BY <1>3, <1>4 DEF GoodData, AnyRequired
  <1>8. InOrder(e)
    BY <1>2, <1>3 DEF GoodData, InOrder
  <1> QED BY <1>3, <1>6, <1>7, <1>8 DEF GoodData, e

\* Recomputing the flag makes it agree, and touches nothing else.
LEMMA RecomputedIsGood ==
    ASSUME NEW d \in Data, NEW links, AllLinked(d, links), InOrder(d)
    PROVE  Recomputed(d) \in Data /\ GoodData(Recomputed(d), links)
  <1> DEFINE e == Recomputed(d)
  <1>1. AnyRequired(d) \in BOOLEAN
    BY DEF AnyRequired
  <1>2. /\ e.correspondence = d.correspondence /\ e.letters = d.letters
        /\ e.actioned = d.actioned /\ e.outstanding = AnyRequired(d)
        /\ e \in Data
    BY <1>1 DEF Recomputed, Data
  <1> HIDE DEF e
  <1>3. LettersIn(e) = LettersIn(d) /\ RecordedIn(e) = RecordedIn(d)
    BY <1>2 DEF LettersIn, RecordedIn
  <1>4. e.outstanding = AnyRequired(e)
    BY <1>2, <1>3 DEF AnyRequired
  <1>5. AllLinked(e, links) /\ InOrder(e)
    BY <1>2, <1>3 DEF AllLinked, InOrder
  <1> QED BY <1>2, <1>4, <1>5 DEF GoodData, e

LEMMA BuildCorrespondenceByPartyFacts ==
    ASSUME NEW d \in Data, NEW links, GoodData(d, links), NEW type,
           NEW new \in Seq(Correspondences), \A c \in Range(new) : links[c]
    PROVE  /\ BuildCorrespondenceByParty(d, new, type) \in Data
           /\ AllLinked(BuildCorrespondenceByParty(d, new, type), links)
           /\ InOrder(BuildCorrespondenceByParty(d, new, type))
  <1> DEFINE e == BuildCorrespondenceByParty(d, new, type)
             list == AppendNewestFirst(d.letters[type], new)
  <1>1. CASE type \notin Parties
    BY <1>1 DEF BuildCorrespondenceByParty, GoodData
  <1>2. CASE type \in Parties
    <2>1. d.letters \in [Parties -> Seq(Correspondences)]
      BY DEF Data
    <2>2. /\ list \in Seq(Correspondences) /\ IsNewestFirst(list)
          /\ Range(list) = Range(d.letters[type]) \cup Range(new)
      BY <1>2, <2>1, AppendNewestFirstFacts
    <2>3. /\ e.letters = [d.letters EXCEPT ![type] = list]
          /\ e.correspondence = d.correspondence
          /\ e.actioned = d.actioned /\ e.outstanding = d.outstanding
      BY <1>2 DEF BuildCorrespondenceByParty, Data
    <2>4. e.letters \in [Parties -> Seq(Correspondences)]
      BY <2>1, <2>2, <2>3
    <2>5. e \in Data
      BY <1>2, <2>1, <2>2 DEF BuildCorrespondenceByParty, Data
    <2> HIDE DEF e
    <2>6. \A p \in Parties : Range(e.letters[p]) \subseteq Range(d.letters[p]) \cup Range(new)
      BY <2>1, <2>2, <2>3
    <2>7. RecordedIn(e) \subseteq RecordedIn(d) \cup Range(new)
      BY <2>3, <2>6 DEF RecordedIn, LettersIn
    <2>8. AllLinked(e, links)
      BY <2>7 DEF GoodData, AllLinked
    <2>9. InOrder(e)
      BY <2>1, <2>2, <2>3 DEF GoodData, InOrder
    <2> QED BY <2>5, <2>8, <2>9 DEF e
  <1> QED BY <1>1, <1>2

(***************************************************************************)
(* What every method does to case data keeps it good, provided that the    *)
(* entry it adds is there only with a link.                                *)
(***************************************************************************)
LEMMA MergeIsGood ==
    ASSUME NEW d \in Data, NEW links, GoodData(d, links), NEW m,
           NEW c \in Correspondences, NEW link \in BOOLEAN, link => links[c]
    PROVE  Merge(d, c, m, link) \in Data /\ GoodData(Merge(d, c, m, link), links)
  <1> DEFINE new == NewEntries(c, link)
  <1>1. new \in Seq(Correspondences) /\ \A x \in Range(new) : links[x]
    BY NewEntriesFacts
  <1> HIDE DEF new
  <1>2. CASE m \in AdjustmentMethods
    <2>1. Merge(d, c, m, link) = Recomputed(BuildCorrespondenceByParty(d, new, LetterType[c]))
      BY <1>2 DEF Merge, MergeLetter, new
    <2> QED BY <1>1, <2>1, BuildCorrespondenceByPartyFacts, RecomputedIsGood
  <1>3. CASE m \notin AdjustmentMethods
    <2>1. Merge(d, c, m, link) = MergeCorrespondence(d, new)
      BY <1>3 DEF Merge, new
    <2> QED BY <1>1, <2>1, MergeCorrespondenceIsGood
  <1> QED BY <1>2, <1>3

-----------------------------------------------------------------------------
(* The invariant *)

LEMMA InitInv == Init => Inv
  <1> SUFFICES ASSUME Init PROVE Inv
    OBVIOUS
  <1> USE DEF Init
  <1>1. TypeOK
    BY EmptyDataIsGood, AttemptsAssumption DEF TypeOK
  <1>2. GoodCopies
    BY EmptyDataIsGood DEF GoodCopies
  <1>3. LinksExist
    BY DEF LinksExist
  <1>4. AttemptsLeft
    BY AttemptsAssumption DEF AttemptsLeft, AttemptsOf
  <1> QED BY <1>1, <1>2, <1>3, <1>4 DEF Inv

LEMMA CallerReadsInv ==
    ASSUME Inv, NEW u \in Callers, CallerReads(u) PROVE Inv'
  <1> USE DEF Inv, CallerReads, callVars, storeVars
  <1>1. TypeOK'
    BY DEF TypeOK
  <1>2. GoodCopies'
    BY DEF TypeOK, GoodCopies
  <1>3. LinksExist' /\ AttemptsLeft'
    BY DEF LinksExist, AttemptsLeft
  <1> QED BY <1>1, <1>2, <1>3

LEMMA ActionLetterInv ==
    ASSUME Inv, NEW c \in Correspondences, ActionLetter(c) PROVE Inv'
  <1> USE DEF Inv, ActionLetter, callVars, storeVars, history
  <1> DEFINE d == ccdCase.data
             e == [d EXCEPT !.actioned = @ \cup {c}]
  <1>1. d \in Data /\ GoodData(d, linked)
    BY DEF TypeOK, GoodCopies
  <1>2. /\ e \in Data /\ e.correspondence = d.correspondence
        /\ e.letters = d.letters
    BY <1>1 DEF Data
  <1> HIDE DEF e
  <1>3. AllLinked(e, linked) /\ InOrder(e)
    BY <1>1, <1>2 DEF GoodData, AllLinked, InOrder, RecordedIn, LettersIn
  <1>4. Recomputed(e) \in Data /\ GoodData(Recomputed(e), linked)
    BY <1>2, <1>3, RecomputedIsGood
  <1>5. ccdCase' = [version |-> ccdCase.version + 1, data |-> Recomputed(e)]
    BY DEF e
  <1>6. TypeOK'
    BY <1>4, <1>5 DEF TypeOK
  <1>7. GoodCopies'
    BY <1>4, <1>5 DEF GoodCopies
  <1>8. LinksExist' /\ AttemptsLeft'
    BY DEF LinksExist, AttemptsLeft
  <1> QED BY <1>6, <1>7, <1>8

LEMMA BeginInv ==
    ASSUME Inv, NEW c \in Correspondences, Begin(c) PROVE Inv'
  <1> USE DEF Inv, Begin, Goto, storeVars, history
  <1>1. TypeOK'
    BY DEF TypeOK, Active, Ended
  <1>2. GoodCopies'
    BY DEF GoodCopies
  <1>3. LinksExist'
    BY DEF TypeOK, LinksExist
  <1>4. AttemptsLeft'
    BY DEF TypeOK, AttemptsLeft
  <1> QED BY <1>1, <1>2, <1>3, <1>4

LEMMA GeneratePdfInv ==
    ASSUME Inv, NEW c \in Correspondences, GeneratePdf(c) PROVE Inv'
  <1> USE DEF Inv, GeneratePdf, Throw, Goto, storeVars, history
  <1>1. TypeOK'
    BY DEF TypeOK, Active, Ended
  <1>2. GoodCopies'
    BY DEF GoodCopies
  <1>3. LinksExist'
    BY DEF TypeOK, LinksExist
  <1>4. AttemptsLeft'
    BY DEF TypeOK, AttemptsLeft
  <1> QED BY <1>1, <1>2, <1>3, <1>4

LEMMA MergePdfsInv ==
    ASSUME Inv, NEW c \in Correspondences, MergePdfs(c) PROVE Inv'
  <1> USE DEF Inv, MergePdfs, Goto, history
  <1>1. TypeOK'
    BY DEF TypeOK, Active, Ended
  <1>2. GoodCopies'
    BY DEF GoodCopies
  <1>3. LinksExist'
    BY DEF TypeOK, LinksExist
  <1>4. AttemptsLeft'
    BY DEF TypeOK, AttemptsLeft
  <1> QED BY <1>1, <1>2, <1>3, <1>4

LEMMA UnguardedCallFailsInv ==
    ASSUME Inv, NEW c \in Correspondences, UnguardedCallFails(c) PROVE Inv'
  <1> USE DEF Inv, UnguardedCallFails, Throw, Goto, storeVars, history
  <1>1. TypeOK'
    BY DEF TypeOK, Active, Ended
  <1>2. GoodCopies'
    BY DEF GoodCopies
  <1>3. LinksExist'
    BY DEF TypeOK, LinksExist
  <1>4. AttemptsLeft'
    BY DEF TypeOK, AttemptsLeft
  <1> QED BY <1>1, <1>2, <1>3, <1>4

(***************************************************************************)
(* The one step that creates a link: it does so only for an upload that    *)
(* the store answered, so that the document is there.                      *)
(***************************************************************************)
LEMMA LinkMeansStored ==
    ASSUME NEW answer \in UploadAnswers, StoreDocument(SecureEnabled, answer) = "document"
    PROVE  answer = "uploaded" /\ MayHold(answer) = {TRUE}
  BY DEF UploadAnswers, Failures, StoreDocument, DmStore, SecureStore, MayHold

LEMMA StorePdfInv ==
    ASSUME Inv, NEW c \in Correspondences, StorePdf(c) PROVE Inv'
  <1> PICK answer \in UploadAnswers :
          \E lands \in MayHold(answer) : UploadAnswered(c, answer, lands)
    BY DEF StorePdf
  <1> PICK lands \in MayHold(answer) : UploadAnswered(c, answer, lands)
    OBVIOUS
  <1>1. pc[c] = "store" /\ UNCHANGED <<damaged, commits, heldAt>>
    BY DEF StorePdf
  <1> USE DEF Inv
  <1>2. CASE StoreDocument(SecureEnabled, answer) = "throws"
    <2>1. /\ pc' = [pc EXCEPT ![c] = "thrown"]
          /\ UNCHANGED <<ccdCase, held, method, linked, work, token, attempts,
                         result, faults, readAt>>
          /\ stored \subseteq stored' /\ stored' \subseteq Correspondences
      BY <1>2 DEF UploadAnswered, Throw, Goto, TypeOK
    <2>2. TypeOK'
      BY <1>1, <2>1 DEF TypeOK, Active, Ended
    <2>3. GoodCopies'
      BY <2>1 DEF GoodCopies
    <2>4. LinksExist'
      BY <1>1, <2>1 DEF TypeOK, LinksExist
    <2>5. AttemptsLeft'
      BY <1>1, <2>1 DEF TypeOK, AttemptsLeft
    <2> QED BY <2>2, <2>3, <2>4, <2>5
  <1>3. CASE StoreDocument(SecureEnabled, answer) # "throws"
    <2> DEFINE link == StoreDocument(SecureEnabled, answer) = "document"
               u == CallerOf[c]
               merged == Merge(held[u], c, method[c], link)
    <2>1. /\ link \in BOOLEAN
          /\ linked' = [linked EXCEPT ![c] = link]
          /\ faults' = [faults EXCEPT ![c] = IF link THEN @ ELSE @ \cup {"store"}]
          /\ pc' = [pc EXCEPT ![c] = IF method[c] = "letter" THEN "read" ELSE "start"]
          /\ UNCHANGED <<ccdCase, method, token, attempts, result>>
          /\ method[c] = "correspondence" => MergeIntoHeld(c, link)
          /\ method[c] # "correspondence" => UNCHANGED <<held, work, readAt>>
      BY <1>3 DEF UploadAnswered, Goto
    <2>2. stored \subseteq stored' /\ stored' \subseteq Correspondences
      BY DEF UploadAnswered, TypeOK
    <2>3. link => c \in stored'
      <3>1. ASSUME link PROVE lands
        <4>1. MayHold(answer) = {TRUE}
          BY <3>1, LinkMeansStored
        <4> QED BY <4>1
      <3>2. stored' = IF lands THEN stored \cup {c} ELSE stored
        BY DEF UploadAnswered
      <3> QED BY <3>1, <3>2
    <2> HIDE DEF link
    <2>4. /\ linked \in [Correspondences -> BOOLEAN]
          /\ linked' \in [Correspondences -> BOOLEAN] /\ linked'[c] = link
          /\ \A x \in Correspondences : linked[x] => linked'[x]
      BY <1>1, <2>1 DEF TypeOK, LinksExist
    <2>5. u \in Callers
      BY CallersAssumption
    <2>6. GoodData(ccdCase.data, linked') /\ ccdCase.data \in Data
      BY <2>4, MoreLinks DEF GoodCopies, TypeOK
    <2>7. \A v \in Callers : held[v] \in Data /\ GoodData(held[v], linked')
      BY <2>4, MoreLinks DEF GoodCopies, TypeOK
    <2>8. \A x \in Correspondences : work[x] \in Data /\ GoodData(work[x], linked')
      BY <2>4, MoreLinks DEF GoodCopies, TypeOK
    <2>9. merged \in Data /\ GoodData(merged, linked')
      BY <2>1, <2>4, <2>5, <2>7, MergeIsGood
    <2> HIDE DEF merged, u
    <2>10. /\ held' \in [Callers -> Data] /\ work' \in [Correspondences -> Data]
           /\ readAt' \in [Correspondences -> Nat]
           /\ \A v \in Callers : GoodData(held'[v], linked')
           /\ \A x \in Correspondences : GoodData(work'[x], linked')
      <3>1. CASE method[c] = "correspondence"
        <4>1. /\ held'   = [held EXCEPT ![u] = merged]
              /\ work'   = [work EXCEPT ![c] = merged]
              /\ readAt' = [readAt EXCEPT ![c] = heldAt[u]]
          BY <2>1, <3>1 DEF MergeIntoHeld, merged, u
        <4> QED BY <2>5, <2>7, <2>8, <2>9, <4>1 DEF TypeOK
      <3>2. CASE method[c] # "correspondence"
        BY <2>1, <2>7, <2>8, <3>2 DEF TypeOK
      <3> QED BY <3>1, <3>2
    <2>11. TypeOK'
      BY <1>1, <2>1, <2>2, <2>4, <2>10 DEF TypeOK, Active, Ended
    <2>12. GoodCopies'
      BY <2>1, <2>6, <2>10 DEF GoodCopies
    <2>13. LinksExist'
      BY <1>1, <2>1, <2>2, <2>3, <2>4 DEF TypeOK, LinksExist
    <2>14. AttemptsLeft'
      BY <1>1, <2>1 DEF TypeOK, AttemptsLeft
    <2> QED BY <2>11, <2>12, <2>13, <2>14
  <1> QED BY <1>2, <1>3

LEMMA ReadCaseInv ==
    ASSUME Inv, NEW c \in Correspondences, ReadCase(c) PROVE Inv'
  <1> USE DEF Inv, ReadCase, Goto, storeVars
  <1> DEFINE merged == Merge(ccdCase.data, c, method[c], linked[c])
  <1>1. merged \in Data /\ GoodData(merged, linked)
    BY MergeIsGood DEF TypeOK, GoodCopies
  <1>2. work' = [work EXCEPT ![c] = merged]
    OBVIOUS
  <1> HIDE DEF merged
  <1>3. TypeOK'
    BY <1>1, <1>2 DEF TypeOK, Active, Ended
  <1>4. GoodCopies'
    BY <1>1, <1>2 DEF TypeOK, GoodCopies
  <1>5. LinksExist'
    BY DEF TypeOK, LinksExist
  <1>6. AttemptsLeft'
    BY DEF TypeOK, AttemptsLeft
  <1> QED BY <1>3, <1>4, <1>5, <1>6

LEMMA AttemptsOfType ==
    ASSUME NEW m PROVE AttemptsOf(m) \in 1..MaxAttempts
  BY AttemptsAssumption DEF AttemptsOf

(***************************************************************************)
(* StartEvent counts the attempt: AttemptsLeft leaves room for it.         *)
(***************************************************************************)
LEMMA StartEventInv ==
    ASSUME Inv, NEW c \in Correspondences, StartEvent(c) PROVE Inv'
  <1> USE DEF Inv, StartEvent, Goto, storeVars
  <1> DEFINE merged == Merge(ccdCase.data, c, method[c], linked[c])
  <1>1. merged \in Data /\ GoodData(merged, linked)
    BY MergeIsGood DEF TypeOK, GoodCopies
  <1>2. /\ work' \in [Correspondences -> Data]
        /\ readAt' \in [Correspondences -> Nat]
        /\ \A x \in Correspondences : GoodData(work'[x], linked)
    <2>1. work' = work \/ work' = [work EXCEPT ![c] = merged]
      OBVIOUS
    <2>2. readAt' = readAt \/ readAt' = [readAt EXCEPT ![c] = ccdCase.version]
      OBVIOUS
    <2> HIDE DEF merged
    <2> QED BY <1>1, <2>1, <2>2 DEF TypeOK, GoodCopies
  <1> HIDE DEF merged
  <1>3. attempts[c] < AttemptsOf(method[c]) /\ attempts[c] \in Nat
    BY DEF AttemptsLeft, TypeOK
  <1>4. TypeOK'
    <2>1. attempts[c] + 1 \in 0..MaxAttempts
      <3>1. AttemptsOf(method[c]) \in 1..MaxAttempts
        BY AttemptsOfType
      <3> QED BY <1>3, <3>1, AttemptsAssumption
    <2>2. attempts' \in [Correspondences -> 0..MaxAttempts]
      BY <2>1 DEF TypeOK
    <2>3. pc' \in [Correspondences -> {"idle"} \cup Active \cup Ended]
      BY DEF TypeOK, Active
    <2>4. token' \in [Correspondences -> Nat]
      BY DEF TypeOK
    <2> QED BY <1>2, <2>2, <2>3, <2>4 DEF TypeOK
  <1>5. GoodCopies'
    BY <1>2 DEF GoodCopies
  <1>6. LinksExist'
    BY DEF TypeOK, LinksExist
  <1>7. AttemptsLeft'
    <2>1. /\ attempts' = [attempts EXCEPT ![c] = @ + 1] /\ method' = method
          /\ pc' = [pc EXCEPT ![c] = "submit"]
      OBVIOUS
    <2> QED BY <1>3, <2>1, AttemptsOfType, AttemptsAssumption DEF TypeOK, AttemptsLeft
  <1> QED BY <1>4, <1>5, <1>6, <1>7

\* How an attempt ends, for both steps that end one.
LEMMA AttemptEnds ==
    ASSUME Inv, NEW c \in Correspondences, Succeed(c) \/ AttemptFails(c),
           pc[c] = "submit", UNCHANGED <<method, linked, attempts, storeVars>>
    PROVE  /\ pc' \in [Correspondences -> {"idle"} \cup Active \cup Ended]
           /\ result' \in [Correspondences -> {"none", "data", "null", "void"}]
           /\ faults' \in [Correspondences -> SUBSET {"store", "ccd"}]
           /\ LinksExist' /\ AttemptsLeft'
  <1> USE DEF Succeed, AttemptFails, Leave, Goto, Updated, Swallowed
  <1>1. pc' \in [Correspondences -> {"idle"} \cup Active \cup Ended]
    BY DEF Inv, TypeOK, Active, Ended
  <1>2. result' \in [Correspondences -> {"none", "data", "null", "void"}]
    BY DEF Inv, TypeOK
  <1>3. faults' \in [Correspondences -> SUBSET {"store", "ccd"}]
    BY DEF Inv, TypeOK
  <1>4. LinksExist'
    BY DEF Inv, TypeOK, LinksExist, storeVars
  <1>5. AttemptsLeft'
    BY DEF Inv, TypeOK, AttemptsLeft
  <1> QED BY <1>1, <1>2, <1>3, <1>4, <1>5

LEMMA EventRejectedInv ==
    ASSUME Inv, NEW c \in Correspondences, EventRejected(c) PROVE Inv'
  <1>1. /\ pc[c] = "submit" /\ AttemptFails(c)
        /\ UNCHANGED <<ccdCase, held, method, linked, work, token, attempts,
                       storeVars, commits, readAt, heldAt>>
    BY DEF EventRejected
  <1>2. TypeOK'
    BY <1>1, AttemptEnds DEF Inv, TypeOK, storeVars
  <1>3. GoodCopies'
    BY <1>1 DEF Inv, GoodCopies
  <1> QED BY <1>1, <1>2, <1>3, AttemptEnds DEF Inv

LEMMA EventCommittedInv ==
    ASSUME Inv, NEW c \in Correspondences, EventCommitted(c) PROVE Inv'
  <1>1. /\ pc[c] = "submit" /\ (Succeed(c) \/ AttemptFails(c))
        /\ ccdCase' = [version |-> ccdCase.version + 1, data |-> work[c]]
        /\ commits' = [commits EXCEPT ![c] = @ + 1]
        /\ UNCHANGED <<held, method, linked, work, token, attempts,
                       storeVars, readAt, heldAt>>
    BY DEF EventCommitted
  <1>2. TypeOK'
    BY <1>1, AttemptEnds DEF Inv, TypeOK, storeVars
  <1>3. GoodCopies'
    BY <1>1 DEF Inv, GoodCopies
  <1> QED BY <1>1, <1>2, <1>3, AttemptEnds DEF Inv

LEMMA CrashInv ==
    ASSUME Inv, NEW u \in Callers, Crash(u) PROVE Inv'
  <1> USE DEF Inv, Crash, storeVars
  <1>1. TypeOK'
    BY DEF TypeOK, Ended
  <1>2. GoodCopies'
    BY DEF TypeOK, GoodCopies
  <1>3. LinksExist'
    BY DEF TypeOK, LinksExist
  <1>4. AttemptsLeft'
    BY DEF TypeOK, AttemptsLeft
  <1> QED BY <1>1, <1>2, <1>3, <1>4

LEMMA NextInv == Inv /\ [Next]_vars => Inv'
  <1> SUFFICES ASSUME Inv, [Next]_vars PROVE Inv'
    OBVIOUS
  <1>1. CASE UNCHANGED vars
    BY <1>1 DEF vars, callVars, storeVars, history, Inv, TypeOK, GoodCopies,
                LinksExist, AttemptsLeft
  <1>2. ASSUME NEW c \in Correspondences, Begin(c) PROVE Inv'
    BY <1>2, BeginInv
  <1>3. ASSUME NEW c \in Correspondences, CallStep(c) PROVE Inv'
    BY <1>3, GeneratePdfInv, MergePdfsInv, UnguardedCallFailsInv, StorePdfInv,
       ReadCaseInv, StartEventInv, EventRejectedInv, EventCommittedInv DEF CallStep
  <1>4. ASSUME NEW c \in Correspondences, ActionLetter(c) PROVE Inv'
    BY <1>4, ActionLetterInv
  <1>5. ASSUME NEW u \in Callers, CallerReads(u) \/ Crash(u) PROVE Inv'
    BY <1>5, CallerReadsInv, CrashInv
  <1> QED BY <1>1, <1>2, <1>3, <1>4, <1>5 DEF Next

THEOREM Invariance == Spec => []Inv
  BY InitInv, NextInv, PTL DEF Spec

-----------------------------------------------------------------------------
(* The properties *)

(***************************************************************************)
(* The state keeps its shape: in particular the attempts of a call stay    *)
(* within those its method has.                                            *)
(***************************************************************************)
THEOREM TypeCorrect == Spec => []TypeOK
  <1>1. Inv => TypeOK
    BY DEF Inv
  <1> QED BY <1>1, Invariance, PTL

LEMMA RecordedDocumentsInv == Inv => RecordedDocumentsExist
  <1> SUFFICES ASSUME Inv, NEW c \in RecordedIn(ccdCase.data)
               PROVE  c \in stored /\ (c \in damaged => method[c] \in AdjustmentMethods)
    BY DEF RecordedDocumentsExist
  <1>1. c \in Correspondences
    BY DEF Inv, TypeOK, RecordedIn, LettersIn, Range, Data
  <1>2. linked[c]
    BY DEF Inv, GoodCopies, GoodData, AllLinked
  <1> QED BY <1>1, <1>2 DEF Inv, LinksExist

(***************************************************************************)
(* No entry of the case links to a document that no store holds, and only  *)
(* a letter for reasonable adjustment may link to an incomplete one.       *)
(***************************************************************************)
THEOREM RecordedDocumentsSafe == Spec => []RecordedDocumentsExist
BY RecordedDocumentsInv, Invariance, PTL

(***************************************************************************)
(* The flag of outstanding letters agrees with the letters in the case.    *)
(***************************************************************************)
THEOREM OutstandingFlagSafe == Spec => []OutstandingFlagAgrees
  <1>1. Inv => OutstandingFlagAgrees
    BY DEF Inv, GoodCopies, GoodData, OutstandingFlagAgrees
  <1> QED BY <1>1, Invariance, PTL

(***************************************************************************)
(* The lists of the case are newest first.                                 *)
(***************************************************************************)
THEOREM ListsNewestFirstSafe == Spec => []ListsNewestFirst
  <1>1. Inv => ListsNewestFirst
    BY DEF Inv, GoodCopies, GoodData, InOrder, ListsNewestFirst
  <1> QED BY <1>1, Invariance, PTL

-----------------------------------------------------------------------------
(* Retries come to an end *)

\* The steps from each place of a call to its end, but for retries.
Distance == [idle |-> 5, produce |-> 4, store |-> 3, read |-> 2, start |-> 1, submit |-> 2]

\* The most steps a call can still take: two for each attempt it has left.
StepsLeft(c) ==
    IF pc[c] \in Ended THEN 0 ELSE 2 * (MaxAttempts - attempts[c]) + Distance[pc[c]]

\* Every step of a call brings it nearer to its end, and no step of others,
\* a crash included, takes it further away.
CallsAdvance ==
    [][\A c \in Correspondences :
          /\ StepsLeft(c)' <= StepsLeft(c)
          /\ CallStep(c) => StepsLeft(c)' < StepsLeft(c)]_vars

LEMMA StepsLeftType ==
    ASSUME TypeOK, NEW c \in Correspondences
    PROVE  StepsLeft(c) \in 0..(2 * MaxAttempts + 5)
  <1>1. /\ MaxAttempts \in Nat /\ attempts[c] \in Nat /\ attempts[c] <= MaxAttempts
        /\ pc[c] \in {"idle", "produce", "store", "read", "start", "submit"} \cup Ended
    BY AttemptsAssumption DEF TypeOK, Active
  <1>2. pc[c] \notin Ended => Distance[pc[c]] \in 0..5
    BY <1>1 DEF Distance
  <1> QED BY <1>1, <1>2 DEF StepsLeft

\* A move from one place to another, with a new attempt or without.
LEMMA CallMovesOn ==
    ASSUME TypeOK, NEW c \in Correspondences, pc[c] \in Active \cup {"idle"},
           \/ /\ attempts'[c] = attempts[c]
              /\ \/ pc'[c] \in Ended
                 \/ Distance[pc'[c]] < Distance[pc[c]] /\ pc'[c] \in Active
           \/ pc[c] = "start" /\ pc'[c] = "submit" /\ attempts'[c] = attempts[c] + 1
              /\ attempts[c] < MaxAttempts
    PROVE  StepsLeft(c)' < StepsLeft(c)
  <1> DEFINE room == MaxAttempts - attempts[c]
  <1>1. /\ MaxAttempts \in Nat /\ attempts[c] \in Nat /\ attempts[c] <= MaxAttempts
        /\ pc[c] \notin Ended
    BY AttemptsAssumption DEF TypeOK, Active, Ended
  <1>2. \A there \in Active \cup {"idle"} : Distance[there] \in 1..5 /\ there \notin Ended
    BY DEF Distance, Active, Ended
  <1>3. room \in Nat
    BY <1>1
  <1>4. StepsLeft(c) = 2 * room + Distance[pc[c]]
    BY <1>1 DEF StepsLeft
  <1>5. CASE pc'[c] \in Ended
    <2>1. StepsLeft(c)' = 0
      BY <1>5 DEF StepsLeft
    <2> HIDE DEF room
    <2> QED BY <1>2, <1>3, <1>4, <2>1
  <1>6. CASE attempts'[c] = attempts[c] /\ Distance[pc'[c]] < Distance[pc[c]] /\ pc'[c] \in Active
    <2>1. StepsLeft(c)' = 2 * room + Distance[pc'[c]]
      BY <1>2, <1>6 DEF StepsLeft
    <2> HIDE DEF room
    <2>2. Distance[pc'[c]] \in 1..5 /\ Distance[pc[c]] \in 1..5
      BY <1>2, <1>6
    <2> QED BY <1>3, <1>4, <1>6, <2>1, <2>2
  <1>7. CASE pc[c] = "start" /\ pc'[c] = "submit" /\ attempts'[c] = attempts[c] + 1
              /\ attempts[c] < MaxAttempts
    <2>1. StepsLeft(c)' = 2 * (room - 1) + 2
      BY <1>1, <1>7 DEF StepsLeft, Distance, Ended
    <2>2. StepsLeft(c) = 2 * room + 1
      BY <1>4, <1>7 DEF Distance
    <2> HIDE DEF room
    <2> QED BY <1>3, <2>1, <2>2
  <1> QED BY <1>5, <1>6, <1>7

LEMMA StepsDecrease ==
    ASSUME Inv, NEW c \in Correspondences, CallStep(c) \/ Begin(c)
    PROVE  /\ StepsLeft(c)' < StepsLeft(c)
           /\ \A x \in Correspondences \ {c} : pc'[x] = pc[x] /\ attempts'[x] = attempts[x]
  <1>0. TypeOK /\ pc \in [Correspondences -> {"idle"} \cup Active \cup Ended]
        /\ attempts \in [Correspondences -> 0..MaxAttempts]
    BY DEF Inv, TypeOK
  <1>1. \A x \in Correspondences \ {c} : pc'[x] = pc[x] /\ attempts'[x] = attempts[x]
    BY <1>0 DEF CallStep, Begin, GeneratePdf, MergePdfs, UnguardedCallFails, StorePdf,
       UploadAnswered, ReadCase, StartEvent, EventRejected, EventCommitted, AttemptFails,
       Succeed, Leave, Throw, Goto
  <1>2. pc[c] \in Active \cup {"idle"}
    BY <1>0 DEF CallStep, Begin, GeneratePdf, MergePdfs, UnguardedCallFails, StorePdf,
       ReadCase, StartEvent, EventRejected, EventCommitted, UnguardedPlace, Active
  <1>3. CASE Begin(c) \/ GeneratePdf(c) \/ MergePdfs(c) \/ UnguardedCallFails(c)
    <2>1. attempts'[c] = attempts[c] /\ (pc'[c] = "thrown" \/ (/\ pc'[c] \in Active
                                            /\ Distance[pc'[c]] < Distance[pc[c]]))
      BY <1>0, <1>3 DEF Begin, GeneratePdf, MergePdfs, UnguardedCallFails, Throw, Goto,
         Distance, Active
    <2> QED BY <1>0, <1>1, <1>2, <2>1, CallMovesOn DEF Ended
  <1>4. CASE StorePdf(c) \/ ReadCase(c)
    <2>1. attempts'[c] = attempts[c] /\ (pc'[c] = "thrown" \/ (/\ pc'[c] \in Active
                                            /\ Distance[pc'[c]] < Distance[pc[c]]))
      BY <1>0, <1>4 DEF StorePdf, UploadAnswered, ReadCase, Throw, Goto, Distance, Active
    <2> QED BY <1>0, <1>1, <1>2, <2>1, CallMovesOn DEF Ended
  <1>5. CASE StartEvent(c)
    <2>1. /\ pc[c] = "start" /\ pc'[c] = "submit" /\ attempts'[c] = attempts[c] + 1
      BY <1>0, <1>5 DEF StartEvent, Goto
    <2>2. attempts[c] < MaxAttempts
      BY <1>0, <2>1, AttemptsAssumption DEF Inv, TypeOK, AttemptsLeft, AttemptsOf
    <2> QED BY <1>0, <1>1, <1>2, <2>1, <2>2, CallMovesOn
  <1>6. CASE EventRejected(c) \/ EventCommitted(c)
    <2>1. /\ pc[c] = "submit" /\ attempts'[c] = attempts[c]
          /\ pc'[c] \in {"start", "returned", "thrown"}
      BY <1>0, <1>6 DEF EventRejected, EventCommitted, AttemptFails, Succeed, Leave, Goto
    <2>2. pc'[c] \in Ended \/ (Distance[pc'[c]] < Distance[pc[c]] /\ pc'[c] \in Active)
      BY <2>1 DEF Ended, Active, Distance
    <2> QED BY <1>0, <1>1, <1>2, <2>1, <2>2, CallMovesOn
  <1> QED BY <1>3, <1>4, <1>5, <1>6 DEF CallStep

(***************************************************************************)
(* Whatever CCD, the store and other callers do, a call comes to its end   *)
(* in at most 2 * MaxAttempts + 5 steps of its own, or ends in a crash: no *)
(* sequence of rejections and lost answers keeps the client retrying.      *)
(***************************************************************************)
THEOREM RetriesEnd ==
    Spec => /\ [](\A c \in Correspondences : StepsLeft(c) \in 0..(2 * MaxAttempts + 5))
            /\ CallsAdvance
  <1>1. Inv => \A c \in Correspondences : StepsLeft(c) \in 0..(2 * MaxAttempts + 5)
    BY StepsLeftType DEF Inv
  <1>2. Inv /\ [Next]_vars =>
           [\A c \in Correspondences :
               /\ StepsLeft(c)' <= StepsLeft(c)
               /\ CallStep(c) => StepsLeft(c)' < StepsLeft(c)]_vars
    <2> SUFFICES ASSUME Inv, [Next]_vars, NEW c \in Correspondences, ~ UNCHANGED vars
                 PROVE  /\ StepsLeft(c)' <= StepsLeft(c)
                        /\ CallStep(c) => StepsLeft(c)' < StepsLeft(c)
      OBVIOUS
    <2>0. Inv'
      BY NextInv
    <2>1. StepsLeft(c) \in Nat /\ StepsLeft(c)' \in Nat
      <3>1. StepsLeft(c) \in 0..(2 * MaxAttempts + 5)
        BY StepsLeftType DEF Inv
      <3>2. StepsLeft(c)' \in Nat
        <4>1. /\ MaxAttempts \in Nat /\ attempts'[c] \in Nat /\ attempts'[c] <= MaxAttempts
              /\ pc'[c] \in {"idle", "produce", "store", "read", "start", "submit"} \cup Ended
          BY <2>0, AttemptsAssumption DEF Inv, TypeOK, Active
        <4>2. pc'[c] \notin Ended => Distance[pc'[c]] \in 0..5
          BY <4>1 DEF Distance
        <4> QED BY <4>1, <4>2 DEF StepsLeft
      <3> QED BY <3>1, <3>2
    <2>2. CallStep(c) => StepsLeft(c)' < StepsLeft(c)
      BY StepsDecrease
    <2>3. ASSUME pc'[c] = pc[c], attempts'[c] = attempts[c]
          PROVE  StepsLeft(c)' = StepsLeft(c)
      BY <2>3 DEF StepsLeft
    <2>4. ASSUME NEW x \in Correspondences, CallStep(x) \/ Begin(x)
          PROVE  StepsLeft(c)' <= StepsLeft(c)
      <3>1. CASE x = c
        BY <2>1, <2>4, <3>1, StepsDecrease
      <3>2. CASE x # c
        BY <2>1, <2>3, <2>4, <3>2, StepsDecrease
      <3> QED BY <3>1, <3>2
    <2>5. ASSUME \/ \E x \in Correspondences : ActionLetter(x)
                 \/ \E u \in Callers : CallerReads(u)
          PROVE  StepsLeft(c)' <= StepsLeft(c)
      <3>1. pc' = pc /\ attempts' = attempts
        BY <2>5 DEF ActionLetter, CallerReads, callVars
      <3> QED BY <2>1, <2>3, <3>1
    <2>6. ASSUME NEW u \in Callers, Crash(u) PROVE StepsLeft(c)' <= StepsLeft(c)
      <3>1. attempts' = attempts /\ (pc'[c] = "crashed" \/ pc'[c] = pc[c])
        BY <2>6 DEF Crash
      <3>2. CASE pc'[c] = "crashed"
        <4>1. StepsLeft(c)' = 0
          BY <3>2 DEF StepsLeft, Ended
        <4> QED BY <2>1, <4>1
      <3>3. CASE pc'[c] = pc[c]
        BY <2>1, <2>3, <3>1, <3>3
      <3> QED BY <3>1, <3>2, <3>3
    <2> QED BY <2>2, <2>4, <2>5, <2>6 DEF Next
  <1> QED BY <1>1, <1>2, Invariance, PTL DEF Spec, CallsAdvance
=============================================================================
