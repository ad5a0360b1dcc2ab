------------------------ MODULE EvidenceUpload_proofs ------------------------
(***************************************************************************)
(* The safety of the upload page, for any number of files, any limit on    *)
(* parallel uploads and any number of clicks.  What the scripts keep in a  *)
(* page is described by PageInv, which every function of the scripts must  *)
(* leave true of the page it returns; the rest relates the page to what is *)
(* under way to the server and back.                                       *)
(***************************************************************************)
EXTENDS EvidenceUpload, FiniteSetTheorems, SequenceTheorems, WellFoundedInduction, TLAPS

Statuses == {"none", "queued", "uploading", "success", "error"}
Page == [status : [Files -> Statuses], files : Seq(Files),
         timers : Seq({"processQueue", "queuecomplete"}), bar : BOOLEAN,
         rows : SUBSET Row, count : Int, empty : BOOLEAN, overtaken : SUBSET Files]

\* The queue's list has the files that were chosen, each once.
ShapeOK(p) ==
    /\ p \in Page
    /\ IsInjective(p.files) /\ Range(p.files) = Files \ InStatus(p, "none")

QueueOK(p) ==
    /\ Cardinality(Uploading(p)) <= ParallelUploads
    /\ InStatus(p, "queued") # {} =>
          Cardinality(Uploading(p)) = ParallelUploads \/ Pending(p, "processQueue")

\* While a queuecomplete is pending, whatever uploads was started after it.
BarShown(p) ==
    /\ p.bar \/ Uploading(p) \subseteq p.overtaken
    /\ Pending(p, "queuecomplete") => Uploading(p) \subseteq p.overtaken

\* A progress bar that is shown will be hidden.
BarWillHide(p) ==
    p.bar => Uploading(p) # {} \/ InStatus(p, "queued") # {} \/ Pending(p, "queuecomplete")

\* A file that has not come to an end has the row it was given when chosen.
RowsOK(p) ==
    \A f \in Files :
        /\ p.status[f] \in {"queued", "uploading"} => <<f, "chosen">> \in p.rows
        /\ <<f, "chosen">> \in p.rows => p.status[f] # "none"

\* n rows were counted off though they had gone before.
MessageOK(p, n) ==
    /\ p.count + n = Cardinality(p.rows)
    /\ p.rows = {} /\ p.files # <<>> => p.empty
    /\ p.empty /\ p.rows # {} => n > 0

PageInv(p, n) ==
    ShapeOK(p) /\ QueueOK(p) /\ BarShown(p) /\ BarWillHide(p) /\ RowsOK(p) /\ MessageOK(p, n)

ServerInv ==
    /\ stored \subseteq Files \cup Before
    /\ upload \in [Files -> {"none", "sent", "kept"}]
    /\ \A f \in Files : upload[f] = "none" <=> page.status[f] # "uploading"
    /\ listing.state = "asked" => listing.files = {}
    /\ listing \in [state : {"asked", "listed", "done"}, files : SUBSET (Files \cup Before)]
    /\ deletes \in [Row -> Nat] /\ again \in Nat

\* A file that is being deleted has been uploaded, and will not be again; a
\* row of the listing is there once the listing is.
DeletesInv ==
    \A row \in Row :
        /\ deletes[row] > 0 /\ row[2] = "chosen" => page.status[row[1]] = "success"
        /\ row[2] = "restored" /\ (deletes[row] > 0 \/ row \in page.rows) => listing.state = "done"

\* The row that goes with a stored file.
StoredInv ==
    /\ \A f \in stored \cap Files : <<f, "chosen">> \in page.rows
    /\ listing.state = "done" /\ Before \subseteq listing.files =>
          \A f \in stored \cap Before : <<f, "restored">> \in page.rows

IInv == PageInv(page, again) /\ ServerInv /\ DeletesInv /\ StoredInv

\* What OldestFirst says of one page and a later one, for any number of steps
\* between them: the queue's list of files only grows at its end.
InOrder(p, q) ==
    /\ \A i \in DOMAIN p.files : i \in DOMAIN q.files /\ q.files[i] = p.files[i]
    /\ \A f \in Files : Onward(p.status[f], q.status[f])
    /\ \A f \in Files : p.status[f] = "queued" /\ q.status[f] # "queued" =>
          \A g \in AheadOf(p, f) : q.status[g] # "queued"

\* What one page and a later one have in common, unless a row was deleted or
\* restored in between.
Follows(p, q) ==
    /\ InOrder(p, q)
    /\ \A f \in Files : p.status[f] = "success" => q.status[f] = "success"
    /\ p.rows \subseteq q.rows
    /\ \A row \in q.rows : row \in p.rows \/ row[2] = "chosen"
-----------------------------------------------------------------------------
(* Folds: the files of a selection, and of a listing *)

\* Every set of numbers that is not empty has a least element.
LEMMA LeastNumber ==
    ASSUME NEW T \in SUBSET Nat, T # {}
    PROVE  \E n \in T : \A m \in T : n <= m
<1> DEFINE Less == {ss \in Nat \X Nat : ss[1] < ss[2]}
<1>1. IsWellFoundedOn(Less, Nat)
  BY NatLessThanWellFounded DEF OpToRel
<1>2. PICK n \in T : \A m \in T : <<m, n>> \notin Less
  BY <1>1, WFMin
<1>3. ASSUME NEW m \in T PROVE n <= m
  <2>1. ~(m < n)
    BY <1>2
  <2> QED BY <2>1
<1> QED BY <1>3

\* One step of the fold of AddFile, by the last index of a set of indices.
FoldStep(p, s, h, t) == IF t = {} THEN p ELSE AddFile(h[t \ {Max(t)}], s[Max(t)])
IsFold(p, s, n, h) == h = [t \in SUBSET (1..n) |-> FoldStep(p, s, h, t)]

LEMMA MaxOfIndices ==
    ASSUME NEW n \in Nat, NEW t \in SUBSET (1..n), t # {}
    PROVE  /\ Max(t) \in t /\ \A i \in t : i <= Max(t)
           /\ \A i \in t : (\A j \in t : j <= i) => i = Max(t)
<1> DEFINE bounds == {m \in Nat : \A i \in t : i <= m}
<1>1. bounds \in SUBSET Nat /\ n \in bounds
  OBVIOUS
<1>2. PICK m \in bounds : \A k \in bounds : m <= k
  BY <1>1, LeastNumber
<1>3. m \in t
  <2>1. SUFFICES ASSUME m \notin t PROVE FALSE
    OBVIOUS
  <2>2. m - 1 \in Nat /\ \A i \in t : i <= m - 1
    <3>1. PICK x \in t : TRUE
      OBVIOUS
    <3>2. x \in Nat /\ x >= 1 /\ x <= m /\ m \in Nat
      BY <1>2
    <3> QED BY <1>2, <2>1, <3>2
  <2> QED BY <1>2, <2>2
<1>4. \E x \in t : \A y \in t : x >= y
  BY <1>2, <1>3
<1>5. Max(t) \in t /\ \A y \in t : Max(t) >= y
  BY <1>4 DEF Max
<1>6. ASSUME NEW i \in t, \A j \in t : j <= i PROVE i = Max(t)
  <2>1. \A x \in t : x \in Int
    OBVIOUS
  <2>2. Max(t) <= i
    BY <1>5, <1>6
  <2>3. Max(t) >= i
    BY <1>5
  <2>4. Max(t) \in Int /\ i \in Int
    BY <1>5, <2>1
  <2> QED BY <2>2, <2>3, <2>4
<1> QED BY <1>5, <1>6

LEMMA FoldExists ==
    ASSUME NEW p, NEW s, NEW n \in Nat
    PROVE  \E h : IsFold(p, s, n, h)
<1> DEFINE T == {k \in Nat : ~ \E h : IsFold(p, s, k, h)}
<1> SUFFICES ASSUME T # {} PROVE FALSE
  OBVIOUS
<1>1. PICK k \in T : \A m \in T : k <= m
  BY LeastNumber
<1>2. k # 0
  <2>1. IsFold(p, s, 0, [t \in SUBSET (1..0) |-> p])
    <3>1. SUBSET (1..0) = {{}}
      OBVIOUS
    <3> QED BY <3>1 DEF IsFold, FoldStep
  <2> QED BY <1>1, <2>1
<1>3. k - 1 \in Nat /\ k - 1 \notin T
  BY <1>1, <1>2
<1>4. PICK h : IsFold(p, s, k - 1, h)
  BY <1>3
<1> DEFINE g == [t \in SUBSET (1..k) |-> IF k \in t THEN AddFile(h[t \ {k}], s[k]) ELSE h[t]]
<1>5. ASSUME NEW t \in SUBSET (1..k) PROVE g[t] = FoldStep(p, s, g, t)
  <2>1. CASE k \in t
    <3>1. Max(t) = k
      BY <2>1, MaxOfIndices
    <3>2. t \ {k} \in SUBSET (1..k) /\ k \notin t \ {k} /\ t # {}
      BY <2>1
    <3>3. g[t \ {k}] = h[t \ {k}]
      BY <3>2
    <3> QED BY <2>1, <3>1, <3>2, <3>3 DEF FoldStep
  <2>2. CASE k \notin t
    <3>1. t \in SUBSET (1..(k-1))
      BY <1>1, <2>2
    <3>2. g[t] = FoldStep(p, s, h, t)
      BY <1>4, <2>2, <3>1 DEF IsFold
    <3>3. CASE t = {}
      BY <3>2, <3>3 DEF FoldStep
    <3>4. CASE t # {}
      <4>1. t \ {Max(t)} \in SUBSET (1..k) /\ k \notin t \ {Max(t)}
        BY <2>2
      <4>2. g[t \ {Max(t)}] = h[t \ {Max(t)}]
        BY <4>1
      <4> QED BY <3>2, <3>4, <4>2 DEF FoldStep
    <3> QED BY <3>3, <3>4
  <2> QED BY <2>1, <2>2
<1>6. IsFold(p, s, k, g)
  <2> DEFINE e == [t \in SUBSET (1..k) |-> FoldStep(p, s, g, t)]
  <2>1. \A t \in SUBSET (1..k) : g[t] = e[t]
    BY <1>5
  <2>2. g = e
    BY <2>1
  <2> HIDE DEF g
  <2> QED BY <2>2 DEF IsFold
<1> QED BY <1>1, <1>6

LEMMA FoldIsChosen ==
    ASSUME NEW p, NEW s \in Seq(Files)
    PROVE  FoldLeft(AddFile, p, s) = (CHOOSE h : IsFold(p, s, Len(s), h))[1..Len(s)]
<1>1. DOMAIN s = 1..Len(s)
  OBVIOUS
<1>2. FoldLeft(AddFile, p, s) = (CHOOSE h : h = [t \in SUBSET (DOMAIN s) |-> 
                  IF t = {} THEN p ELSE AddFile(h[t \ {Max(t)}], s[Max(t)])])[DOMAIN s]
  BY DEF FoldLeft, MapThenFoldSet
<1> QED BY <1>1, <1>2 DEF IsFold, FoldStep

(***************************************************************************)
(* The fold of AddFile adds the files of the list one by one.              *)
(***************************************************************************)
LEMMA FoldOfAddFile ==
    ASSUME NEW p, NEW s \in Seq(Files)
    PROVE  \E g : /\ g[0] = p
                  /\ \A k \in 1..Len(s) : g[k] = AddFile(g[k - 1], s[k])
                  /\ FoldLeft(AddFile, p, s) = g[Len(s)]
<1> DEFINE n == Len(s)
           h == CHOOSE h : IsFold(p, s, n, h)
           g == [k \in 0..n |-> h[1..k]]
<1>0. n \in Nat
  OBVIOUS
<1>1. IsFold(p, s, n, h)
  BY <1>0, FoldExists
<1>2. FoldLeft(AddFile, p, s) = h[1..n]
  BY FoldIsChosen
<1> HIDE DEF h, n
<1>3. \A t \in SUBSET (1..n) : h[t] = FoldStep(p, s, h, t)
  BY <1>1 DEF IsFold
<1>4. g[0] = p
  <2>1. 1..0 = {} /\ 0 \in 0..n
    BY <1>0
  <2>2. h[{}] = p
    BY <1>3 DEF FoldStep
  <2> QED BY <2>1, <2>2
<1>5. ASSUME NEW k \in 1..n PROVE g[k] = AddFile(g[k - 1], s[k])
  <2>1. /\ k \in Nat /\ k \in 1..k /\ \A j \in 1..k : j <= k
        /\ k \in 0..n /\ k - 1 \in 0..n
    BY <1>0
  <2>4. 1..k \in SUBSET (1..n) /\ (1..k) \ {k} = 1..(k - 1)
    BY <1>0, <2>1
  <2>2. Max(1..k) = k
    BY <1>0, <2>1, <2>4, MaxOfIndices
  <2>3. h[1..k] = AddFile(h[1..(k - 1)], s[k])
    BY <1>3, <2>1, <2>2, <2>4 DEF FoldStep
  <2> QED BY <2>1, <2>3
<1>6. n \in 0..n
  BY <1>0
<1> QED BY <1>2, <1>4, <1>5, <1>6 DEF n

(***************************************************************************)
(* The answer to the listing makes one row of every file, and counts them. *)
(***************************************************************************)
Restored(p, S) ==
    [p EXCEPT !.rows = @ \cup (S \X {"restored"}), !.count = @ + Cardinality(S),
              !.empty = @ /\ S = {}]

RestoreStep(p, h, t) ==
    IF t = {} THEN p
    ELSE LET x == CHOOSE x \in t : TRUE IN AddedFile(h[t \ {x}], <<x, "restored">>)

LEMMA RestoredGrows ==
    ASSUME NEW p \in Page, NEW t, IsFiniteSet(t), NEW x \in t
    PROVE  AddedFile(Restored(p, t \ {x}), <<x, "restored">>) = Restored(p, t)
<1> DEFINE q == Restored(p, t \ {x})
<1>1. /\ Cardinality(t) \in Nat /\ Cardinality(t \ {x}) \in Nat
      /\ Cardinality(t \ {x}) = Cardinality(t) - 1
  <2>1. Cardinality(t) \in Nat
    BY FS_CardinalityType
  <2>2. IsFiniteSet(t \ {x}) /\ Cardinality(t \ {x}) = Cardinality(t) - 1
    BY FS_RemoveElement
  <2>3. Cardinality(t \ {x}) \in Nat
    BY <2>2, FS_CardinalityType
  <2> QED BY <2>1, <2>2, <2>3
<1>2. (p.rows \cup ((t \ {x}) \X {"restored"})) \cup {<<x, "restored">>}
         = p.rows \cup (t \X {"restored"})
  OBVIOUS
<1>3. q = [p EXCEPT !.rows = p.rows \cup ((t \ {x}) \X {"restored"}),
                    !.count = p.count + Cardinality(t \ {x}),
                    !.empty = p.empty /\ t \ {x} = {}]
  BY DEF Restored
<1>4. (p.count + Cardinality(t \ {x})) + 1 = p.count + Cardinality(t)
  BY <1>1 DEF Page
<1>5. AddedFile(q, <<x, "restored">>)
         = [p EXCEPT !.rows = (p.rows \cup ((t \ {x}) \X {"restored"})) \cup {<<x, "restored">>},
                     !.count = (p.count + Cardinality(t \ {x})) + 1,
                     !.empty = FALSE]
  BY <1>3 DEF AddedFile, Page
<1>6. Restored(p, t) = [p EXCEPT !.rows = p.rows \cup (t \X {"restored"}),
                                 !.count = p.count + Cardinality(t),
                                 !.empty = FALSE]
  BY DEF Restored
<1> QED BY <1>2, <1>4, <1>5, <1>6

LEMMA RestoreFold ==
    ASSUME NEW p \in Page, NEW S, IsFiniteSet(S)
    PROVE  FoldSet(LAMBDA f, q : AddedFile(q, <<f, "restored">>), p, S) = Restored(p, S)
<1> DEFINE IsRestore(h) == h = [t \in SUBSET S |-> RestoreStep(p, h, t)]
           h == CHOOSE h : IsRestore(h)
           R == [t \in SUBSET S |-> Restored(p, t)]
<1>1. FoldSet(LAMBDA f, q : AddedFile(q, <<f, "restored">>), p, S) = h[S]
  BY DEF FoldSet, MapThenFoldSet, RestoreStep
<1>2. Restored(p, {}) = p
  <2>1. /\ p.rows \cup ({} \X {"restored"}) = p.rows /\ p.count + Cardinality({}) = p.count
        /\ (p.empty /\ {} = {}) = p.empty
    BY FS_EmptySet DEF Page
  <2>2. Restored(p, {}) = [p EXCEPT !.rows = p.rows, !.count = p.count, !.empty = p.empty]
    BY <2>1 DEF Restored
  <2> QED BY <2>2 DEF Page
<1>3. \A t \in SUBSET S : IsFiniteSet(t)
  BY FS_Subset
<1>4. ASSUME NEW t \in SUBSET S, NEW g, t # {},
             \A x \in t : g[t \ {x}] = Restored(p, t \ {x})
      PROVE  RestoreStep(p, g, t) = Restored(p, t)
  <2> DEFINE x == CHOOSE x \in t : TRUE
  <2>1. x \in t
    BY <1>4
  <2>2. RestoreStep(p, g, t) = AddedFile(g[t \ {x}], <<x, "restored">>)
    BY <1>4 DEF RestoreStep
  <2> HIDE DEF x
  <2> QED BY <1>3, <1>4, <2>1, <2>2, RestoredGrows
<1>5. IsRestore(R)
  <2>1. ASSUME NEW t \in SUBSET S PROVE R[t] = RestoreStep(p, R, t)
    <3>1. CASE t = {}
      BY <1>2, <3>1 DEF RestoreStep
    <3>2. CASE t # {}
      <4>1. \A x \in t : R[t \ {x}] = Restored(p, t \ {x})
        OBVIOUS
      <4> HIDE DEF R
      <4>2. RestoreStep(p, R, t) = Restored(p, t)
        BY <1>4, <3>2, <4>1
      <4> QED BY <4>2 DEF R
    <3> QED BY <3>1, <3>2
  <2> QED BY <2>1
<1>6. IsRestore(h)
  BY <1>5
<1> HIDE DEF h
<1>7. ASSUME NEW t \in SUBSET S PROVE h[t] = Restored(p, t)
  <2> DEFINE wrong == {t1 \in SUBSET S : h[t1] # Restored(p, t1)}
             sizes == {Cardinality(t1) : t1 \in wrong}
  <2> SUFFICES ASSUME wrong # {} PROVE FALSE
    OBVIOUS
  <2>1. sizes \in SUBSET Nat /\ sizes # {}
    BY <1>3, FS_CardinalityType
  <2>2. PICK n \in sizes : \A m \in sizes : n <= m
    BY <2>1, LeastNumber
  <2>3. PICK w \in wrong : Cardinality(w) = n
    OBVIOUS
  <2>4. CASE w = {}
    BY <1>2, <1>6, <2>3, <2>4 DEF RestoreStep
  <2>5. CASE w # {}
    <3>1. ASSUME NEW x \in w PROVE h[w \ {x}] = Restored(p, w \ {x})
      <4>1. Cardinality(w \ {x}) = Cardinality(w) - 1 /\ Cardinality(w) \in Nat
        BY <1>3, FS_RemoveElement, FS_CardinalityType
      <4>2. Cardinality(w \ {x}) \notin sizes
        BY <2>2, <2>3, <4>1
      <4> QED BY <4>2
    <3>2. RestoreStep(p, h, w) = Restored(p, w)
      BY <1>4, <2>5, <3>1
    <3> QED BY <1>6, <2>3, <3>2
  <2> QED BY <2>4, <2>5
<1> QED BY <1>1, <1>7
-----------------------------------------------------------------------------
(* The queue *)

LEMMA RowsFinite ==
    /\ \A T \in SUBSET Files : IsFiniteSet(T) /\ Cardinality(T) \in Nat
    /\ \A T \in SUBSET Row : IsFiniteSet(T) /\ Cardinality(T) \in Nat
<1>1. IsFiniteSet(Files) /\ IsFiniteSet(Before)
  BY FilesAssumption
<1>2. IsFiniteSet(Files \cup Before)
  BY <1>1, FS_Union
<1>3. IsFiniteSet({"chosen"}) /\ IsFiniteSet({"restored"})
  BY FS_Singleton
<1>4. IsFiniteSet(Files \X {"chosen"})
  BY <1>1, <1>3, FS_Product
<1>5. IsFiniteSet((Files \cup Before) \X {"restored"})
  BY <1>2, <1>3, FS_Product
<1>6. IsFiniteSet(Row)
  BY <1>4, <1>5, FS_Union DEF Row
<1> QED BY <1>1, <1>6, FS_Subset, FS_CardinalityType

\* The queue is a strict order on the files that wait.
LEMMA AheadOrder ==
    ASSUME NEW p, ShapeOK(p), NEW f \in InStatus(p, "queued"), NEW g \in InStatus(p, "queued")
    PROVE  /\ AheadOf(p, f) \subseteq InStatus(p, "queued") /\ f \notin AheadOf(p, f)
           /\ f # g => f \in AheadOf(p, g) \/ g \in AheadOf(p, f)
           /\ g \in AheadOf(p, f) => AheadOf(p, g) \subseteq AheadOf(p, f)
<1>0. /\ p.files \in Seq(Files) /\ f \in Range(p.files) /\ g \in Range(p.files)
      /\ \A i, j \in DOMAIN p.files : p.files[i] = p.files[j] => i = j
      /\ DOMAIN p.files = 1..Len(p.files) /\ Len(p.files) \in Nat
  BY DEF ShapeOK, Page, InStatus, IsInjective
<1>1. PICK i \in DOMAIN p.files, j \in DOMAIN p.files : p.files[i] = f /\ p.files[j] = g
  BY <1>0 DEF Range
<1>2. /\ AheadOf(p, f) \subseteq InStatus(p, "queued")
      /\ \A x : x \in AheadOf(p, f) <=>
            x \in InStatus(p, "queued") /\ \E k \in DOMAIN p.files : k < i /\ p.files[k] = x
  BY <1>0, <1>1 DEF AheadOf
<1>3. \A x : x \in AheadOf(p, g) <=>
            x \in InStatus(p, "queued") /\ \E k \in DOMAIN p.files : k < j /\ p.files[k] = x
  BY <1>0, <1>1 DEF AheadOf
<1>4. f \notin AheadOf(p, f)
  BY <1>0, <1>1, <1>2
<1>5. ASSUME f # g PROVE f \in AheadOf(p, g) \/ g \in AheadOf(p, f)
  <2>1. i < j \/ j < i
    BY <1>0, <1>1, <1>5
  <2> QED BY <1>1, <1>2, <1>3, <2>1
<1>6. ASSUME g \in AheadOf(p, f) PROVE AheadOf(p, g) \subseteq AheadOf(p, f)
  <2>1. j < i
    BY <1>0, <1>1, <1>2, <1>6
  <2> QED BY <1>0, <1>2, <1>3, <2>1
<1> QED BY <1>2, <1>4, <1>5, <1>6

LEMMA OnwardOrder ==
    ASSUME NEW s \in Statuses, NEW t \in Statuses, NEW u \in Statuses
    PROVE  /\ Onward(s, s)
           /\ Onward(s, t) /\ Onward(t, u) => Onward(s, u)
           /\ Onward(s, t) /\ s = "queued" => t # "none"
           /\ Onward(s, t) /\ t = "queued" => s \in {"none", "queued"}
BY DEF Statuses, Onward, Stage

\* Pages between which no file leaves the queue follow in order.
LEMMA InOrderKept ==
    ASSUME NEW p, NEW q,
           \A i \in DOMAIN p.files : i \in DOMAIN q.files /\ q.files[i] = p.files[i],
           \A f \in Files : Onward(p.status[f], q.status[f]),
           \A f \in Files : p.status[f] = "queued" => q.status[f] = "queued"
    PROVE  InOrder(p, q)
BY DEF InOrder

LEMMA InOrderSame ==
    ASSUME NEW p, NEW q, q.status = p.status, q.files = p.files
    PROVE  InOrder(p, q)
BY DEF InOrder, Onward

LEMMA InOrderTransitive ==
    ASSUME NEW p \in Page, NEW q \in Page, NEW r \in Page, InOrder(p, q), InOrder(q, r)
    PROVE  InOrder(p, r)
<1>1. \A f \in Files : /\ p.status[f] \in Statuses /\ q.status[f] \in Statuses
                       /\ r.status[f] \in Statuses
  BY DEF Page
<1>2. \A f \in Files : Onward(p.status[f], r.status[f])
  BY <1>1, OnwardOrder DEF InOrder
<1>3. \A i \in DOMAIN p.files : i \in DOMAIN r.files /\ r.files[i] = p.files[i]
  BY DEF InOrder
<1>4. ASSUME NEW f \in Files, NEW g \in AheadOf(p, f),
             p.status[f] = "queued", r.status[f] # "queued", r.status[g] = "queued"
      PROVE  FALSE
  <2>1. g \in Files /\ p.status[g] = "queued"
    BY DEF AheadOf, InStatus
  <2>2. q.status[g] = "queued"
    <3>1. Onward(p.status[g], q.status[g]) /\ Onward(q.status[g], r.status[g])
      BY <2>1 DEF InOrder
    <3>2. q.status[g] # "none" /\ q.status[g] \in {"none", "queued"}
      BY <1>1, <1>4, <2>1, <3>1, OnwardOrder
    <3> QED BY <3>2
  <2>3. q.status[f] = "queued"
    BY <1>4, <2>2 DEF InOrder
  <2>4. g \in AheadOf(q, f)
    BY <2>1, <2>2 DEF AheadOf, InStatus, InOrder
  <2> QED BY <1>4, <2>3, <2>4 DEF InOrder
<1> QED BY <1>2, <1>3, <1>4 DEF InOrder

LEMMA FollowsTransitive ==
    ASSUME NEW p \in Page, NEW q \in Page, NEW r \in Page, Follows(p, q), Follows(q, r)
    PROVE  Follows(p, r)
BY InOrderTransitive DEF Follows

(***************************************************************************)
(* The files that processQueue takes are all that wait, or as many as      *)
(* there is room for.                                                      *)
(***************************************************************************)
LEMMA OldestFacts ==
    ASSUME NEW p, ShapeOK(p), NEW room \in Nat
    PROVE  /\ Oldest(p, room) \subseteq InStatus(p, "queued")
           /\ Cardinality(Oldest(p, room)) <= room
           /\ Oldest(p, room) = InStatus(p, "queued") \/ Cardinality(Oldest(p, room)) = room
           /\ \A f \in Oldest(p, room) : AheadOf(p, f) \subseteq Oldest(p, room)
<1> DEFINE Q == InStatus(p, "queued")
           O == Oldest(p, room)
           rank(f) == Cardinality(AheadOf(p, f))
<1>1. Q \in SUBSET Files /\ O \in SUBSET Q
  BY DEF InStatus, Oldest
<1>2. \A T \in SUBSET Q : IsFiniteSet(T) /\ Cardinality(T) \in Nat
  BY <1>1, RowsFinite
<1>3. \A f \in Q : AheadOf(p, f) \in SUBSET Q /\ rank(f) \in Nat
  BY <1>2, AheadOrder
<1>4. \A f \in O : rank(f) < room
  BY DEF Oldest
<1>5. \A f \in Q \ O : rank(f) >= room
  BY <1>3 DEF Oldest
<1>6. ASSUME NEW f \in Q, NEW g \in AheadOf(p, f) PROVE rank(g) < rank(f)
  <2>1. g \in Q /\ AheadOf(p, g) \subseteq AheadOf(p, f) /\ g \notin AheadOf(p, g)
    BY <1>3, AheadOrder
  <2>2. IsFiniteSet(AheadOf(p, f)) /\ AheadOf(p, g) \in SUBSET AheadOf(p, f)
        /\ AheadOf(p, f) # AheadOf(p, g)
    BY <1>2, <1>3, <2>1
  <2>3. /\ Cardinality(AheadOf(p, g)) <= Cardinality(AheadOf(p, f))
        /\ Cardinality(AheadOf(p, g)) # Cardinality(AheadOf(p, f))
    BY <2>2, FS_Subset
  <2> QED BY <1>3, <2>1, <2>3
<1>7. Cardinality(O) <= room
  <2> DEFINE r == [f \in O |-> rank(f)]
  <2>1. r \in [O -> 0..(room - 1)]
    BY <1>1, <1>3, <1>4
  <2>2. ASSUME NEW f \in O, NEW g \in O, r[f] = r[g] PROVE f = g
    <3>1. SUFFICES ASSUME f # g PROVE FALSE
      OBVIOUS
    <3>2. f \in AheadOf(p, g) \/ g \in AheadOf(p, f)
      BY <1>1, <3>1, AheadOrder
    <3>3. rank(f) < rank(g) \/ rank(g) < rank(f)
      BY <1>1, <1>6, <3>2
    <3>4. rank(f) = rank(g) /\ rank(f) \in Nat /\ rank(g) \in Nat
      BY <1>1, <1>3, <2>2
    <3> QED BY <3>3, <3>4
  <2>3. r \in Injection(O, 0..(room - 1))
    BY <2>1, <2>2 DEF Injection, IsInjective
  <2>4. IsFiniteSet(0..(room - 1)) /\ Cardinality(0..(room - 1)) = room
    BY FS_Interval
  <2>5. Cardinality(O) <= Cardinality(0..(room - 1))
    BY <2>3, <2>4, FS_Injection
  <2> QED BY <2>4, <2>5
<1>8. ASSUME O # Q PROVE Cardinality(O) = room
  <2> DEFINE ranks == {rank(f) : f \in Q \ O}
  <2>1. ranks \in SUBSET Nat /\ ranks # {}
    BY <1>1, <1>3, <1>8
  <2>2. PICK m \in ranks : \A k \in ranks : m <= k
    BY <2>1, LeastNumber
  <2>3. PICK f \in Q \ O : rank(f) = m
    OBVIOUS
  <2>4. AheadOf(p, f) \subseteq O
    <3> SUFFICES ASSUME NEW g \in AheadOf(p, f), g \notin O PROVE FALSE
      OBVIOUS
    <3>1. g \in Q \ O /\ rank(g) < rank(f) /\ rank(g) \in Nat /\ rank(f) \in Nat
      BY <1>3, <1>6
    <3>2. m <= rank(g)
      BY <2>2, <3>1
    <3> QED BY <2>3, <3>1, <3>2
  <2>5. rank(f) <= Cardinality(O)
    BY <1>1, <1>2, <2>4, FS_Subset
  <2> QED BY <1>1, <1>2, <1>3, <1>5, <1>7, <2>5
<1>9. ASSUME NEW f \in O, NEW g \in AheadOf(p, f) PROVE g \in O
  <2>1. rank(g) < rank(f) /\ rank(f) < room /\ g \in Q /\ rank(g) \in Nat /\ rank(f) \in Nat
    BY <1>1, <1>3, <1>4, <1>6
  <2>2. rank(g) < room
    BY <2>1
  <2> QED BY <1>5, <2>1, <2>2
<1> QED BY <1>1, <1>7, <1>8, <1>9

-----------------------------------------------------------------------------
(* The functions of the scripts *)

\* The pages that differ in what the queue changes.
SameRows(p, q) ==
    /\ q.files = p.files /\ q.rows = p.rows /\ q.count = p.count /\ q.empty = p.empty

\* What uploadFiles does of p.
Starts(p, started, q) ==
    /\ q \in Page /\ SameRows(p, q) /\ q.timers = p.timers
    /\ \A f \in Files : q.status[f] = IF f \in started THEN "uploading" ELSE p.status[f]
    /\ q.bar <=> p.bar \/ started # {}
    /\ q.overtaken = IF Pending(p, "queuecomplete") THEN p.overtaken \cup started
                     ELSE p.overtaken

\* What the queue may do of p when it starts what waits.
Proceeds(p, q) ==
    /\ ShapeOK(q) /\ QueueOK(q) /\ BarShown(q) /\ BarWillHide(q) /\ SameRows(p, q)
    /\ \A f \in Files : \/ q.status[f] = p.status[f]
                        \/ p.status[f] = "queued" /\ q.status[f] = "uploading"
    /\ InOrder(p, q)

LEMMA UploadFilesFacts ==
    ASSUME NEW p \in Page, NEW started \in SUBSET InStatus(p, "queued")
    PROVE  Starts(p, started, UploadFiles(p, started))
<1> DEFINE st == [f \in Files |-> IF f \in started THEN "uploading" ELSE p.status[f]]
           br == p.bar \/ started # {}
           ov == IF Pending(p, "queuecomplete") THEN p.overtaken \cup started ELSE p.overtaken
           q == UploadFiles(p, started)
<1>1. q = [p EXCEPT !.status = st, !.bar = br, !.overtaken = ov]
  BY DEF UploadFiles
<1>2. st \in [Files -> Statuses] /\ br \in BOOLEAN /\ ov \in SUBSET Files
  BY DEF Page, Statuses, InStatus
<1> HIDE DEF st, br, ov, q
<1>3. /\ q \in Page /\ SameRows(p, q) /\ q.timers = p.timers
      /\ q.status = st /\ q.bar = br /\ q.overtaken = ov
  BY <1>1, <1>2 DEF Page, SameRows
<1>4. Starts(p, started, q)
  BY <1>3 DEF st, br, ov, Starts
<1> QED BY <1>4 DEF q

(***************************************************************************)
(* processQueue leaves the queue within its limit whatever it finds, as    *)
(* long as no more uploads are under way than the limit.                   *)
(***************************************************************************)
LEMMA ProcessQueueFacts ==
    ASSUME NEW p, ShapeOK(p), Cardinality(Uploading(p)) <= ParallelUploads,
           BarShown(p), BarWillHide(p)
    PROVE  Proceeds(p, ProcessQueue(p))
<1> DEFINE room == ParallelUploads - Cardinality(Uploading(p))
           started == Oldest(p, room)
           q == ProcessQueue(p)
<1>0. /\ p \in Page /\ Uploading(p) \in SUBSET Files /\ InStatus(p, "queued") \in SUBSET Files
      /\ ParallelUploads \in Nat
  BY LimitsAssumption DEF ShapeOK, Uploading, InStatus
<1>1. Cardinality(Uploading(p)) \in Nat /\ IsFiniteSet(Uploading(p)) /\ room \in Nat
  BY <1>0, RowsFinite
<1>2. /\ started \in SUBSET InStatus(p, "queued")
      /\ Cardinality(started) <= room
      /\ started = InStatus(p, "queued") \/ Cardinality(started) = room
      /\ \A f \in started : AheadOf(p, f) \subseteq started
  BY <1>1, OldestFacts
<1>3. IsFiniteSet(started) /\ Cardinality(started) \in Nat
  BY <1>0, <1>2, RowsFinite
<1>5. p \in Page /\ started \in SUBSET InStatus(p, "queued") /\ q = UploadFiles(p, started)
  BY <1>0, <1>2 DEF ProcessQueue
<1> HIDE DEF started, q
<1>4. Starts(p, started, q)
  BY <1>5, UploadFilesFacts
<1>6. /\ Uploading(q) = Uploading(p) \cup started
      /\ InStatus(q, "queued") = InStatus(p, "queued") \ started
      /\ InStatus(q, "none") = InStatus(p, "none")
      /\ Uploading(p) \cap started = {}
  BY <1>2, <1>4 DEF Starts, Uploading, InStatus
<1>7. Cardinality(Uploading(q)) = Cardinality(Uploading(p)) + Cardinality(started)
  <2>1. Cardinality(Uploading(p) \cap started) = 0
    BY <1>6, FS_EmptySet
  <2>2. Cardinality(Uploading(p) \cup started)
           = Cardinality(Uploading(p)) + Cardinality(started)
                - Cardinality(Uploading(p) \cap started)
    BY <1>1, <1>3, FS_Union
  <2> HIDE DEF started
  <2> QED BY <1>1, <1>3, <1>6, <2>1, <2>2
<1>8. ShapeOK(q)
  BY <1>4, <1>6 DEF Starts, ShapeOK, SameRows
<1>9. QueueOK(q)
  <2>1. Cardinality(Uploading(q)) <= ParallelUploads
    BY <1>0, <1>1, <1>2, <1>3, <1>7
  <2>2. InStatus(q, "queued") # {} => Cardinality(Uploading(q)) = ParallelUploads
    BY <1>0, <1>1, <1>2, <1>3, <1>6, <1>7
  <2> QED BY <2>1, <2>2 DEF QueueOK
<1>10. BarShown(q)
  BY <1>4, <1>6 DEF Starts, BarShown, Pending
<1>11. BarWillHide(q)
  BY <1>4, <1>6 DEF Starts, BarWillHide, Pending
<1>12. \A f \in Files : \/ q.status[f] = p.status[f]
                        \/ p.status[f] = "queued" /\ q.status[f] = "uploading"
  BY <1>2, <1>4 DEF Starts, InStatus
<1>13. InOrder(p, q)
  <2>1. \A f \in Files : Onward(p.status[f], q.status[f])
    BY <1>12 DEF Onward, Stage
  <2>2. q.files = p.files
    BY <1>4 DEF Starts, SameRows
  <2>3. ASSUME NEW f \in Files, p.status[f] = "queued", q.status[f] # "queued",
               NEW g \in AheadOf(p, f)
        PROVE  q.status[g] # "queued"
    <3>1. f \in started /\ g \in Files
      BY <1>4, <2>3 DEF Starts, AheadOf, InStatus
    <3>2. g \in started
      BY <1>2, <3>1
    <3> QED BY <1>4, <3>1, <3>2 DEF Starts
  <2> QED BY <2>1, <2>2, <2>3 DEF InOrder
<1> QED BY <1>4, <1>8, <1>9, <1>10, <1>11, <1>12, <1>13 DEF Starts, Proceeds, q

\* A timer goes to the end of those that are set.
HasTimer(p, t, q) ==
    /\ q \in Page /\ SameRows(p, q) /\ q.status = p.status /\ q.bar = p.bar
    /\ q.overtaken = p.overtaken
    /\ Pending(q, t) /\ \A other : other # t => (Pending(q, other) <=> Pending(p, other))

LEMMA SetTimerFacts ==
    ASSUME NEW p \in Page, NEW t \in {"processQueue", "queuecomplete"}
    PROVE  HasTimer(p, t, SetTimer(p, t))
<1> DEFINE ts == Append(p.timers, t)
           q == SetTimer(p, t)
<1>1. q = [p EXCEPT !.timers = ts]
  BY DEF SetTimer
<1>2. p.timers \in Seq({"processQueue", "queuecomplete"})
  BY DEF Page
<1>3. /\ ts \in Seq({"processQueue", "queuecomplete"})
      /\ Range(ts) = Range(p.timers) \cup {t}
  <2>1. /\ DOMAIN ts = 1..(Len(p.timers) + 1) /\ DOMAIN p.timers = 1..Len(p.timers)
        /\ Len(p.timers) \in Nat /\ ts \in Seq({"processQueue", "queuecomplete"})
        /\ \A i \in 1..Len(p.timers) : ts[i] = p.timers[i]
        /\ ts[Len(p.timers) + 1] = t
    BY <1>2
  <2>2. DOMAIN ts = DOMAIN p.timers \cup {Len(p.timers) + 1}
    BY <2>1
  <2> HIDE DEF ts
  <2> QED BY <2>1, <2>2 DEF Range
<1> HIDE DEF ts, q
<1>4. /\ q \in Page /\ SameRows(p, q) /\ q.status = p.status /\ q.bar = p.bar
      /\ q.overtaken = p.overtaken /\ q.timers = ts
  BY <1>1, <1>3 DEF Page, SameRows
<1>5. HasTimer(p, t, q)
  BY <1>3, <1>4 DEF HasTimer, Pending
<1> QED BY <1>5 DEF q

(***************************************************************************)
(* A file has come to an end, well or not: "complete" and processQueue.    *)
(***************************************************************************)
LEMMA EndOfFile ==
    ASSUME NEW p, ShapeOK(p), Cardinality(Uploading(p)) <= ParallelUploads, BarShown(p)
    PROVE  Proceeds(p, ProcessQueue(Complete(p)))
<1> DEFINE r == Complete(p)
<1>0. p \in Page
  BY DEF ShapeOK
<1>1. /\ r \in Page /\ SameRows(p, r) /\ r.status = p.status /\ r.bar = p.bar
      /\ r.overtaken = p.overtaken
      /\ r = p \/ (Pending(r, "queuecomplete") /\ Uploading(p) = {})
      /\ Uploading(p) \cup InStatus(p, "queued") # {} \/ Pending(r, "queuecomplete")
  <2>1. CASE Uploading(p) \cup InStatus(p, "queued") = {}
    <3>1. r = SetTimer(p, "queuecomplete")
      BY <2>1 DEF Complete
    <3> HIDE DEF r
    <3>2. HasTimer(p, "queuecomplete", r)
      BY <1>0, <3>1, SetTimerFacts
    <3> QED BY <2>1, <3>2 DEF HasTimer
  <2>2. CASE Uploading(p) \cup InStatus(p, "queued") # {}
    <3>1. r = p
      BY <2>2 DEF Complete
    <3> HIDE DEF r
    <3> QED BY <1>0, <2>2, <3>1 DEF SameRows
  <2> QED BY <2>1, <2>2
<1> HIDE DEF r
<1>2. Uploading(r) = Uploading(p) /\ \A s : InStatus(r, s) = InStatus(p, s)
  BY <1>1 DEF Uploading, InStatus
<1>3. ShapeOK(r)
  BY <1>1, <1>2 DEF ShapeOK, SameRows
<1>4. BarShown(r)
  BY <1>1, <1>2 DEF BarShown
<1>5. BarWillHide(r)
  BY <1>1, <1>2 DEF BarWillHide
<1>6. Proceeds(r, ProcessQueue(r))
  BY <1>2, <1>3, <1>4, <1>5, ProcessQueueFacts
<1>7. Proceeds(p, ProcessQueue(r))
  <2>1. InOrder(p, r)
    BY <1>1, InOrderSame DEF SameRows
  <2>2. InOrder(p, ProcessQueue(r))
    BY <1>0, <1>1, <1>6, <2>1, InOrderTransitive DEF Proceeds, ShapeOK
  <2> QED BY <1>1, <1>6, <2>2 DEF Proceeds, SameRows
<1> QED BY <1>7 DEF r

\* What the queue does leaves the rows and the message alone.
LEMMA QueueProceeds ==
    ASSUME NEW p, NEW q, NEW n, Proceeds(p, q), RowsOK(p), MessageOK(p, n)
    PROVE  PageInv(q, n) /\ Follows(p, q)
<1>1. RowsOK(q)
  BY DEF RowsOK, Proceeds, SameRows
<1>2. MessageOK(q, n)
  BY DEF MessageOK, Proceeds, SameRows
<1>3. Follows(p, q)
  BY DEF Follows, Proceeds, SameRows
<1> QED BY <1>1, <1>2, <1>3 DEF PageInv, Proceeds

(***************************************************************************)
(* An upload that ends, well or not, gives way to the next.                *)
(***************************************************************************)
Ended(p, f, s) == [p EXCEPT !.status[f] = s]

LEMMA EndOfUpload ==
    ASSUME NEW p, NEW n, PageInv(p, n), NEW f \in Uploading(p), NEW s \in {"success", "error"}
    PROVE  LET q == ProcessQueue(Complete(Ended(p, f, s))) IN PageInv(q, n) /\ Follows(p, q)
<1> DEFINE b == Ended(p, f, s)
           st == [p.status EXCEPT ![f] = s]
<1>0. /\ p \in Page /\ f \in Files /\ p.status[f] = "uploading"
      /\ Uploading(p) \in SUBSET Files /\ ParallelUploads \in Nat
  BY LimitsAssumption DEF PageInv, ShapeOK, Uploading, InStatus
<1>1. b = [p EXCEPT !.status = st]
  BY DEF Ended
<1>2. st \in [Files -> Statuses] /\ \A g \in Files : st[g] = IF g = f THEN s ELSE p.status[g]
  BY <1>0 DEF Page, Statuses
<1> HIDE DEF b, st
<1>3. /\ b \in Page /\ SameRows(p, b) /\ b.timers = p.timers /\ b.bar = p.bar
      /\ b.overtaken = p.overtaken /\ b.status = st
  BY <1>0, <1>1, <1>2 DEF Page, SameRows
<1>4. /\ Uploading(b) = Uploading(p) \ {f} /\ InStatus(b, "none") = InStatus(p, "none")
      /\ Uploading(b) \in SUBSET Uploading(p)
  BY <1>0, <1>2, <1>3 DEF Uploading, InStatus
<1>5. ShapeOK(b)
  BY <1>3, <1>4 DEF ShapeOK, PageInv, SameRows
<1>6. Cardinality(Uploading(b)) <= ParallelUploads
  <2>1. IsFiniteSet(Uploading(p)) /\ Cardinality(Uploading(p)) \in Nat
    BY <1>0, RowsFinite
  <2>2. Cardinality(Uploading(b)) <= Cardinality(Uploading(p))
    BY <1>4, <2>1, FS_Subset
  <2>3. Cardinality(Uploading(b)) \in Nat
    BY <1>0, <1>4, RowsFinite
  <2> QED BY <1>0, <2>1, <2>2, <2>3 DEF PageInv, QueueOK
<1>7. BarShown(b)
  BY <1>3, <1>4 DEF BarShown, PageInv, Pending
<1>8. Proceeds(b, ProcessQueue(Complete(b)))
  BY <1>5, <1>6, <1>7, EndOfFile
<1>9. RowsOK(b)
  BY <1>0, <1>2, <1>3 DEF RowsOK, PageInv, SameRows
<1>10. MessageOK(b, n)
  BY <1>3 DEF MessageOK, PageInv, SameRows
<1> DEFINE q == ProcessQueue(Complete(b))
<1> HIDE DEF q
<1>11. PageInv(q, n) /\ Follows(b, q)
  BY <1>8, <1>9, <1>10, QueueProceeds DEF q
<1>12. Follows(p, b)
  <2>1. InOrder(p, b)
    <3>1. \A g \in Files : Onward(p.status[g], b.status[g])
      BY <1>0, <1>2, <1>3 DEF Onward, Stage
    <3>2. \A g \in Files : p.status[g] = "queued" => b.status[g] = "queued"
      BY <1>0, <1>2, <1>3
    <3> QED BY <1>3, <3>1, <3>2, InOrderKept DEF SameRows
  <2> QED BY <1>0, <1>2, <1>3, <2>1 DEF Follows, SameRows
<1>13. Follows(p, q)
  BY <1>0, <1>3, <1>11, <1>12, FollowsTransitive DEF PageInv, ShapeOK
<1> QED BY <1>11, <1>13 DEF q, b

(***************************************************************************)
(* A file that is chosen enters the queue, or fails at once when it is too *)
(* big; the others stay as they are or begin uploading.                    *)
(***************************************************************************)
Entered(p, f, s) ==
    [AddedFile([p EXCEPT !.files = Append(@, f)], <<f, "chosen">>) EXCEPT !.status[f] = s]

LEMMA EnteredFacts ==
    ASSUME NEW p, NEW n, PageInv(p, n), NEW f \in InStatus(p, "none"), n \in Nat,
           NEW s \in {"queued", "error"}
    PROVE  LET b == Entered(p, f, s) IN
           /\ ShapeOK(b) /\ BarShown(b) /\ RowsOK(b) /\ MessageOK(b, n) /\ Follows(p, b)
           /\ Uploading(b) = Uploading(p) /\ b.timers = p.timers /\ b.bar = p.bar
           /\ \A g \in Files : b.status[g] = IF g = f THEN s ELSE p.status[g]
<1> DEFINE b  == Entered(p, f, s)
           st == [p.status EXCEPT ![f] = s]
           fs == Append(p.files, f)
           row == <<f, "chosen">>
           rs == p.rows \cup {row}
<1>0. /\ p \in Page /\ f \in Files /\ p.status[f] = "none" /\ p.files \in Seq(Files)
      /\ row \in Row /\ row \notin p.rows /\ f \notin Range(p.files)
  BY DEF PageInv, ShapeOK, InStatus, Page, Row, RowsOK
<1>1. b = [p EXCEPT !.status = st, !.files = fs, !.rows = rs, !.count = p.count + 1,
                    !.empty = FALSE]
  BY <1>0 DEF Entered, AddedFile, Page
<1>2. st \in [Files -> Statuses] /\ \A g \in Files : st[g] = IF g = f THEN s ELSE p.status[g]
  BY <1>0 DEF Page, Statuses
<1>3. fs \in Seq(Files) /\ Range(fs) = Range(p.files) \cup {f} /\ IsInjective(fs)
  <2>1. /\ DOMAIN fs = 1..(Len(p.files) + 1) /\ DOMAIN p.files = 1..Len(p.files)
        /\ Len(p.files) \in Nat /\ fs \in Seq(Files)
        /\ \A i \in 1..Len(p.files) : fs[i] = p.files[i]
        /\ fs[Len(p.files) + 1] = f
    BY <1>0
  <2>2. DOMAIN fs = DOMAIN p.files \cup {Len(p.files) + 1}
    BY <2>1
  <2>3. IsInjective(p.files)
    BY DEF PageInv, ShapeOK
  <2> HIDE DEF fs
  <2>4. Range(fs) = Range(p.files) \cup {f}
    BY <2>1, <2>2 DEF Range
  <2>5. ASSUME NEW i \in DOMAIN fs, NEW j \in DOMAIN fs, fs[i] = fs[j] PROVE i = j
    <3>1. CASE i \in DOMAIN p.files /\ j \in DOMAIN p.files
      BY <2>1, <2>3, <2>5, <3>1 DEF IsInjective
    <3>2. CASE i \notin DOMAIN p.files \/ j \notin DOMAIN p.files
      BY <1>0, <2>1, <2>2, <2>5, <3>2 DEF Range
    <3> QED BY <3>1, <3>2
  <2> QED BY <2>1, <2>4, <2>5 DEF IsInjective
<1>4. rs \in SUBSET Row /\ Cardinality(rs) = Cardinality(p.rows) + 1
  <2>1. p.rows \in SUBSET Row /\ IsFiniteSet(p.rows)
    BY <1>0, RowsFinite DEF Page
  <2>2. Cardinality(rs) = Cardinality(p.rows) + 1
    BY <1>0, <2>1, FS_AddElement
  <2> QED BY <1>0, <2>1, <2>2
<1>5. row \in rs /\ p.rows \subseteq rs /\ \A r \in rs : r \in p.rows \/ r = row
  OBVIOUS
<1> HIDE DEF b, st, fs, rs
<1>6. /\ b \in Page /\ b.status = st /\ b.files = fs /\ b.timers = p.timers /\ b.bar = p.bar
      /\ b.rows = rs /\ b.count = p.count + 1 /\ b.empty = FALSE
      /\ b.overtaken = p.overtaken
  <2>1. p.count \in Int
    BY <1>0 DEF Page
  <2> DEFINE c == p.count + 1
  <2>2. c \in Int
    BY <2>1
  <2>3. b = [p EXCEPT !.status = st, !.files = fs, !.rows = rs, !.count = c, !.empty = FALSE]
    BY <1>1
  <2> HIDE DEF c
  <2>4. b \in Page
    BY <1>0, <1>2, <1>3, <1>4, <2>2, <2>3 DEF Page
  <2>5. /\ b.status = st /\ b.files = fs /\ b.timers = p.timers /\ b.bar = p.bar
        /\ b.rows = rs /\ b.count = c /\ b.empty = FALSE
        /\ b.overtaken = p.overtaken
    BY <1>0, <2>3 DEF Page
  <2> QED BY <2>4, <2>5 DEF c
<1>7. /\ Uploading(b) = Uploading(p) /\ InStatus(b, "none") = InStatus(p, "none") \ {f}
  BY <1>0, <1>2, <1>6 DEF Uploading, InStatus
<1>8. ShapeOK(b)
  <2>1. Range(fs) = Files \ InStatus(b, "none")
    BY <1>0, <1>3, <1>7 DEF PageInv, ShapeOK
  <2> QED BY <1>3, <1>6, <2>1 DEF ShapeOK
<1>9. BarShown(b)
  BY <1>6, <1>7 DEF BarShown, PageInv, Pending
<1>10. RowsOK(b)
  BY <1>0, <1>2, <1>5, <1>6 DEF RowsOK, PageInv
<1>11. MessageOK(b, n)
  <2>1. p.count \in Int /\ Cardinality(p.rows) \in Nat
    BY <1>0, RowsFinite DEF Page
  <2>2. b.count + n = Cardinality(b.rows)
    BY <1>4, <1>6, <2>1 DEF MessageOK, PageInv
  <2> QED BY <1>5, <1>6, <2>2 DEF MessageOK
<1>12. Follows(p, b)
  <2>1. InOrder(p, b)
    <3>1. \A g \in Files : Onward(p.status[g], b.status[g])
      BY <1>0, <1>2, <1>6 DEF Onward, Stage
    <3>2. \A g \in Files : p.status[g] = "queued" => b.status[g] = "queued"
      BY <1>0, <1>2, <1>6
    <3>3. \A i \in DOMAIN p.files : i \in DOMAIN b.files /\ b.files[i] = p.files[i]
      BY <1>0, <1>6 DEF fs
    <3> QED BY <3>1, <3>2, <3>3, InOrderKept
  <2> QED BY <1>0, <1>2, <1>5, <1>6, <2>1 DEF Follows
<1> QED BY <1>2, <1>6, <1>7, <1>8, <1>9, <1>10, <1>11, <1>12 DEF b

\* What AddFile does of p: f is in the queue's list, and no file leaves it.
Added(p, f, n, q) ==
    /\ PageInv(q, n) /\ Follows(p, q)
    /\ \A g \in Files \ {f} : q.status[g] = "none" <=> p.status[g] = "none"

LEMMA AddFileFacts ==
    ASSUME NEW p, NEW n, PageInv(p, n), n \in Nat, NEW f \in InStatus(p, "none")
    PROVE  Added(p, f, n, AddFile(p, f))
<1> DEFINE a == AddedFile([p EXCEPT !.files = Append(@, f)], <<f, "chosen">>)
<1>0. p \in Page /\ f \in Files /\ ParallelUploads \in Nat
  BY LimitsAssumption DEF PageInv, ShapeOK, InStatus
<1>1. CASE f \in TooBig
  <2> DEFINE b == Entered(p, f, "error")
             q == ProcessQueue(Complete(b))
  <2>1. AddFile(p, f) = q
    BY <1>1 DEF AddFile, ErrorProcessing, Entered
  <2>2. /\ ShapeOK(b) /\ BarShown(b) /\ RowsOK(b) /\ MessageOK(b, n) /\ Follows(p, b)
        /\ Uploading(b) = Uploading(p)
        /\ \A g \in Files : b.status[g] = IF g = f THEN "error" ELSE p.status[g]
    BY <1>0, EnteredFacts
  <2> HIDE DEF b
  <2>3. Cardinality(Uploading(b)) <= ParallelUploads
    BY <2>2 DEF PageInv, QueueOK
  <2>4. Proceeds(b, q)
    BY <2>2, <2>3, EndOfFile
  <2> HIDE DEF q
  <2>5. PageInv(q, n) /\ Follows(b, q)
    BY <2>2, <2>4, QueueProceeds
  <2>6. Follows(p, q)
    BY <1>0, <2>2, <2>5, FollowsTransitive DEF PageInv, ShapeOK
  <2>7. \A g \in Files \ {f} : q.status[g] = "none" <=> p.status[g] = "none"
    BY <2>2, <2>4 DEF Proceeds
  <2> QED BY <2>1, <2>5, <2>6, <2>7 DEF Added
<1>2. CASE f \notin TooBig
  <2> DEFINE b == Entered(p, f, "queued")
             q == SetTimer(b, "processQueue")
  <2>1. AddFile(p, f) = q
    BY <1>2 DEF AddFile, Entered
  <2>2. /\ ShapeOK(b) /\ BarShown(b) /\ RowsOK(b) /\ MessageOK(b, n) /\ Follows(p, b)
        /\ Uploading(b) = Uploading(p)
        /\ \A g \in Files : b.status[g] = IF g = f THEN "queued" ELSE p.status[g]
    BY <1>0, EnteredFacts
  <2> HIDE DEF b
  <2>3. HasTimer(b, "processQueue", q)
    BY <2>2, SetTimerFacts DEF ShapeOK
  <2> HIDE DEF q
  <2>4. q \in Page /\ SameRows(b, q) /\ q.status = b.status /\ q.bar = b.bar
        /\ q.overtaken = b.overtaken
        /\ Pending(q, "processQueue")
        /\ (Pending(q, "queuecomplete") <=> Pending(b, "queuecomplete"))
    BY <2>3 DEF HasTimer
  <2>5. /\ Uploading(q) = Uploading(p) /\ f \in InStatus(q, "queued")
        /\ InStatus(q, "none") = InStatus(b, "none")
    BY <1>0, <2>2, <2>4 DEF Uploading, InStatus
  <2>6. ShapeOK(q)
    BY <2>2, <2>4, <2>5 DEF ShapeOK, SameRows
  <2>7. QueueOK(q)
    BY <2>4, <2>5 DEF QueueOK, PageInv
  <2>8. BarShown(q)
    BY <2>2, <2>4, <2>5 DEF BarShown
  <2>9. BarWillHide(q)
    BY <2>5 DEF BarWillHide
  <2>10. RowsOK(q)
    BY <2>2, <2>4 DEF RowsOK, SameRows
  <2>11. MessageOK(q, n)
    BY <2>2, <2>4 DEF MessageOK, SameRows
  <2>12. Follows(p, q)
    <3>1. b \in Page
      BY <2>2 DEF ShapeOK
    <3>2. Follows(b, q)
      BY <2>4, InOrderSame DEF Follows, SameRows
    <3> QED BY <1>0, <2>2, <2>4, <3>1, <3>2, FollowsTransitive
  <2>13. \A g \in Files \ {f} : q.status[g] = "none" <=> p.status[g] = "none"
    BY <2>2, <2>4
  <2> QED BY <2>1, <2>6, <2>7, <2>8, <2>9, <2>10, <2>11, <2>12, <2>13 DEF Added, PageInv
<1> QED BY <1>1, <1>2

(***************************************************************************)
(* A selection is added file by file.                                      *)
(***************************************************************************)
LEMMA SelectionFacts ==
    ASSUME NEW p, NEW n \in Nat, PageInv(p, n),
           NEW chosen \in SUBSET InStatus(p, "none"), NEW s \in SetToSeqs(chosen)
    PROVE  PageInv(FoldLeft(AddFile, p, s), n) /\ Follows(p, FoldLeft(AddFile, p, s))
<1>0. p \in Page /\ chosen \in SUBSET Files
  BY DEF PageInv, ShapeOK, InStatus
<1>1. Cardinality(chosen) \in Nat
  BY <1>0, RowsFinite
<1>2. /\ s \in [1..Cardinality(chosen) -> chosen]
      /\ \A i, j \in 1..Cardinality(chosen) : i # j => s[i] # s[j]
  BY DEF SetToSeqs
<1>3. s \in Seq(Files) /\ Len(s) = Cardinality(chosen) /\ Len(s) \in Nat
  BY <1>0, <1>1, <1>2
<1>4. PICK g : /\ g[0] = p
               /\ \A k \in 1..Len(s) : g[k] = AddFile(g[k - 1], s[k])
               /\ FoldLeft(AddFile, p, s) = g[Len(s)]
  BY <1>3, FoldOfAddFile
<1> DEFINE Good(k) == /\ PageInv(g[k], n) /\ Follows(p, g[k])
                      /\ \A i \in 1..Len(s) : k < i => g[k].status[s[i]] = "none"
           bad == {k \in 0..Len(s) : ~Good(k)}
<1>5. bad = {}
  <2> SUFFICES ASSUME bad # {} PROVE FALSE
    OBVIOUS
  <2>1. bad \in SUBSET Nat
    BY <1>3
  <2>2. PICK k \in bad : \A m \in bad : k <= m
    BY <2>1, LeastNumber
  <2>3. k # 0
    <3>1. \A i \in 1..Len(s) : g[0].status[s[i]] = "none"
      BY <1>2, <1>3, <1>4 DEF InStatus
    <3>2. Follows(p, g[0])
      BY <1>4, InOrderSame DEF Follows
    <3>3. Good(0)
      BY <1>4, <3>1, <3>2
    <3> QED BY <3>3
  <2>4. k \in 1..Len(s) /\ k - 1 \in 0..Len(s) /\ k - 1 < k /\ k \in Int
    BY <1>3, <2>2, <2>3
  <2>5. k - 1 \notin bad
    BY <2>2, <2>4
  <2>6. Good(k - 1)
    BY <2>4, <2>5
  <2> DEFINE q == g[k - 1]
             r == g[k]
             f == s[k]
  <2>7. r = AddFile(q, f)
    BY <1>4, <2>4
  <2>8. /\ PageInv(q, n) /\ Follows(p, q) /\ f \in Files /\ q.status[f] = "none"
        /\ \A i \in 1..Len(s) : k < i => q.status[s[i]] = "none"
    BY <1>0, <1>2, <1>3, <2>4, <2>6
  <2> HIDE DEF q
  <2>9. Added(q, f, n, r)
    BY <2>7, <2>8, AddFileFacts DEF InStatus
  <2>10. Follows(p, r)
    BY <1>0, <2>8, <2>9, FollowsTransitive DEF Added, PageInv, ShapeOK
  <2>11. \A i \in 1..Len(s) : k < i => r.status[s[i]] = "none"
    <3> SUFFICES ASSUME NEW i \in 1..Len(s), k < i PROVE r.status[s[i]] = "none"
      OBVIOUS
    <3>1. s[i] \in Files \ {f}
      BY <1>0, <1>2, <1>3, <2>4
    <3> QED BY <2>8, <2>9, <3>1 DEF Added
  <2>12. Good(k)
    BY <2>9, <2>10, <2>11 DEF Added
  <2> QED BY <2>2, <2>12
<1>6. Good(Len(s))
  BY <1>3, <1>5
<1> QED BY <1>4, <1>6

\* A timer that has fired is gone, and the others stay.
LEMMA TimerFacts ==
    ASSUME NEW p, NEW n, PageInv(p, n), p.timers # <<>>
    PROVE  LET b == [p EXCEPT !.timers = Tail(@)]
               q == IF Head(p.timers) = "processQueue" THEN ProcessQueue(b)
                    ELSE [b EXCEPT !.bar = FALSE]
           IN  PageInv(q, n) /\ Follows(p, q)
<1> DEFINE b == [p EXCEPT !.timers = Tail(@)]
           ts == Tail(p.timers)
           h  == Head(p.timers)
<1>0. p \in Page /\ p.timers \in Seq({"processQueue", "queuecomplete"})
  BY DEF PageInv, ShapeOK, Page
<1>1. /\ ts \in Seq({"processQueue", "queuecomplete"}) /\ h \in {"processQueue", "queuecomplete"}
      /\ Range(p.timers) = {h} \cup Range(ts)
  <2>1. /\ DOMAIN ts = 1..(Len(p.timers) - 1) /\ DOMAIN p.timers = 1..Len(p.timers)
        /\ Len(p.timers) \in Nat /\ Len(p.timers) >= 1 /\ h = p.timers[1]
        /\ ts \in Seq({"processQueue", "queuecomplete"})
        /\ h \in {"processQueue", "queuecomplete"}
        /\ \A i \in 1..(Len(p.timers) - 1) : ts[i] = p.timers[i + 1]
    BY <1>0
  <2> HIDE DEF ts, h
  <2>2. h \in Range(p.timers)
    BY <2>1 DEF Range
  <2>4. ASSUME NEW x \in Range(ts) PROVE x \in Range(p.timers)
    <3>1. PICK i \in 1..(Len(p.timers) - 1) : ts[i] = x
      BY <2>1 DEF Range
    <3>2. i + 1 \in DOMAIN p.timers /\ p.timers[i + 1] = x
      BY <2>1, <3>1
    <3> QED BY <3>2 DEF Range
  <2>3. ASSUME NEW x \in Range(p.timers) PROVE x \in {h} \cup Range(ts)
    <3>1. PICK i \in 1..Len(p.timers) : p.timers[i] = x
      BY <2>1 DEF Range
    <3>2. CASE i = 1
      BY <2>1, <3>1, <3>2
    <3>3. CASE i # 1
      <4>1. i - 1 \in DOMAIN ts /\ ts[i - 1] = p.timers[i]
        BY <2>1, <3>3
      <4> QED BY <3>1, <4>1 DEF Range
    <3> QED BY <3>2, <3>3
  <2> QED BY <2>1, <2>2, <2>3, <2>4
<1>2. b = [p EXCEPT !.timers = ts]
  OBVIOUS
<1> HIDE DEF b, ts
<1>3. /\ b \in Page /\ SameRows(p, b) /\ b.timers = ts /\ b.bar = p.bar
      /\ b.overtaken = p.overtaken /\ b.status = p.status
  BY <1>0, <1>1, <1>2 DEF Page, SameRows
<1> HIDE DEF h
<1>4. \A t : Pending(p, t) <=> t = h \/ Pending(b, t)
  BY <1>1, <1>3 DEF Pending
<1>5. Uploading(b) = Uploading(p) /\ \A t : InStatus(b, t) = InStatus(p, t)
  BY <1>3 DEF Uploading, InStatus
<1>6. ShapeOK(b)
  BY <1>3, <1>5 DEF PageInv, ShapeOK, SameRows
<1>7. BarShown(b)
  BY <1>3, <1>4, <1>5 DEF PageInv, BarShown
<1>8. RowsOK(b) /\ MessageOK(b, n) /\ Follows(p, b)
  BY <1>3, InOrderSame DEF PageInv, RowsOK, MessageOK, Follows, SameRows
<1>9. CASE h = "processQueue"
  <2> DEFINE q == ProcessQueue(b)
  <2>1. BarWillHide(b)
    BY <1>3, <1>4, <1>5, <1>9 DEF PageInv, BarWillHide
  <2>2. Cardinality(Uploading(b)) <= ParallelUploads
    BY <1>5 DEF PageInv, QueueOK
  <2>3. Proceeds(b, q)
    BY <1>6, <1>7, <2>1, <2>2, ProcessQueueFacts
  <2> HIDE DEF q
  <2>4. PageInv(q, n) /\ Follows(b, q)
    BY <1>8, <2>3, QueueProceeds
  <2>5. Follows(p, q)
    BY <1>0, <1>3, <1>8, <2>4, FollowsTransitive DEF PageInv, ShapeOK
  <2> QED BY <1>9, <2>4, <2>5 DEF q, b, h
<1>10. CASE h # "processQueue"
  <2> DEFINE q == [b EXCEPT !.bar = FALSE]
  <2>1. h = "queuecomplete"
    BY <1>1, <1>10
  <2>2. /\ q \in Page /\ SameRows(b, q) /\ q.timers = b.timers /\ q.bar = FALSE
        /\ q.overtaken = b.overtaken /\ q.status = b.status
    BY <1>3 DEF Page, SameRows
  <2> HIDE DEF q
  <2>3. Uploading(q) = Uploading(p) /\ \A t : InStatus(q, t) = InStatus(p, t)
    BY <1>5, <2>2 DEF Uploading, InStatus
  <2>4. ShapeOK(q)
    BY <1>6, <1>5, <2>2, <2>3 DEF ShapeOK, SameRows
  <2>5. QueueOK(q)
    BY <1>4, <2>1, <2>2, <2>3 DEF PageInv, QueueOK, Pending
  <2>6. BarShown(q)
    BY <1>3, <1>4, <2>1, <2>2, <2>3 DEF PageInv, BarShown, Pending
  <2>7. BarWillHide(q)
    BY <2>2 DEF BarWillHide
  <2>8. RowsOK(q) /\ MessageOK(q, n) /\ Follows(b, q)
    BY <1>8, <2>2, InOrderSame DEF RowsOK, MessageOK, Follows, SameRows
  <2>9. Follows(p, q)
    BY <1>0, <1>3, <1>8, <2>2, <2>8, FollowsTransitive
  <2> QED BY <1>10, <2>4, <2>5, <2>6, <2>7, <2>8, <2>9 DEF PageInv, q, b, h
<1> QED BY <1>9, <1>10
-----------------------------------------------------------------------------
(* The events *)

\* What becomes of the page in an event of the queue.
LEMMA BecomesInv ==
    ASSUME IInv, NEW p, PageInv(p, again), Follows(page, p), Becomes(p),
           UNCHANGED <<stored, clicks, deletes, listing, again>>
    PROVE  IInv' /\ InOrder(page, page')
<1>0. /\ page' = p /\ again' = again /\ listing' = listing /\ deletes' = deletes
      /\ stored' = stored
  BY DEF Becomes
<1>1. PageInv(page, again)'
  BY <1>0
<1>2. ServerInv'
  <2>1. upload' \in [Files -> {"none", "sent", "kept"}]
    BY DEF Becomes, IInv, ServerInv
  <2>2. \A f \in Files : upload'[f] = "none" <=> p.status[f] # "uploading"
    BY DEF Becomes, IInv, ServerInv
  <2> QED BY <1>0, <2>1, <2>2 DEF IInv, ServerInv
<1>3. DeletesInv'
  <2>1. \A row \in Row : row[2] = "chosen" => row[1] \in Files
    BY DEF Row
  <2> QED BY <1>0, <2>1 DEF IInv, DeletesInv, Follows
<1>4. StoredInv'
  BY <1>0 DEF IInv, StoredInv, Follows
<1>5. InOrder(page, page')
  BY <1>0 DEF Follows
<1> QED BY <1>1, <1>2, <1>3, <1>4, <1>5 DEF IInv

LEMMA InitInv == Init => IInv
<1> SUFFICES ASSUME Init PROVE IInv
  OBVIOUS
<1>1. /\ page \in Page /\ page.status = [f \in Files |-> "none"] /\ page.files = <<>>
      /\ page.timers = <<>> /\ page.bar = FALSE /\ page.rows = {} /\ page.count = 0
      /\ page.empty = FALSE /\ page.overtaken = {}
  BY DEF Init, Page, Statuses
<1>2. /\ Uploading(page) = {} /\ InStatus(page, "queued") = {} /\ InStatus(page, "none") = Files
  BY <1>1 DEF Uploading, InStatus
<1>3. Cardinality({}) = 0
  BY FS_EmptySet
<1>4. ShapeOK(page)
  BY <1>1, <1>2 DEF ShapeOK, IsInjective, Range
<1>5. QueueOK(page)
  BY <1>2, <1>3, LimitsAssumption DEF QueueOK
<1>6. BarShown(page) /\ BarWillHide(page)
  BY <1>1, <1>2 DEF BarShown, BarWillHide
<1>7. RowsOK(page)
  BY <1>1 DEF RowsOK
<1>8. MessageOK(page, again)
  BY <1>1, <1>3 DEF Init, MessageOK
<1>9. ServerInv
  BY <1>1 DEF Init, ServerInv
<1>10. DeletesInv
  BY <1>1 DEF Init, DeletesInv
<1>11. StoredInv
  BY FilesAssumption DEF Init, StoredInv
<1> QED BY <1>4, <1>5, <1>6, <1>7, <1>8, <1>9, <1>10, <1>11 DEF IInv, PageInv

LEMMA SelectInv ==
    ASSUME IInv, Select
    PROVE  IInv' /\ InOrder(page, page')
<1>1. PICK chosen \in SUBSET InStatus(page, "none") : \E s \in SetToSeqs(chosen) :
          /\ Becomes(FoldLeft(AddFile, page, s))
          /\ UNCHANGED <<stored, clicks, deletes, listing, again>>
  BY DEF Select
<1>2. PICK s \in SetToSeqs(chosen) :
          /\ Becomes(FoldLeft(AddFile, page, s))
          /\ UNCHANGED <<stored, clicks, deletes, listing, again>>
  BY <1>1
<1> DEFINE p == FoldLeft(AddFile, page, s)
<1>3. PageInv(page, again) /\ again \in Nat
  BY DEF IInv, ServerInv
<1>4. PageInv(p, again) /\ Follows(page, p)
  BY <1>3, SelectionFacts
<1> HIDE DEF p
<1> QED BY <1>2, <1>4, BecomesInv DEF p

LEMMA TimerFiresInv ==
    ASSUME IInv, TimerFires
    PROVE  IInv' /\ InOrder(page, page')
<1> DEFINE b == [page EXCEPT !.timers = Tail(@)]
           p == IF Head(page.timers) = "processQueue" THEN ProcessQueue(b)
                ELSE [b EXCEPT !.bar = FALSE]
<1>1. /\ Becomes(p) /\ UNCHANGED <<stored, clicks, deletes, listing, again>>
      /\ page.timers # <<>>
  BY DEF TimerFires
<1>2. PageInv(page, again)
  BY DEF IInv
<1>3. PageInv(p, again) /\ Follows(page, p)
  BY <1>1, <1>2, TimerFacts
<1> HIDE DEF p
<1> QED BY <1>1, <1>3, BecomesInv

LEMMA UploadAnsweredInv ==
    ASSUME IInv, NEW f \in Files, UploadAnswered(f)
    PROVE  IInv' /\ InOrder(page, page')
<1>1. PageInv(page, again) /\ f \in Uploading(page)
  BY DEF IInv, UploadAnswered, ServerInv, Uploading, InStatus
<1>2. UNCHANGED <<stored, clicks, deletes, listing, again>>
  BY DEF UploadAnswered
<1>3. CASE Becomes(Finished(page, f))
  <2> DEFINE p == Finished(page, f)
  <2>1. p = ProcessQueue(Complete(Ended(page, f, "success")))
    BY DEF Finished, Ended
  <2>2. PageInv(p, again) /\ Follows(page, p)
    BY <1>1, <2>1, EndOfUpload
  <2> QED BY <1>2, <1>3, <2>2, BecomesInv
<1>4. CASE Becomes(ErrorProcessing(page, f))
  <2> DEFINE p == ErrorProcessing(page, f)
  <2>1. p = ProcessQueue(Complete(Ended(page, f, "error")))
    BY DEF ErrorProcessing, Ended
  <2>2. PageInv(p, again) /\ Follows(page, p)
    BY <1>1, <2>1, EndOfUpload
  <2> QED BY <1>2, <1>4, <2>2, BecomesInv
<1> QED BY <1>3, <1>4 DEF UploadAnswered

LEMMA ServerStoresInv ==
    ASSUME IInv, NEW f \in Files, ServerStores(f)
    PROVE  IInv'
<1>0. /\ page' = page /\ again' = again /\ listing' = listing /\ deletes' = deletes
      /\ stored' = stored \cup {f} /\ upload' = [upload EXCEPT ![f] = "kept"]
      /\ upload[f] = "sent"
  BY DEF ServerStores
<1>1. PageInv(page, again)'
  BY <1>0 DEF IInv
<1>2. ServerInv'
  BY <1>0 DEF IInv, ServerInv
<1>3. DeletesInv'
  BY <1>0 DEF IInv, DeletesInv
<1>4. StoredInv'
  <2>1. <<f, "chosen">> \in page.rows
    BY <1>0 DEF IInv, PageInv, RowsOK, ServerInv
  <2>2. f \notin Before
    BY FilesAssumption
  <2> QED BY <1>0, <2>1, <2>2 DEF IInv, StoredInv
<1> QED BY <1>1, <1>2, <1>3, <1>4 DEF IInv

LEMMA ClickDeleteInv ==
    ASSUME IInv, NEW row \in Row, ClickDelete(row)
    PROVE  IInv'
<1>0. /\ page' = page /\ again' = again /\ listing' = listing /\ stored' = stored
      /\ upload' = upload /\ deletes' = [deletes EXCEPT ![row] = @ + 1]
      /\ row \in page.rows /\ (row[2] = "chosen" => page.status[row[1]] = "success")
  BY DEF ClickDelete, HasDeleteLink
<1>1. PageInv(page, again)'
  BY <1>0 DEF IInv
<1>2. ServerInv'
  BY <1>0 DEF IInv, ServerInv
<1>3. DeletesInv'
  BY <1>0 DEF IInv, DeletesInv, ServerInv
<1>4. StoredInv'
  BY <1>0 DEF IInv, StoredInv
<1> QED BY <1>1, <1>2, <1>3, <1>4 DEF IInv

(***************************************************************************)
(* The answer of a delete request that comes a second time counts off a    *)
(* row too many, and "again" counts those.                                 *)
(***************************************************************************)
LEMMA RemovedFacts ==
    ASSUME NEW p, NEW n \in Nat, PageInv(p, n), NEW row \in Row,
           row[2] = "chosen" => p.status[row[1]] = "success"
    PROVE  LET q == RemovedFile(p, row) IN
           /\ PageInv(q, IF row \in p.rows THEN n ELSE n + 1)
           /\ q.status = p.status /\ q.rows = p.rows \ {row} /\ q.files = p.files
<1> DEFINE q  == RemovedFile(p, row)
           rs == p.rows \ {row}
           c  == p.count - 1
           e  == p.empty \/ p.count <= 1
           m  == IF row \in p.rows THEN n ELSE n + 1
<1>0. /\ p \in Page /\ p.count \in Int /\ p.empty \in BOOLEAN /\ p.rows \in SUBSET Row
      /\ IsFiniteSet(p.rows) /\ Cardinality(p.rows) \in Nat
      /\ p.count + n = Cardinality(p.rows)
  BY RowsFinite DEF PageInv, ShapeOK, Page, MessageOK
<1>1. /\ rs \in SUBSET Row /\ c \in Int /\ e \in BOOLEAN
      /\ rs \in SUBSET p.rows /\ \A x \in p.rows : x \in rs \/ x = row
  BY <1>0
<1>2. q = [p EXCEPT !.rows = rs, !.count = c, !.empty = e]
  BY DEF RemovedFile
<1>3. Cardinality(rs) \in Nat /\ (rs = {} <=> Cardinality(rs) = 0)
  <2>1. IsFiniteSet(rs)
    BY <1>1, RowsFinite
  <2>2. rs = {} <=> Cardinality(rs) = 0
    BY <2>1, FS_EmptySet
  <2> QED BY <2>1, <2>2, FS_CardinalityType
<1>4. c + m = Cardinality(rs) /\ m \in Nat
  <2>1. CASE row \in p.rows
    <3>1. Cardinality(rs) = Cardinality(p.rows) - 1
      BY <1>0, <2>1, FS_RemoveElement
    <3> QED BY <1>0, <2>1, <3>1
  <2>2. CASE row \notin p.rows
    <3>1. Cardinality(rs) = Cardinality(p.rows)
      <4>1. rs = p.rows
        BY <2>2
      <4> QED BY <4>1
    <3>2. m = n + 1
      BY <2>2
    <3> HIDE DEF rs, m
    <3> QED BY <1>0, <3>1, <3>2
  <2> QED BY <2>1, <2>2
<1>5. rs = {} /\ p.files # <<>> => e
  <2> SUFFICES ASSUME rs = {}, p.files # <<>> PROVE e
    OBVIOUS
  <2>1. CASE p.rows = {}
    BY <2>1 DEF PageInv, MessageOK
  <2>2. CASE p.rows # {}
    <3>1. m = n
      BY <2>2
    <3>2. p.count - 1 + n = 0
      BY <1>3, <1>4, <3>1
    <3> QED BY <1>0, <3>2
  <2> QED BY <2>1, <2>2
<1>6. e /\ rs # {} => m > 0
  <2> SUFFICES ASSUME e, rs # {}, row \in p.rows PROVE n > 0
    BY <1>0
  <2>1. CASE p.empty
    BY <2>1 DEF PageInv, MessageOK
  <2>2. CASE p.count <= 1
    <3>1. p.count - 1 + n > 0
      BY <1>3, <1>4
    <3> QED BY <1>0, <2>2, <3>1
  <2> QED BY <2>1, <2>2
<1> HIDE DEF q, rs, c, e, m
<1>7. /\ q \in Page /\ q.status = p.status /\ q.files = p.files /\ q.timers = p.timers
      /\ q.bar = p.bar /\ q.rows = rs /\ q.count = c /\ q.empty = e
      /\ q.overtaken = p.overtaken
  BY <1>0, <1>1, <1>2 DEF Page
<1>8. Uploading(q) = Uploading(p) /\ \A t : InStatus(q, t) = InStatus(p, t)
  BY <1>7 DEF Uploading, InStatus
<1>9. ShapeOK(q)
  BY <1>7, <1>8 DEF ShapeOK, PageInv
<1>10. QueueOK(q) /\ BarShown(q) /\ BarWillHide(q)
  BY <1>7, <1>8 DEF QueueOK, BarShown, BarWillHide, PageInv, Pending
<1>11. RowsOK(q)
  <2> SUFFICES ASSUME NEW f \in Files
               PROVE  /\ p.status[f] \in {"queued", "uploading"} => <<f, "chosen">> \in rs
                      /\ <<f, "chosen">> \in rs => p.status[f] # "none"
    BY <1>7 DEF RowsOK
  <2>1. /\ p.status[f] \in {"queued", "uploading"} => <<f, "chosen">> \in p.rows
        /\ <<f, "chosen">> \in p.rows => p.status[f] # "none"
    BY DEF RowsOK, PageInv
  <2>2. row = <<f, "chosen">> => p.status[f] = "success"
    OBVIOUS
  <2> QED BY <1>1, <2>1, <2>2
<1>12. MessageOK(q, m)
  BY <1>4, <1>5, <1>6, <1>7 DEF MessageOK
<1>13. PageInv(q, m)
  BY <1>9, <1>10, <1>11, <1>12 DEF PageInv
<1> QED BY <1>7, <1>13 DEF q, m, rs

LEMMA DeleteAnsweredInv ==
    ASSUME IInv, NEW row \in Row, DeleteAnswered(row)
    PROVE  IInv' /\ InOrder(page, page')
<1>0. /\ upload' = upload /\ listing' = listing /\ deletes[row] > 0
      /\ deletes' = [deletes EXCEPT ![row] = @ - 1]
      /\ stored' \in {stored, stored \ {row[1]}}
      /\ deletes' \in [Row -> Nat] /\ \A x \in Row : deletes'[x] > 0 => deletes[x] > 0
      /\ row[2] = "chosen" => page.status[row[1]] = "success"
  BY DEF DeleteAnswered, IInv, ServerInv, DeletesInv
<1>1. CASE UNCHANGED <<page, again>>
  <2>0. page' = page /\ again' = again
    BY <1>1
  <2>1. PageInv(page, again)'
    BY <2>0 DEF IInv
  <2>2. ServerInv'
    BY <1>0, <2>0 DEF IInv, ServerInv
  <2>3. DeletesInv'
    BY <1>0, <2>0 DEF IInv, DeletesInv
  <2>4. StoredInv'
    BY <1>0, <2>0 DEF IInv, StoredInv
  <2>5. InOrder(page, page')
    BY <2>0, InOrderSame
  <2> QED BY <2>1, <2>2, <2>3, <2>4, <2>5 DEF IInv
<1>2. CASE /\ stored' = stored \ {row[1]}
           /\ page'   = RemovedFile(page, row)
           /\ again'  = IF row \in page.rows THEN again ELSE again + 1
  <2>0. /\ PageInv(page', again') /\ page'.status = page.status
        /\ page'.rows = page.rows \ {row} /\ page'.files = page.files
    BY <1>0, <1>2, RemovedFacts DEF IInv, ServerInv
  <2>1. PageInv(page, again)'
    BY <2>0
  <2>2. ServerInv'
    BY <1>0, <1>2, <2>0 DEF IInv, ServerInv
  <2>3. DeletesInv'
    BY <1>0, <2>0 DEF IInv, DeletesInv
  <2>4. StoredInv'
    BY <1>0, <1>2, <2>0 DEF IInv, StoredInv
  <2>5. InOrder(page, page')
    BY <2>0, InOrderSame
  <2> QED BY <2>1, <2>2, <2>3, <2>4, <2>5 DEF IInv
<1> QED BY <1>1, <1>2 DEF DeleteAnswered

LEMMA ServerListsInv ==
    ASSUME IInv, ServerLists
    PROVE  IInv'
<1>0. /\ page' = page /\ again' = again /\ stored' = stored /\ upload' = upload
      /\ deletes' = deletes /\ listing.state = "asked"
      /\ listing' = [state |-> "listed", files |-> stored]
  BY DEF ServerLists
<1>1. PageInv(page, again)'
  BY <1>0 DEF IInv
<1>2. ServerInv'
  BY <1>0 DEF IInv, ServerInv
<1>3. DeletesInv'
  BY <1>0 DEF IInv, DeletesInv
<1>4. StoredInv'
  BY <1>0 DEF IInv, StoredInv
<1> QED BY <1>1, <1>2, <1>3, <1>4 DEF IInv

\* The rows of a listing are new, because it is answered only once.
LEMMA RestoredFacts ==
    ASSUME NEW p, NEW n \in Nat, PageInv(p, n), NEW S \in SUBSET (Files \cup Before),
           \A row \in p.rows : row[2] # "restored"
    PROVE  LET q == Restored(p, S) IN
           /\ PageInv(q, n) /\ q.status = p.status /\ q.files = p.files
           /\ q.rows = p.rows \cup (S \X {"restored"})
<1> DEFINE q  == Restored(p, S)
           new == S \X {"restored"}
           rs == p.rows \cup new
           c  == p.count + Cardinality(S)
           e  == p.empty /\ S = {}
<1>0. /\ p \in Page /\ p.count \in Int /\ p.empty \in BOOLEAN /\ p.rows \in SUBSET Row
      /\ IsFiniteSet(p.rows) /\ Cardinality(p.rows) \in Nat
  BY RowsFinite DEF PageInv, ShapeOK, Page
<1>1. IsFiniteSet(S) /\ Cardinality(S) \in Nat
  <2>1. IsFiniteSet(Files \cup Before)
    BY FilesAssumption, FS_Union
  <2> QED BY <2>1, FS_Subset, FS_CardinalityType
<1>2. /\ new \in SUBSET Row /\ p.rows \cap new = {} /\ rs \in SUBSET Row
      /\ c \in Int /\ e \in BOOLEAN
      /\ \A f \in Files : <<f, "chosen">> \in rs <=> <<f, "chosen">> \in p.rows
  BY <1>0, <1>1 DEF Row
<1>3. IsFiniteSet(new) /\ Cardinality(new) = Cardinality(S)
  <2>1. IsFiniteSet({"restored"}) /\ Cardinality({"restored"}) = 1
    BY FS_Singleton
  <2>2. Cardinality(new) = Cardinality(S) * Cardinality({"restored"})
    BY <1>1, <2>1, FS_Product
  <2>3. IsFiniteSet(new)
    BY <1>2, RowsFinite
  <2> QED BY <1>1, <2>1, <2>2, <2>3
<1>4. Cardinality(rs) = Cardinality(p.rows) + Cardinality(S)
  <2>1. Cardinality(p.rows \cap new) = 0
    BY <1>2, FS_EmptySet
  <2>2. Cardinality(rs) = Cardinality(p.rows) + Cardinality(new) - Cardinality(p.rows \cap new)
    BY <1>0, <1>3, FS_Union
  <2> HIDE DEF new, rs
  <2> QED BY <1>0, <1>1, <1>3, <2>1, <2>2
<1>5. rs = {} => p.rows = {} /\ S = {}
  <2>1. \A x \in S : <<x, "restored">> \in rs
    OBVIOUS
  <2> QED BY <2>1
<1>6. S = {} => rs = p.rows
  OBVIOUS
<1>7. q = [p EXCEPT !.rows = rs, !.count = c, !.empty = e]
  BY DEF Restored
<1>8. p.count + n = Cardinality(p.rows) => c + n = Cardinality(rs)
  <2> SUFFICES ASSUME p.count + n = Cardinality(p.rows) PROVE c + n = Cardinality(rs)
    OBVIOUS
  <2> HIDE DEF rs
  <2> QED BY <1>0, <1>1, <1>4
<1>9. (p.rows = {} /\ p.files # <<>> => p.empty) => (rs = {} /\ p.files # <<>> => e)
  BY <1>5
<1>10. (p.empty /\ p.rows # {} => n > 0) => (e /\ rs # {} => n > 0)
  BY <1>6
<1> HIDE DEF q, rs, c, e
<1>11. /\ q \in Page /\ q.status = p.status /\ q.files = p.files /\ q.timers = p.timers
       /\ q.bar = p.bar /\ q.rows = rs /\ q.count = c /\ q.empty = e
       /\ q.overtaken = p.overtaken
  BY <1>0, <1>2, <1>7 DEF Page
<1>12. Uploading(q) = Uploading(p) /\ \A t : InStatus(q, t) = InStatus(p, t)
  BY <1>11 DEF Uploading, InStatus
<1>13. ShapeOK(q)
  BY <1>11, <1>12 DEF ShapeOK, PageInv
<1>14. QueueOK(q) /\ BarShown(q) /\ BarWillHide(q)
  BY <1>11, <1>12 DEF QueueOK, BarShown, BarWillHide, PageInv, Pending
<1>15. RowsOK(q)
  BY <1>2, <1>11 DEF RowsOK, PageInv
<1>16. MessageOK(q, n)
  BY <1>8, <1>9, <1>10, <1>11 DEF MessageOK, PageInv
<1>17. PageInv(q, n)
  BY <1>13, <1>14, <1>15, <1>16 DEF PageInv
<1> QED BY <1>11, <1>17 DEF q, rs

LEMMA RestoreInv ==
    ASSUME IInv, Restore
    PROVE  IInv' /\ InOrder(page, page')
<1>0. /\ again' = again /\ stored' = stored /\ upload' = upload /\ deletes' = deletes
      /\ listing.state # "done" /\ listing' = [listing EXCEPT !.state = "done"]
      /\ listing.files \in SUBSET (Files \cup Before)
      /\ listing'.state = "done" /\ listing'.files = listing.files
      /\ page \in Page /\ PageInv(page, again)
      /\ stored \in SUBSET (Files \cup Before)
      /\ listing' \in [state : {"asked", "listed", "done"}, files : SUBSET (Files \cup Before)]
  BY DEF Restore, IInv, ServerInv, PageInv, ShapeOK
<1> DEFINE added == IF listing.state = "listed" THEN listing.files ELSE {}
<1>1. /\ PageInv(page', again) /\ page'.status = page.status /\ page'.files = page.files
      /\ page'.rows = page.rows \cup (added \X {"restored"})
  <2>1. CASE listing.state = "listed"
    <3>1. IsFiniteSet(listing.files)
      <4>1. IsFiniteSet(Files \cup Before)
        BY FilesAssumption, FS_Union
      <4> QED BY <1>0, <4>1, FS_Subset
    <3>2. page' = FoldSet(LAMBDA f, p : AddedFile(p, <<f, "restored">>), page, listing.files)
      BY <2>1 DEF Restore
    <3>3. page' = Restored(page, listing.files)
      BY <1>0, <3>1, <3>2, RestoreFold
    <3>4. \A row \in page.rows : row[2] # "restored"
      BY <1>0 DEF IInv, DeletesInv, Page
    <3>5. again \in Nat
      BY DEF IInv, ServerInv
    <3> QED BY <1>0, <2>1, <3>3, <3>4, <3>5, RestoredFacts
  <2>2. CASE listing.state # "listed"
    <3>1. page' = page
      BY <2>2 DEF Restore
    <3> QED BY <1>0, <2>2, <3>1
  <2> QED BY <2>1, <2>2
<1>2. PageInv(page, again)'
  BY <1>0, <1>1
<1>3. ServerInv'
  BY <1>0, <1>1 DEF IInv, ServerInv
<1>4. DeletesInv'
  BY <1>0, <1>1 DEF IInv, DeletesInv
<1>5. StoredInv'
  <2>1. \A f \in stored \cap Files : <<f, "chosen">> \in page'.rows
    BY <1>1 DEF IInv, StoredInv
  <2>2. ASSUME Before \subseteq listing.files, NEW f \in stored \cap Before
        PROVE  <<f, "restored">> \in page'.rows
    <3>1. listing.state = "listed"
      BY <1>0, <2>2 DEF IInv, ServerInv
    <3> QED BY <1>1, <2>2, <3>1
  <2> QED BY <1>0, <2>1, <2>2 DEF StoredInv
<1>6. InOrder(page, page')
  BY <1>1, InOrderSame
<1> QED BY <1>2, <1>3, <1>4, <1>5, <1>6 DEF IInv
-----------------------------------------------------------------------------
(* The theorems *)

LEMMA NextInv == IInv /\ [Next]_vars => IInv'
<1> SUFFICES ASSUME IInv, [Next]_vars PROVE IInv'
  OBVIOUS
<1>1. CASE Select
  BY <1>1, SelectInv
<1>2. CASE TimerFires
  BY <1>2, TimerFiresInv
<1>3. CASE ServerLists
  BY <1>3, ServerListsInv
<1>4. CASE Restore
  BY <1>4, RestoreInv
<1>5. ASSUME NEW f \in Files, ServerStores(f) PROVE IInv'
  BY <1>5, ServerStoresInv
<1>6. ASSUME NEW f \in Files, UploadAnswered(f) PROVE IInv'
  BY <1>6, UploadAnsweredInv
<1>7. ASSUME NEW row \in Row, ClickDelete(row) PROVE IInv'
  BY <1>7, ClickDeleteInv
<1>8. ASSUME NEW row \in Row, DeleteAnswered(row) PROVE IInv'
  BY <1>8, DeleteAnsweredInv
<1>9. CASE UNCHANGED vars
  <2>1. /\ page' = page /\ stored' = stored /\ upload' = upload /\ deletes' = deletes
        /\ listing' = listing /\ again' = again
    BY <1>9 DEF vars
  <2>2. PageInv(page, again)' /\ StoredInv'
    BY <2>1 DEF IInv, StoredInv
  <2>3. ServerInv' /\ DeletesInv'
    BY <2>1 DEF IInv, ServerInv, DeletesInv
  <2> QED BY <2>2, <2>3 DEF IInv
<1> QED BY <1>1, <1>2, <1>3, <1>4, <1>5, <1>6, <1>7, <1>8, <1>9 DEF Next

(***************************************************************************)
(* The inductive invariant holds in every state the page can come to.      *)
(***************************************************************************)
THEOREM Invariance == Spec => []IInv
BY InitInv, NextInv, PTL DEF Spec

(***************************************************************************)
(* Every variable keeps its shape, and a chosen file is in the queue's     *)
(* list once, however often the queue is processed.                        *)
(***************************************************************************)
THEOREM TypeCorrect == Spec => []TypeOK
<1>1. IInv => TypeOK
  BY DEF IInv, PageInv, ShapeOK, Page, Statuses, ServerInv, TypeOK
<1> QED BY <1>1, Invariance, PTL

(***************************************************************************)
(* Never more uploads than parallelUploads are under way, and no file is   *)
(* left in the queue with nothing that will start it.                      *)
(***************************************************************************)
THEOREM QueueSafe == Spec => []QueueWithinLimit
<1>1. IInv => QueueWithinLimit
  BY DEF IInv, PageInv, QueueOK, QueueWithinLimit
<1> QED BY <1>1, Invariance, PTL

\* Every event leaves the queue in order.
LEMMA NextInOrder ==
    ASSUME IInv, [Next]_vars
    PROVE  InOrder(page, page')
<1>1. CASE UNCHANGED page
  BY <1>1, InOrderSame
<1>2. ASSUME ~UNCHANGED page PROVE InOrder(page, page')
  <2>1. Select \/ TimerFires \/ Restore \/ (\E f \in Files : UploadAnswered(f))
           \/ (\E row \in Row : DeleteAnswered(row))
    BY <1>2 DEF Next, vars, ServerLists, ServerStores, ClickDelete
  <2> QED BY <2>1, SelectInv, TimerFiresInv, RestoreInv, UploadAnsweredInv, DeleteAnsweredInv
<1> QED BY <1>1, <1>2

(***************************************************************************)
(* Of any number of files, in any selections and with any failures, each   *)
(* is uploaded at most once, and never before one that waits longer.  With *)
(* QueueSafe it leaves of EveryFileSettles only that timers fire and that  *)
(* requests are answered.                                                  *)
(***************************************************************************)
THEOREM QueueInOrder == Spec => OldestFirst
<1>1. IInv /\ [Next]_vars =>
         [\A f \in Files :
             /\ Onward(page.status[f], page'.status[f])
             /\ page.status[f] = "queued" /\ page'.status[f] # "queued" =>
                   \A g \in AheadOf(page, f) : page'.status[g] # "queued"]_vars
  BY NextInOrder DEF InOrder
<1> QED BY <1>1, Invariance, PTL DEF Spec, OldestFirst

(***************************************************************************)
(* The progress bar goes when the uploads are over, and during them it is  *)
(* missing only if all of them began before a late queuecomplete.          *)
(***************************************************************************)
THEOREM BarSafe == Spec => []BarExplained
<1>1. IInv => BarExplained
  <2> SUFFICES ASSUME IInv PROVE BarExplained
    OBVIOUS
  <2>1. page.timers = <<>> => ~Pending(page, "queuecomplete")
    BY DEF Pending, Range
  <2> QED BY <2>1 DEF IInv, PageInv, BarShown, BarWillHide, BarExplained
<1> QED BY <1>1, Invariance, PTL

(***************************************************************************)
(* The message that there are no files comes with the last row to go, and  *)
(* stands above rows only after an answer for a row that had gone before.  *)
(***************************************************************************)
THEOREM MessageSafe == Spec => []MessageExplained
<1>1. IInv => MessageExplained
  BY DEF IInv, PageInv, MessageOK, MessageExplained
<1> QED BY <1>1, Invariance, PTL

(***************************************************************************)
(* What the server holds is on the page once the earlier files have been   *)
(* listed, in whatever order uploads, deletions and the listing overlap.   *)
(***************************************************************************)
THEOREM ListedSafe == Spec => []StoredIsListed
<1>1. IInv => StoredIsListed
  <2> SUFFICES ASSUME IInv, listing.state = "done", Before \subseteq listing.files,
                      NEW f \in stored
               PROVE  \E row \in page.rows : row[1] = f
    BY DEF StoredIsListed
  <2>1. f \in Files \/ f \in Before
    BY DEF IInv, ServerInv
  <2>2. <<f, "chosen">> \in page.rows \/ <<f, "restored">> \in page.rows
    BY <2>1 DEF IInv, StoredInv
  <2> QED BY <2>2
<1> QED BY <1>1, Invariance, PTL
=============================================================================
