-------------------------- MODULE PdfScaling_proofs --------------------------
(***************************************************************************)
(* The scaling of documents of any length, to any upright size.            *)
(***************************************************************************)
EXTENDS PdfScaling, TLAPS

SizedPage == [media |-> Size, crop |-> Size]

\* What scalePage puts before the content of a page it has to resize.
ContentScale(b) == IF MediaFactor(b) = ScaleUp THEN Unscaled ELSE MediaFactor(b)

Untouched(i) == boxes[i] = original[i] /\ scale[i] = Unscaled
Resized(i)   == boxes[i] = SizedPage /\ ~IsPageCorrectSize(original[i])
Dealt(i)     == \/ Untouched(i) /\ IsPageCorrectSize(original[i])
                \/ Resized(i) /\ scale[i] = ContentScale(original[i].media)

\* The loop has dealt with the pages before the one it is at, and a failure
\* may leave that one with its new boxes and its old content.
PagesInOrder ==
    /\ \A i \in 1..Length : i < page => Dealt(i)
    /\ \A i \in 1..Length : i > page => Untouched(i)
    /\ page <= Length => \/ Untouched(page)
                         \/ status = "failed" /\ Resized(page) /\ scale[page] = Unscaled

StatusKnown ==
    /\ status \in {"checking", "same"} => page = 1
    /\ status = "same" => \A i \in 1..Length : IsPageCorrectSize(original[i])
    /\ status = "scaled" => page = Length + 1

Inv == TypeOK /\ PagesInOrder /\ StatusKnown
-----------------------------------------------------------------------------
(* Arithmetic *)

\* Rounding to the nearest whole number of ten-thousandths loses at most one,
\* and a share of a longer length is never more than the whole.
LEMMA ShareBounds ==
    ASSUME NEW n \in Nat, NEW d \in Nat \ {0}
    PROVE  /\ RoundedShare(n, d) \in Nat
           /\ RoundedShare(n, d) * d <= 10000 * n + d
           /\ n <= d => RoundedShare(n, d) <= 10000
  <1> DEFINE q == (10000 * n) \div d
             r == (10000 * n) % d
             s == RoundedShare(n, d)
  <1>1. q \in Nat /\ r \in Nat /\ 10000 * n = q * d + r /\ r < d
    OBVIOUS
  <1>2. s = IF 2 * r > d \/ (2 * r = d /\ q % 2 = 1) THEN q + 1 ELSE q
    BY DEF RoundedShare
  <1> HIDE DEF q, r, s
  <1>3. s \in Nat /\ (s = q \/ (s = q + 1 /\ r > 0))
    BY <1>1, <1>2
  <1>4. q * d \in Nat /\ (q + 1) * d = q * d + d
    BY <1>1
  <1>5. s * d <= 10000 * n + d
    BY <1>1, <1>3, <1>4
  <1>6. ASSUME n <= d PROVE s <= 10000
    <2>1. CASE q < 10000
      BY <1>1, <1>3, <2>1
    <2>2. CASE q >= 10000
      <3>1. PICK k \in Nat : q = 10000 + k
        BY <1>1, <2>2
      <3>2. q * d = 10000 * d + k * d /\ k * d >= 0
        BY <3>1
      <3>3. r = 0 /\ k * d = 0
        BY <1>1, <1>6, <3>2
      <3>4. k = 0
        BY <3>3
      <3> QED BY <1>3, <3>1, <3>3, <3>4
    <2> QED BY <1>1, <2>1, <2>2
  <1> QED BY <1>3, <1>5, <1>6 DEF s

LEMMA ShareIsNoMoreThanAll ==
    \A n \in Nat, d \in Nat \ {0} :
        RoundedShare(n, d) \in Nat /\ (n <= d => RoundedShare(n, d) <= 10000)
  BY ShareBounds

\* A smaller factor gives a smaller product.
LEMMA ProductIsMonotonic ==
    ASSUME NEW a \in Nat, NEW b \in Nat, NEW c \in Nat, a <= b
    PROVE  c * a <= c * b
  OBVIOUS

LEMMA TargetIsABox == \A b \in Boxes : TargetOf(b) \in Boxes
  BY SizeAssumption DEF TargetOf, Boxes

\* The factor is the share of a direction that is too long, and no other
\* direction that is too long asks for less.
LEMMA FactorFacts ==
    ASSUME NEW b \in Boxes
    PROVE  LET t    == TargetOf(b)
               f    == MediaFactor(b)
               tall == RoundedShare(t.height, b.height)
               wide == RoundedShare(t.width, b.width)
           IN  \/ f = ScaleUp /\ b.height < t.height /\ b.width < t.width
               \/ /\ f \in 0..Unscaled
                  /\ b.height >= t.height => f <= tall
                  /\ b.width >= t.width => f <= wide
  <1> DEFINE t    == TargetOf(b)
             f    == MediaFactor(b)
             tall == RoundedShare(t.height, b.height)
             wide == RoundedShare(t.width, b.width)
  <1> DEFINE Facts == \/ f = ScaleUp /\ b.height < t.height /\ b.width < t.width
                      \/ /\ f \in 0..Unscaled
                         /\ b.height >= t.height => f <= tall
                         /\ b.width >= t.width => f <= wide
  <1> SUFFICES Facts
    OBVIOUS
  <1>1. /\ b.height \in Nat \ {0} /\ b.width \in Nat \ {0}
        /\ t.height \in Nat \ {0} /\ t.width \in Nat \ {0}
    BY TargetIsABox DEF Boxes
  <1> HIDE DEF t
  <1>2. /\ tall \in Nat /\ (b.height >= t.height => tall <= Unscaled)
        /\ wide \in Nat /\ (b.width >= t.width => wide <= Unscaled)
    <2>1. tall \in Nat /\ (t.height <= b.height => tall <= 10000)
      BY <1>1, ShareIsNoMoreThanAll
    <2>2. wide \in Nat /\ (t.width <= b.width => wide <= 10000)
      BY <1>1, ShareIsNoMoreThanAll
    <2> HIDE DEF tall, wide
    <2> QED BY <1>1, <2>1, <2>2 DEF Unscaled
  <1>3. f = CASE b.height < t.height /\ b.width < t.width   -> ScaleUp
              [] b.height < t.height /\ b.width >= t.width  -> wide
              [] b.height >= t.height /\ b.width < t.width  -> tall
              [] b.height >= t.height /\ b.width >= t.width ->
                    IF tall < wide THEN tall ELSE wide
    BY DEF MediaFactor, t
  <1> HIDE DEF f, tall, wide
  <1>4. CASE b.height < t.height /\ b.width < t.width
    <2>1. f = ScaleUp
      BY <1>1, <1>3, <1>4
    <2> QED BY <1>4, <2>1
  <1>5. CASE b.height < t.height /\ b.width >= t.width
    <2>1. f = wide
      BY <1>1, <1>3, <1>5
    <2> QED BY <1>1, <1>2, <1>5, <2>1 DEF Unscaled
  <1>6. CASE b.height >= t.height /\ b.width < t.width
    <2>1. f = tall
      BY <1>1, <1>3, <1>6
    <2> QED BY <1>1, <1>2, <1>6, <2>1 DEF Unscaled
  <1>7. CASE b.height >= t.height /\ b.width >= t.width
    <2>1. f = IF tall < wide THEN tall ELSE wide
      BY <1>1, <1>3, <1>7
    <2>2. f \in 0..Unscaled /\ f <= tall /\ f <= wide
      BY <1>2, <1>7, <2>1 DEF Unscaled
    <2> QED BY <2>2
  <1> QED BY <1>1, <1>4, <1>5, <1>6, <1>7

\* No page that has to be resized is taken for one to leave alone.
LEMMA FactorIsKnown ==
    ASSUME NEW b \in Boxes
    PROVE  /\ MediaFactor(b) # NoChange
           /\ MediaFactor(b) = ScaleUp \/ MediaFactor(b) \in 0..Unscaled
           /\ ContentScale(b) \in 0..Unscaled
  <1>1. MediaFactor(b) = ScaleUp \/ MediaFactor(b) \in 0..Unscaled
    BY FactorFacts
  <1>2. CASE MediaFactor(b) = ScaleUp
    BY <1>2 DEF ContentScale, ScaleUp, NoChange, Unscaled
  <1>3. CASE MediaFactor(b) \in 0..Unscaled
    <2>1. ASSUME NEW s \in 0..Unscaled PROVE s # NoChange
      BY DEF NoChange, Unscaled
    <2>2. ASSUME NEW s \in 0..Unscaled PROVE s # ScaleUp
      BY DEF ScaleUp, Unscaled
    <2> QED BY <1>3, <2>1, <2>2 DEF ContentScale
  <1> QED BY <1>1, <1>2, <1>3

\* What is left of a length under its scale fits the room, but for the last
\* of the four places.
Fits(length, s, room) == length * s <= room * Unscaled + length

\* A length under a factor that is a share of it fits, and so does a length
\* that fits already under any factor.
LEMMA LengthFits ==
    ASSUME NEW length \in Nat \ {0}, NEW room \in Nat, NEW s \in 0..Unscaled,
           length < room \/ s <= RoundedShare(room, length)
    PROVE  Fits(length, s, room)
  <1>1. CASE length < room
    <2>1. length * s <= length * 10000
      BY ProductIsMonotonic DEF Unscaled
    <2> DEFINE product == length * s
    <2>2. product \in Nat /\ product <= length * 10000
      BY <2>1 DEF Unscaled
    <2> HIDE DEF product
    <2>3. product <= room * Unscaled + length
      BY <1>1, <2>2 DEF Unscaled
    <2> QED BY <2>3 DEF Fits, product
  <1>2. CASE s <= RoundedShare(room, length)
    <2>1. RoundedShare(room, length) \in Nat
      BY ShareBounds
    <2>2. length * s <= length * RoundedShare(room, length)
      BY <1>2, <2>1, ProductIsMonotonic DEF Unscaled
    <2>3. RoundedShare(room, length) * length <= 10000 * room + length
      BY ShareBounds
    <2>4. length * RoundedShare(room, length) = RoundedShare(room, length) * length
      BY <2>1
    <2> QED BY <2>1, <2>2, <2>3, <2>4 DEF Fits, Unscaled
  <1> QED BY <1>1, <1>2

\* Under its scale a box of any size fits the size turned the way it lies.
LEMMA ContentFits ==
    ASSUME NEW b \in Boxes
    PROVE  /\ Fits(b.width, ContentScale(b), TargetOf(b).width)
           /\ Fits(b.height, ContentScale(b), TargetOf(b).height)
  <1>1. /\ b.width \in Nat \ {0} /\ b.height \in Nat \ {0}
        /\ TargetOf(b).width \in Nat /\ TargetOf(b).height \in Nat
    BY TargetIsABox DEF Boxes
  <1>2. ContentScale(b) \in 0..Unscaled
    BY FactorIsKnown
  <1>3. /\ b.width < TargetOf(b).width
             \/ ContentScale(b) <= RoundedShare(TargetOf(b).width, b.width)
        /\ b.height < TargetOf(b).height
             \/ ContentScale(b) <= RoundedShare(TargetOf(b).height, b.height)
    BY <1>1, FactorFacts DEF ContentScale, ScaleUp
  <1> QED BY <1>1, <1>2, <1>3, LengthFits

\* A side that would fit a page of the room and `turned` loses no more than
\* its distance and that on a page that begins at the origin.
LEMMA SideLosesAtMost ==
    ASSUME NEW start \in Int, NEW length \in Nat, NEW room \in Nat, NEW turned \in Nat,
           NEW s \in Nat, Fits(length, s, room + turned)
    PROVE  LosesAtMost(turned, [start |-> start, length |-> length], s,
                       [start |-> 0, length |-> room])
  <1> DEFINE lost    == Distance(start) * s
             moved   == start * s
             product == length * s
             end     == (start + length) * s
  <1>1. lost \in Nat /\ moved \in Int /\ product \in Nat
    BY DEF Distance
  <1>2. moved <= lost /\ -moved <= lost
    <2>1. CASE start >= 0
      <3>1. lost = moved
        BY <2>1 DEF Distance
      <3> HIDE DEF moved
      <3> QED BY <1>1, <3>1
    <2>2. CASE start < 0
      <3>1. lost = -moved
        BY <2>2 DEF Distance
      <3> HIDE DEF moved
      <3> QED BY <1>1, <3>1
    <2> QED BY <2>1, <2>2
  <1>3. end = moved + product
    OBVIOUS
  <1>4. product <= (room + turned) * Unscaled + length
    BY DEF Fits
  <1> HIDE DEF lost, moved, product, end
  <1>5. /\ 0 * Unscaled - moved <= lost + turned * Unscaled + length
        /\ end - (0 + room) * Unscaled <= lost + turned * Unscaled + length
    BY <1>1, <1>2, <1>3, <1>4 DEF Unscaled
  <1>6. LosesAtMost(turned, [start |-> start, length |-> length], s,
                    [start |-> 0, length |-> room])
          <=> /\ 0 * Unscaled - moved <= lost + turned * Unscaled + length
              /\ end - (0 + room) * Unscaled <= lost + turned * Unscaled + length
    BY DEF LosesAtMost, lost, moved, end
  <1> QED BY <1>5, <1>6

\* What a page that is scaled from a box to the size may lose of it.
LEMMA BoxLosesAtMost ==
    ASSUME NEW b \in Boxes
    PROVE  /\ LosesAtMost(NotTurned(b), Across(b), ContentScale(b), Across(Size))
           /\ LosesAtMost(0, Up(b), ContentScale(b), Up(Size))
  <1>1. /\ b.x \in Int /\ b.y \in Int /\ b.width \in Nat /\ b.height \in Nat
        /\ Size.width \in Nat /\ Size.height \in Nat /\ Size.width < Size.height
        /\ Across(Size) = [start |-> 0, length |-> Size.width]
        /\ Up(Size) = [start |-> 0, length |-> Size.height]
    BY SizeAssumption DEF Boxes, Across, Up
  <1>2. ContentScale(b) \in Nat
    <2>1. ContentScale(b) \in 0..Unscaled
      BY FactorIsKnown
    <2>2. \A s \in 0..Unscaled : s \in Nat
      BY DEF Unscaled
    <2> QED BY <2>1, <2>2
  <1>3. /\ NotTurned(b) \in Nat /\ TargetOf(b).width = Size.width + NotTurned(b)
        /\ TargetOf(b).height \in Nat /\ TargetOf(b).height <= Size.height
    BY <1>1, SizeAssumption DEF NotTurned, TargetOf, Boxes
  <1>4. Fits(b.width, ContentScale(b), Size.width + NotTurned(b))
    BY <1>3, ContentFits
  <1>5. Fits(b.height, ContentScale(b), Size.height + 0)
    <2> DEFINE product == b.height * ContentScale(b)
    <2>1. product \in Nat
      BY <1>1, <1>2
    <2>2. product <= TargetOf(b).height * Unscaled + b.height
      BY ContentFits DEF Fits
    <2> HIDE DEF product
    <2>3. product <= (Size.height + 0) * Unscaled + b.height
      BY <1>1, <1>3, <2>1, <2>2 DEF Unscaled
    <2> QED BY <2>3 DEF Fits, product
  <1>6. LosesAtMost(NotTurned(b), [start |-> b.x, length |-> b.width], ContentScale(b),
                    [start |-> 0, length |-> Size.width])
    BY <1>1, <1>2, <1>3, <1>4, SideLosesAtMost
  <1>7. LosesAtMost(0, [start |-> b.y, length |-> b.height], ContentScale(b),
                    [start |-> 0, length |-> Size.height])
    BY <1>1, <1>2, <1>5, SideLosesAtMost
  <1> QED BY <1>1, <1>6, <1>7 DEF Across, Up

\* A page with new boxes is one of the right size.
LEMMA SizedPageIsCorrect == IsPageCorrectSize(SizedPage)
  BY SizeAssumption DEF Boxes, SizedPage, IsPageCorrectSize, Near

LEMMA NewBoxesAreTheSize == \A p : NewBoxes(p) = SizedPage
  <1>1. Size = [x |-> 0, y |-> 0, width |-> Size.width, height |-> Size.height]
    BY SizeAssumption DEF Boxes
  <1> QED BY <1>1 DEF NewBoxes, NewBox, SizedPage
-----------------------------------------------------------------------------
(* The steps *)

LEMMA InitEstablishes == Init => Inv
  <1> SUFFICES ASSUME Init PROVE Inv
    OBVIOUS
  <1> USE DEF Init
  <1>1. TypeOK
    BY LengthAssumption DEF TypeOK, Unscaled
  <1>2. PagesInOrder /\ StatusKnown
    BY LengthAssumption DEF PagesInOrder, Untouched, StatusKnown
  <1> QED BY <1>1, <1>2 DEF Inv

\* The length of the document is that of its list of pages.
LEMMA DocumentHasItsPages ==
    ASSUME TypeOK
    PROVE  IsDocumentWithinSizeTolerance(boxes) <=>
             \A i \in 1..Length : IsPageCorrectSize(boxes[i])
  <1>1. Len(boxes) = Length
    BY LengthAssumption DEF TypeOK
  <1> QED BY <1>1 DEF IsDocumentWithinSizeTolerance

LEMMA CheckDocumentPreserves == Inv /\ CheckDocument => Inv'
  <1> SUFFICES ASSUME Inv, CheckDocument PROVE Inv'
    OBVIOUS
  <1> USE DEF Inv, CheckDocument
  <1>1. TypeOK'
    BY DEF TypeOK
  <1>2. page = 1 /\ \A i \in 1..Length : Untouched(i)
    BY LengthAssumption DEF StatusKnown, PagesInOrder
  <1>3. PagesInOrder'
    BY <1>2, LengthAssumption DEF PagesInOrder, Untouched
  <1>4. status' = "same" => \A i \in 1..Length : IsPageCorrectSize(original[i])
    BY <1>2, DocumentHasItsPages DEF Untouched
  <1>5. StatusKnown'
    BY <1>2, <1>4 DEF StatusKnown
  <1> QED BY <1>1, <1>3, <1>5

LEMMA FinishPreserves == Inv /\ Finish => Inv'
  <1> SUFFICES ASSUME Inv, Finish PROVE Inv'
    OBVIOUS
  <1> USE DEF Inv, Finish
  <1>1. TypeOK'
    BY DEF TypeOK
  <1>2. PagesInOrder'
    BY DEF PagesInOrder, Untouched, Resized, Dealt
  <1>3. StatusKnown'
    BY LengthAssumption DEF StatusKnown, TypeOK
  <1> QED BY <1>1, <1>2, <1>3

\* The page the loop is at, in the document and in its boxes.
LEMMA PageAtHand ==
    ASSUME Inv, status = "scaling", page <= Length
    PROVE  /\ page \in 1..Length /\ Untouched(page)
           /\ original[page].media \in Boxes
           /\ ScalingFactor(boxes[page]) = NoChange <=> IsPageCorrectSize(original[page])
           /\ ~IsPageCorrectSize(original[page]) =>
                 ScalingFactor(boxes[page]) = MediaFactor(original[page].media)
  <1>1. page \in 1..Length /\ Untouched(page)
    BY LengthAssumption DEF Inv, TypeOK, PagesInOrder
  <1>2. original[page].media \in Boxes
    BY <1>1, PagesAssumption DEF Inv, TypeOK
  <1>3. ScalingFactor(boxes[page]) =
          IF IsPageCorrectSize(original[page]) THEN NoChange
          ELSE MediaFactor(original[page].media)
    BY <1>1 DEF Untouched, ScalingFactor
  <1> QED BY <1>1, <1>2, <1>3, FactorIsKnown

\* The loop goes on from a page it has dealt with.
LEMMA LoopGoesOn ==
    ASSUME Inv, status = "scaling", NEW p \in 1..Length, page = p,
           page' = p + 1, UNCHANGED <<original, status>>,
           TypeOK', Dealt(p)',
           \A i \in 1..Length : i # p => boxes'[i] = boxes[i] /\ scale'[i] = scale[i]
    PROVE  Inv'
  <1>1. \A i \in 1..Length : i # p => (Untouched(i)' <=> Untouched(i)) /\ (Dealt(i)' <=> Dealt(i))
    BY DEF Untouched, Resized, Dealt
  <1>2. PagesInOrder'
    <2>1. ASSUME NEW i \in 1..Length, i < p + 1 PROVE Dealt(i)'
      BY <1>1, <2>1 DEF Inv, PagesInOrder
    <2>2. ASSUME NEW i \in 1..Length, i >= p + 1 PROVE Untouched(i)'
      BY <1>1, <2>2 DEF Inv, PagesInOrder
    <2> QED BY <2>1, <2>2, LengthAssumption DEF PagesInOrder
  <1>3. StatusKnown'
    BY DEF Inv, StatusKnown
  <1> QED BY <1>2, <1>3 DEF Inv

LEMMA KeepPagePreserves == Inv /\ KeepPage => Inv'
  <1> SUFFICES ASSUME Inv, KeepPage PROVE Inv'
    OBVIOUS
  <1>1. PICK p \in 1..Length : p = page
    BY PageAtHand DEF KeepPage
  <1>2. Untouched(p) /\ IsPageCorrectSize(original[p])
    BY <1>1, PageAtHand DEF KeepPage
  <1>3. Dealt(p)'
    BY <1>2 DEF KeepPage, Untouched, Dealt
  <1>4. TypeOK'
    BY <1>1, LengthAssumption DEF KeepPage, Inv, TypeOK
  <1> QED BY <1>1, <1>3, <1>4, LoopGoesOn DEF KeepPage

LEMMA ScalePagePreserves == Inv /\ ScalePage => Inv'
  <1> SUFFICES ASSUME Inv, ScalePage PROVE Inv'
    OBVIOUS
  <1> DEFINE factor == ScalingFactor(boxes[page])
  <1>1. PICK p \in 1..Length : p = page
    BY PageAtHand DEF ScalePage
  <1>2. /\ Untouched(p) /\ ~IsPageCorrectSize(original[p])
        /\ original[p].media \in Boxes /\ factor = MediaFactor(original[p].media)
    BY <1>1, PageAtHand DEF ScalePage
  <1> HIDE DEF factor
  <1>3. /\ boxes' = [boxes EXCEPT ![p] = SizedPage]
        /\ original' = original
        /\ \/ factor = ScaleUp /\ page' = p + 1 /\ UNCHANGED <<scale, status>>
           \/ factor # ScaleUp /\ ScaleContent(factor)
    BY <1>1, NewBoxesAreTheSize DEF ScalePage, factor
  <1>4. /\ boxes' \in [1..Length -> Pages \cup {SizedPage}] /\ boxes'[p] = SizedPage
        /\ \A i \in 1..Length : i # p => boxes'[i] = boxes[i]
    BY <1>3 DEF Inv, TypeOK, SizedPage
  <1>5. CASE factor = ScaleUp
    <2>1. page' = p + 1 /\ UNCHANGED <<scale, status>>
      BY <1>3, <1>5
    <2>2. Dealt(p)'
      BY <1>2, <1>3, <1>4, <1>5, <2>1 DEF Dealt, Resized, Untouched, ContentScale
    <2>3. TypeOK'
      BY <1>3, <1>4, <2>1, LengthAssumption DEF Inv, TypeOK, SizedPage
    <2> QED BY <1>1, <1>3, <1>4, <2>1, <2>2, <2>3, LoopGoesOn DEF ScalePage
  <1>6. CASE /\ scale' = [scale EXCEPT ![page] = factor] /\ page' = page + 1
             /\ UNCHANGED status /\ factor # ScaleUp
    <2>1. factor \in 0..Unscaled /\ factor = ContentScale(original[p].media)
      BY <1>2, <1>6, FactorIsKnown DEF ContentScale
    <2>2. /\ scale' \in [1..Length -> 0..Unscaled] /\ scale'[p] = factor
          /\ \A i \in 1..Length : i # p => scale'[i] = scale[i]
      BY <1>1, <1>6, <2>1 DEF Inv, TypeOK
    <2>3. Dealt(p)'
      BY <1>2, <1>3, <1>4, <2>1, <2>2 DEF Dealt, Resized
    <2>4. TypeOK'
      BY <1>1, <1>3, <1>4, <1>6, <2>2, LengthAssumption DEF Inv, TypeOK, SizedPage
    <2> QED BY <1>1, <1>3, <1>4, <1>6, <2>2, <2>3, <2>4, LoopGoesOn DEF ScalePage
  <1>7. CASE status' = "failed" /\ UNCHANGED <<scale, page>>
    <2>1. TypeOK'
      BY <1>3, <1>4, <1>7 DEF Inv, TypeOK, SizedPage
    <2>2. \A i \in 1..Length : i # p => (Untouched(i)' <=> Untouched(i)) /\ (Dealt(i)' <=> Dealt(i))
      BY <1>3, <1>4, <1>7 DEF Untouched, Resized, Dealt
    <2>3. Resized(p)' /\ scale'[p] = Unscaled
      BY <1>2, <1>3, <1>4, <1>7 DEF Resized, Untouched
    <2>4. PagesInOrder'
      BY <1>1, <1>7, <2>2, <2>3 DEF Inv, PagesInOrder
    <2>5. StatusKnown'
      BY <1>7 DEF StatusKnown
    <2> QED BY <2>1, <2>4, <2>5 DEF Inv
  <1> QED BY <1>3, <1>5, <1>6, <1>7 DEF ScaleContent

LEMMA StepPreserves == Inv /\ [Next]_vars => Inv'
  <1>1. Inv /\ UNCHANGED vars => Inv'
    BY DEF vars, Inv, TypeOK, PagesInOrder, Untouched, Resized, Dealt, StatusKnown
  <1> QED
    BY <1>1, CheckDocumentPreserves, FinishPreserves, KeepPagePreserves, ScalePagePreserves
       DEF Next

LEMMA Invariance == Spec => []Inv
  BY InitEstablishes, StepPreserves, PTL DEF Spec
-----------------------------------------------------------------------------
(* Theorems *)

\* The boxes are those of the document or of the size, and a scale is a
\* share, never an enlargement.
THEOREM ScalingTypeCorrect == Spec => []TypeOK
  <1>1. Inv => TypeOK
    BY DEF Inv
  <1> QED BY <1>1, Invariance, PTL

\* A document that comes back has only pages of the right size, so scaling
\* it again changes nothing.
THEOREM ScalingIdempotent == Spec => []ScalingIsIdempotent
  <1>1. Inv => ScalingIsIdempotent
    <2> SUFFICES ASSUME Inv, status \in {"same", "scaled"}, NEW i \in 1..Length
                 PROVE  IsPageCorrectSize(boxes[i])
      BY DocumentHasItsPages DEF Inv, ScalingIsIdempotent
    <2>1. CASE status = "same"
      BY <2>1, LengthAssumption DEF Inv, StatusKnown, PagesInOrder, Untouched
    <2>2. CASE status = "scaled"
      <3>1. Dealt(i)
        BY <2>2, LengthAssumption DEF Inv, StatusKnown, PagesInOrder
      <3> QED BY <3>1, SizedPageIsCorrect DEF Dealt, Untouched, Resized
    <2> QED BY <2>1, <2>2
  <1> QED BY <1>1, Invariance, PTL

\* A page of the right size keeps its boxes and its content, whatever the
\* other pages of its document need, and whether or not their scaling fails.
THEOREM CorrectPagesSafe == Spec => []CorrectPagesUntouched
  <1>1. Inv => CorrectPagesUntouched
    <2> SUFFICES ASSUME Inv, NEW i \in 1..Length, IsPageCorrectSize(original[i])
                 PROVE  Untouched(i)
      BY DEF CorrectPagesUntouched, Untouched
    <2>1. i < page \/ i = page \/ i > page
      BY LengthAssumption DEF Inv, TypeOK
    <2> QED BY <2>1 DEF Inv, PagesInOrder, Dealt, Resized
  <1> QED BY <1>1, Invariance, PTL

\* A page that was scaled loses content of its media box only as far as the
\* box lies off the origin or on its side, whatever the size, the box and the
\* rounding of the factor.
THEOREM LostContentSafe == Spec => []LostContentExplained
  <1>1. Inv => LostContentExplained
    <2> SUFFICES ASSUME Inv, status = "scaled", NEW i \in 1..Length,
                        ~IsPageCorrectSize(original[i])
                 PROVE  LET was == original[i].media
                            now == boxes[i].crop
                        IN  /\ LosesAtMost(NotTurned(was), Across(was), scale[i], Across(now))
                            /\ LosesAtMost(0, Up(was), scale[i], Up(now))
      BY DEF LostContentExplained
    <2>1. boxes[i] = SizedPage /\ scale[i] = ContentScale(original[i].media)
      BY LengthAssumption DEF Inv, StatusKnown, PagesInOrder, Dealt, Resized
    <2>2. original[i].media \in Boxes
      BY PagesAssumption DEF Inv, TypeOK
    <2> QED BY <2>1, <2>2, BoxLosesAtMost DEF SizedPage
  <1> QED BY <1>1, Invariance, PTL
=============================================================================
