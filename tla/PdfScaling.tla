----------------------------- MODULE PdfScaling -----------------------------
(***************************************************************************)
(* PdfHelper.scaleToPageSize: the pages of a document are brought to one   *)
(* size, one after the other and in place.  Lengths are integers in a unit *)
(* in which the size and every page are whole numbers, and a scale is a    *)
(* whole number of ten-thousandths, the four places the code keeps.        *)
(***************************************************************************)
EXTENDS Integers, Sequences

CONSTANTS Size,    \* the box asked for; an upright size such as A4
          Pages,   \* the boxes pages may have: [media, crop]
          Length   \* how many pages the document has

\* A rectangle, by its lower-left corner and its size.
Boxes == [x : Int, y : Int, width : Nat \ {0}, height : Nat \ {0}]

ASSUME SizeAssumption ==
    Size \in Boxes /\ Size.x = 0 /\ Size.y = 0 /\ Size.width < Size.height
ASSUME PagesAssumption == Pages \subseteq [media : Boxes, crop : Boxes]
ASSUME LengthAssumption == Length \in Nat \ {0}

VARIABLES original,   \* the pages as they came
          boxes,      \* the boxes of each page now
          scale,      \* the scale put before the content of each page
          page,       \* the page the loop is at
          status      \* "checking", "scaling", "same", "scaled" or "failed"

vars == <<original, boxes, scale, page, status>>

\* The code tells BigDecimal.ZERO from a rounded 0.0000, by equals, and so
\* the marker of a page to leave alone is no scale here either.
Unscaled == 10000
ScaleUp  == -1
NoChange == -2

-----------------------------------------------------------------------------
(* The arithmetic of one page *)

\* Within TOLERANCE_FACTOR, one hundredth, of a length.
Near(length, target) ==
    99 * target <= 100 * length /\ 100 * length <= 101 * target

\* What is shown of a page has the size, upright or on its side.
IsPageCorrectSize(p) ==
    IF p.crop.height > p.crop.width
    THEN Near(p.crop.height, Size.height) /\ Near(p.crop.width, Size.width)
    ELSE Near(p.crop.width, Size.height) /\ Near(p.crop.height, Size.width)

IsDocumentWithinSizeTolerance(ps) == \A i \in 1..Len(ps) : IsPageCorrectSize(ps[i])

\* 10000 * n / d, rounded half to even, for natural n and positive d.
RoundedShare(n, d) ==
    LET down == (10000 * n) \div d
        rest == (10000 * n) % d
    IN  IF 2 * rest > d \/ (2 * rest = d /\ down % 2 = 1) THEN down + 1 ELSE down

\* The size turned the way a box lies.
TargetOf(b) == IF b.width > b.height
               THEN [Size EXCEPT !.width = Size.height, !.height = Size.width]
               ELSE Size

\* Mutant: only the height is looked at.
MediaFactorByHeight(b) ==
    IF b.height < TargetOf(b).height THEN ScaleUp
    ELSE RoundedShare(TargetOf(b).height, b.height)

\* Mutant: a small page is scaled up to the size.
MediaFactorEnlarging(b) ==
    LET tall == RoundedShare(TargetOf(b).height, b.height)
        wide == RoundedShare(TargetOf(b).width, b.width)
    IN  IF tall < wide THEN tall ELSE wide

(***************************************************************************)
(* scalingFactor of a page that is not correct, from its media box.  A box *)
(* smaller both ways is ScaleUp; otherwise the larger relative overage     *)
(* decides.  One minus overage/length is target/length, and an axis        *)
(* without overage does not count beside one with it.                      *)
(***************************************************************************)
MediaFactor(b) ==
    LET t == TargetOf(b)
        tall == RoundedShare(t.height, b.height)
        wide == RoundedShare(t.width, b.width)
    IN  CASE b.height < t.height /\ b.width < t.width   -> ScaleUp
          [] b.height < t.height /\ b.width >= t.width  -> wide
          [] b.height >= t.height /\ b.width < t.width  -> tall
          [] b.height >= t.height /\ b.width >= t.width ->
                IF tall < wide THEN tall ELSE wide

ScalingFactor(p) == IF IsPageCorrectSize(p) THEN NoChange ELSE MediaFactor(p.media)

\* scalePageToSize: both branches of the code give upright boxes, and a
\* rectangle made of a width and a height begins at the origin.
NewBox(b) == IF b.height > b.width
             THEN Size
             ELSE [x |-> 0, y |-> 0, width |-> Size.width, height |-> Size.height]

\* Mutant: the crop box is forgotten.
NewMediaBox(p) == [p EXCEPT !.media = NewBox(@)]

\* The media box decides for all five boxes of the page.
NewBoxes(p) == [media |-> NewBox(p.media), crop |-> NewBox(p.media)]

-----------------------------------------------------------------------------
Init ==
    /\ original \in [1..Length -> Pages]
    /\ boxes  = original
    /\ scale  = [i \in 1..Length |-> Unscaled]
    /\ page   = 1
    /\ status = "checking"

CheckDocument ==
    /\ status = "checking"
    /\ status' = IF IsDocumentWithinSizeTolerance(boxes) THEN "same" ELSE "scaling"
    /\ UNCHANGED <<original, boxes, scale, page>>

\* The loop's end: the document is returned.
Finish ==
    /\ status = "scaling" /\ page > Length
    /\ status' = "scaled"
    /\ UNCHANGED <<original, boxes, scale, page>>

\* Mutant: a page of the right size goes through the scaling of the others.
KeepPageScaled ==
    /\ status = "scaling" /\ page <= Length
    /\ boxes' = [boxes EXCEPT ![page] = NewBoxes(@)]
    /\ page' = page + 1
    /\ UNCHANGED <<original, scale, status>>

KeepPage ==
    /\ status = "scaling" /\ page <= Length
    /\ ScalingFactor(boxes[page]) = NoChange
    /\ page' = page + 1
    /\ UNCHANGED <<original, boxes, scale, status>>

\* scaleContent: a transformation before the content and its end after it.
\* It scales about the origin and moves nothing.  The content stream may
\* fail, and the exception leaves the loop.
ScaleContent(factor) ==
    \/ /\ scale' = [scale EXCEPT ![page] = factor]
       /\ page' = page + 1
       /\ UNCHANGED status
    \/ /\ status' = "failed"
       /\ UNCHANGED <<scale, page>>

\* The boxes first; then the content, unless the page is smaller both ways.
ScalePage ==
    /\ status = "scaling" /\ page <= Length
    /\ LET factor == ScalingFactor(boxes[page]) IN
       /\ factor # NoChange
       /\ boxes' = [boxes EXCEPT ![page] = NewBoxes(@)]
       /\ \/ /\ factor = ScaleUp
             /\ page' = page + 1
             /\ UNCHANGED <<scale, status>>
          \/ factor # ScaleUp /\ ScaleContent(factor)
    /\ UNCHANGED original

Next == CheckDocument \/ Finish \/ KeepPage \/ ScalePage

Spec == Init /\ [][Next]_vars

-----------------------------------------------------------------------------
(* Properties *)

\* The boxes and the scale of each page, and where the loop is; a scale is a
\* share of the page, never beyond it.
TypeOK ==
    /\ original \in [1..Length -> Pages]
    /\ boxes    \in [1..Length -> Pages \cup {[media |-> Size, crop |-> Size]}]
    /\ scale    \in [1..Length -> 0..Unscaled]
    /\ page     \in 1..(Length + 1)
    /\ status   \in {"checking", "scaling", "same", "scaled", "failed"}

\* A document that comes back needs no further scaling: a second call on it
\* finds every page within tolerance and changes nothing.
ScalingIsIdempotent ==
    status \in {"same", "scaled"} => IsDocumentWithinSizeTolerance(boxes)

\* A page of the right size is not touched, whatever is done to the others.
CorrectPagesUntouched ==
    \A i \in 1..Length :
        IsPageCorrectSize(original[i]) => boxes[i] = original[i] /\ scale[i] = Unscaled

\* The sides of a box, across the page and up it.
Across(b) == [start |-> b.x, length |-> b.width]
Up(b)     == [start |-> b.y, length |-> b.height]

Distance(n) == IF n < 0 THEN -n ELSE n

\* A side under a scale about the origin goes beyond one of the page, at
\* either end, by no more than its scaled distance from the origin and
\* `turned`, but for the last of the four places.
LosesAtMost(turned, side, s, shown) ==
    LET lost == Distance(side.start) * s + turned * Unscaled + side.length IN
    /\ shown.start * Unscaled - side.start * s <= lost
    /\ (side.start + side.length) * s - (shown.start + shown.length) * Unscaled <= lost

\* What the size lacks across the page when it is not turned for a box that
\* lies on its side.
NotTurned(b) == IF b.width > b.height THEN Size.height - Size.width ELSE 0

(***************************************************************************)
(* A page that had to be scaled shows all that its media box held, cropped *)
(* or not, with two exceptions: a box that does not begin at the origin    *)
(* loses what its distance moves off the page, which the code does not     *)
(* take back; and one that lies on its side is scaled for the size turned  *)
(* that way but shown on the upright one.                                  *)
(***************************************************************************)
LostContentExplained ==
    status = "scaled" =>
        \A i \in 1..Length : ~IsPageCorrectSize(original[i]) =>
            LET was == original[i].media
                now == boxes[i].crop
            IN  /\ LosesAtMost(NotTurned(was), Across(was), scale[i], Across(now))
                /\ LosesAtMost(0, Up(was), scale[i], Up(now))
=============================================================================
