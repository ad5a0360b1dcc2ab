----------------------------- MODULE ImageLayout -----------------------------
(***************************************************************************)
(* ImageConverter: where an image is drawn on its page, an A4 page turned  *)
(* for a wide image.  Lengths are whole numbers of some unit; a scaled     *)
(* length is rounded down, where the code computes with floats.            *)
(***************************************************************************)
EXTENDS Integers

CONSTANTS PageWidth, PageHeight,  \* PDRectangle.A4
          Margin                  \* MARGIN

ASSUME PageAssumption ==
    /\ PageWidth  \in Nat
    /\ PageHeight \in Nat
    /\ Margin     \in Nat
    /\ 2 * Margin < PageWidth
    /\ 2 * Margin < PageHeight

\* An image is its width and its height; so is a page.
Image == [width : Nat \ {0}, height : Nat \ {0}]

PageOf(image) ==
    IF image.height < image.width
    THEN [width |-> PageHeight, height |-> PageWidth]
    ELSE [width |-> PageWidth, height |-> PageHeight]

Inner(length) == length - 2 * Margin

\* Mutant: the larger of the two scales.
LimitedByWidthWrong(image, page) ==
    Inner(page.width) * image.height > Inner(page.height) * image.width

\* hscale <= vscale, multiplied out.
LimitedByWidth(image, page) ==
    Inner(page.width) * image.height <= Inner(page.height) * image.width

\* The image drawn: as wide or as high as the margins allow, at the top.
Placed(image) ==
    LET page   == PageOf(image)
        width  == IF LimitedByWidth(image, page) THEN Inner(page.width)
                  ELSE (Inner(page.height) * image.width) \div image.height
        height == IF LimitedByWidth(image, page)
                  THEN (Inner(page.width) * image.height) \div image.width
                  ELSE Inner(page.height)
    IN  [x |-> Margin, y |-> page.height - height - Margin,
         width |-> width, height |-> height]

WithinMargins(drawn, page) ==
    /\ drawn.x >= Margin /\ drawn.x + drawn.width  <= page.width - Margin
    /\ drawn.y >= Margin /\ drawn.y + drawn.height <= page.height - Margin

FillsOneDirection(drawn, page) ==
    drawn.width = Inner(page.width) \/ drawn.height = Inner(page.height)
=============================================================================
