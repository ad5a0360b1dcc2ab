---------------------------- MODULE MCPdfScaling ----------------------------
(* Small pages for TLC, about an upright size with the shape of A4. *)
EXTENDS PdfScaling

AtOrigin(w, h) == [x |-> 0, y |-> 0, width |-> w, height |-> h]

MCSize == AtOrigin(100, 141)

\* Upright and landscape boxes below, at, within one hundredth of, just
\* beyond and far beyond the size, and boxes too long one way only.
MCBoxes == {AtOrigin(w, h) : w \in {71, 99, 101, 102, 143, 200},
                             h \in {50, 100, 102, 140, 142, 282}}

\* Boxes of the right size, too small and too large that lie elsewhere.
MovedBoxes == {[box EXCEPT !.x = corner[1], !.y = corner[2]] :
                  box \in {AtOrigin(100, 141), AtOrigin(71, 100), AtOrigin(200, 282)},
                  corner \in {<<-20, 0>>, <<30, -10>>, <<0, 25>>}}

\* Pages shown whole, and pages cropped to the size or to less than that.
MCPages == {[media |-> b, crop |-> b] : b \in MCBoxes \cup MovedBoxes}
             \cup {[media |-> AtOrigin(200, 282), crop |-> b] :
                       b \in {MCSize, AtOrigin(71, 50)}}
=============================================================================
