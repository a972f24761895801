------------------------------- MODULE Layout -------------------------------
(***************************************************************************)
(* How presentation/build.py measures texts, cuts long lines, sizes the     *)
(* pictures of code and finds the place of each block on a page.  A text    *)
(* is its number of characters.  Lengths on a page are in thousandths of an *)
(* inch, font sizes in tenths of a point or pixel, line spacings in         *)
(* hundredths; divisions round down, where the code computes with floats.   *)
(***************************************************************************)
EXTENDS Integers, Sequences, SequencesExt

\* The page and its margins.
W      == 13333
H      == 7500
ML     == 680
CW     == W - 2 * ML
TOP    == 1700
BOTTOM == 6840

Least(a, b)    == IF a < b THEN a ELSE b
Greatest(a, b) == IF a < b THEN b ELSE a
CeilDiv(a, b)  == (a + b - 1) \div b

Block(what, x, y, w, h) == [what |-> what, x |-> x, y |-> y, w |-> w, h |-> h]

----------------------------------------------------------------------------
(* Cutting long lines: wrap() puts the character after the last column on a *)
(* new row, behind blanks.  Characters are counted from 0.                  *)

Indent(leading, cols) == Least(leading + 2, Greatest(4, cols - 20))

\* Where character c of a line is drawn.
Spot(c, leading, cols) ==
  IF c < cols THEN [row |-> 1, col |-> c]
  ELSE LET room == cols - Indent(leading, cols)
           rest == c - cols
       IN [row |-> 2 + rest \div room, col |-> Indent(leading, cols) + (rest % room)]

\* On how many rows a line is drawn.
Pieces(length, leading, cols) ==
  IF length = 0 THEN 1 ELSE Spot(length - 1, leading, cols).row

----------------------------------------------------------------------------
(* Sizes of pictures, in pixels.  The monospaced font advances by 6/10 of   *)
(* its size, rounded to half a pixel.                                       *)

HalfCharW(font) == (12 * font + 50) \div 100

LineH(font) == (162 * font + 500) \div 1000

Digits(n) == IF n < 10 THEN 1 ELSE IF n < 100 THEN 2 ELSE 3

\* rows counts the rows after wrapping, digits is 0 without line numbers.
PictureSize(rows, longest, digits, badges, font) ==
  LET badgeW  == IF badges THEN 24 ELSE 0
      gutter2 == IF digits = 0 THEN 0 ELSE digits * HalfCharW(font) + 28
  IN [w |-> (2 * (15 + badgeW) + gutter2 + longest * HalfCharW(font) + 38) \div 2,
      h |-> 26 + rows * LineH(font)]

----------------------------------------------------------------------------
(* Heights of texts                                                        *)

\* The height est_h expects of a text in a column of width w.
Est_h(length, w, size, spacing) ==
  LET lines == IF 720 * w < 12 * 512 * size THEN CeilDiv(length, 12)
               ELSE CeilDiv(length * 512 * size, 720 * w)
  IN (Greatest(1, lines) * size * spacing) \div 72

Total(heights) == FoldSeq(LAMBDA h, sum : h + sum, 0, heights)

\* A paragraph: its length, font size and spacing, and the space after it.
Para(length, size, spacing) == [length |-> length, size |-> size, spacing |-> spacing, after |-> 0]

Text(x, y, w, paras) ==
  Block("text", x, y, w,
        Total([i \in 1..Len(paras) |->
                 Est_h(paras[i].length, w, paras[i].size, paras[i].spacing) + paras[i].after]))

\* Numbered remarks under each other, and the gap after each.
Annotations(x, y, w, items, size) ==
  Block("annotations", x, y, w,
        Total([i \in 1..Len(items) |->
                 Greatest(270, Est_h(items[i], w - 360, size, 118)) + 190]) - 190)

Bullets(x, y, w, items, size) ==
  Block("bullets", x, y, w,
        Total([i \in 1..Len(items) |->
                 Greatest(250, Est_h(items[i], w - 280, size, 120)) + 150]) - 150)

Card(x, y, w, h) == Block("card", x, y, w, h)

Kpi(x, y, w) == Block("kpi", x, y, w, 1000)

Node(x, y, w, h) == Block("node", x, y, w, h)

Flow(x, y, w, boxH) == Block("flow", x, y, w, boxH)

\* Rows of cells; rowH is 0 where the texts decide.
Table(x, y, w, rows, widths, size, rowH) ==
  LET col(i) == (w * widths[i]) \div Total(widths)
      tallest(row) == Max({Est_h(row[i], col(i) - 160, size, 118) : i \in 1..Len(row)})
      height(row)  == IF rowH # 0 THEN rowH ELSE Greatest(280, tallest(row))
  IN Block("table", x, y, w,
           380 + Total([i \in 1..Len(rows) |-> height(rows[i]) + 130]) - 65)

Note_h(length) == Greatest(460, Est_h(length, CW - 440, 115, 122) + 260)

\* A note stands at the bottom of the page, or at y.
Note(length) == Block("note", ML, BOTTOM - Note_h(length), CW, Note_h(length))

NoteAt(length, y) == [Note(length) EXCEPT !.y = y]

----------------------------------------------------------------------------
(* Placing pictures                                                        *)

\* As wide as allowed, unless it would be too high; the proportions are kept.
Place(size, x, y, maxW, maxH) ==
  LET h == (maxW * size.h) \div size.w
  IN IF h > maxH THEN Block("picture", x, y, (maxH * size.w) \div size.h, maxH)
     ELSE Block("picture", x, y, maxW, h)

\* The blocks of code_slide: a picture, remarks to its right, a note below.
\* footer is 0 without a note; the remarks keep 4.35 inches of the width.
CodeSlide(size, items, lead, footer, font, maxW) ==
  LET top     == TOP + IF lead THEN 260 ELSE 0
      below   == IF footer = 0 THEN 40 ELSE Note_h(footer) + 260
      picture == Place(size, ML, top, Least(maxW, CW - 450 - 4350), (BOTTOM - top) - below)
      ax      == ML + picture.w + 450
  IN {picture, Annotations(ax, top + 20, W - ML - ax, items, font)}
       \cup IF footer = 0 THEN {} ELSE {Note(footer)}

OnThePage(a) == 0 <= a.x /\ a.x + a.w <= W /\ 0 <= a.y /\ a.y + a.h <= BOTTOM

Overlap(a, b) ==
  /\ a.x < b.x + b.w /\ b.x < a.x + a.w
  /\ a.y < b.y + b.h /\ b.y < a.y + a.h
============================================================================
