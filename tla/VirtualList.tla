---------------------------- MODULE VirtualList ----------------------------
(***************************************************************************)
(* The geometry of the scrolling list of tasks (web/src/TaskList.jsx): which *)
(* rows are drawn at a scroll position, where, and which page of tasks is    *)
(* asked for.  Lengths are in pixels.                                        *)
(***************************************************************************)
EXTENDS Integers

CONSTANTS
  ROW_HEIGHT, PAGE_SIZE, OVERSCAN, MAX_SPACE,  \* TaskList.jsx:13
  LIMIT,   \* the limit of a page, 200
  Height   \* the height of the viewport

Lesser(a, b) == IF a < b THEN a ELSE b
Larger(a, b) == IF a > b THEN a ELSE b

\* Lists so long that the browser could not make room for them are scaled.
Scaled(total) == total * ROW_HEIGHT > MAX_SPACE

Space(total) == IF Scaled(total) THEN MAX_SPACE ELSE total * ROW_HEIGHT

Visible == ((Height + ROW_HEIGHT - 1) \div ROW_HEIGHT) + 1

\* n times the share of the way that has been scrolled, rounded.
Share(total, scrollTop, n) ==
  LET way == Larger(1, Space(total) - Height)
  IN (2 * n * Lesser(scrollTop, way) + way) \div (2 * way)

\* The row at the top of the viewport.
Anchor(total, scrollTop) ==
  IF Scaled(total) THEN Share(total, scrollTop, Larger(0, total - Visible))
  ELSE scrollTop \div ROW_HEIGHT

\* The rows first..last-1 are drawn, the first of them at origin.
First(total, scrollTop) == Larger(0, Anchor(total, scrollTop) - OVERSCAN)

Last(total, scrollTop) == Lesser(total, Anchor(total, scrollTop) + Visible + OVERSCAN)

Origin(total, scrollTop) ==
  IF Scaled(total)
  THEN scrollTop - (Anchor(total, scrollTop) - First(total, scrollTop)) * ROW_HEIGHT
  ELSE First(total, scrollTop) * ROW_HEIGHT

Bottom(total, scrollTop) ==
  Origin(total, scrollTop)
    + (Last(total, scrollTop) - First(total, scrollTop)) * ROW_HEIGHT

\* Faulty variant of Offset: the page begins at the first row on the screen.
OffsetOfAnchor(total, scrollTop) == (Anchor(total, scrollTop) \div PAGE_SIZE) * PAGE_SIZE

\* The page that is asked for.
Offset(total, scrollTop) == (First(total, scrollTop) \div PAGE_SIZE) * PAGE_SIZE

\* Faulty variant of MaxScroll: a list shorter than the viewport is forgotten.
MaxScrollNegative(total) == Lesser(total * ROW_HEIGHT, MAX_SPACE) - Height

\* How far the position may be when total rows have been announced.
MaxScroll(total) == Larger(0, Lesser(total * ROW_HEIGHT, MAX_SPACE) - Height)

\* How far the browser lets the user scroll: rows that stick out of the space
\* make it longer.
ScrollEnd(total, scrollTop) == Larger(0, Larger(Space(total), Bottom(total, scrollTop)) - Height)

\* What the numbers of TaskList.jsx satisfy in a viewport of at most 640 pixels.
ASSUME ListAssumption ==
  /\ ROW_HEIGHT \in Nat \ {0} /\ PAGE_SIZE \in Nat \ {0} /\ Height \in Nat \ {0}
  /\ OVERSCAN \in Nat /\ MAX_SPACE \in Nat /\ LIMIT \in Nat
  /\ Visible + 2 * OVERSCAN + PAGE_SIZE - 1 <= LIMIT
=============================================================================
