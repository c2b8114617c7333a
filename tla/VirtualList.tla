------------------------------- MODULE VirtualList ------------------------------
(***************************************************************************)
(* useVirtualList of the web dashboard                                     *)
(* (src/apps/web/src/components/dashboard-client.tsx): of a long list only *)
(* the rows around the viewport are rendered, between two paddings.  What  *)
(* is rendered follows from the scroll position and the height that the    *)
(* component was last told; the list, the window and the position change   *)
(* before it is told.  All rows have the estimated height.                 *)
(***************************************************************************)
EXTENDS Integers

CONSTANTS
  RowHeight,  \* estimatedItemHeight
  Overscan,
  MaxRows,    \* bound: rows of the list
  Heights     \* bound: heights of the viewport

VARIABLES
  rows,    \* items.length
  tall,    \* the container: clientHeight
  at,      \* the container: scrollTop
  height,  \* viewportHeight; 0 until the container is there
  top      \* scrollTop, as the component knows it

vars == <<rows, tall, at, height, top>>

Most(a, b) == IF a > b THEN a ELSE b
Least(a, b) == IF a < b THEN a ELSE b

\* The rows from start on, and before stop, are rendered; while the height is not known all
\* of them are.
Start == IF height = 0 THEN 0 ELSE Most(0, (top \div RowHeight) - Overscan)

\* Faulty variant: the rows ahead of the viewport are not counted.
StopShort ==
  IF height = 0 THEN rows
  ELSE Least(rows, Start + ((height + RowHeight - 1) \div RowHeight) + Overscan)
Stop ==
  IF height = 0 THEN rows
  ELSE Least(rows, Start + ((height + RowHeight - 1) \div RowHeight) + 2 * Overscan)

\* The height of the content: the paddings and the rows between them.
Content == (Start + Most(0, Stop - Start) + Most(0, rows - Stop)) * RowHeight
Bottom == Most(0, Content - tall)

TypeOK ==
  /\ rows \in 0..MaxRows /\ tall \in Heights /\ height \in Heights \cup {0}
  /\ {at, top} \subseteq 0..(MaxRows * RowHeight)
  /\ height = 0 => at = 0 /\ top = 0

Init == rows \in 0..MaxRows /\ tall \in Heights /\ at = 0 /\ height = 0 /\ top = 0

\* The browser keeps the position within the content.
Clamps == at' = Least(at, Bottom')

\* containerRef: the container is there.
Mount ==
  /\ height = 0 /\ height' = tall /\ top' = at
  /\ UNCHANGED <<rows, tall>>
  /\ Clamps

\* The list is filtered, searched or loaded.
Change ==
  /\ rows' \in (0..MaxRows) \ {rows}
  /\ UNCHANGED <<tall, height, top>>
  /\ Clamps

\* The user scrolls.
Scroll ==
  /\ height > 0
  /\ at' \in (0..Bottom) \ {at}
  /\ UNCHANGED <<rows, tall, height, top>>

\* onScroll
Told ==
  /\ top # at /\ top' = at
  /\ UNCHANGED <<rows, tall, height>>
  /\ Clamps

\* The window is resized, and the observer measures it.
Resize ==
  /\ tall' \in Heights \ {tall}
  /\ UNCHANGED <<rows, height, top>>
  /\ Clamps

Measure ==
  /\ height \notin {0, tall} /\ height' = tall
  /\ UNCHANGED <<rows, tall, top>>
  /\ Clamps

Next == Mount \/ Change \/ Scroll \/ Told \/ Resize \/ Measure

Spec == Init /\ [][Next]_vars

-----------------------------------------------------------------------------
InView(r) == r * RowHeight < at + tall /\ (r + 1) * RowHeight > at

\* Once the component knows the position and the height, every row in the viewport is
\* rendered, and the list does not end above it: a list that got shorter while it was
\* scrolled far down leaves no blank page behind, although what stands above the rows is
\* still padded for the position they had.
RowsShown ==
  (top = at /\ height \in {0, tall}) =>
    /\ \A r \in 0..(rows - 1) : InView(r) => Start <= r /\ r < Stop
    /\ at <= Most(0, rows * RowHeight - tall)
================================================================================
