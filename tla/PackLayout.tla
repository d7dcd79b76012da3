----------------------------- MODULE PackLayout -----------------------------
(***************************************************************************)
(* Where Skin::pack() puts the pictures in skin.png: the pictures, sorted  *)
(* by area with a bubble sort of their indices, are laid out in rows of at *)
(* most MaxWidth, one step of the loop after the other.                    *)
(***************************************************************************)
EXTENDS Naturals, Sequences, FiniteSets

CONSTANTS
  MaxWidth,  \* MAX_WIDTH
  Sizes,     \* the sizes [w, h] a picture may have
  MaxCount   \* bound: how many pictures there are

ASSUME LayoutAssumption ==
  /\ MaxWidth \in Nat \ {0}
  /\ \A s \in Sizes : s.w \in Nat \ {0} /\ s.h \in Nat \ {0}
  /\ MaxCount \in Nat

VARIABLES
  pictures,  \* their sizes, in the order the files were found
  ix,        \* the order they are laid out in
  sorted,    \* the sort has ended
  n,         \* how many have been laid out
  x, y,      \* where the next one goes
  maxW, maxH,
  rects      \* the rectangles of those laid out, in the order of ix

layoutVars == <<pictures, ix, sorted, n, x, y, maxW, maxH, rects>>

Larger(a, b) == IF a > b THEN a ELSE b
Area(j) == pictures[j].w * pictures[j].h

LayoutInit ==
  /\ pictures \in UNION {[1..k -> Sizes] : k \in 0..MaxCount}
  /\ ix = [j \in 1..Len(pictures) |-> j]
  /\ sorted = FALSE
  /\ n = 0
  /\ x = 1 /\ y = 1
  /\ maxW = 0 /\ maxH = 0
  /\ rects = <<>>

(* One exchange of the sort; the loop ends when a pass finds none.  Which  *)
(* of the exchanges comes first makes no difference to the result.         *)
Exchange ==
  /\ ~sorted
  /\ \E j \in 1..(Len(ix) - 1) :
       /\ Area(ix[j]) > Area(ix[j + 1])
       /\ ix' = [ix EXCEPT ![j] = ix[j + 1], ![j + 1] = ix[j]]
  /\ UNCHANGED <<pictures, sorted, n, x, y, maxW, maxH, rects>>

SortEnds ==
  /\ ~sorted
  /\ \A j \in 1..(Len(ix) - 1) : Area(ix[j]) <= Area(ix[j + 1])
  /\ sorted' = TRUE
  /\ UNCHANGED <<pictures, ix, n, x, y, maxW, maxH, rects>>

(* One picture: in this row, or first of the next.                         *)
Place ==
  /\ sorted
  /\ n < Len(ix)
  /\ n' = n + 1
  /\ LET s    == pictures[ix[n + 1]]
         wrap == x > 0 /\ x + s.w > MaxWidth
         x0   == IF wrap THEN 0 ELSE x
         y0   == IF wrap THEN y + maxH ELSE y
     IN  /\ rects' = Append(rects, [left |-> x0, top |-> y0,
                                    right |-> x0 + s.w, bottom |-> y0 + s.h])
         /\ x' = x0 + s.w + 1
         /\ y' = y0
         /\ maxW' = Larger(IF wrap THEN Larger(maxW, x + 1) ELSE maxW, x' + 1)
         /\ maxH' = Larger(maxH, s.h + 1)
  /\ UNCHANGED <<pictures, ix, sorted>>

LayoutNext == Exchange \/ SortEnds \/ Place

LayoutSpec == LayoutInit /\ [][LayoutNext]_layoutVars

(* The size of the picture that is drawn when the loop has ended.          *)
Width == maxW
Height == IF x > 0 THEN y + maxH ELSE y

---------------------------------------------------------------------------
Apart(a, b) ==
  a.right <= b.left \/ b.right <= a.left \/ a.bottom <= b.top \/ b.bottom <= a.top

(* No picture is drawn over another, though rows are as high as the        *)
(* highest picture so far and the last row's pictures are the largest.     *)
NothingOverlaps ==
  \A i, j \in DOMAIN rects : i # j => Apart(rects[i], rects[j])

(* Every picture is inside skin.png, also one wider than a row.            *)
AllInside ==
  n = Len(ix) =>
    \A i \in DOMAIN rects : rects[i].right <= Width /\ rects[i].bottom <= Height

(* The sort loses none and takes none twice: every picture is laid out,    *)
(* at the size it has.                                                     *)
AllPlaced ==
  n = Len(ix) =>
    \A p \in DOMAIN pictures : \E i \in DOMAIN rects :
      /\ ix[i] = p
      /\ rects[i].right = rects[i].left + pictures[p].w
      /\ rects[i].bottom = rects[i].top + pictures[p].h
=============================================================================
