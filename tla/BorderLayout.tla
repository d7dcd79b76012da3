---------------------------- MODULE BorderLayout ----------------------------
(* BorderLayout::doLayout: where the children of a panel go.  A rectangle  *)
(* is [x, y, w, h] in the client area of the parent.                       *)
EXTENDS Integers

Sides == {"west", "east", "north", "south", "center"}

\* SetWindowPos() does not make windows of a negative size.
Rectangle(x, y, w, h) ==
  [x |-> x, y |-> y, w |-> IF w > 0 THEN w ELSE 0, h |-> IF h > 0 THEN h ELSE 0]

\* What a child at the side takes of the width or height: its preferred size.
Taken(preferred, side) ==
  IF side \notin DOMAIN preferred THEN 0
  ELSE IF side \in {"west", "east"} THEN preferred[side].x ELSE preferred[side].y

\* preferred: for the side of each visible child, its size.  West and east
\* get the full height; an only child gets everything.
Layout(size, preferred) ==
  LET west == Taken(preferred, "west")   east == Taken(preferred, "east")
      north == Taken(preferred, "north") south == Taken(preferred, "south")
      width == size.x - west - east
  IN
  IF \E side \in Sides : DOMAIN preferred = {side}
  THEN [side \in DOMAIN preferred |-> Rectangle(0, 0, size.x, size.y)]
  ELSE [side \in DOMAIN preferred |->
     CASE side = "west" -> Rectangle(0, 0, west, size.y)
       [] side = "east" -> Rectangle(size.x - east, 0, east, size.y)
       [] side = "north" -> Rectangle(west, 0, width, north)
       [] side = "south" -> Rectangle(west, size.y - south, width, south)
       [] side = "center" ->
            Rectangle(west, north, width, size.y - north - south)]

-----------------------------------------------------------------------------
Points(r) == (r.x..r.x + r.w - 1) \X (r.y..r.y + r.h - 1)

\* The size that the children at the sides need, and one more for the center.
Fits(size, preferred) ==
  /\ size.x > Taken(preferred, "west") + Taken(preferred, "east")
  /\ size.y > Taken(preferred, "north") + Taken(preferred, "south")

\* Every point of the client area is in exactly one child.
IsTiled(size, rects) ==
  \A p \in (0..size.x - 1) \X (0..size.y - 1) :
    \E side \in DOMAIN rects :
      p \in Points(rects[side]) /\
      \A other \in DOMAIN rects \ {side} : p \notin Points(rects[other])
=============================================================================
