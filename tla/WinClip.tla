------------------------------ MODULE WinClip ------------------------------
(***************************************************************************)
(* How the window system keeps what a program draws inside the visible     *)
(* part of its window: src/kern/wingui/paint.c, win_clip, win_autoclip,    *)
(* win_autoclip_iterate, the procedures win_autoclip_iterate hands each    *)
(* piece to, and win_copy.                                                 *)
(*                                                                         *)
(* The windows stand still here (module WinDesk moves, raises and closes   *)
(* them); their places, their order and which of them are visible are any  *)
(* the constants allow.  The screen is a function on pixels, and what a    *)
(* program has drawn in its window another one, so that the two can be     *)
(* compared after any calls.  A glyph is a bitmap with transparent pixels; *)
(* colours are whatever tells two pixels apart.  win_lock and the pointer  *)
(* are module WinPtr.                                                      *)
(***************************************************************************)
EXTENDS Integers, Sequences, SequencesExt, FiniteSets

CONSTANTS
  Width, Height,   \* of the display
  Places,          \* rectangles a window may have
  Stack,           \* how many windows there are; window 1 is the topmost
  ClipArgs,        \* rectangles given to win_clip
  Origins,         \* origins given to win_clip
  DrawArgs,        \* rectangles given to the drawing calls
  Shifts,          \* how far win_copy's source is from its destination
  MaxCalls         \* calls made, at most

\* What the constants of an instance satisfy.
SizeAssumption == Width \in Nat \ {0} /\ Height \in Nat \ {0} /\ Stack \in Nat \ {0}

VARIABLES
  rect,      \* win_window.rect
  visible,   \* win_window.visible
  clip,      \* win_window.clip
  origin,    \* win_window.x0 and y0
  shown,     \* the pixels of the display
  want,      \* what the program has drawn, in the coordinates of its window
  redraw,    \* WIN_E_REDRAW events not yet handled, as rectangles
  excused,   \* pixels a copy took from where the window could not be seen
  asked,     \* the clipping rectangle the program asked for
  calls      \* calls made so far

vars == <<rect, visible, clip, origin, shown, want, redraw, excused, asked, calls>>

Win == 1..Stack
Rect(x, y, w, h) == [x |-> x, y |-> y, w |-> w, h |-> h]
Pixels(r) == (r.x..(r.x + r.w - 1)) \X (r.y..(r.y + r.h - 1))
Display == Pixels(Rect(0, 0, Width, Height))
At(r, x, y) == [r EXCEPT !.x = @ + x, !.y = @ + y]
Shift(P, x, y) == {<<p[1] + x, p[2] + y>> : p \in P}

\* The window seen at a pixel, 0 for the background.
Seen(p) ==
  LET W == {w \in Win : visible[w] /\ p \in Pixels(rect[w])}
  IN  IF W = {} THEN 0 ELSE CHOOSE w \in W : \A v \in W : w <= v

Inside(w, p) == <<p[1] - rect[w].x, p[2] - rect[w].y>>
Whole(w) == Rect(0, 0, rect[w].w, rect[w].h)

TypeOK ==
  /\ rect \in [Win -> Places]
  /\ visible \in [Win -> BOOLEAN]
  /\ \A w \in Win : DOMAIN want[w] = Pixels(Whole(w)) /\ excused[w] \subseteq DOMAIN want[w]
  /\ DOMAIN shown = Display
  /\ calls \in 0..MaxCalls

\* Every window has been drawn completely; a pixel is named after its place.
Init ==
  /\ rect \in [Win -> Places]
  /\ visible \in [Win -> BOOLEAN]
  /\ clip = [w \in Win |-> Whole(w)]
  /\ asked = clip
  /\ origin = [w \in Win |-> <<0, 0>>]
  /\ want = [w \in Win |-> [p \in Pixels(Whole(w)) |-> <<w, p>>]]
  /\ shown = [p \in Display |-> IF Seen(p) = 0 THEN <<0, p>> ELSE want[Seen(p)][Inside(Seen(p), p)]]
  /\ redraw = [w \in Win |-> <<>>]
  /\ excused = [w \in Win |-> {}]
  /\ calls = 0

----------------------------------------------------------------------------
(* win_clip and win_autoclip *)

MaxOf(a, b) == IF a > b THEN a ELSE b
MinOf(a, b) == IF a < b THEN a ELSE b

\* win_clip along one dimension: the place and the width kept of what was asked.
Span(x, w, size) ==
  LET at == MaxOf(x, 0)
  IN  <<at, IF at + w > size THEN size - at ELSE MaxOf(w + MinOf(x, 0), 0)>>

Clipped(w, r) ==
  LET h == Span(r.x, r.w, rect[w].w)
      v == Span(r.y, r.h, rect[w].h)
  IN  Rect(h[1], v[1], h[2], v[2])

\* A piece of the display, from its first pixel to the one after its last.
Piece(x0, y0, x1, y1) == [x0 |-> x0, y0 |-> y0, x1 |-> x1, y1 |-> y1]
Area(q) == (q.x0..(q.x1 - 1)) \X (q.y0..(q.y1 - 1))

\* Mutant: the sides of the window reach over its whole height, as the part above it does.
Split_TallSides(q, v) ==
  LET r == rect[v]
      y0 == MaxOf(q.y0, r.y)
      y1 == q.y1
  IN  IF ~visible[v] \/ q.x0 >= r.x + r.w \/ q.y0 >= r.y + r.h \/ q.x1 <= r.x \/ q.y1 <= r.y
      THEN <<q>>
      ELSE SelectSeq(<<[q EXCEPT !.y1 = r.y], [q EXCEPT !.y0 = r.y + r.h],
                       Piece(q.x0, y0, r.x, y1), Piece(r.x + r.w, y0, q.x1, y1)>>,
                     LAMBDA s : s.x0 < s.x1 /\ s.y0 < s.y1)

\* One window above the piece: the piece itself, or what is over, under, left and right of it.
Split(q, v) ==
  LET r == rect[v]
      y0 == MaxOf(q.y0, r.y)
      y1 == MinOf(q.y1, r.y + r.h)
      Part(cond, s) == IF cond THEN <<s>> ELSE <<>>
  IN  IF ~visible[v] \/ q.x0 >= r.x + r.w \/ q.y0 >= r.y + r.h \/ q.x1 <= r.x \/ q.y1 <= r.y
      THEN <<q>>
      ELSE Part(r.y > q.y0, [q EXCEPT !.y1 = r.y])
        \o Part(r.y + r.h < q.y1, [q EXCEPT !.y0 = r.y + r.h])
        \o Part(r.x > q.x0, Piece(q.x0, y0, r.x, y1))
        \o Part(r.x + r.w < q.x1, Piece(r.x + r.w, y0, q.x1, y1))

\* win_autoclip_iterate: the pieces in the order they are handed to rq->proc.
Iterate(w, q) ==
  FoldLeft(LAMBDA ps, v : FlattenSeq([i \in DOMAIN ps |-> Split(ps[i], v)]),
           <<q>>, [i \in 1..(w - 1) |-> w - i])

\* win_autoclip: nothing of a hidden window, else its clipping rectangle on the display.
Pieces(w, cl) ==
  IF ~visible[w] THEN <<>> ELSE
  LET c == At(cl, rect[w].x, rect[w].y)
  IN  Iterate(w, Piece(MaxOf(c.x, 0), MaxOf(c.y, 0), MinOf(c.x + c.w, Width), MinOf(c.y + c.h, Height)))

\* The rectangle of a request, where win_autoclip puts it.
OnDisplay(w, r) ==
  LET s == [r EXCEPT !.w = MaxOf(@, 0), !.h = MaxOf(@, 0)]
  IN  At(s, origin[w][1] + rect[w].x, origin[w][2] + rect[w].y)

----------------------------------------------------------------------------
(* What is drawn of one piece *)

\* win_autoclip_rect, and the lines and the pixel as rectangles one pixel high or wide:
\* the corners are moved to the piece, and nothing is drawn when they cross.
Filled(q, r) ==
  Area(Piece(MaxOf(q.x0, r.x), MaxOf(q.y0, r.y), MinOf(q.x1, r.x + r.w), MinOf(q.y1, r.y + r.h)))

\* win_autoclip_bitmap and the glyphs: each pixel that is not transparent is looked at.
Stencil(r) == {p \in Pixels(r) : (p[1] - r.x + p[2] - r.y) % 2 = 0}
Dotted(q, r) == Stencil(r) \cap Area(q)

\* win_autoclip_bglyph: a glyph with its background, unlooked at when the piece holds all of it.
Cell(q, r) ==
  IF r.x >= q.x0 /\ r.y >= q.y0 /\ r.x + r.w <= q.x1 /\ r.y + r.h <= q.y1
  THEN Pixels(r)
  ELSE {p \in Pixels(r) : p[1] >= q.x0 /\ p[2] >= q.y0 /\ p[1] < q.x1 /\ p[2] < q.y1}

\* The pixels a call draws: those of every piece.
Drawn(w, r, kind) ==
  LET ps == Pieces(w, clip[w])
      s == OnDisplay(w, r)
  IN  UNION {CASE kind = "fill" -> Filled(q, s) [] kind = "dots" -> Dotted(q, s) [] kind = "cell" -> Cell(q, s) :
             q \in Range(ps)}

----------------------------------------------------------------------------
(* Calls *)

\* The colour drawing calls use, unlike any the window had.
New(w) == <<w, <<-1, -1>>>>

Call == calls < MaxCalls /\ calls' = calls + 1

\* win_clip
Clip(w, r, o) ==
  /\ Call
  /\ clip' = [clip EXCEPT ![w] = Clipped(w, r)]
  /\ origin' = [origin EXCEPT ![w] = o]
  /\ asked' = [asked EXCEPT ![w] = r]
  /\ UNCHANGED <<rect, visible, shown, want, redraw, excused>>

\* What a program means by a drawing call: the clipping rectangle's part of the shape.
Meant(w, r, kind) ==
  LET s == At([r EXCEPT !.w = MaxOf(@, 0), !.h = MaxOf(@, 0)], origin[w][1], origin[w][2])
  IN  (IF kind = "dots" THEN Stencil(s) ELSE Pixels(s)) \cap Pixels(clip[w]) \cap DOMAIN want[w]

\* win_pixel, win_hline, win_vline, win_rect ("fill"); win_bitmap and win_chr ("dots");
\* win_bchr ("cell").  A text is its characters, one after the other.
Paint(w, r, kind) ==
  /\ Call
  /\ \E P \in {Drawn(w, r, kind)} :
       shown' = [p \in (DOMAIN shown) \cup P |-> IF p \in P THEN New(w) ELSE shown[p]]
  /\ want' = [want EXCEPT ![w] = [p \in DOMAIN @ |-> IF p \in Meant(w, r, kind) THEN New(w) ELSE @[p]]]
  /\ excused' = [excused EXCEPT ![w] = @ \ Meant(w, r, kind)]
  /\ UNCHANGED <<rect, visible, clip, origin, redraw, asked>>

\* win_autoclip_copy's test of one piece.
Within(q, r) == q.x0 <= r.x /\ q.y0 <= r.y /\ q.x1 >= r.x + r.w /\ q.y1 >= r.y + r.h

\* Some piece does not hold the destination: win_copy asks for a redraw.
CopyFails(w, r) == \E q \in Range(Pieces(w, clip[w])) : ~Within(q, OnDisplay(w, r))

\* The first piece holds it: the pixels are copied (pieces do not overlap, no later one can).
CopyDone(w, r) ==
  LET ps == Pieces(w, clip[w])
  IN  ps # <<>> /\ Within(ps[1], OnDisplay(w, r))

\* win_copy from r moved by (sx, sy) to r.  The redraw event names r without the origin.
Copy(w, r, sx, sy) ==
  LET dst == OnDisplay(w, r)
      D == Pixels(dst)
      \* destination pixels in the window, and where their source is in it
      Mine == {p \in Meant(w, r, "fill") : <<p[1] + sx, p[2] + sy>> \in DOMAIN want[w]}
      From(p) == <<p[1] + sx, p[2] + sy>>
      Lit(p) == LET d == <<From(p)[1] + rect[w].x, From(p)[2] + rect[w].y>>
                IN  d \in Display /\ Seen(d) = w /\ shown[d] = want[w][From(p)]
      Asks == IF CopyFails(w, r) THEN Pixels(r) ELSE {}
      done == CopyDone(w, r)
  IN  /\ Call
      /\ Shift(D, sx, sy) \subseteq Display
      /\ shown' = IF done THEN [p \in Display |-> IF p \in D THEN shown[<<p[1] + sx, p[2] + sy>>] ELSE shown[p]]
                  ELSE shown
      /\ want' = [want EXCEPT ![w] = [p \in DOMAIN @ |-> IF p \in Mine THEN @[From(p)] ELSE @[p]]]
      /\ excused' = [excused EXCEPT ![w] =
                       @ \cup {p \in Meant(w, r, "fill") : p \notin Mine \/ (done /\ ~Lit(p))}
                         \cup (IF origin[w] # <<0, 0>> THEN Meant(w, r, "fill") \ Asks ELSE {})]
      /\ redraw' = IF CopyFails(w, r) THEN [redraw EXCEPT ![w] = Append(@, r)] ELSE redraw
      /\ UNCHANGED <<rect, visible, clip, origin, asked>>

\* The program handles a redraw event: it clips to the rectangle and draws all of it.
Redraw(w) ==
  /\ redraw[w] # <<>>
  /\ redraw' = [redraw EXCEPT ![w] = Tail(@)]
  /\ asked' = [asked EXCEPT ![w] = Head(redraw[w])]
  /\ clip' = [clip EXCEPT ![w] = Clipped(w, Head(redraw[w]))]
  /\ origin' = [origin EXCEPT ![w] = <<0, 0>>]
  /\ \E P \in {UNION {Area(q) : q \in Range(Pieces(w, Clipped(w, Head(redraw[w]))))}} :
       /\ shown' = [p \in (DOMAIN shown) \cup P |-> IF p \in P THEN want[w][Inside(w, p)] ELSE shown[p]]
       /\ excused' = [excused EXCEPT ![w] = @ \ {Inside(w, p) : p \in P}]
  /\ UNCHANGED <<rect, visible, want, calls>>

Next ==
  \E w \in Win :
    \/ \E r \in ClipArgs, o \in Origins : Clip(w, r, o)
    \/ \E r \in DrawArgs, kind \in {"fill", "dots", "cell"} : Paint(w, r, kind)
    \/ \E r \in DrawArgs, s \in Shifts : Copy(w, r, s[1], s[2])
    \/ Redraw(w)

Spec == Init /\ [][Next]_vars

----------------------------------------------------------------------------
(* Properties *)

\* The clipping rectangle holds the pixels that win_clip was asked for and that are in the
\* window (win_clip).  It holds more, and never less or anything outside the window, when a
\* rectangle wider (higher) than the window begins left of (above) it: the width is then
\* compared with the window's as it was before the part outside was taken off.
ClipRight ==
  \A w \in Win :
    LET r == asked[w]
        both == Pixels(r) \cap Pixels(Whole(w))
        wide == (r.x < 0 /\ r.w > rect[w].w) \/ (r.y < 0 /\ r.h > rect[w].h)
    IN  /\ both \subseteq Pixels(clip[w])
        /\ Pixels(clip[w]) \subseteq (IF wide THEN Pixels(Whole(w)) ELSE both)

\* On the display, the pieces win_autoclip_iterate finds are exactly the pixels where the
\* window is seen, inside its clipping rectangle, and no pixel is in two of them.
PiecesRight ==
  \A w \in Win :
    LET ps == Pieces(w, clip[w])
    IN  /\ Display \cap UNION {Area(q) : q \in Range(ps)}
              = {p \in Display : Seen(p) = w /\ Inside(w, p) \in Pixels(clip[w])}
        /\ \A i, j \in DOMAIN ps : i # j => Area(ps[i]) \cap Area(ps[j]) = {}

Pending(w) == UNION {Pixels(r) : r \in Range(redraw[w])}

\* Every pixel of the display shows what the program of the window seen there has drawn at
\* that place, or the program has been asked to draw it again, or a copy took the pixel from
\* where the window could not be seen (win_copy, and the drawing calls).  A copy with an
\* origin asks for a redraw at the wrong place; its pixels are excused too.
ScreenRight ==
  \A p \in Display :
    LET w == Seen(p)
    IN  IF w = 0 THEN shown[p] = <<0, p>>
        ELSE Inside(w, p) \in Pending(w) \cup excused[w] \/ shown[p] = want[w][Inside(w, p)]
=============================================================================
