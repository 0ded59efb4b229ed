---------------------------- MODULE WinPtrProofs ----------------------------
(***************************************************************************)
(* The pointer and the frames are where they should be whenever nobody has *)
(* the display, and the interrupt handler leaves the driver alone while a  *)
(* task is in it: for every number of tasks, every depth of their          *)
(* paintings, and all positions, shapes and frames.                        *)
(*                                                                         *)
(* The property speaks of the time between calls.  In the middle of one,   *)
(* the invariant says what the operations that are still to come will make *)
(* of the pointer and of the frames (WillPaint), and which of the driver's *)
(* two copies of the pointer is behind at each place (PtrInv).             *)
(***************************************************************************)
EXTENDS WinPtr, FiniteSetTheorems, SequenceTheorems, TLAPS

\* The operations of the display.
Ops == [op : {"hide", "show", "invert", "draw", "update"}, rects : SUBSET Outline]

\* Whether the pointer is hidden after the operations s, if before them h said so.
HiddenBy(s, h) ==
    \/ \E i \in 1..Len(s) : s[i].op = "hide" /\ \A j \in (i + 1)..Len(s) : s[j].op # "show"
    \/ h = TRUE /\ \A i \in 1..Len(s) : s[i].op # "show"

\* The frames after them.  A call makes at most four.
FramesBy(s, f) ==
    IF Len(s) = 0 THEN f
    ELSE IF Len(s) = 1 THEN SymDiff(f, s[1].rects)
    ELSE IF Len(s) = 2 THEN SymDiff(SymDiff(f, s[1].rects), s[2].rects)
    ELSE IF Len(s) = 3 THEN SymDiff(SymDiff(SymDiff(f, s[1].rects), s[2].rects), s[3].rects)
    ELSE SymDiff(SymDiff(SymDiff(SymDiff(f, s[1].rects), s[2].rects), s[3].rects), s[4].rects)

\* The operations that have not reached the driver yet.
Left == IF pc \in {"idle", "lock", "use"} THEN todo ELSE Tail(todo)

TodoType ==
    /\ todo \in Seq(Ops) /\ Len(todo) \in 0..4
    /\ (todo = <<>>) <=> (pc = "idle")
    /\ \A i \in 1..Len(todo) : todo[i].op = "update" => todo[i].rects = {}

\* After them the pointer is hidden and the frame gone exactly if somebody paints.
WillPaint ==
    /\ HiddenBy(Left, hidden) <=> dpainting > 0
    /\ FramesBy(Left, frames) = IF dpainting > 0 THEN {} ELSE preview

\* A task has the display from its lock to its unlock.
Locked == display_locked = IF pc \in {"idle", "lock"} THEN 0 ELSE 1

\* Until the mouse moves again, the display shows the pointer in its place, but
\* between moveptr and setptr; and who has not asked for its shape yet is going to.
PtrInv ==
    /\ pc \in {"idle", "lock"} => ~ptr_moved
    /\ pc # "set" => img = currptr
    /\ ~ptr_moved =>
        /\ pc \in {"idle", "lock", "use", "pick", "unlock"} => shown = <<ptr, currptr>>
        /\ pc \in {"idle", "use", "unlock"} => currptr = under[ptr]
        /\ (pc = "lock" /\ todo[1].op # "update") => currptr = under[ptr]
        /\ pc = "place" => reg = ptr
        /\ pc \in {"move", "set"} => p = under[ptr]
        /\ pc = "set" => shown = <<ptr, p>>
    /\ pc = "use" => todo[1].op # "update"

Counted == dpainting = Cardinality(Begun)

WinInv == TypeOK /\ Counted /\ TodoType /\ WillPaint /\ Locked /\ PtrInv

-----------------------------------------------------------------------------
(* Lists of operations.                                                    *)

\* The tail of a list.
LEMMA TailIs ==
    ASSUME NEW s \in Seq(Ops), Len(s) \in 1..4
    PROVE  /\ Head(s) = s[1]
           /\ Tail(s) \in Seq(Ops)
           /\ Len(Tail(s)) = Len(s) - 1
           /\ \A i \in 1..(Len(s) - 1) : Tail(s)[i] = s[i + 1]
           /\ (Tail(s) = <<>>) <=> (Len(s) = 1)
           /\ s # <<>>
<1>1. s # <<>> /\ Head(s) = s[1] /\ Tail(s) \in Seq(Ops)
  OBVIOUS
<1>2. Len(Tail(s)) = Len(s) - 1
  OBVIOUS
<1>3. \A i \in 1..(Len(s) - 1) : Tail(s)[i] = s[i + 1]
  OBVIOUS
<1>4. (Tail(s) = <<>>) <=> (Len(s) = 1)
  BY <1>1, <1>2
<1>5. QED
  BY <1>1, <1>2, <1>3, <1>4

\* What the first of the operations makes of the pointer.
LEMMA FirstHides ==
    ASSUME NEW s \in Seq(Ops), Len(s) \in 1..4, NEW h, NEW g,
           (g = TRUE) <=> (s[1].op = "hide" \/ (s[1].op # "show" /\ h = TRUE))
    PROVE  HiddenBy(s, h) <=> HiddenBy(Tail(s), g)
<1>1. /\ Len(Tail(s)) = Len(s) - 1 /\ Len(s) \in Nat \ {0}
      /\ \A i \in 1..(Len(s) - 1) : Tail(s)[i] = s[i + 1]
  BY TailIs
<1>2. ASSUME HiddenBy(s, h) PROVE HiddenBy(Tail(s), g)
  <2>1. CASE h = TRUE /\ \A i \in 1..Len(s) : s[i].op # "show"
    BY <1>1, <2>1 DEF HiddenBy
  <2>2. CASE \E i \in 1..Len(s) : s[i].op = "hide" /\ \A j \in (i + 1)..Len(s) : s[j].op # "show"
    <3>1. PICK i \in 1..Len(s) : s[i].op = "hide" /\ \A j \in (i + 1)..Len(s) : s[j].op # "show"
      BY <2>2
    <3>2. CASE i = 1
      <4>1. g = TRUE /\ \A j \in 1..Len(Tail(s)) : Tail(s)[j].op # "show"
        BY <1>1, <3>1, <3>2
      <4>2. QED
        BY <4>1 DEF HiddenBy
    <3>3. CASE i # 1
      <4>1. /\ i - 1 \in 1..Len(Tail(s)) /\ Tail(s)[i - 1].op = "hide"
            /\ \A j \in ((i - 1) + 1)..Len(Tail(s)) : Tail(s)[j].op # "show"
        BY <1>1, <3>1, <3>3
      <4>2. QED
        BY <4>1 DEF HiddenBy
    <3>4. QED
      BY <3>2, <3>3
  <2>3. QED
    BY <1>2, <2>1, <2>2 DEF HiddenBy
<1>3. ASSUME HiddenBy(Tail(s), g) PROVE HiddenBy(s, h)
  <2>1. CASE g = TRUE /\ \A i \in 1..Len(Tail(s)) : Tail(s)[i].op # "show"
    <3>1. \A j \in 2..Len(s) : s[j].op # "show"
      <4>1. TAKE j \in 2..Len(s)
      <4>2. j - 1 \in 1..Len(Tail(s)) /\ Tail(s)[j - 1] = s[j]
        BY <1>1
      <4>3. QED
        BY <2>1, <4>2
    <3>2. CASE s[1].op = "hide"
      <4>1. 1 \in 1..Len(s) /\ \A j \in (1 + 1)..Len(s) : s[j].op # "show"
        BY <1>1, <3>1
      <4>2. QED
        BY <3>2, <4>1 DEF HiddenBy
    <3>3. CASE s[1].op # "hide"
      <4>1. h = TRUE /\ \A j \in 1..Len(s) : s[j].op # "show"
        BY <1>1, <2>1, <3>1, <3>3
      <4>2. QED
        BY <4>1 DEF HiddenBy
    <3>4. QED
      BY <3>2, <3>3
  <2>2. CASE \E i \in 1..Len(Tail(s)) : /\ Tail(s)[i].op = "hide"
                                        /\ \A j \in (i + 1)..Len(Tail(s)) : Tail(s)[j].op # "show"
    <3>1. PICK i \in 1..Len(Tail(s)) : /\ Tail(s)[i].op = "hide"
                                       /\ \A j \in (i + 1)..Len(Tail(s)) : Tail(s)[j].op # "show"
      BY <2>2
    <3>2. i + 1 \in 1..Len(s) /\ s[i + 1].op = "hide"
      BY <1>1, <3>1
    <3>3. \A j \in ((i + 1) + 1)..Len(s) : s[j].op # "show"
      <4>1. TAKE j \in ((i + 1) + 1)..Len(s)
      <4>2. j - 1 \in (i + 1)..Len(Tail(s)) /\ Tail(s)[j - 1] = s[j]
        BY <1>1
      <4>3. QED
        BY <3>1, <4>2
    <3>4. QED
      BY <3>2, <3>3 DEF HiddenBy
  <2>3. QED
    BY <1>3, <2>1, <2>2 DEF HiddenBy
<1>4. QED
  BY <1>2, <1>3

\* What it makes of the frames.
LEMMA FirstFrames ==
    ASSUME NEW s \in Seq(Ops), Len(s) \in 1..4, NEW f
    PROVE  FramesBy(s, f) = FramesBy(Tail(s), SymDiff(f, s[1].rects))
<1>1. /\ Len(Tail(s)) = Len(s) - 1 /\ Len(s) \in 1..4
      /\ \A i \in 1..(Len(s) - 1) : Tail(s)[i] = s[i + 1]
  BY TailIs
<1>2. CASE Len(s) = 1
  <2>1. FramesBy(s, f) = SymDiff(f, s[1].rects)
    BY <1>2 DEF FramesBy
  <2>2. FramesBy(Tail(s), SymDiff(f, s[1].rects))
        = SymDiff(f, s[1].rects)
    BY <1>1, <1>2 DEF FramesBy
  <2>3. QED
    BY <2>1, <2>2
<1>3. CASE Len(s) = 2
  <2>1. FramesBy(s, f) = SymDiff(SymDiff(f, s[1].rects), s[2].rects)
    BY <1>3 DEF FramesBy
  <2>2. FramesBy(Tail(s), SymDiff(f, s[1].rects))
        = SymDiff(SymDiff(f, s[1].rects), Tail(s)[1].rects)
    <3>1. Len(Tail(s)) = 1
      BY <1>1, <1>3
    <3>2. QED
      BY <3>1 DEF FramesBy
  <2>3. Tail(s)[1] = s[2]
    <3>1. 1 \in 1..(Len(s) - 1)
      BY <1>1, <1>3
    <3>2. QED
      BY <1>1, <3>1
  <2>4. QED
    BY <2>1, <2>2, <2>3, Zenon
<1>4. CASE Len(s) = 3
  <2>1. FramesBy(s, f) = SymDiff(SymDiff(SymDiff(f, s[1].rects), s[2].rects), s[3].rects)
    BY <1>4 DEF FramesBy
  <2>2. FramesBy(Tail(s), SymDiff(f, s[1].rects))
        = SymDiff(SymDiff(SymDiff(f, s[1].rects), Tail(s)[1].rects), Tail(s)[2].rects)
    <3>1. Len(Tail(s)) = 2
      BY <1>1, <1>4
    <3>2. QED
      BY <3>1 DEF FramesBy
  <2>3. Tail(s)[1] = s[2] /\ Tail(s)[2] = s[3]
    <3>1. 1 \in 1..(Len(s) - 1) /\ 2 \in 1..(Len(s) - 1)
      BY <1>1, <1>4
    <3>2. QED
      BY <1>1, <3>1
  <2>4. QED
    BY <2>1, <2>2, <2>3, Zenon
<1>5. CASE Len(s) = 4
  <2>1. FramesBy(s, f) = SymDiff(SymDiff(SymDiff(SymDiff(f, s[1].rects), s[2].rects), s[3].rects), s[4].rects)
    BY <1>5 DEF FramesBy
  <2>2. FramesBy(Tail(s), SymDiff(f, s[1].rects))
        = SymDiff(SymDiff(SymDiff(SymDiff(f, s[1].rects), Tail(s)[1].rects), Tail(s)[2].rects),
                  Tail(s)[3].rects)
    <3>1. Len(Tail(s)) = 3
      BY <1>1, <1>5
    <3>2. QED
      BY <3>1 DEF FramesBy
  <2>3. Tail(s)[1] = s[2] /\ Tail(s)[2] = s[3] /\ Tail(s)[3] = s[4]
    <3>1. 1 \in 1..(Len(s) - 1) /\ 2 \in 1..(Len(s) - 1) /\ 3 \in 1..(Len(s) - 1)
      BY <1>1, <1>5
    <3>2. QED
      BY <1>1, <3>1
  <2>4. QED
    BY <2>1, <2>2, <2>3, Zenon
<1>6. QED
  BY <1>1, <1>2, <1>3, <1>4, <1>5

\* Frames inverted twice are as before, and none inverted changes nothing.
LEMMA Inverted ==
    ASSUME NEW f, NEW g
    PROVE  SymDiff(f, {}) = f /\ SymDiff({}, f) = f /\ SymDiff(f, f) = {}
  BY DEF SymDiff

\* Without a hide and a show the pointer stays as it is; a list that ends with a show
\* shows it, one that begins with a hide and has no show hides it.
LEMMA ListHides ==
    ASSUME NEW s \in Seq(Ops), NEW h
    PROVE  /\ (\A i \in 1..Len(s) : s[i].op \notin {"hide", "show"}) => (HiddenBy(s, h) <=> h = TRUE)
           /\ (Len(s) > 0 /\ s[Len(s)].op = "show") => ~HiddenBy(s, h)
           /\ (Len(s) > 0 /\ s[1].op = "hide" /\ \A i \in 1..Len(s) : s[i].op # "show") => HiddenBy(s, h)
<1>1. Len(s) \in Nat
  OBVIOUS
<1>2. ASSUME \A i \in 1..Len(s) : s[i].op \notin {"hide", "show"} PROVE HiddenBy(s, h) <=> h = TRUE
  BY <1>2 DEF HiddenBy
<1>3. ASSUME Len(s) > 0, s[Len(s)].op = "show" PROVE ~HiddenBy(s, h)
  <2>1. Len(s) \in 1..Len(s) /\ \A i \in 1..Len(s) : i = Len(s) \/ Len(s) \in (i + 1)..Len(s)
    BY <1>1, <1>3
  <2>2. QED
    BY <1>3, <2>1 DEF HiddenBy
<1>4. ASSUME Len(s) > 0, s[1].op = "hide", \A i \in 1..Len(s) : s[i].op # "show" PROVE HiddenBy(s, h)
  <2>1. 1 \in 1..Len(s) /\ \A j \in (1 + 1)..Len(s) : j \in 1..Len(s)
    BY <1>1, <1>4
  <2>2. QED
    BY <1>4, <2>1 DEF HiddenBy
<1>5. QED
  BY <1>2, <1>3, <1>4

\* Two lists of one.
LEMMA Pair ==
    ASSUME NEW S, NEW x \in S, NEW y \in S
    PROVE  <<x>> \o <<y>> = <<x, y>>
<1>1. <<x>> \in Seq(S) /\ <<y>> \in Seq(S) /\ <<x, y>> \in Seq(S)
  OBVIOUS
<1>2. <<x>> \o <<y>> \in Seq(S)
  BY <1>1
<1>3. Len(<<x>> \o <<y>>) = 2 /\ Len(<<x, y>>) = 2
  BY <1>1
<1>4. \A i \in 1..2 : (<<x>> \o <<y>>)[i] = <<x, y>>[i]
  BY <1>1
<1>5. QED
  BY <1>1, <1>2, <1>3, <1>4, SeqEqual

\* The lists of win_paint and win_end_paint.
LEMMA PaintList ==
    ASSUME NEW a \in SUBSET Outline
    PROVE  /\ Paint(0, a) = IF a = {} THEN <<Op("hide")>>
                                      ELSE <<Op("hide"), [op |-> "invert", rects |-> a]>>
           /\ EndPaint(1, a) = IF a = {} THEN <<Op("show")>>
                                         ELSE <<[op |-> "invert", rects |-> a], Op("show")>>
<1>1. CASE a = {}
  BY <1>1 DEF Paint, EndPaint, Invert
<1>2. CASE a # {}
  <2>1. Invert(a) = <<[op |-> "invert", rects |-> a]>>
    BY <1>2 DEF Invert
  <2>2. /\ Paint(0, a) = <<Op("hide")>> \o <<[op |-> "invert", rects |-> a]>>
        /\ EndPaint(1, a) = <<[op |-> "invert", rects |-> a]>> \o <<Op("show")>>
    BY <2>1 DEF Paint, EndPaint
  <2>3. \A x, y \in Ops : <<x>> \o <<y>> = <<x, y>>
    BY Pair
  <2>4. QED
    BY <1>2, <2>2, <2>3 DEF Ops, Op
<1>3. QED
  BY <1>1, <1>2

\* What a list may be that a call starts with: it leads from h and f to a pointer that
\* is hidden exactly if n is positive, and to the frames e.
Leads(s, h, f, n, e) ==
    /\ s \in Seq(Ops) /\ Len(s) \in 0..4
    /\ \A i \in 1..Len(s) : s[i].op = "update" => s[i].rects = {}
    /\ HiddenBy(s, h) <=> n > 0
    /\ FramesBy(s, f) = e

\* A list of nothing changes nothing.
LEMMA NothingLeads ==
    ASSUME NEW h, NEW f, NEW n, (h = TRUE) <=> n > 0
    PROVE  Leads(<<>>, h, f, n, f)
<1>1. HiddenBy(<<>>, h) <=> h = TRUE
  BY DEF HiddenBy
<1>2. FramesBy(<<>>, f) = f
  BY DEF FramesBy
<1>3. <<>> \in Seq(Ops) /\ Len(<<>>) \in 0..4 /\ 1..Len(<<>>) = {}
  OBVIOUS
<1>4. QED
  BY <1>1, <1>2, <1>3, Zenon DEF Leads

\* win_paint hides the pointer and takes the frame off the screen.
LEMMA PaintLeads ==
    ASSUME NEW a \in SUBSET Outline, NEW h, NEW n, n > 0
    PROVE  Leads(Paint(0, a), h, a, n, {})
<1> DEFINE hide == Op("hide")
           inv == [op |-> "invert", rects |-> a]
           list == Paint(0, a)
<1>1. /\ hide \in Ops /\ hide.op = "hide" /\ hide.rects = {}
      /\ inv \in Ops /\ inv.op = "invert" /\ inv.rects = a
  BY DEF Op, Ops
<1>2. list = IF a = {} THEN <<hide>> ELSE <<hide, inv>>
  BY PaintList
<1> HIDE DEF hide, inv, list
<1>3. CASE a = {}
  <2>1. list \in Seq(Ops) /\ Len(list) = 1 /\ list[1] = hide
    BY <1>1, <1>2, <1>3
  <2>2. \A i \in 1..Len(list) : list[i].op = "hide"
    BY <1>1, <2>1
  <2>3. HiddenBy(list, h)
    <3>1. Len(list) > 0 /\ list[1].op = "hide"
      BY <1>1, <2>1
    <3>2. \A i \in 1..Len(list) : list[i].op # "show"
      BY <2>2
    <3>3. QED
      BY <2>1, <3>1, <3>2, ListHides, Zenon
  <2>4. FramesBy(list, a) = SymDiff(a, hide.rects)
    BY <2>1 DEF FramesBy
  <2>5. FramesBy(list, a) = {}
    BY <1>1, <1>3, <2>4, Inverted
  <2>6. Len(list) \in 0..4 /\ \A i \in 1..Len(list) : list[i].op # "update"
    BY <2>1, <2>2
  <2>7. QED
    BY <2>1, <2>3, <2>5, <2>6, Zenon DEF Leads, list
<1>4. CASE a # {}
  <2>1. list \in Seq(Ops) /\ Len(list) = 2 /\ list[1] = hide /\ list[2] = inv
    BY <1>1, <1>2, <1>4
  <2>2. \A i \in 1..Len(list) : list[i].op \in {"invert", "hide"}
    BY <1>1, <2>1
  <2>3. HiddenBy(list, h)
    <3>1. Len(list) > 0 /\ list[1].op = "hide"
      BY <1>1, <2>1
    <3>2. \A i \in 1..Len(list) : list[i].op # "show"
      BY <2>2
    <3>3. QED
      BY <2>1, <3>1, <3>2, ListHides, Zenon
  <2>4. FramesBy(list, a) = SymDiff(SymDiff(a, hide.rects), inv.rects)
    BY <2>1 DEF FramesBy
  <2>5. FramesBy(list, a) = {}
    BY <1>1, <2>4, Inverted
  <2>6. Len(list) \in 0..4 /\ \A i \in 1..Len(list) : list[i].op # "update"
    BY <2>1, <2>2
  <2>7. QED
    BY <2>1, <2>3, <2>5, <2>6, Zenon DEF Leads, list
<1>5. QED
  BY <1>3, <1>4 DEF list

\* win_end_paint shows the pointer and puts the frame on the screen.
LEMMA EndPaintLeads ==
    ASSUME NEW a \in SUBSET Outline, NEW h, NEW n, ~(n > 0)
    PROVE  Leads(EndPaint(1, a), h, {}, n, a)
<1> DEFINE show == Op("show")
           inv == [op |-> "invert", rects |-> a]
           list == EndPaint(1, a)
<1>1. /\ show \in Ops /\ show.op = "show" /\ show.rects = {}
      /\ inv \in Ops /\ inv.op = "invert" /\ inv.rects = a
  BY DEF Op, Ops
<1>2. list = IF a = {} THEN <<show>> ELSE <<inv, show>>
  BY PaintList
<1> HIDE DEF show, inv, list
<1>3. CASE a = {}
  <2>1. list \in Seq(Ops) /\ Len(list) = 1 /\ list[1] = show
    BY <1>1, <1>2, <1>3
  <2>2. \A i \in 1..Len(list) : list[i].op = "show"
    BY <1>1, <2>1
  <2>3. ~HiddenBy(list, h)
    <3>1. Len(list) > 0 /\ list[Len(list)].op = "show"
      BY <1>1, <2>1
    <3>2. \A i \in 1..Len(list) : list[i].op # "hide"
      BY <2>2
    <3>3. QED
      BY <2>1, <3>1, <3>2, ListHides, Zenon
  <2>4. FramesBy(list, {}) = SymDiff({}, show.rects)
    BY <2>1 DEF FramesBy
  <2>5. FramesBy(list, {}) = a
    BY <1>1, <1>3, <2>4, Inverted
  <2>6. Len(list) \in 0..4 /\ \A i \in 1..Len(list) : list[i].op # "update"
    BY <2>1, <2>2
  <2>7. QED
    BY <2>1, <2>3, <2>5, <2>6, Zenon DEF Leads, list
<1>4. CASE a # {}
  <2>1. list \in Seq(Ops) /\ Len(list) = 2 /\ list[1] = inv /\ list[2] = show
    BY <1>1, <1>2, <1>4
  <2>2. \A i \in 1..Len(list) : list[i].op \in {"invert", "show"}
    BY <1>1, <2>1
  <2>3. ~HiddenBy(list, h)
    <3>1. Len(list) > 0 /\ list[Len(list)].op = "show"
      BY <1>1, <2>1
    <3>2. \A i \in 1..Len(list) : list[i].op # "hide"
      BY <2>2
    <3>3. QED
      BY <2>1, <3>1, <3>2, ListHides, Zenon
  <2>4. FramesBy(list, {}) = SymDiff(SymDiff({}, inv.rects), show.rects)
    BY <2>1 DEF FramesBy
  <2>5. FramesBy(list, {}) = a
    BY <1>1, <2>4, Inverted
  <2>6. Len(list) \in 0..4 /\ \A i \in 1..Len(list) : list[i].op # "update"
    BY <2>1, <2>2
  <2>7. QED
    BY <2>1, <2>3, <2>5, <2>6, Zenon DEF Leads, list
<1>5. QED
  BY <1>3, <1>4 DEF list

\* One list after another.
LEMMA JoinFrames ==
    ASSUME NEW s \in Seq(Ops), NEW t \in Seq(Ops), Len(s) \in 1..2, Len(t) \in 1..2, NEW f
    PROVE  FramesBy(s \o t, f) = FramesBy(t, FramesBy(s, f))
<1> DEFINE both == s \o t
<1>1. /\ Len(both) = Len(s) + Len(t)
      /\ \A i \in 1..Len(s) : both[i] = s[i]
      /\ \A i \in 1..Len(t) : both[Len(s) + i] = t[i]
  OBVIOUS
<1> HIDE DEF both
<1>2. CASE Len(s) = 1 /\ Len(t) = 1
  <2>1. Len(both) = 2 /\ both[1] = s[1] /\ both[2] = t[1]
    BY <1>1, <1>2
  <2>2. QED
    BY <1>2, <2>1 DEF FramesBy, both
<1>3. CASE Len(s) = 1 /\ Len(t) = 2
  <2>1. Len(both) = 3 /\ both[1] = s[1] /\ both[2] = t[1] /\ both[3] = t[2]
    BY <1>1, <1>3
  <2>2. QED
    BY <1>3, <2>1 DEF FramesBy, both
<1>4. CASE Len(s) = 2 /\ Len(t) = 1
  <2>1. Len(both) = 3 /\ both[1] = s[1] /\ both[2] = s[2] /\ both[3] = t[1]
    BY <1>1, <1>4
  <2>2. QED
    BY <1>4, <2>1 DEF FramesBy, both
<1>5. CASE Len(s) = 2 /\ Len(t) = 2
  <2>1. Len(both) = 4 /\ both[1] = s[1] /\ both[2] = s[2] /\ both[3] = t[1] /\ both[4] = t[2]
    BY <1>1, <1>5
  <2>2. QED
    BY <1>5, <2>1 DEF FramesBy, both
<1>6. QED
  BY <1>2, <1>3, <1>4, <1>5

\* What both lists look like.
LEMMA PaintShape ==
    ASSUME NEW a \in SUBSET Outline
    PROVE  /\ Paint(0, a) \in Seq(Ops) /\ Len(Paint(0, a)) \in 1..2
           /\ \A i \in 1..Len(Paint(0, a)) : Paint(0, a)[i].op # "update"
           /\ EndPaint(1, a) \in Seq(Ops) /\ Len(EndPaint(1, a)) \in 1..2
           /\ \A i \in 1..Len(EndPaint(1, a)) : EndPaint(1, a)[i].op # "update"
           /\ EndPaint(1, a)[Len(EndPaint(1, a))].op = "show"
<1> DEFINE hide == Op("hide")
           show == Op("show")
           inv == [op |-> "invert", rects |-> a]
           first == Paint(0, a)
           last == EndPaint(1, a)
<1>1. hide \in Ops /\ hide.op = "hide" /\ show \in Ops /\ show.op = "show" /\ inv \in Ops /\ inv.op = "invert"
  BY DEF Op, Ops
<1>2. /\ first = IF a = {} THEN <<hide>> ELSE <<hide, inv>>
      /\ last = IF a = {} THEN <<show>> ELSE <<inv, show>>
  BY PaintList
<1> HIDE DEF hide, show, inv, first, last
<1>3. CASE a = {}
  <2>1. /\ first \in Seq(Ops) /\ Len(first) = 1 /\ first[1] = hide
        /\ last \in Seq(Ops) /\ Len(last) = 1 /\ last[1] = show
    BY <1>1, <1>2, <1>3
  <2>2. QED
    BY <1>1, <2>1 DEF first, last
<1>4. CASE a # {}
  <2>1. /\ first \in Seq(Ops) /\ Len(first) = 2 /\ first[1] = hide /\ first[2] = inv
        /\ last \in Seq(Ops) /\ Len(last) = 2 /\ last[1] = inv /\ last[2] = show
    BY <1>1, <1>2, <1>4
  <2>2. QED
    BY <1>1, <2>1 DEF first, last
<1>5. QED
  BY <1>3, <1>4

\* win_rect_preview takes one frame off the screen and puts the other on.
LEMMA PreviewLeads ==
    ASSUME NEW a \in SUBSET Outline, NEW b \in SUBSET Outline, NEW h, NEW n, ~(n > 0)
    PROVE  Leads(Paint(0, a) \o EndPaint(1, b), h, a, n, b)
<1> DEFINE first == Paint(0, a)
           last == EndPaint(1, b)
           both == first \o last
<1>1. /\ first \in Seq(Ops) /\ Len(first) \in 1..2
      /\ \A i \in 1..Len(first) : first[i].op # "update"
      /\ last \in Seq(Ops) /\ Len(last) \in 1..2
      /\ \A i \in 1..Len(last) : last[i].op # "update"
      /\ last[Len(last)].op = "show"
  BY PaintShape, Zenon
<1>2. FramesBy(first, a) = {} /\ FramesBy(last, {}) = b
  <2>1. Leads(first, h, a, 1, {})
    <3>1. 1 > 0
      OBVIOUS
    <3>2. QED
      BY <3>1, PaintLeads, Zenon
  <2>2. Leads(last, h, {}, n, b)
    BY EndPaintLeads, Zenon
  <2>3. QED
    BY <2>1, <2>2, Zenon DEF Leads
<1> HIDE DEF first, last
<1>3. FramesBy(both, a) = b
  <2>1. FramesBy(first \o last, a) = FramesBy(last, FramesBy(first, a))
    BY <1>1, JoinFrames
  <2>2. QED
    BY <1>2, <2>1, Zenon
<1>4. /\ both \in Seq(Ops) /\ Len(both) = Len(first) + Len(last)
      /\ \A i \in 1..Len(first) : both[i] = first[i]
      /\ \A i \in 1..Len(last) : both[Len(first) + i] = last[i]
  BY <1>1
<1> HIDE DEF both
<1>5. Len(both) \in 0..4 /\ Len(both) > 0
  <2>1. Len(first) \in 1..2 /\ Len(last) \in 1..2 /\ Len(both) = Len(first) + Len(last)
    BY <1>1, <1>4, Zenon
  <2>2. \A x, y \in 1..2 : x + y \in 0..4 /\ x + y > 0
    OBVIOUS
  <2>3. QED
    BY <2>1, <2>2, Zenon
<1>6. \A i \in 1..Len(both) : both[i].op # "update"
  <2>1. TAKE i \in 1..Len(both)
  <2>2. CASE i \in 1..Len(first)
    BY <1>1, <1>4, <2>2
  <2>3. CASE i \notin 1..Len(first)
    <3>1. i - Len(first) \in 1..Len(last) /\ Len(first) + (i - Len(first)) = i
      BY <1>1, <1>4, <2>3
    <3>2. both[i] = last[i - Len(first)]
      BY <1>4, <3>1
    <3>3. QED
      BY <1>1, <3>1, <3>2
  <2>4. QED
    BY <2>2, <2>3
<1>7. both[Len(both)].op = "show"
  BY <1>1, <1>4
<1>8. ~HiddenBy(both, h)
  BY <1>4, <1>5, <1>7, ListHides, Zenon
<1>9. QED
  BY <1>3, <1>4, <1>5, <1>6, <1>8, Zenon DEF Leads, both, first, last

-----------------------------------------------------------------------------
(* Counting the paintings.                                                 *)

BegunOf(f) == {x \in Task \X (1..MaxPaint) : x[2] <= f[x[1]]}

\* They can be counted.
LEMMA BegunFinite ==
    ASSUME WinPtrAssumption, NEW f
    PROVE  IsFiniteSet(BegunOf(f)) /\ Cardinality(BegunOf(f)) \in Nat
<1>1. IsFiniteSet(Task) /\ IsFiniteSet(1..MaxPaint)
  BY FS_Interval DEF WinPtrAssumption
<1>2. IsFiniteSet(Task \X (1..MaxPaint))
  BY <1>1, FS_Product
<1>3. BegunOf(f) \subseteq Task \X (1..MaxPaint)
  BY DEF BegunOf
<1>4. IsFiniteSet(BegunOf(f))
  BY <1>2, <1>3, FS_Subset
<1>5. QED
  BY <1>4, FS_CardinalityType

\* One more.
LEMMA BegunMore ==
    ASSUME WinPtrAssumption, NEW f \in [Task -> 0..MaxPaint], NEW g \in [Task -> 0..MaxPaint],
           NEW t \in Task, g[t] = f[t] + 1, \A u \in Task \ {t} : g[u] = f[u]
    PROVE  Cardinality(BegunOf(g)) = Cardinality(BegunOf(f)) + 1
<1> DEFINE new == <<t, f[t] + 1>>
<1>1. MaxPaint \in Nat /\ f[t] \in 0..MaxPaint /\ f[t] + 1 \in 1..MaxPaint
  BY DEF WinPtrAssumption
<1>2. new \in Task \X (1..MaxPaint) /\ new \notin BegunOf(f)
  BY <1>1 DEF BegunOf
<1>3. BegunOf(g) = BegunOf(f) \cup {new}
  <2>1. ASSUME NEW u \in Task, NEW k \in 1..MaxPaint
        PROVE  k <= g[u] <=> (k <= f[u] \/ <<u, k>> = new)
    <3>1. CASE u = t
      BY <1>1, <3>1
    <3>2. CASE u # t
      BY <3>2
    <3>3. QED
      BY <3>1, <3>2
  <2>2. \A x \in Task \X (1..MaxPaint) : x[2] <= g[x[1]] <=> (x[2] <= f[x[1]] \/ x = new)
    BY <2>1
  <2>3. QED
    BY <1>2, <2>2 DEF BegunOf
<1>4. QED
  <2>1. IsFiniteSet(BegunOf(f))
    BY BegunFinite
  <2>2. QED
    BY <1>2, <1>3, <2>1, FS_AddElement, Zenon

\* One less.
LEMMA BegunLess ==
    ASSUME WinPtrAssumption, NEW f \in [Task -> 0..MaxPaint], NEW g \in [Task -> 0..MaxPaint],
           NEW t \in Task, g[t] = f[t] - 1, \A u \in Task \ {t} : g[u] = f[u]
    PROVE  Cardinality(BegunOf(g)) = Cardinality(BegunOf(f)) - 1
<1>1. f[t] \in 0..MaxPaint /\ MaxPaint \in Nat
  BY DEF WinPtrAssumption
<1>2. f[t] = g[t] + 1 /\ \A u \in Task \ {t} : f[u] = g[u]
  BY <1>1
<1>3. Cardinality(BegunOf(f)) = Cardinality(BegunOf(g)) + 1
  BY <1>2, BegunMore
<1>4. Cardinality(BegunOf(f)) \in Nat /\ Cardinality(BegunOf(g)) \in Nat
  BY BegunFinite
<1>5. QED
  BY <1>3, <1>4

\* None of a task, whose number is a part of the sum.
LEMMA BegunNone ==
    ASSUME WinPtrAssumption, NEW f \in [Task -> 0..MaxPaint], NEW g \in [Task -> 0..MaxPaint],
           NEW t \in Task, g[t] = 0, \A u \in Task \ {t} : g[u] = f[u]
    PROVE  Cardinality(BegunOf(f)) = Cardinality(BegunOf(g)) + f[t]
<1> DEFINE own == {t} \X (1..f[t])
<1>1. MaxPaint \in Nat /\ f[t] \in 0..MaxPaint
  BY DEF WinPtrAssumption
<1>2. IsFiniteSet(own) /\ Cardinality(own) = f[t]
  <2>1. IsFiniteSet({t}) /\ Cardinality({t}) = 1
    BY FS_Singleton
  <2>2. IsFiniteSet(1..f[t]) /\ Cardinality(1..f[t]) = f[t]
    BY <1>1, FS_Interval
  <2>3. IsFiniteSet(own) /\ Cardinality(own) = 1 * f[t]
    BY <2>1, <2>2, FS_Product
  <2>4. QED
    BY <1>1, <2>3
<1>3. BegunOf(f) = BegunOf(g) \cup own /\ BegunOf(g) \cap own = {}
  <2>1. ASSUME NEW u \in Task, NEW k \in 1..MaxPaint
        PROVE  /\ k <= f[u] <=> (k <= g[u] \/ (u = t /\ k \in 1..f[t]))
               /\ ~(k <= g[u] /\ u = t)
    <3>1. CASE u = t
      BY <1>1, <3>1
    <3>2. CASE u # t
      BY <3>2
    <3>3. QED
      BY <3>1, <3>2
  <2>2. own \subseteq Task \X (1..MaxPaint)
    BY <1>1
  <2>3. ASSUME NEW x \in Task \X (1..MaxPaint)
        PROVE  /\ x \in BegunOf(f) <=> (x \in BegunOf(g) \/ x \in own)
               /\ ~(x \in BegunOf(g) /\ x \in own)
    BY <2>1 DEF BegunOf
  <2>4. BegunOf(f) \subseteq Task \X (1..MaxPaint) /\ BegunOf(g) \subseteq Task \X (1..MaxPaint)
    BY DEF BegunOf
  <2>5. QED
    BY <2>2, <2>3, <2>4
<1>4. IsFiniteSet(BegunOf(g)) /\ Cardinality(BegunOf(g)) \in Nat
  BY BegunFinite
<1> HIDE DEF own
<1>5. Cardinality(BegunOf(g) \cup own)
      = Cardinality(BegunOf(g)) + Cardinality(own) - Cardinality(BegunOf(g) \cap own)
  BY <1>2, <1>4, FS_Union
<1>6. Cardinality(BegunOf(g) \cap own) = 0
  BY <1>3, FS_EmptySet
<1>7. QED
  BY <1>1, <1>2, <1>3, <1>4, <1>5, <1>6

-----------------------------------------------------------------------------
(* The calls.                                                              *)

\* Between calls nothing is left to do.
LEMMA AtIdle ==
    ASSUME TodoType, WillPaint, pc = "idle"
    PROVE  /\ todo = <<>>
           /\ (hidden = TRUE) <=> dpainting > 0
           /\ frames = IF dpainting > 0 THEN {} ELSE preview
<1>1. todo = <<>> /\ Left = <<>>
  BY DEF TodoType, Left
<1>2. (hidden = TRUE) <=> HiddenBy(<<>>, hidden)
  BY DEF HiddenBy
<1>3. FramesBy(<<>>, frames) = frames
  BY DEF FramesBy
<1>4. QED
  BY <1>1, <1>2, <1>3, Zenon DEF WillPaint

\* A call starts with a list that leads to what is to be on the screen.
LEMMA CallBegins ==
    ASSUME TypeOK, TodoType, WillPaint, Locked, PtrInv, NEW ops, Begins(ops),
           Leads(ops, hidden, frames, dpainting', IF dpainting' > 0 THEN {} ELSE preview'),
           under' = under \/ (ops # <<>> /\ ops[1].op = "update")
    PROVE  TodoType' /\ WillPaint' /\ Locked' /\ PtrInv'
<1>1. /\ pc = "idle" /\ todo' = ops /\ pc' = IF ops = <<>> THEN "idle" ELSE "lock"
      /\ UNCHANGED <<display_locked, ptr_moved, ptr, currptr, shown, img, hidden, frames>>
  BY DEF Begins, display
<1>2. TodoType'
  BY <1>1, Zenon DEF Leads, TodoType
<1>3. WillPaint'
  <2>1. Left' = ops
    BY <1>1 DEF Left
  <2>2. QED
    BY <1>1, <2>1, Zenon DEF WillPaint, Leads
<1>4. Locked'
  BY <1>1 DEF Locked
<1>5. PtrInv'
  BY <1>1 DEF PtrInv
<1>6. QED
  BY <1>2, <1>3, <1>4, <1>5

-----------------------------------------------------------------------------
(* The steps.                                                              *)

\* A list that is not empty.
LEMMA TodoList ==
    ASSUME TodoType, pc # "idle"
    PROVE  /\ todo \in Seq(Ops) /\ Len(todo) \in 1..4 /\ Head(todo) = todo[1]
           /\ todo[1] \in Ops /\ 1 \in 1..Len(todo)
  BY DEF TodoType

LEMMA LockInv ==
    ASSUME TypeOK, TodoType, WillPaint, Locked, PtrInv, win_lock1
    PROVE  TodoType' /\ WillPaint' /\ Locked' /\ PtrInv'
<1>1. /\ pc = "lock" /\ display_locked' = display_locked + 1
      /\ pc' = IF todo[1].op = "update" THEN "pick" ELSE "use"
      /\ UNCHANGED <<ptr_moved, ptr, currptr, todo, reg, p, shown, img, hidden, frames,
                     under, dpainting, preview>>
  BY TodoList DEF win_lock1, Stays, display, paintvars
<1>2. TodoType'
  BY <1>1 DEF TodoType
<1>3. WillPaint'
  <2>1. Left = todo
    BY <1>1 DEF Left
  <2>2. CASE todo[1].op # "update"
    <3>1. Left' = todo
      BY <1>1, <2>2 DEF Left
    <3>2. QED
      BY <1>1, <2>1, <3>1, Zenon DEF WillPaint
  <2>3. CASE todo[1].op = "update"
    <3>1. Left' = Tail(todo)
      BY <1>1, <2>3 DEF Left
    <3>2. todo \in Seq(Ops) /\ Len(todo) \in 1..4 /\ todo[1].rects = {}
      BY <1>1, <2>3, TodoList DEF TodoType
    <3>3. HiddenBy(todo, hidden) <=> HiddenBy(Tail(todo), hidden)
      <4>1. (hidden = TRUE) <=> (todo[1].op = "hide" \/ (todo[1].op # "show" /\ hidden = TRUE))
        BY <2>3
      <4>2. QED
        BY <3>2, <4>1, FirstHides, Zenon
    <3>4. FramesBy(todo, frames) = FramesBy(Tail(todo), frames)
      <4>1. FramesBy(todo, frames) = FramesBy(Tail(todo), SymDiff(frames, todo[1].rects))
        BY <3>2, FirstFrames, Zenon
      <4>2. SymDiff(frames, todo[1].rects) = frames
        BY <3>2, Inverted
      <4>3. QED
        BY <4>1, <4>2, Zenon
    <3>5. QED
      BY <1>1, <2>1, <3>1, <3>3, <3>4, Zenon DEF WillPaint
  <2>4. QED
    BY <2>2, <2>3
<1>4. Locked'
  BY <1>1 DEF Locked
<1>5. PtrInv'
  BY <1>1 DEF PtrInv
<1>6. QED
  BY <1>2, <1>3, <1>4, <1>5

LEMMA UseInv ==
    ASSUME TypeOK, TodoType, WillPaint, Locked, PtrInv, Use
    PROVE  TodoType' /\ WillPaint' /\ Locked' /\ PtrInv'
<1>1. /\ pc = "use" /\ pc' = "unlock"
      /\ frames' = SymDiff(frames, todo[1].rects)
      /\ UNCHANGED <<display_locked, ptr_moved, ptr, currptr, todo, shown, img,
                     under, dpainting, preview>>
  BY TodoList DEF Use, Stays, display, paintvars
<1>2. (hidden' = TRUE) <=> (todo[1].op = "hide" \/ (todo[1].op # "show" /\ hidden = TRUE))
  <2>1. Head(todo) = todo[1]
    BY <1>1, TodoList
  <2>2. hidden' = CASE todo[1].op = "hide" -> TRUE
                    [] todo[1].op = "show" -> FALSE
                    [] OTHER -> hidden
    BY <2>1, Zenon DEF Use
  <2>3. CASE todo[1].op = "hide"
    BY <2>2, <2>3
  <2>4. CASE todo[1].op = "show"
    BY <2>2, <2>4
  <2>5. CASE todo[1].op \notin {"hide", "show"}
    BY <2>2, <2>5
  <2>6. QED
    BY <2>3, <2>4, <2>5
<1>3. TodoType'
  BY <1>1 DEF TodoType
<1>4. WillPaint'
  <2>1. Left = todo /\ Left' = Tail(todo)
    BY <1>1 DEF Left
  <2>2. todo \in Seq(Ops) /\ Len(todo) \in 1..4
    BY <1>1, TodoList
  <2>3. HiddenBy(todo, hidden) <=> HiddenBy(Tail(todo), hidden')
    BY <1>2, <2>2, FirstHides, Zenon
  <2>4. FramesBy(todo, frames) = FramesBy(Tail(todo), frames')
    BY <1>1, <2>2, FirstFrames, Zenon
  <2>5. QED
    BY <1>1, <2>1, <2>3, <2>4, Zenon DEF WillPaint
<1>5. Locked'
  BY <1>1 DEF Locked
<1>6. PtrInv'
  BY <1>1 DEF PtrInv
<1>7. QED
  BY <1>3, <1>4, <1>5, <1>6

\* The steps between the use and the unlock leave the list.
LEMMA InsideInv ==
    ASSUME TypeOK, TodoType, WillPaint, Locked, PtrInv,
           Pick \/ Move \/ Set \/ Read \/ PlacePtr \/ (win_unlock1 /\ Again)
    PROVE  TodoType' /\ WillPaint' /\ Locked' /\ PtrInv'
<1>1. /\ pc \in {"pick", "move", "set", "read", "place", "unlock"}
      /\ pc' \in {"pick", "move", "set", "read", "place", "unlock"}
      /\ UNCHANGED <<display_locked, ptr, todo, hidden, frames, under, dpainting, preview>>
  BY DEF Pick, Move, Set, Read, PlacePtr, win_unlock1, Stays, display, paintvars
<1>2. TodoType'
  BY <1>1 DEF TodoType
<1>3. WillPaint'
  <2>1. Left = Tail(todo) /\ Left' = Tail(todo)
    BY <1>1 DEF Left
  <2>2. QED
    BY <1>1, <2>1, Zenon DEF WillPaint
<1>4. Locked'
  BY <1>1 DEF Locked
<1>5. PtrInv'
  <2>1. CASE Pick
    BY <2>1 DEF Pick, Stays, display, paintvars, PtrInv
  <2>2. CASE Move
    BY <2>2 DEF Move, Stays, display, paintvars, PtrInv
  <2>3. CASE Set
    BY <2>3 DEF Set, Stays, display, paintvars, PtrInv
  <2>4. CASE Read
    BY <2>4 DEF Read, Stays, display, paintvars, PtrInv
  <2>5. CASE PlacePtr
    BY <2>5 DEF PlacePtr, Stays, display, paintvars, PtrInv
  <2>6. CASE win_unlock1 /\ Again
    BY <2>6 DEF win_unlock1, Stays, display, paintvars, PtrInv
  <2>7. QED
    BY <2>1, <2>2, <2>3, <2>4, <2>5, <2>6
<1>6. QED
  BY <1>2, <1>3, <1>4, <1>5

LEMMA UnlockInv ==
    ASSUME TypeOK, TodoType, WillPaint, Locked, PtrInv, win_unlock1, ~Again
    PROVE  TodoType' /\ WillPaint' /\ Locked' /\ PtrInv'
<1>1. /\ pc = "unlock" /\ display_locked' = display_locked - 1 /\ todo' = Tail(todo)
      /\ pc' = IF Len(todo) = 1 THEN "idle" ELSE "lock"
      /\ UNCHANGED <<ptr_moved, ptr, currptr, shown, img, hidden, frames, under, dpainting, preview>>
  BY DEF win_unlock1, Stays, display, paintvars
<1>2. display_locked = 1 /\ ~ptr_moved
  BY <1>1 DEF Locked, Again, TypeOK
<1>3. /\ todo \in Seq(Ops) /\ Len(todo) \in 1..4
      /\ Tail(todo) \in Seq(Ops) /\ Len(Tail(todo)) = Len(todo) - 1
      /\ \A i \in 1..(Len(todo) - 1) : Tail(todo)[i] = todo[i + 1]
      /\ (Tail(todo) = <<>>) <=> (Len(todo) = 1)
  <2>1. todo \in Seq(Ops) /\ Len(todo) \in 1..4
    BY <1>1, TodoList
  <2>2. QED
    BY <2>1, TailIs
<1>4. TodoType'
  <2>1. Len(Tail(todo)) \in 0..4
    BY <1>3
  <2>2. (Tail(todo) = <<>>) <=> (pc' = "idle")
    BY <1>1, <1>3
  <2>3. ASSUME NEW i \in 1..Len(Tail(todo)), Tail(todo)[i].op = "update"
        PROVE  Tail(todo)[i].rects = {}
    BY <1>3, <2>3 DEF TodoType
  <2>4. QED
    BY <1>1, <1>3, <2>1, <2>2, <2>3, Zenon DEF TodoType
<1>5. WillPaint'
  <2>1. Left = Tail(todo) /\ Left' = Tail(todo)
    BY <1>1 DEF Left
  <2>2. QED
    BY <1>1, <2>1, Zenon DEF WillPaint
<1>6. Locked'
  BY <1>1, <1>2 DEF Locked
<1>7. PtrInv'
  BY <1>1, <1>2 DEF PtrInv
<1>8. QED
  BY <1>4, <1>5, <1>6, <1>7

\* The interrupt draws the pointer where nobody has the display, and otherwise leaves
\* word.
LEMMA MoveInv ==
    ASSUME TypeOK, TodoType, WillPaint, Locked, PtrInv, NEW x \in Pos, win_ptrmove(x)
    PROVE  TodoType' /\ WillPaint' /\ Locked' /\ PtrInv'
<1>1. UNCHANGED <<display_locked, under, pc, todo, reg, p, hidden, frames, dpainting, preview>>
  BY DEF win_ptrmove, paintvars
<1>2. TodoType'
  BY <1>1 DEF TodoType
<1>3. WillPaint'
  <2>1. Left' = Left
    BY <1>1 DEF Left
  <2>2. QED
    BY <1>1, <2>1, Zenon DEF WillPaint
<1>4. Locked'
  BY <1>1 DEF Locked
<1>5. PtrInv'
  <2>1. CASE Alone
    <3>1. pc \in {"idle", "lock"} /\ ~ptr_moved
      BY <2>1 DEF Alone, Locked, PtrInv
    <3>2. /\ ptr' = x /\ shown' = <<x, under[x]>> /\ img' = under[x] /\ currptr' = under[x]
          /\ ptr_moved' = ptr_moved
      BY <2>1 DEF win_ptrmove
    <3>3. QED
      BY <1>1, <3>1, <3>2 DEF PtrInv
  <2>2. CASE ~Alone
    <3>1. pc \notin {"idle", "lock"}
      BY <2>2 DEF Alone, Locked
    <3>2. ptr_moved' = TRUE /\ UNCHANGED <<shown, img, currptr>>
      BY <2>2 DEF win_ptrmove
    <3>3. QED
      BY <1>1, <3>1, <3>2 DEF PtrInv
  <2>3. QED
    BY <2>1, <2>2
<1>6. QED
  BY <1>2, <1>3, <1>4, <1>5

-----------------------------------------------------------------------------
(* The invariant.                                                          *)

\* A boot's display.
LEMMA InitWin ==
    ASSUME WinPtrAssumption, Init
    PROVE  WinInv
<1>1. MaxPaint \in Nat
  BY DEF WinPtrAssumption
<1>2. TypeOK
  <2>1. PICK s \in Shape : /\ under = [x \in Pos |-> s] /\ currptr = s
                           /\ shown = <<ptr, s>> /\ img = s /\ p = s
    BY DEF Init
  <2>2. under \in [Pos -> Shape] /\ currptr \in Shape /\ shown \in Pos \X Shape /\ img \in Shape /\ p \in Shape
    BY <2>1 DEF Init
  <2>3. painting \in [Task -> 0..MaxPaint] /\ dpainting \in Nat
    BY <1>1 DEF Init
  <2>4. /\ display_locked = 0 /\ ptr_moved = FALSE /\ hidden = FALSE /\ pc = "idle"
        /\ ptr \in Pos /\ reg = ptr /\ preview = {} /\ frames = {}
    BY Zenon DEF Init
  <2>5. display_locked \in 0..1 /\ ptr_moved \in BOOLEAN /\ hidden \in BOOLEAN
    <3>1. 0 \in 0..1
      OBVIOUS
    <3>2. QED
      BY <2>4, <3>1, Zenon
  <2>6. ptr \in Pos /\ reg \in Pos /\ preview \in SUBSET Outline /\ frames \in SUBSET Outline
    BY <2>4
  <2>7. QED
    BY <2>2, <2>3, <2>4, <2>5, <2>6, Zenon DEF TypeOK
<1>3. Counted
  <2>1. Begun = {}
    <3>1. \A u \in Task : painting[u] = 0
      BY DEF Init
    <3>2. QED
      BY <1>1, <3>1 DEF Begun
  <2>2. QED
    BY <2>1, FS_EmptySet DEF Counted, Init
<1>4. TodoType
  BY DEF Init, TodoType
<1>5. WillPaint
  <2>1. Left = <<>>
    BY DEF Left, Init
  <2>2. HiddenBy(<<>>, hidden) <=> dpainting > 0
    BY DEF HiddenBy, Init
  <2>3. FramesBy(<<>>, frames) = IF dpainting > 0 THEN {} ELSE preview
    BY DEF FramesBy, Init
  <2>4. QED
    BY <2>1, <2>2, <2>3, Zenon DEF WillPaint
<1>6. Locked
  BY DEF Init, Locked
<1>7. PtrInv
  BY DEF Init, PtrInv
<1>8. QED
  BY <1>2, <1>3, <1>4, <1>5, <1>6, <1>7 DEF WinInv

\* What a call leaves alone but for painting, dpainting, preview and under.
LEMMA BeginsTypes ==
    ASSUME TypeOK, NEW ops, Begins(ops),
           under' \in [Pos -> Shape], painting' \in [Task -> 0..MaxPaint],
           dpainting' \in Nat, preview' \in SUBSET Outline
    PROVE  TypeOK'
<1>1. pc' \in {"idle", "lock"}
  BY DEF Begins
<1>2. QED
  BY <1>1 DEF Begins, display, TypeOK

LEMMA PaintInv ==
    ASSUME WinPtrAssumption, WinInv, NEW t \in Task, win_paint(t)
    PROVE  WinInv'
<1>1. TypeOK /\ TodoType /\ WillPaint /\ Locked /\ PtrInv /\ Counted
  BY DEF WinInv
<1>2. /\ pc = "idle" /\ painting[t] < MaxPaint /\ MaxPaint \in Nat
      /\ painting' = [painting EXCEPT ![t] = painting[t] + 1]
      /\ dpainting' = dpainting + 1 /\ Begins(Paint(dpainting, preview))
      /\ under' = under /\ preview' = preview
  BY DEF win_paint, Begins, WinPtrAssumption
<1>3. /\ painting \in [Task -> 0..MaxPaint] /\ dpainting \in Nat /\ preview \in SUBSET Outline
      /\ under \in [Pos -> Shape]
  BY <1>1 DEF TypeOK
<1>4. painting' \in [Task -> 0..MaxPaint] /\ painting'[t] = painting[t] + 1
      /\ \A u \in Task \ {t} : painting'[u] = painting[u]
  BY <1>2, <1>3
<1>5. TypeOK'
  <2>1. dpainting' \in Nat
    BY <1>2, <1>3
  <2>2. QED
    BY <1>1, <1>2, <1>3, <1>4, <2>1, BeginsTypes
<1>6. Counted'
  <2>1. Cardinality(BegunOf(painting')) = Cardinality(BegunOf(painting)) + 1
    BY <1>3, <1>4, BegunMore
  <2>2. QED
    BY <1>1, <1>2, <2>1 DEF Counted, Begun, BegunOf
<1>7. Leads(Paint(dpainting, preview), hidden, frames, dpainting', {}) /\ dpainting' > 0
  <2>1. dpainting' > 0
    BY <1>2, <1>3
  <2>2. CASE dpainting = 0
    <3>1. frames = preview
      BY <1>1, <1>2, <2>2, AtIdle
    <3>2. QED
      BY <1>3, <2>1, <2>2, <3>1, PaintLeads, Zenon
  <2>3. CASE dpainting # 0
    <3>1. dpainting > 0
      BY <1>3, <2>3
    <3>2. Paint(dpainting, preview) = <<>> /\ frames = {} /\ ((hidden = TRUE) <=> dpainting' > 0)
      BY <1>1, <1>2, <2>1, <2>3, <3>1, AtIdle DEF Paint
    <3>3. QED
      BY <2>1, <3>2, NothingLeads, Zenon
  <2>4. QED
    BY <2>2, <2>3
<1>8. TodoType' /\ WillPaint' /\ Locked' /\ PtrInv'
  BY <1>1, <1>2, <1>7, CallBegins, Zenon
<1>9. QED
  BY <1>5, <1>6, <1>8 DEF WinInv

\* What the end of a painting puts on the screen, if n paintings are left.
LEMMA EndLeads ==
    ASSUME TypeOK, TodoType, WillPaint, pc = "idle", dpainting > 0,
           NEW n \in Nat, NEW pre \in SUBSET Outline,
           NEW ops, ops = IF n = 0 THEN EndPaint(1, pre) ELSE <<>>
    PROVE  Leads(ops, hidden, frames, n, IF n > 0 THEN {} ELSE pre)
<1>1. frames = {} /\ hidden = TRUE
  BY AtIdle
<1>2. CASE n = 0
  <2>1. ~(n > 0) /\ ops = EndPaint(1, pre)
    BY <1>2
  <2>2. QED
    BY <1>1, <2>1, EndPaintLeads, Zenon
<1>3. CASE n # 0
  <2>1. n > 0 /\ ops = <<>>
    BY <1>3
  <2>2. QED
    BY <1>1, <2>1, NothingLeads, Zenon
<1>4. QED
  BY <1>2, <1>3

LEMMA EndPaintInv ==
    ASSUME WinPtrAssumption, WinInv, NEW t \in Task, NEW pre \in SUBSET Outline,
           pc = "idle", painting[t] > 0,
           painting' = [painting EXCEPT ![t] = painting[t] - 1],
           dpainting' = dpainting - 1,
           Begins(EndPaint(dpainting, pre)),
           under' = under, preview' = pre
    PROVE  WinInv'
<1>1. TypeOK /\ TodoType /\ WillPaint /\ Locked /\ PtrInv /\ Counted
  BY DEF WinInv
<1>2. /\ painting \in [Task -> 0..MaxPaint] /\ dpainting \in Nat /\ preview \in SUBSET Outline
      /\ under \in [Pos -> Shape] /\ MaxPaint \in Nat
  BY <1>1 DEF TypeOK, WinPtrAssumption
<1>3. painting' \in [Task -> 0..MaxPaint] /\ painting'[t] = painting[t] - 1
      /\ \A u \in Task \ {t} : painting'[u] = painting[u]
  BY <1>2
<1>4. Counted' /\ dpainting > 0 /\ dpainting' \in Nat
  <2>1. Cardinality(BegunOf(painting')) = Cardinality(BegunOf(painting)) - 1
    BY <1>2, <1>3, BegunLess
  <2>2. Cardinality(BegunOf(painting')) \in Nat /\ Cardinality(BegunOf(painting)) \in Nat
    BY BegunFinite
  <2>3. dpainting = Cardinality(BegunOf(painting))
    BY <1>1 DEF Counted, Begun, BegunOf
  <2>4. dpainting' = Cardinality(BegunOf(painting')) /\ dpainting > 0 /\ dpainting' \in Nat
    BY <2>1, <2>2, <2>3
  <2>5. QED
    BY <2>4 DEF Counted, Begun, BegunOf
<1>5. TypeOK'
  BY <1>1, <1>2, <1>3, <1>4, BeginsTypes
<1>6. Leads(EndPaint(dpainting, pre), hidden, frames, dpainting', IF dpainting' > 0 THEN {} ELSE preview')
  <2>1. EndPaint(dpainting, pre) = IF dpainting' = 0 THEN EndPaint(1, pre) ELSE <<>>
    BY <1>2 DEF EndPaint
  <2>2. QED
    BY <1>1, <1>4, <2>1, EndLeads, Zenon
<1>7. TodoType' /\ WillPaint' /\ Locked' /\ PtrInv'
  BY <1>1, <1>6, CallBegins, Zenon
<1>8. QED
  BY <1>4, <1>5, <1>7 DEF WinInv

\* A preview between a win_paint and its win_end_paint.
LEMMA PreviewInv ==
    ASSUME WinPtrAssumption, WinInv, NEW t \in Task, NEW pre \in SUBSET Outline, win_rect_preview(t, pre)
    PROVE  WinInv'
<1>1. TypeOK /\ TodoType /\ WillPaint /\ Locked /\ PtrInv /\ Counted
  BY DEF WinInv
<1> DEFINE ops == Paint(dpainting, preview) \o EndPaint(dpainting + 1, pre)
<1>2. /\ pc = "idle" /\ preview' = pre /\ Begins(ops) /\ under' = under
      /\ painting' = painting /\ dpainting' = dpainting
  BY DEF win_rect_preview, Begins
<1>3. /\ painting \in [Task -> 0..MaxPaint] /\ dpainting \in Nat /\ preview \in SUBSET Outline
      /\ under \in [Pos -> Shape]
  BY <1>1 DEF TypeOK
<1>4. Leads(ops, hidden, frames, dpainting', IF dpainting' > 0 THEN {} ELSE preview')
  <2>1. CASE dpainting = 0
    <3>1. frames = preview /\ ~(dpainting > 0) /\ dpainting + 1 = 1
      BY <1>1, <1>2, <2>1, AtIdle
    <3>2. Leads(Paint(0, preview) \o EndPaint(1, pre), hidden, preview, dpainting, pre)
      BY <1>3, <3>1, PreviewLeads, Zenon
    <3>3. QED
      BY <1>2, <2>1, <3>1, <3>2, Zenon
  <2>2. CASE dpainting # 0
    <3>1. dpainting > 0 /\ dpainting + 1 # 1
      BY <1>3, <2>2
    <3>2. Paint(dpainting, preview) = <<>> /\ EndPaint(dpainting + 1, pre) = <<>>
      BY <2>2, <3>1, Zenon DEF Paint, EndPaint
    <3>3. <<>> \o <<>> = <<>>
      OBVIOUS
    <3>4. ops = <<>>
      BY <3>2, <3>3, Zenon
    <3>5. frames = {} /\ ((hidden = TRUE) <=> dpainting > 0)
      BY <1>1, <1>2, <3>1, AtIdle
    <3>6. Leads(<<>>, hidden, frames, dpainting, frames)
      BY <3>5, NothingLeads, Zenon
    <3>7. QED
      BY <1>2, <3>1, <3>4, <3>5, <3>6, Zenon
  <2>3. QED
    BY <2>1, <2>2
<1> HIDE DEF ops
<1>5. TodoType' /\ WillPaint' /\ Locked' /\ PtrInv'
  BY <1>1, <1>2, <1>4, CallBegins, Zenon
<1>6. TypeOK'
  BY <1>1, <1>2, <1>3, BeginsTypes
<1>7. Counted'
  BY <1>1, <1>2 DEF Counted, Begun
<1>8. QED
  BY <1>5, <1>6, <1>7 DEF WinInv

\* A task that leaves takes all its paintings back.
LEMMA CleanInv ==
    ASSUME WinPtrAssumption, WinInv, NEW t \in Task, win_clean(t)
    PROVE  WinInv'
<1>1. TypeOK /\ TodoType /\ WillPaint /\ Locked /\ PtrInv /\ Counted
  BY DEF WinInv
<1> DEFINE ops == IF dpainting = painting[t] THEN EndPaint(1, preview) ELSE <<>>
<1>2. /\ pc = "idle" /\ painting[t] > 0 /\ painting' = [painting EXCEPT ![t] = 0]
      /\ dpainting' = dpainting - painting[t] /\ Begins(ops)
      /\ under' = under /\ preview' = preview
  BY DEF win_clean, Begins
<1>3. /\ painting \in [Task -> 0..MaxPaint] /\ dpainting \in Nat /\ preview \in SUBSET Outline
      /\ under \in [Pos -> Shape] /\ MaxPaint \in Nat /\ painting[t] \in Nat
  BY <1>1 DEF TypeOK, WinPtrAssumption
<1>4. painting' \in [Task -> 0..MaxPaint] /\ painting'[t] = 0
      /\ \A u \in Task \ {t} : painting'[u] = painting[u]
  BY <1>2, <1>3
<1>5. Counted' /\ dpainting > 0 /\ dpainting' \in Nat
  <2>1. Cardinality(BegunOf(painting)) = Cardinality(BegunOf(painting')) + painting[t]
    BY <1>3, <1>4, BegunNone
  <2>2. Cardinality(BegunOf(painting')) \in Nat /\ Cardinality(BegunOf(painting)) \in Nat
    BY BegunFinite
  <2>3. dpainting = Cardinality(BegunOf(painting))
    BY <1>1 DEF Counted, Begun, BegunOf
  <2>4. dpainting' = Cardinality(BegunOf(painting')) /\ dpainting > 0 /\ dpainting' \in Nat
    BY <1>2, <1>3, <2>1, <2>2, <2>3
  <2>5. QED
    BY <2>4 DEF Counted, Begun, BegunOf
<1>6. ops = IF dpainting' = 0 THEN EndPaint(1, preview) ELSE <<>>
  <2>1. dpainting = painting[t] <=> dpainting' = 0
    BY <1>2, <1>3
  <2>2. QED
    BY <2>1
<1> HIDE DEF ops
<1>7. TypeOK'
  BY <1>1, <1>2, <1>3, <1>4, <1>5, BeginsTypes
<1>8. Leads(ops, hidden, frames, dpainting', IF dpainting' > 0 THEN {} ELSE preview')
  BY <1>1, <1>2, <1>3, <1>5, <1>6, EndLeads, Zenon
<1>9. TodoType' /\ WillPaint' /\ Locked' /\ PtrInv'
  BY <1>1, <1>2, <1>8, CallBegins, Zenon
<1>10. QED
  BY <1>5, <1>7, <1>9 DEF WinInv

\* A call of the display that changes neither the pointer nor the frames.
LEMMA OneLeads ==
    ASSUME TypeOK, TodoType, WillPaint, pc = "idle", NEW name \in {"draw", "update"}
    PROVE  /\ Leads(<<Op(name)>>, hidden, frames, dpainting, IF dpainting > 0 THEN {} ELSE preview)
           /\ <<Op(name)>> # <<>> /\ <<Op(name)>>[1].op = name
<1> DEFINE one == Op(name)
<1>1. one \in Ops /\ one.op = name /\ one.rects = {}
  BY DEF Ops, Op
<1> HIDE DEF one
<1> DEFINE list == <<one>>
<1>2. list \in Seq(Ops) /\ Len(list) = 1 /\ list[1] = one /\ list # <<>>
  BY <1>1
<1> HIDE DEF list
<1>3. HiddenBy(list, hidden) <=> hidden = TRUE
  <2>1. \A i \in 1..Len(list) : list[i].op \notin {"hide", "show"}
    BY <1>1, <1>2
  <2>2. QED
    BY <1>2, <2>1, ListHides, Zenon
<1>4. FramesBy(list, frames) = frames
  <2>1. FramesBy(list, frames) = SymDiff(frames, list[1].rects)
    BY <1>2 DEF FramesBy
  <2>2. QED
    BY <1>1, <1>2, <2>1, Inverted, Zenon
<1>5. Len(list) \in 0..4 /\ \A i \in 1..Len(list) : list[i].rects = {}
  BY <1>1, <1>2
<1>6. ((hidden = TRUE) <=> dpainting > 0) /\ frames = IF dpainting > 0 THEN {} ELSE preview
  BY AtIdle
<1>7. Leads(list, hidden, frames, dpainting, IF dpainting > 0 THEN {} ELSE preview)
  BY <1>2, <1>3, <1>4, <1>5, <1>6, Zenon DEF Leads
<1>8. QED
  BY <1>1, <1>2, <1>7, Zenon DEF list, one

\* A drawing call, and one that changes the windows.
LEMMA CallInv ==
    ASSUME WinPtrAssumption, WinInv,
           Draw \/ \E u \in [Pos -> Shape] : Windows(u)
    PROVE  WinInv'
<1>1. TypeOK /\ TodoType /\ WillPaint /\ Locked /\ PtrInv /\ Counted
  BY DEF WinInv
<1>2. PICK name \in {"draw", "update"} :
          /\ Begins(<<Op(name)>>)
          /\ under' \in [Pos -> Shape]
          /\ under' = under \/ name = "update"
          /\ UNCHANGED paintvars
  BY <1>1 DEF Draw, Windows, TypeOK
<1>3. pc = "idle" /\ painting' = painting /\ dpainting' = dpainting /\ preview' = preview
  BY <1>2 DEF Begins, paintvars
<1>4. /\ Leads(<<Op(name)>>, hidden, frames, dpainting, IF dpainting > 0 THEN {} ELSE preview)
      /\ <<Op(name)>> # <<>> /\ <<Op(name)>>[1].op = name
  BY <1>1, <1>3, OneLeads, Zenon
<1>5. TodoType' /\ WillPaint' /\ Locked' /\ PtrInv'
  BY <1>1, <1>2, <1>3, <1>4, CallBegins, Zenon
<1>6. TypeOK'
  <2>1. painting \in [Task -> 0..MaxPaint] /\ dpainting \in Nat /\ preview \in SUBSET Outline
    BY <1>1 DEF TypeOK
  <2>2. QED
    BY <1>1, <1>2, <1>3, <2>1, BeginsTypes, Zenon
<1>7. Counted'
  BY <1>1, <1>3 DEF Counted, Begun
<1>8. QED
  BY <1>5, <1>6, <1>7 DEF WinInv

\* The steps of a call and the interrupt leave the counts alone.
LEMMA StepInv ==
    ASSUME WinPtrAssumption, WinInv, Step \/ \E x \in Pos : win_ptrmove(x)
    PROVE  WinInv'
<1>1. TypeOK /\ TodoType /\ WillPaint /\ Locked /\ PtrInv /\ Counted
  BY DEF WinInv
<1>2. UNCHANGED <<under, painting, dpainting, preview>>
  BY DEF Step, win_lock1, Use, Pick, Move, Set, win_unlock1, Read, PlacePtr, Stays, win_ptrmove, paintvars
<1>3. Counted'
  BY <1>1, <1>2 DEF Counted, Begun
<1>4. TodoType' /\ WillPaint' /\ Locked' /\ PtrInv'
  <2>1. CASE win_lock1
    BY <1>1, <2>1, LockInv, Zenon
  <2>2. CASE Use
    BY <1>1, <2>2, UseInv, Zenon
  <2>3. CASE Pick \/ Move \/ Set \/ Read \/ PlacePtr \/ (win_unlock1 /\ Again)
    BY <1>1, <2>3, InsideInv, Zenon
  <2>4. CASE win_unlock1 /\ ~Again
    BY <1>1, <2>4, UnlockInv, Zenon
  <2>5. CASE \E x \in Pos : win_ptrmove(x)
    BY <1>1, <2>5, MoveInv, Zenon
  <2>6. QED
    BY <2>1, <2>2, <2>3, <2>4, <2>5 DEF Step
<1>5. TypeOK'
  <2>1. CASE win_lock1
    BY <1>1, <1>2, <2>1 DEF win_lock1, Stays, display, paintvars, Locked, TypeOK
  <2>2. CASE Use
    <3>1. todo[1] \in Ops /\ Head(todo) = todo[1]
      BY <1>1, <2>2, TodoList DEF Use, Stays
    <3>2. frames' \in SUBSET Outline
      BY <1>1, <2>2, <3>1 DEF Use, TypeOK, SymDiff, Ops
    <3>3. hidden' \in BOOLEAN
      <4>1. hidden' = CASE todo[1].op = "hide" -> TRUE
                        [] todo[1].op = "show" -> FALSE
                        [] OTHER -> hidden
        BY <2>2, <3>1, Zenon DEF Use
      <4>2. hidden \in BOOLEAN
        BY <1>1 DEF TypeOK
      <4>3. CASE todo[1].op = "hide"
        BY <4>1, <4>3
      <4>4. CASE todo[1].op = "show"
        BY <4>1, <4>4
      <4>5. CASE todo[1].op \notin {"hide", "show"}
        BY <4>1, <4>2, <4>5
      <4>6. QED
        BY <4>3, <4>4, <4>5
    <3>4. /\ pc' = "unlock"
          /\ UNCHANGED <<display_locked, ptr_moved, ptr, currptr, todo, reg, p, shown, img>>
      BY <2>2 DEF Use, Stays
    <3>5. QED
      BY <1>1, <1>2, <3>2, <3>3, <3>4 DEF TypeOK
  <2>3. CASE Pick
    BY <1>1, <1>2, <2>3 DEF Pick, Stays, display, paintvars, TypeOK
  <2>4. CASE Move
    BY <1>1, <1>2, <2>4 DEF Move, Stays, display, paintvars, TypeOK
  <2>5. CASE Set
    BY <1>1, <1>2, <2>5 DEF Set, Stays, display, paintvars, TypeOK
  <2>6. CASE win_unlock1
    <3>1. display_locked = 1
      BY <1>1, <2>6 DEF win_unlock1, Locked
    <3>2. display_locked' \in 0..1
      BY <2>6, <3>1 DEF win_unlock1
    <3>3. ptr_moved' \in BOOLEAN
      BY <1>1, <2>6 DEF win_unlock1, TypeOK
    <3>4. pc' \in {"idle", "lock", "read"} /\ UNCHANGED <<ptr, currptr, reg, p, shown, img, hidden, frames>>
      BY <2>6 DEF win_unlock1, Stays, display
    <3>5. QED
      BY <1>1, <1>2, <3>2, <3>3, <3>4 DEF TypeOK
  <2>7. CASE Read
    BY <1>1, <1>2, <2>7 DEF Read, Stays, display, paintvars, TypeOK
  <2>8. CASE PlacePtr
    BY <1>1, <1>2, <2>8 DEF PlacePtr, Stays, display, paintvars, TypeOK
  <2>9. CASE \E x \in Pos : win_ptrmove(x)
    <3>1. PICK x \in Pos : win_ptrmove(x)
      BY <2>9
    <3>2. under[x] \in Shape
      BY <1>1 DEF TypeOK
    <3>3. UNCHANGED <<display_locked, pc, reg, p, hidden, frames>> /\ ptr' = x
      BY <3>1 DEF win_ptrmove
    <3>4. ptr_moved' \in BOOLEAN
      BY <1>1, <3>1 DEF win_ptrmove, TypeOK
    <3>5. shown' \in Pos \X Shape /\ img' \in Shape /\ currptr' \in Shape
      BY <1>1, <3>1, <3>2 DEF win_ptrmove, TypeOK
    <3>6. QED
      BY <1>1, <1>2, <3>3, <3>4, <3>5 DEF TypeOK
  <2>10. QED
    BY <2>1, <2>2, <2>3, <2>4, <2>5, <2>6, <2>7, <2>8, <2>9 DEF Step
<1>6. QED
  BY <1>3, <1>4, <1>5 DEF WinInv

\* Every step keeps the invariant.
LEMMA NextWin ==
    ASSUME WinPtrAssumption, WinInv, [Next]_vars
    PROVE  WinInv'
<1>1. CASE \E t \in Task : win_paint(t)
  BY <1>1, PaintInv
<1>2. CASE \E t \in Task : win_end_paint(t)
  <2>1. PICK t \in Task : win_end_paint(t)
    BY <1>2
  <2>2. /\ preview \in SUBSET Outline /\ pc = "idle" /\ painting[t] > 0
        /\ painting' = [painting EXCEPT ![t] = painting[t] - 1] /\ dpainting' = dpainting - 1
        /\ Begins(EndPaint(dpainting, preview)) /\ under' = under /\ preview' = preview
    BY <2>1 DEF win_end_paint, Begins, WinInv, TypeOK
  <2>3. QED
    BY <2>2, EndPaintInv, Zenon
<1>3. CASE \E t \in Task : win_clean(t)
  BY <1>3, CleanInv
<1>4. CASE \E t \in Task, pre \in SUBSET Outline : win_rect_preview(t, pre)
  BY <1>4, PreviewInv
<1>5. CASE \E t \in Task, pre \in SUBSET Outline : PreviewAtLimit(t, pre)
  <2>1. PICK t \in Task, pre \in SUBSET Outline : PreviewAtLimit(t, pre)
    BY <1>5
  <2>2. /\ pc = "idle" /\ painting[t] > 0
        /\ painting' = [painting EXCEPT ![t] = painting[t] - 1] /\ dpainting' = dpainting - 1
        /\ Begins(EndPaint(dpainting, pre)) /\ under' = under /\ preview' = pre
    BY <2>1 DEF PreviewAtLimit, Begins, WinPtrAssumption
  <2>3. QED
    BY <2>2, EndPaintInv, Zenon
<1>6. CASE Draw \/ \E u \in [Pos -> Shape] : Windows(u)
  BY <1>6, CallInv
<1>7. CASE Step \/ \E x \in Pos : win_ptrmove(x)
  BY <1>7, StepInv
<1>8. CASE UNCHANGED vars
  BY <1>8 DEF vars, WinInv, TypeOK, Counted, Begun, TodoType, WillPaint, Left, Locked, PtrInv
<1>9. QED
  <2>1. \A pre \in {{}} \cup {{r} : r \in Outline} : pre \in SUBSET Outline
    OBVIOUS
  <2>2. QED
    BY <1>1, <1>2, <1>3, <1>4, <1>5, <1>6, <1>7, <1>8, <2>1, Zenon DEF Next

\* What the invariant says between calls.
LEMMA WinMeaning ==
    ASSUME WinInv
    PROVE  DisplayRight
<1>1. TypeOK /\ TodoType /\ WillPaint /\ Locked /\ PtrInv /\ Counted
  BY DEF WinInv
<1>2. PointerRight
  BY <1>1 DEF PointerRight, Locked, PtrInv
<1>3. PaintRight
  <2>1. ASSUME pc = "idle"
        PROVE  (hidden <=> dpainting > 0) /\ frames = IF dpainting > 0 THEN {} ELSE preview
    <3>1. ((hidden = TRUE) <=> dpainting > 0) /\ frames = IF dpainting > 0 THEN {} ELSE preview
      BY <1>1, <2>1, AtIdle
    <3>2. hidden \in BOOLEAN
      BY <1>1 DEF TypeOK
    <3>3. QED
      BY <3>1, <3>2
  <2>2. QED
    BY <1>1, <2>1, Zenon DEF PaintRight, Counted
<1>4. QED
  BY <1>1, <1>2, <1>3 DEF DisplayRight

LEMMA WinAlways == ASSUME WinPtrAssumption PROVE Spec => []WinInv
<1>1. Init => WinInv
  BY InitWin
<1>2. WinInv /\ [Next]_vars => WinInv'
  BY NextWin
<1>3. QED
  BY <1>1, <1>2, PTL DEF Spec

\* While nobody has the display, the pointer is drawn where the mouse is and with the
\* shape in use, and no move is left over (win_lock1, win_unlock1, win_ptrmove); between
\* calls it is hidden, and the dragged frame gone, exactly while somebody paints
\* (win_paint, win_end_paint, win_rect_preview, win_clean).
THEOREM DisplayCorrect == ASSUME WinPtrAssumption PROVE Spec => []DisplayRight
<1>1. WinInv => DisplayRight
  BY WinMeaning
<1>2. QED
  BY <1>1, WinAlways, PTL

\* The mouse's interrupt handler does not draw while a task has the display
\* (display_locked in win_ptrmove).
THEOREM DriverAloneHolds == ASSUME WinPtrAssumption PROVE Spec => DriverAlone
<1>1. WinInv /\ [Next]_vars => [pc' = pc /\ <<shown, img>>' # <<shown, img>> => pc \in {"idle", "lock"}]_vars
  <2>1. SUFFICES ASSUME WinInv, Next, pc' = pc, <<shown, img>>' # <<shown, img>>
                 PROVE  pc \in {"idle", "lock"}
    BY DEF vars
  <2>2. CASE \E x \in Pos : win_ptrmove(x)
    BY <2>1, <2>2 DEF win_ptrmove, Alone, WinInv, Locked
  <2>3. CASE Step
    BY <2>1, <2>3 DEF Step, win_lock1, Use, Pick, Move, Set, win_unlock1, Read, PlacePtr, Stays, display
  <2>4. CASE pc = "idle"
    BY <2>4
  <2>5. QED
    BY <2>1, <2>2, <2>3, <2>4 DEF Next, win_paint, win_end_paint, win_clean, win_rect_preview,
       PreviewAtLimit, Draw, Windows, Begins
<1>2. QED
  BY <1>1, WinAlways, PTL DEF Spec, DriverAlone
=============================================================================
