------------------------------- MODULE WinPtr -------------------------------
(***************************************************************************)
(* The mouse pointer and the lock of the display.                          *)
(*   src/kern/wingui/desktop.c   win_lock1, win_unlock1, win_update_ptr    *)
(*   src/kern/wingui/event.c     win_ptrmove                               *)
(*   src/kern/wingui/paint.c     win_paint, win_end_paint, win_rect_preview*)
(*                                                                         *)
(* The display driver is not reentrant.  A task counts display_locked up   *)
(* around every call of it; the mouse's interrupt handler draws the        *)
(* pointer only where nobody has the display, and otherwise leaves it to   *)
(* the unlock.  The handler may come between any two steps of the task in  *)
(* the kernel; other tasks run only when it has left.  Around a painting,  *)
(* which takes many calls, the pointer and the frame of a window being     *)
(* dragged (rect_preview, drawn by inversion) are off the screen.          *)
(* Buttons are left out: after a release over another window the shape of  *)
(* the pointer changes with the next move only.                            *)
(***************************************************************************)
EXTENDS Integers, Sequences, FiniteSets, FiniteSetsExt

CONSTANTS Task, Pos, Shape, Outline,
          MaxPaint    \* win_paint calls of a task without their win_end_paint (256)

\* What the constants of an instance satisfy.
WinPtrAssumption == IsFiniteSet(Task) /\ MaxPaint \in Nat \ {0, 1}

VARIABLES
    display_locked, ptr_moved,
    ptr,          \* d->ptr_x, d->ptr_y
    currptr,      \* the shape in use
    under,        \* the shape of the window at each position
    painting,     \* of every task; d->painting is their sum
    dpainting,
    preview,      \* rect_preview if enabled: a set of one or none
    pc,           \* where the task in the kernel is
    todo,         \* its calls of the display, each with the lock around it
    reg, p,       \* its local copies of the position and of the shape
    shown,        \* the display: where the pointer is and for which shape's hot spot,
    img,          \*   the shape drawn,
    hidden,       \*   whether it is hidden,
    frames        \*   and the frames on the screen

vars == <<display_locked, ptr_moved, ptr, currptr, under, painting, dpainting, preview,
          pc, todo, reg, p, shown, img, hidden, frames>>

display == <<shown, img, hidden, frames>>
paintvars == <<painting, dpainting, preview>>

TypeOK ==
    /\ display_locked \in 0..1
    /\ ptr_moved \in BOOLEAN
    /\ ptr \in Pos /\ reg \in Pos
    /\ currptr \in Shape /\ p \in Shape
    /\ under \in [Pos -> Shape]
    /\ painting \in [Task -> 0..MaxPaint]
    /\ dpainting \in Nat
    /\ preview \in SUBSET Outline
    /\ pc \in {"idle", "lock", "use", "pick", "move", "set", "unlock", "read", "place"}
    /\ shown \in Pos \X Shape
    /\ img \in Shape
    /\ hidden \in BOOLEAN
    /\ frames \in SUBSET Outline

\* win_newdesktop and win_display.
Init ==
    /\ display_locked = 0 /\ ptr_moved = FALSE
    /\ ptr \in Pos
    /\ \E s \in Shape : /\ under = [x \in Pos |-> s] /\ currptr = s
                        /\ shown = <<ptr, s>> /\ img = s /\ p = s
    /\ painting = [t \in Task |-> 0] /\ dpainting = 0
    /\ preview = {} /\ frames = {}
    /\ hidden = FALSE
    /\ pc = "idle" /\ todo = <<>>
    /\ reg = ptr

----------------------------------------------------------------------------
(* Calls of a task.  Each starts when no task is in the kernel.             *)

Begins(ops) ==
    /\ pc = "idle"
    /\ todo' = ops
    /\ pc' = IF ops = <<>> THEN "idle" ELSE "lock"
    /\ UNCHANGED <<display_locked, ptr_moved, ptr, currptr, reg, p, display>>

\* What is inverted: the frame, while the preview is enabled.
Invert(pre) == IF pre = {} THEN <<>> ELSE <<[op |-> "invert", rects |-> pre]>>
Op(name) == [op |-> name, rects |-> {}]

\* The display's calls of win_paint and win_end_paint, for d->painting at the call.
Paint(n, pre) == IF n = 0 THEN <<Op("hide")>> \o Invert(pre) ELSE <<>>
EndPaint(n, pre) == IF n = 1 THEN Invert(pre) \o <<Op("show")>> ELSE <<>>

win_paint(t) ==
    /\ painting[t] < MaxPaint
    /\ painting' = [painting EXCEPT ![t] = @ + 1]
    /\ dpainting' = dpainting + 1
    /\ Begins(Paint(dpainting, preview))
    /\ UNCHANGED <<under, preview>>

win_end_paint(t) ==
    /\ painting[t] > 0
    /\ painting' = [painting EXCEPT ![t] = @ - 1]
    /\ dpainting' = dpainting - 1
    /\ Begins(EndPaint(dpainting, preview))
    /\ UNCHANGED <<under, preview>>

\* win_rect_preview between a win_paint and a win_end_paint.
win_rect_preview(t, pre) ==
    /\ painting[t] < MaxPaint
    /\ preview' = pre
    /\ Begins(Paint(dpainting, preview) \o EndPaint(dpainting + 1, pre))
    /\ UNCHANGED <<under, painting, dpainting>>

\* The same at the limit, where win_paint has failed and win_end_paint does not.
PreviewAtLimit(t, pre) ==
    /\ painting[t] = MaxPaint
    /\ preview' = pre
    /\ painting' = [painting EXCEPT ![t] = @ - 1]
    /\ dpainting' = dpainting - 1
    /\ Begins(EndPaint(dpainting, pre))
    /\ UNCHANGED under

\* win_clean of a task that is exiting or executing another program.
win_clean(t) ==
    /\ painting[t] > 0
    /\ painting' = [painting EXCEPT ![t] = 0]
    /\ dpainting' = dpainting - painting[t]
    /\ Begins(IF dpainting = painting[t] THEN EndPaint(1, preview) ELSE <<>>)
    /\ UNCHANGED <<under, preview>>

\* Drawing of any kind.
Draw ==
    /\ Begins(<<Op("draw")>>)
    /\ UNCHANGED <<under, paintvars>>

\* A window is moved, raised, shown, hidden or closed, or gets another shape of the
\* pointer: then win_update_ptr.
Windows(u) ==
    /\ under' = u
    /\ Begins(<<Op("update")>>)
    /\ UNCHANGED paintvars

----------------------------------------------------------------------------
(* The steps of a call.                                                     *)

Stays(step, new) ==
    /\ pc = step
    /\ pc' = new
    /\ UNCHANGED <<under, paintvars>>

win_lock1 ==
    /\ pc = "lock"
    /\ display_locked' = display_locked + 1
    /\ Stays("lock", IF Head(todo).op = "update" THEN "pick" ELSE "use")
    /\ UNCHANGED <<ptr_moved, ptr, currptr, todo, reg, p, display>>

\* The driver's hideptr, showptr, getpix with putpix, or anything else.
Use ==
    /\ Stays("use", "unlock")
    /\ hidden' = CASE Head(todo).op = "hide" -> TRUE
                   [] Head(todo).op = "show" -> FALSE
                   [] OTHER -> hidden
    /\ frames' = SymDiff(frames, Head(todo).rects)
    /\ UNCHANGED <<display_locked, ptr_moved, ptr, currptr, todo, reg, p, shown, img>>

\* win_update_ptr_ulk: the shape at the pointer; if it is another one, the driver's
\* moveptr and setptr.
Pick ==
    /\ Stays("pick", IF under[ptr] = currptr THEN "unlock" ELSE "move")
    /\ p' = under[ptr]
    /\ UNCHANGED <<display_locked, ptr_moved, ptr, currptr, todo, reg, display>>

Move ==
    /\ Stays("move", "set")
    /\ shown' = <<ptr, p>>
    /\ UNCHANGED <<display_locked, ptr_moved, ptr, currptr, todo, reg, p, img, hidden, frames>>

Set ==
    /\ Stays("set", "unlock")
    /\ img' = p
    /\ currptr' = p
    /\ UNCHANGED <<display_locked, ptr_moved, ptr, todo, reg, p, shown, hidden, frames>>

\* Mutant: a move that came meanwhile is forgotten.
Again_Never == FALSE

\* win_unlock1 looks, with interrupts off, whether the pointer was moved meanwhile.
Again == ptr_moved /\ display_locked = 1

win_unlock1 ==
    /\ pc = "unlock"
    /\ UNCHANGED <<ptr, currptr, reg, p, display>>
    /\ IF Again
       THEN /\ ptr_moved' = FALSE
            /\ Stays("unlock", "read")
            /\ UNCHANGED <<display_locked, todo>>
       ELSE /\ display_locked' = display_locked - 1
            /\ todo' = Tail(todo)
            /\ Stays("unlock", IF Len(todo) = 1 THEN "idle" ELSE "lock")
            /\ UNCHANGED ptr_moved

\* Its moveptr, with the position read before, and win_update_ptr_ulk.
Read ==
    /\ Stays("read", "place")
    /\ reg' = ptr
    /\ UNCHANGED <<display_locked, ptr_moved, ptr, currptr, todo, p, display>>

PlacePtr ==
    /\ Stays("place", "pick")
    /\ shown' = <<reg, currptr>>
    /\ UNCHANGED <<display_locked, ptr_moved, ptr, currptr, todo, reg, p, img, hidden, frames>>

----------------------------------------------------------------------------
\* Mutant: the handler draws where a task has the display.
Alone_Always == TRUE

\* The handler has the only lock.
Alone == display_locked = 0

\* The mouse's interrupt: win_ptrmove.  With nobody in the display it draws the
\* pointer with the shape of the window it gets to.
win_ptrmove(x) ==
    /\ ptr' = x
    /\ IF Alone
       THEN /\ shown' = <<x, under[x]>>
            /\ img' = under[x]
            /\ currptr' = under[x]
            /\ UNCHANGED ptr_moved
       ELSE ptr_moved' = TRUE /\ UNCHANGED <<shown, img, currptr>>
    /\ UNCHANGED <<display_locked, under, paintvars, pc, todo, reg, p, hidden, frames>>

Step == win_lock1 \/ Use \/ Pick \/ Move \/ Set \/ win_unlock1 \/ Read \/ PlacePtr

Next ==
    \/ \E t \in Task :
        \/ win_paint(t)
        \/ win_end_paint(t)
        \/ win_clean(t)
        \/ \E pre \in {{}} \cup {{r} : r \in Outline} : win_rect_preview(t, pre) \/ PreviewAtLimit(t, pre)
    \/ Draw
    \/ \E u \in [Pos -> Shape] : Windows(u)
    \/ Step
    \/ \E x \in Pos : win_ptrmove(x)

Spec == Init /\ [][Next]_vars

----------------------------------------------------------------------------
(* Properties.                                                              *)

\* While nobody has the display the pointer is drawn where the mouse is, with the shape
\* in use, and no move is left over; and between calls the shape is the window's under it.
PointerRight ==
    display_locked = 0 =>
        /\ ~ptr_moved
        /\ shown = <<ptr, currptr>>
        /\ img = currptr
        /\ pc = "idle" => currptr = under[ptr]

\* The paintings begun and not ended: the n-th of task t is <<t, n>>.
Begun == {x \in Task \X (1..MaxPaint) : x[2] <= painting[x[1]]}

\* The pointer is hidden and the frame off the screen while, and only while, somebody is
\* painting, whichever tasks began and ended their paintings in between.
PaintRight ==
    /\ dpainting = Cardinality(Begun)
    /\ pc = "idle" => /\ hidden <=> dpainting > 0
                      /\ frames = IF dpainting > 0 THEN {} ELSE preview

\* The pointer and the frame are where and when they should be.
DisplayRight == TypeOK /\ PointerRight /\ PaintRight

\* The interrupt handler does not call the driver while a task is in it
\* (display_locked).
DriverAlone ==
    [][pc' = pc /\ <<shown, img>>' # <<shown, img>> => pc \in {"idle", "lock"}]_vars
=============================================================================
