------------------------------ MODULE WinDesk ------------------------------
(***************************************************************************)
(* A desktop of the window system, kernel side: windows, their stacking    *)
(* order, focus, the mouse, and the event queues of the tasks.             *)
(*   src/kern/wingui/window.c, event.c, main.c                             *)
(*   src/kern/event.c             send_event                               *)
(*   src/kern/syscall.c           sys__evt_wait                            *)
(*                                                                         *)
(* System calls run one at a time, with interrupts on; keyboard and mouse  *)
(* interrupts look at the same structures.  A call is one action, except   *)
(* win_creat and win_close, which an interrupt can find half done, and     *)
(* win_clean, which closes window after window.  The screen has one        *)
(* dimension.  Left out: secure mode, titles, fonts, clipping by the       *)
(* program, the `more' hint of pointer moves, and broadcasts other than    *)
(* the one of a taskbar that leaves.                                       *)
(***************************************************************************)
EXTENDS Integers, SequencesExt

CONSTANTS Task,      \* tasks of the desktop
          Calls,     \* the calls of an instance
          WIN_MAX,   \* window slots
          EVT_MAX,   \* places in an event queue
          Width,     \* of the display
          Rects,     \* positions and widths asked for
          Layers,    \* layers asked for; the smallest is WIN_LAYER_APP
          NoTask,
          MaxId,     \* bound: windows created
          MaxInput   \* bound: interrupts of keyboard and mouse

\* What the constants of an instance satisfy.
WinDeskAssumption ==
    /\ NoTask \notin Task
    /\ {WIN_MAX, EVT_MAX, Width} \subseteq Nat \ {0}
    /\ {MaxId, MaxInput} \subseteq Nat
    /\ Rects \subseteq [x : Nat, w : Nat \ {0}]
    /\ Layers \subseteq Nat /\ Layers # {}

VARIABLES
    win,       \* d->window: task, visible, rect, layer; id is unique to a creation
    stack,     \* d->stack, topmost first
    count,     \* d->window_count
    focus,     \* d->focus
    ptr,       \* ptr_x, ptr_down, ptr_down_wd, dragdrop
    taskbar,   \* d->taskbar
    attached,  \* tasks with win_task.desktop set
    queue,     \* events of a task
    call,      \* the system call in progress
    hand,      \* the redraw event a task is working on
    screen,    \* whether a place of the display shows the window that is topmost there
    lost,      \* windows for which a redraw event found the queue full
    failed,    \* windows whose creation failed
    made,      \* windows created so far
    inputs,    \* interrupts so far
    bad        \* "null": an event for a window without a task; "panic"

vars == <<win, stack, count, focus, ptr, taskbar, attached, queue, call, hand,
          screen, lost, failed, made, inputs, bad>>

Win == 0..(WIN_MAX - 1)
Point == 0..(Width - 1)
None == -1
Free == [task |-> NoTask, visible |-> FALSE, rect |-> [x |-> 0, w |-> 0], layer |-> 0, id |-> 0]
Idle == [op |-> "idle"]
NoHand == [type |-> "none"]
Types == {"none", "redraw", "notice", "bar"}   \* notice: any other event of a window
Away == {"return", "exit", "exec", "detach"}

TypeOK ==
    /\ \A w \in Win : /\ win[w].task \in Task \cup {NoTask}
                      /\ win[w].visible \in BOOLEAN
                      /\ win[w].id \in 0..MaxId
    /\ stack \in Seq(Win) /\ Len(stack) <= WIN_MAX
    /\ count \in 0..WIN_MAX
    /\ focus \in Win \cup {None}
    /\ ptr.x \in Point /\ ptr.down \in Nat /\ ptr.wd \in Win \cup {None} /\ ptr.drag \in BOOLEAN
    /\ taskbar \in Task \cup {NoTask}
    /\ attached \subseteq Task
    /\ \A t \in Task : Len(queue[t]) <= EVT_MAX /\ \A i \in DOMAIN queue[t] : queue[t][i].type \in Types
    /\ call.op \in {"idle", "creat", "close", "clean"}
    /\ screen \in [Point -> BOOLEAN]
    /\ lost \cup failed \subseteq 1..MaxId
    /\ bad \in {"", "null", "panic"}

\* win_newdesktop clears the structure: ptr_down_wd is 0.
Init ==
    /\ win = [w \in Win |-> Free]
    /\ stack = <<>>
    /\ count = 0
    /\ focus = None
    /\ ptr = [x |-> 0, down |-> 0, wd |-> 0, drag |-> FALSE]
    /\ taskbar = NoTask
    /\ attached = {}
    /\ queue = [t \in Task |-> <<>>]
    /\ call = Idle
    /\ hand = [t \in Task |-> NoHand]
    /\ screen = [p \in Point |-> FALSE]
    /\ lost = {}
    /\ failed = {}
    /\ made = 0
    /\ inputs = 0
    /\ bad = ""

----------------------------------------------------------------------------
(* Events.  A mail is the pair of the queues and the windows with a lost    *)
(* redraw.                                                                  *)

Mail == [queue |-> queue, lost |-> lost]

Deliver(m) ==
    /\ queue' = m.queue
    /\ lost' = m.lost

Event(type, wd, id, area) == [type |-> type, wd |-> wd, id |-> id, area |-> area]

Full(m, t) == Len(m.queue[t]) >= EVT_MAX

\* send_event: EAGAIN when the queue is full.
Send(m, t, e) ==
    IF ~Full(m, t) THEN [m EXCEPT !.queue[t] = Append(@, e)]
    ELSE IF e.type = "redraw" THEN [m EXCEPT !.lost = @ \cup {e.id}]
    ELSE m

\* win_event for a window that has a task.
WinEvent(m, type, w, area) == Send(m, win[w].task, Event(type, w, win[w].id, area))

\* An event for the taskbar, if there is one.
BarEvent(m, wd) == IF taskbar = NoTask THEN m ELSE Send(m, taskbar, Event("bar", wd, 0, {}))

----------------------------------------------------------------------------
(* Geometry.                                                                *)

Cells(r) == r.x..(r.x + r.w - 1)
Overlap(r, s) == Cells(r) \cap Cells(s) # {}

\* The places of w, counted from its edge, that r covers.
Inside(w, r) == {c - win[w].rect.x : c \in Cells(r) \cap Cells(win[w].rect)}
Whole(r) == 0..(r.w - 1)

Place(w) == CHOOSE i \in 1..Len(stack) : stack[i] = w
Above(w) == SubSeq(stack, 1, Place(w) - 1)
Below(w) == SubSeq(stack, Place(w) + 1, Len(stack))

\* win_xywd.
TopAt(x, ws, st) ==
    LET hits == {i \in 1..Len(st) : ws[st[i]].visible /\ x \in Cells(ws[st[i]].rect)}
    IN  IF hits = {} THEN None ELSE st[Min(hits)]

Under(x) == TopAt(x, win, stack)

\* _win_redraw_rect: every visible window of the sequence that r touches.
RedrawRect(m, r, ws) ==
    FoldLeft(LAMBDA q, w : IF win[w].visible /\ Overlap(win[w].rect, r)
                           THEN WinEvent(q, "redraw", w, Inside(w, r)) ELSE q,
             m, ws)

\* A place keeps showing the right thing while the same window is topmost there and
\* has not moved.
Kept(p, ws, st) ==
    /\ screen[p]
    /\ TopAt(p, ws, st) = Under(p)
    /\ ws[Under(p)].rect.x = win[Under(p)].rect.x

\* The windows and their order become ws and st.
Restack(ws, st) ==
    /\ win' = ws
    /\ stack' = st
    /\ screen' = [p \in Point |-> Kept(p, ws, st)]

Without(w) == SelectSeq(stack, LAMBDA v : v # w)

----------------------------------------------------------------------------
(* System calls.                                                            *)

\* Task t makes call c.  It has finished the redraw it began.
Enter(t, c) ==
    /\ bad = ""
    /\ c \in Calls
    /\ call = Idle
    /\ t \in attached
    /\ hand[t] = NoHand

Owner(t, w) == win[w].task = t

sys_win_attach(t) ==
    /\ bad = ""
    /\ call = Idle
    /\ t \notin attached
    /\ attached' = attached \cup {t}
    /\ UNCHANGED <<win, stack, count, focus, ptr, taskbar, queue, call, hand, screen,
                   lost, failed, made, inputs, bad>>

\* win_creat up to the moment the window is on the stack and visible.
win_creat(t, visible, r) ==
    LET i == Min({w \in Win : win[w].task = NoTask})
        m == BarEvent(Mail, i)
    IN  /\ Enter(t, "creat")
        /\ visible \/ "hide" \in Calls
        /\ made < MaxId
        /\ count < WIN_MAX
        /\ taskbar # NoTask => ~Full(Mail, taskbar)
        /\ made' = made + 1
        /\ IF \A w \in Win : win[w].task # NoTask
           THEN bad' = "panic" /\ UNCHANGED <<win, stack, screen, queue, lost, call>>
           ELSE /\ Restack([win EXCEPT ![i] =
                               [task |-> t, visible |-> visible,
                                rect |-> IF visible THEN r ELSE [x |-> 0, w |-> 0],
                                layer |-> Min(Layers), id |-> made + 1]],
                           Append(stack, i))
                /\ Deliver(IF visible THEN BarEvent(m, i) ELSE m)
                /\ call' = [op |-> "creat", task |-> t, wd |-> i]
                /\ UNCHANGED bad
        /\ UNCHANGED <<count, focus, ptr, taskbar, attached, hand, failed, inputs>>

\* The window's first redraw event; when the queue is full the window goes away.
win_creat_end ==
    LET t == call.task
        w == call.wd
    IN  /\ bad = ""
        /\ call.op = "creat"
        /\ call' = Idle
        /\ IF win[w].visible /\ Full(Mail, t)
           THEN /\ Restack([win EXCEPT ![w] = Free], Without(w))
                /\ failed' = failed \cup {win[w].id}
                /\ UNCHANGED <<count, queue, lost>>
           ELSE /\ Deliver(IF win[w].visible
                           THEN WinEvent(Mail, "redraw", w, Whole(win[w].rect)) ELSE Mail)
                /\ count' = count + 1
                /\ UNCHANGED <<win, stack, screen, failed>>
        /\ UNCHANGED <<focus, ptr, taskbar, attached, hand, made, inputs, bad>>

\* win_change of a visible window to invisible.
win_hide(t, w) ==
    /\ Enter(t, "hide")
    /\ Owner(t, w)
    /\ win[w].visible
    /\ Restack([win EXCEPT ![w].visible = FALSE], stack)
    /\ Deliver(RedrawRect(BarEvent(Mail, w), win[w].rect, Below(w)))
    /\ UNCHANGED <<count, focus, ptr, taskbar, attached, call, hand, failed, made, inputs, bad>>

win_show(t, w, r) ==
    /\ Enter(t, "hide")
    /\ Owner(t, w)
    /\ ~win[w].visible
    /\ Restack([win EXCEPT ![w].visible = TRUE, ![w].rect = r], stack)
    /\ Deliver(WinEvent(BarEvent(Mail, w), "redraw", w, Whole(r)))
    /\ UNCHANGED <<count, focus, ptr, taskbar, attached, call, hand, failed, made, inputs, bad>>

Covered(w, r) == \E v \in Range(Above(w)) : win[v].visible /\ Overlap(win[v].rect, r)
OffDisplay(r) == r.x + r.w > Width

\* Mutant: only the new place must be free for the contents to be copied.
FullRedraw_New(w, r) ==
    \/ Covered(w, r)
    \/ OffDisplay(r) \/ OffDisplay(win[w].rect)
    \/ r.w # win[w].rect.w

\* When the contents cannot be copied from the old place to the new one.
FullRedraw(w, r) ==
    \/ Covered(w, win[w].rect) \/ Covered(w, r)
    \/ OffDisplay(r) \/ OffDisplay(win[w].rect)
    \/ r.w # win[w].rect.w

\* What is at p when w has been moved from its old place to r.
Copied(w, ws, p) ==
    LET q == p - ws[w].rect.x + win[w].rect.x
    IN  screen[q] /\ Under(q) = w /\ TopAt(p, ws, stack) = w

\* win_change of a visible window to another rectangle.
win_move(t, w, r) ==
    LET old == win[w].rect
        ws == [win EXCEPT ![w].rect = r]
        m == RedrawRect(Mail, old, Below(w))
    IN  /\ Enter(t, "move")
        /\ Owner(t, w)
        /\ win[w].visible
        /\ r # old
        /\ IF FullRedraw(w, r)
           THEN Deliver(WinEvent(m, "redraw", w, Whole(r))) /\ Restack(ws, stack)
           ELSE /\ Deliver(m)
                /\ win' = ws
                /\ screen' = [p \in Point |-> IF p \in Cells(r) THEN Copied(w, ws, p)
                                              ELSE Kept(p, ws, stack)]
                /\ UNCHANGED stack
        /\ UNCHANGED <<count, focus, ptr, taskbar, attached, call, hand,
                       failed, made, inputs, bad>>

\* What the windows above w cover of it, as one range.
Hidden(w) ==
    LET rs == {win[v].rect : v \in {v \in Range(Above(w)) :
                                        win[v].visible /\ Overlap(win[v].rect, win[w].rect)}}
    IN  IF rs = {} \/ ~win[w].visible THEN {}
        ELSE LET lo == Min({r.x : r \in rs})
                 hi == Max({r.x + r.w : r \in rs})
             IN  Inside(w, [x |-> lo, w |-> hi - lo])

win_raise(t, w) ==
    LET top == stack[Min({i \in 1..Len(stack) : win[stack[i]].layer >= win[w].layer})]
        rest == Without(w)
        at == CHOOSE i \in 1..Len(rest) : rest[i] = top
        m == WinEvent(Mail, "notice", w, {})
    IN  /\ Enter(t, "raise")
        /\ win[w].task # NoTask
        /\ top # w
        /\ Restack(win, SubSeq(rest, 1, at - 1) \o <<w>> \o SubSeq(rest, at, Len(rest)))
        /\ Deliver(IF Hidden(w) = {} THEN m ELSE WinEvent(m, "redraw", w, Hidden(w)))
        /\ UNCHANGED <<count, focus, ptr, taskbar, attached, call, hand, failed, made, inputs, bad>>

\* The events of win_focus when prev had the focus.
Focused(m, prev, w) ==
    LET n == IF prev = None THEN m ELSE WinEvent(m, "notice", prev, {})
    IN  BarEvent(WinEvent(n, "notice", w, {}), w)

win_focus(t, w) ==
    /\ Enter(t, "focus")
    /\ win[w].task # NoTask
    /\ focus # w
    /\ Deliver(Focused(Mail, focus, w))
    /\ focus' = w
    /\ UNCHANGED <<win, stack, count, ptr, taskbar, attached, call, hand, screen,
                   failed, made, inputs, bad>>

win_ufocus(t, w) ==
    /\ Enter(t, "focus")
    /\ Owner(t, w)
    /\ Deliver(BarEvent(WinEvent(Mail, "notice", w, {}), None))
    /\ focus' = None
    /\ UNCHANGED <<win, stack, count, ptr, taskbar, attached, call, hand, screen,
                   failed, made, inputs, bad>>

win_setlayer(t, w, l) ==
    /\ Enter(t, "layer")
    /\ Owner(t, w)
    /\ win' = [win EXCEPT ![w].layer = l]
    /\ UNCHANGED <<stack, count, focus, ptr, taskbar, attached, queue, call, hand, screen,
                   lost, failed, made, inputs, bad>>

sys_win_taskbar(t) ==
    /\ Enter(t, "taskbar")
    /\ taskbar = NoTask
    /\ taskbar' = t
    /\ Deliver(Send(Mail, t, Event("bar", focus, 0, {})))
    /\ UNCHANGED <<win, stack, count, focus, ptr, attached, call, hand, screen,
                   failed, made, inputs, bad>>

\* The window of the last press must be the caller's.
sys_win_dragdrop(t) ==
    /\ Enter(t, "drag")
    /\ ptr.wd # None
    /\ Owner(t, ptr.wd)
    /\ ~ptr.drag
    /\ ptr' = [ptr EXCEPT !.drag = TRUE]
    /\ UNCHANGED <<win, stack, count, focus, taskbar, attached, queue, call, hand, screen,
                   lost, failed, made, inputs, bad>>

----------------------------------------------------------------------------
(* Closing.                                                                 *)

\* The next visible window below w.
Next1(w) ==
    LET vs == SelectSeq(Below(w), LAMBDA v : win[v].visible)
    IN  IF vs = <<>> THEN None ELSE vs[1]

\* The focus after w is closed.
Refocus(w) ==
    IF focus = w THEN Next1(w) ELSE focus

\* The first part of win_close: focus and mouse let go of the window.
CloseBegin(t, w, then) ==
    /\ focus' = Refocus(w)
    /\ Deliver(IF focus = w /\ Next1(w) # None THEN Focused(Mail, None, Next1(w)) ELSE Mail)
    /\ ptr' = [ptr EXCEPT !.wd = IF @ = w THEN None ELSE @]
    /\ call' = [op |-> "close", task |-> t, wd |-> w, then |-> then]

win_close(t, w) ==
    /\ Enter(t, "close")
    /\ Owner(t, w)
    /\ CloseBegin(t, w, "return")
    /\ UNCHANGED <<win, stack, count, taskbar, attached, hand, screen, failed, made, inputs, bad>>

\* Events of a closed window are made void where they are.
Purged(q, w) == [i \in DOMAIN q |-> IF q[i].wd = w THEN Event("none", w, 0, {}) ELSE q[i]]

\* The second part: off the stack, with interrupts off, and redraw below.
win_close_end ==
    LET t == call.task
        w == call.wd
        m == [Mail EXCEPT !.queue[t] = Purged(@, w)]
        nw == Next1(w)
        below == IF nw = None THEN <<>> ELSE <<nw>> \o Below(nw)
    IN  /\ bad = ""
        /\ call.op = "close"
        /\ Restack([win EXCEPT ![w] = Free], Without(w))
        /\ count' = count - 1
        /\ Deliver(BarEvent(IF win[w].visible THEN RedrawRect(m, win[w].rect, below) ELSE m, w))
        /\ call' = IF call.then = "return" THEN Idle
                   ELSE [op |-> "clean", task |-> t, then |-> call.then]
        /\ UNCHANGED <<focus, ptr, taskbar, attached, hand, failed, made, inputs, bad>>

\* Everybody on the desktop hears that the taskbar leaves.
Broadcast(m) ==
    FoldLeft(LAMBDA q, t : Send(q, t, Event("bar", None, 0, {})), m, SetToSeq(attached))

\* win_clean begins, because the task ends, loads a program or leaves the desktop.
win_clean(t, why) ==
    /\ bad = ""
    /\ call = Idle
    /\ why \in Calls
    /\ t \in attached
    /\ why # "exit" => hand[t] = NoHand
    /\ call' = [op |-> "clean", task |-> t, then |-> why]
    /\ Deliver(IF taskbar = t THEN Broadcast(Mail) ELSE Mail)
    /\ taskbar' = IF taskbar = t THEN NoTask ELSE taskbar
    /\ UNCHANGED <<win, stack, count, focus, ptr, attached, hand, screen, failed, made, inputs, bad>>

\* Mutant: the last slot is left out.
Own_Short(t) == {w \in Win : Owner(t, w) /\ w < WIN_MAX - 1}

\* The windows win_clean has to close.
Own(t) == {w \in Win : Owner(t, w)}

win_clean_next ==
    LET t == call.task
    IN  /\ bad = ""
        /\ call.op = "clean"
        /\ IF Own(t) # {}
           THEN /\ CloseBegin(t, Min(Own(t)), call.then)
                /\ UNCHANGED <<attached, hand>>
           ELSE /\ attached' = attached \ {t}
                /\ queue' = [queue EXCEPT ![t] = IF call.then = "detach" THEN @ ELSE <<>>]
                /\ hand' = [hand EXCEPT ![t] = NoHand]
                /\ call' = Idle
                /\ UNCHANGED <<focus, ptr, lost>>
        /\ UNCHANGED <<win, stack, count, taskbar, screen, failed, made, inputs, bad>>

----------------------------------------------------------------------------
(* The program: take an event, redraw.                                      *)

\* sys__evt_wait when there is an event.
sys__evt_wait(t) ==
    LET e == Head(queue[t])
    IN  /\ bad = ""
        /\ call = Idle
        /\ hand[t] = NoHand
        /\ queue[t] # <<>>
        /\ queue' = [queue EXCEPT ![t] = Tail(@)]
        /\ hand' = [hand EXCEPT ![t] = IF e.type = "redraw" THEN e ELSE NoHand]
        /\ UNCHANGED <<win, stack, count, focus, ptr, taskbar, attached, call, screen,
                       lost, failed, made, inputs, bad>>

\* The program draws what it was asked for, clipped to what can be seen of the window.
Draw(t) ==
    LET e == hand[t]
        x == win[e.wd].rect.x
    IN  /\ bad = ""
        /\ call = Idle
        /\ e # NoHand
        /\ screen' = [p \in Point |-> IF p - x \in e.area /\ Under(p) = e.wd
                                      THEN TRUE ELSE screen[p]]
        /\ hand' = [hand EXCEPT ![t] = NoHand]
        /\ UNCHANGED <<win, stack, count, focus, ptr, taskbar, attached, queue, call,
                       lost, failed, made, inputs, bad>>

----------------------------------------------------------------------------
(* Interrupts of keyboard and mouse, at any moment.                         *)

Interrupt ==
    /\ bad = ""
    /\ inputs < MaxInput
    /\ inputs' = inputs + 1
    /\ UNCHANGED <<win, stack, count, focus, taskbar, attached, call, hand, screen, failed, made>>

\* An event for each of the windows ws; a window without a task is a use of a null
\* pointer.
Signal(ws) ==
    IF \E w \in Range(ws) : win[w].task = NoTask
    THEN bad' = "null" /\ UNCHANGED <<queue, lost>>
    ELSE /\ Deliver(FoldLeft(LAMBDA m, w : WinEvent(m, "notice", w, {}), Mail, ws))
         /\ UNCHANGED bad

\* win_keydown, win_keyup, and the blinking cursor of win_clock.
win_keydown ==
    /\ Interrupt
    /\ focus # None
    /\ Signal(<<focus>>)
    /\ UNCHANGED ptr

\* A key of the taskbar's.
win_keydown_bar ==
    /\ Interrupt
    /\ taskbar # NoTask
    /\ Deliver(BarEvent(Mail, None))
    /\ UNCHANGED <<ptr, bad>>

win_ptrmove(x) ==
    LET w == IF ptr.down > 0 THEN ptr.wd ELSE Under(x)
    IN  /\ Interrupt
        /\ ptr' = [ptr EXCEPT !.x = x]
        /\ IF w = None THEN UNCHANGED <<queue, lost, bad>> ELSE Signal(<<w>>)

win_ptrdown ==
    LET w == IF ptr.down > 0 THEN ptr.wd ELSE Under(ptr.x)
    IN  /\ Interrupt
        /\ ptr' = [ptr EXCEPT !.down = @ + 1, !.wd = w]
        /\ IF w = None THEN UNCHANGED <<queue, lost, bad>> ELSE Signal(<<w>>)

\* The driver reports a release only after a press.
win_ptrup ==
    LET drop == ptr.down = 1 /\ ptr.drag
        under == Under(ptr.x)
        ws == SelectSeq(IF drop THEN <<under, ptr.wd, ptr.wd>> ELSE <<ptr.wd>>,
                        LAMBDA w : w # None)
    IN  /\ Interrupt
        /\ ptr.down > 0
        /\ ptr' = [ptr EXCEPT !.down = @ - 1, !.drag = @ /\ ~drop]
        /\ Signal(ws)

----------------------------------------------------------------------------
Next ==
    \/ \E t \in Task : \/ sys_win_attach(t)
                       \/ sys_win_taskbar(t)
                       \/ sys_win_dragdrop(t)
                       \/ sys__evt_wait(t)
                       \/ Draw(t)
    \/ \E t \in Task, v \in BOOLEAN, r \in Rects : win_creat(t, v, r)
    \/ \E t \in Task, w \in Win : \/ win_hide(t, w)
                                  \/ win_raise(t, w)
                                  \/ win_focus(t, w)
                                  \/ win_ufocus(t, w)
                                  \/ win_close(t, w)
    \/ \E t \in Task, w \in Win, r \in Rects : win_show(t, w, r) \/ win_move(t, w, r)
    \/ \E t \in Task, w \in Win, l \in Layers : win_setlayer(t, w, l)
    \/ \E t \in Task, why \in Away \ {"return"} : win_clean(t, why)
    \/ win_creat_end \/ win_close_end \/ win_clean_next
    \/ win_keydown \/ win_keydown_bar \/ win_ptrdown \/ win_ptrup
    \/ \E x \in Point : win_ptrmove(x)

Spec == Init /\ [][Next]_vars

----------------------------------------------------------------------------
(* Properties.                                                              *)

Living == {w \in Win : win[w].task # NoTask}

\* Whatever is closed, in whatever order, by a call, an exec or the end of a task: the
\* stack holds every window once, window_count counts them, and a window's task is on
\* the desktop.
StackRight ==
    /\ IsInjective(stack)
    /\ Range(stack) = Living
    /\ count + (IF call.op = "creat" THEN 1 ELSE 0) = Cardinality(Living)
    /\ \A w \in Living : win[w].task \in attached
    /\ bad # "panic"

\* The focus is always at a window that is there: the keyboard interrupt uses it
\* without a test, also in the middle of win_close.
FocusRight == focus # None => win[focus].task # NoTask

\* An event for a window waits in the queue of the window's task, and it is about this
\* window, not about an earlier one in the same slot.  The exception is a window whose
\* creation failed: events that interrupts queued for it meanwhile are not made void.
EventsRight ==
    \A t \in Task : \A i \in DOMAIN queue[t] :
        LET e == queue[t][i]
        IN  e.id # 0 => \/ win[e.wd].task = t /\ win[e.wd].id = e.id
                        \/ e.id \in failed

\* What a window is still asked to draw.
Pending(w) ==
    LET t == win[w].task
        q == queue[t]
    IN  UNION {q[i].area : i \in {j \in DOMAIN q : q[j].type = "redraw" /\ q[j].wd = w}}
            \cup (IF hand[t] # NoHand /\ hand[t].wd = w THEN hand[t].area ELSE {})

\* Instances about the display end where an event is lost.
NoneLost == lost = {}

\* Every place of the display shows the topmost window there, or this window has been
\* told to draw it, unless the event found a full queue.
ScreenRight ==
    \A p \in Point :
        LET w == Under(p)
        IN  w # None =>
                \/ screen[p]
                \/ p - win[w].rect.x \in Pending(w)
                \/ win[w].id \in lost
                \/ call.op = "creat" /\ call.wd = w

=============================================================================
