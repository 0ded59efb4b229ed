------------------------------ MODULE MCWindows ------------------------------
(***************************************************************************)
(* The kernel side of the window system as one run.  A behaviour is a      *)
(* behaviour of the desktop (windows, events, focus, what is on the        *)
(* screen), of the pointer and the display lock, or of clipping and        *)
(* drawing.  The pointer is this module's own, with two tasks that paint   *)
(* while the mouse moves; each of the others is an instance of its module  *)
(* with bounds of its own.                                                 *)
(***************************************************************************)
EXTENDS WinPtr, TLC

CONSTANTS NoTask, t1, t2

VARIABLES
    part,  \* the component this behaviour is of
    \* WinDesk
    win, stack, count, focus, desk_ptr, taskbar, attached, queue, call, hand,
    screen, lost, failed, made, inputs, bad,
    \* WinClip
    rect, visible, clip, origin, clip_shown, want, redraw, excused, asked,
    calls

deskVars == <<win, stack, count, focus, desk_ptr, taskbar, attached, queue, call,
              hand, screen, lost, failed, made, inputs, bad>>
clipVars == <<rect, visible, clip, origin, clip_shown, want, redraw, excused,
              asked, calls>>
windowVars == <<part, deskVars, vars, clipVars>>

\* Places of windows on a display of one line: one place, places that overlap,
\* and a window that covers the others.
Small == {[x |-> 0, w |-> 1]}
Wide == {[x |-> 0, w |-> 1], [x |-> 1, w |-> 1], [x |-> 0, w |-> 2]}
Cover == {[x |-> 0, w |-> 1], [x |-> 2, w |-> 1], [x |-> 0, w |-> 3]}

Box(x, y, w, h) == [x |-> x, y |-> y, w |-> w, h |-> h]

\* Windows inside a display of 4 x 3 pixels, over its edges, wide and high.
ManyPlaces ==
    {Box(a[1], a[2], s[1], s[2]) : a \in {<<-1, 1>>, <<1, -1>>, <<1, 1>>},
                                   s \in {<<1, 1>>, <<3, 1>>, <<1, 3>>}}
        \cup {Box(-1, 0, 3, 3), Box(0, 0, 4, 3)}
SomeClips ==
    {Box(0, 1, 2, 2), Box(-1, 0, 2, 1), Box(1, -1, 9, 3)}
FewPlaces == {Box(0, 0, 4, 3), Box(1, 1, 2, 1), Box(-1, 0, 3, 2)}
FewClips == {Box(0, 0, 4, 2), Box(-1, 0, 3, 2)}
FewDraws == {Box(0, 0, 2, 2), Box(-1, 1, 3, 1), Box(1, 0, 1, 9), Box(2, 1, -1, 1)}
FewShifts == {<<0, 1>>, <<-1, -1>>}

\* Events to two tasks with short queues, while windows close and tasks exit,
\* load programs or leave the desktop.
Events == INSTANCE WinDesk WITH
    Task <- {t1, t2}, Calls <- {"creat", "focus", "drag", "close", "exit", "exec", "detach"},
    WIN_MAX <- 2, EVT_MAX <- 2, Width <- 1, Rects <- Small, Layers <- {1},
    MaxId <- 2, MaxInput <- 2, ptr <- desk_ptr

\* The same with a task bar, which is told of everything.
Bar == INSTANCE WinDesk WITH
    Task <- {t1, t2}, Calls <- {"creat", "taskbar", "close", "exit"},
    WIN_MAX <- 2, EVT_MAX <- 2, Width <- 1, Rects <- Small, Layers <- {1},
    MaxId <- 2, MaxInput <- 1, ptr <- desk_ptr

\* Three windows in two layers, closed by a call or by the end of a task.
Stacked == INSTANCE WinDesk WITH
    Task <- {t1, t2},
    Calls <- {"creat", "focus", "raise", "layer", "close", "exit"},
    WIN_MAX <- 3, EVT_MAX <- 1, Width <- 1, Rects <- Small, Layers <- {1, 2},
    MaxId <- 3, MaxInput <- 0, ptr <- desk_ptr

\* Two windows that move over each other.
Seen == INSTANCE WinDesk WITH
    Task <- {t1, t2}, Calls <- {"creat", "hide", "move", "close"},
    WIN_MAX <- 2, EVT_MAX <- 2, Width <- 2, Rects <- Wide, Layers <- {1},
    MaxId <- 2, MaxInput <- 0, ptr <- desk_ptr

\* Windows of one task, one between two others or over them.
Covered == INSTANCE WinDesk WITH
    Task <- {t1}, Calls <- {"creat", "raise", "close"}, WIN_MAX <- 3,
    EVT_MAX <- 3, Width <- 3, Rects <- Cover, Layers <- {1}, MaxId <- 3,
    MaxInput <- 0, ptr <- desk_ptr

\* Three windows wherever they may be, and what is visible of each.
Pieces == INSTANCE WinClip WITH
    Width <- 4, Height <- 3, Places <- ManyPlaces, Stack <- 3,
    ClipArgs <- SomeClips, Origins <- {<<0, 0>>}, DrawArgs <- {},
    Shifts <- FewShifts, MaxCalls <- 1, shown <- clip_shown

\* Two windows, clipping, an origin and three drawing calls.
Drawn == INSTANCE WinClip WITH
    Width <- 4, Height <- 3, Places <- FewPlaces, Stack <- 2,
    ClipArgs <- FewClips, Origins <- {<<0, 0>>, <<1, 0>>},
    DrawArgs <- FewDraws, Shifts <- FewShifts, MaxCalls <- 3,
    shown <- clip_shown

\* What the modules ask of their constants.
ASSUME Instances ==
    /\ Events!WinDeskAssumption
    /\ Bar!WinDeskAssumption
    /\ Stacked!WinDeskAssumption
    /\ Seen!WinDeskAssumption
    /\ Covered!WinDeskAssumption
    /\ WinPtrAssumption
    /\ Pieces!SizeAssumption
    /\ Drawn!SizeAssumption

\* The variables of a component that does not run mean nothing; the pointer
\* stays as it starts.
NoWinDesk ==
    /\ win = 0 /\ stack = 0 /\ count = 0 /\ focus = 0 /\ desk_ptr = 0 /\ taskbar = 0
    /\ attached = 0 /\ queue = 0 /\ call = 0 /\ hand = 0 /\ screen = 0
    /\ lost = 0 /\ failed = 0 /\ made = 0 /\ inputs = 0 /\ bad = 0
NoWinPtr == Init /\ ptr = 1 /\ currptr = "arrow"
NoWinClip ==
    /\ rect = 0 /\ visible = 0 /\ clip = 0 /\ origin = 0 /\ clip_shown = 0
    /\ want = 0 /\ redraw = 0 /\ excused = 0 /\ asked = 0 /\ calls = 0

WindowInit ==
    \/ /\ part = "events" /\ Events!Init
       /\ NoWinPtr /\ NoWinClip
    \/ /\ part = "bar" /\ Bar!Init
       /\ NoWinPtr /\ NoWinClip
    \/ /\ part = "stack" /\ Stacked!Init
       /\ NoWinPtr /\ NoWinClip
    \/ /\ part = "screen" /\ Seen!Init
       /\ NoWinPtr /\ NoWinClip
    \/ /\ part = "cover" /\ Covered!Init
       /\ NoWinPtr /\ NoWinClip
    \/ /\ part = "pointer" /\ Init
       /\ NoWinDesk /\ NoWinClip
    \/ /\ part = "pieces" /\ Pieces!Init
       /\ NoWinDesk /\ NoWinPtr
    \/ /\ part = "draw" /\ Drawn!Init
       /\ NoWinDesk /\ NoWinPtr

EventsNext ==
    /\ part = "events"
    /\ Events!Next
    /\ UNCHANGED <<part, vars, clipVars>>

BarNext ==
    /\ part = "bar"
    /\ Bar!Next
    /\ UNCHANGED <<part, vars, clipVars>>

StackedNext ==
    /\ part = "stack"
    /\ Stacked!Next
    /\ UNCHANGED <<part, vars, clipVars>>

SeenNext ==
    /\ part = "screen"
    /\ Seen!Next
    /\ UNCHANGED <<part, vars, clipVars>>

CoveredNext ==
    /\ part = "cover"
    /\ Covered!Next
    /\ UNCHANGED <<part, vars, clipVars>>

PointerNext ==
    /\ part = "pointer"
    /\ Next
    /\ UNCHANGED <<part, deskVars, clipVars>>

PiecesNext ==
    /\ part = "pieces"
    /\ Pieces!Next
    /\ UNCHANGED <<part, deskVars, vars>>

DrawnNext ==
    /\ part = "draw"
    /\ Drawn!Next
    /\ UNCHANGED <<part, deskVars, vars>>

WindowNext ==
    \/ EventsNext \/ BarNext \/ StackedNext \/ SeenNext \/ CoveredNext
    \/ PointerNext \/ PiecesNext \/ DrawnNext

WindowSpec == WindowInit /\ [][WindowNext]_windowVars

----------------------------------------------------------------------------
(* Properties, besides DisplayRight and DriverAlone of the pointer.         *)

\* Whatever is closed, by a call, an exec or the end of a task, and however
\* this interleaves with input: an event of a window waits in the queue of the
\* window's task and is about this window, not an earlier one in the same slot,
\* except for a window whose creation failed; the stack holds every window once
\* and window_count counts them; and the focus is at a window that is there,
\* also in the middle of win_close, as the keyboard interrupt uses it without a
\* test (win_event, win_close, win_creat, win_uninstall).
DeskRight ==
    /\ part = "events" => /\ Events!TypeOK /\ Events!EventsRight
                          /\ Events!StackRight /\ Events!FocusRight
    /\ part = "bar" => Bar!TypeOK /\ Bar!EventsRight
    /\ part = "stack" => Stacked!TypeOK /\ Stacked!StackRight /\ Stacked!FocusRight

\* Every place of the display shows the topmost window there, or this window
\* has been told to draw it (win_redraw_under, win_event).
ScreenRight ==
    /\ part = "screen" => Seen!ScreenRight
    /\ part = "cover" => Covered!ScreenRight

\* The pieces win_autoclip_iterate finds are exactly the pixels of the display
\* where the window is seen, inside its clipping rectangle, which holds the
\* pixels win_clip was asked for, and no pixel is in two of them; and every
\* pixel shows what the program of the window seen there has drawn at that
\* place, or the program has been asked to draw it again, or a copy took it
\* from where the window could not be seen (win_clip, win_copy and the drawing
\* calls).
ClippingRight ==
    /\ part = "pieces" => Pieces!TypeOK /\ Pieces!PiecesRight /\ Pieces!ClipRight
    /\ part = "draw" => Drawn!TypeOK /\ Drawn!ScreenRight

\* Behaviours in which a full event queue loses a redraw are cut off: what is on
\* the screen is then nobody's concern.
NoneLost ==
    /\ part = "screen" => Seen!NoneLost
    /\ part = "cover" => Covered!NoneLost

\* No call looks at the screen.
Desktop == <<part, win, stack, count, focus, desk_ptr, taskbar, attached, call, hand, made, inputs, bad>>
View ==
    IF part \in {"events", "bar", "stack"} THEN <<Desktop, queue, failed>> ELSE windowVars

\* Tasks are only compared.
Symmetry == Permutations({t1, t2})
===============================================================================
