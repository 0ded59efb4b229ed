----------------------------- MODULE ByteStream -----------------------------
(***************************************************************************)
(* What a pipe promises its users: a bounded stream of bytes.  A writer's  *)
(* request is added to the end of the stream piece by piece and in order;  *)
(* a reader takes a piece from the front.  Nothing else changes the        *)
(* stream: no byte is lost, invented, repeated or overtaken.               *)
(***************************************************************************)
EXTENDS Integers, Sequences

CONSTANTS
    Task,       \* the writers
    Byte,       \* the values a byte can have
    Capacity,   \* bytes the stream can hold
    MaxCount    \* the longest request

VARIABLES
    stream,     \* bytes written and not yet read
    todo,       \* what each writer has still to add
    taken       \* the bytes the last step gave to a reader

vars == <<stream, todo, taken>>

Init ==
    /\ stream = <<>>
    /\ todo = [t \in Task |-> <<>>]
    /\ taken = <<>>

\* A writer asks for bytes to be written.
Request(t) ==
    /\ todo[t] = <<>>
    /\ \E n \in 0 .. MaxCount : \E d \in [1 .. n -> Byte] : todo' = [todo EXCEPT ![t] = d]
    /\ taken' = <<>>
    /\ UNCHANGED stream

\* The next bytes of a request join the stream.
Put(t) ==
    /\ \E n \in 1 .. Len(todo[t]) :
        /\ Len(stream) + n <= Capacity
        /\ stream' = stream \o SubSeq(todo[t], 1, n)
        /\ todo' = [todo EXCEPT ![t] = SubSeq(@, n + 1, Len(@))]
    /\ taken' = <<>>

\* The rest of a request is given up: a signal, or a writer that does not wait.
GiveUp(t) ==
    /\ todo' = [todo EXCEPT ![t] = <<>>]
    /\ taken' = <<>>
    /\ UNCHANGED stream

\* A reader gets bytes from the front.
Take ==
    /\ \E n \in 0 .. Len(stream) :
        /\ taken' = SubSeq(stream, 1, n)
        /\ stream' = SubSeq(stream, n + 1, Len(stream))
    /\ UNCHANGED todo

\* Nobody has the pipe open any more, and it starts anew.
Reset ==
    /\ stream' = <<>>
    /\ taken' = <<>>
    /\ UNCHANGED todo

Next ==
    \/ \E t \in Task : Request(t) \/ Put(t) \/ GiveUp(t)
    \/ Take
    \/ Reset

Spec == Init /\ [][Next]_vars
=============================================================================
