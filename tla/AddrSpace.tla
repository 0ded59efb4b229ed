----------------------------- MODULE AddrSpace -----------------------------
(***************************************************************************)
(* What a task is promised of its memory: a page it has holds what the     *)
(* task itself put there last, zeroes before that; a child begins with a   *)
(* copy of its parent's memory; a new image begins with the loader, a      *)
(* stack with its arguments and nothing else; and no other task and no     *)
(* shortage of memory changes any of it.  Nothing is said of a task that   *)
(* is being killed.  UserMem implements this with frames that are taken    *)
(* late, copied late and used again.                                       *)
(***************************************************************************)
EXTENDS Naturals

CONSTANTS Task, Page,
          Values,     \* what a program writes
          Zero, NoPage,
          Image       \* the memory of a new image

VARIABLE mem          \* mem[t]: its pages, or Gone

vars == <<mem>>

Gone == [p \in Page |-> NoPage]
Has(t) == {p \in Page : mem[t][p] # NoPage}

Init == mem = [t \in Task |-> Gone]

\* A new image, or the end of a task, or a task that is going to end.
Begins(t) == mem' = [mem EXCEPT ![t] = Image]
Ends(t) == mem' = [mem EXCEPT ![t] = Gone]

Forks(t, c) ==
    /\ mem[c] = Gone
    /\ mem' = [mem EXCEPT ![c] = mem[t]]

Obtains(t, ps) ==
    mem' = [mem EXCEPT ![t] = [p \in Page |-> IF p \in ps \ Has(t) THEN Zero ELSE mem[t][p]]]

Discards(t, ps) ==
    mem' = [mem EXCEPT ![t] = [p \in Page |-> IF p \in ps THEN NoPage ELSE mem[t][p]]]

Writes(t, ps, v) ==
    /\ ps \subseteq Has(t)
    /\ mem' = [mem EXCEPT ![t] = [p \in Page |-> IF p \in ps THEN v ELSE mem[t][p]]]

Next ==
    \E t \in Task :
        \/ Begins(t)
        \/ Ends(t)
        \/ \E c \in Task \ {t} : Forks(t, c)
        \/ \E ps \in SUBSET Page : \/ Obtains(t, ps)
                                   \/ Discards(t, ps)
                                   \/ \E v \in Values : Writes(t, ps, v)

Spec == Init /\ [][Next]_vars
=============================================================================
