------------------------------ MODULE UserMem ------------------------------
(***************************************************************************)
(* The memory of user programs (i386).                                     *)
(*   src/kern/arch-i386/umem.c    uclean, u_alloc, u_free, uga             *)
(*   src/kern/arch-i386/page.c    pg_uauto, pg_fault                       *)
(*   src/kern/fork_i386.c         copy_pages                               *)
(*   src/kern/exec.c              do_exec                                  *)
(*                                                                         *)
(* Page tables are allocated with the first page asked for under them;     *)
(* pages are marked PGF_AUTO and get a frame when they are touched; the    *)
(* loader's pages are the kernel's own frames, PGF_COW, until they are     *)
(* written.  Frames come and go with pg_alloc and pg_free (KernMem), here  *)
(* a set.  A system call and a fault are one action: the kernel is not     *)
(* preemptive.  A task that will be killed ("doomed") keeps its memory     *)
(* until its turn to run task_exit.                                        *)
(***************************************************************************)
EXTENDS Integers, FiniteSets, FiniteSetsExt

CONSTANTS Task,
          Table,         \* page tables of the user's part of a directory
          Page,          \* pages of that part, numbered
          TableOf,       \* the table a page is under
          Heap,          \* pages programs ask for and give back
          Stack,         \* PAGE_STACK .. PAGE_STACK_END
          ArgPages,      \* the pages of it exec writes arguments to
          LdrArea,       \* PAGE_LDR .. PAGE_LDR_END
          LdrFrame,      \* the kernel's frames of the loader, by page of LdrArea
          Frame,         \* frames for user memory
          Values         \* what programs write

\* What the constants of an instance satisfy.
UserMemAssumption ==
    /\ Page \subseteq Nat /\ IsFiniteSet(Page)
    /\ Table \subseteq Nat /\ IsFiniteSet(Table)
    /\ TableOf \in [Page -> Table]
    /\ \A k \in Table : \E p \in Page : TableOf[p] = k
    /\ Heap \cup Stack \cup LdrArea \subseteq Page
    /\ Heap \cap (Stack \cup LdrArea) = {} /\ Stack \cap LdrArea = {}
    /\ ArgPages \subseteq Stack
    /\ DOMAIN LdrFrame \subseteq LdrArea
    /\ Frame \subseteq Nat \ {0} /\ IsFiniteSet(Frame)
    /\ \A p \in DOMAIN LdrFrame : LdrFrame[p] \in Nat \ (Frame \cup {0})
    /\ Values \subseteq Nat

VARIABLES
    st,          \* "none", "new" (task_creat, not run yet), "run", "doomed"
    pg_dir,      \* the frames of a task's tables, 0 for none
    pg_tab,      \* page table entries: None, AutoPage, or a frame with its PGF_COW bit
    pg_count,    \* pages and tables counted for ps
    free,        \* frames pg_alloc may return
    data         \* what a page's frame holds; Junk for a free frame and a table

umemVars == <<st, pg_dir, pg_tab, pg_count, free, data>>

None == [f |-> 0, cow |-> FALSE, auto |-> FALSE]
AutoPage == [f |-> 0, cow |-> FALSE, auto |-> TRUE]
Own(f) == [f |-> f, cow |-> FALSE, auto |-> FALSE]
Cow(f) == [f |-> f, cow |-> TRUE, auto |-> FALSE]

Zero == 0
NoPage == -3
Junk == -4
LdrData == -1
ArgData == -2
LdrPages == DOMAIN LdrFrame
Kernel == {LdrFrame[p] : p \in LdrPages}
Entry == {None, AutoPage} \cup {Own(f) : f \in Frame} \cup {Cow(f) : f \in Kernel}

UserTypes ==
    /\ st \in [Task -> {"none", "new", "run", "doomed"}]
    /\ pg_dir \in [Task -> [Table -> Frame \cup {0}]]
    /\ pg_tab \in [Task -> [Page -> Entry]]
    /\ pg_count \in [Task -> Nat]
    /\ free \in SUBSET Frame
    /\ data \in [Frame \cup Kernel -> Values \cup {Zero, LdrData, ArgData, Junk}]

UserInit ==
    /\ st = [t \in Task |-> "none"]
    /\ pg_dir = [t \in Task |-> [k \in Table |-> 0]]
    /\ pg_tab = [t \in Task |-> [p \in Page |-> None]]
    /\ pg_count = [t \in Task |-> 0]
    /\ free = Frame
    /\ data = [f \in Frame \cup Kernel |-> IF f \in Kernel THEN LdrData ELSE Junk]

----------------------------------------------------------------------------
(* A directory being changed: the fields of the task at hand, with the free *)
(* frames, their contents and whether a call has failed.                    *)

Mem(t) == [dir |-> pg_dir[t], tab |-> pg_tab[t], n |-> pg_count[t], free |-> free, data |-> data,
           err |-> FALSE]

Fail(m) == [m EXCEPT !.err = TRUE]

SetMem(t, m) ==
    /\ pg_dir' = [pg_dir EXCEPT ![t] = m.dir]
    /\ pg_tab' = [pg_tab EXCEPT ![t] = m.tab]
    /\ pg_count' = [pg_count EXCEPT ![t] = m.n]
    /\ free' = m.free
    /\ data' = m.data

\* op over a set of pages or tables in ascending order, until one fails.
Each(m, op(_, _), ps) ==
    LET after[S \in SUBSET ps] ==
            IF S = {} THEN m
            ELSE LET x == Max(S)
                     b == after[S \ {x}]
                 IN  IF b.err THEN b ELSE op(b, x)
    IN  after[ps]

\* A table for the page directory, in the first loop of u_alloc.
NewTable(m, k) ==
    IF m.dir[k] # 0 THEN m
    ELSE IF m.free = {} THEN Fail(m)
    ELSE [m EXCEPT !.dir[k] = Min(m.free), !.free = @ \ {Min(m.free)}, !.n = @ + 1]

\* u_alloc: first the tables, then every page not there yet is marked.
u_alloc(m, ps) ==
    LET b == Each(m, NewTable, {TableOf[p] : p \in ps})
    IN  IF b.err THEN b
        ELSE [b EXCEPT !.tab = [p \in Page |->
                 IF p \in ps /\ b.tab[p] = None THEN AutoPage ELSE b.tab[p]]]

\* u_free of one page; a page that is not there ends it.
FreePage(m, p) ==
    IF m.tab[p] = None THEN Fail(m)
    ELSE IF m.tab[p].f = 0 THEN [m EXCEPT !.tab[p] = None]
    ELSE [m EXCEPT !.tab[p] = None, !.n = @ - 1,
                      !.free = @ \cup {m.tab[p].f}, !.data[m.tab[p].f] = Junk]

\* Mutant: the frame taken for a page that was asked for is not cleared.
pg_uauto_NoClear(m, p) ==
    IF m.dir[TableOf[p]] = 0 \/ m.tab[p] = None THEN Fail(m)
    ELSE IF m.tab[p].f # 0 /\ ~m.tab[p].cow THEN m
    ELSE IF m.free = {} THEN Fail(m)
    ELSE [m EXCEPT !.tab[p] = Own(Min(m.free)),
                   !.free = @ \ {Min(m.free)},
                   !.n = @ + 1,
                   !.data[Min(m.free)] = IF m.tab[p].cow THEN m.data[m.tab[p].f] ELSE @]

\* pg_uauto: a page of its own for a page that is the kernel's or has no frame.
pg_uauto(m, p) ==
    IF m.dir[TableOf[p]] = 0 \/ m.tab[p] = None THEN Fail(m)
    ELSE IF m.tab[p].f # 0 /\ ~m.tab[p].cow THEN m
    ELSE IF m.free = {} THEN Fail(m)
    ELSE [m EXCEPT !.tab[p] = Own(Min(m.free)),
                   !.free = @ \ {Min(m.free)},
                   !.n = @ + 1,
                   !.data[Min(m.free)] = IF m.tab[p].cow THEN m.data[m.tab[p].f] ELSE Zero]

\* A directory is given back with these frames.
Drop(m, frames) ==
    [m EXCEPT !.free = @ \cup frames,
              !.data = [f \in Frame \cup Kernel |-> IF f \in frames THEN Junk ELSE m.data[f]],
              !.dir = [k \in Table |-> 0],
              !.tab = [p \in Page |-> None],
              !.n = 0]

\* uclean: the frames of the pages except the loader's, and those of the tables.
uclean(m) ==
    Drop(m, ({m.tab[p].f : p \in {q \in Page : ~m.tab[q].cow}} \cup {m.dir[k] : k \in Table}) \ {0})

\* tucpy: uga makes every page the task's own, then the bytes are copied.
tucpy(m, ps, v) ==
    LET b == Each(m, pg_uauto, ps)
    IN  IF b.err THEN b
        ELSE [b EXCEPT !.data = [f \in Frame \cup Kernel |->
                 IF f \in {b.tab[p].f : p \in ps} THEN v ELSE b.data[f]]]

----------------------------------------------------------------------------
(* Operations.                                                              *)

\* task_creat: a directory without user pages.
Creat(t) ==
    /\ st[t] = "none"
    /\ st' = [st EXCEPT ![t] = "new"]
    /\ UNCHANGED <<pg_dir, pg_tab, pg_count, free, data>>

\* The loader's pages; their table is there since u_alloc.
MapLoader(m) ==
    [m EXCEPT !.tab = [p \in Page |-> IF p \in LdrPages THEN Cow(LdrFrame[p]) ELSE m.tab[p]]]

\* do_exec as far as memory goes; found is whether the program is there and may be
\* executed.  The task does not survive an error.
do_exec(t, found) ==
    LET stack == u_alloc(uclean(Mem(t)), Stack)
        ldr == IF stack.err THEN stack ELSE u_alloc(stack, LdrArea)
        m == IF ldr.err THEN ldr ELSE tucpy(MapLoader(ldr), ArgPages, ArgData)
    IN  /\ st[t] \in {"new", "run"}
        /\ SetMem(t, m)
        /\ st' = [st EXCEPT ![t] = IF m.err \/ ~found THEN "doomed" ELSE "run"]

\* sys__pg_alloc and sys__pg_free for a run of pages of the heap.  Programs give back
\* pages of the heap only (src/lib/stdlib/malloc.c).
PgAlloc(t, ps) ==
    /\ st[t] = "run"
    /\ SetMem(t, u_alloc(Mem(t), ps))
    /\ UNCHANGED st

PgFree(t, ps) ==
    /\ st[t] = "run"
    /\ \A p \in ps : pg_dir[t][TableOf[p]] # 0
    /\ SetMem(t, Each(Mem(t), FreePage, ps))
    /\ UNCHANGED st

\* A program writes a page (v) or reads it (pg_fault only when it has no frame): the
\* signals for an error are fatal.
Writes(t, p, v) ==
    LET m == tucpy(Mem(t), {p}, v)
    IN  /\ st[t] = "run"
        /\ SetMem(t, m)
        /\ st' = [st EXCEPT ![t] = IF m.err THEN "doomed" ELSE "run"]

Reads(t, p) ==
    LET m == pg_uauto(Mem(t), p)
    IN  /\ st[t] = "run"
        /\ pg_tab[t][p].f = 0
        /\ SetMem(t, m)
        /\ st' = [st EXCEPT ![t] = IF m.err THEN "doomed" ELSE "run"]

\* The kernel writes or reads a program's buffer: an error is returned to the program.
KernelWrites(t, ps, v) ==
    /\ st[t] = "run"
    /\ SetMem(t, tucpy(Mem(t), ps, v))
    /\ UNCHANGED st

KernelReads(t, ps) ==
    /\ st[t] = "run"
    /\ SetMem(t, Each(Mem(t), pg_uauto, ps))
    /\ UNCHANGED st

\* Mutant: the table taken for a page is forgotten when there is no frame for the page.
CopyPage_Lost(m, parent, p) ==
    LET needTable == m.dir[TableOf[p]] = 0
        k == IF m.free = {} THEN 0 ELSE Min(m.free)
        rest == m.free \ {k}
        b == IF needTable THEN [m EXCEPT !.dir[TableOf[p]] = k, !.free = rest] ELSE m
        f == Min(b.free)
    IN  IF pg_dir[parent][TableOf[p]] = 0 THEN m
        ELSE IF needTable /\ k = 0 THEN Fail(m)
        ELSE IF pg_tab[parent][p].auto THEN [b EXCEPT !.tab[p] = AutoPage]
        ELSE IF pg_tab[parent][p].f = 0 THEN b
        ELSE IF b.free = {} THEN Fail([m EXCEPT !.free = rest])
        ELSE [b EXCEPT !.tab[p] = Own(f), !.free = @ \ {f},
                       !.data[f] = b.data[pg_tab[parent][p].f]]

\* The loop of copy_pages for one page of the parent: its table, then the page.  The
\* child's tables are not counted; pg_count is the parent's.
CopyPage(m, parent, p) ==
    LET needTable == m.dir[TableOf[p]] = 0
        k == IF m.free = {} THEN 0 ELSE Min(m.free)
        rest == m.free \ {k}
        b == IF needTable THEN [m EXCEPT !.dir[TableOf[p]] = k, !.free = rest] ELSE m
        f == Min(b.free)
    IN  IF pg_dir[parent][TableOf[p]] = 0 THEN m
        ELSE IF needTable /\ k = 0 THEN Fail(m)
        ELSE IF pg_tab[parent][p].auto THEN [b EXCEPT !.tab[p] = AutoPage]
        ELSE IF pg_tab[parent][p].f = 0 THEN b
        ELSE IF b.free = {} THEN Fail(b)
        ELSE [b EXCEPT !.tab[p] = Own(f), !.free = @ \ {f},
                       !.data[f] = b.data[pg_tab[parent][p].f]]

copy_pages(m, parent) == Each(m, LAMBDA b, p : CopyPage(b, parent, p), Page)

\* do_fork.  When copy_pages fails the child, with what it has got, is killed.
Fork(t, c) ==
    LET m == copy_pages([Mem(c) EXCEPT !.n = pg_count[t]], t)
    IN  /\ st[t] = "run" /\ st[c] = "none"
        /\ SetMem(c, m)
        /\ st' = [st EXCEPT ![c] = IF m.err THEN "doomed" ELSE "run"]

\* A fatal signal; and task_exit, by a task's own call or because it is doomed.
Kill(t) ==
    /\ st[t] \in {"new", "run"}
    /\ st' = [st EXCEPT ![t] = "doomed"]
    /\ UNCHANGED <<pg_dir, pg_tab, pg_count, free, data>>

Exit(t) ==
    /\ st[t] \in {"run", "doomed"}
    /\ SetMem(t, uclean(Mem(t)))
    /\ st' = [st EXCEPT ![t] = "none"]

Runs(S) == {S \cap (a..b) : a, b \in S} \ {{}}

UserNext ==
    \E t \in Task :
        \/ Creat(t)
        \/ \E found \in BOOLEAN : do_exec(t, found)
        \/ \E ps \in Runs(Heap) : PgAlloc(t, ps) \/ PgFree(t, ps)
        \/ \E p \in Page, v \in Values : Writes(t, p, v)
        \/ \E p \in Page : Reads(t, p)
        \/ \E ps \in Runs(Page), v \in Values : KernelWrites(t, ps, v)
        \/ \E ps \in Runs(Page) : KernelReads(t, ps)
        \/ \E c \in Task \ {t} : Fork(t, c)
        \/ Kill(t)
        \/ Exit(t)

UserSpec == UserInit /\ [][UserNext]_umemVars

----------------------------------------------------------------------------
(* Properties.                                                              *)

Tables(t) == {k \in Table : pg_dir[t][k] # 0}
Owned(t) == {p \in Page : pg_tab[t][p].f # 0 /\ ~pg_tab[t][p].cow}
Frames(t) == {pg_dir[t][k] : k \in Tables(t)} \cup {pg_tab[t][p].f : p \in Owned(t)}

\* Every frame is free, or holds one table or one page of one task: nothing is lost
\* where fork, exec or an allocation fails halfway, and nothing is shared.
FramesOnce ==
    /\ free \cup UNION {Frames(t) : t \in Task} = Frame
    /\ \A t \in Task : Frames(t) \cap free = {}
    /\ \A t, u \in Task : t # u => Frames(t) \cap Frames(u) = {}
    /\ \A t \in Task :
        /\ \A k, l \in Tables(t) : pg_dir[t][k] = pg_dir[t][l] => k = l
        /\ \A p, q \in Owned(t) : pg_tab[t][p].f = pg_tab[t][q].f => p = q
        /\ \A k \in Tables(t), p \in Owned(t) : pg_dir[t][k] # pg_tab[t][p].f

\* A task's pages are under tables it has; pages are marked for no other reason than
\* that they were asked for; and a task that runs is counted no more than it has.
TablesRight ==
    /\ \A t \in Task, p \in Page : pg_tab[t][p] # None => pg_dir[t][TableOf[p]] # 0
    /\ \A t \in Task : st[t] \in {"none", "new"} => Tables(t) = {}
    /\ \A t \in Task : st[t] = "run" => pg_count[t] <= Cardinality(Tables(t)) + Cardinality(Owned(t))

\* Frames and tables of user memory are accounted for at every step.
UserMemRight == UserTypes /\ FramesOnce /\ TablesRight

\* What a task that runs finds in its pages.
View(t) ==
    [p \in Page |-> IF st[t] # "run" \/ pg_tab[t][p] = None THEN NoPage
                    ELSE IF pg_tab[t][p].auto THEN Zero
                    ELSE data[pg_tab[t][p].f]]

NewImage ==
    [p \in Page |-> IF p \in ArgPages THEN ArgData
                    ELSE IF p \in LdrPages THEN LdrData
                    ELSE IF p \in Stack \cup LdrArea THEN Zero
                    ELSE NoPage]

Seen == [t \in Task |-> View(t)]

Memory == INSTANCE AddrSpace WITH mem <- Seen, Image <- NewImage

\* Every task has its memory to itself and finds there what it left: lazy allocation,
\* the loader shared until it is written, frames used again and calls that fail halfway
\* do not show.
MemorySpec == Memory!Spec

\* A state but for the names of the frames: free frames are all alike, so which one
\* pg_alloc returns makes no difference to anybody.  With the counts, that the frames
\* are all somewhere tells whether any of them is at two places.
Nameless ==
    <<st, pg_count, Cardinality(free), free \cup UNION {Frames(t) : t \in Task} = Frame,
      [t \in Task |-> <<Tables(t),
          [p \in Page |-> <<pg_tab[t][p].f = 0, pg_tab[t][p].cow, pg_tab[t][p].auto,
                            IF pg_tab[t][p].f = 0 THEN NoPage ELSE data[pg_tab[t][p].f]>>]>>]>>
=============================================================================
