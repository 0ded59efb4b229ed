------------------------------- MODULE MCMemory -------------------------------
(***************************************************************************)
(* Memory, from the page frames up to malloc(), as one run: a behaviour is *)
(* a behaviour of the kernel's allocator, of the memory of two tasks, of   *)
(* the heap of a program, or of the ring buffer.  The ring buffer, which   *)
(* takes requests up to one more than it holds, and the memory of tasks    *)
(* are this module's own: two tasks, of whose pages 1 and 2 are the        *)
(* heap's, 3 the loader's and 4 the stack's; the heap has a table, and the *)
(* loader and the stack share one.  Each of the others is an instance of   *)
(* its module with bounds of its own.                                      *)
(***************************************************************************)
EXTENDS RingBuf, UserMem, TLC

CONSTANTS t1, t2

VARIABLES
    part,  \* the component this behaviour is of
    \* KernMem
    flist, dma, dir, tab, vfree, blocks, user, bad,
    \* Malloc
    chunks, page_map, lost, live, mem

kmemVars == <<flist, dma, dir, tab, vfree, blocks, user, bad>>
heapVars == <<chunks, page_map, lost, live, mem>>
memoryVars == <<part, kmemVars, umemVars, heapVars, vars>>

\* TableOf and LdrFrame.
PageTables == <<1, 1, 2, 2>>
Loader == 3 :> 100

\* Frames run out before the address space does.
Blocks == INSTANCE KernMem WITH
    N <- 12, T <- 2, Skip <- 8, D <- 6, W <- 3, Low <- {2, 3, 4}, High <- {7},
    Sizes <- {1, 2}, MaxBlock <- 3

\* The address space runs out before the frames do.
Full == INSTANCE KernMem WITH
    N <- 6, T <- 3, Skip <- 6, D <- 6, W <- 3, Low <- {2, 3}, High <- {7, 8},
    Sizes <- {1, 2}, MaxBlock <- 6

\* Small blocks, and blocks of one and more pages.
Program == INSTANCE Malloc WITH
    Small <- 32, PageSize <- 16, Pages <- 2, Sizes <- {0, 3, 12, 15},
    MaxLive <- 3

\* What the modules ask of their constants.
ASSUME Instances ==
    /\ Blocks!KernMemAssumption
    /\ Full!KernMemAssumption
    /\ UserMemAssumption
    /\ Program!MallocAssumption
    /\ RingBufAssumption

\* The variables of a component that does not run mean nothing; the ring
\* buffer and the memory of tasks stay as they start.
NoKernMem ==
    /\ flist = 0 /\ dma = 0 /\ dir = 0 /\ tab = 0 /\ vfree = 0 /\ blocks = 0
    /\ user = 0 /\ bad = 0
NoUserMem == UserInit
NoMalloc ==
    /\ chunks = 0 /\ page_map = 0 /\ lost = 0 /\ live = 0 /\ mem = 0
NoRingBuf ==
    /\ Init
    /\ \A i \in DOMAIN buf : buf[i] = 1

MemInit ==
    \/ /\ part = "blocks" /\ Blocks!Init
       /\ NoUserMem /\ NoMalloc /\ NoRingBuf
    \/ /\ part = "full" /\ Full!Init
       /\ NoUserMem /\ NoMalloc /\ NoRingBuf
    \/ /\ part = "user" /\ UserInit
       /\ NoKernMem /\ NoMalloc /\ NoRingBuf
    \/ /\ part = "heap" /\ Program!Init
       /\ NoKernMem /\ NoUserMem /\ NoRingBuf
    \/ /\ part = "ring" /\ Init
       /\ NoKernMem /\ NoUserMem /\ NoMalloc

BlocksNext ==
    /\ part = "blocks"
    /\ Blocks!Next
    /\ UNCHANGED <<part, umemVars, heapVars, vars>>

FullNext ==
    /\ part = "full"
    /\ Full!Next
    /\ UNCHANGED <<part, umemVars, heapVars, vars>>

TasksNext ==
    /\ part = "user"
    /\ UserNext
    /\ UNCHANGED <<part, kmemVars, heapVars, vars>>

HeapNext ==
    /\ part = "heap"
    /\ Program!Next
    /\ UNCHANGED <<part, kmemVars, umemVars, vars>>

RingNext ==
    /\ part = "ring"
    /\ Next
    /\ UNCHANGED <<part, kmemVars, umemVars, heapVars>>

MemNext ==
    \/ BlocksNext \/ FullNext \/ TasksNext \/ HeapNext
    \/ RingNext

MemSpec == MemInit /\ [][MemNext]_memoryVars

----------------------------------------------------------------------------
(* Properties, besides RingRight of the ring buffer, and UserMemRight and    *)
(* MemorySpec of the memory of tasks.                                        *)

\* Every frame of the kernel is at exactly one place: free, a page table, a
\* page of a block, or user memory, also when kmalloc, phys_map or a DMA
\* allocation fails halfway (pg_atmem, pg_dtmem); blocks do not overlap, their
\* pages and no others are marked in the page table, and pg_vfree counts the
\* rest (pg_adget, pg_adput). As long as the last frame of the DMA map is no
\* memory the panic of pg_atmem is not reached, and as long as no request is
\* larger than a table pg_adget returns ranges of the kernel's address space
\* only.
KernMemRight ==
    /\ part = "blocks" => Blocks!KernMemRight /\ Blocks!NoPanic
    /\ part = "full" => Full!KernMemRight /\ Full!InSpace

\* A block of malloc() keeps what the program put into it through every call
\* for other blocks and its own realloc(), and no header of the chain is
\* overwritten; the chain covers the area of small blocks and its taken chunks
\* are the program's blocks; and small_malloc fails only when no stretch
\* between two taken chunks fits, however it was cut up before (small_malloc,
\* small_free, small_realloc).
MallocRight == part = "heap" => Program!MallocRight

\* Tasks are only compared.
Symmetry == Permutations({t1, t2})

\* Frames and marks are names only.
NamelessState ==
    CASE part = "user" -> <<part, Nameless>>
      [] part = "heap" -> <<part, Program!Nameless>>
      [] OTHER -> <<part, kmemVars, heapVars, vars>>
===============================================================================
