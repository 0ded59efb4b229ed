------------------------------- MODULE Mount -------------------------------
(***************************************************************************)
(* Mounting (src/kern/fs/mount.c) with the deferred procedures of          *)
(* src/kern/task_dproc.c.  A file system on a removable medium is mounted  *)
(* ("active") when a name on it is looked up and unmounted again FS_UDELAY *)
(* seconds after the last look-up: the clock interrupt queues fs_dumount,  *)
(* and whoever next returns to user mode runs it.                          *)
(*                                                                         *)
(* The kernel is not preemptive and disk drivers poll, so a system call's  *)
(* work on the mount table is one step; but the clock interrupts it before *)
(* and after, and a slot may be unmounted by hand while its deferred       *)
(* unmount waits.  cpu says where the processor is on its way through the  *)
(* kernel: which task it serves does not matter here.  Interrupt handlers  *)
(* run with interrupts off, so one tick with all it queues is one step.    *)
(***************************************************************************)
EXTENDS Integers, Sequences, FiniteSets, SequencesExt

CONSTANTS MaxFs,     \* FS_MAXFS: slots of fs_fs
          Bdev,      \* block devices
          NoBdev,    \* the NULL device of a slot never used
          UDelay,    \* FS_UDELAY in clock seconds
          MaxFso,    \* bound: referenced objects of one file system
          MaxAcc     \* bound: look-ups between two runs of task_rundp

\* What the constants of an instance satisfy.
MountAssumption ==
    /\ MaxFs \in Nat \ {0}
    /\ NoBdev \notin Bdev
    /\ UDelay \in Nat \ {0}
    /\ MaxFso \in Nat \ {0}
    /\ MaxAcc \in Nat \ {0}

VARIABLES
    fs,       \* fs_fs: in_use, dev, removable, active
    left,     \* unmount_time minus uptime, 0 when it has come, Never when unset
    refs,     \* how many objects (fso) of a slot have references
    refcnt,    \* refcnt of struct bdev
    cached,   \* devices with dirty blocks in the cache
    marked,   \* devices whose superblock on the medium says dirty
    ring,     \* task_dprocs: the slots whose fs_dumount is queued
    taken,    \* the slot task_rundp has taken off and is about to run, or 0
    cpu,      \* "user", "sys" (in a system call), "leave" (intr_leave before
              \* and in task_rundp), "out" (intr_leave after it)
    raw,      \* history: devices that were also opened as devices since they
              \* were last closed by everybody
    gone,     \* history: the slot the system call being left has unmounted, or 0
    acc,      \* look-ups since task_rundp emptied the ring
    panic     \* a panic of this code was reached

mountVars == <<fs, left, refs, refcnt, cached, marked, ring, taken, cpu,
               raw, gone, acc, panic>>

Slot == 1..MaxFs
Never == -1
FsRec == [in_use : BOOLEAN, dev : Bdev \cup {NoBdev},
          removable : BOOLEAN, active : BOOLEAN]

\* Properties and proofs speak of the slots that are waiting for their unmount.
Queued == Range(ring) \cup ({taken} \ {0})

MountTypes ==
    /\ fs \in [Slot -> FsRec]
    /\ left \in [Slot -> Never..UDelay]
    /\ refs \in [Slot -> 0..MaxFso]
    /\ refcnt \in [Bdev -> Nat]
    /\ cached \in SUBSET Bdev
    /\ marked \in SUBSET Bdev
    /\ ring \in Seq(Slot)
    /\ taken \in 0..MaxFs
    /\ cpu \in {"user", "sys", "leave", "out"}
    /\ raw \in SUBSET Bdev
    /\ gone \in 0..MaxFs
    /\ acc \in 0..MaxAcc
    /\ panic \in BOOLEAN

\* A machine on which nothing is mounted.
MountInit ==
    /\ fs \in [Slot -> {[in_use |-> FALSE, dev |-> NoBdev,
                         removable |-> FALSE, active |-> FALSE]}]
    /\ left = [i \in Slot |-> Never]
    /\ refs = [i \in Slot |-> 0]
    /\ refcnt = [d \in Bdev |-> 0]
    /\ cached = {}
    /\ marked = {}
    /\ ring = << >>
    /\ taken = 0
    /\ cpu = "user"
    /\ raw = {}
    /\ gone = 0
    /\ acc = 0
    /\ panic = FALSE

----------------------------------------------------------------------------
(* The clock (fs_clock, called by clock_intr once uptime has moved on).     *)

\* What passing one second makes of the time left.
Passed == [i \in Slot |-> IF left[i] > 0 THEN left[i] - 1 ELSE left[i]]

\* Mutant: slots that are not in use are not skipped.
DueSlots_Unused(l) == {i \in Slot : fs[i].removable /\ fs[i].active /\ l[i] = 0}

\* The slots fs_clock finds due.
DueSlots(l) ==
    {i \in Slot : fs[i].in_use /\ fs[i].removable /\ fs[i].active /\ l[i] = 0}

\* A set of slots in the order of the table.
InOrder(S) ==
    {s \in [1..Cardinality(S) -> S] :
        Range(s) = S /\ \A j, k \in DOMAIN s : j < k => s[j] < s[k]}

\* fs_clock and task_defer: due slots are queued in the order of the table.
fs_clock ==
    LET due == DueSlots(Passed)
    IN  /\ left' = [i \in Slot |-> IF i \in due THEN Never ELSE Passed[i]]
        /\ \E s \in InOrder(due) : ring' = ring \o s

\* A clock interrupt.  One that comes in user mode returns through intr_leave.
Tick ==
    /\ fs_clock
    /\ cpu' = IF cpu = "user" THEN "leave" ELSE cpu
    /\ UNCHANGED <<fs, refs, refcnt, cached, marked, taken, raw, gone, acc, panic>>

----------------------------------------------------------------------------
(* Unmounting and mounting of the type (nat_mount, nat_umount) and the      *)
(* cache's part of it.                                                      *)

\* nat_umount: the bitmap goes to the cache, the clean superblock to the medium.
TypeUmount(d) == marked' = marked \ {d}

\* fs_sched_unmount
fs_sched_unmount(i) ==
    /\ left' = [left EXCEPT ![i] = UDelay]
    /\ panic' = (panic \/ ~fs[i].removable)

----------------------------------------------------------------------------
(* Deferred unmounting.                                                     *)

\* task_rundp takes the oldest entry.
Take ==
    /\ cpu = "leave"
    /\ taken = 0
    /\ ring # << >>
    /\ taken' = Head(ring)
    /\ ring' = Tail(ring)
    /\ UNCHANGED <<fs, left, refs, refcnt, cached, marked, cpu, raw, gone, acc, panic>>

\* Mutant: a busy file system is not scheduled again.
fs_dumount_NoRetry(i) ==
    \/ /\ ~fs[i].active \/ refs[i] > 0
       /\ UNCHANGED <<fs, left, cached, marked, panic>>
    \/ /\ fs[i].active
       /\ refs[i] = 0
       /\ TypeUmount(fs[i].dev)
       /\ fs' = [fs EXCEPT ![i].active = FALSE]
       /\ cached' = cached \ {fs[i].dev}
       /\ UNCHANGED <<left, panic>>

\* fs_dumount
fs_dumount(i) ==
    \/ /\ ~fs[i].active
       /\ UNCHANGED <<fs, left, cached, marked, panic>>
    \/ /\ fs[i].active
       /\ refs[i] > 0
       /\ fs_sched_unmount(i)
       /\ UNCHANGED <<fs, cached, marked>>
    \/ /\ fs[i].active
       /\ refs[i] = 0
       /\ TypeUmount(fs[i].dev)
       /\ fs' = [fs EXCEPT ![i].active = FALSE]
       /\ cached' = cached \ {fs[i].dev}
       /\ UNCHANGED <<left, panic>>

\* task_rundp calls what it has taken.
Run ==
    /\ cpu = "leave"
    /\ taken # 0
    /\ fs_dumount(taken)
    /\ taken' = 0
    /\ UNCHANGED <<refs, refcnt, ring, cpu, raw, gone, acc>>

\* task_rundp finds the ring empty.
RunDone ==
    /\ cpu = "leave"
    /\ taken = 0
    /\ ring = << >>
    /\ cpu' = "out"
    /\ gone' = 0
    /\ acc' = 0
    /\ UNCHANGED <<fs, left, refs, refcnt, cached, marked, ring, taken, raw, panic>>

----------------------------------------------------------------------------
(* The way through the kernel.                                              *)

Enter ==
    /\ cpu = "user"
    /\ cpu' = "sys"
    /\ UNCHANGED <<fs, left, refs, refcnt, cached, marked, ring, taken, raw, gone, acc, panic>>

\* The system call is over.
Return ==
    /\ cpu = "sys"
    /\ cpu' = "leave"
    /\ UNCHANGED <<fs, left, refs, refcnt, cached, marked, ring, taken, raw, gone, acc, panic>>

ToUser ==
    /\ cpu = "out"
    /\ cpu' = "user"
    /\ UNCHANGED <<fs, left, refs, refcnt, cached, marked, ring, taken, raw, gone, acc, panic>>

\* The task sleeps and another one goes on where it was: in a system call, or
\* in intr_leave after task_rundp, where sched() had taken the processor.
Switch ==
    /\ cpu \in {"sys", "out"}
    /\ cpu' \in {"sys", "out"} \ {cpu}
    /\ UNCHANGED <<fs, left, refs, refcnt, cached, marked, ring, taken, raw, gone, acc, panic>>

----------------------------------------------------------------------------
(* System calls on the mount table.                                         *)

\* The first free slot.
FreeSlot == {i \in Slot : ~fs[i].in_use /\ \A j \in 1..(i - 1) : fs[j].in_use}

\* blk_open and blk_close (block.c): the last close writes the cache out.
blk_close(d) ==
    /\ refcnt' = [refcnt EXCEPT ![d] = @ - 1]
    /\ cached' = IF refcnt[d] = 1 THEN cached \ {d} ELSE cached
    /\ raw' = IF refcnt[d] = 1 THEN raw \ {d} ELSE raw
    /\ panic' = (panic \/ refcnt[d] = 0)

\* fs_mount of a device, once the slot is found and the device opened.  The
\* mount point is left out: a second mount there is refused like one of a
\* device that is in use.
fs_mount(i, d, rem) ==
    /\ i \in FreeSlot
    /\ \A j \in Slot : fs[j].in_use => fs[j].dev # d
    /\ fs' = [fs EXCEPT ![i] = [in_use |-> TRUE, dev |-> d,
                                removable |-> rem, active |-> ~rem]]
    /\ left' = [left EXCEPT ![i] = Never]
    /\ refcnt' = [refcnt EXCEPT ![d] = @ + 1]
    /\ marked' = IF rem THEN marked ELSE marked \cup {d}

\* fs_mount when the type does not find its file system on the medium.
fs_mount_fails(i, d) ==
    /\ i \in FreeSlot
    /\ \A j \in Slot : fs[j].in_use => fs[j].dev # d
    /\ fs' = [fs EXCEPT ![i] = [in_use |-> FALSE, dev |-> d,
                                removable |-> FALSE, active |-> FALSE]]
    /\ left' = [left EXCEPT ![i] = Never]
    /\ UNCHANGED <<refcnt, marked>>

SysMount ==
    /\ cpu = "sys"
    /\ \E i \in Slot, d \in Bdev :
           \/ \E rem \in BOOLEAN : fs_mount(i, d, rem)
           \/ fs_mount_fails(i, d)
    /\ cpu' = "leave"
    /\ UNCHANGED <<refs, cached, ring, taken, raw, gone, acc, panic>>

\* fs_umount: `active' and unmount_time stay as they are.
fs_umount(i) ==
    /\ fs[i].in_use
    /\ refs[i] = 0
    /\ IF fs[i].active THEN TypeUmount(fs[i].dev) ELSE UNCHANGED marked
    /\ blk_close(fs[i].dev)
    /\ fs' = [fs EXCEPT ![i].in_use = FALSE]

SysUmount ==
    /\ cpu = "sys"
    /\ \E i \in Slot : fs_umount(i) /\ gone' = i
    /\ cpu' = "leave"
    /\ UNCHANGED <<left, refs, ring, taken, acc>>

\* devfs_getfso and devfs_putfso: somebody opens or closes the disk itself.
RawOpen ==
    /\ cpu = "sys"
    /\ \E d \in Bdev :
           /\ refcnt[d] < 2
           /\ refcnt' = [refcnt EXCEPT ![d] = @ + 1]
           /\ raw' = raw \cup {d}
    /\ UNCHANGED <<fs, left, refs, cached, marked, ring, taken, cpu, gone, acc, panic>>

RawClose ==
    /\ cpu = "sys"
    /\ \E d \in Bdev :
           /\ refcnt[d] > Cardinality({i \in Slot : fs[i].in_use /\ fs[i].dev = d})
           /\ blk_close(d)
    /\ UNCHANGED <<fs, left, refs, marked, ring, taken, cpu, gone, acc>>

\* _sync: every cached block is written.
SysSync ==
    /\ cpu = "sys"
    /\ cached' = {}
    /\ UNCHANGED <<fs, left, refs, refcnt, marked, ring, taken, cpu, raw, gone, acc, panic>>

----------------------------------------------------------------------------
(* Using files.                                                             *)

\* fs_activate: for a look-up in slot i.
fs_activate(i) ==
    \/ /\ ~fs[i].removable
       /\ UNCHANGED <<fs, left, marked, panic>>
    \/ /\ fs[i].removable
       /\ fs[i].active
       /\ fs_sched_unmount(i)
       /\ UNCHANGED <<fs, marked>>
    \/ /\ fs[i].removable
       /\ ~fs[i].active
       /\ marked' = marked \cup {fs[i].dev}
       /\ fs' = [fs EXCEPT ![i].active = TRUE]
       /\ fs_sched_unmount(i)

\* fs_parsename and the operation on the name.  It may keep a reference (open)
\* and may change blocks (create, unlink...).  A system call makes it, or
\* do_exec on the way out.
Access(i) ==
    /\ cpu \in {"sys", "out"}
    /\ acc < MaxAcc
    /\ acc' = acc + 1
    /\ fs[i].in_use
    /\ fs_activate(i)
    /\ \/ UNCHANGED refs
       \/ /\ refs[i] < MaxFso
          /\ refs' = [refs EXCEPT ![i] = @ + 1]
    /\ cached' \in {cached, cached \cup {fs[i].dev}}
    /\ UNCHANGED <<refcnt, ring, taken, cpu, raw, gone>>

\* The look-up that finds no file system on the medium (fs_activate's error).
AccessFails(i) ==
    /\ cpu \in {"sys", "out"}
    /\ fs[i].in_use
    /\ fs[i].removable
    /\ ~fs[i].active
    /\ cached' = cached \ {fs[i].dev}
    /\ UNCHANGED <<fs, left, refs, refcnt, marked, ring, taken, cpu, raw, gone, acc, panic>>

\* write() to, and the last close of, an object that is referenced.
WriteFile(i) ==
    /\ cpu = "sys"
    /\ refs[i] > 0
    /\ cached' = cached \cup {fs[i].dev}
    /\ UNCHANGED <<fs, left, refs, refcnt, marked, ring, taken, cpu, raw, gone, acc, panic>>

CloseFile(i) ==
    /\ cpu \in {"sys", "out"}
    /\ refs[i] > 0
    /\ refs' = [refs EXCEPT ![i] = @ - 1]
    /\ cached' \in {cached, cached \cup {fs[i].dev}}
    /\ UNCHANGED <<fs, left, refcnt, marked, ring, taken, cpu, raw, gone, acc, panic>>

MountNext ==
    \/ Tick
    \/ Take
    \/ Run
    \/ RunDone
    \/ Enter
    \/ Return
    \/ ToUser
    \/ Switch
    \/ SysMount
    \/ SysUmount
    \/ RawOpen
    \/ RawClose
    \/ SysSync
    \/ \E i \in Slot : Access(i) \/ AccessFails(i) \/ WriteFile(i) \/ CloseFile(i)

MountSpec == MountInit /\ [][MountNext]_mountVars

----------------------------------------------------------------------------
(* Properties.                                                              *)

\* No panic: fs_sched_unmount is only called for a removable file system and
\* blk_close only for an open device, whatever is queued meanwhile.
NoPanic == ~panic

\* A slot whose deferred unmount is still queued is in use: it can neither be
\* given to another file system nor miss its unmount.  The exception is the
\* race of fs_umount with the clock: the task that unmounted the slot by hand
\* runs the queued fs_dumount, of a closed device, on its way out.
QueuedInUse == \A i \in Queued : fs[i].in_use \/ (i = gone /\ cpu = "leave")

\* An active removable file system always has its unmount ahead: a time, or an
\* entry of the ring.  Without either it would stay mounted for ever.
WillUnmount ==
    \A i \in Slot : fs[i].in_use /\ fs[i].removable /\ fs[i].active
                    => left[i] # Never \/ i \in Queued

\* When the task bar's light is off (_rfsactive counts active file systems) the
\* medium may be taken out: its superblock says clean and nothing waits in the
\* cache, unless the disk itself was open as a device, which keeps fs_umount
\* from writing the cache out.
IdleIsClean ==
    \A i \in Slot : fs[i].in_use /\ fs[i].removable /\ ~fs[i].active
                    => /\ fs[i].dev \notin marked
                       /\ fs[i].dev \in cached => fs[i].dev \in raw

\* Every mount has its device open, and nothing is left in the cache for a
\* device nobody has open.
DevicesRight ==
    /\ \A i \in Slot : fs[i].in_use => refcnt[fs[i].dev] > 0
    /\ \A d \in Bdev : refcnt[d] = 0 => d \notin cached /\ d \notin marked

\* The table of mounts is right, however mounting fails and whatever is queued
\* meanwhile (fs_mount, fs_umount, fs_activate, fs_clock, fs_dumount).
MountRight == MountTypes /\ NoPanic /\ QueuedInUse /\ WillUnmount /\ IdleIsClean /\ DevicesRight

\* A removable file system that is mounted.
Active(i) == fs[i].in_use /\ fs[i].removable /\ fs[i].active
=============================================================================
