------------------------------- MODULE NatFsck -------------------------------
(***************************************************************************)
(* The file system checker, src/cmd/sbin/fsck.c, run with -F on a native   *)
(* file system between power failures and mounts (init runs `fsck -sqwF'). *)
(*                                                                         *)
(* The walk over files and directories is written as the program has it,   *)
(* with the tables it fills: rbam, and file[] with the headers as they are *)
(* written back.  A block that is no header has no valid indirection level *)
(* and a block without entries is read as an empty one: what old contents  *)
(* of a disk would look like is not modelled further.                      *)
(***************************************************************************)
EXTENDS NatFs

CONSTANT MaxFsck      \* bound: runs of fsck

VARIABLES checks,     \* bound
          unfixed     \* history: fsck has said `cannot fix'

fsckVars == <<vars, checks, unfixed>>

\* What fsck knows: the headers it loaded (table), the links it counted, the
\* objects it has been to, rbam, and whether it met something it cannot fix.
Start == [hd |-> media, loaded |-> {}, links |-> [b \in FsBlk |-> 0], checked |-> {},
          used |-> {}, bad |-> FALSE]

\* check_bmap: the blocks of a map are in use; one that was already in use is
\* taken out of the map (`punched a hole').
CheckBmap(w, i) ==
    [w EXCEPT !.hd[i].map = @ \ w.used,
              !.used = @ \cup w.hd[i].map]

RECURSIVE CheckFile(_, _), CheckEntries(_, _)

\* check_dir's loops over blocks and entries; E is what is left of them.
CheckEntries(w, E) ==
    IF E = {} THEN w
    ELSE LET e == CHOOSE x \in E : TRUE
         IN  CheckEntries(CheckFile(w, media[e[1]].ents[e[2]]), E \ {e})

\* check_file of the object i, with check_dir.
CheckFile(w, i) ==
    LET v == [w EXCEPT !.links[i] = @ + 1, !.loaded = @ \cup {i}, !.checked = @ \cup {i}]
        c == CheckBmap([v EXCEPT !.used = @ \cup {i}], i)
    IN  IF i \in w.checked THEN v
        ELSE IF media[i].kind # "header" \/ i \in w.used THEN [v EXCEPT !.bad = TRUE]
        ELSE IF ~media[i].dir THEN c
        ELSE CheckEntries(c, {<<b, n>> \in c.hd[i].map \X Name : media[b].ents[n] # 0})

\* Mutant: check_nlink compares and does not write.
LinksFixed_No(w) == w.hd

\* check_nlink, and the headers as save_hdr leaves them.
LinksFixed(w) ==
    [b \in FsBlk |-> IF b \in w.loaded THEN [w.hd[b] EXCEPT !.nlink = w.links[b]] ELSE w.hd[b]]

\* main of fsck -F, with -s only when the super block says dirty: check_file
\* of the root, check_nlink, check_bam, mark_clean.
Fsck(sflag) ==
    LET w == CheckFile(Start, Root)
    IN  /\ phase = "unmounted"
        /\ checks < MaxFsck
        /\ sflag => ~clean
        /\ checks' = checks + 1
        /\ media' = LinksFixed(w)
        /\ blk' = LinksFixed(w)
        /\ bamMedia' = w.used
        /\ bamBlk' = w.used
        /\ clean' = TRUE
        /\ harm' = {}
        /\ unfixed' = (unfixed \/ w.bad)
        /\ UNCHANGED <<phase, bam, refs, core, mounts>>

FsckInit == Init /\ checks = 0 /\ unfixed = FALSE

FsckNext ==
    \/ Next /\ ~unfixed /\ UNCHANGED <<checks, unfixed>>
    \/ \E sflag \in BOOLEAN : Fsck(sflag)

FsckSpec == FsckInit /\ [][FsckNext]_fsckVars

\* What fsck repairs is repaired: unless it said `cannot fix', a medium it has
\* marked clean is consistent, however calls, evictions and power failures
\* have left it; and stays so until the next failure.
FsckRepairs ==
    phase = "unmounted" /\ clean /\ harm = {} /\ ~unfixed => Consistent(media, bamMedia)

=============================================================================
