------------------------------ MODULE BlockStore ------------------------------
(***************************************************************************)
(* What the block cache of src/kern/block.c promises its clients: a store  *)
(* of blocks.  A block reads as it was written last.  Blocks reach the     *)
(* media at times of the cache's choice, and until then a power failure    *)
(* takes them back to what the medium holds; a write the device refused    *)
(* may be forgotten at any time, until the block is written as a whole.    *)
(***************************************************************************)
EXTENDS Integers

CONSTANTS Addr,     \* blocks: device and number
          Part, Val

VARIABLES content,  \* what a reader sees
          latest,   \* what the clients wrote last
          stable,   \* what the media hold
          refused   \* blocks a device refused

sVars == <<content, latest, stable, refused>>

\* Some blocks reach the media.
Settle ==
    \E done \in SUBSET Addr :
        stable' = [x \in Addr |-> IF x \in done THEN content[x] ELSE stable[x]]

\* Refused blocks `gone' read as the medium has them.
Forget(gone) == [x \in Addr |-> IF x \in gone THEN stable'[x] ELSE content[x]]

\* The blocks `bad' are refused, blocks refused now or earlier are forgotten.
WriteBack ==
    /\ Settle
    /\ UNCHANGED latest
    /\ \E bad \in SUBSET Addr :
          /\ refused' = refused \cup bad
          /\ \E gone \in SUBSET (refused \cup bad) : content' = Forget(gone)

Changed(f, x, P, v) == [f EXCEPT ![x] = [p \in Part |-> IF p \in P THEN v ELSE @[p]]]

\* A client writes v to the parts P of block x, and others are written back.
Write(x, P, v) ==
    /\ Settle
    /\ latest' = Changed(latest, x, P, v)
    /\ \E bad \in SUBSET Addr :
          /\ refused' = IF P = Part THEN (refused \cup bad) \ {x}
                        ELSE refused \cup bad
          /\ \E gone \in SUBSET (refused \cup bad) :
                content' = Changed(Forget(gone), x, P, v)

PowerFailure ==
    /\ content' = stable
    /\ latest' = stable
    /\ refused' = {}
    /\ UNCHANGED stable

\* Another medium in the drive of some blocks, which all are on their medium
\* or refused.
Exchange(X, data) ==
    /\ \A x \in X \ refused : content[x] = stable[x]
    /\ stable' = [x \in Addr |-> IF x \in X THEN data ELSE stable[x]]
    /\ content' = [x \in Addr |-> IF x \in X THEN data ELSE content[x]]
    /\ latest' = [x \in Addr |-> IF x \in X THEN data ELSE latest[x]]
    /\ refused' = refused \ X

SInit == content = stable /\ latest = stable /\ refused = {}

SNext ==
    \/ WriteBack
    \/ \E x \in Addr, P \in SUBSET Part, v \in Val : Write(x, P, v)
    \/ PowerFailure
    \/ \E X \in SUBSET Addr, data \in [Part -> Val] : Exchange(X, data)

SSpec == SInit /\ [][SNext]_sVars
=============================================================================
