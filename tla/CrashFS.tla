------------------------------ MODULE CrashFS ------------------------------
(***************************************************************************)
(* Files of a POSIX file system as a program that must survive power loss  *)
(* sees them, the semantics maki-test-support CrashableBacking gives them. *)
(*                                                                         *)
(* A file is a sequence of cells.  Reads return the page cache.  What a    *)
(* power loss leaves is kept as the set of possibilities:                  *)
(*                                                                         *)
(*   data      the cells a read returns                                    *)
(*   opts[j]   the contents cell j may have on the disk                    *)
(*   lens      the lengths the file may have on the disk                   *)
(*   dirty     the cells the next successful sync will write               *)
(*   lenDirty  whether the next successful sync will write the length      *)
(*   name      whether the directory entry is visible                      *)
(*   names     whether it may be there after a power loss                  *)
(*                                                                         *)
(* A failed sync leaves everything clean without saying what reached the   *)
(* disk: a later sync of the same file then succeeds and writes nothing.   *)
(***************************************************************************)
EXTENDS Outcomes, Integers, Sequences, FiniteSets

CONSTANT MaxLen   \* bound on the length of a file, in cells

ASSUME MaxLenAssumption == MaxLen \in Nat \ {0}

Pos == 1..MaxLen

\* A cell that was never written, and one that was written half.
Zero == [k |-> "zero"]
Torn == [k |-> "torn"]

\* A file whose content cells is certain.
Settled(cells) ==
    [data |-> cells,
     opts |-> [j \in Pos |-> IF j <= Len(cells) THEN {cells[j]} ELSE {Zero}],
     lens |-> {Len(cells)}, dirty |-> {}, lenDirty |-> FALSE,
     name |-> TRUE, names |-> {TRUE}]

NoFile == [Settled(<< >>) EXCEPT !.name = FALSE, !.names = {FALSE}]

\* set_len and allocate_range: a file that grows is filled with zeros.
SetLen(f, n) ==
    LET old == Len(f.data)
    IN  [f EXCEPT !.data = [j \in 1..n |-> IF j <= old THEN f.data[j] ELSE Zero],
                  !.opts = [j \in Pos |-> f.opts[j] \cup (IF old < j /\ j <= n THEN {Zero} ELSE {})],
                  !.lens = @ \cup {n} \cup (old + 1)..n,
                  !.dirty = (@ \cap (1..n)) \cup ((old + 1)..n),
                  !.lenDirty = TRUE]

\* write_at inside the file: the cells after the first `at`.
WriteAt(f, at, cells) ==
    LET hit(j) == at < j /\ j <= at + Len(cells)
    IN  [f EXCEPT !.data = [j \in DOMAIN f.data |-> IF hit(j) THEN cells[j - at] ELSE f.data[j]],
                  !.opts = [j \in Pos |-> IF hit(j) THEN f.opts[j] \cup {cells[j - at]} ELSE f.opts[j]],
                  !.dirty = @ \cup (at + 1)..(at + Len(cells))]

\* sync_data that succeeds: what is dirty is now certain, the rest is as before.
Synced(f) ==
    [f EXCEPT !.opts = [j \in Pos |-> IF j \in f.dirty THEN {f.data[j]}
                                      ELSE IF f.lenDirty /\ j > Len(f.data) THEN {Zero}
                                      ELSE f.opts[j]],
              !.lens = IF f.lenDirty THEN {Len(f.data)} ELSE @,
              !.dirty = {}, !.lenDirty = FALSE]

\* sync_data that fails.
SyncFailed(f) == [f EXCEPT !.dirty = {}, !.lenDirty = FALSE]

\* open with create, and remove.  A name whose removal was not synced may
\* still bring back the old file.
Created(f) ==
    IF f.name THEN f
    ELSE [f EXCEPT !.data = << >>, !.lens = @ \cup {0}, !.dirty = {}, !.lenDirty = TRUE,
                   !.name = TRUE, !.names = @ \cup {TRUE}]

Removed(f) == [f EXCEPT !.name = FALSE, !.names = @ \cup {FALSE}]

\* sync_dir, for one entry of the directory.
DirSynced(f) == IF f.name THEN [f EXCEPT !.names = {TRUE}] ELSE NoFile

\* What may be in cell j: the cells that were never settled may be torn.
Surviving(f, j) == f.opts[j] \cup (IF Cardinality(f.opts[j]) > 1 THEN {Torn} ELSE {})

\* The sequences of n cells of which cell j is one of opts[j].
Rows(n, opts) ==
    LET go[j \in 0..n] == IF j = 0 THEN {<< >>} ELSE {Append(s, c) : s \in go[j - 1], c \in opts[j]}
    IN  go[n]

\* The cell sequences f may have on the disk, for one of its lengths n.
Contents(f, n) == Rows(n, [j \in 1..n |-> Surviving(f, j)])

\* The files a power loss may leave in place of f.
Survivors(f) ==
    (IF TRUE \in f.names THEN {Settled(s) : s \in UNION {Contents(f, n) : n \in f.lens}} ELSE {})
    \cup (IF FALSE \in f.names THEN {NoFile} ELSE {})

\* The page cache drops its clean cells: the next read sees the disk.
Stale(f) == {j \in 1..Len(f.data) : j \notin f.dirty /\ f.opts[j] # {f.data[j]}}

Evicted(f) ==
    LET stale == Stale(f)
        n == Len(f.data)
    IN  {[f EXCEPT !.data = s,
                   !.opts = [j \in Pos |-> IF j \in stale THEN {s[j]} ELSE f.opts[j]]] :
           s \in Rows(n, [j \in 1..n |-> IF j \in stale THEN Surviving(f, j) ELSE {f.data[j]}])}
=============================================================================
