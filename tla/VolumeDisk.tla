----------------------------- MODULE VolumeDisk -----------------------------
(* The volume of libnagi/src/storage.rs as data: what its sectors hold,    *)
(* the sector writes each call of Vfs makes, and check_vfs_integrity.  It  *)
(* is ext2-like: one bitmap and one table of inodes, files with direct     *)
(* blocks and one indirect block, directories of one block.                *)
(*                                                                         *)
(* Bytes are cells that are zero or not.  A directory is a row of slots in *)
(* two sectors.  Records have lengths of their own in the code: what a     *)
(* write that adds or moves records leaves between its two sectors is the  *)
(* worst that lengths allow, a row that cannot be walked.  A bitmap, an    *)
(* inode, the counts and the used part of a table lie in one sector.       *)
(* Owners, permissions and times are left out, and so are device errors.   *)
EXTENDS Integers, Sequences, FiniteSets, SequencesExt

CONSTANTS
  Names,              \* file and directory names
  NoName,
  INODES,             \* EXT2_INODE_COUNT, with the root as inode 1
  BLOCKS,             \* EXT2_BLOCK_COUNT, with the root directory as block 1
  DIRECT_BLOCKS, INDIRECT_POINTERS,
  CELLS,              \* BLOCK_SIZE
  SLOTS,              \* records in a directory block
  FIRST_SECTOR        \* of which so many lie in its first sector

ASSUME VolumeConstants ==
  /\ {INODES, BLOCKS, DIRECT_BLOCKS, INDIRECT_POINTERS, CELLS, SLOTS} \subseteq Nat \ {0}
  /\ FIRST_SECTOR \in 1..SLOTS
  /\ NoName \notin Names

ROOT_INODE == 1
ROOT_DIRECTORY_BLOCK == 1
FileInodes == 2..INODES
DataBlocks == 2..BLOCKS
MAX_BLOCKS == DIRECT_BLOCKS + INDIRECT_POINTERS
MAX_FILE_SIZE == MAX_BLOCKS * CELLS
Slot == 1..SLOTS
Bad == -1      \* a pointer outside the data area

----------------------------------------------------------------------------
(* What a block holds: cells, a table of pointers or a directory. *)

Zero == [as |-> "data", cell |-> [j \in 0..CELLS-1 |-> 0]]
ZeroTable == [k \in 0..INDIRECT_POINTERS-1 |-> 0]

(* A directory record: live, free, the free rest of the block, or bytes no *)
(* record has been written over.                                           *)
Record(rec, n, i) == [rec |-> rec, name |-> n, inode |-> i]
Live(n, i) == Record("live", n, i)
Free == Record("free", NoName, 0)
Rest == Record("rest", NoName, 0)
Unwritten == Record("zeros", NoName, 0)

EmptyDirectory(parent) ==
  [as |-> "dir", up |-> parent, slot |-> [s \in Slot |-> IF s = 1 THEN Rest ELSE Unwritten]]

NoInode(g) == [mode |-> "none", size |-> 0, blocks |-> 0,
               direct |-> [k \in 0..DIRECT_BLOCKS-1 |-> 0], indirect |-> 0, gen |-> g]

NewInode(mode, b, g) ==
  [NoInode(g) EXCEPT !.mode = mode, !.direct[0] = b,
                     !.size = IF mode = "dir" THEN CELLS ELSE 0,
                     !.blocks = IF mode = "dir" THEN 1 ELSE 0]

Blank ==
  [magic |-> FALSE, super |-> <<0, 0>>, group |-> <<0, 0>>, bbits |-> {}, ibits |-> {},
   inode |-> [i \in 1..INODES |-> NoInode(0)], block |-> [b \in 1..BLOCKS |-> Zero]]

MinOf(S) == CHOOSE m \in S : \A k \in S : m <= k

(* A walk reads record after record until the one that ends the block; it  *)
(* is Corrupt if it meets bytes that are no record.                        *)
Before(c, s) == \A t \in 1..s-1 : c.slot[t].rec \in {"live", "free"}
WellFormed(c) == c.as = "dir" /\ \A s \in Slot : Before(c, s) => c.slot[s].rec # "zeros"

Entries(c) == IF c.as # "dir" THEN {} ELSE {s \in Slot : c.slot[s].rec = "live" /\ Before(c, s)}

(* find_directory_entry_in_block and find_inode_in_directory: the slot of  *)
(* the first match, 0 if there is none, Bad if the walk is Corrupt.        *)
Find(c, n) ==
  IF c.as # "dir" THEN Bad
  ELSE LET hits == {s \in Slot : c.slot[s].name = n /\ s \in Entries(c)}
       IN IF hits # {} THEN MinOf(hits) ELSE IF WellFormed(c) THEN 0 ELSE Bad

IsDirectory(d, i) == d.inode[i].mode = "dir" /\ d.inode[i].direct[0] # 0

DirectoryOf(d, i) == d.block[d.inode[i].direct[0]]

(* resolve_path and resolve_parent_path, for paths of one or two names:    *)
(* the directories a call can find, and the inode a name in one leads to.  *)
Lookup(d, p, n) ==
  IF ~IsDirectory(d, p) THEN 0
  ELSE LET c == DirectoryOf(d, p)
           s == Find(c, n)
       IN IF s \in Slot THEN c.slot[s].inode ELSE 0

Parents(d) ==
  {p \in 1..INODES : /\ IsDirectory(d, p)
                     /\ \/ p = ROOT_INODE
                        \/ \E n \in Names : Lookup(d, ROOT_INODE, n) = p}

(* open, open_path and handle_for: the files a handle can be had for. *)
IsFile(d, i) == d.inode[i].mode = "file" /\ d.inode[i].direct[0] # 0

Named(d) == {i \in FileInodes : IsFile(d, i) /\ \E p \in Parents(d), n \in Names : Lookup(d, p, n) = i}

data_blocks_for_size(size) == IF size = 0 THEN 1 ELSE (size + CELLS - 1) \div CELLS

(* The pointers an indirect block holds; cells read as pointers are in no  *)
(* data area unless they are zero.                                         *)
TableOf(c) ==
  CASE c.as = "table" -> c.pointer
    [] c = Zero -> ZeroTable
    [] OTHER -> [k \in 0..INDIRECT_POINTERS-1 |-> Bad]

(* Data block k of a file, 0 if it is not allocated. *)
file_block(d, ino, k) ==
  IF k < DIRECT_BLOCKS THEN ino.direct[k]
  ELSE IF ino.indirect = 0 THEN 0
  ELSE TableOf(d.block[ino.indirect])[k - DIRECT_BLOCKS]

(* A cell of a block; what is left of a table or a directory is not zero. *)
CellOf(c, j) == IF c.as = "data" THEN c.cell[j] ELSE 1

(* copy_file_range: the cells of a file, if all of them can be read. *)
Readable(d, ino) == \A k \in 0..data_blocks_for_size(ino.size)-1 : file_block(d, ino, k) \in DataBlocks
Content(d, ino) ==
  [p \in 0..ino.size-1 |-> CellOf(d.block[file_block(d, ino, p \div CELLS)], p % CELLS)]

----------------------------------------------------------------------------
(* A call is a sequence of sector writes: the disk after each of them, and *)
(* what is left if power is lost just before it.                           *)

Write(d, risk) == [disk |-> d, risk |-> risk]
Writes(ds, risk) == [k \in DOMAIN ds |-> Write(ds[k], risk)]

After(d, ws) == IF ws = <<>> THEN d ELSE ws[Len(ws)].disk

(* write_block of a directory writes its first sector, then its second.    *)
(* Here records stay where they are and change their inodes.               *)
Halves(d, b, c) ==
  LET old == d.block[b]
      half == [old EXCEPT !.slot = [s \in Slot |-> IF s <= FIRST_SECTOR THEN c.slot[s] ELSE @[s]]]
  IN IF half \in {old, c} THEN <<Write([d EXCEPT !.block[b] = c], "leak")>>
     ELSE <<Write([d EXCEPT !.block[b] = half], "leak"), Write([d EXCEPT !.block[b] = c], "swap")>>

(* Here records move, are split or get another name.  The length of one in *)
(* the first sector may lead into the middle of one in the second, so that *)
(* a cut between them can lose every record of the block.                  *)
Torn(c) == [c EXCEPT !.slot = [s \in Slot |-> Unwritten]]
Rewritten(d, b, c) ==
  <<Write([d EXCEPT !.block[b] = Torn(c)], "leak"), Write([d EXCEPT !.block[b] = c], "tear")>>

(* allocate_bit takes the lowest clear bit. *)
Lowest(S) == IF S = {} THEN 0 ELSE MinOf(S)
FreeInode(d) == Lowest(FileInodes \ d.ibits)

(* Mutant: the bitmap is not consulted. *)
FirstBlockAgain(d) == Lowest(DataBlocks)

FreeBlock(d) == Lowest(DataBlocks \ d.bbits)

(* clear_bit for one block after another. *)
ClearBlocks(d, bs, risk) ==
  [k \in DOMAIN bs |-> Write([d EXCEPT !.bbits = @ \ {bs[j] : j \in 1..k}], risk)]

(* adjust_free_counts: the superblock, then the group descriptor; a count  *)
(* that would drop below zero is Corrupt.                                  *)
Adjusted(counts, b, i) == <<counts[1] + b, counts[2] + i>>
NotNegative(counts) == counts[1] >= 0 /\ counts[2] >= 0
CountsFit(d, b, i) == NotNegative(Adjusted(d.super, b, i)) /\ NotNegative(Adjusted(d.group, b, i))
adjust_free_counts(d, b, i, risk) ==
  LET d1 == [d EXCEPT !.super = Adjusted(@, b, i)]
      d2 == [d1 EXCEPT !.group = Adjusted(@, b, i)]
  IN IF ~NotNegative(d1.super) THEN <<>>
     ELSE IF ~NotNegative(d2.group) THEN <<Write(d1, risk)>>
     ELSE <<Write(d1, risk), Write(d2, risk)>>

(* add_directory_entry_in_directory: the first free record is taken; the   *)
(* free rest of the block is split.                                        *)
FreeSlot(c) == Lowest({s \in Slot : c.slot[s].rec \in {"free", "rest"} /\ Before(c, s)})
WithEntry(c, n, i) ==
  LET s == FreeSlot(c)
      split == c.slot[s].rec = "rest" /\ s < SLOTS
  IN [c EXCEPT !.slot = [t \in Slot |-> IF t = s THEN Live(n, i)
                                        ELSE IF split /\ t = s + 1 THEN Rest ELSE @[t]]]

(* Mutant: the slot keeps the generation of its last file. *)
SameGeneration(g) == IF g < 2 THEN 2 ELSE g

next_generation(g) == IF g < 2 THEN 2 ELSE g + 1

(* create_in_directory and mkdir_in_directory. *)
Make(d, p, n, mode) ==
  LET i == FreeInode(d)
      b == FreeBlock(d)
      parent == d.inode[p].direct[0]
      d1 == [d EXCEPT !.ibits = @ \cup {i}]
      d2 == [d1 EXCEPT !.bbits = @ \cup {b}]
      d3 == [d2 EXCEPT !.inode[i] = NewInode(mode, b, next_generation(@.gen))]
      d4 == IF mode = "dir" THEN [d3 EXCEPT !.block[b] = EmptyDirectory(p)] ELSE d3
      made == Writes(IF mode = "dir" THEN <<d1, d2, d3, d4>> ELSE <<d1, d2, d3>>, "leak")
      entry == Rewritten(d4, parent, WithEntry(d4.block[parent], n, i))
      undone == [d4 EXCEPT !.ibits = @ \ {i}]
  IN IF b = 0 THEN Writes(<<d1, d>>, "leak")
     ELSE IF FreeSlot(d4.block[parent]) = 0
          THEN made \o Writes(<<undone, [undone EXCEPT !.bbits = @ \ {b}]>>, "leak")
     ELSE made \o entry \o adjust_free_counts(After(d4, entry), -1, -1, "leak")

(* Mutant: the indirect block is not released with the data. *)
DataBlocksOnly(d, ino) ==
  SelectSeq([k \in 1..data_blocks_for_size(ino.size) |-> file_block(d, ino, k - 1)], LAMBDA b : b \in DataBlocks)

(* release_inode_blocks and free_file_blocks: the blocks of an inode, up   *)
(* to the first pointer that is Corrupt.                                   *)
BlocksOf(d, ino) ==
  LET count == data_blocks_for_size(ino.size)
      bad == {k \in 0..count-1 : file_block(d, ino, k) = Bad}
      last == IF bad = {} THEN count - 1 ELSE MinOf(bad) - 1
      data == [k \in 1..last+1 |-> file_block(d, ino, k - 1)]
  IN IF ino.mode = "dir" THEN <<ino.direct[0]>>
     ELSE SelectSeq(IF bad = {} THEN Append(data, ino.indirect) ELSE data, LAMBDA b : b # 0)

AllReadable(d, ino) ==
  ino.mode = "file" => \A k \in 0..data_blocks_for_size(ino.size)-1 : file_block(d, ino, k) # Bad

(* What remove and replace do once inode i has lost its name: its bit, its *)
(* blocks, clear_inode and the counts.                                     *)
Release(d, i) ==
  LET ino == d.inode[i]
      bs == BlocksOf(d, ino)
      d1 == [d EXCEPT !.ibits = @ \ {i}]
      freed == ClearBlocks(d1, bs, "leak")
      d2 == [After(d1, freed) EXCEPT !.inode[i] = NoInode(ino.gen)]
  IN IF ~AllReadable(d, ino) THEN <<Write(d1, "leak")>> \o freed
     ELSE <<Write(d1, "leak")>> \o freed \o <<Write(d2, "leak")>>
            \o adjust_free_counts(d2, Len(bs), 1, "leak")

(* Mutant: the inode is released before its record is freed. *)
UnlinkAfterRelease(d, p, n) ==
  LET b == d.inode[p].direct[0]
      s == Find(d.block[b], n)
      released == Release(d, d.block[b].slot[s].inode)
  IN released \o <<Write([After(d, released) EXCEPT !.block[b].slot[s] = Free], "leak")>>

(* remove, remove_path and rmdir_path. *)
Unlink(d, p, n) ==
  LET b == d.inode[p].direct[0]
      s == Find(d.block[b], n)
      d1 == [d EXCEPT !.block[b].slot[s] = Free]
  IN <<Write(d1, "leak")>> \o Release(d1, d.block[b].slot[s].inode)

(* Mutant: the destination is removed, then the source renamed. *)
ReplaceWithGap(d, src, dst) ==
  LET removed == Unlink(d, ROOT_INODE, dst)
      e == After(d, removed)
      c == e.block[ROOT_DIRECTORY_BLOCK]
      moved == [e EXCEPT !.block[ROOT_DIRECTORY_BLOCK].slot[Find(c, src)].name = dst]
  IN Append(removed, Write(moved, "leak"))

(* replace: the destination's record takes the source's inode, the         *)
(* source's record is freed, the destination's old inode is released.      *)
Replace(d, src, dst) ==
  LET b == ROOT_DIRECTORY_BLOCK
      c == d.block[b]
      s == Find(c, src)
      t == Find(c, dst)
      swapped == Halves(d, b, [c EXCEPT !.slot[t].inode = c.slot[s].inode, !.slot[s] = Free])
  IN swapped \o Release(After(d, swapped), c.slot[t].inode)

(* rename_child_inode: the live records are packed at the front, each as   *)
(* long as its name.                                                       *)
Renamed(c, old, new) ==
  LET order == SetToSortSeq(Entries(c), <)
      live == [k \in DOMAIN order |-> c.slot[order[k]]]
      packed == [k \in DOMAIN live |-> IF live[k].name = old THEN Live(new, live[k].inode)
                                       ELSE live[k]]
  IN [c EXCEPT !.slot = [s \in Slot |-> IF s <= Len(packed) THEN packed[s]
                                        ELSE IF s = Len(packed) + 1 THEN Rest ELSE Unwritten]]

Rename(d, p, old, new) == LET b == d.inode[p].direct[0] IN Rewritten(d, b, Renamed(d.block[b], old, new))

----------------------------------------------------------------------------
(* File data. *)

(* set_file_pointer, in the inode or in the indirect block's table. *)
WithPointers(ino, from, to, b(_)) ==
  [ino EXCEPT !.direct = [k \in DOMAIN @ |-> IF k \in from..to-1 THEN b(k) ELSE @[k]]]
TableWith(table, from, to, b(_)) ==
  [j \in DOMAIN table |-> IF j + DIRECT_BLOCKS \in from..to-1 THEN b(j + DIRECT_BLOCKS) ELSE table[j]]

TableFor(d, ino) == IF ino.indirect = 0 THEN ZeroTable ELSE TableOf(d.block[ino.indirect])

(* What a part of a data call comes to: its writes, the inode it leaves in *)
(* memory, and whether it succeeded.                                       *)
Outcome(ws, ino, ok) == [writes |-> ws, inode |-> ino, ok |-> ok]

Sized(ino, needed) ==
  [ino EXCEPT !.blocks = needed + (IF ino.indirect # 0 THEN 1 ELSE 0)]

(* Growing takes blocks one by one and zeroes them; if they run out, the   *)
(* ones taken are given back.                                              *)
Grow(d, ino, current, needed) ==
  LET free == SetToSortSeq(DataBlocks \ d.bbits, <)
      extra == IF needed > DIRECT_BLOCKS /\ ino.indirect = 0 THEN 1 ELSE 0
      wanted == needed - current
      taken == IF Len(free) - extra < wanted THEN Len(free) - extra ELSE wanted
      Bits(k) == {free[j] : j \in 1..k}
      Block(k) == free[extra + 1 + k - current]
      Taking(j) == [d EXCEPT !.bbits = @ \cup Bits(extra + (j + 1) \div 2),
                             !.block = [b \in DOMAIN @ |->
                                IF b \in Bits(extra + j \div 2) \ Bits(extra) THEN Zero ELSE @[b]]]
      start == IF extra = 1 THEN <<Write([d EXCEPT !.bbits = @ \cup Bits(1)], "leak")>> ELSE <<>>
      steps == start \o [j \in 1..2*taken |-> Write(Taking(j), "leak")]
      d1 == After(d, steps)
      undo == ClearBlocks(d1, SubSeq(free, extra + 1, extra + taken) \o SubSeq(free, 1, extra), "leak")
      grown == [WithPointers(ino, current, needed, Block) EXCEPT
                  !.indirect = IF extra = 1 THEN free[1] ELSE @]
      table == TableWith(TableFor(d, ino), current, needed, Block)
      d2 == IF needed > DIRECT_BLOCKS
            THEN [d1 EXCEPT !.block[grown.indirect] = [as |-> "table", pointer |-> table]] ELSE d1
      counts == adjust_free_counts(d2, -(wanted + extra), 0, "leak")
  IN IF free = <<>> THEN Outcome(<<>>, ino, FALSE)
     ELSE IF taken < wanted THEN Outcome(steps \o undo, ino, FALSE)
     ELSE Outcome(steps \o (IF d2 = d1 THEN <<>> ELSE <<Write(d2, "leak")>>) \o counts,
                  Sized(grown, needed), CountsFit(d2, -(wanted + extra), 0))

(* Shrinking clears the bits of the blocks before the inode forgets them. *)
Shrink(d, ino, current, needed) ==
  LET gone == [k \in 1..current-needed |-> file_block(d, ino, needed + k - 1)]
      bad == {k \in DOMAIN gone : gone[k] = Bad}
      drops == needed <= DIRECT_BLOCKS /\ ino.indirect # 0
      data == SelectSeq(IF bad = {} THEN gone ELSE SubSeq(gone, 1, MinOf(bad) - 1), LAMBDA b : b # 0)
      cleared == IF drops /\ bad = {} THEN Append(data, ino.indirect) ELSE data
      steps == ClearBlocks(d, cleared, "shrink")
      Nil(k) == 0
      cut == WithPointers(ino, needed, current, Nil)
      shrunk == IF drops THEN [cut EXCEPT !.indirect = 0] ELSE cut
      d1 == After(d, steps)
      d2 == IF shrunk.indirect = 0 THEN d1
            ELSE [d1 EXCEPT !.block[ino.indirect] =
                    [as |-> "table", pointer |-> TableWith(TableFor(d, ino), needed, current, Nil)]]
      counts == adjust_free_counts(d2, Len(cleared), 0, "shrink")
  IN IF bad # {} THEN Outcome(steps, ino, FALSE)
     ELSE Outcome(steps \o (IF d2 = d1 THEN <<>> ELSE <<Write(d2, "shrink")>>) \o counts,
                  Sized(shrunk, needed), CountsFit(d2, Len(cleared), 0))

resize_file_blocks(d, ino, current, needed) ==
  IF needed > current THEN Grow(d, ino, current, needed)
  ELSE IF needed < current THEN Shrink(d, ino, current, needed)
  ELSE Outcome(<<>>, Sized(ino, needed), TRUE)

(* store_file_range: one block after another, up to a pointer that is not  *)
(* allocated or Corrupt.                                                   *)
Stored(c, k, from, to) ==
  [as |-> "data", cell |-> [j \in 0..CELLS-1 |-> IF k * CELLS + j \in from..to-1 THEN 1 ELSE CellOf(c, j)]]

store_file_range(d, ino, from, to, risk) ==
  LET Step(r, k) ==
        LET now == After(d, r.writes)
            b == file_block(now, ino, k)
        IN IF ~r.ok \/ b \notin DataBlocks THEN [r EXCEPT !.ok = FALSE]
           ELSE [r EXCEPT !.writes = Append(@, Write([now EXCEPT !.block[b] = Stored(@, k, from, to)], risk))]
      touched == [k \in 1..data_blocks_for_size(to) - from \div CELLS |-> from \div CELLS + k - 1]
  IN FoldLeft(Step, Outcome(<<>>, ino, TRUE), IF from = to THEN <<>> ELSE touched)

(* Mutant: the old cells stay after the new end. *)
LeavePastEnd(d, ino, end, risk) == Outcome(<<>>, ino, TRUE)

(* clear_past_end: the cells after the new end, in its block. *)
clear_past_end(d, ino, end, risk) ==
  LET b == file_block(d, ino, end \div CELLS)
      cleared == [d EXCEPT !.block[b] = [as |-> "data", cell |->
                    [j \in 0..CELLS-1 |-> IF j >= end % CELLS THEN 0 ELSE CellOf(d.block[b], j)]]]
  IN IF (end # 0 /\ end % CELLS = 0) \/ b = 0 THEN Outcome(<<>>, ino, TRUE)
     ELSE IF b = Bad THEN Outcome(<<>>, ino, FALSE)
     ELSE Outcome(<<Write(cleared, risk)>>, ino, TRUE)

(* The end of write, write_at and truncate: the inode is written last. *)
Finished(d, r, i, size, risk) ==
  IF ~r.ok THEN r.writes
  ELSE Append(r.writes, Write([After(d, r.writes) EXCEPT !.inode[i] = [r.inode EXCEPT !.size = size]], risk))

(* One part of a call after another, the second with what the first left. *)
Then(d, r, F(_, _)) ==
  LET q == F(After(d, r.writes), r.inode)
  IN IF r.ok THEN Outcome(r.writes \o q.writes, q.inode, q.ok) ELSE r

(* write: the whole contents become n cells. *)
WriteFile(d, i, n) ==
  LET current == data_blocks_for_size(d.inode[i].size)
      needed == data_blocks_for_size(n)
      risk == IF needed < current THEN "shrink" ELSE "leak"
      Store(e, ino) == store_file_range(e, ino, 0, n, risk)
      Clear(e, ino) == clear_past_end(e, ino, n, risk)
      sized == resize_file_blocks(d, d.inode[i], current, needed)
  IN Finished(d, Then(d, Then(d, sized, Store), Clear), i, n, risk)

(* write_at: cells from..to-1, growing the file as needed. *)
WriteAt(d, i, from, to) ==
  LET size == d.inode[i].size
      new == IF to > size THEN to ELSE size
      current == data_blocks_for_size(size)
      needed == data_blocks_for_size(new)
      sized == IF needed > current THEN resize_file_blocks(d, d.inode[i], current, needed)
               ELSE Outcome(<<>>, d.inode[i], TRUE)
      Store(e, ino) == store_file_range(e, ino, from, to, "leak")
  IN Finished(d, Then(d, sized, Store), i, new, "leak")

(* truncate. *)
Truncate(d, i, n) ==
  LET size == d.inode[i].size
      current == data_blocks_for_size(size)
      needed == data_blocks_for_size(n)
      risk == IF needed < current THEN "shrink" ELSE "leak"
      cleared == IF n < size THEN clear_past_end(d, d.inode[i], n, "leak")
                 ELSE Outcome(<<>>, d.inode[i], TRUE)
      Resize(e, ino) == resize_file_blocks(e, ino, current, needed)
  IN Finished(d, Then(d, cleared, Resize), i, n, risk)

(* format. *)
Format(d) ==
  LET d1 == [d EXCEPT !.magic = TRUE, !.super = <<BLOCKS - 1, INODES - 1>>]
      d2 == [d1 EXCEPT !.group = <<BLOCKS - 1, INODES - 1>>]
      d3 == [d2 EXCEPT !.bbits = {ROOT_DIRECTORY_BLOCK}]
      d4 == [d3 EXCEPT !.ibits = {ROOT_INODE}]
      d5 == [d4 EXCEPT !.inode[ROOT_INODE] = NewInode("dir", ROOT_DIRECTORY_BLOCK, 0)]
      d6 == [d5 EXCEPT !.block[ROOT_DIRECTORY_BLOCK] = EmptyDirectory(ROOT_INODE)]
  IN Writes(<<d1, d2, d3, d4, d5, d6>>, "format")

----------------------------------------------------------------------------
(* check_vfs_integrity. *)

Claimed(d, i) ==
  LET ino == d.inode[i]
      count == data_blocks_for_size(ino.size)
  IN IF ino.mode = "dir" THEN <<ino.direct[0]>>
     ELSE [k \in 1..count |-> file_block(d, ino, k - 1)]
            \o (IF count > DIRECT_BLOCKS THEN <<ino.indirect>> ELSE <<>>)

(* Every block an allocated inode claims is allocated and claimed once. *)
ClaimsHold(d, inodes) ==
  /\ \A i \in inodes : LET bs == Claimed(d, i) IN
       IsInjective(bs) /\ Range(bs) \subseteq DataBlocks \cap d.bbits
  /\ \A i, j \in inodes : i # j => Range(Claimed(d, i)) \cap Range(Claimed(d, j)) = {}

UnusedPointersClear(d, i) ==
  LET ino == d.inode[i]
      count == IF ino.mode = "dir" THEN 1 ELSE data_blocks_for_size(ino.size)
  IN /\ \A k \in DOMAIN ino.direct : k >= count => ino.direct[k] = 0
     /\ count <= DIRECT_BLOCKS => ino.indirect = 0
     /\ \A k \in count..MAX_BLOCKS-1 : k >= DIRECT_BLOCKS => file_block(d, ino, k) = 0

SectorsRecorded(d, i) ==
  LET ino == d.inode[i]
      count == data_blocks_for_size(ino.size)
  IN \/ ino.blocks = count + (IF count > DIRECT_BLOCKS THEN 1 ELSE 0)
     \/ ino.blocks = 0 /\ ino.size = 0

(* The records of every directory are well formed and name allocated       *)
(* inodes, each inode other than the root once, its parent being the       *)
(* directory that names it, and every chain of parents ends at the root.   *)
EntriesOf(d) ==
  {<<p, s>> \in d.ibits \X Slot : d.inode[p].mode = "dir" /\ s \in Entries(DirectoryOf(d, p))}
Target(d, e) == DirectoryOf(d, e[1]).slot[e[2]].inode
NameAt(d, e) == DirectoryOf(d, e[1]).slot[e[2]].name

TreeHolds(d) ==
  LET es == EntriesOf(d) IN
  /\ \A p \in d.ibits : d.inode[p].mode = "dir" => WellFormed(DirectoryOf(d, p))
  /\ \A e \in es : Target(d, e) \in d.ibits \ {ROOT_INODE}
  /\ \A e, f \in es : e # f => /\ Target(d, e) # Target(d, f)
                               /\ e[1] = f[1] => NameAt(d, e) # NameAt(d, f)
  /\ \A i \in d.ibits \ {ROOT_INODE} : \E e \in es :
       Target(d, e) = i /\ (d.inode[i].mode = "dir" => DirectoryOf(d, i).up = e[1])
  /\ \A S \in SUBSET (d.ibits \ {ROOT_INODE}) :
       S # {} => \E e \in es : Target(d, e) \in S /\ e[1] \notin S

CountsHold(d) == LET free == <<BLOCKS - Cardinality(d.bbits), INODES - Cardinality(d.ibits)>>
                 IN d.super = free /\ d.group = free

Sound(d) ==
  LET inodes == d.ibits \ {ROOT_INODE} IN
  /\ ROOT_INODE \in d.ibits /\ ROOT_DIRECTORY_BLOCK \in d.bbits
  /\ CountsHold(d)
  /\ \A i \in d.ibits : d.inode[i].mode # "none"
  /\ ClaimsHold(d, inodes)
  /\ \A i \in inodes : UnusedPointersClear(d, i)
  /\ TreeHolds(d)
  /\ d.bbits \ {ROOT_DIRECTORY_BLOCK} = UNION {Range(Claimed(d, i)) : i \in inodes}

check_vfs_integrity(d) == Sound(d) /\ \A i \in d.ibits : SectorsRecorded(d, i)
=============================================================================
