------------------------------- MODULE Volume -------------------------------
(* Vfs of libnagi/src/storage.rs.  A call is a list of sector writes       *)
(* worked out from the disk it finds (VolumeDisk).  Power may be lost      *)
(* between any two of them, and nothing repairs the volume afterwards.     *)
EXTENDS VolumeDisk

CONSTANTS
  Lengths,            \* bound: the sizes and offsets calls ask for
  MAX_CREATED,        \* bound: files and directories ever created
  MAX_CUTS            \* bound: losses of power in the middle of a call

ASSUME VolumeBounds == Lengths \subseteq 0..MAX_FILE_SIZE /\ {MAX_CREATED, MAX_CUTS} \subseteq Nat

VARIABLES
  disk,       \* what the sectors hold
  cuts,       \* what losses of power have interrupted so far
  ncuts,      \* how often
  call        \* the last call: the files and names it was about, and its data

vars == <<disk, cuts, ncuts, call>>

NoData == <<>>
About(files, names) == [files |-> files, names |-> names, data |-> NoData]

Init == disk = Blank /\ cuts = {} /\ ncuts = 0 /\ call = About({}, {})

(* A call has the volume to itself: nothing sees the disk between two of   *)
(* its writes unless power is lost there.  One that writes nothing has     *)
(* failed and changes nothing.                                             *)
Completes(ws) ==
  /\ ws # <<>>
  /\ disk' = After(disk, ws)
  /\ UNCHANGED <<cuts, ncuts>>

LosesPower(ws) ==
  /\ ncuts < MAX_CUTS
  /\ \E k \in 2..Len(ws) : disk' = ws[k - 1].disk /\ cuts' = cuts \cup {ws[k].risk}
  /\ ncuts' = ncuts + 1

Call(about, ws) ==
  \/ Completes(ws) /\ call' = about
  \/ LosesPower(ws) /\ call' = [about EXCEPT !.data = NoData]

mount_or_format == ~disk.magic /\ Call(About({}, {}), Format(disk))

Created(d) == MapThenSumSet(LAMBDA i : IF d.inode[i].gen = 0 THEN 0 ELSE d.inode[i].gen - 1, FileInodes)

CanMake(p, n) ==
  /\ Find(DirectoryOf(disk, p), n) = 0
  /\ FreeInode(disk) # 0
  /\ Created(disk) < MAX_CREATED

create(p, n) == CanMake(p, n) /\ Call(About({FreeInode(disk)}, {}), Make(disk, p, n, "file"))
mkdir(p, n) == CanMake(p, n) /\ Call(About({FreeInode(disk)}, {}), Make(disk, p, n, "dir"))

directory_is_empty(d, i) == LET c == DirectoryOf(d, i) IN WellFormed(c) /\ Entries(c) = {}

remove(p, n) ==
  LET i == Lookup(disk, p, n) IN
  /\ i \in FileInodes
  /\ disk.inode[i].mode # "none"
  /\ disk.inode[i].mode = "dir" => directory_is_empty(disk, i)
  /\ Call(About({i}, {<<p, n>>}), Unlink(disk, p, n))

rename(p, old, new) ==
  LET c == DirectoryOf(disk, p) IN
  /\ Find(c, new) = 0
  /\ Cardinality({s \in Entries(c) : c.slot[s].name = old}) = 1
  /\ Call(About({}, {<<p, old>>}), Rename(disk, p, old, new))

replace(src, dst) ==
  LET from == Lookup(disk, ROOT_INODE, src)
      old == Lookup(disk, ROOT_INODE, dst) IN
  /\ src # dst
  /\ {from, old} \subseteq FileInodes
  /\ disk.inode[from].mode = "file" /\ disk.inode[old].mode = "file"
  /\ Call(About({old}, {<<ROOT_INODE, src>>}), Replace(disk, src, dst))

(* What a file reads as; a pointer that is Corrupt fails the read. *)
FileContent(d, i) ==
  IF Readable(d, d.inode[i]) THEN Content(d, d.inode[i]) ELSE [p \in 0..d.inode[i].size-1 |-> Bad]

(* The calls on a handle.  A call that has succeeded should leave cells    *)
(* from..to-1 written, the size n and the rest of the file as it was, or   *)
(* zero past its old end.                                                  *)
DataCall(i, from, to, n, ws) ==
  LET size == disk.inode[i].size
      old == FileContent(disk, i)
      done == After(disk, ws).inode[i].size = n
      want == [p \in 0..n-1 |-> IF p \in from..to-1 THEN 1 ELSE IF p < size THEN old[p] ELSE 0]
      data == [want |-> IF done THEN want ELSE old,
               gap |-> IF done THEN (size..n-1) \ (from..to-1) ELSE {}]
  IN Call([About({i}, {}) EXCEPT !.data = <<data>>], ws)

(* write_at with no data at all, which grows a file as truncate does, is   *)
(* left out of Next.                                                       *)
write(i, n) == DataCall(i, 0, n, n, WriteFile(disk, i, n))
write_at(i, from, to) ==
  DataCall(i, from, to, IF to > disk.inode[i].size THEN to ELSE disk.inode[i].size, WriteAt(disk, i, from, to))
truncate(i, n) == DataCall(i, 0, 0, n, Truncate(disk, i, n))

(* A call in a directory gets there by a path, and a handle is had by      *)
(* opening a name.                                                         *)
Next ==
  \/ mount_or_format
  \/ \E p \in Parents(disk), n \in Names :
       \/ create(p, n) \/ mkdir(p, n) \/ remove(p, n)
       \/ \E new \in Names : rename(p, n, new)
  \/ \E src, dst \in Names : replace(src, dst)
  \/ \E i \in Named(disk) :
       \/ \E n \in Lengths : write(i, n) \/ truncate(i, n)
       \/ \E from, to \in Lengths : from < to /\ write_at(i, from, to)

Spec == Init /\ [][Next]_vars

----------------------------------------------------------------------------
(* No power loss has come between the two sectors of a directory, or has   *)
(* hit a file that was getting shorter, or the formatting.                 *)
OnlyLeaks == cuts \subseteq {"leak"}

(* None has so far, nor does one now tear a directory whose records a      *)
(* call adds to or repacks.                                                *)
NothingTorn == OnlyLeaks /\ "tear" \notin cuts'

(* Whatever calls are made, and whether they succeed or run out of blocks, *)
(* inodes or records, they leave bitmaps, counts, inodes and directories   *)
(* that agree in everything check_vfs_integrity compares, but for the      *)
(* sector counts of inodes (VolumeChecksOut).                              *)
SoundUnlessCut == disk.magic /\ cuts = {} => Sound(disk)

(* "valid volume check": check_existing accepts every volume that calls    *)
(* have left.                                                              *)
VolumeChecksOut == disk.magic /\ cuts = {} => check_vfs_integrity(disk)

(* The order of the writes of a call makes a power loss cost space only:   *)
(* whatever is done to the volume afterwards, every name leads to an       *)
(* allocated inode of its own, whose blocks are allocated and nobody       *)
(* else's, and no count of what is free drops below zero.                  *)
CutsOnlyLeak ==
  LET named == {e \in EntriesOf(disk) : e[1] \in Parents(disk)} IN
  disk.magic /\ OnlyLeaks =>
    /\ disk.super \in Nat \X Nat /\ disk.group \in Nat \X Nat
    /\ ClaimsHold(disk, {Target(disk, e) : e \in named})
    /\ \A p \in Parents(disk) : WellFormed(DirectoryOf(disk, p))
    /\ \A e \in named : Target(disk, e) \in disk.ibits /\ disk.inode[Target(disk, e)].mode # "none"
    /\ \A e, f \in named : e # f => Target(disk, e) # Target(disk, f)

(* A call changes what a file reads as only if it is a data call on that   *)
(* file, also when power is lost in it (but NothingTorn) or was before.    *)
FilesKeepTheirContent ==
  [][ NothingTorn => \A i \in FileInodes \ call'.files :
        i \in Named(disk) /\ i \in Named(disk') => FileContent(disk', i) = FileContent(disk, i) ]_vars

(* Name n in directory p is that of a file. *)
LeadsToFile(d, p, n) == LET i == Lookup(d, p, n) IN i \in FileInodes /\ IsFile(d, i)

(* A name that leads to a file does so after every call that is not about  *)
(* to take it away, also if power is lost in it: "the destination keeps    *)
(* its name while the source inode becomes visible there", even between    *)
(* the two sectors that replace changes.  The one exception is a loss      *)
(* between the two sectors of a directory that create, mkdir or rename     *)
(* writes (NothingTorn): it can cost every name in that directory.         *)
NamesSurvive ==
  [][ NothingTorn => \A p \in Parents(disk), n \in Names :
        LeadsToFile(disk, p, n) /\ <<p, n>> \notin call'.names
          => p \in Parents(disk') /\ LeadsToFile(disk', p, n) ]_vars

(* A handle that has stopped being valid never is again, power losses      *)
(* included: the generation of an inode only grows, and it has grown when  *)
(* the inode becomes a file.                                               *)
StaleHandlesStayStale ==
  [][ \A i \in FileInodes :
        /\ disk'.inode[i].gen >= disk.inode[i].gen
        /\ ~IsFile(disk, i) /\ IsFile(disk', i) => disk'.inode[i].gen > disk.inode[i].gen ]_vars

(* The cells after the end of a file, in its last block. *)
PastEnd(d, i) == d.inode[i].size .. data_blocks_for_size(d.inode[i].size) * CELLS - 1
PastEndZero(d, i) ==
  \A p \in PastEnd(d, i) : CellOf(d.block[file_block(d, d.inode[i], p \div CELLS)], p % CELLS) = 0

Reads(i, data, free) ==
  LET got == FileContent(disk', i) IN
  /\ DOMAIN got = DOMAIN data.want
  /\ \A p \in DOMAIN got \ free : got[p] = data.want[p]

(* A data call that succeeds changes the cells it was asked to and no      *)
(* others, one that fails changes none; and the cells past the end stay    *)
(* zero, so that the file grows by zeros, if they were zero before.        *)
WritesTakeEffect ==
  [][ OnlyLeaks => \A data \in Range(call'.data), i \in call'.files :
        /\ Reads(i, data, IF PastEndZero(disk, i) THEN {} ELSE data.gap \cap PastEnd(disk, i))
        /\ PastEndZero(disk, i) => PastEndZero(disk', i) ]_vars
=============================================================================
