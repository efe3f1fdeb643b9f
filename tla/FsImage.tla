------------------------------ MODULE FsImage ------------------------------
(***************************************************************************)
(* The on-disk format of Myfsck/fs.h and what a consistent image is.       *)
(*                                                                         *)
(* A block is a sequence of W words.  A word is a directory entry (number  *)
(* and name) or a block pointer (number, empty name); the zero word is a   *)
(* free entry and a null pointer.  Sizes are counted in words.  Host files *)
(* hold zero bytes, so every word of every block has a defined reading.    *)
(***************************************************************************)
EXTENDS Integers, Sequences, FiniteSets

CONSTANTS NINODES,   \* mkfs.c ninodes
          NBLOCKS,   \* mkfs.c nblocks: number of data blocks
          SIZE,      \* mkfs.c size: number of blocks of the image
          NDIRECT,   \* direct addresses of an inode
          W,         \* BSIZE in words; also NINDIRECT
          IPB,       \* inodes per block
          BPB        \* bitmap bits per block

ROOTINO == 1
T_DIR == 1
T_FILE == 2
T_DEV == 3

\* First data block of the layout a superblock describes.
DataStart(sb) == (sb.ninodes \div IPB + 1) + (sb.size \div BPB + 1) + 2

superblock == [size |-> SIZE, nblocks |-> NBLOCKS, ninodes |-> NINODES]
Data == DataStart(superblock) .. SIZE - 1

\* The inode table has a slot for number NINODES too: ninodes/IPB + 1 blocks.
Inums == 0 .. NINODES

Names == {"", ".", "..", "name"}
Zero == [num |-> 0, name |-> ""]
Ptr(b) == [num |-> b, name |-> ""]
dirent(i, n) == [num |-> i, name |-> n]

Zeros(n, z) == <<>> \o [k \in 1 .. n |-> z]
dinode(type, nlink) ==
  [type |-> type, nlink |-> nlink, size |-> 0, addrs |-> Zeros(NDIRECT + 1, 0)]

\* The assertion of mkfs() on the layout, that of balloc() on the bitmap, and
\* room for "." and ".." in one block.
ASSUME FsAssumption ==
  /\ {NINODES, NBLOCKS, SIZE, NDIRECT, W, IPB, BPB} \subseteq Nat
  /\ NINODES > ROOTINO /\ NDIRECT > 0 /\ W > 1 /\ IPB > 0
  /\ NBLOCKS + DataStart(superblock) = SIZE
  /\ SIZE < BPB

\* A word read as a block pointer: the bytes of a name make it out of range.
AsPtr(w) == IF w.name = "" THEN w.num ELSE SIZE + 1

Words(im, b) == IF b \in Data THEN im.blk[b] ELSE <<>>
IndirectBlock(im, i) == im.inode[i].addrs[NDIRECT + 1]

---------------------------------------------------------------------------
(* Consistency, stated without reference to the order of any scan. *)

Inodes(im) == 1 .. im.sb.ninodes - 1
Used(im) == {i \in Inodes(im) : im.inode[i].type # 0}
Dirs(im) == {i \in Inodes(im) : im.inode[i].type = T_DIR}

\* The places for a block number that inode i has: its direct addresses, its
\* indirect block, and the words of that block.
Slots == 1 .. NDIRECT + 1 + W
Addr(im, i, k) ==
  IF k <= NDIRECT + 1 THEN im.inode[i].addrs[k]
  ELSE LET b == IndirectBlock(im, i)
       IN  IF b \in Data THEN AsPtr(im.blk[b][k - NDIRECT - 1]) ELSE 0
Uses(im) == {u \in Used(im) \X Slots : Addr(im, u[1], u[2]) # 0}
ContentUses(im, i) == {u \in Uses(im) : u[1] = i /\ u[2] # NDIRECT + 1}

\* The directory entries of the image: a slot of a directory with a block of
\* entries, and the place in that block.
DirSlots(im) ==
  {u \in Dirs(im) \X (Slots \ {NDIRECT + 1}) : Addr(im, u[1], u[2]) \in Data}
Word(im, e) == im.blk[Addr(im, e[1][1], e[1][2])][e[2]]
EntrySet(im) == {e \in DirSlots(im) \X (1 .. W) : Word(im, e).num # 0}
Named(im, d, name) == {e \in EntrySet(im) : e[1][1] = d /\ Word(im, e).name = name}

IsChild(w) == w.name \notin {".", ".."}
\* Directory and inode number of every entry but "." and "..".
Children(im) ==
  {<<e[1][1], Word(im, e).num>> : e \in {e \in EntrySet(im) : IsChild(Word(im, e))}}
\* Directory entries naming inode i; the root is also named by its own ".".
Naming(im, i) ==
  {e \in EntrySet(im) :
     /\ Word(im, e).num = i
     /\ IsChild(Word(im, e)) \/ (Word(im, e).name = "." /\ e[1][1] = ROOTINO)}
Refs(im, i) == Cardinality(Naming(im, i))

LayoutOK(im) == im.sb.size = im.sb.nblocks + DataStart(im.sb)
TypesOK(im) == \A i \in 0 .. im.sb.ninodes - 1 : im.inode[i].type \in 0 .. 3
DirectOK(im) == \A i \in Used(im), k \in 1 .. NDIRECT : Addr(im, i, k) \in Data \cup {0}
IndirectOK(im) ==
  \A i \in Used(im), k \in NDIRECT + 1 .. NDIRECT + 1 + W : Addr(im, i, k) \in Data \cup {0}
OnceOK(im) ==
  \A u, v \in Uses(im) : Addr(im, u[1], u[2]) = Addr(im, v[1], v[2]) => u = v
UsedAreMarked(im) == \A u \in Uses(im) : Addr(im, u[1], u[2]) \in im.bit
MarkedAreUsed(im) == \A b \in im.bit \cap Data : \E u \in Uses(im) : Addr(im, u[1], u[2]) = b
FormatOK(im) ==
  \A d \in Dirs(im) :
     /\ Cardinality(Named(im, d, ".")) = 1 /\ Cardinality(Named(im, d, "..")) = 1
     /\ \A e \in Named(im, d, ".") : Word(im, e).num = d
\* The size needs exactly the content blocks there are.
SizeOK(im) ==
  \A i \in Used(im) : (im.inode[i].size + W - 1) \div W = Cardinality(ContentUses(im, i))
UsedAreNamed(im) == \A i \in Used(im) : Refs(im, i) > 0
NamedAreUsed(im) == \A i \in Inodes(im) : Refs(im, i) > 0 => i \in Used(im)
LinksOK(im) ==
  \A i \in Inodes(im) : im.inode[i].type = T_FILE => im.inode[i].nlink = Refs(im, i)
DirOnceOK(im) == \A d \in Dirs(im) : Refs(im, d) = 1
ParentsOK(im) ==
  \A d \in Dirs(im) : \A e \in Named(im, d, "..") :
     LET p == Word(im, e).num
     IN  IF d = ROOTINO THEN p = ROOTINO ELSE p \in Dirs(im) /\ <<p, d>> \in Children(im)
\* Every directory is reached from the root through directory entries.
ReachOK(im) ==
  LET child == Children(im)
  IN  \A S \in SUBSET (Dirs(im) \cup {ROOTINO}) :
         /\ ROOTINO \in S
         /\ \A c \in child : c[1] \in S /\ c[2] \in Dirs(im) => c[2] \in S
         => Dirs(im) \subseteq S
RootOK(im) == ROOTINO \in Dirs(im)
EntriesInTable(im) == \A e \in EntrySet(im) : Word(im, e).num < im.sb.ninodes

\* The images in question: SIZE blocks, any contents, the numbers in what is
\* read as directory entries within the checker's arrays of ninodes + 1 items.
IsImage(im) ==
  /\ im.sb.ninodes \in 0 .. NINODES + 1 /\ im.bit \subseteq Int
  /\ LayoutOK(im) => im.sb.size = SIZE /\ im.sb.nblocks = NBLOCKS
  /\ \A i \in Inums : /\ im.inode[i].type \in Int /\ im.inode[i].size \in Nat
                      /\ im.inode[i].addrs \in [1 .. NDIRECT + 1 -> Int]
  /\ \A b \in Data : im.blk[b] \in [1 .. W -> [num : Int, name : Names]]
  /\ \A e \in DirSlots(im) \X (1 .. W) :
       Word(im, e).num \in Inums /\ Word(im, e).num <= im.sb.ninodes

Consistent(im) ==
  /\ LayoutOK(im) /\ TypesOK(im) /\ DirectOK(im) /\ IndirectOK(im) /\ OnceOK(im)
  /\ UsedAreMarked(im) /\ MarkedAreUsed(im) /\ FormatOK(im) /\ SizeOK(im)
  /\ UsedAreNamed(im) /\ NamedAreUsed(im) /\ LinksOK(im) /\ DirOnceOK(im)
  /\ ParentsOK(im) /\ ReachOK(im) /\ RootOK(im) /\ EntriesInTable(im)
=============================================================================
