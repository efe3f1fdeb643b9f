------------------------------- MODULE Mkfs -------------------------------
(***************************************************************************)
(* mkfs.c: building an image from a host file tree.  Each action is one    *)
(* iteration of add_dir's readdir loop, with every write it makes; the     *)
(* stack `dirs` is the recursion of add_dir.  `fs` is the image on disk    *)
(* together with the block counters of the process.                        *)
(* mkfs.c never checks that inodes or blocks remain: RoomFor is the bound  *)
(* that keeps a run inside the modelled disk.  It lets mkfs.c take number  *)
(* NINODES, which still has a slot in the table.                           *)
(***************************************************************************)
EXTENDS FsImage, LinkMap, TLC

CONSTANTS HostFiles,   \* regular files of the host tree (st_ino)
          HostSizes,   \* their possible sizes, in words
          MaxLinks     \* largest st_nlink

ASSUME HostAssumption == HostSizes \subseteq Nat /\ MaxLinks \in Nat

VARIABLES fs,        \* image: sb, inode, blk, bit; process: freeblock, usedblocks
          freeinode, \* the next inode ialloc takes
          dirs,      \* calls of add_dir in progress, innermost last: [cur, parent]
          links,     \* hardLinkMapRoot, as a sequence of [host, ino, remain]
          host,      \* per host file: its size and st_nlink (0: unlinked while open)
          given,     \* history: the inodes the names of a host file were given, in order
          dropped,   \* history: host files whose map node was dropped with the list
          pc         \* "start", "build", then "built" or "aborted" when mkfs has exited

mkfsVars == <<fs, freeinode, dirs, links, host, given, dropped>>

NoMemory == [freeblock |-> 0, usedblocks |-> 0]

\* mkfs(): a zeroed image with its superblock.
EmptyFs ==
  LET first == NINODES \div IPB + 3 + (SIZE \div BPB + 1)
  IN  [sb |-> superblock, inode |-> [i \in Inums |-> dinode(0, 0)],
       blk |-> [b \in Data |-> Zeros(W, Zero)], bit |-> {},
       freeblock |-> first, usedblocks |-> first]

winode(s, i, din) == [s EXCEPT !.inode[i] = din]

\* Inode i is freeinode, which the caller's action moves on.
ialloc(s, i, type) == winode(s, i, dinode(type, IF type = T_DIR THEN 2 ELSE 1))

\* One block taken from freeblock; the caller has stored its number.
TakeBlock(s) == [s EXCEPT !.freeblock = @ + 1, !.usedblocks = @ + 1]

\* Mutant: the indirect block is not counted as used.
get_block_uncounted(s, i, fbn) ==
  IF fbn < NDIRECT
  THEN IF s.inode[i].addrs[fbn + 1] # 0 THEN s
       ELSE TakeBlock([s EXCEPT !.inode[i].addrs[fbn + 1] = s.freeblock])
  ELSE LET t == IF IndirectBlock(s, i) # 0 THEN s
                ELSE [s EXCEPT !.inode[i].addrs[NDIRECT + 1] = s.freeblock, !.freeblock = @ + 1]
           ind == IndirectBlock(t, i)
           k == fbn - NDIRECT + 1
       IN  IF t.blk[ind][k] # Zero THEN t
           ELSE TakeBlock([t EXCEPT !.blk[ind][k] = Ptr(t.freeblock)])

\* iappend's allocation for file block fbn, with the indirect block when needed.
get_block(s, i, fbn) ==
  IF fbn < NDIRECT
  THEN IF s.inode[i].addrs[fbn + 1] # 0 THEN s
       ELSE TakeBlock([s EXCEPT !.inode[i].addrs[fbn + 1] = s.freeblock])
  ELSE LET t == IF IndirectBlock(s, i) # 0 THEN s
                ELSE TakeBlock([s EXCEPT !.inode[i].addrs[NDIRECT + 1] = s.freeblock])
           ind == IndirectBlock(t, i)
           k == fbn - NDIRECT + 1
       IN  IF t.blk[ind][k] # Zero THEN t
           ELSE TakeBlock([t EXCEPT !.blk[ind][k] = Ptr(t.freeblock)])

block_of(s, i, fbn) ==
  IF fbn < NDIRECT THEN s.inode[i].addrs[fbn + 1]
  ELSE s.blk[IndirectBlock(s, i)][fbn - NDIRECT + 1].num

iappend(s, i, words) ==
  LET put(x, w) ==
        LET off == x.inode[i].size
            t == get_block(x, i, off \div W)
        IN  [t EXCEPT !.blk[block_of(t, i, off \div W)][(off % W) + 1] = w,
                      !.inode[i].size = off + 1]
      after[n \in 0 .. Len(words)] == IF n = 0 THEN s ELSE put(after[n - 1], words[n])
  IN  after[Len(words)]

add_nlink(s, i) == winode(s, i, [s.inode[i] EXCEPT !.nlink = @ + 1])

\* The entry of add_dir: "." and "..", and one more link to the parent.
open_dir(s, cur, parent) ==
  LET t == iappend(s, cur, <<dirent(cur, ".")>>)
  IN  iappend(IF cur # parent THEN add_nlink(t, parent) ELSE t, cur,
              <<dirent(parent, "..")>>)

\* The exit of add_dir: the size is rounded up to the next block boundary.
fix_size(s, cur) ==
  winode(s, cur, [s.inode[cur] EXCEPT !.size = (@ \div W + 1) * W])

balloc(s) == [s EXCEPT !.bit = 0 .. s.usedblocks - 1]

\* exit(): the memory of the process is gone, the image stays.
Exit(s, how) ==
  /\ fs' = NoMemory @@ s /\ freeinode' = 0
  /\ dirs' = <<>> /\ links' = <<>> /\ dropped' = {}
  /\ given' = [h \in HostFiles |-> <<>>]
  /\ host' = [h \in HostFiles |-> [size |-> 0, nlink |-> 0]]
  /\ pc' = how

\* Blocks that certainly suffice for n more words and for the entries still
\* to be appended for the directories being built.
RoomFor(n) ==
  /\ freeinode <= NINODES
  /\ fs.freeblock + (n + W - 1) \div W + 1 + 2 * Len(dirs) <= SIZE

MkfsInit ==
  /\ fs = ialloc(EmptyFs, ROOTINO, T_DIR) /\ freeinode = ROOTINO + 1
  /\ dirs = <<>> /\ links = <<>> /\ dropped = {}
  /\ host \in [HostFiles -> [size : HostSizes, nlink : 0 .. MaxLinks]]
  /\ given = [h \in HostFiles |-> <<>>]
  /\ pc = "start"

\* main() without a tree argument, or with a tree whose opendir failed.
MkfsNoTree == pc = "start" /\ Exit(balloc(fs), "built")
MkfsUnreadable == pc = "start" /\ Exit(balloc(open_dir(fs, ROOTINO, ROOTINO)), "built")

MkfsTree ==
  /\ pc = "start"
  /\ fs' = open_dir(fs, ROOTINO, ROOTINO)
  /\ dirs' = <<[cur |-> ROOTINO, parent |-> ROOTINO]>>
  /\ pc' = "build"
  /\ UNCHANGED <<freeinode, links, host, given, dropped>>

\* readdir returned a directory.
ReaddirDir ==
  /\ pc = "build" /\ RoomFor(2)
  /\ LET d == [cur |-> freeinode, parent |-> Top(dirs).cur]
     IN  /\ fs' = open_dir(ialloc(fs, freeinode, T_DIR), d.cur, d.parent)
         /\ freeinode' = freeinode + 1
         /\ dirs' = Append(dirs, d)
  /\ UNCHANGED <<links, host, given, dropped, pc>>

\* readdir returned a name of host file h.
ReaddirFile(h) ==
  /\ pc = "build" /\ RoomFor(host[h].size)
  /\ Len(given[h]) < IF host[h].nlink = 0 THEN 1 ELSE host[h].nlink
  /\ LET cur == Top(dirs).cur
         known == {k \in DOMAIN links : links[k].host = h}
     IN  \/ \E k \in known :
              LET i == links[k].ino
              IN  /\ links' = use_link(links, k) /\ dropped' = dropped \cup lost_links(links, k)
                  /\ fs' = iappend(add_nlink(fs, i), cur, <<dirent(i, "name")>>)
                  /\ given' = give_name(given, h, i)
                  /\ UNCHANGED freeinode
         \/ /\ known = {}
            /\ links' = new_link(links, h, freeinode, host[h].nlink) /\ UNCHANGED dropped
            /\ fs' = iappend(iappend(ialloc(fs, freeinode, T_FILE), freeinode,
                                     Zeros(host[h].size, Zero)), cur,
                             <<dirent(freeinode, "name")>>)
            /\ given' = give_name(given, h, freeinode)
            /\ freeinode' = freeinode + 1
  /\ UNCHANGED <<dirs, host, pc>>

\* readdir returned NULL: add_dir returns and its caller appends the entry,
\* or main() writes the bitmap and exits.
ReaddirEnd ==
  /\ pc = "build"
  /\ LET d == Top(dirs)
         s == fix_size(fs, d.cur)
     IN  IF Len(dirs) = 1 THEN Exit(balloc(s), "built")
         ELSE /\ fs' = iappend(s, d.parent, <<dirent(d.cur, "name")>>)
              /\ dirs' = Pop(dirs)
              /\ UNCHANGED <<freeinode, links, host, given, dropped, pc>>

\* open, fstat or fchdir failed: add_dir returns -1 and main() exits at once.
ReaddirFails == pc = "build" /\ Exit(fs, "aborted")

MkfsNext ==
  \/ MkfsNoTree \/ MkfsUnreadable \/ MkfsTree
  \/ ReaddirDir \/ (\E h \in HostFiles : ReaddirFile(h)) \/ ReaddirEnd \/ ReaddirFails

---------------------------------------------------------------------------
(* Properties of the builder. *)

\* fetchHardLink: all names of a host file share one inode and different files
\* never do, unless the map node was lost because the list was dropped with
\* its first node (mkfs.c:64) and the file is then copied again.
HardLinksShared ==
  /\ \A h \in HostFiles \ dropped : Cardinality(Range(given[h])) <= 1
  /\ \A g, h \in HostFiles : g # h => Range(given[g]) \cap Range(given[h]) = {}

\* fetchHardLink's map agrees with what was given out (inductive): inode numbers
\* given are below freeinode; a node of the map holds a number its file was given;
\* and of the files that were not dropped, one in the map has as many names to
\* come as its node says, and one that has left the map has none to come.
Nlink == [h \in HostFiles |-> host[h].nlink]
LinkInv ==
  IF pc \in {"start", "build"}
  THEN /\ host \in [HostFiles -> [size : HostSizes, nlink : 0 .. MaxLinks]]
       /\ LinksAgree(HostFiles, Nlink, links, given, dropped, freeinode)
  ELSE given = [h \in HostFiles |-> <<>>]
=============================================================================
