------------------------------ MODULE FsTools ------------------------------
(***************************************************************************)
(* mkfs, a fault, myfsck and lsfs, one after the other on the same image.  *)
(* Between mkfs and myfsck a file system in use may move one directory     *)
(* (legally or under its own descendant), and one field of the metadata    *)
(* may be damaged.  lsfs lists the images that myfsck accepts.             *)
(***************************************************************************)
EXTENDS Mkfs, Fsck

VARIABLES verdict,   \* myfsck's exit message
          origin,    \* pc when myfsck was started: what had happened to the image
          listing,   \* lsfs: calls of ls_dir in progress: [dir, rest]
          printed    \* lsfs: lines printed for each inode

vars == <<mkfsVars, pc, verdict, origin, listing, printed>>

Init ==
  /\ MkfsInit
  /\ verdict = "none" /\ origin = "none"
  /\ listing = <<>> /\ printed = [i \in Inums |-> 0]

\* Content blocks of an inode, in file order: direct, then through the indirect block.
Content(im, i) ==
  LET direct == SubSeq(im.inode[i].addrs, 1, NDIRECT)
      ind == Words(im, IndirectBlock(im, i))
  IN  SelectSeq(direct \o [k \in DOMAIN ind |-> AsPtr(ind[k])], LAMBDA b : b # 0)

\* All non-free directory entries of a directory, in file order.
Entries(im, i) ==
  LET c == Content(im, i)
      read[k \in 0 .. Len(c)] == IF k = 0 THEN <<>> ELSE read[k - 1] \o Words(im, c[k])
  IN  SelectSeq(read[Len(c)], LAMBDA w : w.num # 0)

DirBlocks(d) == {b \in Range(Content(fs, d)) : b \in Data}
\* A change that would lead myfsck past its arrays is left out (IsImage).
Damaged(s) == fs' = s /\ s # fs /\ IsImage(s)
notImage == <<freeinode, dirs, links, host, given, dropped, verdict, origin, listing, printed>>

\* A directory d is moved into directory e: its entry, and its "..".
MoveDir(d, e) ==
  /\ pc = "built"
  /\ \E p \in Dirs(fs), b, c, up \in Data, k, m, n \in 1 .. W :
       /\ b \in DirBlocks(p) /\ fs.blk[b][k] = dirent(d, "name")
       /\ c \in DirBlocks(e) /\ fs.blk[c][m] = Zero
       /\ up \in DirBlocks(d) /\ fs.blk[up][n].name = ".."
       /\ Damaged([fs EXCEPT !.blk[b][k] = Zero, !.blk[c][m] = dirent(d, "name"),
                             !.blk[up][n] = dirent(e, "..")])
  /\ pc' = "moved" /\ UNCHANGED notImage

\* Addresses a fault may store: null, the last metadata block, past the end or
\* any data block.
FaultyAddrs == {0, DataStart(superblock) - 1, SIZE} \cup Data

Fault ==
  \/ \E i \in Inodes(fs) :
       \/ \E t \in -1 .. 3 : Damaged([fs EXCEPT !.inode[i].type = t])
       \/ \E n \in {-1, 1} : Damaged([fs EXCEPT !.inode[i].nlink = @ + n])
       \/ /\ i \in Used(fs)
          /\ \/ \E n \in {-W, -1, 1, W} :
                  /\ fs.inode[i].size + n >= 0
                  /\ Damaged([fs EXCEPT !.inode[i].size = @ + n])
             \/ \E k \in 1 .. NDIRECT + 1, b \in FaultyAddrs :
                  Damaged([fs EXCEPT !.inode[i].addrs[k] = b])
             \/ \E k \in DOMAIN Words(fs, IndirectBlock(fs, i)), b \in FaultyAddrs :
                  Damaged([fs EXCEPT !.blk[IndirectBlock(fs, i)][k] = Ptr(b)])
  \/ \E d \in Dirs(fs) : \E b \in DirBlocks(d) : \E k \in 1 .. W, i \in Inums :
       /\ fs.blk[b][k] # Zero
       /\ Damaged([fs EXCEPT !.blk[b][k].num = i])
  \/ \E b \in Data :
       Damaged([fs EXCEPT !.bit = IF b \in @ THEN @ \ {b} ELSE @ \cup {b}])
  \/ \E f \in DOMAIN superblock, n \in {-1, 1} : Damaged([fs EXCEPT !.sb[f] = @ + n])

Corrupt ==
  pc \in {"built", "moved"} /\ Fault /\ pc' = "damaged" /\ UNCHANGED notImage

\* Mutant: ".." is not skipped.
walk_entries_up(i) ==
  LET child == SelectSeq(Entries(fs, i), LAMBDA w : w.name # ".")
  IN  [dir |-> i, rest |-> [k \in DOMAIN child |-> child[k].num]]

\* ls_dir's call on a directory: its entries in order, "." and ".." skipped.
walk_entries(i) ==
  LET child == SelectSeq(Entries(fs, i), LAMBDA w : w.name \notin {".", ".."})
  IN  [dir |-> i, rest |-> [k \in DOMAIN child |-> child[k].num]]

RunFsck ==
  /\ pc \in {"built", "moved", "damaged", "aborted"}
  /\ verdict' = myfsck(fs)
  /\ origin' = pc
  /\ pc' = "checked"
  /\ UNCHANGED <<mkfsVars, listing, printed>>

\* lsfs main(): ls_dir on the root, which returns at once unless it is a directory.
LsStart ==
  /\ pc = "checked" /\ verdict = "ok"
  /\ IF fs.inode[ROOTINO].type = T_DIR
     THEN /\ listing' = <<walk_entries(ROOTINO)>>
          /\ printed' = [printed EXCEPT ![ROOTINO] = 1]
          /\ pc' = "list"
     ELSE pc' = "listed" /\ UNCHANGED <<listing, printed>>
  /\ UNCHANGED <<mkfsVars, verdict, origin>>

\* walk_dirblock on the next entry: recursion, a line, or nothing.
LsEntry ==
  /\ pc = "list" /\ Top(listing).rest # <<>>
  /\ LET c == Head(Top(listing).rest)
         next == [listing EXCEPT ![Len(listing)].rest = Tail(@)]
     IN  /\ listing' = IF fs.inode[c].type = T_DIR THEN Append(next, walk_entries(c)) ELSE next
         /\ printed' = IF fs.inode[c].type \in {T_DIR, T_FILE, T_DEV}
                       THEN [printed EXCEPT ![c] = @ + 1] ELSE printed
  /\ UNCHANGED <<mkfsVars, pc, verdict, origin>>

LsReturn ==
  /\ pc = "list" /\ Top(listing).rest = <<>>
  /\ listing' = Pop(listing)
  /\ pc' = IF Len(listing) = 1 THEN "listed" ELSE pc
  /\ UNCHANGED <<mkfsVars, verdict, origin, printed>>

Next ==
  \/ MkfsNext /\ UNCHANGED <<verdict, origin, listing, printed>>
  \/ \E d, e \in Dirs(fs) : MoveDir(d, e)
  \/ Corrupt
  \/ RunFsck
  \/ LsStart \/ LsEntry \/ LsReturn

Spec == Init /\ [][Next]_vars

---------------------------------------------------------------------------
\* Types of the image, of mkfs's memory and of the other tools' state; blocks
\* are handed out within the data area and the bitmap stays on the disk.
TypeOK ==
  /\ IsImage(fs) /\ fs.bit \subseteq 0 .. SIZE - 1
  /\ DOMAIN fs.blk = Data /\ DOMAIN fs.inode = Inums
  /\ \A i \in Inums : fs.inode[i].type \in -1 .. 3 /\ fs.inode[i].size \in 0 .. (W + NDIRECT) * W
  /\ fs.freeblock \in {0} \cup DataStart(superblock) .. SIZE /\ freeinode \in 0 .. NINODES + 1
  /\ \A k \in DOMAIN links : links[k].host \in HostFiles /\ links[k].remain \in 0 .. MaxLinks - 1
  /\ pc \in {"start", "build", "built", "aborted", "moved", "damaged", "checked", "list", "listed"}
  /\ verdict \in Verdicts \cup {"none"}
  /\ printed \in [Inums -> Nat]

\* myfsck accepts exactly the consistent images, two blind spots aside: no
\* consistent image is refused whatever moves were made on it, and no damaged
\* one passes (myfsck.c helper, check_size).
AcceptsExactlyConsistent ==
  pc = "checked" =>
    /\ Consistent(fs) => verdict = "ok"
    /\ verdict = "ok" => Consistent(fs) \/ BlindSpot(fs)

\* The message myfsck exits with is true of the image as a whole, although it
\* is chosen in mid-scan from what the scan has seen so far (log.h).
MessageIsTrue == pc = "checked" => TrueMessage(fs, verdict)

\* A directory whose entries exactly fill its blocks.
ExactlyFull(d) == Content(fs, d) # <<>> /\ \A b \in DirBlocks(d) : Zero \notin Range(fs.blk[b])

\* What myfsck says of an undamaged image of mkfs: it accepts it, except that
\* mkfs without a tree writes a root with no entries, that the size mkfs gives
\* a directory whose entries exactly fill its blocks is one block too large
\* (mkfs.c:250), and that mkfs also gives out number ninodes, whose blocks no
\* scan of myfsck comes to.  An image of a mkfs that failed half-way is refused.
BuiltImageVerdict ==
  /\ pc = "checked" /\ origin = "built" =>
       verdict = IF Content(fs, ROOTINO) = <<>> THEN "directory_format"
                 ELSE IF \E d \in Dirs(fs) : ExactlyFull(d) THEN "file_size"
                 ELSE IF Content(fs, NINODES) # <<>> THEN "bitmap_marked_used"
                 ELSE "ok"
  /\ pc = "checked" /\ origin = "aborted" => verdict = "used_address"

\* lsfs on an accepted image never enters a directory it is still listing (its
\* recursion ends), and prints every directory once and every other inode as
\* often as it is named (lsfs.c ls_dir, walk_dirblock).
ListsEachOnce ==
  /\ \A j, k \in DOMAIN listing : j # k => listing[j].dir # listing[k].dir
  /\ pc = "listed" =>
       \A i \in Inodes(fs) :
          printed[i] = IF i \in Dirs(fs) THEN 1
                       ELSE IF i \in Used(fs) THEN Refs(fs, i) ELSE 0
=============================================================================
