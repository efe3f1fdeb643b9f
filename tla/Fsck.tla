------------------------------- MODULE Fsck -------------------------------
(***************************************************************************)
(* myfsck.c as an operator: the verdict on an image.  The checker is one   *)
(* read-only process, so what matters is the order of its scans: it stops  *)
(* at the first error.  An accumulator record holds helper()'s arrays; its *)
(* err field, once set, is the exit(1) every later step respects.          *)
(***************************************************************************)
EXTENDS FsImage

\* The messages of log.h; "ok" when there is none.
Verdicts ==
  {"ok", "superblock", "bad_inode", "directory_format", "direct_address",
   "direct_address_once", "indirect_address", "indirect_address_once", "used_address",
   "file_size", "bitmap_marked_used", "used_inode_not_found", "inode_referred_marked",
   "reference_count", "directory_once", "parent_directory", "inaccessible"}

Blank ==
  LET each(v) == [i \in Inums |-> v]
  IN  [err |-> "ok", visited |-> {}, refs |-> each(0), dotdot |-> each(-1),
       entry |-> each(-1), curcnt |-> 0, parcnt |-> 0, blkcnt |-> 0]

Fail(a, e) == [a EXCEPT !.err = e]

\* One loop with exit(1) inside: op runs on each element until an error is set;
\* after[k] is the accumulator after k elements.
Scan(op(_, _), a, s) ==
  LET after[k \in 0 .. Len(s)] ==
        IF k = 0 THEN a
        ELSE LET x == after[k - 1] IN IF x.err = "ok" THEN op(x, s[k]) ELSE x
  IN  after[Len(s)]

InRange(im, b) == DataStart(im.sb) <= b /\ b < im.sb.nblocks + DataStart(im.sb)

bit_is_used(im, b) == b \in im.bit

check_node_type(type) == type \in 0 .. 3

\* One entry of a directory block; free entries are skipped.
scan_entry(im, x, cur, w) ==
  CASE w.num = 0 -> x
    [] w.num # 0 /\ w.name = "." ->
         IF w.num # cur THEN Fail(x, "directory_format")
         ELSE [x EXCEPT !.curcnt = @ + 1,
                        !.refs[ROOTINO] = IF cur = ROOTINO THEN @ + 1 ELSE @]
    [] w.num # 0 /\ w.name = ".." ->
         [x EXCEPT !.dotdot[cur] = w.num, !.parcnt = @ + 1]
    [] OTHER ->
         [x EXCEPT !.refs[w.num] = @ + 1,
                   !.entry[w.num] = IF im.inode[w.num].type = T_DIR THEN cur ELSE @]

traverse_dirent(im, a, b, cur) ==
  Scan(LAMBDA x, w : scan_entry(im, x, cur, w), a, im.blk[b])

\* Range, single use and bitmap, in that order; then the block is visited.
claim_block(im, a, b, range, once) ==
  IF ~InRange(im, b) THEN Fail(a, range)
  ELSE IF b \in a.visited THEN Fail(a, once)
  ELSE IF ~bit_is_used(im, b) THEN Fail(a, "used_address")
  ELSE [a EXCEPT !.visited = @ \cup {b}]

\* A content block: claimed, counted, and scanned when the inode is a directory.
content_block(im, a, cur, b, range, once) ==
  LET c == claim_block(im, a, b, range, once)
      n == [c EXCEPT !.blkcnt = @ + 1]
  IN  IF b = 0 THEN a
      ELSE IF c.err # "ok" THEN c
      ELSE IF im.inode[cur].type = T_DIR THEN traverse_dirent(im, n, b, cur) ELSE n

\* The loop over the block numbers of a sequence.
content_blocks(im, a, cur, s, range, once) ==
  Scan(LAMBDA x, b : content_block(im, x, cur, b, range, once), a, s)

check_direct_address(im, a, cur) ==
  content_blocks(im, a, cur, SubSeq(im.inode[cur].addrs, 1, NDIRECT),
                 "direct_address", "direct_address_once")

\* Mutant: the messages of check_direct_address were copied with its code.
check_indirect_address_copied(im, a, cur) ==
  LET b == IndirectBlock(im, cur)
      c == claim_block(im, a, b, "indirect_address", "indirect_address_once")
  IN  IF a.err # "ok" \/ b = 0 THEN a
      ELSE IF c.err # "ok" THEN c
      ELSE content_blocks(im, c, cur, [k \in 1 .. W |-> AsPtr(im.blk[b][k])],
                          "direct_address", "direct_address_once")

check_indirect_address(im, a, cur) ==
  LET b == IndirectBlock(im, cur)
      c == claim_block(im, a, b, "indirect_address", "indirect_address_once")
  IN  IF a.err # "ok" \/ b = 0 THEN a
      ELSE IF c.err # "ok" THEN c
      ELSE content_blocks(im, c, cur, [k \in 1 .. W |-> AsPtr(im.blk[b][k])],
                          "indirect_address", "indirect_address_once")

\* Mutant: a size that needs one block less is accepted.
size_fits_loose(size, sum) ==
  IF sum = 0 THEN size = 0 ELSE (sum - 1) * W <= size /\ size <= sum * W

size_fits(size, sum) ==
  IF sum = 0 THEN size = 0 ELSE (sum - 1) * W < size /\ size <= sum * W

\* The body of helper()'s first pass.
check_inode(im, a, i) ==
  LET type == im.inode[i].type
      c == check_indirect_address(im, check_direct_address(im,
             [a EXCEPT !.curcnt = 0, !.parcnt = 0, !.blkcnt = 0], i), i)
  IN  IF ~check_node_type(type) THEN Fail(a, "bad_inode")
      ELSE IF i = 0 \/ type = 0 THEN a
      ELSE IF c.err # "ok" THEN c
      ELSE IF type = T_DIR /\ (c.curcnt # 1 \/ c.parcnt # 1) THEN Fail(c, "directory_format")
      ELSE IF ~size_fits(im.inode[i].size, c.blkcnt) THEN Fail(c, "file_size")
      ELSE c

check_bitmap(im, a) ==
  IF a.err = "ok" /\ \E b \in im.bit \ a.visited : InRange(im, b)
  THEN Fail(a, "bitmap_marked_used") ELSE a

\* The walk along ".." with the seen[] array.
reaches_root(dotdot, i) ==
  LET walk[at \in (Inums \cup {-1}) \X SUBSET Inums] ==
        LET cur == at[1]
            seen == at[2]
        IN  \/ cur = ROOTINO
            \/ cur # -1 /\ cur \notin seen /\ walk[<<dotdot[cur], seen \cup {cur}>>]
  IN  walk[<<i, {}>>]

parent_ok(a, i) ==
  IF i = ROOTINO THEN a.dotdot[i] = ROOTINO
  ELSE a.entry[i] # -1 /\ a.dotdot[i] = a.entry[i]

\* The body of helper()'s second pass.
check_references(im, a, i) ==
  LET type == im.inode[i].type
      refs == a.refs[i]
  IN  CASE type # 0 /\ refs = 0 -> Fail(a, "used_inode_not_found")
        [] type = 0 /\ refs # 0 -> Fail(a, "inode_referred_marked")
        [] type = T_FILE /\ refs # 0 /\ im.inode[i].nlink # refs -> Fail(a, "reference_count")
        [] type = T_DIR /\ refs > 1 -> Fail(a, "directory_once")
        [] type = T_DIR /\ refs = 1 /\ ~parent_ok(a, i) -> Fail(a, "parent_directory")
        [] type = T_DIR /\ refs = 1 /\ parent_ok(a, i) /\ ~reaches_root(a.dotdot, i) ->
             Fail(a, "inaccessible")
        [] OTHER -> a

\* The two passes of helper() over the inode table.
numbers(im, lo) == [k \in 1 .. im.sb.ninodes - lo |-> lo + k - 1]
first_pass(im) == Scan(LAMBDA x, i : check_inode(im, x, i), Blank, numbers(im, 0))
second_pass(im, a) == Scan(LAMBDA x, i : check_references(im, x, i), a, numbers(im, 1))

\* main(): the exit message, "ok" when helper() returns.
myfsck(im) ==
  IF im.sb.size # im.sb.nblocks + DataStart(im.sb) THEN "superblock"
  ELSE second_pass(im, check_bitmap(im, first_pass(im))).err

---------------------------------------------------------------------------
\* What myfsck does not see: it never asks that the root is in use, and an
\* entry naming inode number ninodes is counted but never looked at.
BlindSpot(im) == Used(im) = {} \/ ~EntriesInTable(im)

\* What each message of log.h says of an image.  A directory that the walk along
\* ".." does not bring to the root can still be reached when some directory is
\* named twice.
TrueMessage(im, v) ==
  /\ v = "superblock" => ~LayoutOK(im)
  /\ v = "bad_inode" => ~TypesOK(im)
  /\ v = "directory_format" => ~FormatOK(im)
  /\ v = "direct_address" => ~DirectOK(im)
  /\ v = "indirect_address" => ~IndirectOK(im)
  /\ v \in {"direct_address_once", "indirect_address_once"} => ~OnceOK(im)
  /\ v = "used_address" => ~UsedAreMarked(im)
  /\ v = "file_size" => ~SizeOK(im)
  /\ v = "bitmap_marked_used" => ~MarkedAreUsed(im)
  /\ v = "used_inode_not_found" => ~UsedAreNamed(im)
  /\ v = "inode_referred_marked" => ~NamedAreUsed(im)
  /\ v = "reference_count" => ~LinksOK(im)
  /\ v = "directory_once" => ~DirOnceOK(im)
  /\ v = "parent_directory" => ~ParentsOK(im)
  /\ v = "inaccessible" => ~ParentsOK(im) \/ ~ReachOK(im) \/ ~DirOnceOK(im)
=============================================================================
