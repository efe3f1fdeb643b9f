--------------------------- MODULE FsckPassProofs ---------------------------
(***************************************************************************)
(* The first pass of myfsck over any image: what its arrays hold after it  *)
(* and which part of consistency it decides.                               *)
(***************************************************************************)
EXTENDS Fsck, FiniteSetTheorems, TLAPS

\* A nonempty collection of subsets of a finite set has a minimal member: the
\* inductions below take a smallest set at which a claim fails.
LEMMA MinimalSubset ==
  ASSUME NEW S, IsFiniteSet(S), NEW Bad, Bad \subseteq SUBSET S, Bad # {}
  PROVE  \E T \in Bad : \A U \in Bad : U \subseteq T => U = T
<1>1. IsWellFoundedOn(StrictSubsetOrdering(S), SUBSET S)
  BY FS_StrictSubsetOrderingWellFounded, FS_FiniteSubsetsOfFinite, Zenon
<1>2. \E T \in Bad : \A U \in Bad : ~(<<U, T>> \in StrictSubsetOrdering(S))
  BY <1>1, WFMin
<1> QED BY <1>2, Zenon DEF StrictSubsetOrdering

\* Counting up to n inside a set.
LEMMA CountUp ==
  ASSUME NEW n \in Nat, NEW G, 0 \in G, \A k \in 1 .. n : k - 1 \in G => k \in G
  PROVE  n \in G
<1> SUFFICES ASSUME n \notin G PROVE FALSE
  OBVIOUS
<1> DEFINE B == {m \in 0 .. n : m \notin G}
           A == {0 .. m : m \in B}
<1>1. PICK T \in A : \A U \in A : U \subseteq T => U = T
  <2> DEFINE S == 0 .. n
  <2>1. A \subseteq SUBSET S
    OBVIOUS
  <2>2. A # {}
    OBVIOUS
  <2>3. IsFiniteSet(S)
    BY FS_Interval
  <2> HIDE DEF A, S
  <2> QED BY ONLY <2>1, <2>2, <2>3, MinimalSubset
<1>2. PICK m \in 0 .. n : m \notin G /\ T = 0 .. m
  OBVIOUS
<1>3. m \in 1 .. n /\ m - 1 \in 0 .. n
  BY <1>2
<1>4. m - 1 \notin G
  BY <1>2, <1>3
<1>5. 0 .. m - 1 \in A
  BY <1>3, <1>4
<1>6. 0 .. m - 1 \subseteq T
  BY <1>2, <1>3
<1>7. 0 .. m - 1 = 0 .. m
  <2> HIDE DEF A
  <2> QED BY <1>1, <1>2, <1>5, <1>6
<1> QED BY <1>3, <1>7

\* A loop of n steps from a, and a loop whose k-th step leads from inv[k - 1] to
\* inv[k]: it has a run, and the states of the run are in inv.
IsRun(f, n, a, step) == f = [k \in 0 .. n |-> IF k = 0 THEN a ELSE step[k][f[k - 1]]]
StepsIn(n, step, inv) == \A k \in 1 .. n : \A x \in inv[k - 1] : step[k][x] \in inv[k]

\* A loop whose steps keep to inv has a run, and every state of it is in inv.
LEMMA RunExists ==
  ASSUME NEW n \in Nat, NEW a, NEW step, NEW inv, a \in inv[0], StepsIn(n, step, inv)
  PROVE  \E f : IsRun(f, n, a, step) /\ \A k \in 0 .. n : f[k] \in inv[k]
<1>0. \A k \in 1 .. n : \A x \in inv[k - 1] : step[k][x] \in inv[k]
  BY DEF StepsIn
<1> DEFINE Run(f, m) == /\ f = [k \in 0 .. m |-> IF k = 0 THEN a ELSE step[k][f[k - 1]]]
                        /\ \A k \in 0 .. m : f[k] \in inv[k]
           G == {m \in 0 .. n : \E f : Run(f, m)}
<1>1. 0 \in G
  <2> DEFINE h == [k \in 0 .. 0 |-> a]
  <2> HIDE DEF h, G
  <2>1. PICK f : f = h
    OBVIOUS
  <2> USE DEF h, G
  <2>2. f[0] = a /\ \A k \in 0 .. 0 : k = 0
    BY <2>1
  <2>3. f = [k \in 0 .. 0 |-> IF k = 0 THEN a ELSE step[k][f[k - 1]]]
    BY <2>1, <2>2
  <2>4. \A k \in 0 .. 0 : f[k] \in inv[k]
    BY <2>2
  <2>5. 0 \in 0 .. n /\ Run(f, 0)
    BY <2>3, <2>4
  <2> HIDE DEF Run
  <2> QED BY <2>5
<1>2. ASSUME NEW m \in 1 .. n, m - 1 \in G PROVE m \in G
  <2>1. PICK f : Run(f, m - 1)
    BY <1>2
  <2> DEFINE g == [k \in 0 .. m |-> IF k = m THEN step[m][f[m - 1]] ELSE f[k]]
  <2>2. \A k \in 0 .. m : k # m => g[k] = f[k] /\ k \in 0 .. m - 1
    OBVIOUS
  <2>3. g[m] = step[m][g[m - 1]]
    BY <2>2
  <2>4. g[0] = a
    <3>1. 0 \in 0 .. m - 1 /\ 0 \in 0 .. m /\ 0 # m
      OBVIOUS
    <3>2. f[0] = a
      BY <2>1, <3>1
    <3> QED BY <2>2, <3>1, <3>2
  <2>5. ASSUME NEW k \in 1 .. m, k # m PROVE g[k] = step[k][g[k - 1]]
    <3>1. k \in 0 .. m - 1 /\ k # 0 /\ k - 1 \in 0 .. m /\ k - 1 # m
      BY <2>5
    <3>2. f[k] = step[k][f[k - 1]]
      BY <2>1, <3>1
    <3> QED BY <2>2, <3>1, <3>2
  <2>6. \A k \in 0 .. m : g[k] \in inv[k]
    <3>1. m - 1 \in 0 .. m - 1 /\ f[m - 1] \in inv[m - 1]
      BY <2>1
    <3>2. g[m] \in inv[m]
      BY <1>0, <3>1
    <3> QED BY <2>1, <2>2, <3>2, Zenon
  <2>7. g = [k \in 0 .. m |-> IF k = 0 THEN a ELSE step[k][g[k - 1]]]
    <3>1. \A k \in 0 .. m : g[k] = IF k = 0 THEN a ELSE step[k][g[k - 1]]
      <4>1. \A k \in 0 .. m : k = 0 \/ k = m \/ (k \in 1 .. m /\ k # m)
        OBVIOUS
      <4> HIDE DEF g
      <4> QED BY <2>3, <2>4, <2>5, <4>1
    <3>2. g = [k \in 0 .. m |-> g[k]]
      OBVIOUS
    <3> HIDE DEF g
    <3> QED BY <3>1, <3>2
  <2>8. m \in 0 .. n /\ Run(g, m)
    <3>1. m \in 0 .. n
      OBVIOUS
    <3> HIDE DEF g
    <3> QED BY <2>6, <2>7, <3>1, Zenon
  <2> HIDE DEF g, Run
  <2> QED BY <2>8
<1>3. n \in G
  <2> HIDE DEF G
  <2> QED BY <1>1, <1>2, CountUp
<1> QED BY <1>3 DEF IsRun

\* What every state of a run satisfies, the last one does.
LEMMA RunEnds ==
  ASSUME NEW n \in Nat, NEW f, NEW inv, f[0] \in inv[0],
         \A k \in 1 .. n : f[k - 1] \in inv[k - 1] => f[k] \in inv[k]
  PROVE  f[n] \in inv[n]
<1> DEFINE G == {k \in 0 .. n : f[k] \in inv[k]}
<1>1. 0 \in G
  OBVIOUS
<1>2. \A k \in 1 .. n : k - 1 \in G => k \in G
  OBVIOUS
<1>3. n \in G
  <2> HIDE DEF G
  <2> QED BY <1>1, <1>2, CountUp
<1> QED BY <1>3

\* One more element counted in or not.
LEMMA CardAdd ==
  ASSUME NEW E, IsFiniteSet(E), NEW e, e \notin E, NEW E1, E1 = E \cup {e}, NEW F
  PROVE  /\ Cardinality(E \cap F) \in Nat
         /\ e \in F => Cardinality(E1 \cap F) = Cardinality(E \cap F) + 1
         /\ e \notin F => E1 \cap F = E \cap F
<1>1. IsFiniteSet(E \cap F) /\ Cardinality(E \cap F) \in Nat
  BY FS_Intersection, FS_CardinalityType, Zenon
<1>2. e \in F => (E \cup {e}) \cap F = (E \cap F) \cup {e}
  OBVIOUS
<1>3. e \notin F => (E \cup {e}) \cap F = E \cap F
  OBVIOUS
<1>4. Cardinality((E \cap F) \cup {e}) = Cardinality(E \cap F) + 1
  <2>1. e \notin E \cap F
    OBVIOUS
  <2> DEFINE G == E \cap F
  <2> HIDE DEF G
  <2> QED BY <1>1, <2>1, FS_AddElement, Zenon
<1> QED BY <1>1, <1>2, <1>3, <1>4

\* A function on 1 .. n is a sequence of length n.
LEMMA SeqOfLen ==
  ASSUME NEW n \in Nat, NEW S, NEW s \in [1 .. n -> S]
  PROVE  s \in Seq(S) /\ Len(s) = n
OBVIOUS

\* Division rounds down, and nothing else does.
LEMMA DivBounds ==
  ASSUME NEW a \in Int, NEW w \in Nat, w > 0
  PROVE  a \div w \in Int /\ w * (a \div w) <= a /\ a < w * (a \div w) + w
OBVIOUS

\* The quotient is the only number with its bounds.
LEMMA DivUnique ==
  ASSUME NEW a \in Int, NEW w \in Nat, w > 0, NEW q \in Int, w * q <= a, a < w * q + w
  PROVE  a \div w = q
<1> DEFINE p == a \div w
<1>1. p \in Int /\ w * p <= a /\ a < w * p + w
  BY DivBounds
<1> HIDE DEF p
<1>2. ASSUME NEW lo \in Int, NEW hi \in Int, lo < hi
      PROVE  w * hi >= w * lo + w
  <2>1. PICK d \in Nat : hi = lo + 1 + d
    <3>1. hi - lo - 1 \in Nat /\ hi = lo + 1 + (hi - lo - 1)
      BY <1>2
    <3> QED BY <3>1, Zenon
  <2>2. w * (lo + 1 + d) = w * lo + w + w * d
    OBVIOUS
  <2>3. w * d >= 0 /\ w * d \in Int /\ w * lo \in Int
    OBVIOUS
  <2> QED BY <2>1, <2>2, <2>3
<1>3. ~(p > q)
  BY <1>1, <1>2
<1>4. ~(p < q)
  BY <1>1, <1>2
<1> QED BY <1>1, <1>3, <1>4 DEF p

-----------------------------------------------------------------------------
(* What the first pass has gathered.  U: the uses of blocks that it has passed;  *)
(* E: the directory entries that it has passed.                                  *)

\* The states of the accumulator.
Acc == [err : Verdicts, visited : SUBSET Data, refs : [Inums -> Nat],
        dotdot : [Inums -> Int], entry : [Inums -> Int],
        curcnt : Nat, parcnt : Nat, blkcnt : Nat]

ChildEntries(im, i) == {e \in EntrySet(im) : IsChild(Word(im, e)) /\ Word(im, e).num = i}
Block(im, u) == Addr(im, u[1], u[2])

BlocksSeen(im, x, U) ==
  /\ x.visited = {Block(im, u) : u \in U}
  /\ \A u \in U : Block(im, u) \in Data /\ Block(im, u) \in im.bit
  /\ \A u, v \in U : Block(im, u) = Block(im, v) => u = v

RefsSeen(im, x, E) == \A i \in Inums : x.refs[i] = Cardinality(E \cap Naming(im, i))
DotSeen(im, E) == \A e \in E : Word(im, e).name = "." => Word(im, e).num = e[1][1]
DotDotSeen(im, x, E) ==
  \A i \in Inums :
     \/ x.dotdot[i] = -1 /\ E \cap Named(im, i, "..") = {}
     \/ \E e \in E \cap Named(im, i, "..") : x.dotdot[i] = Word(im, e).num
EntrySeen(im, x, E) ==
  \A i \in Inums : im.inode[i].type = T_DIR =>
     \/ x.entry[i] = -1 /\ E \cap ChildEntries(im, i) = {}
     \/ \E e \in E \cap ChildEntries(im, i) : x.entry[i] = e[1][1]
EntriesSeen(im, x, E) ==
  RefsSeen(im, x, E) /\ DotSeen(im, E) /\ DotDotSeen(im, x, E) /\ EntrySeen(im, x, E)

InodeSeen(im, x, i, U, E) ==
  /\ x.curcnt = Cardinality(E \cap Named(im, i, "."))
  /\ x.parcnt = Cardinality(E \cap Named(im, i, ".."))
  /\ x.blkcnt = Cardinality(U \cap ContentUses(im, i))

\* The accumulator while inode i is checked: it sums up U and E, or holds a true
\* message.
At(im, i, U, E) ==
  {x \in Acc : IF x.err = "ok"
               THEN BlocksSeen(im, x, U) /\ EntriesSeen(im, x, E) /\ InodeSeen(im, x, i, U, E)
               ELSE TrueMessage(im, x.err)}

\* What comes before slot k of inode i, and before the n-th word of its block.
UsesBefore(im, i, k) == {u \in Uses(im) : u[1] < i \/ (u[1] = i /\ u[2] < k)}
EntriesBefore(im, i, k, n) ==
  {e \in EntrySet(im) :
     e[1][1] < i \/ (e[1][1] = i /\ (e[1][2] < k \/ (e[1][2] = k /\ e[2] < n)))}

-----------------------------------------------------------------------------
\* What FsAssumption says of the single constants.
LEMMA Numbers ==
  /\ NINODES \in Nat /\ NBLOCKS \in Nat /\ SIZE \in Nat /\ NDIRECT \in Nat /\ W \in Nat
  /\ IPB \in Nat /\ BPB \in Nat
  /\ NINODES > 1 /\ NDIRECT > 0 /\ W > 1 /\ IPB > 0 /\ BPB > 0
  /\ ROOTINO \in Inums /\ 0 \in Inums
BY FsAssumption DEF ROOTINO, Inums

\* The inode numbers of an image are indices of the arrays of helper().
LEMMA InodesIn ==
  ASSUME NEW im, IsImage(im)
  PROVE  /\ Inodes(im) \subseteq Inums /\ Used(im) \subseteq Inodes(im)
         /\ Dirs(im) \subseteq Used(im) /\ Inums \subseteq Nat
         /\ im.sb.ninodes \in Nat
BY Numbers DEF IsImage, Inodes, Used, Dirs, Inums, T_DIR

\* An image has finitely many block uses and directory entries.
LEMMA FiniteSets ==
  ASSUME NEW im, IsImage(im)
  PROVE  IsFiniteSet(Uses(im)) /\ IsFiniteSet(EntrySet(im))
<1>1. IsFiniteSet(Inums) /\ IsFiniteSet(Slots) /\ IsFiniteSet(1 .. W)
  BY Numbers, FS_Interval DEF Inums, Slots
<1>2. Used(im) \subseteq Inums /\ Dirs(im) \subseteq Inums
  BY InodesIn
<1>3. Uses(im) \subseteq Inums \X Slots
  BY <1>2 DEF Uses
<1>4. EntrySet(im) \subseteq (Inums \X Slots) \X (1 .. W)
  BY <1>2 DEF EntrySet, DirSlots
<1>5. IsFiniteSet(Inums \X Slots)
  BY <1>1, FS_Product
<1>6. IsFiniteSet((Inums \X Slots) \X (1 .. W))
  BY <1>1, <1>5, FS_Product, Zenon
<1> QED BY <1>3, <1>4, <1>5, <1>6, FS_Subset

-----------------------------------------------------------------------------
(* One directory entry.                                                          *)

\* An accumulator and its fields.
LEMMA Fields ==
  ASSUME NEW x \in Acc
  PROVE  /\ x.err \in Verdicts /\ x.visited \in SUBSET Data /\ x.refs \in [Inums -> Nat]
         /\ x.dotdot \in [Inums -> Int] /\ x.entry \in [Inums -> Int]
         /\ x.curcnt \in Nat /\ x.parcnt \in Nat /\ x.blkcnt \in Nat
BY DEF Acc

\* exit(1) with a message leaves the arrays as they are.
LEMMA FailAcc ==
  ASSUME NEW x \in Acc, NEW v \in Verdicts
  PROVE  Fail(x, v) \in Acc /\ Fail(x, v).err = v
<1>1. Fail(x, v) = [err |-> v, visited |-> x.visited, refs |-> x.refs, dotdot |-> x.dotdot,
                    entry |-> x.entry, curcnt |-> x.curcnt, parcnt |-> x.parcnt,
                    blkcnt |-> x.blkcnt]
  BY DEF Acc, Fail
<1> QED BY <1>1 DEF Acc

\* What reading a free entry, ".", ".." or a child does to the accumulator.
LEMMA ScanFree ==
  ASSUME NEW im, NEW x, NEW d, NEW w, w.num = 0
  PROVE  scan_entry(im, x, d, w) = x
BY DEF scan_entry

SameBlocks(x, y) == y.err = x.err /\ y.visited = x.visited /\ y.blkcnt = x.blkcnt
DotRead(x, y, d) ==
  /\ SameBlocks(x, y) /\ y.dotdot = x.dotdot /\ y.entry = x.entry
  /\ y.curcnt = x.curcnt + 1 /\ y.parcnt = x.parcnt
  /\ \A i \in Inums : y.refs[i] = IF i = ROOTINO /\ d = ROOTINO THEN x.refs[i] + 1 ELSE x.refs[i]
DotDotRead(x, y, d, p) ==
  /\ SameBlocks(x, y) /\ y.refs = x.refs /\ y.entry = x.entry
  /\ y.curcnt = x.curcnt /\ y.parcnt = x.parcnt + 1
  /\ \A i \in Inums : y.dotdot[i] = IF i = d THEN p ELSE x.dotdot[i]
ChildRead(im, x, y, d, c) ==
  /\ SameBlocks(x, y)
  /\ y.dotdot = x.dotdot /\ y.curcnt = x.curcnt /\ y.parcnt = x.parcnt
  /\ \A i \in Inums : y.refs[i] = IF i = c THEN x.refs[i] + 1 ELSE x.refs[i]
  /\ \A i \in Inums : y.entry[i] = IF i = c /\ im.inode[i].type = T_DIR THEN d ELSE x.entry[i]

\* The branch of traverse_dirent for ".".
LEMMA ScanDot ==
  ASSUME NEW im, NEW x \in Acc, NEW d, NEW w, w.num # 0, w.name = ".", NEW y,
         y = scan_entry(im, x, d, w)
  PROVE  /\ y \in Acc
         /\ w.num # d => y.err = "directory_format"
         /\ w.num = d => DotRead(x, y, d)
<1>1. CASE w.num # d
  <2>1. y = Fail(x, "directory_format")
    BY <1>1, Zenon DEF scan_entry
  <2>2. "directory_format" \in Verdicts
    BY DEF Verdicts
  <2> QED BY <1>1, <2>1, <2>2, FailAcc
<1>2. CASE w.num = d
  <2>1. PICK r : r = [x.refs EXCEPT ![ROOTINO] = IF d = ROOTINO THEN @ + 1 ELSE @]
    BY Zenon
  <2>2. y = [err |-> x.err, visited |-> x.visited, refs |-> r, dotdot |-> x.dotdot,
             entry |-> x.entry, curcnt |-> x.curcnt + 1, parcnt |-> x.parcnt,
             blkcnt |-> x.blkcnt]
    BY <1>2, <2>1, Zenon DEF scan_entry, Acc
  <2>3. x.refs \in [Inums -> Nat] /\ x.curcnt \in Nat
    BY Fields
  <2>4. /\ r \in [Inums -> Nat]
        /\ \A i \in Inums : r[i] = IF i = ROOTINO /\ d = ROOTINO THEN x.refs[i] + 1 ELSE x.refs[i]
    <3>1. PICK n : n = IF d = ROOTINO THEN x.refs[ROOTINO] + 1 ELSE x.refs[ROOTINO]
      BY Zenon
    <3>2. n \in Nat
      BY <2>3, <3>1, Numbers
    <3>3. r = [x.refs EXCEPT ![ROOTINO] = n]
      BY <2>1, <3>1, Zenon
    <3> QED BY <2>3, <3>1, <3>2, <3>3, Zenon
  <2>5. x.curcnt + 1 \in Nat
    BY <2>3
  <2>6. y \in Acc
    BY <2>2, <2>4, <2>5 DEF Acc
  <2>7. /\ y.err = x.err /\ y.visited = x.visited /\ y.blkcnt = x.blkcnt
        /\ y.dotdot = x.dotdot /\ y.entry = x.entry /\ y.refs = r
        /\ y.curcnt = x.curcnt + 1 /\ y.parcnt = x.parcnt
    BY <2>2
  <2> QED BY <1>2, <2>4, <2>6, <2>7 DEF DotRead, SameBlocks
<1> QED BY <1>1, <1>2

\* The branch of traverse_dirent for "..".
LEMMA ScanDotDot ==
  ASSUME NEW im, NEW x \in Acc, NEW d, NEW w, w.num # 0, w.num \in Inums, w.name = "..", NEW y,
         y = scan_entry(im, x, d, w)
  PROVE  /\ y \in Acc
         /\ DotDotRead(x, y, d, w.num)
<1>1. PICK r : r = [x.dotdot EXCEPT ![d] = w.num]
  BY Zenon
<1>2. y = [err |-> x.err, visited |-> x.visited, refs |-> x.refs, dotdot |-> r,
           entry |-> x.entry, curcnt |-> x.curcnt, parcnt |-> x.parcnt + 1,
           blkcnt |-> x.blkcnt]
  BY <1>1, Zenon DEF scan_entry, Acc
<1>3. x.dotdot \in [Inums -> Int] /\ x.parcnt \in Nat /\ w.num \in Int
  BY Fields DEF Inums
<1>4. r \in [Inums -> Int] /\ \A i \in Inums : r[i] = IF i = d THEN w.num ELSE x.dotdot[i]
  BY <1>1, <1>3, Zenon
<1>5. x.parcnt + 1 \in Nat
  BY <1>3
<1>6. y \in Acc
  BY <1>2, <1>4, <1>5 DEF Acc
<1>7. /\ y.err = x.err /\ y.visited = x.visited /\ y.blkcnt = x.blkcnt
      /\ y.dotdot = r /\ y.entry = x.entry /\ y.refs = x.refs
      /\ y.curcnt = x.curcnt /\ y.parcnt = x.parcnt + 1
  BY <1>2
<1> QED BY <1>4, <1>6, <1>7 DEF DotDotRead, SameBlocks

\* The branch of traverse_dirent for any other name.
LEMMA ScanChild ==
  ASSUME NEW im, NEW x \in Acc, NEW d \in Int, NEW w, w.num # 0, w.num \in Inums, IsChild(w),
         NEW y, y = scan_entry(im, x, d, w)
  PROVE  /\ y \in Acc
         /\ ChildRead(im, x, y, d, w.num)
<1>1. PICK r : r = [x.refs EXCEPT ![w.num] = @ + 1]
  BY Zenon
<1>2. PICK n : n = [x.entry EXCEPT ![w.num] = IF im.inode[w.num].type = T_DIR THEN d ELSE @]
  BY Zenon
<1>3. y = [err |-> x.err, visited |-> x.visited, refs |-> r, dotdot |-> x.dotdot,
           entry |-> n, curcnt |-> x.curcnt, parcnt |-> x.parcnt, blkcnt |-> x.blkcnt]
  BY <1>1, <1>2, Zenon DEF scan_entry, Acc, IsChild
<1>4. x.refs \in [Inums -> Nat] /\ x.entry \in [Inums -> Int]
  BY Fields
<1>5. r \in [Inums -> Nat] /\ \A i \in Inums : r[i] = IF i = w.num THEN x.refs[i] + 1 ELSE x.refs[i]
  BY <1>1, <1>4
<1>6. /\ n \in [Inums -> Int]
      /\ \A i \in Inums : n[i] = IF i = w.num /\ im.inode[i].type = T_DIR THEN d ELSE x.entry[i]
  BY <1>2, <1>4
<1>7. y \in Acc
  BY <1>3, <1>5, <1>6 DEF Acc
<1>8. /\ y.err = x.err /\ y.visited = x.visited /\ y.blkcnt = x.blkcnt
      /\ y.dotdot = x.dotdot /\ y.entry = n /\ y.refs = r
      /\ y.curcnt = x.curcnt /\ y.parcnt = x.parcnt
  BY <1>3
<1> QED BY <1>5, <1>6, <1>7, <1>8 DEF ChildRead, SameBlocks


\* The kinds of entries, one at a time.
LEMMA EntryKind ==
  ASSUME NEW im, NEW e \in EntrySet(im), NEW w, w = Word(im, e)
  PROVE  /\ \A j : e \in Naming(im, j)
                <=> w.num = j /\ (IsChild(w) \/ (w.name = "." /\ e[1][1] = ROOTINO))
         /\ \A j : e \in ChildEntries(im, j) <=> IsChild(w) /\ w.num = j
         /\ \A j, name : e \in Named(im, j, name) <=> e[1][1] = j /\ w.name = name
BY DEF Naming, ChildEntries, Named

\* What one more entry adds to the counts.
LEMMA EntryCounts ==
  ASSUME NEW E, IsFiniteSet(E), NEW e, e \notin E, NEW E1, E1 = E \cup {e}, NEW im
  PROVE  /\ \A j : e \in Naming(im, j) =>
                Cardinality(E1 \cap Naming(im, j)) = Cardinality(E \cap Naming(im, j)) + 1
         /\ \A j : e \notin Naming(im, j) => E1 \cap Naming(im, j) = E \cap Naming(im, j)
         /\ \A j, name : e \in Named(im, j, name) =>
                Cardinality(E1 \cap Named(im, j, name)) = Cardinality(E \cap Named(im, j, name)) + 1
         /\ \A j, name : e \notin Named(im, j, name) =>
                E1 \cap Named(im, j, name) = E \cap Named(im, j, name)
         /\ \A j : e \notin ChildEntries(im, j) =>
                E1 \cap ChildEntries(im, j) = E \cap ChildEntries(im, j)
BY CardAdd

\* ".": it must name its directory; only the root's counts as a name.
LEMMA DotStep ==
  ASSUME NEW im, NEW i, NEW U, NEW E, IsFiniteSet(E), NEW e \in EntrySet(im), e \notin E,
         e[1][1] = i, i \in Inums, NEW E1, E1 = E \cup {e},
         NEW w, w = Word(im, e), w.name = ".", w.num = i,
         NEW x \in Acc, EntriesSeen(im, x, E), InodeSeen(im, x, i, U, E),
         NEW y, DotRead(x, y, i)
  PROVE  EntriesSeen(im, y, E1) /\ InodeSeen(im, y, i, U, E1)
<1>2. /\ \A j : e \in Naming(im, j) <=> j = i /\ i = ROOTINO
      /\ \A j : e \notin ChildEntries(im, j)
      /\ e \in Named(im, i, ".")
      /\ \A j : e \notin Named(im, j, "..")
  BY EntryKind DEF IsChild
<1>3. RefsSeen(im, y, E1)
  <2>1. ASSUME NEW j \in Inums PROVE y.refs[j] = Cardinality(E1 \cap Naming(im, j))
    <3>1. x.refs[j] = Cardinality(E \cap Naming(im, j))
      BY DEF EntriesSeen, RefsSeen
    <3>2. y.refs[j] = IF e \in Naming(im, j) THEN x.refs[j] + 1 ELSE x.refs[j]
      BY <1>2 DEF DotRead
    <3>3. /\ e \in Naming(im, j) =>
               Cardinality(E1 \cap Naming(im, j)) = Cardinality(E \cap Naming(im, j)) + 1
          /\ e \notin Naming(im, j) => E1 \cap Naming(im, j) = E \cap Naming(im, j)
      BY CardAdd
    <3> QED BY <3>1, <3>2, <3>3
  <2> QED BY <2>1 DEF RefsSeen
<1>4. DotSeen(im, E1)
  BY DEF EntriesSeen, DotSeen
<1>5. DotDotSeen(im, y, E1)
  BY <1>2, EntryCounts DEF EntriesSeen, DotDotSeen, DotRead
<1>6. EntrySeen(im, y, E1)
  BY <1>2, EntryCounts DEF EntriesSeen, EntrySeen, DotRead
<1>7. InodeSeen(im, y, i, U, E1)
  <2>1. Cardinality(E1 \cap Named(im, i, ".")) = Cardinality(E \cap Named(im, i, ".")) + 1
    BY <1>2, CardAdd
  <2>2. E1 \cap Named(im, i, "..") = E \cap Named(im, i, "..")
    BY <1>2, CardAdd
  <2> QED BY <2>1, <2>2, Zenon DEF InodeSeen, DotRead, SameBlocks
<1> QED BY <1>3, <1>4, <1>5, <1>6, <1>7 DEF EntriesSeen

\* "..": it is what the directory says its parent is.
LEMMA DotDotStep ==
  ASSUME NEW im, NEW i, NEW U, NEW E, IsFiniteSet(E), NEW e \in EntrySet(im), e \notin E,
         e[1][1] = i, i \in Inums, NEW E1, E1 = E \cup {e},
         NEW w, w = Word(im, e), w.name = "..", w.num \in Inums,
         NEW x \in Acc, EntriesSeen(im, x, E), InodeSeen(im, x, i, U, E),
         NEW y, DotDotRead(x, y, i, w.num)
  PROVE  EntriesSeen(im, y, E1) /\ InodeSeen(im, y, i, U, E1)
<1>2. /\ \A j : e \notin Naming(im, j)
      /\ \A j : e \notin ChildEntries(im, j)
      /\ \A j : e \in Named(im, j, "..") <=> j = i
      /\ \A j : e \notin Named(im, j, ".")
  BY EntryKind DEF IsChild
<1>3. RefsSeen(im, y, E1)
  <2>1. ASSUME NEW j \in Inums PROVE y.refs[j] = Cardinality(E1 \cap Naming(im, j))
    <3>1. x.refs[j] = Cardinality(E \cap Naming(im, j))
      BY DEF EntriesSeen, RefsSeen
    <3>2. y.refs[j] = IF e \in Naming(im, j) THEN x.refs[j] + 1 ELSE x.refs[j]
      BY <1>2 DEF DotDotRead
    <3>3. /\ e \in Naming(im, j) =>
               Cardinality(E1 \cap Naming(im, j)) = Cardinality(E \cap Naming(im, j)) + 1
          /\ e \notin Naming(im, j) => E1 \cap Naming(im, j) = E \cap Naming(im, j)
      BY CardAdd
    <3> QED BY <3>1, <3>2, <3>3
  <2> QED BY <2>1 DEF RefsSeen
<1>4. DotSeen(im, E1)
  BY DEF EntriesSeen, DotSeen
<1>5. DotDotSeen(im, y, E1)
  <2> SUFFICES ASSUME NEW j \in Inums
               PROVE  \/ y.dotdot[j] = -1 /\ E1 \cap Named(im, j, "..") = {}
                      \/ \E a \in E1 \cap Named(im, j, "..") : y.dotdot[j] = Word(im, a).num
    BY DEF DotDotSeen
  <2>1. CASE j = i
    BY <1>2, <2>1 DEF DotDotRead
  <2>2. CASE j # i
    <3>1. E1 \cap Named(im, j, "..") = E \cap Named(im, j, "..") /\ y.dotdot[j] = x.dotdot[j]
      BY <1>2, <2>2, EntryCounts DEF DotDotRead
    <3> QED BY <3>1 DEF EntriesSeen, DotDotSeen, DotDotRead
  <2> QED BY <2>1, <2>2
<1>6. EntrySeen(im, y, E1)
  BY <1>2, EntryCounts DEF EntriesSeen, EntrySeen, DotDotRead
<1>7. InodeSeen(im, y, i, U, E1)
  <2>1. E1 \cap Named(im, i, ".") = E \cap Named(im, i, ".")
    BY <1>2, CardAdd
  <2>2. Cardinality(E1 \cap Named(im, i, "..")) = Cardinality(E \cap Named(im, i, "..")) + 1
    BY <1>2, CardAdd
  <2> QED BY <2>1, <2>2, Zenon DEF InodeSeen, DotDotRead, SameBlocks
<1> QED BY <1>3, <1>4, <1>5, <1>6, <1>7 DEF EntriesSeen

\* Any other name: one more reference, and a parent if it names a directory.
LEMMA ChildStep ==
  ASSUME NEW im, NEW i, NEW U, NEW E, IsFiniteSet(E), NEW e \in EntrySet(im), e \notin E,
         e[1][1] = i, i \in Inums, i \in Int, NEW E1, E1 = E \cup {e},
         NEW w, w = Word(im, e), IsChild(w), w.num \in Inums,
         NEW x \in Acc, EntriesSeen(im, x, E), InodeSeen(im, x, i, U, E),
         NEW y, ChildRead(im, x, y, i, w.num)
  PROVE  EntriesSeen(im, y, E1) /\ InodeSeen(im, y, i, U, E1)
<1>2. /\ \A j : e \in Naming(im, j) <=> j = w.num
      /\ \A j : e \in ChildEntries(im, j) <=> j = w.num
      /\ \A j : e \notin Named(im, j, "..")
      /\ \A j : e \notin Named(im, j, ".")
  BY EntryKind DEF IsChild
<1>3. RefsSeen(im, y, E1)
  <2>1. ASSUME NEW j \in Inums PROVE y.refs[j] = Cardinality(E1 \cap Naming(im, j))
    <3>1. x.refs[j] = Cardinality(E \cap Naming(im, j))
      BY Zenon DEF EntriesSeen, RefsSeen
    <3>2. y.refs[j] = IF e \in Naming(im, j) THEN x.refs[j] + 1 ELSE x.refs[j]
      BY <1>2 DEF ChildRead
    <3>3. /\ e \in Naming(im, j) =>
               Cardinality(E1 \cap Naming(im, j)) = Cardinality(E \cap Naming(im, j)) + 1
          /\ e \notin Naming(im, j) => E1 \cap Naming(im, j) = E \cap Naming(im, j)
      BY CardAdd
    <3> QED BY <3>1, <3>2, <3>3, Zenon
  <2> QED BY <2>1 DEF RefsSeen
<1>4. DotSeen(im, E1)
  BY DEF EntriesSeen, DotSeen, IsChild
<1>5. DotDotSeen(im, y, E1)
  <2>1. ASSUME NEW j \in Inums PROVE E1 \cap Named(im, j, "..") = E \cap Named(im, j, "..")
    BY <1>2, CardAdd
  <2>2. y.dotdot = x.dotdot /\ DotDotSeen(im, x, E)
    BY DEF EntriesSeen, ChildRead
  <2> QED BY <2>1, <2>2 DEF DotDotSeen
<1>6. EntrySeen(im, y, E1)
  <2> SUFFICES ASSUME NEW j \in Inums, im.inode[j].type = T_DIR
               PROVE  \/ y.entry[j] = -1 /\ E1 \cap ChildEntries(im, j) = {}
                      \/ \E a \in E1 \cap ChildEntries(im, j) : y.entry[j] = a[1][1]
    BY DEF EntrySeen
  <2>1. CASE j = w.num
    BY <1>2, <2>1, Zenon DEF ChildRead
  <2>2. CASE j # w.num
    <3>1. E1 \cap ChildEntries(im, j) = E \cap ChildEntries(im, j) /\ y.entry[j] = x.entry[j]
      BY <1>2, <2>2, EntryCounts DEF ChildRead
    <3> QED BY <3>1 DEF EntriesSeen, EntrySeen, ChildRead
  <2> QED BY <2>1, <2>2
<1>7. InodeSeen(im, y, i, U, E1)
  <2>1. E1 \cap Named(im, i, ".") = E \cap Named(im, i, ".")
    BY <1>2, CardAdd
  <2>2. E1 \cap Named(im, i, "..") = E \cap Named(im, i, "..")
    BY <1>2, CardAdd
  <2> QED BY <2>1, <2>2, Zenon DEF InodeSeen, ChildRead, SameBlocks
<1> QED BY <1>3, <1>4, <1>5, <1>6, <1>7 DEF EntriesSeen


\* An entry that has been read is a free one, ".", ".." or a child.
LEMMA EntryStep ==
  ASSUME NEW im, IsImage(im), NEW i, NEW k, NEW n \in 1 .. W, <<i, k>> \in DirSlots(im),
         NEW e, e = <<<<i, k>>, n>>, NEW w, w = Word(im, e), NEW U,
         NEW E \in SUBSET EntrySet(im), e \notin E, NEW E1, E1 = E \cup ({e} \cap EntrySet(im)),
         NEW x \in At(im, i, U, E), x.err = "ok", NEW y, y = scan_entry(im, x, i, w)
  PROVE  y \in At(im, i, U, E1)
<1>1. i \in Dirs(im) /\ i \in Inums /\ i \in Int /\ e[1][1] = i
  BY InodesIn DEF DirSlots
<1>2. e \in DirSlots(im) \X (1 .. W)
  OBVIOUS
<1>3. w.num \in Inums
  BY <1>2 DEF IsImage
<1>4. /\ x \in Acc /\ BlocksSeen(im, x, U) /\ EntriesSeen(im, x, E)
      /\ InodeSeen(im, x, i, U, E)
  BY DEF At
<1>5. IsFiniteSet(E)
  BY FiniteSets, FS_Subset
<1>6. CASE w.num = 0
  <2>1. e \notin EntrySet(im)
    BY <1>6 DEF EntrySet
  <2>2. E1 = E
    BY <2>1
  <2> QED BY <1>6, <2>2, ScanFree
<1>7. CASE w.num # 0
  <2>1. e \in EntrySet(im)
    BY <1>2, <1>7 DEF EntrySet
  <2>2. E1 = E \cup {e}
    BY <2>1
  <2>3. ASSUME y \in Acc, SameBlocks(x, y), EntriesSeen(im, y, E1), InodeSeen(im, y, i, U, E1)
        PROVE  y \in At(im, i, U, E1)
    <3>1. BlocksSeen(im, y, U)
      BY <1>4, <2>3 DEF BlocksSeen, SameBlocks
    <3> QED BY <2>3, <3>1 DEF At, SameBlocks
  <2>4. CASE w.name = "." /\ w.num # i
    <3>1. y \in Acc /\ y.err = "directory_format"
      BY <1>4, <1>7, <2>4, ScanDot
    <3>2. e \in Named(im, i, ".")
      BY <1>1, <2>1, <2>4, EntryKind
    <3>3. ~FormatOK(im)
      BY <1>1, <2>4, <3>2 DEF FormatOK
    <3>4. TrueMessage(im, y.err)
      BY <3>1, <3>3 DEF TrueMessage
    <3> QED BY <3>1, <3>4 DEF At
  <2>5. CASE w.name = "." /\ w.num = i
    <3>1. y \in Acc /\ DotRead(x, y, i)
      BY <1>4, <1>7, <2>5, ScanDot
    <3>2. EntriesSeen(im, y, E1) /\ InodeSeen(im, y, i, U, E1)
      BY <1>1, <1>4, <1>5, <2>1, <2>2, <2>5, <3>1, DotStep
    <3> QED BY <2>3, <3>1, <3>2 DEF DotRead
  <2>6. CASE w.name = ".."
    <3>1. y \in Acc /\ DotDotRead(x, y, i, w.num)
      BY <1>3, <1>4, <1>7, <2>6, ScanDotDot
    <3>2. EntriesSeen(im, y, E1) /\ InodeSeen(im, y, i, U, E1)
      BY <1>1, <1>3, <1>4, <1>5, <2>1, <2>2, <2>6, <3>1, DotDotStep
    <3> QED BY <2>3, <3>1, <3>2 DEF DotDotRead
  <2>7. CASE IsChild(w)
    <3>1. y \in Acc /\ ChildRead(im, x, y, i, w.num)
      BY <1>1, <1>3, <1>4, <1>7, <2>7, ScanChild
    <3>2. EntriesSeen(im, y, E1) /\ InodeSeen(im, y, i, U, E1)
      BY <1>1, <1>3, <1>4, <1>5, <2>1, <2>2, <2>7, <3>1, ChildStep, Zenon
    <3> QED BY <2>3, <3>1, <3>2 DEF ChildRead
  <2> QED BY <2>4, <2>5, <2>6, <2>7 DEF IsChild
<1> QED BY <1>6, <1>7

\* The shape of an entry.
LEMMA EntryShape ==
  ASSUME NEW im, IsImage(im), NEW d \in EntrySet(im)
  PROVE  /\ d = <<<<d[1][1], d[1][2]>>, d[2]>>
         /\ d[1][1] \in Int /\ d[1][2] \in 1 .. NDIRECT + 1 + W /\ d[2] \in 1 .. W
BY InodesIn, Numbers DEF EntrySet, DirSlots, Slots

\* Entries are passed one by one, block by block.
LEMMA EntriesNext ==
  ASSUME NEW im, IsImage(im), NEW i \in Int, NEW k \in Int, NEW n \in 1 .. W, NEW e, e = <<<<i, k>>, n>>
  PROVE  /\ EntriesBefore(im, i, k, n) \subseteq EntrySet(im)
         /\ e \notin EntriesBefore(im, i, k, n)
         /\ EntriesBefore(im, i, k, n + 1) = EntriesBefore(im, i, k, n) \cup ({e} \cap EntrySet(im))
<1>2. EntriesBefore(im, i, k, n) \subseteq EntrySet(im) /\ e \notin EntriesBefore(im, i, k, n)
  BY DEF EntriesBefore
<1>3. EntriesBefore(im, i, k, n + 1) = EntriesBefore(im, i, k, n) \cup ({e} \cap EntrySet(im))
  <2>1. ASSUME NEW d \in EntrySet(im)
        PROVE  d \in EntriesBefore(im, i, k, n + 1) <=> d \in EntriesBefore(im, i, k, n) \/ d = e
    BY EntryShape DEF EntriesBefore
  <2> QED BY <2>1 DEF EntriesBefore
<1> QED BY <1>2, <1>3

\* When the loop over a block ends, all its entries are passed.
LEMMA EntriesOfBlock ==
  ASSUME NEW im, IsImage(im), NEW i \in Int, NEW k \in Int
  PROVE  EntriesBefore(im, i, k, W + 1) = EntriesBefore(im, i, k + 1, 1)
<1>1. ASSUME NEW d \in EntrySet(im)
      PROVE  d \in EntriesBefore(im, i, k, W + 1) <=> d \in EntriesBefore(im, i, k + 1, 1)
  BY EntryShape, Numbers DEF EntriesBefore
<1> QED BY <1>1 DEF EntriesBefore


\* One block of a directory.
LEMMA TraverseDirent ==
  ASSUME NEW im, IsImage(im), NEW i, NEW k, <<i, k>> \in DirSlots(im),
         NEW b, b = Addr(im, i, k), NEW U, NEW a \in At(im, i, U, EntriesBefore(im, i, k, 1))
  PROVE  traverse_dirent(im, a, b, i) \in At(im, i, U, EntriesBefore(im, i, k + 1, 1))
<1> DEFINE inv == [n \in 0 .. W |-> At(im, i, U, EntriesBefore(im, i, k, n + 1))]
           s == im.blk[b]
           body(x, n) == IF x.err = "ok" THEN scan_entry(im, x, i, s[n]) ELSE x
           step == [n \in 1 .. W |-> [x \in Acc |-> body(x, n)]]
           Run(f) == f = [n \in 0 .. W |-> IF n = 0 THEN a ELSE body(f[n - 1], n)]
<1>0. W \in Nat /\ i \in Int /\ k \in Int
  BY Numbers, InodesIn DEF DirSlots, Slots
<1>1. Len(s) = W
  <2>1. b \in Data
    BY DEF DirSlots
  <2>2. s \in [1 .. W -> [num : Int, name : Names]]
    BY <2>1 DEF IsImage
  <2> HIDE DEF s
  <2> QED BY <1>0, <2>2, SeqOfLen
<1>2. ASSUME NEW n \in 1 .. W, NEW x \in inv[n - 1]
      PROVE  x \in Acc /\ body(x, n) \in inv[n]
  <2> DEFINE E == EntriesBefore(im, i, k, n)
             E1 == EntriesBefore(im, i, k, n + 1)
             e == <<<<i, k>>, n>>
  <2>1. n - 1 \in 0 .. W /\ n \in 0 .. W /\ n - 1 + 1 = n
    BY <1>0
  <2>2. x \in At(im, i, U, E) /\ inv[n] = At(im, i, U, E1)
    BY <1>2, <2>1
  <2>3. E \in SUBSET EntrySet(im) /\ e \notin E /\ E1 = E \cup ({e} \cap EntrySet(im))
    BY <1>0, EntriesNext
  <2>4. s[n] = Word(im, e)
    BY DEF Word
  <2> HIDE DEF inv, s, E, E1
  <2>5. CASE x.err = "ok"
    <3>1. scan_entry(im, x, i, s[n]) \in At(im, i, U, E1)
      BY <2>2, <2>3, <2>4, <2>5, EntryStep
    <3> QED BY <2>2, <2>5, <3>1 DEF At
  <2>6. CASE x.err # "ok"
    BY <2>2, <2>6 DEF At
  <2> QED BY <2>5, <2>6
<1>3. a \in inv[0] /\ inv[W] = At(im, i, U, EntriesBefore(im, i, k + 1, 1))
  <2>1. 0 \in 0 .. W /\ W \in 0 .. W /\ 0 + 1 = 1 /\ 1 \in 1 .. W
    BY Numbers
  <2>2. EntriesBefore(im, i, k, W + 1) = EntriesBefore(im, i, k + 1, 1)
    BY <1>0, EntriesOfBlock
  <2> QED BY <2>1, <2>2
<1>4. \E f : Run(f)
  <2>1. StepsIn(W, step, inv)
    <3> HIDE DEF inv, body
    <3> QED BY <1>2 DEF StepsIn
  <2>2. PICK f : IsRun(f, W, a, step) /\ \A n \in 0 .. W : f[n] \in inv[n]
    <3> HIDE DEF inv, step
    <3> QED BY <1>0, <1>3, <2>1, RunExists, Zenon
  <2>3. ASSUME NEW n \in 1 .. W PROVE step[n][f[n - 1]] = body(f[n - 1], n)
    <3>1. n - 1 \in 0 .. W
      BY <1>0
    <3>2. f[n - 1] \in Acc
      BY <1>2, <2>2, <3>1, Zenon
    <3> HIDE DEF body
    <3> QED BY <3>2
  <2>4. Run(f)
    <3> HIDE DEF body, step
    <3>1. \A n \in 0 .. W : n # 0 => n \in 1 .. W
      BY <1>0
    <3> QED BY <2>2, <2>3, <3>1, Zenon DEF IsRun
  <2> HIDE DEF Run
  <2> QED BY <2>4
<1>5. PICK f : Run(f) /\ traverse_dirent(im, a, b, i) = f[W]
  <2>1. traverse_dirent(im, a, b, i) = (CHOOSE f : Run(f))[W]
    BY <1>1 DEF traverse_dirent, Scan
  <2> HIDE DEF Run
  <2> QED BY <1>4, <2>1, Zenon
<1>6. f[W] \in inv[W]
  <2>1. f[0] \in inv[0]
    BY <1>0, <1>3, <1>5
  <2>2. ASSUME NEW n \in 1 .. W, f[n - 1] \in inv[n - 1] PROVE f[n] \in inv[n]
    <3>1. f[n] = body(f[n - 1], n)
      BY <1>0, <1>5
    <3> HIDE DEF inv, body
    <3> QED BY <1>2, <2>2, <3>1
  <2> HIDE DEF inv
  <2> QED BY <1>0, <2>1, <2>2, RunEnds
<1> QED BY <1>3, <1>5, <1>6


-----------------------------------------------------------------------------
(* One block number.                                                             *)

LEMMA DataPositive ==
  /\ DataStart(superblock) \in Int /\ DataStart(superblock) > 0
  /\ Data \subseteq Int /\ 0 \notin Data
<1>1. superblock.ninodes = NINODES /\ superblock.size = SIZE
  BY DEF superblock
<1>2. /\ NINODES \div IPB \in Int /\ SIZE \div BPB \in Int
      /\ NINODES \div IPB >= 0 /\ SIZE \div BPB >= 0
  BY Numbers
<1> HIDE DEF DataStart
<1>3. DataStart(superblock) \in Int /\ DataStart(superblock) > 0
  BY <1>1, <1>2 DEF DataStart
<1> QED BY <1>3, Numbers DEF Data

\* On an image whose layout adds up, the range test is membership of the data area.
LEMMA RangeIsData ==
  ASSUME NEW im, IsImage(im), LayoutOK(im), NEW b \in Int
  PROVE  InRange(im, b) <=> b \in Data
<1>1. im.sb.size = SIZE /\ im.sb.nblocks = NBLOCKS /\ im.sb.ninodes \in Nat
  BY Numbers DEF IsImage
<1>2. DataStart(im.sb) \in Int
  BY <1>1, Numbers DEF DataStart
<1>3. DataStart(im.sb) = DataStart(superblock)
  BY <1>1, <1>2, DataPositive, Numbers, FsAssumption DEF LayoutOK
<1> QED BY <1>1, <1>3, DataPositive, Numbers, FsAssumption DEF InRange, Data

\* Every place for a block number holds an integer.
LEMMA AddrInt ==
  ASSUME NEW im, IsImage(im), NEW i \in Inums, NEW k \in Slots
  PROVE  Addr(im, i, k) \in Int
<1>1. CASE k <= NDIRECT + 1
  BY <1>1, Numbers DEF Addr, IsImage, Slots
<1>2. CASE k > NDIRECT + 1
  <2> DEFINE b == IndirectBlock(im, i)
             n == k - NDIRECT - 1
  <2>1. n \in 1 .. W
    BY <1>2, Numbers DEF Slots
  <2>2. b \in Data => im.blk[b] \in [1 .. W -> [num : Int, name : Names]]
    BY DEF IsImage
  <2>3. b \in Data => AsPtr(im.blk[b][n]) \in Int
    <3> HIDE DEF b, n
    <3>1. b \in Data => im.blk[b][n].num \in Int
      BY <2>1, <2>2, Zenon
    <3>2. SIZE + 1 \in Int
      BY Numbers
    <3> QED BY <3>1, <3>2, Zenon DEF AsPtr
  <2>4. Addr(im, i, k) = IF b \in Data THEN AsPtr(im.blk[b][n]) ELSE 0
    BY <1>2, Numbers DEF Addr, Slots
  <2> QED BY <2>3, <2>4
<1> QED BY <1>1, <1>2, Numbers DEF Slots

\* Uses are passed one by one.
LEMMA UsesNext ==
  ASSUME NEW im, IsImage(im), NEW i \in Int, NEW k \in Int, NEW u, u = <<i, k>>
  PROVE  /\ UsesBefore(im, i, k) \subseteq Uses(im)
         /\ u \notin UsesBefore(im, i, k)
         /\ UsesBefore(im, i, k + 1) = UsesBefore(im, i, k) \cup ({u} \cap Uses(im))
<1>1. ASSUME NEW v \in Uses(im) PROVE v = <<v[1], v[2]>> /\ v[1] \in Int /\ v[2] \in Int
  BY InodesIn, Numbers DEF Uses, Slots
<1>2. ASSUME NEW v \in Uses(im)
      PROVE  v \in UsesBefore(im, i, k + 1) <=> v \in UsesBefore(im, i, k) \/ v = u
  BY <1>1 DEF UsesBefore
<1>3. UsesBefore(im, i, k) \subseteq Uses(im) /\ u \notin UsesBefore(im, i, k)
  BY DEF UsesBefore
<1>4. UsesBefore(im, i, k + 1) \subseteq Uses(im)
  BY DEF UsesBefore
<1> QED BY <1>2, <1>3, <1>4

\* A slot without a block of entries has no entries.
LEMMA EntriesSkip ==
  ASSUME NEW im, IsImage(im), NEW i \in Int, NEW k \in Int, <<i, k>> \notin DirSlots(im)
  PROVE  EntriesBefore(im, i, k + 1, 1) = EntriesBefore(im, i, k, 1)
<1>1. ASSUME NEW d \in EntrySet(im)
      PROVE  d[1] \in DirSlots(im) /\ d[1] # <<i, k>>
  BY <1>1 DEF EntrySet
<1>2. ASSUME NEW d \in EntrySet(im)
      PROVE  d \in EntriesBefore(im, i, k + 1, 1) <=> d \in EntriesBefore(im, i, k, 1)
  <2>1. ~(d[1][1] = i /\ d[1][2] = k)
    <3>1. d[1] = <<d[1][1], d[1][2]>>
      BY <1>1 DEF DirSlots
    <3> QED BY <1>1, <3>1
  <2>2. d[1][1] \in Int /\ d[1][2] \in Int /\ d[2] \in Int /\ d[2] >= 1
    BY EntryShape, Numbers
  <2> QED BY <2>1, <2>2 DEF EntriesBefore
<1> QED BY <1>2 DEF EntriesBefore


\* The messages for a block number in slot k.
Messages(k, range, once) ==
  \/ k \in 1 .. NDIRECT /\ range = "direct_address" /\ once = "direct_address_once"
  \/ k \in NDIRECT + 1 .. NDIRECT + 1 + W /\ range = "indirect_address"
     /\ once = "indirect_address_once"

\* Everything but the visited blocks.
SameButVisited(x, y) ==
  /\ y.err = x.err /\ y.refs = x.refs /\ y.dotdot = x.dotdot /\ y.entry = x.entry
  /\ y.curcnt = x.curcnt /\ y.parcnt = x.parcnt /\ y.blkcnt = x.blkcnt

\* The tests on a block number: the block is a new one, or the message is true.
LEMMA ClaimStep ==
  ASSUME NEW im, IsImage(im), LayoutOK(im), NEW i \in Used(im), NEW k \in Slots,
         NEW u, u = <<i, k>>, NEW b, b = Addr(im, i, k), b # 0,
         NEW range, NEW once, Messages(k, range, once),
         NEW U \in SUBSET Uses(im), u \notin U,
         NEW x \in Acc, x.err = "ok", BlocksSeen(im, x, U),
         NEW y, y = claim_block(im, x, b, range, once)
  PROVE  /\ y \in Acc
         /\ y.err = "ok" => b \in Data /\ SameButVisited(x, y) /\ BlocksSeen(im, y, U \cup {u})
         /\ y.err # "ok" => TrueMessage(im, y.err)
<1>0. i \in Inums /\ b \in Int /\ u \in Uses(im) /\ Block(im, u) = b
  BY InodesIn, AddrInt DEF Uses, Block
<1>1. range \in Verdicts /\ once \in Verdicts /\ "used_address" \in Verdicts
  BY DEF Messages, Verdicts
<1>2. InRange(im, b) <=> b \in Data
  BY <1>0, RangeIsData
<1>3. CASE ~InRange(im, b)
  <2>1. y = Fail(x, range)
    BY <1>3, Zenon DEF claim_block
  <2>2. y \in Acc /\ y.err = range
    BY <1>1, <2>1, FailAcc
  <2>3. CASE range = "direct_address"
    <3>1. k \in 1 .. NDIRECT
      BY <2>3 DEF Messages
    <3>2. ~DirectOK(im)
      BY <1>2, <1>3, <3>1 DEF DirectOK
    <3> QED BY <2>2, <2>3, <3>2 DEF TrueMessage
  <2>4. CASE range = "indirect_address"
    <3>1. k \in NDIRECT + 1 .. NDIRECT + 1 + W
      BY <2>4 DEF Messages
    <3>2. ~IndirectOK(im)
      BY <1>2, <1>3, <3>1 DEF IndirectOK
    <3> QED BY <2>2, <2>4, <3>2 DEF TrueMessage
  <2> QED BY <2>3, <2>4 DEF Messages
<1>4. CASE InRange(im, b) /\ b \in x.visited
  <2>1. y = Fail(x, once)
    BY <1>4, Zenon DEF claim_block
  <2>2. y \in Acc /\ y.err = once
    BY <1>1, <2>1, FailAcc
  <2>3. PICK v \in U : Block(im, v) = b
    BY <1>4 DEF BlocksSeen
  <2>4. ~OnceOK(im)
    BY <1>0, <2>3 DEF OnceOK, Block
  <2>5. once \in {"direct_address_once", "indirect_address_once"}
    BY DEF Messages
  <2> QED BY <2>2, <2>4, <2>5 DEF TrueMessage
<1>5. CASE InRange(im, b) /\ b \notin x.visited /\ b \notin im.bit
  <2>1. y = Fail(x, "used_address")
    BY <1>5, Zenon DEF claim_block, bit_is_used
  <2>2. y \in Acc /\ y.err = "used_address"
    BY <1>1, <2>1, FailAcc
  <2>3. ~UsedAreMarked(im)
    BY <1>0, <1>5 DEF UsedAreMarked, Block
  <2> QED BY <2>2, <2>3 DEF TrueMessage
<1>6. CASE InRange(im, b) /\ b \notin x.visited /\ b \in im.bit
  <2>1. PICK z : z = x.visited \cup {b}
    BY Zenon
  <2>2. y = [err |-> x.err, visited |-> z, refs |-> x.refs, dotdot |-> x.dotdot,
             entry |-> x.entry, curcnt |-> x.curcnt, parcnt |-> x.parcnt,
             blkcnt |-> x.blkcnt]
    BY <1>6, <2>1, Zenon DEF claim_block, bit_is_used, Acc
  <2>3. x.visited \in SUBSET Data
    BY Fields
  <2>4. z \in SUBSET Data
    BY <1>2, <1>6, <2>1, <2>3
  <2>5. y \in Acc
    BY <2>2, <2>4 DEF Acc
  <2>6. SameButVisited(x, y) /\ y.visited = z
    BY <2>2 DEF SameButVisited
  <2>7. BlocksSeen(im, y, U \cup {u})
    <3>1. \A v \in U : Block(im, v) # b
      BY <1>6 DEF BlocksSeen
    <3>2. y.visited = {Block(im, v) : v \in U \cup {u}}
      BY <1>0, <2>1, <2>6 DEF BlocksSeen
    <3>3. \A v \in U \cup {u} : Block(im, v) \in Data /\ Block(im, v) \in im.bit
      BY <1>0, <1>2, <1>6 DEF BlocksSeen
    <3>4. \A v, w \in U \cup {u} : Block(im, v) = Block(im, w) => v = w
      BY <1>0, <3>1 DEF BlocksSeen
    <3> QED BY <3>2, <3>3, <3>4 DEF BlocksSeen
  <2> QED BY <1>2, <1>6, <2>5, <2>6, <2>7 DEF SameButVisited
<1> QED BY <1>3, <1>4, <1>5, <1>6


\* The accumulator before slot k of inode i.
Before(im, i, k) == At(im, i, UsesBefore(im, i, k), EntriesBefore(im, i, k, 1))

\* A claimed block is also counted.
LEMMA CountStep ==
  ASSUME NEW im, IsImage(im), NEW i, NEW k, k # NDIRECT + 1, NEW u, u = <<i, k>>, u \in Uses(im),
         NEW U \in SUBSET Uses(im), u \notin U, NEW E,
         NEW x \in Acc, EntriesSeen(im, x, E), InodeSeen(im, x, i, U, E),
         NEW c \in Acc, c.err = "ok", SameButVisited(x, c), BlocksSeen(im, c, U \cup {u}),
         NEW n, n = [c EXCEPT !.blkcnt = @ + 1]
  PROVE  n \in At(im, i, U \cup {u}, E)
<1>1. n = [err |-> c.err, visited |-> c.visited, refs |-> c.refs, dotdot |-> c.dotdot,
           entry |-> c.entry, curcnt |-> c.curcnt, parcnt |-> c.parcnt,
           blkcnt |-> c.blkcnt + 1]
  BY Zenon DEF Acc
<1>2. n \in Acc
  <2>1. c.blkcnt + 1 \in Nat
    BY Fields
  <2> QED BY <1>1, <2>1 DEF Acc
<1>3. /\ n.err = "ok" /\ n.visited = c.visited /\ n.refs = x.refs /\ n.dotdot = x.dotdot
      /\ n.entry = x.entry /\ n.curcnt = x.curcnt /\ n.parcnt = x.parcnt
      /\ n.blkcnt = x.blkcnt + 1
  BY <1>1 DEF SameButVisited
<1>4. BlocksSeen(im, n, U \cup {u})
  BY <1>3 DEF BlocksSeen
<1>5. EntriesSeen(im, n, E)
  BY <1>3 DEF EntriesSeen, RefsSeen, DotDotSeen, EntrySeen
<1>6. InodeSeen(im, n, i, U \cup {u}, E)
  <2>1. u \in ContentUses(im, i)
    BY DEF ContentUses
  <2>2. IsFiniteSet(U)
    BY FiniteSets, FS_Subset
  <2>3. Cardinality((U \cup {u}) \cap ContentUses(im, i))
          = Cardinality(U \cap ContentUses(im, i)) + 1
    <3> DEFINE U1 == U \cup {u}
    <3>1. U1 = U \cup {u}
      OBVIOUS
    <3> HIDE DEF U1
    <3> QED BY <2>1, <2>2, <3>1, CardAdd
  <2> QED BY <1>3, <2>3 DEF InodeSeen
<1> QED BY <1>2, <1>3, <1>4, <1>5, <1>6, Zenon DEF At

\* A content block of inode i, or an empty slot.
LEMMA ContentStep ==
  ASSUME NEW im, IsImage(im), LayoutOK(im), NEW i \in Used(im), NEW k \in Slots,
         k # NDIRECT + 1, NEW b, b = Addr(im, i, k),
         NEW range, NEW once, Messages(k, range, once),
         NEW x \in Before(im, i, k), x.err = "ok",
         NEW y, y = content_block(im, x, i, b, range, once)
  PROVE  y \in Before(im, i, k + 1)
<1> DEFINE u == <<i, k>>
           U == UsesBefore(im, i, k)
           U1 == UsesBefore(im, i, k + 1)
           E == EntriesBefore(im, i, k, 1)
           E1 == EntriesBefore(im, i, k + 1, 1)
<1>1. i \in Inums /\ i \in Int /\ k \in Int /\ i \in Inodes(im)
  BY InodesIn, Numbers DEF Slots
<1>2. U \in SUBSET Uses(im) /\ u \notin U /\ U1 = U \cup ({u} \cap Uses(im))
  BY <1>1, UsesNext
<1>3. x \in Acc /\ BlocksSeen(im, x, U) /\ EntriesSeen(im, x, E) /\ InodeSeen(im, x, i, U, E)
  BY DEF Before, At
<1>4. CASE b = 0
  <2>1. u \notin Uses(im)
    BY <1>4, Zenon DEF Uses
  <2>2. U1 = U
    BY <1>2, <2>1
  <2>3. u \notin DirSlots(im)
    BY <1>4, DataPositive, Zenon DEF DirSlots
  <2>4. E1 = E
    BY <1>1, <2>3, EntriesSkip
  <2>5. y = x
    BY <1>4, Zenon DEF content_block
  <2> QED BY <2>2, <2>4, <2>5 DEF Before
<1>5. CASE b # 0
  <2>1. u \in Uses(im)
    BY <1>5 DEF Uses
  <2>2. U1 = U \cup {u}
    BY <1>2, <2>1
  <2>3. PICK c : c = claim_block(im, x, b, range, once)
    BY Zenon
  <2>4. PICK n : n = [c EXCEPT !.blkcnt = @ + 1]
    BY Zenon
  <2>5. y = IF c.err # "ok" THEN c
            ELSE IF im.inode[i].type = T_DIR THEN traverse_dirent(im, n, b, i) ELSE n
    BY <1>5, <2>3, <2>4, Zenon DEF content_block
  <2>6. /\ c \in Acc
        /\ c.err = "ok" => b \in Data /\ SameButVisited(x, c) /\ BlocksSeen(im, c, U \cup {u})
        /\ c.err # "ok" => TrueMessage(im, c.err)
    <3> HIDE DEF U
    <3> QED BY <1>2, <1>3, <1>5, <2>3, ClaimStep
  <2> HIDE DEF U, U1, E, E1
  <2>7. CASE c.err # "ok"
    <3>1. c \in At(im, i, U1, E1)
      BY <2>6, <2>7 DEF At
    <3> QED BY <2>5, <2>7, <3>1 DEF Before, U1, E1
  <2>8. CASE c.err = "ok"
    <3>1. n \in At(im, i, U1, E)
      BY <1>2, <1>3, <2>1, <2>2, <2>4, <2>6, <2>8, CountStep
    <3>2. CASE im.inode[i].type = T_DIR
      <4>1. i \in Dirs(im)
        BY <1>1, <3>2 DEF Dirs
      <4>2. <<i, k>> \in DirSlots(im)
        BY <2>6, <2>8, <4>1 DEF DirSlots
      <4>3. traverse_dirent(im, n, b, i) \in At(im, i, U1, E1)
        BY <3>1, <4>2, TraverseDirent DEF E, E1
      <4> QED BY <2>5, <2>8, <3>2, <4>3 DEF Before, U1, E1
    <3>3. CASE im.inode[i].type # T_DIR
      <4>1. <<i, k>> \notin DirSlots(im)
        BY <3>3 DEF DirSlots, Dirs
      <4>2. E1 = E
        BY <1>1, <4>1, EntriesSkip DEF E, E1
      <4> QED BY <2>5, <2>8, <3>1, <3>3, <4>2 DEF Before, U1, E1
    <3> QED BY <3>2, <3>3
  <2> QED BY <2>7, <2>8
<1> QED BY <1>4, <1>5


\* The loop over the block numbers of slots o + 1 .. o + m.
LEMMA ContentBlocks ==
  ASSUME NEW im, IsImage(im), LayoutOK(im), NEW i \in Used(im), NEW o \in Nat, NEW m \in Nat,
         NEW s, Len(s) = m, NEW range, NEW once,
         \A j \in 1 .. m : /\ o + j \in Slots /\ o + j # NDIRECT + 1
                           /\ s[j] = Addr(im, i, o + j) /\ Messages(o + j, range, once),
         NEW a \in Before(im, i, o + 1)
  PROVE  content_blocks(im, a, i, s, range, once) \in Before(im, i, o + m + 1)
<1> DEFINE inv == [j \in 0 .. m |-> Before(im, i, o + j + 1)]
           body(x, j) == IF x.err = "ok" THEN content_block(im, x, i, s[j], range, once) ELSE x
           step == [j \in 1 .. m |-> [x \in Acc |-> body(x, j)]]
           Run(f) == f = [j \in 0 .. m |-> IF j = 0 THEN a ELSE body(f[j - 1], j)]
<1>0. m \in Nat
  OBVIOUS
<1>1. Len(s) = m
  OBVIOUS
<1>2. ASSUME NEW j \in 1 .. m, NEW x \in inv[j - 1]
      PROVE  x \in Acc /\ body(x, j) \in inv[j]
  <2> DEFINE k == o + j
  <2>1. j - 1 \in 0 .. m /\ j \in 0 .. m /\ o + (j - 1) + 1 = k /\ o + j + 1 = k + 1
    OBVIOUS
  <2>2. x \in Before(im, i, k) /\ inv[j] = Before(im, i, k + 1)
    BY <1>2, <2>1
  <2>3. k \in Slots /\ k # NDIRECT + 1 /\ s[j] = Addr(im, i, k) /\ Messages(k, range, once)
    BY Zenon
  <2> HIDE DEF inv, k
  <2>4. x \in Acc
    BY <2>2 DEF Before, At
  <2>5. CASE x.err = "ok"
    <3>1. content_block(im, x, i, s[j], range, once) \in Before(im, i, k + 1)
      BY <2>2, <2>3, <2>5, ContentStep
    <3> QED BY <2>2, <2>4, <2>5, <3>1
  <2>6. CASE x.err # "ok"
    BY <2>2, <2>4, <2>6 DEF Before, At
  <2> QED BY <2>5, <2>6
<1>3. a \in inv[0] /\ inv[m] = Before(im, i, o + m + 1)
  <2>1. 0 \in 0 .. m /\ m \in 0 .. m /\ o + 0 + 1 = o + 1
    OBVIOUS
  <2> QED BY <2>1
<1>4. \E f : Run(f)
  <2>1. StepsIn(m, step, inv)
    <3> HIDE DEF inv, body
    <3> QED BY <1>2 DEF StepsIn
  <2>2. PICK f : IsRun(f, m, a, step) /\ \A j \in 0 .. m : f[j] \in inv[j]
    <3> HIDE DEF inv, step
    <3> QED BY <1>0, <1>3, <2>1, RunExists, Zenon
  <2>3. ASSUME NEW j \in 1 .. m PROVE step[j][f[j - 1]] = body(f[j - 1], j)
    <3>1. j - 1 \in 0 .. m
      BY <1>0
    <3>2. f[j - 1] \in Acc
      BY <1>2, <2>2, <3>1, Zenon
    <3> HIDE DEF body
    <3> QED BY <3>2
  <2>4. Run(f)
    <3> HIDE DEF body, step
    <3>1. \A j \in 0 .. m : j # 0 => j \in 1 .. m
      BY <1>0
    <3> QED BY <2>2, <2>3, <3>1, Zenon DEF IsRun
  <2> HIDE DEF Run
  <2> QED BY <2>4
<1>5. PICK f : Run(f) /\ content_blocks(im, a, i, s, range, once) = f[m]
  <2>1. content_blocks(im, a, i, s, range, once) = (CHOOSE f : Run(f))[m]
    BY <1>1 DEF content_blocks, Scan
  <2> HIDE DEF Run
  <2> QED BY <1>4, <2>1, Zenon
<1>6. f[m] \in inv[m]
  <2>1. f[0] \in inv[0]
    BY <1>0, <1>3, <1>5
  <2>2. ASSUME NEW j \in 1 .. m, f[j - 1] \in inv[j - 1] PROVE f[j] \in inv[j]
    <3>1. f[j] = body(f[j - 1], j)
      BY <1>0, <1>5
    <3> HIDE DEF inv, body
    <3> QED BY <1>2, <2>2, <3>1
  <2> HIDE DEF inv
  <2> QED BY <1>0, <2>1, <2>2, RunEnds
<1> QED BY <1>3, <1>5, <1>6


\* Slots without a block pass unnoticed.
LEMMA SkipSlots ==
  ASSUME NEW im, IsImage(im), NEW i \in Int, NEW k \in Int, NEW m \in Int, k <= m,
         \A j \in k .. m - 1 : <<i, j>> \notin Uses(im) /\ <<i, j>> \notin DirSlots(im)
  PROVE  /\ UsesBefore(im, i, m) = UsesBefore(im, i, k)
         /\ EntriesBefore(im, i, m, 1) = EntriesBefore(im, i, k, 1)
<1>1. ASSUME NEW v \in Uses(im)
      PROVE  v \in UsesBefore(im, i, m) <=> v \in UsesBefore(im, i, k)
  <2>1. v = <<v[1], v[2]>> /\ v[1] \in Int /\ v[2] \in Int
    BY InodesIn, Numbers DEF Uses, Slots
  <2>2. ~(v[1] = i /\ v[2] \in k .. m - 1)
    BY <2>1
  <2> QED BY <2>1, <2>2 DEF UsesBefore
<1>2. UsesBefore(im, i, m) = UsesBefore(im, i, k)
  BY <1>1 DEF UsesBefore
<1>3. ASSUME NEW d \in EntrySet(im)
      PROVE  d \in EntriesBefore(im, i, m, 1) <=> d \in EntriesBefore(im, i, k, 1)
  <2>1. d[1] \in DirSlots(im) /\ d[1] = <<d[1][1], d[1][2]>>
    BY DEF EntrySet, DirSlots
  <2>2. d[1][1] \in Int /\ d[1][2] \in Int /\ d[2] \in Int /\ d[2] >= 1
    BY EntryShape, Numbers
  <2>3. ~(d[1][1] = i /\ d[1][2] \in k .. m - 1)
    BY <2>1
  <2> QED BY <2>2, <2>3 DEF EntriesBefore
<1>4. EntriesBefore(im, i, m, 1) = EntriesBefore(im, i, k, 1)
  BY <1>3 DEF EntriesBefore
<1> QED BY <1>2, <1>4

\* check_direct_address: the direct addresses of one inode.
LEMMA DirectStep ==
  ASSUME NEW im, IsImage(im), LayoutOK(im), NEW i \in Used(im), NEW a \in Before(im, i, 1)
  PROVE  check_direct_address(im, a, i) \in Before(im, i, NDIRECT + 1)
<1> DEFINE addrs == im.inode[i].addrs
           s == SubSeq(addrs, 1, NDIRECT)
<1>1. NDIRECT \in Nat /\ NDIRECT + 1 \in Nat /\ W \in Nat /\ i \in Inums
  BY Numbers, InodesIn
<1>2. addrs \in [1 .. NDIRECT + 1 -> Int]
  BY <1>1 DEF IsImage
<1>3. addrs \in Seq(Int) /\ Len(addrs) = NDIRECT + 1
  <2> HIDE DEF addrs
  <2> QED BY <1>1, <1>2, SeqOfLen
<1>4. Len(s) = NDIRECT /\ \A j \in 1 .. NDIRECT : s[j] = addrs[j]
  <2> HIDE DEF addrs
  <2> QED BY <1>1, <1>3
<1>5. ASSUME NEW j \in 1 .. NDIRECT
      PROVE  /\ 0 + j \in Slots /\ 0 + j # NDIRECT + 1 /\ s[j] = Addr(im, i, 0 + j)
             /\ Messages(0 + j, "direct_address", "direct_address_once")
  <2>1. 0 + j = j /\ j \in Slots /\ j # NDIRECT + 1 /\ j <= NDIRECT + 1
    BY <1>1 DEF Slots
  <2>2. Addr(im, i, j) = addrs[j]
    BY <2>1 DEF Addr
  <2>3. Messages(j, "direct_address", "direct_address_once")
    BY DEF Messages
  <2> HIDE DEF s, addrs
  <2> QED BY <1>4, <2>1, <2>2, <2>3
<1>6. a \in Before(im, i, 0 + 1) /\ 0 + NDIRECT + 1 = NDIRECT + 1
  BY <1>1
<1>7. content_blocks(im, a, i, s, "direct_address", "direct_address_once")
        \in Before(im, i, 0 + NDIRECT + 1)
  <2> HIDE DEF s
  <2> QED BY <1>1, <1>4, <1>5, <1>6, ContentBlocks, Zenon
<1> QED BY <1>6, <1>7 DEF check_direct_address

\* The indirect block is claimed but holds no content.
LEMMA PointerStep ==
  ASSUME NEW im, IsImage(im), NEW i \in Used(im), NEW u, u = <<i, NDIRECT + 1>>, u \in Uses(im),
         NEW x \in Before(im, i, NDIRECT + 1), x.err = "ok",
         NEW c \in Acc, c.err = "ok", SameButVisited(x, c),
         BlocksSeen(im, c, UsesBefore(im, i, NDIRECT + 1) \cup {u})
  PROVE  c \in Before(im, i, NDIRECT + 2)
<1> DEFINE U == UsesBefore(im, i, NDIRECT + 1)
           U1 == UsesBefore(im, i, NDIRECT + 1 + 1)
           E == EntriesBefore(im, i, NDIRECT + 1, 1)
           E1 == EntriesBefore(im, i, NDIRECT + 1 + 1, 1)
<1>1. NDIRECT + 1 \in Int /\ i \in Int /\ NDIRECT + 1 + 1 = NDIRECT + 2
  BY Numbers, InodesIn
<1>2. U1 = U \cup {u}
  BY <1>1, UsesNext
<1>3. E1 = E
  <2>1. <<i, NDIRECT + 1>> \notin DirSlots(im)
    BY DEF DirSlots
  <2> QED BY <1>1, <2>1, EntriesSkip
<1>4. EntriesSeen(im, x, E) /\ InodeSeen(im, x, i, U, E)
  BY DEF Before, At
<1> HIDE DEF U, U1, E, E1
<1>5. EntriesSeen(im, c, E)
  BY <1>4 DEF EntriesSeen, RefsSeen, DotDotSeen, EntrySeen, SameButVisited
<1>6. U1 \cap ContentUses(im, i) = U \cap ContentUses(im, i)
  BY <1>2 DEF ContentUses
<1>7. InodeSeen(im, c, i, U1, E)
  BY <1>4, <1>6, Zenon DEF InodeSeen, SameButVisited
<1>8. c \in At(im, i, U1, E1)
  BY <1>2, <1>3, <1>5, <1>7 DEF At, U
<1> QED BY <1>1, <1>8 DEF Before, U1, E1

\* check_indirect_address: the indirect block of one inode and its words.
LEMMA IndirectStep ==
  ASSUME NEW im, IsImage(im), LayoutOK(im), NEW i \in Used(im),
         NEW a \in Before(im, i, NDIRECT + 1)
  PROVE  check_indirect_address(im, a, i) \in Before(im, i, NDIRECT + 1 + W + 1)
<1> DEFINE b == IndirectBlock(im, i)
           p == NDIRECT + 1
           last == NDIRECT + 1 + W + 1
<1>1. /\ p \in Nat /\ W \in Nat /\ i \in Inums /\ i \in Int /\ last = p + W + 1
      /\ p \in Slots /\ NDIRECT \in Nat /\ p <= last
  BY Numbers, InodesIn DEF Slots
<1>2. b = Addr(im, i, p)
  BY <1>1 DEF Addr, IndirectBlock
<1>3. a \in Acc
  BY DEF Before, At
<1>4. CASE a.err # "ok"
  <2>1. check_indirect_address(im, a, i) = a
    BY <1>4, Zenon DEF check_indirect_address
  <2>2. TrueMessage(im, a.err)
    BY <1>4 DEF Before, At
  <2> QED BY <1>3, <1>4, <2>1, <2>2 DEF Before, At
<1>5. CASE a.err = "ok" /\ b = 0
  <2>1. check_indirect_address(im, a, i) = a
    BY <1>5, Zenon DEF check_indirect_address
  <2>2. ASSUME NEW j \in p .. last - 1
        PROVE  <<i, j>> \notin Uses(im) /\ <<i, j>> \notin DirSlots(im)
    <3>1. Addr(im, i, j) = 0
      <4>1. CASE j = p
        BY <1>2, <1>5, <4>1
      <4>2. CASE j # p
        <5>1. ~(j <= NDIRECT + 1)
          BY <1>1, <4>2
        <5>2. b \notin Data
          BY <1>5, DataPositive
        <5> QED BY <5>1, <5>2, Zenon DEF Addr
      <4> QED BY <4>1, <4>2
    <3> QED BY <3>1, DataPositive, Zenon DEF Uses, DirSlots
  <2>3. /\ UsesBefore(im, i, last) = UsesBefore(im, i, p)
        /\ EntriesBefore(im, i, last, 1) = EntriesBefore(im, i, p, 1)
    <3>1. last \in Int /\ p \in Int
      BY <1>1
    <3> HIDE DEF last, p
    <3> QED BY <1>1, <2>2, <3>1, SkipSlots
  <2> QED BY <2>1, <2>3 DEF Before
<1>6. CASE a.err = "ok" /\ b # 0
  <2> DEFINE u == <<i, p>>
             U == UsesBefore(im, i, p)
             s == [k \in 1 .. W |-> AsPtr(im.blk[b][k])]
  <2>1. PICK c : c = claim_block(im, a, b, "indirect_address", "indirect_address_once")
    BY Zenon
  <2>2. check_indirect_address(im, a, i)
          = IF c.err # "ok" THEN c
            ELSE content_blocks(im, c, i, s, "indirect_address", "indirect_address_once")
    BY <1>6, <2>1, Zenon DEF check_indirect_address
  <2>3. u \in Uses(im) /\ U \in SUBSET Uses(im) /\ u \notin U
    <3>1. u \in Uses(im)
      BY <1>1, <1>2, <1>6 DEF Uses
    <3>2. p \in Int
      BY <1>1
    <3> HIDE DEF p
    <3> QED BY <1>1, <3>1, <3>2, UsesNext
  <2>4. Messages(p, "indirect_address", "indirect_address_once")
    BY <1>1 DEF Messages
  <2>5. BlocksSeen(im, a, U)
    BY <1>6 DEF Before, At
  <2>6. /\ c \in Acc
        /\ c.err = "ok" => b \in Data /\ SameButVisited(a, c) /\ BlocksSeen(im, c, U \cup {u})
        /\ c.err # "ok" => TrueMessage(im, c.err)
    <3> HIDE DEF U, p, b
    <3> QED BY <1>1, <1>2, <1>3, <1>6, <2>1, <2>3, <2>4, <2>5, ClaimStep
  <2>7. CASE c.err # "ok"
    BY <2>2, <2>6, <2>7 DEF Before, At
  <2>8. CASE c.err = "ok"
    <3>1. c \in Before(im, i, p + 1)
      <4>1. c \in Before(im, i, NDIRECT + 2)
        BY <1>6, <2>3, <2>6, <2>8, PointerStep
      <4>2. NDIRECT + 2 = p + 1
        BY <1>1
      <4> QED BY <4>1, <4>2
    <3>2. Len(s) = W
      <4>1. s \in [1 .. W -> {AsPtr(im.blk[b][k]) : k \in 1 .. W}]
        OBVIOUS
      <4> HIDE DEF s
      <4> QED BY <1>1, <4>1, SeqOfLen
    <3>3. ASSUME NEW j \in 1 .. W
          PROVE  /\ p + j \in Slots /\ p + j # NDIRECT + 1 /\ s[j] = Addr(im, i, p + j)
                 /\ Messages(p + j, "indirect_address", "indirect_address_once")
      <4>1. p + j \in Slots /\ p + j # NDIRECT + 1 /\ ~(p + j <= NDIRECT + 1)
        BY <1>1 DEF Slots
      <4>2. (p + j) - NDIRECT - 1 = j
        BY <1>1
      <4>3. s[j] = Addr(im, i, p + j)
        BY <2>6, <2>8, <4>1, <4>2, Zenon DEF Addr
      <4>4. Messages(p + j, "indirect_address", "indirect_address_once")
        BY <1>1 DEF Messages
      <4> QED BY <4>1, <4>3, <4>4
    <3>4. content_blocks(im, c, i, s, "indirect_address", "indirect_address_once")
            \in Before(im, i, p + W + 1)
      <4> HIDE DEF s, p
      <4> QED BY <1>1, <3>1, <3>2, <3>3, ContentBlocks, Zenon
    <3> QED BY <1>1, <2>2, <2>8, <3>4
  <2> QED BY <2>7, <2>8
<1> QED BY <1>4, <1>5, <1>6

-----------------------------------------------------------------------------
(* One inode, and the first pass.                                                *)

\* What is required of an inode by itself.
InodeOK(im, i) ==
  /\ im.inode[i].type \in 0 .. 3
  /\ i \in Used(im) => size_fits(im.inode[i].size, Cardinality(ContentUses(im, i)))
  /\ i \in Dirs(im) => /\ Cardinality(Named(im, i, ".")) = 1
                       /\ Cardinality(Named(im, i, "..")) = 1

\* The accumulator before inode i.
Passed(im, i) ==
  {x \in Acc : IF x.err = "ok"
               THEN /\ BlocksSeen(im, x, UsesBefore(im, i, 1))
                    /\ EntriesSeen(im, x, EntriesBefore(im, i, 1, 1))
                    /\ \A j \in 0 .. i - 1 : InodeOK(im, j)
               ELSE TrueMessage(im, x.err)}

\* The size test asks for the number of blocks that the size needs.
LEMMA SizeFits ==
  ASSUME NEW size \in Nat, NEW sum \in Nat
  PROVE  size_fits(size, sum) <=> (size + W - 1) \div W = sum
<1> DEFINE a == size + W - 1
           q == a \div W
<1>1. W \in Nat /\ W > 0 /\ a \in Int /\ q \in Int /\ W * q <= a /\ a < W * q + W
  <2>1. W \in Nat /\ W > 0
    BY Numbers
  <2>2. a \in Int
    BY <2>1
  <2> HIDE DEF a
  <2> QED BY <2>1, <2>2, DivBounds
<1>2. q = sum <=> W * sum <= a /\ a < W * sum + W
  <2> HIDE DEF a
  <2>1. W * sum <= a /\ a < W * sum + W => q = sum
    BY <1>1, DivUnique
  <2> HIDE DEF q
  <2> QED BY <1>1, <2>1
<1>3. sum * W = W * sum /\ (sum - 1) * W = W * sum - W /\ W * sum \in Int
  BY <1>1
<1>4. sum = 0 => W * sum = 0
  BY <1>1
<1>5. size_fits(size, sum) <=> W * sum <= a /\ a < W * sum + W
  BY <1>1, <1>3, <1>4 DEF size_fits
<1> QED BY <1>2, <1>5

\* The last slot of an inode is followed by the first of the next one.
LEMMA NextInode ==
  ASSUME NEW im, IsImage(im), NEW i \in Int, NEW last, last = NDIRECT + 1 + W + 1
  PROVE  /\ UsesBefore(im, i + 1, 1) = UsesBefore(im, i, last)
         /\ EntriesBefore(im, i + 1, 1, 1) = EntriesBefore(im, i, last, 1)
         /\ UsesBefore(im, i, last) \cap ContentUses(im, i) = ContentUses(im, i)
         /\ \A name : EntriesBefore(im, i, last, 1) \cap Named(im, i, name) = Named(im, i, name)
<1>1. ASSUME NEW v \in Uses(im) PROVE v[1] \in Int /\ v[2] \in Int /\ 1 <= v[2] /\ v[2] < last
  BY InodesIn, Numbers DEF Uses, Slots
<1>2. ASSUME NEW v \in Uses(im)
      PROVE  v \in UsesBefore(im, i + 1, 1) <=> v \in UsesBefore(im, i, last)
  BY <1>1 DEF UsesBefore
<1>3. UsesBefore(im, i + 1, 1) = UsesBefore(im, i, last)
  BY <1>2 DEF UsesBefore
<1>4. ASSUME NEW d \in EntrySet(im)
      PROVE  d[1][1] \in Int /\ d[1][2] \in Int /\ d[2] \in Int /\ 1 <= d[1][2] /\ d[1][2] < last
             /\ 1 <= d[2]
  BY EntryShape, Numbers
<1>5. ASSUME NEW d \in EntrySet(im)
      PROVE  d \in EntriesBefore(im, i + 1, 1, 1) <=> d \in EntriesBefore(im, i, last, 1)
  BY <1>4 DEF EntriesBefore
<1>6. EntriesBefore(im, i + 1, 1, 1) = EntriesBefore(im, i, last, 1)
  BY <1>5 DEF EntriesBefore
<1>7. ContentUses(im, i) \subseteq UsesBefore(im, i, last)
  BY <1>1 DEF ContentUses, UsesBefore
<1>8. \A name : Named(im, i, name) \subseteq EntriesBefore(im, i, last, 1)
  BY <1>4 DEF Named, EntriesBefore
<1> QED BY <1>3, <1>6, <1>7, <1>8

\* A message that is true of the image is a proper end of the pass.
LEMMA FailPassed ==
  ASSUME NEW im, NEW i, NEW x \in Acc, NEW v \in Verdicts, v # "ok", TrueMessage(im, v)
  PROVE  Fail(x, v) \in Passed(im, i)
<1>1. PICK y : y = Fail(x, v)
  BY Zenon
<1>2. y \in Acc /\ y.err = v
  BY <1>1, FailAcc
<1> QED BY <1>1, <1>2 DEF Passed

\* The counters of an inode start at zero.
LEMMA ResetStep ==
  ASSUME NEW im, IsImage(im), NEW i \in Int, NEW a \in Passed(im, i), a.err = "ok",
         NEW z, z = [a EXCEPT !.curcnt = 0, !.parcnt = 0, !.blkcnt = 0]
  PROVE  z \in Before(im, i, 1) /\ z.err = "ok"
<1> DEFINE U == UsesBefore(im, i, 1)
           E == EntriesBefore(im, i, 1, 1)
<1>1. a \in Acc /\ BlocksSeen(im, a, U) /\ EntriesSeen(im, a, E)
  BY DEF Passed
<1>2. z = [err |-> a.err, visited |-> a.visited, refs |-> a.refs, dotdot |-> a.dotdot,
           entry |-> a.entry, curcnt |-> 0, parcnt |-> 0, blkcnt |-> 0]
  BY <1>1, Zenon DEF Acc
<1>3. z \in Acc
  BY <1>1, <1>2 DEF Acc
<1>4. /\ z.err = "ok" /\ z.visited = a.visited /\ z.refs = a.refs /\ z.dotdot = a.dotdot
      /\ z.entry = a.entry /\ z.curcnt = 0 /\ z.parcnt = 0 /\ z.blkcnt = 0
  BY <1>2
<1>5. U \cap ContentUses(im, i) = {}
  <2>1. ASSUME NEW v \in U \cap ContentUses(im, i) PROVE FALSE
    <3>1. v[1] \in Int /\ v[2] \in Int /\ v[2] >= 1
      BY InodesIn, Numbers DEF ContentUses, Uses, Slots
    <3> QED BY <3>1 DEF UsesBefore, ContentUses
  <2> QED BY <2>1
<1>6. ASSUME NEW name PROVE E \cap Named(im, i, name) = {}
  <2>1. ASSUME NEW d \in E \cap Named(im, i, name) PROVE FALSE
    <3>1. d[1][1] \in Int /\ d[1][2] \in Int /\ d[2] \in Int /\ d[1][2] >= 1 /\ d[2] >= 1
      BY EntryShape, Numbers DEF Named
    <3> QED BY <3>1 DEF EntriesBefore, Named
  <2> QED BY <2>1
<1> HIDE DEF U, E
<1>7. BlocksSeen(im, z, U)
  BY <1>1, <1>4 DEF BlocksSeen
<1>8. EntriesSeen(im, z, E)
  BY <1>1, <1>4 DEF EntriesSeen, RefsSeen, DotDotSeen, EntrySeen
<1>9. InodeSeen(im, z, i, U, E)
  BY <1>4, <1>5, <1>6, FS_EmptySet, Zenon DEF InodeSeen
<1> QED BY <1>3, <1>4, <1>7, <1>8, <1>9, Zenon DEF Before, At, U, E

\* The body of the first pass, for an inode in use.
LEMMA UsedInode ==
  ASSUME NEW im, IsImage(im), LayoutOK(im), NEW i \in Used(im), im.inode[i].type \in 0 .. 3,
         NEW a \in Passed(im, i), a.err = "ok"
  PROVE  check_inode(im, a, i) \in Passed(im, i + 1)
<1> DEFINE last == NDIRECT + 1 + W + 1
           U == UsesBefore(im, i, last)
           E == EntriesBefore(im, i, last, 1)
<1>0. i \in Int /\ i \in Inums /\ i # 0 /\ im.inode[i].type # 0 /\ i \in Inodes(im) /\ i \in Nat
  BY InodesIn DEF Used, Inodes
<1>1. PICK c : c = check_indirect_address(im, check_direct_address(im,
                 [a EXCEPT !.curcnt = 0, !.parcnt = 0, !.blkcnt = 0], i), i)
  BY Zenon
<1>2. c \in Before(im, i, last)
  <2>1. PICK z : z = [a EXCEPT !.curcnt = 0, !.parcnt = 0, !.blkcnt = 0]
    BY Zenon
  <2>2. z \in Before(im, i, 1)
    BY <1>0, <2>1, ResetStep, Zenon
  <2>3. PICK d : d = check_direct_address(im, z, i)
    BY Zenon
  <2>4. d \in Before(im, i, NDIRECT + 1)
    BY <2>2, <2>3, DirectStep
  <2>5. c = check_indirect_address(im, d, i)
    BY <1>1, <2>1, <2>3, Zenon
  <2> QED BY <2>4, <2>5, IndirectStep
<1>3. /\ c \in Acc
      /\ IF c.err = "ok" THEN BlocksSeen(im, c, U) /\ EntriesSeen(im, c, E) /\ InodeSeen(im, c, i, U, E)
                         ELSE TrueMessage(im, c.err)
  BY <1>2, Zenon DEF Before, At
<1>4. check_inode(im, a, i)
        = IF c.err # "ok" THEN c
          ELSE IF im.inode[i].type = T_DIR /\ (c.curcnt # 1 \/ c.parcnt # 1)
               THEN Fail(c, "directory_format")
          ELSE IF ~size_fits(im.inode[i].size, c.blkcnt) THEN Fail(c, "file_size") ELSE c
  BY <1>0, <1>1, Zenon DEF check_inode, check_node_type
<1>5. /\ UsesBefore(im, i + 1, 1) = U /\ EntriesBefore(im, i + 1, 1, 1) = E
      /\ U \cap ContentUses(im, i) = ContentUses(im, i)
      /\ \A name : E \cap Named(im, i, name) = Named(im, i, name)
  <2> HIDE DEF last
  <2> QED BY <1>0, NextInode DEF last
<1> HIDE DEF U, E
<1>6. /\ "directory_format" \in Verdicts /\ "file_size" \in Verdicts
      /\ "directory_format" # "ok" /\ "file_size" # "ok"
  BY DEF Verdicts
<1>7. CASE c.err # "ok"
  <2>1. check_inode(im, a, i) = c
    BY <1>4, <1>7
  <2> QED BY <1>3, <1>7, <2>1, Zenon DEF Passed
<1>8. CASE c.err = "ok"
  <2>1. /\ c.curcnt = Cardinality(Named(im, i, ".")) /\ c.parcnt = Cardinality(Named(im, i, ".."))
        /\ c.blkcnt = Cardinality(ContentUses(im, i))
    BY <1>3, <1>5, <1>8, Zenon DEF InodeSeen
  <2>2. CASE im.inode[i].type = T_DIR /\ (c.curcnt # 1 \/ c.parcnt # 1)
    <3>1. check_inode(im, a, i) = Fail(c, "directory_format")
      BY <1>4, <1>8, <2>2, Zenon
    <3>2. i \in Dirs(im)
      BY <1>0, <2>2 DEF Dirs
    <3>3. ~FormatOK(im)
      BY <2>1, <2>2, <3>2, Zenon DEF FormatOK
    <3>4. TrueMessage(im, "directory_format")
      BY <3>3 DEF TrueMessage
    <3> QED BY <1>3, <1>6, <3>1, <3>4, FailPassed
  <2>3. CASE /\ ~(im.inode[i].type = T_DIR /\ (c.curcnt # 1 \/ c.parcnt # 1))
             /\ ~size_fits(im.inode[i].size, c.blkcnt)
    <3>1. check_inode(im, a, i) = Fail(c, "file_size")
      BY <1>4, <1>8, <2>3, Zenon
    <3>2. im.inode[i].size \in Nat /\ c.blkcnt \in Nat
      BY <1>0, <1>3, Fields DEF IsImage
    <3>3. ~SizeOK(im)
      BY <2>1, <2>3, <3>2, SizeFits, Zenon DEF SizeOK
    <3>4. TrueMessage(im, "file_size")
      BY <3>3 DEF TrueMessage
    <3> QED BY <1>3, <1>6, <3>1, <3>4, FailPassed
  <2>4. CASE /\ ~(im.inode[i].type = T_DIR /\ (c.curcnt # 1 \/ c.parcnt # 1))
             /\ size_fits(im.inode[i].size, c.blkcnt)
    <3>1. check_inode(im, a, i) = c
      BY <1>4, <1>8, <2>4, Zenon
    <3>2. InodeOK(im, i)
      BY <2>1, <2>4, Zenon DEF InodeOK, Dirs
    <3>3. \A j \in 0 .. i - 1 : InodeOK(im, j)
      BY DEF Passed
    <3>4. \A j \in 0 .. (i + 1) - 1 : j = i \/ j \in 0 .. i - 1
      BY <1>0
    <3>5. \A j \in 0 .. (i + 1) - 1 : InodeOK(im, j)
      BY <3>2, <3>3, <3>4, Zenon
    <3> QED BY <1>3, <1>5, <1>8, <3>1, <3>5, Zenon DEF Passed
  <2> QED BY <2>2, <2>3, <2>4, Zenon
<1> QED BY <1>7, <1>8

\* The body of the first pass, for any inode of the table.
LEMMA CheckInode ==
  ASSUME NEW im, IsImage(im), LayoutOK(im), NEW i \in 0 .. im.sb.ninodes - 1,
         NEW a \in Passed(im, i), a.err = "ok"
  PROVE  check_inode(im, a, i) \in Passed(im, i + 1)
<1> DEFINE last == NDIRECT + 1 + W + 1
<1>0. i \in Int /\ i \in Nat /\ im.sb.ninodes \in Nat /\ i \in Inums
  <2>1. im.sb.ninodes \in 0 .. NINODES + 1 /\ NINODES \in Nat
    BY Numbers DEF IsImage
  <2> QED BY <2>1 DEF Inums
<1>1. a \in Acc
  BY DEF Passed
<1>2. CASE im.inode[i].type \notin 0 .. 3
  <2>1. check_inode(im, a, i) = Fail(a, "bad_inode")
    BY <1>2, Zenon DEF check_inode, check_node_type
  <2>2. "bad_inode" \in Verdicts /\ "bad_inode" # "ok"
    BY DEF Verdicts
  <2>3. TrueMessage(im, "bad_inode")
    BY <1>2 DEF TrueMessage, TypesOK
  <2> QED BY <1>1, <2>1, <2>2, <2>3, FailPassed
<1>3. CASE im.inode[i].type \in 0 .. 3 /\ i \notin Used(im)
  <2>1. i = 0 \/ im.inode[i].type = 0
    BY <1>0, <1>3 DEF Used, Inodes
  <2>2. check_inode(im, a, i) = a
    BY <1>3, <2>1, Zenon DEF check_inode, check_node_type
  <2>3. i \notin Dirs(im)
    BY <1>3, InodesIn
  <2>4. \A j \in 1 .. last - 1 : <<i, j>> \notin Uses(im) /\ <<i, j>> \notin DirSlots(im)
    BY <1>3, <2>3, Zenon DEF Uses, DirSlots
  <2>5. 1 \in Int /\ last \in Int /\ 1 <= last
    BY Numbers
  <2>6. /\ UsesBefore(im, i + 1, 1) = UsesBefore(im, i, last)
        /\ EntriesBefore(im, i + 1, 1, 1) = EntriesBefore(im, i, last, 1)
    <3> HIDE DEF last
    <3> QED BY <1>0, NextInode DEF last
  <2> HIDE DEF last
  <2>7. /\ UsesBefore(im, i, last) = UsesBefore(im, i, 1)
        /\ EntriesBefore(im, i, last, 1) = EntriesBefore(im, i, 1, 1)
    BY <1>0, <2>4, <2>5, SkipSlots
  <2>8. InodeOK(im, i)
    BY <1>3, <2>3, Zenon DEF InodeOK
  <2>9. \A j \in 0 .. (i + 1) - 1 : j = i \/ j \in 0 .. i - 1
    BY <1>0
  <2>10. /\ BlocksSeen(im, a, UsesBefore(im, i, 1))
         /\ EntriesSeen(im, a, EntriesBefore(im, i, 1, 1))
         /\ \A j \in 0 .. i - 1 : InodeOK(im, j)
    BY DEF Passed
  <2> QED BY <1>1, <2>2, <2>6, <2>7, <2>8, <2>9, <2>10, Zenon DEF Passed
<1>4. CASE im.inode[i].type \in 0 .. 3 /\ i \in Used(im)
  BY <1>4, UsedInode
<1> QED BY <1>2, <1>3, <1>4

\* Before the first inode nothing has been seen.
LEMMA BlankPassed ==
  ASSUME NEW im, IsImage(im)
  PROVE  Blank \in Passed(im, 0)
<1>1. Blank = [err |-> "ok", visited |-> {}, refs |-> [j \in Inums |-> 0],
               dotdot |-> [j \in Inums |-> -1], entry |-> [j \in Inums |-> -1],
               curcnt |-> 0, parcnt |-> 0, blkcnt |-> 0]
  BY DEF Blank
<1>2. Blank \in Acc
  BY <1>1 DEF Acc, Verdicts
<1>3. UsesBefore(im, 0, 1) = {}
  <2>1. ASSUME NEW v \in UsesBefore(im, 0, 1) PROVE FALSE
    BY InodesIn DEF UsesBefore, Uses, Inodes
  <2> QED BY <2>1
<1>4. EntriesBefore(im, 0, 1, 1) = {}
  <2>1. ASSUME NEW d \in EntriesBefore(im, 0, 1, 1) PROVE FALSE
    <3>1. d[1][1] \in Inodes(im)
      BY InodesIn DEF EntriesBefore, EntrySet, DirSlots
    <3> QED BY <3>1 DEF Inodes, EntriesBefore
  <2> QED BY <2>1
<1>5. BlocksSeen(im, Blank, {})
  BY <1>1 DEF BlocksSeen
<1>6. EntriesSeen(im, Blank, {})
  <2>1. \A S : Cardinality({} \cap S) = 0
    BY FS_EmptySet
  <2>2. RefsSeen(im, Blank, {})
    BY <1>1, <2>1 DEF RefsSeen
  <2>3. DotSeen(im, {}) /\ DotDotSeen(im, Blank, {}) /\ EntrySeen(im, Blank, {})
    BY <1>1 DEF DotSeen, DotDotSeen, EntrySeen
  <2> QED BY <2>2, <2>3 DEF EntriesSeen
<1>7. \A j \in 0 .. 0 - 1 : InodeOK(im, j)
  OBVIOUS
<1>8. Blank.err = "ok"
  BY <1>1
<1> QED BY <1>2, <1>3, <1>4, <1>5, <1>6, <1>7, <1>8, Zenon DEF Passed

\* The loop of the first pass over the inode table.
LEMMA FirstPass ==
  ASSUME NEW im, IsImage(im), LayoutOK(im)
  PROVE  first_pass(im) \in Passed(im, im.sb.ninodes)
<1> DEFINE n == im.sb.ninodes
           s == numbers(im, 0)
           inv == [j \in 0 .. n |-> Passed(im, j)]
           body(x, j) == IF x.err = "ok" THEN check_inode(im, x, s[j]) ELSE x
           step == [j \in 1 .. n |-> [x \in Acc |-> body(x, j)]]
           Run(f) == f = [j \in 0 .. n |-> IF j = 0 THEN Blank ELSE body(f[j - 1], j)]
<1>0. n \in Nat
  BY InodesIn
<1>1. Len(s) = n
  <2>1. s = [k \in 1 .. n |-> k - 1]
    BY <1>0 DEF numbers
  <2>2. s \in [1 .. n -> Int]
    <3> HIDE DEF n, s
    <3> QED BY <1>0, <2>1
  <2> HIDE DEF n, s
  <2> QED BY <1>0, <2>2, SeqOfLen
<1>2. ASSUME NEW j \in 1 .. n, NEW x \in inv[j - 1]
      PROVE  x \in Acc /\ body(x, j) \in inv[j]
  <2>1. j - 1 \in 0 .. n /\ j \in 0 .. n /\ j - 1 \in 0 .. n - 1 /\ (j - 1) + 1 = j
    BY <1>0
  <2>2. x \in Passed(im, j - 1) /\ inv[j] = Passed(im, j)
    BY <1>2, <2>1
  <2>3. s[j] = j - 1
    BY <1>0 DEF numbers
  <2> HIDE DEF inv, s
  <2>4. x \in Acc
    BY <2>2 DEF Passed
  <2>5. CASE x.err = "ok"
    <3>1. check_inode(im, x, j - 1) \in Passed(im, (j - 1) + 1)
      BY <2>1, <2>2, <2>5, CheckInode
    <3> QED BY <2>1, <2>2, <2>3, <2>4, <2>5, <3>1
  <2>6. CASE x.err # "ok"
    BY <2>2, <2>4, <2>6 DEF Passed
  <2> QED BY <2>5, <2>6
<1>3. Blank \in inv[0] /\ inv[n] = Passed(im, n)
  <2>1. 0 \in 0 .. n /\ n \in 0 .. n
    BY <1>0
  <2> QED BY <2>1, BlankPassed
<1>4. \E f : Run(f)
  <2>1. StepsIn(n, step, inv)
    <3> HIDE DEF inv, body
    <3> QED BY <1>2 DEF StepsIn
  <2>2. PICK f : IsRun(f, n, Blank, step) /\ \A j \in 0 .. n : f[j] \in inv[j]
    <3> HIDE DEF inv, step
    <3> QED BY <1>0, <1>3, <2>1, RunExists, Zenon
  <2>3. ASSUME NEW j \in 1 .. n PROVE step[j][f[j - 1]] = body(f[j - 1], j)
    <3>1. j - 1 \in 0 .. n
      BY <1>0
    <3>2. f[j - 1] \in Acc
      BY <1>2, <2>2, <3>1, Zenon
    <3> HIDE DEF body
    <3> QED BY <3>2
  <2>4. Run(f)
    <3> HIDE DEF body, step
    <3>1. \A j \in 0 .. n : j # 0 => j \in 1 .. n
      BY <1>0
    <3> QED BY <2>2, <2>3, <3>1, Zenon DEF IsRun
  <2> HIDE DEF Run
  <2> QED BY <2>4
<1>5. PICK f : Run(f) /\ first_pass(im) = f[n]
  <2>1. first_pass(im) = (CHOOSE f : Run(f))[n]
    BY <1>1, Zenon DEF first_pass, Scan
  <2> HIDE DEF Run
  <2> QED BY <1>4, <2>1, Zenon
<1>6. f[n] \in inv[n]
  <2>1. f[0] \in inv[0]
    BY <1>0, <1>3, <1>5
  <2>2. ASSUME NEW j \in 1 .. n, f[j - 1] \in inv[j - 1] PROVE f[j] \in inv[j]
    <3>1. f[j] = body(f[j - 1], j)
      BY <1>0, <1>5
    <3> HIDE DEF inv, body
    <3> QED BY <1>2, <2>2, <3>1
  <2> HIDE DEF inv
  <2> QED BY <1>0, <2>1, <2>2, RunEnds
<1> QED BY <1>3, <1>5, <1>6

-----------------------------------------------------------------------------
(* What the first pass knows when it ends.                                       *)

Gathered(im, x) ==
  /\ x \in Acc /\ x.err = "ok"
  /\ BlocksSeen(im, x, Uses(im)) /\ EntriesSeen(im, x, EntrySet(im))
  /\ \A i \in 0 .. im.sb.ninodes - 1 : InodeOK(im, i)

\* At the end of the table all uses and all entries are passed.
LEMMA AllGathered ==
  ASSUME NEW im, IsImage(im), NEW x \in Passed(im, im.sb.ninodes), x.err = "ok"
  PROVE  Gathered(im, x)
<1> DEFINE n == im.sb.ninodes
<1>1. UsesBefore(im, n, 1) = Uses(im)
  <2>1. ASSUME NEW v \in Uses(im) PROVE v[1] < n
    BY InodesIn DEF Uses, Inodes
  <2> QED BY <2>1 DEF UsesBefore
<1>2. EntriesBefore(im, n, 1, 1) = EntrySet(im)
  <2>1. ASSUME NEW d \in EntrySet(im) PROVE d[1][1] < n
    <3>1. d[1][1] \in Inodes(im)
      BY InodesIn DEF EntrySet, DirSlots
    <3> QED BY <3>1, InodesIn DEF Inodes
  <2> QED BY <2>1 DEF EntriesBefore
<1> HIDE DEF n
<1>3. /\ x \in Acc /\ BlocksSeen(im, x, UsesBefore(im, n, 1))
      /\ EntriesSeen(im, x, EntriesBefore(im, n, 1, 1)) /\ \A j \in 0 .. n - 1 : InodeOK(im, j)
  BY DEF Passed, n
<1> QED BY <1>1, <1>2, <1>3, Zenon DEF Gathered, n

\* The half of consistency that the first pass decides.
LEMMA FirstHalf ==
  ASSUME NEW im, IsImage(im), NEW a, Gathered(im, a)
  PROVE  /\ TypesOK(im) /\ DirectOK(im) /\ IndirectOK(im) /\ OnceOK(im) /\ UsedAreMarked(im)
         /\ FormatOK(im) /\ SizeOK(im)
<1>1. BlocksSeen(im, a, Uses(im)) /\ DotSeen(im, EntrySet(im))
  BY DEF Gathered, EntriesSeen
<1>2. \A i \in 0 .. im.sb.ninodes - 1 : InodeOK(im, i)
  BY DEF Gathered
<1>3. Used(im) \subseteq 0 .. im.sb.ninodes - 1 /\ Dirs(im) \subseteq Used(im) /\ Used(im) \subseteq Inums
  BY InodesIn DEF Inodes
<1>4. TypesOK(im)
  BY <1>2 DEF TypesOK, InodeOK
<1>5. ASSUME NEW i \in Used(im), NEW k \in Slots PROVE Addr(im, i, k) \in Data \cup {0}
  <2>1. CASE Addr(im, i, k) # 0
    <3>1. <<i, k>> \in Uses(im) /\ Block(im, <<i, k>>) = Addr(im, i, k)
      BY <2>1 DEF Uses, Block
    <3>2. Block(im, <<i, k>>) \in Data
      BY <1>1, <3>1, Zenon DEF BlocksSeen
    <3> QED BY <3>1, <3>2
  <2> QED BY <2>1
<1>6. DirectOK(im)
  <2>1. 1 .. NDIRECT \subseteq Slots
    BY Numbers DEF Slots
  <2> QED BY <1>5, <2>1 DEF DirectOK
<1>7. IndirectOK(im)
  <2>1. NDIRECT + 1 .. NDIRECT + 1 + W \subseteq Slots
    BY Numbers DEF Slots
  <2> QED BY <1>5, <2>1 DEF IndirectOK
<1>8. OnceOK(im) /\ UsedAreMarked(im)
  BY <1>1 DEF BlocksSeen, Block, OnceOK, UsedAreMarked
<1>9. FormatOK(im)
  <2>1. ASSUME NEW d \in Dirs(im)
        PROVE  /\ Cardinality(Named(im, d, ".")) = 1 /\ Cardinality(Named(im, d, "..")) = 1
               /\ \A e \in Named(im, d, ".") : Word(im, e).num = d
    <3>1. Cardinality(Named(im, d, ".")) = 1 /\ Cardinality(Named(im, d, "..")) = 1
      BY <1>2, <1>3, Zenon DEF InodeOK
    <3>2. ASSUME NEW e \in Named(im, d, ".") PROVE Word(im, e).num = d
      BY <1>1, Zenon DEF Named, DotSeen
    <3> QED BY <3>1, <3>2
  <2> QED BY <2>1, Zenon DEF FormatOK
<1>10. SizeOK(im)
  <2>1. ASSUME NEW i \in Used(im)
        PROVE  (im.inode[i].size + W - 1) \div W = Cardinality(ContentUses(im, i))
    <3>1. size_fits(im.inode[i].size, Cardinality(ContentUses(im, i)))
      BY <1>2, <1>3, Zenon DEF InodeOK
    <3>2. im.inode[i].size \in Nat
      BY <1>3 DEF IsImage
    <3>3. Cardinality(ContentUses(im, i)) \in Nat
      <4>1. ContentUses(im, i) \subseteq Uses(im)
        BY DEF ContentUses
      <4> QED BY <4>1, FiniteSets, FS_Subset, FS_CardinalityType
    <3> QED BY <3>1, <3>2, <3>3, SizeFits, Zenon
  <2> QED BY <2>1, Zenon DEF SizeOK
<1> QED BY <1>4, <1>6, <1>7, <1>8, <1>9, <1>10

\* The bitmap: a marked block that was not visited is not used.
LEMMA Bitmap ==
  ASSUME NEW im, IsImage(im), LayoutOK(im), NEW a, Gathered(im, a)
  PROVE  \/ MarkedAreUsed(im) /\ check_bitmap(im, a) = a
         \/ ~MarkedAreUsed(im) /\ check_bitmap(im, a) = Fail(a, "bitmap_marked_used")
<1>1. a.err = "ok" /\ a.visited = {Block(im, u) : u \in Uses(im)}
  BY DEF Gathered, BlocksSeen
<1>2. \A b \in im.bit : InRange(im, b) <=> b \in Data
  BY RangeIsData DEF IsImage
<1>3. MarkedAreUsed(im) <=> ~ \E b \in im.bit \ a.visited : InRange(im, b)
  BY <1>1, <1>2 DEF MarkedAreUsed, Block
<1> QED BY <1>1, <1>3, Zenon DEF check_bitmap

-----------------------------------------------------------------------------
(* The directory tree.                                                           *)
=============================================================================
