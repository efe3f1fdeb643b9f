--------------------------- MODULE FsToolsProofs ---------------------------
(***************************************************************************)
(* The file system tools for any image and any host tree.  myfsck, from    *)
(* what its first pass has gathered (FsckPassProofs): the second pass, the *)
(* walk along "..", and the verdict.  mkfs: the map of fetchHardLink()     *)
(* gives all names of a host file the same inode.                          *)
(***************************************************************************)
EXTENDS FsTools, FsckPassProofs, ListLemmas

\* A set that counts one.
LEMMA OnlyOne ==
  ASSUME NEW S, IsFiniteSet(S), Cardinality(S) = 1
  PROVE  \E x : S = {x}
BY FS_Singleton

\* The gathered ".." of a directory is the one it has.
LEMMA DotDots ==
  ASSUME NEW im, IsImage(im), NEW a, Gathered(im, a)
  PROVE  /\ a.dotdot \in [Inums -> Inums \cup {-1}]
         /\ \A d \in Dirs(im) : /\ Named(im, d, "..") # {}
                                /\ \A e \in Named(im, d, "..") : Word(im, e).num = a.dotdot[d]
<1>1. a \in Acc /\ DotDotSeen(im, a, EntrySet(im))
  BY DEF Gathered, EntriesSeen
<1>2. a.dotdot \in [Inums -> Int]
  BY <1>1, Fields
<1>3. ASSUME NEW e \in EntrySet(im) PROVE Word(im, e).num \in Inums
  BY DEF EntrySet, IsImage
<1>4. ASSUME NEW i \in Inums PROVE a.dotdot[i] \in Inums \cup {-1}
  BY <1>1, <1>3, Zenon DEF DotDotSeen
<1>5. ASSUME NEW d \in Dirs(im)
      PROVE  /\ Named(im, d, "..") # {}
             /\ \A e \in Named(im, d, "..") : Word(im, e).num = a.dotdot[d]
  <2>1. d \in Inums
    BY InodesIn
  <2>2. Named(im, d, "..") \subseteq EntrySet(im) /\ IsFiniteSet(Named(im, d, ".."))
    <3>1. Named(im, d, "..") \subseteq EntrySet(im)
      BY DEF Named
    <3> QED BY <3>1, FiniteSets, FS_Subset
  <2>3. Cardinality(Named(im, d, "..")) = 1
    BY FirstHalf, Zenon DEF FormatOK
  <2>4. PICK e : Named(im, d, "..") = {e}
    BY <2>2, <2>3, OnlyOne, Zenon
  <2>5. EntrySet(im) \cap Named(im, d, "..") = {e}
    BY <2>2, <2>4
  <2>6. a.dotdot[d] = Word(im, e).num
    BY <1>1, <2>1, <2>5, Zenon DEF DotDotSeen
  <2> QED BY <2>4, <2>6
<1> QED BY <1>2, <1>4, <1>5

\* The gathered parent of a directory that is named once is the one that names it.
LEMMA OnlyParent ==
  ASSUME NEW im, IsImage(im), NEW a, Gathered(im, a), NEW d \in Dirs(im), a.refs[d] = 1,
         d # ROOTINO
  PROVE  /\ \A p : <<p, d>> \in Children(im) <=> a.entry[d] # -1 /\ p = a.entry[d]
         /\ a.entry[d] # -1 => a.entry[d] \in Dirs(im)
<1>1. /\ a \in Acc /\ RefsSeen(im, a, EntrySet(im)) /\ EntrySeen(im, a, EntrySet(im))
      /\ d \in Inums /\ im.inode[d].type = T_DIR
  BY InodesIn DEF Gathered, EntriesSeen, Dirs
<1>2. Naming(im, d) \subseteq EntrySet(im) /\ ChildEntries(im, d) \subseteq Naming(im, d)
  BY DEF Naming, ChildEntries
<1>3. EntrySet(im) \cap Naming(im, d) = Naming(im, d)
      /\ EntrySet(im) \cap ChildEntries(im, d) = ChildEntries(im, d)
  BY <1>2
<1>4. Cardinality(Naming(im, d)) = 1
  BY <1>1, <1>3, Zenon DEF RefsSeen
<1>5. IsFiniteSet(Naming(im, d))
  BY <1>2, FiniteSets, FS_Subset
<1>6. PICK e : Naming(im, d) = {e}
  BY <1>4, <1>5, OnlyOne, Zenon
<1>7. \/ a.entry[d] = -1 /\ ChildEntries(im, d) = {}
      \/ \E c \in ChildEntries(im, d) : a.entry[d] = c[1][1]
  BY <1>1, <1>3, Zenon DEF EntrySeen
<1>8. ASSUME NEW c \in ChildEntries(im, d)
      PROVE  c = e /\ c[1][1] \in Dirs(im) /\ c[1][1] # -1
  <2>1. c = e
    BY <1>2, <1>6
  <2>2. c[1][1] \in Dirs(im)
    BY DEF ChildEntries, EntrySet, DirSlots
  <2> QED BY <2>1, <2>2, InodesIn
<1>9. ASSUME NEW p PROVE <<p, d>> \in Children(im) <=> \E c \in ChildEntries(im, d) : c[1][1] = p
  BY DEF Children, ChildEntries
<1> QED BY <1>7, <1>8, <1>9

\* What ParentsOK asks of directory d, in terms of its gathered "..".
ParentIs(im, a, d) ==
  IF d = ROOTINO THEN a.dotdot[d] = ROOTINO
  ELSE a.dotdot[d] \in Dirs(im) /\ <<a.dotdot[d], d>> \in Children(im)

\* parent_ok is the condition on the parent of a directory that is named once.
LEMMA ParentIsOK ==
  ASSUME NEW im, IsImage(im), NEW a, Gathered(im, a)
  PROVE  /\ ParentsOK(im) <=> \A d \in Dirs(im) : ParentIs(im, a, d)
         /\ \A d \in Dirs(im) : a.refs[d] = 1 => (parent_ok(a, d) <=> ParentIs(im, a, d))
<1>1. ParentsOK(im) <=> \A d \in Dirs(im) : ParentIs(im, a, d)
  BY DotDots DEF ParentsOK, ParentIs
<1>2. ASSUME NEW d \in Dirs(im), a.refs[d] = 1
      PROVE  parent_ok(a, d) <=> ParentIs(im, a, d)
  <2>1. CASE d = ROOTINO
    BY <2>1 DEF parent_ok, ParentIs
  <2>2. CASE d # ROOTINO
    <3>1. PICK p, q : p = a.dotdot[d] /\ q = a.entry[d]
      BY Zenon
    <3>2. /\ <<p, d>> \in Children(im) <=> q # -1 /\ p = q
          /\ q # -1 => q \in Dirs(im)
      BY <1>2, <2>2, <3>1, OnlyParent
    <3> QED BY <2>2, <3>1, <3>2 DEF parent_ok, ParentIs
  <2> QED BY <2>1, <2>2
<1> QED BY <1>1, <1>2

\* T holds the root and every unseen inode whose ".." it holds.
Closed(dotdot, seen, T) ==
  ROOTINO \in T /\ \A x \in Inums \ seen : dotdot[x] \in T => x \in T
\* The walk from cur comes to the root without a second visit to seen.
Leads(dotdot, cur, seen) ==
  \A T \in SUBSET Inums : Closed(dotdot, seen, T) => cur \in T

\* One step of the walk.
LEMMA LeadsStep ==
  ASSUME NEW dotdot \in [Inums -> Inums \cup {-1}], NEW cur \in Inums \cup {-1},
         NEW seen \in SUBSET Inums
  PROVE  Leads(dotdot, cur, seen)
           <=> \/ cur = ROOTINO
               \/ cur # -1 /\ cur \notin seen /\ Leads(dotdot, dotdot[cur], seen \cup {cur})
<1>0. ROOTINO \in Inums /\ -1 \notin Inums
  BY Numbers DEF Inums
<1>1. CASE cur = ROOTINO
  BY <1>1 DEF Leads, Closed
<1>2. CASE cur # ROOTINO
  <2>1. ASSUME cur # -1, cur \notin seen, Leads(dotdot, dotdot[cur], seen \cup {cur})
        PROVE  Leads(dotdot, cur, seen)
    <3>1. ASSUME NEW T \in SUBSET Inums, Closed(dotdot, seen, T) PROVE cur \in T
      <4>1. Closed(dotdot, seen \cup {cur}, T)
        BY <3>1 DEF Closed
      <4>2. dotdot[cur] \in T
        BY <2>1, <4>1 DEF Leads
      <4> QED BY <2>1, <3>1, <4>2 DEF Closed
    <3> QED BY <3>1 DEF Leads
  <2>2. ASSUME Leads(dotdot, cur, seen)
        PROVE  cur # -1 /\ cur \notin seen /\ Leads(dotdot, dotdot[cur], seen \cup {cur})
    <3>1. cur \in Inums
      <4>1. Closed(dotdot, seen, Inums)
        BY <1>0 DEF Closed
      <4> QED BY <2>2, <4>1 DEF Leads
    <3>2. cur \notin seen
      <4>1. SUFFICES ASSUME cur \in seen PROVE FALSE
        OBVIOUS
      <4>2. Closed(dotdot, seen, Inums \ {cur})
        BY <1>0, <1>2, <4>1 DEF Closed
      <4> QED BY <2>2, <4>2 DEF Leads
    <3>3. ASSUME NEW T \in SUBSET Inums, Closed(dotdot, seen \cup {cur}, T)
          PROVE  dotdot[cur] \in T
      <4>1. SUFFICES ASSUME dotdot[cur] \notin T PROVE FALSE
        OBVIOUS
      <4>2. PICK R \in SUBSET Inums : R = T \ {cur}
        BY Zenon
      <4>3. Closed(dotdot, seen, R)
        BY <1>2, <3>3, <4>1, <4>2 DEF Closed
      <4> QED BY <2>2, <4>2, <4>3 DEF Leads
    <3> QED BY <1>0, <3>1, <3>2, <3>3 DEF Leads
  <2> QED BY <1>2, <2>1, <2>2
<1> QED BY <1>1, <1>2

\* The walk is defined, and says whether the root is met.
LEMMA ReachesRoot ==
  ASSUME NEW dotdot \in [Inums -> Inums \cup {-1}], NEW i \in Inums
  PROVE  reaches_root(dotdot, i) <=> Leads(dotdot, i, {})
<1> DEFINE D == (Inums \cup {-1}) \X SUBSET Inums
           next(f, at) == \/ at[1] = ROOTINO
                          \/ /\ at[1] # -1 /\ at[1] \notin at[2]
                             /\ f[<<dotdot[at[1]], at[2] \cup {at[1]}>>]
           Walk(f) == f = [at \in D |-> next(f, at)]
<1>1. ASSUME NEW at \in D
      PROVE  /\ at = <<at[1], at[2]>> /\ at[1] \in Inums \cup {-1} /\ at[2] \in SUBSET Inums
             /\ at[1] # -1 => <<dotdot[at[1]], at[2] \cup {at[1]}>> \in D
  OBVIOUS
<1>2. \E f : Walk(f)
  <2> DEFINE g == [at \in D |-> Leads(dotdot, at[1], at[2])]
  <2>1. ASSUME NEW at \in D PROVE g[at] = next(g, at)
    <3>1. PICK cur, seen : cur = at[1] /\ seen = at[2] /\ cur \in Inums \cup {-1}
                           /\ seen \in SUBSET Inums
      BY <1>1
    <3>2. g[at] = Leads(dotdot, cur, seen)
      BY <3>1
    <3>3. cur # -1 => g[<<dotdot[cur], seen \cup {cur}>>]
                        = Leads(dotdot, dotdot[cur], seen \cup {cur})
      BY <1>1, <3>1, Zenon
    <3>4. Leads(dotdot, cur, seen)
            <=> \/ cur = ROOTINO
                \/ cur # -1 /\ cur \notin seen /\ Leads(dotdot, dotdot[cur], seen \cup {cur})
      BY <3>1, LeadsStep
    <3> HIDE DEF g
    <3>5. Leads(dotdot, cur, seen) \in BOOLEAN
      BY DEF Leads
    <3> QED BY <3>1, <3>2, <3>3, <3>4, <3>5, Zenon
  <2>2. g = [at \in D |-> g[at]]
    OBVIOUS
  <2> HIDE DEF g, D, next
  <2>3. [at \in D |-> g[at]] = [at \in D |-> next(g, at)]
    BY <2>1, Zenon
  <2> QED BY <2>2, <2>3, Zenon
<1>3. PICK f : Walk(f) /\ reaches_root(dotdot, i) = f[<<i, {}>>]
  <2>1. reaches_root(dotdot, i) = (CHOOSE f : Walk(f))[<<i, {}>>]
    BY Zenon DEF reaches_root
  <2> HIDE DEF Walk
  <2> QED BY <1>2, <2>1, Zenon
<1>4. ASSUME NEW cur \in Inums \cup {-1}, NEW seen \in SUBSET Inums
      PROVE  f[<<cur, seen>>] <=> \/ cur = ROOTINO
                                  \/ /\ cur # -1 /\ cur \notin seen
                                     /\ f[<<dotdot[cur], seen \cup {cur}>>]
  <2>1. <<cur, seen>> \in D
    OBVIOUS
  <2>2. f[<<cur, seen>>] = next(f, <<cur, seen>>)
    <3> HIDE DEF D, next
    <3> QED BY <1>3, <2>1, Zenon
  <2> QED BY <2>2, Zenon
<1> DEFINE Wrong(seen) == \E cur \in Inums \cup {-1} : ~(f[<<cur, seen>>] <=> Leads(dotdot, cur, seen))
           Bad == {T \in SUBSET Inums : Wrong(Inums \ T)}
<1>5. Bad = {}
  <2>1. SUFFICES ASSUME Bad # {} PROVE FALSE
    BY Zenon
  <2>2. Bad \subseteq SUBSET Inums /\ IsFiniteSet(Inums)
    BY FS_Interval, Numbers DEF Inums
  <2>3. PICK T \in Bad : \A R \in Bad : R \subseteq T => R = T
    <3> HIDE DEF Bad
    <3> QED BY <2>1, <2>2, MinimalSubset
  <2>4. PICK seen \in SUBSET Inums : seen = Inums \ T /\ T = Inums \ seen
    BY <2>2
  <2>5. PICK cur \in Inums \cup {-1} : ~(f[<<cur, seen>>] <=> Leads(dotdot, cur, seen))
    BY <2>3, <2>4, Zenon
  <2>6. cur # ROOTINO /\ cur # -1 /\ cur \notin seen
    BY <1>4, <2>5, LeadsStep, Zenon
  <2>7. cur \in Inums /\ dotdot[cur] \in Inums \cup {-1} /\ seen \cup {cur} \in SUBSET Inums
    BY <2>6
  <2>8. ~(f[<<dotdot[cur], seen \cup {cur}>>] <=> Leads(dotdot, dotdot[cur], seen \cup {cur}))
    BY <1>4, <2>5, <2>6, LeadsStep, Zenon
  <2>9. Wrong(seen \cup {cur})
    BY <2>7, <2>8, Zenon
  <2>10. PICK R \in SUBSET Inums : R = T \ {cur} /\ Inums \ R = seen \cup {cur}
    <3>1. T \ {cur} \in SUBSET Inums
      BY <2>4
    <3>2. Inums \ (T \ {cur}) = seen \cup {cur}
      BY <2>4, <2>7
    <3> QED BY <3>1, <3>2, Zenon
  <2>11. R \in Bad
    <3> HIDE DEF Wrong
    <3> QED BY <2>9, <2>10
  <2>12. cur \in T /\ cur \notin R /\ R \subseteq T
    BY <2>4, <2>6, <2>7, <2>10
  <2> HIDE DEF Bad
  <2> QED BY <2>3, <2>11, <2>12
<1>6. ~Wrong({})
  <2>1. Inums \in SUBSET Inums /\ Inums \ Inums = {}
    OBVIOUS
  <2> HIDE DEF Wrong
  <2> QED BY <1>5, <2>1
<1> QED BY <1>3, <1>6, Zenon

-----------------------------------------------------------------------------
(* The second pass.                                                              *)

\* What is required of an inode by the second pass.
NodeOK(im, a, i) ==
  /\ im.inode[i].type # 0 <=> a.refs[i] # 0
  /\ im.inode[i].type = T_FILE => im.inode[i].nlink = a.refs[i]
  /\ im.inode[i].type = T_DIR => a.refs[i] = 1 /\ parent_ok(a, i) /\ reaches_root(a.dotdot, i)

\* inodeindirent[] holds the number of references of every inode.
LEMMA RefsAre ==
  ASSUME NEW im, IsImage(im), NEW a, Gathered(im, a), NEW i \in Inums
  PROVE  a.refs[i] = Refs(im, i) /\ a.refs[i] \in Nat
<1>1. a \in Acc /\ RefsSeen(im, a, EntrySet(im))
  BY DEF Gathered, EntriesSeen
<1>2. EntrySet(im) \cap Naming(im, i) = Naming(im, i)
  BY DEF Naming
<1>3. a.refs \in [Inums -> Nat]
  BY <1>1, Fields
<1> QED BY <1>1, <1>2, <1>3, Zenon DEF RefsSeen, Refs

\* When the parents are right and every directory is named once, a directory that is
\* reached from the root walks back to it.
LEMMA WalkBack ==
  ASSUME NEW im, IsImage(im), NEW a, Gathered(im, a), NEW i \in Dirs(im),
         ParentsOK(im), ReachOK(im), DirOnceOK(im)
  PROVE  Leads(a.dotdot, i, {})
<1>1. Dirs(im) \subseteq Inums /\ ROOTINO \in Inums
  BY InodesIn, Numbers
<1>2. SUFFICES ASSUME NEW T \in SUBSET Inums, Closed(a.dotdot, {}, T) PROVE i \in T
  BY DEF Leads
<1>3. ROOTINO \in T /\ \A x \in Inums : a.dotdot[x] \in T => x \in T
  BY <1>2 DEF Closed
<1>4. PICK S \in SUBSET (Dirs(im) \cup {ROOTINO}) : S = (T \cap Dirs(im)) \cup {ROOTINO}
  <2>1. (T \cap Dirs(im)) \cup {ROOTINO} \in SUBSET (Dirs(im) \cup {ROOTINO})
    OBVIOUS
  <2> QED BY <2>1, Zenon
<1>5. S \subseteq T
  BY <1>3, <1>4
<1>6. ASSUME NEW c \in Children(im), c[1] \in S, c[2] \in Dirs(im) PROVE c[2] \in S
  <2>1. CASE c[2] = ROOTINO
    BY <1>4, <2>1
  <2>2. CASE c[2] # ROOTINO
    <3>1. PICK p, d : p = c[1] /\ d = c[2] /\ c = <<p, d>>
      BY DEF Children
    <3>2. d \in Dirs(im) /\ d \in Inums /\ d # ROOTINO
      BY <1>1, <1>6, <2>2, <3>1
    <3>3. a.refs[d] = 1
      <4>1. a.refs[d] = Refs(im, d)
        BY <3>2, RefsAre
      <4> QED BY <3>2, <4>1 DEF DirOnceOK
    <3>4. PICK q : q = a.dotdot[d]
      BY Zenon
    <3>5. <<q, d>> \in Children(im)
      <4>1. ParentIs(im, a, d)
        BY <3>2, ParentIsOK, Zenon
      <4> QED BY <3>2, <3>4, <4>1, Zenon DEF ParentIs
    <3>6. p = a.entry[d] /\ q = a.entry[d]
      <4>1. \A r : <<r, d>> \in Children(im) => r = a.entry[d]
        BY <3>2, <3>3, OnlyParent
      <4> QED BY <1>6, <3>1, <3>5, <4>1, Zenon
    <3>7. a.dotdot[d] \in T
      BY <1>5, <1>6, <3>1, <3>4, <3>6
    <3> QED BY <1>3, <1>4, <3>1, <3>2, <3>7
  <2> QED BY <2>1, <2>2
<1>7. ROOTINO \in S
  BY <1>4
<1>8. Dirs(im) \subseteq S
  BY <1>6, <1>7, Zenon DEF ReachOK
<1> QED BY <1>5, <1>8

\* The body of the second pass: nothing happens, or the message is true.
LEMMA CheckReferences ==
  ASSUME NEW im, IsImage(im), NEW a, Gathered(im, a), NEW i \in Inodes(im)
  PROVE  \/ check_references(im, a, i) = a /\ NodeOK(im, a, i)
         \/ \E v \in Verdicts \ {"ok"} :
               check_references(im, a, i) = Fail(a, v) /\ TrueMessage(im, v)
<1> DEFINE type == im.inode[i].type
           refs == a.refs[i]
<1>1. i \in Inums /\ refs = Refs(im, i) /\ refs \in Nat
  BY InodesIn, RefsAre
<1>2. T_DIR # 0 /\ T_FILE # 0 /\ T_DIR # T_FILE
  BY DEF T_DIR, T_FILE
<1>3. type # 0 <=> i \in Used(im)
  BY DEF Used
<1>4. type = T_DIR <=> i \in Dirs(im)
  BY DEF Dirs
<1>5. ASSUME NEW v \in Verdicts, v # "ok", check_references(im, a, i) = Fail(a, v), TrueMessage(im, v)
      PROVE  \E w \in Verdicts \ {"ok"} :
                check_references(im, a, i) = Fail(a, w) /\ TrueMessage(im, w)
  BY <1>5, Zenon
<1>6. CASE type # 0 /\ refs = 0
  <2>0. ~(refs > 1) /\ refs # 1
    BY <1>6
  <2>1. check_references(im, a, i) = Fail(a, "used_inode_not_found")
    BY <1>6, <2>0, Zenon DEF check_references
  <2>2. ~UsedAreNamed(im)
    <3>1. i \in Used(im) /\ Refs(im, i) = 0
      BY <1>1, <1>3, <1>6, Zenon
    <3> QED BY <3>1 DEF UsedAreNamed
  <2>3. TrueMessage(im, "used_inode_not_found") /\ "used_inode_not_found" \in Verdicts
    BY <2>2 DEF TrueMessage, Verdicts
  <2> QED BY <1>5, <2>1, <2>3
<1>7. CASE type = 0 /\ refs # 0
  <2>1. check_references(im, a, i) = Fail(a, "inode_referred_marked")
    BY <1>7, <1>2 DEF check_references
  <2>2. ~NamedAreUsed(im)
    BY <1>1, <1>3, <1>7 DEF NamedAreUsed
  <2>3. TrueMessage(im, "inode_referred_marked") /\ "inode_referred_marked" \in Verdicts
    BY <2>2 DEF TrueMessage, Verdicts
  <2> QED BY <1>5, <2>1, <2>3
<1>8. CASE type = T_FILE /\ refs # 0 /\ im.inode[i].nlink # refs
  <2>1. check_references(im, a, i) = Fail(a, "reference_count")
    BY <1>8, <1>2 DEF check_references
  <2>2. ~LinksOK(im)
    BY <1>1, <1>8 DEF LinksOK
  <2>3. TrueMessage(im, "reference_count") /\ "reference_count" \in Verdicts
    BY <2>2 DEF TrueMessage, Verdicts
  <2> QED BY <1>5, <2>1, <2>3
<1>9. CASE type = T_DIR /\ refs > 1
  <2>1. check_references(im, a, i) = Fail(a, "directory_once")
    BY <1>1, <1>9, <1>2 DEF check_references
  <2>2. ~DirOnceOK(im)
    BY <1>1, <1>4, <1>9 DEF DirOnceOK
  <2>3. TrueMessage(im, "directory_once") /\ "directory_once" \in Verdicts
    BY <2>2 DEF TrueMessage, Verdicts
  <2> QED BY <1>5, <2>1, <2>3
<1>10. CASE type = T_DIR /\ refs = 1 /\ ~parent_ok(a, i)
  <2>1. check_references(im, a, i) = Fail(a, "parent_directory")
    BY <1>1, <1>10, <1>2 DEF check_references
  <2>2. ~ParentsOK(im)
    BY <1>4, <1>10, ParentIsOK, Zenon
  <2>3. TrueMessage(im, "parent_directory") /\ "parent_directory" \in Verdicts
    BY <2>2 DEF TrueMessage, Verdicts
  <2> QED BY <1>5, <2>1, <2>3
<1>11. CASE type = T_DIR /\ refs = 1 /\ parent_ok(a, i) /\ ~reaches_root(a.dotdot, i)
  <2>1. check_references(im, a, i) = Fail(a, "inaccessible")
    BY <1>1, <1>11, <1>2 DEF check_references
  <2>2. a.dotdot \in [Inums -> Inums \cup {-1}]
    BY DotDots
  <2>3. ~Leads(a.dotdot, i, {})
    BY <1>1, <1>11, <2>2, ReachesRoot
  <2>4. ~ParentsOK(im) \/ ~ReachOK(im) \/ ~DirOnceOK(im)
    BY <1>4, <1>11, <2>3, WalkBack, Zenon
  <2>5. TrueMessage(im, "inaccessible") /\ "inaccessible" \in Verdicts
    BY <2>4 DEF TrueMessage, Verdicts
  <2> QED BY <1>5, <2>1, <2>5
<1>12. CASE NodeOK(im, a, i)
  <2>1. check_references(im, a, i) = a
    BY <1>1, <1>2, <1>12 DEF check_references, NodeOK
  <2> QED BY <1>12, <2>1
<1>13. NodeOK(im, a, i) \/ (type # 0 /\ refs = 0) \/ (type = 0 /\ refs # 0)
       \/ (type = T_FILE /\ refs # 0 /\ im.inode[i].nlink # refs) \/ (type = T_DIR /\ refs > 1)
       \/ (type = T_DIR /\ refs = 1 /\ ~parent_ok(a, i))
       \/ (type = T_DIR /\ refs = 1 /\ parent_ok(a, i) /\ ~reaches_root(a.dotdot, i))
  BY <1>1, <1>2 DEF NodeOK
<1> QED BY <1>6, <1>7, <1>8, <1>9, <1>10, <1>11, <1>12, <1>13, Zenon

\* The accumulator of the second pass after inode k.
Tracked(im, a, k) ==
  {x \in Acc : IF x.err = "ok"
               THEN x = a /\ Gathered(im, a) /\ \A i \in 1 .. k : NodeOK(im, a, i)
               ELSE TrueMessage(im, x.err)}

\* The body of the second pass, with what it has established so far.
LEMMA TrackStep ==
  ASSUME NEW im, IsImage(im), NEW a, NEW j \in Inodes(im), NEW x \in Tracked(im, a, j - 1),
         x.err = "ok"
  PROVE  check_references(im, x, j) \in Tracked(im, a, j)
<1>1. x \in Acc /\ x = a /\ Gathered(im, a) /\ \A i \in 1 .. j - 1 : NodeOK(im, a, i)
  BY DEF Tracked
<1>2. CASE check_references(im, a, j) = a /\ NodeOK(im, a, j)
  <2>1. \A i \in 1 .. j : i = j \/ i \in 1 .. j - 1
    BY DEF Inodes
  <2>2. \A i \in 1 .. j : NodeOK(im, a, i)
    BY <1>1, <1>2, <2>1, Zenon
  <2> QED BY <1>1, <1>2, <2>2, Zenon DEF Tracked
<1>3. ASSUME NEW v \in Verdicts \ {"ok"}, check_references(im, a, j) = Fail(a, v), TrueMessage(im, v)
      PROVE  check_references(im, x, j) \in Tracked(im, a, j)
  <2>1. PICK y : y = Fail(a, v)
    BY Zenon
  <2>2. y \in Acc /\ y.err = v
    BY <1>1, <2>1, FailAcc
  <2>3. y \in Tracked(im, a, j)
    BY <1>3, <2>2 DEF Tracked
  <2> QED BY <1>1, <1>3, <2>1, <2>3, Zenon
<1> QED BY <1>1, <1>2, <1>3, CheckReferences, Zenon

\* The loop of the second pass over the inode table.
LEMMA SecondPass ==
  ASSUME NEW im, IsImage(im), NEW a \in Acc,
         IF a.err = "ok" THEN Gathered(im, a) ELSE TrueMessage(im, a.err)
  PROVE  second_pass(im, a) \in Tracked(im, a, im.sb.ninodes - 1)
<1> DEFINE n == IF im.sb.ninodes = 0 THEN 0 ELSE im.sb.ninodes - 1
           s == numbers(im, 1)
           inv == [j \in 0 .. n |-> Tracked(im, a, j)]
           body(x, j) == IF x.err = "ok" THEN check_references(im, x, s[j]) ELSE x
           step == [j \in 1 .. n |-> [x \in Acc |-> body(x, j)]]
           Run(f) == f = [j \in 0 .. n |-> IF j = 0 THEN a ELSE body(f[j - 1], j)]
<1>0. n \in Nat /\ 1 .. im.sb.ninodes - 1 = 1 .. n
  BY InodesIn
<1>1. Len(s) = n
  <2>1. s \in [1 .. n -> Int]
    <3>1. s = [k \in 1 .. n |-> 1 + k - 1]
      <4> HIDE DEF n
      <4> QED BY <1>0, Zenon DEF numbers
    <3> HIDE DEF n, s
    <3> QED BY <1>0, <3>1
  <2> HIDE DEF n, s
  <2> QED BY <1>0, <2>1, SeqOfLen
<1>2. ASSUME NEW j \in 1 .. n, NEW x \in inv[j - 1]
      PROVE  x \in Acc /\ body(x, j) \in inv[j]
  <2>0. n \in Nat
    BY <1>0
  <2>1. j \in Inodes(im) /\ j \in Int
    <3>1. j \in 1 .. im.sb.ninodes - 1
      <4> HIDE DEF n
      <4> QED BY <1>0, Zenon
    <3> HIDE DEF n
    <3> QED BY <2>0, <3>1 DEF Inodes
  <2>2. s[j] = j
    <3>1. j \in 1 .. im.sb.ninodes - 1
      BY <2>1 DEF Inodes
    <3>2. s[j] = 1 + j - 1
      BY <3>1, Zenon DEF numbers
    <3> HIDE DEF s
    <3> QED BY <2>1, <3>2
  <2> HIDE DEF n, s
  <2>3. j - 1 \in 0 .. n /\ j \in 0 .. n
    BY <2>0
  <2>4. x \in Tracked(im, a, j - 1) /\ inv[j] = Tracked(im, a, j)
    BY <1>2, <2>3
  <2> HIDE DEF inv
  <2>5. x \in Acc
    BY <2>4 DEF Tracked
  <2>6. CASE x.err = "ok"
    <3>1. check_references(im, x, j) \in Tracked(im, a, j)
      BY <2>1, <2>4, <2>6, TrackStep, Zenon
    <3> QED BY <2>2, <2>4, <2>5, <2>6, <3>1
  <2>7. CASE x.err # "ok"
    BY <2>4, <2>5, <2>7 DEF Tracked
  <2> QED BY <2>6, <2>7
<1>3. a \in inv[0] /\ inv[n] = Tracked(im, a, im.sb.ninodes - 1)
  <2>1. 0 \in 0 .. n /\ n \in 0 .. n
    BY <1>0
  <2>2. 1 .. 0 = {}
    OBVIOUS
  <2>3. Tracked(im, a, n) = Tracked(im, a, im.sb.ninodes - 1)
    <3> HIDE DEF n
    <3> QED BY <1>0, Zenon DEF Tracked
  <2> HIDE DEF n
  <2> QED BY <2>1, <2>2, <2>3 DEF Tracked
<1>4. \E f : Run(f)
  <2>1. StepsIn(n, step, inv)
    <3> HIDE DEF inv, body
    <3> QED BY <1>2 DEF StepsIn
  <2>2. PICK f : IsRun(f, n, a, step) /\ \A j \in 0 .. n : f[j] \in inv[j]
    <3> HIDE DEF inv, step
    <3> QED BY <1>0, <1>3, <2>1, RunExists, Zenon
  <2>3. ASSUME NEW j \in 1 .. n PROVE step[j][f[j - 1]] = body(f[j - 1], j)
    <3>1. j - 1 \in 0 .. n
      BY <1>0
    <3>2. f[j - 1] \in Acc
      BY <1>2, <2>2, <3>1, Zenon
    <3> HIDE DEF body
    <3> QED BY <3>2
  <2>4. Run(f)
    <3> HIDE DEF body, step
    <3>1. \A j \in 0 .. n : j # 0 => j \in 1 .. n
      BY <1>0
    <3> QED BY <2>2, <2>3, <3>1, Zenon DEF IsRun
  <2> HIDE DEF Run
  <2> QED BY <2>4
<1>5. PICK f : Run(f) /\ second_pass(im, a) = f[n]
  <2>1. second_pass(im, a) = (CHOOSE f : Run(f))[n]
    BY <1>1, Zenon DEF second_pass, Scan
  <2> HIDE DEF Run
  <2> QED BY <1>4, <2>1, Zenon
<1>6. f[n] \in inv[n]
  <2> HIDE DEF n, s, inv, body
  <2>1. f[0] \in inv[0]
    BY <1>0, <1>3, <1>5
  <2>2. ASSUME NEW j \in 1 .. n, f[j - 1] \in inv[j - 1] PROVE f[j] \in inv[j]
    <3>1. f[j] = body(f[j - 1], j)
      BY <1>0, <1>5
    <3> QED BY <1>2, <2>2, <3>1
  <2> QED BY <1>0, <2>1, <2>2, RunEnds, Zenon
<1> QED BY <1>3, <1>5, <1>6, Zenon

\* The half of consistency that the second pass decides.
LEMMA SecondHalf ==
  ASSUME NEW im, IsImage(im), NEW a, Gathered(im, a), \A i \in Inodes(im) : NodeOK(im, a, i)
  PROVE  /\ UsedAreNamed(im) /\ NamedAreUsed(im) /\ LinksOK(im) /\ DirOnceOK(im)
         /\ ParentsOK(im) /\ ReachOK(im) /\ (RootOK(im) \/ Used(im) = {})
<1>1. Inodes(im) \subseteq Inums /\ Used(im) \subseteq Inodes(im) /\ Dirs(im) \subseteq Used(im)
  BY InodesIn
<1>2. ASSUME NEW i \in Inodes(im) PROVE a.refs[i] = Refs(im, i) /\ a.refs[i] \in Nat
  BY <1>1, RefsAre
<1>3. UsedAreNamed(im) /\ NamedAreUsed(im) /\ LinksOK(im)
  <2>1. ASSUME NEW i \in Inodes(im)
        PROVE  /\ i \in Used(im) <=> Refs(im, i) > 0
               /\ im.inode[i].type = T_FILE => im.inode[i].nlink = Refs(im, i)
    <3>1. NodeOK(im, a, i)
      OBVIOUS
    <3> QED BY <1>2, <3>1 DEF NodeOK, Used
  <2> QED BY <1>1, <2>1 DEF UsedAreNamed, NamedAreUsed, LinksOK
<1>4. ASSUME NEW d \in Dirs(im)
      PROVE  /\ d \in Inodes(im) /\ d \in Inums /\ a.refs[d] = 1 /\ Refs(im, d) = 1
             /\ parent_ok(a, d) /\ reaches_root(a.dotdot, d)
  <2>1. d \in Inodes(im) /\ d \in Inums /\ im.inode[d].type = T_DIR
    BY <1>1 DEF Dirs
  <2>2. NodeOK(im, a, d)
    BY <2>1
  <2> QED BY <1>2, <2>1, <2>2, Zenon DEF NodeOK
<1>5. DirOnceOK(im)
  BY <1>4, Zenon DEF DirOnceOK
<1>6. ASSUME NEW d \in Dirs(im) PROVE ParentIs(im, a, d)
  BY <1>4, ParentIsOK, Zenon
<1>7. ParentsOK(im)
  BY <1>6, ParentIsOK, Zenon
<1>8. ASSUME NEW d \in Dirs(im) PROVE Leads(a.dotdot, d, {})
  <2>1. a.dotdot \in [Inums -> Inums \cup {-1}]
    BY DotDots
  <2> QED BY <1>4, <2>1, ReachesRoot
\* A set of directories with the root in it, and with every directory whose ".."
\* is a directory of the set, has all directories.
<1>9. ASSUME NEW S, ROOTINO \in S, S \subseteq Dirs(im) \cup {ROOTINO},
             \A d \in Dirs(im) : d # ROOTINO /\ a.dotdot[d] \in S => d \in S
      PROVE  Dirs(im) \subseteq S
  <2>1. ROOTINO \in Inums /\ Dirs(im) \subseteq Inums
    BY <1>1, Numbers
  <2>2. PICK T \in SUBSET Inums : T = S \cup (Inums \ Dirs(im))
    <3>1. S \cup (Inums \ Dirs(im)) \in SUBSET Inums
      BY <1>9, <2>1
    <3> QED BY <3>1, Zenon
  <2>3. ASSUME NEW x \in Inums \ {}, a.dotdot[x] \in T PROVE x \in T
    <3>1. CASE x \notin Dirs(im)
      BY <2>2, <3>1
    <3>2. CASE x = ROOTINO
      BY <1>9, <2>2, <3>2
    <3>3. CASE x \in Dirs(im) /\ x # ROOTINO
      <4>1. a.dotdot[x] \in Dirs(im)
        BY <1>6, <3>3, Zenon DEF ParentIs
      <4>2. a.dotdot[x] \in S
        BY <2>2, <2>3, <4>1
      <4> QED BY <1>9, <2>2, <3>3, <4>2
    <3> QED BY <3>1, <3>2, <3>3
  <2>4. ROOTINO \in T
    BY <1>9, <2>2
  <2>5. Closed(a.dotdot, {}, T)
    BY <2>3, <2>4 DEF Closed
  <2>6. \A d \in Dirs(im) : d \in T
    BY <1>8, <2>5, Zenon DEF Leads
  <2> QED BY <2>2, <2>6
<1>10. ReachOK(im)
  <2>1. ASSUME NEW S \in SUBSET (Dirs(im) \cup {ROOTINO}), ROOTINO \in S,
               \A c \in Children(im) : c[1] \in S /\ c[2] \in Dirs(im) => c[2] \in S
        PROVE  Dirs(im) \subseteq S
    <3>1. ASSUME NEW d \in Dirs(im), d # ROOTINO, a.dotdot[d] \in S PROVE d \in S
      <4>1. <<a.dotdot[d], d>> \in Children(im)
        BY <1>6, <3>1, Zenon DEF ParentIs
      <4>2. PICK c \in Children(im) : c[1] = a.dotdot[d] /\ c[2] = d
        BY <4>1
      <4> QED BY <2>1, <3>1, <4>2
    <3>2. \A d \in Dirs(im) : d # ROOTINO /\ a.dotdot[d] \in S => d \in S
      BY <3>1, Zenon
    <3> QED BY <1>9, <2>1, <3>2
  <2> QED BY <2>1, Zenon DEF ReachOK
<1>11. RootOK(im) \/ Used(im) = {}
  <2>1. SUFFICES ASSUME NEW u \in Used(im), ROOTINO \notin Dirs(im) PROVE FALSE
    BY DEF RootOK
  <2>2. Dirs(im) # {}
    <3>1. Cardinality(Naming(im, u)) > 0
      BY <1>3 DEF UsedAreNamed, Refs
    <3>2. Naming(im, u) # {}
      <4>1. SUFFICES ASSUME Naming(im, u) = {} PROVE FALSE
        OBVIOUS
      <4>2. Cardinality(Naming(im, u)) = 0
        BY <4>1, FS_EmptySet, Zenon
      <4> QED BY <3>1, <4>2
    <3>3. PICK e : e \in Naming(im, u)
      BY <3>2
    <3> QED BY <3>3 DEF Naming, EntrySet, DirSlots
  <2>3. ASSUME NEW d \in Dirs(im), d # ROOTINO, a.dotdot[d] \in {ROOTINO} PROVE d \in {ROOTINO}
    <3>1. a.dotdot[d] \in Dirs(im)
      BY <1>6, <2>3, Zenon DEF ParentIs
    <3> QED BY <2>1, <2>3, <3>1
  <2>4. PICK S : S = {ROOTINO}
    BY Zenon
  <2>5. Dirs(im) \subseteq S
    BY <1>9, <2>3, <2>4
  <2> QED BY <2>1, <2>2, <2>4, <2>5
<1> QED BY <1>3, <1>5, <1>7, <1>10, <1>11

-----------------------------------------------------------------------------
\* On every image, for every size of the file system: myfsck accepts a consistent
\* image; what it accepts is consistent, or has no used inode, or has an entry for
\* inode number ninodes; and the message it stops at says what is wrong.
THEOREM VerdictIsRight ==
  ASSUME NEW im, IsImage(im)
  PROVE  /\ myfsck(im) \in Verdicts
         /\ Consistent(im) => myfsck(im) = "ok"
         /\ myfsck(im) = "ok" => Consistent(im) \/ BlindSpot(im)
         /\ TrueMessage(im, myfsck(im))
<1>1. ASSUME NEW v \in Verdicts, v # "ok", TrueMessage(im, v) PROVE ~Consistent(im)
  BY <1>1 DEF TrueMessage, Verdicts, Consistent
<1>2. CASE ~LayoutOK(im)
  <2>1. myfsck(im) = "superblock"
    BY <1>2 DEF myfsck, LayoutOK
  <2>2. TrueMessage(im, "superblock") /\ "superblock" \in Verdicts
    BY <1>2 DEF TrueMessage, Verdicts
  <2> QED BY <1>1, <2>1, <2>2
<1>3. CASE LayoutOK(im)
  <2>1. PICK x, y, z : /\ x = first_pass(im) /\ y = check_bitmap(im, x)
                       /\ z = second_pass(im, y)
    BY Zenon
  <2>2. myfsck(im) = z.err
    BY <1>3, <2>1, Zenon DEF myfsck, LayoutOK
  <2>3. x \in Passed(im, im.sb.ninodes)
    BY <1>3, <2>1, FirstPass
  <2>4. /\ y \in Acc /\ IF y.err = "ok" THEN Gathered(im, y) ELSE TrueMessage(im, y.err)
        /\ y.err = "ok" => MarkedAreUsed(im)
    <3>1. CASE x.err # "ok"
      <4>1. y = x
        BY <2>1, <3>1, Zenon DEF check_bitmap
      <4> QED BY <2>3, <3>1, <4>1 DEF Passed
    <3>2. CASE x.err = "ok"
      <4>1. Gathered(im, x) /\ x \in Acc
        BY <2>3, <3>2, AllGathered DEF Passed
      <4>2. CASE MarkedAreUsed(im) /\ check_bitmap(im, x) = x
        BY <2>1, <3>2, <4>1, <4>2
      <4>3. CASE ~MarkedAreUsed(im) /\ check_bitmap(im, x) = Fail(x, "bitmap_marked_used")
        <5>1. "bitmap_marked_used" \in Verdicts /\ TrueMessage(im, "bitmap_marked_used")
          BY <4>3 DEF Verdicts, TrueMessage
        <5>2. y = Fail(x, "bitmap_marked_used")
          BY <2>1, <4>3
        <5>3. y \in Acc /\ y.err = "bitmap_marked_used"
          BY <4>1, <5>1, <5>2, FailAcc
        <5> QED BY <5>1, <5>3
      <4> QED BY <1>3, <4>1, <4>2, <4>3, Bitmap
    <3> QED BY <3>1, <3>2
  <2>5. z \in Tracked(im, y, im.sb.ninodes - 1)
    BY <2>1, <2>4, SecondPass
  <2>6. z.err \in Verdicts
    BY <2>5, Fields DEF Tracked
  <2>7. CASE z.err # "ok"
    <3>1. TrueMessage(im, z.err)
      BY <2>5, <2>7 DEF Tracked
    <3> QED BY <1>1, <2>2, <2>6, <2>7, <3>1
  <2>8. CASE z.err = "ok"
    <3>1. z = y /\ Gathered(im, y) /\ \A i \in Inodes(im) : NodeOK(im, y, i)
      BY <2>5, <2>8 DEF Tracked, Inodes
    <3>2. y.err = "ok"
      BY <2>8, <3>1
    <3>3. /\ TypesOK(im) /\ DirectOK(im) /\ IndirectOK(im) /\ OnceOK(im) /\ UsedAreMarked(im)
          /\ FormatOK(im) /\ SizeOK(im) /\ MarkedAreUsed(im)
      BY <2>4, <3>1, <3>2, FirstHalf
    <3>4. /\ UsedAreNamed(im) /\ NamedAreUsed(im) /\ LinksOK(im) /\ DirOnceOK(im)
          /\ ParentsOK(im) /\ ReachOK(im) /\ (RootOK(im) \/ Used(im) = {})
      BY <3>1, SecondHalf
    <3>5. Consistent(im) \/ BlindSpot(im)
      BY <1>3, <3>3, <3>4 DEF Consistent, BlindSpot
    <3>6. TrueMessage(im, "ok")
      BY DEF TrueMessage
    <3> QED BY <2>2, <2>6, <2>8, <3>5, <3>6
  <2> QED BY <2>7, <2>8
<1> QED BY <1>2, <1>3

-----------------------------------------------------------------------------
\* What stat() says of the host's files.
Hosts == host \in [HostFiles -> [size : HostSizes, nlink : 0 .. MaxLinks]]

\* The map agrees with the numbers given out.
Agree == LinksAgree(HostFiles, Nlink, links, given, dropped, freeinode)

\* Link counts are natural numbers.
LEMMA NlinkType ==
  ASSUME Hosts
  PROVE  Nlink \in [HostFiles -> Nat] /\ \A h \in HostFiles : Nlink[h] = host[h].nlink
BY HostAssumption DEF Hosts, Nlink

-----------------------------------------------------------------------------
(* Every step of mkfs, and of the tools that run after it                  *)

\* The map is empty before the tree is read.
LEMMA LinkInit == Init => LinkInv
<1> SUFFICES ASSUME Init PROVE LinkInv
  OBVIOUS
<1>1. freeinode = 2
  BY DEF Init, MkfsInit, ROOTINO
<1>2. pc = "start" /\ links = <<>> /\ given = [h \in HostFiles |-> <<>>] /\ Hosts
  BY DEF Init, MkfsInit, Hosts
<1>3. \A h \in HostFiles : given[h] = <<>> /\ Range(given[h]) = {} /\ Len(given[h]) = 0
  <2>1. Range(<<>>) = {} /\ Len(<<>>) = 0
    BY DEF Range
  <2> QED BY <1>2, <2>1
<1>4. LinkTypes(HostFiles, links, given, freeinode)
  <2>1. <<>> \in Seq(0 .. 2 - 1) /\ <<>> \in Seq(LinkNode(HostFiles)) /\ 2 \in Nat
    OBVIOUS
  <2>2. given \in [HostFiles -> Seq(0 .. 2 - 1)]
    BY <1>2, <2>1
  <2> QED BY <1>1, <1>2, <2>1, <2>2 DEF LinkTypes
<1>5. DOMAIN links = {}
  BY <1>2
<1>6. NodesNamed(links, given) /\ FilesApart(HostFiles, given)
  BY <1>3, <1>5 DEF NodesNamed, FilesApart
<1>7. \A h \in HostFiles : Counted(Nlink, links, given, h)
  BY <1>3, <1>5 DEF Counted
<1>8. Agree
  BY <1>4, <1>6, <1>7 DEF LinksAgree, Agree
<1> QED BY <1>2, <1>8 DEF LinkInv, Hosts, Agree

\* At exit the memory of the process, the map included, is gone.
LEMMA LinkExit ==
  ASSUME NEW s, NEW how \in {"built", "aborted"}, Exit(s, how)
  PROVE  LinkInv'
BY DEF Exit, LinkInv

\* After an iteration of the readdir loop it suffices that the map agrees with
\* the numbers given out.
LEMMA LinkBuild ==
  ASSUME pc' = "build", Hosts, host' = host,
         LinksAgree(HostFiles, Nlink, links', given', dropped', freeinode')
  PROVE  LinkInv'
<1>1. Nlink' = Nlink
  BY DEF Nlink
<1>2. LinksAgree(HostFiles, Nlink, links, given, dropped, freeinode)'
  BY <1>1
<1> QED BY <1>2 DEF LinkInv, Hosts

\* A directory takes an inode and gives none to a host file.
LEMMA LinkTree ==
  ASSUME LinkInv, MkfsTree \/ ReaddirDir
  PROVE  LinkInv'
<1>1. Hosts /\ Agree /\ freeinode \in Nat
  BY DEF LinkInv, Hosts, Agree, MkfsTree, ReaddirDir, LinksAgree, LinkTypes
<1>2. pc' = "build" /\ host' = host /\ links' = links /\ given' = given /\ dropped' = dropped
  BY DEF MkfsTree, ReaddirDir
<1>3. freeinode' = freeinode \/ freeinode' = freeinode + 1
  BY DEF MkfsTree, ReaddirDir
<1>4. freeinode' \in Nat /\ freeinode' >= freeinode
  BY <1>1, <1>3
<1>5. LinksAgree(HostFiles, Nlink, links', given', dropped', freeinode')
  <2>1. LinksAgree(HostFiles, Nlink, links, given, dropped, freeinode')
    BY <1>1, <1>4, SharedLater DEF Agree
  <2> QED BY <1>2, <2>1
<1> QED BY <1>1, <1>2, <1>5, LinkBuild

\* A name of a host file, found in the map or not.
LEMMA LinkFile ==
  ASSUME LinkInv, NEW h \in HostFiles, ReaddirFile(h)
  PROVE  LinkInv'
<1>1. Hosts /\ Agree /\ freeinode \in Nat
  BY DEF LinkInv, Hosts, Agree, ReaddirFile, LinksAgree, LinkTypes
<1>2. pc' = "build" /\ host' = host /\ Nlink \in [HostFiles -> Nat]
      /\ Len(given[h]) < (IF Nlink[h] = 0 THEN 1 ELSE Nlink[h]) /\ Nlink[h] = host[h].nlink
  BY <1>1, NlinkType DEF ReaddirFile
<1>3. ASSUME NEW k \in DOMAIN links, links[k].host = h, links' = use_link(links, k),
             dropped' = dropped \cup lost_links(links, k),
             given' = give_name(given, h, links[k].ino), freeinode' = freeinode
      PROVE  LinkInv'
  <2>1. LinksAgree(HostFiles, Nlink, links', given', dropped', freeinode)
    BY <1>1, <1>2, <1>3, KnownShared, Zenon DEF Agree
  <2> QED BY <1>1, <1>2, <1>3, <2>1, LinkBuild
<1>4. ASSUME {k \in DOMAIN links : links[k].host = h} = {},
             links' = new_link(links, h, freeinode, host[h].nlink), dropped' = dropped,
             given' = give_name(given, h, freeinode), freeinode' = freeinode + 1
      PROVE  LinkInv'
  <2>1. links' = new_link(links, h, freeinode, Nlink[h])
    BY <1>2, <1>4
  <2>2. LinksAgree(HostFiles, Nlink, links', given', dropped, freeinode + 1)
    BY <1>1, <1>2, <1>4, <2>1, NewShared DEF Agree
  <2> QED BY <1>1, <1>2, <1>4, <2>2, LinkBuild
<1> QED BY <1>3, <1>4, Zenon DEF ReaddirFile

\* The end of a directory appends its entry to the parent, or ends mkfs.
LEMMA LinkEnd ==
  ASSUME LinkInv, ReaddirEnd
  PROVE  LinkInv'
<1>1. Hosts /\ Agree
  BY DEF LinkInv, Hosts, Agree, ReaddirEnd
<1>2. CASE Len(dirs) = 1
  BY <1>2, LinkExit DEF ReaddirEnd
<1>3. CASE Len(dirs) # 1
  <2>1. /\ links' = links /\ host' = host /\ given' = given /\ dropped' = dropped
        /\ pc' = "build" /\ freeinode' = freeinode
    BY <1>3 DEF ReaddirEnd
  <2>2. LinksAgree(HostFiles, Nlink, links', given', dropped', freeinode')
    BY <1>1, <2>1 DEF Agree
  <2> QED BY <1>1, <2>1, <2>2, LinkBuild
<1> QED BY <1>2, <1>3

\* After mkfs has exited no name is given an inode any more.
LEMMA LinkAfter ==
  ASSUME LinkInv, pc \notin {"start", "build"}, pc' \notin {"start", "build"}, given' = given
  PROVE  LinkInv'
BY DEF LinkInv

\* Every step keeps the map in agreement with the numbers given out.
LEMMA LinkStep == LinkInv /\ [Next]_vars => LinkInv'
<1> SUFFICES ASSUME LinkInv, [Next]_vars PROVE LinkInv'
  OBVIOUS
<1>1. CASE MkfsNext
  <2>1. CASE MkfsNoTree
    BY <2>1, LinkExit DEF MkfsNoTree
  <2>2. CASE MkfsUnreadable
    BY <2>2, LinkExit DEF MkfsUnreadable
  <2>3. CASE ReaddirFails
    BY <2>3, LinkExit DEF ReaddirFails
  <2>4. CASE MkfsTree \/ ReaddirDir
    BY <2>4, LinkTree
  <2>5. CASE \E h \in HostFiles : ReaddirFile(h)
    BY <2>5, LinkFile
  <2>6. CASE ReaddirEnd
    BY <2>6, LinkEnd
  <2> QED BY <1>1, <2>1, <2>2, <2>3, <2>4, <2>5, <2>6 DEF MkfsNext
<1>2. CASE \E d, e \in Dirs(fs) : MoveDir(d, e)
  BY <1>2, LinkAfter DEF MoveDir, notImage
<1>3. CASE Corrupt
  BY <1>3, LinkAfter DEF Corrupt, notImage
<1>4. CASE RunFsck
  BY <1>4, LinkAfter DEF RunFsck, mkfsVars
<1>5. CASE LsStart
  BY <1>5, LinkAfter DEF LsStart, mkfsVars
<1>6. CASE LsEntry
  BY <1>6, LinkAfter DEF LsEntry, mkfsVars
<1>7. CASE LsReturn
  BY <1>7, LinkAfter DEF LsReturn, mkfsVars
<1>8. CASE UNCHANGED vars
  <2>1. /\ freeinode' = freeinode /\ links' = links /\ host' = host
        /\ given' = given /\ dropped' = dropped /\ pc' = pc
    BY <1>8 DEF vars, mkfsVars
  <2>2. Nlink' = Nlink
    BY <2>1 DEF Nlink
  <2> QED BY <2>1, <2>2 DEF LinkInv
<1> QED BY <1>1, <1>2, <1>3, <1>4, <1>5, <1>6, <1>7, <1>8 DEF Next

\* The hard link map of mkfs.c is in agreement with the inodes the names were
\* given, for any host tree, any number of names and any image: fetchHardLink()
\* finds a file exactly as long as names of it are to come, unless the list was
\* dropped with its first node.
THEOREM HardLinkMap == Spec => []LinkInv
<1> QED BY LinkInit, LinkStep, PTL DEF Spec

\* At most one number was given to a file that was not dropped.
LEMMA SharedByInv == LinkInv => HardLinksShared
<1> SUFFICES ASSUME LinkInv PROVE HardLinksShared
  OBVIOUS
<1>1. ASSUME NEW h \in HostFiles \ dropped
      PROVE  \A x, y \in Range(given[h]) : x = y
  <2>1. CASE pc \in {"start", "build"}
    BY <2>1, Zenon DEF LinkInv, LinksAgree, Counted
  <2>2. CASE pc \notin {"start", "build"}
    <3>1. given[h] = <<>>
      BY <2>2 DEF LinkInv
    <3> QED BY <3>1 DEF Range
  <2> QED BY <2>1, <2>2
<1>2. ASSUME NEW S, \A x, y \in S : x = y
      PROVE  Cardinality(S) <= 1
  <2>1. CASE S = {}
    BY <2>1, FS_EmptySet
  <2>2. CASE S # {}
    <3>1. PICK x : x \in S
      BY <2>2
    <3>2. S = {x}
      BY <1>2, <3>1
    <3> QED BY <3>2, FS_Singleton
  <2> QED BY <2>1, <2>2
<1>3. \A g, h \in HostFiles : g # h => Range(given[g]) \cap Range(given[h]) = {}
  <2>1. CASE pc \in {"start", "build"}
    BY <2>1 DEF LinkInv, LinksAgree, FilesApart
  <2>2. CASE pc \notin {"start", "build"}
    <3>1. \A g \in HostFiles : given[g] = <<>>
      BY <2>2 DEF LinkInv
    <3> QED BY <3>1 DEF Range
  <2> QED BY <2>1, <2>2
<1> QED BY <1>1, <1>2, <1>3 DEF HardLinksShared

\* All names of a host file share one inode and different files never do, for any
\* host tree; the files whose map node was dropped (mkfs.c:64) are the exception.
THEOREM HardLinksAreShared == Spec => []HardLinksShared
<1> QED BY HardLinkMap, SharedByInv, PTL

-----------------------------------------------------------------------------
(* The verdict in the specification of the tools                           *)

\* What myfsck exits with is its verdict on the image that is still there.
Judged == pc = "checked" => verdict = myfsck(fs)

\* Only myfsck announces a verdict, and nothing writes the image after it.
LEMMA JudgedStep == Judged /\ [Next]_vars => Judged'
<1> SUFFICES ASSUME Judged, [Next]_vars PROVE Judged'
  OBVIOUS
<1>1. CASE MkfsNext
  <2>1. pc' \in {"build", "built", "aborted"}
    BY <1>1 DEF MkfsNext, MkfsNoTree, MkfsUnreadable, ReaddirFails, MkfsTree, ReaddirDir,
                ReaddirFile, ReaddirEnd, Exit
  <2> QED BY <2>1 DEF Judged
<1>2. CASE \E d, e \in Dirs(fs) : MoveDir(d, e)
  BY <1>2 DEF MoveDir, Judged
<1>3. CASE Corrupt
  BY <1>3 DEF Corrupt, Judged
<1>4. CASE RunFsck
  BY <1>4 DEF RunFsck, mkfsVars, Judged
<1>5. CASE LsStart
  BY <1>5 DEF LsStart, Judged
<1>6. CASE LsEntry \/ LsReturn
  BY <1>6 DEF LsEntry, LsReturn, Judged
<1>7. CASE UNCHANGED vars
  BY <1>7 DEF vars, mkfsVars, Judged
<1> QED BY <1>1, <1>2, <1>3, <1>4, <1>5, <1>6, <1>7 DEF Next

\* Whatever mkfs, moves and faults make of an image, myfsck accepts it exactly
\* when it is consistent, two blind spots aside, and its message is true of it.
\* That the tools leave a SIZE-block image is IsImage.
THEOREM CheckerIsRight ==
  Spec /\ []IsImage(fs) => []AcceptsExactlyConsistent /\ []MessageIsTrue
<1>1. Init => Judged
  BY DEF Init, MkfsInit, Judged
<1>2. Judged /\ IsImage(fs) => AcceptsExactlyConsistent /\ MessageIsTrue
  BY VerdictIsRight, Zenon DEF Judged, AcceptsExactlyConsistent, MessageIsTrue
<1> QED BY <1>1, <1>2, JudgedStep, PTL DEF Spec
=============================================================================
