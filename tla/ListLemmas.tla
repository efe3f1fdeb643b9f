----------------------------- MODULE ListLemmas -----------------------------
(***************************************************************************)
(* Kernel lists as sequences of distinct entries: what list_add_tail() and *)
(* list_del() do to the entries.  Used by the proofs about every module    *)
(* that keeps a struct list_head.  The last part is about the list of      *)
(* mkfs.c's hard link map.                                                 *)
(***************************************************************************)
EXTENDS LinkMap, SequenceTheorems, TLAPS

\* list_add_tail(): the new entry joins, and entries stay distinct.
LEMMA AppendEntries ==
  ASSUME NEW S, NEW s \in Seq(S), NEW e \in S, IsInjective(s), e \notin Range(s)
  PROVE  /\ Append(s, e) \in Seq(S)
         /\ Range(Append(s, e)) = Range(s) \cup {e}
         /\ IsInjective(Append(s, e))
<1> DEFINE r == Append(s, e)
<1>1. /\ r \in Seq(S) /\ Len(s) \in Nat /\ Len(r) = Len(s) + 1 /\ r[Len(s) + 1] = e
      /\ \A i \in 1 .. Len(s) : r[i] = s[i]
  BY AppendProperties
<1>2. DOMAIN s = 1 .. Len(s) /\ DOMAIN r = 1 .. Len(s) + 1
  BY <1>1
<1>3. \A i \in 1 .. Len(s) : s[i] # e
  BY DEF Range
<1> HIDE DEF r
<1>4. Range(r) = Range(s) \cup {e}
  BY <1>1, <1>2 DEF Range
<1>5. IsInjective(r)
  BY <1>1, <1>2, <1>3 DEF IsInjective
<1> QED BY <1>1, <1>4, <1>5 DEF r

\* list_del() closes the gap.
LEMMA DelAtIndex ==
  ASSUME NEW S, NEW s \in Seq(S), NEW k \in DOMAIN s
  PROVE  /\ DelAt(s, k) \in Seq(S) /\ Len(DelAt(s, k)) = Len(s) - 1
         /\ \A i \in 1 .. Len(s) - 1 : DelAt(s, k)[i] = IF i < k THEN s[i] ELSE s[i + 1]
<1> DEFINE a == SubSeq(s, 1, k - 1)
           b == SubSeq(s, k + 1, Len(s))
           r == DelAt(s, k)
<1>0. k \in 1 .. Len(s) /\ Len(s) \in Nat /\ (\A i \in 1 .. Len(s) : s[i] \in S)
  OBVIOUS
<1>1. a \in Seq(S) /\ Len(a) = k - 1 /\ \A i \in 1 .. k - 1 : a[i] = s[i]
  <2>1. \A i \in 1 .. k - 1 : s[i] \in S
    BY <1>0
  <2> QED BY <1>0, <2>1, SubSeqProperties
<1>2. /\ b \in Seq(S) /\ Len(b) = Len(s) - k
      /\ \A i \in 1 .. Len(s) - k : b[i] = s[k + i]
  <2>1. \A i \in k + 1 .. Len(s) : s[i] \in S
    BY <1>0
  <2>2. b \in Seq(S) /\ Len(b) = (IF k + 1 <= Len(s) THEN Len(s) - (k + 1) + 1 ELSE 0)
        /\ \A i \in 1 .. Len(s) - (k + 1) + 1 : b[i] = s[k + 1 + i - 1]
    BY <1>0, <2>1, SubSeqProperties
  <2> HIDE DEF b
  <2> QED BY <1>0, <2>2
<1>3. r = a \o b
  BY DEF DelAt
<1> HIDE DEF a, b, r
<1>4. /\ r \in Seq(S) /\ Len(r) = Len(s) - 1
      /\ \A i \in 1 .. Len(s) - 1 : r[i] = IF i < k THEN s[i] ELSE s[i + 1]
  <2>1. /\ r \in Seq(S) /\ Len(r) = Len(a) + Len(b)
        /\ \A i \in 1 .. Len(a) + Len(b) :
             r[i] = IF i <= Len(a) THEN a[i] ELSE b[i - Len(a)]
    BY <1>1, <1>2, <1>3, ConcatProperties
  <2>2. Len(a) + Len(b) = Len(s) - 1
    BY <1>0, <1>1, <1>2
  <2>3. ASSUME NEW i \in 1 .. Len(s) - 1
        PROVE  r[i] = IF i < k THEN s[i] ELSE s[i + 1]
    <3>1. r[i] = IF i <= k - 1 THEN a[i] ELSE b[i - (k - 1)]
      BY <1>1, <2>1, <2>2
    <3>2. CASE i < k
      BY <1>0, <1>1, <3>1, <3>2
    <3>3. CASE i >= k
      <4>1. i - (k - 1) \in 1 .. Len(s) - k /\ k + (i - (k - 1)) = i + 1
        BY <1>0, <3>3
      <4>2. b[i - (k - 1)] = s[k + (i - (k - 1))]
        BY <1>2, <4>1
      <4> QED BY <1>0, <3>1, <3>3, <4>1, <4>2
    <3> QED BY <1>0, <3>2, <3>3
  <2> QED BY <2>1, <2>2, <2>3
<1> QED BY <1>4 DEF r

\* list_del() on any entry: that entry leaves, the others stay distinct.
LEMMA DelAtEntries ==
  ASSUME NEW S, NEW s \in Seq(S), NEW k \in DOMAIN s, IsInjective(s)
  PROVE  /\ DelAt(s, k) \in Seq(S)
         /\ s[k] \in Range(s)
         /\ Range(DelAt(s, k)) = Range(s) \ {s[k]}
         /\ IsInjective(DelAt(s, k))
<1> DEFINE r == DelAt(s, k)
<1>0. k \in 1 .. Len(s) /\ Len(s) \in Nat /\ (\A i \in 1 .. Len(s) : s[i] \in S)
  OBVIOUS
<1>4. /\ r \in Seq(S) /\ Len(r) = Len(s) - 1
      /\ \A i \in 1 .. Len(s) - 1 : r[i] = IF i < k THEN s[i] ELSE s[i + 1]
  BY DelAtIndex
<1> HIDE DEF r
<1>5. DOMAIN r = 1 .. Len(s) - 1 /\ DOMAIN s = 1 .. Len(s)
  BY <1>4
<1> DEFINE pos(i) == IF i < k THEN i ELSE i + 1
<1>p. ASSUME NEW i \in 1 .. Len(s) - 1
      PROVE  pos(i) \in 1 .. Len(s) /\ pos(i) # k /\ r[i] = s[pos(i)]
  BY <1>0, <1>4
<1>i. \A i, j \in 1 .. Len(s) : s[i] = s[j] => i = j
  BY <1>5 DEF IsInjective
<1>6. IsInjective(r)
  <2>1. ASSUME NEW i \in 1 .. Len(s) - 1, NEW j \in 1 .. Len(s) - 1, r[i] = r[j]
        PROVE  i = j
    <3>1. pos(i) = pos(j)
      <4> HIDE DEF pos
      <4> QED BY <1>p, <1>i, <2>1
    <3> QED BY <1>0, <3>1
  <2> QED BY <1>5, <2>1 DEF IsInjective
<1>7. Range(r) \subseteq Range(s) \ {s[k]}
  <2>1. ASSUME NEW i \in 1 .. Len(s) - 1
        PROVE  r[i] \in {s[j] : j \in 1 .. Len(s)} /\ r[i] # s[k]
    <3> HIDE DEF pos
    <3> QED BY <1>0, <1>p, <1>i
  <2> QED BY <1>5, <2>1 DEF Range
<1>8. ASSUME NEW e \in Range(s), e # s[k] PROVE e \in Range(r)
  <2>1. PICK i \in 1 .. Len(s) : e = s[i]
    BY <1>5, <1>8 DEF Range
  <2>2. CASE i < k
    BY <1>0, <1>4, <1>5, <2>1, <2>2 DEF Range
  <2>3. CASE i > k
    <3>1. i - 1 \in 1 .. Len(s) - 1 /\ r[i - 1] = e
      BY <1>0, <1>4, <2>1, <2>3
    <3> QED BY <1>5, <3>1 DEF Range
  <2> QED BY <1>0, <1>8, <2>1, <2>2, <2>3
<1>9. s[k] \in Range(s)
  BY DEF Range
<1> QED BY <1>4, <1>6, <1>7, <1>8, <1>9 DEF r

\* list_del() on the first entry, as the cleanup loops do it.
LEMMA TailEntries ==
  ASSUME NEW S, NEW s \in Seq(S), s # << >>, IsInjective(s)
  PROVE  /\ Tail(s) \in Seq(S)
         /\ Head(s) \in S /\ Head(s) \in Range(s)
         /\ Range(Tail(s)) = Range(s) \ {Head(s)}
         /\ IsInjective(Tail(s))
<1> DEFINE r == Tail(s)
<1>1. /\ Len(s) \in Nat \ {0} /\ Len(r) = Len(s) - 1 /\ r \in Seq(S)
      /\ DOMAIN s = 1 .. Len(s) /\ DOMAIN r = 1 .. Len(s) - 1
      /\ Head(s) = s[1] /\ Head(s) \in S
      /\ \A i \in 1 .. Len(s) - 1 : r[i] = s[i + 1]
  OBVIOUS
<1> HIDE DEF r
<1>2. Range(r) \subseteq Range(s) \ {Head(s)}
  BY <1>1 DEF Range, IsInjective
<1>3. ASSUME NEW e \in Range(s), e # Head(s) PROVE e \in Range(r)
  <2>1. PICK i \in 1 .. Len(s) : e = s[i]
    BY <1>1 DEF Range
  <2>2. i - 1 \in 1 .. Len(s) - 1 /\ r[i - 1] = e
    BY <1>1, <1>3, <2>1
  <2> QED BY <1>1, <2>2 DEF Range
<1>4. IsInjective(r)
  <2> SUFFICES ASSUME NEW i \in 1 .. Len(s) - 1, NEW j \in 1 .. Len(s) - 1,
                      r[i] = r[j]
               PROVE  i = j
    BY <1>1 DEF IsInjective
  <2>1. i + 1 \in DOMAIN s /\ j + 1 \in DOMAIN s /\ s[i + 1] = s[j + 1]
    BY <1>1
  <2> QED BY <2>1 DEF IsInjective
<1>5. Head(s) \in Range(s)
  BY <1>1 DEF Range
<1> QED BY <1>1, <1>2, <1>3, <1>4, <1>5 DEF r

\* What remains of a scan over a list was in the scan before.
LEMMA TailSubset ==
  ASSUME NEW S, NEW s \in Seq(S), s # << >>
  PROVE  /\ Tail(s) \in Seq(S) /\ Head(s) \in S
         /\ Head(s) \in Range(s) /\ Range(Tail(s)) \subseteq Range(s)
BY DEF Range

\* A scan that has looked at the first entry has the others left.
LEMMA HeadTailSet ==
  ASSUME NEW S, NEW s \in Seq(S), s # << >>
  PROVE  Range(s) \subseteq Range(Tail(s)) \cup {Head(s)}
<1> SUFFICES ASSUME NEW i \in 1 .. Len(s), i # 1 PROVE s[i] \in Range(Tail(s))
  BY DEF Range
<1>1. i - 1 \in DOMAIN Tail(s) /\ Tail(s)[i - 1] = s[i]
  OBVIOUS
<1> QED BY <1>1 DEF Range

\* list_del() on an entry found by its value.
LEMMA DelEntries ==
  ASSUME NEW S, NEW s \in Seq(S), NEW e \in Range(s), IsInjective(s)
  PROVE  /\ Del(s, e) \in Seq(S)
         /\ Range(Del(s, e)) = Range(s) \ {e}
         /\ IsInjective(Del(s, e))
<1>1. PICK k \in 1 .. Len(s) : s[k] = e
  BY DEF Range
<1>2. {i \in 1 .. Len(s) : s[i] = e} = {k}
  BY <1>1 DEF IsInjective
<1>3. (CHOOSE i \in DOMAIN s : s[i] = e) = k
  BY <1>1, <1>2
<1>5. Del(s, e) = DelAt(s, k)
  BY <1>3 DEF Del
<1> QED BY <1>1, <1>5, DelAtEntries

\* Two reads, one after the other, give what one longer read gives.
LEMMA SubSeqJoin ==
  ASSUME NEW S, NEW s \in Seq(S), NEW i \in 0 .. Len(s), NEW j \in i .. Len(s)
  PROVE  /\ SubSeq(s, 1, i) \in Seq(S) /\ SubSeq(s, i + 1, j) \in Seq(S)
         /\ SubSeq(s, 1, i) \o SubSeq(s, i + 1, j) = SubSeq(s, 1, j)
<1> DEFINE a == SubSeq(s, 1, i)
           b == SubSeq(s, i + 1, j)
           c == SubSeq(s, 1, j)
<1>1. Len(s) \in Nat /\ i \in Nat /\ j \in Nat /\ i <= j /\ j <= Len(s)
      /\ \A k \in 1 .. Len(s) : s[k] \in S
  OBVIOUS
<1>2. a \in Seq(S) /\ Len(a) = i /\ \A k \in 1 .. i : a[k] = s[k]
  BY <1>1
<1>3. b \in Seq(S) /\ Len(b) = j - i /\ \A k \in 1 .. j - i : b[k] = s[i + k]
  BY <1>1
<1>4. c \in Seq(S) /\ Len(c) = j /\ \A k \in 1 .. j : c[k] = s[k]
  BY <1>1
<1> HIDE DEF a, b, c
<1> DEFINE r == a \o b
<1>5. /\ r \in Seq(S) /\ Len(r) = Len(a) + Len(b)
      /\ \A k \in 1 .. Len(a) + Len(b) : r[k] = IF k <= Len(a) THEN a[k] ELSE b[k - Len(a)]
  BY <1>2, <1>3, ConcatProperties
<1> HIDE DEF r
<1>6. ASSUME NEW k \in 1 .. j PROVE r[k] = c[k]
  <2>1. r[k] = IF k <= i THEN a[k] ELSE b[k - i]
    BY <1>1, <1>2, <1>3, <1>5
  <2>2. CASE k <= i
    BY <1>1, <1>2, <1>4, <2>1, <2>2
  <2>3. CASE k > i
    <3>1. k - i \in 1 .. j - i /\ i + (k - i) = k
      BY <1>1, <2>3
    <3> QED BY <1>1, <1>3, <1>4, <2>1, <2>3, <3>1
  <2> QED BY <1>1, <2>2, <2>3
<1>7. a \o b = c
  <2>1. Len(r) = Len(c) /\ Len(c) = j
    BY <1>1, <1>2, <1>3, <1>4, <1>5
  <2>2. r = c
    BY <1>4, <1>5, <1>6, <2>1, SeqEqual
  <2> QED BY <2>2 DEF r
<1> QED BY <1>2, <1>3, <1>7 DEF a, b, c

\* list_del() on the first entry.
LEMMA TailIsDelAt ==
  ASSUME NEW S, NEW s \in Seq(S), s # << >>
  PROVE  1 \in DOMAIN s /\ Tail(s) = DelAt(s, 1)
<1> DEFINE r == Tail(s)
           q == DelAt(s, 1)
<1>1. /\ Len(s) \in Nat \ {0} /\ 1 \in DOMAIN s /\ r \in Seq(S) /\ Len(r) = Len(s) - 1
      /\ \A i \in 1 .. Len(s) - 1 : r[i] = s[i + 1]
  OBVIOUS
<1>2. /\ q \in Seq(S) /\ Len(q) = Len(s) - 1
      /\ \A i \in 1 .. Len(s) - 1 : q[i] = IF i < 1 THEN s[i] ELSE s[i + 1]
  BY <1>1, DelAtIndex
<1> HIDE DEF r, q
<1>3. r = q
  BY <1>1, <1>2, SeqEqual
<1> QED BY <1>1, <1>3 DEF r, q

-----------------------------------------------------------------------------
(* A list read through the contents of its entries.                        *)

MapSeq(s, f) == [i \in DOMAIN s |-> f[s[i]]]

\* Contents that agree on the entries give the same reading.
LEMMA MapSeqSame ==
  ASSUME NEW S, NEW s \in Seq(S), NEW f, NEW g, \A e \in Range(s) : g[e] = f[e]
  PROVE  MapSeq(s, g) = MapSeq(s, f)
BY DEF MapSeq, Range

\* list_add_tail() of an entry.
LEMMA MapSeqAppend ==
  ASSUME NEW S, NEW s \in Seq(S), NEW f, NEW b \in S
  PROVE  MapSeq(Append(s, b), f) = Append(MapSeq(s, f), f[b])
<1> DEFINE T == {f[e] : e \in S}
           q == Append(s, b)
           l == MapSeq(q, f)
           m == MapSeq(s, f)
           r == Append(m, f[b])
<1>0. /\ Len(s) \in Nat /\ DOMAIN s = 1 .. Len(s) /\ f[b] \in T
      /\ \A i \in 1 .. Len(s) : s[i] \in S
      /\ \A e \in S : f[e] \in T
  OBVIOUS
<1> HIDE DEF T
<1>1. m \in Seq(T) /\ Len(m) = Len(s) /\ \A i \in 1 .. Len(s) : m[i] = f[s[i]]
  <2>1. m = [i \in 1 .. Len(s) |-> f[s[i]]]
    BY <1>0 DEF MapSeq
  <2> HIDE DEF m
  <2> QED BY <1>0, <2>1
<1>2. /\ q \in Seq(S) /\ Len(q) = Len(s) + 1
      /\ \A i \in 1 .. Len(s) : q[i] = s[i]
      /\ q[Len(s) + 1] = b
  BY AppendProperties
<1> HIDE DEF q, m
<1>3. l \in Seq(T) /\ Len(l) = Len(q) /\ \A i \in 1 .. Len(q) : l[i] = f[q[i]]
  <2>1. /\ Len(q) \in Nat /\ DOMAIN q = 1 .. Len(q)
        /\ \A i \in 1 .. Len(q) : q[i] \in S
    BY <1>2
  <2>2. l = [i \in 1 .. Len(q) |-> f[q[i]]]
    BY <2>1 DEF MapSeq
  <2> HIDE DEF l
  <2> QED BY <1>0, <2>1, <2>2
<1> HIDE DEF l
<1>5. /\ r \in Seq(T) /\ Len(r) = Len(s) + 1
      /\ \A i \in 1 .. Len(s) : r[i] = m[i]
      /\ r[Len(s) + 1] = f[b]
  BY <1>0, <1>1, AppendProperties
<1> HIDE DEF r
<1>6. ASSUME NEW i \in 1 .. Len(s) + 1 PROVE l[i] = r[i]
  <2>1. CASE i = Len(s) + 1
    BY <1>0, <1>2, <1>3, <1>5, <2>1
  <2>2. CASE i \in 1 .. Len(s)
    <3>1. q[i] = s[i] /\ m[i] = f[s[i]] /\ r[i] = m[i]
      BY <1>1, <1>2, <1>5, <2>2
    <3>2. l[i] = f[q[i]]
      BY <1>2, <1>3
    <3> QED BY <3>1, <3>2
  <2> QED BY <1>0, <2>1, <2>2
<1>7. l = r
  BY <1>2, <1>3, <1>5, <1>6, SeqEqual
<1> QED BY <1>7 DEF l, m, q, r

\* list_del() of the entry at k.
LEMMA MapSeqRemove ==
  ASSUME NEW S, NEW s \in Seq(S), NEW f, NEW k \in DOMAIN s
  PROVE  MapSeq(DelAt(s, k), f) = DelAt(MapSeq(s, f), k)
<1> DEFINE T == {f[e] : e \in S}
           q == DelAt(s, k)
           l == MapSeq(q, f)
           m == MapSeq(s, f)
           r == DelAt(m, k)
           n == Len(s) - 1
<1>0. /\ Len(s) \in Nat /\ DOMAIN s = 1 .. Len(s) /\ k \in 1 .. Len(s)
      /\ \A i \in 1 .. Len(s) : s[i] \in S
      /\ \A e \in S : f[e] \in T
  OBVIOUS
<1> HIDE DEF T
<1>1. /\ m \in Seq(T) /\ Len(m) = Len(s) /\ k \in DOMAIN m
      /\ \A i \in 1 .. Len(s) : m[i] = f[s[i]]
  <2>1. m = [i \in 1 .. Len(s) |-> f[s[i]]]
    BY <1>0 DEF MapSeq
  <2> HIDE DEF m
  <2> QED BY <1>0, <2>1
<1>2. q \in Seq(S) /\ Len(q) = n /\ \A i \in 1 .. n : q[i] = IF i < k THEN s[i] ELSE s[i + 1]
  BY DelAtIndex
<1> HIDE DEF q, m
<1>3. l \in Seq(T) /\ Len(l) = n /\ \A i \in 1 .. n : l[i] = f[q[i]]
  <2>1. /\ Len(q) \in Nat /\ DOMAIN q = 1 .. Len(q)
        /\ \A i \in 1 .. Len(q) : q[i] \in S
    BY <1>2
  <2>2. l = [i \in 1 .. Len(q) |-> f[q[i]]]
    BY <2>1 DEF MapSeq
  <2> HIDE DEF l
  <2>3. l \in Seq(T) /\ Len(l) = Len(q) /\ \A i \in 1 .. Len(q) : l[i] = f[q[i]]
    BY <1>0, <2>1, <2>2
  <2> QED BY <1>2, <2>3
<1>4. r \in Seq(T) /\ Len(r) = n /\ \A i \in 1 .. n : r[i] = IF i < k THEN m[i] ELSE m[i + 1]
  BY <1>1, DelAtIndex
<1> HIDE DEF l, r
<1>5. ASSUME NEW i \in 1 .. n PROVE l[i] = r[i]
  <2>1. i \in 1 .. Len(s) /\ i + 1 \in 1 .. Len(s)
    BY <1>0
  <2>2. l[i] = f[q[i]] /\ m[i] = f[s[i]] /\ m[i + 1] = f[s[i + 1]]
    BY <1>1, <1>3, <2>1
  <2>3. CASE i < k
    BY <1>2, <1>4, <2>2, <2>3
  <2>4. CASE ~ (i < k)
    BY <1>2, <1>4, <2>2, <2>4
  <2> QED BY <2>3, <2>4
<1>6. l = r
  BY <1>3, <1>4, <1>5, SeqEqual
<1> QED BY <1>6 DEF l, m, q, r

-----------------------------------------------------------------------------
(* The hard link map                                                       *)

\* The numbers a file was given after one more name.
LEMMA AppendSet ==
  ASSUME NEW S, NEW s \in Seq(S), NEW e
  PROVE  /\ Range(Append(s, e)) = Range(s) \cup {e}
         /\ Len(Append(s, e)) = Len(s) + 1 /\ Len(s) \in Nat
<1> DEFINE r == Append(s, e)
           n == Len(s)
<1>1. n \in Nat /\ DOMAIN s = 1 .. n /\ DOMAIN r = 1 .. n + 1 /\ Len(r) = n + 1
      /\ r[n + 1] = e /\ \A i \in 1 .. n : r[i] = s[i]
  <2>1. s \in Seq(S \cup {e}) /\ e \in S \cup {e}
    OBVIOUS
  <2> QED BY <2>1, AppendProperties
<1> HIDE DEF r, n
<1>2. \A i \in 1 .. n + 1 : i \in 1 .. n \/ i = n + 1
  BY <1>1
<1>3. n + 1 \in 1 .. n + 1 /\ \A i \in 1 .. n : i \in 1 .. n + 1
  BY <1>1
<1>4. Range(r) = Range(s) \cup {e}
  BY <1>1, <1>2, <1>3 DEF Range
<1> QED BY <1>1, <1>4 DEF r, n

\* Inodes allocated for something else do not disturb the map.
LEMMA SharedLater ==
  ASSUME NEW F, NEW nlink, NEW map, NEW gave, NEW drop, NEW free,
         LinksAgree(F, nlink, map, gave, drop, free), NEW n \in Nat, n >= free
  PROVE  LinksAgree(F, nlink, map, gave, drop, n)
<1>1. gave \in [F -> Seq(0 .. n - 1)]
  <2>1. \A h \in F : gave[h] \in Seq(0 .. free - 1)
    BY DEF LinksAgree, LinkTypes
  <2>2. \A x \in 0 .. free - 1 : x \in 0 .. n - 1
    BY DEF LinksAgree, LinkTypes
  <2>3. ASSUME NEW h \in F PROVE gave[h] \in Seq(0 .. n - 1)
    <3> DEFINE q == gave[h]
               S == 0 .. free - 1
               T == 0 .. n - 1
    <3>1. q \in Seq(S) /\ \A x \in S : x \in T
      BY <2>1, <2>2
    <3> HIDE DEF q, S, T
    <3>2. Len(q) \in Nat /\ q \in [1 .. Len(q) -> S]
      BY <3>1, LenProperties
    <3>3. q \in [1 .. Len(q) -> T]
      BY <3>1, <3>2
    <3>4. q \in Seq(T)
      BY <3>2, <3>3
    <3> QED BY <3>4 DEF q, T
  <2> QED BY <2>3 DEF LinksAgree, LinkTypes
<1> QED BY <1>1 DEF LinksAgree, LinkTypes

\* fetchHardLink() finds the file: one more name gets the same inode, and the
\* node is counted down, unlinked, or (as first node) lost with the whole list.
LEMMA KnownShared ==
  ASSUME NEW F, NEW nlink \in [F -> Nat], NEW map, NEW gave, NEW drop, NEW free,
         LinksAgree(F, nlink, map, gave, drop, free), NEW k \in DOMAIN map,
         NEW map2, map2 = use_link(map, k), NEW drop2, drop2 = drop \cup lost_links(map, k),
         NEW gave2, gave2 = give_name(gave, map[k].host, map[k].ino)
  PROVE  LinksAgree(F, nlink, map2, gave2, drop2, free)
<1> DEFINE h == map[k].host
           i == map[k].ino
           n == Len(map)
           fi == free
           left == map[k].remain - 1
           cut == left = 0 /\ k = 1
<1>1. /\ fi \in Nat /\ gave \in [F -> Seq(0 .. fi - 1)] /\ map \in Seq(LinkNode(F))
      /\ n \in Nat /\ DOMAIN map = 1 .. n /\ h \in F /\ i \in Range(gave[h])
      /\ map[k].remain \in Int
  <2>1. fi \in Nat /\ gave \in [F -> Seq(0 .. fi - 1)] /\ map \in Seq(LinkNode(F)) /\ i \in Range(gave[h])
    BY DEF LinksAgree, LinkTypes, NodesNamed
  <2>2. n \in Nat /\ DOMAIN map = 1 .. n
    BY <2>1
  <2>3. map[k] \in LinkNode(F)
    BY <2>1, <2>2
  <2>4. h \in F /\ map[k].remain \in Int
    BY <2>3 DEF LinkNode
  <2> QED BY <2>1, <2>2, <2>4
<1>2. /\ gave2 \in [F -> Seq(0 .. fi - 1)]
      /\ \A g \in F : Range(gave2[g]) = Range(gave[g])
      /\ \A g \in F \ {h} : gave2[g] = gave[g]
      /\ Len(gave2[h]) = Len(gave[h]) + 1 /\ Len(gave[h]) \in Nat
  <2>1. gave[h] \in Seq(0 .. fi - 1)
    BY <1>1
  <2>2. i \in 0 .. fi - 1
    BY <1>1, <2>1 DEF Range
  <2>3. Append(gave[h], i) \in Seq(0 .. fi - 1)
    BY <2>1, <2>2
  <2>4. Range(Append(gave[h], i)) = Range(gave[h]) /\ Len(Append(gave[h], i)) = Len(gave[h]) + 1
        /\ Len(gave[h]) \in Nat
    <3> DEFINE q == gave[h]
               S == 0 .. fi - 1
    <3>1. q \in Seq(S) /\ i \in Range(q)
      BY <1>1, <2>1
    <3> HIDE DEF q, S, i
    <3>2. Range(Append(q, i)) = Range(q) \cup {i} /\ Len(Append(q, i)) = Len(q) + 1 /\ Len(q) \in Nat
      BY <3>1, AppendSet
    <3>3. Range(q) \cup {i} = Range(q)
      BY <3>1
    <3> QED BY <3>2, <3>3 DEF q
  <2>5. gave2[h] = Append(gave[h], i) /\ \A g \in F \ {h} : gave2[g] = gave[g]
    BY <1>1 DEF give_name
  <2>6. gave2 \in [F -> Seq(0 .. fi - 1)]
    BY <1>1, <2>3 DEF give_name
  <2> QED BY <2>4, <2>5, <2>6, Zenon
<1>3. /\ map2 = IF cut THEN <<>> ELSE IF left = 0 THEN DelAt(map, k)
                  ELSE [map EXCEPT ![k].remain = left]
      /\ drop2 = IF cut THEN drop \cup {map[j].host : j \in 2 .. n} ELSE drop
  <2>1. left = 0 <=> map[k].remain = 1
    BY <1>1
  <2>2. lost_links(map, k) = IF cut THEN {map[j].host : j \in 2 .. n} ELSE {}
    BY <2>1 DEF lost_links
  <2> QED BY <2>2 DEF use_link
<1>4. \A g, f \in F : g # f => Range(gave2[g]) \cap Range(gave2[f]) = {}
  BY <1>2, Zenon DEF LinksAgree, FilesApart
<1>5. \A g \in F \ drop2 : g \notin drop /\ \A x, y \in Range(gave2[g]) : x = y
  BY <1>2, <1>3, Zenon DEF LinksAgree, Counted
<1>6. left = 0 /\ h \notin drop => Len(gave2[h]) = nlink[h]
  <2>1. h \notin drop => Len(gave[h]) + map[k].remain = nlink[h]
    BY <1>1 DEF LinksAgree, Counted
  <2> QED BY <1>1, <1>2, <2>1
<1>7. \A j, l \in DOMAIN map : map[j].host = map[l].host => j = l
  BY DEF LinksAgree, NodesNamed
<1>8. \A g \in F \ drop : \A j \in DOMAIN map :
         map[j].host = g => Len(gave[g]) + map[j].remain = nlink[g]
  BY DEF LinksAgree, Counted
<1>9. \A g \in F \ drop : Len(gave[g]) > 0 /\ (\A j \in DOMAIN map : map[j].host # g) =>
         Len(gave[g]) >= nlink[g]
  BY DEF LinksAgree, Counted
<1>10. \A j \in DOMAIN map : map[j] \in LinkNode(F) /\ map[j].ino \in Range(gave[map[j].host])
  BY <1>1 DEF LinksAgree, NodesNamed
<1>11. \A g \in F : nlink[g] \in Nat
  OBVIOUS
<1> DEFINE Nodes ==
      /\ map2 \in Seq(LinkNode(F))
      /\ \A j \in DOMAIN map2 : map2[j].ino \in Range(gave2[map2[j].host])
      /\ \A j, l \in DOMAIN map2 : map2[j].host = map2[l].host => j = l
           Counts ==
      \A g \in F \ drop2 :
        /\ \A j \in DOMAIN map2 :
             map2[j].host = g => Len(gave2[g]) + map2[j].remain = nlink[g]
        /\ Len(gave2[g]) > 0 /\ (\A j \in DOMAIN map2 : map2[j].host # g) =>
             Len(gave2[g]) >= nlink[g]
<1>12. ASSUME cut PROVE Nodes /\ Counts
  <2>1. map2 = <<>> /\ DOMAIN map2 = {} /\ map2 \in Seq(LinkNode(F))
    BY <1>3, <1>12
  <2>2. ASSUME NEW g \in F, g \notin drop2, Len(gave2[g]) > 0
        PROVE  Len(gave2[g]) >= nlink[g]
    <3>1. g \notin drop /\ \A j \in 2 .. n : map[j].host # g
      BY <1>3, <1>12, <2>2
    <3>2. CASE g = h
      BY <1>6, <1>11, <1>12, <3>1, <3>2
    <3>3. CASE g # h
      <4>1. \A j \in DOMAIN map : map[j].host # g
        <5>1. \A j \in 1 .. n : j = 1 \/ j \in 2 .. n
          BY <1>1
        <5> QED BY <1>1, <1>12, <3>1, <3>3, <5>1
      <4> QED BY <1>2, <1>9, <2>2, <3>1, <3>3, <4>1, Zenon
    <3> QED BY <3>2, <3>3
  <2>3. Nodes /\ Counts
    BY <2>1, <2>2
  <2> QED BY <2>3
<1>13. ASSUME left = 0, ~cut PROVE Nodes /\ Counts
  <2> DEFINE m == [j \in 1 .. n - 1 |-> IF j < k THEN j ELSE j + 1]
  <2>1. /\ map2 \in Seq(LinkNode(F)) /\ Len(map2) = n - 1
        /\ \A j \in 1 .. n - 1 : map2[j] = IF j < k THEN map[j] ELSE map[j + 1]
    <3>1. map2 = DelAt(map, k)
      BY <1>3, <1>13
    <3>2. map \in Seq(LinkNode(F)) /\ k \in 1 .. Len(map)
      BY <1>1
    <3>3. /\ DelAt(map, k) \in Seq(LinkNode(F)) /\ Len(DelAt(map, k)) = Len(map) - 1
          /\ \A j \in 1 .. Len(map) - 1 :
               DelAt(map, k)[j] = IF j < k THEN map[j] ELSE map[j + 1]
      BY <3>2, DelAtIndex
    <3> QED BY <3>1, <3>3
  <2>2. DOMAIN map2 = 1 .. n - 1 /\ drop2 = drop
    BY <1>3, <1>13, <2>1
  <2>3. \A j \in 1 .. n - 1 : map2[j] = map[m[j]] /\ m[j] \in 1 .. n /\ m[j] # k
    BY <1>1, <2>1
  <2>4. \A j, l \in 1 .. n - 1 : m[j] = m[l] => j = l
    BY <1>1
  <2>5. \A l \in 1 .. n : l # k => \E j \in 1 .. n - 1 : m[j] = l
    <3> SUFFICES ASSUME NEW l \in 1 .. n, l # k PROVE \E j \in 1 .. n - 1 : m[j] = l
      OBVIOUS
    <3>1. CASE l < k
      <4>1. l \in 1 .. n - 1 /\ m[l] = l
        BY <1>1, <3>1
      <4> QED BY <4>1
    <3>2. CASE l > k
      <4>1. l - 1 \in 1 .. n - 1 /\ m[l - 1] = l
        BY <1>1, <3>2
      <4> QED BY <4>1
    <3> QED BY <1>1, <3>1, <3>2
  <2> HIDE DEF m
  <2>6. \A j \in DOMAIN map2 : map2[j].host # h
    <3>1. \A l \in 1 .. n : l # k => map[l].host # h
      BY <1>1, <1>7, Zenon
    <3> HIDE DEF h, n
    <3> QED BY <2>2, <2>3, <3>1
  <2>7. Nodes
    <3>1. \A j \in DOMAIN map2 : map2[j].ino \in Range(gave2[map2[j].host])
      <4>1. \A j \in DOMAIN map2 : map2[j].host \in F /\ map2[j].ino \in Range(gave[map2[j].host])
        BY <1>1, <1>10, <2>2, <2>3, Zenon DEF LinkNode
      <4> QED BY <1>2, <4>1
    <3>2. \A j, l \in DOMAIN map2 : map2[j].host = map2[l].host => j = l
      <4>1. \A j, l \in 1 .. n : map[j].host = map[l].host => j = l
        BY <1>1, <1>7, Zenon
      <4> HIDE DEF h, n
      <4> QED BY <2>2, <2>3, <2>4, <4>1
    <3> QED BY <2>1, <3>1, <3>2
  <2>8. ASSUME NEW g \in F, g \notin drop2
        PROVE  /\ \A j \in DOMAIN map2 :
                    map2[j].host = g => Len(gave2[g]) + map2[j].remain = nlink[g]
               /\ Len(gave2[g]) > 0 /\ (\A j \in DOMAIN map2 : map2[j].host # g) =>
                    Len(gave2[g]) >= nlink[g]
    <3>1. CASE g = h
      BY <1>6, <1>11, <1>13, <2>2, <2>6, <2>8, <3>1
    <3>2. CASE g # h
      <4>1. gave2[g] = gave[g] /\ g \notin drop
        BY <1>2, <2>2, <2>8, <3>2
      <4>2. \A j \in DOMAIN map2 :
               map2[j].host = g => Len(gave2[g]) + map2[j].remain = nlink[g]
        <5>1. \A l \in 1 .. n : map[l].host = g => Len(gave[g]) + map[l].remain = nlink[g]
          BY <1>1, <1>8, <4>1, Zenon
        <5> SUFFICES ASSUME NEW j \in DOMAIN map2, map2[j].host = g
                     PROVE  Len(gave2[g]) + map2[j].remain = nlink[g]
          OBVIOUS
        <5>2. map2[j] = map[m[j]] /\ m[j] \in 1 .. n
          BY <2>2, <2>3
        <5>3. Len(gave[g]) + map[m[j]].remain = nlink[g]
          BY <5>1, <5>2
        <5> QED BY <4>1, <5>2, <5>3
      <4>3. (\A j \in DOMAIN map2 : map2[j].host # g) => \A l \in DOMAIN map : map[l].host # g
        <5>1. \A l \in 1 .. n : l # k => \E j \in DOMAIN map2 : map2[j] = map[l]
          <6> HIDE DEF h, n
          <6> QED BY <2>2, <2>3, <2>5
        <5>2. map[k].host # g /\ DOMAIN map = 1 .. n
          BY <1>1, <3>2
        <5> HIDE DEF h, n
        <5> QED BY <5>1, <5>2
      <4> QED BY <1>9, <4>1, <4>2, <4>3
    <3> QED BY <3>1, <3>2
  <2> QED BY <2>7, <2>8
<1>14. ASSUME left # 0 PROVE Nodes /\ Counts
  <2>1. map2 = [map EXCEPT ![k].remain = left] /\ drop2 = drop /\ left \in Int
    BY <1>1, <1>3, <1>14
  <2>2. /\ DOMAIN map2 = DOMAIN map
        /\ \A j \in DOMAIN map : map2[j].host = map[j].host /\ map2[j].ino = map[j].ino
        /\ \A j \in DOMAIN map : map2[j].remain = IF j = k THEN left ELSE map[j].remain
    <3>1. \A j \in DOMAIN map : map[j] \in [host : F, ino : Nat, remain : Int]
      BY <1>10 DEF LinkNode
    <3>2. /\ DOMAIN map2 = DOMAIN map
          /\ \A j \in DOMAIN map :
               map2[j] = IF j = k THEN [map[k] EXCEPT !.remain = left] ELSE map[j]
      BY <1>1, <2>1
    <3> QED BY <3>1, <3>2
  <2>3. map2 \in Seq(LinkNode(F))
    <3>1. [map[k] EXCEPT !.remain = left] \in LinkNode(F)
      BY <1>10, <2>1 DEF LinkNode
    <3>2. map2 = [map EXCEPT ![k] = [map[k] EXCEPT !.remain = left]]
      BY <2>1
    <3> QED BY <1>1, <3>1, <3>2
  <2>4. Nodes
    <3>1. \A j \in DOMAIN map : map[j].host \in F
      BY <1>10 DEF LinkNode
    <3>2. \A j \in DOMAIN map2 : map2[j].ino \in Range(gave2[map2[j].host])
      BY <1>2, <1>10, <2>2, <3>1, ZenonT(30)
    <3>3. \A j, l \in DOMAIN map2 : map2[j].host = map2[l].host => j = l
      BY <1>7, <2>2, Zenon
    <3> QED BY <2>3, <3>2, <3>3
  <2>5. ASSUME NEW g \in F, g \notin drop2
        PROVE  /\ \A j \in DOMAIN map2 :
                    map2[j].host = g => Len(gave2[g]) + map2[j].remain = nlink[g]
               /\ Len(gave2[g]) > 0 /\ (\A j \in DOMAIN map2 : map2[j].host # g) =>
                    Len(gave2[g]) >= nlink[g]
    <3>1. CASE g = h
      <4>1. \A j \in DOMAIN map2 : map2[j].host = g => j = k
        BY <1>7, <2>2, <3>1
      <4>2. Len(gave[h]) + map[k].remain = nlink[h]
        BY <1>8, <1>1, <2>1, <2>5, <3>1
      <4>3. Len(gave2[h]) + map2[k].remain = nlink[h]
        <5> DEFINE a == Len(gave[h])
                   b == map[k].remain
                   c == nlink[h]
                   d == Len(gave2[h])
                   e == map2[k].remain
        <5>1. a \in Nat /\ b \in Int /\ d = a + 1 /\ e = b - 1 /\ a + b = c
          BY <1>1, <1>2, <2>2, <4>2
        <5> HIDE DEF a, b, c, d, e
        <5>2. d + e = c
          BY <5>1
        <5> QED BY <5>2 DEF c, d, e
      <4> QED BY <2>2, <3>1, <4>1, <4>3
    <3>2. CASE g # h
      <4>1. gave2[g] = gave[g] /\ g \notin drop
        BY <1>2, <2>1, <2>5, <3>2
      <4>2. \A j \in DOMAIN map : map[j].host = g => map2[j].remain = map[j].remain
        BY <2>2, <3>2
      <4>3. ASSUME NEW j \in DOMAIN map2, map2[j].host = g
            PROVE  Len(gave2[g]) + map2[j].remain = nlink[g]
        <5>1. j \in DOMAIN map /\ map[j].host = g /\ map2[j].remain = map[j].remain
          BY <2>2, <4>2, <4>3
        <5>2. Len(gave[g]) + map[j].remain = nlink[g]
          BY <1>8, <4>1, <5>1
        <5> QED BY <4>1, <5>1, <5>2
      <4>4. (\A j \in DOMAIN map2 : map2[j].host # g) => \A j \in DOMAIN map : map[j].host # g
        BY <2>2
      <4>5. Len(gave2[g]) > 0 /\ (\A j \in DOMAIN map2 : map2[j].host # g) =>
              Len(gave2[g]) >= nlink[g]
        BY <1>9, <4>1, <4>4
      <4> QED BY <4>3, <4>5
    <3> QED BY <3>1, <3>2
  <2> QED BY <2>4, <2>5
<1>15. Nodes /\ Counts
  BY <1>12, <1>13, <1>14
<1>16. LinkTypes(F, map2, gave2, free)
  BY <1>1, <1>2, <1>15 DEF LinkTypes
<1>17. NodesNamed(map2, gave2)
  BY <1>15 DEF NodesNamed
<1>18. FilesApart(F, gave2)
  BY <1>4 DEF FilesApart
<1>19. ASSUME NEW g \in F \ drop2
       PROVE  Counted(nlink, map2, gave2, g)
  BY <1>5, <1>15, Zenon DEF Counted
<1> QED BY <1>16, <1>17, <1>18, <1>19 DEF LinksAgree

\* fetchHardLink() does not find the file: a file that was not drop gets its
\* first name here, because a file that has left the map has all its names.
LEMMA NewShared ==
  ASSUME NEW F, NEW nlink \in [F -> Nat], NEW map, NEW gave, NEW drop, NEW free,
         LinksAgree(F, nlink, map, gave, drop, free), NEW h \in F,
         Len(gave[h]) < (IF nlink[h] = 0 THEN 1 ELSE nlink[h]),
         {k \in DOMAIN map : map[k].host = h} = {},
         NEW map2, map2 = new_link(map, h, free, nlink[h]),
         NEW gave2, gave2 = give_name(gave, h, free)
  PROVE  LinksAgree(F, nlink, map2, gave2, drop, free + 1)
<1> DEFINE fi == free
           n == Len(map)
           node == [host |-> h, ino |-> fi, remain |-> nlink[h] - 1]
           low == 0 .. fi - 1
           up == 0 .. fi + 1 - 1
<1>1. /\ fi \in Nat /\ gave \in [F -> Seq(low)] /\ map \in Seq(LinkNode(F))
  BY DEF LinksAgree, LinkTypes
<1>2. n \in Nat /\ DOMAIN map = 1 .. n /\ \A k \in DOMAIN map : map[k] \in LinkNode(F) /\ map[k].host # h
  BY <1>1
<1>3. \A g \in F : nlink[g] \in Nat
  OBVIOUS
<1>4. map2 = IF nlink[h] = 0 THEN map ELSE Append(map, node)
  BY DEF new_link
<1>5. (\A x \in low : x \in up) /\ fi \in up /\ fi \notin low
  BY <1>1
<1>6. ASSUME NEW g \in F
      PROVE  gave[g] \in Seq(low) /\ gave[g] \in Seq(up) /\ (\A x \in Range(gave[g]) : x \in low)
  <2> DEFINE q == gave[g]
  <2>1. q \in Seq(low)
    BY <1>1
  <2> HIDE DEF q, low, up
  <2>2. Len(q) \in Nat /\ q \in [1 .. Len(q) -> low] /\ DOMAIN q = 1 .. Len(q)
    BY <2>1, LenProperties
  <2>3. q \in [1 .. Len(q) -> up]
    BY <1>5, <2>2
  <2>4. q \in Seq(up)
    BY <2>2, <2>3
  <2>5. \A x \in Range(q) : x \in low
    BY <2>2 DEF Range
  <2> QED BY <2>1, <2>4, <2>5 DEF q
<1>7. /\ gave2 \in [F -> Seq(up)]
      /\ \A g \in F \ {h} : gave2[g] = gave[g]
      /\ Range(gave2[h]) = Range(gave[h]) \cup {fi}
      /\ Len(gave2[h]) = Len(gave[h]) + 1 /\ Len(gave[h]) \in Nat
  <2>1. gave[h] \in Seq(up) /\ gave[h] \in Seq(low)
    BY <1>6
  <2>2. gave2[h] = Append(gave[h], fi) /\ \A g \in F \ {h} : gave2[g] = gave[g]
    BY <1>1 DEF give_name
  <2>3. Append(gave[h], fi) \in Seq(up)
    <3> HIDE DEF up, fi
    <3> QED BY <1>5, <2>1
  <2>4. \A g \in F : gave2[g] \in Seq(up)
    BY <1>6, <2>2, <2>3, Zenon
  <2>5. gave2 \in [F -> Seq(up)]
    <3> HIDE DEF up
    <3> QED BY <1>1, <2>4 DEF give_name
  <2>6. Range(Append(gave[h], fi)) = Range(gave[h]) \cup {fi}
        /\ Len(Append(gave[h], fi)) = Len(gave[h]) + 1 /\ Len(gave[h]) \in Nat
    <3> DEFINE q == gave[h]
    <3>1. q \in Seq(low)
      BY <2>1
    <3> HIDE DEF q, low, fi
    <3>2. Range(Append(q, fi)) = Range(q) \cup {fi} /\ Len(Append(q, fi)) = Len(q) + 1 /\ Len(q) \in Nat
      BY <3>1, AppendSet
    <3> QED BY <3>2 DEF q
  <2> HIDE DEF up, fi
  <2> QED BY <2>2, <2>5, <2>6
<1>8. ASSUME NEW f \in F, NEW g \in F, f # g
      PROVE  Range(gave2[f]) \cap Range(gave2[g]) = {}
  <2>1. Range(gave[f]) \cap Range(gave[g]) = {}
    BY <1>8, Zenon DEF LinksAgree, FilesApart
  <2>2. \A e \in F : fi \notin Range(gave[e])
    BY <1>5, <1>6
  <2> HIDE DEF fi
  <2> QED BY <1>7, <1>8, <2>1, <2>2, Zenon
<1>9. h \notin drop => Len(gave[h]) = 0 /\ Range(gave[h]) = {}
  <2> SUFFICES ASSUME h \notin drop PROVE Len(gave[h]) = 0 /\ Range(gave[h]) = {}
    OBVIOUS
  <2>1. Len(gave[h]) > 0 => Len(gave[h]) >= nlink[h]
    BY <1>2 DEF LinksAgree, Counted
  <2>2. Len(gave[h]) = 0
    <3> DEFINE a == Len(gave[h])
               b == nlink[h]
    <3>1. a \in Nat /\ b \in Nat /\ a < (IF b = 0 THEN 1 ELSE b) /\ (a > 0 => a >= b)
      BY <1>3, <1>7, <2>1
    <3> HIDE DEF a, b
    <3>2. a = 0
      BY <3>1
    <3> QED BY <3>2 DEF a
  <2>3. DOMAIN gave[h] = {}
    BY <1>6, <2>2
  <2> QED BY <2>2, <2>3 DEF Range
<1>10. ASSUME NEW g \in F, g \notin drop
       PROVE  \A x, y \in Range(gave2[g]) : x = y
  <2>1. CASE g = h
    BY <1>4, <1>7, <1>9, <1>10, <2>1
  <2>2. CASE g # h
    BY <1>4, <1>7, <1>10, <2>2, Zenon DEF LinksAgree, Counted
  <2> QED BY <2>1, <2>2
<1>11. \A g \in F \ drop : g # h =>
         /\ \A k \in DOMAIN map : map[k].host = g => Len(gave2[g]) + map[k].remain = nlink[g]
         /\ Len(gave2[g]) > 0 /\ (\A k \in DOMAIN map : map[k].host # g) => Len(gave2[g]) >= nlink[g]
  BY <1>4, <1>7 DEF LinksAgree, Counted
<1> DEFINE Nodes ==
             /\ map2 \in Seq(LinkNode(F))
             /\ \A j \in DOMAIN map2 : map2[j].ino \in Range(gave2[map2[j].host])
             /\ \A j, l \in DOMAIN map2 : map2[j].host = map2[l].host => j = l
           Counts ==
             \A g \in F \ drop :
               /\ \A k \in DOMAIN map2 : map2[k].host = g =>
                    Len(gave2[g]) + map2[k].remain = nlink[g]
               /\ Len(gave2[g]) > 0 /\ (\A k \in DOMAIN map2 : map2[k].host # g) =>
                    Len(gave2[g]) >= nlink[g]
<1>12. \A k \in DOMAIN map : map[k].ino \in Range(gave2[map[k].host])
  <2>1. \A k \in DOMAIN map : map[k].ino \in Range(gave[map[k].host])
                             /\ map[k].host \in F \ {h}
    BY <1>2 DEF LinksAgree, NodesNamed, LinkNode
  <2> QED BY <1>7, <2>1
<1>13. \A j, l \in DOMAIN map : map[j].host = map[l].host => j = l
  BY DEF LinksAgree, NodesNamed
<1>14. ASSUME nlink[h] = 0 PROVE Nodes /\ Counts
  <2>1. map2 = map
    BY <1>4, <1>14
  <2>2. Nodes
    BY <1>1, <1>12, <1>13, <2>1
  <2>3. Len(gave2[h]) >= nlink[h]
    BY <1>7, <1>14
  <2>4. Counts
    BY <1>2, <1>11, <2>1, <2>3
  <2> QED BY <2>2, <2>4
<1>15. ASSUME nlink[h] # 0 PROVE Nodes /\ Counts
  <2>1. map2 = Append(map, node) /\ node \in LinkNode(F)
    BY <1>1, <1>3, <1>4, <1>15 DEF LinkNode
  <2>2. node.host = h /\ node.ino = fi /\ node.remain = nlink[h] - 1
    OBVIOUS
  <2> HIDE DEF node
  <2>3. /\ map2 \in Seq(LinkNode(F)) /\ DOMAIN map2 = 1 .. n + 1 /\ map2[n + 1] = node
        /\ \A k \in 1 .. n : map2[k] = map[k]
    BY <1>1, <1>2, <2>1, AppendProperties
  <2>4. (\A k \in 1 .. n + 1 : k \in 1 .. n \/ k = n + 1) /\ n + 1 \in 1 .. n + 1 /\ \A k \in 1 .. n : k \in 1 .. n + 1
    BY <1>2
  <2> HIDE DEF n, fi
  <2>5. \A k \in DOMAIN map2 : map2[k].host = h <=> k = n + 1
    <3>1. n + 1 \notin 1 .. n
      BY <1>2
    <3> QED BY <1>2, <2>2, <2>3, <2>4, <3>1
  <2>6. Nodes
    <3>1. fi \in Range(gave2[h])
      BY <1>7
    <3>2. \A j \in DOMAIN map2 : map2[j].ino \in Range(gave2[map2[j].host])
      BY <1>2, <1>12, <2>2, <2>3, <2>4, <3>1
    <3>3. ASSUME NEW j \in DOMAIN map2, NEW l \in DOMAIN map2, map2[j].host = map2[l].host
          PROVE  j = l
      <4>1. CASE j = n + 1
        BY <2>5, <3>3, <4>1
      <4>2. CASE l = n + 1
        BY <2>5, <3>3, <4>2
      <4>3. CASE j # n + 1 /\ l # n + 1
        BY <1>2, <1>13, <2>3, <2>4, <3>3, <4>3
      <4> QED BY <4>1, <4>2, <4>3
    <3> QED BY <2>3, <3>2, <3>3
  <2>7. ASSUME NEW g \in F, g \notin drop
        PROVE  /\ \A k \in DOMAIN map2 : map2[k].host = g =>
                    Len(gave2[g]) + map2[k].remain = nlink[g]
               /\ Len(gave2[g]) > 0 /\ (\A k \in DOMAIN map2 : map2[k].host # g) =>
                    Len(gave2[g]) >= nlink[g]
    <3>1. CASE g = h
      <4>1. Len(gave2[h]) + map2[n + 1].remain = nlink[h]
        <5>1. Len(gave2[h]) = 1 /\ map2[n + 1].remain = nlink[h] - 1 /\ nlink[h] \in Nat
          <6>1. Len(gave2[h]) = Len(gave[h]) + 1 /\ Len(gave[h]) = 0
            BY <1>4, <1>7, <1>9, <2>7, <3>1
          <6>2. map2[n + 1].remain = nlink[h] - 1 /\ nlink[h] \in Nat
            BY <1>3, <2>2, <2>3
          <6> QED BY <6>1, <6>2
        <5> DEFINE a == Len(gave2[h])
                   b == map2[n + 1].remain
                   c == nlink[h]
        <5>2. a = 1 /\ b = c - 1 /\ c \in Nat
          BY <5>1
        <5> HIDE DEF a, b, c
        <5>3. a + b = c
          BY <5>2
        <5> QED BY <5>3 DEF a, b, c
      <4>2. n + 1 \in DOMAIN map2 /\ map2[n + 1].host = g
        BY <2>2, <2>3, <2>4, <3>1
      <4> QED BY <2>5, <3>1, <4>1, <4>2
    <3>2. CASE g # h
      <4>1. ASSUME NEW k \in DOMAIN map2, map2[k].host = g
            PROVE  Len(gave2[g]) + map2[k].remain = nlink[g]
        <5>1. k \in DOMAIN map /\ map2[k] = map[k]
          BY <1>2, <2>3, <2>4, <2>5, <3>2, <4>1
        <5> QED BY <1>11, <2>7, <3>2, <4>1, <5>1
      <4>2. (\A k \in DOMAIN map2 : map2[k].host # g) => \A k \in DOMAIN map : map[k].host # g
        BY <1>2, <2>3, <2>4
      <4>3. Len(gave2[g]) > 0 /\ (\A k \in DOMAIN map2 : map2[k].host # g) =>
              Len(gave2[g]) >= nlink[g]
        BY <1>11, <2>7, <3>2, <4>2
      <4> QED BY <4>1, <4>3
    <3> QED BY <3>1, <3>2
  <2> QED BY <2>6, <2>7
<1>16. Nodes /\ Counts
  BY <1>14, <1>15
<1>17. LinkTypes(F, map2, gave2, free + 1)
  <2> DEFINE m == free + 1
  <2>1. m \in Nat /\ gave2 \in [F -> Seq(0 .. m - 1)]
    BY <1>1, <1>7
  <2>2. map2 \in Seq(LinkNode(F))
    BY <1>16
  <2> HIDE DEF m, Nodes, Counts
  <2>3. LinkTypes(F, map2, gave2, m)
    BY <2>1, <2>2 DEF LinkTypes
  <2> QED BY <2>3 DEF m
<1>18. NodesNamed(map2, gave2)
  BY <1>16 DEF NodesNamed
<1>19. FilesApart(F, gave2)
  BY <1>8, Zenon DEF FilesApart
<1>20. ASSUME NEW g \in F \ drop
       PROVE  Counted(nlink, map2, gave2, g)
  BY <1>10, <1>16, Zenon DEF Counted
<1> QED BY <1>17, <1>18, <1>19, <1>20 DEF LinksAgree
=============================================================================
