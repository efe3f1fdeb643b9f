-------------------------- MODULE CpuTrackerProofs --------------------------
(***************************************************************************)
(* The process tracker for any number of processes, nodes and readers'     *)
(* lengths: types, ownership of list nodes, the quiet teardown and what a  *)
(* reader gets.  TrackerInv is the invariant that all of them follow from. *)
(***************************************************************************)
EXTENDS CpuTracker, ListLemmas

\* The smaller of two lengths.
LEMMA MinPair ==
  ASSUME NEW a \in Int, NEW b \in Int
  PROVE  Min({a, b}) = IF a <= b THEN a ELSE b
BY DEF Min

EntryRec == [pid : Pid \cup {NULL}, cpu_time : 0 .. MaxTime]
ListedRec == [pid : Pid, cpu_time : 0 .. MaxTime]

\* List, scan and slab: the worker's scan is empty unless it holds the mutex.
Owned ==
  /\ IsInjective(mp1list) /\ Tracked \subseteq slab
  /\ IsInjective(rest) /\ Range(rest) \subseteq Tracked
  /\ wpc # "scan" => rest = << >>
  /\ \A n \in slab : node[n].pid \in Pid
  /\ \A m, n \in Tracked : node[m].pid = node[n].pid => m = n

\* Each step of the teardown silences one more source of asynchronous work.
Quiet ==
  /\ epc \in {"flush", "clean", "destroy", "close", "gone"} => timer = "idle" /\ tcb = "idle"
  /\ epc \in {"clean", "destroy", "close", "gone"} => ~queued /\ wpc = "idle"

\* Until a line changes, the reader holds the lines before its offset.
ReadSoFar ==
  ~dirty => /\ rpos <= Len(Lines) /\ rout = SubSeq(Lines, 1, rpos)
            /\ reof => rpos = Len(Lines)

\* Who answers for an allocated node: the list, a call in progress, or one
\* that came after cleanuplist().
Held ==
  /\ adding \cup refused \subseteq slab \ Tracked /\ adding \cap refused = {}
  /\ slab \subseteq Tracked \cup adding \cup refused \cup late
  /\ Cleaned => Tracked \subseteq late
  /\ epc = "gone" => adding = {} /\ refused = {}

TrackerInv == TypeOK /\ Owned /\ Held /\ Quiet /\ ReadSoFar

USE TrackerAssumption

-----------------------------------------------------------------------------
(* The proc file.                                                          *)

LEMMA LinesType ==
  ASSUME TypeOK, Owned
  PROVE  /\ Lines \in Seq(ListedRec) /\ Len(Lines) <= Len(mp1list)
         /\ Len(Lines) = IF Len(mp1list) <= Cap THEN Len(mp1list) ELSE Cap
<1> DEFINE k == IF Len(mp1list) <= Cap THEN Len(mp1list) ELSE Cap
<1>1. mp1list \in Seq(Node) /\ Len(mp1list) \in Nat /\ k \in Nat /\ k <= Len(mp1list)
  BY DEF TypeOK
<1>2. Min({Len(mp1list), Cap}) = k
  BY <1>1, MinPair
<1> HIDE DEF k
<1>3. ASSUME NEW i \in 1 .. k PROVE node[mp1list[i]] \in ListedRec
  <2>1. mp1list[i] \in Tracked /\ mp1list[i] \in Node
    BY <1>1 DEF Tracked, Range
  <2>2. node[mp1list[i]].pid \in Pid
    BY <2>1 DEF Owned
  <2> QED BY <2>1, <2>2 DEF TypeOK, ListedRec
<1>4. Lines = [i \in 1 .. k |-> node[mp1list[i]]]
  BY <1>2 DEF Lines
<1> QED BY <1>1, <1>3, <1>4 DEF k

\* The text only depends on the list and on the nodes in it.
LEMMA LinesSame ==
  ASSUME TypeOK, mp1list' = mp1list, \A n \in Tracked : node'[n] = node[n]
  PROVE  Lines' = Lines
<1>1. mp1list \in Seq(Node) /\ Len(mp1list) \in Nat
  BY DEF TypeOK
<1>2. Min({Len(mp1list), Cap}) = (IF Len(mp1list) <= Cap THEN Len(mp1list) ELSE Cap)
  BY <1>1, MinPair
<1>3. ASSUME NEW i \in 1 .. Min({Len(mp1list), Cap}) PROVE node'[mp1list[i]] = node[mp1list[i]]
  BY <1>1, <1>2 DEF Tracked, Range
<1> QED BY <1>3 DEF Lines

-----------------------------------------------------------------------------
(* Initial states.                                                         *)

LEMMA TrackerInit == Init => TrackerInv
<1> SUFFICES ASSUME Init PROVE TrackerInv
  OBVIOUS
<1>1. TypeOK
  <2>1. node \in [Node -> EntryRec] /\ utime \in [Pid -> 0 .. MaxTime \cup {NULL}]
    BY DEF Init, Listnode, EntryRec
  <2>2. mp1list \in Seq(Node) /\ rest \in Seq(Node) /\ rout \in Seq(ListedRec) /\ rpos \in Nat
    BY DEF Init
  <2>3. queued \in BOOLEAN /\ reof \in BOOLEAN /\ dirty \in BOOLEAN /\ oops \in BOOLEAN
    BY DEF Init
  <2> QED BY <2>1, <2>2, <2>3 DEF Init, TypeOK, EntryRec, ListedRec
<1>2. Owned /\ Held
  BY DEF Init, Owned, Held, Cleaned, Tracked, Range, IsInjective
<1>3. Quiet
  BY DEF Init, Quiet
<1>4. rpos = 0 /\ rout = << >> /\ ~reof /\ SubSeq(Lines, 1, 0) = << >>
  BY SubSeqEmpty DEF Init
<1>5. Len(Lines) \in Nat
  BY <1>1, <1>2, LinesType
<1>6. ReadSoFar
  BY <1>4, <1>5 DEF ReadSoFar
<1> QED BY <1>1, <1>2, <1>3, <1>6 DEF TrackerInv

LEMMA KeepRead ==
  ASSUME TypeOK, ReadSoFar, mp1list' = mp1list, \A n \in Tracked : node'[n] = node[n],
         UNCHANGED <<rpos, rout, reof, dirty>>
  PROVE  ReadSoFar'
BY LinesSame DEF ReadSoFar

LEMMA ChangedRead == LinesChange => ReadSoFar'
BY DEF LinesChange, ReadSoFar

-----------------------------------------------------------------------------
(* The timer and the work item.                                            *)

LEMMA TimerStep ==
  ASSUME TrackerInv, TimerExpire \/ Timercb
  PROVE  TrackerInv'
<1> USE DEF TrackerInv, listVars, callVars, workVars, readVars
<1>1. UNCHANGED <<mp1list, slab, node, adding, refused, oops, late, wpc, rest, utime, rpos,
                  rout, reof, dirty, epc>>
  BY DEF TimerExpire, Timercb, TimerSchedule, TimerRearm
<1>2. ReadSoFar'
  BY <1>1, KeepRead
<1>3. Owned' /\ Held'
  BY <1>1 DEF Owned, Held, Cleaned, Tracked
<1>4. TypeOK'
  <2>1. queued' \in BOOLEAN
    BY DEF TimerExpire, Timercb, TimerSchedule, TimerRearm, TypeOK
  <2> QED BY <1>1, <2>1 DEF TimerExpire, Timercb, TimerSchedule, TimerRearm, TypeOK
<1>5. Quiet'
  BY DEF TimerExpire, Timercb, TimerSchedule, TimerRearm, TypeOK, Quiet
<1> QED BY <1>2, <1>3, <1>4, <1>5

\* Taking and releasing the mutex, and starting: no node is touched.
LEMMA WorkControl ==
  ASSUME TrackerInv, WorkStart \/ WorkLock \/ WorkUnlock
  PROVE  TrackerInv'
<1> USE DEF TrackerInv, listVars, callVars, workVars, readVars
<1>1. UNCHANGED <<mp1list, slab, node, adding, refused, oops, late, utime, rpos, rout, reof,
                  dirty, epc, timer, tcb>>
  BY DEF WorkStart, WorkLock, WorkUnlock
<1>2. ReadSoFar'
  BY <1>1, KeepRead
<1>3. Owned' /\ Held'
  BY <1>1 DEF Owned, Held, Cleaned, Tracked, WorkStart, WorkLock, WorkUnlock
<1>4. TypeOK'
  <2>1. queued' \in BOOLEAN
    BY DEF WorkStart, WorkLock, WorkUnlock, TypeOK
  <2> QED BY <1>1, <2>1 DEF WorkStart, WorkLock, WorkUnlock, TypeOK
<1>5. Quiet'
  BY DEF WorkStart, WorkLock, WorkUnlock, TypeOK, Quiet
<1> QED BY <1>2, <1>3, <1>4, <1>5

\* The node under the scan is listed, hence allocated, and its pid is real.
LEMMA ScanHead ==
  ASSUME TypeOK, Owned, rest # << >>
  PROVE  /\ Head(rest) \in Tracked /\ Head(rest) \in slab /\ Head(rest) \in Node
         /\ node[Head(rest)].pid \in Pid
         /\ Tail(rest) \in Seq(Node) /\ IsInjective(Tail(rest))
         /\ Range(Tail(rest)) = Range(rest) \ {Head(rest)}
BY TailEntries DEF TypeOK, Owned

LEMMA UpdateStep ==
  ASSUME TrackerInv, WorkUpdate
  PROVE  TrackerInv'
<1> USE DEF TrackerInv
<1> DEFINE h == Head(rest)
           t == utime[node[h].pid]
<1>1. wpc = "scan" /\ rest # << >> /\ t # NULL /\ rest' = Tail(rest)
      /\ node' = [node EXCEPT ![h].cpu_time = t]
      /\ UNCHANGED <<mp1list, slab, adding, refused, oops, late, timer, tcb, queued, wpc, utime,
                     rpos, reof, epc>>
  BY DEF WorkUpdate, callVars
<1>2. /\ h \in Tracked /\ h \in Node /\ node[h].pid \in Pid /\ t \in 0 .. MaxTime
      /\ Tail(rest) \in Seq(Node) /\ IsInjective(Tail(rest))
      /\ Range(Tail(rest)) \subseteq Range(rest)
  BY <1>1, ScanHead DEF TypeOK
<1> HIDE DEF h, t
<1>3. node' \in [Node -> EntryRec] /\ \A n \in Node : node'[n].pid = node[n].pid
  <2>1. node \in [Node -> EntryRec]
    BY DEF TypeOK, EntryRec
  <2>2. [node[h] EXCEPT !.cpu_time = t] \in EntryRec
        /\ [node[h] EXCEPT !.cpu_time = t].pid = node[h].pid
    BY <1>2, <2>1 DEF EntryRec
  <2>3. node' = [node EXCEPT ![h] = [node[h] EXCEPT !.cpu_time = t]]
    BY <1>1, <1>2, <2>1
  <2> QED BY <1>2, <2>1, <2>2, <2>3
<1>4. ReadSoFar' /\ rout' \in Seq(ListedRec) /\ dirty' \in BOOLEAN
  <2>1. CASE node' = node
    <3>1. UNCHANGED <<dirty, rout>>
      BY <2>1 DEF WorkUpdate
    <3> QED BY <1>1, <2>1, <3>1, KeepRead DEF TypeOK, ListedRec
  <2>2. CASE node' # node
    <3>1. LinesChange
      BY <2>2 DEF WorkUpdate
    <3> QED BY <3>1, ChangedRead DEF LinesChange
  <2> QED BY <2>1, <2>2
<1>5. Owned' /\ Held'
  BY <1>1, <1>2, <1>3 DEF Owned, Held, Cleaned, Tracked, TypeOK
<1>6. TypeOK'
  BY <1>1, <1>2, <1>3, <1>4 DEF TypeOK, EntryRec, ListedRec
<1>7. Quiet'
  BY <1>1 DEF Quiet
<1> QED BY <1>4, <1>5, <1>6, <1>7

\* What kmem_cache_free() leaves: the other nodes keep their contents.
LEMMA FreeKeeps ==
  ASSUME TypeOK, NEW N \in SUBSET Node, KmemCacheFree(N)
  PROVE  /\ slab' = slab \ N /\ slab' \subseteq Node /\ node' \in [Node -> EntryRec]
         /\ late' = late \ N
         /\ \A n \in Node \ N : node'[n] = node[n]
BY DEF TypeOK, KmemCacheFree, Listnode, EntryRec

LEMMA ReapStep ==
  ASSUME TrackerInv, WorkReap
  PROVE  TrackerInv'
<1> USE DEF TrackerInv
<1> DEFINE h == Head(rest)
<1>1. wpc = "scan" /\ rest # << >> /\ rest' = Tail(rest) /\ LinesChange
      /\ mp1list' = Del(mp1list, h) /\ KmemCacheFree({h})
      /\ UNCHANGED <<adding, refused, oops, timer, tcb, queued, wpc, utime, rpos, reof, epc>>
  BY DEF WorkReap, callVars
<1>2. /\ h \in Tracked /\ h \in Node /\ Tail(rest) \in Seq(Node) /\ IsInjective(Tail(rest))
      /\ Range(Tail(rest)) = Range(rest) \ {h}
  BY <1>1, ScanHead
<1> HIDE DEF h
<1>3. mp1list' \in Seq(Node) /\ Tracked' = Tracked \ {h} /\ IsInjective(mp1list')
  BY <1>1, <1>2, DelEntries DEF TypeOK, Owned, Tracked
<1>4. /\ slab' = slab \ {h} /\ slab' \subseteq Node /\ node' \in [Node -> EntryRec]
      /\ late' = late \ {h}
      /\ \A n \in Node \ {h} : node'[n] = node[n]
  BY <1>1, <1>2, FreeKeeps
<1>5. Owned'
  BY <1>1, <1>2, <1>3, <1>4 DEF Owned, TypeOK
<1>8. ~Cleaned
  BY <1>1 DEF Quiet, Cleaned
<1>9. Held'
  BY <1>1, <1>2, <1>3, <1>4, <1>8 DEF Held, Cleaned
<1>6. TypeOK'
  <2>1. dirty' \in BOOLEAN /\ rout' \in Seq(ListedRec)
    BY <1>1 DEF LinesChange
  <2> QED BY <1>1, <1>2, <1>3, <1>4, <2>1 DEF TypeOK, EntryRec, ListedRec
<1>7. Quiet' /\ ReadSoFar'
  BY <1>1, ChangedRead DEF Quiet
<1> QED BY <1>5, <1>6, <1>7, <1>9

-----------------------------------------------------------------------------
(* Users.                                                                  *)

LEMMA RegisterStep ==
  ASSUME TrackerInv, NEW pid \in Pid, IdRegister(pid)
  PROVE  TrackerInv'
<1> USE DEF TrackerInv, listVars, callVars, workVars, readVars
<1>1. PICK n \in Node \ slab : /\ slab' = slab \cup {n} /\ adding' = adding \cup {n}
                               /\ node' = [node EXCEPT ![n] = Listnode(pid, 0)]
  BY DEF IdRegister
<1>2. UNCHANGED <<mp1list, refused, oops, late, timer, tcb, queued, wpc, rest, utime, rpos,
                  rout, reof, dirty, epc>> /\ epc # "gone"
  BY DEF IdRegister, ProcOpen
<1>3. /\ node' \in [Node -> EntryRec] /\ node'[n].pid \in Pid
      /\ \A m \in Node \ {n} : node'[m] = node[m]
  BY <1>1 DEF TypeOK, EntryRec, Listnode
<1>4. Tracked \subseteq Node \ {n}
  BY <1>1 DEF Owned, TypeOK
<1>5. ReadSoFar'
  BY <1>2, <1>3, <1>4, KeepRead
<1>6. Owned' /\ Held'
  BY <1>1, <1>2, <1>3, <1>4 DEF Owned, Held, Cleaned, Tracked, TypeOK
<1>7. TypeOK' /\ Quiet'
  BY <1>1, <1>2, <1>3 DEF TypeOK, Quiet, EntryRec
<1> QED BY <1>5, <1>6, <1>7

LEMMA InsertStep ==
  ASSUME TrackerInv, NEW n \in Node, IdInsert(n)
  PROVE  TrackerInv'
<1> USE DEF TrackerInv, workVars
<1>1. /\ n \in slab \ Tracked /\ rest = << >> /\ wpc # "scan" /\ adding' = adding \ {n}
      /\ UNCHANGED <<slab, node, oops, timer, tcb, queued, wpc, rest, utime, rpos, reof, epc>>
      /\ n \in adding /\ n \notin refused
  BY DEF IdInsert, MutexFree, Owned, Held
<1>2. CASE \E m \in Tracked : node[m].pid = node[n].pid
  <2>1. refused' = refused \cup {n} /\ UNCHANGED <<mp1list, late, dirty, rout>>
    BY <1>2 DEF IdInsert
  <2>2. Owned' /\ Held'
    BY <1>1, <2>1 DEF Owned, Held, Cleaned, Tracked
  <2>3. ReadSoFar'
    BY <1>1, <2>1, KeepRead
  <2>4. TypeOK' /\ Quiet'
    BY <1>1, <2>1 DEF TypeOK, Quiet
  <2> QED BY <2>2, <2>3, <2>4
<1>3. CASE ~ \E m \in Tracked : node[m].pid = node[n].pid
  <2>1. /\ mp1list' = Append(mp1list, n) /\ LinesChange /\ UNCHANGED refused
        /\ late' = IF Cleaned THEN late \cup {n} ELSE late
    BY <1>3 DEF IdInsert
  <2>2. mp1list' \in Seq(Node) /\ Tracked' = Tracked \cup {n} /\ IsInjective(mp1list')
    BY <1>1, <2>1, AppendEntries DEF TypeOK, Owned, Tracked
  <2>3. Owned' /\ Held'
    BY <1>1, <1>3, <2>1, <2>2 DEF Owned, Held, Cleaned, TypeOK
  <2>4. TypeOK'
    <3>1. dirty' \in BOOLEAN /\ rout' \in Seq(ListedRec)
      BY <2>1 DEF LinesChange
    <3> QED BY <1>1, <2>1, <2>2, <3>1 DEF TypeOK, ListedRec
  <2>5. Quiet' /\ ReadSoFar'
    BY <1>1, <2>1, ChangedRead DEF Quiet
  <2> QED BY <2>3, <2>4, <2>5
<1> QED BY <1>2, <1>3

\* A refused call frees its own node or, without the cache, leaves it behind.
LEMMA RefuseStep ==
  ASSUME TrackerInv, NEW n \in Node, IdRefuse(n)
  PROVE  TrackerInv'
<1> USE DEF TrackerInv, workVars, readVars
<1>1. /\ n \in refused /\ n \in slab \ Tracked /\ n \notin adding /\ refused' = refused \ {n}
      /\ UNCHANGED <<mp1list, adding, timer, tcb, queued, wpc, rest, utime, rpos, rout, reof,
                     dirty, epc>>
  BY DEF IdRefuse, Held
<1>2. CASE CacheAlive /\ KmemCacheFree({n}) /\ UNCHANGED oops
  <2>1. /\ slab' = slab \ {n} /\ slab' \subseteq Node /\ node' \in [Node -> EntryRec]
        /\ late' = late \ {n} /\ \A m \in Node \ {n} : node'[m] = node[m]
    BY <1>2, FreeKeeps
  <2>2. Tracked \subseteq Node \ {n} /\ Tracked' = Tracked
    BY <1>1 DEF Owned, TypeOK, Tracked
  <2>3. Owned' /\ Held'
    BY <1>1, <2>1, <2>2 DEF Owned, Held, Cleaned, TypeOK
  <2>4. ReadSoFar'
    BY <1>1, <2>1, <2>2, KeepRead
  <2>5. TypeOK' /\ Quiet'
    BY <1>1, <1>2, <2>1 DEF TypeOK, Quiet, EntryRec
  <2> QED BY <2>3, <2>4, <2>5
<1>3. CASE late' = late \cup {n} /\ oops' \in {oops, TRUE} /\ UNCHANGED <<slab, node>>
  <2>1. Owned' /\ Held'
    BY <1>1, <1>3 DEF Owned, Held, Cleaned, Tracked
  <2>2. ReadSoFar'
    BY <1>1, <1>3, KeepRead
  <2>3. oops' \in BOOLEAN
    BY <1>3 DEF TypeOK
  <2>4. TypeOK' /\ Quiet'
    BY <1>1, <1>3, <2>3 DEF TypeOK, Quiet
  <2> QED BY <2>1, <2>2, <2>4
<1> QED BY <1>2, <1>3 DEF IdRefuse

LEMMA OopsStep ==
  ASSUME TrackerInv, IdRegisterOops
  PROVE  TrackerInv'
<1> USE DEF TrackerInv, workVars, readVars
<1>1. /\ oops' = TRUE
      /\ UNCHANGED <<mp1list, slab, node, adding, refused, late, timer, tcb, queued, wpc, rest,
                     utime, rpos, rout, reof, dirty, epc>>
  BY DEF IdRegisterOops
<1>2. Owned' /\ Held' /\ Quiet'
  BY <1>1 DEF Owned, Held, Cleaned, Tracked, Quiet
<1>3. ReadSoFar' /\ oops' \in BOOLEAN
  BY <1>1, KeepRead
<1>4. TypeOK'
  BY <1>1, <1>3 DEF TypeOK
<1> QED BY <1>2, <1>3, <1>4

LEMMA OpenStep ==
  ASSUME TrackerInv, ReadOpen
  PROVE  TrackerInv'
<1> USE DEF TrackerInv, listVars, callVars, workVars
<1>1. /\ rpos' = 0 /\ rout' = << >> /\ reof' = FALSE /\ dirty' = FALSE
      /\ UNCHANGED <<mp1list, slab, node, adding, refused, oops, late, timer, tcb, queued, wpc,
                     rest, utime, epc>>
  BY DEF ReadOpen
<1>2. Owned' /\ Held' /\ Quiet'
  BY <1>1 DEF Owned, Held, Cleaned, Tracked, Quiet
<1>3. TypeOK'
  <2>1. reof' \in BOOLEAN /\ dirty' \in BOOLEAN
    BY <1>1
  <2>2. rout' \in Seq(ListedRec)
    BY <1>1
  <2> QED BY <1>1, <2>1, <2>2 DEF TypeOK, ListedRec
<1>4. Lines' = Lines /\ Len(Lines) \in Nat /\ SubSeq(Lines, 1, 0) = << >>
  BY <1>1, LinesSame, LinesType, SubSeqEmpty
<1>5. ReadSoFar'
  BY <1>1, <1>4 DEF ReadSoFar
<1> QED BY <1>2, <1>3, <1>5

LEMMA ReadStep ==
  ASSUME TrackerInv, NEW len \in ReadLen, MyRead(len)
  PROVE  TrackerInv'
<1> USE DEF TrackerInv, listVars, callVars, workVars
<1> DEFINE left == Len(Lines) - rpos
           cnt == Min({left, len})
<1>1. UNCHANGED <<mp1list, slab, node, adding, refused, oops, late, timer, tcb, queued, wpc,
                  rest, utime, dirty, epc>>
  BY DEF MyRead
<1>2. Owned' /\ Held' /\ Quiet' /\ Lines' = Lines
  BY <1>1, LinesSame DEF Owned, Held, Cleaned, Tracked, Quiet
<1>3. Lines \in Seq(ListedRec) /\ Len(Lines) \in Nat /\ rpos \in Nat /\ len \in Nat \ {0}
  BY LinesType DEF TypeOK
<1>4. CASE left <= 0
  <2>1. reof' = TRUE /\ UNCHANGED <<rpos, rout>>
    BY <1>4 DEF MyRead
  <2>2. ReadSoFar'
    BY <1>1, <1>2, <1>3, <1>4, <2>1 DEF ReadSoFar
  <2>3. reof' \in BOOLEAN
    BY <2>1
  <2> QED BY <1>1, <1>2, <2>1, <2>2, <2>3 DEF TypeOK
<1>5. CASE ~ (left <= 0)
  <2>1. /\ rpos' = rpos + cnt /\ UNCHANGED reof
        /\ rout' = IF dirty THEN rout ELSE rout \o SubSeq(Lines, rpos + 1, rpos + cnt)
    BY <1>5 DEF MyRead
  <2>2. cnt \in Nat /\ cnt <= left
    BY <1>3, <1>5, MinPair
  <2>3. reof = FALSE
    BY DEF MyRead, TypeOK
  <2> HIDE DEF cnt
  <2>4. CASE dirty
    <3>1. rout' = rout /\ ReadSoFar'
      BY <1>1, <2>1, <2>4 DEF ReadSoFar
    <3>2. rpos' \in Nat
      BY <1>3, <2>1, <2>2
    <3>3. TypeOK'
      BY <1>1, <2>1, <3>1, <3>2 DEF TypeOK
    <3> QED BY <1>2, <3>1, <3>3
  <2>5. CASE ~dirty
    <3>1. rpos \in 0 .. Len(Lines) /\ rpos + cnt \in rpos .. Len(Lines)
      BY <1>3, <2>2, <2>5 DEF ReadSoFar
    <3>2. rout' = SubSeq(Lines, 1, rpos) \o SubSeq(Lines, rpos + 1, rpos + cnt)
      BY <2>1, <2>5 DEF ReadSoFar
    <3>3. rout' = SubSeq(Lines, 1, rpos + cnt) /\ rout' \in Seq(ListedRec)
      <4>1. SubSeq(Lines, 1, rpos) \o SubSeq(Lines, rpos + 1, rpos + cnt)
              = SubSeq(Lines, 1, rpos + cnt)
        BY <1>3, <3>1, SubSeqJoin
      <4>2. SubSeq(Lines, 1, rpos + cnt) \in Seq(ListedRec)
        BY <1>3, <3>1
      <4> QED BY <3>2, <4>1, <4>2
    <3>4. ReadSoFar'
      <4>1. ~reof'
        BY <2>1, <2>3
      <4>2. rpos' <= Len(Lines') /\ rout' = SubSeq(Lines', 1, rpos')
        BY <1>2, <1>3, <2>1, <3>1, <3>3
      <4> QED BY <4>1, <4>2 DEF ReadSoFar
    <3>5. rpos' \in Nat
      BY <1>3, <2>1, <2>2
    <3> QED BY <1>1, <1>2, <2>1, <3>3, <3>4, <3>5 DEF TypeOK, ListedRec
  <2> QED BY <2>4, <2>5
<1> QED BY <1>4, <1>5

LEMMA ProcessLives ==
  ASSUME TrackerInv, NEW pid \in Pid, ProcessStep(pid)
  PROVE  TrackerInv'
<1> USE DEF TrackerInv, listVars, callVars, workVars, readVars
<1>1. UNCHANGED <<mp1list, slab, node, adding, refused, oops, late, timer, tcb, queued, wpc,
                  rest, rpos, rout, reof, dirty, epc>>
  BY DEF ProcessStep
<1>2. utime' \in [Pid -> 0 .. MaxTime \cup {NULL}]
  <2>1. utime \in [Pid -> 0 .. MaxTime \cup {NULL}]
    BY DEF TypeOK
  <2>2. PICK t : /\ utime' = [utime EXCEPT ![pid] = t]
                 /\ \/ t = NULL \/ t = 0
                    \/ utime[pid] # NULL /\ utime[pid] < MaxTime /\ t = utime[pid] + 1
    BY DEF ProcessStep
  <2>3. t \in 0 .. MaxTime \cup {NULL}
    BY <2>1, <2>2
  <2> QED BY <2>1, <2>2, <2>3
<1>3. ReadSoFar'
  BY <1>1, KeepRead
<1>4. Owned' /\ Held' /\ Quiet'
  BY <1>1 DEF Owned, Held, Cleaned, Tracked, Quiet
<1>5. TypeOK'
  BY <1>1, <1>2 DEF TypeOK
<1> QED BY <1>3, <1>4, <1>5

-----------------------------------------------------------------------------
(* Unloading.                                                              *)

LEMMA CleanStep ==
  ASSUME TrackerInv, ExitClean
  PROVE  TrackerInv'
<1> USE DEF TrackerInv, workVars
<1>1. /\ wpc # "scan" /\ mp1list' = << >> /\ KmemCacheFree(Tracked) /\ LinesChange
      /\ epc = "clean" /\ epc' = "destroy"
      /\ UNCHANGED <<adding, refused, oops, timer, tcb, queued, wpc, rest, utime, rpos, reof>>
  BY DEF ExitClean, ExitMove, MutexFree, callVars
<1>2. Tracked \in SUBSET Node
  BY DEF TypeOK, Owned
<1>3. /\ slab' = slab \ Tracked /\ slab' \subseteq Node /\ node' \in [Node -> EntryRec]
      /\ late' = late \ Tracked
      /\ \A n \in Node \ Tracked : node'[n] = node[n]
  BY <1>1, <1>2, FreeKeeps
<1>4. Owned' /\ Held'
  <2>1. Tracked' = {} /\ IsInjective(mp1list') /\ rest = << >> /\ Range(rest) = {}
    BY <1>1 DEF Tracked, Range, IsInjective, Owned
  <2> QED BY <1>1, <1>3, <2>1 DEF Owned, Held, TypeOK
<1>5. TypeOK'
  <2>1. dirty' \in BOOLEAN /\ rout' \in Seq(ListedRec) /\ mp1list' \in Seq(Node)
    BY <1>1 DEF LinesChange
  <2> QED BY <1>1, <1>3, <2>1 DEF TypeOK, EntryRec, ListedRec
<1>6. Quiet' /\ ReadSoFar'
  BY <1>1, ChangedRead DEF Quiet
<1> QED BY <1>4, <1>5, <1>6

LEMMA ExitStep ==
  ASSUME TrackerInv, ModuleExit
  PROVE  TrackerInv'
<1> USE DEF TrackerInv, listVars, callVars, workVars, ExitMove
<1>1. CASE ExitClean
  BY <1>1, CleanStep
<1>2. CASE ExitBegin \/ ExitDelTimer \/ ExitFlush \/ ExitDestroy \/ ExitProcRemove
  <2>1. UNCHANGED <<mp1list, slab, node, adding, refused, oops, late, queued, wpc, rest, utime,
                    rpos, rout, reof, dirty, tcb>>
    BY <1>2 DEF ExitBegin, ExitDelTimer, ExitFlush, ExitDestroy, ExitProcRemove
  <2>2. Quiet'
    BY <1>2 DEF ExitBegin, ExitDelTimer, ExitFlush, ExitDestroy, ExitProcRemove, Quiet
  <2>3. TypeOK'
    BY <1>2, <2>1 DEF ExitBegin, ExitDelTimer, ExitFlush, ExitDestroy, ExitProcRemove, TypeOK
  <2>4. Owned' /\ ReadSoFar'
    BY <2>1, KeepRead DEF Owned, Tracked
  <2>5. Cleaned' = Cleaned
    BY <1>2 DEF ExitBegin, ExitDelTimer, ExitFlush, ExitDestroy, ExitProcRemove, Cleaned
  <2>6. epc' = "gone" => adding = {} /\ refused = {}
    BY <1>2 DEF ExitBegin, ExitDelTimer, ExitFlush, ExitDestroy, ExitProcRemove
  <2>7. Held'
    BY <2>1, <2>5, <2>6 DEF Held, Tracked
  <2> QED BY <2>2, <2>3, <2>4, <2>7
<1> QED BY <1>1, <1>2 DEF ModuleExit

LEMMA TrackerStep == TrackerInv /\ [Next]_vars => TrackerInv'
<1> SUFFICES ASSUME TrackerInv, [Next]_vars PROVE TrackerInv'
  OBVIOUS
<1>1. CASE UNCHANGED vars
  <2>1. ReadSoFar'
    BY <1>1, KeepRead DEF vars, TrackerInv
  <2>2. Owned' /\ Held' /\ Quiet'
    BY <1>1 DEF vars, TrackerInv, Owned, Held, Cleaned, Tracked, Quiet
  <2>3. TypeOK'
    BY <1>1 DEF vars, TrackerInv, TypeOK
  <2> QED BY <2>1, <2>2, <2>3 DEF TrackerInv
<1>2. CASE Next
  BY <1>2, TimerStep, WorkControl, UpdateStep, ReapStep, RegisterStep, OopsStep, InsertStep,
     RefuseStep, OpenStep, ReadStep, ProcessLives, ExitStep
  DEF Next, Worker
<1> QED BY <1>1, <1>2

-----------------------------------------------------------------------------

\* The invariant behind the properties of the tracker holds in every state.
THEOREM TrackerInvariant == Spec => []TrackerInv
BY TrackerInit, TrackerStep, PTL DEF Spec

\* For any number of processes and nodes, every variable of mp1.c keeps its type.
THEOREM TrackerTypes == Spec => []TypeOK
BY TrackerInvariant, PTL DEF TrackerInv

\* For any number of processes and nodes, work_func(), idregister() and
\* cleanuplist() leave only allocated nodes in the list and in a scan, and
\* never list a pid twice.
THEOREM ListSafety == Spec => []TrackedSafely
<1>1. TrackerInv => TrackedSafely
  <2> SUFFICES ASSUME TrackerInv PROVE TrackedSafely
    OBVIOUS
  <2>1. ASSUME NEW i \in DOMAIN mp1list, NEW j \in DOMAIN mp1list,
               node[mp1list[i]].pid = node[mp1list[j]].pid
        PROVE  i = j
    <3>1. mp1list[i] \in Tracked /\ mp1list[j] \in Tracked
      BY DEF Tracked, Range
    <3>2. mp1list[i] = mp1list[j]
      BY <2>1, <3>1 DEF TrackerInv, Owned
    <3> QED BY <3>2 DEF TrackerInv, Owned, IsInjective
  <2> QED BY <2>1 DEF TrackedSafely, TrackerInv, Owned
<1> QED BY <1>1, TrackerInvariant, PTL

\* test_module_exit(): after del_timer_sync() and flush_work() nothing
\* asynchronous is armed, pending or running, whatever raced with them.
THEOREM QuietTeardown == Spec => []QuietAfterTeardown
<1>1. TrackerInv => QuietAfterTeardown
  BY DEF TrackerInv, Quiet, QuietAfterTeardown
<1> QED BY <1>1, TrackerInvariant, PTL

\* test_module_exit(): when the module is gone, every node has been freed but
\* those of the calls that got in between cleanuplist() and proc_remove().
THEOREM UnloadFrees == Spec => []UnloadFreesAll
<1>1. TrackerInv => UnloadFreesAll
  BY DEF TrackerInv, Held, Cleaned, UnloadFreesAll
<1> QED BY <1>1, TrackerInvariant, PTL

\* my_read(): a reader that sees end of file with no line changed meanwhile
\* has the whole file, for every way to split the file into reads.
THEOREM ReadersGetTheFile == Spec => []ReadIsSnapshot
<1>1. TrackerInv => ReadIsSnapshot
  <2> SUFFICES ASSUME TrackerInv, reof, ~dirty PROVE rout = Lines
    BY DEF ReadIsSnapshot
  <2>1. Lines \in Seq(ListedRec)
    BY LinesType DEF TrackerInv
  <2>2. rout = SubSeq(Lines, 1, Len(Lines))
    BY DEF TrackerInv, ReadSoFar
  <2> QED BY <2>1, <2>2
<1> QED BY <1>1, TrackerInvariant, PTL
=============================================================================
