------------------------------ MODULE LinkMap ------------------------------
(***************************************************************************)
(* fetchHardLink() of mkfs.c: the map from host files to inodes, and what  *)
(* it has to do with the inode numbers given to the names of the files.    *)
(* A map is a sequence of nodes [host, ino, remain]; gave[h] are the       *)
(* numbers the names of file h were given, in order.                       *)
(***************************************************************************)
EXTENDS Lists

\* A file found at position k: one name less remains.  A node that is used up
\* is unlinked; as the first node it takes the whole list with it.
use_link(map, k) ==
  LET left == map[k].remain - 1
  IN  IF left # 0 THEN [map EXCEPT ![k].remain = left]
      ELSE IF k = 1 THEN <<>> ELSE DelAt(map, k)

\* The files whose nodes are lost with the list.
lost_links(map, k) ==
  {map[j].host : j \in IF map[k].remain = 1 /\ k = 1 THEN 2 .. Len(map) ELSE {}}

\* Mutants: the first name is not taken off the links that remain; the number
\* is read after ialloc has moved freeinode on.
new_link_all(map, h, ino, nlink) ==
  IF nlink = 0 THEN map ELSE Append(map, [host |-> h, ino |-> ino, remain |-> nlink])
new_link_late(map, h, ino, nlink) ==
  IF nlink = 0 THEN map ELSE Append(map, [host |-> h, ino |-> ino + 1, remain |-> nlink - 1])

\* A file not in the map, with its new inode and its st_nlink; with st_nlink = 0
\* fetchHardLink is not called.
new_link(map, h, ino, nlink) ==
  IF nlink = 0 THEN map
  ELSE Append(map, [host |-> h, ino |-> ino, remain |-> nlink - 1])

\* History: one more name of h.
give_name(gave, h, ino) == [gave EXCEPT ![h] = Append(@, ino)]

---------------------------------------------------------------------------
(* What the map says of the names: nlink[h] is st_nlink, drop holds the    *)
(* files whose nodes were lost, free is the next free inode.               *)

LinkNode(files) == [host : files, ino : Nat, remain : Int]

LinkTypes(files, map, gave, free) ==
  free \in Nat /\ gave \in [files -> Seq(0 .. free - 1)] /\ map \in Seq(LinkNode(files))

\* A node holds a number its file was given, and a file has at most one node.
NodesNamed(map, gave) ==
  /\ \A k \in DOMAIN map : map[k].ino \in Range(gave[map[k].host])
  /\ \A j, k \in DOMAIN map : map[j].host = map[k].host => j = k

\* Different files never share a number.
FilesApart(files, gave) ==
  \A g, h \in files : g # h => Range(gave[g]) \cap Range(gave[h]) = {}

\* All names of h have one number.  While h is in the map its node says how many
\* names are to come; when it has left the map none is.
Counted(nlink, map, gave, h) ==
  /\ \A x, y \in Range(gave[h]) : x = y
  /\ \A k \in DOMAIN map : map[k].host = h => Len(gave[h]) + map[k].remain = nlink[h]
  /\ Len(gave[h]) > 0 /\ (\A k \in DOMAIN map : map[k].host # h) => Len(gave[h]) >= nlink[h]

LinksAgree(files, nlink, map, gave, drop, free) ==
  /\ LinkTypes(files, map, gave, free) /\ NodesNamed(map, gave) /\ FilesApart(files, gave)
  /\ \A h \in files \ drop : Counted(nlink, map, gave, h)
=============================================================================
