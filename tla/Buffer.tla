------------------------------- MODULE Buffer -------------------------------
(***************************************************************************)
(* The page buffer of a process (common/buffer): page_num_ nodes, each on  *)
(* one of two doubly linked lists (LRU), and an index from page ids to the *)
(* nodes of page_list_ (LruIndex).  The operators are the functions of the *)
(* code on a record that holds all of it,                                  *)
(*                                                                         *)
(*   head, tail, size   of each list;  prev, next   of each node           *)
(*   id, data           of each node: the id and the buffer of its Page    *)
(*   index              LruIndex::lru_map_, a function on the pages it has *)
(*                                                                         *)
(* and, where a function reads or writes the disk, on the disk as well.    *)
(* LRU::Get has an empty body: a hit does not move the node, so pages      *)
(* leave the buffer in the order in which they came.                       *)
(*                                                                         *)
(* An operator whose name ends in Mut is the next one with a fault in it;  *)
(* no specification uses it.                                               *)
(***************************************************************************)
EXTENDS Integers, Sequences

CONSTANT Share   \* 5: a full buffer writes back one in Share of its nodes
ASSUME ShareAssumption == Share \in Nat \ {0}

Null == 0              \* nullptr; the nodes are 1, 2, ...
NoPage == -1           \* UINT64_MAX, the page id of a free node
PageList == "page_list_"
FreeList == "free_list_"

\* f with f[x] = v, also for an x it had no value for
IndexPut(f, x, v) == [y \in DOMAIN f \cup {x} |-> IF y = x THEN v ELSE f[y]]
IndexDelete(f, x) == [y \in DOMAIN f \ {x} |-> f[y]]

-----------------------------------------------------------------------------
\* LRU
Prepend(b, l, n) ==
  LET h == b.head[l]
  IN  [b EXCEPT !.next[n] = h,
                !.prev = IF h = Null THEN @ ELSE [@ EXCEPT ![h] = n],
                !.tail[l] = IF h = Null THEN n ELSE @,
                !.head[l] = n,
                !.size[l] = @ + 1]

\* The node that Popback returns is b.tail[l].
PopbackMut(b, l) ==
  LET n == b.tail[l]
      p == b.prev[n]
  IN  IF p = Null
      THEN [b EXCEPT !.head[l] = Null, !.tail[l] = Null, !.size[l] = @ - 1]
      ELSE [b EXCEPT !.tail[l] = p, !.next[p] = Null, !.size[l] = @ - 1]
Popback(b, l) ==
  LET n == b.tail[l]
      p == b.prev[n]
  IN  IF p = Null
      THEN [b EXCEPT !.head[l] = Null, !.tail[l] = Null, !.size[l] = @ - 1]
      ELSE [b EXCEPT !.tail[l] = p, !.next[p] = Null, !.prev[n] = Null, !.size[l] = @ - 1]

\* The nodes of a list from its head, as far as next_ leads.
Nodes(b, l) ==
  LET from[i \in 0 .. b.size[l]] ==
        IF i = 0 THEN <<>>
        ELSE LET n == IF i = 1 THEN b.head[l] ELSE b.next[from[i - 1][i - 1]]
             IN  Append(from[i - 1], n)
  IN  from[b.size[l]]

\* The assertions of LRU::Check.
Check(b, l) ==
  LET s == Nodes(b, l)
      m == Len(s)
  IN  /\ m = 0 => b.head[l] = Null /\ b.tail[l] = Null
      /\ m > 0 => /\ b.prev[s[1]] = Null /\ s[m] = b.tail[l] /\ b.next[s[m]] = Null
                  /\ \A i \in 2 .. m : s[i] # Null /\ b.prev[s[i]] = s[i - 1]

-----------------------------------------------------------------------------
\* Buffer::Buffer, with page_num_ = n: every node goes to free_list_.
NewBuffer(n, empty) ==
  LET none == [l \in {PageList, FreeList} |-> Null]
      bare == [head |-> none, tail |-> none, size |-> [l \in {PageList, FreeList} |-> 0],
               prev |-> [i \in 1 .. n |-> Null], next |-> [i \in 1 .. n |-> Null],
               id |-> [i \in 1 .. n |-> NoPage], data |-> [i \in 1 .. n |-> empty],
               index |-> <<>>]
      filled[i \in 0 .. n] == IF i = 0 THEN bare ELSE Prepend(filled[i - 1], FreeList, i)
  IN  filled[n]

PageNum(b) == Len(b.id)

SizeAssert(b) == b.size[PageList] + b.size[FreeList] = PageNum(b)

\* The body of the loops of FlushPageList and FlushALl: the last node is written back.
FlushNodeMut(s) ==
  LET n == s.pool.tail[PageList]
      id == s.pool.id[n]
      freed == [Popback(s.pool, PageList) EXCEPT !.id[n] = NoPage, !.index = IndexDelete(@, id)]
  IN  [pool |-> Prepend(freed, FreeList, n), disk |-> s.disk]
FlushNode(s) ==
  LET n == s.pool.tail[PageList]
      id == s.pool.id[n]
      freed == [Popback(s.pool, PageList) EXCEPT !.id[n] = NoPage, !.index = IndexDelete(@, id)]
  IN  [pool |-> Prepend(freed, FreeList, n), disk |-> IndexPut(s.disk, id, s.pool.data[n])]

FlushTimes(s, m) ==
  LET after[i \in 0 .. m] == IF i = 0 THEN s ELSE FlushNode(after[i - 1])
  IN  after[m]

FlushPageList(s) == FlushTimes(s, PageNum(s.pool) \div Share)

FlushALl(s) == FlushTimes(s, s.pool.size[PageList])

FreeListToPageListMut(s, id, content) ==
  LET n == s.pool.tail[FreeList]
  IN  [s EXCEPT !.pool = [Popback(s.pool, FreeList) EXCEPT
                            !.id[n] = id, !.data[n] = content, !.index = IndexPut(@, id, n)]]
FreeListToPageList(s, id, content) ==
  LET n == s.pool.tail[FreeList]
      taken == [Popback(s.pool, FreeList) EXCEPT !.id[n] = id, !.data[n] = content,
                                                 !.index = IndexPut(@, id, n)]
  IN  [s EXCEPT !.pool = Prepend(taken, PageList, n)]

\* What BufferGet and BufferPut assert under mutex_ for a page that is not indexed ...
InsertAssert(b) ==
  \/ b.size[FreeList] > 0 /\ b.size[PageList] < PageNum(b)
  \/ b.size[FreeList] = 0 /\ b.size[PageList] = PageNum(b) /\ PageNum(b) \div Share > 0

\* ... and what they do if it holds; otherwise the process stops.
Insert(s, id, content) ==
  IF InsertAssert(s.pool)
  THEN FreeListToPageList(IF s.pool.size[FreeList] = 0 THEN FlushPageList(s) ELSE s, id, content)
  ELSE s

Hit(b, id) == id \in DOMAIN b.index

\* BufferGetWithLock and BufferPutWithLock hold mutex_ throughout.
Fetched(s, id) == IF Hit(s.pool, id) THEN s.pool.data[s.pool.index[id]] ELSE s.disk[id]

GetWithLock(s, id) == IF Hit(s.pool, id) THEN s ELSE Insert(s, id, s.disk[id])

PutWithLock(s, id, content) ==
  IF Hit(s.pool, id) THEN [s EXCEPT !.pool.data[s.pool.index[id]] = content]
  ELSE Insert(s, id, content)
=============================================================================
