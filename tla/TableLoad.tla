----------------------------- MODULE TableLoad -----------------------------
(***************************************************************************)
(* How the table gets to disk and how a process opens it.  One thread puts *)
(* the rows of the keys 0, 1, ... into pages, in order, and enters each in *)
(* the index (ycsb_wl::init_table, Gen_DB_single_thread of test/gen_db);   *)
(* a page that has no room for another row is written and its buffer is    *)
(* used again, uncleared, for the next page.  The index is then written to *)
(* a file, and every process that opens the table reads it back            *)
(* (Index::Serialize, Index::DeSerialize), both in pieces of a fixed size. *)
(*                                                                         *)
(* Sizes are those of the code divided by a common unit.  A row is its key *)
(* and its version, the first and the last 8 bytes of the tuple; a page    *)
(* buffer is the header that Page::Serialize writes and, for each location *)
(* a row may start at, that row.                                           *)
(*                                                                         *)
(* An operator whose name ends in Mut is the next one with a fault in it;  *)
(* no specification uses it.                                               *)
(***************************************************************************)
EXTENDS Integers, Sequences, FiniteSets

CONSTANTS
  Header,      \* 64, the bytes of a page before its first row
  TupleSize,   \* bytes of a row
  PageSize,    \* MY_PAGE_SIZE
  NumKeys,     \* g_synth_table_size, the number of rows
  Chunk,       \* index items in a piece (524280 bytes of 24)
  HashOrder    \* the order in which the index's hash map lists its keys

Key == 0 .. NumKeys - 1

ASSUME SizeAssumption ==
  /\ Header \in Nat /\ TupleSize \in Nat \ {0} /\ PageSize \in Nat /\ NumKeys \in Nat
  /\ Header + TupleSize <= PageSize
ASSUME ChunkAssumption == Chunk \in Nat \ {0}
ASSUME OrderAssumption ==
  /\ HashOrder \in Seq(Key) /\ Len(HashOrder) = NumKeys
  /\ {HashOrder[i] : i \in 1 .. NumKeys} = Key

NoKey == -1   \* what bytes that hold no row have for a key
Location == 0 .. PageSize - 1
Row == [key : Key \cup {NoKey}, version : Nat]
NoRow == [key |-> NoKey, version |-> 0]
PageBuf == [page_id : Nat, used_size : Nat, row : [Location -> Row]]
IndexItem == [page_id : Nat, page_location : Nat]

VARIABLES
  phase,          \* what the loading, and later the opening, process does
  key,            \* the key of the next row to load
  page,           \* the Page object that rows are put into
  last_page_id,   \* TableSpace::last_page_id_
  index,          \* Index::index_, a function on the keys it holds
  disk,           \* the pages in the table files
  file,           \* the index file: the size in its header, and its items
  buf,            \* items that Serialize holds back until a piece is full
  offset          \* items that DeSerialize has read

loadVars == <<phase, key, page, last_page_id, index, disk, file, buf, offset>>

-----------------------------------------------------------------------------
Put(f, x, v) == [y \in DOMAIN f \cup {x} |-> IF y = x THEN v ELSE f[y]]

\* Page::Serialize: the page's fields go into the header of its buffer.
Serialize(pg) == [pg.page_buf EXCEPT !.page_id = pg.page_id, !.used_size = pg.used_size]

\* Page::PagePut
PagePut(pg, r) ==
  [pg EXCEPT !.page_buf.row[pg.used_size] = r, !.used_size = @ + TupleSize]

\* A new buffer is not initialised; no row of it is read before it is written.
NewPageBuf == [page_id |-> 0, used_size |-> 0, row |-> [l \in Location |-> NoRow]]

LoadInit ==
  /\ phase = "load" /\ key = 0 /\ last_page_id = 0
  /\ page = [page_id |-> 0, used_size |-> Header, page_buf |-> NewPageBuf]
  /\ index = <<>> /\ disk = <<>>
  /\ file = [size |-> 0, item |-> <<>>] /\ buf = <<>> /\ offset = 0

FullMut == TupleSize >= PageSize - page.used_size
Full == TupleSize > PageSize - page.used_size

\* The row does not fit: the page is written and the next page begins.
NextPage ==
  /\ phase = "load" /\ key < NumKeys /\ Full
  /\ disk' = Put(disk, page.page_id, Serialize(page))
  /\ last_page_id' = last_page_id + 1
  /\ page' = [page_id |-> last_page_id + 1, used_size |-> Header, page_buf |-> Serialize(page)]
  /\ UNCHANGED <<phase, key, index, file, buf, offset>>

PutRowMut ==
  /\ phase = "load" /\ key <= NumKeys /\ ~Full
  /\ page' = PagePut(page, [key |-> key, version |-> 0])
  /\ index' = Put(index, key, [page_id |-> page.page_id,
                               page_location |-> page'.used_size - TupleSize])
  /\ key' = key + 1
  /\ UNCHANGED <<phase, last_page_id, disk, file, buf, offset>>
PutRow ==
  /\ phase = "load" /\ key < NumKeys /\ ~Full
  /\ page' = PagePut(page, [key |-> key, version |-> 0])
  /\ index' = Put(index, key, [page_id |-> page.page_id,
                               page_location |-> page'.used_size - TupleSize])
  /\ key' = key + 1
  /\ UNCHANGED <<phase, last_page_id, disk, file, buf, offset>>

\* The index file as Serialize begins it.
NewFile == [size |-> Cardinality(DOMAIN index), item |-> <<>>]

LastPage ==
  /\ phase = "load" /\ key = NumKeys
  /\ disk' = IF page.used_size > Header THEN Put(disk, page.page_id, Serialize(page)) ELSE disk
  /\ file' = NewFile
  /\ phase' = "serialize"
  /\ UNCHANGED <<key, page, last_page_id, index, buf, offset>>

\* One turn of Serialize's loop: a full piece is written before the item goes in.
SerializeItemMut ==
  LET i == Len(file.item) + Len(buf) + 1
      item == [key |-> HashOrder[i], at |-> index[HashOrder[i]]]
  IN  /\ phase = "serialize" /\ i <= Cardinality(DOMAIN index)
      /\ \/ Len(buf) = Chunk /\ file' = [file EXCEPT !.item = @ \o buf] /\ buf' = Append(buf, item)
         \/ Len(buf) # Chunk /\ file' = file /\ buf' = Append(buf, item)
      /\ UNCHANGED <<phase, key, page, last_page_id, index, disk, offset>>
SerializeItem ==
  LET i == Len(file.item) + Len(buf) + 1
      item == [key |-> HashOrder[i], at |-> index[HashOrder[i]]]
  IN  /\ phase = "serialize" /\ i <= Cardinality(DOMAIN index)
      /\ \/ Len(buf) = Chunk /\ file' = [file EXCEPT !.item = @ \o buf] /\ buf' = <<item>>
         \/ Len(buf) # Chunk /\ file' = file /\ buf' = Append(buf, item)
      /\ UNCHANGED <<phase, key, page, last_page_id, index, disk, offset>>

\* What is left is written; the index is deleted with its process.
SerializeEnd ==
  /\ phase = "serialize" /\ Len(file.item) + Len(buf) = Cardinality(DOMAIN index)
  /\ file' = [file EXCEPT !.item = @ \o buf]
  /\ buf' = <<>> /\ offset' = 0 /\ index' = <<>>
  /\ phase' = "open"
  /\ UNCHANGED <<key, page, last_page_id, disk>>

\* One turn of DeSerialize's loop: the items of the next piece.
Piece ==
  SubSeq(file.item, offset + 1,
         offset + (IF offset + Chunk <= file.size THEN Chunk ELSE file.size - offset))

DeSerialize ==
  /\ phase = "open" /\ offset < file.size
  /\ index' = [k \in DOMAIN index \cup {Piece[i].key : i \in DOMAIN Piece} |->
                IF \E i \in DOMAIN Piece : Piece[i].key = k
                THEN LET i == CHOOSE i \in DOMAIN Piece : Piece[i].key = k IN Piece[i].at
                ELSE index[k]]
  /\ offset' = offset + Len(Piece)
  /\ UNCHANGED <<phase, key, page, last_page_id, disk, file, buf>>

Load == NextPage \/ PutRow \/ LastPage \/ SerializeItem \/ SerializeEnd \/ DeSerialize
=============================================================================
