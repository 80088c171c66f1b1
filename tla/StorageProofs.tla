--------------------------- MODULE StorageProofs ---------------------------
(***************************************************************************)
(* Proofs about the table of Storage, for every size of a page, a row and  *)
(* a piece of the index file, and every number of rows: a page that is     *)
(* full has as many rows as fit (UsedSize), and the index that a process   *)
(* reads back gives every key the place that the page layout gives it,     *)
(* however often the table is closed and opened again (IndexRead).         *)
(*                                                                         *)
(* TableInv is inductive.  Neither the buffer nor the disk occurs in it:   *)
(* the steps that use them leave the variables of the table alone.         *)
(***************************************************************************)
EXTENDS Storage, FiniteSetTheorems, TLAPS

Item == [key : Key, at : IndexItem]
ItemFor(i) == [key |-> HashOrder[i], at |-> Place(HashOrder[i])]

\* The index has the items of the keys in S, and no others.
Indexed(S) == index \in [S -> IndexItem] /\ \A k \in S : index[k] = Place(k)

\* While the table is loaded: there are m rows in the page that rows go into,
\* and every earlier page is full.
Loading ==
  /\ page \in [page_id : Nat, used_size : Nat, page_buf : PageBuf]
  /\ page.page_id = last_page_id
  /\ \E m \in 0 .. RowsPerPage : /\ page.used_size = Header + m * TupleSize
                                 /\ key = page.page_id * RowsPerPage + m
  /\ Indexed(0 .. key - 1)
  /\ buf = <<>>

\* The file holds the first items of the hash map's order, the piece not yet
\* written holds those that follow.
Serializing ==
  /\ Indexed(Key)
  /\ file.size = NumKeys
  /\ Len(file.item) + Len(buf) <= NumKeys
  /\ \A i \in 1 .. Len(file.item) : file.item[i] = ItemFor(i)
  /\ \A i \in 1 .. Len(buf) : buf[i] = ItemFor(Len(file.item) + i)

\* The index has the items read so far.
Opening ==
  /\ file.size = NumKeys /\ Len(file.item) = NumKeys
  /\ \A i \in 1 .. NumKeys : file.item[i] = ItemFor(i)
  /\ offset \in 0 .. NumKeys
  /\ Indexed({HashOrder[i] : i \in 1 .. offset})
  /\ buf = <<>>

TableInv ==
  /\ phase \in {"load", "serialize", "open", "run"}
  /\ key \in 0 .. NumKeys
  /\ file \in [size : Nat, item : Seq(Item)] /\ buf \in Seq(Item)
  /\ phase = "load" => Loading
  /\ phase = "serialize" => Serializing
  /\ phase = "open" => Opening
  /\ phase = "run" => Indexed(Key) /\ buf = <<>>

-----------------------------------------------------------------------------
(***************************************************************************)
(* The arithmetic of the page layout.                                      *)
(***************************************************************************)
LEMMA DivFacts ==
  ASSUME NEW a \in Nat, NEW b \in Nat \ {0}
  PROVE  /\ a \div b \in Nat /\ a % b \in 0 .. b - 1
         /\ a = b * (a \div b) + (a % b)
  BY SMT

LEMMA DivUnique ==
  ASSUME NEW b \in Nat \ {0}, NEW q \in Nat, NEW r \in 0 .. b - 1
  PROVE  (q * b + r) \div b = q /\ (q * b + r) % b = r
  BY SMT

\* At least one row fits into a page, and no more than RowsPerPage do.
LEMMA PageLayout ==
  /\ RowsPerPage \in Nat \ {0}
  /\ Header + RowsPerPage * TupleSize <= PageSize
  /\ PageSize < Header + (RowsPerPage + 1) * TupleSize
  BY DivFacts, SizeAssumption, SMT DEF RowsPerPage

\* The place of the row that is the m-th (from 0) of page p.
LEMMA PlaceOf ==
  ASSUME NEW p \in Nat, NEW m \in 0 .. RowsPerPage - 1
  PROVE  /\ p * RowsPerPage + m \in Nat
         /\ Place(p * RowsPerPage + m) = [page_id |-> p, page_location |-> Header + m * TupleSize]
<1>1. RowsPerPage \in Nat \ {0}
  BY PageLayout
<1> HIDE DEF RowsPerPage
<1>2. (p * RowsPerPage + m) \div RowsPerPage = p /\ (p * RowsPerPage + m) % RowsPerPage = m
  BY <1>1, DivUnique
<1>3. p * RowsPerPage + m \in Nat
  BY <1>1, SMT
<1> QED
  BY <1>2, <1>3 DEF Place

LEMMA PlaceType ==
  ASSUME NEW k \in Nat
  PROVE  Place(k) \in IndexItem
<1>1. RowsPerPage \in Nat \ {0}
  BY PageLayout
<1>2. k \div RowsPerPage \in Nat /\ k % RowsPerPage \in 0 .. RowsPerPage - 1
  BY <1>1, DivFacts
<1>3. k % RowsPerPage \in Nat
  BY <1>1, <1>2, SMT
<1>4. \A n \in Nat : Header + n * TupleSize \in Nat
  BY SizeAssumption, SMT
<1> QED
  BY <1>2, <1>3, <1>4 DEF Place, IndexItem

\* A page with m rows is full exactly if m is RowsPerPage.
LEMMA RoomFor ==
  ASSUME NEW m \in 0 .. RowsPerPage
  PROVE  /\ Header + m * TupleSize \in Nat
         /\ (TupleSize > PageSize - (Header + m * TupleSize)) <=> m = RowsPerPage
<1>1. /\ RowsPerPage \in Nat \ {0} /\ Header + RowsPerPage * TupleSize <= PageSize
      /\ PageSize < Header + (RowsPerPage + 1) * TupleSize
  BY PageLayout
<1>2. /\ m \in Nat /\ m * TupleSize \in Nat /\ RowsPerPage * TupleSize \in Nat
      /\ (RowsPerPage + 1) * TupleSize = RowsPerPage * TupleSize + TupleSize
  BY <1>1, SizeAssumption, SMT
<1>3. CASE m = RowsPerPage
  BY <1>1, <1>2, <1>3, SizeAssumption, SMT
<1>4. CASE m < RowsPerPage
  <2>1. (m + 1) * TupleSize <= RowsPerPage * TupleSize
    BY <1>1, <1>2, <1>4, SizeAssumption, SMT
  <2>2. (m + 1) * TupleSize = m * TupleSize + TupleSize
    BY <1>2, <1>1, SizeAssumption, SMT
  <2> QED
    BY <2>1, <2>2, <1>1, <1>2, <1>4, SizeAssumption, SMT
<1> QED
  BY <1>1, <1>3, <1>4, SMT

\* PutRow and NextPage move between pages as the layout of the keys does.
LEMMA KeyCount ==
  ASSUME NEW p \in Nat
  PROVE  p * RowsPerPage + RowsPerPage = (p + 1) * RowsPerPage + 0
  BY PageLayout, SMT

LEMMA KeyNat == Key \subseteq Nat
  BY SizeAssumption, SMT DEF Key

LEMMA HashOrderType == \A i \in 1 .. NumKeys : HashOrder[i] \in Key
  BY OrderAssumption, SMT

LEMMA ItemForType ==
  ASSUME NEW i \in 1 .. NumKeys
  PROVE  ItemFor(i) \in Item
  BY HashOrderType, KeyNat, PlaceType DEF ItemFor, Item

-----------------------------------------------------------------------------
(***************************************************************************)
(* TableInv holds at first, and every step preserves it.                   *)
(***************************************************************************)
LEMMA TableInit == Init => TableInv
<1> SUFFICES ASSUME Init PROVE TableInv
  OBVIOUS
<1> USE DEF Init, LoadInit
<1>1. NewPageBuf \in PageBuf
  BY DEF NewPageBuf, PageBuf, NoRow, Row
<1>2. page \in [page_id : Nat, used_size : Nat, page_buf : PageBuf] /\ page.page_id = last_page_id
  BY <1>1, SizeAssumption
<1>3. 0 \in 0 .. RowsPerPage /\ page.used_size = Header + 0 * TupleSize
      /\ key = page.page_id * RowsPerPage + 0
  BY PageLayout, SizeAssumption, SMT
<1>4. 0 .. key - 1 = {}
  BY SMT
<1>5. Indexed(0 .. key - 1)
  BY <1>4, SMT DEF Indexed
<1>6. Loading
  BY <1>2, <1>3, <1>5 DEF Loading
<1> QED
  BY <1>6, SizeAssumption, SMT DEF TableInv

LEMMA NextPageStep ==
  ASSUME TableInv, NextPage
  PROVE  TableInv'
<1>1. Loading /\ phase = "load"
  BY DEF TableInv, NextPage
<1>2. PICK m \in 0 .. RowsPerPage : /\ page.used_size = Header + m * TupleSize
                                    /\ key = page.page_id * RowsPerPage + m
  BY <1>1 DEF Loading
<1>3. m = RowsPerPage
  BY <1>2, RoomFor DEF NextPage, Full
<1>4. page.page_id \in Nat /\ last_page_id = page.page_id
  BY <1>1 DEF Loading
<1>5. Serialize(page) \in PageBuf
  BY <1>1 DEF Loading, Serialize, PageBuf
<1>6. /\ page' \in [page_id : Nat, used_size : Nat, page_buf : PageBuf]
      /\ page'.page_id = last_page_id' /\ page'.page_id = page.page_id + 1
      /\ page'.used_size = Header
  BY <1>4, <1>5, SizeAssumption DEF NextPage
<1>7. /\ 0 \in 0 .. RowsPerPage /\ page'.used_size = Header + 0 * TupleSize
      /\ key' = page'.page_id * RowsPerPage + 0
  BY <1>2, <1>3, <1>4, <1>6, KeyCount, PageLayout, SizeAssumption, SMT DEF NextPage
<1>8. Indexed(0 .. key - 1)' /\ buf' = <<>>
  BY <1>1 DEF NextPage, Loading, Indexed
<1>9. Loading'
  BY <1>6, <1>7, <1>8 DEF Loading
<1> QED
  BY <1>1, <1>9 DEF TableInv, NextPage

LEMMA PutRowStep ==
  ASSUME TableInv, PutRow
  PROVE  TableInv'
<1>1. Loading /\ phase = "load" /\ key \in 0 .. NumKeys /\ key < NumKeys
  BY DEF TableInv, PutRow
<1>2. PICK m \in 0 .. RowsPerPage : /\ page.used_size = Header + m * TupleSize
                                    /\ key = page.page_id * RowsPerPage + m
  BY <1>1 DEF Loading
<1>3. m # RowsPerPage
  BY <1>2, RoomFor DEF PutRow, Full
<1>4. RowsPerPage \in Nat \ {0} /\ m \in Nat /\ m \in 0 .. RowsPerPage - 1 /\ m + 1 \in 0 .. RowsPerPage
  BY <1>3, PageLayout, SMT
<1>5. page \in [page_id : Nat, used_size : Nat, page_buf : PageBuf] /\ page.page_id = last_page_id
  BY <1>1 DEF Loading
<1>6. Place(key) = [page_id |-> page.page_id, page_location |-> Header + m * TupleSize]
  BY <1>2, <1>4, <1>5, PlaceOf
<1>7. key \in Key /\ key \in Nat
  BY <1>1, SizeAssumption, SMT DEF Key
<1>8. [key |-> key, version |-> 0] \in Row
  BY <1>7 DEF Row
<1>9. /\ page' \in [page_id : Nat, used_size : Nat, page_buf : PageBuf]
      /\ page'.page_id = page.page_id /\ page'.used_size = page.used_size + TupleSize
  <2> DEFINE pb == page.page_buf
             r == [key |-> key, version |-> 0]
             new == [pb EXCEPT !.row = [pb.row EXCEPT ![page.used_size] = r]]
  <2>1. pb \in PageBuf /\ page.used_size + TupleSize \in Nat /\ r \in Row
    BY <1>5, <1>8, SizeAssumption, SMT
  <2>2. new \in PageBuf
    BY <2>1, Zenon DEF PageBuf
  <2>3. page' = [page EXCEPT !.page_buf = new, !.used_size = page.used_size + TupleSize]
    BY <1>5 DEF PutRow, PagePut
  <2> HIDE DEF new
  <2> QED
    BY <1>5, <2>1, <2>2, <2>3
<1>10. /\ page'.used_size = Header + (m + 1) * TupleSize
       /\ key' = page'.page_id * RowsPerPage + (m + 1)
  BY <1>2, <1>4, <1>5, <1>9, SizeAssumption, SMT DEF PutRow
<1>11. page'.used_size - TupleSize = Header + m * TupleSize
  BY <1>2, <1>4, <1>9, SizeAssumption, SMT
<1>12. index' = Put(index, key, Place(key))
  BY <1>6, <1>11 DEF PutRow
<1>13. 0 .. key' - 1 = (0 .. key - 1) \cup {key}
  BY <1>7, SMT DEF PutRow
<1>14. Place(key) \in IndexItem
  BY <1>7, PlaceType
<1>15. index \in [0 .. key - 1 -> IndexItem] /\ \A k \in 0 .. key - 1 : index[k] = Place(k)
  BY <1>1 DEF Loading, Indexed
<1>16. Indexed(0 .. key - 1)'
  <2> DEFINE S == 0 .. key - 1
  <2>1. 0 .. key' - 1 = S \cup {key} /\ index \in [S -> IndexItem] /\ \A k \in S : index[k] = Place(k)
    BY <1>13, <1>15
  <2> HIDE DEF S
  <2>2. index' \in [S \cup {key} -> IndexItem] /\ \A k \in S \cup {key} : index'[k] = Place(k)
    BY <2>1, <1>12, <1>14 DEF Put
  <2> QED
    BY <2>1, <2>2 DEF Indexed
<1>17. Loading'
  BY <1>1, <1>4, <1>5, <1>9, <1>10, <1>16 DEF Loading, PutRow
<1>18. key' \in 0 .. NumKeys
  BY <1>1, SizeAssumption, SMT DEF PutRow
<1> QED
  BY <1>1, <1>17, <1>18 DEF TableInv, PutRow

LEMMA KeyCardinality == Cardinality(Key) = NumKeys
<1>1. Cardinality(0 .. NumKeys - 1) = IF 0 > NumKeys - 1 THEN 0 ELSE NumKeys - 1 - 0 + 1
  BY FS_Interval, SizeAssumption, SMT
<1> QED
  BY <1>1, SizeAssumption, SMT DEF Key

\* An index that is complete is written to a new file.
LEMMA SerializeBegins ==
  ASSUME TableInv, Indexed(Key), buf = <<>>, file' = NewFile, phase' = "serialize",
         UNCHANGED <<key, index, buf>>
  PROVE  TableInv'
<1>1. DOMAIN index = Key
  BY DEF Indexed
<1>2. file' = [size |-> NumKeys, item |-> <<>>]
  BY <1>1, KeyCardinality DEF NewFile
<1>3. file' \in [size : Nat, item : Seq(Item)] /\ Len(file'.item) = 0 /\ Len(buf) = 0
  BY <1>2, SizeAssumption, SMT
<1>4. Serializing'
  BY <1>2, <1>3, SizeAssumption, SMT DEF Serializing, Indexed
<1> QED
  BY <1>3, <1>4 DEF TableInv

LEMMA LastPageStep ==
  ASSUME TableInv, LastPage
  PROVE  TableInv'
<1>1. Loading /\ key = NumKeys
  BY DEF TableInv, LastPage
<1>2. Indexed(Key) /\ buf = <<>>
  BY <1>1 DEF Loading, Key
<1> QED
  BY <1>2, SerializeBegins DEF LastPage

\* Items in order, followed by the items after them.
LEMMA ConcatItems ==
  ASSUME NEW s \in Seq(Item), \A i \in 1 .. Len(s) : s[i] = ItemFor(i),
         NEW u \in Seq(Item), \A i \in 1 .. Len(u) : u[i] = ItemFor(Len(s) + i)
  PROVE  /\ s \o u \in Seq(Item) /\ Len(s \o u) = Len(s) + Len(u)
         /\ \A i \in 1 .. Len(s) + Len(u) : (s \o u)[i] = ItemFor(i)
<1>1. s \o u \in Seq(Item) /\ Len(s \o u) = Len(s) + Len(u) /\ Len(s) \in Nat /\ Len(u) \in Nat
  BY SMT
<1> SUFFICES ASSUME NEW i \in 1 .. Len(s) + Len(u) PROVE (s \o u)[i] = ItemFor(i)
  BY <1>1
<1>2. CASE i <= Len(s)
  BY <1>1, <1>2, SMT
<1>3. CASE i > Len(s)
  <2>1. (s \o u)[i] = u[i - Len(s)] /\ i - Len(s) \in 1 .. Len(u) /\ Len(s) + (i - Len(s)) = i
    BY <1>1, <1>3, SMT
  <2> QED
    BY <2>1
<1> QED
  BY <1>1, <1>2, <1>3, SMT

LEMMA SerializeItemStep ==
  ASSUME TableInv, SerializeItem
  PROVE  TableInv'
<1> DEFINE n == Len(file.item)
           b == Len(buf)
           item == ItemFor(n + b + 1)
<1>1. Serializing /\ phase = "serialize"
  BY DEF TableInv, SerializeItem
<1>2. /\ file \in [size : Nat, item : Seq(Item)] /\ file.item \in Seq(Item) /\ buf \in Seq(Item)
      /\ n \in Nat /\ b \in Nat /\ NumKeys \in Nat
  BY SizeAssumption, SMT DEF TableInv
<1>3. DOMAIN index = Key /\ \A k \in Key : index[k] = Place(k)
  BY <1>1 DEF Serializing, Indexed
<1>4. n + b + 1 <= NumKeys
  BY <1>3, KeyCardinality DEF SerializeItem
<1>5. item \in Item /\ HashOrder[n + b + 1] \in Key
  BY <1>2, <1>4, ItemForType, HashOrderType, SMT
<1>6. item = [key |-> HashOrder[n + b + 1], at |-> index[HashOrder[n + b + 1]]]
  BY <1>3, <1>5 DEF ItemFor
<1>7. \/ b = Chunk /\ file' = [file EXCEPT !.item = file.item \o buf] /\ buf' = <<item>>
      \/ b # Chunk /\ file' = file /\ buf' = Append(buf, item)
  BY <1>6, Zenon DEF SerializeItem
<1>8. /\ \A i \in 1 .. n : file.item[i] = ItemFor(i)
      /\ \A i \in 1 .. b : buf[i] = ItemFor(n + i)
      /\ file.size = NumKeys
  BY <1>1 DEF Serializing
<1>9. item = ItemFor(n + (b + 1)) /\ item = ItemFor((n + b) + 1)
  BY <1>2, SMT
<1> HIDE DEF item
<1>10. CASE b = Chunk /\ file' = [file EXCEPT !.item = file.item \o buf] /\ buf' = <<item>>
  <2>1. /\ file.item \o buf \in Seq(Item) /\ Len(file.item \o buf) = n + b
        /\ \A i \in 1 .. n + b : (file.item \o buf)[i] = ItemFor(i)
    BY <1>2, <1>8, ConcatItems
  <2>2. /\ file' \in [size : Nat, item : Seq(Item)]
        /\ file'.size = file.size /\ file'.item = file.item \o buf
    BY <1>2, <1>10, <2>1
  <2>3. buf' \in Seq(Item) /\ Len(buf') = 1 /\ buf'[1] = item
    BY <1>5, <1>10, SMT
  <2>4. \A i \in 1 .. Len(buf') : buf'[i] = ItemFor((n + b) + i)
    <3>1. \A i \in 1 .. 1 : i = 1
      BY SMT
    <3> QED
      BY <1>9, <2>3, <3>1
  <2>5. Len(file'.item) + Len(buf') <= NumKeys
    BY <1>2, <1>4, <2>1, <2>2, <2>3, SMT
  <2>6. Serializing'
    BY <1>1, <1>8, <2>1, <2>2, <2>4, <2>5 DEF Serializing, SerializeItem, Indexed
  <2> QED
    BY <2>2, <2>3, <2>6, <1>1 DEF TableInv, SerializeItem
<1>11. CASE b # Chunk /\ file' = file /\ buf' = Append(buf, item)
  <2>1. buf' \in Seq(Item) /\ Len(buf') = b + 1 /\ buf'[b + 1] = item
        /\ \A i \in 1 .. b : buf'[i] = buf[i]
    BY <1>2, <1>5, <1>11
  <2>2. \A i \in 1 .. b + 1 : i \in 1 .. b \/ i = b + 1
    BY <1>2, SMT
  <2>3. \A i \in 1 .. Len(buf') : buf'[i] = ItemFor(n + i)
    BY <1>8, <1>9, <2>1, <2>2
  <2>4. n + Len(buf') <= NumKeys
    BY <1>2, <1>4, <2>1, SMT
  <2>5. Serializing'
    BY <1>1, <1>8, <1>11, <2>3, <2>4 DEF Serializing, SerializeItem, Indexed
  <2> QED
    BY <1>2, <2>1, <2>5, <1>1, <1>11 DEF TableInv, SerializeItem
<1> QED
  BY <1>7, <1>10, <1>11

LEMMA SerializeEndStep ==
  ASSUME TableInv, SerializeEnd
  PROVE  TableInv'
<1>1. Serializing /\ phase = "serialize"
  BY DEF TableInv, SerializeEnd
<1>2. /\ file \in [size : Nat, item : Seq(Item)] /\ file.item \in Seq(Item) /\ buf \in Seq(Item)
      /\ <<>> \in Seq(Item) /\ NumKeys \in Nat
  BY SizeAssumption, SMT DEF TableInv
<1>3. DOMAIN index = Key
  BY <1>1 DEF Serializing, Indexed
<1>4. Len(file.item) + Len(buf) = NumKeys
  BY <1>3, KeyCardinality DEF SerializeEnd
<1>5. /\ file.item \o buf \in Seq(Item) /\ Len(file.item \o buf) = NumKeys
      /\ \A i \in 1 .. NumKeys : (file.item \o buf)[i] = ItemFor(i)
      /\ file.size = NumKeys
  <2>1. /\ \A i \in 1 .. Len(file.item) : file.item[i] = ItemFor(i)
        /\ \A i \in 1 .. Len(buf) : buf[i] = ItemFor(Len(file.item) + i)
        /\ file.size = NumKeys
    BY <1>1 DEF Serializing
  <2>2. /\ file.item \o buf \in Seq(Item)
        /\ Len(file.item \o buf) = Len(file.item) + Len(buf)
        /\ \A i \in 1 .. Len(file.item) + Len(buf) : (file.item \o buf)[i] = ItemFor(i)
    BY <1>2, <2>1, ConcatItems
  <2> QED
    BY <1>4, <2>1, <2>2
<1>6. /\ file' \in [size : Nat, item : Seq(Item)] /\ file'.size = NumKeys
      /\ file'.item = file.item \o buf /\ buf' = <<>> /\ buf' \in Seq(Item)
  BY <1>2, <1>5 DEF SerializeEnd
<1>7. {HashOrder[i] : i \in 1 .. 0} = {} /\ offset' = 0 /\ index' = <<>>
  BY SMT DEF SerializeEnd
<1>8. Indexed({HashOrder[i] : i \in 1 .. offset})'
  BY <1>7, SMT DEF Indexed
<1>9. Opening'
  BY <1>2, <1>5, <1>6, <1>7, <1>8, SMT DEF Opening
<1> QED
  BY <1>6, <1>9 DEF TableInv, SerializeEnd

LEMMA DeSerializeStep ==
  ASSUME TableInv, DeSerialize
  PROVE  TableInv'
<1> DEFINE n == IF offset + Chunk <= file.size THEN Chunk ELSE file.size - offset
           S == {HashOrder[i] : i \in 1 .. offset}
<1>1. Opening /\ phase = "open" /\ offset < file.size
  BY DEF TableInv, DeSerialize
<1>2. /\ file.item \in Seq(Item) /\ Len(file.item) = NumKeys /\ file.size = NumKeys
      /\ NumKeys \in Nat /\ offset \in Nat /\ offset < NumKeys
      /\ \A i \in 1 .. NumKeys : file.item[i] = ItemFor(i)
      /\ index \in [S -> IndexItem] /\ \A k \in S : index[k] = Place(k)
  BY <1>1, SizeAssumption, SMT DEF Opening, TableInv, Indexed
<1>3. n \in Nat /\ offset + n <= NumKeys
  BY <1>2, ChunkAssumption, SMT
<1>4. Piece = SubSeq(file.item, offset + 1, offset + n)
  BY DEF Piece
<1> HIDE DEF n
<1>5. Len(Piece) = n /\ DOMAIN Piece = 1 .. n /\ \A i \in 1 .. n : Piece[i] = file.item[offset + i]
  BY <1>2, <1>3, <1>4, SMT
<1>6. \A i \in 1 .. n : offset + i \in 1 .. NumKeys /\ offset + i \in 1 .. offset + n
  BY <1>2, <1>3, SMT
<1>7. \A i \in DOMAIN Piece : /\ Piece[i].key = HashOrder[offset + i]
                              /\ Piece[i].at = Place(Piece[i].key)
                              /\ Piece[i].at \in IndexItem
  <2> SUFFICES ASSUME NEW i \in 1 .. n
               PROVE  /\ Piece[i].key = HashOrder[offset + i]
                      /\ Piece[i].at = Place(Piece[i].key) /\ Piece[i].at \in IndexItem
    BY <1>5
  <2>1. Piece[i] = ItemFor(offset + i) /\ ItemFor(offset + i) \in Item
    BY <1>2, <1>5, <1>6, ItemForType
  <2> QED
    BY <2>1 DEF ItemFor, Item
<1> DEFINE K == {Piece[i].key : i \in DOMAIN Piece}
<1>8. S \cup K = {HashOrder[i] : i \in 1 .. offset + n}
  <2>1. K = {HashOrder[offset + i] : i \in 1 .. n}
    BY <1>5, <1>7
  <2>2. \A i \in 1 .. offset : i \in 1 .. offset + n
    BY <1>2, <1>3, SMT
  <2>3. \A i \in 1 .. offset + n : i \in 1 .. offset \/ \E j \in 1 .. n : i = offset + j
    <3> SUFFICES ASSUME NEW i \in 1 .. offset + n, i \notin 1 .. offset
                 PROVE  \E j \in 1 .. n : i = offset + j
      OBVIOUS
    <3>1. i - offset \in 1 .. n /\ i = offset + (i - offset)
      BY <1>2, <1>3, SMT
    <3> QED
      BY <3>1
  <2> QED
    BY <1>6, <2>1, <2>2, <2>3, Zenon
<1>9. index' = [k \in S \cup K |->
                 IF \E i \in DOMAIN Piece : Piece[i].key = k
                 THEN Piece[CHOOSE i \in DOMAIN Piece : Piece[i].key = k].at ELSE index[k]]
  BY <1>2, Zenon DEF DeSerialize
<1>10. \A k \in S \cup K : index'[k] = Place(k) /\ index'[k] \in IndexItem
  <2> SUFFICES ASSUME NEW k \in S \cup K PROVE index'[k] = Place(k) /\ index'[k] \in IndexItem
    OBVIOUS
  <2>1. CASE \E i \in DOMAIN Piece : Piece[i].key = k
    <3> DEFINE i == CHOOSE i \in DOMAIN Piece : Piece[i].key = k
    <3>1. i \in DOMAIN Piece /\ Piece[i].key = k
      BY <2>1, Zenon
    <3>2. index'[k] = Piece[i].at
      BY <1>9, <2>1, Zenon
    <3> QED
      BY <1>7, <3>1, <3>2
  <2>2. CASE ~ \E i \in DOMAIN Piece : Piece[i].key = k
    <3>1. k \in S
      BY <2>2
    <3>2. index'[k] = index[k]
      BY <1>9, <2>2, Zenon
    <3> QED
      BY <1>2, <3>1, <3>2
  <2> QED
    BY <2>1, <2>2
<1>11. index' \in [S \cup K -> IndexItem]
  BY <1>9, <1>10, Zenon
<1>12. offset' = offset + n
  BY <1>5 DEF DeSerialize
<1>13. Indexed({HashOrder[i] : i \in 1 .. offset})'
  BY <1>8, <1>10, <1>11, <1>12, Zenon DEF Indexed
<1>14. offset' \in 0 .. NumKeys
  BY <1>2, <1>3, <1>12, SMT
<1>15. Opening'
  BY <1>1, <1>2, <1>13, <1>14 DEF Opening, DeSerialize
<1> QED
  BY <1>1, <1>15 DEF TableInv, DeSerialize

\* A step that changes none of the table's variables.
LEMMA TableFrame ==
  ASSUME TableInv, UNCHANGED <<phase, key, page, last_page_id, index, file, buf, offset>>
  PROVE  TableInv'
  BY Zenon DEF TableInv, Loading, Serializing, Opening, Indexed

\* All items are read: the index has every key.
LEMMA StartStep ==
  ASSUME TableInv, Start
  PROVE  TableInv'
<1>1. Opening /\ offset >= file.size
  BY DEF TableInv, Start
<1>2. offset = NumKeys /\ buf = <<>> /\ Indexed({HashOrder[i] : i \in 1 .. offset})
  BY <1>1, SizeAssumption, SMT DEF Opening
<1>3. {HashOrder[i] : i \in 1 .. offset} = Key
  BY <1>2, OrderAssumption
<1>4. Indexed(Key)
  BY <1>2, <1>3
<1> QED
  BY <1>2, <1>4 DEF TableInv, Start, Indexed

LEMMA CloseStep ==
  ASSUME TableInv, Close
  PROVE  TableInv'
<1>1. Indexed(Key) /\ buf = <<>>
  BY DEF TableInv, Close
<1> QED
  BY <1>1, SerializeBegins DEF Close

LEMMA ThreadFrame ==
  ASSUME NEW t \in Thread, Begin(t) \/ Step(t)
  PROVE  UNCHANGED <<phase, key, page, last_page_id, index, file, buf, offset>>
<1>1. OnlyThreads
  BY Zenon DEF Begin, Step, LockX, GetWithMutex, Lookup, CopyPage, ReadPage, EnterPage, PutWithMutex,
     StorePage, InsertPage, UnLock, Return, Got, PutDone
<1> QED
  BY <1>1 DEF OnlyThreads

LEMMA TableNext == TableInv /\ [Next]_vars => TableInv'
<1> SUFFICES ASSUME TableInv, [Next]_vars PROVE TableInv'
  OBVIOUS
<1>1. CASE LoadTable
  BY <1>1, NextPageStep, PutRowStep, LastPageStep, SerializeItemStep, SerializeEndStep, DeSerializeStep
     DEF LoadTable, Load
<1>2. CASE Prewarm
  BY <1>2, TableFrame DEF Prewarm
<1>3. CASE Start
  BY <1>3, StartStep
<1>4. CASE Close
  BY <1>4, CloseStep
<1>5. CASE \E t \in Thread : Begin(t) \/ Step(t)
  BY <1>5, ThreadFrame, TableFrame
<1>6. CASE UNCHANGED vars
  BY <1>6, TableFrame DEF vars, loadVars
<1> QED
  BY <1>1, <1>2, <1>3, <1>4, <1>5, <1>6 DEF Next

-----------------------------------------------------------------------------
\* What is known of the table while it is loaded, written to the index file and
\* read back holds in every reachable state.
THEOREM TableCorrect == Spec => []TableInv
<1>1. Init => TableInv
  BY TableInit
<1>2. TableInv /\ [Next]_vars => TableInv'
  BY TableNext
<1> QED
  BY <1>1, <1>2, PTL DEF Spec

\* init_table's assertion never fails, whatever the sizes of pages and rows: a
\* page into which no further row goes has RowsPerPage rows, and no bytes more.
THEOREM FullPages == Spec => []UsedSize
<1>1. TableInv => UsedSize
  <2> SUFFICES ASSUME TableInv, phase = "load", Full
               PROVE  page.used_size = RowsPerPage * TupleSize + Header
    BY DEF UsedSize
  <2>1. PICK m \in 0 .. RowsPerPage : page.used_size = Header + m * TupleSize
    BY DEF TableInv, Loading
  <2>2. m = RowsPerPage
    BY <2>1, RoomFor DEF Full
  <2>3. RowsPerPage * TupleSize \in Nat
    BY PageLayout, SizeAssumption, SMT
  <2> QED
    BY <2>1, <2>2, <2>3, SizeAssumption, SMT
<1> QED
  BY <1>1, TableCorrect, PTL

\* DeSerialize gives back what Serialize wrote, for every number of keys, size
\* of a piece and order of the hash map: a process that runs on the table finds
\* every key in the index, at the place that the layout of the pages gives it.
THEOREM IndexComplete == Spec => []IndexRead
<1>1. TableInv => IndexRead
  <2> SUFFICES ASSUME TableInv, phase = "run" PROVE index = [k \in Key |-> Place(k)]
    BY DEF IndexRead
  <2>1. index \in [Key -> IndexItem] /\ \A k \in Key : index[k] = Place(k)
    BY DEF TableInv, Indexed
  <2> QED
    BY <2>1, Zenon
<1> QED
  BY <1>1, TableCorrect, PTL
=============================================================================
