------------------------------- MODULE SlotTable -------------------------------
(***************************************************************************)
(* One table of a keychain file, in memory and as it is written out         *)
(* (keychain/src/format.rs, struct Table; keychain/src/index.rs).           *)
(*                                                                         *)
(* A record's number is the slot it is in.  Free slots form a list that is  *)
(* threaded through the slot array; the records' bytes are laid out in an   *)
(* order of their own; and each index holds an entry per record, sorted by  *)
(* key.  The file refers to all of them by offsets into the table.          *)
(*                                                                         *)
(* A record is abstracted to its number, the attributes of the unique index *)
(* (id) and one attribute of a secondary index (tag), which may be absent.  *)
(***************************************************************************)
EXTENDS Integers, SequencesExt, Listing

CONSTANTS
  Ids,      (* identities                                                  *)
  Tags,     (* values of the other indexed attribute                       *)
  NoTag,    (* the attribute is absent                                     *)
  MaxSlots  (* bound: slots in the table                                   *)

ASSUME SlotAssumption ==
  /\ Ids \subseteq Nat
  /\ Tags \subseteq Nat
  /\ NoTag \notin Tags
  /\ MaxSlots \in Nat \ {0}

VARIABLES
  slots,     (* the slot array, from 0                                     *)
  freeHead,  (* free_list_head: the link to the first free slot, or 0      *)
  layout,    (* slots in the order in which their records are laid out     *)
  indexes    (* the entries of each index                                  *)

vars == <<slots, freeHead, layout, indexes>>

Record == [number : Nat, id : Ids, tag : Tags \union {NoTag}]
Slot == [kind : {"record"}, record : Record] \union [kind : {"free"}, link : Nat]
IndexNames == {"id", "tag"}

(* LayoutIsLive and IndexesMatch say what layout and indexes are. *)
TypeOK ==
  /\ \E n \in 0..(MaxSlots - 1) : slots \in [0..n -> Slot]
  /\ freeHead \in Nat

Live(s) == {i \in DOMAIN s : s[i].kind = "record"}
Free(s) == DOMAIN s \ Live(s)

-----------------------------------------------------------------------------
(* The free list.                                                          *)

HeaderLen == 28

(* A link: the offset of a slot's entry in the slot array, low bit set. *)
FreeLink(i) == HeaderLen + 4 * i + 1

(* The link to the highest of some slots. *)
LinkTo(S) == IF S = {} THEN 0 ELSE FreeLink(Max(S))

(* Mutant: each free slot links to the next one up. *)
RebuiltUpwards(s) ==
  [i \in DOMAIN s |->
     IF i \in Live(s) THEN s[i]
     ELSE [kind |-> "free", link |-> LinkTo({j \in Free(s) : j > i})]]

(* rebuild_free_list: every free slot links to the next one down. *)
Rebuilt(s) ==
  [i \in DOMAIN s |->
     IF i \in Live(s) THEN s[i]
     ELSE [kind |-> "free", link |-> LinkTo({j \in Free(s) : j < i})]]

-----------------------------------------------------------------------------
(* The indexes.                                                            *)

KeyOf(r, x) == IF x = "id" THEN r.id ELSE r.tag

(* An absent value is not an empty one: the record is left out. *)
Indexable(r, x) == KeyOf(r, x) # NoTag

(* Mutant: an entry goes before those with the same key. *)
PlacedFirst(entries, e) ==
  LET at == SelectInSeq(entries, LAMBDA o : o.key >= e.key)
  IN  InsertAt(entries, IF at = 0 THEN Len(entries) + 1 ELSE at, e)

(* Index::insert: before the first entry with a larger key. *)
Placed(entries, e) ==
  LET at == SelectInSeq(entries, LAMBDA o : o.key > e.key)
  IN  InsertAt(entries, IF at = 0 THEN Len(entries) + 1 ELSE at, e)

EntryOf(r, x) == [number |-> r.number, key |-> KeyOf(r, x)]

(* rebuild_indexes: clear, then insert every record in slot order. *)
IndexesOf(s) ==
  [x \in IndexNames |->
     LET n == Cardinality(DOMAIN s)
         After[k \in 0..n] ==
           IF k = 0 THEN <<>>
           ELSE IF k - 1 \in Live(s) /\ Indexable(s[k - 1].record, x)
                THEN Placed(After[k - 1], EntryOf(s[k - 1].record, x))
           ELSE After[k - 1]
     IN  After[n]]

(* IndexBlob::remove_record. *)
WithoutEntry(n) ==
  [x \in IndexNames |-> Kept(indexes[x], {e \in ToSet(indexes[x]) : e.number # n})]

-----------------------------------------------------------------------------
(* Operations.                                                             *)

(* An empty table has one slot, free, and the free list points at it. *)
Init ==
  /\ slots = [i \in {0} |-> [kind |-> "free", link |-> 0]]
  /\ freeHead = FreeLink(0)
  /\ layout = <<>>
  /\ indexes = [x \in IndexNames |-> <<>>]

(* The slot an insert takes: the highest free one, or one more. *)
InsertSlots ==
  IF Free(slots) = {}
  THEN {i \in 0..(MaxSlots - 1) : DOMAIN slots = 0..(i - 1)}
  ELSE {i \in Free(slots) : \A j \in Free(slots) : j =< i}

HasRecordWithUniqueKey(id) == \E i \in Live(slots) : slots[i].record.id = id

(* Table::insert. *)
Insert(i, id, tag) ==
  LET filled == [j \in DOMAIN slots \union {i} |->
                   IF j = i
                   THEN [kind |-> "record", record |-> [number |-> i, id |-> id, tag |-> tag]]
                   ELSE slots[j]]
  IN  /\ slots' = Rebuilt(filled)
      /\ freeHead' = LinkTo(Free(filled))
      /\ layout' = Append(layout, i)

(* Mutant: a duplicate is not refused. *)
AddUnchecked(id, tag) ==
  \E i \in InsertSlots :
    /\ Insert(i, id, tag)
    /\ indexes' = IndexesOf(slots')

(* A new item: refuse a duplicate, insert, rebuild the indexes. *)
Add(id, tag) ==
  /\ ~HasRecordWithUniqueKey(id)
  /\ \E i \in InsertSlots :
       /\ Insert(i, id, tag)
       /\ indexes' = IndexesOf(slots')

(* Mutant: the freed slot stays in the layout. *)
DeleteKeepsLayout(i) ==
  LET freed == [slots EXCEPT ![i] = [kind |-> "free", link |-> 0]]
      kept == IF i # 0 /\ \A j \in DOMAIN slots : j =< i
              THEN DOMAIN slots \ {i} ELSE DOMAIN slots
      shrunk == [j \in kept |-> freed[j]]
  IN  /\ slots' = Rebuilt(shrunk)
      /\ freeHead' = LinkTo(Free(shrunk))
      /\ layout' = layout
      /\ indexes' = WithoutEntry(slots[i].record.number)

(* Mutant: the last slot is dropped even when it is the only one. *)
DeleteToNothing(i) ==
  LET kept == IF \A j \in DOMAIN slots : j =< i
              THEN DOMAIN slots \ {i} ELSE DOMAIN slots
      shrunk == [j \in kept |-> IF j = i THEN [kind |-> "free", link |-> 0] ELSE slots[j]]
  IN  /\ slots' = Rebuilt(shrunk)
      /\ freeHead' = LinkTo(Free(shrunk))
      /\ layout' = Kept(layout, DOMAIN slots \ {i})
      /\ indexes' = WithoutEntry(slots[i].record.number)

(* Table::delete of the record in slot i.  The last slot is dropped, others  *)
(* stay; the array keeps at least one slot.                                 *)
Delete(i) ==
  LET freed == [slots EXCEPT ![i] = [kind |-> "free", link |-> 0]]
      kept == IF i # 0 /\ \A j \in DOMAIN slots : j =< i
              THEN DOMAIN slots \ {i} ELSE DOMAIN slots
      shrunk == [j \in kept |-> freed[j]]
  IN  /\ slots' = Rebuilt(shrunk)
      /\ freeHead' = LinkTo(Free(shrunk))
      /\ layout' = Kept(layout, DOMAIN slots \ {i})
      /\ indexes' = WithoutEntry(slots[i].record.number)

(* Delete finds the record by its number. *)
DeleteNumber(n) ==
  \E i \in Live(slots) :
    /\ slots[i].record.number = n
    /\ Delete(i)

(* update_item: set an attribute that does not identify the item, rebuild. *)
Update(n, tag) ==
  \E i \in Live(slots) :
    /\ slots[i].record.number = n
    /\ slots' = [slots EXCEPT ![i].record.tag = tag]
    /\ indexes' = IndexesOf(slots')
    /\ UNCHANGED <<freeHead, layout>>

Next ==
  \/ \E id \in Ids, tag \in Tags \union {NoTag} : Add(id, tag)
  \/ \E n \in 0..(MaxSlots - 1) : DeleteNumber(n)
  \/ \E n \in 0..(MaxSlots - 1), tag \in Tags : Update(n, tag)

Spec == Init /\ [][Next]_vars
-----------------------------------------------------------------------------
(* The file image of the table: Table::to_bytes and Table::parse.          *)

(* A record's bytes: header, two attribute offsets, id and tag, each padded  *)
(* to four bytes.                                                           *)
EncodedLen(r) == IF r.tag = NoTag THEN 40 ELSE 48

(* Records go out in layout order, and those missing from it after the rest. *)
WriteOrder == Kept(layout, Live(slots)) \o Arranged(Live(slots) \ ToSet(layout), <)

(* The offset of the k-th record written, and of the end of the last. *)
BodyOffset(k) ==
  LET After[n \in 0..Len(WriteOrder)] ==
        IF n = 0 THEN HeaderLen + 4 * Cardinality(DOMAIN slots)
        ELSE After[n - 1] + EncodedLen(slots[WriteOrder[n]].record)
  IN  After[k - 1]

Position(i) == CHOOSE k \in DOMAIN WriteOrder : WriteOrder[k] = i

(* Mutant: the index offsets are not moved past the records. *)
WrittenUnmoved ==
  LET end == BodyOffset(Len(WriteOrder) + 1)
  IN  [words |-> [i \in DOMAIN slots |->
                    IF i \in Live(slots) THEN BodyOffset(Position(i)) ELSE slots[i].link],
       bodies |-> [at \in {BodyOffset(k) : k \in DOMAIN WriteOrder} |->
                     slots[CHOOSE i \in Live(slots) : BodyOffset(Position(i)) = at].record],
       freeHead |-> freeHead,
       indexesOffset |-> end,
       region |-> [base |-> BodyOffset(1), indexes |-> indexes]]

(* The image; the index region's own offsets are measured from the table. *)
Written ==
  LET end == BodyOffset(Len(WriteOrder) + 1)
  IN  [words |-> [i \in DOMAIN slots |->
                    IF i \in Live(slots) THEN BodyOffset(Position(i)) ELSE slots[i].link],
       bodies |-> [at \in {BodyOffset(k) : k \in DOMAIN WriteOrder} |->
                     slots[CHOOSE i \in Live(slots) : BodyOffset(Position(i)) = at].record],
       freeHead |-> freeHead,
       indexesOffset |-> end,
       region |-> [base |-> end, indexes |-> indexes]]

(* A slot word with its low bit set is a link, and zero is an empty slot. *)
IsOffset(word) == word # 0 /\ word % 2 = 0

(* Parse refuses an offset outside the records. *)
Readable(image) ==
  \A i \in DOMAIN image.words :
    IsOffset(image.words[i]) =>
      HeaderLen =< image.words[i] /\ image.words[i] < image.indexesOffset

(* What is read back.  An index region whose offsets do not fit its place is *)
(* kept as raw bytes, which no operation can rewrite.                       *)
Parsed(image) ==
  LET records == {i \in DOMAIN image.words : IsOffset(image.words[i])}
  IN  [slots |-> [i \in DOMAIN image.words |->
                    IF i \in records
                    THEN [kind |-> "record", record |-> image.bodies[image.words[i]]]
                    ELSE [kind |-> "free", link |-> image.words[i]]],
       freeHead |-> image.freeHead,
       layout |-> Arranged(records, LAMBDA i, j : image.words[i] < image.words[j]),
       raw |-> image.region.base # image.indexesOffset,
       indexes |-> image.region.indexes]

-----------------------------------------------------------------------------
(* Properties.                                                             *)

(* The slot that a link names. *)
SlotOf(link) == (link - 1 - HeaderLen) \div 4

(* Following the free list from its head, as macOS does to allocate a        *)
(* number, visits every free slot once, from the highest down, and ends.    *)
FreeListComplete ==
  LET n == Cardinality(Free(slots))
      walk[k \in 0..n] ==
        IF k = 0 THEN freeHead
        ELSE LET s == SlotOf(walk[k - 1])
             IN  IF s \in Free(slots) THEN slots[s].link ELSE 0
  IN  /\ \A k \in 0..(n - 1) : SlotOf(walk[k]) \in Free(slots)
      /\ \A k \in 1..n : walk[k] < walk[k - 1]
      /\ walk[n] = 0

(* The layout names every slot that holds a record once, and no other: no    *)
(* record is lost or written twice after slots were freed and taken again.  *)
LayoutIsLive ==
  /\ ToSet(layout) = Live(slots)
  /\ \A i, j \in DOMAIN layout : layout[i] = layout[j] => i = j

(* The entries an index should have: one for each record that has the       *)
(* attribute, by key and then by number.                                    *)
ReferenceIndex(x) ==
  Arranged({[number |-> i, key |-> KeyOf(slots[i].record, x)] :
              i \in {j \in Live(slots) : Indexable(slots[j].record, x)}},
           LAMBDA e, f : e.key < f.key \/ (e.key = f.key /\ e.number < f.number))

(* Inserting at the sorted place, removing by number and rebuilding all give *)
(* the same index: every record that has the attribute is found by its      *)
(* current key, and nothing points at a hole.                               *)
IndexesMatch == \A x \in IndexNames : indexes[x] = ReferenceIndex(x)

(* A table that is written and read back is the same table, with the same    *)
(* slots, free list, layout and indexes, so writing it again gives the same *)
(* bytes.                                                                   *)
ReopenSame ==
  /\ Readable(Written)
  /\ Parsed(Written) = [slots |-> slots, freeHead |-> freeHead, layout |-> layout,
                        raw |-> FALSE, indexes |-> indexes]

(* A record's number is the slot it is in. *)
NumbersAreSlots == \A i \in Live(slots) : slots[i].record.number = i

UniqueIds ==
  \A i, j \in Live(slots) : slots[i].record.id = slots[j].record.id => i = j

(* A link leads to the highest of some slots, and 0 says there is none. *)
PointsTo(link, S) ==
  IF S = {} THEN link = 0
  ELSE \E j \in S : link = FreeLink(j) /\ \A k \in S : k =< j

FreeListOrdered ==
  /\ PointsTo(freeHead, Free(slots))
  /\ \A i \in Free(slots) : PointsTo(slots[i].link, {j \in Free(slots) : j < i})

(* The slot array has at least one slot; a record's number is the slot it is *)
(* in, whatever slots were freed, dropped and taken again; no two records   *)
(* have the same identity; and each link of the free list leads to the      *)
(* highest free slot below.                                                 *)
TableInv ==
  /\ TypeOK
  /\ NumbersAreSlots
  /\ UniqueIds
  /\ FreeListOrdered

(* The table seen by its users. *)
Records == [n \in Live(slots) |-> [id |-> slots[n].record.id, tag |-> slots[n].record.tag]]

Store == INSTANCE NumberedStore WITH Numbers <- 0..(MaxSlots - 1), store <- Records

(* The table implements the store of numbered records: a number is its       *)
(* record's while the record lives, whatever slots are freed, dropped and   *)
(* taken again.                                                             *)
ImplementsStore == Store!Spec
=============================================================================
