----------------------------- MODULE IndexRegion -----------------------------
(***************************************************************************)
(* The index region of a table, as bytes and back. Operators only: what    *)
(* the indexes hold, and when they are rebuilt, is in SlotTable.           *)
(*                                                                         *)
(* Every offset in a region counts from the start of its table, so the     *)
(* bytes depend on the place of the region in the table.                   *)
(***************************************************************************)
EXTENDS Reading

CONSTANTS
    Format,         \* the format of each attribute of the relation: "integer" or "bytes"
    MostIndexes,    \* what the reader takes of indexes
    MostAttributes  \* what the reader takes of attributes of an index

\* A value is <<"integer", number>> or <<"bytes", bytes>>. An index without a relation
\* reads as one of bytes.
FormatOf(id) == IF id \in DOMAIN Format THEN Format[id] ELSE "bytes"

\* `from_value': an item without an integer has zero, without anything else no bytes.
KeyValue(id, item) ==
    IF id \in DOMAIN item THEN <<FormatOf(id), item[id]>>
    ELSE <<FormatOf(id), IF FormatOf(id) = "integer" THEN 0 ELSE <<>>>>

------------------------------------------------------------------------------
(* Lengths, each apart from the bytes that it measures. *)

ValueLen(value) == IF value[1] = "integer" THEN 4 ELSE Pad4(4 + Len(value[2]))

PayloadLen(entry) == TotalOf([i \in DOMAIN entry.key |-> ValueLen(entry.key[i])])
EntryLength(entry) == 4 + PayloadLen(entry)

HeaderLen(index) == 4 * (4 + Len(index.attributes))
IndexLen(index) ==
    HeaderLen(index) + 4 + 8 * Len(index.entries)
      + TotalOf([i \in DOMAIN index.entries |-> EntryLength(index.entries[i])])
RegionLen(indexes) ==
    8 + 4 * Len(indexes) + TotalOf([i \in DOMAIN indexes |-> IndexLen(indexes[i])])

\* Where each part of a sequence of parts starts, the first at a given place.
Starts(lengths, first) ==
    [i \in DOMAIN lengths |-> first + TotalOf(SubSeq(lengths, 1, i - 1))]

------------------------------------------------------------------------------
(* Writing. *)

ValueBytes(value) ==
    IF value[1] = "integer" THEN Number(value[2])
    ELSE Number(Len(value[2])) \o value[2] \o Zeros(Pad4(Len(value[2])) - Len(value[2]))

KeyBytes(entry) ==
    Number(PayloadLen(entry)) \o Joined([i \in DOMAIN entry.key |-> ValueBytes(entry.key[i])])

\* `write_index', for an index that starts at a place of the region.
IndexBytes(index, table, place) ==
    LET entries == index.entries
        starts == Starts([i \in DOMAIN entries |-> EntryLength(entries[i])],
                         place + HeaderLen(index) + 4 + 8 * Len(entries))
    IN  Numbers(<<IndexLen(index), index.id, index.kind, Len(index.attributes)>>)
          \o Numbers(index.attributes)
          \o Number(Len(entries))
          \o Joined([i \in DOMAIN entries |-> Number(table + starts[i])])
          \o Joined([i \in DOMAIN entries |-> Number(entries[i].record)])
          \o Joined([i \in DOMAIN entries |-> KeyBytes(entries[i])])

\* A variant for the runs: the offsets count from the region.
RegionBytesFromRegion(indexes, table) ==
    LET starts == Starts([i \in DOMAIN indexes |-> IndexLen(indexes[i])], 8 + 4 * Len(indexes))
    IN  Numbers(<<RegionLen(indexes), Len(indexes)>>)
          \o Joined([i \in DOMAIN indexes |-> Number(starts[i])])
          \o Joined([i \in DOMAIN indexes |-> IndexBytes(indexes[i], 0, starts[i])])

\* `to_bytes', for a region at a place of its table.
RegionBytes(indexes, table) ==
    LET starts == Starts([i \in DOMAIN indexes |-> IndexLen(indexes[i])], 8 + 4 * Len(indexes))
    IN  Numbers(<<RegionLen(indexes), Len(indexes)>>)
          \o Joined([i \in DOMAIN indexes |-> Number(table + starts[i])])
          \o Joined([i \in DOMAIN indexes |-> IndexBytes(indexes[i], table, starts[i])])

------------------------------------------------------------------------------
(* Reading. A place of the region is counted from 0, a place in the bytes from 1. *)

ReadValue(data, at, format) ==
    LET number == ReadNumber(data, at)
        bytes == ReadBytes(data, number.next, number.value)
    IN  CASE number = Failed -> Failed
          [] number # Failed /\ format = "integer" ->
                 [value |-> <<"integer", number.value>>, next |-> number.next]
          [] OTHER -> IF bytes = Failed THEN Failed
                      ELSE [value |-> <<"bytes", bytes.value>>,
                            next |-> at + Pad4(4 + number.value)]

ReadKey(data, at, attributes) ==
    FoldLeft(LAMBDA done, id :
                 LET one == IF done = Failed THEN Failed
                            ELSE ReadValue(data, done.next, FormatOf(id))
                 IN  IF one = Failed THEN Failed
                     ELSE [value |-> Append(done.value, one.value), next |-> one.next],
             [value |-> <<>>, next |-> at], attributes)

\* `parse_entry': the key must be as long as the entry says.
ReadIndexEntry(data, place, record, attributes) ==
    LET payload == ReadNumber(data, place + 1)
        key == ReadKey(data, payload.next, attributes)
        entry == [record |-> record, key |-> key.value]
    IN  IF \/ place < 0
           \/ payload = Failed
           \/ key = Failed
           \/ PayloadLen(entry) # payload.value
        THEN Failed ELSE entry

\* `parse_index': the index must be as long as it says.
ReadIndex(data, place, table) ==
    LET head == ReadNumbers(data, place + 1, 4)
        attributes == ReadNumbers(data, head.next, head.value[4])
        count == ReadNumber(data, attributes.next)
        offsets == ReadNumbers(data, count.next, count.value)
        records == ReadNumbers(data, offsets.next, count.value)
        entries == [i \in 1..count.value |->
                        ReadIndexEntry(data, offsets.value[i] - table, records.value[i],
                                       attributes.value)]
        index == [id |-> head.value[2], kind |-> head.value[3],
                  attributes |-> attributes.value, entries |-> entries]
    IN  IF \/ place < 0
           \/ head = Failed
           \/ head.value[4] > MostAttributes
           \/ attributes = Failed
           \/ count = Failed
           \/ 8 * count.value > Len(data)   \* then the offsets or the records run past it
           \/ offsets = Failed
           \/ records = Failed
           \/ Failed \in ToSet(entries)
           \/ IndexLen(index) # head.value[1]
        THEN Failed ELSE index

ParseRegion(data, table) ==
    LET head == ReadNumbers(data, 1, 2)
        offsets == ReadNumbers(data, head.next, head.value[2])
        indexes == [i \in DOMAIN offsets.value |->
                        ReadIndex(data, offsets.value[i] - table, table)]
    IN  IF \/ head = Failed
           \/ head.value[1] # Len(data)
           \/ head.value[2] > MostIndexes
           \/ offsets = Failed
           \/ Failed \in ToSet(indexes)
        THEN Failed ELSE indexes

------------------------------------------------------------------------------
(* What the format promises. *)

\* A region is as long as its table allows for, reads back as it was at its own place in
\* the table, and at any other place, where every offset is stale, does not read at all.
RegionReturns(indexes, table, moved) ==
    LET bytes == RegionBytes(indexes, table)
    IN  /\ Len(bytes) = RegionLen(indexes)
        /\ ParseRegion(bytes, table) = indexes
        /\ indexes # <<>> => ParseRegion(bytes, moved) = Failed
=============================================================================
