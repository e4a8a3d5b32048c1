---------------------------- MODULE KeychainImage ----------------------------
(***************************************************************************)
(* A keychain as the bytes of its file, and back: the header, the array of *)
(* tables, their slots, records and index regions, and the schema that the *)
(* file's own tables declare, without which its records cannot be read.    *)
(* Operators only: how a table changes is in SlotTable, how a file changes *)
(* in KeychainFile.                                                        *)
(***************************************************************************)
EXTENDS IndexRegion

CONSTANTS
    MostSlots       \* what the reader takes of slots in a table

\* The region of a table whose relation has these formats.
Region(formats) == INSTANCE IndexRegion WITH Format <- formats

Signature == <<107, 121, 99, 104>>
FileHeaderLen == 20
TableHeaderLen == 28
RecordHeaderLen == 24
DateLen == 16

\* A value is <<"integer", number>>, <<"bytes", bytes>> or <<"date", bytes>>.
Absent == <<>>

------------------------------------------------------------------------------
(* Records. Places are counted from 0, as the file counts them. *)

AttributeLen(value) ==
    CASE value = Absent -> 0
      [] value # Absent /\ value[1] = "date" -> DateLen
      [] OTHER -> ValueLen(value)

\* A date is cut or filled to its field, and has no length before it.
AttributeBytes(value) ==
    CASE value = Absent -> <<>>
      [] value # Absent /\ value[1] = "date" -> SubSeq(value[2] \o Zeros(DateLen), 1, DateLen)
      [] OTHER -> ValueBytes(value)

\* The offset of an attribute has its low bit set; an absent one has none.
RecordBytes(r) ==
    LET lengths == [i \in DOMAIN r.attributes |-> AttributeLen(r.attributes[i])]
        key == r.keyData \o Zeros(Pad4(Len(r.keyData)) - Len(r.keyData))
        first == RecordHeaderLen + 4 * Len(lengths) + Len(key)
        starts == Starts(lengths, first)
        Offset(i) == IF r.attributes[i] = Absent THEN 0 ELSE starts[i] + 1
    IN  Numbers(<<first + TotalOf(lengths), r.number, r.version, r.unknown3,
                  Len(r.keyData), r.unknown5>>)
          \o Joined([i \in DOMAIN lengths |-> Number(Offset(i))])
          \o key
          \o Joined([i \in DOMAIN lengths |-> AttributeBytes(r.attributes[i])])

ReadAttribute(data, place, format) ==
    LET date == ReadBytes(data, place + 1, DateLen)
        other == ReadValue(data, place + 1, format)
    IN  IF format = "date" THEN IF date = Failed THEN Failed ELSE <<"date", date.value>>
        ELSE IF other = Failed THEN Failed ELSE other.value

\* `Record::parse': a record has as many attributes as its relation, and each of them starts
\* before the record ends.
ReadRecord(data, place, formats) ==
    LET head == ReadNumbers(data, place + 1, 6)
        offsets == ReadNumbers(data, head.next, Len(formats))
        key == ReadBytes(data, offsets.next, head.value[5])
        Start(i) == (offsets.value[i] \div 2) * 2
        attributes == [i \in DOMAIN formats |->
            IF offsets.value[i] = 0 THEN Absent
            ELSE IF Start(i) >= head.value[1] THEN Failed
            ELSE ReadAttribute(data, place + Start(i), formats[i])]
    IN  IF head = Failed \/ offsets = Failed \/ key = Failed \/ Failed \in ToSet(attributes)
        THEN Failed
        ELSE [number |-> head.value[2], version |-> head.value[3], unknown3 |-> head.value[4],
              unknown5 |-> head.value[6], keyData |-> key.value, attributes |-> attributes]

------------------------------------------------------------------------------
(* Tables. A slot is <<"record", record>>, <<"free", link>> or <<"empty">>; a region *)
(* is <<"parsed", indexes>> or <<"raw", bytes>>.                                     *)

LiveSlots(t) == {i \in DOMAIN t.slots : t.slots[i][1] = "record"}

\* The records in the order of the layout; one that is missing there comes last.
InOrder(t) ==
    LET known == SelectSeq(t.layout, LAMBDA i : i \in LiveSlots(t))
    IN  known \o SetToSortSeq(LiveSlots(t) \ ToSet(known), <)

TableBytes(t) ==
    LET order == InOrder(t)
        bodies == [i \in DOMAIN order |-> RecordBytes(t.slots[order[i]][2])]
        first == TableHeaderLen + 4 * Len(t.slots)
        starts == Starts([i \in DOMAIN bodies |-> Len(bodies[i])], first)
        end == first + Len(Joined(bodies))
        region == IF t.indexes[1] = "raw" THEN t.indexes[2] ELSE RegionBytes(t.indexes[2], end)
        Word(i) == CASE t.slots[i][1] = "free" -> t.slots[i][2]
                     [] t.slots[i][1] = "empty" -> 0
                     [] OTHER -> starts[CHOOSE j \in DOMAIN order : order[j] = i]
    IN  Numbers(<<end + Len(region), t.type, Len(order), first, end, t.freeHead, Len(t.slots)>>)
          \o Joined([i \in DOMAIN t.slots |-> Number(Word(i))]) \o Joined(bodies) \o region

\* A word of the slots: nothing, a link (it is odd), or the place of a record.
ReadSlot(data, place, word, end, formats) ==
    LET record == ReadRecord(data, place + word, formats)
    IN  CASE word = 0 -> <<"empty">>
          [] word % 2 = 1 -> <<"free", word>>
          [] word # 0 /\ word % 2 = 0 ->
                 IF word < TableHeaderLen \/ word >= end \/ record = Failed THEN Failed
                 ELSE <<"record", record>>

\* A region that does not come back byte for byte is kept as it is.
ReadRegion(bytes, place, attributes) ==
    LET formats == [id \in {a.id : a \in ToSet(attributes)} |->
                        (CHOOSE a \in ToSet(attributes) : a.id = id).format]
        indexes == Region(formats)!ParseRegion(bytes, place)
    IN  IF indexes # Failed /\ RegionBytes(indexes, place) = bytes
        THEN <<"parsed", indexes>> ELSE <<"raw", bytes>>

AttributesOf(schema, type) == IF type \in DOMAIN schema THEN schema[type] ELSE <<>>

ReadTable(data, place, schema) ==
    LET head == ReadNumbers(data, place + 1, 7)
        size == head.value[1]
        end == head.value[5]
        words == ReadNumbers(data, head.next, head.value[7])
        attributes == AttributesOf(schema, head.value[2])
        formats == [i \in DOMAIN attributes |-> attributes[i].format]
        slots == [i \in DOMAIN words.value |->
                     ReadSlot(data, place, words.value[i], end, formats)]
        region == ReadBytes(data, place + end + 1, size - end)
        live == {i \in DOMAIN slots : slots[i][1] = "record"}
    IN  IF \/ head = Failed
           \/ head.value[7] > MostSlots
           \/ words = Failed
           \/ Failed \in ToSet(slots)
           \/ end > size
           \/ region = Failed
        THEN Failed
        ELSE [type |-> head.value[2], freeHead |-> head.value[6], slots |-> slots,
              layout |-> SetToSortSeq(live, LAMBDA i, j : words.value[i] < words.value[j]),
              indexes |-> ReadRegion(region.value, end, attributes)]

------------------------------------------------------------------------------
(* The schema. A relation is a sequence of attributes, in the order of a record's. *)

SchemaInfo == 0
SchemaIndexes == 1
SchemaAttributes == 2
SchemaParsing == 3

\* The relations of the schema itself, by which a file's own schema is read.
Bootstrap ==
    LET Known(formats) ==
            [i \in DOMAIN formats |-> [id |-> i - 1, format |-> formats[i]]]
        n == "integer"
        b == "bytes"
    IN  (SchemaInfo :> Known(<<n, b>>)) @@ (SchemaIndexes :> Known(<<n, n, n, n, n>>))
          @@ (SchemaAttributes :> Known(<<n, n, n, b, b, n>>))
          @@ (SchemaParsing :> Known(<<n, n, b, b, n, n>>))

\* `AttributeFormat::from_u32', as far as the readers tell formats apart.
FormatNamed(number) ==
    CASE number \in {1, 2} -> "integer" [] number = 5 -> "date" [] OTHER -> "bytes"

\* The live records of a table, slot by slot.
RecordsOf(t) ==
    LET slots == SelectSeq(t.slots, LAMBDA s : s[1] = "record")
    IN  [i \in DOMAIN slots |-> slots[i][2]]

\* One attribute, as its record declares it. Without a format, it is one of bytes.
AttributeOf(r) ==
    [id |-> r.attributes[2][2],
     format |-> IF r.attributes[6] = Absent THEN "bytes" ELSE FormatNamed(r.attributes[6][2])]

\* A variant for the runs: the attributes of a relation stand in the order of their ids.
DeclaredById(records, type) ==
    LET own == SelectSeq(records, LAMBDA r : r.attributes[1] = <<"integer", type>>)
    IN  SortSeq([i \in DOMAIN own |-> AttributeOf(own[i])], LAMBDA a, b : a.id < b.id)

\* What the records of the schema declare of a relation, in the order of their slots.
Declared(records, type) ==
    LET own == SelectSeq(records, LAMBDA r : r.attributes[1] = <<"integer", type>>)
    IN  [i \in DOMAIN own |-> AttributeOf(own[i])]

\* `from_tables': every relation that is declared, but the schema's own stay what they are
\* known to be; every other table has a relation without attributes.
FromTables(tables) ==
    LET ofSchema == SelectSeq(tables, LAMBDA t : t.type = SchemaAttributes)
        records == RecordsOf(ofSchema[1])
        types == {records[i].attributes[1][2] : i \in DOMAIN records}
                   \cup {tables[i].type : i \in DOMAIN tables}
    IN  IF \/ ofSchema = <<>>
           \/ \E i \in DOMAIN records : Absent \in {records[i].attributes[1],
                                                    records[i].attributes[2]}
        THEN Failed
        ELSE [type \in types \cup DOMAIN Bootstrap |->
                 IF type \in DOMAIN Bootstrap THEN Bootstrap[type]
                 ELSE Declared(records, type)]

------------------------------------------------------------------------------
(* The file. *)

\* The tables follow each other; the commit version, which may be missing, comes last.
ImageBytes(image) ==
    LET tables == [i \in DOMAIN image.tables |-> TableBytes(image.tables[i])]
        starts == Starts([i \in DOMAIN tables |-> Len(tables[i])], 8 + 4 * Len(tables))
        size == 8 + 4 * Len(tables) + Len(Joined(tables))
    IN  Signature
          \o Numbers(<<image.version, image.headerSize, FileHeaderLen, image.auth,
                       size, Len(tables)>>)
          \o Joined([i \in DOMAIN tables |-> Number(starts[i])])
          \o Joined(tables)
          \o Numbers(image.commit)

\* `Keychain::parse': the tables of the schema are read first, by what is known of them, and
\* then every table, by the schema that those declare.
ParseImage(data) ==
    LET head == ReadNumbers(data, 5, 4)
        from == head.value[3]
        array == ReadNumbers(data, from + 1, 2)
        commit == ReadNumber(data, from + array.value[1] + 1)
        offsets == ReadNumbers(data, array.next, array.value[2])
        Type(i) == ReadNumber(data, from + offsets.value[i] + 5)
        types == [i \in DOMAIN offsets.value |-> Type(i)]
        known == SelectSeq([i \in DOMAIN types |-> i],
                           LAMBDA i : types[i].value \in DOMAIN Bootstrap)
        first == [i \in DOMAIN known |->
                     ReadTable(data, from + offsets.value[known[i]], Bootstrap)]
        schema == FromTables(first)
        tables == [i \in DOMAIN offsets.value |->
                     ReadTable(data, from + offsets.value[i], schema)]
    IN  IF \/ Len(data) < FileHeaderLen
           \/ ~Expected(data, 1, Signature)
           \/ array = Failed
           \/ 4 * array.value[2] > Len(data)   \* then the offsets run past the file
           \/ offsets = Failed
           \/ Failed \in ToSet(types)
           \/ Failed \in ToSet(first)
           \/ schema = Failed
           \/ Failed \in ToSet(tables)
        THEN Failed
        ELSE [version |-> head.value[1], headerSize |-> head.value[2], auth |-> head.value[4],
              tables |-> tables, commit |-> IF commit = Failed THEN <<>> ELSE <<commit.value>>]

------------------------------------------------------------------------------
(* What the format promises. *)

\* A file reads back as the keychain that was written, with the records that were in no
\* layout at the end of theirs, and a file that was cut short does not read at all, unless
\* only its commit version is lost.
ImageReturns(image, lost) ==
    LET bytes == ImageBytes(image)
        whole == [image EXCEPT !.tables =
                     [i \in DOMAIN @ |-> [@[i] EXCEPT !.layout = InOrder(image.tables[i])]]]
    IN  /\ ParseImage(bytes) = whole
        /\ ParseImage(SubSeq(bytes, 1, Len(bytes) - lost)) =
               CASE lost = 0 -> whole
                 [] lost # 0 /\ lost <= 4 * Len(image.commit) -> [whole EXCEPT !.commit = <<>>]
                 [] OTHER -> Failed
=============================================================================
