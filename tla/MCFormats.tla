------------------------------ MODULE MCFormats ------------------------------
(***************************************************************************)
(* One sample at a time of what the formats carry, and what each format    *)
(* promises of it. Every kind of sample has an action that picks one.      *)
(***************************************************************************)
EXTENDS Query, KeyBlobs, KeychainImage, Der, HelperWire, TLC

VARIABLE sample

Kinds == {"words", "predicate", "like", "answers", "acl", "decision", "indexes", "image",
          "element", "certificate", "key", "identity",
          "secret", "database", "keyblob", "legacy", "frames", "number", "handshake"}
Start(kind) == [of |-> "start", kind |-> kind]

TextsOver(chars, n) == UNION {[1..k -> chars] : k \in 0..n}
WordsOver(chars, n) == TextsOver(chars, n) \ {<<>>}

Field == <<"f">>
MCClassField == <<"k">>
MCClasses == {<<"a">>, <<"%">>}
MCCanonical(field) == IF field = <<"F">> THEN Field ELSE field

------------------------------------------------------------------------------
PickWords ==
    /\ sample = Start("words")
    /\ \E words \in TextsOver(WordsOver({"a", " ", "'", "\"", "\\"}, 2), 2), quote \in Quotes :
           /\ quote = "'" => \A i \in DOMAIN words : Positions(words[i], "'") = {}
           /\ sample' = [of |-> "words", words |-> words, quote |-> quote]

PickPredicate ==
    /\ sample = Start("predicate")
    /\ \E field \in {Field, <<"F">>, MCClassField}, fold \in SUBSET {"c", "d"},
          comparison \in Comparisons,
          value \in TextsOver({"a", "=", "<", ":", "[", "%", "\\"}, 3) :
           LET p == [field |-> field, fold |-> fold, comparison |-> comparison, value |-> value]
           IN  sample' = [of |-> "predicate", predicate |-> p]

PickLike ==
    /\ sample = Start("like")
    /\ \E text \in TextsOver({"a", "b", "%"}, 3), pattern \in TextsOver({"a", "%", "_", "\\"}, 3) :
           sample' = [of |-> "like", text |-> text, pattern |-> pattern]

Types == {"text", "number", "boolean", "date", "garbled date"}

PickAnswers ==
    /\ sample = Start("answers")
    /\ \E p, q \in [field : {"f", "g"}, comparison : Comparisons,
                    value : [reads : {0, 1},
                             types : {{}, {"number", "boolean"}, {"date"}}, like : {TRUE}]],
          item \in {<<>>} \cup [{"f"} -> [type : Types, value : {0, 1}]] :
           sample' = [of |-> "answers", predicates |-> <<p, q>>, item |-> item]

------------------------------------------------------------------------------
\* Text of n bytes that are not zero.
Bytes(n) == [i \in 1..n |-> 96 + i]

Application(m, n) == FromBlob(Bytes(m), RequirementMagic \o Number(8 + n) \o Zeros(n))

AppLists == {<<>>} \cup {<<Application(m, n)>> : m \in {0, 3, 4}, n \in {0, 1, 4}}
              \cup {<<Application(0, 1), Application(4, 0)>>,
                    <<Application(3, 4), Application(3, 5)>>}

PickAcl ==
    /\ sample = Start("acl")
    /\ \E owner \in {Bytes(n) : n \in {1, 4}}, count \in 0..2,
          subject \in {AnyApplication} \cup {OnlyThese(apps) : apps \in AppLists},
          name \in {Bytes(n) : n \in {0, 3, 4}}, tags \in {<<>>, Tag35, ItemAccess},
          prefix \in {<<0, 0>>, <<0, 7>>} :
           LET entry == [subject |-> subject, name |-> name, prefix |-> prefix, tags |-> tags]
               open == [subject |-> AnyApplication, name |-> owner, prefix |-> <<0, 0>>,
                        tags |-> Tag35]
           IN  sample' = [of |-> "acl",
                          blob |-> [owner |-> owner, entries |-> SubSeq(<<entry, open>>, 1, count)]]

PickDecision ==
    /\ sample = Start("decision")
    /\ \E name \in {Bytes(n) : n \in 0..5}, access \in Accesses(AppLists) :
           sample' = [of |-> "decision", name |-> name, access |-> access]

------------------------------------------------------------------------------
MCFormat == [id \in {1, 2, 3} |-> IF id = 2 THEN "integer" ELSE "bytes"]

\* An item with or without the text of attribute 1 and the number of attribute 2.
Item(text, number) ==
    [id \in (IF text = <<>> THEN {} ELSE {1}) \cup (IF number = <<>> THEN {} ELSE {2}) |->
        IF id = 1 THEN text[1] ELSE number[1]]

PickIndexes ==
    /\ sample = Start("indexes")
    /\ \E ids \in {<<1>>, <<1, 2>>, <<2, 3, 1>>, <<9>>}, records \in 0..2, count \in 0..2,
          table \in {0, 28, 300}, shift \in {-8, -4, 4, 12},
          text \in {<<>>} \cup {<<Bytes(n)>> : n \in {1, 3, 4}}, number \in {<<>>, <<70000>>} :
           LET Entry(record, item, list) ==
                   [record |-> record, key |-> [i \in DOMAIN list |-> KeyValue(list[i], item)]]
               Index(id, list) ==
                   [id |-> id, kind |-> id % 2, attributes |-> list,
                    entries |-> SubSeq(<<Entry(7, Item(text, number), list),
                                         Entry(2, Item(<<Bytes(2)>>, <<>>), list)>>, 1, records)]
           IN  sample' = [of |-> "indexes", table |-> table, moved |-> table + shift,
                          indexes |-> SubSeq(<<Index(1, ids), Index(2, <<2>>)>>, 1, count)]

\* A relation of three attributes whose order is not that of their ids, a file with its
\* table, and one table whose relation the schema does not declare.
PickImage ==
    /\ sample = Start("image")
    /\ \E ids \in {<<3, 1, 2>>, <<2, 3, 1>>}, records \in 0..2, layout \in {<<>>, <<3, 1>>},
          keyLength \in {0, 3}, full, parsed, schemaFirst \in BOOLEAN,
          commit \in {<<>>, <<7>>}, lost \in {1, 4, 5, 40} :
           LET Kind(id) == <<"bytes", "integer", "date">>[id]
               Value(id) == <<Kind(id), CASE id = 1 -> Bytes(keyLength + 1) [] id = 2 -> 258
                                            [] OTHER -> Bytes(DateLen)>>
               Record(n, attributes) ==
                   [number |-> n, version |-> 5, unknown3 |-> 4, unknown5 |-> 0,
                    keyData |-> Bytes(keyLength), attributes |-> attributes]
               Declares(id) ==
                   <<<<"integer", 10>>, <<"integer", id>>, <<"integer", 0>>, <<"bytes", Bytes(id)>>,
                     Absent, IF id = 1 THEN Absent ELSE <<"integer", IF id = 2 THEN 2 ELSE 5>>>>
               Table(type, slots, order, region) ==
                   [type |-> type, freeHead |-> 33, slots |-> slots, layout |-> order,
                    indexes |-> region]
               schema == Table(SchemaAttributes,
                               [i \in 1..3 |-> <<"record", Record(i - 1, Declares(ids[i]))>>],
                               <<1, 2, 3>>, <<"raw", <<>>>>)
               Of(i) == [j \in 1..3 |-> IF full \/ i = j THEN Value(ids[j]) ELSE Absent]
               index == [id |-> 0, kind |-> 1, attributes |-> <<2, 1>>,
                         entries |-> <<[record |-> 0, key |-> <<Value(2), Value(1)>>]>>]
               items == Table(10, SubSeq(<<<<"record", Record(0, Of(1))>>, <<"free", 29>>,
                                           <<"record", Record(2, Of(2))>>, <<"empty">>>>,
                                         1, records + 2),
                              layout,
                              IF parsed THEN <<"parsed", <<index>>>> ELSE <<"raw", <<0, 9>>>>)
               others == Table(11, <<<<"record", Record(0, <<>>)>>>>, <<1>>, <<"raw", <<>>>>)
           IN  /\ commit = <<>> => lost = 1
               /\ sample' = [of |-> "image", lost |-> lost,
                             image |-> [version |-> 65536, headerSize |-> 16, auth |-> 0,
                                        commit |-> commit,
                                        tables |-> IF schemaFirst THEN <<schema, items, others>>
                                                   ELSE <<items, others, schema>>]]

------------------------------------------------------------------------------
MCKeyIdentifierOid == <<85, 29, 14>>
MCCommonNameOid == <<85, 4, 3>>
MCRsaOid == <<42, 134, 72, 134, 247, 13, 1, 1, 1>>

PickElement ==
    /\ sample = Start("element")
    /\ \E tag \in {Sequence, Context0}, n \in {0, 1, 2, 127, 128, 129, 255, 256, 257} :
           sample' = [of |-> "element", tag |-> tag, contents |-> [i \in 1..n |-> i % 256]]

Names == {<<>>} \cup {<<<<CommonNameOid, <<67>>>>>>, <<<<<<85>>, <<68>>>>>>,
          <<<<<<85>>, <<68>>>>, <<CommonNameOid, <<67>>>>, <<CommonNameOid, <<69>>>>>>}

Extensions == {[oid |-> oid, critical |-> critical, value |-> <<value>>] :
               oid \in {KeyIdentifierOid, <<85>>}, critical \in BOOLEAN, value \in {1, 4}}

PickCertificate ==
    /\ sample = Start("certificate")
    /\ \E version, uniqueId \in BOOLEAN, serial \in {<<1>>, <<0, 200>>}, subject \in Names,
          publicKey \in {<<>>, <<3, 0>>},
          extensions \in {<<>>} \cup {<<x>> : x \in Extensions}
                           \cup {<<x, y>> : x, y \in Extensions} :
           sample' = [of |-> "certificate",
                      parts |-> [version |-> version, uniqueId |-> uniqueId, serial |-> serial,
                                 issuer |-> <<<<CommonNameOid, <<70>>>>>>, subject |-> subject,
                                 publicKey |-> publicKey, extensions |-> extensions]]

PickKey ==
    /\ sample = Start("key")
    /\ \E modulus \in {<<5>>, <<0, 200, 0>>, [i \in 1..120 |-> i], [i \in 1..250 |-> i % 9]},
          others \in {<<>>, <<2, 1, 3>>} :
           sample' = [of |-> "key", modulus |-> modulus, others |-> others]

PickIdentity ==
    /\ sample = Start("identity")
    /\ \E n \in {0, 1, 4, 5, 8}, modulus \in {<<5>>, <<0, 200>>}, traditional, first \in BOOLEAN :
           sample' = [of |-> "identity", certificate |-> Bytes(n), modulus |-> modulus,
                      traditional |-> traditional, keyFirst |-> first]

------------------------------------------------------------------------------
(* A cipher and a hash that are small enough to run. Each block of the cipher is a          *)
(* permutation of bytes that depends on the key; a block is added to the one before it.     *)

Blocks(data) == Len(data) \div BlockSize
Block(data, i) == SubSeq(data, BlockSize * (i - 1) + 1, BlockSize * i)

MCEncipher(key, iv, data) ==
    LET Cipher[i \in 0..Blocks(data)] ==
            IF i = 0 THEN iv
            ELSE LET before == Cipher[i - 1]
                     block == Block(data, i)
                 IN  [j \in 1..BlockSize |->
                         (3 * (block[j] + before[j]) + key[j] + key[j + 8] + key[j + 16]) % 256]
    IN  Joined([i \in 1..Blocks(data) |-> Cipher[i]])

\* 171 is the inverse of 3.
MCDecipher(key, iv, data) ==
    LET before(i) == IF i = 1 THEN iv ELSE Block(data, i - 1)
        Plain(i) ==
            [j \in 1..BlockSize |->
                (171 * (Block(data, i)[j] + 3 * 256 - key[j] - key[j + 8] - key[j + 16])
                   + 256 - before(i)[j]) % 256]
    IN  Joined([i \in 1..Blocks(data) |-> Plain(i)])

RECURSIVE Checksum(_)
Checksum(bytes) ==
    LET half == Len(bytes) \div 2
    IN  CASE Len(bytes) = 0 -> 7
          [] Len(bytes) = 1 -> bytes[1] + 1
          [] OTHER -> (31 * Checksum(SubSeq(bytes, 1, half))
                         + 17 * Checksum(SubSeq(bytes, half + 1, Len(bytes)))
                         + Len(bytes)) % 65521

MCHash(bytes) ==
    LET sum == Checksum(bytes)
    IN  <<sum \div 256, sum % 256>> \o Zeros(SigLen - 2)

MCMasterKey(password, salt) ==
    [i \in 1..KeyLen |-> (password[(i % Len(password)) + 1] + salt[(i % Len(salt)) + 1] + i) % 256]

KeyOf(seed) == [i \in 1..KeyLen |-> (seed * i) % 256]
VectorOf(seed) == [i \in 1..BlockSize |-> (seed + i) % 256]

------------------------------------------------------------------------------
\* Data of every length around one, two and three blocks, that ends like a padding too.
PickSecret ==
    /\ sample = Start("secret")
    /\ \E seed \in {1, 77}, iv \in {0, 250}, n \in 0..25, last \in {0, 1, 2, 8, 200},
          tail \in {0, 1, 2, 8} :
           /\ tail <= n
           /\ sample' = [of |-> "secret", key |-> KeyOf(seed), iv |-> VectorOf(iv),
                         data |-> [i \in 1..n |-> IF i > n - tail THEN last ELSE i]]

PickDatabase ==
    /\ sample = Start("database")
    /\ \E version \in {256, 257, 512}, lock \in BOOLEAN, acl \in {0, 28}, private \in {0, 5},
          place \in 1..(DbBlobLen + 28 + 56) :
           /\ place <= DbBlobLen + acl + 48 + (IF private = 5 THEN 8 ELSE 0)
           /\ sample' =
                  [of |-> "database", place |-> place, password |-> <<1, 2, 3>>,
                   keys |-> [encryption |-> KeyOf(3), signing |-> SubSeq(KeyOf(5), 1, SigLen),
                             acl |-> Zeros(private)],
                   blob |-> [version |-> version, random |-> Bytes(16), sequence |-> 1,
                             idle |-> 300, lockOnSleep |-> lock, padding |-> <<170, 170, 170>>,
                             salt |-> Bytes(20), iv |-> VectorOf(9), signature |-> Zeros(SigLen),
                             acl |-> Bytes(acl), crypto |-> <<>>]]

\* An access list that this program writes, one with a byte in a name's padding, and one
\* that is none.
KeyAcls ==
    LET written == AclBytes(ForItemAccess(Bytes(1), <<"Trusted", <<Application(3, 1)>>>>))
    IN  {written, [written EXCEPT ![27] = 1], <<>>, Bytes(5)}

PickKeyBlob ==
    /\ sample = Start("keyblob")
    /\ \E version \in {256, 512}, acl \in KeyAcls, length \in {8, 48},
          place \in 1..(KeyBlobLen + 200) :
           /\ place <= KeyBlobLen + Len(acl) + length
           /\ sample' =
                  [of |-> "keyblob", place |-> place, acl |-> acl,
                   key |-> SubSeq(KeyOf(5), 1, SigLen),
                   blob |-> [version |-> version, iv |-> VectorOf(1), header |-> Bytes(76),
                             wrapped |-> Bytes(16), signature |-> Zeros(SigLen),
                             acl |-> <<>>, crypto |-> Bytes(length)]]

PickLegacy ==
    /\ sample = Start("legacy")
    /\ \E seed \in {1, 9}, m, n \in {0, 1, 7} :
           sample' = [of |-> "legacy", key |-> KeyOf(seed), chunk |-> Bytes(m),
                      other |-> Bytes(n)]

------------------------------------------------------------------------------
PickFrames ==
    /\ sample = Start("frames")
    /\ \E bodies \in TextsOver({<<>>, <<1>>, Bytes(3), Bytes(6), Bytes(7)}, 3), cut \in 0..30 :
           /\ cut <= Len(Joined(Sent(bodies)))
           /\ sample' = [of |-> "frames", bodies |-> bodies, cut |-> cut]

PickNumber ==
    /\ sample = Start("number")
    /\ \E n, other \in {0, 1, 255, 256, 257, 511, 65535, 65536, 70000}, length \in 0..4 :
           sample' = [of |-> "number", n |-> n, other |-> other, length |-> length]

PickHandshake ==
    /\ sample = Start("handshake")
    /\ \E a, b \in 0..6, x, u, k \in {0, 1, 2, 5, 10} :
           sample' = [of |-> "handshake", a |-> a, b |-> b, x |-> x, u |-> u, k |-> k]

------------------------------------------------------------------------------
Init == sample \in {Start(kind) : kind \in Kinds}

Next ==
    \/ PickWords \/ PickPredicate \/ PickLike \/ PickAnswers
    \/ PickAcl \/ PickDecision
    \/ PickIndexes \/ PickImage
    \/ PickElement \/ PickCertificate \/ PickKey \/ PickIdentity
    \/ PickSecret \/ PickDatabase \/ PickKeyBlob \/ PickLegacy
    \/ PickFrames \/ PickNumber \/ PickHandshake
    \/ sample.of # "start" /\ sample' = Start(sample.of)

Spec == Init /\ [][Next]_sample

\* The properties are of the steps that pick a sample, each of which is picked once.
Picked(kind) == sample'.of = kind

\* `kc get' finds the item that its user described: quoted words stay whole, and a
\* predicate that is spelled out means the comparison that was meant.
QueryReadsBack == [][
    /\ Picked("words") => QuotedWordsReturn(sample'.words, sample'.quote)
    /\ Picked("predicate") => SpelledPredicateReturns(sample'.predicate)]_sample

\* The table in `like' finds a match just when the text splits as the pattern says.
LikeMatchesSplits == [][
    Picked("like") => (Like(sample'.text, sample'.pattern) <=>
                       LikeReference(sample'.text, sample'.pattern))]_sample

\* A conjunction says what its parts say, in any order, and no item answers both a
\* comparison and its opposite.
AnswersAreSound == [][
    Picked("answers") => AnswersAgree(sample'.predicates, sample'.item)]_sample

\* The access list of a key holds the decision that was made for its item: written, it
\* reads back whole or not at all.
AclReadsBack == [][
    /\ Picked("acl") => AclReturns(sample'.blob)
    /\ Picked("decision") => DecisionReturns(sample'.name, sample'.access)]_sample

\* An index region reads back at its place in the table and nowhere else.
RegionReadsBack == [][
    Picked("indexes") => RegionReturns(sample'.indexes, sample'.table, sample'.moved)]_sample

\* A keychain file reads back as it was written, by the schema that it declares itself, and
\* one that was cut short is refused.
ImageReadsBack == [][Picked("image") => ImageReturns(sample'.image, sample'.lost)]_sample

\* What is imported is kept as it was: elements of any length, the fields of a
\* certificate wherever they stand, a key in either form, the halves of an identity.
DerReadsBack == [][
    /\ Picked("element") => ElementReturns(sample'.tag, sample'.contents)
    /\ Picked("certificate") => CertificateReturns(sample'.parts)
    /\ Picked("key") => KeyReturns(sample'.modulus, sample'.others)
    /\ Picked("identity") =>
           IdentityReturns(sample'.certificate, sample'.modulus, sample'.traditional,
                           sample'.keyFirst)]_sample

\* A secret, whatever its length and its last bytes, comes back from its payload, and a key
\* from its wrapping.
SecretsComeBack == [][
    Picked("secret") => SecretReturns(sample'.key, sample'.iv, sample'.data)]_sample

\* What verifies is what was signed: no byte of a database blob or of a key blob can change
\* without that showing, and both come back whole.
SignedBlobsReadBack == [][
    /\ Picked("database") =>
           DatabaseReturns(sample'.blob, sample'.password, sample'.keys, sample'.place)
    /\ Picked("keyblob") =>
           KeyBlobReturns(sample'.blob, sample'.acl, sample'.key, sample'.place)
    /\ Picked("legacy") =>
           LegacyDiffersPerChunk(sample'.key, sample'.chunk, sample'.other)]_sample

\* A stream that ends anywhere gives the frames that are whole, and says whether it ended in
\* the middle of one; a number survives its bytes.
WireReadsBack == [][
    /\ Picked("frames") => FramesArrive(sample'.bodies, sample'.cut)
    /\ Picked("number") => NumberReturns(sample'.n, sample'.other, sample'.length)]_sample

\* The command and the helper have one key after a handshake that neither refused.
HandshakeAgrees == [][
    Picked("handshake") =>
        SecretsAgree(sample'.a, sample'.b, sample'.x, sample'.u, sample'.k)]_sample
=============================================================================
