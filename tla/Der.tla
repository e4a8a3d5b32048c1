--------------------------------- MODULE Der ---------------------------------
(***************************************************************************)
(* DER elements, the fields of a certificate and of a private key, and the *)
(* PEM text around them. Operators only.                                   *)
(***************************************************************************)
EXTENDS Reading

CONSTANTS
    KeyIdentifierOid, CommonNameOid, RsaOid,    \* object identifiers, as bytes
    LineBytes                                   \* how many bytes go on one line of PEM

Integer == 2
BitString == 3
OctetString == 4
Oid == 6
Sequence == 48
SetOf == 49
Context0 == 160
Context1 == 161
Context3 == 163

------------------------------------------------------------------------------
(* Elements. *)

\* A variant for the runs: a length of 128 still fits one byte.
LengthBytesShort(n) ==
    IF n <= 128 THEN <<n>>
    ELSE LET bytes == SelectInSeq(Number(n), LAMBDA b : b # 0)
         IN  <<128 + 5 - bytes>> \o SubSeq(Number(n), bytes, 4)

\* `push_der_length': the significant bytes of a long length, after their count.
LengthBytes(n) ==
    IF n < 128 THEN <<n>>
    ELSE LET bytes == SelectInSeq(Number(n), LAMBDA b : b # 0)
         IN  <<128 + 5 - bytes>> \o SubSeq(Number(n), bytes, 4)

\* `push_der_element'
Element(tag, contents) == <<tag>> \o LengthBytes(Len(contents)) \o contents

\* `read': where the element's contents start, and the first place past them. A length
\* may have up to four bytes more.
ReadElement(data, at) ==
    LET tag == ReadBytes(data, at, 1)
        first == ReadBytes(data, at + 1, 1).value[1]
        extra == IF first < 128 THEN 0 ELSE first - 128
        bytes == ReadBytes(data, at + 2, extra)
        length == IF first < 128 THEN first
                  ELSE ReadNumber(Zeros(4 - extra) \o bytes.value, 1).value
    IN  IF \/ at + 1 > Len(data)
           \/ first = 128 \/ extra > 4
           \/ bytes = Failed
           \/ ReadBytes(data, bytes.next, length) = Failed
        THEN Failed
        ELSE [tag |-> tag.value[1], at |-> at, start |-> bytes.next,
              next |-> bytes.next + length]

Contents(data, element) == SubSeq(data, element.start, element.next - 1)
Whole(data, element) == SubSeq(data, element.at, element.next - 1)

\* `read_tagged'
ReadTagged(data, at, tag) ==
    LET element == ReadElement(data, at)
    IN  IF element = Failed \/ element.tag # tag THEN Failed ELSE element

\* Elements with these tags, one after another: Failed when one is missing.
ReadFields(data, at, tags) ==
    LET Next(done, tag) ==
            LET one == IF done = Failed THEN Failed ELSE ReadTagged(data, done.next, tag)
            IN  IF one = Failed THEN Failed
                ELSE [fields |-> Append(done.fields, one), next |-> one.next]
        all == FoldLeft(Next, [fields |-> <<>>, next |-> at], tags)
    IN  IF all = Failed THEN Failed ELSE all.fields

\* The elements from a place up to an end, as many as there are: the last may lie past the
\* end, or be Failed.
ReadAll(data, at, end) ==
    LET Rest[place \in at..end] ==
            LET one == ReadElement(data, place)
            IN  CASE place = end -> <<>>
                  [] place < end /\ (one = Failed \/ one.next > end) -> <<one>>
                  [] OTHER -> <<one>> \o Rest[one.next]
    IN  IF at >= end THEN <<>> ELSE Rest[at]

\* The first element of a list for which a test holds, or Failed: a list that does not
\* read up to it has none.
FirstOf(list, Test(_)) ==
    LET hits == {i \in DOMAIN list : list[i] = Failed \/ Test(list[i])}
    IN  IF hits = {} THEN Failed ELSE list[Earliest(hits)]

------------------------------------------------------------------------------
(* Certificates. *)

\* The identifier and the value of an extension. Anything may stand between the two; the
\* critical flag does. One element is read even where the extension has ended.
ReadExtension(data, extension) ==
    LET oid == ReadTagged(data, extension.start, Oid)
        end == IF oid.next < extension.next THEN extension.next ELSE oid.next + 1
        value == FirstOf(ReadAll(data, oid.next, end), LAMBDA e : e.tag = OctetString)
    IN  IF extension.tag # Sequence \/ oid = Failed \/ value = Failed THEN Failed
        ELSE [oid |-> Contents(data, oid), value |-> value]

\* `subject_key_identifier': Failed, or the identifiers, of which there may be none. The
\* extensions after it are not looked at.
KeyIdentifiers(data, from, end) ==
    LET fields == ReadAll(data, from, end)
        holder == FirstOf(fields, LAMBDA e : e.tag = Context3)
        list == ReadTagged(data, holder.start, Sequence)
        Read(e) == IF e = Failed THEN Failed ELSE ReadExtension(data, e)
        all == ReadAll(data, list.start, list.next)
        extensions == [i \in DOMAIN all |-> Read(all[i])]
        found == FirstOf(extensions, LAMBDA x : x.oid = KeyIdentifierOid)
        inner == ReadTagged(data, found.value.start, OctetString)
    IN  CASE holder = Failed -> IF Failed \in ToSet(fields) THEN Failed ELSE <<>>
          [] holder # Failed /\ list = Failed -> Failed
          [] holder # Failed /\ list # Failed /\ found = Failed ->
                 IF Failed \in ToSet(extensions) THEN Failed ELSE <<>>
          [] OTHER -> IF inner = Failed THEN Failed ELSE <<Contents(data, inner)>>

\* `common_name': the value in the first pair that has its identifier; nothing that does
\* not read may stand before it.
CommonNames(data, name) ==
    LET Pairs(rdn) == CASE rdn = Failed -> <<Failed>>
                        [] rdn # Failed /\ rdn.tag = SetOf -> ReadAll(data, rdn.start, rdn.next)
                        [] OTHER -> <<>>
        rdns == ReadAll(data, name.start, name.next)
        pairs == Joined([i \in DOMAIN rdns |-> Pairs(rdns[i])])
        oids == [i \in DOMAIN pairs |->
                     IF pairs[i] = Failed THEN Failed ELSE ReadElement(data, pairs[i].start)]
        named == FirstOf(oids, LAMBDA e : e.tag = Oid /\ Contents(data, e) = CommonNameOid)
        value == ReadElement(data, named.next)
    IN  IF named = Failed \/ value = Failed THEN <<>> ELSE <<Contents(data, value)>>

\* A variant for the runs: a certificate always has a version.
SkipVersionAlways(data, at) == ReadElement(data, at).next

\* The version is optional.
SkipVersion(data, at) ==
    LET first == ReadElement(data, at)
    IN  IF first # Failed /\ first.tag = Context0 THEN first.next ELSE at

\* `Certificate::parse'
ParseCertificate(data) ==
    LET certificate == ReadTagged(data, 1, Sequence)
        tbs == ReadTagged(data, certificate.start, Sequence)
        fields == ReadFields(data, SkipVersion(data, tbs.start),
                             <<Integer, Sequence, Sequence, Sequence, Sequence, Sequence>>)
        key == ReadFields(data, fields[6].start, <<Sequence, BitString>>)
        identifiers == KeyIdentifiers(data, key[2].next, tbs.next)
    IN  IF \/ certificate = Failed \/ tbs = Failed \/ fields = Failed \/ key = Failed
           \/ key[2].start = key[2].next
           \/ identifiers = Failed
        THEN Failed
        ELSE [serial |-> Contents(data, fields[1]),
              issuer |-> Whole(data, fields[3]),
              subject |-> Whole(data, fields[5]),
              publicKey |-> Tail(Contents(data, key[2])),
              keyIdentifier |-> identifiers,
              commonName |-> CommonNames(data, fields[5])]

------------------------------------------------------------------------------
(* Private keys. *)

\* `PrivateKeyInfo::parse'
ParseKeyInfo(data) ==
    LET info == ReadTagged(data, 1, Sequence)
        fields == ReadFields(data, info.start, <<Integer, Sequence, OctetString>>)
        oid == ReadTagged(data, fields[2].start, Oid)
    IN  IF info = Failed \/ fields = Failed \/ oid = Failed THEN Failed
        ELSE [algorithm |-> Contents(data, oid), key |-> Contents(data, fields[3])]

\* `rsa_key_size_in_bits': a leading zero only keeps the number positive.
KeySize(info) ==
    LET sequence == ReadTagged(info.key, 1, Sequence)
        fields == ReadFields(info.key, sequence.start, <<Integer, Integer>>)
        modulus == Contents(info.key, fields[2])
        first == SelectInSeq(modulus, LAMBDA b : b # 0)
    IN  IF info.algorithm # RsaOid \/ sequence = Failed \/ fields = Failed THEN Failed
        ELSE IF first = 0 THEN 0 ELSE 8 * (Len(modulus) + 1 - first)

\* `is_pkcs1_rsa_private_key': a version and eight numbers, and for more than two primes
\* a sequence of the others; nothing after it.
IsRsaKey(data) ==
    LET sequence == ReadTagged(data, 1, Sequence)
        fields == ReadFields(data, sequence.start, [i \in 1..9 |-> Integer])
        others == ReadTagged(data, fields[9].next, Sequence)
        version == Contents(data, fields[1])
    IN  /\ sequence # Failed
        /\ sequence.next = Len(data) + 1
        /\ fields # Failed
        /\ \A i \in 2..9 : Contents(data, fields[i]) # <<>>
        /\ \/ version = <<0>> /\ fields[9].next = sequence.next
           \/ version = <<1>> /\ others # Failed /\ others.next = sequence.next

\* `decode_private_key', after the text around the key is gone: a traditional key is
\* wrapped as it is.
DecodeKey(data) ==
    CASE ParseKeyInfo(data) # Failed -> data
      [] ParseKeyInfo(data) = Failed /\ IsRsaKey(data) ->
             Element(Sequence, <<2, 1, 0>>
                                 \o Element(Sequence, Element(Oid, RsaOid) \o <<5, 0>>)
                                 \o Element(OctetString, data))
      [] OTHER -> Failed

------------------------------------------------------------------------------
(* PEM: a text is a sequence of lines. *)

Begin(label) == <<"begin", label>>
End(label) == <<"end", label>>

\* `to_pem'
ToPem(label, der) ==
    LET count == (Len(der) + LineBytes - 1) \div LineBytes
        Line(i) == SubSeq(der, LineBytes * (i - 1) + 1,
                          IF i = count THEN Len(der) ELSE LineBytes * i)
    IN  <<Begin(label)>> \o [i \in 1..count |-> <<"bytes", Line(i)>>] \o <<End(label)>>

\* What stands after a line up to the next end, whatever the end is of.
BlockAt(lines, at) ==
    LET ends == {i \in at + 1..Len(lines) : lines[i][1] = "end"}
        last == IF ends = {} THEN Len(lines) ELSE Earliest(ends) - 1
    IN  Joined([i \in 1..last - at |-> lines[at + i][2]])

\* `pem_block': the first block with the label, or else the first block of the text. Bytes
\* that are not a text with a block in it are DER as they are, and not modelled here.
PemBlock(lines, label) ==
    LET starts == {i \in DOMAIN lines : lines[i][1] = "begin"}
        labelled == {i \in starts : lines[i] = Begin(label)}
    IN  CASE labelled # {} -> BlockAt(lines, Earliest(labelled))
          [] labelled = {} /\ starts # {} -> BlockAt(lines, Earliest(starts))
          [] OTHER -> Failed

\* The key of a text: a traditional block comes before any other.
PemKey(lines) ==
    LET label == IF Begin("RSA PRIVATE KEY") \in ToSet(lines) THEN "RSA PRIVATE KEY"
                 ELSE "PRIVATE KEY"
    IN  IF PemBlock(lines, label) = Failed THEN Failed ELSE DecodeKey(PemBlock(lines, label))

\* `is_combined_pem': a certificate and an unencrypted key in one text.
IsCombined(lines) ==
    /\ Begin("CERTIFICATE") \in ToSet(lines)
    /\ {Begin("PRIVATE KEY"), Begin("RSA PRIVATE KEY")} \cap ToSet(lines) # {}

\* `Identity::from_pem', and `decode_identity' of a text. A PKCS#12 container is read by a
\* library.
IdentityFromPem(lines) ==
    LET key == PemKey(lines)
    IN  IF ~IsCombined(lines) \/ key = Failed THEN Failed
        ELSE [certificate |-> PemBlock(lines, "CERTIFICATE"), key |-> key]

\* `Identity::to_pem'
IdentityToPem(identity) ==
    ToPem("CERTIFICATE", identity.certificate) \o ToPem("PRIVATE KEY", identity.key)

------------------------------------------------------------------------------
(* What the formats promise. *)

\* An element reads back as it was written, whatever stands after it, and no part of it
\* does.
ElementReturns(tag, contents) ==
    LET bytes == Element(tag, contents)
        read == ReadElement(bytes \o <<tag>>, 1)
    IN  /\ read # Failed
        /\ read.tag = tag
        /\ read.next = Len(bytes) + 1
        /\ Contents(bytes, read) = contents
        /\ \A n \in 0..(Len(bytes) - 1) : ReadElement(SubSeq(bytes, 1, n), 1) = Failed

\* A certificate as RFC 5280 lays it out, from the parts that a record keeps.
NameElement(pairs) ==
    LET Set(pair) == Element(SetOf, Element(Sequence, Element(Oid, pair[1])
                                                        \o Element(12, pair[2])))
    IN  Element(Sequence, Joined([i \in DOMAIN pairs |-> Set(pairs[i])]))

ExtensionElement(extension) ==
    Element(Sequence,
            Element(Oid, extension.oid)
              \o (IF extension.critical THEN <<1, 1, 255>> ELSE <<>>)
              \o Element(OctetString, Element(OctetString, extension.value)))

CertificateElement(parts) ==
    LET algorithm == Element(Sequence, Element(Oid, RsaOid))
        extensions == [i \in DOMAIN parts.extensions |->
                           ExtensionElement(parts.extensions[i])]
    IN  Element(Sequence,
            Element(Sequence,
                    (IF parts.version THEN Element(Context0, Element(Integer, <<2>>))
                     ELSE <<>>)
                      \o Element(Integer, parts.serial) \o algorithm
                      \o NameElement(parts.issuer) \o Element(Sequence, <<>>)
                      \o NameElement(parts.subject)
                      \o Element(Sequence, algorithm
                                             \o Element(BitString, <<0>> \o parts.publicKey))
                      \o (IF parts.uniqueId THEN Element(Context1, <<7>>) ELSE <<>>)
                      \o (IF extensions = <<>> THEN <<>>
                          ELSE Element(Context3, Element(Sequence, Joined(extensions)))))
              \o algorithm \o Element(BitString, <<0, 9>>))

\* A record keeps the certificate's own fields, wherever the optional ones before them
\* have moved them.
CertificateReturns(parts) ==
    LET FirstValue(list, Fits(_), Value(_)) ==
            LET hits == SelectSeq(list, Fits)
            IN  IF hits = <<>> THEN <<>> ELSE <<Value(hits[1])>>
    IN  ParseCertificate(CertificateElement(parts)) =
            [serial |-> parts.serial,
             issuer |-> NameElement(parts.issuer),
             subject |-> NameElement(parts.subject),
             publicKey |-> parts.publicKey,
             keyIdentifier |-> FirstValue(parts.extensions,
                                          LAMBDA x : x.oid = KeyIdentifierOid,
                                          LAMBDA x : x.value),
             commonName |-> FirstValue(parts.subject, LAMBDA pair : pair[1] = CommonNameOid,
                                       LAMBDA pair : pair[2])]

\* A traditional key, with or without the primes past the second.
RsaKey(modulus, others) ==
    Element(Sequence,
            Element(Integer, <<IF others = <<>> THEN 0 ELSE 1>>)
              \o Element(Integer, modulus)
              \o Joined([i \in 1..7 |-> Element(Integer, <<i>>)])
              \o (IF others = <<>> THEN <<>> ELSE Element(Sequence, others)))

\* An import keeps the key that it was given: wrapped once, never twice, its size that of
\* its modulus; and nothing that is only a part of a key is taken for one.
KeyReturns(modulus, others) ==
    LET key == RsaKey(modulus, others)
        der == DecodeKey(key)
    IN  /\ der # Failed
        /\ ParseKeyInfo(der) = [algorithm |-> RsaOid, key |-> key]
        /\ DecodeKey(der) = der
        /\ KeySize(ParseKeyInfo(der)) =
               8 * Cardinality({i \in DOMAIN modulus : \E j \in 1..i : modulus[j] # 0})
        /\ \A n \in 0..(Len(key) - 1) : DecodeKey(SubSeq(key, 1, n)) = Failed
        /\ DecodeKey(Append(key, 0)) = Failed

\* A text that holds an identity gives back both halves, whichever comes first and
\* whichever form its key has; what is written from it reads as the same identity; one
\* half alone is not an identity.
IdentityReturns(certificate, modulus, traditional, keyFirst) ==
    LET key == RsaKey(modulus, <<>>)
        halves == <<ToPem("CERTIFICATE", certificate),
                    IF traditional THEN ToPem("RSA PRIVATE KEY", key)
                    ELSE ToPem("PRIVATE KEY", DecodeKey(key))>>
        identity == [certificate |-> certificate, key |-> DecodeKey(key)]
    IN  /\ IdentityFromPem(Joined(IF keyFirst THEN Reverse(halves) ELSE halves)) = identity
        /\ IdentityFromPem(IdentityToPem(identity)) = identity
        /\ \A i \in 1..2 : IdentityFromPem(halves[i]) = Failed
=============================================================================
