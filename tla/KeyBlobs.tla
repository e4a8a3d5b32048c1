------------------------------ MODULE KeyBlobs -------------------------------
(***************************************************************************)
(* The blobs that keep a keychain's secrets: the database blob, the key    *)
(* blob of an item or an identity, the payload of an item; their padding,  *)
(* wrapping and signatures. Operators only.                                *)
(*                                                                         *)
(* The cipher, the hash and the key derivation are libraries: parameters   *)
(* here. A key is a sequence of bytes, as is everything that it protects.  *)
(***************************************************************************)
EXTENDS AclBlob

CONSTANTS
    Encipher(_, _, _),      \* CBC of whole blocks: key, first vector, bytes
    Decipher(_, _, _),
    Hash(_),                \* of SigLen bytes
    MasterKey(_, _),        \* of a password and a salt
    MacBlock,               \* how many bytes the hash takes of a key
    WrongPassword           \* what a decryption is that finds no padding

BlockSize == 8
KeyLen == 24
SigLen == 20
BlobMagic == <<250, 222, 7, 17>>
LegacyVersion == 256
MagicCmsIv == <<74, 221, 162, 44, 121, 232, 33, 5>>
SsgpMagic == <<115, 115, 103, 112>>

------------------------------------------------------------------------------
(* Padding. *)

\* A variant for the runs: bytes that fill their last block are not padded.
PaddedShort(data) ==
    LET pad == (BlockSize - (Len(data) % BlockSize)) % BlockSize
    IN  data \o [i \in 1..pad |-> pad]

\* A block of padding is added to bytes that fill their last block.
Padded(data) ==
    LET pad == BlockSize - (Len(data) % BlockSize)
    IN  data \o [i \in 1..pad |-> pad]

Encrypt(key, iv, data) ==
    IF Len(key) # KeyLen \/ Len(iv) # BlockSize THEN Failed
    ELSE Encipher(key, iv, Padded(data))

\* Every byte of the padding says how long it is.
Unpadded(data) ==
    LET pad == data[Len(data)]
    IN  IF pad \notin 1..BlockSize \/ \E i \in 0..(pad - 1) : data[Len(data) - i] # pad
        THEN WrongPassword ELSE SubSeq(data, 1, Len(data) - pad)

Decrypt(key, iv, data) ==
    IF \/ Len(key) # KeyLen \/ Len(iv) # BlockSize
       \/ data = <<>> \/ Len(data) % BlockSize # 0
    THEN Failed ELSE Unpadded(Decipher(key, iv, data))

------------------------------------------------------------------------------
(* Wrapped keys. *)

\* A variant for the runs: the vector is not turned round with the rest.
WrapBlobUnturned(key, iv, material) ==
    LET inner == Encrypt(key, iv, Number(0) \o material)
    IN  IF inner = Failed THEN Failed ELSE Encrypt(key, MagicCmsIv, iv \o Reverse(inner))

\* `wrap_blob': no descriptive data before the key.
WrapBlob(key, iv, material) ==
    LET inner == Encrypt(key, iv, Number(0) \o material)
    IN  IF inner = Failed THEN Failed ELSE Encrypt(key, MagicCmsIv, Reverse(iv \o inner))

\* `unwrap_blob': the vector in the header decides, wherever the one inside differs.
UnwrapBlob(key, iv, wrapped) ==
    LET outer == Decrypt(key, MagicCmsIv, wrapped)
        inner == Decrypt(key, iv, SubSeq(Reverse(outer), BlockSize + 1, Len(outer)))
        descriptive == ReadNumber(inner, 1)
    IN  CASE outer \in {Failed, WrongPassword} -> outer
          [] outer \notin {Failed, WrongPassword} /\ Len(outer) < 3 * BlockSize -> Failed
          [] outer \notin {Failed, WrongPassword} /\ inner \in {Failed, WrongPassword} -> inner
          [] OTHER -> IF descriptive = Failed \/ Len(inner) <= 4 + descriptive.value
                      THEN Failed
                      ELSE SubSeq(inner, 5 + descriptive.value, Len(inner))

\* `wrap_key' and `unwrap_key': the key of an item.
WrapKey(key, iv, material) ==
    IF Len(material) # KeyLen THEN Failed ELSE WrapBlob(key, iv, material)

UnwrapKey(key, iv, wrapped) ==
    LET material == UnwrapBlob(key, iv, wrapped)
    IN  IF material \in {Failed, WrongPassword} THEN material
        ELSE IF Len(material) # KeyLen THEN Failed ELSE material

------------------------------------------------------------------------------
(* Signatures. Adding stands for the exclusive or of a key with a pad.              *)

InnerPad(key) == [i \in 1..MacBlock |-> ((IF i <= Len(key) THEN key[i] ELSE 0) + 54) % 256]
OuterPad(key) == [i \in 1..MacBlock |-> ((IF i <= Len(key) THEN key[i] ELSE 0) + 92) % 256]

\* The standard code, over all the chunks together.
Hmac(key, chunks) == Hash(OuterPad(key) \o Hash(InnerPad(key) \o Joined(chunks)))

\* `legacy_hmac_sha1': every chunk starts a code of its own in what the one before it left
\* of the context.
LegacyHmac(key, chunks) ==
    Hash(FoldLeft(LAMBDA context, chunk :
                      OuterPad(key) \o Hash(context \o InnerPad(key) \o chunk),
                  <<>>, chunks))

\* `sign_blob': the blob's version decides.
SignBlob(version, key, chunks) ==
    IF version = LegacyVersion THEN LegacyHmac(key, chunks) ELSE Hmac(key, chunks)

------------------------------------------------------------------------------
(* The database blob. *)

DbBlobLen == 92
DbSignatureAt == 72

KeysBytes(keys) == keys.encryption \o keys.signing \o keys.acl

ParseKeys(plain) ==
    IF Len(plain) < KeyLen + SigLen THEN Failed
    ELSE [encryption |-> SubSeq(plain, 1, KeyLen),
          signing |-> SubSeq(plain, KeyLen + 1, KeyLen + SigLen),
          acl |-> SubSeq(plain, KeyLen + SigLen + 1, Len(plain))]

DbBytes(b) ==
    LET start == DbBlobLen + Len(b.acl)
    IN  BlobMagic \o Numbers(<<b.version, start, start + Len(b.crypto)>>)
          \o b.random \o Numbers(<<b.sequence, b.idle>>)
          \o <<IF b.lockOnSleep THEN 1 ELSE 0>> \o b.padding
          \o b.salt \o b.iv \o b.signature \o b.acl \o b.crypto

\* Where the encrypted part starts and ends, when the three agree.
Offsets(data, fixed) ==
    LET words == ReadNumbers(data, 9, 2).value
    IN  IF \/ Len(data) < fixed
           \/ ~Expected(data, 1, BlobMagic)
           \/ words[1] < fixed \/ words[2] < words[1] \/ words[2] > Len(data)
        THEN Failed ELSE words

ParseDb(data) ==
    LET offsets == Offsets(data, DbBlobLen)
        At(from, n) == SubSeq(data, from + 1, from + n)
    IN  IF offsets = Failed THEN Failed
        ELSE [version |-> ReadNumber(data, 5).value,
              random |-> At(16, 16),
              sequence |-> ReadNumber(data, 33).value,
              idle |-> ReadNumber(data, 37).value,
              lockOnSleep |-> data[41] # 0,
              padding |-> At(41, 3),
              salt |-> At(44, 20),
              iv |-> At(64, 8),
              signature |-> At(DbSignatureAt, SigLen),
              acl |-> SubSeq(data, DbBlobLen + 1, offsets[1]),
              crypto |-> SubSeq(data, offsets[1] + 1, offsets[2])]

\* A variant for the runs: the chunks leave out the public ACL.
DbChunksShort(b) ==
    LET bytes == DbBytes(b)
    IN  <<SubSeq(bytes, 1, DbSignatureAt),
          SubSeq(bytes, DbBlobLen + Len(b.acl) + 1, Len(bytes))>>

\* `signed_chunks': what stands before the signature, and what stands after it.
DbChunks(b) ==
    LET bytes == DbBytes(b)
    IN  <<SubSeq(bytes, 1, DbSignatureAt), SubSeq(bytes, DbBlobLen + 1, Len(bytes))>>

SignDb(b, key) == [b EXCEPT !.signature = SignBlob(b.version, key, DbChunks(b))]
VerifyDb(b, key) == b.signature = SignBlob(b.version, key, DbChunks(b))

\* `seal' and `unlock'
SealDb(b, password, keys) ==
    SignDb([b EXCEPT !.crypto = Encrypt(MasterKey(password, b.salt), b.iv, KeysBytes(keys))],
           keys.signing)

UnlockDb(b, password) ==
    LET plain == Decrypt(MasterKey(password, b.salt), b.iv, b.crypto)
    IN  IF plain \in {Failed, WrongPassword} THEN plain ELSE ParseKeys(plain)

------------------------------------------------------------------------------
(* The key blob. Its header and the fields on its wrapping are words that are copied. *)

KeyBlobLen == 136
KeySignatureAt == 116

\* `PublicAcl': understood when it writes back as it was, or else kept as it was.
ParsePublicAcl(data) ==
    LET blob == ParseAcl(data)
    IN  IF blob # Failed /\ AclBytes(blob) = data THEN [parsed |-> TRUE, blob |-> blob]
        ELSE [parsed |-> FALSE, bytes |-> data]

PublicAclBytes(acl) == IF acl.parsed THEN AclBytes(acl.blob) ELSE acl.bytes

\* The access of an item whose access list this program understands.
PublicAclAccess(acl) == IF acl.parsed THEN ApplicationAccess(acl.blob) ELSE Failed

KeyBlobBytes(b) ==
    LET acl == PublicAclBytes(b.acl)
        start == KeyBlobLen + Len(acl)
    IN  BlobMagic \o Numbers(<<b.version, start, start + Len(b.crypto)>>)
          \o b.iv \o b.header \o b.wrapped \o b.signature \o acl \o b.crypto

ParseKeyBlob(data) ==
    LET offsets == Offsets(data, KeyBlobLen)
        At(from, n) == SubSeq(data, from + 1, from + n)
    IN  IF offsets = Failed THEN Failed
        ELSE [version |-> ReadNumber(data, 5).value,
              iv |-> At(16, 8), header |-> At(24, 76), wrapped |-> At(100, 16),
              signature |-> At(KeySignatureAt, SigLen),
              acl |-> ParsePublicAcl(SubSeq(data, KeyBlobLen + 1, offsets[1])),
              crypto |-> SubSeq(data, offsets[1] + 1, offsets[2])]

KeyChunks(b) ==
    LET bytes == KeyBlobBytes(b)
    IN  <<SubSeq(bytes, 1, KeySignatureAt), SubSeq(bytes, KeyBlobLen + 1, Len(bytes))>>

SignKey(b, key) == [b EXCEPT !.signature = SignBlob(b.version, key, KeyChunks(b))]
VerifyKey(b, key) == b.signature = SignBlob(b.version, key, KeyChunks(b))

------------------------------------------------------------------------------
(* The payload of an item. *)

SsgpHeaderLen == 28

SealSsgp(label, iv, itemKey, secret) ==
    [label |-> label, iv |-> iv, text |-> Encrypt(itemKey, iv, secret)]

SsgpBytes(s) == s.label \o s.iv \o s.text

ParseSsgp(data) ==
    IF Len(data) <= SsgpHeaderLen \/ ~Expected(data, 1, SsgpMagic) THEN Failed
    ELSE [label |-> SubSeq(data, 1, 20), iv |-> SubSeq(data, 21, SsgpHeaderLen),
          text |-> SubSeq(data, SsgpHeaderLen + 1, Len(data))]

OpenSsgp(s, itemKey) == Decrypt(itemKey, s.iv, s.text)

------------------------------------------------------------------------------
(* What the blobs promise. *)

\* A secret comes back from its payload whatever its last bytes are, and a key from its
\* wrapping; only a key of fewer bytes than a word does not.
SecretReturns(key, iv, data) ==
    LET payload == ParseSsgp(SsgpBytes(SealSsgp(SsgpMagic \o Zeros(16), iv, key, data)))
        wrapped == WrapBlob(key, iv, data)
    IN  /\ payload # Failed
        /\ OpenSsgp(payload, key) = data
        /\ UnwrapBlob(key, iv, wrapped) = IF Len(data) < 4 THEN Failed ELSE data
        /\ UnwrapKey(key, iv, wrapped) =
               IF Len(data) = KeyLen /\ WrapKey(key, iv, data) = wrapped THEN data ELSE Failed

\* The blob reads back as it was; it unlocks with its password; and whatever else reads
\* from its bytes with one byte changed is either the same blob or not signed.
DatabaseReturns(blob, password, keys, place) ==
    LET sealed == SealDb(blob, password, keys)
        bytes == DbBytes(sealed)
        changed == ParseDb([bytes EXCEPT ![place] = (@ + 1) % 256])
    IN  /\ ParseDb(bytes) = sealed
        /\ VerifyDb(sealed, keys.signing)
        /\ UnlockDb(sealed, password) = keys
        /\ changed # Failed /\ VerifyDb(changed, keys.signing) => changed = sealed

\* The same of a key blob, whose access list also comes back byte for byte when it is not
\* one that this program understands.
KeyBlobReturns(blob, acl, key, place) ==
    LET signed == SignKey([blob EXCEPT !.acl = ParsePublicAcl(acl)], key)
        bytes == KeyBlobBytes(signed)
        changed == ParseKeyBlob([bytes EXCEPT ![place] = (@ + 1) % 256])
    IN  /\ PublicAclBytes(signed.acl) = acl
        /\ ParseKeyBlob(bytes) = signed
        /\ VerifyKey(signed, key)
        /\ changed # Failed /\ VerifyKey(changed, key) => changed = signed

\* Of one chunk the legacy code is the standard one; of two it is not.
LegacyDiffersPerChunk(key, chunk, other) ==
    /\ LegacyHmac(key, <<chunk>>) = Hmac(key, <<chunk>>)
    /\ LegacyHmac(key, <<chunk, other>>) # Hmac(key, <<chunk, other>>)
=============================================================================
