SPECIFICATION Spec
CONSTANTS
    Failed = Failed
    ClassField <- MCClassField
    Classes <- MCClasses
    Canonical <- MCCanonical
    HashLen = 3
    MostEntries = 64
    Format <- MCFormat
    MostSlots = 8
    MostIndexes = 64
    MostAttributes = 32
    KeyIdentifierOid <- MCKeyIdentifierOid
    CommonNameOid <- MCCommonNameOid
    RsaOid <- MCRsaOid
    LineBytes = 4
    Encipher <- MCEncipher
    Decipher <- MCDecipher
    Hash <- MCHash
    MasterKey <- MCMasterKey
    MacBlock = 24
    WrongPassword = WrongPassword
    MaxFrameLen = 6
    GroupPrime = 23
    GroupGenerator = 5
PROPERTIES
    QueryReadsBack
    LikeMatchesSplits
    AnswersAreSound
    AclReadsBack
    RegionReadsBack
    ImageReadsBack
    DerReadsBack
    SecretsComeBack
    SignedBlobsReadBack
    WireReadsBack
    HandshakeAgrees
