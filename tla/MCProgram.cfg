\* The command line program: wallet file, addresses, keys, nonce search.
SPECIFICATION Spec
CONSTANTS
    Nil = Nil
    Radix = 4
    AlphabetSize = 3
    MAINNET_VERSION = 0
    ChecksumLength = 1
    WordLength = 2
    Target = 16
    Sha256 <- MCSha256
    Ripemd160 <- MCRipemd160
    Key <- MCKey
    Signatures <- MCSignatures
    Typed <- MCTyped
    Header <- MCHeader
    MaxNonce = 3
    MaxFaults = 2
INVARIANTS
    TypeOK
    SavedReadable
    ReportedReadable
    SignsForSender
    AlignedVerifies
    TextRoundTrip
    AddressRoundTrip
    MinedNonce
    HeaderFixesBlock
