------------------------------ MODULE Encoding ------------------------------
(***************************************************************************)
(* The bytes behind keys, addresses, signatures, block headers and the     *)
(* wallet file: the pure part of wallet.go, base58.go, utils.go, pow.go,   *)
(* CreateMerkleRoot and the halves sign and Verify (transaction.go,        *)
(* blockchain.go) make of big integers.                                    *)
(*                                                                         *)
(* A byte is a number below Radix, a character of a Base58 string its      *)
(* index in the alphabet, -1 one outside it.  Sizes are constants: the     *)
(* code has 256, 58, four checksum bytes, words of eight bytes.            *)
(***************************************************************************)
EXTENDS Integers, Sequences, SequencesExt, TLC

CONSTANTS
    Nil,                \* no result: a panic, or an error
    Radix,              \* how many values a byte has
    AlphabetSize,       \* how many characters the alphabet has
    MAINNET_VERSION,    \* the version byte of an address
    ChecksumLength,     \* bytes of a checksum
    WordLength,         \* bytes of an unsigned integer in a header
    Target,             \* hashes below it are proofs of work
    Sha256(_),          \* hash functions, from bytes to bytes
    Ripemd160(_)

ASSUME EncodingAssumption ==
    /\ Radix \in Nat /\ Radix > 1
    /\ AlphabetSize \in Nat /\ AlphabetSize > 1
    /\ MAINNET_VERSION \in 0..Radix-1
    /\ ChecksumLength \in Nat \ {0} /\ WordLength \in Nat \ {0}
    /\ Target \in Nat
    /\ Nil \notin Seq(Int) /\ Nil \notin BOOLEAN

-----------------------------------------------------------------------------
(* Numbers and bytes *)

Zeros(n) == [i \in 1..n |-> 0]

\* The digits of a number, least significant first; none for 0.
Digits(n, base) ==
    LET from[m \in 0..n] ==
          IF m = 0 THEN <<>> ELSE <<m % base>> \o from[m \div base]
    IN  from[n]

\* big.Int.SetBytes and big.Int.Bytes: big-endian, without leading zeros,
\* and without the sign.
SetBytes(bytes) == FoldLeft(LAMBDA n, b : n * Radix + b, 0, bytes)
Bytes(n)        == Reverse(Digits(IF n < 0 THEN -n ELSE n, Radix))

Power(base, k) ==
    LET power[j \in 0..k] == IF j = 0 THEN 1 ELSE base * power[j - 1]
    IN  power[k]

\* [mutant of Uint64ToBytesBigEndian] Without the padding.
ShortWord(n) == Bytes(n)

Uint64ToBytesBigEndian(n) ==
    LET bytes == Bytes(n % Power(Radix, WordLength))
    IN  Zeros(WordLength - Len(bytes)) \o bytes

\* How many zeros a sequence starts with.
LeadingZeros(s) ==
    LET prefixes == {n \in 0..Len(s) : \A i \in 1..n : s[i] = 0}
    IN  CHOOSE n \in prefixes : \A m \in prefixes : m <= n

-----------------------------------------------------------------------------
(* Base58 *)

\* [mutant of Base58Encode] Leading zero bytes are forgotten.
EncodeNumberOnly(input) == Reverse(Digits(SetBytes(input), AlphabetSize))

\* One "1" for each leading zero byte, then the number in base 58, whose
\* characters are found from the last to the first and reversed.
Base58Encode(input) ==
    Zeros(LeadingZeros(input)) \o Reverse(Digits(SetBytes(input), AlphabetSize))

\* [mutant of Base58Decode] Every "1" stands for a zero byte.
DecodeAllOnes(chars) ==
    LET n == FoldLeft(LAMBDA sum, c : sum * AlphabetSize + c, 0, chars)
    IN  Zeros(Len(SelectSeq(chars, LAMBDA c : c = 0))) \o Bytes(n)

\* A character outside the alphabet counts as -1; nothing is an error.
Base58Decode(chars) ==
    LET zeroBytes == LeadingZeros(chars)
        payload   == SubSeq(chars, zeroBytes + 1, Len(chars))
    IN  Zeros(zeroBytes) \o
        Bytes(FoldLeft(LAMBDA sum, c : sum * AlphabetSize + c, 0, payload))

-----------------------------------------------------------------------------
(* Addresses *)

PublickeyHash(publickey) == Ripemd160(Sha256(publickey))

GenerateChecksum(data) == SubSeq(Sha256(Sha256(data)), 1, ChecksumLength)

GetAddressWithPublickey(publickey) ==
    LET versionedPayload == <<MAINNET_VERSION>> \o PublickeyHash(publickey)
    IN  Base58Encode(versionedPayload \o GenerateChecksum(versionedPayload))

\* [mutant of AddressToPubkeyHash] The version byte is left in.
WithVersion(address) ==
    LET decoded == Base58Decode(address)
    IN  IF Len(decoded) <= ChecksumLength THEN Nil
        ELSE SubSeq(decoded, 1, Len(decoded) - ChecksumLength)

\* What is between the version and the checksum; also LockAddress.  Slicing
\* panics on a string too short for both.
AddressToPubkeyHash(address) ==
    LET decoded == Base58Decode(address)
    IN  IF Len(decoded) <= ChecksumLength THEN Nil
        ELSE SubSeq(decoded, 2, Len(decoded) - ChecksumLength)

ValidateAddress(address) ==
    LET decoded == Base58Decode(address)
        cut     == Len(decoded) - ChecksumLength
    IN  IF cut < 1 THEN Nil
        ELSE SubSeq(decoded, cut + 1, Len(decoded))
               = GenerateChecksum(SubSeq(decoded, 1, cut))

-----------------------------------------------------------------------------
(* Keys and signatures as two numbers in a row *)

\* GenerateKeyPair, sign: both numbers without leading zeros.
Join(pair) == Bytes(pair[1]) \o Bytes(pair[2])

\* [mutant of Halves] The middle rounded up.
HalvesRoundedUp(bytes) ==
    LET half == (Len(bytes) + 1) \div 2
    IN  <<SetBytes(SubSeq(bytes, 1, half)), SetBytes(SubSeq(bytes, half + 1, Len(bytes)))>>

\* Verify: the two numbers are taken apart in the middle.
Halves(bytes) ==
    LET half == Len(bytes) \div 2
    IN  <<SetBytes(SubSeq(bytes, 1, half)), SetBytes(SubSeq(bytes, half + 1, Len(bytes)))>>

-----------------------------------------------------------------------------
(* Proof of work.  A header is a record [prev, time]; version 1, no Merkle  *)
(* root, no bits.                                                          *)

ConvertData2Bytes(header, nonce) ==
    Uint64ToBytesBigEndian(1) \o header.prev
      \o Uint64ToBytesBigEndian(header.time) \o Uint64ToBytesBigEndian(0)
      \o Uint64ToBytesBigEndian(nonce)

HashWith(header, nonce) == Sha256(Sha256(ConvertData2Bytes(header, nonce)))

MeetsTarget(hash) == SetBytes(hash) < Target

\* POW.Validate
Validate(header, nonce) == MeetsTarget(HashWith(header, nonce))

-----------------------------------------------------------------------------
(* CreateMerkleRoot.  A hash is represented by what was hashed. *)

\* The transactions of the block afterwards: the last one doubled if they
\* were odd in number.
EvenOut(txs) == IF Len(txs) % 2 = 0 THEN txs ELSE Append(txs, Last(txs))

\* One round of the loop: the hashes of neighbours.
NextLevel(hashes) == [i \in 1..(Len(hashes) \div 2) |-> <<hashes[2*i - 1], hashes[2*i]>>]

\* Without transactions there is no root.  The loop goes on while a level has
\* more than one hash; Nil if one of them is odd, where it indexes past the end.
CreateMerkleRoot(txs) ==
    LET level[k \in 0..Len(txs)] == IF k = 0 THEN EvenOut(txs) ELSE NextLevel(level[k - 1])
        last == CHOOSE k \in 0..Len(txs) :
                  Len(level[k]) <= 1 /\ \A j \in 0..k-1 : Len(level[j]) > 1
    IN  IF txs = <<>> THEN <<>>
        ELSE IF \E k \in 0..last-1 : Len(level[k]) % 2 # 0 THEN Nil ELSE level[last][1]

=============================================================================
