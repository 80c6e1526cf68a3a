----------------------------- MODULE MCProgram ------------------------------
(* Module Program with bytes of four values, an alphabet of three           *)
(* characters, and small hash functions.                                    *)
EXTENDS Program

\* Mixing sums stand for the hash functions: three bytes and two.
Mixed(bytes) == FoldLeft(LAMBDA n, b : (n * 7 + b + 1) % 61, 3, bytes)
MCSha256(bytes)    == <<Mixed(bytes) \div 16, (Mixed(bytes) \div 4) % 4, Mixed(bytes) % 4>>
MCRipemd160(bytes) == LET n == Mixed(Append(bytes, 1)) % 16 IN <<n \div 4, n % 4>>

\* Coordinates of equal length, the second longer by one byte, and the
\* second shorter.
MCKey == {<<5, 6>>, <<1, 5>>, <<6, 1>>}

\* The second number has one byte less than the first, as many, one more, and
\* two more.
MCSignatures == {<<6, 1>>, <<6, 7>>, <<1, 7>>, <<1, 16>>}

\* Nothing, too short for an address, no address, an address, and the address
\* with another last character, in the alphabet and outside it.
MCTyped ==
    LET address == Address(<<6, 1>>)
        last    == Len(address)
    IN  {<<>>, <<2>>, <<0, 1, 0, 2>>, address}
          \cup {[address EXCEPT ![last] = c] : c \in {-1, (address[last] + 1) % 3}}

\* The genesis block has no previous hash.  Times of one byte and of two; the
\* first nonce is a proof of work, none is, the second is.
MCHeader == {[prev |-> <<>>, time |-> 5], [prev |-> <<0, 0, 1>>, time |-> 3],
             [prev |-> <<0, 0, 1>>, time |-> 14]}

=============================================================================
