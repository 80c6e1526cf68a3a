------------------------------ MODULE Program -------------------------------
(***************************************************************************)
(* Runs of the command line program seen from the side module Cli leaves   *)
(* out: its arguments, the wallet file (wallets_all_in_one.go), addresses, *)
(* the bytes of keys and signatures (wallet.go, transaction.go), and the   *)
(* search for a nonce (pow.go).  What a command does to the database is    *)
(* Cli's matter.                                                           *)
(*                                                                         *)
(* Every command opens the database before anything else, and bolt's lock  *)
(* on it keeps a second process waiting, so there is one process at a      *)
(* time.  It may be killed between any two steps; reading or writing the   *)
(* wallet file may fail, a write half way.                                 *)
(***************************************************************************)
EXTENDS Encoding

CONSTANTS
    Key,            \* the key pairs there are: <<X, Y>>, the coordinates
    Signatures,     \* the pairs <<r, s>> signing may return
    Typed,          \* the strings users type for an address
    Header,         \* the headers blocks are mined for
    MaxNonce,       \* maxNonce
    MaxFaults       \* bound: reads and writes that fail

\* Coordinates and signatures are big integers that are not negative; hashes
\* are bytes, times and nonces fit into words.
ASSUME ProgramAssumption ==
    /\ Key \subseteq Nat \X Nat /\ Signatures \subseteq Nat \X Nat
    /\ Typed \subseteq Seq(Int)
    /\ Header \subseteq [prev : Seq(0..Radix-1), time : 0..Power(Radix, WordLength)-1]
    /\ MaxNonce \in 0..Power(Radix, WordLength)-1
    /\ MaxFaults \in Nat

VARIABLES
    file,           \* durable: the cells of wallets.dat; Nil if there is none
    pc,             \* where the process is; "idle" if there is none
    cmd,            \* its command
    wallets,        \* its Wallets: address |-> wallet
    transfer,       \* the transaction it makes
    block,          \* the block it mines
    made,           \* history: the keys generated so far
    reported,       \* history: the addresses createwallet has printed
    faults          \* how many reads and writes have failed

process == <<cmd, wallets, transfer, block>>
history == <<made, reported>>
vars    == <<file, pc, process, history, faults>>

-----------------------------------------------------------------------------
(* The wallet file.  gob writes the size and the number of wallets, then    *)
(* address, private and public key of each, in an arbitrary order.  A cell *)
(* is one of these; the file may hold more cells than the last write had.  *)

NewWallet(key) == [private |-> key, public |-> Join(key)]

Address(key) == GetAddressWithPublickey(Join(key))

\* Distinct keys have distinct addresses.
ASSUME AddressAssumption == \A k, l \in Key : Address(k) = Address(l) => k = l

\* The wallets and one more.
WithWallet(ws, key) ==
    [a \in DOMAIN ws \cup {Address(key)} |->
        IF a = Address(key) THEN NewWallet(key) ELSE ws[a]]

Encoded(ws, order) ==
    <<Len(order)>> \o
    FlattenSeq([i \in DOMAIN order |->
        <<order[i], ws[order[i]].private, ws[order[i]].public>>])

\* [mutant of Decoded] What follows the wallets is an error.
DecodedWhole(cells) ==
    IF cells = <<>> \/ Len(cells) # 1 + 3 * cells[1] THEN Nil
    ELSE [a \in {cells[3 * i - 1] : i \in 1..cells[1]} |->
            LET i == CHOOSE i \in 1..cells[1] : cells[3 * i - 1] = a
            IN  [private |-> cells[3 * i], public |-> cells[3 * i + 1]]]

\* The decoder needs as many bytes as the size at the start says and never
\* looks at what follows them.
Decoded(cells) ==
    IF cells = <<>> \/ Len(cells) < 1 + 3 * cells[1] THEN Nil
    ELSE [a \in {cells[3 * i - 1] : i \in 1..cells[1]} |->
            LET i == CHOOSE i \in 1..cells[1] : cells[3 * i - 1] = a
            IN  [private |-> cells[3 * i], public |-> cells[3 * i + 1]]]

\* The wallets a process finds in the file; none if it cannot decode it.
Readable == IF file = Nil \/ Decoded(file) = Nil THEN <<>> ELSE Decoded(file)

\* The first k cells of data have been written: from the start, and without
\* truncating the file.
Overwritten(cells, data, k) ==
    LET old == IF cells = Nil THEN <<>> ELSE cells
    IN  SubSeq(data, 1, k) \o SubSeq(old, k + 1, Len(old))

-----------------------------------------------------------------------------
(* Processes come and go *)

Commands ==
    {[op |-> "createwallet"], [op |-> "listaddress"]}
      \cup [op : {"sendtx"}, from : {Address(key) : key \in Key}, to : Typed, amount : {0, 1}]
      \cup [op : {"getbalance"}, address : Typed]
      \cup [op : {"startnode"}, minner : Typed]
      \cup [op : {"addblock"}, header : Header]

\* No contents of the file, no wallets and no command are Nil.
ASSUME NilAssumption ==
    /\ Nil \notin Seq(Int \cup Seq(Int))
    /\ \A known \in SUBSET {Address(key) : key \in Key} :
          Nil \notin [known -> [private : Key, public : {Join(key) : key \in Key}]]
    /\ Nil \notin Commands
    /\ Nil \notin [op : {"createwallet"}, address : {Address(key) : key \in Key}]

\* The checks of Run: a transfer needs both addresses and a positive amount.
Accepted(c) == c.op = "sendtx" => c.from # <<>> /\ c.to # <<>> /\ c.amount > 0

Init ==
    /\ file = Nil /\ pc = "idle"
    /\ cmd = Nil /\ wallets = <<>> /\ transfer = Nil /\ block = Nil
    /\ made = {} /\ reported = {} /\ faults = 0

\* The process starts; a command that Run refuses ends here.
Run ==
    /\ pc = "idle"
    /\ \E c \in Commands :
          /\ Accepted(c)
          /\ cmd' = c
          /\ pc' = IF c.op \in {"createwallet", "listaddress", "sendtx"} THEN "read" ELSE c.op
    /\ UNCHANGED <<file, wallets, transfer, block, history, faults>>

\* The process ends: it returns, panics or is killed.
Exit ==
    /\ pc' = "idle"
    /\ cmd' = Nil /\ wallets' = <<>> /\ transfer' = Nil /\ block' = Nil

Crash == pc # "idle" /\ Exit /\ UNCHANGED <<file, history, faults>>

-----------------------------------------------------------------------------
(* createwallet and listaddress *)

\* ReadWalletsFromFile; CreateWallets has made an empty map.
ReadWalletsFromFile ==
    /\ pc = "read"
    /\ wallets' = Readable
    /\ pc' = cmd.op
    /\ UNCHANGED <<file, cmd, transfer, block, history, faults>>

\* The file cannot be read: the map stays empty and the command goes on.
ReadFails ==
    /\ pc = "read" /\ faults < MaxFaults /\ file # Nil
    /\ pc' = cmd.op
    /\ faults' = faults + 1
    /\ UNCHANGED <<file, process, history>>

CreateWalletRandomly ==
    /\ pc = "createwallet"
    /\ \E key \in Key \ made :
          /\ wallets' = WithWallet(wallets, key)
          /\ made' = made \cup {key}
          /\ cmd' = [op |-> "createwallet", address |-> Address(key)]
    /\ pc' = "save"
    /\ UNCHANGED <<file, transfer, block, reported, faults>>

\* SaveWalletsToFile
SaveWalletsToFile ==
    /\ pc = "save"
    /\ \E order \in SetToSeqs(DOMAIN wallets) :
          LET data == Encoded(wallets, order)
          IN  file' = Overwritten(file, data, Len(data))
    /\ pc' = "saved"
    /\ UNCHANGED <<process, history, faults>>

\* The disk is full, or the process is killed, in the middle of the write.
SaveFails ==
    /\ pc = "save" /\ faults < MaxFaults
    /\ \E order \in SetToSeqs(DOMAIN wallets) :
          LET data == Encoded(wallets, order)
          IN  \E k \in 0..Len(data)-1 : file' = Overwritten(file, data, k)
    /\ faults' = faults + 1
    /\ \/ pc' = "unsaved" /\ UNCHANGED process
       \/ Exit
    /\ UNCHANGED history

\* [mutant of CreateWallet] The address may be printed before the save.
PrintedFirst ==
    /\ pc \in {"save", "saved", "unsaved"}
    /\ reported' = reported \cup {cmd.address}
    /\ Exit /\ UNCHANGED <<file, made, faults>>

\* The end of CreateWallet: it prints the address whether or not the wallet
\* has been saved.
CreateWallet ==
    /\ pc \in {"saved", "unsaved"}
    /\ reported' = reported \cup {cmd.address}
    /\ Exit /\ UNCHANGED <<file, made, faults>>

-----------------------------------------------------------------------------
(* sendtx *)

\* GetWallet finds the key of the sender, or the nil it returns makes
\* CreateTransaction panic.
GetWallet ==
    /\ pc = "sendtx"
    /\ IF cmd.from \in DOMAIN wallets
       THEN /\ transfer' = [wallet |-> wallets[cmd.from]]
            /\ pc' = "lock"
            /\ UNCHANGED <<cmd, wallets, block>>
       ELSE Exit
    /\ UNCHANGED <<file, history, faults>>

\* The outputs are locked to the receiver and, for the change, to the
\* sender; LockAddress panics on a string too short for an address.
LockAddress ==
    /\ pc = "lock"
    /\ IF AddressToPubkeyHash(cmd.to) = Nil
       THEN Exit
       ELSE /\ transfer' = [wallet |-> transfer.wallet,
                            out    |-> AddressToPubkeyHash(cmd.to),
                            change |-> AddressToPubkeyHash(cmd.from)]
            /\ pc' = "sign"
            /\ UNCHANGED <<cmd, wallets, block>>
    /\ UNCHANGED <<file, history, faults>>

sign ==
    /\ pc = "sign"
    /\ \E pair \in Signatures :
          transfer' = [wallet |-> transfer.wallet, out |-> transfer.out,
                       change |-> transfer.change, pair |-> pair, signature |-> Join(pair)]
    /\ pc' = "verify"
    /\ UNCHANGED <<file, cmd, wallets, block, history, faults>>

\* ecdsa.Verify accepts the numbers signing returned, under the point that
\* belongs to the private key.
Valid(tx) ==
    /\ Halves(tx.wallet.public) = tx.wallet.private
    /\ Halves(tx.signature) = tx.pair

\* Verify: AddBlock panics unless it succeeds.
Verify ==
    /\ pc = "verify"
    /\ IF Valid(transfer)
       THEN pc' = "database" /\ UNCHANGED process
       ELSE Exit
    /\ UNCHANGED <<file, history, faults>>

-----------------------------------------------------------------------------
(* getbalance, startnode and addblock *)

\* The outputs locked to the hash in an address are counted;
\* AddressToPubkeyHash panics on a string too short for one.
GetBalance ==
    /\ pc = "getbalance"
    /\ IF AddressToPubkeyHash(cmd.address) # Nil
       THEN pc' = "database" /\ UNCHANGED process
       ELSE Exit
    /\ UNCHANGED <<file, history, faults>>

\* A miner address, unless it is empty, has to be valid, or the process
\* panics.  From here on, Sync.
startnode ==
    /\ pc = "startnode"
    /\ IF cmd.minner = <<>> \/ ValidateAddress(cmd.minner) = TRUE
       THEN pc' = "serving" /\ UNCHANGED process
       ELSE Exit
    /\ UNCHANGED <<file, history, faults>>

\* NewBlock starts the search ...
NewBlock ==
    /\ pc = "addblock"
    /\ block' = [header |-> cmd.header, nonce |-> 0, hash |-> Nil]
    /\ pc' = "mine"
    /\ UNCHANGED <<file, cmd, wallets, transfer, history, faults>>

\* [mutant of Try] The nonce has moved on when the hash is compared.
TryAndMove ==
    LET hash == HashWith(block.header, block.nonce)
    IN  /\ pc = "mine" /\ block.nonce < MaxNonce
        /\ block' = [block EXCEPT !.hash = hash, !.nonce = @ + 1]
        /\ pc' = IF MeetsTarget(hash) THEN "mined" ELSE "mine"
        /\ UNCHANGED <<file, cmd, wallets, transfer, history, faults>>

\* [mutant of Try] One round too many.
TryAtMax ==
    LET hash == HashWith(block.header, block.nonce)
    IN  /\ pc = "mine" /\ block.nonce <= MaxNonce
        /\ IF MeetsTarget(hash)
           THEN block' = [block EXCEPT !.hash = hash] /\ pc' = "mined"
           ELSE block' = [block EXCEPT !.hash = hash, !.nonce = @ + 1] /\ pc' = "mine"
        /\ UNCHANGED <<file, cmd, wallets, transfer, history, faults>>

\* ... one round of the loop of POW.Run ...
Try ==
    LET hash == HashWith(block.header, block.nonce)
    IN  /\ pc = "mine" /\ block.nonce < MaxNonce
        /\ IF MeetsTarget(hash)
           THEN block' = [block EXCEPT !.hash = hash] /\ pc' = "mined"
           ELSE block' = [block EXCEPT !.hash = hash, !.nonce = @ + 1] /\ pc' = "mine"
        /\ UNCHANGED <<file, cmd, wallets, transfer, history, faults>>

\* ... which gives up at maxNonce.
Exhausted ==
    /\ pc = "mine" /\ block.nonce >= MaxNonce
    /\ pc' = "mined"
    /\ UNCHANGED <<file, process, history, faults>>

\* The command is done and Run returns.  What sendtx, getbalance and addblock
\* still do to the database is in module Cli.
return ==
    /\ pc \in {"listaddress", "database", "mined"}
    /\ Exit /\ UNCHANGED <<file, history, faults>>

-----------------------------------------------------------------------------

Next ==
    \/ Run \/ Crash
    \/ ReadWalletsFromFile \/ ReadFails
    \/ CreateWalletRandomly \/ SaveWalletsToFile \/ SaveFails \/ CreateWallet
    \/ GetWallet \/ LockAddress \/ sign \/ Verify
    \/ GetBalance \/ startnode
    \/ NewBlock \/ Try \/ Exhausted
    \/ return

Spec == Init /\ [][Next]_vars

-----------------------------------------------------------------------------
(* Properties *)

\* Every variable has its type.
TypeOK ==
    /\ file = Nil \/ file = <<>> \/ file[1] \in 1..Len(file)
    /\ pc \in {"idle", "read", "createwallet", "listaddress", "sendtx", "save", "saved",
               "unsaved", "lock", "sign", "verify", "database", "getbalance", "startnode",
               "addblock", "mine", "mined", "serving"}
    /\ pc = "idle" <=> cmd = Nil
    /\ \A a \in DOMAIN wallets : wallets[a].private \in made
    /\ pc \in {"lock", "sign", "verify"} => transfer.wallet \in Range(wallets)
    /\ pc \in {"mine", "mined"} => block.nonce \in 0..MaxNonce
    /\ made \subseteq Key
    /\ \A a \in reported : a \in Seq(0..AlphabetSize-1)
    /\ faults \in 0..MaxFaults

\* A wallet file written to its end decodes to the wallets that were written,
\* whatever a longer or a torn write had left in it (SaveWalletsToFile opens
\* the file without truncating it).
SavedReadable == pc = "saved" => Decoded(file) = wallets

\* As long as no read fails and no write is cut short, every address that
\* createwallet has printed is in the wallet file, whenever else processes
\* are killed: the saves, each of which rewrites the file in another order,
\* lose nobody's key.
ReportedReadable == faults = 0 => reported \subseteq DOMAIN Readable

\* A transfer is signed with the key of the address it is sent from, and its
\* change is locked to that key, through the wallet file, the address and
\* back, even if one read or write has failed before.  (Two failures can
\* mix the entries of two writes.)
SignsForSender ==
    pc \in {"sign", "verify"} /\ faults <= 1 =>
        LET wallet == transfer.wallet
        IN  /\ Address(wallet.private) = cmd.from
            /\ wallet.public = Join(wallet.private)
            /\ transfer.change = PublickeyHash(wallet.public)

\* The halves of two joined numbers are these numbers if the second has as
\* many bytes as the first, or one more.
Aligned(pair) == Len(Bytes(pair[2])) - Len(Bytes(pair[1])) \in {0, 1}

\* Verify accepts what sign has made if the coordinates of the key and the
\* numbers of the signature have such lengths, on the way through the wallet
\* file and after one fault.
AlignedVerifies ==
    pc = "verify" /\ faults <= 1 /\ Aligned(transfer.wallet.private) /\ Aligned(transfer.pair)
      => Valid(transfer)

\* Base58Encode undoes Base58Decode on every text in the alphabet, leading
\* "1"s included: no two such texts stand for the same bytes.
TextRoundTrip ==
    pc = "getbalance" /\ Range(cmd.address) \subseteq 0..AlphabetSize-1 =>
        Base58Encode(Base58Decode(cmd.address)) = cmd.address

\* An address that the program gives out is valid, and what AddressToPubkeyHash
\* and LockAddress make of it is the hash of the key it was made from.
AddressRoundTrip ==
    pc = "save" =>
        /\ ValidateAddress(cmd.address) = TRUE
        /\ AddressToPubkeyHash(cmd.address) = PublickeyHash(wallets[cmd.address].public)

\* The search stops at the least nonce below maxNonce that is a proof of work
\* and returns its hash, so the block passes Validate; it gives up only if
\* there is none.
MinedNonce ==
    pc = "mined" =>
        LET proofs == {n \in 0..MaxNonce-1 : Validate(block.header, n)}
        IN  IF proofs # {}
            THEN /\ block.nonce \in proofs /\ \A n \in proofs : block.nonce <= n
                 /\ block.hash = HashWith(block.header, block.nonce)
            ELSE block.nonce = MaxNonce

\* What is hashed determines the previous hash, the time and the nonce: no
\* other three give the same bytes, though ConvertData2Bytes joins the fields
\* without separators.  (Transactions and height are not hashed at all.)
HeaderFixesBlock ==
    pc \in {"mine", "mined"} =>
        \A header \in Header, nonce \in 0..MaxNonce :
            ConvertData2Bytes(header, nonce) = ConvertData2Bytes(block.header, block.nonce)
              => header = block.header /\ nonce = block.nonce

=============================================================================
