------------------------------- MODULE Ledger -------------------------------
(***************************************************************************)
(* The payments in the blocks of one node: who owns what (the functions of  *)
(* src/Blockchain.cpp that read the chain's transactions), how a payment is  *)
(* put together (CreateTransaction), and the way of a payment through the    *)
(* queue and the block being mined into the chain.                          *)
(*                                                                         *)
(* A block is the sequence of its transactions; its hash stands for it and    *)
(* all blocks before it.  Difficulties and threads are those of Blockchain    *)
(* and MinerApp and are left out here.  Every action runs under _chainMutex   *)
(* but AddNewBlock, which the mining thread does without it.  Amounts are     *)
(* doubles in the code and integers here, in whatever unit is the smallest,   *)
(* so the rounding of sums is not modelled.                                 *)
(***************************************************************************)
EXTENDS Integers, Sequences, FiniteSetsExt, SequencesExt

CONSTANTS
    Addresses,        \* the wallets
    RewardAddress,    \* the wallet the node mines for
    Amounts,          \* the amounts users pay; createtx takes any number
    PeerPayments,     \* payments that other nodes made on chains of theirs
    COINBASE_REWARD,
    ShownExactly,     \* numbers below it are written with all their digits
    MaxBlocks,        \* bound: blocks in the chain
    MaxPayments,      \* bound: payments that users of this node make
    MaxUpdates,       \* bound: blocks that come from peers
    MaxPeerPayments   \* bound: payments in a block from a peer

VARIABLES
    chain,     \* _blocks: a sequence of blocks
    queue,     \* _txQueue: the payments waiting for the next block
    unmined,   \* the block that the mining thread works on, or <<>>
    previous,  \* its previousHash: the chain it was made for, or <<>>
    payments,  \* how many payments were made (only for the bound)
    updates,   \* how many blocks came from peers (only for the bound)
    intact     \* no update has ever taken a block off the chain (only for properties)

vars == <<chain, queue, unmined, previous, payments, updates, intact>>

(***************************************************************************)
(* A transaction spends the outputs named in ins, each by <<block,          *)
(* transaction, output>> counted from 0 as in the code, and makes the       *)
(* outputs outs.  signed tells whether its first input has a signature.  Its *)
(* id is the digest of a text, and the text is what stands here for it: a    *)
(* sequence of digits, minus signs and addresses.                           *)
(***************************************************************************)
TxOutPoint == Nat \X Nat \X Nat
TxOut == [address : Addresses, amount : Int]
Minus == -1
Symbol == 0..9 \cup {Minus} \cup Addresses
Id == Seq(Symbol) \ {<<>>}
NoId == <<>>
TransactionWith(ids) ==
    [ins : Seq(TxOutPoint), signed : BOOLEAN, outs : Seq(TxOut), id : ids]
Transaction == TransactionWith(Id \cup {NoId})
Mined == TransactionWith(Id)

ASSUME LedgerAssumption ==
    /\ IsFiniteSet(Addresses) /\ RewardAddress \in Addresses
    /\ Amounts \subseteq Int
    /\ \A tx \in PeerPayments : tx \in Transaction /\ tx.signed /\ tx.ins # <<>>
    /\ COINBASE_REWARD \in Nat \ {0} /\ ShownExactly \in Nat \ {0}
    /\ MaxBlocks \in Nat /\ MaxPayments \in Nat
    /\ MaxUpdates \in Nat /\ MaxPeerPayments \in Nat

Digits[n \in Nat] == IF n < 10 THEN <<n>> ELSE Append(Digits[n \div 10], n % 10)

\* What the last digit shown of n is worth ...
LastShown[n \in Nat] == IF n < ShownExactly THEN 1 ELSE 10 * LastShown[n \div 10]

\* ... and the multiple of it that is shown: the nearest, the even one of two.
Rounded(n) ==
    LET unit == LastShown[n]
        q == n \div unit
        twice == 2 * (n % unit)
    IN  unit * (IF twice > unit \/ (twice = unit /\ q % 2 = 1) THEN q + 1 ELSE q)

(***************************************************************************)
(* How a stream writes a double: six digits of it are shown, so ShownExactly *)
(* is 10^6 in the code.  (Where the code writes a decimal point or an        *)
(* exponent, the digits alone stand here.)                                  *)
(***************************************************************************)
Shown(amount) ==
    IF amount < 0 THEN <<Minus>> \o Digits[Rounded(-amount)] ELSE Digits[Rounded(amount)]

InText(point) == Digits[point[1]] \o Digits[point[2]] \o Digits[point[3]]
OutText(out) == <<out.address>> \o Shown(out.amount)

(***************************************************************************)
(* The numbers and addresses one after the other, with nothing in between:   *)
(* different transactions may have the same text.                           *)
(***************************************************************************)
GetTransactionId(tx, block) ==
    FlattenSeq([i \in 1..Len(tx.ins) |-> InText(tx.ins[i])])
    \o FlattenSeq([o \in 1..Len(tx.outs) |-> OutText(tx.outs[o])])
    \o Digits[block]

(* Operators named Mutant... are not part of the model.  Each is a version   *)
(* of the definition after it with a bug that the checked properties must    *)
(* detect; nothing refers to them.                                          *)
MutantWithIdOnce(tx, block) ==
    IF tx.id = NoId THEN [tx EXCEPT !.id = GetTransactionId(tx, block)] ELSE tx

MutantWithIdNever(tx, block) == tx

\* Transaction::calcuateId.
WithId(tx, block) == [tx EXCEPT !.id = GetTransactionId(tx, block)]

\* The reward of block number i names itself as what it spends.
Coinbase(i, address) ==
    WithId([ins |-> <<<<i, 0, 0>>>>, signed |-> FALSE,
            outs |-> <<[address |-> address, amount |-> COINBASE_REWARD]>>, id |-> NoId], i)

IsCoinbase(tx) == tx.ins[1][2] = 0 /\ tx.ins[1][3] = 0 /\ ~tx.signed
-----------------------------------------------------------------------------
\* The transactions of a chain in order, each with its place in the chain.
Entries(ch) ==
    FlattenSeq([b \in 1..Len(ch) |->
        [t \in 1..Len(ch[b]) |-> [block |-> b - 1, index |-> t - 1, tx |-> ch[b][t]]]])

Created(e) ==
    {[point |-> <<e.block, e.index, o - 1>>, address |-> e.tx.outs[o].address,
      amount |-> e.tx.outs[o].amount] : o \in 1..Len(e.tx.outs)}

Spent(e) == IF IsCoinbase(e.tx) THEN {} ELSE ToSet(e.tx.ins)

MutantUnspentTxOutsTakeFirst(ch) ==
    FoldLeft(LAMBDA outs, e : {o \in outs : o.point \notin Spent(e)} \cup Created(e),
             {}, Entries(ch))

(***************************************************************************)
(* GetUnspentTxOuts: every transaction adds its outputs, then takes away     *)
(* what it spends.  An input that names no output there is passed over.     *)
(***************************************************************************)
UnspentTxOuts(ch) ==
    FoldLeft(LAMBDA outs, e : {o \in outs \cup Created(e) : o.point \notin Spent(e)},
             {}, Entries(ch))

UnspentOf(ch, address) == {o \in UnspentTxOuts(ch) : o.address = address}

SumOf(outs) == SumFunction([o \in outs |-> o.amount])

\* GetBlockDetails asserts that an input names an output of the chain ...
Resolves(ch, point) ==
    /\ point[1] < Len(ch)
    /\ point[2] < Len(ch[point[1] + 1])
    /\ point[3] < Len(ch[point[1] + 1][point[2] + 1].outs)

\* ... and looks it up.
Resolved(ch, point) == ch[point[1] + 1][point[2] + 1].outs[point[3] + 1]

\* A credit is the first output to the address, if any.
Credit(tx, address) ==
    LET own == {i \in DOMAIN tx.outs : tx.outs[i].address = address}
    IN  IF own = {} THEN <<>> ELSE <<tx.outs[Min(own)].amount>>

IsDebit(ch, tx, address) ==
    ~IsCoinbase(tx) /\ Resolved(ch, tx.ins[1]).address = address

MutantDebitedForgets(ch, amounts, tx) ==
    [amounts EXCEPT ![Len(amounts)] =
        -SumFunction([i \in 1..Len(tx.ins) |-> Resolved(ch, tx.ins[i]).amount])]

MutantDebitedKeepsChange(ch, amounts, tx) ==
    Append(amounts, Last(amounts) - SumFunction([i \in 1..Len(tx.ins) |-> Resolved(ch, tx.ins[i]).amount]))

(***************************************************************************)
(* A debit replaces the last entry, which is the change it credited - or,    *)
(* when it left no change, an entry of an earlier transaction.              *)
(***************************************************************************)
Debited(ch, amounts, tx) ==
    [amounts EXCEPT ![Len(amounts)] =
        @ - SumFunction([i \in 1..Len(tx.ins) |-> Resolved(ch, tx.ins[i]).amount])]

\* GetAddressLedger, the amounts only.
AddressLedger(ch, address) ==
    FoldLeft(LAMBDA amounts, e :
                LET credited == amounts \o Credit(e.tx, address)
                IN  IF IsDebit(ch, e.tx, address) THEN Debited(ch, credited, e.tx) ELSE credited,
             <<>>, Entries(ch))

AddressBalance(ch, address) == SumFunction(AddressLedger(ch, address))

\* FindTransaction: the first transaction with the id, if there is one.
FindTransaction(ch, id) ==
    LET entries == Entries(ch)
        found == {i \in DOMAIN entries : entries[i].tx.id = id}
    IN  IF found = {} THEN {} ELSE {entries[Min(found)]}
-----------------------------------------------------------------------------
\* What the outputs of a sequence are worth.
Worth(outs) == SumFunction([i \in 1..Len(outs) |-> outs[i].amount])

(***************************************************************************)
(* The outputs that CreateTransaction may collect.  It takes them in the     *)
(* order of their hashes, so in any order, until what it has is enough; with *)
(* an amount that is not positive it takes at least one all the same.        *)
(***************************************************************************)
Selections(outs, amount) ==
    LET enough == {S \in SUBSET outs :
                      /\ SumOf(S) >= amount
                      /\ \E last \in S : S = {last} \/ SumOf(S \ {last}) < amount}
    IN  {s \in UNION {SetToSeqs(S) : S \in enough} :
            \A k \in 1..(Len(s) - 1) : Worth(SubSeq(s, 1, k)) < amount}

MutantPaymentNoChange(selected, from, to, amount) ==
    [ins |-> [i \in 1..Len(selected) |-> selected[i].point], signed |-> TRUE, id |-> NoId,
     outs |-> <<[address |-> to, amount |-> amount]>>]

\* What is left over goes back to the sender.
Payment(selected, from, to, amount) ==
    [ins |-> [i \in 1..Len(selected) |-> selected[i].point], signed |-> TRUE, id |-> NoId,
     outs |-> <<[address |-> to, amount |-> amount]>> \o
              IF Worth(selected) > amount
              THEN <<[address |-> from, amount |-> Worth(selected) - amount]>>
              ELSE <<>>]

\* The transactions that CreateTransaction may return; none when it refuses.
CreateTransaction(ch, from, to, amount) ==
    IF from = to THEN {}
    ELSE {Payment(s, from, to, amount) : s \in Selections(UnspentOf(ch, from), amount)}

AnyPayment(ch) ==
    UNION {CreateTransaction(ch, from, to, amount) :
             from \in Addresses, to \in Addresses, amount \in Amounts}
-----------------------------------------------------------------------------
\* A chain with only its genesis block, whose reward anybody may have got.
Init ==
    /\ \E address \in Addresses : chain = <<<<Coinbase(0, address)>>>>
    /\ queue = <<>> /\ unmined = <<>> /\ previous = <<>>
    /\ payments = 0 /\ updates = 0 /\ intact = TRUE

(***************************************************************************)
(* The request createtx.  CreateTransaction looks at the chain alone, so two *)
(* payments made before the first one is mined may spend the same output.   *)
(***************************************************************************)
Pay ==
    /\ payments < MaxPayments
    /\ \E tx \in AnyPayment(chain) : queue' = Append(queue, tx)
    /\ payments' = payments + 1
    /\ UNCHANGED <<chain, unmined, previous, updates, intact>>

\* The payments get their ids, again if they come from an aborted block.
CreateUnminedBlock ==
    /\ unmined = <<>> /\ Len(chain) < MaxBlocks
    /\ unmined' = <<Coinbase(Len(chain), RewardAddress)>> \o
                  [i \in 1..Len(queue) |-> WithId(queue[i], Len(chain))]
    /\ previous' = chain
    /\ queue' = <<>>
    /\ UNCHANGED <<chain, payments, updates, intact>>

(***************************************************************************)
(* The block was mined; addNewBlock looks at its previous hash and at no      *)
(* transaction.  Refused, the block is lost with its payments: after         *)
(* stopMining a handler may have changed the chain meanwhile.                *)
(***************************************************************************)
AddNewBlock ==
    /\ unmined # <<>>
    /\ chain' = IF previous = chain THEN Append(chain, unmined) ELSE chain
    /\ unmined' = <<>> /\ previous' = <<>>
    /\ UNCHANGED <<queue, payments, updates, intact>>

\* Mining was aborted: the payments of the block go to the end of the queue.
ReQueueTransactions ==
    /\ unmined # <<>>
    /\ queue' = FoldLeft(LAMBDA q, tx : IF IsCoinbase(tx) THEN q ELSE Append(q, tx),
                         queue, unmined)
    /\ unmined' = <<>> /\ previous' = <<>>
    /\ UNCHANGED <<chain, payments, updates, intact>>

(***************************************************************************)
(* A block that a peer adds to a chain: its reward, payments made on this    *)
(* chain and payments made on another, which peers mine like this node does: *)
(* without a look at what they spend.                                       *)
(***************************************************************************)
PeerBlocks(ch) ==
    {<<Coinbase(Len(ch), address)>> \o [i \in 1..Len(txs) |-> WithId(txs[i], Len(ch))] :
       address \in Addresses, txs \in SeqOf(AnyPayment(ch) \cup PeerPayments, MaxPeerPayments)}

(***************************************************************************)
(* syncBlockchain with an update of one block that does not start at the     *)
(* genesis block: resize and addNewBlock.  The queue stays as it is, though  *)
(* its payments may spend outputs of the blocks that are dropped.  A longer  *)
(* update is several of these in a row.  The mining thread may add its block *)
(* after resize: the blocks of the update are refused then.                 *)
(***************************************************************************)
SyncBlockchain ==
    /\ updates < MaxUpdates
    /\ \E size \in 1..Min({Len(chain), MaxBlocks - 1}) :
        LET kept == SubSeq(chain, 1, size)
        IN  /\ \/ /\ \E block \in PeerBlocks(kept) : chain' = Append(kept, block)
                  /\ UNCHANGED <<unmined, previous>>
               \/ /\ unmined # <<>> /\ previous = kept
                  /\ chain' = Append(kept, unmined)
                  /\ unmined' = <<>> /\ previous' = <<>>
            /\ intact' = (intact /\ size = Len(chain))
    /\ updates' = updates + 1
    /\ UNCHANGED <<queue, payments>>

Next == Pay \/ CreateUnminedBlock \/ AddNewBlock \/ ReQueueTransactions \/ SyncBlockchain

Spec == Init /\ [][Next]_vars
-----------------------------------------------------------------------------
\* Every variable has its type; a transaction has its id once it is in a block.
LedgerTypeOK ==
    /\ chain \in Seq(Seq(Mined))
    /\ queue \in Seq(Transaction)
    /\ unmined \in Seq(Mined)
    /\ previous \in Seq(Seq(Mined))
    /\ payments \in 0..MaxPayments /\ updates \in 0..MaxUpdates
    /\ intact \in BOOLEAN

(***************************************************************************)
(* What GetUnspentTxOuts computes in one pass is what is meant: the outputs  *)
(* that no payment in the same place or later spends.  It must also hold     *)
(* when one output is spent twice and when a chain has payments that spend   *)
(* outputs which do not exist, or which come later in the chain.            *)
(***************************************************************************)
UnspentIsWhatNobodySpent ==
    LET entries == Entries(chain)
        n == Len(entries)
    IN  UnspentTxOuts(chain) =
          UNION {{o \in Created(entries[i]) :
                    \A j \in i..n : o.point \notin Spent(entries[j])} : i \in 1..n}

\* What the inputs and the outputs of a payment are worth.
Inputs(ch, tx) == SumFunction([i \in 1..Len(tx.ins) |-> Resolved(ch, tx.ins[i]).amount])
Outputs(tx) == SumFunction([i \in 1..Len(tx.outs) |-> tx.outs[i].amount])

(***************************************************************************)
(* A payment is sound if it spends outputs of blocks before block number b,  *)
(* counted from 0, once each, all of one address, and pays what they are     *)
(* worth.  A sound payment may still spend what another one spends.          *)
(***************************************************************************)
IsSound(tx, ch, b) ==
    /\ tx.signed /\ Len(tx.ins) # 0 /\ IsInjective(tx.ins)
    /\ \A i \in 1..Len(tx.ins) : tx.ins[i][1] < b /\ Resolves(ch, tx.ins[i])
    /\ \E from \in Addresses : \A i \in 1..Len(tx.ins) : Resolved(ch, tx.ins[i]).address = from
    /\ Inputs(ch, tx) = Outputs(tx)
    /\ \A i, j \in 1..Len(tx.outs) : i # j => tx.outs[i].address # tx.outs[j].address

PaysSoundly(block, ch, b) == \A t \in 2..Len(block) : IsSound(block[t], ch, b)

SoundChain(ch) == \A b \in 1..Len(ch) : PaysSoundly(ch[b], ch, b - 1)

(***************************************************************************)
(* The payments of this node stay sound on the way through the queue, the    *)
(* block being mined, aborted blocks and back, until an update drops a block *)
(* - whatever the payments of peers in the updates look like.  And a chain   *)
(* that got no block from a peer is sound.                                  *)
(***************************************************************************)
OwnPaymentsSound ==
    /\ intact => /\ \A i \in 1..Len(queue) : IsSound(queue[i], chain, Len(chain))
                 /\ PaysSoundly(unmined, chain, Len(chain))
    /\ updates = 0 => SoundChain(chain)

\* No output is spent by two payments of the chain.
SpentOnce(ch) ==
    LET entries == Entries(ch)
    IN  \A i, j \in 1..Len(entries) : i # j => Spent(entries[i]) \cap Spent(entries[j]) = {}

(***************************************************************************)
(* Coins come only from mining: while every payment of the chain is sound,   *)
(* the balances of all addresses add up to the rewards of the blocks.  It     *)
(* must hold for payments without change, whose debit replaces an earlier    *)
(* entry of the ledger, for amounts of nothing and less, and for outputs     *)
(* that are spent twice: the balance of whoever does that becomes negative,  *)
(* and the sum stays.                                                      *)
(***************************************************************************)
BalancesAddUp ==
    SoundChain(chain) => SumFunction([a \in Addresses |-> AddressBalance(chain, a)])
                           = COINBASE_REWARD * Len(chain)

(***************************************************************************)
(* The two ways of the code to say what an address owns agree: the balance   *)
(* (GetAddressLedger) is the sum of the unspent outputs (GetUnspentTxOuts),  *)
(* while every payment of the chain is sound and no output is spent twice.   *)
(***************************************************************************)
BalanceIsUnspent ==
    SoundChain(chain) /\ SpentOnce(chain) =>
        \A a \in Addresses : AddressBalance(chain, a) = SumOf(UnspentOf(chain, a))

(***************************************************************************)
(* The id of a transaction in the chain, by which /rest/tx finds it, is that *)
(* of its contents in its block, also when the payment was in aborted blocks *)
(* before, whose numbers gave it other ids.                                 *)
(***************************************************************************)
IdsAreCurrent ==
    \A e \in ToSet(Entries(chain)) : e.tx.id = GetTransactionId(e.tx, e.block)

(***************************************************************************)
(* The assertions of GetBlockDetails, which every request for a block, a     *)
(* transaction or a ledger runs into: each input names an output of the      *)
(* chain.                                                                  *)
(***************************************************************************)
InputsResolve ==
    \A b \in 1..Len(chain) : \A t \in 1..Len(chain[b]) :
        \A i \in 1..Len(chain[b][t].ins) : Resolves(chain, chain[b][t].ins[i])
-----------------------------------------------------------------------------
(* The invariant behind the properties; its proof is in LedgerProofs. *)

\* Block number b, counted from 0: the reward, then payments, each with its id.
HasShape(block, b) ==
    \A t \in 1..Len(block) :
        /\ block[t].id = GetTransactionId(block[t], b)
        /\ t = 1 => \E a \in Addresses : block[1] = Coinbase(b, a)
        /\ t # 1 => block[t].signed /\ block[t].ins # <<>>

\* Every block of the chain and the one being mined have their shape.
LedgerInv ==
    /\ LedgerTypeOK
    /\ \A b \in 1..Len(chain) : Len(chain[b]) >= 1 /\ HasShape(chain[b], b - 1)
    /\ HasShape(unmined, Len(previous))
    /\ updates = 0 => intact
    /\ \A i \in 1..Len(queue) : queue[i].signed /\ queue[i].ins # <<>>
    /\ OwnPaymentsSound
=============================================================================
