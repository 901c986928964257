----------------------------- MODULE Integrity ------------------------------
(***************************************************************************)
(* The digests of the ledger's chain, the verifier, and the tamper         *)
(* demonstration that edits a committed quantity on a clone and then hides *)
(* the edit layer by layer: demonstrateTamper of integrity.ts.             *)
(*                                                                         *)
(* Digests are symbolic: the digest of a content is that content, so two   *)
(* digests are equal exactly when what was hashed is.  Of a transaction    *)
(* only the number and the quantity it carries are kept; the chain index   *)
(* is the order of the sequence blocks.                                    *)
(***************************************************************************)
EXTENDS Integers, Sequences, FiniteSets

CONSTANTS Quantities,       \* what a transaction may carry
          ChainBlockSize,   \* maxTransactionsPerBlock
          MaxHashed         \* bound: how many transactions are ordered

VARIABLES hashed,   \* the ledger's transactions, by number
          sealed,   \* the ledger's chain
          step,     \* how far the demonstration is
          edited,   \* the transaction it edits
          copy      \* the clone it damages: transactions and blocks

ledger == <<hashed, sealed>>
integrity == <<ledger, step, edited, copy>>

-----------------------------------------------------------------------------
(* Digests *)

NoDigest == <<>>
TransactionHash(i, quantity) == <<i, quantity>>
BlockHash(number, previousBlockHash, transactionHashes) ==
    <<number, previousBlockHash, transactionHashes>>

\* The digests a block commits to, in order.
HashesIn(txs, ids) == [k \in DOMAIN ids |-> txs[ids[k]].transactionHash]

RecomputedBlockHash(txs, block) ==
    BlockHash(block.blockNumber, block.previousBlockHash, HashesIn(txs, block.transactionIds))

-----------------------------------------------------------------------------
(* The verifier.  A block is checked against its own digest and against the *)
(* digest its predecessor stores.                                           *)

ExpectedPreviousHash(chain, b) == IF b = 1 THEN NoDigest ELSE chain[b - 1].blockHash

\* Mutant: a transaction is taken at its word.
TransactionMatchesAlways(txs, i) == txs[i].transactionHash # NoDigest

TransactionMatches(txs, i) == TransactionHash(i, txs[i].quantity) = txs[i].transactionHash

IsPlaced(txs, b, i) == txs[i].status = "COMMITTED" /\ txs[i].block = b

InvalidTransactions(txs, chain) ==
    {i \in DOMAIN txs :
        \/ \E b \in DOMAIN chain : \E k \in DOMAIN chain[b].transactionIds :
              /\ chain[b].transactionIds[k] = i
              /\ \/ ~IsPlaced(txs, b, i)
                 \/ ~TransactionMatches(txs, i)
                 \/ \E c \in DOMAIN chain : \E j \in DOMAIN chain[c].transactionIds :
                       chain[c].transactionIds[j] = i /\ <<c, j>> # <<b, k>>
        \/ /\ txs[i].status = "COMMITTED"
           /\ ~\E b \in DOMAIN chain : \E k \in DOMAIN chain[b].transactionIds :
                  chain[b].transactionIds[k] = i}

InvalidBlocks(txs, chain) ==
    {b \in DOMAIN chain :
        \/ chain[b].blockNumber # b
        \/ chain[b].previousBlockHash # ExpectedPreviousHash(chain, b)
        \/ \E k \in DOMAIN chain[b].transactionIds :
              LET i == chain[b].transactionIds[k]
              IN  i \notin DOMAIN txs \/ ~IsPlaced(txs, b, i) \/ ~TransactionMatches(txs, i)
        \/ RecomputedBlockHash(txs, chain[b]) # chain[b].blockHash}

Verifies(txs, chain) ==
    InvalidBlocks(txs, chain) = {} /\ InvalidTransactions(txs, chain) = {}

-----------------------------------------------------------------------------
(* The ledger *)

PendingIn(txs) == {i \in DOMAIN txs : txs[i].status = "ORDERED"}

\* The digest the next block links to.
LastHash(chain) == IF chain = <<>> THEN NoDigest ELSE chain[Len(chain)].blockHash

\* Moves what is pending, never more than a block holds, into one new block.
SealChain(txs) ==
    LET pending == PendingIn(txs)
        first == Len(txs) - Cardinality(pending)
        ids == [k \in 1..Cardinality(pending) |-> first + k]
        number == Len(sealed) + 1
    IN  /\ sealed' = Append(sealed,
              [blockNumber |-> number, previousBlockHash |-> LastHash(sealed),
               transactionIds |-> ids,
               blockHash |-> BlockHash(number, LastHash(sealed), HashesIn(txs, ids))])
        /\ hashed' = [i \in DOMAIN txs |->
              IF i \in pending
              THEN [txs[i] EXCEPT !.status = "COMMITTED", !.block = number]
              ELSE txs[i]]

\* An accepted command is hashed when it is ordered; a full queue is sealed.
OrderTransaction(quantity) ==
    LET number == Len(hashed) + 1
        txs == Append(hashed,
                 [quantity |-> quantity, status |-> "ORDERED", block |-> 0,
                  transactionHash |-> TransactionHash(number, quantity)])
    IN  /\ number <= MaxHashed
        /\ step = "NOT_STARTED"
        /\ IF Cardinality(PendingIn(txs)) >= ChainBlockSize THEN SealChain(txs)
           ELSE hashed' = txs /\ UNCHANGED sealed
        /\ UNCHANGED <<step, edited, copy>>

\* The stage boundary seals what is left.
SealWhatIsLeft ==
    /\ PendingIn(hashed) # {}
    /\ step = "NOT_STARTED"
    /\ SealChain(hashed)
    /\ UNCHANGED <<step, edited, copy>>

-----------------------------------------------------------------------------
(* The demonstration, on a clone of the ledger *)

EditQuantity(i, quantity) ==
    /\ step = "NOT_STARTED"
    /\ i \in DOMAIN hashed
    /\ hashed[i].status = "COMMITTED"
    /\ quantity # hashed[i].quantity
    /\ step' = "AFTER_EDIT"
    /\ edited' = i
    /\ copy' = [transactions |-> [hashed EXCEPT ![i].quantity = quantity],
                blocks |-> sealed]
    /\ UNCHANGED ledger

ForgeTransaction ==
    /\ step = "AFTER_EDIT"
    /\ step' = "AFTER_FORGING_TRANSACTION"
    /\ copy' = [copy EXCEPT !.transactions[edited].transactionHash =
                               TransactionHash(edited, copy.transactions[edited].quantity)]
    /\ UNCHANGED <<ledger, edited>>

EditedBlock ==
    CHOOSE b \in DOMAIN sealed :
        \E k \in DOMAIN sealed[b].transactionIds : sealed[b].transactionIds[k] = edited

ForgeBlock ==
    /\ step = "AFTER_FORGING_TRANSACTION"
    /\ step' = "AFTER_FORGING_BLOCK"
    /\ copy' = [copy EXCEPT !.blocks[EditedBlock].blockHash =
                               RecomputedBlockHash(copy.transactions, copy.blocks[EditedBlock])]
    /\ UNCHANGED <<ledger, edited>>

\* The clone is thrown away; the attempt carries on with its own ledger.
Finish ==
    /\ step = "AFTER_FORGING_BLOCK"
    /\ step' = "NOT_STARTED"
    /\ edited' = 0
    /\ copy' = [transactions |-> <<>>, blocks |-> <<>>]
    /\ UNCHANGED ledger

ChainInit ==
    /\ hashed = <<>>
    /\ sealed = <<>>
    /\ step = "NOT_STARTED"
    /\ edited = 0
    /\ copy = [transactions |-> <<>>, blocks |-> <<>>]

ChainNext ==
    \/ \E q \in Quantities : OrderTransaction(q)
    \/ SealWhatIsLeft
    \/ \E i \in DOMAIN hashed, q \in Quantities : EditQuantity(i, q)
    \/ ForgeTransaction
    \/ ForgeBlock
    \/ Finish

ChainSpec == ChainInit /\ [][ChainNext]_integrity

-----------------------------------------------------------------------------
(* Properties *)

\* A cover-up only moves the evidence of an edit.  Left alone it is pinned to the one
\* transaction it touched and to its block, and does not fail the blocks after it; hidden
\* in the transaction's digest it shows in the block; hidden in the block's digest too it
\* breaks the link of the next block and of that one only.  In the newest block, where
\* there is no next, nothing is found.  The untouched chain verifies all the while,
\* whatever was ordered and sealed, in blocks of whatever size: no false alarm.
EditIsLocated ==
    LET transactionsFound == InvalidTransactions(copy.transactions, copy.blocks)
        blocksFound == InvalidBlocks(copy.transactions, copy.blocks)
    IN  /\ Verifies(hashed, sealed)
        /\ step = "AFTER_EDIT" => transactionsFound = {edited} /\ blocksFound = {EditedBlock}
        /\ step = "AFTER_FORGING_TRANSACTION" =>
               transactionsFound = {} /\ blocksFound = {EditedBlock}
        /\ step = "AFTER_FORGING_BLOCK" => blocksFound = {EditedBlock + 1} \cap DOMAIN sealed

=============================================================================
