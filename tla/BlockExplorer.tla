--------------------------- MODULE BlockExplorer ---------------------------
(***************************************************************************)
(* The indexer at the heart of the explorer (src/block_explorer.go): the   *)
(* constructor that reloads the summary and fills the transaction feed,    *)
(* and the goroutine that wakes every second, walks the new blocks of the  *)
(* chain from the top down in pairs, indexes each block in a badger        *)
(* transaction of its own and finally saves the summary in another one.    *)
(*                                                                         *)
(* The kernel grows the chain at any time, may fail to return a block, and *)
(* after a crash with a forced recovery may come back with a lower height. *)
(* A block hash is modelled by its height, a transaction hash by the pair  *)
(* of its height and its index in the block, a block's timestamp by its    *)
(* height.  Foumulators, a number copied from the kernel for display at    *)
(* every round and used by nothing, is left out.                           *)
(***************************************************************************)
EXTENDS Integers, Sequences, FiniteSets

CONSTANTS MaxHeight,    \* bound: the highest block the kernel ever has
          TxsUpTo,      \* TxsUpTo[h]: number of transactions of blocks 1..h
          Formulators,  \* the block producers
          Formulator,   \* Formulator[h]: the producer of block h
          ListCap,      \* 500 in the code: cap of the feed and of the chart
          ChartBatch,   \* 200 in the code: chart points one round may add
          InitHeights,  \* heights of the kernel when the explorer first starts
          RecoveryLoss, \* blocks a recovered kernel store may have lost
          MaxFaults,    \* bound: failed reads, commits and saves
          MaxCrashes    \* bound: crashes of the process

ASSUME HeightAssumption == MaxHeight \in Nat
ASSUME ChainAssumption ==
    /\ TxsUpTo \in [0..MaxHeight -> Nat]
    /\ TxsUpTo[0] = 0
    /\ \A g, h \in 0..MaxHeight : g <= h => TxsUpTo[g] <= TxsUpTo[h]
    /\ IsFiniteSet(Formulators)
    /\ Formulator \in [1..MaxHeight -> Formulators]
ASSUME CapAssumption == ListCap \in Nat \ {0} /\ ChartBatch \in Nat \ {0}
ASSUME InitAssumption == InitHeights \subseteq 0..MaxHeight
ASSUME BoundAssumption ==
    RecoveryLoss \in Nat /\ MaxFaults \in Nat /\ MaxCrashes \in Nat

VARIABLES
    height,                  \* Kernel.Provider().Height()
    (* memory of the process *)
    pc,                      \* where the constructor or the updater is
    Blocks,                  \* CurrentChainInfo.Blocks
    Transactions,            \* CurrentChainInfo.Transactions
    currentTransactions,     \* CurrentChainInfo.currentTransactions
    MaximumTps,
    lastestTransactionList,  \* the feed, newest first
    transactionCountList,    \* the chart, newest first
    (* locals of the running round (i is also the constructor's) *)
    currHeight, minHeight, i, newTxs, newTxCountInfos,
    (* the badger database *)
    dbInfo,                  \* keys blockChainInfo and MaximumTps
    dbHashes,                \* heights whose block and transaction hashes are keys
    dbFormulator,            \* keys "formulator" + address
    (* what went wrong so far; read by the properties and the bounds only *)
    skipped,                 \* heights a round passed over after a failed read
    unindexed,               \* heights whose updateBlock failed
    rewound,                 \* the kernel came back from a crash with fewer blocks
    faults, crashes

summary == <<Blocks, Transactions, currentTransactions, MaximumTps>>
lists   == <<lastestTransactionList, transactionCountList>>
locals  == <<currHeight, minHeight, i, newTxs, newTxCountInfos>>
db      == <<dbInfo, dbHashes, dbFormulator>>
history == <<skipped, unindexed, rewound, faults, crashes>>
vars    == <<height, pc, summary, lists, locals, db, history>>

-----------------------------------------------------------------------------
Even(h) == h - (h % 2)

\* The number of transactions of block h.
Txs(h) == TxsUpTo[h] - TxsUpTo[h - 1]

FirstOf(s, n) == SubSeq(s, 1, IF Len(s) < n THEN Len(s) ELSE n)

(* The data the actions below move, each with, where a run needs one, the slip *)
(* (Slip...) that the run's property is there to catch.                        *)

\* The transactions of the pair whose upper block is h; slip: the upper one twice.
SlipPairTxs(h) == Txs(h) + Txs(h)
PairTxs(h)     == Txs(h) + Txs(h - 1)

\* The rows the transactions of block h give the feed, with b as their block;
\* slips: numbered from zero, or with the other block of the pair.
SlipBlockTxs(h, b) ==
    [k \in 1..Txs(h) |-> [TxHash |-> <<h, k - 1>>, BlockHash |-> b]]
SlipPairedTxs(h, b) ==
    [k \in 1..Txs(h) |-> [TxHash |-> <<h, k>>, BlockHash |-> IF h = b THEN h - 1 ELSE b]]
BlockTxs(h, b) ==
    [k \in 1..Txs(h) |-> [TxHash |-> <<h, k>>, BlockHash |-> b]]

\* The total a restart begins with; slip: it is not read back.
SlipLoadedTotal == 0
LoadedTotal     == dbInfo.Transactions

\* The count a round begins with; slip: it is not reset.
SlipFirstCount == currentTransactions
FirstCount     == 0

\* The height a round works down to; slip: the saved one, not the one in memory.
SlipFloor == dbInfo.Blocks
Floor     == Blocks

\* The pair a round sets out from; slip: the one below it.
SlipTopPair == IF height < 2 THEN 0 ELSE Even(height) - 2
TopPair     == Even(height)

\* The peak after a pair of n transactions; slip: always the last pair's.
SlipPeak(n) == n
Peak(n)     == IF MaximumTps < n THEN n ELSE MaximumTps

\* The count of producer f after one more block; slip: as after the first.
SlipProducedBy(f) == 1
ProducedBy(f)     == dbFormulator[f] + 1

\* A list after a round; slip: the round's part goes behind the old one.
SlipPutInFront(new, old) == FirstOf(old \o new, ListCap)
PutInFront(new, old) ==
    IF new = <<>> THEN old ELSE FirstOf(new \o old, ListCap)

\* What follows the loop; slip: a round without transactions saves nothing.
SlipAfterLoop == IF newTxs = <<>> THEN "sleep" ELSE "save"
AfterLoop     == "save"

\* What is saved; slip: with the height of the kernel by now.
SlipSavedInfo == [Blocks |-> height, Transactions |-> Transactions,
                  currentTransactions |-> currentTransactions,
                  MaximumTps |-> MaximumTps]
SavedInfo     == [Blocks |-> Blocks, Transactions |-> Transactions,
                  currentTransactions |-> currentTransactions,
                  MaximumTps |-> MaximumTps]

ZeroInfo == [Blocks |-> 0, Transactions |-> 0,
             currentTransactions |-> 0, MaximumTps |-> 0]

\* The locals go out of scope when a round, or the process, ends.
ClearLocals ==
    /\ currHeight' = 0 /\ minHeight' = 0 /\ i' = 0
    /\ newTxs' = <<>> /\ newTxCountInfos' = <<>>

Init ==
    /\ height \in InitHeights
    /\ pc = "load"
    /\ Blocks = 0 /\ Transactions = 0 /\ currentTransactions = 0
    /\ MaximumTps = 0
    /\ lastestTransactionList = <<>> /\ transactionCountList = <<>>
    /\ currHeight = 0 /\ minHeight = 0 /\ i = height
    /\ newTxs = <<>> /\ newTxCountInfos = <<>>
    /\ dbInfo = ZeroInfo /\ dbHashes = {}
    /\ dbFormulator = [f \in Formulators |-> 0]
    /\ skipped = {} /\ unindexed = {} /\ rewound = FALSE
    /\ faults = 0 /\ crashes = 0

-----------------------------------------------------------------------------
(* The kernel. *)

Grow ==
    /\ pc # "down"
    /\ height < MaxHeight
    /\ height' = height + 1
    /\ UNCHANGED <<pc, summary, lists, locals, db, history>>

Fault ==
    /\ faults < MaxFaults
    /\ faults' = faults + 1

-----------------------------------------------------------------------------
(* NewBlockExplorer. *)

\* Open the database and load what the last save left; a database without the
\* two keys leaves the zero values.
Start ==
    /\ pc = "down"
    /\ pc' = "load"
    /\ Blocks' = dbInfo.Blocks
    /\ Transactions' = LoadedTotal
    /\ currentTransactions' = dbInfo.currentTransactions
    /\ MaximumTps' = dbInfo.MaximumTps
    /\ i' = height
    /\ UNCHANGED <<height, lists, currHeight, minHeight, newTxs,
                   newTxCountInfos, db, history>>

\* Fill the feed from the top of the chain: whole blocks, until it is long enough.
LoadBlock ==
    /\ pc = "load"
    /\ i > 0
    /\ Len(lastestTransactionList) < ListCap
    /\ lastestTransactionList' = lastestTransactionList \o BlockTxs(i, i)
    /\ i' = i - 1
    /\ UNCHANGED <<height, pc, summary, transactionCountList, currHeight,
                   minHeight, newTxs, newTxCountInfos, db, history>>

LoadBlockFails ==
    /\ pc = "load"
    /\ i > 0
    /\ Len(lastestTransactionList) < ListCap
    /\ Fault
    /\ i' = i - 1
    /\ UNCHANGED <<height, pc, summary, lists, currHeight, minHeight, newTxs,
                   newTxCountInfos, db, skipped, unindexed, rewound, crashes>>

LoadDone ==
    /\ pc = "load"
    /\ i = 0 \/ Len(lastestTransactionList) >= ListCap
    /\ pc' = "sleep"
    /\ ClearLocals
    /\ UNCHANGED <<height, summary, lists, db, history>>

-----------------------------------------------------------------------------
(* updateChainInfoCount, one round of the updater. *)

\* Take the kernel's height, and set out from the top pair below it; slip: the
\* height is only shown when the round is over.
SlipBegin ==
    /\ pc = "sleep"
    /\ pc' = "pair"
    /\ currHeight' = height
    /\ currentTransactions' = FirstCount
    /\ minHeight' = Floor
    /\ i' = TopPair
    /\ UNCHANGED <<height, Blocks, Transactions, MaximumTps, lists, newTxs,
                   newTxCountInfos, db, history>>

Begin ==
    /\ pc = "sleep"
    /\ pc' = "pair"
    /\ currHeight' = height
    /\ currentTransactions' = FirstCount
    /\ minHeight' = Floor
    /\ Blocks' = height
    /\ i' = TopPair
    /\ UNCHANGED <<height, Transactions, MaximumTps, lists, newTxs,
                   newTxCountInfos, db, history>>

\* Kernel.Block(i) or Kernel.Block(i - 1) fails: the loop goes on below the pair;
\* slip: with the same pair.
SlipReadPairFails ==
    /\ pc = "pair"
    /\ i > minHeight
    /\ Fault
    /\ UNCHANGED <<height, pc, summary, lists, locals, db, skipped, unindexed,
                   rewound, crashes>>

ReadPairFails ==
    /\ pc = "pair"
    /\ i > minHeight
    /\ Fault
    /\ skipped' = skipped \cup {i - 1, i}
    /\ i' = i - 2
    /\ UNCHANGED <<height, pc, summary, lists, currHeight, minHeight, newTxs,
                   newTxCountInfos, db, unindexed, rewound, crashes>>

\* Both blocks are read: count them, and queue their feed rows and chart point.
\* The rows of the lower block carry the hash of the upper one.
ReadPair ==
    /\ pc = "pair"
    /\ i > minHeight
    /\ pc' = "upper"
    /\ currentTransactions' = currentTransactions + PairTxs(i)
    /\ MaximumTps' = Peak(PairTxs(i))
    /\ newTxCountInfos' =
           IF Len(newTxCountInfos) < ChartBatch
           THEN Append(newTxCountInfos, [Time |-> i, Count |-> PairTxs(i)])
           ELSE newTxCountInfos
    /\ newTxs' = FirstOf(newTxs \o BlockTxs(i, i) \o BlockTxs(i - 1, i),
                         ListCap + 1)
    /\ UNCHANGED <<height, Blocks, Transactions, lists, currHeight, minHeight,
                   i, db, history>>

\* updateBlock and updateHashs: the keys of block h and its producer's count.
IndexBlock(h) ==
    /\ dbHashes' = dbHashes \cup {h}
    /\ dbFormulator' = [dbFormulator EXCEPT ![Formulator[h]] =
                                          ProducedBy(Formulator[h])]
    /\ UNCHANGED <<dbInfo, history>>

\* Its transaction fails as a whole, and updateChainInfoCount ignores the error.
IndexBlockFails(h) ==
    /\ Fault
    /\ unindexed' = unindexed \cup {h}
    /\ UNCHANGED <<db, skipped, rewound, crashes>>

IndexUpper ==
    /\ pc = "upper"
    /\ pc' = "lower"
    /\ IndexBlock(i) \/ IndexBlockFails(i)
    /\ UNCHANGED <<height, summary, lists, locals>>

IndexLower ==
    /\ pc = "lower"
    /\ pc' = "pair"
    /\ IndexBlock(i - 1) \/ IndexBlockFails(i - 1)
    /\ i' = i - 2
    /\ UNCHANGED <<height, summary, lists, currHeight, minHeight, newTxs,
                   newTxCountInfos>>

\* The loop is over: put the new rows and points in front, add up the total.
Finish ==
    /\ pc = "pair"
    /\ i <= minHeight
    /\ pc' = AfterLoop
    /\ Blocks' = currHeight
    /\ lastestTransactionList' = PutInFront(newTxs, lastestTransactionList)
    /\ transactionCountList' =
           PutInFront(newTxCountInfos, transactionCountList)
    /\ Transactions' = Transactions + currentTransactions
    /\ UNCHANGED <<height, currentTransactions, MaximumTps, locals, db, history>>

Save ==
    /\ pc = "save"
    /\ pc' = "sleep"
    /\ dbInfo' = SavedInfo
    /\ ClearLocals
    /\ UNCHANGED <<height, summary, lists, dbHashes, dbFormulator, history>>

\* The save fails; the goroutine drops the error and sleeps.
SaveFails ==
    /\ pc = "save"
    /\ pc' = "sleep"
    /\ Fault
    /\ ClearLocals
    /\ UNCHANGED <<height, summary, lists, db, skipped, unindexed, rewound,
                   crashes>>

-----------------------------------------------------------------------------
\* The process dies between any two steps.  What badger committed stays (it
\* syncs every write); a kernel store opened with recovery may be shorter.
Crash ==
    /\ pc # "down"
    /\ crashes < MaxCrashes
    /\ crashes' = crashes + 1
    /\ pc' = "down"
    /\ height' \in {h \in 0..height : height - h <= RecoveryLoss}
    /\ rewound' = (rewound \/ height' < height)
    /\ Blocks' = 0 /\ Transactions' = 0 /\ currentTransactions' = 0
    /\ MaximumTps' = 0
    /\ lastestTransactionList' = <<>> /\ transactionCountList' = <<>>
    /\ ClearLocals
    /\ UNCHANGED <<db, skipped, unindexed, faults>>

Load   == LoadBlock \/ LoadBlockFails \/ LoadDone
Update == \/ Begin \/ ReadPair \/ ReadPairFails \/ IndexUpper \/ IndexLower
          \/ Finish \/ Save \/ SaveFails
Next   == Grow \/ Start \/ Load \/ Update \/ Crash

Spec == Init /\ [][Next]_vars

-----------------------------------------------------------------------------
(* Properties. *)

Heights   == 0..MaxHeight
FeedRow   == [TxHash : (1..MaxHeight) \X (Nat \ {0}), BlockHash : 1..MaxHeight]
ChartRow  == [Time : 1..MaxHeight, Count : Nat]
Info      == [Blocks : Heights, Transactions : Nat,
              currentTransactions : Nat, MaximumTps : Nat]
Labels    == {"load", "sleep", "pair", "upper", "lower", "save", "down"}

\* The type invariant.
TypeOK ==
    /\ height \in Heights
    /\ pc \in Labels
    /\ Blocks \in Heights
    /\ Transactions \in Nat /\ currentTransactions \in Nat
    /\ MaximumTps \in Nat
    /\ lastestTransactionList \in Seq(FeedRow)
    /\ transactionCountList \in Seq(ChartRow)
    /\ currHeight \in Heights /\ minHeight \in Heights /\ i \in Heights
    /\ newTxs \in Seq(FeedRow) /\ newTxCountInfos \in Seq(ChartRow)
    /\ dbInfo \in Info
    /\ dbHashes \subseteq 1..MaxHeight
    /\ dbFormulator \in [Formulators -> Nat]
    /\ skipped \subseteq 1..MaxHeight /\ unindexed \subseteq 1..MaxHeight
    /\ rewound \in BOOLEAN /\ faults \in Nat /\ crashes \in Nat

\* The blocks that are in the index, or known to have failed.
Accounted == dbHashes \cup skipped \cup unindexed

\* The summary on disk never runs ahead of the index on disk: every block at or
\* below the even part of the saved height has its keys, unless reading or
\* committing it failed.  Rounds index from the top of the chain downwards, each
\* block in its own transaction and the summary in the last one, so this is what
\* makes a crash between any two of them harmless.
IndexCovers == 1..Even(dbInfo.Blocks) \subseteq Accounted

\* The transaction total on disk counts every transaction of the blocks it
\* covers once, however often the process crashed between counting and saving;
\* pairs that could not be read are the only ones missing from it.  (Once the
\* kernel has come back with fewer blocks that is over, see RecoveredTotal.)
TransactionsExact ==
    ~rewound =>
        /\ dbInfo.Transactions <= TxsUpTo[Even(dbInfo.Blocks)]
        /\ skipped = {} => dbInfo.Transactions = TxsUpTo[Even(dbInfo.Blocks)]

\* What the height and the total hold at one moment: a round writes the height
\* first and the total last, so the total is never ahead.  A request reads them at
\* two moments; what its answer can show is ShownTogether of Display.
DisplayNeverAhead ==
    ~rewound => Transactions <= TxsUpTo[Even(Blocks)]

EvenHeights(top) == {h \in 1..top : h % 2 = 0}

\* The peak on disk is the largest pair of the blocks it covers: no pair that was
\* read is above it, even when a crash lost the round that saw it first.
PeakIsMaximum ==
    /\ \A h \in EvenHeights(dbInfo.Blocks) :
           h \in skipped \/ PairTxs(h) <= dbInfo.MaximumTps
    /\ \/ dbInfo.MaximumTps = 0
       \/ \E h \in EvenHeights(MaxHeight) : dbInfo.MaximumTps = PairTxs(h)

Produced(f) == {h \in dbHashes : Formulator[h] = f}

\* The keys of a block and its producer's count are written by one transaction:
\* a producer never has fewer blocks counted than blocks in the index, and each
\* life of the process counts a block at most once, so never more than that many
\* times each.
ProducedCounted ==
    \A f \in Formulators :
        /\ Cardinality(Produced(f)) <= dbFormulator[f]
        /\ dbFormulator[f] <= (crashes + 1) * Cardinality(Produced(f))

\* While the first process lives and has read everything it asked for, the feed
\* it leaves at the end of a round begins with the newest ListCap transactions
\* of the complete pairs, or with all of them, newest block first: row k is the
\* k-th of them.  What the constructor put in before comes behind.
FeedIsLatest ==
    (pc = "sleep" /\ crashes = 0 /\ skipped = {}) =>
        LET total == TxsUpTo[Even(Blocks)]
        IN  \A k \in 1..ListCap :
                k <= total =>
                    /\ k \in DOMAIN lastestTransactionList
                    /\ LET tx == lastestTransactionList[k].TxHash
                       IN  total - TxsUpTo[tx[1]] + tx[2] = k

\* A restarted explorer shows a transaction at most twice, whatever was lost:
\* once from the constructor's walk and once from a round's.
FeedAtMostTwice ==
    \A j, k, m \in DOMAIN lastestTransactionList :
        j < k /\ k < m =>
            ~ /\ lastestTransactionList[j].TxHash = lastestTransactionList[k].TxHash
              /\ lastestTransactionList[k].TxHash = lastestTransactionList[m].TxHash

\* The chart runs strictly back in time, one point per pair, each with the
\* pair's own count, over any number of rounds and restarts.
ChartDescending ==
    /\ \A j, k \in DOMAIN transactionCountList :
           j < k => transactionCountList[j].Time > transactionCountList[k].Time
    /\ \A k \in DOMAIN transactionCountList :
           transactionCountList[k].Count = PairTxs(transactionCountList[k].Time)

\* The saved total and peak never go down, over crashes, failed saves and
\* recoveries; nor does the saved height, until the kernel has lost blocks.
SummaryNeverGoesBack ==
    [][/\ dbInfo.Transactions <= dbInfo'.Transactions
       /\ dbInfo.MaximumTps <= dbInfo'.MaximumTps
       /\ ~rewound => dbInfo.Blocks <= dbInfo'.Blocks]_vars

\* Every block of a complete pair is indexed (or its read or commit failed)
\* sooner or later, unless the process dies first; after each restart again.
EventuallyIndexed ==
    \A h \in 1..Even(MaxHeight) :
        Even(height) >= h ~> (h \in Accounted \/ pc = "down")

\* The summary on disk reaches every height the chain reached: a failed save is
\* made good by the next round, which saves even when there is no new block.
SummaryCatchesUp ==
    \A h \in 1..MaxHeight : height >= h ~> (dbInfo.Blocks >= h \/ pc = "down")

\* Whatever becomes of the kernel's store, each life of the process counts a
\* transaction at most once: a recovery makes the total wrong (RecoveredTotal),
\* but by no more than the whole chain for every crash.
TotalBounded == dbInfo.Transactions <= (crashes + 1) * TxsUpTo[MaxHeight]

\* A row of the feed names the block of its transaction, or the block above, and
\* then its block is the lower one of a pair: how far FeedBlockHash is wrong.
FeedNamesPair ==
    \A k \in DOMAIN lastestTransactionList :
        LET row == lastestTransactionList[k]
            h   == row.TxHash[1]
        IN  row.BlockHash = h \/ (row.BlockHash = h + 1 /\ h % 2 = 1)

\* How many steps of its own the constructor's walk, or the running round, has
\* left at most.
Remaining ==
    CASE pc = "load"  -> i + 1
      [] pc = "pair"  -> 3 * (i \div 2) + 2
      [] pc = "upper" -> 3 * (i \div 2) + 1
      [] pc = "lower" -> 3 * (i \div 2)
      [] pc = "save"  -> 1
      [] OTHER        -> 0

\* Each step of a round or of the constructor's walk brings its end nearer, failed
\* reads and commits included, and the chain does not put it off by growing.
RoundsEnd ==
    [][/\ Load \/ Update => pc = "sleep" \/ Remaining' < Remaining
       /\ Grow => Remaining' = Remaining]_vars

\* The page index.html calls the total "Number of transactions issued so far":
\* it should not exceed the number of transactions the chain ever had.  After a
\* recovery that lost blocks, the rounds count the blocks that come back again.
RecoveredTotal == dbInfo.Transactions <= TxsUpTo[MaxHeight]

\* The BlockHash column next to a transaction names the block that holds it.
FeedBlockHash ==
    \A k \in DOMAIN lastestTransactionList :
        lastestTransactionList[k].BlockHash = lastestTransactionList[k].TxHash[1]

\* The block count of a producer is the number of its blocks in the index.
BlockCountExact ==
    \A f \in Formulators : dbFormulator[f] = Cardinality(Produced(f))

-----------------------------------------------------------------------------
(* Refinement: the database is all the abstract index consists of. *)

Promise == INSTANCE ChainIndex WITH
    top <- height, indexed <- dbHashes, lost <- skipped \cup unindexed,
    blocks <- dbInfo.Blocks, transactions <- dbInfo.Transactions

\* The explorer implements ChainIndex: rounds, failed reads and commits, crashes
\* and restarts are invisible in it, and of a recovery it shows what it promises.
KeepsPromise == Promise!Spec
=============================================================================
