----------------------------- MODULE DetailPages -----------------------------
(***************************************************************************)
(* The two detail pages (src/explorer_controller.go) over the index that   *)
(* updateHashs of src/block_explorer.go writes.  A block's page is asked   *)
(* for by height or by hash, a transaction's by hash; a hash is looked up  *)
(* in badger, and what it finds is a place in the chain, a height and for  *)
(* a transaction an index too, which the kernel is then asked for twice.   *)
(*                                                                         *)
(* BlockExplorer tells when a block is indexed and ChainIndex what that    *)
(* promises; there a hash is its place.  Here the two part: a kernel store *)
(* recovered after a crash may have lost blocks, others take their places, *)
(* their transactions come back elsewhere, and the keys of the lost blocks *)
(* stay behind.                                                            *)
(***************************************************************************)
EXTENDS Integers, Sequences, FiniteSets

CONSTANTS Tx,           \* transaction hashes
          BlockSize,    \* bound: transactions of a block
          MaxBlocks,    \* bound: blocks ever mined; their hashes are 1, 2, ...
          Word,         \* 2^32 in the code: heights are uint32
          AskedHeights, \* bound: the numbers asked for as a height
          RecoveryLoss, \* blocks a recovered kernel store may have lost
          MaxFaults,    \* bound: blocks that could not be read or committed
          MaxCrashes    \* bound: crashes of the process

ASSUME SizeAssumption ==
    /\ BlockSize \in Nat /\ MaxBlocks \in Nat
    /\ Word \in Nat /\ MaxBlocks < Word
ASSUME AskedAssumption == AskedHeights \subseteq Int
ASSUME BoundAssumption ==
    RecoveryLoss \in Nat /\ MaxFaults \in Nat /\ MaxCrashes \in Nat

VARIABLES
    chain,     \* the blocks of the kernel, lowest first
    (* the updater *)
    round,     \* a round is running
    Blocks,    \* CurrentChainInfo.Blocks
    i,         \* the next height the round indexes
    minHeight, \* and where it stops
    (* the badger database *)
    dbBlocks,  \* CurrentChainInfo.Blocks as last saved
    blockKey,  \* block hash -> height
    txKey,     \* transaction hash -> <<height, index>>
    (* a request for a page *)
    req,
    (* what happened so far; read by the properties and the bounds only *)
    mined,     \* number of blocks mined
    lost,      \* blocks lost by recoveries
    failed,    \* hashes of the blocks a round could not read or commit
    crashes

updater == <<round, Blocks, i, minHeight>>
db      == <<dbBlocks, blockKey, txKey>>
history == <<mined, lost, failed, crashes>>
vars    == <<chain, updater, db, req, history>>

Even(h) == h - (h % 2)
Elems(s) == {s[k] : k \in DOMAIN s}

\* f with the entries of g, which win.
Override(f, g) ==
    [x \in DOMAIN f \cup DOMAIN g |-> IF x \in DOMAIN g THEN g[x] ELSE f[x]]

Bodies == {<<>>} \cup UNION {{s \in [1..n -> Tx] : \A j, k \in 1..n : s[j] = s[k] => j = k}
                               : n \in 1..BlockSize}

\* A request: what is asked for, the place it was looked up at, the blocks the
\* kernel returned so far, and what came of it.
Asked(page, want, at, index) ==
    [page |-> page, want |-> want, at |-> at, index |-> index,
     read |-> <<>>, result |-> "open"]
Unknown(page, want) == [Asked(page, want, 0, 0) EXCEPT !.result = "unknown"]
NoRequest == Unknown("none", 0)

Init ==
    /\ chain = <<>>
    /\ round = FALSE /\ Blocks = 0 /\ i = 0 /\ minHeight = 0
    /\ dbBlocks = 0 /\ blockKey = <<>> /\ txKey = <<>>
    /\ req = NoRequest
    /\ mined = 0 /\ lost = {} /\ failed = {} /\ crashes = 0

-----------------------------------------------------------------------------
(* The kernel. *)

Pending == Tx \ UNION {Elems(chain[h].txs) : h \in DOMAIN chain}

Mine ==
    /\ mined < MaxBlocks
    /\ mined' = mined + 1
    /\ \E txs \in Bodies :
           /\ Elems(txs) \subseteq Pending
           /\ chain' = Append(chain, [hash |-> mined + 1,
                                      height |-> Len(chain) + 1, txs |-> txs])
    /\ UNCHANGED <<updater, db, req, lost, failed, crashes>>

-----------------------------------------------------------------------------
(* updateChainInfoCount, as far as the index goes: from the top pair down to  *)
(* the height of the round before, then the summary.                          *)

Begin ==
    /\ ~round
    /\ round' = TRUE
    /\ minHeight' = Blocks
    /\ Blocks' = Len(chain)
    /\ i' = Even(Len(chain))
    /\ UNCHANGED <<chain, db, req, history>>

\* The entries updateHashs writes for the transactions of block b; slip: their
\* values share one buffer.
SlipTxEntries(b) ==
    [t \in Elems(b.txs) |-> <<b.height, Len(b.txs)>>]
TxEntries(b) ==
    [t \in Elems(b.txs) |->
        <<b.height, CHOOSE k \in DOMAIN b.txs : b.txs[k] = t>>]

\* The loop goes on while it has a pair above minHeight.
InPair == round /\ i > Even(minHeight)

Index ==
    /\ InPair
    /\ LET b == chain[i]
       IN  /\ blockKey' = Override(blockKey, [x \in {b.hash} |-> b.height])
           /\ txKey' = Override(txKey, TxEntries(b))
    /\ i' = i - 1
    /\ UNCHANGED <<chain, round, Blocks, minHeight, dbBlocks, req, history>>

\* The block cannot be read, or its transaction fails to commit.
IndexFails ==
    /\ InPair
    /\ Cardinality(failed) < MaxFaults
    /\ failed' = failed \cup {chain[i].hash}
    /\ i' = i - 1
    /\ UNCHANGED <<chain, round, Blocks, minHeight, db, req, mined, lost, crashes>>

\* The summary is saved, or the save fails, which the goroutine ignores.
Finish ==
    /\ round /\ ~InPair
    /\ round' = FALSE
    /\ dbBlocks' \in {Blocks, dbBlocks}
    /\ UNCHANGED <<chain, Blocks, i, minHeight, blockKey, txKey, req, history>>

\* The height a restart begins with; slip: the kernel's.
SlipLoaded(h) == h
Loaded(h)     == dbBlocks

\* The process dies and starts again, with a kernel store that may be shorter.
Restart ==
    /\ crashes < MaxCrashes
    /\ crashes' = crashes + 1
    /\ \E h \in 0..Len(chain) :
           /\ Len(chain) - h <= RecoveryLoss
           /\ chain' = SubSeq(chain, 1, h)
           /\ lost' = lost \cup {chain[g] : g \in (h + 1)..Len(chain)}
           /\ Blocks' = Loaded(h)
    /\ round' = FALSE /\ i' = 0 /\ minHeight' = 0
    /\ req' = NoRequest
    /\ UNCHANGED <<db, mined, failed>>

-----------------------------------------------------------------------------
(* The pages. *)

\* A height as the URL has it, converted to uint32.
Wrap(n) == n % Word

\* Where the key of a transaction says it is; slip: its parts swapped.
SlipPlace(t) == <<txKey[t][2], txKey[t][1]>>
Place(t)     == txKey[t]

\* BlockDetail with a height.
AskHeight ==
    /\ req = NoRequest
    /\ \E n \in AskedHeights : req' = Asked("height", n, Wrap(n), 0)
    /\ UNCHANGED <<chain, updater, db, history>>

\* BlockDetail with the hash of a block: a View, and the height is known.
AskBlock ==
    /\ req = NoRequest
    /\ \E b \in 1..mined :
           req' = IF b \in DOMAIN blockKey
                  THEN Asked("block", b, blockKey[b], 0)
                  ELSE Unknown("block", b)
    /\ UNCHANGED <<chain, updater, db, history>>

\* TransactionDetail.
AskTx ==
    /\ req = NoRequest
    /\ \E t \in Tx :
           req' = IF t \in DOMAIN txKey
                  THEN Asked("tx", t, Place(t)[1], Place(t)[2])
                  ELSE Unknown("tx", t)
    /\ UNCHANGED <<chain, updater, db, history>>

\* blockDetailMap takes the header from the first read and the transactions from
\* the second, txDetailMap the transaction from the first and the header from the
\* second; a transaction that is not in the block is an index out of range, a
\* panic that aborts the request.
Read ==
    /\ req.result = "open"
    /\ req.at \in DOMAIN chain
    /\ LET b == chain[req.at]
       IN  req' = [req EXCEPT
               !.read = Append(@, b),
               !.result = IF req.page = "tx" /\ req.index \notin DOMAIN b.txs
                          THEN "aborted"
                          ELSE IF req.read = <<>> THEN "open" ELSE "page"]
    /\ UNCHANGED <<chain, updater, db, history>>

\* There is no such block, or the kernel fails to return it: the handler logs the
\* error and renders the page with nothing in it, status 200.
ReadFails ==
    /\ req.result = "open"
    /\ req' = [req EXCEPT !.result = "empty"]
    /\ UNCHANGED <<chain, updater, db, history>>

Reply ==
    /\ req.result \in {"page", "empty", "unknown", "aborted"}
    /\ req # NoRequest
    /\ req' = NoRequest
    /\ UNCHANGED <<chain, updater, db, history>>

Request == AskHeight \/ AskBlock \/ AskTx \/ Read \/ ReadFails \/ Reply
Update  == Begin \/ Index \/ IndexFails \/ Finish
Next    == Mine \/ Update \/ Restart \/ Request

Spec == Init /\ [][Next]_vars

-----------------------------------------------------------------------------
(* Properties. *)

Block   == [hash : 1..MaxBlocks, height : 1..MaxBlocks, txs : Bodies]
Results == {"open", "page", "empty", "unknown", "aborted"}

\* The type invariant.
TypeOK ==
    /\ chain \in Seq(Block) /\ Len(chain) <= mined
    /\ \A h \in DOMAIN chain : chain[h].height = h
    /\ round \in BOOLEAN
    /\ Blocks \in 0..MaxBlocks /\ dbBlocks \in 0..MaxBlocks
    /\ minHeight \in 0..MaxBlocks /\ i \in 0..Len(chain)
    /\ DOMAIN blockKey \subseteq 1..MaxBlocks
    /\ \A b \in DOMAIN blockKey : blockKey[b] \in 1..MaxBlocks
    /\ DOMAIN txKey \subseteq Tx
    /\ \A t \in DOMAIN txKey : txKey[t] \in (1..MaxBlocks) \X (1..BlockSize)
    /\ req.read \in Seq(Block) /\ req.result \in Results
    /\ req.at \in 0..(Word - 1)
    /\ mined \in 0..MaxBlocks /\ crashes \in Nat
    /\ lost \subseteq Block /\ failed \subseteq 1..mined

LostBlock(b) == \E l \in lost : l.hash = b
LostTx(t)    == \E l \in lost : t \in Elems(l.txs)

\* The keys of a block and of its transactions are committed together and point
\* home: if the block of the chain has a key, then to its height, and each of its
\* transactions has one, to its own place, whatever place a block the kernel has
\* lost since had given it.  Keys that point nowhere are of such lost blocks.
KeysPointHome ==
    /\ \A h \in DOMAIN chain :
           chain[h].hash \in DOMAIN blockKey =>
               /\ blockKey[chain[h].hash] = h
               /\ \A k \in DOMAIN chain[h].txs :
                      /\ chain[h].txs[k] \in DOMAIN txKey
                      /\ txKey[chain[h].txs[k]] = <<h, k>>
    /\ \A b \in DOMAIN blockKey :
           LostBlock(b) \/ \E h \in DOMAIN chain : chain[h].hash = b
    /\ \A t \in DOMAIN txKey :
           LostTx(t) \/ \E h \in DOMAIN chain : t \in Elems(chain[h].txs)

\* A page shows what was asked for, from one block: the reads that go into it are
\* steps apart, of each other and of the look-up, while the chain grows and the
\* index with it.  Only the hash of a block that was lost, or of a transaction
\* that was in one, can lead to another or, for a transaction, abort the request;
\* and only a number that is no uint32 to a block of another height.
PageShowsAsked ==
    /\ req.result = "page" =>
           LET b == req.read[1]
           IN  /\ req.read[2] = b
               /\ req.page = "height" =>
                      b.height = req.want \/ req.want \notin 0..(Word - 1)
               /\ req.page = "block" => b.hash = req.want \/ LostBlock(req.want)
               /\ req.page = "tx" =>
                      b.txs[req.index] = req.want \/ LostTx(req.want)
    /\ req.result = "aborted" => LostTx(req.want)

\* No block of the chain up to the last pair of the saved height is without its
\* keys, unless reading or committing it failed, or it has taken the place of a
\* lost one: those may stay without them for good, when they come before the
\* first round after the restart, which starts above the height that was saved.
ChainCovered ==
    \A h \in DOMAIN chain :
        h <= Even(dbBlocks) =>
            \/ chain[h].hash \in DOMAIN blockKey \cup failed
            \/ \E l \in lost : l.height = h

\* What is asked for and the answer, in one piece: the blocks read for the page,
\* and what it shows of them.
Query == IF req = NoRequest THEN [page |-> "none", want |-> 0]
         ELSE [page |-> req.page, want |-> req.want]

Shown == CASE req.page = "height" -> req.read[1].height
           [] req.page = "block"  -> req.read[1].hash
           [] req.page = "tx"     -> req.read[1].txs[req.index]

Answer ==
    IF req.result = "page"
    THEN [kind |-> "page", from |-> Elems(req.read), names |-> {Shown}]
    ELSE [kind |-> IF req = NoRequest \/ req.result = "open" THEN "none"
                   ELSE req.result,
          from |-> {}, names |-> {}]

AsOne == INSTANCE Lookup WITH
             Hashes <- 1..MaxBlocks, blocksKnown <- DOMAIN blockKey,
             txsKnown <- DOMAIN txKey, query <- Query, answer <- Answer

\* The pages implement Lookup: a look-up and two reads of the kernel, with blocks
\* mined and indexed in between, amount to an answer of the moment of the last.
AnswersAtOnce == AsOne!Spec
=============================================================================
