------------------------------- MODULE Lookup -------------------------------
(***************************************************************************)
(* What the detail pages promise who asks for a block or a transaction:    *)
(* an answer of one moment.  The page is made of a single block, which is  *)
(* in the chain when the answer is there, and it is the one asked for, or  *)
(* what was asked for has been lost in a recovery (or is no uint32).  A    *)
(* hash is unknown only while its block has not been entered, once, in an  *)
(* index that forgets nothing.  Rounds, pairs, heights that were saved and *)
(* the three calls a page takes do not exist here.                         *)
(***************************************************************************)
EXTENDS Integers, Sequences

CONSTANTS Tx,     \* transaction hashes
          Hashes, \* block hashes
          Bodies, \* transactions a block may have
          Word    \* heights are below it

VARIABLES chain,      \* the blocks of the kernel, lowest first
          lost,       \* blocks a recovery has lost
          blocksKnown, \* hashes of the blocks entered in the index
          txsKnown,   \* and of their transactions
          query,      \* what is asked for
          answer      \* the kind of page, the blocks it is made of, what it names

vars == <<chain, lost, blocksKnown, txsKnown, query, answer>>

Elems(s) == {s[k] : k \in DOMAIN s}

NoQuery      == [page |-> "none", want |-> 0]
Failed(kind) == [kind |-> kind, from |-> {}, names |-> {}]
Waiting      == Failed("none")

Init ==
    /\ chain = <<>> /\ lost = {}
    /\ blocksKnown = {} /\ txsKnown = {}
    /\ query = NoQuery /\ answer = Waiting

Mine ==
    /\ Len(chain') = Len(chain) + 1  \* of use to TLC, which then tries no block
    /\ \E hash \in Hashes, txs \in Bodies :
           /\ \A h \in DOMAIN chain : chain[h].hash # hash
           /\ \A l \in lost : l.hash # hash
           /\ \A h \in DOMAIN chain : Elems(chain[h].txs) \cap Elems(txs) = {}
           /\ chain' = Append(chain, [hash |-> hash, height |-> Len(chain) + 1,
                                      txs |-> txs])
    /\ UNCHANGED <<lost, blocksKnown, txsKnown, query, answer>>

\* A restart ends the request, with or without a loss; the index stays.
Restart ==
    /\ query' = NoQuery /\ answer' = Waiting
    /\ \E h \in 0..Len(chain) :
           /\ chain' = SubSeq(chain, 1, h)
           /\ lost' = lost \cup {chain[g] : g \in (h + 1)..Len(chain)}
    /\ UNCHANGED <<blocksKnown, txsKnown>>

Enter ==
    /\ \E b \in Elems(chain) : /\ blocksKnown' = blocksKnown \cup {b.hash}
                               /\ txsKnown' = txsKnown \cup Elems(b.txs)
    /\ UNCHANGED <<chain, lost, query, answer>>

AskHeight ==
    /\ query' \in [page : {"height"}, want : Int]
    /\ answer' = Waiting

AskHash(page, hashes, known) ==
    \E x \in hashes :
        /\ query' = [page |-> page, want |-> x]
        /\ answer' = IF x \in known THEN Waiting ELSE Failed("unknown")

Ask ==
    /\ query = NoQuery
    /\ \/ AskHeight
       \/ AskHash("block", Hashes, blocksKnown)
       \/ AskHash("tx", Tx, txsKnown)
    /\ UNCHANGED <<chain, lost, blocksKnown, txsKnown>>

\* What page shows of block b: the names it goes by.
Names(page, b) == IF page = "height" THEN {b.height}
                  ELSE IF page = "block" THEN {b.hash}
                  ELSE Elems(b.txs)

TxLost == query.page = "tx" /\ \E l \in lost : query.want \in Elems(l.txs)
Misled == \/ query.page = "height" /\ query.want \notin 0..(Word - 1)
          \/ query.page = "block" /\ \E l \in lost : l.hash = query.want
          \/ TxLost

Open == query # NoQuery /\ answer = Waiting

Show ==
    /\ Open
    /\ \E b \in Elems(chain) : \E x \in Names(query.page, b) :
           /\ x = query.want \/ Misled
           /\ answer' = [kind |-> "page", from |-> {b}, names |-> {x}]
    /\ UNCHANGED <<chain, lost, blocksKnown, txsKnown, query>>

\* The kernel may fail to return a block; the request is aborted only over a
\* transaction that was lost.
Fail ==
    /\ Open
    /\ answer' = Failed("empty") \/ (TxLost /\ answer' = Failed("aborted"))
    /\ UNCHANGED <<chain, lost, blocksKnown, txsKnown, query>>

Reply ==
    /\ query # NoQuery /\ answer # Waiting
    /\ query' = NoQuery /\ answer' = Waiting
    /\ UNCHANGED <<chain, lost, blocksKnown, txsKnown>>

Next == Mine \/ Restart \/ Enter \/ Ask \/ Show \/ Fail \/ Reply

Spec == Init /\ [][Next]_vars
=============================================================================
