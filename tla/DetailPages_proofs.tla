------------------------- MODULE DetailPages_proofs -------------------------
(***************************************************************************)
(* Proofs about DetailPages, for any transactions, sizes of blocks and     *)
(* numbers of blocks, any width of a height that is wide enough for those, *)
(* and any number of crashes, faults and lost blocks.                      *)
(***************************************************************************)
EXTENDS DetailPages, SequenceTheorems, TLAPS

USE DEF updater, db, history, vars

-----------------------------------------------------------------------------
(* Facts about the operators. *)

LEMMA EvenBelow == \A h \in Nat : Even(h) \in 0..h
  BY DEF Even

LEMMA BodyFacts ==
    ASSUME NEW s \in Bodies
    PROVE  /\ DOMAIN s \subseteq 1..BlockSize
           /\ \A k \in DOMAIN s : s[k] \in Tx
           /\ \A j, k \in DOMAIN s : s[j] = s[k] => j = k
  <1>1. CASE s = <<>>
    BY <1>1
  <1>2. CASE s # <<>>
    <2>1. PICK n \in 1..BlockSize : s \in [1..n -> Tx] /\ \A j, k \in 1..n : s[j] = s[k] => j = k
      BY <1>2 DEF Bodies
    <2>2. DOMAIN s = 1..n /\ 1..n \subseteq 1..BlockSize
      BY <2>1, SizeAssumption
    <2> QED
      BY <2>1, <2>2
  <1> QED
    BY <1>1, <1>2

\* A prefix of the chain.
LEMMA PrefixFacts ==
    ASSUME NEW S, NEW s \in Seq(S), NEW h \in 0..Len(s)
    PROVE  /\ SubSeq(s, 1, h) \in Seq(S) /\ Len(SubSeq(s, 1, h)) = h
           /\ \A k \in 1..h : SubSeq(s, 1, h)[k] = s[k]
  BY SubSeqProperties

-----------------------------------------------------------------------------
(* The inductive invariant. *)

Wants == AskedHeights \cup (0..MaxBlocks) \cup Tx

\* The type invariant, as far as the proofs need it.
Types ==
    /\ TypeOK
    /\ req \in [page : {"none", "height", "block", "tx"}, want : Wants,
                at : 0..(Word - 1), index : 0..BlockSize, read : Seq(Block),
                result : Results]
    /\ req.page = "height" => req.want \in Int

\* A hash is of one block, a transaction is in one block of the chain.
ChainInv ==
    /\ \A h \in DOMAIN chain : chain[h].hash \in 1..mined
    /\ \A l \in lost : l.hash \in 1..mined
    /\ \A g, h \in DOMAIN chain :
           g # h => /\ chain[g].hash # chain[h].hash
                    /\ Elems(chain[g].txs) \cap Elems(chain[h].txs) = {}

\* As KeysPointHome, but that the key of a transaction that was in no lost block
\* is of a block with its own key.
KeysInv ==
    /\ \A h \in DOMAIN chain :
           chain[h].hash \in DOMAIN blockKey =>
               /\ blockKey[chain[h].hash] = h
               /\ \A k \in DOMAIN chain[h].txs :
                      /\ chain[h].txs[k] \in DOMAIN txKey
                      /\ txKey[chain[h].txs[k]] = <<h, k>>
    /\ \A b \in DOMAIN blockKey :
           LostBlock(b) \/ \E h \in DOMAIN chain : chain[h].hash = b
    /\ \A t \in DOMAIN txKey :
           LostTx(t) \/ \E h \in DOMAIN chain :
                            t \in Elems(chain[h].txs) /\ chain[h].hash \in DOMAIN blockKey

\* The place a request looks at is that of what it asks for, and what it has read is
\* the block there: the chain only grows but at a restart, which ends the request.
RequestInv ==
    /\ req.page = "height" => req.at = req.want % Word
    /\ req.page = "block" /\ req.result # "unknown" =>
           LostBlock(req.want) \/ (req.at \in DOMAIN chain /\ chain[req.at].hash = req.want)
    /\ req.page = "tx" /\ req.result # "unknown" =>
           \/ LostTx(req.want)
           \/ /\ req.at \in DOMAIN chain /\ req.index \in DOMAIN chain[req.at].txs
              /\ chain[req.at].txs[req.index] = req.want
    /\ req.read # <<>> => req.at \in DOMAIN chain
    /\ \A j \in 1..Len(req.read) : req.read[j] = chain[req.at]
    /\ req.result = "open" => Len(req.read) <= 1
    /\ req.result = "page" => Len(req.read) = 2
    /\ req.result = "aborted" => LostTx(req.want)

\* The block of height h has its keys, or it is one of those that need not.
Done(h) == \/ chain[h].hash \in DOMAIN blockKey \cup failed
           \/ \E l \in lost : l.height = h

\* What counts as seen is of the chain, or was lost.
Seen(n) == \A h \in 1..n : h <= Len(chain) \/ \E l \in lost : l.height = h

\* A round has done what is above i, and what rounds before it had done.
CoverInv ==
    /\ Seen(Blocks) /\ Seen(minHeight) /\ Seen(dbBlocks)
    /\ \A h \in DOMAIN chain : h <= Even(dbBlocks) => Done(h)
    /\ ~round => \A h \in DOMAIN chain : h <= Even(Blocks) => Done(h)
    /\ round => \A h \in DOMAIN chain :
                    h <= Even(minHeight) \/ (i < h /\ h <= Even(Blocks)) => Done(h)

Inv == Types /\ ChainInv /\ KeysInv /\ RequestInv /\ CoverInv

LEMMA Start ==
    ASSUME Init
    PROVE  Inv
  <1>1. Len(chain) = 0 /\ DOMAIN chain = {} /\ DOMAIN blockKey = {} /\ DOMAIN txKey = {}
    BY DEF Init
  <1>2. 0 \in 0..MaxBlocks /\ 0 \in 0..(Word - 1) /\ 0 \in Wants /\ 0 \in 0..BlockSize
    BY SizeAssumption DEF Wants
  <1>3. req = [page |-> "none", want |-> 0, at |-> 0, index |-> 0, read |-> <<>>,
               result |-> "unknown"]
    BY DEF Init, NoRequest, Unknown, Asked
  <1>4. TypeOK
    <2>1. chain \in Seq(Block) /\ req.read \in Seq(Block) /\ Len(chain) <= mined
      BY <1>1, <1>3 DEF Init
    <2>2. /\ i \in 0..Len(chain) /\ req.result \in Results
          /\ req.at \in 0..(Word - 1) /\ crashes \in Nat
          /\ lost \subseteq Block /\ failed \subseteq 1..mined
      BY <1>1, <1>2, <1>3 DEF Init, Results
    <2>4. round \in BOOLEAN
      BY DEF Init
    <2>3. /\ Blocks \in 0..MaxBlocks /\ dbBlocks \in 0..MaxBlocks
          /\ minHeight \in 0..MaxBlocks /\ mined \in 0..MaxBlocks
      BY <1>2 DEF Init
    <2> QED
      BY <1>1, <2>1, <2>2, <2>3, <2>4 DEF TypeOK
  <1>5. Types
    BY <1>2, <1>3, <1>4 DEF Types, Results
  <1>6. ChainInv /\ KeysInv
    BY <1>1 DEF Init, ChainInv, KeysInv
  <1>7. RequestInv
    BY <1>3 DEF RequestInv
  <1>8. CoverInv
    BY <1>1 DEF Init, CoverInv, Seen
  <1> QED
    BY <1>5, <1>6, <1>7, <1>8 DEF Inv

-----------------------------------------------------------------------------
(* What several steps leave alone. *)

\* The chain's and the keys' part is left alone by what does not touch them.
LEMMA SameChain ==
    ASSUME Inv, UNCHANGED <<chain, mined, lost>>
    PROVE  ChainInv' /\ (UNCHANGED <<blockKey, txKey>> => KeysInv')
  BY DEF Inv, ChainInv, KeysInv, LostBlock, LostTx

\* While the chain only grows and a request is left alone, what it has is right.
LEMMA SameRequest ==
    ASSUME Inv, UNCHANGED <<req, lost>>,
           \A h \in DOMAIN chain : h \in DOMAIN chain' /\ chain'[h] = chain[h]
    PROVE  RequestInv'
  <1>1. \A j \in 1..Len(req.read) : req.read[j] = chain[req.at] /\ req.at \in DOMAIN chain
    <2>1. req.read \in Seq(Block)
      BY DEF Inv, Types
    <2>2. \A j \in 1..Len(req.read) : req.read # <<>>
      BY <2>1
    <2> QED
      BY <2>2 DEF Inv, RequestInv
  <1> QED
    BY <1>1 DEF Inv, RequestInv, LostBlock, LostTx

\* A step of a request.
LEMMA RequestStep ==
    ASSUME Inv, Request
    PROVE  Inv'
  <1> USE DEF Inv
  <1>0. /\ UNCHANGED <<chain, round, Blocks, i, minHeight, dbBlocks, blockKey, txKey,
                       mined, lost, failed, crashes>>
        /\ chain \in Seq(Block)
        /\ \A b \in DOMAIN blockKey : b \in 1..MaxBlocks /\ blockKey[b] \in 1..MaxBlocks
        /\ \A t \in DOMAIN txKey : t \in Tx /\ txKey[t] \in (1..MaxBlocks) \X (1..BlockSize)
        /\ mined \in 0..MaxBlocks
    BY DEF Request, AskHeight, AskBlock, AskTx, Read, ReadFails, Reply, Types, TypeOK
  <1>1. ChainInv' /\ KeysInv' /\ CoverInv'
    <2>1. ChainInv' /\ KeysInv'
      BY <1>0, SameChain
    <2>2. \A h : Done(h)' <=> Done(h)
      BY <1>0 DEF Done
    <2>3. \A n : Seen(n)' <=> Seen(n)
      BY <1>0 DEF Seen
    <2>4. CoverInv'
      BY <1>0, <2>2, <2>3 DEF CoverInv
    <2> QED
      BY <2>1, <2>4
  <1> DEFINE ReqType(r) ==
        /\ r \in [page : {"none", "height", "block", "tx"}, want : Wants,
                  at : 0..(Word - 1), index : 0..BlockSize, read : Seq(Block),
                  result : Results]
        /\ r.page = "height" => r.want \in Int
  <1>2. ASSUME ReqType(req')
        PROVE  Types'
    BY <1>0, <1>2 DEF Types, TypeOK
  <1>3. /\ 1..MaxBlocks \subseteq 0..(Word - 1) /\ 0 \in 0..(Word - 1) /\ 0 \in 0..BlockSize
        /\ 1..BlockSize \subseteq 0..BlockSize /\ Word \in Nat \ {0}
    BY SizeAssumption
  <1>4. ASSUME NEW page \in {"height", "block", "tx"}, NEW want \in Wants,
               NEW place \in 0..(Word - 1), NEW index \in 0..BlockSize,
               page = "height" => want \in Int /\ place = want % Word,
               page = "block" =>
                   LostBlock(want) \/ (place \in DOMAIN chain /\ chain[place].hash = want),
               page = "tx" =>
                   \/ LostTx(want)
                   \/ /\ place \in DOMAIN chain /\ index \in DOMAIN chain[place].txs
                      /\ chain[place].txs[index] = want,
               req' = Asked(page, want, place, index)
        PROVE  Inv'
    <2>1. req' = [page |-> page, want |-> want, at |-> place, index |-> index,
                  read |-> <<>>, result |-> "open"]
      BY <1>4 DEF Asked
    <2>2. ReqType(req')
      BY <1>4, <2>1 DEF Results
    <2>3. RequestInv'
      BY <1>0, <1>4, <2>1 DEF RequestInv, LostBlock, LostTx
    <2> QED
      BY <1>1, <1>2, <2>2, <2>3
  <1>5. ASSUME NEW page \in {"none", "block", "tx"}, NEW want \in Wants,
               req' = Unknown(page, want)
        PROVE  Inv'
    <2>1. req' = [page |-> page, want |-> want, at |-> 0, index |-> 0,
                  read |-> <<>>, result |-> "unknown"]
      BY <1>5 DEF Unknown, Asked
    <2>2. ReqType(req')
      BY <1>3, <1>5, <2>1 DEF Results
    <2>3. RequestInv'
      BY <1>5, <2>1 DEF RequestInv
    <2> QED
      BY <1>1, <1>2, <2>2, <2>3
  <1>6. CASE AskHeight
    <2>1. PICK n \in AskedHeights : req' = Asked("height", n, Wrap(n), 0)
      BY <1>6 DEF AskHeight
    <2>2. n \in Int /\ n \in Wants /\ Wrap(n) = n % Word /\ Wrap(n) \in 0..(Word - 1)
      BY <1>3, AskedAssumption DEF Wants, Wrap
    <2> QED
      BY <1>3, <1>4, <2>1, <2>2
  <1>7. CASE AskBlock
    <2>1. PICK b \in 1..mined :
              req' = IF b \in DOMAIN blockKey THEN Asked("block", b, blockKey[b], 0)
                                              ELSE Unknown("block", b)
      BY <1>7 DEF AskBlock
    <2>2. b \in Wants
      BY <1>0, SizeAssumption DEF Wants
    <2>3. CASE b \in DOMAIN blockKey
      <3>1. LostBlock(b) \/ (blockKey[b] \in DOMAIN chain /\ chain[blockKey[b]].hash = b)
        BY <2>3 DEF KeysInv
      <3>2. blockKey[b] \in 0..(Word - 1)
        BY <1>0, <1>3, <2>3
      <3> QED
        BY <1>3, <1>4, <2>1, <2>2, <2>3, <3>1, <3>2
    <2>4. CASE b \notin DOMAIN blockKey
      BY <1>5, <2>1, <2>2, <2>4
    <2> QED
      BY <2>3, <2>4
  <1>8. CASE AskTx
    <2>1. PICK t \in Tx :
              req' = IF t \in DOMAIN txKey THEN Asked("tx", t, Place(t)[1], Place(t)[2])
                                           ELSE Unknown("tx", t)
      BY <1>8 DEF AskTx
    <2>2. t \in Wants
      BY DEF Wants
    <2>3. CASE t \in DOMAIN txKey
      <3>2. Place(t)[1] \in 0..(Word - 1) /\ Place(t)[2] \in 0..BlockSize
        BY <1>0, <1>3, <2>3 DEF Place
      <3>3. \/ LostTx(t)
            \/ /\ Place(t)[1] \in DOMAIN chain /\ Place(t)[2] \in DOMAIN chain[Place(t)[1]].txs
               /\ chain[Place(t)[1]].txs[Place(t)[2]] = t
        <4> SUFFICES ASSUME ~LostTx(t)
                     PROVE  /\ Place(t)[1] \in DOMAIN chain
                            /\ Place(t)[2] \in DOMAIN chain[Place(t)[1]].txs
                            /\ chain[Place(t)[1]].txs[Place(t)[2]] = t
          OBVIOUS
        <4>1. PICK h \in DOMAIN chain :
                  t \in Elems(chain[h].txs) /\ chain[h].hash \in DOMAIN blockKey
          BY <2>3 DEF KeysInv
        <4>2. PICK k \in DOMAIN chain[h].txs : chain[h].txs[k] = t
          BY <4>1 DEF Elems
        <4>3. txKey[t] = <<h, k>>
          BY <4>1, <4>2 DEF KeysInv
        <4> QED
          BY <4>2, <4>3 DEF Place
      <3> QED
        BY <1>4, <2>1, <2>2, <2>3, <3>2, <3>3
    <2>4. CASE t \notin DOMAIN txKey
      BY <1>5, <2>1, <2>2, <2>4
    <2> QED
      BY <2>3, <2>4
  <1>9. CASE Read
    <2> DEFINE b == chain[req.at]
               result == IF req.page = "tx" /\ req.index \notin DOMAIN b.txs
                         THEN "aborted"
                         ELSE IF req.read = <<>> THEN "open" ELSE "page"
    <2>1. /\ req.result = "open" /\ req.at \in DOMAIN chain
          /\ req' = [req EXCEPT !.read = Append(@, b), !.result = result]
      BY <1>9 DEF Read
    <2>2. ReqType(req) /\ b \in Block /\ req.read \in Seq(Block)
      BY <1>0, <2>1 DEF Types
    <2>3. result \in {"aborted", "open", "page"}
      OBVIOUS
    <2>4. /\ req'.page = req.page /\ req'.want = req.want /\ req'.at = req.at
          /\ req'.index = req.index /\ req'.result = result
          /\ req'.read = Append(req.read, b) /\ ReqType(req')
      <3> HIDE DEF result, b
      <3>1. Append(req.read, b) \in Seq(Block)
        BY <2>2
      <3> QED
        BY <2>1, <2>2, <2>3, <3>1 DEF Results
    <2>5. /\ Len(req'.read) = Len(req.read) + 1
          /\ \A j \in 1..Len(req'.read) : req'.read[j] = b
      BY <2>1, <2>2, <2>4 DEF RequestInv
    <2>6. result = "open" => Len(req'.read) <= 1
      BY <2>2, <2>5
    <2>7. result = "page" => Len(req'.read) = 2
      BY <2>1, <2>2, <2>5 DEF RequestInv
    <2>8. result = "aborted" => LostTx(req.want)
      BY <2>1 DEF RequestInv
    <2>9. RequestInv'
      <3> HIDE DEF result, b
      <3>1. /\ req.page = "height" => req.at = req.want % Word
            /\ req.page = "block" =>
                   LostBlock(req.want) \/ (req.at \in DOMAIN chain /\ chain[req.at].hash = req.want)
            /\ req.page = "tx" =>
                   \/ LostTx(req.want)
                   \/ /\ req.at \in DOMAIN chain /\ req.index \in DOMAIN chain[req.at].txs
                      /\ chain[req.at].txs[req.index] = req.want
        BY <2>1 DEF RequestInv
      <3> QED
        BY <1>0, <2>1, <2>4, <2>5, <2>6, <2>7, <2>8, <3>1 DEF RequestInv, LostBlock, LostTx, b
    <2> QED
      BY <1>1, <1>2, <2>4, <2>9
  <1>10. CASE ReadFails
    <2>1. req.result = "open" /\ req' = [req EXCEPT !.result = "empty"]
      BY <1>10 DEF ReadFails
    <2>2. /\ req'.page = req.page /\ req'.want = req.want /\ req'.at = req.at
          /\ req'.index = req.index /\ req'.result = "empty" /\ req'.read = req.read
          /\ ReqType(req')
      BY <2>1 DEF Types, Results
    <2>3. RequestInv'
      BY <1>0, <2>1, <2>2 DEF RequestInv, LostBlock, LostTx
    <2> QED
      BY <1>1, <1>2, <2>2, <2>3
  <1>11. CASE Reply
    BY <1>5, <1>11, SizeAssumption DEF Reply, NoRequest, Wants
  <1> QED
    BY <1>6, <1>7, <1>8, <1>9, <1>10, <1>11 DEF Request

\* The kernel's step: a hash and a height of its own, pending transactions; a height
\* that a round had seen already was that of a lost block.
LEMMA MineStep ==
    ASSUME Inv, Mine
    PROVE  Inv'
  <1> USE DEF Inv
  <1>1. PICK txs \in Bodies :
            /\ Elems(txs) \subseteq Pending
            /\ chain' = Append(chain, [hash |-> mined + 1, height |-> Len(chain) + 1, txs |-> txs])
    BY DEF Mine
  <1>2. /\ mined < MaxBlocks /\ mined' = mined + 1
        /\ UNCHANGED <<round, Blocks, i, minHeight, dbBlocks, blockKey, txKey, req, lost,
                       failed, crashes>>
    BY DEF Mine
  <1>3. /\ chain \in Seq(Block) /\ mined \in 0..MaxBlocks /\ MaxBlocks \in Nat
        /\ Len(chain) <= mined /\ \A h \in DOMAIN chain : chain[h].height = h
        /\ \A h \in 1..Len(chain) : h \in DOMAIN chain
        /\ Len(chain) \in Nat
    BY SizeAssumption DEF Types, TypeOK
  <1> DEFINE b == [hash |-> mined + 1, height |-> Len(chain) + 1, txs |-> txs]
  <1>n. PICK n \in Nat : n = Len(chain) + 1 /\ n \in 1..MaxBlocks
    BY <1>2, <1>3
  <1>4. b \in Block
    BY <1>1, <1>2, <1>3 DEF Block
  <1>5. /\ chain' \in Seq(Block) /\ Len(chain') = n /\ DOMAIN chain' = 1..n
        /\ chain'[n] = b
        /\ \A h \in DOMAIN chain : h \in DOMAIN chain' /\ chain'[h] = chain[h] /\ h # n
        /\ \A h \in DOMAIN chain' : h \in DOMAIN chain \/ h = n
    BY <1>1, <1>3, <1>4, <1>n
  <1>6. Types'
    <2>1. \A h \in DOMAIN chain' : chain'[h].height = h
      BY <1>3, <1>5, <1>n
    <2>2. i' \in 0..Len(chain') /\ failed' \subseteq 1..mined' /\ Len(chain') <= mined'
      BY <1>2, <1>3, <1>5, <1>n DEF Types, TypeOK
    <2>3. mined' \in 0..MaxBlocks
      BY <1>2, <1>3
    <2>4. TypeOK'
      BY <1>2, <1>5, <2>1, <2>2, <2>3 DEF Types, TypeOK
    <2> QED
      BY <1>2, <2>4 DEF Types
  <1>7. \A h \in DOMAIN chain : Elems(chain[h].txs) \cap Elems(txs) = {}
    BY <1>1 DEF Pending
  <1>8. ChainInv'
    <2>1. \A h \in DOMAIN chain' : chain'[h].hash \in 1..mined'
      BY <1>2, <1>3, <1>5 DEF ChainInv
    <2>2. \A l \in lost' : l.hash \in 1..mined'
      BY <1>2, <1>3 DEF ChainInv
    <2>3. \A h \in DOMAIN chain : chain[h].hash # b.hash
      BY <1>3 DEF ChainInv
    <2>4. \A g, h \in DOMAIN chain' :
              g # h => /\ chain'[g].hash # chain'[h].hash
                       /\ Elems(chain'[g].txs) \cap Elems(chain'[h].txs) = {}
      <3> SUFFICES ASSUME NEW g \in DOMAIN chain', NEW h \in DOMAIN chain', g # h
                   PROVE  /\ chain'[g].hash # chain'[h].hash
                          /\ Elems(chain'[g].txs) \cap Elems(chain'[h].txs) = {}
        OBVIOUS
      <3>1. CASE g \in DOMAIN chain /\ h \in DOMAIN chain
        BY <1>5, <3>1 DEF ChainInv
      <3>2. CASE g = n
        BY <1>5, <1>7, <2>3, <3>2
      <3>3. CASE h = n
        BY <1>5, <1>7, <2>3, <3>3
      <3> QED
        BY <1>5, <3>1, <3>2, <3>3
    <2> QED
      BY <2>1, <2>2, <2>4 DEF ChainInv
  <1>9. KeysInv'
    <2>1. b.hash \notin DOMAIN blockKey
      BY <1>3 DEF KeysInv, ChainInv, LostBlock
    <2> QED
      BY <1>2, <1>5, <2>1 DEF KeysInv, LostBlock, LostTx
  <1>10. RequestInv'
    BY <1>2, <1>5, SameRequest
  <1>11. CoverInv'
    <2>1. /\ dbBlocks \in Nat /\ Blocks \in Nat /\ minHeight \in Nat /\ i \in Nat
      BY <1>3 DEF Types, TypeOK
    <2>2. \A x \in Nat : Seen(x) => Seen(x)' /\ (n <= x => Done(n)')
      <3> SUFFICES ASSUME NEW x \in Nat, Seen(x)
                   PROVE  Seen(x)' /\ (n <= x => Done(n)')
        OBVIOUS
      <3>1. Seen(x)'
        BY <1>2, <1>5, <1>n DEF Seen
      <3>2. n <= x => \E l \in lost : l.height = n
        BY <1>3, <1>n DEF Seen
      <3> QED
        BY <1>2, <3>1, <3>2 DEF Done
    <2>3. \A h \in DOMAIN chain : Done(h) => Done(h)'
      BY <1>2, <1>5 DEF Done
    <2>4. \A x \in Nat : n <= Even(x) => n <= x
      BY <1>n, EvenBelow
    <2>5. \A h \in DOMAIN chain' : h <= Even(dbBlocks) => Done(h)'
      BY <1>5, <2>1, <2>2, <2>3, <2>4 DEF CoverInv
    <2>6. ~round => \A h \in DOMAIN chain' : h <= Even(Blocks) => Done(h)'
      BY <1>5, <2>1, <2>2, <2>3, <2>4 DEF CoverInv
    <2>7. round => \A h \in DOMAIN chain' :
                       h <= Even(minHeight) \/ (i < h /\ h <= Even(Blocks)) => Done(h)'
      BY <1>5, <2>1, <2>2, <2>3, <2>4 DEF CoverInv
    <2>8. Seen(Blocks)' /\ Seen(minHeight)' /\ Seen(dbBlocks)'
      <3>1. Seen(Blocks)'
        BY <1>2, <2>1, <1>5, <1>n DEF CoverInv, Seen
      <3>2. Seen(minHeight)'
        BY <1>2, <2>1, <1>5, <1>n DEF CoverInv, Seen
      <3>3. Seen(dbBlocks)'
        BY <1>2, <2>1, <1>5, <1>n DEF CoverInv, Seen
      <3> QED
        BY <3>1, <3>2, <3>3
    <2> QED
      BY <1>2, <2>5, <2>6, <2>7, <2>8 DEF CoverInv
  <1> QED
    BY <1>6, <1>8, <1>9, <1>10, <1>11

\* A round begins with what the rounds before it have done, and ends having done
\* the rest; a block it reaches gets its keys or joins those that failed.
LEMMA UpdateStep ==
    ASSUME Inv, Update
    PROVE  Inv'
  <1> USE DEF Inv
  <1>1. UNCHANGED <<chain, req, mined, lost, crashes>>
    BY DEF Update, Begin, Index, IndexFails, Finish
  <1>2. /\ chain \in Seq(Block) /\ Len(chain) \in 0..MaxBlocks /\ MaxBlocks \in Nat
        /\ dbBlocks \in Nat /\ Blocks \in Nat /\ minHeight \in Nat /\ i \in 0..Len(chain)
        /\ Blocks \in 0..MaxBlocks /\ DOMAIN chain = 1..Len(chain)
        /\ \A h \in DOMAIN chain : chain[h] \in Block /\ chain[h].height = h
        /\ \A h \in DOMAIN chain : chain[h].hash \in 1..mined
    BY SizeAssumption DEF Types, TypeOK, ChainInv
  <1>3. ChainInv' /\ RequestInv'
    BY <1>1, SameChain, SameRequest
  <1>4. \A x : Seen(x)' <=> Seen(x)
    BY <1>1 DEF Seen
  <1>5. CASE Begin
    <2>1. /\ ~round /\ round' = TRUE /\ minHeight' = Blocks /\ Blocks' = Len(chain)
          /\ i' = Even(Len(chain))
          /\ UNCHANGED <<dbBlocks, blockKey, txKey, failed>>
      BY <1>5 DEF Begin
    <2>2. i' \in 0..Len(chain')
      BY <1>1, <1>2, <2>1, EvenBelow
    <2>3. round' \in BOOLEAN
      BY <2>1
    <2>4. Types'
      BY <1>1, <1>2, <2>1, <2>2, <2>3 DEF Types, TypeOK
    <2>5. KeysInv'
      BY <1>1, <2>1, SameChain
    <2>6. \A h : Done(h)' <=> Done(h)
      BY <1>1, <2>1 DEF Done
    <2>7. Seen(Len(chain))
      BY DEF Seen
    <2>8. Even(Len(chain)) \in Nat
      BY <1>2, EvenBelow
    <2>9. Seen(Blocks)' /\ Seen(minHeight)' /\ Seen(dbBlocks)'
      BY <1>1, <2>1, <2>7 DEF CoverInv, Seen
    <2>10. \A h \in DOMAIN chain : ~(i' < h /\ h <= Even(Blocks'))
      BY <1>2, <2>1, <2>8
    <2>11. \A h \in DOMAIN chain : h <= Even(Blocks) \/ h <= Even(dbBlocks) => Done(h)
      BY <2>1 DEF CoverInv
    <2>12. \A h \in DOMAIN chain' : h <= Even(dbBlocks') => Done(h)'
      BY <1>1, <2>1, <2>6, <2>11
    <2>13. \A h \in DOMAIN chain' :
               h <= Even(minHeight') \/ (i' < h /\ h <= Even(Blocks')) => Done(h)'
      BY <1>1, <2>1, <2>6, <2>10, <2>11
    <2>14. CoverInv'
      BY <2>1, <2>9, <2>12, <2>13 DEF CoverInv
    <2> QED
      BY <1>3, <2>4, <2>5, <2>14
  <1>6. CASE Index \/ IndexFails
    <2>1. /\ round /\ i > Even(minHeight) /\ i' = i - 1
          /\ UNCHANGED <<round, Blocks, minHeight, dbBlocks>>
      BY <1>6 DEF Index, IndexFails, InPair
    <2>2. i \in DOMAIN chain /\ i' \in 0..Len(chain)
      BY <1>2, <2>1, EvenBelow
    <2>3. /\ DOMAIN blockKey \subseteq DOMAIN blockKey' /\ failed \subseteq failed'
          /\ chain[i].hash \in DOMAIN blockKey' \cup failed'
          /\ KeysInv' /\ Types'
      <3>1. CASE Index
        <4> DEFINE b == chain[i]
        <4>1. /\ blockKey' = Override(blockKey, [x \in {b.hash} |-> b.height])
              /\ txKey' = Override(txKey, TxEntries(b)) /\ failed' = failed
          BY <3>1 DEF Index
        <4>2. b \in Block /\ b.height = i /\ b.txs \in Bodies /\ b.hash \in 1..MaxBlocks
          BY <1>2, <2>2 DEF Block
        <4>3. /\ DOMAIN blockKey' = DOMAIN blockKey \cup {b.hash}
              /\ blockKey'[b.hash] = i
              /\ \A x \in DOMAIN blockKey : x # b.hash => blockKey'[x] = blockKey[x]
          BY <4>1, <4>2 DEF Override
        <4>4. /\ DOMAIN TxEntries(b) = Elems(b.txs)
              /\ \A k \in DOMAIN b.txs : TxEntries(b)[b.txs[k]] = <<i, k>>
              /\ \A k \in DOMAIN b.txs : k \in 1..BlockSize /\ b.txs[k] \in Tx
          BY <4>2, BodyFacts DEF TxEntries, Elems
        <4>5. /\ DOMAIN txKey' = DOMAIN txKey \cup Elems(b.txs)
              /\ \A t \in Elems(b.txs) : txKey'[t] = TxEntries(b)[t]
              /\ \A t \in DOMAIN txKey : t \notin Elems(b.txs) => txKey'[t] = txKey[t]
          BY <4>1, <4>4 DEF Override
        <4>6. \A k \in DOMAIN b.txs : b.txs[k] \in Elems(b.txs)
          BY DEF Elems
        <4>7. \A h \in DOMAIN chain' :
                  chain'[h].hash \in DOMAIN blockKey' =>
                      /\ blockKey'[chain'[h].hash] = h
                      /\ \A k \in DOMAIN chain'[h].txs :
                             /\ chain'[h].txs[k] \in DOMAIN txKey'
                             /\ txKey'[chain'[h].txs[k]] = <<h, k>>
          <5> SUFFICES ASSUME NEW h \in DOMAIN chain, chain[h].hash \in DOMAIN blockKey'
                       PROVE  /\ blockKey'[chain[h].hash] = h
                              /\ \A k \in DOMAIN chain[h].txs :
                                     /\ chain[h].txs[k] \in DOMAIN txKey'
                                     /\ txKey'[chain[h].txs[k]] = <<h, k>>
            BY <1>1
          <5>1. CASE h = i
            BY <4>3, <4>4, <4>5, <4>6, <5>1
          <5>2. CASE h # i
            <6>1. chain[h].hash # b.hash /\ Elems(chain[h].txs) \cap Elems(b.txs) = {}
              BY <2>2, <5>2 DEF ChainInv
            <6>2. \A k \in DOMAIN chain[h].txs : chain[h].txs[k] \notin Elems(b.txs)
              BY <6>1 DEF Elems
            <6> QED
              BY <4>3, <4>5, <6>1, <6>2 DEF KeysInv
          <5> QED
            BY <5>1, <5>2
        <4>8. \A x \in DOMAIN blockKey' :
                  LostBlock(x)' \/ \E h \in DOMAIN chain' : chain'[h].hash = x
          BY <1>1, <2>2, <4>3 DEF KeysInv, LostBlock
        <4>9. \A t \in DOMAIN txKey' :
                  LostTx(t)' \/ \E h \in DOMAIN chain' :
                      t \in Elems(chain'[h].txs) /\ chain'[h].hash \in DOMAIN blockKey'
          BY <1>1, <2>2, <4>3, <4>5 DEF KeysInv, LostTx
        <4>10. KeysInv'
          BY <4>7, <4>8, <4>9 DEF KeysInv
        <4>11. /\ DOMAIN blockKey' \subseteq 1..MaxBlocks
               /\ \A x \in DOMAIN blockKey' : blockKey'[x] \in 1..MaxBlocks
          BY <1>2, <2>2, <4>2, <4>3 DEF Types, TypeOK
        <4>12. /\ DOMAIN txKey' \subseteq Tx
               /\ \A t \in DOMAIN txKey' : txKey'[t] \in (1..MaxBlocks) \X (1..BlockSize)
          <5>1. \A t \in Elems(b.txs) :
                    t \in Tx /\ TxEntries(b)[t] \in (1..MaxBlocks) \X (1..BlockSize)
            <6> SUFFICES ASSUME NEW t \in Elems(b.txs)
                         PROVE  t \in Tx /\ TxEntries(b)[t] \in (1..MaxBlocks) \X (1..BlockSize)
              OBVIOUS
            <6>1. PICK k \in DOMAIN b.txs : b.txs[k] = t
              BY DEF Elems
            <6>2. i \in 1..MaxBlocks /\ k \in 1..BlockSize
              BY <1>2, <2>2, <4>4
            <6>3. t \in Tx /\ TxEntries(b)[t] = <<i, k>>
              BY <4>4, <6>1
            <6> QED
              BY <6>2, <6>3
          <5> QED
            BY <4>5, <5>1 DEF Types, TypeOK
        <4>13. TypeOK'
          BY <1>1, <2>1, <2>2, <4>1, <4>11, <4>12 DEF Types, TypeOK
        <4> QED
          BY <1>1, <4>1, <4>3, <4>10, <4>13 DEF Types
      <3>2. CASE IndexFails
        <4>1. /\ failed' = failed \cup {chain[i].hash} /\ UNCHANGED <<blockKey, txKey>>
          BY <3>2 DEF IndexFails
        <4>2. failed' \subseteq 1..mined
          BY <1>2, <2>2, <4>1 DEF Types, TypeOK
        <4>3. Types'
          BY <1>1, <2>1, <2>2, <4>1, <4>2 DEF Types, TypeOK
        <4>4. KeysInv'
          BY <1>1, <4>1, SameChain
        <4> QED
          BY <4>1, <4>3, <4>4
      <3> QED
        BY <1>6, <3>1, <3>2
    <2>4. \A h \in DOMAIN chain : Done(h) \/ h = i => Done(h)'
      BY <1>1, <2>3 DEF Done
    <2>5. Seen(Blocks)' /\ Seen(minHeight)' /\ Seen(dbBlocks)'
      BY <1>1, <2>1 DEF CoverInv, Seen
    <2>6. \A h \in DOMAIN chain : i' < h => i < h \/ h = i
      BY <1>2, <2>1
    <2>7. /\ \A h \in DOMAIN chain' : h <= Even(dbBlocks') => Done(h)'
          /\ \A h \in DOMAIN chain' :
                 h <= Even(minHeight') \/ (i' < h /\ h <= Even(Blocks')) => Done(h)'
      BY <1>1, <2>1, <2>4, <2>6 DEF CoverInv
    <2>8. CoverInv'
      BY <2>1, <2>5, <2>7 DEF CoverInv
    <2> QED
      BY <1>3, <2>3, <2>8
  <1>7. CASE Finish
    <2>1. /\ round /\ ~(i > Even(minHeight)) /\ round' = FALSE
          /\ dbBlocks' \in {Blocks, dbBlocks}
          /\ UNCHANGED <<Blocks, i, minHeight, blockKey, txKey, failed>>
      BY <1>7 DEF Finish, InPair
    <2>2. round' \in BOOLEAN /\ dbBlocks' \in 0..MaxBlocks
      BY <1>2, <2>1 DEF Types, TypeOK
    <2>3. Types'
      BY <1>1, <2>1, <2>2 DEF Types, TypeOK
    <2>4. KeysInv'
      BY <1>1, <2>1, SameChain
    <2>5. \A h : Done(h)' <=> Done(h)
      BY <1>1, <2>1 DEF Done
    <2>6. Seen(Blocks)' /\ Seen(minHeight)' /\ Seen(dbBlocks)'
      BY <1>1, <2>1 DEF CoverInv, Seen
    <2>7. \A h \in DOMAIN chain : h <= Even(Blocks) => Done(h)
      <3>1. Even(minHeight) \in Nat
        BY <1>2, EvenBelow
      <3> QED
        BY <1>2, <2>1, <3>1 DEF CoverInv
    <2>8. \A h \in DOMAIN chain' : h <= Even(dbBlocks') => Done(h)'
      BY <1>1, <2>1, <2>5, <2>7 DEF CoverInv
    <2>9. \A h \in DOMAIN chain' : h <= Even(Blocks') => Done(h)'
      BY <1>1, <2>1, <2>5, <2>7
    <2>10. CoverInv'
      BY <2>1, <2>6, <2>8, <2>9 DEF CoverInv
    <2> QED
      BY <1>3, <2>3, <2>4, <2>10
  <1> QED
    BY <1>5, <1>6, <1>7 DEF Update

\* A restart: what the kernel lost, the round and the request are gone, the database
\* stays.
LEMMA RestartStep ==
    ASSUME Inv, Restart
    PROVE  Inv'
  <1> USE DEF Inv
  <1>1. /\ chain \in Seq(Block) /\ Len(chain) \in Nat /\ DOMAIN chain = 1..Len(chain)
        /\ \A h \in DOMAIN chain : chain[h] \in Block /\ chain[h].height = h
        /\ Len(chain) <= mined /\ mined \in Nat /\ dbBlocks \in 0..MaxBlocks
    BY SizeAssumption DEF Types, TypeOK
  <1>2. PICK n \in 0..Len(chain) :
            /\ chain' = SubSeq(chain, 1, n)
            /\ lost' = lost \cup {chain[g] : g \in (n + 1)..Len(chain)}
            /\ Blocks' = dbBlocks
    BY DEF Restart, Loaded
  <1>3. /\ crashes' = crashes + 1 /\ round' = FALSE /\ i' = 0 /\ minHeight' = 0
        /\ req' = NoRequest
        /\ UNCHANGED <<dbBlocks, blockKey, txKey, mined, failed>>
    BY DEF Restart
  <1>4. /\ chain' \in Seq(Block) /\ Len(chain') = n /\ DOMAIN chain' = 1..n
        /\ \A h \in 1..n : h \in DOMAIN chain /\ chain'[h] = chain[h]
    BY <1>1, <1>2, PrefixFacts
  <1>5. /\ \A h \in DOMAIN chain : h \in 1..n \/ chain[h] \in lost'
        /\ lost \subseteq lost' /\ \A l \in lost' : l \in lost \/ \E h \in DOMAIN chain : l = chain[h]
    BY <1>1, <1>2
  <1>6. req' = [page |-> "none", want |-> 0, at |-> 0, index |-> 0, read |-> <<>>,
                result |-> "unknown"]
    BY <1>3 DEF NoRequest, Unknown, Asked
  <1>7. Types'
    <2>1. /\ 0 \in 0..MaxBlocks /\ 0 \in 0..(Word - 1) /\ 0 \in Wants /\ 0 \in 0..BlockSize
      BY SizeAssumption DEF Wants
    <2>7. round' \in BOOLEAN
      BY <1>3
    <2>2. lost' \subseteq Block
      BY <1>1, <1>5 DEF Types, TypeOK
    <2>3. \A h \in DOMAIN chain' : chain'[h].height = h
      BY <1>1, <1>4
    <2>4. Len(chain') <= mined' /\ i' \in 0..Len(chain') /\ crashes' \in Nat
      BY <1>1, <1>3, <1>4 DEF Types, TypeOK
    <2>5. req'.read \in Seq(Block) /\ req'.result \in Results /\ req'.at \in 0..(Word - 1)
      BY <1>6, <2>1 DEF Results
    <2>6. TypeOK'
      BY <1>1, <1>2, <1>3, <1>4, <2>1, <2>2, <2>3, <2>4, <2>5, <2>7 DEF Types, TypeOK
    <2> QED
      BY <1>6, <2>1, <2>5, <2>6 DEF Types, Results
  <1>8. ChainInv'
    BY <1>3, <1>4, <1>5 DEF ChainInv
  <1>9. KeysInv'
    <2>1. \A x \in DOMAIN blockKey :
              LostBlock(x)' \/ \E h \in DOMAIN chain' : chain'[h].hash = x
      BY <1>4, <1>5 DEF KeysInv, LostBlock
    <2>2. \A t \in DOMAIN txKey :
              LostTx(t)' \/ \E h \in DOMAIN chain' :
                  t \in Elems(chain'[h].txs) /\ chain'[h].hash \in DOMAIN blockKey
      BY <1>4, <1>5 DEF KeysInv, LostTx
    <2> QED
      BY <1>3, <1>4, <2>1, <2>2 DEF KeysInv
  <1>10. RequestInv'
    BY <1>6 DEF RequestInv
  <1>11. CoverInv'
    <2>1. \A h \in 1..n : Done(h) => Done(h)'
      BY <1>3, <1>4, <1>5 DEF Done
    <2>2. \A x \in Nat : Seen(x) => Seen(x)'
      <3> SUFFICES ASSUME NEW x \in Nat, Seen(x), NEW h \in 1..x
                   PROVE  h <= n \/ \E l \in lost' : l.height = h
        BY <1>4 DEF Seen
      <3>1. CASE h <= Len(chain)
        BY <1>1, <1>5, <3>1
      <3>2. CASE \E l \in lost : l.height = h
        BY <1>5, <3>2
      <3> QED
        BY <3>1, <3>2 DEF Seen
    <2>3. dbBlocks \in Nat /\ Seen(dbBlocks)' /\ Seen(0)'
      <3>1. dbBlocks \in Nat /\ 0 \in Nat /\ Seen(0)
        BY <1>1 DEF Seen
      <3>2. Seen(dbBlocks)
        BY DEF CoverInv
      <3>3. \A h \in 1..dbBlocks : h <= n \/ \E l \in lost' : l.height = h
        <4> SUFFICES ASSUME NEW h \in 1..dbBlocks
                     PROVE  h <= n \/ \E l \in lost' : l.height = h
          OBVIOUS
        <4>1. h <= Len(chain) \/ \E l \in lost : l.height = h
          BY <3>2 DEF Seen
        <4> QED
          BY <1>1, <1>5, <3>1, <4>1
      <3> QED
        BY <1>3, <1>4, <2>2, <3>1, <3>3 DEF Seen
    <2>4. Seen(Blocks)' /\ Seen(minHeight)'
      BY <1>2, <1>3, <2>3 DEF Seen
    <2>5. \A h \in DOMAIN chain' : h <= Even(dbBlocks) => Done(h)'
      BY <1>4, <2>1 DEF CoverInv
    <2> QED
      BY <1>2, <1>3, <2>3, <2>4, <2>5 DEF CoverInv
  <1> QED
    BY <1>7, <1>8, <1>9, <1>10, <1>11

LEMMA Step ==
    ASSUME Inv, [Next]_vars
    PROVE  Inv'
  <1>1. CASE UNCHANGED vars
    <2>1. ChainInv' /\ KeysInv' /\ RequestInv'
      BY <1>1, SameChain, SameRequest
    <2>2. Types' /\ CoverInv'
      BY <1>1 DEF Inv, Types, TypeOK, CoverInv, Done, Seen
    <2> QED
      BY <2>1, <2>2 DEF Inv
  <1> QED
    BY <1>1, MineStep, UpdateStep, RestartStep, RequestStep DEF Next

LEMMA Invariant == Spec => []Inv
  BY Start, Step, PTL DEF Spec

-----------------------------------------------------------------------------
(* Theorems. *)

\* The variables keep their types; in particular, a block of the chain is at its
\* height, and the place a request looks at is a uint32.
THEOREM TypesCorrect == Spec => []TypeOK
  BY Invariant, PTL DEF Inv, Types

\* The keys of a block and of its transactions point to their places in the chain,
\* across crashes and recoveries that lose blocks, and the keys that do not are of
\* such blocks.
THEOREM KeysAtHome == Spec => []KeysPointHome
  <1>1. Inv => KeysPointHome
    BY DEF Inv, KeysInv, KeysPointHome
  <1> QED
    BY <1>1, Invariant, PTL

\* A page shows what was asked for, however the chain and the index grow between the
\* look-up and the two reads, and unless what was asked for was lost.
THEOREM PagesShowAsked == Spec => []PageShowsAsked
  <1>1. Inv => PageShowsAsked
    <2> SUFFICES ASSUME Inv
                 PROVE  PageShowsAsked
      OBVIOUS
    <2>1. ASSUME req.result = "page"
          PROVE  LET b == req.read[1]
                 IN  /\ req.read[2] = b
                     /\ req.page = "height" =>
                            b.height = req.want \/ req.want \notin 0..(Word - 1)
                     /\ req.page = "block" => b.hash = req.want \/ LostBlock(req.want)
                     /\ req.page = "tx" => b.txs[req.index] = req.want \/ LostTx(req.want)
      <3>1. Len(req.read) = 2 /\ req.read # <<>> /\ req.read \in Seq(Block)
        <4>1. req.read \in Seq(Block)
          BY DEF Inv, Types
        <4>2. Len(req.read) = 2
          BY <2>1 DEF Inv, RequestInv
        <4> QED
          BY <4>1, <4>2
      <3>2. req.at \in DOMAIN chain /\ req.read[1] = chain[req.at] /\ req.read[2] = chain[req.at]
        BY <3>1 DEF Inv, RequestInv
      <3>3. req.page = "height" /\ req.want \in 0..(Word - 1) => chain[req.at].height = req.want
        <4>1. \A x \in 0..(Word - 1) : x % Word = x
          BY SizeAssumption
        <4>2. chain[req.at].height = req.at
          BY <3>2 DEF Inv, Types, TypeOK
        <4> QED
          BY <4>1, <4>2 DEF Inv, RequestInv
      <3> QED
        BY <2>1, <3>2, <3>3 DEF Inv, RequestInv
    <2> QED
      BY <2>1 DEF PageShowsAsked, Inv, RequestInv
  <1> QED
    BY <1>1, Invariant, PTL

\* Up to the last pair of the saved height, a block is without keys only when its
\* round failed on it or when it has taken the place of a lost one.
THEOREM ChainIsCovered == Spec => []ChainCovered
  <1>1. Inv => ChainCovered
    BY DEF Inv, CoverInv, Done, ChainCovered
  <1> QED
    BY <1>1, Invariant, PTL
-----------------------------------------------------------------------------
(* The three steps of a page are an answer of one moment: Lookup. *)

\* The page "none" is no request.
NoPage == req.page = "none" => req = NoRequest

LEMMA NoRequestIs ==
    NoRequest = [page |-> "none", want |-> 0, at |-> 0, index |-> 0,
                 read |-> <<>>, result |-> "unknown"]
  BY DEF NoRequest, Unknown, Asked

LEMMA AskedIs ==
    ASSUME NEW page, NEW want, NEW at, NEW index
    PROVE  /\ Asked(page, want, at, index) =
                  [page |-> page, want |-> want, at |-> at, index |-> index,
                   read |-> <<>>, result |-> "open"]
           /\ Unknown(page, want) =
                  [page |-> page, want |-> want, at |-> 0, index |-> 0,
                   read |-> <<>>, result |-> "unknown"]
  BY DEF Asked, Unknown

\* A read, or a failed one, leaves what is asked for alone.
LEMMA SameQuestion ==
    ASSUME Inv, Read \/ ReadFails
    PROVE  /\ req'.page = req.page /\ req'.want = req.want
           /\ req'.at = req.at /\ req'.index = req.index
  BY DEF Inv, Types, Read, ReadFails

LEMMA StepNoPage ==
    ASSUME Inv, NoPage, [Next]_vars
    PROVE  NoPage'
  <1>1. CASE Read \/ ReadFails
    BY <1>1, SameQuestion, NoRequestIs DEF NoPage, Read, ReadFails
  <1>2. CASE AskHeight \/ AskBlock \/ AskTx
    BY <1>2, AskedIs DEF NoPage, AskHeight, AskBlock, AskTx
  <1>3. CASE req' \in {req, NoRequest}
    BY <1>3 DEF NoPage
  <1>4. CASE Mine \/ Update \/ Restart \/ Reply \/ UNCHANGED vars
    <2>1. req' \in {req, NoRequest}
      BY <1>4 DEF Mine, Update, Begin, Index, IndexFails, Finish, Restart, Reply
    <2> QED BY <2>1, <1>3
  <1> QED BY <1>1, <1>2, <1>4 DEF Next, Request

LEMMA SameAnswer == UNCHANGED req => UNCHANGED <<Query, Answer>>
  BY DEF Query, Answer, Shown

\* What Lookup sees of a request whose answer is not there yet, and of none.
LEMMA OpenAnswer ==
    ASSUME NoPage, req.page # "none", req.result = "open"
    PROVE  /\ Query = [page |-> req.page, want |-> req.want]
           /\ Answer = AsOne!Waiting /\ AsOne!Open
  <1>1. Query = [page |-> req.page, want |-> req.want]
    BY NoRequestIs DEF Query
  <1>2. Answer = [kind |-> "none", from |-> {}, names |-> {}]
    BY NoRequestIs DEF Answer
  <1> QED BY <1>1, <1>2 DEF AsOne!Open, AsOne!NoQuery, AsOne!Waiting, AsOne!Failed

LEMMA NoAnswer ==
    req = NoRequest => Query = AsOne!NoQuery /\ Answer = AsOne!Waiting
  BY NoRequestIs DEF Query, Answer, AsOne!NoQuery, AsOne!Waiting, AsOne!Failed

LEMMA NoAnswerNext ==
    req' = NoRequest => Query' = AsOne!NoQuery /\ Answer' = AsOne!Waiting
  BY NoRequestIs DEF Query, Answer, AsOne!NoQuery, AsOne!Waiting, AsOne!Failed

LEMMA InitLookup == Init => AsOne!Init /\ NoPage
  <1> SUFFICES ASSUME Init PROVE AsOne!Init /\ NoPage
    OBVIOUS
  <1>1. DOMAIN blockKey = {} /\ DOMAIN txKey = {}
    BY DEF Init
  <1>2. req = NoRequest /\ chain = <<>> /\ lost = {}
    BY DEF Init
  <1> QED BY <1>1, <1>2, NoAnswer DEF AsOne!Init, NoPage

LEMMA MineLookup ==
    ASSUME Inv, Mine
    PROVE  AsOne!Mine
  <1>1. PICK txs \in Bodies :
            /\ Elems(txs) \subseteq Pending
            /\ chain' = Append(chain, [hash |-> mined + 1,
                                      height |-> Len(chain) + 1, txs |-> txs])
    BY DEF Mine
  <1>2. /\ mined < MaxBlocks /\ mined \in 0..MaxBlocks /\ MaxBlocks \in Nat
        /\ UNCHANGED <<lost, blockKey, txKey, req>>
    BY SizeAssumption DEF Mine, Inv, Types, TypeOK
  <1>3. mined + 1 \in 1..MaxBlocks
    BY <1>2
  <1>4. /\ \A h \in DOMAIN chain : chain[h].hash # mined + 1
        /\ \A l \in lost : l.hash # mined + 1
    BY <1>2 DEF Inv, ChainInv
  <1>5. \A h \in DOMAIN chain : Elems(chain[h].txs) \cap Elems(txs) = {}
    BY <1>1 DEF Pending
  <1>6. \A s : AsOne!Elems(s) = Elems(s)
    BY DEF AsOne!Elems, Elems
  <1> QED BY <1>1, <1>2, <1>3, <1>4, <1>5, <1>6, SameAnswer DEF AsOne!Mine

LEMMA UpdateLookup ==
    ASSUME Inv, Update
    PROVE  [AsOne!Next]_(AsOne!vars)
  <1>1. UNCHANGED <<chain, lost, Query, Answer>>
    BY SameAnswer DEF Update, Begin, Index, IndexFails, Finish
  <1>2. CASE Index
    <2> DEFINE b == chain[i]
    <2>1. i \in DOMAIN chain
      <3>1. /\ chain \in Seq(Block) /\ i \in 0..Len(chain) /\ minHeight \in Nat
            /\ i > Even(minHeight)
        BY <1>2 DEF Index, InPair, Inv, Types, TypeOK
      <3>2. Even(minHeight) \in 0..minHeight
        BY <3>1, EvenBelow
      <3> QED BY <3>1, <3>2
    <2>2. /\ blockKey' = Override(blockKey, [x \in {b.hash} |-> b.height])
          /\ txKey' = Override(txKey, TxEntries(b))
      BY <1>2 DEF Index
    <2>3. /\ DOMAIN blockKey' = DOMAIN blockKey \cup {b.hash}
          /\ DOMAIN txKey' = DOMAIN txKey \cup AsOne!Elems(b.txs)
      BY <2>2 DEF Override, TxEntries, AsOne!Elems, Elems
    <2>4. b \in AsOne!Elems(chain)
      BY <2>1 DEF AsOne!Elems
    <2>5. AsOne!Enter
      BY <1>1, <2>3, <2>4 DEF AsOne!Enter
    <2> QED BY <2>5 DEF AsOne!Next
  <1>3. CASE Begin \/ IndexFails \/ Finish
    <2>1. UNCHANGED <<blockKey, txKey>>
      BY <1>3 DEF Begin, IndexFails, Finish
    <2> QED BY <1>1, <2>1 DEF AsOne!vars
  <1> QED BY <1>2, <1>3 DEF Update

LEMMA RestartLookup ==
    ASSUME Restart
    PROVE  AsOne!Restart
  <1>1. /\ \E h \in 0..Len(chain) :
               /\ chain' = SubSeq(chain, 1, h)
               /\ lost' = lost \cup {chain[g] : g \in (h + 1)..Len(chain)}
        /\ UNCHANGED <<blockKey, txKey>> /\ req' = NoRequest
    BY DEF Restart
  <1>2. Query' = AsOne!NoQuery /\ Answer' = AsOne!Waiting
    BY <1>1, NoAnswerNext
  <1> QED BY <1>1, <1>2 DEF AsOne!Restart

LEMMA AskLookup ==
    ASSUME Inv, AskHeight \/ AskBlock \/ AskTx
    PROVE  AsOne!Ask
  <1>1. /\ Query = AsOne!NoQuery
        /\ UNCHANGED <<chain, lost, blockKey, txKey>>
    BY NoAnswer DEF AskHeight, AskBlock, AskTx
  <1>2. ASSUME NEW page \in {"height", "block", "tx"}, NEW want, NEW at, NEW index,
               req' = Asked(page, want, at, index)
        PROVE  Query' = [page |-> page, want |-> want] /\ Answer' = AsOne!Waiting
    <2>1. req' # NoRequest /\ req'.result = "open" /\ req'.page = page /\ req'.want = want
      BY <1>2, AskedIs, NoRequestIs
    <2> QED BY <2>1 DEF Query, Answer, AsOne!Waiting, AsOne!Failed
  <1>3. ASSUME NEW page \in {"block", "tx"}, NEW want, req' = Unknown(page, want)
        PROVE  /\ Query' = [page |-> page, want |-> want]
               /\ Answer' = AsOne!Failed("unknown")
    <2>1. req' # NoRequest /\ req'.result = "unknown" /\ req'.page = page /\ req'.want = want
      BY <1>3, AskedIs, NoRequestIs
    <2> QED BY <2>1 DEF Query, Answer, AsOne!Failed
  <1>4. CASE AskHeight
    <2>1. PICK n \in AskedHeights : req' = Asked("height", n, Wrap(n), 0)
      BY <1>4 DEF AskHeight
    <2>2. n \in Int
      BY AskedAssumption
    <2>3. AsOne!AskHeight
      BY <1>2, <2>1, <2>2 DEF AsOne!AskHeight
    <2> QED BY <1>1, <2>3 DEF AsOne!Ask
  <1>5. CASE AskBlock
    <2>1. PICK b \in 1..mined :
              req' = IF b \in DOMAIN blockKey THEN Asked("block", b, blockKey[b], 0)
                                              ELSE Unknown("block", b)
      BY <1>5 DEF AskBlock
    <2>2. b \in 1..MaxBlocks
      BY SizeAssumption DEF Inv, Types, TypeOK
    <2>3. /\ Query' = [page |-> "block", want |-> b]
          /\ Answer' = IF b \in DOMAIN blockKey THEN AsOne!Waiting
                                                ELSE AsOne!Failed("unknown")
      BY <1>2, <1>3, <2>1
    <2>4. AsOne!AskHash("block", 1..MaxBlocks, DOMAIN blockKey)
      BY <2>2, <2>3 DEF AsOne!AskHash
    <2> QED BY <1>1, <2>4 DEF AsOne!Ask
  <1>6. CASE AskTx
    <2>1. PICK t \in Tx :
              req' = IF t \in DOMAIN txKey THEN Asked("tx", t, Place(t)[1], Place(t)[2])
                                           ELSE Unknown("tx", t)
      BY <1>6 DEF AskTx
    <2>2. /\ Query' = [page |-> "tx", want |-> t]
          /\ Answer' = IF t \in DOMAIN txKey THEN AsOne!Waiting
                                             ELSE AsOne!Failed("unknown")
      BY <1>2, <1>3, <2>1
    <2>3. AsOne!AskHash("tx", Tx, DOMAIN txKey)
      BY <2>2 DEF AsOne!AskHash
    <2> QED BY <1>1, <2>3 DEF AsOne!Ask
  <1> QED BY <1>4, <1>5, <1>6

\* What a request has been led to, if it was not what it asked for.
LEMMA MisledLookup ==
    ASSUME Inv, NoPage, req.page # "none", req.result = "open", req.at \in DOMAIN chain
    PROVE  LET b == chain[req.at]
           IN  /\ req.page = "height" => b.height = req.want \/ AsOne!Misled
               /\ req.page = "block"  => b.hash = req.want \/ AsOne!Misled
               /\ req.page = "tx"     =>
                      \/ req.index \in DOMAIN b.txs /\ b.txs[req.index] = req.want
                      \/ AsOne!Misled /\ AsOne!TxLost
  <1>1. Query = [page |-> req.page, want |-> req.want]
    BY OpenAnswer
  <1>2. ASSUME req.page = "height", req.want \in 0..(Word - 1)
        PROVE  chain[req.at].height = req.want
    <2>1. req.want % Word = req.want
      BY <1>2, SizeAssumption
    <2> QED BY <1>2, <2>1 DEF Inv, Types, TypeOK, RequestInv
  <1>3. ASSUME req.page = "block", chain[req.at].hash # req.want
        PROVE  AsOne!Misled
    BY <1>1, <1>3 DEF Inv, RequestInv, LostBlock, AsOne!Misled
  <1>4. ASSUME req.page = "tx",
               ~(req.index \in DOMAIN chain[req.at].txs
                 /\ chain[req.at].txs[req.index] = req.want)
        PROVE  AsOne!TxLost
    <2>1. LostTx(req.want)
      BY <1>4 DEF Inv, RequestInv
    <2> QED BY <1>1, <1>4, <2>1 DEF LostTx, Elems, AsOne!TxLost, AsOne!Elems
  <1> QED BY <1>1, <1>2, <1>3, <1>4 DEF AsOne!Misled

LEMMA ReadLookup ==
    ASSUME Inv, Inv', NoPage, NoPage', Read
    PROVE  [AsOne!Next]_(AsOne!vars)
  <1> DEFINE b == chain[req.at]
  <1>1. /\ UNCHANGED <<chain, lost, blockKey, txKey>>
        /\ req.result = "open" /\ req.at \in DOMAIN chain
        /\ req'.page = req.page /\ req'.want = req.want
        /\ req'.at = req.at /\ req'.index = req.index
    BY SameQuestion DEF Read
  <1>2. req.page # "none" /\ req' # NoRequest /\ req.page \in {"height", "block", "tx"}
    BY <1>1, NoRequestIs DEF NoPage, Inv, Types
  <1>3. /\ Query = [page |-> req.page, want |-> req.want] /\ Query' = Query
        /\ AsOne!Open /\ Answer = AsOne!Waiting
    BY <1>1, <1>2, OpenAnswer DEF Query
  <1>4. req'.result = IF req.page = "tx" /\ req.index \notin DOMAIN b.txs
                      THEN "aborted"
                      ELSE IF req.read = <<>> THEN "open" ELSE "page"
    BY DEF Read, Inv, Types
  <1>5. CASE req'.result = "aborted"
    <2>1. AsOne!TxLost
      BY <1>1, <1>2, <1>4, <1>5, MisledLookup
    <2>2. Answer' = AsOne!Failed("aborted")
      BY <1>2, <1>5 DEF Answer, AsOne!Failed
    <2>3. AsOne!Fail
      BY <1>1, <1>3, <2>1, <2>2 DEF AsOne!Fail
    <2> QED BY <2>3 DEF AsOne!Next
  <1>6. CASE req'.result = "open"
    <2>1. Answer' = AsOne!Waiting
      BY <1>6 DEF Answer, AsOne!Waiting, AsOne!Failed
    <2> QED BY <1>1, <1>3, <2>1 DEF AsOne!vars
  <1>7. CASE req'.result = "page"
    <2>1. req'.read \in Seq(Block) /\ Len(req'.read) = 2
          /\ \A j \in 1..Len(req'.read) : req'.read[j] = b
      BY <1>1, <1>7 DEF Inv, Types, RequestInv
    <2>2. DOMAIN req'.read = 1..2 /\ req'.read[1] = b /\ req'.read[2] = b
      BY <2>1
    <2>3. Elems(req'.read) = {b}
      BY <2>2 DEF Elems
    <2>4. b \in AsOne!Elems(chain)
      BY <1>1 DEF AsOne!Elems
    <2>5. /\ Shown' \in AsOne!Names(req.page, b)
          /\ Shown' = req.want \/ AsOne!Misled
      <3>1. CASE req.page = "height"
        <4>1. Shown' = b.height
          BY <1>1, <2>2, <3>1 DEF Shown
        <4> QED BY <1>1, <1>2, <3>1, <4>1, MisledLookup DEF AsOne!Names
      <3>2. CASE req.page = "block"
        <4>1. Shown' = b.hash
          BY <1>1, <2>2, <3>2 DEF Shown
        <4> QED BY <1>1, <1>2, <3>2, <4>1, MisledLookup DEF AsOne!Names
      <3>3. CASE req.page = "tx"
        <4>1. Shown' = b.txs[req.index]
          BY <1>1, <2>2, <3>3 DEF Shown
        <4>2. req.index \in DOMAIN b.txs
          BY <1>4, <1>7, <3>3
        <4> QED BY <1>1, <1>2, <3>3, <4>1, <4>2, MisledLookup
                DEF AsOne!Names, AsOne!Elems
      <3> QED BY <1>2, <3>1, <3>2, <3>3
    <2>6. Answer' = [kind |-> "page", from |-> {b}, names |-> {Shown'}]
      BY <1>7, <2>3 DEF Answer
    <2>7. AsOne!Show
      BY <1>1, <1>3, <2>4, <2>5, <2>6 DEF AsOne!Show
    <2> QED BY <2>7 DEF AsOne!Next
  <1> QED BY <1>4, <1>5, <1>6, <1>7

LEMMA AnswerLookup ==
    ASSUME Inv, NoPage, NoPage', ReadFails \/ Reply
    PROVE  [AsOne!Next]_(AsOne!vars)
  <1>1. CASE ReadFails
    <2>1. /\ UNCHANGED <<chain, lost, blockKey, txKey>>
          /\ req.result = "open" /\ req'.result = "empty"
          /\ req'.page = req.page /\ req'.want = req.want
      BY <1>1, SameQuestion DEF ReadFails, Inv, Types
    <2>2. req.page # "none" /\ req' # NoRequest
      BY <2>1, NoRequestIs DEF NoPage
    <2>3. AsOne!Open /\ Query' = Query
      BY <2>1, <2>2, OpenAnswer DEF Query
    <2>4. Answer' = AsOne!Failed("empty")
      BY <2>1, <2>2 DEF Answer, AsOne!Failed
    <2>5. AsOne!Fail
      BY <2>1, <2>3, <2>4 DEF AsOne!Fail
    <2> QED BY <2>5 DEF AsOne!Next
  <1>2. CASE Reply
    <2>1. /\ UNCHANGED <<chain, lost, blockKey, txKey>>
          /\ req.result \in {"page", "empty", "unknown", "aborted"}
          /\ req # NoRequest /\ req' = NoRequest
      BY <1>2 DEF Reply
    <2>2. Query # AsOne!NoQuery
      BY <2>1 DEF NoPage, Query, AsOne!NoQuery
    <2>3. Answer.kind = req.result
      BY <2>1 DEF Answer
    <2>4. Answer # AsOne!Waiting
      BY <2>1, <2>3 DEF AsOne!Waiting, AsOne!Failed
    <2>5. AsOne!Reply
      BY <2>1, <2>2, <2>4, NoAnswerNext DEF AsOne!Reply
    <2> QED BY <2>5 DEF AsOne!Next
  <1> QED BY <1>1, <1>2

LEMMA StepLookup ==
    ASSUME Inv, Inv', NoPage, NoPage', [Next]_vars
    PROVE  [AsOne!Next]_(AsOne!vars)
  <1>1. CASE UNCHANGED vars
    BY <1>1, SameAnswer DEF AsOne!vars
  <1>2. CASE Next
    BY <1>2, MineLookup, UpdateLookup, RestartLookup, AskLookup, ReadLookup,
       AnswerLookup DEF Next, Request, AsOne!Next
  <1> QED BY <1>1, <1>2

\* A look-up in the index and two calls of the kernel, with blocks mined, indexed
\* and lost in between, amount to an answer of the moment of the last call.
THEOREM PagesAnswerAtOnce == Spec => AnswersAtOnce
  <1>1. Init => Inv /\ NoPage /\ AsOne!Init
    BY Start, InitLookup
  <1>2. Inv /\ NoPage /\ [Next]_vars => Inv' /\ NoPage'
    BY Step, StepNoPage
  <1>3. Inv /\ NoPage /\ Inv' /\ NoPage' /\ [Next]_vars => [AsOne!Next]_(AsOne!vars)
    BY StepLookup
  <1> QED BY <1>1, <1>2, <1>3, PTL DEF Spec, AnswersAtOnce, AsOne!Spec
=============================================================================
