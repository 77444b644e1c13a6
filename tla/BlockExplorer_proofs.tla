----------------------- MODULE BlockExplorer_proofs ------------------------
(***************************************************************************)
(* Machine-checked proofs about BlockExplorer and the requests of Display, *)
(* for every chain, every list cap and every number of faults and crashes. *)
(***************************************************************************)
EXTENDS Display, FiniteSetTheorems, SequenceTheorems, TLAPS

(* The state functions and tuples every step mentions. *)
USE DEF vars, summary, lists, locals, db, history

-----------------------------------------------------------------------------
(* Lemmas about the operators. *)

\* Even rounds down to a multiple of two (currHeight - currHeight%2).
LEMMA EvenFacts ==
    ASSUME NEW h \in Nat
    PROVE  /\ Even(h) \in Nat /\ Even(h) <= h /\ h - 1 <= Even(h)
           /\ Even(h) % 2 = 0
           /\ h % 2 = 0 => Even(h) = h
  BY DEF Even

\* An even number not above h is not above its even part.
LEMMA EvenBelow ==
    ASSUME NEW h \in Nat, NEW g \in Nat, g % 2 = 0, g <= h
    PROVE  g <= Even(h)
  BY DEF Even

LEMMA EvenMonotone ==
    ASSUME NEW g \in Nat, NEW h \in Nat, g <= h
    PROVE  Even(g) <= Even(h)
  BY DEF Even

\* Running totals never fall, so a block's count is their difference.
LEMMA TotalsMonotone ==
    ASSUME NEW g \in 0..MaxHeight, NEW h \in 0..MaxHeight, g <= h
    PROVE  TxsUpTo[g] \in Nat /\ TxsUpTo[h] \in Nat /\ TxsUpTo[g] <= TxsUpTo[h]
  BY ChainAssumption

LEMMA TxsType ==
    ASSUME NEW h \in 1..MaxHeight
    PROVE  Txs(h) \in Nat
  <1>1. h \in 0..MaxHeight /\ h - 1 \in 0..MaxHeight /\ h - 1 <= h
    BY HeightAssumption
  <1>2. TxsUpTo[h - 1] \in Nat /\ TxsUpTo[h] \in Nat
        /\ TxsUpTo[h - 1] <= TxsUpTo[h]
    BY <1>1, TotalsMonotone
  <1> QED BY <1>2 DEF Txs

\* The transactions of a pair are what its two blocks add to the running total.
LEMMA PairTotal ==
    ASSUME NEW h \in 2..MaxHeight
    PROVE  /\ PairTxs(h) \in Nat
           /\ PairTxs(h) = TxsUpTo[h] - TxsUpTo[h - 2]
  <1>1. h \in 1..MaxHeight /\ h - 1 \in 1..MaxHeight /\ (h - 1) - 1 = h - 2
    BY HeightAssumption
  <1>2. Txs(h) \in Nat /\ Txs(h - 1) \in Nat
    BY <1>1, TxsType
  <1>3. h \in 0..MaxHeight /\ h - 1 \in 0..MaxHeight /\ h - 2 \in 0..MaxHeight
    BY HeightAssumption
  <1>4. TxsUpTo[h] \in Nat /\ TxsUpTo[h - 1] \in Nat /\ TxsUpTo[h - 2] \in Nat
    BY <1>3, ChainAssumption
  <1>5. PairTxs(h) = (TxsUpTo[h] - TxsUpTo[h - 1])
                     + (TxsUpTo[h - 1] - TxsUpTo[h - 2])
    BY <1>1 DEF PairTxs, Txs
  <1>6. PairTxs(h) \in Nat
    BY <1>2 DEF PairTxs
  <1> QED BY <1>4, <1>5, <1>6

\* A block's feed rows are rows.
LEMMA BlockTxsType ==
    ASSUME NEW h \in 1..MaxHeight, NEW b \in 1..MaxHeight
    PROVE  BlockTxs(h, b) \in Seq(FeedRow)
  <1>1. Txs(h) \in Nat
    BY TxsType
  <1>2. \A k \in 1..Txs(h) : [TxHash |-> <<h, k>>, BlockHash |-> b] \in FeedRow
    BY <1>1 DEF FeedRow
  <1>3. BlockTxs(h, b) \in [1..Txs(h) -> FeedRow]
    BY <1>2 DEF BlockTxs
  <1> QED BY <1>1, <1>3

\* Cutting a sequence keeps its elements, and at most n of them.
LEMMA FirstOfType ==
    ASSUME NEW S, NEW s \in Seq(S), NEW n \in Nat
    PROVE  FirstOf(s, n) \in Seq(S)
  BY DEF FirstOf

LEMMA PutInFrontType ==
    ASSUME NEW S, NEW new \in Seq(S), NEW old \in Seq(S)
    PROVE  PutInFront(new, old) \in Seq(S)
  <1>1. new \o old \in Seq(S)
    OBVIOUS
  <1>2. FirstOf(new \o old, ListCap) \in Seq(S)
    BY <1>1, FirstOfType, CapAssumption
  <1> QED BY <1>2 DEF PutInFront
\* The loop is at an even height above its floor: the pair and the next height exist.
LEMMA PairBounds ==
    ASSUME NEW m \in Nat, NEW k \in 0..MaxHeight, k % 2 = 0, m < k
    PROVE  /\ k \in 2..MaxHeight /\ k \in 1..MaxHeight
           /\ k - 1 \in 1..MaxHeight
           /\ k - 2 \in 0..MaxHeight /\ (k - 2) % 2 = 0
  BY HeightAssumption

\* updateBlock keeps the types of the database and of the history, failed or not.
LEMMA IndexBlockType ==
    ASSUME TypeOK, NEW h \in 1..MaxHeight, IndexBlock(h) \/ IndexBlockFails(h)
    PROVE  /\ dbHashes' \subseteq 1..MaxHeight
           /\ dbFormulator' \in [Formulators -> Nat]
           /\ dbInfo' = dbInfo
           /\ skipped' \subseteq 1..MaxHeight /\ unindexed' \subseteq 1..MaxHeight
           /\ rewound' = rewound /\ faults' \in Nat /\ crashes' \in Nat
  <1>t. /\ dbHashes \subseteq 1..MaxHeight
        /\ dbFormulator \in [Formulators -> Nat]
        /\ skipped \subseteq 1..MaxHeight /\ unindexed \subseteq 1..MaxHeight
        /\ faults \in Nat /\ crashes \in Nat
    BY DEF TypeOK
  <1>1. CASE IndexBlock(h)
    <2>1. Formulator[h] \in Formulators
      BY ChainAssumption
    <2>2. ProducedBy(Formulator[h]) \in Nat
      BY <1>t, <2>1 DEF ProducedBy
    <2>3. dbFormulator' \in [Formulators -> Nat]
      BY <1>1, <1>t, <2>2 DEF IndexBlock
    <2> QED BY <1>1, <1>t, <2>3 DEF IndexBlock
  <1>2. CASE IndexBlockFails(h)
    BY <1>2, <1>t DEF IndexBlockFails, Fault, db
  <1> QED BY <1>1, <1>2

-----------------------------------------------------------------------------
(* Type correctness. *)

InLoop == {"pair", "upper", "lower"}

\* Where the loop stands: on an even height it has not passed, and at a pair
\* above the floor while it indexes one.
LoopBounds ==
    /\ pc \in InLoop => i % 2 = 0 /\ i <= currHeight
    /\ pc \in {"upper", "lower"} => minHeight < i

TypeInv == TypeOK /\ LoopBounds

LEMMA InitTypeInv == Init => TypeInv
  <1> SUFFICES ASSUME Init
               PROVE  TypeInv
    OBVIOUS
  <1>1. rewound \in BOOLEAN
    BY DEF Init
  <1> QED BY <1>1, HeightAssumption, InitAssumption
          DEF Init, TypeInv, TypeOK, LoopBounds, InLoop, Heights, Labels, Info, ZeroInfo

\* One step per action; only the conjuncts the action changes need an argument.
LEMMA NextTypeInv == TypeInv /\ [Next]_vars => TypeInv'
  <1> SUFFICES ASSUME TypeInv, [Next]_vars
               PROVE  TypeInv'
    OBVIOUS
  <1> USE HeightAssumption DEF TypeInv
  <1>t. TypeOK /\ LoopBounds
    OBVIOUS
  <1>h. Heights = 0..MaxHeight
    BY DEF Heights
  <1>1. CASE Grow
    BY <1>1 DEF Grow, TypeOK, LoopBounds, Heights
  <1>2. CASE Start
    BY <1>2 DEF Start, LoadedTotal, TypeOK, LoopBounds, InLoop, Heights, Labels, Info
  <1>3. CASE LoadBlock
    <2>1. i \in 1..MaxHeight /\ i - 1 \in Heights
      BY <1>3 DEF LoadBlock, TypeOK, Heights
    <2>2. lastestTransactionList' \in Seq(FeedRow)
      BY <1>3, <2>1, BlockTxsType DEF LoadBlock, TypeOK
    <2> QED BY <1>3, <2>1, <2>2 DEF LoadBlock, TypeOK, LoopBounds, InLoop
  <1>4. CASE LoadBlockFails
    BY <1>4 DEF LoadBlockFails, Fault, TypeOK, LoopBounds, InLoop, Heights
  <1>5. CASE LoadDone
    BY <1>5 DEF LoadDone, ClearLocals, TypeOK, LoopBounds, InLoop, Heights, Labels
  <1>6. CASE Begin
    <2>0. height \in Nat /\ height \in 0..MaxHeight
      BY DEF TypeOK, Heights
    <2>1. Even(height) \in Heights /\ Even(height) <= height /\ Even(height) % 2 = 0
      BY <2>0, EvenFacts DEF Heights
    <2> QED BY <1>6, <2>1 DEF Begin, FirstCount, Floor, TopPair, TypeOK,
                              LoopBounds, InLoop, Heights, Labels
  <1>7. CASE ReadPairFails
    <2>0. /\ minHeight \in Nat /\ i \in 0..MaxHeight /\ i % 2 = 0 /\ minHeight < i
          /\ currHeight \in Nat /\ i <= currHeight
      BY <1>7 DEF ReadPairFails, TypeOK, LoopBounds, InLoop, Heights
    <2>1. /\ i \in 2..MaxHeight /\ i - 2 \in Heights /\ i - 1 \in 1..MaxHeight
          /\ (i - 2) % 2 = 0 /\ i - 2 <= currHeight
      BY <2>0, PairBounds DEF Heights
    <2> QED BY <1>7, <2>1 DEF ReadPairFails, Fault, TypeOK, LoopBounds, InLoop
  <1>8. CASE ReadPair
    <2>0. minHeight \in Nat /\ i \in 0..MaxHeight /\ i % 2 = 0 /\ minHeight < i
      BY <1>8 DEF ReadPair, TypeOK, LoopBounds, InLoop, Heights
    <2>1. i \in 2..MaxHeight /\ i \in 1..MaxHeight /\ i - 1 \in 1..MaxHeight
      BY <2>0, PairBounds
    <2>2. PairTxs(i) \in Nat
      BY <2>1, PairTotal
    <2>3. Peak(PairTxs(i)) \in Nat
      BY <2>2 DEF Peak, TypeOK
    <2>4. newTxs' \in Seq(FeedRow)
      <3>1. BlockTxs(i, i) \in Seq(FeedRow) /\ BlockTxs(i - 1, i) \in Seq(FeedRow)
        BY <2>1, BlockTxsType
      <3>2. newTxs \o BlockTxs(i, i) \o BlockTxs(i - 1, i) \in Seq(FeedRow)
        BY <3>1 DEF TypeOK
      <3>3. ListCap + 1 \in Nat
        BY CapAssumption
      <3> QED BY <1>8, <3>2, <3>3, FirstOfType DEF ReadPair
    <2>5. newTxCountInfos' \in Seq(ChartRow)
      <3>1. [Time |-> i, Count |-> PairTxs(i)] \in ChartRow
        BY <2>1, <2>2 DEF ChartRow
      <3> QED BY <1>8, <3>1 DEF ReadPair, TypeOK
    <2>6. currentTransactions' \in Nat /\ MaximumTps' \in Nat
      BY <1>8, <2>2, <2>3 DEF ReadPair, TypeOK
    <2> QED BY <1>8, <2>4, <2>5, <2>6
            DEF ReadPair, TypeOK, LoopBounds, InLoop, Labels
  <1>9. CASE IndexUpper
    <2>1. i \in 1..MaxHeight
      BY <1>9 DEF IndexUpper, TypeOK, LoopBounds, InLoop, Heights
    <2>3. /\ dbHashes' \subseteq 1..MaxHeight
          /\ dbFormulator' \in [Formulators -> Nat]
          /\ dbInfo' = dbInfo
          /\ skipped' \subseteq 1..MaxHeight /\ unindexed' \subseteq 1..MaxHeight
          /\ rewound' = rewound /\ faults' \in Nat /\ crashes' \in Nat
      BY <1>9, <2>1, IndexBlockType DEF IndexUpper
    <2> QED BY <1>9, <2>3 DEF IndexUpper, TypeOK, LoopBounds, InLoop, Labels
  <1>10. CASE IndexLower
    <2>0. /\ minHeight \in Nat /\ i \in 0..MaxHeight /\ i % 2 = 0 /\ minHeight < i
          /\ currHeight \in Nat /\ i <= currHeight
      BY <1>10 DEF IndexLower, TypeOK, LoopBounds, InLoop, Heights
    <2>1. /\ i - 1 \in 1..MaxHeight /\ i - 2 \in Heights
          /\ (i - 2) % 2 = 0 /\ i - 2 <= currHeight
      BY <2>0, PairBounds DEF Heights
    <2>3. /\ dbHashes' \subseteq 1..MaxHeight
          /\ dbFormulator' \in [Formulators -> Nat]
          /\ dbInfo' = dbInfo
          /\ skipped' \subseteq 1..MaxHeight /\ unindexed' \subseteq 1..MaxHeight
          /\ rewound' = rewound /\ faults' \in Nat /\ crashes' \in Nat
      BY <1>10, <2>1, IndexBlockType DEF IndexLower
    <2> QED BY <1>10, <2>1, <2>3 DEF IndexLower, TypeOK, LoopBounds, InLoop, Labels
  <1>11. CASE Finish
    <2>1. /\ lastestTransactionList' \in Seq(FeedRow)
          /\ transactionCountList' \in Seq(ChartRow)
      BY <1>11, PutInFrontType DEF Finish, TypeOK
    <2> QED BY <1>11, <2>1 DEF Finish, AfterLoop, TypeOK, LoopBounds, InLoop, Labels
  <1>12. CASE Save
    BY <1>12 DEF Save, SavedInfo, ClearLocals, TypeOK, LoopBounds, InLoop, Heights,
                 Labels, Info
  <1>13. CASE SaveFails
    BY <1>13 DEF SaveFails, Fault, ClearLocals, TypeOK, LoopBounds, InLoop, Heights,
                 Labels
  <1>14. CASE Crash
    BY <1>14 DEF Crash, ClearLocals, TypeOK, LoopBounds, InLoop, Heights, Labels
  <1>15. CASE UNCHANGED vars
    BY <1>15 DEF TypeOK, LoopBounds
  <1> QED BY <1>1, <1>2, <1>3, <1>4, <1>5, <1>6, <1>7, <1>8, <1>9, <1>10, <1>11,
             <1>12, <1>13, <1>14, <1>15 DEF Next, Load, Update

LEMMA TypeInvariant == Spec => []TypeInv
  BY InitTypeInv, NextTypeInv, PTL DEF Spec

\* Every variable keeps its type, whatever the chain, the faults and the crashes.
THEOREM TypeCorrect == Spec => []TypeOK
  <1>1. TypeInv => TypeOK
    BY DEF TypeInv
  <1> QED BY <1>1, TypeInvariant, PTL
-----------------------------------------------------------------------------
(* The index covers what the summary on disk claims.  IndexCovers alone is   *)
(* not inductive: it needs what the round in memory has accounted for, from  *)
(* the top of the round down to the loop's height, and what the rounds       *)
(* before it have, up to the floor.                                          *)

CoveredTo(n)    == 1..n \subseteq Accounted
CoveredAbove(n) == (n + 1)..Even(currHeight) \subseteq Accounted

Covering ==
    /\ CoveredTo(Even(dbInfo.Blocks))
    /\ pc \in {"load", "sleep", "save"} => CoveredTo(Even(Blocks))
    /\ pc \in InLoop => CoveredTo(Even(minHeight)) /\ CoveredAbove(i)
    /\ pc = "lower" => i \in Accounted

\* What is accounted for stays so: nothing is ever deleted from the index.
LEMMA AccountedStays ==
    ASSUME [Next]_vars
    PROVE  Accounted \subseteq Accounted'
  BY DEF Next, Load, Update, Accounted, Grow, Start, LoadBlock, LoadBlockFails,
         LoadDone, Begin, ReadPair, ReadPairFails, IndexUpper, IndexLower,
         IndexBlock, IndexBlockFails, Finish, Save, SaveFails, Crash

\* updateBlock accounts for its block, whether it commits or not.
LEMMA IndexBlockAccounts ==
    ASSUME NEW h, IndexBlock(h) \/ IndexBlockFails(h)
    PROVE  h \in Accounted'
  BY DEF Accounted, IndexBlock, IndexBlockFails

LEMMA InitCovering == Init => Covering
  BY DEF Init, Covering, CoveredTo, ZeroInfo, InLoop, Even

\* The summary saved is the one in memory, whose blocks are covered.
LEMMA NextCovering == TypeInv /\ Covering /\ [Next]_vars => Covering'
  <1> SUFFICES ASSUME TypeInv, Covering, [Next]_vars
               PROVE  Covering'
    OBVIOUS
  <1>t. /\ i \in Nat /\ currHeight \in Nat /\ minHeight \in Nat
        /\ Blocks \in Nat /\ height \in Nat /\ dbInfo.Blocks \in Nat
    BY HeightAssumption DEF TypeInv, TypeOK, Heights, Info
  <1>c. /\ 1..Even(dbInfo.Blocks) \subseteq Accounted'
        /\ pc \in {"load", "sleep", "save"} => 1..Even(Blocks) \subseteq Accounted'
        /\ pc \in InLoop => /\ 1..Even(minHeight) \subseteq Accounted'
                            /\ (i + 1)..Even(currHeight) \subseteq Accounted'
        /\ pc = "lower" => i \in Accounted'
    BY AccountedStays DEF Covering, CoveredTo, CoveredAbove
  <1>1. CASE Grow \/ LoadBlock \/ LoadBlockFails \/ LoadDone \/ UNCHANGED vars
    BY <1>1, <1>c DEF Grow, LoadBlock, LoadBlockFails, LoadDone, ClearLocals,
                      Covering, CoveredTo, CoveredAbove, InLoop
  <1>2. CASE Start
    BY <1>2, <1>c DEF Start, Covering, CoveredTo, CoveredAbove, InLoop
  <1>3. CASE Begin
    <2>1. /\ dbInfo' = dbInfo /\ pc' = "pair" /\ pc = "sleep"
          /\ minHeight' = Blocks /\ i' = Even(height) /\ currHeight' = height
      BY <1>3 DEF Begin, Floor, TopPair
    <2>2. Even(height) \in Nat
      BY <1>t, EvenFacts
    <2>3. (Even(height) + 1)..Even(height) = {}
      BY <2>2
    <2> QED BY <2>1, <2>3, <1>c DEF Covering, CoveredTo, CoveredAbove, InLoop
  <1>4. CASE ReadPairFails
    <2>1. /\ dbInfo' = dbInfo /\ pc' = "pair" /\ pc = "pair"
          /\ minHeight' = minHeight /\ i' = i - 2 /\ currHeight' = currHeight
          /\ skipped' = skipped \cup {i - 1, i}
      BY <1>4 DEF ReadPairFails
    <2>2. i \in Accounted' /\ i - 1 \in Accounted'
      BY <2>1 DEF Accounted
    <2>3. \A h \in (i - 2 + 1)..Even(currHeight) :
              h = i - 1 \/ h = i \/ h \in (i + 1)..Even(currHeight)
      BY <1>t, EvenFacts
    <2>4. \A h \in (i - 2 + 1)..Even(currHeight) : h \in Accounted'
      BY <2>1, <2>2, <2>3, <1>c DEF InLoop
    <2> QED BY <2>1, <2>4, <1>c DEF Covering, CoveredTo, CoveredAbove, InLoop
  <1>5. CASE ReadPair
    BY <1>5, <1>c DEF ReadPair, Covering, CoveredTo, CoveredAbove, InLoop
  <1>6. CASE IndexUpper
    <2>1. i \in Accounted'
      BY <1>6, IndexBlockAccounts DEF IndexUpper
    <2>2. dbInfo' = dbInfo
      BY <1>6 DEF IndexUpper, IndexBlock, IndexBlockFails
    <2>3. /\ pc = "upper" /\ pc' = "lower"
          /\ minHeight' = minHeight /\ i' = i /\ currHeight' = currHeight
      BY <1>6 DEF IndexUpper
    <2> QED BY <2>1, <2>2, <2>3, <1>c DEF Covering, CoveredTo, CoveredAbove,
                                          InLoop
  <1>7. CASE IndexLower
    <2>1. i - 1 \in Accounted'
      BY <1>7, IndexBlockAccounts DEF IndexLower
    <2>2. dbInfo' = dbInfo
      BY <1>7 DEF IndexLower, IndexBlock, IndexBlockFails
    <2>3. /\ pc = "lower" /\ pc' = "pair"
          /\ minHeight' = minHeight /\ i' = i - 2 /\ currHeight' = currHeight
      BY <1>7 DEF IndexLower
    <2>4. \A h \in (i - 2 + 1)..Even(currHeight) :
              h = i - 1 \/ h = i \/ h \in (i + 1)..Even(currHeight)
      BY <1>t, EvenFacts
    <2>5. \A h \in (i - 2 + 1)..Even(currHeight) : h \in Accounted'
      BY <2>1, <2>3, <2>4, <1>c DEF InLoop
    <2> QED BY <2>2, <2>3, <2>5, <1>c DEF Covering, CoveredTo, CoveredAbove, InLoop
  <1>8. CASE Finish
    <2>1. /\ dbInfo' = dbInfo /\ pc' = "save" /\ pc = "pair"
          /\ i <= minHeight /\ Blocks' = currHeight
      BY <1>8 DEF Finish, AfterLoop
    <2>2. i <= Even(minHeight) /\ Even(minHeight) \in Nat
      BY <1>t, <2>1, EvenBelow, EvenFacts DEF TypeInv, LoopBounds, InLoop
    <2>3. \A h \in 1..Even(currHeight) :
              h \in 1..Even(minHeight) \/ h \in (i + 1)..Even(currHeight)
      BY <1>t, <2>2, EvenFacts
    <2>4. \A h \in 1..Even(currHeight) : h \in Accounted'
      BY <2>1, <2>3, <1>c DEF InLoop
    <2> QED BY <2>1, <2>4, <1>c DEF Covering, CoveredTo, CoveredAbove, InLoop
  <1>9. CASE Save
    BY <1>9, <1>c DEF Save, SavedInfo, ClearLocals, Covering, CoveredTo,
                      CoveredAbove, InLoop
  <1>10. CASE SaveFails
    BY <1>10, <1>c DEF SaveFails, ClearLocals, Covering, CoveredTo, CoveredAbove,
                       InLoop
  <1>11. CASE Crash
    BY <1>11, <1>c DEF Crash, ClearLocals, Covering, CoveredTo, CoveredAbove, InLoop
  <1> QED BY <1>1, <1>2, <1>3, <1>4, <1>5, <1>6, <1>7, <1>8, <1>9, <1>10, <1>11
          DEF Next, Load, Update

LEMMA CoveringInvariant == Spec => [](TypeInv /\ Covering)
  BY InitTypeInv, NextTypeInv, InitCovering, NextCovering, PTL DEF Spec

\* No crash, failed read, failed commit, failed save or kernel recovery leaves a
\* summary on disk that claims a block the index neither holds nor gave up.
THEOREM IndexAlwaysCovers == Spec => []IndexCovers
  <1>1. Covering => IndexCovers
    BY DEF Covering, CoveredTo, IndexCovers
  <1> QED BY <1>1, CoveringInvariant, PTL
-----------------------------------------------------------------------------
(* The total on disk.  The invariant follows the round: below the floor the  *)
(* transactions are in the total, from the top down to the loop's height in  *)
(* the round's own count, and the two meet when the loop reaches the floor.  *)

\* While the kernel keeps its blocks, heights only go up: the saved one, the
\* one in memory, the one the round took, the kernel's.
Order ==
    /\ dbInfo.Blocks <= height /\ Blocks <= height
    /\ pc # "down" => dbInfo.Blocks <= Blocks
    /\ pc \in InLoop \cup {"save"} =>
           Blocks = currHeight /\ currHeight <= height /\ minHeight <= currHeight
    /\ pc \in InLoop => Even(minHeight) <= i

\* n transactions are those of the pairs at or below height h.
Counted(n, h) ==
    /\ n <= TxsUpTo[Even(h)]
    /\ skipped = {} => n = TxsUpTo[Even(h)]

\* The round's count is that of the pairs it took above height h.
CountedAbove(h) ==
    /\ currentTransactions <= TxsUpTo[Even(currHeight)] - TxsUpTo[h]
    /\ skipped = {} =>
           currentTransactions = TxsUpTo[Even(currHeight)] - TxsUpTo[h]

Totals ==
    /\ Counted(dbInfo.Transactions, dbInfo.Blocks)
    /\ pc \notin InLoop => Counted(Transactions, Blocks)
    /\ pc \in InLoop => Counted(Transactions, minHeight)
    /\ pc = "pair" => CountedAbove(i)
    /\ pc \in {"upper", "lower"} => CountedAbove(i - 2)

KeptTotals == ~rewound => Order /\ Totals

\* An even height above m is above the next even height below it.
LEMMA EvenStep ==
    ASSUME NEW m \in Nat, NEW k \in Nat, k % 2 = 0, m < k
    PROVE  Even(m) <= k - 2
  BY DEF Even

LEMMA EvenHeight ==
    ASSUME NEW h \in 0..MaxHeight
    PROVE  /\ Even(h) \in 0..MaxHeight
           /\ TxsUpTo[Even(h)] \in Nat
  <1>1. Even(h) \in 0..MaxHeight
    BY EvenFacts, HeightAssumption
  <1> QED BY <1>1, ChainAssumption

LEMMA InitKeptTotals == Init => KeptTotals
  <1> SUFFICES ASSUME Init PROVE Order /\ Totals
    BY DEF KeptTotals
  <1>1. Even(0) = 0
    BY DEF Even
  <1>2. TxsUpTo[0] = 0
    BY ChainAssumption
  <1>3. height \in Nat
    BY HeightAssumption, InitAssumption DEF Init
  <1> QED BY <1>1, <1>2, <1>3
          DEF Init, Order, Totals, Counted, ZeroInfo, InLoop

LEMMA NextOrder ==
    ASSUME TypeInv, ~rewound', Order, [Next]_vars
    PROVE  Order'
  <1>t. /\ i \in 0..MaxHeight /\ currHeight \in 0..MaxHeight
        /\ minHeight \in 0..MaxHeight /\ Blocks \in 0..MaxHeight
        /\ height \in 0..MaxHeight /\ dbInfo.Blocks \in 0..MaxHeight
        /\ pc \in InLoop => i % 2 = 0
    BY DEF TypeInv, TypeOK, LoopBounds, Heights, Info
  <1>n. /\ i \in Nat /\ currHeight \in Nat /\ minHeight \in Nat
        /\ Blocks \in Nat /\ height \in Nat /\ dbInfo.Blocks \in Nat
    BY <1>t, HeightAssumption
  <1>1. CASE Grow
    BY <1>1, <1>n DEF Grow, Order
  <1>2. CASE Start
    BY <1>2, <1>n DEF Start, Order, InLoop
  <1>3. CASE LoadBlock \/ LoadBlockFails \/ LoadDone
    BY <1>3 DEF LoadBlock, LoadBlockFails, LoadDone, Order, InLoop
  <1>4. CASE Begin
    <2>1. Even(Blocks) <= Even(height)
      BY <1>4, <1>n, EvenMonotone DEF Order
    <2> QED BY <1>4, <2>1, <1>n DEF Begin, Floor, TopPair, Order, InLoop
  <1>5. CASE ReadPairFails
    <2>1. Even(minHeight) <= i - 2
      BY <1>5, <1>t, <1>n, EvenStep DEF ReadPairFails, InLoop
    <2> QED BY <1>5, <2>1 DEF ReadPairFails, Order, InLoop
  <1>6. CASE ReadPair
    BY <1>6 DEF ReadPair, Order, InLoop
  <1>7. CASE IndexUpper
    <2>1. dbInfo' = dbInfo
      BY <1>7 DEF IndexUpper, IndexBlock, IndexBlockFails
    <2> QED BY <1>7, <2>1 DEF IndexUpper, Order, InLoop
  <1>8. CASE IndexLower
    <2>1. dbInfo' = dbInfo
      BY <1>8 DEF IndexLower, IndexBlock, IndexBlockFails
    <2>2. Even(minHeight) <= i - 2
      BY <1>8, <1>t, <1>n, EvenStep DEF IndexLower, InLoop, TypeInv, LoopBounds
    <2> QED BY <1>8, <2>1, <2>2 DEF IndexLower, Order, InLoop
  <1>9. CASE Finish
    BY <1>9 DEF Finish, AfterLoop, Order, InLoop
  <1>10. CASE Save
    BY <1>10, <1>n DEF Save, SavedInfo, ClearLocals, Order, InLoop
  <1>11. CASE SaveFails
    BY <1>11 DEF SaveFails, ClearLocals, Order, InLoop
  <1>12. CASE Crash
    <2>0. ~(height' < height) /\ height' \in 0..height
      BY <1>12, <1>n DEF Crash
    <2>1. height' = height
      BY <2>0, <1>n
    <2> QED BY <1>12, <2>1, <1>n DEF Crash, ClearLocals, Order, InLoop
  <1>13. CASE UNCHANGED vars
    BY <1>13 DEF Order
  <1> QED BY <1>1, <1>2, <1>3, <1>4, <1>5, <1>6, <1>7, <1>8, <1>9, <1>10, <1>11,
             <1>12, <1>13 DEF Next, Load, Update
\* Skipping a pair is recorded, and nothing is ever taken off the record.
LEMMA SkippedStays ==
    ASSUME [Next]_vars
    PROVE  skipped \subseteq skipped'
  BY DEF Next, Load, Update, Grow, Start, LoadBlock, LoadBlockFails, LoadDone,
         Begin, ReadPair, ReadPairFails, IndexUpper, IndexLower, IndexBlock,
         IndexBlockFails, Finish, Save, SaveFails, Crash

LEMMA NextTotals ==
    ASSUME TypeInv, Order, Totals, [Next]_vars
    PROVE  Totals'
  <1>t. /\ i \in 0..MaxHeight /\ currHeight \in 0..MaxHeight
        /\ minHeight \in 0..MaxHeight /\ Blocks \in 0..MaxHeight
        /\ height \in 0..MaxHeight /\ dbInfo.Blocks \in 0..MaxHeight
        /\ Transactions \in Nat /\ currentTransactions \in Nat
        /\ dbInfo.Transactions \in Nat
        /\ pc \in InLoop => i % 2 = 0
    BY DEF TypeInv, TypeOK, LoopBounds, Heights, Info
  <1>n. /\ i \in Nat /\ currHeight \in Nat /\ minHeight \in Nat
        /\ Blocks \in Nat /\ height \in Nat
    BY <1>t, HeightAssumption
  <1>0. TxsUpTo[Even(0)] = 0
    BY ChainAssumption DEF Even
  <1>1. CASE Grow
    BY <1>1 DEF Grow, Totals, Counted, CountedAbove
  <1>2. CASE Start
    BY <1>2 DEF Start, LoadedTotal, Totals, Counted, CountedAbove, InLoop
  <1>3. CASE LoadBlock \/ LoadBlockFails \/ LoadDone
    BY <1>3 DEF LoadBlock, LoadBlockFails, LoadDone, ClearLocals, Totals, Counted,
                CountedAbove, InLoop
  <1>4. CASE Begin
    <2>1. TxsUpTo[Even(height)] \in Nat
      BY <1>t, EvenHeight
    <2>2. /\ pc = "sleep" /\ pc' = "pair" /\ currentTransactions' = 0
          /\ currHeight' = height /\ i' = Even(height) /\ minHeight' = Blocks
          /\ UNCHANGED <<dbInfo, Transactions, skipped>>
      BY <1>4 DEF Begin, FirstCount, Floor, TopPair
    <2> QED BY <2>1, <2>2 DEF Totals, Counted, CountedAbove, InLoop
  <1>5. CASE ReadPairFails
    <2>1. /\ pc = "pair" /\ pc' = "pair" /\ i' = i - 2
          /\ skipped' = skipped \cup {i - 1, i} /\ minHeight < i
          /\ UNCHANGED <<dbInfo, Transactions, currentTransactions, currHeight,
                         minHeight>>
      BY <1>5 DEF ReadPairFails
    <2>2. skipped' # {}
      BY <2>1
    <2>3. i - 2 \in 0..MaxHeight /\ i - 2 <= i
      BY <1>t, <1>n, <2>1, PairBounds DEF InLoop
    <2>4. /\ TxsUpTo[i - 2] \in Nat /\ TxsUpTo[i] \in Nat
          /\ TxsUpTo[i - 2] <= TxsUpTo[i]
      BY <1>t, <2>3, TotalsMonotone
    <2>5. TxsUpTo[Even(currHeight)] \in Nat
      BY <1>t, EvenHeight
    <2>6. currentTransactions <= TxsUpTo[Even(currHeight)] - TxsUpTo[i - 2]
      BY <1>t, <2>1, <2>4, <2>5 DEF Totals, CountedAbove
    <2> QED BY <2>1, <2>2, <2>6 DEF Totals, Counted, CountedAbove, InLoop
  <1>6. CASE ReadPair
    <2>1. /\ pc = "pair" /\ pc' = "upper" /\ i' = i /\ minHeight < i
          /\ currentTransactions' = currentTransactions + PairTxs(i)
          /\ UNCHANGED <<dbInfo, Transactions, currHeight, minHeight, skipped>>
      BY <1>6 DEF ReadPair
    <2>2. i \in 2..MaxHeight /\ i - 2 \in 0..MaxHeight
      BY <1>t, <1>n, <2>1, PairBounds DEF InLoop
    <2>3. TxsUpTo[i - 2] \in Nat /\ TxsUpTo[i] \in Nat
      BY <1>t, <2>2, ChainAssumption
    <2>4. TxsUpTo[Even(currHeight)] \in Nat
      BY <1>t, EvenHeight
    <2>5. PairTxs(i) = TxsUpTo[i] - TxsUpTo[i - 2]
      BY <2>2, PairTotal
    <2>6. CountedAbove(i)
      BY <2>1 DEF Totals
    <2>7. (CountedAbove(i - 2))'
      BY <1>t, <2>1, <2>3, <2>4, <2>5, <2>6 DEF CountedAbove
    <2> QED BY <2>1, <2>7 DEF Totals, Counted, InLoop
  <1>7. CASE IndexUpper
    <2>1. dbInfo' = dbInfo /\ skipped' = skipped
      BY <1>7 DEF IndexUpper, IndexBlock, IndexBlockFails
    <2> QED BY <1>7, <2>1 DEF IndexUpper, Totals, Counted, CountedAbove, InLoop
  <1>8. CASE IndexLower
    <2>1. dbInfo' = dbInfo /\ skipped' = skipped
      BY <1>8 DEF IndexLower, IndexBlock, IndexBlockFails
    <2> QED BY <1>8, <2>1 DEF IndexLower, Totals, Counted, CountedAbove, InLoop
  <1>9. CASE Finish
    <2>1. /\ pc = "pair" /\ pc' = "save" /\ i <= minHeight /\ Blocks' = currHeight
          /\ Transactions' = Transactions + currentTransactions
          /\ UNCHANGED <<dbInfo, skipped>>
      BY <1>9 DEF Finish, AfterLoop
    <2>2. i = Even(minHeight)
      <3>1. i <= Even(minHeight)
        BY <1>t, <1>n, <2>1, EvenBelow DEF InLoop
      <3>2. Even(minHeight) <= i /\ Even(minHeight) \in Nat
        BY <1>n, <2>1, EvenFacts DEF Order, InLoop
      <3> QED BY <1>n, <3>1, <3>2
    <2>3. TxsUpTo[i] \in Nat /\ TxsUpTo[Even(currHeight)] \in Nat
      BY <1>t, EvenHeight, ChainAssumption
    <2>4. Counted(Transactions, minHeight) /\ CountedAbove(i)
      BY <2>1 DEF Totals, InLoop
    <2>5. Counted(Transactions', currHeight)
      BY <1>t, <2>1, <2>2, <2>3, <2>4 DEF Counted, CountedAbove
    <2> QED BY <2>1, <2>5 DEF Totals, Counted, InLoop
  <1>10. CASE Save
    BY <1>10 DEF Save, SavedInfo, Totals, Counted, InLoop
  <1>11. CASE SaveFails
    BY <1>11 DEF SaveFails, Totals, Counted, InLoop
  <1>12. CASE Crash
    BY <1>0, <1>12 DEF Crash, Totals, Counted, InLoop
  <1>13. CASE UNCHANGED vars
    BY <1>13 DEF Totals, Counted, CountedAbove
  <1> QED BY <1>1, <1>2, <1>3, <1>4, <1>5, <1>6, <1>7, <1>8, <1>9, <1>10, <1>11,
             <1>12, <1>13 DEF Next, Load, Update

LEMMA NextKeptTotals == TypeInv /\ KeptTotals /\ [Next]_vars => KeptTotals'
  <1>1. [Next]_vars /\ ~rewound' => ~rewound
    BY DEF Next, Load, Update, Grow, Start, LoadBlock, LoadBlockFails, LoadDone,
           Begin, ReadPair, ReadPairFails, IndexUpper, IndexLower, IndexBlock,
           IndexBlockFails, Finish, Save, SaveFails, Crash, vars, history, Fault
  <1> QED BY <1>1, NextOrder, NextTotals DEF KeptTotals

LEMMA KeptTotalsInvariant == Spec => [](TypeInv /\ KeptTotals)
  BY InitTypeInv, NextTypeInv, InitKeptTotals, NextKeptTotals, PTL DEF Spec

\* Every transaction of the blocks the saved summary covers is in the saved total
\* exactly once, over any number of crashes, restarts and failed saves, as long
\* as the kernel keeps its blocks and every pair could be read.
THEOREM TotalIsExact == Spec => []TransactionsExact
  <1>1. KeptTotals => TransactionsExact
    BY DEF KeptTotals, Totals, Counted, TransactionsExact
  <1> QED BY <1>1, KeptTotalsInvariant, PTL

\* The total does not exceed the transactions the chain ever had until the kernel
\* has come back with fewer blocks: only then can RecoveredTotal fail.
THEOREM TotalIsRealUntilLoss == Spec => [](~rewound => RecoveredTotal)
  <1>1. TypeInv /\ TransactionsExact => (~rewound => RecoveredTotal)
    <2> SUFFICES ASSUME TypeInv, TransactionsExact, ~rewound
                 PROVE  dbInfo.Transactions <= TxsUpTo[MaxHeight]
      BY DEF RecoveredTotal
    <2>1. dbInfo.Blocks \in 0..MaxHeight /\ dbInfo.Transactions \in Nat
      BY DEF TypeInv, TypeOK, Info, Heights
    <2>2. Even(dbInfo.Blocks) \in 0..MaxHeight /\ MaxHeight \in 0..MaxHeight
      BY <2>1, EvenFacts, HeightAssumption
    <2>3. /\ TxsUpTo[Even(dbInfo.Blocks)] <= TxsUpTo[MaxHeight]
          /\ TxsUpTo[Even(dbInfo.Blocks)] \in Nat /\ TxsUpTo[MaxHeight] \in Nat
      BY <2>2, ChainAssumption, HeightAssumption
    <2> QED BY <2>1, <2>3 DEF TransactionsExact
  <1> QED BY <1>1, TotalIsExact, InitTypeInv, NextTypeInv, PTL DEF Spec

\* The total in memory is never ahead of the height in memory.
LEMMA NeverAhead == TypeInv /\ KeptTotals => DisplayNeverAhead
  <1> SUFFICES ASSUME TypeInv, KeptTotals, ~rewound
               PROVE  Transactions <= TxsUpTo[Even(Blocks)]
    BY DEF DisplayNeverAhead
  <1>1. Order /\ Totals
    BY DEF KeptTotals
  <1>2. CASE pc \in InLoop
    <2>1. /\ minHeight \in 0..MaxHeight /\ Blocks \in 0..MaxHeight
          /\ Transactions \in Nat
      BY DEF TypeInv, TypeOK, Heights
    <2>2. minHeight <= Blocks
      BY <1>1, <1>2 DEF Order
    <2>3. Even(minHeight) <= Even(Blocks)
      BY <2>1, <2>2, EvenMonotone, HeightAssumption
    <2>4. TxsUpTo[Even(minHeight)] <= TxsUpTo[Even(Blocks)]
      BY <2>1, <2>3, EvenHeight, TotalsMonotone
    <2>5. Transactions <= TxsUpTo[Even(minHeight)]
      BY <1>1, <1>2 DEF Totals, Counted
    <2> QED BY <2>1, <2>4, <2>5, EvenHeight
  <1>3. CASE pc \notin InLoop
    BY <1>1, <1>3 DEF Totals, Counted
  <1> QED BY <1>2, <1>3

-----------------------------------------------------------------------------
(* A request next to the rounds.  The invariant follows a half-made copy: a  *)
(* height is the one in memory until another round begins; from then on the  *)
(* total it will be shown with is still one it holds, until that round ends. *)

\* A step of the whole is a step of the indexer, or leaves it alone.
LEMMA DisplayStep == [DisplayNext]_allVars => [Next]_vars
  BY DEF DisplayNext, Run, Die, CopyFirst, Answer, Next, allVars

\* What is true of the indexer is true of it with its requests: the theorems of
\* Spec are theorems of DisplaySpec.
THEOREM DisplayIsIndexer == DisplaySpec => Spec
  BY DisplayStep, PTL DEF DisplaySpec, DisplayInit, Spec

\* The height of a request, and what has become of the rounds since.
HeightCopied ==
    /\ copy \in [{"Blocks"} -> Heights]
    /\ ~rewound =>
        /\ copy["Blocks"] <= Blocks
        /\ overtaken = "nothing" => copy["Blocks"] = Blocks
        /\ overtaken = "begun" => /\ pc \in InLoop
                                  /\ Transactions <= TxsUpTo[Even(copy["Blocks"])]

TotalCopied ==
    /\ copy \in [{"Transactions"} -> Nat]
    /\ ~rewound => copy["Transactions"] <= TxsUpTo[Even(Blocks)]

HalfCopied ==
    /\ copy # <<>>
    /\ pc \notin {"load", "down"}
    /\ overtaken \in {"nothing", "begun", "round"}
    /\ HeightCopied \/ TotalCopied

RequestInv == NoRequest \/ HalfCopied

IndexerInv == TypeInv /\ KeptTotals

LEMMA InitIndexerInv == Init => IndexerInv
  BY InitTypeInv, InitKeptTotals DEF IndexerInv

LEMMA NextIndexerInv == IndexerInv /\ [Next]_vars => IndexerInv'
  BY NextTypeInv, NextKeptTotals DEF IndexerInv

LEMMA OneFieldIsSome ==
    ASSUME NEW f, NEW v
    PROVE  [g \in {f} |-> v] # <<>>
  <1>1. f \in DOMAIN [g \in {f} |-> v] /\ f \notin DOMAIN <<>>
    OBVIOUS
  <1> QED BY <1>1

\* A request starts with one field as it is.
LEMMA CopyFirstRequest ==
    ASSUME IndexerInv, NEW f \in Fields, CopyFirst(f), NoRequest
    PROVE  RequestInv'
  <1>1. Blocks \in Heights /\ Transactions \in Nat
    BY DEF IndexerInv, TypeInv, TypeOK
  <1>2. DisplayNeverAhead
    BY NeverAhead DEF IndexerInv
  <1>3. overtaken' = "nothing" /\ pc' = pc /\ pc \notin {"load", "down"}
        /\ Blocks' = Blocks /\ rewound' = rewound
    BY DEF CopyFirst, NoRequest
  <1>4. CASE f = "Blocks"
    <2>1. copy' = [g \in {"Blocks"} |-> Blocks]
      BY <1>4 DEF CopyFirst, CurrentChainInfo
    <2>2. HeightCopied'
      BY <1>1, <1>3, <2>1, HeightAssumption DEF HeightCopied, Heights
    <2>3. copy' # <<>>
      BY <2>1, OneFieldIsSome
    <2> QED BY <1>3, <2>2, <2>3 DEF RequestInv, HalfCopied
  <1>5. CASE f = "Transactions"
    <2>1. copy' = [g \in {"Transactions"} |-> Transactions]
      BY <1>5 DEF CopyFirst, CurrentChainInfo
    <2>2. TotalCopied'
      BY <1>1, <1>2, <1>3, <2>1 DEF TotalCopied, DisplayNeverAhead
    <2>3. copy' # <<>>
      BY <2>1, OneFieldIsSome
    <2> QED BY <1>3, <2>2, <2>3 DEF RequestInv, HalfCopied
  <1> QED BY <1>4, <1>5 DEF Fields

\* What a step next to a request does to height and total: only a round's first
\* step moves the height, and upwards; only its last one moves the total.
LEMMA StepBeside ==
    ASSUME IndexerInv, ~rewound, pc \notin {"load", "down"},
           Grow \/ Start \/ Load \/ Update
    PROVE  /\ pc' \notin {"load", "down"} /\ rewound' = rewound
           /\ Blocks <= Blocks'
           /\ ~Begin => Blocks' = Blocks
           /\ Begin => pc \notin InLoop /\ pc' \in InLoop /\ Transactions' = Transactions
           /\ ~Begin /\ ~Finish => Transactions' = Transactions
                                    /\ (pc \in InLoop => pc' \in InLoop)
  <1>1. Order /\ Blocks \in Nat /\ height \in Nat
    BY HeightAssumption DEF IndexerInv, KeptTotals, TypeInv, TypeOK, Heights
  <1>2. CASE Grow
    BY <1>1, <1>2 DEF Grow, Begin
  <1>3. CASE Start \/ Load
    BY <1>3 DEF Start, Load, LoadBlock, LoadBlockFails, LoadDone
  <1>4. CASE Begin
    BY <1>1, <1>4 DEF Begin, Order, InLoop
  <1>5. CASE ReadPair \/ ReadPairFails
    BY <1>1, <1>5 DEF ReadPair, ReadPairFails, Begin, InLoop
  <1>6. CASE IndexUpper \/ IndexLower
    <2>1. rewound' = rewound
      BY <1>6 DEF IndexUpper, IndexLower, IndexBlock, IndexBlockFails
    <2> QED BY <1>1, <1>6, <2>1 DEF IndexUpper, IndexLower, Begin, InLoop
  <1>7. CASE Finish
    BY <1>1, <1>7 DEF Finish, AfterLoop, Begin, Order, InLoop
  <1>8. CASE Save \/ SaveFails
    BY <1>1, <1>8 DEF Save, SaveFails, Begin, InLoop
  <1> QED BY <1>2, <1>3, <1>4, <1>5, <1>6, <1>7, <1>8 DEF Update

\* The same without the heights, which a recovery may leave in any order.
LEMMA StepBesideLabels ==
    ASSUME pc \notin {"load", "down"}, Grow \/ Start \/ Load \/ Update
    PROVE  pc' \notin {"load", "down"} /\ rewound' = rewound
  BY DEF Grow, Start, Load, LoadBlock, LoadBlockFails, LoadDone, Update, Begin,
         ReadPair, ReadPairFails, IndexUpper, IndexLower, IndexBlock,
         IndexBlockFails, Finish, AfterLoop, Save, SaveFails

\* A step of the others leaves a half-made copy what it has to be.
LEMMA RunRequest ==
    ASSUME IndexerInv, IndexerInv', RequestInv, Run
    PROVE  RequestInv'
  <1>1. CASE NoRequest
    BY <1>1 DEF Run, Progress, RequestInv, NoRequest
  <1>2. CASE HalfCopied
    <2>1. pc' \notin {"load", "down"} /\ rewound' = rewound
      BY <1>2, StepBesideLabels DEF Run, HalfCopied
    <2>2. copy' = copy /\ copy # <<>> /\ overtaken' \in {"nothing", "begun", "round"}
      BY <1>2 DEF Run, Progress, HalfCopied
    <2>3. /\ overtaken' = "nothing" => overtaken = "nothing" /\ ~Begin
          /\ overtaken' = "begun" => \/ overtaken = "nothing" /\ Begin
                                     \/ overtaken = "begun" /\ ~Finish
      BY <1>2 DEF Run, Progress, HalfCopied
    <2>4. Blocks \in 0..MaxHeight /\ Blocks' \in 0..MaxHeight /\ Transactions \in Nat
      BY DEF IndexerInv, TypeInv, TypeOK, Heights
    <2>5. CASE rewound
      BY <1>2, <2>1, <2>2, <2>5 DEF RequestInv, HalfCopied, HeightCopied, TotalCopied
    <2>6. CASE ~rewound /\ HeightCopied
      <3>1. /\ Blocks <= Blocks'
            /\ ~Begin => Blocks' = Blocks
            /\ Begin => pc \notin InLoop /\ pc' \in InLoop /\ Transactions' = Transactions
            /\ ~Begin /\ ~Finish => Transactions' = Transactions
                                    /\ (pc \in InLoop => pc' \in InLoop)
        BY <1>2, <2>6, StepBeside DEF Run, HalfCopied
      <3>2. copy["Blocks"] \in 0..MaxHeight /\ copy["Blocks"] <= Blocks
        BY <2>6 DEF HeightCopied, Heights
      <3>3. copy'["Blocks"] <= Blocks'
        BY <2>2, <2>4, <3>1, <3>2, HeightAssumption
      <3>4. overtaken' = "nothing" => copy'["Blocks"] = Blocks'
        BY <2>2, <2>3, <2>6, <3>1 DEF HeightCopied
      <3>5. ASSUME overtaken' = "begun"
            PROVE  pc' \in InLoop /\ Transactions' <= TxsUpTo[Even(copy'["Blocks"])]
        <4>1. CASE overtaken = "nothing" /\ Begin
          <5>1. Transactions <= TxsUpTo[Even(Blocks)]
            BY <2>6, NeverAhead DEF IndexerInv, DisplayNeverAhead
          <5> QED BY <2>2, <2>6, <3>1, <4>1, <5>1 DEF HeightCopied
        <4>2. CASE overtaken = "begun" /\ ~Finish
          BY <2>2, <2>6, <3>1, <4>2 DEF HeightCopied
        <4> QED BY <2>3, <3>5, <4>1, <4>2
      <3>6. HeightCopied'
        BY <2>2, <2>6, <3>3, <3>4, <3>5 DEF HeightCopied
      <3> QED BY <2>1, <2>2, <3>6 DEF RequestInv, HalfCopied
    <2>7. CASE ~rewound /\ TotalCopied
      <3>1. Blocks <= Blocks'
        BY <1>2, <2>7, StepBeside DEF Run, HalfCopied
      <3>2. TxsUpTo[Even(Blocks)] <= TxsUpTo[Even(Blocks')]
            /\ TxsUpTo[Even(Blocks)] \in Nat /\ TxsUpTo[Even(Blocks')] \in Nat
        BY <2>4, <3>1, EvenHeight, EvenMonotone, TotalsMonotone, HeightAssumption
      <3>3. TotalCopied'
        BY <2>2, <2>7, <3>2 DEF TotalCopied
      <3> QED BY <2>1, <2>2, <3>3 DEF RequestInv, HalfCopied
    <2> QED BY <1>2, <2>5, <2>6, <2>7 DEF HalfCopied
  <1> QED BY <1>1, <1>2 DEF RequestInv

LEMMA InitRequest == DisplayInit => RequestInv
  BY DEF DisplayInit, RequestInv

LEMMA NextRequest ==
    IndexerInv /\ IndexerInv' /\ RequestInv /\ [DisplayNext]_allVars => RequestInv'
  <1> SUFFICES ASSUME IndexerInv, IndexerInv', RequestInv, [DisplayNext]_allVars
               PROVE  RequestInv'
    OBVIOUS
  <1>1. CASE Run
    BY <1>1, RunRequest
  <1>2. CASE Die
    BY <1>2 DEF Die, RequestInv, NoRequest
  <1>3. ASSUME NEW f \in Fields, CopyFirst(f) PROVE RequestInv'
    <2>1. NoRequest
      BY <1>3 DEF CopyFirst, RequestInv, HalfCopied
    <2> QED BY <1>3, <2>1, CopyFirstRequest
  <1>4. ASSUME NEW f \in Fields, Answer(f) PROVE RequestInv'
    BY <1>4 DEF Answer, RequestInv, NoRequest
  <1>5. CASE UNCHANGED allVars
    BY <1>5 DEF allVars, request, RequestInv, NoRequest, HalfCopied, HeightCopied,
                TotalCopied
  <1> QED BY <1>1, <1>2, <1>3, <1>4, <1>5 DEF DisplayNext

\* What an answer shows, put together from two moments, whatever lies between.
LEMMA AnswerShows ==
    ASSUME IndexerInv, RequestInv, ~rewound, NEW f \in Fields, Answer(f)
    PROVE  /\ Shown(f).Transactions <= TxsUpTo[Even(Blocks)]
           /\ \/ Shown(f).Transactions <= TxsUpTo[Even(Shown(f).Blocks)]
              \/ RoundBetween(f)
  <1>1. HalfCopied
    BY DEF Answer, RequestInv, NoRequest
  <1>2. Transactions <= TxsUpTo[Even(Blocks)]
    BY NeverAhead DEF IndexerInv, DisplayNeverAhead
  <1>3. CASE HeightCopied
    <2>1. f = "Transactions"
      BY <1>3 DEF Answer, HeightCopied, Fields
    <2>2. Shown(f).Transactions = Transactions /\ Shown(f).Blocks = copy["Blocks"]
      BY <2>1 DEF Shown, Fields, CurrentChainInfo
    <2>3. CASE overtaken = "nothing"
      BY <1>2, <1>3, <2>2, <2>3 DEF HeightCopied
    <2>4. CASE overtaken = "begun"
      BY <1>2, <1>3, <2>2, <2>4 DEF HeightCopied
    <2>5. CASE overtaken = "round"
      BY <1>2, <2>1, <2>2, <2>5 DEF RoundBetween
    <2> QED BY <1>1, <2>3, <2>4, <2>5 DEF HalfCopied
  <1>4. CASE TotalCopied
    <2>1. f = "Blocks"
      BY <1>4 DEF Answer, TotalCopied, Fields
    <2>2. Shown(f).Transactions = copy["Transactions"] /\ Shown(f).Blocks = Blocks
      BY <2>1 DEF Shown, Fields, CurrentChainInfo
    <2> QED BY <1>4, <2>2 DEF TotalCopied
  <1> QED BY <1>1, <1>3, <1>4 DEF HalfCopied

\* A request that reads height and total at two moments, in either order and with
\* any steps of the rounds between them, answers with a total its height holds,
\* unless a whole round came between; then with one the height by now holds.
THEOREM DisplayShowsTogether == DisplaySpec => ShownTogether
  <1> DEFINE Together ==
        \A f \in Fields : ~rewound /\ Answer(f) =>
            /\ Shown(f).Transactions <= TxsUpTo[Even(Blocks)]
            /\ \/ Shown(f).Transactions <= TxsUpTo[Even(Shown(f).Blocks)]
               \/ RoundBetween(f)
  <1>1. IndexerInv /\ RequestInv => [Together]_allVars
    BY AnswerShows
  <1>2. DisplayInit => IndexerInv
    BY InitIndexerInv DEF DisplayInit
  <1>3. IndexerInv /\ [DisplayNext]_allVars => IndexerInv'
    BY NextIndexerInv, DisplayStep
  <1> QED BY <1>1, <1>2, <1>3, InitRequest, NextRequest, PTL
          DEF DisplaySpec, ShownTogether
-----------------------------------------------------------------------------
(* The database implements ChainIndex. *)

LEMMA InitRefines == Init => Promise!Init
  BY DEF Init, Promise!Init, ZeroInfo

\* The total in memory is never below the one on disk.
MemoryAhead == pc # "down" => /\ dbInfo.Transactions <= Transactions
                              /\ dbInfo.MaximumTps <= MaximumTps

LEMMA InitMemoryAhead == Init => MemoryAhead
  BY DEF Init, MemoryAhead, ZeroInfo

LEMMA NextMemoryAhead == TypeInv /\ MemoryAhead /\ [Next]_vars => MemoryAhead'
  <1> SUFFICES ASSUME TypeInv, MemoryAhead, [Next]_vars
               PROVE  MemoryAhead'
    OBVIOUS
  <1>t. /\ Transactions \in Nat /\ currentTransactions \in Nat
        /\ MaximumTps \in Nat
        /\ dbInfo.Transactions \in Nat /\ dbInfo.MaximumTps \in Nat
    BY DEF TypeInv, TypeOK, Info
  <1>1. CASE ReadPair
    <2>0. minHeight \in Nat /\ i \in 0..MaxHeight /\ i % 2 = 0 /\ minHeight < i
      BY <1>1, HeightAssumption
         DEF ReadPair, TypeInv, TypeOK, LoopBounds, InLoop, Heights
    <2>1. i \in 2..MaxHeight
      BY <2>0, PairBounds
    <2>2. PairTxs(i) \in Nat
      BY <2>1, PairTotal
    <2>3. MaximumTps <= Peak(PairTxs(i)) /\ Peak(PairTxs(i)) \in Nat
      BY <1>t, <2>2 DEF Peak
    <2>4. /\ pc = "pair" /\ Transactions' = Transactions /\ dbInfo' = dbInfo
          /\ MaximumTps' = Peak(PairTxs(i))
      BY <1>1 DEF ReadPair
    <2> QED BY <1>t, <2>3, <2>4 DEF MemoryAhead
  <1>2. CASE Finish
    BY <1>2, <1>t DEF Finish, MemoryAhead
  <1>3. CASE Save
    BY <1>3, <1>t DEF Save, SavedInfo, MemoryAhead
  <1>4. CASE Start
    BY <1>4, <1>t DEF Start, LoadedTotal, MemoryAhead
  <1>5. CASE IndexUpper \/ IndexLower
    <2>1. dbInfo' = dbInfo
      BY <1>5 DEF IndexUpper, IndexLower, IndexBlock, IndexBlockFails
    <2> QED BY <1>5, <2>1 DEF IndexUpper, IndexLower, MemoryAhead
  <1>6. CASE \/ Grow \/ LoadBlock \/ LoadBlockFails \/ LoadDone \/ Begin
             \/ ReadPairFails \/ SaveFails \/ Crash \/ UNCHANGED vars
    BY <1>6 DEF Grow, LoadBlock, LoadBlockFails, LoadDone, Begin, ReadPairFails,
                SaveFails, Crash, MemoryAhead
  <1> QED BY <1>1, <1>2, <1>3, <1>4, <1>5, <1>6 DEF Next, Load, Update

\* A round works at or below the height the kernel had when it began.
RoundBelow ==
    pc \in InLoop \cup {"save"} => currHeight <= height /\ Blocks <= height

LEMMA InitRoundBelow == Init => RoundBelow
  BY DEF Init, RoundBelow, InLoop

LEMMA NextRoundBelow == TypeInv /\ RoundBelow /\ [Next]_vars => RoundBelow'
  <1> SUFFICES ASSUME TypeInv, RoundBelow, [Next]_vars PROVE RoundBelow'
    OBVIOUS
  <1>t. height \in Nat /\ currHeight \in Nat /\ Blocks \in Nat
    BY HeightAssumption DEF TypeInv, TypeOK, Heights
  <1>1. CASE Grow \/ Begin \/ Finish
    BY <1>1, <1>t DEF Grow, Begin, Finish, AfterLoop, RoundBelow, InLoop
  <1>2. CASE \/ Start \/ LoadBlock \/ LoadBlockFails \/ LoadDone \/ Save
             \/ SaveFails \/ Crash
    BY <1>2 DEF Start, LoadBlock, LoadBlockFails, LoadDone, Save, SaveFails, Crash,
                RoundBelow, InLoop
  <1>3. CASE \/ ReadPair \/ ReadPairFails \/ IndexUpper \/ IndexLower
             \/ UNCHANGED vars
    BY <1>3 DEF ReadPair, ReadPairFails, IndexUpper, IndexLower, RoundBelow, InLoop
  <1> QED BY <1>1, <1>2, <1>3 DEF Next, Load, Update

\* Every step is a step of ChainIndex or leaves the database alone.
LEMMA NextRefines ==
    ASSUME TypeInv, Covering, KeptTotals, MemoryAhead, RoundBelow, [Next]_vars
    PROVE  [Promise!Next]_(Promise!vars)
  <1>t. /\ i \in 0..MaxHeight /\ height \in 0..MaxHeight
        /\ currHeight \in 0..MaxHeight
        /\ Blocks \in 0..MaxHeight /\ dbInfo.Blocks \in 0..MaxHeight
        /\ dbInfo.Transactions \in Nat /\ Transactions \in Nat
        /\ minHeight \in 0..MaxHeight
        /\ pc \in InLoop => i % 2 = 0 /\ i <= currHeight
    BY DEF TypeInv, TypeOK, LoopBounds, Heights, Info
  <1>n. i \in Nat /\ height \in Nat /\ Blocks \in Nat /\ currHeight \in Nat
        /\ minHeight \in Nat
    BY <1>t, HeightAssumption
  <1>k. ~rewound => Order /\ Totals
    BY DEF KeptTotals
  <1>e. \A h : Promise!Complete(h) = 1..Even(h) /\ Promise!Total(h) = TxsUpTo[Even(h)]
    BY DEF Promise!Complete, Promise!Total, Even
  <1>p. ASSUME pc \in InLoop, minHeight < i
        PROVE  /\ i \in 1..MaxHeight /\ i - 1 \in 1..MaxHeight
               /\ i \in Promise!Complete(height) /\ i - 1 \in Promise!Complete(height)
    <2>1. i \in 1..MaxHeight /\ i - 1 \in 1..MaxHeight
      BY <1>p, <1>t, <1>n, PairBounds
    <2>2. i <= height
      BY <1>p, <1>n, <1>t DEF RoundBelow, InLoop
    <2>3. i <= Even(height) /\ Even(height) \in Nat
      BY <1>p, <1>t, <1>n, <2>2, EvenBelow, EvenFacts
    <2>4. i \in 1..Even(height) /\ i - 1 \in 1..Even(height)
      BY <2>1, <2>3, <1>n
    <2> QED BY <2>1, <2>4, <1>e
  <1>i. ASSUME NEW h \in 1..MaxHeight, h \in Promise!Complete(height),
               IndexBlock(h) \/ IndexBlockFails(h), height' = height
        PROVE  [Promise!Next]_(Promise!vars)
    <2>1. CASE IndexBlock(h)
      <3>1. Promise!Index(h)
        BY <2>1, <1>i DEF IndexBlock, Promise!Index
      <3> QED BY <3>1 DEF Promise!Next
    <2>2. CASE IndexBlockFails(h)
      <3>1. (skipped \cup unindexed)' = (skipped \cup unindexed) \cup {h}
        BY <2>2 DEF IndexBlockFails
      <3>2. {h} \in SUBSET Promise!Complete(height)
        BY <1>i
      <3>3. Promise!GiveUp
        BY <2>2, <3>1, <3>2, <1>i DEF IndexBlockFails, Promise!GiveUp
      <3> QED BY <3>3 DEF Promise!Next
    <2> QED BY <1>i, <2>1, <2>2
  <1>1. CASE Grow
    <2>1. Promise!Grow
      BY <1>1 DEF Grow, Promise!Grow
    <2> QED BY <2>1 DEF Promise!Next
  <1>2. CASE ReadPairFails
    <2>1. /\ pc \in InLoop /\ minHeight < i /\ height' = height
          /\ UNCHANGED <<dbInfo, dbHashes, unindexed, rewound>>
          /\ skipped' = skipped \cup {i - 1, i}
      BY <1>2 DEF ReadPairFails, InLoop
    <2>2. {i - 1, i} \in SUBSET Promise!Complete(height)
      BY <2>1, <1>p
    <2>3. (skipped \cup unindexed)' = (skipped \cup unindexed) \cup {i - 1, i}
      BY <2>1
    <2>4. Promise!GiveUp
      BY <2>1, <2>2, <2>3 DEF Promise!GiveUp
    <2> QED BY <2>4 DEF Promise!Next
  <1>3. CASE IndexUpper
    <2>1. pc \in InLoop /\ minHeight < i
      BY <1>3 DEF IndexUpper, InLoop, TypeInv, LoopBounds
    <2>2. /\ IndexBlock(i) \/ IndexBlockFails(i)
          /\ height' = height
      BY <1>3 DEF IndexUpper
    <2> QED BY <1>i, <1>p, <2>1, <2>2
  <1>4. CASE IndexLower
    <2>1. pc \in InLoop /\ minHeight < i
      BY <1>4 DEF IndexLower, InLoop, TypeInv, LoopBounds
    <2>2. /\ IndexBlock(i - 1) \/ IndexBlockFails(i - 1)
          /\ height' = height
      BY <1>4 DEF IndexLower
    <2> QED BY <1>i, <1>p, <2>1, <2>2
  <1>5. CASE Save
    <2>1. /\ pc = "save" /\ dbInfo'.Blocks = Blocks
          /\ dbInfo'.Transactions = Transactions
          /\ UNCHANGED <<height, dbHashes, skipped, unindexed, rewound>>
      BY <1>5 DEF Save, SavedInfo
    <2>2. /\ Blocks <= height
          /\ ~rewound => dbInfo.Blocks <= Blocks
      BY <1>k, <2>1 DEF Order, RoundBelow
    <2>3. Promise!Complete(Blocks) \subseteq dbHashes \cup (skipped \cup unindexed)
      BY <1>e, <2>1 DEF Covering, CoveredTo, Accounted
    <2>4. ~rewound => Counted(Transactions, Blocks)
      BY <1>k, <2>1 DEF Totals, InLoop
    <2>5. dbInfo.Transactions <= Transactions
      BY <2>1 DEF MemoryAhead
    <2>6. TxsUpTo[Even(Blocks)] \in Nat
      BY <1>t, EvenHeight
    <2>7. ~rewound =>
             /\ Transactions <= Promise!Total(Blocks)
             /\ skipped \cup unindexed = {} => Transactions = Promise!Total(Blocks)
      BY <1>t, <1>e, <2>4, <2>6 DEF Counted
    <2>8. /\ dbInfo'.Transactions \in Nat
          /\ dbInfo.Transactions <= dbInfo'.Transactions
          /\ ~rewound => /\ dbInfo.Blocks <= Blocks
                         /\ dbInfo'.Transactions <= Promise!Total(Blocks)
                         /\ skipped \cup unindexed = {} =>
                                dbInfo'.Transactions = Promise!Total(Blocks)
      BY <1>t, <2>1, <2>2, <2>5, <2>7
    <2>9. UNCHANGED <<height, dbHashes, skipped \cup unindexed, rewound>>
      BY <2>1
    <2>10. Promise!Publish(Blocks)
      BY <2>1, <2>2, <2>3, <2>8, <2>9 DEF Promise!Publish
    <2> QED BY <1>t, <2>10 DEF Promise!Next
  <1>6. CASE Crash
    <2>1. /\ height' \in 0..height /\ rewound' = (rewound \/ height' < height)
          /\ UNCHANGED <<dbInfo, dbHashes, skipped, unindexed>>
      BY <1>6, <1>n DEF Crash
    <2>2. CASE height' < height
      <3>0. height' \in 0..(height - 1)
        BY <1>n, <2>1, <2>2
      <3>1. Promise!Recover
        BY <2>1, <2>2, <3>0 DEF Promise!Recover
      <3> QED BY <3>1 DEF Promise!Next
    <2>3. CASE ~(height' < height)
      <3>1. height' = height
        BY <1>n, <2>1, <2>3
      <3>2. rewound' = rewound
        BY <2>1, <2>3 DEF TypeInv, TypeOK
      <3> QED BY <2>1, <3>1, <3>2 DEF Promise!vars
    <2> QED BY <2>2, <2>3
  <1>7. CASE \/ Start \/ LoadBlock \/ LoadBlockFails \/ LoadDone \/ Begin
             \/ ReadPair \/ Finish \/ SaveFails \/ UNCHANGED vars
    BY <1>7 DEF Start, LoadBlock, LoadBlockFails, LoadDone, Begin, ReadPair,
                Finish, SaveFails, Promise!vars
  <1> QED BY <1>1, <1>2, <1>3, <1>4, <1>5, <1>6, <1>7 DEF Next, Load, Update

\* Rounds, failures, crashes and restarts are invisible in the database: its
\* history is one of ChainIndex, for every chain and every recovery.
THEOREM DatabaseKeepsPromise == Spec => KeepsPromise
  <1>1. TypeInv /\ Covering /\ KeptTotals /\ MemoryAhead /\ RoundBelow /\ [Next]_vars
            => [Promise!Next]_(Promise!vars)
    BY NextRefines
  <1> QED BY <1>1, InitRefines, InitTypeInv, NextTypeInv, InitCovering, NextCovering,
             InitKeptTotals, NextKeptTotals, InitMemoryAhead, NextMemoryAhead,
             InitRoundBelow, NextRoundBelow, PTL
          DEF Spec, KeepsPromise, Promise!Spec

\* A saved summary is never replaced by a smaller one, nor, while the kernel
\* keeps its blocks, by an older one.
THEOREM SummaryIsMonotone == Spec => SummaryNeverGoesBack
  <1> DEFINE Forward == /\ dbInfo.Transactions <= dbInfo'.Transactions
                        /\ dbInfo.MaximumTps <= dbInfo'.MaximumTps
                        /\ ~rewound => dbInfo.Blocks <= dbInfo'.Blocks
  <1>1. ASSUME TypeInv, KeptTotals, MemoryAhead, [Next]_vars
        PROVE  Forward
    <2>1. CASE Save
      BY <1>1, <2>1 DEF Save, SavedInfo, KeptTotals, Order, MemoryAhead
    <2>2. CASE ~Save
      <3>1. dbInfo' = dbInfo
        BY <1>1, <2>2 DEF Next, Load, Update, Grow, Start, LoadBlock,
           LoadBlockFails, LoadDone, Begin, ReadPair, ReadPairFails, IndexUpper,
           IndexLower, IndexBlock, IndexBlockFails, Finish, SaveFails, Crash
      <3>2. /\ dbInfo.Blocks \in Nat /\ dbInfo.Transactions \in Nat
            /\ dbInfo.MaximumTps \in Nat
        BY <1>1, HeightAssumption DEF TypeInv, TypeOK, Info, Heights
      <3> QED BY <3>1, <3>2
    <2> QED BY <2>1, <2>2
  <1>2. TypeInv /\ KeptTotals /\ MemoryAhead /\ [Next]_vars => [Forward]_vars
    BY <1>1
  <1> QED BY <1>2, InitTypeInv, NextTypeInv, InitKeptTotals, NextKeptTotals,
             InitMemoryAhead, NextMemoryAhead, PTL DEF Spec, SummaryNeverGoesBack
-----------------------------------------------------------------------------
(* A producer's count.  It is bounded by the blocks of its in the index, for *)
(* each of the lives before this one, plus those this life may have counted: *)
(* Passed, the blocks a round of this life does not come back to.            *)

Passed ==
    {h \in dbHashes :
        \/ /\ pc \in InLoop
           /\ h <= Even(currHeight)
           /\ h <= Even(minHeight) \/ h > i \/ (h = i /\ pc = "lower")
        \/ /\ pc \in {"load", "sleep", "save"}
           /\ h <= Even(Blocks) /\ h <= Even(height)}

PassedBy(f) == {h \in Passed : Formulator[h] = f}

CountBounds(f) ==
    /\ Cardinality(Produced(f)) <= dbFormulator[f]
    /\ dbFormulator[f] <= crashes * Cardinality(Produced(f))
                          + Cardinality(PassedBy(f))

\* The round's height is one the kernel had in this life.
Snapshot == pc \in InLoop => currHeight <= height

Counts == Snapshot /\ \A f \in Formulators : CountBounds(f)

\* Sets of blocks are finite, so subsets have no more elements.
LEMMA BlockSets ==
    ASSUME NEW S, NEW T, S \subseteq T, T \subseteq 1..MaxHeight
    PROVE  /\ Cardinality(S) \in Nat /\ Cardinality(T) \in Nat
           /\ Cardinality(S) <= Cardinality(T)
  <1>1. IsFiniteSet(1..MaxHeight)
    BY FS_Interval, HeightAssumption
  <1>2. IsFiniteSet(T)
    BY <1>1, FS_Subset
  <1>3. IsFiniteSet(S) /\ Cardinality(S) <= Cardinality(T)
    BY <1>2, FS_Subset
  <1> QED BY <1>2, <1>3, FS_CardinalityType

LEMMA TimesMonotone ==
    ASSUME NEW c \in Nat, NEW a \in Nat, NEW b \in Nat, a <= b
    PROVE  c * a \in Nat /\ c * b \in Nat /\ c * a <= c * b
  <1>1. PICK d \in Nat : b = a + d
    <2>1. b - a \in Nat /\ b = a + (b - a)
      OBVIOUS
    <2> QED BY <2>1
  <1>2. c * d \in Nat /\ c * a \in Nat
    OBVIOUS
  <1>3. c * b = c * a + c * d
    BY <1>1
  <1> QED BY <1>2, <1>3

\* Steps that leave the database alone can only move blocks into Passed.
LEMMA QuietStep ==
    ASSUME TypeInv, Counts, UNCHANGED <<dbHashes, dbFormulator, crashes>>,
           TypeInv', Passed \subseteq Passed', Snapshot'
    PROVE  Counts'
  <1> SUFFICES ASSUME NEW f \in Formulators PROVE CountBounds(f)'
    BY DEF Counts
  <1>1. Produced(f)' = Produced(f)
    BY DEF Produced
  <1>2. PassedBy(f) \subseteq PassedBy(f)' /\ PassedBy(f)' \subseteq 1..MaxHeight
    BY DEF PassedBy, Passed, TypeInv, TypeOK
  <1>3. /\ Cardinality(PassedBy(f)) \in Nat /\ Cardinality(PassedBy(f)') \in Nat
        /\ Cardinality(PassedBy(f)) <= Cardinality(PassedBy(f)')
    BY <1>2, BlockSets
  <1>4. Produced(f) \subseteq 1..MaxHeight
    BY DEF Produced, TypeInv, TypeOK
  <1>5. Cardinality(Produced(f)) \in Nat
    BY <1>4, BlockSets
  <1>6. crashes * Cardinality(Produced(f)) \in Nat
    BY <1>5 DEF TypeInv, TypeOK
  <1>7. dbFormulator[f] \in Nat
    BY DEF TypeInv, TypeOK
  <1> QED BY <1>1, <1>3, <1>5, <1>6, <1>7 DEF Counts, CountBounds

\* updateBlock of a block that is not in Passed yet and is from now on.
LEMMA IndexStep ==
    ASSUME TypeInv, Counts, NEW h \in 1..MaxHeight, IndexBlock(h),
           h \notin Passed, TypeInv', Passed \cup {h} \subseteq Passed', Snapshot'
    PROVE  Counts'
  <1> SUFFICES ASSUME NEW f \in Formulators PROVE CountBounds(f)'
    BY DEF Counts
  <1>0. /\ dbHashes' = dbHashes \cup {h} /\ crashes' = crashes
        /\ dbFormulator' = [dbFormulator EXCEPT ![Formulator[h]] =
                                dbFormulator[Formulator[h]] + 1]
        /\ dbFormulator \in [Formulators -> Nat] /\ crashes \in Nat
    <2>1. dbHashes' = dbHashes \cup {h} /\ crashes' = crashes
      BY DEF IndexBlock
    <2>2. dbFormulator' = [dbFormulator EXCEPT ![Formulator[h]] =
                               dbFormulator[Formulator[h]] + 1]
      BY DEF IndexBlock, ProducedBy
    <2>3. dbFormulator \in [Formulators -> Nat] /\ crashes \in Nat
      BY DEF TypeInv, TypeOK
    <2> QED BY <2>1, <2>2, <2>3
  <1>1. /\ Produced(f) \subseteq Produced(f)' /\ Produced(f)' \subseteq 1..MaxHeight
        /\ PassedBy(f) \subseteq PassedBy(f)' /\ PassedBy(f)' \subseteq 1..MaxHeight
    BY <1>0 DEF Produced, PassedBy, Passed, TypeInv, TypeOK
  <1>2. /\ Cardinality(Produced(f)) \in Nat /\ Cardinality(Produced(f)') \in Nat
        /\ Cardinality(Produced(f)) <= Cardinality(Produced(f)')
        /\ Cardinality(PassedBy(f)) \in Nat /\ Cardinality(PassedBy(f)') \in Nat
        /\ Cardinality(PassedBy(f)) <= Cardinality(PassedBy(f)')
    BY <1>1, BlockSets
  <1>3. /\ crashes * Cardinality(Produced(f)) \in Nat
        /\ crashes * Cardinality(Produced(f)') \in Nat
        /\ crashes * Cardinality(Produced(f)) <= crashes * Cardinality(Produced(f)')
    BY <1>0, <1>2, TimesMonotone
  <1>4. CountBounds(f) /\ dbFormulator[f] \in Nat
    BY <1>0 DEF Counts
  <1>5. CASE Formulator[h] # f
    <2>1. dbFormulator'[f] = dbFormulator[f]
      BY <1>0, <1>5
    <2>2. Produced(f)' = Produced(f)
      BY <1>0, <1>5 DEF Produced
    <2> QED BY <1>0, <1>2, <1>3, <1>4, <2>1, <2>2 DEF CountBounds
  <1>6. CASE Formulator[h] = f
    <2>1. dbFormulator'[f] = dbFormulator[f] + 1
      BY <1>0, <1>6
    <2>2. IsFiniteSet(Produced(f)) /\ IsFiniteSet(PassedBy(f))
      <3>1. IsFiniteSet(1..MaxHeight)
        BY FS_Interval, HeightAssumption
      <3>2. Produced(f) \subseteq 1..MaxHeight /\ PassedBy(f) \subseteq 1..MaxHeight
        BY <1>1
      <3> QED BY <3>1, <3>2, FS_Subset
    <2>3. Produced(f)' = Produced(f) \cup {h}
      BY <1>0, <1>6 DEF Produced
    <2>4. Cardinality(Produced(f)') <= Cardinality(Produced(f)) + 1
      <3>1. Cardinality(Produced(f) \cup {h}) =
                IF h \in Produced(f) THEN Cardinality(Produced(f))
                                     ELSE Cardinality(Produced(f)) + 1
        BY <2>2, FS_AddElement
      <3> QED BY <1>2, <2>3, <3>1
    <2>5. h \notin PassedBy(f) /\ PassedBy(f) \cup {h} \subseteq PassedBy(f)'
      BY <1>6, <1>1 DEF PassedBy
    <2>6. Cardinality(PassedBy(f) \cup {h}) = Cardinality(PassedBy(f)) + 1
      BY <2>2, <2>5, FS_AddElement
    <2>7. Cardinality(PassedBy(f) \cup {h}) <= Cardinality(PassedBy(f)')
      BY <2>5, <1>1, BlockSets
    <2> QED BY <1>0, <1>2, <1>3, <1>4, <2>1, <2>4, <2>6, <2>7 DEF CountBounds
  <1> QED BY <1>5, <1>6

LEMMA InitCounts == Init => Counts
  <1> SUFFICES ASSUME Init PROVE Counts
    OBVIOUS
  <1>1. Snapshot
    BY DEF Init, Snapshot, InLoop
  <1>2. ASSUME NEW f \in Formulators PROVE CountBounds(f)
    <2>1. Produced(f) = {} /\ PassedBy(f) = {} /\ dbFormulator[f] = 0 /\ crashes = 0
      BY DEF Init, Produced, PassedBy, Passed
    <2> QED BY <2>1, FS_EmptySet DEF CountBounds
  <1> QED BY <1>1, <1>2 DEF Counts
\* How the steps move Passed: the heights of the round decide it alone.
LEMMA NextCounts == TypeInv /\ Counts /\ [Next]_vars => Counts'
  <1> SUFFICES ASSUME TypeInv, Counts, [Next]_vars
               PROVE  Counts'
    OBVIOUS
  <1>y. TypeInv'
    BY NextTypeInv
  <1>t. /\ i \in 0..MaxHeight /\ currHeight \in 0..MaxHeight
        /\ minHeight \in 0..MaxHeight /\ Blocks \in 0..MaxHeight
        /\ height \in 0..MaxHeight /\ dbHashes \subseteq 1..MaxHeight
        /\ pc \in InLoop => i % 2 = 0 /\ i <= currHeight
        /\ pc \in {"upper", "lower"} => minHeight < i
        /\ pc \in InLoop => currHeight <= height
    BY DEF TypeInv, TypeOK, LoopBounds, Heights, Counts, Snapshot
  <1>n. /\ i \in Nat /\ currHeight \in Nat /\ minHeight \in Nat
        /\ Blocks \in Nat /\ height \in Nat /\ \A h \in dbHashes : h \in Nat
    BY <1>t, HeightAssumption
  <1>e. /\ Even(currHeight) \in Nat /\ Even(minHeight) \in Nat
        /\ Even(Blocks) \in Nat /\ Even(height) \in Nat
        /\ Even(minHeight) <= minHeight /\ Even(currHeight) <= currHeight
    BY <1>n, EvenFacts
  <1>1. CASE Grow
    <2>1. /\ height' = height + 1
          /\ UNCHANGED <<pc, Blocks, currHeight, minHeight, i, dbHashes,
                         dbFormulator, crashes>>
      BY <1>1 DEF Grow
    <2>2. Even(height) <= Even(height + 1) /\ Even(height + 1) \in Nat
      BY <1>n, EvenMonotone, EvenFacts
    <2>3. Passed \subseteq Passed'
      BY <2>1, <2>2, <1>n, <1>e DEF Passed
    <2>4. Snapshot'
      BY <2>1, <1>t, <1>n DEF Snapshot
    <2> QED BY <2>1, <2>3, <2>4, <1>y, QuietStep
  <1>2. CASE Start
    <2>1. /\ pc = "down" /\ pc' = "load"
          /\ UNCHANGED <<dbHashes, dbFormulator, crashes>>
      BY <1>2 DEF Start
    <2>2. Passed \subseteq Passed' /\ Snapshot'
      BY <2>1 DEF Passed, Snapshot, InLoop
    <2> QED BY <2>1, <2>2, <1>y, QuietStep
  <1>3. CASE LoadBlock \/ LoadBlockFails \/ LoadDone \/ SaveFails \/ Save
    <2>1. /\ pc \in {"load", "sleep", "save"} /\ pc' \in {"load", "sleep", "save"}
          /\ UNCHANGED <<Blocks, height, dbHashes, dbFormulator, crashes>>
      BY <1>3 DEF LoadBlock, LoadBlockFails, LoadDone, SaveFails, Save
    <2>2. Passed \subseteq Passed' /\ Snapshot'
      BY <2>1 DEF Passed, Snapshot, InLoop
    <2> QED BY <2>1, <2>2, <1>y, QuietStep
  <1>4. CASE Begin
    <2>1. /\ pc = "sleep" /\ pc' = "pair" /\ currHeight' = height
          /\ minHeight' = Blocks /\ height' = height
          /\ UNCHANGED <<dbHashes, dbFormulator, crashes>>
      BY <1>4 DEF Begin, Floor
    <2>2. Passed \subseteq Passed' /\ Snapshot'
      BY <2>1, <1>n DEF Passed, Snapshot, InLoop
    <2> QED BY <2>1, <2>2, <1>y, QuietStep
  <1>5. CASE ReadPairFails
    <2>1. /\ pc = "pair" /\ pc' = "pair" /\ i' = i - 2
          /\ UNCHANGED <<height, currHeight, minHeight, dbHashes, dbFormulator,
                         crashes>>
      BY <1>5 DEF ReadPairFails
    <2>2. Passed \subseteq Passed'
      BY <2>1, <1>n DEF Passed, InLoop
    <2>3. Snapshot'
      BY <2>1, <1>t DEF Snapshot, InLoop
    <2> QED BY <2>1, <2>2, <2>3, <1>y, QuietStep
  <1>6. CASE ReadPair
    <2>1. /\ pc = "pair" /\ pc' = "upper"
          /\ UNCHANGED <<height, currHeight, minHeight, i, dbHashes, dbFormulator,
                         crashes>>
      BY <1>6 DEF ReadPair
    <2>2. Passed \subseteq Passed' /\ Snapshot'
      BY <2>1, <1>t DEF Passed, Snapshot, InLoop
    <2> QED BY <2>1, <2>2, <1>y, QuietStep
  <1>7. CASE IndexUpper
    <2>1. /\ pc = "upper" /\ pc' = "lower"
          /\ UNCHANGED <<height, currHeight, minHeight, i>>
          /\ IndexBlock(i) \/ IndexBlockFails(i)
      BY <1>7 DEF IndexUpper
    <2>2. /\ minHeight < i /\ i \in 1..MaxHeight
          /\ i <= Even(currHeight)
      BY <2>1, <1>t, <1>n, EvenBelow DEF InLoop
    <2>3. Snapshot'
      BY <2>1, <1>t DEF Snapshot, InLoop
    <2>4. CASE IndexBlock(i)
      <3>1. dbHashes' = dbHashes \cup {i}
        BY <2>4 DEF IndexBlock
      <3>2. i \notin Passed
        BY <2>1, <2>2, <1>n, <1>e DEF Passed, InLoop
      <3>3. Passed \cup {i} \subseteq Passed'
        BY <2>1, <2>2, <3>1, <1>n DEF Passed, InLoop
      <3> QED BY <2>2, <2>3, <2>4, <3>2, <3>3, <1>y, IndexStep
    <2>5. CASE IndexBlockFails(i)
      <3>1. UNCHANGED <<dbHashes, dbFormulator, crashes>>
        BY <2>5 DEF IndexBlockFails
      <3>2. Passed \subseteq Passed'
        BY <2>1, <3>1 DEF Passed, InLoop
      <3> QED BY <2>3, <3>1, <3>2, <1>y, QuietStep
    <2> QED BY <2>1, <2>4, <2>5
  <1>8. CASE IndexLower
    <2>1. /\ pc = "lower" /\ pc' = "pair" /\ i' = i - 2
          /\ UNCHANGED <<height, currHeight, minHeight>>
          /\ IndexBlock(i - 1) \/ IndexBlockFails(i - 1)
      BY <1>8 DEF IndexLower
    <2>2. minHeight < i /\ i % 2 = 0
      BY <2>1, <1>t DEF InLoop
    <2>3. /\ i - 1 \in 1..MaxHeight /\ i <= Even(currHeight)
          /\ Even(minHeight) <= i - 2
      BY <2>1, <2>2, <1>t, <1>n, EvenBelow, PairBounds, EvenStep DEF InLoop
    <2>4. Snapshot'
      BY <2>1, <1>t DEF Snapshot, InLoop
    <2>5. CASE IndexBlock(i - 1)
      <3>1. dbHashes' = dbHashes \cup {i - 1}
        BY <2>5 DEF IndexBlock
      <3>2. i - 1 \notin Passed
        BY <2>1, <2>3, <1>n, <1>e DEF Passed, InLoop
      <3>3. Passed \cup {i - 1} \subseteq Passed'
        BY <2>1, <2>3, <3>1, <1>n, <1>e DEF Passed, InLoop
      <3> QED BY <2>3, <2>4, <2>5, <3>2, <3>3, <1>y, IndexStep
    <2>6. CASE IndexBlockFails(i - 1)
      <3>1. UNCHANGED <<dbHashes, dbFormulator, crashes>>
        BY <2>6 DEF IndexBlockFails
      <3>2. Passed \subseteq Passed'
        BY <2>1, <3>1, <1>n DEF Passed, InLoop
      <3> QED BY <2>4, <3>1, <3>2, <1>y, QuietStep
    <2> QED BY <2>1, <2>5, <2>6
  <1>9. CASE Finish
    <2>1. /\ pc = "pair" /\ pc' = "save" /\ Blocks' = currHeight
          /\ UNCHANGED <<height, dbHashes, dbFormulator, crashes>>
      BY <1>9 DEF Finish, AfterLoop
    <2>2. Even(currHeight) <= Even(height)
      BY <2>1, <1>t, <1>n, EvenMonotone DEF InLoop
    <2>3. Passed \subseteq Passed' /\ Snapshot'
      BY <2>1, <2>2, <1>n, <1>e DEF Passed, Snapshot, InLoop
    <2> QED BY <2>1, <2>3, <1>y, QuietStep
  <1>10. CASE Crash
    <2>1. /\ pc' = "down" /\ crashes' = crashes + 1
          /\ UNCHANGED <<dbHashes, dbFormulator>>
      BY <1>10 DEF Crash
    <2>2. Snapshot'
      BY <2>1 DEF Snapshot, InLoop
    <2>3. ASSUME NEW f \in Formulators PROVE CountBounds(f)'
      <3>1. Produced(f)' = Produced(f)
        BY <2>1 DEF Produced
      <3>2. /\ PassedBy(f) \subseteq Produced(f)
            /\ Produced(f) \subseteq 1..MaxHeight
        BY <1>t DEF PassedBy, Passed, Produced
      <3>3. /\ Cardinality(PassedBy(f)) \in Nat /\ Cardinality(Produced(f)) \in Nat
            /\ Cardinality(PassedBy(f)) <= Cardinality(Produced(f))
        BY <3>2, BlockSets
      <3>4. PassedBy(f)' = {}
        BY <2>1 DEF PassedBy, Passed, InLoop
      <3>5. Cardinality(PassedBy(f)') = 0
        BY <3>4, FS_EmptySet
      <3>6. crashes \in Nat /\ dbFormulator[f] \in Nat
        BY DEF TypeInv, TypeOK
      <3>7. (crashes + 1) * Cardinality(Produced(f)) =
                crashes * Cardinality(Produced(f)) + Cardinality(Produced(f))
        BY <3>3, <3>6
      <3>8. crashes * Cardinality(Produced(f)) \in Nat
        BY <3>3, <3>6
      <3>9. CountBounds(f)
        BY DEF Counts
      <3> QED BY <2>1, <3>1, <3>3, <3>5, <3>6, <3>7, <3>8, <3>9 DEF CountBounds
    <2> QED BY <2>2, <2>3 DEF Counts
  <1>11. CASE UNCHANGED vars
    <2>1. /\ UNCHANGED <<dbHashes, dbFormulator, crashes>>
          /\ Passed \subseteq Passed' /\ Snapshot'
      BY <1>11, <1>t DEF Passed, Snapshot
    <2> QED BY <2>1, <1>y, QuietStep
  <1> QED BY <1>1, <1>2, <1>3, <1>4, <1>5, <1>6, <1>7, <1>8, <1>9, <1>10, <1>11
          DEF Next, Load, Update

\* A producer's count is at least the number of its blocks in the index, and at
\* most that number once for every life of the process: a life counts a block at
\* most once, even after the kernel lost blocks and got them back.
THEOREM ProducersAreCounted == Spec => []ProducedCounted
  <1>1. ASSUME TypeInv, Counts, NEW f \in Formulators
        PROVE  /\ Cardinality(Produced(f)) <= dbFormulator[f]
               /\ dbFormulator[f] <= (crashes + 1) * Cardinality(Produced(f))
    <2>1. /\ PassedBy(f) \subseteq Produced(f)
          /\ Produced(f) \subseteq 1..MaxHeight
      BY <1>1 DEF PassedBy, Passed, Produced, TypeInv, TypeOK
    <2>2. /\ Cardinality(PassedBy(f)) \in Nat /\ Cardinality(Produced(f)) \in Nat
          /\ Cardinality(PassedBy(f)) <= Cardinality(Produced(f))
      BY <2>1, BlockSets
    <2>3. crashes \in Nat /\ dbFormulator[f] \in Nat
      BY <1>1 DEF TypeInv, TypeOK
    <2>4. /\ (crashes + 1) * Cardinality(Produced(f)) =
                 crashes * Cardinality(Produced(f)) + Cardinality(Produced(f))
          /\ crashes * Cardinality(Produced(f)) \in Nat
      BY <2>2, <2>3
    <2> QED BY <1>1, <2>2, <2>3, <2>4 DEF Counts, CountBounds
  <1>2. TypeInv /\ Counts => ProducedCounted
    BY <1>1 DEF ProducedCounted
  <1> QED BY <1>2, InitTypeInv, NextTypeInv, InitCounts, NextCounts, PTL DEF Spec

\* Until the first crash the two bounds meet: a producer's count is exact, and
\* BlockCountExact fails only in a later life of the process.
THEOREM FirstLifeCountsExactly == Spec => [](crashes = 0 => BlockCountExact)
  <1>1. TypeInv /\ ProducedCounted => (crashes = 0 => BlockCountExact)
    <2> SUFFICES ASSUME TypeInv, ProducedCounted, crashes = 0, NEW f \in Formulators
                 PROVE  dbFormulator[f] = Cardinality(Produced(f))
      BY DEF BlockCountExact
    <2>1. Produced(f) \subseteq 1..MaxHeight
      BY DEF Produced, TypeInv, TypeOK
    <2>2. Cardinality(Produced(f)) \in Nat /\ dbFormulator[f] \in Nat
      BY <2>1, BlockSets DEF TypeInv, TypeOK
    <2>3. /\ Cardinality(Produced(f)) <= dbFormulator[f]
          /\ dbFormulator[f] <= (0 + 1) * Cardinality(Produced(f))
      BY DEF ProducedCounted
    <2> QED BY <2>2, <2>3
  <1> QED BY <1>1, ProducersAreCounted, InitTypeInv, NextTypeInv, PTL DEF Spec

-----------------------------------------------------------------------------
(* The peak.  In a round it is at least every pair below the floor and every *)
(* pair the loop has read, in memory and, for the saved height, on disk.     *)

Over(n, h) == h \in skipped \/ PairTxs(h) <= n
Seen(n)    == n = 0 \/ \E h \in EvenHeights(MaxHeight) : n = PairTxs(h)

Peaks ==
    /\ \A h \in EvenHeights(dbInfo.Blocks) : Over(dbInfo.MaximumTps, h)
    /\ pc \in {"load", "sleep", "save"} =>
           \A h \in EvenHeights(Blocks) : Over(MaximumTps, h)
    /\ pc \in InLoop =>
           \A h \in EvenHeights(currHeight) :
               (h <= minHeight \/ h > i \/ (h = i /\ pc # "pair"))
                   => Over(MaximumTps, h)
    /\ Seen(dbInfo.MaximumTps) /\ Seen(MaximumTps)

LEMMA EvenHeightsFacts ==
    ASSUME NEW n \in 0..MaxHeight
    PROVE  \A h \in EvenHeights(n) :
               h \in 2..MaxHeight /\ h <= n /\ h % 2 = 0 /\ PairTxs(h) \in Nat
  <1> SUFFICES ASSUME NEW h \in EvenHeights(n)
               PROVE  h \in 2..MaxHeight /\ h <= n /\ h % 2 = 0 /\ PairTxs(h) \in Nat
    OBVIOUS
  <1>1. h \in 1..n /\ h % 2 = 0
    BY DEF EvenHeights
  <1>2. h \in 2..MaxHeight /\ h <= n
    BY <1>1, HeightAssumption
  <1> QED BY <1>1, <1>2, PairTotal

LEMMA InitPeaks == Init => Peaks
  <1> SUFFICES ASSUME Init PROVE Peaks
    OBVIOUS
  <1>1. EvenHeights(0) = {}
    BY DEF EvenHeights
  <1> QED BY <1>1 DEF Init, Peaks, Seen, ZeroInfo, InLoop

LEMMA NextPeaks == TypeInv /\ Peaks /\ [Next]_vars => Peaks'
  <1> SUFFICES ASSUME TypeInv, Peaks, [Next]_vars
               PROVE  Peaks'
    OBVIOUS
  <1>t. /\ i \in 0..MaxHeight /\ currHeight \in 0..MaxHeight
        /\ minHeight \in 0..MaxHeight /\ Blocks \in 0..MaxHeight
        /\ height \in 0..MaxHeight /\ dbInfo.Blocks \in 0..MaxHeight
        /\ MaximumTps \in Nat /\ dbInfo.MaximumTps \in Nat
        /\ pc \in InLoop => i % 2 = 0 /\ i <= currHeight
        /\ pc \in {"upper", "lower"} => minHeight < i
    BY DEF TypeInv, TypeOK, LoopBounds, Heights, Info
  <1>n. i \in Nat /\ currHeight \in Nat /\ minHeight \in Nat /\ height \in Nat
    BY <1>t, HeightAssumption
  <1>s. skipped \subseteq skipped'
    BY SkippedStays
  <1>1. CASE Grow \/ LoadBlock \/ LoadBlockFails \/ LoadDone \/ UNCHANGED vars
    BY <1>1 DEF Grow, LoadBlock, LoadBlockFails, LoadDone, ClearLocals, Peaks, Over,
                Seen, InLoop
  <1>2. CASE Start
    BY <1>2 DEF Start, Peaks, Over, Seen, InLoop
  <1>3. CASE Begin
    <2>1. /\ pc = "sleep" /\ pc' = "pair" /\ currHeight' = height
          /\ minHeight' = Blocks /\ i' = Even(height)
          /\ UNCHANGED <<dbInfo, MaximumTps, skipped>>
      BY <1>3 DEF Begin, Floor, TopPair
    <2>2. ASSUME NEW h \in EvenHeights(height), h <= Blocks \/ h > Even(height)
          PROVE  Over(MaximumTps, h)
      <3>1. h \in Nat /\ h \in 1..MaxHeight /\ h <= height /\ h % 2 = 0
        BY <1>t, EvenHeightsFacts, HeightAssumption
      <3>2. h <= Even(height) /\ Even(height) \in Nat
        BY <1>n, <3>1, EvenBelow, EvenFacts
      <3>3. h <= Blocks
        BY <2>2, <3>1, <3>2
      <3>4. h \in EvenHeights(Blocks)
        BY <1>t, <3>1, <3>3 DEF EvenHeights
      <3> QED BY <2>1, <3>4 DEF Peaks
    <2>3. \A h \in EvenHeights(height) :
              (h <= Blocks \/ h > Even(height)) => Over(MaximumTps, h)
      BY <2>2
    <2> QED BY <2>1, <2>3 DEF Peaks, Over, Seen, InLoop
  <1>4. CASE ReadPairFails
    <2>1. /\ pc = "pair" /\ pc' = "pair" /\ i' = i - 2
          /\ skipped' = skipped \cup {i - 1, i}
          /\ UNCHANGED <<dbInfo, MaximumTps, currHeight, minHeight>>
      BY <1>4 DEF ReadPairFails
    <2>2. ASSUME NEW h \in EvenHeights(currHeight), h <= minHeight \/ h > i - 2
          PROVE  Over(MaximumTps, h)'
      <3>1. h \in Nat /\ h % 2 = 0
        BY <1>t, EvenHeightsFacts, HeightAssumption
      <3>2. CASE h = i
        BY <2>1, <3>2 DEF Over
      <3>3. CASE h # i
        <4>1. h <= minHeight \/ h > i
          BY <2>1, <2>2, <3>1, <3>3, <1>t, <1>n DEF InLoop
        <4>2. Over(MaximumTps, h)
          BY <2>1, <4>1 DEF Peaks, InLoop
        <4> QED BY <2>1, <4>2 DEF Over
      <3> QED BY <3>2, <3>3
    <2>3. \A h \in EvenHeights(currHeight) :
              (h <= minHeight \/ h > i - 2) => Over(MaximumTps, h)'
      BY <2>2
    <2> QED BY <2>1, <2>3 DEF Peaks, Over, Seen, InLoop
  <1>5. CASE ReadPair
    <2>1. /\ pc = "pair" /\ pc' = "upper" /\ minHeight < i
          /\ MaximumTps' = Peak(PairTxs(i))
          /\ UNCHANGED <<dbInfo, currHeight, minHeight, i, skipped>>
      BY <1>5 DEF ReadPair
    <2>2. i \in 2..MaxHeight /\ i % 2 = 0
      BY <2>1, <1>t, <1>n, PairBounds DEF InLoop
    <2>3. PairTxs(i) \in Nat
      BY <2>2, PairTotal
    <2>4. /\ MaximumTps' \in Nat /\ MaximumTps <= MaximumTps'
          /\ PairTxs(i) <= MaximumTps'
          /\ MaximumTps' = MaximumTps \/ MaximumTps' = PairTxs(i)
      BY <1>t, <2>1, <2>3 DEF Peak
    <2>5. Seen(MaximumTps)'
      <3>1. i \in EvenHeights(MaxHeight)
        BY <2>2, HeightAssumption DEF EvenHeights
      <3>2. (\E h \in EvenHeights(MaxHeight) : MaximumTps' = PairTxs(h))
                \/ MaximumTps' = MaximumTps
        BY <2>4, <3>1
      <3> QED BY <3>2 DEF Peaks, Seen
    <2>6. ASSUME NEW h \in EvenHeights(currHeight), h <= minHeight \/ h > i \/ h = i
          PROVE  Over(MaximumTps, h)'
      <3>1. h \in Nat /\ PairTxs(h) \in Nat
        BY <1>t, EvenHeightsFacts, HeightAssumption
      <3>2. CASE h = i
        BY <2>4, <3>2 DEF Over
      <3>3. CASE h # i
        <4>1. Over(MaximumTps, h)
          BY <2>1, <2>6, <3>3 DEF Peaks, InLoop
        <4> QED BY <1>t, <2>1, <2>4, <3>1, <4>1 DEF Over
      <3> QED BY <3>2, <3>3
    <2>7. \A h \in EvenHeights(currHeight) :
              (h <= minHeight \/ h > i \/ h = i) => Over(MaximumTps, h)'
      BY <2>6
    <2> QED BY <2>1, <2>5, <2>7 DEF Peaks, Over, Seen, InLoop
  <1>6. CASE IndexUpper
    <2>1. /\ pc = "upper" /\ pc' = "lower"
          /\ UNCHANGED <<dbInfo, MaximumTps, currHeight, minHeight, i, skipped>>
      BY <1>6 DEF IndexUpper, IndexBlock, IndexBlockFails
    <2> QED BY <2>1 DEF Peaks, Over, Seen, InLoop
  <1>7. CASE IndexLower
    <2>1. /\ pc = "lower" /\ pc' = "pair" /\ i' = i - 2
          /\ UNCHANGED <<dbInfo, MaximumTps, currHeight, minHeight, skipped>>
      BY <1>7 DEF IndexLower, IndexBlock, IndexBlockFails
    <2>2. ASSUME NEW h \in EvenHeights(currHeight), h <= minHeight \/ h > i - 2
          PROVE  Over(MaximumTps, h)
      <3>1. h \in Nat /\ h % 2 = 0
        BY <1>t, EvenHeightsFacts, HeightAssumption
      <3>2. h <= minHeight \/ h > i \/ h = i
        BY <2>1, <2>2, <3>1, <1>t, <1>n DEF InLoop
      <3> QED BY <2>1, <3>2 DEF Peaks, InLoop
    <2>3. \A h \in EvenHeights(currHeight) :
              (h <= minHeight \/ h > i - 2) => Over(MaximumTps, h)
      BY <2>2
    <2> QED BY <2>1, <2>3 DEF Peaks, Over, Seen, InLoop
  <1>8. CASE Finish
    <2>1. /\ pc = "pair" /\ pc' = "save" /\ Blocks' = currHeight /\ i <= minHeight
          /\ UNCHANGED <<dbInfo, MaximumTps, skipped>>
      BY <1>8 DEF Finish, AfterLoop
    <2>2. \A h \in EvenHeights(currHeight) : h \in Nat
      BY <1>t, EvenHeightsFacts, HeightAssumption
    <2>3. \A h \in EvenHeights(currHeight) : Over(MaximumTps, h)
      BY <1>n, <2>1, <2>2 DEF Peaks, InLoop
    <2> QED BY <2>1, <2>3 DEF Peaks, Over, Seen, InLoop
  <1>9. CASE Save
    BY <1>9 DEF Save, SavedInfo, Peaks, Over, Seen, InLoop
  <1>10. CASE SaveFails
    BY <1>10 DEF SaveFails, Peaks, Over, Seen, InLoop
  <1>11. CASE Crash
    BY <1>11 DEF Crash, Peaks, Over, Seen, InLoop
  <1> QED BY <1>1, <1>2, <1>3, <1>4, <1>5, <1>6, <1>7, <1>8, <1>9, <1>10, <1>11
          DEF Next, Load, Update

\* The saved peak is the count of a pair of the chain, and no pair at or below the
\* saved height that was read is above it.
THEOREM PeakIsThePeak == Spec => []PeakIsMaximum
  <1>1. Peaks => PeakIsMaximum
    BY DEF Peaks, Over, Seen, PeakIsMaximum
  <1> QED BY <1>1, InitTypeInv, NextTypeInv, InitPeaks, NextPeaks, PTL DEF Spec
-----------------------------------------------------------------------------
(* The total after recoveries.  What the lives before this one left is Base;   *)
(* this one adds the pairs at or below its height, once.                       *)

Base == crashes * TxsUpTo[MaxHeight]

\* What a life that has come to height h, of a chain of height top, has counted;
\* a height above the chain is a saved one, from before a recovery.
InLife(n, h, top) == n <= Base + (IF h <= top THEN TxsUpTo[Even(h)] ELSE 0)

CountBelow(h) == currentTransactions <= TxsUpTo[Even(currHeight)] - TxsUpTo[h]

LifeTotals ==
    /\ dbInfo.Transactions <= Base + TxsUpTo[MaxHeight]
    /\ pc = "down" => dbInfo.Transactions <= Base
    /\ pc \in {"load", "sleep", "save"} => InLife(Transactions, Blocks, height)
    /\ pc \in InLoop =>
           /\ InLife(Transactions, minHeight, currHeight)
           /\ currHeight <= height
           /\ minHeight <= currHeight => Even(minHeight) <= i
    /\ pc = "pair" => CountBelow(i)
    /\ pc \in {"upper", "lower"} => CountBelow(i - 2)

LEMMA NextProduct ==
    ASSUME NEW c \in Nat, NEW t \in Nat
    PROVE  c * t \in Nat /\ (c + 1) * t = c * t + t /\ 0 * t = 0
  OBVIOUS

LEMMA BaseType ==
    ASSUME TypeInv
    PROVE  Base \in Nat /\ TxsUpTo[MaxHeight] \in Nat
  <1>1. crashes \in Nat /\ TxsUpTo[MaxHeight] \in Nat
    BY HeightAssumption, ChainAssumption DEF TypeInv, TypeOK
  <1> QED BY <1>1, NextProduct DEF Base

LEMMA InitLifeTotals == Init => LifeTotals
  <1> SUFFICES ASSUME Init PROVE LifeTotals
    OBVIOUS
  <1>1. TxsUpTo[MaxHeight] \in Nat /\ TxsUpTo[0] = 0 /\ Even(0) = 0 /\ height \in Nat
    BY HeightAssumption, ChainAssumption, InitAssumption DEF Even, Init
  <1>2. Base = 0
    BY <1>1, NextProduct DEF Init, Base
  <1> QED BY <1>1, <1>2 DEF Init, ZeroInfo, LifeTotals, InLife, InLoop

\* A step that leaves the lives before alone.
LEMMA SameBase == UNCHANGED crashes => Base' = Base
  BY DEF Base

LEMMA LoopLifeTotals ==
    ASSUME TypeInv, LifeTotals,
           ReadPair \/ ReadPairFails \/ IndexUpper \/ IndexLower
    PROVE  LifeTotals'
  <1>t. /\ i \in 0..MaxHeight /\ i \in Nat /\ currHeight \in 0..MaxHeight
        /\ minHeight \in Nat /\ currentTransactions \in Nat
        /\ Transactions \in Nat /\ pc \in InLoop /\ i % 2 = 0 /\ minHeight < i
    BY HeightAssumption DEF ReadPair, ReadPairFails, IndexUpper, IndexLower,
       TypeInv, TypeOK, LoopBounds, Heights, InLoop
  <1>1. /\ i \in 2..MaxHeight /\ i - 2 \in 0..MaxHeight /\ Even(minHeight) <= i - 2
    BY <1>t, PairBounds, EvenStep
  <1>2. /\ TxsUpTo[i - 2] \in Nat /\ TxsUpTo[i] \in Nat
        /\ TxsUpTo[i - 2] <= TxsUpTo[i]
        /\ PairTxs(i) = TxsUpTo[i] - TxsUpTo[i - 2]
        /\ TxsUpTo[Even(currHeight)] \in Nat
    <2>1. i - 2 <= i /\ i \in 0..MaxHeight
      BY <1>1, <1>t
    <2> QED BY <1>1, <1>t, <2>1, TotalsMonotone, PairTotal, EvenHeight
  <1>3. /\ UNCHANGED <<height, Blocks, Transactions, minHeight, currHeight,
                       dbInfo, crashes>>
        /\ pc' \in InLoop
    BY DEF ReadPair, ReadPairFails, IndexUpper, IndexLower, IndexBlock,
           IndexBlockFails, InLoop
  <1>4. /\ dbInfo'.Transactions <= Base' + TxsUpTo[MaxHeight]
        /\ InLife(Transactions, minHeight, currHeight)'
        /\ currHeight' <= height'
    BY <1>t, <1>3, SameBase DEF LifeTotals, InLife
  <1>5. i' \in {i, i - 2}
    BY DEF ReadPair, ReadPairFails, IndexUpper, IndexLower
  <1>5a. i - 2 \in Nat /\ i - 2 <= i
    BY <1>1, <1>t
  <1>5b. Even(minHeight) \in Nat
    BY <1>t, EvenFacts
  <1>5c. Even(minHeight) <= i'
    BY <1>1, <1>t, <1>5, <1>5a, <1>5b
  <1>6. CASE ReadPair
    <2>1. /\ CountBelow(i) /\ pc' = "upper" /\ i' = i
          /\ currentTransactions' = currentTransactions + PairTxs(i)
      BY <1>6 DEF ReadPair, LifeTotals
    <2>2. CountBelow(i - 2)'
      BY <1>t, <1>2, <1>3, <2>1 DEF CountBelow
    <2> QED BY <1>3, <1>4, <1>5c, <2>1, <2>2 DEF LifeTotals, InLoop
  <1>7. CASE ReadPairFails
    <2>1. /\ CountBelow(i) /\ pc' = "pair" /\ i' = i - 2
          /\ currentTransactions' = currentTransactions
      BY <1>7 DEF ReadPairFails, LifeTotals
    <2>2. CountBelow(i - 2)
      BY <1>t, <1>2, <2>1 DEF CountBelow
    <2>3. CountBelow(i)'
      BY <1>3, <2>1, <2>2 DEF CountBelow
    <2> QED BY <1>3, <1>4, <1>5c, <2>1, <2>3 DEF LifeTotals, InLoop
  <1>8. CASE IndexUpper
    <2>1. /\ CountBelow(i - 2) /\ pc' = "lower" /\ i' = i
          /\ currentTransactions' = currentTransactions
      BY <1>8 DEF IndexUpper, LifeTotals
    <2>2. CountBelow(i - 2)'
      BY <1>3, <2>1 DEF CountBelow
    <2> QED BY <1>3, <1>4, <1>5c, <2>1, <2>2 DEF LifeTotals, InLoop
  <1>9. CASE IndexLower
    <2>1. /\ CountBelow(i - 2) /\ pc' = "pair" /\ i' = i - 2
          /\ currentTransactions' = currentTransactions
      BY <1>9 DEF IndexLower, LifeTotals
    <2>2. CountBelow(i)'
      BY <1>3, <2>1 DEF CountBelow
    <2> QED BY <1>3, <1>4, <1>5c, <2>1, <2>2 DEF LifeTotals, InLoop
  <1> QED BY <1>6, <1>7, <1>8, <1>9

LEMMA FinishLifeTotals ==
    ASSUME TypeInv, LifeTotals, Finish
    PROVE  LifeTotals'
  <1>t. /\ i \in 0..MaxHeight /\ i \in Nat /\ currHeight \in 0..MaxHeight
        /\ minHeight \in 0..MaxHeight /\ minHeight \in Nat /\ currHeight \in Nat
        /\ currentTransactions \in Nat /\ Transactions \in Nat /\ i % 2 = 0
        /\ height \in Nat
    BY HeightAssumption DEF Finish, TypeInv, TypeOK, LoopBounds, Heights, InLoop
  <1>1. /\ pc = "pair" /\ pc' = "save" /\ i <= minHeight /\ Blocks' = currHeight
        /\ Transactions' = Transactions + currentTransactions
        /\ UNCHANGED <<height, dbInfo, crashes>>
    BY DEF Finish, AfterLoop
  <1>2. /\ InLife(Transactions, minHeight, currHeight) /\ currHeight <= height
        /\ minHeight <= currHeight => Even(minHeight) <= i
        /\ CountBelow(i)
    BY <1>1 DEF LifeTotals, InLoop
  <1>3. TxsUpTo[i] \in Nat /\ TxsUpTo[Even(currHeight)] \in Nat /\ Base \in Nat
    BY <1>t, EvenHeight, ChainAssumption, BaseType
  <1>4. Transactions + currentTransactions <= Base + TxsUpTo[Even(currHeight)]
    <2>1. CASE minHeight <= currHeight
      <3>1. i <= Even(minHeight) /\ Even(minHeight) \in Nat
        BY <1>t, <1>1, EvenBelow, EvenFacts
      <3>2. i = Even(minHeight)
        BY <1>t, <1>2, <2>1, <3>1
      <3> QED BY <1>t, <1>2, <1>3, <2>1, <3>2 DEF InLife, CountBelow
    <2>2. CASE ~(minHeight <= currHeight)
      BY <1>t, <1>2, <1>3, <2>2 DEF InLife, CountBelow
    <2> QED BY <2>1, <2>2
  <1>5. InLife(Transactions, Blocks, height)'
    BY <1>1, <1>2, <1>4, SameBase DEF InLife
  <1> QED BY <1>1, <1>5, SameBase DEF LifeTotals, InLoop

LEMMA NextLifeTotals == TypeInv /\ LifeTotals /\ [Next]_vars => LifeTotals'
  <1> SUFFICES ASSUME TypeInv, LifeTotals, [Next]_vars PROVE LifeTotals'
    OBVIOUS
  <1>t. /\ height \in 0..MaxHeight /\ Blocks \in 0..MaxHeight
        /\ dbInfo.Blocks \in 0..MaxHeight
        /\ height \in Nat /\ Blocks \in Nat /\ dbInfo.Blocks \in Nat
        /\ Transactions \in Nat /\ dbInfo.Transactions \in Nat /\ crashes \in Nat
    BY HeightAssumption DEF TypeInv, TypeOK, Heights, Info
  <1>b. Base \in Nat /\ TxsUpTo[MaxHeight] \in Nat
    BY BaseType
  <1>c. \A h \in 0..MaxHeight : TxsUpTo[Even(h)] \in Nat /\ TxsUpTo[Even(h)] <= TxsUpTo[MaxHeight]
    <2> SUFFICES ASSUME NEW h \in 0..MaxHeight
                 PROVE  TxsUpTo[Even(h)] \in Nat /\ TxsUpTo[Even(h)] <= TxsUpTo[MaxHeight]
      OBVIOUS
    <2>1. Even(h) \in 0..MaxHeight /\ MaxHeight \in 0..MaxHeight
      BY EvenHeight, HeightAssumption
    <2> QED BY <2>1, TotalsMonotone
  <1>1. CASE Grow
    <2>1. /\ height' = height + 1
          /\ UNCHANGED <<pc, i, Blocks, Transactions, currentTransactions, currHeight,
                         minHeight, dbInfo, crashes>>
      BY <1>1 DEF Grow
    <2>2. InLife(Transactions, Blocks, height) => InLife(Transactions, Blocks, height)'
      BY <1>t, <1>b, <1>c, <2>1, SameBase DEF InLife
    <2>3. pc \in InLoop => currHeight' <= height'
      <3>1. currHeight \in Nat
        BY HeightAssumption DEF TypeInv, TypeOK, Heights
      <3> QED BY <1>t, <2>1, <3>1 DEF LifeTotals
    <2>4. \A n, h, top : InLife(n, h, top)' <=> InLife(n, h, top)'
      OBVIOUS
    <2>5. InLife(Transactions, minHeight, currHeight) =>
              InLife(Transactions, minHeight, currHeight)'
      BY <2>1, SameBase DEF InLife
    <2>6. /\ CountBelow(i) => CountBelow(i)'
          /\ CountBelow(i - 2) => CountBelow(i - 2)'
      BY <2>1 DEF CountBelow
    <2> QED BY <2>1, <2>2, <2>3, <2>5, <2>6, SameBase DEF LifeTotals
  <1>2. CASE Start
    <2>1. /\ pc = "down" /\ pc' = "load" /\ Transactions' = dbInfo.Transactions
          /\ Blocks' = dbInfo.Blocks /\ UNCHANGED <<height, dbInfo, crashes>>
      BY <1>2 DEF Start, LoadedTotal
    <2>2. InLife(Transactions, Blocks, height)'
      BY <1>t, <1>b, <1>c, <2>1, SameBase DEF LifeTotals, InLife
    <2> QED BY <2>1, <2>2, SameBase DEF LifeTotals, InLoop
  <1>3. CASE LoadBlock \/ LoadBlockFails \/ LoadDone
    <2>1. /\ pc = "load" /\ pc' \in {"load", "sleep"}
          /\ UNCHANGED <<height, Blocks, Transactions, dbInfo, crashes>>
      BY <1>3 DEF LoadBlock, LoadBlockFails, LoadDone
    <2>2. InLife(Transactions, Blocks, height)'
      BY <2>1, SameBase DEF LifeTotals, InLife
    <2> QED BY <2>1, <2>2, SameBase DEF LifeTotals, InLoop
  <1>4. CASE Begin
    <2>1. /\ pc = "sleep" /\ pc' = "pair" /\ currentTransactions' = 0
          /\ currHeight' = height /\ i' = Even(height) /\ minHeight' = Blocks
          /\ UNCHANGED <<height, dbInfo, Transactions, crashes>>
      BY <1>4 DEF Begin, FirstCount, Floor, TopPair
    <2>2. InLife(Transactions, minHeight, currHeight)'
      BY <2>1, SameBase DEF LifeTotals, InLife
    <2>3. Blocks <= height => Even(Blocks) <= Even(height)
      BY <1>t, EvenMonotone
    <2>4. CountBelow(i)'
      <3>1. Even(height) % 2 = 0 /\ Even(height) \in Nat
        BY <1>t, EvenFacts
      <3> QED BY <1>t, <1>c, <2>1 DEF CountBelow
    <2> QED BY <1>t, <2>1, <2>2, <2>3, <2>4, SameBase DEF LifeTotals, InLoop
  <1>5. CASE ReadPair \/ ReadPairFails \/ IndexUpper \/ IndexLower
    BY <1>5, LoopLifeTotals
  <1>6. CASE Finish
    BY <1>6, FinishLifeTotals
  <1>7. CASE Save
    <2>1. /\ pc = "save" /\ pc' = "sleep" /\ dbInfo'.Transactions = Transactions
          /\ UNCHANGED <<height, Blocks, Transactions, crashes>>
      BY <1>7 DEF Save, SavedInfo
    <2>2. InLife(Transactions, Blocks, height)
      BY <2>1 DEF LifeTotals
    <2>3. Transactions <= Base + TxsUpTo[MaxHeight]
      BY <1>t, <1>b, <1>c, <2>2 DEF InLife
    <2>4. InLife(Transactions, Blocks, height)'
      BY <2>1, <2>2, SameBase DEF InLife
    <2> QED BY <2>1, <2>3, <2>4, SameBase DEF LifeTotals, InLoop
  <1>8. CASE SaveFails
    <2>1. /\ pc = "save" /\ pc' = "sleep"
          /\ UNCHANGED <<height, Blocks, Transactions, dbInfo, crashes>>
      BY <1>8 DEF SaveFails
    <2>2. InLife(Transactions, Blocks, height)'
      BY <2>1, SameBase DEF LifeTotals, InLife
    <2> QED BY <2>1, <2>2, SameBase DEF LifeTotals, InLoop
  <1>9. CASE Crash
    <2>1. pc' = "down" /\ crashes' = crashes + 1 /\ dbInfo' = dbInfo
      BY <1>9 DEF Crash
    <2>2. Base' = Base + TxsUpTo[MaxHeight]
      BY <1>t, <1>b, <2>1, NextProduct DEF Base
    <2> QED BY <1>t, <1>b, <2>1, <2>2 DEF LifeTotals, InLoop
  <1>10. CASE UNCHANGED vars
    BY <1>10, SameBase DEF LifeTotals, InLife, CountBelow
  <1> QED BY <1>1, <1>2, <1>3, <1>4, <1>5, <1>6, <1>7, <1>8, <1>9, <1>10
          DEF Next, Load, Update

\* Even over recoveries that lose blocks, the saved total exceeds that of the whole
\* chain by no more than once for every crash: the extent of RecoveredTotal's
\* violation.
THEOREM TotalIsBounded == Spec => []TotalBounded
  <1>1. ASSUME TypeInv, LifeTotals PROVE TotalBounded
    <2>1. crashes \in Nat /\ TxsUpTo[MaxHeight] \in Nat
      BY <1>1, BaseType DEF TypeInv, TypeOK
    <2>2. (crashes + 1) * TxsUpTo[MaxHeight] = Base + TxsUpTo[MaxHeight]
      BY <2>1, NextProduct DEF Base
    <2> QED BY <1>1, <2>2 DEF LifeTotals, TotalBounded
  <1>2. TypeInv /\ LifeTotals => TotalBounded
    BY <1>1
  <1> QED BY <1>2, InitTypeInv, NextTypeInv, InitLifeTotals, NextLifeTotals, PTL
          DEF Spec

-----------------------------------------------------------------------------
(* The end of a round.  The measure is a number, and goes down. *)

LEMMA RemainingIs ==
    ASSUME TypeInv
    PROVE  /\ i \in Nat /\ i \div 2 \in Nat
           /\ pc \in InLoop /\ minHeight < i =>
                  i - 2 \in Nat /\ (i - 2) \div 2 = (i \div 2) - 1
  BY HeightAssumption, PairBounds DEF TypeInv, TypeOK, LoopBounds, Heights

\* Steps of the updater and of the constructor lower it.
LEMMA StepRemaining ==
    ASSUME TypeInv, Load \/ Update
    PROVE  pc = "sleep" \/ Remaining' < Remaining
  <1> DEFINE pairs == i \div 2
  <1>t. /\ i \in Nat /\ pairs \in Nat
        /\ pc \in InLoop /\ minHeight < i => (i - 2) \div 2 = pairs - 1
    BY RemainingIs
  <1>1. CASE LoadBlock \/ LoadBlockFails
    <2>1. pc = "load" /\ pc' = "load" /\ i' = i - 1
      BY <1>1 DEF LoadBlock, LoadBlockFails
    <2>2. Remaining = i + 1 /\ Remaining' = i' + 1
      BY <2>1 DEF Remaining
    <2> QED BY <1>t, <2>1, <2>2
  <1>2. CASE LoadDone
    <2>1. Remaining = i + 1 /\ Remaining' = 0
      BY <1>2 DEF LoadDone, Remaining
    <2> QED BY <1>t, <2>1
  <1>3. CASE Begin
    BY <1>3 DEF Begin
  <1>4. CASE ReadPair
    <2>1. pc = "pair" /\ pc' = "upper" /\ i' = i
      BY <1>4 DEF ReadPair
    <2>2. Remaining = 3 * pairs + 2 /\ Remaining' = 3 * pairs + 1
      BY <2>1 DEF Remaining
    <2> HIDE DEF pairs
    <2> QED BY <1>t, <2>2
  <1>5. CASE ReadPairFails
    <2>1. pc = "pair" /\ pc' = "pair" /\ i' = i - 2 /\ minHeight < i
      BY <1>5, <1>t, HeightAssumption DEF ReadPairFails, TypeInv, TypeOK, Heights
    <2>2. Remaining = 3 * pairs + 2 /\ Remaining' = 3 * (i' \div 2) + 2
      BY <2>1 DEF Remaining
    <2>3. i' \div 2 = pairs - 1
      BY <1>t, <2>1 DEF InLoop
    <2> HIDE DEF pairs
    <2> QED BY <1>t, <2>2, <2>3
  <1>6. CASE IndexUpper
    <2>1. pc = "upper" /\ pc' = "lower" /\ i' = i
      BY <1>6 DEF IndexUpper, locals
    <2>2. Remaining = 3 * pairs + 1 /\ Remaining' = 3 * pairs
      BY <2>1 DEF Remaining
    <2> HIDE DEF pairs
    <2> QED BY <1>t, <2>2
  <1>7. CASE IndexLower
    <2>1. pc = "lower" /\ pc' = "pair" /\ i' = i - 2
      BY <1>7 DEF IndexLower
    <2>2. minHeight < i
      BY <2>1 DEF TypeInv, LoopBounds
    <2>3. Remaining = 3 * pairs /\ Remaining' = 3 * (i' \div 2) + 2
      BY <2>1 DEF Remaining
    <2>4. i' \div 2 = pairs - 1
      BY <1>t, <2>1, <2>2 DEF InLoop
    <2> HIDE DEF pairs
    <2> QED BY <1>t, <2>3, <2>4
  <1>8. CASE Finish
    <2>1. pc = "pair" /\ pc' = "save"
      BY <1>8 DEF Finish, AfterLoop
    <2>2. Remaining = 3 * pairs + 2 /\ Remaining' = 1
      BY <2>1 DEF Remaining
    <2> HIDE DEF pairs
    <2> QED BY <1>t, <2>2
  <1>9. CASE Save \/ SaveFails
    <2>1. pc = "save" /\ pc' = "sleep"
      BY <1>9 DEF Save, SaveFails
    <2>2. Remaining = 1 /\ Remaining' = 0
      BY <2>1 DEF Remaining
    <2> QED BY <2>2
  <1> QED BY <1>1, <1>2, <1>3, <1>4, <1>5, <1>6, <1>7, <1>8, <1>9
          DEF Load, Update

\* Every step of a round or of the constructor's walk, failed reads and commits
\* included, brings its end nearer, whatever the chain does in between: no run of
\* the loop goes on for ever.  That the end is then reached is a matter of
\* fairness, and of the runs.
THEOREM RoundsComeToAnEnd == Spec => RoundsEnd
  <1>1. Grow => Remaining' = Remaining
    <2>1. Grow => pc' = pc /\ i' = i
      BY DEF Grow, locals
    <2> QED BY <2>1 DEF Remaining
  <1>2. ASSUME TypeInv
        PROVE  Load \/ Update => pc = "sleep" \/ Remaining' < Remaining
    BY <1>2, StepRemaining
  <1>3. TypeInv => /\ Load \/ Update => pc = "sleep" \/ Remaining' < Remaining
                   /\ Grow => Remaining' = Remaining
    BY <1>1, <1>2
  <1> QED BY <1>3, InitTypeInv, NextTypeInv, PTL DEF Spec, RoundsEnd
=============================================================================
