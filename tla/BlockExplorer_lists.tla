------------------------ MODULE BlockExplorer_lists -------------------------
(***************************************************************************)
(* Proofs about the two lists the explorer keeps in memory, the chart and  *)
(* the transaction feed, for every chain, caps and number of faults and    *)
(* crashes: the chart is in order, the feed has nothing more than twice,   *)
(* and the feed of the first process is complete.                          *)
(***************************************************************************)
EXTENDS BlockExplorer_proofs

USE DEF vars, summary, lists, locals, db, history

-----------------------------------------------------------------------------
(* Sequences that are put together and cut. *)

\* A sequence that begins as s does and goes on as t does.
Joins(r, s, t) ==
    /\ Len(r) <= Len(s) + Len(t)
    /\ \A k \in 1..Len(r) : k <= Len(s) => k \in 1..Len(s) /\ r[k] = s[k]
    /\ \A k \in 1..Len(r) : k > Len(s) =>
           k - Len(s) \in 1..Len(t) /\ r[k] = t[k - Len(s)]

LEMMA ConcatJoins ==
    ASSUME NEW S, NEW s \in Seq(S), NEW t \in Seq(S)
    PROVE  /\ s \o t \in Seq(S) /\ Len(s \o t) = Len(s) + Len(t)
           /\ Joins(s \o t, s, t)
  <1>1. /\ s \o t \in Seq(S) /\ Len(s \o t) = Len(s) + Len(t)
        /\ Len(s) \in Nat /\ Len(t) \in Nat
    OBVIOUS
  <1>2. \A k \in 1..(Len(s) + Len(t)) :
            (s \o t)[k] = IF k <= Len(s) THEN s[k] ELSE t[k - Len(s)]
    OBVIOUS
  <1> QED BY <1>1, <1>2 DEF Joins

LEMMA FirstOfJoins ==
    ASSUME NEW S, NEW s \in Seq(S), NEW t \in Seq(S), NEW n \in Nat
    PROVE  /\ FirstOf(s \o t, n) \in Seq(S)
           /\ Joins(FirstOf(s \o t, n), s, t)
           /\ Len(FirstOf(s \o t, n)) = IF Len(s) + Len(t) < n THEN Len(s) + Len(t) ELSE n
  <1> DEFINE st == s \o t
  <1>1. /\ st \in Seq(S) /\ Len(st) = Len(s) + Len(t) /\ Joins(st, s, t)
        /\ Len(s) \in Nat /\ Len(t) \in Nat
    BY ConcatJoins
  <1> HIDE DEF st
  <1>2. PICK m \in 0..Len(st) : m = IF Len(st) < n THEN Len(st) ELSE n
    BY <1>1
  <1>3. /\ SubSeq(st, 1, m) \in Seq(S) /\ Len(SubSeq(st, 1, m)) = m
        /\ \A k \in 1..m : SubSeq(st, 1, m)[k] = st[k]
    BY <1>1, <1>2
  <1>4. FirstOf(st, n) = SubSeq(st, 1, m)
    BY <1>2 DEF FirstOf
  <1>5. Joins(SubSeq(st, 1, m), s, t)
    BY <1>1, <1>2, <1>3 DEF Joins
  <1> QED BY <1>1, <1>2, <1>3, <1>4, <1>5 DEF st

LEMMA PutInFrontJoins ==
    ASSUME NEW S, NEW new \in Seq(S), NEW old \in Seq(S)
    PROVE  /\ PutInFront(new, old) \in Seq(S)
           /\ Joins(PutInFront(new, old), new, old)
           /\ Len(PutInFront(new, old)) =
                  IF new = <<>> \/ Len(new) + Len(old) < ListCap
                  THEN Len(new) + Len(old) ELSE ListCap
  <1>1. CASE new = <<>>
    <2>1. Len(new) = 0 /\ Len(old) \in Nat /\ PutInFront(new, old) = old
      BY <1>1 DEF PutInFront
    <2> QED BY <1>1, <2>1 DEF Joins
  <1>2. CASE new # <<>>
    <2>1. PutInFront(new, old) = FirstOf(new \o old, ListCap) /\ ListCap \in Nat
      BY <1>2, CapAssumption DEF PutInFront
    <2>2. /\ FirstOf(new \o old, ListCap) \in Seq(S)
          /\ Joins(FirstOf(new \o old, ListCap), new, old)
          /\ Len(FirstOf(new \o old, ListCap)) =
                 IF Len(new) + Len(old) < ListCap THEN Len(new) + Len(old) ELSE ListCap
      BY <2>1, FirstOfJoins
    <2>3. PutInFront(new, old) = FirstOf(new \o old, ListCap)
      BY <2>1
    <2> QED BY <1>2, <2>2, <2>3
  <1> QED BY <1>1, <1>2

-----------------------------------------------------------------------------
(* Heights the lists may hold.  Rounds go on above what the lists have: Old are *)
(* heights a round before may have brought in, New those this round has.        *)

Old(h) ==
    /\ h <= Even(height)
    /\ pc \notin InLoop => h <= Even(Blocks)
    /\ pc \in InLoop => h <= Even(minHeight) /\ h <= Even(currHeight)

\* The height the round is down to.
Low == IF pc \in {"upper", "lower"} THEN i - 2 ELSE i

New(h) == Even(minHeight) < h /\ Low < h /\ h <= Even(currHeight)

LEMMA Heights0 ==
    ASSUME TypeInv
    PROVE  /\ height \in Nat /\ Blocks \in Nat /\ currHeight \in Nat /\ minHeight \in Nat
           /\ i \in Nat
           /\ Even(height) \in Nat /\ Even(Blocks) \in Nat
           /\ Even(currHeight) \in Nat /\ Even(minHeight) \in Nat
  <1>1. /\ height \in Nat /\ Blocks \in Nat /\ currHeight \in Nat /\ minHeight \in Nat
        /\ i \in Nat
    BY HeightAssumption DEF TypeInv, TypeOK, Heights
  <1> QED BY <1>1, EvenFacts

\* What is old stays so until a crash, which empties the lists.
LEMMA OldStays ==
    ASSUME TypeInv, RoundBelow, [Next]_vars, ~Crash, pc # "down", NEW h \in Nat, Old(h)
    PROVE  Old(h)'
  <1>t. /\ height \in Nat /\ Blocks \in Nat /\ currHeight \in Nat /\ minHeight \in Nat
        /\ Even(height) \in Nat /\ Even(Blocks) \in Nat
        /\ Even(currHeight) \in Nat /\ Even(minHeight) \in Nat
    BY Heights0
  <1>1. CASE Grow
    <2>1. /\ height' = height + 1 /\ pc' = pc /\ Blocks' = Blocks
          /\ currHeight' = currHeight /\ minHeight' = minHeight
      BY <1>1 DEF Grow
    <2>2. Even(height) <= Even(height + 1) /\ Even(height + 1) \in Nat
      BY <1>t, EvenMonotone, EvenFacts
    <2> QED BY <1>t, <2>1, <2>2 DEF Old
  <1>2. CASE Begin
    <2>1. /\ height' = height /\ pc = "sleep" /\ pc' = "pair" /\ currHeight' = height
          /\ minHeight' = Blocks
      BY <1>2 DEF Begin, Floor
    <2> QED BY <2>1 DEF Old, InLoop
  <1>3. CASE Finish
    <2>1. /\ height' = height /\ pc = "pair" /\ pc' = "save" /\ Blocks' = currHeight
      BY <1>3 DEF Finish, AfterLoop
    <2> QED BY <2>1 DEF Old, InLoop
  <1>4. CASE LoadBlock \/ LoadBlockFails \/ LoadDone \/ Save \/ SaveFails
    BY <1>4 DEF LoadBlock, LoadBlockFails, LoadDone, Save, SaveFails, Old, InLoop
  <1>5. CASE ReadPair \/ ReadPairFails \/ IndexUpper \/ IndexLower \/ UNCHANGED vars
    BY <1>5 DEF ReadPair, ReadPairFails, IndexUpper, IndexLower, Old, InLoop
  <1>6. ~Start
    BY DEF Start
  <1> QED BY <1>1, <1>2, <1>3, <1>4, <1>5, <1>6 DEF Next, Load, Update

\* What is new is not old, and is old once the round is over.
LEMMA NewFacts ==
    ASSUME TypeInv, RoundBelow, NEW h \in Nat, New(h), pc \in InLoop
    PROVE  /\ ~Old(h)
           /\ Finish => Old(h)'
  <1>t. /\ height \in Nat /\ currHeight \in Nat /\ currHeight <= height
        /\ Even(currHeight) <= Even(height)
        /\ Even(height) \in Nat /\ Even(currHeight) \in Nat /\ Even(minHeight) \in Nat
    BY Heights0, EvenMonotone DEF RoundBelow
  <1>1. ~Old(h)
    BY <1>t DEF Old, New
  <1>2. ASSUME Finish PROVE Old(h)'
    <2>1. /\ height' = height /\ pc' = "save" /\ Blocks' = currHeight
      BY <1>2 DEF Finish, AfterLoop
    <2> QED BY <1>t, <2>1 DEF Old, New, InLoop
  <1> QED BY <1>1, <1>2

\* A round brings in heights from the top down.
LEMMA NewStays ==
    ASSUME TypeInv, NEW h \in Nat, New(h), pc \in InLoop,
           ReadPair \/ ReadPairFails \/ IndexUpper \/ IndexLower \/ Grow \/ UNCHANGED vars
    PROVE  New(h)'
  <1>t. i \in Nat /\ minHeight' = minHeight /\ currHeight' = currHeight
    BY Heights0 DEF ReadPair, ReadPairFails, IndexUpper, IndexLower, Grow
  <1>1. Low' <= Low
    BY <1>t DEF ReadPair, ReadPairFails, IndexUpper, IndexLower, Grow, Low, InLoop
  <1>2. Low \in Int /\ Low' \in Int
    BY <1>t DEF ReadPair, ReadPairFails, IndexUpper, IndexLower, Grow, Low, InLoop
  <1> QED BY <1>t, <1>1, <1>2 DEF New

\* The two heights of the pair a round reads are new, and below all it has.
LEMMA PairIsNew ==
    ASSUME TypeInv, ReadPair
    PROVE  /\ i \in 2..MaxHeight /\ i - 1 \in 1..MaxHeight
           /\ New(i)' /\ New(i - 1)'
           /\ \A h \in Nat : New(h) => h > i
  <1>t. /\ pc = "pair" /\ pc' = "upper" /\ i' = i /\ minHeight' = minHeight
        /\ currHeight' = currHeight /\ minHeight < i /\ i % 2 = 0 /\ i <= currHeight
    BY DEF ReadPair, TypeInv, LoopBounds, InLoop
  <1>h. /\ i \in Nat /\ minHeight \in Nat /\ currHeight \in Nat
        /\ Even(currHeight) \in Nat /\ Even(minHeight) \in Nat /\ i \in 0..MaxHeight
    BY Heights0 DEF TypeInv, TypeOK, Heights
  <1>1. Even(minHeight) <= i - 2 /\ i <= Even(currHeight)
    BY <1>t, <1>h, EvenStep, EvenBelow
  <1>2. i \in 2..MaxHeight /\ i - 1 \in 1..MaxHeight
    BY <1>t, <1>h, PairBounds
  <1>3. /\ Even(minHeight') = Even(minHeight) /\ Even(currHeight') = Even(currHeight)
        /\ Low' = i - 2 /\ Low = i
    BY <1>t DEF Low
  <1>4. New(i)' /\ New(i - 1)'
    BY <1>t, <1>h, <1>1, <1>3 DEF New
  <1> QED BY <1>2, <1>3, <1>4 DEF New

-----------------------------------------------------------------------------
(* The chart: points run back in time, those of the running round on top.    *)

Point(p)   == p.Count = PairTxs(p.Time)
Falling(s) == \A j, k \in 1..Len(s) : j < k => s[j].Time > s[k].Time

ChartInv ==
    /\ Falling(transactionCountList) /\ Falling(newTxCountInfos)
    /\ \A k \in 1..Len(transactionCountList) :
           Point(transactionCountList[k]) /\ Old(transactionCountList[k].Time)
    /\ \A k \in 1..Len(newTxCountInfos) :
           /\ Point(newTxCountInfos[k])
           /\ pc \in InLoop => New(newTxCountInfos[k].Time)
    /\ pc \in {"down", "load"} => transactionCountList = <<>>
    /\ pc \notin InLoop \cup {"save"} => newTxCountInfos = <<>>

LEMMA ChartTypes ==
    ASSUME TypeInv
    PROVE  /\ transactionCountList \in Seq(ChartRow) /\ newTxCountInfos \in Seq(ChartRow)
           /\ Len(transactionCountList) \in Nat /\ Len(newTxCountInfos) \in Nat
           /\ \A k \in 1..Len(transactionCountList) : transactionCountList[k].Time \in Nat
           /\ \A k \in 1..Len(newTxCountInfos) : newTxCountInfos[k].Time \in Nat
  <1>1. /\ transactionCountList \in Seq(ChartRow) /\ newTxCountInfos \in Seq(ChartRow)
    BY DEF TypeInv, TypeOK
  <1>2. \A p \in ChartRow : p.Time \in Nat
    BY HeightAssumption DEF ChartRow
  <1> QED BY <1>1, <1>2

LEMMA InitChart == Init => ChartInv
  BY DEF Init, ChartInv, Falling, InLoop

LEMMA NextChart == TypeInv /\ RoundBelow /\ ChartInv /\ [Next]_vars => ChartInv'
  <1> SUFFICES ASSUME TypeInv, RoundBelow, ChartInv, [Next]_vars
               PROVE  ChartInv'
    OBVIOUS
  <1>p. PICK chart, new : chart = transactionCountList /\ new = newTxCountInfos
    OBVIOUS
  <1>t. /\ chart \in Seq(ChartRow) /\ new \in Seq(ChartRow)
        /\ Len(chart) \in Nat /\ Len(new) \in Nat
        /\ \A k \in 1..Len(chart) : chart[k].Time \in Nat
        /\ \A k \in 1..Len(new) : new[k].Time \in Nat
    BY <1>p, ChartTypes
  <1>c. /\ Falling(chart) /\ Falling(new)
        /\ \A k \in 1..Len(chart) : Point(chart[k]) /\ Old(chart[k].Time)
        /\ \A k \in 1..Len(new) : Point(new[k]) /\ (pc \in InLoop => New(new[k].Time))
        /\ pc \in {"down", "load"} => chart = <<>>
        /\ pc \notin InLoop \cup {"save"} => new = <<>>
    BY <1>p DEF ChartInv
  <1>o. ~Crash /\ pc # "down" => \A k \in 1..Len(chart) : Old(chart[k].Time)'
    BY <1>t, <1>c, OldStays
  <1>1. CASE Crash \/ Start
    <2>1. /\ transactionCountList' = <<>> /\ newTxCountInfos' = <<>>
          /\ pc' \in {"down", "load"}
      BY <1>p, <1>1, <1>c DEF Crash, Start, ClearLocals, InLoop
    <2> QED BY <2>1 DEF ChartInv, Falling, InLoop
  <1>2. CASE \/ LoadBlock \/ LoadBlockFails \/ LoadDone \/ Begin \/ Save \/ SaveFails
    <2>1. /\ transactionCountList' = chart /\ newTxCountInfos' = <<>>
          /\ pc' \in {"load", "sleep", "pair"} /\ pc # "down" /\ ~Crash
          /\ pc' = "load" => pc = "load"
      BY <1>p, <1>2, <1>c DEF LoadBlock, LoadBlockFails, LoadDone, Begin, Save, SaveFails,
                        ClearLocals, Crash, InLoop
    <2> QED BY <2>1, <1>c, <1>o DEF ChartInv, Falling, Point, InLoop
  <1>3. CASE \/ ReadPairFails \/ IndexUpper \/ IndexLower \/ Grow \/ UNCHANGED vars
    <2>1. /\ transactionCountList' = chart /\ newTxCountInfos' = new
          /\ pc \in InLoop <=> pc' \in InLoop
          /\ pc \notin InLoop => pc' = pc
          /\ Crash => pc' = "down" /\ pc # "down"
      BY <1>p, <1>3 DEF ReadPairFails, IndexUpper, IndexLower, Grow, InLoop, Crash
    <2>2. ~Crash
      BY <1>3, <2>1 DEF ReadPairFails, IndexUpper, IndexLower, Grow, Crash
    <2>3. pc' \in InLoop => \A k \in 1..Len(new) : New(new[k].Time)'
      BY <1>3, <2>1, <1>c, <1>t, NewStays
    <2>4. \A k \in 1..Len(chart) : Old(chart[k].Time)'
      <3>1. CASE pc = "down"
        BY <3>1, <1>c
      <3>2. CASE pc # "down"
        BY <3>2, <2>2, <1>o
      <3> QED BY <3>1, <3>2
    <2> QED BY <2>1, <2>3, <2>4, <1>c DEF ChartInv, Falling, Point, InLoop
  <1>4. CASE ReadPair
    <2>1. /\ transactionCountList' = chart /\ pc \in InLoop /\ pc' = "upper" /\ pc # "down"
          /\ ~Crash
      BY <1>p, <1>4 DEF ReadPair, InLoop, Crash
    <2>2. /\ i \in 2..MaxHeight /\ New(i)' /\ \A h \in Nat : New(h) => h > i
      BY <1>4, PairIsNew
    <2>3. \A k \in 1..Len(new) : New(new[k].Time)' /\ new[k].Time > i
      BY <1>4, <2>1, <2>2, <1>c, <1>t, NewStays
    <2>p. PICK more : more = newTxCountInfos'
      OBVIOUS
    <2>4. Falling(more) /\ \A k \in 1..Len(more) :
              Point(more[k]) /\ New(more[k].Time)'
      <3>1. CASE more = new
        BY <3>1, <2>3, <1>c DEF Falling, Point
      <3>2. CASE more = Append(new, [Time |-> i, Count |-> PairTxs(i)])
        <4>p. PICK p : p = [Time |-> i, Count |-> PairTxs(i)]
          OBVIOUS
        <4>1. /\ Len(more) = Len(new) + 1
              /\ \A k \in 1..Len(new) : more[k] = new[k]
              /\ more[Len(new) + 1] = p
          BY <3>2, <4>p, <1>t
        <4>2. p.Time = i /\ Point(p) /\ New(p.Time)'
          <5>1. p.Time = i /\ p.Count = PairTxs(i) /\ i' = i
            BY <4>p, <1>4 DEF ReadPair
          <5> QED BY <5>1, <2>2 DEF Point
        <4>3. \A k \in 1..(Len(new) + 1) : k \in 1..Len(new) \/ k = Len(new) + 1
          BY <1>t
        <4>4. \A j, k \in 1..(Len(new) + 1) : j < k =>
                  more[j].Time > more[k].Time
          <5> SUFFICES ASSUME NEW j \in 1..(Len(new) + 1), NEW k \in 1..(Len(new) + 1), j < k
                       PROVE  more[j].Time > more[k].Time
            OBVIOUS
          <5>1. j \in 1..Len(new)
            BY <1>t
          <5>2. CASE k \in 1..Len(new)
            BY <5>1, <5>2, <4>1, <1>c DEF Falling
          <5>3. CASE k = Len(new) + 1
            BY <5>1, <5>3, <4>1, <4>2, <2>3
          <5> QED BY <5>2, <5>3, <4>3
        <4>5. \A k \in 1..(Len(new) + 1) :
                  Point(more[k]) /\ New(more[k].Time)'
          BY <4>1, <4>2, <4>3, <2>2, <2>3, <1>c
        <4> QED BY <4>1, <4>4, <4>5 DEF Falling
      <3> QED BY <1>p, <2>p, <3>1, <3>2, <1>4 DEF ReadPair
    <2> QED BY <2>1, <2>p, <2>4, <1>c, <1>o DEF ChartInv, Falling, Point, InLoop
  <1>5. CASE Finish
    <2>1. /\ transactionCountList' = PutInFront(new, chart) /\ newTxCountInfos' = new
          /\ pc = "pair" /\ pc' = "save" /\ pc \in InLoop /\ pc' \notin InLoop
          /\ pc # "down" /\ ~Crash
      BY <1>p, <1>5 DEF Finish, AfterLoop, InLoop, Crash
    <2>p. PICK r : r = PutInFront(new, chart)
      OBVIOUS
    <2>2. /\ r \in Seq(ChartRow) /\ Joins(r, new, chart)
      BY <1>t, <2>p, PutInFrontJoins
    <2>3. Len(r) \in Nat
      BY <2>2
    <2>4. /\ \A k \in 1..Len(r) : k <= Len(new) => k \in 1..Len(new) /\ r[k] = new[k]
          /\ \A k \in 1..Len(r) : k > Len(new) =>
                 k - Len(new) \in 1..Len(chart) /\ r[k] = chart[k - Len(new)]
      BY <2>2 DEF Joins
    <2>5. \A k \in 1..Len(new) : /\ Point(new[k]) /\ Old(new[k].Time)'
                                 /\ \A j \in 1..Len(chart) : new[k].Time > chart[j].Time
      <3>1. \A k \in 1..Len(new) : New(new[k].Time) /\ Old(new[k].Time)'
        BY <1>5, <1>t, <1>c, <2>1, NewFacts
      <3>2. \A k \in 1..Len(new), j \in 1..Len(chart) : new[k].Time > chart[j].Time
        <4>1. /\ \A k \in 1..Len(new) : Even(minHeight) < new[k].Time
              /\ \A j \in 1..Len(chart) : chart[j].Time <= Even(minHeight)
              /\ Even(minHeight) \in Nat
          BY <1>c, <2>1, <3>1, Heights0 DEF Old, New
        <4> QED BY <4>1, <1>t
      <3> QED BY <3>1, <3>2, <1>c
    <2>6. \A k \in 1..Len(r) : Point(r[k]) /\ Old(r[k].Time)'
      <3> SUFFICES ASSUME NEW k \in 1..Len(r) PROVE Point(r[k]) /\ Old(r[k].Time)'
        OBVIOUS
      <3>1. CASE k <= Len(new)
        BY <3>1, <2>4, <2>5
      <3>2. CASE k > Len(new)
        BY <3>2, <2>1, <2>4, <1>c, <1>o
      <3> QED BY <1>t, <3>1, <3>2
    <2>7. Falling(r)
      <3> SUFFICES ASSUME NEW j \in 1..Len(r), NEW k \in 1..Len(r), j < k
                   PROVE  r[j].Time > r[k].Time
        BY DEF Falling
      <3>1. CASE k <= Len(new)
        <4>1. j <= Len(new)
          BY <3>1, <1>t
        <4> QED BY <3>1, <4>1, <2>4, <1>c DEF Falling
      <3>2. CASE j <= Len(new) /\ k > Len(new)
        BY <3>2, <2>4, <2>5
      <3>3. CASE j > Len(new)
        <4>1. k > Len(new) /\ j - Len(new) < k - Len(new)
          BY <3>3, <1>t
        <4> QED BY <3>3, <4>1, <2>4, <1>c DEF Falling
      <3> QED BY <1>t, <3>1, <3>2, <3>3
    <2>8. transactionCountList' = r
      BY <2>1, <2>p
    <2>9. \A k \in 1..Len(new) : Point(new[k])
      BY <2>5
    <2> QED BY <2>1, <2>6, <2>7, <2>8, <2>9, <1>c DEF ChartInv, Falling, Point, InLoop
  <1> QED BY <1>1, <1>2, <1>3, <1>4, <1>5 DEF Next, Load, Update

\* However often the explorer restarts, and whatever a recovery took, a round puts
\* in front of the chart what is later than all of it.
THEOREM ChartRunsBack == Spec => []ChartDescending
  <1>1. ASSUME TypeInv, ChartInv PROVE ChartDescending
    <2>1. DOMAIN transactionCountList = 1..Len(transactionCountList)
      BY <1>1, ChartTypes
    <2> QED BY <1>1, <2>1 DEF ChartInv, ChartDescending, Falling, Point
  <1>2. Spec => [](TypeInv /\ RoundBelow /\ ChartInv)
    BY InitTypeInv, NextTypeInv, InitRoundBelow, NextRoundBelow, InitChart, NextChart,
       PTL DEF Spec
  <1> QED BY <1>1, <1>2, PTL
-----------------------------------------------------------------------------
(* The feed: the rows each step adds.                                        *)

LEMMA FeedTypes ==
    ASSUME TypeInv
    PROVE  /\ lastestTransactionList \in Seq(FeedRow) /\ newTxs \in Seq(FeedRow)
           /\ Len(lastestTransactionList) \in Nat /\ Len(newTxs) \in Nat
           /\ \A k \in 1..Len(lastestTransactionList) :
                  lastestTransactionList[k].TxHash \in (1..MaxHeight) \X (Nat \ {0})
           /\ \A k \in 1..Len(newTxs) : newTxs[k].TxHash \in (1..MaxHeight) \X (Nat \ {0})
  <1>1. lastestTransactionList \in Seq(FeedRow) /\ newTxs \in Seq(FeedRow)
    BY DEF TypeInv, TypeOK
  <1>2. \A p \in FeedRow : p.TxHash \in (1..MaxHeight) \X (Nat \ {0})
    BY DEF FeedRow
  <1> QED BY <1>1, <1>2

LEMMA BlockRows ==
    ASSUME NEW h \in 1..MaxHeight, NEW b \in 1..MaxHeight
    PROVE  /\ BlockTxs(h, b) \in Seq(FeedRow) /\ Len(BlockTxs(h, b)) = Txs(h) /\ Txs(h) \in Nat
           /\ \A k \in 1..Txs(h) : BlockTxs(h, b)[k].TxHash = <<h, k>>
  <1>1. Txs(h) \in Nat /\ BlockTxs(h, b) \in Seq(FeedRow)
    BY TxsType, BlockTxsType
  <1>2. DOMAIN BlockTxs(h, b) = 1..Txs(h)
    BY DEF BlockTxs
  <1>3. Len(BlockTxs(h, b)) = Txs(h)
    BY <1>1, <1>2
  <1>4. \A k \in 1..Txs(h) : BlockTxs(h, b)[k].TxHash = <<h, k>>
    BY DEF BlockTxs
  <1> QED BY <1>1, <1>3, <1>4

\* A pair puts its rows behind those of the round, the upper block's first.
LEMMA RoundRows ==
    ASSUME TypeInv, ReadPair, NEW old, NEW new, old = newTxs, new = newTxs'
    PROVE  /\ Txs(i) \in Nat /\ Txs(i - 1) \in Nat /\ new \in Seq(FeedRow)
           /\ Len(new) \in Nat
           /\ Len(new) = IF Len(old) + Txs(i) + Txs(i - 1) < ListCap + 1
                         THEN Len(old) + Txs(i) + Txs(i - 1) ELSE ListCap + 1
           /\ \A k \in 1..Len(new) :
                  /\ k <= Len(old) => k \in 1..Len(old) /\ new[k] = old[k]
                  /\ Len(old) < k /\ k <= Len(old) + Txs(i) =>
                         new[k].TxHash = <<i, k - Len(old)>>
                  /\ Len(old) + Txs(i) < k =>
                         new[k].TxHash = <<i - 1, k - Len(old) - Txs(i)>>
  <1>1. /\ i \in 1..MaxHeight /\ i - 1 \in 1..MaxHeight
    BY PairIsNew, HeightAssumption
  <1>p. PICK up, low : up = BlockTxs(i, i) /\ low = BlockTxs(i - 1, i)
    OBVIOUS
  <1>2. /\ old \in Seq(FeedRow) /\ Len(old) \in Nat
        /\ up \in Seq(FeedRow) /\ low \in Seq(FeedRow)
        /\ Len(up) = Txs(i) /\ Len(low) = Txs(i - 1) /\ Txs(i) \in Nat /\ Txs(i - 1) \in Nat
        /\ \A k \in 1..Len(up) : up[k].TxHash = <<i, k>>
        /\ \A k \in 1..Len(low) : low[k].TxHash = <<i - 1, k>>
    BY <1>1, <1>p, FeedTypes, BlockRows
  <1>3. PICK mid \in Seq(FeedRow) : /\ mid = old \o up
                                    /\ Len(mid) = Len(old) + Len(up) /\ Joins(mid, old, up)
    BY <1>2, ConcatJoins
  <1>4. new = FirstOf(mid \o low, ListCap + 1) /\ ListCap + 1 \in Nat
    BY <1>p, <1>3, CapAssumption DEF ReadPair
  <1>5. /\ new \in Seq(FeedRow) /\ Joins(new, mid, low)
        /\ Len(new) = IF Len(mid) + Len(low) < ListCap + 1
                      THEN Len(mid) + Len(low) ELSE ListCap + 1
    <2>1. /\ FirstOf(mid \o low, ListCap + 1) \in Seq(FeedRow)
          /\ Joins(FirstOf(mid \o low, ListCap + 1), mid, low)
          /\ Len(FirstOf(mid \o low, ListCap + 1)) =
                 IF Len(mid) + Len(low) < ListCap + 1
                 THEN Len(mid) + Len(low) ELSE ListCap + 1
      BY ONLY <1>2, <1>3, <1>4, FirstOfJoins
    <2> QED BY <1>4, <2>1
  <1>6. \A k \in 1..Len(new) :
            /\ k <= Len(old) => k \in 1..Len(old) /\ new[k] = old[k]
            /\ Len(old) < k /\ k <= Len(mid) =>
                   k - Len(old) \in 1..Len(up) /\ new[k] = up[k - Len(old)]
            /\ Len(mid) < k => k - Len(mid) \in 1..Len(low) /\ new[k] = low[k - Len(mid)]
    <2> SUFFICES ASSUME NEW k \in 1..Len(new)
                 PROVE  /\ k <= Len(old) => k \in 1..Len(old) /\ new[k] = old[k]
                        /\ Len(old) < k /\ k <= Len(mid) =>
                               k - Len(old) \in 1..Len(up) /\ new[k] = up[k - Len(old)]
                        /\ Len(mid) < k =>
                               k - Len(mid) \in 1..Len(low) /\ new[k] = low[k - Len(mid)]
      OBVIOUS
    <2>1. /\ k <= Len(mid) => k \in 1..Len(mid) /\ new[k] = mid[k]
          /\ Len(mid) < k => k - Len(mid) \in 1..Len(low) /\ new[k] = low[k - Len(mid)]
      BY <1>5 DEF Joins
    <2>2. k \in 1..Len(mid) =>
              /\ k <= Len(old) => k \in 1..Len(old) /\ mid[k] = old[k]
              /\ Len(old) < k => k - Len(old) \in 1..Len(up) /\ mid[k] = up[k - Len(old)]
      BY <1>3 DEF Joins
    <2> QED BY <1>2, <1>3, <2>1, <2>2
  <1>7. \A k \in 1..Len(new) :
            /\ Len(old) < k /\ k <= Len(old) + Txs(i) => new[k].TxHash = <<i, k - Len(old)>>
            /\ Len(old) + Txs(i) < k => new[k].TxHash = <<i - 1, k - Len(old) - Txs(i)>>
    <2>1. /\ Len(mid) = Len(old) + Txs(i)
          /\ \A k \in 1..Len(new) : k - Len(mid) = k - Len(old) - Txs(i)
      BY <1>2, <1>3, <1>5
    <2> QED BY <1>2, <1>6, <2>1
  <1> QED BY <1>p, <1>2, <1>3, <1>5, <1>6, <1>7

LEMMA LoadRows ==
    ASSUME TypeInv, LoadBlock
    PROVE  LET n == Len(lastestTransactionList)
           IN  /\ lastestTransactionList' \in Seq(FeedRow) /\ i \in 1..MaxHeight
               /\ Len(lastestTransactionList') \in Nat
               /\ \A k \in 1..Len(lastestTransactionList') :
                      /\ k <= n => /\ k \in 1..n
                                   /\ lastestTransactionList'[k] = lastestTransactionList[k]
                      /\ n < k => lastestTransactionList'[k].TxHash = <<i, k - n>>
  <1>1. i \in 1..MaxHeight
    BY HeightAssumption DEF LoadBlock, TypeInv, TypeOK, Heights
  <1>p. PICK old, up, new : /\ old = lastestTransactionList /\ up = BlockTxs(i, i)
                            /\ new = lastestTransactionList'
    OBVIOUS
  <1>2. /\ old \in Seq(FeedRow) /\ Len(old) \in Nat /\ up \in Seq(FeedRow)
        /\ \A k \in 1..Len(up) : up[k].TxHash = <<i, k>>
    BY <1>1, <1>p, FeedTypes, BlockRows
  <1>3. new = old \o up
    BY <1>p DEF LoadBlock
  <1>4. new \in Seq(FeedRow) /\ Joins(new, old, up) /\ Len(new) \in Nat
    BY <1>2, <1>3, ConcatJoins
  <1> QED BY <1>1, <1>2, <1>4, <1>p DEF Joins

-----------------------------------------------------------------------------
(* No transaction more than twice.  The constructor's walk has each once and   *)
(* a round each of its own once; rounds go on above one another, so what is    *)
(* there twice is of a round before, and the next one does not bring it again. *)

Distinct(s) == \A j, k \in 1..Len(s) : j < k => s[j].TxHash # s[k].TxHash

TwiceInv ==
    /\ \A j, k \in 1..Len(lastestTransactionList) :
           j < k /\ lastestTransactionList[j].TxHash = lastestTransactionList[k].TxHash =>
               Old(lastestTransactionList[j].TxHash[1])
    /\ \A j, k, m \in 1..Len(lastestTransactionList) :
           j < k /\ k < m =>
               ~ /\ lastestTransactionList[j].TxHash = lastestTransactionList[k].TxHash
                 /\ lastestTransactionList[k].TxHash = lastestTransactionList[m].TxHash
    /\ pc = "load" =>
           /\ Distinct(lastestTransactionList)
           /\ \A k \in 1..Len(lastestTransactionList) : lastestTransactionList[k].TxHash[1] > i
    /\ pc = "down" => lastestTransactionList = <<>>
    /\ Distinct(newTxs)
    /\ pc \in InLoop => \A k \in 1..Len(newTxs) : New(newTxs[k].TxHash[1])
    /\ pc \notin InLoop \cup {"save"} => newTxs = <<>>

LEMMA InitTwice == Init => TwiceInv
  BY DEF Init, TwiceInv, Distinct, InLoop

LEMMA NextTwice == TypeInv /\ RoundBelow /\ TwiceInv /\ [Next]_vars => TwiceInv'
  <1> SUFFICES ASSUME TypeInv, RoundBelow, TwiceInv, [Next]_vars
               PROVE  TwiceInv'
    OBVIOUS
  <1>p. PICK feed, new, more, feed2 :
            /\ feed = lastestTransactionList /\ new = newTxs
            /\ feed2 = lastestTransactionList' /\ more = newTxs'
    OBVIOUS
  <1>t. /\ feed \in Seq(FeedRow) /\ new \in Seq(FeedRow)
        /\ Len(feed) \in Nat /\ Len(new) \in Nat
        /\ \A k \in 1..Len(feed) : feed[k].TxHash[1] \in Nat
        /\ \A k \in 1..Len(new) : new[k].TxHash[1] \in Nat
    BY <1>p, FeedTypes
  <1>c. /\ \A j, k \in 1..Len(feed) : j < k /\ feed[j].TxHash = feed[k].TxHash =>
                                          Old(feed[j].TxHash[1])
        /\ \A j, k, m \in 1..Len(feed) : j < k /\ k < m =>
               ~(feed[j].TxHash = feed[k].TxHash /\ feed[k].TxHash = feed[m].TxHash)
        /\ pc = "load" => Distinct(feed) /\ \A k \in 1..Len(feed) : feed[k].TxHash[1] > i
        /\ pc = "down" => feed = <<>>
        /\ Distinct(new)
        /\ pc \in InLoop => \A k \in 1..Len(new) : New(new[k].TxHash[1])
        /\ pc \notin InLoop \cup {"save"} => new = <<>>
    BY <1>p DEF TwiceInv
  <1>o. ~Crash => \A j, k \in 1..Len(feed) : j < k /\ feed[j].TxHash = feed[k].TxHash =>
                                                 Old(feed[j].TxHash[1])'
    <2>1. CASE pc = "down"
      BY <2>1, <1>c
    <2>2. CASE pc # "down"
      BY <2>2, <1>t, <1>c, OldStays
    <2> QED BY <2>1, <2>2
  <1>1. CASE Crash \/ Start
    <2>1. feed2 = <<>> /\ more = <<>> /\ pc' \in {"down", "load"}
      BY <1>p, <1>1, <1>c DEF Crash, Start, ClearLocals, InLoop
    <2> QED BY <1>p, <2>1 DEF TwiceInv, Distinct, InLoop
  <1>2. CASE LoadBlockFails \/ LoadDone \/ Begin \/ Save \/ SaveFails
    <2>1. /\ feed2 = feed /\ more = <<>> /\ ~Crash
          /\ pc' \in {"load", "sleep", "pair"}
          /\ pc' = "load" => pc = "load" /\ i' = i - 1
      BY <1>p, <1>2, <1>c DEF LoadBlockFails, LoadDone, Begin, Save, SaveFails,
                              ClearLocals, Crash, InLoop
    <2>2. pc' = "load" => \A k \in 1..Len(feed) : feed[k].TxHash[1] > i'
      BY <2>1, <1>t, <1>c, Heights0
    <2> QED BY <1>p, <2>1, <2>2, <1>c, <1>o DEF TwiceInv, Distinct, InLoop
  <1>3. CASE \/ ReadPairFails \/ IndexUpper \/ IndexLower \/ Grow \/ UNCHANGED vars
    <2>1. /\ feed2 = feed /\ more = new
          /\ pc \in InLoop <=> pc' \in InLoop
          /\ pc \notin InLoop => pc' = pc /\ i' = i
      BY <1>p, <1>3 DEF ReadPairFails, IndexUpper, IndexLower, Grow, InLoop
    <2>2. ~Crash
      BY <1>3 DEF ReadPairFails, IndexUpper, IndexLower, Grow, Crash
    <2>3. pc' \in InLoop => \A k \in 1..Len(new) : New(new[k].TxHash[1])'
      BY <1>3, <2>1, <1>c, <1>t, NewStays
    <2> QED BY <1>p, <2>1, <2>2, <2>3, <1>c, <1>o DEF TwiceInv, InLoop
  <1>4. CASE LoadBlock
    <2>1. /\ more = <<>> /\ pc = "load" /\ pc' = "load" /\ i' = i - 1 /\ ~Crash /\ i \in Nat
      BY <1>p, <1>4, <1>c, Heights0 DEF LoadBlock, Crash, InLoop
    <2>2. /\ Len(feed2) \in Nat
          /\ \A k \in 1..Len(feed2) :
                 /\ k <= Len(feed) => k \in 1..Len(feed) /\ feed2[k] = feed[k]
                 /\ Len(feed) < k => feed2[k].TxHash = <<i, k - Len(feed)>>
      BY <1>p, <1>4, LoadRows
    <2>3. \A k \in 1..Len(feed2) : feed2[k].TxHash[1] > i - 1
      BY <1>c, <1>t, <2>1, <2>2
    <2>4. \A j, k \in 1..Len(feed2) : j < k => feed2[j].TxHash # feed2[k].TxHash
      <3> SUFFICES ASSUME NEW j \in 1..Len(feed2), NEW k \in 1..Len(feed2), j < k
                   PROVE  feed2[j].TxHash # feed2[k].TxHash
        OBVIOUS
      <3>1. CASE k <= Len(feed)
        <4>1. j <= Len(feed)
          BY <3>1, <1>t, <2>2
        <4> QED BY <3>1, <4>1, <2>1, <2>2, <1>c DEF Distinct
      <3>2. CASE j <= Len(feed) /\ Len(feed) < k
        <4>1. feed2[j].TxHash[1] > i /\ feed2[k].TxHash[1] = i
          BY <3>2, <2>1, <2>2, <1>c
        <4> QED BY <4>1, <2>1
      <3>3. CASE Len(feed) < j
        <4>1. feed2[j].TxHash[2] = j - Len(feed) /\ feed2[k].TxHash[2] = k - Len(feed)
          BY <3>3, <2>2, <1>t
        <4> QED BY <4>1, <1>t
      <3> QED BY <3>1, <3>2, <3>3, <1>t
    <2>5. Distinct(feed2)
      BY <2>4 DEF Distinct
    <2>6. \A j, k, m \in 1..Len(feed2) : j < k /\ k < m => feed2[j].TxHash # feed2[k].TxHash
      BY <2>4
    <2> QED BY <1>p, <2>1, <2>3, <2>4, <2>5, <2>6, <1>c DEF TwiceInv, InLoop
  <1>5. CASE ReadPair
    <2>1. /\ feed2 = feed /\ pc \in InLoop /\ pc' = "upper" /\ ~Crash /\ i' = i
      BY <1>p, <1>5 DEF ReadPair, InLoop, Crash
    <2>2. /\ i \in 2..MaxHeight /\ New(i)' /\ New(i - 1)' /\ \A h \in Nat : New(h) => h > i
      BY <1>5, PairIsNew
    <2>3. /\ Txs(i) \in Nat /\ Len(more) \in Nat
          /\ \A k \in 1..Len(more) :
                 /\ k <= Len(new) => k \in 1..Len(new) /\ more[k] = new[k]
                 /\ Len(new) < k /\ k <= Len(new) + Txs(i) =>
                        more[k].TxHash = <<i, k - Len(new)>>
                 /\ Len(new) + Txs(i) < k =>
                        more[k].TxHash = <<i - 1, k - Len(new) - Txs(i)>>
      BY <1>p, <1>5, RoundRows
    <2>4. \A k \in 1..Len(new) : New(new[k].TxHash[1])' /\ new[k].TxHash[1] > i
      BY <1>5, <2>1, <2>2, <1>c, <1>t, NewStays
    <2>p. PICK top, u : top = i /\ u = Txs(i)
      OBVIOUS
    <2>5. top' = i /\ New(top)' /\ New(top - 1)'
      BY <2>1, <2>2, <2>p
    <2>6. \A k \in 1..Len(more) : New(more[k].TxHash[1])'
      <3> SUFFICES ASSUME NEW k \in 1..Len(more) PROVE New(more[k].TxHash[1])'
        OBVIOUS
      <3>1. CASE k <= Len(new)
        BY <3>1, <2>3, <2>4
      <3>2. CASE Len(new) < k
        <4>1. more[k].TxHash[1] \in {top, top - 1}
          BY <3>2, <2>3, <2>p, <1>t
        <4> QED BY <4>1, <2>5
      <3> QED BY <3>1, <3>2, <1>t
    <2>7. Distinct(more)
      <3> SUFFICES ASSUME NEW j \in 1..Len(more), NEW k \in 1..Len(more), j < k
                   PROVE  more[j].TxHash # more[k].TxHash
        BY DEF Distinct
      <3>1. CASE k <= Len(new)
        <4>1. j <= Len(new)
          BY <3>1, <1>t, <2>3
        <4> QED BY <3>1, <4>1, <2>3, <1>c DEF Distinct
      <3>2. CASE j <= Len(new) /\ Len(new) < k
        <4>1. more[j].TxHash[1] > top /\ more[k].TxHash[1] \in {top, top - 1} /\ top \in Nat
          BY <3>2, <2>2, <2>3, <2>4, <2>p, <1>t
        <4> QED BY <4>1
      <3>3. CASE Len(new) < j /\ j <= Len(new) + u /\ Len(new) + u < k
        <4>1. more[j].TxHash[1] = top /\ more[k].TxHash[1] = top - 1 /\ top \in Nat
          BY <3>3, <2>2, <2>3, <2>p
        <4> QED BY <4>1
      <3>4. CASE Len(new) < j /\ k <= Len(new) + u
        <4>1. more[j].TxHash[2] = j - Len(new) /\ more[k].TxHash[2] = k - Len(new)
          BY <3>4, <2>3, <2>p, <1>t
        <4> QED BY <4>1, <1>t
      <3>5. CASE Len(new) + u < j
        <4>1. /\ more[j].TxHash[2] = j - Len(new) - u
              /\ more[k].TxHash[2] = k - Len(new) - u /\ u \in Nat
          BY <3>5, <2>3, <2>p, <1>t
        <4> QED BY <4>1, <1>t
      <3> QED BY <3>1, <3>2, <3>3, <3>4, <3>5, <1>t, <2>3, <2>p
    <2> QED BY <1>p, <2>1, <2>6, <2>7, <1>c, <1>o DEF TwiceInv, InLoop
  <1>6. CASE Finish
    <2>1. /\ feed2 = PutInFront(new, feed) /\ more = new
          /\ pc = "pair" /\ pc' = "save" /\ pc \in InLoop /\ pc' \notin InLoop /\ ~Crash
      BY <1>p, <1>6 DEF Finish, AfterLoop, InLoop, Crash
    <2>2. /\ feed2 \in Seq(FeedRow) /\ Joins(feed2, new, feed) /\ Len(feed2) \in Nat
      BY <1>t, <2>1, PutInFrontJoins
    <2>4. /\ \A k \in 1..Len(feed2) : k <= Len(new) => k \in 1..Len(new) /\ feed2[k] = new[k]
          /\ \A k \in 1..Len(feed2) : k > Len(new) =>
                 k - Len(new) \in 1..Len(feed) /\ feed2[k] = feed[k - Len(new)]
      BY <2>2 DEF Joins
    <2>5. \A k \in 1..Len(new) : ~Old(new[k].TxHash[1]) /\ Old(new[k].TxHash[1])'
      BY <1>6, <1>t, <1>c, <2>1, NewFacts
    <2>6. \A j, k \in 1..Len(feed2) : j < k /\ feed2[j].TxHash = feed2[k].TxHash =>
              /\ Old(feed2[j].TxHash[1])'
              /\ k > Len(new)
              /\ j > Len(new) => Old(feed2[j].TxHash[1])
      <3> SUFFICES ASSUME NEW j \in 1..Len(feed2), NEW k \in 1..Len(feed2),
                          j < k, feed2[j].TxHash = feed2[k].TxHash
                   PROVE  /\ Old(feed2[j].TxHash[1])'
                          /\ k > Len(new)
                          /\ j > Len(new) => Old(feed2[j].TxHash[1])
        OBVIOUS
      <3>1. CASE k <= Len(new)
        <4>1. j <= Len(new)
          BY <3>1, <1>t
        <4> QED BY <3>1, <4>1, <2>4, <1>c DEF Distinct
      <3>2. CASE j <= Len(new) /\ k > Len(new)
        BY <3>2, <2>4, <2>5, <1>t
      <3>3. CASE j > Len(new)
        <4>1. k > Len(new) /\ j - Len(new) < k - Len(new)
          BY <3>3, <1>t
        <4>2. /\ j - Len(new) \in 1..Len(feed) /\ k - Len(new) \in 1..Len(feed)
              /\ feed2[j] = feed[j - Len(new)] /\ feed2[k] = feed[k - Len(new)]
          BY <3>3, <4>1, <2>4
        <4>3. Old(feed2[j].TxHash[1]) /\ Old(feed2[j].TxHash[1])'
          BY <4>1, <4>2, <1>c, <1>o, <2>1
        <4> QED BY <4>1, <4>3
      <3> QED BY <1>t, <3>1, <3>2, <3>3
    <2>7. \A j, k, m \in 1..Len(feed2) : j < k /\ k < m =>
              ~(feed2[j].TxHash = feed2[k].TxHash /\ feed2[k].TxHash = feed2[m].TxHash)
      <3> SUFFICES ASSUME NEW j \in 1..Len(feed2), NEW k \in 1..Len(feed2),
                          NEW m \in 1..Len(feed2), j < k, k < m,
                          feed2[j].TxHash = feed2[k].TxHash, feed2[k].TxHash = feed2[m].TxHash
                   PROVE  FALSE
        OBVIOUS
      <3>1. /\ k > Len(new) /\ Old(feed2[k].TxHash[1])
        BY <2>6
      <3>2. j > Len(new)
        <4>1. ~(j <= Len(new))
          BY <3>1, <2>4, <2>5
        <4> QED BY <4>1, <1>t
      <3>3. /\ j - Len(new) \in 1..Len(feed) /\ k - Len(new) \in 1..Len(feed)
            /\ m - Len(new) \in 1..Len(feed)
            /\ feed2[j] = feed[j - Len(new)] /\ feed2[k] = feed[k - Len(new)]
            /\ feed2[m] = feed[m - Len(new)]
            /\ j - Len(new) < k - Len(new) /\ k - Len(new) < m - Len(new)
        BY <3>1, <3>2, <2>4, <1>t
      <3>p. PICK a, b, c : a = j - Len(new) /\ b = k - Len(new) /\ c = m - Len(new)
        OBVIOUS
      <3>4. /\ a \in 1..Len(feed) /\ b \in 1..Len(feed) /\ c \in 1..Len(feed)
            /\ a < b /\ b < c
        BY <3>3, <3>p
      <3>5. ~(feed[a].TxHash = feed[b].TxHash /\ feed[b].TxHash = feed[c].TxHash)
        BY <3>4, <1>c
      <3> QED BY <3>3, <3>p, <3>5
    <2> QED BY <1>p, <2>1, <2>6, <2>7, <1>c DEF TwiceInv, InLoop
  <1> QED BY <1>1, <1>2, <1>3, <1>4, <1>5, <1>6 DEF Next, Load, Update

\* Whatever a crash lost, a failure skipped or a recovery took, a transaction is in
\* the feed at most once from the constructor and once from a round.
THEOREM FeedHasAtMostTwice == Spec => []FeedAtMostTwice
  <1>1. ASSUME TypeInv, TwiceInv PROVE FeedAtMostTwice
    <2>1. DOMAIN lastestTransactionList = 1..Len(lastestTransactionList)
      BY <1>1, FeedTypes
    <2> QED BY <1>1, <2>1 DEF TwiceInv, FeedAtMostTwice
  <1>2. Spec => [](TypeInv /\ RoundBelow /\ TwiceInv)
    BY InitTypeInv, NextTypeInv, InitRoundBelow, NextRoundBelow, InitTwice, NextTwice,
       PTL DEF Spec
  <1> QED BY <1>1, <1>2, PTL

-----------------------------------------------------------------------------
(* The block a row names.  The lower block of a pair is always an odd one, and *)
(* what two lists say of their rows they say of the rows put together.         *)

Named(row) ==
    \/ row.BlockHash = row.TxHash[1]
    \/ row.BlockHash = row.TxHash[1] + 1 /\ row.TxHash[1] % 2 = 1

AllNamed(s) == \A k \in 1..Len(s) : Named(s[k])

NamedInv == AllNamed(lastestTransactionList) /\ AllNamed(newTxs)

LEMMA JoinsNamed ==
    ASSUME NEW r, NEW s, NEW t, Joins(r, s, t), AllNamed(s), AllNamed(t),
           Len(r) \in Nat, Len(s) \in Nat, Len(t) \in Nat
    PROVE  AllNamed(r)
  <1> SUFFICES ASSUME NEW k \in 1..Len(r)
               PROVE  Named(r[k])
    BY DEF AllNamed
  <1>1. CASE k <= Len(s)
    BY <1>1 DEF Joins, AllNamed
  <1>2. CASE k > Len(s)
    BY <1>2 DEF Joins, AllNamed
  <1> QED BY <1>1, <1>2

LEMMA BlockNamed ==
    ASSUME NEW h \in 1..MaxHeight, NEW b \in 1..MaxHeight,
           b = h \/ (b = h + 1 /\ h % 2 = 1)
    PROVE  AllNamed(BlockTxs(h, b))
  <1>1. Len(BlockTxs(h, b)) = Txs(h)
    BY BlockRows
  <1>2. \A k \in 1..Txs(h) : BlockTxs(h, b)[k] = [TxHash |-> <<h, k>>, BlockHash |-> b]
    BY DEF BlockTxs
  <1> QED BY <1>1, <1>2 DEF AllNamed, Named

LEMMA InitNamed == Init => NamedInv
  BY DEF Init, NamedInv, AllNamed

LEMMA NextNamed == TypeInv /\ NamedInv /\ [Next]_vars => NamedInv'
  <1> SUFFICES ASSUME TypeInv, NamedInv, [Next]_vars
               PROVE  NamedInv'
    OBVIOUS
  <1>p. PICK feed, new, feed2, more :
            /\ feed = lastestTransactionList /\ new = newTxs
            /\ feed2 = lastestTransactionList' /\ more = newTxs'
    OBVIOUS
  <1>t. /\ feed \in Seq(FeedRow) /\ new \in Seq(FeedRow)
        /\ Len(feed) \in Nat /\ Len(new) \in Nat
    BY <1>p, FeedTypes
  <1>c. AllNamed(feed) /\ AllNamed(new)
    BY <1>p DEF NamedInv
  <1>e. AllNamed(<<>>)
    BY DEF AllNamed
  <1> SUFFICES AllNamed(feed2) /\ AllNamed(more)
    BY <1>p DEF NamedInv
  <1>1. CASE LoadBlock
    <2>p. PICK up : up = BlockTxs(i, i)
      OBVIOUS
    <2>1. i \in 1..MaxHeight /\ feed2 = feed \o up /\ more = new
      BY <1>1, <1>p, <2>p, HeightAssumption DEF LoadBlock, TypeInv, TypeOK, Heights
    <2>2. up \in Seq(FeedRow) /\ Len(up) \in Nat /\ AllNamed(up)
      BY <2>1, <2>p, BlockRows, BlockNamed
    <2>3. feed2 \in Seq(FeedRow) /\ Joins(feed2, feed, up)
      BY <1>t, <2>1, <2>2, ConcatJoins
    <2>4. Len(feed2) \in Nat
      BY <2>3
    <2> QED BY <1>t, <1>c, <2>1, <2>2, <2>3, <2>4, JoinsNamed
  <1>2. CASE ReadPair
    <2>p. PICK up, low : up = BlockTxs(i, i) /\ low = BlockTxs(i - 1, i)
      OBVIOUS
    <2>1. i \in 2..MaxHeight /\ i - 1 \in 1..MaxHeight /\ i % 2 = 0
      BY <1>2, PairIsNew DEF ReadPair, TypeInv, LoopBounds, InLoop
    <2>2. (i - 1) % 2 = 1 /\ i = (i - 1) + 1
      BY <2>1, HeightAssumption
    <2>3. /\ up \in Seq(FeedRow) /\ Len(up) \in Nat /\ AllNamed(up)
          /\ low \in Seq(FeedRow) /\ Len(low) \in Nat /\ AllNamed(low)
      <3>1. i \in 1..MaxHeight
        BY <2>1, HeightAssumption
      <3> QED BY <2>p, <2>1, <2>2, <3>1, BlockRows, BlockNamed
    <2>4. PICK mid \in Seq(FeedRow) : mid = new \o up /\ Joins(mid, new, up)
      BY <1>t, <2>3, ConcatJoins
    <2>5. Len(mid) \in Nat
      BY <2>4
    <2>6. AllNamed(mid)
      BY <1>t, <1>c, <2>3, <2>4, <2>5, JoinsNamed
    <2>7. more = FirstOf(mid \o low, ListCap + 1) /\ ListCap + 1 \in Nat /\ feed2 = feed
      BY <1>2, <1>p, <2>p, <2>4, CapAssumption DEF ReadPair
    <2>8. more \in Seq(FeedRow) /\ Joins(more, mid, low)
      <3>1. /\ FirstOf(mid \o low, ListCap + 1) \in Seq(FeedRow)
            /\ Joins(FirstOf(mid \o low, ListCap + 1), mid, low)
        BY ONLY <2>3, <2>4, <2>7, FirstOfJoins
      <3> QED BY <2>7, <3>1
    <2>9. Len(more) \in Nat
      BY <2>8
    <2> QED BY <1>c, <2>3, <2>5, <2>6, <2>7, <2>8, <2>9, JoinsNamed
  <1>3. CASE Finish
    <2>1. feed2 = PutInFront(new, feed) /\ more = new
      BY <1>3, <1>p DEF Finish
    <2>2. feed2 \in Seq(FeedRow) /\ Joins(feed2, new, feed)
      BY <1>t, <2>1, PutInFrontJoins
    <2>3. Len(feed2) \in Nat
      BY <2>2
    <2> QED BY <1>t, <1>c, <2>1, <2>2, <2>3, JoinsNamed
  <1>4. CASE Crash
    BY <1>4, <1>e, <1>p DEF Crash, ClearLocals
  <1>5. CASE Start \/ LoadBlockFails \/ LoadDone \/ Begin \/ Save \/ SaveFails
    <2>1. feed2 = feed /\ more \in {new, <<>>}
      BY <1>5, <1>p DEF Start, LoadBlockFails, LoadDone, Begin, Save, SaveFails, ClearLocals
    <2> QED BY <2>1, <1>c, <1>e
  <1>6. CASE Grow \/ ReadPairFails \/ IndexUpper \/ IndexLower \/ UNCHANGED vars
    <2>1. feed2 = feed /\ more = new
      BY <1>6, <1>p DEF Grow, ReadPairFails, IndexUpper, IndexLower
    <2> QED BY <2>1, <1>c
  <1> QED BY <1>1, <1>2, <1>3, <1>4, <1>5, <1>6 DEF Next, Load, Update

\* The block a row of the feed names is never further off than the block above the
\* row's own: the extent of FeedBlockHash's violation, for every chain and history.
THEOREM FeedNamesOwnPair == Spec => []FeedNamesPair
  <1>1. ASSUME TypeInv, NamedInv PROVE FeedNamesPair
    <2>1. /\ DOMAIN lastestTransactionList = 1..Len(lastestTransactionList)
          /\ \A k \in 1..Len(lastestTransactionList) : Named(lastestTransactionList[k])
      BY <1>1, FeedTypes DEF NamedInv, AllNamed
    <2> QED BY <2>1 DEF FeedNamesPair, Named
  <1>2. Spec => [](TypeInv /\ NamedInv)
    BY InitTypeInv, NextTypeInv, InitNamed, NextNamed, PTL DEF Spec
  <1> QED BY <1>1, <1>2, PTL

-----------------------------------------------------------------------------
(* The feed of the first process.  A row's rank below a height is its place    *)
(* among the transactions up to there, the newest first.  The loop queues the  *)
(* ranks from 1 on without a gap, and the feed has those below the round's     *)
(* floor; where the queue ends the feed goes on.                               *)

Ranked(x, k, top) == TxsUpTo[top] - TxsUpTo[x.TxHash[1]] + x.TxHash[2] = k

\* The feed f begins with the transactions up to height top.
Complete(f, top) ==
    \A k \in 1..ListCap : k <= TxsUpTo[top] => k \in 1..Len(f) /\ Ranked(f[k], k, top)

\* s holds the transactions above height low, up to top, or one more than the cap.
Queued(s, top, low) ==
    /\ Len(s) = IF TxsUpTo[top] - TxsUpTo[low] < ListCap + 1
                THEN TxsUpTo[top] - TxsUpTo[low] ELSE ListCap + 1
    /\ \A k \in 1..Len(s) : Ranked(s[k], k, top)

LEMMA RankType ==
    ASSUME NEW x \in FeedRow
    PROVE  x.TxHash[1] \in 0..MaxHeight /\ TxsUpTo[x.TxHash[1]] \in Nat /\ x.TxHash[2] \in Nat
  <1>1. x.TxHash \in (1..MaxHeight) \X (Nat \ {0})
    BY DEF FeedRow
  <1>2. x.TxHash[1] \in 0..MaxHeight /\ x.TxHash[2] \in Nat
    BY <1>1, HeightAssumption
  <1> QED BY <1>2, ChainAssumption

\* What is queued above a height completes what is complete up to there.
LEMMA QueueCompletes ==
    ASSUME NEW top \in 0..MaxHeight, NEW low \in 0..MaxHeight, low <= top,
           NEW s \in Seq(FeedRow), NEW f \in Seq(FeedRow),
           Queued(s, top, low), Complete(f, low)
    PROVE  Complete(PutInFront(s, f), top)
  <1>1. /\ TxsUpTo[top] \in Nat /\ TxsUpTo[low] \in Nat /\ TxsUpTo[low] <= TxsUpTo[top]
    BY TotalsMonotone
  <1>p. PICK r, n, a, b : /\ r = PutInFront(s, f) /\ a = TxsUpTo[top] /\ b = TxsUpTo[low]
                          /\ n = TxsUpTo[top] - TxsUpTo[low]
    OBVIOUS
  <1>2. /\ n \in Nat /\ a \in Nat /\ b \in Nat /\ n = a - b /\ ListCap \in Nat
        /\ Len(s) \in Nat /\ Len(f) \in Nat
        /\ Len(s) = IF n < ListCap + 1 THEN n ELSE ListCap + 1
        /\ \A k \in 1..Len(s) : Ranked(s[k], k, top)
    BY <1>1, <1>p, CapAssumption DEF Queued
  <1>3. /\ r \in Seq(FeedRow) /\ Joins(r, s, f)
        /\ Len(r) = IF s = <<>> \/ Len(s) + Len(f) < ListCap THEN Len(s) + Len(f) ELSE ListCap
    BY <1>p, PutInFrontJoins
  <1>4. ASSUME NEW k \in 1..ListCap, k <= a
        PROVE  k \in 1..Len(r) /\ Ranked(r[k], k, top)
    <2>1. CASE k <= Len(s)
      <3>1. k \in 1..Len(r) /\ k \in 1..Len(s)
        BY <1>2, <1>3, <2>1
      <3>2. r[k] = s[k]
        BY <1>3, <2>1, <3>1 DEF Joins
      <3> QED BY <1>2, <3>1, <3>2
    <2>2. CASE k > Len(s)
      <3>1. Len(s) = n /\ k - n \in 1..ListCap /\ k - n <= b
        BY <1>2, <1>4, <2>2
      <3>2. k - n \in 1..Len(f) /\ Ranked(f[k - n], k - n, low)
        BY <1>p, <3>1 DEF Complete
      <3>3. k \in 1..Len(r)
        BY <1>2, <1>3, <3>1, <3>2
      <3>4. r[k] = f[k - n]
        BY <1>3, <2>2, <3>1, <3>3 DEF Joins
      <3>p. PICK x, m : x = f[k - n] /\ m = k - n
        OBVIOUS
      <3>5. x \in FeedRow /\ TxsUpTo[x.TxHash[1]] \in Nat /\ x.TxHash[2] \in Nat
        <4>1. x \in FeedRow
          BY <3>2, <3>p
        <4> QED BY <4>1, RankType
      <3>q. PICK t, j : t = TxsUpTo[x.TxHash[1]] /\ j = x.TxHash[2]
        OBVIOUS
      <3>6. b - t + j = k - n
        BY <1>p, <3>2, <3>p, <3>q DEF Ranked
      <3>7. a - t + j = k
        <4>1. t \in Nat /\ j \in Nat /\ k \in Nat
          BY <1>2, <3>5, <3>q
        <4> QED BY <1>2, <3>6, <4>1
      <3> QED BY <1>p, <3>3, <3>4, <3>p, <3>q, <3>7 DEF Ranked
    <2> QED BY <1>2, <2>1, <2>2
  <1> QED BY <1>p, <1>4 DEF Complete

\* A pair that is read goes on where the queue ended.
LEMMA PairQueues ==
    ASSUME TypeInv, ReadPair, NEW top \in 0..MaxHeight, i <= top,
           NEW old, NEW new, old = newTxs, new = newTxs', Queued(old, top, i)
    PROVE  Queued(new, top, i - 2)
  <1>1. /\ i \in 2..MaxHeight /\ i \in 0..MaxHeight /\ i - 1 \in 0..MaxHeight
        /\ i - 2 \in 0..MaxHeight /\ i \in Nat /\ (i - 1) - 1 = i - 2
    BY PairIsNew, HeightAssumption
  <1>p. PICK a, b, c, d : /\ a = TxsUpTo[top] /\ b = TxsUpTo[i]
                          /\ c = TxsUpTo[i - 1] /\ d = TxsUpTo[i - 2]
    OBVIOUS
  <1>2. /\ a \in Nat /\ b \in Nat /\ c \in Nat /\ d \in Nat
        /\ b <= a
        /\ Txs(i) = b - c /\ Txs(i - 1) = c - d
    BY <1>1, <1>p, TotalsMonotone, ChainAssumption DEF Txs
  <1>3. /\ old \in Seq(FeedRow) /\ Len(old) \in Nat /\ ListCap \in Nat
        /\ Len(old) = IF a - b < ListCap + 1 THEN a - b ELSE ListCap + 1
        /\ \A k \in 1..Len(old) : Ranked(old[k], k, top)
    BY <1>p, FeedTypes, CapAssumption DEF Queued
  <1>4. /\ Txs(i) \in Nat /\ Txs(i - 1) \in Nat /\ Len(new) \in Nat
        /\ Len(new) = IF Len(old) + Txs(i) + Txs(i - 1) < ListCap + 1
                      THEN Len(old) + Txs(i) + Txs(i - 1) ELSE ListCap + 1
        /\ \A k \in 1..Len(new) :
               /\ k <= Len(old) => k \in 1..Len(old) /\ new[k] = old[k]
               /\ Len(old) < k /\ k <= Len(old) + Txs(i) =>
                      new[k].TxHash = <<i, k - Len(old)>>
               /\ Len(old) + Txs(i) < k =>
                      new[k].TxHash = <<i - 1, k - Len(old) - Txs(i)>>
    BY RoundRows
  <1>5. Len(new) = IF a - d < ListCap + 1 THEN a - d ELSE ListCap + 1
    BY <1>2, <1>3, <1>4
  <1>6. ASSUME NEW k \in 1..Len(new) PROVE Ranked(new[k], k, top)
    <2>1. CASE k <= Len(old)
      BY <1>3, <1>4, <2>1
    <2>2. CASE Len(old) < k
      <3>1. Len(old) = a - b
        BY <1>2, <1>3, <1>4, <1>5, <2>2
      <3>2. CASE k <= Len(old) + Txs(i)
        <4>1. new[k].TxHash[1] = i /\ new[k].TxHash[2] = k - Len(old)
          BY <1>4, <2>2, <3>2
        <4>2. a - b + (k - Len(old)) = k
          BY <1>2, <1>4, <3>1
        <4> QED BY <1>p, <4>1, <4>2 DEF Ranked
      <3>3. CASE Len(old) + Txs(i) < k
        <4>1. new[k].TxHash[1] = i - 1 /\ new[k].TxHash[2] = k - Len(old) - Txs(i)
          BY <1>4, <3>3
        <4>2. a - c + (k - Len(old) - Txs(i)) = k
          BY <1>2, <1>4, <3>1
        <4> QED BY <1>p, <4>1, <4>2 DEF Ranked
      <3> QED BY <1>3, <1>4, <3>2, <3>3
    <2> QED BY <1>3, <1>4, <2>1, <2>2
  <1> QED BY <1>p, <1>5, <1>6 DEF Queued

\* The height up to which the feed is complete; a round in its loop has not added
\* its part yet.
Ground == IF pc \in InLoop THEN minHeight ELSE Blocks

LatestInv ==
    crashes = 0 =>
        /\ ~rewound /\ pc # "down"
        /\ pc = "load" => Blocks = 0
        /\ pc \notin InLoop \cup {"save"} => newTxs = <<>>
        /\ skipped = {} =>
            /\ Complete(lastestTransactionList, Even(Ground))
            /\ pc \in InLoop => Queued(newTxs, Even(currHeight), Low)

LEMMA InitLatest == Init => LatestInv
  <1> SUFFICES ASSUME Init PROVE LatestInv
    OBVIOUS
  <1>1. /\ pc = "load" /\ Blocks = 0 /\ newTxs = <<>> /\ ~rewound
    BY DEF Init
  <1>2. Even(Ground) = 0 /\ TxsUpTo[0] = 0 /\ ListCap \in Nat
    BY <1>1, ChainAssumption, CapAssumption DEF Ground, InLoop, Even
  <1>3. Complete(lastestTransactionList, Even(Ground))
    BY <1>2 DEF Complete
  <1> QED BY <1>1, <1>3 DEF LatestInv, InLoop

LEMMA NextLatest == TypeInv /\ KeptTotals /\ LatestInv /\ [Next]_vars => LatestInv'
  <1> SUFFICES ASSUME TypeInv, KeptTotals, LatestInv, [Next]_vars, crashes' = 0
               PROVE  LatestInv'
    BY DEF LatestInv
  <1>p. PICK feed, new, feed2, more :
            /\ feed = lastestTransactionList /\ new = newTxs
            /\ feed2 = lastestTransactionList' /\ more = newTxs'
    OBVIOUS
  <1>t. /\ feed \in Seq(FeedRow) /\ new \in Seq(FeedRow)
        /\ Even(height) \in 0..MaxHeight /\ Even(currHeight) \in 0..MaxHeight
        /\ Even(minHeight) \in 0..MaxHeight /\ Even(Blocks) \in 0..MaxHeight
        /\ crashes \in Nat /\ i \in Nat /\ currHeight \in Nat /\ minHeight \in Nat
        /\ Blocks \in Nat /\ height \in Nat /\ i \in 0..MaxHeight
        /\ skipped \subseteq 1..MaxHeight
    <2>1. /\ height \in 0..MaxHeight /\ currHeight \in 0..MaxHeight
          /\ minHeight \in 0..MaxHeight /\ Blocks \in 0..MaxHeight /\ i \in 0..MaxHeight
          /\ crashes \in Nat /\ skipped \subseteq 1..MaxHeight
      BY DEF TypeInv, TypeOK, Heights
    <2> QED BY <1>p, <2>1, FeedTypes, EvenHeight, HeightAssumption
  <1>0. crashes = 0 /\ ~Crash
    <2>1. ~Crash
      BY <1>t DEF Crash
    <2> QED BY <2>1 DEF Next, Load, Update, Grow, Start, LoadBlock, LoadBlockFails, LoadDone,
                        Begin, ReadPair, ReadPairFails, IndexUpper, IndexLower, IndexBlock,
                        IndexBlockFails, Finish, Save, SaveFails
  <1>c. /\ ~rewound /\ pc # "down"
        /\ pc = "load" => Blocks = 0
        /\ pc \notin InLoop \cup {"save"} => new = <<>>
        /\ skipped = {} => /\ Complete(feed, Even(Ground))
                           /\ pc \in InLoop => Queued(new, Even(currHeight), Low)
    BY <1>0, <1>p DEF LatestInv
  <1>o. Order
    BY <1>c DEF KeptTotals
  <1>1. CASE Grow \/ IndexUpper \/ IndexLower \/ UNCHANGED vars
    <2>1. /\ feed2 = feed /\ more = new /\ Ground' = Ground /\ Low' = Low
          /\ currHeight' = currHeight /\ rewound' = rewound /\ skipped' = skipped
          /\ Blocks' = Blocks
          /\ pc \in InLoop <=> pc' \in InLoop
          /\ pc \notin InLoop => pc' = pc
      BY <1>p, <1>1 DEF Grow, IndexUpper, IndexLower, IndexBlock, IndexBlockFails,
                        Ground, Low, InLoop
    <2>2. pc' # "down" /\ (pc' = "load" => pc = "load")
      BY <1>c, <1>1 DEF Grow, IndexUpper, IndexLower
    <2> QED BY <1>p, <1>c, <2>1, <2>2 DEF LatestInv, InLoop
  <1>2. CASE LoadBlock \/ LoadBlockFails \/ LoadDone
    <2>1. /\ pc = "load" /\ pc' \in {"load", "sleep"} /\ Blocks' = 0 /\ more = <<>>
          /\ rewound' = rewound
      BY <1>p, <1>c, <1>2 DEF LoadBlock, LoadBlockFails, LoadDone, ClearLocals, InLoop
    <2>2. Even(Ground') = 0 /\ TxsUpTo[0] = 0 /\ ListCap \in Nat
      BY <2>1, ChainAssumption, CapAssumption DEF Ground, InLoop, Even
    <2>3. Complete(feed2, Even(Ground'))
      BY <2>2 DEF Complete
    <2> QED BY <1>p, <1>c, <2>1, <2>3 DEF LatestInv, InLoop
  <1>3. CASE Begin
    <2>1. /\ pc = "sleep" /\ pc' = "pair" /\ feed2 = feed /\ more = <<>>
          /\ skipped' = skipped /\ rewound' = rewound
          /\ Ground' = Ground /\ Low' = Even(height) /\ currHeight' = height
      BY <1>p, <1>c, <1>3 DEF Begin, Floor, TopPair, Ground, Low, InLoop
    <2>2. Queued(<<>>, Even(height), Even(height))
      BY <1>t, ChainAssumption, CapAssumption DEF Queued
    <2> QED BY <1>p, <1>c, <2>1, <2>2 DEF LatestInv, InLoop
  <1>4. CASE Save \/ SaveFails
    <2>1. /\ pc = "save" /\ pc' = "sleep" /\ feed2 = feed /\ more = <<>>
          /\ skipped' = skipped /\ rewound' = rewound /\ Ground' = Ground
      BY <1>p, <1>4 DEF Save, SaveFails, ClearLocals, Ground, InLoop
    <2> QED BY <1>p, <1>c, <2>1 DEF LatestInv, InLoop
  <1>5. CASE ReadPairFails
    <2>1. pc \in InLoop /\ pc' = pc /\ rewound' = rewound /\ i \in skipped'
      BY <1>5 DEF ReadPairFails, InLoop
    <2> QED BY <1>c, <2>1 DEF LatestInv, InLoop
  <1>6. CASE ReadPair
    <2>1. /\ pc = "pair" /\ pc' = "upper" /\ feed2 = feed /\ Low = i /\ Low' = i - 2
          /\ skipped' = skipped /\ rewound' = rewound /\ Ground' = Ground
          /\ currHeight' = currHeight
      BY <1>p, <1>6 DEF ReadPair, Ground, Low, InLoop
    <2>2. i <= Even(currHeight)
      BY <1>t, <2>1, EvenBelow DEF TypeInv, LoopBounds, InLoop
    <2>3. skipped = {} => Queued(more, Even(currHeight), i - 2)
      BY <1>p, <1>t, <1>c, <1>6, <2>1, <2>2, PairQueues DEF InLoop
    <2> QED BY <1>p, <1>c, <2>1, <2>3 DEF LatestInv, InLoop
  <1>7. CASE Finish
    <2>1. /\ pc = "pair" /\ pc' = "save" /\ feed2 = PutInFront(new, feed) /\ more = new
          /\ Low = i /\ skipped' = skipped /\ rewound' = rewound
          /\ Ground = minHeight /\ Ground' = currHeight /\ i <= minHeight
      BY <1>p, <1>7 DEF Finish, AfterLoop, Ground, Low, InLoop
    <2>2. i = Even(minHeight) /\ Even(minHeight) <= Even(currHeight)
      <3>1. i <= Even(minHeight)
        BY <1>t, <2>1, EvenBelow DEF TypeInv, LoopBounds, InLoop
      <3>2. Even(minHeight) <= i /\ minHeight <= currHeight
        BY <1>o, <2>1 DEF Order, InLoop
      <3> QED BY <1>t, <3>1, <3>2, EvenMonotone
    <2>3. skipped = {} => Complete(PutInFront(new, feed), Even(currHeight))
      BY <1>t, <1>c, <2>1, <2>2, QueueCompletes DEF InLoop
    <2> QED BY <1>p, <1>c, <2>1, <2>3 DEF LatestInv, InLoop
  <1>8. ~Start
    BY <1>c DEF Start
  <1> QED BY <1>0, <1>1, <1>2, <1>3, <1>4, <1>5, <1>6, <1>7, <1>8 DEF Next, Load, Update

\* Until it first crashes or fails to read a block, the explorer's feed begins with
\* the newest transactions of the chain's complete pairs: rounds leave no gap
\* between one another, and cutting a round's queue does not make one.
THEOREM FeedIsNewest == Spec => []FeedIsLatest
  <1>1. ASSUME TypeInv, LatestInv PROVE FeedIsLatest
    <2>1. SUFFICES ASSUME pc = "sleep", crashes = 0, skipped = {},
                          NEW k \in 1..ListCap, k <= TxsUpTo[Even(Blocks)]
                   PROVE  /\ k \in DOMAIN lastestTransactionList
                          /\ TxsUpTo[Even(Blocks)]
                                 - TxsUpTo[lastestTransactionList[k].TxHash[1]]
                                 + lastestTransactionList[k].TxHash[2] = k
      BY DEF FeedIsLatest
    <2>2. DOMAIN lastestTransactionList = 1..Len(lastestTransactionList)
      BY <1>1, FeedTypes
    <2>3. Complete(lastestTransactionList, Even(Blocks))
      BY <1>1, <2>1 DEF LatestInv, Ground, InLoop
    <2> QED BY <2>1, <2>2, <2>3 DEF Complete, Ranked
  <1>2. Spec => [](TypeInv /\ KeptTotals /\ LatestInv)
    BY InitTypeInv, NextTypeInv, InitKeptTotals, NextKeptTotals, InitLatest, NextLatest,
       PTL DEF Spec
  <1> QED BY <1>1, <1>2, PTL
=============================================================================
