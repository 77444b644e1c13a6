---------------------------- MODULE Pages_proofs ----------------------------
(***************************************************************************)
(* Proofs about Pages, for every page size, cap, set of unreadable blocks  *)
(* and number of clicks: the page number is that of the rows, "next"       *)
(* leaves nothing out, the last page ends with the oldest row, and the     *)
(* buttons stay within the feed.                                           *)
(***************************************************************************)
EXTENDS Pages, FiniteSetTheorems, WellFoundedInduction, TLAPS

-----------------------------------------------------------------------------
(* Division, and the window of a page. *)

LEMMA DivBounds ==
    ASSUME NEW n \in Int, NEW d \in Nat \ {0}
    PROVE  /\ n \div d \in Int
           /\ d * (n \div d) <= n
           /\ n < d * (n \div d) + d
  OBVIOUS

LEMMA Between ==
    ASSUME NEW d \in Nat \ {0}, NEW j \in Int, NEW k \in Int, d * j < d * k + d
    PROVE  j <= k
  <1>1. CASE j >= k + 1
    <2>1. d * (j - (k + 1)) >= 0
      BY <1>1
    <2>2. d * (j - (k + 1)) = d * j - d * k - d
      OBVIOUS
    <2> QED BY <2>1, <2>2
  <1> QED BY <1>1

\* The quotient is the one multiple that fits.
LEMMA DivIs ==
    ASSUME NEW n \in Int, NEW d \in Nat \ {0}, NEW k \in Int,
           d * k <= n, n < d * k + d
    PROVE  n \div d = k
  <1>1. n \div d <= k
    BY DivBounds, Between
  <1>2. k <= n \div d
    BY DivBounds, Between
  <1> QED BY <1>1, <1>2, DivBounds

\* What parseInt makes of an index that is not negative.
LEMMA PageOf ==
    ASSUME NEW n \in Int, NEW k \in Nat,
           PageSize * k <= n, n < PageSize * k + PageSize
    PROVE  PagesOf(n) = k
  <1>1. PageSize \in Nat \ {0} /\ PageSize * k >= 0
    BY SizesAssumption
  <1> QED BY <1>1, DivIs DEF PagesOf

\* The last page begins before the end and reaches it; a feed of one row or of
\* none has no last page, or the first.
LEMMA EndNumIs ==
    ASSUME NEW total \in Int, total >= -1
    PROVE  /\ EndNum(total) \in Nat
           /\ total >= 1 => /\ EndNum(total) >= 1
                            /\ PageSize * (EndNum(total) - 1) < total
                            /\ total <= PageSize * EndNum(total)
           /\ total = 0  => EndNum(total) = 0
           /\ total = -1 => EndNum(total) = 1
  <1>0. PageSize \in Nat \ {0} /\ PageSize > 1
    BY SizesAssumption
  <1>1. CASE total >= 1
    <2> DEFINE q == total \div PageSize
    <2>1. q \in Int /\ PageSize * q <= total /\ total < PageSize * q + PageSize
      BY <1>0, DivBounds
    <2>2. PagesOf(total) = q
      BY <1>1 DEF PagesOf
    <2>3. total % PageSize = total - PageSize * q
      BY <1>0
    <2>4. q >= 0
      BY <1>0, <1>1, <2>1, Between
    <2>5. CASE total % PageSize = 0
      <3>1. EndNum(total) = q
        BY <2>1, <2>2, <2>5 DEF EndNum
      <3>2. total = PageSize * q
        BY <1>0, <2>1, <2>3, <2>5
      <3>3. q # 0
        BY <1>0, <1>1, <3>2
      <3>4. PageSize * (q - 1) = PageSize * q - PageSize
        BY <1>0, <2>1
      <3> HIDE DEF q
      <3> QED BY <1>0, <1>1, <2>1, <2>4, <3>1, <3>2, <3>3, <3>4
    <2>6. CASE total % PageSize # 0
      <3>1. EndNum(total) = q + 1
        BY <2>1, <2>2, <2>6 DEF EndNum
      <3>2. PageSize * q < total
        BY <1>0, <2>1, <2>3, <2>6
      <3>3. PageSize * (q + 1) = PageSize * q + PageSize
        BY <1>0, <2>1
      <3> HIDE DEF q
      <3> QED BY <1>0, <1>1, <2>1, <2>4, <3>1, <3>2, <3>3
    <2> QED BY <2>5, <2>6
  <1>2. CASE total = 0
    <2>1. 0 \div PageSize = 0 /\ 0 % PageSize = 0
      BY <1>0
    <2> QED BY <1>2, <2>1 DEF EndNum, PagesOf
  <1>3. CASE total = -1
    <2>1. 1 \div PageSize = 0
      BY <1>0, DivIs
    <2>2. (-1) % PageSize # 0
      BY <1>0
    <2> QED BY <1>3, <2>1, <2>2 DEF EndNum, PagesOf
  <1> QED BY <1>1, <1>2, <1>3

\* The largest of a set of numbers that has one.
LEMMA MaxIs ==
    ASSUME NEW S \in SUBSET (1..MaxTop), S # {}
    PROVE  Max(S) \in S /\ \A x \in S : x <= Max(S)
  <1> DEFINE gaps == {MaxTop - x : x \in S}
  <1>1. gaps \subseteq Nat /\ gaps # {}
    <2>1. \A x \in S : MaxTop - x \in Nat
      BY SizesAssumption
    <2> QED BY <2>1
  <1>2. PICK g \in gaps : \A h \in gaps : ~(<<h, g>> \in OpToRel(<, Nat))
    BY <1>1, NatLessThanWellFounded, WFMin
  <1>3. \A h \in gaps : ~(h < g)
    BY <1>1, <1>2 DEF OpToRel
  <1>4. PICK m \in S : g = MaxTop - m
    OBVIOUS
  <1>5. \A x \in S : m >= x
    <2> SUFFICES ASSUME NEW x \in S PROVE m >= x
      OBVIOUS
    <2>1. ~(MaxTop - x < MaxTop - m)
      BY <1>3, <1>4
    <2> QED BY <2>1, SizesAssumption
  <1>6. Max(S) \in S /\ \A x \in S : Max(S) >= x
    BY <1>4, <1>5 DEF Max
  <1> QED BY <1>6

\* Of s rows, the newest t, those of the page whose first index is start.
WindowOf(t, s, start) ==
    {r \in (t - s + 1)..t : r <= t - start /\ r > t - start - PageSize}
RowsAt(t, s, start) == IF kind = "blocks" THEN WindowOf(t, s, start) \ Unread
                       ELSE WindowOf(t, s, start)

LEMMA BlockRowsAre ==
    ASSUME top \in 0..MaxTop, NEW start \in 0..top
    PROVE  BlockRows(start) = WindowOf(top, top, start) \ Unread
  <1>1. Unsigned(top - start) = top - start
    BY SizesAssumption DEF Unsigned
  <1>2. ASSUME NEW r \in BlockRows(start) PROVE r \in WindowOf(top, top, start) \ Unread
    BY <1>1, <1>2, SizesAssumption DEF BlockRows, WindowOf
  <1>3. ASSUME NEW r \in WindowOf(top, top, start) \ Unread PROVE r \in BlockRows(start)
    <2>1. r \in 1..top /\ r \notin Unread
      BY <1>3 DEF WindowOf
    <2>2. (top - start - r) \in 0..(PageSize - 1) /\ r = (top - start) - (top - start - r)
      BY <1>3, SizesAssumption DEF WindowOf
    <2> QED BY <1>1, <2>1, <2>2 DEF BlockRows
  <1> QED BY <1>2, <1>3

LEMMA FeedRowsAre ==
    ASSUME top \in 0..MaxTop, len \in 0..top, NEW start \in Nat
    PROVE  FeedRows(start) = WindowOf(top, len, start)
  <1>1. ASSUME NEW r \in FeedRows(start) PROVE r \in WindowOf(top, len, start)
    BY <1>1, SizesAssumption DEF FeedRows, WindowOf
  <1>2. ASSUME NEW r \in WindowOf(top, len, start) PROVE r \in FeedRows(start)
    <2>1. top - r \in start..(start + PageSize - 1) /\ top - r < len /\ r = top - (top - r)
      BY <1>2, SizesAssumption DEF WindowOf
    <2> QED BY <2>1 DEF FeedRows
  <1> QED BY <1>1, <1>2

LEMMA WindowType ==
    ASSUME NEW t \in 0..MaxTop, NEW s \in 0..t, NEW start \in Int
    PROVE  /\ WindowOf(t, s, start) \subseteq 1..MaxTop
           /\ RowsAt(t, s, start) \subseteq 1..MaxTop
  BY SizesAssumption DEF WindowOf, RowsAt

-----------------------------------------------------------------------------
(* The inductive invariant. *)

\* A total that was the length of a feed already cut is not lost again.
Known(total) == total <= ListCap => total <= len

\* A click on its way: it asks for a whole page; what it may leave out is behind
\* it; and unless its page had a number past the last one, it stays in the feed.
Asked(m) ==
    /\ m.after <= top - m.start
    /\ kind = "blocks" => m.stage = "asked" /\ 0 <= m.start /\ m.start <= top
    /\ kind = "transactions" /\ ~m.from.beyond /\ m.from.total <= ListCap =>
           0 <= m.start /\ m.start <= ListCap /\ m.start <= len
    /\ m.stage = "counted" => Known(m.total)

\* An answer: the rows are the window of one state of the server.
Answered(m) ==
    /\ m.after <= m.top - m.start
    /\ m.top <= top /\ m.size <= m.top
    /\ 0 <= m.start /\ m.start <= m.size
    /\ m.rows = RowsAt(m.top, m.size, m.start)
    /\ kind = "blocks" => m.size = m.top /\ m.total = m.top
    /\ kind = "transactions" => Known(m.total)

Messages ==
    /\ messages # {} => page = "open"
    /\ \A m \in messages :
          /\ \E k \in Int : m.start = PageSize * k
          /\ IF m.stage = "answered" THEN Answered(m) ELSE Asked(m)

\* What the browser shows is the window of an earlier state of the server, and
\* its numbers come from that window and its total.
Screen ==
    /\ shown.top <= top /\ shown.size <= shown.top
    /\ rows # {} => rows = RowsAt(shown.top, shown.size, shown.start)
    /\ page # "open" => shown.start = 0
    /\ page = "opening" => kind = "transactions"
    /\ page = "open" =>
         /\ current >= 1 /\ shown.start = PageSize * (current - 1)
         /\ shown.total >= -1 /\ end = EndNum(shown.total)
         /\ kind = "blocks" => /\ shown.size = shown.top /\ current <= end
                               /\ 1 <= shown.total /\ shown.total <= shown.top
         /\ kind = "transactions" => Known(shown.total)

Chain == kind = "blocks" => len = top

Inv  == Messages /\ Screen /\ Chain /\ ClicksInRange
IInv == TypeOK /\ Inv

LEMMA InitInv == Init => IInv
  BY SizesAssumption
     DEF Init, IInv, TypeOK, Inv, Messages, Screen, Chain, ClicksInRange

-----------------------------------------------------------------------------
(* The server's steps. *)

LEMMA ServerStep == IInv /\ Server => IInv'
  <1> SUFFICES ASSUME IInv, Server PROVE IInv'
    OBVIOUS
  <1> USE SizesAssumption DEF IInv, Inv
  <1>1. /\ UNCHANGED <<kind, messages, clicks, browser, panics>>
        /\ top' \in top..MaxTop /\ len' \in 0..top'
        /\ kind = "blocks" => len' = top'
        /\ kind = "transactions" => len' >= len \/ len' = ListCap
    <2>1. CASE Connect
      BY <2>1 DEF Connect, TypeOK, Chain
    <2>2. CASE PutInFront
      BY <2>2 DEF PutInFront, TypeOK, Chain
    <2>3. CASE Cut
      BY <2>3 DEF Cut, TypeOK, Chain
    <2> QED BY <2>1, <2>2, <2>3 DEF Server
  <1>2. TypeOK'
    BY <1>1 DEF TypeOK, browser
  <1>3. \A t \in Int : kind = "transactions" /\ Known(t) => Known(t)'
    BY <1>1 DEF Known, TypeOK
  <1>4. Messages'
    <2> SUFFICES ASSUME NEW m \in messages
                 PROVE  /\ \E k \in Int : m.start = PageSize * k
                        /\ IF m.stage = "answered" THEN Answered(m)' ELSE Asked(m)'
      BY <1>1 DEF Messages, browser
    <2>1. /\ m.stage \in {"asked", "counted", "answered"}
          /\ m.start \in Int /\ m.after \in Int /\ m.top \in Nat /\ m.size \in Nat
          /\ m.total \in Nat /\ m.from.total \in Int
      BY DEF TypeOK
    <2>2. kind \in {"blocks", "transactions"} /\ kind' = kind
      BY <1>1 DEF TypeOK
    <2>3. \E k \in Int : m.start = PageSize * k
      BY DEF Messages
    <2>4. CASE m.stage = "answered"
      <3>1. Answered(m)
        BY <2>4 DEF Messages
      <3>2. RowsAt(m.top, m.size, m.start)' = RowsAt(m.top, m.size, m.start)
        BY <2>2 DEF RowsAt, WindowOf
      <3>3. m.top <= top'
        BY <1>1, <2>1, <3>1 DEF Answered, TypeOK
      <3>4. kind = "transactions" => Known(m.total)'
        BY <1>3, <2>1, <3>1 DEF Answered
      <3> QED BY <2>2, <2>3, <2>4, <3>1, <3>2, <3>3, <3>4 DEF Answered
    <2>5. CASE m.stage # "answered"
      <3>1. Asked(m)
        BY <2>5 DEF Messages
      <3>2. m.after <= top' - m.start
        BY <1>1, <2>1, <3>1 DEF Asked, TypeOK
      <3>3. kind = "blocks" => m.stage = "asked" /\ 0 <= m.start /\ m.start <= top'
        BY <1>1, <2>1, <3>1 DEF Asked, TypeOK
      <3>4. kind = "transactions" /\ ~m.from.beyond /\ m.from.total <= ListCap =>
                0 <= m.start /\ m.start <= ListCap /\ m.start <= len'
        BY <1>1, <2>1, <3>1 DEF Asked, TypeOK
      <3>5. m.stage = "counted" => kind = "transactions" /\ Known(m.total)'
        BY <1>3, <2>1, <2>2, <3>1 DEF Asked
      <3> QED BY <2>2, <2>3, <2>5, <3>2, <3>3, <3>4, <3>5 DEF Asked
    <2> QED BY <2>4, <2>5
  <1>5. Screen'
    <2>1. shown.top \in Nat /\ shown.total \in Int
      BY DEF TypeOK
    <2>2. kind' = kind /\ UNCHANGED browser
      BY <1>1
    <2>3. RowsAt(shown.top, shown.size, shown.start)'
              = RowsAt(shown.top, shown.size, shown.start)
      BY <2>2 DEF RowsAt, WindowOf, browser
    <2>4. EndNum(shown.total)' = EndNum(shown.total)
      BY <2>2 DEF EndNum, PagesOf, browser
    <2>5. shown.top <= top'
      BY <1>1, <2>1 DEF Screen, TypeOK
    <2>6. page = "open" /\ kind = "transactions" => Known(shown.total)'
      BY <1>3, <2>1, <2>2 DEF Screen, Known, browser
    <2> QED BY <2>2, <2>3, <2>4, <2>5, <2>6 DEF Screen, browser
  <1>6. Chain' /\ ClicksInRange'
    BY <1>1 DEF Chain, ClicksInRange
  <1> QED BY <1>2, <1>4, <1>5, <1>6

-----------------------------------------------------------------------------
(* The page's first rows. *)

LEMMA OpenBlocksStep == IInv /\ OpenBlocks => IInv'
  <1> SUFFICES ASSUME IInv, OpenBlocks PROVE IInv'
    OBVIOUS
  <1> USE SizesAssumption DEF IInv, Inv
  <1>0. /\ kind = "blocks" /\ page = "closed" /\ rows' = BlockRows(0)
        /\ UNCHANGED <<kind, top, len, messages, clicks, panics>>
    BY DEF OpenBlocks, server
  <1>1. top \in 0..MaxTop /\ len = top /\ 0 \in 0..top
    BY <1>0 DEF TypeOK, Chain
  <1>2. rows' = RowsAt(top, top, 0)
    BY <1>0, <1>1, BlockRowsAre DEF RowsAt
  <1>3. rows' \subseteq 1..MaxTop /\ \A r \in rows' : r >= 1 /\ r <= top
    BY <1>0, <1>1, <1>2, WindowType DEF RowsAt, WindowOf
  <1>4. Messages' /\ Chain' /\ ClicksInRange'
    BY <1>0 DEF Messages, Asked, Answered, Known, RowsAt, WindowOf, Chain, ClicksInRange
  <1>5. CASE rows' = {}
    <2>1. page' = "broken" /\ UNCHANGED <<current, end, shown>>
      BY <1>5 DEF OpenBlocks
    <2>2. TypeOK'
      BY <1>0, <1>3, <2>1 DEF TypeOK
    <2>3. Screen'
      BY <1>0, <1>5, <2>1 DEF Screen
    <2> QED BY <1>4, <2>2, <2>3
  <1>6. CASE rows' # {}
    <2>1. PICK first \in 1..MaxTop :
              /\ first <= top
              /\ page' = "open" /\ current' = 1 /\ end' = EndNum(first)
              /\ shown' = [top |-> top, size |-> len, total |-> first, start |-> 0]
      <3>1. Max(rows') \in 1..MaxTop /\ Max(rows') <= top
        BY <1>3, <1>6, MaxIs
      <3> QED BY <1>6, <3>1 DEF OpenBlocks
    <2>2. EndNum(first) \in Nat /\ EndNum(first) >= 1
      BY <2>1, EndNumIs
    <2>3. TypeOK'
      BY <1>0, <1>1, <1>3, <2>1, <2>2 DEF TypeOK
    <2>4. Screen'
      BY <1>0, <1>1, <1>2, <2>1, <2>2 DEF Screen, RowsAt, WindowOf, EndNum, PagesOf
    <2> QED BY <1>4, <2>3, <2>4
  <1> QED BY <1>5, <1>6

LEMMA OpenTransactionsStep == IInv /\ OpenTransactions => IInv'
  <1> SUFFICES ASSUME IInv, OpenTransactions PROVE IInv'
    OBVIOUS
  <1> USE SizesAssumption DEF IInv, Inv
  <1>0. /\ kind = "transactions" /\ page = "closed" /\ page' = "opening"
        /\ rows' = FeedRows(0)
        /\ shown' = [shown EXCEPT !.top = top, !.size = len]
        /\ UNCHANGED <<kind, top, len, messages, clicks, current, end, panics>>
    BY DEF OpenTransactions, server
  <1>1. top \in 0..MaxTop /\ len \in 0..top
    BY DEF TypeOK
  <1>2. rows' = RowsAt(top, len, 0)
    BY <1>0, <1>1, FeedRowsAre DEF RowsAt
  <1>3. rows' \subseteq 1..MaxTop
    BY <1>1, <1>2, WindowType
  <1>4. Messages' /\ Chain' /\ ClicksInRange'
    BY <1>0 DEF Messages, Asked, Answered, Known, RowsAt, WindowOf, Chain, ClicksInRange
  <1>5. /\ shown.start = 0 /\ shown'.start = 0
        /\ shown'.top = top /\ shown'.size = len
    BY <1>0 DEF Screen, TypeOK
  <1>6. TypeOK'
    <2>1. shown' \in [top : Nat, size : Nat, total : Int, start : Int]
      <3>1. shown \in [top : Nat, size : Nat, total : Int, start : Int]
        BY DEF TypeOK
      <3>2. top \in Nat /\ len \in Nat
        BY <1>1
      <3> QED BY <1>0, <3>1, <3>2
    <2> QED BY <1>0, <1>3, <2>1 DEF TypeOK
  <1>7. Screen'
    BY <1>0, <1>1, <1>2, <1>5 DEF Screen, RowsAt, WindowOf
  <1> QED BY <1>4, <1>6, <1>7

LEMMA ReadLengthStep == IInv /\ ReadLength => IInv'
  <1> SUFFICES ASSUME IInv, ReadLength PROVE IInv'
    OBVIOUS
  <1> USE SizesAssumption DEF IInv, Inv
  <1>0. /\ page = "opening" /\ page' = "open" /\ current' = 1
        /\ end' = EndNum(len - 1)
        /\ shown' = [shown EXCEPT !.total = len - 1]
        /\ UNCHANGED <<kind, top, len, messages, clicks, rows, panics>>
    BY DEF ReadLength, server
  <1>1. top \in 0..MaxTop /\ len \in 0..top /\ len - 1 \in Int /\ len - 1 >= -1
    BY DEF TypeOK
  <1>2. EndNum(len - 1) \in Nat
    BY <1>1, EndNumIs
  <1>3. kind = "transactions" /\ shown.start = 0
    BY <1>0 DEF Screen
  <1>4. /\ shown'.start = 0 /\ shown'.top = shown.top /\ shown'.size = shown.size
        /\ shown'.total = len - 1
    BY <1>0, <1>3 DEF TypeOK
  <1>5. TypeOK'
    BY <1>0, <1>1, <1>2 DEF TypeOK
  <1>6. Messages' /\ Chain' /\ ClicksInRange'
    BY <1>0 DEF Messages, Asked, Answered, Known, RowsAt, WindowOf, Chain, ClicksInRange
  <1>7. Known(len - 1)' /\ end' = EndNum(shown'.total) /\ 1 - 1 = 0 /\ PageSize * 0 = 0
    BY <1>0, <1>1, <1>4 DEF Known
  <1>8. EndNum(shown.total)' = EndNum(shown'.total)
    BY DEF EndNum, PagesOf
  <1>9. rows' # {} => rows' = RowsAt(shown.top, shown.size, shown.start)'
    BY <1>0, <1>4 DEF Screen, RowsAt, WindowOf
  <1>10. Screen'
    BY <1>0, <1>1, <1>3, <1>4, <1>7, <1>8, <1>9 DEF Screen, Known
  <1> QED BY <1>5, <1>6, <1>10

-----------------------------------------------------------------------------
(* Clicks. *)

\* What a button may ask for: within the numbers, if the current one is.
LEMMA AskStep ==
    ASSUME IInv, NEW p \in Int, NEW forward \in BOOLEAN, Ask(p, forward),
           current <= end => 0 <= p /\ p <= end - 1,
           forward => p = current
    PROVE  IInv'
  <1> USE SizesAssumption DEF IInv, Inv
  <1> DEFINE m == [id |-> clicks, stage |-> "asked", start |-> p * PageSize,
                   after |-> IF forward THEN shown.top - shown.start - PageSize
                             ELSE -p * PageSize,
                   from |-> [total |-> shown.total, beyond |-> current > end],
                   top |-> 0, size |-> 0, total |-> 0, rows |-> {}]
  <1>0. /\ page = "open" /\ clicks < MaxClicks /\ clicks' = clicks + 1
        /\ messages' = messages \cup {m}
        /\ UNCHANGED <<kind, top, len, page, rows, current, end, shown, panics>>
    BY DEF Ask, server, browser
  <1>1. /\ top \in 0..MaxTop /\ len \in 0..top /\ clicks \in 0..MaxClicks
        /\ current \in Nat /\ end \in Nat
        /\ shown.top \in Nat /\ shown.start \in Int /\ shown.total \in Int
    BY DEF TypeOK
  <1>2. /\ m.start = PageSize * p /\ m.start \in Int
        /\ (-p) * PageSize = -(PageSize * p)
    OBVIOUS
  <1>3. m.after \in Int /\ m.after <= top - m.start
    <2>1. CASE forward
      <3>1. /\ shown.start = PageSize * (current - 1) /\ shown.top <= top
            /\ PageSize * (current - 1) = PageSize * current - PageSize
        BY <1>0, <1>1 DEF Screen
      <3> QED BY <1>1, <1>2, <2>1, <3>1
    <2>2. CASE ~forward
      BY <1>1, <1>2, <2>2
    <2> QED BY <2>1, <2>2
  <1>4. ASSUME current <= end, shown.total >= 0
        PROVE  0 <= m.start /\ m.start < shown.total
    <2>1. shown.total >= 1 /\ PageSize * (end - 1) < shown.total
      BY <1>0, <1>1, <1>4, EndNumIs DEF Screen
    <2>2. PageSize * p <= PageSize * (end - 1) /\ PageSize * p >= 0
      BY <1>1, <1>4
    <2> HIDE DEF m
    <2> QED BY <1>1, <1>2, <2>1, <2>2
  <1>5. ASSUME current <= end, shown.total = -1
        PROVE  m.start = 0
    <2>1. end = 1
      BY <1>0, <1>5, EndNumIs DEF Screen
    <2>2. p = 0
      BY <1>5, <2>1
    <2> QED BY <1>2, <2>2
  <1>6. Asked(m)
    <2>1. kind = "blocks" => 0 <= m.start /\ m.start <= top
      BY <1>0, <1>1, <1>2, <1>4 DEF Screen
    <2>2. kind = "transactions" /\ current <= end /\ shown.total <= ListCap =>
              0 <= m.start /\ m.start <= ListCap /\ m.start <= len
      <3> SUFFICES ASSUME kind = "transactions", current <= end, shown.total <= ListCap
                   PROVE  0 <= m.start /\ m.start <= ListCap /\ m.start <= len
        OBVIOUS
      <3>1. shown.total >= -1 /\ shown.total <= len
        BY <1>0 DEF Screen, Known
      <3>2. CASE shown.total >= 0
        BY <1>1, <1>2, <1>4, <3>1, <3>2
      <3>3. CASE shown.total = -1
        BY <1>1, <1>5, <3>3
      <3> QED BY <1>1, <3>1, <3>2, <3>3
    <2>3. m.stage = "asked" /\ m.from.total = shown.total /\ m.from.beyond = (current > end)
      OBVIOUS
    <2> HIDE DEF m
    <2>4. ~m.from.beyond => current <= end
      <3>1. ~m.from.beyond => ~(current > end)
        BY <2>3
      <3>2. ~(current > end) => current <= end
        BY <1>1
      <3> QED BY <3>1, <3>2
    <2> QED BY <1>3, <2>1, <2>2, <2>3, <2>4 DEF Asked
  <1>7. m \in [id : 0..MaxClicks, stage : {"asked", "counted", "answered"},
               start : Int, after : Int, from : [total : Int, beyond : BOOLEAN],
               top : Nat, size : Nat, total : Nat, rows : SUBSET (1..MaxTop)]
    BY <1>1, <1>2, <1>3
  <1>8. m.stage = "asked"
    OBVIOUS
  <1> HIDE DEF m
  <1>9. TypeOK'
    BY <1>0, <1>1, <1>7 DEF TypeOK
  <1>10. Messages'
    <2>1. /\ \E k \in Int : m.start = PageSize * k
          /\ IF m.stage = "answered" THEN Answered(m) ELSE Asked(m)
      BY <1>2, <1>6, <1>8
    <2>2. \A n \in messages \cup {m} :
              /\ \E k \in Int : n.start = PageSize * k
              /\ IF n.stage = "answered" THEN Answered(n) ELSE Asked(n)
      BY <2>1 DEF Messages
    <2>3. ASSUME NEW n \in messages \cup {m}
          PROVE  (Answered(n) => Answered(n)') /\ (Asked(n) => Asked(n)')
      BY <1>0 DEF Answered, Asked, Known, RowsAt, WindowOf
    <2> QED BY <1>0, <2>2, <2>3 DEF Messages
  <1>11. Screen' /\ Chain' /\ ClicksInRange'
    BY <1>0 DEF Screen, Known, RowsAt, WindowOf, EndNum, PagesOf, Chain, ClicksInRange
  <1> QED BY <1>9, <1>10, <1>11

LEMMA ClickStep == IInv /\ Click => IInv'
  <1> SUFFICES ASSUME IInv, Click PROVE IInv'
    OBVIOUS
  <1>1. current \in Nat /\ end \in Nat
    BY DEF IInv, TypeOK
  <1>2. page = "open" => current >= 1
    BY DEF IInv, Inv, Screen
  <1>3. CASE ClickBack
    <2>1. PICK p \in {0, current - 2} : Ask(p, FALSE) /\ current # 1
      BY <1>3 DEF ClickBack
    <2>2. page = "open"
      BY <2>1 DEF Ask
    <2>3. p \in Int /\ (current <= end => 0 <= p /\ p <= end - 1)
      BY <1>1, <1>2, <2>1, <2>2
    <2> QED BY <2>1, <2>3, AskStep
  <1>4. CASE ClickNext
    <2>1. Ask(current, TRUE) /\ current # end
      BY <1>4 DEF ClickNext, AtEnd, NextPage
    <2>2. current \in Int /\ (current <= end => 0 <= current /\ current <= end - 1)
      BY <1>1, <2>1
    <2> QED BY <2>1, <2>2, AskStep
  <1>5. CASE ClickBottom
    <2>1. Ask(end - 1, FALSE) /\ page = "open"
      BY <1>5 DEF ClickBottom, Ask
    <2>2. end - 1 \in Int /\ (current <= end => 0 <= end - 1 /\ end - 1 <= end - 1)
      BY <1>1, <1>2, <2>1
    <2> QED BY <2>1, <2>2, AskStep
  <1>6. CASE ClickNumber
    <2>1. PICK n \in Offered : Ask(n - 1, FALSE)
      BY <1>6 DEF ClickNumber
    <2>2. n \in Int /\ n > 0 /\ n < end + 1
      BY <1>1, <2>1, SizesAssumption, DivBounds DEF Offered, Window
    <2>3. n - 1 \in Int /\ (current <= end => 0 <= n - 1 /\ n - 1 <= end - 1)
      BY <1>1, <2>2
    <2> QED BY <2>1, <2>3, AskStep
  <1> QED BY <1>3, <1>4, <1>5, <1>6 DEF Click

-----------------------------------------------------------------------------
(* The way of a click through the server and back. *)

MessageType == [id : 0..MaxClicks, stage : {"asked", "counted", "answered"},
                start : Int, after : Int, from : [total : Int, beyond : BOOLEAN],
                top : Nat, size : Nat, total : Nat, rows : SUBSET (1..MaxTop)]

\* A message goes on, and nothing else changes.
LEMMA ReplaceStep ==
    ASSUME IInv, NEW m \in messages, NEW n \in MessageType, Replace(m, n),
           n.start = m.start,
           IF n.stage = "answered" THEN Answered(n) ELSE Asked(n),
           UNCHANGED <<kind, server, clicks, browser, panics>>
    PROVE  IInv'
  <1> USE DEF IInv, Inv
  <1>1. UNCHANGED <<kind, top, len, clicks, page, rows, current, end, shown, panics>>
    BY DEF server, browser
  <1>2. messages' = (messages \ {m}) \cup {n}
    BY DEF Replace
  <1>3. TypeOK'
    BY <1>1, <1>2 DEF TypeOK, MessageType
  <1>4. Messages'
    <2>1. \A x \in messages' :
              /\ \E k \in Int : x.start = PageSize * k
              /\ IF x.stage = "answered" THEN Answered(x) ELSE Asked(x)
      BY <1>2 DEF Messages
    <2>2. ASSUME NEW x
          PROVE  (Answered(x) => Answered(x)') /\ (Asked(x) => Asked(x)')
      BY <1>1 DEF Answered, Asked, Known, RowsAt, WindowOf
    <2>3. page' = "open"
      BY <1>1 DEF Messages
    <2> QED BY <2>1, <2>2, <2>3 DEF Messages
  <1>5. Screen' /\ Chain' /\ ClicksInRange'
    BY <1>1 DEF Screen, Known, RowsAt, WindowOf, EndNum, PagesOf, Chain, ClicksInRange
  <1> QED BY <1>3, <1>4, <1>5

\* What an invariant says of a message that is not answered yet.
LEMMA AskedType ==
    ASSUME IInv, NEW m \in messages
    PROVE  /\ m \in MessageType
           /\ top \in 0..MaxTop /\ top \in Nat /\ len \in 0..top /\ len \in Nat
           /\ kind \in {"blocks", "transactions"}
           /\ page = "open"
           /\ m.stage # "answered" => Asked(m)
           /\ m.stage = "answered" => Answered(m)
           /\ \E k \in Int : m.start = PageSize * k
  BY SizesAssumption DEF IInv, TypeOK, MessageType, Inv, Messages

LEMMA AnswerBlocksStep == ASSUME IInv, NEW m \in messages, AnswerBlocks(m) PROVE IInv'
  <1> DEFINE n == [m EXCEPT !.stage = "answered", !.total = top, !.top = top,
                            !.size = len, !.rows = BlockRows(m.start)]
  <1>1. /\ kind = "blocks" /\ m.stage = "asked" /\ Replace(m, n)
        /\ UNCHANGED <<kind, server, clicks, browser, panics>>
    BY DEF AnswerBlocks
  <1>2. m \in MessageType /\ top \in 0..MaxTop /\ top \in Nat /\ Asked(m) /\ len = top
    BY <1>1, AskedType DEF IInv, Inv, Chain
  <1>3. m.start \in 0..top
    BY <1>1, <1>2 DEF Asked, MessageType
  <1>4. BlockRows(m.start) = RowsAt(top, top, m.start)
    BY <1>1, <1>2, <1>3, BlockRowsAre DEF RowsAt
  <1>5. BlockRows(m.start) \in SUBSET (1..MaxTop)
    BY <1>2, <1>3, <1>4, WindowType
  <1>6. /\ n \in MessageType /\ n.stage = "answered"
        /\ n.start = m.start /\ n.after = m.after /\ n.total = top
        /\ n.top = top /\ n.size = top /\ n.rows = RowsAt(top, top, m.start)
    BY <1>2, <1>4, <1>5 DEF MessageType
  <1> HIDE DEF n
  <1>7. Answered(n)
    BY <1>1, <1>2, <1>3, <1>6 DEF Answered, Asked
  <1> QED BY <1>1, <1>6, <1>7, ReplaceStep

LEMMA CountFeedStep == ASSUME IInv, NEW m \in messages, CountFeed(m) PROVE IInv'
  <1> DEFINE n == [m EXCEPT !.stage = "counted", !.total = len]
  <1>1. /\ kind = "transactions" /\ m.stage = "asked" /\ Replace(m, n)
        /\ UNCHANGED <<kind, server, clicks, browser, panics>>
    BY DEF CountFeed
  <1>2. m \in MessageType /\ Asked(m) /\ len \in Nat
    BY <1>1, AskedType
  <1>3. /\ n \in MessageType /\ n.stage = "counted" /\ n.start = m.start
        /\ n.after = m.after /\ n.from = m.from /\ n.total = len
    BY <1>2 DEF MessageType
  <1> HIDE DEF n
  <1>4. Asked(n)
    BY <1>1, <1>2, <1>3 DEF Asked, Known
  <1> QED BY <1>1, <1>3, <1>4, ReplaceStep

LEMMA AnswerTransactionsStep ==
    ASSUME IInv, NEW m \in messages, AnswerTransactions(m)
    PROVE  IInv'
  <1> DEFINE n == [m EXCEPT !.stage = "answered", !.top = top, !.size = len,
                            !.rows = FeedRows(m.start)]
  <1>1. /\ m.stage = "counted" /\ InFeed(m.start) /\ Replace(m, n)
        /\ UNCHANGED <<kind, server, clicks, browser, panics>>
    BY DEF AnswerTransactions
  <1>2. /\ m \in MessageType /\ Asked(m)
        /\ top \in 0..MaxTop /\ top \in Nat /\ len \in 0..top /\ len \in Nat
    BY <1>1, AskedType
  <1>3. kind = "transactions"
    BY <1>1, <1>2, AskedType DEF Asked
  <1>4. m.start \in Nat /\ m.start <= len
    BY <1>1, <1>2 DEF InFeed, MessageType
  <1>5. FeedRows(m.start) = RowsAt(top, len, m.start)
    BY <1>2, <1>3, <1>4, FeedRowsAre DEF RowsAt
  <1>6. FeedRows(m.start) \in SUBSET (1..MaxTop)
    BY <1>2, <1>4, <1>5, WindowType
  <1>7. /\ n \in MessageType /\ n.stage = "answered"
        /\ n.start = m.start /\ n.after = m.after /\ n.total = m.total
        /\ n.top = top /\ n.size = len /\ n.rows = RowsAt(top, len, m.start)
    BY <1>2, <1>5, <1>6 DEF MessageType
  <1> HIDE DEF n
  <1>8. Answered(n)
    BY <1>1, <1>2, <1>3, <1>4, <1>7 DEF Answered, Asked
  <1> QED BY <1>1, <1>7, <1>8, ReplaceStep

\* A message is gone, and the screen is as good as before.
LEMMA GoneStep ==
    ASSUME IInv, NEW m \in messages, messages' = messages \ {m},
           UNCHANGED <<kind, top, len, clicks, page>>,
           /\ rows' \subseteq 1..MaxTop /\ current' \in Nat /\ end' \in Nat
           /\ shown' \in [top : Nat, size : Nat, total : Int, start : Int]
           /\ panics' \subseteq [total : Int, beyond : BOOLEAN],
           Screen', ClicksInRange'
    PROVE  IInv'
  <1> USE DEF IInv, Inv
  <1>1. TypeOK'
    BY DEF TypeOK
  <1>2. Messages'
    <2>1. ASSUME NEW x
          PROVE  (Answered(x) => Answered(x)') /\ (Asked(x) => Asked(x)')
      BY DEF Answered, Asked, Known, RowsAt, WindowOf
    <2> QED BY <2>1 DEF Messages
  <1>3. Chain'
    BY DEF Chain
  <1> QED BY <1>1, <1>2, <1>3

LEMMA SameScreen ==
    ASSUME IInv, UNCHANGED <<kind, server, clicks, browser>>
    PROVE  /\ Screen'
           /\ rows' \subseteq 1..MaxTop /\ current' \in Nat /\ end' \in Nat
           /\ shown' \in [top : Nat, size : Nat, total : Int, start : Int]
           /\ UNCHANGED <<kind, top, len, clicks, page>>
  BY DEF IInv, Inv, TypeOK, Screen, Known, RowsAt, WindowOf, EndNum, PagesOf,
         server, browser

LEMMA PanicStep ==
    ASSUME IInv, NEW m \in messages, PanicTransactions(m) PROVE IInv'
  <1>1. /\ m.stage = "counted" /\ ~InFeed(m.start)
        /\ messages' = messages \ {m} /\ panics' = panics \cup {m.from}
        /\ UNCHANGED <<kind, server, clicks, browser>>
    BY DEF PanicTransactions
  <1>2. m \in MessageType /\ Asked(m) /\ kind = "transactions"
    BY <1>1, AskedType DEF Asked
  <1>3. m.from \in [total : Int, beyond : BOOLEAN]
    BY <1>2 DEF MessageType
  <1>4. m.from.beyond \/ m.from.total > ListCap
    <2>1. m.from.beyond \/ ~(m.from.total <= ListCap)
      BY <1>1, <1>2 DEF Asked, InFeed
    <2>2. ~(m.from.total <= ListCap) => m.from.total > ListCap
      BY <1>3, SizesAssumption
    <2> QED BY <2>1, <2>2
  <1>5. panics' \subseteq [total : Int, beyond : BOOLEAN]
    BY <1>1, <1>3 DEF IInv, TypeOK
  <1>6. ClicksInRange'
    BY <1>1, <1>4 DEF IInv, Inv, ClicksInRange
  <1> QED BY <1>1, <1>5, <1>6, SameScreen, GoneStep

LEMMA LoseStep == ASSUME IInv, NEW m \in messages, Lose(m) PROVE IInv'
  <1>1. /\ messages' = messages \ {m}
        /\ UNCHANGED <<kind, server, clicks, browser, panics>>
    BY DEF Lose
  <1>2. panics' \subseteq [total : Int, beyond : BOOLEAN] /\ ClicksInRange'
    BY <1>1 DEF IInv, Inv, TypeOK, ClicksInRange
  <1> QED BY <1>1, <1>2, SameScreen, GoneStep

\* The rows of a window are within a page of its first index.
LEMMA RowsAreNear ==
    ASSUME NEW t \in Nat, NEW s \in Nat, NEW start \in Int, NEW r \in RowsAt(t, s, start)
    PROVE  /\ r \in Int /\ r > t - s /\ r <= t
           /\ start <= t - r /\ t - r < start + PageSize
  BY SizesAssumption DEF RowsAt, WindowOf

LEMMA DeliverStep == ASSUME IInv, NEW m \in messages, Deliver(m) PROVE IInv'
  <1>1. /\ m.stage = "answered" /\ messages' = messages \ {m} /\ rows' = m.rows
        /\ UNCHANGED <<kind, top, len, clicks, page, panics>>
    BY DEF Deliver, server
  <1>2. /\ m \in MessageType /\ Answered(m) /\ page = "open"
        /\ kind \in {"blocks", "transactions"} /\ top \in Nat
    BY <1>1, AskedType
  <1>3. panics' \subseteq [total : Int, beyond : BOOLEAN] /\ ClicksInRange'
    BY <1>1 DEF IInv, Inv, TypeOK, ClicksInRange
  <1>4. rows' \subseteq 1..MaxTop
    BY <1>1, <1>2 DEF MessageType
  <1>5. CASE kind = "blocks" /\ m.rows = {}
    <2>1. UNCHANGED <<current, end, shown>>
      BY <1>5 DEF Deliver
    <2>2. Screen'
      BY <1>1, <1>5, <2>1 DEF IInv, Inv, Screen, Known, EndNum, PagesOf
    <2>3. /\ current' \in Nat /\ end' \in Nat
          /\ shown' \in [top : Nat, size : Nat, total : Int, start : Int]
      BY <2>1 DEF IInv, TypeOK
    <2> QED BY <1>1, <1>3, <1>4, <2>2, <2>3, GoneStep
  <1>6. CASE ~(kind = "blocks" /\ m.rows = {})
    <2>1. /\ current' = PagesOf(Offset(m)) + 1 /\ end' = EndNum(m.total)
          /\ shown' = [top |-> m.top, size |-> m.size, total |-> m.total,
                       start |-> m.start]
      BY <1>6 DEF Deliver
    <2>2. /\ m.start \in Int /\ m.top \in Nat /\ m.size \in Nat /\ m.total \in Nat
          /\ m.rows \in SUBSET (1..MaxTop)
          /\ 0 <= m.start /\ m.rows = RowsAt(m.top, m.size, m.start)
      BY <1>2 DEF MessageType, Answered
    <2>3. PICK k \in Int : m.start = PageSize * k
      BY AskedType
    <2>4. k \in Nat /\ PageSize \in Nat /\ PageSize > 1
      <3>1. PageSize \in Nat \ {0} /\ PageSize * 0 < PageSize * k + PageSize
        BY <2>2, <2>3, SizesAssumption
      <3>2. 0 <= k
        BY <3>1, Between
      <3> QED BY <3>2, SizesAssumption
    <2>5. /\ Offset(m) \in Int
          /\ m.start <= Offset(m) /\ Offset(m) < m.start + PageSize
      <3>1. CASE kind = "blocks"
        <4>1. Max(m.rows) \in m.rows
          BY <1>6, <2>2, <3>1, MaxIs
        <4>2. m.total = m.top
          BY <1>2, <3>1 DEF Answered
        <4> QED BY <2>2, <3>1, <4>1, <4>2, RowsAreNear DEF Offset
      <3>2. CASE kind = "transactions"
        BY <2>2, <2>4, <3>2 DEF Offset
      <3> QED BY <1>2, <3>1, <3>2
    <2>6. PagesOf(Offset(m)) = k
      BY <2>3, <2>4, <2>5, PageOf
    <2>7. current' = k + 1 /\ current' \in Nat /\ current' >= 1
          /\ m.start = PageSize * (current' - 1)
      BY <2>1, <2>3, <2>4, <2>6
    <2>8. end' \in Nat
      BY <2>1, <2>2, EndNumIs
    <2>9. shown' \in [top : Nat, size : Nat, total : Int, start : Int]
      BY <2>1, <2>2
    <2>10. kind = "blocks" => /\ m.size = m.top /\ 1 <= m.total /\ m.total <= m.top
                              /\ k + 1 <= EndNum(m.total)
      <3> SUFFICES ASSUME kind = "blocks"
                   PROVE  /\ m.size = m.top /\ 1 <= m.total /\ m.total <= m.top
                          /\ k + 1 <= EndNum(m.total)
        OBVIOUS
      <3>1. m.size = m.top /\ m.total = m.top
        BY <1>2 DEF Answered
      <3>2. PICK r \in m.rows : TRUE
        BY <1>6
      <3>3. m.start <= m.top - r /\ r >= 1
        BY <2>2, <3>1, <3>2, RowsAreNear
      <3>4. 1 <= m.total /\ PageSize * k < m.total
        BY <2>2, <2>3, <3>1, <3>2, <3>3
      <3>5. /\ m.total <= PageSize * EndNum(m.total) /\ EndNum(m.total) \in Nat
            /\ PageSize * (EndNum(m.total) - 1) + PageSize = PageSize * EndNum(m.total)
        BY <2>2, <2>4, <3>4, EndNumIs
      <3>6. k <= EndNum(m.total) - 1
        BY <2>2, <2>4, <3>4, <3>5, Between
      <3> QED BY <2>2, <3>1, <3>4, <3>5, <3>6
    <2>11. Screen'
      <3>1. /\ shown'.top = m.top /\ shown'.size = m.size
            /\ shown'.total = m.total /\ shown'.start = m.start
        BY <2>1
      <3>2. shown'.top <= top' /\ shown'.size <= shown'.top
        BY <1>1, <1>2, <3>1 DEF Answered
      <3>3. rows' = RowsAt(shown.top, shown.size, shown.start)'
        BY <1>1, <2>2, <3>1 DEF RowsAt, WindowOf
      <3>4. EndNum(shown.total)' = EndNum(m.total)
        BY <3>1 DEF EndNum, PagesOf
      <3>5. kind = "transactions" => Known(shown.total)'
        BY <1>1, <1>2, <3>1 DEF Answered, Known
      <3> QED BY <1>1, <1>2, <2>1, <2>2, <2>7, <2>10, <3>1, <3>2, <3>3, <3>4, <3>5
              DEF Screen
    <2> QED BY <1>1, <1>3, <1>4, <2>7, <2>8, <2>9, <2>11, GoneStep
  <1> QED BY <1>5, <1>6

LEMMA StepInv == IInv /\ [Next]_vars => IInv'
  <1> SUFFICES ASSUME IInv, [Next]_vars PROVE IInv'
    OBVIOUS
  <1>1. CASE Server
    BY <1>1, ServerStep
  <1>2. CASE Open
    BY <1>2, OpenBlocksStep, OpenTransactionsStep, ReadLengthStep DEF Open
  <1>3. CASE Click
    BY <1>3, ClickStep
  <1>4. CASE Message
    BY <1>4, AnswerBlocksStep, CountFeedStep, AnswerTransactionsStep, PanicStep,
       LoseStep, DeliverStep DEF Message
  <1>5. CASE UNCHANGED vars
    BY <1>5 DEF vars, server, browser, IInv, TypeOK, Inv, Messages, Answered, Asked,
       Known, Screen, RowsAt, WindowOf, EndNum, PagesOf, Chain, ClicksInRange
  <1> QED BY <1>1, <1>2, <1>3, <1>4, <1>5 DEF Next

LEMMA InvHolds == Spec => []IInv
  BY InitInv, StepInv, PTL DEF Spec

-----------------------------------------------------------------------------
(* The theorems. *)

\* Every variable of page, server and messages keeps its type.
THEOREM TypeCorrect == Spec => []TypeOK
  <1>1. IInv => TypeOK
    BY DEF IInv
  <1> QED BY <1>1, InvHolds, PTL

\* The current page is among the numbers offered.
LEMMA CurrentOffered ==
    ASSUME IInv, page = "open", current <= end
    PROVE  current \in Offered
  <1>1. current \in Nat /\ end \in Nat /\ current >= 1 /\ Numbers \in Nat \ {0}
    BY SizesAssumption DEF IInv, TypeOK, Inv, Screen
  <1> DEFINE q  == (current \div Numbers) * Numbers
             to == Min({q + Numbers, end + 1})
  <1>2. q \in Int /\ q <= current /\ current < q + Numbers
    BY <1>1, DivBounds
  <1>3. to \in {q + Numbers, end + 1} /\ to <= q + Numbers /\ to <= end + 1
    <2> HIDE DEF q
    <2>1. \E x \in {q + Numbers, end + 1} : \A y \in {q + Numbers, end + 1} : x <= y
      BY <1>1, <1>2
    <2> QED BY <2>1 DEF Min
  <1> HIDE DEF q
  <1>4. to \in Int /\ to > current /\ to - Numbers <= current
    BY <1>1, <1>2, <1>3
  <1> HIDE DEF to
  <1>5. current \in {i \in (to - Numbers)..(to - 1) : i > 0 /\ i < end + 1}
    BY <1>1, <1>4
  <1> QED BY <1>5 DEF Offered, Window, q, to

\* The number on the screen is that of the rows in the table, and offered.
THEOREM NumbersFit == Spec => []NumberFits
  <1>1. IInv => NumberFits
    <2> SUFFICES ASSUME IInv, page = "open", NEW r \in rows
                 PROVE  PagesOf(shown.top - r) + 1 = current
      BY CurrentOffered DEF NumberFits
    <2>1. /\ shown.top \in Nat /\ shown.size \in Nat /\ shown.start \in Int
          /\ current \in Nat
      BY DEF IInv, TypeOK
    <2>2. /\ r \in RowsAt(shown.top, shown.size, shown.start)
          /\ current >= 1 /\ shown.start = PageSize * (current - 1)
      BY DEF IInv, Inv, Screen
    <2>3. /\ shown.top - r \in Int /\ shown.start <= shown.top - r
          /\ shown.top - r < shown.start + PageSize
      BY <2>1, <2>2, RowsAreNear
    <2>4. current - 1 \in Nat
      BY <2>1, <2>2
    <2>5. PagesOf(shown.top - r) = current - 1
      BY <2>2, <2>3, <2>4, PageOf
    <2> QED BY <2>1, <2>5
  <1> QED BY <1>1, InvHolds, PTL

\* Going on with "next" leaves no row out.
THEOREM SkipsNothing == Spec => []NothingSkipped
  <1>1. IInv => NothingSkipped
    <2> SUFFICES ASSUME IInv, NEW m \in messages, m.stage = "answered"
                 PROVE  m.top - m.start >= m.after
      BY DEF NothingSkipped
    <2>1. m \in MessageType /\ Answered(m)
      BY AskedType
    <2> QED BY <2>1 DEF MessageType, Answered
  <1> QED BY <1>1, InvHolds, PTL

\* The last page lacks no more of the oldest rows than its total was short of.
THEOREM LastIsLast == Spec => []LastPageIsLast
  <1>1. IInv => LastPageIsLast
    <2> DEFINE older == IF kind = "blocks" THEN Older \ Unread ELSE Older
    <2> SUFFICES ASSUME IInv, page = "open", rows # {}, AtEnd, older # {}
                 PROVE  Cardinality(older) <= shown.size - shown.total
      BY DEF LastPageIsLast
    <2>1. /\ shown.top \in Nat /\ shown.size \in Nat /\ shown.start \in Int
          /\ shown.total \in Int /\ current \in Nat /\ PageSize \in Nat
      BY SizesAssumption DEF IInv, TypeOK
    <2>2. /\ rows = RowsAt(shown.top, shown.size, shown.start)
          /\ current >= 1 /\ shown.start = PageSize * (current - 1)
          /\ shown.total >= -1 /\ current = EndNum(shown.total)
      BY DEF IInv, Inv, Screen, AtEnd
    <2>3. shown.total <= shown.start + PageSize
      <3>1. shown.total >= 1 => shown.total <= PageSize * current
        BY <2>1, <2>2, EndNumIs
      <3>2. PageSize * (current - 1) = PageSize * current - PageSize /\ PageSize * current >= 0
        BY <2>1
      <3> QED BY <2>1, <2>2, <3>1, <3>2
    <2> DEFINE low  == shown.top - shown.size + 1
               high == shown.top - shown.start - PageSize
    <2>4. low \in Int /\ high \in Int
      BY <2>1
    <2>5. older \subseteq low..high
      <3> SUFFICES ASSUME NEW r \in older PROVE r \in low..high
        OBVIOUS
      <3>1. /\ r \in low..shown.top /\ \A s \in rows : r < s
            /\ kind = "blocks" => r \notin Unread
        BY DEF Older
      <3>2. r \notin rows
        BY <2>1, <3>1
      <3>3. ~(r <= shown.top - shown.start /\ r > high)
        BY <2>2, <3>1, <3>2 DEF RowsAt, WindowOf
      <3>4. PICK s \in rows : TRUE
        OBVIOUS
      <3>5. s \in Int /\ r < s /\ shown.start <= shown.top - s
        BY <2>1, <2>2, <3>1, <3>4, RowsAreNear
      <3> QED BY <2>1, <2>4, <3>1, <3>3, <3>5
    <2>6. low <= high
      <3>1. PICK r \in older : TRUE
        OBVIOUS
      <3> QED BY <2>4, <2>5, <3>1
    <2>7. IsFiniteSet(low..high) /\ Cardinality(low..high) = high - low + 1
      BY <2>4, <2>6, FS_Interval
    <2>8. IsFiniteSet(older) /\ Cardinality(older) <= Cardinality(low..high)
      BY <2>5, <2>7, FS_Subset
    <2>9. Cardinality(older) \in Nat
      BY <2>8, FS_CardinalityType
    <2> HIDE DEF older
    <2> QED BY <2>1, <2>3, <2>7, <2>8, <2>9
  <1> QED BY <1>1, InvHolds, PTL

\* A click makes the server panic only in the named cases.
THEOREM ClicksStayInRange == Spec => []ClicksInRange
  <1>1. IInv => ClicksInRange
    BY DEF IInv, Inv
  <1> QED BY <1>1, InvHolds, PTL

-----------------------------------------------------------------------------
(* The dashboard. *)

\* The newest block is among the latest ones exactly when the chain has as many
\* blocks as the dashboard shows: NewestShown fails on every shorter chain, where
\* the unsigned bound of the loop wraps around, and on no other.
THEOREM NewestShownFromLatest ==
    ASSUME Latest > 0
    PROVE  Spec => [](kind = "blocks" /\ top > 0 /\ top \notin Unread
                          => (NewestShown <=> top >= Latest))
  <1>1. TypeOK => (kind = "blocks" /\ top > 0 /\ top \notin Unread
                       => (NewestShown <=> top >= Latest))
    <2> SUFFICES ASSUME TypeOK, kind = "blocks", top > 0, top \notin Unread
                 PROVE  top \in LatestBlocks <=> top >= Latest
      BY DEF NewestShown
    <2>1. top \in Nat /\ Latest \in Nat /\ Word \in Nat /\ Word > top + Latest
      BY SizesAssumption DEF TypeOK
    <2>2. top \in LatestBlocks <=> top > Unsigned(top - Latest)
      BY <2>1 DEF LatestBlocks
    <2>3. CASE top >= Latest
      <3>1. Unsigned(top - Latest) = top - Latest
        BY <2>1, <2>3 DEF Unsigned
      <3> QED BY <2>1, <2>2, <2>3, <3>1
    <2>4. CASE top < Latest
      <3>1. Unsigned(top - Latest) = top - Latest + Word
        <4>1. top - Latest + Word \in 0..(Word - 1)
          BY <2>1, <2>4
        <4>2. (top - Latest) \div Word = -1
          <5>1. /\ Word * (-1) <= top - Latest
                /\ top - Latest < Word * (-1) + Word
            BY <2>1, <2>4
          <5>2. Word \in Nat \ {0}
            BY <2>1
          <5> QED BY <2>1, <5>1, <5>2, DivIs
        <4> QED BY <2>1, <4>1, <4>2 DEF Unsigned
      <3> QED BY <2>1, <2>2, <2>4, <3>1
    <2> QED BY <2>1, <2>3, <2>4
  <1> QED BY <1>1, TypeCorrect, PTL
=============================================================================
