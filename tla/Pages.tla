------------------------------- MODULE Pages -------------------------------
(***************************************************************************)
(* The pages "Blocks" and "Transactions" while the explorer goes on: the   *)
(* endpoints of src/block_explorer_data_func.go that cut windows out of    *)
(* the chain and out of the feed, and the page numbers and buttons that    *)
(* layout.html, blocks.html and transactions.html make from the answers.   *)
(*                                                                         *)
(* A row has a number that it keeps: a block its height, a transaction its *)
(* place in the order in which the updater put rows in front of the feed.  *)
(* Windows are counted from the newest row, which is another one in every  *)
(* answer.  A behaviour follows one of the two pages in one browser.       *)
(***************************************************************************)
EXTENDS Integers, FiniteSetsExt

CONSTANTS PageSize,  \* rows of a page: 10
          Numbers,   \* page numbers offered at a time: 10
          Latest,    \* blocks of the dashboard: 8
          ListCap,   \* rows the feed is cut to: 500
          Word,      \* numbers a height may take: 2^32
          Unread,    \* heights of blocks the kernel cannot read
          Rounds,    \* numbers of transactions in a round of the updater
          MaxTop,    \* bound: the newest row
          MaxClicks  \* bound: clicks in the page

ASSUME SizesAssumption ==
    /\ PageSize \in Nat /\ PageSize > 1
    /\ Numbers \in Nat \ {0} /\ Latest \in Nat /\ ListCap \in Nat \ {0}
    /\ Unread \subseteq Nat /\ Rounds \subseteq Nat \ {0}
    /\ MaxTop \in Nat /\ MaxClicks \in Nat
    /\ Word \in Nat /\ Word > MaxTop + Latest

VARIABLES
    kind,     \* the page: "blocks" or "transactions"
    (* the server *)
    top,      \* the newest row: the kernel's height, or the feed's first row
    len,      \* rows there are: the height, or the feed's length
    (* between browser and server *)
    messages, \* clicks on their way, from the click to the answer
    clicks,   \* clicks so far
    (* the browser *)
    page,     \* "closed", "opening", "open", or "broken" by an error of its script
    rows,     \* the rows in the table
    current, end, \* pagination.currentPage and .endPage
    (* read by the properties only *)
    shown,    \* what the numbers come from: the newest row and the rows there
              \* were, the total, and the index of the first row
    panics    \* what the page showed where a click made the server panic

server  == <<top, len>>
browser == <<page, rows, current, end, shown>>
vars    == <<kind, server, messages, clicks, browser, panics>>

-----------------------------------------------------------------------------
(* The windows. *)

Unsigned(n) == n % Word

\* lastestBlocks: the heights it tries and can read.
LatestBlocks == {i \in 1..top : i > Unsigned(top - Latest)} \ Unread

\* blocks: tries so many heights, and leaves out what it cannot read.
BlockRows(start) ==
    {i \in {Unsigned(top - start) - j : j \in 0..(PageSize - 1)} : i \in 1..top}
        \ Unread

\* txs, whose slice panics when its bounds are not in order; slip: the upper
\* bound is not cut to the feed's length.
InFeed(start)  == start >= 0 /\ start <= len
SlipFeedRows(start) == {top - j : j \in start..(start + PageSize - 1)}
FeedRows(start) ==
    {top - j : j \in {k \in start..(start + PageSize - 1) : k < len}}

-----------------------------------------------------------------------------
(* The page numbers.  JavaScript's parseInt cuts towards zero. *)

PagesOf(n) == IF n < 0 THEN -((-n) \div PageSize) ELSE n \div PageSize

SlipEndNum(total) == PagesOf(total)
EndNum(total) == PagesOf(total) + (IF total % PageSize = 0 THEN 0 ELSE 1)

\* The index that the number of the current page is made from; slip: the page
\* asks for the height anew.
SlipOffset(m) == IF kind = "blocks" THEN top - Max(m.rows) ELSE m.start + 1
Offset(m)     == IF kind = "blocks" THEN m.total - Max(m.rows) ELSE m.start + 1

\* The numbers offered: those of a window that holds the current one; slip: the
\* window ends before the last page.
Window(n, last) ==
    LET to == Min({(n \div Numbers) * Numbers + Numbers, last})
    IN  {i \in (to - Numbers)..(to - 1) : i > 0 /\ i < last}
SlipOffered == Window(current, end)
Offered     == Window(current, end + 1)

\* "next" and "toBottom" are disabled on the last page; slip: they never are.
SlipAtEnd == FALSE
AtEnd     == current = end

\* The page "next" asks for; slip: the number is taken for an index.
SlipNextPage == current + 1
NextPage     == current

-----------------------------------------------------------------------------
Init ==
    /\ kind \in {"blocks", "transactions"}
    /\ top \in 0..MaxTop
    /\ len = top
    /\ messages = {} /\ clicks = 0
    /\ page = "closed" /\ rows = {} /\ current = 0 /\ end = 0
    /\ shown = [top |-> 0, size |-> 0, total |-> 0, start |-> 0]
    /\ panics = {}

(* The server goes on. *)

\* The node connects a block.
Connect ==
    /\ kind = "blocks"
    /\ top < MaxTop
    /\ top' = top + 1
    /\ len' = len + 1
    /\ UNCHANGED <<kind, messages, clicks, browser, panics>>

\* A round puts its transactions in front of the feed ...
PutInFront ==
    /\ kind = "transactions"
    /\ \E n \in Rounds :
          /\ top + n <= MaxTop
          /\ top' = top + n
          /\ len' = len + n
    /\ UNCHANGED <<kind, messages, clicks, browser, panics>>

\* ... and then cuts it, which a request may come in between of.
Cut ==
    /\ kind = "transactions"
    /\ len > ListCap
    /\ len' = ListCap
    /\ UNCHANGED <<kind, top, messages, clicks, browser, panics>>

-----------------------------------------------------------------------------
(* The page comes with its first rows. *)

\* The height of the first row is the total; without a row the script ends here.
OpenBlocks ==
    /\ page = "closed" /\ kind = "blocks"
    /\ rows' = BlockRows(0)
    /\ IF rows' = {}
       THEN page' = "broken" /\ UNCHANGED <<current, end, shown>>
       ELSE /\ page' = "open"
            /\ current' = 1
            /\ end' = EndNum(Max(rows'))
            /\ shown' = [top |-> top, size |-> len, total |-> Max(rows'), start |-> 0]
    /\ UNCHANGED <<kind, server, messages, clicks, panics>>

OpenTransactions ==
    /\ page = "closed" /\ kind = "transactions"
    /\ page' = "opening"
    /\ rows' = FeedRows(0)
    /\ shown' = [shown EXCEPT !.top = top, !.size = len]
    /\ UNCHANGED <<kind, server, messages, clicks, current, end, panics>>

\* The feed's length is read after its rows, and the script takes one off it.
ReadLength ==
    /\ page = "opening"
    /\ page' = "open"
    /\ current' = 1
    /\ end' = EndNum(len - 1)
    /\ shown' = [shown EXCEPT !.total = len - 1]
    /\ UNCHANGED <<kind, server, messages, clicks, rows, panics>>

-----------------------------------------------------------------------------
(* Clicks, and their answers. *)

\* A click asks for a page and changes nothing else: the number on the screen,
\* and what the next click asks for, are those of the last answer.
Ask(p, forward) ==
    /\ page = "open"
    /\ clicks < MaxClicks
    /\ clicks' = clicks + 1
    /\ messages' = messages \cup
          {[id |-> clicks, stage |-> "asked", start |-> p * PageSize,
            after |-> IF forward THEN shown.top - shown.start - PageSize ELSE -p * PageSize,
            from |-> [total |-> shown.total, beyond |-> current > end],
            top |-> 0, size |-> 0, total |-> 0, rows |-> {}]}
    /\ UNCHANGED <<kind, server, browser, panics>>

ClickBack    == current # 1 /\ \E p \in {0, current - 2} : Ask(p, FALSE)
ClickNext    == ~AtEnd /\ Ask(NextPage, TRUE)
ClickBottom  == ~AtEnd /\ Ask(end - 1, FALSE)
ClickNumber  == \E n \in Offered : Ask(n - 1, FALSE)

Replace(m, n) == messages' = (messages \ {m}) \cup {n}

\* paginationBlocks: one height for the total and for the rows.
AnswerBlocks(m) ==
    /\ kind = "blocks" /\ m.stage = "asked"
    /\ Replace(m, [m EXCEPT !.stage = "answered", !.total = top, !.top = top,
                            !.size = len, !.rows = BlockRows(m.start)])
    /\ UNCHANGED <<kind, server, clicks, browser, panics>>

\* paginationTxs: the total first ...
CountFeed(m) ==
    /\ kind = "transactions" /\ m.stage = "asked"
    /\ Replace(m, [m EXCEPT !.stage = "counted", !.total = len])
    /\ UNCHANGED <<kind, server, clicks, browser, panics>>

\* ... and then the rows, from a feed that may be another one ...
AnswerTransactions(m) ==
    /\ m.stage = "counted"
    /\ InFeed(m.start)
    /\ Replace(m, [m EXCEPT !.stage = "answered", !.top = top, !.size = len,
                            !.rows = FeedRows(m.start)])
    /\ UNCHANGED <<kind, server, clicks, browser, panics>>

\* ... or a panic, which costs the browser its answer.
PanicTransactions(m) ==
    /\ m.stage = "counted"
    /\ ~InFeed(m.start)
    /\ messages' = messages \ {m}
    /\ panics' = panics \cup {m.from}
    /\ UNCHANGED <<kind, server, clicks, browser>>

\* The page has no handler for an answer that does not come.
Lose(m) ==
    /\ messages' = messages \ {m}
    /\ UNCHANGED <<kind, server, clicks, browser, panics>>

\* The success handler.  Without a block the table is empty and the numbers stay.
Deliver(m) ==
    /\ m.stage = "answered"
    /\ messages' = messages \ {m}
    /\ rows' = m.rows
    /\ IF kind = "blocks" /\ m.rows = {}
       THEN UNCHANGED <<current, end, shown>>
       ELSE /\ current' = PagesOf(Offset(m)) + 1
            /\ end' = EndNum(m.total)
            /\ shown' = [top |-> m.top, size |-> m.size, total |-> m.total,
                         start |-> m.start]
    /\ UNCHANGED <<kind, server, clicks, page, panics>>

Server  == Connect \/ PutInFront \/ Cut
Open    == OpenBlocks \/ OpenTransactions \/ ReadLength
Click   == ClickBack \/ ClickNext \/ ClickBottom \/ ClickNumber
Message == \E m \in messages :
               \/ AnswerBlocks(m) \/ CountFeed(m) \/ AnswerTransactions(m)
               \/ PanicTransactions(m) \/ Lose(m) \/ Deliver(m)
Next    == Server \/ Open \/ Click \/ Message

Spec == Init /\ [][Next]_vars

-----------------------------------------------------------------------------
(* Properties. *)

\* The type invariant.
TypeOK ==
    /\ kind \in {"blocks", "transactions"}
    /\ top \in 0..MaxTop /\ len \in 0..top
    /\ clicks \in 0..MaxClicks
    /\ page \in {"closed", "opening", "open", "broken"}
    /\ rows \subseteq 1..MaxTop
    /\ current \in Nat /\ end \in Nat
    /\ shown \in [top : Nat, size : Nat, total : Int, start : Int]
    /\ panics \subseteq [total : Int, beyond : BOOLEAN]
    /\ messages \subseteq
           [id : 0..MaxClicks, stage : {"asked", "counted", "answered"},
            start : Int, after : Int, from : [total : Int, beyond : BOOLEAN],
            top : Nat, size : Nat, total : Nat, rows : SUBSET (1..MaxTop)]

\* The number on the screen is that of the rows in the table, counted from the
\* newest row at the time they were read, whatever the order of the answers and
\* however far chain and feed have gone on; and it is among the numbers offered.
NumberFits ==
    page = "open" =>
        /\ \A r \in rows : PagesOf(shown.top - r) + 1 = current
        /\ current <= end => current \in Offered

\* "next" leaves no row out: what it brings begins no later than the row after
\* the page it was clicked in, however many rows came in front since.
NothingSkipped ==
    \A m \in messages : m.stage = "answered" => m.top - m.start >= m.after

\* A page from which there is no "next" ends with the oldest row.  It may lack
\* as many rows as the total it was made with was short of: one after the first
\* load, and those that came while the request was answered.
Older == {r \in (shown.top - shown.size + 1)..shown.top :
             \A s \in rows : r < s}
LastPageIsLast ==
    page = "open" /\ rows # {} /\ AtEnd =>
        LET older == IF kind = "blocks" THEN Older \ Unread ELSE Older
        IN  older = {} \/ Cardinality(older) <= shown.size - shown.total

\* The buttons stay within the feed.  The server panics only for a click in a
\* page whose number was past its own last page (one transaction, or none, or a
\* feed that grew while it was counted), or that had seen a feed not yet cut.
ClicksInRange == \A p \in panics : p.beyond \/ p.total > ListCap

\* "Lastest Blocks" (index.html:89): the newest block is among them.
NewestShown ==
    kind = "blocks" /\ top > 0 /\ top \notin Unread => top \in LatestBlocks

=============================================================================
