# FLETA block explorer: verification project

TLA+ models of the block explorer in `src/`, checked with TLC and proved about
with TLAPS. The explorer is a Go program around a FLETA node: it indexes the
node's chain into a badger database, keeps a summary, a feed and a chart in
memory, and serves pages and JSON about them.

## 1. The system

| Part | Source | State | Operations |
|---|---|---|---|
| Indexer | `block_explorer.go`, `current_chainInfo.go` | badger keys (block hash, transaction hash, `formulator`+address, `blockChainInfo`, `MaximumTps`); in memory `CurrentChainInfo`, `MaximumTps`, `lastestTransactionList`, `transactionCountList` | constructor: open, load the summary, fill the feed; a goroutine that runs one round per second |
| Web server | `web_server.go`, `watcher.go` | `templates`, `isRequireReload`, a mutex; the watcher's channel and `timeCache` | reload on the next request after a change, render |
| Asset overlay | `file_asset.go`, `assets_vfsdata*.go` | an open directory's cursors and the names already given | `Open`, `Readdir`, `AddAssets` over disk, extra assets and built-in files |
| Data endpoints | `block_explorer_data_func.go` | none of its own | windows on the chain and on the feed: latest blocks and transactions, pagination |
| Controller | `explorer_controller.go` | none of its own | first load of the two lists; detail pages: a hash is looked up in badger, the block in the kernel |
| Routing | `block_explorer.go` (`InitURL` to `dataHandler`) | `initURLFlag`, the echo router, `dataHandlerPacks` | `InitURL`, `AddURL`, `AddDataHandler`, `StartExplorer` |
| Dashboard | `webfiles/` | page numbers, observers' columns, chart data in the browser | polling every three seconds, page clicks |
| Built-in assets | `assets_vfsdata.go` | position of an open file, its decompressor | `Open`, `Read`, `Seek`, `Readdir` |
| Program | `cmd/` | what is open, what the closer manager knows of | genesis; opens the kernel store (with a recovery dialogue), wires explorer, node and RPC; signals |

**Interactions.** The indexer polls the kernel (`Provider().Height()`, `Block`),
which grows whenever the node connects a block. Requests read the indexer's
memory without a lock, the database through badger snapshots, and the kernel
directly. The web server and its watcher share `isRequireReload` without a
lock, and requests share `templates`: written under the mutex, read without it.
Everything the web server shows comes through the asset overlay, whose bottom
layer is the files built into the program. `StartExplorer` runs in a goroutine
next to the program that started it, and both may prepare the routes.

**What is hard.** Commits per block and a summary committed last, with crashes
between any two; failures that are skipped or ignored; restarts that walk
blocks again; a kernel that comes back shorter after a recovery; unlocked reads
in the middle of a round; a reload whose flag, event channel and cache of
modification times each can lose a change; a panic with the mutex held; integer
windows at the edges; keys of blocks a recovery has lost; a flag raised before
what it stands for is there; a signal between taking a part off the closer manager
and putting its successor on. `PROJECT.json` lists them as hazards, each at its line.

**What makes each part correct.** Indexer: the saved summary never speaks of
blocks that are not in the index, counts every transaction once, and catches
up; feed and chart are in order and whole; a request, which copies the summary in
pieces, shows no total ahead of the height but in the one way that is named. Web
server: rebuilds exclude each other, pages are not missing, changes show, requests are answered. Asset overlay: a directory lists every name once,
from the layer `Open` would take it, and the listing ends. Endpoints and pages:
the number on the screen is that of the rows, going on leaves nothing out, the
last page ends with the oldest row, and no button leads out of the feed, whatever
the updater does between two requests. Detail pages: what is shown is what was
asked for, from one block. Built-in files: they read like their contents. Routes:
what a program adds is served. Program: the genesis is whole, a signal ends the
program, and what it opened is closed.

## 2. Modules

### `BlockExplorer`, the indexer

One variable per piece of state. In memory: `Blocks`, `Transactions`,
`currentTransactions`, `MaximumTps`, the feed and the chart, and the locals of a
running round; on disk: `dbInfo` (the two keys of the summary), `dbHashes` (the
heights whose block and transaction keys exist: one commit writes them all) and
`dbFormulator`. `height` is the kernel's. `skipped` and `unindexed` remember
failures, `faults` and `crashes` bound them.

| Action | Code |
|---|---|
| `Start`, `LoadBlock`, `LoadBlockFails`, `LoadDone` | `NewBlockExplorer`: summary from the database, feed from the chain |
| `Begin` | the head of `updateChainInfoCount` |
| `ReadPair`, `ReadPairFails` | one pass of the loop, up to the first commit |
| `IndexUpper`, `IndexLower` | `updateBlock` of the two blocks, each its own commit, which may fail and is ignored |
| `Finish` | after the loop: feed, chart, total |
| `Save`, `SaveFails` | the last commit |
| `Grow`, `Crash` | the node; the operating system (badger syncs every write) |

Steps are cut where another party can see or stop the program: at every commit
and every read of the kernel. `Begin` and `Finish` are one step each although a
request may see them half done: of the summary `Begin` writes the height and
`Finish` the total, so a request that comes between their assignments sees what it
sees before or after the step. The lists `Finish` replaces are slices, several words
long, and are written and read without a lock; a read that gets the length of one
slice and the rows of another is not modelled.

Abstractions: a block hash is its height, a transaction hash the pair of height
and index, a timestamp the height. So blocks that a recovery replaced by others are
told from the old ones in `DetailPages` only. `Foumulators`, a number copied from the
kernel for display, is left out, and so is badger's value-log garbage collector.
Integers are unbounded: the code's are 32 bits wide (height, saved counts), and
nothing in a run comes near that.

### `Display`, a request that copies the summary

`dataHandler` copies `CurrentChainInfo` (line 510) while a round writes it, and
neither takes a lock. `CopyFirst` reads one of the two fields an answer shows,
`Answer` the other one; which comes first is left open, each is read in one piece,
and any number of steps of the indexer (`Run`) or a crash (`Die`) come between.
`ShownTogether` says what an answer can show: the height is written first (line 207)
and the total last (line 286), so the total is never more than the shown blocks hold,
with one exception. If the height is read first and a whole round goes by before the
total is, the answer shows a total that is ahead of its height; it is still no more
than the height by now holds. `overtaken` says whether that happened. The bound
`MaxSetbacks` lets requests come only in histories with at most that many failures
and crashes together, to keep the run small; the theorem has no such bound.

### `ChainIndex`, what the database promises

Blocks enter the index and stay; the published summary jumps to a height whose
complete pairs are all indexed or given up, with the total they amount to. No
memory, rounds or crashes. `BlockExplorer!KeepsPromise` says that the indexer
implements it, under `top <- height`, `indexed <- dbHashes`,
`lost <- skipped \cup unindexed`, `blocks <- dbInfo.Blocks`,
`transactions <- dbInfo.Transactions`. Once the kernel has come back with fewer
blocks (`rewound`), the height may go back and the total is no longer exact; that
neither runs ahead of the index nor the total goes down still holds, and
`KeepsPromise` is checked and proved with recoveries.

Two properties say how far a deviation of the code goes: `TotalBounded` for the
total after recoveries, `FeedNamesPair` for the block hash of the feed's rows.
`Remaining` counts the steps a round or the constructor's walk has left at most;
`RoundsEnd` says that each of them lowers it and that the chain does not raise it.

### `WebServer`, templates and their reload

Files are pages, the layout and others; a content is the number of the edit that
wrote it, 0 the built-in copy. The directory is edited at any time, with or
without a new modification time, and files are removed. The watcher is `Watch`,
`Receive`, `Handle`, `Expire`; a request is `Arrive`, `CheckWatch`, `Lock`,
`NoReload` or `StartRebuild`, `ReadLayout`, `BuildPage` for each page in any
order, `ClearFlag`, `Unlock`, `Render`; the constructor's goroutine `Main` does
the same rebuild without mutex and flag, before the first request. `Panic` is
`template.Must` on a file that does not parse. `missed` records, at the moment
it happens, each change that nothing will notice; a rebuild that reads the file
takes it out again.

The event channel's drop of what does not fit, and several events for one
change, are the notify library's behaviour; the recovery of a request's panic
is net/http's; the end of the process on a concurrent map access is the Go
runtime's, possible whenever a render coincides with a write. The unlocked
flag is read and written in one step each. `log.Fatal` on assets that cannot be
opened is left out, because the built-in layout and pages always can be.

### `TemplateSet`, what a request can rely on

One set of templates that is emptied when it was complete and a change was noticed,
read from one layout, filled from the files as they are at that moment, and complete
before it is emptied again; a rebuild that dies leaves it as it is, for good.
`WebServer!KeepsTheSet` says that the web server implements it, with `noticed <-
isRequireReload`, and `stage` and `layout` from where the goroutine that rebuilds
is. Goroutines, the mutex and the watcher's channel do not exist there. That all
templates come from one layout (`OneLayout`) follows in `TemplateSet` alone.

### `FileAsset`, the asset overlay

One directory opened through the overlay and listed by repeated calls. A layer's
content is a sequence of names, or missing; `left` holds each layer's cursor,
`readed` the names looked at. Reading a layer may fail before its first name, between
two or after the last, in any call, on disk and in the extra layers; the built-in
files are in memory. A file in the place of the directory is one of these failures.
One action per step that a layer can fail at:

| Action | Code |
|---|---|
| `Call`, `CallFails` | the directory on disk, read in one go at the head of `Readdir` |
| `SkipName`, `TakeName`, `LayerDone`, `LayerFails` | one `Readdir(1)` of a layer in `loadFiles` and what follows it |
| `PassLayer` | a layer without the directory, or a list that is long enough |
| `ReturnNames`, `ReturnEnd` | the end of `Readdir`: the slice, the end of the directory, an error |
| `MakeDirectory`, `AddAssets` | a layer that appears between two calls |

`OpenFrom` is `Open`: the first layer that has the file. Files are their names;
`Stat` and `Close` are the underlying file's, and so is the content, see below. The
ghosts `cut`, `late` and `failed` remember the entries sliced off, the layers that
came in the middle and those a read of which has failed.

The error of an extra layer lives in one variable that the next layer overwrites
(`file_asset.go:119` and `:128`), so that a listing may lose names to an error and
end as if it were complete (`:135`), which an `os.File` does not do. This is a defect
of the code, and `failed` is the exception that names it: what `ListsAsOne` and
`AllListed` promise is that such an error costs names of its own layer only, and
`ListedAsOpened`, that an entry may then come from a lower layer although `Open`
takes the failed layer's file.

`Directory` is what the overlay promises who lists: one directory, whose calls answer
at once, with at least one name and no more than were asked for, none of them listed
before, each from the layer `Open` asks first. `ListsAsOne` says that `FileAsset`
implements it: `has[l]` are the names of layer `l`, `missed` those of `cut`, and the
steps of a call before its return, with the layers' cursors, are invisible. What the
code does not keep of an `os.File` is in it, too: names may be missed, a layer that
fails (`Fail`) is out of the promise whether or not an error is reported, a directory
made on disk in the middle gives names again, and a negative count may panic.

### `Pages`, paging through chain and feed

One browser on "Blocks" or "Transactions". Rows carry numbers (heights, or places
in the order of arrival), so that the window of an answer is an interval counted
from the newest row, `top`; `len` is how many rows there are. `Connect`,
`PutInFront` and `Cut` are the node and the updater, whose prepend and cut a
request may come between. `OpenBlocks`, `OpenTransactions`, `ReadLength` are the
first load; a click adds a message, which the server answers in one step
(`AnswerBlocks`, one height for total and rows) or two (`CountFeed`,
`AnswerTransactions` or `PanicTransactions`), and which is delivered in any order
or lost. `EndNum`, `Offset`, `Offered`, `AtEnd` are `pagination` in `layout.html`,
with JavaScript's truncation; heights are unsigned (`Unsigned`). An unreadable
block is left out of its window, as `continue` does. What a row says is left out.

### `BuiltInFile`, `ContentReader` and `Assets`, what is under the overlay

`BuiltInFile` is what `Open` of the generated file system returns: a compressed file,
a plain one (a `bytes.Reader`) or a directory. A decompressor only goes forward, so
`FileSeek` notes a position and `ReadCompressed` starts again or throws bytes away.
`gr` is where the decompressor is, `grPos` where the file thinks it is; the two part
when a read past the end fails in `CopyN` (`ReadPast`). Bytes are their places, so
that "the right bytes" is the interval `returned`.

`ContentReader` is what every reader expects, items and a position; `ReadsContent`
says that `BuiltInFile` implements it. After a read past the end a compressed file
may say "end of file" anywhere (`spoiled`), but returns no byte from elsewhere.

`Assets` composes `FileAsset` and `BuiltInFile`: `Open` either makes a `File` that
lists all layers (`checkDir`), or hands through what the bottom layer opened.

### `DetailPages`, looking up a block or a transaction

`BlockExplorer` identifies a hash with a place in the chain. Here the two part: the
chain is a sequence of blocks with hashes and transactions, a crash (`Restart`) may
lose the top ones, and their transactions come back in other blocks. `blockKey` and
`txKey` are the keys `updateHashs` writes. The updater is `Begin`, `Index`,
`IndexFails`, `Finish`, one block at a time; a request is `AskHeight`, `AskBlock` or
`AskTx` (one badger snapshot), two `Read`s of the kernel (or `ReadFails`) and
`Reply`, one step each, so that everything else comes between them. A transaction
index past the end of the block is the panic in `txDetailMap`, result "aborted".
A height in the URL is converted to 32 bits (`Wrap`).

`Lookup` is what the pages promise who asks: an answer of one moment, from one block
that is in the chain when the answer is there and that is the one asked for, lost
blocks aside. `AnswersAtOnce` says that `DetailPages` implements it: an answer is
`req` once its `result` is there, and look-up and first read are invisible.

### `Routes`, `Program` and `Service`, how it is put together

`Routes` is the explorer as a library: `SetFlag`, `NewEcho`, `RegisterOwn` are
`InitURL`, run by the program or by `StartExplorer`; `AddURL`, `AddDataHandler`,
`GoStartExplorer` the program's calls; `CheckFlag`, `Serve` the rest of
`StartExplorer`; `AskData`, `AskPack`, `AnswerData` the default branch of
`dataHandler`. An echo instance is a number, and `routes` says what is registered in
each. `crossed` remembers a call that came while `StartExplorer` was preparing.
`AddURL` and `AddDataHandler` are one step each, also when requests are served: the
code appends to a slice and to echo's routes without a lock, and a request that meets
either half done is not modelled.

`Program` is `cmd/main.go`. `pc` is the statement main is at, `After` their order,
`Opens`, `Adds` and `Drops` what each does; `open` is what is open, `registered` what
the closer manager knows of. A constructor may fail (a panic, with the deferred
`CloseAll`), a signal is taken by its goroutine at any statement, the RPC server may
panic in its own, and the process may be killed; `StartAgain` begins the next life,
with the store `dirty` if it was not closed. `Genesis` is the loop of accounts with
the 16-bit generator. `Service` composes the two: the repository's program starts
`StartExplorer` after `NewBlockExplorer` and makes no other call, another program
makes any.

The closer manager, kernel, node and RPC server are libraries that are not in the
repository: assumed is that `CloseAll` closes what is registered when it runs, that a
second call does so again for what was added since the first (a signal while main
is still setting up relies on it: the deferred call closes what came later), that
node and kernel close what they were built on, and that `Wait` returns once
`CloseAll` ran. The addresses of the formulators are literals; that their
coordinates are 1, 2, ... is taken from the loop that passes over as many.

## 3. Runs

| Run | Question | Bounds |
|---|---|---|
| `core` | all safety of the indexer, that it implements `ChainIndex`, that every step brings a round's end nearer, that indexing and saving catch up, and what a request's copy can show, from any first height and with a kernel that may lose blocks in a crash | 5 blocks (two pairs and an odd one), lists of 3, charts of 1 per round, one failure, two crashes that lose up to two blocks; a request after at most one of these |
| `feed_block_hash` | finding: rows of the lower block name the upper one | 2 blocks |
| `block_count` | finding: producers' counts after a crash | 2 blocks, one crash |
| `recovered_total` | finding: the total after a recovery that lost blocks | 4 blocks, one crash |
| `templates` | no page missing, no page stale without a cause | 2 requests, 2 pages, layout, a style sheet, 2 edits, 1 removal |
| `requests` | rebuilds exclude each other, the server implements `TemplateSet`, requests are answered | 2 requests, 2 pages, layout, 2 edits of which the second does not parse |
| `overlay` | listing a directory: every name once, from the layer `Open` takes, none left out but a failed layer's, and an end; that the overlay implements `Directory`; reading a built-in file | 3 names, 4 directories, reads that fail anywhere, disk, 2 extra layers, built-in; calls for 1 or 2 names; files of 3 bytes, positions -1 to 5, buffers of 1, 2 and 4 |
| `readdir_all` | finding: a call for all names | disk and built-in, count -1 |
| `pages` | paging while chain and feed go on | pages of 2 rows, 2 numbers offered, cap 5, 8 rows, 2 clicks, blocks 2 and 3 unreadable |
| `lastest_blocks` | finding: the newest block is missing below height 8 | 9 blocks |
| `detail_pages` | keys point home, pages show what was asked and implement `Lookup`, no block is without its keys | 4 blocks mined, 2 transactions, one failure, two crashes that lose up to one block each, heights -5, 0, 2, 9 of 8 numbers |
| `program` | nothing stays open, signals end the program, the genesis is whole, pages and handlers added are served | 3 lives, 3 formulators and 4 accounts of 8 coordinates; 2 pages, 3 handlers of which 2 handle, 2 calls of `InitURL` |

**Why these bounds are enough.** The indexer treats blocks in pairs and looks at
nothing but the floor and the top of a round. Five blocks give an odd and an even
top and floor, rounds of none, one and two pairs, a round on top of a saved one
and on top of an unsaved one. The chain has an empty block, pairs of one and of
three transactions and an unpaired block, so the list cap of 3 (500 in the code)
is reached inside a block, between blocks and exactly. Two crashes let a restart
be followed by one in the middle of its first round, and the proofs cover every
number. For the web server, two requests are enough for one to rebuild, one to
wait or render; a third would do what one of them does. Two edits of the same or
different files produce every cause that `StaleOnlyIfMissed` names: taking any
one of them out of `Send` or `ClearFlag` makes the run fail. For the
overlay, the four directories have two layers share a name alone, in front of and
behind another one, and an empty one; a call for two names can find one in each of two
layers, and a call for one can leave names of two layers over. For the pages, eight
rows are four pages, the cap of five is not a multiple of the page, rounds of one
and two rows shift the pages by a half and a whole, and two clicks can be answered
in the wrong order; with three clicks and seven rows the run passes as well.
For the detail pages, two transactions in four blocks can be lost and come back
earlier, later and swapped in one block, and a request can span a round, a crash
being its end. A file of three bytes has positions before, between and behind every
two reads. For the program, a third life can follow one that left the store dirty
and one that was asked about it, and seven accounts and one use up the eight
coordinates, so that the generator wraps around at the very end; in the code 20037
of 65536 are used.

**Fairness.** `core` assumes that the constructor's and the updater's goroutines
are scheduled (`WF` of `Load` and `Update`, in `DisplaySpec`); nothing is assumed of
the kernel, of failures (they are bounded), of restarts or of requests, and both properties end at a crash.
`requests` assumes that each request's goroutine is scheduled, and strong fairness
of `Lock`, because a `sync.Mutex` passes to a waiter that has waited for a
millisecond. No new request, edit or event is promised. `overlay` assumes that a
caller lists in a loop until a call fails, as `loadTemplates` and `updateRender` do;
nothing is promised of layers that appear or of files. `program` assumes that main
and the goroutine that takes the signal are scheduled; the user need not answer the
question, and no signal or restart is promised.

Deadlock is checked in the indexer's runs. The others switch it off: the process
stops when the runtime kills it, and every request may be stuck after a panic; a
listing ends; a page stays as it is when its user stops clicking; blocks and crashes
of `detail_pages` are used up; the program ends.

Each property has a mutant: beside the small operators the actions use there is
a `Slip...` with a plausible mistake, and the property fails when it takes the
operator's place. Where an abstract specification implies an invariant, the run
checks the specification: `ListedOnce`, `ListedAsOpened` and `AllListed` follow from
`ListsAsOne`, `OneLayout` from `KeepsTheSet`.

### Findings

- **`FeedBlockHash`** - `block_explorer.go:260`: the rows of a pair's lower block
  carry the upper block's hash. The constructor's rows do not (line 171), and the
  page links the cell to that block.
- **`BlockCountExact`** - `block_explorer.go:344`: a producer's "Block Count" grows
  again when its blocks are indexed again after a crash. `ProducedCounted` is what
  does hold.
- **`RecoveredTotal`** - `block_explorer.go:286`: after a recovery that lost blocks
  the total counts the blocks that come back twice.
- **`ReaddirAll`** - `file_asset.go:137`: for a count that is not positive `Readdir`
  passes over the built-in files, or slices with a negative bound, although `File`
  promises `os.File`'s behaviour.
- **`NewestShown`** - `block_explorer_data_func.go:48`: `currHeight-8` wraps around;
  the first seven blocks never show under "Lastest Blocks".

More defects appear as exceptions that properties name. `ClicksInRange`: with
one transaction, or after the empty page's number is clicked, "next" and "toBottom"
are offered and their request makes the slice of `txs` panic. `LastPageIsLast`: the
first load takes one off the feed's length, so that with eleven transactions the
last one has no page. `ShownTogether`: a request overtaken by a whole round shows a
total ahead of its height. `AllListed`: with two layers above the built-in one, a name
may be looked at and never handed out, and the error of an extra layer is overwritten
by the next layer's, so that a listing ends as if nothing were missing.
`PageShowsAsked`: the hash of a block that a
recovery has lost shows the block in its place, that of a lost transaction shows
another one or makes the handler panic, and the height -5 shows block 4294967291 if
there is one. `ChainCovered`: blocks mined before the first round after such a
recovery are never indexed. `ReadsContent`: a compressed file read past its end may
report the end too early afterwards. `CleanExit`: the explorer's database is never
closed, a panic of the RPC goroutine closes nothing, and after a kill every start asks
whether to recover the store until a recovery succeeds: also the one after a no, or
after a recovery that failed and panicked (`main.go:94`). `SignalEndsProgram`: at the
question whether to recover, signals are not noticed. `ExtensionsServed`: calling
`InitURL` once `StartExplorer` runs loses what was registered.

## 4. Proofs

All theorems hold for every value of the constants under the named assumptions
of their modules: any chain, caps, numbers of failures and crashes; any
number of requests, pages and edits.

`BlockExplorer_proofs`
- `TypeCorrect`: `TypeOK`, with the loop's bounds (`LoopBounds`: what `pc` says of
  `i`, `minHeight`, `currHeight`).
- `IndexAlwaysCovers`: `IndexCovers`. Not inductive: in the middle of a round the
  blocks above `i` are indexed and those between floor and `i` are not, and the
  floor is memory's height, which may be above the disk's. `Covering` adds: blocks
  up to the even part of the floor, and those of the round above `i`, are
  accounted for.
- `TotalIsExact`: `KeptTotals` relates the total and the count so far to `TxsUpTo` at
  the floor, `i` and the top. It also gives `DisplayNeverAhead`, that the total is at
  no moment ahead of the height.
- `DisplayIsIndexer`: a behaviour of `Display` is one of `BlockExplorer`, so that what
  is proved of the indexer holds next to requests.
- `DisplayShowsTogether`: `ShownTogether`, from `RequestInv`, which relates the field a
  request holds to the summary as it is now: a height is the one shown, or a round has
  begun since and the total is still within what the old height holds, or a whole
  round went by; a total is within what the height by now holds.
- `SummaryIsMonotone`: `MemoryAhead`, memory is never behind the disk.
- `DatabaseKeepsPromise`: every step of the indexer, recoveries included, is a step
  of `ChainIndex` or leaves its variables alone; uses all of the above.
- `PeakIsThePeak`: the peak in memory covers floor and round, the one on disk the
  saved height; a crash falls back to the disk's.
- `ProducersAreCounted`: each life of the process counts a block at most once,
  because a life's rounds never visit a block twice.
- `TotalIsBounded`: `LifeTotals`. Since a recovery may take blocks that are counted,
  the total cannot be compared with the chain any more; but within a life of the
  process it grows by at most the whole chain over what the last save left, and each
  crash begins a new life.
- `RoundsComeToAnEnd`: `RoundsEnd`, an action property, from `LoopBounds` alone: an
  index is even and above the floor wherever two are taken off it. It is the part of
  `EventuallyIndexed` that needs no fairness.
- `FirstLifeCountsExactly`, `TotalIsRealUntilLoss`: when the findings `BlockCountExact`
  and `RecoveredTotal` cannot occur, before the first crash and before a recovery that
  lost blocks.

`BlockExplorer_lists` - any caps, chain, failures and crashes
- `ChartRunsBack`: `ChartInv`. The points the lists have are `Old`, at or below the
  even part of the floor; what the running round queued is `New`, above it and above
  where the loop is. `RoundBelow`, that a round's height is one the kernel had, makes
  the new old when the round is over, also after a recovery.
- `FeedHasAtMostTwice`: `TwiceInv`, the same of rows, and that what is in the feed
  twice is old, so that no later round brings it again.
- `FeedIsNewest`: `LatestInv`. The feed has every rank up to the floor, the queue the
  ranks from the top down to where the loop is, or one more than the cap; cutting
  either leaves no gap (`PairQueues`, `QueueCompletes`).
- `FeedNamesOwnPair`: `NamedInv`, that rows of feed and queue name their block or, if
  that is odd, the one above; a row that a list put together has is one of its parts'.

`WebServer_proofs`
- `TypeCorrect`; `RebuildsExclude`: `Mutex`, that the mutex is taken while a
  request is inside and for ever after a panic, and that the constructor precedes
  every request; `TemplatesAreComplete`: `Filled`, that a rebuild's built and
  outstanding pages are all pages.
- `StaleOnlyWhenMissed`: `Noticed` says of every version read - in a template or
  in the layout a rebuild holds - that it is the one on disk, or the file was
  missed, or an event the watcher will not ignore is on its way, or the flag is
  up (while a request rebuilds: the file is among those whose change will be
  wiped out). `Clock` makes a new modification time different from the cached one.
- `ServerKeepsTheSet`: every step is one of `TemplateSet` or leaves its variables
  alone. `Fresh` says that a rebuild has built exactly the pages it has left behind,
  `RebuildsExclude` that there is one rebuild at most, so that `StageIs` can say what
  stage the set is in from where that one is.
- `LayoutIsOne`: proved of `TemplateSet` (`Begun`) and carried over.

`FileAsset_proofs` - any directories, any number of layers
- `TypeCorrect`; `ListsOnce`, `ListsAsOpened`: `Listing`, that what a cursor has
  passed is in `readed`, that every entry's layer is the first in which its name was
  met, and that the layers before the one a call is in are used up, those apart
  that failed.
- `ListsAll`, `CutsNothing`, for positive counts: `Complete`, that a name that was
  read was given, cut or is in the call's list, and that a list can outgrow its
  count only with two layers above the built-in one.
- `OverlayIsOneDirectory`: every step is one of `Directory` or invisible in it. What a
  call returns is new and from the first layer by `Listing`; that the end comes last
  is `Complete`, and promised for positive counts only.

`Pages_proofs` - any page size, cap, window of numbers and number of clicks
- `TypeCorrect`, `NumbersFit`, `SkipsNothing`, `LastIsLast`, `ClicksStayInRange`: one
  invariant for all. `Screen` and `Answered` say that rows and
  numbers belong to the window of one earlier state of the server; `Asked` that a
  click of a page whose number is within its total stays in the feed. That this
  survives a cut needs `Known`: a total that is not above the cap is never above
  the feed's length again. The arithmetic rests on `DivIs` and `EndNumIs`.
- `NewestShownFromLatest`: the finding `NewestShown` occurs on every chain shorter
  than the dashboard's table and on no other.

`DetailPages_proofs` - any sets of transactions, number of blocks, failures, crashes
- `TypesCorrect`, `KeysAtHome`, `PagesShowAsked`, `ChainIsCovered`: `ChainInv`, a hash
  is of one block and a transaction in one block of the chain; `KeysInv`, the key of a
  transaction that was in no lost block is of a block with its own key; `RequestInv`,
  the place a request looks at is that of what it asks for, because the chain only
  grows but at a restart, which ends the request; `CoverInv`, a round has done what
  is above `i` and what rounds before it had done.
- `PagesAnswerAtOnce`: every step is one of `Lookup` or invisible in it, from the same
  invariants: two reads of a place give one block, which is there at the second.

`BuiltInFile_proofs` - any size, positions and lengths
- `FileTypeCorrect`, `FileReadsContent`: `RecordRight`, `grPos` is where the
  decompressor is, or a read went past the end and the decompressor is there, where it
  delivers nothing.

`Service_proofs` - any number of formulators, accounts, pages, handlers, lives
- `ServiceTypeCorrect`; `GenesisComplete`: the n-th account has coordinate n, those
  of the formulators included; `ExitsClean`: at every statement of main at which
  something can fail, what is open is what the manager closes (`MainInv`);
  `ExtensionsTakePart`: `Uncrossed`, the instance in place has what was added, and
  the one served is that.

Only model-checked: liveness (`EventuallyIndexed`, `SummaryCatchesUp`,
`RequestsAnswered`, `ListingEnds`, `SignalEndsProgram`), which is beyond the
prover, as are fairness and ENABLED. How far the finding `ReaddirAll` goes is part
of `OverlayIsOneDirectory`: a call whose count is not positive lists no name, and
may panic when it is negative.

## 5. Not modelled, and why

- The kernel, node, RPC and closer libraries, badger and echo: not in the
  repository; they appear through the calls the explorer and main make. Badger's
  value-log garbage collection changes no key.
- `cmd/main.go`: parsing of the configuration and the registration of account and
  transaction types (`initChainComponent`, static tables), before anything is open; a
  signal before the handler is installed (the process ends, with nothing open); the
  RPC handlers, each of which returns one answer of the kernel.
- `explorer_controller.go`, `block_explorer_data_func.go`: the texts of rows and
  pages. `lastestTransactions` is one slice of the feed. `blockDetail?hash=` takes any
  key of the database with a four-byte value for a block's: asking for `MaximumTps` or
  a producer's count shows the block of that height; `AskBlock` asks for hashes only.
- `AddURL` with a method it does not know, which does nothing.
- `util.go`, `extractVin`: a copy field by field, without a caller.
- The table of generated assets, the generator (one call of a library), styles.
- The dashboard's charts, polling and observers' columns, which display what the
  endpoints return, and `sign/common.js`: cryptography of a library.
