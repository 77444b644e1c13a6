----------------------------- MODULE FileAsset -----------------------------
(***************************************************************************)
(* The asset overlay of the web server, src/file_asset.go: a directory on  *)
(* disk, assets added by the program that embeds the explorer, and the     *)
(* files built in, one on top of the other.  This module follows one       *)
(* directory opened through the overlay and listed by repeated calls of    *)
(* Readdir, as the web server lists layout/ and pages/ (one name per call) *)
(* and net/http lists a directory (all names in one call).                 *)
(*                                                                         *)
(* A call works through the layers, and leaves in each of them a cursor    *)
(* that has moved past the names it looked at.  Names it looked at and did *)
(* not hand out are gone.  Reading may fail at any name of the disk or of  *)
(* an extra layer, also where a layer has a file in the directory's place; *)
(* the files built in are in memory.                                       *)
(***************************************************************************)
EXTENDS Integers, Sequences, FiniteSets

CONSTANTS Names,       \* of files
          Directories, \* the directories a layer may have: names in some order
          MaxExtras,   \* bound: calls of AddAssets
          Counts,      \* the arguments of Readdir
          Missing,     \* a layer that has no such directory: Open fails
          NotAdded     \* an extra layer before its AddAssets

ASSUME DirectoriesAssumption ==
    /\ Directories \subseteq Seq(Names)
    /\ \A d \in Directories : \A j, k \in DOMAIN d : d[j] = d[k] => j = k
    /\ (Directories \cup {<<>>}) \cap {Missing, NotAdded} = {}
    /\ Missing # NotAdded
ASSUME ExtrasAssumption == MaxExtras \in Nat
ASSUME CountsAssumption == Counts \subseteq Int

Disk    == 0
BuiltIn == MaxExtras + 1
Extras  == 1..MaxExtras
Layers  == Disk..BuiltIn

Content == Directories \cup {Missing}

VARIABLES
    content,  \* content[l]: the directory in layer l
    (* the open File *)
    left,     \* left[l]: the names the cursor of layer l has not passed
    readed,   \* the names looked at
    (* one call of Readdir *)
    pc, count, fis, err,
    layer,    \* the layer it is in, or past the last one
    (* what the caller has got *)
    given,    \* the entries returned so far, each a name and its layer
    result,   \* how the last call ended
    (* what happened so far; read by the properties only *)
    cut,      \* entries looked at and not returned
    late,     \* layers that appeared after the first call
    failed    \* layers a read of which has failed

call   == <<count, fis, err, layer>>
caller == <<given, result, cut>>
past   == <<late, failed>>
vars   == <<content, left, readed, pc, call, caller, past>>

NamesOf(l) == IF content[l] \in Directories
              THEN {content[l][k] : k \in DOMAIN content[l]} ELSE {}
NamesIn(s) == {s[k].name : k \in DOMAIN s}

\* The layer that Open takes a file from: the first one that has it.
OpenFrom(n) == CHOOSE l \in Layers :
                   n \in NamesOf(l) /\ \A m \in Disk..(l - 1) : n \notin NamesOf(m)

-----------------------------------------------------------------------------
(* The choices a run needs a slip (Slip...) for. *)

\* loadFiles takes this name; slip: readed is not asked.
SlipIsNew(n) == TRUE
IsNew(n)     == n \notin readed

\* loadFiles has enough with one name more; slip: it counts before the append.
SlipFull == Len(fis) >= count
Full     == Len(fis) + 1 >= count

\* Whether the built-in files are looked at.
AsksBuiltIn == Len(fis) < count

\* Where the loop over the extra layers begins.
FirstExtra == 1

\* The layer after this one; slip: i is advanced twice.
SlipNextLayer == layer + 2
NextLayer     == layer + 1

\* The call has come to the end of the directory; slip: never.
SlipNothingFound == FALSE
NothingFound     == fis = <<>>

Init ==
    /\ content \in [Layers -> Content \cup {NotAdded}]
    /\ \E l \in Layers : content[l] \notin {Missing, NotAdded}
    /\ content[Disk] # NotAdded
    /\ content[BuiltIn] # NotAdded
    /\ \A l \in Extras : content[l] = NotAdded =>
                             \A m \in Extras : m > l => content[m] = NotAdded
    /\ left = [l \in Layers |->
                  IF content[l] \in Directories THEN content[l] ELSE <<>>]
    /\ readed = {}
    /\ pc = "idle" /\ count = 0 /\ fis = <<>> /\ err = "nil" /\ layer = 0
    /\ given = <<>> /\ result = "none" /\ cut = {} /\ late = {} /\ failed = {}

-----------------------------------------------------------------------------
(* The layers.  One that appears in the middle of a call is met by the next   *)
(* call: the disk was tried first, and the loop ranges over the extra layers  *)
(* there were.                                                                *)

Appear(l, c) ==
    /\ pc = "idle"
    /\ content' = [content EXCEPT ![l] = c]
    /\ left' = [left EXCEPT ![l] = IF c \in Directories THEN c ELSE <<>>]
    /\ late' = IF result = "none" THEN late ELSE late \cup {l}
    /\ UNCHANGED <<readed, pc, call, caller, failed>>

\* Someone makes the directory.
MakeDirectory ==
    /\ content[Disk] = Missing
    /\ \E c \in Directories : Appear(Disk, c)

\* AddAssets puts its layer behind those that are there.
AddAssets ==
    \E l \in Extras :
        /\ content[l] = NotAdded
        /\ \A m \in 1..(l - 1) : content[m] # NotAdded
        /\ \E c \in Content : Appear(l, c)

-----------------------------------------------------------------------------
(* Readdir. *)

\* The disk comes first, and gives its next names even when they were read.
Call(c) ==
    /\ pc = "idle"
    /\ pc' = "load"
    /\ count' = c
    /\ err' = "nil"
    /\ layer' = FirstExtra
    /\ LET n     == IF c > 0 /\ c < Len(left[Disk]) THEN c ELSE Len(left[Disk])
           names == SubSeq(left[Disk], 1, n)
       IN  /\ fis' = [k \in 1..n |-> [name |-> names[k], layer |-> Disk]]
           /\ readed' = readed \cup {names[k] : k \in 1..n}
           /\ left' = [left EXCEPT ![Disk] = SubSeq(@, n + 1, Len(@))]
    /\ UNCHANGED <<content, caller, past>>

\* An error of the disk ends the call at once.
CallFails ==
    /\ pc = "idle"
    /\ content[Disk] \in Directories
    /\ pc' = "end"
    /\ result' = "error"
    /\ failed' = failed \cup {Disk}
    /\ UNCHANGED <<content, left, readed, call, given, cut, late>>

Loading ==
    /\ pc = "load"
    /\ layer <= BuiltIn
    /\ layer = BuiltIn => AsksBuiltIn
    /\ UNCHANGED <<content, pc, count, caller, late>>

\* loadFiles goes over a name that was read in another layer ...
SkipName ==
    /\ Loading
    /\ left[layer] # <<>> /\ ~IsNew(Head(left[layer]))
    /\ left' = [left EXCEPT ![layer] = Tail(@)]
    /\ UNCHANGED <<readed, fis, err, layer, failed>>

\* ... takes a new one, and stops when it makes the call's list long enough ...
TakeName ==
    /\ Loading
    /\ left[layer] # <<>> /\ IsNew(Head(left[layer]))
    /\ left' = [left EXCEPT ![layer] = Tail(@)]
    /\ readed' = readed \cup {Head(left[layer])}
    /\ fis' = Append(fis, [name |-> Head(left[layer]), layer |-> layer])
    /\ err' = "nil"
    /\ layer' = IF Full THEN NextLayer ELSE layer
    /\ UNCHANGED failed

\* ... or at the end of the directory.
LayerDone ==
    /\ Loading
    /\ content[layer] \in Directories /\ left[layer] = <<>>
    /\ err' = "EOF"
    /\ layer' = NextLayer
    /\ UNCHANGED <<left, readed, fis, failed>>

\* Reading a layer fails, before its first name, between two or after the last;
\* the cursor may have passed the name it failed at.  The names taken so far stay,
\* and the error waits for the next layer to overwrite it: a call that ends in the
\* built-in files then says io.EOF, or gives what it has, as if nothing had failed.
LayerFails ==
    /\ Loading
    /\ layer \in Extras
    /\ content[layer] \in Directories
    /\ \/ left' = left
       \/ left[layer] # <<>> /\ left' = [left EXCEPT ![layer] = Tail(@)]
    /\ failed' = failed \cup {layer}
    /\ err' = "error"
    /\ layer' = NextLayer
    /\ UNCHANGED <<readed, fis>>

\* No such directory, no such layer, or a list that is long enough already.
PassLayer ==
    /\ pc = "load"
    /\ \/ layer <= BuiltIn /\ content[layer] \in {Missing, NotAdded}
       \/ layer = BuiltIn /\ ~AsksBuiltIn
    /\ layer' = NextLayer
    /\ UNCHANGED <<content, left, readed, pc, count, fis, err, caller, past>>

\* The end of a call: what is above count is sliced off.
ReturnNames ==
    /\ pc = "load"
    /\ layer > BuiltIn
    /\ err # "error"
    /\ ~NothingFound
    /\ Len(fis) > count => count >= 0
    /\ pc' = "idle"
    /\ result' = "names"
    /\ LET n == IF Len(fis) > count THEN count ELSE Len(fis)
       IN  /\ given' = given \o SubSeq(fis, 1, n)
           /\ cut' = cut \cup {fis[k] : k \in (n + 1)..Len(fis)}
    /\ UNCHANGED <<content, left, readed, call, past>>

\* Nothing was found; an error; or a slice with a negative bound.  The callers
\* stop at each of them.
ReturnEnd ==
    /\ pc = "load"
    /\ layer > BuiltIn
    /\ \/ err = "error" /\ result' = "error"
       \/ err # "error" /\ NothingFound /\ result' = "EOF"
       \/ err # "error" /\ ~NothingFound /\ count < 0 /\ result' = "panic"
    /\ pc' = "end"
    /\ cut' = cut \cup {fis[k] : k \in DOMAIN fis}
    /\ UNCHANGED <<content, left, readed, call, given, past>>

Readdir == (\E c \in Counts : Call(c)) \/ CallFails
           \/ SkipName \/ TakeName \/ LayerDone \/ LayerFails \/ PassLayer
           \/ ReturnNames \/ ReturnEnd
Next    == MakeDirectory \/ AddAssets \/ Readdir

Spec == Init /\ [][Next]_vars

\* The callers list in a loop until a call fails.
FairSpec == Spec /\ WF_vars(Readdir)

-----------------------------------------------------------------------------
(* Properties. *)

Entry == [name : Names, layer : Layers]

\* The type invariant.
TypeOK ==
    /\ content \in [Layers -> Content \cup {NotAdded}]
    /\ left \in [Layers -> Seq(Names)]
    /\ readed \subseteq Names
    /\ pc \in {"idle", "load", "end"}
    /\ count \in Int
    /\ fis \in Seq(Entry)
    /\ err \in {"nil", "EOF", "error"}
    /\ layer \in 0..(BuiltIn + 1)
    /\ given \in Seq(Entry)
    /\ result \in {"none", "names", "EOF", "error", "panic"}
    /\ cut \subseteq Entry
    /\ late \subseteq Layers
    /\ failed \subseteq Disk..MaxExtras

\* A name is listed once, however many layers have it and however the calls cut
\* the listing up: what a call looked at in one layer, a later one leaves out in
\* another.  Only a directory made on disk in the middle of the listing gives
\* names again, because the disk is not asked what was read.
ListedOnce ==
    \A j, k \in DOMAIN given :
        j < k /\ given[j].name = given[k].name =>
            given[k].layer = Disk /\ given[j].layer # Disk /\ Disk \in late

\* The entry listed for a name is the file Open takes for it, from the first
\* layer that has it: a page is built from the file its listing promised.
\* Layers that came in the middle of the listing, or could not be read, are
\* excepted.
ListedAsOpened ==
    \A k \in DOMAIN given :
        \/ given[k].layer = OpenFrom(given[k].name)
        \/ OpenFrom(given[k].name) \in late \cup failed

\* When the listing says it is over, every name of a layer was listed, or was
\* looked at by a call that had no room for it, unless reading that very layer
\* failed: the error is lost, and what it can cost is that layer's names only.
AllListed ==
    result = "EOF" =>
        \A l \in Layers \ failed :
            NamesOf(l) \subseteq NamesIn(given) \cup {e.name : e \in cut}

\* There is always room while, of disk and extra layers, only one has the
\* directory with something in it, as in the program the repository builds: what
\* a call found is handed out, until one ends in an error and drops it.
HasSome(l) == content[l] \notin {NotAdded, Missing, <<>>}
NothingCut ==
    (\A l, m \in Disk..MaxExtras : HasSome(l) /\ HasSome(m) => l = m)
        => cut = {} \/ result = "error"

\* A caller that lists until a call fails comes to the end.
ListingEnds == <>(pc = "end")

\* "The methods should behave the same as those on an *os.File": a call with a
\* count that is not positive lists the whole directory.
ReaddirAll ==
    result \notin {"none", "error"} /\ count <= 0 =>
        UNION {NamesOf(l) : l \in Layers \ late} \subseteq NamesIn(given)

-----------------------------------------------------------------------------
(* Refinement: the layers are one directory. *)

OneDirectory == INSTANCE Directory WITH
    has <- [l \in Layers |-> NamesOf(l)],
    missed <- {e.name : e \in cut},
    over <- IF pc = "end" THEN result ELSE "none"

\* A listing implements Directory: the layers' cursors, the names looked at twice
\* and the layers that come between two calls are invisible in it, and each call
\* brings at least one name, and none that was there before.
ListsAsOne == OneDirectory!Spec
=============================================================================
