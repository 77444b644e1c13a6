-------------------------- MODULE FileAsset_proofs --------------------------
(***************************************************************************)
(* The listing of the asset overlay (FileAsset), for any number of layers, *)
(* any directories in them and any sequence of counts.                     *)
(***************************************************************************)
EXTENDS FileAsset, WellFoundedInduction, TLAPS

USE DEF Disk, BuiltIn, Extras, Layers, past

-----------------------------------------------------------------------------
(* What a call takes off a directory's front, and what it leaves. *)

LEMMA Front ==
    ASSUME NEW S, NEW s \in Seq(S), NEW n \in 0..Len(s)
    PROVE  /\ SubSeq(s, 1, n) \in Seq(S)
           /\ Len(SubSeq(s, 1, n)) = n
           /\ \A k \in 1..n : SubSeq(s, 1, n)[k] = s[k]
  OBVIOUS

LEMMA Rest ==
    ASSUME NEW S, NEW s \in Seq(S), NEW n \in 0..Len(s)
    PROVE  /\ SubSeq(s, n + 1, Len(s)) \in Seq(S)
           /\ Len(SubSeq(s, n + 1, Len(s))) = Len(s) - n
           /\ \A k \in 1..(Len(s) - n) :
                  SubSeq(s, n + 1, Len(s))[k] = s[k + n]
  OBVIOUS

LEMMA TailOf ==
    ASSUME NEW S, NEW s \in Seq(S), s # <<>>
    PROVE  /\ Head(s) \in S /\ Head(s) = s[1] /\ 1 \in DOMAIN s
           /\ Tail(s) \in Seq(S)
           /\ Len(Tail(s)) = Len(s) - 1
           /\ \A k \in 1..(Len(s) - 1) : Tail(s)[k] = s[k + 1]
  OBVIOUS

LEMMA Joined ==
    ASSUME NEW S, NEW s \in Seq(S), NEW t \in Seq(S)
    PROVE  /\ s \o t \in Seq(S)
           /\ Len(s \o t) = Len(s) + Len(t)
           /\ \A k \in 1..Len(s) : (s \o t)[k] = s[k]
           /\ \A k \in 1..Len(t) : (s \o t)[Len(s) + k] = t[k]
  OBVIOUS

-----------------------------------------------------------------------------
(* Type correctness. *)

\* How many names a call takes from the disk.
FromDisk(c) == IF c > 0 /\ c < Len(left[Disk]) THEN c ELSE Len(left[Disk])

\* How many of its entries a call returns.
Returned == IF Len(fis) > count THEN count ELSE Len(fis)

LEMMA FromDiskBounds ==
    ASSUME TypeOK, NEW c \in Int
    PROVE  FromDisk(c) \in 0..Len(left[Disk])
  BY ExtrasAssumption DEF TypeOK, FromDisk

\* What the first step of a call leaves, element by element.
LEMMA CallEffect ==
    ASSUME TypeOK, NEW c \in Counts, Call(c)
    PROVE  /\ left[Disk] \in Seq(Names) /\ FromDisk(c) \in 0..Len(left[Disk])
           /\ left' \in [Layers -> Seq(Names)]
           /\ \A l \in Layers \ {Disk} : left'[l] = left[l]
           /\ Len(left'[Disk]) = Len(left[Disk]) - FromDisk(c)
           /\ \A k \in 1..Len(left'[Disk]) :
                  left'[Disk][k] = left[Disk][k + FromDisk(c)]
           /\ fis' \in Seq(Entry) /\ Len(fis') = FromDisk(c)
           /\ \A k \in 1..FromDisk(c) :
                  fis'[k] = [name |-> left[Disk][k], layer |-> Disk]
           /\ readed' = readed \cup {left[Disk][k] : k \in 1..FromDisk(c)}
  <1> DEFINE n == FromDisk(c)
             s == left[Disk]
             names == SubSeq(s, 1, n)
  <1>1. s \in Seq(Names) /\ Disk \in Layers
    BY ExtrasAssumption DEF TypeOK
  <1>2. n \in 0..Len(s)
    BY FromDiskBounds, CountsAssumption
  <1>3. /\ fis' = [k \in 1..n |-> [name |-> names[k], layer |-> Disk]]
        /\ readed' = readed \cup {names[k] : k \in 1..n}
        /\ left' = [left EXCEPT ![Disk] = SubSeq(s, n + 1, Len(s))]
    BY DEF Call, FromDisk
  <1> HIDE DEF n
  <1>4. /\ \A k \in 1..n : names[k] = s[k] /\ names[k] \in Names
    BY <1>1, <1>2, Front
  <1>5. /\ SubSeq(s, n + 1, Len(s)) \in Seq(Names)
        /\ Len(SubSeq(s, n + 1, Len(s))) = Len(s) - n
        /\ \A k \in 1..(Len(s) - n) : SubSeq(s, n + 1, Len(s))[k] = s[k + n]
    BY <1>1, <1>2, Rest
  <1>6. left'[Disk] = SubSeq(s, n + 1, Len(s))
        /\ left' \in [Layers -> Seq(Names)]
        /\ \A l \in Layers \ {Disk} : left'[l] = left[l]
    BY <1>1, <1>3, <1>5 DEF TypeOK
  <1>7. /\ fis' = [k \in 1..n |-> [name |-> s[k], layer |-> Disk]]
        /\ readed' = readed \cup {s[k] : k \in 1..n}
    BY <1>3, <1>4
  <1>8. \A k \in 1..n : [name |-> s[k], layer |-> Disk] \in Entry
    BY <1>1, <1>4 DEF Entry
  <1>9. fis' \in Seq(Entry) /\ Len(fis') = n
    <2>1. fis' \in [1..n -> Entry] /\ n \in Nat
      BY <1>2, <1>7, <1>8
    <2> QED BY <2>1
  <1>10. \A k \in 1..n : fis'[k] = [name |-> s[k], layer |-> Disk]
    BY <1>7
  <1>11. Len(left'[Disk]) = Len(s) - n
    BY <1>5, <1>6
  <1>12. \A k \in 1..Len(left'[Disk]) : left'[Disk][k] = s[k + n]
    BY <1>5, <1>6
  <1> QED BY <1>1, <1>2, <1>6, <1>7, <1>9, <1>10, <1>11, <1>12 DEF n

\* What taking or skipping a name leaves.
LEMMA NameEffect ==
    ASSUME TypeOK, SkipName \/ TakeName
    PROVE  /\ layer \in Layers /\ left[layer] \in Seq(Names)
           /\ left[layer] # <<>> /\ 1 \in DOMAIN left[layer]
           /\ Head(left[layer]) = left[layer][1]
           /\ Head(left[layer]) \in Names
           /\ left' \in [Layers -> Seq(Names)]
           /\ \A l \in Layers \ {layer} : left'[l] = left[l]
           /\ Len(left'[layer]) = Len(left[layer]) - 1
           /\ \A k \in 1..Len(left'[layer]) :
                  left'[layer][k] = left[layer][k + 1]
  <1>1. layer \in Layers /\ left[layer] # <<>>
        /\ left' = [left EXCEPT ![layer] = Tail(left[layer])]
    BY ExtrasAssumption DEF TypeOK, SkipName, TakeName, Loading
  <1>2. left[layer] \in Seq(Names)
    BY <1>1 DEF TypeOK
  <1>3. /\ Head(left[layer]) \in Names /\ Head(left[layer]) = left[layer][1]
        /\ 1 \in DOMAIN left[layer]
        /\ Tail(left[layer]) \in Seq(Names)
        /\ Len(Tail(left[layer])) = Len(left[layer]) - 1
        /\ \A k \in 1..(Len(left[layer]) - 1) :
               Tail(left[layer])[k] = left[layer][k + 1]
    BY <1>1, <1>2, TailOf
  <1>4. left'[layer] = Tail(left[layer])
        /\ left' \in [Layers -> Seq(Names)]
        /\ \A l \in Layers \ {layer} : left'[l] = left[l]
    BY <1>1, <1>3 DEF TypeOK
  <1> QED BY <1>1, <1>2, <1>3, <1>4

\* What the caller gets.
LEMMA ReturnEffect ==
    ASSUME TypeOK, ReturnNames
    PROVE  /\ Returned \in 0..Len(fis) /\ Returned <= count
           /\ given' \in Seq(Entry)
           /\ Len(given') = Len(given) + Returned
           /\ \A k \in 1..Len(given) : given'[k] = given[k]
           /\ \A k \in 1..Returned : given'[Len(given) + k] = fis[k]
  <1>1. fis \in Seq(Entry) /\ given \in Seq(Entry) /\ count \in Int
    BY DEF TypeOK
  <1>2. Returned \in 0..Len(fis) /\ Returned <= count
    BY <1>1 DEF ReturnNames, Returned
  <1>3. given' = given \o SubSeq(fis, 1, Returned)
    BY DEF ReturnNames, Returned
  <1>4. /\ SubSeq(fis, 1, Returned) \in Seq(Entry)
        /\ Len(SubSeq(fis, 1, Returned)) = Returned
        /\ \A k \in 1..Returned : SubSeq(fis, 1, Returned)[k] = fis[k]
    BY <1>1, <1>2, Front
  <1> HIDE DEF Returned
  <1> QED BY <1>1, <1>2, <1>3, <1>4, Joined

LEMMA InitType == Init => TypeOK
  <1> SUFFICES ASSUME Init PROVE TypeOK
    OBVIOUS
  <1>1. left \in [Layers -> Seq(Names)]
    <2>1. \A l \in Layers : (IF content[l] \in Directories THEN content[l]
                             ELSE <<>>) \in Seq(Names)
      BY DirectoriesAssumption
    <2> QED BY <2>1 DEF Init
  <1>2. fis \in Seq(Entry) /\ given \in Seq(Entry)
    BY DEF Init
  <1> QED BY <1>1, <1>2, ExtrasAssumption DEF Init, TypeOK

LEMMA AppearType ==
    ASSUME TypeOK, NEW l \in Layers, NEW c \in Content, Appear(l, c)
    PROVE  TypeOK'
  <1>1. (IF c \in Directories THEN c ELSE <<>>) \in Seq(Names)
    BY DirectoriesAssumption
  <1>2. left' \in [Layers -> Seq(Names)]
    BY <1>1 DEF Appear, TypeOK
  <1>3. content' \in [Layers -> Content \cup {NotAdded}]
    BY DEF Appear, TypeOK
  <1>4. late' \subseteq Layers
    BY DEF Appear, TypeOK
  <1>5. failed' \subseteq Disk..MaxExtras
    BY DEF Appear, TypeOK
  <1> QED BY <1>2, <1>3, <1>4, <1>5 DEF Appear, TypeOK, call, caller

\* A layer is on disk or an extra one when it appears.
LEMMA AppearCases ==
    ASSUME MakeDirectory \/ AddAssets
    PROVE  \E l \in Disk..MaxExtras, c \in Content :
               Appear(l, c) /\ content[l] \in {Missing, NotAdded}
  <1>1. CASE MakeDirectory
    BY <1>1, ExtrasAssumption DEF MakeDirectory, Content
  <1>2. CASE AddAssets
    BY <1>2, ExtrasAssumption DEF AddAssets
  <1> QED BY <1>1, <1>2

LEMMA StepType == TypeOK /\ [Next]_vars => TypeOK'
  <1> SUFFICES ASSUME TypeOK, [Next]_vars PROVE TypeOK'
    OBVIOUS
  <1>1. CASE MakeDirectory \/ AddAssets
    <2>1. PICK l \in Disk..MaxExtras, c \in Content : Appear(l, c)
      BY <1>1, AppearCases
    <2>2. l \in Layers
      BY ExtrasAssumption
    <2> QED BY <2>1, <2>2, AppearType
  <1>2. CASE \E c \in Counts : Call(c)
    <2>1. PICK c \in Counts : Call(c)
      BY <1>2
    <2>2. /\ left' \in [Layers -> Seq(Names)]
          /\ fis' \in Seq(Entry)
      BY <2>1, CallEffect
    <2>3. readed' \subseteq Names
      <3>1. left[Disk] \in Seq(Names) /\ FromDisk(c) \in 0..Len(left[Disk])
            /\ readed' = readed \cup {left[Disk][k] : k \in 1..FromDisk(c)}
        BY <2>1, CallEffect
      <3>2. \A k \in 1..FromDisk(c) : left[Disk][k] \in Names
        BY <3>1
      <3> QED BY <3>1, <3>2 DEF TypeOK
    <2>4. count' \in Int /\ err' = "nil" /\ layer' \in 0..(BuiltIn + 1)
          /\ pc' = "load"
      BY <2>1, CountsAssumption, ExtrasAssumption DEF Call, FirstExtra
    <2> QED BY <2>1, <2>2, <2>3, <2>4 DEF Call, TypeOK, caller
  <1>3. CASE CallFails
    <2>1. failed' \subseteq Disk..MaxExtras
      BY <1>3, ExtrasAssumption DEF CallFails, TypeOK
    <2> QED BY <1>3, <2>1 DEF CallFails, TypeOK, call
  <1>4. CASE SkipName \/ TakeName
    <2>1. /\ layer \in Layers
          /\ Head(left[layer]) \in Names
          /\ left' \in [Layers -> Seq(Names)]
      BY <1>4, NameEffect
    <2>2. [name |-> Head(left[layer]), layer |-> layer] \in Entry
      BY <2>1 DEF Entry
    <2>3. fis' \in Seq(Entry) /\ readed' \subseteq Names
      <3>1. CASE SkipName
        BY <3>1 DEF SkipName, TypeOK
      <3>2. CASE TakeName
        BY <3>2, <2>1, <2>2 DEF TakeName, TypeOK
      <3> QED BY <1>4, <3>1, <3>2
    <2>4. layer' \in 0..(BuiltIn + 1) /\ err' \in {"nil", "EOF", "error"}
      <3>1. CASE SkipName
        BY <3>1 DEF SkipName, TypeOK
      <3>2. CASE TakeName
        <4>1. layer' \in {layer, layer + 1} /\ err' = "nil"
          BY <3>2 DEF TakeName, NextLayer
        <4> QED BY <2>1, <4>1, ExtrasAssumption
      <3> QED BY <1>4, <3>1, <3>2
    <2> QED BY <1>4, <2>1, <2>3, <2>4
            DEF SkipName, TakeName, Loading, TypeOK, caller
  <1>5. CASE LayerDone \/ LayerFails \/ PassLayer
    <2>1. layer' \in 0..(BuiltIn + 1)
      BY <1>5, ExtrasAssumption
         DEF LayerDone, LayerFails, PassLayer, Loading, NextLayer, TypeOK
    <2>2. CASE LayerFails
      <3>1. left' \in [Layers -> Seq(Names)]
        <4>1. layer \in Layers /\ left[layer] \in Seq(Names)
          BY <2>2, ExtrasAssumption DEF LayerFails, TypeOK
        <4>2. left[layer] # <<>> => Tail(left[layer]) \in Seq(Names)
          BY <4>1, TailOf
        <4> QED BY <2>2, <4>1, <4>2 DEF LayerFails, TypeOK
      <3>2. failed' \subseteq Disk..MaxExtras
        BY <2>2, ExtrasAssumption DEF LayerFails, TypeOK
      <3> QED BY <2>1, <2>2, <3>1, <3>2 DEF LayerFails, Loading, TypeOK, caller
    <2>3. CASE LayerDone \/ PassLayer
      BY <2>1, <2>3 DEF LayerDone, PassLayer, Loading, TypeOK, caller
    <2> QED BY <1>5, <2>2, <2>3
  <1>6. CASE ReturnNames
    <2>1. given' \in Seq(Entry)
      BY <1>6, ReturnEffect
    <2>2. cut' \subseteq Entry
      BY <1>6 DEF ReturnNames, TypeOK
    <2> QED BY <1>6, <2>1, <2>2 DEF ReturnNames, TypeOK, call
  <1>7. CASE ReturnEnd
    <2>1. cut' \subseteq Entry
      BY <1>7 DEF ReturnEnd, TypeOK
    <2> QED BY <1>7, <2>1 DEF ReturnEnd, TypeOK, call
  <1>8. CASE UNCHANGED vars
    BY <1>8 DEF vars, call, caller, TypeOK
  <1> QED BY <1>1, <1>2, <1>3, <1>4, <1>5, <1>6, <1>7, <1>8 DEF Next, Readdir

\* Every variable of the overlay keeps its type: the cursors stay in their
\* directories, and the loop over the layers in the layers.
THEOREM TypeCorrect == Spec => []TypeOK
  <1>1. Init => TypeOK
    BY InitType
  <1>2. TypeOK /\ [Next]_vars => TypeOK'
    BY StepType
  <1> QED BY <1>1, <1>2, PTL DEF Spec

-----------------------------------------------------------------------------
(* What a listing has behind it and ahead of it. *)

\* The names the cursor of layer l has not passed.
Ahead(l) == {left[l][k] : k \in DOMAIN left[l]}

\* A cursor is inside its directory, and what it passed was read, unless reading
\* its layer failed.
Cursors ==
    \A l \in Layers :
        /\ Ahead(l) \subseteq NamesOf(l)
        /\ \A j, k \in DOMAIN left[l] : left[l][j] = left[l][k] => j = k
        /\ l \notin failed => NamesOf(l) \subseteq Ahead(l) \cup readed

\* What was given, and what the running call has found, was read; nothing was
\* given before the first call came back.
Read ==
    /\ result = "none" => given = <<>>
    /\ \A k \in DOMAIN given : given[k].name \in readed
    /\ pc = "load" => \A k \in DOMAIN fis : fis[k].name \in readed

\* Entry e may follow entry g.
MayFollow(g, e) ==
    g.name = e.name => e.layer = Disk /\ g.layer # Disk /\ Disk \in late

Once ==
    /\ \A j, k \in DOMAIN given : j < k => MayFollow(given[j], given[k])
    /\ pc = "load" =>
           /\ \A j \in DOMAIN given, k \in DOMAIN fis : MayFollow(given[j], fis[k])
           /\ \A j, k \in DOMAIN fis : j < k => fis[j].name # fis[k].name

\* The disk never gives a name twice.
DiskOnce ==
    /\ \A k \in DOMAIN given : given[k].layer = Disk => given[k].name \notin Ahead(Disk)
    /\ pc = "load" => \A k \in DOMAIN fis :
                          fis[k].layer = Disk => fis[k].name \notin Ahead(Disk)

\* As long as the disk has names, no other layer's get to the caller.
DiskFirst ==
    left[Disk] # <<>> =>
        /\ Disk \notin late => \A k \in DOMAIN given : given[k].layer = Disk
        /\ pc = "load" => /\ Len(fis) >= count
                          /\ \A k \in DOMAIN fis : k <= count => fis[k].layer = Disk

\* A call that still has room has been through the layers behind it.
Exhausted ==
    pc = "load" =>
        /\ layer > Disk
        /\ Len(fis) < count => \A m \in Layers \ failed : m < layer => left[m] = <<>>

\* Entry e comes from the layer Open would ask first.
Top(e) ==
    /\ e.name \in NamesOf(e.layer)
    /\ \A m \in Layers \ (late \cup failed) : m < e.layer => e.name \notin NamesOf(m)

FromTop ==
    /\ \A k \in DOMAIN given : Top(given[k])
    /\ pc = "load" => \A k \in DOMAIN fis :
                          /\ fis[k].name \in NamesOf(fis[k].layer)
                          /\ k <= count => Top(fis[k])

Listing == Cursors /\ Read /\ Once /\ DiskOnce /\ DiskFirst /\ Exhausted /\ FromTop

LEMMA InitListing == Init => Listing
  <1> SUFFICES ASSUME Init PROVE Listing
    OBVIOUS
  <1>1. Cursors
    <2> SUFFICES ASSUME NEW l \in Layers
        PROVE  /\ Ahead(l) \subseteq NamesOf(l)
               /\ \A j, k \in DOMAIN left[l] : left[l][j] = left[l][k] => j = k
               /\ NamesOf(l) \subseteq Ahead(l)
      BY DEF Cursors
    <2>1. CASE content[l] \in Directories
      <3>1. left[l] = content[l]
        BY <2>1 DEF Init
      <3> QED BY <2>1, <3>1, DirectoriesAssumption DEF Ahead, NamesOf
    <2>2. CASE content[l] \notin Directories
      <3>1. left[l] = <<>>
        BY <2>2 DEF Init
      <3> QED BY <2>2, <3>1 DEF Ahead, NamesOf
    <2> QED BY <2>1, <2>2
  <1>2. given = <<>> /\ pc = "idle"
    BY DEF Init
  <1> QED BY <1>1, <1>2
          DEF Listing, Read, Once, DiskOnce, DiskFirst, Exhausted, FromTop

\* A layer that appears was empty, and is either first asked by the first call
\* or late.
LEMMA AppearListing ==
    ASSUME TypeOK, Listing, NEW l \in Disk..MaxExtras, NEW c \in Content,
           Appear(l, c), content[l] \in {Missing, NotAdded}
    PROVE  Listing'
  <1>1. /\ l \in Layers /\ pc = "idle" /\ pc' = "idle"
        /\ given' = given /\ readed' = readed /\ result' = result
        /\ content'[l] = c
        /\ left'[l] = IF c \in Directories THEN c ELSE <<>>
        /\ \A m \in Layers \ {l} : content'[m] = content[m] /\ left'[m] = left[m]
        /\ late \subseteq late' /\ failed' = failed
        /\ result # "none" => l \in late'
    BY ExtrasAssumption DEF Appear, TypeOK, caller
  <1>2. NamesOf(l) = {}
    BY DirectoriesAssumption DEF NamesOf
  <1>3. \A m \in Layers \ {l} : NamesOf(m)' = NamesOf(m) /\ Ahead(m)' = Ahead(m)
    BY <1>1 DEF NamesOf, Ahead
  <1>4. NamesOf(l)' = Ahead(l)'
    BY <1>1 DEF NamesOf, Ahead
  <1>5. \A j, k \in DOMAIN left'[l] : left'[l][j] = left'[l][k] => j = k
    BY <1>1, DirectoriesAssumption
  <1>6. Cursors'
    <2> SUFFICES ASSUME NEW m \in Layers
        PROVE  /\ Ahead(m)' \subseteq NamesOf(m)'
               /\ \A j, k \in DOMAIN left'[m] : left'[m][j] = left'[m][k] => j = k
               /\ m \notin failed => NamesOf(m)' \subseteq Ahead(m)' \cup readed'
      BY <1>1 DEF Cursors
    <2> QED BY <1>1, <1>3, <1>4, <1>5 DEF Listing, Cursors
  <1>7. result = "none" => given = <<>>
    BY DEF Listing, Read
  <1>8. \A k \in DOMAIN given : given[k].layer # l /\ given[k].layer \in Layers
    <2>1. \A k \in DOMAIN given : given[k].name \in NamesOf(given[k].layer)
      BY DEF Listing, FromTop, Top
    <2>2. \A k \in DOMAIN given : given[k] \in Entry
      BY DEF TypeOK
    <2>3. \A k \in DOMAIN given : given[k].layer \in Layers
      BY <2>2 DEF Entry
    <2> QED BY <1>2, <2>1, <2>3
  <1>9. Read' /\ Once'
    BY <1>1 DEF Listing, Read, Once, MayFollow
  <1>10. DiskOnce' /\ Exhausted'
    BY <1>1, <1>3, <1>8 DEF Listing, DiskOnce, Exhausted
  <1>11. DiskFirst'
    <2>1. CASE result = "none"
      BY <1>1, <1>7, <2>1 DEF DiskFirst
    <2>2. CASE result # "none" /\ l = Disk
      BY <1>1, <2>2 DEF DiskFirst
    <2>3. CASE l # Disk
      <3>1. left'[Disk] = left[Disk]
        BY <1>1, <2>3, ExtrasAssumption
      <3> QED BY <1>1, <3>1 DEF Listing, DiskFirst
    <2> QED BY <2>1, <2>2, <2>3
  <1>12. FromTop'
    <2> SUFFICES ASSUME NEW k \in DOMAIN given PROVE Top(given[k])'
      BY <1>1 DEF FromTop
    <2>1. Top(given[k]) /\ l \in late'
      BY <1>1, <1>7 DEF Listing, FromTop
    <2> QED BY <1>1, <1>3, <1>8, <2>1 DEF Top
  <1> QED BY <1>6, <1>9, <1>10, <1>11, <1>12 DEF Listing

\* A call takes the disk's next names, which only a late disk can repeat.
LEMMA CallListing ==
    ASSUME TypeOK, Listing, NEW c \in Counts, Call(c)
    PROVE  Listing'
  <1> DEFINE n == FromDisk(c)
  <1>1. /\ left[Disk] \in Seq(Names) /\ n \in 0..Len(left[Disk])
        /\ left' \in [Layers -> Seq(Names)]
        /\ \A l \in Layers \ {Disk} : left'[l] = left[l]
        /\ Len(left'[Disk]) = Len(left[Disk]) - n
        /\ \A k \in 1..Len(left'[Disk]) : left'[Disk][k] = left[Disk][k + n]
        /\ fis' \in Seq(Entry) /\ Len(fis') = n
        /\ \A k \in 1..n : fis'[k] = [name |-> left[Disk][k], layer |-> Disk]
        /\ readed' = readed \cup {left[Disk][k] : k \in 1..n}
    BY CallEffect
  <1>2. /\ pc = "idle" /\ pc' = "load" /\ count' = c /\ layer' = 1
        /\ UNCHANGED <<content, given, result, late, failed>>
    BY DEF Call, FirstExtra, caller
  <1>3. n = IF c > 0 /\ c < Len(left[Disk]) THEN c ELSE Len(left[Disk])
    BY DEF FromDisk
  <1>4. c \in Int /\ Disk \in Layers /\ Len(left[Disk]) \in Nat
    BY <1>1, CountsAssumption, ExtrasAssumption
  <1> HIDE DEF n
  <1>18. /\ DOMAIN left[Disk] = 1..Len(left[Disk])
         /\ DOMAIN left'[Disk] = 1..(Len(left[Disk]) - n)
    <2>1. left'[Disk] \in Seq(Names)
      BY <1>1, <1>4
    <2> QED BY <1>1, <2>1
  <1>5. left'[Disk] # <<>> => n = c /\ left[Disk] # <<>>
    <2> SUFFICES ASSUME left'[Disk] # <<>> PROVE n = c /\ left[Disk] # <<>>
      OBVIOUS
    <2>1. left'[Disk] \in Seq(Names)
      BY <1>1, <1>4
    <2>2. Len(left'[Disk]) > 0
      BY <2>1
    <2> QED BY <1>1, <1>3, <1>4, <2>2
  <1>6. Ahead(Disk)' \subseteq Ahead(Disk)
        /\ Ahead(Disk) \subseteq Ahead(Disk)' \cup {left[Disk][k] : k \in 1..n}
        /\ \A l \in Layers \ {Disk} : Ahead(l)' = Ahead(l)
    <2>1. left'[Disk] \in Seq(Names)
      BY <1>1, <1>4
    <2>2. Ahead(Disk)' \subseteq Ahead(Disk)
      <3> SUFFICES ASSUME NEW k \in DOMAIN left'[Disk]
                   PROVE  left'[Disk][k] \in Ahead(Disk)
        BY DEF Ahead
      <3>1. left'[Disk][k] = left[Disk][k + n] /\ k + n \in DOMAIN left[Disk]
        BY <1>1, <1>18
      <3> QED BY <3>1 DEF Ahead
    <2>3. ASSUME NEW k \in DOMAIN left[Disk], k \notin 1..n
          PROVE  left[Disk][k] \in Ahead(Disk)'
      <3>1. k - n \in 1..(Len(left[Disk]) - n)
        BY <1>1, <1>4, <1>18, <2>3
      <3>2. left'[Disk][k - n] = left[Disk][k]
        <4>1. left'[Disk][k - n] = left[Disk][(k - n) + n]
          BY <1>1, <3>1
        <4>2. (k - n) + n = k
          BY <1>1, <1>4, <1>18
        <4> QED BY <4>1, <4>2
      <3> QED BY <1>18, <3>1, <3>2 DEF Ahead
    <2>4. Ahead(Disk) \subseteq Ahead(Disk)' \cup {left[Disk][k] : k \in 1..n}
      BY <2>3 DEF Ahead
    <2>5. \A l \in Layers \ {Disk} : Ahead(l)' = Ahead(l)
      BY <1>1 DEF Ahead
    <2> QED BY <2>2, <2>4, <2>5
  <1>7. \A l \in Layers : NamesOf(l)' = NamesOf(l)
    BY <1>2 DEF NamesOf
  <1>8. \A j, k \in DOMAIN left[Disk] : left[Disk][j] = left[Disk][k] => j = k
    BY <1>4 DEF Listing, Cursors
  <1>9. \A k \in 1..n : left[Disk][k] \in Ahead(Disk) /\ left[Disk][k] \notin Ahead(Disk)'
    <2> SUFFICES ASSUME NEW k \in 1..n
        PROVE  left[Disk][k] \in Ahead(Disk) /\ left[Disk][k] \notin Ahead(Disk)'
      OBVIOUS
    <2>1. k \in DOMAIN left[Disk]
      BY <1>1, <1>4, <1>18
    <2>2. ASSUME NEW j \in DOMAIN left'[Disk]
          PROVE  left'[Disk][j] # left[Disk][k]
      <3>1. /\ left'[Disk][j] = left[Disk][j + n]
            /\ j + n \in DOMAIN left[Disk] /\ j + n # k
        BY <1>1, <1>4, <1>18
      <3> QED BY <1>8, <2>1, <3>1
    <2> QED BY <2>1, <2>2 DEF Ahead
  <1>10. \A k \in DOMAIN fis' : /\ k \in 1..n
                                /\ fis'[k].name = left[Disk][k]
                                /\ fis'[k].layer = Disk
    BY <1>1
  <1>11. Cursors'
    <2> SUFFICES ASSUME NEW l \in Layers
        PROVE  /\ Ahead(l)' \subseteq NamesOf(l)'
               /\ \A j, k \in DOMAIN left'[l] : left'[l][j] = left'[l][k] => j = k
               /\ l \notin failed => NamesOf(l)' \subseteq Ahead(l)' \cup readed'
      BY <1>2 DEF Cursors
    <2>1. /\ Ahead(l)' \subseteq NamesOf(l)'
          /\ l \notin failed => NamesOf(l)' \subseteq Ahead(l)' \cup readed'
      BY <1>1, <1>6, <1>7 DEF Listing, Cursors
    <2>2. ASSUME NEW j \in DOMAIN left'[l], NEW k \in DOMAIN left'[l],
                 left'[l][j] = left'[l][k]
          PROVE  j = k
      <3>1. CASE l = Disk
        <4>1. j \in DOMAIN left'[Disk] /\ k \in DOMAIN left'[Disk]
          BY <2>2, <3>1
        <4>2. left[Disk][j + n] = left[Disk][k + n]
          BY <1>1, <1>18, <2>2, <3>1, <4>1
        <4>3. j + n \in DOMAIN left[Disk] /\ k + n \in DOMAIN left[Disk]
              /\ j \in Nat /\ k \in Nat
          BY <1>1, <1>4, <1>18, <4>1
        <4>4. j + n = k + n
          BY <1>8, <4>2, <4>3
        <4> QED BY <1>1, <4>3, <4>4
      <3>2. CASE l # Disk
        <4>1. left'[l] = left[l]
          BY <1>1, <3>2
        <4> QED BY <2>2, <4>1 DEF Listing, Cursors
      <3> QED BY <3>1, <3>2
    <2> QED BY <2>1, <2>2
  <1>12. Read'
    BY <1>1, <1>2, <1>10 DEF Listing, Read
  <1>13. Once'
    <2>1. ASSUME NEW j \in DOMAIN given, NEW k \in DOMAIN fis'
          PROVE  MayFollow(given[j], fis[k])'
      <3> SUFFICES ASSUME given[j].name = fis'[k].name
                   PROVE  given[j].layer # Disk /\ Disk \in late
        BY <1>2, <1>10 DEF MayFollow
      <3>1. given[j].name \in Ahead(Disk)
        BY <1>9, <1>10
      <3>2. given[j].layer # Disk
        BY <3>1 DEF Listing, DiskOnce
      <3>3. left[Disk] # <<>>
        BY <3>1 DEF Ahead
      <3> QED BY <3>2, <3>3 DEF Listing, DiskFirst
    <2>2. ASSUME NEW j \in DOMAIN fis', NEW k \in DOMAIN fis', j < k
          PROVE  fis'[j].name # fis'[k].name
      <3>1. left[Disk][j] # left[Disk][k]
        BY <1>1, <1>8, <2>2
      <3> QED BY <1>10, <3>1
    <2> QED BY <1>2, <2>1, <2>2 DEF Listing, Once, MayFollow
  <1>14. DiskOnce'
    BY <1>2, <1>6, <1>9, <1>10 DEF Listing, DiskOnce
  <1>15. DiskFirst'
    BY <1>1, <1>2, <1>4, <1>5, <1>10 DEF Listing, DiskFirst
  <1>16. Exhausted'
    <2>1. Len(fis') < count' => left'[Disk] = <<>>
      BY <1>1, <1>2, <1>4, <1>5
    <2> QED BY <1>2, <2>1, ExtrasAssumption DEF Exhausted
  <1>17. FromTop'
    <2>1. \A k \in DOMAIN fis' : Top(fis[k])'
      <3> SUFFICES ASSUME NEW k \in DOMAIN fis' PROVE Top(fis[k])'
        OBVIOUS
      <3>1. fis'[k].name \in NamesOf(Disk)'
        BY <1>4, <1>7, <1>9, <1>10 DEF Listing, Cursors
      <3> QED BY <1>10, <3>1, ExtrasAssumption DEF Top
    <2>2. ASSUME NEW k \in DOMAIN given PROVE Top(given[k])'
      <3>1. Top(given[k]) /\ given[k].layer \in Layers
        <4>1. given[k] \in Entry
          BY DEF TypeOK
        <4> QED BY <4>1 DEF Listing, FromTop, Entry
      <3> QED BY <1>2, <1>7, <3>1 DEF Top
    <2> QED BY <1>2, <2>1, <2>2 DEF FromTop, Top
  <1> QED BY <1>11, <1>12, <1>13, <1>14, <1>15, <1>16, <1>17 DEF Listing

\* loadFiles goes over a name, or takes one that no layer has shown before.
LEMMA NameListing ==
    ASSUME TypeOK, Listing, SkipName \/ TakeName
    PROVE  Listing'
  <1>0. PICK l0 \in Layers : l0 = layer
    BY NameEffect
  <1> DEFINE n == left[l0][1]
  <1>1. /\ l0 \in Layers /\ 1 \in DOMAIN left[l0]
        /\ left[l0] \in Seq(Names)
        /\ Head(left[l0]) = n
        /\ left' \in [Layers -> Seq(Names)]
        /\ \A l \in Layers \ {l0} : left'[l] = left[l]
        /\ Len(left'[l0]) = Len(left[l0]) - 1
        /\ \A k \in 1..Len(left'[l0]) : left'[l0][k] = left[l0][k + 1]
    BY <1>0, NameEffect
  <1>2. /\ pc = "load" /\ pc' = "load"
        /\ UNCHANGED <<content, count, given, result, late, failed>>
    BY DEF SkipName, TakeName, Loading, caller
  <1>3. /\ DOMAIN left[l0] = 1..Len(left[l0]) /\ Len(left[l0]) \in Nat
        /\ DOMAIN left'[l0] = 1..(Len(left[l0]) - 1)
    <2>1. left'[l0] \in Seq(Names)
      BY <1>1
    <2> QED BY <1>1, <2>1
  <1>4. \A j, k \in DOMAIN left[l0] : left[l0][j] = left[l0][k] => j = k
    BY <1>1 DEF Listing, Cursors
  <1>5. /\ Ahead(l0)' \subseteq Ahead(l0)
        /\ Ahead(l0) \subseteq Ahead(l0)' \cup {n}
        /\ n \in Ahead(l0)
        /\ \A l \in Layers \ {l0} : Ahead(l)' = Ahead(l)
    <2>1. ASSUME NEW k \in DOMAIN left'[l0]
          PROVE  left'[l0][k] \in Ahead(l0)
      <3>1. left'[l0][k] = left[l0][k + 1] /\ k + 1 \in DOMAIN left[l0]
        BY <1>1, <1>3
      <3> QED BY <3>1 DEF Ahead
    <2>2. ASSUME NEW k \in DOMAIN left[l0], k # 1
          PROVE  left[l0][k] \in Ahead(l0)'
      <3>1. k - 1 \in 1..(Len(left[l0]) - 1) /\ (k - 1) + 1 = k
        BY <1>3, <2>2
      <3>2. left'[l0][k - 1] = left[l0][k]
        BY <1>1, <3>1
      <3> QED BY <1>3, <3>1, <3>2 DEF Ahead
    <2> QED BY <1>1, <2>1, <2>2 DEF Ahead
  <1>6. \A l \in Layers : NamesOf(l)' = NamesOf(l)
    BY <1>2 DEF NamesOf
  <1>7. readed' = readed \cup {n}
    BY <1>0, <1>1 DEF SkipName, TakeName, IsNew
  <1>8. l0 # Disk /\ left'[Disk] = left[Disk] /\ Ahead(Disk)' = Ahead(Disk)
    <2>1. l0 # Disk
      BY <1>0, <1>2 DEF Listing, Exhausted
    <2> QED BY <1>1, <1>5, <2>1, ExtrasAssumption
  <1>9. Cursors'
    <2> SUFFICES ASSUME NEW l \in Layers
        PROVE  /\ Ahead(l)' \subseteq NamesOf(l)'
               /\ \A j, k \in DOMAIN left'[l] : left'[l][j] = left'[l][k] => j = k
               /\ l \notin failed => NamesOf(l)' \subseteq Ahead(l)' \cup readed'
      BY <1>2 DEF Cursors
    <2>1. /\ Ahead(l)' \subseteq NamesOf(l)'
          /\ l \notin failed => NamesOf(l)' \subseteq Ahead(l)' \cup readed'
      BY <1>5, <1>6, <1>7 DEF Listing, Cursors
    <2>2. ASSUME NEW j \in DOMAIN left'[l], NEW k \in DOMAIN left'[l],
                 left'[l][j] = left'[l][k]
          PROVE  j = k
      <3>1. CASE l = l0
        <4>1. j \in 1..(Len(left[l0]) - 1) /\ k \in 1..(Len(left[l0]) - 1)
          BY <1>3, <2>2, <3>1
        <4>2. left[l0][j + 1] = left[l0][k + 1]
          BY <1>1, <1>3, <2>2, <3>1, <4>1
        <4>3. /\ j + 1 \in DOMAIN left[l0] /\ k + 1 \in DOMAIN left[l0]
              /\ j \in Nat /\ k \in Nat
          BY <1>3, <4>1
        <4>4. j + 1 = k + 1
          BY <1>4, <4>2, <4>3
        <4> QED BY <4>3, <4>4
      <3>2. CASE l # l0
        <4>1. left'[l] = left[l]
          BY <1>1, <3>2
        <4> QED BY <2>2, <4>1 DEF Listing, Cursors
      <3> QED BY <3>1, <3>2
    <2> QED BY <2>1, <2>2
  <1>10. CASE SkipName
    <2>1. UNCHANGED <<readed, fis, layer>>
      BY <1>10 DEF SkipName
    <2>2. Read' /\ Once'
      BY <1>2, <2>1 DEF Listing, Read, Once, MayFollow
    <2>3. DiskOnce' /\ DiskFirst'
      BY <1>2, <1>8, <2>1 DEF Listing, DiskOnce, DiskFirst
    <2>4. Exhausted'
      BY <1>0, <1>1, <1>2, <2>1 DEF Listing, Exhausted
    <2>5. FromTop'
      <3>1. \A k \in DOMAIN given : given[k] \in Entry
        BY DEF TypeOK
      <3>2. \A k \in DOMAIN fis : fis[k] \in Entry
        BY DEF TypeOK
      <3> QED BY <1>2, <1>6, <2>1, <3>1, <3>2 DEF Listing, FromTop, Top, Entry
    <2> QED BY <1>9, <2>2, <2>3, <2>4, <2>5 DEF Listing
  <1>11. CASE TakeName
    <2> DEFINE e == [name |-> n, layer |-> l0]
    <2>1. /\ n \notin readed
          /\ fis' = Append(fis, e)
          /\ layer' = IF Full THEN l0 + 1 ELSE l0
      BY <1>0, <1>1, <1>11 DEF TakeName, IsNew, NextLayer
    <2>2. /\ fis \in Seq(Entry) /\ e \in Entry /\ Len(fis) \in Nat /\ count \in Int
          /\ DOMAIN fis = 1..Len(fis)
      <3>1. n \in Names
        BY <1>1
      <3> QED BY <1>1, <3>1 DEF TypeOK, Entry
    <2>3. /\ Len(fis') = Len(fis) + 1 /\ DOMAIN fis' = 1..(Len(fis) + 1)
          /\ \A k \in 1..Len(fis) : fis'[k] = fis[k]
          /\ fis'[Len(fis) + 1] = e
      BY <2>1, <2>2
    <2>4. Read'
      BY <1>2, <1>7, <2>2, <2>3 DEF Listing, Read
    <2>5. Once'
      <3>1. \A k \in DOMAIN given : given[k].name # n
        BY <2>1 DEF Listing, Read
      <3>2. \A k \in DOMAIN fis : fis[k].name # n
        BY <1>2, <2>1 DEF Listing, Read
      <3>3. \A j \in DOMAIN given, k \in DOMAIN fis' : MayFollow(given[j], fis'[k])
        BY <1>2, <2>2, <2>3, <3>1 DEF Listing, Once, MayFollow
      <3>4. \A j, k \in DOMAIN fis' : j < k => fis'[j].name # fis'[k].name
        BY <1>2, <2>2, <2>3, <3>2 DEF Listing, Once
      <3> QED BY <1>2, <3>3, <3>4 DEF Listing, Once, MayFollow
    <2>6. DiskOnce'
      BY <1>2, <1>8, <2>2, <2>3 DEF Listing, DiskOnce
    <2>7. DiskFirst'
      <3>1. left[Disk] # <<>> => Len(fis) >= count
        BY <1>2 DEF Listing, DiskFirst
      <3> QED BY <1>2, <1>8, <2>2, <2>3, <3>1 DEF Listing, DiskFirst
    <2>8. Exhausted'
      <3>1. Len(fis') < count' => layer' = layer /\ Len(fis) < count
        BY <1>0, <1>2, <2>1, <2>2, <2>3 DEF Full
      <3>2. layer' > Disk
        BY <1>0, <1>1, <1>2, <2>1, ExtrasAssumption DEF Listing, Exhausted
      <3> QED BY <1>0, <1>1, <1>2, <3>1, <3>2 DEF Listing, Exhausted
    <2>9. FromTop'
      <3>1. \A k \in DOMAIN given : given[k] \in Entry
        BY DEF TypeOK
      <3>2. \A k \in DOMAIN fis : fis[k] \in Entry
        BY DEF TypeOK
      <3>3. n \in NamesOf(l0)
        BY <1>1, <1>5 DEF Listing, Cursors
      <3>4. Len(fis) + 1 <= count => Top(e)
        <4> SUFFICES ASSUME Len(fis) + 1 <= count, NEW m \in Layers \ (late \cup failed), m < l0
                     PROVE  n \notin NamesOf(m)
          BY <3>3 DEF Top
        <4>1. left[m] = <<>>
          BY <1>0, <1>2, <2>2 DEF Listing, Exhausted
        <4>2. NamesOf(m) \subseteq readed
          BY <4>1 DEF Listing, Cursors, Ahead
        <4> QED BY <2>1, <4>2
      <3>5. \A k \in DOMAIN fis' : /\ fis'[k] \in Entry
                                   /\ fis'[k].name \in NamesOf(fis'[k].layer)
                                   /\ k <= count => Top(fis'[k])
        BY <1>2, <2>2, <2>3, <3>2, <3>3, <3>4 DEF Listing, FromTop
      <3> QED BY <1>2, <1>6, <3>1, <3>5 DEF Listing, FromTop, Top, Entry
    <2> QED BY <1>9, <2>4, <2>5, <2>6, <2>7, <2>8, <2>9 DEF Listing
  <1> QED BY <1>10, <1>11

\* The loop goes on to the next layer; the one it leaves has nothing ahead, or
\* the list is long enough.
LEMMA LayerListing ==
    ASSUME TypeOK, Listing, LayerDone \/ PassLayer
    PROVE  Listing'
  <1>1. /\ pc = "load" /\ pc' = "load" /\ layer' = layer + 1
        /\ UNCHANGED <<content, left, readed, count, fis, given, result, late, failed>>
    BY DEF LayerDone, PassLayer, Loading, NextLayer, caller
  <1>2. /\ \A l \in Layers : NamesOf(l)' = NamesOf(l)
        /\ Ahead(Disk)' = Ahead(Disk)
    BY <1>1 DEF NamesOf, Ahead
  <1>3. Cursors'
    <2>1. \A l \in Layers : Ahead(l)' = Ahead(l)
      BY <1>1 DEF Ahead
    <2> QED BY <1>1, <1>2, <2>1 DEF Listing, Cursors
  <1>4. Read' /\ Once' /\ DiskOnce' /\ DiskFirst'
    BY <1>1, <1>2 DEF Listing, Read, Once, MayFollow, DiskOnce, DiskFirst
  <1>5. Exhausted'
    <2>1. layer \in Layers => left[layer] = <<>> \/ Len(fis) >= count
      <3> SUFFICES ASSUME layer \in Layers, Len(fis) < count
                   PROVE  left[layer] = <<>>
        BY DEF TypeOK
      <3>1. CASE LayerDone
        BY <3>1 DEF LayerDone
      <3>2. CASE PassLayer
        <4>1. content[layer] \in {Missing, NotAdded}
          BY <3>2 DEF PassLayer, AsksBuiltIn
        <4>2. NamesOf(layer) = {}
          BY <4>1, DirectoriesAssumption DEF NamesOf
        <4>3. Ahead(layer) = {} /\ left[layer] \in Seq(Names)
          BY <4>2 DEF Listing, Cursors, TypeOK
        <4>4. left[layer] # <<>> => 1 \in DOMAIN left[layer]
          BY <4>3
        <4> QED BY <4>3, <4>4 DEF Ahead
      <3> QED BY <3>1, <3>2
    <2>2. Len(fis) < count => \A m \in Layers \ failed : m < layer + 1 => left[m] = <<>>
      <3> SUFFICES ASSUME Len(fis) < count, NEW m \in Layers \ failed, m < layer + 1
                   PROVE  left[m] = <<>>
        OBVIOUS
      <3>1. m < layer \/ m = layer
        BY ExtrasAssumption DEF TypeOK
      <3>2. Len(fis) \in Nat /\ count \in Int
        BY DEF TypeOK
      <3> QED BY <1>1, <2>1, <3>1, <3>2 DEF Listing, Exhausted
    <2>3. layer + 1 > Disk
      BY <1>1, ExtrasAssumption DEF TypeOK
    <2> QED BY <1>1, <2>2, <2>3 DEF Exhausted
  <1>6. FromTop'
    <2>1. \A k \in DOMAIN given : given[k] \in Entry
      BY DEF TypeOK
    <2>2. \A k \in DOMAIN fis : fis[k] \in Entry
      BY DEF TypeOK
    <2> QED BY <1>1, <1>2, <2>1, <2>2 DEF Listing, FromTop, Top, Entry
  <1> QED BY <1>3, <1>4, <1>5, <1>6 DEF Listing

\* A layer that cannot be read is left with some of its names ahead, or one less:
\* from now on it is among those that failed.
LEMMA FailListing ==
    ASSUME TypeOK, Listing, LayerFails
    PROVE  Listing'
  <1>1. PICK f \in Layers : f = layer
    BY ExtrasAssumption DEF LayerFails
  <1>2. /\ pc = "load" /\ pc' = "load" /\ layer' = f + 1
        /\ UNCHANGED <<content, readed, count, fis, given, result, late>>
        /\ f # Disk /\ failed' = failed \cup {f}
    BY <1>1, ExtrasAssumption DEF LayerFails, Loading, NextLayer, caller
  <1>3. /\ left[f] \in Seq(Names) /\ DOMAIN left[f] = 1..Len(left[f])
        /\ Len(left[f]) \in Nat
        /\ \A j, k \in DOMAIN left[f] : left[f][j] = left[f][k] => j = k
    BY DEF TypeOK, Listing, Cursors
  <1>4. /\ \A l \in Layers \ {f} : left'[l] = left[l]
        /\ \/ left'[f] = left[f]
           \/ left[f] # <<>> /\ left'[f] = Tail(left[f])
    BY <1>1 DEF LayerFails, TypeOK
  <1>5. /\ \A k \in DOMAIN left'[f] : left'[f][k] \in Ahead(f)
        /\ \A j, k \in DOMAIN left'[f] : left'[f][j] = left'[f][k] => j = k
    <2>1. CASE left'[f] = left[f]
      BY <1>3, <2>1 DEF Ahead
    <2>2. CASE left[f] # <<>> /\ left'[f] = Tail(left[f])
      <3>1. /\ Tail(left[f]) \in Seq(Names)
            /\ Len(Tail(left[f])) = Len(left[f]) - 1
            /\ \A k \in 1..(Len(left[f]) - 1) : Tail(left[f])[k] = left[f][k + 1]
        BY <1>3, <2>2, TailOf
      <3>2. DOMAIN left'[f] = 1..(Len(left[f]) - 1)
        BY <2>2, <3>1
      <3>3. \A k \in DOMAIN left'[f] :
                k + 1 \in DOMAIN left[f] /\ left'[f][k] = left[f][k + 1]
        BY <1>3, <2>2, <3>1, <3>2
      <3>4. ASSUME NEW k \in DOMAIN left'[f] PROVE left'[f][k] \in Ahead(f)
        BY <3>3 DEF Ahead
      <3>5. ASSUME NEW j \in DOMAIN left'[f], NEW k \in DOMAIN left'[f],
                   left'[f][j] = left'[f][k]
            PROVE  j = k
        <4>1. j \in Int /\ k \in Int
          BY <3>2
        <4>2. /\ j + 1 \in DOMAIN left[f] /\ k + 1 \in DOMAIN left[f]
              /\ left[f][j + 1] = left[f][k + 1]
          BY <3>3, <3>5
        <4>3. j + 1 = k + 1
          BY <1>3, <4>2
        <4> QED BY <4>1, <4>3
      <3> QED BY <3>4, <3>5
    <2> QED BY <1>4, <2>1, <2>2
  <1>6. /\ \A l \in Layers : NamesOf(l)' = NamesOf(l)
        /\ \A l \in Layers \ {f} : Ahead(l)' = Ahead(l)
        /\ Ahead(f)' \subseteq Ahead(f)
        /\ Ahead(Disk)' = Ahead(Disk) /\ left'[Disk] = left[Disk]
    BY <1>2, <1>4, <1>5, ExtrasAssumption DEF NamesOf, Ahead
  <1>7. Cursors'
    <2> SUFFICES ASSUME NEW l \in Layers
        PROVE  /\ Ahead(l)' \subseteq NamesOf(l)'
               /\ \A j, k \in DOMAIN left'[l] : left'[l][j] = left'[l][k] => j = k
               /\ l \notin failed' => NamesOf(l)' \subseteq Ahead(l)' \cup readed'
      BY DEF Cursors
    <2>1. CASE l = f
      BY <1>2, <1>5, <1>6, <2>1 DEF Listing, Cursors
    <2>2. CASE l # f
      BY <1>2, <1>4, <1>6, <2>2 DEF Listing, Cursors
    <2> QED BY <2>1, <2>2
  <1>8. Read' /\ Once' /\ DiskOnce' /\ DiskFirst'
    BY <1>2, <1>6 DEF Listing, Read, Once, MayFollow, DiskOnce, DiskFirst
  <1>9. Exhausted'
    <2>1. f + 1 > Disk
      BY <1>2, ExtrasAssumption
    <2>2. Len(fis) < count => \A m \in Layers \ failed' : m < f + 1 => left'[m] = <<>>
      <3> SUFFICES ASSUME Len(fis) < count, NEW m \in Layers \ failed', m < f + 1
                   PROVE  left'[m] = <<>>
        OBVIOUS
      <3>1. m # f /\ m \notin failed /\ m < f
        BY <1>2, ExtrasAssumption
      <3>2. left[m] = <<>>
        BY <1>1, <1>2, <3>1 DEF Listing, Exhausted
      <3> QED BY <1>4, <3>1, <3>2
    <2> QED BY <1>2, <2>1, <2>2 DEF Exhausted
  <1>10. FromTop'
    <2>1. \A k \in DOMAIN given : given[k] \in Entry
      BY DEF TypeOK
    <2>2. \A k \in DOMAIN fis : fis[k] \in Entry
      BY DEF TypeOK
    <2> QED BY <1>2, <1>6, <2>1, <2>2 DEF Listing, FromTop, Top, Entry
  <1> QED BY <1>7, <1>8, <1>9, <1>10 DEF Listing

\* The caller gets the entries that come first, at most count of them.
LEMMA ReturnListing ==
    ASSUME TypeOK, Listing, ReturnNames
    PROVE  Listing'
  <1>1. /\ pc = "load" /\ pc' = "idle" /\ result' = "names"
        /\ UNCHANGED <<content, left, readed, late, failed>>
    BY DEF ReturnNames
  <1>2. /\ Returned \in 0..Len(fis) /\ Returned <= count
        /\ given' \in Seq(Entry)
        /\ Len(given') = Len(given) + Returned
        /\ \A k \in 1..Len(given) : given'[k] = given[k]
        /\ \A k \in 1..Returned : given'[Len(given) + k] = fis[k]
    BY ReturnEffect
  <1>3. /\ DOMAIN given = 1..Len(given) /\ Len(given) \in Nat
        /\ DOMAIN fis = 1..Len(fis) /\ Len(fis) \in Nat /\ count \in Int
        /\ DOMAIN given' = 1..(Len(given) + Returned)
    BY <1>2 DEF TypeOK
  <1> HIDE DEF Returned
  \* An entry given by now was given before, or is one of the call's first.
  <1>4. \A k \in DOMAIN given' :
            \/ k \in DOMAIN given /\ given'[k] = given[k]
            \/ /\ k - Len(given) \in DOMAIN fis /\ k - Len(given) <= count
               /\ k > Len(given)
               /\ given'[k] = fis[k - Len(given)]
    <2> SUFFICES ASSUME NEW k \in DOMAIN given', k \notin DOMAIN given
        PROVE  /\ k - Len(given) \in DOMAIN fis /\ k - Len(given) <= count
               /\ k > Len(given)
               /\ given'[k] = fis[k - Len(given)]
      BY <1>2, <1>3
    <2>1. k - Len(given) \in 1..Returned /\ Len(given) + (k - Len(given)) = k
      BY <1>2, <1>3
    <2>2. given'[k] = fis[k - Len(given)]
      BY <1>2, <2>1
    <2> QED BY <1>2, <1>3, <2>1, <2>2
  <1>5. /\ \A l \in Layers : NamesOf(l)' = NamesOf(l)
        /\ \A l \in Layers : Ahead(l)' = Ahead(l)
        /\ Ahead(Disk)' = Ahead(Disk)
    BY <1>1 DEF NamesOf, Ahead
  <1>6. Cursors'
    BY <1>1, <1>5 DEF Listing, Cursors
  <1>7. Read'
    BY <1>1, <1>4 DEF Listing, Read
  <1>8. Once'
    <2> SUFFICES ASSUME NEW j \in DOMAIN given', NEW k \in DOMAIN given', j < k
                 PROVE  MayFollow(given'[j], given'[k])
      BY <1>1 DEF Once, MayFollow
    <2>1. CASE k \in DOMAIN given
      <3>1. j \in DOMAIN given /\ given'[j] = given[j] /\ given'[k] = given[k]
        BY <1>2, <1>3, <2>1
      <3> QED BY <2>1, <3>1 DEF Listing, Once
    <2>2. CASE k \notin DOMAIN given /\ j \in DOMAIN given
      <3>1. given'[j] = given[j]
        BY <1>2, <1>3, <2>2
      <3>2. k - Len(given) \in DOMAIN fis /\ given'[k] = fis[k - Len(given)]
        BY <1>4, <2>2
      <3> QED BY <1>1, <2>2, <3>1, <3>2 DEF Listing, Once
    <2>3. CASE j \notin DOMAIN given
      <3>1. k \notin DOMAIN given
        BY <1>3, <2>3
      <3>2. /\ j - Len(given) \in DOMAIN fis /\ given'[j] = fis[j - Len(given)]
            /\ k - Len(given) \in DOMAIN fis /\ given'[k] = fis[k - Len(given)]
        BY <1>4, <2>3, <3>1
      <3>3. j - Len(given) < k - Len(given)
        BY <1>2, <1>3
      <3> QED BY <1>1, <3>2, <3>3 DEF Listing, Once, MayFollow
    <2> QED BY <2>1, <2>2, <2>3
  <1>9. DiskOnce'
    BY <1>1, <1>4, <1>5 DEF Listing, DiskOnce
  <1>10. DiskFirst'
    BY <1>1, <1>4 DEF Listing, DiskFirst
  <1>11. FromTop'
    <2> SUFFICES ASSUME NEW k \in DOMAIN given' PROVE Top(given[k])'
      BY <1>1 DEF FromTop
    <2>1. Top(given'[k])
      BY <1>1, <1>4 DEF Listing, FromTop
    <2>2. given'[k].layer \in Layers
      <3>1. given'[k] \in Entry
        BY <1>2
      <3> QED BY <3>1 DEF Entry
    <2> QED BY <1>1, <1>5, <2>1, <2>2 DEF Top
  <1> QED BY <1>1, <1>6, <1>7, <1>8, <1>9, <1>10, <1>11 DEF Listing, Exhausted

\* A call that ends the listing gives nothing.
LEMMA EndListing ==
    ASSUME TypeOK, Listing, ReturnEnd \/ CallFails
    PROVE  Listing'
  <1>1. /\ pc' = "end" /\ result' # "none"
        /\ UNCHANGED <<content, left, readed, given, late>>
        /\ failed \subseteq failed'
    BY DEF ReturnEnd, CallFails
  <1>2. /\ \A l \in Layers : NamesOf(l)' = NamesOf(l)
        /\ \A l \in Layers : Ahead(l)' = Ahead(l)
        /\ Ahead(Disk)' = Ahead(Disk)
    BY <1>1 DEF NamesOf, Ahead
  <1>3. Cursors'
    BY <1>1, <1>2 DEF Listing, Cursors
  <1>4. Read' /\ Once' /\ DiskOnce' /\ DiskFirst' /\ Exhausted'
    BY <1>1, <1>2 DEF Listing, Read, Once, MayFollow, DiskOnce, DiskFirst, Exhausted
  <1>5. FromTop'
    <2>1. \A k \in DOMAIN given : given[k] \in Entry
      BY DEF TypeOK
    <2> QED BY <1>1, <1>2, <2>1 DEF Listing, FromTop, Top, Entry
  <1> QED BY <1>3, <1>4, <1>5 DEF Listing

LEMMA StepListing == TypeOK /\ Listing /\ [Next]_vars => Listing'
  <1> SUFFICES ASSUME TypeOK, Listing, [Next]_vars PROVE Listing'
    OBVIOUS
  <1>1. CASE MakeDirectory \/ AddAssets
    BY <1>1, AppearCases, AppearListing
  <1>2. CASE \E c \in Counts : Call(c)
    BY <1>2, CallListing
  <1>3. CASE SkipName \/ TakeName
    BY <1>3, NameListing
  <1>4. CASE LayerDone \/ LayerFails \/ PassLayer
    BY <1>4, LayerListing, FailListing
  <1>5. CASE ReturnNames
    BY <1>5, ReturnListing
  <1>6. CASE ReturnEnd \/ CallFails
    BY <1>6, EndListing
  <1>7. CASE UNCHANGED vars
    <2>1. UNCHANGED <<content, left, readed, pc, count, fis, layer, given,
                      result, late, failed>>
      BY <1>7 DEF vars, call, caller
    <2>2. /\ \A l \in Layers : NamesOf(l)' = NamesOf(l) /\ Ahead(l)' = Ahead(l)
          /\ Ahead(Disk)' = Ahead(Disk)
      BY <2>1 DEF NamesOf, Ahead
    <2>3. Cursors'
      BY <2>1, <2>2 DEF Listing, Cursors
    <2>4. Read' /\ Once' /\ DiskOnce' /\ DiskFirst' /\ Exhausted'
      BY <2>1, <2>2
         DEF Listing, Read, Once, MayFollow, DiskOnce, DiskFirst, Exhausted
    <2>5. FromTop'
      <3>1. \A k \in DOMAIN given : given[k] \in Entry
        BY DEF TypeOK
      <3>2. \A k \in DOMAIN fis : fis[k] \in Entry
        BY DEF TypeOK
      <3> QED BY <2>1, <2>2, <3>1, <3>2 DEF Listing, FromTop, Top, Entry
    <2> QED BY <2>3, <2>4, <2>5 DEF Listing
  <1> QED BY <1>1, <1>2, <1>3, <1>4, <1>5, <1>6, <1>7 DEF Next, Readdir

THEOREM ListingHolds == Spec => [](TypeOK /\ Listing)
  <1>1. Init => TypeOK /\ Listing
    BY InitType, InitListing
  <1>2. TypeOK /\ Listing /\ [Next]_vars => (TypeOK /\ Listing)'
    BY StepType, StepListing
  <1> QED BY <1>1, <1>2, PTL DEF Spec

-----------------------------------------------------------------------------
(* The theorems. *)

\* Among the layers that have a name there is a first one.
LEMMA LowestLayer ==
    ASSUME NEW n, NEW l0 \in Layers, n \in NamesOf(l0)
    PROVE  \E l \in Layers : /\ n \in NamesOf(l)
                             /\ \A m \in Disk..(l - 1) : n \notin NamesOf(m)
  <1> DEFINE has == {l \in Layers : n \in NamesOf(l)}
  <1>1. has \subseteq Nat /\ has # {}
    BY ExtrasAssumption
  <1>2. PICK l \in has : \A m \in has : l <= m
    <2>1. PICK l \in has : \A m \in has : ~(<<m, l>> \in OpToRel(<, Nat))
      BY <1>1, NatLessThanWellFounded, WFMin
    <2>2. \A m \in has : ~(m < l)
      BY <1>1, <2>1 DEF OpToRel
    <2> QED BY <1>1, <2>2
  <1>3. ASSUME NEW m \in Disk..(l - 1) PROVE n \notin NamesOf(m)
    BY <1>2, <1>3, ExtrasAssumption
  <1> QED BY <1>2, <1>3

\* Every name is listed once, for any layers and counts; only a directory made
\* on disk during the listing gives names again.
THEOREM ListsOnce == Spec => []ListedOnce
  <1>1. Listing => ListedOnce
    BY DEF Listing, Once, MayFollow, ListedOnce
  <1> QED BY <1>1, ListingHolds, PTL

\* Every entry given to a caller is the file that Open takes for its name, unless
\* that one's layer came late or could not be read.
THEOREM ListsAsOpened == Spec => []ListedAsOpened
  <1>1. TypeOK /\ Listing => ListedAsOpened
    <2> SUFFICES ASSUME TypeOK, Listing, NEW k \in DOMAIN given
        PROVE  \/ given[k].layer = OpenFrom(given[k].name)
               \/ OpenFrom(given[k].name) \in late \cup failed
      BY DEF ListedAsOpened
    <2> DEFINE e == given[k]
    <2>1. e \in Entry /\ Top(e)
      BY DEF TypeOK, Listing, FromTop
    <2>2. e.layer \in Layers /\ e.name \in NamesOf(e.layer)
      BY <2>1 DEF Entry, Top
    <2>3. \E l \in Layers : /\ e.name \in NamesOf(l)
                            /\ \A m \in Disk..(l - 1) : e.name \notin NamesOf(m)
      BY <2>2, LowestLayer
    <2>4. PICK l \in Layers : /\ l = OpenFrom(e.name)
                              /\ e.name \in NamesOf(l)
                              /\ \A m \in Disk..(l - 1) : e.name \notin NamesOf(m)
      BY <2>3 DEF OpenFrom
    <2>5. CASE l < e.layer
      BY <2>1, <2>4, <2>5 DEF Top
    <2>6. CASE l > e.layer
      BY <2>2, <2>4, <2>6, ExtrasAssumption
    <2>7. CASE l = e.layer
      BY <2>4, <2>7
    <2> QED BY <2>2, <2>4, <2>5, <2>6, <2>7, ExtrasAssumption
  <1> QED BY <1>1, ListingHolds, PTL

-----------------------------------------------------------------------------
(***************************************************************************)
(* Completeness: a listing of the asset overlay is complete when its       *)
(* callers ask for a positive number of names, as the web server does.     *)
(***************************************************************************)

Positive == \A c \in Counts : c > 0

\* Every name that was looked at is with the caller, cut off, or in the list of
\* the running call.
Kept ==
    \A n \in readed :
        \/ \E k \in DOMAIN given : given[k].name = n
        \/ \E e \in cut : e.name = n
        \/ pc = "load" /\ \E k \in DOMAIN fis : fis[k].name = n

\* A listing that is over has looked at everything there was to read, and nothing
\* comes after it.
Over ==
    /\ result \in {"EOF", "error"} => pc = "end"
    /\ result = "EOF" => \A l \in Layers \ failed : NamesOf(l) \subseteq readed

\* What a call has found comes from the layers up to its own, and from its own
\* only while there is room.
Place ==
    pc = "load" =>
        /\ count > 0
        /\ \A k \in DOMAIN fis :
               /\ fis[k].layer <= layer
               /\ fis[k].layer = layer => Len(fis) < count

\* With one layer above the built-in files, a call finds no more than it may
\* return; only an error drops what it found.
OneTop == \A l, m \in Disk..MaxExtras : HasSome(l) /\ HasSome(m) => l = m
Room ==
    OneTop => /\ cut = {} \/ result = "error"
              /\ pc = "load" => Len(fis) <= count

Complete == Kept /\ Over /\ Place /\ Room

LEMMA InitComplete == Init => Complete
  BY ExtrasAssumption DEF Init, Complete, Kept, Over, Place, Room

LEMMA AppearComplete ==
    ASSUME Complete, TypeOK, NEW l \in Disk..MaxExtras, NEW c \in Content,
           Appear(l, c), content[l] \in {Missing, NotAdded}
    PROVE  Complete'
  <1>1. /\ pc = "idle" /\ UNCHANGED <<pc, readed, given, cut, result, fis>>
        /\ content'[l] = c
        /\ \A m \in Layers \ {l} : content'[m] = content[m]
        /\ l \in Layers /\ BuiltIn \in Layers \ {l}
    BY ExtrasAssumption DEF Appear, TypeOK, caller, call
  <1>2. Kept' /\ Over'
    BY <1>1 DEF Complete, Kept, Over
  <1>3. Place'
    BY <1>1 DEF Complete, Place
  <1>4. OneTop' => OneTop
    <2>1. ~HasSome(l)
      BY DEF HasSome
    <2>2. \A m \in Disk..MaxExtras : HasSome(m) => m # l /\ HasSome(m)'
      BY <1>1, <2>1, ExtrasAssumption DEF HasSome
    <2> QED BY <2>2 DEF OneTop
  <1>5. Room'
    BY <1>1, <1>4 DEF Complete, Room
  <1> QED BY <1>2, <1>3, <1>5 DEF Complete

LEMMA CallComplete ==
    ASSUME Positive, Complete, TypeOK, NEW c \in Counts, Call(c)
    PROVE  Complete'
  <1> DEFINE n == FromDisk(c)
  <1>1. /\ left[Disk] \in Seq(Names) /\ n \in 0..Len(left[Disk])
        /\ fis' \in Seq(Entry) /\ Len(fis') = n
        /\ \A k \in 1..n : fis'[k] = [name |-> left[Disk][k], layer |-> Disk]
        /\ readed' = readed \cup {left[Disk][k] : k \in 1..n}
    BY CallEffect
  <1>2. /\ pc = "idle" /\ pc' = "load" /\ count' = c /\ layer' = 1 /\ err' = "nil"
        /\ UNCHANGED <<content, given, result, cut, late, failed>>
    BY DEF Call, FirstExtra, caller
  <1>3. c > 0 /\ c \in Int /\ n <= c
    BY <1>1, CountsAssumption DEF Positive, FromDisk
  <1> HIDE DEF n
  <1>4. DOMAIN fis' = 1..n
    BY <1>1
  <1>5. Kept'
    <2> SUFFICES ASSUME NEW x \in readed'
        PROVE  \/ \E k \in DOMAIN given : given[k].name = x
               \/ \E e \in cut : e.name = x
               \/ \E k \in DOMAIN fis' : fis'[k].name = x
      BY <1>2 DEF Kept
    <2>1. CASE x \in readed
      BY <1>2, <2>1 DEF Complete, Kept
    <2>2. CASE x \in {left[Disk][k] : k \in 1..n}
      BY <1>1, <1>4, <2>2
    <2> QED BY <1>1, <2>1, <2>2
  <1>6. Over'
    <2>1. result \notin {"EOF", "error"} /\ result' = result
      BY <1>2 DEF Complete, Over
    <2>2. result' \notin {"EOF", "error"}
      BY <2>1
    <2> QED BY <2>2 DEF Over
  <1>7. Place'
    BY <1>1, <1>2, <1>3, <1>4 DEF Complete, Place
  <1>8. OneTop' = OneTop
    BY <1>2 DEF OneTop, HasSome
  <1>9. Room'
    BY <1>1, <1>2, <1>3, <1>8 DEF Complete, Room
  <1> QED BY <1>5, <1>6, <1>7, <1>9 DEF Complete

LEMMA NameComplete ==
    ASSUME Complete, TypeOK, Listing, SkipName \/ TakeName
    PROVE  Complete'
  <1>1. /\ layer \in Layers /\ 1 \in DOMAIN left[layer]
        /\ Head(left[layer]) = left[layer][1]
        /\ Head(left[layer]) \in Names
    BY NameEffect
  <1>2. /\ pc = "load" /\ pc' = "load"
        /\ layer = BuiltIn => AsksBuiltIn
        /\ UNCHANGED <<content, count, given, result, cut>>
    BY DEF SkipName, TakeName, Loading, caller
  <1>3. result \notin {"EOF", "error"}
    BY <1>2 DEF Complete, Over
  <1>4. OneTop' = OneTop
    BY <1>2 DEF OneTop, HasSome
  <1>5. CASE SkipName
    <2>1. UNCHANGED <<readed, fis, err, layer>>
      BY <1>5 DEF SkipName
    <2> QED BY <1>2, <1>3, <1>4, <2>1
            DEF Complete, Kept, Over, Place, Room
  <1>6. CASE TakeName
    <2> DEFINE e == [name |-> left[layer][1], layer |-> layer]
    <2>1. /\ readed' = readed \cup {left[layer][1]}
          /\ fis' = Append(fis, e)
          /\ err' = "nil"
          /\ layer' = IF Full THEN layer + 1 ELSE layer
      BY <1>1, <1>6 DEF TakeName, NextLayer
    <2>2. /\ fis \in Seq(Entry) /\ e \in Entry /\ Len(fis) \in Nat /\ count \in Int
          /\ DOMAIN fis = 1..Len(fis)
      BY <1>1 DEF TypeOK, Entry
    <2>3. /\ Len(fis') = Len(fis) + 1 /\ DOMAIN fis' = 1..(Len(fis) + 1)
          /\ \A k \in 1..Len(fis) : fis'[k] = fis[k]
          /\ fis'[Len(fis) + 1] = e
      BY <2>1, <2>2
    <2>4. Kept'
      BY <1>2, <2>1, <2>2, <2>3 DEF Complete, Kept
    <2>5. Over'
      BY <1>2, <1>3 DEF Over
    <2>6. layer \in Nat /\ \A k \in DOMAIN fis : fis[k].layer \in Nat
      <3>1. \A k \in DOMAIN fis : fis[k] \in Entry
        BY <2>2
      <3> QED BY <1>1, <3>1, ExtrasAssumption DEF Entry
    <2>7. Place'
      <3>1. \A k \in DOMAIN fis' : fis'[k].layer <= layer /\ fis'[k].layer \in Nat
        BY <1>2, <2>2, <2>3, <2>6 DEF Complete, Place
      <3>2. CASE Full
        BY <1>2, <2>1, <2>6, <3>1, <3>2 DEF Complete, Place
      <3>3. CASE ~Full
        BY <1>2, <2>1, <2>2, <2>3, <3>1, <3>3 DEF Complete, Place, Full
      <3> QED BY <3>2, <3>3
    <2>8. OneTop => Len(fis) < count
      <3> SUFFICES ASSUME OneTop, ~(Len(fis) < count) PROVE FALSE
        OBVIOUS
      <3>1. layer \in Disk..MaxExtras
        BY <1>1, <1>2, ExtrasAssumption DEF AsksBuiltIn
      <3>2. 1 \in DOMAIN fis /\ count > 0
        BY <1>2, <2>2 DEF Complete, Place
      <3>3. fis[1].layer < layer /\ fis[1].layer \in Disk..MaxExtras
        BY <1>2, <2>6, <3>1, <3>2, ExtrasAssumption DEF Complete, Place
      <3>4. fis[1].name \in NamesOf(fis[1].layer)
        BY <1>2, <3>2 DEF Listing, FromTop
      <3>5. left[layer][1] \in NamesOf(layer)
        BY <1>1 DEF Listing, Cursors, Ahead
      <3>6. HasSome(layer) /\ HasSome(fis[1].layer)
        BY <3>4, <3>5, DirectoriesAssumption DEF NamesOf, HasSome
      <3> QED BY <3>1, <3>3, <3>6 DEF OneTop
    <2>9. Room'
      BY <1>2, <1>4, <2>1, <2>2, <2>3, <2>8 DEF Complete, Room
    <2> QED BY <2>4, <2>5, <2>7, <2>9 DEF Complete
  <1> QED BY <1>5, <1>6

LEMMA LayerComplete ==
    ASSUME Complete, TypeOK, Listing, LayerDone \/ LayerFails \/ PassLayer
    PROVE  Complete'
  <1>1. /\ pc = "load" /\ pc' = "load" /\ layer' = layer + 1
        /\ UNCHANGED <<content, readed, count, fis, given, result, cut>>
    BY DEF LayerDone, LayerFails, PassLayer, Loading, NextLayer, caller
  <1>2. result \notin {"EOF", "error"} /\ OneTop' = OneTop
    BY <1>1 DEF Complete, Over, OneTop, HasSome
  <1>3. Kept' /\ Over'
    BY <1>1, <1>2 DEF Complete, Kept, Over
  <1>4. layer \in Nat /\ \A k \in DOMAIN fis : fis[k].layer \in Nat
    <2>1. \A k \in DOMAIN fis : fis[k] \in Entry
      BY DEF TypeOK
    <2> QED BY <2>1, ExtrasAssumption DEF TypeOK, Entry
  <1>5. Place'
    BY <1>1, <1>4 DEF Complete, Place
  <1> QED BY <1>1, <1>2, <1>3, <1>5 DEF Complete, Room

LEMMA ReturnComplete ==
    ASSUME Complete, TypeOK, Listing, ReturnNames \/ ReturnEnd \/ CallFails
    PROVE  Complete'
  <1>1. /\ UNCHANGED <<content, readed, count, fis>> /\ OneTop' = OneTop
        /\ pc' # "load" /\ failed \subseteq failed'
    BY DEF ReturnNames, ReturnEnd, CallFails, call, OneTop, HasSome
  <1>2. Place'
    BY <1>1 DEF Complete, Place
  <1>3. fis \in Seq(Entry) /\ Len(fis) \in Nat /\ DOMAIN fis = 1..Len(fis)
        /\ count \in Int /\ DOMAIN given = 1..Len(given)
    BY DEF TypeOK
  <1>4. CASE ReturnNames
    <2>1. /\ Returned \in 0..Len(fis)
          /\ given' \in Seq(Entry)
          /\ Len(given') = Len(given) + Returned
          /\ \A k \in 1..Len(given) : given'[k] = given[k]
          /\ \A k \in 1..Returned : given'[Len(given) + k] = fis[k]
      BY <1>4, ReturnEffect
    <2>2. cut' = cut \cup {fis[k] : k \in (Returned + 1)..Len(fis)}
      BY <1>4 DEF ReturnNames, Returned
    <2>3. Returned = IF Len(fis) > count THEN count ELSE Len(fis)
      BY DEF Returned
    <2> HIDE DEF Returned
    <2>4. Len(given) \in Nat /\ DOMAIN given' = 1..(Len(given) + Returned)
      BY <2>1 DEF TypeOK
    <2>5. ASSUME NEW k \in DOMAIN fis
          PROVE  \/ \E j \in DOMAIN given' : given'[j].name = fis[k].name
                 \/ \E e \in cut' : e.name = fis[k].name
      <3>1. CASE k <= Returned
        <4>1. Len(given) + k \in DOMAIN given' /\ given'[Len(given) + k] = fis[k]
          BY <1>3, <2>1, <2>4, <3>1
        <4> QED BY <4>1
      <3>2. CASE ~(k <= Returned)
        <4>1. k \in (Returned + 1)..Len(fis)
          BY <1>3, <2>1, <3>2
        <4> QED BY <2>2, <4>1
      <3> QED BY <3>1, <3>2
    <2>6. \A k \in DOMAIN given : k \in DOMAIN given' /\ given'[k] = given[k]
      BY <1>3, <2>1, <2>4
    <2>7. Kept'
      <3> SUFFICES ASSUME NEW n \in readed
          PROVE  \/ \E k \in DOMAIN given' : given'[k].name = n
                 \/ \E e \in cut' : e.name = n
        BY <1>1 DEF Kept
      <3>1. CASE \E k \in DOMAIN given : given[k].name = n
        BY <2>6, <3>1
      <3>2. CASE \E e \in cut : e.name = n
        BY <2>2, <3>2
      <3>3. CASE \E k \in DOMAIN fis : fis[k].name = n
        BY <2>5, <3>3
      <3> QED BY <3>1, <3>2, <3>3 DEF Complete, Kept
    <2>8. Over'
      BY <1>4 DEF ReturnNames, Over
    <2>9. Room'
      <3>1. OneTop => Returned = Len(fis)
        <4> SUFFICES ASSUME OneTop PROVE Returned = Len(fis)
          OBVIOUS
        <4>1. Len(fis) <= count
          BY <1>4 DEF Complete, Room, ReturnNames
        <4>2. ~(Len(fis) > count)
          BY <1>3, <4>1
        <4> QED BY <2>3, <4>2
      <3>2. OneTop => cut' = cut /\ cut = {}
        BY <1>3, <1>4, <2>2, <3>1 DEF Complete, Room, Over, ReturnNames
      <3> QED BY <1>1, <3>2 DEF Complete, Room
    <2> QED BY <1>2, <2>7, <2>8, <2>9 DEF Complete
  <1>5. CASE ReturnEnd
    <2>1. /\ pc = "load" /\ layer > BuiltIn /\ given' = given /\ pc' = "end"
          /\ cut' = cut \cup {fis[k] : k \in DOMAIN fis}
          /\ result' = "EOF" => fis = <<>>
          /\ OneTop => fis = <<>> \/ result' = "error"
      BY <1>3, <1>5 DEF ReturnEnd, NothingFound, Complete, Room, Place
    <2>2. Kept'
      BY <1>1, <2>1 DEF Complete, Kept
    <2>3. Over'
      <3> SUFFICES ASSUME result' = "EOF", NEW l \in Layers \ failed
                   PROVE  NamesOf(l) \subseteq readed
        BY <1>1, <2>1 DEF Over, NamesOf
      <3>1. Len(fis) < count
        BY <2>1 DEF Complete, Place
      <3>2. l < layer
        BY <2>1, ExtrasAssumption DEF TypeOK
      <3>3. left[l] = <<>>
        BY <2>1, <3>1, <3>2 DEF Listing, Exhausted
      <3> QED BY <3>3 DEF Listing, Cursors, Ahead
    <2>4. Room'
      <3>1. OneTop => cut = {}
        BY <2>1 DEF Complete, Room, Over
      <3>2. fis = <<>> => cut' = cut
        BY <2>1
      <3> QED BY <1>1, <2>1, <3>1, <3>2 DEF Complete, Room
    <2> QED BY <1>2, <2>2, <2>3, <2>4 DEF Complete
  <1>6. CASE CallFails
    <2>1. pc = "idle" /\ pc' = "end" /\ result' = "error" /\ UNCHANGED <<given, cut>>
      BY <1>6 DEF CallFails
    <2>2. Kept'
      BY <1>1, <2>1 DEF Complete, Kept
    <2>3. Over' /\ Room'
      BY <2>1 DEF Over, Room
    <2> QED BY <1>2, <2>2, <2>3 DEF Complete
  <1> QED BY <1>4, <1>5, <1>6

LEMMA StepComplete ==
    ASSUME Positive
    PROVE  TypeOK /\ Listing /\ Complete /\ [Next]_vars => Complete'
  <1> SUFFICES ASSUME TypeOK, Listing, Complete, [Next]_vars PROVE Complete'
    OBVIOUS
  <1>1. CASE MakeDirectory \/ AddAssets
    BY <1>1, AppearCases, AppearComplete
  <1>2. CASE \E c \in Counts : Call(c)
    BY <1>2, CallComplete
  <1>3. CASE SkipName \/ TakeName
    BY <1>3, NameComplete
  <1>4. CASE LayerDone \/ LayerFails \/ PassLayer
    BY <1>4, LayerComplete
  <1>5. CASE ReturnNames \/ ReturnEnd \/ CallFails
    BY <1>5, ReturnComplete
  <1>6. CASE UNCHANGED vars
    <2>1. UNCHANGED <<content, left, readed, pc, count, fis, err, layer, given,
                      result, cut, failed>>
      BY <1>6 DEF vars, call, caller
    <2>2. OneTop' = OneTop /\ \A l \in Layers : NamesOf(l)' = NamesOf(l)
      BY <2>1 DEF OneTop, HasSome, NamesOf
    <2> QED BY <2>1, <2>2 DEF Complete, Kept, Over, Place, Room
  <1> QED BY <1>1, <1>2, <1>3, <1>4, <1>5, <1>6 DEF Next, Readdir

LEMMA CompleteHolds ==
    ASSUME Positive
    PROVE  Spec => []Complete
  <1>1. Init => Complete
    BY InitComplete
  <1>2. TypeOK /\ Listing /\ Complete /\ [Next]_vars => Complete'
    BY StepComplete
  <1> QED BY <1>1, <1>2, ListingHolds, PTL DEF Spec

\* With positive counts, a listing that says it is at its end has given every
\* name of every layer that could be read, or looked at it without room for it;
\* an error of a layer, which nobody need have been told of, costs the names of
\* that layer and no others.
THEOREM ListsAll ==
    ASSUME Positive
    PROVE  Spec => []AllListed
  <1>1. Complete => AllListed
    BY DEF Complete, Over, Kept, AllListed, NamesIn
  <1> QED BY <1>1, CompleteHolds, PTL

\* With positive counts, nothing is cut off while only one layer above the
\* built-in files has something in the directory, unless the listing ends in an
\* error, which drops what the call had found.
THEOREM CutsNothing ==
    ASSUME Positive
    PROVE  Spec => []NothingCut
  <1>1. Complete => NothingCut
    BY DEF Complete, Room, OneTop, NothingCut
  <1> QED BY <1>1, CompleteHolds, PTL
-----------------------------------------------------------------------------
(* Refinement: the overlay is one directory.  A call answers where it returns;   *)
(* all before that, and the layers a call has been through, is invisible.        *)

Asked == pc = "load" => count \in Counts

\* An error of a layer is noted.
Noted == err = "error" => failed # {}

\* What the abstract directory is made of.
Merged == [l \in Layers |-> NamesOf(l)]
Missed == {e.name : e \in cut}
Ending == IF pc = "end" THEN result ELSE "none"

\* The completeness that positive counts bring, as a state predicate.
CompleteIf == Positive => Complete

DirectoryInv == TypeOK /\ Listing /\ Asked /\ Noted /\ CompleteIf

LEMMA DirectoryHolds == Spec => []DirectoryInv
  <1>1. Init => Asked
    BY DEF Init, Asked
  <1>2. Asked /\ [Next]_vars => Asked'
    <2>1. ASSUME Asked, MakeDirectory \/ AddAssets PROVE Asked'
      BY <2>1 DEF MakeDirectory, AddAssets, Appear, Asked
    <2>2. ASSUME Asked, NEW c \in Counts, Call(c) PROVE Asked'
      BY <2>2 DEF Call, Asked
    <2>3. ASSUME Asked, \/ CallFails \/ SkipName \/ TakeName \/ LayerDone \/ LayerFails
                        \/ PassLayer \/ ReturnNames \/ ReturnEnd
          PROVE  Asked'
      BY <2>3 DEF CallFails, SkipName, TakeName, LayerDone, LayerFails, Loading, PassLayer,
                  ReturnNames, ReturnEnd, Asked, call
    <2>4. ASSUME Asked, UNCHANGED vars PROVE Asked'
      BY <2>4 DEF vars, call, Asked
    <2> QED BY <2>1, <2>2, <2>3, <2>4 DEF Next, Readdir
  <1>3. Init => Noted
    BY DEF Init, Noted
  <1>4. Noted /\ [Next]_vars => Noted'
    <2>1. ASSUME Noted, MakeDirectory \/ AddAssets PROVE Noted'
      BY <2>1 DEF MakeDirectory, AddAssets, Appear, Noted, call
    <2>2. ASSUME Noted, NEW c \in Counts, Call(c) PROVE Noted'
      BY <2>2 DEF Call, Noted
    <2>3. ASSUME Noted, \/ CallFails \/ SkipName \/ TakeName \/ LayerDone \/ LayerFails
                        \/ PassLayer \/ ReturnNames \/ ReturnEnd
          PROVE  Noted'
      BY <2>3 DEF CallFails, SkipName, TakeName, LayerDone, LayerFails, Loading, PassLayer,
                  ReturnNames, ReturnEnd, Noted, call
    <2>4. ASSUME Noted, UNCHANGED vars PROVE Noted'
      BY <2>4 DEF vars, call, Noted
    <2> QED BY <2>1, <2>2, <2>3, <2>4 DEF Next, Readdir
  <1>5. Init => CompleteIf
    BY InitComplete DEF CompleteIf
  <1>6. TypeOK /\ Listing /\ CompleteIf /\ [Next]_vars => CompleteIf'
    <2>1. Positive' = Positive
      BY DEF Positive
    <2> QED BY <2>1, StepComplete DEF CompleteIf
  <1> QED BY <1>1, <1>2, <1>3, <1>4, <1>5, <1>6, ListingHolds, PTL
          DEF Spec, DirectoryInv

LEMMA MergedIs ==
    /\ \A l \in Layers : Merged[l] = NamesOf(l) /\ NamesOf(l) \subseteq Names
    /\ OneDirectory!Files = UNION {NamesOf(l) : l \in Layers}
  <1>1. \A l \in Layers : NamesOf(l) \subseteq Names
    BY DirectoriesAssumption DEF NamesOf
  <1> QED BY <1>1 DEF Merged, OneDirectory!Files

LEMMA InitDirectory == Init => OneDirectory!Init
  <1> SUFFICES ASSUME Init PROVE OneDirectory!Init
    OBVIOUS
  <1>1. Merged \in [Layers -> SUBSET Names]
    BY MergedIs DEF Merged
  <1>2. Missed = {} /\ Ending = "none" /\ late = {} /\ given = <<>> /\ failed = {}
    BY DEF Init, Missed, Ending
  <1> QED BY <1>1, <1>2 DEF OneDirectory!Init, Merged, Missed, Ending

LEMMA AppearComes ==
    ASSUME DirectoryInv, MakeDirectory \/ AddAssets
    PROVE  \E l \in Layers : OneDirectory!Come(l)
  <1>1. PICK l \in Disk..MaxExtras, c \in Content :
            Appear(l, c) /\ content[l] \in {Missing, NotAdded}
    BY AppearCases
  <1>2. /\ l \in Layers /\ pc = "idle" /\ pc' = "idle"
        /\ given' = given /\ cut' = cut /\ result' = result
        /\ content' = [content EXCEPT ![l] = c]
        /\ late' = IF result = "none" THEN late ELSE late \cup {l}
        /\ failed' = failed
    BY <1>1, ExtrasAssumption DEF Appear, caller
  <1>3. /\ content'[l] = c
        /\ \A m \in Layers \ {l} : content'[m] = content[m]
    BY <1>2 DEF DirectoryInv, TypeOK
  <1>4. NamesOf(l) = {} /\ Merged[l] = {}
    BY <1>1, <1>2, DirectoriesAssumption DEF NamesOf, Merged
  <1>5. \A m \in Layers \ {l} : NamesOf(m)' = NamesOf(m)
    BY <1>3 DEF NamesOf
  <1>6. PICK names \in SUBSET Names : names = NamesOf(l)'
    <2>1. NamesOf(l)' \subseteq Names
      BY <1>3, DirectoriesAssumption DEF NamesOf
    <2> QED BY <2>1
  <1>7. Merged' = [Merged EXCEPT ![l] = names]
    <2>1. Merged' = [m \in Layers |-> NamesOf(m)']
      BY DEF Merged
    <2>2. Merged = [m \in Layers |-> NamesOf(m)]
      BY DEF Merged
    <2> QED BY <1>2, <1>5, <1>6, <2>1, <2>2
  <1>8. given # <<>> => l \in late'
    BY <1>2 DEF DirectoryInv, Listing, Read
  <1>9. Missed' = Missed /\ Ending = "none" /\ Ending' = "none"
    BY <1>2 DEF Missed, Ending
  <1>10. late' \in {late, late \cup {l}}
    BY <1>2
  <1>11. OneDirectory!Come(l)
    BY <1>2, <1>4, <1>7, <1>8, <1>9, <1>10 DEF OneDirectory!Come, Merged, Missed, Ending
  <1> QED BY <1>2, <1>11

\* The steps inside a call, and those that change nothing.
LEMMA InsideStutters ==
    ASSUME \/ \E c \in Counts : Call(c)
           \/ SkipName \/ TakeName \/ LayerDone \/ PassLayer
           \/ UNCHANGED vars
    PROVE  UNCHANGED OneDirectory!vars
  <1>1. /\ content' = content /\ late' = late /\ failed' = failed
        /\ given' = given /\ cut' = cut
        /\ (pc' = pc /\ result' = result) \/ (pc # "end" /\ pc' # "end")
    BY DEF Call, SkipName, TakeName, LayerDone, Loading, PassLayer, vars, caller
  <1>2. Merged' = Merged /\ Missed' = Missed /\ Ending' = Ending
    BY <1>1 DEF Merged, Missed, Ending, NamesOf
  <1> QED BY <1>1, <1>2 DEF OneDirectory!vars, Merged, Missed, Ending

\* A layer that cannot be read is out of the promise from that step on.
LEMMA LayerFailsFails ==
    ASSUME LayerFails
    PROVE  \E l \in Layers : OneDirectory!Fail(l)
  <1>1. PICK l \in Layers : l = layer
    BY ExtrasAssumption DEF LayerFails
  <1>2. /\ content' = content /\ late' = late /\ given' = given /\ cut' = cut
        /\ pc = "load" /\ pc' = "load"
        /\ failed' = failed \cup {l}
    BY <1>1 DEF LayerFails, Loading, caller
  <1>3. Merged' = Merged /\ Missed' = Missed /\ Ending = "none" /\ Ending' = "none"
    BY <1>2 DEF Merged, Missed, Ending, NamesOf
  <1>4. OneDirectory!Fail(l)
    BY <1>2, <1>3 DEF OneDirectory!Fail, Merged, Missed, Ending
  <1> QED BY <1>4

\* What a call has found is in the layer it was found in.
LEMMA FoundThere ==
    ASSUME DirectoryInv, pc = "load", NEW k \in DOMAIN fis
    PROVE  /\ fis[k] \in Entry /\ fis[k].layer \in Layers
           /\ fis[k].name \in NamesOf(fis[k].layer)
           /\ fis[k].name \in OneDirectory!Files
  <1>1. fis[k] \in Entry
    BY DEF DirectoryInv, TypeOK
  <1>2. fis[k].layer \in Layers /\ fis[k].name \in NamesOf(fis[k].layer)
    BY <1>1 DEF Entry, DirectoryInv, Listing, FromTop
  <1> QED BY <1>1, <1>2, MergedIs

LEMMA MissedGrows ==
    ASSUME DirectoryInv, pc = "load", content' = content,
           NEW lost, lost \subseteq DOMAIN fis,
           cut' = cut \cup {fis[k] : k \in lost}
    PROVE  Missed \subseteq Missed' /\ Missed' \subseteq Missed \cup OneDirectory!Files
  <1>1. Missed' = Missed \cup {fis[k].name : k \in lost}
    BY DEF Missed
  <1> QED BY <1>1, FoundThere

LEMMA ReturnAnswers ==
    ASSUME DirectoryInv, ReturnNames
    PROVE  \E c \in Counts : OneDirectory!Answer(c)
  <1>1. /\ pc = "load" /\ pc' = "idle" /\ content' = content /\ late' = late
        /\ failed' = failed
        /\ fis # <<>> /\ (Len(fis) > count => count >= 0)
        /\ cut' = cut \cup {fis[k] : k \in (Returned + 1)..Len(fis)}
    BY DEF ReturnNames, NothingFound, Returned
  <1>2. count \in Counts /\ TypeOK /\ Listing
    BY <1>1 DEF DirectoryInv, Asked
  <1>3. /\ Returned \in 0..Len(fis) /\ Returned <= count
        /\ given' \in Seq(Entry)
        /\ Len(given') = Len(given) + Returned
        /\ \A k \in 1..Len(given) : given'[k] = given[k]
        /\ \A k \in 1..Returned : given'[Len(given) + k] = fis[k]
    BY <1>2, ReturnEffect
  <1>4. /\ DOMAIN given = 1..Len(given) /\ Len(given) \in Nat
        /\ DOMAIN fis = 1..Len(fis) /\ Len(fis) \in Nat /\ count \in Int
        /\ DOMAIN given' = 1..(Len(given) + Returned)
        /\ Len(fis) > 0
    BY <1>1, <1>2, <1>3 DEF TypeOK
  <1>5. Len(given') - Len(given) \in IF count > 0 THEN 1..count ELSE {0}
    <2>1. count > 0 => Returned > 0
      BY <1>4 DEF Returned
    <2> HIDE DEF Returned
    <2> QED BY <1>3, <1>4, <2>1
  <1> HIDE DEF Returned
  <1>6. \A k \in DOMAIN given : given'[k] = given[k]
    BY <1>3, <1>4
  <1>7. ASSUME NEW k \in DOMAIN given' \ DOMAIN given
        PROVE  /\ k - Len(given) \in DOMAIN fis /\ k - Len(given) <= count
               /\ given'[k] = fis[k - Len(given)]
    <2>1. k - Len(given) \in 1..Returned /\ Len(given) + (k - Len(given)) = k
      BY <1>3, <1>4
    <2>2. given'[k] = fis[k - Len(given)]
      BY <1>3, <2>1
    <2> QED BY <1>3, <1>4, <2>1, <2>2
  <1>8. ASSUME NEW k \in DOMAIN given' \ DOMAIN given
        PROVE  /\ OneDirectory!First(given'[k])
               /\ \A j \in DOMAIN given : OneDirectory!MayFollow(given[j], given'[k])
               /\ \A j \in DOMAIN given' \ DOMAIN given :
                      given'[j].name = given'[k].name => j = k
    <2>p. PICK x \in DOMAIN fis : x = k - Len(given) /\ given'[k] = fis[x] /\ x <= count
      BY <1>7
    <2>1. Top(fis[x]) /\ fis[x].layer \in Layers
      BY <1>1, <1>2, <2>p, FoundThere DEF Listing, FromTop
    <2>2. OneDirectory!First(fis[x])
      BY <2>1, MergedIs DEF Top, OneDirectory!First, Merged
    <2>3. \A j \in DOMAIN given : OneDirectory!MayFollow(given[j], fis[x])
      BY <1>1, <1>2 DEF Listing, Once, MayFollow, OneDirectory!MayFollow
    <2>4. ASSUME NEW j \in DOMAIN given' \ DOMAIN given,
                 given'[j].name = given'[k].name
          PROVE  j = k
      <3>p. PICK y \in DOMAIN fis : y = j - Len(given) /\ given'[j] = fis[y]
        BY <1>7
      <3>1. fis[y].name = fis[x].name
        BY <2>4, <2>p, <3>p
      <3>2. y = x
        BY <1>1, <1>2, <1>4, <3>1 DEF Listing, Once
      <3> QED BY <1>4, <2>p, <3>p, <3>2
    <2> QED BY <2>p, <2>2, <2>3, <2>4
  <1>9. Missed \subseteq Missed' /\ Missed' \subseteq Missed \cup OneDirectory!Files
    <2>1. (Returned + 1)..Len(fis) \subseteq DOMAIN fis
      BY <1>3, <1>4
    <2> QED BY <1>1, <2>1, MissedGrows
  <1>10. Merged' = Merged /\ Ending = "none" /\ Ending' = "none"
    BY <1>1 DEF Merged, Ending, NamesOf
  <1>11. OneDirectory!Answer(count)
    BY <1>1, <1>5, <1>6, <1>8, <1>9, <1>10
       DEF OneDirectory!Answer, OneDirectory!Miss, Merged, Missed, Ending
  <1> QED BY <1>2, <1>11

LEMMA EndEnds ==
    ASSUME DirectoryInv, CompleteIf', ReturnEnd \/ CallFails
    PROVE  OneDirectory!End
  <1>1. /\ pc # "end" /\ pc' = "end" /\ content' = content /\ late' = late
        /\ given' = given
    BY DEF ReturnEnd, CallFails
  <1>2. Merged' = Merged /\ Ending = "none" /\ Ending' = result'
    BY <1>1 DEF Merged, Ending, NamesOf
  <1>3. Missed \subseteq Missed' /\ Missed' \subseteq Missed \cup OneDirectory!Files
    <2>1. CASE ReturnEnd
      <3>1. pc = "load" /\ cut' = cut \cup {fis[k] : k \in DOMAIN fis}
        BY <2>1 DEF ReturnEnd
      <3> QED BY <1>1, <3>1, MissedGrows
    <2>2. CASE CallFails
      <3>1. cut' = cut
        BY <2>2 DEF CallFails
      <3> QED BY <3>1 DEF Missed
    <2> QED BY <2>1, <2>2
  <1>4. \/ result' = "EOF" /\ failed' = failed
        \/ result' = "error" /\ failed' \in {failed, failed \cup {Disk}} \ {{}}
        \/ result' = "panic" /\ failed' = failed /\ \E c \in Counts : c < 0
    BY DEF ReturnEnd, CallFails, DirectoryInv, Asked, Noted
  <1>5. ASSUME result' = "EOF", \A c \in Counts : c > 0
        PROVE  OneDirectory!Complete
    <2>1. Complete'
      BY <1>5 DEF CompleteIf, Positive
    <2>2. /\ \A l \in Layers \ failed : NamesOf(l)' \subseteq readed'
          /\ \A n \in readed' : \/ \E k \in DOMAIN given' : given'[k].name = n
                                \/ \E e \in cut' : e.name = n
      BY <1>1, <1>4, <1>5, <2>1 DEF Complete, Over, Kept
    <2>3. \A l \in Layers : NamesOf(l)' = NamesOf(l) /\ NamesOf(l) = Merged[l]
      BY <1>1, MergedIs DEF NamesOf
    <2>4. \A l \in Layers \ failed :
              Merged[l] \subseteq OneDirectory!Listed(given) \cup Missed'
      BY <1>1, <2>2, <2>3 DEF Missed, OneDirectory!Listed
    <2> QED BY <2>4 DEF OneDirectory!Complete, Merged, Missed
  <1> QED BY <1>1, <1>2, <1>3, <1>4, <1>5
          DEF OneDirectory!End, OneDirectory!Miss, Merged, Missed, Ending

\* The overlay implements Directory, for any number of layers, directories and
\* counts: whatever the layers repeat of one another, and whenever they come or
\* cannot be read, a caller sees one directory, a call at a time, and is told it
\* is at the end only when every name of every layer that could be read was
\* listed or missed.
THEOREM OverlayIsOneDirectory == Spec => ListsAsOne
  <1>1. DirectoryInv /\ DirectoryInv' /\ [Next]_vars
            => [OneDirectory!Next]_(OneDirectory!vars)
    <2> SUFFICES ASSUME DirectoryInv, DirectoryInv', [Next]_vars
                 PROVE  [OneDirectory!Next]_(OneDirectory!vars)
      OBVIOUS
    <2>1. CASE MakeDirectory \/ AddAssets
      BY <2>1, AppearComes DEF OneDirectory!Next
    <2>2. CASE \/ \E c \in Counts : Call(c)
               \/ SkipName \/ TakeName \/ LayerDone \/ PassLayer
               \/ UNCHANGED vars
      BY <2>2, InsideStutters
    <2>3. CASE LayerFails
      BY <2>3, LayerFailsFails DEF OneDirectory!Next
    <2>4. CASE ReturnNames
      BY <2>4, ReturnAnswers DEF OneDirectory!Next
    <2>5. CASE ReturnEnd \/ CallFails
      BY <2>5, EndEnds DEF OneDirectory!Next, DirectoryInv
    <2> QED BY <2>1, <2>2, <2>3, <2>4, <2>5 DEF Next, Readdir
  <1> QED BY <1>1, InitDirectory, DirectoryHolds, PTL
          DEF Spec, ListsAsOne, OneDirectory!Spec
=============================================================================
