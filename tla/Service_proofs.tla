--------------------------- MODULE Service_proofs ---------------------------
(***************************************************************************)
(* Proofs about Service, for any number of formulators and accounts that   *)
(* the generator's index is wide enough for, any pages and handlers, and   *)
(* any number of starts.  The program and the explorer's routes share no   *)
(* variable: each has an inductive invariant of its own, and Service's is  *)
(* their conjunction.                                                      *)
(***************************************************************************)
EXTENDS Service, TLAPS

-----------------------------------------------------------------------------
(* The genesis. *)

\* The account made n-th has coordinate n, the formulators' given ones included,
\* and the generator's index is behind the last account but while those are made.
GenesisInv ==
    /\ created \in 0..(1 + Formulators + TestAccounts)
    /\ DOMAIN accounts = 0..(created - 1)
    /\ \A c \in DOMAIN accounts : accounts[c] = c
    /\ idx \in 0..(Word16 - 1)
    /\ created = 0 => idx = 0
    /\ created \in 1..Formulators => idx = 1
    /\ created > Formulators => idx = created % Word16

\* The start of a life.
LEMMA GenesisStarts ==
    ASSUME created = 0, idx = 0, accounts = <<>>
    PROVE  GenesisInv
  BY GenesisAssumption DEF GenesisInv

\* Each account gets a coordinate of its own.
LEMMA GenesisStep ==
    ASSUME GenesisInv, Genesis
    PROVE  GenesisInv'
  <1>1. /\ Formulators \in Nat /\ TestAccounts \in Nat /\ Word16 \in Nat
        /\ 1 + Formulators + TestAccounts <= Word16
    BY GenesisAssumption
  <1>2. ASSUME created \in 0..(Formulators + TestAccounts), Create(created)
        PROVE  /\ created' = created + 1
               /\ DOMAIN accounts' = 0..(created' - 1)
               /\ \A c \in DOMAIN accounts' : accounts'[c] = c
    <2>1. DOMAIN accounts \cup {created} = 0..created
      BY <1>1, <1>2 DEF GenesisInv
    <2>2. accounts' = [c \in 0..created |-> IF c = created THEN created ELSE accounts[c]]
      BY <1>2, <2>1 DEF Create
    <2> QED
      BY <1>1, <1>2, <2>1, <2>2 DEF GenesisInv, Create
  <1>3. CASE created = 0 /\ Create(idx) /\ idx' = Index(1)
    <2>1. Create(created)
      BY <1>3 DEF GenesisInv
    <2>2. idx' = 1 % Word16
      BY <1>1, <1>3 DEF GenesisInv, Index
    <2>3. Formulators > 0 => 1 % Word16 = 1
      BY <1>1
    <2>4. 1 % Word16 \in 0..(Word16 - 1)
      BY <1>1
    <2> QED
      BY <1>1, <1>2, <1>3, <2>1, <2>2, <2>3, <2>4 DEF GenesisInv
  <1>4. CASE /\ created \in 1..Formulators /\ Create(created)
             /\ idx' = IF created = Formulators THEN Index(PassedOver) ELSE idx
    <2>1. Index(PassedOver) = (1 + Formulators) % Word16
      BY <1>4 DEF GenesisInv, Index, PassedOver
    <2>2. (1 + Formulators) % Word16 \in 0..(Word16 - 1)
      BY <1>1
    <2> QED
      BY <1>1, <1>2, <1>4, <2>1, <2>2 DEF GenesisInv
  <1>5. CASE /\ created \in (Formulators + 1)..(Formulators + TestAccounts)
             /\ Create(idx) /\ idx' = Index(1)
    <2>1. idx = created
      BY <1>1, <1>5 DEF GenesisInv
    <2>2. idx' = (created + 1) % Word16
      BY <1>5, <2>1 DEF Index
    <2>3. (created + 1) % Word16 \in 0..(Word16 - 1)
      BY <1>1, <1>5
    <2> QED
      BY <1>1, <1>2, <1>5, <2>1, <2>2, <2>3 DEF GenesisInv
  <1>6. CASE UNCHANGED genesis
    BY <1>6 DEF GenesisInv, genesis
  <1> QED
    BY <1>3, <1>4, <1>5, <1>6 DEF Genesis

\* The types of the genesis follow from where the accounts are.
LEMMA GenesisTypes ==
    ASSUME GenesisInv
    PROVE  /\ idx \in 0..(Word16 - 1)
           /\ DOMAIN accounts \subseteq 0..(Word16 - 1)
           /\ \A c \in DOMAIN accounts : accounts[c] \in Numbers
           /\ created \in 0..(1 + Formulators + TestAccounts)
  BY GenesisAssumption DEF GenesisInv, Numbers

-----------------------------------------------------------------------------
(* main. *)

\* What may be open, and what the manager knows of, before each statement.
MayBeOpen ==
    [genesis |-> {}, store |-> {}, ask |-> {}, addStore |-> {"store"},
     kernel |-> {"store"}, dropStore |-> {"store", "kernel"},
     addKernel |-> {"store", "kernel"}, explorer |-> {"store", "kernel"},
     node |-> {"store", "kernel", "db"},
     dropKernel |-> {"store", "kernel", "db", "node"},
     addNode |-> {"store", "kernel", "db", "node"},
     rpc |-> {"store", "kernel", "db", "node"},
     dropNode |-> Parts, addRpc |-> Parts, addNodeToo |-> Parts, wait |-> Parts]
Knows ==
    [genesis |-> {}, store |-> {}, ask |-> {}, addStore |-> {},
     kernel |-> {"store"}, dropStore |-> {"store"}, addKernel |-> {},
     explorer |-> {"kernel"}, node |-> {"kernel"}, dropKernel |-> {"kernel"},
     addNode |-> {}, rpc |-> {"node"}, dropNode |-> {"node"}, addRpc |-> {},
     addNodeToo |-> {"rpc"}, wait |-> {"rpc", "node"}]

\* What is open is what the manager closes, but right before and after a part is
\* taken off it, where nothing can fail; a store that is open is in order, and one
\* left in disorder was left by a life that did not return.
MainInv ==
    /\ ended = "no" => open \subseteq MayBeOpen[pc] /\ registered = Knows[pc]
    /\ ended \in {"return", "panic"} => open \subseteq {"db"}
    /\ ended = "exit" => open = {}
    /\ ended = "return" => pc = "wait"
    /\ pc \notin {"genesis", "store", "ask"} => ~dirty
    /\ pc = "ask" => dirty
    /\ dirty => last \in {"killed", "exit", "panic"}

ProgramInv == ProgramTypeOK /\ GenesisInv /\ MainInv

LEMMA ProgramStarts ==
    ASSUME ProgramInit
    PROVE  ProgramInv
  <1>1. GenesisInv
    BY GenesisStarts DEF ProgramInit
  <1>2. ProgramTypeOK
    BY <1>1, GenesisTypes, GenesisAssumption DEF ProgramInit, ProgramTypeOK, Parts
  <1>3. MainInv
    BY DEF ProgramInit, MainInv, MayBeOpen, Knows
  <1> QED
    BY <1>1, <1>2, <1>3 DEF ProgramInv

\* Where a statement leads.
LEMMA AfterType ==
    \A x \in DOMAIN After : After[x] \in {"genesis", "wait"} \cup DOMAIN After
  BY DEF After

LEMMA ProgramStep ==
    ASSUME ProgramInv, ProgramNext
    PROVE  ProgramInv'
  <1> USE DEF ProgramInv
  <1>1. CASE ended = "no" /\ Genesis
    <2>1. GenesisInv'
      BY <1>1, GenesisStep
    <2>2. /\ pc = "genesis" /\ pc' \in {"genesis", "store"}
          /\ UNCHANGED <<open, registered, closed, signal, ended, ForceRecover,
                         dirty, last, starts>>
      BY <1>1 DEF Genesis, closer, lives
    <2>3. MainInv'
      BY <1>1, <2>2 DEF MainInv, MayBeOpen, Knows
    <2>4. /\ idx' \in 0..(Word16 - 1)
          /\ DOMAIN accounts' \subseteq 0..(Word16 - 1)
          /\ \A c \in DOMAIN accounts' : accounts'[c] \in Numbers
          /\ created' \in 0..(1 + Formulators + TestAccounts)
      <3>1. DOMAIN accounts' = 0..(created' - 1) /\ created' \in 0..(1 + Formulators + TestAccounts)
        BY <2>1 DEF GenesisInv
      <3>2. \A c \in DOMAIN accounts' : accounts'[c] = c
        BY <2>1 DEF GenesisInv
      <3>3. idx' \in 0..(Word16 - 1)
        BY <2>1 DEF GenesisInv
      <3>4. \A n \in 0..(1 + Formulators + TestAccounts) :
                0..(n - 1) \subseteq 0..(Word16 - 1) /\ 0..(n - 1) \subseteq Numbers
        BY GenesisAssumption DEF Numbers
      <3> QED
        BY <3>1, <3>2, <3>3, <3>4
    <2>5. ProgramTypeOK'
      BY <2>2, <2>4 DEF ProgramTypeOK, After
    <2> QED
      BY <2>1, <2>3, <2>5
  <1>2. CASE ended = "no" /\ NeedsTruncate
    <2>1. GenesisInv'
      BY <1>2 DEF NeedsTruncate, genesis, GenesisInv
    <2>2. MainInv'
      BY <1>2 DEF NeedsTruncate, MainInv, MayBeOpen, Knows, closer, lives
    <2>3. ProgramTypeOK'
      BY <1>2 DEF NeedsTruncate, ProgramTypeOK, genesis, closer, lives, After
    <2> QED
      BY <2>1, <2>2, <2>3
  <1>3. CASE ended = "no" /\ (AnswerNo \/ RpcPanics \/ Kill)
    <2>1. GenesisInv'
      BY <1>3 DEF AnswerNo, RpcPanics, Kill, genesis, GenesisInv
    <2>2. MainInv'
      <3>1. AnswerNo => open = {}
        BY <1>3 DEF AnswerNo, MainInv, MayBeOpen
      <3> QED
        BY <1>3, <3>1 DEF AnswerNo, RpcPanics, Kill, MainInv, closer, lives
    <2>3. ProgramTypeOK'
      BY <1>3 DEF AnswerNo, RpcPanics, Kill, ProgramTypeOK, genesis, closer, lives
    <2> QED
      BY <2>1, <2>2, <2>3
  <1>4. CASE ended = "no" /\ New
    <2>1. pc \in {"store", "ask", "kernel", "explorer", "node", "rpc"}
      BY <1>4 DEF New, Opens
    <2>2. CASE Opened
      <3>1. GenesisInv'
        BY <2>2 DEF Opened, Step, genesis, GenesisInv
      <3>2. MainInv'
        <4>1. /\ pc' = After[pc] /\ open' = open \cup {Opens[pc]}
              /\ dirty' = (dirty /\ pc \notin {"store", "ask"})
              /\ UNCHANGED <<registered, ended, last>>
          BY <2>2 DEF Opened, Step, closer
        <4>2. open' \subseteq MayBeOpen[pc'] /\ registered' = Knows[pc']
          <5>1. open \subseteq MayBeOpen[pc] /\ registered = Knows[pc]
            BY <1>4 DEF MainInv
          <5>2. MayBeOpen[pc] \cup {Opens[pc]} \subseteq MayBeOpen[After[pc]]
            BY <2>1 DEF After, Opens, MayBeOpen, Parts
          <5>3. Knows[pc] = Knows[After[pc]]
            BY <2>1 DEF After, Knows
          <5> QED
            BY <4>1, <5>1, <5>2, <5>3
        <4>3. pc' \notin {"genesis", "store", "ask"}
          BY <2>1, <4>1 DEF After
        <4>4. ~dirty'
          BY <2>1, <4>1 DEF MainInv
        <4> QED
          BY <1>4, <4>1, <4>2, <4>3, <4>4 DEF MainInv
      <3>3. ProgramTypeOK'
        <4>1. dirty' \in BOOLEAN
          BY <2>2 DEF Opened
        <4>2. pc' \in {"genesis", "wait"} \cup DOMAIN After
          BY <2>1, <2>2, AfterType DEF Opened, Step, After
        <4>3. open' \subseteq Parts
          <5>1. Opens[pc] \in Parts
            BY <2>1 DEF Opens, Parts
          <5> QED
            BY <2>2, <5>1 DEF Opened, ProgramTypeOK
        <4> QED
          BY <2>2, <4>1, <4>2, <4>3
          DEF Opened, Step, ProgramTypeOK, genesis, closer
      <3> QED
        BY <3>1, <3>2, <3>3
    <2>3. CASE pc # "rpc" /\ End("panic")
      <3>1. GenesisInv'
        BY <2>3 DEF End, genesis, GenesisInv
      <3>2. open' \subseteq {"db"}
        BY <1>4, <2>1, <2>3
        DEF End, CloseAll, Closes, BuiltOn, MainInv, MayBeOpen, Knows
      <3>3. MainInv'
        BY <2>3, <3>2 DEF End, MainInv, lives
      <3>4. ProgramTypeOK'
        BY <2>3, <3>2 DEF End, CloseAll, ProgramTypeOK, genesis, lives, Parts
      <3> QED
        BY <3>1, <3>3, <3>4
    <2> QED
      BY <1>4, <2>2, <2>3 DEF New
  <1>5. CASE ended = "no" /\ Add
    <2>1. pc \in {"addStore", "addKernel", "addNode", "addRpc", "addNodeToo"}
      BY <1>5 DEF Add, Adds
    <2>2. /\ pc' = After[pc] /\ registered' = registered \cup {Adds[pc]}
          /\ UNCHANGED <<genesis, open, closed, signal, ended, lives>>
      BY <1>5 DEF Add, Step
    <2>3. GenesisInv'
      BY <2>2 DEF genesis, GenesisInv
    <2>4. open' \subseteq MayBeOpen[pc'] /\ registered' = Knows[pc']
      BY <1>5, <2>1, <2>2 DEF MainInv, After, Adds, MayBeOpen, Knows, Parts
    <2>5. pc' \notin {"genesis", "store", "ask"}
      BY <2>1, <2>2 DEF After
    <2>6. MainInv'
      BY <1>5, <2>1, <2>2, <2>4, <2>5 DEF MainInv, lives
    <2>7. pc' \in {"genesis", "wait"} \cup DOMAIN After
      BY <2>1, <2>2, AfterType DEF After
    <2>8. registered' \subseteq Parts \ {"db"}
      <3>1. Adds[pc] \in Parts \ {"db"}
        BY <2>1 DEF Adds, Parts
      <3> QED
        BY <2>2, <3>1 DEF ProgramTypeOK
    <2>9. ProgramTypeOK'
      BY <2>2, <2>7, <2>8 DEF ProgramTypeOK, genesis, lives
    <2> QED
      BY <2>3, <2>6, <2>9
  <1>6. CASE ended = "no" /\ RemoveAll
    <2>1. pc \in {"dropStore", "dropKernel", "dropNode"}
      BY <1>6 DEF RemoveAll, Drops
    <2>2. /\ pc' = After[pc] /\ registered' = {}
          /\ UNCHANGED <<genesis, open, closed, signal, ended, lives>>
      BY <1>6 DEF RemoveAll, Step
    <2>3. GenesisInv'
      BY <2>2 DEF genesis, GenesisInv
    <2>4. open' \subseteq MayBeOpen[pc'] /\ registered' = Knows[pc']
      BY <1>6, <2>1, <2>2 DEF MainInv, After, MayBeOpen, Knows, Parts
    <2>5. pc' \notin {"genesis", "store", "ask"}
      BY <2>1, <2>2 DEF After
    <2>6. MainInv'
      BY <1>6, <2>1, <2>2, <2>4, <2>5 DEF MainInv, lives
    <2>7. pc' \in {"genesis", "wait"} \cup DOMAIN After
      BY <2>1, <2>2, AfterType DEF After
    <2>8. ProgramTypeOK'
      BY <2>2, <2>7 DEF ProgramTypeOK, genesis, lives, Parts
    <2> QED
      BY <2>3, <2>6, <2>8
  <1>7. CASE ended = "no" /\ Wait
    <2>1. pc = "wait" /\ End("return")
      BY <1>7 DEF Wait
    <2>2. GenesisInv'
      BY <2>1 DEF End, genesis, GenesisInv
    <2>3. open' \subseteq {"db"}
      BY <1>7, <2>1
      DEF End, CloseAll, Closes, BuiltOn, MainInv, MayBeOpen, Knows, Parts
    <2>4. MainInv'
      BY <2>1, <2>3 DEF End, MainInv, lives
    <2>5. ProgramTypeOK'
      BY <2>1, <2>3 DEF End, CloseAll, ProgramTypeOK, genesis, lives, Parts
    <2> QED
      BY <2>2, <2>4, <2>5
  <1>8. CASE ended = "no" /\ SendSignal
    <2>1. GenesisInv'
      BY <1>8 DEF SendSignal, genesis, GenesisInv
    <2>2. MainInv'
      BY <1>8 DEF SendSignal, MainInv, closer, lives
    <2>3. ProgramTypeOK'
      BY <1>8 DEF SendSignal, ProgramTypeOK, genesis, closer, lives
    <2> QED
      BY <2>1, <2>2, <2>3
  <1>9. CASE ended = "no" /\ TakeSignal
    <2>1. open' \subseteq open /\ closed' = TRUE /\ registered' = registered
      BY <1>9 DEF TakeSignal, OnSignal, CloseAll
    <2>2. GenesisInv'
      BY <1>9 DEF TakeSignal, genesis, GenesisInv
    <2>3. MainInv'
      BY <1>9, <2>1 DEF TakeSignal, MainInv, lives
    <2>4. ProgramTypeOK'
      BY <1>9, <2>1 DEF TakeSignal, ProgramTypeOK, genesis, lives
    <2> QED
      BY <2>2, <2>3, <2>4
  <1>10. CASE StartAgain
    <2>1. GenesisInv'
      BY <1>10, GenesisAssumption DEF StartAgain, GenesisInv
    <2>2. MainInv'
      <3>1. ended # "no" /\ last' = ended /\ dirty' = (dirty \/ "store" \in open)
        BY <1>10 DEF StartAgain
      <3>2. dirty' => last' \in {"killed", "exit", "panic"}
        <4>1. CASE ended = "return"
          <5>1. ~dirty /\ "store" \notin open
            BY <4>1 DEF MainInv
          <5> QED
            BY <3>1, <5>1
        <4>2. CASE ended # "return"
          BY <3>1, <4>2 DEF ProgramTypeOK
        <4> QED
          BY <4>1, <4>2
      <3> QED
        BY <1>10, <3>2 DEF StartAgain, MainInv, MayBeOpen, Knows
    <2>3. ProgramTypeOK'
      <3>1. dirty' \in BOOLEAN
        BY <1>10 DEF StartAgain
      <3> QED
        <4>1. accounts' = <<>> /\ idx' = 0 /\ created' = 0
          BY <1>10 DEF StartAgain
        <4>2. DOMAIN accounts' = {}
          BY <4>1
        <4>3. 0 \in 0..(Word16 - 1) /\ 0 \in 0..(1 + Formulators + TestAccounts)
          BY GenesisAssumption
        <4>4. last' \in {"none", "return", "panic", "exit", "killed"} /\ starts' \in Nat
          BY <1>10 DEF StartAgain, ProgramTypeOK
        <4> QED
          BY <1>10, <3>1, <4>1, <4>2, <4>3, <4>4 DEF StartAgain, ProgramTypeOK
    <2> QED
      BY <2>1, <2>2, <2>3
  <1> QED
    BY <1>1, <1>2, <1>3, <1>4, <1>5, <1>6, <1>7, <1>8, <1>9, <1>10
    DEF ProgramNext, Main

-----------------------------------------------------------------------------
(* The routes. *)

\* While no call of the program came in StartExplorer's way, the two share the
\* work: either the program prepared an instance, the flag is up and StartExplorer
\* serves the instance in place, or StartExplorer prepares it and the program adds
\* to it afterwards.
ByProgram ==
    /\ at["program"] \in {"flag", "new", "register"} => at["web"] = "off" /\ added = {}
    /\ at["program"] \in {"new", "register"} => initURLFlag
    /\ at["program"] = "register" => e # 0
    /\ at["program"] = "ready" => initURLFlag /\ e # 0 /\ {Own} \cup added \subseteq routes[e]
    /\ at["program"] \in {"ready", "flag", "new", "register"}
    /\ at["web"] \in {"off", "check", "serve", "serving", "failed"}
ByStart ==
    /\ at["program"] \in {"ready", "panicked"}
    /\ at["program"] = "panicked" => at["web"] = "off"
    /\ at["web"] \in {"off", "check", "flag", "new", "register", "serve", "serving", "failed"}
    /\ at["web"] \in {"off", "check"} => ~initURLFlag
    /\ at["web"] = "off" => e = 0
    /\ at["web"] \in {"off", "check", "flag", "new", "register"} /\ at["program"] = "ready"
           => added = {}
    /\ at["web"] = "register" => e # 0
    /\ at["web"] \in {"serve", "serving", "failed"} =>
           e # 0 /\ {Own} \cup added \subseteq routes[e]
Uncrossed ==
    /\ inits > 0 => ByProgram
    /\ inits = 0 => ByStart
    /\ at["web"] = "serving" => served = e
    /\ at["web"] # "off" => alone = (inits = 0)

\* Each goroutine makes one instance for a call of InitURL, and StartExplorer calls
\* it once.
MadeInv ==
    made + (IF at["program"] \in {"flag", "new"} THEN 1 ELSE 0)
         + (IF at["web"] \in {"off", "check", "flag", "new"} THEN 1 ELSE 0)
      <= inits + 1

\* The handlers asked so far did not handle the request, the last one's result is
\* kept, and the others are left; or one handled it, the first that does.
GoesOn ==
    \E k \in 0..Len(data.found) :
        /\ Len(data.left) = Len(data.found) - k
        /\ \A j \in 1..Len(data.left) : data.left[j] = data.found[k + j]
        /\ \A j \in 1..k : data.found[j] \notin Handling
        /\ data.result = IF k = 0 THEN Null ELSE data.found[k]
IsHandled ==
    /\ data.left = <<>>
    /\ \E k \in 1..Len(data.found) :
           /\ data.found[k] \in Handling
           /\ \A j \in 1..(k - 1) : data.found[j] \notin Handling
           /\ data.result = data.found[k]
DataInv ==
    /\ data.state = "none" => data = NoData
    /\ data.state = "asked" => GoesOn \/ IsHandled

RoutesInv == RoutesTypeOK /\ (~crossed => Uncrossed) /\ MadeInv /\ DataInv

\* The start of a life.
LEMMA RoutesStarts ==
    ASSUME /\ initURLFlag = FALSE
           /\ e = 0 /\ made = 0 /\ routes = [n \in Instances |-> {}]
           /\ at = [g \in Goroutines |-> IF g = "web" THEN "off" ELSE "ready"]
           /\ served = 0
           /\ dataHandlerPacks = <<>> /\ data = NoData
           /\ inits = 0 /\ added = {} /\ alone = FALSE /\ crossed = FALSE
    PROVE  RoutesInv
  <1>1. at \in [Goroutines -> GoLabels] /\ at["program"] = "ready" /\ at["web"] = "off"
    BY DEF Goroutines, GoLabels
  <1>2. NoData \in [found : Seq(Packs), left : Seq(Packs), result : Packs \cup {Null},
                    state : {"none", "asked"}]
    BY DEF NoData
  <1>3. RoutesTypeOK
    <2>1. routes \in [Instances -> SUBSET (URLs \cup {Own})]
      OBVIOUS
    <2>2. <<>> \in Seq(Packs) /\ 0 \in 0..(MaxInits + 1) /\ 0 \in 0..0 /\ 0 \in 0..MaxInits
      BY RoutesAssumption
    <2> QED
      BY <1>1, <1>2, <2>1, <2>2 DEF RoutesTypeOK
  <1>4. Uncrossed
    BY <1>1 DEF Uncrossed, ByStart
  <1>5. MadeInv
    BY <1>1 DEF MadeInv
  <1>6. DataInv
    BY DEF DataInv, NoData
  <1> QED
    BY <1>3, <1>4, <1>5, <1>6 DEF RoutesInv

\* A step of InitURL in the program's goroutine or in StartExplorer's.
LEMMA InitURLStep ==
    ASSUME RoutesInv, NEW g \in Goroutines, InitURL(g)
    PROVE  RoutesInv'
  <1> USE DEF RoutesInv
  <1>0. /\ at \in [Goroutines -> GoLabels] /\ made \in Nat /\ e \in 0..made /\ inits \in 0..MaxInits
        /\ MaxInits \in Nat /\ g \in {"program", "web"}
        /\ routes \in [Instances -> SUBSET (URLs \cup {Own})]
    BY RoutesAssumption DEF RoutesTypeOK, Goroutines
  <1>1. DataInv'
    BY DEF DataInv, GoesOn, IsHandled, InitURL, SetFlag, NewEcho, RegisterOwn, handlers
  <1>2. CASE SetFlag(g)
    <2>1. /\ at[g] = "flag" /\ at' = [at EXCEPT ![g] = "new"] /\ initURLFlag' = TRUE
          /\ UNCHANGED <<e, made, routes, served, inits, added, alone, crossed,
                         dataHandlerPacks, data>>
      BY <1>2 DEF SetFlag, Goto, handlers
    <2>2. MadeInv'
      BY <1>0, <2>1 DEF MadeInv, Goroutines
    <2>3. RoutesTypeOK'
      BY <2>1 DEF RoutesTypeOK, GoLabels
    <2>4. ~crossed' => Uncrossed'
      BY <1>0, <2>1 DEF Uncrossed, ByProgram, ByStart, Goroutines
    <2> QED
      BY <1>1, <2>2, <2>3, <2>4
  <1>3. CASE NewEcho(g)
    <2>1. /\ at[g] = "new" /\ at' = [at EXCEPT ![g] = "register"]
          /\ made' = made + 1 /\ e' = made + 1
          /\ UNCHANGED <<initURLFlag, routes, served, inits, added, alone, crossed,
                         dataHandlerPacks, data>>
      BY <1>3 DEF NewEcho, Goto, handlers
    <2>2. MadeInv'
      BY <1>0, <2>1 DEF MadeInv, Goroutines
    <2>3. made' \in 0..(MaxInits + 1)
      BY <1>0, <2>1, <2>2 DEF MadeInv
    <2>4. RoutesTypeOK'
      BY <1>0, <2>1, <2>3 DEF RoutesTypeOK, GoLabels
    <2>5. ~crossed' => Uncrossed'
      BY <1>0, <2>1 DEF Uncrossed, ByProgram, ByStart, Goroutines
    <2> QED
      BY <1>1, <2>2, <2>4, <2>5
  <1>4. CASE RegisterOwn(g)
    <2>1. /\ at[g] = "register"
          /\ at' = [at EXCEPT ![g] = IF g = "web" THEN "serve" ELSE "ready"]
          /\ routes' = [routes EXCEPT ![e] = @ \cup {Own}]
          /\ UNCHANGED <<initURLFlag, e, made, served, inits, added, alone, crossed,
                         dataHandlerPacks, data>>
      BY <1>4 DEF RegisterOwn, Goto, handlers
    <2>2. MadeInv'
      BY <1>0, <2>1 DEF MadeInv, Goroutines
    <2>3. routes' \in [Instances -> SUBSET (URLs \cup {Own})]
      BY <1>0, <2>1
    <2>4. RoutesTypeOK'
      BY <1>0, <2>1, <2>3 DEF RoutesTypeOK, GoLabels
    <2>5. ~crossed' => Uncrossed'
      <3>1. e # 0 => e \in Instances /\ routes'[e] = routes[e] \cup {Own}
        BY <1>0, <2>1 DEF Instances, RoutesTypeOK
      <3> QED
        BY <1>0, <2>1, <3>1 DEF Uncrossed, ByProgram, ByStart, Goroutines
    <2> QED
      BY <1>1, <2>2, <2>4, <2>5
  <1> QED
    BY <1>2, <1>3, <1>4 DEF InitURL

\* A call of the program.
LEMMA ExtendStep ==
    ASSUME RoutesInv, ~Panicked, Extend
    PROVE  RoutesInv'
  <1> USE DEF RoutesInv
  <1>0. /\ at \in [Goroutines -> GoLabels] /\ made \in Nat /\ e \in 0..made /\ inits \in 0..MaxInits
        /\ MaxInits \in Nat /\ added \subseteq URLs
        /\ routes \in [Instances -> SUBSET (URLs \cup {Own})]
        /\ alone \in BOOLEAN /\ crossed \in BOOLEAN
    BY RoutesAssumption DEF RoutesTypeOK
  <1>1. CASE CallInitURL
    <2>1. /\ at["program"] = "ready" /\ at' = [at EXCEPT !["program"] = "flag"]
          /\ inits < MaxInits /\ inits' = inits + 1 /\ added' = {}
          /\ crossed' = (crossed \/ at["web"] # "off")
          /\ UNCHANGED <<initURLFlag, e, made, routes, served, alone,
                         dataHandlerPacks, data>>
      BY <1>1 DEF CallInitURL, Goto, handlers
    <2>2. MadeInv' /\ DataInv'
      BY <1>0, <2>1 DEF MadeInv, DataInv, GoesOn, IsHandled, Goroutines
    <2>3. crossed' \in BOOLEAN /\ inits' \in 0..MaxInits /\ at' \in [Goroutines -> GoLabels]
      <3>1. crossed' \in BOOLEAN
        BY <2>1
      <3>2. inits' \in 0..MaxInits
        BY <1>0, <2>1
      <3>3. "flag" \in GoLabels
        BY DEF GoLabels
      <3> QED
        BY <1>0, <2>1, <3>1, <3>2, <3>3
    <2>4. RoutesTypeOK'
      BY <2>1, <2>3 DEF RoutesTypeOK
    <2>5. ASSUME ~crossed'
          PROVE  Uncrossed'
      <3>1. ~crossed /\ at["web"] = "off"
        BY <2>1, <2>5
      <3>2. at'["program"] = "flag" /\ at'["web"] = "off" /\ inits' > 0
        BY <1>0, <2>1, <3>1 DEF Goroutines
      <3> QED
        BY <2>1, <3>2 DEF Uncrossed, ByProgram
    <2> QED
      BY <2>2, <2>4, <2>5
  <1>2. CASE \E url \in URLs : AddURL(url)
    <2>1. PICK url \in URLs : AddURL(url)
      BY <1>2
    <2>2. /\ at["program"] = "ready" /\ added' = added \cup {url}
          /\ crossed' = (crossed \/ (alone /\ Starting))
          /\ UNCHANGED <<initURLFlag, e, made, served, inits, alone,
                         dataHandlerPacks, data>>
      BY <2>1 DEF AddURL, handlers
    <2>3. crossed' \in BOOLEAN
      BY <2>2
    <2>4. CASE e = 0
      <3>1. at' = [at EXCEPT !["program"] = "panicked"] /\ routes' = routes
        BY <2>1, <2>4 DEF AddURL, Goto
      <3>2. MadeInv' /\ DataInv'
        BY <1>0, <2>2, <3>1 DEF MadeInv, DataInv, GoesOn, IsHandled, Goroutines
      <3>3. RoutesTypeOK'
        BY <1>0, <2>2, <2>3, <3>1 DEF RoutesTypeOK, GoLabels
      <3>4. ASSUME ~crossed'
            PROVE  Uncrossed'
        <4>1. ~crossed /\ ~(alone /\ Starting)
          BY <2>2, <3>4
        <4>2. inits = 0 /\ at["web"] = "off" /\ ~initURLFlag
          BY <1>0, <2>2, <2>4, <4>1 DEF Uncrossed, ByProgram, ByStart, Starting
        <4>3. at'["program"] = "panicked" /\ at'["web"] = "off"
          BY <1>0, <3>1, <4>2 DEF Goroutines
        <4> QED
          BY <2>2, <2>4, <4>2, <4>3 DEF Uncrossed, ByStart
      <3> QED
        BY <3>2, <3>3, <3>4
    <2>5. CASE e # 0
      <3>1. at' = at /\ routes' = [routes EXCEPT ![e] = @ \cup {url}]
        BY <2>1, <2>5 DEF AddURL
      <3>2. e \in Instances /\ routes'[e] = routes[e] \cup {url}
        BY <1>0, <2>5, <3>1 DEF Instances, RoutesTypeOK
      <3>3. MadeInv' /\ DataInv'
        BY <1>0, <2>2, <3>1 DEF MadeInv, DataInv, GoesOn, IsHandled
      <3>4. routes' \in [Instances -> SUBSET (URLs \cup {Own})]
        BY <1>0, <2>1, <3>1
      <3>5. RoutesTypeOK'
        BY <1>0, <2>2, <2>3, <3>1, <3>4 DEF RoutesTypeOK
      <3>6. ASSUME ~crossed'
            PROVE  Uncrossed'
        <4>1. ~crossed /\ ~(alone /\ Starting)
          BY <2>2, <3>6
        <4>2. CASE inits > 0
          BY <1>0, <2>2, <3>1, <3>2, <4>1, <4>2 DEF Uncrossed, ByProgram
        <4>3. CASE inits = 0
          <5>1. at["web"] \in {"serving", "failed"}
            BY <2>2, <2>5, <4>1, <4>3 DEF Uncrossed, ByStart, Starting
          <5> QED
            BY <2>2, <3>1, <3>2, <4>1, <4>3, <5>1 DEF Uncrossed, ByStart
        <4> QED
          BY <1>0, <4>2, <4>3
      <3> QED
        BY <3>3, <3>5, <3>6
    <2> QED
      BY <2>4, <2>5
  <1>3. CASE GoStartExplorer
    <2>1. /\ at["program"] = "ready" /\ at["web"] = "off"
          /\ at' = [at EXCEPT !["web"] = "check"] /\ alone' = (inits = 0)
          /\ UNCHANGED <<initURLFlag, e, made, routes, served, inits, added, crossed,
                         dataHandlerPacks, data>>
      BY <1>3 DEF GoStartExplorer, Goto, handlers
    <2>2. MadeInv' /\ DataInv'
      BY <1>0, <2>1 DEF MadeInv, DataInv, GoesOn, IsHandled, Goroutines
    <2>3. alone' \in BOOLEAN
      BY <2>1
    <2>4. RoutesTypeOK'
      BY <1>0, <2>1, <2>3 DEF RoutesTypeOK, GoLabels
    <2>5. at'["program"] = "ready" /\ at'["web"] = "check"
      BY <1>0, <2>1 DEF Goroutines
    <2>6. ~crossed' => Uncrossed'
      BY <1>0, <2>1, <2>5 DEF Uncrossed, ByProgram, ByStart
    <2> QED
      BY <2>2, <2>4, <2>6
  <1>4. CASE \E pack \in Packs : AddDataHandler(pack)
    <2>1. PICK pack \in Packs : AddDataHandler(pack)
      BY <1>4
    <2>2. /\ dataHandlerPacks' = Append(dataHandlerPacks, pack)
          /\ UNCHANGED <<initURLFlag, e, made, routes, at, served, inits, added, alone,
                         crossed, data>>
      BY <2>1 DEF AddDataHandler, pages
    <2>3. MadeInv' /\ DataInv'
      BY <2>2 DEF MadeInv, DataInv, GoesOn, IsHandled
    <2>4. dataHandlerPacks' \in Seq(Packs)
      BY <2>1, <2>2 DEF RoutesTypeOK
    <2>5. RoutesTypeOK'
      BY <2>2, <2>4 DEF RoutesTypeOK
    <2>6. ~crossed' => Uncrossed'
      BY <2>2 DEF Uncrossed, ByProgram, ByStart
    <2> QED
      BY <2>3, <2>5, <2>6
  <1>5. CASE InitURL("program")
    BY <1>5, InitURLStep DEF Goroutines
  <1> QED
    BY <1>1, <1>2, <1>3, <1>4, <1>5 DEF Extend

\* A step of StartExplorer.
LEMMA StartExplorerStep ==
    ASSUME RoutesInv, StartExplorer
    PROVE  RoutesInv'
  <1> USE DEF RoutesInv
  <1>0. /\ at \in [Goroutines -> GoLabels] /\ made \in Nat /\ e \in 0..made /\ inits \in 0..MaxInits
        /\ MaxInits \in Nat
    BY RoutesAssumption DEF RoutesTypeOK
  <1>1. CASE CheckFlag
    <2>1. /\ at["web"] = "check" /\ at' = [at EXCEPT !["web"] = FirstStep]
          /\ UNCHANGED <<initURLFlag, e, made, routes, served, inits, added, alone, crossed,
                         dataHandlerPacks, data>>
      BY <1>1 DEF CheckFlag, Goto, handlers
    <2>2. FirstStep \in {"serve", "flag"}
      BY DEF FirstStep
    <2>3. MadeInv' /\ DataInv'
      <3>1. at'["web"] = FirstStep /\ at'["program"] = at["program"]
        BY <1>0, <2>1 DEF Goroutines
      <3>2. MadeInv'
        BY <1>0, <2>1, <2>2, <3>1 DEF MadeInv
      <3>3. DataInv'
        BY <2>1 DEF DataInv, GoesOn, IsHandled
      <3> QED
        BY <3>2, <3>3
    <2>4. RoutesTypeOK'
      BY <1>0, <2>1, <2>2 DEF RoutesTypeOK, GoLabels
    <2>5. ~crossed' => Uncrossed'
      BY <1>0, <2>1, <2>2 DEF Uncrossed, ByProgram, ByStart, Goroutines, FirstStep
    <2> QED
      BY <2>3, <2>4, <2>5
  <1>2. CASE InitURL("web")
    BY <1>2, InitURLStep DEF Goroutines
  <1>3. CASE Serve
    <2>1. PICK label \in {"serving", "failed", "panicked"} :
              /\ at["web"] = "serve" /\ at' = [at EXCEPT !["web"] = label]
              /\ (label = "panicked") = (e = 0)
              /\ served' = IF label = "serving" THEN e ELSE served
              /\ UNCHANGED <<initURLFlag, e, made, routes, inits, added, alone, crossed,
                             dataHandlerPacks, data>>
      BY <1>3 DEF Serve, Goto, handlers
    <2>2. MadeInv' /\ DataInv'
      BY <1>0, <2>1 DEF MadeInv, DataInv, GoesOn, IsHandled, Goroutines
    <2>3. RoutesTypeOK'
      BY <1>0, <2>1 DEF RoutesTypeOK, GoLabels
    <2>4. ~crossed' => Uncrossed'
      BY <1>0, <2>1 DEF Uncrossed, ByProgram, ByStart, Goroutines
    <2> QED
      BY <2>2, <2>3, <2>4
  <1> QED
    BY <1>1, <1>2, <1>3 DEF StartExplorer

\* A step of a request under /data/.
LEMMA HandleDataStep ==
    ASSUME RoutesInv, HandleData
    PROVE  RoutesInv'
  <1> USE DEF RoutesInv
  <1>0. /\ UNCHANGED <<initURLFlag, e, made, routes, at, served, inits, added, alone,
                       crossed, dataHandlerPacks>>
        /\ dataHandlerPacks \in Seq(Packs)
        /\ data \in [found : Seq(Packs), left : Seq(Packs), result : Packs \cup {Null},
                     state : {"none", "asked"}]
    BY DEF HandleData, AskData, AskPack, AnswerData, pages, RoutesTypeOK
  <1>1. /\ data' \in [found : Seq(Packs), left : Seq(Packs), result : Packs \cup {Null},
                      state : {"none", "asked"}]
        /\ DataInv'
    <2>1. CASE AskData
      <3>1. data' = [found |-> dataHandlerPacks, left |-> dataHandlerPacks,
                     result |-> Null, state |-> "asked"]
        BY <2>1 DEF AskData
      <3>2. /\ Len(data'.left) = Len(data'.found) - 0 /\ 0 \in 0..Len(data'.found)
            /\ \A j \in 1..Len(data'.left) : data'.left[j] = data'.found[0 + j]
            /\ \A j \in 1..0 : data'.found[j] \notin Handling
            /\ data'.result = Null /\ data'.state = "asked"
        BY <1>0, <3>1
      <3>3. DataInv'
        BY <3>2 DEF DataInv, GoesOn
      <3> QED
        BY <1>0, <3>1, <3>3
    <2>2. CASE AskPack
      <3>1. /\ data.left # <<>> /\ data.state = "asked"
            /\ Head(data.left) \in Packs /\ Tail(data.left) \in Seq(Packs)
        BY <1>0, <2>2 DEF AskPack, DataInv, NoData
      <3>2. /\ data'.found = data.found /\ data'.state = "asked"
            /\ data'.result = Head(data.left)
            /\ data'.left = IF Head(data.left) \in Handling THEN <<>> ELSE Tail(data.left)
            /\ data' \in [found : Seq(Packs), left : Seq(Packs), result : Packs \cup {Null},
                          state : {"none", "asked"}]
        <4> DEFINE left == IF Head(data.left) \in Handling THEN <<>> ELSE Tail(data.left)
        <4>1. data' = [data EXCEPT !.result = Head(data.left), !.left = left]
          BY <2>2 DEF AskPack
        <4>2. left \in Seq(Packs)
          BY <3>1
        <4> HIDE DEF left
        <4>3. /\ data'.found = data.found /\ data'.state = "asked"
              /\ data'.result = Head(data.left) /\ data'.left = left
              /\ data' \in [found : Seq(Packs), left : Seq(Packs), result : Packs \cup {Null},
                            state : {"none", "asked"}]
          BY <1>0, <3>1, <4>1, <4>2
        <4> QED
          BY <4>3 DEF left
      <3>3. PICK k \in 0..Len(data.found) :
                /\ Len(data.left) = Len(data.found) - k
                /\ \A j \in 1..Len(data.left) : data.left[j] = data.found[k + j]
                /\ \A j \in 1..k : data.found[j] \notin Handling
        BY <3>1 DEF DataInv, GoesOn, IsHandled
      <3>4. /\ k + 1 \in 1..Len(data.found) /\ Head(data.left) = data.found[k + 1]
            /\ \A j \in 1..((k + 1) - 1) : data.found[j] \notin Handling
        BY <1>0, <3>1, <3>3
      <3>5. CASE Head(data.left) \in Handling
        BY <3>2, <3>4, <3>5 DEF DataInv, IsHandled
      <3>6. CASE Head(data.left) \notin Handling
        <4>1. /\ Len(data'.left) = Len(data.found) - (k + 1)
              /\ \A j \in 1..Len(data'.left) : data'.left[j] = data.found[(k + 1) + j]
          <5>1. Len(Tail(data.left)) = Len(data.left) - 1
            BY <1>0, <3>1
          <5>2. \A j \in 1..Len(Tail(data.left)) : Tail(data.left)[j] = data.left[j + 1]
            BY <1>0, <3>1
          <5> QED
            BY <1>0, <3>2, <3>3, <3>6, <5>1, <5>2
        <4>2. \A j \in 1..(k + 1) : data.found[j] \notin Handling
          BY <3>3, <3>4, <3>6
        <4>3. k + 1 \in 0..Len(data'.found) /\ k + 1 # 0
          BY <3>2, <3>4
        <4>4. data'.result = data'.found[k + 1] /\ data'.found = data.found /\ data'.state = "asked"
          BY <3>2, <3>4
        <4>5. GoesOn'
          BY <4>1, <4>2, <4>3, <4>4 DEF GoesOn
        <4>6. data'.state # "none"
          BY <4>4
        <4> QED
          BY <3>2, <4>5, <4>6 DEF DataInv
      <3> QED
        BY <3>2, <3>5, <3>6
    <2>3. CASE AnswerData
      BY <2>3 DEF AnswerData, DataInv, NoData
    <2> QED
      BY <2>1, <2>2, <2>3 DEF HandleData
  <1>2. RoutesTypeOK'
    BY <1>0, <1>1 DEF RoutesTypeOK
  <1>3. MadeInv' /\ (~crossed' => Uncrossed')
    BY <1>0 DEF MadeInv, Uncrossed, ByProgram, ByStart
  <1> QED
    BY <1>1, <1>2, <1>3

-----------------------------------------------------------------------------
(* The two together. *)

\* main calls nothing of the explorer's but NewBlockExplorer and StartExplorer.
ServiceInv == ProgramInv /\ RoutesInv

\* A life begins with nothing registered.
LEMMA RoutesRestarts ==
    ASSUME RoutesRestart
    PROVE  RoutesInv'
  <1>1. /\ initURLFlag' = FALSE
        /\ e' = 0 /\ made' = 0 /\ routes' = [n \in Instances |-> {}]
        /\ at' = [g \in Goroutines |-> IF g = "web" THEN "off" ELSE "ready"]
        /\ served' = 0
        /\ dataHandlerPacks' = <<>> /\ data' = NoData
        /\ inits' = 0 /\ added' = {} /\ alone' = FALSE /\ crossed' = FALSE
    BY DEF RoutesRestart
  <1>2. at' \in [Goroutines -> GoLabels] /\ at'["program"] = "ready" /\ at'["web"] = "off"
    BY <1>1 DEF Goroutines, GoLabels
  <1>3. NoData \in [found : Seq(Packs), left : Seq(Packs), result : Packs \cup {Null},
                    state : {"none", "asked"}]
    BY DEF NoData
  <1>4. RoutesTypeOK'
    <2>1. routes' \in [Instances -> SUBSET (URLs \cup {Own})]
      BY <1>1
    <2>2. <<>> \in Seq(Packs) /\ 0 \in 0..(MaxInits + 1) /\ 0 \in 0..0 /\ 0 \in 0..MaxInits
      BY RoutesAssumption
    <2> QED
      BY <1>1, <1>2, <1>3, <2>1, <2>2 DEF RoutesTypeOK
  <1>5. Uncrossed'
    BY <1>1, <1>2 DEF Uncrossed, ByStart
  <1>6. MadeInv'
    BY <1>1, <1>2 DEF MadeInv
  <1>7. DataInv'
    BY <1>1 DEF DataInv, NoData
  <1> QED
    BY <1>4, <1>5, <1>6, <1>7 DEF RoutesInv

LEMMA ServiceStep ==
    ASSUME ServiceInv, [ServiceNext]_service
    PROVE  ServiceInv'
  <1> USE DEF ServiceInv
  <1>1. UNCHANGED program => ProgramInv'
    BY DEF program, genesis, closer, lives, ProgramInv, ProgramTypeOK, GenesisInv, MainInv
  <1>2. UNCHANGED extension => RoutesInv'
    BY DEF extension, pages, handlers, RoutesInv, RoutesTypeOK, Uncrossed, ByProgram,
           ByStart, MadeInv, DataInv, GoesOn, IsHandled
  <1>3. CASE CmdStep
    <2>1. ProgramInv'
      BY <1>3, ProgramStep DEF CmdStep
    <2>2. CASE GoStartExplorer
      <3>1. ~Panicked
        BY <2>2 DEF GoStartExplorer, Panicked, Goroutines
      <3>2. Extend
        BY <2>2 DEF Extend
      <3> QED
        BY <2>1, <3>1, <3>2, ExtendStep
    <2> QED
      BY <1>2, <1>3, <2>1, <2>2, RoutesRestarts DEF CmdStep
  <1>4. CASE CmdServes
    BY <1>1, <1>4, StartExplorerStep, HandleDataStep DEF CmdServes
  <1>5. CASE OtherProgram
    BY <1>1, <1>5, ExtendStep, StartExplorerStep, HandleDataStep DEF OtherProgram
  <1>6. CASE UNCHANGED service
    BY <1>1, <1>2, <1>6 DEF service
  <1> QED
    BY <1>3, <1>4, <1>5, <1>6 DEF ServiceNext

-----------------------------------------------------------------------------
(* Theorems. *)

LEMMA ServiceInvariant == ServiceSpec => []ServiceInv
  <1>1. ServiceInit => ServiceInv
    BY ProgramStarts, RoutesStarts DEF ServiceInit, RoutesInit, ServiceInv
  <1>2. ServiceInv /\ [ServiceNext]_service => ServiceInv'
    BY ServiceStep
  <1> QED
    BY <1>1, <1>2, PTL DEF ServiceSpec

\* The variables of the program and of the explorer's routes keep their types: the
\* generator's index stays a uint16, and an instance is made for each call of
\* InitURL and at most one for StartExplorer.
THEOREM ServiceTypeCorrect == ServiceSpec => []ServiceTypeOK
  <1>1. ServiceInv => ServiceTypeOK
    BY DEF ServiceInv, ProgramInv, RoutesInv, ServiceTypeOK
  <1> QED
    BY <1>1, ServiceInvariant, PTL

\* No account of the genesis takes the place of another, for as many as the
\* generator's index has values.
THEOREM GenesisComplete == ServiceSpec => []EveryAccountCreated
  <1>1. ServiceInv => EveryAccountCreated
    <2> SUFFICES ASSUME ServiceInv, NEW n \in 0..(created - 1)
                 PROVE  n \in DOMAIN accounts /\ accounts[n] = n
      BY DEF EveryAccountCreated
    <2> QED
      BY DEF ServiceInv, ProgramInv, GenesisInv
  <1> QED
    BY <1>1, ServiceInvariant, PTL

\* Whatever fails while main sets the parts up, and whenever a signal comes, a main
\* that returns or panics leaves nothing open but the explorer's database, and one
\* that exits leaves nothing; neither the first start nor one after a main that
\* returned is asked whether to recover the store.
THEOREM ExitsClean == ServiceSpec => []CleanExit
  <1>1. ServiceInv => CleanExit
    BY DEF ServiceInv, ProgramInv, MainInv, CleanExit
  <1> QED
    BY <1>1, ServiceInvariant, PTL

\* The pages and the data handlers a program adds take part in the explorer.
THEOREM ExtensionsTakePart == ServiceSpec => []ExtensionsServed
  <1>1. ServiceInv => PagesServed
    <2> SUFFICES ASSUME ServiceInv, ~crossed
                 PROVE  /\ at["web"] = "serving" => {Own} \cup added \subseteq routes[served]
                        /\ at["web"] # "panicked"
                        /\ at["program"] = "panicked" => inits = 0
      BY DEF PagesServed
    <2>1. Uncrossed /\ inits \in Nat
      BY RoutesAssumption DEF ServiceInv, RoutesInv, RoutesTypeOK
    <2>2. CASE inits > 0
      BY <2>1, <2>2 DEF Uncrossed, ByProgram
    <2>3. CASE inits = 0
      BY <2>1, <2>3 DEF Uncrossed, ByStart
    <2> QED
      BY <2>1, <2>2, <2>3
  <1>2. ServiceInv => DataAnswered
    <2> SUFFICES ASSUME ServiceInv, data.state = "asked", data.left = <<>>
                 PROVE  DataAnswered
      BY DEF DataAnswered
    <2> DEFINE n == Len(data.found)
    <2>0. n \in Nat /\ Len(data.left) = 0
      BY DEF ServiceInv, RoutesInv, RoutesTypeOK
    <2>1. CASE \E k \in 1..n :
                 /\ data.found[k] \in Handling
                 /\ \A j \in 1..(k - 1) : data.found[j] \notin Handling
                 /\ data.result = data.found[k]
      BY <2>1 DEF DataAnswered
    <2>2. CASE /\ \A j \in 1..n : data.found[j] \notin Handling
               /\ data.result = IF n = 0 THEN Null ELSE data.found[n]
      BY <2>0, <2>2 DEF DataAnswered
    <2> QED
      BY <2>0, <2>1, <2>2 DEF ServiceInv, RoutesInv, DataInv, GoesOn, IsHandled
  <1> QED
    BY <1>1, <1>2, ServiceInvariant, PTL DEF ExtensionsServed
=============================================================================
