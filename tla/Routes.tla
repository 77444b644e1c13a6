------------------------------- MODULE Routes -------------------------------
(***************************************************************************)
(* The explorer as a library (src/block_explorer.go): a program makes a    *)
(* BlockExplorer, may prepare it with InitURL and add pages of its own     *)
(* with AddURL, and starts StartExplorer in a goroutine, which prepares    *)
(* what was not prepared and serves.  InitURL raises a flag, puts a new    *)
(* echo instance in place and registers the explorer's pages in it, all    *)
(* without a lock.  Requests under /data/ with a name the explorer does    *)
(* not know are passed to the handlers the program added, in their order.  *)
(*                                                                         *)
(* AddURL with a method it does not know does nothing and is left out.     *)
(***************************************************************************)
EXTENDS Naturals, Sequences

CONSTANTS URLs,     \* the pages a program adds
          Own,      \* stands for the explorer's pages
          Packs,    \* the data handlers a program adds
          Handling, \* those that handle the request, the others return an error
          Null,     \* the answer without any
          MaxInits  \* bound: calls of InitURL by the program

ASSUME RoutesAssumption ==
    Own \notin URLs /\ Handling \subseteq Packs /\ Null \notin Packs /\ MaxInits \in Nat

VARIABLES
    initURLFlag,
    e,      \* the echo instance in place, by number, 0 for none
    made,   \* how many there are
    routes, \* routes[n]: what is registered in instance n
    at,     \* where the program's goroutine and StartExplorer's are
    served, \* the instance StartExplorer serves
    dataHandlerPacks,
    data,   \* a request: the handlers it found, those left, and the result so far
    (* read by the properties and the bounds only *)
    inits,  \* calls of InitURL by the program
    added,  \* pages added since the last of them
    alone,  \* StartExplorer was started without such a call
    crossed \* a call of the program came while StartExplorer was preparing

pages     == <<initURLFlag, e, made, routes, at, served, inits, added, alone,
               crossed>>
handlers  == <<dataHandlerPacks, data>>
extension == <<pages, handlers>>

Instances  == 1..(MaxInits + 1)
Goroutines == {"program", "web"}

\* StartExplorer, from its start until it serves.
Starting == at["web"] \in {"check", "flag", "new", "register", "serve"}
Panicked == \E g \in Goroutines : at[g] = "panicked"

NoData == [found |-> <<>>, left |-> <<>>, result |-> Null, state |-> "none"]

RoutesInit ==
    /\ initURLFlag = FALSE
    /\ e = 0 /\ made = 0 /\ routes = [n \in Instances |-> {}]
    /\ at = [g \in Goroutines |-> IF g = "web" THEN "off" ELSE "ready"]
    /\ served = 0
    /\ dataHandlerPacks = <<>> /\ data = NoData
    /\ inits = 0 /\ added = {} /\ alone = FALSE /\ crossed = FALSE

\* The process is started anew.
RoutesRestart ==
    /\ initURLFlag' = FALSE
    /\ e' = 0 /\ made' = 0 /\ routes' = [n \in Instances |-> {}]
    /\ at' = [g \in Goroutines |-> IF g = "web" THEN "off" ELSE "ready"]
    /\ served' = 0
    /\ dataHandlerPacks' = <<>> /\ data' = NoData
    /\ inits' = 0 /\ added' = {} /\ alone' = FALSE /\ crossed' = FALSE

Goto(g, label) == at' = [at EXCEPT ![g] = label]

-----------------------------------------------------------------------------
(* InitURL, in either goroutine. *)

SetFlag(g) ==
    /\ at[g] = "flag"
    /\ initURLFlag' = TRUE
    /\ Goto(g, "new")
    /\ UNCHANGED <<e, made, routes, served, inits, added, alone, crossed,
                   handlers>>

NewEcho(g) ==
    /\ at[g] = "new"
    /\ made' = made + 1
    /\ e' = made'
    /\ Goto(g, "register")
    /\ UNCHANGED <<initURLFlag, routes, served, inits, added, alone,
                   crossed, handlers>>

\* Into the instance in place by now.
RegisterOwn(g) ==
    /\ at[g] = "register"
    /\ routes' = [routes EXCEPT ![e] = @ \cup {Own}]
    /\ Goto(g, IF g = "web" THEN "serve" ELSE "ready")
    /\ UNCHANGED <<initURLFlag, e, made, served, inits, added, alone,
                   crossed, handlers>>

InitURL(g) == SetFlag(g) \/ NewEcho(g) \/ RegisterOwn(g)

-----------------------------------------------------------------------------
(* The program's calls. *)

CallInitURL ==
    /\ at["program"] = "ready"
    /\ inits < MaxInits
    /\ inits' = inits + 1
    /\ added' = {}
    /\ crossed' = (crossed \/ at["web"] # "off")
    /\ Goto("program", "flag")
    /\ UNCHANGED <<initURLFlag, e, made, routes, served, alone, handlers>>

\* Without an instance in place the call panics.
AddURL(url) ==
    /\ at["program"] = "ready"
    /\ IF e = 0
       THEN Goto("program", "panicked") /\ UNCHANGED routes
       ELSE routes' = [routes EXCEPT ![e] = @ \cup {url}] /\ UNCHANGED at
    /\ added' = added \cup {url}
    /\ crossed' = (crossed \/ (alone /\ Starting))
    /\ UNCHANGED <<initURLFlag, e, made, served, inits, alone, handlers>>

GoStartExplorer ==
    /\ at["program"] = "ready" /\ at["web"] = "off"
    /\ Goto("web", "check")
    /\ alone' = (inits = 0)
    /\ UNCHANGED <<initURLFlag, e, made, routes, served, inits, added,
                   crossed, handlers>>

-----------------------------------------------------------------------------
(* StartExplorer. *)

\* What StartExplorer begins with; slip: it always prepares.
SlipFirstStep == "flag"
FirstStep     == IF initURLFlag THEN "serve" ELSE "flag"

CheckFlag ==
    /\ at["web"] = "check"
    /\ Goto("web", FirstStep)
    /\ UNCHANGED <<initURLFlag, e, made, routes, served, inits, added,
                   alone, crossed, handlers>>

\* The port may be taken; that error is dropped.
Serve ==
    /\ at["web"] = "serve"
    /\ \/ e # 0 /\ Goto("web", "serving") /\ served' = e
       \/ e # 0 /\ Goto("web", "failed") /\ UNCHANGED served
       \/ e = 0 /\ Goto("web", "panicked") /\ UNCHANGED served
    /\ UNCHANGED <<initURLFlag, e, made, routes, inits, added, alone,
                   crossed, handlers>>

StartExplorer == CheckFlag \/ InitURL("web") \/ Serve

-----------------------------------------------------------------------------
(* dataHandler. *)

AddDataHandler(pack) ==
    /\ at["program"] = "ready"
    /\ pack \notin {dataHandlerPacks[k] : k \in DOMAIN dataHandlerPacks}
    /\ dataHandlerPacks' = Append(dataHandlerPacks, pack)
    /\ UNCHANGED <<pages, data>>

\* The loop ranges over the handlers there are when it begins.
AskData ==
    /\ at["web"] = "serving" /\ data.state = "none"
    /\ data' = [found |-> dataHandlerPacks, left |-> dataHandlerPacks,
                result |-> Null, state |-> "asked"]
    /\ UNCHANGED <<pages, dataHandlerPacks>>

\* A handler's result is kept even when an error comes with it.
AskPack ==
    /\ data.left # <<>>
    /\ LET pack == Head(data.left)
       IN  data' = [data EXCEPT !.result = pack,
                        !.left = IF pack \in Handling THEN <<>> ELSE Tail(@)]
    /\ UNCHANGED <<pages, dataHandlerPacks>>

AnswerData ==
    /\ data.state = "asked" /\ data.left = <<>>
    /\ data' = NoData
    /\ UNCHANGED <<pages, dataHandlerPacks>>

HandleData == AskData \/ AskPack \/ AnswerData

Extend == \/ CallInitURL \/ InitURL("program")
          \/ (\E url \in URLs : AddURL(url)) \/ GoStartExplorer
          \/ \E pack \in Packs : AddDataHandler(pack)

RoutesSpec ==
    RoutesInit /\ [][~Panicked /\ (Extend \/ StartExplorer \/ HandleData)]_extension

-----------------------------------------------------------------------------
(* Properties. *)

GoLabels == {"off", "ready", "check", "flag", "new", "register", "serve",
             "serving", "failed", "panicked"}

\* The type invariant.
RoutesTypeOK ==
    /\ initURLFlag \in BOOLEAN
    /\ made \in 0..(MaxInits + 1) /\ e \in 0..made /\ served \in 0..made
    /\ routes \in [Instances -> SUBSET (URLs \cup {Own})]
    /\ at \in [Goroutines -> GoLabels]
    /\ dataHandlerPacks \in Seq(Packs)
    /\ data \in [found : Seq(Packs), left : Seq(Packs), result : Packs \cup {Null},
                 state : {"none", "asked"}]
    /\ inits \in 0..MaxInits /\ added \subseteq URLs
    /\ alone \in BOOLEAN /\ crossed \in BOOLEAN

\* What a program adds after it called InitURL is served, with the explorer's own
\* pages, whether it comes before StartExplorer is started, while that starts, or
\* later; and StartExplorer has something to serve.  For it to find its flag raised
\* is what this rests on, and a program that calls in while StartExplorer prepares
\* by itself, or calls InitURL once it is started, loses that.
PagesServed ==
    ~crossed =>
        /\ at["web"] = "serving" => {Own} \cup added \subseteq routes[served]
        /\ at["web"] # "panicked"
        /\ at["program"] = "panicked" => inits = 0

\* The answer is that of the first handler that handles the request, of those added
\* before it came; when none does, it is what the last one returned besides its
\* error, with status 200.
DataAnswered ==
    LET n     == Len(data.found)
        First == {k \in 1..n : data.found[k] \in Handling
                             /\ \A j \in 1..(k - 1) : data.found[j] \notin Handling}
    IN  data.state = "asked" /\ data.left = <<>> =>
            \/ n = 0 /\ data.result = Null
            \/ First = {} /\ n > 0 /\ data.result = data.found[n]
            \/ \E k \in First : data.result = data.found[k]

\* What a program adds to the explorer takes part in it.
ExtensionsServed == PagesServed /\ DataAnswered
=============================================================================
