------------------------------- MODULE Program -------------------------------
(***************************************************************************)
(* The program of the repository, src/cmd: main makes the accounts of the  *)
(* genesis, opens the kernel's store, which after a crash may ask the user *)
(* whether to recover it, and on it the kernel, the explorer, the node and *)
(* the RPC server, each in turn the one thing the closer manager knows of. *)
(* A signal closes what the manager knows of, and so does the end of main, *)
(* by return or by panic.                                                  *)
(*                                                                         *)
(* The closer manager, the kernel, the node and the RPC server are used as *)
(* a library.  CloseAll is taken to close what is registered when it runs, *)
(* which closes what it was built on, and to do so again for what was      *)
(* added since when it is called a second time, as after a signal the end  *)
(* of main does.  Wait is taken to return once CloseAll has run.           *)
(***************************************************************************)
EXTENDS Naturals, Sequences

CONSTANTS Formulators,  \* 36 in the code
          TestAccounts, \* 20000 in the code
          Word16,       \* 65536 in the code: a coordinate's index is a uint16
          MaxStarts     \* bound: starts of the program

ASSUME GenesisAssumption ==
    /\ Formulators \in Nat /\ TestAccounts \in Nat /\ Word16 \in Nat
    /\ MaxStarts \in Nat
    /\ 1 + Formulators + TestAccounts <= Word16

VARIABLES
    idx,        \* accCoordGenerator.idx
    accounts,   \* CreatedAccountMap: coordinate index -> account number
    created,    \* accounts made so far
    (* main and its other goroutines *)
    pc,         \* the statement main is at
    open,       \* what is open
    registered, \* what the closer manager knows of
    closed,     \* CloseAll has run
    signal,     \* "none", "sent" to the process, or "taken" by the goroutine
    ended,      \* how the process ended, or "no"
    (* between two lives of the process *)
    ForceRecover, \* of config.toml
    dirty,        \* the store on disk was left without being closed
    last,         \* how the life before ended
    starts        \* lives so far; for the bound only

genesis == <<idx, accounts, created>>
closer  == <<registered, closed>>
lives   == <<ForceRecover, dirty, last, starts>>
program == <<genesis, pc, open, closer, signal, ended, lives>>

-----------------------------------------------------------------------------
(* The statements of main in their order, by what they do to the manager.     *)

\* The statement after each; slip: the store is dropped before the kernel has it.
SlipAfter ==
    [store |-> "addStore", ask |-> "addStore", addStore |-> "dropStore",
     dropStore |-> "kernel", kernel |-> "addKernel", addKernel |-> "explorer",
     explorer |-> "node", node |-> "dropKernel", dropKernel |-> "addNode",
     addNode |-> "rpc", rpc |-> "dropNode", dropNode |-> "addRpc",
     addRpc |-> "addNodeToo", addNodeToo |-> "wait"]
After ==
    [store |-> "addStore", ask |-> "addStore", addStore |-> "kernel",
     kernel |-> "dropStore", dropStore |-> "addKernel", addKernel |-> "explorer",
     explorer |-> "node", node |-> "dropKernel", dropKernel |-> "addNode",
     addNode |-> "rpc", rpc |-> "dropNode", dropNode |-> "addRpc",
     addRpc |-> "addNodeToo", addNodeToo |-> "wait"]

\* What a statement opens, or registers.
Opens == [store |-> "store", ask |-> "store", kernel |-> "kernel",
          explorer |-> "db", node |-> "node", rpc |-> "rpc"]
Adds  == [addStore |-> "store", addKernel |-> "kernel", addNode |-> "node",
          addRpc |-> "rpc", addNodeToo |-> "node"]
Drops == {"dropStore", "dropKernel", "dropNode"}

\* Closing a part closes what it was built on.
BuiltOn == [store |-> {"store"}, kernel |-> {"kernel", "store"},
            node |-> {"node", "kernel", "store"}, rpc |-> {"rpc"}]
Closes(parts) == UNION {BuiltOn[x] : x \in parts}

ProgramInit ==
    /\ idx = 0 /\ accounts = <<>> /\ created = 0
    /\ pc = "genesis"
    /\ open = {} /\ registered = {} /\ closed = FALSE
    /\ signal = "none" /\ ended = "no"
    /\ ForceRecover \in BOOLEAN /\ dirty = FALSE /\ last = "none" /\ starts = 1

-----------------------------------------------------------------------------
(* initGenesisContextData. *)

\* CreatedAccountMap is keyed by address: a second account at an address would
\* take the place of the first.
Create(at) ==
    /\ accounts' = [c \in DOMAIN accounts \cup {at} |->
                       IF c = at THEN created ELSE accounts[c]]
    /\ created' = created + 1

\* The generator's index after n coordinates, a uint16.
Index(n) == (idx + n) % Word16

\* The coordinates the formulators' addresses have, passed over by the generator;
\* slip: one too few.
SlipPassedOver == IF Formulators = 0 THEN 0 ELSE Formulators - 1
PassedOver     == Formulators

Genesis ==
    /\ pc = "genesis"
    /\ \/ /\ created = 0
          /\ Create(idx)
          /\ idx' = Index(1)
          /\ UNCHANGED pc
       \/ \* the addresses of the formulators are given, with coordinates 1, 2, ...
          /\ created \in 1..Formulators
          /\ Create(created)
          /\ idx' = IF created = Formulators THEN Index(PassedOver) ELSE idx
          /\ UNCHANGED pc
       \/ /\ created \in (Formulators + 1)..(Formulators + TestAccounts)
          /\ Create(idx)
          /\ idx' = Index(1)
          /\ UNCHANGED pc
       \/ /\ created = 1 + Formulators + TestAccounts
          /\ pc' = "store"
          /\ UNCHANGED genesis
    /\ UNCHANGED <<open, closer, signal, ended, lives>>

-----------------------------------------------------------------------------
(* main.  A panic, as a return, runs the deferred CloseAll. *)

CloseAll ==
    /\ open' = open \ Closes(registered)
    /\ closed' = TRUE
    /\ UNCHANGED registered

End(how) ==
    /\ ended' = how
    /\ CloseAll
    /\ UNCHANGED <<genesis, pc, signal, lives>>

Step == pc' = After[pc] /\ UNCHANGED <<genesis, signal, ended>>

\* NewStore without ForceRecover finds a store that was not closed.
NeedsTruncate ==
    /\ pc = "store"
    /\ dirty /\ ~ForceRecover
    /\ pc' = "ask"
    /\ UNCHANGED <<genesis, open, closer, signal, ended, lives>>

\* The user does not want it recovered: os.Exit runs nothing that was deferred.
AnswerNo ==
    /\ pc = "ask"
    /\ ended' = "exit"
    /\ UNCHANGED <<genesis, pc, open, closer, signal, lives>>

\* A constructor.  An open store is in order again, recovered if need be; a
\* recovery may fail, as every constructor but the RPC manager's.
Opened ==
    /\ pc = "store" /\ dirty => ForceRecover
    /\ open' = open \cup {Opens[pc]}
    /\ dirty' = (dirty /\ pc \notin {"store", "ask"})
    /\ Step
    /\ UNCHANGED <<closer, ForceRecover, last, starts>>

New == pc \in DOMAIN Opens /\ (Opened \/ (pc # "rpc" /\ End("panic")))

Add ==
    /\ pc \in DOMAIN Adds
    /\ registered' = registered \cup {Adds[pc]}
    /\ Step
    /\ UNCHANGED <<open, closed, lives>>

RemoveAll ==
    /\ pc \in Drops
    /\ registered' = {}
    /\ Step
    /\ UNCHANGED <<open, closed, lives>>

Wait == pc = "wait" /\ closed /\ End("return")

-----------------------------------------------------------------------------
(* The other goroutines. *)

SendSignal ==
    /\ signal = "none"
    /\ pc # "genesis"
    /\ signal' = "sent"
    /\ UNCHANGED <<genesis, pc, open, closer, ended, lives>>

\* The goroutine takes one signal; slip: it forgets what was registered.
SlipOnSignal == registered' = {} /\ UNCHANGED <<open, closed>>
OnSignal     == CloseAll

TakeSignal ==
    /\ signal = "sent"
    /\ signal' = "taken"
    /\ OnSignal
    /\ UNCHANGED <<genesis, pc, ended, lives>>

\* rm.Run fails, for other reasons than that it was closed, and panics in its own
\* goroutine: the process ends, and nothing that main deferred runs.
RpcPanics ==
    /\ pc = "wait"
    /\ "rpc" \in open
    /\ ended' = "killed"
    /\ UNCHANGED <<genesis, pc, open, closer, signal, lives>>

\* The process is killed from outside.
Kill ==
    /\ pc # "genesis"
    /\ ended' = "killed"
    /\ UNCHANGED <<genesis, pc, open, closer, signal, lives>>

\* The program is started again.
StartAgain ==
    /\ ended # "no"
    /\ starts < MaxStarts
    /\ starts' = starts + 1
    /\ dirty' = (dirty \/ "store" \in open)
    /\ last' = ended
    /\ idx' = 0 /\ accounts' = <<>> /\ created' = 0
    /\ pc' = "genesis"
    /\ open' = {} /\ registered' = {} /\ closed' = FALSE
    /\ signal' = "none" /\ ended' = "no"
    /\ UNCHANGED ForceRecover

Main == Genesis \/ NeedsTruncate \/ AnswerNo \/ New \/ Add \/ RemoveAll \/ Wait

ProgramNext ==
    \/ ended = "no" /\ (Main \/ SendSignal \/ TakeSignal \/ RpcPanics \/ Kill)
    \/ StartAgain

\* main and the goroutine of the signal are scheduled; the user need not answer.
Running == ended = "no" /\ pc # "ask" /\ Main
ProgramSpec ==
    /\ ProgramInit /\ [][ProgramNext]_program
    /\ WF_program(Running) /\ WF_program(ended = "no" /\ TakeSignal)

-----------------------------------------------------------------------------
(* Properties. *)

Parts   == {"store", "kernel", "db", "node", "rpc"}
Numbers == 0..(Formulators + TestAccounts)

\* The type invariant.
ProgramTypeOK ==
    /\ idx \in 0..(Word16 - 1)
    /\ DOMAIN accounts \subseteq 0..(Word16 - 1)
    /\ \A c \in DOMAIN accounts : accounts[c] \in Numbers
    /\ created \in 0..(1 + Formulators + TestAccounts)
    /\ pc \in {"genesis", "wait"} \cup DOMAIN After
    /\ open \subseteq Parts /\ registered \subseteq Parts \ {"db"}
    /\ closed \in BOOLEAN
    /\ signal \in {"none", "sent", "taken"}
    /\ ended \in {"no", "return", "panic", "exit", "killed"}
    /\ ForceRecover \in BOOLEAN /\ dirty \in BOOLEAN
    /\ last \in {"none", "return", "panic", "exit", "killed"} /\ starts \in Nat

\* Every account the genesis makes is in it: the generator, whose index is a
\* uint16, never comes to an address that a formulator or an account before has.
EveryAccountCreated ==
    \A n \in 0..(created - 1) : \E c \in DOMAIN accounts : accounts[c] = n

\* When main has ended by return or panic, everything it opened is closed, apart
\* from the explorer's database, which nothing closes: wherever a constructor
\* failed or a signal closed what was registered at that moment, between taking a
\* part off the manager and putting its successor on included.  os.Exit closes
\* nothing, and has nothing to close.  So it takes a kill to leave the store
\* unclosed; from then on every start asks whether to recover it, also one after
\* a no or after a recovery that failed and panicked, until a recovery succeeds:
\* neither the first start nor one after a main that returned is asked.
CleanExit ==
    /\ ended \in {"return", "panic"} => open \subseteq {"db"}
    /\ ended = "exit" => open = {}
    /\ pc = "ask" => last \notin {"none", "return"}

\* A signal ends the program, however early it comes, unless the program is at
\* the question, where it does not notice; once that is answered it ends, too.
SignalEndsProgram ==
    (signal # "none" /\ pc # "ask") ~> (ended # "no" \/ pc = "ask")
=============================================================================
