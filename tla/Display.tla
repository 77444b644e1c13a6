------------------------------ MODULE Display ------------------------------
(***************************************************************************)
(* A request for /data/currentChainInfo.data (dataHandler of               *)
(* src/block_explorer.go) next to the constructor and the updater of       *)
(* BlockExplorer.  The handler copies the struct that a round is writing,  *)
(* and neither takes a lock: the height and the total of an answer are     *)
(* read one after the other, while rounds go on.  A word is read in one    *)
(* piece; which of the two comes first is up to the compiler.              *)
(***************************************************************************)
EXTENDS BlockExplorer

CONSTANT MaxSetbacks \* bound: failures and crashes before a request

ASSUME SetbacksAssumption == MaxSetbacks \in Nat

VARIABLES
    copy,      \* the field the request has copied, none between two requests
    overtaken  \* what the updater has done since then: "nothing", it has
               \* "begun" another round, or finished that as well ("round")

request    == <<copy, overtaken>>
allVars    == <<vars, request>>

\* The members of the struct that an answer shows.
Fields == {"Blocks", "Transactions"}

CurrentChainInfo == [Blocks |-> Blocks, Transactions |-> Transactions]

NoRequest == copy = <<>> /\ overtaken = "nothing"

DisplayInit == Init /\ NoRequest

-----------------------------------------------------------------------------
\* The handler reads its first field.  It is served once the constructor is done.
CopyFirst(f) ==
    /\ pc \notin {"load", "down"}
    /\ copy = <<>>
    /\ faults + crashes <= MaxSetbacks
    /\ copy' = [g \in {f} |-> CurrentChainInfo[g]]
    /\ UNCHANGED <<vars, overtaken>>

\* The answer, when its last field f is read now.
Shown(f) == [g \in Fields |-> IF g = f THEN CurrentChainInfo[g] ELSE copy[g]]

\* The handler reads the other field and answers.
Answer(f) ==
    /\ copy # <<>>
    /\ f \notin DOMAIN copy
    /\ copy' = <<>> /\ overtaken' = "nothing"
    /\ UNCHANGED vars

\* Where a step of the updater leaves a request that is half copied.
Progress ==
    CASE copy # <<>> /\ overtaken = "nothing" /\ Begin -> "begun"
      [] copy # <<>> /\ overtaken = "begun" /\ Finish  -> "round"
      [] OTHER                                         -> overtaken

Run ==
    /\ Grow \/ Start \/ Load \/ Update
    /\ copy' = copy /\ overtaken' = Progress

\* The request dies with the process.
Die == Crash /\ copy' = <<>> /\ overtaken' = "nothing"

DisplayNext ==
    \/ Run
    \/ Die
    \/ \E f \in Fields : CopyFirst(f) \/ Answer(f)

\* The Go scheduler runs the constructor and the updater's goroutine; nothing
\* promises that the chain grows, that a dead process is started again, or that
\* somebody asks.
Fairness == WF_vars(Load) /\ WF_vars(Update)

DisplaySpec == DisplayInit /\ [][DisplayNext]_allVars /\ Fairness

-----------------------------------------------------------------------------
(* Property. *)

\* The last field of a request is the total, and a whole round (the height at
\* line 207 to the total at line 286) went by after the height was read.
RoundBetween(f) == f = "Transactions" /\ overtaken = "round"

\* What one answer of /data/currentChainInfo.data shows, its two fields read at
\* two moments and in either order: a round writes the height first and the total
\* last, so the total an answer shows is never more than the blocks it shows hold,
\* unless a whole round went by between the two reads.  Then it is ahead of the
\* height next to it, but still no more than what the height by now holds.
ShownTogether ==
    [][\A f \in Fields : ~rewound /\ Answer(f) =>
           /\ Shown(f).Transactions <= TxsUpTo[Even(Blocks)]
           /\ \/ Shown(f).Transactions <= TxsUpTo[Even(Shown(f).Blocks)]
              \/ RoundBetween(f)]_allVars
=============================================================================
