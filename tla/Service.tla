------------------------------- MODULE Service -------------------------------
(***************************************************************************)
(* The two ways the explorer is used: by the program of the repository,    *)
(* module Program, whose main starts StartExplorer of module Routes in a   *)
(* goroutine once it has the explorer, and calls nothing else of it; and   *)
(* by another program, of which only the calls it makes are known.         *)
(***************************************************************************)
EXTENDS Program, Routes

VARIABLE embedder \* "cmd" or "other"

service == <<program, extension, embedder>>

ServiceInit ==
    ProgramInit /\ RoutesInit /\ embedder \in {"cmd", "other"}

\* NewBlockExplorer and "go be.StartExplorer(cfg.ExplorerPort)" come together.
CmdStep ==
    /\ embedder = "cmd" /\ ProgramNext
    /\ IF starts' # starts THEN RoutesRestart
       ELSE IF pc = "explorer" /\ pc' = After[pc] THEN GoStartExplorer
       ELSE UNCHANGED extension
    /\ UNCHANGED embedder

CmdServes ==
    /\ embedder = "cmd" /\ ended = "no"
    /\ StartExplorer \/ HandleData
    /\ UNCHANGED <<program, embedder>>

OtherProgram ==
    /\ embedder = "other" /\ ~Panicked
    /\ Extend \/ StartExplorer \/ HandleData
    /\ UNCHANGED <<program, embedder>>

ServiceNext == CmdStep \/ CmdServes \/ OtherProgram

ServiceSpec ==
    /\ ServiceInit /\ [][ServiceNext]_service
    /\ WF_program(embedder = "cmd" /\ Running)
    /\ WF_program(embedder = "cmd" /\ ended = "no" /\ TakeSignal)

\* The type invariant.
ServiceTypeOK == ProgramTypeOK /\ RoutesTypeOK
=============================================================================
