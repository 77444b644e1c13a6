---------------------------- MODULE TemplateSet ----------------------------
(***************************************************************************)
(* What a request can rely on in the templates it renders from, whoever    *)
(* rebuilds them and however requests, events and edits interleave: the    *)
(* set is replaced as a whole and in one go.  It is emptied only when it   *)
(* was complete and a change was noticed, read from one layout, filled     *)
(* with one template for every page, each from the file as it is at that   *)
(* moment, and complete before it can be replaced again.  A set that was   *)
(* given up, since a file does not parse or the process died, stays as it  *)
(* is.  Goroutines, the mutex and the watcher's channel do not exist here. *)
(***************************************************************************)
EXTENDS Naturals

CONSTANTS Pages,    \* pages, one template each
          Layout,   \* the file every template includes
          Files,    \* all files, these among them
          Versions  \* contents a file may have

VARIABLES disk,      \* what each file holds
          noticed,   \* a change was noticed that no rebuild has taken
          stage,     \* "empty", "filling", "complete" or "dead"
          layout,    \* the layout of the set being filled, else 0
          templates  \* by page, the templates that are there

vars == <<disk, noticed, stage, layout, templates>>

Nothing == [p \in {} |-> 0]

Init ==
    /\ disk = [f \in Files |-> 0] /\ noticed = FALSE
    /\ stage = "empty" /\ layout = 0 /\ templates = Nothing

Change ==
    /\ disk' \in [Files -> Versions]
    /\ UNCHANGED <<noticed, stage, layout, templates>>

Notice ==
    /\ noticed' = TRUE
    /\ UNCHANGED <<disk, stage, layout, templates>>

Empty ==
    /\ stage = "complete" /\ noticed
    /\ stage' = "empty" /\ templates' = Nothing
    /\ UNCHANGED <<disk, noticed, layout>>

ReadLayout ==
    /\ stage = "empty"
    /\ stage' = "filling" /\ layout' = disk[Layout]
    /\ UNCHANGED <<disk, noticed, templates>>

Add(p) ==
    /\ stage = "filling" /\ p \notin DOMAIN templates
    /\ templates' = [q \in DOMAIN templates \cup {p} |->
                        IF q = p THEN [layout |-> layout, page |-> disk[p]]
                                 ELSE templates[q]]
    /\ UNCHANGED <<disk, noticed, stage, layout>>

\* The first set leaves a change that was noticed meanwhile to the next one.
Complete ==
    /\ stage = "filling" /\ DOMAIN templates = Pages
    /\ stage' = "complete" /\ layout' = 0
    /\ noticed' \in {noticed, FALSE}
    /\ UNCHANGED <<disk, templates>>

\* For ever, and only while the set is being filled.
GiveUp ==
    /\ stage = "filling"
    /\ stage' = "dead" /\ layout' = 0
    /\ UNCHANGED <<disk, noticed, templates>>

Next == \/ Change \/ Notice \/ Empty \/ ReadLayout \/ Complete \/ GiveUp
        \/ \E p \in Pages : Add(p)

Spec == Init /\ [][Next]_vars

-----------------------------------------------------------------------------
\* All templates of a set come from the same layout.
OneLayout == \A p, q \in DOMAIN templates : templates[p].layout = templates[q].layout

\* Why: the ones already there come from the layout the set was begun with.
Begun ==
    /\ OneLayout
    /\ stage = "empty" => DOMAIN templates = {}
    /\ stage = "filling" => \A p \in DOMAIN templates : templates[p].layout = layout
=============================================================================
