----------------------------- MODULE WebServer -----------------------------
(***************************************************************************)
(* The page templates of the explorer's web server (src/web_server.go) and *)
(* the watcher of the directory they come from (src/watcher.go).           *)
(*                                                                         *)
(* A change of a file becomes an event in a channel of one slot; the       *)
(* watcher's goroutine takes it, ignores it when the modification time is  *)
(* the one it saw last, and otherwise raises isRequireReload.  The next    *)
(* request rebuilds all templates under a mutex, in place: the map is      *)
(* emptied first and filled page by page, while other requests may render  *)
(* from it without the mutex.  A template that does not parse panics with  *)
(* the mutex held; net/http recovers the panic and ends that request only. *)
(*                                                                         *)
(* A file's content is the number of the edit that wrote it; 0 is the copy *)
(* built into the program, read while the file is not on disk.             *)
(***************************************************************************)
EXTENDS Naturals, Sequences, FiniteSets

CONSTANTS Handlers,   \* goroutines that serve requests
          Main,       \* the goroutine that runs NewWebServer
          Pages,      \* files under pages/, one template each
          Layout,     \* the files under layout/, which every template includes
          Others,     \* files whose extension does not start with .htm
          MaxEdits,   \* bound: edits of files
          MaxRemovals, \* bound: removals of files
          BrokenEdits \* the edits that leave a file which does not parse

ASSUME NamesAssumption ==
    /\ Main \notin Handlers
    /\ Layout \notin Pages
    /\ Others \cap (Pages \cup {Layout}) = {}
ASSUME EditsAssumption ==
    MaxEdits \in Nat /\ MaxRemovals \in Nat /\ BrokenEdits \subseteq 1..MaxEdits

VARIABLES
    (* the directory *)
    edits, removals,  \* how many there were; the first is the clock as well
    disk,             \* disk[f]: the edit that wrote file f, 0 when it is absent
    mtime,            \* mtime[f]: its modification time
    (* the watcher *)
    hasWatch,         \* the directory existed when the program started
    watching,         \* notify.Watch has returned
    queue,            \* the channel, of capacity one
    received,         \* the event taken from it and not looked at yet
    timeCache,        \* timeCache[f]: modification time seen last, 0 for none
    (* the web server *)
    isRequireReload,
    locked,           \* web.Mutex
    templates,        \* by page, only those built so far
    (* its goroutines *)
    pc, layoutData, todo,
    (* what happened so far; read by the properties only *)
    missed,           \* files changed in a way that no reload will notice
    during,           \* files flagged since the running rebuild read them
    poisoned,         \* a rebuild panicked with the mutex held
    down              \* the runtime killed the process

dir     == <<edits, removals, disk, mtime>>
watcher == <<watching, queue, received, timeCache>>
threads == <<pc, layoutData, todo>>
history == <<missed, during, poisoned, down>>
vars    == <<dir, hasWatch, watcher, isRequireReload, locked, templates,
             threads, history>>

Builders  == Handlers \cup {Main}
Templated == Pages \cup {Layout}
Files     == Templated \cup Others

-----------------------------------------------------------------------------
(* The choices a run needs a slip (Slip...) for. *)

\* The channel after an event of f: notify drops what does not fit; slip: it waits.
SlipQueued(f) == Append(queue, f)
Queued(f)     == IF queue = <<>> THEN <<f>> ELSE queue

\* isEnable of the watcher; slip: false until a time is in the cache.
SlipIsEnable(f) == timeCache[f] \notin {0, mtime[f]}
IsEnable(f)     == timeCache[f] # mtime[f]

\* When web.Lock() returns; slip: at once.
SlipMayLock == TRUE
MayLock     == ~locked

\* What UpdateRender begins with.
Cleared == [p \in {} |-> 0]

\* The loop over pages/ ends; slip: one page early.
SlipAllBuilt(b) == Cardinality(todo[b]) <= 1
AllBuilt(b)     == todo[b] = {}

\* Where a request goes that finds the reload done; slip: past the unlock.
SlipAfterRecheck == "render"
AfterRecheck     == "unlock"

Init ==
    /\ edits = 0 /\ removals = 0
    /\ disk = [f \in Files |-> 0] /\ mtime = [f \in Files |-> 0]
    /\ hasWatch \in BOOLEAN /\ watching = FALSE
    /\ queue = <<>> /\ received = <<>>
    /\ timeCache = [f \in Files |-> 0]
    /\ isRequireReload = FALSE /\ locked = FALSE
    /\ templates = [p \in {} |-> 0]
    /\ pc = [b \in Builders |-> IF b = Main THEN "layout" ELSE "idle"]
    /\ layoutData = [b \in Builders |-> 0] /\ todo = [b \in Builders |-> {}]
    /\ missed = {} /\ during = {} /\ poisoned = FALSE /\ down = FALSE

-----------------------------------------------------------------------------
(* The directory.  An edit within one tick of the file system's clock leaves *)
(* the modification time as it is.                                           *)

\* The event of a change of f is sent, or lost with what it had to tell.
Send(f, silent) ==
    /\ queue' = IF watching THEN Queued(f) ELSE queue
    /\ missed' = IF \/ silent \/ ~watching
                    \/ queue # <<>> /\ f \notin {queue[k] : k \in DOMAIN queue}
                 THEN missed \cup {f} ELSE missed

Edit(f) ==
    /\ edits < MaxEdits
    /\ edits' = edits + 1
    /\ disk' = [disk EXCEPT ![f] = edits + 1]
    /\ \/ /\ mtime' = [mtime EXCEPT ![f] = edits + 1]
          /\ Send(f, FALSE)
       \/ /\ mtime[f] # 0
          /\ mtime' = mtime
          /\ Send(f, TRUE)
    /\ UNCHANGED <<removals, hasWatch, watching, received, timeCache,
                   isRequireReload, locked, templates, threads, during,
                   poisoned, down>>

Remove(f) ==
    /\ removals < MaxRemovals
    /\ disk[f] # 0
    /\ removals' = removals + 1
    /\ disk' = [disk EXCEPT ![f] = 0]
    /\ Send(f, TRUE)
    /\ UNCHANGED <<edits, mtime, hasWatch, watching, received, timeCache,
                   isRequireReload, locked, templates, threads, during,
                   poisoned, down>>

\* One change of a file may come with several events.
Again(f) ==
    /\ watching
    /\ queue = <<>>
    /\ disk[f] # 0
    /\ queue' = <<f>>
    /\ UNCHANGED <<dir, hasWatch, watching, received, timeCache,
                   isRequireReload, locked, templates, threads, history>>

-----------------------------------------------------------------------------
(* NewFileWatcher. *)

Watch ==
    /\ hasWatch /\ ~watching
    /\ watching' = TRUE
    /\ UNCHANGED <<dir, hasWatch, queue, received, timeCache, isRequireReload,
                   locked, templates, threads, history>>

Receive ==
    /\ queue # <<>> /\ received = <<>>
    /\ received' = <<Head(queue)>> /\ queue' = Tail(queue)
    /\ UNCHANGED <<dir, hasWatch, watching, timeCache, isRequireReload, locked,
                   templates, threads, history>>

\* os.Stat fails: the file is gone, and nothing is reloaded.
HandleGone(f) ==
    /\ disk[f] = 0
    /\ timeCache' = [timeCache EXCEPT ![f] = 0]
    /\ UNCHANGED <<isRequireReload, during>>

HandleChange(f) ==
    /\ disk[f] # 0
    /\ timeCache' = [timeCache EXCEPT ![f] = mtime[f]]
    /\ IF IsEnable(f) /\ f \in Templated
       THEN isRequireReload' = TRUE /\ during' = during \cup {f}
       ELSE UNCHANGED <<isRequireReload, during>>

Handle ==
    /\ received # <<>>
    /\ received' = <<>>
    /\ HandleGone(Head(received)) \/ HandleChange(Head(received))
    /\ UNCHANGED <<dir, hasWatch, watching, queue, locked, templates, threads,
                   missed, poisoned, down>>

\* A time in the cache expires after five minutes.
Expire(f) ==
    /\ timeCache[f] # 0
    /\ timeCache' = [timeCache EXCEPT ![f] = 0]
    /\ UNCHANGED <<dir, hasWatch, watching, queue, received, isRequireReload,
                   locked, templates, threads, history>>

-----------------------------------------------------------------------------
(* Requests, up to the one read of the templates that c.Render makes. *)

Goto(b, label) == pc' = [pc EXCEPT ![b] = label]

Arrive(h) ==
    /\ pc[Main] = "done"
    /\ pc[h] = "idle"
    /\ Goto(h, "check")
    /\ UNCHANGED <<dir, hasWatch, watcher, isRequireReload, locked, templates,
                   layoutData, todo, history>>

CheckWatch(h) ==
    /\ pc[h] = "check"
    /\ Goto(h, IF isRequireReload THEN "lock" ELSE "render")
    /\ UNCHANGED <<dir, hasWatch, watcher, isRequireReload, locked, templates,
                   layoutData, todo, history>>

Lock(h) ==
    /\ pc[h] = "lock"
    /\ MayLock
    /\ locked' = TRUE
    /\ Goto(h, "recheck")
    /\ UNCHANGED <<dir, hasWatch, watcher, isRequireReload, templates,
                   layoutData, todo, history>>

\* Another request reloaded meanwhile.
NoReload(h) ==
    /\ pc[h] = "recheck"
    /\ ~isRequireReload
    /\ Goto(h, AfterRecheck)
    /\ UNCHANGED <<dir, hasWatch, watcher, isRequireReload, locked, templates,
                   layoutData, todo, history>>

\* UpdateRender begins by dropping every template.
StartRebuild(h) ==
    /\ pc[h] = "recheck"
    /\ isRequireReload
    /\ templates' = Cleared
    /\ Goto(h, "layout")
    /\ UNCHANGED <<dir, hasWatch, watcher, isRequireReload, locked,
                   layoutData, todo, history>>

ReadLayout(b) ==
    /\ pc[b] = "layout"
    /\ layoutData' = [layoutData EXCEPT ![b] = disk[Layout]]
    /\ todo' = [todo EXCEPT ![b] = Pages]
    /\ missed' = missed \ {Layout} /\ during' = during \ {Layout}
    /\ Goto(b, "pages")
    /\ UNCHANGED <<dir, hasWatch, watcher, isRequireReload, locked, templates,
                   poisoned, down>>

BuildPage(b, p) ==
    /\ pc[b] = "pages"
    /\ p \in todo[b]
    /\ {disk[p], layoutData[b]} \cap BrokenEdits = {}
    /\ templates' = [q \in DOMAIN templates \cup {p} |->
                        IF q = p THEN [layout |-> layoutData[b], page |-> disk[p]]
                                 ELSE templates[q]]
    /\ todo' = [todo EXCEPT ![b] = @ \ {p}]
    /\ missed' = missed \ {p} /\ during' = during \ {p}
    /\ UNCHANGED <<dir, hasWatch, watcher, isRequireReload, locked, pc,
                   layoutData, poisoned, down>>

\* template.Must panics: in a request with the mutex held, which net/http
\* survives; in NewWebServer the program ends.
Panic(b) ==
    /\ pc[b] = "pages"
    /\ \E p \in todo[b] : {disk[p], layoutData[b]} \cap BrokenEdits # {}
    /\ Goto(b, "idle")
    /\ todo' = [todo EXCEPT ![b] = {}]
    /\ poisoned' = (poisoned \/ b \in Handlers)
    /\ down' = (down \/ b = Main)
    /\ UNCHANGED <<dir, hasWatch, watcher, isRequireReload, locked, templates,
                   layoutData, missed, during>>

\* The flag is cleared after the files were read, whoever raised it meanwhile.
ClearFlag(h) ==
    /\ pc[h] = "pages" /\ AllBuilt(h)
    /\ isRequireReload' = FALSE
    /\ missed' = missed \cup during /\ during' = {}
    /\ Goto(h, "unlock")
    /\ UNCHANGED <<dir, hasWatch, watcher, locked, templates, layoutData, todo,
                   poisoned, down>>

Unlock(h) ==
    /\ pc[h] = "unlock"
    /\ locked' = FALSE
    /\ Goto(h, "render")
    /\ UNCHANGED <<dir, hasWatch, watcher, isRequireReload, templates,
                   layoutData, todo, history>>

Writing == \E b \in Builders : pc[b] = "pages" /\ todo[b] # {}

\* The read of the map, without the mutex: it finds a template or not, and one
\* that coincides with a write may end the process ("concurrent map read and
\* map write").
Render(h) ==
    /\ pc[h] = "render"
    /\ down' \in IF Writing THEN {FALSE, TRUE} ELSE {FALSE}
    /\ Goto(h, "idle")
    /\ UNCHANGED <<dir, hasWatch, watcher, isRequireReload, locked, templates,
                   layoutData, todo, missed, during, poisoned>>

\* NewWebServer has built the first templates; it neither locks nor clears.
MainDone ==
    /\ pc[Main] = "pages" /\ AllBuilt(Main)
    /\ Goto(Main, "done")
    /\ UNCHANGED <<dir, hasWatch, watcher, isRequireReload, locked, templates,
                   layoutData, todo, history>>

-----------------------------------------------------------------------------
Directory == \E f \in Files : Edit(f) \/ Remove(f) \/ Again(f)
Watcher   == Watch \/ Receive \/ Handle \/ \E f \in Files : Expire(f)
Build(b)  == ReadLayout(b) \/ (\E p \in Pages : BuildPage(b, p)) \/ Panic(b)
Serve(h)  == \/ CheckWatch(h) \/ Lock(h) \/ NoReload(h) \/ StartRebuild(h)
             \/ Build(h) \/ ClearFlag(h) \/ Unlock(h) \/ Render(h)

Next == /\ ~down
        /\ \/ Directory \/ Watcher \/ Build(Main) \/ MainDone
           \/ \E h \in Handlers : Arrive(h) \/ Serve(h)

Spec == Init /\ [][Next]_vars

\* Every goroutine is scheduled, and sync.Mutex hands itself over to a waiter
\* that has waited for a millisecond.  Nothing promises another request, edit
\* or event.
FairSpec ==
    Spec /\ \A h \in Handlers : /\ WF_vars(~down /\ Serve(h))
                                /\ SF_vars(~down /\ Lock(h))

-----------------------------------------------------------------------------
(* Properties. *)

Versions == 0..MaxEdits
Labels   == {"idle", "check", "lock", "recheck", "layout", "pages", "unlock",
             "render", "done"}

\* The type invariant; the channel of the watcher holds one event at most.
TypeOK ==
    /\ edits \in Versions /\ removals \in 0..MaxRemovals
    /\ disk \in [Files -> Versions] /\ mtime \in [Files -> Versions]
    /\ hasWatch \in BOOLEAN /\ watching \in BOOLEAN
    /\ queue \in Seq(Files) /\ Len(queue) <= 1
    /\ received \in Seq(Files) /\ Len(received) <= 1
    /\ timeCache \in [Files -> Versions]
    /\ isRequireReload \in BOOLEAN /\ locked \in BOOLEAN
    /\ DOMAIN templates \subseteq Pages
    /\ \A p \in DOMAIN templates :
           templates[p] \in [layout : Versions, page : Versions]
    /\ pc \in [Builders -> Labels]
    /\ layoutData \in [Builders -> Versions]
    /\ todo \in [Builders -> SUBSET Pages]
    /\ missed \subseteq Files /\ during \subseteq Templated
    /\ poisoned \in BOOLEAN /\ down \in BOOLEAN

Inside(b)   == pc[b] \in {"recheck", "layout", "pages", "unlock"}
Building(b) == pc[b] \in {"layout", "pages"}

\* Two rebuilds never write the map at once, and none starts after one that
\* panicked: the constructor's runs before the first request, and a request's
\* between Lock and Unlock.
OneRebuild ==
    /\ \A b, c \in Builders : Inside(b) /\ Inside(c) => b = c
    /\ poisoned => \A h \in Handlers : ~Inside(h)

\* Whenever no rebuild is running, or was cut short, there is a template for
\* every page: "Template not found" can only come out of a request that renders
\* during a rebuild or after a panic.
CompleteWhenQuiet ==
    (~poisoned /\ ~down /\ \A b \in Builders : ~Building(b)) =>
        DOMAIN templates = Pages

Quiet ==
    /\ ~isRequireReload /\ queue = <<>> /\ received = <<>>
    /\ ~poisoned /\ ~down /\ \A b \in Builders : ~Building(b)

\* With nothing left to notice, the templates are those on disk, except for
\* files changed in one of these ways: before the watch was installed, in the
\* tick of their last change, by removal, while the event of another file was
\* in the channel, or after a rebuild read them and before it cleared the flag.
StaleOnlyIfMissed ==
    Quiet => \A p \in DOMAIN templates :
                 /\ p \in missed \/ templates[p].page = disk[p]
                 /\ Layout \in missed \/ templates[p].layout = disk[Layout]

\* The templates never mix two versions of the layout, not even while a rebuild
\* replaces them one by one or after one that was cut short.
OneLayout ==
    \A p, q \in DOMAIN templates : templates[p].layout = templates[q].layout

\* The set of templates as TemplateSet describes it.  The layout in use is the
\* one the builder read.
Stage ==
    IF poisoned \/ down THEN "dead"
    ELSE IF \E b \in Builders : pc[b] = "layout" THEN "empty"
    ELSE IF \E b \in Builders : pc[b] = "pages" THEN "filling"
    ELSE "complete"
LayoutInUse ==
    IF Stage = "filling"
    THEN layoutData[CHOOSE b \in Builders : pc[b] = "pages"] ELSE 0

TheSet == INSTANCE TemplateSet WITH
              Versions <- Versions, noticed <- isRequireReload, stage <- Stage,
              layout <- LayoutInUse

\* The web server implements TemplateSet: the mutex, the two tests of the flag
\* and the order of NewWebServer and the first request make a rebuild in place,
\* with requests, edits and events in between, one replacement of the whole set.
KeepsTheSet == TheSet!Spec

\* Every request is answered, unless a template that did not parse has left
\* the mutex locked or the runtime has killed the process.
RequestsAnswered ==
    \A h \in Handlers : pc[h] = "check" ~> (pc[h] = "idle" \/ poisoned \/ down)
=============================================================================
