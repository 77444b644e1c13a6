-------------------------- MODULE WebServer_proofs -------------------------
(***************************************************************************)
(* Machine-checked proofs about WebServer, for any number of requests,     *)
(* pages, edits and removals, with and without edits that do not parse.    *)
(***************************************************************************)
EXTENDS WebServer, TLAPS

\* The tuples every step mentions.
USE DEF vars, dir, watcher, threads, history

-----------------------------------------------------------------------------
(* The type invariant. *)

LEMMA InitType == Init => TypeOK
  <1> SUFFICES ASSUME Init PROVE TypeOK
    OBVIOUS
  <1>1. edits \in Versions /\ removals \in 0..MaxRemovals
        /\ 0 \in Versions
    BY EditsAssumption DEF Init, Versions
  <1>2. disk \in [Files -> Versions] /\ mtime \in [Files -> Versions]
        /\ timeCache \in [Files -> Versions]
    BY <1>1 DEF Init
  <1>3. /\ pc \in [Builders -> Labels]
        /\ layoutData \in [Builders -> Versions]
        /\ todo \in [Builders -> SUBSET Pages]
    BY <1>1 DEF Init, Labels
  <1>4. /\ queue \in Seq(Files) /\ Len(queue) <= 1
        /\ received \in Seq(Files) /\ Len(received) <= 1
    BY DEF Init
  <1>5. DOMAIN templates = {}
    BY DEF Init
  <1> QED BY <1>1, <1>2, <1>3, <1>4, <1>5 DEF Init, TypeOK

\* What a change of a file sends fits the channel.
LEMMA SendType ==
    ASSUME TypeOK, NEW f \in Files, NEW silent \in BOOLEAN, Send(f, silent)
    PROVE  /\ queue' \in Seq(Files) /\ Len(queue') <= 1
           /\ missed' \subseteq Files
  <1>1. queue \in Seq(Files) /\ Len(queue) <= 1 /\ missed \subseteq Files
    BY DEF TypeOK
  <1>2. <<f>> \in Seq(Files) /\ Len(<<f>>) = 1
    OBVIOUS
  <1>3. queue' \in {queue, <<f>>}
    BY DEF Send, Queued
  <1>4. missed' \in {missed, missed \cup {f}}
    BY DEF Send
  <1>5. queue' \in Seq(Files) /\ Len(queue') <= 1
    <2>1. CASE queue' = queue
      BY <1>1, <2>1
    <2>2. CASE queue' = <<f>>
      BY <1>2, <2>2
    <2> QED BY <1>3, <2>1, <2>2
  <1>6. missed' \subseteq Files
    BY <1>1, <1>4
  <1> QED BY <1>5, <1>6

LEMMA DirectoryType ==
    ASSUME TypeOK, NEW f \in Files, Edit(f) \/ Remove(f) \/ Again(f)
    PROVE  TypeOK'
  <1>1. CASE Edit(f)
    <2>1. edits' \in Versions /\ 0 \in Versions
      BY <1>1, EditsAssumption DEF Edit, TypeOK, Versions
    <2>2. disk' \in [Files -> Versions]
      BY <1>1, <2>1 DEF Edit, TypeOK
    <2>3. mtime' \in [Files -> Versions]
      BY <1>1, <2>1 DEF Edit, TypeOK
    <2>4. \E silent \in BOOLEAN : Send(f, silent)
      BY <1>1 DEF Edit
    <2>5. queue' \in Seq(Files) /\ Len(queue') <= 1 /\ missed' \subseteq Files
      BY <2>4, SendType
    <2> QED BY <1>1, <2>1, <2>2, <2>3, <2>5 DEF Edit, TypeOK
  <1>2. CASE Remove(f)
    <2>1. removals' \in 0..MaxRemovals /\ 0 \in Versions
      BY <1>2, EditsAssumption DEF Remove, TypeOK, Versions
    <2>2. disk' \in [Files -> Versions]
      BY <1>2, <2>1 DEF Remove, TypeOK
    <2>3. queue' \in Seq(Files) /\ Len(queue') <= 1 /\ missed' \subseteq Files
      BY <1>2, SendType DEF Remove
    <2> QED BY <1>2, <2>1, <2>2, <2>3 DEF Remove, TypeOK
  <1>3. CASE Again(f)
    <2>1. <<f>> \in Seq(Files) /\ Len(<<f>>) = 1
      OBVIOUS
    <2> QED BY <1>3, <2>1 DEF Again, TypeOK
  <1> QED BY <1>1, <1>2, <1>3

LEMMA WatcherType ==
    ASSUME TypeOK, Watcher
    PROVE  TypeOK'
  <1>1. CASE Watch
    BY <1>1 DEF Watch, TypeOK
  <1>2. CASE Receive
    <2>1. Head(queue) \in Files /\ Tail(queue) \in Seq(Files)
          /\ Len(Tail(queue)) <= 1
      BY <1>2 DEF Receive, TypeOK
    <2>2. <<Head(queue)>> \in Seq(Files) /\ Len(<<Head(queue)>>) = 1
      BY <2>1
    <2> QED BY <1>2, <2>1, <2>2 DEF Receive, TypeOK
  <1>3. CASE Handle
    <2> DEFINE f == Head(received)
    <2>1. f \in Files
      BY <1>3 DEF Handle, TypeOK
    <2>2. 0 \in Versions
      BY EditsAssumption DEF Versions
    <2>3. /\ timeCache' \in [Files -> Versions]
          /\ isRequireReload' \in BOOLEAN
          /\ during' \subseteq Templated
      <3>1. CASE HandleGone(f)
        BY <2>1, <2>2, <3>1 DEF HandleGone, TypeOK
      <3>2. CASE HandleChange(f)
        BY <2>1, <3>2 DEF HandleChange, TypeOK
      <3> QED BY <1>3, <3>1, <3>2 DEF Handle
    <2>4. received' \in Seq(Files) /\ Len(received') <= 1
      BY <1>3 DEF Handle
    <2> QED BY <1>3, <2>3, <2>4 DEF Handle, TypeOK
  <1>4. ASSUME NEW f \in Files, Expire(f) PROVE TypeOK'
    <2>1. 0 \in Versions
      BY EditsAssumption DEF Versions
    <2> QED BY <1>4, <2>1 DEF Expire, TypeOK
  <1> QED BY <1>1, <1>2, <1>3, <1>4 DEF Watcher

\* A step of a goroutine's program counter stays among the labels.
LEMMA GotoType ==
    ASSUME TypeOK, NEW b \in Builders, NEW label \in Labels, Goto(b, label)
    PROVE  pc' \in [Builders -> Labels]
  BY DEF TypeOK, Goto

LEMMA BuildType ==
    ASSUME TypeOK, NEW b \in Builders, Build(b)
    PROVE  TypeOK'
  <1>1. CASE ReadLayout(b)
    <2>1. disk[Layout] \in Versions
      BY DEF TypeOK, Files, Templated
    <2>2. layoutData' \in [Builders -> Versions]
      BY <1>1, <2>1 DEF ReadLayout, TypeOK
    <2>3. todo' \in [Builders -> SUBSET Pages]
      BY <1>1 DEF ReadLayout, TypeOK
    <2>4. pc' \in [Builders -> Labels]
      BY <1>1, GotoType DEF ReadLayout, Labels
    <2> QED BY <1>1, <2>2, <2>3, <2>4 DEF ReadLayout, TypeOK
  <1>2. ASSUME NEW p \in Pages, BuildPage(b, p) PROVE TypeOK'
    <2>1. [layout |-> layoutData[b], page |-> disk[p]]
              \in [layout : Versions, page : Versions]
      BY DEF TypeOK, Files, Templated
    <2>2. /\ DOMAIN templates' \subseteq Pages
          /\ \A q \in DOMAIN templates' :
                 templates'[q] \in [layout : Versions, page : Versions]
      BY <1>2, <2>1 DEF BuildPage, TypeOK
    <2>3. todo' \in [Builders -> SUBSET Pages]
      BY <1>2 DEF BuildPage, TypeOK
    <2> QED BY <1>2, <2>2, <2>3 DEF BuildPage, TypeOK
  <1>3. CASE Panic(b)
    <2>1. pc' \in [Builders -> Labels]
      BY <1>3, GotoType DEF Panic, Labels
    <2>2. todo' \in [Builders -> SUBSET Pages]
      BY <1>3 DEF Panic, TypeOK
    <2>3. poisoned' \in BOOLEAN /\ down' \in BOOLEAN
      BY <1>3 DEF Panic
    <2> QED BY <1>3, <2>1, <2>2, <2>3 DEF Panic, TypeOK
  <1> QED BY <1>1, <1>2, <1>3 DEF Build

LEMMA RequestType ==
    ASSUME TypeOK, NEW h \in Handlers, Arrive(h) \/ Serve(h)
    PROVE  TypeOK'
  <1>0. h \in Builders
    BY DEF Builders
  <1>1. CASE Arrive(h)
    <2>1. pc' \in [Builders -> Labels]
      BY <1>0, <1>1, GotoType DEF Arrive, Labels
    <2> QED BY <1>1, <2>1 DEF Arrive, TypeOK
  <1>2. CASE CheckWatch(h)
    <2>1. pc' \in [Builders -> Labels]
      BY <1>0, <1>2, GotoType DEF CheckWatch, Labels
    <2> QED BY <1>2, <2>1 DEF CheckWatch, TypeOK
  <1>3. CASE Lock(h)
    <2>1. pc' \in [Builders -> Labels]
      BY <1>0, <1>3, GotoType DEF Lock, Labels
    <2> QED BY <1>3, <2>1 DEF Lock, TypeOK
  <1>4. CASE NoReload(h)
    <2>1. pc' \in [Builders -> Labels]
      BY <1>0, <1>4, GotoType DEF NoReload, AfterRecheck, Labels
    <2> QED BY <1>4, <2>1 DEF NoReload, TypeOK
  <1>5. CASE StartRebuild(h)
    <2>1. pc' \in [Builders -> Labels]
      BY <1>0, <1>5, GotoType DEF StartRebuild, Labels
    <2>2. DOMAIN templates' = {}
      BY <1>5 DEF StartRebuild, Cleared
    <2> QED BY <1>5, <2>1, <2>2 DEF StartRebuild, TypeOK
  <1>6. CASE Build(h)
    BY <1>0, <1>6, BuildType
  <1>7. CASE ClearFlag(h)
    <2>1. pc' \in [Builders -> Labels]
      BY <1>0, <1>7, GotoType DEF ClearFlag, Labels
    <2>2. missed' \subseteq Files /\ during' \subseteq Templated
      BY <1>7 DEF ClearFlag, TypeOK, Files
    <2> QED BY <1>7, <2>1, <2>2 DEF ClearFlag, TypeOK
  <1>8. CASE Unlock(h)
    <2>1. pc' \in [Builders -> Labels]
      BY <1>0, <1>8, GotoType DEF Unlock, Labels
    <2> QED BY <1>8, <2>1 DEF Unlock, TypeOK
  <1>9. CASE Render(h)
    <2>1. pc' \in [Builders -> Labels]
      BY <1>0, <1>9, GotoType DEF Render, Labels
    <2>2. down' \in BOOLEAN
      BY <1>9 DEF Render
    <2> QED BY <1>9, <2>1, <2>2 DEF Render, TypeOK
  <1> QED BY <1>1, <1>2, <1>3, <1>4, <1>5, <1>6, <1>7, <1>8, <1>9 DEF Serve

LEMMA StepType == TypeOK /\ [Next]_vars => TypeOK'
  <1> SUFFICES ASSUME TypeOK, [Next]_vars PROVE TypeOK'
    OBVIOUS
  <1>1. CASE Directory
    BY <1>1, DirectoryType DEF Directory
  <1>2. CASE Watcher
    BY <1>2, WatcherType
  <1>3. CASE Build(Main)
    BY <1>3, BuildType DEF Builders
  <1>4. CASE MainDone
    <2>1. pc' \in [Builders -> Labels]
      BY <1>4, GotoType DEF MainDone, Labels, Builders
    <2> QED BY <1>4, <2>1 DEF MainDone, TypeOK
  <1>5. ASSUME NEW h \in Handlers, Arrive(h) \/ Serve(h) PROVE TypeOK'
    BY <1>5, RequestType
  <1>6. CASE UNCHANGED vars
    BY <1>6 DEF TypeOK
  <1> QED BY <1>1, <1>2, <1>3, <1>4, <1>5, <1>6 DEF Next

\* Every variable keeps its type; in particular the watcher's channel never
\* holds more than the one event it was made for.
THEOREM TypeCorrect == Spec => []TypeOK
  BY InitType, StepType, PTL DEF Spec

-----------------------------------------------------------------------------
(* The mutex.  OneRebuild is not inductive: that Lock and the constructor     *)
(* never meet another goroutine inside follows from what the mutex and the    *)
(* constructor's program counter say.                                         *)

\* A request is inside only with the mutex taken, and it stays taken after a panic.
Guarded == (poisoned \/ \E h \in Handlers : Inside(h)) => locked

\* The constructor runs before every request, and never has the mutex.
MainFirst ==
    /\ pc[Main] \in {"layout", "pages", "done", "idle"}
    /\ pc[Main] = "idle" => down
    /\ pc[Main] # "done" =>
           /\ \A h \in Handlers : pc[h] = "idle"
           /\ ~locked

Mutex == Guarded /\ MainFirst /\ OneRebuild

LEMMA InitMutex == Init => Mutex
  BY NamesAssumption
     DEF Init, Mutex, Guarded, MainFirst, OneRebuild, Inside, Builders

\* What the mutex says depends on these variables only.
LEMMA MutexFrame ==
    ASSUME Mutex, UNCHANGED <<pc, locked, poisoned, down>>
    PROVE  Mutex'
  BY DEF Mutex, Guarded, MainFirst, OneRebuild, Inside

\* Steps of the constructor.
LEMMA MainMutex ==
    ASSUME TypeOK, Mutex, ~down, Build(Main) \/ MainDone
    PROVE  Mutex'
  <1>1. pc[Main] \in {"layout", "pages"}
    BY DEF Build, ReadLayout, BuildPage, Panic, MainDone
  <1>2. /\ \A h \in Handlers : pc[h] = "idle"
        /\ ~locked /\ ~poisoned
    BY <1>1 DEF Mutex, MainFirst, Guarded
  <1>3. /\ \A h \in Handlers : pc'[h] = "idle"
        /\ ~locked' /\ ~poisoned'
        /\ pc'[Main] \in {"layout", "pages", "done", "idle"}
        /\ pc'[Main] = "idle" => down'
    <2>1. CASE ReadLayout(Main)
      BY <1>1, <1>2, <2>1, NamesAssumption
         DEF ReadLayout, Goto, TypeOK, Builders
    <2>2. ASSUME NEW p \in Pages, BuildPage(Main, p)
          PROVE  /\ \A h \in Handlers : pc'[h] = "idle"
                 /\ ~locked' /\ ~poisoned'
                 /\ pc'[Main] \in {"layout", "pages", "done", "idle"}
                 /\ pc'[Main] = "idle" => down'
      BY <1>1, <1>2, <2>2 DEF BuildPage
    <2>3. CASE Panic(Main)
      BY <1>2, <2>3, NamesAssumption DEF Panic, Goto, TypeOK, Builders
    <2>4. CASE MainDone
      BY <1>2, <2>4, NamesAssumption DEF MainDone, Goto, TypeOK, Builders
    <2> QED BY <2>1, <2>2, <2>3, <2>4 DEF Build
  <1> QED BY <1>3 DEF Mutex, Guarded, MainFirst, OneRebuild, Inside, Builders

\* Where a request's step leaves everybody's program counter.
LEMMA OnlyMoves ==
    ASSUME TypeOK, NEW h \in Handlers, NEW label, Goto(h, label)
    PROVE  /\ pc'[h] = label
           /\ \A b \in Builders : b # h => pc'[b] = pc[b]
  BY DEF TypeOK, Goto, Builders

\* A step of a request that leaves the mutex alone, and goes inside or builds
\* on only when it was inside before.
LEMMA StayMutex ==
    ASSUME TypeOK, Mutex, NEW h \in Handlers, pc[Main] = "done",
           NEW label, Goto(h, label),
           label \in {"recheck", "layout", "pages", "unlock"} => Inside(h),
           UNCHANGED <<locked, poisoned>>
    PROVE  Mutex'
  <1>1. /\ pc'[h] = label
        /\ \A b \in Builders : b # h => pc'[b] = pc[b]
    BY OnlyMoves
  <1>2. h # Main /\ Main \in Builders /\ pc'[Main] = "done"
    BY <1>1, NamesAssumption DEF Builders
  <1>3. \A b \in Builders : Inside(b)' => Inside(b)
    BY <1>1 DEF Inside
  <1>4. OneRebuild'
    BY <1>3 DEF Mutex, OneRebuild, Builders
  <1>5. Guarded'
    BY <1>3 DEF Mutex, Guarded, Builders
  <1> QED BY <1>2, <1>4, <1>5 DEF Mutex, MainFirst

LEMMA RequestMutex ==
    ASSUME TypeOK, Mutex, ~down, NEW h \in Handlers, Arrive(h) \/ Serve(h)
    PROVE  Mutex'
  <1>0. /\ h # Main /\ h \in Builders /\ Main \in Builders
        /\ pc[Main] = "done"
    <2>1. pc[Main] = "done" \/ pc[h] # "idle"
      BY DEF Arrive, Serve, CheckWatch, Lock, NoReload, StartRebuild, Build,
             ReadLayout, BuildPage, Panic, ClearFlag, Unlock, Render
    <2> QED BY <2>1, NamesAssumption DEF Builders, Mutex, MainFirst
  <1>1. CASE Arrive(h)
    BY <1>0, <1>1, StayMutex DEF Arrive
  <1>2. CASE CheckWatch(h)
    BY <1>0, <1>2, StayMutex DEF CheckWatch
  <1>3. CASE Lock(h)
    <2>1. /\ pc'[h] = "recheck"
          /\ \A b \in Builders : b # h => pc'[b] = pc[b]
      BY <1>3, OnlyMoves DEF Lock
    <2>2. ~poisoned /\ \A b \in Builders : ~Inside(b)
      <3>1. ~locked
        BY <1>3 DEF Lock, MayLock
      <3>2. ~poisoned /\ \A g \in Handlers : ~Inside(g)
        BY <3>1 DEF Mutex, Guarded
      <3>3. ~Inside(Main)
        BY <1>0 DEF Inside
      <3> QED BY <3>2, <3>3 DEF Builders
    <2>3. \A b \in Builders : Inside(b)' => b = h
      BY <2>1, <2>2 DEF Inside
    <2>4. locked' /\ ~poisoned'
      BY <1>3, <2>2 DEF Lock
    <2> QED BY <1>0, <2>1, <2>3, <2>4 DEF Mutex, Guarded, MainFirst, OneRebuild
  <1>4. CASE NoReload(h)
    BY <1>0, <1>4, StayMutex DEF NoReload, Inside
  <1>5. CASE StartRebuild(h)
    BY <1>0, <1>5, StayMutex DEF StartRebuild, Inside
  <1>6. CASE ReadLayout(h)
    BY <1>0, <1>6, StayMutex DEF ReadLayout, Inside
  <1>7. ASSUME NEW p \in Pages, BuildPage(h, p) PROVE Mutex'
    BY <1>7, MutexFrame DEF BuildPage
  <1>8. CASE Panic(h)
    <2>1. /\ pc'[h] = "idle"
          /\ \A b \in Builders : b # h => pc'[b] = pc[b]
      BY <1>8, OnlyMoves DEF Panic
    <2>2. Inside(h) /\ locked
      BY <1>8 DEF Panic, Inside, Mutex, Guarded
    <2>3. \A b \in Builders : ~Inside(b)'
      BY <2>1, <2>2, <1>0 DEF Mutex, OneRebuild, Inside
    <2>4. locked'
      BY <1>8, <2>2 DEF Panic
    <2> QED BY <1>0, <2>1, <2>3, <2>4
            DEF Mutex, Guarded, MainFirst, OneRebuild, Builders
  <1>9. CASE ClearFlag(h)
    BY <1>0, <1>9, StayMutex DEF ClearFlag, Inside
  <1>10. CASE Unlock(h)
    <2>1. /\ pc'[h] = "render"
          /\ \A b \in Builders : b # h => pc'[b] = pc[b]
      BY <1>10, OnlyMoves DEF Unlock
    <2>2. Inside(h)
      BY <1>10 DEF Unlock, Inside
    <2>3. ~poisoned /\ \A b \in Builders : b # h => ~Inside(b)
      BY <1>0, <2>2 DEF Mutex, OneRebuild
    <2>4. \A b \in Builders : ~Inside(b)'
      BY <2>1, <2>3 DEF Inside
    <2>5. ~poisoned'
      BY <1>10, <2>3 DEF Unlock
    <2> QED BY <1>0, <2>1, <2>4, <2>5
            DEF Mutex, Guarded, MainFirst, OneRebuild, Builders
  <1>11. CASE Render(h)
    BY <1>0, <1>11, StayMutex DEF Render
  <1> QED BY <1>1, <1>2, <1>3, <1>4, <1>5, <1>6, <1>7, <1>8, <1>9, <1>10, <1>11
          DEF Serve, Build

LEMMA StepMutex == TypeOK /\ Mutex /\ [Next]_vars => Mutex'
  <1> SUFFICES ASSUME TypeOK, Mutex, [Next]_vars PROVE Mutex'
    OBVIOUS
  <1>1. CASE Directory /\ ~down
    <2>1. UNCHANGED <<pc, locked, poisoned, down>>
      BY <1>1 DEF Directory, Edit, Remove, Again
    <2> QED BY <2>1, MutexFrame
  <1>2. CASE Watcher /\ ~down
    <2>1. UNCHANGED <<pc, locked, poisoned, down>>
      BY <1>2 DEF Watcher, Watch, Receive, Handle, Expire
    <2> QED BY <2>1, MutexFrame
  <1>3. CASE (Build(Main) \/ MainDone) /\ ~down
    BY <1>3, MainMutex
  <1>4. ASSUME NEW h \in Handlers, Arrive(h) \/ Serve(h), ~down PROVE Mutex'
    BY <1>4, RequestMutex
  <1>5. CASE UNCHANGED vars
    BY <1>5, MutexFrame
  <1> QED BY <1>1, <1>2, <1>3, <1>4, <1>5 DEF Next

\* At most one goroutine rebuilds the templates at any time, and none does after
\* a rebuild panicked: web.Mutex and the order of NewWebServer and the first
\* request exclude it, for any number of requests.
THEOREM RebuildsExclude == Spec => []OneRebuild
  <1>1. Init => TypeOK /\ Mutex
    BY InitType, InitMutex
  <1>2. TypeOK /\ Mutex /\ [Next]_vars => (TypeOK /\ Mutex)'
    BY StepType, StepMutex
  <1>3. Mutex => OneRebuild
    BY DEF Mutex
  <1> QED BY <1>1, <1>2, <1>3, PTL DEF Spec

-----------------------------------------------------------------------------
(* The templates. *)

\* The rebuild that runs will have built every page; none is missing otherwise.
Filled ==
    /\ \A b \in Builders :
           pc[b] = "pages" => Pages \subseteq DOMAIN templates \cup todo[b]
    /\ CompleteWhenQuiet

LEMMA InitFilled == Init => Filled
  BY NamesAssumption DEF Init, Filled, CompleteWhenQuiet, Building, Builders

\* A step that neither touches the templates nor begins or ends a rebuild.
LEMMA FilledFrame ==
    ASSUME Filled, UNCHANGED <<templates, todo>>,
           \A b \in Builders : Building(b)' <=> Building(b),
           \A b \in Builders : pc'[b] = "pages" => pc[b] = "pages",
           ~poisoned' => ~poisoned, ~down' => ~down
    PROVE  Filled'
  <1>1. \A b \in Builders :
            pc'[b] = "pages" => Pages \subseteq DOMAIN templates' \cup todo'[b]
    BY DEF Filled
  <1>2. CompleteWhenQuiet'
    BY DEF Filled, CompleteWhenQuiet
  <1> QED BY <1>1, <1>2 DEF Filled

\* Steps of a rebuild, the constructor's or a request's.
LEMMA BuildFilled ==
    ASSUME TypeOK, Mutex, Filled, NEW b \in Builders, Build(b)
    PROVE  Filled'
  <1>1. CASE ReadLayout(b)
    <2>1. /\ pc'[b] = "pages" /\ todo'[b] = Pages
          /\ \A c \in Builders : c # b => pc'[c] = pc[c] /\ todo'[c] = todo[c]
          /\ templates' = templates
      BY <1>1 DEF ReadLayout, Goto, TypeOK
    <2>2. \A c \in Builders :
            pc'[c] = "pages" => Pages \subseteq DOMAIN templates' \cup todo'[c]
      BY <2>1 DEF Filled
    <2>3. Building(b)'
      BY <2>1 DEF Building
    <2> QED BY <2>2, <2>3 DEF Filled, CompleteWhenQuiet
  <1>2. ASSUME NEW p \in Pages, BuildPage(b, p) PROVE Filled'
    <2>1. /\ pc' = pc /\ pc[b] = "pages"
          /\ DOMAIN templates' = DOMAIN templates \cup {p}
          /\ todo'[b] = todo[b] \ {p}
      BY <1>2 DEF BuildPage, TypeOK
    <2>2. \A c \in Builders : pc'[c] = "pages" => c = b
      BY <2>1 DEF Mutex, OneRebuild, Inside
    <2>3. Pages \subseteq DOMAIN templates' \cup todo'[b]
      BY <2>1 DEF Filled
    <2>4. Building(b)'
      BY <2>1 DEF Building
    <2> QED BY <2>2, <2>3, <2>4 DEF Filled, CompleteWhenQuiet
  <1>3. CASE Panic(b)
    <2>1. /\ pc'[b] = "idle"
          /\ \A c \in Builders : c # b => pc'[c] = pc[c] /\ todo'[c] = todo[c]
          /\ templates' = templates
          /\ poisoned' \/ down'
      BY <1>3 DEF Panic, Goto, TypeOK, Builders
    <2>2. \A c \in Builders :
            pc'[c] = "pages" => Pages \subseteq DOMAIN templates' \cup todo'[c]
      BY <2>1 DEF Filled
    <2> QED BY <2>1, <2>2 DEF Filled, CompleteWhenQuiet
  <1> QED BY <1>1, <1>2, <1>3 DEF Build

\* The rebuild of b is complete when its loop over the pages ends.
LEMMA EndFilled ==
    ASSUME TypeOK, Filled, NEW b \in Builders, pc[b] = "pages", AllBuilt(b),
           NEW label, Goto(b, label), label \notin {"layout", "pages"},
           UNCHANGED <<templates, todo>>
    PROVE  Filled'
  <1>1. DOMAIN templates' = Pages
    BY DEF TypeOK, Filled, AllBuilt
  <1>2. \A c \in Builders : pc'[c] = "pages" => pc[c] = "pages"
    BY DEF TypeOK, Goto
  <1> QED BY <1>1, <1>2 DEF Filled, CompleteWhenQuiet

\* A step of a request outside of a rebuild.
LEMMA OutsideFilled ==
    ASSUME TypeOK, Filled, NEW h \in Handlers, ~Building(h),
           NEW label, Goto(h, label), label \notin {"layout", "pages"},
           UNCHANGED <<templates, todo, poisoned>>, ~down
    PROVE  Filled'
  <1>1. /\ pc'[h] = label
        /\ \A b \in Builders : b # h => pc'[b] = pc[b]
    BY OnlyMoves
  <1>2. \A b \in Builders : Building(b)' <=> Building(b)
    BY <1>1 DEF Building
  <1>3. \A b \in Builders : pc'[b] = "pages" => pc[b] = "pages"
    BY <1>1
  <1> QED BY <1>2, <1>3, FilledFrame

LEMMA RequestFilled ==
    ASSUME TypeOK, Mutex, Filled, ~down, NEW h \in Handlers,
           Arrive(h) \/ Serve(h)
    PROVE  Filled'
  <1>0. h \in Builders
    BY DEF Builders
  <1>1. CASE Arrive(h)
    BY <1>1, OutsideFilled DEF Arrive, Building
  <1>2. CASE CheckWatch(h)
    <2>1. PICK label \in {"lock", "render"} : Goto(h, label)
      BY <1>2 DEF CheckWatch
    <2> QED BY <1>2, <2>1, OutsideFilled DEF CheckWatch, Building
  <1>3. CASE Lock(h)
    BY <1>3, OutsideFilled DEF Lock, Building
  <1>4. CASE NoReload(h)
    BY <1>4, OutsideFilled DEF NoReload, AfterRecheck, Building
  <1>5. CASE StartRebuild(h)
    <2>1. /\ pc'[h] = "layout"
          /\ \A b \in Builders : b # h => pc'[b] = pc[b]
      BY <1>5, OnlyMoves DEF StartRebuild
    <2>2. \A b \in Builders : pc'[b] # "pages"
      BY <1>0, <1>5, <2>1 DEF StartRebuild, Mutex, OneRebuild, Inside
    <2>3. Building(h)'
      BY <2>1 DEF Building
    <2> QED BY <1>0, <2>2, <2>3 DEF Filled, CompleteWhenQuiet
  <1>6. CASE Build(h)
    BY <1>0, <1>6, BuildFilled
  <1>7. CASE ClearFlag(h)
    BY <1>0, <1>7, EndFilled DEF ClearFlag
  <1>8. CASE Unlock(h)
    BY <1>8, OutsideFilled DEF Unlock, Building
  <1>9. CASE Render(h)
    BY <1>9, OutsideFilled DEF Render, Building
  <1> QED BY <1>1, <1>2, <1>3, <1>4, <1>5, <1>6, <1>7, <1>8, <1>9 DEF Serve

LEMMA StepFilled == TypeOK /\ Mutex /\ Filled /\ [Next]_vars => Filled'
  <1> SUFFICES ASSUME TypeOK, Mutex, Filled, [Next]_vars PROVE Filled'
    OBVIOUS
  <1>1. CASE Directory
    <2>1. UNCHANGED <<pc, templates, todo, poisoned, down>>
      BY <1>1 DEF Directory, Edit, Remove, Again
    <2> QED BY <2>1, FilledFrame DEF Building
  <1>2. CASE Watcher
    <2>1. UNCHANGED <<pc, templates, todo, poisoned, down>>
      BY <1>2 DEF Watcher, Watch, Receive, Handle, Expire
    <2> QED BY <2>1, FilledFrame DEF Building
  <1>3. CASE Build(Main)
    BY <1>3, BuildFilled DEF Builders
  <1>4. CASE MainDone
    BY <1>4, EndFilled DEF MainDone, Builders
  <1>5. ASSUME NEW h \in Handlers, Arrive(h) \/ Serve(h), ~down PROVE Filled'
    BY <1>5, RequestFilled
  <1>6. CASE UNCHANGED vars
    BY <1>6, FilledFrame DEF Building
  <1> QED BY <1>1, <1>2, <1>3, <1>4, <1>5, <1>6 DEF Next

\* Every page has a template whenever no rebuild is running or was cut short by
\* a panic: web.Render can fail to find one only then.
THEOREM TemplatesAreComplete == Spec => []CompleteWhenQuiet
  <1>1. Init => TypeOK /\ Mutex /\ Filled
    BY InitType, InitMutex, InitFilled
  <1>2. TypeOK /\ Mutex /\ Filled /\ [Next]_vars => (TypeOK /\ Mutex /\ Filled)'
    BY StepType, StepMutex, StepFilled
  <1>3. Filled => CompleteWhenQuiet
    BY DEF Filled
  <1> QED BY <1>1, <1>2, <1>3, PTL DEF Spec

-----------------------------------------------------------------------------
(***************************************************************************)
(* Freshness: a template served while nothing is left to notice is the one *)
(* on disk, or its file was changed in one of the ways the watcher cannot  *)
(* notice.  The invariant says of every file whose content was read that   *)
(* it is still the content on disk, or that an event, the flag or the      *)
(* running rebuild will see to it.                                         *)
(***************************************************************************)

Rebuilding == \E h \in Handlers : Building(h)

\* An event of f is on its way, and the watcher will not ignore it.
Pending(f) == <<f>> \in {queue, received} /\ disk[f] # 0 /\ timeCache[f] # mtime[f]

\* The change of f was seen: a reload will follow, or the running rebuild ends
\* with f among the files whose change it wiped out.
Flagged(f) == IF Rebuilding THEN f \in during ELSE isRequireReload

\* The versions of f that a template may hold.
Known(f) == {v \in Versions : v = disk[f] \/ f \in missed \/ Pending(f) \/ Flagged(f)}

\* Modification times are those of edits.
Clock == \A f \in Files : /\ mtime[f] <= edits /\ timeCache[f] <= edits
                          /\ disk[f] # 0 => mtime[f] # 0

Noticed ==
    (~poisoned /\ ~down) =>
        /\ \A p \in DOMAIN templates : /\ templates[p].page \in Known(p)
                                       /\ templates[p].layout \in Known(Layout)
        /\ \A b \in Builders :
               /\ pc[b] = "pages" => layoutData[b] \in Known(Layout)
               /\ pc[b] = "layout" => DOMAIN templates = {}

-----------------------------------------------------------------------------
LEMMA InitNoticed == Init => Clock /\ Noticed
  <1> SUFFICES ASSUME Init PROVE Clock /\ Noticed
    OBVIOUS
  <1>1. Clock
    BY DEF Init, Clock
  <1>2. DOMAIN templates = {} /\ \A b \in Builders : pc[b] # "pages"
    BY DEF Init
  <1> QED BY <1>1, <1>2 DEF Noticed

LEMMA StepClock == TypeOK /\ Clock /\ [Next]_vars => Clock'
  <1> SUFFICES ASSUME TypeOK, Clock, [Next]_vars PROVE Clock'
    OBVIOUS
  <1>0. edits \in Nat /\ \A f \in Files : mtime[f] \in Nat /\ timeCache[f] \in Nat
    BY DEF TypeOK, Versions
  <1>1. ASSUME NEW f \in Files, Edit(f) PROVE Clock'
    <2>1. /\ edits' = edits + 1 /\ timeCache' = timeCache
          /\ \A g \in Files : g # f => disk'[g] = disk[g] /\ mtime'[g] = mtime[g]
          /\ mtime'[f] = edits + 1 \/ (mtime'[f] = mtime[f] /\ mtime[f] # 0)
      BY <1>1 DEF Edit, TypeOK
    <2>2. \A g \in Files : mtime'[g] <= edits' /\ timeCache'[g] <= edits'
      BY <1>0, <2>1 DEF Clock
    <2>3. \A g \in Files : disk'[g] # 0 => mtime'[g] # 0
      BY <1>0, <2>1 DEF Clock
    <2> QED BY <2>2, <2>3 DEF Clock
  <1>2. ASSUME NEW f \in Files, Remove(f) PROVE Clock'
    BY <1>2 DEF Remove, Clock, TypeOK
  <1>3. ASSUME NEW f \in Files, Again(f) PROVE Clock'
    BY <1>3 DEF Again, Clock
  <1>4. CASE Watch \/ Receive
    BY <1>4 DEF Watch, Receive, Clock
  <1>5. CASE Handle
    <2>1. Head(received) \in Files
      BY <1>5 DEF Handle, TypeOK
    <2>2. UNCHANGED <<edits, disk, mtime>>
      BY <1>5 DEF Handle
    <2>3. \A f \in Files : timeCache'[f] \in {0, timeCache[f], mtime[f]}
      <3>1. CASE HandleGone(Head(received))
        BY <2>1, <3>1 DEF HandleGone, TypeOK
      <3>2. CASE HandleChange(Head(received))
        BY <2>1, <3>2 DEF HandleChange, TypeOK
      <3> QED BY <1>5, <3>1, <3>2 DEF Handle
    <2>4. edits \in Nat
      BY DEF TypeOK, Versions
    <2> QED BY <1>0, <2>2, <2>3, <2>4 DEF Clock
  <1>6. ASSUME NEW f \in Files, Expire(f) PROVE Clock'
    BY <1>0, <1>6 DEF Expire, Clock, TypeOK
  <1>7. ASSUME NEW b \in Builders, Build(b) PROVE Clock'
    BY <1>7 DEF Build, ReadLayout, BuildPage, Panic, Clock
  <1>8. CASE MainDone
    BY <1>8 DEF MainDone, Clock
  <1>9. ASSUME NEW h \in Handlers, Arrive(h) \/ Serve(h) PROVE Clock'
    <2>1. CASE Build(h)
      BY <1>7, <2>1 DEF Builders
    <2>2. CASE ~Build(h)
      BY <1>9, <2>2 DEF Arrive, Serve, CheckWatch, Lock, NoReload, StartRebuild,
                        ClearFlag, Unlock, Render, Clock
    <2> QED BY <2>1, <2>2
  <1>10. CASE UNCHANGED vars
    BY <1>10 DEF Clock
  <1> QED BY <1>1, <1>2, <1>3, <1>4, <1>5, <1>6, <1>7, <1>8, <1>9, <1>10
          DEF Next, Directory, Watcher, Builders

-----------------------------------------------------------------------------
(* A step of the directory or of the watcher only adds to what is known. *)

LEMMA DirectoryKnown ==
    ASSUME TypeOK, Clock, NEW f \in Files, Edit(f) \/ Remove(f) \/ Again(f),
           NEW g \in Templated
    PROVE  Known(g) \subseteq Known(g)'
  <1>0. /\ g \in Files /\ edits \in Nat
        /\ queue \in Seq(Files) /\ Len(queue) <= 1
        /\ \A k \in Files : mtime[k] \in Nat /\ timeCache[k] \in Nat
    BY DEF TypeOK, Versions, Files
  <1>1. Flagged(g)' <=> Flagged(g)
    <2>1. UNCHANGED <<pc, during, isRequireReload>>
      BY DEF Edit, Remove, Again
    <2> QED BY <2>1 DEF Flagged, Rebuilding, Building
  <1>2. missed \subseteq missed'
    BY DEF Edit, Remove, Again, Send
  <1>3. <<g>> = queue => queue' = queue
    BY DEF Edit, Remove, Again, Send, Queued
  <1>4. CASE Edit(f)
    <2>1. /\ edits' = edits + 1 /\ disk'[f] = edits + 1
          /\ g # f => disk'[g] = disk[g] /\ mtime'[g] = mtime[g]
          /\ timeCache' = timeCache /\ received' = received
      BY <1>0, <1>4 DEF Edit, TypeOK
    <2>2. CASE g # f
      BY <1>1, <1>2, <1>3, <2>1, <2>2 DEF Known, Pending
    <2>3. CASE g = f
      <3>1. CASE f \in missed'
        BY <2>3, <3>1 DEF Known
      <3>2. CASE f \notin missed'
        <4>1. /\ mtime'[f] = edits + 1 /\ Send(f, FALSE)
          BY <1>0, <1>4, <3>2 DEF Edit, Send, TypeOK
        <4>2. watching /\ (queue = <<>> \/ f \in {queue[k] : k \in DOMAIN queue})
          BY <3>2, <4>1 DEF Send
        <4>3. queue' = <<f>>
          <5>1. CASE queue = <<>>
            BY <4>1, <4>2, <5>1 DEF Send, Queued
          <5>2. CASE queue # <<>>
            <6>1. PICK k \in DOMAIN queue : queue[k] = f
              BY <4>2, <5>2
            <6>2. DOMAIN queue = 1..Len(queue) /\ Len(queue) \in Nat
              BY <1>0
            <6>3. k = 1 /\ Len(queue) = 1
              BY <1>0, <6>1, <6>2
            <6>4. queue = <<f>>
              BY <1>0, <6>1, <6>3
            <6> QED BY <4>1, <4>2, <6>4 DEF Send, Queued
          <5> QED BY <5>1, <5>2
        <4>4. timeCache'[f] # mtime'[f] /\ disk'[f] # 0
          BY <1>0, <2>1, <4>1 DEF Clock
        <4>5. Pending(f)'
          BY <4>3, <4>4 DEF Pending
        <4> QED BY <2>3, <4>5 DEF Known
      <3> QED BY <3>1, <3>2
    <2> QED BY <2>2, <2>3
  <1>5. CASE Remove(f)
    <2>1. f \in missed'
      BY <1>5 DEF Remove, Send
    <2>2. g # f => /\ disk'[g] = disk[g] /\ mtime'[g] = mtime[g]
                   /\ timeCache' = timeCache /\ received' = received
      BY <1>0, <1>5 DEF Remove, TypeOK
    <2> QED BY <1>1, <1>2, <1>3, <2>1, <2>2 DEF Known, Pending
  <1>6. CASE Again(f)
    BY <1>1, <1>2, <1>3, <1>6 DEF Again, Known, Pending
  <1> QED BY <1>4, <1>5, <1>6

LEMMA WatcherKnown ==
    ASSUME TypeOK, Clock, Watcher, NEW g \in Templated
    PROVE  Known(g) \subseteq Known(g)'
  <1>0. g \in Files /\ Rebuilding' = Rebuilding
    BY DEF Files, Watcher, Watch, Receive, Handle, Expire, Rebuilding, Building
  <1>1. CASE Watch
    BY <1>1 DEF Watch, Known, Pending, Flagged, Rebuilding, Building
  <1>2. CASE Receive
    <2>1. <<g>> \in {queue, received} => <<g>> \in {queue', received'}
      BY <1>2 DEF Receive
    <2>2. Flagged(g)' <=> Flagged(g)
      BY <1>0, <1>2 DEF Receive, Flagged
    <2> QED BY <1>2, <2>1, <2>2 DEF Receive, Known, Pending
  <1>3. CASE Handle
    <2> DEFINE f == Head(received)
    <2>1. /\ f \in Files /\ received \in Seq(Files) /\ Len(received) <= 1
          /\ received # <<>>
      BY <1>3 DEF Handle, TypeOK
    <2>2. Flagged(g) => Flagged(g)'
      BY <1>0, <1>3 DEF Handle, HandleGone, HandleChange, Flagged
    <2>3. CASE g # f
      <3>1. <<g>> # received
        BY <2>1, <2>3
      <3>2. timeCache'[g] = timeCache[g]
        BY <1>0, <1>3, <2>1, <2>3 DEF Handle, HandleGone, HandleChange, TypeOK
      <3> QED BY <1>3, <2>2, <3>1, <3>2 DEF Handle, Known, Pending
    <2>4. CASE g = f /\ HandleGone(f)
      <3>1. ~Pending(g)
        BY <2>4 DEF HandleGone, Pending
      <3> QED BY <1>3, <2>2, <3>1 DEF Handle, Known
    <2>5. CASE g = f /\ HandleChange(f) /\ IsEnable(f)
      <3>1. Flagged(g)'
        BY <2>5 DEF HandleChange, Flagged
      <3> QED BY <3>1 DEF Known
    <2>6. CASE g = f /\ HandleChange(f) /\ ~IsEnable(f)
      <3>1. ~Pending(g)
        BY <2>6 DEF IsEnable, Pending
      <3> QED BY <1>3, <2>2, <3>1 DEF Handle, Known
    <2> QED BY <1>3, <2>3, <2>4, <2>5, <2>6 DEF Handle
  <1>4. ASSUME NEW f \in Files, Expire(f) PROVE Known(g) \subseteq Known(g)'
    <2>1. Pending(g) => Pending(g)'
      BY <1>0, <1>4 DEF Expire, Pending, Clock, TypeOK
    <2>2. Flagged(g)' <=> Flagged(g)
      BY <1>0, <1>4 DEF Expire, Flagged
    <2> QED BY <1>4, <2>1, <2>2 DEF Expire, Known
  <1> QED BY <1>1, <1>2, <1>3, <1>4 DEF Watcher

-----------------------------------------------------------------------------
(* What the templates hold stays known. *)

\* A step that neither builds nor forgets.
LEMMA NoticedFrame ==
    ASSUME TypeOK, Noticed, UNCHANGED <<templates, layoutData>>,
           \A g \in Templated : Known(g) \subseteq Known(g)',
           \A b \in Builders : /\ pc'[b] = "pages" => pc[b] = "pages"
                               /\ pc'[b] = "layout" => pc[b] = "layout",
           ~poisoned' => ~poisoned, ~down' => ~down
    PROVE  Noticed'
  <1> SUFFICES ASSUME ~poisoned', ~down'
               PROVE  /\ \A p \in DOMAIN templates' :
                             /\ templates'[p].page \in Known(p)'
                             /\ templates'[p].layout \in Known(Layout)'
                      /\ \A b \in Builders :
                             /\ pc'[b] = "pages" => layoutData'[b] \in Known(Layout)'
                             /\ pc'[b] = "layout" => DOMAIN templates' = {}
    BY DEF Noticed
  <1>1. DOMAIN templates \subseteq Templated /\ Layout \in Templated
    BY DEF TypeOK, Templated
  <1>2. \A p \in DOMAIN templates : /\ templates[p].page \in Known(p)'
                                    /\ templates[p].layout \in Known(Layout)'
    BY <1>1 DEF Noticed
  <1>3. \A b \in Builders :
            /\ pc'[b] = "pages" => layoutData[b] \in Known(Layout)'
            /\ pc'[b] = "layout" => DOMAIN templates = {}
    BY <1>1 DEF Noticed
  <1> QED BY <1>2, <1>3

\* What is known of a file depends on these variables, and on whether a request
\* is rebuilding.
LEMMA KnownFrame ==
    ASSUME UNCHANGED <<disk, mtime, timeCache, queue, received, isRequireReload,
                       missed, during>>,
           Rebuilding' <=> Rebuilding,
           NEW g \in Templated
    PROVE  Known(g) \subseteq Known(g)'
  <1>1. Flagged(g)' <=> Flagged(g)
    BY DEF Flagged
  <1>2. Pending(g)' <=> Pending(g)
    BY DEF Pending
  <1> QED BY <1>1, <1>2 DEF Known

LEMMA BuildNoticed ==
    ASSUME TypeOK, OneRebuild, Noticed, ~poisoned, ~down,
           NEW b \in Builders, Build(b)
    PROVE  Noticed'
  <1>0. Layout \in Templated /\ Layout \in Files /\ Layout \notin Pages
    BY NamesAssumption DEF Templated, Files
  <1>1. CASE ReadLayout(b)
    <2>1. /\ pc[b] = "layout" /\ pc'[b] = "pages"
          /\ \A c \in Builders : c # b => pc'[c] = pc[c]
          /\ templates' = templates /\ layoutData'[b] = disk[Layout]
          /\ disk' = disk
      BY <1>1 DEF ReadLayout, Goto, TypeOK
    <2>2. DOMAIN templates' = {}
      BY <2>1 DEF Noticed
    <2>3. \A c \in Builders : pc'[c] = "pages" => c = b
      BY <2>1 DEF OneRebuild, Inside
    <2>4. layoutData'[b] \in Known(Layout)'
      BY <1>0, <2>1 DEF Known, TypeOK
    <2> QED BY <2>2, <2>3, <2>4 DEF Noticed
  <1>2. ASSUME NEW p \in Pages, BuildPage(b, p) PROVE Noticed'
    <2>1. /\ pc' = pc /\ pc[b] = "pages" /\ layoutData' = layoutData
          /\ DOMAIN templates' = DOMAIN templates \cup {p}
          /\ templates'[p] = [layout |-> layoutData[b], page |-> disk[p]]
          /\ \A q \in DOMAIN templates : q # p => templates'[q] = templates[q]
      BY <1>2 DEF BuildPage
    <2>2. ASSUME NEW g \in Templated, g # p PROVE Known(g) \subseteq Known(g)'
      <3>1. Flagged(g)' <=> Flagged(g)
        BY <1>2, <2>2 DEF BuildPage, Flagged, Rebuilding, Building
      <3>2. Pending(g)' <=> Pending(g)
        BY <1>2 DEF BuildPage, Pending
      <3> QED BY <1>2, <2>2, <3>1, <3>2 DEF BuildPage, Known
    <2>3. \A c \in Builders : pc[c] \in {"layout", "pages"} => c = b
      BY <2>1 DEF OneRebuild, Inside
    <2>4. layoutData[b] \in Known(Layout)'
      BY <1>0, <2>1, <2>2 DEF Noticed
    <2>5. disk[p] \in Known(p)'
      BY <1>2 DEF BuildPage, Known, TypeOK, Files, Templated
    <2>6. \A q \in DOMAIN templates : q # p =>
              /\ templates[q].page \in Known(q)'
              /\ templates[q].layout \in Known(Layout)'
      <3>1. DOMAIN templates \subseteq Templated
        BY DEF TypeOK, Templated
      <3> QED BY <1>0, <2>2, <3>1 DEF Noticed
    <2>7. \A q \in DOMAIN templates' :
              /\ templates'[q].page \in Known(q)'
              /\ templates'[q].layout \in Known(Layout)'
      BY <2>1, <2>4, <2>5, <2>6
    <2>8. \A c \in Builders : /\ pc'[c] = "pages" => layoutData'[c] \in Known(Layout)'
                              /\ pc'[c] # "layout"
      BY <2>1, <2>3, <2>4
    <2> QED BY <2>7, <2>8 DEF Noticed
  <1>3. CASE Panic(b)
    <2>1. poisoned' \/ down'
      BY <1>3 DEF Panic, Builders
    <2> QED BY <2>1 DEF Noticed
  <1> QED BY <1>1, <1>2, <1>3 DEF Build

LEMMA OutsideNoticed ==
    ASSUME TypeOK, Noticed, ~poisoned, ~down, NEW h \in Handlers, ~Building(h),
           NEW label, Goto(h, label), label \notin {"layout", "pages"},
           UNCHANGED <<dir, watcher, isRequireReload, templates, layoutData,
                       missed, during>>
    PROVE  Noticed'
  <1>1. /\ pc'[h] = label
        /\ \A b \in Builders : b # h => pc'[b] = pc[b]
    BY OnlyMoves
  <1>2. Rebuilding' <=> Rebuilding
    BY <1>1 DEF Rebuilding, Building, Builders
  <1>3. \A g \in Templated : Known(g) \subseteq Known(g)'
    BY <1>2, KnownFrame
  <1> QED BY <1>1, <1>3, NoticedFrame

LEMMA RequestNoticed ==
    ASSUME TypeOK, Mutex, Noticed, ~poisoned, ~down, NEW h \in Handlers,
           Arrive(h) \/ Serve(h)
    PROVE  Noticed'
  <1>0. h \in Builders /\ h # Main /\ OneRebuild
    BY NamesAssumption DEF Builders, Mutex
  <1>1. CASE Arrive(h)
    BY <1>1, OutsideNoticed DEF Arrive, Building
  <1>2. CASE CheckWatch(h)
    <2>1. PICK label \in {"lock", "render"} : Goto(h, label)
      BY <1>2 DEF CheckWatch
    <2> QED BY <1>2, <2>1, OutsideNoticed DEF CheckWatch, Building
  <1>3. CASE Lock(h)
    BY <1>3, OutsideNoticed DEF Lock, Building
  <1>4. CASE NoReload(h)
    BY <1>4, OutsideNoticed DEF NoReload, AfterRecheck, Building
  <1>5. CASE StartRebuild(h)
    <2>1. /\ pc'[h] = "layout"
          /\ \A b \in Builders : b # h => pc'[b] = pc[b]
      BY <1>5, OnlyMoves DEF StartRebuild
    <2>2. \A b \in Builders : pc'[b] # "pages"
      BY <1>0, <1>5, <2>1 DEF StartRebuild, OneRebuild, Inside
    <2>3. DOMAIN templates' = {}
      BY <1>5 DEF StartRebuild, Cleared
    <2> QED BY <2>2, <2>3 DEF Noticed
  <1>6. CASE Build(h)
    BY <1>0, <1>6, BuildNoticed
  <1>7. CASE ClearFlag(h)
    <2>1. /\ pc[h] = "pages" /\ pc'[h] = "unlock"
          /\ \A b \in Builders : b # h => pc'[b] = pc[b]
      BY <1>7, OnlyMoves DEF ClearFlag
    <2>2. Rebuilding
      BY <2>1 DEF Rebuilding, Building
    <2>3. ASSUME NEW g \in Templated PROVE Known(g) \subseteq Known(g)'
      <3>1. Flagged(g) => g \in missed'
        BY <1>7, <2>2 DEF ClearFlag, Flagged
      <3>2. Pending(g)' <=> Pending(g)
        BY <1>7 DEF ClearFlag, Pending
      <3> QED BY <1>7, <3>1, <3>2 DEF ClearFlag, Known
    <2> QED BY <1>7, <2>1, <2>3, NoticedFrame DEF ClearFlag
  <1>8. CASE Unlock(h)
    BY <1>8, OutsideNoticed DEF Unlock, Building
  <1>9. CASE Render(h)
    BY <1>9, OutsideNoticed DEF Render, Building
  <1> QED BY <1>1, <1>2, <1>3, <1>4, <1>5, <1>6, <1>7, <1>8, <1>9 DEF Serve

\* A panicked or killed server promises nothing, and stays that way.
LEMMA BrokenStays ==
    ASSUME TypeOK, [Next]_vars, poisoned \/ down
    PROVE  poisoned' \/ down'
  <1>1. CASE down
    BY <1>1 DEF Next
  <1>2. CASE Directory
    <2>1. UNCHANGED <<poisoned, down>>
      BY <1>2 DEF Directory, Edit, Remove, Again
    <2> QED BY <2>1
  <1>3. CASE Watcher
    BY <1>3 DEF Watcher, Watch, Receive, Handle, Expire
  <1>4. ASSUME NEW b \in Builders, Build(b) PROVE poisoned' \/ down'
    <2>1. CASE Panic(b)
      BY <2>1 DEF Panic
    <2>2. CASE ~Panic(b)
      <3>1. UNCHANGED <<poisoned, down>>
        BY <1>4, <2>2 DEF Build, ReadLayout, BuildPage
      <3> QED BY <3>1
    <2> QED BY <2>1, <2>2
  <1>5. CASE MainDone
    BY <1>5 DEF MainDone
  <1>6. ASSUME NEW h \in Handlers, Arrive(h) \/ Serve(h), ~Build(h), ~down
        PROVE  poisoned' \/ down'
    <2>1. UNCHANGED poisoned
      BY <1>6 DEF Arrive, Serve, CheckWatch, Lock, NoReload, StartRebuild,
                  ClearFlag, Unlock, Render
    <2> QED BY <1>6, <2>1
  <1> QED BY <1>1, <1>2, <1>3, <1>4, <1>5, <1>6 DEF Next, Builders

LEMMA StepNoticed ==
    TypeOK /\ Mutex /\ Clock /\ Noticed /\ [Next]_vars => Noticed'
  <1> SUFFICES ASSUME TypeOK, Mutex, Clock, Noticed, [Next]_vars PROVE Noticed'
    OBVIOUS
  <1>0. CASE poisoned \/ down
    BY <1>0, BrokenStays DEF Noticed
  <1>a. CASE ~poisoned /\ ~down
    <2>1. ASSUME NEW f \in Files, Edit(f) \/ Remove(f) \/ Again(f) PROVE Noticed'
      <3>1. \A g \in Templated : Known(g) \subseteq Known(g)'
        BY <2>1, DirectoryKnown
      <3>2. UNCHANGED <<pc, templates, layoutData, poisoned, down>>
        BY <2>1 DEF Edit, Remove, Again
      <3> QED BY <3>1, <3>2, NoticedFrame
    <2>2. CASE Watcher
      <3>1. \A g \in Templated : Known(g) \subseteq Known(g)'
        BY <2>2, WatcherKnown
      <3>2. UNCHANGED <<pc, templates, layoutData, poisoned, down>>
        BY <2>2 DEF Watcher, Watch, Receive, Handle, Expire
      <3> QED BY <3>1, <3>2, NoticedFrame
    <2>3. CASE Build(Main)
      BY <1>a, <2>3, BuildNoticed DEF Builders, Mutex
    <2>4. CASE MainDone
      <3>1. \A h \in Handlers : pc'[h] = pc[h]
        BY <2>4, NamesAssumption DEF MainDone, Goto, TypeOK, Builders
      <3>2. Rebuilding' <=> Rebuilding
        BY <3>1 DEF Rebuilding, Building
      <3>3. \A g \in Templated : Known(g) \subseteq Known(g)'
        BY <2>4, <3>2, KnownFrame DEF MainDone
      <3>4. pc'[Main] = "done"
        BY <2>4 DEF MainDone, Goto, TypeOK, Builders
      <3> QED BY <2>4, <3>1, <3>3, <3>4, NoticedFrame DEF MainDone, Builders
    <2>5. ASSUME NEW h \in Handlers, Arrive(h) \/ Serve(h) PROVE Noticed'
      BY <1>a, <2>5, RequestNoticed
    <2>6. CASE UNCHANGED vars
      <3>1. \A g \in Templated : Known(g) \subseteq Known(g)'
        BY <2>6, KnownFrame DEF Rebuilding, Building
      <3> QED BY <2>6, <3>1, NoticedFrame
    <2> QED BY <2>1, <2>2, <2>3, <2>4, <2>5, <2>6 DEF Next, Directory
  <1> QED BY <1>0, <1>a

\* With no event, no flag and no rebuild left, the server shows what is on disk,
\* except for files changed before the watch was installed, in the tick of
\* their last change, by removal, while another file's event filled the
\* channel, or between a rebuild's read and its clearing of isRequireReload.
THEOREM StaleOnlyWhenMissed == Spec => []StaleOnlyIfMissed
  <1> DEFINE Inv == TypeOK /\ Mutex /\ Clock /\ Noticed
  <1>1. Init => Inv
    BY InitType, InitMutex, InitNoticed
  <1>2. Inv /\ [Next]_vars => Inv'
    BY StepType, StepMutex, StepClock, StepNoticed
  <1>3. Inv => StaleOnlyIfMissed
    <2> SUFFICES ASSUME TypeOK, Noticed, Quiet, NEW p \in DOMAIN templates
                 PROVE  /\ p \in missed \/ templates[p].page = disk[p]
                        /\ Layout \in missed \/ templates[p].layout = disk[Layout]
      BY DEF StaleOnlyIfMissed
    <2>1. ~Rebuilding /\ ~isRequireReload /\ \A f \in Files : ~Pending(f)
      BY DEF Quiet, Rebuilding, Pending, Builders
    <2>2. p \in Files /\ Layout \in Files
      BY DEF TypeOK, Files, Templated
    <2> QED BY <2>1, <2>2 DEF Noticed, Quiet, Known, Flagged
  <1> QED BY <1>1, <1>2, <1>3, PTL DEF Spec
-----------------------------------------------------------------------------
(* The set of templates is replaced as a whole: TemplateSet. *)

\* A rebuild has built exactly the pages it has left behind.
Fresh ==
    \A b \in Builders :
        /\ pc[b] = "layout" => DOMAIN templates = {}
        /\ pc[b] = "pages" => DOMAIN templates = Pages \ todo[b]

LEMMA InitFresh == Init => Fresh
  BY DEF Init, Fresh

\* A step that leaves the templates alone and begins no rebuild.
LEMMA FreshFrame ==
    ASSUME Fresh, UNCHANGED <<templates, todo>>,
           \A b \in Builders : /\ pc'[b] = "pages" => pc[b] = "pages"
                               /\ pc'[b] = "layout" => pc[b] = "layout"
    PROVE  Fresh'
  BY DEF Fresh

LEMMA BuildFresh ==
    ASSUME TypeOK, OneRebuild, Fresh, NEW b \in Builders, Build(b)
    PROVE  Fresh'
  <1>1. CASE ReadLayout(b)
    <2>1. /\ pc[b] = "layout" /\ pc'[b] = "pages" /\ todo'[b] = Pages
          /\ \A c \in Builders : c # b => pc'[c] = pc[c]
          /\ templates' = templates
      BY <1>1 DEF ReadLayout, Goto, TypeOK
    <2>2. \A c \in Builders : c # b => ~Inside(c)
      BY <2>1 DEF OneRebuild, Inside
    <2> QED BY <2>1, <2>2 DEF Fresh, Inside
  <1>2. ASSUME NEW p \in Pages, BuildPage(b, p) PROVE Fresh'
    <2>1. /\ pc' = pc /\ pc[b] = "pages" /\ todo'[b] = todo[b] \ {p}
          /\ DOMAIN templates' = DOMAIN templates \cup {p}
      BY <1>2 DEF BuildPage, TypeOK
    <2>2. \A c \in Builders : c # b => ~Inside(c)
      BY <2>1 DEF OneRebuild, Inside
    <2> QED BY <2>1, <2>2 DEF Fresh, Inside
  <1>3. CASE Panic(b)
    <2>1. /\ pc[b] = "pages" /\ pc'[b] = "idle"
          /\ \A c \in Builders : c # b => pc'[c] = pc[c]
      BY <1>3 DEF Panic, Goto, TypeOK
    <2>2. \A c \in Builders : c # b => ~Inside(c)
      BY <2>1 DEF OneRebuild, Inside
    <2> QED BY <2>1, <2>2 DEF Fresh, Inside
  <1> QED BY <1>1, <1>2, <1>3 DEF Build

LEMMA StepFresh == TypeOK /\ Mutex /\ Fresh /\ [Next]_vars => Fresh'
  <1> SUFFICES ASSUME TypeOK, Mutex, Fresh, [Next]_vars PROVE Fresh'
    OBVIOUS
  <1>0. OneRebuild
    BY DEF Mutex
  <1>1. CASE Directory
    <2>1. UNCHANGED <<templates, todo, pc>>
      BY <1>1 DEF Directory, Edit, Remove, Again
    <2> QED BY <2>1, FreshFrame
  <1>2. CASE Watcher
    <2>1. UNCHANGED <<templates, todo, pc>>
      BY <1>2 DEF Watcher, Watch, Receive, Handle, Expire
    <2> QED BY <2>1, FreshFrame
  <1>3. ASSUME NEW b \in Builders, Build(b) PROVE Fresh'
    BY <1>0, <1>3, BuildFresh
  <1>4. CASE MainDone
    BY <1>4, FreshFrame DEF MainDone, Goto, TypeOK
  <1>5. ASSUME NEW h \in Handlers, StartRebuild(h) PROVE Fresh'
    <2>1. /\ pc[h] = "recheck" /\ pc'[h] = "layout" /\ DOMAIN templates' = {}
          /\ \A b \in Builders : b # h => pc'[b] = pc[b]
      BY <1>5, OnlyMoves DEF StartRebuild, Cleared
    <2>2. \A b \in Builders : b # h => ~Inside(b)
      BY <1>0, <2>1 DEF OneRebuild, Inside, Builders
    <2> QED BY <2>1, <2>2 DEF Fresh, Inside
  <1>6. ASSUME NEW h \in Handlers,
               \/ Arrive(h) \/ CheckWatch(h) \/ Lock(h) \/ NoReload(h)
               \/ ClearFlag(h) \/ Unlock(h) \/ Render(h)
        PROVE  Fresh'
    <2>1. PICK label \in Labels \ {"layout", "pages"} : Goto(h, label)
      BY <1>6 DEF Arrive, CheckWatch, Lock, NoReload, AfterRecheck, ClearFlag,
                  Unlock, Render, Labels
    <2>2. /\ pc'[h] = label
          /\ \A b \in Builders : b # h => pc'[b] = pc[b]
      BY <2>1, OnlyMoves
    <2>3. UNCHANGED <<templates, todo>>
      BY <1>6 DEF Arrive, CheckWatch, Lock, NoReload, ClearFlag, Unlock, Render
    <2> QED BY <2>1, <2>2, <2>3, FreshFrame
  <1>7. CASE UNCHANGED vars
    BY <1>7, FreshFrame
  <1> QED BY <1>1, <1>2, <1>3, <1>4, <1>5, <1>6, <1>7
          DEF Next, Serve, Builders

\* What the abstract stage is, given where the goroutines are.
StageIs ==
    ~poisoned /\ ~down =>
        /\ \A b \in Builders :
               /\ pc[b] = "layout" => Stage = "empty" /\ LayoutInUse = 0
               /\ pc[b] = "pages" => Stage = "filling" /\ LayoutInUse = layoutData[b]
        /\ (\A b \in Builders : ~Building(b)) => Stage = "complete" /\ LayoutInUse = 0

LEMMA StageIsSo == OneRebuild => StageIs
  <1> SUFFICES ASSUME OneRebuild, ~poisoned, ~down
               PROVE  /\ \A b \in Builders :
                             /\ pc[b] = "layout" => Stage = "empty" /\ LayoutInUse = 0
                             /\ pc[b] = "pages" =>
                                    /\ Stage = "filling"
                                    /\ LayoutInUse = layoutData[b]
                      /\ (\A b \in Builders : ~Building(b)) =>
                             Stage = "complete" /\ LayoutInUse = 0
    BY DEF StageIs
  <1>1. ASSUME NEW b \in Builders, pc[b] = "pages"
        PROVE  Stage = "filling" /\ LayoutInUse = layoutData[b]
    <2>1. \A c \in Builders : pc[c] \in {"layout", "pages"} => c = b
      BY <1>1 DEF OneRebuild, Inside
    <2>2. Stage = "filling"
      BY <1>1, <2>1 DEF Stage
    <2>3. (CHOOSE c \in Builders : pc[c] = "pages") = b
      BY <1>1, <2>1
    <2> QED BY <2>2, <2>3 DEF LayoutInUse
  <1>2. ASSUME NEW b \in Builders, pc[b] = "layout"
        PROVE  Stage = "empty" /\ LayoutInUse = 0
    BY <1>2 DEF Stage, LayoutInUse
  <1>3. ASSUME \A b \in Builders : ~Building(b)
        PROVE  Stage = "complete" /\ LayoutInUse = 0
    BY <1>3 DEF Stage, LayoutInUse, Building
  <1> QED BY <1>1, <1>2, <1>3

LEMMA StageIsSoNext == OneRebuild' => StageIs'
  BY StageIsSo, PTL

\* A step in which no rebuild moves leaves the abstract stage alone.
LEMMA StageFrame ==
    ASSUME OneRebuild, OneRebuild', UNCHANGED <<layoutData, poisoned, down>>,
           \A b \in Builders : /\ pc'[b] = "layout" <=> pc[b] = "layout"
                               /\ pc'[b] = "pages" <=> pc[b] = "pages"
    PROVE  UNCHANGED <<Stage, LayoutInUse>>
  <1>1. CASE poisoned \/ down
    BY <1>1 DEF Stage, LayoutInUse
  <1>2. CASE ~poisoned /\ ~down
    <2>1. StageIs /\ StageIs'
      BY StageIsSo, StageIsSoNext
    <2>2. CASE \A b \in Builders : ~Building(b)
      <3>1. \A b \in Builders : ~Building(b)'
        BY <2>2 DEF Building
      <3> QED BY <1>2, <2>1, <2>2, <3>1 DEF StageIs
    <2>3. ASSUME NEW b \in Builders, pc[b] = "layout"
          PROVE  UNCHANGED <<Stage, LayoutInUse>>
      <3>1. Stage = "empty" /\ LayoutInUse = 0
        BY <1>2, <2>1, <2>3 DEF StageIs
      <3>2. Stage' = "empty" /\ LayoutInUse' = 0
        BY <1>2, <2>1, <2>3 DEF StageIs
      <3> QED BY <3>1, <3>2
    <2>4. ASSUME NEW b \in Builders, pc[b] = "pages"
          PROVE  UNCHANGED <<Stage, LayoutInUse>>
      <3>1. Stage = "filling" /\ LayoutInUse = layoutData[b]
        BY <1>2, <2>1, <2>4 DEF StageIs
      <3>2. Stage' = "filling" /\ LayoutInUse' = layoutData[b]
        BY <1>2, <2>1, <2>4 DEF StageIs
      <3> QED BY <3>1, <3>2
    <2> QED BY <2>2, <2>3, <2>4 DEF Building
  <1> QED BY <1>1, <1>2

LEMMA InitTheSet == Init => TheSet!Init
  <1> SUFFICES ASSUME Init PROVE TheSet!Init
    OBVIOUS
  <1>1. pc[Main] = "layout" /\ Main \in Builders /\ ~poisoned /\ ~down
    BY DEF Init, Builders
  <1>2. Stage = "empty" /\ LayoutInUse = 0
    BY <1>1 DEF Stage, LayoutInUse
  <1> QED BY <1>2 DEF Init, TheSet!Init, TheSet!Nothing

\* The directory and the watcher change files and raise the flag.
LEMMA OutsideTheSet ==
    ASSUME TypeOK, TypeOK', OneRebuild, OneRebuild', Directory \/ Watcher
    PROVE  [TheSet!Next]_(TheSet!vars)
  <1>1. CASE Directory
    <2>1. UNCHANGED <<isRequireReload, templates, pc, layoutData, poisoned, down>>
      BY <1>1 DEF Directory, Edit, Remove, Again
    <2>2. UNCHANGED <<Stage, LayoutInUse>>
      BY <2>1, StageFrame
    <2>3. disk' \in [Files -> Versions]
      BY DEF TypeOK
    <2>4. TheSet!Change
      BY <2>1, <2>2, <2>3 DEF TheSet!Change
    <2> QED BY <2>4 DEF TheSet!Next
  <1>2. CASE Watcher
    <2>1. /\ UNCHANGED <<disk, templates, pc, layoutData, poisoned, down>>
          /\ isRequireReload' = isRequireReload \/ isRequireReload' = TRUE
      BY <1>2 DEF Watcher, Watch, Receive, Handle, HandleGone, HandleChange, Expire
    <2>2. UNCHANGED <<Stage, LayoutInUse>>
      BY <2>1, StageFrame
    <2>3. CASE isRequireReload' = isRequireReload
      BY <2>1, <2>2, <2>3 DEF TheSet!vars
    <2>4. CASE isRequireReload' = TRUE
      <3>1. TheSet!Notice
        BY <2>1, <2>2, <2>4 DEF TheSet!Notice
      <3> QED BY <3>1 DEF TheSet!Next
    <2> QED BY <2>1, <2>3, <2>4
  <1> QED BY <1>1, <1>2

LEMMA GiveUpTheSet ==
    ASSUME TypeOK, OneRebuild, ~poisoned, ~down, NEW b \in Builders, Panic(b)
    PROVE  TheSet!GiveUp
  <1>0. Stage = "filling"
    BY StageIsSo DEF Panic, StageIs
  <1>1. poisoned' \/ down'
    BY DEF Panic, Builders
  <1>2. Stage' = "dead" /\ LayoutInUse' = 0
    BY <1>1 DEF Stage, LayoutInUse
  <1> QED BY <1>0, <1>2 DEF Panic, TheSet!GiveUp

LEMMA BuildTheSet ==
    ASSUME TypeOK, OneRebuild, OneRebuild', Fresh, ~poisoned, ~down,
           NEW b \in Builders, Build(b)
    PROVE  [TheSet!Next]_(TheSet!vars)
  <1>0. StageIs /\ StageIs'
    BY StageIsSo, StageIsSoNext
  <1>1. CASE ReadLayout(b)
    <2>1. /\ pc[b] = "layout" /\ pc'[b] = "pages"
          /\ layoutData'[b] = disk[Layout]
          /\ UNCHANGED <<disk, isRequireReload, templates, poisoned, down>>
      BY <1>1 DEF ReadLayout, Goto, TypeOK
    <2>2. /\ Stage = "empty"
          /\ Stage' = "filling" /\ LayoutInUse' = disk[Layout]
      BY <1>0, <2>1 DEF StageIs
    <2>3. TheSet!ReadLayout
      BY <2>1, <2>2 DEF TheSet!ReadLayout
    <2> QED BY <2>3 DEF TheSet!Next
  <1>2. ASSUME NEW p \in Pages, BuildPage(b, p)
        PROVE  [TheSet!Next]_(TheSet!vars)
    <2>1. /\ pc[b] = "pages" /\ p \notin DOMAIN templates
          /\ UNCHANGED <<disk, isRequireReload, pc, layoutData, poisoned, down>>
      BY <1>2 DEF BuildPage, Fresh
    <2>2. Stage = "filling" /\ LayoutInUse = layoutData[b]
      BY <1>0, <2>1 DEF StageIs
    <2>3. UNCHANGED <<Stage, LayoutInUse>>
      BY <2>1, StageFrame
    <2>4. TheSet!Add(p)
      BY <1>2, <2>1, <2>2, <2>3 DEF BuildPage, TheSet!Add
    <2> QED BY <2>4 DEF TheSet!Next
  <1>3. CASE Panic(b)
    BY <1>3, GiveUpTheSet DEF TheSet!Next
  <1> QED BY <1>1, <1>2, <1>3 DEF Build

\* The loop over the pages ends: the set is complete.
LEMMA EndTheSet ==
    ASSUME TypeOK, OneRebuild, OneRebuild', Fresh, ~poisoned, ~down,
           NEW b \in Builders, pc[b] = "pages", AllBuilt(b),
           NEW label \in Labels \ {"layout", "pages"}, Goto(b, label),
           isRequireReload' \in {isRequireReload, FALSE},
           UNCHANGED <<disk, templates, layoutData, poisoned, down>>
    PROVE  [TheSet!Next]_(TheSet!vars)
  <1>1. Stage = "filling"
    BY StageIsSo DEF StageIs
  <1>2. DOMAIN templates = Pages
    BY DEF Fresh, AllBuilt
  <1>3. \A c \in Builders : ~Building(c)'
    <2>1. \A c \in Builders : c # b => ~Inside(c) /\ pc'[c] = pc[c]
      BY DEF OneRebuild, Inside, Goto, TypeOK
    <2>2. pc'[b] = label
      BY DEF Goto, TypeOK
    <2> QED BY <2>1, <2>2 DEF Inside, Building
  <1>4. Stage' = "complete" /\ LayoutInUse' = 0
    BY <1>3, StageIsSoNext DEF StageIs
  <1>5. TheSet!Complete
    BY <1>1, <1>2, <1>4 DEF TheSet!Complete
  <1> QED BY <1>5 DEF TheSet!Next

LEMMA RequestTheSet ==
    ASSUME TypeOK, OneRebuild, OneRebuild', Fresh, ~poisoned, ~down,
           NEW h \in Handlers, Arrive(h) \/ Serve(h)
    PROVE  [TheSet!Next]_(TheSet!vars)
  <1>0. h \in Builders
    BY DEF Builders
  <1>1. CASE StartRebuild(h)
    <2>1. /\ pc[h] = "recheck" /\ pc'[h] = "layout"
          /\ \A b \in Builders : b # h => pc'[b] = pc[b]
      BY <1>1, OnlyMoves DEF StartRebuild
    <2>2. \A b \in Builders : ~Building(b)
      BY <1>0, <2>1 DEF OneRebuild, Inside, Building
    <2>3. /\ isRequireReload /\ templates' = TheSet!Nothing
          /\ UNCHANGED <<disk, isRequireReload, poisoned, down>>
      BY <1>1 DEF StartRebuild, Cleared, TheSet!Nothing
    <2>4. /\ Stage = "complete" /\ LayoutInUse = 0
          /\ Stage' = "empty" /\ LayoutInUse' = 0
      BY <1>0, <2>1, <2>2, <2>3, StageIsSo, StageIsSoNext DEF StageIs
    <2>5. TheSet!Empty
      BY <2>3, <2>4 DEF TheSet!Empty
    <2> QED BY <2>5 DEF TheSet!Next
  <1>2. CASE Build(h)
    BY <1>0, <1>2, BuildTheSet
  <1>3. CASE ClearFlag(h)
    BY <1>0, <1>3, EndTheSet DEF ClearFlag, Labels
  <1>4. CASE Render(h) /\ down'
    <2>1. Stage' = "dead" /\ LayoutInUse' = 0
      BY <1>4 DEF Stage, LayoutInUse
    <2>2. PICK b \in Builders : pc[b] = "pages"
      BY <1>4 DEF Render, Writing
    <2>3. Stage = "filling"
      BY <2>2, StageIsSo DEF StageIs
    <2>4. TheSet!GiveUp
      BY <1>4, <2>1, <2>3 DEF Render, TheSet!GiveUp
    <2> QED BY <2>4 DEF TheSet!Next
  <1>5. CASE \/ Arrive(h) \/ CheckWatch(h) \/ Lock(h) \/ NoReload(h)
             \/ Unlock(h) \/ (Render(h) /\ ~down')
    <2>1. /\ UNCHANGED <<disk, isRequireReload, templates, layoutData, poisoned>>
          /\ ~Building(h)
      BY <1>5 DEF Arrive, CheckWatch, Lock, NoReload, Unlock, Render, Building
    <2>2. down' = down
      <3>1. CASE Render(h) /\ ~down'
        BY <3>1 DEF Render, TypeOK
      <3> QED BY <1>5, <3>1 DEF Arrive, CheckWatch, Lock, NoReload, Unlock
    <2>3. PICK label \in Labels \ {"layout", "pages"} : Goto(h, label)
      BY <1>5 DEF Arrive, CheckWatch, Lock, NoReload, AfterRecheck, Unlock,
                  Render, Labels
    <2>4. /\ pc'[h] = label
          /\ \A b \in Builders : b # h => pc'[b] = pc[b]
      BY <2>3, OnlyMoves
    <2>5. UNCHANGED <<Stage, LayoutInUse>>
      BY <2>1, <2>2, <2>4, StageFrame DEF Building
    <2> QED BY <2>1, <2>5 DEF TheSet!vars
  <1> QED BY <1>1, <1>2, <1>3, <1>4, <1>5 DEF Serve

\* Once a rebuild has panicked, nobody touches the templates or the flag but the
\* watcher; once the process is gone, nothing happens.
LEMMA DeadTheSet ==
    ASSUME TypeOK, TypeOK', Mutex, Mutex', [Next]_vars, poisoned \/ down
    PROVE  [TheSet!Next]_(TheSet!vars)
  <1>0. OneRebuild /\ OneRebuild'
    BY DEF Mutex
  <1>1. CASE UNCHANGED vars
    <2>1. UNCHANGED <<Stage, LayoutInUse>>
      BY <1>0, <1>1, StageFrame
    <2> QED BY <1>1, <2>1 DEF TheSet!vars
  <1>2. CASE Directory \/ Watcher
    BY <1>0, <1>2, OutsideTheSet
  <1>3. CASE ~down /\ (Build(Main) \/ MainDone \/ \E h \in Handlers : Arrive(h) \/ Serve(h))
    <2>1. poisoned /\ pc[Main] = "done" /\ \A h \in Handlers : ~Inside(h)
      BY <1>3 DEF Mutex, Guarded, MainFirst, OneRebuild
    <2>2. ~Build(Main) /\ ~MainDone
      BY <2>1 DEF Build, ReadLayout, BuildPage, Panic, MainDone
    <2>3. PICK h \in Handlers : Arrive(h) \/ Serve(h)
      BY <1>3, <2>2
    <2>4. Arrive(h) \/ CheckWatch(h) \/ Lock(h) \/ Render(h)
      BY <2>1, <2>3 DEF Serve, NoReload, StartRebuild, Build, ReadLayout,
                        BuildPage, Panic, ClearFlag, Unlock, Inside
    <2>5. UNCHANGED <<disk, isRequireReload, templates, poisoned>>
      BY <2>4 DEF Arrive, CheckWatch, Lock, Render
    <2>6. /\ Stage = "dead" /\ LayoutInUse = 0
          /\ Stage' = "dead" /\ LayoutInUse' = 0
      BY <2>1, <2>5 DEF Stage, LayoutInUse
    <2> QED BY <2>5, <2>6 DEF TheSet!vars
  <1> QED BY <1>1, <1>2, <1>3 DEF Next

LEMMA StepTheSet ==
    TypeOK /\ TypeOK' /\ Mutex /\ Mutex' /\ Fresh /\ [Next]_vars
        => [TheSet!Next]_(TheSet!vars)
  <1> SUFFICES ASSUME TypeOK, TypeOK', Mutex, Mutex', Fresh, [Next]_vars
               PROVE  [TheSet!Next]_(TheSet!vars)
    OBVIOUS
  <1>0. OneRebuild /\ OneRebuild'
    BY DEF Mutex
  <1>1. CASE poisoned \/ down
    BY <1>1, DeadTheSet
  <1>2. CASE ~poisoned /\ ~down
    <2>1. CASE Directory \/ Watcher
      BY <1>0, <2>1, OutsideTheSet
    <2>2. CASE Build(Main)
      BY <1>0, <1>2, <2>2, BuildTheSet DEF Builders
    <2>3. CASE MainDone
      BY <1>0, <1>2, <2>3, EndTheSet DEF MainDone, Builders, Labels
    <2>4. ASSUME NEW h \in Handlers, Arrive(h) \/ Serve(h)
          PROVE  [TheSet!Next]_(TheSet!vars)
      BY <1>0, <1>2, <2>4, RequestTheSet
    <2>5. CASE UNCHANGED vars
      <3>1. UNCHANGED <<Stage, LayoutInUse>>
        BY <1>0, <2>5, StageFrame
      <3> QED BY <2>5, <3>1 DEF TheSet!vars
    <2> QED BY <2>1, <2>2, <2>3, <2>4, <2>5 DEF Next
  <1> QED BY <1>1, <1>2

\* Rebuilding in place, with requests, edits and events in between, is one
\* replacement of the whole set of templates, for any number of requests.
THEOREM ServerKeepsTheSet == Spec => KeepsTheSet
  <1> DEFINE Inv == TypeOK /\ Mutex /\ Fresh
  <1>1. Init => Inv /\ TheSet!Init
    BY InitType, InitMutex, InitFresh, InitTheSet
  <1>2. Inv /\ [Next]_vars => Inv'
    BY StepType, StepMutex, StepFresh
  <1>3. Inv /\ Inv' /\ [Next]_vars => [TheSet!Next]_(TheSet!vars)
    BY StepTheSet
  <1> QED BY <1>1, <1>2, <1>3, PTL DEF Spec, KeepsTheSet, TheSet!Spec

\* What TemplateSet says of its templates.
LEMMA StepBegun == TheSet!Begun /\ [TheSet!Next]_(TheSet!vars) => TheSet!Begun'
  <1> SUFFICES ASSUME TheSet!Begun, [TheSet!Next]_(TheSet!vars)
               PROVE  TheSet!Begun'
    OBVIOUS
  <1>1. CASE TheSet!Empty
    BY <1>1 DEF TheSet!Empty, TheSet!Nothing, TheSet!Begun, TheSet!OneLayout
  <1>2. CASE TheSet!ReadLayout
    BY <1>2 DEF TheSet!ReadLayout, TheSet!Begun, TheSet!OneLayout
  <1>3. ASSUME NEW p \in Pages, TheSet!Add(p) PROVE TheSet!Begun'
    <2>1. \A q \in DOMAIN templates' : templates'[q].layout = LayoutInUse
      BY <1>3 DEF TheSet!Add, TheSet!Begun
    <2>2. Stage' = "filling" /\ LayoutInUse' = LayoutInUse
      BY <1>3 DEF TheSet!Add
    <2> QED BY <2>1, <2>2 DEF TheSet!Begun, TheSet!OneLayout
  <1>4. CASE \/ TheSet!Change \/ TheSet!Notice \/ TheSet!Complete
             \/ TheSet!GiveUp \/ UNCHANGED TheSet!vars
    BY <1>4 DEF TheSet!Change, TheSet!Notice, TheSet!Complete, TheSet!GiveUp,
                TheSet!vars, TheSet!Begun, TheSet!OneLayout
  <1> QED BY <1>1, <1>2, <1>3, <1>4 DEF TheSet!Next

\* The templates of one moment never come from two versions of the layout: a
\* property of TemplateSet, and so of the server that implements it.
THEOREM LayoutIsOne == Spec => []OneLayout
  <1>1. TheSet!Init => TheSet!Begun
    BY DEF TheSet!Init, TheSet!Nothing, TheSet!Begun, TheSet!OneLayout
  <1>2. TheSet!Begun => OneLayout
    BY DEF TheSet!Begun, TheSet!OneLayout, OneLayout
  <1>3. KeepsTheSet => []OneLayout
    BY <1>1, <1>2, StepBegun, PTL DEF KeepsTheSet, TheSet!Spec
  <1> QED BY <1>3, ServerKeepsTheSet
=============================================================================
