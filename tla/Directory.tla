----------------------------- MODULE Directory -----------------------------
(***************************************************************************)
(* What the overlay promises who lists a directory of it: one directory.   *)
(* A call of Readdir answers at once, with at least one entry and no more  *)
(* than were asked for, each under a name that was not listed before and   *)
(* from the layer that Open would ask first.  It may miss names it has no  *)
(* room for, and says that it is at the end only when every name has been  *)
(* listed or missed.  A layer whose reading fails is out of the promise    *)
(* from then on, with its own names and with no others: nobody may be told *)
(* of it, and its files still open.  Layers may come at any time; what     *)
(* came late does not count as the first, and the disk may then list names *)
(* again.  Cursors, and the way a call works through the layers, do not    *)
(* exist here.                                                             *)
(***************************************************************************)
EXTENDS Integers, Sequences

CONSTANTS Names,  \* of files
          Layers, \* numbered from the top
          Disk,   \* the top one
          Counts  \* the arguments of Readdir

VARIABLES has,    \* has[l]: the names layer l has in the directory
          late,   \* layers that came when the listing had begun
          given,  \* the entries listed, each a name and its layer
          missed, \* names there was no room for
          failed, \* layers that could not be read
          over    \* how the listing ended, or "none"

vars == <<has, late, given, missed, failed, over>>

Files == UNION {has[l] : l \in Layers}

Listed(s) == {s[k].name : k \in DOMAIN s}

Init ==
    /\ has \in [Layers -> SUBSET Names] /\ late = {}
    /\ given = <<>> /\ missed = {} /\ failed = {} /\ over = "none"

\* A layer comes, with or without the directory.
Come(l) ==
    /\ over = "none"
    /\ has[l] = {}
    /\ \E names \in SUBSET Names : has' = [has EXCEPT ![l] = names]
    /\ late' \in {late, late \cup {l}} /\ (given # <<>> => l \in late')
    /\ UNCHANGED <<given, missed, failed, over>>

\* Reading a layer fails.
Fail(l) ==
    /\ over = "none"
    /\ failed' = failed \cup {l}
    /\ UNCHANGED <<has, late, given, missed, over>>

\* Entry e is the file Open takes for its name.
First(e) ==
    /\ e.name \in has[e.layer]
    /\ \A m \in Layers \ (late \cup failed) : m < e.layer => e.name \notin has[m]

\* Entry e may be listed when entry g is.
MayFollow(g, e) ==
    g.name = e.name => e.layer = Disk /\ g.layer # Disk /\ Disk \in late

Miss == missed \subseteq missed' /\ missed' \subseteq missed \cup Files

Answer(c) ==
    /\ over = "none"
    /\ Len(given') - Len(given) \in IF c > 0 THEN 1..c ELSE {0}
    /\ \A k \in DOMAIN given : given'[k] = given[k]
    /\ \A k \in DOMAIN given' \ DOMAIN given :
           /\ First(given'[k])
           /\ \A j \in DOMAIN given : MayFollow(given[j], given'[k])
           /\ \A j \in DOMAIN given' \ DOMAIN given :
                  given'[j].name = given'[k].name => j = k
    /\ Miss
    /\ UNCHANGED <<has, late, failed, over>>

\* Every name of a layer that could be read is listed, or now missed.
Complete ==
    \A l \in Layers \ failed : has[l] \subseteq Listed(given) \cup missed'

\* An error is one of the layers'; a call with a negative count panics when it
\* finds something.
End ==
    /\ over = "none"
    /\ \/ over' = "EOF" /\ ((\A c \in Counts : c > 0) => Complete) /\ failed' = failed
       \/ over' = "error" /\ failed' \in {failed, failed \cup {Disk}} \ {{}}
       \/ over' = "panic" /\ (\E c \in Counts : c < 0) /\ failed' = failed
    /\ Miss
    /\ UNCHANGED <<has, late, given>>

Next == \/ \E l \in Layers : Come(l) \/ Fail(l)
        \/ \E c \in Counts : Answer(c)
        \/ End

Spec == Init /\ [][Next]_vars
=============================================================================
