----------------------------- MODULE ChainIndex -----------------------------
(***************************************************************************)
(* What the explorer promises about its database, whatever happens between *)
(* two steps of the program: blocks enter the index one at a time and stay *)
(* there, and the published summary jumps forward to a height whose blocks *)
(* (up to the last complete pair) are all in the index, or given up after  *)
(* a failure, with the total those blocks amount to.  When the chain comes *)
(* back shorter, the height may go back and the total is no longer exact,  *)
(* but neither runs ahead of the index or goes down.  Memory, rounds and   *)
(* restarts do not exist here; when things happen is said by               *)
(* EventuallyIndexed and SummaryCatchesUp of BlockExplorer.                *)
(***************************************************************************)
EXTENDS Integers

CONSTANTS MaxHeight,   \* bound: the highest block of the chain
          TxsUpTo,     \* TxsUpTo[h]: number of transactions of blocks 1..h
          InitHeights  \* heights the chain may have at first

VARIABLES top,          \* height of the chain
          indexed,      \* blocks whose keys can be looked up
          lost,         \* blocks given up after a failed read or commit
          rewound,      \* the chain has lost blocks
          blocks,       \* the published height
          transactions  \* the published total

vars == <<top, indexed, lost, rewound, blocks, transactions>>

\* Blocks are taken in pairs: those of a complete pair at or below h.
Complete(h) == 1..(h - (h % 2))
Total(h)    == TxsUpTo[h - (h % 2)]

Init ==
    /\ top \in InitHeights
    /\ indexed = {} /\ lost = {} /\ rewound = FALSE
    /\ blocks = 0 /\ transactions = 0

Grow ==
    /\ top < MaxHeight
    /\ top' = top + 1
    /\ UNCHANGED <<indexed, lost, rewound, blocks, transactions>>

Recover ==
    /\ top' \in 0..(top - 1)
    /\ rewound' = TRUE
    /\ UNCHANGED <<indexed, lost, blocks, transactions>>

Index(h) ==
    /\ h \in Complete(top)
    /\ indexed' = indexed \cup {h}
    /\ UNCHANGED <<top, lost, rewound, blocks, transactions>>

\* Failures only add to what is lost: a block, or a pair that could not be read.
GiveUp ==
    /\ \E failed \in SUBSET Complete(top) : lost' = lost \cup failed
    /\ UNCHANGED <<top, indexed, rewound, blocks, transactions>>

Publish(h) ==
    /\ h <= top
    /\ Complete(h) \subseteq indexed \cup lost
    /\ blocks' = h
    /\ transactions' \in Nat /\ transactions <= transactions'
    /\ ~rewound => /\ blocks <= h
                   /\ transactions' <= Total(h)
                   /\ lost = {} => transactions' = Total(h)
    /\ UNCHANGED <<top, indexed, lost, rewound>>

Next == \/ Grow \/ Recover \/ GiveUp
        \/ \E h \in 1..MaxHeight : Index(h)
        \/ \E h \in 0..MaxHeight : Publish(h)

Spec == Init /\ [][Next]_vars
=============================================================================
