-------------------------- MODULE MCBlockExplorer --------------------------
(* Chains and producers for the runs of BlockExplorer. *)
EXTENDS BlockExplorer

CONSTANTS alice, bob

\* The running total of the transactions of blocks 0..h: an empty block, pairs
\* (1 + 2, 3 + 4) of one and three transactions, an unpaired block on top.
Totals   == <<0, 1, 1, 3, 4, 6>>
MCTxsUpTo == [h \in 0..MaxHeight |-> Totals[h + 1]]

MCFormulators == {alice, bob}
MCFormulator  == [h \in 1..MaxHeight |-> IF h % 3 = 1 THEN bob ELSE alice]

\* The explorer starts with an empty chain, or over a chain that is already there.
MCFresh     == {0}
MCAnyHeight == 0..MaxHeight
=============================================================================
