---------------------------- MODULE ContentReader ----------------------------
(***************************************************************************)
(* What net/http, the template loader and the overlay take something they  *)
(* opened for: Size items, the bytes of a file or the entries of a         *)
(* directory, and a position, from which the items that are there are      *)
(* handed out, and past which there is the end.  A read past the end of a  *)
(* file may spoil it: from then on it may say end of file anywhere, but it *)
(* still hands out no byte from the wrong place.                           *)
(***************************************************************************)
EXTENDS Integers

CONSTANTS Size,      \* items there are
          Positions, \* the positions Seek is asked for
          Lengths    \* how many items a read asks for

VARIABLES directory, \* the items are entries
          pos,       \* the position, as Seek returns it
          got,       \* what the last call returned: the items first .. last - 1
          spoiled    \* a read has gone past the end

vars == <<directory, pos, got, spoiled>>

Nothing == [first |-> 0, last |-> 0]

Init == directory \in BOOLEAN /\ pos = 0 /\ got = Nothing /\ spoiled = FALSE

\* A negative position is refused or taken for the beginning, and a directory
\* only goes back to the beginning.
Start(p)  == IF p < 0 THEN 0 ELSE p
MayNot(p) == p < 0 \/ (directory /\ p # 0)

Seek ==
    /\ \E p \in Positions : pos' = p \/ (MayNot(p) /\ pos' = pos)
    /\ got' = Nothing
    /\ UNCHANGED <<directory, spoiled>>

HandOut(n) ==
    /\ Start(pos) + n <= Size
    /\ got' = [first |-> Start(pos), last |-> Start(pos) + n]
    /\ pos' = Start(pos) + n
    /\ UNCHANGED <<directory, spoiled>>

\* What there is and was asked for, or less of it, but not nothing; of a
\* directory all that is left can be asked for.
Read    == \E len \in Lengths : \E n \in 1..len : HandOut(n)
ReadAll == directory /\ pos < Size /\ HandOut(Size - Start(pos))

ReadEnd ==
    /\ Start(pos) >= Size \/ spoiled
    /\ got' = Nothing
    /\ pos' \in {pos, Start(pos)}
    /\ spoiled' = (spoiled \/ pos > Size)
    /\ UNCHANGED directory

Next == Seek \/ Read \/ ReadAll \/ ReadEnd
Spec == Init /\ [][Next]_vars
=============================================================================
