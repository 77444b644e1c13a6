------------------------------ MODULE MCAssets ------------------------------
(* A small file for the run of Assets. *)
EXTENDS Assets, MCFileAsset

\* Before, inside and past a file of three bytes.
MCPositions == -1..5
MCLengths   == {1, 2, 4}
=============================================================================
