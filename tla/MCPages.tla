------------------------------ MODULE MCPages ------------------------------
(* Small pages for the runs of Pages. *)
EXTENDS Pages

MCRounds == {1, 2}
MCUnread == {2, 3}
MCNone   == {}
=============================================================================
