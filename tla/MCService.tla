----------------------------- MODULE MCService -----------------------------
(* Small sets of pages and handlers for the run of Service. *)
EXTENDS Service

CONSTANTS u1, u2, p1, p2, p3

MCURLs     == {u1, u2}
MCPacks    == {p1, p2, p3}
MCHandling == {p2, p3}
=============================================================================
