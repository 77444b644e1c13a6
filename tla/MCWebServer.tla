---------------------------- MODULE MCWebServer ----------------------------
(* Small sets of requests and files for the runs of WebServer. *)
EXTENDS WebServer

CONSTANTS h1, h2, index, blocks, css

MCHandlers == {h1, h2}
MCPages    == {index, blocks}
MCOthers   == {css}

MCNoOthers == {}

\* The second edit leaves a file that does not parse; or every one parses.
MCBroken   == {2}
MCNoBroken == {}
=============================================================================
