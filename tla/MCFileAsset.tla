---------------------------- MODULE MCFileAsset ----------------------------
(* Small directories for the runs of FileAsset. *)
EXTENDS FileAsset

CONSTANTS a, b, c

MCNames == {a, b, c}

\* Nothing, one name alone, and the same name behind and in front of another one.
MCDirectories == {<<>>, <<a>>, <<b, a>>, <<a, c>>}

\* The web server lists one name per call, net/http the whole directory.
MCSome == {1, 2}
MCAll  == {-1}
=============================================================================
