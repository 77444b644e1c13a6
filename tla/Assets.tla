------------------------------- MODULE Assets -------------------------------
(***************************************************************************)
(* A path opened through the overlay of the web server (Open and checkDir  *)
(* of src/file_asset.go).  A directory becomes a File that lists all the   *)
(* layers as one, module FileAsset.  What only the bottom layer has, and   *)
(* is no directory, is handed through as that layer opened it, module      *)
(* BuiltInFile; so is the directory of the bottom layer to the File.       *)
(***************************************************************************)
EXTENDS FileAsset, BuiltInFile

assetVars == <<vars, fileVars>>

OpenListing == Init /\ FileInit /\ kind = "Dir"

\* Nothing is listed.
OpenBuiltIn ==
    /\ FileInit
    /\ content = [l \in Layers |-> Missing]
    /\ left = [l \in Layers |-> <<>>] /\ readed = {}
    /\ pc = "end" /\ count = 0 /\ fis = <<>> /\ err = "nil" /\ layer = 0
    /\ given = <<>> /\ result = "none" /\ cut = {}
    /\ late = {} /\ failed = {}

Open == OpenListing \/ OpenBuiltIn

UseListing == Next /\ UNCHANGED fileVars
UseBuiltIn == /\ \A l \in Layers : content[l] = Missing
              /\ FileNext
              /\ UNCHANGED vars

\* The callers list in a loop until a call fails; nothing is promised of a file.
AssetsSpec ==
    Open /\ [][UseListing \/ UseBuiltIn]_assetVars /\ WF_vars(Readdir)
=============================================================================
