----------------------------- MODULE BuiltInFile -----------------------------
(***************************************************************************)
(* A file or a directory built into the program (src/assets_vfsdata.go),   *)
(* opened and read by one goroutine.  Most files are kept compressed.  A   *)
(* decompressor only goes forward, so Seek notes the position, and the     *)
(* next Read decompresses again from the beginning or throws away what     *)
(* lies before it.  The other files are a bytes.Reader, and a directory is *)
(* a list of entries.                                                      *)
(*                                                                         *)
(* Bytes and entries are known by their place.  The file has a record of   *)
(* where its decompressor is, grPos; gr is where it really is.             *)
(***************************************************************************)
EXTENDS Integers

CONSTANTS Size,      \* uncompressedSize, len(content) or len(entries)
          Positions, \* the positions Seek is asked for
          Lengths    \* the lengths of the buffers, and the counts, asked for

ASSUME SizeAssumption == Size \in Nat
ASSUME CallsAssumption == Positions \subseteq Int /\ Lengths \subseteq Nat \ {0}

VARIABLES kind,     \* the type of what Open returned
          gr,       \* the bytes the decompressor has delivered since its reset
          grPos,    \* the same, as the file has it
          seekPos,  \* the position; of a bytes.Reader and of a Dir too
          returned, \* what the last call returned: first .. last - 1
          overran   \* a read has gone past the end; read by the properties only

fileVars == <<kind, gr, grPos, seekPos, returned, overran>>

Kinds == {"CompressedFile", "File", "Dir"}
None  == [first |-> 0, last |-> 0]

\* n items from place g on.
Items(g, n) == IF n = 0 THEN None ELSE [first |-> g, last |-> g + n]

\* Open.
FileInit ==
    /\ kind \in Kinds
    /\ gr = 0 /\ grPos = 0 /\ seekPos = 0
    /\ returned = None /\ overran = FALSE

\* Seek; with whence SeekCurrent and SeekEnd p is the sum.  The bytes.Reader
\* refuses a negative position, and the Dir all but the first.
Refused(p) == (kind = "File" /\ p < 0) \/ (kind = "Dir" /\ p # 0)

FileSeek ==
    /\ \E p \in Positions : seekPos' = IF Refused(p) THEN seekPos ELSE p
    /\ returned' = None
    /\ UNCHANGED <<kind, gr, grPos, overran>>

-----------------------------------------------------------------------------
(* Read of a CompressedFile. *)

\* Whether the decompressor has gone too far.
TooFar == grPos > seekPos

\* What gr and grPos are once Read has rewound; slip: grPos is left as it was.
SlipRewound == IF TooFar THEN [gr |-> 0, grPos |-> grPos]
                         ELSE [gr |-> gr, grPos |-> grPos]
Rewound     == IF TooFar THEN [gr |-> 0, grPos |-> 0]
                         ELSE [gr |-> gr, grPos |-> grPos]

\* The bytes to throw away.
Ahead == IF seekPos > Rewound.grPos THEN seekPos - Rewound.grPos ELSE 0

\* CopyN meets the end: its error is Read's, and grPos stays behind.
ReadPast ==
    /\ kind = "CompressedFile"
    /\ Rewound.gr + Ahead > Size
    /\ gr' = Size /\ grPos' = Rewound.grPos
    /\ returned' = None
    /\ overran' = (overran \/ seekPos > Size)
    /\ UNCHANGED <<kind, seekPos>>

\* Where grPos is after n bytes more, in a buffer for len.
Advanced(p, n, len) == p + n

\* The decompressor delivers n bytes, fewer than asked for if it likes, and none
\* only at the end.
ReadCompressed ==
    /\ kind = "CompressedFile"
    /\ \E len \in Lengths : \E n \in 0..len :
           LET g == Rewound.gr + Ahead
           IN  /\ g + n <= Size
               /\ n = 0 => g = Size
               /\ gr' = g + n
               /\ grPos' = Advanced(Rewound.grPos + Ahead, n, len)
               /\ seekPos' = grPos'
               /\ returned' = Items(g, n)
    /\ UNCHANGED <<kind, overran>>

-----------------------------------------------------------------------------
(* The other types. *)

Fewer(m, n) == IF m < n THEN m ELSE n
Left        == IF seekPos >= Size THEN 0 ELSE Size - seekPos

Advance(n) ==
    /\ seekPos' = seekPos + n
    /\ returned' = Items(seekPos, n)
    /\ UNCHANGED <<kind, gr, grPos>>

\* A bytes.Reader copies what there is.
ReadPlain ==
    /\ kind = "File"
    /\ \E len \in Lengths : Advance(Fewer(Left, len))
    /\ overran' = (overran \/ seekPos > Size)

\* Readdir of a Dir: count entries, or with a count of 0 or less all that are left.
ReadEntries ==
    /\ kind = "Dir"
    /\ Advance(Left) \/ (\E count \in Lengths : Advance(Fewer(Left, count)))
    /\ UNCHANGED overran

FileRead == ReadPast \/ ReadCompressed \/ ReadPlain \/ ReadEntries
FileNext == FileSeek \/ FileRead

FileSpec == FileInit /\ [][FileNext]_fileVars

-----------------------------------------------------------------------------
(* Properties. *)

\* The type invariant.
FileTypeOK ==
    /\ kind \in Kinds
    /\ gr \in 0..Size /\ grPos \in 0..Size
    /\ seekPos \in Int
    /\ kind = "File" => seekPos >= 0
    /\ kind = "Dir" => seekPos \in 0..Size
    /\ returned \in [first : 0..Size, last : 0..Size]
    /\ overran \in BOOLEAN

Reader == INSTANCE ContentReader WITH
    directory <- kind = "Dir", pos <- seekPos, got <- returned,
    spoiled <- overran

\* However the calls jump about, what was opened is Size items with a position:
\* neither its type nor how often it was decompressed again can be told.
ReadsContent == Reader!Spec
=============================================================================
