------------------------- MODULE BuiltInFile_proofs -------------------------
(***************************************************************************)
(* A built-in file (BuiltInFile) of any size, read with any sequence of    *)
(* calls, is what ContentReader says it is.                                *)
(***************************************************************************)
EXTENDS BuiltInFile, TLAPS

\* The record of the decompressor's place is right, until a read has gone past
\* the end; after that the decompressor may also be at the end without the file
\* knowing, where it delivers nothing.
RecordRight == gr = grPos \/ (overran /\ gr = Size)

FileInv == FileTypeOK /\ RecordRight

\* Where a read of a compressed file begins, once it has rewound and skipped.
LEMMA Skipped ==
    ASSUME FileInv
    PROVE  /\ Rewound.gr \in 0..Size /\ Rewound.grPos \in 0..Size /\ Ahead \in Nat
           /\ Rewound.grPos + Ahead = Reader!Start(seekPos)
           /\ \/ Rewound.gr + Ahead = Reader!Start(seekPos)
              \/ overran /\ Rewound.gr = Size
  <1>1. CASE TooFar
    BY <1>1, SizeAssumption DEF FileInv, FileTypeOK, Rewound, Ahead, TooFar, Reader!Start
  <1>2. CASE ~TooFar
    BY <1>2, SizeAssumption
       DEF FileInv, FileTypeOK, RecordRight, Rewound, Ahead, TooFar, Reader!Start
  <1> QED BY <1>1, <1>2

LEMMA ItemsType ==
    ASSUME NEW g \in 0..Size, NEW n \in Nat, g + n <= Size
    PROVE  Items(g, n) \in [first : 0..Size, last : 0..Size]
  BY SizeAssumption DEF Items, None

LEMMA InitFileInv == FileInit => FileInv
  <1> SUFFICES ASSUME FileInit PROVE FileInv
    OBVIOUS
  <1>1. overran \in BOOLEAN
    BY DEF FileInit
  <1>2. None \in [first : 0..Size, last : 0..Size]
    BY SizeAssumption DEF None
  <1> QED BY <1>1, <1>2, SizeAssumption
          DEF FileInit, FileInv, FileTypeOK, RecordRight, Kinds

\* What the reads of the other two types hand out.
LEMMA Handed ==
    ASSUME FileTypeOK, seekPos >= 0, NEW m \in Nat
    PROVE  /\ Left \in Nat /\ Fewer(Left, m) \in 0..m
           /\ Fewer(Left, m) <= Left
           /\ Left # 0 => seekPos + Left = Size
           /\ Left = 0 => seekPos >= Size
  BY SizeAssumption DEF FileTypeOK, Left, Fewer

\* A bytes.Reader or a Dir that hands out n of the items that are left, which is
\* what fits in len, or all of them.
LEMMA Advancing ==
    ASSUME FileInv, kind \in {"File", "Dir"}, NEW n \in 0..Left, Advance(n),
           overran' = (overran \/ seekPos > Size),
           n = 0 => Left = 0,
           \/ \E len \in Lengths : n \in 0..len
           \/ kind = "Dir" /\ n = Left
    PROVE  FileInv' /\ [Reader!Next]_(Reader!vars)
  <1>t. /\ kind \in Kinds /\ gr \in 0..Size /\ grPos \in 0..Size /\ seekPos \in Nat
        /\ (kind = "Dir" => seekPos \in 0..Size)
        /\ overran \in BOOLEAN /\ Size \in Nat
    BY SizeAssumption DEF FileInv, FileTypeOK
  <1>a. /\ seekPos' = seekPos + n /\ returned' = Items(seekPos, n)
        /\ UNCHANGED <<kind, gr, grPos>>
    BY DEF Advance
  <1>l. /\ n \in Nat /\ Left \in Nat
        /\ Left # 0 => seekPos + Left = Size
        /\ Left = 0 => seekPos >= Size
    BY <1>t, Handed DEF FileInv
  <1>o. overran' \in BOOLEAN /\ (overran => overran')
    OBVIOUS
  <1>r. RecordRight'
    BY <1>a, <1>o DEF FileInv, RecordRight
  <1>s. Reader!Start(seekPos) = seekPos
    BY <1>t DEF Reader!Start
  <1>1. CASE n = 0
    <2>1. returned' = None /\ seekPos' = seekPos /\ seekPos >= Size
      BY <1>1, <1>a, <1>l, <1>t DEF Items
    <2>2. FileTypeOK'
      <3>1. None \in [first : 0..Size, last : 0..Size]
        BY <1>t DEF None
      <3> QED BY <1>t, <1>a, <1>o, <2>1, <3>1 DEF FileTypeOK
    <2>3. Reader!ReadEnd
      BY <1>a, <1>s, <2>1 DEF Reader!ReadEnd, None, Reader!Nothing
    <2> QED BY <1>r, <2>2, <2>3 DEF FileInv, Reader!Next
  <1>2. CASE n # 0
    <2>1. /\ seekPos + n <= Size /\ n \in Nat /\ Left # 0 /\ ~(seekPos > Size)
          /\ seekPos \in 0..Size
      BY <1>2, <1>l, <1>t
    <2>2. FileTypeOK'
      <3>1. returned' \in [first : 0..Size, last : 0..Size]
        BY <1>a, <2>1, ItemsType
      <3>2. seekPos' \in 0..Size
        BY <1>a, <1>t, <2>1
      <3> QED BY <1>t, <1>a, <1>o, <3>1, <3>2 DEF FileTypeOK
    <2>3. Reader!HandOut(n)
      <3>1. overran' = overran
        BY <1>t, <2>1
      <3> QED BY <1>a, <1>s, <1>2, <2>1, <3>1 DEF Reader!HandOut, Items
    <2>4. CASE \E len \in Lengths : n \in 0..len
      <3>1. PICK len \in Lengths : n \in 0..len
        BY <2>4
      <3>2. n \in 1..len
        BY <1>2, <3>1, CallsAssumption
      <3>3. Reader!Read
        BY <2>3, <3>2 DEF Reader!Read
      <3> QED BY <1>r, <2>2, <3>3 DEF FileInv, Reader!Next
    <2>5. CASE kind = "Dir" /\ n = Left
      <3>1. n = Size - seekPos /\ seekPos < Size
        BY <2>1, <2>5, <1>l, <1>t, <1>2
      <3>2. Reader!ReadAll
        BY <1>s, <2>3, <2>5, <3>1 DEF Reader!ReadAll
      <3> QED BY <1>r, <2>2, <3>2 DEF FileInv, Reader!Next
    <2> QED BY <2>4, <2>5
  <1> QED BY <1>1, <1>2

\* A step keeps the invariant and is one of ContentReader.
LEMMA FileStep ==
    ASSUME FileInv, FileNext
    PROVE  FileInv' /\ [Reader!Next]_(Reader!vars)
  <1>t. /\ kind \in Kinds /\ gr \in 0..Size /\ grPos \in 0..Size /\ seekPos \in Int
        /\ (kind = "File" => seekPos >= 0) /\ (kind = "Dir" => seekPos \in 0..Size)
        /\ overran \in BOOLEAN /\ Size \in Nat
    BY SizeAssumption DEF FileInv, FileTypeOK
  <1>n. None \in [first : 0..Size, last : 0..Size] /\ None = Reader!Nothing
    BY SizeAssumption DEF None, Reader!Nothing
  <1>1. CASE FileSeek
    <2>1. PICK p \in Positions : seekPos' = IF Refused(p) THEN seekPos ELSE p
      BY <1>1 DEF FileSeek
    <2>2. p \in Int
      BY CallsAssumption
    <2>3. /\ UNCHANGED <<kind, gr, grPos, overran>> /\ returned' = None
      BY <1>1 DEF FileSeek
    <2>4. FileInv'
      <3>1. /\ seekPos' \in Int /\ (kind = "File" => seekPos' >= 0)
            /\ (kind = "Dir" => seekPos' \in 0..Size)
        BY <1>t, <2>1, <2>2 DEF Refused
      <3>2. FileTypeOK'
        BY <1>t, <1>n, <2>3, <3>1 DEF FileTypeOK
      <3>3. RecordRight'
        BY <2>3 DEF FileInv, RecordRight
      <3> QED BY <3>2, <3>3 DEF FileInv
    <2>5. Reader!Seek
      <3>1. seekPos' = p \/ (Reader!MayNot(p) /\ seekPos' = seekPos)
        BY <2>1 DEF Refused, Reader!MayNot
      <3> QED BY <1>n, <2>3, <3>1 DEF Reader!Seek
    <2> QED BY <2>4, <2>5 DEF Reader!Next
  <1>2. CASE ReadPast
    <2>1. /\ kind = "CompressedFile" /\ Rewound.gr + Ahead > Size
          /\ gr' = Size /\ grPos' = Rewound.grPos /\ returned' = None
          /\ overran' = (overran \/ seekPos > Size)
          /\ UNCHANGED <<kind, seekPos>>
      BY <1>2 DEF ReadPast
    <2>2. seekPos > Size \/ overran
      BY <1>t, <2>1, Skipped DEF Reader!Start
    <2>3. overran' = TRUE
      BY <2>1, <2>2
    <2>4. FileTypeOK'
      <3>1. overran' \in BOOLEAN
        BY <2>3
      <3>2. gr' \in 0..Size /\ grPos' \in 0..Size
        BY <1>t, <2>1, Skipped
      <3> QED BY <1>t, <1>n, <2>1, <3>1, <3>2 DEF FileTypeOK
    <2>5. RecordRight'
      BY <2>1, <2>3 DEF RecordRight
    <2>6. Reader!ReadEnd
      <3>1. Reader!Start(seekPos) >= Size \/ overran
        BY <1>t, <2>2 DEF Reader!Start
      <3> QED BY <1>n, <2>1, <3>1 DEF Reader!ReadEnd
    <2> QED BY <2>4, <2>5, <2>6 DEF FileInv, Reader!Next
  <1>3. CASE ReadCompressed
    <2> DEFINE g == Rewound.gr + Ahead
               p == Rewound.grPos + Ahead
    <2>0. PICK len \in Lengths : \E n \in 0..len :
              /\ g + n <= Size /\ (n = 0 => g = Size)
              /\ gr' = g + n /\ grPos' = p + n /\ seekPos' = p + n
              /\ returned' = Items(g, n)
      BY <1>3 DEF ReadCompressed, Advanced
    <2>1. PICK n \in 0..len :
              /\ g + n <= Size /\ (n = 0 => g = Size)
              /\ gr' = g + n /\ grPos' = p + n /\ seekPos' = p + n
              /\ returned' = Items(g, n)
      BY <2>0
    <2>2. /\ kind = "CompressedFile" /\ UNCHANGED <<kind, overran>>
      BY <1>3 DEF ReadCompressed
    <2>3. len \in Nat /\ n \in Nat /\ (n # 0 => n \in 1..len)
      BY CallsAssumption
    <2>4. /\ g \in 0..Size /\ p \in Nat /\ p = Reader!Start(seekPos)
          /\ g = p \/ (overran /\ g = Size)
      BY <1>t, <2>1, <2>3, Skipped
    <2> HIDE DEF g, p
    <2>5. CASE n # 0
      <3>1. g = p
        BY <1>t, <2>1, <2>3, <2>4, <2>5
      <3>2. FileTypeOK'
        <4>1. returned' \in [first : 0..Size, last : 0..Size]
          BY <2>1, <2>3, <2>4, ItemsType
        <4>2. gr' \in 0..Size /\ grPos' \in 0..Size /\ seekPos' \in Int
          BY <1>t, <2>1, <2>3, <2>4, <3>1
        <4> QED BY <1>t, <2>2, <4>1, <4>2 DEF FileTypeOK
      <3>3. RecordRight'
        BY <2>1, <3>1 DEF RecordRight
      <3>4. Reader!HandOut(n)
        BY <2>1, <2>2, <2>4, <2>5, <3>1 DEF Items, Reader!HandOut
      <3>5. Reader!Read
        BY <2>3, <2>5, <3>4 DEF Reader!Read
      <3> QED BY <3>2, <3>3, <3>5 DEF FileInv, Reader!Next
    <2>6. CASE n = 0
      <3>1. /\ gr' = Size /\ grPos' = p /\ seekPos' = p /\ returned' = None
            /\ g = Size
        BY <1>t, <2>1, <2>4, <2>6 DEF Items
      <3>2. p = Size \/ overran
        BY <2>4, <3>1
      <3>3. p <= Size
        <4>1. CASE g = p
          BY <1>t, <3>1, <4>1
        <4>2. CASE overran /\ Rewound.gr = Size
          <5>1. Ahead = 0
            BY <1>t, <2>4, <3>1, <4>2, Skipped DEF g
          <5> QED BY <1>t, <5>1, Skipped DEF p
        <4> QED BY <2>4, <4>1, <4>2, Skipped DEF g, p
      <3>4. FileTypeOK'
        BY <1>t, <1>n, <2>2, <2>4, <3>1, <3>3 DEF FileTypeOK
      <3>5. RecordRight'
        BY <2>2, <3>1, <3>2 DEF RecordRight
      <3>6. Reader!ReadEnd
        <4>1. Reader!Start(seekPos) >= Size \/ overran
          BY <1>t, <2>4, <3>2
        <4>2. seekPos > Size => overran
          BY <1>t, <2>4, <3>2, <3>3 DEF Reader!Start
        <4>3. overran' = (overran \/ seekPos > Size)
          BY <1>t, <2>2, <4>2
        <4> QED BY <1>n, <2>2, <2>4, <3>1, <4>1, <4>3 DEF Reader!ReadEnd
      <3> QED BY <3>4, <3>5, <3>6 DEF FileInv, Reader!Next
    <2> QED BY <2>5, <2>6
  <1>4. CASE ReadPlain
    <2>1. PICK len \in Lengths : Advance(Fewer(Left, len))
      BY <1>4 DEF ReadPlain
    <2>2. kind = "File" /\ overran' = (overran \/ seekPos > Size)
      BY <1>4 DEF ReadPlain
    <2>3. len \in Nat
      BY CallsAssumption
    <2>4. len # 0
      BY CallsAssumption
    <2>5. Fewer(Left, len) \in 0..len /\ Fewer(Left, len) \in 0..Left
      BY <1>t, <2>2, <2>3, Handed DEF FileInv
    <2>6. Fewer(Left, len) = 0 => Left = 0
      BY <1>t, <2>2, <2>3, <2>4, Handed DEF FileInv, Fewer
    <2> QED BY <1>t, <2>1, <2>2, <2>3, <2>5, <2>6, Advancing
  <1>5. CASE ReadEntries
    <2>1. kind = "Dir" /\ overran' = overran
      BY <1>5 DEF ReadEntries
    <2>2. overran' = (overran \/ seekPos > Size)
      BY <1>t, <2>1
    <2>3. CASE Advance(Left)
      <3>1. Left \in Nat
        BY <1>t, <2>1, Handed DEF FileInv
      <3> QED BY <1>t, <2>1, <2>2, <2>3, <3>1, Advancing
    <2>4. CASE \E count \in Lengths : Advance(Fewer(Left, count))
      <3>1. PICK count \in Lengths : Advance(Fewer(Left, count))
        BY <2>4
      <3>2. count \in Nat
        BY CallsAssumption
      <3>3. count # 0
        BY CallsAssumption
      <3>5. Fewer(Left, count) \in 0..count /\ Fewer(Left, count) \in 0..Left
        BY <1>t, <2>1, <3>2, Handed DEF FileInv
      <3>6. Fewer(Left, count) = 0 => Left = 0
        BY <1>t, <2>1, <3>2, <3>3, Handed DEF FileInv, Fewer
      <3> QED BY <1>t, <2>1, <2>2, <3>1, <3>2, <3>5, <3>6, Advancing
    <2> QED BY <1>5, <2>3, <2>4 DEF ReadEntries
  <1> QED BY <1>1, <1>2, <1>3, <1>4, <1>5 DEF FileNext, FileRead

\* Types hold, and the record of the decompressor's place is right.
THEOREM FileTypeCorrect == FileSpec => []FileTypeOK
  <1>1. FileInv /\ [FileNext]_fileVars => FileInv'
    <2>1. CASE UNCHANGED fileVars
      BY <2>1 DEF fileVars, FileInv, FileTypeOK, RecordRight
    <2> QED BY <2>1, FileStep
  <1>2. FileInv => FileTypeOK
    BY DEF FileInv
  <1> QED BY <1>1, <1>2, InitFileInv, PTL DEF FileSpec

\* What was opened is Size items with a position, whatever its size, and whatever
\* is asked of it in whatever order.
THEOREM FileReadsContent == FileSpec => ReadsContent
  <1>1. FileInit => Reader!Init
    <2>1. FileInit => overran = FALSE /\ (kind = "Dir") \in BOOLEAN
      BY DEF FileInit
    <2> QED BY <2>1 DEF FileInit, Reader!Init, None, Reader!Nothing
  <1>2. FileInv /\ [FileNext]_fileVars => FileInv' /\ [Reader!Next]_(Reader!vars)
    <2>1. CASE UNCHANGED fileVars
      BY <2>1 DEF fileVars, FileInv, FileTypeOK, RecordRight, Reader!vars
    <2> QED BY <2>1, FileStep
  <1> QED BY <1>1, <1>2, InitFileInv, PTL DEF FileSpec, ReadsContent, Reader!Spec
=============================================================================
