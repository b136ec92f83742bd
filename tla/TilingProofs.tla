---------------------------- MODULE TilingProofs ----------------------------
(***************************************************************************)
(* Proofs about Tiling, for tiles and pictures of any size.                *)
(***************************************************************************)
EXTENDS Tiling, Division

(* The picture, in numbers that the routines only use implicitly: the      *)
(* units of a line, the tiles side by side in a row, and the line that is  *)
(* copied next.                                                            *)
Sizes ==
  /\ lanes \in 1 .. 2
  /\ width \in Nat \ {0} /\ width % lanes = 0
  /\ height \in Nat

LineWidth == width \div lanes
Columns == (width + TILE - 1) \div TILE
Line == Lines(plane) - HEIGHT

(* The bytes that CopyLine writes.                                         *)
Written == {<<k, DST + i>> : k \in 0 .. lanes - 1, i \in 0 .. LineUnits - 1}

(***************************************************************************)
(* Where the registers stand before a line is copied.                      *)
(***************************************************************************)
Registers ==
  /\ Sizes
  /\ plane \in {"luma", "chroma"}
  /\ plane = "chroma" => lanes = 1
  /\ HEIGHT \in 0 .. Lines(plane)
  /\ TLINE = TILE - (Line % TILE)
  /\ SRC = (TILE * TILE * Columns) * (Line \div TILE) + TILE * (Line % TILE)
  /\ DST = Offset(plane) + Pitch * Line

FirstLine ==
  /\ Sizes
  /\ plane \in {"luma", "chroma"}
  /\ plane = "chroma" => lanes = 1
  /\ HEIGHT = Lines(plane) /\ TLINE = TILE
  /\ SRC = 0 /\ DST = Offset(plane)

(***************************************************************************)
(* The image of whole tiles: the luma plane is complete when the chroma    *)
(* plane is begun, and stays so.                                           *)
(***************************************************************************)
LumaKept ==
  lanes = 1 /\ width % TILE = 0 =>
    /\ \A a \in DOMAIN store : a[2] < DataSize
    /\ plane = "chroma" => PlaneInPlace("luma", Lines("luma"))

PlaceInv ==
  /\ Registers
  /\ LinesInPlace
  /\ ReadsInsideFrame
  /\ LumaKept

-----------------------------------------------------------------------------
(* A tile is `lanes' times as wide as it has units, and a line as well.    *)
LEMMA Widths ==
  ASSUME Sizes
  PROVE  /\ TILE \in Nat \ {0} /\ Units \in Nat \ {0} /\ TILE = lanes * Units
         /\ Units \div 2 \in Nat \ {0} /\ Units = 2 * (Units \div 2)
         /\ LineWidth \in Nat /\ width = lanes * LineWidth
         /\ width \in Nat \ {0} /\ lanes \in 1 .. 2
<1>1. CASE lanes = 1
  BY <1>1, TilingAssumption DEF Sizes, Units, LineWidth
<1>2. CASE lanes = 2
  BY <1>2, TilingAssumption DEF Sizes, Units, LineWidth
<1> QED
  BY <1>1, <1>2 DEF Sizes

(* The three ways in which a line is copied add up to its units.           *)
LEMMA LineIsCopied ==
  ASSUME Sizes
  PROVE  /\ NTILES \in Nat /\ REST \in 0 .. Units - 1
         /\ LineWidth = Units * NTILES + REST
         /\ width = TILE * NTILES + lanes * REST
         /\ LineUnits = LineWidth
<1> DEFINE q == LineWidth \div Units
<1>0. /\ TILE \in Nat \ {0} /\ Units \in Nat \ {0} /\ TILE = lanes * Units
      /\ Units \div 2 \in Nat \ {0} /\ Units = 2 * (Units \div 2)
      /\ LineWidth \in Nat /\ width = lanes * LineWidth
      /\ width \in Nat \ {0} /\ lanes \in 1 .. 2
  BY Widths
<1>1. REST = LineWidth % Units
  BY DEF REST, LineWidth, Units
<1>2. /\ LineWidth = Units * q + REST /\ q \in Int /\ REST \in 0 .. Units - 1
  BY <1>0, <1>1, DivMod, ModRange
<1> HIDE DEF q
<1>3. width = TILE * q + lanes * REST /\ lanes * REST \in 0 .. TILE - 1
  <2>1. CASE lanes = 1
    BY <2>1, <1>0, <1>2
  <2>2. CASE lanes = 2
    BY <2>2, <1>0, <1>2
  <2> QED
    BY <2>1, <2>2, <1>0
<1>4. NTILES = q
  BY <1>0, <1>2, <1>3, DivUnique DEF NTILES
<1>5. NTILES \in Nat
  BY <1>0 DEF NTILES
<1>6. Partial = REST
  <2> DEFINE half == Units \div 2
  <2>1. half \in Nat \ {0} /\ Units = 2 * half
    BY <1>0
  <2>2. Partial = (IF REST >= half THEN half ELSE 0) + (REST % half)
    BY DEF Partial
  <2> HIDE DEF half
  <2>3. CASE REST >= half
    <3>1. REST = half * 1 + (REST - half) /\ REST - half \in 0 .. half - 1 /\ REST \in Nat
      BY <1>2, <2>1, <2>3
    <3>2. REST % half = REST - half
      BY <2>1, <3>1, ModUnique
    <3> QED
      BY <1>2, <2>1, <2>2, <2>3, <3>2
  <2>4. CASE REST < half
    <3>1. REST = half * 0 + REST /\ REST \in 0 .. half - 1 /\ REST \in Nat
      BY <1>2, <2>1, <2>4
    <3>2. REST % half = REST
      BY <2>1, <3>1, ModUnique
    <3> QED
      BY <1>2, <2>1, <2>2, <2>4, <3>2
  <2> QED
    BY <1>2, <2>1, <2>3, <2>4
<1>7. LineUnits = Units * NTILES + REST
  BY <1>0, <1>5, <1>6 DEF LineUnits
<1> QED
  BY <1>2, <1>3, <1>4, <1>5, <1>7

(* A row has a tile more than whole ones when a part of one is left, and   *)
(* the pitch is as wide as all of them.                                    *)
LEMMA RowOfTiles ==
  ASSUME Sizes
  PROVE  /\ Columns \in Nat \ {0}
         /\ Columns = IF REST = 0 THEN NTILES ELSE NTILES + 1
         /\ Align(width) = TILE * Columns
         /\ Pitch = Units * Columns
         /\ LineWidth <= Pitch
         /\ REST = 0 => Pitch = LineWidth
<1>0. /\ TILE \in Nat \ {0} /\ Units \in Nat \ {0} /\ TILE = lanes * Units
      /\ LineWidth \in Nat /\ width = lanes * LineWidth
      /\ width \in Nat \ {0} /\ lanes \in 1 .. 2
  BY Widths
<1>1. /\ NTILES \in Nat /\ REST \in 0 .. Units - 1
      /\ LineWidth = Units * NTILES + REST
      /\ width = TILE * NTILES + lanes * REST
  BY LineIsCopied
<1>2. Columns = IF REST = 0 THEN NTILES ELSE NTILES + 1
  <2>1. CASE REST = 0
    <3>1. /\ width + TILE - 1 = TILE * NTILES + (TILE - 1)
          /\ TILE - 1 \in 0 .. TILE - 1 /\ width + TILE - 1 \in Nat /\ NTILES \in Int
      BY <1>0, <1>1, <2>1
    <3> QED
      BY <1>0, <2>1, <3>1, DivUnique DEF Columns
  <2>2. CASE REST # 0
    <3>1. lanes * REST \in 1 .. TILE - 1
      <4>1. CASE lanes = 1
        BY <4>1, <2>2, <1>0, <1>1
      <4>2. CASE lanes = 2
        BY <4>2, <2>2, <1>0, <1>1
      <4> QED
        BY <4>1, <4>2, <1>0
    <3>2. /\ width + TILE - 1 = TILE * (NTILES + 1) + (lanes * REST - 1)
          /\ lanes * REST - 1 \in 0 .. TILE - 1
          /\ width + TILE - 1 \in Nat /\ NTILES + 1 \in Int
      BY <1>0, <1>1, <3>1
    <3> QED
      BY <1>0, <2>2, <3>2, DivUnique DEF Columns
  <2> QED
    BY <2>1, <2>2
<1>3. Columns \in Nat \ {0}
  <2>1. CASE REST = 0
    <3>1. NTILES # 0
      BY <1>0, <1>1, <2>1
    <3> QED
      BY <1>1, <1>2, <2>1, <3>1
  <2>2. CASE REST # 0
    BY <1>1, <1>2, <2>2
  <2> QED
    BY <2>1, <2>2
<1>4. Align(width) = TILE * Columns
  BY <1>0, <1>3 DEF Align, Columns
<1>5. Pitch = Units * Columns
  <2>1. CASE lanes = 1
    BY <2>1, <1>0, <1>3, <1>4 DEF Pitch
  <2>2. CASE lanes = 2
    <3>1. Align(width) = 2 * (Units * Columns) /\ Units * Columns \in Nat
      BY <2>2, <1>0, <1>3, <1>4
    <3> QED
      BY <2>2, <3>1 DEF Pitch
  <2> QED
    BY <2>1, <2>2, <1>0
<1>6. LineWidth <= Pitch /\ (REST = 0 => Pitch = LineWidth)
  <2>1. CASE REST = 0
    BY <1>0, <1>1, <1>2, <1>5, <2>1
  <2>2. CASE REST # 0
    <3>1. Pitch = Units * NTILES + Units
      BY <1>0, <1>1, <1>2, <1>5, <2>2
    <3> QED
      BY <1>0, <1>1, <2>2, <3>1
  <2> QED
    BY <2>1, <2>2
<1> QED
  BY <1>2, <1>3, <1>4, <1>5, <1>6

-----------------------------------------------------------------------------
(* Byte k of unit x is byte lanes * x + k of the line, in the same tile.   *)
LEMMA UnitInTile ==
  ASSUME Sizes, NEW x \in 0 .. LineWidth - 1, NEW k \in 0 .. lanes - 1
  PROVE  /\ lanes * x + k \in 0 .. width - 1
         /\ (lanes * x + k) \div TILE = x \div Units
         /\ (lanes * x + k) % TILE = (x % Units) * lanes + k
         /\ x \div Units \in Nat /\ x % Units \in 0 .. Units - 1
<1> DEFINE q == x \div Units
           r == x % Units
<1>0. /\ TILE \in Nat \ {0} /\ Units \in Nat \ {0} /\ TILE = lanes * Units
      /\ LineWidth \in Nat /\ width = lanes * LineWidth /\ lanes \in 1 .. 2
  BY Widths
<1>1. x = Units * q + r /\ q \in Nat /\ r \in 0 .. Units - 1 /\ x \in Nat
  <2>1. x \in Nat /\ q \in Nat
    BY <1>0
  <2> QED
    BY <1>0, <2>1, DivMod, ModRange
<1> HIDE DEF q, r
<1>2. /\ lanes * x + k \in 0 .. width - 1
      /\ lanes * x + k = TILE * q + (r * lanes + k)
      /\ r * lanes + k \in 0 .. TILE - 1
  <2>1. CASE lanes = 1
    BY <2>1, <1>0, <1>1
  <2>2. CASE lanes = 2
    BY <2>2, <1>0, <1>1
  <2> QED
    BY <2>1, <2>2, <1>0
<1>3. lanes * x + k \in Nat /\ q \in Int
  BY <1>1, <1>2
<1>4. (lanes * x + k) \div TILE = q /\ (lanes * x + k) % TILE = r * lanes + k
  BY <1>0, <1>2, <1>3, DivUnique, ModUnique
<1> QED
  BY <1>1, <1>2, <1>4 DEF q, r

(* The number of lines of a plane is a natural number.                     *)
LEMMA LinesNat ==
  ASSUME Sizes, NEW p
  PROVE  Lines(p) \in Nat
BY DEF Sizes, Lines

(* The source pointer of a unit is its address in the tiled plane.         *)
LEMMA SourceIsTiled ==
  ASSUME Registers, NEW x \in 0 .. LineWidth - 1, NEW k \in 0 .. lanes - 1
  PROVE  UnitSource(x) + k = TiledAddress(lanes * x + k, Line)
<1> DEFINE X == lanes * x + k
           d == Line \div TILE
           m == Line % TILE
           e == x \div Units
           f == (x % Units) * lanes
<1>0. TILE \in Nat \ {0} /\ Columns \in Nat \ {0} /\ lanes \in 1 .. 2
  BY Widths, RowOfTiles DEF Registers
<1>1. X \div TILE = e /\ X % TILE = f + k /\ e \in Nat /\ f \in Nat
  BY <1>0, UnitInTile DEF Registers
<1>2. Line \in Nat /\ d \in Nat /\ m \in Nat
  BY <1>0, LinesNat DEF Registers, Line
<1>3. Align(width) \div TILE = Columns
  <2>1. Align(width) = TILE * Columns
    BY RowOfTiles DEF Registers
  <2>2. Columns \in 0 .. (Columns + 1) - 1 /\ Columns + 1 \in Nat
    BY <1>0
  <2> QED
    BY <1>0, <2>1, <2>2, MultipleRange
<1>4. TiledAddress(X, Line) = ((d * Columns + e) * TILE * TILE) + (m * TILE) + (f + k)
  BY <1>1, <1>3 DEF TiledAddress
<1>5. UnitSource(x) = SRC + (e * TILE * TILE) + f
  BY DEF UnitSource
<1>6. SRC = (TILE * TILE * Columns) * d + TILE * m
  BY DEF Registers
<1> HIDE DEF X, d, m, e, f
<1>7. ((d * Columns + e) * TILE * TILE) = (TILE * TILE * Columns) * d + (e * TILE * TILE)
  BY <1>0, <1>1, <1>2
<1> QED
  BY <1>0, <1>1, <1>2, <1>4, <1>5, <1>6, <1>7 DEF X

(* The tiles of a plane hold every byte of it.                             *)
LEMMA TiledInside ==
  ASSUME Sizes, NEW p, NEW y \in 0 .. Lines(p) - 1, NEW b \in 0 .. width - 1
  PROVE  TiledAddress(b, y) \in 0 .. Align(width) * Align(Lines(p)) - 1
<1> DEFINE R == (Lines(p) + TILE - 1) \div TILE
           d == y \div TILE
           m == y % TILE
           e == b \div TILE
           f == b % TILE
           t == d * Columns + e
<1>0. /\ TILE \in Nat \ {0} /\ Columns \in Nat \ {0} /\ Align(width) = TILE * Columns
      /\ width \in Nat /\ Lines(p) \in Nat /\ y \in Nat /\ b \in Nat
  BY Widths, RowOfTiles, LinesNat
<1>1. R \in Nat /\ d \in 0 .. R - 1
  BY <1>0, RoundedUp
<1>2. e \in 0 .. Columns - 1
  BY <1>0, RoundedUp DEF Columns
<1>3. m \in 0 .. TILE - 1 /\ f \in 0 .. TILE - 1
  BY <1>0, ModRange
<1>4. Align(width) \div TILE = Columns
  <2>1. Columns \in 0 .. (Columns + 1) - 1 /\ Columns + 1 \in Nat
    BY <1>0
  <2> QED
    BY <1>0, <2>1, MultipleRange
<1>5. TiledAddress(b, y) = (t * TILE * TILE) + (m * TILE) + f
  BY <1>4 DEF TiledAddress
<1>6. Align(Lines(p)) = R * TILE
  BY DEF Align
<1> HIDE DEF R, d, m, e, f, t
<1>7. t \in Nat /\ t <= Columns * R - 1
  <2>1. Columns * d <= Columns * (R - 1)
    BY <1>0, <1>1, MultipleMonotonic
  <2>2. t = Columns * d + e /\ Columns * (R - 1) = Columns * R - Columns
    BY <1>0, <1>1, <1>2 DEF t
  <2>3. Columns * d \in Nat /\ Columns * R \in Nat
    BY <1>0, <1>1
  <2> QED
    BY <1>0, <1>2, <2>1, <2>2, <2>3
<1>8. (m * TILE) + f \in 0 .. TILE * TILE - 1
  <2>1. TILE * m <= TILE * (TILE - 1)
    BY <1>0, <1>3, MultipleMonotonic
  <2>2. m * TILE = TILE * m /\ TILE * (TILE - 1) = TILE * TILE - TILE /\ TILE * m \in Nat
    BY <1>0, <1>3
  <2> QED
    BY <1>0, <1>3, <2>1, <2>2
<1>9. (TILE * TILE) * t <= (TILE * TILE) * (Columns * R - 1)
  BY <1>0, <1>1, <1>7, MultipleMonotonic
<1>10. /\ t * TILE * TILE = (TILE * TILE) * t /\ (TILE * TILE) * t \in Nat
       /\ (TILE * TILE) * (Columns * R - 1) = (TILE * TILE) * (Columns * R) - TILE * TILE
       /\ Align(width) * Align(Lines(p)) = (TILE * TILE) * (Columns * R)
       /\ TILE * TILE \in Nat /\ (TILE * TILE) * (Columns * R) \in Nat
  BY <1>0, <1>1, <1>6, <1>7
<1> DEFINE C == TILE * TILE
           top == (TILE * TILE) * (Columns * R)
           base == (TILE * TILE) * t
           rest == (m * TILE) + f
<1>11. /\ TiledAddress(b, y) = base + rest
       /\ Align(width) * Align(Lines(p)) = top
  BY <1>3, <1>5, <1>10, <1>8, <1>0
<1>12. base \in Nat /\ top \in Nat /\ C \in Nat /\ base <= top - C /\ rest \in 0 .. C - 1
  BY <1>8, <1>9, <1>10
<1> HIDE DEF C, top, base, rest
<1> QED
  BY <1>11, <1>12
-----------------------------------------------------------------------------
(* The pointers before the first line of a plane.                          *)
LEMMA AtFirstLine ==
  FirstLine => Registers /\ Line = 0
<1> SUFFICES ASSUME FirstLine
             PROVE  Registers /\ Line = 0
  OBVIOUS
<1> USE DEF FirstLine
<1>0. TILE \in Nat \ {0} /\ Columns \in Nat \ {0} /\ lanes \in 1 .. 2 /\ width \in Nat
      /\ height \in Nat
  BY Widths, RowOfTiles DEF Sizes
<1>1. Lines(plane) \in Nat /\ Line = 0 /\ HEIGHT \in 0 .. Lines(plane)
  BY LinesNat DEF Line
<1>2. Pitch \in Int
  <2>1. Pitch = Units * Columns /\ Units \in Nat
    BY Widths, RowOfTiles
  <2> QED
    BY <1>0, <2>1
<1>3. 0 % TILE = 0 /\ 0 \div TILE = 0
  BY <1>0
<1>4. TILE * TILE * Columns \in Int
  BY <1>0
<1>5. Offset(plane) \in Int
  BY <1>0 DEF Offset
<1>6. SRC = (TILE * TILE * Columns) * (Line \div TILE) + TILE * (Line % TILE)
  BY <1>0, <1>1, <1>3, <1>4
<1>7. DST = Offset(plane) + Pitch * Line
  BY <1>1, <1>2, <1>5
<1> QED
  BY <1>0, <1>1, <1>3, <1>6, <1>7 DEF Registers

(* The destination pointer, the line, the pitch and the offsets are        *)
(* numbers.                                                                *)
LEMMA DstInt ==
  ASSUME Registers
  PROVE  /\ DST \in Nat /\ Line \in Nat /\ Pitch \in Nat
         /\ \A p : Offset(p) \in Nat
<1>1. Pitch \in Nat
  <2>1. Pitch = Units * Columns /\ Units \in Nat /\ Columns \in Nat
    BY Widths, RowOfTiles DEF Registers
  <2> QED
    BY <2>1
<1>2. Line \in Nat
  BY LinesNat DEF Registers, Line
<1>3. \A p : Offset(p) \in Nat
  BY DEF Registers, Sizes, Offset
<1>4. DST = Offset(plane) + Pitch * Line
  BY DEF Registers
<1> QED
  BY <1>1, <1>2, <1>3, <1>4

(* A line that is copied leaves the picture as it is.                      *)
LEMMA SamePicture ==
  ASSUME UNCHANGED <<lanes, width, height>>
  PROVE  /\ Sizes' = Sizes /\ Columns' = Columns /\ Pitch' = Pitch
         /\ LineWidth' = LineWidth
         /\ \A p : Lines(p)' = Lines(p) /\ Offset(p)' = Offset(p)
         /\ Align(width)' = Align(width) /\ DataSize' = DataSize
BY DEF Sizes, Columns, Pitch, LineWidth, Lines, Offset, Align, DataSize

(* The end of a line puts the pointers on the next one, in the same row of *)
(* tiles or in the next.                                                   *)
LEMMA CopyKeepsRegisters ==
  ASSUME Registers, CopyLine
  PROVE  Registers' /\ Line' = Line + 1 /\ Line \in 0 .. Lines(plane) - 1
<1> DEFINE d == Line \div TILE
           m == Line % TILE
           C == TILE * TILE * Columns
<1>0. /\ TILE \in Nat \ {0} /\ Columns \in Nat \ {0} /\ lanes \in 1 .. 2
      /\ Units \in Nat
  BY Widths, RowOfTiles DEF Registers
<1>1. /\ UNCHANGED <<lanes, width, height, plane>> /\ HEIGHT > 0
      /\ HEIGHT' = HEIGHT - 1 /\ SRC' = NextSource
      /\ TLINE' = IF TLINE # 1 THEN TLINE - 1 ELSE TILE
      /\ DST' = DST + LineUnits + (Pitch - width \div lanes)
  BY DEF CopyLine
<1>2. Lines(plane)' = Lines(plane) /\ Columns' = Columns /\ Pitch' = Pitch
      /\ Offset(plane)' = Offset(plane) /\ Sizes'
  BY <1>1, SamePicture DEF Lines, Offset, Registers
<1>3. Lines(plane) \in Nat /\ HEIGHT \in 0 .. Lines(plane)
  BY LinesNat DEF Registers
<1>4. /\ Line \in 0 .. Lines(plane) - 1 /\ Line' = Line + 1
      /\ HEIGHT' \in 0 .. Lines(plane)
  BY <1>1, <1>2, <1>3 DEF Line
<1>5. /\ (Line + 1) % TILE = IF m + 1 = TILE THEN 0 ELSE m + 1
      /\ (Line + 1) \div TILE = IF m + 1 = TILE THEN d + 1 ELSE d
      /\ m \in 0 .. TILE - 1 /\ d \in Int
  <2>1. Line \in Nat
    BY <1>3, <1>4
  <2>2. m \in 0 .. TILE - 1 /\ d \in Int
    BY <1>0, <2>1, ModRange, DivMod
  <2>3. (Line + 1) % TILE = IF m + 1 = TILE THEN 0 ELSE m + 1
    BY <1>0, <2>1, ModSuccessor
  <2>4. (Line + 1) \div TILE = IF m + 1 = TILE THEN d + 1 ELSE d
    BY <1>0, <2>1, DivSuccessor
  <2> QED
    BY <2>2, <2>3, <2>4
<1>6. TLINE = TILE - m /\ SRC = C * d + TILE * m
  BY DEF Registers
<1>7. /\ LineEnd = SRC + C
      /\ NEXTLIN = TILE - C /\ C \in Int
  <2>1. Columns = IF REST = 0 THEN NTILES ELSE NTILES + 1
    BY RowOfTiles DEF Registers
  <2>2. TILE * Align(width) = C
    BY <1>0, RowOfTiles DEF Registers
  <2> QED
    BY <1>0, <2>1, <2>2 DEF LineEnd, NEXTLIN
<1>8. DST' = Offset(plane)' + Pitch' * Line'
  <2>1. LineUnits = width \div lanes
    BY LineIsCopied DEF Registers, LineWidth
  <2>2. width \div lanes \in Int
    BY Widths DEF Registers, LineWidth
  <2>3. Pitch \in Int
    <3>1. Pitch = Units * Columns
      BY RowOfTiles DEF Registers
    <3> QED
      BY <1>0, <3>1
  <2>4. Offset(plane) \in Int
    BY DEF Registers, Sizes, Offset
  <2>5. DST = Offset(plane) + Pitch * Line
    BY DEF Registers
  <2> DEFINE w == width \div lanes
             o == Offset(plane)
             l == Line
             p == Pitch
  <2>6. DST' = o + p * l + w + (p - w)
    BY <1>1, <2>1, <2>5
  <2>7. l \in Int /\ p \in Int /\ w \in Int /\ o \in Int
    BY <1>3, <1>4, <2>2, <2>3, <2>4
  <2> HIDE DEF w, o, l, p
  <2>8. DST' = o + p * (l + 1)
    BY <2>6, <2>7
  <2> QED
    BY <2>8, <1>2, <1>4 DEF o, p, l
<1> HIDE DEF d, m, C
<1>9. CASE m + 1 = TILE
  <2>1. (Line + 1) % TILE = 0 /\ (Line + 1) \div TILE = d + 1
    BY <1>5, <1>9
  <2>2. TLINE = 1 /\ TLINE' = TILE
    BY <1>0, <1>1, <1>5, <1>6, <1>9
  <2>3. SRC' = SRC + C - TILE * (TILE - 1)
    <3> DEFINE back == TILE * (TILE - 1)
    <3>1. SRC' = LineEnd - back
      BY <1>1, <2>2 DEF NextSource
    <3> HIDE DEF back
    <3>2. C \in Int /\ SRC \in Int /\ back \in Int
      BY <1>0, <1>5, <1>6, <1>7 DEF back
    <3>3. SRC' = SRC + C - back
      BY <1>7, <3>1, <3>2
    <3> QED
      BY <3>3 DEF back
  <2>4. m = TILE - 1
    BY <1>0, <1>5, <1>9
  <2>5. C * d \in Int /\ TILE * (TILE - 1) \in Int /\ C * (d + 1) = C * d + C
    BY <1>0, <1>5, <1>7
  <2>6. SRC' = C * (d + 1) + TILE * 0
    BY <1>0, <1>6, <1>7, <2>3, <2>4, <2>5
  <2>7. TLINE' = TILE' - (Line' % TILE') /\ TILE' = TILE
    BY <1>0, <1>4, <2>1, <2>2
  <2> QED
    BY <1>1, <1>2, <1>4, <1>8, <2>1, <2>6, <2>7 DEF Registers, C
<1>10. CASE m + 1 # TILE
  <2>1. (Line + 1) % TILE = m + 1 /\ (Line + 1) \div TILE = d
    BY <1>5, <1>10
  <2>2. TLINE # 1 /\ TLINE' = TILE - (m + 1)
    BY <1>0, <1>1, <1>5, <1>6, <1>10
  <2>3. SRC' = SRC + C + (TILE - C)
    BY <1>1, <1>7, <2>2 DEF NextSource
  <2>4. C * d \in Int /\ TILE * m \in Int /\ TILE * (m + 1) = TILE * m + TILE
    BY <1>0, <1>5, <1>7
  <2>5. SRC' = C * d + TILE * (m + 1)
    BY <1>0, <1>6, <1>7, <2>3, <2>4
  <2>6. TLINE' = TILE' - (Line' % TILE') /\ TILE' = TILE
    BY <1>0, <1>4, <2>1, <2>2
  <2> QED
    BY <1>1, <1>2, <1>4, <1>8, <2>1, <2>5, <2>6 DEF Registers, C
<1> QED
  BY <1>4, <1>9, <1>10
-----------------------------------------------------------------------------
(* CopyLine writes the bytes of Written and leaves the others alone.       *)
LEMMA StoreAfterLine ==
  ASSUME CopyLine
  PROVE  /\ DOMAIN store' = DOMAIN store \cup Written
         /\ \A a \in Written :
              store'[a] = <<plane, UnitSource(a[2] - DST) + a[1]>>
         /\ \A a \in DOMAIN store : a \notin Written => store'[a] = store[a]
<1> DEFINE D == DOMAIN store \cup Written
           Byte(a) == IF a \in Written THEN <<plane, UnitSource(a[2] - DST) + a[1]>>
                                       ELSE store[a]
<1>1. store' = [a \in D |-> Byte(a)]
  BY DEF CopyLine, Written
<1> HIDE DEF Byte, D
<1>2. DOMAIN store' = D /\ \A a \in D : store'[a] = Byte(a)
  BY <1>1
<1>3. \A a \in Written : a \in D /\ Byte(a) = <<plane, UnitSource(a[2] - DST) + a[1]>>
  BY DEF D, Byte
<1>4. \A a \in DOMAIN store : a \in D /\ (a \notin Written => Byte(a) = store[a])
  BY DEF D, Byte
<1> QED
  BY <1>2, <1>3, <1>4 DEF D

(* What is written to unit x of the line, in each of the lanes.            *)
LEMMA WrittenByte ==
  ASSUME Registers, CopyLine, NEW x \in 0 .. LineWidth - 1, NEW k \in 0 .. lanes - 1
  PROVE  /\ <<k, DST + x>> \in DOMAIN store'
         /\ store'[<<k, DST + x>>] = <<plane, TiledAddress(lanes * x + k, Line)>>
<1>1. LineUnits = LineWidth
  BY LineIsCopied DEF Registers
<1>2. <<k, DST + x>> \in Written
  BY <1>1 DEF Written
<1>3. (DST + x) - DST = x
  BY DstInt, Widths DEF Registers
<1>4. UnitSource(x) + k = TiledAddress(lanes * x + k, Line)
  BY SourceIsTiled
<1>5. store'[<<k, DST + x>>] = <<plane, UnitSource((DST + x) - DST) + k>>
  BY <1>2, StoreAfterLine
<1> QED
  BY <1>2, <1>3, <1>4, <1>5, StoreAfterLine

(* Nothing else is written.                                                *)
LEMMA OnlyTheLine ==
  ASSUME Registers, NEW a \in Written
  PROVE  \E x \in 0 .. LineWidth - 1, k \in 0 .. lanes - 1 : a = <<k, DST + x>>
<1>1. LineUnits = LineWidth
  BY LineIsCopied DEF Registers
<1> QED
  BY <1>1 DEF Written

(* A byte in place below the line that is copied stays there.              *)
LEMMA KeptByte ==
  ASSUME Registers, CopyLine,
         NEW p, NEW y \in Int, NEW x \in Int, NEW k,
         InPlace(p, x, y, k), Offset(p) + y * Pitch + x < DST,
         Offset(p) + y * Pitch + x \in Int
  PROVE  InPlace(p, x, y, k)'
<1> DEFINE A == Offset(p) + y * Pitch + x
<1>1. <<k, A>> \in DOMAIN store /\ store[<<k, A>>] = <<p, TiledAddress(lanes * x + k, y)>>
  BY DEF InPlace
<1>2. A \in Int /\ A < DST
  OBVIOUS
<1>3. A' = A /\ TiledAddress(lanes * x + k, y)' = TiledAddress(lanes * x + k, y)
  <2>1. UNCHANGED <<lanes, width, height>>
    BY DEF CopyLine
  <2> QED
    BY <2>1, SamePicture DEF TiledAddress
<1> HIDE DEF A
<1>4. <<k, A>> \notin Written
  <2> SUFFICES ASSUME <<k, A>> \in Written PROVE FALSE
    OBVIOUS
  <2>1. PICK z \in 0 .. LineWidth - 1, j \in 0 .. lanes - 1 : <<k, A>> = <<j, DST + z>>
    BY OnlyTheLine
  <2>2. A = DST + z
    BY <2>1
  <2> QED
    BY <1>2, <2>2, DstInt, Widths DEF Registers
<1>5. <<k, A>> \in DOMAIN store' /\ store'[<<k, A>>] = store[<<k, A>>]
  BY <1>1, <1>4, StoreAfterLine
<1>6. <<k, A'>> \in DOMAIN store' /\ store'[<<k, A'>>] = <<p, TiledAddress(lanes * x + k, y)'>>
  BY <1>1, <1>3, <1>5
<1> QED
  BY <1>6 DEF InPlace, A
(* Lines are apart: a byte of an earlier line is below the line copied.    *)
LEMMA EarlierLine ==
  ASSUME Registers, NEW y \in 0 .. Line - 1, NEW x \in 0 .. LineWidth - 1
  PROVE  /\ Offset(plane) + y * Pitch + x \in Nat
         /\ Offset(plane) + y * Pitch + x < DST
<1>1. /\ DST \in Nat /\ Line \in Nat /\ Pitch \in Nat /\ Offset(plane) \in Nat
      /\ LineWidth \in Nat /\ LineWidth <= Pitch
  BY DstInt, Widths, RowOfTiles DEF Registers
<1>2. Pitch * (y + 1) <= Pitch * Line
  BY <1>1, MultipleMonotonic
<1>3. DST = Offset(plane) + Pitch * Line
  BY DEF Registers
<1>4. y * Pitch \in Nat /\ Pitch * (y + 1) = y * Pitch + Pitch /\ Pitch * Line \in Nat
  BY <1>1
<1> DEFINE a == y * Pitch
           b == Pitch * Line
           c == Pitch * (y + 1)
<1>5. a \in Nat /\ b \in Nat /\ c = a + Pitch /\ c <= b /\ DST = Offset(plane) + b
  BY <1>2, <1>3, <1>4
<1> HIDE DEF a, b, c
<1>6. Offset(plane) + a + x \in Nat /\ Offset(plane) + a + x < DST
  BY <1>1, <1>5
<1> QED
  BY <1>6 DEF a

(* The line copied joins the earlier ones, which stay in place.            *)
LEMMA CopyKeepsLines ==
  ASSUME Registers, LinesInPlace, CopyLine
  PROVE  LinesInPlace'
<1>0. /\ UNCHANGED <<lanes, width, height, plane>>
      /\ Line' = Line + 1 /\ Line \in 0 .. Lines(plane) - 1
  BY CopyKeepsRegisters DEF CopyLine
<1>1. PICK p : p = plane
  OBVIOUS
<1>2. SUFFICES ASSUME NEW y \in 0 .. Line, NEW x \in 0 .. LineWidth - 1,
                      NEW k \in 0 .. lanes - 1
               PROVE  InPlace(p, x, y, k)'
  BY <1>0, <1>1, DstInt DEF LinesInPlace, PlaneInPlace, InPlace, Line, LineWidth
<1>3. CASE y = Line
  <2>1. /\ <<k, DST + x>> \in DOMAIN store'
        /\ store'[<<k, DST + x>>] = <<plane, TiledAddress(lanes * x + k, Line)>>
    BY WrittenByte
  <2>2. Offset(p) + y * Pitch + x = DST + x
    BY <1>1, <1>3, DstInt DEF Registers
  <2>3. /\ (Offset(p) + y * Pitch + x)' = Offset(p) + y * Pitch + x
        /\ TiledAddress(lanes * x + k, y)' = TiledAddress(lanes * x + k, y)
    BY <1>0, SamePicture DEF TiledAddress
  <2> QED
    BY <1>1, <1>3, <2>1, <2>2, <2>3 DEF InPlace
<1>4. CASE y # Line
  <2>1. y \in 0 .. Line - 1
    BY <1>0, <1>4
  <2>2. InPlace(p, x, y, k)
    BY <1>1, <2>1 DEF LinesInPlace, PlaneInPlace, Line, LineWidth
  <2>3. /\ Offset(p) + y * Pitch + x \in Nat /\ Offset(p) + y * Pitch + x < DST
    BY <1>1, <2>1, EarlierLine
  <2> QED
    BY <2>1, <2>2, <2>3, KeptByte
<1> QED
  BY <1>3, <1>4

(* What the line reads is inside the tiles of the frame.                   *)
LEMMA CopyReadsInside ==
  ASSUME Registers, ReadsInsideFrame, CopyLine
  PROVE  ReadsInsideFrame'
<1>0. UNCHANGED <<lanes, width, height>> /\ Line \in 0 .. Lines(plane) - 1
  BY CopyKeepsRegisters DEF CopyLine
<1>1. SUFFICES ASSUME NEW a \in DOMAIN store'
               PROVE  store'[a][2] \in 0 .. Align(width) * Align(Lines(store'[a][1])) - 1
  <2>1. \A p : Align(Lines(p))' = Align(Lines(p)) /\ Align(width)' = Align(width)
    BY <1>0 DEF Align, Lines
  <2>2. \A a : Align(Lines(store[a][1]))' = Align(Lines(store'[a][1]))
    BY <1>0 DEF Align, Lines
  <2> QED
    BY <2>1, <2>2 DEF ReadsInsideFrame
<1>2. CASE a \in Written
  <2>1. PICK x \in 0 .. LineWidth - 1, k \in 0 .. lanes - 1 : a = <<k, DST + x>>
    BY <1>2, OnlyTheLine
  <2>2. store'[a] = <<plane, TiledAddress(lanes * x + k, Line)>>
    BY <2>1, WrittenByte
  <2>3. lanes * x + k \in 0 .. width - 1
    BY UnitInTile DEF Registers
  <2>4. TiledAddress(lanes * x + k, Line) \in 0 .. Align(width) * Align(Lines(plane)) - 1
    BY <1>0, <2>3, TiledInside DEF Registers
  <2> QED
    BY <2>2, <2>4
<1>3. CASE a \notin Written
  BY <1>3, StoreAfterLine DEF ReadsInsideFrame
<1> QED
  BY <1>2, <1>3
-----------------------------------------------------------------------------
(* Lines of whole tiles are as wide as the pitch.                          *)
LEMMA WholeTiles ==
  ASSUME Sizes, lanes = 1, width % TILE = 0
  PROVE  Pitch = width /\ LineWidth = width
<1>1. LineWidth = width /\ TILE \div 1 = TILE /\ width \div lanes = width
  BY Widths
<1>2. REST = 0
  BY <1>1, Widths DEF REST
<1> QED
  BY <1>1, <1>2, RowOfTiles

(* The buffer of the image has room for the chroma plane.                  *)
LEMMA ImageSize ==
  ASSUME Sizes
  PROVE  /\ width * height \in Nat /\ width * (height \div 2) \in Nat
         /\ DataSize \in Nat
         /\ width * height + width * (height \div 2) <= DataSize
<1> DEFINE h == height \div 2
           area == width * height
           half == width * h
           round == (width + 1) * (height + 1)
<1>1. h \in Nat /\ 2 * h <= height /\ width \in Nat /\ height \in Nat
  BY DEF Sizes
<1>2. area \in Nat /\ half \in Nat /\ round \in Nat
  BY <1>1
<1>3. width * (2 * h) <= area
  BY <1>1, MultipleMonotonic
<1>4. width * (2 * h) = 2 * half
  BY <1>1
<1>5. round = area + width + height + 1
  BY <1>1
<1>6. DataSize = area + (round \div 2)
  BY DEF DataSize
<1> HIDE DEF h, area, half, round
<1>7. half <= round \div 2 /\ round \div 2 \in Nat
  BY <1>1, <1>2, <1>3, <1>4, <1>5
<1>8. area \in Nat /\ half \in Nat /\ DataSize \in Nat /\ area + half <= DataSize
  BY <1>2, <1>6, <1>7
<1> QED
  BY <1>8 DEF area, half, h

(* A line of whole tiles is written inside the image, and that of the      *)
(* chroma plane above the luma plane.                                      *)
LEMMA WrittenInside ==
  ASSUME Registers, Line \in 0 .. Lines(plane) - 1,
         lanes = 1, width % TILE = 0, NEW a \in Written
  PROVE  a[2] < DataSize
<1>0. /\ Pitch = width /\ LineWidth = width /\ width \in Nat /\ height \in Nat
      /\ Sizes /\ plane \in {"luma", "chroma"}
  BY WholeTiles DEF Registers, Sizes
<1>1. PICK x \in 0 .. width - 1, k \in 0 .. lanes - 1 : a = <<k, DST + x>>
  BY <1>0, OnlyTheLine
<1>2. Lines(plane) \in Nat /\ Line \in Nat
  BY <1>0, LinesNat
<1>3. width * (Line + 1) <= width * Lines(plane)
  BY <1>0, <1>2, MultipleMonotonic
<1>4. DST = Offset(plane) + width * Line
  BY <1>0 DEF Registers
<1>5. width * (Line + 1) = width * Line + width /\ width * Line \in Nat
  BY <1>0, <1>2
<1>6. Offset(plane) + width * Lines(plane) <= DataSize /\ Offset(plane) \in Nat
      /\ width * Lines(plane) \in Nat /\ DataSize \in Nat
  <2>1. CASE plane = "luma"
    <3>1. Offset(plane) = 0 /\ Lines(plane) = height
      BY <2>1 DEF Offset, Lines
    <3> QED
      BY <1>0, <3>1, ImageSize
  <2>2. CASE plane = "chroma"
    <3>1. Offset(plane) = width * height /\ Lines(plane) = height \div 2
      BY <2>2 DEF Offset, Lines
    <3> QED
      BY <1>0, <3>1, ImageSize
  <2> QED
    BY <1>0, <2>1, <2>2
<1> DEFINE l == width * Line
           e == width * Lines(plane)
<1>7. l \in Nat /\ e \in Nat /\ l + width <= e /\ DST = Offset(plane) + l
      /\ Offset(plane) + e <= DataSize
  BY <1>3, <1>4, <1>5, <1>6
<1> HIDE DEF l, e
<1>8. DST + x < DataSize
  BY <1>0, <1>6, <1>7
<1> QED
  BY <1>1, <1>8

(* A byte of the luma plane is below every line of the chroma plane.       *)
LEMMA LumaBelowChroma ==
  ASSUME Registers, plane = "chroma", width % TILE = 0,
         NEW y \in 0 .. height - 1, NEW x \in 0 .. width - 1
  PROVE  /\ Offset("luma") + y * Pitch + x \in Nat
         /\ Offset("luma") + y * Pitch + x < DST
<1>0. /\ Pitch = width /\ LineWidth = width /\ width \in Nat /\ height \in Nat
      /\ Line \in Nat
  BY WholeTiles, DstInt DEF Registers, Sizes
<1>1. width * (y + 1) <= width * height
  BY <1>0, MultipleMonotonic
<1>2. width * (y + 1) = y * width + width /\ y * width \in Nat /\ width * height \in Nat
      /\ width * Line \in Nat
  BY <1>0
<1>3. DST = width * height + width * Line
  BY <1>0 DEF Registers, Offset
<1> DEFINE a == y * width
           b == width * height
           c == width * Line
<1>4. a \in Nat /\ b \in Nat /\ c \in Nat /\ a + width <= b /\ DST = b + c
  BY <1>1, <1>2, <1>3
<1> HIDE DEF a, b, c
<1>5. 0 + a + x \in Nat /\ 0 + a + x < DST
  BY <1>0, <1>4
<1> QED
  BY <1>0, <1>5 DEF Offset, a

(* Copying a line keeps the image inside its buffer, and the luma plane    *)
(* when the line is one of the chroma plane.                               *)
LEMMA CopyKeepsLuma ==
  ASSUME Registers, LumaKept, CopyLine
  PROVE  LumaKept'
<1>0. /\ UNCHANGED <<lanes, width, height, plane>>
      /\ Line \in 0 .. Lines(plane) - 1
  BY CopyKeepsRegisters DEF CopyLine
<1>1. SUFFICES ASSUME lanes = 1, width % TILE = 0
               PROVE  /\ \A a \in DOMAIN store' : a[2] < DataSize
                      /\ plane = "chroma" =>
                           \A y \in 0 .. height - 1, x \in 0 .. width - 1, k \in {0} :
                             InPlace("luma", x, y, k)'
  <2>1. lanes = 1 => width \div lanes - 1 = width - 1 /\ 0 .. lanes - 1 = {0}
    BY Widths DEF Registers
  <2>2. DataSize' = DataSize
    BY <1>0, SamePicture
  <2>3. Lines("luma") = height /\ Lines("luma")' = height
    BY <1>0 DEF Lines
  <2> QED
    BY <1>0, <2>1, <2>2, <2>3 DEF LumaKept, PlaneInPlace
<1>2. ASSUME NEW a \in DOMAIN store' PROVE a[2] < DataSize
  <2>1. CASE a \in Written
    BY <1>0, <1>1, <2>1, WrittenInside
  <2>2. CASE a \notin Written
    BY <1>1, <2>2, StoreAfterLine DEF LumaKept
  <2> QED
    BY <2>1, <2>2
<1>3. ASSUME plane = "chroma",
             NEW y \in 0 .. height - 1, NEW x \in 0 .. width - 1, NEW k \in {0}
      PROVE  InPlace("luma", x, y, k)'
  <2>1. width \div lanes = width /\ height \in Nat /\ width \in Nat
    BY <1>1, Widths DEF Registers, Sizes
  <2>2. InPlace("luma", x, y, k)
    BY <1>1, <1>3, <2>1 DEF LumaKept, PlaneInPlace, Lines
  <2>3. /\ Offset("luma") + y * Pitch + x \in Nat
        /\ Offset("luma") + y * Pitch + x < DST
    BY <1>1, <1>3, LumaBelowChroma
  <2> QED
    BY <2>1, <2>2, <2>3, KeptByte
<1> QED
  BY <1>2, <1>3
-----------------------------------------------------------------------------
(* The first line of the luma plane.                                       *)
LEMMA InitPlaceInv ==
  Init => PlaceInv
<1> SUFFICES ASSUME Init
             PROVE  PlaceInv
  OBVIOUS
<1>1. FirstLine
  <2>1. height \in Nat /\ width \in Nat \ {0} /\ width % lanes = 0 /\ lanes \in 1 .. 2
    BY TilingAssumption DEF Init
  <2> QED
    BY <2>1 DEF Init, FirstLine, Sizes, Lines, Offset
<1>2. Registers /\ Line = 0
  BY <1>1, AtFirstLine
<1>3. DOMAIN store = {}
  BY DEF Init
<1>4. plane = "luma"
  BY DEF Init
<1>5. LinesInPlace
  BY <1>2 DEF LinesInPlace, PlaneInPlace, Line
<1>6. ReadsInsideFrame /\ LumaKept
  BY <1>3, <1>4 DEF ReadsInsideFrame, LumaKept
<1> QED
  BY <1>2, <1>5, <1>6 DEF PlaceInv

(* The chroma plane begins when the last line of luma has been copied.     *)
LEMMA StartChromaPlaceInv ==
  PlaceInv /\ StartChroma => PlaceInv'
<1> SUFFICES ASSUME PlaceInv, StartChroma
             PROVE  PlaceInv'
  OBVIOUS
<1>0. /\ UNCHANGED <<lanes, width, height, store>>
      /\ lanes = 1 /\ plane = "luma" /\ plane' = "chroma" /\ HEIGHT = 0
      /\ SRC' = 0 /\ TLINE' = TILE
      /\ DST' = Offset("chroma") /\ HEIGHT' = Lines("chroma")
  BY DEF StartChroma
<1>1. Registers /\ Sizes
  BY DEF PlaceInv, Registers
<1>2. FirstLine'
  BY <1>0, <1>1 DEF FirstLine, Sizes, Lines, Offset
<1>3. Registers' /\ Line' = 0
  <2>1. FirstLine' => Registers' /\ (Line = 0)'
    BY AtFirstLine, PTL
  <2> QED
    BY <1>2, <2>1
<1>4. LinesInPlace'
  BY <1>3 DEF LinesInPlace, PlaneInPlace, Line
<1>5. ReadsInsideFrame'
  BY <1>0 DEF PlaceInv, ReadsInsideFrame, Align, Lines
<1>6. LumaKept'
  <2>1. Lines("luma") = height /\ Lines("luma")' = height /\ height \in Nat
    BY <1>0, <1>1 DEF Lines, Sizes
  <2>2. DataSize' = DataSize
    BY <1>0, SamePicture
  <2>3. PlaneInPlace("luma", Lines("luma"))
    <3>1. Lines("luma") - HEIGHT = Lines("luma")
      BY <1>0, <2>1
    <3> QED
      BY <1>0, <3>1 DEF PlaceInv, LinesInPlace
  <2>4. PlaneInPlace("luma", Lines("luma"))'
    BY <1>0, <2>1, <2>3 DEF PlaneInPlace, InPlace, Offset, Pitch, Align, TiledAddress
  <2> QED
    BY <1>0, <2>2, <2>4 DEF PlaceInv, LumaKept
<1> QED
  BY <1>3, <1>4, <1>5, <1>6 DEF PlaceInv

(* The invariant is inductive.                                             *)
LEMMA StepPlaceInv ==
  PlaceInv /\ [Next]_vars => PlaceInv'
<1> SUFFICES ASSUME PlaceInv, [Next]_vars
             PROVE  PlaceInv'
  OBVIOUS
<1>1. CASE CopyLine
  BY <1>1, CopyKeepsRegisters, CopyKeepsLines, CopyReadsInside, CopyKeepsLuma DEF PlaceInv
<1>2. CASE StartChroma
  BY <1>2, StartChromaPlaceInv
<1>3. CASE UNCHANGED vars
  BY <1>3 DEF vars, PlaceInv, Registers, Sizes, Columns, Line, LumaKept, LinesInPlace,
     ReadsInsideFrame, PlaneInPlace, InPlace, Offset, Pitch, Align, TiledAddress, Lines,
     DataSize
<1> QED
  BY <1>1, <1>2, <1>3 DEF Next

(* It holds while the planes are detiled.                                  *)
LEMMA PlaceInvHolds ==
  Spec => []PlaceInv
BY InitPlaceInv, StepPlaceInv, PTL DEF Spec

-----------------------------------------------------------------------------
(***************************************************************************)
(* The running pointers of tiled_to_planar and                             *)
(* tiled_deinterleave_to_planar (tiled_yuv.S) never drift: every line that *)
(* was copied is where the layout of tiles and the pitch want it, for      *)
(* pictures of any size and for tiles of any size.                         *)
(***************************************************************************)
THEOREM LinesInPlaceHolds ==
  Spec => []LinesInPlace
<1>1. PlaceInv => LinesInPlace
  BY DEF PlaceInv
<1> QED
  BY <1>1, PlaceInvHolds, PTL

(***************************************************************************)
(* The routines of tiled_yuv.S read nothing outside the tiles of the       *)
(* plane: SRC never leaves the rows of tiles that hold its lines.          *)
(***************************************************************************)
THEOREM ReadsInsideFrameHolds ==
  Spec => []ReadsInsideFrame
<1>1. PlaceInv => ReadsInsideFrame
  BY DEF PlaceInv
<1> QED
  BY <1>1, PlaceInvHolds, PTL

(***************************************************************************)
(* The image of vaDeriveImage (image.c) has both planes, neither beyond    *)
(* the buffer nor over the other, when its lines are whole tiles wide.     *)
(***************************************************************************)
THEOREM ImageCompleteHolds ==
  Spec => []ImageComplete
<1>1. PlaceInv => ImageComplete
  <2> SUFFICES ASSUME PlaceInv, lanes = 1, width % TILE = 0
               PROVE  /\ \A a \in DOMAIN store : a[2] < DataSize
                      /\ plane = "chroma" /\ HEIGHT = 0 =>
                           /\ PlaneInPlace("luma", Lines("luma"))
                           /\ PlaneInPlace("chroma", Lines("chroma"))
    BY DEF ImageComplete
  <2>1. ASSUME HEIGHT = 0, plane = "chroma"
        PROVE  PlaneInPlace("chroma", Lines("chroma"))
    <3>1. Lines("chroma") - HEIGHT = Lines("chroma")
      BY <2>1, LinesNat DEF PlaceInv, Registers
    <3> QED
      BY <2>1, <3>1 DEF PlaceInv, LinesInPlace
  <2> QED
    BY <2>1 DEF PlaceInv, LumaKept
<1> QED
  BY <1>1, PlaceInvHolds, PTL
=============================================================================
