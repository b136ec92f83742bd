------------------------------- MODULE Tiling -------------------------------
(***************************************************************************)
(* Detiling (tiled_yuv.S) and its use in vaDeriveImage (image.c).          *)
(*                                                                         *)
(* The video engine writes a plane as tiles of TILE by TILE bytes, left to *)
(* right and top to bottom, each with its lines one after the other.       *)
(* tiled_to_planar copies it line by line into a plane with a pitch;       *)
(* tiled_deinterleave_to_planar at the same time parts the bytes of each   *)
(* pair over two planes.  The two differ in the number of `lanes' only.    *)
(*                                                                         *)
(* vaDeriveImage detiles the luma and then the chroma plane of a frame     *)
(* into one image buffer.  A step is one picture line of a routine.  What  *)
(* is stored is not a value but the place in the tiled plane it was read   *)
(* from.                                                                   *)
(***************************************************************************)
EXTENDS Integers, Functions

CONSTANTS
  TILE,       \* width and height of a tile (32 in the code)
  MaxWidth,   \* bound: width and height of the pictures
  MaxHeight

ASSUME TilingAssumption ==
  /\ TILE \in Nat \ {0} /\ TILE % 4 = 0
  /\ MaxWidth \in Nat /\ MaxHeight \in Nat

VARIABLES
  lanes,    \* 1 in tiled_to_planar, 2 in tiled_deinterleave_to_planar
  width, height,  \* of the picture
  plane,    \* the plane being detiled
  SRC, DST, TLINE, HEIGHT,  \* the registers that go from line to line
  store     \* store[<<lane, address>>], the plane and the place in it that
            \* the byte written there came from

vars == <<lanes, width, height, plane, SRC, DST, TLINE, HEIGHT, store>>

Align(n) == ((n + TILE - 1) \div TILE) * TILE

(* The image of vaCreateImage: the pitch of its planes, the offset of the  *)
(* second one, and its size.  The pitch is that of the chroma planes when  *)
(* there are two lanes.                                                    *)
Pitch == Align(width) \div lanes
Offset(p) == IF p = "luma" THEN 0 ELSE width * height
DataSize == (width * height) + (((width + 1) * (height + 1)) \div 2)

Lines(p) == IF p = "luma" \/ lanes = 2 THEN height ELSE height \div 2
-----------------------------------------------------------------------------
(***************************************************************************)
(* The bytes of a line are taken from complete tiles, one after the other, *)
(* and from the first bytes of a last, partial tile: half a tile when      *)
(* there are as many, then one by one.  With two lanes a unit is a pair.   *)
(***************************************************************************)
NTILES == width \div TILE
REST == (width \div lanes) % (TILE \div lanes)
Units == TILE \div lanes

(* Mutant: the half tile is left out.                                      *)
PartialWithoutHalf == REST % (Units \div 2)

Partial ==
  (IF REST >= Units \div 2 THEN Units \div 2 ELSE 0) + (REST % (Units \div 2))

LineUnits == NTILES * Units + Partial

UnitSource(i) == SRC + ((i \div Units) * TILE * TILE) + ((i % Units) * lanes)

(* The source pointer after a line, and how it is put on the next line, in *)
(* the same row of tiles or in the next one.                               *)
LineEnd == SRC + TILE * TILE * (IF REST = 0 THEN NTILES ELSE NTILES + 1)

(* Mutant: the width is not rounded up to whole tiles.                     *)
NEXTLIN_Unaligned == TILE - TILE * width

NEXTLIN == TILE - TILE * Align(width)

NextSource ==
  IF TLINE # 1 THEN LineEnd + NEXTLIN ELSE LineEnd - TILE * (TILE - 1)

CopyLine ==
  /\ HEIGHT > 0
  /\ LET written == {<<k, DST + i>> : k \in 0 .. lanes - 1, i \in 0 .. LineUnits - 1}
     IN  store' = [a \in DOMAIN store \cup written |->
                     IF a \in written
                       THEN <<plane, UnitSource(a[2] - DST) + a[1]>>
                       ELSE store[a]]
  /\ DST' = DST + LineUnits + (Pitch - width \div lanes)
  /\ SRC' = NextSource
  /\ TLINE' = IF TLINE # 1 THEN TLINE - 1 ELSE TILE
  /\ HEIGHT' = HEIGHT - 1
  /\ UNCHANGED <<lanes, width, height, plane>>

(* Mutant: the chroma plane starts at half its offset.                     *)
StartChromaAtHalf ==
  /\ lanes = 1
  /\ plane = "luma" /\ HEIGHT = 0
  /\ plane' = "chroma"
  /\ SRC' = 0 /\ DST' = Offset("chroma") \div 2 /\ TLINE' = TILE /\ HEIGHT' = Lines("chroma")
  /\ UNCHANGED <<lanes, width, height, store>>

(* vaDeriveImage calls tiled_to_planar again, for the chroma plane.        *)
StartChroma ==
  /\ lanes = 1
  /\ plane = "luma" /\ HEIGHT = 0
  /\ plane' = "chroma"
  /\ SRC' = 0 /\ DST' = Offset("chroma") /\ TLINE' = TILE /\ HEIGHT' = Lines("chroma")
  /\ UNCHANGED <<lanes, width, height, store>>

(***************************************************************************)
(* Pictures of two lines and more: a plane of no lines would make HEIGHT   *)
(* wrap.  The pairs of the two-lane routine make the width even.           *)
(***************************************************************************)
Init ==
  /\ lanes \in 1 .. 2
  /\ width \in {w \in 1 .. MaxWidth : w % lanes = 0}
  /\ height \in 2 .. MaxHeight
  /\ plane = "luma"
  /\ SRC = 0 /\ DST = 0 /\ TLINE = TILE /\ HEIGHT = height
  /\ store = [a \in {} |-> a]

Next == CopyLine \/ StartChroma

Spec == Init /\ [][Next]_vars
-----------------------------------------------------------------------------
(* Where byte x of line y is in a tiled plane.                             *)
TiledAddress(x, y) ==
  LET tile == ((y \div TILE) * (Align(width) \div TILE)) + (x \div TILE)
  IN  (tile * TILE * TILE) + ((y % TILE) * TILE) + (x % TILE)

(* The byte of lane k of unit x of line y has come to its place.           *)
InPlace(p, x, y, k) ==
  LET a == <<k, Offset(p) + y * Pitch + x>>
  IN  a \in DOMAIN store /\ store[a] = <<p, TiledAddress(lanes * x + k, y)>>

PlaneInPlace(p, lines) ==
  \A y \in 0 .. lines - 1, x \in 0 .. width \div lanes - 1, k \in 0 .. lanes - 1 :
    InPlace(p, x, y, k)

(***************************************************************************)
(* Every line copied so far is where the layout of tiles and the pitch     *)
(* want it, for pictures of any width: the running pointers, corrected at  *)
(* the end of each line and of each row of tiles, never drift.             *)
(***************************************************************************)
LinesInPlace == PlaneInPlace(plane, Lines(plane) - HEIGHT)

(***************************************************************************)
(* Nothing is read outside the tiles of the frame.                         *)
(***************************************************************************)
ReadsInsideFrame ==
  \A a \in DOMAIN store :
    store[a][2] \in 0 .. Align(width) * Align(Lines(store[a][1])) - 1

(***************************************************************************)
(* The image that vaDeriveImage returns has both planes, neither written   *)
(* over by the other nor beyond the buffer, when lines are whole tiles     *)
(* wide.  (For other widths the planes overlap: vaCreateImage leaves room  *)
(* for lines of the width, not of the pitch.)                              *)
(***************************************************************************)
ImageComplete ==
  (lanes = 1 /\ width % TILE = 0) =>
    /\ \A a \in DOMAIN store : a[2] < DataSize
    /\ plane = "chroma" /\ HEIGHT = 0 =>
         PlaneInPlace("luma", Lines("luma")) /\ PlaneInPlace("chroma", Lines("chroma"))
=============================================================================
