-------------------------- MODULE SliceData_proofs --------------------------
(***************************************************************************)
(* For pictures of any size, any tiles, any slice of them and any range of *)
(* QPs: the contexts and the motion a CTU starts from are of its own tile  *)
(* and slice, the decoder ends a substream where the encoder does, as many *)
(* as the slice header counts, and the decoder's QPs are the encoder's     *)
(* where the slice has one tile.  Behind it, what the contexts start from: *)
(* the states kept from picture to picture, where encoder and decoder drop *)
(* theirs by POCs of their own.                                            *)
(*                                                                         *)
(* The argument on slices is about the order in which CTUs are coded: the  *)
(* CTU before one inside a row is its left neighbour, and the CTU before   *)
(* the first one of a row is of the same tile, unless a tile starts there. *)
(***************************************************************************)
EXTENDS SliceData, ContextStore, FiniteSetTheorems, WellFoundedInduction, TLAPS

Starts(S, n) == S \subseteq 0 .. n - 1 /\ 0 \in S

Tiles == {Tile(c) : c \in Ctu}

IsSlice(S) ==
    \/ \E f, l \in Tiles : S = TilesFrom(f, l)
    \/ \E t \in Tiles, a, b \in 0 .. HeightInCtus - 1 : S = RowsOfTile(t, a, b)

(* What never changes while a slice is coded. *)
Shaped ==
    /\ Starts(tileCols, WidthInCtus) /\ Starts(tileRows, HeightInCtus)
    /\ wavefront \in BOOLEAN
    /\ IsSlice(sliceCtus) /\ sliceCtus # {}
    /\ sliceQp \in Qp

Left(c) == [x |-> c.x - 1, y |-> c.y]

OneTile == \A c, d \in sliceCtus : Tile(c) = Tile(d)

(* How many CTUs of the slice are coded before this one. *)
Place(c) == Cardinality({d \in sliceCtus : Before(d, c)})

----------------------------------------------------------------------------
(* Tiles. *)

(* The last start at or before v: what TileColBd and TileRowBd choose.     *)
LastStart(S, v) == CHOOSE b \in S : b <= v /\ \A a \in S : a <= v => a <= b

(* It is a start, and none lies between it and v. *)
LEMMA LastStartIs ==
    ASSUME NEW n \in Nat, NEW S, Starts(S, n), NEW v \in Nat
    PROVE  /\ LastStart(S, v) \in S /\ LastStart(S, v) <= v
           /\ \A a \in S : a <= v => a <= LastStart(S, v)
<1> DEFINE T == {v - a : a \in {b \in S : b <= v}}
<1>1. S \subseteq Nat /\ 0 \in S
    BY DEF Starts
<1>2. T \subseteq Nat /\ T # {}
    BY <1>1
<1>3. PICK t \in T : \A u \in T : ~(<<u, t>> \in OpToRel(<, Nat))
    <2> HIDE DEF T
    <2> DEFINE R == OpToRel(<, Nat)
    <2>1. IsWellFoundedOn(R, Nat)
        BY NatLessThanWellFounded
    <2> HIDE DEF R
    <2>2. \E t \in T : \A u \in T : ~(<<u, t>> \in R)
        BY <1>2, <2>1, WFMin, Zenon
    <2> QED
        BY <2>2 DEF R
<1>4. \A u \in T : t <= u
    <2> HIDE DEF T
    <2>1. \A u, w \in Nat : u < w => <<u, w>> \in OpToRel(<, Nat)
        <3>1. \A u, w \in Nat : <<u, w>>[1] = u /\ <<u, w>>[2] = w /\ <<u, w>> \in Nat \X Nat
            OBVIOUS
        <3> QED
            BY <3>1, Zenon DEF OpToRel
    <2> DEFINE R == OpToRel(<, Nat)
    <2>2. \A u, w \in Nat : u < w => <<u, w>> \in R
        BY <2>1
    <2>3. t \in T /\ \A u \in T : ~(<<u, t>> \in R)
        BY <1>3
    <2> HIDE DEF R
    <2>4. t \in Nat /\ \A u \in T : u \in Nat /\ ~(u < t)
        BY <1>2, <2>2, <2>3
    <2> QED
        BY <2>4
<1>5. PICK b \in S : b <= v /\ t = v - b
    BY <1>3
<1>6. \A a \in S : a <= v => a <= b
    BY <1>1, <1>4, <1>5
<1>7. \E z \in S : z <= v /\ \A a \in S : a <= v => a <= z
    BY <1>5, <1>6
<1> QED
    BY <1>7 DEF LastStart

(* The borders of a tile are numbers, whatever the slice. *)
LEMMA StartIsNumber ==
    ASSUME Starts(tileCols, WidthInCtus), Starts(tileRows, HeightInCtus), NEW c \in Ctu
    PROVE  TileColBd(c.x) \in Int /\ TileRowBd(c.y) \in Int
<1>1. WidthInCtus \in Nat /\ HeightInCtus \in Nat /\ c.x \in Nat /\ c.y \in Nat
    BY SliceAssumption DEF Ctu
<1>2. TileColBd(c.x) = LastStart(tileCols, c.x) /\ TileRowBd(c.y) = LastStart(tileRows, c.y)
    BY Zenon DEF TileColBd, TileRowBd, LastStart
<1>3. LastStart(tileCols, c.x) \in tileCols /\ LastStart(tileRows, c.y) \in tileRows
    BY <1>1, LastStartIs
<1>4. tileCols \subseteq Nat /\ tileRows \subseteq Nat
    BY DEF Starts
<1>5. TileColBd(c.x) \in Nat /\ TileRowBd(c.y) \in Nat
    BY <1>2, <1>3, <1>4, Zenon
<1> QED
    BY <1>5

(* Two places have the same last start if none lies between them. *)
LEMMA SameStart ==
    ASSUME NEW n \in Nat, NEW S, Starts(S, n), NEW v \in Nat, NEW w \in Nat,
           LastStart(S, w) <= v, v <= w
    PROVE  LastStart(S, v) = LastStart(S, w)
<1> DEFINE b == LastStart(S, v)
           d == LastStart(S, w)
<1>1. S \subseteq Nat
    BY DEF Starts
<1>2. b \in S /\ b <= v /\ \A a \in S : a <= v => a <= b
    BY LastStartIs
<1>3. d \in S /\ d <= w /\ \A a \in S : a <= w => a <= d
    BY LastStartIs
<1> HIDE DEF b, d
<1>4. d <= v
    BY DEF d
<1>5. d <= b /\ b <= d
    BY <1>1, <1>2, <1>3, <1>4
<1>6. b = d
    BY <1>1, <1>2, <1>3, <1>5
<1> QED
    BY <1>6 DEF b, d

(* The tile of a CTU begins in the picture, at or before the CTU.          *)
LEMMA TileIs ==
    ASSUME Shaped, NEW c \in Ctu
    PROVE  /\ TileColBd(c.x) = LastStart(tileCols, c.x)
           /\ TileRowBd(c.y) = LastStart(tileRows, c.y)
           /\ TileColBd(c.x) \in 0 .. c.x /\ TileRowBd(c.y) \in 0 .. c.y
           /\ Tile(c) \in Ctu
           /\ Tile(c).x = TileColBd(c.x) /\ Tile(c).y = TileRowBd(c.y)
<1>1. WidthInCtus \in Nat /\ HeightInCtus \in Nat /\ c.x \in 0 .. WidthInCtus - 1 /\ c.y \in 0 .. HeightInCtus - 1
    BY SliceAssumption DEF Ctu
<1>2. Starts(tileCols, WidthInCtus) /\ Starts(tileRows, HeightInCtus)
    BY DEF Shaped
<1>3. TileColBd(c.x) = LastStart(tileCols, c.x) /\ TileRowBd(c.y) = LastStart(tileRows, c.y)
    BY Zenon DEF TileColBd, TileRowBd, LastStart
<1>4. TileColBd(c.x) \in 0 .. c.x /\ TileRowBd(c.y) \in 0 .. c.y
    <2>1. /\ LastStart(tileCols, c.x) \in tileCols /\ LastStart(tileCols, c.x) <= c.x
          /\ LastStart(tileRows, c.y) \in tileRows /\ LastStart(tileRows, c.y) <= c.y
        BY <1>1, <1>2, LastStartIs
    <2>2. tileCols \subseteq Nat /\ tileRows \subseteq Nat
        BY <1>2 DEF Starts
    <2> HIDE DEF LastStart
    <2>3. TileColBd(c.x) \in Nat /\ TileRowBd(c.y) \in Nat
        BY <1>3, <2>1, <2>2, Zenon
    <2>4. TileColBd(c.x) <= c.x /\ TileRowBd(c.y) <= c.y
        BY <1>3, <2>1, Zenon
    <2> QED
        BY <1>1, <2>3, <2>4
<1> QED
    BY <1>1, <1>3, <1>4 DEF Tile, Ctu

(* To the left within a row, and above, within a tile. *)
LEMMA LeftInTile ==
    ASSUME Shaped, NEW c \in Ctu, ~StartsRow(c)
    PROVE  Left(c) \in Ctu /\ Tile(Left(c)) = Tile(c)
<1>1. WidthInCtus \in Nat /\ HeightInCtus \in Nat /\ c.x \in 0 .. WidthInCtus - 1 /\ c.y \in 0 .. HeightInCtus - 1
    BY SliceAssumption DEF Ctu
<1>2. TileColBd(c.x) \in 0 .. c.x - 1
    BY <1>1, TileIs DEF StartsRow
<1>3. Left(c) \in Ctu /\ Left(c).x = c.x - 1 /\ Left(c).y = c.y
    BY <1>1, <1>2 DEF Left, Ctu
<1>4. Starts(tileCols, WidthInCtus)
    BY DEF Shaped
<1>5. LastStart(tileCols, c.x - 1) = LastStart(tileCols, c.x)
    BY <1>1, <1>2, <1>4, TileIs, SameStart
<1>6. TileColBd(Left(c).x) = TileColBd(c.x) /\ TileRowBd(Left(c).y) = TileRowBd(c.y)
    BY <1>3, <1>5, TileIs
<1> QED
    BY <1>3, <1>6 DEF Tile

(* The same above, below the first row of the tile. *)
LEMMA AboveInTile ==
    ASSUME Shaped, NEW c \in Ctu, c.y # TileRowBd(c.y)
    PROVE  Above(c) \in Ctu /\ Tile(Above(c)) = Tile(c)
<1>1. WidthInCtus \in Nat /\ HeightInCtus \in Nat /\ c.x \in 0 .. WidthInCtus - 1 /\ c.y \in 0 .. HeightInCtus - 1
    BY SliceAssumption DEF Ctu
<1>2. TileRowBd(c.y) \in 0 .. c.y - 1
    BY <1>1, TileIs
<1>3. Above(c) \in Ctu /\ Above(c).x = c.x /\ Above(c).y = c.y - 1
    BY <1>1, <1>2 DEF Above, Ctu
<1>4. Starts(tileRows, HeightInCtus)
    BY DEF Shaped
<1>5. LastStart(tileRows, c.y - 1) = LastStart(tileRows, c.y)
    BY <1>1, <1>2, <1>4, TileIs, SameStart
<1>6. TileColBd(Above(c).x) = TileColBd(c.x) /\ TileRowBd(Above(c).y) = TileRowBd(c.y)
    BY <1>3, <1>5, TileIs
<1> QED
    BY <1>3, <1>6 DEF Tile

(* To the right and below, unless a tile or the picture ends. *)
LEMMA NextStart ==
    ASSUME NEW n \in Nat, NEW S, Starts(S, n), NEW v \in 0 .. n - 1, v + 1 \notin S \cup {n}
    PROVE  v + 1 \in 0 .. n - 1 /\ LastStart(S, v + 1) = LastStart(S, v)
<1>1. S \subseteq Nat
    BY DEF Starts
<1>2. v + 1 \in 0 .. n - 1 /\ v + 1 \in Nat /\ v \in Nat /\ v + 1 \notin S
    OBVIOUS
<1> DEFINE d == LastStart(S, v + 1)
<1>3. d \in S /\ d <= v + 1
    BY <1>2, LastStartIs
<1> HIDE DEF d
<1>4. d <= v
    BY <1>1, <1>2, <1>3
<1>5. LastStart(S, v) = LastStart(S, v + 1)
    BY <1>2, <1>4, SameStart DEF d
<1> QED
    BY <1>2, <1>5

RightOf(c) == [x |-> c.x + 1, y |-> c.y]
BelowOf(c) == [x |-> c.x, y |-> c.y + 1]

(* The next CTU of the row is of the tile. *)
LEMMA RightInTile ==
    ASSUME Shaped, NEW c \in Ctu, c.x + 1 \notin tileCols \cup {WidthInCtus}
    PROVE  RightOf(c) \in Ctu /\ Tile(RightOf(c)) = Tile(c)
<1>1. WidthInCtus \in Nat /\ HeightInCtus \in Nat /\ c.x \in 0 .. WidthInCtus - 1 /\ c.y \in 0 .. HeightInCtus - 1
    BY SliceAssumption DEF Ctu
<1>2. Starts(tileCols, WidthInCtus)
    BY DEF Shaped
<1>3. c.x + 1 \in 0 .. WidthInCtus - 1 /\ LastStart(tileCols, c.x + 1) = LastStart(tileCols, c.x)
    BY <1>1, <1>2, NextStart
<1>4. RightOf(c) \in Ctu /\ RightOf(c).x = c.x + 1 /\ RightOf(c).y = c.y
    BY <1>1, <1>3 DEF RightOf, Ctu
<1>5. TileColBd(RightOf(c).x) = TileColBd(c.x) /\ TileRowBd(RightOf(c).y) = TileRowBd(c.y)
    BY <1>3, <1>4, TileIs
<1> QED
    BY <1>4, <1>5 DEF Tile

(* The CTU below is of the tile. *)
LEMMA BelowInTile ==
    ASSUME Shaped, NEW c \in Ctu, c.y + 1 \notin tileRows \cup {HeightInCtus}
    PROVE  BelowOf(c) \in Ctu /\ Tile(BelowOf(c)) = Tile(c)
<1>1. WidthInCtus \in Nat /\ HeightInCtus \in Nat /\ c.x \in 0 .. WidthInCtus - 1 /\ c.y \in 0 .. HeightInCtus - 1
    BY SliceAssumption DEF Ctu
<1>2. Starts(tileRows, HeightInCtus)
    BY DEF Shaped
<1>3. c.y + 1 \in 0 .. HeightInCtus - 1 /\ LastStart(tileRows, c.y + 1) = LastStart(tileRows, c.y)
    BY <1>1, <1>2, NextStart
<1>4. BelowOf(c) \in Ctu /\ BelowOf(c).x = c.x /\ BelowOf(c).y = c.y + 1
    BY <1>1, <1>3 DEF BelowOf, Ctu
<1>5. TileColBd(BelowOf(c).x) = TileColBd(c.x) /\ TileRowBd(BelowOf(c).y) = TileRowBd(c.y)
    BY <1>3, <1>4, TileIs
<1> QED
    BY <1>4, <1>5 DEF Tile

----------------------------------------------------------------------------
(* The order in which the CTUs of a slice are coded. *)

(* Raster addresses are ordered by row, then by column. *)
LEMMA RasterOrder ==
    ASSUME NEW c \in Ctu, NEW d \in Ctu
    PROVE  /\ Raster(c) \in Nat
           /\ Raster(c) < Raster(d) <=> c.y < d.y \/ (c.y = d.y /\ c.x < d.x)
           /\ Raster(c) = Raster(d) <=> c = d
<1> DEFINE W == WidthInCtus
<1>1. /\ W \in Nat \ {0}
      /\ c.x \in 0 .. W - 1 /\ c.y \in Nat /\ d.x \in 0 .. W - 1 /\ d.y \in Nat
    BY SliceAssumption DEF Ctu
<1>2. ASSUME NEW i \in Nat, NEW j \in Nat, i < j
      PROVE  i * W + W <= j * W
    <2> HIDE DEF W
    <2>1. j - i - 1 \in Nat /\ j = i + 1 + (j - i - 1)
        BY <1>2
    <2>2. (j - i - 1) * W >= 0
        BY <1>1, <2>1
    <2>3. j * W = i * W + W + (j - i - 1) * W
        BY <1>1, <2>1
    <2>4. i * W \in Int /\ j * W \in Int /\ (j - i - 1) * W \in Int
        BY <1>1
    <2> QED
        BY <1>1, <2>2, <2>3, <2>4
<1>3. c.y * W \in Nat /\ d.y * W \in Nat
    BY <1>1
<1>4. /\ c.y < d.y => c.y * W + W <= d.y * W
      /\ d.y < c.y => d.y * W + W <= c.y * W
    BY <1>1, <1>2
<1>5. c = d <=> c.x = d.x /\ c.y = d.y
    BY DEF Ctu
<1>6. Raster(c) = c.y * W + c.x /\ Raster(d) = d.y * W + d.x
    BY DEF Raster
<1> HIDE DEF W
<1>7. \/ c.y < d.y
      \/ d.y < c.y
      \/ c.y = d.y
    BY <1>1
<1>8. CASE c.y < d.y
    BY <1>1, <1>3, <1>4, <1>5, <1>6, <1>8
<1>9. CASE d.y < c.y
    BY <1>1, <1>3, <1>4, <1>5, <1>6, <1>9
<1>10. CASE c.y = d.y
    BY <1>1, <1>3, <1>5, <1>6, <1>10
<1> QED
    BY <1>7, <1>8, <1>9, <1>10

(* Before is a strict total order on the CTUs of the picture. *)
LEMMA BeforeIsOrder ==
    ASSUME Shaped
    PROVE  /\ \A c \in Ctu : ~Before(c, c)
           /\ \A c, d \in Ctu : c # d => Before(c, d) \/ Before(d, c)
           /\ \A c, d, e \in Ctu : Before(c, d) /\ Before(d, e) => Before(c, e)
<1> DEFINE r(c) == Raster(c)
           t(c) == Raster(Tile(c))
<1>1. \A c \in Ctu : r(c) \in Nat /\ t(c) \in Nat
    BY RasterOrder, TileIs
<1>2. \A c, d \in Ctu : r(c) = r(d) <=> c = d
    BY RasterOrder
<1>3. \A c, d \in Ctu : t(c) = t(d) <=> Tile(c) = Tile(d)
    BY RasterOrder, TileIs
<1>4. \A c, d \in Ctu : Before(c, d) <=> IF t(c) = t(d) THEN r(c) < r(d) ELSE t(c) < t(d)
    BY <1>3, Zenon DEF Before
<1> HIDE DEF r, t
<1> QED
    BY <1>1, <1>2, <1>4

(* A slice has finitely many CTUs, all of the picture. *)
LEMMA SliceIsFinite ==
    ASSUME Shaped
    PROVE  sliceCtus \subseteq Ctu /\ IsFiniteSet(sliceCtus) /\ NumCtuInSlice \in Nat
<1> DEFINE P == (0 .. WidthInCtus - 1) \X (0 .. HeightInCtus - 1)
           f == [c \in Ctu |-> <<c.x, c.y>>]
<1>1. sliceCtus \subseteq Ctu
    BY Zenon DEF Shaped, IsSlice, TilesFrom, RowsOfTile
<1>2. IsFiniteSet(P)
    <2>1. WidthInCtus - 1 \in Int /\ HeightInCtus - 1 \in Int
        BY SliceAssumption
    <2>2. IsFiniteSet(0 .. WidthInCtus - 1) /\ IsFiniteSet(0 .. HeightInCtus - 1)
        BY <2>1, FS_Interval
    <2> QED
        BY <2>2, FS_Product
<1>3. f \in Injection(Ctu, P)
    BY DEF Injection, IsInjective, Ctu
<1>4. IsFiniteSet(Ctu)
    <2> HIDE DEF f, P
    <2> QED
        BY <1>2, <1>3, FS_Injection
<1> QED
    BY <1>1, <1>4, FS_Subset, FS_CardinalityType DEF NumCtuInSlice

(* A slice holds the CTUs to the left of its own in their tile, and those  *)
(* above that are below another one of the slice.                          *)
LEMMA LeftInSlice ==
    ASSUME Shaped, NEW c \in sliceCtus, ~StartsRow(c)
    PROVE  Left(c) \in sliceCtus /\ Tile(Left(c)) = Tile(c) /\ Left(c).y = c.y
<1>1. c \in Ctu
    BY SliceIsFinite
<1>2. Left(c) \in Ctu /\ Tile(Left(c)) = Tile(c)
    BY <1>1, LeftInTile
<1>3. Left(c).y = c.y
    BY DEF Left
<1>4. CASE \E f, l \in Tiles : sliceCtus = TilesFrom(f, l)
    BY <1>2, <1>3, <1>4, Zenon DEF TilesFrom
<1>5. CASE \E t \in Tiles, a, b \in 0 .. HeightInCtus - 1 : sliceCtus = RowsOfTile(t, a, b)
    BY <1>2, <1>3, <1>5, Zenon DEF RowsOfTile
<1> QED
    BY <1>3, <1>2, <1>4, <1>5, Zenon DEF Shaped, IsSlice

(* So it holds the CTU above, if it has more than one tile. *)
LEMMA AboveInSlice ==
    ASSUME Shaped, NEW c \in sliceCtus, c.y # TileRowBd(c.y)
    PROVE  TopAvailable(c) \/ OneTile
<1>1. c \in Ctu
    BY SliceIsFinite
<1>2. Above(c) \in Ctu /\ Tile(Above(c)) = Tile(c)
    BY <1>1, AboveInTile
<1>3. CASE \E f, l \in Tiles : sliceCtus = TilesFrom(f, l)
    BY <1>2, <1>3, Zenon DEF TilesFrom, TopAvailable
<1>4. CASE \E t \in Tiles, a, b \in 0 .. HeightInCtus - 1 : sliceCtus = RowsOfTile(t, a, b)
    BY <1>4, Zenon DEF RowsOfTile, OneTile
<1> QED
    BY <1>3, <1>4, Zenon DEF Shaped, IsSlice

(* And it does if another CTU of the slice and tile is in a row above.     *)
LEMMA AboveAnother ==
    ASSUME Shaped, NEW c \in sliceCtus, NEW d \in sliceCtus, Tile(d) = Tile(c), d.y < c.y
    PROVE  TopAvailable(c)
<1>1. /\ c \in Ctu /\ d \in Ctu
      /\ c.y \in Nat /\ d.y \in Nat
    BY SliceIsFinite DEF Ctu
<1>2. TileRowBd(d.y) = TileRowBd(c.y) /\ TileRowBd(d.y) \in 0 .. d.y
    BY <1>1, TileIs
<1>3. c.y # TileRowBd(c.y)
    BY <1>1, <1>2
<1>4. Above(c) \in Ctu /\ Tile(Above(c)) = Tile(c) /\ Above(c).y = c.y - 1
    BY <1>1, <1>3, AboveInTile DEF Above
<1>5. CASE \E f, l \in Tiles : sliceCtus = TilesFrom(f, l)
    BY <1>4, <1>5, Zenon DEF TilesFrom, TopAvailable
<1>6. ASSUME NEW t \in Tiles, NEW a \in 0 .. HeightInCtus - 1, NEW b \in 0 .. HeightInCtus - 1,
             sliceCtus = RowsOfTile(t, a, b)
      PROVE  TopAvailable(c)
    <2>1. Tile(c) = t /\ a <= d.y /\ c.y <= b
        BY <1>6, Zenon DEF RowsOfTile
    <2>2. a <= c.y - 1 /\ c.y - 1 <= b
        BY <1>1, <2>1
    <2> QED
        BY <1>4, <1>6, <2>1, <2>2, Zenon DEF RowsOfTile, TopAvailable
<1> QED
    BY <1>5, <1>6, Zenon DEF Shaped, IsSlice

----------------------------------------------------------------------------
(* Places: Before is a strict total order, so that the number of CTUs      *)
(* before one enumerates the slice.                                        *)
LEMMA PlaceGrows ==
    ASSUME Shaped
    PROVE  /\ \A c \in sliceCtus : Place(c) \in 0 .. NumCtuInSlice - 1
           /\ \A c, d \in sliceCtus : Before(c, d) => Place(c) < Place(d)
           /\ \A c, d \in sliceCtus : Place(c) = Place(d) => c = d
           /\ \A c, d \in sliceCtus : Place(c) < Place(d) => Before(c, d)
<1> DEFINE S == sliceCtus
           below(c) == {d \in S : Before(d, c)}
           place(c) == Cardinality(below(c))
<1>1. S \subseteq Ctu /\ IsFiniteSet(S) /\ NumCtuInSlice = Cardinality(S) /\ NumCtuInSlice \in Nat
    BY SliceIsFinite DEF NumCtuInSlice
<1>2. /\ \A c \in S : ~Before(c, c)
      /\ \A c, d \in S : c # d => Before(c, d) \/ Before(d, c)
      /\ \A c, d, e \in S : Before(c, d) /\ Before(d, e) => Before(c, e)
    BY <1>1, BeforeIsOrder
<1>3. \A c : Place(c) = place(c)
    BY DEF Place
<1>4. \A c \in S : IsFiniteSet(below(c)) /\ place(c) \in Nat
    BY <1>1, FS_Subset, FS_CardinalityType
<1>5. ASSUME NEW c \in S, NEW d \in S, Before(c, d)
      PROVE  place(c) < place(d)
    <2>1. below(c) \in SUBSET below(d) /\ c \in below(d) /\ c \notin below(c)
        BY <1>2, <1>5
    <2>2. IsFiniteSet(below(c)) /\ IsFiniteSet(below(d)) /\ place(c) \in Nat /\ place(d) \in Nat
        BY <1>4
    <2>3. place(c) <= place(d) /\ (place(d) = place(c) => below(d) = below(c))
        BY <2>1, <2>2, FS_Subset
    <2> QED
        BY <2>1, <2>2, <2>3
<1>6. \A c \in S : place(c) \in 0 .. NumCtuInSlice - 1
    <2> TAKE c \in S
    <2>1. below(c) \in SUBSET S /\ below(c) # S
        BY <1>2
    <2>2. place(c) <= Cardinality(S) /\ (Cardinality(S) = place(c) => S = below(c))
        BY <1>1, <2>1, FS_Subset
    <2>3. place(c) \in Nat
        BY <1>4
    <2> HIDE DEF place, below, S
    <2> QED
        BY <1>1, <2>1, <2>2, <2>3
<1>7. \A c \in S : place(c) \in Nat
    BY <1>4
<1> HIDE DEF place, below
<1>8. \A c, d \in S : Before(c, d) => place(c) < place(d)
    BY <1>5
<1>9. \A c, d \in S : place(c) = place(d) => c = d
    BY <1>2, <1>7, <1>8
<1>10. \A c, d \in S : place(c) < place(d) => Before(c, d)
    BY <1>2, <1>7, <1>8
<1> QED
    BY <1>3, <1>6, <1>8, <1>9, <1>10, Zenon

(* CtuInSlice is well defined: every place is taken. *)
LEMMA CtuAt ==
    ASSUME Shaped, NEW k \in 0 .. NumCtuInSlice - 1
    PROVE  CtuInSlice(k) \in sliceCtus /\ Place(CtuInSlice(k)) = k
<1> DEFINE n == NumCtuInSlice
           f == [c \in sliceCtus |-> Place(c)]
<1>1. n \in Nat /\ IsFiniteSet(sliceCtus) /\ Cardinality(sliceCtus) = n
    BY SliceIsFinite DEF NumCtuInSlice
<1>2. f \in [sliceCtus -> 0 .. n - 1] /\ \A c, d \in sliceCtus : f[c] = f[d] => c = d
    BY PlaceGrows
<1>3. f \in Injection(sliceCtus, 0 .. n - 1)
    <2> HIDE DEF f, n
    <2> QED
        BY <1>2 DEF Injection, IsInjective
<1>4. IsFiniteSet(0 .. n - 1) /\ Cardinality(0 .. n - 1) = n
    <2> HIDE DEF n
    <2> QED
        BY <1>1, FS_Interval
<1>5. f \in Surjection(sliceCtus, 0 .. n - 1)
    <2> HIDE DEF f, n
    <2> QED
        BY <1>1, <1>3, <1>4, FS_Injection
<1>6. \E c \in sliceCtus : Place(c) = k
    <2>1. \E c \in sliceCtus : f[c] = k
        <3> HIDE DEF f
        <3> QED
            BY <1>5 DEF Surjection
    <2> QED
        BY <2>1
<1> QED
    BY <1>6, Zenon DEF CtuInSlice, Place

(* The CTU before one inside a row is its left neighbour; the slice starts *)
(* with the first one of a row.                                            *)
LEMMA InsideARow ==
    ASSUME Shaped, NEW k \in 0 .. NumCtuInSlice - 1, ~StartsRow(CtuInSlice(k))
    PROVE  k > 0 /\ CtuInSlice(k - 1) = Left(CtuInSlice(k))
<1> DEFINE c == CtuInSlice(k)
           p == Left(c)
<1>1. c \in sliceCtus /\ Place(c) = k
    BY CtuAt
<1>2. p \in sliceCtus /\ Tile(p) = Tile(c) /\ p.y = c.y /\ p.x = c.x - 1
    BY <1>1, LeftInSlice DEF Left
<1>3. sliceCtus \subseteq Ctu /\ NumCtuInSlice \in Nat
    BY SliceIsFinite
<1>4. Before(p, c)
    <2>1. Raster(p) < Raster(c)
        <3> HIDE DEF p, c
        <3>1. p \in Ctu /\ c \in Ctu /\ c.x \in Int /\ p.x < c.x
            BY <1>1, <1>2, <1>3 DEF Ctu
        <3> QED
            BY <1>2, <3>1, RasterOrder
    <2> QED
        BY <1>2, <2>1, Zenon DEF Before
<1>5. \A e \in sliceCtus : ~(Before(p, e) /\ Before(e, c))
    <2> HIDE DEF p, c
    <2> SUFFICES ASSUME NEW e \in sliceCtus, Before(p, e), Before(e, c)
                 PROVE  FALSE
        OBVIOUS
    <2>1. p \in Ctu /\ c \in Ctu /\ e \in Ctu
        BY <1>1, <1>2, <1>3
    <2>2. Raster(Tile(c)) \in Nat /\ Raster(Tile(e)) \in Nat
        BY <2>1, RasterOrder, TileIs
    <2>3. Tile(e) = Tile(c)
        BY <1>2, <2>2 DEF Before
    <2>4. Raster(p) < Raster(e) /\ Raster(e) < Raster(c)
        BY <1>2, <2>3, Zenon DEF Before
    <2>5. e.x \in Int /\ e.y \in Int /\ c.x \in Int /\ c.y \in Int
        BY <2>1 DEF Ctu
    <2> QED
        BY <1>2, <2>1, <2>4, <2>5, RasterOrder
<1>6. Place(p) \in 0 .. NumCtuInSlice - 1 /\ Place(p) < k
    BY <1>1, <1>2, <1>4, PlaceGrows
<1>7. k - 1 \in 0 .. NumCtuInSlice - 1
    BY <1>3, <1>6
<1>8. CtuInSlice(k - 1) \in sliceCtus /\ Place(CtuInSlice(k - 1)) = k - 1
    BY <1>7, CtuAt
<1> DEFINE e == CtuInSlice(k - 1)
<1> HIDE DEF p, c, e
<1>9. e \in sliceCtus /\ Place(e) = k - 1
    BY <1>8 DEF e
<1>10. Before(e, c)
    BY <1>1, <1>9, <1>7, PlaceGrows
<1>11. ~(Place(p) < Place(e))
    BY <1>2, <1>5, <1>9, <1>10, PlaceGrows
<1>12. Place(p) = Place(e)
    BY <1>6, <1>9, <1>11, <1>7
<1>13. p = e
    BY <1>2, <1>9, <1>12, PlaceGrows
<1> QED
    BY <1>6, <1>7, <1>13 DEF p, c, e

(* The CTU at the place before comes before. *)
LEMMA PreviousCtu ==
    ASSUME Shaped, NEW k \in 1 .. NumCtuInSlice - 1
    PROVE  /\ CtuInSlice(k - 1) \in sliceCtus /\ Place(CtuInSlice(k - 1)) = k - 1
           /\ Before(CtuInSlice(k - 1), CtuInSlice(k))
<1>1. NumCtuInSlice \in Nat
    BY SliceIsFinite
<1>2. k - 1 \in 0 .. NumCtuInSlice - 1 /\ k \in 0 .. NumCtuInSlice - 1
    BY <1>1
<1>3. /\ CtuInSlice(k - 1) \in sliceCtus /\ Place(CtuInSlice(k - 1)) = k - 1
      /\ CtuInSlice(k) \in sliceCtus /\ Place(CtuInSlice(k)) = k
    BY <1>2, CtuAt
<1> QED
    BY <1>2, <1>3, PlaceGrows

(* The CTU before one that has another above is of the same tile.          *)
LEMMA BelowAnother ==
    ASSUME Shaped, NEW k \in 0 .. NumCtuInSlice - 1, TopAvailable(CtuInSlice(k))
    PROVE  /\ k > 0 /\ Tile(CtuInSlice(k - 1)) = Tile(CtuInSlice(k))
           /\ Place(Above(CtuInSlice(k))) \in 0 .. k - 1
<1> DEFINE c == CtuInSlice(k)
           a == Above(c)
           e == CtuInSlice(k - 1)
<1>1. c \in sliceCtus /\ Place(c) = k
    BY CtuAt
<1>2. a \in sliceCtus /\ Tile(a) = Tile(c) /\ a.y = c.y - 1
    BY DEF TopAvailable, Above
<1>3. sliceCtus \subseteq Ctu /\ NumCtuInSlice \in Nat
    BY SliceIsFinite
<1> HIDE DEF a, c
<1>4. a \in Ctu /\ c \in Ctu /\ c.y \in Int /\ a.y < c.y
    BY <1>1, <1>2, <1>3 DEF Ctu
<1>5. Before(a, c)
    BY <1>2, <1>4, RasterOrder DEF Before
<1>6. Place(a) < k /\ Place(a) \in Nat
    BY <1>1, <1>2, <1>5, PlaceGrows
<1>7. k \in 1 .. NumCtuInSlice - 1
    BY <1>3, <1>6
<1>8. e \in sliceCtus /\ Place(e) = k - 1 /\ Before(e, c)
    BY <1>7, PreviousCtu DEF c
<1> HIDE DEF e
<1>9. e = a \/ Before(a, e)
    BY <1>2, <1>6, <1>8, PlaceGrows
<1>10. Raster(Tile(c)) \in Nat /\ Raster(Tile(e)) \in Nat
    BY <1>3, <1>4, <1>8, RasterOrder, TileIs
<1>11. Tile(e) = Tile(c)
    BY <1>2, <1>8, <1>9, <1>10 DEF Before
<1> QED
    BY <1>6, <1>11 DEF a, c, e

(* What comes before the first CTU of a row, in its tile, is in a row      *)
(* above.                                                                  *)
LEMMA LaterRow ==
    ASSUME Shaped, NEW c \in sliceCtus, NEW e \in sliceCtus,
           Tile(e) = Tile(c), Before(e, c), StartsRow(c)
    PROVE  e.y < c.y
<1>1. c \in Ctu /\ e \in Ctu
    BY SliceIsFinite
<1>2. Raster(e) < Raster(c)
    BY Zenon DEF Before
<1>3. TileColBd(e.x) = c.x /\ TileColBd(e.x) \in 0 .. e.x
    BY <1>1, TileIs DEF StartsRow
<1>4. e.x \in Int /\ e.y \in Int /\ c.x \in Int /\ c.y \in Int
    BY <1>1 DEF Ctu
<1> QED
    BY <1>1, <1>2, <1>3, <1>4, RasterOrder

(* Before the first CTU of a row comes one of the same tile exactly if     *)
(* there is one above in the slice.                                        *)
LEMMA StartingARow ==
    ASSUME Shaped, NEW k \in 1 .. NumCtuInSlice - 1, StartsRow(CtuInSlice(k))
    PROVE  /\ StartsTile(CtuInSlice(k)) \/ Tile(CtuInSlice(k - 1)) = Tile(CtuInSlice(k))
           /\ Tile(CtuInSlice(k - 1)) = Tile(CtuInSlice(k)) => TopAvailable(CtuInSlice(k))
<1> DEFINE c == CtuInSlice(k)
           e == CtuInSlice(k - 1)
<1>1. sliceCtus \subseteq Ctu /\ NumCtuInSlice \in Nat
    BY SliceIsFinite
<1>2. k \in 0 .. NumCtuInSlice - 1
    BY <1>1
<1>3. c \in sliceCtus
    BY <1>2, CtuAt
<1>4. e \in sliceCtus /\ Before(e, c)
    BY PreviousCtu
<1>5. TopAvailable(c) => Tile(e) = Tile(c)
    BY <1>2, BelowAnother
<1>6. StartsRow(c)
    OBVIOUS
<1> HIDE DEF c, e
<1>7. c \in Ctu /\ e \in Ctu
    BY <1>1, <1>3, <1>4
<1>8. c.y # TileRowBd(c.y) \/ StartsTile(c)
    BY <1>6, <1>7 DEF StartsTile, StartsRow, Tile, Ctu
<1>9. c.y # TileRowBd(c.y) => Tile(e) = Tile(c)
    BY <1>3, <1>4, <1>5, AboveInSlice DEF OneTile
<1>10. ASSUME Tile(e) = Tile(c)
       PROVE  TopAvailable(c)
    <2>1. e.y < c.y
        BY <1>3, <1>4, <1>6, <1>10, LaterRow
    <2> QED
        BY <1>3, <1>4, <1>10, <2>1, AboveAnother
<1> QED
    BY <1>8, <1>9, <1>10 DEF c, e

----------------------------------------------------------------------------
(* Substreams. *)

(* A new substream starts with this CTU of the slice.                      *)
Fresh(k) ==
    \E p, c : /\ p = CtuInSlice(k - 1) /\ c = CtuInSlice(k)
              /\ Tile(p) # Tile(c) \/ (wavefront /\ StartsRow(c))

FreshUpTo(n) == {k \in 1 .. NumCtuInSlice - 1 : k <= n /\ Fresh(k)}

(* The CTU that is coded next is in the tile, as long as one of the tile   *)
(* comes later.                                                            *)
LEMMA TileGoesOn ==
    ASSUME Shaped, NEW k \in 1 .. NumCtuInSlice - 1, NEW e \in sliceCtus,
           Tile(e) = Tile(CtuInSlice(k - 1)), Before(CtuInSlice(k - 1), e)
    PROVE  /\ Tile(CtuInSlice(k)) = Tile(e)
           /\ CtuInSlice(k) = e \/ Before(CtuInSlice(k), e)
<1> DEFINE c == CtuInSlice(k - 1)
           d == CtuInSlice(k)
<1>1. sliceCtus \subseteq Ctu /\ NumCtuInSlice \in Nat
    BY SliceIsFinite
<1>2. k \in 0 .. NumCtuInSlice - 1
    BY <1>1
<1>3. d \in sliceCtus /\ Place(d) = k
    BY <1>2, CtuAt
<1>4. c \in sliceCtus /\ Place(c) = k - 1 /\ Before(c, d)
    BY PreviousCtu
<1>5. Tile(e) = Tile(c) /\ Before(c, e)
    OBVIOUS
<1> HIDE DEF c, d
<1>6. Place(e) \in Nat /\ Place(e) > k - 1
    BY <1>3, <1>4, <1>5, PlaceGrows
<1>7. d = e \/ Before(d, e)
    BY <1>2, <1>3, <1>6, PlaceGrows
<1>8. Raster(Tile(c)) \in Nat /\ Raster(Tile(d)) \in Nat
    BY <1>1, <1>3, <1>4, RasterOrder, TileIs
<1>9. Tile(d) = Tile(e)
    BY <1>4, <1>5, <1>7, <1>8 DEF Before
<1> QED
    BY <1>7, <1>9 DEF d

(* The encoder's look at the next CTU is the decoder's at the borders.     *)
LEMMA EndsAgree ==
    ASSUME Shaped, NEW k \in 1 .. NumCtuInSlice - 1, NEW c, c = CtuInSlice(k - 1)
    PROVE  Fresh(k) <=> /\ c.x + 1 \in tileCols \cup {WidthInCtus}
                        /\ c.y + 1 \in tileRows \cup {HeightInCtus} \/ wavefront
<1>0. PICK d : d = CtuInSlice(k)
    OBVIOUS
<1>1. sliceCtus \subseteq Ctu /\ NumCtuInSlice \in Nat
    BY SliceIsFinite
<1>2. k \in 0 .. NumCtuInSlice - 1
    BY <1>1
<1>3. d \in sliceCtus /\ c \in sliceCtus /\ Before(c, d)
    BY <1>0, <1>2, CtuAt, PreviousCtu
<1>4. /\ c \in Ctu /\ d \in Ctu
      /\ c.x \in 0 .. WidthInCtus - 1 /\ c.y \in 0 .. HeightInCtus - 1
      /\ d.x \in 0 .. WidthInCtus - 1 /\ d.y \in 0 .. HeightInCtus - 1
      /\ WidthInCtus \in Nat /\ HeightInCtus \in Nat
    BY <1>1, <1>3, SliceAssumption DEF Ctu
<1>5. tileCols \subseteq Nat /\ tileRows \subseteq Nat
    BY DEF Shaped, Starts
<1>6. Fresh(k) <=> Tile(c) # Tile(d) \/ (wavefront /\ StartsRow(d))
    BY <1>0, Zenon DEF Fresh
<1>7. ASSUME Fresh(k)
      PROVE  c.x + 1 \in tileCols \cup {WidthInCtus}
    <2> SUFFICES ASSUME c.x + 1 \notin tileCols \cup {WidthInCtus}
                 PROVE  FALSE
        OBVIOUS
    <2> DEFINE e == RightOf(c)
    <2>1. e \in Ctu /\ Tile(e) = Tile(c) /\ e.x = c.x + 1 /\ e.y = c.y
        BY <1>4, RightInTile DEF RightOf
    <2> HIDE DEF e
    <2>2. e \in sliceCtus
        <3>1. CASE \E f, l \in Tiles : sliceCtus = TilesFrom(f, l)
            BY <1>3, <2>1, <3>1, Zenon DEF TilesFrom
        <3>2. CASE \E t \in Tiles, a, b \in 0 .. HeightInCtus - 1 : sliceCtus = RowsOfTile(t, a, b)
            BY <1>3, <2>1, <3>2, Zenon DEF RowsOfTile
        <3> QED
            BY <3>1, <3>2, Zenon DEF Shaped, IsSlice
    <2>3. Raster(c) < Raster(e)
        BY <1>4, <2>1, RasterOrder
    <2>4. Before(c, e)
        BY <2>1, <2>3, Zenon DEF Before
    <2>5. Tile(d) = Tile(e) /\ (d = e \/ Before(d, e))
        BY <1>0, <2>1, <2>2, <2>4, TileGoesOn
    <2>6. StartsRow(d)
        BY <1>6, <1>7, <2>1, <2>5
    <2>7. d = e
        <3>1. Raster(c) < Raster(d) /\ (d = e \/ Raster(d) < Raster(e))
            BY <1>3, <2>1, <2>5, Zenon DEF Before
        <3> QED
            BY <1>4, <2>1, <3>1, RasterOrder
    <2>8. d.x = c.x + 1 /\ TileColBd(d.x) = TileColBd(c.x)
        BY <1>4, <2>1, <2>5, <2>7, TileIs
    <2>9. TileColBd(c.x) <= c.x
        BY <1>4, TileIs
    <2> QED
        BY <1>4, <2>6, <2>8, <2>9 DEF StartsRow
<1>8. ASSUME Fresh(k), ~wavefront
      PROVE  c.y + 1 \in tileRows \cup {HeightInCtus}
    <2> SUFFICES ASSUME c.y + 1 \notin tileRows \cup {HeightInCtus}
                 PROVE  FALSE
        OBVIOUS
    <2> DEFINE e == BelowOf(c)
    <2>1. e \in Ctu /\ Tile(e) = Tile(c) /\ e.y = c.y + 1
        BY <1>4, BelowInTile DEF BelowOf
    <2> HIDE DEF e
    <2>2. Tile(c) # Tile(d)
        BY <1>6, <1>8
    <2>3. e \in sliceCtus
        <3>1. CASE \E f, l \in Tiles : sliceCtus = TilesFrom(f, l)
            BY <1>3, <2>1, <3>1, Zenon DEF TilesFrom
        <3>2. CASE \E t \in Tiles, a, b \in 0 .. HeightInCtus - 1 : sliceCtus = RowsOfTile(t, a, b)
            BY <1>3, <2>2, <3>2, Zenon DEF RowsOfTile
        <3> QED
            BY <3>1, <3>2, Zenon DEF Shaped, IsSlice
    <2>4. Raster(c) < Raster(e)
        BY <1>4, <2>1, RasterOrder
    <2>5. Before(c, e)
        BY <2>1, <2>4, Zenon DEF Before
    <2> QED
        BY <1>0, <2>1, <2>2, <2>3, <2>5, TileGoesOn
<1>9. ASSUME c.x + 1 \in tileCols \cup {WidthInCtus}
      PROVE  StartsRow(d)
    <2> SUFFICES ASSUME ~StartsRow(d)
                 PROVE  FALSE
        OBVIOUS
    <2>1. c.x = d.x - 1
        <3>1. c = Left(d)
            BY <1>0, <1>2, InsideARow
        <3> QED
            BY <3>1 DEF Left
    <2>2. d.x \in tileCols
        BY <1>4, <1>9, <2>1
    <2>3. TileColBd(d.x) = LastStart(tileCols, d.x) /\ TileColBd(d.x) <= d.x /\ TileColBd(d.x) \in Nat
        BY <1>4, TileIs
    <2>4. d.x <= LastStart(tileCols, d.x)
        BY <1>4, <2>2, LastStartIs DEF Shaped
    <2>5. TileColBd(d.x) = d.x
        BY <1>4, <2>3, <2>4
    <2> QED
        BY <2>5 DEF StartsRow
<1>10. ASSUME StartsRow(d), c.y + 1 \in tileRows \cup {HeightInCtus}
       PROVE  Tile(c) # Tile(d)
    <2> SUFFICES ASSUME Tile(c) = Tile(d)
                 PROVE  FALSE
        OBVIOUS
    <2>1. c.y < d.y
        BY <1>3, <1>10, LaterRow
    <2>2. c.y + 1 \in tileRows
        BY <1>4, <1>10, <2>1
    <2>3. TileRowBd(d.y) = LastStart(tileRows, d.y) /\ TileRowBd(d.y) = TileRowBd(c.y) /\ TileRowBd(c.y) <= c.y
        BY <1>4, TileIs
    <2>4. c.y + 1 <= LastStart(tileRows, d.y)
        <3>1. Starts(tileRows, HeightInCtus) /\ d.y \in Nat /\ c.y + 1 <= d.y
            BY <1>4, <2>1 DEF Shaped
        <3> QED
            BY <1>4, <2>2, <3>1, LastStartIs
    <2>5. TileRowBd(c.y) \in Int
        BY <1>4, TileIs
    <2> QED
        BY <1>4, <2>3, <2>4, <2>5
<1> QED
    BY <1>6, <1>7, <1>8, <1>9, <1>10 DEF Shaped

(* setNumEntryPoints and setNumSubstream count the CTUs that start one.    *)
LEMMA CountsAgree ==
    ASSUME Shaped
    PROVE  LET F == {k \in 1 .. NumCtuInSlice - 1 : Fresh(k)}
           IN  NumEntryPoints = Cardinality(F) /\ NumSubstream = Cardinality(F)
<1>1. ASSUME NEW k \in 1 .. NumCtuInSlice - 1, NEW c, c = CtuInSlice(k), NEW p, p = CtuInSlice(k - 1)
      PROVE  /\ Fresh(k) <=> (Tile(c) # Tile(p) \/ (c.y # p.y /\ wavefront))
             /\ Fresh(k) <=> (StartsRow(c) /\ (c.y = TileRowBd(c.y) \/ wavefront))
    <2>1. sliceCtus \subseteq Ctu /\ NumCtuInSlice \in Nat
        BY SliceIsFinite
    <2>2. k \in 0 .. NumCtuInSlice - 1
        BY <2>1
    <2>3. c \in sliceCtus /\ p \in sliceCtus /\ Before(p, c)
        BY <1>1, <2>2, CtuAt, PreviousCtu
    <2>4. c \in Ctu /\ p \in Ctu /\ c.y \in Int /\ p.y \in Int
        BY <2>1, <2>3 DEF Ctu
    <2>5. Fresh(k) <=> Tile(p) # Tile(c) \/ (wavefront /\ StartsRow(c))
        BY <1>1, Zenon DEF Fresh
    <2>6. ~StartsRow(c) => Tile(p) = Tile(c) /\ p.y = c.y
        <3> SUFFICES ASSUME ~StartsRow(c) PROVE Tile(p) = Tile(c) /\ p.y = c.y
            OBVIOUS
        <3>1. p = Left(c)
            BY <1>1, <2>2, InsideARow
        <3> QED
            BY <2>3, <3>1, LeftInSlice
    <2>7. StartsRow(c) /\ Tile(p) = Tile(c) => p.y < c.y /\ TopAvailable(c)
        BY <1>1, <2>3, LaterRow, StartingARow
    <2>8. StartsRow(c) /\ Tile(p) # Tile(c) => StartsTile(c)
        BY <1>1, StartingARow
    <2>9. StartsTile(c) => c.y = TileRowBd(c.y)
        BY <2>4, TileIs DEF StartsTile
    <2>10. TopAvailable(c) => c.y # TileRowBd(c.y)
        <3> SUFFICES ASSUME TopAvailable(c) PROVE c.y # TileRowBd(c.y)
            OBVIOUS
        <3>1. Above(c) \in Ctu /\ Tile(Above(c)) = Tile(c) /\ Above(c).y = c.y - 1
            BY <2>1 DEF TopAvailable, Above
        <3>2. TileRowBd(c.y) = TileRowBd(c.y - 1) /\ TileRowBd(c.y - 1) \in 0 .. c.y - 1
            BY <2>4, <3>1, TileIs
        <3> QED
            BY <2>4, <3>2
    <2> QED
        BY <2>4, <2>5, <2>6, <2>7, <2>8, <2>9, <2>10
<1> DEFINE F == {k \in 1 .. NumCtuInSlice - 1 : Fresh(k)}
<1>2. F = {k \in 1 .. NumCtuInSlice - 1 :
              LET c == CtuInSlice(k) p == CtuInSlice(k - 1)
              IN  Tile(c) # Tile(p) \/ (c.y # p.y /\ wavefront)}
    BY <1>1
<1>3. F = {k \in 1 .. NumCtuInSlice - 1 :
              LET c == CtuInSlice(k) IN StartsRow(c) /\ (c.y = TileRowBd(c.y) \/ wavefront)}
    BY <1>1
<1> HIDE DEF F
<1>4. NumEntryPoints = Cardinality(F)
    BY <1>2, Zenon DEF NumEntryPoints
<1>5. NumSubstream = Cardinality(F)
    BY <1>3, Zenon DEF NumSubstream
<1> QED
    BY <1>4, <1>5 DEF F

----------------------------------------------------------------------------
(* QPs. *)

(* A remainder is what is left in the range when multiples are taken off.  *)
LEMMA Wraps ==
    ASSUME NEW r \in Nat \ {0}, NEW a \in Int, NEW q \in Int, a - r * q \in 0 .. r - 1
    PROVE  a % r = a - r * q
<1> DEFINE b == a \div r
           s == a % r
<1>1. b \in Int /\ s \in 0 .. r - 1 /\ a = r * b + s
    OBVIOUS
<1> HIDE DEF b, s
<1>2. r * (q - b) = s - (a - r * q) /\ q - b \in Int
    BY <1>1
<1>3. (q - b >= 1 => r * (q - b) >= r) /\ (q - b <= -1 => r * (q - b) <= -r)
    BY <1>2
<1>4. q - b = 0
    BY <1>1, <1>2, <1>3
<1> QED
    BY <1>1, <1>2, <1>4 DEF s

(* The delta, wrapped into half the range, gives the QP back.              *)
LEMMA QpComesBack ==
    ASSUME NEW qp \in Qp, NEW pred \in Qp
    PROVE  QpOf(DeltaOf(qp, pred), pred) = qp
<1> DEFINE r == MaxQp + 1 + QpBdOffset
           h == (MaxQp + 1) \div 2 + QpBdOffset \div 2
           a == qp - pred + (MaxQp + 1) + (MaxQp + 1) \div 2 + QpBdOffset + QpBdOffset \div 2
           delta == DeltaOf(qp, pred)
           b == pred + delta + (MaxQp + 1) + 2 * QpBdOffset
<1>1. /\ MaxQp \in Nat /\ QpBdOffset \in Nat /\ MaxQp % 2 = 1 /\ QpBdOffset % 2 = 0
      /\ qp \in Int /\ pred \in Int
      /\ -QpBdOffset <= qp /\ qp <= MaxQp /\ -QpBdOffset <= pred /\ pred <= MaxQp
    BY SliceAssumption DEF Qp
<1>2. (MaxQp + 1) \div 2 \in Int /\ QpBdOffset \div 2 \in Int /\ 2 * h = r
    BY <1>1
<1>3. r \in Nat \ {0} /\ h \in Int
    BY <1>1, <1>2
<1>4. a = qp - pred + r + h
    BY <1>1, <1>2
<1>5. delta = (a % r) - h
    <2>1. delta = (a % r) - (MaxQp + 1) \div 2 - QpBdOffset \div 2
        BY Zenon DEF DeltaOf
    <2>2. a % r \in Int
        BY <1>3, <1>4, <1>1
    <2> HIDE DEF delta, a, r
    <2> QED
        BY <1>2, <2>1, <2>2
<1>6. QpOf(delta, pred) = IF delta = 0 THEN pred ELSE (b % r) - QpBdOffset
    BY Zenon DEF QpOf
<1>7. b = pred + delta + r + QpBdOffset
    <2>1. delta \in Int
        BY <1>1, <1>3, <1>4, <1>5
    <2> HIDE DEF delta
    <2> QED
        BY <1>1, <2>1
<1>8. r = MaxQp + 1 + QpBdOffset
    OBVIOUS
<1> HIDE DEF r, h, a, delta, b
<1>9. PICK q \in 0 .. 2 : a - r * q \in 0 .. r - 1
    <2>1. a \in Int /\ 0 <= a /\ a < 3 * r
        BY <1>1, <1>2, <1>3, <1>4, <1>8
    <2>2. a - r * 0 \in 0 .. r - 1 \/ a - r * 1 \in 0 .. r - 1 \/ a - r * 2 \in 0 .. r - 1
        BY <1>3, <2>1
    <2> QED
        BY <2>2
<1>10. delta = qp - pred + r - r * q
    <2>1. a % r = a - r * q
        BY <1>1, <1>3, <1>4, <1>9, Wraps
    <2>2. r * q \in Int
        BY <1>3, <1>9
    <2> QED
        BY <1>1, <1>3, <1>4, <1>5, <2>1, <2>2
<1>11. ASSUME delta = 0 PROVE QpOf(delta, pred) = qp
    <2>1. r * q = qp - pred + r /\ qp - pred < r /\ qp - pred > -r
        BY <1>1, <1>3, <1>8, <1>9, <1>10, <1>11
    <2>2. q = 0 \/ q = 1 \/ q = 2
        BY <1>9
    <2>3. q = 1
        BY <1>1, <1>3, <2>1, <2>2
    <2> QED
        BY <1>1, <1>3, <1>6, <1>11, <2>1, <2>3
<1>12. ASSUME delta # 0 PROVE QpOf(delta, pred) = qp
    <2>1. b - r * (2 - q) = qp + QpBdOffset
        <3>1. r * q \in Int /\ r * (2 - q) = 2 * r - r * q
            BY <1>3, <1>9
        <3> QED
            BY <1>1, <1>3, <1>7, <1>10, <3>1
    <2>2. b \in Int /\ 2 - q \in Int /\ qp + QpBdOffset \in 0 .. r - 1
        <3>1. r * q \in Int
            BY <1>3, <1>9
        <3> QED
            BY <1>1, <1>3, <1>7, <1>8, <1>9, <1>10, <3>1
    <2>3. b % r = qp + QpBdOffset
        BY <1>3, <2>1, <2>2, Wraps
    <2> QED
        BY <1>1, <1>6, <1>12, <2>3
<1> QED
    BY <1>11, <1>12 DEF delta

----------------------------------------------------------------------------
(* The invariant. *)

ContextsInv ==
    /\ encCtx = decCtx /\ encSync = decSync
    /\ next = 0 => decCtx = {}
    /\ next > 0 =>
        /\ \A d \in decCtx :
               /\ d \in sliceCtus /\ Tile(d) = Tile(Last)
               /\ wavefront /\ d.y < Last.y => StartsRow(d)
        /\ wavefront => \A d \in decSync :
               d \in sliceCtus /\ Tile(d) = Tile(Last) /\ StartsRow(d)

QpInv ==
    OneTile =>
        /\ next = 0 => choicePrev = sliceQp
        /\ choicePrev \in Qp /\ encPrev = choicePrev /\ decPrev = choicePrev
        /\ decQp = encQp
        /\ DOMAIN encQp = {d \in sliceCtus : Place(d) < next}
        /\ \A d \in DOMAIN encQp : encQp[d] \in Qp

SubstreamInv ==
    /\ encSub = decSub
    /\ encSub = Cardinality(FreshUpTo(next)) + (IF next = NumCtuInSlice THEN 1 ELSE 0)

SliceInv ==
    /\ Shaped
    /\ next \in 0 .. NumCtuInSlice
    /\ next = 0 => lut = {}
    /\ MotionIsLocal
    /\ ContextsInv
    /\ SubstreamInv
    /\ QpInv

(* The invariant holds before the first CTU. *)
LEMMA SliceInvInit == SliceInit => SliceInv
<1> SUFFICES ASSUME SliceInit PROVE SliceInv
    OBVIOUS
<1>1. Shaped
    <2>1. Starts(tileCols, WidthInCtus) /\ Starts(tileRows, HeightInCtus) /\ wavefront \in BOOLEAN
        BY DEF SliceInit, Starts
    <2>2. sliceQp \in Qp
        BY SliceAssumption DEF SliceInit
    <2>3. IsSlice(sliceCtus)
        BY Zenon DEF SliceInit, IsSlice, Tiles
    <2>4. sliceCtus # {}
        <3>1. CASE \E f, l \in Tiles : Raster(f) <= Raster(l) /\ sliceCtus = TilesFrom(f, l)
            <4>1. PICK f \in Tiles, l \in Tiles : Raster(f) <= Raster(l) /\ sliceCtus = TilesFrom(f, l)
                BY <3>1
            <4>2. PICK c \in Ctu : f = Tile(c)
                BY DEF Tiles
            <4>3. Raster(f) <= Raster(f)
                <5>1. WidthInCtus \in Int /\ TileColBd(c.x) \in Int /\ TileRowBd(c.y) \in Int
                    BY <2>1, <4>2, SliceAssumption, StartIsNumber
                <5> QED
                    BY <4>2, <5>1 DEF Raster, Tile
            <4>4. c \in TilesFrom(f, l)
                BY <4>1, <4>2, <4>3, Zenon DEF TilesFrom
            <4> QED
                BY <4>1, <4>4
        <3>2. CASE \E t \in Tiles, a, b \in 0 .. HeightInCtus - 1 :
                       sliceCtus = RowsOfTile(t, a, b) /\ sliceCtus # {}
            BY <3>2
        <3> QED
            BY <3>1, <3>2, Zenon DEF SliceInit, Tiles
    <2> QED
        BY <2>1, <2>2, <2>3, <2>4 DEF Shaped
<1>2. next = 0 /\ NumCtuInSlice \in Nat
    BY <1>1, SliceIsFinite DEF SliceInit
<1>3. lut = {} /\ encCtx = {} /\ decCtx = {} /\ encSync = decSync
    BY DEF SliceInit
<1>4. QpInv
    <2>1. \A d \in sliceCtus : ~(Place(d) < 0)
        BY <1>1, <1>2, PlaceGrows
    <2>2. DOMAIN encQp = {} /\ decQp = encQp
        BY DEF SliceInit
    <2>3. choicePrev = sliceQp /\ encPrev = sliceQp /\ decPrev = sliceQp
        BY DEF SliceInit
    <2>4. sliceQp \in Qp
        BY <1>1 DEF Shaped
    <2> QED
        BY <1>2, <2>1, <2>2, <2>3, <2>4 DEF QpInv
<1>5. SubstreamInv
    <2>1. NumCtuInSlice # 0
        BY <1>1, SliceIsFinite, FS_EmptySet DEF Shaped, NumCtuInSlice
    <2>2. FreshUpTo(0) = {}
        BY <1>2 DEF FreshUpTo
    <2>3. Cardinality(FreshUpTo(0)) = 0
        BY <2>2, FS_EmptySet
    <2>4. encSub = 0 /\ decSub = 0
        BY DEF SliceInit
    <2> QED
        BY <1>2, <2>1, <2>3, <2>4 DEF SubstreamInv
<1> QED
    BY <1>1, <1>2, <1>3, <1>4, <1>5 DEF SliceInv, ContextsInv, MotionIsLocal

(* The order of the CTUs is that of the shape.                             *)
LEMMA ShapeStays ==
    ASSUME UNCHANGED shape
    PROVE  /\ \A c : Tile(c)' = Tile(c) /\ StartsRow(c)' = StartsRow(c) /\ Place(c)' = Place(c)
           /\ NumCtuInSlice' = NumCtuInSlice /\ OneTile' = OneTile
           /\ Shaped => Shaped'
           /\ \A k : CtuInSlice(k)' = CtuInSlice(k) /\ (next' - 1 = k => Last' = CtuInSlice(k))
           /\ \A n : FreshUpTo(n)' = FreshUpTo(n)
<1>1. /\ tileCols' = tileCols /\ tileRows' = tileRows /\ wavefront' = wavefront
      /\ sliceCtus' = sliceCtus /\ sliceQp' = sliceQp
    BY DEF shape
<1>2. \A c : Tile(c)' = Tile(c) /\ StartsRow(c)' = StartsRow(c)
    BY <1>1, Zenon DEF Tile, StartsRow, TileColBd, TileRowBd
<1>3. \A c, d : Before(c, d)' = Before(c, d)
    BY <1>2, Zenon DEF Before
<1>4. \A c : Place(c)' = Place(c)
    <2> TAKE c
    <2>1. {d \in sliceCtus' : Before(d, c)'} = {d \in sliceCtus : Before(d, c)}
        BY <1>1, <1>3
    <2> QED
        BY <2>1, Zenon DEF Place
<1>5. NumCtuInSlice' = NumCtuInSlice
    BY <1>1 DEF NumCtuInSlice
<1>6. OneTile' = OneTile
    BY <1>1, <1>2, Zenon DEF OneTile
<1>7. Shaped => Shaped'
    <2>1. Tiles' = Tiles
        BY <1>2, Zenon DEF Tiles
    <2>2. \A f, l : TilesFrom(f, l)' = TilesFrom(f, l)
        BY <1>2, Zenon DEF TilesFrom
    <2>3. \A t, a, b : RowsOfTile(t, a, b)' = RowsOfTile(t, a, b)
        BY <1>2, Zenon DEF RowsOfTile
    <2>4. IsSlice(sliceCtus) => IsSlice(sliceCtus)'
        BY <1>1, <2>1, <2>2, <2>3, Zenon DEF IsSlice
    <2> QED
        BY <1>1, <2>4, Zenon DEF Shaped, Starts
<1>8. \A k : CtuInSlice(k)' = CtuInSlice(k)
    <2> TAKE k
    <2>1. CtuInSlice(k)' = CHOOSE c \in sliceCtus' : Place(c)' = k
        BY Zenon DEF CtuInSlice, Place
    <2>2. CtuInSlice(k) = CHOOSE c \in sliceCtus : Place(c) = k
        BY Zenon DEF CtuInSlice, Place
    <2> QED
        BY <1>1, <1>4, <2>1, <2>2
<1>9. \A k : next' - 1 = k => Last' = CtuInSlice(k)
    <2> SUFFICES ASSUME NEW k, next' - 1 = k
                 PROVE  Last' = CtuInSlice(k)
        OBVIOUS
    <2>1. Last' = CHOOSE c \in sliceCtus' : Place(c)' = k
        BY Zenon DEF Last, CtuInSlice, Place
    <2>2. CtuInSlice(k) = CHOOSE c \in sliceCtus : Place(c) = k
        BY Zenon DEF CtuInSlice, Place
    <2> QED
        BY <1>1, <1>4, <2>1, <2>2
<1>10. \A n : FreshUpTo(n)' = FreshUpTo(n)
    <2>1. \A k : Fresh(k)' = Fresh(k)
        BY <1>1, <1>2, <1>8, Zenon DEF Fresh
    <2> QED
        BY <1>5, <2>1, Zenon DEF FreshUpTo
<1> QED
    BY <1>2, <1>4, <1>5, <1>6, <1>7, <1>8, <1>9, <1>10

(* A CTU starts from what the one before has left, of its own tile.        *)
LEMMA EntryIsLocal ==
    ASSUME SliceInv, next < NumCtuInSlice, NEW c, c = CtuInSlice(next)
    PROVE  /\ \A d \in EntryContexts(c, decCtx, decSync) :
                  /\ d \in sliceCtus /\ Tile(d) = Tile(c)
                  /\ wavefront /\ (StartsRow(c) \/ d.y < c.y) => StartsRow(d)
           /\ \A d \in MotionBefore(c, lut) : Tile(d) = Tile(c) /\ d.y = c.y
           /\ ~StartsRow(c) => next > 0 /\ Tile(Last) = Tile(c)
<1>1. Shaped /\ NumCtuInSlice \in Nat /\ next \in 0 .. NumCtuInSlice - 1
    BY SliceIsFinite DEF SliceInv
<1>2. c \in sliceCtus
    BY <1>1, CtuAt
<1>3. ASSUME ~StartsRow(c)
      PROVE  next > 0 /\ Last = Left(c) /\ Tile(Last) = Tile(c) /\ Last.y = c.y
    <2>1. next > 0 /\ Last = Left(c)
        BY <1>1, <1>3, InsideARow DEF Last
    <2> QED
        BY <1>1, <1>2, <1>3, <2>1, LeftInSlice
<1>4. ASSUME StartsRow(c), ~StartsTile(c), next > 0
      PROVE  Tile(Last) = Tile(c)
    <2>1. next \in 1 .. NumCtuInSlice - 1
        BY <1>1, <1>4
    <2> QED
        BY <1>1, <1>4, <2>1, StartingARow DEF Last
<1>5. TopAvailable(c) => next > 0
    BY <1>1, BelowAnother
<1>6. ContextsInv /\ MotionIsLocal
    BY DEF SliceInv
<1>7. \A d \in MotionBefore(c, lut) : Tile(d) = Tile(c) /\ d.y = c.y
    BY <1>3, <1>6, Zenon DEF MotionBefore, MotionIsLocal
<1>8. \A d \in EntryContexts(c, decCtx, decSync) :
          /\ d \in sliceCtus /\ Tile(d) = Tile(c)
          /\ wavefront /\ (StartsRow(c) \/ d.y < c.y) => StartsRow(d)
    <2> TAKE d \in EntryContexts(c, decCtx, decSync)
    <2>1. ~StartsTile(c)
        BY DEF EntryContexts
    <2>2. CASE StartsRow(c) /\ wavefront
        <3>1. TopAvailable(c) /\ d \in decSync
            BY <2>1, <2>2, Zenon DEF EntryContexts
        <3> QED
            BY <1>4, <1>5, <1>6, <2>1, <2>2, <3>1, Zenon DEF ContextsInv
    <2>3. CASE ~(StartsRow(c) /\ wavefront)
        <3>1. d \in decCtx
            BY <2>1, <2>3, Zenon DEF EntryContexts
        <3>2. next > 0
            BY <1>1, <1>6, <3>1 DEF ContextsInv
        <3>3. d \in sliceCtus /\ Tile(d) = Tile(Last) /\ (wavefront /\ d.y < Last.y => StartsRow(d))
            BY <1>6, <3>1, <3>2 DEF ContextsInv
        <3> QED
            BY <1>3, <1>4, <2>1, <2>3, <3>2, <3>3
    <2> QED
        BY <2>2, <2>3
<1> QED
    BY <1>3, <1>7, <1>8

(* In a slice of one tile the encoder and the decoder predict alike.       *)
LEMMA PredictionsAgree ==
    ASSUME SliceInv, OneTile, next < NumCtuInSlice, NEW c, c = CtuInSlice(next)
    PROVE  LET q == PredictQp(c, EntryQp(c, choicePrev), encQp)
           IN  /\ q \in Qp
               /\ PredictQp(c, encPrev, encQp) = q
               /\ PredictQp(c, EntryQp(c, decPrev), decQp) = q
<1> DEFINE q == PredictQp(c, EntryQp(c, choicePrev), encQp)
<1>1. Shaped /\ NumCtuInSlice \in Nat /\ next \in 0 .. NumCtuInSlice - 1
    BY SliceIsFinite DEF SliceInv
<1>2. c \in sliceCtus /\ Place(c) = next
    BY <1>1, CtuAt
<1>3. /\ next = 0 => choicePrev = sliceQp
      /\ choicePrev \in Qp /\ encPrev = choicePrev /\ decPrev = choicePrev
      /\ decQp = encQp
      /\ DOMAIN encQp = {d \in sliceCtus : Place(d) < next}
      /\ \A d \in DOMAIN encQp : encQp[d] \in Qp
    BY DEF SliceInv, QpInv
<1>4. CASE StartsRow(c) /\ TopAvailable(c)
    <2>1. Place(Above(c)) \in 0 .. next - 1
        BY <1>1, <1>4, BelowAnother
    <2>2. Place(Above(c)) < next
        BY <1>1, <2>1
    <2>3. Above(c) \in DOMAIN encQp
        BY <1>3, <1>4, <2>2 DEF TopAvailable
    <2>4. q = encQp[Above(c)] /\ PredictQp(c, encPrev, encQp) = encQp[Above(c)]
          /\ PredictQp(c, EntryQp(c, decPrev), decQp) = encQp[Above(c)]
        BY <1>3, <1>4, Zenon DEF PredictQp
    <2> QED
        BY <1>3, <2>3, <2>4
<1>5. CASE StartsRow(c) /\ ~TopAvailable(c)
    <2>1. next = 0
        <3> SUFFICES ASSUME next # 0 PROVE FALSE
            OBVIOUS
        <3>1. next \in 1 .. NumCtuInSlice - 1
            BY <1>1
        <3>2. CtuInSlice(next - 1) \in sliceCtus
            BY <1>1, <3>1, PreviousCtu
        <3>3. Tile(CtuInSlice(next - 1)) = Tile(c)
            BY <1>2, <3>2, Zenon DEF OneTile
        <3> QED
            BY <1>1, <1>5, <3>1, <3>3, StartingARow
    <2>2. EntryQp(c, choicePrev) = choicePrev /\ EntryQp(c, decPrev) = choicePrev
        BY <1>3, <2>1, Zenon DEF EntryQp
    <2> QED
        BY <1>3, <1>5, <2>2, Zenon DEF PredictQp
<1>6. CASE ~StartsRow(c)
    <2>1. ~StartsTile(c)
        <3>1. c \in Ctu
            BY <1>1, <1>2, SliceIsFinite
        <3>2. Tile(c).x = TileColBd(c.x)
            BY <1>1, <3>1, TileIs
        <3> QED
            BY <1>6, <3>2, Zenon DEF StartsTile, StartsRow
    <2>2. EntryQp(c, choicePrev) = choicePrev /\ EntryQp(c, decPrev) = choicePrev
        BY <1>3, <1>6, <2>1, Zenon DEF EntryQp
    <2> QED
        BY <1>3, <1>6, <2>2, Zenon DEF PredictQp
<1> QED
    BY <1>4, <1>5, <1>6

(* One step: the CTU coded becomes the last one. *)
LEMMA StepShape ==
    ASSUME SliceInv, NEW coded, NEW chosen, CodeCtu(coded, chosen), NEW c, c = CtuInSlice(next)
    PROVE  /\ UNCHANGED shape /\ Shaped /\ next' = next + 1 /\ next' > 0
           /\ next \in 0 .. NumCtuInSlice - 1 /\ next' \in 0 .. NumCtuInSlice
           /\ c \in sliceCtus /\ Place(c) = next
           /\ Last' = c
<1>1. UNCHANGED shape /\ Shaped /\ next' = next + 1 /\ next < NumCtuInSlice
    BY DEF CodeCtu, SliceInv
<1>2. NumCtuInSlice \in Nat /\ next \in 0 .. NumCtuInSlice
    BY <1>1, SliceIsFinite DEF SliceInv
<1>3. next \in 0 .. NumCtuInSlice - 1 /\ next' \in 0 .. NumCtuInSlice /\ next' - 1 = next /\ next' > 0
    BY <1>1, <1>2
<1>4. c \in sliceCtus /\ Place(c) = next
    BY <1>1, <1>3, CtuAt
<1>5. Last' = c
    BY <1>1, <1>3, ShapeStays
<1> QED
    BY <1>1, <1>3, <1>4, <1>5

(* Contexts and motion stay local. *)
LEMMA StepContexts ==
    ASSUME SliceInv, NEW coded, NEW chosen, CodeCtu(coded, chosen)
    PROVE  ContextsInv' /\ MotionIsLocal'
<1>0. PICK c : c = CtuInSlice(next)
    OBVIOUS
<1> DEFINE entry == EntryContexts(c, decCtx, decSync)
           before == MotionBefore(c, lut)
<1>1. /\ UNCHANGED shape /\ Shaped /\ next' > 0 /\ c \in sliceCtus /\ Last' = c
      /\ next < NumCtuInSlice
    BY <1>0, StepShape DEF CodeCtu
<1>2. /\ \A d : Tile(d)' = Tile(d) /\ StartsRow(d)' = StartsRow(d)
      /\ sliceCtus' = sliceCtus /\ wavefront' = wavefront
    BY <1>1, ShapeStays DEF shape
<1>3. /\ \A d \in entry :
            /\ d \in sliceCtus /\ Tile(d) = Tile(c)
            /\ wavefront /\ (StartsRow(c) \/ d.y < c.y) => StartsRow(d)
      /\ \A d \in before : Tile(d) = Tile(c) /\ d.y = c.y
      /\ ~StartsRow(c) => next > 0 /\ Tile(Last) = Tile(c)
    BY <1>0, <1>1, EntryIsLocal
<1>4. encCtx = decCtx /\ encSync = decSync
    BY DEF SliceInv, ContextsInv
<1>5. next > 0 /\ wavefront =>
          \A d \in decSync : d \in sliceCtus /\ Tile(d) = Tile(Last) /\ StartsRow(d)
    BY DEF SliceInv, ContextsInv
<1>6. /\ encCtx' = entry \cup {c} /\ decCtx' = entry \cup {c}
      /\ encSync' = Synced(c, encCtx', encSync) /\ decSync' = Synced(c, decCtx', decSync)
      /\ lut' = before \cup {c}
    BY <1>0, <1>4, Zenon DEF CodeCtu
<1>7. c.y \in Int
    BY <1>1, SliceIsFinite DEF Ctu
<1> HIDE DEF entry, before
<1>8. encCtx' = decCtx' /\ encSync' = decSync'
    BY <1>4, <1>6
<1>9. \A d \in decCtx' : d \in sliceCtus /\ Tile(d) = Tile(c) /\ (wavefront /\ d.y < c.y => StartsRow(d))
    BY <1>1, <1>3, <1>6, <1>7
<1>10. wavefront => \A d \in decSync' : d \in sliceCtus /\ Tile(d) = Tile(c) /\ StartsRow(d)
    <2> SUFFICES ASSUME wavefront, NEW d \in decSync'
                 PROVE  d \in sliceCtus /\ Tile(d) = Tile(c) /\ StartsRow(d)
        OBVIOUS
    <2>1. CASE StartsRow(c)
        <3>1. d \in entry \cup {c}
            BY <1>6, <2>1, Zenon DEF Synced
        <3> QED
            BY <1>1, <1>3, <2>1, <3>1, Zenon
    <2>2. CASE ~StartsRow(c)
        <3>1. d \in decSync
            BY <1>6, <2>2, Zenon DEF Synced
        <3> QED
            BY <1>3, <1>5, <2>2, <3>1, Zenon
    <2> QED
        BY <2>1, <2>2
<1>11. ContextsInv'
    <2>1. ~(next' = 0)
        BY <1>1
    <2>2. \A d \in decCtx' :
              /\ d \in sliceCtus' /\ Tile(d)' = Tile(c)'
              /\ wavefront' /\ d.y < c.y => StartsRow(d)'
        BY <1>2, <1>9, Zenon
    <2>3. wavefront' => \A d \in decSync' : d \in sliceCtus' /\ Tile(d)' = Tile(c)' /\ StartsRow(d)'
        BY <1>2, <1>10, Zenon
    <2> QED
        BY <1>1, <1>8, <2>1, <2>2, <2>3 DEF ContextsInv
<1>12. MotionIsLocal'
    <2>1. \A d \in lut' : Tile(d)' = Tile(c)' /\ d.y = c.y
        BY <1>2, <1>3, <1>6, Zenon
    <2> QED
        BY <1>1, <2>1 DEF MotionIsLocal
<1> QED
    BY <1>11, <1>12

(* One CTU more is one substream more, if it starts one. *)
LEMMA FreshGrows ==
    ASSUME Shaped, NEW n \in 0 .. NumCtuInSlice - 1, NEW k, k = n + 1
    PROVE  /\ Cardinality(FreshUpTo(n)) \in Nat
           /\ Cardinality(FreshUpTo(k)) = Cardinality(FreshUpTo(n))
                  + (IF k # NumCtuInSlice /\ Fresh(k) THEN 1 ELSE 0)
<1>1. NumCtuInSlice \in Nat
    BY SliceIsFinite
<1>2. IsFiniteSet(FreshUpTo(n)) /\ Cardinality(FreshUpTo(n)) \in Nat
    <2>1. FreshUpTo(n) \in SUBSET (1 .. NumCtuInSlice - 1) /\ IsFiniteSet(1 .. NumCtuInSlice - 1)
        BY <1>1, FS_Interval DEF FreshUpTo
    <2> QED
        BY <2>1, FS_Subset, FS_CardinalityType
<1>3. k \notin FreshUpTo(n)
    BY DEF FreshUpTo
<1>4. CASE k # NumCtuInSlice /\ Fresh(k)
    <2>1. FreshUpTo(k) = FreshUpTo(n) \cup {k}
        BY <1>1, <1>4 DEF FreshUpTo
    <2> QED
        BY <1>2, <1>3, <1>4, <2>1, FS_AddElement
<1>5. CASE ~(k # NumCtuInSlice /\ Fresh(k))
    <2>1. FreshUpTo(k) = FreshUpTo(n)
        BY <1>1, <1>5 DEF FreshUpTo
    <2> QED
        BY <1>2, <1>5, <2>1
<1> QED
    BY <1>2, <1>4, <1>5

(* Both sides end the substream, or neither. *)
LEMMA StepSubstreams ==
    ASSUME SliceInv, NEW coded, NEW chosen, CodeCtu(coded, chosen)
    PROVE  SubstreamInv'
<1>0. PICK c, k : c = CtuInSlice(next) /\ k = next + 1
    OBVIOUS
<1>1. /\ UNCHANGED shape /\ Shaped /\ next' = k /\ next \in 0 .. NumCtuInSlice - 1
      /\ NumCtuInSlice \in Nat
    BY <1>0, StepShape, SliceIsFinite
<1>2. k \in 1 .. NumCtuInSlice /\ k - 1 = next /\ next # NumCtuInSlice
    BY <1>0, <1>1
<1>3. c = CtuInSlice(k - 1)
    BY <1>0, <1>2
<1>4. EncEnds(next) <=> k = NumCtuInSlice \/ Fresh(k)
    <2>1. EncEnds(next) <=>
              \/ k = NumCtuInSlice
              \/ Tile(c) # Tile(CtuInSlice(k)) \/ (wavefront /\ StartsRow(CtuInSlice(k)))
        BY <1>0, Zenon DEF EncEnds
    <2>2. Fresh(k) <=> Tile(c) # Tile(CtuInSlice(k)) \/ (wavefront /\ StartsRow(CtuInSlice(k)))
        BY <1>3, Zenon DEF Fresh
    <2> QED
        BY <2>1, <2>2
<1>5. DecEnds(next) <=> k = NumCtuInSlice \/ Fresh(k)
    <2>1. DecEnds(next) <=>
              \/ k = NumCtuInSlice
              \/ /\ c.x + 1 \in tileCols \cup {WidthInCtus}
                 /\ c.y + 1 \in tileRows \cup {HeightInCtus} \/ wavefront
        BY <1>0, Zenon DEF DecEnds
    <2>2. k # NumCtuInSlice => k \in 1 .. NumCtuInSlice - 1
        BY <1>1, <1>2
    <2> QED
        BY <1>1, <1>3, <2>1, <2>2, EndsAgree
<1>6. /\ encSub' = IF EncEnds(next) THEN encSub + 1 ELSE encSub
      /\ decSub' = IF DecEnds(next) THEN decSub + 1 ELSE decSub
    BY Zenon DEF CodeCtu
<1>7. encSub = decSub /\ encSub = Cardinality(FreshUpTo(next))
    <2>1. Cardinality(FreshUpTo(next)) \in Nat
        BY <1>0, <1>1, FreshGrows
    <2> QED
        BY <1>2, <2>1 DEF SliceInv, SubstreamInv
<1>8. /\ Cardinality(FreshUpTo(next)) \in Nat
      /\ Cardinality(FreshUpTo(k)) = Cardinality(FreshUpTo(next))
             + (IF k # NumCtuInSlice /\ Fresh(k) THEN 1 ELSE 0)
    BY <1>0, <1>1, FreshGrows
<1>9. /\ encSub' = decSub'
      /\ encSub' = Cardinality(FreshUpTo(k)) + (IF k = NumCtuInSlice THEN 1 ELSE 0)
    BY <1>4, <1>5, <1>6, <1>7, <1>8
<1>10. NumCtuInSlice' = NumCtuInSlice /\ \A n : FreshUpTo(n)' = FreshUpTo(n)
    BY <1>1, ShapeStays
<1>11. Cardinality(FreshUpTo(next))' = Cardinality(FreshUpTo(k))
    <2>1. FreshUpTo(next)' = FreshUpTo(k)'
        BY <1>1, Zenon DEF FreshUpTo
    <2> QED
        BY <1>10, <2>1
<1> QED
    BY <1>1, <1>9, <1>10, <1>11 DEF SubstreamInv

(* The QP comes back, and what the next one is predicted from agrees.      *)
LEMMA StepQp ==
    ASSUME SliceInv, NEW coded \in BOOLEAN, NEW chosen \in CodedQps, CodeCtu(coded, chosen)
    PROVE  QpInv'
<1> DEFINE c == CtuInSlice(next)
           q == PredictQp(c, EntryQp(c, choicePrev), encQp)
           qp == IF coded THEN chosen ELSE q
<1>1. /\ UNCHANGED shape /\ Shaped /\ next' > 0 /\ next' = next + 1 /\ next \in Nat
      /\ c \in sliceCtus /\ Place(c) = next /\ next < NumCtuInSlice
    BY StepShape DEF CodeCtu
<1>2. /\ \A d : Place(d)' = Place(d)
      /\ OneTile' = OneTile /\ sliceCtus' = sliceCtus
    BY <1>1, ShapeStays DEF shape
<1> SUFFICES ASSUME OneTile
             PROVE  /\ choicePrev' \in Qp /\ encPrev' = choicePrev' /\ decPrev' = choicePrev'
                    /\ decQp' = encQp'
                    /\ DOMAIN encQp' = {d \in sliceCtus' : Place(d)' < next'}
                    /\ \A d \in DOMAIN encQp' : encQp'[d] \in Qp
    BY <1>1, <1>2 DEF QpInv
<1>3. /\ q \in Qp
      /\ PredictQp(c, encPrev, encQp) = q /\ PredictQp(c, EntryQp(c, decPrev), decQp) = q
    BY <1>1, PredictionsAgree
<1>4. chosen \in Qp
    BY SliceAssumption
<1>5. qp \in Qp
    BY <1>3, <1>4
<1>6. (IF coded THEN QpOf(DeltaOf(qp, q), q) ELSE q) = qp
    BY <1>3, <1>4, QpComesBack
<1>7. CodeQp(c, coded, chosen)
    BY Zenon DEF CodeCtu
<1>8. /\ choicePrev' = qp
      /\ encPrev' = IF coded THEN qp ELSE q
      /\ decPrev' = qp
      /\ encQp' = Extended(encQp, c, qp) /\ decQp' = Extended(decQp, c, qp)
    BY <1>3, <1>6, <1>7, Zenon DEF CodeQp
<1>9. encPrev' = qp
    BY <1>8
<1>10. /\ decQp = encQp
       /\ DOMAIN encQp = {d \in sliceCtus : Place(d) < next}
       /\ \A d \in DOMAIN encQp : encQp[d] \in Qp
    BY DEF SliceInv, QpInv
<1>11. \A d \in sliceCtus : Place(d) < next + 1 <=> Place(d) < next \/ d = c
    <2>1. \A d \in sliceCtus : Place(d) \in Int
        BY <1>1, PlaceGrows
    <2>2. \A d \in sliceCtus : Place(d) = next => d = c
        BY <1>1, PlaceGrows
    <2> HIDE DEF c
    <2> QED
        BY <1>1, <2>1, <2>2
<1> HIDE DEF c, q, qp
<1>12. DOMAIN encQp' = {d \in sliceCtus' : Place(d)' < next'}
    <2>1. DOMAIN encQp' = DOMAIN encQp \cup {c}
        BY <1>8 DEF Extended
    <2>2. {d \in sliceCtus' : Place(d)' < next'} = {d \in sliceCtus : Place(d) < next + 1}
        BY <1>1, <1>2
    <2>3. {d \in sliceCtus : Place(d) < next + 1} = {d \in sliceCtus : Place(d) < next} \cup {c}
        BY <1>1, <1>11
    <2> QED
        BY <1>10, <2>1, <2>2, <2>3
<1>13. \A d \in DOMAIN encQp' : encQp'[d] \in Qp
    BY <1>5, <1>8, <1>10 DEF Extended
<1> QED
    BY <1>5, <1>8, <1>9, <1>10, <1>12, <1>13

(* Every step keeps the invariant. *)
LEMMA SliceInvStep == SliceInv /\ [SliceNext]_sliceVars => SliceInv'
<1> SUFFICES ASSUME SliceInv, [SliceNext]_sliceVars
             PROVE  SliceInv'
    OBVIOUS
<1>1. ASSUME NEW coded \in BOOLEAN, NEW qp \in CodedQps, CodeCtu(coded, qp)
      PROVE  SliceInv'
    <2>1. /\ UNCHANGED shape /\ Shaped /\ next' > 0
          /\ next' \in 0 .. NumCtuInSlice
        BY <1>1, StepShape
    <2>2. Shaped' /\ NumCtuInSlice' = NumCtuInSlice
        BY <2>1, ShapeStays
    <2>3. ContextsInv' /\ MotionIsLocal'
        BY <1>1, StepContexts
    <2>4. QpInv'
        BY <1>1, StepQp
    <2>5. SubstreamInv'
        BY <1>1, StepSubstreams
    <2> QED
        BY <2>1, <2>2, <2>3, <2>4, <2>5 DEF SliceInv
<1>2. CASE UNCHANGED sliceVars
    <2>1. UNCHANGED shape
        BY <1>2 DEF sliceVars
    <2>2. Shaped' /\ NumCtuInSlice' = NumCtuInSlice /\ OneTile' = OneTile
          /\ \A c : Tile(c)' = Tile(c) /\ StartsRow(c)' = StartsRow(c) /\ Place(c)' = Place(c)
          /\ Last' = Last /\ \A n : FreshUpTo(n)' = FreshUpTo(n)
        <3>1. next' - 1 = next - 1
            BY <1>2 DEF sliceVars
        <3> QED
            BY <2>1, <3>1, ShapeStays DEF SliceInv, Last
    <2>3. FreshUpTo(next)' = FreshUpTo(next)
        <3>1. PICK n : n = next /\ next' = n
            BY <1>2 DEF sliceVars
        <3>2. FreshUpTo(next)' = FreshUpTo(n)'
            BY <3>1, Zenon DEF FreshUpTo
        <3> QED
            BY <2>2, <3>1, <3>2
    <2>4. SubstreamInv'
        BY <1>2, <2>2, <2>3 DEF sliceVars, SliceInv, SubstreamInv
    <2> QED
        BY <1>2, <2>2, <2>4, Zenon DEF sliceVars, shape, SliceInv, ContextsInv, QpInv, MotionIsLocal
<1> QED
    BY <1>1, <1>2 DEF SliceNext

(* The invariant in every state, and with it what decoder and encoder rely *)
(* on.                                                                     *)
LEMMA Invariance == SliceSpec => []SliceInv
  BY SliceInvInit, SliceInvStep, PTL DEF SliceSpec

(* encodeSlice and decompressSlice start every CTU from the same states,   *)
(* of its slice and tile and, in a wavefront, from the first CTUs of the   *)
(* rows above only.                                                        *)
THEOREM ContextsStayLocal == SliceSpec => []ContextsAreLocal
<1>1. SliceInv => ContextsAreLocal
    BY DEF SliceInv, ContextsInv, ContextsAreLocal
<1> QED
    BY <1>1, Invariance, PTL

(* The table of motion candidates is reset often enough: what is in it is  *)
(* of the row and the tile of the CTU.                                     *)
THEOREM MotionStaysLocal == SliceSpec => []MotionIsLocal
<1>1. SliceInv => MotionIsLocal
    BY DEF SliceInv
<1> QED
    BY <1>1, Invariance, PTL

(* The encoder's look at the next CTU and the decoder's at the borders of  *)
(* tiles end the same substreams, as many as setNumEntryPoints and         *)
(* setNumSubstream have counted.                                           *)
THEOREM SubstreamsMatch == SliceSpec => []SubstreamsAgree
<1>1. ASSUME SliceInv
      PROVE  SubstreamsAgree
    <2>1. /\ encSub = decSub
          /\ encSub = Cardinality(FreshUpTo(next)) + (IF next = NumCtuInSlice THEN 1 ELSE 0)
        BY <1>1 DEF SliceInv, SubstreamInv
    <2>2. ASSUME next = NumCtuInSlice
          PROVE  encSub = NumEntryPoints + 1 /\ encSub = NumSubstream + 1
        <3>1. Shaped /\ NumCtuInSlice \in Nat
            BY <1>1, SliceIsFinite DEF SliceInv
        <3>2. FreshUpTo(next) = {k \in 1 .. NumCtuInSlice - 1 : Fresh(k)}
            BY <2>2, <3>1 DEF FreshUpTo
        <3> QED
            BY <2>1, <2>2, <3>1, <3>2, CountsAgree
    <2> QED
        BY <2>1, <2>2 DEF SubstreamsAgree
<1> QED
    BY <1>1, Invariance, PTL

(* Where the slice has one tile, the reset of the previous QP that         *)
(* encodeSlice lacks is not missed: cu_qp_delta gives every QP back.       *)
THEOREM QpsFollow == SliceSpec => []QpFollows
<1>1. SliceInv => QpFollows
    BY DEF SliceInv, QpInv, OneTile, QpFollows
<1> QED
    BY <1>1, Invariance, PTL
----------------------------------------------------------------------------
(* Context states from picture to picture *)

(* A picture that trails the last IRAP picture has been coded.             *)
Trailing == \E c \in codedPocs : c > irap.poc

(* loadCtx and storeCtx on the buffers alone, and when they are dropped.   *)
LoadedFrom(b, p) == IF IsIrap(p) \/ p.k \notin DOMAIN b[p.t] THEN Initial ELSE b[p.t][p.k]
KeptOf(old, p) ==
    {k \in DOMAIN old : ~(p.k \notin DOMAIN old /\ Cardinality(DOMAIN old) = BufferSize)
                            \/ \E j \in DOMAIN old : j < k}
Replaced(old, p) == [k \in KeptOf(old, p) \cup {p.k} |-> IF k = p.k THEN p.poc ELSE old[k]]
BufferBefore(b, cleared) == IF cleared THEN EmptyBuffer ELSE b
BufferAfter(b, p) == IF IsIrap(p) THEN b ELSE [b EXCEPT ![p.t] = Replaced(b[p.t], p)]
NextRas(r, p, poc) == IF IsIrap(p) THEN poc ELSE IF poc > r THEN FarPoc ELSE r

IsStore(s) == s = [buf |-> s.buf, lastRas |-> s.lastRas] /\ s.lastRas \in Int

(* What a picture does to a store is a function of its buffers and of      *)
(* whether they are dropped.                                               *)
LEMMA StoreStep ==
    ASSUME NEW s, IsStore(s), NEW p, NEW poc
    PROVE  /\ Loaded(Entered(s, p, poc), p) = LoadedFrom(BufferBefore(s.buf, poc > s.lastRas), p)
           /\ Stored(Entered(s, p, poc), p) =
                [buf |-> BufferAfter(BufferBefore(s.buf, poc > s.lastRas), p),
                 lastRas |-> NextRas(s.lastRas, p, poc)]
  <1> DEFINE b == BufferBefore(s.buf, poc > s.lastRas)
             r == NextRas(s.lastRas, p, poc)
             e == [buf |-> b, lastRas |-> r]
  <1>1. Entered(s, p, poc) = e BY Zenon DEF Entered, BufferBefore, NextRas
  <1>2. e.buf = b /\ e.lastRas = r OBVIOUS
  <1> HIDE DEF b, r
  <1>3. Loaded(e, p) = LoadedFrom(b, p) BY <1>2, Zenon DEF Loaded, LoadedFrom
  <1>4. Stored(e, p) = [buf |-> BufferAfter(b, p), lastRas |-> r]
    <2>1. CASE IsIrap(p) BY <2>1, Zenon DEF Stored, BufferAfter
    <2>2. CASE ~IsIrap(p)
      <3> DEFINE x == Replaced(b[p.t], p)
      <3>1. Stored(e, p) = [e EXCEPT !.buf[p.t] = x]
        BY <1>2, <2>2, Zenon DEF Stored, Replaced, KeptOf
      <3> HIDE DEF x
      <3>2. [e EXCEPT !.buf[p.t] = x] = [buf |-> [b EXCEPT ![p.t] = x], lastRas |-> r] OBVIOUS
      <3> QED BY <2>2, <3>1, <3>2, Zenon DEF BufferAfter, x
    <2> QED BY <2>1, <2>2
  <1> QED BY <1>1, <1>3, <1>4, Zenon DEF b, r

BufferOk(b) ==
    /\ DOMAIN b \subseteq Key /\ IsFiniteSet(DOMAIN b) /\ Cardinality(DOMAIN b) <= BufferSize
    /\ \A k \in DOMAIN b : b[k] \in CodedPoc

LEMMA LeastOf ==
    ASSUME NEW S, S \subseteq Nat, S # {}
    PROVE  \E m \in S : \A j \in S : ~(j < m)
  <1> DEFINE R == OpToRel(<, Nat)
  <1>1. IsWellFoundedOn(R, Nat) BY NatLessThanWellFounded
  <1> HIDE DEF R
  <1>2. \E m \in S : \A j \in S : ~(<<j, m>> \in R) BY <1>1, WFMin
  <1>3. \A m, j \in S : j < m => <<j, m>> \in R BY DEF R, OpToRel
  <1> QED BY <1>2, <1>3

(* A full buffer loses an entry for the one it gets. *)
LEMMA ReplacedOk ==
    ASSUME NEW old, BufferOk(old), NEW p \in StoredPicture
    PROVE  /\ BufferOk(Replaced(old, p))
           /\ \A k \in DOMAIN Replaced(old, p) :
                Replaced(old, p)[k] = p.poc \/ (k \in DOMAIN old /\ Replaced(old, p)[k] = old[k])
  <1> DEFINE D == DOMAIN old
             K == KeptOf(old, p)
             new == Replaced(old, p)
  <1>1. p.k \in Key /\ p.poc \in CodedPoc BY DEF StoredPicture
  <1>2. K \subseteq D BY DEF KeptOf
  <1>3. DOMAIN new = K \cup {p.k} BY DEF Replaced
  <1>4. \A k \in K \cup {p.k} : new[k] = IF k = p.k THEN p.poc ELSE old[k] BY DEF Replaced
  <1>5. IsFiniteSet(D) /\ Cardinality(D) \in Nat /\ Cardinality(D) <= BufferSize /\ D \subseteq Nat
    BY FS_CardinalityType, StoreAssumption DEF BufferOk
  <1>6. IsFiniteSet(K) /\ Cardinality(K) \in Nat /\ Cardinality(K) <= Cardinality(D)
        /\ (Cardinality(K) = Cardinality(D) => K = D)
    BY <1>2, <1>5, FS_Subset, FS_CardinalityType
  <1>7. IsFiniteSet(K \cup {p.k})
        /\ Cardinality(K \cup {p.k}) = IF p.k \in K THEN Cardinality(K) ELSE Cardinality(K) + 1
    BY <1>6, FS_AddElement
  <1>8. BufferSize \in Nat /\ BufferSize > 0 BY StoreAssumption
  <1>9. Cardinality(K \cup {p.k}) <= BufferSize
    <2>1. CASE p.k \in K BY <1>5, <1>6, <1>7, <1>8, <2>1
    <2>2. CASE p.k \notin K /\ Cardinality(D) = BufferSize
      <3>1. p.k \notin D
        <4> SUFFICES ASSUME p.k \in D PROVE FALSE OBVIOUS
        <4>1. p.k \in K BY DEF KeptOf
        <4> QED BY <2>2, <4>1
      <3>2. D # {} BY <1>5, <1>8, <2>2, FS_EmptySet
      <3>3. PICK m \in D : \A j \in D : ~(j < m) BY <1>5, <3>2, LeastOf
      <3>4. m \notin K BY <2>2, <3>1, <3>3 DEF KeptOf
      <3>5. Cardinality(K) # Cardinality(D) BY <1>6, <3>3, <3>4
      <3> QED BY <1>5, <1>6, <1>7, <1>8, <2>2, <3>5
    <2>3. CASE Cardinality(D) # BufferSize BY <1>5, <1>6, <1>7, <1>8, <2>3
    <2> QED BY <2>1, <2>2, <2>3
  <1>10. \A k \in DOMAIN new : new[k] = p.poc \/ (k \in D /\ new[k] = old[k]) BY <1>2, <1>3, <1>4
  <1>11. \A k \in DOMAIN new : new[k] \in CodedPoc BY <1>1, <1>10 DEF BufferOk
  <1>12. DOMAIN new \subseteq Key BY <1>1, <1>2, <1>3 DEF BufferOk
  <1>13. IsFiniteSet(DOMAIN new) /\ Cardinality(DOMAIN new) <= BufferSize BY <1>3, <1>7, <1>9
  <1>14. BufferOk(new) BY <1>11, <1>12, <1>13, Zenon DEF BufferOk
  <1> QED BY <1>10, <1>14

Buffers(b) == DOMAIN b = InterTypes /\ \A t \in InterTypes : BufferOk(b[t])

LEMMA EmptyOk == Buffers(EmptyBuffer) /\ \A t \in InterTypes : DOMAIN EmptyBuffer[t] = {}
  <1>1. DOMAIN EmptyBuffer = InterTypes BY DEF EmptyBuffer
  <1>2. \A t \in InterTypes : DOMAIN EmptyBuffer[t] = {} BY DEF EmptyBuffer
  <1>3. IsFiniteSet({}) /\ Cardinality({}) = 0 BY FS_EmptySet
  <1>4. 0 <= BufferSize BY StoreAssumption
  <1>5. ASSUME NEW t \in InterTypes PROVE BufferOk(EmptyBuffer[t])
    <2>1. DOMAIN EmptyBuffer[t] = {} BY <1>2
    <2> QED BY <1>3, <1>4, <2>1 DEF BufferOk
  <1> QED BY <1>1, <1>2, <1>5 DEF Buffers

LEMMA LeftOk ==
    ASSUME NEW b, Buffers(b), NEW p \in StoredPicture
    PROVE  /\ Buffers(BufferAfter(b, p))
           /\ \A t \in InterTypes : \A k \in DOMAIN BufferAfter(b, p)[t] :
                \/ ~IsIrap(p) /\ BufferAfter(b, p)[t][k] = p.poc
                \/ k \in DOMAIN b[t] /\ BufferAfter(b, p)[t][k] = b[t][k]
  <1>1. CASE IsIrap(p)
    <2>1. BufferAfter(b, p) = b BY <1>1 DEF BufferAfter
    <2> QED BY <2>1
  <1>2. CASE ~IsIrap(p)
    <2> DEFINE x == Replaced(b[p.t], p)
    <2>1. p.t \in InterTypes BY DEF StoredPicture
    <2>2. BufferOk(b[p.t]) BY <2>1 DEF Buffers
    <2>3. BufferOk(x) /\ \A k \in DOMAIN x :
            x[k] = p.poc \/ (k \in DOMAIN b[p.t] /\ x[k] = b[p.t][k])
      BY <2>2, ReplacedOk
    <2>4. BufferAfter(b, p) = [b EXCEPT ![p.t] = x] BY <1>2, Zenon DEF BufferAfter
    <2> HIDE DEF x
    <2>5. DOMAIN BufferAfter(b, p) = InterTypes /\ BufferAfter(b, p)[p.t] = x
          /\ \A t \in InterTypes : t # p.t => BufferAfter(b, p)[t] = b[t]
      BY <2>1, <2>4 DEF Buffers
    <2>6. ASSUME NEW t \in InterTypes
          PROVE  /\ BufferOk(BufferAfter(b, p)[t])
                 /\ \A k \in DOMAIN BufferAfter(b, p)[t] :
                        \/ BufferAfter(b, p)[t][k] = p.poc
                        \/ k \in DOMAIN b[t] /\ BufferAfter(b, p)[t][k] = b[t][k]
      <3>1. CASE t = p.t BY <2>3, <2>5, <3>1, Zenon
      <3>2. CASE t # p.t
        <4>1. BufferAfter(b, p)[t] = b[t] /\ BufferOk(b[t]) BY <2>5, <2>6, <3>2 DEF Buffers
        <4> QED BY <4>1, Zenon
      <3> QED BY <3>1, <3>2
    <2> QED BY <1>2, <2>5, <2>6, Zenon DEF Buffers
  <1> QED BY <1>1, <1>2

LEMMA KeptOk ==
    ASSUME NEW b, Buffers(b), NEW cleared \in BOOLEAN
    PROVE  Buffers(BufferBefore(b, cleared))
  BY EmptyOk DEF BufferBefore

----------------------------------------------------------------------------
(* What the encoder has: the states it keeps are dropped at the first      *)
(* picture that trails the last IRAP picture.                              *)

EncoderStore ==
    /\ irap \in StoredPicture /\ IsIrap(irap) /\ codedPocs \subseteq CodedPoc
    /\ leadFrom \in Int /\ leadFrom >= -1
    /\ IsStore(encStore) /\ Buffers(encStore.buf)
    /\ codedPocs = {} => /\ irap.poc = 0 /\ leadFrom = -1
                         /\ encStore.buf = EmptyBuffer /\ encStore.lastRas = FarPoc
    /\ codedPocs # {} => /\ irap.poc \in codedPocs
                         /\ encStore.lastRas = IF Trailing THEN FarPoc ELSE irap.poc
    /\ Trailing => \A t \in InterTypes : \A k \in DOMAIN encStore.buf[t] :
                        encStore.buf[t][k] > irap.poc

LEMMA Far ==
    /\ FarPoc \in Nat /\ CodedBound \in Nat /\ LsbCycle \in Nat /\ LsbCycle > 0
    /\ \A c \in CodedPoc : c \in Nat /\ c <= CodedBound /\ ~(c > FarPoc)
    /\ FarPoc >= CodedBound + 1
  BY StoreAssumption DEF FarPoc, CodedPoc

(* The POC of pocRandomAccess after an IDR picture is below all.           *)
LEMMA BelowAll ==
    ASSUME NEW x, NEW l \in Int, NEW n \in Int, x = -FarPoc, l >= -1, n >= -CodedBound
    PROVE  x <= l + n
  <1> DEFINE f == FarPoc
  <1>1. f \in Nat /\ CodedBound \in Nat /\ f >= CodedBound + 1 /\ x = -f BY Far
  <1> HIDE DEF f
  <1>2. l + n >= -1 - CodedBound BY <1>1
  <1> QED BY <1>1, <1>2

(* A picture to be coded is an IRAP picture above all, one that trails the *)
(* last or one that leads it.                                              *)
LEMMA PictureKinds ==
    ASSUME EncoderStore, NEW p \in StoredPicture, MayBeCoded(p)
    PROVE  /\ p.poc \in CodedPoc
           /\ \/ /\ IsIrap(p) /\ \A c \in codedPocs : c < p.poc
                 /\ p.type \in {"IDR", "CRA"}
                 /\ p.type = "IDR" => p.poc \in IdrPocs
                 /\ codedPocs = {} => p.type = "IDR" /\ p.poc = 0
              \/ ~IsIrap(p) /\ p.type = "TRAIL" /\ codedPocs # {} /\ p.poc > irap.poc
              \/ /\ ~IsIrap(p) /\ p.type \in {"RASL", "RADL"} /\ codedPocs # {}
                 /\ p.type = (IF irap.type = "IDR" THEN "RADL" ELSE "RASL")
                 /\ leadFrom < p.poc /\ p.poc < irap.poc /\ ~Trailing
  <1>1. p.poc \in CodedPoc /\ p.type \in {"IDR", "CRA", "RASL", "RADL", "TRAIL"}
    BY DEF StoredPicture
  <1>2. IsIrap(p) <=> p.type \in {"IDR", "CRA"} BY DEF IsIrap
  <1>3. CASE IsIrap(p) BY <1>1, <1>2, <1>3, Zenon DEF MayBeCoded
  <1>4. CASE p.type = "TRAIL" BY <1>1, <1>2, <1>4 DEF MayBeCoded
  <1>5. CASE p.type \in {"RASL", "RADL"}
    <2>1. /\ p.type = (IF irap.type = "IDR" THEN "RADL" ELSE "RASL")
          /\ leadFrom < p.poc /\ p.poc < irap.poc /\ \A c \in codedPocs : c <= irap.poc
      BY <1>5 DEF MayBeCoded
    <2>2. ~Trailing
      <3>1. irap.poc \in CodedPoc BY DEF EncoderStore, StoredPicture
      <3>2. \A c \in codedPocs : c \in Nat BY Far DEF EncoderStore
      <3> QED BY <2>1, <3>1, <3>2, Far DEF Trailing
    <2>3. codedPocs # {}
      <3> SUFFICES ASSUME codedPocs = {} PROVE FALSE OBVIOUS
      <3>1. irap.poc = 0 BY DEF EncoderStore
      <3> QED BY <1>1, <2>1, <3>1, Far
    <2> QED BY <1>1, <1>2, <1>5, <2>1, <2>2, <2>3
  <1> QED BY <1>1, <1>2, <1>3, <1>4, <1>5

LEMMA LastOfCoded ==
    ASSUME NEW S, S \subseteq CodedPoc, S # {}
    PROVE  LET m == CHOOSE c \in S : \A d \in S : d <= c IN m \in S /\ \A d \in S : d <= m
  <1> DEFINE T == {CodedBound - c : c \in S}
  <1>1. T \subseteq Nat /\ T # {} BY Far
  <1>2. PICK t \in T : \A j \in T : ~(j < t) BY <1>1, LeastOf
  <1>3. PICK c \in S : t = CodedBound - c OBVIOUS
  <1>4. \A d \in S : d <= c
    <2> TAKE d \in S
    <2>1. ~(CodedBound - d < CodedBound - c) BY <1>2, <1>3
    <2> QED BY <2>1, Far
  <1> QED BY <1>4

LEMMA EncoderInit == StoreInit => EncoderStore
  <1> SUFFICES ASSUME StoreInit PROVE EncoderStore OBVIOUS
  <1>1. irap \in StoredPicture /\ irap.poc = 0 /\ irap.type = "IDR" /\ codedPocs = {} /\ leadFrom = -1
    BY DEF StoreInit
  <1>2. encStore = [buf |-> EmptyBuffer, lastRas |-> FarPoc] BY DEF StoreInit, NewStore
  <1>3. encStore.buf = EmptyBuffer /\ encStore.lastRas = FarPoc BY <1>2
  <1>4. IsStore(encStore) BY <1>2, <1>3, Far DEF IsStore
  <1>5. ~Trailing BY <1>1 DEF Trailing
  <1>6. IsIrap(irap) BY <1>1 DEF IsIrap
  <1> QED BY <1>1, <1>3, <1>4, <1>5, <1>6, EmptyOk DEF EncoderStore

(* What the step leaves in the encoder's store. *)
LEMMA EncoderDrops ==
    ASSUME EncoderStore, NEW p \in StoredPicture, MayBeCoded(p)
    PROVE  /\ IsIrap(p) => (p.poc > encStore.lastRas <=> codedPocs # {} /\ ~Trailing)
           /\ p.type = "TRAIL" => (p.poc > encStore.lastRas <=> ~Trailing)
           /\ p.type \in {"RASL", "RADL"} => ~(p.poc > encStore.lastRas)
  <1>1. p.poc \in Nat /\ irap.poc \in Nat /\ ~(p.poc > FarPoc)
    BY Far, PictureKinds DEF EncoderStore, StoredPicture
  <1>2. CASE codedPocs = {}
    <2>1. encStore.lastRas = FarPoc BY <1>2 DEF EncoderStore
    <2> QED BY <1>1, <1>2, <2>1, PictureKinds DEF IsIrap
  <1>3. CASE codedPocs # {} /\ Trailing
    <2>1. encStore.lastRas = FarPoc BY <1>3 DEF EncoderStore
    <2> QED BY <1>1, <1>3, <2>1
  <1>4. CASE codedPocs # {} /\ ~Trailing
    <2>1. encStore.lastRas = irap.poc /\ irap.poc \in codedPocs BY <1>4 DEF EncoderStore
    <2>2. CASE IsIrap(p) BY <1>4, <2>1, <2>2, PictureKinds DEF IsIrap
    <2>3. CASE p.type = "TRAIL" BY <1>4, <2>1, <2>3, PictureKinds DEF IsIrap
    <2>4. CASE p.type \in {"RASL", "RADL"}
      <3>1. p.poc < irap.poc BY <2>4, PictureKinds DEF IsIrap
      <3> QED BY <1>1, <2>1, <2>4, <3>1 DEF IsIrap
    <2>5. p.type \in {"IDR", "CRA", "RASL", "RADL", "TRAIL"} BY DEF StoredPicture
    <2> QED BY <2>2, <2>3, <2>4, <2>5 DEF IsIrap
  <1> QED BY <1>2, <1>3, <1>4

LEMMA EncoderCodes ==
    ASSUME EncoderStore, NEW p \in StoredPicture, Code(p)
    PROVE  /\ EncoderStore'
           /\ codedPocs' = codedPocs \cup {p.poc}
           /\ IsIrap(p) => irap' = p /\ ~Trailing' /\ \A c \in codedPocs : c <= leadFrom'
           /\ ~IsIrap(p) => irap' = irap /\ leadFrom' = leadFrom
           /\ p.type = "TRAIL" => Trailing'
           /\ p.type \in {"RASL", "RADL"} => ~Trailing'
  <1> DEFINE dropped == p.poc > encStore.lastRas
             b == BufferBefore(encStore.buf, dropped)
             r == NextRas(encStore.lastRas, p, p.poc)
  <1>1. MayBeCoded(p) /\ codedPocs' = codedPocs \cup {p.poc} BY DEF Code
  <1>2. encStore' = [buf |-> BufferAfter(b, p), lastRas |-> r]
    <2>1. encStore' = Stored(Entered(encStore, p, p.poc), p) BY Zenon DEF Code
    <2>2. IsStore(encStore) BY DEF EncoderStore
    <2> QED BY <2>1, <2>2, StoreStep
  <1>3. p.poc \in CodedPoc /\ p.poc \in Nat /\ irap.poc \in Nat /\ irap.poc \in CodedPoc
        /\ encStore.lastRas \in Int /\ dropped \in BOOLEAN
    BY <1>1, Far, PictureKinds DEF EncoderStore, StoredPicture, IsStore
  <1>4. Buffers(b) BY <1>3, KeptOk DEF EncoderStore
  <1>5. /\ Buffers(BufferAfter(b, p))
        /\ \A t \in InterTypes : \A k \in DOMAIN BufferAfter(b, p)[t] :
                \/ ~IsIrap(p) /\ BufferAfter(b, p)[t][k] = p.poc
                \/ k \in DOMAIN b[t] /\ BufferAfter(b, p)[t][k] = b[t][k]
    BY <1>4, LeftOk
  <1>6. r \in Int BY <1>3, Far DEF NextRas
  <1>7. encStore'.buf = BufferAfter(b, p) /\ encStore'.lastRas = r /\ IsStore(encStore)'
    BY <1>2, <1>6 DEF IsStore
  <1>8. /\ IsIrap(p) => (dropped <=> codedPocs # {} /\ ~Trailing)
        /\ p.type = "TRAIL" => (dropped <=> ~Trailing)
        /\ p.type \in {"RASL", "RADL"} => ~dropped
    BY <1>1, EncoderDrops
  <1>9. b = IF dropped THEN EmptyBuffer ELSE encStore.buf BY DEF BufferBefore
  <1>10. r = IF IsIrap(p) THEN p.poc ELSE IF dropped THEN FarPoc ELSE encStore.lastRas BY DEF NextRas
  <1>11. codedPocs' \subseteq CodedPoc /\ codedPocs' # {} BY <1>1, <1>3 DEF EncoderStore
  <1>12. \A c \in codedPocs : c \in Nat BY Far DEF EncoderStore
  <1>13. Trailing' <=> \E c \in codedPocs \cup {p.poc} : c > irap'.poc BY <1>1 DEF Trailing
  <1> HIDE DEF b, r, dropped
  <1>14. CASE IsIrap(p)
    <2>1. irap' = p /\ \A c \in codedPocs : c < p.poc
      BY <1>1, <1>14, PictureKinds DEF Code
    <2>2. ~Trailing' BY <1>3, <1>12, <1>13, <2>1
    <2>3. leadFrom' = IF codedPocs = {} THEN -1
                      ELSE CHOOSE c \in codedPocs : \A d \in codedPocs : d <= c
      BY <1>14 DEF Code
    <2>4. leadFrom' \in Int /\ leadFrom' >= -1 /\ \A c \in codedPocs : c <= leadFrom'
      <3>1. CASE codedPocs = {} BY <2>3, <3>1
      <3>2. CASE codedPocs # {}
        <4> DEFINE m == CHOOSE c \in codedPocs : \A d \in codedPocs : d <= c
        <4>1. m \in codedPocs /\ \A d \in codedPocs : d <= m BY <3>2, LastOfCoded DEF EncoderStore
        <4>2. leadFrom' = m BY <2>3, <3>2
        <4> HIDE DEF m
        <4> QED BY <1>12, <4>1, <4>2
      <3> QED BY <3>1, <3>2
    <2>5. irap'.poc \in codedPocs' /\ encStore'.lastRas = irap'.poc
      BY <1>1, <1>7, <1>10, <1>14, <2>1
    <2>6. p.type \notin {"TRAIL", "RASL", "RADL"} BY <1>14 DEF IsIrap
    <2>7. EncoderStore'
      BY <1>5, <1>7, <1>11, <1>14, <2>1, <2>2, <2>4, <2>5 DEF EncoderStore, IsIrap
    <2> QED BY <1>1, <1>14, <2>1, <2>2, <2>4, <2>6, <2>7
  <1>15. CASE ~IsIrap(p)
    <2>1. irap' = irap /\ leadFrom' = leadFrom BY <1>15 DEF Code
    <2>2. codedPocs # {} /\ (p.type = "TRAIL" \/ p.type \in {"RASL", "RADL"})
      BY <1>1, <1>15, PictureKinds
    <2>3. irap.poc \in codedPocs /\ encStore.lastRas = IF Trailing THEN FarPoc ELSE irap.poc
      BY <2>2 DEF EncoderStore
    <2>4. CASE p.type = "TRAIL"
      <3>1. p.poc > irap.poc BY <1>1, <2>4, PictureKinds DEF IsIrap
      <3>2. Trailing' BY <1>13, <2>1, <3>1
      <3>3. r = FarPoc BY <1>8, <1>10, <1>15, <2>3, <2>4
      <3>4. ASSUME NEW t \in InterTypes, NEW k \in DOMAIN BufferAfter(b, p)[t]
            PROVE  BufferAfter(b, p)[t][k] > irap.poc
        <4>1. CASE BufferAfter(b, p)[t][k] = p.poc BY <3>1, <4>1
        <4>2. CASE k \in DOMAIN b[t] /\ BufferAfter(b, p)[t][k] = b[t][k]
          <5>1. ~dropped BY <1>9, <4>2, EmptyOk
          <5>2. Trailing /\ b = encStore.buf BY <1>8, <1>9, <2>4, <5>1
          <5> QED BY <4>2, <5>2 DEF EncoderStore
        <4> QED BY <1>5, <4>1, <4>2
      <3>5. EncoderStore'
        BY <1>5, <1>7, <1>11, <1>1, <2>1, <2>3, <3>2, <3>3, <3>4 DEF EncoderStore
      <3>6. p.type \notin {"RASL", "RADL"} BY <2>4
      <3> QED BY <1>1, <1>15, <2>1, <3>2, <3>5, <3>6
    <2>5. CASE p.type \in {"RASL", "RADL"}
      <3>1. p.poc < irap.poc /\ ~Trailing BY <1>1, <2>5, PictureKinds DEF IsIrap
      <3>2. ~Trailing'
        <4>1. \A c \in codedPocs : ~(c > irap.poc) BY <3>1 DEF Trailing
        <4> QED BY <1>3, <1>13, <2>1, <3>1, <4>1
      <3>3. r = irap.poc BY <1>8, <1>10, <1>15, <2>3, <2>5, <3>1
      <3>4. EncoderStore'
        BY <1>5, <1>7, <1>11, <1>1, <2>1, <2>3, <3>2, <3>3 DEF EncoderStore
      <3>5. p.type # "TRAIL" BY <2>5
      <3> QED BY <1>1, <1>15, <2>1, <3>2, <3>4, <3>5
    <2> QED BY <2>2, <2>4, <2>5
  <1> QED BY <1>14, <1>15

LEMMA EncoderNext == EncoderStore /\ [StoreNext]_storeVars => EncoderStore'
  <1> SUFFICES ASSUME EncoderStore, [StoreNext]_storeVars PROVE EncoderStore' OBVIOUS
  <1>1. CASE StoreNext BY <1>1, EncoderCodes DEF StoreNext
  <1>2. CASE UNCHANGED storeVars BY <1>2 DEF EncoderStore, Trailing, storeVars
  <1> QED BY <1>1, <1>2

(* No state outlives two IRAP pictures: the buffers of CtxStateStore stay  *)
(* within TEMP_CABAC_BUFFER_SIZE, and once a picture trails an IRAP        *)
(* picture they hold only pictures that do.                                *)
THEOREM StatesStayRecent == StoreSpec => []StoreIsRecent
  <1>1. EncoderStore => StoreIsRecent
    <2> SUFFICES ASSUME EncoderStore PROVE StoreIsRecent OBVIOUS
    <2>1. \A t \in InterTypes : Cardinality(DOMAIN encStore.buf[t]) <= BufferSize
      BY DEF EncoderStore, Buffers, BufferOk
    <2>2. Trailing => \A t \in InterTypes : \A k \in DOMAIN encStore.buf[t] :
                          encStore.buf[t][k] > irap.poc
      BY DEF EncoderStore
    <2> QED BY <2>1, <2>2 DEF StoreIsRecent, Trailing
  <1> QED BY <1>1, EncoderInit, EncoderNext, PTL DEF StoreSpec
----------------------------------------------------------------------------
(* A decoder that starts at the first picture or at a CRA picture, in a    *)
(* stream in which IDR pictures come before the POC wraps: from an IDR     *)
(* picture on its POCs are the author's.                                   *)

CraStarts == "IDR" \notin StartTypes /\ \A i \in IdrPocs : i < LsbCycle

(* It has started at the last IRAP picture, skips the pictures that lead   *)
(* it, and will drop its states where the encoder does.                    *)
CatchesUp == ~Trailing /\ startPoc = irap.poc + shift /\ irap.type = "CRA"

DecoderStore ==
    /\ started \in BOOLEAN /\ startPoc \in Int /\ shift \in Int
    /\ -CodedBound <= shift /\ shift <= 0
    /\ IsStore(decStore)
    /\ shift # 0 => \E c \in codedPocs : c >= LsbCycle
    /\ ~started => decStore = NewStore
    /\ started =>
        /\ codedPocs # {} /\ decStore.lastRas = IF Trailing THEN FarPoc ELSE irap.poc + shift
        /\ startPoc = -FarPoc \/ startPoc - shift \in codedPocs
        /\ \/ CatchesUp
           \/ decStore.buf = encStore.buf /\ (Trailing \/ startPoc <= leadFrom + shift)

LEMMA DecoderInit == StoreInit => DecoderStore
  <1> SUFFICES ASSUME StoreInit PROVE DecoderStore OBVIOUS
  <1>1. decStore = NewStore /\ started = FALSE /\ startPoc = FarPoc /\ shift = 0 BY DEF StoreInit
  <1>2. IsStore(decStore) BY <1>1, Far DEF IsStore, NewStore
  <1>3. -CodedBound <= 0 /\ FarPoc \in Int BY Far
  <1>4. started \in BOOLEAN /\ ~started /\ shift = 0 /\ startPoc \in Int BY <1>1, <1>3
  <1>5. -CodedBound <= shift /\ shift <= 0 /\ shift \in Int BY <1>3, <1>4
  <1> QED BY <1>1, <1>2, <1>4, <1>5, Zenon DEF DecoderStore

(* The POC of a picture in a decoder that starts with it, or at an IDR     *)
(* picture.                                                                *)
LEMMA NewShift ==
    ASSUME CraStarts, NEW p \in StoredPicture, p.poc \in CodedPoc
    PROVE  LET offset == (p.poc % LsbCycle) - p.poc
           IN  /\ offset \in Int /\ -CodedBound <= offset /\ offset <= 0
               /\ offset # 0 => p.poc >= LsbCycle
               /\ p.poc \in IdrPocs => offset = 0
  <1> DEFINE n == p.poc
             m == n % LsbCycle
  <1>1. n \in Nat /\ n <= CodedBound /\ LsbCycle \in Nat /\ LsbCycle > 0 BY Far
  <1> HIDE DEF n
  <1>2. m \in Nat BY <1>1
  <1>3. m <= n BY <1>1
  <1>4. n < LsbCycle => m = n BY <1>1
  <1>5. n \in IdrPocs => n < LsbCycle BY DEF CraStarts
  <1> HIDE DEF m
  <1> QED BY <1>1, <1>2, <1>3, <1>4, <1>5, Far DEF m, n

LEMMA EmptyLeft ==
    ASSUME NEW p, IsIrap(p), NEW b
    PROVE  BufferAfter(b, p) = b /\ LoadedFrom(b, p) = Initial
  BY DEF BufferAfter, LoadedFrom

(* The first picture that is decoded. *)
LEMMA DecoderStarts ==
    ASSUME CraStarts, EncoderStore, DecoderStore, NEW p \in StoredPicture, Code(p),
           ~started, MayStart(p), Decoded(p)
    PROVE  DecoderStore' /\ ContextsAgree'
  <1> DEFINE offset == (p.poc % LsbCycle) - p.poc
             poc == p.poc + offset
  <1>1. MayBeCoded(p) /\ IsIrap(p) BY DEF Code, MayStart
  <1>2. p.poc \in CodedPoc /\ p.poc \in Nat /\ p.type \in {"IDR", "CRA"}
        /\ (p.type = "IDR" => p.poc \in IdrPocs)
    BY <1>1, Far, PictureKinds DEF IsIrap
  <1>3. /\ offset \in Int /\ -CodedBound <= offset /\ offset <= 0
        /\ offset # 0 => p.poc >= LsbCycle
        /\ p.type = "IDR" => offset = 0
    BY <1>2, NewShift
  <1>4. shift' = offset /\ started' = TRUE
        /\ startPoc' = IF p.type = "IDR" THEN -FarPoc ELSE poc
    BY DEF Decoded
  <1>5. given' = Loaded(Entered(decStore, p, poc), p) /\ decStore' = Stored(Entered(decStore, p, poc), p)
    BY DEF Decoded
  <1>6. used' = Loaded(Entered(encStore, p, p.poc), p) BY DEF Code
  <1> HIDE DEF offset
  <1>7. decStore.buf = EmptyBuffer /\ IsStore(decStore) BY DEF DecoderStore, NewStore
  <1>8. decStore' = [buf |-> EmptyBuffer, lastRas |-> poc] /\ given' = Initial
    <2> DEFINE b == BufferBefore(decStore.buf, poc > decStore.lastRas)
    <2>1. given' = LoadedFrom(b, p)
          /\ decStore' = [buf |-> BufferAfter(b, p), lastRas |-> NextRas(decStore.lastRas, p, poc)]
      BY <1>5, <1>7, StoreStep
    <2>2. b = EmptyBuffer BY <1>7 DEF BufferBefore
    <2> HIDE DEF b
    <2>3. BufferAfter(b, p) = b /\ LoadedFrom(b, p) = Initial BY <1>1, EmptyLeft
    <2> QED BY <1>1, <2>1, <2>2, <2>3 DEF NextRas
  <1>9. used' = Initial
    <2>1. IsStore(encStore) BY DEF EncoderStore
    <2> QED BY <1>1, <1>6, <2>1, StoreStep, EmptyLeft
  <1>10. ContextsAgree' BY <1>8, <1>9 DEF ContextsAgree
  <1>11. irap' = p /\ ~Trailing' /\ codedPocs' = codedPocs \cup {p.poc} BY <1>1, EncoderCodes
  <1>12. IsStore(decStore)' /\ decStore'.lastRas = poc /\ decStore'.buf = EmptyBuffer
    BY <1>2, <1>3, <1>8 DEF IsStore
  <1>13. startPoc' = -FarPoc \/ startPoc' - shift' \in codedPocs' BY <1>2, <1>3, <1>4, <1>11
  <1>14. shift' # 0 => \E c \in codedPocs' : c >= LsbCycle BY <1>3, <1>4, <1>11
  <1>15. CatchesUp' \/ (decStore'.buf = encStore'.buf /\ startPoc' <= leadFrom' + shift')
    <2>1. CASE p.type = "CRA" BY <1>4, <1>11, <2>1 DEF CatchesUp
    <2>2. CASE p.type = "IDR"
      <3>1. codedPocs = {} BY <2>2 DEF MayStart, CraStarts
      <3>2. encStore.buf = EmptyBuffer /\ IsStore(encStore) BY <3>1 DEF EncoderStore
      <3>3. encStore'.buf = EmptyBuffer
        <4>1. encStore' = Stored(Entered(encStore, p, p.poc), p) BY DEF Code
        <4> DEFINE b == BufferBefore(encStore.buf, p.poc > encStore.lastRas)
        <4>2. b = EmptyBuffer BY <3>2 DEF BufferBefore
        <4>3. encStore' = [buf |-> BufferAfter(b, p), lastRas |-> NextRas(encStore.lastRas, p, p.poc)]
          BY <3>2, <4>1, StoreStep
        <4> HIDE DEF b
        <4> QED BY <1>1, <4>2, <4>3, EmptyLeft
      <3>4. leadFrom' \in Int /\ leadFrom' >= -1 BY EncoderCodes DEF EncoderStore
      <3>5. startPoc' = -FarPoc /\ shift' = 0 BY <1>3, <1>4, <2>2
      <3>6. startPoc' <= leadFrom' + shift' 
        <4>1. shift' \in Int /\ shift' >= -CodedBound BY <3>5, Far
        <4> QED BY <3>4, <3>5, <4>1, BelowAll
      <3> QED BY <1>12, <3>3, <3>6
    <2> QED BY <1>2, <2>1, <2>2
  <1>16. startPoc' \in Int BY <1>2, <1>3, <1>4, Far
  <1>17. codedPocs' # {} /\ decStore'.lastRas = irap'.poc + shift' BY <1>4, <1>11, <1>12
  <1> QED
    BY <1>3, <1>4, <1>10, <1>11, <1>12, <1>13, <1>14, <1>15, <1>16, <1>17 DEF DecoderStore

(* A picture that is skipped leads the CRA picture the decoder has started *)
(* at.                                                                     *)
LEMMA DecoderSkips ==
    ASSUME EncoderStore, DecoderStore, NEW p \in StoredPicture, Code(p),
           started, Skips(p), Undecoded
    PROVE  DecoderStore' /\ ContextsAgree'
  <1>1. MayBeCoded(p) /\ p.type = "RASL" /\ ~IsIrap(p) BY DEF Code, Skips, IsIrap
  <1>2. leadFrom < p.poc /\ ~Trailing /\ p.poc \in Nat BY <1>1, Far, PictureKinds
  <1>3. CatchesUp
    <2> SUFFICES ASSUME ~CatchesUp PROVE FALSE OBVIOUS
    <2>1. startPoc <= leadFrom + shift BY <1>2 DEF DecoderStore
    <2>2. p.poc + shift < startPoc BY DEF Skips
    <2> QED BY <1>2, <2>1, <2>2 DEF DecoderStore, EncoderStore
  <1>4. irap' = irap /\ ~Trailing' /\ codedPocs' = codedPocs \cup {p.poc} BY <1>1, EncoderCodes
  <1>5. UNCHANGED <<decStore, started, startPoc, shift>> /\ given' = NotDecoded BY DEF Undecoded
  <1>6. CatchesUp' BY <1>3, <1>4, <1>5 DEF CatchesUp
  <1>7. ContextsAgree' BY <1>5 DEF ContextsAgree
  <1> QED BY <1>2, <1>4, <1>5, <1>6, <1>7 DEF DecoderStore, IsStore

(* Before the start. *)
LEMMA DecoderWaits ==
    ASSUME EncoderStore, DecoderStore, NEW p \in StoredPicture, Code(p), ~started, Undecoded
    PROVE  DecoderStore' /\ ContextsAgree'
  <1>1. codedPocs' = codedPocs \cup {p.poc} BY DEF Code
  <1>2. UNCHANGED <<decStore, started, startPoc, shift>> /\ given' = NotDecoded BY DEF Undecoded
  <1> QED BY <1>1, <1>2 DEF DecoderStore, IsStore, ContextsAgree

(* A picture that is decoded. *)
LEMMA DecoderDecodes ==
    ASSUME CraStarts, EncoderStore, DecoderStore, NEW p \in StoredPicture, Code(p),
           started, ~Skips(p), Decoded(p)
    PROVE  DecoderStore' /\ ContextsAgree'
  <1> DEFINE offset == IF p.type = "IDR" THEN (p.poc % LsbCycle) - p.poc ELSE shift
             poc == p.poc + offset
             dropped == p.poc > encStore.lastRas
             eb == BufferBefore(encStore.buf, dropped)
             db == BufferBefore(decStore.buf, poc > decStore.lastRas)
  <1>1. MayBeCoded(p) BY DEF Code
  <1>2. /\ p.poc \in CodedPoc /\ p.poc \in Nat /\ p.poc <= CodedBound
        /\ p.type \in {"IDR", "CRA", "RASL", "RADL", "TRAIL"} /\ codedPocs # {}
        /\ irap.poc \in Nat /\ leadFrom \in Int
    BY <1>1, Far, PictureKinds DEF DecoderStore, EncoderStore, StoredPicture
  <1>3. /\ p.type = "IDR" => offset = 0
        /\ p.type # "IDR" => offset = shift
    BY <1>1, <1>2, NewShift, PictureKinds DEF IsIrap
  <1>4. /\ shift' = offset /\ started' = TRUE
        /\ startPoc' = IF p.type = "IDR" THEN -FarPoc ELSE startPoc
        /\ given' = Loaded(Entered(decStore, p, poc), p)
        /\ decStore' = Stored(Entered(decStore, p, poc), p)
    BY Zenon DEF Decoded
  <1>5. /\ shift \in Int /\ -CodedBound <= shift /\ shift <= 0 /\ startPoc \in Int
        /\ decStore.lastRas = IF Trailing THEN FarPoc ELSE irap.poc + shift
        /\ IsStore(decStore) /\ IsStore(encStore)
    BY DEF DecoderStore, EncoderStore
  <1>6. offset \in Int /\ -CodedBound <= offset /\ offset <= 0 BY <1>3, <1>5, Far
  <1> HIDE DEF offset
  <1>7. /\ IsIrap(p) => (dropped <=> ~Trailing)
        /\ p.type = "TRAIL" => (dropped <=> ~Trailing)
        /\ p.type \in {"RASL", "RADL"} => ~dropped
    BY <1>1, <1>2, EncoderDrops
  <1>8. poc > decStore.lastRas <=> dropped
    <2>1. CASE Trailing
      <3>1. ~(poc > decStore.lastRas) BY <1>2, <1>5, <1>6, <2>1, Far
      <3>2. ~dropped BY <1>2, <1>7, <2>1 DEF IsIrap
      <3> QED BY <3>1, <3>2
    <2>2. CASE ~Trailing /\ IsIrap(p)
      <3>1. irap.poc < p.poc BY <1>1, <1>2, <2>2, PictureKinds DEF EncoderStore, IsIrap
      <3>2. decStore.lastRas = irap.poc + shift BY <1>5, <2>2
      <3>3. poc > decStore.lastRas
        <4>1. CASE p.type = "IDR"
          <5>1. poc = p.poc BY <1>2, <1>3, <4>1
          <5> QED BY <1>2, <1>5, <3>1, <3>2, <5>1
        <4>2. CASE p.type # "IDR"
          <5>1. poc = p.poc + shift BY <1>3, <4>2
          <5> QED BY <1>2, <1>5, <3>1, <3>2, <5>1
        <4> QED BY <4>1, <4>2
      <3> QED BY <1>7, <2>2, <3>3
    <2>3. CASE ~Trailing /\ p.type = "TRAIL"
      <3>1. irap.poc < p.poc BY <1>1, <1>2, <2>3, PictureKinds DEF IsIrap
      <3>2. decStore.lastRas = irap.poc + shift /\ poc = p.poc + shift BY <1>3, <1>5, <2>3
      <3> QED BY <1>2, <1>5, <1>7, <2>3, <3>1, <3>2
    <2>4. CASE ~Trailing /\ p.type \in {"RASL", "RADL"}
      <3>1. p.poc < irap.poc BY <1>1, <1>2, <2>4, PictureKinds DEF IsIrap
      <3>2. decStore.lastRas = irap.poc + shift /\ poc = p.poc + shift BY <1>3, <1>5, <2>4
      <3> QED BY <1>2, <1>5, <1>7, <2>4, <3>1, <3>2
    <2> QED BY <1>2, <2>1, <2>2, <2>3, <2>4 DEF IsIrap
  <1>9. CatchesUp => dropped
    <2> SUFFICES ASSUME CatchesUp, ~dropped PROVE FALSE OBVIOUS
    <2>1. p.type \in {"RASL", "RADL"} BY <1>2, <1>7 DEF CatchesUp, IsIrap
    <2>2. p.type = "RASL" /\ p.poc < irap.poc BY <1>1, <2>1, PictureKinds DEF CatchesUp, IsIrap
    <2>3. p.poc + shift < startPoc BY <1>2, <1>5, <2>2 DEF CatchesUp
    <2> QED BY <2>2, <2>3 DEF Skips
  <1>10. eb = db
    <2>1. dropped \/ decStore.buf = encStore.buf BY <1>9 DEF DecoderStore
    <2> QED BY <1>8, <2>1 DEF BufferBefore
  <1>11. given' = LoadedFrom(db, p)
         /\ decStore' = [buf |-> BufferAfter(db, p), lastRas |-> NextRas(decStore.lastRas, p, poc)]
    BY <1>4, <1>5, StoreStep
  <1>12. used' = LoadedFrom(eb, p)
         /\ encStore' = [buf |-> BufferAfter(eb, p), lastRas |-> NextRas(encStore.lastRas, p, p.poc)]
    <2>1. used' = Loaded(Entered(encStore, p, p.poc), p)
          /\ encStore' = Stored(Entered(encStore, p, p.poc), p)
      BY Zenon DEF Code
    <2> QED BY <1>5, <2>1, StoreStep
  <1> HIDE DEF eb, db, dropped
  <1>13. given' = used' /\ decStore'.buf = encStore'.buf BY <1>10, <1>11, <1>12
  <1>14. ContextsAgree' BY <1>13 DEF ContextsAgree
  <1>15. decStore'.lastRas = NextRas(decStore.lastRas, p, poc) BY <1>11
  <1>16. NextRas(decStore.lastRas, p, poc) =
            IF IsIrap(p) THEN poc ELSE IF dropped THEN FarPoc ELSE decStore.lastRas
    BY <1>8 DEF NextRas
  <1>17. IsStore(decStore)'
    <2>1. NextRas(decStore.lastRas, p, poc) \in Int BY <1>2, <1>5, <1>6, <1>16, Far DEF IsStore
    <2> QED BY <1>11, <2>1 DEF IsStore
  <1>18. /\ codedPocs' = codedPocs \cup {p.poc}
         /\ IsIrap(p) => irap' = p /\ ~Trailing' /\ \A c \in codedPocs : c <= leadFrom'
         /\ ~IsIrap(p) => irap' = irap /\ leadFrom' = leadFrom
         /\ p.type = "TRAIL" => Trailing'
         /\ p.type \in {"RASL", "RADL"} => ~Trailing'
         /\ leadFrom' \in Int /\ leadFrom' >= -1
    BY EncoderCodes DEF EncoderStore
  <1>19. decStore'.lastRas = IF Trailing' THEN FarPoc ELSE irap'.poc + shift'
    <2>1. CASE IsIrap(p) BY <1>4, <1>15, <1>16, <1>18, <2>1
    <2>2. CASE p.type = "TRAIL"
      <3>1. ~IsIrap(p) BY <2>2 DEF IsIrap
      <3>2. dropped \/ decStore.lastRas = FarPoc BY <1>5, <1>7, <2>2
      <3> QED BY <1>15, <1>16, <1>18, <2>2, <3>1, <3>2
    <2>3. CASE p.type \in {"RASL", "RADL"}
      <3>1. ~IsIrap(p) /\ ~dropped /\ ~Trailing BY <1>1, <1>7, <2>3, PictureKinds DEF IsIrap
      <3>2. offset = shift BY <1>3, <2>3
      <3> QED BY <1>4, <1>5, <1>15, <1>16, <1>18, <2>3, <3>1, <3>2
    <2> QED BY <1>2, <2>1, <2>2, <2>3 DEF IsIrap
  <1>20. startPoc' = -FarPoc \/ startPoc' - shift' \in codedPocs'
    <2>1. CASE p.type = "IDR" BY <1>4, <2>1
    <2>2. CASE p.type # "IDR" BY <1>3, <1>4, <1>18, <2>2 DEF DecoderStore
    <2> QED BY <2>1, <2>2
  <1>21. shift' # 0 => \E c \in codedPocs' : c >= LsbCycle
    BY <1>3, <1>4, <1>18 DEF DecoderStore
  <1>22. Trailing' \/ startPoc' <= leadFrom' + shift'
    <2>1. CASE p.type = "IDR" 
      <3>1. shift' \in Int /\ shift' >= -CodedBound BY <1>4, <1>6
      <3>2. startPoc' = -FarPoc BY <1>4, <2>1
      <3> QED BY <1>18, <3>1, <3>2, BelowAll
    <2>2. CASE p.type = "CRA"
      <3>1. IsIrap(p) /\ offset = shift /\ startPoc' = startPoc BY <1>3, <1>4, <2>2 DEF IsIrap
      <3>2. CASE startPoc = -FarPoc 
        <4>1. shift' \in Int /\ shift' >= -CodedBound BY <1>4, <1>6
        <4>2. startPoc' = -FarPoc BY <3>1, <3>2
        <4> QED BY <1>18, <4>1, <4>2, BelowAll
      <3>3. CASE startPoc - shift \in codedPocs
        <4>1. startPoc - shift <= leadFrom' BY <1>18, <3>1, <3>3
        <4> QED BY <1>4, <1>5, <1>18, <3>1, <4>1
      <3> QED BY <3>2, <3>3 DEF DecoderStore
    <2>3. CASE p.type = "TRAIL" BY <1>18, <2>3
    <2>4. CASE p.type \in {"RASL", "RADL"}
      <3>1. ~IsIrap(p) /\ ~dropped /\ ~Trailing BY <1>1, <1>7, <2>4, PictureKinds DEF IsIrap
      <3>2. startPoc <= leadFrom + shift BY <1>9, <3>1 DEF DecoderStore
      <3>3. startPoc' = startPoc /\ shift' = shift BY <1>3, <1>4, <2>4
      <3> QED BY <1>18, <3>1, <3>2, <3>3
    <2> QED BY <1>2, <2>1, <2>2, <2>3, <2>4
  <1>23. startPoc' \in Int BY <1>4, <1>5, Far
  <1> QED
    BY <1>4, <1>6, <1>13, <1>14, <1>17, <1>18, <1>19, <1>20, <1>21, <1>22, <1>23 DEF DecoderStore

LEMMA DecoderNext ==
    ASSUME CraStarts, EncoderStore, DecoderStore, ContextsAgree, [StoreNext]_storeVars
    PROVE  DecoderStore' /\ ContextsAgree'
  <1>1. CASE StoreNext
    <2>1. PICK p \in StoredPicture : Code(p) BY <1>1 DEF StoreNext
    <2>2. \/ ~started /\ Undecoded
          \/ ~started /\ MayStart(p) /\ Decoded(p)
          \/ started /\ Skips(p) /\ Undecoded
          \/ started /\ ~Skips(p) /\ Decoded(p)
      BY <2>1 DEF Code
    <2> QED BY <2>1, <2>2, DecoderWaits, DecoderStarts, DecoderSkips, DecoderDecodes
  <1>2. CASE UNCHANGED storeVars
    BY <1>2 DEF DecoderStore, ContextsAgree, CatchesUp, Trailing, IsStore, storeVars
  <1> QED BY <1>1, <1>2

(* Every picture that is decoded starts from the context states it was     *)
(* coded with, at whichever CRA picture the decoder starts and whatever it *)
(* skips.                                                                  *)
THEOREM StatesAgree == CraStarts => (StoreSpec => []ContextsAgree)
  <1> SUFFICES ASSUME CraStarts PROVE StoreSpec => []ContextsAgree OBVIOUS
  <1>1. StoreInit => EncoderStore /\ DecoderStore /\ ContextsAgree
    BY EncoderInit, DecoderInit DEF StoreInit, ContextsAgree
  <1>2. EncoderStore /\ DecoderStore /\ ContextsAgree /\ [StoreNext]_storeVars
            => EncoderStore' /\ DecoderStore' /\ ContextsAgree'
    BY EncoderNext, DecoderNext
  <1> QED BY <1>1, <1>2, PTL DEF StoreSpec
=============================================================================
