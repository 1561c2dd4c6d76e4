-------------------------- MODULE CodingTree_proofs --------------------------
(***************************************************************************)
(* Proofs about the walk of CABACReader::coding_tree and transform_tree:   *)
(* that split_cu_mode reads the split which the writer wrote, whatever the *)
(* partitioner allows; that no split fails the CHECKs of the partitioner;  *)
(* that its depths are those of the way from the CTU to the current area;  *)
(* that the CUs tile the CTU; and that each quantisation group starts      *)
(* once.                                                                   *)
(*                                                                         *)
(* The lemmas come in the order of what they are about: the parts of one   *)
(* split, the levels of the stack, the border of the picture, what may be  *)
(* split, the depths, the steps of the walk (TWalk), what has been coded   *)
(* (TCoded), the groups (TGroups).                                         *)
(***************************************************************************)
EXTENDS CodingTree, FiniteSetTheorems, TLAPS

(* What may be done with an area: leave it whole or split it. *)
CuModes == CuSplits \cup {"none"}

(* The partitioner offers nothing else. *)
LEMMA CanSplitModes == CanSplit \subseteq CuModes
  BY Zenon DEF CanSplit, CuModes, CuSplits, MtSplits, BtSplits, TtSplits

(* A bin that is coded is the one that is read; one that is not leaves the *)
(* others as they are.                                                     *)
LEMMA BinComesBack ==
    ASSUME NEW isCoded \in BOOLEAN, NEW value \in BOOLEAN, NEW inferred \in BOOLEAN,
           NEW rest \in Seq(BOOLEAN), ~isCoded => inferred = value
    PROVE  ReadBin(Bin(isCoded, value) \o rest, isCoded, inferred) = [v |-> value, rest |-> rest]
  <1>1. CASE isCoded
    <2>1. Bin(isCoded, value) = <<value>> BY <1>1 DEF Bin
    <2>2. Head(<<value>> \o rest) = value /\ Tail(<<value>> \o rest) = rest OBVIOUS
    <2> QED BY <1>1, <2>1, <2>2 DEF ReadBin
  <1>2. CASE ~isCoded
    <2>1. Bin(isCoded, value) = <<>> BY <1>2 DEF Bin
    <2>2. <<>> \o rest = rest OBVIOUS
    <2> QED BY <1>2, <2>1, <2>2 DEF ReadBin
  <1> QED BY <1>1, <1>2

(* The bins of a split are sequences of bins. *)
LEMMA BinType ==
    ASSUME NEW isCoded \in BOOLEAN, NEW value \in BOOLEAN
    PROVE  Bin(isCoded, value) \in Seq(BOOLEAN)
  <1>1. <<value>> \in Seq(BOOLEAN) /\ <<>> \in Seq(BOOLEAN) OBVIOUS
  <1> QED BY <1>1, Zenon DEF Bin

(* The reader follows the writer: at each of the four bins it infers the   *)
(* value that the split has, if there is nothing to choose.                *)
LEMMA SplitRoundTrip ==
    ASSUME NEW can \in SUBSET CuModes, NEW s \in can
    PROVE  ReadSplit(can, WriteSplit(can, s)) = [split |-> s, rest |-> <<>>]
  <1> DEFINE isSplit == s # "none"
             isQuad == s = "quad"
             canSplit == can \cap CuSplits # {}
             canHor == can \cap Horizontal # {}
             canVer == can \cap Vertical # {}
             ver == s \in Vertical
             half == s \in BtSplits
             can14 == (IF ver THEN "triv" ELSE "trih") \in can
             can12 == (IF ver THEN "vert" ELSE "horz") \in can
             coded1 == "none" \in can /\ canSplit
             coded2 == "quad" \in can /\ can \cap MtSplits # {}
             coded3 == canVer /\ canHor
             coded4 == can12 /\ can14
             bins4 == Bin(coded4, half)
             bins3 == Bin(coded3, ver) \o bins4
             bins2 == IF s = "quad" THEN <<>> ELSE bins3
             bins1 == IF s = "none" THEN <<>> ELSE Bin(coded2, isQuad) \o bins2
             all == Bin(coded1, isSplit) \o bins1
  <1>0. /\ coded1 \in BOOLEAN /\ coded2 \in BOOLEAN /\ coded3 \in BOOLEAN /\ coded4 \in BOOLEAN
        /\ canSplit \in BOOLEAN /\ canVer \in BOOLEAN /\ can12 \in BOOLEAN
        /\ ver \in BOOLEAN /\ half \in BOOLEAN
        /\ isSplit \in BOOLEAN /\ isQuad \in BOOLEAN /\ ("quad" \in can) \in BOOLEAN
    OBVIOUS
  <1>1. WriteSplit(can, s) = all
    BY Zenon DEF WriteSplit
  <1>2. s \in {"none", "quad", "horz", "vert", "trih", "triv"}
    BY DEF CuModes, CuSplits, MtSplits, BtSplits, TtSplits
  <1>3. /\ bins4 \in Seq(BOOLEAN) /\ bins3 \in Seq(BOOLEAN)
        /\ bins2 \in Seq(BOOLEAN) /\ bins1 \in Seq(BOOLEAN)
    <2>1. /\ Bin(coded4, half) \in Seq(BOOLEAN)
          /\ Bin(coded3, ver) \in Seq(BOOLEAN)
          /\ Bin(coded2, isQuad) \in Seq(BOOLEAN)
      <3> HIDE DEF coded2, coded3, coded4, isQuad, ver, half
      <3> QED BY <1>0, BinType, Zenon
    <2>2. \A a, b \in Seq(BOOLEAN) : a \o b \in Seq(BOOLEAN) OBVIOUS
    <2>3. <<>> \in Seq(BOOLEAN) OBVIOUS
    <2> QED BY <2>1, <2>2, <2>3, Zenon
  <1>4. ReadBin(all, coded1, canSplit) = [v |-> isSplit, rest |-> bins1]
    <2>1. ~coded1 => canSplit = isSplit
      BY <1>2 DEF CuModes, CuSplits, MtSplits, BtSplits, TtSplits
    <2>2. coded1 \in BOOLEAN /\ isSplit \in BOOLEAN /\ canSplit \in BOOLEAN BY <1>0
    <2>3. bins1 \in Seq(BOOLEAN) BY <1>3
    <2> HIDE DEF coded1, isSplit, canSplit, bins1
    <2> QED BY <2>1, <2>2, <2>3, BinComesBack, ZenonT(60)
  <1> DEFINE split == ReadBin(all, coded1, canSplit)
             isQt == ReadBin(split.rest, coded2, "quad" \in can)
             isVer == ReadBin(isQt.rest, coded3, canVer)
             r12 == (IF isVer.v THEN "vert" ELSE "horz") \in can
             r14 == (IF isVer.v THEN "triv" ELSE "trih") \in can
             is12 == ReadBin(isVer.rest, r12 /\ r14, r12)
  <1>7. ReadSplit(can, all) =
          IF ~split.v THEN [split |-> "none", rest |-> split.rest]
          ELSE IF isQt.v THEN [split |-> "quad", rest |-> isQt.rest]
          ELSE [split |-> IF is12.v THEN IF isVer.v THEN "vert" ELSE "horz"
                          ELSE IF isVer.v THEN "triv" ELSE "trih", rest |-> is12.rest]
    BY Zenon DEF ReadSplit
  <1>5. CASE s = "none"
    <2>1. bins1 = <<>> BY <1>5
    <2>2. WriteSplit(can, s) = all /\ ReadBin(all, coded1, canSplit) = [v |-> FALSE, rest |-> <<>>]
      BY <1>1, <1>4, <1>5, <2>1
    <2>3. ReadSplit(can, all) = [split |-> "none", rest |-> <<>>]
      <3>1. split.v = FALSE /\ split.rest = <<>>
        <4>1. split = [v |-> FALSE, rest |-> <<>>] BY <2>2
        <4> HIDE DEF split
        <4> QED BY <4>1
      <3> HIDE DEF all, split, isQt, isVer, is12
      <3> QED BY <1>7, <3>1, Zenon
    <2> QED BY <1>5, <2>2, <2>3
  <1>6. CASE s # "none"
    <2>1. bins1 = Bin(coded2, isQuad) \o bins2 BY <1>6
    <2>2. ReadBin(bins1, coded2, "quad" \in can) = [v |-> isQuad, rest |-> bins2]
      <3>1. ~coded2 => ("quad" \in can) = isQuad
        BY <1>2, <1>6 DEF MtSplits, BtSplits, TtSplits
      <3>2. coded2 \in BOOLEAN /\ isQuad \in BOOLEAN /\ ("quad" \in can) \in BOOLEAN BY <1>0
      <3>3. bins2 \in Seq(BOOLEAN) BY <1>3
      <3> HIDE DEF coded2, isQuad, bins2, bins1
      <3> QED BY <2>1, <3>1, <3>2, <3>3, BinComesBack, ZenonT(60)
    <2>3. ReadBin(all, coded1, canSplit).v = TRUE /\ ReadBin(all, coded1, canSplit).rest = bins1
      <3>1. isSplit = TRUE BY <1>6
      <3> HIDE DEF all, coded1, isSplit, canSplit, bins1
      <3> QED BY <1>4, <3>1
    <2>4. CASE s = "quad"
      <3>1. ReadBin(bins1, coded2, "quad" \in can) = [v |-> TRUE, rest |-> <<>>]
        BY <2>2, <2>4
      <3>2. ReadSplit(can, all) = [split |-> "quad", rest |-> <<>>]
        <4>1. split.v = TRUE /\ split.rest = bins1 BY <2>3
        <4>2. isQt.v = TRUE /\ isQt.rest = <<>>
          <5>1. isQt = [v |-> TRUE, rest |-> <<>>]
            <6> HIDE DEF split, bins1
            <6> QED BY <3>1, <4>1, Zenon
          <5> HIDE DEF isQt
          <5> QED BY <5>1
        <4> HIDE DEF all, split, isQt, isVer, is12
        <4> QED BY <1>7, <4>1, <4>2, Zenon
      <3> QED BY <1>1, <2>4, <3>2
    <2>5. CASE s # "quad"
      <3>1. ReadBin(bins1, coded2, "quad" \in can).v = FALSE
            /\ ReadBin(bins1, coded2, "quad" \in can).rest = bins3
        <4>1. bins2 = bins3 /\ isQuad = FALSE BY <2>5
        <4> HIDE DEF bins1, bins2, bins3, coded2, isQuad
        <4> QED BY <2>2, <4>1
      <3>2. ReadBin(bins3, coded3, canVer) = [v |-> ver, rest |-> bins4]
        <4>1. ~coded3 => canVer = ver
          BY <1>2, <1>6, <2>5 DEF Horizontal, Vertical
        <4>2. coded3 \in BOOLEAN /\ canVer \in BOOLEAN /\ ver \in BOOLEAN BY <1>0
        <4>3. bins4 \in Seq(BOOLEAN) BY <1>3
        <4> HIDE DEF coded3, canVer, ver, bins4
        <4> QED BY <4>1, <4>2, <4>3, BinComesBack, ZenonT(60)
      <3>3. ReadBin(bins4, coded4, can12) = [v |-> half, rest |-> <<>>]
        <4>1. ~coded4 => can12 = half
          BY <1>2, <1>6, <2>5 DEF Horizontal, Vertical, BtSplits
        <4>2. bins4 \o <<>> = bins4 /\ <<>> \in Seq(BOOLEAN)
          BY <1>3
        <4>3. bins4 = Bin(coded4, half) \o <<>> BY <4>2
        <4>4. coded4 \in BOOLEAN /\ can12 \in BOOLEAN /\ half \in BOOLEAN BY <1>0
        <4> HIDE DEF coded4, can12, half, bins4
        <4> QED BY <4>1, <4>2, <4>3, <4>4, BinComesBack, ZenonT(60)
      <3>4. s = IF half THEN IF ver THEN "vert" ELSE "horz" ELSE IF ver THEN "triv" ELSE "trih"
        BY <1>2, <1>6, <2>5 DEF Vertical, BtSplits
      <3> HIDE DEF all, bins1, bins3, bins4
      <3>5. ReadSplit(can, all) = [split |-> s, rest |-> <<>>]
        <4>2. split.v = TRUE /\ split.rest = bins1 BY <2>3
        <4>3. isQt.v = FALSE /\ isQt.rest = bins3 BY <3>1, <4>2, Zenon
        <4>4. isVer = [v |-> ver, rest |-> bins4] BY <3>2, <4>3, Zenon
        <4>5. isVer.v = ver /\ isVer.rest = bins4
          <5> HIDE DEF isVer, ver
          <5> QED BY <4>4
        <4>6. is12 = [v |-> half, rest |-> <<>>]
          <5> HIDE DEF isVer, ver, half
          <5> QED BY <3>3, <4>5, Zenon
        <4>7. is12.v = half /\ is12.rest = <<>>
          <5> HIDE DEF is12, half
          <5> QED BY <4>6
        <4> HIDE DEF split, isQt, isVer, is12, ver, half
        <4> QED BY <1>7, <3>4, <4>2, <4>3, <4>5, <4>7, Zenon
      <3> QED BY <1>1, <3>5
    <2> QED BY <2>4, <2>5
  <1> QED BY <1>5, <1>6

(* Every split that the partitioner allows comes back from its bins        *)
(* (CABACWriter::split_cu_mode, CABACReader::split_cu_mode), for every CTU *)
(* size and any limits.                                                    *)
THEOREM SplitsComeBack == TreeSpec => []SplitComesBack
  <1>1. SplitComesBack
    BY CanSplitModes, SplitRoundTrip DEF SplitComesBack
  <1> QED BY <1>1, PTL
----------------------------------------------------------------------------
(* Areas that may be CUs *)

Areas == [x : Nat, y : Nat, w : Nat, h : Nat]

(* A number of samples in units of the least CU.                           *)
Whole(n) == \E i \in 0 .. n : n = MinCbSize * i

CuArea(a) ==
    /\ a.w \in BlockSizes /\ a.h \in BlockSizes /\ a.w >= MinCbSize /\ a.h >= MinCbSize
    /\ Whole(a.x) /\ Whole(a.y) /\ a.x + a.w <= CtuSize /\ a.y + a.h <= CtuSize

----------------------------------------------------------------------------
(* Sizes *)

LEMMA Logarithms ==
    /\ FloorLog2(4) = 2 /\ FloorLog2(8) = 3 /\ FloorLog2(16) = 4 /\ FloorLog2(32) = 5
    /\ FloorLog2(64) = 6 /\ FloorLog2(128) = 7 /\ FloorLog2(256) = 8
  <1>1. 2 ^ 2 = 4 /\ 2 ^ 3 = 8 /\ 2 ^ 4 = 16 /\ 2 ^ 5 = 32 /\ 2 ^ 6 = 64 /\ 2 ^ 7 = 128 /\ 2 ^ 8 = 256
    OBVIOUS
  <1> QED BY <1>1 DEF FloorLog2

(* A block larger than the least CU is halved, one twice as large is       *)
(* quartered, into blocks.                                                 *)
LEMMA Halved ==
    ASSUME NEW n \in BlockSizes, n > MinCbSize
    PROVE  LET m == n \div 2
           IN  /\ m \in BlockSizes /\ m >= MinCbSize /\ n = 2 * m /\ m \in Nat /\ n \in Nat
               /\ (n * 0) \div 4 = 0 /\ (n * 2) \div 4 = m /\ (n * 4) \div 4 = n
               /\ FloorLog2(n) = FloorLog2(m) + 1 /\ FloorLog2(m) \in Nat
  BY TreeAssumption, Logarithms DEF BlockSizes

LEMMA Quartered ==
    ASSUME NEW n \in BlockSizes, n > 2 * MinCbSize
    PROVE  LET m == n \div 4
           IN  /\ m \in BlockSizes /\ m >= MinCbSize /\ n = 4 * m /\ m \in Nat /\ n \in Nat
               /\ (n * 0) \div 4 = 0 /\ (n * 1) \div 4 = m /\ (n * 2) \div 4 = 2 * m
               /\ (n * 3) \div 4 = 3 * m /\ (n * 4) \div 4 = n /\ 2 * m \in BlockSizes
               /\ FloorLog2(n) = FloorLog2(m) + 2 /\ FloorLog2(n) = FloorLog2(2 * m) + 1
               /\ FloorLog2(m) \in Nat
  BY TreeAssumption, Logarithms DEF BlockSizes

LEMMA BlockType ==
    ASSUME NEW n \in BlockSizes
    PROVE  /\ n \in Nat /\ n > 0 /\ FloorLog2(n) \in Nat /\ FloorLog2(n) <= 8
           /\ (n * 0) \div 4 = 0 /\ (n * 4) \div 4 = n
           /\ n >= MinCbSize => Whole(n)
  <1>1. /\ n \in Nat /\ n > 0 /\ FloorLog2(n) \in Nat /\ FloorLog2(n) <= 8
        /\ (n * 0) \div 4 = 0 /\ (n * 4) \div 4 = n
    BY Logarithms DEF BlockSizes
  <1>2. ASSUME n >= MinCbSize PROVE Whole(n)
    <2>1. \E i \in {1, 2, 4, 8, 16, 32, 64} : n = MinCbSize * i
      BY <1>2, TreeAssumption DEF BlockSizes
    <2>2. MinCbSize \in BlockSizes BY TreeAssumption
    <2>3. PICK i \in {1, 2, 4, 8, 16, 32, 64} : n = MinCbSize * i BY <2>1
    <2>4. i \in 0 .. n BY <2>2, <2>3 DEF BlockSizes
    <2> QED BY <2>3, <2>4 DEF Whole
  <1> QED BY <1>1, <1>2

LEMMA WholeSum ==
    ASSUME NEW m \in Nat, NEW n \in Nat, Whole(m), Whole(n)
    PROVE  Whole(m + n)
  <1>1. PICK i \in 0 .. m : m = MinCbSize * i BY DEF Whole
  <1>2. PICK j \in 0 .. n : n = MinCbSize * j BY DEF Whole
  <1>3. i \in Nat /\ j \in Nat BY <1>1, <1>2
  <1>4. MinCbSize \in Nat BY TreeAssumption DEF BlockSizes
  <1>5. m + n = MinCbSize * (i + j) BY <1>1, <1>2, <1>3, <1>4
  <1>6. i + j \in 0 .. m + n BY <1>1, <1>2
  <1> QED BY <1>5, <1>6 DEF Whole

(* A border inside a block lies between two blocks of the least size.      *)
LEMMA BorderInside ==
    ASSUME NEW x \in Nat, NEW e \in Nat, NEW n \in BlockSizes,
           Whole(x), Whole(e), n >= MinCbSize, x < e, e < x + n
    PROVE  n > MinCbSize
  <1>1. PICK i \in 0 .. x : x = MinCbSize * i BY DEF Whole
  <1>2. PICK j \in 0 .. e : e = MinCbSize * j BY DEF Whole
  <1>3. MinCbSize \in BlockSizes BY TreeAssumption
  <1>4. i \in Nat /\ j \in Nat BY <1>1, <1>2
  <1>5. ~(MinCbSize * i < MinCbSize * j /\ MinCbSize * j < MinCbSize * i + MinCbSize)
    BY <1>3, <1>4 DEF BlockSizes
  <1> QED BY <1>1, <1>2, <1>3, <1>5 DEF BlockSizes

LEMMA ExtentType ==
    ASSUME NEW e \in Extents
    PROVE  e \in Nat /\ e > 0 /\ Whole(e) /\ e <= CtuSize
  <1>1. e \in 1 .. CtuSize /\ e % MinCbSize = 0 /\ CtuSize \in Nat /\ MinCbSize \in BlockSizes
    BY TreeAssumption
  <1>2. e = MinCbSize * (e \div MinCbSize) /\ e \div MinCbSize \in 0 .. e
    BY <1>1 DEF BlockSizes
  <1> QED BY <1>1, <1>2 DEF Whole

----------------------------------------------------------------------------
(* Parts *)

Points == [x : Nat, y : Nat]

(* The parts of an area tile it, and the first one begins where it does.   *)
Tiles(parts, a) ==
    /\ parts \in Seq(Areas) /\ Len(parts) >= 1
    /\ \A i, j \in DOMAIN parts : i = j \/ Disjoint(parts[i], parts[j])
    /\ \A i \in DOMAIN parts : Inside(parts[i], a)
    /\ \A p \in Points : Covers(a, p) => \E i \in DOMAIN parts : Covers(parts[i], p)
    /\ Pos(parts[1]) = Pos(a)

LEMMA AreaType ==
    ASSUME NEW a \in Areas
    PROVE  /\ a.x \in Nat /\ a.y \in Nat /\ a.w \in Nat /\ a.h \in Nat
           /\ \A p \in Points :
                 Covers(a, p) <=> a.x <= p.x /\ p.x < a.x + a.w /\ a.y <= p.y /\ p.y < a.y + a.h
           /\ \A p \in Points : p.x \in Nat /\ p.y \in Nat
  <1>1. a.x \in Nat /\ a.y \in Nat /\ a.w \in Nat /\ a.h \in Nat BY DEF Areas
  <1>2. \A p \in Points : p.x \in Nat /\ p.y \in Nat BY DEF Points
  <1>3. \A z, n \in Nat, q \in Nat : q \in z .. z + n - 1 <=> z <= q /\ q < z + n OBVIOUS
  <1> QED BY <1>1, <1>2, <1>3 DEF Covers

(* Areas b and c are a, cut across or down.                               *)
Beside(b, c, a) ==
    \/ /\ b.x = a.x /\ c.x = a.x /\ b.w = a.w /\ c.w = a.w
       /\ b.y = a.y /\ c.y = a.y + b.h /\ b.h + c.h = a.h
    \/ /\ b.y = a.y /\ c.y = a.y /\ b.h = a.h /\ c.h = a.h
       /\ b.x = a.x /\ c.x = a.x + b.w /\ b.w + c.w = a.w

LEMMA BesideInside ==
    ASSUME NEW a \in Areas, NEW b \in Areas, NEW c \in Areas, Beside(b, c, a)
    PROVE  /\ Inside(b, a) /\ Inside(c, a) /\ Pos(b) = Pos(a)
           /\ Disjoint(b, c) /\ Disjoint(c, b)
  <1>1. /\ a.x \in Nat /\ a.y \in Nat /\ a.w \in Nat /\ a.h \in Nat
        /\ b.x \in Nat /\ b.y \in Nat /\ b.w \in Nat /\ b.h \in Nat
        /\ c.x \in Nat /\ c.y \in Nat /\ c.w \in Nat /\ c.h \in Nat
    BY AreaType
  <1>2. b.x >= a.x BY <1>1 DEF Beside
  <1>3. b.y >= a.y BY <1>1 DEF Beside
  <1>4. b.x + b.w <= a.x + a.w BY <1>1 DEF Beside
  <1>5. b.y + b.h <= a.y + a.h BY <1>1 DEF Beside
  <1>6. c.x >= a.x BY <1>1 DEF Beside
  <1>7. c.y >= a.y BY <1>1 DEF Beside
  <1>8. c.x + c.w <= a.x + a.w BY <1>1 DEF Beside
  <1>9. c.y + c.h <= a.y + a.h BY <1>1 DEF Beside
  <1>10. b.x + b.w <= c.x \/ b.y + b.h <= c.y BY <1>1 DEF Beside
  <1>11. b.x = a.x /\ b.y = a.y BY DEF Beside
  <1> QED
    BY <1>2, <1>3, <1>4, <1>5, <1>6, <1>7, <1>8, <1>9, <1>10, <1>11 DEF Inside, Disjoint, Pos

LEMMA InsideOneAnother ==
    ASSUME NEW a \in Areas, NEW b \in Areas, NEW c \in Areas, Inside(a, b)
    PROVE  /\ Inside(b, c) => Inside(a, c)
           /\ Disjoint(b, c) => Disjoint(a, c)
           /\ Disjoint(c, b) => Disjoint(c, a)
           /\ \A p \in Points : Covers(a, p) => Covers(b, p)
  <1>1. /\ a.x \in Nat /\ a.y \in Nat /\ a.w \in Nat /\ a.h \in Nat
        /\ b.x \in Nat /\ b.y \in Nat /\ b.w \in Nat /\ b.h \in Nat
        /\ c.x \in Nat /\ c.y \in Nat /\ c.w \in Nat /\ c.h \in Nat
    BY AreaType
  <1>2. Inside(b, c) => Inside(a, c)
    <2> SUFFICES ASSUME Inside(b, c) PROVE Inside(a, c) OBVIOUS
    <2>1. a.x >= c.x BY <1>1 DEF Inside
    <2>2. a.y >= c.y BY <1>1 DEF Inside
    <2>3. a.x + a.w <= c.x + c.w BY <1>1 DEF Inside
    <2>4. a.y + a.h <= c.y + c.h BY <1>1 DEF Inside
    <2> QED BY <2>1, <2>2, <2>3, <2>4 DEF Inside
  <1>3. Disjoint(b, c) => Disjoint(a, c)
    BY <1>1 DEF Inside, Disjoint
  <1>4. Disjoint(c, b) => Disjoint(c, a)
    BY <1>1 DEF Inside, Disjoint
  <1>5. ASSUME NEW p \in Points, Covers(a, p) PROVE Covers(b, p)
    <2>1. p.x \in Nat /\ p.y \in Nat BY AreaType
    <2>2. a.x <= p.x /\ p.x < a.x + a.w /\ a.y <= p.y /\ p.y < a.y + a.h BY <1>5, AreaType
    <2>3. b.x <= p.x BY <1>1, <2>1, <2>2 DEF Inside
    <2>4. b.y <= p.y BY <1>1, <2>1, <2>2 DEF Inside
    <2>5. p.x < b.x + b.w BY <1>1, <2>1, <2>2 DEF Inside
    <2>6. p.y < b.y + b.h BY <1>1, <2>1, <2>2 DEF Inside
    <2> QED BY <2>3, <2>4, <2>5, <2>6, AreaType
  <1> QED BY <1>2, <1>3, <1>4, <1>5

(* Cut in two, b is above or left of c.                                    *)
LEMMA CutInTwo ==
    ASSUME NEW a \in Areas, NEW b \in Areas, NEW c \in Areas, Beside(b, c, a)
    PROVE  Tiles(<<b, c>>, a)
  <1>1. /\ a.x \in Nat /\ a.y \in Nat /\ a.w \in Nat /\ a.h \in Nat
        /\ b.x \in Nat /\ b.y \in Nat /\ b.w \in Nat /\ b.h \in Nat
        /\ c.x \in Nat /\ c.y \in Nat /\ c.w \in Nat /\ c.h \in Nat
    BY AreaType
  <1>2. Disjoint(b, c) /\ Disjoint(c, b) /\ Inside(b, a) /\ Inside(c, a) /\ Pos(b) = Pos(a)
    BY BesideInside
  <1>3. ASSUME NEW p \in Points, Covers(a, p) PROVE Covers(b, p) \/ Covers(c, p)
    <2>1. p.x \in Nat /\ p.y \in Nat BY AreaType
    <2>2. a.x <= p.x /\ p.x < a.x + a.w /\ a.y <= p.y /\ p.y < a.y + a.h BY <1>3, AreaType
    <2>3. Covers(b, p) <=> b.x <= p.x /\ p.x < b.x + b.w /\ b.y <= p.y /\ p.y < b.y + b.h
      BY AreaType
    <2>4. Covers(c, p) <=> c.x <= p.x /\ p.x < c.x + c.w /\ c.y <= p.y /\ p.y < c.y + c.h
      BY AreaType
    <2> QED BY <1>1, <2>1, <2>2, <2>3, <2>4 DEF Beside
  <1> QED BY <1>2, <1>3 DEF Tiles

(* Cutting the second part again.                                          *)
LEMMA CutAgain ==
    ASSUME NEW a \in Areas, NEW b \in Areas, NEW r \in Areas, NEW c \in Areas, NEW d \in Areas,
           Beside(b, r, a), Beside(c, d, r)
    PROVE  Tiles(<<b, c, d>>, a)
  <1>1. /\ Inside(b, a) /\ Inside(r, a) /\ Pos(b) = Pos(a) /\ Disjoint(b, r) /\ Disjoint(r, b)
        /\ Inside(c, r) /\ Inside(d, r) /\ Disjoint(c, d) /\ Disjoint(d, c)
    BY BesideInside
  <1>2. /\ Inside(c, a) /\ Inside(d, a)
        /\ Disjoint(b, c) /\ Disjoint(c, b) /\ Disjoint(b, d) /\ Disjoint(d, b)
    BY <1>1, InsideOneAnother
  <1>3. Tiles(<<b, r>>, a) /\ Tiles(<<c, d>>, r) BY CutInTwo
  <1>4. ASSUME NEW p \in Points, Covers(a, p) PROVE Covers(b, p) \/ Covers(c, p) \/ Covers(d, p)
    <2>1. Covers(b, p) \/ Covers(r, p) BY <1>3, <1>4 DEF Tiles
    <2>2. Covers(r, p) => Covers(c, p) \/ Covers(d, p) BY <1>3 DEF Tiles
    <2> QED BY <2>1, <2>2
  <1> QED BY <1>1, <1>2, <1>4 DEF Tiles

(* Cutting both parts again.                                               *)
LEMMA CutInFour ==
    ASSUME NEW a \in Areas, NEW t \in Areas, NEW u \in Areas,
           NEW b \in Areas, NEW c \in Areas, NEW d \in Areas, NEW e \in Areas,
           Beside(t, u, a), Beside(b, c, t), Beside(d, e, u)
    PROVE  Tiles(<<b, c, d, e>>, a)
  <1>1. Tiles(<<t, u>>, a) /\ Tiles(<<b, c>>, t) /\ Tiles(<<d, e>>, u) BY CutInTwo
  <1>2. /\ Inside(t, a) /\ Inside(u, a) /\ Pos(t) = Pos(a) /\ Disjoint(t, u) /\ Disjoint(u, t)
        /\ Inside(b, t) /\ Inside(c, t) /\ Pos(b) = Pos(t) /\ Disjoint(b, c) /\ Disjoint(c, b)
        /\ Inside(d, u) /\ Inside(e, u) /\ Disjoint(d, e) /\ Disjoint(e, d)
    BY BesideInside
  <1>3. Inside(b, a) /\ Inside(c, a) /\ Inside(d, a) /\ Inside(e, a)
    BY <1>2, InsideOneAnother
  <1>4. /\ Disjoint(b, u) /\ Disjoint(u, b) /\ Disjoint(c, u) /\ Disjoint(u, c)
    BY <1>2, InsideOneAnother
  <1>5. /\ Disjoint(b, d) /\ Disjoint(d, b) /\ Disjoint(b, e) /\ Disjoint(e, b)
        /\ Disjoint(c, d) /\ Disjoint(d, c) /\ Disjoint(c, e) /\ Disjoint(e, c)
    BY <1>2, <1>4, InsideOneAnother
  <1>6. ASSUME NEW p \in Points, Covers(a, p)
        PROVE  Covers(b, p) \/ Covers(c, p) \/ Covers(d, p) \/ Covers(e, p)
    <2>1. Covers(t, p) \/ Covers(u, p)
      <3>1. Tiles(<<t, u>>, a) BY <1>1
      <3> QED BY <3>1, <1>6 DEF Tiles
    <2>2. Covers(t, p) => Covers(b, p) \/ Covers(c, p)
      <3>1. Tiles(<<b, c>>, t) BY <1>1
      <3> QED BY <3>1 DEF Tiles
    <2>3. Covers(u, p) => Covers(d, p) \/ Covers(e, p)
      <3>1. Tiles(<<d, e>>, u) BY <1>1
      <3> QED BY <3>1 DEF Tiles
    <2> QED BY <2>1, <2>2, <2>3
  <1> QED BY <1>2, <1>3, <1>5, <1>6 DEF Tiles
----------------------------------------------------------------------------
(* The parts of each split *)

PartOf(a, q) ==
    [x |-> a.x + (a.w * q[1]) \div 4, y |-> a.y + (a.h * q[2]) \div 4,
     w |-> (a.w * q[3]) \div 4, h |-> (a.h * q[4]) \div 4]

LEMMA Tuples ==
    ASSUME NEW f, NEW n \in 2 .. 4, f = [i \in 1 .. n |-> f[i]]
    PROVE  /\ n = 2 => f = <<f[1], f[2]>>
           /\ n = 3 => f = <<f[1], f[2], f[3]>>
           /\ n = 4 => f = <<f[1], f[2], f[3], f[4]>>
  OBVIOUS

LEMMA PartsOfTwo ==
    ASSUME NEW a, NEW s, NEW p, NEW q, s # "maxTr", Quarters[s] = <<p, q>>
    PROVE  SubParts(a, s) = <<PartOf(a, p), PartOf(a, q)>>
  <1>1. SubParts(a, s) = [i \in DOMAIN Quarters[s] |-> PartOf(a, Quarters[s][i])]
    BY DEF SubParts, PartOf
  <1>2. DOMAIN Quarters[s] = 1 .. 2 /\ Quarters[s][1] = p /\ Quarters[s][2] = q
    OBVIOUS
  <1> DEFINE f == SubParts(a, s)
  <1>3. f = [i \in 1 .. 2 |-> f[i]] /\ f[1] = PartOf(a, p) /\ f[2] = PartOf(a, q)
    <2> DEFINE g == Quarters[s]
    <2>1. f = [i \in 1 .. 2 |-> PartOf(a, g[i])] BY <1>1, <1>2, Zenon
    <2>2. \A i \in 1 .. 2 : f[i] = PartOf(a, g[i])
      <3> HIDE DEF f, g
      <3> QED BY <2>1
    <2>3. f = [i \in 1 .. 2 |-> f[i]]
      <3> HIDE DEF f, g
      <3> QED BY <2>1
    <2> QED BY <1>2, <2>2, <2>3
  <1> HIDE DEF f
  <1>4. f = <<f[1], f[2]>> BY <1>3, Tuples
  <1> QED BY <1>3, <1>4 DEF f

LEMMA PartsOfThree ==
    ASSUME NEW a, NEW s, NEW p, NEW q, NEW r, s # "maxTr", Quarters[s] = <<p, q, r>>
    PROVE  SubParts(a, s) = <<PartOf(a, p), PartOf(a, q), PartOf(a, r)>>
  <1>1. SubParts(a, s) = [i \in DOMAIN Quarters[s] |-> PartOf(a, Quarters[s][i])]
    BY DEF SubParts, PartOf
  <1>2. /\ DOMAIN Quarters[s] = 1 .. 3
        /\ Quarters[s][1] = p /\ Quarters[s][2] = q /\ Quarters[s][3] = r
    OBVIOUS
  <1> DEFINE f == SubParts(a, s)
  <1>3. /\ f = [i \in 1 .. 3 |-> f[i]]
        /\ f[1] = PartOf(a, p) /\ f[2] = PartOf(a, q) /\ f[3] = PartOf(a, r)
    <2> DEFINE g == Quarters[s]
    <2>1. f = [i \in 1 .. 3 |-> PartOf(a, g[i])] BY <1>1, <1>2, Zenon
    <2>2. \A i \in 1 .. 3 : f[i] = PartOf(a, g[i])
      <3> HIDE DEF f, g
      <3> QED BY <2>1
    <2>3. f = [i \in 1 .. 3 |-> f[i]]
      <3> HIDE DEF f, g
      <3> QED BY <2>1
    <2> QED BY <1>2, <2>2, <2>3
  <1> HIDE DEF f
  <1>4. f = <<f[1], f[2], f[3]>> BY <1>3, Tuples
  <1> QED BY <1>3, <1>4 DEF f

LEMMA PartsOfFour ==
    ASSUME NEW a, NEW s, NEW p, NEW q, NEW r, NEW t, s # "maxTr", Quarters[s] = <<p, q, r, t>>
    PROVE  SubParts(a, s) = <<PartOf(a, p), PartOf(a, q), PartOf(a, r), PartOf(a, t)>>
  <1>1. SubParts(a, s) = [i \in DOMAIN Quarters[s] |-> PartOf(a, Quarters[s][i])]
    BY DEF SubParts, PartOf
  <1>2. /\ DOMAIN Quarters[s] = 1 .. 4 /\ Quarters[s][1] = p /\ Quarters[s][2] = q
        /\ Quarters[s][3] = r /\ Quarters[s][4] = t
    OBVIOUS
  <1> DEFINE f == SubParts(a, s)
  <1>3. /\ f = [i \in 1 .. 4 |-> f[i]]
        /\ f[1] = PartOf(a, p) /\ f[2] = PartOf(a, q)
        /\ f[3] = PartOf(a, r) /\ f[4] = PartOf(a, t)
    <2> DEFINE g == Quarters[s]
    <2>1. f = [i \in 1 .. 4 |-> PartOf(a, g[i])] BY <1>1, <1>2, Zenon
    <2>2. \A i \in 1 .. 4 : f[i] = PartOf(a, g[i])
      <3> HIDE DEF f, g
      <3> QED BY <2>1
    <2>3. f = [i \in 1 .. 4 |-> f[i]]
      <3> HIDE DEF f, g
      <3> QED BY <2>1
    <2> QED BY <1>2, <2>2, <2>3
  <1> HIDE DEF f
  <1>4. f = <<f[1], f[2], f[3], f[4]>> BY <1>3, Tuples
  <1> QED BY <1>3, <1>4 DEF f

IsPart(b, a, i, j, k, l) ==
    /\ b \in Areas
    /\ b.x = a.x + (a.w * i) \div 4 /\ b.y = a.y + (a.h * j) \div 4
    /\ b.w = (a.w * k) \div 4 /\ b.h = (a.h * l) \div 4

LEMMA PartFields ==
    ASSUME NEW a \in Areas, NEW i \in 0 .. 4, NEW j \in 0 .. 4, NEW k \in 0 .. 4, NEW l \in 0 .. 4
    PROVE  IsPart(PartOf(a, <<i, j, k, l>>), a, i, j, k, l)
  <1>1. a.x \in Nat /\ a.y \in Nat /\ a.w \in Nat /\ a.h \in Nat BY AreaType
  <1>2. \A n \in Nat, m \in 0 .. 4 : (n * m) \div 4 \in Nat OBVIOUS
  <1>3. PartOf(a, <<i, j, k, l>>) =
            [x |-> a.x + (a.w * i) \div 4, y |-> a.y + (a.h * j) \div 4,
             w |-> (a.w * k) \div 4, h |-> (a.h * l) \div 4]
    BY DEF PartOf
  <1>4. /\ (a.w * i) \div 4 \in Nat /\ (a.h * j) \div 4 \in Nat
        /\ (a.w * k) \div 4 \in Nat /\ (a.h * l) \div 4 \in Nat
    BY <1>1, <1>2
  <1>5. /\ a.x + (a.w * i) \div 4 \in Nat /\ a.y + (a.h * j) \div 4 \in Nat
    <2>1. \A m, n \in Nat : m + n \in Nat OBVIOUS
    <2> QED BY <1>1, <1>4, <2>1, Zenon
  <1> DEFINE b1 == a.x + (a.w * i) \div 4
             b2 == a.y + (a.h * j) \div 4
             b3 == (a.w * k) \div 4
             b4 == (a.h * l) \div 4
             b == PartOf(a, <<i, j, k, l>>)
  <1>6. b = [x |-> b1, y |-> b2, w |-> b3, h |-> b4] /\ b1 \in Nat /\ b2 \in Nat
        /\ b3 \in Nat /\ b4 \in Nat
    BY <1>3, <1>4, <1>5
  <1> HIDE DEF b, b1, b2, b3, b4
  <1>7. b \in Areas /\ b.x = b1 /\ b.y = b2 /\ b.w = b3 /\ b.h = b4 BY <1>6 DEF Areas
  <1> QED BY <1>7 DEF b, b1, b2, b3, b4, IsPart

LEMMA PartAtBorder ==
    ASSUME NEW a \in Areas, NEW b, NEW i, NEW j, NEW k, NEW l, IsPart(b, a, i, j, k, l)
    PROVE  (i = 0 => b.x = a.x) /\ (j = 0 => b.y = a.y)
  <1>1. a.x \in Nat /\ a.y \in Nat /\ a.w \in Nat /\ a.h \in Nat BY AreaType
  <1>2. \A n \in Nat : (n * 0) \div 4 = 0 OBVIOUS
  <1>3. \A n \in Nat : n + 0 = n OBVIOUS
  <1>4. ASSUME i = 0 PROVE b.x = a.x
    <2>1. b.x = a.x + (a.w * 0) \div 4 BY <1>4 DEF IsPart
    <2> QED BY <1>1, <1>2, <1>3, <2>1, Zenon
  <1>5. ASSUME j = 0 PROVE b.y = a.y
    <2>1. b.y = a.y + (a.h * 0) \div 4 BY <1>5 DEF IsPart
    <2> QED BY <1>1, <1>2, <1>3, <2>1, Zenon
  <1> QED BY <1>4, <1>5

(* The splits that leave areas which may be CUs.                           *)
Splittable(a, s) ==
    /\ s = "quad" => a.w = a.h /\ a.w > MinCbSize
    /\ s = "horz" => a.h > MinCbSize
    /\ s = "vert" => a.w > MinCbSize
    /\ s = "trih" => a.h > 2 * MinCbSize
    /\ s = "triv" => a.w > 2 * MinCbSize

NumParts(s) == IF s = "quad" THEN 4 ELSE IF s \in TtSplits THEN 3 ELSE 2

(* What a part of an area that may be a CU has to fulfil to be one.        *)
LEMMA PartIsCuArea ==
    ASSUME NEW a \in Areas, NEW b \in Areas, CuArea(a), Inside(b, a),
           b.w \in BlockSizes, b.h \in BlockSizes, b.w >= MinCbSize, b.h >= MinCbSize,
           Whole(b.x), Whole(b.y)
    PROVE  CuArea(b)
  <1>1. /\ a.x \in Nat /\ a.y \in Nat /\ a.w \in Nat /\ a.h \in Nat
        /\ b.x \in Nat /\ b.y \in Nat /\ b.w \in Nat /\ b.h \in Nat
    BY AreaType
  <1>2. CtuSize \in Nat /\ a.x + a.w <= CtuSize /\ a.y + a.h <= CtuSize
    BY TreeAssumption DEF CuArea
  <1>3. b.x + b.w <= CtuSize BY <1>1, <1>2 DEF Inside
  <1>4. b.y + b.h <= CtuSize BY <1>1, <1>2 DEF Inside
  <1> QED BY <1>3, <1>4 DEF CuArea

(* The parts of a split: areas that may be CUs, at most half as large.     *)
PartsAreCuAreas(parts, a) ==
    \A k \in DOMAIN parts :
        /\ CuArea(parts[k])
        /\ FloorLog2(parts[k].w) + FloorLog2(parts[k].h) + 1 <= FloorLog2(a.w) + FloorLog2(a.h)

LEMMA QuartersOfCuSplits ==
    /\ Quarters["quad"] = <<<<0, 0, 2, 2>>, <<2, 0, 2, 2>>, <<0, 2, 2, 2>>, <<2, 2, 2, 2>>>>
    /\ Quarters["horz"] = <<<<0, 0, 4, 2>>, <<0, 2, 4, 2>>>>
    /\ Quarters["vert"] = <<<<0, 0, 2, 4>>, <<2, 0, 2, 4>>>>
    /\ Quarters["trih"] = <<<<0, 0, 4, 1>>, <<0, 1, 4, 2>>, <<0, 3, 4, 1>>>>
    /\ Quarters["triv"] = <<<<0, 0, 1, 4>>, <<1, 0, 2, 4>>, <<3, 0, 1, 4>>>>
  BY DEF Quarters

LEMMA QuartersOfSbtSplits ==
    /\ Quarters["sbtVerHalf"] = <<<<0, 0, 2, 4>>, <<2, 0, 2, 4>>>>
    /\ Quarters["sbtHorHalf"] = <<<<0, 0, 4, 2>>, <<0, 2, 4, 2>>>>
    /\ Quarters["sbtVerQuad0"] = <<<<0, 0, 1, 4>>, <<1, 0, 3, 4>>>>
    /\ Quarters["sbtVerQuad1"] = <<<<0, 0, 3, 4>>, <<3, 0, 1, 4>>>>
    /\ Quarters["sbtHorQuad0"] = <<<<0, 0, 4, 1>>, <<0, 1, 4, 3>>>>
    /\ Quarters["sbtHorQuad1"] = <<<<0, 0, 4, 3>>, <<0, 3, 4, 1>>>>
  BY DEF Quarters

LEMMA QuarterNumbers == 0 \in 0 .. 4 /\ 1 \in 0 .. 4 /\ 2 \in 0 .. 4 /\ 3 \in 0 .. 4 /\ 4 \in 0 .. 4
  OBVIOUS

LEMMA TwoParts ==
    ASSUME NEW a \in Areas, CuArea(a), NEW s \in BtSplits, Splittable(a, s)
    PROVE  /\ Tiles(SubParts(a, s), a) /\ Len(SubParts(a, s)) = 2
           /\ PartsAreCuAreas(SubParts(a, s), a)
  <1> DEFINE p == IF s = "horz" THEN <<0, 0, 4, 2>> ELSE <<0, 0, 2, 4>>
             q == IF s = "horz" THEN <<0, 2, 4, 2>> ELSE <<2, 0, 2, 4>>
             b == PartOf(a, p)
             c == PartOf(a, q)
  <1>1. SubParts(a, s) = <<b, c>>
    <2>1. s # "maxTr" /\ Quarters[s] = <<p, q>> BY QuartersOfCuSplits DEF BtSplits
    <2> HIDE DEF p, q
    <2> QED BY <2>1, PartsOfTwo
  <1>2. /\ a.x \in Nat /\ a.y \in Nat /\ a.w \in BlockSizes /\ a.h \in BlockSizes
        /\ Whole(a.x) /\ Whole(a.y) /\ a.w >= MinCbSize /\ a.h >= MinCbSize
    BY AreaType DEF CuArea
  <1>3. s = "horz" => a.h > MinCbSize BY DEF Splittable
  <1>4. s = "vert" => a.w > MinCbSize BY DEF Splittable
  <1>5. /\ (a.w * 0) \div 4 = 0 /\ (a.w * 4) \div 4 = a.w /\ a.w \in Nat /\ FloorLog2(a.w) \in Nat
        /\ (a.h * 0) \div 4 = 0 /\ (a.h * 4) \div 4 = a.h /\ a.h \in Nat /\ FloorLog2(a.h) \in Nat
    BY <1>2, BlockType
  <1>6. /\ b \in Areas /\ c \in Areas /\ Beside(b, c, a)
        /\ b.w \in BlockSizes /\ b.h \in BlockSizes /\ b.w >= MinCbSize /\ b.h >= MinCbSize
        /\ c.w \in BlockSizes /\ c.h \in BlockSizes /\ c.w >= MinCbSize /\ c.h >= MinCbSize
        /\ FloorLog2(b.w) + FloorLog2(b.h) + 1 = FloorLog2(a.w) + FloorLog2(a.h)
        /\ FloorLog2(c.w) + FloorLog2(c.h) + 1 = FloorLog2(a.w) + FloorLog2(a.h)
        /\ Whole(b.x) /\ Whole(b.y) /\ Whole(c.x) /\ Whole(c.y)
    <2>1. CASE s = "horz"
      <3> DEFINE m == a.h \div 2
      <3>1. /\ m \in BlockSizes /\ m >= MinCbSize /\ a.h = 2 * m /\ m \in Nat
            /\ (a.h * 2) \div 4 = m
            /\ FloorLog2(a.h) = FloorLog2(m) + 1 /\ FloorLog2(m) \in Nat
        BY <1>2, <1>3, <2>1, Halved
      <3>2. IsPart(b, a, 0, 0, 4, 2) /\ IsPart(c, a, 0, 2, 4, 2)
        <4>1. IsPart(PartOf(a, <<0, 0, 4, 2>>), a, 0, 0, 4, 2) BY PartFields, QuarterNumbers
        <4>2. IsPart(PartOf(a, <<0, 2, 4, 2>>), a, 0, 2, 4, 2) BY PartFields, QuarterNumbers
        <4> QED BY <2>1, <4>1, <4>2
      <3> HIDE DEF b, c, m
      <3>3. /\ b \in Areas /\ b.x = a.x + (a.w * 0) \div 4 /\ b.y = a.y + (a.h * 0) \div 4
            /\ b.w = (a.w * 4) \div 4 /\ b.h = (a.h * 2) \div 4
        BY <3>2 DEF IsPart
      <3>4. /\ c \in Areas /\ c.x = a.x + (a.w * 0) \div 4 /\ c.y = a.y + (a.h * 2) \div 4
            /\ c.w = (a.w * 4) \div 4 /\ c.h = (a.h * 2) \div 4
        BY <3>2 DEF IsPart
      <3>5. b.x = a.x /\ b.y = a.y /\ b.w = a.w /\ b.h = m BY <1>2, <1>5, <3>1, <3>3
      <3>6. c.x = a.x /\ c.y = a.y + m /\ c.w = a.w /\ c.h = m BY <1>2, <1>5, <3>1, <3>4
      <3>7. Whole(m) BY <3>1, BlockType
      <3>8. Whole(a.y + m) BY <1>2, <3>1, <3>7, WholeSum
      <3>9. Beside(b, c, a) BY <1>5, <3>1, <3>5, <3>6 DEF Beside
      <3> QED BY <1>2, <1>5, <3>1, <3>3, <3>4, <3>5, <3>6, <3>8, <3>9
    <2>2. CASE s = "vert"
      <3> DEFINE m == a.w \div 2
      <3>1. /\ m \in BlockSizes /\ m >= MinCbSize /\ a.w = 2 * m /\ m \in Nat
            /\ (a.w * 2) \div 4 = m
            /\ FloorLog2(a.w) = FloorLog2(m) + 1 /\ FloorLog2(m) \in Nat
        BY <1>2, <1>4, <2>2, Halved
      <3>2. IsPart(b, a, 0, 0, 2, 4) /\ IsPart(c, a, 2, 0, 2, 4)
        <4>1. IsPart(PartOf(a, <<0, 0, 2, 4>>), a, 0, 0, 2, 4) BY PartFields, QuarterNumbers
        <4>2. IsPart(PartOf(a, <<2, 0, 2, 4>>), a, 2, 0, 2, 4) BY PartFields, QuarterNumbers
        <4> QED BY <2>2, <4>1, <4>2
      <3> HIDE DEF b, c, m
      <3>3. /\ b \in Areas /\ b.x = a.x + (a.w * 0) \div 4 /\ b.y = a.y + (a.h * 0) \div 4
            /\ b.w = (a.w * 2) \div 4 /\ b.h = (a.h * 4) \div 4
        BY <3>2 DEF IsPart
      <3>4. /\ c \in Areas /\ c.x = a.x + (a.w * 2) \div 4 /\ c.y = a.y + (a.h * 0) \div 4
            /\ c.w = (a.w * 2) \div 4 /\ c.h = (a.h * 4) \div 4
        BY <3>2 DEF IsPart
      <3>5. b.x = a.x /\ b.y = a.y /\ b.w = m /\ b.h = a.h BY <1>2, <1>5, <3>1, <3>3
      <3>6. c.x = a.x + m /\ c.y = a.y /\ c.w = m /\ c.h = a.h BY <1>2, <1>5, <3>1, <3>4
      <3>7. Whole(m) BY <3>1, BlockType
      <3>8. Whole(a.x + m) BY <1>2, <3>1, <3>7, WholeSum
      <3>9. Beside(b, c, a) BY <1>5, <3>1, <3>5, <3>6 DEF Beside
      <3> QED BY <1>2, <1>5, <3>1, <3>3, <3>4, <3>5, <3>6, <3>8, <3>9
    <2> QED BY <2>1, <2>2 DEF BtSplits
  <1> HIDE DEF b, c
  <1>7. Tiles(<<b, c>>, a) /\ Inside(b, a) /\ Inside(c, a) BY <1>6, CutInTwo, BesideInside
  <1>8. CuArea(b) /\ CuArea(c) BY <1>6, <1>7, PartIsCuArea
  <1>9. PartsAreCuAreas(<<b, c>>, a)
    <2>1. /\ FloorLog2(b.w) + FloorLog2(b.h) + 1 <= FloorLog2(a.w) + FloorLog2(a.h)
          /\ FloorLog2(c.w) + FloorLog2(c.h) + 1 <= FloorLog2(a.w) + FloorLog2(a.h)
      BY <1>5, <1>6
    <2>2. /\ DOMAIN <<b, c>> = {1, 2} /\ <<b, c>>[1] = b /\ <<b, c>>[2] = c OBVIOUS
    <2> HIDE DEF FloorLog2
    <2> QED BY <1>8, <2>1, <2>2, Zenon DEF PartsAreCuAreas
  <1> QED BY <1>1, <1>7, <1>9

LEMMA ThreeParts ==
    ASSUME NEW a \in Areas, CuArea(a), NEW s \in TtSplits, Splittable(a, s)
    PROVE  /\ Tiles(SubParts(a, s), a) /\ Len(SubParts(a, s)) = 3
           /\ PartsAreCuAreas(SubParts(a, s), a)
  <1> DEFINE p == IF s = "trih" THEN <<0, 0, 4, 1>> ELSE <<0, 0, 1, 4>>
             q == IF s = "trih" THEN <<0, 1, 4, 2>> ELSE <<1, 0, 2, 4>>
             o == IF s = "trih" THEN <<0, 3, 4, 1>> ELSE <<3, 0, 1, 4>>
             b == PartOf(a, p)
             c == PartOf(a, q)
             d == PartOf(a, o)
  <1>1. SubParts(a, s) = <<b, c, d>>
    <2>1. s # "maxTr" /\ Quarters[s] = <<p, q, o>> BY QuartersOfCuSplits DEF TtSplits
    <2> HIDE DEF p, q, o
    <2> QED BY <2>1, PartsOfThree
  <1>2. /\ a.x \in Nat /\ a.y \in Nat /\ a.w \in BlockSizes /\ a.h \in BlockSizes
        /\ Whole(a.x) /\ Whole(a.y) /\ a.w >= MinCbSize /\ a.h >= MinCbSize
    BY AreaType DEF CuArea
  <1>3. s = "trih" => a.h > 2 * MinCbSize BY DEF Splittable
  <1>4. s = "triv" => a.w > 2 * MinCbSize BY DEF Splittable
  <1>5. /\ (a.w * 0) \div 4 = 0 /\ (a.w * 4) \div 4 = a.w /\ a.w \in Nat /\ FloorLog2(a.w) \in Nat
        /\ (a.h * 0) \div 4 = 0 /\ (a.h * 4) \div 4 = a.h /\ a.h \in Nat /\ FloorLog2(a.h) \in Nat
    BY <1>2, BlockType
  <1>6. /\ b \in Areas /\ c \in Areas /\ d \in Areas /\ Tiles(<<b, c, d>>, a)
        /\ b.w \in BlockSizes /\ b.h \in BlockSizes /\ b.w >= MinCbSize /\ b.h >= MinCbSize
        /\ c.w \in BlockSizes /\ c.h \in BlockSizes /\ c.w >= MinCbSize /\ c.h >= MinCbSize
        /\ d.w \in BlockSizes /\ d.h \in BlockSizes /\ d.w >= MinCbSize /\ d.h >= MinCbSize
        /\ FloorLog2(b.w) + FloorLog2(b.h) + 1 <= FloorLog2(a.w) + FloorLog2(a.h)
        /\ FloorLog2(c.w) + FloorLog2(c.h) + 1 <= FloorLog2(a.w) + FloorLog2(a.h)
        /\ FloorLog2(d.w) + FloorLog2(d.h) + 1 <= FloorLog2(a.w) + FloorLog2(a.h)
        /\ Whole(b.x) /\ Whole(b.y) /\ Whole(c.x) /\ Whole(c.y) /\ Whole(d.x) /\ Whole(d.y)
    <2>1. CASE s = "trih"
      <3> DEFINE m == a.h \div 4
                 r == [x |-> a.x, y |-> a.y + m, w |-> a.w, h |-> 3 * m]
      <3>1. /\ m \in BlockSizes /\ m >= MinCbSize /\ a.h = 4 * m /\ m \in Nat
            /\ (a.h * 1) \div 4 = m /\ (a.h * 2) \div 4 = 2 * m /\ (a.h * 3) \div 4 = 3 * m
            /\ 2 * m \in BlockSizes
            /\ FloorLog2(a.h) = FloorLog2(m) + 2 /\ FloorLog2(m) \in Nat
            /\ FloorLog2(a.h) = FloorLog2(2 * m) + 1
        BY <1>2, <1>3, <2>1, Quartered
      <3>2. IsPart(b, a, 0, 0, 4, 1) /\ IsPart(c, a, 0, 1, 4, 2) /\ IsPart(d, a, 0, 3, 4, 1)
        <4>1. IsPart(PartOf(a, <<0, 0, 4, 1>>), a, 0, 0, 4, 1) BY PartFields, QuarterNumbers
        <4>2. IsPart(PartOf(a, <<0, 1, 4, 2>>), a, 0, 1, 4, 2) BY PartFields, QuarterNumbers
        <4>3. IsPart(PartOf(a, <<0, 3, 4, 1>>), a, 0, 3, 4, 1) BY PartFields, QuarterNumbers
        <4> QED BY <2>1, <4>1, <4>2, <4>3
      <3> HIDE DEF b, c, d, m
      <3>3. r \in Areas /\ r.x = a.x /\ r.y = a.y + m /\ r.w = a.w /\ r.h = 3 * m
        BY <1>2, <1>5, <3>1 DEF Areas
      <3> HIDE DEF r
      <3>4. /\ b \in Areas /\ b.x = a.x + (a.w * 0) \div 4 /\ b.y = a.y + (a.h * 0) \div 4
            /\ b.w = (a.w * 4) \div 4 /\ b.h = (a.h * 1) \div 4
        BY <3>2 DEF IsPart
      <3>5. /\ c \in Areas /\ c.x = a.x + (a.w * 0) \div 4 /\ c.y = a.y + (a.h * 1) \div 4
            /\ c.w = (a.w * 4) \div 4 /\ c.h = (a.h * 2) \div 4
        BY <3>2 DEF IsPart
      <3>6. /\ d \in Areas /\ d.x = a.x + (a.w * 0) \div 4 /\ d.y = a.y + (a.h * 3) \div 4
            /\ d.w = (a.w * 4) \div 4 /\ d.h = (a.h * 1) \div 4
        BY <3>2 DEF IsPart
      <3>7. b.x = a.x /\ b.y = a.y /\ b.w = a.w /\ b.h = m
        BY <1>2, <1>5, <3>1, <3>4
      <3>8. c.x = a.x /\ c.y = a.y + m /\ c.w = a.w /\ c.h = 2 * m
        BY <1>2, <1>5, <3>1, <3>5
      <3>9. d.x = a.x /\ d.y = a.y + 3 * m /\ d.w = a.w /\ d.h = m
        BY <1>2, <1>5, <3>1, <3>6
      <3>10. Whole(m) /\ Whole(2 * m) /\ 2 * m >= MinCbSize /\ 2 * m \in Nat
        <4>1. 2 * m >= MinCbSize /\ 2 * m \in Nat
          <5>1. MinCbSize \in Nat BY TreeAssumption DEF BlockSizes
          <5> QED BY <3>1, <5>1
        <4> QED BY <3>1, <4>1, BlockType
      <3>11. Whole(a.y + m) BY <1>2, <3>1, <3>10, WholeSum
      <3>12. Whole((a.y + m) + 2 * m)
        <4>1. a.y + m \in Nat BY <1>2, <3>1
        <4> QED BY <3>10, <3>11, <4>1, WholeSum
      <3>13. (a.y + m) + 2 * m = a.y + 3 * m BY <1>2, <3>1
      <3>14. Beside(b, r, a) BY <1>2, <1>5, <3>1, <3>3, <3>7 DEF Beside
      <3>15. Beside(c, d, r)
        <4>1. c.y = r.y /\ d.y = r.y + c.h /\ c.h + d.h = r.h
          BY <1>2, <3>1, <3>3, <3>8, <3>9
        <4> QED BY <3>3, <3>8, <3>9, <4>1 DEF Beside
      <3>16. Whole(b.x) /\ Whole(b.y) /\ Whole(c.x) /\ Whole(c.y) /\ Whole(d.x) /\ Whole(d.y)
        <4>1. Whole(a.y + 3 * m) BY <3>12, <3>13
        <4> QED BY <1>2, <3>7, <3>8, <3>9, <3>11, <4>1
      <3>17. /\ b.w \in BlockSizes /\ b.h \in BlockSizes /\ b.w >= MinCbSize /\ b.h >= MinCbSize
             /\ c.w \in BlockSizes /\ c.h \in BlockSizes /\ c.w >= MinCbSize /\ c.h >= MinCbSize
             /\ d.w \in BlockSizes /\ d.h \in BlockSizes /\ d.w >= MinCbSize /\ d.h >= MinCbSize
        BY <1>2, <3>1, <3>7, <3>8, <3>9, <3>10
      <3>18. /\ FloorLog2(b.w) + FloorLog2(b.h) + 1 <= FloorLog2(a.w) + FloorLog2(a.h)
             /\ FloorLog2(c.w) + FloorLog2(c.h) + 1 <= FloorLog2(a.w) + FloorLog2(a.h)
             /\ FloorLog2(d.w) + FloorLog2(d.h) + 1 <= FloorLog2(a.w) + FloorLog2(a.h)
        <4>1. FloorLog2(2 * m) \in Nat BY <3>1, BlockType
        <4>2. FloorLog2(a.h) = FloorLog2(m) + 2 /\ FloorLog2(a.h) = FloorLog2(2 * m) + 1 BY <3>1
        <4>3. FloorLog2(b.h) = FloorLog2(m) /\ FloorLog2(c.h) = FloorLog2(2 * m)
              /\ FloorLog2(d.h) = FloorLog2(m)
          BY <3>7, <3>8, <3>9
        <4>4. FloorLog2(b.w) = FloorLog2(a.w) /\ FloorLog2(c.w) = FloorLog2(a.w)
              /\ FloorLog2(d.w) = FloorLog2(a.w)
          BY <3>7, <3>8, <3>9
        <4>5. FloorLog2(m) \in Nat BY <3>1
        <4> HIDE DEF FloorLog2
        <4> QED BY <1>5, <4>1, <4>2, <4>3, <4>4, <4>5
      <3>19. Tiles(<<b, c, d>>, a) BY <3>3, <3>4, <3>5, <3>6, <3>14, <3>15, CutAgain
      <3> QED BY <3>4, <3>5, <3>6, <3>16, <3>17, <3>18, <3>19
    <2>2. CASE s = "triv"
      <3> DEFINE m == a.w \div 4
                 r == [x |-> a.x + m, y |-> a.y, w |-> 3 * m, h |-> a.h]
      <3>1. /\ m \in BlockSizes /\ m >= MinCbSize /\ a.w = 4 * m /\ m \in Nat
            /\ (a.w * 1) \div 4 = m /\ (a.w * 2) \div 4 = 2 * m /\ (a.w * 3) \div 4 = 3 * m
            /\ 2 * m \in BlockSizes
            /\ FloorLog2(a.w) = FloorLog2(m) + 2 /\ FloorLog2(m) \in Nat
            /\ FloorLog2(a.w) = FloorLog2(2 * m) + 1
        BY <1>2, <1>4, <2>2, Quartered
      <3>2. IsPart(b, a, 0, 0, 1, 4) /\ IsPart(c, a, 1, 0, 2, 4) /\ IsPart(d, a, 3, 0, 1, 4)
        <4>1. IsPart(PartOf(a, <<0, 0, 1, 4>>), a, 0, 0, 1, 4) BY PartFields, QuarterNumbers
        <4>2. IsPart(PartOf(a, <<1, 0, 2, 4>>), a, 1, 0, 2, 4) BY PartFields, QuarterNumbers
        <4>3. IsPart(PartOf(a, <<3, 0, 1, 4>>), a, 3, 0, 1, 4) BY PartFields, QuarterNumbers
        <4> QED BY <2>2, <4>1, <4>2, <4>3
      <3> HIDE DEF b, c, d, m
      <3>3. r \in Areas /\ r.y = a.y /\ r.x = a.x + m /\ r.h = a.h /\ r.w = 3 * m
        BY <1>2, <1>5, <3>1 DEF Areas
      <3> HIDE DEF r
      <3>4. /\ b \in Areas /\ b.x = a.x + (a.w * 0) \div 4 /\ b.y = a.y + (a.h * 0) \div 4
            /\ b.w = (a.w * 1) \div 4 /\ b.h = (a.h * 4) \div 4
        BY <3>2 DEF IsPart
      <3>5. /\ c \in Areas /\ c.x = a.x + (a.w * 1) \div 4 /\ c.y = a.y + (a.h * 0) \div 4
            /\ c.w = (a.w * 2) \div 4 /\ c.h = (a.h * 4) \div 4
        BY <3>2 DEF IsPart
      <3>6. /\ d \in Areas /\ d.x = a.x + (a.w * 3) \div 4 /\ d.y = a.y + (a.h * 0) \div 4
            /\ d.w = (a.w * 1) \div 4 /\ d.h = (a.h * 4) \div 4
        BY <3>2 DEF IsPart
      <3>7. b.y = a.y /\ b.x = a.x /\ b.h = a.h /\ b.w = m
        BY <1>2, <1>5, <3>1, <3>4
      <3>8. c.y = a.y /\ c.x = a.x + m /\ c.h = a.h /\ c.w = 2 * m
        BY <1>2, <1>5, <3>1, <3>5
      <3>9. d.y = a.y /\ d.x = a.x + 3 * m /\ d.h = a.h /\ d.w = m
        BY <1>2, <1>5, <3>1, <3>6
      <3>10. Whole(m) /\ Whole(2 * m) /\ 2 * m >= MinCbSize /\ 2 * m \in Nat
        <4>1. 2 * m >= MinCbSize /\ 2 * m \in Nat
          <5>1. MinCbSize \in Nat BY TreeAssumption DEF BlockSizes
          <5> QED BY <3>1, <5>1
        <4> QED BY <3>1, <4>1, BlockType
      <3>11. Whole(a.x + m) BY <1>2, <3>1, <3>10, WholeSum
      <3>12. Whole((a.x + m) + 2 * m)
        <4>1. a.x + m \in Nat BY <1>2, <3>1
        <4> QED BY <3>10, <3>11, <4>1, WholeSum
      <3>13. (a.x + m) + 2 * m = a.x + 3 * m BY <1>2, <3>1
      <3>14. Beside(b, r, a) BY <1>2, <1>5, <3>1, <3>3, <3>7 DEF Beside
      <3>15. Beside(c, d, r)
        <4>1. c.x = r.x /\ d.x = r.x + c.w /\ c.w + d.w = r.w
          BY <1>2, <3>1, <3>3, <3>8, <3>9
        <4> QED BY <3>3, <3>8, <3>9, <4>1 DEF Beside
      <3>16. Whole(b.x) /\ Whole(b.y) /\ Whole(c.x) /\ Whole(c.y) /\ Whole(d.x) /\ Whole(d.y)
        <4>1. Whole(a.x + 3 * m) BY <3>12, <3>13
        <4> QED BY <1>2, <3>7, <3>8, <3>9, <3>11, <4>1
      <3>17. /\ b.w \in BlockSizes /\ b.h \in BlockSizes /\ b.w >= MinCbSize /\ b.h >= MinCbSize
             /\ c.w \in BlockSizes /\ c.h \in BlockSizes /\ c.w >= MinCbSize /\ c.h >= MinCbSize
             /\ d.w \in BlockSizes /\ d.h \in BlockSizes /\ d.w >= MinCbSize /\ d.h >= MinCbSize
        BY <1>2, <3>1, <3>7, <3>8, <3>9, <3>10
      <3>18. /\ FloorLog2(b.w) + FloorLog2(b.h) + 1 <= FloorLog2(a.w) + FloorLog2(a.h)
             /\ FloorLog2(c.w) + FloorLog2(c.h) + 1 <= FloorLog2(a.w) + FloorLog2(a.h)
             /\ FloorLog2(d.w) + FloorLog2(d.h) + 1 <= FloorLog2(a.w) + FloorLog2(a.h)
        <4>1. FloorLog2(2 * m) \in Nat BY <3>1, BlockType
        <4>2. FloorLog2(a.w) = FloorLog2(m) + 2 /\ FloorLog2(a.w) = FloorLog2(2 * m) + 1 BY <3>1
        <4>3. FloorLog2(b.w) = FloorLog2(m) /\ FloorLog2(c.w) = FloorLog2(2 * m)
              /\ FloorLog2(d.w) = FloorLog2(m)
          BY <3>7, <3>8, <3>9
        <4>4. FloorLog2(b.h) = FloorLog2(a.h) /\ FloorLog2(c.h) = FloorLog2(a.h)
              /\ FloorLog2(d.h) = FloorLog2(a.h)
          BY <3>7, <3>8, <3>9
        <4>5. FloorLog2(m) \in Nat BY <3>1
        <4> HIDE DEF FloorLog2
        <4> QED BY <1>5, <4>1, <4>2, <4>3, <4>4, <4>5
      <3>19. Tiles(<<b, c, d>>, a) BY <3>3, <3>4, <3>5, <3>6, <3>14, <3>15, CutAgain
      <3> QED BY <3>4, <3>5, <3>6, <3>16, <3>17, <3>18, <3>19
    <2> QED BY <2>1, <2>2 DEF TtSplits
  <1> HIDE DEF b, c, d
  <1>7. /\ DOMAIN <<b, c, d>> = {1, 2, 3}
        /\ <<b, c, d>>[1] = b /\ <<b, c, d>>[2] = c /\ <<b, c, d>>[3] = d
    OBVIOUS
  <1>8. Inside(b, a) /\ Inside(c, a) /\ Inside(d, a)
    BY <1>6, <1>7 DEF Tiles
  <1>9. CuArea(b) /\ CuArea(c) /\ CuArea(d) BY <1>6, <1>8, PartIsCuArea
  <1>10. PartsAreCuAreas(<<b, c, d>>, a)
    <2> HIDE DEF FloorLog2
    <2> QED BY <1>6, <1>7, <1>9, Zenon DEF PartsAreCuAreas
  <1> QED BY <1>1, <1>6, <1>10

LEMMA FourParts ==
    ASSUME NEW a \in Areas, CuArea(a), Splittable(a, "quad")
    PROVE  /\ Tiles(SubParts(a, "quad"), a) /\ Len(SubParts(a, "quad")) = 4
           /\ PartsAreCuAreas(SubParts(a, "quad"), a)
           /\ \A k \in DOMAIN SubParts(a, "quad") :
                 SubParts(a, "quad")[k].w = SubParts(a, "quad")[k].h
  <1> DEFINE m == a.w \div 2
             t == [x |-> a.x, y |-> a.y, w |-> a.w, h |-> m]
             u == [x |-> a.x, y |-> a.y + m, w |-> a.w, h |-> m]
             b == PartOf(a, <<0, 0, 2, 2>>)
             c == PartOf(a, <<2, 0, 2, 2>>)
             d == PartOf(a, <<0, 2, 2, 2>>)
             e == PartOf(a, <<2, 2, 2, 2>>)
  <1>1. SubParts(a, "quad") = <<b, c, d, e>>
    BY QuartersOfCuSplits, PartsOfFour
  <1>2. /\ a.x \in Nat /\ a.y \in Nat /\ a.w \in BlockSizes /\ a.h \in BlockSizes
        /\ Whole(a.x) /\ Whole(a.y) /\ a.w = a.h /\ a.w > MinCbSize
    BY AreaType DEF CuArea, Splittable
  <1>3. /\ m \in BlockSizes /\ m >= MinCbSize /\ a.w = 2 * m /\ m \in Nat
        /\ (a.w * 2) \div 4 = m /\ (a.w * 0) \div 4 = 0
        /\ (a.h * 2) \div 4 = m /\ (a.h * 0) \div 4 = 0
        /\ FloorLog2(a.w) = FloorLog2(m) + 1 /\ FloorLog2(m) \in Nat
    BY <1>2, Halved
  <1>4. /\ IsPart(b, a, 0, 0, 2, 2) /\ IsPart(c, a, 2, 0, 2, 2)
        /\ IsPart(d, a, 0, 2, 2, 2) /\ IsPart(e, a, 2, 2, 2, 2)
    BY PartFields, QuarterNumbers
  <1> HIDE DEF b, c, d, e, m
  <1>5. b \in Areas /\ b.x = a.x /\ b.y = a.y /\ b.w = m /\ b.h = m
    <2>1. IsPart(b, a, 0, 0, 2, 2) BY <1>4
    <2>2. b \in Areas /\ b.w = m /\ b.h = m BY <1>3, <2>1, Zenon DEF IsPart
    <2>3. b.x = a.x BY <2>1, PartAtBorder
    <2>4. b.y = a.y BY <2>1, PartAtBorder
    <2> QED BY <2>2, <2>3, <2>4
  <1>6. c \in Areas /\ c.x = a.x + m /\ c.y = a.y /\ c.w = m /\ c.h = m
    <2>1. IsPart(c, a, 2, 0, 2, 2) BY <1>4
    <2>2. c \in Areas /\ c.w = m /\ c.h = m BY <1>3, <2>1, Zenon DEF IsPart
    <2>3. c.x = a.x + m BY <1>3, <2>1, Zenon DEF IsPart
    <2>4. c.y = a.y BY <2>1, PartAtBorder
    <2> QED BY <2>2, <2>3, <2>4
  <1>7. d \in Areas /\ d.x = a.x /\ d.y = a.y + m /\ d.w = m /\ d.h = m
    <2>1. IsPart(d, a, 0, 2, 2, 2) BY <1>4
    <2>2. d \in Areas /\ d.w = m /\ d.h = m BY <1>3, <2>1, Zenon DEF IsPart
    <2>3. d.x = a.x BY <2>1, PartAtBorder
    <2>4. d.y = a.y + m BY <1>3, <2>1, Zenon DEF IsPart
    <2> QED BY <2>2, <2>3, <2>4
  <1>8. e \in Areas /\ e.x = a.x + m /\ e.y = a.y + m /\ e.w = m /\ e.h = m
    <2>1. IsPart(e, a, 2, 2, 2, 2) BY <1>4
    <2>2. e \in Areas /\ e.w = m /\ e.h = m BY <1>3, <2>1, Zenon DEF IsPart
    <2>3. e.x = a.x + m BY <1>3, <2>1, Zenon DEF IsPart
    <2>4. e.y = a.y + m BY <1>3, <2>1, Zenon DEF IsPart
    <2> QED BY <2>2, <2>3, <2>4
  <1>9. /\ t \in Areas /\ t.x = a.x /\ t.y = a.y /\ t.w = a.w /\ t.h = m
        /\ u \in Areas /\ u.x = a.x /\ u.y = a.y + m /\ u.w = a.w /\ u.h = m
    <2>1. a.y + m \in Nat /\ a.w \in Nat BY <1>2, <1>3
    <2> QED BY <1>2, <1>3, <2>1 DEF Areas
  <1> HIDE DEF t, u
  <1>10. Beside(t, u, a) BY <1>2, <1>3, <1>9 DEF Beside
  <1>11. Beside(b, c, t) BY <1>2, <1>3, <1>5, <1>6, <1>9 DEF Beside
  <1>12. Beside(d, e, u) BY <1>2, <1>3, <1>7, <1>8, <1>9 DEF Beside
  <1>13. Tiles(<<b, c, d, e>>, a)
    BY <1>5, <1>6, <1>7, <1>8, <1>9, <1>10, <1>11, <1>12, CutInFour
  <1>14. /\ DOMAIN <<b, c, d, e>> = {1, 2, 3, 4} /\ <<b, c, d, e>>[1] = b
         /\ <<b, c, d, e>>[2] = c /\ <<b, c, d, e>>[3] = d /\ <<b, c, d, e>>[4] = e
    OBVIOUS
  <1>15. Inside(b, a) /\ Inside(c, a) /\ Inside(d, a) /\ Inside(e, a)
    BY <1>13, <1>14 DEF Tiles
  <1>16. Whole(a.x + m) /\ Whole(a.y + m)
    <2>1. Whole(m) BY <1>3, BlockType
    <2> QED BY <1>2, <1>3, <2>1, WholeSum
  <1>17. CuArea(b) /\ CuArea(c) /\ CuArea(d) /\ CuArea(e)
    BY <1>2, <1>3, <1>5, <1>6, <1>7, <1>8, <1>15, <1>16, PartIsCuArea
  <1>18. FloorLog2(m) + FloorLog2(m) + 1 <= FloorLog2(a.w) + FloorLog2(a.h)
    <2>1. FloorLog2(a.w) = FloorLog2(a.h) BY <1>2
    <2> HIDE DEF FloorLog2
    <2> QED BY <1>3, <2>1
  <1>19. PartsAreCuAreas(<<b, c, d, e>>, a)
    <2> HIDE DEF FloorLog2
    <2>1. \A z \in {b, c, d, e} :
            FloorLog2(z.w) + FloorLog2(z.h) + 1 <= FloorLog2(a.w) + FloorLog2(a.h)
      BY <1>5, <1>6, <1>7, <1>8, <1>18
    <2> QED BY <1>14, <1>17, <2>1, Zenon DEF PartsAreCuAreas
  <1>20. \A k \in {1, 2, 3, 4} : <<b, c, d, e>>[k].w = <<b, c, d, e>>[k].h
    BY <1>5, <1>6, <1>7, <1>8, <1>14
  <1> QED BY <1>1, <1>13, <1>14, <1>19, <1>20

(* All splits of coding units.                                             *)
LEMMA CuParts ==
    ASSUME NEW a \in Areas, CuArea(a), NEW s \in CuSplits, Splittable(a, s)
    PROVE  /\ Tiles(SubParts(a, s), a) /\ Len(SubParts(a, s)) = NumParts(s)
           /\ PartsAreCuAreas(SubParts(a, s), a)
           /\ s = "quad" => \A k \in DOMAIN SubParts(a, s) : SubParts(a, s)[k].w = SubParts(a, s)[k].h
  <1>1. CASE s \in BtSplits
    <2>1. NumParts(s) = 2 /\ s # "quad" BY <1>1 DEF BtSplits, TtSplits, NumParts
    <2> QED BY <1>1, <2>1, TwoParts
  <1>2. CASE s \in TtSplits
    <2>1. NumParts(s) = 3 /\ s # "quad" BY <1>2 DEF BtSplits, TtSplits, NumParts
    <2> QED BY <1>2, <2>1, ThreeParts
  <1>3. CASE s = "quad"
    <2>1. NumParts(s) = 4 BY <1>3 DEF NumParts
    <2> QED BY <1>3, <2>1, FourParts
  <1> QED BY <1>1, <1>2, <1>3 DEF CuSplits, MtSplits

(* A cut across at the i-th quarter, and one down.                         *)
LEMMA CutAcross ==
    ASSUME NEW a \in Areas, a.w \in BlockSizes, a.h \in BlockSizes,
           NEW i \in 1 .. 3, NEW j \in 1 .. 3, i + j = 4, NEW s, s # "maxTr",
           Quarters[s] = <<<<0, 0, 4, i>>, <<0, i, 4, j>>>>
    PROVE  Tiles(SubParts(a, s), a)
  <1> DEFINE b == PartOf(a, <<0, 0, 4, i>>)
             c == PartOf(a, <<0, i, 4, j>>)
  <1>1. SubParts(a, s) = <<b, c>> BY PartsOfTwo
  <1>2. i \in 0 .. 4 /\ j \in 0 .. 4 OBVIOUS
  <1>3. IsPart(b, a, 0, 0, 4, i) /\ IsPart(c, a, 0, i, 4, j)
    BY <1>2, PartFields, QuarterNumbers
  <1>4. /\ (a.w * 4) \div 4 = a.w
        /\ (a.h * i) \div 4 + (a.h * j) \div 4 = a.h
    <2>1. (a.w * 4) \div 4 = a.w BY BlockType
    <2>2. \A n \in BlockSizes : \A k, l \in 1 .. 3 :
            k + l = 4 => (n * k) \div 4 + (n * l) \div 4 = n
      BY DEF BlockSizes
    <2> QED BY <2>1, <2>2
  <1> HIDE DEF b, c
  <1>5. b \in Areas /\ c \in Areas BY <1>3 DEF IsPart
  <1>6. b.x = a.x /\ b.y = a.y /\ c.x = a.x BY <1>3, PartAtBorder
  <1>7. b.w = a.w /\ c.w = a.w /\ b.h = (a.h * i) \div 4 /\ c.h = (a.h * j) \div 4
        /\ c.y = a.y + (a.h * i) \div 4
    BY <1>3, <1>4, Zenon DEF IsPart
  <1>8. Beside(b, c, a) BY <1>4, <1>6, <1>7, Zenon DEF Beside
  <1> QED BY <1>1, <1>5, <1>8, CutInTwo

LEMMA CutDown ==
    ASSUME NEW a \in Areas, a.w \in BlockSizes, a.h \in BlockSizes,
           NEW i \in 1 .. 3, NEW j \in 1 .. 3, i + j = 4, NEW s, s # "maxTr",
           Quarters[s] = <<<<0, 0, i, 4>>, <<i, 0, j, 4>>>>
    PROVE  Tiles(SubParts(a, s), a)
  <1> DEFINE b == PartOf(a, <<0, 0, i, 4>>)
             c == PartOf(a, <<i, 0, j, 4>>)
  <1>1. SubParts(a, s) = <<b, c>> BY PartsOfTwo
  <1>2. i \in 0 .. 4 /\ j \in 0 .. 4 OBVIOUS
  <1>3. IsPart(b, a, 0, 0, i, 4) /\ IsPart(c, a, i, 0, j, 4)
    BY <1>2, PartFields, QuarterNumbers
  <1>4. /\ (a.h * 4) \div 4 = a.h
        /\ (a.w * i) \div 4 + (a.w * j) \div 4 = a.w
    <2>1. (a.h * 4) \div 4 = a.h BY BlockType
    <2>2. \A n \in BlockSizes : \A k, l \in 1 .. 3 :
            k + l = 4 => (n * k) \div 4 + (n * l) \div 4 = n
      BY DEF BlockSizes
    <2> QED BY <2>1, <2>2
  <1> HIDE DEF b, c
  <1>5. b \in Areas /\ c \in Areas BY <1>3 DEF IsPart
  <1>6. b.x = a.x /\ b.y = a.y /\ c.y = a.y BY <1>3, PartAtBorder
  <1>7. b.h = a.h /\ c.h = a.h /\ b.w = (a.w * i) \div 4 /\ c.w = (a.w * j) \div 4
        /\ c.x = a.x + (a.w * i) \div 4
    BY <1>3, <1>4, Zenon DEF IsPart
  <1>8. Beside(b, c, a) BY <1>4, <1>6, <1>7, Zenon DEF Beside
  <1> QED BY <1>1, <1>5, <1>8, CutInTwo

(* Both parts of an SBT split, also those of a quarter and the rest.       *)
LEMMA SbtParts ==
    ASSUME NEW a \in Areas, a.w \in BlockSizes, a.h \in BlockSizes, NEW s \in SbtSplits
    PROVE  Tiles(SubParts(a, s), a)
  <1>1. 1 \in 1 .. 3 /\ 2 \in 1 .. 3 /\ 3 \in 1 .. 3 /\ 1 + 3 = 4 /\ 2 + 2 = 4 /\ 3 + 1 = 4
    OBVIOUS
  <1>2. s # "maxTr" BY DEF SbtSplits
  <1>3. CASE s = "sbtVerHalf" BY <1>1, <1>2, <1>3, QuartersOfSbtSplits, CutDown
  <1>4. CASE s = "sbtHorHalf" BY <1>1, <1>2, <1>4, QuartersOfSbtSplits, CutAcross
  <1>5. CASE s = "sbtVerQuad0" BY <1>1, <1>2, <1>5, QuartersOfSbtSplits, CutDown
  <1>6. CASE s = "sbtVerQuad1" BY <1>1, <1>2, <1>6, QuartersOfSbtSplits, CutDown
  <1>7. CASE s = "sbtHorQuad0" BY <1>1, <1>2, <1>7, QuartersOfSbtSplits, CutAcross
  <1>8. CASE s = "sbtHorQuad1" BY <1>1, <1>2, <1>8, QuartersOfSbtSplits, CutAcross
  <1> QED BY <1>3, <1>4, <1>5, <1>6, <1>7, <1>8 DEF SbtSplits

(* The tiles of the largest transform: h columns of width n in a length.   *)
Columns(length, n, h) ==
    /\ h \in {1, 2, 4, 8} /\ n \in Nat /\ n <= MaxTbSize /\ n > 0
    /\ length \in Nat /\ length = n * h

LEMMA TilesAlong ==
    ASSUME NEW length \in BlockSizes
    PROVE  LET h == IF length \div MaxTbSize = 0 THEN 1 ELSE length \div MaxTbSize
           IN  Columns(length, length \div h, h)
  BY TreeAssumption DEF BlockSizes, Columns

(* The k-th column, and every point is in one.                             *)
LEMMA ColumnAt ==
    ASSUME NEW length, NEW n, NEW h, Columns(length, n, h)
    PROVE  /\ \A k \in 0 .. h - 1 : n * k \in Nat /\ n * k + n <= length
           /\ \A k, l \in 0 .. h - 1 : k < l => n * k + n <= n * l
           /\ \A q \in Nat : q < length => \E k \in 0 .. h - 1 : n * k <= q /\ q < n * k + n
           /\ n * 0 = 0
  <1>1. /\ h \in {1, 2, 4, 8} /\ n \in Nat /\ n > 0 /\ length = n * h /\ length \in Nat
    BY DEF Columns
  <1>2. \A k \in 0 .. h - 1 : n * k \in Nat /\ n * k + n <= length
    BY <1>1
  <1>3. \A k, l \in 0 .. h - 1 : k < l => n * k + n <= n * l
    <2>1. \A k, l \in 0 .. 7 : k < l => n * k + n <= n * l BY <1>1
    <2>2. 0 .. h - 1 \subseteq 0 .. 7 BY <1>1
    <2> QED BY <2>1, <2>2
  <1>4. ASSUME NEW q \in Nat, q < length PROVE \E k \in 0 .. h - 1 : n * k <= q /\ q < n * k + n
    <2>1. CASE h = 1
      <3>1. length = n BY <1>1, <2>1
      <3>2. n * 0 <= q /\ q < n * 0 + n /\ 0 \in 0 .. h - 1 BY <1>1, <1>4, <2>1, <3>1
      <3> QED BY <3>2
    <2>2. CASE h = 2
      <3>1. length = n * 2 BY <1>1, <2>2
      <3>2. \E k \in {0, 1} : n * k <= q /\ q < n * k + n BY <1>1, <1>4, <3>1
      <3> QED BY <2>2, <3>2
    <2>3. CASE h = 4
      <3>1. length = n * 4 BY <1>1, <2>3
      <3>2. \E k \in {0, 1, 2, 3} : n * k <= q /\ q < n * k + n BY <1>1, <1>4, <3>1
      <3> QED BY <2>3, <3>2
    <2>4. CASE h = 8
      <3>1. length = n * 8 BY <1>1, <2>4
      <3>2. \E k \in {0, 1, 2, 3, 4, 5, 6, 7} : n * k <= q /\ q < n * k + n BY <1>1, <1>4, <3>1
      <3> QED BY <2>4, <3>2
    <2> QED BY <1>1, <2>1, <2>2, <2>3, <2>4
  <1> QED BY <1>1, <1>2, <1>3, <1>4

(* Numbers of h columns and v rows, row by row.                            *)
Grid(h, v) ==
    /\ h * v \in Nat /\ h * v >= 1
    /\ \A i \in 1 .. h * v : (i - 1) % h \in 0 .. h - 1 /\ (i - 1) \div h \in 0 .. v - 1
    /\ \A i, j \in 1 .. h * v :
          (i - 1) % h = (j - 1) % h /\ (i - 1) \div h = (j - 1) \div h => i = j
    /\ \A c \in 0 .. h - 1, r \in 0 .. v - 1 :
          \E i \in 1 .. h * v : (i - 1) % h = c /\ (i - 1) \div h = r
    /\ (1 - 1) % h = 0 /\ (1 - 1) \div h = 0

LEMMA RowByRow ==
    ASSUME NEW h \in {1, 2, 4, 8}, NEW v \in {1, 2, 4, 8}
    PROVE  Grid(h, v)
  <1>1. CASE h = 1
    <2>1. \A i \in Int : i % 1 = 0 /\ i \div 1 = i OBVIOUS
    <2>2. \A c \in 0 .. h - 1, r \in 0 .. v - 1 :
             r + 1 \in 1 .. h * v /\ (r + 1 - 1) % h = c /\ (r + 1 - 1) \div h = r
      BY <1>1, <2>1
    <2> QED BY <1>1, <2>1, <2>2 DEF Grid
  <1>2. CASE h \in {2, 4, 8}
    <2>2. \A c \in 0 .. h - 1, r \in Nat : (h * r + c) % h = c /\ (h * r + c) \div h = r
      BY <1>2
    <2>3. h * v \in Nat /\ h * v >= 1 BY <1>2
    <2>4. ASSUME NEW i \in 1 .. h * v
          PROVE  (i - 1) % h \in 0 .. h - 1 /\ (i - 1) \div h \in 0 .. v - 1
      <3>1. CASE h = 2 BY <2>4, <3>1
      <3>2. CASE h = 4 BY <2>4, <3>2
      <3>3. CASE h = 8 BY <2>4, <3>3
      <3> QED BY <1>2, <3>1, <3>2, <3>3
    <2>5. ASSUME NEW i \in 1 .. h * v, NEW j \in 1 .. h * v,
                 (i - 1) % h = (j - 1) % h, (i - 1) \div h = (j - 1) \div h
          PROVE  i = j
      <3> DEFINE k == i - 1
                 l == j - 1
      <3>1. i \in Int /\ j \in Int /\ k \in Nat /\ l \in Nat BY <2>3
      <3>2. k % h = l % h /\ k \div h = l \div h BY <2>5
      <3> HIDE DEF k, l
      <3>3. h \in Nat \ {0} BY <1>2
      <3>4. k = l BY <3>1, <3>2, <3>3
      <3>5. i - 1 = j - 1 BY <3>4 DEF k, l
      <3> QED BY <3>1, <3>5
    <2>6. ASSUME NEW c \in 0 .. h - 1, NEW r \in 0 .. v - 1
          PROVE  \E i \in 1 .. h * v : (i - 1) % h = c /\ (i - 1) \div h = r
      <3> DEFINE i == h * r + c + 1
      <3>1. i \in 1 .. h * v
        <4>1. CASE h = 2 BY <4>1
        <4>2. CASE h = 4 BY <4>2
        <4>3. CASE h = 8 BY <4>3
        <4> QED BY <1>2, <4>1, <4>2, <4>3
      <3>2. i - 1 = h * r + c BY <1>2
      <3>3. r \in Nat BY <1>2
      <3>4. (i - 1) % h = c /\ (i - 1) \div h = r BY <2>2, <3>2, <3>3
      <3> QED BY <3>1, <3>4
    <2>7. (1 - 1) % h = 0 /\ (1 - 1) \div h = 0 BY <1>2
    <2> QED BY <2>3, <2>4, <2>5, <2>6, <2>7 DEF Grid
  <1> QED BY <1>1, <1>2

LEMMA MaxTuParts ==
    ASSUME NEW a \in Areas, a.w \in BlockSizes, a.h \in BlockSizes
    PROVE  /\ Tiles(SubParts(a, "maxTr"), a)
           /\ \A k \in DOMAIN SubParts(a, "maxTr") :
                 /\ SubParts(a, "maxTr")[k].w <= MaxTbSize
                 /\ SubParts(a, "maxTr")[k].h <= MaxTbSize
  <1> DEFINE h == IF a.w \div MaxTbSize = 0 THEN 1 ELSE a.w \div MaxTbSize
             v == IF a.h \div MaxTbSize = 0 THEN 1 ELSE a.h \div MaxTbSize
             m == a.w \div h
             n == a.h \div v
             f == SubParts(a, "maxTr")
             col(i) == (i - 1) % h
             row(i) == (i - 1) \div h
  <1>1. f = [i \in 1 .. h * v |-> [x |-> a.x + m * col(i), y |-> a.y + n * row(i), w |-> m, h |-> n]]
    BY Zenon DEF SubParts, MaxTuTiling
  <1>2. Columns(a.w, m, h) BY TilesAlong
  <1>3. Columns(a.h, n, v) BY TilesAlong
  <1>4. /\ h \in {1, 2, 4, 8} /\ v \in {1, 2, 4, 8} /\ m \in Nat /\ n \in Nat
        /\ m <= MaxTbSize /\ n <= MaxTbSize
    BY <1>2, <1>3 DEF Columns
  <1>5. a.x \in Nat /\ a.y \in Nat /\ a.w \in Nat /\ a.h \in Nat BY AreaType
  <1> HIDE DEF h, v, m, n, f
  <1>6. /\ \A k \in 0 .. h - 1 : m * k \in Nat /\ m * k + m <= a.w
        /\ \A k, l \in 0 .. h - 1 : k < l => m * k + m <= m * l
        /\ \A q \in Nat : q < a.w => \E k \in 0 .. h - 1 : m * k <= q /\ q < m * k + m
        /\ m * 0 = 0
    BY <1>2, ColumnAt
  <1>7. /\ \A k \in 0 .. v - 1 : n * k \in Nat /\ n * k + n <= a.h
        /\ \A k, l \in 0 .. v - 1 : k < l => n * k + n <= n * l
        /\ \A q \in Nat : q < a.h => \E k \in 0 .. v - 1 : n * k <= q /\ q < n * k + n
        /\ n * 0 = 0
    BY <1>3, ColumnAt
  <1>8. /\ h * v \in Nat /\ h * v >= 1
        /\ \A i \in 1 .. h * v : col(i) \in 0 .. h - 1 /\ row(i) \in 0 .. v - 1
        /\ \A i, j \in 1 .. h * v : col(i) = col(j) /\ row(i) = row(j) => i = j
        /\ \A c \in 0 .. h - 1, r \in 0 .. v - 1 :
              \E i \in 1 .. h * v : col(i) = c /\ row(i) = r
        /\ col(1) = 0 /\ row(1) = 0
    <2>1. Grid(h, v) BY <1>4, RowByRow, Zenon
    <2>2. \A i : col(i) = (i - 1) % h /\ row(i) = (i - 1) \div h OBVIOUS
    <2> HIDE DEF col, row
    <2> QED BY <2>1, <2>2, Zenon DEF Grid
  <1> HIDE DEF col, row
  <1>9. \A i \in 1 .. h * v :
          /\ f[i] = [x |-> a.x + m * col(i), y |-> a.y + n * row(i), w |-> m, h |-> n]
          /\ m * col(i) \in Nat /\ n * row(i) \in Nat
    BY <1>1, <1>6, <1>7, <1>8
  <1>10. \A i \in 1 .. h * v :
           /\ f[i].x = a.x + m * col(i) /\ f[i].y = a.y + n * row(i) /\ f[i].w = m /\ f[i].h = n
           /\ f[i] \in Areas
    <2> SUFFICES ASSUME NEW i \in 1 .. h * v
                 PROVE  /\ f[i].x = a.x + m * col(i) /\ f[i].y = a.y + n * row(i)
                        /\ f[i].w = m /\ f[i].h = n /\ f[i] \in Areas
      OBVIOUS
    <2> DEFINE x == a.x + m * col(i)
               y == a.y + n * row(i)
    <2>1. f[i] = [x |-> x, y |-> y, w |-> m, h |-> n] /\ x \in Nat /\ y \in Nat
      <3>1. \A p, q \in Nat : p + q \in Nat OBVIOUS
      <3> QED BY <1>5, <1>9, <3>1, Zenon
    <2> HIDE DEF x, y
    <2>2. f[i].x = x /\ f[i].y = y /\ f[i].w = m /\ f[i].h = n /\ f[i] \in Areas
      BY <1>4, <2>1 DEF Areas
    <2> QED BY <2>2 DEF x, y
  <1>11. DOMAIN f = 1 .. h * v /\ f \in Seq(Areas) /\ Len(f) = h * v
    <2>1. DOMAIN f = 1 .. h * v BY <1>1
    <2>2. \A i \in 1 .. h * v : f[i] \in Areas BY <1>10
    <2>3. f = [i \in 1 .. h * v |-> f[i]] BY <1>1, <2>1
    <2> QED BY <1>8, <2>2, <2>3
  <1>12. ASSUME NEW i \in DOMAIN f, NEW j \in DOMAIN f, i # j PROVE Disjoint(f[i], f[j])
    <2>1. i \in 1 .. h * v /\ j \in 1 .. h * v BY <1>11
    <2>2. /\ col(i) \in 0 .. h - 1 /\ row(i) \in 0 .. v - 1
          /\ col(j) \in 0 .. h - 1 /\ row(j) \in 0 .. v - 1
          /\ (col(i) # col(j) \/ row(i) # row(j))
          /\ m * col(i) \in Nat /\ n * row(i) \in Nat /\ m * col(j) \in Nat /\ n * row(j) \in Nat
      BY <1>8, <1>9, <1>12, <2>1
    <2>3. \A k, l \in Int : k < l \/ l < k \/ k = l OBVIOUS
    <2>4. col(i) < col(j) \/ col(j) < col(i) \/ row(i) < row(j) \/ row(j) < row(i)
      <3>1. \A k \in Int : \A z \in 0 .. k : z \in Int OBVIOUS
      <3>2. h - 1 \in Int /\ v - 1 \in Int BY <1>4
      <3>3. col(i) \in Int /\ col(j) \in Int /\ row(i) \in Int /\ row(j) \in Int
        BY <2>2, <3>1, <3>2, Zenon
      <3> QED BY <2>2, <2>3, <3>3, Zenon
    <2>5. /\ col(i) < col(j) => m * col(i) + m <= m * col(j)
          /\ col(j) < col(i) => m * col(j) + m <= m * col(i)
          /\ row(i) < row(j) => n * row(i) + n <= n * row(j)
          /\ row(j) < row(i) => n * row(j) + n <= n * row(i)
      BY <1>6, <1>7, <2>2
    <2>6. /\ f[i].x = a.x + m * col(i) /\ f[i].y = a.y + n * row(i) /\ f[i].w = m /\ f[i].h = n
          /\ f[j].x = a.x + m * col(j) /\ f[j].y = a.y + n * row(j) /\ f[j].w = m /\ f[j].h = n
      BY <1>10, <2>1
    <2>7. CASE col(i) < col(j)
      <3>1. f[i].x + f[i].w <= f[j].x BY <1>4, <1>5, <2>2, <2>5, <2>6, <2>7
      <3> QED BY <3>1 DEF Disjoint
    <2>8. CASE col(j) < col(i)
      <3>1. f[j].x + f[j].w <= f[i].x BY <1>4, <1>5, <2>2, <2>5, <2>6, <2>8
      <3> QED BY <3>1 DEF Disjoint
    <2>9. CASE row(i) < row(j)
      <3>1. f[i].y + f[i].h <= f[j].y BY <1>4, <1>5, <2>2, <2>5, <2>6, <2>9
      <3> QED BY <3>1 DEF Disjoint
    <2>10. CASE row(j) < row(i)
      <3>1. f[j].y + f[j].h <= f[i].y BY <1>4, <1>5, <2>2, <2>5, <2>6, <2>10
      <3> QED BY <3>1 DEF Disjoint
    <2> QED BY <2>4, <2>7, <2>8, <2>9, <2>10
  <1>13. ASSUME NEW i \in DOMAIN f PROVE Inside(f[i], a)
    <2>1. i \in 1 .. h * v BY <1>11
    <2>2. /\ f[i].x = a.x + m * col(i) /\ f[i].y = a.y + n * row(i) /\ f[i].w = m /\ f[i].h = n
      BY <1>10, <2>1
    <2>3. m * col(i) \in Nat /\ n * row(i) \in Nat
          /\ m * col(i) + m <= a.w /\ n * row(i) + n <= a.h
      BY <1>6, <1>7, <1>8, <2>1
    <2>4. f[i].x >= a.x BY <1>5, <2>2, <2>3
    <2>5. f[i].y >= a.y BY <1>5, <2>2, <2>3
    <2>6. f[i].x + f[i].w <= a.x + a.w BY <1>4, <1>5, <2>2, <2>3
    <2>7. f[i].y + f[i].h <= a.y + a.h BY <1>4, <1>5, <2>2, <2>3
    <2> QED BY <2>4, <2>5, <2>6, <2>7 DEF Inside
  <1>14. ASSUME NEW p \in Points, Covers(a, p) PROVE \E i \in DOMAIN f : Covers(f[i], p)
    <2>1. p.x \in Nat /\ p.y \in Nat /\ a.x <= p.x /\ p.x < a.x + a.w /\ a.y <= p.y /\ p.y < a.y + a.h
      BY <1>14, AreaType
    <2>2. p.x - a.x \in Nat /\ p.x - a.x < a.w /\ p.y - a.y \in Nat /\ p.y - a.y < a.h
      BY <1>5, <2>1
    <2>3. PICK c \in 0 .. h - 1 : m * c <= p.x - a.x /\ p.x - a.x < m * c + m BY <1>6, <2>2
    <2>4. PICK r \in 0 .. v - 1 : n * r <= p.y - a.y /\ p.y - a.y < n * r + n BY <1>7, <2>2
    <2>5. PICK i \in 1 .. h * v : col(i) = c /\ row(i) = r BY <1>8
    <2>6. f[i].x = a.x + m * c /\ f[i].y = a.y + n * r /\ f[i].w = m /\ f[i].h = n /\ f[i] \in Areas
      BY <1>10, <2>5
    <2>7. m * c \in Nat /\ n * r \in Nat BY <1>6, <1>7
    <2>8. f[i].x <= p.x BY <1>5, <2>1, <2>3, <2>6, <2>7
    <2>9. p.x < f[i].x + f[i].w BY <1>4, <1>5, <2>1, <2>3, <2>6, <2>7
    <2>10. f[i].y <= p.y BY <1>5, <2>1, <2>4, <2>6, <2>7
    <2>11. p.y < f[i].y + f[i].h BY <1>4, <1>5, <2>1, <2>4, <2>6, <2>7
    <2>12. Covers(f[i], p) BY <2>6, <2>8, <2>9, <2>10, <2>11, AreaType
    <2> QED BY <1>11, <2>12
  <1>15. Pos(f[1]) = Pos(a)
    <2>1. 1 \in 1 .. h * v BY <1>8
    <2>2. f[1].x = a.x + m * 0 /\ f[1].y = a.y + n * 0 BY <1>8, <1>10, <2>1
    <2>3. f[1].x = a.x /\ f[1].y = a.y BY <1>5, <1>6, <1>7, <2>2
    <2> QED BY <2>3 DEF Pos
  <1>16. Tiles(f, a) BY <1>8, <1>11, <1>12, <1>13, <1>14, <1>15 DEF Tiles
  <1>17. \A k \in DOMAIN f : f[k].w <= MaxTbSize /\ f[k].h <= MaxTbSize
    BY <1>4, <1>10, <1>11
  <1> QED BY <1>16, <1>17 DEF f

(* The parts of a transform unit do not exceed the largest transform.      *)
LEMMA TuParts ==
    ASSUME NEW a \in Areas, a.w \in BlockSizes, a.h \in BlockSizes, NEW s \in TuSplits,
           s \in SbtSplits => a.w <= MaxTbSize /\ a.h <= MaxTbSize
    PROVE  /\ Tiles(SubParts(a, s), a)
           /\ \A k \in DOMAIN SubParts(a, s) :
                 SubParts(a, s)[k].w <= MaxTbSize /\ SubParts(a, s)[k].h <= MaxTbSize
  <1> DEFINE f == SubParts(a, s)
  <1>1. CASE s = "maxTr" BY <1>1, MaxTuParts
  <1>2. CASE s \in SbtSplits
    <2>1. Tiles(f, a) BY <1>2, SbtParts
    <2> HIDE DEF f
    <2>2. ASSUME NEW k \in DOMAIN f PROVE f[k].w <= MaxTbSize /\ f[k].h <= MaxTbSize
      <3>1. f[k] \in Areas /\ Inside(f[k], a) BY <2>1 DEF Tiles
      <3>2. a.w <= MaxTbSize /\ a.h <= MaxTbSize /\ MaxTbSize \in Nat
        BY <1>2, TreeAssumption
      <3>3. /\ a.x \in Nat /\ a.y \in Nat /\ a.w \in Nat /\ a.h \in Nat
            /\ f[k].x \in Nat /\ f[k].y \in Nat /\ f[k].w \in Nat /\ f[k].h \in Nat
        BY <3>1, AreaType
      <3>4. f[k].w <= a.w BY <3>1, <3>3 DEF Inside
      <3>5. f[k].h <= a.h BY <3>1, <3>3 DEF Inside
      <3> QED BY <3>2, <3>3, <3>4, <3>5
    <2> QED BY <2>1, <2>2 DEF f
  <1> QED BY <1>1, <1>2 DEF TuSplits

----------------------------------------------------------------------------
(* The stack of the partitioner *)

ImplicitValues == {"unchecked", "none", "quad", "horz", "vert"}
LevelType ==
    [split : CuSplits \cup TuSplits \cup {"ctu"}, parts : Seq(Areas), idx : Nat,
     implicit : ImplicitValues, qg : BOOLEAN]

(* All but the implicit split of the first n levels is the same.           *)
Kept(st, st2, n) ==
    \A i \in 1 .. n :
        /\ st2[i].split = st[i].split /\ st2[i].parts = st[i].parts
        /\ st2[i].idx = st[i].idx /\ st2[i].qg = st[i].qg

LEMMA LevelFields ==
    ASSUME NEW l \in LevelType
    PROVE  /\ l.split \in CuSplits \cup TuSplits \cup {"ctu"} /\ l.parts \in Seq(Areas)
           /\ l.idx \in Nat /\ l.implicit \in ImplicitValues /\ l.qg \in BOOLEAN
  BY Zenon DEF LevelType

LEMMA NewLevel ==
    ASSUME NEW s \in CuSplits \cup TuSplits \cup {"ctu"}, NEW parts \in Seq(Areas), NEW qg \in BOOLEAN
    PROVE  /\ Level(s, parts, qg) \in LevelType
           /\ Level(s, parts, qg).split = s /\ Level(s, parts, qg).parts = parts
           /\ Level(s, parts, qg).idx = 0 /\ Level(s, parts, qg).implicit = "unchecked"
           /\ Level(s, parts, qg).qg = qg
  BY DEF Level, LevelType, ImplicitValues

(* The last element of a sequence replaced, and one more.                  *)
LEMMA LastReplaced ==
    ASSUME NEW T, NEW st \in Seq(T), Len(st) >= 1, NEW e \in T, NEW st2, st2 = [st EXCEPT ![Len(st)] = e]
    PROVE  /\ st2 \in Seq(T) /\ Len(st2) = Len(st) /\ st2[Len(st)] = e
           /\ \A i \in 1 .. Len(st) - 1 : st2[i] = st[i]
  OBVIOUS

LEMMA OneAppended ==
    ASSUME NEW T, NEW st \in Seq(T), NEW e \in T, NEW st2, st2 = Append(st, e)
    PROVE  /\ st2 \in Seq(T) /\ Len(st2) = Len(st) + 1 /\ st2[Len(st) + 1] = e
           /\ \A i \in 1 .. Len(st) : st2[i] = st[i]
  OBVIOUS

(* The implicit split is kept in the last level.                           *)
CachedIn(st, implicit) == [st EXCEPT ![Len(st)].implicit = implicit]
PushedOn(st, implicit, l) == Append(CachedIn(st, implicit), l)

LEMMA WhenCached ==
    ASSUME NEW st \in Seq(LevelType), Len(st) >= 1, NEW implicit \in ImplicitValues,
           NEW st2, st2 = CachedIn(st, implicit)
    PROVE  /\ st2 \in Seq(LevelType) /\ Len(st2) = Len(st) /\ Kept(st, st2, Len(st))
           /\ \A i \in 1 .. Len(st) - 1 : st2[i] = st[i]
           /\ st2[Len(st)].implicit = implicit
  <1> DEFINE n == Len(st)
             l == [st[n] EXCEPT !.implicit = implicit]
  <1>1. n \in 1 .. Len(st) /\ st[n] \in LevelType OBVIOUS
  <1>2. st2 = [st EXCEPT ![n] = l] BY DEF CachedIn
  <1>3. /\ l \in LevelType /\ l.split = st[n].split /\ l.parts = st[n].parts /\ l.idx = st[n].idx
        /\ l.qg = st[n].qg /\ l.implicit = implicit
    <2> DEFINE k == st[n]
    <2>1. k \in LevelType BY <1>1
    <2>2. l = [k EXCEPT !.implicit = implicit] OBVIOUS
    <2> HIDE DEF k, l
    <2>3. /\ l \in LevelType /\ l.split = k.split /\ l.parts = k.parts /\ l.idx = k.idx
          /\ l.qg = k.qg /\ l.implicit = implicit
      BY <2>1, <2>2 DEF LevelType
    <2> QED BY <2>3 DEF k
  <1> HIDE DEF l
  <1>4. st2 \in Seq(LevelType) /\ Len(st2) = n /\ st2[n] = l /\ \A i \in 1 .. n - 1 : st2[i] = st[i]
    BY <1>1, <1>2, <1>3
  <1>5. \A i \in 1 .. n : i \in 1 .. n - 1 \/ i = n OBVIOUS
  <1> HIDE DEF n
  <1>6. Kept(st, st2, n) BY <1>3, <1>4, <1>5, Zenon DEF Kept
  <1> QED BY <1>3, <1>4, <1>6 DEF n

LEMMA WhenPushed ==
    ASSUME NEW st \in Seq(LevelType), Len(st) >= 1, NEW implicit \in ImplicitValues,
           NEW l \in LevelType,
           NEW st2, st2 = PushedOn(st, implicit, l)
    PROVE  /\ st2 \in Seq(LevelType) /\ Len(st2) = Len(st) + 1 /\ Kept(st, st2, Len(st))
           /\ \A i \in 1 .. Len(st) - 1 : st2[i] = st[i]
           /\ st2[Len(st)].implicit = implicit /\ st2[Len(st) + 1] = l
  <1> DEFINE st1 == CachedIn(st, implicit)
  <1>1. /\ st1 \in Seq(LevelType) /\ Len(st1) = Len(st) /\ Kept(st, st1, Len(st))
        /\ \A i \in 1 .. Len(st) - 1 : st1[i] = st[i]
        /\ st1[Len(st)].implicit = implicit
    BY WhenCached
  <1>2. st2 = Append(st1, l) BY DEF PushedOn
  <1> HIDE DEF st1
  <1>3. /\ st2 \in Seq(LevelType) /\ Len(st2) = Len(st1) + 1 /\ st2[Len(st1) + 1] = l
        /\ \A i \in 1 .. Len(st1) : st2[i] = st1[i]
    <2>1. st1 \in Seq(LevelType) BY <1>1
    <2> QED BY <1>2, <2>1, OneAppended
  <1>4. Kept(st, st2, Len(st)) BY <1>1, <1>3, Zenon DEF Kept
  <1>5. 1 .. Len(st) - 1 \subseteq 1 .. Len(st) /\ Len(st) \in 1 .. Len(st) OBVIOUS
  <1> QED BY <1>1, <1>3, <1>4, <1>5, Zenon

LEMMA WhenPopped ==
    ASSUME NEW st \in Seq(LevelType), Len(st) > 1,
           NEW st2, st2 = SubSeq(st, 1, Len(st) - 1)
    PROVE  /\ st2 \in Seq(LevelType) /\ Len(st2) = Len(st) - 1 /\ Len(st) - 1 \in 1 .. Len(st)
           /\ \A i \in 1 .. Len(st) - 1 : st2[i] = st[i]
           /\ Kept(st, st2, Len(st) - 1)
  <1>1. /\ st2 \in Seq(LevelType) /\ Len(st2) = Len(st) - 1 /\ Len(st) - 1 \in 1 .. Len(st)
        /\ \A i \in 1 .. Len(st) - 1 : st2[i] = st[i]
    OBVIOUS
  <1> QED BY <1>1, Zenon DEF Kept

MovedOn(l) == [l EXCEPT !.idx = @ + 1, !.implicit = "unchecked"]

LEMMA MovedLevel ==
    ASSUME NEW l \in LevelType
    PROVE  /\ MovedOn(l) \in LevelType /\ MovedOn(l).split = l.split /\ MovedOn(l).parts = l.parts
           /\ MovedOn(l).idx = l.idx + 1 /\ MovedOn(l).qg = l.qg /\ MovedOn(l).implicit = "unchecked"
  <1>1. l.idx + 1 \in Nat /\ "unchecked" \in ImplicitValues
    BY LevelFields DEF ImplicitValues
  <1> QED BY <1>1 DEF LevelType, MovedOn

LEMMA WhenMoved ==
    ASSUME NEW st \in Seq(LevelType), Len(st) >= 1,
           NEW st2, st2 = [st EXCEPT ![Len(st)] = MovedOn(st[Len(st)])]
    PROVE  /\ st2 \in Seq(LevelType) /\ Len(st2) = Len(st)
           /\ \A i \in 1 .. Len(st) - 1 : st2[i] = st[i]
           /\ Kept(st, st2, Len(st) - 1)
           /\ st2[Len(st)].split = st[Len(st)].split /\ st2[Len(st)].parts = st[Len(st)].parts
           /\ st2[Len(st)].idx = st[Len(st)].idx + 1 /\ st2[Len(st)].qg = st[Len(st)].qg
           /\ st2[Len(st)].implicit = "unchecked"
  <1> DEFINE l == MovedOn(st[Len(st)])
  <1>1. st[Len(st)] \in LevelType OBVIOUS
  <1>2. /\ l \in LevelType /\ l.split = st[Len(st)].split /\ l.parts = st[Len(st)].parts
        /\ l.idx = st[Len(st)].idx + 1 /\ l.qg = st[Len(st)].qg /\ l.implicit = "unchecked"
    BY <1>1, MovedLevel
  <1> HIDE DEF l
  <1>3. /\ st2 \in Seq(LevelType) /\ Len(st2) = Len(st) /\ st2[Len(st)] = l
        /\ \A i \in 1 .. Len(st) - 1 : st2[i] = st[i]
    <2>1. st2 = [st EXCEPT ![Len(st)] = l] BY DEF l
    <2> QED BY <1>2, <2>1, LastReplaced
  <1>4. Kept(st, st2, Len(st) - 1) BY <1>3, Zenon DEF Kept
  <1> QED BY <1>2, <1>3, <1>4

----------------------------------------------------------------------------
(* The way from the CTU to the current area *)

UpTo(st, S, n) == {i \in 2 .. n : st[i].split \in S}

(* Each level but the first is a split of the current part of the level    *)
(* above, and only the last may be one of a transform tree.                *)
WayShape(st) ==
    /\ st \in Seq(LevelType) /\ Len(st) >= 1
    /\ \A i \in 1 .. Len(st) : st[i].idx < Len(st[i].parts)
    /\ st[1].split = "ctu" /\ st[1].parts = <<CtuArea>>
    /\ \A i \in 2 .. Len(st) : /\ st[i].split # "ctu"
                               /\ st[i].split \in TtSplits => Len(st[i].parts) = 3
    /\ \A i \in 1 .. Len(st) - 1 : st[i].split \notin TuSplits

(* The parts of a transform tree are not above the largest transform.      *)
WayTransforms(st) ==
    \A i \in 1 .. Len(st) : st[i].split \in TuSplits =>
        \A k \in DOMAIN st[i].parts : st[i].parts[k].w <= MaxTbSize /\ st[i].parts[k].h <= MaxTbSize

(* Parts tile the area they are of, and lie in all areas above.            *)
WayTiled(st) ==
    /\ \A i \in 2 .. Len(st) : Tiles(st[i].parts, AreaOf(st[i - 1]))
    /\ \A i \in 1 .. Len(st) : \A j \in 1 .. i - 1 : \A k \in DOMAIN st[i].parts :
            Inside(st[i].parts[k], AreaOf(st[j]))

(* The other parts may be CUs, are halved at each level, and as long as    *)
(* all splits are in four, squares.                                        *)
SmallerBy(parts, n) ==
    \A k \in DOMAIN parts : FloorLog2(parts[k].w) + FloorLog2(parts[k].h) + n <= 2 * FloorLog2(CtuSize)
Squares(parts) == \A k \in DOMAIN parts : parts[k].w = parts[k].h
WayAreas(st) ==
    \A i \in 1 .. Len(st) : st[i].split \notin TuSplits =>
        /\ \A k \in DOMAIN st[i].parts : CuArea(st[i].parts[k])
        /\ SmallerBy(st[i].parts, i - 1)
        /\ UpTo(st, MtSplits, i) = {} => Squares(st[i].parts)

Way(st) == WayShape(st) /\ WayTransforms(st) /\ WayTiled(st) /\ WayAreas(st)

LEMMA WayLevels ==
    ASSUME NEW st, WayShape(st)
    PROVE  /\ Len(st) \in Nat /\ Len(st) >= 1 /\ DOMAIN st = 1 .. Len(st)
           /\ \A i \in 1 .. Len(st) :
                /\ st[i] \in LevelType /\ st[i].parts \in Seq(Areas) /\ st[i].idx \in Nat
                /\ st[i].idx + 1 \in DOMAIN st[i].parts /\ AreaOf(st[i]) \in Areas
                /\ AreaOf(st[i]) = st[i].parts[st[i].idx + 1]
  <1>1. st \in Seq(LevelType) /\ Len(st) >= 1 /\ \A i \in 1 .. Len(st) : st[i].idx < Len(st[i].parts)
    BY DEF WayShape
  <1>2. Len(st) \in Nat /\ DOMAIN st = 1 .. Len(st) BY <1>1
  <1>3. ASSUME NEW i \in 1 .. Len(st)
        PROVE  /\ st[i] \in LevelType /\ st[i].parts \in Seq(Areas) /\ st[i].idx \in Nat
               /\ st[i].idx + 1 \in DOMAIN st[i].parts /\ AreaOf(st[i]) \in Areas
               /\ AreaOf(st[i]) = st[i].parts[st[i].idx + 1]
    <2>1. st[i] \in LevelType BY <1>1
    <2>2. st[i].parts \in Seq(Areas) /\ st[i].idx \in Nat BY <2>1, LevelFields
    <2>3. st[i].idx < Len(st[i].parts) BY <1>1
    <2>4. st[i].idx + 1 \in DOMAIN st[i].parts BY <2>2, <2>3
    <2>5. AreaOf(st[i]) = st[i].parts[st[i].idx + 1] BY DEF AreaOf
    <2>6. st[i].parts[st[i].idx + 1] \in Areas BY <2>2, <2>4
    <2> QED BY <2>1, <2>2, <2>4, <2>5, <2>6
  <1> QED BY <1>1, <1>2, <1>3

(* What is the same when the first levels are kept.                        *)
LEMMA KeptAreas ==
    ASSUME NEW st, NEW st2, NEW n \in Nat, Kept(st, st2, n)
    PROVE  /\ \A i \in 1 .. n : AreaOf(st2[i]) = AreaOf(st[i])
           /\ \A S : UpTo(st2, S, n) = UpTo(st, S, n)
           /\ \A m \in 0 .. n : Kept(st, st2, m)
  <1>1. \A i \in 1 .. n : AreaOf(st2[i]) = AreaOf(st[i]) BY DEF Kept, AreaOf
  <1>2. \A S : UpTo(st2, S, n) = UpTo(st, S, n)
    <2>1. 2 .. n \subseteq 1 .. n OBVIOUS
    <2> QED BY <2>1, Zenon DEF Kept, UpTo
  <1>3. \A m \in 0 .. n : Kept(st, st2, m)
    <2>1. \A m \in 0 .. n : 1 .. m \subseteq 1 .. n OBVIOUS
    <2> QED BY <2>1, Zenon DEF Kept
  <1> QED BY <1>1, <1>2, <1>3

SplitsAgree(st, st2, n) == \A i \in 1 .. n : st2[i].split = st[i].split

LEMMA SameSplits ==
    ASSUME NEW st, NEW st2, NEW n \in Nat, SplitsAgree(st, st2, n)
    PROVE  \A S : \A m \in 0 .. n : UpTo(st2, S, m) = UpTo(st, S, m)
  <1>1. \A m \in 0 .. n : 2 .. m \subseteq 1 .. n OBVIOUS
  <1> QED BY <1>1, Zenon DEF UpTo, SplitsAgree

LEMMA OneElement ==
    ASSUME NEW T, NEW e \in T
    PROVE  <<e>> \in Seq(T) /\ Len(<<e>>) = 1 /\ <<e>>[1] = e
  OBVIOUS

(* The CTU itself.                                                         *)
LEMMA OneLevel ==
    ASSUME NEW st \in Seq(LevelType), Len(st) = 1, st[1].split = "ctu", st[1].parts = <<CtuArea>>,
           st[1].idx = 0
    PROVE  Way(st) /\ AreaOf(st[1]) = CtuArea
  <1>1. /\ CtuArea \in Areas /\ CtuArea.x = 0 /\ CtuArea.y = 0
        /\ CtuArea.w = CtuSize /\ CtuArea.h = CtuSize /\ CtuSize \in Nat /\ CtuSize \in BlockSizes
        /\ MinCbSize <= CtuSize /\ MinCbSize \in Nat
    BY TreeAssumption DEF CtuArea, Areas, BlockSizes
  <1>2. <<CtuArea>> \in Seq(Areas) /\ Len(<<CtuArea>>) = 1 /\ <<CtuArea>>[1] = CtuArea
        /\ DOMAIN <<CtuArea>> = {1}
    <2> HIDE DEF CtuArea
    <2> QED BY <1>1
  <1>4. "ctu" \notin TuSplits /\ "ctu" \notin MtSplits
    BY DEF TuSplits, SbtSplits, MtSplits, BtSplits, TtSplits
  <1>6. 1 .. 1 = {1} /\ 2 .. 1 = {} /\ 1 .. 0 = {} /\ 1 - 1 = 0 /\ 1 >= 1 /\ 0 + 1 = 1 /\ 0 < 1
        /\ (\A i \in 1 .. 1 : i = 1) /\ (\A i \in 2 .. 1 : FALSE) /\ (\A i \in 1 .. 1 - 1 : FALSE)
    OBVIOUS
  <1>5. Len(st) = 1 /\ st \in Seq(LevelType) OBVIOUS
  <1>13. st[1].split = "ctu" /\ st[1].parts = <<CtuArea>> /\ st[1].idx = 0
    OBVIOUS
  <1>14. \A i \in 1 .. Len(st) : st[i] = st[1] /\ i = 1 BY <1>5, <1>6, Zenon
  <1>7. WayShape(st)
    <2>1. \A i \in 1 .. Len(st) : st[i].idx < Len(st[i].parts)
      <3>1. st[1].idx < Len(st[1].parts) BY <1>2, <1>6, <1>13, Zenon
      <3> QED BY <1>14, <3>1, Zenon
    <2>2. \A i \in 2 .. Len(st) : /\ st[i].split # "ctu"
                                   /\ st[i].split \in TtSplits => Len(st[i].parts) = 3
      BY <1>5, <1>6, Zenon
    <2>3. \A i \in 1 .. Len(st) - 1 : st[i].split \notin TuSplits
      BY <1>5, <1>6, Zenon
    <2>4. Len(st) >= 1 BY <1>5, <1>6, Zenon
    <2>5. st \in Seq(LevelType) BY <1>5
    <2> QED BY <1>13, <2>1, <2>2, <2>3, <2>4, <2>5 DEF WayShape
  <1>8. WayTransforms(st)
    <2>1. st[1].split \notin TuSplits BY <1>4, <1>13, Zenon
    <2> QED BY <1>14, <2>1, Zenon DEF WayTransforms
  <1>9. WayTiled(st) BY <1>5, <1>6, Zenon DEF WayTiled
  <1>10. CuArea(CtuArea)
    <2>1. Whole(0)
      <3>1. 0 \in 0 .. 0 /\ 0 = MinCbSize * 0 BY <1>1
      <3> QED BY <3>1 DEF Whole
    <2>2. 0 + CtuSize <= CtuSize BY <1>1
    <2> QED BY <1>1, <2>1, <2>2, Zenon DEF CuArea
  <1>11. WayAreas(st)
    <2>1. FloorLog2(CtuSize) + FloorLog2(CtuSize) + 0 <= 2 * FloorLog2(CtuSize)
      <3>1. FloorLog2(CtuSize) \in Nat BY <1>1, BlockType
      <3> HIDE DEF FloorLog2
      <3> QED BY <3>1
    <2>2. SmallerBy(<<CtuArea>>, 0)
      <3> HIDE DEF FloorLog2
      <3> QED BY <1>1, <1>2, <2>1, Zenon DEF SmallerBy
    <2>3. Squares(<<CtuArea>>) BY <1>1, <1>2, Zenon DEF Squares
    <2>4. \A k \in DOMAIN <<CtuArea>> : CuArea(<<CtuArea>>[k])
      BY <1>2, <1>10, Zenon
    <2>5. SmallerBy(st[1].parts, 1 - 1) /\ Squares(st[1].parts)
          /\ \A k \in DOMAIN st[1].parts : CuArea(st[1].parts[k])
      BY <1>6, <1>13, <2>2, <2>3, <2>4, Zenon
    <2> QED BY <1>14, <2>5, Zenon DEF WayAreas
  <1>12. AreaOf(st[1]) = CtuArea
    <2>1. AreaOf(st[1]) = <<CtuArea>>[0 + 1] BY <1>13, Zenon DEF AreaOf
    <2> QED BY <1>2, <1>6, <2>1, Zenon
  <1> QED BY <1>7, <1>8, <1>9, <1>11, <1>12 DEF Way

LEMMA WayOfCtu ==
    ASSUME NEW st, st = <<Level("ctu", <<CtuArea>>, TRUE)>>
    PROVE  /\ Way(st) /\ Len(st) = 1 /\ st[1].split = "ctu" /\ st[1].parts = <<CtuArea>>
           /\ st[1].idx = 0 /\ st[1].implicit = "unchecked" /\ st[1].qg = TRUE
           /\ AreaOf(st[1]) = CtuArea
  <1> DEFINE l == Level("ctu", <<CtuArea>>, TRUE)
  <1>1. /\ CtuArea \in Areas /\ CtuArea.x = 0 /\ CtuArea.y = 0
        /\ CtuArea.w = CtuSize /\ CtuArea.h = CtuSize /\ CtuSize \in Nat /\ CtuSize \in BlockSizes
        /\ MinCbSize <= CtuSize /\ MinCbSize \in Nat
    BY TreeAssumption DEF CtuArea, Areas, BlockSizes
  <1>2. <<CtuArea>> \in Seq(Areas) /\ Len(<<CtuArea>>) = 1 /\ <<CtuArea>>[1] = CtuArea
        /\ DOMAIN <<CtuArea>> = {1}
    <2> HIDE DEF CtuArea
    <2> QED BY <1>1
  <1>3. l \in LevelType /\ l.split = "ctu" /\ l.parts = <<CtuArea>> /\ l.idx = 0
        /\ l.implicit = "unchecked" /\ l.qg = TRUE
    <2>1. PICK s, qg : s = "ctu" /\ qg = TRUE OBVIOUS
    <2>2. s \in CuSplits \cup TuSplits \cup {"ctu"} /\ qg \in BOOLEAN BY <2>1
    <2>3. PICK parts : parts = <<CtuArea>> OBVIOUS
    <2>4. parts \in Seq(Areas) BY <1>2, <2>3
    <2>5. PICK x : x = Level(s, parts, qg) OBVIOUS
    <2>6. /\ x \in LevelType /\ x.split = s /\ x.parts = parts /\ x.idx = 0
          /\ x.implicit = "unchecked" /\ x.qg = qg
      BY <2>2, <2>4, <2>5, NewLevel
    <2>7. x = l BY <2>1, <2>3, <2>5
    <2> QED BY <2>1, <2>3, <2>6, <2>7
  <1> HIDE DEF l
  <1>4. st \in Seq(LevelType) /\ Len(st) = 1 /\ st[1] = l
    <2>1. st = <<l>> BY DEF l
    <2>2. l \in LevelType BY <1>3
    <2> QED BY <2>1, <2>2, OneElement
  <1>5. /\ st[1].split = "ctu" /\ st[1].parts = <<CtuArea>> /\ st[1].idx = 0
        /\ st[1].implicit = "unchecked" /\ st[1].qg = TRUE
    BY <1>3, <1>4, Zenon
  <1>6. Way(st) /\ AreaOf(st[1]) = CtuArea BY <1>4, <1>5, OneLevel, Zenon
  <1> QED BY <1>4, <1>5, <1>6

(* The way stays one when the last levels are left, and the one that is    *)
(* last then comes to another of its parts.                                *)
LEMMA WayFollowed ==
    ASSUME NEW st, Way(st), NEW st2 \in Seq(LevelType), NEW m \in 1 .. Len(st), Len(st2) = m,
           Kept(st, st2, m - 1), st2[m].split = st[m].split, st2[m].parts = st[m].parts,
           st2[m].idx < Len(st[m].parts)
    PROVE  Way(st2)
  <1>1. WayShape(st) /\ WayTransforms(st) /\ WayTiled(st) /\ WayAreas(st) BY DEF Way
  <1>2. Len(st) \in Nat /\ m \in Nat /\ m >= 1 /\ m <= Len(st) BY <1>1, WayLevels
  <1>3. \A i \in 1 .. m - 1 : /\ st2[i].split = st[i].split /\ st2[i].parts = st[i].parts
                              /\ st2[i].idx = st[i].idx /\ i \in 1 .. Len(st) - 1
                              /\ AreaOf(st2[i]) = AreaOf(st[i])
    <2>1. 1 .. m - 1 \subseteq 1 .. Len(st) - 1 BY <1>2
    <2> QED BY <2>1, Zenon DEF Kept, AreaOf
  <1>4. \A i \in 1 .. m : i \in 1 .. m - 1 \/ i = m BY <1>2
  <1>5. \A i \in 1 .. m : st2[i].split = st[i].split /\ st2[i].parts = st[i].parts /\ i \in 1 .. Len(st)
    <2>1. 1 .. m \subseteq 1 .. Len(st) BY <1>2
    <2> QED BY <1>3, <1>4, <2>1, Zenon
  <1>6. \A i \in 2 .. m : i \in 1 .. m /\ i \in 2 .. Len(st) /\ i - 1 \in 1 .. m - 1 BY <1>2
  <1>7. WayShape(st2)
    <2>1. \A i \in 1 .. m : st2[i].idx < Len(st2[i].parts)
      BY <1>1, <1>3, <1>4, <1>5, Zenon DEF WayShape
    <2>2. st2[1].split = "ctu" /\ st2[1].parts = <<CtuArea>>
      <3>1. 1 \in 1 .. m BY <1>2
      <3> QED BY <1>1, <1>5, <3>1, Zenon DEF WayShape
    <2>3. \A i \in 2 .. m : /\ st2[i].split # "ctu"
                            /\ st2[i].split \in TtSplits => Len(st2[i].parts) = 3
      BY <1>1, <1>5, <1>6, Zenon DEF WayShape
    <2>4. \A i \in 1 .. m - 1 : st2[i].split \notin TuSplits
      BY <1>1, <1>3, Zenon DEF WayShape
    <2> QED BY <1>2, <2>1, <2>2, <2>3, <2>4, Zenon DEF WayShape
  <1>8. WayTransforms(st2) BY <1>1, <1>5, Zenon DEF WayTransforms
  <1>9. WayTiled(st2)
    <2>1. \A i \in 2 .. m : Tiles(st2[i].parts, AreaOf(st2[i - 1]))
      BY <1>1, <1>3, <1>5, <1>6, Zenon DEF WayTiled
    <2>2. \A i \in 1 .. m : \A j \in 1 .. i - 1 : \A k \in DOMAIN st2[i].parts :
              Inside(st2[i].parts[k], AreaOf(st2[j]))
      <3>1. \A i \in 1 .. m : \A j \in 1 .. i - 1 : j \in 1 .. m - 1 BY <1>2
      <3> QED BY <1>1, <1>3, <1>5, <3>1, Zenon DEF WayTiled
    <2> QED BY <2>1, <2>2, Zenon DEF WayTiled
  <1>10. WayAreas(st2)
    <2>1. \A i \in 1 .. m : UpTo(st2, MtSplits, i) = UpTo(st, MtSplits, i)
      <3>1. \A i \in 1 .. m : i \in 0 .. m BY <1>2
      <3>2. SplitsAgree(st, st2, m) BY <1>5, Zenon DEF SplitsAgree
      <3> QED BY <1>2, <3>1, <3>2, SameSplits
    <2> QED BY <1>1, <1>5, <2>1, Zenon DEF WayAreas
  <1> QED BY <1>7, <1>8, <1>9, <1>10 DEF Way

(* One more level, for a split of the current area.                        *)
LEMMA WayPushed ==
    ASSUME NEW st, Way(st), NEW st2 \in Seq(LevelType), Len(st2) = Len(st) + 1,
           Kept(st, st2, Len(st)), NEW s \in CuSplits \cup TuSplits, NEW a, a = AreaOf(st[Len(st)]),
           st[Len(st)].split \notin TuSplits,
           st2[Len(st) + 1].split = s, st2[Len(st) + 1].idx = 0,
           st2[Len(st) + 1].parts = SubParts(a, s),
           s \in CuSplits => Splittable(a, s),
           s = "quad" => UpTo(st, MtSplits, Len(st)) = {},
           s \in SbtSplits => a.w <= MaxTbSize /\ a.h <= MaxTbSize
    PROVE  /\ Way(st2) /\ Tiles(SubParts(a, s), a)
           /\ Pos(AreaOf(st2[Len(st) + 1])) = Pos(a)
  <1> DEFINE n == Len(st)
             f == SubParts(a, s)
  <1>1. WayShape(st) /\ WayTransforms(st) /\ WayTiled(st) /\ WayAreas(st) BY DEF Way
  <1>2. n \in Nat /\ n >= 1 /\ n \in 1 .. n BY <1>1, WayLevels
  <1>3. a \in Areas /\ CuArea(a) /\ a = st[n].parts[st[n].idx + 1]
        /\ st[n].idx + 1 \in DOMAIN st[n].parts
    <2>1. a \in Areas /\ a = st[n].parts[st[n].idx + 1] /\ st[n].idx + 1 \in DOMAIN st[n].parts
      BY <1>1, <1>2, WayLevels, Zenon
    <2> QED BY <1>1, <1>2, <2>1, Zenon DEF WayAreas
  <1>4. a.w \in BlockSizes /\ a.h \in BlockSizes BY <1>3 DEF CuArea
  <1>5. CuSplits \cap TuSplits = {} /\ "ctu" \notin CuSplits /\ "ctu" \notin TuSplits
        /\ "quad" \notin TtSplits /\ TtSplits \subseteq CuSplits /\ "quad" \in CuSplits
        /\ SbtSplits \subseteq TuSplits /\ CuSplits = MtSplits \cup {"quad"}
    BY DEF CuSplits, TuSplits, SbtSplits, MtSplits, BtSplits, TtSplits
  <1>6. /\ Tiles(f, a)
        /\ s \in CuSplits => /\ Len(f) = NumParts(s) /\ PartsAreCuAreas(f, a)
                             /\ s = "quad" => Squares(f)
        /\ s \in TuSplits => \A k \in DOMAIN f : f[k].w <= MaxTbSize /\ f[k].h <= MaxTbSize
    <2>1. CASE s \in CuSplits BY <1>3, <1>5, <2>1, CuParts DEF Squares
    <2>2. CASE s \in TuSplits BY <1>3, <1>4, <1>5, <2>2, TuParts
    <2> QED BY <2>1, <2>2
  <1>7. s \in TtSplits => Len(f) = 3
    <2>1. s \in TtSplits => NumParts(s) = 3 BY <1>5 DEF NumParts
    <2> QED BY <1>5, <1>6, <2>1, Zenon
  <1> HIDE DEF f
  <1>8. /\ st2[n + 1].split = s /\ st2[n + 1].idx = 0 /\ st2[n + 1].parts = f
        /\ f \in Seq(Areas) /\ Len(f) >= 1 /\ Pos(f[1]) = Pos(a) /\ 1 \in DOMAIN f
    <2>1. f \in Seq(Areas) /\ Len(f) >= 1 /\ Pos(f[1]) = Pos(a) BY <1>6 DEF Tiles
    <2> QED BY <2>1 DEF f
  <1> HIDE DEF n
  <1>9. AreaOf(st2[n + 1]) = f[1]
    <2>1. AreaOf(st2[n + 1]) = f[0 + 1] BY <1>8, Zenon DEF AreaOf
    <2> QED BY <2>1
  <1>10. \A i \in 1 .. n : /\ st2[i].split = st[i].split /\ st2[i].parts = st[i].parts
                           /\ st2[i].idx = st[i].idx /\ AreaOf(st2[i]) = AreaOf(st[i])
    BY Zenon DEF n, Kept, AreaOf
  <1>11. \A i \in 1 .. n + 1 : i \in 1 .. n \/ i = n + 1 BY <1>2
  <1>12. \A i \in 2 .. n + 1 : i \in 2 .. n \/ i = n + 1 BY <1>2
  <1>13. 2 .. n \subseteq 1 .. n /\ (n + 1) - 1 = n /\ 1 .. n - 1 \subseteq 1 .. n BY <1>2
  <1>14. a = AreaOf(st[n]) /\ Len(st2) = n + 1 /\ st[n].split \notin TuSplits BY DEF n
  <1>15. WayShape(st2)
    <2>1. \A i \in 1 .. n + 1 : st2[i].idx < Len(st2[i].parts)
      <3>1. 0 < Len(f) BY <1>8
      <3>2. \A i \in 1 .. n : st[i].idx < Len(st[i].parts) BY <1>1 DEF WayShape, n
      <3> QED BY <1>8, <1>10, <1>11, <3>1, <3>2, Zenon
    <2>2. st2[1].split = "ctu" /\ st2[1].parts = <<CtuArea>>
      <3>1. 1 \in 1 .. n BY <1>2
      <3> QED BY <1>1, <1>10, <3>1, Zenon DEF WayShape
    <2>3. \A i \in 2 .. n + 1 : /\ st2[i].split # "ctu"
                                /\ st2[i].split \in TtSplits => Len(st2[i].parts) = 3
      <3>1. \A i \in 2 .. n : /\ st[i].split # "ctu"
                              /\ st[i].split \in TtSplits => Len(st[i].parts) = 3
        BY <1>1 DEF WayShape, n
      <3>2. s # "ctu" BY <1>5
      <3> QED BY <1>7, <1>8, <1>10, <1>12, <1>13, <3>1, <3>2, Zenon
    <2>4. \A i \in 1 .. (n + 1) - 1 : st2[i].split \notin TuSplits
      <3>1. \A i \in 1 .. n - 1 : st[i].split \notin TuSplits BY <1>1 DEF WayShape, n
      <3>2. \A i \in 1 .. n : i \in 1 .. n - 1 \/ i = n BY <1>2
      <3> QED BY <1>10, <1>13, <1>14, <3>1, <3>2, Zenon
    <2>5. n + 1 >= 1 BY <1>2
    <2> QED BY <1>14, <2>1, <2>2, <2>3, <2>4, <2>5, Zenon DEF WayShape
  <1>16. WayTransforms(st2)
    <2>1. \A i \in 1 .. n : st[i].split \in TuSplits =>
            \A k \in DOMAIN st[i].parts : st[i].parts[k].w <= MaxTbSize /\ st[i].parts[k].h <= MaxTbSize
      BY <1>1 DEF WayTransforms, n
    <2> QED BY <1>6, <1>8, <1>10, <1>11, <1>14, <2>1, Zenon DEF WayTransforms
  <1>17. WayTiled(st2)
    <2>1. \A i \in 2 .. n + 1 : Tiles(st2[i].parts, AreaOf(st2[i - 1]))
      <3>1. \A i \in 2 .. n : Tiles(st[i].parts, AreaOf(st[i - 1])) /\ i - 1 \in 1 .. n
        <4>1. \A i \in 2 .. n : i - 1 \in 1 .. n BY <1>2
        <4> QED BY <1>1, <4>1 DEF WayTiled, n
      <3> QED BY <1>2, <1>6, <1>8, <1>10, <1>12, <1>13, <1>14, <3>1, Zenon
    <2>2. ASSUME NEW i \in 1 .. n + 1, NEW j \in 1 .. i - 1, NEW k \in DOMAIN st2[i].parts
          PROVE  Inside(st2[i].parts[k], AreaOf(st2[j]))
      <3>1. j \in 1 .. n BY <1>2
      <3>2. CASE i \in 1 .. n
        BY <1>1, <1>10, <2>2, <3>1, <3>2, Zenon DEF WayTiled, n
      <3>3. CASE i = n + 1
        <4>1. f[k] \in Areas /\ Inside(f[k], a)
          <5>1. k \in DOMAIN f BY <1>8, <2>2, <3>3
          <5> QED BY <1>6, <5>1 DEF Tiles
        <4>2. CASE j = n BY <1>8, <1>10, <1>14, <3>1, <3>3, <4>1, <4>2, Zenon
        <4>3. CASE j \in 1 .. n - 1
          <5>1. Inside(a, AreaOf(st[j])) BY <1>1, <1>2, <1>3, <4>3, Zenon DEF WayTiled, n
          <5>2. AreaOf(st[j]) \in Areas BY <1>1, <3>1, WayLevels DEF n
          <5>3. Inside(f[k], AreaOf(st[j])) BY <1>3, <4>1, <5>1, <5>2, InsideOneAnother
          <5> QED BY <1>8, <1>10, <3>1, <3>3, <5>3, Zenon
        <4>4. j = n \/ j \in 1 .. n - 1 BY <1>2, <3>1
        <4> QED BY <4>2, <4>3, <4>4
      <3> QED BY <1>11, <3>2, <3>3
    <2> QED BY <1>14, <2>1, <2>2, Zenon DEF WayTiled
  <1>18. WayAreas(st2)
    <2>1. \A i \in 1 .. n : UpTo(st2, MtSplits, i) = UpTo(st, MtSplits, i)
      <3>1. \A i \in 1 .. n : i \in 0 .. n BY <1>2
      <3>2. SplitsAgree(st, st2, n) BY <1>10, Zenon DEF SplitsAgree
      <3> QED BY <1>2, <3>1, <3>2, SameSplits
    <2>2. \A i \in 1 .. n : st[i].split \notin TuSplits =>
            /\ \A k \in DOMAIN st[i].parts : CuArea(st[i].parts[k])
            /\ SmallerBy(st[i].parts, i - 1)
            /\ UpTo(st, MtSplits, i) = {} => Squares(st[i].parts)
      BY <1>1 DEF WayAreas, n
    <2>3. ASSUME s \in CuSplits
          PROVE  /\ \A k \in DOMAIN f : CuArea(f[k])
                 /\ SmallerBy(f, n)
                 /\ UpTo(st2, MtSplits, n + 1) = {} => Squares(f)
      <3>1. PartsAreCuAreas(f, a) BY <1>6, <2>3
      <3>2. SmallerBy(f, n)
        <4> SUFFICES ASSUME NEW k \in DOMAIN f
                     PROVE  FloorLog2(f[k].w) + FloorLog2(f[k].h) + n <= 2 * FloorLog2(CtuSize)
          BY DEF SmallerBy
        <4>1. CuArea(f[k]) /\ FloorLog2(f[k].w) + FloorLog2(f[k].h) + 1 <= FloorLog2(a.w) + FloorLog2(a.h)
          BY <3>1, Zenon DEF PartsAreCuAreas
        <4>2. FloorLog2(a.w) + FloorLog2(a.h) + (n - 1) <= 2 * FloorLog2(CtuSize)
          <5>1. SmallerBy(st[n].parts, n - 1) BY <1>2, <1>14, <2>2, Zenon
          <5> QED BY <1>3, <5>1, Zenon DEF SmallerBy
        <4>3. f[k].w \in BlockSizes /\ f[k].h \in BlockSizes /\ CtuSize \in BlockSizes
          BY <4>1, TreeAssumption DEF CuArea, BlockSizes
        <4>4. /\ FloorLog2(f[k].w) \in Nat /\ FloorLog2(f[k].h) \in Nat
              /\ FloorLog2(a.w) \in Nat /\ FloorLog2(a.h) \in Nat /\ FloorLog2(CtuSize) \in Nat
          BY <1>4, <4>3, BlockType
        <4> HIDE DEF FloorLog2
        <4> QED BY <1>2, <4>1, <4>2, <4>4
      <3>3. ASSUME UpTo(st2, MtSplits, n + 1) = {} PROVE Squares(f)
        <4>1. n + 1 \in 2 .. n + 1 BY <1>2
        <4>2. s \notin MtSplits BY <1>8, <3>3, <4>1 DEF UpTo
        <4>3. s = "quad" BY <1>5, <2>3, <4>2
        <4> QED BY <1>6, <2>3, <4>3
      <3> QED BY <3>1, <3>2, <3>3, Zenon DEF PartsAreCuAreas
    <2>4. ASSUME NEW i \in 1 .. n + 1, st2[i].split \notin TuSplits
          PROVE  /\ \A k \in DOMAIN st2[i].parts : CuArea(st2[i].parts[k])
                 /\ SmallerBy(st2[i].parts, i - 1)
                 /\ UpTo(st2, MtSplits, i) = {} => Squares(st2[i].parts)
      <3>1. CASE i \in 1 .. n
        <4>1. st2[i].split = st[i].split /\ st2[i].parts = st[i].parts
              /\ UpTo(st2, MtSplits, i) = UpTo(st, MtSplits, i)
          BY <1>10, <2>1, <3>1, Zenon
        <4> QED BY <2>2, <2>4, <3>1, <4>1, Zenon
      <3>2. CASE i = n + 1
        <4>1. s \in CuSplits BY <1>8, <2>4, <3>2, Zenon
        <4>2. i - 1 = n /\ st2[i].parts = f BY <1>8, <1>13, <3>2
        <4> QED BY <2>3, <3>2, <4>1, <4>2, Zenon
      <3> QED BY <1>11, <3>1, <3>2, Zenon
    <2> QED BY <1>14, <2>4, Zenon DEF WayAreas
  <1>19. Way(st2) BY <1>15, <1>16, <1>17, <1>18 DEF Way
  <1> QED BY <1>6, <1>8, <1>9, <1>19, Zenon DEF f, n

----------------------------------------------------------------------------
(* The border of the picture *)

Extent == [x : Extents, y : Extents]
Within(e, p) == p.x < e.x /\ p.y < e.y
Below(e, a) == ~(a.x < e.x /\ a.y + a.h - 1 < e.y)
Beyond(e, a) == ~(a.x + a.w - 1 < e.x /\ a.y < e.y)
Crosses(e, a) == Below(e, a) \/ Beyond(e, a)

LEMMA BorderOperators ==
    /\ \A p : InPicture(p) <=> Within(extent, p)
    /\ \A a : ~BlInPic(a) <=> Below(extent, a)
    /\ \A a : ~TrInPic(a) <=> Beyond(extent, a)
    /\ \A a : CrossesBorder(a) <=> Crosses(extent, a)
  BY DEF InPicture, BlInPic, TrInPic, CrossesBorder, Within, Below, Beyond, Crosses

LEMMA ExtentFields ==
    ASSUME NEW e \in Extent
    PROVE  /\ e.x \in Nat /\ e.x > 0 /\ Whole(e.x) /\ e.x <= CtuSize
           /\ e.y \in Nat /\ e.y > 0 /\ Whole(e.y) /\ e.y <= CtuSize
  <1>1. e.x \in Extents /\ e.y \in Extents BY DEF Extent
  <1> QED BY <1>1, ExtentType

LEMMA AtBorder ==
    ASSUME NEW e \in Extent, NEW a \in Areas, Within(e, a)
    PROVE  /\ Below(e, a) <=> a.y + a.h > e.y
           /\ Beyond(e, a) <=> a.x + a.w > e.x
           /\ ~Crosses(e, a) => a.x + a.w <= e.x /\ a.y + a.h <= e.y
  <1>1. /\ e.x \in Nat /\ e.y \in Nat
        /\ a.x \in Nat /\ a.y \in Nat /\ a.w \in Nat /\ a.h \in Nat
    BY ExtentFields, AreaType
  <1>2. a.x < e.x /\ a.y < e.y BY DEF Within
  <1>3. Below(e, a) <=> a.y + a.h > e.y BY <1>1, <1>2 DEF Below
  <1>4. Beyond(e, a) <=> a.x + a.w > e.x BY <1>1, <1>2 DEF Beyond
  <1>5. ~Crosses(e, a) => a.x + a.w <= e.x /\ a.y + a.h <= e.y
    BY <1>1, <1>3, <1>4 DEF Crosses
  <1> QED BY <1>3, <1>4, <1>5

(* An area around one that crosses the border crosses it.                  *)
LEMMA CrossesAround ==
    ASSUME NEW e \in Extent, NEW a \in Areas, NEW b \in Areas,
           Within(e, a), Within(e, b), Inside(a, b), Crosses(e, a)
    PROVE  Crosses(e, b)
  <1>1. /\ e.x \in Nat /\ e.y \in Nat
        /\ a.x \in Nat /\ a.y \in Nat /\ a.w \in Nat /\ a.h \in Nat
        /\ b.x \in Nat /\ b.y \in Nat /\ b.w \in Nat /\ b.h \in Nat
    BY ExtentFields, AreaType
  <1>2. a.x + a.w <= b.x + b.w /\ a.y + a.h <= b.y + b.h BY DEF Inside
  <1>3. CASE Below(e, a)
    <2>1. a.y + a.h > e.y BY <1>3, AtBorder
    <2>2. b.y + b.h > e.y BY <1>1, <1>2, <2>1
    <2> QED BY <2>2, AtBorder DEF Crosses
  <1>4. CASE Beyond(e, a)
    <2>1. a.x + a.w > e.x BY <1>4, AtBorder
    <2>2. b.x + b.w > e.x BY <1>1, <1>2, <2>1
    <2> QED BY <2>2, AtBorder DEF Crosses
  <1> QED BY <1>3, <1>4 DEF Crosses

(* An area that crosses it is not one of the least.                        *)
LEMMA CrossesSplittable ==
    ASSUME NEW e \in Extent, NEW a \in Areas, CuArea(a), Within(e, a)
    PROVE  /\ Below(e, a) => a.h > MinCbSize
           /\ Beyond(e, a) => a.w > MinCbSize
  <1>1. /\ e.x \in Nat /\ e.y \in Nat /\ Whole(e.x) /\ Whole(e.y)
        /\ a.x \in Nat /\ a.y \in Nat /\ a.w \in Nat /\ a.h \in Nat
    BY ExtentFields, AreaType
  <1>2. /\ a.w \in BlockSizes /\ a.h \in BlockSizes /\ a.w >= MinCbSize /\ a.h >= MinCbSize
        /\ Whole(a.x) /\ Whole(a.y)
    BY DEF CuArea
  <1>3. a.x < e.x /\ a.y < e.y BY DEF Within
  <1>4. ASSUME Below(e, a) PROVE a.h > MinCbSize
    <2>1. a.y + a.h > e.y BY <1>4, AtBorder
    <2>2. e.y < a.y + a.h BY <1>1, <2>1
    <2> QED BY <1>1, <1>2, <1>3, <2>2, BorderInside
  <1>5. ASSUME Beyond(e, a) PROVE a.w > MinCbSize
    <2>1. a.x + a.w > e.x BY <1>5, AtBorder
    <2>2. e.x < a.x + a.w BY <1>1, <2>1
    <2> QED BY <1>1, <1>2, <1>3, <2>2, BorderInside
  <1> QED BY <1>4, <1>5

----------------------------------------------------------------------------
(* The implicit split of a level, from the way to it instead of the depths *)

ImplicitUpTo(st, e, n) == {i \in UpTo(st, MtSplits, n) : Crosses(e, AreaOf(st[i - 1]))}

ImplicitOf(l, e, a, mt, implicit) ==
    LET isBtAllowed == a.w <= l.maxBt /\ a.h <= l.maxBt /\ mt < l.maxMtt + implicit
        isQtAllowed == a.w > l.minQt /\ a.h > l.minQt /\ mt = 0
    IN  IF Below(e, a) /\ Beyond(e, a) /\ isQtAllowed THEN "quad"
        ELSE IF Below(e, a) /\ isBtAllowed THEN "horz"
        ELSE IF Beyond(e, a) /\ isBtAllowed THEN "vert"
        ELSE IF Below(e, a) \/ Beyond(e, a) THEN "quad"
        ELSE "none"

ImplicitAt(l, e, st, n) ==
    ImplicitOf(l, e, AreaOf(st[n]), Cardinality(UpTo(st, MtSplits, n)),
               Cardinality(ImplicitUpTo(st, e, n)))

LEMMA ImplicitValue ==
    ASSUME NEW l, NEW e, NEW a, NEW mt, NEW implicit
    PROVE  /\ ImplicitOf(l, e, a, mt, implicit) \in {"none", "quad", "horz", "vert"}
           /\ ImplicitOf(l, e, a, mt, implicit) = "none" <=> ~Crosses(e, a)
  BY Zenon DEF ImplicitOf, Crosses

LEMMA Counted ==
    ASSUME NEW st, NEW n \in Nat, NEW S
    PROVE  /\ IsFiniteSet(UpTo(st, S, n)) /\ Cardinality(UpTo(st, S, n)) \in Nat
           /\ \A T \in SUBSET UpTo(st, S, n) :
                /\ IsFiniteSet(T) /\ Cardinality(T) \in Nat
                /\ Cardinality(T) <= Cardinality(UpTo(st, S, n))
           /\ Cardinality(UpTo(st, S, n)) = 0 <=> UpTo(st, S, n) = {}
  <1>1. IsFiniteSet(2 .. n) BY FS_Interval
  <1>2. UpTo(st, S, n) \in SUBSET (2 .. n) BY DEF UpTo
  <1>3. IsFiniteSet(UpTo(st, S, n)) BY <1>1, <1>2, FS_Subset
  <1> QED BY <1>3, FS_Subset, FS_CardinalityType, FS_EmptySet

LEMMA ImplicitCounted ==
    ASSUME NEW st, NEW n \in Nat, NEW e
    PROVE  /\ IsFiniteSet(ImplicitUpTo(st, e, n)) /\ Cardinality(ImplicitUpTo(st, e, n)) \in Nat
           /\ Cardinality(ImplicitUpTo(st, e, n)) <= Cardinality(UpTo(st, MtSplits, n))
  <1>1. ImplicitUpTo(st, e, n) \in SUBSET UpTo(st, MtSplits, n) BY DEF ImplicitUpTo
  <1> QED BY <1>1, Counted

LEMMA SameImplicit ==
    ASSUME NEW st, NEW st2, NEW n \in Nat, Kept(st, st2, n), NEW l, NEW e
    PROVE  /\ \A m \in 1 .. n : ImplicitAt(l, e, st2, m) = ImplicitAt(l, e, st, m)
           /\ \A m \in 1 .. n : ImplicitUpTo(st2, e, m) = ImplicitUpTo(st, e, m)
  <1>1. SplitsAgree(st, st2, n) /\ \A i \in 1 .. n : AreaOf(st2[i]) = AreaOf(st[i])
    BY Zenon DEF Kept, SplitsAgree, AreaOf
  <1>2. ASSUME NEW m \in 1 .. n
        PROVE  /\ UpTo(st2, MtSplits, m) = UpTo(st, MtSplits, m)
               /\ ImplicitUpTo(st2, e, m) = ImplicitUpTo(st, e, m)
    <2>1. m \in 0 .. n OBVIOUS
    <2>2. UpTo(st2, MtSplits, m) = UpTo(st, MtSplits, m) BY <1>1, <2>1, SameSplits
    <2>3. \A i \in UpTo(st, MtSplits, m) : i - 1 \in 1 .. n BY DEF UpTo
    <2>4. \A i \in UpTo(st, MtSplits, m) : AreaOf(st2[i - 1]) = AreaOf(st[i - 1]) BY <1>1, <2>3
    <2>5. ImplicitUpTo(st2, e, m) = ImplicitUpTo(st, e, m)
      BY <2>2, <2>4, Zenon DEF ImplicitUpTo
    <2> QED BY <2>2, <2>5
  <1>3. \A m \in 1 .. n : ImplicitAt(l, e, st2, m) = ImplicitAt(l, e, st, m)
    BY <1>1, <1>2, Zenon DEF ImplicitAt
  <1> QED BY <1>2, <1>3

----------------------------------------------------------------------------
(* The inductive invariant of the walk *)

TShape ==
    /\ limits \in Limits /\ tree \in {"luma", "chroma"} /\ extent \in Extent
    /\ depth \in [all : Int, qt : Int, bt : Int, mt : Int, tr : Int, subdiv : Int, implicitBt : Int]
    /\ qgStart \in BOOLEAN /\ sbt \in SbtSplits \cup {"none"}
    /\ phase \in {"tree", "transform", "next", "end"}
    /\ Way(stack)
    /\ phase = "tree" => Top.split \notin TuSplits
    /\ phase = "end" => Len(stack) = 1

(* What the way has to do with the border of the picture.                  *)
TBorder ==
    /\ \A i \in 1 .. Len(stack) - 1 : Within(extent, AreaOf(stack[i]))
    /\ phase \in {"tree", "transform"} /\ Top.split \notin TuSplits => Within(extent, CurrArea)
    /\ phase = "transform" /\ Top.split \notin TuSplits => ~Crosses(extent, CurrArea)

(* Why a split was possible.                                               *)
SplitFor(l, e, st, i) ==
    /\ st[i].split = "quad" => UpTo(st, MtSplits, i - 1) = {}
    /\ st[i].split \in MtSplits => l.maxMtt > 0
    /\ st[i].split \in MtSplits /\ Crosses(e, AreaOf(st[i - 1])) =>
            AreaOf(st[i - 1]).w <= l.maxBt /\ AreaOf(st[i - 1]).h <= l.maxBt
TSplits == \A i \in 2 .. Len(stack) : SplitFor(limits, extent, stack, i)

(* The depths, and the implicit splits that are kept in the levels.        *)
OuterUpTo(st, n) == {i \in UpTo(st, TtSplits, n) : st[i].idx # 1}
Depths(d, e, st) ==
    /\ d.all = Len(st) - 1
    /\ d.qt = Cardinality(UpTo(st, {"quad"}, Len(st)))
    /\ d.mt = Cardinality(UpTo(st, MtSplits, Len(st)))
    /\ d.tr = Cardinality(UpTo(st, TuSplits, Len(st)))
    /\ d.bt = d.mt + Cardinality(OuterUpTo(st, Len(st)))
    /\ d.subdiv = 2 * d.qt + d.bt + d.tr
    /\ d.implicitBt = Cardinality(ImplicitUpTo(st, e, Len(st)))
TDepths ==
    /\ Depths(depth, extent, stack)
    /\ \A i \in 1 .. Len(stack) - 1 : stack[i].implicit = ImplicitAt(limits, extent, stack, i)
    /\ Top.implicit \in {"unchecked", ImplicitAt(limits, extent, stack, Len(stack))}

----------------------------------------------------------------------------
(* What the partitioner allows *)

LEMMA Kinds ==
    /\ TtSplits \subseteq MtSplits /\ BtSplits \subseteq MtSplits /\ MtSplits \subseteq CuSplits
    /\ CuSplits = MtSplits \cup {"quad"} /\ "quad" \notin MtSplits /\ "quad" \notin TuSplits
    /\ CuSplits \cap TuSplits = {} /\ BtSplits \cap TtSplits = {}
    /\ "ctu" \notin CuSplits \cup TuSplits /\ "none" \notin CuSplits \cup TuSplits
    /\ SbtSplits \subseteq TuSplits /\ "quad" \in CuSplits /\ "quad" \notin BtSplits
  BY DEF CuSplits, TuSplits, SbtSplits, MtSplits, BtSplits, TtSplits

LEMMA BtIsZero ==
    ASSUME NEW d, NEW e, NEW st, Way(st), Depths(d, e, st)
    PROVE  /\ d.bt = 0 <=> d.mt = 0
           /\ d.mt \in Nat /\ d.implicitBt \in Nat /\ d.implicitBt <= d.mt
           /\ d.mt = 0 <=> UpTo(st, MtSplits, Len(st)) = {}
           /\ Cardinality(OuterUpTo(st, Len(st))) \in Nat
  <1>1. Len(st) \in Nat BY WayLevels DEF Way
  <1>2. OuterUpTo(st, Len(st)) \in SUBSET UpTo(st, MtSplits, Len(st))
    BY Kinds DEF OuterUpTo, UpTo
  <1> DEFINE o == Cardinality(OuterUpTo(st, Len(st)))
             m == Cardinality(UpTo(st, MtSplits, Len(st)))
             i == Cardinality(ImplicitUpTo(st, e, Len(st)))
  <1>3. m \in Nat /\ o \in Nat /\ o <= m /\ (m = 0 <=> UpTo(st, MtSplits, Len(st)) = {})
    BY <1>1, <1>2, Counted
  <1>4. i \in Nat /\ i <= m BY <1>1, ImplicitCounted
  <1>5. d.mt = m /\ d.bt = m + o /\ d.implicitBt = i BY DEF Depths
  <1> HIDE DEF m, o, i
  <1>6. d.bt = 0 <=> d.mt = 0 BY <1>3, <1>5
  <1> QED BY <1>3, <1>4, <1>5, <1>6 DEF o, m

LEMMA TopIsLast ==
    ASSUME Way(stack)
    PROVE  /\ Len(stack) \in Nat /\ Len(stack) >= 1 /\ Len(stack) \in 1 .. Len(stack)
           /\ Top = stack[Len(stack)] /\ CurrArea = AreaOf(stack[Len(stack)])
           /\ CurrArea \in Areas
           /\ Top.split \notin TuSplits =>
                /\ CuArea(CurrArea)
                /\ UpTo(stack, MtSplits, Len(stack)) = {} => CurrArea.w = CurrArea.h
  <1>1. WayShape(stack) /\ WayAreas(stack) BY DEF Way
  <1>2. Len(stack) \in Nat /\ Len(stack) >= 1 BY <1>1, WayLevels
  <1>3. Len(stack) \in 1 .. Len(stack) BY <1>2
  <1>4. Top = stack[Len(stack)] /\ CurrArea = AreaOf(stack[Len(stack)]) BY DEF Top, CurrArea
  <1>5. /\ AreaOf(stack[Len(stack)]) \in Areas
        /\ Top.idx + 1 \in DOMAIN Top.parts /\ CurrArea = Top.parts[Top.idx + 1]
    BY <1>1, <1>3, <1>4, WayLevels
  <1>6. Top.split \notin TuSplits =>
            /\ CuArea(CurrArea)
            /\ UpTo(stack, MtSplits, Len(stack)) = {} => CurrArea.w = CurrArea.h
    BY <1>1, <1>3, <1>4, <1>5, Zenon DEF WayAreas, Squares
  <1> QED BY <1>2, <1>3, <1>4, <1>5, <1>6

LEMMA ImplicitIs ==
    ASSUME TShape, TDepths
    PROVE  /\ GetImplicitSplit = ImplicitAt(limits, extent, stack, Len(stack))
           /\ Implicit = ImplicitAt(limits, extent, stack, Len(stack))
  <1>1. Way(stack) /\ Depths(depth, extent, stack) BY DEF TShape, TDepths
  <1>2. depth.bt = 0 <=> depth.mt = 0 BY <1>1, BtIsZero
  <1>3. /\ depth.mt = Cardinality(UpTo(stack, MtSplits, Len(stack)))
        /\ depth.implicitBt = Cardinality(ImplicitUpTo(stack, extent, Len(stack)))
    BY <1>1 DEF Depths
  <1>4. ImplicitAt(limits, extent, stack, Len(stack))
            = ImplicitOf(limits, extent, CurrArea, depth.mt, depth.implicitBt)
    BY <1>1, <1>3, TopIsLast DEF ImplicitAt
  <1>5. /\ ~BlInPic(CurrArea) <=> Below(extent, CurrArea)
        /\ ~TrInPic(CurrArea) <=> Beyond(extent, CurrArea)
    BY BorderOperators
  <1>6. GetImplicitSplit = ImplicitOf(limits, extent, CurrArea, depth.mt, depth.implicitBt)
    BY <1>2, <1>5, Zenon DEF GetImplicitSplit, ImplicitOf, MaxBtDepth
  <1>7. Implicit = GetImplicitSplit
    BY <1>1, <1>4, <1>6, Zenon DEF Implicit, TDepths
  <1> QED BY <1>4, <1>6, <1>7

(* A split that coding_tree makes.                                         *)
GoodSplit(l, e, st, s) ==
    LET a == AreaOf(st[Len(st)])
    IN  /\ s \in CuSplits /\ Splittable(a, s)
        /\ s = "quad" => UpTo(st, MtSplits, Len(st)) = {}
        /\ s \in MtSplits => l.maxMtt > 0
        /\ s \in MtSplits /\ Crosses(e, a) => a.w <= l.maxBt /\ a.h <= l.maxBt
        /\ s \in MtSplits => (s = ImplicitAt(l, e, st, Len(st)) <=> Crosses(e, a))

(* Above an area across the border, all splits in two or three have been   *)
(* of such areas: then the depth does not forbid one more in two.          *)
LEMMA QuadOnlyFirst ==
    ASSUME TShape, TBorder, TSplits, TDepths, phase = "tree",
           Crosses(extent, CurrArea),
           UpTo(stack, MtSplits, Len(stack)) # {}
    PROVE  /\ CurrArea.w <= limits.maxBt /\ CurrArea.h <= limits.maxBt
           /\ depth.mt < limits.maxMtt + depth.implicitBt
  <1> DEFINE n == Len(stack)
             a == CurrArea
             M == UpTo(stack, MtSplits, n)
  <1>1. /\ Way(stack) /\ limits \in Limits /\ extent \in Extent /\ Top.split \notin TuSplits
        /\ Depths(depth, extent, stack)
    BY DEF TShape, TDepths
  <1>2. /\ n \in Nat /\ n >= 1 /\ n \in 1 .. n /\ Top = stack[n] /\ a = AreaOf(stack[n])
        /\ a \in Areas
    BY <1>1, TopIsLast
  <1>3. Within(extent, a) BY <1>1 DEF TBorder
  <1>4. ASSUME NEW i \in M
        PROVE  /\ i \in 2 .. n /\ AreaOf(stack[i - 1]) \in Areas /\ Inside(a, AreaOf(stack[i - 1]))
               /\ Crosses(extent, AreaOf(stack[i - 1]))
    <2>1. i \in 2 .. n /\ i - 1 \in 1 .. n - 1 /\ i - 1 \in 1 .. n BY <1>2 DEF UpTo
    <2>2. WayShape(stack) /\ WayTiled(stack) BY <1>1 DEF Way
    <2>3. AreaOf(stack[i - 1]) \in Areas BY <2>1, <2>2, WayLevels
    <2>4. a = stack[n].parts[stack[n].idx + 1] /\ stack[n].idx + 1 \in DOMAIN stack[n].parts
      BY <1>2, <2>2, WayLevels
    <2>5. Inside(a, AreaOf(stack[i - 1])) BY <1>2, <2>1, <2>2, <2>4, Zenon DEF WayTiled
    <2>6. Within(extent, AreaOf(stack[i - 1])) BY <2>1 DEF TBorder
    <2>7. Crosses(extent, AreaOf(stack[i - 1]))
      BY <1>1, <1>2, <1>3, <2>3, <2>5, <2>6, CrossesAround
    <2> QED BY <2>1, <2>3, <2>5, <2>7
  <1>5. ImplicitUpTo(stack, extent, n) = M BY <1>4, Zenon DEF ImplicitUpTo
  <1>6. depth.mt = Cardinality(M) /\ depth.implicitBt = Cardinality(M)
    BY <1>1, <1>5, Zenon DEF Depths
  <1>7. PICK i \in M : TRUE OBVIOUS
  <1>8. /\ i \in 2 .. n /\ AreaOf(stack[i - 1]) \in Areas /\ Inside(a, AreaOf(stack[i - 1]))
        /\ Crosses(extent, AreaOf(stack[i - 1])) /\ stack[i].split \in MtSplits
    BY <1>4, <1>7 DEF UpTo
  <1>9. /\ limits.maxMtt > 0
        /\ AreaOf(stack[i - 1]).w <= limits.maxBt /\ AreaOf(stack[i - 1]).h <= limits.maxBt
    BY <1>8, Zenon DEF TSplits, SplitFor
  <1>10. limits.maxMtt \in Nat /\ limits.maxBt \in Nat BY <1>1, TreeAssumption
  <1>11. Cardinality(M) \in Nat BY <1>2, Counted
  <1>12. depth.mt < limits.maxMtt + depth.implicitBt BY <1>6, <1>9, <1>10, <1>11
  <1> DEFINE b == AreaOf(stack[i - 1])
  <1>13. /\ a.x \in Nat /\ a.y \in Nat /\ a.w \in Nat /\ a.h \in Nat
         /\ b.x \in Nat /\ b.y \in Nat /\ b.w \in Nat /\ b.h \in Nat
    BY <1>2, <1>8, AreaType
  <1>14. Inside(a, b) /\ b.w <= limits.maxBt /\ b.h <= limits.maxBt BY <1>8, <1>9
  <1> HIDE DEF a, b
  <1>15. a.w <= b.w BY <1>13, <1>14 DEF Inside
  <1>16. a.h <= b.h BY <1>13, <1>14 DEF Inside
  <1>17. a.w <= limits.maxBt BY <1>10, <1>13, <1>14, <1>15
  <1>18. a.h <= limits.maxBt BY <1>10, <1>13, <1>14, <1>16
  <1> QED BY <1>12, <1>17, <1>18 DEF a

(* The implicit split in two is of an area across the border.              *)
LEMMA ImplicitBt ==
    ASSUME NEW l, NEW e, NEW a, NEW mt, NEW implicit
    PROVE  /\ ImplicitOf(l, e, a, mt, implicit) = "horz" =>
                Below(e, a) /\ a.w <= l.maxBt /\ a.h <= l.maxBt /\ mt < l.maxMtt + implicit
           /\ ImplicitOf(l, e, a, mt, implicit) = "vert" =>
                Beyond(e, a) /\ a.w <= l.maxBt /\ a.h <= l.maxBt /\ mt < l.maxMtt + implicit
           /\ ImplicitOf(l, e, a, mt, implicit) = "quad" =>
                mt = 0 \/ ~(a.w <= l.maxBt /\ a.h <= l.maxBt /\ mt < l.maxMtt + implicit)
  BY Zenon DEF ImplicitOf

LEMMA NoneUpTo ==
    ASSUME NEW st, NEW S, NEW n, \A i \in 2 .. n : st[i].split \notin S
    PROVE  UpTo(st, S, n) = {}
  BY DEF UpTo

(* canSplit, in the terms of the walk.                                     *)
LEMMA MaySplit ==
    ASSUME TShape, TBorder, TSplits, TDepths, phase = "tree", NEW s \in CanSplit \ {"none"}
    PROVE  GoodSplit(limits, extent, stack, s)
  <1> DEFINE n == Len(stack)
             a == CurrArea
             M == UpTo(stack, MtSplits, n)
             im == ImplicitAt(limits, extent, stack, n)
  <1>1. /\ Way(stack) /\ limits \in Limits /\ extent \in Extent /\ Top.split \notin TuSplits
        /\ Depths(depth, extent, stack)
    BY DEF TShape, TDepths
  <1>2. /\ n \in Nat /\ n >= 1 /\ n \in 1 .. n /\ Top = stack[n] /\ a = AreaOf(stack[n])
        /\ a \in Areas /\ CuArea(a) /\ (M = {} => a.w = a.h)
    BY <1>1, TopIsLast
  <1>3. Within(extent, a) BY <1>1 DEF TBorder
  <1>4. Implicit = im BY ImplicitIs
  <1>5. im = ImplicitOf(limits, extent, a, depth.mt, depth.implicitBt)
    BY <1>1, <1>2, Zenon DEF ImplicitAt, Depths
  <1>6. im \in {"none", "quad", "horz", "vert"} /\ (im = "none" <=> ~Crosses(extent, a))
    BY <1>5, ImplicitValue
  <1>7. /\ limits.maxMtt \in Nat /\ limits.maxBt \in Nat /\ limits.minQt \in Nat
        /\ limits.minQt >= MinCbSize /\ MinCbSize \in Nat
    BY <1>1, TreeAssumption DEF BlockSizes
  <1>8. /\ depth.mt \in Nat /\ depth.implicitBt \in Nat /\ depth.implicitBt <= depth.mt
        /\ (depth.mt = 0 <=> M = {})
    BY <1>1, BtIsZero
  <1>9. a.w \in Nat /\ a.h \in Nat /\ a.w \in BlockSizes /\ a.h \in BlockSizes
    BY <1>2, AreaType DEF CuArea
  <1>10. \A k \in Nat : depth.mt < k + depth.implicitBt => k > 0 BY <1>8
  <1>11. /\ Below(extent, a) => a.h > MinCbSize
         /\ Beyond(extent, a) => a.w > MinCbSize
    BY <1>1, <1>2, <1>3, CrossesSplittable
  <1>12. Splittable(a, s) <=>
            /\ s = "quad" => a.w = a.h /\ a.w > MinCbSize
            /\ s = "horz" => a.h > MinCbSize
            /\ s = "vert" => a.w > MinCbSize
            /\ s = "trih" => a.h > 2 * MinCbSize
            /\ s = "triv" => a.w > 2 * MinCbSize
    BY DEF Splittable
  <1>13. CASE s = "quad" /\ CanQt
    <2>1. Top.split \in {"ctu", "quad"} /\ a.w > limits.minQt BY <1>13 DEF CanQt
    <2>2. M = {}
      <3>1. CASE n = 1
        <4>1. \A i \in 2 .. n : stack[i].split \notin MtSplits BY <3>1
        <4> QED BY <4>1, NoneUpTo
      <3>2. CASE n # 1
        <4>1. n \in 2 .. n /\ n - 1 \in 1 .. n
          <5>1. n \in Nat /\ n >= 1 BY <1>2
          <5> HIDE DEF n
          <5> QED BY <3>2, <5>1
        <4>2. WayShape(stack) BY <1>1 DEF Way
        <4>3. stack[n].split # "ctu" BY <4>1, <4>2 DEF WayShape
        <4>4. stack[n].split = "quad" BY <1>2, <2>1, <4>3
        <4>5. UpTo(stack, MtSplits, n - 1) = {} BY <4>1, <4>4, Zenon DEF TSplits, SplitFor
        <4>6. \A i \in 2 .. n : i \in 2 .. n - 1 \/ i = n BY <1>2
        <4>7. "quad" \notin MtSplits BY Kinds
        <4>8. \A i \in 2 .. n - 1 : stack[i].split \notin MtSplits
          BY <4>5, Zenon DEF UpTo
        <4>9. \A i \in 2 .. n : stack[i].split \notin MtSplits
          BY <4>4, <4>6, <4>7, <4>8, Zenon
        <4> QED BY <4>9, NoneUpTo
      <3> QED BY <3>1, <3>2
    <2>3. a.w > MinCbSize BY <1>7, <1>9, <2>1
    <2>4. s \in CuSplits /\ s \notin MtSplits BY <1>13, Kinds
    <2> QED BY <1>2, <1>12, <1>13, <2>2, <2>3, <2>4, Zenon DEF GoodSplit
  <1>14. CASE s = "quad" /\ ~CanQt
    <2>1. im # "none" /\ im \notin BtSplits
      BY <1>4, <1>14, Zenon DEF CanSplit, BtSplits, TtSplits
    <2>2. im = "quad" /\ Crosses(extent, a) BY <1>6, <2>1 DEF BtSplits
    <2>3. M = {}
      <3> SUFFICES ASSUME M # {} PROVE FALSE OBVIOUS
      <3>1. /\ a.w <= limits.maxBt /\ a.h <= limits.maxBt
            /\ depth.mt < limits.maxMtt + depth.implicitBt
        BY <2>2, QuadOnlyFirst
      <3>2. depth.mt # 0 BY <1>8
      <3> QED BY <1>5, <2>2, <3>1, <3>2, ImplicitBt
    <2>4. a.w > MinCbSize /\ a.w = a.h
      BY <1>2, <1>11, <2>2, <2>3 DEF Crosses
    <2>5. s \in CuSplits /\ s \notin MtSplits BY <1>14, Kinds
    <2> QED BY <1>2, <1>12, <1>14, <2>3, <2>4, <2>5, Zenon DEF GoodSplit
  <1>15. CASE s # "quad" /\ im # "none"
    <2>1. s = im /\ s \in BtSplits
      BY <1>4, <1>15, Zenon DEF CanSplit
    <2>2. Crosses(extent, a) /\ s \in MtSplits /\ s \in CuSplits
      BY <1>6, <1>15, <2>1, Kinds
    <2>3. /\ a.w <= limits.maxBt /\ a.h <= limits.maxBt
          /\ depth.mt < limits.maxMtt + depth.implicitBt
          /\ s = "horz" => Below(extent, a)
          /\ s = "vert" => Beyond(extent, a)
      BY <1>5, <2>1, ImplicitBt DEF BtSplits
    <2>4. limits.maxMtt > 0 BY <1>7, <1>10, <2>3
    <2>5. s # "trih" /\ s # "triv" BY <2>1 DEF BtSplits
    <2>6. Splittable(a, s) BY <1>11, <1>12, <1>15, <2>3, <2>5, Zenon
    <2> QED BY <1>2, <1>15, <2>1, <2>2, <2>3, <2>4, <2>6, Zenon DEF GoodSplit
  <1>16. CASE s # "quad" /\ im = "none"
    <2>1. \/ s = "horz" /\ CanBt(a.h, "trih")
          \/ s = "vert" /\ CanBt(a.w, "triv")
          \/ s = "trih" /\ CanTt(a.h)
          \/ s = "triv" /\ CanTt(a.w)
      <3>1. CanSplit = {"none"} \cup (IF CanQt THEN {"quad"} ELSE {})
                \cup {z \in BtSplits : IF z = "horz" THEN CanBt(a.h, "trih")
                                       ELSE CanBt(a.w, "triv")}
                \cup {z \in TtSplits : CanTt(IF z = "trih" THEN a.h ELSE a.w)}
        BY <1>4, <1>16, Zenon DEF CanSplit
      <3>2. \/ s \in BtSplits /\ (IF s = "horz" THEN CanBt(a.h, "trih") ELSE CanBt(a.w, "triv"))
            \/ s \in TtSplits /\ CanTt(IF s = "trih" THEN a.h ELSE a.w)
        BY <1>16, <3>1, Zenon
      <3> QED BY <3>2 DEF BtSplits, TtSplits
    <2>2. CanBtt BY <2>1 DEF CanBt, CanTt
    <2>3. depth.mt < limits.maxMtt + depth.implicitBt BY <2>2 DEF CanBtt, MaxBtDepth
    <2>4. limits.maxMtt > 0 BY <1>7, <1>10, <2>3
    <2>5. /\ s = "horz" => a.h > MinCbSize
          /\ s = "vert" => a.w > MinCbSize
          /\ s = "trih" => a.h > 2 * MinCbSize
          /\ s = "triv" => a.w > 2 * MinCbSize
      BY <2>1, Zenon DEF CanBt, CanTt
    <2>6. Splittable(a, s) BY <1>12, <1>16, <2>5, Zenon
    <2>7. s \in MtSplits /\ s \in CuSplits /\ s # "none"
      BY <2>1 DEF MtSplits, BtSplits, TtSplits, CuSplits
    <2>8. ~Crosses(extent, a) BY <1>6, <1>16
    <2> QED BY <1>2, <1>16, <2>4, <2>6, <2>7, <2>8, Zenon DEF GoodSplit
  <1> QED BY <1>13, <1>14, <1>15, <1>16

(* A coding unit is never asked for across the border of the picture.      *)
LEMMA MayCode ==
    ASSUME TShape, TDepths, "none" \in CanSplit
    PROVE  ~Crosses(extent, CurrArea)
  <1> DEFINE im == ImplicitAt(limits, extent, stack, Len(stack))
  <1>1. Implicit = im BY ImplicitIs
  <1>2. Way(stack) BY DEF TShape
  <1>3. im = "none" <=> ~Crosses(extent, CurrArea)
    BY <1>2, TopIsLast, ImplicitValue DEF ImplicitAt
  <1>4. Implicit = "none"
    <2>1. "none" \notin BtSplits BY DEF BtSplits
    <2> QED BY <2>1, Zenon DEF CanSplit
  <1> QED BY <1>1, <1>3, <1>4

----------------------------------------------------------------------------
(* How the counts change with the way *)

LEMMA OneMoreIndex ==
    ASSUME NEW T, IsFiniteSet(T), Cardinality(T) \in Nat, NEW x, x \notin T, NEW U
    PROVE  U = T \cup {x} => Cardinality(U) = Cardinality(T) + 1
  BY FS_AddElement

LEMMA KeptBack ==
    ASSUME NEW st, NEW st2, NEW n, Kept(st, st2, n)
    PROVE  Kept(st2, st, n)
  BY Zenon DEF Kept

(* One level more, below the first n.                                      *)
LEMMA OneLevelMore ==
    ASSUME NEW st, NEW st2, NEW n \in Nat, n >= 1, Kept(st, st2, n), NEW S
    PROVE  /\ st2[n + 1].split \in S =>
                Cardinality(UpTo(st2, S, n + 1)) = Cardinality(UpTo(st, S, n)) + 1
           /\ st2[n + 1].split \notin S => UpTo(st2, S, n + 1) = UpTo(st, S, n)
  <1>1. \A i : i \in 2 .. n + 1 <=> i \in 2 .. n \/ i = n + 1 OBVIOUS
  <1>2. n + 1 \notin 2 .. n /\ 2 .. n \subseteq 1 .. n OBVIOUS
  <1>3. \A i \in 2 .. n : st2[i].split = st[i].split BY <1>2, Zenon DEF Kept
  <1>4. ASSUME st2[n + 1].split \in S
        PROVE  Cardinality(UpTo(st2, S, n + 1)) = Cardinality(UpTo(st, S, n)) + 1
    <2>1. UpTo(st2, S, n + 1) = UpTo(st, S, n) \cup {n + 1}
      BY <1>1, <1>3, <1>4, Zenon DEF UpTo
    <2>2. n + 1 \notin UpTo(st, S, n) BY <1>2, Zenon DEF UpTo
    <2>3. IsFiniteSet(UpTo(st, S, n)) /\ Cardinality(UpTo(st, S, n)) \in Nat BY Counted
    <2> QED BY <2>1, <2>2, <2>3, OneMoreIndex
  <1>5. ASSUME st2[n + 1].split \notin S
        PROVE  UpTo(st2, S, n + 1) = UpTo(st, S, n)
    BY <1>1, <1>3, <1>5, Zenon DEF UpTo
  <1> QED BY <1>4, <1>5

LEMMA OneOuterMore ==
    ASSUME NEW st, NEW st2, NEW n \in Nat, n >= 1, Kept(st, st2, n)
    PROVE  /\ st2[n + 1].split \in TtSplits /\ st2[n + 1].idx # 1 =>
                Cardinality(OuterUpTo(st2, n + 1)) = Cardinality(OuterUpTo(st, n)) + 1
           /\ ~(st2[n + 1].split \in TtSplits /\ st2[n + 1].idx # 1) =>
                OuterUpTo(st2, n + 1) = OuterUpTo(st, n)
  <1>1. \A i : i \in 2 .. n + 1 <=> i \in 2 .. n \/ i = n + 1 OBVIOUS
  <1>2. n + 1 \notin 2 .. n /\ 2 .. n \subseteq 1 .. n OBVIOUS
  <1>3. \A i \in 2 .. n : st2[i].split = st[i].split /\ st2[i].idx = st[i].idx
    BY <1>2, Zenon DEF Kept
  <1>4. ASSUME st2[n + 1].split \in TtSplits, st2[n + 1].idx # 1
        PROVE  Cardinality(OuterUpTo(st2, n + 1)) = Cardinality(OuterUpTo(st, n)) + 1
    <2>1. OuterUpTo(st2, n + 1) = OuterUpTo(st, n) \cup {n + 1}
      BY <1>1, <1>3, <1>4, Zenon DEF OuterUpTo, UpTo
    <2>2. n + 1 \notin OuterUpTo(st, n) BY <1>2, Zenon DEF OuterUpTo, UpTo
    <2>3. IsFiniteSet(OuterUpTo(st, n)) /\ Cardinality(OuterUpTo(st, n)) \in Nat
      <3>1. OuterUpTo(st, n) \in SUBSET UpTo(st, TtSplits, n) BY DEF OuterUpTo
      <3> QED BY <3>1, Counted
    <2> QED BY <2>1, <2>2, <2>3, OneMoreIndex
  <1>5. ASSUME ~(st2[n + 1].split \in TtSplits /\ st2[n + 1].idx # 1)
        PROVE  OuterUpTo(st2, n + 1) = OuterUpTo(st, n)
    BY <1>1, <1>3, <1>5, Zenon DEF OuterUpTo, UpTo
  <1> QED BY <1>4, <1>5

LEMMA OneImplicitMore ==
    ASSUME NEW st, NEW st2, NEW n \in Nat, n >= 1, Kept(st, st2, n), NEW e
    PROVE  /\ st2[n + 1].split \in MtSplits /\ Crosses(e, AreaOf(st[n])) =>
                Cardinality(ImplicitUpTo(st2, e, n + 1)) = Cardinality(ImplicitUpTo(st, e, n)) + 1
           /\ ~(st2[n + 1].split \in MtSplits /\ Crosses(e, AreaOf(st[n]))) =>
                ImplicitUpTo(st2, e, n + 1) = ImplicitUpTo(st, e, n)
  <1> DEFINE In(st0, i) == st0[i].split \in MtSplits /\ Crosses(e, AreaOf(st0[i - 1]))
  <1>1. \A i : i \in 2 .. n + 1 <=> i \in 2 .. n \/ i = n + 1 OBVIOUS
  <1>2. n + 1 \notin 2 .. n /\ (n + 1) - 1 = n /\ n \in 1 .. n OBVIOUS
  <1>3. \A i \in 2 .. n : i - 1 \in 1 .. n /\ i \in 1 .. n OBVIOUS
  <1>4. \A i \in 2 .. n : In(st2, i) <=> In(st, i)
    BY <1>3, Zenon DEF Kept, AreaOf
  <1>5. In(st2, n + 1) <=> st2[n + 1].split \in MtSplits /\ Crosses(e, AreaOf(st[n]))
    <2>1. AreaOf(st2[n]) = AreaOf(st[n]) BY <1>2, Zenon DEF Kept, AreaOf
    <2> QED BY <1>2, <2>1, Zenon
  <1>6. /\ ImplicitUpTo(st2, e, n + 1) = {i \in 2 .. n + 1 : In(st2, i)}
        /\ ImplicitUpTo(st, e, n) = {i \in 2 .. n : In(st, i)}
    BY Zenon DEF ImplicitUpTo, UpTo
  <1> HIDE DEF In
  <1>7. ASSUME st2[n + 1].split \in MtSplits, Crosses(e, AreaOf(st[n]))
        PROVE  Cardinality(ImplicitUpTo(st2, e, n + 1)) = Cardinality(ImplicitUpTo(st, e, n)) + 1
    <2>1. ImplicitUpTo(st2, e, n + 1) = ImplicitUpTo(st, e, n) \cup {n + 1}
      BY <1>1, <1>4, <1>5, <1>6, <1>7, Zenon
    <2>2. n + 1 \notin ImplicitUpTo(st, e, n) BY <1>2, <1>6, Zenon
    <2>3. IsFiniteSet(ImplicitUpTo(st, e, n)) /\ Cardinality(ImplicitUpTo(st, e, n)) \in Nat
      BY ImplicitCounted
    <2> QED BY <2>1, <2>2, <2>3, OneMoreIndex
  <1>8. ASSUME ~(st2[n + 1].split \in MtSplits /\ Crosses(e, AreaOf(st[n])))
        PROVE  ImplicitUpTo(st2, e, n + 1) = ImplicitUpTo(st, e, n)
    BY <1>1, <1>4, <1>5, <1>6, <1>8, Zenon
  <1> QED BY <1>7, <1>8

(* The last level comes to its next part.                                  *)
NextPartAt(st, st2, n) ==
    /\ n \in Nat /\ n >= 1 /\ Kept(st, st2, n - 1)
    /\ st2[n].split = st[n].split /\ st2[n].idx = st[n].idx + 1
    /\ st[n].idx \in 0 .. 1 \/ st[n].split \notin TtSplits

LEMMA NextPartCounts ==
    ASSUME NEW st, NEW st2, NEW n, NextPartAt(st, st2, n), NEW e
    PROVE  /\ \A S : UpTo(st2, S, n) = UpTo(st, S, n)
           /\ ImplicitUpTo(st2, e, n) = ImplicitUpTo(st, e, n)
           /\ st[n].split \notin TtSplits => OuterUpTo(st2, n) = OuterUpTo(st, n)
           /\ n > 1 /\ st[n].split \in TtSplits =>
                Cardinality(OuterUpTo(st2, n)) = 
                    Cardinality(OuterUpTo(st, n)) + (IF st[n].idx = 0 THEN -1 ELSE 1)
  <1>0. /\ n \in Nat /\ n >= 1 /\ Kept(st, st2, n - 1)
        /\ st2[n].split = st[n].split /\ st2[n].idx = st[n].idx + 1
        /\ st[n].idx \in 0 .. 1 \/ st[n].split \notin TtSplits
    BY DEF NextPartAt
  <1> USE <1>0
  <1>1. \A i \in 2 .. n : /\ i - 1 \in 1 .. n - 1 /\ (i \in 1 .. n - 1 \/ i = n)
    OBVIOUS
  <1>2. \A i \in 2 .. n : /\ st2[i].split = st[i].split /\ AreaOf(st2[i - 1]) = AreaOf(st[i - 1])
                          /\ i # n => st2[i].idx = st[i].idx
    BY <1>1, Zenon DEF Kept, AreaOf
  <1>3. \A S : UpTo(st2, S, n) = UpTo(st, S, n) BY <1>2, Zenon DEF UpTo
  <1>4. ImplicitUpTo(st2, e, n) = ImplicitUpTo(st, e, n)
    BY <1>2, Zenon DEF ImplicitUpTo, UpTo
  <1>5. ASSUME st[n].split \notin TtSplits PROVE OuterUpTo(st2, n) = OuterUpTo(st, n)
    BY <1>2, <1>5, Zenon DEF OuterUpTo, UpTo
  <1>6. ASSUME n > 1, st[n].split \in TtSplits
        PROVE  Cardinality(OuterUpTo(st2, n)) = 
                    Cardinality(OuterUpTo(st, n)) + (IF st[n].idx = 0 THEN -1 ELSE 1)
    <2>1. n \in 2 .. n BY <1>6
    <2> DEFINE o == OuterUpTo(st, n)
               o2 == OuterUpTo(st2, n)
    <2>2. /\ IsFiniteSet(o) /\ Cardinality(o) \in Nat
          /\ IsFiniteSet(o2) /\ Cardinality(o2) \in Nat
      <3>1. o \in SUBSET UpTo(st, TtSplits, n) /\ o2 \in SUBSET UpTo(st2, TtSplits, n)
        BY DEF OuterUpTo
      <3> QED BY <3>1, Counted
    <2>3. CASE st[n].idx = 0
      <3>1. st2[n].idx = 1 BY <2>3
      <3>2. o = o2 \cup {n} /\ n \notin o2
        BY <1>2, <1>6, <2>1, <2>3, <3>1 DEF OuterUpTo, UpTo
      <3>3. Cardinality(o) = Cardinality(o2) + 1 BY <2>2, <3>2, OneMoreIndex
      <3> HIDE DEF o, o2
      <3>4. Cardinality(o2) = Cardinality(o) + (IF st[n].idx = 0 THEN -1 ELSE 1)
        BY <2>2, <2>3, <3>3
      <3> QED BY <3>4 DEF o, o2
    <2>4. CASE st[n].idx = 1
      <3>1. st2[n].idx = 2 BY <2>4
      <3>2. o2 = o \cup {n} /\ n \notin o
        BY <1>2, <1>6, <2>1, <2>4, <3>1 DEF OuterUpTo, UpTo
      <3>3. Cardinality(o2) = Cardinality(o) + 1 BY <2>2, <3>2, OneMoreIndex
      <3> HIDE DEF o, o2
      <3>4. Cardinality(o2) = Cardinality(o) + (IF st[n].idx = 0 THEN -1 ELSE 1)
        BY <2>2, <2>4, <3>3
      <3> QED BY <3>4 DEF o, o2
    <2> QED BY <1>6, <2>3, <2>4
  <1> QED BY <1>3, <1>4, <1>5, <1>6

----------------------------------------------------------------------------
(* The depths follow the way: one step of the partitioner at a time *)

DepthType == [all : Int, qt : Int, bt : Int, mt : Int, tr : Int, subdiv : Int, implicitBt : Int]

PushedDepth(d, d2, s, C) ==
    /\ d2.all = d.all + 1
    /\ d2.subdiv = d.subdiv + (IF s = "quad" THEN 2 ELSE Twice(s))
    /\ d2.tr = IF s \in TuSplits THEN d.tr + 1 ELSE 0
    /\ d2.qt = IF s = "quad" THEN d.qt + 1 ELSE d.qt
    /\ d2.bt = IF s \in MtSplits THEN d.bt + Twice(s) ELSE IF s = "quad" THEN 0 ELSE d.bt
    /\ d2.mt = IF s \in MtSplits THEN d.mt + 1 ELSE IF s = "quad" THEN 0 ELSE d.mt
    /\ d2.implicitBt = IF s \in C THEN d.implicitBt + 1 ELSE d.implicitBt

PoppedDepth(d, d2, s, C) ==
    /\ d2.all = d.all - 1
    /\ d2.subdiv = d.subdiv - (IF s \in MtSplits THEN Twice(s) ELSE IF s = "quad" THEN 2 ELSE 1)
    /\ d2.tr = IF s \in TuSplits THEN d.tr - 1 ELSE d.tr
    /\ d2.qt = IF s = "quad" THEN d.qt - 1 ELSE d.qt
    /\ d2.bt = IF s \in MtSplits THEN d.bt - Twice(s) ELSE d.bt
    /\ d2.mt = IF s \in MtSplits THEN d.mt - 1 ELSE d.mt
    /\ d2.implicitBt = IF s \in C THEN d.implicitBt - 1 ELSE d.implicitBt

LEMMA DepthFields ==
    ASSUME NEW d \in DepthType
    PROVE  /\ d.all \in Int /\ d.qt \in Int /\ d.bt \in Int /\ d.mt \in Int
           /\ d.tr \in Int /\ d.subdiv \in Int /\ d.implicitBt \in Int
  BY DEF DepthType

(* One more, if the split is one of S.                                     *)
CountedMore(m, m2, s, S) == m \in Nat /\ m2 = IF s \in S THEN m + 1 ELSE m

LEMMA MoreLevels ==
    ASSUME NEW e, NEW st, NEW st2, NEW n \in Nat, n >= 1, Kept(st, st2, n),
           NEW s, st2[n + 1].split = s,
           NEW C, s \in C <=> s \in MtSplits /\ Crosses(e, AreaOf(st[n]))
    PROVE  /\ \A S : CountedMore(Cardinality(UpTo(st, S, n)), Cardinality(UpTo(st2, S, n + 1)), s, S)
           /\ st2[n + 1].idx # 1 =>
                CountedMore(Cardinality(OuterUpTo(st, n)), Cardinality(OuterUpTo(st2, n + 1)), s, TtSplits)
           /\ CountedMore(Cardinality(ImplicitUpTo(st, e, n)), Cardinality(ImplicitUpTo(st2, e, n + 1)), s, C)
  <1>1. ASSUME NEW S
        PROVE  CountedMore(Cardinality(UpTo(st, S, n)), Cardinality(UpTo(st2, S, n + 1)), s, S)
    <2>1. Cardinality(UpTo(st, S, n)) \in Nat BY Counted
    <2>2. s \in S => Cardinality(UpTo(st2, S, n + 1)) = Cardinality(UpTo(st, S, n)) + 1
      BY OneLevelMore
    <2>3. s \notin S => UpTo(st2, S, n + 1) = UpTo(st, S, n) BY OneLevelMore
    <2> QED BY <2>1, <2>2, <2>3, Zenon DEF CountedMore
  <1>2. ASSUME st2[n + 1].idx # 1
        PROVE  CountedMore(Cardinality(OuterUpTo(st, n)), Cardinality(OuterUpTo(st2, n + 1)), s, TtSplits)
    <2>1. Cardinality(OuterUpTo(st, n)) \in Nat
      <3>1. OuterUpTo(st, n) \in SUBSET UpTo(st, TtSplits, n) BY DEF OuterUpTo
      <3> QED BY <3>1, Counted
    <2>2. s \in TtSplits => Cardinality(OuterUpTo(st2, n + 1)) = Cardinality(OuterUpTo(st, n)) + 1
      BY <1>2, OneOuterMore
    <2>3. s \notin TtSplits => OuterUpTo(st2, n + 1) = OuterUpTo(st, n)
      BY OneOuterMore
    <2> QED BY <2>1, <2>2, <2>3, Zenon DEF CountedMore
  <1>3. CountedMore(Cardinality(ImplicitUpTo(st, e, n)), Cardinality(ImplicitUpTo(st2, e, n + 1)), s, C)
    <2>1. Cardinality(ImplicitUpTo(st, e, n)) \in Nat BY ImplicitCounted
    <2>2. s \in C =>
              Cardinality(ImplicitUpTo(st2, e, n + 1)) = Cardinality(ImplicitUpTo(st, e, n)) + 1
      BY OneImplicitMore
    <2>3. s \notin C => ImplicitUpTo(st2, e, n + 1) = ImplicitUpTo(st, e, n)
      BY OneImplicitMore
    <2> QED BY <2>1, <2>2, <2>3, Zenon DEF CountedMore
  <1> QED BY <1>1, <1>2, <1>3

LEMMA TwiceValue ==
    /\ \A s \in TtSplits : Twice(s) = 2
    /\ \A s : s \notin TtSplits => Twice(s) = 1
  BY DEF Twice

(* The depths are the counts of the levels; one level is counted apart.    *)
Sums(d, q, m, t, o, p) ==
    /\ d.qt = q /\ d.mt = m /\ d.tr = t /\ d.bt = m + o /\ d.implicitBt = p
    /\ d.subdiv = 2 * q + (m + o) + t
AllCountedMore(q, q2, m, m2, t, t2, o, o2, p, p2, s, C) ==
    /\ CountedMore(q, q2, s, {"quad"}) /\ CountedMore(m, m2, s, MtSplits)
    /\ CountedMore(t, t2, s, TuSplits) /\ CountedMore(o, o2, s, TtSplits)
    /\ CountedMore(p, p2, s, C)

LEMMA KindsOfSplit ==
    ASSUME NEW s \in CuSplits \cup TuSplits, NEW C \in SUBSET MtSplits
    PROVE  \/ /\ s \in {"quad"} /\ s = "quad" /\ s \notin MtSplits /\ s \notin TuSplits
              /\ s \notin TtSplits /\ s \notin C
           \/ /\ s \in MtSplits /\ s # "quad" /\ s \notin {"quad"} /\ s \notin TuSplits
              /\ \/ s \in TtSplits /\ Twice(s) = 2
                 \/ s \notin TtSplits /\ Twice(s) = 1
           \/ /\ s \in TuSplits /\ s # "quad" /\ s \notin {"quad"} /\ s \notin MtSplits
              /\ s \notin TtSplits /\ s \notin C /\ Twice(s) = 1
  <1>1. CASE s = "quad" BY <1>1, Kinds
  <1>2. CASE s \in MtSplits BY <1>2, Kinds, TwiceValue
  <1>3. CASE s \in TuSplits BY <1>3, Kinds, TwiceValue
  <1> QED BY <1>1, <1>2, <1>3, Kinds

LEMMA PushedSums ==
    ASSUME NEW d, NEW d2, NEW s \in CuSplits \cup TuSplits, NEW C \in SUBSET MtSplits,
           PushedDepth(d, d2, s, C),
           NEW q, NEW q2, NEW m, NEW m2, NEW t, NEW t2, NEW o, NEW o2, NEW p, NEW p2,
           AllCountedMore(q, q2, m, m2, t, t2, o, o2, p, p2, s, C),
           Sums(d, q, m, t, o, p), t = 0, s = "quad" => m = 0 /\ o = 0
    PROVE  Sums(d2, q2, m2, t2, o2, p2)
  <1>1. q \in Nat /\ m \in Nat /\ t \in Nat /\ o \in Nat /\ p \in Nat
    BY DEF AllCountedMore, CountedMore
  <1> QED BY <1>1, KindsOfSplit DEF AllCountedMore, CountedMore, PushedDepth, Sums

LEMMA PoppedSums ==
    ASSUME NEW d, NEW d2, NEW s \in CuSplits \cup TuSplits, NEW C \in SUBSET MtSplits,
           PoppedDepth(d, d2, s, C),
           NEW q, NEW q2, NEW m, NEW m2, NEW t, NEW t2, NEW o, NEW o2, NEW p, NEW p2,
           AllCountedMore(q2, q, m2, m, t2, t, o2, o, p2, p, s, C),
           Sums(d, q, m, t, o, p)
    PROVE  Sums(d2, q2, m2, t2, o2, p2)
  <1>1. q2 \in Nat /\ m2 \in Nat /\ t2 \in Nat /\ o2 \in Nat /\ p2 \in Nat
    BY DEF AllCountedMore, CountedMore
  <1> QED BY <1>1, KindsOfSplit DEF AllCountedMore, CountedMore, PoppedDepth, Sums

(* Depths, by their counts. *)
LEMMA DepthsAreSums ==
    ASSUME NEW d, NEW e, NEW st, NEW n, n = Len(st)
    PROVE  Depths(d, e, st) <=>
              /\ d.all = n - 1
              /\ Sums(d, Cardinality(UpTo(st, {"quad"}, n)), Cardinality(UpTo(st, MtSplits, n)),
                      Cardinality(UpTo(st, TuSplits, n)), Cardinality(OuterUpTo(st, n)),
                      Cardinality(ImplicitUpTo(st, e, n)))
  BY Zenon DEF Depths, Sums

(* No level above the last is of a transform tree.                         *)
LEMMA NoTransforms ==
    ASSUME NEW st, Way(st)
    PROVE  /\ UpTo(st, TuSplits, Len(st) - 1) = {}
           /\ st[Len(st)].split \notin TuSplits => UpTo(st, TuSplits, Len(st)) = {}
  <1>1. WayShape(st) /\ Len(st) \in Nat BY WayLevels DEF Way
  <1>2. \A i \in 1 .. Len(st) - 1 : st[i].split \notin TuSplits BY <1>1 DEF WayShape
  <1>3. 2 .. Len(st) - 1 \subseteq 1 .. Len(st) - 1 BY <1>1
  <1>4. \A i \in 2 .. Len(st) : i \in 1 .. Len(st) - 1 \/ i = Len(st) BY <1>1
  <1>5. UpTo(st, TuSplits, Len(st) - 1) = {} BY <1>2, <1>3, NoneUpTo
  <1>6. ASSUME st[Len(st)].split \notin TuSplits PROVE UpTo(st, TuSplits, Len(st)) = {}
    <2>1. \A i \in 2 .. Len(st) : st[i].split \notin TuSplits BY <1>2, <1>4, <1>6, Zenon
    <2> QED BY <2>1, NoneUpTo
  <1> QED BY <1>5, <1>6

LEMMA PushedDepths ==
    ASSUME NEW e, NEW st, NEW st2, NEW d \in DepthType, NEW d2, NEW s \in CuSplits \cup TuSplits,
           NEW C \in SUBSET MtSplits,
           Way(st), Depths(d, e, st), Kept(st, st2, Len(st)), Len(st2) = Len(st) + 1,
           st2[Len(st) + 1].split = s, st2[Len(st) + 1].idx = 0, st[Len(st)].split \notin TuSplits,
           s = "quad" => UpTo(st, MtSplits, Len(st)) = {},
           s \in C <=> s \in MtSplits /\ Crosses(e, AreaOf(st[Len(st)])),
           PushedDepth(d, d2, s, C)
    PROVE  Depths(d2, e, st2)
  <1> DEFINE n == Len(st)
             q == Cardinality(UpTo(st, {"quad"}, n))
             q2 == Cardinality(UpTo(st2, {"quad"}, n + 1))
             m == Cardinality(UpTo(st, MtSplits, n))
             m2 == Cardinality(UpTo(st2, MtSplits, n + 1))
             t == Cardinality(UpTo(st, TuSplits, n))
             t2 == Cardinality(UpTo(st2, TuSplits, n + 1))
             o == Cardinality(OuterUpTo(st, n))
             o2 == Cardinality(OuterUpTo(st2, n + 1))
             p == Cardinality(ImplicitUpTo(st, e, n))
             p2 == Cardinality(ImplicitUpTo(st2, e, n + 1))
  <1>1. n \in Nat /\ n >= 1 BY WayLevels DEF Way
  <1>2. AllCountedMore(q, q2, m, m2, t, t2, o, o2, p, p2, s, C)
    <2>1. /\ st2[n + 1].split = s /\ Kept(st, st2, n) /\ st2[n + 1].idx # 1
          /\ s \in C <=> s \in MtSplits /\ Crosses(e, AreaOf(st[n]))
      OBVIOUS
    <2> HIDE DEF n
    <2>2. /\ CountedMore(q, q2, s, {"quad"}) /\ CountedMore(m, m2, s, MtSplits)
          /\ CountedMore(t, t2, s, TuSplits) /\ CountedMore(o, o2, s, TtSplits)
          /\ CountedMore(p, p2, s, C)
      BY <1>1, <2>1, MoreLevels
    <2> QED BY <2>2, Zenon DEF AllCountedMore
  <1>3. d.all = n - 1 /\ Sums(d, q, m, t, o, p) BY DepthsAreSums
  <1>4. t = 0
    <2>1. UpTo(st, TuSplits, n) = {} BY NoTransforms
    <2> QED BY <1>1, <2>1, Counted
  <1>5. s = "quad" => m = 0 /\ o = 0
    <2> SUFFICES ASSUME s = "quad" PROVE m = 0 /\ o = 0 OBVIOUS
    <2>1. UpTo(st, MtSplits, n) = {} OBVIOUS
    <2>2. m = 0 BY <1>1, <2>1, Counted
    <2>3. d.bt = 0 <=> d.mt = 0 BY BtIsZero
    <2>4. o \in Nat BY BtIsZero
    <2>5. d.bt = m + o /\ d.mt = m BY <1>3, Zenon DEF Sums
    <2> HIDE DEF m, o
    <2> QED BY <2>2, <2>3, <2>4, <2>5
  <1>6. Sums(d2, q2, m2, t2, o2, p2)
    <2> HIDE DEF n, q, q2, m, m2, t, t2, o, o2, p, p2
    <2> QED BY <1>2, <1>3, <1>4, <1>5, PushedSums
  <1>7. d2.all = (n + 1) - 1
    <2>1. d2.all = d.all + 1 BY DEF PushedDepth
    <2> HIDE DEF n
    <2> QED BY <1>1, <1>3, <2>1
  <1>8. n + 1 = Len(st2) OBVIOUS
  <1> HIDE DEF n
  <1> QED BY <1>6, <1>7, <1>8, DepthsAreSums

LEMMA PartsOfTt ==
    ASSUME NEW i \in Nat, NEW l, l = 3
    PROVE  /\ i + 1 = l => i # 1
           /\ i + 1 < l => i \in 0 .. 1
  OBVIOUS

LEMMA PoppedDepths ==
    ASSUME NEW e, NEW st, NEW st2, NEW d \in DepthType, NEW d2, NEW C \in SUBSET MtSplits,
           Way(st), Depths(d, e, st), Len(st) > 1, Kept(st, st2, Len(st) - 1),
           Len(st2) = Len(st) - 1,
           st[Len(st)].idx + 1 = Len(st[Len(st)].parts),
           st[Len(st)].split \in C <=>
                st[Len(st)].split \in MtSplits /\ Crosses(e, AreaOf(st[Len(st) - 1])),
           PoppedDepth(d, d2, st[Len(st)].split, C)
    PROVE  Depths(d2, e, st2)
  <1> DEFINE n == Len(st) - 1
             s == st[Len(st)].split
             q == Cardinality(UpTo(st, {"quad"}, n + 1))
             q2 == Cardinality(UpTo(st2, {"quad"}, n))
             m == Cardinality(UpTo(st, MtSplits, n + 1))
             m2 == Cardinality(UpTo(st2, MtSplits, n))
             t == Cardinality(UpTo(st, TuSplits, n + 1))
             t2 == Cardinality(UpTo(st2, TuSplits, n))
             o == Cardinality(OuterUpTo(st, n + 1))
             o2 == Cardinality(OuterUpTo(st2, n))
             p == Cardinality(ImplicitUpTo(st, e, n + 1))
             p2 == Cardinality(ImplicitUpTo(st2, e, n))
  <1>1. WayShape(st) /\ Len(st) \in Nat BY WayLevels DEF Way
  <1>2. n \in Nat /\ n >= 1 /\ Len(st) = n + 1 BY <1>1
  <1>3. s \in CuSplits \cup TuSplits /\ (s \in TtSplits => Len(st[Len(st)].parts) = 3)
        /\ st[Len(st)].idx \in Nat
    <2>1. Len(st) \in 2 .. Len(st) /\ Len(st) \in 1 .. Len(st) BY <1>1
    <2>2. st[Len(st)] \in LevelType BY <1>1, <2>1, WayLevels
    <2>3. s # "ctu" /\ (s \in TtSplits => Len(st[Len(st)].parts) = 3)
      BY <1>1, <2>1, Zenon DEF WayShape
    <2> QED BY <2>2, <2>3, LevelFields
  <1>4. Kept(st2, st, n) BY KeptBack
  <1>5. st[n + 1].split = s /\ st[n + 1].idx = st[Len(st)].idx BY <1>2
  <1>6. AreaOf(st2[n]) = AreaOf(st[n])
    <2>1. n \in 1 .. n BY <1>2
    <2> HIDE DEF n
    <2>2. Kept(st, st2, n) BY <1>4, KeptBack
    <2> QED BY <2>1, <2>2, Zenon DEF Kept, AreaOf
  <1>7. AllCountedMore(q2, q, m2, m, t2, t, o2, o, p2, p, s, C)
    <2>1. st[n + 1].split = s BY <1>5, Zenon
    <2>2. s \in TtSplits => st[n + 1].idx # 1
      <3>1. s \in TtSplits => st[Len(st)].idx # 1 BY <1>3, PartsOfTt
      <3> QED BY <1>5, <3>1, Zenon
    <2>3. s \in C <=> s \in MtSplits /\ Crosses(e, AreaOf(st2[n])) BY <1>6
    <2>4. s \notin TtSplits => OuterUpTo(st, n + 1) = OuterUpTo(st2, n)
      BY <1>2, <1>4, <1>5, OneOuterMore
    <2>5. Cardinality(OuterUpTo(st2, n)) \in Nat
      <3>1. OuterUpTo(st2, n) \in SUBSET UpTo(st2, TtSplits, n) BY DEF OuterUpTo
      <3> QED BY <1>2, <3>1, Counted
    <2> HIDE DEF n, s
    <2>6. s \in TtSplits => CountedMore(o2, o, s, TtSplits)
      BY <1>2, <1>4, <2>1, <2>2, <2>3, MoreLevels
    <2>7. s \notin TtSplits => CountedMore(o2, o, s, TtSplits)
      BY <2>4, <2>5, Zenon DEF CountedMore
    <2>8. /\ CountedMore(q2, q, s, {"quad"}) /\ CountedMore(m2, m, s, MtSplits)
          /\ CountedMore(t2, t, s, TuSplits) /\ CountedMore(p2, p, s, C)
      BY <1>2, <1>4, <2>1, <2>3, MoreLevels
    <2> QED BY <2>6, <2>7, <2>8, Zenon DEF AllCountedMore
  <1>8. d.all = (n + 1) - 1 /\ Sums(d, q, m, t, o, p)
    <2> HIDE DEF n
    <2> QED BY <1>2, DepthsAreSums
  <1>9. Sums(d2, q2, m2, t2, o2, p2)
    <2>1. PoppedDepth(d, d2, s, C) OBVIOUS
    <2> HIDE DEF n, q, q2, m, m2, t, t2, o, o2, p, p2, s
    <2> QED BY <1>3, <1>7, <1>8, <2>1, PoppedSums
  <1>10. d2.all = n - 1
    <2>1. d2.all = d.all - 1 BY DEF PoppedDepth
    <2> HIDE DEF n
    <2> QED BY <1>2, <1>8, <2>1
  <1>11. n = Len(st2) OBVIOUS
  <1> HIDE DEF n
  <1> QED BY <1>9, <1>10, <1>11, DepthsAreSums

LEMMA MovedDepths ==
    ASSUME NEW e, NEW st, NEW st2, NEW d \in DepthType, NEW d2, Way(st), Depths(d, e, st),
           Len(st2) = Len(st), Len(st) > 1, Kept(st, st2, Len(st) - 1),
           st2[Len(st)].split = st[Len(st)].split, st2[Len(st)].idx = st[Len(st)].idx + 1,
           st[Len(st)].idx + 1 < Len(st[Len(st)].parts),
           NEW by, by = (IF st[Len(st)].split \notin TtSplits THEN 0
                         ELSE IF st[Len(st)].idx = 0 THEN -1 ELSE 1),
           d2.all = d.all, d2.qt = d.qt, d2.mt = d.mt, d2.tr = d.tr, d2.implicitBt = d.implicitBt,
           d2.bt = d.bt + by, d2.subdiv = d.subdiv + by
    PROVE  Depths(d2, e, st2)
  <1> DEFINE n == Len(st)
             o == Cardinality(OuterUpTo(st, n))
             o2 == Cardinality(OuterUpTo(st2, n))
  <1>1. WayShape(st) /\ n \in Nat /\ n >= 1 /\ n > 1 BY WayLevels DEF Way
  <1>2. st[n].idx \in Nat /\ (st[n].split \in TtSplits => Len(st[n].parts) = 3)
    <2>1. n \in 2 .. n /\ n \in 1 .. n BY <1>1
    <2>2. st[n].idx \in Nat BY <1>1, <2>1, WayLevels
    <2>3. \A i \in 2 .. Len(st) : st[i].split \in TtSplits => Len(st[i].parts) = 3
      BY <1>1, Zenon DEF WayShape
    <2>4. st[n].split \in TtSplits => Len(st[n].parts) = 3 BY <2>1, <2>3
    <2> QED BY <2>2, <2>4, Zenon
  <1>3. st[n].idx \in 0 .. 1 \/ st[n].split \notin TtSplits BY <1>2, PartsOfTt
  <1>4. /\ \A S : UpTo(st2, S, n) = UpTo(st, S, n)
        /\ ImplicitUpTo(st2, e, n) = ImplicitUpTo(st, e, n)
        /\ st[n].split \notin TtSplits => OuterUpTo(st2, n) = OuterUpTo(st, n)
        /\ n > 1 /\ st[n].split \in TtSplits =>
                o2 = o + (IF st[n].idx = 0 THEN -1 ELSE 1)
    <2>1. Kept(st, st2, n - 1) /\ st2[n].split = st[n].split /\ st2[n].idx = st[n].idx + 1
      OBVIOUS
    <2> HIDE DEF n
    <2>2. NextPartAt(st, st2, n) BY <1>1, <1>3, <2>1, Zenon DEF NextPartAt
    <2>3. PICK by2 : by2 = IF st[n].idx = 0 THEN -1 ELSE 1 OBVIOUS
    <2>4. \A S : UpTo(st2, S, n) = UpTo(st, S, n) BY <2>2, NextPartCounts
    <2>5. ImplicitUpTo(st2, e, n) = ImplicitUpTo(st, e, n) BY <2>2, NextPartCounts
    <2>6. st[n].split \notin TtSplits => OuterUpTo(st2, n) = OuterUpTo(st, n)
      BY <2>2, NextPartCounts
    <2>7. n > 1 /\ st[n].split \in TtSplits => o2 = o + by2
      BY <2>2, <2>3, NextPartCounts, Zenon
    <2> HIDE DEF o, o2
    <2> QED BY <2>3, <2>4, <2>5, <2>6, <2>7, Zenon
  <1>5. o \in Nat BY BtIsZero
  <1>6. o2 = o + by
    <2>1. CASE st[n].split \in TtSplits BY <1>1, <1>4, <2>1
    <2>2. CASE st[n].split \notin TtSplits
      <3>1. by = 0 BY <2>2
      <3>2. o2 = o BY <1>4, <2>2
      <3> HIDE DEF o, o2
      <3> QED BY <1>5, <3>1, <3>2
    <2> QED BY <2>1, <2>2
  <1> DEFINE q == Cardinality(UpTo(st, {"quad"}, n))
             m == Cardinality(UpTo(st, MtSplits, n))
             t == Cardinality(UpTo(st, TuSplits, n))
             p == Cardinality(ImplicitUpTo(st, e, n))
  <1>7. d.all = n - 1 /\ Sums(d, q, m, t, o, p) BY DepthsAreSums
  <1>8. q \in Nat /\ m \in Nat /\ t \in Nat BY <1>1, Counted
  <1>9. Sums(d2, q, m, t, o2, p)
    <2> HIDE DEF n, o, o2, q, m, t, p
    <2>1. by \in Int OBVIOUS
    <2>2. d.bt = m + o /\ d.subdiv = 2 * q + (m + o) + t BY <1>7 DEF Sums
    <2>3. d.bt + by = m + o2 BY <1>5, <1>6, <1>8, <2>1, <2>2
    <2>4. d.subdiv + by = 2 * q + (m + o2) + t BY <1>5, <1>6, <1>8, <2>1, <2>2
    <2>5. d2.bt = m + o2 /\ d2.subdiv = 2 * q + (m + o2) + t BY <2>3, <2>4
    <2>6. d2.qt = q /\ d2.mt = m /\ d2.tr = t /\ d2.implicitBt = p BY <1>7 DEF Sums
    <2> QED BY <2>5, <2>6, Zenon DEF Sums
  <1>10. /\ UpTo(st2, {"quad"}, n) = UpTo(st, {"quad"}, n)
         /\ UpTo(st2, MtSplits, n) = UpTo(st, MtSplits, n)
         /\ UpTo(st2, TuSplits, n) = UpTo(st, TuSplits, n)
         /\ ImplicitUpTo(st2, e, n) = ImplicitUpTo(st, e, n)
    BY <1>4, Zenon
  <1>11. n = Len(st2) /\ d2.all = n - 1 BY <1>7
  <1> HIDE DEF n
  <1>12. Sums(d2, Cardinality(UpTo(st2, {"quad"}, n)), Cardinality(UpTo(st2, MtSplits, n)),
              Cardinality(UpTo(st2, TuSplits, n)), Cardinality(OuterUpTo(st2, n)),
              Cardinality(ImplicitUpTo(st2, e, n)))
    BY <1>9, <1>10
  <1> QED BY <1>11, <1>12, DepthsAreSums

----------------------------------------------------------------------------
(* The steps of the partitioner *)

Pushed(st, st2, s, a, implicit) ==
    /\ st2 \in Seq(LevelType) /\ Len(st2) = Len(st) + 1 /\ Kept(st, st2, Len(st))
    /\ \A i \in 1 .. Len(st) - 1 : st2[i] = st[i]
    /\ st2[Len(st)].implicit = implicit
    /\ st2[Len(st) + 1].split = s /\ st2[Len(st) + 1].parts = SubParts(a, s)
    /\ st2[Len(st) + 1].idx = 0 /\ st2[Len(st) + 1].implicit = "unchecked"
    /\ st2[Len(st) + 1].qg => st[Len(st)].qg

LEMMA SplitStep ==
    ASSUME TShape, TDepths, NEW s \in CuSplits \cup TuSplits, SplitCurrArea(s),
           SubParts(CurrArea, s) \in Seq(Areas)
    PROVE  /\ Pushed(stack, stack', s, CurrArea, ImplicitAt(limits, extent, stack, Len(stack)))
           /\ depth' \in DepthType
           /\ PushedDepth(depth, depth', s, MtSplits \cap {Implicit})
           /\ qgPos' = IF stack'[Len(stack) + 1].qg THEN Pos(AreaOf(stack'[Len(stack) + 1])) ELSE qgPos
  <1> DEFINE subdiv == depth.subdiv + (IF s = "quad" THEN 2 ELSE Twice(s))
             qg == Top.qg /\ subdiv <= limits.qgSubdiv
             level == Level(s, SubParts(CurrArea, s), qg)
             implicit == ImplicitAt(limits, extent, stack, Len(stack))
             n == Len(stack)
  <1>1. /\ stack' = Append([stack EXCEPT ![Len(stack)].implicit = Implicit], level)
        /\ depth' = [depth EXCEPT
                !.all = @ + 1, !.subdiv = subdiv,
                !.tr = IF s \in TuSplits THEN @ + 1 ELSE 0,
                !.qt = IF s = "quad" THEN @ + 1 ELSE @,
                !.bt = IF s \in MtSplits THEN @ + Twice(s) ELSE IF s = "quad" THEN 0 ELSE @,
                !.mt = IF s \in MtSplits THEN @ + 1 ELSE IF s = "quad" THEN 0 ELSE @,
                !.implicitBt = IF s \in MtSplits /\ s = Implicit THEN @ + 1 ELSE @]
        /\ qgPos' = GroupAt(level)
    BY Zenon DEF SplitCurrArea, Cached
  <1>2. /\ WayShape(stack) /\ stack \in Seq(LevelType) /\ n \in Nat /\ n >= 1 /\ n \in 1 .. n
        /\ Top = stack[n] /\ Way(stack)
    <2>1. Way(stack) BY DEF TShape
    <2>2. WayShape(stack) BY <2>1 DEF Way
    <2> QED BY <2>1, <2>2, TopIsLast DEF WayShape
  <1>3. Implicit = implicit /\ implicit \in ImplicitValues
    <2>1. Implicit = implicit BY ImplicitIs
    <2>2. implicit \in {"none", "quad", "horz", "vert"} BY Zenon, ImplicitValue DEF ImplicitAt
    <2> QED BY <2>1, <2>2 DEF ImplicitValues
  <1>4. Top.qg \in BOOLEAN
    <2>1. stack[n] \in LevelType BY <1>2, WayLevels
    <2> QED BY <1>2, <2>1, LevelFields
  <1>5. /\ level \in LevelType /\ level.split = s /\ level.parts = SubParts(CurrArea, s)
        /\ level.idx = 0 /\ level.implicit = "unchecked" /\ level.qg = qg
    <2>1. s \in CuSplits \cup TuSplits \cup {"ctu"} /\ qg \in BOOLEAN BY <1>4
    <2> HIDE DEF qg
    <2> QED BY <2>1, NewLevel, ZenonT(60)
  <1>6. Pushed(stack, stack', s, CurrArea, implicit)
    <2>1. level.qg => stack[n].qg BY <1>2, <1>5
    <2> HIDE DEF level, implicit
    <2>2. stack' = PushedOn(stack, implicit, level)
      BY <1>1, <1>3, Zenon DEF PushedOn, CachedIn
    <2>3. /\ stack' \in Seq(LevelType) /\ Len(stack') = Len(stack) + 1
          /\ Kept(stack, stack', Len(stack))
          /\ \A i \in 1 .. Len(stack) - 1 : stack'[i] = stack[i]
          /\ stack'[Len(stack)].implicit = implicit /\ stack'[Len(stack) + 1] = level
      <3>1. stack \in Seq(LevelType) /\ Len(stack) >= 1 BY <1>2
      <3>2. implicit \in ImplicitValues /\ level \in LevelType BY <1>3, <1>5
      <3> HIDE DEF n
      <3> QED BY <2>2, <3>1, <3>2, WhenPushed
    <2> QED BY <1>5, <2>1, <2>3, Zenon DEF Pushed
  <1>7. depth \in DepthType BY DEF TShape, DepthType
  <1>8. /\ depth' \in DepthType
        /\ PushedDepth(depth, depth', s, MtSplits \cap {Implicit})
    <2>1. subdiv \in Int
      <3>1. Twice(s) \in Int BY DEF Twice
      <3> QED BY <1>7, <3>1 DEF DepthType
    <2>2. s \in MtSplits /\ s = Implicit <=> s \in MtSplits \cap {Implicit} OBVIOUS
    <2>3. depth'.subdiv = subdiv BY <1>1, <1>7 DEF DepthType
    <2>4. Twice(s) \in Int BY DEF Twice
    <2> HIDE DEF subdiv
    <2>5. depth' \in DepthType
      <3> DEFINE all == depth.all + 1
                 tr == IF s \in TuSplits THEN depth.tr + 1 ELSE 0
                 qt == IF s = "quad" THEN depth.qt + 1 ELSE depth.qt
                 bt == IF s \in MtSplits THEN depth.bt + Twice(s) ELSE IF s = "quad" THEN 0 ELSE depth.bt
                 mt == IF s \in MtSplits THEN depth.mt + 1 ELSE IF s = "quad" THEN 0 ELSE depth.mt
                 im == IF s \in MtSplits /\ s = Implicit THEN depth.implicitBt + 1 ELSE depth.implicitBt
      <3>1. all \in Int /\ tr \in Int /\ qt \in Int /\ bt \in Int /\ mt \in Int /\ im \in Int
        <4>1. depth.all \in Int /\ depth.qt \in Int /\ depth.bt \in Int /\ depth.mt \in Int
              /\ depth.tr \in Int /\ depth.implicitBt \in Int
          BY <1>7, DepthFields
        <4>2. all \in Int /\ tr \in Int BY <4>1
        <4>3. qt \in Int BY <4>1
        <4>4. bt \in Int
          <5>1. PICK t \in Int : t = Twice(s) BY <2>4
          <5>2. depth.bt + t \in Int BY <4>1
          <5> QED BY <4>1, <5>1, <5>2
        <4>5. mt \in Int BY <4>1
        <4>6. im \in Int BY <4>1
        <4> HIDE DEF all, tr, qt, bt, mt, im
        <4> QED BY <4>2, <4>3, <4>4, <4>5, <4>6
      <3>2. depth' = [depth EXCEPT !.all = all, !.subdiv = subdiv, !.tr = tr, !.qt = qt, !.bt = bt,
                                   !.mt = mt, !.implicitBt = im]
        BY <1>1
      <3> HIDE DEF all, tr, qt, bt, mt, im
      <3> QED BY <1>7, <2>1, <3>1, <3>2 DEF DepthType
    <2>6. /\ depth'.all = depth.all + 1
          /\ depth'.tr = IF s \in TuSplits THEN depth.tr + 1 ELSE 0
          /\ depth'.qt = IF s = "quad" THEN depth.qt + 1 ELSE depth.qt
          /\ depth'.bt = IF s \in MtSplits THEN depth.bt + Twice(s) ELSE IF s = "quad" THEN 0 ELSE depth.bt
          /\ depth'.mt = IF s \in MtSplits THEN depth.mt + 1 ELSE IF s = "quad" THEN 0 ELSE depth.mt
          /\ depth'.implicitBt = IF s \in MtSplits \cap {Implicit} THEN depth.implicitBt + 1 ELSE depth.implicitBt
      BY <1>1, <1>7, <2>2 DEF DepthType
    <2> QED BY <2>3, <2>5, <2>6, Zenon DEF PushedDepth, subdiv
  <1>9. qgPos' = IF stack'[n + 1].qg THEN Pos(AreaOf(stack'[n + 1])) ELSE qgPos
    <2>1. level.idx = stack'[n + 1].idx /\ level.parts = stack'[n + 1].parts
          /\ AreaOf(stack'[n + 1]) = AreaOf(level)
      BY <1>5, <1>6, Zenon DEF Pushed, AreaOf
    <2>2. stack'[n + 1] = level
      <3> HIDE DEF level, implicit
      <3>1. stack' = PushedOn(stack, implicit, level)
        BY <1>1, <1>3, Zenon DEF PushedOn, CachedIn
      <3> QED BY <1>2, <1>3, <1>5, <3>1, WhenPushed
    <2>3. qgPos' = IF level.qg THEN Pos(AreaOf(level)) ELSE qgPos BY <1>1, Zenon DEF GroupAt
    <2> HIDE DEF level
    <2> QED BY <2>2, <2>3, Zenon
  <1> QED BY <1>6, <1>8, <1>9

(* What of the way a level has to do with the levels above only.           *)
LEMMA SplitForKept ==
    ASSUME NEW st, NEW st2, NEW n \in Nat, Kept(st, st2, n), NEW l, NEW e,
           NEW i \in 2 .. n + 1, st2[i].split = st[i].split
    PROVE  SplitFor(l, e, st, i) => SplitFor(l, e, st2, i)
  <1>1. i - 1 \in 1 .. n /\ i - 1 \in 0 .. n OBVIOUS
  <1>2. SplitsAgree(st, st2, n) /\ AreaOf(st2[i - 1]) = AreaOf(st[i - 1])
    BY <1>1, Zenon DEF Kept, SplitsAgree, AreaOf
  <1>3. UpTo(st2, MtSplits, i - 1) = UpTo(st, MtSplits, i - 1) BY <1>1, <1>2, SameSplits
  <1> QED BY <1>2, <1>3, Zenon DEF SplitFor

(* The split of the current area, by coding_tree or by transform_tree.     *)
GoodTuSplit(st, s) ==
    LET a == AreaOf(st[Len(st)])
    IN  s \in TuSplits /\ (s \in SbtSplits => a.w <= MaxTbSize /\ a.h <= MaxTbSize)

LEMMA SplitKeepsWay ==
    ASSUME TShape, TBorder, TSplits, TDepths, NEW s, SplitCurrArea(s),
           Top.split \notin TuSplits, phase \in {"tree", "transform"},
           GoodSplit(limits, extent, stack, s) \/ GoodTuSplit(stack, s),
           UNCHANGED <<limits, extent>>
    PROVE  /\ Pushed(stack, stack', s, CurrArea, ImplicitAt(limits, extent, stack, Len(stack)))
           /\ s \in CuSplits \cup TuSplits
           /\ depth' \in DepthType /\ Way(stack') /\ TSplits' /\ TDepths'
           /\ \A i \in 1 .. Len(stack') - 1 : Within(extent', AreaOf(stack'[i]))
           /\ AreaOf(stack'[Len(stack) + 1]) = SubParts(CurrArea, s)[1]
           /\ Pos(AreaOf(stack'[Len(stack) + 1])) = Pos(CurrArea)
           /\ Tiles(SubParts(CurrArea, s), CurrArea)
           /\ qgPos' = IF stack'[Len(stack) + 1].qg THEN Pos(CurrArea) ELSE qgPos
  <1> DEFINE n == Len(stack)
             a == CurrArea
             implicit == ImplicitAt(limits, extent, stack, n)
  <1>1. /\ Way(stack) /\ n \in Nat /\ n >= 1 /\ n \in 1 .. n /\ Top = stack[n] /\ a = AreaOf(stack[n])
        /\ a \in Areas /\ CuArea(a) /\ Depths(depth, extent, stack)
    BY TopIsLast DEF TShape, TDepths
  <1>2. /\ s \in CuSplits \cup TuSplits
        /\ s \in CuSplits => Splittable(a, s)
        /\ s = "quad" => UpTo(stack, MtSplits, n) = {}
        /\ s \in SbtSplits => a.w <= MaxTbSize /\ a.h <= MaxTbSize
        /\ s \in MtSplits => limits.maxMtt > 0
        /\ s \in MtSplits /\ Crosses(extent, a) => a.w <= limits.maxBt /\ a.h <= limits.maxBt
        /\ s \in MtSplits => (s = implicit <=> Crosses(extent, a))
    <2>1. CASE GoodSplit(limits, extent, stack, s)
      <3>1. s \notin SbtSplits /\ s \in CuSplits BY <2>1, Kinds DEF GoodSplit
      <3> QED BY <1>1, <2>1, <3>1, Zenon DEF GoodSplit
    <2>2. CASE GoodTuSplit(stack, s)
      <3>1. s \notin CuSplits /\ s \notin MtSplits /\ s # "quad" BY <2>2, Kinds DEF GoodTuSplit
      <3> QED BY <1>1, <2>2, <3>1, Zenon DEF GoodTuSplit
    <2> QED BY <2>1, <2>2
  <1>3. Tiles(SubParts(a, s), a) /\ SubParts(a, s) \in Seq(Areas)
    <2>1. a.w \in BlockSizes /\ a.h \in BlockSizes BY <1>1 DEF CuArea
    <2>2. CASE s \in CuSplits
      <3>1. Tiles(SubParts(a, s), a) BY <1>1, <1>2, <2>2, CuParts
      <3> QED BY <3>1 DEF Tiles
    <2>3. CASE s \in TuSplits
      <3>1. Tiles(SubParts(a, s), a) BY <1>1, <1>2, <2>1, <2>3, TuParts
      <3> QED BY <3>1 DEF Tiles
    <2> QED BY <1>2, <2>2, <2>3
  <1>4. /\ Pushed(stack, stack', s, a, implicit) /\ depth' \in DepthType
        /\ PushedDepth(depth, depth', s, MtSplits \cap {Implicit})
        /\ qgPos' = IF stack'[n + 1].qg THEN Pos(AreaOf(stack'[n + 1])) ELSE qgPos
    BY <1>2, <1>3, SplitStep
  <1>5. /\ stack' \in Seq(LevelType) /\ Len(stack') = n + 1 /\ Kept(stack, stack', n)
        /\ \A i \in 1 .. n - 1 : stack'[i] = stack[i]
        /\ stack'[n].implicit = implicit
        /\ stack'[n + 1].split = s /\ stack'[n + 1].parts = SubParts(a, s) /\ stack'[n + 1].idx = 0
        /\ stack'[n + 1].implicit = "unchecked"
    BY <1>4, Zenon DEF Pushed
  <1>6. Way(stack') /\ Pos(AreaOf(stack'[n + 1])) = Pos(a)
    BY <1>1, <1>2, <1>5, WayPushed
  <1>7. AreaOf(stack'[n + 1]) = SubParts(a, s)[1]
    <2>1. AreaOf(stack'[n + 1]) = SubParts(a, s)[0 + 1] BY <1>5, Zenon DEF AreaOf
    <2>2. 0 + 1 = 1 OBVIOUS
    <2> QED BY <2>1, <2>2, Zenon
  <1>8. TSplits'
    <2>1. ASSUME NEW i \in 2 .. n + 1 PROVE SplitFor(limits, extent, stack', i)
      <3>1. CASE i \in 2 .. n
        <4>1. SplitFor(limits, extent, stack, i) BY <3>1 DEF TSplits
        <4>2. stack'[i].split = stack[i].split
          <5>1. i \in 1 .. n BY <3>1
          <5> QED BY <1>5, <5>1, Zenon DEF Kept
        <4> QED BY <1>1, <1>5, <4>1, <4>2, SplitForKept
      <3>2. CASE i = n + 1
        <4>1. (n + 1) - 1 = n /\ n \in 0 .. n BY <1>1
        <4>2. AreaOf(stack'[n]) = a BY <1>1, <1>5, Zenon DEF Kept, AreaOf
        <4>3. UpTo(stack', MtSplits, n) = UpTo(stack, MtSplits, n)
          <5>1. SplitsAgree(stack, stack', n) BY <1>5, Zenon DEF Kept, SplitsAgree
          <5> QED BY <1>1, <4>1, <5>1, SameSplits
        <4>4. SplitFor(limits, extent, stack', n + 1)
          BY <1>2, <1>5, <4>1, <4>2, <4>3, Zenon DEF SplitFor
        <4> QED BY <3>2, <4>4
      <3>3. i \in 2 .. n \/ i = n + 1 BY <1>1
      <3> QED BY <3>1, <3>2, <3>3
    <2>2. \A i \in 2 .. Len(stack') : SplitFor(limits', extent', stack', i)
      BY <1>5, <2>1
    <2> QED BY <2>2, Zenon DEF TSplits
  <1>9. TDepths'
    <2> DEFINE C == MtSplits \cap {Implicit}
    <2>1. Depths(depth', extent, stack')
      <3>1. s \in C <=> s \in MtSplits /\ Crosses(extent, AreaOf(stack[n]))
        BY <1>1, <1>2, ImplicitIs
      <3>2. C \in SUBSET MtSplits OBVIOUS
      <3>3. depth \in DepthType BY DEF TShape, DepthType
      <3>4. PushedDepth(depth, depth', s, C) BY <1>4
      <3>5. stack[n].split \notin TuSplits BY <1>1
      <3> HIDE DEF C, a, implicit
      <3> QED BY <1>1, <1>2, <1>5, <3>1, <3>2, <3>3, <3>4, <3>5, PushedDepths
    <2>2. \A m \in 1 .. n : ImplicitAt(limits, extent, stack', m) = ImplicitAt(limits, extent, stack, m)
      <3>1. n \in Nat /\ Kept(stack, stack', n) BY <1>1, <1>5
      <3> HIDE DEF n, a, implicit
      <3> QED BY <3>1, SameImplicit
    <2>3. ASSUME NEW i \in 1 .. n
          PROVE  stack'[i].implicit = ImplicitAt(limits, extent, stack', i)
      <3>1. CASE i = n BY <1>1, <1>5, <2>2, <3>1
      <3>2. CASE i \in 1 .. n - 1
        <4>1. stack[i].implicit = ImplicitAt(limits, extent, stack, i) BY <3>2 DEF TDepths
        <4> QED BY <1>5, <2>2, <3>2, <4>1
      <3>3. i = n \/ i \in 1 .. n - 1 BY <1>1
      <3> QED BY <3>1, <3>2, <3>3
    <2>4. \A i \in 1 .. Len(stack') - 1 : stack'[i].implicit = ImplicitAt(limits', extent', stack', i)
      <3>1. (n + 1) - 1 = n BY <1>1
      <3>2. 1 .. Len(stack') - 1 = 1 .. n BY <1>5, <3>1
      <3> QED BY <2>3, <3>2
    <2>5. stack'[Len(stack')].implicit = "unchecked" BY <1>5
    <2>6. Depths(depth', extent', stack') BY <2>1
    <2> HIDE DEF n, a, implicit
    <2> QED BY <2>4, <2>5, <2>6 DEF TDepths, Top
  <1>10. \A i \in 1 .. Len(stack') - 1 : Within(extent', AreaOf(stack'[i]))
    <2>1. ASSUME NEW i \in 1 .. n PROVE Within(extent, AreaOf(stack'[i]))
      <3>1. AreaOf(stack'[i]) = AreaOf(stack[i]) BY <1>5, Zenon DEF Kept, AreaOf
      <3>2. CASE i = n
        <4>1. Within(extent, a) BY DEF TBorder
        <4> QED BY <1>1, <3>1, <3>2, <4>1
      <3>3. CASE i \in 1 .. n - 1 BY <3>1, <3>3 DEF TBorder
      <3>4. i = n \/ i \in 1 .. n - 1 BY <1>1
      <3> QED BY <3>2, <3>3, <3>4
    <2>2. (n + 1) - 1 = n BY <1>1
    <2>3. 1 .. Len(stack') - 1 = 1 .. n BY <1>5, <2>2
    <2> QED BY <2>1, <2>3
  <1> QED BY <1>2, <1>3, <1>4, <1>6, <1>7, <1>8, <1>9, <1>10

LEMMA SplitsKept ==
    ASSUME NEW st, NEW st2, NEW n \in Nat, Kept(st, st2, n - 1), st2[n].split = st[n].split, NEW l, NEW e,
           \A i \in 2 .. n : SplitFor(l, e, st, i)
    PROVE  \A i \in 2 .. n : SplitFor(l, e, st2, i)
  <1> SUFFICES ASSUME NEW i \in 2 .. n PROVE SplitFor(l, e, st2, i) OBVIOUS
  <1>1. n - 1 \in Nat /\ i \in 2 .. (n - 1) + 1 /\ (i \in 1 .. n - 1 \/ i = n) OBVIOUS
  <1>2. st2[i].split = st[i].split BY <1>1, Zenon DEF Kept
  <1> QED BY <1>1, <1>2, SplitForKept

LEMMA ImplicitKept ==
    ASSUME NEW st, NEW st2, NEW n \in Nat, n >= 1, Kept(st, st2, n - 1), st2[n].split = st[n].split,
           NEW l, NEW e,
           \A i \in 1 .. n - 1 : st2[i] = st[i],
           \A i \in 1 .. n - 1 : st[i].implicit = ImplicitAt(l, e, st, i)
    PROVE  \A i \in 1 .. n - 1 : st2[i].implicit = ImplicitAt(l, e, st2, i)
  <1>1. n - 1 \in Nat OBVIOUS
  <1>2. \A m \in 1 .. n - 1 : ImplicitAt(l, e, st2, m) = ImplicitAt(l, e, st, m)
    BY <1>1, SameImplicit
  <1> QED BY <1>2

(* The implicit split is kept in the level, nothing else.                  *)
LEMMA CachedKeepsWay ==
    ASSUME TShape, TBorder, TSplits, TDepths, stack' = Cached, UNCHANGED <<limits, extent, depth>>
    PROVE  /\ stack' \in Seq(LevelType) /\ Len(stack') = Len(stack) /\ Kept(stack, stack', Len(stack))
           /\ Way(stack') /\ TSplits' /\ TDepths'
           /\ \A i \in 1 .. Len(stack') - 1 : Within(extent', AreaOf(stack'[i]))
  <1> DEFINE n == Len(stack)
             implicit == ImplicitAt(limits, extent, stack, n)
  <1>1. /\ Way(stack) /\ n \in Nat /\ n >= 1 /\ n \in 1 .. n /\ Depths(depth, extent, stack)
        /\ WayShape(stack)
    BY TopIsLast DEF TShape, TDepths, Way
  <1>2. Implicit = implicit /\ implicit \in ImplicitValues
    <2>1. Implicit = implicit BY ImplicitIs
    <2>2. implicit \in {"none", "quad", "horz", "vert"} BY Zenon, ImplicitValue DEF ImplicitAt
    <2> QED BY <2>1, <2>2 DEF ImplicitValues
  <1>3. /\ stack' \in Seq(LevelType) /\ Len(stack') = n /\ Kept(stack, stack', n)
        /\ \A i \in 1 .. n - 1 : stack'[i] = stack[i]
        /\ stack'[n].implicit = implicit
    <2>1. stack \in Seq(LevelType) BY <1>1 DEF WayShape
    <2> HIDE DEF implicit
    <2>2. stack' = CachedIn(stack, implicit) BY <1>2, Zenon DEF Cached, CachedIn
    <2> QED BY <1>1, <1>2, <2>1, <2>2, WhenCached
  <1>4. Kept(stack, stack', n - 1)
    <2>1. n - 1 \in 0 .. n BY <1>1
    <2> QED BY <1>1, <1>3, <2>1, KeptAreas
  <1>5. stack'[n].split = stack[n].split /\ stack'[n].parts = stack[n].parts /\ stack'[n].idx = stack[n].idx
    BY <1>1, <1>3, Zenon DEF Kept
  <1>6. Way(stack')
    <2>1. stack'[n].idx < Len(stack[n].parts) BY <1>1, <1>5 DEF WayShape
    <2> HIDE DEF n
    <2>2. n \in 1 .. Len(stack) BY <1>1 DEF n
    <2> QED BY <1>1, <1>3, <1>4, <1>5, <2>1, <2>2, WayFollowed
  <1>7. TSplits'
    <2>1. \A i \in 2 .. n : SplitFor(limits, extent, stack, i) BY DEF TSplits
    <2> HIDE DEF n
    <2>2. \A i \in 2 .. n : SplitFor(limits, extent, stack', i) BY <1>1, <1>4, <1>5, <2>1, SplitsKept
    <2>3. Len(stack') = n BY <1>3
    <2> QED BY <2>2, <2>3 DEF TSplits
  <1>8. TDepths'
    <2>1. Depths(depth, extent, stack')
      <3>1. \A S : UpTo(stack', S, n) = UpTo(stack, S, n) BY <1>1, <1>3, KeptAreas
      <3>2. ImplicitUpTo(stack', extent, n) = ImplicitUpTo(stack, extent, n)
        BY <1>1, <1>3, SameImplicit
      <3>3. OuterUpTo(stack', n) = OuterUpTo(stack, n)
        <4>1. \A i \in UpTo(stack, TtSplits, n) : i \in 1 .. n BY DEF UpTo
        <4> QED BY <1>3, <3>1, <4>1, Zenon DEF OuterUpTo, Kept
      <3>4. Len(stack') = n BY <1>3
      <3> QED BY <1>1, <3>1, <3>2, <3>3, <3>4, Zenon DEF Depths
    <2>2. \A i \in 1 .. n - 1 : stack'[i].implicit = ImplicitAt(limits, extent, stack', i)
      <3>1. \A i \in 1 .. n - 1 : stack[i].implicit = ImplicitAt(limits, extent, stack, i) BY DEF TDepths
      <3>2. \A i \in 1 .. n - 1 : stack'[i] = stack[i] BY <1>3
      <3> HIDE DEF n, implicit
      <3> QED BY <1>1, <1>4, <1>5, <3>1, <3>2, ImplicitKept
    <2>3. stack'[n].implicit = ImplicitAt(limits, extent, stack', n)
      <3>1. n \in Nat /\ n \in 1 .. n /\ Kept(stack, stack', n) BY <1>1, <1>3
      <3>2. ImplicitAt(limits, extent, stack', n) = ImplicitAt(limits, extent, stack, n)
        <4> HIDE DEF n, implicit
        <4> QED BY <3>1, SameImplicit
      <3> QED BY <1>3, <3>2
    <2>4. Len(stack') = n BY <1>3
    <2> HIDE DEF n, implicit
    <2> QED BY <2>1, <2>2, <2>3, <2>4 DEF TDepths, Top
  <1>9. \A i \in 1 .. Len(stack') - 1 : Within(extent', AreaOf(stack'[i]))
    <2>1. Len(stack') = n /\ \A i \in 1 .. n - 1 : stack'[i] = stack[i] BY <1>3
    <2>2. \A i \in 1 .. n - 1 : Within(extent, AreaOf(stack[i])) BY DEF TBorder
    <2> QED BY <2>1, <2>2
  <1> QED BY <1>3, <1>6, <1>7, <1>8, <1>9

LEMMA NextPartKeepsWay ==
    ASSUME TShape, TBorder, TSplits, TDepths, NextPart, Len(stack) > 1, Top.idx + 1 < Len(Top.parts),
           UNCHANGED <<limits, extent>>
    PROVE  /\ stack' \in Seq(LevelType) /\ Len(stack') = Len(stack) /\ Kept(stack, stack', Len(stack) - 1)
           /\ stack'[Len(stack)].split = stack[Len(stack)].split
           /\ stack'[Len(stack)].parts = stack[Len(stack)].parts
           /\ stack'[Len(stack)].idx = stack[Len(stack)].idx + 1
           /\ stack'[Len(stack)].qg = stack[Len(stack)].qg
           /\ depth' \in DepthType /\ Way(stack') /\ TSplits' /\ TDepths'
           /\ \A i \in 1 .. Len(stack') - 1 : Within(extent', AreaOf(stack'[i]))
           /\ qgPos' = IF stack[Len(stack)].qg THEN Pos(AreaOf(stack'[Len(stack)])) ELSE qgPos
  <1> DEFINE n == Len(stack)
             level == MovedOn(stack[n])
             by == IF stack[n].split \notin TtSplits THEN 0 ELSE IF stack[n].idx = 0 THEN -1 ELSE 1
  <1>1. /\ Way(stack) /\ n \in Nat /\ n >= 1 /\ n \in 1 .. n /\ Depths(depth, extent, stack)
        /\ WayShape(stack) /\ Top = stack[n] /\ stack[n] \in LevelType /\ stack[n].idx \in Nat
    <2>1. Way(stack) /\ WayShape(stack) /\ Depths(depth, extent, stack) BY DEF TShape, TDepths, Way
    <2>2. n \in Nat /\ n >= 1 /\ n \in 1 .. n /\ Top = stack[n] BY <2>1, TopIsLast
    <2> QED BY <2>1, <2>2, WayLevels
  <1>2. /\ stack' = [stack EXCEPT ![n] = level]
        /\ depth' = [depth EXCEPT !.bt = @ + by, !.subdiv = @ + by]
        /\ qgPos' = IF level.qg THEN Pos(AreaOf(level)) ELSE qgPos
    <2>1. level.idx = stack[n].idx + 1 BY <1>1, MovedLevel
    <2>2. level.idx = 1 <=> stack[n].idx = 0 BY <1>1, <2>1
    <2>3. level = [Top EXCEPT !.idx = @ + 1, !.implicit = "unchecked"] BY <1>1, Zenon DEF MovedOn
    <2>4. by = IF Top.split \notin TtSplits THEN 0 ELSE IF level.idx = 1 THEN -1 ELSE 1
      BY <1>1, <2>2, Zenon
    <2> HIDE DEF level, by
    <2> QED BY <2>3, <2>4, Zenon DEF NextPart, GroupAt
  <1>3. /\ stack' \in Seq(LevelType) /\ Len(stack') = n
        /\ \A i \in 1 .. n - 1 : stack'[i] = stack[i]
        /\ Kept(stack, stack', n - 1)
        /\ stack'[n].split = stack[n].split /\ stack'[n].parts = stack[n].parts
        /\ stack'[n].idx = stack[n].idx + 1 /\ stack'[n].qg = stack[n].qg
        /\ stack'[n].implicit = "unchecked"
    <2>1. stack \in Seq(LevelType) BY <1>1 DEF WayShape
    <2> QED BY <1>1, <1>2, <2>1, WhenMoved
  <1>4. stack'[n] = level
    <2>1. stack \in Seq(LevelType) BY <1>1 DEF WayShape
    <2> HIDE DEF level
    <2> QED BY <1>1, <1>2, <2>1
  <1>5. qgPos' = IF stack[n].qg THEN Pos(AreaOf(stack'[n])) ELSE qgPos
    <2>1. level.qg = stack[n].qg BY <1>1, MovedLevel
    <2> HIDE DEF level
    <2> QED BY <1>2, <1>4, <2>1, Zenon
  <1>6. stack'[n].idx < Len(stack[n].parts) /\ stack[n].idx + 1 < Len(stack[n].parts) BY <1>1, <1>3
  <1>7. Way(stack')
    <2> HIDE DEF n
    <2>2. n \in 1 .. Len(stack) BY <1>1 DEF n
    <2> QED BY <1>1, <1>3, <1>6, <2>2, WayFollowed
  <1>8. TSplits'
    <2>1. \A i \in 2 .. n : SplitFor(limits, extent, stack, i) BY DEF TSplits
    <2> HIDE DEF n
    <2>2. \A i \in 2 .. n : SplitFor(limits, extent, stack', i) BY <1>1, <1>3, <2>1, SplitsKept
    <2>3. Len(stack') = n BY <1>3
    <2> QED BY <2>2, <2>3 DEF TSplits
  <1>9. depth \in DepthType BY DEF TShape, DepthType
  <1>10. /\ depth' \in DepthType
         /\ depth'.all = depth.all /\ depth'.qt = depth.qt /\ depth'.mt = depth.mt
         /\ depth'.tr = depth.tr /\ depth'.implicitBt = depth.implicitBt
         /\ depth'.bt = depth.bt + by /\ depth'.subdiv = depth.subdiv + by
    <2>1. by \in Int OBVIOUS
    <2>2. depth' = [depth EXCEPT !.bt = depth.bt + by, !.subdiv = depth.subdiv + by]
      BY <1>2
    <2> HIDE DEF by
    <2> DEFINE bt == depth.bt + by
               subdiv == depth.subdiv + by
    <2>3. bt \in Int /\ subdiv \in Int BY <1>9, <2>1, DepthFields
    <2>4. depth' = [depth EXCEPT !.bt = bt, !.subdiv = subdiv] BY <2>2
    <2> HIDE DEF bt, subdiv
    <2>5. /\ depth' \in DepthType
          /\ depth'.all = depth.all /\ depth'.qt = depth.qt /\ depth'.mt = depth.mt
          /\ depth'.tr = depth.tr /\ depth'.implicitBt = depth.implicitBt
          /\ depth'.bt = bt /\ depth'.subdiv = subdiv
      BY <1>9, <2>3, <2>4 DEF DepthType
    <2> QED BY <2>5 DEF bt, subdiv
  <1>11. TDepths'
    <2>1. Depths(depth', extent, stack')
      <3>1. n > 1 OBVIOUS
      <3>2. /\ stack'[n].split = stack[n].split /\ stack'[n].idx = stack[n].idx + 1
            /\ Len(stack') = n /\ Kept(stack, stack', n - 1)
        BY <1>3
      <3> HIDE DEF level
      <3> QED BY <1>1, <1>6, <1>9, <1>10, <3>1, <3>2, MovedDepths
    <2>2. \A i \in 1 .. n - 1 : stack'[i].implicit = ImplicitAt(limits, extent, stack', i)
      <3>1. \A i \in 1 .. n - 1 : stack[i].implicit = ImplicitAt(limits, extent, stack, i) BY DEF TDepths
      <3>2. \A i \in 1 .. n - 1 : stack'[i] = stack[i] BY <1>3
      <3>3. Kept(stack, stack', n - 1) /\ stack'[n].split = stack[n].split /\ n \in Nat /\ n >= 1
        BY <1>1, <1>3
      <3> HIDE DEF n, level, by
      <3>4. n - 1 \in Nat BY <3>3
      <3>5. \A m \in 1 .. n - 1 : ImplicitAt(limits, extent, stack', m) = ImplicitAt(limits, extent, stack, m)
        BY <3>3, <3>4, SameImplicit
      <3> QED BY <3>1, <3>2, <3>5, Zenon
    <2>3. stack'[n].implicit = "unchecked" BY <1>3
    <2>4. Len(stack') = n BY <1>3
    <2> HIDE DEF n, level, by
    <2> QED BY <2>1, <2>2, <2>3, <2>4 DEF TDepths, Top
  <1>12. \A i \in 1 .. Len(stack') - 1 : Within(extent', AreaOf(stack'[i]))
    <2>1. Len(stack') = n /\ \A i \in 1 .. n - 1 : stack'[i] = stack[i] BY <1>3
    <2>2. \A i \in 1 .. n - 1 : Within(extent, AreaOf(stack[i])) BY DEF TBorder
    <2> QED BY <2>1, <2>2
  <1> QED BY <1>3, <1>5, <1>7, <1>8, <1>10, <1>11, <1>12

LEMMA ExitKeepsWay ==
    ASSUME TShape, TBorder, TSplits, TDepths, ExitCurrSplit, Len(stack) > 1, Top.idx + 1 = Len(Top.parts),
           UNCHANGED <<limits, extent>>
    PROVE  /\ stack' \in Seq(LevelType) /\ Len(stack') = Len(stack) - 1
           /\ \A i \in 1 .. Len(stack) - 1 : stack'[i] = stack[i]
           /\ depth' \in DepthType /\ Way(stack') /\ TSplits' /\ TDepths'
           /\ \A i \in 1 .. Len(stack') - 1 : Within(extent', AreaOf(stack'[i]))
           /\ qgPos' = IF stack[Len(stack) - 1].qg THEN Pos(AreaOf(stack[Len(stack) - 1])) ELSE qgPos
  <1> DEFINE n == Len(stack) - 1
             s == stack[Len(stack)].split
             was == stack[n].implicit \notin {"unchecked", "none"}
             C == IF was THEN MtSplits ELSE {}
  <1>1. /\ Way(stack) /\ n \in Nat /\ n >= 1 /\ Len(stack) \in Nat /\ Len(stack) = n + 1
        /\ Depths(depth, extent, stack)
        /\ WayShape(stack) /\ Top = stack[Len(stack)] /\ stack \in Seq(LevelType)
    <2>1. Way(stack) /\ WayShape(stack) /\ Depths(depth, extent, stack) BY DEF TShape, TDepths, Way
    <2>2. Len(stack) \in Nat /\ Len(stack) >= 1 /\ Top = stack[Len(stack)] BY <2>1, TopIsLast
    <2> QED BY <2>1, <2>2 DEF WayShape
  <1>2. /\ stack' = SubSeq(stack, 1, Len(stack) - 1)
        /\ depth' = [depth EXCEPT
                !.all = @ - 1,
                !.subdiv = @ - (IF s \in MtSplits THEN Twice(s) ELSE IF s = "quad" THEN 2 ELSE 1),
                !.tr = IF s \in TuSplits THEN @ - 1 ELSE @,
                !.qt = IF s = "quad" THEN @ - 1 ELSE @,
                !.bt = IF s \in MtSplits THEN @ - Twice(s) ELSE @,
                !.mt = IF s \in MtSplits THEN @ - 1 ELSE @,
                !.implicitBt = IF s \in MtSplits /\ was THEN @ - 1 ELSE @]
        /\ qgPos' = IF stack[n].qg THEN Pos(AreaOf(stack[n])) ELSE qgPos
    BY <1>1, Zenon DEF ExitCurrSplit, ExitBy, GroupAt
  <1>3. /\ stack' \in Seq(LevelType) /\ Len(stack') = n
        /\ \A i \in 1 .. n : stack'[i] = stack[i]
        /\ Kept(stack, stack', n)
    BY <1>1, <1>2, WhenPopped
  <1>4. n \in 1 .. Len(stack) /\ n \in 1 .. n /\ n - 1 \in 0 .. n BY <1>1
  <1>5. Kept(stack, stack', n - 1) /\ stack'[n] = stack[n]
    BY <1>1, <1>3, <1>4, KeptAreas
  <1>6. Way(stack')
    <2>1. stack'[n].idx < Len(stack[n].parts) BY <1>1, <1>4, <1>5 DEF WayShape
    <2>2. stack'[n].split = stack[n].split /\ stack'[n].parts = stack[n].parts BY <1>5
    <2> HIDE DEF n
    <2> QED BY <1>1, <1>3, <1>4, <1>5, <2>1, <2>2, WayFollowed
  <1>7. TSplits'
    <2>1. \A i \in 2 .. n : SplitFor(limits, extent, stack, i)
      <3>1. 2 .. n \subseteq 2 .. Len(stack) BY <1>1
      <3> QED BY <3>1 DEF TSplits
    <2>2. stack'[n].split = stack[n].split /\ Len(stack') = n BY <1>3, <1>5
    <2> HIDE DEF n
    <2>3. \A i \in 2 .. n : SplitFor(limits, extent, stack', i) BY <1>1, <1>5, <2>1, <2>2, SplitsKept
    <2> QED BY <2>2, <2>3 DEF TSplits
  <1>8. depth \in DepthType BY DEF TShape, DepthType
  <1>9. depth' \in DepthType /\ PoppedDepth(depth, depth', s, C)
    <2> DEFINE all == depth.all - 1
               subdiv == depth.subdiv - (IF s \in MtSplits THEN Twice(s) ELSE IF s = "quad" THEN 2 ELSE 1)
               tr == IF s \in TuSplits THEN depth.tr - 1 ELSE depth.tr
               qt == IF s = "quad" THEN depth.qt - 1 ELSE depth.qt
               bt == IF s \in MtSplits THEN depth.bt - Twice(s) ELSE depth.bt
               mt == IF s \in MtSplits THEN depth.mt - 1 ELSE depth.mt
               im == IF s \in MtSplits /\ was THEN depth.implicitBt - 1 ELSE depth.implicitBt
    <2>1. Twice(s) \in Int BY DEF Twice
    <2>2. /\ all \in Int /\ subdiv \in Int /\ tr \in Int /\ qt \in Int /\ bt \in Int
          /\ mt \in Int /\ im \in Int
      <3> HIDE DEF s, was
      <3>1. /\ depth.all \in Int /\ depth.qt \in Int /\ depth.bt \in Int /\ depth.mt \in Int
            /\ depth.tr \in Int /\ depth.subdiv \in Int /\ depth.implicitBt \in Int
        BY <1>8, DepthFields
      <3>2. all \in Int /\ tr \in Int /\ qt \in Int /\ mt \in Int BY <3>1
      <3>3. subdiv \in Int BY <2>1, <3>1
      <3>4. bt \in Int BY <2>1, <3>1
      <3>5. im \in Int BY <3>1
      <3> HIDE DEF all, subdiv, tr, qt, bt, mt, im
      <3> QED BY <3>2, <3>3, <3>4, <3>5
    <2>3. depth' = [depth EXCEPT !.all = all, !.subdiv = subdiv, !.tr = tr, !.qt = qt, !.bt = bt,
                                 !.mt = mt, !.implicitBt = im]
      <3> HIDE DEF s, was
      <3> QED BY <1>2
    <2>4. im = IF s \in C THEN depth.implicitBt - 1 ELSE depth.implicitBt
      <3> HIDE DEF s, was
      <3> QED OBVIOUS
    <2> HIDE DEF all, tr, qt, bt, mt, im, subdiv, C
    <2>5. /\ depth' \in DepthType
          /\ depth'.all = all /\ depth'.subdiv = subdiv /\ depth'.tr = tr /\ depth'.qt = qt
          /\ depth'.bt = bt /\ depth'.mt = mt /\ depth'.implicitBt = im
      BY <1>8, <2>2, <2>3 DEF DepthType
    <2> HIDE DEF s
    <2> QED BY <2>4, <2>5 DEF PoppedDepth, all, tr, qt, bt, mt, subdiv
  <1>10. was <=> Crosses(extent, AreaOf(stack[n]))
    <2>1. stack[n].implicit = ImplicitAt(limits, extent, stack, n)
      <3>1. n \in 1 .. Len(stack) - 1 BY <1>4
      <3> QED BY <3>1 DEF TDepths
    <2>2. /\ ImplicitAt(limits, extent, stack, n) \in {"none", "quad", "horz", "vert"}
          /\ ImplicitAt(limits, extent, stack, n) = "none" <=> ~Crosses(extent, AreaOf(stack[n]))
      <3> HIDE DEF n
      <3> QED BY Zenon, ImplicitValue DEF ImplicitAt
    <2>3. ImplicitAt(limits, extent, stack, n) # "unchecked" BY <2>2
    <2> HIDE DEF n
    <2> QED BY <2>1, <2>2, <2>3, Zenon
  <1>11. TDepths'
    <2>1. Depths(depth', extent, stack')
      <3>1. s \in C <=> s \in MtSplits /\ Crosses(extent, AreaOf(stack[n]))
        <4> HIDE DEF s, was
        <4>1. s \in C <=> s \in MtSplits /\ was OBVIOUS
        <4> QED BY <1>10, <4>1
      <3>2. C \in SUBSET MtSplits OBVIOUS
      <3>3. stack[Len(stack)].idx + 1 = Len(stack[Len(stack)].parts) BY <1>1
      <3>4. Len(stack) > 1 /\ Len(stack') = Len(stack) - 1 /\ Kept(stack, stack', Len(stack) - 1)
        BY <1>3
      <3>5. PoppedDepth(depth, depth', stack[Len(stack)].split, C) /\ depth' \in DepthType
            /\ (stack[Len(stack)].split \in C
                    <=> stack[Len(stack)].split \in MtSplits
                        /\ Crosses(extent, AreaOf(stack[Len(stack) - 1])))
        BY <1>9, <3>1
      <3> HIDE DEF C, n, s
      <3> QED BY <1>1, <1>8, <3>2, <3>3, <3>4, <3>5, PoppedDepths
    <2>2. \A m \in 1 .. n : ImplicitAt(limits, extent, stack', m) = ImplicitAt(limits, extent, stack, m)
      <3> HIDE DEF n, C, s
      <3> QED BY <1>1, <1>3, SameImplicit
    <2>3. \A i \in 1 .. n : stack'[i].implicit = ImplicitAt(limits, extent, stack', i)
      BY <1>3, <2>2 DEF TDepths
    <2>4. \A i \in 1 .. n - 1 : i \in 1 .. n BY <1>1
    <2>5. Len(stack') = n BY <1>3
    <2> HIDE DEF n, C, s
    <2>6. stack'[n].implicit = ImplicitAt(limits, extent, stack', n) BY <1>4, <2>3
    <2> QED BY <2>1, <2>3, <2>4, <2>5, <2>6 DEF TDepths, Top
  <1>12. \A i \in 1 .. Len(stack') - 1 : Within(extent', AreaOf(stack'[i]))
    <2>1. \A i \in 1 .. n - 1 : i \in 1 .. n BY <1>1
    <2>2. Len(stack') = n /\ \A i \in 1 .. n : stack'[i] = stack[i] BY <1>3
    <2>3. \A i \in 1 .. n : Within(extent, AreaOf(stack[i])) BY DEF TBorder
    <2> HIDE DEF n
    <2> QED BY <2>1, <2>2, <2>3
  <1> QED BY <1>2, <1>3, <1>6, <1>7, <1>9, <1>11, <1>12

----------------------------------------------------------------------------
(* Every step of the walk keeps its invariant *)

TWalk == TShape /\ TBorder /\ TSplits /\ TDepths

LEMMA WalkInit == TreeInit => TWalk
  <1> SUFFICES ASSUME TreeInit PROVE TWalk OBVIOUS
  <1>1. /\ limits \in Limits /\ tree \in {"luma", "chroma"} /\ extent \in Extent
        /\ stack = <<Level("ctu", <<CtuArea>>, TRUE)>>
        /\ depth = [all |-> 0, qt |-> 0, bt |-> 0, mt |-> 0, tr |-> 0, subdiv |-> 0, implicitBt |-> 0]
        /\ qgStart = FALSE /\ sbt = "none" /\ phase = "tree"
    BY DEF TreeInit, Extent
  <1>2. /\ Way(stack) /\ Len(stack) = 1 /\ stack[1].split = "ctu" /\ stack[1].implicit = "unchecked"
        /\ AreaOf(stack[1]) = CtuArea /\ Top = stack[1] /\ CurrArea = CtuArea
    <2>1. /\ Way(stack) /\ Len(stack) = 1 /\ stack[1].split = "ctu" /\ stack[1].implicit = "unchecked"
          /\ AreaOf(stack[1]) = CtuArea
      BY <1>1, WayOfCtu, Zenon
    <2> QED BY <2>1, Zenon DEF Top, CurrArea
  <1>3. TShape
    <2>1. depth \in [all : Int, qt : Int, bt : Int, mt : Int, tr : Int, subdiv : Int, implicitBt : Int]
      BY <1>1
    <2>2. Top.split \notin TuSplits BY <1>2, Kinds
    <2> QED BY <1>1, <1>2, <2>1, <2>2 DEF TShape
  <1>4. TBorder
    <2>1. Within(extent, CtuArea) BY <1>1, ExtentFields DEF Within, CtuArea
    <2>2. \A i \in 1 .. Len(stack) - 1 : FALSE BY <1>2
    <2>3. phase # "transform" BY <1>1
    <2> QED BY <1>2, <2>1, <2>2, <2>3, Zenon DEF TBorder
  <1>5. \A i \in 2 .. 1 : FALSE OBVIOUS
  <1>6. TSplits BY <1>2, <1>5, Zenon DEF TSplits
  <1>7. TDepths
    <2>1. \A S : UpTo(stack, S, 1) = {} BY <1>5, Zenon DEF UpTo
    <2>2. OuterUpTo(stack, 1) = {} /\ ImplicitUpTo(stack, extent, 1) = {}
      BY <2>1, Zenon DEF OuterUpTo, ImplicitUpTo
    <2>3. Cardinality({}) = 0 BY FS_EmptySet
    <2>4. Sums(depth, 0, 0, 0, 0, 0) /\ depth.all = 1 - 1 BY <1>1 DEF Sums
    <2>5. Depths(depth, extent, stack)
      <3>1. Sums(depth, Cardinality(UpTo(stack, {"quad"}, 1)), Cardinality(UpTo(stack, MtSplits, 1)),
                 Cardinality(UpTo(stack, TuSplits, 1)), Cardinality(OuterUpTo(stack, 1)),
                 Cardinality(ImplicitUpTo(stack, extent, 1)))
        BY <2>1, <2>2, <2>3, <2>4
      <3>2. 1 = Len(stack) BY <1>2
      <3> QED BY <2>4, <3>1, <3>2, DepthsAreSums
    <2>6. \A i \in 1 .. Len(stack) - 1 : FALSE BY <1>2
    <2> QED BY <1>2, <2>5, <2>6, Zenon DEF TDepths
  <1> QED BY <1>3, <1>4, <1>6, <1>7 DEF TWalk

(* Where a split of coding_tree leads.                                     *)
LEMMA SplitCuArea ==
    ASSUME TWalk, SplitCu
    PROVE  /\ Top.split \notin TuSplits /\ Len(stack') = Len(stack) + 1
           /\ Kept(stack, stack', Len(stack))
           /\ depth' \in DepthType /\ Way(stack') /\ TSplits' /\ TDepths'
           /\ \A i \in 1 .. Len(stack') - 1 : Within(extent', AreaOf(stack'[i]))
           /\ Top' = stack'[Len(stack) + 1] /\ Top'.split \in CuSplits /\ Top'.idx = 0
           /\ Top'.qg => Top.qg
           /\ Pos(CurrArea') = Pos(CurrArea)
           /\ qgPos' = IF Top'.qg THEN Pos(CurrArea') ELSE qgPos
  <1>1. TShape /\ TBorder /\ TSplits /\ TDepths BY DEF TWalk
  <1>2. phase = "tree" /\ UNCHANGED <<limits, extent>> BY DEF SplitCu
  <1>3. PICK s \in CanSplit \ {"none"} : SplitCurrArea(s) BY DEF SplitCu
  <1>4. GoodSplit(limits, extent, stack, s) BY <1>1, <1>2, MaySplit
  <1>5. Top.split \notin TuSplits BY <1>1, <1>2 DEF TShape
  <1>6. /\ Pushed(stack, stack', s, CurrArea, ImplicitAt(limits, extent, stack, Len(stack)))
        /\ depth' \in DepthType /\ Way(stack') /\ TSplits' /\ TDepths'
        /\ \A i \in 1 .. Len(stack') - 1 : Within(extent', AreaOf(stack'[i]))
        /\ Pos(AreaOf(stack'[Len(stack) + 1])) = Pos(CurrArea)
        /\ qgPos' = IF stack'[Len(stack) + 1].qg THEN Pos(CurrArea) ELSE qgPos
    BY <1>1, <1>2, <1>3, <1>4, <1>5, SplitKeepsWay
  <1>7. /\ Len(stack') = Len(stack) + 1 /\ Kept(stack, stack', Len(stack))
        /\ stack'[Len(stack) + 1].split = s /\ stack'[Len(stack) + 1].idx = 0
        /\ stack'[Len(stack) + 1].qg => stack[Len(stack)].qg
    BY <1>6, Zenon DEF Pushed
  <1>8. Top' = stack'[Len(stack) + 1] /\ CurrArea' = AreaOf(stack'[Len(stack) + 1])
        /\ Top = stack[Len(stack)]
    BY <1>7, Zenon DEF Top, CurrArea
  <1>9. s \in CuSplits BY <1>4, Zenon DEF GoodSplit
  <1>10. qgPos' = IF Top'.qg THEN Pos(CurrArea') ELSE qgPos BY <1>6, <1>8, Zenon
  <1> QED BY <1>5, <1>6, <1>7, <1>8, <1>9, <1>10

LEMMA WalkSplitCu == TWalk /\ SplitCu => TWalk'
  <1> SUFFICES ASSUME TWalk, SplitCu PROVE TWalk' OBVIOUS
  <1>1. TShape /\ TBorder /\ TSplits /\ TDepths BY DEF TWalk
  <1>2. /\ phase = "tree" /\ qgStart' = (qgStart \/ Top.qg)
        /\ UNCHANGED <<limits, tree, extent, sbt, coded, phase>>
    BY DEF SplitCu
  <1>3. /\ Top.split \notin TuSplits
        /\ depth' \in DepthType /\ Way(stack') /\ TSplits' /\ TDepths'
        /\ \A i \in 1 .. Len(stack') - 1 : Within(extent', AreaOf(stack'[i]))
        /\ Top'.split \in CuSplits /\ Pos(CurrArea') = Pos(CurrArea)
    BY SplitCuArea
  <1>4. TShape'
    <2>1. Top'.split \notin TuSplits BY <1>3, Kinds
    <2>2. qgStart' \in BOOLEAN
      <3>1. Top.qg \in BOOLEAN
        <4>1. Way(stack) /\ WayShape(stack) BY <1>1 DEF TShape, Way
        <4>2. Top \in LevelType BY <4>1, TopIsLast, WayLevels
        <4> QED BY <4>2, LevelFields
      <3> QED BY <1>1, <1>2, <3>1 DEF TShape
    <2>3. depth' \in [all : Int, qt : Int, bt : Int, mt : Int, tr : Int, subdiv : Int, implicitBt : Int]
      BY <1>3 DEF DepthType
    <2> QED BY <1>1, <1>2, <1>3, <2>1, <2>2, <2>3 DEF TShape
  <1>5. TBorder'
    <2>1. Within(extent, CurrArea) BY <1>1, <1>2, <1>3 DEF TBorder
    <2>2. Within(extent', CurrArea') BY <1>2, <1>3, <2>1 DEF Within, Pos
    <2>3. phase' # "transform" BY <1>2
    <2> QED BY <1>3, <2>2, <2>3 DEF TBorder
  <1> QED BY <1>3, <1>4, <1>5 DEF TWalk

(* A part of a transform tree is not split again.                          *)
LEMMA SplitOnce ==
    ASSUME TWalk, SplitTu
    PROVE  Top.split \notin TuSplits
  <1>1. Way(stack) /\ WayShape(stack) /\ WayTransforms(stack) /\ Depths(depth, extent, stack)
    BY DEF TWalk, TShape, TDepths, Way
  <1>2. AboveMaxTr \/ depth.tr = 0 BY DEF SplitTu
  <1> SUFFICES ASSUME Top.split \in TuSplits PROVE FALSE OBVIOUS
  <1> DEFINE n == Len(stack)
  <1>3. n \in Nat /\ n >= 1 /\ n \in 1 .. n /\ Top = stack[n] /\ CurrArea = AreaOf(stack[n])
    BY <1>1, TopIsLast
  <1>4. ~AboveMaxTr
    <2>1. stack[n].idx + 1 \in DOMAIN stack[n].parts /\ CurrArea = stack[n].parts[stack[n].idx + 1]
          /\ CurrArea \in Areas
      BY <1>1, <1>3, WayLevels
    <2>2. CurrArea.w <= MaxTbSize /\ CurrArea.h <= MaxTbSize
      BY <1>1, <1>3, <2>1 DEF WayTransforms
    <2>3. CurrArea.w \in Nat /\ CurrArea.h \in Nat /\ MaxTbSize \in Nat BY <2>1, AreaType, TreeAssumption
    <2>4. ~(CurrArea.w > MaxTbSize) BY <2>2, <2>3
    <2>5. ~(CurrArea.h > MaxTbSize) BY <2>2, <2>3
    <2> QED BY <2>4, <2>5 DEF AboveMaxTr
  <1>5. n \in UpTo(stack, TuSplits, n)
    <2>1. n # 1
      <3>1. stack[1].split = "ctu" BY <1>1 DEF WayShape
      <3>2. "ctu" \notin TuSplits BY Kinds
      <3> QED BY <1>3, <3>1, <3>2
    <2>2. n \in 2 .. n
      <3> HIDE DEF n
      <3> QED BY <1>3, <2>1
    <2> QED BY <1>3, <2>2, Zenon DEF UpTo
  <1>6. depth.tr # 0
    <2>1. depth.tr = Cardinality(UpTo(stack, TuSplits, n)) BY <1>1 DEF Depths
    <2> QED BY <1>3, <1>5, <2>1, Counted
  <1> QED BY <1>2, <1>4, <1>6

(* Where a split of transform_tree leads.                                  *)
LEMMA SplitTuArea ==
    ASSUME TWalk, SplitTu
    PROVE  /\ Top.split \notin TuSplits /\ Len(stack') = Len(stack) + 1
           /\ Kept(stack, stack', Len(stack))
           /\ depth' \in DepthType /\ Way(stack') /\ TSplits' /\ TDepths'
           /\ \A i \in 1 .. Len(stack') - 1 : Within(extent', AreaOf(stack'[i]))
           /\ Top' = stack'[Len(stack) + 1] /\ Top'.split \in TuSplits /\ Top'.idx = 0
           /\ Top'.qg => Top.qg
           /\ Pos(CurrArea') = Pos(CurrArea)
           /\ qgPos' = IF Top'.qg THEN Pos(CurrArea') ELSE qgPos
  <1>1. TShape /\ TBorder /\ TSplits /\ TDepths BY DEF TWalk
  <1> DEFINE s == IF AboveMaxTr THEN "maxTr" ELSE sbt
  <1>2. /\ phase = "transform" /\ SplitCurrArea(s) /\ (AboveMaxTr \/ sbt # "none")
        /\ UNCHANGED <<limits, tree, extent, qgStart, sbt, coded, phase>>
    BY DEF SplitTu
  <1>3. Top.split \notin TuSplits BY SplitOnce
  <1>4. GoodTuSplit(stack, s)
    <2>1. Way(stack) BY <1>1 DEF TShape
    <2>2. CurrArea = AreaOf(stack[Len(stack)]) /\ CurrArea \in Areas BY <2>1, TopIsLast
    <2>3. CurrArea.w \in Nat /\ CurrArea.h \in Nat /\ MaxTbSize \in Nat BY <2>2, AreaType, TreeAssumption
    <2>4. CASE AboveMaxTr
      <3>1. "maxTr" \in TuSplits /\ "maxTr" \notin SbtSplits BY DEF TuSplits, SbtSplits
      <3> QED BY <2>4, <3>1, Zenon DEF GoodTuSplit
    <2>5. CASE ~AboveMaxTr
      <3>1. CurrArea.w <= MaxTbSize /\ CurrArea.h <= MaxTbSize BY <2>3, <2>5 DEF AboveMaxTr
      <3>2. s = sbt /\ sbt \in SbtSplits BY <1>1, <1>2, <2>5 DEF TShape
      <3>3. s \in TuSplits BY <3>2, Kinds
      <3> HIDE DEF s
      <3> QED BY <2>2, <3>1, <3>3, Zenon DEF GoodTuSplit
    <2> QED BY <2>4, <2>5
  <1> HIDE DEF s
  <1>6. /\ Pushed(stack, stack', s, CurrArea, ImplicitAt(limits, extent, stack, Len(stack)))
        /\ depth' \in DepthType /\ Way(stack') /\ TSplits' /\ TDepths'
        /\ \A i \in 1 .. Len(stack') - 1 : Within(extent', AreaOf(stack'[i]))
        /\ Pos(AreaOf(stack'[Len(stack) + 1])) = Pos(CurrArea)
        /\ qgPos' = IF stack'[Len(stack) + 1].qg THEN Pos(CurrArea) ELSE qgPos
    BY <1>1, <1>2, <1>3, <1>4, SplitKeepsWay
  <1>7. /\ Len(stack') = Len(stack) + 1 /\ Kept(stack, stack', Len(stack))
        /\ stack'[Len(stack) + 1].split = s /\ stack'[Len(stack) + 1].idx = 0
        /\ stack'[Len(stack) + 1].qg => stack[Len(stack)].qg
    BY <1>6, Zenon DEF Pushed
  <1>8. Top' = stack'[Len(stack) + 1] /\ CurrArea' = AreaOf(stack'[Len(stack) + 1])
        /\ Top = stack[Len(stack)]
    BY <1>7, Zenon DEF Top, CurrArea
  <1>9. s \in TuSplits BY <1>4, Zenon DEF GoodTuSplit
  <1>10. qgPos' = IF Top'.qg THEN Pos(CurrArea') ELSE qgPos BY <1>6, <1>8, Zenon
  <1> QED BY <1>3, <1>6, <1>7, <1>8, <1>9, <1>10

LEMMA WalkSplitTu == TWalk /\ SplitTu => TWalk'
  <1> SUFFICES ASSUME TWalk, SplitTu PROVE TWalk' OBVIOUS
  <1>1. TShape /\ TBorder /\ TSplits /\ TDepths BY DEF TWalk
  <1>2. /\ phase = "transform" /\ UNCHANGED <<limits, tree, extent, qgStart, sbt, coded, phase>>
    BY DEF SplitTu
  <1>3. /\ depth' \in DepthType /\ Way(stack') /\ TSplits' /\ TDepths'
        /\ \A i \in 1 .. Len(stack') - 1 : Within(extent', AreaOf(stack'[i]))
        /\ Top'.split \in TuSplits
    BY SplitTuArea
  <1>4. TShape'
    <2>1. depth' \in [all : Int, qt : Int, bt : Int, mt : Int, tr : Int, subdiv : Int, implicitBt : Int]
      BY <1>3 DEF DepthType
    <2> QED BY <1>1, <1>2, <1>3, <2>1 DEF TShape
  <1>5. TBorder' BY <1>2, <1>3 DEF TBorder
  <1> QED BY <1>3, <1>4, <1>5 DEF TWalk

LEMMA DepthInType == TShape => depth \in DepthType
  BY DEF TShape, DepthType

(* What keeping the implicit split leaves of the current area.             *)
LEMMA CachedArea ==
    ASSUME TWalk, stack' = Cached, UNCHANGED <<limits, extent, depth>>
    PROVE  /\ Len(stack') = Len(stack) /\ Kept(stack, stack', Len(stack))
           /\ Way(stack') /\ TSplits' /\ TDepths' /\ stack' \in Seq(LevelType)
           /\ \A i \in 1 .. Len(stack') - 1 : Within(extent', AreaOf(stack'[i]))
           /\ Top'.split = Top.split /\ CurrArea' = CurrArea /\ Top'.qg = Top.qg
           /\ Top'.idx = Top.idx /\ Top'.parts = Top.parts
  <1>1. TShape /\ TBorder /\ TSplits /\ TDepths BY DEF TWalk
  <1>2. /\ Len(stack') = Len(stack) /\ Kept(stack, stack', Len(stack))
        /\ Way(stack') /\ TSplits' /\ TDepths' /\ stack' \in Seq(LevelType)
        /\ \A i \in 1 .. Len(stack') - 1 : Within(extent', AreaOf(stack'[i]))
    BY <1>1, CachedKeepsWay
  <1>3. Len(stack) \in 1 .. Len(stack) BY <1>1, TopIsLast DEF TShape
  <1>4. /\ stack'[Len(stack)].split = stack[Len(stack)].split
        /\ stack'[Len(stack)].parts = stack[Len(stack)].parts
        /\ stack'[Len(stack)].idx = stack[Len(stack)].idx
        /\ stack'[Len(stack)].qg = stack[Len(stack)].qg
    BY <1>2, <1>3, Zenon DEF Kept
  <1>5. /\ Top'.split = Top.split /\ Top'.qg = Top.qg
        /\ Top'.idx = Top.idx /\ Top'.parts = Top.parts
    BY <1>2, <1>4, Zenon DEF Top
  <1>6. CurrArea' = CurrArea BY <1>5, Zenon DEF CurrArea, AreaOf
  <1> QED BY <1>2, <1>5, <1>6

LEMMA WalkCodeCu == TWalk /\ CodeCu => TWalk'
  <1> SUFFICES ASSUME TWalk, CodeCu PROVE TWalk' OBVIOUS
  <1>1. TShape /\ TBorder /\ TSplits /\ TDepths BY DEF TWalk
  <1>2. /\ phase = "tree" /\ "none" \in CanSplit /\ stack' = Cached /\ qgStart' = FALSE
        /\ sbt' \in {"none"} \cup SbtAllowed(CurrArea) /\ phase' = "transform"
        /\ UNCHANGED <<limits, tree, extent, depth, qgPos>>
    BY DEF CodeCu
  <1>3. /\ Way(stack') /\ TSplits' /\ TDepths' /\ Len(stack') = Len(stack)
        /\ \A i \in 1 .. Len(stack') - 1 : Within(extent', AreaOf(stack'[i]))
        /\ Top'.split = Top.split /\ CurrArea' = CurrArea
    BY <1>2, CachedArea
  <1>4. TShape'
    <2>1. sbt' \in SbtSplits \cup {"none"} BY <1>2 DEF SbtAllowed
    <2>2. Top.split \notin TuSplits BY <1>1, <1>2 DEF TShape
    <2> QED BY <1>1, <1>2, <1>3, <2>1 DEF TShape
  <1>5. TBorder'
    <2>1. Within(extent, CurrArea) BY <1>1, <1>2 DEF TBorder, TShape
    <2>2. ~Crosses(extent, CurrArea) BY <1>1, <1>2, MayCode
    <2>3. extent' = extent BY <1>2
    <2>4. Within(extent', CurrArea') /\ ~Crosses(extent', CurrArea') BY <1>3, <2>1, <2>2, <2>3, Zenon
    <2> QED BY <1>3, <2>4, Zenon DEF TBorder
  <1> QED BY <1>3, <1>4, <1>5 DEF TWalk

LEMMA WalkCodeTu == TWalk /\ CodeTu => TWalk'
  <1> SUFFICES ASSUME TWalk, CodeTu PROVE TWalk' OBVIOUS
  <1>1. TShape /\ TBorder /\ TSplits /\ TDepths BY DEF TWalk
  <1>2. /\ stack' = Cached /\ phase' = "next"
        /\ UNCHANGED <<limits, tree, extent, depth, qgPos, qgStart, sbt, coded>>
    BY DEF CodeTu
  <1>3. /\ Way(stack') /\ TSplits' /\ TDepths'
        /\ \A i \in 1 .. Len(stack') - 1 : Within(extent', AreaOf(stack'[i]))
    BY <1>2, CachedArea
  <1>4. TShape' BY <1>1, <1>2, <1>3 DEF TShape
  <1>5. TBorder' BY <1>2, <1>3 DEF TBorder
  <1> QED BY <1>3, <1>4, <1>5 DEF TWalk

(* The part that the walk comes to.                                        *)
LEMMA NextPartArea ==
    ASSUME TWalk, ToNextPart
    PROVE  /\ stack' \in Seq(LevelType) /\ Len(stack') = Len(stack) /\ Kept(stack, stack', Len(stack) - 1)
           /\ stack'[Len(stack)].split = stack[Len(stack)].split
           /\ stack'[Len(stack)].parts = stack[Len(stack)].parts
           /\ stack'[Len(stack)].idx = stack[Len(stack)].idx + 1
           /\ stack'[Len(stack)].qg = stack[Len(stack)].qg
           /\ depth' \in DepthType /\ Way(stack') /\ TSplits' /\ TDepths'
           /\ \A i \in 1 .. Len(stack') - 1 : Within(extent', AreaOf(stack'[i]))
           /\ Top'.split = Top.split /\ Top'.idx = Top.idx + 1 /\ Top'.qg = Top.qg /\ Top'.parts = Top.parts
           /\ CurrArea' = Top.parts[Top.idx + 2]
           /\ qgPos' = IF Top.qg THEN Pos(CurrArea') ELSE qgPos
  <1>1. TShape /\ TBorder /\ TSplits /\ TDepths BY DEF TWalk
  <1>2. /\ NextPart /\ Len(stack) > 1 /\ Top.idx + 1 < Len(Top.parts) /\ UNCHANGED <<limits, extent>>
    BY DEF ToNextPart
  <1>3. /\ stack' \in Seq(LevelType) /\ Len(stack') = Len(stack) /\ Kept(stack, stack', Len(stack) - 1)
        /\ stack'[Len(stack)].split = stack[Len(stack)].split
        /\ stack'[Len(stack)].parts = stack[Len(stack)].parts
        /\ stack'[Len(stack)].idx = stack[Len(stack)].idx + 1
        /\ stack'[Len(stack)].qg = stack[Len(stack)].qg
        /\ depth' \in DepthType /\ Way(stack') /\ TSplits' /\ TDepths'
        /\ \A i \in 1 .. Len(stack') - 1 : Within(extent', AreaOf(stack'[i]))
        /\ qgPos' = IF stack[Len(stack)].qg THEN Pos(AreaOf(stack'[Len(stack)])) ELSE qgPos
    BY <1>1, <1>2, NextPartKeepsWay
  <1>4. Top'.split = Top.split /\ Top'.idx = Top.idx + 1 /\ Top'.qg = Top.qg /\ Top'.parts = Top.parts
    BY <1>3, Zenon DEF Top
  <1>5. CurrArea' = AreaOf(stack'[Len(stack)]) BY <1>3, Zenon DEF CurrArea, Top
  <1>6. CurrArea' = Top.parts[Top.idx + 2]
    <2>1. CurrArea' = Top.parts[(Top.idx + 1) + 1] BY <1>4, Zenon DEF CurrArea, AreaOf
    <2>2. Top.idx \in Nat
      <3>1. Way(stack) /\ WayShape(stack) BY <1>1 DEF TShape, Way
      <3> QED BY <3>1, TopIsLast, WayLevels
    <2>3. (Top.idx + 1) + 1 = Top.idx + 2 BY <2>2
    <2> QED BY <2>1, <2>3, Zenon
  <1>7. qgPos' = IF Top.qg THEN Pos(CurrArea') ELSE qgPos
    BY <1>3, <1>5, Zenon DEF Top
  <1> QED BY <1>3, <1>4, <1>6, <1>7

LEMMA WalkToNextPart == TWalk /\ ToNextPart => TWalk'
  <1> SUFFICES ASSUME TWalk, ToNextPart PROVE TWalk' OBVIOUS
  <1>1. TShape /\ TBorder /\ TSplits /\ TDepths BY DEF TWalk
  <1>2. /\ phase' = IF Top.split \in TuSplits THEN "transform"
                    ELSE IF InPicture(Top.parts[Top.idx + 2]) THEN "tree" ELSE "next"
        /\ UNCHANGED <<limits, tree, extent, qgStart, sbt, coded>>
    BY DEF ToNextPart
  <1>3. /\ depth' \in DepthType /\ Way(stack') /\ TSplits' /\ TDepths'
        /\ \A i \in 1 .. Len(stack') - 1 : Within(extent', AreaOf(stack'[i]))
        /\ Top'.split = Top.split /\ CurrArea' = Top.parts[Top.idx + 2]
    BY NextPartArea
  <1>4. TShape'
    <2>1. depth' \in [all : Int, qt : Int, bt : Int, mt : Int, tr : Int, subdiv : Int, implicitBt : Int]
      BY <1>3 DEF DepthType
    <2> QED BY <1>1, <1>2, <1>3, <2>1 DEF TShape
  <1>5. TBorder'
    <2>1. phase' = "transform" => Top'.split \in TuSplits BY <1>2, <1>3
    <2>2. phase' = "tree" => InPicture(CurrArea') BY <1>2, <1>3
    <2>3. InPicture(CurrArea') => Within(extent', CurrArea')
      <3>1. InPicture(CurrArea') <=> Within(extent, CurrArea') BY BorderOperators
      <3> QED BY <1>2, <3>1
    <2> QED BY <1>3, <2>1, <2>2, <2>3 DEF TBorder
  <1> QED BY <1>3, <1>4, <1>5 DEF TWalk

LEMMA LeaveSplitWay ==
    ASSUME TWalk, LeaveSplit
    PROVE  /\ stack' \in Seq(LevelType) /\ Len(stack') = Len(stack) - 1
           /\ \A i \in 1 .. Len(stack) - 1 : stack'[i] = stack[i]
           /\ depth' \in DepthType /\ Way(stack') /\ TSplits' /\ TDepths'
           /\ \A i \in 1 .. Len(stack') - 1 : Within(extent', AreaOf(stack'[i]))
           /\ Top' = stack[Len(stack) - 1]
           /\ qgPos' = IF Top'.qg THEN Pos(CurrArea') ELSE qgPos
  <1>1. TShape /\ TBorder /\ TSplits /\ TDepths BY DEF TWalk
  <1>2. ExitCurrSplit /\ Len(stack) > 1 /\ Top.idx + 1 = Len(Top.parts) /\ UNCHANGED <<limits, extent>>
    BY DEF LeaveSplit
  <1>3. /\ stack' \in Seq(LevelType) /\ Len(stack') = Len(stack) - 1
        /\ \A i \in 1 .. Len(stack) - 1 : stack'[i] = stack[i]
        /\ depth' \in DepthType /\ Way(stack') /\ TSplits' /\ TDepths'
        /\ \A i \in 1 .. Len(stack') - 1 : Within(extent', AreaOf(stack'[i]))
        /\ qgPos' = IF stack[Len(stack) - 1].qg THEN Pos(AreaOf(stack[Len(stack) - 1])) ELSE qgPos
    BY <1>1, <1>2, ExitKeepsWay
  <1>4. Len(stack) - 1 \in 1 .. Len(stack) - 1
    <2>1. Len(stack) \in Nat BY <1>1, TopIsLast DEF TShape
    <2> QED BY <1>2, <2>1
  <1>5. Top' = stack[Len(stack) - 1] BY <1>3, <1>4, Zenon DEF Top
  <1>6. CurrArea' = AreaOf(stack[Len(stack) - 1]) BY <1>5, Zenon DEF CurrArea
  <1> QED BY <1>3, <1>5, <1>6

LEMMA WalkLeaveSplit == TWalk /\ LeaveSplit => TWalk'
  <1> SUFFICES ASSUME TWalk, LeaveSplit PROVE TWalk' OBVIOUS
  <1>1. TShape /\ TBorder /\ TSplits /\ TDepths BY DEF TWalk
  <1>2. phase = "next" /\ UNCHANGED <<limits, tree, extent, qgStart, sbt, coded, phase>>
    BY DEF LeaveSplit
  <1>3. /\ depth' \in DepthType /\ Way(stack') /\ TSplits' /\ TDepths'
        /\ \A i \in 1 .. Len(stack') - 1 : Within(extent', AreaOf(stack'[i]))
    BY LeaveSplitWay
  <1>4. TShape'
    <2>1. depth' \in [all : Int, qt : Int, bt : Int, mt : Int, tr : Int, subdiv : Int, implicitBt : Int]
      BY <1>3 DEF DepthType
    <2> QED BY <1>1, <1>2, <1>3, <2>1 DEF TShape
  <1>5. TBorder' BY <1>2, <1>3 DEF TBorder
  <1> QED BY <1>3, <1>4, <1>5 DEF TWalk

LEMMA WalkEndCtu == TWalk /\ EndCtu => TWalk'
  <1> SUFFICES ASSUME TWalk, EndCtu PROVE TWalk' OBVIOUS
  <1>1. TShape /\ TBorder /\ TSplits /\ TDepths BY DEF TWalk
  <1>2. Len(stack) = 1 /\ phase' = "end" /\ UNCHANGED <<limits, tree, extent, stack, depth, qgStart, sbt>>
    BY DEF EndCtu
  <1>3. TShape' BY <1>1, <1>2 DEF TShape, Top
  <1>4. TBorder' BY <1>1, <1>2 DEF TBorder
  <1>5. TSplits' BY <1>1, <1>2 DEF TSplits
  <1>6. TDepths' BY <1>1, <1>2 DEF TDepths, Top
  <1> QED BY <1>3, <1>4, <1>5, <1>6 DEF TWalk

LEMMA WalkStutters == TWalk /\ UNCHANGED treeVars => TWalk'
  <1> SUFFICES ASSUME TWalk, UNCHANGED treeVars PROVE TWalk' OBVIOUS
  <1>1. TShape /\ TBorder /\ TSplits /\ TDepths BY DEF TWalk
  <1>2. UNCHANGED <<limits, tree, extent, stack, depth, qgStart, sbt, phase>> BY DEF treeVars
  <1>3. TShape' BY <1>1, <1>2 DEF TShape, Top
  <1>4. TBorder' BY <1>1, <1>2 DEF TBorder, Top, CurrArea
  <1>5. TSplits' BY <1>1, <1>2 DEF TSplits
  <1>6. TDepths' BY <1>1, <1>2 DEF TDepths, Top
  <1> QED BY <1>3, <1>4, <1>5, <1>6 DEF TWalk

LEMMA WalkNext == TWalk /\ [TreeNext]_treeVars => TWalk'
  BY WalkSplitCu, WalkCodeCu, WalkSplitTu, WalkCodeTu, WalkToNextPart, WalkLeaveSplit, WalkEndCtu,
     WalkStutters DEF TreeNext

----------------------------------------------------------------------------
(* What the invariant says of depths and splits *)

LEMMA WalkCounters == TWalk => CountersFollowPath
  <1> SUFFICES ASSUME TWalk PROVE CountersFollowPath OBVIOUS
  <1>1. TShape /\ TDepths /\ Depths(depth, extent, stack) BY DEF TWalk, TDepths
  <1>2. \A S : LevelsWith(S) = UpTo(stack, S, Len(stack)) BY Zenon DEF LevelsWith, UpTo
  <1>3. OuterLevels = OuterUpTo(stack, Len(stack)) BY <1>2, Zenon DEF OuterLevels, OuterUpTo
  <1>4. {i \in LevelsWith(MtSplits) : CrossesBorder(AreaOf(stack[i - 1]))}
            = ImplicitUpTo(stack, extent, Len(stack))
    <2>1. \A a : CrossesBorder(a) <=> Crosses(extent, a) BY BorderOperators
    <2> QED BY <1>2, <2>1, Zenon DEF ImplicitUpTo
  <1>5. Top.implicit \in {"unchecked", GetImplicitSplit} BY <1>1, ImplicitIs DEF TDepths
  <1> QED BY <1>1, <1>2, <1>3, <1>4, <1>5, Zenon DEF CountersFollowPath, Depths

LEMMA WalkSplitsAreLegal == TWalk => SplitsAreLegal
  <1> SUFFICES ASSUME TWalk PROVE SplitsAreLegal OBVIOUS
  <1>1. TShape /\ TSplits /\ Depths(depth, extent, stack) BY DEF TWalk, TDepths
  <1>2. Way(stack) /\ WayShape(stack) /\ WayAreas(stack) BY <1>1 DEF TShape, Way
  <1>3. /\ Len(stack) \in Nat /\ Len(stack) >= 1 /\ Len(stack) \in 1 .. Len(stack)
        /\ Top = stack[Len(stack)] /\ DOMAIN stack = 1 .. Len(stack)
    BY <1>2, TopIsLast, WayLevels
  <1>4. ASSUME NEW i \in DOMAIN stack, stack[i].split \in CuSplits, NEW k \in DOMAIN stack[i].parts
        PROVE  stack[i].parts[k].w >= MinCbSize /\ stack[i].parts[k].h >= MinCbSize
    <2>1. stack[i].split \notin TuSplits BY <1>4, Kinds
    <2>2. CuArea(stack[i].parts[k]) BY <1>2, <1>3, <1>4, <2>1, Zenon DEF WayAreas
    <2> QED BY <2>2 DEF CuArea
  <1>5. ASSUME NEW i \in DOMAIN stack, stack[i].split = "quad", NEW j \in 1 .. i - 1
        PROVE  stack[j].split \notin MtSplits
    <2>1. i \in 1 .. Len(stack) /\ stack[1].split = "ctu" BY <1>2, <1>3 DEF WayShape
    <2>2. CASE j = 1 BY <2>1, <2>2, Kinds
    <2>3. CASE j # 1
      <3>1. i \in 2 .. Len(stack) /\ j \in 2 .. i - 1 BY <2>1, <2>3
      <3>2. UpTo(stack, MtSplits, i - 1) = {} BY <1>1, <1>5, <3>1, Zenon DEF TSplits, SplitFor
      <3> QED BY <3>1, <3>2, Zenon DEF UpTo
    <2> QED BY <2>2, <2>3
  <1>6. ASSUME depth.tr = 0
        PROVE  FloorLog2(CurrArea.w) + FloorLog2(CurrArea.h) + Len(stack) - 1 <= 2 * FloorLog2(CtuSize)
    <2> DEFINE n == Len(stack)
               a == CurrArea
    <2>1. stack[n].split \notin TuSplits
      <3>1. UpTo(stack, TuSplits, n) = {}
        <4>1. Cardinality(UpTo(stack, TuSplits, n)) = 0 BY <1>1, <1>6 DEF Depths
        <4> QED BY <1>3, <4>1, Counted
      <3>2. CASE n = 1
        <4>1. stack[1].split = "ctu" BY <1>2 DEF WayShape
        <4>2. "ctu" \notin TuSplits BY Kinds
        <4> QED BY <3>2, <4>1, <4>2
      <3>3. CASE n # 1
        <4>1. n \in 2 .. n
          <5> HIDE DEF n
          <5> QED BY <1>3, <3>3 DEF n
        <4> QED BY <3>1, <4>1, Zenon DEF UpTo
      <3> QED BY <3>2, <3>3
    <2>2. stack[n].idx + 1 \in DOMAIN stack[n].parts /\ a = stack[n].parts[stack[n].idx + 1]
      BY <1>2, <1>3, WayLevels DEF CurrArea
    <2>3. SmallerBy(stack[n].parts, n - 1) /\ CuArea(a)
      BY <1>2, <1>3, <2>1, <2>2, Zenon DEF WayAreas
    <2>4. FloorLog2(a.w) + FloorLog2(a.h) + (n - 1) <= 2 * FloorLog2(CtuSize)
      BY <2>2, <2>3, Zenon DEF SmallerBy
    <2>5. FloorLog2(a.w) \in Nat /\ FloorLog2(a.h) \in Nat
      BY <2>3, BlockType DEF CuArea
    <2> DEFINE p == FloorLog2(a.w)
               q == FloorLog2(a.h)
               r == 2 * FloorLog2(CtuSize)
    <2>6. p \in Nat /\ q \in Nat /\ n \in Nat /\ p + q + (n - 1) <= r BY <1>3, <2>4, <2>5
    <2>7. r \in Nat
      <3>1. CtuSize \in BlockSizes BY TreeAssumption DEF BlockSizes
      <3>2. FloorLog2(CtuSize) \in Nat BY <3>1, BlockType
      <3> HIDE DEF FloorLog2
      <3> QED BY <3>2
    <2> HIDE DEF p, q, r, n
    <2>8. p + q + n - 1 <= r BY <2>6, <2>7
    <2> QED BY <2>8 DEF p, q, r, n
  <1> QED BY <1>4, <1>5, <1>6, Zenon DEF SplitsAreLegal

(* The depths that QTBTPartitioner counts up and down by hand are those of *)
(* the way from the CTU to the current area, and the implicit split kept   *)
(* in a level is that of the area.                                         *)
THEOREM TreeCountersFollowPath == TreeSpec => []CountersFollowPath
  <1>1. TreeInit => TWalk BY WalkInit
  <1>2. TWalk /\ [TreeNext]_treeVars => TWalk' BY WalkNext
  <1>3. TWalk => CountersFollowPath BY WalkCounters
  <1> QED BY <1>1, <1>2, <1>3, PTL DEF TreeSpec

(* No split that coding_tree or transform_tree makes fails a CHECK of      *)
(* QTBTPartitioner or overflows splitSeries, for every size of CTU.        *)
THEOREM TreeSplitsAreLegal == TreeSpec => []SplitsAreLegal
  <1>1. TreeInit => TWalk BY WalkInit
  <1>2. TWalk /\ [TreeNext]_treeVars => TWalk' BY WalkNext
  <1>3. TWalk => SplitsAreLegal BY WalkSplitsAreLegal
  <1> QED BY <1>1, <1>2, <1>3, PTL DEF TreeSpec

----------------------------------------------------------------------------
(* The blocks of the least size in an area *)

OnGrid(a) ==
    /\ Whole(a.x) /\ Whole(a.y) /\ Whole(a.w) /\ Whole(a.h)
    /\ a.x + a.w <= CtuSize /\ a.y + a.h <= CtuSize
StepsTo(q, x, w) == \E i \in 0 .. w \div MinCbSize - 1 : q = x + MinCbSize * i

LEMMA Multiples ==
    ASSUME NEW m \in BlockSizes, NEW i \in Nat, NEW j \in Nat, NEW k \in Nat
    PROVE  /\ m \in Nat /\ (m * i) \div m = i
           /\ m * i + m * j = m * (i + j) /\ m * k \in Nat
           /\ m * i + m * j <= m * k => i + j <= k
           /\ m * i <= m * k => i <= k
           /\ m * k < m * i => k < i
           /\ i < k => m * i < m * k
  BY DEF BlockSizes

LEMMA StepsOnGrid ==
    ASSUME NEW x \in Nat, NEW w \in Nat, Whole(x), Whole(w), x + w <= CtuSize, NEW q \in Nat
    PROVE  StepsTo(q, x, w) <=> StepsTo(q, 0, CtuSize) /\ x <= q /\ q < x + w
  <1> DEFINE m == MinCbSize
  <1>1. m \in BlockSizes /\ CtuSize \in BlockSizes /\ CtuSize >= m /\ m \in Nat /\ m > 0
    BY TreeAssumption DEF BlockSizes
  <1>2. PICK i0 \in 0 .. x : x = m * i0 BY DEF Whole
  <1>3. PICK j0 \in 0 .. w : w = m * j0 BY DEF Whole
  <1>4. PICK c \in 0 .. CtuSize : CtuSize = m * c BY <1>1, BlockType DEF Whole
  <1>5. i0 \in Nat /\ j0 \in Nat /\ c \in Nat BY <1>1, <1>2, <1>3, <1>4, BlockType
  <1> HIDE DEF m
  <1>6. w \div m = j0 /\ CtuSize \div m = c BY <1>1, <1>3, <1>4, <1>5, Multiples
  <1>7. i0 + j0 <= c
    <2>1. m * i0 + m * j0 <= m * c BY <1>2, <1>3, <1>4
    <2> QED BY <1>1, <1>5, <2>1, Multiples
  <1>8. StepsTo(q, x, w) <=> \E i \in 0 .. j0 - 1 : q = x + m * i BY <1>6, Zenon DEF StepsTo, m
  <1>9. StepsTo(q, 0, CtuSize) <=> \E i \in 0 .. c - 1 : q = 0 + m * i BY <1>6, Zenon DEF StepsTo, m
  <1>10. ASSUME NEW i \in 0 .. j0 - 1, q = x + m * i
         PROVE  StepsTo(q, 0, CtuSize) /\ x <= q /\ q < x + w
    <2>1. i \in Nat /\ i < j0 BY <1>5
    <2>2. q = m * (i0 + i) BY <1>1, <1>2, <1>5, <1>10, <2>1, Multiples
    <2>3. i0 + i \in 0 .. c - 1 BY <1>5, <1>7, <2>1
    <2>4. q = 0 + m * (i0 + i) BY <2>2
    <2>5. m * i \in Nat /\ m * i < m * j0 BY <1>1, <1>5, <2>1, Multiples
    <2>6. m * j0 = w BY <1>3
    <2>7. x <= q /\ q < x + w BY <1>10, <2>5, <2>6
    <2> QED BY <1>9, <2>3, <2>4, <2>7
  <1>11. ASSUME NEW k \in 0 .. c - 1, q = 0 + m * k, x <= q, q < x + w
         PROVE  StepsTo(q, x, w)
    <2>1. k \in Nat BY <1>5
    <2>2. m * k \in Nat BY <1>1, <2>1, Multiples
    <2>3. q = m * k BY <1>11, <2>2
    <2>4. m * i0 <= m * k BY <1>2, <1>11, <2>3
    <2>5. i0 <= k BY <1>1, <1>5, <2>1, <2>4, Multiples
    <2>6. x + w = m * (i0 + j0) /\ i0 + j0 \in Nat BY <1>1, <1>2, <1>3, <1>5, Multiples
    <2>7. m * k < m * (i0 + j0) BY <1>11, <2>3, <2>6
    <2>8. k < i0 + j0 BY <1>1, <2>1, <2>6, <2>7, Multiples
    <2>9. k - i0 \in Nat /\ k - i0 \in 0 .. j0 - 1 /\ i0 + (k - i0) = k BY <1>5, <2>1, <2>5, <2>8
    <2>10. m * i0 + m * (k - i0) = m * k BY <1>1, <1>5, <2>1, <2>9, Multiples
    <2>11. q = x + m * (k - i0) BY <1>2, <2>3, <2>10
    <2> QED BY <1>8, <2>9, <2>11
  <1> QED BY <1>8, <1>9, <1>10, <1>11

LEMMA MinBlocksAre ==
    ASSUME NEW a, a.x \in Nat, a.y \in Nat, a.w \in Nat, a.h \in Nat
    PROVE  \A p : p \in MinBlocks(a) <=>
                    p \in Points /\ StepsTo(p.x, a.x, a.w) /\ StepsTo(p.y, a.y, a.h)
  <1>0. MinCbSize \in Nat BY TreeAssumption DEF BlockSizes
  <1>1. \A i \in 0 .. a.w \div MinCbSize - 1 : i \in Nat /\ a.x + MinCbSize * i \in Nat
    BY TreeAssumption DEF BlockSizes
  <1>2. \A j \in 0 .. a.h \div MinCbSize - 1 : j \in Nat /\ a.y + MinCbSize * j \in Nat
    BY TreeAssumption DEF BlockSizes
  <1>3. ASSUME NEW p, p \in MinBlocks(a)
        PROVE  p \in Points /\ StepsTo(p.x, a.x, a.w) /\ StepsTo(p.y, a.y, a.h)
    <2>1. PICK i \in 0 .. a.w \div MinCbSize - 1, j \in 0 .. a.h \div MinCbSize - 1 :
            p = [x |-> a.x + MinCbSize * i, y |-> a.y + MinCbSize * j]
      BY <1>3 DEF MinBlocks
    <2> DEFINE u == a.x + MinCbSize * i
               v == a.y + MinCbSize * j
    <2>2. u \in Nat /\ v \in Nat /\ p = [x |-> u, y |-> v] BY <1>1, <1>2, <2>1
    <2>3. StepsTo(u, a.x, a.w) /\ StepsTo(v, a.y, a.h) BY Zenon DEF StepsTo
    <2> HIDE DEF u, v
    <2>4. p.x = u /\ p.y = v /\ p \in Points BY <2>2 DEF Points
    <2> QED BY <2>3, <2>4
  <1>4. ASSUME NEW p \in Points, StepsTo(p.x, a.x, a.w), StepsTo(p.y, a.y, a.h)
        PROVE  p \in MinBlocks(a)
    <2>1. PICK i \in 0 .. a.w \div MinCbSize - 1 : p.x = a.x + MinCbSize * i BY <1>4 DEF StepsTo
    <2>2. PICK j \in 0 .. a.h \div MinCbSize - 1 : p.y = a.y + MinCbSize * j BY <1>4 DEF StepsTo
    <2>3. p = [x |-> p.x, y |-> p.y] BY DEF Points
    <2>4. p = [x |-> a.x + MinCbSize * i, y |-> a.y + MinCbSize * j] BY <2>1, <2>2, <2>3, Zenon
    <2> QED BY <2>4 DEF MinBlocks
  <1> QED BY <1>3, <1>4

(* The blocks of an area are those of the CTU which it covers.             *)
LEMMA BlocksOfArea ==
    ASSUME NEW a \in Areas, OnGrid(a)
    PROVE  \A p : p \in MinBlocks(a) <=> p \in MinBlocks(CtuArea) /\ Covers(a, p)
  <1>1. a.x \in Nat /\ a.y \in Nat /\ a.w \in Nat /\ a.h \in Nat BY AreaType
  <1>2. /\ CtuArea.x = 0 /\ CtuArea.y = 0 /\ CtuArea.w = CtuSize /\ CtuArea.h = CtuSize
        /\ CtuSize \in Nat
    BY TreeAssumption DEF CtuArea
  <1>3. \A p : p \in MinBlocks(a) <=>
                 p \in Points /\ StepsTo(p.x, a.x, a.w) /\ StepsTo(p.y, a.y, a.h)
    BY <1>1, MinBlocksAre
  <1>4. \A p : p \in MinBlocks(CtuArea) <=>
                 p \in Points /\ StepsTo(p.x, 0, CtuSize) /\ StepsTo(p.y, 0, CtuSize)
    <2>1. /\ CtuArea.x \in Nat /\ CtuArea.y \in Nat /\ CtuArea.w \in Nat /\ CtuArea.h \in Nat
      BY <1>2
    <2>2. \A p : p \in MinBlocks(CtuArea) <=>
                   /\ p \in Points
                   /\ StepsTo(p.x, CtuArea.x, CtuArea.w) /\ StepsTo(p.y, CtuArea.y, CtuArea.h)
      BY <2>1, MinBlocksAre
    <2> QED BY <1>2, <2>2, Zenon
  <1>5. ASSUME NEW p \in Points
        PROVE  /\ p.x \in Nat /\ p.y \in Nat
               /\ StepsTo(p.x, a.x, a.w) <=>
                    StepsTo(p.x, 0, CtuSize) /\ a.x <= p.x /\ p.x < a.x + a.w
               /\ StepsTo(p.y, a.y, a.h) <=>
                    StepsTo(p.y, 0, CtuSize) /\ a.y <= p.y /\ p.y < a.y + a.h
               /\ Covers(a, p) <=> a.x <= p.x /\ p.x < a.x + a.w /\ a.y <= p.y /\ p.y < a.y + a.h
    <2>1. p.x \in Nat /\ p.y \in Nat BY DEF Points
    <2>2. /\ Whole(a.x) /\ Whole(a.w) /\ a.x + a.w <= CtuSize
          /\ Whole(a.y) /\ Whole(a.h) /\ a.y + a.h <= CtuSize
      BY DEF OnGrid
    <2>3. StepsTo(p.x, a.x, a.w) <=>
            StepsTo(p.x, 0, CtuSize) /\ a.x <= p.x /\ p.x < a.x + a.w
      BY <1>1, <2>1, <2>2, StepsOnGrid
    <2>4. StepsTo(p.y, a.y, a.h) <=>
            StepsTo(p.y, 0, CtuSize) /\ a.y <= p.y /\ p.y < a.y + a.h
      BY <1>1, <2>1, <2>2, StepsOnGrid
    <2> QED BY <2>1, <2>3, <2>4, AreaType
  <1> QED BY <1>3, <1>4, <1>5, Zenon

LEMMA CtuPoints == MinBlocks(CtuArea) \subseteq Points
  <1>1. /\ CtuArea.x = 0 /\ CtuArea.y = 0 /\ CtuArea.w = CtuSize /\ CtuArea.h = CtuSize
        /\ CtuSize \in Nat
    BY TreeAssumption DEF CtuArea
  <1>2. /\ CtuArea.x \in Nat /\ CtuArea.y \in Nat /\ CtuArea.w \in Nat /\ CtuArea.h \in Nat BY <1>1
  <1> QED BY <1>2, MinBlocksAre

(* An area that may be a CU consists of such blocks, also the first one.   *)
LEMMA BlocksOfCu ==
    ASSUME NEW a \in Areas, CuArea(a)
    PROVE  /\ \A p : p \in MinBlocks(a) <=> p \in MinBlocks(CtuArea) /\ Covers(a, p)
           /\ Pos(a) \in MinBlocks(a)
  <1>1. a.x \in Nat /\ a.y \in Nat /\ a.w \in Nat /\ a.h \in Nat BY AreaType
  <1>2. /\ a.w \in BlockSizes /\ a.h \in BlockSizes /\ a.w >= MinCbSize /\ a.h >= MinCbSize
        /\ Whole(a.x) /\ Whole(a.y) /\ a.x + a.w <= CtuSize /\ a.y + a.h <= CtuSize
    BY DEF CuArea
  <1>3. OnGrid(a) BY <1>2, BlockType DEF OnGrid
  <1>4. \A p : p \in MinBlocks(a) <=> p \in MinBlocks(CtuArea) /\ Covers(a, p)
    BY <1>3, BlocksOfArea
  <1>5. MinCbSize \in BlockSizes BY TreeAssumption
  <1>6. 0 \in 0 .. a.w \div MinCbSize - 1 BY <1>2, <1>5 DEF BlockSizes
  <1>7. 0 \in 0 .. a.h \div MinCbSize - 1 BY <1>2, <1>5 DEF BlockSizes
  <1>8. a.x + MinCbSize * 0 = a.x /\ a.y + MinCbSize * 0 = a.y BY <1>1, <1>5 DEF BlockSizes
  <1>9. StepsTo(a.x, a.x, a.w) /\ StepsTo(a.y, a.y, a.h) BY <1>6, <1>7, <1>8 DEF StepsTo
  <1>10. Pos(a) \in Points /\ Pos(a).x = a.x /\ Pos(a).y = a.y BY <1>1 DEF Pos, Points
  <1>11. Pos(a) \in MinBlocks(a) BY <1>1, <1>9, <1>10, MinBlocksAre
  <1> QED BY <1>4, <1>11

LEMMA ApartCovers ==
    ASSUME NEW a \in Areas, NEW b \in Areas, Disjoint(a, b), NEW p \in Points
    PROVE  ~(Covers(a, p) /\ Covers(b, p))
  <1>1. /\ a.x \in Nat /\ a.y \in Nat /\ a.w \in Nat /\ a.h \in Nat
        /\ b.x \in Nat /\ b.y \in Nat /\ b.w \in Nat /\ b.h \in Nat
        /\ p.x \in Nat /\ p.y \in Nat
    BY AreaType
  <1> SUFFICES ASSUME Covers(a, p), Covers(b, p) PROVE FALSE OBVIOUS
  <1>2. /\ a.x <= p.x /\ p.x < a.x + a.w /\ a.y <= p.y /\ p.y < a.y + a.h
        /\ b.x <= p.x /\ p.x < b.x + b.w /\ b.y <= p.y /\ p.y < b.y + b.h
    BY AreaType
  <1>3. ~(a.x + a.w <= b.x) BY <1>1, <1>2
  <1>4. ~(b.x + b.w <= a.x) BY <1>1, <1>2
  <1>5. ~(a.y + a.h <= b.y) BY <1>1, <1>2
  <1>6. ~(b.y + b.h <= a.y) BY <1>1, <1>2
  <1> QED BY <1>3, <1>4, <1>5, <1>6 DEF Disjoint

----------------------------------------------------------------------------
(* What has been coded: of each level the parts before the current one,    *)
(* and the current CU, as far as they are in the picture.                  *)

Before(st, i, p) == \E k \in 1 .. st[i].idx : Covers(st[i].parts[k], p)
BeforeUpTo(st, n, p) == \E i \in 1 .. n : Before(st, i, p)
CuDepth(st) == IF st[Len(st)].split \in TuSplits THEN Len(st) - 1 ELSE Len(st)

TCoded ==
    /\ coded \subseteq MinBlocks(CtuArea)
    /\ \A p \in MinBlocks(CtuArea) :
        p \in coded <=>
            /\ Within(extent, p)
            /\ \/ BeforeUpTo(stack, CuDepth(stack), p)
               \/ phase # "tree" /\ Covers(AreaOf(stack[CuDepth(stack)]), p)

LEMMA KeptBefore ==
    ASSUME NEW st, NEW st2, NEW n \in Nat, Kept(st, st2, n)
    PROVE  \A p : BeforeUpTo(st2, n, p) <=> BeforeUpTo(st, n, p)
  <1>1. \A i \in 1 .. n : st2[i].idx = st[i].idx /\ st2[i].parts = st[i].parts BY DEF Kept
  <1>2. \A p : \A i \in 1 .. n : Before(st2, i, p) <=> Before(st, i, p) BY <1>1, Zenon DEF Before
  <1> QED BY <1>2, Zenon DEF BeforeUpTo

LEMMA OneLevelBefore ==
    ASSUME NEW st, NEW n \in Nat, n >= 1
    PROVE  \A p : BeforeUpTo(st, n, p) <=> BeforeUpTo(st, n - 1, p) \/ Before(st, n, p)
  <1>1. 1 .. n = (1 .. n - 1) \cup {n} OBVIOUS
  <1> QED BY <1>1, Zenon DEF BeforeUpTo

LEMMA OnePartBefore ==
    ASSUME NEW st, NEW st2, NEW n, st2[n].parts = st[n].parts, st[n].idx \in Nat,
           st2[n].idx = st[n].idx + 1
    PROVE  \A p : Before(st2, n, p) <=> Before(st, n, p) \/ Covers(AreaOf(st[n]), p)
  <1> DEFINE k == st[n].idx
  <1>1. 1 .. k + 1 = (1 .. k) \cup {k + 1}
    <2>1. k \in Nat OBVIOUS
    <2> HIDE DEF k
    <2> QED BY <2>1
  <1>2. st2[n].idx = k + 1 /\ st[n].idx = k OBVIOUS
  <1>3. \A p : Covers(AreaOf(st[n]), p) <=> Covers(st[n].parts[k + 1], p) BY Zenon DEF AreaOf
  <1> HIDE DEF k
  <1>4. \A p : Before(st2, n, p) <=> \E j \in 1 .. k + 1 : Covers(st[n].parts[j], p)
    BY <1>2, Zenon DEF Before
  <1>5. \A p : Before(st, n, p) <=> \E j \in 1 .. k : Covers(st[n].parts[j], p)
    BY <1>2, Zenon DEF Before
  <1> QED BY <1>1, <1>3, <1>4, <1>5, Zenon

(* The last part completes the area of the level above.                    *)
LEMMA AllPartsBefore ==
    ASSUME NEW st, NEW n, NEW a \in Areas, Tiles(st[n].parts, a), st[n].idx \in Nat,
           st[n].idx + 1 = Len(st[n].parts)
    PROVE  \A p \in Points : Before(st, n, p) \/ Covers(AreaOf(st[n]), p) <=> Covers(a, p)
  <1> DEFINE k == st[n].idx
             f == st[n].parts
  <1>1. /\ f \in Seq(Areas) /\ \A i \in DOMAIN f : Inside(f[i], a)
        /\ \A p \in Points : Covers(a, p) => \E i \in DOMAIN f : Covers(f[i], p)
    BY Zenon DEF Tiles
  <1>2. k \in Nat /\ k + 1 = Len(f) OBVIOUS
  <1>3. \A p : Covers(AreaOf(st[n]), p) <=> Covers(f[k + 1], p) BY Zenon DEF AreaOf
  <1>4. \A p : Before(st, n, p) <=> \E j \in 1 .. k : Covers(f[j], p) BY Zenon DEF Before
  <1> HIDE DEF k, f
  <1>5. DOMAIN f = (1 .. k) \cup {k + 1} BY <1>1, <1>2
  <1>6. \A p : Before(st, n, p) \/ Covers(AreaOf(st[n]), p) <=> \E i \in DOMAIN f : Covers(f[i], p)
    BY <1>3, <1>4, <1>5, Zenon
  <1>7. \A i \in DOMAIN f : f[i] \in Areas BY <1>1
  <1>8. \A p \in Points : \A i \in DOMAIN f : Covers(f[i], p) => Covers(a, p)
    BY <1>1, <1>7, InsideOneAnother
  <1> QED BY <1>1, <1>6, <1>8, Zenon

LEMMA CuDepthIs ==
    ASSUME Way(stack)
    PROVE  /\ Len(stack) \in Nat /\ Len(stack) >= 1
           /\ Top.split \notin TuSplits => CuDepth(stack) = Len(stack)
           /\ Top.split \in TuSplits => /\ CuDepth(stack) = Len(stack) - 1
                                        /\ Len(stack) > 1
           /\ CuDepth(stack) \in 1 .. Len(stack) /\ CuDepth(stack) \in Nat
           /\ AreaOf(stack[CuDepth(stack)]) \in Areas
           /\ stack[CuDepth(stack)].split \notin TuSplits
  <1>1. WayShape(stack) BY DEF Way
  <1>2. Len(stack) \in Nat /\ Len(stack) >= 1 /\ Top = stack[Len(stack)] BY TopIsLast
  <1>3. \A i \in 1 .. Len(stack) : AreaOf(stack[i]) \in Areas BY <1>1, WayLevels
  <1>4. stack[1].split = "ctu" /\ \A i \in 1 .. Len(stack) - 1 : stack[i].split \notin TuSplits
    BY <1>1 DEF WayShape
  <1>5. CASE Top.split \notin TuSplits
    <2>1. CuDepth(stack) = Len(stack) BY <1>2, <1>5, Zenon DEF CuDepth
    <2>2. Len(stack) \in 1 .. Len(stack) BY <1>2
    <2>3. stack[CuDepth(stack)].split \notin TuSplits BY <1>2, <1>5, <2>1, Zenon
    <2>4. CuDepth(stack) \in 1 .. Len(stack) /\ CuDepth(stack) \in Nat BY <1>2, <2>1, <2>2, Zenon
    <2> QED BY <1>2, <1>3, <1>5, <2>1, <2>3, <2>4, Zenon
  <1>6. CASE Top.split \in TuSplits
    <2>1. CuDepth(stack) = Len(stack) - 1 BY <1>2, <1>6, Zenon DEF CuDepth
    <2>2. Len(stack) # 1
      <3>1. "ctu" \notin TuSplits BY Kinds
      <3> QED BY <1>2, <1>4, <1>6, <3>1
    <2>3. Len(stack) > 1 /\ Len(stack) - 1 \in 1 .. Len(stack) /\ Len(stack) - 1 \in Nat
          /\ Len(stack) - 1 \in 1 .. Len(stack) - 1
      <3> DEFINE n == Len(stack)
      <3>1. n \in Nat /\ n >= 1 /\ n # 1 BY <1>2, <2>2
      <3> HIDE DEF n
      <3>2. n > 1 /\ n - 1 \in 1 .. n /\ n - 1 \in Nat /\ n - 1 \in 1 .. n - 1 BY <3>1
      <3> QED BY <3>2 DEF n
    <2>4. stack[CuDepth(stack)].split \notin TuSplits BY <1>4, <2>1, <2>3, Zenon
    <2>5. CuDepth(stack) \in 1 .. Len(stack) /\ CuDepth(stack) \in Nat BY <2>1, <2>3, Zenon
    <2> QED BY <1>2, <1>3, <1>6, <2>1, <2>3, <2>4, <2>5, Zenon
  <1> QED BY <1>5, <1>6

(* A step that keeps the levels of the way to the CU, the part of a CU it  *)
(* is in, and whether it has been coded.                                   *)
LEMMA CodedKept ==
    ASSUME TWalk, TCoded, UNCHANGED <<extent, coded>>,
           phase' = "tree" <=> phase = "tree",
           CuDepth(stack') = CuDepth(stack), Kept(stack, stack', CuDepth(stack))
    PROVE  TCoded'
  <1> DEFINE n == CuDepth(stack)
  <1>1. Way(stack) BY DEF TWalk, TShape
  <1>2. n \in Nat /\ n \in 1 .. n
    <2>1. n \in Nat /\ n \in 1 .. Len(stack) BY <1>1, CuDepthIs
    <2> HIDE DEF n
    <2> QED BY <2>1
  <1>3. \A p : BeforeUpTo(stack', n, p) <=> BeforeUpTo(stack, n, p) BY <1>2, KeptBefore
  <1>4. AreaOf(stack'[n]) = AreaOf(stack[n]) BY <1>2, KeptAreas
  <1>5. CuDepth(stack') = n OBVIOUS
  <1>6. extent' = extent /\ coded' = coded OBVIOUS
  <1> HIDE DEF n
  <1>7. TCoded'
    <2>1. coded \subseteq MinBlocks(CtuArea) BY DEF TCoded
    <2>2. \A p \in MinBlocks(CtuArea) :
            p \in coded <=>
                /\ Within(extent, p)
                /\ BeforeUpTo(stack, n, p) \/ (phase # "tree" /\ Covers(AreaOf(stack[n]), p))
      BY Zenon DEF TCoded, n
    <2>3. \A p \in MinBlocks(CtuArea) :
            p \in coded' <=>
                /\ Within(extent', p)
                /\ \/ BeforeUpTo(stack', CuDepth(stack'), p)
                   \/ phase' # "tree" /\ Covers(AreaOf(stack'[CuDepth(stack')]), p)
      BY <1>3, <1>4, <1>5, <1>6, <2>2, Zenon
    <2> QED BY <1>6, <2>1, <2>3, Zenon DEF TCoded
  <1> QED BY <1>7

LEMMA CodedInit == TreeInit => TCoded
  <1> SUFFICES ASSUME TreeInit PROVE TCoded OBVIOUS
  <1>1. /\ stack = <<Level("ctu", <<CtuArea>>, TRUE)>> /\ coded = {} /\ phase = "tree"
    BY DEF TreeInit
  <1>2. /\ Way(stack) /\ Len(stack) = 1 /\ stack[1].split = "ctu" BY <1>1, WayOfCtu, Zenon
  <1>3. stack[1].idx = 0 BY <1>1 DEF Level
  <1>4. CuDepth(stack) = 1
    <2>1. "ctu" \notin TuSplits BY Kinds
    <2> QED BY <1>2, <2>1, Zenon DEF CuDepth
  <1>5. \A k \in 1 .. 0 : FALSE OBVIOUS
  <1>6. \A i \in 1 .. 1 : i = 1 OBVIOUS
  <1>7. \A p : ~BeforeUpTo(stack, 1, p) BY <1>3, <1>5, <1>6, Zenon DEF BeforeUpTo, Before
  <1>8. coded \subseteq MinBlocks(CtuArea) BY <1>1
  <1>9. \A p : p \notin coded BY <1>1
  <1> QED BY <1>1, <1>4, <1>7, <1>8, <1>9, Zenon DEF TCoded

LEMMA CodedSplitCu == TWalk /\ TCoded /\ SplitCu => TCoded'
  <1> SUFFICES ASSUME TWalk, TCoded, SplitCu PROVE TCoded' OBVIOUS
  <1> DEFINE n == Len(stack)
  <1>1. phase = "tree" /\ UNCHANGED <<extent, coded, phase>> BY DEF SplitCu
  <1>2. /\ Top.split \notin TuSplits /\ Len(stack') = n + 1 /\ Kept(stack, stack', n)
        /\ Way(stack') /\ Top'.split \in CuSplits /\ Top' = stack'[n + 1] /\ Top'.idx = 0
    BY SplitCuArea
  <1>3. Way(stack) BY DEF TWalk, TShape
  <1>4. n \in Nat /\ n >= 1 /\ CuDepth(stack) = n BY <1>2, <1>3, CuDepthIs
  <1>5. CuDepth(stack') = n + 1
    <2>1. stack'[n + 1].split \notin TuSplits BY <1>2, Kinds
    <2> QED BY <1>2, <2>1, Zenon DEF CuDepth
  <1> HIDE DEF n
  <1>6. \A p : BeforeUpTo(stack', n, p) <=> BeforeUpTo(stack, n, p) BY <1>2, <1>4, KeptBefore
  <1>7. n + 1 \in Nat /\ n + 1 >= 1 /\ (n + 1) - 1 = n BY <1>4
  <1>8. \A p : BeforeUpTo(stack', n + 1, p) <=> BeforeUpTo(stack', n, p) \/ Before(stack', n + 1, p)
    <2>1. \A p : BeforeUpTo(stack', n + 1, p) <=>
                   BeforeUpTo(stack', (n + 1) - 1, p) \/ Before(stack', n + 1, p)
      BY <1>7, OneLevelBefore
    <2> QED BY <1>7, <2>1, Zenon
  <1>9. \A p : ~Before(stack', n + 1, p)
    <2>1. \A k \in 1 .. 0 : FALSE OBVIOUS
    <2>2. stack'[n + 1].idx = 0 BY <1>2
    <2> QED BY <2>1, <2>2, Zenon DEF Before
  <1>10. \A p : BeforeUpTo(stack', CuDepth(stack'), p) <=> BeforeUpTo(stack, CuDepth(stack), p)
    BY <1>4, <1>5, <1>6, <1>8, <1>9, Zenon
  <1>11. extent' = extent /\ coded' = coded /\ phase' = "tree" BY <1>1
  <1>12. coded \subseteq MinBlocks(CtuArea) BY DEF TCoded
  <1>13. \A p \in MinBlocks(CtuArea) :
            p \in coded <=> Within(extent, p) /\ BeforeUpTo(stack, CuDepth(stack), p)
    BY <1>1, Zenon DEF TCoded
  <1>14. \A p \in MinBlocks(CtuArea) :
            p \in coded' <=> Within(extent', p) /\ BeforeUpTo(stack', CuDepth(stack'), p)
    BY <1>10, <1>11, <1>13, Zenon
  <1>15. coded' \subseteq MinBlocks(CtuArea) BY <1>11, <1>12
  <1> QED BY <1>11, <1>14, <1>15, Zenon DEF TCoded

(* A CU that may be coded lies in the picture.                             *)
LEMMA CodedWithin ==
    ASSUME TWalk, phase = "tree", ~Crosses(extent, CurrArea)
    PROVE  \A p \in MinBlocks(CurrArea) :
              p \in MinBlocks(CtuArea) /\ Covers(CurrArea, p) /\ Within(extent, p)
  <1>1. TShape /\ TBorder BY DEF TWalk
  <1>2. Way(stack) /\ extent \in Extent /\ Top.split \notin TuSplits BY <1>1 DEF TShape
  <1>3. CurrArea \in Areas /\ CuArea(CurrArea) BY <1>2, TopIsLast
  <1>4. \A p : p \in MinBlocks(CurrArea) <=> p \in MinBlocks(CtuArea) /\ Covers(CurrArea, p)
    BY <1>3, BlocksOfCu
  <1>5. Within(extent, CurrArea) BY <1>1, <1>2 DEF TBorder
  <1>6. CurrArea.x + CurrArea.w <= extent.x /\ CurrArea.y + CurrArea.h <= extent.y
    BY <1>2, <1>3, <1>5, AtBorder
  <1> DEFINE a == CurrArea
  <1>7. a \in Areas /\ a.x + a.w <= extent.x /\ a.y + a.h <= extent.y BY <1>3, <1>6
  <1> HIDE DEF a
  <1>8. ASSUME NEW p \in Points, Covers(a, p) PROVE Within(extent, p)
    <2>1. /\ a.x \in Nat /\ a.y \in Nat /\ a.w \in Nat /\ a.h \in Nat
          /\ p.x \in Nat /\ p.y \in Nat /\ extent.x \in Nat /\ extent.y \in Nat
      BY <1>2, <1>7, AreaType, ExtentFields
    <2>2. p.x < a.x + a.w /\ p.y < a.y + a.h BY <1>7, <1>8, AreaType
    <2>3. p.x < extent.x BY <1>7, <2>1, <2>2
    <2>4. p.y < extent.y BY <1>7, <2>1, <2>2
    <2> QED BY <2>3, <2>4 DEF Within
  <1> QED BY <1>4, <1>8, CtuPoints DEF a

LEMMA CodedCodeCu == TWalk /\ TCoded /\ CodeCu => TCoded'
  <1> SUFFICES ASSUME TWalk, TCoded, CodeCu PROVE TCoded' OBVIOUS
  <1> DEFINE n == Len(stack)
  <1>1. /\ phase = "tree" /\ "none" \in CanSplit /\ stack' = Cached /\ phase' = "transform"
        /\ coded' = coded \cup MinBlocks(CurrArea) /\ UNCHANGED <<limits, extent, depth>>
    BY DEF CodeCu
  <1>2. /\ Len(stack') = n /\ Kept(stack, stack', n) /\ Top'.split = Top.split
        /\ CurrArea' = CurrArea
    BY <1>1, CachedArea
  <1>3. TShape /\ TBorder /\ TDepths /\ Way(stack) BY DEF TWalk, TShape
  <1>4. Top.split \notin TuSplits BY <1>1, <1>3 DEF TShape
  <1>5. n \in Nat /\ n >= 1 /\ CuDepth(stack) = n BY <1>3, <1>4, CuDepthIs
  <1>6. CurrArea = AreaOf(stack[n]) /\ CurrArea \in Areas /\ CuArea(CurrArea)
    BY <1>3, <1>4, TopIsLast
  <1> HIDE DEF n
  <1>7. n \in 1 .. n BY <1>5
  <1>8. AreaOf(stack'[n]) = CurrArea BY <1>2, <1>5, <1>6, <1>7, KeptAreas
  <1>9. CuDepth(stack') = n
    <2>1. stack'[n].split \notin TuSplits BY <1>2, <1>4, Zenon DEF Top
    <2> QED BY <1>2, <2>1, Zenon DEF CuDepth
  <1>10. \A p : BeforeUpTo(stack', n, p) <=> BeforeUpTo(stack, n, p) BY <1>2, <1>5, KeptBefore
  <1>11. ~Crosses(extent, CurrArea) BY <1>1, <1>3, MayCode
  <1>12. \A p \in MinBlocks(CurrArea) :
            p \in MinBlocks(CtuArea) /\ Covers(CurrArea, p) /\ Within(extent, p)
    BY <1>1, <1>11, CodedWithin
  <1>13. \A p : p \in MinBlocks(CurrArea) <=> p \in MinBlocks(CtuArea) /\ Covers(CurrArea, p)
    BY <1>6, BlocksOfCu
  <1>14. coded \subseteq MinBlocks(CtuArea) BY DEF TCoded
  <1>15. \A p \in MinBlocks(CtuArea) : p \in coded <=> Within(extent, p) /\ BeforeUpTo(stack, n, p)
    BY <1>1, <1>5, Zenon DEF TCoded
  <1>16. \A p : p \in coded' <=> p \in coded \/ p \in MinBlocks(CurrArea) BY <1>1
  <1>17. coded' \subseteq MinBlocks(CtuArea) BY <1>12, <1>14, <1>16
  <1>18. \A p \in MinBlocks(CtuArea) :
            p \in coded' <=> Within(extent, p) /\ (BeforeUpTo(stack, n, p) \/ Covers(CurrArea, p))
    BY <1>12, <1>13, <1>15, <1>16, Zenon
  <1>19. \A p \in MinBlocks(CtuArea) :
            p \in coded' <=>
                /\ Within(extent', p)
                /\ BeforeUpTo(stack', CuDepth(stack'), p) \/ Covers(AreaOf(stack'[CuDepth(stack')]), p)
    <2>1. extent' = extent BY <1>1
    <2> QED BY <1>8, <1>9, <1>10, <1>18, <2>1, Zenon
  <1>20. phase' # "tree" BY <1>1
  <1> QED BY <1>17, <1>19, <1>20, Zenon DEF TCoded

LEMMA CodedSplitTu == TWalk /\ TCoded /\ SplitTu => TCoded'
  <1> SUFFICES ASSUME TWalk, TCoded, SplitTu PROVE TCoded' OBVIOUS
  <1> DEFINE n == Len(stack)
  <1>1. phase = "transform" /\ UNCHANGED <<extent, coded, phase>> BY DEF SplitTu
  <1>2. /\ Top.split \notin TuSplits /\ Len(stack') = n + 1 /\ Kept(stack, stack', n)
        /\ Top'.split \in TuSplits /\ Top' = stack'[n + 1]
    BY SplitTuArea
  <1>3. Way(stack) BY DEF TWalk, TShape
  <1>4. n \in Nat /\ CuDepth(stack) = n BY <1>2, <1>3, CuDepthIs
  <1>5. CuDepth(stack') = (n + 1) - 1 BY <1>2, Zenon DEF CuDepth
  <1> HIDE DEF n
  <1>6. CuDepth(stack') = CuDepth(stack) BY <1>4, <1>5
  <1> QED BY <1>1, <1>2, <1>4, <1>6, CodedKept

LEMMA CodedCodeTu == TWalk /\ TCoded /\ CodeTu => TCoded'
  <1> SUFFICES ASSUME TWalk, TCoded, CodeTu PROVE TCoded' OBVIOUS
  <1> DEFINE n == Len(stack)
  <1>1. /\ phase = "transform" /\ phase' = "next" /\ stack' = Cached
        /\ UNCHANGED <<limits, extent, depth, coded>>
    BY DEF CodeTu
  <1>2. Len(stack') = n /\ Kept(stack, stack', n) /\ Top'.split = Top.split BY <1>1, CachedArea
  <1>3. Way(stack) BY DEF TWalk, TShape
  <1>4. n \in Nat /\ CuDepth(stack) \in 1 .. n BY <1>3, CuDepthIs
  <1>5. CuDepth(stack') = CuDepth(stack) BY <1>2, Zenon DEF CuDepth, Top
  <1> HIDE DEF n
  <1>6. Kept(stack, stack', CuDepth(stack))
    <2>1. CuDepth(stack) \in 0 .. n BY <1>4
    <2> QED BY <1>2, <1>4, <2>1, KeptAreas
  <1> QED BY <1>1, <1>5, <1>6, CodedKept

LEMMA CodedEndCtu == TWalk /\ TCoded /\ EndCtu => TCoded'
  <1> SUFFICES ASSUME TWalk, TCoded, EndCtu PROVE TCoded' OBVIOUS
  <1>1. phase = "next" /\ phase' = "end" /\ UNCHANGED <<stack, extent, coded>> BY DEF EndCtu
  <1> QED BY <1>1 DEF TCoded

(* Nothing of a part that begins outside the picture is inside.            *)
LEMMA OutsideStays ==
    ASSUME NEW e \in Extent, NEW a \in Areas, ~Within(e, a), NEW p \in Points, Covers(a, p)
    PROVE  ~Within(e, p)
  <1>1. /\ e.x \in Nat /\ e.y \in Nat /\ a.x \in Nat /\ a.y \in Nat /\ p.x \in Nat /\ p.y \in Nat
        /\ a.x <= p.x /\ a.y <= p.y
    BY AreaType, ExtentFields
  <1>2. ~(a.x < e.x) \/ ~(a.y < e.y) BY DEF Within
  <1>3. ~(a.x < e.x) => ~(p.x < e.x) BY <1>1
  <1>4. ~(a.y < e.y) => ~(p.y < e.y) BY <1>1
  <1> QED BY <1>2, <1>3, <1>4 DEF Within

LEMMA CodedToNextPart == TWalk /\ TCoded /\ ToNextPart => TCoded'
  <1> SUFFICES ASSUME TWalk, TCoded, ToNextPart PROVE TCoded' OBVIOUS
  <1> DEFINE n == Len(stack)
  <1>1. /\ phase = "next" /\ UNCHANGED <<extent, coded>>
        /\ phase' = IF Top.split \in TuSplits THEN "transform"
                    ELSE IF InPicture(Top.parts[Top.idx + 2]) THEN "tree" ELSE "next"
    BY DEF ToNextPart
  <1>2. /\ Len(stack') = n /\ Kept(stack, stack', n - 1)
        /\ stack'[n].split = stack[n].split /\ stack'[n].parts = stack[n].parts
        /\ stack'[n].idx = stack[n].idx + 1
        /\ Way(stack') /\ Top'.split = Top.split /\ CurrArea' = Top.parts[Top.idx + 2]
    BY NextPartArea
  <1>3. TShape /\ Way(stack) /\ WayShape(stack) /\ extent \in Extent BY DEF TWalk, TShape, Way
  <1>4. n \in Nat /\ n >= 1 /\ Top = stack[n] BY <1>3, TopIsLast
  <1>5. CuDepth(stack') = CuDepth(stack) BY <1>2, Zenon DEF CuDepth
  <1>6. CASE Top.split \in TuSplits
    <2>1. CuDepth(stack) = n - 1 BY <1>3, <1>6, CuDepthIs
    <2>2. Kept(stack, stack', CuDepth(stack)) BY <1>2, <2>1
    <2>3. phase' # "tree" BY <1>1, <1>6
    <2> QED BY <1>1, <1>5, <2>2, <2>3, CodedKept
  <1>7. CASE Top.split \notin TuSplits
    <2>1. CuDepth(stack) = n BY <1>3, <1>7, CuDepthIs
    <2>2. stack[n].idx \in Nat
      <3>1. n \in 1 .. n
        <4> HIDE DEF n
        <4> QED BY <1>4
      <3> QED BY <1>3, <3>1, WayLevels
    <2>3. CurrArea' = AreaOf(stack'[n]) /\ CurrArea' \in Areas
      <3>1. CurrArea' = AreaOf(stack'[n]) BY <1>2, Zenon DEF CurrArea, Top
      <3>2. WayShape(stack') /\ Len(stack') \in 1 .. Len(stack')
        <4> HIDE DEF n
        <4> QED BY <1>2, <1>4 DEF Way
      <3>3. AreaOf(stack'[Len(stack')]) \in Areas BY <3>2, WayLevels
      <3> QED BY <1>2, <3>1, <3>3, Zenon
    <2> HIDE DEF n
    <2>4. \A p : BeforeUpTo(stack, n, p) <=> BeforeUpTo(stack, n - 1, p) \/ Before(stack, n, p)
      BY <1>4, OneLevelBefore
    <2>5. \A p : BeforeUpTo(stack', n, p) <=> BeforeUpTo(stack', n - 1, p) \/ Before(stack', n, p)
      BY <1>4, OneLevelBefore
    <2>6. \A p : BeforeUpTo(stack', n - 1, p) <=> BeforeUpTo(stack, n - 1, p)
      <3>1. n - 1 \in Nat BY <1>4
      <3> QED BY <1>2, <3>1, KeptBefore
    <2>7. \A p : Before(stack', n, p) <=> Before(stack, n, p) \/ Covers(AreaOf(stack[n]), p)
      BY <1>2, <2>2, OnePartBefore
    <2>8. \A p : BeforeUpTo(stack', n, p) <=> BeforeUpTo(stack, n, p) \/ Covers(AreaOf(stack[n]), p)
      BY <2>4, <2>5, <2>6, <2>7, Zenon
    <2>9. coded' \subseteq MinBlocks(CtuArea) BY <1>1 DEF TCoded
    <2>10. \A p \in MinBlocks(CtuArea) : p \in coded' <=> Within(extent', p) /\ BeforeUpTo(stack', n, p)
      <3>1. \A p \in MinBlocks(CtuArea) :
              p \in coded <=> /\ Within(extent, p)
                              /\ BeforeUpTo(stack, n, p) \/ Covers(AreaOf(stack[n]), p)
        <4>1. phase # "tree" BY <1>1
        <4> QED BY <2>1, <4>1, Zenon DEF TCoded
      <3>2. extent' = extent /\ coded' = coded BY <1>1
      <3> QED BY <2>8, <3>1, <3>2, Zenon
    <2>11. CASE phase' = "tree" BY <1>5, <2>1, <2>9, <2>10, <2>11, Zenon DEF TCoded
    <2>12. CASE phase' # "tree"
      <3>1. ~InPicture(CurrArea') BY <1>1, <1>2, <1>7, <2>12
      <3>2. ~Within(extent, CurrArea') BY <3>1, BorderOperators
      <3>3. \A p \in Points : Covers(CurrArea', p) => ~Within(extent, p)
        BY <1>3, <2>3, <3>2, OutsideStays
      <3>4. \A p \in MinBlocks(CtuArea) : Covers(AreaOf(stack'[n]), p) => ~Within(extent', p)
        <4>1. extent' = extent BY <1>1
        <4>2. \A p \in MinBlocks(CtuArea) : p \in Points BY CtuPoints
        <4> QED BY <2>3, <3>3, <4>1, <4>2, Zenon
      <3> QED BY <1>5, <2>1, <2>9, <2>10, <3>4, Zenon DEF TCoded
    <2> QED BY <2>11, <2>12
  <1> QED BY <1>6, <1>7

LEMMA CodedLeaveSplit == TWalk /\ TCoded /\ LeaveSplit => TCoded'
  <1> SUFFICES ASSUME TWalk, TCoded, LeaveSplit PROVE TCoded' OBVIOUS
  <1> DEFINE n == Len(stack)
  <1>1. /\ phase = "next" /\ Len(stack) > 1 /\ Top.idx + 1 = Len(Top.parts)
        /\ UNCHANGED <<extent, coded, phase>>
    BY DEF LeaveSplit
  <1>2. /\ Len(stack') = n - 1 /\ \A i \in 1 .. n - 1 : stack'[i] = stack[i]
        /\ Way(stack')
    BY LeaveSplitWay
  <1>3. TShape /\ Way(stack) /\ WayShape(stack) /\ WayTiled(stack) BY DEF TWalk, TShape, Way
  <1>4. n \in Nat /\ n >= 1 /\ n > 1 /\ Top = stack[n] BY <1>1, <1>3, TopIsLast
  <1>5. CuDepth(stack') = n - 1
    <2>1. n - 1 \in 1 .. n - 1
      <3> HIDE DEF n
      <3> QED BY <1>4
    <2>2. stack[n - 1].split \notin TuSplits BY <1>3, <2>1 DEF WayShape
    <2>3. stack'[Len(stack')].split \notin TuSplits BY <1>2, <2>1, <2>2, Zenon
    <2> QED BY <1>2, <2>3, Zenon DEF CuDepth
  <1>6. Kept(stack, stack', n - 1) BY <1>2, Zenon DEF Kept
  <1>7. CASE Top.split \in TuSplits
    <2>1. CuDepth(stack) = n - 1 BY <1>3, <1>7, CuDepthIs
    <2> QED BY <1>1, <1>5, <1>6, <2>1, CodedKept
  <1>8. CASE Top.split \notin TuSplits
    <2>1. CuDepth(stack) = n BY <1>3, <1>8, CuDepthIs
    <2>2. stack[n].idx \in Nat /\ AreaOf(stack[n - 1]) \in Areas
      <3>1. n \in 1 .. n /\ n - 1 \in 1 .. n
        <4> HIDE DEF n
        <4> QED BY <1>4
      <3> QED BY <1>3, <3>1, WayLevels
    <2>3. Tiles(stack[n].parts, AreaOf(stack[n - 1]))
      <3>1. n \in 2 .. n
        <4> HIDE DEF n
        <4> QED BY <1>4
      <3> QED BY <1>3, <3>1, Zenon DEF WayTiled
    <2>4. stack[n].idx + 1 = Len(stack[n].parts) BY <1>1, <1>4
    <2> HIDE DEF n
    <2>5. \A p \in Points :
            Before(stack, n, p) \/ Covers(AreaOf(stack[n]), p) <=> Covers(AreaOf(stack[n - 1]), p)
      BY <2>2, <2>3, <2>4, AllPartsBefore
    <2>6. \A p : BeforeUpTo(stack, n, p) <=> BeforeUpTo(stack, n - 1, p) \/ Before(stack, n, p)
      BY <1>4, OneLevelBefore
    <2>7. n - 1 \in Nat /\ n - 1 \in 1 .. n - 1 BY <1>4
    <2>8. \A p : BeforeUpTo(stack', n - 1, p) <=> BeforeUpTo(stack, n - 1, p)
      BY <1>6, <2>7, KeptBefore
    <2>9. AreaOf(stack'[n - 1]) = AreaOf(stack[n - 1]) BY <1>2, <2>7, Zenon
    <2>10. \A p \in MinBlocks(CtuArea) :
              p \in coded <=> /\ Within(extent, p)
                              /\ BeforeUpTo(stack, n, p) \/ Covers(AreaOf(stack[n]), p)
      <3>1. phase # "tree" BY <1>1
      <3> QED BY <2>1, <3>1, Zenon DEF TCoded
    <2>11. \A p \in MinBlocks(CtuArea) : p \in Points BY CtuPoints
    <2>12. \A p \in MinBlocks(CtuArea) :
              p \in coded' <=> /\ Within(extent', p)
                               /\ BeforeUpTo(stack', n - 1, p) \/ Covers(AreaOf(stack'[n - 1]), p)
      <3>1. extent' = extent /\ coded' = coded BY <1>1
      <3> QED BY <2>5, <2>6, <2>8, <2>9, <2>10, <2>11, <3>1, Zenon
    <2>13. coded' \subseteq MinBlocks(CtuArea) BY <1>1 DEF TCoded
    <2>14. phase' # "tree" BY <1>1
    <2> QED BY <1>5, <2>12, <2>13, <2>14, Zenon DEF TCoded
  <1> QED BY <1>7, <1>8

LEMMA CodedStutters == TCoded /\ UNCHANGED treeVars => TCoded'
  BY DEF TCoded, treeVars

LEMMA CodedNext == TWalk /\ TCoded /\ [TreeNext]_treeVars => TCoded'
  BY CodedSplitCu, CodedCodeCu, CodedSplitTu, CodedCodeTu, CodedToNextPart, CodedLeaveSplit,
     CodedEndCtu, CodedStutters DEF TreeNext

----------------------------------------------------------------------------
(* The CUs tile the CTU *)

(* Two parts of one level do not cover the same block.                     *)
LEMMA PassedIsApart ==
    ASSUME NEW st, Way(st), NEW i \in 1 .. Len(st), NEW p \in Points,
           Before(st, i, p)
    PROVE  ~Covers(AreaOf(st[i]), p)
  <1>1. WayShape(st) /\ WayTiled(st) BY DEF Way
  <1>2. /\ st[i].parts \in Seq(Areas) /\ st[i].idx \in Nat
        /\ st[i].idx + 1 \in DOMAIN st[i].parts /\ AreaOf(st[i]) = st[i].parts[st[i].idx + 1]
    BY <1>1, WayLevels
  <1> DEFINE f == st[i].parts
             j == st[i].idx
  <1>3. PICK k \in 1 .. j : Covers(f[k], p) BY DEF Before
  <1>4. i # 1
    <2>1. CASE i = 1
      <3>1. st[1].parts = <<CtuArea>> BY <1>1 DEF WayShape
      <3>2. f = <<CtuArea>> BY <2>1, <3>1
      <3>3. f \in Seq(Areas) /\ j \in Nat /\ j + 1 \in DOMAIN f BY <1>2
      <3>4. Len(<<CtuArea>>) = 1 OBVIOUS
      <3>5. Len(f) = 1 BY <3>2, <3>4
      <3>6. k \in 1 .. j BY <1>3
      <3> HIDE DEF f, j
      <3> QED BY <3>3, <3>5, <3>6
    <2> QED BY <2>1
  <1>5. Tiles(f, AreaOf(st[i - 1]))
    <2>1. i \in 2 .. Len(st)
      <3>1. Len(st) \in Nat BY <1>1, WayLevels
      <3> QED BY <1>4, <3>1
    <2> QED BY <1>1, <2>1, Zenon DEF WayTiled
  <1>6. \A a, b \in DOMAIN f : a = b \/ Disjoint(f[a], f[b]) BY <1>5, Zenon DEF Tiles
  <1>7. f \in Seq(Areas) /\ j \in Nat /\ j + 1 \in DOMAIN f BY <1>2
  <1>8. AreaOf(st[i]) = f[j + 1] BY <1>2
  <1> HIDE DEF f, j
  <1>9. k \in DOMAIN f /\ k # j + 1 BY <1>3, <1>7
  <1>10. f[k] \in Areas /\ f[j + 1] \in Areas BY <1>7, <1>9
  <1>11. Disjoint(f[k], f[j + 1]) BY <1>6, <1>7, <1>9
  <1> QED BY <1>3, <1>8, <1>10, <1>11, ApartCovers

(* What coding_tree comes to has not been coded.                           *)
LEMMA TreeIsNew ==
    ASSUME TWalk, TCoded, phase = "tree"
    PROVE  /\ MinBlocks(CurrArea) \cap coded = {}
           /\ Pos(CurrArea) \in MinBlocks(CurrArea)
  <1>1. TShape BY DEF TWalk
  <1>2. Way(stack) /\ Top.split \notin TuSplits BY <1>1 DEF TShape
  <1>3. /\ CurrArea \in Areas /\ CuArea(CurrArea) /\ CurrArea = AreaOf(stack[Len(stack)])
        /\ Len(stack) \in 1 .. Len(stack) /\ Len(stack) \in Nat
    BY <1>2, TopIsLast
  <1>4. CuDepth(stack) = Len(stack) BY <1>2, CuDepthIs
  <1>5. /\ \A p : p \in MinBlocks(CurrArea) <=> p \in MinBlocks(CtuArea) /\ Covers(CurrArea, p)
        /\ Pos(CurrArea) \in MinBlocks(CurrArea)
    BY <1>3, BlocksOfCu
  <1>6. ASSUME NEW p \in MinBlocks(CurrArea) PROVE p \notin coded
    <2>1. p \in MinBlocks(CtuArea) /\ Covers(CurrArea, p) /\ p \in Points BY <1>5, CtuPoints
    <2> SUFFICES ASSUME p \in coded PROVE FALSE OBVIOUS
    <2>2. BeforeUpTo(stack, Len(stack), p) BY <1>4, <2>1, Zenon DEF TCoded
    <2>3. PICK i \in 1 .. Len(stack) : Before(stack, i, p) BY <2>2 DEF BeforeUpTo
    <2>4. ~Covers(AreaOf(stack[i]), p) BY <1>2, <2>1, <2>3, PassedIsApart
    <2>5. CASE i = Len(stack) BY <1>3, <2>1, <2>4, <2>5
    <2>6. CASE i # Len(stack)
      <3>1. i \in 1 .. Len(stack) - 1 BY <1>3, <2>3, <2>6
      <3>2. WayShape(stack) /\ WayTiled(stack) BY <1>2 DEF Way
      <3>3. /\ stack[Len(stack)].idx + 1 \in DOMAIN stack[Len(stack)].parts
            /\ CurrArea = stack[Len(stack)].parts[stack[Len(stack)].idx + 1]
            /\ AreaOf(stack[i]) \in Areas
        BY <1>3, <2>3, <3>2, WayLevels
      <3>4. Inside(CurrArea, AreaOf(stack[i]))
        BY <1>3, <3>1, <3>2, <3>3, Zenon DEF WayTiled
      <3>5. Covers(AreaOf(stack[i]), p) BY <1>3, <2>1, <3>3, <3>4, InsideOneAnother
      <3> QED BY <2>4, <3>5
    <2> QED BY <2>5, <2>6
  <1> QED BY <1>5, <1>6

(* The blocks of the least transform size in an area are covered by it.    *)
LEMMA MinTbsCovered ==
    ASSUME NEW a \in Areas, a.w \in BlockSizes, a.h \in BlockSizes, NEW p \in MinTbs(a)
    PROVE  p \in Points /\ Covers(a, p)
  <1>1. a.x \in Nat /\ a.y \in Nat /\ a.w \in Nat /\ a.h \in Nat BY AreaType
  <1>2. PICK i \in 0 .. a.w \div 4 - 1, j \in 0 .. a.h \div 4 - 1 :
            p = [x |-> a.x + 4 * i, y |-> a.y + 4 * j]
    BY DEF MinTbs, MIN_TB_SIZEY
  <1>3. i \in Nat /\ 4 * i < a.w BY <1>2 DEF BlockSizes
  <1>4. j \in Nat /\ 4 * j < a.h BY <1>2 DEF BlockSizes
  <1>5. p.x = a.x + 4 * i /\ p.y = a.y + 4 * j BY <1>2
  <1>6. p \in Points BY <1>1, <1>2, <1>3, <1>4 DEF Points
  <1>7. a.x <= p.x /\ p.x < a.x + a.w BY <1>1, <1>3, <1>5
  <1>8. a.y <= p.y /\ p.y < a.y + a.h BY <1>1, <1>4, <1>5
  <1> QED BY <1>6, <1>7, <1>8, AreaType

(* At the end all of the CTU that is in the picture has been coded.        *)
LEMMA AllIsCoded ==
    ASSUME TWalk, TCoded, phase = "end"
    PROVE  coded = MinBlocks([x |-> 0, y |-> 0, w |-> extent.x, h |-> extent.y])
  <1>1. Way(stack) /\ Len(stack) = 1 /\ extent \in Extent BY DEF TWalk, TShape
  <1>2. CuDepth(stack) \in 1 .. Len(stack) BY <1>1, CuDepthIs
  <1>3. CuDepth(stack) = 1 BY <1>1, <1>2
  <1>4. AreaOf(stack[1]) = CtuArea
    <2>1. WayShape(stack) /\ 1 \in 1 .. Len(stack) BY <1>1 DEF Way
    <2>2. stack[1].parts = <<CtuArea>> BY <2>1 DEF WayShape
    <2>3. /\ stack[1].idx + 1 \in DOMAIN stack[1].parts /\ stack[1].idx \in Nat
          /\ AreaOf(stack[1]) = stack[1].parts[stack[1].idx + 1]
      BY <2>1, WayLevels
    <2>4. stack[1].idx + 1 \in DOMAIN <<CtuArea>> BY <2>2, <2>3
    <2>5. stack[1].idx + 1 = 1 BY <2>4
    <2>6. <<CtuArea>>[1] = CtuArea OBVIOUS
    <2> QED BY <2>2, <2>3, <2>5, <2>6, Zenon
  <1>5. /\ extent.x \in Nat /\ extent.x > 0 /\ Whole(extent.x) /\ extent.x <= CtuSize
        /\ extent.y \in Nat /\ extent.y > 0 /\ Whole(extent.y) /\ extent.y <= CtuSize
        /\ CtuSize \in Nat
    BY <1>1, ExtentFields, TreeAssumption
  <1> DEFINE a == [x |-> 0, y |-> 0, w |-> extent.x, h |-> extent.y]
  <1>6. a.x = 0 /\ a.y = 0 /\ a.w = extent.x /\ a.h = extent.y OBVIOUS
  <1>7. a \in Areas BY <1>5 DEF Areas
  <1> HIDE DEF a
  <1>8. OnGrid(a)
    <2>1. Whole(0)
      <3>1. 0 = MinCbSize * 0 BY TreeAssumption DEF BlockSizes
      <3> QED BY <3>1 DEF Whole
    <2>2. a.x + a.w <= CtuSize /\ a.y + a.h <= CtuSize BY <1>5, <1>6
    <2> QED BY <1>5, <1>6, <2>1, <2>2 DEF OnGrid
  <1>9. \A p : p \in MinBlocks(a) <=> p \in MinBlocks(CtuArea) /\ Covers(a, p)
    BY <1>7, <1>8, BlocksOfArea
  <1>10. ASSUME NEW p \in Points PROVE Covers(a, p) <=> Within(extent, p)
    <2>1. Covers(a, p) <=> a.x <= p.x /\ p.x < a.x + a.w /\ a.y <= p.y /\ p.y < a.y + a.h
      BY <1>7, AreaType
    <2>2. p.x \in Nat /\ p.y \in Nat BY DEF Points
    <2>3. a.x <= p.x /\ p.x < a.x + a.w <=> p.x < extent.x BY <1>5, <1>6, <2>2
    <2>4. a.y <= p.y /\ p.y < a.y + a.h <=> p.y < extent.y BY <1>5, <1>6, <2>2
    <2> QED BY <2>1, <2>3, <2>4 DEF Within
  <1>11. ASSUME NEW p \in MinBlocks(CtuArea) PROVE Covers(CtuArea, p)
    <2>1. CtuArea \in Areas /\ OnGrid(CtuArea)
      <3>1. /\ CtuArea.x = 0 /\ CtuArea.y = 0 /\ CtuArea.w = CtuSize /\ CtuArea.h = CtuSize
            /\ CtuArea \in Areas
        BY <1>5 DEF CtuArea, Areas
      <3>2. Whole(0)
        <4>1. 0 = MinCbSize * 0 BY TreeAssumption DEF BlockSizes
        <4> QED BY <4>1 DEF Whole
      <3>3. CtuSize \in BlockSizes /\ CtuSize >= MinCbSize BY TreeAssumption DEF BlockSizes
      <3>4. Whole(CtuSize) BY <3>3, BlockType
      <3>5. 0 + CtuSize <= CtuSize BY <1>5
      <3> QED BY <3>1, <3>2, <3>4, <3>5 DEF OnGrid
    <2> QED BY <2>1, BlocksOfArea
  <1>12. \A p \in MinBlocks(CtuArea) : p \in coded <=> Within(extent, p)
    <2>1. phase # "tree" OBVIOUS
    <2> QED BY <1>3, <1>4, <1>11, <2>1, Zenon DEF TCoded
  <1>13. coded \subseteq MinBlocks(CtuArea) BY DEF TCoded
  <1>14. \A p : p \in coded <=> p \in MinBlocks(a) BY <1>9, <1>10, <1>12, <1>13, CtuPoints
  <1> QED BY <1>14 DEF a

LEMMA WalkTilesCtu == TWalk /\ TCoded => CtuIsTiled
  <1> SUFFICES ASSUME TWalk, TCoded PROVE CtuIsTiled OBVIOUS
  <1>1. TShape /\ TBorder /\ TDepths BY DEF TWalk
  <1>2. /\ Way(stack) /\ WayShape(stack) /\ WayTiled(stack) /\ WayAreas(stack) /\ extent \in Extent
    BY <1>1 DEF TShape, Way
  <1>3. phase = "tree" => MinBlocks(CurrArea) \cap coded = {} BY TreeIsNew
  <1>4. ASSUME phase = "tree", "none" \in CanSplit
        PROVE  CurrArea.x + CurrArea.w <= extent.x /\ CurrArea.y + CurrArea.h <= extent.y
    <2>1. Top.split \notin TuSplits BY <1>1, <1>4 DEF TShape
    <2>2. Within(extent, CurrArea) BY <1>1, <1>4, <2>1 DEF TBorder
    <2>3. ~Crosses(extent, CurrArea) BY <1>1, <1>4, MayCode
    <2>4. CurrArea \in Areas BY <1>2, TopIsLast
    <2> QED BY <1>2, <2>2, <2>3, <2>4, AtBorder
  <1>5. ASSUME Len(stack) > 1
        PROVE  LET area == AreaOf(stack[Len(stack) - 1]) parts == Top.parts
               IN  /\ \A i, j \in DOMAIN parts : i = j \/ Disjoint(parts[i], parts[j])
                   /\ \A i \in DOMAIN parts : Inside(parts[i], area)
                   /\ \A p \in MinTbs(area) : \E i \in DOMAIN parts : Covers(parts[i], p)
    <2> DEFINE n == Len(stack)
               area == AreaOf(stack[n - 1])
               parts == Top.parts
    <2>1. n \in Nat /\ n > 1 /\ Top = stack[n] BY <1>2, <1>5, TopIsLast
    <2>2. n \in 2 .. n /\ n - 1 \in 1 .. n - 1 /\ n - 1 \in 1 .. n
      <3> HIDE DEF n
      <3> QED BY <2>1
    <2>3. Tiles(parts, area) BY <1>2, <2>1, <2>2, Zenon DEF WayTiled
    <2>4. area \in Areas /\ CuArea(area)
      <3>1. /\ stack[n - 1].idx + 1 \in DOMAIN stack[n - 1].parts /\ area \in Areas
            /\ area = stack[n - 1].parts[stack[n - 1].idx + 1]
        BY <1>2, <2>2, WayLevels
      <3>2. stack[n - 1].split \notin TuSplits BY <1>2, <2>2 DEF WayShape
      <3>3. \A k \in DOMAIN stack[n - 1].parts : CuArea(stack[n - 1].parts[k])
        BY <1>2, <2>2, <3>2, Zenon DEF WayAreas
      <3> QED BY <3>1, <3>3
    <2>5. area.w \in BlockSizes /\ area.h \in BlockSizes BY <2>4 DEF CuArea
    <2> HIDE DEF n, area, parts
    <2>6. \A p \in MinTbs(area) : p \in Points /\ Covers(area, p) BY <2>4, <2>5, MinTbsCovered
    <2>7. /\ \A i, j \in DOMAIN parts : i = j \/ Disjoint(parts[i], parts[j])
          /\ \A i \in DOMAIN parts : Inside(parts[i], area)
          /\ \A p \in MinTbs(area) : \E i \in DOMAIN parts : Covers(parts[i], p)
      BY <2>3, <2>6, Zenon DEF Tiles
    <2> QED BY <2>7 DEF n, area, parts
  <1>6. phase = "end" => coded = MinBlocks([x |-> 0, y |-> 0, w |-> extent.x, h |-> extent.y])
    BY AllIsCoded
  <1> QED BY <1>3, <1>4, <1>5, <1>6, Zenon DEF CtuIsTiled

(* The CUs of a CTU tile the part of it that is in the picture: none is    *)
(* coded twice, none is left out, and coding_tree asks for none across the *)
(* border, for every size of CTU and picture and every limit of a slice.   *)
THEOREM TreeTilesCtu == TreeSpec => []CtuIsTiled
  <1>1. TreeInit => TWalk /\ TCoded BY WalkInit, CodedInit
  <1>2. TWalk /\ TCoded /\ [TreeNext]_treeVars => TWalk' /\ TCoded' BY WalkNext, CodedNext
  <1>3. TWalk /\ TCoded => CtuIsTiled BY WalkTilesCtu
  <1> QED BY <1>1, <1>2, <1>3, PTL DEF TreeSpec

----------------------------------------------------------------------------
(* Quantisation groups: the levels of the way that start one are the first *)
(* ones, and below them the group has been started as soon as its first    *)
(* block has been coded.                                                   *)

GroupsTo(st, m) == m \in 1 .. Len(st) /\ \A i \in 1 .. Len(st) : st[i].qg <=> i <= m

TGroups ==
    /\ \E m \in 1 .. Len(stack) : GroupsTo(stack, m) /\ qgPos = Pos(AreaOf(stack[m]))
    /\ phase # "tree" => ~qgStart
    /\ phase # "tree" /\ ~Top.qg => qgPos \in coded
    /\ phase = "tree" /\ ~Top.qg => (qgStart <=> qgPos \notin coded)
    /\ phase = "tree" /\ ~Top.qg /\ qgStart => Pos(CurrArea) = qgPos
    /\ phase = "transform" /\ Top.split \notin TuSplits => Pos(CurrArea) \in coded

GroupLevel(st, pos) == \E m \in 1 .. Len(st) : GroupsTo(st, m) /\ pos = Pos(AreaOf(st[m]))

LEMMA GroupsAtTop ==
    ASSUME NEW st, NEW m, Len(st) \in Nat, Len(st) >= 1, GroupsTo(st, m)
    PROVE  st[Len(st)].qg <=> m = Len(st)
  <1> DEFINE n == Len(st)
  <1>1. n \in 1 .. n /\ m \in 1 .. n /\ (st[n].qg <=> n <= m)
    <2>1. n \in Nat /\ n >= 1 OBVIOUS
    <2>2. n \in 1 .. n
      <3> HIDE DEF n
      <3> QED BY <2>1
    <2> QED BY <2>2, Zenon DEF GroupsTo
  <1>2. n \in Nat OBVIOUS
  <1> HIDE DEF n
  <1>3. n <= m <=> m = n BY <1>1, <1>2
  <1> QED BY <1>1, <1>3 DEF n

(* The levels stay as they are.                                            *)
LEMMA GroupsKept ==
    ASSUME NEW st, NEW st2, NEW pos, Len(st) \in Nat, Len(st2) = Len(st),
           Kept(st, st2, Len(st)), GroupLevel(st, pos)
    PROVE  GroupLevel(st2, pos)
  <1>1. PICK m \in 1 .. Len(st) : GroupsTo(st, m) /\ pos = Pos(AreaOf(st[m])) BY DEF GroupLevel
  <1>2. \A i \in 1 .. Len(st) : st2[i].qg = st[i].qg BY DEF Kept
  <1>3. GroupsTo(st2, m) BY <1>1, <1>2, Zenon DEF GroupsTo
  <1>4. AreaOf(st2[m]) = AreaOf(st[m]) BY <1>1, KeptAreas
  <1> QED BY <1>1, <1>3, <1>4, Zenon DEF GroupLevel

(* A level more starts a group only if the last does.                      *)
LEMMA GroupsPushed ==
    ASSUME NEW st, NEW st2, NEW pos, NEW pos2, Len(st) \in Nat, Len(st) >= 1,
           Len(st2) = Len(st) + 1, Kept(st, st2, Len(st)),
           st2[Len(st) + 1].qg => st[Len(st)].qg,
           st2[Len(st) + 1].qg => pos2 = Pos(AreaOf(st2[Len(st) + 1])),
           ~st2[Len(st) + 1].qg => pos2 = pos,
           GroupLevel(st, pos)
    PROVE  GroupLevel(st2, pos2)
  <1> DEFINE n == Len(st)
  <1>1. PICK m \in 1 .. n : GroupsTo(st, m) /\ pos = Pos(AreaOf(st[m])) BY DEF GroupLevel
  <1>2. st[n].qg <=> m = n BY <1>1, GroupsAtTop
  <1>3. \A i \in 1 .. n : st2[i].qg = st[i].qg BY DEF Kept
  <1>4. \A i \in 1 .. n : st2[i].qg <=> i <= m BY <1>1, <1>3, Zenon DEF GroupsTo
  <1>5. n \in Nat /\ Len(st2) = n + 1 /\ (st2[n + 1].qg => st[n].qg) OBVIOUS
  <1>6. AreaOf(st2[m]) = AreaOf(st[m]) BY <1>1, KeptAreas
  <1>7. /\ st2[n + 1].qg => pos2 = Pos(AreaOf(st2[n + 1]))
        /\ ~st2[n + 1].qg => pos2 = pos
    OBVIOUS
  <1> HIDE DEF n
  <1>8. /\ \A i \in 1 .. n + 1 : i \in 1 .. n \/ i = n + 1
        /\ \A i \in 1 .. n : i <= n + 1
        /\ n + 1 \in 1 .. n + 1 /\ m \in 1 .. n + 1 /\ ~(n + 1 <= m) /\ n + 1 <= n + 1
    BY <1>1, <1>5
  <1>9. CASE st2[n + 1].qg
    <2>1. m = n BY <1>2, <1>5, <1>9
    <2>2. \A i \in 1 .. n : st2[i].qg
      <3>1. \A i \in 1 .. n : i <= n BY <1>5
      <3> QED BY <1>4, <2>1, <3>1
    <2>3. GroupsTo(st2, n + 1) BY <1>5, <1>8, <1>9, <2>2, Zenon DEF GroupsTo
    <2> QED BY <1>5, <1>7, <1>8, <1>9, <2>3, Zenon DEF GroupLevel
  <1>10. CASE ~st2[n + 1].qg
    <2>1. GroupsTo(st2, m) BY <1>4, <1>5, <1>8, <1>10, Zenon DEF GroupsTo
    <2> QED BY <1>1, <1>5, <1>6, <1>7, <1>8, <1>10, <2>1, Zenon DEF GroupLevel
  <1> QED BY <1>9, <1>10

LEMMA GroupsMoved ==
    ASSUME NEW st, NEW st2, NEW pos, NEW pos2, Len(st) \in Nat, Len(st) >= 1,
           Len(st2) = Len(st), Kept(st, st2, Len(st) - 1),
           st2[Len(st)].qg = st[Len(st)].qg,
           st[Len(st)].qg => pos2 = Pos(AreaOf(st2[Len(st)])),
           ~st[Len(st)].qg => pos2 = pos,
           GroupLevel(st, pos)
    PROVE  GroupLevel(st2, pos2)
  <1> DEFINE n == Len(st)
  <1>1. PICK m \in 1 .. n : GroupsTo(st, m) /\ pos = Pos(AreaOf(st[m])) BY DEF GroupLevel
  <1>2. st[n].qg <=> m = n BY <1>1, GroupsAtTop
  <1>3. \A i \in 1 .. n - 1 : st2[i].qg = st[i].qg BY DEF Kept
  <1>4. n \in Nat /\ n >= 1 /\ Len(st2) = n /\ st2[n].qg = st[n].qg OBVIOUS
  <1>5. Kept(st, st2, n - 1) OBVIOUS
  <1>6. /\ st[n].qg => pos2 = Pos(AreaOf(st2[n]))
        /\ ~st[n].qg => pos2 = pos
    OBVIOUS
  <1> HIDE DEF n
  <1>7. \A i \in 1 .. n : i \in 1 .. n - 1 \/ i = n BY <1>4
  <1>8. \A i \in 1 .. n : st2[i].qg = st[i].qg BY <1>3, <1>4, <1>7, Zenon
  <1>9. \A i \in 1 .. n : st[i].qg <=> i <= m BY <1>1, Zenon DEF GroupsTo, n
  <1>10. GroupsTo(st2, m) BY <1>1, <1>4, <1>8, <1>9, Zenon DEF GroupsTo
  <1>11. pos2 = Pos(AreaOf(st2[m]))
    <2>1. CASE m = n BY <1>2, <1>6, <2>1
    <2>2. CASE m # n
      <3>1. m \in 1 .. n - 1 /\ n - 1 \in Nat BY <1>1, <1>4, <2>2
      <3>2. AreaOf(st2[m]) = AreaOf(st[m]) BY <1>5, <3>1, KeptAreas
      <3> QED BY <1>1, <1>2, <1>6, <2>2, <3>2
    <2> QED BY <2>1, <2>2
  <1> QED BY <1>1, <1>4, <1>10, <1>11, Zenon DEF GroupLevel

LEMMA GroupsPopped ==
    ASSUME NEW st, NEW st2, NEW pos, NEW pos2, Len(st) \in Nat, Len(st) > 1,
           Len(st2) = Len(st) - 1, \A i \in 1 .. Len(st) - 1 : st2[i] = st[i],
           st2[Len(st) - 1].qg => pos2 = Pos(AreaOf(st2[Len(st) - 1])),
           ~st2[Len(st) - 1].qg => pos2 = pos,
           GroupLevel(st, pos)
    PROVE  /\ GroupLevel(st2, pos2)
           /\ ~st2[Len(st) - 1].qg => ~st[Len(st)].qg
  <1> DEFINE n == Len(st)
  <1>1. PICK m \in 1 .. n : GroupsTo(st, m) /\ pos = Pos(AreaOf(st[m])) BY DEF GroupLevel
  <1>2. st[n].qg <=> m = n
    <2>1. Len(st) >= 1 OBVIOUS
    <2> QED BY <1>1, <2>1, GroupsAtTop
  <1>3. n \in Nat /\ n > 1 /\ Len(st2) = n - 1 /\ \A i \in 1 .. n - 1 : st2[i] = st[i] OBVIOUS
  <1>4. /\ st2[n - 1].qg => pos2 = Pos(AreaOf(st2[n - 1]))
        /\ ~st2[n - 1].qg => pos2 = pos
    OBVIOUS
  <1>5. \A i \in 1 .. n : st[i].qg <=> i <= m BY <1>1, Zenon DEF GroupsTo
  <1> HIDE DEF n
  <1>6. \A i \in 1 .. n - 1 : i \in 1 .. n BY <1>3
  <1>7. \A i \in 1 .. n - 1 : st2[i].qg <=> i <= m BY <1>3, <1>5, <1>6, Zenon
  <1>8. n - 1 \in 1 .. n - 1 BY <1>3
  <1>9. CASE m >= n - 1
    <2>1. \A i \in 1 .. n - 1 : i <= m /\ i <= n - 1 BY <1>1, <1>3, <1>9
    <2>2. \A i \in 1 .. n - 1 : st2[i].qg <=> i <= n - 1 BY <1>7, <2>1, Zenon
    <2>3. GroupsTo(st2, n - 1) BY <1>3, <1>8, <2>2, Zenon DEF GroupsTo
    <2>4. st2[n - 1].qg BY <1>8, <1>7, <2>1
    <2>5. pos2 = Pos(AreaOf(st2[n - 1])) BY <1>4, <2>4
    <2> QED BY <1>3, <1>8, <2>3, <2>4, <2>5, Zenon DEF GroupLevel, n
  <1>10. CASE ~(m >= n - 1)
    <2>1. m \in 1 .. n - 1 /\ ~(n - 1 <= m) /\ m # n BY <1>1, <1>3, <1>10
    <2>2. GroupsTo(st2, m) BY <1>3, <1>7, <2>1, Zenon DEF GroupsTo
    <2>3. ~st2[n - 1].qg BY <1>7, <1>8, <2>1
    <2>4. pos2 = Pos(AreaOf(st2[m])) BY <1>1, <1>3, <1>4, <2>1, <2>3
    <2>5. ~st[n].qg BY <1>2, <2>1
    <2> QED BY <1>3, <2>1, <2>2, <2>4, <2>5, Zenon DEF GroupLevel, n
  <1> QED BY <1>9, <1>10

LEMMA GroupsInit == TreeInit => TGroups
  <1> SUFFICES ASSUME TreeInit PROVE TGroups OBVIOUS
  <1>1. /\ stack = <<Level("ctu", <<CtuArea>>, TRUE)>> /\ phase = "tree" /\ qgPos = Pos(CtuArea)
    BY DEF TreeInit
  <1>2. Len(stack) = 1 /\ AreaOf(stack[1]) = CtuArea BY <1>1, WayOfCtu, Zenon
  <1>3. stack[1].qg BY <1>1 DEF Level
  <1>4. 1 \in 1 .. 1 /\ \A i \in 1 .. 1 : i = 1 /\ i <= 1 OBVIOUS
  <1>5. GroupsTo(stack, 1) BY <1>2, <1>3, <1>4, Zenon DEF GroupsTo
  <1>6. GroupLevel(stack, qgPos) BY <1>1, <1>2, <1>4, <1>5, Zenon DEF GroupLevel
  <1>7. Top.qg BY <1>2, <1>3, Zenon DEF Top
  <1> QED BY <1>1, <1>6, <1>7, Zenon DEF TGroups, GroupLevel

LEMMA GroupsUnfold ==
    /\ TGroups => GroupLevel(stack, qgPos)
    /\ TGroups' => GroupLevel(stack', qgPos')
  BY Zenon DEF TGroups, GroupLevel

(* Where the last level starts a group, the group starts here.             *)
LEMMA GroupIsHere ==
    ASSUME Way(stack), TGroups, Top.qg
    PROVE  qgPos = Pos(CurrArea)
  <1>1. PICK m \in 1 .. Len(stack) : GroupsTo(stack, m) /\ qgPos = Pos(AreaOf(stack[m]))
    BY DEF TGroups
  <1>2. Len(stack) \in Nat /\ Len(stack) >= 1 /\ Top = stack[Len(stack)] /\ CurrArea = AreaOf(stack[Len(stack)])
    BY TopIsLast
  <1>3. m = Len(stack) BY <1>1, <1>2, GroupsAtTop
  <1> QED BY <1>1, <1>2, <1>3

LEMMA GroupsSplitCu == TWalk /\ TCoded /\ TGroups /\ SplitCu => TGroups'
  <1> SUFFICES ASSUME TWalk, TCoded, TGroups, SplitCu PROVE TGroups' OBVIOUS
  <1>1. phase = "tree" /\ qgStart' = (qgStart \/ Top.qg) /\ UNCHANGED <<coded, phase>>
    BY DEF SplitCu
  <1>2. /\ Len(stack') = Len(stack) + 1 /\ Kept(stack, stack', Len(stack))
        /\ Top' = stack'[Len(stack) + 1] /\ (Top'.qg => Top.qg)
        /\ Pos(CurrArea') = Pos(CurrArea)
        /\ qgPos' = IF Top'.qg THEN Pos(CurrArea') ELSE qgPos
    BY SplitCuArea
  <1>3. Way(stack) BY DEF TWalk, TShape
  <1>4. Len(stack) \in Nat /\ Len(stack) >= 1 /\ Top = stack[Len(stack)] BY <1>3, TopIsLast
  <1>5. CurrArea' = AreaOf(stack'[Len(stack) + 1]) BY <1>2, Zenon DEF CurrArea
  <1>6. GroupLevel(stack', qgPos')
    <2>1. GroupLevel(stack, qgPos) BY GroupsUnfold
    <2>2. stack'[Len(stack) + 1].qg => stack[Len(stack)].qg BY <1>2, <1>4, Zenon
    <2>3. stack'[Len(stack) + 1].qg => qgPos' = Pos(AreaOf(stack'[Len(stack) + 1]))
      BY <1>2, <1>5, Zenon
    <2>4. ~stack'[Len(stack) + 1].qg => qgPos' = qgPos BY <1>2, Zenon
    <2> QED BY <1>2, <1>4, <2>1, <2>2, <2>3, <2>4, GroupsPushed
  <1>7. /\ phase' = "tree" /\ coded' = coded /\ (qgStart' <=> qgStart \/ Top.qg) BY <1>1
  <1>8. Pos(CurrArea) \notin coded BY <1>1, TreeIsNew
  <1>9. ASSUME ~Top'.qg
        PROVE  (qgStart' <=> qgPos' \notin coded') /\ (qgStart' => Pos(CurrArea') = qgPos')
    <2>1. qgPos' = qgPos BY <1>2, <1>9
    <2>2. CASE Top.qg
      <3>1. qgPos = Pos(CurrArea) BY <1>3, <2>2, GroupIsHere
      <3> QED BY <1>2, <1>7, <1>8, <2>1, <2>2, <3>1, Zenon
    <2>3. CASE ~Top.qg
      <3>1. (qgStart <=> qgPos \notin coded) /\ (qgStart => Pos(CurrArea) = qgPos)
        BY <1>1, <2>3 DEF TGroups
      <3> QED BY <1>2, <1>7, <2>1, <2>3, <3>1, Zenon
    <2> QED BY <2>2, <2>3
  <1>10. phase' # "transform" BY <1>7
  <1> QED BY <1>6, <1>7, <1>9, <1>10, Zenon DEF TGroups, GroupLevel

LEMMA GroupsCodeCu == TWalk /\ TCoded /\ TGroups /\ CodeCu => TGroups'
  <1> SUFFICES ASSUME TWalk, TCoded, TGroups, CodeCu PROVE TGroups' OBVIOUS
  <1>1. /\ phase = "tree" /\ stack' = Cached /\ phase' = "transform" /\ qgStart' = FALSE
        /\ coded' = coded \cup MinBlocks(CurrArea) /\ UNCHANGED <<limits, extent, depth, qgPos>>
    BY DEF CodeCu
  <1>2. /\ Len(stack') = Len(stack) /\ Kept(stack, stack', Len(stack))
        /\ Top'.qg = Top.qg /\ CurrArea' = CurrArea
    BY <1>1, CachedArea
  <1>3. Way(stack) BY DEF TWalk, TShape
  <1>4. Len(stack) \in Nat BY <1>3, TopIsLast
  <1>5. GroupLevel(stack', qgPos')
    <2>1. GroupLevel(stack, qgPos) BY GroupsUnfold
    <2>2. GroupLevel(stack', qgPos) BY <1>2, <1>4, <2>1, GroupsKept
    <2> QED BY <1>1, <2>2
  <1>6. Pos(CurrArea) \in coded' BY <1>1, TreeIsNew
  <1>7. Pos(CurrArea') \in coded' BY <1>2, <1>6, Zenon
  <1>8. ASSUME ~Top'.qg PROVE qgPos' \in coded'
    <2>1. (qgStart <=> qgPos \notin coded) /\ (qgStart => Pos(CurrArea) = qgPos)
      BY <1>1, <1>2, <1>8 DEF TGroups
    <2> QED BY <1>1, <1>6, <2>1
  <1> QED BY <1>1, <1>5, <1>7, <1>8 DEF TGroups, GroupLevel

LEMMA GroupsSplitTu == TWalk /\ TCoded /\ TGroups /\ SplitTu => TGroups'
  <1> SUFFICES ASSUME TWalk, TCoded, TGroups, SplitTu PROVE TGroups' OBVIOUS
  <1>1. phase = "transform" /\ UNCHANGED <<qgStart, coded, phase>> BY DEF SplitTu
  <1>2. /\ Top.split \notin TuSplits /\ Len(stack') = Len(stack) + 1 /\ Kept(stack, stack', Len(stack))
        /\ Top' = stack'[Len(stack) + 1] /\ Top'.split \in TuSplits /\ (Top'.qg => Top.qg)
        /\ Pos(CurrArea') = Pos(CurrArea)
        /\ qgPos' = IF Top'.qg THEN Pos(CurrArea') ELSE qgPos
    BY SplitTuArea
  <1>3. Way(stack) BY DEF TWalk, TShape
  <1>4. Len(stack) \in Nat /\ Len(stack) >= 1 /\ Top = stack[Len(stack)] BY <1>3, TopIsLast
  <1>5. CurrArea' = AreaOf(stack'[Len(stack) + 1]) BY <1>2, Zenon DEF CurrArea
  <1>6. GroupLevel(stack', qgPos')
    <2>1. GroupLevel(stack, qgPos) BY GroupsUnfold
    <2>2. stack'[Len(stack) + 1].qg => stack[Len(stack)].qg BY <1>2, <1>4, Zenon
    <2>3. stack'[Len(stack) + 1].qg => qgPos' = Pos(AreaOf(stack'[Len(stack) + 1]))
      BY <1>2, <1>5, Zenon
    <2>4. ~stack'[Len(stack) + 1].qg => qgPos' = qgPos BY <1>2, Zenon
    <2> QED BY <1>2, <1>4, <2>1, <2>2, <2>3, <2>4, GroupsPushed
  <1>7. Pos(CurrArea) \in coded BY <1>1, <1>2 DEF TGroups
  <1>8. ASSUME ~Top'.qg PROVE qgPos' \in coded'
    <2>1. qgPos' = qgPos BY <1>2, <1>8
    <2>2. CASE Top.qg
      <3>1. qgPos = Pos(CurrArea) BY <1>3, <2>2, GroupIsHere
      <3> QED BY <1>1, <1>7, <2>1, <3>1
    <2>3. CASE ~Top.qg
      <3>1. qgPos \in coded BY <1>1, <2>3 DEF TGroups
      <3> QED BY <1>1, <2>1, <3>1
    <2> QED BY <2>2, <2>3
  <1>9. ~qgStart' /\ phase' = "transform" BY <1>1 DEF TGroups
  <1> QED BY <1>2, <1>6, <1>8, <1>9 DEF TGroups, GroupLevel

LEMMA GroupsCodeTu == TWalk /\ TCoded /\ TGroups /\ CodeTu => TGroups'
  <1> SUFFICES ASSUME TWalk, TCoded, TGroups, CodeTu PROVE TGroups' OBVIOUS
  <1>1. /\ phase = "transform" /\ stack' = Cached /\ phase' = "next"
        /\ UNCHANGED <<limits, extent, depth, qgPos, qgStart, coded>>
    BY DEF CodeTu
  <1>2. Len(stack') = Len(stack) /\ Kept(stack, stack', Len(stack)) /\ Top'.qg = Top.qg
    BY <1>1, CachedArea
  <1>3. Way(stack) BY DEF TWalk, TShape
  <1>4. Len(stack) \in Nat BY <1>3, TopIsLast
  <1>5. GroupLevel(stack', qgPos')
    <2>1. GroupLevel(stack, qgPos) BY GroupsUnfold
    <2>2. GroupLevel(stack', qgPos) BY <1>2, <1>4, <2>1, GroupsKept
    <2> QED BY <1>1, <2>2
  <1>6. ~qgStart /\ (~Top.qg => qgPos \in coded) BY <1>1 DEF TGroups
  <1>7. ~qgStart' /\ (~Top'.qg => qgPos' \in coded') BY <1>1, <1>2, <1>6
  <1> QED BY <1>1, <1>5, <1>7 DEF TGroups, GroupLevel

LEMMA GroupsToNextPart == TWalk /\ TCoded /\ TGroups /\ ToNextPart => TGroups'
  <1> SUFFICES ASSUME TWalk, TCoded, TGroups, ToNextPart PROVE TGroups' OBVIOUS
  <1>1. /\ phase = "next" /\ UNCHANGED <<qgStart, coded>>
        /\ phase' = IF Top.split \in TuSplits THEN "transform"
                    ELSE IF InPicture(Top.parts[Top.idx + 2]) THEN "tree" ELSE "next"
    BY DEF ToNextPart
  <1>2. /\ Len(stack') = Len(stack) /\ Kept(stack, stack', Len(stack) - 1)
        /\ stack'[Len(stack)].qg = stack[Len(stack)].qg
        /\ Top'.split = Top.split /\ Top'.qg = Top.qg
        /\ qgPos' = IF Top.qg THEN Pos(CurrArea') ELSE qgPos
    BY NextPartArea
  <1>3. Way(stack) BY DEF TWalk, TShape
  <1>4. Len(stack) \in Nat /\ Len(stack) >= 1 /\ Top = stack[Len(stack)] BY <1>3, TopIsLast
  <1>5. CurrArea' = AreaOf(stack'[Len(stack)]) BY <1>2, Zenon DEF CurrArea, Top
  <1>6. GroupLevel(stack', qgPos')
    <2>1. GroupLevel(stack, qgPos) BY GroupsUnfold
    <2>2. stack[Len(stack)].qg => qgPos' = Pos(AreaOf(stack'[Len(stack)])) BY <1>2, <1>4, <1>5, Zenon
    <2>3. ~stack[Len(stack)].qg => qgPos' = qgPos BY <1>2, <1>4, Zenon
    <2> QED BY <1>2, <1>4, <2>1, <2>2, <2>3, GroupsMoved
  <1>7. ~qgStart /\ (~Top.qg => qgPos \in coded) BY <1>1 DEF TGroups
  <1>8. ~qgStart' /\ (~Top'.qg => qgPos' \in coded') BY <1>1, <1>2, <1>7
  <1>9. phase' = "transform" => Top'.split \in TuSplits BY <1>1, <1>2
  <1> QED BY <1>6, <1>8, <1>9 DEF TGroups, GroupLevel

LEMMA GroupsLeaveSplit == TWalk /\ TCoded /\ TGroups /\ LeaveSplit => TGroups'
  <1> SUFFICES ASSUME TWalk, TCoded, TGroups, LeaveSplit PROVE TGroups' OBVIOUS
  <1>1. phase = "next" /\ Len(stack) > 1 /\ UNCHANGED <<qgStart, coded, phase>> BY DEF LeaveSplit
  <1>2. /\ Len(stack') = Len(stack) - 1 /\ \A i \in 1 .. Len(stack) - 1 : stack'[i] = stack[i]
        /\ Top' = stack[Len(stack) - 1]
        /\ qgPos' = IF Top'.qg THEN Pos(CurrArea') ELSE qgPos
    BY LeaveSplitWay
  <1>3. Way(stack) BY DEF TWalk, TShape
  <1>4. Len(stack) \in Nat /\ Top = stack[Len(stack)] BY <1>3, TopIsLast
  <1>5. Top' = stack'[Len(stack) - 1] /\ CurrArea' = AreaOf(stack'[Len(stack) - 1])
    BY <1>2, Zenon DEF CurrArea, Top
  <1>6. GroupLevel(stack', qgPos') /\ (~stack'[Len(stack) - 1].qg => ~stack[Len(stack)].qg)
    <2>1. GroupLevel(stack, qgPos) BY GroupsUnfold
    <2>2. stack'[Len(stack) - 1].qg => qgPos' = Pos(AreaOf(stack'[Len(stack) - 1]))
      BY <1>2, <1>5, Zenon
    <2>3. ~stack'[Len(stack) - 1].qg => qgPos' = qgPos BY <1>2, <1>5, Zenon
    <2> QED BY <1>1, <1>2, <1>4, <2>1, <2>2, <2>3, GroupsPopped
  <1>7. ~qgStart /\ (~Top.qg => qgPos \in coded) BY <1>1 DEF TGroups
  <1>8. ASSUME ~Top'.qg PROVE qgPos' \in coded'
    <2>1. ~Top.qg BY <1>4, <1>5, <1>6, <1>8, Zenon
    <2> QED BY <1>1, <1>2, <1>7, <1>8, <2>1
  <1>9. ~qgStart' /\ phase' = "next" BY <1>1, <1>7
  <1> QED BY <1>6, <1>8, <1>9 DEF TGroups, GroupLevel

LEMMA GroupsEndCtu == TGroups /\ EndCtu => TGroups'
  <1> SUFFICES ASSUME TGroups, EndCtu PROVE TGroups' OBVIOUS
  <1>1. /\ phase = "next" /\ phase' = "end" /\ UNCHANGED <<stack, qgPos, qgStart, coded>>
    BY DEF EndCtu
  <1> QED BY <1>1 DEF TGroups, Top, CurrArea

LEMMA GroupsStutter == TGroups /\ UNCHANGED treeVars => TGroups'
  BY DEF TGroups, treeVars, Top, CurrArea

LEMMA GroupsNext == TWalk /\ TCoded /\ TGroups /\ [TreeNext]_treeVars => TGroups'
  BY GroupsSplitCu, GroupsCodeCu, GroupsSplitTu, GroupsCodeTu, GroupsToNextPart, GroupsLeaveSplit,
     GroupsEndCtu, GroupsStutter DEF TreeNext

LEMMA GroupsAreRight == TWalk /\ TCoded /\ TGroups => GroupsStartOnce
  <1> SUFFICES ASSUME TWalk, TCoded, TGroups PROVE GroupsStartOnce OBVIOUS
  <1>1. Way(stack) BY DEF TWalk, TShape
  <1>2. Len(stack) \in Nat /\ DOMAIN stack = 1 .. Len(stack) BY <1>1, WayLevels DEF Way
  <1>3. qgPos = Pos(AreaOf(stack[Max({i \in DOMAIN stack : stack[i].qg})]))
    <2> DEFINE S == {i \in DOMAIN stack : stack[i].qg}
    <2>1. PICK m \in 1 .. Len(stack) : GroupsTo(stack, m) /\ qgPos = Pos(AreaOf(stack[m]))
      BY DEF TGroups
    <2>2. \A i : i \in S <=> i \in 1 .. Len(stack) /\ i <= m BY <1>2, <2>1, Zenon DEF GroupsTo
    <2> HIDE DEF S
    <2>3. m \in S /\ \A i \in S : m >= i /\ i \in Nat BY <1>2, <2>1, <2>2
    <2>4. \A y : y \in S /\ (\A i \in S : y >= i) => y = m
      <3>1. \A y \in S : y >= m /\ m >= y => y = m BY <1>2, <2>1, <2>3
      <3> QED BY <2>3, <3>1, Zenon
    <2>5. Max(S) = m BY <2>3, <2>4, Zenon DEF Max
    <2> QED BY <2>1, <2>5 DEF S
  <1>4. ASSUME phase = "tree" PROVE (qgStart \/ Top.qg) <=> qgPos \notin coded
    <2>1. CASE Top.qg
      <3>1. qgPos = Pos(CurrArea) BY <1>1, <2>1, GroupIsHere
      <3>2. Pos(CurrArea) \notin coded BY <1>4, TreeIsNew
      <3> QED BY <2>1, <3>1, <3>2
    <2>2. CASE ~Top.qg BY <1>4, <2>2 DEF TGroups
    <2> QED BY <2>1, <2>2
  <1> QED BY <1>3, <1>4, Zenon DEF GroupsStartOnce

(* currQgPos is where the quantisation group around the current area       *)
(* begins, and a new QP is predicted for the first CU of a group and for   *)
(* no other.                                                               *)
THEOREM TreeGroupsStartOnce == TreeSpec => []GroupsStartOnce
  <1>1. TreeInit => TWalk /\ TCoded /\ TGroups BY WalkInit, CodedInit, GroupsInit
  <1>2. TWalk /\ TCoded /\ TGroups /\ [TreeNext]_treeVars => TWalk' /\ TCoded' /\ TGroups'
    BY WalkNext, CodedNext, GroupsNext
  <1>3. TWalk /\ TCoded /\ TGroups => GroupsStartOnce BY GroupsAreRight
  <1> QED BY <1>1, <1>2, <1>3, PTL DEF TreeSpec
=============================================================================
