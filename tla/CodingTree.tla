------------------------------ MODULE CodingTree ------------------------------
(***************************************************************************)
(* The partitioning of a CTU: CABACReader::coding_tree and transform_tree, *)
(* walking with a QTBTPartitioner.  The partitioner is a stack of levels   *)
(* with one cursor each, and beside it depths and the position of the      *)
(* quantisation group, which every split, every step to the next part and  *)
(* every way back up changes by hand.  CABACWriter walks in the same way;  *)
(* which splits it may write, and what the reader makes of its bins, is    *)
(* split_cu_mode of the two.                                               *)
(*                                                                         *)
(* A CTU has at most 256 samples, so that MAX_TB_SIZEY never binds, and    *)
(* the chroma format is 4:2:0.  The tree of chroma (a dual tree in an      *)
(* intra slice of CTUs of 128 samples or less) differs in what it may      *)
(* split.  Contexts, the contents of CUs and the sub-partitions of ISP     *)
(* are left out, and of SBT only the split is kept.                        *)
(***************************************************************************)
EXTENDS Integers, Sequences, FiniteSets, FiniteSetsExt

CONSTANTS
    CtuSize,
    MinCbSize,      \* 1 << getLog2MinCodingBlockSize
    MaxTbSize,      \* getMaxTbSize
    Extents,        \* how much of the CTU the picture may take, either way
    Limits          \* [minQt, maxBt, maxTt, maxMtt, qgSubdiv]: the limits of a slice

MIN_TB_SIZEY == 4
MIN_DUALTREE_CHROMA_WIDTH == 4
MIN_DUALTREE_CHROMA_SIZE == 16

BlockSizes == {4, 8, 16, 32, 64, 128, 256}

(* What the parsing of the SPS checks: sizes are powers of two, those of   *)
(* pictures multiples of eight samples and of the least CU.                *)
ASSUME TreeAssumption ==
    /\ CtuSize \in {32, 64, 128, 256} /\ MaxTbSize \in {32, 64, 128, 256}
    /\ MinCbSize \in BlockSizes /\ MinCbSize <= CtuSize
    /\ \A e \in Extents : e \in 1 .. CtuSize /\ e % 8 = 0 /\ e % MinCbSize = 0
    /\ \A l \in Limits :
        /\ {l.minQt, l.maxBt, l.maxTt, l.maxMtt, l.qgSubdiv} \subseteq Nat
        /\ l.minQt >= MinCbSize /\ l.minQt <= CtuSize
        /\ l.maxBt >= l.minQt /\ l.maxTt >= l.minQt
        /\ l.maxMtt = 0 => l.maxBt = l.minQt /\ l.maxTt = l.minQt

VARIABLES
    limits,        \* those of the slice
    tree,          \* chType
    extent,        \* how much of the CTU is in the picture
    stack,         \* m_partStack
    depth,         \* currDepth, currQtDepth, currBtDepth, ...
    qgPos,         \* currQgPos
    qgStart,       \* cuCtx.qgStart
    sbt,           \* the SBT split of the CU, if any
    coded,         \* where CUs have been coded, in units of the least CU
    phase          \* what is done next with the current area

treeVars == <<limits, tree, extent, stack, depth, qgPos, qgStart, sbt, coded, phase>>

----------------------------------------------------------------------------
(* Areas and parts *)

(* The parts of a split, each by its place and size in quarters. *)
Quarters ==
    [quad |-> <<<<0, 0, 2, 2>>, <<2, 0, 2, 2>>, <<0, 2, 2, 2>>, <<2, 2, 2, 2>>>>,
     horz |-> <<<<0, 0, 4, 2>>, <<0, 2, 4, 2>>>>,
     vert |-> <<<<0, 0, 2, 4>>, <<2, 0, 2, 4>>>>,
     trih |-> <<<<0, 0, 4, 1>>, <<0, 1, 4, 2>>, <<0, 3, 4, 1>>>>,
     triv |-> <<<<0, 0, 1, 4>>, <<1, 0, 2, 4>>, <<3, 0, 1, 4>>>>,
     sbtVerHalf |-> <<<<0, 0, 2, 4>>, <<2, 0, 2, 4>>>>,
     sbtHorHalf |-> <<<<0, 0, 4, 2>>, <<0, 2, 4, 2>>>>,
     sbtVerQuad0 |-> <<<<0, 0, 1, 4>>, <<1, 0, 3, 4>>>>,
     sbtVerQuad1 |-> <<<<0, 0, 3, 4>>, <<3, 0, 1, 4>>>>,
     sbtHorQuad0 |-> <<<<0, 0, 4, 1>>, <<0, 1, 4, 3>>>>,
     sbtHorQuad1 |-> <<<<0, 0, 4, 3>>, <<0, 3, 4, 1>>>>]

BtSplits == {"horz", "vert"}
TtSplits == {"trih", "triv"}
MtSplits == BtSplits \cup TtSplits
CuSplits == MtSplits \cup {"quad"}
SbtSplits == {"sbtVerHalf", "sbtHorHalf", "sbtVerQuad0", "sbtVerQuad1",
              "sbtHorQuad0", "sbtHorQuad1"}
TuSplits == SbtSplits \cup {"maxTr"}

(* getMaxTuTiling: tiles of the largest transform, row by row. *)
MaxTuTiling(a) ==
    LET AtLeastOne(n) == IF n = 0 THEN 1 ELSE n
        h == AtLeastOne(a.w \div MaxTbSize)
        v == AtLeastOne(a.h \div MaxTbSize)
    IN  [i \in 1 .. h * v |->
            [x |-> a.x + (a.w \div h) * ((i - 1) % h), y |-> a.y + (a.h \div v) * ((i - 1) \div h),
             w |-> a.w \div h, h |-> a.h \div v]]

SubParts(a, s) ==
    IF s = "maxTr" THEN MaxTuTiling(a)
    ELSE [i \in DOMAIN Quarters[s] |->
            LET q == Quarters[s][i]
            IN  [x |-> a.x + (a.w * q[1]) \div 4, y |-> a.y + (a.h * q[2]) \div 4,
                 w |-> (a.w * q[3]) \div 4, h |-> (a.h * q[4]) \div 4]]

Pos(a) == [x |-> a.x, y |-> a.y]

(* Mutant: the sample past the border counts as one of the picture.        *)
InPictureWithBorder(p) == p.x <= extent.x /\ p.y <= extent.y
InPicture(p) == p.x < extent.x /\ p.y < extent.y
(* bottomLeft and topRight of an area that starts in the picture. *)
BlInPic(a) == InPicture([x |-> a.x, y |-> a.y + a.h - 1])
TrInPic(a) == InPicture([x |-> a.x + a.w - 1, y |-> a.y])

Level(s, parts, qg) == [split |-> s, parts |-> parts, idx |-> 0, implicit |-> "unchecked", qg |-> qg]
Top == stack[Len(stack)]
AreaOf(level) == level.parts[level.idx + 1]
CurrArea == AreaOf(Top)

----------------------------------------------------------------------------
(* What may be split *)

(* Mutant: splits the border forces count like any other.                  *)
MaxBtDepthPlain == limits.maxMtt

MaxBtDepth == limits.maxMtt + depth.implicitBt

GetImplicitSplit ==
    LET a == CurrArea
        isBtAllowed == a.w <= limits.maxBt /\ a.h <= limits.maxBt /\ depth.mt < MaxBtDepth
        isQtAllowed == a.w > limits.minQt /\ a.h > limits.minQt /\ depth.bt = 0
    IN  IF ~BlInPic(a) /\ ~TrInPic(a) /\ isQtAllowed THEN "quad"
        ELSE IF ~BlInPic(a) /\ isBtAllowed THEN "horz"
        ELSE IF ~TrInPic(a) /\ isBtAllowed THEN "vert"
        ELSE IF ~BlInPic(a) \/ ~TrInPic(a) THEN "quad"
        ELSE "none"

(* getImplicitSplit with its cache in the level. *)
Implicit == IF Top.implicit = "unchecked" THEN GetImplicitSplit ELSE Top.implicit

(* The size of the chroma block, where the tree is one of chroma. *)
ChromaAbove(size) == tree = "chroma" => (CurrArea.w \div 2) * (CurrArea.h \div 2) > size

CanQt ==
    /\ Top.split \in {"ctu", "quad"}
    /\ CurrArea.w > limits.minQt
    /\ tree = "chroma" => CurrArea.w \div 2 > MIN_DUALTREE_CHROMA_WIDTH

CanBtt ==
    LET a == CurrArea
        Exceeds(max) == a.w > max \/ a.h > max
    IN  /\ depth.mt < MaxBtDepth
        /\ Exceeds(MinCbSize)
        /\ ~(Exceeds(limits.maxBt) /\ Exceeds(limits.maxTt))

(* The middle part of three is not halved in the same direction. *)
MiddleOf(s) == Top.split = s /\ Top.idx = 1

CanBt(side, sameTt) ==
    /\ CanBtt /\ ~MiddleOf(sameTt)
    /\ CurrArea.w <= limits.maxBt /\ CurrArea.h <= limits.maxBt
    /\ side > MinCbSize
    /\ ChromaAbove(MIN_DUALTREE_CHROMA_SIZE)

CanTt(side) ==
    /\ CanBtt
    /\ CurrArea.w <= limits.maxTt /\ CurrArea.h <= limits.maxTt
    /\ side > 2 * MinCbSize
    /\ ChromaAbove(2 * MIN_DUALTREE_CHROMA_SIZE)

(* canSplit: the splits, and "none", that are possible here. *)
CanSplit ==
    LET quad == IF CanQt THEN {"quad"} ELSE {}
        implicit == quad \cup ({Implicit} \cap BtSplits)
    IN  IF Implicit # "none" THEN IF implicit = {} THEN {"quad"} ELSE implicit
        ELSE {"none"} \cup quad
                \cup {s \in BtSplits : IF s = "horz" THEN CanBt(CurrArea.h, "trih")
                                       ELSE CanBt(CurrArea.w, "triv")}
                \cup {s \in TtSplits : CanTt(IF s = "trih" THEN CurrArea.h ELSE CurrArea.w)}

----------------------------------------------------------------------------
(* split_cu_mode: the bins of a split among those that are possible *)

Horizontal == {"horz", "trih"}
Vertical == {"vert", "triv"}
Bin(isCoded, value) == IF isCoded THEN <<value>> ELSE <<>>

WriteSplit(can, s) ==
    LET isVer == s \in Vertical
        can14 == (IF isVer THEN "triv" ELSE "trih") \in can
        can12 == (IF isVer THEN "vert" ELSE "horz") \in can
    IN  Bin("none" \in can /\ can \cap CuSplits # {}, s # "none")
        \o IF s = "none" THEN <<>>
           ELSE Bin("quad" \in can /\ can \cap MtSplits # {}, s = "quad")
                \o IF s = "quad" THEN <<>>
                   ELSE Bin(can \cap Vertical # {} /\ can \cap Horizontal # {}, isVer)
                        \o Bin(can12 /\ can14, s \in BtSplits)

(* A bin is read where there is a choice: [v |-> its value, rest |-> the others]. *)
ReadBin(bins, isCoded, inferred) ==
    IF isCoded THEN [v |-> Head(bins), rest |-> Tail(bins)] ELSE [v |-> inferred, rest |-> bins]

(* Mutant: whether a split is in two is inferred from horizontal ones.     *)
ReadSplitHorizontalOnly(can, bins) ==
    LET canSplit == can \cap CuSplits # {}
        split == ReadBin(bins, "none" \in can /\ canSplit, canSplit)
        isQt == ReadBin(split.rest, "quad" \in can /\ can \cap MtSplits # {}, "quad" \in can)
        isVer == ReadBin(isQt.rest, can \cap Vertical # {} /\ can \cap Horizontal # {},
                         can \cap Vertical # {})
        is12 == ReadBin(isVer.rest, "horz" \in can /\ "trih" \in can, "horz" \in can)
    IN  IF ~split.v THEN [split |-> "none", rest |-> split.rest]
        ELSE IF isQt.v THEN [split |-> "quad", rest |-> isQt.rest]
        ELSE [split |-> IF is12.v THEN IF isVer.v THEN "vert" ELSE "horz"
                        ELSE IF isVer.v THEN "triv" ELSE "trih", rest |-> is12.rest]

ReadSplit(can, bins) ==
    LET canSplit == can \cap CuSplits # {}
        split == ReadBin(bins, "none" \in can /\ canSplit, canSplit)
        isQt == ReadBin(split.rest, "quad" \in can /\ can \cap MtSplits # {}, "quad" \in can)
        isVer == ReadBin(isQt.rest, can \cap Vertical # {} /\ can \cap Horizontal # {},
                         can \cap Vertical # {})
        can12 == (IF isVer.v THEN "vert" ELSE "horz") \in can
        can14 == (IF isVer.v THEN "triv" ELSE "trih") \in can
        is12 == ReadBin(isVer.rest, can12 /\ can14, can12)
    IN  IF ~split.v THEN [split |-> "none", rest |-> split.rest]
        ELSE IF isQt.v THEN [split |-> "quad", rest |-> isQt.rest]
        ELSE [split |-> IF is12.v THEN IF isVer.v THEN "vert" ELSE "horz"
                        ELSE IF isVer.v THEN "triv" ELSE "trih", rest |-> is12.rest]

----------------------------------------------------------------------------
(* The steps of the partitioner *)

(* Mutant: every part moves the group.                                     *)
GroupAtEveryPart(level) == Pos(AreaOf(level))

(* currQgPos after coming to a part of a level. *)
GroupAt(level) == IF level.qg THEN Pos(AreaOf(level)) ELSE qgPos

Cached == [stack EXCEPT ![Len(stack)].implicit = Implicit]
Twice(s) == IF s \in TtSplits THEN 2 ELSE 1

(* splitCurrArea: outer parts of three count twice. *)
SplitCurrArea(s) ==
    LET isMt == s \in MtSplits
        subdiv == depth.subdiv + (IF s = "quad" THEN 2 ELSE Twice(s))
        level == Level(s, SubParts(CurrArea, s), Top.qg /\ subdiv <= limits.qgSubdiv)
    IN  /\ stack' = Append(Cached, level)
        /\ depth' = [depth EXCEPT
                !.all = @ + 1, !.subdiv = subdiv,
                !.tr = IF s \in TuSplits THEN @ + 1 ELSE 0,
                !.qt = IF s = "quad" THEN @ + 1 ELSE @,
                !.bt = IF isMt THEN @ + Twice(s) ELSE IF s = "quad" THEN 0 ELSE @,
                !.mt = IF isMt THEN @ + 1 ELSE IF s = "quad" THEN 0 ELSE @,
                !.implicitBt = IF isMt /\ s = Implicit THEN @ + 1 ELSE @]
        /\ qgPos' = GroupAt(level)

(* Mutant: the way up takes the last part of three for the middle one.     *)
ExitAsMiddle(s) == 1

(* How much the way up takes back of currBtDepth: idx is past the last part. *)
ExitBy(s) == Twice(s)

ExitCurrSplit ==
    LET s == Top.split
        parent == stack[Len(stack) - 1]
        isMt == s \in MtSplits
        wasImplicit == parent.implicit \notin {"unchecked", "none"}
    IN  /\ stack' = SubSeq(stack, 1, Len(stack) - 1)
        /\ depth' = [depth EXCEPT
                !.all = @ - 1,
                !.subdiv = @ - (IF isMt THEN ExitBy(s) ELSE IF s = "quad" THEN 2 ELSE 1),
                !.tr = IF s \in TuSplits THEN @ - 1 ELSE @,
                !.qt = IF s = "quad" THEN @ - 1 ELSE @,
                !.bt = IF isMt THEN @ - ExitBy(s) ELSE @,
                !.mt = IF isMt THEN @ - 1 ELSE @,
                !.implicitBt = IF isMt /\ wasImplicit THEN @ - 1 ELSE @]
        /\ qgPos' = GroupAt(parent)

(* nextPart, where there is one: the middle part of three counts once. *)
NextPart ==
    LET level == [Top EXCEPT !.idx = @ + 1, !.implicit = "unchecked"]
        by == IF Top.split \notin TtSplits THEN 0 ELSE IF level.idx = 1 THEN -1 ELSE 1
    IN  /\ stack' = [stack EXCEPT ![Len(stack)] = level]
        /\ depth' = [depth EXCEPT !.bt = @ + by, !.subdiv = @ + by]
        /\ qgPos' = GroupAt(level)

----------------------------------------------------------------------------
(* The walk *)

CtuArea == [x |-> 0, y |-> 0, w |-> CtuSize, h |-> CtuSize]

(* initCtu *)
TreeInit ==
    /\ limits \in Limits /\ tree \in {"luma", "chroma"}
    /\ extent \in [x : Extents, y : Extents]
    /\ stack = <<Level("ctu", <<CtuArea>>, TRUE)>>
    /\ depth = [all |-> 0, qt |-> 0, bt |-> 0, mt |-> 0, tr |-> 0, subdiv |-> 0, implicitBt |-> 0]
    /\ qgPos = Pos(CtuArea) /\ qgStart = FALSE
    /\ sbt = "none" /\ coded = {} /\ phase = "tree"

MinBlocks(a) ==
    {[x |-> a.x + MinCbSize * i, y |-> a.y + MinCbSize * j] :
        i \in 0 .. a.w \div MinCbSize - 1, j \in 0 .. a.h \div MinCbSize - 1}

(* coding_tree with a split; every node may start a quantisation group. *)
SplitCu ==
    /\ phase = "tree"
    /\ \E s \in CanSplit \ {"none"} : SplitCurrArea(s)
    /\ qgStart' = (qgStart \/ Top.qg)
    /\ UNCHANGED <<limits, tree, extent, sbt, coded, phase>>

(* checkAllowedSbt, for a CU that is not intra: a half of at least four    *)
(* samples, a quarter likewise, and no CU that is tiled anyway.            *)
SbtAllowed(a) ==
    IF tree = "chroma" \/ a.w > MaxTbSize \/ a.h > MaxTbSize THEN {}
    ELSE {s \in SbtSplits :
            /\ s = "sbtVerHalf" => a.w >= 8
            /\ s = "sbtHorHalf" => a.h >= 8
            /\ s \in {"sbtVerQuad0", "sbtVerQuad1"} => a.w >= 16
            /\ s \in {"sbtHorQuad0", "sbtHorQuad1"} => a.h >= 16}

(* coding_tree with a CU: the first of a group predicts its QP. *)
CodeCu ==
    /\ phase = "tree" /\ "none" \in CanSplit
    /\ stack' = Cached
    /\ coded' = coded \cup MinBlocks(CurrArea)
    /\ qgStart' = FALSE
    /\ sbt' \in {"none"} \cup SbtAllowed(CurrArea)
    /\ phase' = "transform"
    /\ UNCHANGED <<limits, tree, extent, depth, qgPos>>

(* transform_tree: a CU above the largest transform is tiled, else SBT     *)
(* splits it once.                                                         *)
AboveMaxTr == CurrArea.w > MaxTbSize \/ CurrArea.h > MaxTbSize
SplitTu ==
    /\ phase = "transform" /\ (AboveMaxTr \/ (sbt # "none" /\ depth.tr = 0))
    /\ SplitCurrArea(IF AboveMaxTr THEN "maxTr" ELSE sbt)
    /\ UNCHANGED <<limits, tree, extent, qgStart, sbt, coded, phase>>

CodeTu ==
    /\ phase = "transform" /\ ~AboveMaxTr /\ (sbt = "none" \/ depth.tr > 0)
    /\ stack' = Cached /\ phase' = "next"
    /\ UNCHANGED <<limits, tree, extent, depth, qgPos, qgStart, sbt, coded>>

(* The part after this one, skipped by coding_tree outside the picture. *)
ToNextPart ==
    /\ phase = "next" /\ Len(stack) > 1 /\ Top.idx + 1 < Len(Top.parts)
    /\ NextPart
    /\ phase' = IF Top.split \in TuSplits THEN "transform"
                ELSE IF InPicture(Top.parts[Top.idx + 2]) THEN "tree" ELSE "next"
    /\ UNCHANGED <<limits, tree, extent, qgStart, sbt, coded>>

LeaveSplit ==
    /\ phase = "next" /\ Len(stack) > 1 /\ Top.idx + 1 = Len(Top.parts)
    /\ ExitCurrSplit
    /\ UNCHANGED <<limits, tree, extent, qgStart, sbt, coded, phase>>

EndCtu ==
    /\ phase = "next" /\ Len(stack) = 1
    /\ phase' = "end"
    /\ UNCHANGED <<limits, tree, extent, stack, depth, qgPos, qgStart, sbt, coded>>

TreeNext == SplitCu \/ CodeCu \/ SplitTu \/ CodeTu \/ ToNextPart \/ LeaveSplit \/ EndCtu

TreeSpec == TreeInit /\ [][TreeNext]_treeVars

----------------------------------------------------------------------------
(* Properties *)

(* Every split that is possible comes back from its bins, with none left:  *)
(* reader and writer infer the same where they code nothing.               *)
SplitComesBack ==
    phase = "tree" =>
        \A s \in CanSplit :
            ReadSplit(CanSplit, WriteSplit(CanSplit, s)) = [split |-> s, rest |-> <<>>]

Inside(a, b) == a.x >= b.x /\ a.y >= b.y /\ a.x + a.w <= b.x + b.w /\ a.y + a.h <= b.y + b.h
Disjoint(a, b) ==
    a.x + a.w <= b.x \/ b.x + b.w <= a.x \/ a.y + a.h <= b.y \/ b.y + b.h <= a.y
Covers(a, p) == p.x \in a.x .. a.x + a.w - 1 /\ p.y \in a.y .. a.y + a.h - 1
MinTbs(a) ==
    {[x |-> a.x + MIN_TB_SIZEY * i, y |-> a.y + MIN_TB_SIZEY * j] :
        i \in 0 .. a.w \div MIN_TB_SIZEY - 1, j \in 0 .. a.h \div MIN_TB_SIZEY - 1}

(* The CUs tile the part of the CTU that is in the picture: what is coded  *)
(* next is not coded yet, a CU is never asked for across the border of the *)
(* picture, the parts of a split tile their area, and nothing of the CTU   *)
(* is left in the end.                                                     *)
CtuIsTiled ==
    /\ phase = "tree" => MinBlocks(CurrArea) \cap coded = {}
    /\ phase = "tree" /\ "none" \in CanSplit =>
            CurrArea.x + CurrArea.w <= extent.x /\ CurrArea.y + CurrArea.h <= extent.y
    /\ Len(stack) > 1 =>
            LET area == AreaOf(stack[Len(stack) - 1]) parts == Top.parts
            IN  /\ \A i, j \in DOMAIN parts : i = j \/ Disjoint(parts[i], parts[j])
                /\ \A i \in DOMAIN parts : Inside(parts[i], area)
                /\ \A p \in MinTbs(area) : \E i \in DOMAIN parts : Covers(parts[i], p)
    /\ phase = "end" => coded = MinBlocks([x |-> 0, y |-> 0, w |-> extent.x, h |-> extent.y])

FloorLog2(n) == CHOOSE k \in 2 .. 8 : n = 2 ^ k

(* No split the partitioner makes fails its CHECKs: no part is smaller     *)
(* than a transform block or a CU than the least CU, no quad split follows *)
(* one in two or three.  Every split leaves half an area or less, so that  *)
(* those of a CTU of 256 samples, 12 at most, fit into splitSeries: five   *)
(* bits each (SPLIT_DMULT) of 64.                                          *)
SplitsAreLegal ==
    /\ \A i \in DOMAIN stack :
        /\ stack[i].split \in CuSplits =>
            \A k \in DOMAIN stack[i].parts :
                stack[i].parts[k].w >= MinCbSize /\ stack[i].parts[k].h >= MinCbSize
        /\ stack[i].split = "quad" => \A j \in 1 .. i - 1 : stack[j].split \notin MtSplits
    /\ depth.tr = 0 => FloorLog2(CurrArea.w) + FloorLog2(CurrArea.h) + Len(stack) - 1
                            <= 2 * FloorLog2(CtuSize)

LevelsWith(S) == {i \in 2 .. Len(stack) : stack[i].split \in S}
CrossesBorder(a) == ~BlInPic(a) \/ ~TrInPic(a)
OuterLevels == {i \in LevelsWith(TtSplits) : stack[i].idx # 1}

(* The depths that are counted up and down along the walk are those of the *)
(* way from the CTU to the current area, after any number of splits and    *)
(* returns, and the implicit split that is kept is that of the area.       *)
CountersFollowPath ==
    /\ depth.all = Len(stack) - 1
    /\ depth.qt = Cardinality(LevelsWith({"quad"}))
    /\ depth.mt = Cardinality(LevelsWith(MtSplits))
    /\ depth.tr = Cardinality(LevelsWith(TuSplits))
    /\ depth.bt = depth.mt + Cardinality(OuterLevels)
    /\ depth.subdiv = 2 * depth.qt + depth.bt + depth.tr
    /\ depth.implicitBt =
            Cardinality({i \in LevelsWith(MtSplits) : CrossesBorder(AreaOf(stack[i - 1]))})
    /\ Top.implicit \in {"unchecked", GetImplicitSplit}

(* Quantisation groups: currQgPos is where the least group around the      *)
(* current area starts, and a CU predicts a new QP exactly when it is the  *)
(* first of its group.                                                     *)
GroupsStartOnce ==
    /\ qgPos = Pos(AreaOf(stack[Max({i \in DOMAIN stack : stack[i].qg})]))
    /\ phase = "tree" => ((qgStart \/ Top.qg) <=> qgPos \notin coded)
=============================================================================
