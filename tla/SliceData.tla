------------------------------ MODULE SliceData ------------------------------
(***************************************************************************)
(* The CTUs of a slice: EncSlice::encodeSlice and DecSlice::decompressSlice *)
(* walk over them and each decides, in its own way, where the context      *)
(* states start anew or from those of the row above, where a substream     *)
(* ends, and from which QP the next one is predicted; the slice header has *)
(* counted the substreams before (setNumSubstream, setNumEntryPoints).     *)
(*                                                                         *)
(* One action codes a CTU and decodes it.  The states of the contexts are  *)
(* named by the CTUs they have been adapted to.  A CTU is one quantisation *)
(* group, a slice is a run of whole tiles or of CTU rows of a tile, and    *)
(* entry points are present: without them the decoder takes the whole      *)
(* slice for one substream.                                                *)
(***************************************************************************)
EXTENDS Integers, FiniteSets

CONSTANTS
    WidthInCtus, HeightInCtus,
    MaxQp,         \* MAX_QP
    QpBdOffset,    \* qpBdOffsetY
    CodedQps       \* the QPs the encoder may choose

Qp == -QpBdOffset .. MaxQp

ASSUME SliceAssumption ==
    /\ WidthInCtus \in Nat \ {0} /\ HeightInCtus \in Nat \ {0}
    /\ MaxQp \in Nat /\ MaxQp % 2 = 1 /\ QpBdOffset \in Nat /\ QpBdOffset % 2 = 0
    /\ CodedQps \subseteq Qp

VARIABLES
    tileCols, tileRows,   \* where tiles start
    wavefront,    \* sps_entropy_coding_sync_enabled_flag
    sliceCtus,    \* the CTUs of the slice
    sliceQp,
    next,         \* ctuIdx of the next CTU
    encCtx, decCtx,       \* the contexts' states
    encSync, decSync,     \* m_entropyCodingSyncContextState
    encSub, decSub,       \* uiSubStrm, subStrmId
    lut,          \* motionLut: the CTUs whose motion is in it
    choicePrev, encPrev, decPrev,   \* prevQP when QPs are chosen, coded, decoded
    encQp, decQp          \* cu.qp of the CTUs coded

shape == <<tileCols, tileRows, wavefront, sliceCtus, sliceQp>>
sliceVars == <<shape, next, encCtx, decCtx, encSync, decSync, encSub, decSub, lut,
               choicePrev, encPrev, decPrev, encQp, decQp>>

----------------------------------------------------------------------------
Ctu == [x : 0 .. WidthInCtus - 1, y : 0 .. HeightInCtus - 1]

(* ctuToTileColBd, ctuToTileRowBd; a tile is named by its first CTU. *)
TileColBd(x) == CHOOSE b \in tileCols : b <= x /\ \A a \in tileCols : a <= x => a <= b
TileRowBd(y) == CHOOSE b \in tileRows : b <= y /\ \A a \in tileRows : a <= y => a <= b
Tile(c) == [x |-> TileColBd(c.x), y |-> TileRowBd(c.y)]

Raster(c) == c.y * WidthInCtus + c.x
Before(c, d) ==
    IF Tile(c) = Tile(d) THEN Raster(c) < Raster(d) ELSE Raster(Tile(c)) < Raster(Tile(d))

NumCtuInSlice == Cardinality(sliceCtus)
CtuInSlice(k) == CHOOSE c \in sliceCtus : Cardinality({d \in sliceCtus : Before(d, c)}) = k

StartsTile(c) == c = Tile(c)
StartsRow(c) == c.x = TileColBd(c.x)
Above(c) == [x |-> c.x, y |-> c.y - 1]

(* getCURestricted for the CTU above: it is in the same slice and tile. *)
TopAvailable(c) == Above(c) \in sliceCtus /\ Tile(Above(c)) = Tile(c)

(* setNumEntryPoints; setNumSubstream counts the same CTUs by their place. *)
NumEntryPoints ==
    Cardinality({k \in 1 .. NumCtuInSlice - 1 :
        LET c == CtuInSlice(k) p == CtuInSlice(k - 1)
        IN  Tile(c) # Tile(p) \/ (c.y # p.y /\ wavefront)})
NumSubstream ==
    Cardinality({k \in 1 .. NumCtuInSlice - 1 :
        LET c == CtuInSlice(k) IN StartsRow(c) /\ (c.y = TileRowBd(c.y) \/ wavefront)})

----------------------------------------------------------------------------
(* Mutant: a row starts from the row above whatever slice it belongs to.   *)
EntryContextsUnrestricted(c, ctx, sync) ==
    IF StartsTile(c) THEN {}
    ELSE IF StartsRow(c) /\ wavefront THEN sync
    ELSE ctx

(* Mutant: the motion of the row before is forgotten at tiles only.        *)
MotionBeforeInTile(c, cands) == IF StartsTile(c) THEN {} ELSE cands

(* The motion candidates a CTU starts from: every row of a tile has none.  *)
MotionBefore(c, cands) == IF StartsRow(c) THEN {} ELSE cands

(* The contexts a CTU starts from, in both.  The first CTU of the slice    *)
(* finds them initialised already.                                         *)
EntryContexts(c, ctx, sync) ==
    IF StartsTile(c) THEN {}
    ELSE IF StartsRow(c) /\ wavefront THEN IF TopAvailable(c) THEN sync ELSE {}
    ELSE ctx

Synced(c, ctx, sync) == IF StartsRow(c) /\ wavefront THEN ctx ELSE sync

(* encodeSlice looks at the next CTU of the slice, decompressSlice at the  *)
(* borders of the tile.  Mutant: a tile that ends within the slice is      *)
(* overlooked where its last row is not the last one of the wavefront.     *)
DecEndsAtBorder(k) ==
    LET c == CtuInSlice(k) right == [x |-> c.x + 1, y |-> c.y]
    IN  k + 1 = NumCtuInSlice \/ (right.x \in tileCols \cup {WidthInCtus} /\ wavefront)

EncEnds(k) ==
    \/ k + 1 = NumCtuInSlice
    \/ LET c == CtuInSlice(k) d == CtuInSlice(k + 1)
       IN  Tile(c) # Tile(d) \/ (wavefront /\ StartsRow(d))
DecEnds(k) ==
    LET c == CtuInSlice(k)
    IN  \/ k + 1 = NumCtuInSlice
        \/ /\ c.x + 1 \in tileCols \cup {WidthInCtus}
           /\ c.y + 1 \in tileRows \cup {HeightInCtus} \/ wavefront

----------------------------------------------------------------------------
(* predictQP for the first quantisation group of a CTU. *)
PredictQp(c, prevQp, qps) == IF StartsRow(c) /\ TopAvailable(c) THEN qps[Above(c)] ELSE prevQp

(* cu_qp_delta of CABACWriter and of CABACReader.  Mutant: the delta is    *)
(* not wrapped into half the range.                                        *)
DeltaOfUnwrapped(qp, pred) == IF qp - pred > MaxQp THEN MaxQp ELSE qp - pred
DeltaOf(qp, pred) ==
    ((qp - pred + (MaxQp + 1) + (MaxQp + 1) \div 2 + QpBdOffset + QpBdOffset \div 2)
        % (MaxQp + 1 + QpBdOffset))
    - (MaxQp + 1) \div 2 - QpBdOffset \div 2

QpOf(delta, pred) ==
    IF delta = 0 THEN pred
    ELSE ((pred + delta + (MaxQp + 1) + 2 * QpBdOffset) % (MaxQp + 1 + QpBdOffset)) - QpBdOffset

(* The QP before the CTU: reset by the decoder and by the search of the    *)
(* encoder (encodeCtus), not by encodeSlice.                               *)
EntryQp(c, prevQp) ==
    IF StartsTile(c) \/ (StartsRow(c) /\ wavefront) THEN sliceQp ELSE prevQp

(* What an earlier slice has left in m_entropyCodingSyncContextState. *)
LeftOver == {[x |-> -1, y |-> -1]}

Extended(f, c, v) == [d \in DOMAIN f \cup {c} |-> IF d = c THEN v ELSE f[d]]

(* The QP is signalled (coded) or, without residual, the predicted one.    *)
CodeQp(c, coded, chosen) ==
    LET predicted == PredictQp(c, EntryQp(c, choicePrev), encQp)
        qp == IF coded THEN chosen ELSE predicted
        encPred == PredictQp(c, encPrev, encQp)
        decPred == PredictQp(c, EntryQp(c, decPrev), decQp)
        got == IF coded THEN QpOf(DeltaOf(qp, encPred), decPred) ELSE decPred
    IN  /\ choicePrev' = qp
        /\ encPrev' = IF coded THEN qp ELSE encPred
        /\ decPrev' = got
        /\ encQp' = Extended(encQp, c, qp)
        /\ decQp' = Extended(decQp, c, got)

CodeCtu(coded, chosen) ==
    /\ next < NumCtuInSlice
    /\ LET c == CtuInSlice(next)
       IN  /\ encCtx' = EntryContexts(c, encCtx, encSync) \cup {c}
           /\ decCtx' = EntryContexts(c, decCtx, decSync) \cup {c}
           /\ encSync' = Synced(c, encCtx', encSync)
           /\ decSync' = Synced(c, decCtx', decSync)
           /\ lut' = MotionBefore(c, lut) \cup {c}
           /\ CodeQp(c, coded, chosen)
    /\ encSub' = IF EncEnds(next) THEN encSub + 1 ELSE encSub
    /\ decSub' = IF DecEnds(next) THEN decSub + 1 ELSE decSub
    /\ next' = next + 1
    /\ UNCHANGED shape

(* Slices of whole tiles, in raster order of the tiles; slices in a tile.  *)
TilesFrom(first, last) ==
    {c \in Ctu : Raster(first) <= Raster(Tile(c)) /\ Raster(Tile(c)) <= Raster(last)}
RowsOfTile(tile, a, b) == {c \in Ctu : Tile(c) = tile /\ a <= c.y /\ c.y <= b}

SliceInit ==
    /\ tileCols \in {S \in SUBSET (0 .. WidthInCtus - 1) : 0 \in S}
    /\ tileRows \in {S \in SUBSET (0 .. HeightInCtus - 1) : 0 \in S}
    /\ wavefront \in BOOLEAN
    /\ LET tiles == {Tile(c) : c \in Ctu}
       IN  \/ \E f, l \in tiles : Raster(f) <= Raster(l) /\ sliceCtus = TilesFrom(f, l)
           \/ \E t \in tiles, a, b \in 0 .. HeightInCtus - 1 :
                  a <= b /\ sliceCtus = RowsOfTile(t, a, b) /\ sliceCtus # {}
    /\ sliceQp \in CodedQps
    /\ next = 0
    /\ encCtx = {} /\ decCtx = {} /\ encSync = LeftOver /\ decSync = LeftOver
    /\ encSub = 0 /\ decSub = 0 /\ lut = {}
    /\ choicePrev = sliceQp /\ encPrev = sliceQp /\ decPrev = sliceQp
    /\ encQp = [c \in {} |-> 0] /\ decQp = [c \in {} |-> 0]

SliceNext == \E coded \in BOOLEAN, qp \in CodedQps : CodeCtu(coded, qp)

SliceSpec == SliceInit /\ [][SliceNext]_sliceVars

----------------------------------------------------------------------------
Last == CtuInSlice(next - 1)

(* The decoder ends a substream where the encoder has, and both have as    *)
(* many as the slice header has announced.                                 *)
SubstreamsAgree ==
    /\ encSub = decSub
    /\ next = NumCtuInSlice => encSub = NumEntryPoints + 1 /\ encSub = NumSubstream + 1

(* Both code a CTU with the same states, and these depend on CTUs of the   *)
(* same slice and tile only and, in a wavefront, of each row above on the  *)
(* first CTU alone: rows may be decoded in parallel, one CTU apart.        *)
ContextsAreLocal ==
    next > 0 =>
        /\ encCtx = decCtx
        /\ \A d \in decCtx :
               /\ d \in sliceCtus /\ Tile(d) = Tile(Last)
               /\ wavefront /\ d.y < Last.y => StartsRow(d)

(* The motion candidates of a CTU come from its own row of its tile, so    *)
(* that no row waits for another one.                                      *)
MotionIsLocal == next > 0 => \A d \in lut : Tile(d) = Tile(Last) /\ d.y = Last.y

(* Where the slice has one tile the decoder's QPs are the encoder's.       *)
QpFollows ==
    (\A c, d \in sliceCtus : Tile(c) = Tile(d)) => decQp = encQp

(* The same for every slice.                                               *)
QpFollowsEverywhere == decQp = encQp
=============================================================================
