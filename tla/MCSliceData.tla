----------------------------- MODULE MCSliceData -----------------------------
(***************************************************************************)
(* The coding of slice data, for model checking: the arithmetic coder, the *)
(* context states kept from picture to picture, the walk over the CTUs of  *)
(* a slice, the partitioning of a CTU, and the levels of a block.  These   *)
(* share no state here, so a behaviour is one of one of them, "part", and  *)
(* the others stay at the start.                                           *)
(***************************************************************************)
EXTENDS ArithmeticCoder, ContextStore, SliceData, CodingTree, ResidualCoding

VARIABLE part

(* Symbols of each kind: v is the bin, the bins or the value, n their      *)
(* number, the Rice parameter or the number of context.                    *)
Symbol(k, v, n) == [kind |-> k, v |-> v, n |-> n]
MCSymbols ==
    {Symbol("bin", 0, 0), Symbol("bin", 1, 0), Symbol("ep", 1, 1), Symbol("ep", 0, 1),
     Symbol("trm", 0, 0), Symbol("bins", 128, 8), Symbol("bins", 127, 8),
     Symbol("bins", 255, 8), Symbol("bins", 0, 9), Symbol("bins", 65535, 16),
     Symbol("rem", 3, 1), Symbol("rem", 10, 1), Symbol("rem", 20000, 2),
     Symbol("rem", 4108, 0), Symbol("rem", 4100, 0)}

(* The lowest QP and the highest: their difference wraps around. *)
MCQps == {-QpBdOffset, MaxQp}

(* Limits of slices: [minQt, maxBt, maxTt, maxMtt, qgSubdiv].              *)
Limit(q, b, t, m, s) == [minQt |-> q, maxBt |-> b, maxTt |-> t, maxMtt |-> m, qgSubdiv |-> s]
MCLimits ==
    {Limit(16, 64, 32, 2, 2), Limit(16, 16, 16, 3, 5), Limit(8, 8, 8, 0, 3), Limit(32, 32, 32, 2, 4)}

(* Transform blocks: with a hidden sign, with two groups and few context   *)
(* coded bins for either quantiser, and with predicted signs.              *)
Block(w, h, q, s, levels, where, most) ==
    [w |-> w, h |-> h, luma |-> w * h > 8, depQuant |-> q, hide |-> q = 0, numPredSigns |-> s,
     area |-> 4, levels |-> levels, where |-> where, most |-> most]
MCBlocks ==
    {Block(4, 4, 0, 0, {1, -2, 25}, 0 .. 15, 3), Block(4, 2, 1, 0, {1, 2, 25}, 0 .. 7, 3),
     Block(4, 2, 2, 0, {1, -2, 25}, 0 .. 7, 4), Block(8, 4, 2, 2, {1, -1, -2}, {0, 1, 2, 5, 16, 20}, 3)}
MCPredictions == [1 .. 2 -> {0, 1}]

MCInit ==
    /\ part \in {"coder", "store", "slice", "tree", "levels"}
    /\ CoderInit /\ (part # "coder" => enc.ctx = Context(63))
    /\ StoreInit
    /\ TreeInit
    /\ part # "tree" => /\ limits.maxMtt = 0 /\ tree = "luma"
                        /\ extent = [x |-> CtuSize, y |-> CtuSize]
    /\ IF part = "levels" THEN ResidualInit
       ELSE /\ block = Block(4, 2, 1, 0, {1, 2, 25}, 0 .. 7, 3)
            /\ coeff = [k \in 0 .. 7 |-> IF k = 0 THEN 1 ELSE 0]
            /\ ResidualStart
    /\ IF part = "slice" THEN SliceInit
       ELSE tileCols = {0} /\ tileRows = {0} /\ wavefront = FALSE
               /\ sliceCtus = Ctu /\ sliceQp = MaxQp /\ SliceInit

MCNext ==
    \/ part = "coder" /\ CoderNext /\ UNCHANGED <<part, storeVars, sliceVars, treeVars, residualVars>>
    \/ part = "store" /\ StoreNext /\ UNCHANGED <<part, coderVars, sliceVars, treeVars, residualVars>>
    \/ part = "slice" /\ SliceNext /\ UNCHANGED <<part, coderVars, storeVars, treeVars, residualVars>>
    \/ part = "tree" /\ TreeNext /\ UNCHANGED <<part, coderVars, storeVars, sliceVars, residualVars>>
    \/ part = "levels" /\ ResidualNext /\ UNCHANGED <<part, coderVars, storeVars, sliceVars, treeVars>>

MCSpec == MCInit /\ [][MCNext]_<<part, coderVars, storeVars, sliceVars, treeVars, residualVars>>
=============================================================================
