---------------------------- MODULE ResidualCoding ----------------------------
(***************************************************************************)
(* The levels of a transform block, as CABACWriter::residual_coding writes *)
(* them and CABACReader::residual_coding reads them.  A context or a Rice  *)
(* parameter is derived from levels coded before.  The writer has them all *)
(* in full; the reader derives it from what it has read so far, in the     *)
(* middle of a pass from parts of levels and without any sign.  With sign  *)
(* prediction the signs follow behind the levels in an order of their own. *)
(*                                                                         *)
(* One action codes a coefficient group.  A bin is what it is coded with,  *)
(* "how", and its value; a remainder is one bin.  The position of the last *)
(* level is known to the reader, a block has at most 32 samples either     *)
(* way, and LFNST is off.                                                  *)
(***************************************************************************)
EXTENDS Integers, Sequences, FiniteSets, FiniteSetsExt
LOCAL INSTANCE SequencesExt

CONSTANTS
    Blocks,      \* [w, h, luma, depQuant, hide, numPredSigns, area, levels, where, most]
    Predictions  \* what the hypotheses may say of the predicted signs

Smaller(a, b) == IF a < b THEN a ELSE b
Absolute(a) == IF a < 0 THEN -a ELSE a
Capped(a) == Smaller(4 + (a % 2), a)
SumOver(f, S) == MapThenSumSet(LAMBDA k : f[k], S)

(* Sign prediction needs dependent quantisation, which excludes hiding.    *)
ASSUME ResidualAssumption ==
    \A b \in Blocks :
        /\ \A p \in Predictions : b.numPredSigns \in 0 .. Len(p)
        /\ b.w \in 2 .. 32 /\ b.h \in 2 .. 32 /\ b.depQuant \in 0 .. 2
        /\ b.hide => b.depQuant = 0
        /\ b.numPredSigns > 0 => b.depQuant > 0 /\ b.w >= 4 /\ b.h >= 4 /\ b.area >= 4
        /\ 0 \notin b.levels /\ b.where \subseteq 0 .. b.w * b.h - 1 /\ b.most > 0

VARIABLES
    block,
    coeff,      \* the levels, by scan position
    subset,     \* subSetId
    stage,      \* "write" and "read" a group, "sign" and "unsign" the block, "done"
    writer,     \* [state, reg, groups]
    reader,     \* [state, reg, groups, coeff]
    bins,       \* what is written and not yet read
    agree,      \* each bin was read with what it had been written with
    pred        \* the predicted signs, 1 for negative

residualVars == <<block, coeff, subset, stage, writer, reader, bins, agree, pred>>

----------------------------------------------------------------------------
(* The scan *)

(* g_log2SbbSize, for blocks of two samples or more. *)
GroupSize(b) ==
    IF b.w >= 4 /\ b.h >= 4 THEN <<4, 4>>
    ELSE IF b.w >= 8 THEN <<8, 2>> ELSE IF b.h >= 8 THEN <<2, 8>> ELSE <<2, 2>>
CGSize(b) == GroupSize(b)[1] * GroupSize(b)[2]

Position(b) == 0 .. b.w * b.h - 1
GroupOf(b, p) == <<p[1] \div GroupSize(b)[1], p[2] \div GroupSize(b)[2]>>

DiagBefore(p, q) == p[1] + p[2] < q[1] + q[2] \/ (p[1] + p[2] = q[1] + q[2] /\ p[1] < q[1])
ScanBefore(b, p, q) ==
    IF GroupOf(b, p) = GroupOf(b, q) THEN DiagBefore(p, q)
    ELSE DiagBefore(GroupOf(b, p), GroupOf(b, q))

Scan ==
    [b \in Blocks |->
        LET Area == (0 .. b.w - 1) \X (0 .. b.h - 1)
        IN  [k \in Position(b) |->
                CHOOSE p \in Area : Cardinality({q \in Area : ScanBefore(b, q, p)}) = k]]

(* The five neighbours a context is derived from. *)
Template ==
    [b \in Blocks |-> [k \in Position(b) |->
        {j \in Position(b) :
            <<Scan[b][j][1] - Scan[b][k][1], Scan[b][j][2] - Scan[b][k][2]>> \in
                {<<1, 0>>, <<2, 0>>, <<1, 1>>, <<0, 1>>, <<0, 2>>}}]]

MinSubPos == subset * CGSize(block)
ScanPosLast(c) == Max({k \in DOMAIN c : c[k] # 0})
IsLast == ScanPosLast(coeff) \div CGSize(block) = subset
FirstSigPos == IF IsLast THEN ScanPosLast(coeff) ELSE MinSubPos + CGSize(block) - 1

(* The position whose level is not 0 if no other of the group is.          *)
InferSigPos == IF IsLast THEN ScanPosLast(coeff) ELSE IF subset # 0 THEN MinSubPos ELSE -1

----------------------------------------------------------------------------
(* Contexts, Rice parameters and states *)

SigCtx(c, k, state) ==
    LET diag == Scan[block][k][1] + Scan[block][k][2]
        sum == SumOver([j \in DOMAIN c |-> Capped(Absolute(c[j]))], Template[block][k])
    IN  <<"sig", <<0, 2, 0, 4>>[(state % 4) + 1],
          Smaller((sum + 1) \div 2, 3) + (IF diag < 2 THEN 4 ELSE 0)
              + (IF block.luma /\ diag < 5 THEN 4 ELSE 0)>>

(* ctxOffsetAbs; the last level of a block has had no context before.      *)
CtxOffset(c, k) ==
    LET diag == Scan[block][k][1] + Scan[block][k][2]
        sum1 == SumOver([j \in DOMAIN c |-> Capped(Absolute(c[j])) - Smaller(Absolute(c[j]), 1)],
                        Template[block][k])
    IN  IF k = ScanPosLast(coeff) THEN 0
        ELSE Smaller(sum1, 4) + 1
             + (IF diag = 0 THEN IF block.luma THEN 15 ELSE 5
                ELSE IF ~block.luma \/ diag >= 10 THEN 0 ELSE IF diag < 3 THEN 10 ELSE 5)

GroupCtx(groups) ==
    LET g == GroupOf(block, Scan[block][MinSubPos])
    IN  <<"group", {<<g[1] + 1, g[2]>>, <<g[1], g[2] + 1>>} \cap groups # {}>>
ThisGroup == GroupOf(block, Scan[block][MinSubPos])

(* templateAbsSum and g_auiGoRiceParsCoeff *)
RicePar(c, k, base) ==
    LET sum == SumOver([j \in DOMAIN c |-> Absolute(c[j])], Template[block][k]) - 5 * base
    IN  IF sum < 7 THEN 0 ELSE IF sum < 14 THEN 1 ELSE IF sum < 28 THEN 2 ELSE 3
Pos0(state, rice) == (1 + (state % 2)) * 2 ^ rice

(* g_stateTransTab, by state and parity *)
StateTrans ==
    <<[s \in 0 .. 7 |-> <<0, 0>>],
      [s \in 0 .. 7 |-> IF s > 3 THEN <<0, 0>>
                        ELSE <<<<0, 1>>, <<2, 3>>, <<1, 0>>, <<3, 2>>>>[s + 1]],
      [s \in 0 .. 7 |-> <<<<0, 2>>, <<5, 7>>, <<1, 3>>, <<6, 4>>,
                          <<2, 0>>, <<4, 6>>, <<3, 1>>, <<7, 5>>>>[s + 1]]>>
NextState(state, level) == StateTrans[block.depQuant + 1][state][(level % 2) + 1]

RegBinLimit(b) == (b.w * b.h * 28) \div 16

(* A level takes four bins at most. Mutant: room for three is enough.      *)
EnoughBinsForThree(reg) == reg >= 3

EnoughBins(reg) == reg >= 4

SBH_THRESHOLD == 4
HideSign(nz) == block.hide /\ nz # <<>> /\ nz[1] - nz[Len(nz)] >= SBH_THRESHOLD
SignPredQualified == block.numPredSigns > 0

----------------------------------------------------------------------------
(* The writer *)

Coded(how, v) == <<[how |-> how, v |-> v]>>
Flag(how, b) == Coded(how, IF b THEN 1 ELSE 0)
Negative(c, k) == IF c[k] < 0 THEN 1 ELSE 0

(* The first pass, from FirstSigPos down to position k: flags while there  *)
(* are context coded bins left.  "next" is the first position without.     *)
WriteFlags(c) ==
    LET WriteFlag(w, k, a, off) ==
            LET inferred == w.nz = <<>> /\ k = InferSigPos
                out == (IF inferred THEN <<>> ELSE Flag(SigCtx(c, k, w.state), a > 0))
                       \o (IF a > 0 THEN Flag(<<"gt1", off>>, a > 1) ELSE <<>>)
                       \o (IF a > 1 THEN Coded(<<"par", off>>, a % 2) \o Flag(<<"gt2", off>>, a > 3)
                           ELSE <<>>)
            IN  [bins |-> w.bins \o out, reg |-> w.reg - Len(out), next |-> k - 1,
                 state |-> NextState(w.state, a),
                 nz |-> IF a > 0 THEN Append(w.nz, k) ELSE w.nz]
        pass[k \in MinSubPos .. FirstSigPos + 1] ==
            IF k = FirstSigPos + 1
            THEN [bins |-> <<>>, reg |-> writer.reg, next |-> FirstSigPos,
                  state |-> writer.state, nz |-> <<>>]
            ELSE LET w == pass[k + 1]
                 IN  IF EnoughBins(w.reg) THEN WriteFlag(w, k, Absolute(c[k]), CtxOffset(c, k)) ELSE w
    IN  pass[MinSubPos]

(* The second pass: what the flags have left of a level of four or more.   *)
WriteRemainders(c, w) ==
    LET pass[k \in w.next + 1 .. FirstSigPos + 1] ==
            IF k = FirstSigPos + 1 THEN <<>>
            ELSE pass[k + 1] \o
                 (IF Absolute(c[k]) >= 4
                  THEN Coded(<<"rem", RicePar(c, k, 4)>>, (Absolute(c[k]) - 4) \div 2) ELSE <<>>)
    IN  [w EXCEPT !.bins = @ \o pass[w.next + 1]]

(* The value for a level without flags.  Mutant: a level of pos0 keeps its *)
(* value, which stands for 0.                                              *)
BypassRemKept(a, pos0) == IF a = 0 THEN pos0 ELSE IF a < pos0 THEN a - 1 ELSE a

BypassRem(a, pos0) == IF a = 0 THEN pos0 ELSE IF a <= pos0 THEN a - 1 ELSE a

(* The third: the levels without flags. *)
WriteBypass(c, w0) ==
    LET WriteLevel(w, k, a, rice) ==
            [w EXCEPT !.bins = @ \o Coded(<<"rem", rice>>, BypassRem(a, Pos0(w.state, rice))),
                      !.state = NextState(@, a),
                      !.nz = IF a > 0 THEN Append(@, k) ELSE @]
        pass[k \in MinSubPos .. w0.next + 1] ==
            IF k = w0.next + 1 THEN w0
            ELSE WriteLevel(pass[k + 1], k, Absolute(c[k]), RicePar(c, k, 0))
    IN  pass[MinSubPos]

(* The signs; the last of a group may be hidden in the parity of the sum.  *)
WriteSigns(c, w) ==
    IF SignPredQualified THEN w
    ELSE [w EXCEPT !.bins = @ \o [i \in 1 .. Len(w.nz) - (IF HideSign(w.nz) THEN 1 ELSE 0) |->
                                      [how |-> <<"ep">>, v |-> Negative(c, w.nz[i])]]]

WriteSubblock ==
    /\ stage = "write" /\ stage' = "read"
    /\ LET sig == \E k \in MinSubPos .. FirstSigPos : coeff[k] # 0
           flag == IF IsLast \/ subset = 0 THEN <<>> ELSE Flag(GroupCtx(writer.groups), sig)
           w == WriteSigns(coeff, WriteBypass(coeff, WriteRemainders(coeff, WriteFlags(coeff))))
       IN  IF flag # <<>> /\ ~sig THEN bins' = flag /\ UNCHANGED writer
           ELSE /\ bins' = flag \o w.bins
                /\ writer' = [state |-> w.state, reg |-> w.reg,
                           groups |-> IF sig THEN writer.groups \cup {ThisGroup} ELSE writer.groups]
    /\ UNCHANGED <<block, coeff, subset, reader, agree, pred>>

----------------------------------------------------------------------------
(* The reader; r.in is what is left to read. *)

Value(r) == IF r.in = <<>> THEN 0 ELSE Head(r.in).v
After(r, how) ==
    [r EXCEPT !.in = IF @ = <<>> THEN <<>> ELSE Tail(@),
              !.agree = @ /\ r.in # <<>> /\ Head(r.in).how = how]

ReadFlags(start) ==
    LET ReadFlag(r, k, sigCtx, off) ==
            LET inferred == r.nz = <<>> /\ k = InferSigPos
                r1 == IF inferred THEN r ELSE After(r, sigCtx)
                sig == inferred \/ Value(r) = 1
                r2 == IF sig THEN After(r1, <<"gt1", off>>) ELSE r1
                gt1 == sig /\ Value(r1) = 1
                r3 == After(r2, <<"par", off>>)
                r4 == IF gt1 THEN After(r3, <<"gt2", off>>) ELSE r2
                level == IF gt1 THEN 2 + Value(r2) + 2 * Value(r3) ELSE IF sig THEN 1 ELSE 0
            IN  [r4 EXCEPT !.coeff[k] = level, !.next = k - 1,
                           !.reg = @ - (IF inferred THEN 0 ELSE 1) - (IF sig THEN 1 ELSE 0)
                                     - (IF gt1 THEN 2 ELSE 0),
                           !.state = NextState(@, level),
                           !.nz = IF sig THEN Append(@, k) ELSE @]
        pass[k \in MinSubPos .. FirstSigPos + 1] ==
            IF k = FirstSigPos + 1 THEN start
            ELSE LET r == pass[k + 1]
                 IN  IF EnoughBins(r.reg)
                     THEN ReadFlag(r, k, SigCtx(r.coeff, k, r.state), CtxOffset(r.coeff, k)) ELSE r
    IN  pass[MinSubPos]

ReadRemainders(r0) ==
    LET ReadRemainder(r, k) ==
            IF r.coeff[k] < 4 THEN r
            ELSE [After(r, <<"rem", RicePar(r.coeff, k, 4)>>) EXCEPT !.coeff[k] = @ + 2 * Value(r)]
        pass[k \in r0.next + 1 .. FirstSigPos + 1] ==
            IF k = FirstSigPos + 1 THEN r0 ELSE ReadRemainder(pass[k + 1], k)
    IN  pass[r0.next + 1]

ReadBypass(r0) ==
    LET ReadLevel(r, k, rice) ==
            LET pos0 == Pos0(r.state, rice)
                rem == Value(r)
                level == IF rem = pos0 THEN 0 ELSE IF rem < pos0 THEN rem + 1 ELSE rem
            IN  [After(r, <<"rem", rice>>) EXCEPT
                    !.coeff[k] = level, !.state = NextState(@, level),
                    !.nz = IF level > 0 THEN Append(@, k) ELSE @]
        pass[k \in MinSubPos .. r0.next + 1] ==
            IF k = r0.next + 1 THEN r0
            ELSE LET r == pass[k + 1] IN ReadLevel(r, k, RicePar(r.coeff, k, 0))
    IN  pass[MinSubPos]

ReadSigns(r0) ==
    LET coded == Len(r0.nz) - (IF HideSign(r0.nz) THEN 1 ELSE 0)
        ReadSign(r, k) == [After(r, <<"ep">>) EXCEPT !.coeff[k] = IF Value(r) = 1 THEN -@ ELSE @]
        pass[i \in 0 .. coded] == IF i = 0 THEN r0 ELSE ReadSign(pass[i - 1], r0.nz[i])
        sumAbs == SumOver(r0.coeff, {r0.nz[i] : i \in 1 .. Len(r0.nz)})
    IN  IF SignPredQualified THEN r0
        ELSE IF coded = Len(r0.nz) THEN pass[coded]
        ELSE [pass[coded] EXCEPT !.coeff[r0.nz[coded + 1]] = IF sumAbs % 2 = 1 THEN -@ ELSE @]

GroupRead(r, sig) ==
    /\ reader' = [state |-> r.state, reg |-> r.reg, coeff |-> r.coeff,
                  groups |-> IF sig THEN reader.groups \cup {ThisGroup} ELSE reader.groups]
    /\ bins' = r.in
    /\ agree' = r.agree

ReadSubblock ==
    /\ stage = "read"
    /\ LET start == [in |-> bins, agree |-> agree, coeff |-> reader.coeff, reg |-> reader.reg,
                     state |-> reader.state, next |-> FirstSigPos, nz |-> <<>>]
           coded == ~IsLast /\ subset # 0
           sig == coded => Value(start) = 1
           flagged == IF coded THEN After(start, GroupCtx(reader.groups)) ELSE start
       IN  GroupRead(IF sig THEN ReadSigns(ReadBypass(ReadRemainders(ReadFlags(flagged))))
                     ELSE flagged, sig)
    /\ subset' = subset - 1
    /\ stage' = IF subset > 0 THEN "write" ELSE IF SignPredQualified THEN "sign" ELSE "done"
    /\ UNCHANGED <<block, coeff, writer, pred>>

----------------------------------------------------------------------------
(* Sign prediction: the order of the signs *)

SIGN_PRED_FREQ_RANGE == 32
SpArea == {k \in Position(block) :
              Scan[block][k][1] < block.area /\ Scan[block][k][2] < block.area}
ExtArea == {k \in Position(block) : Scan[block][k][1] < SIGN_PRED_FREQ_RANGE
                                      /\ Scan[block][k][2] < SIGN_PRED_FREQ_RANGE}

RasterScan(k) == Scan[block][k][2] * block.w + Scan[block][k][1]
InRaster(c, area) ==
    SetToSortSeq({k \in area : c[k] # 0}, LAMBDA j, k : RasterScan(j) < RasterScan(k))

(* getPredictedSigns: the levels of the area by the size they dequantise   *)
(* to, which the states tell, those of one size from the last to the first.*)
QIdx(c) ==
    LET last == ScanPosLast(c)
        state[k \in 0 .. last] ==
            IF k = last THEN 0 ELSE NextState(state[k + 1], Absolute(c[k + 1]))
    IN  [k \in 0 .. last |-> 2 * Absolute(c[k]) - (state[k] % 2)]
PredictedOrder(c) ==
    LET q == QIdx(c)
    IN  SetToSortSeq({k \in SpArea : c[k] # 0},
                     LAMBDA j, k : q[j] > q[k] \/ (q[j] = q[k] /\ j > k))

(* The context of a sign, by the level that is next in the raster.         *)
PredCtx(a) == <<"signPred", IF a < 2 THEN 0 ELSE 1>>

(* codePredictedSigns: the i-th bin is the sign of the i-th level in the   *)
(* order of prediction, or where that was wrong, with a context from the   *)
(* i-th level in raster order; then the signs outside of the area.         *)
CodePredictedSigns ==
    /\ stage = "sign" /\ stage' = "unsign"
    /\ \E p \in Predictions :
        LET order == PredictedOrder(coeff)
            raster == InRaster(coeff, SpArea)
            rest == InRaster(coeff, ExtArea \ SpArea)
        IN  /\ pred' = p
            /\ bins' = [i \in 1 .. Len(order) |->
                          IF i <= block.numPredSigns
                          THEN [how |-> PredCtx(Absolute(coeff[raster[i]])),
                                v |-> IF Negative(coeff, order[i]) = p[i] THEN 0 ELSE 1]
                          ELSE [how |-> <<"ep">>, v |-> Negative(coeff, order[i])]]
                       \o [i \in 1 .. Len(rest) |->
                              [how |-> <<"ep">>, v |-> Negative(coeff, rest[i])]]
    /\ UNCHANGED <<block, coeff, subset, writer, reader, agree>>

(* parsePredictedSigns reads in raster order, as if each bin belonged to   *)
(* the level it comes to; predCoeffSigns gives the bins to the levels in   *)
(* the order of prediction and corrects those predicted to be negative.    *)
ParsedSigns ==
    LET raster == InRaster(reader.coeff, SpArea)
        todo == raster \o InRaster(reader.coeff, ExtArea \ SpArea)
        ParseSign(r, i) ==
            LET predicted == i <= Smaller(block.numPredSigns, Len(raster))
            IN  [After(r, IF predicted THEN PredCtx(r.coeff[todo[i]]) ELSE <<"ep">>) EXCEPT
                    !.coeff[todo[i]] = IF Value(r) = 1 THEN -@ ELSE @]
        pass[i \in 0 .. Len(todo)] ==
            IF i = 0 THEN [in |-> bins, agree |-> agree, coeff |-> reader.coeff]
            ELSE ParseSign(pass[i - 1], i)
    IN  pass[Len(todo)]

(* Mutant: a bin stays with the level it was parsed for. *)
PredictedSignsInRaster(c) ==
    LET order == PredictedOrder(c)
    IN  [k \in DOMAIN c |->
            IF \E i \in 1 .. Smaller(Len(order), block.numPredSigns) : order[i] = k /\ pred[i] = 1
            THEN -c[k] ELSE c[k]]

PredictedSigns(c) ==
    LET order == PredictedOrder(c)
        raster == InRaster(c, SpArea)
        Corrected(i) ==
            IF i <= block.numPredSigns /\ pred[i] = 1
            THEN 1 - Negative(c, raster[i]) ELSE Negative(c, raster[i])
    IN  [k \in DOMAIN c |->
            IF \E i \in 1 .. Len(order) : order[i] = k
            THEN LET i == CHOOSE i \in 1 .. Len(order) : order[i] = k
                 IN  IF Corrected(i) = 1 THEN -Absolute(c[k]) ELSE Absolute(c[k])
            ELSE c[k]]

ParsePredictedSigns ==
    /\ stage = "unsign" /\ stage' = "done"
    /\ LET r == ParsedSigns
       IN  bins' = r.in /\ agree' = r.agree /\ reader' = [reader EXCEPT !.coeff = PredictedSigns(r.coeff)]
    /\ UNCHANGED <<block, coeff, subset, writer, pred>>

----------------------------------------------------------------------------
(* Quantisation leaves a hidden sign that is right: the parity of the sum  *)
(* of a group is its first level's sign (QuantRDOQ, xSignBitHidingHDQ).    *)
HiddenSignsHold(b, c) ==
    \A g \in 0 .. (b.w * b.h) \div CGSize(b) - 1 :
        LET S == {k \in g * CGSize(b) .. (g + 1) * CGSize(b) - 1 : c[k] # 0}
        IN  b.hide /\ S # {} /\ Max(S) - Min(S) >= SBH_THRESHOLD
            => (c[Min(S)] < 0) = (SumOver([k \in S |-> Absolute(c[k])], S) % 2 = 1)

(* At most "most" levels are not 0, and those are at positions "where".    *)
CoeffsOf(b) ==
    LET Places == {{p[i] : i \in 1 .. b.most} : p \in [1 .. b.most -> b.where]}
        Coeffs(S) == {[k \in Position(b) |-> IF k \in S THEN f[k] ELSE 0] : f \in [S -> b.levels]}
    IN  {c \in UNION {Coeffs(S) : S \in Places} : HiddenSignsHold(b, c)}

ResidualStart ==
    /\ subset = ScanPosLast(coeff) \div CGSize(block)
    /\ stage = "write"
    /\ writer = [state |-> 0, reg |-> RegBinLimit(block), groups |-> {}]
    /\ reader = [state |-> 0, reg |-> RegBinLimit(block), groups |-> {},
                 coeff |-> [k \in Position(block) |-> 0]]
    /\ bins = <<>> /\ agree = TRUE
    /\ pred = CHOOSE p \in Predictions : TRUE

ResidualInit == block \in Blocks /\ coeff \in CoeffsOf(block) /\ ResidualStart

ResidualNext == WriteSubblock \/ ReadSubblock \/ CodePredictedSigns \/ ParsePredictedSigns

ResidualSpec == ResidualInit /\ [][ResidualNext]_residualVars

----------------------------------------------------------------------------
(* Properties *)

(* The levels of the groups read so far are those written, with their      *)
(* signs where these are not delayed; every bin was read with the context  *)
(* or Rice parameter it was written with, and none is left (the contexts   *)
(* of residual_coding_subblock come from partial levels in the reader).    *)
LevelsComeBack ==
    /\ agree
    /\ stage \notin {"read", "unsign"} => bins = <<>>
    /\ stage # "read" =>
        \A k \in Position(block) : k >= (subset + 1) * CGSize(block) =>
            IF SignPredQualified THEN Absolute(reader.coeff[k]) = Absolute(coeff[k])
            ELSE reader.coeff[k] = coeff[k]

(* In the end every level has its sign, though the signs of a block with   *)
(* sign prediction were parsed in another order than they were coded in.   *)
SignsComeBack == stage = "done" => reader.coeff = coeff

(* Both sides spend the same bins on flags, and never more than the limit; *)
(* they are in the same state of the quantiser after each group.           *)
RegBinsBound ==
    /\ writer.reg >= 0 /\ reader.reg >= 0
    /\ stage # "read" => reader.reg = writer.reg /\ reader.state = writer.state
=============================================================================
