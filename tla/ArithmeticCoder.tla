--------------------------- MODULE ArithmeticCoder ---------------------------
(***************************************************************************)
(* The binary arithmetic coder: what the encoder's BinEncoder writes for a *)
(* substream of symbols, the decoder's BinDecoder reads back.              *)
(*                                                                         *)
(* One action codes one symbol: a context coded bin, a bypass bin, a group *)
(* of bypass bins, an escape coded value or a terminating bin that is 0;   *)
(* EndSubstream is end_of_slice and the byte alignment after it.  Then one *)
(* action decodes one symbol, and terminating_bit ends.  The registers are *)
(* those of the code; no value the code can reach needs their 32nd bit.    *)
(***************************************************************************)
EXTENDS Integers, Sequences

CONSTANTS
    Symbols,      \* what may be coded
    StateClips,   \* state_clip of the context at the start
    SymbolBound   \* bound: symbols of a substream

(* kind "bin": v = 1 where the bin is the most probable symbol; "ep", "trm": *)
(* the bin v; "bins": v in n bits; "rem": v with n = Rice parameter.         *)
SymbolKinds == {"bin", "ep", "bins", "rem", "trm"}

ASSUME CoderAssumption ==
    /\ Symbols \subseteq [kind : SymbolKinds, v : Nat, n : Nat]
    /\ \A s \in Symbols :
          /\ s.kind \in {"bin", "ep", "trm"} => s.v \in 0 .. 1
          /\ s.kind = "bins" => s.n \in 0 .. 32 /\ s.v < 2 ^ s.n
          /\ s.kind = "rem" => s.n \in 0 .. 3 /\ s.v <= 2 ^ 15
    /\ StateClips \subseteq 1 .. 127
    /\ SymbolBound \in Nat

VARIABLES
    sent,      \* the symbols coded
    enc,       \* BinEncoderBase and its context
    bytes,     \* the substream, once it has ended
    dec,       \* BinDecoderBase and its context
    decoded,   \* the values decoded
    coding     \* "encode", "decode", "ended"

coderVars == <<sent, enc, bytes, dec, decoded, coding>>

----------------------------------------------------------------------------
(* The probability model, BinProbModel_Std: two estimates with windows of  *)
(* different length (setLog2WindowSize(0)), and the default weights.  In   *)
(* the code each context has rates, weights and rate offsets of its own,   *)
(* from tables and from the slice type; writer and reader set them alike,  *)
(* and here is one context with the default ones.                          *)
Rates == <<2, 5>>
RateOffset == 7 - 7     \* DWO's half less ADJUSTMENT_RANGE, for both

Context(clip) == [s0 |-> 256 * clip, s1 |-> 256 * clip]

Moved(s, bin, rate) == s - s \div 2 ^ rate + IF bin = 1 THEN 32767 \div 2 ^ rate ELSE 0

(* update: with DWO the states used are the states kept. *)
Updated(c, bin) == [s0 |-> Moved(c.s0, bin, Rates[1]), s1 |-> Moved(c.s1, bin, Rates[2])]

State(c) == (c.s0 * 16 + c.s1 * 16) \div 32
Mps(c) == State(c) \div 2 ^ 14
Lps(c, range) ==
    LET q == IF State(c) \div 2 ^ 14 = 1 THEN 32767 - State(c) ELSE State(c)
    IN  (range * (q \div 64)) \div 512 + 1

(* Mutant: the renormalisation of the smallest ranges goes one bit too far. *)
RenormBitsTooFar(lps) ==
    CASE lps \div 8 = 0 -> 7 [] lps \div 8 = 1 -> 5 [] lps \div 8 \in 2 .. 3 -> 4
      [] lps \div 8 \in 4 .. 7 -> 3 [] lps \div 8 \in 8 .. 15 -> 2 [] OTHER -> 1

RenormBits(lps) ==
    CASE lps \div 8 = 0 -> 6 [] lps \div 8 = 1 -> 5 [] lps \div 8 \in 2 .. 3 -> 4
      [] lps \div 8 \in 4 .. 7 -> 3 [] lps \div 8 \in 8 .. 15 -> 2 [] OTHER -> 1

----------------------------------------------------------------------------
Repeated(v, n) == [k \in 1 .. n |-> v]

(* Mutant: the carry stops at the byte before the outstanding ones.        *)
WriteOutCarryOnce(e) ==
    LET lead == e.low \div 2 ^ (24 - e.left)
        rest == [e EXCEPT !.left = @ + 8, !.low = @ % 2 ^ (24 - e.left)]
        carry == lead \div 256
    IN  IF lead = 255 THEN [rest EXCEPT !.held = @ + 1]
        ELSE IF e.held = 0 THEN [rest EXCEPT !.held = 1, !.byte = lead]
        ELSE [rest EXCEPT !.out = @ \o <<e.byte + carry>> \o Repeated(255, e.held - 1),
                          !.byte = lead % 256, !.held = 1]

(* writeOut: a byte is held back until it is known whether a carry reaches *)
(* it, and with it the run of 0xff bytes after it.                         *)
WriteOut(e) ==
    LET lead == e.low \div 2 ^ (24 - e.left)
        rest == [e EXCEPT !.left = @ + 8, !.low = @ % 2 ^ (24 - e.left)]
        carry == lead \div 256
    IN  IF lead = 255 THEN [rest EXCEPT !.held = @ + 1]
        ELSE IF e.held = 0 THEN [rest EXCEPT !.held = 1, !.byte = lead]
        ELSE [rest EXCEPT !.out = @ \o <<e.byte + carry>>
                                    \o Repeated((255 + carry) % 256, e.held - 1),
                          !.byte = lead % 256, !.held = 1]

(* m_Low and m_bitsLeft move on by n bits, v is added to m_Low.            *)
Put(e, v, n) ==
    LET put == [e EXCEPT !.low = @ * 2 ^ n + v, !.left = @ - n]
    IN  IF put.left < 12 THEN WriteOut(put) ELSE put

EncodeBin(e, bin) ==
    LET lps == Lps(e.ctx, e.range)
        mps == e.range - lps
        new == Updated(e.ctx, bin)
        n == RenormBits(lps)
    IN  IF bin # Mps(e.ctx)
        THEN Put([e EXCEPT !.range = lps * 2 ^ n, !.ctx = new], mps * 2 ^ n, n)
        ELSE IF mps < 256 THEN Put([e EXCEPT !.range = mps * 2, !.ctx = new], 0, 1)
        ELSE [e EXCEPT !.range = mps, !.ctx = new]

(* encodeBinEP, encodeBinsEP and encodeAlignedBinsEP: 8 bins at a time     *)
(* while more of the 32 remain.                                            *)
EncodeEight(w) ==
    IF w.n <= 8 THEN w
    ELSE [e |-> Put(w.e, w.e.range * (w.bins \div 2 ^ (w.n - 8)), 8),
          bins |-> w.bins % 2 ^ (w.n - 8), n |-> w.n - 8]

EncodeRest(w) == Put(w.e, w.e.range * w.bins, w.n)

EncodeBinsEP(e, bins, n) ==
    EncodeRest(EncodeEight(EncodeEight(EncodeEight([e |-> e, bins |-> bins, n |-> n]))))

(* encodeRemAbsEP for coefficients: COEF_REMAIN_BIN_REDUCTION is 5 and     *)
(* maxLog2TrDynamicRange 15.  The prefix is unary, the escape limited.     *)
Cutoff == 5
DynamicRange == 15
MaxPrefix == 32 - Cutoff - DynamicRange

PrefixLength(code) ==
    IF code >= 2 ^ MaxPrefix - 1 THEN MaxPrefix
    ELSE CHOOSE p \in 0 .. MaxPrefix : /\ code <= 2 ^ (p + 1) - 2
                                       /\ \A k \in 0 .. p - 1 : code > 2 ^ (k + 1) - 2

EncodeRemAbs(e, v, rice) ==
    LET code == v \div 2 ^ rice - Cutoff
        low == v % 2 ^ rice
        p == PrefixLength(code)
        length == v \div 2 ^ rice + 1
        suffixLength == IF p = MaxPrefix THEN DynamicRange ELSE p + rice + 1
    IN  IF code < 0
        THEN EncodeBinsEP(EncodeBinsEP(e, 2 ^ length - 2, length), low, rice)
        ELSE EncodeBinsEP(EncodeBinsEP(e, 2 ^ (p + Cutoff) - 1, p + Cutoff),
                          (code - (2 ^ p - 1)) * 2 ^ rice + low, suffixLength)

(* Mutant: the last bin takes a bit more than the decoder has read. *)
EncodeTrmOfEightBits(e, bin) ==
    LET range == e.range - 2
    IN  IF bin = 1 THEN Put([e EXCEPT !.range = 256, !.low = @ + range], 0, 8)
        ELSE IF range >= 256 THEN [e EXCEPT !.range = range]
        ELSE Put([e EXCEPT !.range = range * 2], 0, 1)

EncodeTrm(e, bin) ==
    LET range == e.range - 2
    IN  IF bin = 1 THEN Put([e EXCEPT !.range = 256, !.low = @ + range], 0, 7)
        ELSE IF range >= 256 THEN [e EXCEPT !.range = range]
        ELSE Put([e EXCEPT !.range = range * 2], 0, 1)

(* finish, and writeByteAlignment after it: the bytes held back, the rest  *)
(* of m_Low without its last 8 bits, a one and zeros to the end of a byte. *)
Finish(e) ==
    LET n == 24 - e.left
        carry == e.low \div 2 ^ (n + 8)
        held == IF carry > 0 THEN <<e.byte + 1>> \o Repeated(0, e.held - 1)
                ELSE IF e.held > 0 THEN <<e.byte>> \o Repeated(255, e.held - 1)
                ELSE <<>>
        last == ((e.low % 2 ^ (n + 8)) \div 256) * 2 + 1
        pad == (15 - n) % 8
    IN  e.out \o held
        \o (IF n + 1 > 8 THEN <<(last * 2 ^ pad) \div 256, (last * 2 ^ pad) % 256>>
                         ELSE <<last * 2 ^ pad>>)

----------------------------------------------------------------------------
(* readByte; a CHECK fails at the end of the substream. *)
Taken(d, shift) ==
    IF d.pos > Len(bytes) THEN [d EXCEPT !.failed = TRUE]
    ELSE [d EXCEPT !.value = @ + bytes[d.pos] * 2 ^ shift, !.pos = @ + 1]

(* A byte is read when all bits are used. *)
Refilled(d) ==
    IF d.needed >= 0 THEN [Taken(d, d.needed) EXCEPT !.needed = @ - 8] ELSE d

(* m_Value moves on by n <= 8 bits. *)
Advance(d, n) == Refilled([d EXCEPT !.value = @ * 2 ^ n, !.needed = @ + n])

(* The n subtractions that find as many bypass bins: a division by the     *)
(* range that is left after n halvings of the scaled range sr.             *)
Divided(value, sr, n) ==
    LET unit == sr \div 2 ^ n
        bins == IF value < sr THEN value \div unit ELSE 2 ^ n - 1
    IN  [bins |-> bins, value |-> value - bins * unit]

WithBins(d, bins) == [bins |-> bins, d |-> d]

(* decodeBinsEP: whole bytes while more than 8 bins remain, then the rest. *)
BinsFound(w, n, read) ==
    LET found == Divided(read.value, read.range * 2 ^ (n + 7), n)
    IN  [d |-> [read EXCEPT !.value = found.value],
         bins |-> w.bins * 2 ^ n + found.bins, n |-> w.n - n]

BinsRead(w, n) == BinsFound(w, n, Advance(w.d, n))

DecodeEight(w) == IF w.n <= 8 THEN w ELSE BinsRead(w, 8)

DecodeRest(w) == BinsRead(w, w.n)

DecodeUnaligned(d, n) ==
    DecodeRest(DecodeEight(DecodeEight(DecodeEight([d |-> d, bins |-> 0, n |-> n]))))

(* decodeAlignedBinsEP: the range is 256, the bins are bits of m_Value.    *)
AlignedRead(w, n) ==
    LET bins == (w.d.value \div 2 ^ (15 - n)) % 2 ^ n
        cut == [w.d EXCEPT !.value = (@ * 2 ^ n) % 2 ^ 15, !.needed = @ + n]
    IN  [d |-> Refilled(cut), bins |-> w.bins * 2 ^ n + bins, n |-> w.n - n]

DecodeAlignedEight(w) ==
    IF w.n = 0 THEN w ELSE AlignedRead(w, IF w.n < 8 THEN w.n ELSE 8)

DecodeAligned(d, n) ==
    DecodeAlignedEight(DecodeAlignedEight(DecodeAlignedEight(DecodeAlignedEight(
        [d |-> d, bins |-> 0, n |-> n]))))

DecodeBinsEP(d, n) == IF d.range = 256 THEN DecodeAligned(d, n) ELSE DecodeUnaligned(d, n)

DecodeBinEP(d) == DecodeUnaligned(d, 1)

DecodeBin(d) ==
    LET lps == Lps(d.ctx, d.range)
        mps == d.range - lps
        isMps == d.value < mps * 128
        bin == IF isMps THEN Mps(d.ctx) ELSE 1 - Mps(d.ctx)
        new == [d EXCEPT !.ctx = Updated(@, bin)]
        n == RenormBits(lps)
    IN  WithBins(IF ~isMps THEN Advance([new EXCEPT !.value = @ - mps * 128, !.range = lps * 2 ^ n], n)
                 ELSE IF mps < 256 THEN Advance([new EXCEPT !.range = mps * 2], 1)
                 ELSE [new EXCEPT !.range = mps],
                 bin)

(* The ones before the first zero, but not more than the longest prefix.   *)
WithPrefixBin(w, bin) ==
    [d |-> bin.d, bins |-> w.bins + bin.bins, ended |-> bin.bins = 0]

PrefixBin(w) == IF w.ended THEN w ELSE WithPrefixBin(w, DecodeBinEP(w.d))

DecodePrefix(d) ==
    LET turn[k \in 0 .. 32 - DynamicRange] ==
            IF k = 0 THEN [d |-> d, bins |-> 0, ended |-> FALSE] ELSE PrefixBin(turn[k - 1])
    IN  turn[32 - DynamicRange]

(* The least value with a prefix of p, and the bins that follow it.        *)
Offset(p) == IF p < Cutoff THEN p ELSE 2 ^ (p - Cutoff) + Cutoff - 1
SuffixLength(p, rice) ==
    IF p < Cutoff THEN rice
    ELSE IF p = 32 - DynamicRange THEN DynamicRange ELSE rice + p - Cutoff

WithOffset(offset, low) == WithBins(low.d, offset + low.bins)

DecodeSuffix(prefix, rice) ==
    WithOffset(Offset(prefix.bins) * 2 ^ rice,
               DecodeBinsEP(prefix.d, SuffixLength(prefix.bins, rice)))

DecodeRemAbs(d, rice) == DecodeSuffix(DecodePrefix(d), rice)

DecodeTrm(d) ==
    LET range == d.range - 2
        cut == [d EXCEPT !.range = range]
    IN  IF d.value >= range * 128 THEN WithBins(cut, 1)
        ELSE WithBins(IF range < 256 THEN Advance([cut EXCEPT !.range = range * 2], 1) ELSE cut, 0)

Decode(d, s) ==
    CASE s.kind = "bin" -> DecodeBin(d)
      [] s.kind = "ep" -> DecodeBinEP(d)
      [] s.kind = "bins" -> DecodeBinsEP(d, s.n)
      [] s.kind = "rem" -> DecodeRemAbs(d, s.n)
      [] s.kind = "trm" -> DecodeTrm(d)

----------------------------------------------------------------------------
(* The value of a symbol; a context coded bin is given relative to its MPS. *)
BinOf(e, s) == IF s.kind = "bin" THEN IF s.v = 1 THEN Mps(e.ctx) ELSE 1 - Mps(e.ctx) ELSE s.v

Encoded(e, s) ==
    CASE s.kind = "bin" -> EncodeBin(e, BinOf(e, s))
      [] s.kind = "ep" -> EncodeBinsEP(e, s.v, 1)
      [] s.kind = "bins" -> EncodeBinsEP(e, s.v, s.n)
      [] s.kind = "rem" -> EncodeRemAbs(e, s.v, s.n)
      [] s.kind = "trm" -> EncodeTrm(e, 0)

Encode(s) ==
    /\ coding = "encode" /\ Len(sent) < SymbolBound
    /\ sent' = Append(sent, [s EXCEPT !.v = BinOf(enc, s)])
    /\ enc' = Encoded(enc, s)
    /\ UNCHANGED <<bytes, dec, decoded, coding>>

(* end_of_slice; then the decoder starts with two bytes. *)
EndSubstream ==
    /\ coding = "encode"
    /\ bytes' = Finish(EncodeTrm(enc, 1))
    /\ dec' = [dec EXCEPT !.failed = Len(bytes') < 2, !.pos = 3,
                          !.value = IF Len(bytes') < 2 THEN 0 ELSE bytes'[1] * 256 + bytes'[2]]
    /\ coding' = "decode"
    /\ UNCHANGED <<sent, enc, decoded>>

(* terminating_bit: a one ends the substream. *)
DecodeSymbol ==
    /\ coding = "decode" /\ ~dec.failed /\ Len(decoded) < Len(sent)
    /\ \E s \in {sent[Len(decoded) + 1]} : \E r \in {Decode(dec, s)} :
           /\ dec' = r.d /\ decoded' = Append(decoded, r.bins)
           /\ coding' = IF s.kind = "trm" /\ r.bins = 1 THEN "ended" ELSE "decode"
    /\ UNCHANGED <<sent, enc, bytes>>

(* terminating_bit and BinDecoderBase::finish, which looks for the stop    *)
(* bit in the last byte read.                                              *)
StopBitFound(d) == (bytes[d.pos - 1] * 2 ^ (8 + d.needed)) % 256 = 128

Terminate ==
    /\ coding = "decode" /\ ~dec.failed /\ Len(decoded) = Len(sent)
    /\ LET r == DecodeTrm(dec)
       IN  dec' = [r.d EXCEPT !.failed = @ \/ r.bins = 0 \/ ~StopBitFound(r.d)]
    /\ coding' = "ended"
    /\ UNCHANGED <<sent, enc, bytes, decoded>>

CoderInit ==
    \E clip \in StateClips :
        /\ sent = <<>> /\ bytes = <<>> /\ decoded = <<>> /\ coding = "encode"
        /\ enc = [low |-> 0, range |-> 510, left |-> 23, held |-> 0, byte |-> 255,
                  out |-> <<>>, ctx |-> Context(clip)]
        /\ dec = [value |-> 0, range |-> 510, needed |-> -8, pos |-> 1, failed |-> FALSE,
                  ctx |-> Context(clip)]

CoderNext ==
    \/ \E s \in Symbols : Encode(s)
    \/ EndSubstream
    \/ DecodeSymbol
    \/ Terminate

CoderSpec == CoderInit /\ [][CoderNext]_coderVars

----------------------------------------------------------------------------
(* The symbols come back, the terminating bin after them, and no CHECK of  *)
(* the decoder fails: "No proper stop/alignment pattern at end of CABAC    *)
(* stream", "Expecting a terminating bit", "FIFO exceeded".  At the end    *)
(* (remaining_bytes(true)) the decoder, which reads ahead, has read the    *)
(* whole substream and no more: the next one starts where it looks for it. *)
SymbolsComeBack ==
    /\ ~dec.failed
    /\ \A k \in DOMAIN decoded : decoded[k] = sent[k].v
    /\ coding = "ended" => dec.pos = Len(bytes) + 1

(* What the code's registers rely on: the interval and the bits that wait  *)
(* fit, and a carry finds a byte that can take it.                         *)
RegistersFit ==
    /\ enc.range \in 64 .. 510 /\ enc.left \in 12 .. 23
    /\ enc.low + enc.range <= 2 ^ (33 - enc.left)
    /\ enc.low >= 2 ^ (32 - enc.left) => enc.held > 0 /\ enc.byte < 255
    /\ \A k \in DOMAIN enc.out : enc.out[k] \in 0 .. 255
    /\ coding = "decode" => dec.value < dec.range * 128
=============================================================================
