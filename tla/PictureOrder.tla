---------------------------- MODULE PictureOrder ----------------------------
(***************************************************************************)
(* Picture order counts: a slice carries the low bits of its picture's     *)
(* POC, and the decoder completes them from the last picture of temporal   *)
(* layer 0 (parseSliceHeader, xUpdatePreviousTid0POC) and takes them alone *)
(* at a CRA picture that starts a sequence (xDecodeSlice).                 *)
(*                                                                         *)
(* One action reads one slice.  The pictures are those of an author who    *)
(* knows their full POCs; a decoder that starts at a CRA picture in the    *)
(* middle, or after skipped pictures, cannot know them, but must order the *)
(* pictures of a sequence as the author does.                              *)
(***************************************************************************)
EXTENDS Integers

CONSTANTS
    MaxLsb,      \* iMaxPOClsb
    PocBound,    \* bound: the author's POCs are in -MaxLsb .. PocBound
    MsbTypes,    \* types of the pictures that may carry the high bits too
    SkipSlices   \* iSkipFrame at the start

PocTypes == {"IDR", "CRA", "RASL", "RADL", "TRAIL"}

(* log2_max_pic_order_cnt_lsb_minus4 allows 16 at least. *)
ASSUME OrderAssumption ==
    /\ MaxLsb \in Nat \ {0} /\ MaxLsb % 2 = 0
    /\ PocBound \in Nat
    /\ MsbTypes \subseteq PocTypes
    /\ SkipSlices \in Nat

VARIABLES
    pic,        \* the picture of the slice read last
    anchor,     \* the author's POC of the last picture of layer 0
    fresh,      \* nothing has been read since the start or an EOS NAL unit
    prevTid0,   \* m_prevTid0POC
    slicePoc,   \* the POC of the slice read last
    firstPoc,   \* the POC of the first slice of its picture
    seqStart,   \* m_firstSliceInSequence
    recovery,   \* m_lastNoOutputBeforeRecoveryFlag
    accessPoc,  \* m_pocRandomAccess
    toSkip,     \* m_iSkipFrame
    offset      \* history: the decoder's POCs less the author's, this sequence

orderVars == <<pic, anchor, fresh, prevTid0, slicePoc, firstPoc, seqStart,
               recovery, accessPoc, toSkip, offset>>

Leading == {"RASL", "RADL"}
Irap == {"IDR", "CRA"}
AuthorPoc == -MaxLsb .. PocBound
OrderPicture == [type : PocTypes, poc : AuthorPoc, tid : {0, 1}, nonRef : BOOLEAN, msb : BOOLEAN]

Unset == PocBound + 2 * MaxLsb      \* MAX_INT: above every POC
NoAccess == -Unset                  \* -MAX_INT

OrderType ==
    /\ pic \in OrderPicture
    /\ anchor \in Int /\ prevTid0 \in Int /\ slicePoc \in Int /\ firstPoc \in Int
    /\ accessPoc \in Int /\ offset \in Int
    /\ fresh \in BOOLEAN /\ seqStart \in BOOLEAN /\ recovery \in BOOLEAN
    /\ toSkip \in Nat

----------------------------------------------------------------------------
(* The author: the POC is less than half a cycle away from that of the     *)
(* last picture of layer 0 where the low bits must do; an IRAP picture is  *)
(* a reference picture of layer 0; one of them follows an EOS NAL unit.    *)
Counts(p) == p.tid = 0 /\ p.type \notin Leading /\ ~p.nonRef

Near(p) == LET d == p.poc - anchor IN -MaxLsb < 2 * d /\ 2 * d < MaxLsb

MayFollow(p) ==
    /\ p.msb => p.type \in MsbTypes /\ p.poc >= 0
    /\ p.type \in Irap => Counts(p)
    /\ p.type = "IDR" => p.poc >= 0 /\ (p.msb \/ p.poc < MaxLsb)
    /\ p.type # "IDR" /\ ~fresh => Near(p) \/ p.msb
    /\ fresh => p.type \in Irap

----------------------------------------------------------------------------
(* parseSliceHeader.  The mutant before it lacks one of the two cases.     *)
CompletedUpwards(lsb) ==
    LET prevLsb == prevTid0 % MaxLsb
        prevMsb == prevTid0 - prevLsb
    IN  IF lsb < prevLsb /\ prevLsb - lsb >= MaxLsb \div 2 THEN prevMsb + MaxLsb + lsb
        ELSE prevMsb + lsb

Completed(lsb) ==
    LET prevLsb == prevTid0 % MaxLsb
        prevMsb == prevTid0 - prevLsb
    IN  IF lsb < prevLsb /\ prevLsb - lsb >= MaxLsb \div 2 THEN prevMsb + MaxLsb + lsb
        ELSE IF lsb > prevLsb /\ lsb - prevLsb > MaxLsb \div 2 THEN prevMsb - MaxLsb + lsb
        ELSE prevMsb + lsb

ParsedPoc(p) ==
    IF p.msb THEN (p.poc \div MaxLsb) * MaxLsb + (p.poc % MaxLsb)
    ELSE IF p.type = "IDR" THEN p.poc % MaxLsb
    ELSE Completed(p.poc % MaxLsb)

(* NoOutputBeforeRecoveryFlag of the slice, kept for the CRA pictures.     *)
RecoveryAt(p) == IF p.type = "CRA" THEN seqStart ELSE recovery

(* The POC the slice gets in the end.                                      *)
SlicePoc(p) ==
    IF p.type = "CRA" /\ RecoveryAt(p) THEN ParsedPoc(p) % MaxLsb ELSE ParsedPoc(p)

(* isRandomAccessSkipPicture. *)
IsSkipped(p) ==
    \/ toSkip > 0
    \/ accessPoc = Unset /\ p.type \notin Irap
    \/ accessPoc # Unset /\ p.type = "RASL" /\ SlicePoc(p) < accessPoc

AccessPoc(p) ==
    IF toSkip > 0 THEN accessPoc
    ELSE IF p.type = "IDR" THEN NoAccess
    ELSE IF p.type = "CRA" /\ accessPoc = Unset THEN SlicePoc(p)
    ELSE accessPoc

ReadSlice(p) ==
    /\ slicePoc' = SlicePoc(p)
    /\ prevTid0' = IF Counts(p) THEN SlicePoc(p) ELSE prevTid0
    /\ recovery' = RecoveryAt(p)
    /\ accessPoc' = AccessPoc(p)
    /\ toSkip' = IF toSkip > 0 THEN toSkip - 1 ELSE 0
    /\ seqStart' = (seqStart /\ IsSkipped(p))
    /\ offset' = IF seqStart \/ p.type = "IDR" THEN SlicePoc(p) - p.poc ELSE offset

FirstSlice(p) ==
    /\ MayFollow(p)
    /\ pic' = p
    /\ anchor' = IF Counts(p) THEN p.poc ELSE anchor
    /\ fresh' = FALSE
    /\ ReadSlice(p)
    /\ firstPoc' = SlicePoc(p)

OtherSlice ==
    /\ ~fresh
    /\ ReadSlice(pic)
    /\ UNCHANGED <<pic, anchor, fresh, firstPoc>>

EndOfSequence ==
    /\ ~fresh
    /\ fresh' = TRUE /\ seqStart' = TRUE
    /\ accessPoc' = Unset
    /\ UNCHANGED <<pic, anchor, prevTid0, slicePoc, firstPoc, recovery, toSkip, offset>>

(* The stream may have been cut: its first picture is any picture.         *)
OrderInit ==
    /\ pic = [type |-> "TRAIL", poc |-> 0, tid |-> 0, nonRef |-> FALSE, msb |-> FALSE]
    /\ anchor = 0 /\ fresh = FALSE
    /\ prevTid0 = 0 /\ slicePoc = 0 /\ firstPoc = 0
    /\ seqStart = TRUE /\ recovery = FALSE
    /\ accessPoc = Unset /\ toSkip = SkipSlices
    /\ offset = 0

OrderNext ==
    \/ \E p \in OrderPicture : FirstSlice(p)
    \/ OtherSlice
    \/ EndOfSequence

OrderSpec == OrderInit /\ [][OrderNext]_orderVars

----------------------------------------------------------------------------
(* From the slice that starts a sequence on, whatever was cut, skipped or  *)
(* wrapped around, every slice of it gets the author's POC, less the       *)
(* multiple of the cycle by which the first one differs: the slices of a   *)
(* picture agree and the pictures are in the author's order.               *)
PocFollows ==
    ~seqStart => /\ slicePoc = pic.poc + offset
                 /\ offset % MaxLsb = 0
                 /\ pic.type = "IDR" => offset = 0

(* xDecodeSlice: "we should only get a different poc for a new picture     *)
(* (with CTU address==0)".                                                 *)
SamePocInPicture == ~seqStart => slicePoc = firstPoc
=============================================================================
