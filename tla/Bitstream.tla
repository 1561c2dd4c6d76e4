----------------------------- MODULE Bitstream -----------------------------
(***************************************************************************)
(* The bitstream the decoder reads: coded slice, EOS and end of file, one  *)
(* NAL unit at a time.  No code of the decoder writes it, so this module   *)
(* is the environment: it may produce any single-layer stream of at most   *)
(* PicBound pictures that keeps the order rules the decoder itself states  *)
(* in its CHECKs (checkLeadingPictureRestrictions, checkRPL, checkCRA) and *)
(* that fits the buffer the SPS announces.  Parameter sets, SEI, picture   *)
(* headers and delimiters do not touch the picture buffer and are left     *)
(* out; a picture header travels with the first slice of its picture.      *)
(*                                                                         *)
(*   coded : the pictures of the stream so far, in decoding order          *)
(*   nal   : the NAL unit the decoder will read next                       *)
(*   enc   : the reference decoder of the stream's author: what it keeps   *)
(*           as reference, what waits for output, the last POC it wrote    *)
(***************************************************************************)
EXTENDS PictureBuffer

CONSTANTS
    PicBound,     \* bound: pictures in a stream
    PocBound,     \* bound: POCs are 0 .. PocBound
    SliceBound,   \* bound: slices in a picture
    Types,        \* the picture types a stream may use
    AfterEos,     \* the picture types that may follow an EOS NAL unit
    LeadingSkip,  \* may RASL pictures follow a CRA that starts a sequence?
    CraKeepsRefs, \* may the lists of such a CRA name pictures of before it?
    Losses        \* may a picture be lost on the way to the decoder?

VARIABLES coded, nal, enc

IrapTypes    == {"IDR", "CRA"}
LeadingTypes == {"RASL", "RADL"}
PicTypes     == IrapTypes \cup LeadingTypes \cup {"TRAIL"}

ASSUME StreamAssumption ==
    /\ PicBound \in Nat
    /\ PocBound \in Nat
    /\ SliceBound \in Nat \ {0}
    /\ Types \subseteq PicTypes
    /\ AfterEos \subseteq IrapTypes
    /\ LeadingSkip \in BOOLEAN
    /\ CraKeepsRefs \in BOOLEAN
    /\ Losses \in BOOLEAN

Pocs == 0 .. PocBound

\* start: the picture that starts the coded video sequence; irap: the
\* associated IRAP picture (for an IRAP picture, itself); out: whether the
\* picture header asks for output; rpl: the POCs in the reference lists
CodedPicture ==
    [type : PicTypes, poc : Nat, start : Nat, irap : Nat, rpl : SUBSET Nat, out : BOOLEAN]

NalUnit == [kind : {"PS", "SLICE", "EOS", "EOF"}, id : Nat, addr : Nat]

ParameterSets == [kind |-> "PS", id |-> 0, addr |-> 0]
Slice(id, addr) == [kind |-> "SLICE", id |-> id, addr |-> addr]
Eos == [kind |-> "EOS", id |-> 0, addr |-> 0]
Eof == [kind |-> "EOF", id |-> 0, addr |-> 0]

----------------------------------------------------------------------------
(* Does a picture start a coded video sequence, and must it be shown?  The *)
(* RASL pictures of a CRA that starts a sequence are not output.           *)
StartsCvs(id) == coded[id].start = id

Shown(id) ==
    coded[id].out /\ ~(coded[id].type = "RASL" /\ StartsCvs(coded[id].irap))

(* The pictures of the sequence that is being coded. *)
Current == {i \in DOMAIN coded : coded[i].start = coded[Len(coded)].start}

(* C.5.2 bumping by the author's decoder: the fewest pictures, lowest POC  *)
(* first, that leave no more than "reorder" waiting and no more than       *)
(* "room" pictures in the buffer.                                          *)
Lowest(S, n) == {x \in S : Cardinality({y \in S : y < x}) < n}

Bump(wait, refs, reorder, room) ==
    LET fits(n) == LET left == wait \ Lowest(wait, n)
                   IN  \/ left = {}
                       \/ Cardinality(left) <= reorder /\ Cardinality(left \cup refs) <= room
    IN  Lowest(wait, CHOOSE n \in 0 .. Cardinality(wait) :
                        fits(n) /\ \A m \in 0 .. n - 1 : ~fits(m))

Highest(S) == CHOOSE x \in S : \A y \in S : y <= x

(* The author's decoder after a picture: bumping before it is decoded with *)
(* its reference lists in force, then the additional bumping once it is    *)
(* decoded.                                                                *)
AuthorDecodes(before, pic, shown) ==
    LET first == Bump(before.wait, pic.rpl, NumReorder, MaxDec - 1)
        wait  == (before.wait \ first) \cup (IF shown THEN {pic.poc} ELSE {})
        next  == Bump(wait, {}, NumReorder, Cardinality(wait))
    IN  [refs |-> pic.rpl \cup {pic.poc},
         wait |-> wait \ next,
         last |-> Highest({before.last} \cup first \cup next),
         order |-> ~shown \/ \A x \in {before.last} \cup first : x < pic.poc]

NothingWaits == [refs |-> {}, wait |-> {}, last |-> NoPoc, order |-> TRUE]

----------------------------------------------------------------------------
(* The rules of a conforming picture after the pictures coded so far.      *)
StartOfCvs(type) == type = "IDR" \/ coded = <<>> \/ nal.kind = "EOS"

MayFollow(type) ==
    /\ (coded = <<>>) => type \in IrapTypes
    /\ (nal.kind = "EOS") => type \in AfterEos

PocRules(pic) ==
    IF pic.start > Len(coded)
    THEN pic.type = "IDR" => pic.poc = 0
    ELSE LET irap == coded[Len(coded)].irap
             ofIrap == {i \in Current : coded[i].irap = irap /\ i # irap}
         IN  /\ \A i \in Current : coded[i].poc # pic.poc
             /\ CASE pic.type = "CRA" -> \A i \in Current : coded[i].poc < pic.poc
                  [] pic.type = "TRAIL" -> coded[irap].poc < pic.poc
                  [] pic.type \in LeadingTypes ->
                       /\ pic.poc < coded[irap].poc
                       /\ \A i \in ofIrap : coded[i].type \in LeadingTypes
                       /\ pic.type = "RASL" =>
                            /\ coded[irap].type = "CRA"
                            /\ LeadingSkip \/ ~StartsCvs(irap)
                            /\ \A i \in ofIrap : coded[i].type = "RADL" => pic.poc < coded[i].poc
                            /\ \A i \in Current : i < irap /\ coded[i].type \in IrapTypes
                                                    => coded[i].poc < pic.poc
                       /\ pic.type = "RADL" =>
                            /\ \A i \in Current : i < irap => coded[i].poc < pic.poc
                            /\ \A i \in ofIrap : coded[i].type = "RASL" => coded[i].poc < pic.poc

RplRules(pic) ==
    IF pic.start > Len(coded)
    THEN /\ \A p \in pic.rpl : p < pic.poc
         /\ Cardinality(pic.rpl) < MaxDec
         /\ pic.type = "IDR" \/ ~CraKeepsRefs => pic.rpl = {}
    ELSE LET irap   == coded[Len(coded)].irap
             listed == {i \in Current : coded[i].poc \in pic.rpl}
         IN  /\ pic.rpl \subseteq enc.refs
             /\ Cardinality(pic.rpl) < MaxDec
             /\ pic.type \in {"CRA", "TRAIL"} => \A p \in pic.rpl : p >= coded[irap].poc
             /\ pic.type = "RASL" => \A i \in listed : coded[i].type # "RADL"
             /\ pic.type = "RADL" =>
                    /\ Cardinality(listed) = Cardinality(pic.rpl)
                    /\ \A i \in listed :
                           i = irap \/ (coded[i].type = "RADL" /\ coded[i].irap = irap)

CodedAs(type, poc, rpl, out) ==
    LET id  == Len(coded) + 1
        cvs == StartOfCvs(type)
    IN  [type |-> type, poc |-> poc, rpl |-> rpl, out |-> out,
         start |-> IF cvs THEN id ELSE coded[Len(coded)].start,
         irap |-> IF type \in IrapTypes THEN id ELSE coded[Len(coded)].irap]

Author(pic) ==
    AuthorDecodes(IF pic.start > Len(coded) THEN NothingWaits ELSE enc, pic,
                  pic.out /\ ~(pic.type = "RASL" /\ StartsCvs(pic.irap)))

NextPictures ==
    {pic \in {CodedAs(type, poc, rpl, out) :
                 type \in {t \in Types : MayFollow(t)}, poc \in Pocs,
                 rpl \in SUBSET Pocs, out \in BOOLEAN} :
        Len(coded) < PicBound /\ PocRules(pic) /\ RplRules(pic) /\ Author(pic).order}

----------------------------------------------------------------------------
InitStream ==
    /\ coded = <<>>
    /\ nal = ParameterSets
    /\ enc = NothingWaits

(* What the author puts after the NAL unit the decoder has just read. *)
MoreSlices ==
    /\ nal.kind = "SLICE" /\ nal.addr + 1 < SliceBound
    /\ nal' = Slice(nal.id, nal.addr + 1)
    /\ UNCHANGED <<coded, enc>>

NextPicture ==
    \E pic \in NextPictures :
        /\ coded' = Append(coded, pic)
        /\ enc' = Author(pic)
        /\ nal' = Slice(Len(coded) + 1, 0)

EndOfSequence ==
    /\ nal.kind = "SLICE" /\ AfterEos # {}
    /\ nal' = Eos
    /\ UNCHANGED <<coded, enc>>

EndOfFile ==
    /\ coded # <<>>
    /\ nal' = Eof
    /\ UNCHANGED <<coded, enc>>

NextNal == MoreSlices \/ NextPicture \/ EndOfSequence \/ EndOfFile

(* The picture the decoder would read next never reaches it. *)
LosePicture ==
    /\ Losses /\ nal.kind = "SLICE" /\ nal.addr = 0
    /\ NextPicture \/ EndOfSequence
============================================================================
