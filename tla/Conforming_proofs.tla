--------------------------- MODULE Conforming_proofs ---------------------------
(***************************************************************************)
(* What the decoder does with a conforming stream of any length, for every *)
(* SPS limit: no CHECK fails, and each reference picture list finds the    *)
(* pictures of its own coded video sequence.                               *)
(*                                                                         *)
(* The argument has three parts: what the stream's rules say of a coded    *)
(* picture and the ones before it (CRules); what the flags of the decoder  *)
(* say about the NAL unit that comes next (CShape, CSlices, CFlags, CIrap, *)
(* CFiltered); and what the picture list holds (CList), namely pictures of *)
(* the current coded video sequence alone, with the references of the      *)
(* current picture marked.                                                 *)
(***************************************************************************)
EXTENDS Decoder_proofs

(* A stream that starts with an IRAP picture, and after each EOS NAL unit  *)
(* with an IDR picture, without leading pictures to skip and without loss; *)
(* nothing is skipped on request.                                          *)
Conforming ==
    /\ ~LeadingSkip /\ ~CraKeepsRefs /\ ~Losses
    /\ AfterEos \subseteq {"IDR"}
    /\ SkipFrames = 0

----------------------------------------------------------------------------
(* The stream.  The pictures of a coded video sequence follow each other,  *)
(* and so do those of an IRAP picture.                                     *)
Earlier(cd, id) == {i \in 1 .. id - 1 : cd[i].start = cd[id].start}

Placed(cd, id) ==
    LET pic == cd[id]
    IN  /\ pic.start \in 1 .. id /\ pic.irap \in pic.start .. id
        /\ cd[pic.irap].type \in IrapTypes
        /\ (pic.type \in IrapTypes) <=> (pic.irap = id)
        /\ pic.type = "IDR" => pic.start = id
        /\ pic.poc <= PocBound
        /\ Cardinality(pic.rpl) < MaxDec
        /\ \A i \in pic.start .. id : cd[i].start = pic.start
        /\ \A i \in pic.irap .. id : cd[i].irap = pic.irap

(* The first picture of a sequence. *)
FirstOfCvs(cd, id) ==
    cd[id].start = id =>
        cd[id].rpl = {} /\ cd[id].irap = id /\ (id # 1 => cd[id].type = "IDR")

(* The order rules of a further picture, by its type; irap is the IRAP     *)
(* picture that the one before it is associated with.                      *)
ByType(cd, id, irap0) ==
    LET pic    == cd[id]
        ofIrap == {i \in Earlier(cd, id) : cd[i].irap = irap0 /\ i # irap0}
    IN  /\ pic.type = "CRA" => \A i \in Earlier(cd, id) : cd[i].poc < pic.poc
        /\ pic.type = "TRAIL" => cd[irap0].poc < pic.poc
        /\ pic.type \in LeadingTypes =>
               pic.poc < cd[irap0].poc /\ \A i \in ofIrap : cd[i].type \in LeadingTypes
        /\ pic.type = "RASL" =>
               /\ cd[irap0].type = "CRA" /\ cd[irap0].start # irap0
               /\ \A i \in ofIrap : cd[i].type = "RADL" => pic.poc < cd[i].poc
               /\ \A i \in Earlier(cd, id) :
                      i < irap0 /\ cd[i].type \in IrapTypes => cd[i].poc < pic.poc
        /\ pic.type = "RADL" => \A i \in Earlier(cd, id) : i < irap0 => cd[i].poc < pic.poc
        /\ pic.type \in {"CRA", "TRAIL"} => \A p \in pic.rpl : p >= cd[irap0].poc
        /\ pic.type = "RADL" =>
               \A i \in Earlier(cd, id) :
                   cd[i].poc \in pic.rpl => i >= irap0 /\ cd[i].type # "RASL"

FurtherOfCvs(cd, id) ==
    cd[id].start # id =>
        /\ \A i \in Earlier(cd, id) : cd[i].poc # cd[id].poc
        /\ \A p \in cd[id].rpl : \E i \in Earlier(cd, id) : cd[i].poc = p
        /\ cd[id].rpl \subseteq cd[id - 1].rpl \cup {cd[id - 1].poc}
        /\ ByType(cd, id, cd[id - 1].irap)

Lawful(cd, id) == Placed(cd, id) /\ FirstOfCvs(cd, id) /\ FurtherOfCvs(cd, id)

(* The author's decoder keeps the references of the last picture. *)
CRules ==
    /\ \A id \in DOMAIN coded : Lawful(coded, id)
    /\ coded # <<>> =>
           enc.refs = coded[Len(coded)].rpl \cup {coded[Len(coded)].poc}

(* The same stream, as far as a picture.                                   *)
SameUpTo(n, cd, old) == \A i \in 1 .. n : cd[i] = old[i]

(* What is said of a picture is said of the pictures up to it.             *)
LEMMA LawfulStays ==
    ASSUME NEW n \in Nat, NEW id \in 1 .. n, NEW cd, NEW old, SameUpTo(n, cd, old),
           \A i \in 1 .. id : Lawful(old, i)
    PROVE  Lawful(cd, id)
<1>1. \A i \in 1 .. id : cd[i] = old[i]
    BY DEF SameUpTo
<1>2. cd[id] = old[id]
    BY <1>1
<1>3. Earlier(cd, id) = Earlier(old, id)
    BY <1>1 DEF Earlier
<1>4. \A i \in Earlier(old, id) : i \in 1 .. id /\ cd[i] = old[i]
    BY <1>1 DEF Earlier
<1>5. Placed(old, id) /\ FirstOfCvs(old, id) /\ FurtherOfCvs(old, id)
    BY DEF Lawful
<1>6. old[id].start \in 1 .. id /\ old[id].irap \in old[id].start .. id
    BY <1>5 DEF Placed
<1>7. Placed(cd, id)
    BY <1>1, <1>2, <1>5, <1>6 DEF Placed
<1>8. FirstOfCvs(cd, id)
    BY <1>2, <1>5 DEF FirstOfCvs
<1>9. FurtherOfCvs(cd, id)
    <2> SUFFICES ASSUME old[id].start # id PROVE FurtherOfCvs(cd, id)
        BY <1>2 DEF FurtherOfCvs
    <2> DEFINE irap0 == old[id - 1].irap
    <2>1. id - 1 \in 1 .. id /\ cd[id - 1] = old[id - 1]
        BY <1>1, <1>6
    <2>2. irap0 \in 1 .. id
        BY <2>1 DEF Lawful, Placed
    <2>3. cd[irap0] = old[irap0]
        BY <1>1, <2>2
    <2>4. ByType(old, id, irap0)
        BY <1>5 DEF FurtherOfCvs
    <2> HIDE DEF irap0
    <2>5. {i \in Earlier(cd, id) : cd[i].irap = irap0 /\ i # irap0}
            = {i \in Earlier(old, id) : old[i].irap = irap0 /\ i # irap0}
        BY <1>3, <1>4
    <2>6. ByType(cd, id, irap0)
        BY <1>2, <1>3, <1>4, <2>3, <2>4, <2>5 DEF ByType
    <2> QED
        BY <1>2, <1>3, <1>4, <1>5, <2>1, <2>6 DEF FurtherOfCvs, irap0
<1> QED
    BY <1>7, <1>8, <1>9 DEF Lawful

(* A further picture keeps the rules, by the rules of NextPictures.        *)
LEMMA NextPictureKeepsRules ==
    ASSUME Conforming, StreamType, CRules, NextPicture
    PROVE  /\ CRules' /\ nal' = Slice(Len(coded'), 0)
           /\ Len(coded') = Len(coded) + 1
           /\ SameUpTo(Len(coded), coded', coded)
           /\ nal.kind = "EOS" => coded'[Len(coded')].type = "IDR"
<1> DEFINE n == Len(coded)
           id == n + 1
<1>1. PICK pic \in NextPictures :
          coded' = Append(coded, pic) /\ enc' = Author(pic) /\ nal' = Slice(n + 1, 0)
    BY DEF NextPicture
<1>2. coded \in Seq(CodedPicture) /\ n \in Nat /\ DOMAIN coded = 1 .. n
    BY DEF StreamType
<1>3. pic \in CodedPicture
    BY <1>1, NextPicturesCoded
<1>4. /\ PocRules(pic) /\ RplRules(pic)
      /\ \E type \in {t \in Types : MayFollow(t)}, poc \in Pocs, rpl \in SUBSET Pocs, out \in BOOLEAN :
             pic = CodedAs(type, poc, rpl, out)
    BY DEF NextPictures
<1>5. /\ MayFollow(pic.type) /\ pic.poc \in Pocs
      /\ pic.start = IF StartOfCvs(pic.type) THEN id ELSE coded[n].start
      /\ pic.irap = IF pic.type \in IrapTypes THEN id ELSE coded[n].irap
    BY <1>4 DEF CodedAs
<1> DEFINE cd == Append(coded, pic)
<1>6. Len(cd) = id /\ cd[id] = pic /\ SameUpTo(n, cd, coded) /\ DOMAIN cd = 1 .. id
    BY <1>2, <1>3 DEF SameUpTo
<1> HIDE DEF cd
<1>7. \A i \in 1 .. n : cd[i] = coded[i]
    BY <1>6 DEF SameUpTo
<1>8. \A i \in 1 .. n : Lawful(coded, i) /\ Lawful(cd, i)
    <2>1. \A i \in 1 .. n : Lawful(coded, i)
        BY <1>2 DEF CRules
    <2> TAKE i \in 1 .. n
    <2>2. \A j \in 1 .. i : Lawful(coded, j)
        BY <1>2, <2>1
    <2> QED
        BY <1>2, <1>6, <2>1, <2>2, LawfulStays
<1>9. /\ pic.poc <= PocBound
      /\ Cardinality(pic.rpl) < MaxDec
      /\ enc'.refs = pic.rpl \cup {pic.poc}
    <2>1. enc'.refs = pic.rpl \cup {pic.poc}
        BY <1>1 DEF Author, AuthorDecodes
    <2>2. Cardinality(pic.rpl) < MaxDec
        BY <1>4 DEF RplRules
    <2> QED
        BY <1>5, <2>1, <2>2, StreamAssumption DEF Pocs
<1> HIDE DEF n
<1>10. Lawful(cd, id) /\ (nal.kind = "EOS" => pic.type = "IDR")
  <2>1. CASE StartOfCvs(pic.type)
    <3>1. pic.type \in IrapTypes /\ (id # 1 => pic.type = "IDR") /\ (nal.kind = "EOS" => pic.type = "IDR")
        <4>1. coded = <<>> => id = 1
            BY DEF n
        <4>2. nal.kind = "EOS" => pic.type = "IDR"
            BY <1>5 DEF MayFollow, Conforming
        <4>3. id # 1 => pic.type = "IDR"
            BY <2>1, <4>1, <4>2 DEF StartOfCvs
        <4>4. coded = <<>> => pic.type \in IrapTypes
            BY <1>5 DEF MayFollow
        <4> QED
            BY <2>1, <4>2, <4>3, <4>4 DEF StartOfCvs, IrapTypes
    <3>2. pic.start = id /\ pic.irap = id
        BY <2>1, <3>1, <1>5
    <3>3. pic.rpl = {}
        <4>1. pic.start > Len(coded)
            BY <3>2, <1>2 DEF n
        <4> QED
            BY <4>1, <1>4 DEF RplRules, Conforming
    <3>4. Placed(cd, id)
        <4>1. id \in 1 .. id /\ \A i \in id .. id : cd[i] = pic
            BY <1>2, <1>6
        <4> HIDE DEF id
        <4> QED
            BY <4>1, <3>1, <3>2, <1>6, <1>9 DEF Placed
    <3> QED
        BY <3>1, <3>2, <3>3, <3>4, <1>6 DEF Lawful, FirstOfCvs, FurtherOfCvs
  <2>2. CASE ~StartOfCvs(pic.type)
    <3> DEFINE last == coded[n]
    <3>1. n # 0 /\ pic.type # "IDR" /\ nal.kind # "EOS" /\ n \in 1 .. n
        <4>1. n = 0 => coded = <<>>
            BY <1>2 DEF n
        <4> QED
            BY <4>1, <2>2, <1>2 DEF StartOfCvs
    <3>2. /\ cd[n] = last /\ pic.start = last.start
          /\ pic.irap = IF pic.type \in IrapTypes THEN id ELSE last.irap
        BY <2>2, <3>1, <1>5, <1>7
    <3>3. Placed(coded, n)
        BY <3>1, <1>8 DEF Lawful
    <3>4. last.start \in 1 .. n /\ last.irap \in last.start .. n
        BY <3>3 DEF Placed
    <3> DEFINE irap0 == last.irap
    <3>5. irap0 \in 1 .. n /\ cd[irap0] = coded[irap0] /\ irap0 # id
        BY <3>4, <1>2, <1>7
    <3>6. pic.start # id /\ ~(pic.start > Len(coded))
        BY <3>2, <3>4, <1>2 DEF n
    <3>7. Placed(cd, id)
        <4>1. pic.start \in 1 .. id /\ pic.irap \in pic.start .. id
            BY <3>2, <3>4, <1>2
        <4>2. (pic.type \in IrapTypes) <=> (pic.irap = id)
            BY <3>2, <3>5
        <4>3. cd[pic.irap].type \in IrapTypes
            <5>1. coded[last.irap].type \in IrapTypes
                BY <3>3 DEF Placed
            <5> QED
                BY <5>1, <3>2, <3>5, <1>6
        <4>4. \A i \in pic.start .. id : cd[i].start = pic.start
            <5> TAKE i \in pic.start .. id
            <5>1. CASE i = id
                BY <5>1, <1>6
            <5>2. CASE i # id
                <6>1. i \in last.start .. n /\ i \in 1 .. n
                    BY <5>2, <3>2, <3>4, <1>2
                <6>2. coded[i].start = last.start
                    BY <6>1, <3>3 DEF Placed
                <6> QED
                    BY <6>1, <6>2, <3>2, <1>7
            <5> QED
                BY <5>1, <5>2
        <4>5. \A i \in pic.irap .. id : cd[i].irap = pic.irap
            <5> TAKE i \in pic.irap .. id
            <5>1. CASE i = id
                BY <5>1, <1>6
            <5>2. CASE i # id
                <6>1. pic.irap # id
                    BY <5>2, <1>2
                <6>2. pic.irap = last.irap /\ i \in last.irap .. n /\ i \in 1 .. n
                    BY <5>2, <6>1, <3>2, <3>4, <1>2
                <6>3. coded[i].irap = last.irap
                    BY <6>2, <3>3 DEF Placed
                <6> QED
                    BY <6>2, <6>3, <1>7
            <5> QED
                BY <5>1, <5>2
        <4> QED
            BY <4>1, <4>2, <4>3, <4>4, <4>5, <3>1, <1>6, <1>9 DEF Placed
    <3>8. Current = Earlier(cd, id) /\ \A i \in Current : i \in 1 .. n /\ cd[i] = coded[i]
        <4>1. Current = {i \in 1 .. n : coded[i].start = last.start}
            BY <1>2 DEF Current, n
        <4>2. id - 1 = n
            BY <1>2
        <4>3. Earlier(cd, id) = {i \in 1 .. n : cd[i].start = last.start}
            BY <4>2, <3>2, <1>6 DEF Earlier
        <4> QED
            BY <4>1, <4>3, <1>7
    <3>9. FurtherOfCvs(cd, id)
        <4>1. \A i \in Earlier(cd, id) : cd[i].poc # pic.poc
            BY <3>6, <3>8, <1>4 DEF PocRules
        <4>2. pic.rpl \subseteq last.rpl \cup {last.poc}
            BY <3>1, <3>6, <1>2, <1>4 DEF RplRules, CRules, n
        <4>3. \A p \in pic.rpl : \E i \in Earlier(cd, id) : cd[i].poc = p
            <5> SUFFICES ASSUME NEW p \in pic.rpl PROVE \E i \in Current : coded[i].poc = p
                BY <3>8
            <5>1. CASE p = last.poc
                BY <5>1, <3>1, <1>2 DEF Current, n
            <5>2. CASE p \in last.rpl
                <6>1. FirstOfCvs(coded, n) /\ FurtherOfCvs(coded, n)
                    BY <3>1, <1>8 DEF Lawful
                <6>2. \E i \in Earlier(coded, n) : coded[i].poc = p
                    BY <6>1, <5>2 DEF FirstOfCvs, FurtherOfCvs
                <6>3. Earlier(coded, n) \subseteq Current
                    BY <1>2 DEF Earlier, Current, n
                <6> QED
                    BY <6>2, <6>3
            <5> QED
                BY <4>2, <5>1, <5>2
        <4>4. ByType(cd, id, irap0)
            <5> DEFINE ofIrap == {i \in Current : coded[i].irap = irap0 /\ i # irap0}
            <5>1. ofIrap = {i \in Earlier(cd, id) : cd[i].irap = irap0 /\ i # irap0}
                BY <3>8
            <5>2. irap0 = coded[Len(coded)].irap
                BY DEF n
            <5>3. /\ pic.type = "CRA" => \A i \in Current : coded[i].poc < pic.poc
                  /\ pic.type = "TRAIL" => coded[irap0].poc < pic.poc
                <6>1. "CRA" \notin LeadingTypes /\ "TRAIL" \notin LeadingTypes
                    BY DEF LeadingTypes
                <6> QED
                    BY <6>1, <5>2, <3>6, <1>4 DEF PocRules
            <5>4. pic.type \in LeadingTypes =>
                     /\ pic.poc < coded[irap0].poc
                     /\ \A i \in ofIrap : coded[i].type \in LeadingTypes
                <6> SUFFICES ASSUME pic.type \in LeadingTypes
                             PROVE  /\ pic.poc < coded[irap0].poc
                                    /\ \A i \in ofIrap : coded[i].type \in LeadingTypes
                    OBVIOUS
                <6>1. pic.type # "CRA" /\ pic.type # "TRAIL"
                    BY DEF LeadingTypes
                <6> QED
                    BY <6>1, <5>2, <3>6, <1>4 DEF PocRules
            <5>5. pic.type = "RASL" =>
                     /\ coded[irap0].type = "CRA" /\ coded[irap0].start # irap0
                     /\ \A i \in ofIrap : coded[i].type = "RADL" => pic.poc < coded[i].poc
                     /\ \A i \in Current :
                            i < irap0 /\ coded[i].type \in IrapTypes => coded[i].poc < pic.poc
                <6> SUFFICES ASSUME pic.type = "RASL"
                             PROVE  /\ coded[irap0].type = "CRA" /\ coded[irap0].start # irap0
                                    /\ \A i \in ofIrap : coded[i].type = "RADL" => pic.poc < coded[i].poc
                                    /\ \A i \in Current :
                                           i < irap0 /\ coded[i].type \in IrapTypes => coded[i].poc < pic.poc
                    OBVIOUS
                <6>1. pic.type \in LeadingTypes /\ pic.type # "CRA" /\ pic.type # "TRAIL"
                    BY DEF LeadingTypes
                <6> QED
                    BY <6>1, <5>2, <3>6, <1>4 DEF PocRules, Conforming, StartsCvs
            <5>6. pic.type = "RADL" => \A i \in Current : i < irap0 => coded[i].poc < pic.poc
                <6> SUFFICES ASSUME pic.type = "RADL"
                             PROVE  \A i \in Current : i < irap0 => coded[i].poc < pic.poc
                    OBVIOUS
                <6>1. pic.type \in LeadingTypes /\ pic.type # "CRA" /\ pic.type # "TRAIL"
                    BY DEF LeadingTypes
                <6> QED
                    BY <6>1, <5>2, <3>6, <1>4 DEF PocRules
            <5>7. pic.type \in {"CRA", "TRAIL"} => \A p \in pic.rpl : p >= coded[irap0].poc
                BY <5>2, <3>6, <1>4 DEF RplRules
            <5>8. pic.type = "RADL" => \A i \in Current : coded[i].poc \in pic.rpl =>
                                                    i >= irap0 /\ coded[i].type # "RASL"
                <6> SUFFICES ASSUME pic.type = "RADL", NEW i \in Current, coded[i].poc \in pic.rpl
                             PROVE  i >= irap0 /\ coded[i].type # "RASL"
                    OBVIOUS
                <6>1. i = irap0 \/ (coded[i].type = "RADL" /\ coded[i].irap = irap0)
                    BY <5>2, <3>6, <1>4 DEF RplRules
                <6>4. coded[irap0].type # "RASL"
                    BY <3>3 DEF Placed, IrapTypes
                <6>2. i \in 1 .. n
                    BY <3>8
                <6>3. coded[i].irap \in 1 .. i
                    BY <6>2, <1>8 DEF Lawful, Placed
                <6> QED
                    BY <6>1, <6>2, <6>3, <6>4, <3>5
            <5> HIDE DEF irap0, last, ofIrap
            <5> QED
                BY <5>1, <5>3, <5>4, <5>5, <5>6, <5>7, <5>8, <3>5, <3>8, <1>6 DEF ByType
        <4>5. id - 1 = n
            BY <1>2
        <4> QED
            BY <4>1, <4>2, <4>3, <4>4, <4>5, <3>2, <1>6 DEF FurtherOfCvs
    <3> QED
        BY <3>1, <3>6, <3>7, <3>9, <1>6 DEF Lawful, FirstOfCvs
  <2> QED
    BY <2>1, <2>2
<1>11. \A i \in 1 .. id : Lawful(cd, i)
    BY <1>2, <1>8, <1>10
<1>12. coded' = cd
    BY <1>1 DEF cd, n
<1> QED
    BY <1>1, <1>6, <1>9, <1>10, <1>11, <1>12 DEF CRules, n

(* What comes after the NAL unit that has just been read.                  *)
ContinuesPicture ==
    nal.kind = "SLICE" /\ nal' = Slice(nal.id, nal.addr + 1) /\ UNCHANGED <<coded, enc>>

ContinuesWithPicture ==
    /\ nal' = Slice(Len(coded'), 0) /\ Len(coded') = Len(coded) + 1
    /\ nal.kind = "EOS" => coded'[Len(coded')].type = "IDR"
    /\ NextPicture

ContinuesWithEos ==
    nal.kind = "SLICE" /\ nal' = Eos /\ UNCHANGED <<coded, enc>> /\ AfterEos # {}

ContinuesWithEof == coded # <<>> /\ nal' = Eof /\ UNCHANGED <<coded, enc>>

(* The stream goes on with one of them, and keeps its rules.               *)
LEMMA NextNalContinues ==
    ASSUME Conforming, StreamType, CRules, NextNal
    PROVE  /\ CRules' /\ SameUpTo(Len(coded), coded', coded)
           /\ ContinuesPicture \/ ContinuesWithPicture \/ ContinuesWithEos \/ ContinuesWithEof
<1>1. CASE NextPicture
    BY <1>1, NextPictureKeepsRules DEF ContinuesWithPicture
<1>2. CASE ~NextPicture
    <2>1. ContinuesPicture \/ ContinuesWithEos \/ ContinuesWithEof
        BY <1>2 DEF NextNal, MoreSlices, EndOfSequence, EndOfFile, ContinuesPicture,
                    ContinuesWithEos, ContinuesWithEof
    <2>2. UNCHANGED <<coded, enc>>
        BY <2>1 DEF ContinuesPicture, ContinuesWithEos, ContinuesWithEof
    <2> QED
        BY <2>1, <2>2 DEF CRules, SameUpTo
<1> QED
    BY <1>1, <1>2

(* Two pictures of a coded video sequence never have one POC.              *)
LEMMA OnePocEach ==
    ASSUME NEW c \in Nat, NEW cd, \A id \in 1 .. c : Lawful(cd, id),
           NEW i \in 1 .. c, NEW j \in 1 .. c,
           cd[i].start = cd[j].start, cd[i].poc = cd[j].poc
    PROVE  i = j
<1>1. ASSUME NEW k \in 1 .. c, NEW l \in 1 .. c, k < l, cd[k].start = cd[l].start
      PROVE  cd[k].poc # cd[l].poc
    <2>1. k \in Earlier(cd, l)
        BY <1>1 DEF Earlier
    <2>2. cd[l].start # l
        BY <1>1 DEF Lawful, Placed
    <2> QED
        BY <2>1, <2>2 DEF Lawful, FurtherOfCvs
<1> QED
    BY <1>1

----------------------------------------------------------------------------
(* The picture list: pictures of the current coded video sequence, under   *)
(* their own POC, ...                                                      *)
HoldsCvs(cd, c, pics) ==
    \A e \in pics :
        /\ e.id \in 1 .. c /\ cd[e.id].start = cd[c].start /\ e.poc = cd[e.id].poc
        /\ cd[e.id].type \notin IrapTypes => e.assoc = cd[cd[e.id].irap].poc

(* ... among them the references of the current picture and itself, ...    *)
Refs(cd, c) == cd[c].rpl \cup {cd[c].poc}

HoldsRefs(cd, c, pics) ==
    /\ \A e \in pics : e.ref => e.poc \in Refs(cd, c) /\ (e.recon \/ e.id = c)
    /\ \A p \in Refs(cd, c) : \E e \in pics : e.ref /\ e.poc = p

(* ... which are all reconstructed when no picture is being decoded.       *)
AllDecoded(pics) == \A e \in pics : e.ref => e.recon

Holds(cd, c, pics) == HoldsCvs(cd, c, pics) /\ HoldsRefs(cd, c, pics)

(* What the list holds does not depend on the pictures that follow.        *)
LEMMA HoldsStays ==
    ASSUME NEW c \in Nat \ {0}, NEW cd, NEW old, SameUpTo(c, cd, old),
           \A id \in 1 .. c : Lawful(old, id), NEW pics, Holds(old, c, pics)
    PROVE  Holds(cd, c, pics)
<1>1. \A i \in 1 .. c : cd[i] = old[i]
    BY DEF SameUpTo
<1>2. c \in 1 .. c /\ cd[c] = old[c]
    BY <1>1
<1>3. \A i \in 1 .. c : old[i].irap \in 1 .. c
    <2> TAKE i \in 1 .. c
    <2>1. old[i].start \in 1 .. i /\ old[i].irap \in old[i].start .. i
        BY DEF Lawful, Placed
    <2> QED
        BY <2>1
<1>4. HoldsCvs(cd, c, pics)
    <2> SUFFICES ASSUME NEW e \in pics
                 PROVE  /\ e.id \in 1 .. c /\ cd[e.id].start = cd[c].start /\ e.poc = cd[e.id].poc
                        /\ cd[e.id].type \notin IrapTypes => e.assoc = cd[cd[e.id].irap].poc
        BY DEF HoldsCvs
    <2>1. e.id \in 1 .. c
        BY DEF Holds, HoldsCvs
    <2>2. cd[e.id] = old[e.id] /\ cd[old[e.id].irap] = old[old[e.id].irap]
        BY <2>1, <1>1, <1>3
    <2> QED
        BY <2>1, <2>2, <1>2 DEF Holds, HoldsCvs
<1>5. HoldsRefs(cd, c, pics)
    BY <1>2 DEF Holds, HoldsRefs, Refs
<1> QED
    BY <1>4, <1>5 DEF Holds

(* Finishing the current picture.                                          *)
LEMMA HoldsFinished ==
    ASSUME NEW D, NEW list \in Seq(PicturesOf(D)), NEW cd, NEW c, NEW output \in BOOLEAN,
           Holds(cd, c, PicturesIn(list))
    PROVE  LET new == PicturesIn(FinishPicture(list, c, output))
           IN  Holds(cd, c, new) /\ AllDecoded(new)
<1> DEFINE pics == PicturesIn(list)
           new == PicturesIn(FinishPicture(list, c, output))
<1>1. new = {FinishedAs(e, c, output) : e \in pics}
    BY PicturesFinished
<1>2. pics \subseteq PicturesOf(D)
    BY PicturesInType
<1> HIDE DEF pics, new
<1>3. ASSUME NEW e \in pics
      PROVE  LET f == FinishedAs(e, c, output)
             IN  /\ f.id = e.id /\ f.poc = e.poc /\ f.assoc = e.assoc /\ f.ref = e.ref
                 /\ e.recon => f.recon
                 /\ e.id = c => f.recon
    <2>1. e \in PicturesOf(D)
        BY <1>2
    <2> QED
        BY <2>1 DEF FinishedAs, Reconstructed, PicturesOf
<1>4. HoldsCvs(cd, c, pics) /\ HoldsRefs(cd, c, pics)
    BY DEF Holds, pics
<1>5. HoldsCvs(cd, c, new)
    BY <1>1, <1>3, <1>4 DEF HoldsCvs
<1>6. HoldsRefs(cd, c, new) /\ AllDecoded(new)
    BY <1>1, <1>3, <1>4 DEF HoldsRefs, AllDecoded
<1> QED
    BY <1>5, <1>6 DEF Holds, new

(* An output pass.                                                         *)
LEMMA HoldsWritten ==
    ASSUME NEW D, NEW v, v.list \in Seq(PicturesOf(D)), NEW cd, NEW c,
           Holds(cd, c, PicturesIn(v.list))
    PROVE  LET new == PicturesIn(WriteOutput(v).list)
           IN  Holds(cd, c, new) /\ (AllDecoded(PicturesIn(v.list)) => AllDecoded(new))
<1> DEFINE pics == PicturesIn(v.list)
           new == PicturesIn(WriteOutput(v).list)
<1>1. /\ \A e \in new : \E old \in pics : e \in {old, Displayed(old)}
      /\ \A old \in pics : old \in new \/ Displayed(old) \in new
    BY PicturesWritten
<1>2. pics \subseteq PicturesOf(D)
    BY PicturesInType
<1> HIDE DEF pics, new
<1>3. ASSUME NEW e \in pics, NEW f \in {e, Displayed(e)}
      PROVE  /\ f.id = e.id /\ f.poc = e.poc /\ f.assoc = e.assoc /\ f.ref = e.ref
             /\ e.ref /\ e.recon => f.recon
    <2>1. e \in PicturesOf(D)
        BY <1>2
    <2>2. Updates(D, Displayed(e), e)
        BY <2>1, FlagUpdates
    <2> QED
        BY <2>1, <2>2, FlagValues DEF Updates
<1>4. HoldsCvs(cd, c, pics) /\ HoldsRefs(cd, c, pics)
    BY DEF Holds, pics
<1>5. HoldsCvs(cd, c, new)
    <2> SUFFICES ASSUME NEW f \in new
                 PROVE  /\ f.id \in 1 .. c /\ cd[f.id].start = cd[c].start /\ f.poc = cd[f.id].poc
                        /\ cd[f.id].type \notin IrapTypes => f.assoc = cd[cd[f.id].irap].poc
        BY DEF HoldsCvs
    <2>1. PICK e \in pics : f \in {e, Displayed(e)}
        BY <1>1
    <2>2. f.id = e.id /\ f.poc = e.poc /\ f.assoc = e.assoc
        BY <2>1, <1>3
    <2> QED
        BY <2>2, <1>4 DEF HoldsCvs
<1>6. \A f \in new : \E e \in pics :
          f.id = e.id /\ f.poc = e.poc /\ f.ref = e.ref /\ (e.ref /\ e.recon => f.recon)
    BY <1>1, <1>3
<1>7. \A e \in pics : \E f \in new : f.poc = e.poc /\ f.ref = e.ref
    BY <1>1, <1>3
<1>8. HoldsRefs(cd, c, new)
    BY <1>4, <1>6, <1>7 DEF HoldsRefs
<1>9. AllDecoded(pics) => AllDecoded(new)
    BY <1>6 DEF AllDecoded
<1> QED
    BY <1>5, <1>8, <1>9 DEF Holds, new, pics

(* The first slice of a further picture of the sequence: a buffer that is  *)
(* free holds no reference, so all references of the new picture stay.     *)
LEMMA HoldsStarted ==
    ASSUME NEW c \in Nat \ {0}, NEW cd, \A id \in 1 .. c + 1 : Lawful(cd, id),
           cd \in Seq(CodedPicture), c + 1 \in DOMAIN cd,
           cd[c + 1].start # c + 1,
           NEW list \in Seq(PicturesOf(1 .. c)),
           Holds(cd, c, PicturesIn(list)), AllDecoded(PicturesIn(list)),
           NEW assoc \in Int, assoc = cd[cd[c].irap].poc
    PROVE  Holds(cd, c + 1, PicturesIn(StartPicture(list, c + 1, cd[c + 1].poc, assoc, cd[c + 1].rpl)))
<1> DEFINE n == c + 1
           poc == cd[n].poc
           rpl == cd[n].rpl
           pics == PicturesIn(list)
           fresh == NewPictureIn(n, poc, assoc)
           new == PicturesIn(StartPicture(list, n, poc, assoc, rpl))
<1>1. n \in Nat /\ n \in 1 .. n /\ n - 1 = c /\ c \in 1 .. n
    OBVIOUS
<1>2. poc \in Nat
    <2>1. cd[n] \in CodedPicture
        OBVIOUS
    <2> QED
        BY <2>1 DEF CodedPicture
<1>3. list \in Seq(PicturesOf(1 .. n)) /\ 1 .. n \in SUBSET Nat
    <2> HIDE DEF n
    <2>1. PicturesOf(1 .. c) \subseteq PicturesOf(1 .. n)
        <3>1. \A i \in 1 .. c : i \in 1 .. n
            BY <1>1
        <3> QED
            BY <3>1 DEF PicturesOf
    <2>4. n \in Nat /\ 1 .. n \in SUBSET Nat
        BY <1>1
    <2>2. /\ Len(list) \in Nat /\ DOMAIN list = 1 .. Len(list)
          /\ list \in [1 .. Len(list) -> PicturesOf(1 .. c)]
        OBVIOUS
    <2>3. list \in [1 .. Len(list) -> PicturesOf(1 .. n)]
        BY <2>1, <2>2
    <2>5. list \in Seq(PicturesOf(1 .. n))
        BY <2>2, <2>3, SeqOfPictures
    <2> QED
        BY <2>4, <2>5
<1>4. /\ fresh \in new
      /\ \A e \in new : e = fresh \/ \E old \in pics : e = MarkedFor(old, poc, rpl)
      /\ \A old \in pics : ~Free(old) => MarkedFor(old, poc, rpl) \in new
    <2> HIDE DEF n
    <2> HIDE DEF poc, rpl
    <2> QED
        BY <1>1, <1>2, <1>3, PicturesStarted
<1>5. pics \subseteq PicturesOf(1 .. c)
    BY PicturesInType
<1>6. HoldsCvs(cd, c, pics) /\ HoldsRefs(cd, c, pics) /\ AllDecoded(pics)
    BY DEF Holds
<1>7. /\ Placed(cd, n) /\ Placed(cd, c) /\ FurtherOfCvs(cd, n) /\ FirstOfCvs(cd, c) /\ FurtherOfCvs(cd, c)
    BY <1>1 DEF Lawful
<1> HIDE DEF pics, new, fresh
<1>8. ASSUME NEW e \in pics
      PROVE  LET f == MarkedFor(e, poc, rpl)
             IN  /\ f.id = e.id /\ f.poc = e.poc /\ f.assoc = e.assoc /\ f.recon = e.recon
                 /\ f.ref <=> e.ref /\ (e.poc \in rpl \/ e.poc = poc)
    <2>1. e \in PicturesOf(1 .. c)
        BY <1>5
    <2>2. Remarks(1 .. c, MarkedFor(e, poc, rpl), e)
        BY <2>1, FlagUpdates
    <2> QED
        BY <2>1, <2>2, FlagValues DEF Remarks, Updates
<1>9. /\ fresh.id = n /\ fresh.poc = poc /\ fresh.assoc = assoc /\ fresh.ref = TRUE
    BY DEF fresh, NewPictureIn
<1>10. cd[n].start = cd[c].start
    <2>1. cd[n].start \in 1 .. n /\ \A i \in cd[n].start .. n : cd[i].start = cd[n].start
        BY <1>7 DEF Placed
    <2>2. c \in cd[n].start .. n
        BY <2>1
    <2> QED
        BY <2>1, <2>2
<1>11. cd[n].type \notin IrapTypes => cd[n].irap = cd[c].irap
    <2> SUFFICES ASSUME cd[n].type \notin IrapTypes PROVE cd[n].irap = cd[c].irap
        OBVIOUS
    <2>1. /\ cd[n].irap # n /\ cd[n].irap \in cd[n].start .. n /\ cd[n].start \in 1 .. n
          /\ \A i \in cd[n].irap .. n : cd[i].irap = cd[n].irap
        BY <1>7 DEF Placed
    <2>2. c \in cd[n].irap .. n
        BY <2>1
    <2> QED
        BY <2>1, <2>2
<1>12. HoldsCvs(cd, n, new)
    <2> SUFFICES ASSUME NEW f \in new
                 PROVE  /\ f.id \in 1 .. n /\ cd[f.id].start = cd[n].start /\ f.poc = cd[f.id].poc
                        /\ cd[f.id].type \notin IrapTypes => f.assoc = cd[cd[f.id].irap].poc
        BY DEF HoldsCvs
    <2>1. CASE f = fresh
        BY <2>1, <1>1, <1>9, <1>11
    <2>2. CASE \E e \in pics : f = MarkedFor(e, poc, rpl)
        <3>1. PICK e \in pics : f = MarkedFor(e, poc, rpl)
            BY <2>2
        <3>2. f.id = e.id /\ f.poc = e.poc /\ f.assoc = e.assoc
            BY <3>1, <1>8
        <3>3. /\ e.id \in 1 .. c /\ cd[e.id].start = cd[c].start /\ e.poc = cd[e.id].poc
              /\ cd[e.id].type \notin IrapTypes => e.assoc = cd[cd[e.id].irap].poc
            BY <1>6 DEF HoldsCvs
        <3>4. e.id \in 1 .. n
            BY <3>3
        <3> QED
            BY <3>2, <3>3, <3>4, <1>10
    <2> QED
        BY <2>1, <2>2, <1>4
<1>13. \A f \in new : f.ref => f.poc \in Refs(cd, n) /\ (f.recon \/ f.id = n)
    <2> SUFFICES ASSUME NEW f \in new, f.ref PROVE f.poc \in Refs(cd, n) /\ (f.recon \/ f.id = n)
        OBVIOUS
    <2>1. CASE f = fresh
        BY <2>1, <1>9 DEF Refs
    <2>2. f.ref
        OBVIOUS
    <2>3. CASE \E e \in pics : f = MarkedFor(e, poc, rpl)
        <3>1. PICK e \in pics : f = MarkedFor(e, poc, rpl)
            BY <2>3
        <3>2. /\ f.poc = e.poc /\ f.recon = e.recon
              /\ f.ref <=> e.ref /\ (e.poc \in rpl \/ e.poc = poc)
            BY <3>1, <1>8
        <3>3. e.recon
            BY <2>2, <3>2, <1>6 DEF AllDecoded
        <3> QED
            BY <2>2, <3>2, <3>3 DEF Refs
    <2> QED
        BY <2>1, <2>3, <1>4
<1>14. \A p \in Refs(cd, n) : \E f \in new : f.ref /\ f.poc = p
    <2> TAKE p \in Refs(cd, n)
    <2>1. CASE p = poc
        BY <2>1, <1>4, <1>9
    <2>2. CASE p \in rpl
        <3>1. rpl \subseteq Refs(cd, c)
            BY <1>1, <1>7 DEF FurtherOfCvs, Refs
        <3>2. PICK e \in pics : e.ref /\ e.poc = p
            BY <2>2, <3>1, <1>6 DEF HoldsRefs
        <3>3. e.recon
            BY <3>2, <1>6 DEF AllDecoded
        <3>4. /\ MarkedFor(e, poc, rpl).ref /\ MarkedFor(e, poc, rpl).poc = e.poc
              /\ ~Free(e)
            BY <2>2, <3>2, <3>3, <1>8 DEF Free
        <3>5. MarkedFor(e, poc, rpl) \in new
            BY <3>4, <1>4
        <3> QED
            BY <2>2, <3>2, <3>4, <3>5
    <2> QED
        BY <2>1, <2>2 DEF Refs
<1> QED
    BY <1>12, <1>13, <1>14 DEF Holds, HoldsRefs, new

(* The first slice of a coded video sequence finds the list empty.         *)
LEMMA HoldsFirst ==
    ASSUME NEW c \in Nat \ {0}, NEW cd, Lawful(cd, c), cd[c].start = c,
           cd[c] \in CodedPicture, NEW assoc \in Int
    PROVE  Holds(cd, c, PicturesIn(StartPicture(<<>>, c, cd[c].poc, assoc, cd[c].rpl)))
<1> DEFINE poc == cd[c].poc
           rpl == cd[c].rpl
           fresh == NewPictureIn(c, poc, assoc)
           new == PicturesIn(StartPicture(<<>>, c, poc, assoc, rpl))
           none == <<>>
<1>1. none \in Seq(PicturesOf(1 .. c)) /\ PicturesIn(none) = {} /\ c \in 1 .. c /\ 1 .. c \in SUBSET Nat
    BY DEF PicturesIn
<1>2. poc \in Nat /\ rpl = {} /\ cd[c].irap = c /\ cd[c].type \in IrapTypes
    BY DEF CodedPicture, Lawful, FirstOfCvs, Placed
<1>3. fresh \in new /\ \A e \in new : e = fresh
    <2> HIDE DEF none
    <2>1. LET started == PicturesIn(StartPicture(none, c, poc, assoc, rpl))
          IN  fresh \in started /\ \A e \in started : e = fresh \/ \E old \in {} : TRUE
        <3> HIDE DEF poc, rpl
        <3> QED
            BY <1>1, <1>2, PicturesStarted
    <2> QED
        BY <2>1 DEF none
<1>4. fresh.id = c /\ fresh.poc = poc /\ fresh.ref = TRUE
    BY DEF NewPictureIn
<1> HIDE DEF fresh, new
<1>5. HoldsCvs(cd, c, new)
    BY <1>1, <1>2, <1>3, <1>4 DEF HoldsCvs
<1>6. HoldsRefs(cd, c, new)
    BY <1>2, <1>3, <1>4 DEF HoldsRefs, Refs
<1> QED
    BY <1>5, <1>6 DEF Holds, new

----------------------------------------------------------------------------
(* Slice::xGetRefPic finds the picture that the entry means: no other      *)
(* picture of the list has its POC.                                        *)
LEMMA RefPicFound ==
    ASSUME NEW c \in Nat \ {0}, NEW cd, \A id \in 1 .. c : Lawful(cd, id),
           NEW list \in Seq(PicturesOf(1 .. c)), Holds(cd, c, PicturesIn(list)),
           NEW p \in cd[c].rpl
    PROVE  \E i \in DOMAIN list :
               /\ list[i].poc = p /\ list[i].id = GetRefPic(list, p)
               /\ list[i].id \in Earlier(cd, c) /\ cd[list[i].id].poc = p
               /\ list[i].ref /\ list[i].recon
<1> DEFINE pics == PicturesIn(list)
           at == {i \in DOMAIN list : list[i].poc = p}
<1>1. HoldsCvs(cd, c, pics) /\ HoldsRefs(cd, c, pics)
    BY DEF Holds
<1>2. c \in 1 .. c /\ cd[c].start # c
    BY DEF Lawful, FirstOfCvs
<1>3. PICK i \in DOMAIN list : list[i].ref /\ list[i].poc = p
    BY <1>1 DEF HoldsRefs, Refs, PicturesIn
<1>4. at \in SUBSET Int /\ IsFiniteSet(at) /\ at # {}
    BY <1>3, PositionsFinite
<1>5. PICK k \in at : \A j \in at : k <= j
    BY <1>4, FirstAndLast
<1>6. list[k].poc = p /\ \A j \in 1 .. k - 1 : list[j].poc # p
    <2>1. DOMAIN list = 1 .. Len(list) /\ Len(list) \in Nat
        BY SeqOfPictures
    <2>2. k \in 1 .. Len(list)
        BY <1>5, <2>1
    <2> SUFFICES ASSUME NEW j \in 1 .. k - 1, list[j].poc = p PROVE FALSE
        BY <1>5
    <2>3. j \in at
        BY <2>1, <2>2
    <2> QED
        BY <2>2, <2>3, <1>5
<1>7. PICK l \in DOMAIN list : list[l].poc = p /\ GetRefPic(list, p) = list[l].id
    BY <1>5, <1>6 DEF GetRefPic
<1>8. PICK e \in Earlier(cd, c) : cd[e].poc = p
    BY <1>2 DEF Lawful, FurtherOfCvs
<1>9. ASSUME NEW j \in DOMAIN list, list[j].poc = p PROVE list[j].id = e
    <2>1. list[j] \in pics
        BY DEF PicturesIn
    <2>2. list[j].id \in 1 .. c /\ cd[list[j].id].start = cd[c].start /\ cd[list[j].id].poc = p
        BY <2>1, <1>1, <1>9 DEF HoldsCvs
    <2>3. e \in 1 .. c /\ cd[e].start = cd[c].start
        BY DEF Earlier
    <2> QED
        BY <2>2, <2>3, <1>8, OnePocEach, ZenonT(40)
<1>10. list[i].id = e /\ list[l].id = e
    BY <1>3, <1>7, <1>9
<1>11. list[i].recon
    <2>1. list[i] \in pics /\ e # c
        BY DEF PicturesIn, Earlier
    <2> QED
        BY <2>1, <1>1, <1>3, <1>10 DEF HoldsRefs
<1> QED
    BY <1>3, <1>7, <1>8, <1>10, <1>11

(* What the decoder knows of an IRAP picture that pictures refer to.       *)
IrapRec(cd, id) == [type |-> cd[id].type, poc |-> cd[id].poc, id |-> id]

(* A further picture of a sequence: the IRAP picture that the one before   *)
(* it is associated with, which has the highest POC so far.                *)
LEMMA AssociatedWithLast ==
    ASSUME NEW c \in Nat \ {0}, NEW cd, \A id \in 1 .. c : Lawful(cd, id), cd[c].start # c
    PROVE  LET a == cd[c - 1].irap
           IN  /\ a \in 1 .. c - 1 /\ a \in Earlier(cd, c) /\ c - 1 \in Earlier(cd, c)
               /\ cd[a].type \in IrapTypes
               /\ \A i \in a .. c - 1 : cd[i].irap = a
               /\ \A i \in Earlier(cd, a) : i \in Earlier(cd, c) /\ cd[i].poc < cd[a].poc
               /\ ByType(cd, c, a)
<1> DEFINE a == cd[c - 1].irap
<1>1. c \in 1 .. c /\ Placed(cd, c) /\ FurtherOfCvs(cd, c)
    BY DEF Lawful
<1>2. c - 1 \in 1 .. c /\ cd[c].start \in 1 .. c /\ c # 1
    BY <1>1 DEF Placed
<1>3. /\ a \in cd[c - 1].start .. c - 1 /\ cd[c - 1].start \in 1 .. c - 1
      /\ cd[a].type \in IrapTypes
      /\ \A i \in cd[c - 1].start .. c - 1 : cd[i].start = cd[c - 1].start
      /\ \A i \in a .. c - 1 : cd[i].irap = a
    BY <1>2 DEF Lawful, Placed
<1>4. a \in 1 .. c - 1 /\ a \in 1 .. c
    BY <1>3
<1>5. cd[c - 1].start = cd[c].start /\ cd[a].start = cd[c].start
    <2>1. c - 1 \in cd[c].start .. c
        BY <1>2
    <2>2. cd[c - 1].start = cd[c].start
        BY <2>1, <1>1 DEF Placed
    <2> QED
        BY <2>2, <1>3
<1>6. ByType(cd, c, a)
    BY <1>1 DEF FurtherOfCvs
<1> HIDE DEF a
<1>7. ASSUME NEW i \in Earlier(cd, a)
      PROVE  i \in Earlier(cd, c) /\ cd[i].poc < cd[a].poc
    <2>1. i \in 1 .. a - 1 /\ cd[i].start = cd[a].start
        BY DEF Earlier
    <2>2. i \in 1 .. c - 1 /\ i \in 1 .. c
        BY <2>1, <1>4
    <2>3. cd[a].start # a
        BY <2>1, <2>2, <1>4 DEF Lawful, Placed
    <2>4. cd[a].type = "CRA"
        BY <2>3, <1>3, <1>4 DEF Lawful, Placed, IrapTypes
    <2>5. ByType(cd, a, cd[a - 1].irap)
        BY <2>3, <1>4 DEF Lawful, FurtherOfCvs
    <2> QED
        BY <2>1, <2>2, <2>4, <2>5, <1>5 DEF ByType, Earlier
<1> QED
    BY <1>2, <1>3, <1>4, <1>5, <1>6, <1>7 DEF Earlier, a

(* checkLeadingPictureRestrictions passes.                                 *)
LEMMA LeadingRulesKept ==
    ASSUME NEW c \in Nat \ {0}, nal.id = c, coded \in Seq(CodedPicture), c \in DOMAIN coded,
           \A id \in 1 .. c : Lawful(coded, id),
           NEW list \in Seq(PicturesOf(1 .. c)), HoldsCvs(coded, c, PicturesIn(list)),
           coded[c].start = c \/ irap = IrapRec(coded, coded[c - 1].irap)
    PROVE  ~BreaksLeadingRules(list)
<1>1. Pic = coded[c] /\ c \in 1 .. c /\ \A id \in 1 .. c : coded[id] \in CodedPicture
    BY DEF Pic
<1>2. \A id \in 1 .. c : coded[id].poc \in Nat
    BY <1>1 DEF CodedPicture
<1>3. ASSUME NEW i \in DOMAIN list, list[i].poc # Pic.poc
      PROVE  /\ list[i].id \in Earlier(coded, c) /\ list[i].poc = coded[list[i].id].poc
             /\ coded[list[i].id].type \notin IrapTypes =>
                    list[i].assoc = coded[coded[list[i].id].irap].poc
    <2>1. list[i] \in PicturesIn(list)
        BY DEF PicturesIn
    <2> QED
        BY <1>1, <1>3, <2>1 DEF HoldsCvs, Earlier
<1>4. CASE coded[c].start = c
    <2>1. Earlier(coded, c) = {}
        <3> SUFFICES ASSUME NEW i \in Earlier(coded, c) PROVE FALSE
            OBVIOUS
        <3>1. i \in 1 .. c - 1 /\ coded[i].start = c
            BY <1>4 DEF Earlier
        <3>2. coded[i].start \in 1 .. i
            BY <3>1 DEF Lawful, Placed
        <3> QED
            BY <3>1, <3>2
    <2>2. Pic.type \in IrapTypes
        BY <1>1, <1>4 DEF Lawful, Placed, FirstOfCvs
    <2>3. \A i \in DOMAIN list : list[i].poc = Pic.poc
        BY <2>1, <1>3
    <2>4. Pic.type # "TRAIL" /\ Pic.type \notin LeadingTypes /\ Pic.type # "RASL"
        BY <2>2 DEF IrapTypes, LeadingTypes
    <2> QED
        BY <2>3, <2>4 DEF BreaksLeadingRules
<1>5. CASE coded[c].start # c
    <2> DEFINE a == coded[c - 1].irap
    <2>1. irap = IrapRec(coded, a)
        BY <1>5
    <2>3. /\ a \in 1 .. c - 1 /\ a \in Earlier(coded, c)
          /\ coded[a].type \in IrapTypes
          /\ \A i \in a .. c - 1 : coded[i].irap = a
          /\ \A i \in Earlier(coded, a) : coded[i].poc < coded[a].poc
          /\ ByType(coded, c, a)
        BY <1>5, AssociatedWithLast
    <2>4. a \in 1 .. c - 1 /\ a \in 1 .. c /\ irap.poc = coded[a].poc /\ irap.type = coded[a].type
        BY <2>1, <2>3 DEF IrapRec
    <2>5. ByType(coded, c, a)
        BY <2>3
    <2>6. a \in Earlier(coded, c)
        BY <2>3
    <2> HIDE DEF a
    \* The IRAP pictures of the sequence before a have lower POCs.
    <2>7. ASSUME NEW i \in Earlier(coded, c), coded[i].type \in IrapTypes
          PROVE  i = a \/ (i < a /\ coded[i].poc < coded[a].poc)
        <3>1. i \in 1 .. c - 1 /\ coded[i].start = coded[a].start
            BY <2>6 DEF Earlier
        <3>2. coded[i].irap = i
            BY <2>7, <3>1 DEF Lawful, Placed
        <3>3. i <= a
            <4> SUFFICES ASSUME i > a PROVE FALSE
                BY <3>1, <2>4
            <4>1. i \in a .. c - 1
                BY <3>1, <2>4
            <4> QED
                BY <4>1, <3>2, <2>3, <2>4
        <3>4. ASSUME i < a PROVE coded[i].poc < coded[a].poc
            <4>1. i \in Earlier(coded, a)
                BY <3>1, <3>4, <2>4 DEF Earlier
            <4> QED
                BY <4>1, <2>3
        <3> QED
            BY <3>1, <3>3, <3>4, <2>4
    <2>8. ASSUME NEW i \in Earlier(coded, c), i > a
          PROVE  coded[i].type \notin IrapTypes /\ coded[i].irap = a
        <3>1. i \in a .. c - 1
            BY <2>8, <2>4 DEF Earlier
        <3> QED
            BY <2>7, <2>8, <3>1, <2>3, <2>4
    \* A picture that refers to an IRAP picture with the POC of a refers to a.
    <2>9. ASSUME NEW i \in Earlier(coded, c), coded[i].type \notin IrapTypes,
                 coded[coded[i].irap].poc = coded[a].poc
          PROVE  coded[i].irap = a /\ i # a
        <3>1. i \in 1 .. c - 1 /\ coded[i].start = coded[a].start
            BY <2>6 DEF Earlier
        <3>2. Placed(coded, i)
            BY <3>1 DEF Lawful
        <3>3. /\ coded[i].irap \in coded[i].start .. i /\ coded[i].start \in 1 .. i
              /\ \A j \in coded[i].start .. i : coded[j].start = coded[i].start
            BY <3>2 DEF Placed
        <3>4. coded[i].irap \in 1 .. c /\ a \in 1 .. c /\ coded[coded[i].irap].start = coded[a].start
            BY <3>1, <3>3, <2>4
        <3>5. coded[i].irap = a
            BY <3>4, <2>9, OnePocEach
        <3> QED
            BY <3>5, <2>3, <2>9
    <2>10. ~(irap.poc > Pic.poc /\ Pic.type = "TRAIL")
        <3>1. Pic.type = "TRAIL" => coded[a].poc < Pic.poc
            BY <1>1, <2>5 DEF ByType
        <3> QED
            BY <3>1, <1>1, <1>2, <2>4
    <2>11. Pic.type \in LeadingTypes => Pic.poc < coded[a].poc
        BY <1>1, <2>5 DEF ByType
    <2>12. ~(irap.poc <= Pic.poc /\ Pic.type \in LeadingTypes)
        BY <2>11, <1>1, <1>2, <2>4
    <2>13. ~(Pic.type = "RASL" /\ irap.type = "IDR")
        <3>1. Pic.type = "RASL" => coded[a].type = "CRA"
            BY <1>1, <2>5 DEF ByType
        <3> QED
            BY <3>1, <2>4
    <2>14. ASSUME NEW i \in DOMAIN list, list[i].poc # Pic.poc
           PROVE  LET p    == list[i]
                      type == coded[p.id].type
                  IN  /\ ~(IsIrap /\ p.poc > Pic.poc)
                      /\ ~(Pic.type = "RADL" /\ irap.poc > p.assoc /\ irap.poc # p.poc
                             /\ p.poc > Pic.poc)
                      /\ ~(Pic.type \in LeadingTypes /\ type \notin LeadingTypes
                             /\ p.assoc = irap.poc /\ p.poc > irap.poc)
                      /\ ~(Pic.type = "RASL" /\ type = "RADL" /\ irap.type = "CRA"
                             /\ p.assoc = irap.poc /\ p.poc < Pic.poc)
                      /\ ~(Pic.type = "RASL" /\ type \in IrapTypes /\ irap.type = "CRA"
                             /\ p.poc < irap.poc /\ Pic.poc <= p.poc)
        <3> DEFINE p == list[i]
                   id == p.id
        <3>1. /\ id \in Earlier(coded, c) /\ p.poc = coded[id].poc
              /\ coded[id].type \notin IrapTypes => p.assoc = coded[coded[id].irap].poc
            BY <2>14, <1>3
        <3>2. id \in 1 .. c /\ coded[id].poc \in Nat /\ Pic.poc \in Nat /\ coded[a].poc \in Nat
            BY <3>1, <1>1, <1>2, <2>4 DEF Earlier
        <3> HIDE DEF id, p
        <3>3. ~(IsIrap /\ p.poc > Pic.poc)
            <4>1. IsIrap => Pic.type = "CRA"
                BY <1>1, <1>5 DEF IsIrap, Lawful, Placed, IrapTypes
            <4>2. Pic.type = "CRA" => coded[id].poc < Pic.poc
                BY <1>1, <2>5, <3>1 DEF ByType
            <4> QED
                BY <4>1, <4>2, <3>1, <3>2
        <3>4. ASSUME Pic.type = "RADL", irap.poc > p.assoc, irap.poc # p.poc, p.poc > Pic.poc
              PROVE  FALSE
            <4>1. ~(id < a)
                <5>1. id < a => coded[id].poc < Pic.poc
                    BY <1>1, <2>5, <3>1, <3>4 DEF ByType
                <5> QED
                    BY <5>1, <3>1, <3>2, <3>4
            <4>2. id # a
                BY <3>1, <3>4, <2>4
            <4>3. coded[id].type \notin IrapTypes /\ coded[id].irap = a
                BY <4>1, <4>2, <3>1, <3>2, <2>4, <2>8
            <4> QED
                BY <4>3, <3>1, <3>2, <3>4, <2>4
        <3>5. ASSUME Pic.type \in LeadingTypes, coded[id].type \notin LeadingTypes,
                     p.assoc = irap.poc, p.poc > irap.poc
              PROVE  FALSE
            <4>1. coded[id].type \notin IrapTypes
                BY <2>7, <3>1, <3>2, <3>5, <2>4
            <4>2. coded[id].irap = a /\ id # a
                BY <4>1, <3>1, <3>5, <2>4, <2>9
            <4> QED
                BY <4>2, <3>1, <3>5, <1>1, <2>5 DEF ByType
        <3>6. ASSUME Pic.type = "RASL", coded[id].type = "RADL", p.assoc = irap.poc, p.poc < Pic.poc
              PROVE  FALSE
            <4>1. coded[id].type \notin IrapTypes
                BY <3>6 DEF IrapTypes
            <4>2. coded[id].irap = a /\ id # a
                BY <4>1, <3>1, <3>6, <2>4, <2>9
            <4>3. Pic.poc < coded[id].poc
                BY <4>2, <3>1, <3>6, <1>1, <2>5 DEF ByType
            <4> QED
                BY <4>3, <3>1, <3>2, <3>6
        <3>7. ASSUME Pic.type = "RASL", coded[id].type \in IrapTypes, p.poc < irap.poc,
                     Pic.poc <= p.poc
              PROVE  FALSE
            <4>1. id < a
                BY <2>7, <3>1, <3>2, <3>7, <2>4
            <4>2. coded[id].poc < Pic.poc
                BY <4>1, <3>1, <3>7, <1>1, <2>5 DEF ByType
            <4> QED
                BY <4>2, <3>1, <3>2, <3>7
        <3> QED
            BY <3>3, <3>4, <3>5, <3>6, <3>7 DEF id, p
    <2> QED
        BY <2>10, <2>12, <2>13, <2>14 DEF BreaksLeadingRules
<1> QED
    BY <1>4, <1>5

(* No CHECK of xDecodeSlice fails against such a list.                     *)
LEMMA NoReason ==
    ASSUME NEW c \in Nat \ {0}, nal.id = c, coded \in Seq(CodedPicture), c \in DOMAIN coded,
           \A id \in 1 .. c : Lawful(coded, id),
           NEW list \in Seq(PicturesOf(1 .. c)), Holds(coded, c, PicturesIn(list)),
           coded[c].start = c \/ irap = IrapRec(coded, coded[c - 1].irap)
    PROVE  Reason(list, 0) = "none"
<1> DEFINE a == coded[c - 1].irap
<1>1. Pic = coded[c] /\ c \in 1 .. c /\ \A id \in 1 .. c : coded[id] \in CodedPicture
    BY DEF Pic
<1>2. \A id \in 1 .. c : coded[id].poc \in Nat /\ coded[id].rpl \in SUBSET Nat
    BY <1>1 DEF CodedPicture
<1>3. ~BreaksLeadingRules(list)
    BY LeadingRulesKept DEF Holds
<1>4. ASSUME NEW p \in Pic.rpl
      PROVE  /\ HasPoc(list, p) /\ GetRefPic(list, p) \in Earlier(coded, c)
             /\ coded[GetRefPic(list, p)].poc = p
    BY <1>1, <1>4, RefPicFound DEF HasPoc
<1>5. ASSUME NEW p \in Pic.rpl
      PROVE  /\ coded[c].start # c /\ a \in 1 .. c - 1 /\ coded[a].poc \in Nat
             /\ irap.poc = coded[a].poc /\ irap.id = a
             /\ a \in Earlier(coded, c)
             /\ \A i \in Earlier(coded, a) : coded[i].poc < coded[a].poc
             /\ ByType(coded, c, a)
    <2>1. coded[c].start # c
        BY <1>1, <1>5 DEF Lawful, FirstOfCvs
    <2>2. irap.poc = coded[a].poc /\ irap.id = a
        BY <2>1 DEF IrapRec
    <2> QED
        BY <2>1, <2>2, <1>2, AssociatedWithLast
<1> HIDE DEF a
<1>6. ASSUME NEW p \in Pic.rpl, IsIrap \/ irap.poc < Pic.poc
      PROVE  p >= irap.poc
    <2>1. Pic.type \in PicTypes
        BY <1>1 DEF CodedPicture
    <2>2. Pic.type \notin LeadingTypes
        <3>1. Pic.type \in LeadingTypes => Pic.poc < coded[a].poc
            BY <1>1, <1>5 DEF ByType
        <3>2. Pic.type \in LeadingTypes => ~IsIrap
            BY DEF LeadingTypes, IrapTypes, IsIrap
        <3> QED
            BY <3>1, <3>2, <1>1, <1>2, <1>5, <1>6
    <2>3. Pic.type # "IDR"
        BY <1>1, <1>5 DEF Lawful, Placed
    <2>4. Pic.type \in {"CRA", "TRAIL"}
        BY <2>1, <2>2, <2>3 DEF PicTypes, IrapTypes
    <2> QED
        BY <2>4, <1>1, <1>5 DEF ByType
<1>7. ASSUME NEW p \in Pic.rpl PROVE ~(Pic.poc > irap.poc /\ p < irap.poc)
    <2>1. p \in Nat /\ Pic.poc \in Nat /\ irap.poc \in Nat
        BY <1>1, <1>2, <1>5
    <2> QED
        BY <2>1, <1>6
<1>8. ~BreaksListRules(list)
    <2> SUFFICES ASSUME NEW p \in Pic.rpl,
                        LET ref == GetRefPic(list, p)
                            before == p < irap.poc \/ ref < irap.id
                        IN  \/ (IsIrap \/ irap.poc < Pic.poc) /\ before
                            \/ ref = nal.id
                            \/ Pic.type = "RADL" /\ (ref < irap.id \/ coded[ref].type = "RASL")
                 PROVE  FALSE
        BY DEF BreaksListRules
    <2> DEFINE ref == GetRefPic(list, p)
    <2>1. /\ ref \in Earlier(coded, c) /\ coded[ref].poc = p /\ ref \in 1 .. c - 1
          /\ coded[ref].start = coded[c].start
        BY <1>4 DEF Earlier
    <2>2. p \in Nat /\ Pic.poc \in Nat /\ irap.poc \in Nat /\ a \in 1 .. c - 1
          /\ irap.id = a /\ coded[a].poc = irap.poc /\ coded[a].start = coded[c].start
        BY <1>1, <1>2, <1>5 DEF Earlier
    <2> HIDE DEF ref
    <2>3. ASSUME IsIrap \/ irap.poc < Pic.poc PROVE ~(p < irap.poc \/ ref < irap.id)
        <3>1. p >= irap.poc
            BY <2>3, <1>6
        <3>2. ASSUME ref < a PROVE FALSE
            <4>1. ref \in Earlier(coded, a)
                BY <3>2, <2>1, <2>2 DEF Earlier
            <4> QED
                BY <4>1, <3>1, <1>5, <2>1, <2>2
        <3> QED
            BY <3>1, <3>2, <2>2
    <2>4. Pic.type = "RADL" => ref >= a /\ coded[ref].type # "RASL"
        <3>1. ByType(coded, c, a)
            BY <1>5
        <3> QED
            BY <3>1, <1>1, <2>1 DEF ByType
    <2> QED
        BY <2>1, <2>2, <2>3, <2>4 DEF ref
<1> QED
    BY <1>3, <1>4, <1>7, <1>8 DEF Reason

----------------------------------------------------------------------------
(* The decoder's flags.  The current picture is being decoded: *)
Unfinished == ~firstInPic /\ ~firstInSeq

(* The NAL unit that comes next, and the current picture. *)
CShape ==
    /\ nal.kind = "PS" => cur = 0 /\ coded = <<>>
    /\ nal.kind = "SLICE" =>
           /\ cur = (IF nal.addr = 0 THEN Len(coded) - 1 ELSE Len(coded))
           /\ cur # 0 /\ firstInSeq => nal.addr = 0 /\ coded[Len(coded)].type = "IDR"
           /\ nal.addr > 0 => Unfinished
    /\ nal.kind = "EOS" => cur = Len(coded) /\ cur # 0 /\ Unfinished
    /\ nal.kind = "EOF" => cur = Len(coded) /\ cur # 0
    /\ done => nal.kind = "EOF"

(* Nothing has been read yet. *)
CFresh ==
    cur = 0 => /\ firstInPic /\ firstInSeq /\ view.list = <<>>
               /\ ~prior.on /\ ~eosInPu /\ sliceAddr = -1

(* The slices of a picture come in order. *)
CSlices ==
    /\ nal.kind = "SLICE" /\ nal.addr > 0 => sliceAddr = nal.addr - 1
    /\ nal.kind = "SLICE" /\ nal.addr = 0 /\ (firstInPic \/ firstInSeq) => sliceAddr = -1

(* Within a sequence, the point of random access is the IRAP picture that  *)
(* started it, prior pictures are only dropped after an IDR picture, and   *)
(* after a further CRA picture leading pictures are shown.                 *)
CFlags ==
    /\ fault = "none" /\ skip = 0
    /\ firstInSeq => pocRA = MaxPoc
    /\ ~firstInSeq => pocRA = NoPoc \/ pocRA = coded[coded[cur].start].poc
    /\ prior.on => cur # 0 /\ coded[cur].type = "IDR" /\ prior.poc = coded[cur].poc
    /\ eosInPu => firstInSeq /\ ~firstInPic
    /\ ~firstInSeq /\ coded[cur].irap # coded[cur].start => ~recov /\ ~newCLVS
    /\ Unfinished => hdrOut = coded[cur].out

(* The associated IRAP picture is that of the last finished picture. *)
CIrap ==
    /\ ~firstInSeq /\ firstInPic => irap = IrapRec(coded, coded[cur].irap)
    /\ Unfinished /\ nal.kind # "EOF" /\ coded[cur].start # cur =>
           irap = IrapRec(coded, coded[cur - 1].irap)

CList ==
    cur # 0 /\ ~done =>
        /\ Holds(coded, cur, PicturesIn(view.list))
        /\ ~firstInSeq /\ firstInPic => AllDecoded(PicturesIn(view.list))

(* Only at an EOS NAL unit does the application leave a picture for good:  *)
(* at the end of the file that can still be the one that followed it.      *)
CFiltered ==
    /\ loopFiltered /\ ~firstInSeq => ~firstInPic /\ coded[cur].start = cur
    /\ Unfinished /\ nal.kind = "EOF" => coded[cur].start = cur

CInv == IInv /\ CRules /\ CShape /\ CFresh /\ CSlices /\ CFlags /\ CIrap /\ CList /\ CFiltered

(* The parts of the invariant that the steps use. *)
LEMMA CInvFields ==
    ASSUME CInv
    PROVE  /\ IInv /\ CRules /\ CShape /\ CFresh /\ CSlices /\ CFlags /\ CIrap /\ CList /\ CFiltered
           /\ coded \in Seq(CodedPicture) /\ Len(coded) \in Nat /\ DOMAIN coded = 1 .. Len(coded)
           /\ \A id \in 1 .. Len(coded) : Lawful(coded, id) /\ coded[id] \in CodedPicture
           /\ cur \in Nat /\ cur <= Len(coded)
           /\ \A id \in 1 .. cur : Lawful(coded, id) /\ coded[id] \in CodedPicture
           /\ view \in ViewOf(1 .. cur) /\ Distinct(view.list)
           /\ view.list \in Seq(PicturesOf(1 .. cur))
           /\ firstInPic \in BOOLEAN /\ firstInSeq \in BOOLEAN
<1>1. IInv /\ CRules /\ CShape /\ CFresh /\ CSlices /\ CFlags /\ CIrap /\ CList /\ CFiltered
    BY DEF CInv
<1>2. /\ coded \in Seq(CodedPicture) /\ Len(coded) \in Nat /\ DOMAIN coded = 1 .. Len(coded)
      /\ cur \in Nat /\ cur <= Len(coded)
      /\ view \in ViewOf(1 .. cur) /\ Distinct(view.list)
    BY <1>1, IInvFields DEF StreamType
<1>3. \A id \in 1 .. Len(coded) : Lawful(coded, id) /\ coded[id] \in CodedPicture
    BY <1>1, <1>2 DEF CRules
<1>4. \A id \in 1 .. cur : id \in 1 .. Len(coded)
    BY <1>2
<1>5. firstInPic \in BOOLEAN /\ firstInSeq \in BOOLEAN
    BY <1>1, IInvFields DEF ControlType
<1> QED
    BY <1>1, <1>2, <1>3, <1>4, <1>5, ViewFields

(* updateAssociatedIRAP makes it the associated picture of the one that is *)
(* finished.                                                               *)
LEMMA AssociatedRight ==
    ASSUME NEW c \in Nat \ {0}, \A id \in 1 .. c : Lawful(coded, id),
           coded[c].start # c => irap = IrapRec(coded, coded[c - 1].irap)
    PROVE  AssociatedIrap(irap, c) = IrapRec(coded, coded[c].irap)
<1>1. c \in 1 .. c /\ Placed(coded, c) /\ FirstOfCvs(coded, c)
    BY DEF Lawful
<1>2. CASE coded[c].type \in IrapTypes
    BY <1>1, <1>2 DEF AssociatedIrap, IrapRec, Placed
<1>3. CASE coded[c].type \notin IrapTypes
    <2>1. coded[c].irap # c /\ coded[c].start # c
        BY <1>1, <1>3 DEF Placed, FirstOfCvs
    <2>2. coded[c].irap \in coded[c].start .. c /\ coded[c].start \in 1 .. c
        BY <1>1 DEF Placed
    <2>3. c - 1 \in coded[c].irap .. c
        BY <2>1, <2>2
    <2>4. coded[c - 1].irap = coded[c].irap
        BY <1>1, <2>3 DEF Placed
    <2> QED
        BY <1>3, <2>1, <2>4 DEF AssociatedIrap
<1> QED
    BY <1>2, <1>3

(* A picture is finished and the output runs.                              *)
LEMMA FinishedHolds ==
    ASSUME NEW D, NEW v \in ViewOf(D), NEW c, NEW out, NEW clvs,
           Holds(coded, c, PicturesIn(v.list))
    PROVE  LET new == PicturesIn(WriteOutput(Finished(v, c, out, clvs)).list)
           IN  Holds(coded, c, new) /\ AllDecoded(new)
<1> DEFINE output == out /\ ~(clvs /\ coded[c].type = "RASL")
           list == FinishPicture(v.list, c, output)
           w == Finished(v, c, out, clvs)
<1>1. v.list \in Seq(PicturesOf(D)) /\ output \in BOOLEAN
    BY ViewFields
<1>2. w = [v EXCEPT !.list = list]
    BY DEF Finished
<1> HIDE DEF output
<1>3. list \in Seq(PicturesOf(D))
    BY <1>1, FinishPictureType
<1>4. Holds(coded, c, PicturesIn(list)) /\ AllDecoded(PicturesIn(list))
    BY <1>1, HoldsFinished
<1> HIDE DEF list
<1>5. w.list = list
    BY <1>2, <1>3, ListReplaced
<1> HIDE DEF w
<1>6. LET new == PicturesIn(WriteOutput(w).list) IN Holds(coded, c, new) /\ AllDecoded(new)
    BY <1>3, <1>4, <1>5, HoldsWritten
<1> QED
    BY <1>6 DEF w

(* isNewPicture on a conforming stream.                                    *)
LEMMA NewPictureConforms == CInv /\ NewPicture => CInv'
<1> SUFFICES ASSUME CInv, NewPicture PROVE CInv'
    OBVIOUS
<1> USE CInvFields
<1>1. /\ UNCHANGED <<coded, nal, enc, cur, hdrOut, firstInSeq, prior, recov, pocRA, skip,
                     newCLVS, fault, done>>
      /\ nal.kind = "SLICE" /\ nal.addr = 0 /\ ~firstInPic /\ fault = "none" /\ ~done
      /\ firstInPic' = TRUE /\ eosInPu' = FALSE
    BY DEF NewPicture, stream, Running
<1>2. IInv'
    BY NewPictureStep
<1>3. cur \in Nat \ {0} /\ cur = Len(coded) - 1
    BY <1>1 DEF CFresh, CShape
<1>4. CRules' /\ CShape' /\ CFresh'
    <2>1. CRules'
        BY <1>1 DEF CRules
    <2>2. CShape'
        BY <1>1 DEF CShape
    <2>3. CFresh'
        BY <1>1, <1>3 DEF CFresh
    <2> QED
        BY <2>1, <2>2, <2>3
<1>5. CSlices'
    BY <1>1 DEF CSlices, NewPicture
<1>6. CFlags'
    BY <1>1 DEF CFlags, Unfinished
<1>7. CIrap'
    <2>1. CASE firstInSeq
        BY <1>1, <2>1 DEF CIrap, Unfinished
    <2>2. CASE ~firstInSeq
        <3>1. coded[cur].start # cur => irap = IrapRec(coded, coded[cur - 1].irap)
            BY <1>1, <2>2 DEF CIrap, Unfinished
        <3>2. irap' = AssociatedIrap(irap, cur)
            BY <2>2 DEF NewPicture
        <3>3. irap' = IrapRec(coded, coded[cur].irap)
            BY <1>3, <3>1, <3>2, AssociatedRight
        <3> QED
            BY <1>1, <2>2, <3>3 DEF CIrap, Unfinished
    <2> QED
        BY <2>1, <2>2
<1>8. CList'
    <2>1. Holds(coded, cur, PicturesIn(view.list))
        BY <1>1, <1>3 DEF CList
    <2>2. CASE firstInSeq
        <3>1. view' = WriteOutput(view)
            BY <2>2 DEF NewPicture
        <3>2. Holds(coded, cur, PicturesIn(view'.list))
            BY <2>1, <3>1, HoldsWritten
        <3> QED
            BY <1>1, <2>2, <3>2 DEF CList
    <2>3. CASE ~firstInSeq
        <3>1. view' = WriteOutput(Finished(view, cur, hdrOut, newCLVS))
            BY <2>3 DEF NewPicture
        <3>2. Holds(coded, cur, PicturesIn(view'.list)) /\ AllDecoded(PicturesIn(view'.list))
            BY <2>1, <3>1, FinishedHolds
        <3> QED
            BY <1>1, <3>2 DEF CList
    <2> QED
        BY <2>2, <2>3
<1>9. CFiltered'
    BY <1>1 DEF CFiltered, Unfinished, NewPicture
<1> QED
    BY <1>2, <1>4, <1>5, <1>6, <1>7, <1>8, <1>9 DEF CInv

(* A slice that is about to be decoded belongs to the last coded picture:  *)
(* the first slice of the one after the current picture, or a further one  *)
(* of the current picture.                                                 *)
LEMMA SliceAhead ==
    ASSUME CInv, nal.kind = "SLICE", firstInPic \/ nal.addr > 0
    PROVE  /\ nal.id = Len(coded) /\ nal.id \in Nat \ {0} /\ nal.addr \in Nat /\ Pic = coded[nal.id]
           /\ nal.id \in DOMAIN coded /\ Pic \in CodedPicture
           /\ \A id \in 1 .. nal.id : Lawful(coded, id) /\ coded[id] \in CodedPicture
           /\ firstInPic => nal.addr = 0 /\ cur = nal.id - 1
           /\ ~firstInPic => nal.addr > 0 /\ cur = nal.id /\ ~firstInSeq
           /\ firstInSeq => coded[nal.id].start = nal.id
           /\ ~eosInPu /\ ~done
<1> USE CInvFields
<1>1. nal.id = Len(coded) /\ nal.id # 0 /\ nal.addr \in Nat
    BY DEF IInv, SliceIsAhead, StreamType, NalUnit
<1>2. nal.id \in DOMAIN coded /\ Pic \in CodedPicture /\ Pic = coded[nal.id]
    BY <1>1 DEF Pic
<1>3. firstInPic => nal.addr = 0 /\ cur = nal.id - 1
    BY <1>1 DEF CShape, Unfinished
<1>4. ~firstInPic => nal.addr > 0 /\ cur = nal.id /\ ~firstInSeq
    BY <1>1 DEF CShape, Unfinished
<1>5. firstInSeq => coded[nal.id].start = nal.id
    <2> SUFFICES ASSUME firstInSeq PROVE coded[nal.id].start = nal.id
        OBVIOUS
    <2>1. Placed(coded, nal.id)
        BY <1>1 DEF Lawful
    <2>2. CASE cur = 0
        <3>1. nal.id = 1
            BY <2>2, <1>1, <1>3, <1>4
        <3> QED
            BY <2>1, <3>1 DEF Placed
    <2>3. CASE cur # 0
        BY <2>1, <2>3, <1>1 DEF CShape, Placed
    <2> QED
        BY <2>2, <2>3
<1>6. ~eosInPu /\ ~done
    BY <1>4 DEF CFlags, CShape
<1> QED
    BY <1>1, <1>2, <1>3, <1>4, <1>5, <1>6

(* The output of prior pictures is never dropped: the list only holds the  *)
(* IDR picture that has asked for it.                                      *)
LEMMA NothingDropped ==
    ASSUME CInv, nal.kind = "SLICE", firstInPic \/ nal.addr > 0
    PROVE  /\ Prepared = Flushed
           /\ Flushed = IF firstInPic /\ coded[nal.id].start = nal.id
                        THEN FlushOutput(view) ELSE view
           /\ firstInPic /\ coded[nal.id].start = nal.id => Prepared.list = <<>>
<1> USE CInvFields, SliceAhead
<1>1. nal.id \in 1 .. nal.id /\ Placed(coded, nal.id) /\ FirstOfCvs(coded, nal.id)
    BY DEF Lawful
<1>2. FlushOutput(view).list = <<>>
    <2>1. 1 .. cur \in SUBSET Nat
        OBVIOUS
    <2> QED
        BY <2>1, FlushOutputType
<1>3. Flushed = IF firstInPic /\ coded[nal.id].start = nal.id THEN FlushOutput(view) ELSE view
    <2>1. Pic.type = "IDR" => coded[nal.id].start = nal.id
        BY <1>1 DEF Placed
    <2>2. ASSUME firstInPic, coded[nal.id].start = nal.id, Pic.type # "IDR"
          PROVE  FlushOutput(view) = view
        <3>1. nal.id = 1
            BY <2>2, <1>1 DEF FirstOfCvs
        <3>2. cur = 0
            BY <2>2, <3>1
        <3> QED
            BY <3>2 DEF CFresh, FlushOutput
    <2> QED
        BY <2>1, <2>2 DEF Flushed
<1>4. ASSUME DropsPrior
      PROVE  DropPriorOutput(Flushed.list, prior.poc) = Flushed.list
    <2>1. CASE Flushed.list = <<>>
        BY <2>1 DEF DropPriorOutput
    <2>2. CASE Flushed.list # <<>>
        <3>1. Flushed = view /\ ~(firstInPic /\ coded[nal.id].start = nal.id)
            BY <2>2, <1>2, <1>3
        <3>2. prior.on /\ cur # 0 /\ coded[cur].type = "IDR" /\ prior.poc = coded[cur].poc
            BY <1>4 DEF DropsPrior, CFlags
        <3>3. coded[cur].start = cur /\ cur \in 1 .. cur
            BY <3>2 DEF Lawful, Placed
        <3>4. ~done /\ HoldsCvs(coded, cur, PicturesIn(view.list))
            BY <3>2 DEF CList, Holds
        <3>5. ASSUME NEW i \in DOMAIN view.list
              PROVE  KeptOnly(view.list[i], prior.poc) = view.list[i]
            <4> DEFINE e == view.list[i]
            <4>1. e \in PicturesOf(1 .. cur) /\ e \in PicturesIn(view.list)
                BY SeqOfPictures DEF PicturesIn
            <4>2. e.id \in 1 .. cur /\ coded[e.id].start = cur /\ e.poc = coded[e.id].poc
                BY <3>3, <3>4, <4>1 DEF HoldsCvs
            <4>3. coded[e.id].start \in 1 .. e.id
                BY <4>2 DEF Lawful, Placed
            <4>4. e.id = cur
                BY <4>2, <4>3
            <4>5. e.poc = prior.poc
                BY <3>2, <4>2, <4>4
            <4> HIDE DEF e
            <4>6. KeptOnly(e, prior.poc) = e
                BY <4>1, <4>5 DEF KeptOnly, PicturesOf, Picture
            <4> QED
                BY <4>6 DEF e
        <3>6. DropPriorOutput(view.list, prior.poc) = [i \in DOMAIN view.list |-> view.list[i]]
            BY <3>5 DEF DropPriorOutput
        <3>7. [i \in DOMAIN view.list |-> view.list[i]] = view.list
            BY SeqOfPictures
        <3> QED
            BY <3>1, <3>6, <3>7
    <2> QED
        BY <2>1, <2>2
<1>5. Prepared = Flushed
    <2>1. Flushed \in ViewOf(1 .. cur)
        BY FlushedCarries
    <2>2. [Flushed EXCEPT !.list = Flushed.list] = Flushed
        BY <2>1 DEF ViewOf
    <2>3. CASE DropsPrior
        BY <2>3, <2>2, <1>4 DEF Prepared
    <2>4. CASE ~DropsPrior
        BY <2>4 DEF Prepared
    <2> QED
        BY <2>3, <2>4
<1> QED
    BY <1>2, <1>3, <1>5

(* The list a slice is decoded with, and the checks against it. *)
LEMMA SliceDecoded ==
    ASSUME CInv, nal.kind = "SLICE", firstInPic \/ nal.addr > 0,
           NEW list, list = IF firstInPic
                            THEN StartPicture(Prepared.list, nal.id, Pic.poc, irap.poc, Pic.rpl)
                            ELSE Prepared.list
    PROVE  /\ [Prepared EXCEPT !.list = list] \in ViewOf(1 .. nal.id)
           /\ [Prepared EXCEPT !.list = list].list = list
           /\ list \in Seq(PicturesOf(1 .. nal.id)) /\ Distinct(list)
           /\ Holds(coded, nal.id, PicturesIn(list))
           /\ LostPocs(Prepared.list) = {0}
           /\ Reason(list, 0) = "none"
<1> USE CInvFields, SliceAhead
<1> DEFINE c == nal.id
           v == [Prepared EXCEPT !.list = list]
<1>1. /\ c \in 1 .. c /\ Placed(coded, c) /\ FirstOfCvs(coded, c) /\ FurtherOfCvs(coded, c)
      /\ irap.poc \in Int
    <2>1. irap.poc \in Int
        BY DEF IInv, ControlType, IrapRecord
    <2> QED
        BY <2>1 DEF Lawful
<1>2. Prepared \in ViewOf(1 .. cur) /\ Prepared.list \in Seq(PicturesOf(1 .. cur)) /\ Distinct(Prepared.list)
    BY PreparedCarries, ViewFields
<1>3. v \in ViewOf(1 .. c) /\ v.list = list /\ list \in Seq(PicturesOf(1 .. c)) /\ Distinct(list)
    <2>1. CASE firstInPic
        <3>1. list = StartPicture(Prepared.list, nal.id, Pic.poc, irap.poc, Pic.rpl)
            BY <2>1
        <3>2. v \in ViewOf(1 .. c) /\ Distinct(v.list)
            BY <2>1, <3>1, DecodedList
        <3>3. v.list = list
            BY <1>2 DEF ViewOf
        <3> HIDE DEF v, c
        <3> QED
            BY <3>2, <3>3, ViewFields
    <2>2. CASE ~firstInPic
        <3>1. list = Prepared.list /\ cur = c
            BY <2>2
        <3>2. v = Prepared
            BY <3>1, <1>2 DEF ViewOf
        <3> HIDE DEF v, c
        <3> QED
            BY <3>1, <3>2, <1>2
    <2> QED
        BY <2>1, <2>2
<1>4. /\ ~firstInPic => cur = c /\ Prepared = view
      /\ firstInPic /\ coded[c].start # c => cur = c - 1 /\ cur # 0 /\ ~firstInSeq /\ Prepared = view
    <2>1. c = 1 => coded[c].start = c
        BY <1>1 DEF Placed
    <2> QED
        BY <2>1, NothingDropped
<1>5. ~(firstInPic /\ coded[c].start = c) =>
          /\ cur # 0 /\ Holds(coded, cur, PicturesIn(view.list))
          /\ firstInPic => AllDecoded(PicturesIn(view.list))
    BY <1>4 DEF CList
<1>6. firstInPic /\ coded[c].start # c =>
          irap = IrapRec(coded, coded[cur].irap) /\ irap.poc = coded[coded[cur].irap].poc
    BY <1>4 DEF CIrap, IrapRec
<1>7. ~firstInPic /\ coded[c].start # c => irap = IrapRec(coded, coded[cur - 1].irap)
    BY <1>4 DEF CIrap, Unfinished
<1>8. Holds(coded, c, PicturesIn(list))
    <2>1. CASE ~firstInPic
        BY <2>1, <1>4, <1>5
    <2>2. CASE firstInPic /\ coded[c].start = c
        <3>1. Prepared.list = <<>>
            BY <2>2, NothingDropped
        <3> QED
            BY <2>2, <3>1, <1>1, HoldsFirst
    <2>3. CASE firstInPic /\ coded[c].start # c
        <3>1. list = StartPicture(view.list, cur + 1, coded[cur + 1].poc, irap.poc, coded[cur + 1].rpl)
            BY <2>3, <1>4
        <3>2. cur \in Nat \ {0} /\ c = cur + 1
            BY <2>3, <1>4
        <3> QED
            BY <2>3, <3>1, <3>2, <1>1, <1>5, <1>6, HoldsStarted
    <2> QED
        BY <2>1, <2>2, <2>3
<1>9. LostPocs(Prepared.list) = {0}
    <2> SUFFICES ASSUME NEW p \in Pic.rpl
                 PROVE  \E i \in DOMAIN Prepared.list :
                            Prepared.list[i].poc = p /\ Prepared.list[i].ref
        BY DEF LostPocs
    <2>1. coded[c].start # c
        BY <1>1 DEF FirstOfCvs
    <2>2. Prepared = view /\ HoldsRefs(coded, cur, PicturesIn(view.list))
        BY <2>1, <1>4, <1>5 DEF Holds
    <2>3. p \in Refs(coded, cur)
        BY <2>1, <1>1, <1>4 DEF FurtherOfCvs, Refs
    <2> QED
        BY <2>2, <2>3 DEF HoldsRefs, PicturesIn
<1>10. Reason(list, 0) = "none"
    <2>1. coded[c].start = c \/ irap = IrapRec(coded, coded[c - 1].irap)
        BY <1>4, <1>6, <1>7
    <2> QED
        BY <2>1, <1>3, <1>8, NoReason
<1> QED
    BY <1>3, <1>8, <1>9, <1>10

(* The flags of the current picture hold for one that follows it within    *)
(* the coded video sequence.                                               *)
LEMMA SliceContext ==
    ASSUME CInv, nal.kind = "SLICE", firstInPic \/ nal.addr > 0, coded[nal.id].start # nal.id
    PROVE  /\ cur # 0 /\ ~firstInSeq /\ coded[cur].start = coded[nal.id].start
           /\ coded[nal.id].type \notin IrapTypes => coded[cur].irap = coded[nal.id].irap
           /\ coded[nal.id].type \in IrapTypes => coded[nal.id].type = "CRA"
           /\ coded[nal.id].type = "RASL" => coded[nal.id].irap # coded[nal.id].start
<1> USE CInvFields, SliceAhead
<1> DEFINE c == nal.id
           a == coded[c - 1].irap
<1>1. Placed(coded, c) /\ c \in 1 .. c
    BY DEF Lawful
<1>2. /\ a \in 1 .. c - 1 /\ c - 1 \in Earlier(coded, c) /\ a \in Earlier(coded, c)
      /\ ByType(coded, c, a)
    BY AssociatedWithLast
<1>3. c - 1 \in 1 .. c - 1 /\ coded[c - 1].start = coded[c].start /\ coded[a].start = coded[c].start
    BY <1>2 DEF Earlier
<1>4. coded[c].type \notin IrapTypes => coded[c].irap = a
    <2> SUFFICES ASSUME coded[c].type \notin IrapTypes PROVE coded[c].irap = a
        OBVIOUS
    <2>1. coded[c].irap # c /\ coded[c].irap \in coded[c].start .. c /\ coded[c].start \in 1 .. c
        BY <1>1 DEF Placed
    <2>2. c - 1 \in coded[c].irap .. c
        BY <2>1
    <2> QED
        BY <1>1, <2>2 DEF Placed
<1>5. coded[c].type \in IrapTypes => coded[c].type = "CRA"
    BY <1>1 DEF Placed, IrapTypes
<1>6. coded[c].type = "RASL" => coded[c].irap # coded[c].start
    <2> SUFFICES ASSUME coded[c].type = "RASL" PROVE coded[c].irap # coded[c].start
        OBVIOUS
    <2>1. coded[c].type \notin IrapTypes
        BY DEF IrapTypes
    <2>2. coded[a].start # a
        BY <1>2 DEF ByType
    <2> QED
        BY <2>1, <2>2, <1>3, <1>4
<1>7. cur # 0 /\ ~firstInSeq /\ (cur = c \/ cur = c - 1)
    <2>1. c # 1
        BY <1>2
    <2> QED
        BY <2>1
<1> HIDE DEF a
<1> QED
    BY <1>3, <1>4, <1>5, <1>6, <1>7 DEF a

(* Neither skipped nor out of order. *)
LEMMA SliceIsDecoded ==
    ASSUME CInv, nal.kind = "SLICE", firstInPic \/ nal.addr > 0
    PROVE  ~(nal.addr <= sliceAddr) /\ ~RandomAccessSkip
<1> USE CInvFields, SliceAhead
<1> DEFINE c == nal.id
<1>1. nal.addr > sliceAddr
    <2>1. CASE firstInPic
        BY <2>1 DEF CSlices
    <2>2. CASE ~firstInPic
        BY <2>2 DEF CSlices
    <2> QED
        BY <2>1, <2>2
<1>2. \A id \in 1 .. c : coded[id].poc \in Nat /\ coded[id].poc <= PocBound
    BY DEF Lawful, Placed, CodedPicture
<1>3. MaxPoc \in Nat /\ PocBound \in Nat /\ PocBound < MaxPoc /\ NoPoc = -1 /\ skip = 0
    BY StreamAssumption DEF MaxPoc, NoPoc, CFlags
<1>4. Placed(coded, c) /\ FirstOfCvs(coded, c) /\ c \in 1 .. c
    BY DEF Lawful
<1>5. coded[c].start = c => IsIrap /\ Pic.type # "RASL"
    BY <1>4 DEF Placed, FirstOfCvs, IsIrap, IrapTypes
<1>6. ASSUME coded[c].start # c
      PROVE  /\ pocRA # MaxPoc
             /\ ~(Pic.type = "RASL" /\ Pic.poc < pocRA)
    <2> DEFINE s == coded[c].start
    <2>1. ~firstInSeq /\ coded[cur].start = s
        BY <1>6, SliceContext
    <2>2. pocRA = NoPoc \/ pocRA = coded[s].poc
        BY <2>1 DEF CFlags
    <2>3. s \in 1 .. c /\ coded[s].start = s /\ s # c
        <3>1. s \in 1 .. c
            BY <1>4 DEF Placed
        <3>2. s \in s .. c
            BY <3>1
        <3> QED
            BY <3>1, <3>2, <1>4, <1>6 DEF Placed
    <2>4. pocRA # MaxPoc
        <3>1. coded[s].poc \in Nat /\ coded[s].poc <= PocBound
            BY <2>3, <1>2
        <3> HIDE DEF s
        <3> QED
            BY <3>1, <2>2, <1>3
    <2>5. ASSUME Pic.type = "RASL" PROVE ~(Pic.poc < pocRA)
        <3> DEFINE a == coded[c - 1].irap
        <3>1. a \in 1 .. c - 1 /\ a \in Earlier(coded, c) /\ ByType(coded, c, a)
            BY <1>6, AssociatedWithLast
        <3>2. coded[a].start = s /\ coded[a].start # a /\ coded[a].start \in 1 .. a
            BY <2>5, <3>1 DEF ByType, Earlier, Lawful, Placed
        <3>3. s \in Earlier(coded, c) /\ s < a /\ coded[s].type \in IrapTypes
            BY <2>3, <3>1, <3>2 DEF Earlier, Lawful, FirstOfCvs, Placed
        <3>4. coded[s].poc < Pic.poc
            BY <2>5, <3>1, <3>3 DEF ByType
        <3> HIDE DEF s, a
        <3>5. coded[s].poc \in Nat /\ Pic.poc \in Nat
            BY <2>3, <1>2
        <3> QED
            BY <3>4, <3>5, <2>2, <1>3
    <2> QED
        BY <2>4, <2>5
<1>7. ASSUME coded[c].start = c PROVE ~RandomAccessSkip
    BY <1>3, <1>5, <1>7 DEF RandomAccessSkip
<1>8. ASSUME coded[c].start # c PROVE ~RandomAccessSkip
    BY <1>3, <1>6, <1>8 DEF RandomAccessSkip
<1>9. sliceAddr \in Int
    BY DEF IInv, ControlType
<1> QED
    BY <1>1, <1>7, <1>8, <1>9

(* What the slice makes of the flags. *)
LEMMA SliceFlags ==
    ASSUME CInv, nal.kind = "SLICE", firstInPic \/ nal.addr > 0
    PROVE  /\ PicOutputFlag = Pic.out
           /\ Pic.irap # Pic.start => ~Recovery /\ ~StartsNewClvs
           /\ PriorPics.on => Pic.type = "IDR" /\ PriorPics.poc = Pic.poc
           /\ PocRandomAccess = NoPoc \/ PocRandomAccess = coded[Pic.start].poc
           /\ skip = 0
<1> USE CInvFields, SliceAhead
<1> DEFINE c == nal.id
<1>1. Placed(coded, c) /\ FirstOfCvs(coded, c) /\ c \in 1 .. c
    BY DEF Lawful
<1>2. ASSUME Pic.irap # Pic.start PROVE ~Recovery /\ ~StartsNewClvs
    <2>1. coded[c].start # c
        BY <1>1, <1>2 DEF FirstOfCvs
    <2>2. /\ ~firstInSeq /\ coded[cur].start = coded[c].start
          /\ IsIrap => Pic.type = "CRA"
          /\ ~IsIrap => coded[cur].irap = coded[c].irap
        BY <2>1, SliceContext DEF IsIrap
    <2>3. cur = c \/ ~IsIrap => ~recov /\ ~newCLVS
        BY <1>2, <2>2 DEF CFlags
    <2>4. ~Recovery
        <3>1. CASE IsIrap
            BY <3>1, <2>2 DEF Recovery, NoOutputBeforeRecovery
        <3>2. CASE ~IsIrap
            BY <3>2, <2>3 DEF Recovery, IsIrap, IrapTypes
        <3> QED
            BY <3>1, <3>2
    <2>5. ~StartsNewClvs
        BY <2>2, <2>3 DEF StartsNewClvs
    <2> QED
        BY <2>4, <2>5
<1>3. ~(Pic.type = "RASL" /\ Recovery)
    <2> SUFFICES ASSUME Pic.type = "RASL" PROVE Pic.irap # Pic.start
        BY <1>2
    <2>1. coded[c].start # c
        BY <1>1 DEF Placed, FirstOfCvs, IrapTypes
    <2> QED
        BY <2>1, SliceContext
<1>4. PicOutputFlag = Pic.out
    <2>1. Pic.out \in BOOLEAN
        BY DEF CodedPicture
    <2>2. nal.addr # 0 => hdrOut = Pic.out
        BY DEF CFlags, Unfinished
    <2> QED
        BY <2>1, <2>2, <1>3 DEF PicOutputFlag
<1>5. PriorPics.on => Pic.type = "IDR" /\ PriorPics.poc = Pic.poc
    <2>1. CASE IsIrap
        <3>1. PriorPics = [on |-> NoOutputOfPriorPics,
                           poc |-> IF NoOutputOfPriorPics THEN Pic.poc ELSE prior.poc]
            BY <2>1 DEF PriorPics
        <3>2. NoOutputOfPriorPics => Pic.type = "IDR"
            BY DEF NoOutputOfPriorPics, NoOutputBeforeRecovery, CShape
        <3> QED
            BY <3>1, <3>2
    <2>2. CASE ~IsIrap
        <3>1. PriorPics = [prior EXCEPT !.on = @ /\ ~DropsPrior]
            BY <2>2 DEF PriorPics
        <3>2. prior \in [on : BOOLEAN, poc : Int]
            BY DEF IInv, ControlType
        <3>3. PriorPics.on => prior.on /\ ~DropsPrior
            BY <3>1, <3>2
        <3>4. ~(prior.on /\ ~DropsPrior)
            BY <2>2 DEF DropsPrior, CFlags, IsIrap, IrapTypes
        <3> QED
            BY <3>3, <3>4
    <2> QED
        BY <2>1, <2>2
<1>6. PocRandomAccess = NoPoc \/ PocRandomAccess = coded[Pic.start].poc
    <2>1. CASE coded[c].start = c
        <3>1. c # 1 => Pic.type = "IDR"
            BY <2>1, <1>1 DEF FirstOfCvs
        <3>2. Pic.type \in IrapTypes
            BY <2>1, <1>1 DEF FirstOfCvs, Placed
        <3>3. ASSUME c = 1, Pic.type = "CRA" PROVE pocRA = MaxPoc \/ pocRA = NoPoc \/ pocRA = coded[c].poc
            <4>1. firstInPic => firstInSeq
                BY <3>3 DEF CFresh
            <4> QED
                BY <2>1, <4>1 DEF CFlags
        <3> QED
            BY <2>1, <3>1, <3>2, <3>3 DEF PocRandomAccess, CFlags, IrapTypes
    <2>2. CASE coded[c].start # c
        <3>1. ~firstInSeq /\ coded[cur].start = coded[c].start
            BY <2>2, SliceContext
        <3>2. pocRA = NoPoc \/ pocRA = coded[Pic.start].poc
            BY <3>1 DEF CFlags
        <3>3. pocRA # MaxPoc
            <4>1. Pic.start \in 1 .. c
                BY <1>1 DEF Placed
            <4>2. coded[Pic.start].poc \in Nat /\ coded[Pic.start].poc <= PocBound
                BY <4>1 DEF Lawful, Placed, CodedPicture
            <4> QED
                BY <4>2, <3>2, StreamAssumption DEF MaxPoc, NoPoc
        <3> QED
            BY <3>2, <3>3 DEF PocRandomAccess
    <2> QED
        BY <2>1, <2>2
<1> QED
    BY <1>2, <1>4, <1>5, <1>6 DEF CFlags

(* A slice NAL unit is decoded.                                            *)
LEMMA ConsumeSliceDecodes ==
    ASSUME CInv, ConsumeSlice
    PROVE  /\ nal.kind = "SLICE" /\ (firstInPic \/ nal.addr > 0)
           /\ NextNal
           /\ LET list == IF firstInPic
                          THEN StartPicture(Prepared.list, nal.id, Pic.poc, irap.poc, Pic.rpl)
                          ELSE Prepared.list
              IN  AfterSlice([Prepared EXCEPT !.list = list], nal.id, FALSE, FALSE)
<1> DEFINE list == IF firstInPic
                   THEN StartPicture(Prepared.list, nal.id, Pic.poc, irap.poc, Pic.rpl)
                   ELSE Prepared.list
           pic == IF firstInPic THEN nal.id ELSE cur
<1>1. nal.kind = "SLICE" /\ (firstInPic \/ nal.addr > 0)
    BY DEF ConsumeSlice
<1>2. ~(nal.addr <= sliceAddr) /\ ~RandomAccessSkip
    BY <1>1, SliceIsDecoded
<1>3. LostPocs(Prepared.list) = {0} /\ Reason(list, 0) = "none"
    <2> HIDE DEF list
    <2> QED
        BY <1>1, SliceDecoded DEF list
<1>4. \E lostPoc \in LostPocs(Prepared.list) : DecodeSlice(lostPoc)
    BY <1>1, <1>2, Zenon DEF ConsumeSlice
<1>5. DecodeSlice(0)
    BY <1>3, <1>4
<1>6. NextNal /\ AfterSlice([Prepared EXCEPT !.list = list], pic, FALSE, FALSE)
    <2> HIDE DEF list, pic
    <2>1. IF Reason(list, 0) # "none" THEN Abort(Reason(list, 0))
          ELSE NextNal /\ AfterSlice([Prepared EXCEPT !.list = list], pic, FALSE, FALSE)
        BY <1>5 DEF DecodeSlice, list, pic
    <2> QED
        BY <2>1, <1>3
<1>7. pic = nal.id
    BY <1>1, SliceAhead
<1> QED
    BY <1>1, <1>6, <1>7

(* The picture of a slice, once it is the current one. *)
LEMMA ConsumeSliceConforms == Conforming /\ CInv /\ ConsumeSlice => CInv'
<1> SUFFICES ASSUME Conforming, CInv, ConsumeSlice PROVE CInv'
    OBVIOUS
<1> DEFINE list == IF firstInPic
                   THEN StartPicture(Prepared.list, nal.id, Pic.poc, irap.poc, Pic.rpl)
                   ELSE Prepared.list
           v == [Prepared EXCEPT !.list = list]
           c == nal.id
           atEnd == nal'.kind = "EOF"
           finish == atEnd /\ ~FALSE /\ ~loopFiltered
<1>1. nal.kind = "SLICE" /\ (firstInPic \/ nal.addr > 0) /\ NextNal
      /\ AfterSlice(v, c, FALSE, FALSE)
    BY ConsumeSliceDecodes, Zenon
<1> USE CInvFields, SliceAhead
<1>2. /\ v \in ViewOf(1 .. c) /\ v.list = list /\ list \in Seq(PicturesOf(1 .. c))
      /\ Holds(coded, c, PicturesIn(list))
    <2> HIDE DEF list
    <2> QED
        BY <1>1, SliceDecoded DEF list
<1> HIDE DEF v, list
<1>3. /\ cur' = c /\ firstInSeq' = FALSE
      /\ firstInPic' = finish
      /\ UNCHANGED <<eosInPu, fault, done>>
      /\ sliceAddr' = IF finish THEN -1 ELSE nal.addr
      /\ irap' = IF atEnd THEN AssociatedIrap(irap, c) ELSE irap
      /\ newCLVS' = StartsNewClvs /\ hdrOut' = PicOutputFlag /\ prior' = PriorPics
      /\ recov' = Recovery /\ pocRA' = PocRandomAccess
      /\ skip' = IF skip > 0 THEN skip - 1 ELSE skip
    BY <1>1 DEF AfterSlice
<1>4. view' = WriteOutput(IF finish THEN Finished(v, c, PicOutputFlag, StartsNewClvs) ELSE v)
    BY <1>1 DEF AfterSlice
<1> HIDE DEF finish, atEnd
<1>5. IInv'
    BY ConsumeSliceStep
<1>6. /\ CRules' /\ SameUpTo(Len(coded), coded', coded)
      /\ ContinuesPicture \/ ContinuesWithPicture \/ ContinuesWithEos \/ ContinuesWithEof
    BY <1>1, NextNalContinues DEF IInv
<1>7. /\ c = Len(coded) /\ c \in Nat \ {0} /\ Pic = coded[c] /\ nal.addr \in Nat
      /\ \A id \in 1 .. c : Lawful(coded, id) /\ coded'[id] = coded[id]
    BY <1>1, <1>6 DEF SameUpTo
<1>8. coded'[c] = coded[c] /\ coded[c].start \in 1 .. c /\ coded[c].irap \in 1 .. c
      /\ coded'[coded[c].start] = coded[coded[c].start]
      /\ coded'[coded[c].irap] = coded[coded[c].irap]
    <2>1. c \in 1 .. c /\ Placed(coded, c)
        BY <1>7 DEF Lawful
    <2>2. coded[c].start \in 1 .. c /\ coded[c].irap \in coded[c].start .. c
        BY <2>1 DEF Placed
    <2>3. coded[c].irap \in 1 .. c
        BY <2>2
    <2> QED
        BY <2>1, <2>2, <2>3, <1>7
<1>9. \/ atEnd /\ ContinuesWithEof
      \/ ~atEnd /\ ~finish /\ (ContinuesPicture \/ ContinuesWithPicture \/ ContinuesWithEos)
    BY <1>6 DEF atEnd, finish, ContinuesPicture, ContinuesWithPicture, ContinuesWithEos,
                ContinuesWithEof, Slice, Eos, Eof
<1>10. CShape' /\ CFresh'
    <2>1. CFresh'
        BY <1>3, <1>7 DEF CFresh
    <2>2. ~done'
        BY <1>1, <1>3
    <2>3. CASE ContinuesWithEof
        <3>1. nal'.kind = "EOF" /\ coded' = coded
            BY <2>3 DEF ContinuesWithEof, Eof
        <3> QED
            BY <2>1, <2>2, <3>1, <1>3, <1>7 DEF CShape
    <2>4. CASE ContinuesPicture /\ ~finish
        <3>1. nal'.kind = "SLICE" /\ nal'.addr = nal.addr + 1 /\ coded' = coded
            BY <2>4 DEF ContinuesPicture, Slice
        <3>2. nal'.addr > 0 /\ nal'.addr # 0 /\ Unfinished'
            BY <2>4, <3>1, <1>3, <1>7 DEF Unfinished
        <3>3. CShape'
            BY <2>2, <3>1, <3>2, <1>3, <1>7 DEF CShape
        <3> QED
            BY <2>1, <3>3
    <2>5. CASE ContinuesWithPicture /\ ~finish
        <3>1. nal'.kind = "SLICE" /\ nal'.addr = 0 /\ Len(coded') = Len(coded) + 1
            BY <2>5 DEF ContinuesWithPicture, Slice
        <3> QED
            BY <2>1, <2>2, <3>1, <1>3, <1>7 DEF CShape
    <2>6. CASE ContinuesWithEos /\ ~finish
        <3>1. nal'.kind = "EOS" /\ coded' = coded
            BY <2>6 DEF ContinuesWithEos, Eos
        <3>2. Unfinished'
            BY <2>6, <1>3 DEF Unfinished
        <3> QED
            BY <2>1, <2>2, <3>1, <3>2, <1>3, <1>7 DEF CShape
    <2> QED
        BY <2>1, <2>3, <2>4, <2>5, <2>6, <1>9
<1>11. CSlices'
    <2>1. CASE ContinuesWithEof
        BY <2>1 DEF CSlices, ContinuesWithEof, Eof
    <2>2. CASE ContinuesPicture /\ ~finish
        BY <2>2, <1>3, <1>7 DEF CSlices, ContinuesPicture, Slice
    <2>3. CASE ContinuesWithPicture /\ ~finish
        BY <2>3, <1>3, <1>7 DEF CSlices, ContinuesWithPicture, Slice
    <2>4. CASE ContinuesWithEos /\ ~finish
        BY <2>4 DEF CSlices, ContinuesWithEos, Eos
    <2> QED
        BY <2>1, <2>2, <2>3, <2>4, <1>9
<1>12. CFlags'
    <2>1. /\ PicOutputFlag = Pic.out
          /\ Pic.irap # Pic.start => ~Recovery /\ ~StartsNewClvs
          /\ PriorPics.on => Pic.type = "IDR" /\ PriorPics.poc = Pic.poc
          /\ PocRandomAccess = NoPoc \/ PocRandomAccess = coded[Pic.start].poc
          /\ skip = 0
        BY <1>1, SliceFlags
    <2>2. fault' = "none" /\ skip' = 0
        BY <2>1, <1>3 DEF CFlags
    <2>3. pocRA' = NoPoc \/ pocRA' = coded'[coded'[cur'].start].poc
        BY <2>1, <1>3, <1>7, <1>8
    <2>4. prior'.on => cur' # 0 /\ coded'[cur'].type = "IDR" /\ prior'.poc = coded'[cur'].poc
        BY <2>1, <1>3, <1>7, <1>8
    <2>5. ~eosInPu'
        BY <1>1, <1>3
    <2>6. coded'[cur'].irap # coded'[cur'].start => ~recov' /\ ~newCLVS'
        BY <2>1, <1>3, <1>7, <1>8
    <2>7. hdrOut' = coded'[cur'].out
        BY <2>1, <1>3, <1>7, <1>8
    <2> QED
        BY <2>2, <2>3, <2>4, <2>5, <2>6, <2>7, <1>3 DEF CFlags
<1>13. coded[c].start # c => irap = IrapRec(coded, coded[c - 1].irap)
    <2> SUFFICES ASSUME coded[c].start # c PROVE irap = IrapRec(coded, coded[c - 1].irap)
        OBVIOUS
    <2>1. ~firstInSeq
        BY <1>1
    <2>2. CASE firstInPic
        BY <2>1, <2>2, <1>1 DEF CIrap
    <2>3. CASE ~firstInPic
        BY <2>1, <2>3, <1>1 DEF CIrap, Unfinished
    <2> QED
        BY <2>2, <2>3
<1>14. CIrap'
    <2>1. atEnd => irap' = IrapRec(coded', coded'[cur'].irap)
        <3>1. AssociatedIrap(irap, c) = IrapRec(coded, coded[c].irap)
            BY <1>7, <1>13, AssociatedRight
        <3> QED
            BY <3>1, <1>3, <1>8 DEF IrapRec
    <2>2. coded[c].start # c => coded'[coded[c - 1].irap] = coded[coded[c - 1].irap] /\ coded'[c - 1] = coded[c - 1]
        <3> SUFFICES ASSUME coded[c].start # c
                     PROVE  coded'[coded[c - 1].irap] = coded[coded[c - 1].irap] /\ coded'[c - 1] = coded[c - 1]
            OBVIOUS
        <3>1. coded[c - 1].irap \in 1 .. c - 1
            BY <1>7, AssociatedWithLast
        <3>2. c - 1 \in 1 .. c /\ coded[c - 1].irap \in 1 .. c
            BY <3>1, <1>7
        <3> QED
            BY <3>2, <1>7
    <2>3. ~atEnd /\ coded[c].start # c => irap' = IrapRec(coded', coded'[c - 1].irap)
        BY <2>2, <1>3, <1>13 DEF IrapRec
    <2>4. finish => atEnd
        BY DEF finish
    <2> QED
        BY <2>1, <2>3, <2>4, <1>3, <1>8 DEF CIrap, Unfinished, atEnd
<1>15. CList'
    <2>1. /\ Holds(coded, c, PicturesIn(view'.list))
          /\ finish => AllDecoded(PicturesIn(view'.list))
        <3>1. CASE finish
            <4>1. view' = WriteOutput(Finished(v, c, PicOutputFlag, StartsNewClvs))
                BY <3>1, <1>4
            <4> QED
                BY <4>1, <1>2, FinishedHolds
        <3>2. CASE ~finish
            BY <3>2, <1>2, <1>4, HoldsWritten
        <3> QED
            BY <3>1, <3>2
    <2>2. SameUpTo(c, coded', coded)
        BY <1>6, <1>7
    <2>3. Holds(coded', c, PicturesIn(view'.list))
        BY <2>1, <2>2, <1>7, HoldsStays
    <2> QED
        BY <2>1, <2>3, <1>3 DEF CList
<1>16. CFiltered'
    <2>1. loopFiltered => coded[c].start = c
        <3>1. CASE firstInPic
            BY <1>1, <3>1 DEF CFiltered
        <3>2. CASE ~firstInPic
            BY <1>1, <3>2 DEF CFiltered
        <3> QED
            BY <3>1, <3>2
    <2>2. loopFiltered' => loopFiltered
        BY <1>1 DEF AfterSlice
    <2>3. loopFiltered' => ~finish
        BY <2>2 DEF finish
    <2>4. atEnd /\ ~finish => loopFiltered
        BY DEF finish
    <2> QED
        BY <2>1, <2>2, <2>3, <2>4, <1>3, <1>7, <1>8 DEF CFiltered, Unfinished, atEnd
<1> QED
    BY <1>5, <1>6, <1>10, <1>11, <1>12, <1>14, <1>15, <1>16 DEF CInv

(* An EOS NAL unit finishes the last picture of its sequence.              *)
LEMMA ConsumeEosConforms == Conforming /\ CInv /\ ConsumeEos => CInv'
<1> SUFFICES ASSUME Conforming, CInv, ConsumeEos PROVE CInv'
    OBVIOUS
<1> USE CInvFields
<1>1. nal.kind = "EOS" /\ NextNal /\ cur = Len(coded) /\ cur \in Nat \ {0} /\ Unfinished
    BY DEF ConsumeEos, CShape
<1>2. IInv'
    BY ConsumeEosStep
<1>3. /\ CRules' /\ SameUpTo(cur, coded', coded)
      /\ ContinuesWithPicture \/ ContinuesWithEof
    BY <1>1, NextNalContinues DEF IInv, ContinuesPicture, ContinuesWithEos
<1>4. /\ cur' = cur /\ firstInSeq' = TRUE /\ firstInPic' = FALSE
      /\ UNCHANGED <<hdrOut, prior, recov, skip, fault, done>>
      /\ pocRA' = MaxPoc
      /\ nal'.kind # "EOF" => sliceAddr' = -1
      /\ fault = "none" /\ ~done
    BY <1>1 DEF ConsumeEos, Unfinished, Running
<1>5. /\ nal'.kind = "SLICE" => /\ nal'.addr = 0 /\ cur = Len(coded') - 1
                                /\ coded'[Len(coded')].type = "IDR"
      /\ nal'.kind = "EOF" => cur = Len(coded')
      /\ nal'.kind \in {"SLICE", "EOF"}
    BY <1>1, <1>3 DEF ContinuesWithPicture, ContinuesWithEof, Slice, Eof
<1>6. cur \in 1 .. cur /\ coded'[cur] = coded[cur]
    BY <1>1, <1>3 DEF SameUpTo
<1>7. CShape' /\ CFresh' /\ CSlices'
    <2>1. CShape'
        BY <1>1, <1>4, <1>5 DEF CShape
    <2>2. CFresh'
        BY <1>1, <1>4 DEF CFresh
    <2>3. nal'.kind = "SLICE" => sliceAddr' = -1 /\ ~(nal'.addr > 0)
        BY <1>4, <1>5
    <2>4. CSlices'
        BY <2>3 DEF CSlices
    <2> QED
        BY <2>1, <2>2, <2>4
<1>8. CFlags' /\ CIrap' /\ CFiltered'
    <2>1. CIrap' /\ CFiltered'
        BY <1>4 DEF CIrap, CFiltered, Unfinished
    <2>2. fault' = "none" /\ skip' = 0
        BY <1>4 DEF CFlags
    <2>3. prior'.on => cur' # 0 /\ coded'[cur'].type = "IDR" /\ prior'.poc = coded'[cur'].poc
        BY <1>4, <1>6 DEF CFlags
    <2>4. CFlags'
        BY <2>2, <2>3, <1>4 DEF CFlags, Unfinished
    <2> QED
        BY <2>1, <2>4
<1>9. CList'
    <2>1. Holds(coded, cur, PicturesIn(view.list))
        BY <1>1, <1>4 DEF CList
    <2>2. view' = WriteOutput(Finished(view, cur, hdrOut, TRUE)) \/ view' = WriteOutput(view)
        BY <1>1 DEF ConsumeEos, Unfinished
    <2>3. Holds(coded, cur, PicturesIn(view'.list))
        <3>1. CASE view' = WriteOutput(Finished(view, cur, hdrOut, TRUE))
            BY <2>1, <3>1, FinishedHolds
        <3>2. CASE view' = WriteOutput(view)
            BY <2>1, <3>2, HoldsWritten
        <3> QED
            BY <2>2, <3>1, <3>2
    <2>4. Holds(coded', cur, PicturesIn(view'.list))
        BY <2>3, <1>1, <1>3, HoldsStays
    <2> QED
        BY <2>4, <1>4 DEF CList
<1> QED
    BY <1>2, <1>3, <1>7, <1>8, <1>9 DEF CInv

(* The first picture of the stream comes after the parameter sets.         *)
LEMMA ReadParameterSetsConforms == Conforming /\ CInv /\ ReadParameterSets => CInv'
<1> SUFFICES ASSUME Conforming, CInv, ReadParameterSets PROVE CInv'
    OBVIOUS
<1> USE CInvFields
<1>1. /\ nal.kind = "PS" /\ NextNal /\ cur = 0 /\ coded = <<>> /\ ~done
      /\ UNCHANGED <<view, lib, app, fault, done>>
    BY DEF ReadParameterSets, CShape, Running
<1>2. IInv'
    BY ReadParameterSetsStep
<1>3. CRules' /\ ContinuesWithPicture
    BY <1>1, NextNalContinues
       DEF IInv, ContinuesPicture, ContinuesWithEos, ContinuesWithEof
<1>4. nal'.kind = "SLICE" /\ nal'.addr = 0 /\ Len(coded') = 1
    BY <1>1, <1>3 DEF ContinuesWithPicture, Slice
<1>5. /\ UNCHANGED <<view, cur, hdrOut, firstInPic, firstInSeq, sliceAddr, prior, recov, pocRA,
                     irap, skip, loopFiltered, newCLVS, eosInPu, fault, done>>
      /\ firstInPic /\ firstInSeq
    BY <1>1 DEF lib, app, CFresh
<1>6. CShape' /\ CFresh'
    BY <1>1, <1>4, <1>5 DEF CShape, CFresh
<1>7. sliceAddr = -1
    BY <1>1 DEF CFresh
<1>8. CIrap' /\ CList' /\ CFiltered'
    BY <1>1, <1>5 DEF CIrap, CList, CFiltered, Unfinished
<1>9. CSlices'
    BY <1>4, <1>5, <1>7 DEF CSlices
<1>10. CFlags'
    BY <1>1, <1>5 DEF CFlags, CFresh, Unfinished
<1> QED
    BY <1>2, <1>3, <1>6, <1>8, <1>9, <1>10 DEF CInv

(* The end of the program.                                                 *)
LEMMA ExitConforms == CInv /\ Exit => CInv'
<1> SUFFICES ASSUME CInv, Exit PROVE CInv'
    OBVIOUS
<1> USE CInvFields
<1>1. /\ UNCHANGED <<coded, nal, enc, cur, hdrOut, firstInPic, firstInSeq, sliceAddr, prior, recov,
                     pocRA, irap, skip, loopFiltered, newCLVS, eosInPu, fault>>
      /\ nal.kind = "EOF" /\ done' = TRUE
    BY DEF Exit, stream, lib, app
<1>2. IInv'
    BY ExitStep
<1>3. CRules' /\ CSlices' /\ CFlags' /\ CIrap' /\ CFiltered'
    BY <1>1 DEF CRules, CSlices, CFlags, CIrap, CFiltered, Unfinished
<1>4. CShape' /\ CFresh' /\ CList'
    BY <1>1 DEF CShape, CFresh, CList, Unfinished
<1> QED
    BY <1>2, <1>3, <1>4 DEF CInv

(* Nothing changes, when nothing is left to be read.                       *)
LEMMA UnchangedConforms == CInv /\ UNCHANGED vars => CInv'
<1> SUFFICES ASSUME CInv, UNCHANGED vars PROVE CInv'
    OBVIOUS
<1> USE CInvFields
<1>1. UNCHANGED <<coded, nal, enc, view, cur, hdrOut, firstInPic, firstInSeq, sliceAddr, prior,
                  recov, pocRA, irap, skip, loopFiltered, newCLVS, eosInPu, fault, done>>
    BY DEF vars, stream, lib, app
<1>2. IInv'
    BY UnchangedStep
<1>3. CRules' /\ CSlices' /\ CFlags' /\ CIrap' /\ CFiltered'
    BY <1>1 DEF CRules, CSlices, CFlags, CIrap, CFiltered, Unfinished
<1>4. CShape' /\ CFresh' /\ CList'
    BY <1>1 DEF CShape, CFresh, CList, Unfinished
<1> QED
    BY <1>2, <1>3, <1>4 DEF CInv

(* The state before the first NAL unit.                                    *)
LEMMA CInvInitially == Conforming /\ Init => CInv
<1> SUFFICES ASSUME Conforming, Init PROVE CInv
    OBVIOUS
<1>1. IInv
    BY IInvInitially
<1>2. coded = <<>> /\ nal.kind = "PS"
    BY DEF Init, InitStream, ParameterSets
<1>3. CRules /\ CShape /\ CSlices /\ CList
    BY <1>2 DEF Init, CRules, CShape, CSlices, CList
<1>4. CFresh /\ CFlags /\ CIrap /\ CFiltered
    BY DEF Init, CFresh, CFlags, CIrap, CFiltered, Unfinished, Conforming
<1> QED
    BY <1>1, <1>3, <1>4 DEF CInv

(* Every step of the decoder keeps the invariant.                          *)
LEMMA EveryStepConforms == Conforming /\ CInv /\ [Next]_vars => CInv'
<1> SUFFICES ASSUME Conforming, CInv, [Next]_vars PROVE CInv'
    OBVIOUS
<1>1. CASE NewPicture
    BY <1>1, NewPictureConforms
<1>2. CASE ConsumeSlice
    BY <1>2, ConsumeSliceConforms
<1>3. CASE ConsumeEos
    BY <1>3, ConsumeEosConforms
<1>4. CASE Exit
    BY <1>4, ExitConforms
<1>5. CASE ReadParameterSets
    BY <1>5, ReadParameterSetsConforms
<1>6. CASE PictureIsLost
    BY <1>6 DEF PictureIsLost, LosePicture, Conforming
<1>7. CASE Terminated \/ UNCHANGED vars
    BY <1>7, UnchangedConforms DEF Terminated
<1> QED
    BY <1>1, <1>2, <1>3, <1>4, <1>5, <1>6, <1>7 DEF Next

(* So it holds in every state of a run on a conforming stream.             *)
LEMMA AlwaysCInv == ASSUME Conforming PROVE Spec => []CInv
<1>1. Init => CInv
    BY CInvInitially
<1>2. CInv /\ [Next]_vars => CInv'
    BY EveryStepConforms
<1> QED
    BY <1>1, <1>2, PTL DEF Spec

(* No CHECK of xDecodeSlice, of checkLeadingPictureRestrictions, checkCRA  *)
(* or checkRPL aborts the decoding of a conforming stream, and xGetRefPic  *)
(* never runs past the end of the picture list.                            *)
THEOREM DecoderNoFault == ASSUME Conforming PROVE Spec => []NoFault
<1>1. CInv => NoFault
    BY DEF CInv, CFlags, NoFault
<1> QED
    BY <1>1, AlwaysCInv, PTL

(* While a picture is decoded, each entry of its reference picture lists   *)
(* finds the one picture that the encoder meant, although xGetRefPic looks *)
(* it up by its POC alone: it belongs to the same coded video sequence, it *)
(* is reconstructed and still marked as a reference.                       *)
THEOREM DecoderReferencesAreRight == ASSUME Conforming PROVE Spec => []ReferencesAreRight
<1>1. CInv => ReferencesAreRight
    <2> SUFFICES ASSUME CInv, ~firstInPic, ~firstInSeq, NEW p \in coded[cur].rpl
                 PROVE  \E i \in DOMAIN view.list :
                            LET ref == view.list[i]
                            IN  /\ ref.poc = p /\ ref.id = GetRefPic(view.list, p)
                                /\ ref.id < cur /\ coded[ref.id].start = coded[cur].start
                                /\ ref.recon /\ ref.ref
        BY DEF ReferencesAreRight
    <2> USE CInvFields
    <2>1. cur \in Nat \ {0} /\ cur \in 1 .. cur
        BY DEF CFresh
    <2>2. coded[cur].start # cur
        BY <2>1 DEF Lawful, FirstOfCvs
    <2>3. ~done
        BY <2>2 DEF CFiltered, CShape, Unfinished
    <2>4. Holds(coded, cur, PicturesIn(view.list))
        BY <2>1, <2>3 DEF CList
    <2>5. PICK i \in DOMAIN view.list :
              /\ view.list[i].poc = p /\ view.list[i].id = GetRefPic(view.list, p)
              /\ view.list[i].id \in Earlier(coded, cur)
              /\ view.list[i].ref /\ view.list[i].recon
        BY <2>1, <2>4, RefPicFound
    <2> QED
        BY <2>1, <2>5 DEF Earlier
<1> QED
    BY <1>1, AlwaysCInv, PTL
===============================================================================
