----------------------------- MODULE ByteStream -----------------------------
(***************************************************************************)
(* The NAL units of a single-layer stream on their way through the file:   *)
(* writeAnnexBNalUnit with its long and short start codes, then            *)
(* the decoder's side, _byteStreamNALUnit with its buffer of peeked bytes, *)
(* the look-aheads isNewPicture and isNewAccessUnit, which read ahead and  *)
(* seek back, and the main loop of DecApp::decode around them.             *)
(*                                                                         *)
(* A NAL unit is its kind and the picture it belongs to;                   *)
(* a payload is a few bytes with no start code in them (NalBytes).  The    *)
(* kinds stand for the cases of the look-aheads:                           *)
(*   AUD     access unit delimiter          PS     VPS, SPS, PPS or DCI    *)
(*   PREFIX  prefix APS or prefix SEI       PH     picture header          *)
(*   FIRST   slice with the picture header in it; SLICE one without        *)
(*   SUFFIX  suffix APS, suffix SEI, filler data      EOS                  *)
(***************************************************************************)
EXTENDS Integers, Sequences, FiniteSets

CONSTANTS
    NalBound,     \* bound: NAL units in the stream
    EosAllowed    \* may it hold EOS NAL units?

ASSUME TransportAssumption ==
    NalBound \in Nat /\ EosAllowed \in BOOLEAN

VARIABLES
    sent,        \* the NAL units written
    file,        \* the bytes written
    open,        \* the author is still writing
    get,         \* the next byte the ifstream delivers
    buffered,    \* m_NumFutureBytes: bytes peeked and not yet taken
    eof,         \* the ifstream has failed
    firstInPic,  \* m_bFirstSliceInPicture
    firstInSeq,  \* m_firstSliceInSequence
    loopFiltered,  \* loopFiltered: an EOS has ended the last finished picture
    eosInPu,     \* isEosPresentInPu
    finished,    \* how often finishPicture has been called
    log,         \* the NAL units read, with the picture ends before each
    auPics       \* m_accessUnitPicInfo: the slices of the access unit

streamVars == <<sent, file, open>>
byteStream == <<get, buffered, eof>>
loopVars == <<firstInPic, firstInSeq, loopFiltered, eosInPu, finished, log, auPics>>
transportVars == <<streamVars, byteStream, loopVars>>

Slices == {"FIRST", "SLICE"}
Kind == {"AUD", "PS", "PREFIX", "PH", "SUFFIX", "EOS"} \cup Slices

TransportType ==
    /\ sent \in Seq([kind : Kind, pic : Nat])
    /\ file \in Seq(Nat)
    /\ {open, eof, firstInPic, firstInSeq, loopFiltered, eosInPu} \subseteq BOOLEAN
    /\ get \in Nat /\ buffered \in 0 .. 4 /\ finished \in Nat
    /\ log \in Seq([nal : Seq(Nat), finished : Nat])
    /\ auPics \in Seq(Nat)

----------------------------------------------------------------------------
(* The author.  A picture unit is AUD? PS? PREFIX? (FIRST | PH slices)     *)
(* SUFFIX? EOS?, with prefix APSs possible between the slices.             *)
Last == sent[Len(sent)]

Opening == {"AUD", "PS", "PREFIX", "PH", "FIRST"}
Order == [k \in Opening |-> CASE k = "AUD" -> 1 [] k = "PS" -> 2 [] k = "PREFIX" -> 3 [] OTHER -> 4]

SlicesOf(p) == {k \in DOMAIN sent : sent[k].pic = p /\ sent[k].kind \in Slices}

MayStart(kind) ==
    /\ kind \in Opening
    /\ sent = <<>> \/ SlicesOf(Last.pic) # {}
    /\ sent # <<>> => Last.kind # "PREFIX"

MayContinue(kind) ==
    /\ sent # <<>>
    /\ LET sliced == SlicesOf(Last.pic) # {}
       IN  \/ kind \in Opening /\ ~sliced /\ Order[Last.kind] < Order[kind]
           \/ kind = "SLICE" /\ Last.kind \in {"PH", "SLICE"}
           \/ kind = "SLICE" /\ Last.kind = "PREFIX" /\ sliced
           \/ kind = "PREFIX" /\ Last.kind = "SLICE"
           \/ kind = "SUFFIX" /\ Last.kind \in Slices
           \/ kind = "EOS" /\ EosAllowed /\ Last.kind \in Slices \cup {"SUFFIX"}

(* Header and payload: a slice ends in a cabac_zero_word, an EOS NAL unit *)
(* has no payload.                                                         *)
TypeCode(kind) ==
    CASE kind = "AUD" -> 5 [] kind = "PS" -> 6 [] kind = "PREFIX" -> 7 [] kind = "PH" -> 8
      [] kind = "FIRST" -> 9 [] kind = "SLICE" -> 10 [] kind = "SUFFIX" -> 11 [] kind = "EOS" -> 12

Header(kind) == <<0, 8 * TypeCode(kind) + 1>>

Bytes(nal) ==
    Header(nal.kind) \o
        (CASE nal.kind \in Slices -> <<9, 0, 0, 3>> [] nal.kind = "EOS" -> <<>> [] OTHER -> <<9>>)

KindOf(bytes) == CHOOSE kind \in Kind : TypeCode(kind) = bytes[2] \div 8

(* The long start code: at the start of an access unit and for parameter   *)
(* sets and APSs.                                                          *)
UseLongStartCode(kind, startsAu) == startsAu \/ kind \in {"PS", "PREFIX"}

StartCode(long) == IF long THEN <<0, 0, 0, 1>> ELSE <<0, 0, 1>>

WriteNal(kind, pic) ==
    LET nal      == [kind |-> kind, pic |-> pic]
        startsAu == sent = <<>> \/ pic # Last.pic
    IN  /\ sent' = Append(sent, nal)
        /\ file' = file \o StartCode(UseLongStartCode(kind, startsAu)) \o Bytes(nal)
        /\ UNCHANGED <<open, byteStream, loopVars>>

Write(kind) ==
    /\ open /\ Len(sent) < NalBound
    /\ \/ MayStart(kind) /\ WriteNal(kind, IF sent = <<>> THEN 1 ELSE Last.pic + 1)
       \/ MayContinue(kind) /\ WriteNal(kind, Last.pic)

Close ==
    /\ open /\ sent # <<>> /\ SlicesOf(Last.pic) # {} /\ Last.kind # "PREFIX"
    /\ open' = FALSE
    /\ UNCHANGED <<sent, file, byteStream, loopVars>>

----------------------------------------------------------------------------
(* _byteStreamNALUnit.  The first byte from k on where a start code is,    *)
(* where the body of a NAL unit would end, where there is no zero: the     *)
(* place after the file when there is none.                                *)
ThreeBytes(k, last) ==
    k + 2 <= Len(file) /\ file[k] = 0 /\ file[k + 1] = 0 /\ file[k + 2] \in last

AtCode(k) == ThreeBytes(k, {1}) \/ (ThreeBytes(k, {0}) /\ ThreeBytes(k + 1, {1}))

AfterFile == Len(file) + 1

FirstCode[k \in 1 .. AfterFile] ==
    CHOOSE j \in k .. AfterFile :
        (j = AfterFile \/ AtCode(j)) /\ \A i \in k .. j - 1 : ~AtCode(i)

FirstEnd[k \in 1 .. AfterFile] ==
    CHOOSE j \in k .. AfterFile :
        (j = AfterFile \/ ThreeBytes(j, 0 .. 2)) /\ \A i \in k .. j - 1 : ~ThreeBytes(i, 0 .. 2)

FirstNonZero[k \in 1 .. AfterFile] ==
    CHOOSE j \in k .. AfterFile :
        (j = AfterFile \/ file[j] # 0) /\ \A i \in k .. j - 1 : file[i] = 0

(* Where a read that starts at byte "from" leaves the stream: the bytes of *)
(* the NAL unit, the next byte of the stream, the bytes that are peeked,   *)
(* and whether the end of the file cut it short.  A byte other than 0      *)
(* before the start code or after the NAL unit throws.                     *)
ReadNal(from) ==
    LET code  == FirstCode[from]
        stray == FirstNonZero[from]
        body  == code + (IF ThreeBytes(code, {1}) THEN 3 ELSE 4)
        end   == FirstEnd[body]
        next  == FirstCode[end]
        peeked == IF ThreeBytes(next, {1}) THEN 3 ELSE 4
    IN  CASE stray < code ->
               [nal |-> <<>>, eof |-> stray + 3 > Len(file), get |-> stray + 4, buffered |-> 3]
          [] stray >= code /\ code = AfterFile ->
               [nal |-> <<>>, eof |-> TRUE, get |-> AfterFile, buffered |-> 0]
          [] stray >= code /\ code # AfterFile /\ next = AfterFile ->
               [nal |-> SubSeq(file, body, end - 1), eof |-> TRUE,
                get |-> AfterFile, buffered |-> 0]
          [] OTHER ->
               [nal |-> SubSeq(file, body, end - 1), eof |-> FALSE,
                get |-> next + peeked, buffered |-> peeked]

(* The look-aheads read from byte "from" until a NAL unit decides.         *)
StartsPicture == {"AUD", "PS", "PH", "FIRST"}
StartsNoPicture == {"SLICE", "EOS", "SUFFIX"}

LookAhead(from, passing) ==
    LET Decider[k \in 1 .. AfterFile] ==
            LET r == ReadNal(k)
            IN  IF r.nal # <<>> /\ KindOf(r.nal) \notin passing THEN KindOf(r.nal)
                ELSE IF r.eof THEN "NONE"
                ELSE Decider[r.get - r.buffered]
    IN  Decider[from]
----------------------------------------------------------------------------
TransportInit ==
    /\ sent = <<>> /\ file = <<>> /\ open = TRUE
    /\ get = 1 /\ buffered = 0 /\ eof = FALSE
    /\ firstInPic = TRUE /\ firstInSeq = TRUE /\ finished = 0 /\ log = <<>>
    /\ loopFiltered = FALSE /\ eosInPu = FALSE /\ auPics = <<>>

(* How far the look-ahead has read past the end of the last NAL unit; the  *)
(* mutants of it come first.                                               *)
SeekBackTwo == 2
SeekBackFour == 4
SeekBack == 3

IsNewPicture ==
    ~firstInPic /\ LookAhead(get - buffered, Kind \ (StartsPicture \cup StartsNoPicture)) \in StartsPicture

(* A single layer: a slice is never of a higher layer than the last one.   *)
(* Mutant: the look-ahead stops at a prefix SEI or APS.                    *)
IsNewAccessUnitAtOnce(from) ==
    LookAhead(from, {"PS", "PH"}) \in {"AUD"} \cup Slices

IsNewAccessUnit(from) ==
    LookAhead(from, {"PS", "PREFIX", "PH"}) \in {"AUD"} \cup Slices

(* The end of a picture that has begun: the in-loop filters and            *)
(* finishPicture, but at the end of the file not behind a picture that an  *)
(* EOS NAL unit has ended.                                                 *)
EndPicture(eos, atEnd) ==
    /\ finished' = IF loopFiltered /\ atEnd THEN finished ELSE finished + 1
    /\ loopFiltered' = eos

(* An iteration that finds a new picture ends the current one and reads    *)
(* nothing: the file is where the last NAL unit ended, the buffer empty.   *)
(* After an EOS NAL unit there is no picture to end.                       *)
NewPictureFound ==
    /\ ~open /\ ~eof /\ IsNewPicture
    /\ get' = get - SeekBack /\ buffered' = 0
    /\ IF firstInSeq THEN UNCHANGED <<finished, loopFiltered>> ELSE EndPicture(FALSE, FALSE)
    /\ firstInPic' = TRUE /\ eosInPu' = FALSE
    /\ auPics' = IF IsNewAccessUnit(get - SeekBack) THEN <<>> ELSE auPics
    /\ UNCHANGED <<streamVars, eof, firstInSeq, log>>

(* m_bFirstSliceInPicture after a NAL unit: set where a picture is         *)
(* finished or none has begun, but cleared by an EOS NAL unit, so that the *)
(* next picture is looked for.  Mutant: it is left set.                    *)
FirstSliceLeftSet(kind, atEnd, idle) ==
    \/ (kind = "EOS" \/ atEnd) /\ (idle \/ ~(loopFiltered /\ atEnd))
    \/ kind \notin Slices /\ firstInPic

FirstSliceNext(kind, atEnd, idle) ==
    /\ kind # "EOS"
    /\ \/ atEnd /\ (idle \/ ~loopFiltered)
       \/ kind \notin Slices /\ firstInPic

(* Any other iteration reads a NAL unit, from where the look-ahead has put *)
(* the stream if there was one.  The picture ends with the EOS NAL unit    *)
(* and at the end of the file.                                             *)
NalRead ==
    /\ ~open /\ ~eof /\ ~IsNewPicture
    /\ \E r \in {ReadNal(IF firstInPic THEN get - buffered ELSE get - SeekBack)} :
       LET kind == IF r.nal = <<>> THEN "NONE" ELSE KindOf(r.nal)
           idle == firstInSeq /\ kind \notin Slices
           ends == r.eof \/ kind = "EOS"
       IN  /\ get' = r.get /\ buffered' = r.buffered /\ eof' = r.eof
           /\ log' = IF kind = "NONE" THEN log
                     ELSE Append(log, [nal |-> r.nal, finished |-> finished])
           /\ auPics' = IF kind \in Slices THEN Append(auPics, Len(log) + 1) ELSE auPics
           /\ IF ends /\ ~idle THEN EndPicture(kind = "EOS", r.eof)
              ELSE UNCHANGED <<finished, loopFiltered>>
           /\ firstInSeq' = (idle \/ kind = "EOS")
           /\ firstInPic' = FirstSliceNext(kind, r.eof, idle)
           /\ eosInPu' = (eosInPu \/ kind = "EOS")
    /\ UNCHANGED streamVars

TransportNext ==
    \/ \E kind \in Kind : Write(kind)
    \/ Close
    \/ NewPictureFound
    \/ NalRead

TransportSpec ==
    TransportInit /\ [][TransportNext]_transportVars
        /\ WF_transportVars(NewPictureFound \/ NalRead)

----------------------------------------------------------------------------
(* The last picture has nothing but the end of the file behind it and an   *)
(* EOS NAL unit directly before it.                                        *)
AloneBehindEos == \E k \in DOMAIN sent : sent[k].kind = "EOS" /\ sent[k].pic = Last.pic - 1

(* Whatever the decoder has looked ahead at, it reads every NAL unit of    *)
(* the file once and in order, and finishes each picture exactly between   *)
(* its last NAL unit and the first one of the next picture.  The last one  *)
(* is finished at the end of the file, except where it stands alone behind *)
(* an EOS NAL unit: loopFiltered is then still set (run last_sequence).    *)
ReadInOrder ==
    /\ \A k \in DOMAIN log :
           /\ k \in DOMAIN sent /\ log[k].nal = Bytes(sent[k])
           /\ log[k].finished = sent[k].pic - 1
    /\ eof => /\ Len(log) = Len(sent)
              /\ finished = IF AloneBehindEos THEN Last.pic - 1 ELSE Last.pic

(* "When an EOS NAL unit is present in a PU, it shall be the last NAL      *)
(* unit": the loop forgets the EOS NAL unit only where it finds a new      *)
(* picture, and it does so before it reads on, although the look-ahead     *)
(* is not made while m_bFirstSliceInPicture is set and finishPicture has   *)
(* set it.  So no stream that keeps this is rejected for it.               *)
EosEndsUnit == ~open /\ ~eof /\ eosInPu => IsNewPicture

(* checkTidLayerIdInAccessUnit: "All pictures in an AU shall have the same *)
(* value of TemporalId".  The slices it compares are those of one picture, *)
(* whatever lies between two pictures and even where an EOS NAL unit has   *)
(* ended one, so no stream that keeps this is rejected for it; and it is   *)
(* not called without slices, where it would read past an empty list.      *)
AccessUnitIsOne ==
    /\ \A k, m \in DOMAIN auPics : sent[auPics[k]].pic = sent[auPics[m]].pic
    /\ ~open /\ ~eof /\ IsNewPicture => auPics # <<>>

(* Seeking back does not keep the decoder from reaching the end.           *)
ReachesEnd == ~open ~> eof
============================================================================
