------------------------------ MODULE Decoder ------------------------------
(***************************************************************************)
(* The decoding process: the main loop of DecApp::decode and the picture   *)
(* level of DecLib, on a single-layer bitstream.  An action is one         *)
(* iteration of the loop:                                                  *)
(*   NewPicture    isNewPicture has seen the first slice of another        *)
(*                 picture: the current one is finished, nothing is read   *)
(*   ConsumeSlice  a slice NAL unit is read and decoded, or skipped        *)
(*   ConsumeEos    an EOS NAL unit is read                                 *)
(*   Exit          the file has ended: the rest is flushed                 *)
(* ReadParameterSets and LosePicture are steps of the stream alone.        *)
(* The read of the last NAL unit fails the file stream, so the iteration   *)
(* that reads it is also the one that sees the end (nal'.kind = "EOF").    *)
(*                                                                         *)
(* A picture is named by its place in decoding order; 0 is no picture.     *)
(***************************************************************************)
EXTENDS Bitstream

CONSTANT SkipFrames   \* the -s option

ASSUME SkipAssumption == SkipFrames \in Nat

VARIABLES
    view,          \* picture list, m_iPOCLastDisplay and written file
    cur,           \* m_pcPic; 0 while m_firstSliceInBitstream
    hdrOut,        \* PicOutputFlag of m_picHeader, the header of every picture
    firstInPic,    \* m_bFirstSliceInPicture
    firstInSeq,    \* m_firstSliceInSequence
    sliceAddr,     \* m_maxDecSliceAddrInSubPic
    prior,         \* m_isNoOutputPriorPics and m_lastPOCNoOutputPriorPics
    recov,         \* m_lastNoOutputBeforeRecoveryFlag
    pocRA,         \* m_pocRandomAccess
    irap,          \* m_associatedIRAPType, m_pocCRA, ..IRAPDecodingOrderNumber
    skip,          \* m_iSkipFrame
    loopFiltered,  \* DecApp: the last finish was for an EOS NAL unit
    newCLVS,       \* DecApp: m_newCLVS
    eosInPu,       \* DecApp: isEosPresentInPu
    fault,         \* why decoding was aborted, "none" while it was not
    done           \* the output has been flushed and the program ends

stream == <<coded, nal, enc>>
lib == <<cur, hdrOut, firstInPic, firstInSeq, sliceAddr, prior, recov, pocRA, irap>>
app == <<skip, loopFiltered, newCLVS, eosInPu>>
vars == <<stream, view, lib, app, fault, done>>

\* MAX_INT where the code compares it with a POC
MaxPoc == PocBound + 1

Faults == {"SliceOrder", "LostReference", "LeadingPicture", "CraReference",
           "NoSuchPicture", "ReferenceList"}

TypeOK ==
    /\ coded \in Seq(CodedPicture)
    /\ nal \in NalUnit
    /\ nal.kind = "SLICE" => nal.id \in DOMAIN coded
    /\ view \in View
    /\ \A i \in DOMAIN view.list : view.list[i].id \in DOMAIN coded
    /\ cur \in 0 .. Len(coded)
    /\ ~firstInSeq => cur # 0
    /\ ~firstInPic => cur # 0
    /\ hdrOut \in BOOLEAN /\ firstInPic \in BOOLEAN /\ firstInSeq \in BOOLEAN
    /\ sliceAddr \in Int
    /\ prior \in [on : BOOLEAN, poc : Int]
    /\ recov \in BOOLEAN
    /\ pocRA \in Int
    /\ irap \in [type : IrapTypes \cup {"NONE"}, poc : Int, id : Nat]
    /\ skip \in Nat
    /\ loopFiltered \in BOOLEAN /\ newCLVS \in BOOLEAN /\ eosInPu \in BOOLEAN
    /\ fault \in Faults \cup {"none"}
    /\ done \in BOOLEAN

Init ==
    /\ InitStream
    /\ view = [list |-> <<>>, last |-> NoPoc, log |-> <<>>]
    /\ cur = 0 /\ hdrOut = TRUE /\ firstInPic = TRUE /\ firstInSeq = TRUE
    /\ sliceAddr = -1
    /\ prior = [on |-> FALSE, poc |-> NoPoc]
    /\ recov = FALSE
    /\ pocRA = MaxPoc
    /\ irap = [type |-> "NONE", poc |-> MaxPoc, id |-> 0]
    /\ skip = SkipFrames
    /\ loopFiltered = FALSE /\ newCLVS = TRUE /\ eosInPu = FALSE
    /\ fault = "none" /\ done = FALSE

Running == fault = "none" /\ ~done

----------------------------------------------------------------------------
(* DecLib::finishPicture for the current picture: all pictures share one   *)
(* picture header object, which by now may be that of a later picture.     *)
Finished(v, pic, out, clvs) ==
    [v EXCEPT !.list = FinishPicture(@, pic, out /\ ~(clvs /\ coded[pic].type = "RASL"))]

(* DecLib::updateAssociatedIRAP. *)
(* Mutant: only an IDR picture becomes the associated IRAP picture. *)
AssociatedIdr(before, pic) ==
    IF coded[pic].type = "IDR"
    THEN [type |-> coded[pic].type, poc |-> coded[pic].poc, id |-> pic]
    ELSE before

AssociatedIrap(before, pic) ==
    IF coded[pic].type \in IrapTypes
    THEN [type |-> coded[pic].type, poc |-> coded[pic].poc, id |-> pic]
    ELSE before

(* bNewPicture: the lookahead stands at the first slice of a picture. *)
NewPicture ==
    /\ Running
    /\ nal.kind = "SLICE" /\ nal.addr = 0 /\ ~firstInPic
    /\ IF firstInSeq
       THEN /\ view' = WriteOutput(view)
            /\ UNCHANGED <<sliceAddr, loopFiltered, irap>>
       ELSE /\ \E w \in {Finished(view, cur, hdrOut, newCLVS)} : view' = WriteOutput(w)
            /\ sliceAddr' = -1
            /\ loopFiltered' = FALSE
            /\ irap' = AssociatedIrap(irap, cur)
    /\ firstInPic' = TRUE
    /\ eosInPu' = FALSE
    /\ UNCHANGED <<stream, cur, hdrOut, firstInSeq, prior, recov, pocRA,
                   skip, newCLVS, fault, done>>

----------------------------------------------------------------------------
(* What xDecodeSlice derives for the slice at hand, in the order in which  *)
(* it does.  Pic is the slice's picture.                                   *)
Pic == coded[nal.id]
IsIrap == Pic.type \in IrapTypes

(* DecApp, before the slice is decoded. *)
StartsNewClvs ==
    IF firstInPic /\ IsIrap THEN Pic.type = "IDR" \/ eosInPu ELSE newCLVS

(* Mutant: an IDR picture does not flush the output. *)
FlushedNever == view

Flushed == IF firstInPic /\ Pic.type = "IDR" THEN FlushOutput(view) ELSE view

(* checkNoOutputPriorPics, for the IRAP picture before this one. *)
DropsPrior == (firstInPic \/ Pic.type = "CRA") /\ prior.on

Prepared ==
    IF DropsPrior THEN [Flushed EXCEPT !.list = DropPriorOutput(@, prior.poc)] ELSE Flushed

(* NoOutputBeforeRecoveryFlag, and NoOutputOfPriorPicsFlag inferred from   *)
(* it.  The second slice of a CRA picture no longer starts a sequence.     *)
NoOutputBeforeRecovery == firstInSeq \/ Pic.type = "IDR"
NoOutputOfPriorPics == IsIrap /\ cur # 0 /\ NoOutputBeforeRecovery

PriorPics ==
    IF IsIrap
    THEN [on |-> NoOutputOfPriorPics, poc |-> IF NoOutputOfPriorPics THEN Pic.poc ELSE prior.poc]
    ELSE [prior EXCEPT !.on = @ /\ ~DropsPrior]

Recovery == IF Pic.type = "CRA" THEN NoOutputBeforeRecovery ELSE recov

PicOutputFlag ==
    (IF nal.addr = 0 THEN Pic.out ELSE hdrOut) /\ ~(Pic.type = "RASL" /\ Recovery)

(* isRandomAccessSkipPicture. *)
RandomAccessSkip ==
    \/ skip > 0
    \/ pocRA = MaxPoc /\ ~IsIrap
    \/ pocRA # MaxPoc /\ Pic.type = "RASL" /\ Pic.poc < pocRA

PocRandomAccess ==
    IF skip > 0 THEN pocRA
    ELSE IF Pic.type = "IDR" THEN NoPoc
    ELSE IF Pic.type = "CRA" /\ pocRA = MaxPoc THEN Pic.poc
    ELSE pocRA

(* checkThatAllRefPicsAreAvailable: the POC of an active entry that no     *)
(* reference picture has, 0 when there is none.  An IRAP picture has no    *)
(* active entry.                                                           *)
LostPocs(list) ==
    LET lost == {p \in Pic.rpl : ~\E i \in DOMAIN list : list[i].poc = p /\ list[i].ref}
    IN  IF IsIrap \/ lost = {} THEN {0} ELSE lost

(* Slice::checkLeadingPictureRestrictions: the rules that the slice breaks *)
(* by itself or against a reconstructed picture of the list.               *)
BreaksLeadingRules(list) ==
    \/ irap.poc > Pic.poc /\ Pic.type = "TRAIL"
    \/ irap.poc <= Pic.poc /\ Pic.type \in LeadingTypes
    \/ Pic.type = "RASL" /\ irap.type = "IDR"
    \/ \E i \in DOMAIN list :
        LET p    == list[i]
            type == coded[p.id].type
        IN  /\ p.recon /\ p.poc # Pic.poc
            /\ \/ /\ PicOutputFlag /\ IsIrap /\ ~NoOutputOfPriorPics
                  /\ p.poc > Pic.poc
               \/ /\ PicOutputFlag /\ Pic.type = "RADL"
                  /\ irap.poc > p.assoc /\ irap.poc # p.poc /\ p.poc > Pic.poc
               \/ /\ Pic.type \in LeadingTypes /\ type \notin LeadingTypes
                  /\ p.assoc = irap.poc /\ p.poc > irap.poc
               \/ /\ Pic.type = "RASL" /\ type = "RADL" /\ irap.type = "CRA"
                  /\ p.assoc = irap.poc /\ p.poc < Pic.poc
               \/ /\ Pic.type = "RASL" /\ type \in IrapTypes /\ irap.type = "CRA"
                  /\ p.poc < irap.poc /\ Pic.poc <= p.poc

(* Slice::checkSubpicTypeConstraints, and behind it Slice::checkRPL, over  *)
(* all entries of the lists.  With one subpicture, the only rule of the    *)
(* former that is in neither of the other two checks is the last one here. *)
(* It has the IRAP subpicture from where the IRAP picture is set, but with *)
(* 0 for MAX_INT where there is none: no picture that follows is decoded,  *)
(* unless it is an IRAP picture itself.                                    *)
BreaksListRules(list) ==
    \E p \in Pic.rpl :
        LET ref == GetRefPic(list, p)
            before == p < irap.poc \/ ref < irap.id
        IN  \/ (IsIrap \/ irap.poc < Pic.poc) /\ before
            \/ ref = nal.id
            \/ Pic.type = "RADL" /\ (ref < irap.id \/ coded[ref].type = "RASL")

(* The first check of xDecodeSlice that the slice fails.                   *)
Reason(list, lostPoc) ==
    IF lostPoc > 0 THEN "LostReference"
    ELSE IF firstInPic /\ BreaksLeadingRules(list) THEN "LeadingPicture"
    ELSE IF Pic.poc > irap.poc /\ \E p \in Pic.rpl : p < irap.poc THEN "CraReference"
    ELSE IF \E p \in Pic.rpl : ~HasPoc(list, p) THEN "NoSuchPicture"
    ELSE IF BreaksListRules(list) THEN "ReferenceList"
    ELSE "none"

----------------------------------------------------------------------------
(* A failed CHECK ends the program; so do a null picture and the end of    *)
(* the list when they are dereferenced.                                    *)
Abort(reason) ==
    /\ fault' = reason
    /\ view' = Flushed
    /\ UNCHANGED <<stream, lib, app, done>>

(* The rest of the iteration: at the end of the file the picture is        *)
(* finished at once; then the output runs.                                 *)
AfterSlice(v, pic, seq, inPic) ==
    LET atEnd  == nal'.kind = "EOF"
        finish == atEnd /\ ~seq /\ ~loopFiltered
    IN  /\ cur' = pic
        /\ firstInSeq' = seq
        /\ \E w \in {IF finish THEN Finished(v, pic, PicOutputFlag, StartsNewClvs) ELSE v} :
               view' = WriteOutput(w)
        /\ sliceAddr' = IF finish THEN -1 ELSE nal.addr
        /\ firstInPic' = (inPic \/ finish \/ (atEnd /\ seq))
        /\ loopFiltered' = (loopFiltered /\ ~(atEnd /\ ~seq))
        /\ irap' = IF atEnd /\ ~seq THEN AssociatedIrap(irap, pic) ELSE irap
        /\ newCLVS' = StartsNewClvs
        /\ hdrOut' = PicOutputFlag
        /\ prior' = PriorPics
        /\ recov' = Recovery
        /\ pocRA' = PocRandomAccess
        /\ skip' = IF skip > 0 THEN skip - 1 ELSE skip
        /\ UNCHANGED <<eosInPu, fault, done>>

(* Mutant: a skipped slice counts as the first one of its picture. *)
SkipSliceAsDecoded ==
    /\ NextNal
    /\ AfterSlice(Prepared, cur, FALSE, FALSE)

SkipSlice ==
    /\ NextNal
    /\ AfterSlice(Prepared, cur, firstInSeq, firstInPic)

(* Mutant: every slice of a picture takes a buffer. *)
DecodeSliceInNewBuffer(lostPoc) ==
    LET list == StartPicture(Prepared.list, nal.id, Pic.poc, irap.poc, Pic.rpl)
    IN  /\ Reason(list, lostPoc) = "none"
        /\ NextNal
        /\ AfterSlice([Prepared EXCEPT !.list = list], nal.id, FALSE, FALSE)

DecodeSlice(lostPoc) ==
    LET list == IF firstInPic
                THEN StartPicture(Prepared.list, nal.id, Pic.poc, irap.poc, Pic.rpl)
                ELSE Prepared.list
        reason == Reason(list, lostPoc)
    IN  IF reason # "none"
        THEN Abort(reason)
        ELSE /\ NextNal
             /\ AfterSlice([Prepared EXCEPT !.list = list],
                           IF firstInPic THEN nal.id ELSE cur, FALSE, FALSE)

ConsumeSlice ==
    /\ Running
    /\ nal.kind = "SLICE" /\ (firstInPic \/ nal.addr > 0)
    /\ IF nal.addr <= sliceAddr THEN Abort("SliceOrder")
       ELSE IF RandomAccessSkip THEN SkipSlice
       ELSE \E lostPoc \in LostPocs(Prepared.list) : DecodeSlice(lostPoc)

(* An EOS NAL unit ends the sequence and finishes its last picture.  When  *)
(* the file ends with it and the last picture that was finished was also   *)
(* finished by an EOS, the finish is left out.                             *)
ConsumeEos ==
    /\ Running
    /\ nal.kind = "EOS"
    /\ NextNal
    /\ newCLVS' = TRUE /\ eosInPu' = TRUE
    /\ pocRA' = MaxPoc
    /\ LET reset  == [irap EXCEPT !.type = "NONE", !.poc = MaxPoc]
           finish == ~loopFiltered \/ nal'.kind # "EOF"
       IN  IF firstInSeq
           THEN /\ view' = IF cur = 0 THEN view ELSE WriteOutput(view)
                /\ irap' = reset
                /\ UNCHANGED <<sliceAddr, loopFiltered>>
           ELSE /\ \E w \in {IF finish THEN Finished(view, cur, hdrOut, TRUE) ELSE view} :
                      view' = WriteOutput(w)
                /\ sliceAddr' = IF finish THEN -1 ELSE sliceAddr
                /\ loopFiltered' = TRUE
                /\ irap' = AssociatedIrap(reset, cur)
    /\ firstInSeq' = TRUE
    /\ firstInPic' = (cur = 0)
    /\ UNCHANGED <<cur, hdrOut, prior, recov, skip, fault, done>>

(* Mutant: the program ends with the pictures that still wait. *)
ExitUnflushed ==
    /\ Running
    /\ nal.kind = "EOF"
    /\ done' = TRUE
    /\ UNCHANGED <<stream, view, lib, app, fault>>

Exit ==
    /\ Running
    /\ nal.kind = "EOF"
    /\ view' = FlushOutput(view)
    /\ done' = TRUE
    /\ UNCHANGED <<stream, lib, app, fault>>

ReadParameterSets ==
    /\ Running
    /\ nal.kind = "PS"
    /\ NextNal
    /\ UNCHANGED <<view, lib, app, fault, done>>

(* A picture that is lost before the lookahead has seen its first slice.   *)
PictureIsLost ==
    /\ Running
    /\ ~firstInPic
    /\ LosePicture
    /\ UNCHANGED <<view, lib, app, fault, done>>

Terminated == ~Running /\ UNCHANGED vars

Next ==
    \/ NewPicture
    \/ ConsumeSlice
    \/ ConsumeEos
    \/ Exit
    \/ ReadParameterSets
    \/ PictureIsLost
    \/ Terminated

(* One thread reads a finite file to its end.                              *)
Spec == Init /\ [][Next]_vars /\ WF_vars(Next)

----------------------------------------------------------------------------
Written == WrittenIn(view.log)
Waiting == WaitingIn(view.list)
Held == HeldIn(view.list)

(* A conforming stream is decoded to its end: no CHECK fails, no reference *)
(* is missing (the checks of xDecodeSlice against the picture list, the    *)
(* associated IRAP picture and the slice order).                           *)
NoFault == fault = "none"

(* Slice::xGetRefPic looks a reference up by its POC alone.  While a       *)
(* picture is being decoded, each entry of its lists finds the picture of  *)
(* its own coded video sequence, reconstructed and still marked.           *)
ReferencesAreRight ==
    fault = "none" /\ ~firstInPic /\ ~firstInSeq =>
        \A p \in coded[cur].rpl : \E i \in DOMAIN view.list :
            LET ref == view.list[i]
            IN  /\ ref.poc = p /\ ref.id = GetRefPic(view.list, p)
                /\ ref.id < cur /\ coded[ref.id].start = coded[cur].start
                /\ ref.recon /\ ref.ref

(* xWriteOutput and xFlushOutput: pictures are written in increasing POC   *)
(* within a coded video sequence, and sequence by sequence; so no picture  *)
(* is written twice.                                                       *)
OutputInOrder ==
    \A j, k \in DOMAIN view.log : j < k =>
        LET a == coded[view.log[j]]
            b == coded[view.log[k]]
        IN  a.start < b.start \/ (a.start = b.start /\ a.poc < b.poc)

(* Once the decoder is done it has written the pictures that the stream    *)
(* wants shown, and no other: xFlushOutput leaves nothing behind, and no   *)
(* flag of a later picture header has changed an earlier picture's fate.   *)
ShowsAll == done => Written = {id \in DOMAIN coded : Shown(id)}

(* xWriteOutput leaves at most sps_max_num_reorder_pics waiting: the pass  *)
(* never stops early, and no picture waits below the last POC displayed,   *)
(* where only a flush could write it.                                      *)
ReorderBound == Cardinality(Waiting) <= NumReorder

(* xGetNewPicBuffer extends the list past the SPS limit because the new    *)
(* marking is not applied yet, but never by more than one picture.         *)
BufferBound == Len(view.list) <= MaxDec + 1

(* Every picture to be shown is written in the end, by the bumping or by   *)
(* the flush at an IDR picture or at the end of the file.                  *)
ShownIsWritten ==
    \A id \in 1 .. PicBound : (id \in DOMAIN coded /\ Shown(id)) ~> id \in Written

----------------------------------------------------------------------------
(* What holds on any stream, with losses and random access too.            *)

(* No two buffers of the list hold the same picture (xGetNewPicBuffer,     *)
(* finishPicture and the sort by POC).                                     *)
OneBufferEach == Distinct(view.list)

(* xGetNewPicBuffer and xFlushOutput never give away or delete the buffer  *)
(* of a picture that waits for output: it stays in the list until it is    *)
(* written, unless an IRAP picture is dropping the prior pictures.         *)
KeepsWaiting ==
    [][\A id \in Waiting : id \in Held' \cup Written' \/ prior.on]_vars

----------------------------------------------------------------------------
(* On a conforming stream the picture list, seen as the set of pictures    *)
(* that wait, and the written file keep the promise of PictureOutput: each *)
(* iteration of the loop writes a batch that precedes all that still wait. *)
PlaceOf(id) == [seq |-> coded[id].start, poc |-> coded[id].poc]

Promise == INSTANCE PictureOutput WITH
    Sequence <- 1 .. PicBound,
    Poc <- Pocs,
    waiting <- {PlaceOf(id) : id \in Waiting},
    written <- [k \in DOMAIN view.log |-> PlaceOf(view.log[k])]

KeepsPromise == Promise!Spec
============================================================================
