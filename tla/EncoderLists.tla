---------------------------- MODULE EncoderLists ----------------------------
(***************************************************************************)
(* The order in which the encoder codes pictures and the reference lists   *)
(* it sends with them: the verification of a GOP structure when the        *)
(* configuration is read (EncAppCfg::xCheckParameter), which also derives  *)
(* extra lists for the start of the stream and the limits of the SPS; the  *)
(* choice, check, rebuilding and marking for each picture (EncLib, EncGOP, *)
(* Slice); and, at the other end, the picture buffer of the decoder, which *)
(* accepts the lists or refuses them (Slice::checkRPL, checkCRA).          *)
(*                                                                         *)
(*   conf   : the configuration: GOP, intra period, refresh type, frames   *)
(*   stage  : "verify", then "code"; "rejected" ends the program           *)
(*   rpls   : m_RPLList0 and m_RPLList1, entry by entry                    *)
(*   order  : the verification's or the encoder's place in coding order    *)
(*   avail  : refList and numRefs of the verification                      *)
(*   isOK   : the places of the GOP that have been found correct           *)
(*   enc    : referenced POCs, m_pocCRA, m_bRefreshPending, m_iLastIDR     *)
(*   outgoing: the pictures sent so far, in decoding order                  *)
(*   dec    : the decoder's picture list and output, its associated IRAP   *)
(*                                                                         *)
(* One layer, frames, EfficientFieldIRAPEnabled as by default, no          *)
(* composite reference and no DRAP pictures; POCs do not wrap around       *)
(* (PictureOrder is about that).                                           *)
(***************************************************************************)
EXTENDS Integers, Sequences, FiniteSets

LOCAL INSTANCE SequencesExt
LOCAL INSTANCE FiniteSetsExt

CONSTANTS
    Configurations,  \* [gop, period, refresh, frames]; gop: list entries
    RefListSize      \* bound: MAX_NUM_REF_PICS + 1

\* An entry of the GOP structure: its POC in the GOP, its temporal layer,
\* the POC distances of either list and how many of them are active.
ListEntry == [poc : Nat, tid : Nat, l0 : Seq(Int), l1 : Seq(Int), n0 : Nat, n1 : Nat]

ASSUME ConfigurationAssumption ==
    \A c \in Configurations :
        /\ c.gop \in Seq(ListEntry) /\ Len(c.gop) > 1
        /\ \A i \in DOMAIN c.gop : /\ c.gop[i].n0 <= Len(c.gop[i].l0) /\ IsInjective(c.gop[i].l0)
                                  /\ c.gop[i].n1 <= Len(c.gop[i].l1) /\ IsInjective(c.gop[i].l1)
        /\ c.frames \in Nat \ {0}
        /\ \/ c.period = -1 /\ c.refresh = "none"
           \/ c.period > 0 /\ c.period % Len(c.gop) = 0 /\ c.refresh \in {"CRA", "IDR"}

VARIABLES conf, stage, rpls, order, avail, isOK, enc, outgoing, dec

listVars == <<conf, stage, rpls, order, avail, isOK, enc, outgoing, dec>>

Dpb(maxDec, numReorder) ==
    INSTANCE PictureBuffer WITH MaxDec <- maxDec, NumReorder <- numReorder

NoIrap == [poc |-> -1, id |-> 0]

ListsInit ==
    /\ conf \in Configurations
    /\ stage = "verify"
    /\ rpls = conf.gop
    /\ order = 0
    /\ avail = [pocs |-> [i \in 1 .. RefListSize |-> 0], num |-> 1]
    /\ isOK = {}
    /\ enc = [refs |-> {}, pocCra |-> 0, pending |-> FALSE, lastIdr |-> 0]
    /\ outgoing = <<>>
    /\ dec = [view |-> [list |-> <<>>, last |-> -1, log |-> <<>>], irap |-> NoIrap]

----------------------------------------------------------------------------
(* The picture at place k = 0, 1, ... of the coding order, after POC 0.    *)
Size == Len(conf.gop)
EntryOf(k) == conf.gop[(k % Size) + 1]
PocOf(k) == (k \div Size) * Size + EntryOf(k).poc

Pocs(poc, deltas) == [i \in DOMAIN deltas |-> poc - deltas[i]]

(* A picture coded before place k is offered to a list that has lost       *)
(* entries: it must be in the first entries of refList, as many as both    *)
(* lists have (not as many as refList has).                                *)
Insert(list, delta) ==
    LET above == {j \in DOMAIN list : list[j] > delta}
    IN  InsertAt(list, IF delta > 0 /\ above # {} THEN Min(above) ELSE Len(list) + 1, delta)

Offered(list, others, k, delta) ==
    LET poc == PocOf(order) - delta
    IN  IF /\ EntryOf(k).tid <= EntryOf(order).tid
           /\ \E i \in 1 .. Len(list) + others : avail.pocs[i] = poc
           /\ ~Contains(list, delta)
        THEN Insert(list, delta)
        ELSE list

(* The loop over the earlier pictures, latest first; whether the list is   *)
(* long enough is asked after each picture, so one is always offered.      *)
Refilled(list, active, others) ==
    LET fill[k \in 0 .. order] ==
            IF k = order THEN [list |-> list, full |-> FALSE]
            ELSE IF fill[k + 1].full THEN fill[k + 1]
            ELSE LET longer == Offered(fill[k + 1].list, others, k, PocOf(order) - PocOf(k))
                 IN  [list |-> longer, full |-> Len(longer) >= active]
    IN  fill[0].list

ExtraEntry(entry) ==
    LET coming(list) == SelectSeq(list, LAMBDA delta : PocOf(order) >= delta)
        l0 == Refilled(coming(entry.l0), entry.n0, Len(coming(entry.l1)))
        l1 == Refilled(coming(entry.l1), entry.n1, Len(l0))
    IN  [entry EXCEPT !.l0 = l0, !.n0 = Min({Len(l0), entry.n0}),
                      !.l1 = l1, !.n1 = Min({Len(l1), entry.n1})]

(* refList for the next picture; what it held behind its end stays there.  *)
Available(entry) ==
    LET known(list) == SelectSeq(Pocs(PocOf(order), list), LAMBDA poc : poc >= 0)
        first == known(entry.l0)
        pocs  == first \o SelectSeq(known(entry.l1), LAMBDA poc : ~Contains(first, poc))
                       \o <<PocOf(order)>>
    IN  [pocs |-> [i \in 1 .. RefListSize |-> IF i <= Len(pocs) THEN pocs[i] ELSE avail.pocs[i]],
         num |-> Len(pocs)]

(* One iteration of the verification.  Only list 0 is checked.             *)
VerifyEntry ==
    LET entry == EntryOf(order)
        needs == Range(Pocs(PocOf(order), entry.l0))
        early == \E poc \in needs : poc < 0
    IN  /\ stage = "verify"
        /\ IF \E poc \in needs : poc >= 0 /\ \A i \in 1 .. avail.num : avail.pocs[i] # poc
           THEN stage' = "rejected" /\ UNCHANGED <<rpls, order, avail, isOK>>
           ELSE /\ rpls' = IF early THEN Append(rpls, ExtraEntry(entry)) ELSE rpls
                /\ avail' = Available(IF early THEN ExtraEntry(entry) ELSE entry)
                /\ isOK' = IF early THEN isOK ELSE isOK \cup {order % Size}
                /\ stage' = IF Cardinality(isOK') = Size THEN "code" ELSE "verify"
                /\ order' = IF Cardinality(isOK') = Size THEN -1 ELSE order + 1
        /\ UNCHANGED <<conf, enc, outgoing, dec>>

----------------------------------------------------------------------------
(* The limits of the SPS for the highest temporal layer, m_numReorderPics  *)
(* and m_maxDecPicBuffering: from the entries of the GOP, without those of *)
(* the extra lists.                                                        *)
LastBefore(i) == Max({j \in 1 .. Size : conf.gop[j].poc <= conf.gop[i].poc})

(* Mutant: only pictures of the same temporal layer count.                 *)
ReorderOfOwnLayer ==
    Max({Cardinality({j \in 1 .. LastBefore(i) - 1 : /\ conf.gop[j].tid = conf.gop[i].tid
                                                     /\ conf.gop[j].poc > conf.gop[i].poc})
            : i \in 1 .. Size})

NumReorderPics ==
    Max({Cardinality({j \in 1 .. LastBefore(i) - 1 : /\ conf.gop[j].tid <= conf.gop[i].tid
                                                     /\ conf.gop[j].poc > conf.gop[i].poc})
            : i \in 1 .. Size})

MaxDecPicBuffering ==
    Max({Cardinality(Range(conf.gop[i].l0) \cup Range(conf.gop[i].l1)) + 1 : i \in 1 .. Size}
           \cup {NumReorderPics + 1})

(* EncLib::xInitRPL: do all active entries go the same way, so that slices *)
(* must not mix signs?  At the first entry of a later list 0 the loop      *)
(* reads m_refPicIdentifier[-1], a zero at the end of the array before it. *)
Steady(list, active, from, down) ==
    \A j \in from .. active : (list[j] <= (IF j = 1 THEN 0 ELSE list[j - 1])) <=> down

SameSign ==
    LET some  == {i \in DOMAIN rpls : rpls[i].n0 > 0}
        first == Min(some)
    IN  /\ \A i \in some :
              Steady(rpls[i].l0, rpls[i].n0, IF i = first THEN 2 ELSE 1, rpls[first].l0[1] <= 0)
        /\ \/ \A i \in DOMAIN rpls : rpls[i].l0 = rpls[i].l1
           \/ \A i \in DOMAIN rpls :
                 rpls[i].n1 > 0 => Steady(rpls[i].l1, rpls[i].n1, 2, rpls[i].l1[1] <= 0)

----------------------------------------------------------------------------
(* EncLib::selectReferencePictureList, the entry for a picture.  An intra  *)
(* period of -1 counts as two GOPs when list 0 and 1 of the second entry   *)
(* look in different directions.  After a match the loop leaves out the    *)
(* entry that follows.                                                     *)
FirstDelta(list) == IF list = <<>> THEN 0 ELSE list[1]

Period ==
    IF conf.period < 0 /\ FirstDelta(rpls[2].l0) * FirstDelta(rpls[2].l1) < 0
    THEN 2 * Size ELSE conf.period

SelectByPeriod(poc, place) ==
    LET index == IF poc % Period = 0 THEN Period ELSE poc % Period
        pick[n \in Size .. Len(rpls)] ==
            IF n = Size THEN [at |-> place, skip |-> FALSE]
            ELSE IF pick[n - 1].skip THEN [pick[n - 1] EXCEPT !.skip = FALSE]
            ELSE IF rpls[n].poc = index THEN [at |-> n, skip |-> TRUE]
            ELSE pick[n - 1]
    IN  pick[Len(rpls)].at

SelectByPoc(poc, place) ==
    IF poc < 2 * Size + 2
    THEN IF poc + Size > Len(rpls) THEN place ELSE poc + Size
    ELSE IF poc % Size = 0 THEN Size ELSE poc % Size

Selected(poc, place) ==
    rpls[IF Period > 0 THEN SelectByPeriod(poc, place) ELSE SelectByPoc(poc, place)]

(* EncGOP::getNalUnitType.  STSA pictures, which are trailing pictures to  *)
(* everything here, are not told apart.                                    *)
NalUnitType(poc, lastIdr) ==
    IF poc = 0 THEN "IDR"
    ELSE IF conf.refresh # "none" /\ poc % conf.period = 0 THEN conf.refresh
    ELSE IF poc < enc.pocCra THEN "RASL"
    ELSE IF poc < lastIdr THEN "RADL"
    ELSE "TRAIL"

(* Slice::decodingRefreshMarking: the first picture behind the last random *)
(* access point in output order ends all references but that one.          *)
Anchor == IF conf.refresh = "IDR" THEN enc.lastIdr ELSE enc.pocCra

IsFirstBehind(type, poc) == type # "IDR" /\ enc.pending /\ poc > Anchor

RefreshedFor(type, poc) ==
    IF type = "IDR" THEN {}
    ELSE IF IsFirstBehind(type, poc) THEN enc.refs \cap {Anchor}
    ELSE enc.refs

(* Slice::checkThatAllRefPicsAreAvailable: the POC of the first entry      *)
(* without a referenced picture, or 0.                                     *)
FirstMissing(type, list, refs) ==
    LET lost == SelectSeq(list, LAMBDA poc : poc \notin refs)
    IN  IF type = "IDR" \/ lost = <<>> THEN 0 ELSE lost[1]

(* Mutant: entries of pictures that are gone stay in the lists.            *)
NeverRebuilt(lists, poc, refs) == lists

(* EncGOP::xCreateExplicitReferencePictureSetFromReference: what is left   *)
(* of the lists, with list 1 filled up from list 0.  (The loop that would  *)
(* fill list 0 is bounded by counts of list 1 that are still zero.)        *)
Rebuilt(lists, poc, refs) ==
    LET left(list) == SelectSeq(list, LAMBDA p : p \in refs)
        l0   == left(lists.l0)
        n0   == Min({Len(l0), lists.n0})
        more == SelectSeq(l0, LAMBDA p : ~Contains(left(lists.l1), p))
        head == left(lists.l1) \o more
        fits == SelectSeq(more, LAMBDA p : SameSign => (p > poc <=> head[1] > poc))
        need == Max({0, n0 - Len(left(lists.l1))})
        l1   == left(lists.l1) \o SubSeq(fits, 1, Min({need, Len(fits)}))
    IN  [l0 |-> l0, n0 |-> n0,
         l1 |-> l1, n1 |-> IF SameSign THEN Len(l1) ELSE Min({Len(l1), lists.n1})]

Chosen(type, poc, place, refs) ==
    LET entry == Selected(poc, place)
        lists == [l0 |-> Pocs(poc, entry.l0), n0 |-> entry.n0,
                  l1 |-> Pocs(poc, entry.l1), n1 |-> entry.n1]
    IN  IF FirstMissing(type, lists.l0, refs) # 0 \/ FirstMissing(type, lists.l1, refs) # 0
        THEN Rebuilt(lists, poc, refs)
        ELSE lists

----------------------------------------------------------------------------
(* The decoder.  The slices of an IDR picture carry no lists (unless       *)
(* IDRRefParamList is set), and an IRAP picture has no active entries.     *)
Sent(type, poc, tid, lists) ==
    LET all(list)     == IF type = "IDR" THEN <<>> ELSE list
        live(list, n) == IF type \in {"IDR", "CRA"} THEN {} ELSE Range(SubSeq(list, 1, n))
    IN  [poc |-> poc, type |-> type, tid |-> IF type \in {"IDR", "CRA"} THEN 0 ELSE tid,
         names |-> Range(all(lists.l0)) \cup Range(all(lists.l1)),
         active |-> live(lists.l0, lists.n0) \cup live(lists.l1, lists.n1)]

(* Slice::checkThatAllRefPicsAreAvailable, checkCRA and checkRPL: may this *)
(* picture name those pictures?                                            *)
PocsOf(list) == {list[i].poc : i \in DOMAIN list}
PlaceOf(poc) == CHOOSE i \in DOMAIN outgoing : outgoing[i].poc = poc

Accepted(pic, list) ==
    /\ pic.names \subseteq PocsOf(list)
    /\ pic.active \subseteq PocsOf(SelectSeq(list, LAMBDA p : p.ref))
    /\ pic.poc > dec.irap.poc \/ pic.type = "CRA" =>
          \A poc \in pic.names : poc >= dec.irap.poc /\ PlaceOf(poc) >= dec.irap.id
    /\ \A poc \in pic.active :
          /\ pic.type = "RADL" => PlaceOf(poc) >= dec.irap.id
          /\ outgoing[PlaceOf(poc)].tid <= pic.tid

(* DecApp and DecLib: an IDR picture flushes the output, the picture takes *)
(* a buffer, the output runs, the picture is finished, the output runs.    *)
Flushed == Dpb(MaxDecPicBuffering, NumReorderPics)!FlushOutput(dec.view)
Started(view, pic) ==
    [view EXCEPT !.list = Dpb(MaxDecPicBuffering, NumReorderPics)!StartPicture(
                              @, Len(outgoing) + 1, pic.poc, dec.irap.poc, pic.names)]
Finished(view) ==
    [view EXCEPT !.list = Dpb(MaxDecPicBuffering, NumReorderPics)!FinishPicture(
                              @, Len(outgoing) + 1, TRUE)]
Bumped(view) == Dpb(MaxDecPicBuffering, NumReorderPics)!WriteOutput(view)

Decoded(pic) ==
    [view |-> Bumped(Finished(Bumped(Started(IF pic.type = "IDR" THEN Flushed ELSE dec.view, pic)))),
     irap |-> IF pic.type \in {"IDR", "CRA"} THEN [poc |-> pic.poc, id |-> Len(outgoing) + 1]
              ELSE dec.irap]

----------------------------------------------------------------------------
(* The pictures of a GOP come in before the first of them is coded, and    *)
(* EncLib::xGetNewPicBuffer marks them as references already.              *)
Received(k) ==
    {poc \in (k \div Size) * Size + 1 .. (k \div Size) * Size + Size : poc < conf.frames}

Following(k) == {j \in k + 1 .. k + Size : PocOf(j) < conf.frames}

(* EncGOP::compressGOP for one picture: POC 0 comes alone.                 *)
EncodePicture ==
    LET poc     == IF order < 0 THEN 0 ELSE PocOf(order)
        place   == IF order < 0 THEN 1 ELSE (order % Size) + 1
        lastIdr == IF NalUnitType(poc, enc.lastIdr) = "IDR" THEN poc ELSE enc.lastIdr
        type    == NalUnitType(poc, lastIdr)
        refs    == RefreshedFor(type, poc)
        lists   == Chosen(type, poc, place, refs)
        kept    == IF type = "IDR" THEN {}
                   ELSE refs \cap (Range(lists.l0) \cup Range(lists.l1))
        pic     == Sent(type, poc, conf.gop[place].tid, lists)
        after   == Following(order)
        new     == IF after # {} /\ (order < 0 \/ Min(after) \div Size # order \div Size)
                   THEN Received(Min(after)) ELSE {}
    IN  /\ stage = "code"
        /\ enc' = [refs |-> kept \cup {poc} \cup new,
                   pocCra |-> IF type = "CRA" THEN poc ELSE enc.pocCra,
                   pending |-> type \in {"IDR", "CRA"} \/ (enc.pending /\ ~IsFirstBehind(type, poc)),
                   lastIdr |-> lastIdr]
        /\ outgoing' = Append(outgoing, pic)
        /\ IF Accepted(pic, IF type = "IDR" THEN <<>> ELSE dec.view.list)
           THEN /\ dec' = Decoded(pic)
                /\ stage' = IF after = {} THEN "done" ELSE "code"
                /\ order' = IF after = {} THEN order ELSE Min(after)
           ELSE stage' = "refused" /\ UNCHANGED <<dec, order>>
        /\ UNCHANGED <<conf, rpls, avail, isOK>>

ListsNext == VerifyEntry \/ EncodePicture

ListsSpec == ListsInit /\ [][ListsNext]_listVars

----------------------------------------------------------------------------
(* What the encoder relies on when it sends its lists without rebuilding   *)
(* them: the check of EncGOP::compressGOP has reported every picture of a  *)
(* list that is not in the buffer any more (Slice.cpp:2485: "report that a *)
(* picture is lost if it is in the Reference Picture List but not in the   *)
(* DPB").                                                                  *)
LossesReported == outgoing # <<>> => outgoing[Len(outgoing)].names \subseteq enc.refs

(* A GOP structure that passes the verification of EncAppCfg gives, with   *)
(* its extra lists and the rebuilt ones, streams the decoder accepts: each *)
(* picture a list names is held there, active ones are references of no    *)
(* higher layer, and no list reaches across a random access point.  The    *)
(* one exception is the loss of POC 0, which EncGOP::compressGOP takes for *)
(* none (LossesReported).                                                  *)
OnlyPocZeroIsRefused ==
    stage = "refused" => 0 \in outgoing[Len(outgoing)].names \ enc.refs

(* The limits of the SPS, which EncAppCfg derives from the GOP without its *)
(* extra lists, are enough for every picture sent: the output of DecApp is *)
(* in the order of POCs, no more than NumReorderPics pictures wait after a *)
(* picture, the list does not outgrow the one xGetNewPicBuffer starts      *)
(* with, and at the end no picture has been dropped.                       *)
ShownInOrder ==
    LET view == dec.view
    IN  /\ \A i, j \in DOMAIN view.log : i < j => outgoing[view.log[i]].poc < outgoing[view.log[j]].poc
        /\ Cardinality({i \in DOMAIN view.list : view.list[i].needed}) <= NumReorderPics
        /\ Len(view.list) <= MaxDecPicBuffering + 1
        /\ stage = "done" => \A i \in DOMAIN outgoing :
              \/ \E j \in DOMAIN view.log : view.log[j] = i
              \/ \E j \in DOMAIN view.list : view.list[j].id = i /\ view.list[j].needed

=============================================================================
