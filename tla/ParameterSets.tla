---------------------------- MODULE ParameterSets ---------------------------
(***************************************************************************)
(* SPS and PPS of one layer: ParameterSetMap stores and deletes the        *)
(* objects, xActivateParameterSets takes them for the first slice of a     *)
(* picture, and the pictures of the list keep pointers to them in their    *)
(* CodingStructure until their buffer is used again.                       *)
(*                                                                         *)
(* An object is its content and a number; two live objects never have the  *)
(* same number.  A stored object is deleted when nothing but a picture     *)
(* points to it any more.  Which pictures are still held (for output or    *)
(* as references) is left open: PictureBuffer models it.                   *)
(***************************************************************************)
EXTENDS Integers, Sequences, FiniteSets

CONSTANTS
    SpsId, PpsId, \* ids of parameter sets
    Version,      \* what may differ between two contents of an SPS, and of a PPS
    SendBound,    \* bound: parameter set NAL units of the stream
    MaxPics,      \* m_iMaxRefPicNum: buffers of the list before it is full
    ListBound,    \* bound: buffers of a list that is extended
    CraStarts     \* may a CRA picture follow an EOS NAL unit?

ASSUME SetsAssumption ==
    /\ SpsId \subseteq Nat /\ PpsId \subseteq Nat /\ Version # {}
    /\ IsFiniteSet(SpsId) /\ IsFiniteSet(PpsId)
    /\ SendBound \in Nat /\ MaxPics \in Nat \ {0} /\ ListBound \in Nat
    /\ CraStarts \in BOOLEAN

VARIABLES
    spsMap, ppsMap,  \* the maps of ParameterSetManager
    pics,            \* the list: what each CodingStructure points to
    current,         \* position of the picture being decoded, 0 for none
    asSent,          \* contents the current picture's author meant
    sentSps,         \* content of each SPS as sent last
    sentPps,
    inUse,           \* id of the SPS of the current sequence
    sentNow,         \* SPSs and PPSs sent since the last picture
    sends,           \* how many parameter sets have been sent
    start            \* the next picture: "any", "IDR", "IRAP" (after an EOS)

mapVars == <<spsMap, ppsMap>>
sentVars == <<sentSps, sentPps, inUse, sentNow, sends, start>>
setsVars == <<mapVars, pics, current, asSent, sentVars>>

None == [n |-> 0]
ObjectOf(data) == [n : Nat \ {0}, data : data]

MapOf(ids, data) ==
    [obj : [ids -> ObjectOf(data) \cup {None}], changed : [ids -> BOOLEAN],
     active : SUBSET ids, last : ObjectOf(data) \cup {None}]

SpsData == [v : Version]
PpsData == [sps : SpsId, v : Version]
Buffer == [sps : ObjectOf(SpsData), pps : ObjectOf(PpsData), held : BOOLEAN]

SetsType ==
    /\ spsMap \in MapOf(SpsId, SpsData) /\ ppsMap \in MapOf(PpsId, PpsData)
    /\ pics \in Seq(Buffer) /\ current \in 0 .. Len(pics)
    /\ asSent \in [sps : SpsData, pps : PpsData] \cup {None}
    /\ sentSps \in [SpsId -> SpsData \cup {None}] /\ sentPps \in [PpsId -> PpsData \cup {None}]
    /\ inUse \in SpsId
    /\ sentNow \subseteq ({"sps"} \X SpsId) \cup ({"pps"} \X PpsId)
    /\ sends \in 0 .. SendBound /\ start \in {"any", "IDR", "IRAP"}

----------------------------------------------------------------------------
(* ParameterSetMap::storePS.  The NAL unit data it compares is that of the *)
(* stored object, so the objects' contents are compared here; an object    *)
(* that is replaced while its id is active is kept in                      *)
(* m_lastActiveParameterSet, which deletes the one that was kept before.   *)
(* Mutants: nothing is kept; a repetition of any content is dropped.       *)
StoreKeepingNothing(m, id, ps) ==
    IF m.obj[id] # None /\ ~m.changed[id] /\ m.obj[id].data = ps.data THEN m
    ELSE [m EXCEPT !.obj[id] = ps, !.changed[id] = m.obj[id] # None]

StoreOnce(m, id, ps) ==
    IF m.obj[id] # None /\ ~m.changed[id] /\ id \in m.active THEN m
    ELSE [m EXCEPT !.obj[id] = ps, !.changed[id] = m.obj[id] # None,
                   !.last = IF m.obj[id] # None /\ id \in m.active THEN m.obj[id] ELSE @]

Store(m, id, ps) ==
    IF m.obj[id] # None /\ ~m.changed[id] /\ m.obj[id].data = ps.data THEN m
    ELSE [m EXCEPT !.obj[id] = ps, !.changed[id] = m.obj[id] # None,
                   !.last = IF m.obj[id] # None /\ id \in m.active THEN m.obj[id] ELSE @]

(* clearChangedFlag and, from activatePPS, clear and setActive. *)
Activate(m, id) == [m EXCEPT !.changed[id] = FALSE, !.active = {id}]

Alive(m) == ({m.obj[id] : id \in DOMAIN m.obj} \cup {m.last}) \ {None}

(* The number of a new object: one that nothing has. *)
Unused(m, pointers) ==
    LET taken == {o.n : o \in Alive(m) \cup pointers}
    IN  CHOOSE n \in 1 .. Cardinality(taken) + 1 : n \notin taken

Pointers(field) == {pics[k][field] : k \in DOMAIN pics}

----------------------------------------------------------------------------
(* The author changes the SPS of a sequence only for the next one, and     *)
(* sends each parameter set once at most before a picture.                 *)
SendSps(id, v) ==
    /\ current = 0 /\ sends < SendBound /\ <<"sps", id>> \notin sentNow
    /\ spsMap' = Store(spsMap, id, [n |-> Unused(spsMap, Pointers("sps")), data |-> v])
    /\ sentSps' = [sentSps EXCEPT ![id] = v]
    /\ sentNow' = sentNow \cup {<<"sps", id>>} /\ sends' = sends + 1
    /\ start' = IF id = inUse /\ sentSps[id] # v /\ start = "any" THEN "IDR" ELSE start
    /\ UNCHANGED <<ppsMap, pics, current, asSent, sentPps, inUse>>

SendPps(id, data) ==
    /\ current = 0 /\ sends < SendBound /\ <<"pps", id>> \notin sentNow
    /\ ppsMap' = Store(ppsMap, id, [n |-> Unused(ppsMap, Pointers("pps")), data |-> data])
    /\ sentPps' = [sentPps EXCEPT ![id] = data]
    /\ sentNow' = sentNow \cup {<<"pps", id>>} /\ sends' = sends + 1
    /\ UNCHANGED <<spsMap, pics, current, asSent, sentSps, inUse, start>>

(* Does the author's next picture have this type and PPS? *)
Legal(type, id) ==
    /\ sentPps[id] # None /\ sentSps[sentPps[id].sps] # None
    /\ CASE start = "any"  -> type = "IDR" \/ (type = "TRAIL" /\ sentPps[id].sps = inUse)
         [] start = "IDR"  -> type = "IDR"
         [] start = "IRAP" -> type = "IDR" \/ (type = "CRA" /\ CraStarts)

----------------------------------------------------------------------------
(* xGetNewPicBuffer and Picture::finalInit.  The list is extended where    *)
(* none of its buffers is free.  A new buffer, or one whose size the PPS   *)
(* changes, gets a new CodingStructure; any other one keeps its SPS        *)
(* pointer.                                                                *)
Free(list) == {k \in DOMAIN list : ~list[k].held}

Placed(list, sps, pps) ==
    IF Len(list) < MaxPics \/ (Free(list) = {} /\ Len(list) < ListBound)
    THEN {[list |-> Append(list, [sps |-> sps, pps |-> pps, held |-> TRUE]),
           at   |-> Len(list) + 1]}
    ELSE {[list |-> [list EXCEPT ![k] =
                        [sps  |-> IF list[k].pps.data.v = pps.data.v THEN @.sps ELSE sps,
                         pps  |-> pps, held |-> TRUE]],
           at   |-> k] : k \in Free(list)}

(* xActivateParameterSets for the first slice; an IDR picture has flushed  *)
(* the list.                                                               *)
StartPictureWith(type, id) ==
    LET pps  == ppsMap.obj[id]
        sps  == spsMap.obj[pps.data.sps]
        list == IF type = "IDR" THEN <<>> ELSE pics
    IN  /\ current = 0 /\ Legal(type, id)
        /\ spsMap' = Activate(spsMap, pps.data.sps)
        /\ ppsMap' = Activate(ppsMap, id)
        /\ \E p \in Placed(list, sps, pps) : pics' = p.list /\ current' = p.at
        /\ asSent' = [sps |-> sentSps[sentPps[id].sps], pps |-> sentPps[id]]
        /\ inUse' = sentPps[id].sps
        /\ sentNow' = {} /\ start' = "any"
        /\ UNCHANGED <<sentSps, sentPps, sends>>

PictureDone(next) ==
    /\ current # 0
    /\ current' = 0 /\ asSent' = None
    /\ start' = next
    /\ UNCHANGED <<mapVars, pics, sentSps, sentPps, inUse, sentNow, sends>>

(* A picture has been written and is no longer a reference. *)
Release(k) ==
    /\ k # current /\ pics[k].held
    /\ pics' = [pics EXCEPT ![k].held = FALSE]
    /\ UNCHANGED <<mapVars, current, asSent, sentVars>>

EmptyMap(ids) == [obj |-> [id \in ids |-> None], changed |-> [id \in ids |-> FALSE],
                  active |-> {}, last |-> None]

SetsInit ==
    /\ spsMap = EmptyMap(SpsId) /\ ppsMap = EmptyMap(PpsId)
    /\ pics = <<>> /\ current = 0 /\ asSent = None
    /\ sentSps = [id \in SpsId |-> None] /\ sentPps = [id \in PpsId |-> None]
    /\ inUse \in SpsId /\ sentNow = {} /\ sends = 0 /\ start = "IDR"

SetsNext ==
    \/ \E id \in SpsId, v \in SpsData : SendSps(id, v)
    \/ \E id \in PpsId, data \in PpsData : SendPps(id, data)
    \/ \E type \in {"IDR", "CRA", "TRAIL"}, id \in PpsId : StartPictureWith(type, id)
    \/ PictureDone("any")
    \/ PictureDone("IRAP")
    \/ \E k \in DOMAIN pics : Release(k)

SetsSpec == SetsInit /\ [][SetsNext]_setsVars

----------------------------------------------------------------------------
(* xActivateParameterSets: "Get a new picture buffer. This will also set   *)
(* up m_pcPic, and therefore give us a SPS and PPS pointer that we can     *)
(* use": a picture is decoded with the parameter sets as they were sent    *)
(* last before it.                                                         *)
DecodedAsSent ==
    current # 0 => /\ pics[current].sps.data = asSent.sps
                   /\ pics[current].pps.data = asSent.pps

(* The output reads the SPS of each picture that still waits, and a later  *)
(* picture that of its references: no replacement has deleted it.          *)
HeldSpsAlive == \A k \in DOMAIN pics : pics[k].held => pics[k].sps \in Alive(spsMap)

(* "this is a temporary PPS object. Do not store this value": what a       *)
(* picture that is held keeps is not deleted by the next PPSs.             *)
HeldPpsAlive == \A k \in DOMAIN pics : pics[k].held => pics[k].pps \in Alive(ppsMap)
=============================================================================
