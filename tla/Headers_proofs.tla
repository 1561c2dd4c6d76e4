--------------------------- MODULE Headers_proofs ---------------------------
(***************************************************************************)
(* What is known of a picture before its slice data is read: the parameter *)
(* sets it is decoded with, and its picture order count.                   *)
(***************************************************************************)
EXTENDS ParameterSets, PictureOrder, FiniteSetTheorems, SequenceTheorems, TLAPS

----------------------------------------------------------------------------
(***************************************************************************)
(* For any ids, any contents and any number of parameter sets and buffers: *)
(* if only IDR pictures follow an EOS NAL unit, every picture is decoded   *)
(* with the parameter sets sent last before it, and no SPS of a picture    *)
(* that is held has been deleted.                                          *)
(*                                                                         *)
(* The map keeps one replaced object.  That is enough because all pictures *)
(* of the list have the same one: that of the SPS in use, or the one that  *)
(* its only replacement before the next IDR picture has put aside.         *)
(***************************************************************************)
(* The maps hold what was sent last. *)
MapsAreAsSent ==
    /\ \A id \in SpsId :
           IF sentSps[id] = None THEN spsMap.obj[id] = None
           ELSE spsMap.obj[id] # None /\ spsMap.obj[id].data = sentSps[id]
    /\ \A id \in PpsId :
           IF sentPps[id] = None THEN ppsMap.obj[id] = None
           ELSE ppsMap.obj[id] # None /\ ppsMap.obj[id].data = sentPps[id]

(* All buffers point to one SPS.                                           *)
OneSps ==
    pics # <<>> =>
        /\ spsMap.active = {inUse} /\ sentSps[inUse] # None
        /\ start = "any" => ~spsMap.changed[inUse]
        /\ \/ \A k \in DOMAIN pics : pics[k].sps = spsMap.obj[inUse]
           \/ /\ <<"sps", inUse>> \in sentNow /\ start # "any"
              /\ \A k \in DOMAIN pics : pics[k].sps = spsMap.last

(* While a picture is decoded nothing is sent.                             *)
WhileDecoding ==
    current # 0 =>
        /\ start = "any"
        /\ asSent # None /\ asSent.sps = sentSps[inUse]
        /\ pics[current].pps.data = asSent.pps

SetsInv == SetsType /\ MapsAreAsSent /\ OneSps /\ WhileDecoding

----------------------------------------------------------------------------
(* New objects: there is always a number that nothing has.                 *)
LEMMA ImageIsFinite ==
    ASSUME NEW S, IsFiniteSet(S), NEW f, NEW T, T = {f[x] : x \in S},
           \A x \in S : x \in DOMAIN f
    PROVE  IsFiniteSet(T)
<1> DEFINE g == [x \in S |-> f[x]]
<1>1. g \in Surjection(S, T)
    BY DEF Surjection
<1> QED
    BY <1>1, FS_Surjection

LEMMA UnusedIsNew ==
    ASSUME NEW ids, NEW data, IsFiniteSet(ids), NEW m \in MapOf(ids, data),
           NEW pointers, IsFiniteSet(pointers)
    PROVE  Unused(m, pointers) \in Nat \ {0}
<1> DEFINE objects == {m.obj[id] : id \in DOMAIN m.obj} \cup {m.last}
           all == Alive(m) \cup pointers
           number == [o \in all |-> o.n]
           taken == {o.n : o \in all}
           c == Cardinality(taken)
<1>1. m.obj \in [ids -> ObjectOf(data) \cup {None}]
    BY DEF MapOf
<1>2. IsFiniteSet({m.obj[id] : id \in DOMAIN m.obj})
    BY <1>1, ImageIsFinite
<1>3. IsFiniteSet(objects)
    BY <1>2, FS_Singleton, FS_Union
<1>4. IsFiniteSet(Alive(m))
    <2>1. Alive(m) \in SUBSET objects
        BY DEF Alive
    <2> QED
        BY <2>1, <1>3, FS_Subset
<1>5. IsFiniteSet(all)
    BY <1>4, FS_Union
<1>6. IsFiniteSet(taken)
    <2>1. taken = {number[o] : o \in all} /\ \A o \in all : o \in DOMAIN number
        OBVIOUS
    <2> QED
        BY <2>1, <1>5, ImageIsFinite
<1>7. c \in Nat
    BY <1>6, FS_CardinalityType
<1>8. \E n \in 1 .. c + 1 : n \notin taken
    <2> SUFFICES ASSUME 1 .. c + 1 \in SUBSET taken PROVE FALSE
        OBVIOUS
    <2>1. Cardinality(1 .. c + 1) = c + 1
        BY <1>7, FS_Interval
    <2>2. Cardinality(1 .. c + 1) <= c
        BY <1>6, FS_Subset
    <2> QED
        BY <2>1, <2>2, <1>7
<1>9. Unused(m, pointers) = CHOOSE n \in 1 .. c + 1 : n \notin taken
    BY DEF Unused
<1> HIDE DEF c, taken
<1>10. (CHOOSE n \in 1 .. c + 1 : n \notin taken) \in 1 .. c + 1
    BY <1>8
<1> DEFINE w == CHOOSE n \in 1 .. c + 1 : n \notin taken
<1>11. w \in 1 .. c + 1 /\ Unused(m, pointers) = w
    BY <1>9, <1>10
<1> HIDE DEF w
<1> QED
    BY <1>7, <1>11

LEMMA PointersAreFinite ==
    ASSUME SetsType, NEW field \in {"sps", "pps"}
    PROVE  IsFiniteSet(Pointers(field))
<1> DEFINE f == [k \in DOMAIN pics |-> pics[k][field]]
<1>1. DOMAIN pics = 1 .. Len(pics) /\ Len(pics) \in Nat
    BY DEF SetsType
<1>2. IsFiniteSet(DOMAIN pics)
    BY <1>1, FS_Interval
<1>3. Pointers(field) = {f[k] : k \in DOMAIN pics} /\ \A k \in DOMAIN pics : k \in DOMAIN f
    BY DEF Pointers
<1> QED
    BY <1>2, <1>3, ImageIsFinite

----------------------------------------------------------------------------
(* storePS: what a map holds afterwards, and what it keeps.                *)
LEMMA StoreInMap ==
    ASSUME NEW ids, NEW data, NEW m \in MapOf(ids, data), NEW id \in ids, NEW ps \in ObjectOf(data)
    PROVE  /\ Store(m, id, ps) \in MapOf(ids, data)
           /\ \/ /\ m.obj[id] # None /\ m.obj[id].data = ps.data
                 /\ Store(m, id, ps) = m
              \/ /\ Store(m, id, ps).obj = [m.obj EXCEPT ![id] = ps]
                 /\ m.obj[id] = None \/ m.changed[id] \/ m.obj[id].data # ps.data
                 /\ \A i \in ids \ {id} : Store(m, id, ps).changed[i] = m.changed[i]
                 /\ Store(m, id, ps).last =
                        IF m.obj[id] # None /\ id \in m.active THEN m.obj[id] ELSE m.last
<1> DEFINE kept == m.obj[id] # None /\ id \in m.active
           new  == [obj |-> [m.obj EXCEPT ![id] = ps],
                    changed |-> [m.changed EXCEPT ![id] = m.obj[id] # None],
                    active |-> m.active,
                    last |-> IF kept THEN m.obj[id] ELSE m.last]
<1>1. /\ m = [obj |-> m.obj, changed |-> m.changed, active |-> m.active, last |-> m.last]
      /\ m.obj \in [ids -> ObjectOf(data) \cup {None}] /\ m.changed \in [ids -> BOOLEAN]
      /\ m.active \in SUBSET ids /\ m.last \in ObjectOf(data) \cup {None}
    BY DEF MapOf
<1>2. CASE m.obj[id] # None /\ ~m.changed[id] /\ m.obj[id].data = ps.data
    <2>1. Store(m, id, ps) = m
        BY <1>2 DEF Store
    <2> QED
        BY <2>1, <1>2
<1>3. CASE ~(m.obj[id] # None /\ ~m.changed[id] /\ m.obj[id].data = ps.data)
    <2>1. Store(m, id, ps) = new
        <3>1. Store(m, id, ps) =
                 [m EXCEPT !.obj[id] = ps, !.changed[id] = m.obj[id] # None,
                           !.last = IF m.obj[id] # None /\ id \in m.active THEN m.obj[id] ELSE @]
            BY <1>3 DEF Store
        <3> QED
            BY <3>1, <1>1
    <2>2. new.obj = [m.obj EXCEPT ![id] = ps] /\ new.obj \in [ids -> ObjectOf(data) \cup {None}]
        BY <1>1
    <2>3. /\ new.changed \in [ids -> BOOLEAN]
          /\ \A i \in ids \ {id} : new.changed[i] = m.changed[i]
        BY <1>1
    <2>4. new.last \in ObjectOf(data) \cup {None} /\ new.active = m.active
        BY <1>1
    <2>5. new \in MapOf(ids, data)
        BY <2>2, <2>3, <2>4, <1>1 DEF MapOf
    <2> QED
        BY <2>1, <2>2, <2>3, <2>4, <2>5, <1>3
<1> QED
    BY <1>2, <1>3

(* clearChangedFlag and setActive.                                         *)
LEMMA ActivateInMap ==
    ASSUME NEW ids, NEW data, NEW m \in MapOf(ids, data), NEW id \in ids
    PROVE  Activate(m, id) \in MapOf(ids, data)
<1> DEFINE new == [obj |-> m.obj, changed |-> [m.changed EXCEPT ![id] = FALSE],
                   active |-> {id}, last |-> m.last]
<1>1. /\ m = [obj |-> m.obj, changed |-> m.changed, active |-> m.active, last |-> m.last]
      /\ m.obj \in [ids -> ObjectOf(data) \cup {None}] /\ m.changed \in [ids -> BOOLEAN]
      /\ m.last \in ObjectOf(data) \cup {None}
    BY DEF MapOf
<1>2. Activate(m, id) = new
    <2>1. Activate(m, id) = [m EXCEPT !.changed[id] = FALSE, !.active = {id}]
        BY DEF Activate
    <2> QED
        BY <2>1, <1>1
<1>3. new.changed \in [ids -> BOOLEAN]
    BY <1>1
<1>4. new \in MapOf(ids, data)
    BY <1>1, <1>3 DEF MapOf
<1> QED
    BY <1>2, <1>4

LEMMA NewObject ==
    ASSUME SetsType
    PROVE  /\ \A v \in SpsData : [n |-> Unused(spsMap, Pointers("sps")), data |-> v] \in ObjectOf(SpsData)
           /\ \A v \in PpsData : [n |-> Unused(ppsMap, Pointers("pps")), data |-> v] \in ObjectOf(PpsData)
<1>1. Unused(spsMap, Pointers("sps")) \in Nat \ {0} /\ Unused(ppsMap, Pointers("pps")) \in Nat \ {0}
    BY UnusedIsNew, PointersAreFinite, SetsAssumption DEF SetsType
<1> QED
    BY <1>1 DEF ObjectOf

(* An object is not the absence of one, and neither is a content. *)
LEMMA NoneIsNothing ==
    /\ None \notin ObjectOf(SpsData) /\ None \notin ObjectOf(PpsData)
    /\ None \notin SpsData /\ None \notin PpsData
    /\ None \notin [sps : SpsData, pps : PpsData]
BY DEF None, ObjectOf, SpsData, PpsData

----------------------------------------------------------------------------
LEMMA SetsStart == SetsInit => SetsInv
<1> SUFFICES ASSUME SetsInit PROVE SetsInv
    OBVIOUS
<1>1. EmptyMap(SpsId) \in MapOf(SpsId, SpsData) /\ EmptyMap(PpsId) \in MapOf(PpsId, PpsData)
    BY DEF EmptyMap, MapOf
<1>2. pics \in Seq(Buffer) /\ Len(pics) = 0 /\ pics = <<>> /\ current = 0
    BY DEF SetsInit
<1>3. sentSps \in [SpsId -> SpsData \cup {None}] /\ sentPps \in [PpsId -> PpsData \cup {None}]
    BY DEF SetsInit
<1>4. 0 \in 0 .. SendBound
    BY SetsAssumption
<1>5. SetsType
    BY <1>1, <1>2, <1>3, <1>4 DEF SetsInit, SetsType
<1>6. MapsAreAsSent
    BY DEF SetsInit, MapsAreAsSent, EmptyMap
<1> QED
    BY <1>2, <1>5, <1>6 DEF SetsInv, OneSps, WhileDecoding

(* SPSs are sent between pictures; the one in use changes its content once *)
(* at most before the next picture, and then that is an IDR picture.       *)
LEMMA SendSpsInv ==
    ASSUME SetsInv, NEW id \in SpsId, NEW v \in SpsData, SendSps(id, v)
    PROVE  SetsInv'
<1> DEFINE ps == [n |-> Unused(spsMap, Pointers("sps")), data |-> v]
<1>1. /\ SetsType /\ ps \in ObjectOf(SpsData) /\ ps.data = v /\ spsMap \in MapOf(SpsId, SpsData)
      /\ spsMap.obj \in [SpsId -> ObjectOf(SpsData) \cup {None}]
      /\ sentSps \in [SpsId -> SpsData \cup {None}] /\ inUse \in SpsId
      /\ sends \in Nat /\ SendBound \in Nat
    <2>1. SetsType /\ ps \in ObjectOf(SpsData)
        BY NewObject DEF SetsInv
    <2> HIDE DEF ps
    <2>2. ps.data = v
        BY DEF ps
    <2> QED
        BY <2>1, <2>2, SetsAssumption DEF SetsType, MapOf
<1>2. /\ current = 0 /\ sends < SendBound /\ <<"sps", id>> \notin sentNow
      /\ spsMap' = Store(spsMap, id, ps)
      /\ sentSps' = [sentSps EXCEPT ![id] = v]
      /\ sentNow' = sentNow \cup {<<"sps", id>>} /\ sends' = sends + 1
      /\ start' = IF id = inUse /\ sentSps[id] # v /\ start = "any" THEN "IDR" ELSE start
      /\ UNCHANGED <<ppsMap, pics, current, asSent, sentPps, inUse>>
    BY DEF SendSps
<1> HIDE DEF ps
<1>3. spsMap' \in MapOf(SpsId, SpsData) /\ spsMap'.active = spsMap.active
    <2>1. spsMap \in MapOf(SpsId, SpsData) /\ ps \in ObjectOf(SpsData)
        BY <1>1
    <2>2. Store(spsMap, id, ps) \in MapOf(SpsId, SpsData)
        BY <2>1, StoreInMap
    <2>3. spsMap'.active = spsMap.active
        BY <2>1, <1>2 DEF Store, MapOf
    <2> QED
        BY <2>2, <2>3, <1>2
<1>4. \/ spsMap.obj[id] # None /\ spsMap.obj[id].data = v /\ spsMap' = spsMap
      \/ /\ spsMap'.obj = [spsMap.obj EXCEPT ![id] = ps]
         /\ spsMap.obj[id] = None \/ spsMap.changed[id] \/ spsMap.obj[id].data # v
         /\ \A i \in SpsId \ {id} : spsMap'.changed[i] = spsMap.changed[i]
         /\ spsMap'.last = IF spsMap.obj[id] # None /\ id \in spsMap.active
                           THEN spsMap.obj[id] ELSE spsMap.last
    BY <1>1, <1>2, StoreInMap
<1>5. SetsType'
    <2>1. sends + 1 \in 0 .. SendBound
        BY <1>1, <1>2
    <2>2. sentSps' \in [SpsId -> SpsData \cup {None}]
        BY <1>1, <1>2
    <2>3. start' \in {"any", "IDR", "IRAP"}
        BY <1>1, <1>2 DEF SetsType
    <2>4. sentNow' \subseteq ({"sps"} \X SpsId) \cup ({"pps"} \X PpsId)
        BY <1>1, <1>2 DEF SetsType
    <2> QED
        BY <2>1, <2>2, <2>3, <2>4, <1>1, <1>2, <1>3 DEF SetsType
<1>6. MapsAreAsSent'
    <2>1. ASSUME NEW i \in SpsId
          PROVE  IF sentSps'[i] = None THEN spsMap'.obj[i] = None
                 ELSE spsMap'.obj[i] # None /\ spsMap'.obj[i].data = sentSps'[i]
        <3>1. IF sentSps[i] = None THEN spsMap.obj[i] = None
              ELSE spsMap.obj[i] # None /\ spsMap.obj[i].data = sentSps[i]
            BY DEF SetsInv, MapsAreAsSent
        <3>2. v # None /\ ps # None
            BY <1>1, NoneIsNothing
        <3>3. CASE i = id
            <4>1. sentSps'[i] = v /\ (spsMap'.obj[i] = ps \/ (spsMap' = spsMap /\ spsMap.obj[id] # None /\ spsMap.obj[id].data = v))
                BY <3>3, <1>1, <1>2, <1>4
            <4> QED
                BY <4>1, <3>2, <3>3, <1>1
        <3>4. CASE i # id
            <4>1. sentSps'[i] = sentSps[i] /\ spsMap'.obj[i] = spsMap.obj[i]
                BY <3>4, <1>1, <1>2, <1>4
            <4> QED
                BY <4>1, <3>1
        <3> QED
            BY <3>3, <3>4
    <2> QED
        BY <2>1, <1>2 DEF SetsInv, MapsAreAsSent
<1>7. OneSps'
    <2> SUFFICES ASSUME pics # <<>>
                 PROVE  /\ spsMap'.active = {inUse} /\ sentSps'[inUse] # None
                        /\ start' = "any" => ~spsMap'.changed[inUse]
                        /\ \/ \A k \in DOMAIN pics : pics[k].sps = spsMap'.obj[inUse]
                           \/ /\ <<"sps", inUse>> \in sentNow' /\ start' # "any"
                              /\ \A k \in DOMAIN pics : pics[k].sps = spsMap'.last
        BY <1>2 DEF OneSps
    <2>1. /\ spsMap.active = {inUse} /\ sentSps[inUse] # None
          /\ start = "any" => ~spsMap.changed[inUse]
          /\ \/ \A k \in DOMAIN pics : pics[k].sps = spsMap.obj[inUse]
             \/ /\ <<"sps", inUse>> \in sentNow /\ start # "any"
                /\ \A k \in DOMAIN pics : pics[k].sps = spsMap.last
        BY DEF SetsInv, OneSps
    <2>2. spsMap.obj[inUse] # None /\ spsMap.obj[inUse].data = sentSps[inUse]
        BY <2>1, <1>1 DEF SetsInv, MapsAreAsSent
    <2>3. v # None
        BY NoneIsNothing
    <2>4. sentSps'[inUse] # None
        BY <2>1, <2>3, <1>1, <1>2
    <2>5. CASE id # inUse
        <3>1. start' = start /\ spsMap'.last = spsMap.last /\ spsMap'.obj[inUse] = spsMap.obj[inUse]
              /\ spsMap'.changed[inUse] = spsMap.changed[inUse]
            BY <2>1, <2>5, <1>1, <1>2, <1>4
        <3> QED
            BY <3>1, <2>1, <2>4, <1>2, <1>3
    <2>6. CASE id = inUse /\ spsMap' = spsMap
        <3>1. start' = start
            BY <2>2, <2>6, <1>1, <1>2, <1>4, ZenonT(60)
        <3> QED
            BY <3>1, <2>1, <2>4, <2>6, <1>2, ZenonT(60)
    <2>7. CASE id = inUse /\ spsMap' # spsMap
        <3>1. \A k \in DOMAIN pics : pics[k].sps = spsMap.obj[inUse]
            BY <2>1, <2>7, <1>2
        <3>2. spsMap'.last = spsMap.obj[inUse]
            BY <2>1, <2>2, <2>7, <1>4
        <3>3. start' # "any"
            BY <2>1, <2>2, <2>7, <1>2, <1>4
        <3> QED
            BY <3>1, <3>2, <3>3, <2>1, <2>4, <2>7, <1>2, <1>3
    <2> QED
        BY <2>5, <2>6, <2>7
<1>8. WhileDecoding'
    BY <1>2 DEF WhileDecoding
<1> QED
    BY <1>5, <1>6, <1>7, <1>8 DEF SetsInv

LEMMA SendPpsInv ==
    ASSUME SetsInv, NEW id \in PpsId, NEW data \in PpsData, SendPps(id, data)
    PROVE  SetsInv'
<1> DEFINE ps == [n |-> Unused(ppsMap, Pointers("pps")), data |-> data]
<1>1. /\ SetsType /\ ps \in ObjectOf(PpsData) /\ ps.data = data /\ ppsMap \in MapOf(PpsId, PpsData)
      /\ ppsMap.obj \in [PpsId -> ObjectOf(PpsData) \cup {None}]
      /\ sentPps \in [PpsId -> PpsData \cup {None}]
      /\ sends \in Nat /\ SendBound \in Nat
    <2>1. SetsType /\ ps \in ObjectOf(PpsData)
        BY NewObject DEF SetsInv
    <2> HIDE DEF ps
    <2>2. ps.data = data
        BY DEF ps
    <2> QED
        BY <2>1, <2>2, SetsAssumption DEF SetsType, MapOf
<1>2. /\ current = 0 /\ sends < SendBound
      /\ ppsMap' = Store(ppsMap, id, ps)
      /\ sentPps' = [sentPps EXCEPT ![id] = data]
      /\ sentNow' = sentNow \cup {<<"pps", id>>} /\ sends' = sends + 1
      /\ UNCHANGED <<spsMap, pics, current, asSent, sentSps, inUse, start>>
    BY DEF SendPps
<1> HIDE DEF ps
<1>3. ppsMap' \in MapOf(PpsId, PpsData)
    BY <1>1, <1>2, StoreInMap
<1>4. \/ ppsMap.obj[id] # None /\ ppsMap.obj[id].data = data /\ ppsMap' = ppsMap
      \/ ppsMap'.obj = [ppsMap.obj EXCEPT ![id] = ps]
    BY <1>1, <1>2, StoreInMap
<1>5. SetsType'
    <2>1. sends + 1 \in 0 .. SendBound
        BY <1>1, <1>2
    <2>2. sentPps' \in [PpsId -> PpsData \cup {None}]
        BY <1>1, <1>2
    <2>3. sentNow' \subseteq ({"sps"} \X SpsId) \cup ({"pps"} \X PpsId)
        BY <1>1, <1>2 DEF SetsType
    <2> QED
        BY <2>1, <2>2, <2>3, <1>1, <1>2, <1>3 DEF SetsType
<1>6. MapsAreAsSent'
    <2>1. ASSUME NEW i \in PpsId
          PROVE  IF sentPps'[i] = None THEN ppsMap'.obj[i] = None
                 ELSE ppsMap'.obj[i] # None /\ ppsMap'.obj[i].data = sentPps'[i]
        <3>1. IF sentPps[i] = None THEN ppsMap.obj[i] = None
              ELSE ppsMap.obj[i] # None /\ ppsMap.obj[i].data = sentPps[i]
            BY DEF SetsInv, MapsAreAsSent
        <3>2. data # None /\ ps # None
            BY <1>1, NoneIsNothing
        <3>3. CASE i = id
            <4>1. sentPps'[i] = data /\ (ppsMap'.obj[i] = ps \/ (ppsMap' = ppsMap /\ ppsMap.obj[id] # None /\ ppsMap.obj[id].data = data))
                BY <3>3, <1>1, <1>2, <1>4
            <4> QED
                BY <4>1, <3>2, <3>3, <1>1
        <3>4. CASE i # id
            <4>1. sentPps'[i] = sentPps[i] /\ ppsMap'.obj[i] = ppsMap.obj[i]
                BY <3>4, <1>1, <1>2, <1>4
            <4> QED
                BY <4>1, <3>1
        <3> QED
            BY <3>3, <3>4
    <2> QED
        BY <2>1, <1>2 DEF SetsInv, MapsAreAsSent
<1>7. OneSps'
    BY <1>2 DEF SetsInv, OneSps
<1>8. WhileDecoding'
    BY <1>2 DEF WhileDecoding
<1> QED
    BY <1>5, <1>6, <1>7, <1>8 DEF SetsInv

----------------------------------------------------------------------------
(* xGetNewPicBuffer: if all buffers of the list point to the SPS of the    *)
(* new picture, so do they with the new picture among them.                *)
LEMMA PlacedBuffers ==
    ASSUME NEW list \in Seq(Buffer), NEW sps \in ObjectOf(SpsData), NEW pps \in ObjectOf(PpsData),
           \A k \in DOMAIN list : list[k].sps = sps,
           NEW p \in Placed(list, sps, pps)
    PROVE  /\ p.list \in Seq(Buffer) /\ p.list # <<>>
           /\ p.at \in 1 .. Len(p.list)
           /\ \A k \in DOMAIN p.list : p.list[k].sps = sps
           /\ p.list[p.at].pps = pps
<1>1. Len(list) \in Nat /\ DOMAIN list = 1 .. Len(list)
    OBVIOUS
<1>2. CASE Len(list) < MaxPics \/ (Free(list) = {} /\ Len(list) < ListBound)
    <2> DEFINE b == [sps |-> sps, pps |-> pps, held |-> TRUE]
    <2>1. b \in Buffer /\ b.sps = sps /\ b.pps = pps
        BY DEF Buffer
    <2>2. p.list = Append(list, b) /\ p.at = Len(list) + 1
        BY <1>2 DEF Placed
    <2> HIDE DEF b
    <2>3. /\ Append(list, b) \in Seq(Buffer) /\ Len(Append(list, b)) = Len(list) + 1
          /\ Append(list, b) # <<>>
          /\ \A k \in 1 .. Len(list) : Append(list, b)[k] = list[k]
          /\ Append(list, b)[Len(list) + 1] = b
        BY <2>1, AppendProperties
    <2>4. \A k \in 1 .. Len(list) + 1 : Append(list, b)[k].sps = sps
        <3> TAKE k \in 1 .. Len(list) + 1
        <3>1. CASE k = Len(list) + 1
            BY <3>1, <2>1, <2>3
        <3>2. CASE k # Len(list) + 1
            <4>1. k \in 1 .. Len(list)
                BY <3>2, <1>1
            <4> QED
                BY <4>1, <2>3, <1>1
        <3> QED
            BY <3>1, <3>2
    <2> QED
        BY <2>1, <2>2, <2>3, <2>4, <1>1
<1>3. CASE ~(Len(list) < MaxPics \/ (Free(list) = {} /\ Len(list) < ListBound))
    <2>1. PICK i \in DOMAIN list :
              p = [list |-> [list EXCEPT ![i] =
                                 [sps  |-> IF list[i].pps.data.v = pps.data.v THEN @.sps ELSE sps,
                                  pps  |-> pps, held |-> TRUE]],
                   at |-> i]
        BY <1>3 DEF Placed, Free
    <2> DEFINE b == [sps |-> sps, pps |-> pps, held |-> TRUE]
    <2>2. list[i].sps = sps
        OBVIOUS
    <2>3. p.list = [list EXCEPT ![i] = b] /\ p.at = i
        BY <2>1, <2>2
    <2>4. b \in Buffer /\ b.sps = sps /\ b.pps = pps
        BY DEF Buffer
    <2> HIDE DEF b
    <2>5. /\ [list EXCEPT ![i] = b] \in Seq(Buffer)
          /\ Len([list EXCEPT ![i] = b]) = Len(list)
          /\ \A j \in 1 .. Len(list) : [list EXCEPT ![i] = b][j] = IF j = i THEN b ELSE list[j]
        BY <2>4, <1>1, ExceptSeq
    <2>6. p.list \in Seq(Buffer) /\ Len(p.list) = Len(list) /\ DOMAIN p.list = 1 .. Len(list)
        BY <2>3, <2>5
    <2>7. \A k \in DOMAIN p.list : p.list[k].sps = sps
        BY <2>3, <2>4, <2>5, <2>6, <1>1
    <2>8. p.at \in 1 .. Len(p.list) /\ p.list[p.at].pps = pps
        BY <2>3, <2>4, <2>5, <2>6, <1>1
    <2> QED
        BY <2>6, <2>7, <2>8, <1>1
<1> QED
    BY <1>2, <1>3

(* A picture that starts a sequence finds an empty list, any other one a   *)
(* list whose buffers all point to its SPS.                                *)
LEMMA StartPictureInv ==
    ASSUME ~CraStarts, SetsInv, NEW type \in {"IDR", "CRA", "TRAIL"}, NEW id \in PpsId,
           StartPictureWith(type, id)
    PROVE  SetsInv'
<1> DEFINE pps  == ppsMap.obj[id]
           used == sentPps[id].sps
           sps  == spsMap.obj[used]
           list == IF type = "IDR" THEN <<>> ELSE pics
<1>1. /\ SetsType /\ current = 0 /\ Legal(type, id)
      /\ spsMap \in MapOf(SpsId, SpsData) /\ ppsMap \in MapOf(PpsId, PpsData)
      /\ spsMap.obj \in [SpsId -> ObjectOf(SpsData) \cup {None}]
      /\ ppsMap.obj \in [PpsId -> ObjectOf(PpsData) \cup {None}]
      /\ sentSps \in [SpsId -> SpsData \cup {None}] /\ sentPps \in [PpsId -> PpsData \cup {None}]
    BY DEF SetsInv, StartPictureWith, SetsType, MapOf
<1>2. sentPps[id] # None /\ sentSps[used] # None
    BY <1>1 DEF Legal
<1>3. /\ sentPps[id] \in PpsData /\ used \in SpsId /\ sentSps[used] \in SpsData
      /\ pps \in ObjectOf(PpsData) /\ pps.data = sentPps[id]
      /\ sps \in ObjectOf(SpsData) /\ sps.data = sentSps[used]
    <2>1. sentPps[id] \in PpsData /\ used \in SpsId
        BY <1>1, <1>2 DEF PpsData
    <2>2. pps \in ObjectOf(PpsData) /\ pps.data = sentPps[id]
        BY <1>1, <1>2 DEF SetsInv, MapsAreAsSent
    <2>3. sentSps[used] \in SpsData
        BY <2>1, <1>1, <1>2
    <2>4. sps \in ObjectOf(SpsData) /\ sps.data = sentSps[used]
        BY <2>1, <1>1, <1>2 DEF SetsInv, MapsAreAsSent
    <2> QED
        BY <2>1, <2>2, <2>3, <2>4
<1>4. list \in Seq(Buffer) /\ \A k \in DOMAIN list : list[k].sps = sps
    <2>1. CASE type = "IDR"
        BY <2>1
    <2>2. CASE type # "IDR"
        <3>1. start = "any" /\ used = inUse
            BY <2>2, <1>1 DEF Legal, SetsType
        <3>2. pics = <<>> \/ \A k \in DOMAIN pics : pics[k].sps = sps
            BY <3>1 DEF SetsInv, OneSps
        <3> QED
            BY <2>2, <3>2, <1>1 DEF SetsType
    <2> QED
        BY <2>1, <2>2
<1>5. /\ spsMap' = Activate(spsMap, used) /\ ppsMap' = Activate(ppsMap, id)
      /\ asSent' = [sps |-> sentSps[used], pps |-> sentPps[id]]
      /\ inUse' = used /\ sentNow' = {} /\ start' = "any"
      /\ UNCHANGED <<sentSps, sentPps, sends>>
    BY <1>3 DEF StartPictureWith
<1>6. PICK p \in Placed(list, sps, pps) : pics' = p.list /\ current' = p.at
    BY <1>3 DEF StartPictureWith
<1> HIDE DEF pps, used, sps, list
<1>7. /\ p.list \in Seq(Buffer) /\ p.list # <<>> /\ p.at \in 1 .. Len(p.list)
      /\ \A k \in DOMAIN p.list : p.list[k].sps = sps
      /\ p.list[p.at].pps = pps
    BY <1>3, <1>4, PlacedBuffers
<1>8. /\ spsMap' \in MapOf(SpsId, SpsData) /\ spsMap'.obj = spsMap.obj
      /\ spsMap'.active = {used} /\ spsMap'.changed[used] = FALSE
    <2>1. spsMap \in MapOf(SpsId, SpsData) /\ used \in SpsId
        BY <1>1, <1>3
    <2>2. spsMap' \in MapOf(SpsId, SpsData)
        BY <2>1, <1>5, ActivateInMap
    <2>3. spsMap'.obj = spsMap.obj
        BY <2>1, <1>5 DEF Activate, MapOf
    <2>4. spsMap'.active = {used}
        BY <2>1, <1>5 DEF Activate, MapOf
    <2>5. spsMap'.changed[used] = FALSE
        BY <2>1, <1>5 DEF Activate, MapOf
    <2> QED
        BY <2>2, <2>3, <2>4, <2>5
<1>9. ppsMap' \in MapOf(PpsId, PpsData) /\ ppsMap'.obj = ppsMap.obj
    <2>1. ppsMap \in MapOf(PpsId, PpsData)
        BY <1>1
    <2>2. ppsMap' \in MapOf(PpsId, PpsData)
        BY <2>1, <1>5, ActivateInMap
    <2>3. ppsMap'.obj = ppsMap.obj
        BY <2>1, <1>5 DEF Activate, MapOf
    <2> QED
        BY <2>2, <2>3
<1>10. SetsType'
    <2>1. asSent' \in [sps : SpsData, pps : PpsData]
        BY <1>3, <1>5
    <2>2. pics' \in Seq(Buffer) /\ current' \in 0 .. Len(pics')
        BY <1>6, <1>7
    <2>3. spsMap' \in MapOf(SpsId, SpsData) /\ ppsMap' \in MapOf(PpsId, PpsData)
        BY <1>8, <1>9
    <2> QED
        BY <2>1, <2>2, <2>3, <1>1, <1>3, <1>5 DEF SetsType
<1>11. MapsAreAsSent'
    BY <1>5, <1>8, <1>9 DEF SetsInv, MapsAreAsSent
<1>12. OneSps'
    <2>1. spsMap'.active = {inUse'} /\ sentSps'[inUse'] # None /\ ~spsMap'.changed[inUse']
        BY <1>2, <1>5, <1>8 DEF used
    <2>2. \A k \in DOMAIN pics' : pics'[k].sps = spsMap'.obj[inUse']
        BY <1>5, <1>6, <1>7, <1>8 DEF sps
    <2> QED
        BY <2>1, <2>2 DEF OneSps
<1>13. WhileDecoding'
    <2>1. asSent' # None
        BY <1>3, <1>5, NoneIsNothing
    <2>2. pics'[current'].pps.data = asSent'.pps
        BY <1>3, <1>5, <1>6, <1>7
    <2>3. asSent'.sps = sentSps'[inUse'] /\ start' = "any"
        BY <1>5
    <2> QED
        BY <2>1, <2>2, <2>3 DEF WhileDecoding
<1> QED
    BY <1>10, <1>11, <1>12, <1>13 DEF SetsInv

LEMMA PictureDoneInv ==
    ASSUME SetsInv, NEW next \in {"any", "IRAP"}, PictureDone(next)
    PROVE  SetsInv'
<1>1. /\ current # 0 /\ current' = 0 /\ asSent' = None /\ start' = next
      /\ UNCHANGED <<spsMap, ppsMap, pics, sentSps, sentPps, inUse, sentNow, sends>>
    BY DEF PictureDone, mapVars
<1>2. start = "any"
    BY <1>1 DEF SetsInv, WhileDecoding
<1>3. SetsType'
    <2>1. Len(pics) \in Nat
        BY DEF SetsInv, SetsType
    <2> QED
        BY <2>1, <1>1 DEF SetsInv, SetsType
<1>4. OneSps'
    BY <1>1, <1>2 DEF SetsInv, OneSps
<1> QED
    BY <1>1, <1>3, <1>4 DEF SetsInv, MapsAreAsSent, WhileDecoding

LEMMA ReleaseInv ==
    ASSUME SetsInv, NEW k \in DOMAIN pics, Release(k)
    PROVE  SetsInv'
<1> DEFINE b == [pics[k] EXCEPT !.held = FALSE]
<1>1. /\ pics' = [pics EXCEPT ![k] = b] /\ k # current
      /\ UNCHANGED <<spsMap, ppsMap, current, asSent, sentSps, sentPps, inUse, sentNow, sends, start>>
    BY DEF Release, mapVars, sentVars
<1>2. pics \in Seq(Buffer) /\ DOMAIN pics = 1 .. Len(pics) /\ Len(pics) \in Nat
    BY DEF SetsInv, SetsType
<1>3. b \in Buffer /\ b.sps = pics[k].sps /\ b.pps = pics[k].pps
    <2>1. pics[k] \in Buffer
        BY <1>2
    <2> QED
        BY <2>1 DEF Buffer
<1> HIDE DEF b
<1>4. /\ pics' \in Seq(Buffer) /\ Len(pics') = Len(pics) /\ DOMAIN pics' = DOMAIN pics
      /\ \A j \in 1 .. Len(pics) : pics'[j] = IF j = k THEN b ELSE pics[j]
    <2>1. /\ [pics EXCEPT ![k] = b] \in Seq(Buffer) /\ Len([pics EXCEPT ![k] = b]) = Len(pics)
          /\ \A j \in 1 .. Len(pics) : [pics EXCEPT ![k] = b][j] = IF j = k THEN b ELSE pics[j]
        BY <1>2, <1>3, ExceptSeq
    <2>2. DOMAIN [pics EXCEPT ![k] = b] = DOMAIN pics
        OBVIOUS
    <2> QED
        BY <2>1, <2>2, <1>1
<1>5. \A j \in DOMAIN pics : pics'[j].sps = pics[j].sps /\ pics'[j].pps = pics[j].pps
    BY <1>2, <1>3, <1>4
<1>6. pics' # <<>> => pics # <<>>
    BY <1>2, <1>4
<1>7. SetsType'
    BY <1>1, <1>4 DEF SetsInv, SetsType
<1>8. OneSps'
    BY <1>1, <1>4, <1>5, <1>6 DEF SetsInv, OneSps
<1>9. WhileDecoding'
    <2>1. current # 0 => current \in DOMAIN pics
        BY <1>2 DEF SetsInv, SetsType
    <2> QED
        BY <2>1, <1>1, <1>5 DEF SetsInv, WhileDecoding
<1> QED
    BY <1>1, <1>7, <1>8, <1>9 DEF SetsInv, MapsAreAsSent

----------------------------------------------------------------------------
LEMMA SetsStep ==
    ASSUME ~CraStarts
    PROVE  SetsInv /\ [SetsNext]_setsVars => SetsInv'
<1> SUFFICES ASSUME SetsInv, [SetsNext]_setsVars
             PROVE  SetsInv'
    OBVIOUS
<1>1. CASE UNCHANGED setsVars
    BY <1>1 DEF setsVars, mapVars, sentVars, SetsInv, SetsType, MapsAreAsSent, OneSps, WhileDecoding
<1>2. CASE SetsNext
    BY <1>2, SendSpsInv, SendPpsInv, StartPictureInv, PictureDoneInv, ReleaseInv DEF SetsNext
<1> QED
    BY <1>1, <1>2

(* What all pictures of the list point to is in the map or put aside.      *)
LEMMA InvImplies == SetsInv => DecodedAsSent /\ HeldSpsAlive
<1> SUFFICES ASSUME SetsInv PROVE DecodedAsSent /\ HeldSpsAlive
    OBVIOUS
<1>1. /\ pics \in Seq(Buffer) /\ DOMAIN pics = 1 .. Len(pics) /\ Len(pics) \in Nat
      /\ current \in 0 .. Len(pics) /\ inUse \in SpsId
      /\ spsMap.obj \in [SpsId -> ObjectOf(SpsData) \cup {None}]
    BY DEF SetsInv, SetsType, MapOf
<1>2. DecodedAsSent
    <2> SUFFICES ASSUME current # 0
                 PROVE  pics[current].sps.data = asSent.sps /\ pics[current].pps.data = asSent.pps
        BY DEF DecodedAsSent
    <2>1. current \in DOMAIN pics /\ pics # <<>>
        BY <1>1
    <2>2. pics[current].sps = spsMap.obj[inUse] /\ sentSps[inUse] # None
        BY <2>1 DEF SetsInv, OneSps, WhileDecoding
    <2>3. spsMap.obj[inUse].data = sentSps[inUse]
        BY <2>2, <1>1 DEF SetsInv, MapsAreAsSent
    <2> QED
        BY <2>2, <2>3 DEF SetsInv, WhileDecoding
<1>3. HeldSpsAlive
    <2> SUFFICES ASSUME NEW k \in DOMAIN pics
                 PROVE  pics[k].sps \in Alive(spsMap)
        BY DEF HeldSpsAlive
    <2>1. pics[k] \in Buffer /\ pics # <<>>
        BY <1>1
    <2>2. pics[k].sps # None
        BY <2>1, NoneIsNothing DEF Buffer
    <2>3. pics[k].sps = spsMap.obj[inUse] \/ pics[k].sps = spsMap.last
        BY <2>1 DEF SetsInv, OneSps
    <2> QED
        BY <2>2, <2>3, <1>1 DEF Alive
<1> QED
    BY <1>2, <1>3

(* storePS and xActivateParameterSets: pictures are decoded with the       *)
(* parameter sets they were sent with, and the SPS of every picture that   *)
(* is held lives, as long as CRA pictures do not start sequences.          *)
THEOREM ParameterSetsHold ==
    ASSUME ~CraStarts
    PROVE  SetsSpec => [](SetsType /\ DecodedAsSent /\ HeldSpsAlive)
<1>1. SetsInv => SetsType
    BY DEF SetsInv
<1>2. SetsInv /\ [SetsNext]_setsVars => SetsInv'
    BY SetsStep
<1> QED
    BY <1>1, <1>2, SetsStart, InvImplies, PTL DEF SetsSpec

(* The pictures kept as references and for output point to an SPS that     *)
(* storePS has not deleted.                                                *)
THEOREM HeldSetsLive ==
    ASSUME ~CraStarts
    PROVE  SetsSpec => []HeldSpsAlive
  BY ParameterSetsHold, PTL

----------------------------------------------------------------------------
(***************************************************************************)
(* For POC cycles of any length, any number of pictures, any slices        *)
(* skipped and a stream cut anywhere: the decoder's picture order counts   *)
(* are the author's, less one multiple of the cycle for the sequence, if   *)
(* only IDR pictures carry the high bits of their POC.                     *)
(*                                                                         *)
(* What carries the argument is that the reference the decoder completes   *)
(* the low bits from, prevTid0, differs from the author's by the same      *)
(* multiple, also in the slices that are skipped before the sequence.      *)
(*                                                                         *)
(* The second part is about what the counts are for: the output contract   *)
(* keeps its order for any sequences and POCs and any number of pictures.  *)
(***************************************************************************)
OnlyIdrMsb == MsbTypes \subseteq {"IDR"}

(* What is known of a picture the author could place next to the anchor.   *)
Known(p) ==
    /\ p \in OrderPicture
    /\ p.msb => p.type = "IDR"
    /\ p.type = "IDR" => p.poc >= 0 /\ (p.msb \/ p.poc < MaxLsb)
    /\ p.type \in Irap => Counts(p)

OrderInv ==
    /\ OrderType
    /\ Known(pic)
    /\ fresh => seqStart
    /\ ~fresh => Near(pic) \/ pic.type = "IDR"
    /\ ~fresh /\ Counts(pic) => anchor = pic.poc
    /\ prevTid0 = anchor + offset
    /\ offset % MaxLsb = 0
    /\ PocFollows

----------------------------------------------------------------------------
(* Division by the cycle. *)
LEMMA Division ==
    ASSUME NEW a \in Int, NEW m \in Nat \ {0}
    PROVE  /\ a \div m \in Int /\ a % m \in 0 .. m - 1
           /\ a = m * (a \div m) + (a % m)
OBVIOUS

LEMMA RemainderIsUnique ==
    ASSUME NEW a \in Int, NEW m \in Nat \ {0}, NEW q \in Int, NEW r \in 0 .. m - 1,
           a = m * q + r
    PROVE  a % m = r
<1> DEFINE b == a \div m
           s == a % m
<1>1. b \in Int /\ s \in 0 .. m - 1 /\ a = m * b + s
    BY Division
<1> HIDE DEF b, s
<1>2. m * (q - b) = s - r
    BY <1>1
<1>3. q - b >= 1 => m * (q - b) >= m
    BY <1>1
<1>4. q - b <= -1 => m * (q - b) <= -m
    BY <1>1
<1>5. q - b = 0
    BY <1>1, <1>2, <1>3, <1>4
<1> QED
    BY <1>1, <1>2, <1>5 DEF s

(* parseSliceHeader's window: a POC less than half a cycle away from the   *)
(* reference is found from its low bits, also when the reference is off by *)
(* a multiple of the cycle.                                                *)
LEMMA Window ==
    ASSUME NEW m \in Nat \ {0}, m % 2 = 0,
           NEW a \in Int, NEW o \in Int, o % m = 0, NEW p \in Int,
           -m < 2 * (p - a), 2 * (p - a) < m,
           MaxLsb = m, prevTid0 = a + o
    PROVE  Completed(p % m) = p + o
<1> DEFINE d == p - a
           k == o \div m
           q == prevTid0 \div m
           r == prevTid0 % m
           h == m \div 2
<1>1. k \in Int /\ o = m * k
    BY Division
<1>2. q \in Int /\ r \in 0 .. m - 1 /\ prevTid0 = m * q + r /\ prevTid0 \in Int
    <2>1. prevTid0 \in Int
        OBVIOUS
    <2> QED
        BY <2>1, Division
<1>3. h \in Int /\ m = 2 * h /\ d \in Int /\ -h < d /\ d < h
    <2>1. h \in Int /\ m = 2 * h + (m % 2)
        OBVIOUS
    <2> QED
        BY <2>1
<1>4. p = m * (q - k) + r + d
    <2>1. m * (q - k) = m * q - m * k
        BY <1>1, <1>2
    <2> QED
        BY <2>1, <1>1, <1>2
<1>5. Completed(p % m) =
          IF (p % m) < r /\ r - (p % m) >= h THEN prevTid0 - r + m + (p % m)
          ELSE IF (p % m) > r /\ (p % m) - r > h THEN prevTid0 - r - m + (p % m)
          ELSE prevTid0 - r + (p % m)
    BY DEF Completed
<1>6. prevTid0 + d = p + o
    OBVIOUS
<1> HIDE DEF d, k, q, r, h
<1>7. CASE r + d \in 0 .. m - 1
    <2>1. p = m * (q - k) + (r + d) /\ q - k \in Int
        BY <1>1, <1>2, <1>3, <1>4
    <2>2. p % m = r + d
        BY <2>1, <1>7, RemainderIsUnique
    <2>3. ~(r - (r + d) >= h) /\ ~((r + d) - r > h)
        BY <1>2, <1>3
    <2>4. Completed(p % m) = prevTid0 - r + (r + d)
        BY <2>2, <2>3, <1>5
    <2> QED
        BY <2>4, <1>2, <1>3, <1>6
<1>8. CASE r + d >= m
    <2>1. m * (q - k + 1) = m * (q - k) + m
        BY <1>1, <1>2
    <2>2. p = m * (q - k + 1) + (r + d - m) /\ q - k + 1 \in Int /\ r + d - m \in 0 .. m - 1
        BY <2>1, <1>1, <1>2, <1>3, <1>4, <1>8
    <2>3. p % m = r + d - m
        BY <2>2, RemainderIsUnique
    <2> QED
        BY <2>3, <1>2, <1>3, <1>5, <1>6, <1>8
<1>9. CASE r + d < 0
    <2>1. m * (q - k - 1) = m * (q - k) - m
        BY <1>1, <1>2
    <2>2. p = m * (q - k - 1) + (r + d + m) /\ q - k - 1 \in Int /\ r + d + m \in 0 .. m - 1
        BY <2>1, <1>1, <1>2, <1>3, <1>4, <1>9
    <2>3. p % m = r + d + m
        BY <2>2, RemainderIsUnique
    <2> QED
        BY <2>3, <1>2, <1>3, <1>5, <1>6, <1>9
<1> QED
    BY <1>2, <1>3, <1>7, <1>8, <1>9

----------------------------------------------------------------------------
(* The POC of a slice: the author's for an IDR picture, the author's and   *)
(* the difference for one that is near, the low bits at a CRA picture that *)
(* starts a sequence.                                                      *)
LEMMA SlicePocIsRight ==
    ASSUME OrderInv, NEW p, Known(p),
           Near(p) \/ p.type = "IDR" \/ (p.type = "CRA" /\ seqStart),
           NEW o, o = IF seqStart \/ p.type = "IDR" THEN SlicePoc(p) - p.poc ELSE offset
    PROVE  /\ SlicePoc(p) \in Int /\ SlicePoc(p) = p.poc + o
           /\ o \in Int /\ o % MaxLsb = 0
           /\ p.type = "IDR" => o = 0
<1>1. /\ p.type \in PocTypes /\ p.poc \in Int /\ p.msb \in BOOLEAN
      /\ MaxLsb \in Nat \ {0} /\ MaxLsb % 2 = 0
      /\ anchor \in Int /\ prevTid0 \in Int /\ offset \in Int
      /\ prevTid0 = anchor + offset /\ offset % MaxLsb = 0
    BY OrderAssumption DEF Known, OrderPicture, AuthorPoc, OrderInv, OrderType
<1>2. 0 % MaxLsb = 0
    BY <1>1, RemainderIsUnique
<1>3. CASE p.type = "IDR"
    <2>1. SlicePoc(p) = p.poc
        <3>1. CASE p.msb
            <4>1. ParsedPoc(p) = MaxLsb * (p.poc \div MaxLsb) + (p.poc % MaxLsb)
                BY <3>1, <1>1, Division, SMTT(30) DEF ParsedPoc
            <4>2. ParsedPoc(p) = p.poc
                BY <4>1, <1>1, Division
            <4> QED
                BY <4>2, <1>3 DEF SlicePoc
        <3>2. CASE ~p.msb
            <4>1. p.poc \in 0 .. MaxLsb - 1
                BY <3>2, <1>1, <1>3 DEF Known
            <4>2. p.poc % MaxLsb = p.poc
                BY <4>1, <1>1, RemainderIsUnique
            <4> QED
                BY <3>2, <4>2, <1>3 DEF SlicePoc, ParsedPoc
        <3> QED
            BY <3>1, <3>2, <1>1
    <2> QED
        BY <2>1, <1>1, <1>2, <1>3
<1>4. CASE p.type = "CRA" /\ seqStart
    <2>1. ~p.msb
        BY <1>4 DEF Known
    <2>2. ParsedPoc(p) % MaxLsb = p.poc % MaxLsb
        <3> DEFINE lsb == p.poc % MaxLsb
                   q == prevTid0 \div MaxLsb
                   r == prevTid0 % MaxLsb
        <3>1. lsb \in 0 .. MaxLsb - 1 /\ q \in Int /\ r \in Int /\ prevTid0 = MaxLsb * q + r
            <4>1. lsb \in 0 .. MaxLsb - 1
                BY <1>1, Division
            <4>2. q \in Int /\ r \in 0 .. MaxLsb - 1 /\ prevTid0 = MaxLsb * q + r
                BY <1>1, Division
            <4> QED
                BY <4>1, <4>2, <1>1
        <3>2. ParsedPoc(p) \in {prevTid0 - r + MaxLsb + lsb, prevTid0 - r - MaxLsb + lsb,
                                prevTid0 - r + lsb}
            BY <2>1, <1>4 DEF ParsedPoc, Completed
        <3> HIDE DEF lsb, q, r
        <3>3. PICK i \in {q + 1, q - 1, q} : ParsedPoc(p) = MaxLsb * i + lsb
            <4>1. MaxLsb * (q + 1) = MaxLsb * q + MaxLsb /\ MaxLsb * (q - 1) = MaxLsb * q - MaxLsb
                BY <3>1, <1>1
            <4> QED
                BY <3>1, <3>2, <4>1, <1>1
        <3>4. i \in Int /\ ParsedPoc(p) \in Int
            BY <3>1, <3>3, <1>1
        <3> DEFINE a == ParsedPoc(p)
        <3>5. a \in Int /\ a = MaxLsb * i + lsb
            BY <3>3, <3>4
        <3> HIDE DEF a
        <3>6. a % MaxLsb = lsb
            BY <3>1, <3>4, <3>5, <1>1, RemainderIsUnique
        <3> QED
            BY <3>6 DEF lsb, a
    <2>3. SlicePoc(p) = p.poc % MaxLsb /\ o = SlicePoc(p) - p.poc
        BY <2>2, <1>4 DEF SlicePoc, RecoveryAt
    <2> DEFINE lsb == p.poc % MaxLsb
               q == p.poc \div MaxLsb
    <2>4. lsb \in 0 .. MaxLsb - 1 /\ q \in Int /\ p.poc = MaxLsb * q + lsb
        BY <1>1, Division
    <2>5. SlicePoc(p) = lsb
        BY <2>3
    <2> HIDE DEF lsb, q
    <2>6. o = MaxLsb * (-q) + 0 /\ -q \in Int /\ o \in Int
        BY <2>3, <2>4, <2>5, <1>1
    <2>7. o % MaxLsb = 0
        <3>1. PICK j \in Int, z \in 0 .. MaxLsb - 1 : j = -q /\ z = 0
            BY <2>6, <1>1
        <3>2. o = MaxLsb * j + z
            BY <2>6, <3>1, Zenon
        <3>3. o % MaxLsb = z
            BY <2>6, <3>1, <3>2, <1>1, RemainderIsUnique
        <3> QED
            BY <3>1, <3>3
    <2> QED
        BY <2>3, <2>4, <2>5, <2>6, <2>7, <1>1, <1>4
<1>5. CASE p.type # "IDR" /\ ~(p.type = "CRA" /\ seqStart)
    <2>1. Near(p) /\ ~p.msb
        BY <1>5 DEF Known
    <2>2. Completed(p.poc % MaxLsb) = p.poc + offset
        BY <2>1, <1>1, Window DEF Near
    <2>3. SlicePoc(p) = p.poc + offset
        BY <2>1, <2>2, <1>5 DEF SlicePoc, ParsedPoc, RecoveryAt
    <2>4. o = offset
        BY <2>3, <1>1, <1>5
    <2> QED
        BY <2>3, <2>4, <1>1, <1>5
<1> QED
    BY <1>3, <1>4, <1>5

(* Reading a slice of a placed picture keeps the reference in step. *)
LEMMA ReadSliceInv ==
    ASSUME OrderInv, NEW p, Known(p),
           Near(p) \/ p.type = "IDR" \/ (p.type = "CRA" /\ seqStart),
           ReadSlice(p), pic' = p, fresh' = FALSE,
           anchor' = IF Counts(p) THEN p.poc ELSE anchor,
           firstPoc' \in Int
    PROVE  OrderInv'
<1>1. /\ slicePoc' = SlicePoc(p)
      /\ offset' = IF seqStart \/ p.type = "IDR" THEN SlicePoc(p) - p.poc ELSE offset
      /\ prevTid0' = IF Counts(p) THEN SlicePoc(p) ELSE prevTid0
      /\ seqStart' = (seqStart /\ IsSkipped(p))
      /\ accessPoc' = AccessPoc(p) /\ recovery' = RecoveryAt(p)
      /\ toSkip' = IF toSkip > 0 THEN toSkip - 1 ELSE 0
    BY DEF ReadSlice
<1>2. /\ SlicePoc(p) \in Int /\ SlicePoc(p) = p.poc + offset'
      /\ offset' \in Int /\ offset' % MaxLsb = 0
      /\ p.type = "IDR" => offset' = 0
    BY <1>1, SlicePocIsRight
<1>3. /\ p \in OrderPicture /\ p.poc \in Int /\ MaxLsb \in Nat \ {0} /\ PocBound \in Nat
      /\ anchor \in Int /\ prevTid0 \in Int /\ offset \in Int /\ accessPoc \in Int
      /\ toSkip \in Nat /\ recovery \in BOOLEAN /\ seqStart \in BOOLEAN
      /\ prevTid0 = anchor + offset
    BY OrderAssumption DEF Known, OrderPicture, AuthorPoc, OrderInv, OrderType
<1>4. OrderType'
    <2>1. AccessPoc(p) \in Int /\ RecoveryAt(p) \in BOOLEAN
        BY <1>2, <1>3 DEF AccessPoc, RecoveryAt, NoAccess, Unset
    <2>2. anchor' \in Int /\ prevTid0' \in Int /\ seqStart' \in BOOLEAN
        BY <1>1, <1>2, <1>3
    <2>3. toSkip' \in Nat
        BY <1>1, <1>3
    <2> QED
        BY <2>1, <2>2, <2>3, <1>1, <1>2, <1>3, ZenonT(60) DEF OrderType
<1>5. prevTid0' = anchor' + offset'
    <2>1. CASE Counts(p)
        BY <2>1, <1>1, <1>2
    <2>2. CASE ~Counts(p)
        <3>1. p.type \notin Irap /\ Near(p) /\ ~p.msb
            BY <2>2 DEF Known, Irap
        <3>2. Completed(p.poc % MaxLsb) = p.poc + offset
            BY <3>1, <1>3, OrderAssumption, Window, ZenonT(60) DEF Near, OrderInv
        <3>3. SlicePoc(p) = p.poc + offset
            BY <3>1, <3>2 DEF SlicePoc, ParsedPoc, Irap
        <3>4. offset' = offset
            BY <3>1, <3>3, <1>1, <1>3 DEF Irap
        <3> QED
            BY <2>2, <3>4, <1>1, <1>3
    <2> QED
        BY <2>1, <2>2
<1>6. PocFollows'
    BY <1>1, <1>2 DEF PocFollows
<1>7. Known(pic)'
    BY DEF Known, Counts
<1>8. ~fresh' => (Near(pic) \/ pic.type = "IDR")'
    <2>1. CASE Counts(p)
        <3>1. pic'.poc - anchor' = 0
            BY <2>1, <1>3
        <3> QED
            BY <3>1, <1>3 DEF Near
    <2>2. CASE ~Counts(p)
        <3>1. p.type \notin Irap
            BY <2>2 DEF Known
        <3> QED
            BY <2>2, <3>1 DEF Near, Irap
    <2> QED
        BY <2>1, <2>2
<1> QED
    BY <1>2, <1>4, <1>5, <1>6, <1>7, <1>8 DEF OrderInv, Counts

LEMMA OrderStart == OrderInit => OrderInv
<1> SUFFICES ASSUME OrderInit PROVE OrderInv
    OBVIOUS
<1>1. MaxLsb \in Nat \ {0} /\ PocBound \in Nat /\ SkipSlices \in Nat
    BY OrderAssumption
<1>2. 0 % MaxLsb = 0
    BY <1>1, RemainderIsUnique
<1>3. pic \in OrderPicture
    BY <1>1 DEF OrderInit, OrderPicture, PocTypes, AuthorPoc
<1>4. OrderType
    <2>1. Unset \in Int
        BY <1>1 DEF Unset
    <2>2. fresh \in BOOLEAN /\ seqStart \in BOOLEAN /\ recovery \in BOOLEAN
        BY DEF OrderInit
    <2> QED
        BY <2>1, <2>2, <1>1, <1>3 DEF OrderInit, OrderType
<1>5. Known(pic) /\ Near(pic)
    BY <1>1, <1>3 DEF OrderInit, Known, Near, Irap
<1> QED
    BY <1>2, <1>4, <1>5 DEF OrderInit, OrderInv, PocFollows

LEMMA OrderStep ==
    ASSUME OnlyIdrMsb
    PROVE  OrderInv /\ [OrderNext]_orderVars => OrderInv'
<1> SUFFICES ASSUME OrderInv, [OrderNext]_orderVars
             PROVE  OrderInv'
    OBVIOUS
<1>1. ASSUME NEW p \in OrderPicture, FirstSlice(p)
      PROVE  OrderInv'
    <2>1. Known(p)
        BY <1>1 DEF FirstSlice, MayFollow, Known, OnlyIdrMsb
    <2>2. Near(p) \/ p.type = "IDR" \/ (p.type = "CRA" /\ seqStart)
        BY <1>1, <2>1 DEF FirstSlice, MayFollow, OrderInv, Known, Irap
    <2>3. firstPoc' \in Int
        BY <1>1, <2>1, <2>2, SlicePocIsRight DEF FirstSlice
    <2> QED
        BY <1>1, <2>1, <2>2, <2>3, ReadSliceInv DEF FirstSlice
<1>2. CASE OtherSlice
    <2>1. pic' = pic /\ anchor' = anchor /\ fresh' = FALSE /\ firstPoc' = firstPoc
        BY <1>2 DEF OtherSlice, OrderInv, OrderType
    <2>2. anchor' = IF Counts(pic) THEN pic.poc ELSE anchor
        BY <1>2, <2>1 DEF OtherSlice, OrderInv
    <2>3. firstPoc' \in Int
        BY <2>1 DEF OrderInv, OrderType
    <2> QED
        BY <1>2, <2>1, <2>2, <2>3, ReadSliceInv DEF OtherSlice, OrderInv
<1>3. CASE EndOfSequence
    <2>1. Unset \in Int
        BY OrderAssumption DEF Unset
    <2> QED
        BY <1>3, <2>1 DEF EndOfSequence, OrderInv, OrderType, Known, Counts, PocFollows
<1>4. CASE UNCHANGED orderVars
    BY <1>4 DEF orderVars, OrderInv, OrderType, Known, Counts, Near, PocFollows
<1> QED
    BY <1>1, <1>2, <1>3, <1>4 DEF OrderNext

(* parseSliceHeader and xDecodeSlice: every slice of a sequence gets its   *)
(* author's POC, less one multiple of the cycle for the whole sequence.    *)
THEOREM OrderCountsFollow ==
    ASSUME OnlyIdrMsb
    PROVE  OrderSpec => [](OrderType /\ PocFollows)
<1>1. OrderInv => OrderType /\ PocFollows
    BY DEF OrderInv
<1>2. OrderInv /\ [OrderNext]_orderVars => OrderInv'
    BY OrderStep
<1> QED
    BY <1>1, <1>2, OrderStart, PTL DEF OrderSpec
=============================================================================
