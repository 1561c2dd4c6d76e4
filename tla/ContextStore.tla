---------------------------- MODULE ContextStore ----------------------------
(***************************************************************************)
(* Context states that pass from picture to picture: both sides keep the   *)
(* states at the end of the last inter picture of each kind (CtxStateStore) *)
(* and start the next picture of that kind from them, and both drop all of *)
(* them at the first picture after an IRAP picture in output order         *)
(* (xUpdateRasInit, updateBufferState).                                    *)
(*                                                                         *)
(* One action codes a picture, and decodes it where the decoder has been   *)
(* started and does not skip it.  A picture has one slice; the states it   *)
(* leaves are named by the author's POC of the picture.  The decoder's     *)
(* POCs differ from the author's by an offset (module PictureOrder).       *)
(***************************************************************************)
EXTENDS Integers, FiniteSets

CONSTANTS
    Key,         \* temporal layer and slice QP, ordered as the pairs are
    BufferSize,  \* TEMP_CABAC_BUFFER_SIZE
    CodedBound,  \* bound: the author's POCs are in 0 .. CodedBound
    LsbCycle,    \* 2 ^ log2_max_pic_order_cnt_lsb
    IdrPocs,     \* POCs at which the encoder may make an IDR picture
    StartTypes   \* IRAP types at which a decoder may start in mid stream

ASSUME StoreAssumption ==
    /\ Key \subseteq Nat /\ BufferSize \in Nat \ {0}
    /\ CodedBound \in Nat /\ LsbCycle \in Nat \ {0}
    /\ IdrPocs \subseteq Nat /\ 0 \in IdrPocs
    /\ StartTypes \subseteq {"IDR", "CRA"}

VARIABLES
    irap,       \* the last IRAP picture the encoder has coded
    leadFrom,   \* its leading pictures have greater POCs than this
    codedPocs,  \* the POCs coded
    encStore,   \* the encoder's m_stateBuf and m_lastRasPoc
    decStore,   \* the decoder's
    started,    \* the decoder has been started
    startPoc,   \* m_pocRandomAccess
    shift,      \* the decoder's POCs less the author's
    used,       \* what the last picture started from in the encoder
    given       \* and in the decoder

storeVars == <<irap, leadFrom, codedPocs, encStore, decStore, started, startPoc, shift, used, given>>

InterTypes == {0, 1}     \* B_SLICE, P_SLICE
CodedPoc == 0 .. CodedBound
FarPoc == 2 * CodedBound + LsbCycle + 1      \* MAX_INT
Initial == -1       \* the states of the initialisation tables
NotDecoded == -2

(* t and k say in which buffer and at which entry; an IRAP picture is intra. *)
StoredPicture == [poc : CodedPoc, type : {"IDR", "CRA", "RASL", "RADL", "TRAIL"},
                  t : InterTypes, k : Key]
IsIrap(p) == p.type \in {"IDR", "CRA"}

EmptyBuffer == [t \in InterTypes |-> [k \in {} |-> 0]]
NewStore == [buf |-> EmptyBuffer, lastRas |-> FarPoc]

----------------------------------------------------------------------------
(* Mutants: the states are kept for ever; they are dropped too early.      *)
EnteredKeeping(s, p, poc) ==
    [buf |-> s.buf,
     lastRas |-> IF IsIrap(p) THEN poc ELSE IF poc > s.lastRas THEN FarPoc ELSE s.lastRas]
EnteredAtIrap(s, p, poc) ==
    [buf |-> IF IsIrap(p) THEN EmptyBuffer ELSE s.buf, lastRas |-> FarPoc]

(* xUpdateRasInit, then updateBufferState. *)
Entered(s, p, poc) ==
    [buf |-> IF poc > s.lastRas THEN EmptyBuffer ELSE s.buf,
     lastRas |-> IF IsIrap(p) THEN poc ELSE IF poc > s.lastRas THEN FarPoc ELSE s.lastRas]

(* loadCtx. *)
Loaded(s, p) == IF IsIrap(p) \/ p.k \notin DOMAIN s.buf[p.t] THEN Initial ELSE s.buf[p.t][p.k]

(* storeCtx: a new entry takes the place of the one with the smallest key. *)
Stored(s, p) ==
    LET old == s.buf[p.t]
        full == p.k \notin DOMAIN old /\ Cardinality(DOMAIN old) = BufferSize
        kept == {k \in DOMAIN old : ~full \/ \E j \in DOMAIN old : j < k}
    IN  IF IsIrap(p) THEN s
        ELSE [s EXCEPT !.buf[p.t] = [k \in kept \cup {p.k} |->
                                        IF k = p.k THEN p.poc ELSE old[k]]]

----------------------------------------------------------------------------
(* The coding order of the encoder: IRAP pictures in output order, after   *)
(* each the pictures that lead it, then those that trail it.               *)
MayBeCoded(p) ==
    /\ p.poc \notin codedPocs
    /\ IsIrap(p) => /\ \A c \in codedPocs : c < p.poc
                    /\ p.type = "IDR" => p.poc \in IdrPocs
                    /\ codedPocs = {} => p.type = "IDR" /\ p.poc = 0
    /\ p.type \in {"RASL", "RADL"} =>
          /\ p.type = (IF irap.type = "IDR" THEN "RADL" ELSE "RASL")
          /\ leadFrom < p.poc /\ p.poc < irap.poc
          /\ \A c \in codedPocs : c <= irap.poc
    /\ p.type = "TRAIL" => codedPocs # {} /\ p.poc > irap.poc

(* The decoder starts at the first picture, or later at an IRAP picture.   *)
MayStart(p) == IsIrap(p) /\ (codedPocs = {} \/ p.type \in StartTypes)

Skips(p) == p.type = "RASL" /\ p.poc + shift < startPoc

Undecoded ==
    /\ given' = NotDecoded
    /\ UNCHANGED <<decStore, started, startPoc, shift>>

Decoded(p) ==
    LET restarts == p.type = "IDR" \/ ~started
        offset == IF restarts THEN (p.poc % LsbCycle) - p.poc ELSE shift
        s == Entered(decStore, p, p.poc + offset)
    IN  /\ shift' = offset
        /\ startPoc' = IF p.type = "IDR" THEN -FarPoc
                       ELSE IF ~started THEN p.poc + offset ELSE startPoc
        /\ started' = TRUE
        /\ given' = Loaded(s, p)
        /\ decStore' = Stored(s, p)

Code(p) ==
    /\ MayBeCoded(p)
    /\ codedPocs' = codedPocs \cup {p.poc}
    /\ IF IsIrap(p) THEN /\ irap' = p
                         /\ leadFrom' = IF codedPocs = {} THEN -1
                                        ELSE CHOOSE c \in codedPocs : \A d \in codedPocs : d <= c
                    ELSE UNCHANGED <<irap, leadFrom>>
    /\ LET s == Entered(encStore, p, p.poc)
       IN  used' = Loaded(s, p) /\ encStore' = Stored(s, p)
    /\ \/ ~started /\ Undecoded
       \/ ~started /\ MayStart(p) /\ Decoded(p)
       \/ started /\ Skips(p) /\ Undecoded
       \/ started /\ ~Skips(p) /\ Decoded(p)

StoreInit ==
    /\ irap \in {p \in StoredPicture : p.poc = 0 /\ p.type = "IDR" /\ p.t = 0}
    /\ irap.k = CHOOSE k \in Key : TRUE
    /\ leadFrom = -1 /\ codedPocs = {}
    /\ encStore = NewStore /\ decStore = NewStore
    /\ started = FALSE /\ startPoc = FarPoc /\ shift = 0
    /\ used = Initial /\ given = NotDecoded

(* An IRAP picture stores nothing: its kind does not matter. *)
StoreNext == \E p \in StoredPicture :
                 /\ IsIrap(p) => p.t = 0 /\ p.k = CHOOSE k \in Key : TRUE
                 /\ Code(p)

StoreSpec == StoreInit /\ [][StoreNext]_storeVars

----------------------------------------------------------------------------
(* Every picture that is decoded starts from the context states it was     *)
(* coded with, whichever pictures the decoder has not seen.  For IDR       *)
(* pictures isRandomAccessSkipPicture says: "no need to skip the reordered *)
(* pictures in IDR, they are decodable".                                   *)
ContextsAgree == given # NotDecoded => given = used

(* The buffers stay within TEMP_CABAC_BUFFER_SIZE and hold pictures of the *)
(* current IRAP period, or of the one before while its leading pictures    *)
(* are coded: no state outlives two IRAP pictures.                         *)
StoreIsRecent ==
    \A t \in InterTypes :
        /\ Cardinality(DOMAIN encStore.buf[t]) <= BufferSize
        /\ (\E c \in codedPocs : c > irap.poc) =>
              \A k \in DOMAIN encStore.buf[t] : encStore.buf[t][k] > irap.poc
=============================================================================
