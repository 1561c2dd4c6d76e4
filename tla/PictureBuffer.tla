--------------------------- MODULE PictureBuffer ---------------------------
(***************************************************************************)
(* The decoded picture buffer of DecLib (m_cListPic) and the functions     *)
(* that read and rewrite it: allocation of a buffer, reference marking,    *)
(* sorting, bumping and flushing.  A picture is the record of the flags    *)
(* that Picture keeps for the buffer, with the decoding order number of    *)
(* the picture it holds (getDecodingOrderNumber) as its identity.          *)
(*                                                                         *)
(* The application and the library share the list; DecApp adds the POC of  *)
(* the last picture written and the written file.  "view" is that triple:  *)
(*   list : the picture list, in list order                                *)
(*   last : m_iPOCLastDisplay                                              *)
(*   log  : the pictures written so far, in the order they were written    *)
(***************************************************************************)
EXTENDS Integers, Sequences, FiniteSets

CONSTANTS
    MaxDec,       \* max_dec_pic_buffering_minus1 + 1 of the SPS
    NumReorder    \* sps_max_num_reorder_pics of the SPS

ASSUME MaxDecAssumption == MaxDec \in Nat \ {0}
ASSUME NumReorderAssumption == NumReorder \in Nat

\* -MAX_INT: no picture of the sequence has been written yet.  POCs of the
\* model are natural numbers.
NoPoc == -1

\* assoc is the POC of the associated IRAP picture as the first slice of the
\* picture saw it (Slice::getAssociatedIRAPPOC).
Picture == [id : Nat, poc : Nat, assoc : Int,
            needed : BOOLEAN, ref : BOOLEAN, recon : BOOLEAN]

View == [list : Seq(Picture), last : Int, log : Seq(Nat)]

----------------------------------------------------------------------------
(* The pictures that a list holds, those of them that wait for output, and *)
(* the pictures in the written file.                                       *)
HeldIn(list) == {list[i].id : i \in DOMAIN list}
WaitingIn(list) == {list[i].id : i \in {j \in DOMAIN list : list[j].needed}}

WrittenIn(log) == {log[k] : k \in DOMAIN log}

Distinct(list) == \A i, j \in DOMAIN list : list[i].id = list[j].id => i = j

(* The positions of a set, lowest first. *)
Ascending(S) ==
    [k \in 1 .. Cardinality(S) |-> CHOOSE i \in S : Cardinality({j \in S : j <= i}) = k]

(* The pictures at a set of positions, in list order. *)
IdsAt(list, S) == [k \in 1 .. Cardinality(S) |-> list[Ascending(S)[k]].id]

(* Slice::sortPicList is an insertion sort by POC that puts the later of    *)
(* two equal elements first.                                               *)
Precedes(list, i, j) ==
    \/ list[i].poc < list[j].poc
    \/ list[i].poc = list[j].poc /\ i > j

SortPicList(list) ==
    [k \in DOMAIN list |->
        list[CHOOSE i \in DOMAIN list :
                Cardinality({j \in DOMAIN list : Precedes(list, j, i)}) = k - 1]]

(* Slice::xGetRefPic: the first picture of the list with that POC, whatever *)
(* its marking.  Past the end of the list the code dereferences end().      *)
HasPoc(list, poc) == \E i \in DOMAIN list : list[i].poc = poc

GetRefPic(list, poc) ==
    list[CHOOSE i \in DOMAIN list :
            list[i].poc = poc /\ \A j \in 1 .. i - 1 : list[j].poc # poc].id

----------------------------------------------------------------------------
(* DecLib::xGetNewPicBuffer: a new buffer while the list is short of the   *)
(* SPS limit, else the first one that is free, else one more than the      *)
(* limit.  A picture whose reconstruction has been dropped is free even    *)
(* when it is still marked as a reference.                                 *)
(* Mutant: a picture that still waits for output is taken for free. *)
FreeWhileWaiting(pic) == ~pic.recon \/ ~pic.ref

Free(pic) == ~pic.needed /\ (~pic.recon \/ ~pic.ref)

NewPicBuffer(list) ==
    LET free == {i \in DOMAIN list : Free(list[i])}
    IN  IF Len(list) < MaxDec \/ free = {}
        THEN Len(list) + 1
        ELSE CHOOSE i \in free : \A j \in free : i <= j

(* Slice::applyReferencePictureListBasedMarking: a picture stays a         *)
(* reference when a list of the current picture names it, or when it has   *)
(* the POC of the current picture.                                         *)
(* Mutants: the lists of the current picture are not consulted; a mark is  *)
(* never taken back.                                                       *)
MarkedWithoutLists(pic, poc, rpl) == pic.ref /\ pic.poc = poc
MarkedForEver(pic, poc, rpl) == pic.ref

Marked(pic, poc, rpl) == pic.ref /\ (pic.poc \in rpl \/ pic.poc = poc)

MarkedFor(pic, poc, rpl) == [pic EXCEPT !.ref = Marked(pic, poc, rpl)]

(* xActivateParameterSets and the head of the slice decoding: the buffer   *)
(* is taken while the marking of the previous picture still holds, then    *)
(* the new marking is applied and the buffer becomes the current picture.  *)
StartPicture(list, id, poc, assoc, rpl) ==
    LET at == NewPicBuffer(list)
    IN  [i \in 1 .. (IF at > Len(list) THEN at ELSE Len(list)) |->
            IF i = at
            THEN [id |-> id, poc |-> poc, assoc |-> assoc,
                  needed |-> FALSE, ref |-> TRUE, recon |-> FALSE]
            ELSE MarkedFor(list[i], poc, rpl)]

(* DecLib::finishPicture. *)
Reconstructed(pic, output) == [pic EXCEPT !.needed = output, !.recon = TRUE]

(* Mutant: the list is not sorted again. *)
FinishPictureUnsorted(list, id, output) ==
    [i \in DOMAIN list |->
        IF list[i].id = id THEN Reconstructed(list[i], output) ELSE list[i]]

FinishPicture(list, id, output) ==
    SortPicList([i \in DOMAIN list |->
                    IF list[i].id = id THEN Reconstructed(list[i], output) ELSE list[i]])

(* DecLib::checkNoOutputPriorPics. *)
KeptOnly(pic, poc) == [pic EXCEPT !.needed = @ /\ pic.poc = poc]

DropPriorOutput(list, poc) == [i \in DOMAIN list |-> KeptOnly(list[i], poc)]

----------------------------------------------------------------------------
(* DecApp::xWriteOutput, frame decoding: one pass over the list writes     *)
(* each picture that waits for output and follows the last one written,    *)
(* as long as more pictures wait than the SPS allows to be reordered or    *)
(* the buffer is over its limit.                                           *)
Displayable(v) == {i \in DOMAIN v.list : v.list[i].needed /\ v.list[i].poc > v.last}

Occupied(v) == {i \in DOMAIN v.list : i \in Displayable(v) \/ v.list[i].ref}

(* What one pass can write: the successive maxima, in list order.          *)
Candidates(v) ==
    {i \in Displayable(v) : \A j \in Displayable(v) : j < i => v.list[j].poc < v.list[i].poc}

(* Mutant: one picture more than allowed may wait. *)
BumpedLate(v) ==
    {i \in Candidates(v) :
        Cardinality(Displayable(v))
            - Cardinality({j \in Candidates(v) : j < i}) > NumReorder + 1}

Bumped(v) ==
    {i \in Candidates(v) :
        LET earlier == {j \in Candidates(v) : j < i}
        IN  \/ Cardinality(Displayable(v)) - Cardinality(earlier) > NumReorder
            \/ Cardinality(Occupied(v))
                 - Cardinality({j \in earlier : ~v.list[j].ref}) > MaxDec}

(* The last position of a set, 0 when it is empty. *)
LastOf(S) == CHOOSE i \in S \cup {0} : \A j \in S : j <= i

(* A written picture that is no reference loses its reconstruction. *)
Displayed(pic) == [pic EXCEPT !.needed = FALSE, !.recon = @ /\ pic.ref]

WriteOutput(v) ==
    LET out == Bumped(v)
    IN  [list |-> [i \in DOMAIN v.list |->
                      IF i \in out THEN Displayed(v.list[i]) ELSE v.list[i]],
         last |-> IF out = {} THEN v.last ELSE v.list[LastOf(out)].poc,
         log  |-> v.log \o IdsAt(v.list, out)]

(* DecApp::xFlushOutput: writes everything that waits, in list order, and  *)
(* deletes the pictures.  An empty list returns before the last displayed  *)
(* POC is reset.                                                           *)
(* Mutants: the pictures are deleted unwritten; they are written and kept. *)
FlushOutputUnwritten(v) == [v EXCEPT !.list = <<>>, !.last = NoPoc]
FlushOutputKeeping(v) ==
    [v EXCEPT !.last = NoPoc,
              !.log = @ \o IdsAt(v.list, {i \in DOMAIN v.list : v.list[i].needed}),
              !.list = [i \in DOMAIN @ |-> [@[i] EXCEPT !.needed = FALSE]]]

FlushOutput(v) ==
    IF v.list = <<>> THEN v
    ELSE [list |-> <<>>,
          last |-> NoPoc,
          log  |-> v.log \o IdsAt(v.list, {i \in DOMAIN v.list : v.list[i].needed})]
============================================================================
