----------------------------- MODULE MCTransport -----------------------------
(***************************************************************************)
(* The way of a stream into the decoder, for model checking: the reference *)
(* lists the encoder sends, the bytes of a NAL unit, the NAL units of the  *)
(* file, the parameter sets and the picture order counts.  These share no  *)
(* state, so a behaviour is one of one of them, "part", and the others     *)
(* stay at their start.                                                    *)
(***************************************************************************)
EXTENDS NalBytes, ByteStream, PictureOrder, ParameterSets, MCLists

VARIABLE part

Parts == {"bytes", "stream", "order", "sets", "lists"}

(* A configuration for the parts that do not look at it.                  *)
AnyConfiguration == CHOOSE c \in Configurations : TRUE

MCInit ==
    /\ part \in Parts
    /\ NalInit /\ (part # "bytes" => rbsp[2] = 1)
    /\ TransportInit
    /\ OrderInit
    /\ SetsInit /\ (part # "sets" => inUse = 0)
    /\ ListsInit /\ (part # "lists" => conf = AnyConfiguration)

MCNext ==
    \/ part = "bytes" /\ NalNext
          /\ UNCHANGED <<part, transportVars, orderVars, setsVars, listVars>>
    \/ part = "stream" /\ TransportNext
          /\ UNCHANGED <<part, bytesVars, orderVars, setsVars, listVars>>
    \/ part = "order" /\ OrderNext
          /\ UNCHANGED <<part, bytesVars, transportVars, setsVars, listVars>>
    \/ part = "sets" /\ SetsNext
          /\ UNCHANGED <<part, bytesVars, transportVars, orderVars, listVars>>
    \/ part = "lists" /\ ListsNext
          /\ UNCHANGED <<part, bytesVars, transportVars, orderVars, setsVars>>

(* The fairness is that of TransportSpec: the decoder's thread goes on.    *)
MCSpec ==
    /\ MCInit
    /\ [][MCNext]_<<part, bytesVars, transportVars, orderVars, setsVars, listVars>>
    /\ WF_transportVars(NewPictureFound \/ NalRead)
=============================================================================
