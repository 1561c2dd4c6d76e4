----------------------------- MODULE MCDecoder -----------------------------
(***************************************************************************)
(* The decoder for model checking, and the claims that the repository's    *)
(* documentation, comments and assertions make of it and that the code     *)
(* does not keep on every stream.  Each claim is checked by one run, on    *)
(* the smallest streams that break it.                                     *)
(***************************************************************************)
EXTENDS Decoder

(* "TFD pictures with POC less than the POC of the random access point are *)
(* skipped" (isRandomAccessSkipPicture): a stream whose slices are in      *)
(* order is not rejected for their order.                                  *)
SlicesAreInOrder == fault # "SliceOrder"

(* "detect lost reference picture and insert copy of earlier frame"        *)
(* (xDecodeSlice): a lost reference does not end the program.              *)
LossIsConcealed == fault # "LostReference"
============================================================================
