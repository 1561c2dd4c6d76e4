--------------------------- MODULE PictureOutput ---------------------------
(***************************************************************************)
(* What the decoder promises of its output file, whatever its buffers look *)
(* like: pictures arrive, wait, and are written a batch at a time, always  *)
(* the lowest ones that wait.  A picture is known by its place in output   *)
(* order, the coded video sequence first and the POC within it.  How many  *)
(* are written in a step is the decoder's choice (the bumping limits, the  *)
(* flush at an IDR picture or at the end).                                 *)
(*                                                                         *)
(* An arrival may not precede what has been written: that is the stream's  *)
(* side of the contract, sps_max_num_reorder_pics.                         *)
(***************************************************************************)
EXTENDS Integers, Sequences, FiniteSets

CONSTANTS Sequence, Poc

VARIABLES waiting, written

Place == [seq : Sequence, poc : Poc]

Before(a, b) == a.seq < b.seq \/ (a.seq = b.seq /\ a.poc < b.poc)

Init ==
    /\ waiting = {}
    /\ written = <<>>

Increasing(s) == \A j, k \in DOMAIN s : j < k => Before(s[j], s[k])

(* The ways to write a batch: one after the other, in output order. *)
Writings(batch) ==
    {s \in [1 .. Cardinality(batch) -> batch] :
        Increasing(s) /\ \A p \in batch : \E k \in DOMAIN s : s[k] = p}

(* At most one picture arrives; then the lowest ones leave. *)
Output(new, batch) ==
    /\ \A p \in new : p \notin waiting
    /\ \A p \in new, k \in DOMAIN written : Before(written[k], p)
    /\ \A p \in batch, q \in (waiting \cup new) \ batch : Before(p, q)
    /\ \E s \in Writings(batch) : written' = written \o s
    /\ waiting' = (waiting \cup new) \ batch

Arrivals == {{}} \cup {{p} : p \in Place}

Next == \E new \in Arrivals : \E batch \in SUBSET (waiting \cup new) : Output(new, batch)

Spec == Init /\ [][Next]_<<waiting, written>>
============================================================================
