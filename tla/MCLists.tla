------------------------------- MODULE MCLists -------------------------------
(***************************************************************************)
(* Configurations of the encoder for model checking: 154 GOP structures of *)
(* two and four pictures with four intra periods each, short enough for    *)
(* two or three GOPs after a random access point.                          *)
(***************************************************************************)
EXTENDS EncoderLists

(* GOP structures: low delay, where the lists of both pictures look back   *)
(* in any way; random access over two and over four pictures, with lists   *)
(* that respect the temporal layers.  Many of them fail the verification.  *)
Entry(poc, tid, l0, l1) ==
    [poc |-> poc, tid |-> tid, l0 |-> l0, l1 |-> l1, n0 |-> Len(l0), n1 |-> Len(l1)]

Back == {<<1>>, <<1, 2>>, <<1, 3>>, <<1, 2, 4>>, <<2, 4>>, <<1, 5>>}

LowDelay == {<<Entry(1, 0, a, a), Entry(2, 0, b, b)>> : a, b \in Back}

PairGops ==
    {<<Entry(2, 0, a, b), Entry(1, 1, c, d)>> :
        a \in {<<2>>, <<2, 4>>, <<2, 4, 6>>}, b \in {<<2>>, <<2, 4>>},
        c \in {<<1>>, <<1, -1>>, <<1, 3, -1>>}, d \in {<<-1>>, <<-1, 1>>, <<-1, 3>>}}

FourGops ==
    {<<Entry(4, 0, a, b), Entry(2, 1, <<2>>, c), Entry(1, 2, d, <<-1, -3>>), Entry(3, 2, e, f)>> :
        a, b \in {<<4>>, <<4, 8>>}, c \in {<<-2>>, <<-2, 2>>}, d \in {<<1>>, <<1, -1>>},
        e \in {<<1>>, <<1, 3>>}, f \in {<<-1>>, <<-1, 1>>}}

Configuration(gop, refresh, frames) ==
    [gop |-> gop, refresh |-> refresh[2], period |-> refresh[1], frames |-> frames]

EncoderConfigurations ==
    {Configuration(gop, refresh, 10) : gop \in LowDelay \cup PairGops,
        refresh \in {<<-1, "none">>, <<2, "CRA">>, <<4, "CRA">>, <<4, "IDR">>}}
    \cup
    {Configuration(gop, refresh, 13) : gop \in FourGops,
        refresh \in {<<-1, "none">>, <<4, "CRA">>, <<8, "CRA">>, <<8, "IDR">>}}
==============================================================================
