---------------------------- MODULE Output_proofs ----------------------------
(***************************************************************************)
(* What the decoder writes of a conforming stream of any length, for every *)
(* SPS limit: the pictures in output order, each once, with never more     *)
(* waiting than the SPS allows and at most one buffer more than it says.   *)
(*                                                                         *)
(* The stream only promises that one decoder can output it in order, the   *)
(* author's, which bumps by counting (C.5.2.2).  The argument is that the  *)
(* decoder, which bumps one pass over its list at a time, waits at least   *)
(* as long as the author's does, and never longer than its limits allow.   *)
(* Both are questions about sets of POCs; the list comes in as a set that  *)
(* is sorted.                                                              *)
(***************************************************************************)
EXTENDS Conforming_proofs, SequenceTheorems

(* The pictures of W that an output pass takes: those with which too many  *)
(* wait or are in the buffer when all lower ones have left.                *)
From(W, x) == {y \in W : y >= x}

Over(S, R) == Cardinality(S) > NumReorder \/ Cardinality(S \cup R) > MaxDec

Bumps(W, R) == {x \in W : Over(From(W, x), R)}

(* More pictures are over the limits if fewer are.                         *)
LEMMA OverGrows ==
    ASSUME NEW T, IsFiniteSet(T), NEW R, IsFiniteSet(R), NEW S \in SUBSET T, Over(S, R)
    PROVE  Over(T, R)
<1>1. IsFiniteSet(S) /\ Cardinality(S) <= Cardinality(T)
    BY FS_Subset
<1>2. IsFiniteSet(T \cup R) /\ (S \cup R) \in SUBSET (T \cup R)
    BY FS_Union
<1>3. IsFiniteSet(S \cup R) /\ Cardinality(S \cup R) <= Cardinality(T \cup R)
    BY <1>2, FS_Subset
<1>4. /\ Cardinality(S) \in Int /\ Cardinality(T) \in Int
      /\ Cardinality(S \cup R) \in Int /\ Cardinality(T \cup R) \in Int
    BY <1>1, <1>2, <1>3, FS_CardinalityType
<1> QED
    BY <1>1, <1>3, <1>4, MaxDecAssumption, NumReorderAssumption DEF Over

(* An output pass takes the lowest pictures, none above a point where the  *)
(* limits are met, and as many as it must.                                 *)
LEMMA BumpsLowest ==
    ASSUME NEW W \in SUBSET Int, IsFiniteSet(W), NEW R, IsFiniteSet(R)
    PROVE  /\ Bumps(W, R) \in SUBSET W
           /\ \A x \in Bumps(W, R), y \in W \ Bumps(W, R) : x < y
           /\ \A m \in Int : ~Over({x \in W : x > m}, R) => \A x \in Bumps(W, R) : x <= m
           /\ ~Over(W, R) => Bumps(W, R) = {}
           /\ Cardinality(R) <= MaxDec => ~Over(W \ Bumps(W, R), R)
<1> DEFINE B == Bumps(W, R)
<1>1. B \in SUBSET W /\ (\A x \in W : x \in Int) /\ \A x \in B : x \in W /\ Over(From(W, x), R)
    BY DEF Bumps
<1>9. \A x \in W : Over(From(W, x), R) => x \in B
    BY DEF Bumps
<1> HIDE DEF B
<1>2. \A x \in W : From(W, x) \in SUBSET W /\ IsFiniteSet(From(W, x))
    BY FS_Subset DEF From
<1>3. ASSUME NEW x \in B, NEW y \in W, y <= x PROVE y \in B
    <2>1. \A z \in W : z >= x => z >= y
        BY <1>1, <1>3
    <2>4. From(W, x) \in SUBSET From(W, y)
        BY <2>1 DEF From
    <2>2. Over(From(W, x), R)
        BY <1>1
    <2>3. Over(From(W, y), R)
        BY <1>2, <2>4, <2>2, OverGrows
    <2> QED
        BY <2>3, <1>9
<1>4. \A x \in B, y \in W \ B : x < y
    BY <1>1, <1>3
<1>5. ASSUME NEW m \in Int, ~Over({x \in W : x > m}, R), NEW x \in B
      PROVE  x <= m
    <2> SUFFICES ASSUME x > m PROVE FALSE
        BY <1>1
    <2> DEFINE T == {y \in W : y > m}
    <2>1. T \in SUBSET W /\ IsFiniteSet(T)
        BY FS_Subset
    <2>4. \A z \in W : z >= x => z > m
        BY <1>1, <1>5
    <2>2. From(W, x) \in SUBSET T
        BY <2>4 DEF From
    <2>3. Over(From(W, x), R)
        BY <1>1
    <2> QED
        BY <2>1, <2>2, <2>3, <1>5, OverGrows
<1>6. ASSUME ~Over(W, R) PROVE B = {}
    <2> SUFFICES ASSUME NEW x \in B PROVE FALSE
        OBVIOUS
    <2>1. Over(From(W, x), R)
        BY <1>1
    <2> QED
        BY <2>1, <1>1, <1>2, <1>6, OverGrows
<1>7. ASSUME Cardinality(R) <= MaxDec PROVE ~Over(W \ B, R)
    <2>1. CASE W \ B = {}
        <3>1. Cardinality(W \ B) = 0 /\ (W \ B) \cup R = R
            BY <2>1, FS_EmptySet
        <3>2. Cardinality(R) \in Nat
            BY FS_CardinalityType
        <3> QED
            BY <3>1, <3>2, <1>7, MaxDecAssumption, NumReorderAssumption DEF Over
    <2>2. CASE W \ B # {}
        <3>1. (W \ B) \in SUBSET Int /\ IsFiniteSet(W \ B)
            BY FS_Subset
        <3>2. PICK x \in W \ B : \A y \in W \ B : x <= y
            BY <2>2, <3>1, FirstAndLast
        <3>3. ~Over(From(W, x), R)
            BY <3>2, <1>9
        <3>4. (W \ B) \in SUBSET From(W, x)
            BY <3>2 DEF From
        <3> QED
            BY <3>3, <3>4, <1>2, OverGrows
    <2> QED
        BY <2>1, <2>2
<1> QED
    BY <1>1, <1>4, <1>5, <1>6, <1>7 DEF B

----------------------------------------------------------------------------
(* The list.  No POC is in it twice, and the pictures that wait are in     *)
(* ascending order and above what has been written.                        *)
PocsAt(list, S) == {list[i].poc : i \in S}
WaitAt(list) == {i \in DOMAIN list : list[i].needed}
RefAt(list) == {i \in DOMAIN list : list[i].ref}
WaitPocs(list) == PocsAt(list, WaitAt(list))
RefPocs(list) == PocsAt(list, RefAt(list))

OnePoc(list) == \A i, j \in DOMAIN list : list[i].poc = list[j].poc => i = j

InOrder(list) == \A i, j \in WaitAt(list) : i < j => list[i].poc < list[j].poc

Orderly(v) ==
    /\ OnePoc(v.list) /\ InOrder(v.list)
    /\ \A i \in WaitAt(v.list) : v.list[i].poc > v.last

(* So there are as many POCs as positions. *)
LEMMA PocCount ==
    ASSUME NEW D, NEW list \in Seq(PicturesOf(D)), OnePoc(list), NEW S \in SUBSET DOMAIN list
    PROVE  /\ IsFiniteSet(S) /\ IsFiniteSet(PocsAt(list, S))
           /\ PocsAt(list, S) \in SUBSET Nat
           /\ Cardinality(S) \in Nat /\ Cardinality(PocsAt(list, S)) = Cardinality(S)
<1> DEFINE f == [i \in S |-> list[i].poc]
<1>1. IsFiniteSet(S) /\ Cardinality(S) \in Nat
    BY PositionsFinite, FS_CardinalityType
<1>2. f \in Bijection(S, PocsAt(list, S))
    <2>1. f \in [S -> PocsAt(list, S)]
        BY DEF PocsAt
    <2>2. \A i, j \in S : f[i] = f[j] => i = j
        BY DEF OnePoc
    <2>3. \A x \in PocsAt(list, S) : \E i \in S : f[i] = x
        BY DEF PocsAt
    <2> HIDE DEF f
    <2> QED
        BY <2>1, <2>2, <2>3 DEF Bijection, Injection, Surjection, IsInjective
<1>3. IsFiniteSet(PocsAt(list, S)) /\ Cardinality(PocsAt(list, S)) = Cardinality(S)
    <2>1. ExistsBijection(S, PocsAt(list, S))
        BY <1>2 DEF ExistsBijection
    <2> QED
        BY <2>1, <1>1, FS_Bijection
<1>4. PocsAt(list, S) \in SUBSET Nat
    BY SeqOfPictures, PictureFields DEF PocsAt
<1> QED
    BY <1>1, <1>3, <1>4

(* xWriteOutput writes the pictures that an output pass takes: the POCs in *)
(* place of the counters of the code.                                      *)
LEMMA BumpedPocs ==
    ASSUME NEW D, NEW v, v.list \in Seq(PicturesOf(D)), v.last \in Int, Orderly(v)
    PROVE  Bumped(v) = {i \in WaitAt(v.list) :
                            v.list[i].poc \in Bumps(WaitPocs(v.list), RefPocs(v.list))}
<1> DEFINE list == v.list
           wait == WaitAt(list)
           ref == RefAt(list)
           W == WaitPocs(list)
           R == RefPocs(list)
<1>1. wait \in SUBSET DOMAIN list /\ ref \in SUBSET DOMAIN list
    BY DEF WaitAt, RefAt
<1>2. DOMAIN list \in SUBSET Nat /\ \A i \in DOMAIN list : i \in Int /\ list[i].poc \in Int
    BY PositionsFinite, SeqOfPictures, PictureFields
<1>3. Displayable(v) = wait
    BY DEF Displayable, WaitAt, Orderly
<1>4. Candidates(v) = wait
    BY <1>3 DEF Candidates, Orderly, InOrder
<1>5. Occupied(v) = wait \cup ref
    BY <1>1, <1>3 DEF Occupied, RefAt
<1>6. OnePoc(list) /\ InOrder(list)
    BY DEF Orderly
<1> HIDE DEF list
<1>7. ASSUME NEW i \in wait
      PROVE  LET earlier == {j \in wait : j < i}
             IN  /\ Cardinality(wait) - Cardinality(earlier) = Cardinality(From(W, list[i].poc))
                 /\ Cardinality(wait \cup ref) - Cardinality({j \in earlier : ~list[j].ref})
                        = Cardinality(From(W, list[i].poc) \cup R)
    <2> DEFINE earlier == {j \in wait : j < i}
               up == {j \in wait : j >= i}
               gone == {j \in earlier : ~list[j].ref}
    <2>1. /\ up \in SUBSET DOMAIN list /\ (up \cup ref) \in SUBSET DOMAIN list
          /\ (wait \cup ref) \in SUBSET DOMAIN list
        BY <1>1
    <2>2. PocsAt(list, up) = From(W, list[i].poc)
        <3>1. \A j \in wait : j >= i <=> list[j].poc >= list[i].poc
            <4> TAKE j \in wait
            <4>1. i \in DOMAIN list /\ j \in DOMAIN list
                BY <1>1
            <4>2. i \in Int /\ j \in Int /\ list[i].poc \in Int /\ list[j].poc \in Int
                BY <4>1, <1>2 DEF list
            <4>3. i < j => list[i].poc < list[j].poc
                BY <1>6 DEF InOrder
            <4>4. j < i => list[j].poc < list[i].poc
                BY <1>6 DEF InOrder
            <4> QED
                BY <4>2, <4>3, <4>4
        <3> HIDE DEF wait
        <3> QED
            BY <3>1 DEF PocsAt, From, W, WaitPocs, wait
    <2>3. PocsAt(list, up \cup ref) = From(W, list[i].poc) \cup R
        BY <2>2 DEF PocsAt, RefPocs
    <2>4. wait \ earlier = up /\ wait \cap earlier = earlier
        BY <1>1, <1>2 DEF list
    <2>5. (wait \cup ref) \ gone = up \cup ref /\ (wait \cup ref) \cap gone = gone
        BY <1>1, <1>2, <2>4 DEF RefAt, list
    <2>6. Cardinality(up) = Cardinality(From(W, list[i].poc)) /\ Cardinality(up) \in Nat
        BY <2>1, <2>2, <1>6, PocCount DEF list
    <2>7. /\ Cardinality(up \cup ref) = Cardinality(From(W, list[i].poc) \cup R)
          /\ Cardinality(up \cup ref) \in Nat
        BY <2>1, <2>3, <1>6, PocCount DEF list
    <2>8. IsFiniteSet(wait) /\ IsFiniteSet(wait \cup ref)
        BY <1>1, <2>1, PositionsFinite DEF list
    <2>9. IsFiniteSet(earlier) /\ IsFiniteSet(gone)
        <3>1. earlier \in SUBSET wait /\ gone \in SUBSET wait
            OBVIOUS
        <3> QED
            BY <3>1, <2>8, FS_Subset
    <2>10. /\ Cardinality(wait) \in Nat /\ Cardinality(wait \cup ref) \in Nat
           /\ Cardinality(earlier) \in Nat /\ Cardinality(gone) \in Nat
        BY <2>8, <2>9, FS_CardinalityType
    <2> HIDE DEF wait, ref, earlier, up, gone, W, R
    <2>11. Cardinality(up) = Cardinality(wait) - Cardinality(earlier)
        <3>1. Cardinality(wait \ earlier) = Cardinality(wait) - Cardinality(wait \cap earlier)
            BY <2>8, FS_Difference, Zenon
        <3> QED
            BY <3>1, <2>4, Zenon
    <2>12. Cardinality(up \cup ref) = Cardinality(wait \cup ref) - Cardinality(gone)
        <3>1. Cardinality((wait \cup ref) \ gone)
                = Cardinality(wait \cup ref) - Cardinality((wait \cup ref) \cap gone)
            BY <2>8, FS_Difference, Zenon
        <3> QED
            BY <3>1, <2>5, Zenon
    <2> QED
        BY <2>6, <2>7, <2>10, <2>11, <2>12 DEF earlier, gone
<1>8. \A i \in wait : list[i].poc \in W
    BY DEF PocsAt, WaitPocs
<1>9. \A i \in wait : {j \in Candidates(v) : j < i} = {j \in wait : j < i}
    BY <1>4
<1> HIDE DEF wait, ref, W, R
<1>10. Bumped(v) = {i \in wait : Over(From(W, list[i].poc), R)}
    BY <1>3, <1>4, <1>5, <1>7, <1>9, ZenonT(40) DEF Bumped, Over, list
<1>11. Bumped(v) = {i \in wait : list[i].poc \in Bumps(W, R)}
    BY <1>8, <1>10 DEF Bumps
<1> QED
    BY <1>11 DEF list, wait, W, R

(* The positions of a set are enumerated in ascending order.               *)
LEMMA AscendingAscends ==
    ASSUME NEW S \in SUBSET Int, IsFiniteSet(S)
    PROVE  \A k, l \in 1 .. Cardinality(S) : k < l => Ascending(S)[k] < Ascending(S)[l]
<1> DEFINE upTo(i) == {j \in S : j <= i}
           up(i) == Cardinality(upTo(i))
<1>1. Cardinality(S) \in Nat
    BY FS_CardinalityType
<1>2. \A k \in 1 .. Cardinality(S) : \E i \in S : up(i) = k
    BY CountUpTo
<1>3. Ascending(S) = [k \in 1 .. Cardinality(S) |-> CHOOSE i \in S : up(i) = k]
    BY DEF Ascending
<1>4. ASSUME NEW i \in S, NEW j \in S, j <= i
      PROVE  up(j) <= up(i)
    <2>1. \A k \in S : k \in Int
        OBVIOUS
    <2>2. IsFiniteSet(upTo(i))
        BY FS_Subset
    <2>3. \A k \in S : k <= j => k <= i
        BY <2>1, <1>4
    <2>4. upTo(j) \in SUBSET upTo(i)
        BY <2>3
    <2> HIDE DEF upTo
    <2> QED
        BY <2>2, <2>4, FS_Subset
<1> HIDE DEF up
<1>5. \A k \in 1 .. Cardinality(S) : Ascending(S)[k] \in S /\ up(Ascending(S)[k]) = k
    BY <1>2, <1>3
<1> TAKE k, l \in 1 .. Cardinality(S)
<1> HAVE k < l
<1> DEFINE i == Ascending(S)[k]
           j == Ascending(S)[l]
<1>6. i \in S /\ j \in S /\ i \in Int /\ j \in Int /\ up(i) = k /\ up(j) = l
    BY <1>5
<1> HIDE DEF i, j
<1>7. ~(j <= i)
    <2> SUFFICES ASSUME j <= i PROVE FALSE
        OBVIOUS
    <2>1. up(j) <= up(i)
        BY <1>4, <1>6
    <2> QED
        BY <2>1, <1>1, <1>6
<1> QED
    BY <1>6, <1>7 DEF i, j

(* What is written in a pass: the pictures at the positions of a set, in   *)
(* list order.                                                             *)
Batch(ids, list, S) ==
    /\ ids \in Seq(Nat)
    /\ \E at \in [DOMAIN ids -> S] :
          /\ \A k \in DOMAIN ids : ids[k] = list[at[k]].id
          /\ \A k, l \in DOMAIN ids : k < l => at[k] < at[l]
          /\ \A i \in S : \E k \in DOMAIN ids : at[k] = i

(* xWriteOutput and xFlushOutput walk through the list once.               *)
LEMMA IdsAtBatch ==
    ASSUME NEW D \in SUBSET Nat, NEW list \in Seq(PicturesOf(D)), NEW S \in SUBSET DOMAIN list
    PROVE  Batch(IdsAt(list, S), list, S)
<1>1. S \in SUBSET Int /\ IsFiniteSet(S)
    BY PositionsFinite
<1>2. IdsAt(list, S) \in Seq(Nat)
    BY IdsAtLogged
<1>3. DOMAIN IdsAt(list, S) = 1 .. Cardinality(S)
      /\ \A k \in 1 .. Cardinality(S) : IdsAt(list, S)[k] = list[Ascending(S)[k]].id
    BY DEF IdsAt
<1>4. /\ Ascending(S) \in [1 .. Cardinality(S) -> S]
      /\ \A i \in S : \E k \in 1 .. Cardinality(S) : Ascending(S)[k] = i
      /\ \A k, l \in 1 .. Cardinality(S) : k < l => Ascending(S)[k] < Ascending(S)[l]
    BY <1>1, AscendingEnumerates, AscendingAscends
<1> QED
    BY <1>2, <1>3, <1>4 DEF Batch

(* An output pass over an orderly list: it leaves an orderly list, without *)
(* the pictures it has taken, and the last POC displayed is the highest of *)
(* those.                                                                  *)
Passed(w, v) ==
    LET B == Bumps(WaitPocs(v.list), RefPocs(v.list))
    IN  /\ Orderly(w)
        /\ Len(w.list) = Len(v.list) /\ DOMAIN w.list = DOMAIN v.list
        /\ \A i \in DOMAIN v.list : w.list[i].id = v.list[i].id /\ w.list[i].poc = v.list[i].poc
        /\ Bumped(v) \in SUBSET WaitAt(v.list)
        /\ WaitAt(w.list) = WaitAt(v.list) \ Bumped(v)
        /\ \A i \in WaitAt(v.list) : i \in Bumped(v) <=> v.list[i].poc \in B
        /\ WaitPocs(w.list) = WaitPocs(v.list) \ B
        /\ w.last \in {v.last} \cup B /\ v.last <= w.last /\ \A x \in B : x <= w.last
        /\ w.log = v.log \o IdsAt(v.list, Bumped(v))

LEMMA WriteOutputPasses ==
    ASSUME NEW D \in SUBSET Nat, NEW v \in ViewOf(D), Orderly(v)
    PROVE  Passed(WriteOutput(v), v)
<1> DEFINE w == WriteOutput(v)
           out == Bumped(v)
           W == WaitPocs(v.list)
           R == RefPocs(v.list)
           B == Bumps(W, R)
           list == [i \in DOMAIN v.list |-> IF i \in out THEN Displayed(v.list[i]) ELSE v.list[i]]
<1>1. v.list \in Seq(PicturesOf(D)) /\ v.last \in Int
    BY ViewFields
<1>2. /\ Len(v.list) \in Nat /\ DOMAIN v.list = 1 .. Len(v.list)
      /\ \A i \in DOMAIN v.list : v.list[i] \in PicturesOf(D)
    BY <1>1, SeqOfPictures
<1>3. out = {i \in WaitAt(v.list) : v.list[i].poc \in B}
    BY <1>1, BumpedPocs
<1>4. WaitAt(v.list) \in SUBSET DOMAIN v.list /\ RefAt(v.list) \in SUBSET DOMAIN v.list
    BY DEF WaitAt, RefAt
<1>5. OnePoc(v.list) /\ InOrder(v.list)
    BY DEF Orderly
<1>6. /\ IsFiniteSet(W) /\ W \in SUBSET Int /\ IsFiniteSet(R)
    BY <1>1, <1>4, <1>5, PocCount DEF WaitPocs, RefPocs
<1>7. B \in SUBSET W /\ \A x \in B, y \in W \ B : x < y
    BY <1>6, BumpsLowest
<1>8. w.list = list /\ w.log = v.log \o IdsAt(v.list, out)
      /\ w.last = IF out = {} THEN v.last ELSE v.list[LastOf(out)].poc
    BY DEF WriteOutput
<1>9. out \in SUBSET WaitAt(v.list) /\ out \in SUBSET DOMAIN v.list
    BY <1>3, <1>4
<1> HIDE DEF w, out, B, W, R
<1>10. \A i \in DOMAIN v.list :
          /\ Displayed(v.list[i]).id = v.list[i].id /\ Displayed(v.list[i]).poc = v.list[i].poc
          /\ Displayed(v.list[i]).needed = FALSE
    BY <1>2, FlagUpdates DEF Updates
<1>11. /\ DOMAIN w.list = DOMAIN v.list /\ Len(w.list) = Len(v.list)
       /\ \A i \in DOMAIN v.list : w.list[i].id = v.list[i].id /\ w.list[i].poc = v.list[i].poc
       /\ \A i \in DOMAIN v.list : w.list[i].needed = (v.list[i].needed /\ i \notin out)
    <2>1. DOMAIN w.list = DOMAIN v.list
        BY <1>8
    <2>2. Len(w.list) = Len(v.list)
        <3>1. w.list \in [1 .. Len(v.list) -> {list[i] : i \in DOMAIN v.list}]
            BY <1>2, <1>8
        <3> HIDE DEF list
        <3> QED
            BY <1>2, <2>1, <3>1
    <2>3. \A i \in DOMAIN v.list :
              w.list[i] = IF i \in out THEN Displayed(v.list[i]) ELSE v.list[i]
        BY <1>8
    <2>4. \A i \in DOMAIN v.list : v.list[i].needed \in BOOLEAN
        BY <1>2, PictureFields
    <2> HIDE DEF list
    <2>5. ASSUME NEW i \in DOMAIN v.list PROVE w.list[i].needed = (v.list[i].needed /\ i \notin out)
        <3>1. CASE i \in out
            BY <3>1, <2>3, <1>10
        <3>2. CASE i \notin out
            BY <3>2, <2>3, <2>4
        <3> QED
            BY <3>1, <3>2
    <2> QED
        BY <2>1, <2>2, <2>3, <2>5, <1>10
<1> HIDE DEF list
<1>12. WaitAt(w.list) = WaitAt(v.list) \ out
    <2>1. \A i \in DOMAIN v.list : v.list[i].needed \in BOOLEAN
        BY <1>2, PictureFields
    <2> QED
        BY <2>1, <1>11 DEF WaitAt
<1>13. WaitPocs(w.list) = W \ B
    <2>1. WaitPocs(w.list) = {v.list[i].poc : i \in WaitAt(v.list) \ out}
        BY <1>4, <1>11, <1>12 DEF WaitPocs, PocsAt
    <2>2. W = {v.list[i].poc : i \in WaitAt(v.list)}
        BY DEF W, WaitPocs, PocsAt
    <2>3. \A i \in WaitAt(v.list) : i \in out <=> v.list[i].poc \in B
        BY <1>3
    <2> QED
        BY <2>1, <2>2, <2>3
<1>14. w.last \in {v.last} \cup B /\ v.last <= w.last /\ \A x \in B : x <= w.last
    <2>1. CASE out = {}
        <3>1. B = {}
            BY <2>1, <1>3, <1>7 DEF W, WaitPocs, PocsAt
        <3> QED
            BY <2>1, <3>1, <1>1, <1>8
    <2>2. CASE out # {}
        <3> DEFINE l == LastOf(out)
        <3>1. out \in SUBSET Nat /\ IsFiniteSet(out)
            BY <1>1, <1>9, PositionsFinite
        <3>2. l \in out /\ \A i \in out : i <= l
            BY <2>2, <3>1, LastOfIn
        <3>3. w.last = v.list[l].poc
            BY <2>2, <1>8
        <3> HIDE DEF l
        <3>4. v.list[l].poc \in B /\ v.list[l].poc > v.last /\ v.list[l].poc \in Int
            BY <3>2, <1>3, <1>6, <1>7 DEF Orderly
        <3>5. ASSUME NEW x \in B PROVE x <= w.last
            <4>1. PICK i \in WaitAt(v.list) : v.list[i].poc = x
                BY <1>7 DEF W, WaitPocs, PocsAt
            <4>2. i \in out
                BY <4>1, <1>3
            <4>3. i <= l /\ i \in Nat /\ l \in Nat /\ l \in WaitAt(v.list)
                BY <4>2, <3>1, <3>2, <1>9
            <4>4. i < l => v.list[i].poc < v.list[l].poc
                BY <4>1, <4>3, <1>5 DEF InOrder
            <4>5. x \in Int
                BY <1>6, <1>7
            <4> QED
                BY <4>1, <4>3, <4>4, <4>5, <3>3, <3>4
        <3> QED
            BY <3>3, <3>4, <3>5, <1>1
    <2> QED
        BY <2>1, <2>2
<1>15. Orderly(w)
    <2>1. OnePoc(w.list)
        BY <1>5, <1>11 DEF OnePoc
    <2>2. InOrder(w.list)
        BY <1>4, <1>5, <1>11, <1>12 DEF InOrder
    <2>3. ASSUME NEW i \in WaitAt(w.list) PROVE w.list[i].poc > w.last
        <3>1. w.list[i].poc = v.list[i].poc /\ i \in WaitAt(v.list) /\ i \notin out
            BY <1>4, <1>11, <1>12
        <3>2. v.list[i].poc \in W \ B /\ v.list[i].poc \in Int
            BY <3>1, <1>3, <1>6 DEF W, WaitPocs, PocsAt
        <3>3. \A x \in B : x \in Int /\ x < v.list[i].poc
            BY <3>2, <1>6, <1>7
        <3>4. v.list[i].poc > v.last
            BY <3>1 DEF Orderly
        <3> QED
            BY <3>1, <3>2, <3>3, <3>4, <1>1, <1>14
    <2> QED
        BY <2>1, <2>2, <2>3 DEF Orderly
<1> QED
    BY <1>3, <1>8, <1>9, <1>11, <1>12, <1>13, <1>14, <1>15 DEF Passed, w, out, B, W, R

----------------------------------------------------------------------------
(* The author's decoder.  C.5.2.2 bumping takes the lowest pictures, until *)
(* the rest fits or nothing is left.                                       *)
Fits(left, refs, reorder, room) ==
    left = {} \/ (Cardinality(left) <= reorder /\ Cardinality(left \cup refs) <= room)

LEMMA BumpFits ==
    ASSUME NEW wait \in SUBSET Int, IsFiniteSet(wait), NEW refs, NEW reorder, NEW room
    PROVE  LET b == Bump(wait, refs, reorder, room)
           IN  /\ b \in SUBSET wait
               /\ \A x \in b, y \in wait \ b : x < y
               /\ Fits(wait \ b, refs, reorder, room)
<1> DEFINE c == Cardinality(wait)
           below(x) == {y \in wait : y < x}
           fits(n) == Fits(wait \ Lowest(wait, n), refs, reorder, room)
           least(n) == fits(n) /\ \A m \in 0 .. n - 1 : ~fits(m)
           b == Bump(wait, refs, reorder, room)
<1>1. c \in Nat /\ \A x \in wait : x \in Int
    BY FS_CardinalityType
<1>2. \A x \in wait : IsFiniteSet(below(x)) /\ Cardinality(below(x)) \in Nat /\ Cardinality(below(x)) < c
    <2> TAKE x \in wait
    <2>1. below(x) \in SUBSET wait /\ x \notin below(x)
        BY <1>1
    <2>2. IsFiniteSet(below(x)) /\ Cardinality(below(x)) <= c /\ below(x) # wait
        BY <2>1, FS_Subset
    <2>3. Cardinality(below(x)) # c
        BY <2>1, <2>2, FS_Subset
    <2>4. Cardinality(below(x)) \in Nat
        BY <2>2, FS_CardinalityType
    <2> HIDE DEF c, below
    <2> QED
        BY <2>2, <2>3, <2>4, <1>1
<1>3. fits(c)
    <2>1. wait \ Lowest(wait, c) = {}
        BY <1>2 DEF Lowest
    <2> QED
        BY <2>1 DEF Fits
<1>4. \E n \in 0 .. c : least(n)
    <2> DEFINE S == {n \in 0 .. c : fits(n)}
    <2> HIDE DEF c, fits
    <2>1. S \in SUBSET Int /\ S # {} /\ IsFiniteSet(0 .. c)
        BY <1>1, <1>3, FS_Interval
    <2>2. IsFiniteSet(S)
        BY <2>1, FS_Subset
    <2>3. PICK n \in S : \A m \in S : n <= m
        BY <2>1, <2>2, FirstAndLast
    <2>4. \A m \in 0 .. n - 1 : m \in 0 .. c /\ ~(n <= m)
        BY <2>3, <1>1
    <2> QED
        BY <2>3, <2>4
<1>5. b = Lowest(wait, CHOOSE n \in 0 .. c : least(n))
    BY DEF Bump, Fits
<1> HIDE DEF b, c
<1>6. PICK n \in 0 .. c : b = Lowest(wait, n) /\ fits(n)
    <2> HIDE DEF fits
    <2> QED
        BY <1>4, <1>5
<1>7. ASSUME NEW x \in b, NEW y \in wait \ b PROVE x < y
    <2> SUFFICES ASSUME y <= x PROVE FALSE
        BY <1>1, <1>6, <1>7 DEF Lowest
    <2>1. x \in wait /\ Cardinality(below(x)) < n /\ n \in Int
        BY <1>6, <1>1 DEF Lowest
    <2>2. \A z \in wait : z < y => z < x
        BY <2>1, <1>1
    <2>3. below(y) \in SUBSET below(x)
        BY <2>2
    <2>4. Cardinality(below(y)) <= Cardinality(below(x))
        BY <2>1, <2>3, <1>2, FS_Subset
    <2>5. Cardinality(below(y)) < n
        <3>1. Cardinality(below(x)) \in Nat /\ Cardinality(below(y)) \in Nat
            BY <2>1, <1>2
        <3> HIDE DEF below
        <3> QED
            BY <3>1, <2>1, <2>4
    <2>6. y \in b
        BY <2>5, <1>6 DEF Lowest
    <2> QED
        BY <2>6
<1> QED
    BY <1>6, <1>7 DEF b, Lowest

(* The POCs that wait above the last one that the author's decoder wrote.  *)
Above(W, l) == {x \in W : x > l}

(* What a picture that the author may append says of the waiting ones: at  *)
(* some point m, below the picture if it is shown, those above m fit       *)
(* beside its references.                                                  *)
AuthorAllows(e, A, l, pic, shown) ==
    LET R   == pic.rpl \cup {pic.poc}
        new == IF shown THEN {pic.poc} ELSE {}
    IN  /\ e.last \in Int
        /\ \E m \in Int :
              /\ l <= m /\ m <= e.last
              /\ shown => m < pic.poc
              /\ ~Over(Above(A, m), R)
        /\ e.wait = Above(A \cup new, e.last)
        /\ ~Over(e.wait, R)

LEMMA AuthorStep ==
    ASSUME NEW A \in SUBSET Int, IsFiniteSet(A), NEW l \in Int, \A x \in A : x > l,
           NEW pic, pic.poc \in Int, IsFiniteSet(pic.rpl), Cardinality(pic.rpl) < MaxDec,
           NEW shown \in BOOLEAN, NEW before, before.wait = A, before.last = l,
           AuthorDecodes(before, pic, shown).order
    PROVE  AuthorAllows(AuthorDecodes(before, pic, shown), A, l, pic, shown)
<1> DEFINE poc == pic.poc
           rpl == pic.rpl
           R == rpl \cup {poc}
           new == IF shown THEN {poc} ELSE {}
           e == AuthorDecodes(before, pic, shown)
           first == Bump(A, rpl, NumReorder, MaxDec - 1)
           left == A \ first
           wait == left \cup new
           next == Bump(wait, {}, NumReorder, Cardinality(wait))
           m == Highest({l} \cup first)
<1>1. /\ e.wait = wait \ next /\ e.last = Highest({l} \cup first \cup next)
      /\ shown => \A x \in {l} \cup first : x < poc
    BY DEF AuthorDecodes
<1>2. /\ first \in SUBSET A /\ \A x \in first, y \in left : x < y
      /\ Fits(left, rpl, NumReorder, MaxDec - 1)
    BY BumpFits
<1>3. IsFiniteSet(left) /\ IsFiniteSet(first) /\ IsFiniteSet(new) /\ new \in SUBSET Int
      /\ IsFiniteSet(R) /\ poc \in R /\ Cardinality(R) <= MaxDec
    <2>1. IsFiniteSet(left) /\ IsFiniteSet(first)
        BY <1>2, FS_Subset
    <2>2. IsFiniteSet({poc}) /\ IsFiniteSet({})
        BY FS_Singleton, FS_EmptySet
    <2>3. IsFiniteSet(R) /\ Cardinality(R) \in {Cardinality(rpl), Cardinality(rpl) + 1}
        BY FS_AddElement
    <2>4. Cardinality(rpl) \in Nat
        BY FS_CardinalityType
    <2> QED
        BY <2>1, <2>2, <2>3, <2>4, MaxDecAssumption
<1> HIDE DEF first
<1>4. wait \in SUBSET Int /\ IsFiniteSet(wait)
    BY <1>2, <1>3, FS_Union
<1>5. /\ next \in SUBSET wait /\ \A x \in next, y \in wait \ next : x < y
      /\ Fits(wait \ next, {}, NumReorder, Cardinality(wait))
    <2> HIDE DEF wait
    <2> QED
        BY <1>4, BumpFits
<1>6. IsFiniteSet(next)
    BY <1>4, <1>5, FS_Subset
<1> HIDE DEF next, left
<1>7. \A S \in SUBSET Int : IsFiniteSet(S) /\ S # {} => Highest(S) \in S /\ \A y \in S : y <= Highest(S)
    <2> TAKE S \in SUBSET Int
    <2> HAVE IsFiniteSet(S) /\ S # {}
    <2>1. \E x \in S : \A y \in S : y <= x
        BY FirstAndLast
    <2> QED
        BY <2>1 DEF Highest
<1>8. m \in {l} \cup first /\ (\A y \in {l} \cup first : y <= m) /\ m \in Int
    <2>1. {l} \cup first \in SUBSET Int /\ {l} \cup first # {} /\ IsFiniteSet({l} \cup first)
        BY <1>2, <1>3, FS_Union, FS_Singleton
    <2> QED
        BY <2>1, <1>7
<1>9. /\ e.last \in {l} \cup first \cup next /\ (\A y \in {l} \cup first \cup next : y <= e.last)
      /\ e.last \in Int
    <2> DEFINE S == {l} \cup first \cup next
    <2>1. S \in SUBSET Int /\ S # {} /\ IsFiniteSet(S)
        BY <1>2, <1>3, <1>4, <1>5, <1>6, FS_Union, FS_Singleton
    <2> HIDE DEF S
    <2> QED
        BY <2>1, <1>1, <1>7, ZenonT(40) DEF S
<1> HIDE DEF m, e
<1>10. l <= m /\ m <= e.last /\ (shown => m < poc)
    BY <1>1, <1>8, <1>9
<1>11. \A x \in A : x > m <=> x \in left
    <2> TAKE x \in A
    <2>1. x \in Int /\ x > l
        OBVIOUS
    <2>2. x \in left => x > m
        BY <2>1, <1>2, <1>8
    <2>3. x \in first => x <= m
        BY <1>8
    <2> QED
        BY <2>1, <2>2, <2>3, <1>8 DEF left
<1>12. Above(A, m) = left
    BY <1>2, <1>11 DEF Above, left
<1>13. ~Over(left, R)
    <2>1. CASE left = {}
        <3>1. Cardinality(left) = 0 /\ left \cup R = R
            BY <2>1, FS_EmptySet
        <3>2. Cardinality(R) \in Nat
            BY <1>3, FS_CardinalityType
        <3> QED
            BY <3>1, <3>2, <1>3, MaxDecAssumption, NumReorderAssumption DEF Over
    <2>2. CASE left # {}
        <3>1. Cardinality(left) <= NumReorder /\ Cardinality(left \cup rpl) <= MaxDec - 1
            BY <2>2, <1>2 DEF Fits
        <3>2. IsFiniteSet(left \cup rpl)
            BY <1>3, FS_Union
        <3>3. left \cup R = (left \cup rpl) \cup {poc}
            OBVIOUS
        <3>4. /\ Cardinality(left \cup rpl) \in Nat /\ Cardinality(left) \in Nat
              /\ Cardinality((left \cup rpl) \cup {poc})
                    \in {Cardinality(left \cup rpl), Cardinality(left \cup rpl) + 1}
            BY <1>3, <3>2, FS_AddElement, FS_CardinalityType
        <3>5. Cardinality(left \cup R) \in Nat /\ Cardinality(left \cup R) <= MaxDec
            <4>1. Cardinality(left \cup R) \in {Cardinality(left \cup rpl), Cardinality(left \cup rpl) + 1}
                <5> HIDE DEF R
                <5> QED
                    BY <3>3, <3>4, Zenon
            <4> DEFINE k == Cardinality(left \cup rpl)
            <4>2. k \in Nat /\ k <= MaxDec - 1 /\ Cardinality(left \cup R) \in {k, k + 1}
                BY <3>1, <3>4, <4>1
            <4> HIDE DEF R, k
            <4> QED
                BY <4>2, MaxDecAssumption
        <3> HIDE DEF R
        <3> QED
            BY <3>1, <3>4, <3>5, MaxDecAssumption, NumReorderAssumption DEF Over
    <2> QED
        BY <2>1, <2>2
<1>14. \A x \in wait : x > m
    BY <1>2, <1>3, <1>8, <1>10, <1>11 DEF left
<1>15. \A x \in A \cup new : x > e.last <=> x \in wait \ next
    <2> TAKE x \in A \cup new
    <2>1. x \in Int
        BY <1>3
    <2>2. x \in wait \ next => x > e.last
        <3> HAVE x \in wait \ next
        <3>1. \A y \in {l} \cup first : y < x
            BY <2>1, <1>2, <1>8, <1>14
        <3>2. \A y \in next : y < x
            BY <1>5
        <3> QED
            BY <3>1, <3>2, <2>1, <1>9
    <2>3. x > e.last => x \in wait
        BY <2>1, <1>8, <1>9, <1>10, <1>11
    <2>4. x \in next => x <= e.last
        BY <1>9
    <2> QED
        BY <2>1, <2>2, <2>3, <2>4, <1>9
<1>16. wait \in SUBSET (A \cup new)
    BY DEF left
<1>17. e.wait = Above(A \cup new, e.last)
    <2> HIDE DEF new, wait
    <2> QED
        BY <1>1, <1>15, <1>16 DEF Above
<1>18. ~Over(e.wait, R)
    <2>1. Cardinality(e.wait) <= NumReorder
        <3>1. CASE wait \ next = {}
            BY <3>1, <1>1, FS_EmptySet, NumReorderAssumption
        <3>2. CASE wait \ next # {}
            BY <3>2, <1>1, <1>5 DEF Fits
        <3> QED
            BY <3>1, <3>2
    <2>2. (e.wait \cup R) \in SUBSET (left \cup R)
        BY <1>1
    <2>3. IsFiniteSet(left \cup R)
        BY <1>3, FS_Union
    <2>4. Cardinality(e.wait \cup R) <= Cardinality(left \cup R) /\ IsFiniteSet(e.wait \cup R)
        BY <2>2, <2>3, FS_Subset
    <2>5. /\ Cardinality(e.wait \cup R) \in Nat /\ Cardinality(left \cup R) \in Nat
          /\ IsFiniteSet(e.wait) /\ Cardinality(e.wait) \in Nat
        <3>1. IsFiniteSet(e.wait)
            BY <1>1, <1>4, FS_Subset
        <3> QED
            BY <3>1, <2>3, <2>4, FS_CardinalityType
    <2>6. Cardinality(left \cup R) <= MaxDec
        BY <2>5, <1>13, MaxDecAssumption DEF Over
    <2> QED
        BY <2>1, <2>4, <2>5, <2>6, MaxDecAssumption, NumReorderAssumption DEF Over
<1> HIDE DEF new, wait, R
<1>19. \E m0 \in Int : l <= m0 /\ m0 <= e.last /\ (shown => m0 < pic.poc) /\ ~Over(Above(A, m0), R)
    BY <1>8, <1>10, <1>12, <1>13
<1> QED
    BY <1>9, <1>17, <1>18, <1>19 DEF AuthorAllows, e, R, new

----------------------------------------------------------------------------
(* The list of a conforming stream.  No POC is in it twice, since all its  *)
(* pictures belong to one coded video sequence, ...                        *)
LEMMA OnePocHeld ==
    ASSUME NEW c \in Nat, NEW cd, \A id \in 1 .. c : Lawful(cd, id),
           NEW list, Distinct(list), HoldsCvs(cd, c, PicturesIn(list))
    PROVE  OnePoc(list)
<1> SUFFICES ASSUME NEW i \in DOMAIN list, NEW j \in DOMAIN list, list[i].poc = list[j].poc
             PROVE  i = j
    BY DEF OnePoc
<1>1. /\ list[i].id \in 1 .. c /\ list[j].id \in 1 .. c
      /\ cd[list[i].id].start = cd[list[j].id].start
      /\ cd[list[i].id].poc = cd[list[j].id].poc
    BY DEF HoldsCvs, PicturesIn
<1>2. list[i].id = list[j].id
    BY <1>1, OnePocEach
<1> QED
    BY <1>2 DEF Distinct

(* ... and the marked ones are the references of the current picture, of   *)
(* which there are no more than buffers.                                   *)
LEMMA RefPocsHeld ==
    ASSUME NEW D, NEW list \in Seq(PicturesOf(D)), OnePoc(list),
           NEW c, NEW cd, Placed(cd, c), HoldsRefs(cd, c, PicturesIn(list))
    PROVE  /\ RefPocs(list) = Refs(cd, c) /\ IsFiniteSet(Refs(cd, c))
           /\ IsFiniteSet(cd[c].rpl) /\ Cardinality(Refs(cd, c)) <= MaxDec
<1>1. RefPocs(list) = {e.poc : e \in {f \in PicturesIn(list) : f.ref}}
    BY DEF RefPocs, PocsAt, RefAt, PicturesIn
<1>2. RefPocs(list) = Refs(cd, c)
    BY <1>1 DEF HoldsRefs
<1>3. RefAt(list) \in SUBSET DOMAIN list
    BY DEF RefAt
<1>4. IsFiniteSet(Refs(cd, c))
    BY <1>2, <1>3, PocCount DEF RefPocs
<1>5. IsFiniteSet(cd[c].rpl)
    BY <1>4, FS_Subset DEF Refs
<1>6. /\ Cardinality(cd[c].rpl) \in Nat /\ Cardinality(cd[c].rpl) < MaxDec
      /\ Cardinality(Refs(cd, c)) \in {Cardinality(cd[c].rpl), Cardinality(cd[c].rpl) + 1}
    BY <1>5, FS_AddElement, FS_CardinalityType DEF Refs, Placed
<1> QED
    BY <1>2, <1>4, <1>5, <1>6, MaxDecAssumption

(* finishPicture leaves the list in ascending order, and the picture it    *)
(* finishes waits if it is to be shown.                                    *)
FinishedList(q, list, id, poc, output) ==
    /\ Len(q) = Len(list)
    /\ OnePoc(q) /\ InOrder(q) /\ RefPocs(q) = RefPocs(list)
    /\ WaitPocs(q) = WaitPocs(list) \cup (IF output THEN {poc} ELSE {})
    /\ WaitingIn(q) = WaitingIn(list) \cup (IF output THEN {id} ELSE {})

LEMMA FinishOrders ==
    ASSUME NEW D, NEW list \in Seq(PicturesOf(D)), OnePoc(list), Distinct(list),
           NEW output \in BOOLEAN, NEW at \in DOMAIN list, ~list[at].needed
    PROVE  FinishedList(FinishPicture(list, list[at].id, output), list,
                        list[at].id, list[at].poc, output)
<1> DEFINE id == list[at].id
           m == WithFlags(list, id, output)
           q == FinishPicture(list, id, output)
           N == DOMAIN list
<1>1. /\ list \in Seq(Picture) /\ Len(list) \in Nat /\ N = 1 .. Len(list)
      /\ \A i \in N : list[i] \in PicturesOf(D) /\ list[i].poc \in Int /\ list[i].needed \in BOOLEAN
    BY SeqOfPictures, PictureFields
<1>2. m \in Seq(PicturesOf(D)) /\ DOMAIN m = N /\ m \in Seq(Picture)
    BY WithFlagsType, SeqOfPictures
<1>3. \A i \in N :
          /\ m[i].id = list[i].id /\ m[i].poc = list[i].poc /\ m[i].ref = list[i].ref
          /\ m[i].needed = IF i = at THEN output ELSE list[i].needed
    <2> TAKE i \in N
    <2>1. m[i] = IF list[i].id = id THEN Reconstructed(list[i], output) ELSE list[i]
        BY DEF WithFlags
    <2>2. (list[i].id = id) = (i = at)
        BY DEF Distinct
    <2>3. /\ Reconstructed(list[i], output).id = list[i].id
          /\ Reconstructed(list[i], output).poc = list[i].poc
          /\ Reconstructed(list[i], output).ref = list[i].ref
          /\ Reconstructed(list[i], output).needed = output
        <3> DEFINE pic == list[i]
        <3>1. pic \in PicturesOf(D)
            BY <1>1
        <3> HIDE DEF pic
        <3>2. Updates(D, Reconstructed(pic, output), pic)
            BY <3>1, FlagUpdates
        <3>3. Reconstructed(pic, output).ref = pic.ref /\ Reconstructed(pic, output).needed = output
            BY <3>1, FlagValues
        <3> QED
            BY <3>2, <3>3 DEF Updates, pic
    <2> QED
        BY <2>1, <2>2, <2>3
<1>4. q = SortPicList(m)
    BY DEF FinishPicture, WithFlags
<1> HIDE DEF m, q
<1>5. IsSortingOf(q, m)
    BY <1>2, <1>4, SortPermutes
<1>6. DOMAIN q = N /\ q \in Seq(Picture)
    BY <1>2, <1>5 DEF IsSortingOf
<1>7. PICK p \in [N -> N] :
          /\ \A j, k \in N : p[j] = p[k] => j = k
          /\ \A i \in N : \E k \in N : p[k] = i
          /\ \A k \in N : q[k] = m[p[k]]
          /\ \A j, k \in N : j < k => Precedes(m, p[j], p[k])
    BY <1>2, <1>5 DEF IsSortingOf
<1>8. \A k \in N :
          /\ p[k] \in N /\ q[k].poc = list[p[k]].poc /\ q[k].id = list[p[k]].id
          /\ q[k].ref = list[p[k]].ref
          /\ q[k].needed = IF p[k] = at THEN output ELSE list[p[k]].needed
    <2> TAKE k \in N
    <2>1. p[k] \in N /\ q[k] = m[p[k]]
        BY <1>7
    <2> QED
        BY <2>1, <1>3
<1>9. OnePoc(q)
    BY <1>6, <1>7, <1>8 DEF OnePoc
<1>10. ASSUME NEW j \in N, NEW k \in N, j < k PROVE q[j].poc < q[k].poc
    <2>1. Precedes(m, p[j], p[k]) /\ p[j] # p[k]
        BY <1>1, <1>7, <1>10
    <2>2. list[p[j]].poc # list[p[k]].poc
        BY <2>1, <1>8 DEF OnePoc
    <2> QED
        BY <2>1, <2>2, <1>3, <1>8 DEF Precedes
<1>11. InOrder(q)
    BY <1>6, <1>10 DEF InOrder, WaitAt
<1>12. Len(q) = Len(list)
    BY <1>1, <1>6
<1>13. RefPocs(q) = RefPocs(list)
    <2>1. \A k \in RefAt(q) : p[k] \in RefAt(list) /\ q[k].poc = list[p[k]].poc
        BY <1>6, <1>8 DEF RefAt
    <2>2. \A i \in RefAt(list) : \E k \in RefAt(q) : q[k].poc = list[i].poc
        <3> TAKE i \in RefAt(list)
        <3>1. PICK k \in N : p[k] = i
            BY <1>7 DEF RefAt
        <3>2. k \in RefAt(q) /\ q[k].poc = list[i].poc
            BY <3>1, <1>6, <1>8 DEF RefAt
        <3> QED
            BY <3>2
    <2> QED
        BY <2>1, <2>2 DEF RefPocs, PocsAt
<1>14. \A k \in WaitAt(q) : (p[k] \in WaitAt(list) \/ (p[k] = at /\ output)) /\ k \in N
    BY <1>6, <1>8 DEF WaitAt
<1>15. \A i \in WaitAt(list) : \E k \in WaitAt(q) : p[k] = i
    <2> TAKE i \in WaitAt(list)
    <2>1. PICK k \in N : p[k] = i
        BY <1>7 DEF WaitAt
    <2>2. i # at /\ list[i].needed
        BY DEF WaitAt
    <2>3. k \in WaitAt(q)
        BY <2>1, <2>2, <1>6, <1>8 DEF WaitAt
    <2> QED
        BY <2>1, <2>3
<1>16. output => \E k \in WaitAt(q) : p[k] = at
    BY <1>6, <1>7, <1>8 DEF WaitAt
<1>17. WaitAt(q) \in SUBSET N /\ WaitAt(list) \in SUBSET N
    BY <1>6 DEF WaitAt
<1>18. WaitPocs(q) = WaitPocs(list) \cup (IF output THEN {list[at].poc} ELSE {})
    <2>1. \A k \in WaitAt(q) : q[k].poc = list[p[k]].poc
        BY <1>8, <1>17
    <2> QED
        BY <2>1, <1>14, <1>15, <1>16 DEF WaitPocs, PocsAt
<1>19. WaitingIn(q) = WaitingIn(list) \cup (IF output THEN {id} ELSE {})
    <2>1. \A k \in WaitAt(q) : q[k].id = list[p[k]].id
        BY <1>8, <1>17
    <2>2. WaitingIn(q) = {q[k].id : k \in WaitAt(q)} /\ WaitingIn(list) = {list[i].id : i \in WaitAt(list)}
        BY DEF WaitingIn, WaitAt
    <2> QED
        BY <2>1, <2>2, <1>14, <1>15, <1>16
<1> QED
    BY <1>9, <1>11, <1>12, <1>13, <1>18, <1>19 DEF FinishedList, q

(* The buffer of a new picture is not one that waits, so nothing changes   *)
(* for the pictures that do; and the list grows past the limit of the SPS  *)
(* only when each of its pictures waits or is a reference.                 *)
StartedList(new, list) ==
    /\ WaitPocs(new) = WaitPocs(list) /\ WaitingIn(new) = WaitingIn(list)
    /\ InOrder(list) => InOrder(new)
    /\ \A i \in WaitAt(new) : \E j \in WaitAt(list) : new[i].poc = list[j].poc
    /\ \/ Len(new) = Len(list)
       \/ /\ Len(new) = Len(list) + 1
          /\ Len(list) < MaxDec \/ \A i \in DOMAIN list : list[i].needed \/ list[i].ref

LEMMA StartOrders ==
    ASSUME NEW D \in SUBSET Nat, NEW list \in Seq(PicturesOf(D)),
           NEW id \in D, NEW poc \in Nat, NEW assoc \in Int, NEW rpl
    PROVE  StartedList(StartPicture(list, id, poc, assoc, rpl), list)
<1> DEFINE at == NewPicBuffer(list)
           n == IF at > Len(list) THEN at ELSE Len(list)
           fresh == [id |-> id, poc |-> poc, assoc |-> assoc,
                     needed |-> FALSE, ref |-> TRUE, recon |-> FALSE]
           new == StartPicture(list, id, poc, assoc, rpl)
<1>1. /\ Len(list) \in Nat /\ DOMAIN list = 1 .. Len(list)
      /\ \A i \in DOMAIN list : list[i] \in PicturesOf(D)
    BY SeqOfPictures
<1>2. /\ at \in 1 .. Len(list) + 1
      /\ at <= Len(list) => ~list[at].needed
      /\ at > Len(list) => Len(list) < MaxDec \/ \A i \in DOMAIN list : ~Free(list[i])
    BY NewPicBufferPlace
<1>3. new = [i \in 1 .. n |-> IF i = at THEN fresh ELSE MarkedFor(list[i], poc, rpl)]
    BY DEF StartPicture
<1>4. new \in Seq(PicturesOf(D)) /\ Len(new) \in Nat /\ DOMAIN new = 1 .. Len(new)
    BY StartPictureType, SeqOfPictures
<1> HIDE DEF at, new
<1>5. n \in Nat /\ DOMAIN new = 1 .. n /\ 1 .. n = DOMAIN list \cup {at} /\ Len(new) = n
    <2>1. n \in Nat /\ 1 .. n = DOMAIN list \cup {at}
        BY <1>1, <1>2
    <2>2. DOMAIN new = 1 .. n
        BY <1>3
    <2> HIDE DEF n
    <2> QED
        BY <2>1, <2>2, <1>4
<1>6. new[at].needed = FALSE
    BY <1>3, <1>5
<1>7. \A i \in DOMAIN list : i # at =>
          /\ i \in DOMAIN new
          /\ new[i].id = list[i].id /\ new[i].poc = list[i].poc /\ new[i].needed = list[i].needed
    <2> TAKE i \in DOMAIN list
    <2> HAVE i # at
    <2>1. i \in DOMAIN new /\ new[i] = MarkedFor(list[i], poc, rpl)
        BY <1>3, <1>5
    <2>2. Remarks(D, MarkedFor(list[i], poc, rpl), list[i])
        BY <1>1, FlagUpdates
    <2> QED
        BY <2>1, <2>2 DEF Remarks, Updates
<1>8. at \in DOMAIN list => ~list[at].needed
    BY <1>1, <1>2
<1>9. WaitAt(new) = WaitAt(list)
    BY <1>5, <1>6, <1>7, <1>8 DEF WaitAt
<1>10. \A i \in WaitAt(list) : i \in DOMAIN list /\ i # at
    BY <1>8 DEF WaitAt
<1>11. WaitPocs(new) = WaitPocs(list)
    BY <1>7, <1>9, <1>10 DEF WaitPocs, PocsAt
<1>12. WaitingIn(new) = WaitingIn(list)
    <2>1. WaitingIn(new) = {new[i].id : i \in WaitAt(new)} /\ WaitingIn(list) = {list[i].id : i \in WaitAt(list)}
        BY DEF WaitingIn, WaitAt
    <2> QED
        BY <2>1, <1>7, <1>9, <1>10
<1>13. InOrder(list) => InOrder(new)
    BY <1>7, <1>9, <1>10 DEF InOrder
<1>14. \A i \in WaitAt(new) : \E j \in WaitAt(list) : new[i].poc = list[j].poc
    BY <1>7, <1>9, <1>10
<1>15. \A i \in DOMAIN list : ~Free(list[i]) => list[i].needed \/ list[i].ref
    BY <1>1, PictureFields DEF Free
<1>16. \/ Len(new) = Len(list)
       \/ /\ Len(new) = Len(list) + 1
          /\ Len(list) < MaxDec \/ \A i \in DOMAIN list : list[i].needed \/ list[i].ref
    <2>1. CASE at > Len(list)
        <3>1. Len(new) = Len(list) + 1
            BY <2>1, <1>1, <1>2, <1>5
        <3> QED
            BY <2>1, <3>1, <1>2, <1>15
    <2>2. CASE ~(at > Len(list))
        BY <2>2, <1>5
    <2> QED
        BY <2>1, <2>2
<1> QED
    BY <1>11, <1>12, <1>13, <1>14, <1>16 DEF StartedList, new

----------------------------------------------------------------------------
(* The written file.  A picture precedes another one of a later coded      *)
(* video sequence and one of the same with a higher POC.                   *)
PrecedesIn(cd, a, b) ==
    cd[a].start < cd[b].start \/ (cd[a].start = cd[b].start /\ cd[a].poc < cd[b].poc)

LogInOrder(cd, log) == \A j, k \in DOMAIN log : j < k => PrecedesIn(cd, log[j], log[k])

(* What has been written belongs to an earlier sequence than the current   *)
(* picture c, or is not above the last POC displayed.                      *)
NotAbove(cd, c, id, last) ==
    /\ id \in 1 .. c
    /\ cd[id].start < cd[c].start \/ (cd[id].start = cd[c].start /\ cd[id].poc <= last)

Past(cd, c, v) == \A k \in DOMAIN v.log : NotAbove(cd, c, v.log[k], v.last)

(* From v to w the file grows by what no longer waits; new are the         *)
(* pictures that have come to wait in between.                             *)
Moves(w, v, new) ==
    \E s \in Seq(Nat) :
        /\ w.log = v.log \o s
        /\ WrittenIn(s) \cup WaitingIn(w.list) = WaitingIn(v.list) \cup new

(* One part of the file after the other. *)
LEMMA Appended ==
    ASSUME NEW a \in Seq(Nat), NEW b \in Seq(Nat)
    PROVE  /\ a \o b \in Seq(Nat) /\ WrittenIn(a \o b) = WrittenIn(a) \cup WrittenIn(b)
           /\ \A k \in DOMAIN (a \o b) :
                 \/ k \in DOMAIN a /\ (a \o b)[k] = a[k]
                 \/ k - Len(a) \in DOMAIN b /\ (a \o b)[k] = b[k - Len(a)]
           /\ \A k \in DOMAIN (a \o b) :
                 (k \in DOMAIN a /\ (a \o b)[k] = a[k]) \/ \E l \in DOMAIN b : (a \o b)[k] = b[l]
           /\ Len(a) \in Nat /\ DOMAIN a = 1 .. Len(a) /\ DOMAIN b \in SUBSET Nat
<1> DEFINE both == a \o b
<1>1. /\ both \in Seq(Nat) /\ Len(both) = Len(a) + Len(b)
      /\ Len(a) \in Nat /\ Len(b) \in Nat
      /\ DOMAIN a = 1 .. Len(a) /\ DOMAIN b = 1 .. Len(b) /\ DOMAIN both = 1 .. Len(both)
    OBVIOUS
<1>2. \A k \in DOMAIN both :
          \/ k \in DOMAIN a /\ both[k] = a[k]
          \/ k - Len(a) \in DOMAIN b /\ both[k] = b[k - Len(a)]
    BY <1>1
<1>3. WrittenIn(both) \subseteq WrittenIn(a) \cup WrittenIn(b)
    <2> HIDE DEF both
    <2> QED
        BY <1>2 DEF WrittenIn
<1>4. WrittenIn(a) \subseteq WrittenIn(both) /\ WrittenIn(b) \subseteq WrittenIn(both)
    BY LogGrows
<1> QED
    BY <1>1, <1>2, <1>3, <1>4

(* In order, when the second part follows all of the first.                *)
LEMMA AppendedInOrder ==
    ASSUME NEW cd, NEW a \in Seq(Nat), NEW b \in Seq(Nat), LogInOrder(cd, a), LogInOrder(cd, b),
           \A j \in DOMAIN a, k \in DOMAIN b : PrecedesIn(cd, a[j], b[k])
    PROVE  LogInOrder(cd, a \o b)
<1> DEFINE both == a \o b
<1>1. /\ \A k \in DOMAIN both :
            \/ k \in DOMAIN a /\ both[k] = a[k]
            \/ k - Len(a) \in DOMAIN b /\ both[k] = b[k - Len(a)]
      /\ Len(a) \in Nat /\ DOMAIN a = 1 .. Len(a) /\ DOMAIN b \in SUBSET Nat
      /\ DOMAIN both \in SUBSET Nat
    <2>1. both \in Seq(Nat)
        OBVIOUS
    <2>2. DOMAIN both \in SUBSET Nat
        BY <2>1
    <2> QED
        BY <2>2, Appended
<1> HIDE DEF both
<1> SUFFICES ASSUME NEW j \in DOMAIN both, NEW k \in DOMAIN both, j < k
             PROVE  PrecedesIn(cd, both[j], both[k])
    BY DEF LogInOrder, both
<1>2. CASE j \in DOMAIN a /\ both[j] = a[j] /\ k \in DOMAIN a /\ both[k] = a[k]
    BY <1>2 DEF LogInOrder
<1>3. CASE j \in DOMAIN a /\ both[j] = a[j] /\ k - Len(a) \in DOMAIN b /\ both[k] = b[k - Len(a)]
    BY <1>3
<1>4. CASE j - Len(a) \in DOMAIN b /\ both[j] = b[j - Len(a)]
           /\ k - Len(a) \in DOMAIN b /\ both[k] = b[k - Len(a)]
    <2>1. j - Len(a) < k - Len(a)
        BY <1>1
    <2> QED
        BY <1>4, <2>1 DEF LogInOrder
<1>5. CASE j - Len(a) \in DOMAIN b /\ k \in DOMAIN a
    BY <1>1, <1>5
<1> QED
    BY <1>1, <1>2, <1>3, <1>4, <1>5

(* Steps of the output follow each other.                                  *)
LEMMA MovesCompose ==
    ASSUME NEW u, NEW v, NEW w, NEW new1, NEW new2, u.log \in Seq(Nat),
           Moves(v, u, new1), Moves(w, v, new2)
    PROVE  Moves(w, u, new1 \cup new2)
<1>1. PICK s \in Seq(Nat) : v.log = u.log \o s
                            /\ WrittenIn(s) \cup WaitingIn(v.list) = WaitingIn(u.list) \cup new1
    BY DEF Moves
<1>2. PICK t \in Seq(Nat) : w.log = v.log \o t
                            /\ WrittenIn(t) \cup WaitingIn(w.list) = WaitingIn(v.list) \cup new2
    BY DEF Moves
<1>3. s \o t \in Seq(Nat) /\ WrittenIn(s \o t) = WrittenIn(s) \cup WrittenIn(t)
    BY Appended
<1>4. w.log = u.log \o (s \o t)
    <2>1. (u.log \o s) \o t = u.log \o (s \o t)
        <3> DEFINE a == u.log
        <3>1. a \in Seq(Nat)
            OBVIOUS
        <3> HIDE DEF a
        <3>2. (a \o s) \o t = a \o (s \o t)
            BY <3>1, ConcatAssociative, SMTT(30)
        <3> QED
            BY <3>2 DEF a
    <2> QED
        BY <1>1, <1>2, <2>1
<1>5. WrittenIn(s \o t) \cup WaitingIn(w.list) = WaitingIn(u.list) \cup (new1 \cup new2)
    BY <1>1, <1>2, <1>3
<1> QED
    BY <1>3, <1>4, <1>5 DEF Moves

(* Where nothing is written, what waits afterwards are the new pictures.   *)
LEMMA MovesUnwritten ==
    ASSUME NEW w, NEW v, NEW new, v.log \in Seq(Nat), w.log = v.log,
           WaitingIn(w.list) = WaitingIn(v.list) \cup new
    PROVE  Moves(w, v, new)
<1>1. <<>> \in Seq(Nat) /\ v.log \o <<>> = v.log
    OBVIOUS
<1>2. WrittenIn(<<>>) = {}
    BY DEF WrittenIn
<1> QED
    BY <1>1, <1>2 DEF Moves

(* A pass over the list writes pictures that wait, in output order.        *)
LEMMA BatchInOrder ==
    ASSUME NEW c \in Nat, NEW list \in Seq(PicturesOf(1 .. c)), InOrder(list),
           NEW cd, HoldsCvs(cd, c, PicturesIn(list)), NEW S \in SUBSET WaitAt(list)
    PROVE  LET ids == IdsAt(list, S)
           IN  /\ ids \in Seq(Nat) /\ LogInOrder(cd, ids)
               /\ WrittenIn(ids) = {list[i].id : i \in S}
               /\ \A k \in DOMAIN ids : \E i \in S :
                     /\ ids[k] = list[i].id /\ ids[k] \in 1 .. c
                     /\ cd[ids[k]].start = cd[c].start /\ cd[ids[k]].poc = list[i].poc
<1> DEFINE ids == IdsAt(list, S)
<1>1. S \in SUBSET DOMAIN list /\ 1 .. c \in SUBSET Nat
    BY DEF WaitAt
<1>2. Batch(ids, list, S)
    <2> HIDE DEF ids
    <2> DEFINE D == 1 .. c
    <2>1. D \in SUBSET Nat /\ list \in Seq(PicturesOf(D))
        BY <1>1
    <2> HIDE DEF D
    <2> QED
        BY <1>1, <2>1, IdsAtBatch DEF ids
<1> HIDE DEF ids
<1>3. PICK at \in [DOMAIN ids -> S] :
          /\ \A k \in DOMAIN ids : ids[k] = list[at[k]].id
          /\ \A k, l \in DOMAIN ids : k < l => at[k] < at[l]
          /\ \A i \in S : \E k \in DOMAIN ids : at[k] = i
    BY <1>2 DEF Batch
<1>4. \A i \in S : /\ list[i].id \in 1 .. c /\ cd[list[i].id].start = cd[c].start
                   /\ cd[list[i].id].poc = list[i].poc
    BY <1>1 DEF HoldsCvs, PicturesIn
<1>5. \A k \in DOMAIN ids :
          /\ at[k] \in S /\ ids[k] = list[at[k]].id
          /\ ids[k] \in 1 .. c /\ cd[ids[k]].start = cd[c].start
          /\ cd[ids[k]].poc = list[at[k]].poc
    BY <1>3, <1>4
<1>6. LogInOrder(cd, ids)
    <2> SUFFICES ASSUME NEW j \in DOMAIN ids, NEW k \in DOMAIN ids, j < k
                 PROVE  PrecedesIn(cd, ids[j], ids[k])
        BY DEF LogInOrder
    <2>1. list[at[j]].poc < list[at[k]].poc
        BY <1>3, <1>5 DEF InOrder
    <2> QED
        BY <2>1, <1>5 DEF PrecedesIn
<1>7. WrittenIn(ids) = {list[i].id : i \in S}
    <2>1. \A i \in S : \E k \in DOMAIN ids : ids[k] = list[i].id
        BY <1>3
    <2> QED
        BY <2>1, <1>5 DEF WrittenIn
<1> QED
    BY <1>2, <1>5, <1>6, <1>7 DEF ids, Batch

(* The output pass keeps the file in order and moves what it takes there.  *)
LEMMA WritesInOrder ==
    ASSUME NEW c \in Nat, NEW v \in ViewOf(1 .. c), Orderly(v),
           NEW cd, HoldsCvs(cd, c, PicturesIn(v.list)), \A id \in 1 .. c : cd[id].poc \in Nat,
           LogInOrder(cd, v.log), Past(cd, c, v)
    PROVE  /\ LogInOrder(cd, WriteOutput(v).log) /\ Past(cd, c, WriteOutput(v))
           /\ Moves(WriteOutput(v), v, {})
<1> DEFINE w == WriteOutput(v)
           S == Bumped(v)
           ids == IdsAt(v.list, S)
           B == Bumps(WaitPocs(v.list), RefPocs(v.list))
<1>1. v.list \in Seq(PicturesOf(1 .. c)) /\ v.last \in Int /\ v.log \in Seq(Nat)
    BY ViewFields
<1>2. Passed(w, v)
    <2> DEFINE D == 1 .. c
    <2>1. D \in SUBSET Nat /\ v \in ViewOf(D)
        OBVIOUS
    <2> HIDE DEF D
    <2> QED
        BY <2>1, WriteOutputPasses
<1> HIDE DEF w, B
<1>3. /\ S \in SUBSET WaitAt(v.list) /\ WaitAt(w.list) = WaitAt(v.list) \ S
      /\ \A i \in WaitAt(v.list) : i \in S <=> v.list[i].poc \in B
      /\ \A i \in DOMAIN v.list : w.list[i].id = v.list[i].id
      /\ DOMAIN w.list = DOMAIN v.list
      /\ w.last \in {v.last} \cup B /\ v.last <= w.last /\ \A x \in B : x <= w.last
      /\ w.log = v.log \o ids
    BY <1>2 DEF Passed, B
<1> HIDE DEF S
<1>4. /\ ids \in Seq(Nat) /\ LogInOrder(cd, ids)
      /\ WrittenIn(ids) = {v.list[i].id : i \in S}
      /\ \A k \in DOMAIN ids : \E i \in S :
            /\ ids[k] = v.list[i].id /\ ids[k] \in 1 .. c
            /\ cd[ids[k]].start = cd[c].start /\ cd[ids[k]].poc = v.list[i].poc
    <2> DEFINE list == v.list
    <2>1. /\ list \in Seq(PicturesOf(1 .. c)) /\ InOrder(list)
          /\ HoldsCvs(cd, c, PicturesIn(list)) /\ S \in SUBSET WaitAt(list)
        BY <1>1, <1>3 DEF Orderly
    <2> HIDE DEF list
    <2>2. LET b == IdsAt(list, S)
         IN  /\ b \in Seq(Nat) /\ LogInOrder(cd, b)
             /\ WrittenIn(b) = {list[i].id : i \in S}
             /\ \A k \in DOMAIN b : \E i \in S :
                   /\ b[k] = list[i].id /\ b[k] \in 1 .. c
                   /\ cd[b[k]].start = cd[c].start /\ cd[b[k]].poc = list[i].poc
        BY <2>1, BatchInOrder
    <2> QED
        BY <2>2 DEF list
<1> HIDE DEF ids
<1>5. \A k \in DOMAIN ids :
          /\ ids[k] \in 1 .. c /\ cd[ids[k]].start = cd[c].start
          /\ cd[ids[k]].poc > v.last /\ cd[ids[k]].poc <= w.last
    <2> TAKE k \in DOMAIN ids
    <2>1. PICK i \in S : /\ ids[k] \in 1 .. c /\ cd[ids[k]].start = cd[c].start
                         /\ cd[ids[k]].poc = v.list[i].poc
        BY <1>4
    <2>2. v.list[i].poc > v.last /\ v.list[i].poc \in B
        BY <1>3 DEF Orderly
    <2> QED
        BY <2>1, <2>2, <1>3
<1>6. LogInOrder(cd, w.log)
    <2>1. \A j \in DOMAIN v.log, k \in DOMAIN ids : PrecedesIn(cd, v.log[j], ids[k])
        <3> TAKE j \in DOMAIN v.log, k \in DOMAIN ids
        <3>1. NotAbove(cd, c, v.log[j], v.last)
            BY DEF Past
        <3>2. cd[v.log[j]].poc \in Nat /\ cd[ids[k]].poc \in Nat
            BY <3>1, <1>5 DEF NotAbove
        <3> QED
            BY <3>1, <3>2, <1>1, <1>5, SMTT(30) DEF NotAbove, PrecedesIn
    <2> QED
        BY <2>1, <1>1, <1>3, <1>4, AppendedInOrder
<1>7. Past(cd, c, w)
    <2> SUFFICES ASSUME NEW k \in DOMAIN w.log PROVE NotAbove(cd, c, w.log[k], w.last)
        BY DEF Past
    <2>1. \/ k \in DOMAIN v.log /\ w.log[k] = v.log[k]
          \/ \E l \in DOMAIN ids : w.log[k] = ids[l]
        BY <1>1, <1>3, <1>4, Appended, SMTT(30)
    <2>2. CASE k \in DOMAIN v.log /\ w.log[k] = v.log[k]
        <3>1. NotAbove(cd, c, v.log[k], v.last) /\ cd[v.log[k]].poc \in Nat
            BY <2>2 DEF Past, NotAbove
        <3>2. w.last \in Int
            <4>1. B \in SUBSET Int
                <5>1. B \in SUBSET WaitPocs(v.list)
                    BY DEF B, Bumps
                <5>2. WaitPocs(v.list) \in SUBSET Nat
                    <6>1. WaitAt(v.list) \in SUBSET DOMAIN v.list
                        BY DEF WaitAt
                    <6> QED
                        BY <6>1, <1>1, PocCount DEF WaitPocs, Orderly
                <5> QED
                    BY <5>1, <5>2
            <4> QED
                BY <4>1, <1>1, <1>3
        <3> QED
            BY <3>1, <3>2, <2>2, <1>1, <1>3 DEF NotAbove
    <2>3. CASE \E l \in DOMAIN ids : w.log[k] = ids[l]
        BY <2>3, <1>5 DEF NotAbove
    <2> QED
        BY <2>1, <2>2, <2>3
<1>8. Moves(w, v, {})
    <2>1. WaitingIn(v.list) = {v.list[i].id : i \in WaitAt(v.list)}
        BY DEF WaitingIn, WaitAt
    <2>2. WaitAt(v.list) \in SUBSET DOMAIN v.list
        BY DEF WaitAt
    <2>3. WaitingIn(w.list) = {v.list[i].id : i \in WaitAt(v.list) \ S}
        <3>1. WaitingIn(w.list) = {w.list[i].id : i \in WaitAt(w.list)}
            BY DEF WaitingIn, WaitAt
        <3>2. \A i \in WaitAt(v.list) \ S : w.list[i].id = v.list[i].id
            BY <2>2, <1>3
        <3> QED
            BY <3>1, <3>2, <1>3
    <2>4. WrittenIn(ids) \cup WaitingIn(w.list) = WaitingIn(v.list) \cup {}
        BY <2>1, <2>3, <1>3, <1>4
    <2> QED
        BY <2>4, <1>3, <1>4 DEF Moves
<1> QED
    BY <1>6, <1>7, <1>8 DEF w

(* The flush keeps the file in order too, and nothing waits after it.      *)
LEMMA FlushesInOrder ==
    ASSUME NEW c \in Nat, NEW v \in ViewOf(1 .. c), Orderly(v),
           NEW cd, HoldsCvs(cd, c, PicturesIn(v.list)), \A id \in 1 .. c : cd[id].poc \in Nat,
           LogInOrder(cd, v.log), Past(cd, c, v)
    PROVE  LET w == FlushOutput(v)
           IN  /\ w.list = <<>> /\ (v.list # <<>> => w.last = NoPoc) /\ LogInOrder(cd, w.log)
               /\ \A k \in DOMAIN w.log :
                     w.log[k] \in 1 .. c /\ (cd[w.log[k]].start < cd[c].start
                                              \/ cd[w.log[k]].start = cd[c].start)
               /\ Moves(w, v, {})
<1> DEFINE w == FlushOutput(v)
           S == WaitAt(v.list)
           ids == IdsAt(v.list, S)
<1>1. v.list \in Seq(PicturesOf(1 .. c)) /\ v.last \in Int /\ v.log \in Seq(Nat)
    BY ViewFields
<1>2. \A k \in DOMAIN v.log :
          v.log[k] \in 1 .. c /\ (cd[v.log[k]].start < cd[c].start
                                   \/ cd[v.log[k]].start = cd[c].start)
    BY DEF Past, NotAbove
<1>3. CASE v.list = <<>>
    <2>1. w = v
        BY <1>3 DEF FlushOutput
    <2>2. WaitingIn(w.list) = WaitingIn(v.list) \cup {} /\ w.log = v.log
        BY <2>1
    <2> HIDE DEF w
    <2>3. Moves(w, v, {})
        BY <2>2, <1>1, MovesUnwritten
    <2> QED
        BY <2>1, <2>3, <1>2, <1>3 DEF w
<1>4. CASE v.list # <<>>
    <2>1. w.list = <<>> /\ w.last = NoPoc /\ w.log = v.log \o ids
        BY <1>4 DEF FlushOutput, WaitAt
    <2> HIDE DEF w
    <2>2. S \in SUBSET WaitAt(v.list)
        OBVIOUS
    <2> HIDE DEF S
    <2>3. /\ ids \in Seq(Nat) /\ LogInOrder(cd, ids)
          /\ WrittenIn(ids) = {v.list[i].id : i \in S}
          /\ \A k \in DOMAIN ids : \E i \in S :
                /\ ids[k] = v.list[i].id /\ ids[k] \in 1 .. c
                /\ cd[ids[k]].start = cd[c].start /\ cd[ids[k]].poc = v.list[i].poc
        <3> DEFINE list == v.list
        <3>1. /\ list \in Seq(PicturesOf(1 .. c)) /\ InOrder(list)
              /\ HoldsCvs(cd, c, PicturesIn(list)) /\ S \in SUBSET WaitAt(list)
            BY <1>1, <2>2 DEF Orderly
        <3> HIDE DEF list
        <3>2. LET b == IdsAt(list, S)
             IN  /\ b \in Seq(Nat) /\ LogInOrder(cd, b)
                 /\ WrittenIn(b) = {list[i].id : i \in S}
                 /\ \A k \in DOMAIN b : \E i \in S :
                       /\ b[k] = list[i].id /\ b[k] \in 1 .. c
                       /\ cd[b[k]].start = cd[c].start /\ cd[b[k]].poc = list[i].poc
            BY <3>1, BatchInOrder
        <3> QED
            BY <3>2 DEF list
    <2> HIDE DEF ids
    <2>4. \A k \in DOMAIN ids :
              /\ ids[k] \in 1 .. c /\ cd[ids[k]].start = cd[c].start
              /\ cd[ids[k]].poc > v.last
        BY <2>2, <2>3 DEF Orderly
    <2>5. LogInOrder(cd, w.log)
        <3>1. \A j \in DOMAIN v.log, k \in DOMAIN ids : PrecedesIn(cd, v.log[j], ids[k])
            <4> TAKE j \in DOMAIN v.log, k \in DOMAIN ids
            <4>1. NotAbove(cd, c, v.log[j], v.last)
                BY DEF Past
            <4>2. cd[v.log[j]].poc \in Nat /\ cd[ids[k]].poc \in Nat
                BY <4>1, <2>4 DEF NotAbove
            <4> QED
                BY <4>1, <4>2, <1>1, <2>4 DEF NotAbove, PrecedesIn
        <3> QED
            BY <3>1, <1>1, <2>1, <2>3, AppendedInOrder
    <2>6. \A k \in DOMAIN w.log :
              w.log[k] \in 1 .. c /\ (cd[w.log[k]].start < cd[c].start
                                       \/ cd[w.log[k]].start = cd[c].start)
        <3> TAKE k \in DOMAIN w.log
        <3>1. \/ k \in DOMAIN v.log /\ w.log[k] = v.log[k]
              \/ \E l \in DOMAIN ids : w.log[k] = ids[l]
            <4>1. \A n \in DOMAIN (v.log \o ids) :
                      \/ n \in DOMAIN v.log /\ (v.log \o ids)[n] = v.log[n]
                      \/ \E l \in DOMAIN ids : (v.log \o ids)[n] = ids[l]
                BY <1>1, <2>3, Appended
            <4>2. w.log = v.log \o ids
                BY <2>1
            <4> QED
                BY <4>1, <4>2, Zenon
        <3> QED
            BY <3>1, <1>2, <2>4
    <2>7. Moves(w, v, {})
        <3>1. WaitingIn(v.list) = {v.list[i].id : i \in S}
            BY DEF WaitingIn, WaitAt, S
        <3>2. WaitingIn(w.list) = {}
            BY <2>1 DEF WaitingIn
        <3>3. WrittenIn(ids) \cup WaitingIn(w.list) = WaitingIn(v.list) \cup {}
            BY <3>1, <3>2, <2>3
        <3> QED
            BY <3>3, <2>1, <2>3 DEF Moves
    <2> QED
        BY <2>1, <2>5, <2>6, <2>7 DEF w
<1> QED
    BY <1>3, <1>4

----------------------------------------------------------------------------
(* The output side of a state of the decoder: the list and the file are in *)
(* order, and at most one buffer more than the SPS says is in use.         *)
Delivers(cd, c, v) ==
    /\ Orderly(v) /\ Len(v.list) <= MaxDec + 1 /\ v.last >= NoPoc
    /\ LogInOrder(cd, v.log) /\ Past(cd, c, v)

(* After an output pass no more pictures wait than may.                    *)
Settled(v) == ~Over(WaitPocs(v.list), RefPocs(v.list))

(* An output pass keeps all this, settles the view, and takes no picture   *)
(* above a point where the pictures above it fit.                          *)
Passes(w, v, refs) ==
    /\ Settled(w) /\ Moves(w, v, {}) /\ v.last <= w.last /\ w.last \in Int
    /\ Settled(v) => WaitPocs(w.list) = WaitPocs(v.list) /\ w.last = v.last
    /\ \A m \in Int :
          v.last <= m /\ ~Over(Above(WaitPocs(v.list), m), refs) =>
              /\ w.last <= m
              /\ \A l \in Int :
                    l >= m => Above(WaitPocs(w.list), l) = Above(WaitPocs(v.list), l)

LEMMA PassDelivers ==
    ASSUME NEW c \in Nat, NEW cd, Placed(cd, c), \A id \in 1 .. c : cd[id].poc \in Nat,
           NEW v \in ViewOf(1 .. c), Delivers(cd, c, v), Holds(cd, c, PicturesIn(v.list))
    PROVE  Delivers(cd, c, WriteOutput(v)) /\ Passes(WriteOutput(v), v, Refs(cd, c))
<1> DEFINE w == WriteOutput(v)
           W == WaitPocs(v.list)
           R == RefPocs(v.list)
           B == Bumps(W, R)
<1>1. v.list \in Seq(PicturesOf(1 .. c)) /\ v.last \in Int
    BY ViewFields
<1>2. /\ Orderly(v) /\ OnePoc(v.list) /\ LogInOrder(cd, v.log) /\ Past(cd, c, v)
      /\ Len(v.list) <= MaxDec + 1 /\ v.last >= NoPoc
    BY DEF Delivers, Orderly
<1>3. LogInOrder(cd, w.log) /\ Past(cd, c, w) /\ Moves(w, v, {})
    BY <1>2, WritesInOrder DEF Holds
<1>4. Passed(w, v)
    <2> DEFINE D == 1 .. c
    <2>1. D \in SUBSET Nat /\ v \in ViewOf(D)
        OBVIOUS
    <2> HIDE DEF D
    <2> QED
        BY <2>1, <1>2, WriteOutputPasses
<1>5. R = Refs(cd, c) /\ IsFiniteSet(R) /\ Cardinality(R) <= MaxDec
    BY <1>1, <1>2, RefPocsHeld DEF Holds
<1>6. W \in SUBSET Int /\ IsFiniteSet(W)
    <2>1. WaitAt(v.list) \in SUBSET DOMAIN v.list
        BY DEF WaitAt
    <2> QED
        BY <2>1, <1>1, <1>2, PocCount DEF WaitPocs
<1>7. /\ B \in SUBSET W
      /\ \A m \in Int : ~Over({x \in W : x > m}, R) => \A x \in B : x <= m
      /\ ~Over(W, R) => B = {}
      /\ ~Over(W \ B, R)
    <2> HIDE DEF W, R, B
    <2> QED
        BY <1>5, <1>6, BumpsLowest, ZenonT(40) DEF B
<1> HIDE DEF w
<1>8. /\ Orderly(w) /\ Len(w.list) = Len(v.list)
      /\ WaitPocs(w.list) = W \ B
      /\ w.last \in {v.last} \cup B /\ v.last <= w.last
    BY <1>4 DEF Passed
<1>9. RefPocs(w.list) = R
    <2>1. Holds(cd, c, PicturesIn(w.list))
        BY <1>1, HoldsWritten DEF w
    <2>2. w.list \in Seq(PicturesOf(1 .. c))
        <3> DEFINE D == 1 .. c
        <3>1. D \in SUBSET Nat /\ v \in ViewOf(D)
            OBVIOUS
        <3> HIDE DEF D
        <3>2. w \in ViewOf(D)
            BY <3>1, WriteOutputType DEF w, Outputs
        <3> QED
            BY <3>2, ViewFields DEF D
    <2> QED
        BY <2>1, <2>2, <1>5, <1>8, RefPocsHeld DEF Holds, Orderly
<1> HIDE DEF W, R, B
<1>10. Settled(w)
    BY <1>7, <1>8, <1>9 DEF Settled
<1>11. Settled(v) => WaitPocs(w.list) = W /\ w.last = v.last
    BY <1>7, <1>8 DEF Settled, W, R
<1>12. ASSUME NEW m \in Int, v.last <= m, ~Over(Above(W, m), R)
       PROVE  /\ w.last <= m
              /\ \A l \in Int : l >= m => Above(WaitPocs(w.list), l) = Above(W, l)
    <2>1. \A x \in B : x <= m
        BY <1>7, <1>12 DEF Above
    <2>2. ASSUME NEW l \in Int, l >= m PROVE Above(W \ B, l) = Above(W, l)
        <3>1. \A x \in W : x > l => x \notin B
            BY <2>1, <2>2, <1>6
        <3> QED
            BY <3>1 DEF Above
    <2> QED
        BY <2>1, <2>2, <1>8, <1>12
<1>13. Delivers(cd, c, w) /\ w.last \in Int
    <2>1. w.last \in Int
        BY <1>1, <1>6, <1>7, <1>8
    <2> QED
        BY <2>1, <1>1, <1>2, <1>3, <1>8 DEF Delivers, NoPoc
<1>14. Passes(w, v, Refs(cd, c))
    BY <1>3, <1>5, <1>8, <1>10, <1>11, <1>12, <1>13 DEF Passes, W
<1> QED
    BY <1>13, <1>14 DEF w

(* finishPicture keeps it, and the current picture waits if it is shown.   *)
FinishedView(w, v, c, output) ==
    /\ w \in ViewOf(1 .. c) /\ Holds(coded, c, PicturesIn(w.list))
    /\ Delivers(coded, c, w) /\ w.last = v.last
    /\ WaitPocs(w.list) = WaitPocs(v.list) \cup (IF output THEN {coded[c].poc} ELSE {})
    /\ Moves(w, v, IF output THEN {c} ELSE {})

LEMMA FinishDelivers ==
    ASSUME NEW c \in Nat \ {0}, \A id \in 1 .. c : Lawful(coded, id) /\ coded[id].poc \in Nat,
           NEW v \in ViewOf(1 .. c), Distinct(v.list),
           Delivers(coded, c, v), Holds(coded, c, PicturesIn(v.list)), c \notin WaitingIn(v.list),
           NEW out, NEW clvs, NEW output \in BOOLEAN,
           output = (out /\ ~(clvs /\ coded[c].type = "RASL")),
           output => coded[c].poc > v.last
    PROVE  FinishedView(Finished(v, c, out, clvs), v, c, output)
<1> DEFINE list == FinishPicture(v.list, c, output)
           w == Finished(v, c, out, clvs)
<1>1. /\ v.list \in Seq(PicturesOf(1 .. c)) /\ v.last \in Int /\ v.log \in Seq(Nat)
      /\ c \in 1 .. c
    BY ViewFields
<1>2. w = [v EXCEPT !.list = list]
    BY DEF Finished
<1>3. list \in Seq(PicturesOf(1 .. c))
    BY <1>1, FinishPictureType
<1>4. Holds(coded, c, PicturesIn(list))
    BY <1>1, HoldsFinished
<1>5. PICK at \in DOMAIN v.list : v.list[at].id = c /\ v.list[at].poc = coded[c].poc
    <2>1. HoldsCvs(coded, c, PicturesIn(v.list)) /\ HoldsRefs(coded, c, PicturesIn(v.list))
        BY DEF Holds
    <2>2. PICK e \in PicturesIn(v.list) : e.poc = coded[c].poc
        BY <2>1 DEF HoldsRefs, Refs
    <2>3. e.id \in 1 .. c /\ coded[e.id].start = coded[c].start /\ coded[e.id].poc = coded[c].poc
        BY <2>1, <2>2 DEF HoldsCvs
    <2>4. e.id = c
        BY <2>3, <1>1, OnePocEach
    <2> QED
        BY <2>2, <2>4 DEF PicturesIn
<1>6. OnePoc(v.list) /\ InOrder(v.list) /\ \A i \in WaitAt(v.list) : v.list[i].poc > v.last
    BY DEF Delivers, Orderly
<1>7. ~v.list[at].needed
    BY <1>5 DEF WaitingIn
<1> HIDE DEF list, w
<1>8. FinishedList(list, v.list, c, coded[c].poc, output)
    <2>1. FinishedList(FinishPicture(v.list, v.list[at].id, output), v.list,
                       v.list[at].id, v.list[at].poc, output)
        <3> DEFINE l == v.list
        <3>1. l \in Seq(PicturesOf(1 .. c)) /\ OnePoc(l) /\ at \in DOMAIN l /\ ~l[at].needed /\ Distinct(l)
            BY <1>1, <1>6, <1>7
        <3> HIDE DEF l
        <3>2. FinishedList(FinishPicture(l, l[at].id, output), l, l[at].id, l[at].poc, output)
            BY <3>1, FinishOrders
        <3> QED
            BY <3>2 DEF l
    <2> QED
        BY <2>1, <1>5 DEF list
<1>9. w \in ViewOf(1 .. c) /\ w.list = list /\ w.last = v.last /\ w.log = v.log
    BY <1>2, <1>3 DEF ViewOf
<1>10. WaitPocs(list) = WaitPocs(v.list) \cup (IF output THEN {coded[c].poc} ELSE {})
    BY <1>8 DEF FinishedList
<1>11. Orderly(w)
    <2>1. \A x \in WaitPocs(v.list) : x > v.last
        BY <1>6 DEF WaitPocs, PocsAt
    <2>2. \A x \in WaitPocs(list) : x > v.last
        BY <2>1, <1>10
    <2>3. \A i \in WaitAt(list) : list[i].poc > v.last
        BY <2>2 DEF WaitPocs, PocsAt
    <2>4. OnePoc(list) /\ InOrder(list)
        BY <1>8 DEF FinishedList
    <2> QED
        BY <2>3, <2>4, <1>9 DEF Orderly
<1>12. Delivers(coded, c, w)
    <2>1. Len(list) = Len(v.list)
        BY <1>8 DEF FinishedList
    <2> QED
        BY <2>1, <1>9, <1>11 DEF Delivers, Past
<1>13. Moves(w, v, IF output THEN {c} ELSE {})
    <2>1. WaitingIn(w.list) = WaitingIn(v.list) \cup (IF output THEN {c} ELSE {})
        BY <1>8, <1>9 DEF FinishedList
    <2> QED
        BY <2>1, <1>1, <1>9, MovesUnwritten
<1> QED
    BY <1>4, <1>9, <1>10, <1>12, <1>13 DEF w, FinishedView

(* The picture that the stream goes on with is one that the author's       *)
(* decoder can output in order, after what it has done for the earlier     *)
(* pictures of the sequence.                                               *)
LEMMA NextPictureAuthor ==
    ASSUME Conforming, StreamType, CRules, NextPicture
    PROVE  LET n   == Len(coded')
               pic == coded'[n]
           IN  /\ enc' = AuthorDecodes(IF pic.start = n THEN NothingWaits ELSE enc, pic, pic.out)
               /\ enc'.order /\ n <= PicBound
<1> DEFINE n == Len(coded)
<1>1. PICK pic \in NextPictures :
          coded' = Append(coded, pic) /\ enc' = Author(pic)
    BY DEF NextPicture
<1>2. coded \in Seq(CodedPicture) /\ n \in Nat /\ DOMAIN coded = 1 .. n
    BY DEF StreamType
<1>3. pic \in CodedPicture
    BY <1>1, NextPicturesCoded
<1>4. /\ PocRules(pic) /\ Author(pic).order /\ n < PicBound
      /\ \E type \in {t \in Types : MayFollow(t)}, poc \in Pocs, rpl \in SUBSET Pocs, out \in BOOLEAN :
             pic = CodedAs(type, poc, rpl, out)
    BY DEF NextPictures
<1>5. /\ MayFollow(pic.type) /\ pic.out \in BOOLEAN
      /\ pic.start = IF StartOfCvs(pic.type) THEN n + 1 ELSE coded[n].start
      /\ pic.irap = IF pic.type \in IrapTypes THEN n + 1 ELSE coded[n].irap
    BY <1>4 DEF CodedAs
<1>6. Len(coded') = n + 1 /\ coded'[n + 1] = pic
    BY <1>1, <1>2, <1>3
<1> HIDE DEF n
<1>7. StartOfCvs(pic.type) => pic.type \in IrapTypes
    BY <1>5 DEF StartOfCvs, MayFollow, IrapTypes, Conforming
<1>8. ~StartOfCvs(pic.type) => pic.start <= n /\ pic.start # n + 1 /\ ~(pic.start > n)
    <2> HAVE ~StartOfCvs(pic.type)
    <2>1. n # 0
        BY <1>2 DEF StartOfCvs, n
    <2>2. n \in 1 .. n /\ Lawful(coded, n)
        BY <2>1, <1>2 DEF CRules, n
    <2>3. coded[n].start \in 1 .. n
        BY <2>2 DEF Lawful, Placed
    <2> QED
        BY <2>3, <1>2, <1>5
<1>9. (pic.start > n) = (pic.start = n + 1)
    BY <1>2, <1>5, <1>8
<1>10. ~(pic.type = "RASL" /\ StartsCvs(pic.irap))
    <2> SUFFICES ASSUME pic.type = "RASL", StartsCvs(pic.irap) PROVE FALSE
        OBVIOUS
    <2>1. pic.type \notin IrapTypes /\ pic.type \in LeadingTypes /\ pic.type # "CRA" /\ pic.type # "TRAIL"
        BY DEF IrapTypes, LeadingTypes
    <2>2. ~(pic.start > n) /\ pic.irap = coded[n].irap
        BY <2>1, <1>5, <1>7, <1>8
    <2>3. ~StartsCvs(coded[n].irap)
        BY <2>1, <2>2, <1>4 DEF PocRules, Conforming, n
    <2> QED
        BY <2>2, <2>3
<1>11. enc' = AuthorDecodes(IF pic.start = n + 1 THEN NothingWaits ELSE enc, pic, pic.out)
    <2>1. (pic.out /\ ~(pic.type = "RASL" /\ StartsCvs(pic.irap))) = pic.out
        BY <1>5, <1>10
    <2> QED
        BY <2>1, <1>1, <1>9 DEF Author, n
<1>12. n + 1 <= PicBound
    BY <1>2, <1>4, StreamAssumption
<1> QED
    BY <1>1, <1>4, <1>6, <1>11, <1>12

----------------------------------------------------------------------------
(* The invariant.  The list and the file are in order between any two      *)
(* iterations of the loop, and no more pictures wait than may.             *)
OView ==
    /\ ~done => Delivers(coded, cur, view) /\ Settled(view)
    /\ done => view.list = <<>> /\ LogInOrder(coded, view.log)
    /\ done => \A k \in DOMAIN view.log : view.log[k] \in 1 .. cur
    /\ cur = 0 => view = [list |-> <<>>, last |-> NoPoc, log |-> <<>>]

(* The picture that is being decoded does not wait yet; and it is not late. *)
OCurrent ==
    Unfinished =>
        /\ cur \notin Waiting
        /\ nal.kind # "EOF" /\ coded[cur].out => coded[cur].poc > view.last

(* Above the last POC that the author's decoder has written, it waits for  *)
(* the same pictures as the decoder does with the one it is decoding.      *)
Trails(pocs, low, author) ==
    author.last \in Int /\ low <= author.last /\ author.wait = Above(pocs, author.last)

New(cd, c) == IF cd[c].out THEN {cd[c].poc} ELSE {}

InStep(cd, c, v, new, author) ==
    /\ Trails(WaitPocs(v.list) \cup new, v.last, author)
    /\ ~Over(author.wait, Refs(cd, c))

AtStep(author) ==
    InStep(coded, cur, view, IF Unfinished THEN New(coded, cur) ELSE {}, author)

OAuthor ==
    nal.kind = "SLICE" =>
        /\ nal.addr > 0 => AtStep(enc)
        /\ nal.addr = 0 =>
              LET n   == Len(coded)
                  pic == coded[n]
              IN  /\ enc.order
                  /\ \E author :
                        /\ IF pic.start = n
                           THEN author.wait = {} /\ author.last = NoPoc
                           ELSE AtStep(author)
                        /\ enc = AuthorDecodes(author, pic, pic.out)

OInv == CInv /\ OView /\ OCurrent /\ OAuthor /\ Len(coded) <= PicBound

(* What a step of the decoder does to the output: what it writes has       *)
(* waited, or is the picture that it finishes.                             *)
Arrived ==
    IF ~Unfinished' /\ (Unfinished \/ cur' # cur) /\ coded'[cur'].out THEN {cur'} ELSE {}

OStep ==
    \E new \in SUBSET {cur'} :
        /\ Moves(view', view, new) /\ \A id \in new : id \notin Waiting
        /\ ~loopFiltered /\ nal.kind # "EOS" => new = Arrived

(* The parts of the invariant that the steps use. *)
LEMMA OInvFields ==
    ASSUME OInv
    PROVE  /\ CInv /\ OView /\ OCurrent /\ OAuthor /\ Len(coded) <= PicBound
           /\ coded \in Seq(CodedPicture) /\ Len(coded) \in Nat /\ DOMAIN coded = 1 .. Len(coded)
           /\ \A id \in 1 .. Len(coded) : Lawful(coded, id) /\ coded[id] \in CodedPicture
           /\ cur \in Nat /\ cur <= Len(coded)
           /\ \A id \in 1 .. cur : Lawful(coded, id) /\ coded[id] \in CodedPicture
           /\ \A id \in 1 .. cur : coded[id].poc \in Nat /\ coded[id].out \in BOOLEAN
           /\ view \in ViewOf(1 .. cur) /\ Distinct(view.list)
           /\ view.list \in Seq(PicturesOf(1 .. cur)) /\ view.log \in Seq(Nat) /\ view.last \in Int
           /\ firstInPic \in BOOLEAN /\ firstInSeq \in BOOLEAN
<1>1. CInv /\ OView /\ OCurrent /\ OAuthor /\ Len(coded) <= PicBound
    BY DEF OInv
<1>2. \A id \in 1 .. cur : coded[id].poc \in Nat /\ coded[id].out \in BOOLEAN
    BY <1>1, CInvFields DEF CodedPicture
<1>3. view.log \in Seq(Nat) /\ view.last \in Int
    BY <1>1, CInvFields, ViewFields
<1> QED
    BY <1>1, <1>2, <1>3, CInvFields

(* What is said of the output does not depend on the pictures that follow. *)
LEMMA DeliversStays ==
    ASSUME NEW c \in Nat, NEW cd, NEW old, SameUpTo(c, cd, old),
           NEW v, Delivers(old, c, v)
    PROVE  Delivers(cd, c, v)
<1>1. \A k \in DOMAIN v.log : v.log[k] \in 1 .. c /\ cd[v.log[k]] = old[v.log[k]] /\ cd[c] = old[c]
    <2> SUFFICES ASSUME NEW k \in DOMAIN v.log
                 PROVE  v.log[k] \in 1 .. c /\ cd[v.log[k]] = old[v.log[k]] /\ cd[c] = old[c]
        OBVIOUS
    <2>1. v.log[k] \in 1 .. c
        BY DEF Delivers, Past, NotAbove
    <2>2. c \in 1 .. c
        BY <2>1
    <2> QED
        BY <2>1, <2>2 DEF SameUpTo
<1>2. LogInOrder(cd, v.log)
    <2> SUFFICES ASSUME NEW j \in DOMAIN v.log, NEW k \in DOMAIN v.log, j < k
                 PROVE  PrecedesIn(cd, v.log[j], v.log[k])
        BY DEF LogInOrder
    <2>1. PrecedesIn(old, v.log[j], v.log[k])
        BY DEF Delivers, LogInOrder
    <2>2. cd[v.log[j]] = old[v.log[j]] /\ cd[v.log[k]] = old[v.log[k]]
        BY <1>1
    <2> QED
        BY <2>1, <2>2, Zenon DEF PrecedesIn
<1>3. Past(cd, c, v)
    BY <1>1, Zenon DEF Delivers, Past, NotAbove
<1> QED
    BY <1>2, <1>3 DEF Delivers

(* A settled list of which every picture waits or is a reference is no     *)
(* longer than the SPS says.                                               *)
LEMMA FullListFits ==
    ASSUME NEW D, NEW list \in Seq(PicturesOf(D)), OnePoc(list),
           ~Over(WaitPocs(list), RefPocs(list)),
           \A i \in DOMAIN list : list[i].needed \/ list[i].ref
    PROVE  Len(list) <= MaxDec
<1> DEFINE all == PocsAt(list, DOMAIN list)
<1>1. Cardinality(all) = Cardinality(DOMAIN list)
    BY PocCount
<1>2. all = WaitPocs(list) \cup RefPocs(list)
    <2>1. WaitAt(list) \cup RefAt(list) = DOMAIN list
        BY DEF WaitAt, RefAt
    <2> QED
        BY <2>1 DEF WaitPocs, RefPocs, PocsAt
<1>3. Len(list) \in Nat /\ DOMAIN list = 1 .. Len(list) /\ MaxDec \in Nat
    BY MaxDecAssumption
<1>4. Cardinality(DOMAIN list) = Len(list)
    BY <1>3, FS_Interval
<1> HIDE DEF all
<1>5. ~(Cardinality(all) > MaxDec)
    BY <1>2, Zenon DEF Over
<1> QED
    BY <1>1, <1>3, <1>4, <1>5

(* The flush before the first picture of a further sequence: everything    *)
(* that was written belongs to an earlier one.                             *)
LEMMA FlushDelivers ==
    ASSUME OInv, ~done
    PROVE  LET u == FlushOutput(view)
           IN  /\ u \in ViewOf(1 .. cur) /\ u.list = <<>> /\ u.last = NoPoc
               /\ LogInOrder(coded, u.log) /\ Moves(u, view, {})
               /\ \A k \in DOMAIN u.log :
                     u.log[k] \in 1 .. cur /\ coded[u.log[k]].start <= coded[cur].start
<1> USE OInvFields
<1> DEFINE u == FlushOutput(view)
           D == 1 .. cur
<1>1. D \in SUBSET Nat
    OBVIOUS
<1>2. u \in ViewOf(D) /\ u.list = <<>>
    <2> HIDE DEF D, u
    <2>1. view \in ViewOf(D)
        BY DEF D
    <2> QED
        BY <1>1, <2>1, FlushOutputType DEF Outputs, u
<1>3. CASE cur = 0
    <2>1. view.list = <<>> /\ view.last = NoPoc /\ view.log = <<>>
        BY <1>3 DEF OView
    <2>2. u = view
        BY <2>1 DEF FlushOutput
    <2>3. LogInOrder(coded, u.log) /\ DOMAIN u.log = {}
        BY <2>1, <2>2 DEF LogInOrder
    <2>4. Moves(u, view, {})
        BY <2>2, MovesUnwritten, Zenon
    <2> HIDE DEF u
    <2> QED
        BY <1>2, <2>1, <2>2, <2>3, <2>4 DEF u
<1>4. CASE cur # 0
    <2>1. Delivers(coded, cur, view) /\ Holds(coded, cur, PicturesIn(view.list))
        BY <1>4, CInvFields DEF OView, CList
    <2>2. view.list # <<>>
        <3>1. coded[cur].poc \in Refs(coded, cur)
            BY DEF Refs
        <3>2. PicturesIn(view.list) # {}
            BY <3>1, <2>1 DEF Holds, HoldsRefs
        <3> QED
            BY <3>2 DEF PicturesIn
    <2>3. /\ u.last = NoPoc /\ LogInOrder(coded, u.log) /\ Moves(u, view, {})
          /\ \A k \in DOMAIN u.log :
                u.log[k] \in 1 .. cur /\ (coded[u.log[k]].start < coded[cur].start
                                          \/ coded[u.log[k]].start = coded[cur].start)
        <3>1. /\ Orderly(view) /\ HoldsCvs(coded, cur, PicturesIn(view.list))
              /\ LogInOrder(coded, view.log) /\ Past(coded, cur, view)
            BY <2>1 DEF Delivers, Holds
        <3>2. LET w == FlushOutput(view)
              IN  /\ w.list = <<>> /\ (view.list # <<>> => w.last = NoPoc) /\ LogInOrder(coded, w.log)
                  /\ \A k \in DOMAIN w.log :
                        w.log[k] \in 1 .. cur /\ (coded[w.log[k]].start < coded[cur].start
                                                  \/ coded[w.log[k]].start = coded[cur].start)
                  /\ Moves(w, view, {})
            BY <3>1, FlushesInOrder
        <3> QED
            BY <3>2, <2>2 DEF u
    <2>4. \A k \in DOMAIN u.log :
              u.log[k] \in 1 .. cur /\ coded[u.log[k]].start <= coded[cur].start
        <3> HIDE DEF u
        <3>1. cur \in 1 .. cur
            BY <1>4
        <3>2. \A id \in 1 .. cur : coded[id].start \in 1 .. id
            BY DEF Lawful, Placed
        <3>3. \A id \in 1 .. cur : coded[id].start \in Int
            BY <3>2
        <3>4. ASSUME NEW a \in Int, NEW b \in Int, a < b \/ a = b PROVE a <= b
            BY <3>4
        <3>5. \A a, b \in 1 .. cur :
                  coded[a].start < coded[b].start \/ coded[a].start = coded[b].start
                      => coded[a].start <= coded[b].start
            BY <3>3, <3>4
        <3> QED
            BY <2>3, <3>1, <3>5, Zenon
    <2> HIDE DEF u
    <2> QED
        BY <1>2, <2>3, <2>4 DEF u
<1> QED
    BY <1>3, <1>4

(* The first slice of a picture takes a buffer: what waits stays, unless   *)
(* the picture starts a sequence, when all of it has been flushed.         *)
LEMMA FirstSliceStarts ==
    ASSUME OInv, nal.kind = "SLICE", firstInPic,
           NEW w, w = [Prepared EXCEPT !.list = StartPicture(Prepared.list, nal.id, Pic.poc,
                                                             irap.poc, Pic.rpl)]
    PROVE  /\ Delivers(coded, nal.id, w) /\ Moves(w, view, {}) /\ nal.id \notin WaitingIn(w.list)
           /\ IF coded[nal.id].start = nal.id
              THEN WaitPocs(w.list) = {} /\ w.last = NoPoc
              ELSE WaitPocs(w.list) = WaitPocs(view.list) /\ w.last = view.last
<1> USE OInvFields
<1> DEFINE c == nal.id
           u == Prepared
           list == StartPicture(u.list, c, Pic.poc, irap.poc, Pic.rpl)
<1>1. /\ c = Len(coded) /\ c \in Nat \ {0} /\ Pic = coded[c] /\ cur = c - 1 /\ ~done
      /\ \A id \in 1 .. c : Lawful(coded, id) /\ coded[id] \in CodedPicture
    BY SliceAhead
<1>2. c \in 1 .. c /\ Placed(coded, c) /\ Pic.poc \in Nat /\ irap.poc \in Int
    BY <1>1, SMTT(30) DEF Lawful, CodedPicture, CInv, IInv, ControlType, IrapRecord
<1>3. /\ u = IF coded[c].start = c THEN FlushOutput(view) ELSE view
      /\ coded[c].start = c => u.list = <<>>
    BY NothingDropped
<1>4. u \in ViewOf(1 .. cur) /\ u \in ViewOf(1 .. c)
    <2>1. CInv
        OBVIOUS
    <2>2. u \in ViewOf(1 .. cur)
        BY <2>1, CInvFields, PreparedCarries
    <2>3. cur \in Nat /\ c \in Nat /\ cur <= c
        BY <1>1
    <2> HIDE DEF u, c
    <2> QED
        BY <2>2, <2>3, Grows
<1>5. /\ list \in Seq(PicturesOf(1 .. c)) /\ Distinct(list)
      /\ Holds(coded, c, PicturesIn(list)) /\ w.list = list
    BY <1>1, SliceDecoded, Zenon
<1>6. w.last = u.last /\ w.log = u.log
    BY <1>4 DEF ViewOf
<1>7. OnePoc(list)
    BY <1>1, <1>5, OnePocHeld DEF Holds
<1>8. StartedList(list, u.list)
    <2> DEFINE D == 1 .. c
    <2>1. u.list \in Seq(PicturesOf(D)) /\ c \in D /\ D \in SUBSET Nat
        BY <1>1, <1>2, <1>4, ViewFields
    <2> HIDE DEF u, D
    <2>2. StartedList(StartPicture(u.list, c, Pic.poc, irap.poc, Pic.rpl), u.list)
        BY <2>1, <1>2, StartOrders
    <2> QED
        BY <2>2
<1> HIDE DEF list, u
<1>9. c \notin WaitingIn(w.list)
    <2>1. WaitingIn(u.list) \subseteq 1 .. cur
        BY <1>4, ViewFields, SeqOfPictures, PictureFields DEF WaitingIn
    <2> QED
        BY <2>1, <1>1, <1>5, <1>8 DEF StartedList
<1>10. u.list \in Seq(PicturesOf(1 .. c)) /\ Len(u.list) \in Nat /\ MaxDec \in Nat /\ u.last \in Int
    BY <1>4, ViewFields, MaxDecAssumption
<1>11. CASE coded[c].start = c
    <2>1. u = FlushOutput(view) /\ u.list = <<>>
        BY <1>3, <1>11
    <2>2. /\ u.last = NoPoc /\ LogInOrder(coded, u.log) /\ Moves(u, view, {})
          /\ \A k \in DOMAIN u.log :
                u.log[k] \in 1 .. cur /\ coded[u.log[k]].start <= coded[cur].start
        BY <1>1, <2>1, FlushDelivers
    <2>3. WaitAt(u.list) = {} /\ WaitingIn(u.list) = {} /\ Len(u.list) = 0
        BY <2>1 DEF WaitAt, WaitingIn
    <2>4. WaitPocs(list) = {} /\ WaitingIn(list) = {} /\ WaitAt(list) = {}
        BY <2>3, <1>8 DEF StartedList, WaitPocs, PocsAt
    <2>5. Orderly(w)
        BY <2>4, <1>5, <1>7 DEF Orderly, InOrder
    <2>6. Len(w.list) <= MaxDec + 1
        <3> DEFINE m == Len(u.list)
                   n == Len(list)
        <3>1. (n = m \/ n = m + 1) /\ m = 0 /\ Len(w.list) = n
            BY <2>3, <1>5, <1>8 DEF StartedList
        <3> HIDE OInvFields DEF m, n
        <3>2. n <= MaxDec + 1
            BY <3>1, <1>10
        <3> QED
            BY <3>1, <3>2
    <2>7. Past(coded, c, w)
        <3> SUFFICES ASSUME NEW k \in DOMAIN u.log
                     PROVE  NotAbove(coded, c, u.log[k], u.last)
            BY <1>6 DEF Past
        <3>1. u.log[k] \in 1 .. cur /\ coded[u.log[k]].start <= coded[cur].start
            BY <2>2
        <3>2. cur \in 1 .. c /\ cur \in 1 .. cur /\ u.log[k] \in 1 .. c
            BY <3>1, <1>1
        <3>3. coded[cur].start \in 1 .. cur /\ coded[u.log[k]].start \in 1 .. u.log[k]
            BY <3>2, <1>1 DEF Lawful, Placed
        <3>4. coded[u.log[k]].start < c
            BY <3>1, <3>2, <3>3, <1>1
        <3> QED
            BY <3>2, <3>4, <1>11 DEF NotAbove
    <2>8. Moves(w, view, {})
        <3>1. Moves(w, u, {})
            <4>1. u.log \in Seq(Nat) /\ WaitingIn(w.list) = WaitingIn(u.list) \cup {}
                BY <1>4, <2>3, <2>4, <1>5, ViewFields
            <4> QED
                BY <4>1, <1>6, MovesUnwritten
        <3>2. Moves(w, view, {} \cup {})
            BY <3>1, <2>2, MovesCompose
        <3> QED
            BY <3>2
    <2> QED
        BY <2>2, <2>4, <2>5, <2>6, <2>7, <2>8, <1>5, <1>6, <1>9, <1>11 DEF Delivers, NoPoc
<1>12. CASE coded[c].start # c
    <2>1. u = view /\ cur # 0 /\ coded[cur].start = coded[c].start
        BY <1>1, <1>3, <1>12, SliceContext
    <2>2. Delivers(coded, cur, view) /\ Settled(view)
        BY <1>1 DEF OView
    <2>3. WaitPocs(list) = WaitPocs(view.list) /\ WaitingIn(list) = WaitingIn(view.list)
        BY <2>1, <1>8 DEF StartedList
    <2>4. Orderly(w)
        <3>1. InOrder(list)
            BY <2>1, <2>2, <1>8 DEF StartedList, Delivers, Orderly
        <3>2. ASSUME NEW i \in WaitAt(list) PROVE list[i].poc > view.last
            <4>1. PICK j \in WaitAt(view.list) : list[i].poc = view.list[j].poc
                BY <2>1, <1>8 DEF StartedList
            <4> QED
                BY <4>1, <2>2 DEF Delivers, Orderly
        <3> QED
            BY <3>1, <3>2, <2>1, <1>5, <1>6, <1>7 DEF Orderly
    <2>5. Len(w.list) <= MaxDec + 1
        <3>1. CASE Len(list) = Len(u.list)
            BY <3>1, <2>1, <2>2, <1>5 DEF Delivers
        <3>2. CASE Len(list) = Len(u.list) + 1 /\ Len(u.list) < MaxDec
            BY <3>2, <1>5, <1>10
        <3>3. CASE Len(list) = Len(u.list) + 1 /\ \A i \in DOMAIN u.list : u.list[i].needed \/ u.list[i].ref
            <4>1. OnePoc(u.list) /\ ~Over(WaitPocs(u.list), RefPocs(u.list))
                BY <2>1, <2>2 DEF Delivers, Orderly, Settled
            <4>2. Len(u.list) <= MaxDec
                BY <3>3, <4>1, <1>10, FullListFits
            <4> QED
                BY <3>3, <4>2, <1>5, <1>10
        <3> QED
            BY <3>1, <3>2, <3>3, <1>8 DEF StartedList
    <2>6. LogInOrder(coded, w.log) /\ Past(coded, c, w)
        <3>1. LogInOrder(coded, w.log)
            BY <2>1, <2>2, <1>6 DEF Delivers
        <3>2. ASSUME NEW k \in DOMAIN view.log
              PROVE  NotAbove(coded, c, view.log[k], view.last)
            <4>1. NotAbove(coded, cur, view.log[k], view.last)
                BY <2>2 DEF Delivers, Past
            <4>2. view.log[k] \in 1 .. c
                BY <4>1, <1>1 DEF NotAbove
            <4> QED
                BY <4>1, <4>2, <2>1 DEF NotAbove
        <3> QED
            BY <3>1, <3>2, <2>1, <1>6 DEF Past
    <2>7. Moves(w, view, {})
        <3>1. WaitingIn(w.list) = WaitingIn(view.list) \cup {}
            BY <2>3, <1>5
        <3> QED
            BY <3>1, <2>1, <1>6, MovesUnwritten
    <2> QED
        BY <2>1, <2>2, <2>3, <2>4, <2>5, <2>6, <2>7, <1>5, <1>6, <1>9, <1>12 DEF Delivers
<1> QED
    BY <1>11, <1>12

(* When the list stands ready for the pass after a slice: at some point    *)
(* below the picture that is decoded, if it is shown, those above fit, and *)
(* with that picture the author's decoder waits for the same ones.         *)
Ready(cd, c, w, e) ==
    /\ \E m \in Int :
          /\ w.last <= m /\ m <= e.last /\ (cd[c].out => m < cd[c].poc)
          /\ ~Over(Above(WaitPocs(w.list), m), Refs(cd, c))
    /\ InStep(cd, c, w, New(cd, c), e)

(* The author's decoder has just decoded the picture.                      *)
LEMMA AuthorReady ==
    ASSUME NEW cd, NEW c, cd[c].poc \in Int, cd[c].out \in BOOLEAN,
           IsFiniteSet(cd[c].rpl), Cardinality(cd[c].rpl) < MaxDec,
           NEW w, w.last \in Int, WaitPocs(w.list) \in SUBSET Int, IsFiniteSet(WaitPocs(w.list)),
           NEW author, Trails(WaitPocs(w.list), w.last, author),
           NEW e, e = AuthorDecodes(author, cd[c], cd[c].out), e.order
    PROVE  Ready(cd, c, w, e)
<1> DEFINE W == WaitPocs(w.list)
           l == author.last
           A == Above(W, l)
           R == Refs(cd, c)
           new == New(cd, c)
           pic == cd[c]
<1>1. l \in Int /\ w.last <= l /\ author.wait = A
    BY DEF Trails
<1>2. A \in SUBSET Int /\ IsFiniteSet(A) /\ \A x \in A : x > l
    <2>1. A \in SUBSET W /\ \A x \in A : x > l
        BY DEF Above
    <2> QED
        BY <2>1, FS_Subset
<1>3. AuthorAllows(e, A, l, pic, pic.out)
    <2> HIDE DEF A, l, pic
    <2>1. pic.poc \in Int /\ pic.out \in BOOLEAN /\ IsFiniteSet(pic.rpl) /\ Cardinality(pic.rpl) < MaxDec
          /\ author.last = l /\ e = AuthorDecodes(author, pic, pic.out)
        BY DEF pic, l
    <2>2. AuthorAllows(AuthorDecodes(author, pic, pic.out), A, l, pic, pic.out)
        BY <1>1, <1>2, <2>1, AuthorStep
    <2> QED
        BY <2>1, <2>2
<1>4. R = pic.rpl \cup {pic.poc} /\ new = IF pic.out THEN {pic.poc} ELSE {}
    BY DEF Refs, New
<1> HIDE DEF A, R, new
<1>5. /\ e.last \in Int
      /\ \E m \in Int : l <= m /\ m <= e.last /\ (pic.out => m < pic.poc) /\ ~Over(Above(A, m), R)
      /\ e.wait = Above(A \cup new, e.last) /\ ~Over(e.wait, R)
    BY <1>3, <1>4 DEF AuthorAllows
<1>6. PICK m \in Int : l <= m /\ m <= e.last /\ (pic.out => m < pic.poc) /\ ~Over(Above(A, m), R)
    BY <1>5
<1> HIDE DEF W, l, pic
<1>7. W \in SUBSET Int /\ w.last \in Int
    BY DEF W
<1>8. Above(A, m) = Above(W, m)
    <2>1. \A x \in W : x > m => x > l
        BY <1>1, <1>6, <1>7
    <2> QED
        BY <2>1 DEF A, Above
<1>9. Above(A \cup new, e.last) = Above(W \cup new, e.last)
    <2>1. l <= e.last
        BY <1>1, <1>5, <1>6
    <2>2. \A x \in W : x > e.last => x > l
        BY <2>1, <1>1, <1>5, <1>7
    <2> QED
        BY <2>2 DEF A, Above
<1>10. w.last <= m /\ w.last <= e.last
    BY <1>1, <1>5, <1>6, <1>7
<1>11. InStep(cd, c, w, new, e)
    BY <1>5, <1>9, <1>10 DEF InStep, Trails, W, R
<1> QED
    BY <1>6, <1>8, <1>10, <1>11 DEF Ready, W, R, pic, new

(* After the pass the picture that is decoded is not late, and the         *)
(* author's decoder still waits for the same ones.                         *)
LEMMA PassReady ==
    ASSUME NEW cd, NEW c, NEW w, Ready(cd, c, w, enc), cd[c].out \in BOOLEAN, cd[c].poc \in Int,
           WaitPocs(w.list) \in SUBSET Int, w.last \in Int,
           NEW u, Passes(u, w, Refs(cd, c))
    PROVE  (cd[c].out => cd[c].poc > u.last) /\ InStep(cd, c, u, New(cd, c), enc)
<1> DEFINE new == New(cd, c)
           R == Refs(cd, c)
<1>1. PICK m \in Int :
          /\ w.last <= m /\ m <= enc.last /\ (cd[c].out => m < cd[c].poc)
          /\ ~Over(Above(WaitPocs(w.list), m), R)
    BY DEF Ready
<1>2. /\ enc.last \in Int /\ enc.wait = Above(WaitPocs(w.list) \cup new, enc.last)
      /\ ~Over(enc.wait, R)
    BY DEF Ready, InStep, Trails
<1> HIDE DEF new, R
<1>3. /\ u.last \in Int /\ u.last <= m
      /\ \A l \in Int : l >= m => Above(WaitPocs(u.list), l) = Above(WaitPocs(w.list), l)
    BY <1>1 DEF Passes, R
<1>4. u.last <= enc.last
    BY <1>1, <1>2, <1>3
<1>5. enc.wait = Above(WaitPocs(u.list) \cup new, enc.last)
    <2>1. Above(WaitPocs(u.list), enc.last) = Above(WaitPocs(w.list), enc.last)
        BY <1>1, <1>2, <1>3
    <2>2. \A S : Above(S \cup new, enc.last) = Above(S, enc.last) \cup Above(new, enc.last)
        BY DEF Above
    <2> QED
        BY <1>2, <2>1, <2>2
<1>6. cd[c].out => cd[c].poc > u.last
    BY <1>1, <1>3
<1> QED
    BY <1>2, <1>3, <1>4, <1>5, <1>6 DEF InStep, Trails, new, R

(* A pass without a new picture leaves the author's decoder in step.       *)
LEMMA PassInStep ==
    ASSUME NEW cd, NEW c, NEW w, NEW author, InStep(cd, c, w, {}, author), w.last \in Int,
           NEW u, Passes(u, w, Refs(cd, c))
    PROVE  InStep(cd, c, u, {}, author)
<1> DEFINE l == author.last
           R == Refs(cd, c)
<1>1. l \in Int /\ w.last <= l /\ author.wait = Above(WaitPocs(w.list), l) /\ ~Over(author.wait, R)
    BY DEF InStep, Trails
<1> HIDE DEF l, R
<1>2. /\ u.last \in Int /\ u.last <= l
      /\ Above(WaitPocs(u.list), l) = Above(WaitPocs(w.list), l)
    BY <1>1 DEF Passes, R
<1> QED
    BY <1>1, <1>2 DEF InStep, Trails, l, R

(* The list and the file before the pass after a slice.                    *)
LEMMA SliceReady ==
    ASSUME OInv, nal.kind = "SLICE", firstInPic \/ nal.addr > 0,
           NEW list, list = IF firstInPic
                            THEN StartPicture(Prepared.list, nal.id, Pic.poc, irap.poc, Pic.rpl)
                            ELSE Prepared.list,
           NEW w, w = [Prepared EXCEPT !.list = list]
    PROVE  /\ w \in ViewOf(1 .. nal.id) /\ Distinct(w.list)
           /\ Holds(coded, nal.id, PicturesIn(w.list))
           /\ Delivers(coded, nal.id, w) /\ Moves(w, view, {}) /\ nal.id \notin WaitingIn(w.list)
           /\ Ready(coded, nal.id, w, enc)
<1> USE OInvFields
<1> DEFINE c == nal.id
<1>1. /\ c = Len(coded) /\ c \in Nat \ {0} /\ Pic = coded[c] /\ ~done
      /\ firstInPic => nal.addr = 0 /\ cur = c - 1
      /\ ~firstInPic => nal.addr > 0 /\ cur = c /\ ~firstInSeq
      /\ c \in 1 .. c
    BY SliceAhead
<1>2. /\ w \in ViewOf(1 .. c) /\ w.list = list /\ list \in Seq(PicturesOf(1 .. c))
      /\ Distinct(w.list) /\ Holds(coded, c, PicturesIn(w.list))
    BY SliceDecoded, Zenon
<1>3. /\ Placed(coded, c) /\ coded[c].poc \in Int /\ coded[c].poc \in Nat /\ coded[c].out \in BOOLEAN
    BY <1>1 DEF Lawful, CodedPicture
<1>4. ASSUME Delivers(coded, c, w)
      PROVE  /\ WaitPocs(w.list) \in SUBSET Int /\ IsFiniteSet(WaitPocs(w.list)) /\ w.last \in Int
             /\ IsFiniteSet(coded[c].rpl) /\ Cardinality(coded[c].rpl) < MaxDec
    <2>1. OnePoc(w.list) /\ WaitAt(w.list) \in SUBSET DOMAIN w.list
        BY <1>4 DEF Delivers, Orderly, WaitAt
    <2>2. IsFiniteSet(WaitPocs(w.list)) /\ WaitPocs(w.list) \in SUBSET Nat
        BY <2>1, <1>2, PocCount DEF WaitPocs
    <2>3. IsFiniteSet(coded[c].rpl)
        BY <2>1, <1>2, <1>3, RefPocsHeld DEF Holds
    <2>4. Cardinality(coded[c].rpl) < MaxDec
        BY <1>3 DEF Placed
    <2>5. w.last \in Int
        BY <1>2, ViewFields
    <2>6. WaitPocs(w.list) \in SUBSET Int
        BY <2>2
    <2> QED
        BY <2>2, <2>3, <2>4, <2>5, <2>6
<1>5. CASE firstInPic
    <2>1. /\ Delivers(coded, c, w) /\ Moves(w, view, {}) /\ c \notin WaitingIn(w.list)
          /\ IF coded[c].start = c
             THEN WaitPocs(w.list) = {} /\ w.last = NoPoc
             ELSE WaitPocs(w.list) = WaitPocs(view.list) /\ w.last = view.last
        <3>1. w = [Prepared EXCEPT !.list = StartPicture(Prepared.list, nal.id, Pic.poc,
                                                         irap.poc, Pic.rpl)]
            BY <1>5
        <3> QED
            BY <3>1, <1>5, FirstSliceStarts
    <2>2. /\ enc.order
          /\ \E author :
                /\ IF coded[c].start = c
                   THEN author.wait = {} /\ author.last = NoPoc
                   ELSE AtStep(author)
                /\ enc = AuthorDecodes(author, coded[c], coded[c].out)
        BY <1>1, <1>5 DEF OAuthor
    <2>3. PICK author :
              /\ IF coded[c].start = c
                 THEN author.wait = {} /\ author.last = NoPoc
                 ELSE AtStep(author)
              /\ enc = AuthorDecodes(author, coded[c], coded[c].out)
        BY <2>2
    <2>4. Trails(WaitPocs(w.list), w.last, author)
        <3>1. CASE coded[c].start = c
            <4>1. author.wait = {} /\ author.last = NoPoc /\ WaitPocs(w.list) = {} /\ w.last = NoPoc
                BY <3>1, <2>1, <2>3
            <4> QED
                BY <4>1 DEF Trails, Above, NoPoc
        <3>2. CASE coded[c].start # c
            <4>1. AtStep(author)
                BY <3>2, <2>3
            <4>2. ~Unfinished
                BY <1>5 DEF Unfinished
            <4>3. Trails(WaitPocs(view.list) \cup {}, view.last, author)
                BY <4>1, <4>2 DEF AtStep, InStep
            <4>4. WaitPocs(w.list) = WaitPocs(view.list) \cup {} /\ w.last = view.last
                BY <2>1, <3>2
            <4> QED
                BY <4>3, <4>4
        <3> QED
            BY <3>1, <3>2
    <2>5. Ready(coded, c, w, enc)
        <3> HIDE DEF c
        <3> QED
            BY <2>1, <2>2, <2>3, <2>4, <1>3, <1>4, AuthorReady
    <2> QED
        BY <1>2, <2>1, <2>5
<1>6. CASE ~firstInPic
    <2>1. Unfinished /\ cur = c /\ nal.addr > 0 /\ nal.addr # 0
        BY <1>1, <1>6 DEF Unfinished
    <2>2. Prepared = view
        BY <1>6, NothingDropped
    <2>3. w.list = view.list /\ w.last = view.last /\ w.log = view.log
        BY <2>2, <1>2, <1>6 DEF ViewOf
    <2>4. Delivers(coded, c, view) /\ Settled(view)
        BY <1>1, <2>1 DEF OView
    <2>5. Delivers(coded, c, w)
        BY <2>3, <2>4 DEF Delivers, Orderly, Past
    <2>6. Moves(w, view, {})
        BY <2>3, MovesUnwritten
    <2>7. c \notin WaitingIn(w.list) /\ (coded[c].out => coded[c].poc > w.last)
        BY <2>1, <2>3 DEF OCurrent, Waiting
    <2>8. InStep(coded, c, w, New(coded, c), enc)
        <3>1. AtStep(enc)
            BY <2>1 DEF OAuthor
        <3> QED
            BY <3>1, <2>1, <2>3 DEF AtStep, InStep
    <2>9. RefPocs(w.list) = Refs(coded, c) /\ WaitPocs(w.list) \in SUBSET Int /\ w.last \in Int
        <3>1. OnePoc(w.list) /\ HoldsRefs(coded, c, PicturesIn(w.list))
            BY <2>5, <1>2 DEF Delivers, Orderly, Holds
        <3> HIDE DEF c
        <3>2. RefPocs(w.list) = Refs(coded, c)
            BY <3>1, <1>2, <1>3, RefPocsHeld
        <3> QED
            BY <3>2, <2>5, <1>4
    <2>10. ~Over(Above(WaitPocs(w.list), w.last), Refs(coded, c))
        <3>1. \A x \in WaitPocs(w.list) : x > w.last
            BY <2>5 DEF Delivers, Orderly, WaitPocs, PocsAt
        <3>2. Above(WaitPocs(w.list), w.last) = WaitPocs(w.list)
            BY <3>1 DEF Above
        <3> QED
            BY <3>2, <2>3, <2>4, <2>9 DEF Settled
    <2>11. Ready(coded, c, w, enc)
        <3>1. w.last <= w.last /\ w.last <= enc.last /\ (coded[c].out => w.last < coded[c].poc)
            BY <2>7, <2>8, <2>9, <1>3 DEF InStep, Trails
        <3> QED
            BY <3>1, <2>8, <2>9, <2>10 DEF Ready
    <2> QED
        BY <1>2, <2>5, <2>6, <2>7, <2>11
<1> QED
    BY <1>5, <1>6

(* The stream goes on with a picture, after the author's decoder has       *)
(* decoded it too.                                                         *)
LEMMA AuthorGoesOn ==
    ASSUME Conforming, OInv, ContinuesWithPicture,
           coded'[Len(coded')].start # Len(coded') =>
               InStep(coded', cur', view', IF Unfinished' THEN New(coded', cur') ELSE {}, enc)
    PROVE  OAuthor' /\ Len(coded') <= PicBound
<1> DEFINE n == Len(coded')
           pic == coded'[n]
           author == IF pic.start = n THEN NothingWaits ELSE enc
<1>1. /\ enc' = AuthorDecodes(author, pic, pic.out)
      /\ enc'.order /\ n <= PicBound
    BY NextPictureAuthor DEF ContinuesWithPicture, OInv, CInv, IInv
<1>2. nal'.kind = "SLICE" /\ nal'.addr = 0
    BY DEF ContinuesWithPicture, Slice
<1>3. IF pic.start = n
      THEN author.wait = {} /\ author.last = NoPoc
      ELSE InStep(coded', cur', view', IF Unfinished' THEN New(coded', cur') ELSE {}, author)
    BY DEF NothingWaits
<1> HIDE DEF author
<1>4. ~(nal'.addr > 0)
    BY <1>2
<1>5. OAuthor'
    BY <1>1, <1>2, <1>3, <1>4 DEF OAuthor, AtStep
<1> QED
    BY <1>1, <1>5

(* A picture is the same in the stream that goes on.                       *)
LEMMA InStepStays ==
    ASSUME NEW cd, NEW old, NEW c, cd[c] = old[c], NEW v, NEW new, NEW author,
           InStep(old, c, v, new, author)
    PROVE  InStep(cd, c, v, new, author)
BY DEF Refs, InStep

(* A RASL picture follows a CRA picture that does not start its sequence.  *)
LEMMA RaslFollowsCra ==
    ASSUME NEW id \in Nat \ {0}, \A i \in 1 .. id : Lawful(coded, i), coded[id].type = "RASL"
    PROVE  coded[id].irap # coded[id].start
<1>1. id \in 1 .. id /\ Placed(coded, id) /\ FirstOfCvs(coded, id) /\ FurtherOfCvs(coded, id)
    BY DEF Lawful
<1>2. coded[id].irap # id /\ coded[id].start # id
    BY <1>1 DEF Placed, FirstOfCvs, IrapTypes
<1> DEFINE a == coded[id - 1].irap
<1>3. ByType(coded, id, a)
    BY <1>1, <1>2 DEF FurtherOfCvs
<1>4. coded[a].start # a
    BY <1>3 DEF ByType
<1>5. /\ coded[id].start \in 1 .. id /\ coded[id].irap \in coded[id].start .. id
      /\ \A i \in coded[id].irap .. id : coded[i].irap = coded[id].irap
      /\ \A i \in coded[id].start .. id : coded[i].start = coded[id].start
    BY <1>1 DEF Placed
<1>6. id - 1 \in coded[id].irap .. id
    BY <1>2, <1>5
<1>7. a = coded[id].irap
    BY <1>5, <1>6
<1>8. coded[a].start = coded[id].start
    BY <1>5, <1>7
<1> QED
    BY <1>4, <1>7, <1>8

(* A slice NAL unit: the buffer of its picture, the end of the picture     *)
(* when the file ends with it, and the output pass.                        *)
LEMMA SliceDelivers ==
    ASSUME Conforming, OInv, ConsumeSlice
    PROVE  /\ cur' = nal.id /\ ~done /\ ~done' /\ nal.id \in Nat \ {0} /\ nal.id = Len(coded)
           /\ Delivers(coded, nal.id, view') /\ Settled(view)' /\ ~firstInSeq'
           /\ firstInPic' => nal'.kind = "EOF"
           /\ ~firstInPic' => /\ nal.id \notin Waiting'
                              /\ coded[nal.id].out => coded[nal.id].poc > view'.last
                              /\ InStep(coded, nal.id, view', New(coded, nal.id), enc)
           /\ Moves(view', view, IF firstInPic' /\ coded[nal.id].out THEN {nal.id} ELSE {})
           /\ nal.id \notin Waiting /\ (Unfinished \/ nal.id # cur)
<1> USE OInvFields
<1> DEFINE list == IF firstInPic
                   THEN StartPicture(Prepared.list, nal.id, Pic.poc, irap.poc, Pic.rpl)
                   ELSE Prepared.list
           w == [Prepared EXCEPT !.list = list]
           c == nal.id
           R == Refs(coded, c)
           finish == nal'.kind = "EOF" /\ ~loopFiltered
           f == Finished(w, c, PicOutputFlag, StartsNewClvs)
<1>1. nal.kind = "SLICE" /\ (firstInPic \/ nal.addr > 0) /\ AfterSlice(w, c, FALSE, FALSE)
    BY ConsumeSliceDecodes, Zenon
<1>2. /\ c = Len(coded) /\ c \in Nat \ {0} /\ Pic = coded[c] /\ ~done
      /\ firstInPic => nal.addr = 0 /\ cur = c - 1
      /\ ~firstInPic => nal.addr > 0 /\ cur = c /\ ~firstInSeq
      /\ c \in 1 .. c
      /\ \A id \in 1 .. c : Lawful(coded, id) /\ coded[id] \in CodedPicture
    BY <1>1, SliceAhead
<1>3. /\ Placed(coded, c) /\ coded[c].poc \in Int /\ coded[c].poc \in Nat /\ coded[c].out \in BOOLEAN
      /\ \A id \in 1 .. c : coded[id].poc \in Nat
    BY <1>2 DEF Lawful, CodedPicture
<1>4. /\ w \in ViewOf(1 .. c) /\ Distinct(w.list) /\ Holds(coded, c, PicturesIn(w.list))
      /\ Delivers(coded, c, w) /\ Moves(w, view, {}) /\ c \notin WaitingIn(w.list)
      /\ Ready(coded, c, w, enc)
    <2> HIDE DEF list
    <2> QED
        BY <1>1, SliceReady DEF list
<1> HIDE DEF w, list
<1>5. /\ cur' = c /\ firstInSeq' = FALSE /\ firstInPic' = finish /\ done' = done
      /\ view' = WriteOutput(IF finish THEN f ELSE w)
    BY <1>1 DEF AfterSlice
<1> HIDE DEF finish, f
<1>6. c \notin Waiting /\ (Unfinished \/ c # cur)
    <2>1. CASE firstInPic
        <3>1. Waiting \subseteq 1 .. cur
            <4>1. \A i \in DOMAIN view.list : view.list[i] \in PicturesOf(1 .. cur)
                BY SeqOfPictures
            <4> QED
                BY <4>1 DEF Waiting, WaitingIn, PicturesOf
        <3>2. c = cur + 1 /\ cur \in Nat
            BY <2>1, <1>2
        <3> HIDE OInvFields DEF c
        <3>3. c \notin 1 .. cur /\ c # cur
            BY <3>2
        <3> QED
            BY <3>1, <3>3
    <2>2. CASE ~firstInPic
        <3>1. Unfinished /\ c = cur
            BY <2>2, <1>2 DEF Unfinished
        <3> QED
            BY <3>1 DEF OCurrent
    <2> QED
        BY <2>1, <2>2
<1>7. WaitPocs(w.list) \in SUBSET Int /\ w.last \in Int /\ w.log \in Seq(Nat)
    <2>1. w.list \in Seq(PicturesOf(1 .. c)) /\ w.last \in Int /\ w.log \in Seq(Nat)
        BY <1>4, ViewFields
    <2>2. \A i \in DOMAIN w.list : w.list[i].poc \in Nat
        BY <2>1, SeqOfPictures, PictureFields
    <2>3. \A i \in DOMAIN w.list : w.list[i].poc \in Int
        BY <2>2
    <2> QED
        BY <2>1, <2>3 DEF WaitPocs, PocsAt, WaitAt
<1>8. CASE ~finish
    <2> DEFINE u == WriteOutput(w)
    <2>1. Delivers(coded, c, u) /\ Passes(u, w, R)
        <3> HIDE DEF c
        <3> QED
            BY <1>2, <1>3, <1>4, PassDelivers
    <2> HIDE DEF u
    <2>2. (coded[c].out => coded[c].poc > u.last) /\ InStep(coded, c, u, New(coded, c), enc)
        BY <1>3, <1>4, <1>7, <2>1, PassReady
    <2>3. Settled(u) /\ Moves(u, w, {})
        BY <2>1 DEF Passes
    <2>4. c \notin WaitingIn(u.list)
        BY <2>3, <1>4 DEF Moves
    <2>5. Moves(u, view, {})
        <3>1. Moves(u, view, {} \cup {})
            BY <2>3, <1>4, MovesCompose
        <3> QED
            BY <3>1
    <2>6. view' = u
        BY <1>5, <1>8 DEF u
    <2> QED
        BY <1>2, <1>5, <1>6, <1>8, <2>1, <2>2, <2>3, <2>4, <2>5, <2>6 DEF Settled, Waiting
<1>9. CASE finish
    <2> DEFINE u == WriteOutput(f)
               output == coded[c].out
    <2>1. output = (PicOutputFlag /\ ~(StartsNewClvs /\ coded[c].type = "RASL"))
        <3>1. PicOutputFlag = Pic.out /\ (Pic.irap # Pic.start => ~StartsNewClvs)
            BY <1>1, SliceFlags
        <3>2. coded[c].type = "RASL" => coded[c].irap # coded[c].start
            <4>1. CASE coded[c].start # c
                BY <4>1, <1>1, SliceContext
            <4>2. CASE coded[c].start = c
                BY <4>2, <1>2, <1>3 DEF Lawful, FirstOfCvs, Placed, IrapTypes
            <4> QED
                BY <4>1, <4>2
        <3> QED
            BY <3>1, <3>2, <1>2, <1>3
    <2>2. output => coded[c].poc > w.last
        <3>1. PICK m \in Int : w.last <= m /\ (coded[c].out => m < coded[c].poc)
            BY <1>4 DEF Ready
        <3> QED
            BY <3>1, <1>3, <1>7
    <2>3. /\ f \in ViewOf(1 .. c) /\ Holds(coded, c, PicturesIn(f.list))
          /\ Delivers(coded, c, f) /\ Moves(f, w, IF output THEN {c} ELSE {})
        <3> DEFINE out == PicOutputFlag
                   clvs == StartsNewClvs
        <3>1. output \in BOOLEAN /\ output = (out /\ ~(clvs /\ coded[c].type = "RASL"))
            BY <2>1, <1>3
        <3>3. \A id \in 1 .. c : Lawful(coded, id) /\ coded[id].poc \in Nat
            BY <1>2, <1>3
        <3> HIDE DEF c, output, out, clvs
        <3>2. FinishedView(Finished(w, c, out, clvs), w, c, output)
            <4>1. /\ c \in Nat \ {0} /\ w \in ViewOf(1 .. c) /\ Distinct(w.list)
                  /\ Delivers(coded, c, w) /\ Holds(coded, c, PicturesIn(w.list))
                  /\ c \notin WaitingIn(w.list)
                BY <1>2, <1>4
            <4> HIDE OInvFields
            <4> QED
                BY <4>1, <2>2, <3>1, <3>3, FinishDelivers
        <3> QED
            BY <3>2 DEF f, out, clvs, FinishedView
    <2>4. Delivers(coded, c, u) /\ Passes(u, f, R)
        <3> HIDE DEF c
        <3> QED
            BY <1>2, <1>3, <2>3, PassDelivers
    <2> HIDE DEF u
    <2>5. Settled(u) /\ Moves(u, f, {})
        BY <2>4 DEF Passes
    <2>6. Moves(u, view, IF output THEN {c} ELSE {})
        <3> DEFINE new == IF output THEN {c} ELSE {}
        <3> HIDE DEF new
        <3>1. Moves(f, w, new)
            BY <2>3 DEF new
        <3>2. Moves(u, w, new \cup {})
            BY <3>1, <2>5, <1>7, MovesCompose
        <3>3. Moves(u, view, {} \cup (new \cup {}))
            BY <3>2, <1>4, MovesCompose
        <3>4. {} \cup (new \cup {}) = new
            OBVIOUS
        <3> QED
            BY <3>3, <3>4 DEF new
    <2>7. view' = u /\ nal'.kind = "EOF"
        BY <1>5, <1>9 DEF u, finish
    <2> QED
        BY <1>2, <1>5, <1>6, <1>9, <2>4, <2>5, <2>6, <2>7 DEF Settled
<1> QED
    BY <1>8, <1>9

(* So a slice keeps the output side.                                       *)
LEMMA ConsumeSliceOutputs ==
    ASSUME Conforming, OInv, ConsumeSlice
    PROVE  OInv' /\ OStep
<1> USE OInvFields
<1> DEFINE c == nal.id
<1>1. /\ cur' = c /\ ~done /\ ~done' /\ c \in Nat \ {0} /\ c = Len(coded)
      /\ Delivers(coded, c, view') /\ Settled(view)' /\ ~firstInSeq'
      /\ firstInPic' => nal'.kind = "EOF"
      /\ ~firstInPic' => /\ c \notin Waiting'
                         /\ coded[c].out => coded[c].poc > view'.last
                         /\ InStep(coded, c, view', New(coded, c), enc)
      /\ Moves(view', view, IF firstInPic' /\ coded[c].out THEN {c} ELSE {})
      /\ c \notin Waiting /\ (Unfinished \/ c # cur)
    BY SliceDelivers
<1> HIDE DEF c
<1>2. CInv'
    BY ConsumeSliceConforms
<1>3. /\ SameUpTo(Len(coded), coded', coded)
      /\ ContinuesPicture \/ ContinuesWithPicture \/ ContinuesWithEos \/ ContinuesWithEof
    <2>1. NextNal
        BY ConsumeSliceDecodes
    <2> QED
        BY <2>1, NextNalContinues DEF CInv, IInv
<1>4. coded'[c] = coded[c] /\ Unfinished' = ~firstInPic'
    BY <1>1, <1>3 DEF SameUpTo, Unfinished
<1>5. OView'
    <2>1. Delivers(coded', c, view')
        BY <1>1, <1>3, DeliversStays
    <2> QED
        BY <1>1, <2>1 DEF OView
<1>6. OCurrent'
    BY <1>1, <1>4 DEF OCurrent
<1>7. ~firstInPic' => InStep(coded', cur', view', IF Unfinished' THEN New(coded', cur') ELSE {}, enc)
    <2> HAVE ~firstInPic'
    <2> DEFINE new == New(coded, c)
    <2>1. New(coded', c) = new /\ Unfinished'
        BY <1>4 DEF New
    <2>2. InStep(coded, c, view', new, enc)
        BY <1>1
    <2> HIDE DEF new
    <2>3. InStep(coded', c, view', new, enc)
        BY <1>4, <2>2, InStepStays
    <2> QED
        BY <1>1, <2>1, <2>3
<1>8. OAuthor' /\ Len(coded') <= PicBound
    <2>1. CASE ContinuesWithPicture
        <3>1. ~firstInPic'
            BY <2>1, <1>1 DEF ContinuesWithPicture, Slice
        <3> QED
            BY <2>1, <3>1, <1>7, AuthorGoesOn
    <2>2. CASE ContinuesPicture
        <3>1. nal'.kind = "SLICE" /\ nal'.addr = nal.addr + 1 /\ coded' = coded /\ enc' = enc
            BY <2>2 DEF ContinuesPicture, Slice
        <3>2. nal.addr \in Nat
            BY DEF CInv, IInv, StreamType, NalUnit
        <3>3. nal'.addr # 0 /\ ~firstInPic'
            BY <3>1, <3>2, <1>1
        <3>4. AtStep(enc)'
            BY <3>1, <3>3, <1>7 DEF AtStep
        <3> QED
            BY <3>1, <3>3, <3>4 DEF OAuthor
    <2>3. CASE ContinuesWithEos \/ ContinuesWithEof
        BY <2>3 DEF OAuthor, ContinuesWithEos, ContinuesWithEof, Eos, Eof
    <2> QED
        BY <2>1, <2>2, <2>3, <1>3
<1>9. OStep
    <2> DEFINE new == IF firstInPic' /\ coded[c].out THEN {c} ELSE {}
    <2>1. new = Arrived
        BY <1>1, <1>4 DEF Arrived
    <2>2. new \in SUBSET {cur'} /\ \A id \in new : id \notin Waiting
        BY <1>1
    <2>3. Moves(view', view, new)
        BY <1>1
    <2> QED
        BY <2>1, <2>2, <2>3 DEF OStep
<1> QED
    BY <1>2, <1>5, <1>6, <1>8, <1>9 DEF OInv

(* The picture that was being decoded is finished, with the output pass.   *)
LEMMA CurrentFinished ==
    ASSUME OInv, Unfinished, ~done, nal.kind # "EOF", NEW clvs, NEW output \in BOOLEAN,
           output = (hdrOut /\ ~(clvs /\ coded[cur].type = "RASL"))
    PROVE  LET f == Finished(view, cur, hdrOut, clvs)
               u == WriteOutput(f)
           IN  /\ FinishedView(f, view, cur, output)
               /\ Delivers(coded, cur, u) /\ Passes(u, f, Refs(coded, cur))
               /\ Moves(u, view, IF output THEN {cur} ELSE {})
               /\ cur \notin Waiting /\ hdrOut = coded[cur].out
<1> USE OInvFields
<1> DEFINE f == Finished(view, cur, hdrOut, clvs)
           u == WriteOutput(f)
<1>1. cur \in Nat \ {0} /\ cur \in 1 .. cur
    BY DEF Unfinished, CInv, CFresh
<1>2. hdrOut = coded[cur].out
    BY DEF CInv, CFlags
<1>3. /\ Delivers(coded, cur, view) /\ Settled(view) /\ Holds(coded, cur, PicturesIn(view.list))
      /\ cur \notin Waiting /\ (output => coded[cur].poc > view.last)
    <2>1. Delivers(coded, cur, view) /\ Settled(view) /\ cur \notin Waiting
        BY DEF OView, OCurrent
    <2>2. Holds(coded, cur, PicturesIn(view.list))
        BY <1>1 DEF CInv, CList
    <2>3. output => coded[cur].poc > view.last
        BY <1>2 DEF OCurrent
    <2> QED
        BY <2>1, <2>2, <2>3
<1>4. FinishedView(f, view, cur, output)
    <2> DEFINE out == hdrOut
    <2>1. output = (out /\ ~(clvs /\ coded[cur].type = "RASL"))
        OBVIOUS
    <2>2. \A id \in 1 .. cur : Lawful(coded, id) /\ coded[id].poc \in Nat
        OBVIOUS
    <2>3. view \in ViewOf(1 .. cur) /\ Distinct(view.list) /\ cur \notin WaitingIn(view.list)
        BY <1>3 DEF Waiting
    <2> HIDE OInvFields DEF out
    <2>4. FinishedView(Finished(view, cur, out, clvs), view, cur, output)
        BY <1>1, <1>3, <2>1, <2>2, <2>3, FinishDelivers
    <2> QED
        BY <2>4 DEF out
<1> HIDE DEF f
<1>5. Delivers(coded, cur, u) /\ Passes(u, f, Refs(coded, cur))
    <2>1. Placed(coded, cur)
        BY <1>1 DEF Lawful
    <2>2. f \in ViewOf(1 .. cur) /\ Holds(coded, cur, PicturesIn(f.list)) /\ Delivers(coded, cur, f)
        BY <1>4 DEF FinishedView
    <2> QED
        BY <2>1, <2>2, PassDelivers
<1> HIDE DEF u
<1>6. Moves(u, view, IF output THEN {cur} ELSE {})
    <2> DEFINE new == IF output THEN {cur} ELSE {}
    <2> HIDE DEF new
    <2>1. Moves(f, view, new) /\ Moves(u, f, {})
        BY <1>4, <1>5 DEF FinishedView, Passes, new
    <2>2. Moves(u, view, new \cup {})
        BY <2>1, MovesCompose
    <2>3. new \cup {} = new
        OBVIOUS
    <2> QED
        BY <2>2, <2>3 DEF new
<1> QED
    BY <1>2, <1>3, <1>4, <1>5, <1>6 DEF f, u

(* isNewPicture finishes the current picture, or only runs the output pass *)
(* when an EOS NAL unit has finished it.                                   *)
LEMMA NewPictureOutputs ==
    ASSUME OInv, NewPicture
    PROVE  OInv' /\ OStep
<1> USE OInvFields
<1>1. /\ UNCHANGED <<coded, nal, enc, cur, firstInSeq, done>>
      /\ nal.kind = "SLICE" /\ nal.addr = 0 /\ ~firstInPic /\ ~done /\ firstInPic' = TRUE
    BY DEF NewPicture, stream, Running
<1>2. cur \in Nat \ {0} /\ cur \in 1 .. cur
    BY <1>1 DEF CInv, CFresh
<1>3. CInv'
    BY NewPictureConforms
<1>4. /\ Delivers(coded, cur, view) /\ Settled(view)
      /\ Holds(coded, cur, PicturesIn(view.list)) /\ Placed(coded, cur)
    BY <1>1, <1>2 DEF OView, CInv, CList, Lawful
<1>5. ~Unfinished' /\ cur' = cur
    BY <1>1 DEF Unfinished
<1>6. ASSUME NEW new, Delivers(coded, cur, view'), Settled(view)', Moves(view', view, new),
             new = Arrived, new \in SUBSET {cur}, cur \in new => cur \notin Waiting,
             \A author : AtStep(author) => InStep(coded, cur, view', {}, author)
      PROVE  OInv' /\ OStep
    <2>1. OView'
        BY <1>1, <1>2, <1>6 DEF OView
    <2>2. OCurrent'
        BY <1>5 DEF OCurrent
    <2>3. OAuthor'
        <3> DEFINE n == Len(coded)
                   pic == coded[n]
        <3>1. /\ enc.order
              /\ \E author :
                    /\ IF pic.start = n
                       THEN author.wait = {} /\ author.last = NoPoc
                       ELSE AtStep(author)
                    /\ enc = AuthorDecodes(author, pic, pic.out)
            BY <1>1 DEF OAuthor
        <3>2. PICK author :
                    /\ IF pic.start = n
                       THEN author.wait = {} /\ author.last = NoPoc
                       ELSE AtStep(author)
                    /\ enc = AuthorDecodes(author, pic, pic.out)
            BY <3>1
        <3>3. AtStep(author) => InStep(coded', cur', view', IF Unfinished' THEN New(coded', cur') ELSE {}, author)
            BY <1>1, <1>5, <1>6
        <3> QED
            BY <3>1, <3>2, <3>3, <1>1 DEF OAuthor, AtStep
    <2>4. OStep
        BY <1>1, <1>6 DEF OStep
    <2> QED
        BY <1>1, <1>3, <2>1, <2>2, <2>3, <2>4 DEF OInv
<1>7. CASE firstInSeq
    <2> DEFINE u == WriteOutput(view)
    <2>1. Delivers(coded, cur, u) /\ Passes(u, view, Refs(coded, cur))
        BY <1>4, PassDelivers
    <2>2. view' = u
        BY <1>7 DEF NewPicture
    <2> HIDE DEF u
    <2>3. Moves(u, view, {}) /\ Settled(u)
        BY <2>1 DEF Passes
    <2>4. ~Unfinished /\ Arrived = {}
        BY <1>1, <1>7 DEF Arrived, Unfinished
    <2>5. ASSUME NEW author, AtStep(author) PROVE InStep(coded, cur, u, {}, author)
        <3>1. InStep(coded, cur, view, {}, author)
            BY <2>4, <2>5 DEF AtStep
        <3> QED
            BY <3>1, <2>1, PassInStep
    <2> QED
        BY <1>6, <2>1, <2>2, <2>3, <2>4, <2>5 DEF Settled
<1>8. CASE ~firstInSeq
    <2> DEFINE f == Finished(view, cur, hdrOut, newCLVS)
               u == WriteOutput(f)
               output == coded[cur].out
               new == IF output THEN {cur} ELSE {}
    <2>1. Unfinished /\ hdrOut = coded[cur].out
        BY <1>1, <1>8 DEF Unfinished, CInv, CFlags
    <2>2. output = (hdrOut /\ ~(newCLVS /\ coded[cur].type = "RASL"))
        <3>1. coded[cur].type = "RASL" => coded[cur].irap # coded[cur].start
            BY <1>2, RaslFollowsCra
        <3>2. coded[cur].irap # coded[cur].start => ~newCLVS
            BY <1>8 DEF CInv, CFlags
        <3>3. coded[cur].out \in BOOLEAN
            BY <1>2
        <3> QED
            BY <2>1, <3>1, <3>2, <3>3
    <2>3. /\ FinishedView(f, view, cur, output)
          /\ Delivers(coded, cur, u) /\ Passes(u, f, Refs(coded, cur))
          /\ Moves(u, view, new) /\ cur \notin Waiting
        <3> HIDE DEF output
        <3>1. output \in BOOLEAN
            BY <1>2 DEF output
        <3> QED
            BY <1>1, <2>1, <2>2, <3>1, CurrentFinished
    <2>4. view' = u
        BY <1>8 DEF NewPicture
    <2>5. new = Arrived
        BY <1>1, <1>5, <2>1 DEF Arrived
    <2>6. ASSUME NEW author, AtStep(author) PROVE InStep(coded, cur, u, {}, author)
        <3>1. WaitPocs(f.list) = WaitPocs(view.list) \cup New(coded, cur) /\ f.last = view.last
            BY <2>3 DEF FinishedView, New
        <3>2. InStep(coded, cur, view, New(coded, cur), author)
            BY <2>1, <2>6 DEF AtStep
        <3>3. InStep(coded, cur, f, {}, author)
            <4>1. WaitPocs(view.list) \cup New(coded, cur) = WaitPocs(f.list) \cup {}
                BY <3>1
            <4> QED
                BY <3>1, <3>2, <4>1 DEF InStep
        <3> HIDE DEF f, u
        <3>4. f.last \in Int
            BY <3>1
        <3> QED
            BY <3>3, <3>4, <2>3, PassInStep
    <2>7. Settled(u)
        BY <2>3 DEF Passes
    <2>8. new \in SUBSET {cur}
        OBVIOUS
    <2> HIDE DEF u, new
    <2> QED
        BY <1>6, <2>3, <2>4, <2>5, <2>6, <2>7, <2>8 DEF Settled
<1> QED
    BY <1>7, <1>8

(* An EOS NAL unit finishes the current picture, unless the file ends with *)
(* it and the application has left the last one out.                       *)
LEMMA ConsumeEosOutputs ==
    ASSUME Conforming, OInv, ConsumeEos
    PROVE  OInv' /\ OStep
<1> USE OInvFields
<1>1. /\ nal.kind = "EOS" /\ NextNal /\ cur' = cur /\ done' = done /\ ~done
      /\ firstInSeq' = TRUE /\ Unfinished /\ cur = Len(coded) /\ cur \in Nat \ {0}
    BY DEF ConsumeEos, Running, CInv, CShape
<1>2. cur \in 1 .. cur /\ Placed(coded, cur)
    BY <1>1 DEF Lawful
<1>3. CInv'
    BY ConsumeEosConforms
<1>4. /\ SameUpTo(cur, coded', coded)
      /\ ContinuesWithPicture \/ ContinuesWithEof
    BY <1>1, NextNalContinues DEF CInv, IInv, ContinuesPicture, ContinuesWithEos
<1>5. ~Unfinished'
    BY <1>1 DEF Unfinished
<1>6. /\ Delivers(coded, cur, view) /\ Settled(view)
      /\ Holds(coded, cur, PicturesIn(view.list)) /\ cur \notin Waiting
    BY <1>1 DEF OView, OCurrent, CInv, CList
<1>7. /\ Delivers(coded, cur, view') /\ Settled(view)'
      /\ \E new \in SUBSET {cur} : Moves(view', view, new)
    <2>1. CASE view' = WriteOutput(view)
        <3> DEFINE u == WriteOutput(view)
        <3>1. Delivers(coded, cur, u) /\ Passes(u, view, Refs(coded, cur))
            BY <1>2, <1>6, PassDelivers
        <3> HIDE DEF u
        <3>2. Moves(u, view, {}) /\ Settled(u)
            BY <3>1 DEF Passes
        <3>3. view' = u
            BY <2>1 DEF u
        <3> QED
            BY <3>1, <3>2, <3>3 DEF Settled
    <2>2. CASE view' = WriteOutput(Finished(view, cur, hdrOut, TRUE))
        <3> DEFINE f == Finished(view, cur, hdrOut, TRUE)
                   u == WriteOutput(f)
                   output == hdrOut /\ ~(TRUE /\ coded[cur].type = "RASL")
                   new == IF output THEN {cur} ELSE {}
        <3>1. Delivers(coded, cur, u) /\ Passes(u, f, Refs(coded, cur)) /\ Moves(u, view, new)
            <4> DEFINE clvs == TRUE
            <4>1. output \in BOOLEAN /\ output = (hdrOut /\ ~(clvs /\ coded[cur].type = "RASL"))
                OBVIOUS
            <4> HIDE DEF output, clvs
            <4>2. LET g == Finished(view, cur, hdrOut, clvs)
                      x == WriteOutput(g)
                  IN  /\ FinishedView(g, view, cur, output)
                      /\ Delivers(coded, cur, x) /\ Passes(x, g, Refs(coded, cur))
                      /\ Moves(x, view, IF output THEN {cur} ELSE {})
                      /\ cur \notin Waiting /\ hdrOut = coded[cur].out
                BY <1>1, <4>1, CurrentFinished
            <4> QED
                BY <4>2 DEF clvs
        <3>2. view' = u /\ new \in SUBSET {cur}
            BY <2>2
        <3> HIDE DEF u, new
        <3>3. Settled(u)
            BY <3>1 DEF Passes
        <3> QED
            BY <3>1, <3>2, <3>3 DEF Settled
    <2>3. view' = WriteOutput(view) \/ view' = WriteOutput(Finished(view, cur, hdrOut, TRUE))
        BY <1>1 DEF ConsumeEos, Unfinished
    <2> QED
        BY <2>1, <2>2, <2>3
<1>8. OView'
    <2>1. Delivers(coded', cur, view')
        BY <1>4, <1>7, DeliversStays
    <2> QED
        BY <2>1, <1>1, <1>7 DEF OView
<1>9. OCurrent'
    BY <1>5 DEF OCurrent
<1>10. OAuthor' /\ Len(coded') <= PicBound
    <2>1. CASE ContinuesWithPicture
        <3> DEFINE n == Len(coded')
        <3>1. coded'[n].type = "IDR" /\ n = cur + 1
            BY <2>1, <1>1 DEF ContinuesWithPicture
        <3>2. n \in 1 .. n /\ Lawful(coded', n)
            <4>1. coded' \in Seq(CodedPicture) /\ \A id \in DOMAIN coded' : Lawful(coded', id)
                BY <1>3 DEF CInv, IInv, StreamType, CRules
            <4> QED
                BY <4>1, <3>1
        <3>3. coded'[n].start = n
            BY <3>1, <3>2 DEF Lawful, Placed
        <3> QED
            BY <2>1, <3>3, AuthorGoesOn
    <2>2. CASE ContinuesWithEof
        BY <2>2 DEF OAuthor, ContinuesWithEof, Eof
    <2> QED
        BY <2>1, <2>2, <1>4
<1>11. OStep
    BY <1>1, <1>6, <1>7 DEF OStep
<1> QED
    BY <1>3, <1>8, <1>9, <1>10, <1>11 DEF OInv

(* Before the first picture there is nothing to write.                     *)
LEMMA ReadParameterSetsOutputs ==
    ASSUME Conforming, OInv, ReadParameterSets
    PROVE  OInv' /\ OStep
<1> USE OInvFields
<1>1. /\ nal.kind = "PS" /\ NextNal /\ cur = 0 /\ coded = <<>> /\ ~done
      /\ UNCHANGED <<view, cur, firstInPic, firstInSeq, done>>
    BY DEF ReadParameterSets, Running, lib, app, CInv, CShape
<1>2. CInv'
    BY ReadParameterSetsConforms
<1>3. ContinuesWithPicture
    BY <1>1, NextNalContinues
       DEF CInv, IInv, ContinuesPicture, ContinuesWithEos, ContinuesWithEof
<1>4. ~Unfinished /\ ~Unfinished'
    BY <1>1 DEF Unfinished, CInv, CFresh
<1>5. OView'
    <2>1. Delivers(coded, 0, view) /\ SameUpTo(0, coded', coded)
        BY <1>1 DEF OView, SameUpTo
    <2>2. Delivers(coded', 0, view)
        BY <2>1, DeliversStays
    <2> QED
        BY <1>1, <2>2 DEF OView, Settled
<1>6. OCurrent'
    BY <1>4 DEF OCurrent
<1>7. OAuthor' /\ Len(coded') <= PicBound
    <2> DEFINE n == Len(coded')
    <2>1. n = 1
        BY <1>1, <1>3 DEF ContinuesWithPicture
    <2>2. n \in 1 .. n /\ Lawful(coded', n)
        <3>1. coded' \in Seq(CodedPicture) /\ \A id \in DOMAIN coded' : Lawful(coded', id)
            BY <1>2 DEF CInv, IInv, StreamType, CRules
        <3> QED
            BY <3>1, <2>1
    <2>3. coded'[n].start = n
        BY <2>1, <2>2 DEF Lawful, Placed
    <2> QED
        BY <1>3, <2>3, AuthorGoesOn
<1>8. OStep
    <2>1. Moves(view', view, {})
        BY <1>1, MovesUnwritten
    <2>2. Arrived = {}
        BY <1>1, <1>4 DEF Arrived
    <2> QED
        BY <2>1, <2>2 DEF OStep
<1> QED
    BY <1>2, <1>5, <1>6, <1>7, <1>8 DEF OInv

(* The end of the program writes what still waits.                         *)
LEMMA ExitOutputs ==
    ASSUME OInv, Exit
    PROVE  OInv' /\ OStep
<1> USE OInvFields
<1>1. /\ UNCHANGED <<coded, nal, enc, cur, firstInPic, firstInSeq>>
      /\ nal.kind = "EOF" /\ done' = TRUE /\ ~done /\ cur # 0
      /\ view' = FlushOutput(view)
    BY DEF Exit, Running, stream, lib, app, CInv, CShape
<1>2. CInv'
    BY ExitConforms
<1> DEFINE u == FlushOutput(view)
<1>3. /\ u.list = <<>> /\ LogInOrder(coded, u.log) /\ Moves(u, view, {})
      /\ \A k \in DOMAIN u.log : u.log[k] \in 1 .. cur
    BY <1>1, FlushDelivers
<1> HIDE DEF u
<1>4. view' = u
    BY <1>1 DEF u
<1>5. OView'
    BY <1>1, <1>3, <1>4 DEF OView
<1>6. OCurrent'
    <2>1. Waiting' = {}
        BY <1>3, <1>4 DEF Waiting, WaitingIn
    <2> QED
        BY <2>1, <1>1 DEF OCurrent
<1>7. OAuthor'
    BY <1>1 DEF OAuthor
<1>8. OStep
    <2>1. Arrived = {}
        BY <1>1 DEF Arrived, Unfinished
    <2> QED
        BY <2>1, <1>3, <1>4 DEF OStep
<1> QED
    BY <1>1, <1>2, <1>5, <1>6, <1>7, <1>8 DEF OInv

(* Nothing changes, when nothing is left to be read.                       *)
LEMMA UnchangedOutputs ==
    ASSUME OInv, UNCHANGED vars
    PROVE  OInv' /\ OStep
<1> USE OInvFields
<1>1. UNCHANGED <<coded, nal, enc, view, cur, firstInPic, firstInSeq, done>>
    BY DEF vars, stream, lib, app
<1>2. CInv'
    BY UnchangedConforms
<1>3. OView' /\ OCurrent'
    BY <1>1 DEF OView, OCurrent, Settled, Unfinished, Waiting
<1>4. OAuthor'
    BY <1>1 DEF OAuthor, AtStep, Unfinished
<1>5. OStep
    <2>1. Moves(view', view, {})
        BY <1>1, MovesUnwritten
    <2>2. Arrived = {}
        BY <1>1 DEF Arrived, Unfinished
    <2> QED
        BY <2>1, <2>2 DEF OStep
<1> QED
    BY <1>1, <1>2, <1>3, <1>4, <1>5 DEF OInv

(* The empty list and the empty file of the start.                         *)
LEMMA OInvInitially ==
    ASSUME Conforming, Init
    PROVE  OInv
<1>1. /\ view = [list |-> <<>>, last |-> NoPoc, log |-> <<>>]
      /\ coded = <<>> /\ nal.kind = "PS" /\ firstInPic /\ ~done
    BY DEF Init, InitStream, ParameterSets
<1>2. CInv
    BY CInvInitially
<1>3. Delivers(coded, cur, view)
    <2>1. Orderly(view)
        BY <1>1 DEF Orderly, OnePoc, InOrder, WaitAt
    <2>2. Len(view.list) <= MaxDec + 1 /\ view.last >= NoPoc
        BY <1>1, MaxDecAssumption DEF NoPoc
    <2>3. LogInOrder(coded, view.log) /\ Past(coded, cur, view)
        BY <1>1 DEF LogInOrder, Past
    <2> QED
        BY <2>1, <2>2, <2>3 DEF Delivers
<1>4. Settled(view)
    <2>1. WaitPocs(view.list) = {} /\ RefPocs(view.list) = {}
        BY <1>1 DEF WaitPocs, RefPocs, WaitAt, RefAt, PocsAt
    <2>2. Cardinality({}) = 0 /\ {} \cup {} = {}
        BY FS_EmptySet
    <2> QED
        BY <2>1, <2>2, MaxDecAssumption, NumReorderAssumption DEF Settled, Over
<1>5. OView /\ OCurrent /\ OAuthor
    BY <1>1, <1>3, <1>4 DEF OView, OCurrent, OAuthor, Unfinished
<1>6. Len(coded) <= PicBound
    BY <1>1, StreamAssumption
<1> QED
    BY <1>2, <1>5, <1>6 DEF OInv

(* Every step of the decoder keeps the invariant.                          *)
LEMMA EveryStepOutputs ==
    ASSUME Conforming, OInv, [Next]_vars
    PROVE  OInv' /\ OStep
<1>1. CASE NewPicture
    BY <1>1, NewPictureOutputs
<1>2. CASE ConsumeSlice
    BY <1>2, ConsumeSliceOutputs
<1>3. CASE ConsumeEos
    BY <1>3, ConsumeEosOutputs
<1>4. CASE Exit
    BY <1>4, ExitOutputs
<1>5. CASE ReadParameterSets
    BY <1>5, ReadParameterSetsOutputs
<1>6. CASE PictureIsLost
    BY <1>6 DEF PictureIsLost, LosePicture, Conforming
<1>7. CASE Terminated \/ UNCHANGED vars
    BY <1>7, UnchangedOutputs DEF Terminated
<1> QED
    BY <1>1, <1>2, <1>3, <1>4, <1>5, <1>6, <1>7 DEF Next

(* So it holds in every state of a run on a conforming stream.             *)
LEMMA AlwaysOInv == ASSUME Conforming PROVE Spec => []OInv
<1>1. Init => OInv
    BY OInvInitially
<1>2. OInv /\ [Next]_vars => OInv'
    BY EveryStepOutputs
<1> QED
    BY <1>1, <1>2, PTL DEF Spec

(* The picture list of a conforming stream: as many pictures wait as POCs. *)
LEMMA WaitingCount ==
    ASSUME NEW D, NEW list \in Seq(PicturesOf(D)), OnePoc(list), Distinct(list)
    PROVE  Cardinality(WaitingIn(list)) = Cardinality(WaitPocs(list))
<1> DEFINE S == WaitAt(list)
           f == [i \in S |-> list[i].id]
<1>1. S \in SUBSET DOMAIN list
    BY DEF WaitAt
<1>2. IsFiniteSet(S) /\ Cardinality(WaitPocs(list)) = Cardinality(S)
    BY <1>1, PocCount DEF WaitPocs
<1>3. WaitingIn(list) = {list[i].id : i \in S}
    BY DEF WaitingIn, WaitAt
<1>4. f \in Bijection(S, WaitingIn(list))
    <2>1. f \in [S -> WaitingIn(list)]
        BY <1>3
    <2>2. \A i, j \in S : f[i] = f[j] => i = j
        BY <1>1 DEF Distinct
    <2>3. \A x \in WaitingIn(list) : \E i \in S : f[i] = x
        BY <1>3
    <2> HIDE DEF f
    <2> QED
        BY <2>1, <2>2, <2>3 DEF Bijection, Injection, Surjection, IsInjective
<1>5. ExistsBijection(S, WaitingIn(list))
    BY <1>4 DEF ExistsBijection
<1> QED
    BY <1>2, <1>5, FS_Bijection

(* xWriteOutput and xFlushOutput write the pictures of a conforming stream *)
(* in output order: by POC within a coded video sequence, and sequence by  *)
(* sequence; so none is written twice.                                     *)
THEOREM DecoderOutputInOrder == ASSUME Conforming PROVE Spec => []OutputInOrder
<1>1. OInv => OutputInOrder
    <2> SUFFICES ASSUME OInv PROVE OutputInOrder
        OBVIOUS
    <2>1. LogInOrder(coded, view.log)
        <3>1. OView
            BY OInvFields
        <3> QED
            BY <3>1 DEF OView, Delivers
    <2> QED
        BY <2>1, Zenon DEF OutputInOrder, LogInOrder, PrecedesIn
<1> QED
    BY <1>1, AlwaysOInv, PTL

(* After each iteration of the loop no more pictures wait for output than  *)
(* sps_max_num_reorder_pics: the pass of xWriteOutput, which stops at the  *)
(* first picture that is not above the last POC displayed, never leaves    *)
(* one behind.                                                             *)
THEOREM DecoderReorderBound == ASSUME Conforming PROVE Spec => []ReorderBound
<1>1. OInv => ReorderBound
    <2> SUFFICES ASSUME OInv PROVE ReorderBound
        OBVIOUS
    <2> USE OInvFields
    <2>1. CASE done
        <3>1. Waiting = {}
            BY <2>1 DEF OView, Waiting, WaitingIn
        <3> QED
            BY <3>1, FS_EmptySet, NumReorderAssumption DEF ReorderBound
    <2>2. CASE ~done
        <3>1. OnePoc(view.list) /\ ~Over(WaitPocs(view.list), RefPocs(view.list))
            BY <2>2 DEF OView, Delivers, Orderly, Settled
        <3>2. Cardinality(Waiting) = Cardinality(WaitPocs(view.list))
            BY <3>1, WaitingCount DEF Waiting
        <3>3. Cardinality(WaitPocs(view.list)) \in Nat
            <4>1. WaitAt(view.list) \in SUBSET DOMAIN view.list
                BY DEF WaitAt
            <4> QED
                BY <4>1, <3>1, PocCount, FS_CardinalityType DEF WaitPocs
        <3>4. ~(Cardinality(WaitPocs(view.list)) > NumReorder)
            BY <3>1 DEF Over
        <3> HIDE OInvFields
        <3> QED
            BY <3>2, <3>3, <3>4, NumReorderAssumption DEF ReorderBound
    <2> QED
        BY <2>1, <2>2
<1> QED
    BY <1>1, AlwaysOInv, PTL

(* xGetNewPicBuffer never extends the picture list of a conforming stream  *)
(* by more than one buffer over what the SPS announces.                    *)
THEOREM DecoderBufferBound == ASSUME Conforming PROVE Spec => []BufferBound
<1>1. OInv => BufferBound
    <2> SUFFICES ASSUME OInv PROVE BufferBound
        OBVIOUS
    <2>1. OView
        BY OInvFields
    <2>2. CASE done
        BY <2>1, <2>2, MaxDecAssumption DEF OView, BufferBound
    <2>3. CASE ~done
        BY <2>1, <2>3 DEF OView, Delivers, BufferBound
    <2> QED
        BY <2>2, <2>3
<1> QED
    BY <1>1, AlwaysOInv, PTL

----------------------------------------------------------------------------
(* The promise of PictureOutput.  What is in the file precedes what waits, *)
(* between any two iterations of the loop.                                 *)
Promised ==
    /\ view.log \in Seq(Nat) /\ WrittenIn(view.log) \in SUBSET (1 .. cur)
    /\ Waiting \in SUBSET (1 .. cur)
    /\ LogInOrder(coded, view.log)
    /\ \A k \in DOMAIN view.log, id \in Waiting : PrecedesIn(coded, view.log[k], id)

(* That follows from the last POC displayed: the waiting pictures are all  *)
(* of the current sequence, and above it.                                  *)
LEMMA OInvPromises == OInv => Promised
<1> SUFFICES ASSUME OInv PROVE Promised
    OBVIOUS
<1> USE OInvFields
<1>1. view.log \in Seq(Nat) /\ LogInOrder(coded, view.log)
    BY DEF OView, Delivers
<1>2. \A k \in DOMAIN view.log : view.log[k] \in 1 .. cur
    BY DEF OView, Delivers, Past, NotAbove
<1>3. Waiting \in SUBSET (1 .. cur)
    BY SeqOfPictures, PictureFields DEF Waiting, WaitingIn
<1>4. ASSUME NEW k \in DOMAIN view.log, NEW id \in Waiting
      PROVE  PrecedesIn(coded, view.log[k], id)
    <2>1. PICK i \in DOMAIN view.list : view.list[i].needed /\ view.list[i].id = id
        BY DEF Waiting, WaitingIn
    <2>2. ~done
        BY <2>1 DEF OView
    <2>3. cur # 0
        BY <1>3
    <2>4. Holds(coded, cur, PicturesIn(view.list)) /\ Delivers(coded, cur, view)
        BY <2>2, <2>3 DEF CInv, CList, OView
    <2>5. coded[id].start = coded[cur].start /\ view.list[i].poc = coded[id].poc
        BY <2>1, <2>4 DEF Holds, HoldsCvs, PicturesIn
    <2>6. view.list[i].poc > view.last
        BY <2>1, <2>4 DEF Delivers, Orderly, WaitAt
    <2>7. NotAbove(coded, cur, view.log[k], view.last)
        BY <2>4 DEF Delivers, Past
    <2>8. /\ view.log[k] \in 1 .. cur
          /\ coded[id].poc \in Int /\ coded[view.log[k]].poc \in Int /\ view.last \in Int
        BY <1>2, <1>3
    <2> HIDE OInvFields
    <2> QED
        BY <2>5, <2>6, <2>7, <2>8 DEF NotAbove, PrecedesIn
<1>5. WrittenIn(view.log) \in SUBSET (1 .. cur)
    BY <1>2 DEF WrittenIn
<1> QED
    BY <1>1, <1>3, <1>4, <1>5 DEF Promised

(* The stream only grows behind the current picture.                       *)
LEMMA CodedGrows ==
    ASSUME Conforming, OInv, [Next]_vars
    PROVE  SameUpTo(cur, coded', coded) /\ cur <= cur'
<1> USE OInvFields
<1>1. CASE UNCHANGED <<coded, cur>>
    BY <1>1 DEF SameUpTo
<1>2. ASSUME NextNal PROVE SameUpTo(cur, coded', coded)
    <2>1. SameUpTo(Len(coded), coded', coded)
        BY <1>2, NextNalContinues DEF CInv, IInv
    <2> QED
        BY <2>1 DEF SameUpTo
<1>3. CASE NewPicture \/ Exit \/ Terminated \/ UNCHANGED vars
    BY <1>3, <1>1 DEF NewPicture, Exit, Terminated, vars, stream, lib
<1>4. CASE ConsumeSlice
    <2>1. NextNal /\ nal.kind = "SLICE" /\ cur' = nal.id
        BY <1>4, ConsumeSliceDecodes DEF AfterSlice
    <2>2. nal.id = Len(coded)
        BY <2>1 DEF CInv, IInv, SliceIsAhead
    <2> QED
        BY <2>1, <2>2, <1>2
<1>5. CASE ConsumeEos \/ ReadParameterSets
    <2>1. NextNal
        BY <1>5 DEF ConsumeEos, ReadParameterSets
    <2>2. cur' = cur
        BY <1>5 DEF ConsumeEos, ReadParameterSets, lib
    <2> QED
        BY <2>1, <2>2, <1>2
<1>6. CASE PictureIsLost
    BY <1>6 DEF PictureIsLost, LosePicture, Conforming
<1> QED
    BY <1>3, <1>4, <1>5, <1>6 DEF Next

(* A sequence of pictures in output order is one of the ways to write the  *)
(* set of them.                                                            *)
Places(cd, n) == [id \in 1 .. n |-> [seq |-> cd[id].start, poc |-> cd[id].poc]]

PlacesOf(P, s) == [k \in DOMAIN s |-> P[s[k]]]

LEMMA WrittenInOrder ==
    ASSUME NEW n \in Nat, NEW cd,
           \A id \in 1 .. n : cd[id].start \in Int /\ cd[id].poc \in Int,
           NEW s \in Seq(Nat), WrittenIn(s) \in SUBSET (1 .. n), LogInOrder(cd, s)
    PROVE  PlacesOf(Places(cd, n), s) \in Promise!Writings({Places(cd, n)[id] : id \in WrittenIn(s)})
<1> DEFINE P == Places(cd, n)
           batch == {P[id] : id \in WrittenIn(s)}
           t == PlacesOf(P, s)
<1>1. Len(s) \in Nat /\ DOMAIN s = 1 .. Len(s) /\ \A k \in DOMAIN s : s[k] \in 1 .. n /\ k \in Int
    BY DEF WrittenIn
<1>2. t = [k \in 1 .. Len(s) |-> P[s[k]]]
    BY <1>1 DEF PlacesOf
<1>3. t \in [1 .. Len(s) -> batch]
    BY <1>1, <1>2 DEF WrittenIn
<1>4. Promise!Increasing(t)
    <2> SUFFICES ASSUME NEW j \in DOMAIN t, NEW k \in DOMAIN t, j < k
                 PROVE  Promise!Before(t[j], t[k])
        BY DEF Promise!Increasing
    <2>1. j \in DOMAIN s /\ k \in DOMAIN s /\ t[j] = P[s[j]] /\ t[k] = P[s[k]]
        BY <1>1, <1>2
    <2>2. PrecedesIn(cd, s[j], s[k])
        BY <2>1 DEF LogInOrder
    <2>3. s[j] \in 1 .. n /\ s[k] \in 1 .. n
        BY <2>1, <1>1
    <2>4. \A id \in 1 .. n : P[id].seq = cd[id].start /\ P[id].poc = cd[id].poc
        BY DEF Places
    <2> HIDE DEF t, P
    <2> QED
        BY <2>1, <2>2, <2>3, <2>4 DEF PrecedesIn, Promise!Before
<1>5. \A p \in batch : \E k \in DOMAIN t : t[k] = p
    <2> SUFFICES ASSUME NEW id \in WrittenIn(s)
                 PROVE  \E k \in DOMAIN t : t[k] = P[id]
        OBVIOUS
    <2>1. PICK k \in DOMAIN s : s[k] = id
        BY DEF WrittenIn
    <2>2. k \in DOMAIN t /\ t[k] = P[id]
        BY <2>1 DEF PlacesOf
    <2> QED
        BY <2>2
<1>6. ASSUME NEW j \in 1 .. Len(s), NEW k \in 1 .. Len(s), j < k
      PROVE  t[j] # t[k]
    <2> SUFFICES ASSUME t[j] = t[k] PROVE FALSE
        OBVIOUS
    <2>1. Promise!Before(t[j], t[k])
        <3>1. DOMAIN t = 1 .. Len(s)
            BY <1>2
        <3> QED
            BY <1>4, <1>6, <3>1 DEF Promise!Increasing
    <2>2. t[j] = P[s[j]] /\ s[j] \in 1 .. n
        BY <1>1, <1>2
    <2>3. t[j].seq \in Int /\ t[j].poc \in Int
        BY <2>2 DEF Places
    <2> HIDE DEF t
    <2> QED
        BY <2>1, <2>3 DEF Promise!Before
<1> HIDE DEF t, batch, P
<1>7. \A j, k \in 1 .. Len(s) : t[j] = t[k] => j = k
    <2> SUFFICES ASSUME NEW j \in 1 .. Len(s), NEW k \in 1 .. Len(s), t[j] = t[k]
                 PROVE  j = k
        OBVIOUS
    <2>1. ~(j < k) /\ ~(k < j)
        BY <1>6
    <2> QED
        BY <2>1
<1>8. DOMAIN t = 1 .. Len(s)
    BY <1>2
<1>9. Cardinality(batch) = Len(s)
    <2>1. t \in Bijection(1 .. Len(s), batch)
        BY <1>3, <1>5, <1>7, <1>8 DEF Bijection, Injection, Surjection, IsInjective
    <2>2. ExistsBijection(1 .. Len(s), batch)
        BY <2>1 DEF ExistsBijection
    <2>3. IsFiniteSet(1 .. Len(s)) /\ Cardinality(1 .. Len(s)) = Len(s)
        <3> DEFINE m == Len(s)
        <3>1. m \in Int /\ m >= 0
            BY <1>1
        <3> HIDE DEF m
        <3>2. IsFiniteSet(1 .. m) /\ Cardinality(1 .. m) = IF 1 > m THEN 0 ELSE m - 1 + 1
            BY <3>1, FS_Interval
        <3> QED
            BY <3>1, <3>2 DEF m
    <2> QED
        BY <2>2, <2>3, FS_Bijection
<1>10. Promise!Cardinality(batch) = Cardinality(batch)
    BY DEF Promise!Cardinality, Cardinality
<1>11. t \in Promise!Writings(batch)
    BY <1>3, <1>4, <1>5, <1>9, <1>10 DEF Promise!Writings
<1> QED
    BY <1>11 DEF t, batch, P

(* The places of one part of the file after the other. *)
LEMMA PlacesAppended ==
    ASSUME NEW P, NEW a \in Seq(Nat), NEW b \in Seq(Nat)
    PROVE  PlacesOf(P, a \o b) = PlacesOf(P, a) \o PlacesOf(P, b)
<1> DEFINE X == {P[id] : id \in Nat}
           both == a \o b
           pa == PlacesOf(P, a)
           pb == PlacesOf(P, b)
<1>1. /\ both \in Seq(Nat) /\ Len(both) = Len(a) + Len(b)
      /\ Len(a) \in Nat /\ Len(b) \in Nat
      /\ DOMAIN a = 1 .. Len(a) /\ DOMAIN b = 1 .. Len(b) /\ DOMAIN both = 1 .. Len(both)
      /\ \A k \in 1 .. Len(both) : both[k] = IF k <= Len(a) THEN a[k] ELSE b[k - Len(a)]
    OBVIOUS
<1>2. /\ pa = [k \in 1 .. Len(a) |-> P[a[k]]] /\ pb = [k \in 1 .. Len(b) |-> P[b[k]]]
      /\ PlacesOf(P, both) = [k \in 1 .. Len(both) |-> P[both[k]]]
    BY <1>1 DEF PlacesOf
<1>3. (\A k \in 1 .. Len(a) : P[a[k]] \in X) /\ (\A k \in 1 .. Len(b) : P[b[k]] \in X)
    BY <1>1
<1> HIDE DEF pa, pb, both, X
<1>4. pa \in Seq(X) /\ pb \in Seq(X) /\ Len(pa) = Len(a) /\ Len(pb) = Len(b)
    BY <1>1, <1>2, <1>3
<1>5. pa \o pb = [k \in 1 .. Len(both) |-> IF k <= Len(a) THEN pa[k] ELSE pb[k - Len(a)]]
    <2> DEFINE q == pa \o pb
    <2>1. q \in Seq(X) /\ Len(q) = Len(both)
        <3>1. q \in Seq(X) /\ Len(q) = Len(pa) + Len(pb)
            BY <1>4, ConcatProperties
        <3> QED
            BY <3>1, <1>1, <1>4
    <2>2. \A k \in 1 .. Len(both) : q[k] = IF k <= Len(a) THEN pa[k] ELSE pb[k - Len(a)]
        BY <1>1, <1>4
    <2> HIDE DEF q
    <2>3. q = [k \in 1 .. Len(both) |-> q[k]]
        BY <2>1
    <2>4. q = [k \in 1 .. Len(both) |-> IF k <= Len(a) THEN pa[k] ELSE pb[k - Len(a)]]
        BY <2>2, <2>3
    <2> QED
        BY <2>4 DEF q
<1>6. \A k \in 1 .. Len(both) :
          P[both[k]] = IF k <= Len(a) THEN pa[k] ELSE pb[k - Len(a)]
    <2> TAKE k \in 1 .. Len(both)
    <2>1. CASE k <= Len(a)
        <3>1. k \in 1 .. Len(a)
            BY <2>1, <1>1
        <3> QED
            BY <3>1, <2>1, <1>1, <1>2
    <2>2. CASE ~(k <= Len(a))
        <3>1. k - Len(a) \in 1 .. Len(b)
            BY <2>2, <1>1
        <3> QED
            BY <3>1, <2>2, <1>1, <1>2
    <2> QED
        BY <2>1, <2>2
<1>7. PlacesOf(P, both) = pa \o pb
    BY <1>2, <1>5, <1>6
<1> QED
    BY <1>7 DEF pa, pb, both

(* What a step adds to the file follows what was in it.                    *)
LEMMA AddedInOrder ==
    ASSUME NEW cd, NEW D \in SUBSET Nat, NEW a \in Seq(Nat), NEW b \in Seq(Nat),
           WrittenIn(a \o b) \in SUBSET D, LogInOrder(cd, a \o b)
    PROVE  /\ WrittenIn(a) \in SUBSET D /\ WrittenIn(b) \in SUBSET D /\ LogInOrder(cd, b)
           /\ \A j \in DOMAIN a, id \in WrittenIn(b) : PrecedesIn(cd, a[j], id)
<1> DEFINE both == a \o b
<1>1. /\ both \in Seq(Nat) /\ Len(both) = Len(a) + Len(b)
      /\ Len(a) \in Nat /\ Len(b) \in Nat
      /\ DOMAIN a = 1 .. Len(a) /\ DOMAIN b = 1 .. Len(b) /\ DOMAIN both = 1 .. Len(both)
      /\ \A k \in 1 .. Len(a) : both[k] = a[k]
      /\ \A k \in 1 .. Len(b) : both[Len(a) + k] = b[k]
    OBVIOUS
<1>2. WrittenIn(a) \in SUBSET D /\ WrittenIn(b) \in SUBSET D
    BY Appended
<1> HIDE DEF both
<1>3. LogInOrder(cd, both)
    BY DEF both
<1>4. ASSUME NEW j \in DOMAIN b, NEW k \in DOMAIN b, j < k PROVE PrecedesIn(cd, b[j], b[k])
    <2> DEFINE l == Len(a) + j
               m == Len(a) + k
    <2>1. l \in DOMAIN both /\ m \in DOMAIN both /\ l < m
        BY <1>1, <1>4, SMTT(30)
    <2>2. both[l] = b[j] /\ both[m] = b[k]
        BY <1>1
    <2> HIDE DEF l, m
    <2>3. PrecedesIn(cd, both[l], both[m])
        BY <2>1, <1>3 DEF LogInOrder
    <2> QED
        BY <2>2, <2>3
<1>5. ASSUME NEW j \in DOMAIN a, NEW k \in DOMAIN b PROVE PrecedesIn(cd, a[j], b[k])
    <2> DEFINE m == Len(a) + k
    <2>1. j \in DOMAIN both /\ m \in DOMAIN both /\ j < m
        BY <1>1, SMTT(30)
    <2>2. both[j] = a[j] /\ both[m] = b[k]
        BY <1>1
    <2> HIDE DEF m
    <2>3. PrecedesIn(cd, both[j], both[m])
        BY <2>1, <1>3 DEF LogInOrder
    <2> QED
        BY <2>2, <2>3
<1>6. \A j \in DOMAIN a, id \in WrittenIn(b) : PrecedesIn(cd, a[j], id)
    BY <1>5 DEF WrittenIn
<1> QED
    BY <1>2, <1>4, <1>6 DEF LogInOrder

(* So each step of the decoder is a step of PictureOutput: one picture may *)
(* arrive, and a batch of the lowest is written.                           *)
LEMMA PromiseStep ==
    ASSUME OInv, OInv', Promised, Promised', OStep, SameUpTo(cur, coded', coded), cur <= cur'
    PROVE  Promise!Next
<1> DEFINE n == cur'
           cd == coded'
           P == Places(cd, n)
           X == [seq : 1 .. PicBound, poc : Pocs]
           W == {PlaceOf(id) : id \in Waiting}
           L == [k \in DOMAIN view.log |-> PlaceOf(view.log[k])]
<1>1. /\ n \in Nat /\ cur \in Nat /\ \A id \in 1 .. cur : id \in 1 .. n
      /\ \A id \in 1 .. n : Lawful(cd, id)
      /\ \A id \in 1 .. n : cd[id].start \in 1 .. PicBound /\ cd[id].poc \in Pocs
    <2>1. CInv' /\ Len(coded') <= PicBound
        BY DEF OInv
    <2>2. IInv' /\ CRules'
        BY <2>1 DEF CInv
    <2>3. /\ cd \in Seq(CodedPicture) /\ Len(cd) \in Nat /\ DOMAIN cd = 1 .. Len(cd)
          /\ n \in Nat /\ n <= Len(cd)
        BY <2>2 DEF IInv, StreamType, CurrentPicture
    <2>4. \A id \in 1 .. n : id \in DOMAIN cd
        BY <2>3
    <2>5. \A id \in 1 .. n : Lawful(cd, id) /\ cd[id] \in CodedPicture
        BY <2>2, <2>3, <2>4 DEF CRules
    <2>6. ASSUME NEW id \in 1 .. n
          PROVE  cd[id].start \in 1 .. PicBound /\ cd[id].poc \in Pocs
        <3>1. cd[id].start \in 1 .. id /\ cd[id].poc <= PocBound /\ cd[id].poc \in Nat
            BY <2>5 DEF Lawful, Placed, CodedPicture
        <3>2. id <= PicBound /\ id \in Nat /\ PicBound \in Nat /\ PocBound \in Nat
            BY <2>1, <2>3, StreamAssumption
        <3> HIDE DEF cd
        <3> QED
            BY <3>1, <3>2 DEF Pocs
    <2>7. cur \in Nat
        BY OInvFields
    <2> QED
        BY <2>3, <2>5, <2>6, <2>7
<1> HIDE DEF n, cd, X
<1>2. /\ P \in [1 .. n -> X]
      /\ \A id \in 1 .. n : P[id].seq = cd[id].start /\ P[id].poc = cd[id].poc
    BY <1>1 DEF X, Places
<1>3. \A id \in 1 .. cur : PlaceOf(id) = P[id]
    <2> TAKE id \in 1 .. cur
    <2>1. cd[id] = coded[id] /\ id \in 1 .. n
        BY <1>1 DEF SameUpTo, cd
    <2> QED
        BY <2>1 DEF PlaceOf, Places
<1>4. W = {P[id] : id \in Waiting} /\ L = PlacesOf(P, view.log)
    <2>1. Waiting \in SUBSET (1 .. cur) /\ \A k \in DOMAIN view.log : view.log[k] \in 1 .. cur
        BY DEF Promised, WrittenIn
    <2> HIDE DEF P
    <2> QED
        BY <2>1, <1>3 DEF PlacesOf
<1>5. W' = {P[id] : id \in Waiting'} /\ L' = PlacesOf(P, view'.log)
    <2>1. Waiting' \in SUBSET (1 .. n) /\ \A k \in DOMAIN view'.log : view'.log[k] \in 1 .. n
        BY DEF Promised, WrittenIn, n
    <2>2. \A id \in 1 .. n : PlaceOf(id)' = P[id]
        BY DEF PlaceOf, cd, Places
    <2> HIDE DEF P
    <2>3. W' = {PlaceOf(id)' : id \in Waiting'}
        OBVIOUS
    <2>4. L' = [k \in DOMAIN view'.log |->
                    [seq |-> cd[view'.log[k]].start, poc |-> cd[view'.log[k]].poc]]
        BY DEF PlaceOf, cd
    <2>5. \A id \in 1 .. n : P[id] = [seq |-> cd[id].start, poc |-> cd[id].poc]
        BY DEF P, Places
    <2>6. L' = PlacesOf(P, view'.log)
        <3> HIDE DEF L
        <3> QED
            BY <2>1, <2>4, <2>5 DEF PlacesOf
    <2>7. W' = {P[id] : id \in Waiting'}
        BY <2>1, <2>2, <2>3
    <2> QED
        BY <2>6, <2>7
<1> HIDE DEF P, W, L
<1>6. PICK new \in SUBSET {cur'} :
          Moves(view', view, new) /\ (\A id \in new : id \notin Waiting)
    BY DEF OStep
<1>7. PICK s \in Seq(Nat) :
          view'.log = view.log \o s /\ WrittenIn(s) \cup Waiting' = Waiting \cup new
    BY <1>6 DEF Moves, Waiting
<1> DEFINE N == {P[id] : id \in new}
           B == {P[id] : id \in WrittenIn(s)}
<1>8. /\ view.log \in Seq(Nat) /\ Waiting \in SUBSET (1 .. n) /\ Waiting' \in SUBSET (1 .. n)
      /\ WrittenIn(view.log) \in SUBSET (1 .. n) /\ WrittenIn(s) \in SUBSET (1 .. n)
      /\ LogInOrder(cd, s)
      /\ \A j \in DOMAIN view.log, id \in WrittenIn(s) : PrecedesIn(cd, view.log[j], id)
    <2>1. view.log \in Seq(Nat) /\ Waiting \in SUBSET (1 .. n) /\ Waiting' \in SUBSET (1 .. n)
        BY <1>1 DEF Promised, n
    <2>2. WrittenIn(view'.log) \in SUBSET (1 .. n) /\ LogInOrder(cd, view'.log)
        BY DEF Promised, n, cd
    <2> DEFINE D == 1 .. n
               log == view.log
    <2>3. D \in SUBSET Nat /\ log \in Seq(Nat)
        BY <1>1, <2>1
    <2>4. WrittenIn(log \o s) \in SUBSET D /\ LogInOrder(cd, log \o s)
        BY <2>2, <1>7
    <2> HIDE DEF D, log
    <2>5. /\ WrittenIn(log) \in SUBSET D /\ WrittenIn(s) \in SUBSET D /\ LogInOrder(cd, s)
          /\ \A j \in DOMAIN log, id \in WrittenIn(s) : PrecedesIn(cd, log[j], id)
        BY <2>3, <2>4, AddedInOrder
    <2> QED
        BY <2>1, <2>5 DEF D, log
<1>9. \A a, b \in 1 .. n : Promise!Before(P[a], P[b]) <=> PrecedesIn(cd, a, b)
    BY <1>2 DEF Promise!Before, PrecedesIn
<1>10. \A k \in DOMAIN view'.log, id \in Waiting' : PrecedesIn(cd, view'.log[k], id)
    BY DEF Promised, cd
<1>11. /\ \A k \in DOMAIN view.log, id \in Waiting' : PrecedesIn(cd, view.log[k], id)
       /\ \A a \in WrittenIn(s), id \in Waiting' : PrecedesIn(cd, a, id)
    <2>1. WrittenIn(view.log) \cup WrittenIn(s) = WrittenIn(view'.log)
        BY <1>7, <1>8, Appended
    <2>2. \A a \in WrittenIn(view'.log), id \in Waiting' : PrecedesIn(cd, a, id)
        BY <1>10 DEF WrittenIn
    <2> QED
        BY <2>1, <2>2 DEF WrittenIn
<1>12. new \in SUBSET (1 .. n)
    BY <1>7, <1>8
<1>13. N \in Promise!Arrivals
    <2>1. new = {} \/ new = {n}
        BY <1>6 DEF n
    <2>2. CASE new = {}
        BY <2>2 DEF Promise!Arrivals
    <2>3. CASE new = {n}
        <3>1. n \in 1 .. n
            BY <2>3, <1>12
        <3>2. P[n] \in Promise!Place
            BY <3>1, <1>2 DEF X, Promise!Place
        <3> QED
            BY <2>3, <3>2 DEF Promise!Arrivals
    <2> QED
        BY <2>1, <2>2, <2>3
<1>14. B \in SUBSET (W \cup N)
    BY <1>4, <1>7
<1>15. \A p \in N : p \notin W
    <2> SUFFICES ASSUME NEW id \in new, NEW x \in Waiting, P[id] = P[x] PROVE FALSE
        BY <1>4
    <2>1. id \in 1 .. n /\ x \in 1 .. n
        BY <1>8, <1>12
    <2>2. cd[id].start = cd[x].start /\ cd[id].poc = cd[x].poc
        BY <2>1, <1>2
    <2>3. id = x
        BY <2>1, <2>2, <1>1, OnePocEach
    <2> QED
        BY <2>3, <1>6
<1>16. \A p \in N, k \in DOMAIN L : Promise!Before(L[k], p)
    <2> SUFFICES ASSUME NEW id \in new, NEW k \in DOMAIN L PROVE Promise!Before(L[k], P[id])
        OBVIOUS
    <2>1. k \in DOMAIN view.log /\ L[k] = P[view.log[k]]
        BY <1>4 DEF PlacesOf
    <2>2. id \in WrittenIn(s) \cup Waiting'
        BY <1>7
    <2>3. PrecedesIn(cd, view.log[k], id)
        BY <2>1, <2>2, <1>8, <1>11
    <2>4. view.log[k] \in 1 .. n /\ id \in 1 .. n
        BY <2>1, <1>8, <1>12 DEF WrittenIn
    <2> QED
        BY <2>1, <2>3, <2>4, <1>9
<1>17. \A p \in B, q \in (W \cup N) \ B : Promise!Before(p, q)
    <2> SUFFICES ASSUME NEW a \in WrittenIn(s), NEW id \in Waiting \cup new, P[id] \notin B
                 PROVE  Promise!Before(P[a], P[id])
        BY <1>4
    <2>1. id \in Waiting'
        BY <1>7
    <2> QED
        BY <2>1, <1>8, <1>9, <1>11
<1>18. W' = (W \cup N) \ B
    <2>1. \A id \in Waiting', a \in WrittenIn(s) : P[id] # P[a]
        <3> SUFFICES ASSUME NEW id \in Waiting', NEW a \in WrittenIn(s), P[id] = P[a] PROVE FALSE
            OBVIOUS
        <3>1. id \in 1 .. n /\ a \in 1 .. n /\ PrecedesIn(cd, a, id)
            BY <1>8, <1>11
        <3>2. cd[id].start = cd[a].start /\ cd[id].poc = cd[a].poc
            BY <3>1, <1>2
        <3>3. cd[id].start \in Int /\ cd[id].poc \in Int
            BY <3>1, <1>1 DEF Pocs
        <3> QED
            BY <3>1, <3>2, <3>3 DEF PrecedesIn
    <2> QED
        BY <2>1, <1>4, <1>5, <1>7
<1>19. PlacesOf(P, s) \in Promise!Writings(B) /\ L' = L \o PlacesOf(P, s)
    <2>1. \A id \in 1 .. n : cd[id].start \in Int /\ cd[id].poc \in Int
        BY <1>1 DEF Pocs
    <2>2. PlacesOf(P, s) \in Promise!Writings(B)
        <3>1. PlacesOf(Places(cd, n), s)
                  \in Promise!Writings({Places(cd, n)[id] : id \in WrittenIn(s)})
            BY <2>1, <1>1, <1>8, WrittenInOrder
        <3> QED
            BY <3>1 DEF P
    <2>4. PlacesOf(P, view.log \o s) = PlacesOf(P, view.log) \o PlacesOf(P, s)
        BY <1>8, PlacesAppended
    <2> QED
        BY <2>2, <2>4, <1>4, <1>5, <1>7
<1>20. Promise!Output(N, B)
    <2> HIDE DEF N, B
    <2> QED
        BY <1>15, <1>16, <1>17, <1>18, <1>19 DEF Promise!Output, W, L
<1> QED
    <2> HIDE DEF N, B
    <2> QED
        BY <1>13, <1>14, <1>20 DEF Promise!Next, W

(* The written file and the pictures that wait keep the promise of         *)
(* PictureOutput: xWriteOutput and xFlushOutput write a picture only once  *)
(* no lower one waits or can still arrive, sequence after sequence.        *)
THEOREM DecoderKeepsPromise == ASSUME Conforming PROVE Spec => KeepsPromise
<1>1. OInv => Promised
    BY OInvPromises
<1>2. Conforming /\ Init => Promise!Init
    <2> SUFFICES ASSUME Init PROVE Promise!Init
        OBVIOUS
    <2>1. view.list = <<>> /\ view.log = <<>>
        BY DEF Init
    <2> QED
        BY <2>1 DEF Promise!Init, Waiting, WaitingIn
<1>3. OInv /\ OInv' /\ Promised /\ Promised' /\ [Next]_vars => Promise!Next
    <2> SUFFICES ASSUME OInv, OInv', Promised, Promised', [Next]_vars PROVE Promise!Next
        OBVIOUS
    <2>1. OStep
        BY EveryStepOutputs
    <2>2. SameUpTo(cur, coded', coded) /\ cur <= cur'
        BY CodedGrows
    <2> QED
        BY <2>1, <2>2, PromiseStep
<1> QED
    BY <1>1, <1>2, <1>3, AlwaysOInv, PTL DEF Spec, KeepsPromise, Promise!Spec

----------------------------------------------------------------------------
(* A stream without EOS NAL units.  Then no picture is left unfinished: what *)
(* has been written or waits is what the picture headers ask for, up to    *)
(* the picture that is being decoded.                                      *)
ToShow(cd, c, unfinished) == {id \in 1 .. c : cd[id].out /\ (id # c \/ ~unfinished)}

OShown ==
    /\ nal.kind # "EOS" /\ ~loopFiltered /\ (cur # 0 => ~firstInSeq)
    /\ nal.kind = "EOF" => ~Unfinished
    /\ Written \cup Waiting = ToShow(coded, cur, Unfinished)

(* How the loop goes through a picture: it starts once the one before it   *)
(* has been finished, and is finished once.                                *)
OneByOne ==
    \/ cur' = cur /\ (Unfinished' => Unfinished)
    \/ cur' = cur + 1 /\ ~Unfinished

(* The application reads no EOS NAL unit, and so leaves no picture out.    *)
LEMMA NothingLeftOut ==
    ASSUME Conforming, AfterEos = {}, OInv, OShown, [Next]_vars
    PROVE  /\ nal'.kind # "EOS" /\ ~loopFiltered' /\ (cur' # 0 => ~firstInSeq')
           /\ nal'.kind = "EOF" => ~Unfinished'
           /\ OneByOne
<1> USE OInvFields
<1>1. nal.kind # "EOS" /\ ~loopFiltered /\ (cur # 0 => ~firstInSeq)
      /\ (nal.kind = "EOF" => ~Unfinished)
    BY DEF OShown
<1>2. NextNal => nal'.kind # "EOS"
    BY <1>1, NextNalContinues
       DEF CInv, IInv, ContinuesPicture, ContinuesWithPicture, ContinuesWithEos, ContinuesWithEof,
           Slice, Eof
<1>3. CASE NewPicture
    BY <1>1, <1>3 DEF NewPicture, stream, OneByOne, Unfinished
<1>4. CASE ConsumeSlice
    <2>1. /\ nal.kind = "SLICE" /\ (firstInPic \/ nal.addr > 0) /\ NextNal
          /\ LET list == IF firstInPic
                         THEN StartPicture(Prepared.list, nal.id, Pic.poc, irap.poc, Pic.rpl)
                         ELSE Prepared.list
             IN  AfterSlice([Prepared EXCEPT !.list = list], nal.id, FALSE, FALSE)
        BY <1>4, ConsumeSliceDecodes
    <2>2. PICK v : AfterSlice(v, nal.id, FALSE, FALSE)
        BY <2>1
    <2>3. /\ cur' = nal.id /\ firstInSeq' = FALSE
          /\ firstInPic' = (FALSE \/ (nal'.kind = "EOF" /\ ~FALSE /\ ~loopFiltered)
                                  \/ (nal'.kind = "EOF" /\ FALSE))
          /\ loopFiltered' = (loopFiltered /\ ~(nal'.kind = "EOF" /\ ~FALSE))
        BY <2>2 DEF AfterSlice
    <2>4. nal.id = Len(coded) /\ nal.addr \in Nat
        BY <2>1 DEF CInv, IInv, SliceIsAhead, StreamType, NalUnit
    <2>5. /\ cur = (IF nal.addr = 0 THEN Len(coded) - 1 ELSE Len(coded))
          /\ nal.addr > 0 => Unfinished
        BY <2>1 DEF CInv, CShape
    <2>6. OneByOne
        <3>1. CASE nal.addr = 0
            <4>1. ~(nal.addr > 0)
                BY <3>1
            <4>2. ~Unfinished
                BY <4>1, <2>1 DEF Unfinished
            <4>3. cur' = cur + 1
                BY <3>1, <2>3, <2>4, <2>5
            <4> QED
                BY <4>2, <4>3 DEF OneByOne
        <3>2. CASE nal.addr # 0
            <4>1. Unfinished /\ cur' = cur
                BY <3>2, <2>3, <2>4, <2>5
            <4> QED
                BY <4>1 DEF OneByOne
        <3> QED
            BY <3>1, <3>2
    <2> QED
        BY <1>1, <1>2, <2>1, <2>3, <2>6 DEF Unfinished
<1>5. CASE ConsumeEos
    BY <1>1, <1>5 DEF ConsumeEos
<1>6. CASE ReadParameterSets
    <2>1. NextNal /\ nal.kind = "PS" /\ UNCHANGED <<cur, firstInPic, firstInSeq, loopFiltered>>
        BY <1>6 DEF ReadParameterSets, lib, app
    <2>2. cur = 0 /\ ~Unfinished /\ cur' = cur
        BY <2>1 DEF CInv, CShape, CFresh, Unfinished
    <2>3. ~Unfinished'
        BY <2>1, <2>2 DEF Unfinished
    <2> QED
        BY <1>1, <1>2, <2>1, <2>2, <2>3 DEF OneByOne
<1>7. CASE Exit \/ Terminated \/ UNCHANGED vars
    <2>1. UNCHANGED <<nal, cur, firstInPic, firstInSeq, loopFiltered>>
        BY <1>7 DEF Exit, Terminated, vars, stream, lib, app
    <2> QED
        BY <1>1, <2>1 DEF OneByOne, Unfinished
<1>8. CASE PictureIsLost
    BY <1>8 DEF PictureIsLost, LosePicture, Conforming
<1> QED
    BY <1>3, <1>4, <1>5, <1>6, <1>7, <1>8 DEF Next

(* So the pictures to show and those shown grow by the same picture.       *)
LEMMA OShownStays ==
    ASSUME Conforming, AfterEos = {}, OInv, OShown, [Next]_vars
    PROVE  OShown'
<1>1. /\ nal'.kind # "EOS" /\ ~loopFiltered' /\ (cur' # 0 => ~firstInSeq')
      /\ nal'.kind = "EOF" => ~Unfinished'
      /\ OneByOne
    BY NothingLeftOut
<1>2. PICK new \in SUBSET {cur'} : Moves(view', view, new) /\ new = Arrived
    BY EveryStepOutputs DEF OStep, OShown
<1>3. SameUpTo(cur, coded', coded) /\ cur \in Nat /\ view.log \in Seq(Nat)
    BY CodedGrows, OInvFields
<1>4. Written' \cup Waiting' = Written \cup Waiting \cup Arrived
    <2>1. PICK s \in Seq(Nat) :
              view'.log = view.log \o s /\ WrittenIn(s) \cup Waiting' = Waiting \cup new
        BY <1>2 DEF Moves, Waiting
    <2>2. Written' = Written \cup WrittenIn(s)
        BY <2>1, <1>3, Appended DEF Written
    <2> QED
        BY <2>1, <2>2, <1>2
<1>5. ToShow(coded', cur', Unfinished') = ToShow(coded, cur, Unfinished) \cup Arrived
    <2>1. \A id \in 1 .. cur : coded'[id] = coded[id]
        BY <1>3 DEF SameUpTo
    <2>2. CASE cur' = cur /\ (Unfinished' => Unfinished)
        <3>1. ToShow(coded', cur, Unfinished')
                  = {id \in 1 .. cur : coded[id].out /\ (id # cur \/ ~Unfinished')}
            BY <2>1 DEF ToShow
        <3>2. CASE Unfinished' = Unfinished
            <4>1. Arrived = {}
                BY <3>2, <2>2 DEF Arrived
            <4> QED
                BY <3>1, <3>2, <4>1, <2>2 DEF ToShow
        <3>3. CASE Unfinished /\ ~Unfinished'
            <4>1. CASE cur = 0
                <5>1. FALSE
                    BY <3>3, <4>1 DEF OInv, CInv, CFresh, Unfinished
                <5> QED
                    BY <5>1
            <4>2. CASE cur # 0
                <5>1. cur \in 1 .. cur /\ coded'[cur].out = coded[cur].out
                    BY <4>2, <1>3, <2>1
                <5>2. Arrived = IF coded[cur].out THEN {cur} ELSE {}
                    BY <3>3, <2>2, <5>1 DEF Arrived
                <5> QED
                    BY <3>1, <3>3, <5>1, <5>2, <2>2 DEF ToShow
            <4> QED
                BY <4>1, <4>2
        <3>4. Unfinished \in BOOLEAN /\ Unfinished' \in BOOLEAN
            BY DEF Unfinished
        <3> QED
            BY <3>2, <3>3, <3>4, <2>2
    <2>3. CASE cur' = cur + 1 /\ ~Unfinished
        <3>1. ToShow(coded, cur, Unfinished) = {id \in 1 .. cur : coded[id].out}
            BY <2>3 DEF ToShow
        <3>2. Arrived = IF ~Unfinished' /\ coded'[cur'].out THEN {cur'} ELSE {}
            BY <2>3, <1>3 DEF Arrived
        <3>3. \A id : id \in 1 .. cur' <=> id \in 1 .. cur \/ id = cur'
            BY <2>3, <1>3
        <3>4. cur' \notin 1 .. cur
            BY <2>3, <1>3
        <3> QED
            BY <2>1, <3>1, <3>2, <3>3, <3>4 DEF ToShow
    <2> QED
        BY <1>1, <2>2, <2>3 DEF OneByOne
<1> QED
    BY <1>1, <1>4, <1>5 DEF OShown

(* When the decoder of a stream without EOS NAL units is done, it has      *)
(* written the pictures that their headers ask for, and no other: the one  *)
(* that DecApp leaves unfinished is lost only after an EOS NAL unit.       *)
THEOREM DecoderShowsAll == ASSUME Conforming, AfterEos = {} PROVE Spec => []ShowsAll
<1>1. OInv /\ OShown => ShowsAll
    <2> SUFFICES ASSUME OInv, OShown, done
                 PROVE  Written = {id \in DOMAIN coded : Shown(id)}
        BY DEF ShowsAll
    <2> USE OInvFields
    <2>1. nal.kind = "EOF" /\ cur = Len(coded)
        BY DEF CInv, CShape
    <2>2. Waiting = {}
        BY DEF OView, Waiting, WaitingIn
    <2>3. Written = {id \in 1 .. cur : coded[id].out}
        BY <2>1, <2>2 DEF OShown, ToShow
    <2>4. ASSUME NEW id \in 1 .. cur PROVE Shown(id) = coded[id].out
        <3>1. coded[id].out \in BOOLEAN
            OBVIOUS
        <3>2. ASSUME coded[id].type = "RASL" PROVE ~StartsCvs(coded[id].irap)
            <4>1. id \in Nat \ {0} /\ \A i \in 1 .. id : Lawful(coded, i)
                OBVIOUS
            <4>2. coded[id].irap # coded[id].start
                BY <4>1, <3>2, RaslFollowsCra
            <4>3. id \in 1 .. id /\ coded[id].irap \in coded[id].start .. id
                  /\ coded[id].start \in 1 .. id
                  /\ \A i \in coded[id].start .. id : coded[i].start = coded[id].start
                BY <4>1 DEF Lawful, Placed
            <4>4. coded[coded[id].irap].start = coded[id].start
                BY <4>3
            <4> QED
                BY <4>2, <4>4 DEF StartsCvs
        <3> QED
            BY <3>1, <3>2 DEF Shown
    <2> QED
        BY <2>1, <2>3, <2>4
<1>2. Init => OShown
    <2> SUFFICES ASSUME Init PROVE OShown
        OBVIOUS
    <2>1. /\ nal.kind = "PS" /\ ~loopFiltered /\ cur = 0 /\ firstInPic
          /\ view.list = <<>> /\ view.log = <<>>
        BY DEF Init, InitStream, ParameterSets
    <2>2. Written = {} /\ Waiting = {} /\ ToShow(coded, cur, Unfinished) = {}
        BY <2>1 DEF Written, WrittenIn, Waiting, WaitingIn, ToShow
    <2> QED
        BY <2>1, <2>2 DEF OShown
<1>3. OInv /\ OShown /\ [Next]_vars => OShown'
    BY OShownStays
<1> QED
    BY <1>1, <1>2, <1>3, AlwaysOInv, PTL DEF Spec
=============================================================================
