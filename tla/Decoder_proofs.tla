---------------------------- MODULE Decoder_proofs ----------------------------
(***************************************************************************)
(* What the decoding process keeps on any stream of any length, conforming *)
(* or not, with losses and random access, for every SPS limit: its state   *)
(* is well typed, no two buffers hold the same picture, and the buffer of  *)
(* a picture that waits for output is neither given away nor deleted.      *)
(*                                                                         *)
(* The first part is about the functions on the picture list, for lists of *)
(* any length: sorting permutes the list, the positions that an output     *)
(* pass writes are enumerated once each, a buffer is taken inside the list *)
(* or right behind it, and no function forges a picture.                   *)
(***************************************************************************)
EXTENDS Decoder, FiniteSetTheorems, TLAPS

----------------------------------------------------------------------------
StrictTotalOrder(S, R) ==
    /\ \A x \in S : <<x, x>> \notin R
    /\ \A x, y \in S : x # y => <<x, y>> \in R \/ <<y, x>> \in R
    /\ \A x, y, z \in S : <<x, y>> \in R /\ <<y, z>> \in R => <<x, z>> \in R

Below(S, R, x) == {y \in S : <<y, x>> \in R}

Rank(S, R, x) == Cardinality(Below(S, R, x))

Ranked(S, R) ==
    /\ \A x \in S : Rank(S, R, x) \in 0 .. Cardinality(S) - 1
    /\ \A x, y \in S : Rank(S, R, x) = Rank(S, R, y) => x = y
    /\ \A k \in 0 .. Cardinality(S) - 1 : \E x \in S : Rank(S, R, x) = k
    /\ \A x, y \in S : <<x, y>> \in R => Rank(S, R, x) < Rank(S, R, y)

(* The elements of a finite set under a strict total order are told apart  *)
(* by the number of elements before them, and every number occurs.         *)
LEMMA Ranks ==
    ASSUME NEW S, IsFiniteSet(S), NEW R, StrictTotalOrder(S, R)
    PROVE  Ranked(S, R)
<1> DEFINE below(x) == {y \in S : <<y, x>> \in R}
           rank(x) == Cardinality(below(x))
           n == Cardinality(S)
           f == [x \in S |-> rank(x)]
<1>1. n \in Nat
    BY FS_CardinalityType
<1>2. \A x \in S : IsFiniteSet(below(x)) /\ rank(x) \in Nat
    BY FS_Subset, FS_CardinalityType
<1>3. ASSUME NEW x \in S, NEW y \in S, <<x, y>> \in R
      PROVE  rank(x) < rank(y)
    <2>1. below(x) \in SUBSET below(y) /\ x \in below(y) /\ x \notin below(x)
        BY <1>3 DEF StrictTotalOrder
    <2>2. IsFiniteSet(below(x)) /\ IsFiniteSet(below(y)) /\ rank(x) \in Nat /\ rank(y) \in Nat
        BY <1>2
    <2>3. rank(x) <= rank(y) /\ (rank(y) = rank(x) => below(y) = below(x))
        BY <2>1, <2>2, FS_Subset
    <2> QED
        BY <2>1, <2>2, <2>3
<1>4. \A x, y \in S : rank(x) = rank(y) => x = y
    <2> SUFFICES ASSUME NEW x \in S, NEW y \in S, x # y
                 PROVE  rank(x) # rank(y)
        OBVIOUS
    <2>1. rank(x) < rank(y) \/ rank(y) < rank(x)
        BY <1>3, ZenonT(40) DEF StrictTotalOrder
    <2>2. rank(x) \in Nat /\ rank(y) \in Nat
        BY <1>2
    <2> HIDE DEF rank
    <2> QED
        BY <2>1, <2>2
<1>5. \A x \in S : rank(x) \in 0 .. n - 1
    <2> TAKE x \in S
    <2>1. below(x) \in SUBSET S /\ below(x) # S
        BY DEF StrictTotalOrder
    <2>2. rank(x) <= n /\ (n = rank(x) => S = below(x))
        BY <2>1, FS_Subset
    <2> HIDE DEF rank, n, below
    <2> QED
        BY <2>1, <2>2, <1>1, <1>2
<1>6. f \in Injection(S, 0 .. n - 1)
    <2> HIDE DEF rank, n
    <2>1. f \in [S -> 0 .. n - 1] /\ \A a, b \in S : f[a] = f[b] => a = b
        BY <1>4, <1>5
    <2> HIDE DEF f
    <2> QED
        BY <2>1 DEF Injection, IsInjective
<1>7. IsFiniteSet(0 .. n - 1) /\ Cardinality(0 .. n - 1) = n
    <2> HIDE DEF n
    <2> QED
        BY <1>1, FS_Interval
<1>8. f \in Surjection(S, 0 .. n - 1)
    <2> HIDE DEF f
    <2>1. n = Cardinality(S)
        OBVIOUS
    <2> HIDE DEF n
    <2> QED
        BY <1>6, <1>7, <2>1, FS_Injection
<1>9. \A k \in 0 .. n - 1 : \E x \in S : rank(x) = k
    <2> HIDE DEF rank, n
    <2> QED
        BY <1>8 DEF Surjection
<1> QED
    BY <1>3, <1>4, <1>5, <1>9 DEF Ranked, Rank, Below

----------------------------------------------------------------------------
(* The same for a finite set of integers, counting up to an element: this  *)
(* is what Ascending enumerates.                                           *)
LEMMA CountUpTo ==
    ASSUME NEW S \in SUBSET Int, IsFiniteSet(S)
    PROVE  LET up(i) == Cardinality({j \in S : j <= i})
           IN  /\ \A i \in S : up(i) \in 1 .. Cardinality(S)
               /\ \A i, j \in S : up(i) = up(j) => i = j
               /\ \A k \in 1 .. Cardinality(S) : \E i \in S : up(i) = k
<1> DEFINE R == {p \in S \X S : p[1] < p[2]}
           rank(x) == Rank(S, R, x)
           up(i) == Cardinality({j \in S : j <= i})
<1>1. Cardinality(S) \in Nat
    BY FS_CardinalityType
<1>2. \A x, y \in S : <<x, y>> \in R <=> x < y
    OBVIOUS
<1>3. /\ \A x \in S : rank(x) \in 0 .. Cardinality(S) - 1
      /\ \A x, y \in S : rank(x) = rank(y) => x = y
      /\ \A k \in 0 .. Cardinality(S) - 1 : \E x \in S : rank(x) = k
    <2>1. StrictTotalOrder(S, R)
        BY <1>2 DEF StrictTotalOrder
    <2> HIDE DEF R
    <2> HIDE DEF rank, up
    <2>2. Ranked(S, R)
        BY <2>1, Ranks
    <2> QED
        BY <2>2 DEF Ranked, rank
<1>4. \A x \in S : up(x) = rank(x) + 1
    <2> TAKE x \in S
    <2> DEFINE below == Below(S, R, x)
    <2>1. {j \in S : j <= x} = below \cup {x} /\ x \notin below
        <3> HIDE DEF R
        <3>1. \A y : y \in below <=> y \in S /\ y < x
            BY <1>2 DEF Below
        <3> HIDE DEF below
        <3>2. \A y \in S : y <= x <=> y < x \/ y = x
            OBVIOUS
        <3>3. x \notin below
            BY <3>1
        <3>4. \A y : y \in {j \in S : j <= x} <=> y \in below \/ y = x
            BY <3>1, <3>2
        <3> QED
            BY <3>3, <3>4
    <2>2. IsFiniteSet(below)
        BY FS_Subset DEF Below
    <2>3. Cardinality(below \cup {x}) = Cardinality(below) + 1
        BY <2>1, <2>2, FS_AddElement
    <2> QED
        BY <2>1, <2>3 DEF Rank
<1> HIDE DEF rank, up
<1>5. \A i \in S : up(i) \in 1 .. Cardinality(S)
    BY <1>1, <1>3, <1>4
<1>6. \A i, j \in S : up(i) = up(j) => i = j
    BY <1>1, <1>3, <1>4
<1>7. \A k \in 1 .. Cardinality(S) : \E i \in S : up(i) = k
    <2> TAKE k \in 1 .. Cardinality(S)
    <2>1. k - 1 \in 0 .. Cardinality(S) - 1
        BY <1>1
    <2>2. PICK i \in S : rank(i) = k - 1
        BY <2>1, <1>3
    <2> QED
        BY <2>2, <1>4, <1>1
<1> QED
    BY <1>5, <1>6, <1>7 DEF up

(* Ascending lists the elements of a finite set, each of them at some      *)
(* place.                                                                  *)
LEMMA AscendingEnumerates ==
    ASSUME NEW S \in SUBSET Int, IsFiniteSet(S)
    PROVE  /\ Cardinality(S) \in Nat
           /\ Ascending(S) \in [1 .. Cardinality(S) -> S]
           /\ \A i \in S : \E k \in 1 .. Cardinality(S) : Ascending(S)[k] = i
<1> DEFINE up(i) == Cardinality({j \in S : j <= i})
<1>1. Cardinality(S) \in Nat
    BY FS_CardinalityType
<1>2. /\ \A i \in S : up(i) \in 1 .. Cardinality(S)
      /\ \A i, j \in S : up(i) = up(j) => i = j
      /\ \A k \in 1 .. Cardinality(S) : \E i \in S : up(i) = k
    BY CountUpTo
<1>3. Ascending(S) = [k \in 1 .. Cardinality(S) |-> CHOOSE i \in S : up(i) = k]
    BY DEF Ascending
<1> HIDE DEF up
<1>4. \A k \in 1 .. Cardinality(S) : Ascending(S)[k] \in S /\ up(Ascending(S)[k]) = k
    BY <1>2, <1>3
<1>5. \A i \in S : Ascending(S)[up(i)] = i
    BY <1>2, <1>4
<1> QED
    BY <1>1, <1>2, <1>3, <1>4, <1>5

(* A finite set of integers that is not empty has a first and a last element. *)
LEMMA FirstAndLast ==
    ASSUME NEW S \in SUBSET Int, IsFiniteSet(S), S # {}
    PROVE  /\ \E i \in S : \A j \in S : i <= j
           /\ \E i \in S : \A j \in S : j <= i
<1> DEFINE n == Cardinality(S)
           up(i) == {j \in S : j <= i}
<1>1. n \in Nat /\ n # 0
    BY FS_CardinalityType, FS_EmptySet
<1>2. \A k \in 1 .. n : \E i \in S : Cardinality(up(i)) = k
    BY CountUpTo
<1>3. \A i \in S : up(i) \in SUBSET S /\ IsFiniteSet(up(i)) /\ i \in up(i)
    BY FS_Subset
<1>4. \E i \in S : \A j \in S : j <= i
    <2>1. PICK i \in S : Cardinality(up(i)) = n
        BY <1>1, <1>2
    <2>2. up(i) = S
        BY <2>1, <1>3, FS_Subset
    <2> QED
        BY <2>2
<1>5. \E i \in S : \A j \in S : i <= j
    <2>1. PICK i \in S : Cardinality(up(i)) = 1
        BY <1>1, <1>2
    <2>2. PICK x : up(i) = {x}
        BY <2>1, <1>3, FS_Singleton
    <2>3. up(i) = {i}
        BY <2>2, <1>3
    <2>4. \A j \in S : j <= i => j = i
        BY <2>3
    <2> QED
        BY <2>4
<1> QED
    BY <1>4, <1>5

----------------------------------------------------------------------------
(* Slice::sortPicList permutes the list and leaves it in order. *)
IsSortingOf(q, list) ==
    /\ q \in Seq(Picture)
    /\ DOMAIN q = DOMAIN list
    /\ \E p \in [DOMAIN list -> DOMAIN list] :
          /\ \A j, k \in DOMAIN list : p[j] = p[k] => j = k
          /\ \A i \in DOMAIN list : \E k \in DOMAIN list : p[k] = i
          /\ \A k \in DOMAIN list : q[k] = list[p[k]]
          /\ \A j, k \in DOMAIN list : j < k => Precedes(list, p[j], p[k])

(* A place is found for every picture, no picture is found twice, and each *)
(* precedes the next.                                                      *)
LEMMA SortPermutes ==
    ASSUME NEW list \in Seq(Picture)
    PROVE  IsSortingOf(SortPicList(list), list)
<1> DEFINE D == DOMAIN list
           R == {e \in D \X D : Precedes(list, e[1], e[2])}
           at(k) == CHOOSE i \in D : Rank(D, R, i) = k - 1
           p == [k \in D |-> at(k)]
           n == Len(list)
<1> HIDE DEF R, at, p
<1>1. n \in Nat /\ D = 1 .. n /\ IsFiniteSet(D) /\ Cardinality(D) = n
    <2>1. n \in Nat /\ D = 1 .. n
        OBVIOUS
    <2> HIDE DEF n, D
    <2> QED
        BY <2>1, FS_Interval
<1>2. \A i \in D : list[i] \in Picture /\ list[i].poc \in Int
    <2>1. \A i \in D : list[i] \in Picture
        OBVIOUS
    <2>2. \A pic \in Picture : pic.poc \in Int
        BY DEF Picture
    <2> QED
        BY <2>1, <2>2
<1>3. \A i, j \in D : <<i, j>> \in R <=> Precedes(list, i, j)
    BY DEF R
<1>4. StrictTotalOrder(D, R)
    <2>1. \A i \in D : ~Precedes(list, i, i)
        BY <1>1, <1>2 DEF Precedes
    <2>2. \A i, j \in D : i # j => Precedes(list, i, j) \/ Precedes(list, j, i)
        BY <1>1, <1>2 DEF Precedes
    <2>3. \A i, j, k \in D : Precedes(list, i, j) /\ Precedes(list, j, k) => Precedes(list, i, k)
        BY <1>1, <1>2 DEF Precedes
    <2> HIDE DEF D
    <2> QED
        BY <2>1, <2>2, <2>3, <1>3 DEF StrictTotalOrder
<1>5. /\ \A i \in D : Rank(D, R, i) \in 0 .. n - 1
      /\ \A i, j \in D : Rank(D, R, i) = Rank(D, R, j) => i = j
      /\ \A k \in 0 .. n - 1 : \E i \in D : Rank(D, R, i) = k
      /\ \A i, j \in D : <<i, j>> \in R => Rank(D, R, i) < Rank(D, R, j)
    <2> HIDE DEF D, n
    <2>1. Ranked(D, R)
        BY <1>1, <1>4, Ranks
    <2> QED
        BY <2>1, <1>1 DEF Ranked
<1>6. \A i \in D : Cardinality({j \in D : Precedes(list, j, i)}) = Rank(D, R, i)
    <2> TAKE i \in D
    <2>1. {j \in D : Precedes(list, j, i)} = Below(D, R, i)
        <3> HIDE DEF D
        <3> QED
            BY <1>3 DEF Below
    <2> QED
        BY <2>1 DEF Rank
<1>7. \A k \in D : at(k) \in D /\ Rank(D, R, at(k)) = k - 1
    <2> HIDE DEF n
    <2> TAKE k \in D
    <2>1. k - 1 \in 0 .. n - 1
        BY <1>1
    <2>2. \E i \in D : Rank(D, R, i) = k - 1
        BY <2>1, <1>5
    <2> QED
        BY <2>2 DEF at
<1>8. \A i \in D : \E k \in D : at(k) = i
    <2> HIDE DEF n
    <2> TAKE i \in D
    <2>1. Rank(D, R, i) + 1 \in D
        BY <1>1, <1>5
    <2>2. Rank(D, R, at(Rank(D, R, i) + 1)) = Rank(D, R, i) /\ at(Rank(D, R, i) + 1) \in D
        BY <2>1, <1>1, <1>5, <1>7
    <2> QED
        BY <2>1, <2>2, <1>5
<1>9. SortPicList(list) = [k \in D |-> list[at(k)]]
    <2>1. \A k \in D : (CHOOSE i \in D : Cardinality({j \in D : Precedes(list, j, i)}) = k - 1) = at(k)
        <3> HIDE DEF D
        <3> QED
            BY <1>6 DEF at
    <2>2. SortPicList(list) =
              [k \in D |-> list[CHOOSE i \in D :
                  Cardinality({j \in D : Precedes(list, j, i)}) = k - 1]]
        BY DEF SortPicList
    <2> HIDE DEF D
    <2> QED
        BY <2>1, <2>2
<1>10. p \in [D -> D] /\ \A k \in D : p[k] = at(k)
    BY <1>7 DEF p
<1>11. \A j, k \in D : p[j] = p[k] => j = k
    <2> HIDE DEF D
    <2> QED
        BY <1>7, <1>10, <1>1
<1>12. \A i \in D : \E k \in D : p[k] = i
    BY <1>8, <1>10
<1>13. SortPicList(list) \in Seq(Picture) /\ DOMAIN SortPicList(list) = D
    <2> QED
        BY <1>1, <1>2, <1>7, <1>9
<1>14. \A k \in D : SortPicList(list)[k] = list[p[k]]
    BY <1>9, <1>10
<1>15. ASSUME NEW j \in D, NEW k \in D, j < k PROVE Precedes(list, p[j], p[k])
    <2> HIDE DEF D
    <2>1. p[j] \in D /\ p[k] \in D /\ Rank(D, R, p[j]) = j - 1 /\ Rank(D, R, p[k]) = k - 1
        BY <1>7, <1>10
    <2>2. j \in Int /\ k \in Int
        BY <1>1
    <2>3. ~(<<p[k], p[j]>> \in R)
        <3> SUFFICES ASSUME <<p[k], p[j]>> \in R PROVE FALSE
            OBVIOUS
        <3>1. Rank(D, R, p[k]) < Rank(D, R, p[j])
            BY <2>1, <1>5
        <3>2. k - 1 < j - 1
            BY <3>1, <2>1
        <3> HIDE DEF p
        <3> QED
            BY <3>2, <2>2, <1>15
    <2>4. p[j] # p[k]
        BY <2>1, <2>2, <1>15
    <2> QED
        BY <2>1, <2>3, <2>4, <1>3, <1>4 DEF StrictTotalOrder
<1> QED
    BY <1>10, <1>11, <1>12, <1>13, <1>14, <1>15 DEF IsSortingOf

----------------------------------------------------------------------------
(* Lists that hold no other pictures than those of D, and views of them.   *)
PicturesOf(D) == {pic \in Picture : pic.id \in D}

ViewOf(D) == [list : Seq(PicturesOf(D)), last : Int, log : Seq(Nat)]

(* The fields of a picture of D.                                           *)
LEMMA PictureFields ==
    ASSUME NEW D, NEW pic \in PicturesOf(D)
    PROVE  /\ pic.id \in D /\ pic.poc \in Nat /\ pic.assoc \in Int
           /\ pic.needed \in BOOLEAN /\ pic.ref \in BOOLEAN /\ pic.recon \in BOOLEAN
BY DEF PicturesOf, Picture

(* The updates of the flags of a picture change nothing else. *)
Updates(D, new, pic) ==
    new \in PicturesOf(D) /\ new.id = pic.id /\ new.poc = pic.poc

Remarks(D, new, pic) == Updates(D, new, pic) /\ new.needed = pic.needed

(* Marking, finishing, dropping and writing set flags and nothing else.    *)
LEMMA FlagUpdates ==
    ASSUME NEW D, NEW pic \in PicturesOf(D)
    PROVE  /\ \A poc, rpl : Remarks(D, MarkedFor(pic, poc, rpl), pic)
           /\ \A output \in BOOLEAN : Updates(D, Reconstructed(pic, output), pic)
           /\ \A poc : Updates(D, KeptOnly(pic, poc), pic)
           /\ Updates(D, Displayed(pic), pic) /\ Displayed(pic).needed = FALSE
<1>1. \A poc, rpl : Marked(pic, poc, rpl) \in BOOLEAN
    BY PictureFields DEF Marked
<1>2. \A poc, rpl : Remarks(D, MarkedFor(pic, poc, rpl), pic)
    BY <1>1 DEF Remarks, Updates, MarkedFor, PicturesOf, Picture
<1>3. \A output \in BOOLEAN : Updates(D, Reconstructed(pic, output), pic)
    BY DEF Updates, Reconstructed, PicturesOf, Picture
<1>4. \A poc : Updates(D, KeptOnly(pic, poc), pic)
    BY DEF Updates, KeptOnly, PicturesOf, Picture
<1>5. Updates(D, Displayed(pic), pic) /\ Displayed(pic).needed = FALSE
    BY DEF Updates, Displayed, PicturesOf, Picture
<1> QED
    BY <1>2, <1>3, <1>4, <1>5

(* The flags they set.                                                     *)
LEMMA FlagValues ==
    ASSUME NEW D, NEW pic \in PicturesOf(D)
    PROVE  /\ \A poc, rpl :
                /\ MarkedFor(pic, poc, rpl).assoc = pic.assoc
                /\ MarkedFor(pic, poc, rpl).recon = pic.recon
                /\ MarkedFor(pic, poc, rpl).ref <=> pic.ref /\ (pic.poc \in rpl \/ pic.poc = poc)
           /\ \A output \in BOOLEAN :
                /\ Reconstructed(pic, output).assoc = pic.assoc
                /\ Reconstructed(pic, output).needed = output
                /\ Reconstructed(pic, output).ref = pic.ref
                /\ Reconstructed(pic, output).recon
           /\ Displayed(pic).assoc = pic.assoc /\ Displayed(pic).ref = pic.ref
           /\ Displayed(pic).recon <=> pic.recon /\ pic.ref
<1>1. \A poc, rpl :
          /\ MarkedFor(pic, poc, rpl).assoc = pic.assoc
          /\ MarkedFor(pic, poc, rpl).recon = pic.recon
          /\ MarkedFor(pic, poc, rpl).ref = Marked(pic, poc, rpl)
    BY DEF MarkedFor, PicturesOf, Picture
<1>2. \A output \in BOOLEAN :
          /\ Reconstructed(pic, output).assoc = pic.assoc
          /\ Reconstructed(pic, output).needed = output
          /\ Reconstructed(pic, output).ref = pic.ref
          /\ Reconstructed(pic, output).recon
    BY DEF Reconstructed, PicturesOf, Picture
<1>3. /\ Displayed(pic).assoc = pic.assoc /\ Displayed(pic).ref = pic.ref
      /\ Displayed(pic).recon = (pic.recon /\ pic.ref)
    BY DEF Displayed, PicturesOf, Picture
<1> QED
    BY <1>1, <1>2, <1>3, Zenon DEF Marked

(* Lists of pictures as functions on 1 .. Len(list), and back.             *)
LEMMA SeqOfPictures ==
    ASSUME NEW D
    PROVE  /\ \A list \in Seq(PicturesOf(D)) :
                /\ list \in Seq(Picture)
                /\ Len(list) \in Nat /\ DOMAIN list = 1 .. Len(list)
                /\ \A i \in DOMAIN list : list[i] \in PicturesOf(D)
           /\ \A n \in Nat : \A f \in [1 .. n -> PicturesOf(D)] :
                f \in Seq(PicturesOf(D)) /\ Len(f) = n
<1>1. PicturesOf(D) \subseteq Picture
    BY DEF PicturesOf
<1> QED
    BY <1>1

(* Sorting forges no picture.                                              *)
LEMMA SortType ==
    ASSUME NEW D, NEW list \in Seq(PicturesOf(D))
    PROVE  SortPicList(list) \in Seq(PicturesOf(D))
<1>1. /\ list \in Seq(Picture)
      /\ Len(list) \in Nat /\ DOMAIN list = 1 .. Len(list)
      /\ \A i \in DOMAIN list : list[i] \in PicturesOf(D)
    BY SeqOfPictures
<1> DEFINE q == SortPicList(list)
<1>2. /\ q \in Seq(Picture) /\ DOMAIN q = DOMAIN list
      /\ \A k \in DOMAIN list : q[k] \in PicturesOf(D)
    BY <1>1, SortPermutes DEF IsSortingOf
<1> HIDE DEF q
<1>3. q \in [1 .. Len(list) -> PicturesOf(D)]
    BY <1>1, <1>2
<1> QED
    BY <1>1, <1>3, SeqOfPictures DEF q

(* What is written are the pictures at the positions, each at least once.  *)
LEMMA IdsAtWrites ==
    ASSUME NEW D, NEW list \in Seq(PicturesOf(D)), NEW S \in SUBSET DOMAIN list
    PROVE  /\ IdsAt(list, S) \in Seq(D)
           /\ \A i \in S : \E k \in DOMAIN IdsAt(list, S) : IdsAt(list, S)[k] = list[i].id
<1>1. Len(list) \in Nat /\ DOMAIN list = 1 .. Len(list)
    BY SeqOfPictures
<1>2. \A i \in DOMAIN list : list[i].id \in D
    BY SeqOfPictures DEF PicturesOf
<1>3. S \in SUBSET Int /\ IsFiniteSet(S)
    <2>1. IsFiniteSet(1 .. Len(list))
        BY <1>1, FS_Interval
    <2> QED
        BY <1>1, <2>1, FS_Subset
<1>4. /\ Cardinality(S) \in Nat
      /\ Ascending(S) \in [1 .. Cardinality(S) -> S]
      /\ \A i \in S : \E k \in 1 .. Cardinality(S) : Ascending(S)[k] = i
    BY <1>3, AscendingEnumerates
<1>5. IdsAt(list, S) = [k \in 1 .. Cardinality(S) |-> list[Ascending(S)[k]].id]
    BY DEF IdsAt
<1>6. IdsAt(list, S) \in [1 .. Cardinality(S) -> D]
    BY <1>2, <1>4, <1>5
<1>7. IdsAt(list, S) \in Seq(D)
    BY <1>4, <1>6
<1> QED
    BY <1>4, <1>5, <1>7

----------------------------------------------------------------------------
(* xGetNewPicBuffer returns a place in the list, or the one right behind   *)
(* it; a place in the list is free, so nothing that waits is given away,   *)
(* and the list only grows when it is short or nothing is free.            *)
LEMMA NewPicBufferPlace ==
    ASSUME NEW D, NEW list \in Seq(PicturesOf(D))
    PROVE  LET at == NewPicBuffer(list)
           IN  /\ at \in 1 .. Len(list) + 1
               /\ at <= Len(list) => Free(list[at]) /\ ~list[at].needed
               /\ at > Len(list) => Len(list) < MaxDec \/ \A i \in DOMAIN list : ~Free(list[i])
<1> DEFINE free == {i \in DOMAIN list : Free(list[i])}
           at == NewPicBuffer(list)
<1>1. Len(list) \in Nat /\ DOMAIN list = 1 .. Len(list)
    BY SeqOfPictures
<1>2. CASE Len(list) < MaxDec \/ free = {}
    <2>1. at = Len(list) + 1
        BY <1>2 DEF NewPicBuffer
    <2>2. Len(list) < MaxDec \/ \A i \in DOMAIN list : ~Free(list[i])
        BY <1>2
    <2> HIDE DEF at
    <2> QED
        BY <2>1, <2>2, <1>1 DEF at
<1>3. CASE ~(Len(list) < MaxDec \/ free = {})
    <2>1. free \in SUBSET Int /\ IsFiniteSet(free) /\ free # {}
        <3>1. IsFiniteSet(1 .. Len(list))
            BY <1>1, FS_Interval
        <3> QED
            BY <1>1, <1>3, <3>1, FS_Subset
    <2>2. \E i \in free : \A j \in free : i <= j
        <3> HIDE DEF free
        <3> QED
            BY <2>1, FirstAndLast
    <2>3. at = CHOOSE i \in free : \A j \in free : i <= j
        BY <1>3 DEF NewPicBuffer
    <2>4. at \in free
        <3> HIDE DEF free, at
        <3> QED
            BY <2>2, <2>3
    <2>5. Free(list[at]) /\ ~list[at].needed /\ at \in 1 .. Len(list)
        BY <2>4, <1>1 DEF Free
    <2> HIDE DEF at, free
    <2> QED
        BY <2>5, <1>1 DEF at
<1> QED
    BY <1>2, <1>3

StartsAt(at, new, list, id) ==
    /\ DOMAIN new = DOMAIN list \cup {at}
    /\ new[at].id = id
    /\ \A i \in DOMAIN list : i # at => new[i].id = list[i].id

(* Starting a picture forges none but the new one, in the place that       *)
(* xGetNewPicBuffer returned.                                              *)
LEMMA StartPictureType ==
    ASSUME NEW D \in SUBSET Nat, NEW list \in Seq(PicturesOf(D)),
           NEW id \in D, NEW poc \in Nat, NEW assoc \in Int, NEW rpl
    PROVE  LET new == StartPicture(list, id, poc, assoc, rpl)
           IN  new \in Seq(PicturesOf(D)) /\ StartsAt(NewPicBuffer(list), new, list, id)
<1> DEFINE at == NewPicBuffer(list)
           n == IF at > Len(list) THEN at ELSE Len(list)
           pic == [id |-> id, poc |-> poc, assoc |-> assoc,
                   needed |-> FALSE, ref |-> TRUE, recon |-> FALSE]
           old(i) == MarkedFor(list[i], poc, rpl)
           new == StartPicture(list, id, poc, assoc, rpl)
<1>1. Len(list) \in Nat /\ DOMAIN list = 1 .. Len(list)
    BY SeqOfPictures
<1>2. at \in 1 .. Len(list) + 1
    BY NewPicBufferPlace
<1>3. n \in Nat /\ 1 .. n = DOMAIN list \cup {at}
    BY <1>1, <1>2
<1>4. pic \in PicturesOf(D) /\ pic.id = id
    BY DEF PicturesOf, Picture
<1>5. \A i \in DOMAIN list :
          old(i) \in PicturesOf(D) /\ old(i).id = list[i].id /\ old(i).needed = list[i].needed
    <2> TAKE i \in DOMAIN list
    <2>1. list[i] \in PicturesOf(D)
        BY SeqOfPictures
    <2>2. Remarks(D, old(i), list[i])
        BY <2>1, FlagUpdates
    <2> HIDE DEF old
    <2> QED
        BY <2>2 DEF Remarks, Updates
<1>6. new = [i \in 1 .. n |-> IF i = at THEN pic ELSE old(i)]
    BY DEF StartPicture
<1> HIDE DEF at, n, pic, old, new
<1>7. new \in [1 .. n -> PicturesOf(D)]
    BY <1>3, <1>4, <1>5, <1>6
<1>8. new \in Seq(PicturesOf(D)) /\ DOMAIN new = 1 .. n
    BY <1>3, <1>7, SeqOfPictures
<1>9. new[at].id = id
    BY <1>3, <1>4, <1>6
<1>10. \A i \in DOMAIN list : i # at => new[i].id = list[i].id
    BY <1>3, <1>5, <1>6
<1>11. StartsAt(at, new, list, id)
    BY <1>3, <1>8, <1>9, <1>10 DEF StartsAt
<1> QED
    BY <1>8, <1>11 DEF at, new

(* The list that finishPicture sorts. *)
WithFlags(list, id, output) ==
    [i \in DOMAIN list |->
        IF list[i].id = id THEN Reconstructed(list[i], output) ELSE list[i]]

(* Setting the flags of one picture keeps every picture in its place.      *)
LEMMA WithFlagsType ==
    ASSUME NEW D, NEW list \in Seq(PicturesOf(D)), NEW id, NEW output \in BOOLEAN
    PROVE  /\ WithFlags(list, id, output) \in Seq(PicturesOf(D))
           /\ DOMAIN WithFlags(list, id, output) = DOMAIN list
           /\ \A i \in DOMAIN list :
                /\ WithFlags(list, id, output)[i].id = list[i].id
                /\ list[i].id # id => WithFlags(list, id, output)[i].needed = list[i].needed
<1> DEFINE q == WithFlags(list, id, output)
<1>1. Len(list) \in Nat /\ DOMAIN list = 1 .. Len(list)
    BY SeqOfPictures
<1>2. \A i \in DOMAIN list : list[i] \in PicturesOf(D)
    BY SeqOfPictures
<1>3. \A i \in DOMAIN list :
          /\ q[i] \in PicturesOf(D) /\ q[i].id = list[i].id
          /\ list[i].id # id => q[i].needed = list[i].needed
    <2> TAKE i \in DOMAIN list
    <2>1. Updates(D, Reconstructed(list[i], output), list[i])
        BY <1>2, FlagUpdates
    <2>2. q[i] = IF list[i].id = id THEN Reconstructed(list[i], output) ELSE list[i]
        BY DEF WithFlags
    <2> QED
        BY <2>1, <2>2, <1>2 DEF Updates
<1>4. q \in [1 .. Len(list) -> PicturesOf(D)]
    BY <1>1, <1>3 DEF WithFlags
<1> HIDE DEF q
<1>5. q \in Seq(PicturesOf(D)) /\ DOMAIN q = DOMAIN list
    BY <1>1, <1>4, SeqOfPictures
<1> QED
    BY <1>3, <1>5 DEF q

(* Finishing forges no picture.                                            *)
LEMMA FinishPictureType ==
    ASSUME NEW D, NEW list \in Seq(PicturesOf(D)), NEW id, NEW output \in BOOLEAN
    PROVE  FinishPicture(list, id, output) \in Seq(PicturesOf(D))
<1>1. FinishPicture(list, id, output) = SortPicList(WithFlags(list, id, output))
    BY DEF FinishPicture, WithFlags
<1>2. WithFlags(list, id, output) \in Seq(PicturesOf(D))
    BY WithFlagsType
<1> QED
    BY <1>1, <1>2, SortType

(* Dropping prior output keeps every picture in its place.                 *)
LEMMA DropPriorOutputType ==
    ASSUME NEW D, NEW list \in Seq(PicturesOf(D)), NEW poc
    PROVE  /\ DropPriorOutput(list, poc) \in Seq(PicturesOf(D))
           /\ DOMAIN DropPriorOutput(list, poc) = DOMAIN list
           /\ \A i \in DOMAIN list : DropPriorOutput(list, poc)[i].id = list[i].id
<1> DEFINE q == DropPriorOutput(list, poc)
<1>1. Len(list) \in Nat /\ DOMAIN list = 1 .. Len(list)
    BY SeqOfPictures
<1>2. \A i \in DOMAIN list : q[i] \in PicturesOf(D) /\ q[i].id = list[i].id
    <2> TAKE i \in DOMAIN list
    <2>1. list[i] \in PicturesOf(D)
        BY SeqOfPictures
    <2>2. Updates(D, KeptOnly(list[i], poc), list[i])
        BY <2>1, FlagUpdates
    <2>3. q[i] = KeptOnly(list[i], poc)
        BY DEF DropPriorOutput
    <2> QED
        BY <2>2, <2>3 DEF Updates
<1>3. q \in [1 .. Len(list) -> PicturesOf(D)]
    BY <1>1, <1>2 DEF DropPriorOutput
<1> HIDE DEF q
<1>4. q \in Seq(PicturesOf(D)) /\ DOMAIN q = DOMAIN list
    BY <1>1, <1>3, SeqOfPictures
<1> QED
    BY <1>2, <1>4 DEF q

----------------------------------------------------------------------------
(* What the functions do to the pictures that a list holds: they keep them, *)
(* once each.                                                              *)
Keeps(new, list) ==
    /\ HeldIn(new) = HeldIn(list)
    /\ Distinct(list) => Distinct(new)

(* What waits in a list is held by it.                                     *)
LEMMA WaitingIsHeld ==
    ASSUME NEW list
    PROVE  WaitingIn(list) \subseteq HeldIn(list)
BY DEF WaitingIn, HeldIn

(* A list with the same pictures in the same places holds the same         *)
(* pictures.                                                               *)
LEMMA KeepsInPlace ==
    ASSUME NEW list, NEW new, DOMAIN new = DOMAIN list,
           \A i \in DOMAIN list : new[i].id = list[i].id
    PROVE  Keeps(new, list)
BY DEF Keeps, HeldIn, Distinct

(* A permutation holds the same pictures, and none twice if none was there *)
(* twice.                                                                  *)
LEMMA SortKeeps ==
    ASSUME NEW D, NEW list \in Seq(PicturesOf(D))
    PROVE  Keeps(SortPicList(list), list)
<1> DEFINE q == SortPicList(list)
<1>1. IsSortingOf(q, list)
    BY SeqOfPictures, SortPermutes
<1> HIDE DEF q
<1>2. /\ DOMAIN q = DOMAIN list
      /\ \E p \in [DOMAIN list -> DOMAIN list] :
            /\ \A j, k \in DOMAIN list : p[j] = p[k] => j = k
            /\ \A i \in DOMAIN list : \E k \in DOMAIN list : p[k] = i
            /\ \A k \in DOMAIN list : q[k] = list[p[k]]
    BY <1>1 DEF IsSortingOf
<1>3. PICK p \in [DOMAIN list -> DOMAIN list] :
            /\ \A j, k \in DOMAIN list : p[j] = p[k] => j = k
            /\ \A i \in DOMAIN list : \E k \in DOMAIN list : p[k] = i
            /\ \A k \in DOMAIN list : q[k] = list[p[k]]
    BY <1>2
<1>4. HeldIn(q) = HeldIn(list)
    <2>1. \A k \in DOMAIN list : p[k] \in DOMAIN list /\ q[k].id = list[p[k]].id
        BY <1>3
    <2>2. \A i \in DOMAIN list : \E k \in DOMAIN list : q[k].id = list[i].id
        BY <1>3
    <2>3. DOMAIN q = DOMAIN list
        BY <1>2
    <2>4. \A x : x \in HeldIn(q) <=> \E k \in DOMAIN list : x = q[k].id
        BY <2>3, Zenon DEF HeldIn
    <2>5. \A x : x \in HeldIn(list) <=> \E i \in DOMAIN list : x = list[i].id
        BY Zenon DEF HeldIn
    <2>6. \A x : x \in HeldIn(q) => x \in HeldIn(list)
        BY <2>1, <2>4, <2>5, Zenon
    <2>7. \A x : x \in HeldIn(list) => x \in HeldIn(q)
        BY <2>2, <2>4, <2>5, Zenon
    <2> QED
        BY <2>6, <2>7, Zenon
<1>5. Distinct(list) => Distinct(q)
    <2> SUFFICES ASSUME Distinct(list), NEW j \in DOMAIN list, NEW k \in DOMAIN list,
                        q[j].id = q[k].id
                 PROVE  j = k
        BY <1>2 DEF Distinct
    <2>1. p[j] \in DOMAIN list /\ p[k] \in DOMAIN list /\ list[p[j]].id = list[p[k]].id
        BY <1>3
    <2>2. p[j] = p[k]
        BY <2>1, Zenon DEF Distinct
    <2> QED
        BY <2>2, <1>3
<1> QED
    BY <1>4, <1>5 DEF Keeps, q

(* Finishing loses no picture and doubles none.                            *)
LEMMA FinishPictureKeeps ==
    ASSUME NEW D, NEW list \in Seq(PicturesOf(D)), NEW id, NEW output \in BOOLEAN
    PROVE  Keeps(FinishPicture(list, id, output), list)
<1> DEFINE m == WithFlags(list, id, output)
<1>1. FinishPicture(list, id, output) = SortPicList(m)
    BY DEF FinishPicture, WithFlags
<1>2. m \in Seq(PicturesOf(D))
    BY WithFlagsType
<1>3. DOMAIN m = DOMAIN list /\ \A i \in DOMAIN list : m[i].id = list[i].id
    BY WithFlagsType
<1> HIDE DEF m
<1>4. Keeps(m, list)
    BY <1>3, KeepsInPlace
<1>5. Keeps(SortPicList(m), m)
    BY <1>2, SortKeeps
<1> QED
    BY <1>1, <1>4, <1>5 DEF Keeps

(* Dropping prior output loses no picture and doubles none.                *)
LEMMA DropPriorOutputKeeps ==
    ASSUME NEW D, NEW list \in Seq(PicturesOf(D)), NEW poc
    PROVE  Keeps(DropPriorOutput(list, poc), list)
BY DropPriorOutputType, KeepsInPlace

(* A picture that waits keeps its buffer when a new picture takes one; and *)
(* a new picture takes one of its own.                                     *)
LEMMA StartPictureKeeps ==
    ASSUME NEW D \in SUBSET Nat, NEW list \in Seq(PicturesOf(D)),
           NEW id \in D, NEW poc \in Nat, NEW assoc \in Int, NEW rpl
    PROVE  LET new == StartPicture(list, id, poc, assoc, rpl)
           IN  /\ WaitingIn(list) \subseteq HeldIn(new)
               /\ HeldIn(new) \subseteq HeldIn(list) \cup {id}
               /\ Distinct(list) /\ id \notin HeldIn(list) => Distinct(new)
<1> DEFINE at == NewPicBuffer(list)
           new == StartPicture(list, id, poc, assoc, rpl)
<1>1. StartsAt(at, new, list, id)
    BY StartPictureType
<1>2. at \in DOMAIN list => ~list[at].needed
    <2>1. at \in 1 .. Len(list) + 1 /\ (at <= Len(list) => ~list[at].needed)
        BY NewPicBufferPlace
    <2>2. Len(list) \in Nat /\ DOMAIN list = 1 .. Len(list)
        BY SeqOfPictures
    <2> HIDE DEF at
    <2> QED
        BY <2>1, <2>2
<1> HIDE DEF at, new
<1>3. WaitingIn(list) \subseteq HeldIn(new)
    BY <1>1, <1>2 DEF WaitingIn, HeldIn, StartsAt
<1>4. HeldIn(new) \subseteq HeldIn(list) \cup {id}
    BY <1>1 DEF HeldIn, StartsAt
<1>5. Distinct(list) /\ id \notin HeldIn(list) => Distinct(new)
    BY <1>1 DEF Distinct, HeldIn, StartsAt
<1> QED
    BY <1>3, <1>4, <1>5 DEF new

----------------------------------------------------------------------------
(* The output pass and the flush. *)
Outputs(D, w, v) ==
    /\ w \in ViewOf(D)
    /\ WrittenIn(v.log) \subseteq WrittenIn(w.log)

(* The fields of a view of D, and back.                                    *)
LEMMA ViewFields ==
    ASSUME NEW D
    PROVE  /\ \A v \in ViewOf(D) : v.list \in Seq(PicturesOf(D)) /\ v.last \in Int /\ v.log \in Seq(Nat)
           /\ \A list \in Seq(PicturesOf(D)), last \in Int, log \in Seq(Nat) :
                 [list |-> list, last |-> last, log |-> log] \in ViewOf(D)
BY DEF ViewOf

(* Writing more loses nothing of what has been written.                    *)
LEMMA LogGrows ==
    ASSUME NEW log \in Seq(Nat), NEW more \in Seq(Nat)
    PROVE  /\ log \o more \in Seq(Nat)
           /\ WrittenIn(log) \subseteq WrittenIn(log \o more)
           /\ WrittenIn(more) \subseteq WrittenIn(log \o more)
<1> DEFINE both == log \o more
<1>1. /\ both \in Seq(Nat) /\ Len(both) = Len(log) + Len(more)
      /\ Len(log) \in Nat /\ Len(more) \in Nat
      /\ DOMAIN log = 1 .. Len(log) /\ DOMAIN more = 1 .. Len(more)
      /\ DOMAIN both = 1 .. Len(both)
    OBVIOUS
<1>2. \A k \in DOMAIN log : k \in DOMAIN both /\ both[k] = log[k]
    BY <1>1
<1>3. \A k \in DOMAIN more : k + Len(log) \in DOMAIN both /\ both[k + Len(log)] = more[k]
    BY <1>1
<1> HIDE DEF both
<1>4. WrittenIn(log) \subseteq WrittenIn(both)
    BY <1>2 DEF WrittenIn
<1>5. WrittenIn(more) \subseteq WrittenIn(both)
    BY <1>3 DEF WrittenIn
<1> QED
    BY <1>1, <1>4, <1>5 DEF both

(* The pictures at a set of positions are all in the part of the file that *)
(* they make up.                                                           *)
LEMMA IdsAtLogged ==
    ASSUME NEW D \in SUBSET Nat, NEW list \in Seq(PicturesOf(D)), NEW S \in SUBSET DOMAIN list
    PROVE  /\ IdsAt(list, S) \in Seq(Nat)
           /\ \A i \in S : list[i].id \in WrittenIn(IdsAt(list, S))
<1> DEFINE ids == IdsAt(list, S)
<1>1. ids \in Seq(D) /\ \A i \in S : \E k \in DOMAIN ids : ids[k] = list[i].id
    BY IdsAtWrites
<1> HIDE DEF ids
<1>2. ids \in Seq(Nat)
    <2>1. Len(ids) \in Nat /\ ids \in [1 .. Len(ids) -> D]
        BY <1>1
    <2>2. ids \in [1 .. Len(ids) -> Nat]
        BY <2>1
    <2> QED
        BY <2>1, <2>2
<1>3. \A i \in S : list[i].id \in WrittenIn(ids)
    BY <1>1 DEF WrittenIn
<1> QED
    BY <1>2, <1>3 DEF ids

(* Positions of a list are finitely many numbers.                          *)
LEMMA PositionsFinite ==
    ASSUME NEW D, NEW list \in Seq(PicturesOf(D)), NEW S \in SUBSET DOMAIN list
    PROVE  S \in SUBSET Nat /\ S \in SUBSET Int /\ IsFiniteSet(S)
<1>1. Len(list) \in Nat /\ DOMAIN list = 1 .. Len(list)
    BY SeqOfPictures
<1>2. IsFiniteSet(1 .. Len(list))
    BY <1>1, FS_Interval
<1> QED
    BY <1>1, <1>2, FS_Subset

(* The last of some positions is one of them, and none comes after it.     *)
LEMMA LastOfIn ==
    ASSUME NEW S \in SUBSET Nat, IsFiniteSet(S), S # {}
    PROVE  LastOf(S) \in S /\ \A j \in S : j <= LastOf(S)
<1>1. S \in SUBSET Int
    OBVIOUS
<1>2. PICK i \in S : \A j \in S : j <= i
    BY <1>1, FirstAndLast
<1>3. \E m \in S \cup {0} : \A j \in S : j <= m
    BY <1>2
<1> DEFINE m == LastOf(S)
<1>4. m \in S \cup {0} /\ \A j \in S : j <= m
    BY <1>3 DEF LastOf
<1> HIDE DEF m
<1>5. m \in S
    BY <1>2, <1>4
<1> QED
    BY <1>4, <1>5 DEF m

(* An output pass keeps the list in its places, and the file grows.        *)
LEMMA WriteOutputType ==
    ASSUME NEW D \in SUBSET Nat, NEW v \in ViewOf(D)
    PROVE  Outputs(D, WriteOutput(v), v) /\ Keeps(WriteOutput(v).list, v.list)
<1> DEFINE out == Bumped(v)
           list == [i \in DOMAIN v.list |-> IF i \in out THEN Displayed(v.list[i]) ELSE v.list[i]]
           last == IF out = {} THEN v.last ELSE v.list[LastOf(out)].poc
           log == v.log \o IdsAt(v.list, out)
<1>1. v.list \in Seq(PicturesOf(D)) /\ v.last \in Int /\ v.log \in Seq(Nat)
    BY ViewFields
<1>2. WriteOutput(v) = [list |-> list, last |-> last, log |-> log]
    BY DEF WriteOutput
<1>3. out \in SUBSET DOMAIN v.list
    BY DEF Bumped, Candidates, Displayable
<1> HIDE DEF out
<1>4. Len(v.list) \in Nat /\ DOMAIN v.list = 1 .. Len(v.list)
    BY <1>1, SeqOfPictures
<1>5. \A i \in DOMAIN v.list : list[i] \in PicturesOf(D) /\ list[i].id = v.list[i].id
    <2> TAKE i \in DOMAIN v.list
    <2>1. v.list[i] \in PicturesOf(D)
        BY <1>1, SeqOfPictures
    <2>2. Updates(D, Displayed(v.list[i]), v.list[i])
        BY <2>1, FlagUpdates
    <2>3. list[i] = IF i \in out THEN Displayed(v.list[i]) ELSE v.list[i]
        OBVIOUS
    <2> QED
        BY <2>1, <2>2, <2>3 DEF Updates
<1>6. list \in [1 .. Len(v.list) -> PicturesOf(D)] /\ DOMAIN list = DOMAIN v.list
    BY <1>4, <1>5
<1> HIDE DEF list
<1>7. list \in Seq(PicturesOf(D))
    BY <1>4, <1>6, SeqOfPictures
<1>8. Keeps(list, v.list)
    BY <1>5, <1>6, KeepsInPlace
<1>9. last \in Int
    <2>1. CASE out = {}
        BY <2>1, <1>1
    <2>2. CASE out # {}
        <3>1. LastOf(out) \in DOMAIN v.list
            BY <2>2, <1>1, <1>3, PositionsFinite, LastOfIn
        <3>2. v.list[LastOf(out)].poc \in Nat
            BY <3>1, <1>1, SeqOfPictures, PictureFields
        <3> QED
            BY <2>2, <3>2
    <2> QED
        BY <2>1, <2>2
<1>10. log \in Seq(Nat) /\ WrittenIn(v.log) \subseteq WrittenIn(log)
    BY <1>1, <1>3, IdsAtLogged, LogGrows
<1> HIDE DEF last, log
<1>11. WriteOutput(v) \in ViewOf(D)
    BY <1>2, <1>7, <1>9, <1>10, ViewFields
<1>12. WriteOutput(v).list = list /\ WriteOutput(v).log = log
    BY <1>2
<1> QED
    BY <1>8, <1>10, <1>11, <1>12 DEF Outputs

(* A flush leaves an empty list and a file with all that waited.           *)
LEMMA FlushOutputType ==
    ASSUME NEW D \in SUBSET Nat, NEW v \in ViewOf(D)
    PROVE  /\ Outputs(D, FlushOutput(v), v)
           /\ FlushOutput(v).list = <<>>
           /\ WaitingIn(v.list) \subseteq WrittenIn(FlushOutput(v).log)
<1> DEFINE wait == {i \in DOMAIN v.list : v.list[i].needed}
           log == v.log \o IdsAt(v.list, wait)
           w == FlushOutput(v)
<1>1. v.list \in Seq(PicturesOf(D)) /\ v.last \in Int /\ v.log \in Seq(Nat)
    BY ViewFields
<1>2. CASE v.list = <<>>
    <2>1. w = v
        BY <1>2 DEF FlushOutput
    <2>2. WaitingIn(v.list) = {}
        BY <1>2 DEF WaitingIn
    <2> HIDE DEF w
    <2>3. Outputs(D, w, v) /\ w.list = <<>> /\ WaitingIn(v.list) \subseteq WrittenIn(w.log)
        BY <2>1, <2>2, <1>2 DEF Outputs
    <2> QED
        BY <2>3 DEF w
<1>3. CASE v.list # <<>>
    <2>1. w = [list |-> <<>>, last |-> NoPoc, log |-> log]
        BY <1>3 DEF FlushOutput
    <2>2. wait \in SUBSET DOMAIN v.list
        OBVIOUS
    <2>3. IdsAt(v.list, wait) \in Seq(Nat) /\ \A i \in wait : v.list[i].id \in WrittenIn(IdsAt(v.list, wait))
        <3> HIDE DEF wait
        <3> QED
            BY <1>1, <2>2, IdsAtLogged
    <2>4. /\ log \in Seq(Nat) /\ WrittenIn(v.log) \subseteq WrittenIn(log)
          /\ WrittenIn(IdsAt(v.list, wait)) \subseteq WrittenIn(log)
        <3> HIDE DEF wait
        <3> QED
            BY <1>1, <2>3, LogGrows
    <2>5. WaitingIn(v.list) \subseteq WrittenIn(log)
        <3>1. \A x \in WaitingIn(v.list) : \E i \in wait : x = v.list[i].id
            BY DEF WaitingIn
        <3> HIDE DEF wait, log
        <3> QED
            BY <3>1, <2>3, <2>4
    <2> HIDE DEF log, w, wait
    <2>6. w \in ViewOf(D)
        <3>1. <<>> \in Seq(PicturesOf(D)) /\ NoPoc \in Int
            BY DEF NoPoc
        <3> QED
            BY <3>1, <2>1, <2>4, ViewFields
    <2>7. w.list = <<>> /\ w.log = log
        BY <2>1
    <2>8. Outputs(D, w, v) /\ w.list = <<>> /\ WaitingIn(v.list) \subseteq WrittenIn(w.log)
        BY <2>4, <2>5, <2>6, <2>7 DEF Outputs
    <2> QED
        BY <2>8 DEF w
<1> QED
    BY <1>2, <1>3

----------------------------------------------------------------------------
(* What the functions do to the pictures of a list, wherever they stand.   *)
PicturesIn(list) == {list[i] : i \in DOMAIN list}

FinishedAs(pic, id, output) == IF pic.id = id THEN Reconstructed(pic, output) ELSE pic

NewPictureIn(id, poc, assoc) ==
    [id |-> id, poc |-> poc, assoc |-> assoc, needed |-> FALSE, ref |-> TRUE, recon |-> FALSE]

(* The pictures in a list are records of pictures of its stream.           *)
LEMMA PicturesInType ==
    ASSUME NEW D, NEW list \in Seq(PicturesOf(D))
    PROVE  PicturesIn(list) \subseteq PicturesOf(D)
BY SeqOfPictures DEF PicturesIn

(* finishPicture finishes its picture and keeps the others as they are.    *)
LEMMA PicturesFinished ==
    ASSUME NEW D, NEW list \in Seq(PicturesOf(D)), NEW id, NEW output \in BOOLEAN
    PROVE  PicturesIn(FinishPicture(list, id, output))
               = {FinishedAs(pic, id, output) : pic \in PicturesIn(list)}
<1> DEFINE flagged == WithFlags(list, id, output)
           sorted == SortPicList(flagged)
<1>1. flagged \in Seq(PicturesOf(D)) /\ DOMAIN flagged = DOMAIN list
    BY WithFlagsType
<1>2. \A i \in DOMAIN list : flagged[i] = FinishedAs(list[i], id, output)
    BY DEF WithFlags, FinishedAs
<1>3. FinishPicture(list, id, output) = sorted
    BY DEF FinishPicture, WithFlags
<1> HIDE DEF flagged
<1>4. flagged \in Seq(Picture)
    BY <1>1, SeqOfPictures
<1>5. /\ DOMAIN sorted = DOMAIN flagged
      /\ \E p \in [DOMAIN flagged -> DOMAIN flagged] :
            /\ \A i \in DOMAIN flagged : \E k \in DOMAIN flagged : p[k] = i
            /\ \A k \in DOMAIN flagged : sorted[k] = flagged[p[k]]
    BY <1>4, SortPermutes DEF IsSortingOf
<1> HIDE DEF sorted
<1>6. PicturesIn(sorted) = PicturesIn(flagged)
    BY <1>5 DEF PicturesIn
<1>7. PicturesIn(flagged) = {FinishedAs(pic, id, output) : pic \in PicturesIn(list)}
    BY <1>1, <1>2 DEF PicturesIn
<1> QED
    BY <1>3, <1>6, <1>7

(* A buffer is taken from a free picture or made; all other pictures are   *)
(* marked.                                                                 *)
LEMMA PicturesStarted ==
    ASSUME NEW D \in SUBSET Nat, NEW list \in Seq(PicturesOf(D)),
           NEW id \in D, NEW poc \in Nat, NEW assoc \in Int, NEW rpl
    PROVE  LET new == PicturesIn(StartPicture(list, id, poc, assoc, rpl))
           IN  /\ NewPictureIn(id, poc, assoc) \in new
               /\ \A pic \in new : \/ pic = NewPictureIn(id, poc, assoc)
                                   \/ \E old \in PicturesIn(list) : pic = MarkedFor(old, poc, rpl)
               /\ \A old \in PicturesIn(list) : ~Free(old) => MarkedFor(old, poc, rpl) \in new
<1> DEFINE at == NewPicBuffer(list)
           n == IF at > Len(list) THEN at ELSE Len(list)
           fresh == NewPictureIn(id, poc, assoc)
           new == StartPicture(list, id, poc, assoc, rpl)
<1>1. /\ Len(list) \in Nat /\ DOMAIN list = 1 .. Len(list)
      /\ at \in 1 .. Len(list) + 1
      /\ at <= Len(list) => Free(list[at])
    BY SeqOfPictures, NewPicBufferPlace
<1>2. new = [i \in 1 .. n |-> IF i = at THEN fresh ELSE MarkedFor(list[i], poc, rpl)]
    BY DEF StartPicture, NewPictureIn
<1> HIDE DEF at, fresh, new
<1>3. at \in 1 .. n /\ \A i \in 1 .. n : i # at => i \in DOMAIN list
    BY <1>1
<1>4. \A i \in DOMAIN list : i \in 1 .. n /\ (~Free(list[i]) => i # at)
    BY <1>1
<1>5. DOMAIN new = 1 .. n
    BY <1>2
<1> HIDE DEF n
<1>6. fresh \in PicturesIn(new)
    <2>1. new[at] = fresh
        BY <1>2, <1>3
    <2> QED
        BY <2>1, <1>3, <1>5 DEF PicturesIn
<1>7. \A pic \in PicturesIn(new) : \/ pic = fresh
                                 \/ \E old \in PicturesIn(list) : pic = MarkedFor(old, poc, rpl)
    BY <1>2, <1>3, <1>5 DEF PicturesIn
<1>8. \A old \in PicturesIn(list) : ~Free(old) => MarkedFor(old, poc, rpl) \in PicturesIn(new)
    BY <1>2, <1>4, <1>5 DEF PicturesIn
<1> QED
    BY <1>6, <1>7, <1>8 DEF fresh, new

(* An output pass leaves each picture as it is or displays it.             *)
LEMMA PicturesWritten ==
    ASSUME NEW v
    PROVE  LET new == PicturesIn(WriteOutput(v).list)
           IN  /\ \A pic \in new : \E old \in PicturesIn(v.list) : pic \in {old, Displayed(old)}
               /\ \A old \in PicturesIn(v.list) : old \in new \/ Displayed(old) \in new
<1> DEFINE out == Bumped(v)
           list == [i \in DOMAIN v.list |-> IF i \in out THEN Displayed(v.list[i]) ELSE v.list[i]]
<1>1. WriteOutput(v).list = list
    BY DEF WriteOutput
<1> HIDE DEF out
<1>2. /\ \A pic \in PicturesIn(list) : \E old \in PicturesIn(v.list) : pic \in {old, Displayed(old)}
      /\ \A old \in PicturesIn(v.list) : old \in PicturesIn(list) \/ Displayed(old) \in PicturesIn(list)
    BY DEF PicturesIn
<1> QED
    BY <1>1, <1>2

----------------------------------------------------------------------------
StreamType ==
    /\ coded \in Seq(CodedPicture)
    /\ nal \in NalUnit

IrapRecord == [type : IrapTypes \cup {"NONE"}, poc : Int, id : Nat]

ControlType ==
    /\ hdrOut \in BOOLEAN /\ firstInPic \in BOOLEAN /\ firstInSeq \in BOOLEAN
    /\ sliceAddr \in Int
    /\ prior \in [on : BOOLEAN, poc : Int]
    /\ recov \in BOOLEAN
    /\ pocRA \in Int
    /\ irap \in IrapRecord
    /\ skip \in Nat
    /\ loopFiltered \in BOOLEAN /\ newCLVS \in BOOLEAN /\ eosInPu \in BOOLEAN
    /\ fault \in Faults \cup {"none"}
    /\ done \in BOOLEAN

(* The slice that is read next belongs to the last coded picture.  It is   *)
(* the current picture only after the first slice of it has been decoded.  *)
SliceIsAhead ==
    nal.kind = "SLICE" =>
        /\ nal.id = Len(coded) /\ nal.id # 0 /\ cur <= nal.id
        /\ cur = nal.id => ~firstInPic /\ nal.addr > 0

CurrentPicture ==
    /\ cur \in 0 .. Len(coded)
    /\ ~firstInSeq => cur # 0
    /\ ~firstInPic => cur # 0

(* The list holds no picture of after the current one, and none twice.     *)
ViewInside == view \in ViewOf(1 .. cur) /\ Distinct(view.list)

IInv == StreamType /\ ControlType /\ SliceIsAhead /\ CurrentPicture /\ ViewInside

(* The invariant implies the type invariant: in particular every buffer    *)
(* holds a picture of the stream, because none holds one of after the      *)
(* current picture.                                                        *)
LEMMA IInvImpliesTypeOK == IInv => TypeOK
<1> SUFFICES ASSUME IInv PROVE TypeOK
    OBVIOUS
<1>1. StreamType /\ ControlType /\ SliceIsAhead /\ CurrentPicture /\ ViewInside
    BY DEF IInv
<1>2. Len(coded) \in Nat /\ DOMAIN coded = 1 .. Len(coded) /\ cur \in 0 .. Len(coded)
    BY <1>1 DEF StreamType, CurrentPicture
<1>3. nal.kind = "SLICE" => nal.id \in DOMAIN coded
    BY <1>1, <1>2 DEF SliceIsAhead
<1>4. /\ view.list \in Seq(PicturesOf(1 .. cur)) /\ view.last \in Int /\ view.log \in Seq(Nat)
      /\ view = [list |-> view.list, last |-> view.last, log |-> view.log]
    BY <1>1 DEF ViewInside, ViewOf
<1>5. view.list \in Seq(Picture)
    BY <1>4, SeqOfPictures
<1>6. view \in View
    BY <1>4, <1>5 DEF View
<1>7. \A i \in DOMAIN view.list : view.list[i].id \in DOMAIN coded
    <2> TAKE i \in DOMAIN view.list
    <2>1. view.list[i] \in PicturesOf(1 .. cur)
        BY <1>4, SeqOfPictures
    <2>2. view.list[i].id \in 1 .. cur
        BY <2>1, PictureFields
    <2> QED
        BY <2>2, <1>2
<1> QED
    BY <1>1, <1>3, <1>6, <1>7 DEF TypeOK, StreamType, ControlType, CurrentPicture, IrapRecord

----------------------------------------------------------------------------
(* The environment. *)
LEMMA NextPicturesCoded == StreamType => NextPictures \subseteq CodedPicture
<1> SUFFICES ASSUME StreamType, NEW type \in {t \in Types : MayFollow(t)},
                    NEW poc \in Pocs, NEW rpl \in SUBSET Pocs, NEW out \in BOOLEAN
             PROVE  CodedAs(type, poc, rpl, out) \in CodedPicture
    BY DEF NextPictures
<1>1. Len(coded) \in Nat /\ coded \in Seq(CodedPicture)
    BY DEF StreamType
<1>2. type \in PicTypes /\ poc \in Nat /\ rpl \in SUBSET Nat
    BY StreamAssumption DEF Pocs
<1>3. coded # <<>> => coded[Len(coded)].start \in Nat /\ coded[Len(coded)].irap \in Nat
    <2> SUFFICES ASSUME coded # <<>>
                 PROVE  coded[Len(coded)].start \in Nat /\ coded[Len(coded)].irap \in Nat
        OBVIOUS
    <2>1. coded[Len(coded)] \in CodedPicture
        BY <1>1
    <2> QED
        BY <2>1 DEF CodedPicture
<1>4. coded = <<>> => type \in IrapTypes /\ StartOfCvs(type)
    BY DEF MayFollow, StartOfCvs
<1>5. (IF StartOfCvs(type) THEN Len(coded) + 1 ELSE coded[Len(coded)].start) \in Nat
    BY <1>1, <1>3, <1>4
<1>6. (IF type \in IrapTypes THEN Len(coded) + 1 ELSE coded[Len(coded)].irap) \in Nat
    BY <1>1, <1>3, <1>4
<1> QED
    BY <1>2, <1>5, <1>6 DEF CodedAs, CodedPicture

(* The stream only grows, and a slice that follows belongs to its last     *)
(* picture: to a new one, or to the one just read.                         *)
Reads ==
    /\ StreamType'
    /\ Len(coded) \in Nat /\ Len(coded') \in Nat /\ Len(coded) <= Len(coded')
    /\ nal'.kind = "SLICE" =>
          /\ nal'.id = Len(coded') /\ nal'.id # 0
          /\ \/ nal'.id > Len(coded)
             \/ nal.kind = "SLICE" /\ nal'.id = nal.id /\ nal'.addr > 0

(* A further picture extends the stream by one, and its first slice comes  *)
(* next.                                                                   *)
LEMMA NextPictureReads == StreamType /\ NextPicture => Reads
<1> SUFFICES ASSUME StreamType, NextPicture PROVE Reads
    OBVIOUS
<1>1. PICK pic \in NextPictures : coded' = Append(coded, pic) /\ nal' = Slice(Len(coded) + 1, 0)
    BY DEF NextPicture
<1>2. pic \in CodedPicture
    BY <1>1, NextPicturesCoded
<1>3. coded \in Seq(CodedPicture) /\ Len(coded) \in Nat
    BY DEF StreamType
<1>4. coded' \in Seq(CodedPicture) /\ Len(coded') = Len(coded) + 1
    BY <1>1, <1>2, <1>3
<1>5. nal' \in NalUnit /\ nal'.id = Len(coded) + 1
    BY <1>1, <1>3 DEF Slice, NalUnit
<1> QED
    BY <1>3, <1>4, <1>5 DEF Reads, StreamType

(* An EOS NAL unit leaves the coded pictures alone.                        *)
LEMMA EndOfSequenceReads == StreamType /\ EndOfSequence => Reads
BY DEF StreamType, EndOfSequence, Reads, Eos, NalUnit

(* The stream keeps its side whatever it continues with.                   *)
LEMMA NextNalReads == StreamType /\ SliceIsAhead /\ NextNal => Reads
<1> SUFFICES ASSUME StreamType, SliceIsAhead, NextNal PROVE Reads
    OBVIOUS
<1>1. CASE MoreSlices
    <2>1. Len(coded) \in Nat /\ nal \in NalUnit /\ nal.id \in Nat /\ nal.addr \in Nat
        BY DEF StreamType, NalUnit
    <2>2. nal' = Slice(nal.id, nal.addr + 1) /\ coded' = coded /\ nal.kind = "SLICE"
        BY <1>1 DEF MoreSlices
    <2>3. nal' \in NalUnit /\ nal'.id = nal.id /\ nal'.addr = nal.addr + 1
        BY <2>1, <2>2 DEF Slice, NalUnit
    <2> QED
        BY <2>1, <2>2, <2>3 DEF Reads, StreamType, SliceIsAhead
<1>2. CASE NextPicture
    BY <1>2, NextPictureReads
<1>3. CASE EndOfSequence
    BY <1>3, EndOfSequenceReads
<1>4. CASE EndOfFile
    BY <1>4 DEF EndOfFile, Reads, StreamType, Eof, NalUnit
<1> QED
    BY <1>1, <1>2, <1>3, <1>4 DEF NextNal

----------------------------------------------------------------------------
(* The view. *)
LEMMA Grows ==
    ASSUME NEW m \in Nat, NEW n \in Nat, m <= n, NEW v \in ViewOf(1 .. m)
    PROVE  v \in ViewOf(1 .. n)
<1>1. \A i \in 1 .. m : i \in 1 .. n
    OBVIOUS
<1>2. PicturesOf(1 .. m) \subseteq PicturesOf(1 .. n)
    BY <1>1 DEF PicturesOf
<1>3. v.list \in Seq(PicturesOf(1 .. m)) /\ v.last \in Int /\ v.log \in Seq(Nat)
    BY ViewFields
<1>4. Len(v.list) \in Nat /\ DOMAIN v.list = 1 .. Len(v.list)
      /\ \A i \in DOMAIN v.list : v.list[i] \in PicturesOf(1 .. m)
    BY <1>3, SeqOfPictures
<1>5. v.list \in [1 .. Len(v.list) -> PicturesOf(1 .. n)]
    <2>1. v.list \in [1 .. Len(v.list) -> PicturesOf(1 .. m)]
        BY <1>3
    <2> QED
        BY <2>1, <1>2
<1>6. v.list \in Seq(PicturesOf(1 .. n))
    BY <1>4, <1>5, SeqOfPictures
<1>7. v = [list |-> v.list, last |-> v.last, log |-> v.log]
    BY DEF ViewOf
<1> QED
    BY <1>3, <1>6, <1>7, ViewFields

(* From v to w the list may change, but not the pictures in it, and the    *)
(* written file only grows.                                                *)
Follows(D, w, v) ==
    /\ w \in ViewOf(D)
    /\ Keeps(w.list, v.list)
    /\ WrittenIn(v.log) \subseteq WrittenIn(w.log)

(* Changing nothing is such a change.                                      *)
LEMMA FollowsItself ==
    ASSUME NEW D, NEW v \in ViewOf(D)
    PROVE  Follows(D, v, v)
BY DEF Follows, Keeps

(* Two such changes in a row are one.                                      *)
LEMMA FollowsTwice ==
    ASSUME NEW D, NEW u, NEW v, NEW w, Follows(D, v, u), Follows(D, w, v)
    PROVE  Follows(D, w, u)
BY DEF Follows, Keeps

(* A view with another well-typed list is a view.                          *)
LEMMA ListReplaced ==
    ASSUME NEW D, NEW v \in ViewOf(D), NEW list \in Seq(PicturesOf(D))
    PROVE  LET w == [v EXCEPT !.list = list]
           IN  w \in ViewOf(D) /\ w.list = list /\ w.log = v.log
BY DEF ViewOf

(* finishPicture only sets flags and sorts, whatever picture, flag and     *)
(* sequence it is called with.                                             *)
LEMMA FinishedFollows ==
    ASSUME NEW D, NEW v \in ViewOf(D), NEW pic, NEW out, NEW clvs
    PROVE  Follows(D, Finished(v, pic, out, clvs), v)
<1> DEFINE output == out /\ ~(clvs /\ coded[pic].type = "RASL")
           list == FinishPicture(v.list, pic, output)
           w == [v EXCEPT !.list = list]
<1>1. Finished(v, pic, out, clvs) = w
    BY DEF Finished
<1>2. v.list \in Seq(PicturesOf(D))
    BY ViewFields
<1>3. output \in BOOLEAN
    OBVIOUS
<1> HIDE DEF output
<1>4. list \in Seq(PicturesOf(D)) /\ Keeps(list, v.list)
    BY <1>2, <1>3, FinishPictureType, FinishPictureKeeps
<1> HIDE DEF list
<1>5. w \in ViewOf(D) /\ w.list = list /\ w.log = v.log
    BY <1>4, ListReplaced
<1> HIDE DEF w
<1> QED
    BY <1>1, <1>4, <1>5 DEF Follows

(* xWriteOutput keeps every buffer and only appends to the file.           *)
LEMMA WriteOutputFollows ==
    ASSUME NEW D \in SUBSET Nat, NEW v \in ViewOf(D)
    PROVE  Follows(D, WriteOutput(v), v)
BY WriteOutputType DEF Outputs, Follows

(* checkNoOutputPriorPics keeps every buffer.                              *)
LEMMA DroppedFollows ==
    ASSUME NEW D, NEW v \in ViewOf(D), NEW poc
    PROVE  Follows(D, [v EXCEPT !.list = DropPriorOutput(@, poc)], v)
<1> DEFINE list == DropPriorOutput(v.list, poc)
           w == [v EXCEPT !.list = list]
<1>1. v.list \in Seq(PicturesOf(D))
    BY ViewFields
<1>2. list \in Seq(PicturesOf(D)) /\ Keeps(list, v.list)
    BY <1>1, DropPriorOutputType, DropPriorOutputKeeps
<1> HIDE DEF list
<1>3. w \in ViewOf(D) /\ w.list = list /\ w.log = v.log
    BY <1>2, ListReplaced
<1>4. w = [v EXCEPT !.list = DropPriorOutput(@, poc)]
    BY DEF list
<1> HIDE DEF w
<1> QED
    BY <1>2, <1>3, <1>4 DEF Follows

(* Whatever waits in v is held or written in w. *)
KeptFrom(w, v) == WaitingIn(v.list) \subseteq HeldIn(w.list) \cup WrittenIn(w.log)

(* What is kept up to v is kept up to w.                                   *)
LEMMA FollowingKeeps ==
    ASSUME NEW D, NEW u, NEW v, NEW w, KeptFrom(v, u), Follows(D, w, v)
    PROVE  KeptFrom(w, u)
BY DEF KeptFrom, Follows, Keeps

(* What every step of the decoder does to the view. *)
ViewStep ==
    /\ ViewInside'
    /\ prior.on \/ KeptFrom(view', view)

(* The second half of a step, finishing and output, cannot undo what the   *)
(* first half has kept.                                                    *)
LEMMA ViewStepFrom ==
    ASSUME cur' \in Nat, NEW v, v \in ViewOf(1 .. cur'), Distinct(v.list),
           prior.on \/ KeptFrom(v, view), Follows(1 .. cur', view', v)
    PROVE  ViewStep
<1>1. view' \in ViewOf(1 .. cur') /\ Distinct(view'.list)
    BY DEF Follows, Keeps
<1>2. prior.on \/ KeptFrom(view', view)
    BY FollowingKeeps
<1> QED
    BY <1>1, <1>2 DEF ViewStep, ViewInside

(* The parts of the invariant that the steps use.                          *)
LEMMA IInvFields ==
    ASSUME IInv
    PROVE  /\ StreamType /\ ControlType /\ SliceIsAhead /\ CurrentPicture /\ ViewInside
           /\ cur \in Nat /\ Len(coded) \in Nat /\ cur <= Len(coded)
           /\ view \in ViewOf(1 .. cur) /\ Distinct(view.list)
BY DEF IInv, StreamType, CurrentPicture, ViewInside

(* What waits is held.                                                     *)
LEMMA KeptUnchanged == KeptFrom(view, view)
BY WaitingIsHeld DEF KeptFrom

(* A step that leaves the current picture and only rearranges the list.    *)
LEMMA SamePictureStep ==
    ASSUME IInv, cur' = cur, Follows(1 .. cur, view', view)
    PROVE  ViewStep
BY IInvFields, KeptUnchanged, ViewStepFrom

(* A step that leaves the view and the current picture alone.              *)
LEMMA SameViewStep ==
    ASSUME IInv, cur' = cur, view' = view
    PROVE  ViewStep
<1>1. Follows(1 .. cur, view', view)
    BY IInvFields, FollowsItself
<1> QED
    BY <1>1, SamePictureStep

(* updateAssociatedIRAP with a picture of the stream.                      *)
LEMMA AssociatedIrapType ==
    ASSUME StreamType, NEW pic \in DOMAIN coded,
           NEW before \in IrapRecord
    PROVE  AssociatedIrap(before, pic) \in IrapRecord
<1>1. coded[pic] \in CodedPicture /\ pic \in Nat
    BY DEF StreamType
<1>2. coded[pic].poc \in Int
    BY <1>1 DEF CodedPicture
<1> QED
    BY <1>1, <1>2 DEF AssociatedIrap, IrapRecord

(* isNewPicture: the current picture is finished. *)
LEMMA NewPictureStep == IInv /\ NewPicture => IInv' /\ ViewStep
<1> SUFFICES ASSUME IInv, NewPicture PROVE IInv' /\ ViewStep
    OBVIOUS
<1> USE IInvFields
<1>1. UNCHANGED <<coded, nal, cur, hdrOut, firstInSeq, prior, recov, pocRA, skip, newCLVS, fault, done>>
    BY DEF NewPicture, stream
<1>2. firstInPic' = TRUE /\ eosInPu' = FALSE /\ nal.addr = 0
    BY DEF NewPicture
<1>3. /\ sliceAddr' \in Int /\ loopFiltered' \in BOOLEAN
      /\ irap' \in IrapRecord
    <2>1. CASE firstInSeq
        BY <2>1 DEF NewPicture, ControlType
    <2>2. CASE ~firstInSeq
        <3>1. cur \in DOMAIN coded
            BY <2>2 DEF CurrentPicture, StreamType
        <3>2. AssociatedIrap(irap, cur) \in IrapRecord
            BY <3>1, AssociatedIrapType DEF ControlType
        <3>3. sliceAddr' = -1 /\ loopFiltered' = FALSE /\ irap' = AssociatedIrap(irap, cur)
            BY <2>2 DEF NewPicture
        <3>4. sliceAddr' \in Int
            BY <3>3
        <3>5. loopFiltered' \in BOOLEAN
            BY <3>3, Zenon
        <3>6. irap' \in IrapRecord
            BY <3>2, <3>3, Zenon
        <3> QED
            BY <3>4, <3>5, <3>6, Zenon
    <2> QED
        BY <2>1, <2>2
<1>4. StreamType' /\ ControlType' /\ SliceIsAhead' /\ CurrentPicture'
    <2>1. StreamType'
        BY <1>1 DEF StreamType
    <2>2. ControlType'
        BY <1>1, <1>2, <1>3 DEF ControlType
    <2>3. SliceIsAhead'
        BY <1>1, <1>2 DEF SliceIsAhead
    <2>4. CurrentPicture'
        BY <1>1, <1>2 DEF CurrentPicture
    <2> QED
        BY <2>1, <2>2, <2>3, <2>4
<1>5. Follows(1 .. cur, view', view)
    <2>1. CASE firstInSeq
        BY <2>1, WriteOutputFollows DEF NewPicture
    <2>2. CASE ~firstInSeq
        <3>1. PICK w \in {Finished(view, cur, hdrOut, newCLVS)} : view' = WriteOutput(w)
            BY <2>2 DEF NewPicture
        <3>2. Follows(1 .. cur, w, view)
            BY <3>1, FinishedFollows
        <3>3. w \in ViewOf(1 .. cur)
            BY <3>2 DEF Follows
        <3>4. Follows(1 .. cur, view', w)
            BY <3>1, <3>3, WriteOutputFollows
        <3> QED
            BY <3>2, <3>4, FollowsTwice
    <2> QED
        BY <2>1, <2>2
<1>6. ViewStep
    BY <1>1, <1>5, SamePictureStep
<1> QED
    BY <1>4, <1>6 DEF IInv, ViewStep

(* An EOS NAL unit. *)
LEMMA ConsumeEosStep == IInv /\ ConsumeEos => IInv' /\ ViewStep
<1> SUFFICES ASSUME IInv, ConsumeEos PROVE IInv' /\ ViewStep
    OBVIOUS
<1> USE IInvFields
<1> DEFINE reset == [irap EXCEPT !.type = "NONE", !.poc = MaxPoc]
           finish == ~loopFiltered \/ nal'.kind # "EOF"
<1>1. UNCHANGED <<cur, hdrOut, prior, recov, skip, fault, done>>
    BY DEF ConsumeEos
<1>2. /\ firstInSeq' = TRUE /\ firstInPic' = (cur = 0)
      /\ newCLVS' = TRUE /\ eosInPu' = TRUE /\ pocRA' = MaxPoc /\ nal.kind = "EOS"
    BY DEF ConsumeEos
<1>3. Reads
    BY NextNalReads DEF ConsumeEos
<1>4. MaxPoc \in Int
    BY StreamAssumption DEF MaxPoc
<1>5. reset \in IrapRecord
    BY <1>4 DEF ControlType, IrapRecord
<1>6. sliceAddr' \in Int /\ loopFiltered' \in BOOLEAN /\ irap' \in IrapRecord
    <2>1. CASE firstInSeq
        BY <2>1, <1>5 DEF ConsumeEos, ControlType
    <2>2. CASE ~firstInSeq
        <3>1. cur \in DOMAIN coded
            BY <2>2 DEF CurrentPicture, StreamType
        <3>2. AssociatedIrap(reset, cur) \in IrapRecord
            <4> HIDE DEF reset
            <4> QED
                BY <3>1, <1>5, AssociatedIrapType
        <3>3. sliceAddr \in Int
            BY DEF ControlType
        <3>4. /\ sliceAddr' = IF finish THEN -1 ELSE sliceAddr
              /\ loopFiltered' = TRUE
              /\ irap' = AssociatedIrap(reset, cur)
            BY <2>2 DEF ConsumeEos
        <3> HIDE DEF reset, finish
        <3> QED
            BY <3>2, <3>3, <3>4
    <2> QED
        BY <2>1, <2>2
<1>7. StreamType' /\ ControlType' /\ SliceIsAhead' /\ CurrentPicture'
    <2>1. StreamType'
        BY <1>3 DEF Reads
    <2>2. ControlType'
        BY <1>1, <1>2, <1>4, <1>6 DEF ControlType
    <2>3. SliceIsAhead'
        BY <1>1, <1>2, <1>3 DEF SliceIsAhead, Reads
    <2>4. CurrentPicture'
        <3>1. cur' \in 0 .. Len(coded')
            BY <1>1, <1>3 DEF Reads
        <3>2. ~firstInPic' => cur' # 0
            BY <1>1, <1>2
        <3> QED
            BY <1>2, <3>1, <3>2 DEF CurrentPicture
    <2> QED
        BY <2>1, <2>2, <2>3, <2>4
<1>8. Follows(1 .. cur, view', view)
    <2>1. CASE firstInSeq
        BY <2>1, FollowsItself, WriteOutputFollows DEF ConsumeEos
    <2>2. CASE ~firstInSeq
        <3>1. PICK w \in {IF finish THEN Finished(view, cur, hdrOut, TRUE) ELSE view} :
                  view' = WriteOutput(w)
            BY <2>2 DEF ConsumeEos
        <3> HIDE DEF finish
        <3>2. Follows(1 .. cur, w, view)
            BY <3>1, FinishedFollows, FollowsItself
        <3>3. w \in ViewOf(1 .. cur)
            BY <3>2 DEF Follows
        <3>4. Follows(1 .. cur, view', w)
            BY <3>1, <3>3, WriteOutputFollows
        <3> QED
            BY <3>2, <3>4, FollowsTwice
    <2> QED
        BY <2>1, <2>2
<1>9. ViewStep
    BY <1>1, <1>8, SamePictureStep
<1> QED
    BY <1>7, <1>9 DEF IInv, ViewStep

----------------------------------------------------------------------------
(* The steps of the stream alone, and the end. *)
LEMMA StreamStep ==
    ASSUME IInv, Reads,
           \/ nal.kind = "PS"
           \/ nal'.kind = "SLICE" => nal'.id > Len(coded),
           UNCHANGED <<view, lib, app, fault, done>>
    PROVE  IInv' /\ ViewStep
<1> USE IInvFields
<1>1. UNCHANGED <<view, cur, hdrOut, firstInPic, firstInSeq, sliceAddr, prior, recov, pocRA, irap,
                  skip, loopFiltered, newCLVS, eosInPu, fault, done>>
    BY DEF lib, app
<1>2. ViewStep
    BY <1>1, SameViewStep
<1>3. StreamType'
    BY DEF Reads
<1>4. ControlType'
    BY <1>1 DEF ControlType
<1>5. SliceIsAhead'
    <2>1. nal'.kind = "SLICE" => nal'.id = Len(coded') /\ nal'.id # 0 /\ nal'.id > Len(coded)
        BY DEF Reads
    <2> QED
        BY <2>1, <1>1 DEF SliceIsAhead, Reads
<1>6. CurrentPicture'
    BY <1>1 DEF CurrentPicture, Reads
<1> QED
    BY <1>2, <1>3, <1>4, <1>5, <1>6 DEF IInv, ViewStep

(* The first NAL units of the stream.                                      *)
LEMMA ReadParameterSetsStep == IInv /\ ReadParameterSets => IInv' /\ ViewStep
<1> SUFFICES ASSUME IInv, ReadParameterSets PROVE IInv' /\ ViewStep
    OBVIOUS
<1>1. Reads
    BY IInvFields, NextNalReads DEF ReadParameterSets
<1> QED
    BY <1>1, StreamStep DEF ReadParameterSets

(* A lost picture changes what is read next and nothing of the decoder.    *)
LEMMA PictureIsLostStep == IInv /\ PictureIsLost => IInv' /\ ViewStep
<1> SUFFICES ASSUME IInv, PictureIsLost PROVE IInv' /\ ViewStep
    OBVIOUS
<1>1. NextPicture \/ EndOfSequence
    BY DEF PictureIsLost, LosePicture
<1>2. Reads
    BY <1>1, IInvFields, NextPictureReads, EndOfSequenceReads
<1>3. nal'.kind = "SLICE" => nal'.id > Len(coded)
    <2>1. CASE NextPicture
        <3>1. nal'.id = Len(coded) + 1
            BY <2>1 DEF NextPicture, Slice
        <3> QED
            BY <3>1, IInvFields
    <2>2. CASE EndOfSequence
        BY <2>2 DEF EndOfSequence, Eos
    <2> QED
        BY <1>1, <2>1, <2>2
<1> QED
    BY <1>2, <1>3, StreamStep DEF PictureIsLost

(* A step that changes nothing but the view, the fault and the end. *)
LEMMA StoppingStep ==
    ASSUME IInv, UNCHANGED <<stream, lib, app>>,
           fault' \in Faults \cup {"none"}, done' \in BOOLEAN,
           view' \in ViewOf(1 .. cur), Distinct(view'.list),
           prior.on \/ KeptFrom(view', view)
    PROVE  IInv' /\ ViewStep
<1> USE IInvFields
<1>1. UNCHANGED <<coded, nal, cur, hdrOut, firstInPic, firstInSeq, sliceAddr, prior, recov, pocRA, irap,
                  skip, loopFiltered, newCLVS, eosInPu>>
    BY DEF stream, lib, app
<1>2. ViewStep
    BY <1>1 DEF ViewStep, ViewInside
<1>3. StreamType'
    BY <1>1 DEF StreamType
<1>4. ControlType'
    BY <1>1 DEF ControlType
<1>5. SliceIsAhead'
    BY <1>1 DEF SliceIsAhead
<1>6. CurrentPicture'
    BY <1>1 DEF CurrentPicture
<1> QED
    BY <1>2, <1>3, <1>4, <1>5, <1>6 DEF IInv, ViewStep

(* A flush writes all that waits. *)
Carries(w, v) == WaitingIn(v.list) \subseteq WaitingIn(w.list) \cup WrittenIn(w.log)

(* What waits or is written is held or written.                            *)
LEMMA CarriesKept == ASSUME NEW v, NEW w, Carries(w, v) PROVE KeptFrom(w, v)
BY WaitingIsHeld DEF Carries, KeptFrom

(* xFlushOutput empties the list, but only once it has written what waits. *)
LEMMA FlushCarries ==
    ASSUME NEW D \in SUBSET Nat, NEW v \in ViewOf(D)
    PROVE  /\ FlushOutput(v) \in ViewOf(D)
           /\ Distinct(FlushOutput(v).list)
           /\ Carries(FlushOutput(v), v)
<1> DEFINE w == FlushOutput(v)
<1>1. w \in ViewOf(D) /\ w.list = <<>> /\ WaitingIn(v.list) \subseteq WrittenIn(w.log)
    BY FlushOutputType DEF Outputs
<1> HIDE DEF w
<1>2. Distinct(w.list)
    BY <1>1 DEF Distinct
<1>3. Carries(w, v)
    BY <1>1 DEF Carries
<1> QED
    BY <1>1, <1>2, <1>3 DEF w

(* The flush after the loop.                                               *)
LEMMA ExitStep == IInv /\ Exit => IInv' /\ ViewStep
<1> SUFFICES ASSUME IInv, Exit PROVE IInv' /\ ViewStep
    OBVIOUS
<1>1. view' = FlushOutput(view) /\ done' = TRUE /\ UNCHANGED <<stream, lib, app, fault>>
    BY DEF Exit
<1>2. view' \in ViewOf(1 .. cur) /\ Distinct(view'.list) /\ KeptFrom(view', view)
    BY <1>1, IInvFields, FlushCarries, CarriesKept
<1>3. fault' \in Faults \cup {"none"}
    BY <1>1, IInvFields DEF ControlType
<1> QED
    BY <1>1, <1>2, <1>3, StoppingStep

(* Stuttering, and the end.                                                *)
LEMMA UnchangedStep == IInv /\ UNCHANGED vars => IInv' /\ ViewStep
<1> SUFFICES ASSUME IInv, UNCHANGED vars PROVE IInv' /\ ViewStep
    OBVIOUS
<1>1. UNCHANGED <<stream, lib, app>> /\ view' = view /\ fault' = fault /\ done' = done
    BY DEF vars
<1>2. fault' \in Faults \cup {"none"} /\ done' \in BOOLEAN
    BY <1>1, IInvFields DEF ControlType
<1>3. view' \in ViewOf(1 .. cur) /\ Distinct(view'.list) /\ KeptFrom(view', view)
    BY <1>1, IInvFields, KeptUnchanged
<1> QED
    BY <1>1, <1>2, <1>3, StoppingStep

----------------------------------------------------------------------------
(* A slice. *)
LEMMA SliceValues ==
    ASSUME IInv, nal.kind = "SLICE"
    PROVE  /\ Pic \in CodedPicture /\ Pic.poc \in Nat /\ Pic.rpl \in SUBSET Nat
           /\ nal.id \in Nat /\ nal.id # 0 /\ nal.addr \in Nat
           /\ irap.poc \in Int
           /\ PicOutputFlag \in BOOLEAN
           /\ StartsNewClvs \in BOOLEAN
           /\ PriorPics \in [on : BOOLEAN, poc : Int]
           /\ Recovery \in BOOLEAN
           /\ PocRandomAccess \in Int
<1> USE IInvFields
<1>1. nal.id \in DOMAIN coded /\ nal.id \in Nat /\ nal.id # 0 /\ nal.addr \in Nat
    BY DEF StreamType, SliceIsAhead, NalUnit
<1>2. Pic \in CodedPicture
    BY <1>1 DEF StreamType, Pic
<1>3. Pic.poc \in Nat /\ Pic.rpl \in SUBSET Nat
    BY <1>2 DEF CodedPicture
<1>4. irap.poc \in Int
    BY DEF ControlType, IrapRecord
<1>5. PicOutputFlag \in BOOLEAN
    BY DEF PicOutputFlag
<1>6. StartsNewClvs \in BOOLEAN
    <2>1. eosInPu \in BOOLEAN /\ newCLVS \in BOOLEAN
        BY DEF ControlType
    <2> QED
        BY <2>1, Zenon DEF StartsNewClvs
<1>7. Recovery \in BOOLEAN
    <2>1. recov \in BOOLEAN /\ NoOutputBeforeRecovery \in BOOLEAN
        BY DEF ControlType, NoOutputBeforeRecovery
    <2> QED
        BY <2>1, Zenon DEF Recovery
<1>8. PocRandomAccess \in Int
    <2>1. pocRA \in Int /\ NoPoc \in Int
        BY DEF ControlType, NoPoc
    <2> QED
        BY <2>1, <1>3 DEF PocRandomAccess
<1>9. PriorPics \in [on : BOOLEAN, poc : Int]
    <2>1. NoOutputOfPriorPics \in BOOLEAN
        BY DEF NoOutputOfPriorPics
    <2>2. prior \in [on : BOOLEAN, poc : Int] /\ prior.poc \in Int
        BY DEF ControlType
    <2>3. (IF NoOutputOfPriorPics THEN Pic.poc ELSE prior.poc) \in Int
        BY <2>2, <1>3
    <2>4. [prior EXCEPT !.on = @ /\ ~DropsPrior] \in [on : BOOLEAN, poc : Int]
        BY <2>2
    <2> QED
        BY <2>1, <2>3, <2>4 DEF PriorPics
<1> QED
    BY <1>1, <1>2, <1>3, <1>4, <1>5, <1>6, <1>7, <1>8, <1>9

(* The flush before an IDR picture.                                        *)
LEMMA FlushedCarries ==
    ASSUME IInv
    PROVE  Flushed \in ViewOf(1 .. cur) /\ Distinct(Flushed.list) /\ Carries(Flushed, view)
<1>1. CASE Flushed = FlushOutput(view)
    BY <1>1, IInvFields, FlushCarries
<1>2. CASE Flushed = view
    BY <1>2, IInvFields DEF Carries
<1> QED
    BY <1>1, <1>2 DEF Flushed

(* The list when the slice is parsed: prior pictures may have been         *)
(* dropped, and only then is a waiting picture lost.                       *)
LEMMA PreparedCarries ==
    ASSUME IInv
    PROVE  /\ Prepared \in ViewOf(1 .. cur) /\ Distinct(Prepared.list)
           /\ prior.on \/ Carries(Prepared, view)
<1>1. CASE DropsPrior
    <2>1. Prepared = [Flushed EXCEPT !.list = DropPriorOutput(@, prior.poc)]
        BY <1>1 DEF Prepared
    <2>2. Follows(1 .. cur, Prepared, Flushed)
        BY <2>1, FlushedCarries, DroppedFollows
    <2> QED
        BY <1>1, <2>2, FlushedCarries DEF Follows, Keeps, DropsPrior
<1>2. CASE ~DropsPrior
    BY <1>2, FlushedCarries DEF Prepared
<1> QED
    BY <1>1, <1>2

(* The rest of the iteration, for a slice that leaves view v, current      *)
(* picture pic and the flags seq and inPic. A slice that makes its own     *)
(* picture the current one must also clear the first-slice flag.           *)
LEMMA AfterSliceStep ==
    ASSUME IInv, nal.kind = "SLICE", Reads,
           NEW v, NEW pic \in Nat, NEW seq \in BOOLEAN, NEW inPic \in BOOLEAN,
           cur <= pic, pic <= nal.id, pic = nal.id => ~inPic,
           ~seq => pic # 0, ~inPic => pic # 0,
           v \in ViewOf(1 .. pic), Distinct(v.list), prior.on \/ KeptFrom(v, view),
           AfterSlice(v, pic, seq, inPic)
    PROVE  IInv' /\ ViewStep
<1> USE IInvFields, SliceValues
<1> DEFINE atEnd == nal'.kind = "EOF"
           finish == atEnd /\ ~seq /\ ~loopFiltered
<1>1. /\ cur' = pic /\ firstInSeq' = seq
      /\ firstInPic' = (inPic \/ finish \/ (atEnd /\ seq))
      /\ UNCHANGED <<eosInPu, fault, done>>
      /\ sliceAddr' = IF finish THEN -1 ELSE nal.addr
      /\ loopFiltered' = (loopFiltered /\ ~(atEnd /\ ~seq))
      /\ irap' = IF atEnd /\ ~seq THEN AssociatedIrap(irap, pic) ELSE irap
    BY DEF AfterSlice
<1>2. /\ newCLVS' = StartsNewClvs /\ hdrOut' = PicOutputFlag /\ prior' = PriorPics
      /\ recov' = Recovery /\ pocRA' = PocRandomAccess
      /\ skip' = IF skip > 0 THEN skip - 1 ELSE skip
    BY DEF AfterSlice
<1>3. PICK w \in {IF finish THEN Finished(v, pic, PicOutputFlag, StartsNewClvs) ELSE v} :
          view' = WriteOutput(w)
    BY DEF AfterSlice
<1>4. ~firstInPic' => cur' # 0
    BY <1>1
<1>5. nal'.kind = "SLICE" /\ cur' = nal.id => ~firstInPic'
    BY <1>1
<1> HIDE DEF atEnd, finish
<1>6. sliceAddr' \in Int /\ loopFiltered' \in BOOLEAN
    BY <1>1
<1>7. irap' \in IrapRecord
    <2>1. irap \in IrapRecord
        BY DEF ControlType
    <2>2. ~seq => pic \in DOMAIN coded
        BY DEF SliceIsAhead, StreamType
    <2>3. ~seq => AssociatedIrap(irap, pic) \in IrapRecord
        BY <2>1, <2>2, AssociatedIrapType
    <2> QED
        BY <1>1, <2>1, <2>3
<1>8. skip' \in Nat
    <2>1. skip \in Nat
        BY DEF ControlType
    <2> QED
        BY <2>1, <1>2
<1>9. StreamType'
    BY DEF Reads
<1>10. ControlType'
    <2>1. hdrOut' \in BOOLEAN /\ recov' \in BOOLEAN /\ newCLVS' \in BOOLEAN
        BY <1>2, Zenon
    <2>2. firstInPic' \in BOOLEAN /\ firstInSeq' \in BOOLEAN
        BY <1>1
    <2>3. prior' \in [on : BOOLEAN, poc : Int] /\ pocRA' \in Int
        BY <1>2, Zenon
    <2>4. eosInPu' \in BOOLEAN /\ fault' \in Faults \cup {"none"} /\ done' \in BOOLEAN
        BY <1>1 DEF ControlType
    <2> QED
        BY <2>1, <2>2, <2>3, <2>4, <1>6, <1>7, <1>8 DEF ControlType
<1>11. SliceIsAhead'
    BY <1>1, <1>5 DEF SliceIsAhead, Reads
<1>12. CurrentPicture'
    <2>1. cur' \in 0 .. Len(coded')
        BY <1>1 DEF SliceIsAhead, Reads
    <2> QED
        BY <2>1, <1>1, <1>4 DEF CurrentPicture
<1>13. ViewStep
    <2>1. Follows(1 .. pic, w, v)
        BY <1>3, FinishedFollows, FollowsItself
    <2>2. w \in ViewOf(1 .. pic)
        BY <2>1 DEF Follows
    <2>3. Follows(1 .. pic, view', w)
        BY <2>2, <1>3, WriteOutputFollows
    <2>4. Follows(1 .. pic, view', v)
        BY <2>1, <2>3, FollowsTwice
    <2> QED
        BY <2>4, <1>1, ViewStepFrom
<1> QED
    BY <1>9, <1>10, <1>11, <1>12, <1>13 DEF IInv, ViewStep

(* A failed CHECK stops the program with the output already flushed.       *)
LEMMA AbortStep ==
    ASSUME IInv, NEW reason \in Faults, Abort(reason)
    PROVE  IInv' /\ ViewStep
<1>1. view' = Flushed /\ fault' = reason /\ UNCHANGED <<stream, lib, app, done>>
    BY DEF Abort
<1>2. view' \in ViewOf(1 .. cur) /\ Distinct(view'.list) /\ KeptFrom(view', view)
    BY <1>1, FlushedCarries, CarriesKept
<1>3. fault' \in Faults \cup {"none"} /\ done' \in BOOLEAN
    BY <1>1, IInvFields DEF ControlType
<1> QED
    BY <1>1, <1>2, <1>3, StoppingStep

(* A skipped slice leaves the current picture and both flags.              *)
LEMMA SkipSliceStep ==
    ASSUME IInv, nal.kind = "SLICE", SkipSlice
    PROVE  IInv' /\ ViewStep
<1>1. Reads /\ AfterSlice(Prepared, cur, firstInSeq, firstInPic)
    BY IInvFields, NextNalReads DEF SkipSlice
<1>2. /\ Prepared \in ViewOf(1 .. cur) /\ Distinct(Prepared.list)
      /\ prior.on \/ KeptFrom(Prepared, view)
    BY PreparedCarries, CarriesKept
<1>3. /\ firstInSeq \in BOOLEAN /\ firstInPic \in BOOLEAN
      /\ cur \in Nat /\ cur <= nal.id /\ (cur = nal.id => ~firstInPic)
      /\ ~firstInSeq => cur # 0
      /\ ~firstInPic => cur # 0
    BY IInvFields DEF ControlType, SliceIsAhead, CurrentPicture
<1>4. cur <= cur
    BY <1>3
<1> QED
    BY <1>1, <1>2, <1>3, <1>4, AfterSliceStep

(* The list a slice is decoded with. *)
LEMMA DecodedList ==
    ASSUME IInv, nal.kind = "SLICE", firstInPic,
           NEW list, list = StartPicture(Prepared.list, nal.id, Pic.poc, irap.poc, Pic.rpl)
    PROVE  LET v == [Prepared EXCEPT !.list = list]
           IN  /\ v \in ViewOf(1 .. nal.id) /\ Distinct(v.list)
               /\ prior.on \/ KeptFrom(v, view)
<1> DEFINE v == [Prepared EXCEPT !.list = list]
           D == 1 .. nal.id
<1>1. /\ nal.id \in Nat /\ nal.id # 0 /\ cur \in Nat /\ cur < nal.id
    BY IInvFields, SliceValues DEF SliceIsAhead
<1>2. Prepared \in ViewOf(1 .. cur)
    BY PreparedCarries
<1>3. Prepared \in ViewOf(D)
    BY <1>1, <1>2, Grows
<1>4. Prepared.list \in Seq(PicturesOf(D)) /\ Prepared.list \in Seq(PicturesOf(1 .. cur))
    BY <1>2, <1>3, ViewFields
<1>5. nal.id \notin HeldIn(Prepared.list)
    <2>1. \A i \in DOMAIN Prepared.list : Prepared.list[i].id \in 1 .. cur
        <3> TAKE i \in DOMAIN Prepared.list
        <3>1. Prepared.list[i] \in PicturesOf(1 .. cur)
            BY <1>4, SeqOfPictures
        <3> QED
            BY <3>1, PictureFields
    <2>2. nal.id \notin 1 .. cur
        BY <1>1
    <2> QED
        BY <2>1, <2>2 DEF HeldIn
<1>6. D \in SUBSET Nat /\ nal.id \in D /\ Pic.poc \in Nat /\ irap.poc \in Int
    BY <1>1, SliceValues
<1> HIDE DEF D
<1>7. /\ list \in Seq(PicturesOf(D))
      /\ WaitingIn(Prepared.list) \subseteq HeldIn(list)
      /\ Distinct(Prepared.list) /\ nal.id \notin HeldIn(Prepared.list) => Distinct(list)
    BY <1>4, <1>6, StartPictureType, StartPictureKeeps
<1>8. v \in ViewOf(D) /\ v.list = list /\ v.log = Prepared.log
    BY <1>3, <1>7, ListReplaced
<1> HIDE DEF v
<1>9. Distinct(v.list)
    BY <1>5, <1>7, <1>8, PreparedCarries
<1>10. prior.on \/ KeptFrom(v, view)
    BY <1>7, <1>8, PreparedCarries DEF Carries, KeptFrom
<1> QED
    BY <1>8, <1>9, <1>10 DEF v, D

(* A slice fails one of the known checks, or none.                         *)
LEMMA ReasonType ==
    ASSUME NEW list, NEW lostPoc, Reason(list, lostPoc) # "none"
    PROVE  Reason(list, lostPoc) \in Faults
BY DEF Reason, Faults

(* A decoded slice: its picture takes a buffer with the first slice and    *)
(* keeps it with the others.                                               *)
LEMMA DecodeSliceStep ==
    ASSUME IInv, nal.kind = "SLICE", NEW lostPoc, DecodeSlice(lostPoc)
    PROVE  IInv' /\ ViewStep
<1> DEFINE list == IF firstInPic
                   THEN StartPicture(Prepared.list, nal.id, Pic.poc, irap.poc, Pic.rpl)
                   ELSE Prepared.list
           reason == Reason(list, lostPoc)
           pic == IF firstInPic THEN nal.id ELSE cur
           v == [Prepared EXCEPT !.list = list]
<1>1. CASE reason # "none"
    <2>1. Abort(reason)
        BY <1>1 DEF DecodeSlice
    <2>2. reason \in Faults
        <3> HIDE DEF list
        <3> QED
            BY <1>1, ReasonType
    <2> HIDE DEF reason
    <2> QED
        BY <2>1, <2>2, AbortStep
<1>2. CASE ~(reason # "none")
    <2>1. NextNal /\ AfterSlice(v, pic, FALSE, FALSE)
        BY <1>2 DEF DecodeSlice
    <2>2. Reads
        BY <2>1, IInvFields, NextNalReads
    <2>3. v \in ViewOf(1 .. pic) /\ Distinct(v.list) /\ (prior.on \/ KeptFrom(v, view))
        <3>1. CASE firstInPic
            BY <3>1, DecodedList
        <3>2. CASE ~firstInPic
            <4>1. list = Prepared.list /\ pic = cur
                BY <3>2
            <4>2. v = Prepared
                BY <4>1, PreparedCarries DEF ViewOf
            <4> HIDE DEF v, pic
            <4> QED
                BY <4>1, <4>2, PreparedCarries, CarriesKept
        <3> QED
            BY <3>1, <3>2
    <2>4. pic \in Nat /\ cur <= pic /\ pic <= nal.id /\ pic # 0
        BY IInvFields, SliceValues DEF SliceIsAhead, CurrentPicture
    <2> HIDE DEF v, pic
    <2> QED
        BY <2>1, <2>2, <2>3, <2>4, AfterSliceStep
<1> QED
    BY <1>1, <1>2

(* A slice NAL unit, whichever way it goes.                                *)
LEMMA ConsumeSliceStep == IInv /\ ConsumeSlice => IInv' /\ ViewStep
<1> SUFFICES ASSUME IInv, ConsumeSlice PROVE IInv' /\ ViewStep
    OBVIOUS
<1>1. nal.kind = "SLICE"
    BY DEF ConsumeSlice
<1>2. CASE Abort("SliceOrder")
    BY <1>2, AbortStep DEF Faults
<1>3. CASE SkipSlice
    BY <1>1, <1>3, SkipSliceStep
<1>4. CASE \E lostPoc \in LostPocs(Prepared.list) : DecodeSlice(lostPoc)
    BY <1>1, <1>4, DecodeSliceStep
<1> QED
    BY <1>2, <1>3, <1>4 DEF ConsumeSlice

----------------------------------------------------------------------------
(* Nothing has been read, held or written.                                 *)
LEMMA IInvInitially == Init => IInv
<1> SUFFICES ASSUME Init PROVE IInv
    OBVIOUS
<1>1. coded = <<>> /\ nal = ParameterSets
    BY DEF Init, InitStream
<1>2. StreamType
    BY <1>1 DEF StreamType, ParameterSets, NalUnit
<1>3. MaxPoc \in Int /\ NoPoc \in Int
    BY StreamAssumption DEF MaxPoc, NoPoc
<1>4. ControlType
    <2>1. hdrOut \in BOOLEAN /\ firstInPic \in BOOLEAN /\ firstInSeq \in BOOLEAN
        BY DEF Init
    <2>2. recov \in BOOLEAN /\ loopFiltered \in BOOLEAN /\ newCLVS \in BOOLEAN
        BY DEF Init
    <2>3. eosInPu \in BOOLEAN /\ done \in BOOLEAN /\ fault \in Faults \cup {"none"}
        BY DEF Init
    <2>4. sliceAddr \in Int /\ pocRA \in Int /\ skip \in Nat
        BY <1>3, SkipAssumption DEF Init
    <2>5. prior \in [on : BOOLEAN, poc : Int] /\ irap \in IrapRecord
        BY <1>3 DEF Init, IrapRecord
    <2> QED
        BY <2>1, <2>2, <2>3, <2>4, <2>5 DEF ControlType
<1>5. SliceIsAhead
    BY <1>1 DEF SliceIsAhead, ParameterSets
<1>6. CurrentPicture
    BY <1>1 DEF Init, CurrentPicture
<1>7. ViewInside
    <2>1. <<>> \in Seq(PicturesOf(1 .. cur)) /\ <<>> \in Seq(Nat)
        OBVIOUS
    <2>2. view = [list |-> <<>>, last |-> NoPoc, log |-> <<>>]
        BY DEF Init
    <2>3. view \in ViewOf(1 .. cur) /\ view.list = <<>>
        BY <2>1, <2>2, <1>3, ViewFields
    <2> QED
        BY <2>3 DEF ViewInside, Distinct
<1> QED
    BY <1>2, <1>4, <1>5, <1>6, <1>7 DEF IInv

(* Every step keeps the invariant, and with it every waiting picture.      *)
LEMMA EveryStep == IInv /\ [Next]_vars => IInv' /\ ViewStep
<1> SUFFICES ASSUME IInv, [Next]_vars PROVE IInv' /\ ViewStep
    OBVIOUS
<1>1. CASE NewPicture
    BY <1>1, NewPictureStep
<1>2. CASE ConsumeSlice
    BY <1>2, ConsumeSliceStep
<1>3. CASE ConsumeEos
    BY <1>3, ConsumeEosStep
<1>4. CASE Exit
    BY <1>4, ExitStep
<1>5. CASE ReadParameterSets
    BY <1>5, ReadParameterSetsStep
<1>6. CASE PictureIsLost
    BY <1>6, PictureIsLostStep
<1>7. CASE Terminated \/ UNCHANGED vars
    BY <1>7, UnchangedStep DEF Terminated
<1> QED
    BY <1>1, <1>2, <1>3, <1>4, <1>5, <1>6, <1>7 DEF Next

(* So the invariant holds in every state of every behaviour.               *)
LEMMA AlwaysIInv == Spec => []IInv
<1>1. IInv /\ [Next]_vars => IInv'
    BY EveryStep
<1> QED
    BY IInvInitially, <1>1, PTL DEF Spec

(* The state of the decoding process (DecApp::decode, DecLib) is well      *)
(* typed whatever it reads, and the picture list only holds pictures that  *)
(* have been decoded.                                                      *)
THEOREM DecoderTypeOK == Spec => []TypeOK
BY AlwaysIInv, IInvImpliesTypeOK, PTL

(* xGetNewPicBuffer never takes two buffers for one picture: whatever is   *)
(* skipped, lost or aborted, each slice after the first of its picture     *)
(* finds the buffer that the first one took.                               *)
THEOREM DecoderOneBufferEach == Spec => []OneBufferEach
<1>1. IInv => OneBufferEach
    BY DEF IInv, ViewInside, OneBufferEach
<1> QED
    BY AlwaysIInv, <1>1, PTL

(* xGetNewPicBuffer and xFlushOutput: a picture that waits for output      *)
(* stays in the list until it is written, unless an IRAP picture has asked *)
(* for the prior pictures to be dropped.                                   *)
THEOREM DecoderKeepsWaiting == Spec => KeepsWaiting
<1> DEFINE Keep == \A id \in Waiting : id \in Held' \cup Written' \/ prior.on
<1>1. IInv /\ [Next]_vars => Keep
    <2> SUFFICES ASSUME IInv, [Next]_vars PROVE Keep
        OBVIOUS
    <2>1. ViewStep
        BY EveryStep
    <2> QED
        BY <2>1 DEF ViewStep, KeptFrom, Waiting, Held, Written
<1>2. Keep => [Keep]_vars
    OBVIOUS
<1> HIDE DEF Keep
<1>3. Spec => [][Keep]_vars
    BY AlwaysIInv, <1>1, PTL DEF Spec
<1> QED
    BY <1>3 DEF KeepsWaiting, Keep
===============================================================================
