-------------------------- MODULE Download_proofs --------------------------
(***************************************************************************)
(* Proofs about Download and the media lists of HistoryMedia, for every    *)
(* number of processes, media and pieces.                                  *)
(*                                                                         *)
(* Induction over a list's length goes over a set of natural numbers       *)
(* (AllNaturals, UpTo), which takes no operator as a parameter.  With it   *)
(* the recursive functions UsableOnce and Usables and the rankings of      *)
(* PreferredVideos and PreferredImages are unfolded.  The invariant IInv   *)
(* says of every process which media it has delivered, and of every file   *)
(* that is not dirty that all who write it write the same URL, and that it *)
(* is whole unless its last creator still writes it.  It then is filled up *)
(* to that process's offset at least: whatever the others, which opened it *)
(* before it was truncated, wrote beyond is of the same URL or a hole.     *)
(***************************************************************************)
EXTENDS Download, FiniteSetTheorems, SequenceTheorems, WellFoundedInduction, TLAPS

-----------------------------------------------------------------------------
(* Every set of natural numbers has a least one.                           *)
LEMMA Least ==
  ASSUME NEW B \in SUBSET Nat, B # {}
  PROVE  \E i \in B : \A j \in B : i <= j
<1>1. PICK i \in B : \A j \in B : ~ (<<j, i>> \in OpToRel(<, Nat))
  BY NatLessThanWellFounded, WFMin
<1>2. ASSUME NEW j \in B, j < i PROVE FALSE
  <2>1. <<j, i>> \in OpToRel(<, Nat)
    BY <1>2 DEF OpToRel
  <2> QED
    BY <1>1, <2>1
<1> QED
  BY <1>2

(* Induction, with a set for the predicate.                                *)
LEMMA AllNaturals ==
  ASSUME NEW T, 0 \in T, \A n \in T \cap Nat : n + 1 \in T
  PROVE  Nat \subseteq T
<1> SUFFICES ASSUME Nat \ T # {} PROVE FALSE
  OBVIOUS
<1>1. PICK x \in Nat \ T : \A y \in Nat \ T : x <= y
  BY Least
<1>2. x # 0
  OBVIOUS
<1>3. x - 1 \in Nat /\ x - 1 < x /\ (x - 1) + 1 = x
  BY <1>2
<1>4. x - 1 \in T
  BY <1>1, <1>3
<1> QED
  BY <1>3, <1>4

(* A recursive function along 0 .. n exists.                               *)
LEMMA Recursion ==
  ASSUME NEW S, NEW b \in S, NEW n \in Nat, NEW F \in [1 .. n -> [S -> S]]
  PROVE  \E g \in [0 .. n -> S] :
           g[0] = b /\ \A i \in 1 .. n : g[i] = F[i][g[i - 1]]
<1> DEFINE Is(g, m) ==
             g[0] = b /\ \A i \in 1 .. m : g[i] = F[i][g[i - 1]]
           T == {m \in Nat : m <= n => \E g \in [0 .. m -> S] : Is(g, m)}
<1>1. 0 \in T
  <2> DEFINE g == [i \in 0 .. 0 |-> b]
  <2>1. g \in [0 .. 0 -> S] /\ Is(g, 0)
    OBVIOUS
  <2> HIDE DEF g
  <2> QED
    BY <2>1
<1>2. ASSUME NEW m \in T, m + 1 <= n
      PROVE  \E h \in [0 .. m + 1 -> S] : Is(h, m + 1)
  <2>1. PICK g \in [0 .. m -> S] : Is(g, m)
    BY <1>2
  <2> DEFINE h == [i \in 0 .. m + 1 |-> IF i <= m THEN g[i] ELSE F[i][g[m]]]
  <2>2. h \in [0 .. m + 1 -> S]
    BY <1>2
  <2>3. Is(h, m + 1)
    <3>1. h[0] = b
      BY <2>1
    <3>2. ASSUME NEW i \in 1 .. m PROVE h[i] = F[i][h[i - 1]]
      BY <2>1
    <3>3. h[m + 1] = F[m + 1][h[m]]
      OBVIOUS
    <3>4. m \in Nat
      OBVIOUS
    <3> HIDE DEF h, T
    <3> QED
      BY <3>1, <3>2, <3>3, <3>4
  <2> HIDE DEF h
  <2> QED
    BY <2>2, <2>3
<1> HIDE DEF Is
<1>3. \A m \in T \cap Nat : m + 1 \in T
  <2> SUFFICES ASSUME NEW m \in T \cap Nat, m + 1 <= n
               PROVE  \E h \in [0 .. m + 1 -> S] : Is(h, m + 1)
    OBVIOUS
  <2> QED
    BY <1>2
<1> HIDE DEF T
<1>4. n \in T
  BY <1>1, <1>3, AllNaturals
<1> QED
  BY <1>4 DEF T, Is

(* What holds of 0, and of i if it holds of i - 1, holds up to n.          *)
LEMMA UpTo ==
  ASSUME NEW n \in Nat, NEW T, 0 \in T,
         \A i \in 1 .. n : i - 1 \in T => i \in T
  PROVE  0 .. n \subseteq T
<1> DEFINE U == {m \in Nat : m <= n => m \in T}
<1>1. 0 \in U
  OBVIOUS
<1>2. \A m \in U \cap Nat : m + 1 \in U
  OBVIOUS
<1> HIDE DEF U
<1>3. Nat \subseteq U
  BY <1>1, <1>2, AllNaturals
<1> QED
  BY <1>3 DEF U

-----------------------------------------------------------------------------
(* The lists of media.                                                     *)

(* A new element at the end of a list without repetitions.                 *)
LEMMA AppendNew ==
  ASSUME NEW S, NEW s \in Seq(S), NEW x \in S, IsInjective(s), x \notin Range(s)
  PROVE  /\ Append(s, x) \in Seq(S)
         /\ IsInjective(Append(s, x))
         /\ Range(Append(s, x)) = Range(s) \cup {x}
<1> DEFINE t == Append(s, x)
<1>1. /\ Len(s) \in Nat
      /\ DOMAIN s = 1 .. Len(s)
  BY LenProperties
<1>2. /\ t \in Seq(S)
      /\ DOMAIN t = 1 .. Len(s) + 1
      /\ \A i \in 1 .. Len(s) : t[i] = s[i]
      /\ t[Len(s) + 1] = x
  BY AppendProperties, LenProperties
<1>3. \A i, j \in 1 .. Len(s) : s[i] = s[j] => i = j
  BY <1>1 DEF IsInjective
<1> HIDE DEF t
<1>4. Range(t) = Range(s) \cup {x}
  BY <1>1, <1>2 DEF Range
<1>5. IsInjective(t)
  <2> SUFFICES ASSUME NEW i \in DOMAIN t, NEW j \in DOMAIN t, t[i] = t[j]
               PROVE  i = j
    BY DEF IsInjective
  <2>1. \A k \in 1 .. Len(s) : s[k] # x
    BY <1>1 DEF Range
  <2> QED
    BY <1>1, <1>2, <1>3, <2>1
<1> QED
  BY <1>2, <1>4, <1>5 DEF t

(* UsableOnce has each usable URL of a list once, and nothing else.        *)
THEOREM UsableOnceFacts ==
  ASSUME NEW list \in Seq(Urls \cup {NoUrl})
  PROVE  /\ UsableOnce(list) \in Seq(Urls)
         /\ IsInjective(UsableOnce(list))
         /\ Range(UsableOnce(list)) = Range(list) \ {NoUrl}
<1> DEFINE n == Len(list)
           S == Seq(Urls)
           none == <<>>
           Step(i, o) == IF list[i] = NoUrl \/ list[i] \in Range(o)
                         THEN o ELSE Append(o, list[i])
           F == [i \in 1 .. n |-> [o \in S |-> Step(i, o)]]
<1>1. /\ n \in Nat
      /\ \A i \in 1 .. n : list[i] \in Urls \cup {NoUrl}
      /\ DOMAIN list = 1 .. n
  BY LenProperties, ElementOfSeq
<1>2. \A i \in 1 .. n, o \in S : Step(i, o) \in S
  BY <1>1, AppendProperties
<1>3. none \in S
  BY EmptySeq
<1> HIDE DEF n, S, none, Step
<1>4. F \in [1 .. n -> [S -> S]]
  BY <1>2
<1>5. PICK g \in [0 .. n -> S] :
        g[0] = none /\ \A i \in 1 .. n : g[i] = F[i][g[i - 1]]
  <2>1. n \in Nat
    BY <1>1
  <2> HIDE DEF F
  <2> QED
    BY <1>3, <1>4, <2>1, Recursion, SMTT(40)
<1>6. ASSUME NEW i \in 1 .. n PROVE g[i] = Step(i, g[i - 1])
  <2>1. g[i - 1] \in S
    BY <1>1
  <2> QED
    BY <1>5, <2>1
<1> DEFINE Is(o) == o = [i \in 0 .. n |-> IF i = 0 THEN none ELSE Step(i, o[i - 1])]
           out == CHOOSE o : Is(o)
<1>7. Is(out)
  <2> HIDE DEF F
  <2>1. Is(g)
    BY <1>1, <1>5, <1>6
  <2> QED
    BY <2>1
<1>8. UsableOnce(list) = out[n]
  BY DEF UsableOnce, n, Step, none
<1> DEFINE Good(i) == /\ out[i] \in Seq(Urls)
                      /\ IsInjective(out[i])
                      /\ Range(out[i]) = {list[j] : j \in 1 .. i} \ {NoUrl}
           T == {i \in 0 .. n : Good(i)}
<1> HIDE DEF F, out
<1>9. 0 \in T
  <2>1. out[0] = <<>>
    BY <1>1, <1>7 DEF none
  <2> QED
    BY <1>1, <2>1 DEF IsInjective, Range
<1>10. ASSUME NEW i \in 1 .. n, Good(i - 1) PROVE Good(i)
  <2> DEFINE o == out[i - 1]
             before == {list[j] : j \in 1 .. i - 1}
  <2>1. out[i] = Step(i, o)
    BY <1>1, <1>7
  <2>2. o \in Seq(Urls) /\ IsInjective(o) /\ Range(o) = before \ {NoUrl}
    BY <1>10
  <2>3. {list[j] : j \in 1 .. i} = before \cup {list[i]}
    BY <1>1
  <2>4. list[i] \in Urls \cup {NoUrl}
    BY <1>1
  <2> HIDE DEF o, before
  <2>5. CASE list[i] = NoUrl \/ list[i] \in Range(o)
    BY <2>1, <2>2, <2>3, <2>5 DEF Step
  <2>6. CASE list[i] # NoUrl /\ list[i] \notin Range(o)
    <3>1. out[i] = Append(o, list[i])
      BY <2>1, <2>6 DEF Step
    <3>2. list[i] \in Urls
      BY <2>4, <2>6
    <3>3. /\ Append(o, list[i]) \in Seq(Urls)
          /\ IsInjective(Append(o, list[i]))
          /\ Range(Append(o, list[i])) = Range(o) \cup {list[i]}
      BY <2>2, <2>6, <3>2, AppendNew
    <3> QED
      BY <2>2, <2>3, <2>6, <3>1, <3>3
  <2> QED
    BY <2>5, <2>6
<1>11. n \in T
  <2>1. ASSUME NEW i \in 1 .. n, i - 1 \in T PROVE i \in T
    <3>1. Good(i - 1)
      BY <2>1
    <3> HIDE DEF Good
    <3>2. Good(i)
      BY <1>10, <3>1
    <3> QED
      BY <3>2
  <2> HIDE DEF T
  <2> QED
    BY <1>1, <1>9, <2>1, UpTo
<1>12. Range(list) = {list[j] : j \in 1 .. n}
  BY <1>1 DEF Range
<1> QED
  BY <1>8, <1>11, <1>12

(* The first of the best of a list exists.                                 *)
LEMMA FirstOfTheBest ==
  ASSUME NEW n \in Nat \ {0}, NEW score \in [1 .. n -> Int]
  PROVE  LET best == {i \in 1 .. n : \A j \in 1 .. n : score[j] <= score[i]}
         IN  \E i \in best : \A j \in best : i <= j
<1> DEFINE Best(m, i) == \A j \in 1 .. m : score[j] <= score[i]
           T == {m \in 0 .. n : m = 0 \/ \E i \in 1 .. m : Best(m, i)}
<1>1. 0 \in T
  OBVIOUS
<1>2. ASSUME NEW m \in 1 .. n, m - 1 \in T PROVE m \in T
  <2>1. CASE m = 1
    <3>1. Best(1, 1)
      OBVIOUS
    <3> QED
      BY <2>1, <3>1
  <2>2. CASE m # 1
    <3>1. PICK i \in 1 .. m - 1 : Best(m - 1, i)
      BY <1>2, <2>2
    <3>2. CASE score[m] <= score[i]
      <4>1. Best(m, i)
        BY <3>1, <3>2
      <4> QED
        BY <4>1
    <3>3. CASE score[m] > score[i]
      <4>1. Best(m, m)
        BY <3>1, <3>3
      <4> QED
        BY <4>1
    <3> QED
      BY <3>2, <3>3
  <2> QED
    BY <2>1, <2>2
<1>3. n \in T
  <2>1. \A m \in 1 .. n : m - 1 \in T => m \in T
    <3> HIDE DEF T
    <3> QED
      BY <1>2
  <2>2. n \in Nat
    OBVIOUS
  <2> HIDE DEF T
  <2>3. 0 .. n \subseteq T
    BY <1>1, <2>1, <2>2, UpTo
  <2> QED
    BY <2>2, <2>3
<1> DEFINE best == {i \in 1 .. n : Best(n, i)}
<1>4. best \in SUBSET Nat /\ best # {}
  BY <1>3
<1> HIDE DEF best
<1>5. \E i \in best : \A j \in best : i <= j
  BY <1>4, Least
<1> QED
  BY <1>5 DEF best

(* Who comes before i when 1 .. n are ranked by their scores, equals in    *)
(* their order.                                                            *)
Before(n, score, i) ==
  {j \in 1 .. n : \/ score[j] > score[i]
                  \/ score[j] = score[i] /\ j < i}

(* Each rank is somebody's, and who comes before another has a lower one.  *)
LEMMA Ranks ==
  ASSUME NEW n \in Nat, NEW score \in [1 .. n -> Int]
  PROVE  LET B(i) == Before(n, score, i)
         IN  /\ \A k \in 1 .. n : \E i \in 1 .. n : Cardinality(B(i)) = k - 1
             /\ \A i, j \in 1 .. n : j \in B(i) => Cardinality(B(j)) < Cardinality(B(i))
             /\ \A i \in 1 .. n : Cardinality(B(i)) \in Int
             /\ \A i, j \in 1 .. n : i = j \/ j \in B(i) \/ i \in B(j)
<1> DEFINE B(i) == Before(n, score, i)
           rank == [i \in 1 .. n |-> Cardinality(B(i))]
<1>1. IsFiniteSet(1 .. n) /\ Cardinality(1 .. n) = n
  BY FS_Interval
<1>2. ASSUME NEW i \in 1 .. n
      PROVE  IsFiniteSet(B(i)) /\ Cardinality(B(i)) \in 0 .. n - 1
  <2>1. B(i) \subseteq 1 .. n /\ i \notin B(i)
    BY DEF Before
  <2> HIDE DEF B
  <2>2. /\ IsFiniteSet(B(i))
        /\ Cardinality(B(i)) <= n
        /\ Cardinality(B(i)) # n
    BY <1>1, <2>1, FS_Subset
  <2> QED
    BY <2>2, FS_CardinalityType
<1>3. ASSUME NEW i \in 1 .. n, NEW j \in 1 .. n, j \in B(i)
      PROVE  Cardinality(B(j)) < Cardinality(B(i))
  <2>1. B(j) \subseteq B(i) /\ j \notin B(j)
    BY <1>3 DEF Before
  <2>2. B(j) # B(i)
    BY <1>3, <2>1
  <2> HIDE DEF B
  <2>3. /\ Cardinality(B(j)) <= Cardinality(B(i))
        /\ Cardinality(B(j)) # Cardinality(B(i))
    BY <1>2, <2>1, <2>2, FS_Subset
  <2> QED
    BY <1>2, <2>3
<1>4. ASSUME NEW i \in 1 .. n, NEW j \in 1 .. n
      PROVE  i = j \/ j \in B(i) \/ i \in B(j)
  <2>1. score[i] \in Int /\ score[j] \in Int
    OBVIOUS
  <2> QED
    BY <2>1 DEF Before
<1> HIDE DEF B
<1>5. rank \in Injection(1 .. n, 0 .. n - 1)
  <2>1. rank \in [1 .. n -> 0 .. n - 1]
    BY <1>2
  <2>2. ASSUME NEW i \in 1 .. n, NEW j \in 1 .. n, rank[i] = rank[j] PROVE i = j
    <3>1. Cardinality(B(i)) = Cardinality(B(j))
      BY <2>2
    <3>2. Cardinality(B(i)) \in Int
      BY <1>2
    <3>3. i \in B(j) => Cardinality(B(i)) < Cardinality(B(j))
      BY <1>3
    <3>4. j \in B(i) => Cardinality(B(j)) < Cardinality(B(i))
      BY <1>3
    <3>5. i = j \/ j \in B(i) \/ i \in B(j)
      BY <1>4
    <3> QED
      BY <3>1, <3>2, <3>3, <3>4, <3>5
  <2> QED
    BY <2>1, <2>2 DEF Injection, IsInjective
<1>6. rank \in Surjection(1 .. n, 0 .. n - 1)
  <2>1. IsFiniteSet(0 .. n - 1) /\ Cardinality(0 .. n - 1) = n
    BY FS_Interval
  <2> HIDE DEF rank
  <2> QED
    BY <1>1, <1>5, <2>1, FS_Injection
<1>7. \A k \in 1 .. n : \E i \in 1 .. n : rank[i] = k - 1
  <2> HIDE DEF rank
  <2>1. ASSUME NEW k \in 1 .. n PROVE k - 1 \in 0 .. n - 1
    OBVIOUS
  <2> QED
    BY <1>6, <2>1 DEF Surjection
<1>8. \A i \in 1 .. n : Cardinality(B(i)) \in Int
  BY <1>2
<1> QED
  BY <1>3, <1>4, <1>7, <1>8 DEF B

-----------------------------------------------------------------------------
(* Which media a query takes from an item, and how it merges them.         *)

(* A score is a number, so that any two can be compared.                   *)
LEMMA ScoresAreNumbers ==
  \A url : ImageScore(url) \in Int /\ VideoScore(url) \in Int
BY DEF ImageScore, VideoScore

Item == [Places -> Seq(Urls \cup {NoUrl})]

(* Every candidate is a usable URL.                                        *)
LEMMA CandidatesAreUrls ==
  ASSUME NEW item \in Item
  PROVE  VideoCandidates(item) \in Seq(Urls) /\ ImageCandidates(item) \in Seq(Urls)
<1>1. \A pl \in Places : UsableOnce(item[pl]) \in Seq(Urls)
  BY UsableOnceFacts DEF Item
<1>2. \A s, t \in Seq(Urls) : s \o t \in Seq(Urls)
  BY ConcatProperties
<1>3. VideoCandidates(item) \in Seq(Urls)
  BY <1>1, <1>2 DEF VideoCandidates, Places
<1>4. ImageCandidates(item) \in Seq(Urls)
  BY <1>1, <1>2 DEF ImageCandidates, Places
<1> QED
  BY <1>3, <1>4

(* The video that is taken is a best one of the candidates, and of the     *)
(* best ones the first.                                                    *)
THEOREM PreferredVideosFacts ==
  ASSUME NEW item \in Item
  PROVE  LET c == VideoCandidates(item)
         IN  /\ PreferredVideos(item) \in Seq(Urls)
             /\ c = <<>> => PreferredVideos(item) = <<>>
             /\ c # <<>> =>
                  \E i \in DOMAIN c :
                    /\ PreferredVideos(item) = <<c[i]>>
                    /\ \A j \in DOMAIN c :
                         /\ VideoScore(c[j]) <= VideoScore(c[i])
                         /\ VideoScore(c[j]) = VideoScore(c[i]) => i <= j
<1> DEFINE c == VideoCandidates(item)
           best == {i \in DOMAIN c :
                      \A j \in DOMAIN c : VideoScore(c[j]) <= VideoScore(c[i])}
           score == [i \in DOMAIN c |-> VideoScore(c[i])]
           first == CHOOSE i \in best : \A j \in best : i <= j
<1>1. c \in Seq(Urls)
  BY CandidatesAreUrls
<1>2. Len(c) \in Nat /\ DOMAIN c = 1 .. Len(c) /\ (c # <<>> => Len(c) # 0)
  BY <1>1, LenProperties, EmptySeq
<1>3. PreferredVideos(item) = IF c = <<>> THEN <<>> ELSE <<c[first]>>
  BY DEF PreferredVideos
<1>4. CASE c = <<>>
  BY <1>3, <1>4, EmptySeq
<1>5. CASE c # <<>>
  <2>1. score \in [1 .. Len(c) -> Int]
    BY <1>2, ScoresAreNumbers
  <2>2. best = {i \in 1 .. Len(c) : \A j \in 1 .. Len(c) : score[j] <= score[i]}
    BY <1>2
  <2>3. \E i \in best : \A j \in best : i <= j
    <3> HIDE DEF c, score, best
    <3> QED
      BY <1>2, <1>5, <2>1, <2>2, FirstOfTheBest
  <2>4. first \in best /\ \A j \in best : first <= j
    BY <2>3
  <2> HIDE DEF first
  <2>5. c[first] \in Urls
    BY <1>1, <1>2, <2>4, ElementOfSeq
  <2>6. <<c[first]>> \in Seq(Urls)
    BY <2>5
  <2>7. ASSUME NEW j \in DOMAIN c
        PROVE  /\ VideoScore(c[j]) <= VideoScore(c[first])
               /\ VideoScore(c[j]) = VideoScore(c[first]) => first <= j
    BY <2>4
  <2>8. first \in DOMAIN c
    BY <2>4
  <2> HIDE DEF c, best
  <2> QED
    BY <1>3, <1>5, <2>6, <2>7, <2>8 DEF c
<1> QED
  BY <1>4, <1>5

(* The images that are taken are the candidates, each once, the best ones  *)
(* first and equals in their order.                                        *)
THEOREM PreferredImagesFacts ==
  ASSUME NEW item \in Item
  PROVE  LET c == ImageCandidates(item)
             p == PreferredImages(item)
         IN  /\ p \in Seq(Urls)
             /\ DOMAIN p = DOMAIN c
             /\ \E r \in Bijection(DOMAIN c, DOMAIN c) :
                  /\ \A k \in DOMAIN c : p[k] = c[r[k]]
                  /\ \A k, l \in DOMAIN c : k < l =>
                       \/ ImageScore(p[k]) > ImageScore(p[l])
                       \/ ImageScore(p[k]) = ImageScore(p[l]) /\ r[k] < r[l]
<1> DEFINE c == ImageCandidates(item)
           n == Len(c)
           Ahead(i) == {j \in DOMAIN c :
                          \/ ImageScore(c[j]) > ImageScore(c[i])
                          \/ ImageScore(c[j]) = ImageScore(c[i]) /\ j < i}
           rank(i) == Cardinality(Ahead(i))
           r == [k \in DOMAIN c |-> CHOOSE i \in DOMAIN c : rank(i) = k - 1]
           p == PreferredImages(item)
           score == [i \in 1 .. n |-> ImageScore(c[i])]
<1>1. c \in Seq(Urls)
  BY CandidatesAreUrls
<1>2. n \in Nat /\ DOMAIN c = 1 .. n /\ \A i \in 1 .. n : c[i] \in Urls
  BY <1>1, LenProperties, ElementOfSeq
<1>3. p = [k \in DOMAIN c |-> c[CHOOSE i \in DOMAIN c : rank(i) = k - 1]]
  BY DEF PreferredImages
<1> HIDE DEF c, n
<1>4. score \in [1 .. n -> Int]
  BY ScoresAreNumbers
<1>5. \A i \in 1 .. n : Ahead(i) = Before(n, score, i)
  <2>1. \A i \in 1 .. n : score[i] = ImageScore(c[i])
    OBVIOUS
  <2> HIDE DEF score
  <2> QED
    BY <1>2, <2>1 DEF Before
<1> HIDE DEF p, score, Ahead
<1>6. /\ \A k \in 1 .. n : \E i \in 1 .. n : rank(i) = k - 1
      /\ \A i, j \in 1 .. n : j \in Ahead(i) => rank(j) < rank(i)
      /\ \A i \in 1 .. n : rank(i) \in Int
      /\ \A i, j \in 1 .. n : i = j \/ j \in Ahead(i) \/ i \in Ahead(j)
  <2> DEFINE B(i) == Before(n, score, i)
  <2>1. n \in Nat
    BY <1>2
  <2>2. /\ \A k \in 1 .. n : \E i \in 1 .. n : Cardinality(B(i)) = k - 1
        /\ \A i, j \in 1 .. n : j \in B(i) => Cardinality(B(j)) < Cardinality(B(i))
        /\ \A i \in 1 .. n : Cardinality(B(i)) \in Int
        /\ \A i, j \in 1 .. n : i = j \/ j \in B(i) \/ i \in B(j)
    BY <1>4, <2>1, Ranks
  <2> QED
    BY <1>5, <2>2
<1> HIDE DEF rank
<1>7. \A k \in 1 .. n : r[k] \in 1 .. n /\ rank(r[k]) = k - 1
  BY <1>2, <1>6
<1>8. DOMAIN p = 1 .. n /\ \A k \in 1 .. n : p[k] = c[r[k]]
  BY <1>2, <1>3
<1> HIDE DEF r
<1>9. p \in Seq(Urls)
  <2>1. \A k \in 1 .. n : p[k] \in Urls
    BY <1>2, <1>7, <1>8
  <2>2. p = [k \in 1 .. n |-> p[k]]
    BY <1>2, <1>3, <1>8
  <2>3. p \in [1 .. n -> Urls]
    BY <2>1, <2>2
  <2> QED
    BY <1>2, <2>3, SeqDef
<1>10. r \in Bijection(1 .. n, 1 .. n)
  <2>1. r \in [1 .. n -> 1 .. n]
    BY <1>2, <1>7 DEF r
  <2>2. ASSUME NEW k \in 1 .. n, NEW l \in 1 .. n, r[k] = r[l] PROVE k = l
    BY <1>2, <1>7, <2>2
  <2>3. r \in Injection(1 .. n, 1 .. n)
    BY <2>1, <2>2 DEF Injection, IsInjective
  <2>4. IsFiniteSet(1 .. n)
    BY <1>2, FS_Interval
  <2>5. r \in Surjection(1 .. n, 1 .. n)
    BY <2>3, <2>4, FS_Injection
  <2> QED
    BY <2>3, <2>5 DEF Bijection
<1>11. ASSUME NEW k \in 1 .. n, NEW l \in 1 .. n, k < l
       PROVE  \/ ImageScore(p[k]) > ImageScore(p[l])
              \/ ImageScore(p[k]) = ImageScore(p[l]) /\ r[k] < r[l]
  <2>1. rank(r[k]) < rank(r[l]) /\ rank(r[k]) \in Int /\ rank(r[l]) \in Int
    BY <1>2, <1>7, <1>11
  <2>2. r[k] \in Ahead(r[l])
    BY <1>6, <1>7, <2>1
  <2> QED
    BY <1>8, <2>2 DEF Ahead
<1> QED
  BY <1>2, <1>8, <1>9, <1>10, <1>11 DEF c, p

-----------------------------------------------------------------------------
(* What is stored shows what it downloads.                                 *)
Shown == {Entry(u) : u \in Urls}
Media == [images : Seq(Shown), videos : Seq(Shown)]

(* An entry whose two URLs are the same one.                               *)
LEMMA ShownFacts ==
  ASSUME NEW e \in Shown
  PROVE  e.url \in Urls /\ e.view = e.url /\ e.url # NoUrl
BY UrlsAssumption DEF Shown, Entry

(* No entry is dropped, since each has a usable URL.                       *)
LEMMA UsablesKeeps ==
  ASSUME NEW list \in Seq(Shown)
  PROVE  Usables(list) = list
<1> DEFINE n == Len(list)
           none == <<>>
           Step(i, k) == IF list[i].url = NoUrl THEN k ELSE Append(k, list[i])
           Is(k) == k = [i \in 0 .. n |-> IF i = 0 THEN none ELSE Step(i, k[i - 1])]
           kept == CHOOSE k : Is(k)
           first(i) == SubSeq(list, 1, i)
           g == [i \in 0 .. n |-> first(i)]
<1>1. n \in Nat /\ \A i \in 1 .. n : list[i] \in Shown
  BY LenProperties, ElementOfSeq
<1>2. Usables(list) = kept[n]
  BY DEF Usables
<1> HIDE DEF n
<1>3. first(0) = none
  BY SubSeqEmpty
<1>4. ASSUME NEW i \in 1 .. n PROVE first(i) = Step(i, first(i - 1))
  <2>1. first(i) = first(i - 1) \o <<list[i]>>
    BY <1>1, SubSeqRecursiveSecond DEF n
  <2>2. first(i - 1) \in Seq(Shown)
    BY <1>1, SubSeqProperties
  <2>3. first(i) = Append(first(i - 1), list[i])
    BY <1>1, <2>1, <2>2, AppendIsConcat
  <2> QED
    BY <1>1, <2>3, ShownFacts
<1>5. SubSeq(list, 1, n) = list
  BY SubSeqFull DEF n
<1> HIDE DEF none, Step, first
<1>6. Is(g)
  <2>1. ASSUME NEW i \in 1 .. n PROVE g[i] = Step(i, g[i - 1])
    <3>1. i - 1 \in 0 .. n
      BY <1>1
    <3> QED
      BY <1>4, <3>1
  <2>2. g = [i \in 0 .. n |-> g[i]] /\ g[0] = none
    BY <1>1, <1>3
  <2> HIDE DEF g
  <2> QED
    BY <1>1, <2>1, <2>2
<1>7. Is(kept)
  BY <1>6
<1> DEFINE T == {i \in 0 .. n : kept[i] = first(i)}
<1> HIDE DEF kept
<1>8. 0 \in T
  BY <1>1, <1>3, <1>7
<1>9. ASSUME NEW i \in 1 .. n, i - 1 \in T PROVE i \in T
  <2>1. kept[i] = Step(i, kept[i - 1])
    BY <1>1, <1>7
  <2> QED
    BY <1>4, <1>9, <2>1
<1>10. n \in T
  <2> HIDE DEF T
  <2>1. 0 .. n \subseteq T
    BY <1>1, <1>8, <1>9, UpTo
  <2> QED
    BY <1>1, <2>1
<1> QED
  BY <1>2, <1>5, <1>10 DEF first

(* The entries a query builds show what they download.                     *)
LEMMA EntriesAreShown ==
  ASSUME NEW urls \in Seq(Urls)
  PROVE  Entries(urls) \in Seq(Shown)
<1>1. /\ Len(urls) \in Nat /\ DOMAIN urls = 1 .. Len(urls)
      /\ \A i \in 1 .. Len(urls) : urls[i] \in Urls
  BY LenProperties, ElementOfSeq
<1>2. Entries(urls) \in [1 .. Len(urls) -> Shown]
  BY <1>1 DEF Entries, Shown
<1> QED
  BY <1>1, <1>2, SeqDef

(* So do those it merges into the stored ones.                             *)
LEMMA MergeListType ==
  ASSUME NEW stored \in Seq(Shown), NEW recovered \in Seq(Shown)
  PROVE  MergeList(stored, recovered) \in Seq(Shown)
<1>1. CASE stored = <<>>
  BY <1>1 DEF MergeList
<1>2. CASE stored # <<>>
  <2>1. /\ Len(stored) \in Nat /\ DOMAIN stored = 1 .. Len(stored)
        /\ \A i \in 1 .. Len(stored) : stored[i] \in Shown
    BY LenProperties, ElementOfSeq
  <2>2. \A i \in DOMAIN recovered : recovered[i] \in Shown
    BY LenProperties, ElementOfSeq
  <2>3. MergeList(stored, recovered) \in [1 .. Len(stored) -> Shown]
    BY <1>2, <2>1, <2>2 DEF MergeList, Overlay
  <2> QED
    BY <2>1, <2>3, SeqDef
<1> QED
  BY <1>1, <1>2

(* MergeMedia is closed on the media that show what they download.         *)
LEMMA MergeMediaType ==
  ASSUME NEW m \in Media, NEW item \in Item
  PROVE  MergeMedia(m, item) \in Media
<1> DEFINE videos == Entries(PreferredVideos(item))
           images == Entries(PreferredImages(item))
<1>1. videos \in Seq(Shown) /\ images \in Seq(Shown)
  BY PreferredVideosFacts, PreferredImagesFacts, EntriesAreShown
<1>2. m.images \in Seq(Shown) /\ m.videos \in Seq(Shown)
  BY DEF Media
<1> HIDE DEF videos, images
<1>3. /\ Usables(MergeList(m.videos, videos)) \in Seq(Shown)
      /\ Usables(MergeList(m.images, images)) \in Seq(Shown)
      /\ Usables(m.images) \in Seq(Shown)
      /\ Usables(m.videos) \in Seq(Shown)
  BY <1>1, <1>2, MergeListType, UsablesKeeps
<1>4. <<>> \in Seq(Shown)
  BY EmptySeq
<1>5. MergeMedia(m, item) =
        IF videos # <<>>
          THEN [images |-> <<>>, videos |-> Usables(MergeList(m.videos, videos))]
        ELSE IF images # <<>>
          THEN [m EXCEPT !.images = Usables(MergeList(m.images, images))]
        ELSE [images |-> Usables(m.images), videos |-> Usables(m.videos)]
  BY DEF MergeMedia, videos, images
<1>6. \A x \in Seq(Shown) : [m EXCEPT !.images = x] \in Media
  BY DEF Media
<1>7. \A x, y \in Seq(Shown) : [images |-> x, videos |-> y] \in Media
  BY DEF Media
<1> QED
  BY <1>3, <1>4, <1>5, <1>6, <1>7

-----------------------------------------------------------------------------
(* The media of a task in the order in which they are downloaded.          *)
Size(m) == Len(m.images) + Len(m.videos)
KindAt(m, j) == IF j <= Len(m.images) THEN "images" ELSE "videos"
IndexAt(m, j) == IF j <= Len(m.images) THEN j ELSE j - Len(m.images)
UrlAt(m, j) == m[KindAt(m, j)][IndexAt(m, j)].url
FileAt(m, j) == Name(KindAt(m, j), IndexAt(m, j), UrlAt(m, j))

(* The paths of the first k of them.                                       *)
PathsTo(m, k) ==
  LET images == Len(m.images) IN
  [images |-> [i \in 1 .. (IF k <= images THEN k ELSE images) |-> FileAt(m, i)],
   videos |-> [i \in 1 .. (IF k <= images THEN 0 ELSE k - images) |->
                 FileAt(m, images + i)]]

TypeInv ==
  /\ row \in Media
  /\ media \in [Procs -> Media]
  /\ pc \in [Procs -> {"idle", "asking", "queried", "open", "create", "copy", "done"}]
  /\ at \in [Procs -> Nat \ {0}]
  /\ offset \in [Procs -> Nat]
  /\ DOMAIN paths = Procs
  /\ DOMAIN report = Procs
  /\ DOMAIN last = DOMAIN disk

(* What a process has done so far.                                         *)
Progress(p) ==
  /\ pc[p] \in {"idle", "asking", "queried"} => at[p] = 1
  /\ at[p] <= Size(media[p]) + 1
  /\ pc[p] \in {"create", "copy"} => at[p] <= Size(media[p])
  /\ pc[p] = "copy" => /\ FileAt(media[p], at[p]) \in DOMAIN disk
                       /\ offset[p] <= SizeOf[UrlAt(media[p], at[p])]
  /\ paths[p] = PathsTo(media[p], at[p] - 1)
  /\ pc[p] # "done" => report[p] = Nothing
  /\ report[p].kind = "downloaded" =>
       at[p] = Size(media[p]) + 1 /\ report[p] = DownloadedView(p)

Writes(p, n) == pc[p] = "copy" /\ FileAt(media[p], at[p]) = n

(* The first k pieces are of u, and no other is of another URL.            *)
FilledTo(file, u, k) ==
  /\ file \in Seq({u, Hole})
  /\ k <= Len(file) /\ Len(file) <= SizeOf[u]
  /\ \A b \in 1 .. k : file[b] = u

(* A file that is not dirty is written for one URL only.  It is whole,     *)
(* unless the process that created it last is still writing it.            *)
Clean(n) ==
  \E u \in Urls :
    /\ \A q \in Procs : Writes(q, n) => UrlAt(media[q], at[q]) = u
    /\ IF last[n] \in Procs /\ Writes(last[n], n)
       THEN FilledTo(disk[n], u, offset[last[n]])
       ELSE disk[n] = Content(u)

(* What a process has downloaded is there, unless it was created anew.     *)
Delivered(p) ==
  \A j \in 1 .. at[p] - 1 :
    LET n == FileAt(media[p], j)
    IN  /\ n \in DOMAIN disk
        /\ last[n] = p /\ n \notin dirty => disk[n] = Content(UrlAt(media[p], j))

FilesClean == \A n \in DOMAIN disk \ dirty : Clean(n)

IInv ==
  /\ TypeInv
  /\ \A p \in Procs : Progress(p) /\ Delivered(p)
  /\ FilesClean

-----------------------------------------------------------------------------
(* The two lists of a task's media, and how long they are.                 *)
LEMMA MediaFacts ==
  ASSUME NEW m \in Media
  PROVE  /\ Len(m.images) \in Nat /\ DOMAIN m.images = 1 .. Len(m.images)
         /\ Len(m.videos) \in Nat /\ DOMAIN m.videos = 1 .. Len(m.videos)
         /\ \A i \in 1 .. Len(m.images) : m.images[i] \in Shown
         /\ \A i \in 1 .. Len(m.videos) : m.videos[i] \in Shown
         /\ Size(m) \in Nat
<1>1. m.images \in Seq(Shown) /\ m.videos \in Seq(Shown)
  BY DEF Media
<1>2. /\ Len(m.images) \in Nat /\ DOMAIN m.images = 1 .. Len(m.images)
      /\ Len(m.videos) \in Nat /\ DOMAIN m.videos = 1 .. Len(m.videos)
  BY <1>1, LenProperties
<1>3. /\ \A i \in 1 .. Len(m.images) : m.images[i] \in Shown
      /\ \A i \in 1 .. Len(m.videos) : m.videos[i] \in Shown
  BY <1>1, ElementOfSeq
<1>4. Size(m) \in Nat
  <2> DEFINE a == Len(m.images)
             b == Len(m.videos)
  <2>1. Size(m) = a + b /\ a \in Nat /\ b \in Nat
    BY <1>2 DEF Size
  <2> HIDE DEF a, b
  <2> QED
    BY <2>1
<1> QED
  BY <1>2, <1>3, <1>4

(* An index beyond the images is one of the videos.                        *)
LEMMA BeyondImages ==
  ASSUME NEW m \in Media, NEW j \in 1 .. Size(m), ~ (j <= Len(m.images))
  PROVE  j - Len(m.images) \in 1 .. Len(m.videos)
<1> DEFINE a == Len(m.images)
           b == Len(m.videos)
<1>1. /\ Size(m) = a + b /\ a \in Nat /\ b \in Nat
      /\ j \in 1 .. Size(m) /\ ~ (j <= a)
  BY MediaFacts DEF Size
<1> HIDE DEF a, b
<1>2. j - a \in 1 .. b
  BY <1>1
<1> QED
  BY <1>2 DEF a, b

(* No two media of a task have the same file name.                         *)
LEMMA SlotFacts ==
  ASSUME NEW m \in Media, NEW j \in 1 .. Size(m)
  PROVE  /\ KindAt(m, j) \in Lists
         /\ UrlAt(m, j) \in Urls
         /\ \A k \in 1 .. Size(m) : FileAt(m, j) = FileAt(m, k) => j = k
<1>1. UrlAt(m, j) \in Urls
  <2>1. CASE j <= Len(m.images)
    <3>1. m.images[j] \in Shown
      BY <2>1, MediaFacts
    <3> QED
      BY <2>1, <3>1, ShownFacts DEF UrlAt, KindAt, IndexAt
  <2>2. CASE ~ (j <= Len(m.images))
    <3>1. j - Len(m.images) \in 1 .. Len(m.videos)
      BY <2>2, BeyondImages
    <3>2. m.videos[j - Len(m.images)] \in Shown
      BY <3>1, MediaFacts
    <3> QED
      BY <2>2, <3>2, ShownFacts DEF UrlAt, KindAt, IndexAt
  <2> QED
    BY <2>1, <2>2
<1>2. ASSUME NEW k \in 1 .. Size(m), FileAt(m, j) = FileAt(m, k) PROVE j = k
  <2>1. KindAt(m, j) = KindAt(m, k) /\ IndexAt(m, j) = IndexAt(m, k)
    BY <1>2 DEF FileAt, Name
  <2> QED
    BY <2>1, MediaFacts DEF KindAt, IndexAt
<1> QED
  BY <1>1, <1>2 DEF KindAt, Lists

(* Queue is the images, then the videos.                                   *)
LEMMA QueueFacts ==
  ASSUME NEW p \in Procs, media[p] \in Media
  PROVE  /\ Len(Queue(p)) = Size(media[p])
         /\ \A j \in 1 .. Size(media[p]) :
              Queue(p)[j] = <<KindAt(media[p], j), IndexAt(media[p], j)>>
<1> DEFINE m == media[p]
           s == [i \in 1 .. Len(m.images) |-> <<"images", i>>]
           t == [i \in 1 .. Len(m.videos) |-> <<"videos", i>>]
           S == Lists \X Nat
<1>1. Queue(p) = s \o t
  BY MediaFacts DEF Queue
<1>2. Len(m.images) \in Nat /\ Len(m.videos) \in Nat
  BY MediaFacts
<1> HIDE DEF m
<1>3. s \in [1 .. Len(m.images) -> S] /\ t \in [1 .. Len(m.videos) -> S]
  BY DEF Lists
<1>4. s \in Seq(S) /\ t \in Seq(S)
  <2> HIDE DEF s, t, S
  <2> QED
    BY <1>2, <1>3, SeqDef
<1>5. Len(s) = Len(m.images) /\ Len(t) = Len(m.videos)
  BY <1>2, <1>4, LenProperties
<1>6. /\ Len(s \o t) = Len(s) + Len(t)
      /\ \A j \in 1 .. Len(s) + Len(t) :
           (s \o t)[j] = IF j <= Len(s) THEN s[j] ELSE t[j - Len(s)]
  <2> HIDE DEF s, t, S
  <2> QED
    BY <1>4, ConcatProperties
<1>7. ASSUME NEW j \in 1 .. Size(m)
      PROVE  (s \o t)[j] = <<KindAt(m, j), IndexAt(m, j)>>
  <2>1. CASE j <= Len(m.images)
    BY <1>2, <1>5, <1>6, <2>1 DEF Size, KindAt, IndexAt
  <2>2. CASE ~(j <= Len(m.images))
    <3>1. j - Len(m.images) \in 1 .. Len(m.videos)
      BY <2>2, BeyondImages DEF m
    <3> QED
      BY <1>2, <1>5, <1>6, <2>2, <3>1 DEF Size, KindAt, IndexAt
  <2> QED
    BY <2>1, <2>2
<1> QED
  BY <1>1, <1>5, <1>6, <1>7 DEF m, Size

(* The media a process is at.                                              *)
LEMMA HereFacts ==
  ASSUME NEW p \in Procs, media[p] \in Media, at[p] \in 1 .. Size(media[p])
  PROVE  /\ Kind(p) = KindAt(media[p], at[p])
         /\ Url(p) = UrlAt(media[p], at[p])
         /\ File(p) = FileAt(media[p], at[p])
         /\ Url(p) \in Urls
<1>1. Queue(p)[at[p]] = <<KindAt(media[p], at[p]), IndexAt(media[p], at[p])>>
  BY QueueFacts
<1>2. Kind(p) = KindAt(media[p], at[p]) /\ Index(p) = IndexAt(media[p], at[p])
  BY <1>1 DEF Kind, Index
<1>3. Url(p) = UrlAt(media[p], at[p])
  BY <1>2 DEF Url, UrlAt
<1> QED
  BY <1>2, <1>3, SlotFacts DEF File, FileAt

-----------------------------------------------------------------------------
(* Files and their pieces.                                                 *)
(* The file of a URL has all its pieces and tells which URL it is of.      *)
LEMMA ContentFacts ==
  ASSUME NEW u \in Urls
  PROVE  /\ SizeOf[u] \in Nat \ {0}
         /\ Content(u) \in Seq({u, Hole})
         /\ Len(Content(u)) = SizeOf[u]
         /\ \A b \in 1 .. SizeOf[u] : Content(u)[b] = u
         /\ \A v \in Urls : Content(u) = Content(v) => u = v
<1>1. \A v \in Urls : SizeOf[v] \in Nat \ {0}
  BY SizesAssumption
<1>2. ASSUME NEW v \in Urls
      PROVE  /\ Content(v) \in [1 .. SizeOf[v] -> {v, Hole}]
             /\ Content(v) \in Seq({v, Hole})
             /\ Len(Content(v)) = SizeOf[v]
             /\ Content(v)[1] = v
  <2>1. Content(v) \in [1 .. SizeOf[v] -> {v, Hole}] /\ DOMAIN Content(v) = 1 .. SizeOf[v]
    BY DEF Content
  <2>2. Content(v) \in Seq({v, Hole})
    BY <1>1, <2>1, SeqDef
  <2>3. Len(Content(v)) = SizeOf[v]
    BY <1>1, <2>1, <2>2, LenProperties
  <2>4. Content(v)[1] = v
    BY <1>1 DEF Content
  <2> QED
    BY <2>1, <2>2, <2>3, <2>4
<1>3. \A b \in 1 .. SizeOf[u] : Content(u)[b] = u
  BY DEF Content
<1>4. \A v \in Urls : Content(u) = Content(v) => u = v
  BY <1>2
<1> QED
  BY <1>1, <1>2, <1>3, <1>4

(* A file that is filled to its last piece is whole.                       *)
LEMMA FilledWhole ==
  ASSUME NEW u \in Urls, NEW file, FilledTo(file, u, SizeOf[u])
  PROVE  file = Content(u)
<1>1. /\ file \in Seq({u, Hole})
      /\ SizeOf[u] <= Len(file) /\ Len(file) <= SizeOf[u]
      /\ \A b \in 1 .. SizeOf[u] : file[b] = u
  BY DEF FilledTo
<1>2. Len(file) \in Nat /\ SizeOf[u] \in Nat
  BY <1>1, ContentFacts, LenProperties
<1>3. Len(file) = SizeOf[u]
  BY <1>1, <1>2
<1>4. /\ Content(u) \in Seq({u, Hole}) /\ Len(Content(u)) = SizeOf[u]
      /\ \A b \in 1 .. SizeOf[u] : Content(u)[b] = u
  BY ContentFacts
<1> QED
  BY <1>1, <1>3, <1>4, SeqEqual

(* What a write of a piece does to a file that is not too long.            *)
LEMMA WrittenFacts ==
  ASSUME NEW u \in Urls, NEW file \in Seq({u, Hole}), Len(file) <= SizeOf[u],
         NEW i \in 1 .. SizeOf[u]
  PROVE  /\ WrittenAt(file, i, u) \in Seq({u, Hole})
         /\ Len(WrittenAt(file, i, u)) = IF i > Len(file) THEN i ELSE Len(file)
         /\ WrittenAt(file, i, u)[i] = u
         /\ \A b \in 1 .. Len(file) : file[b] = u => WrittenAt(file, i, u)[b] = u
<1> DEFINE n == IF i > Len(file) THEN i ELSE Len(file)
           w == WrittenAt(file, i, u)
<1>1. /\ Len(file) \in Nat /\ SizeOf[u] \in Nat
      /\ \A b \in 1 .. Len(file) : file[b] \in {u, Hole}
  BY ContentFacts, LenProperties, ElementOfSeq
<1>2. n \in Nat /\ i \in 1 .. n /\ 1 .. Len(file) \subseteq 1 .. n
  BY <1>1
<1>3. w = [b \in 1 .. n |-> IF b = i THEN u ELSE IF b <= Len(file) THEN file[b] ELSE Hole]
  BY DEF WrittenAt
<1> HIDE DEF n, w
<1>4. w \in [1 .. n -> {u, Hole}]
  BY <1>1, <1>2, <1>3
<1>5. w \in Seq({u, Hole}) /\ DOMAIN w = 1 .. n
  BY <1>2, <1>4, SeqDef
<1>6. Len(w) = n
  BY <1>2, <1>5, LenProperties
<1>7. w[i] = u /\ \A b \in 1 .. Len(file) : file[b] = u => w[b] = u
  BY <1>2, <1>3
<1> QED
  BY <1>5, <1>6, <1>7 DEF n, w

(* A piece written anywhere leaves a file filled as far as it was; the     *)
(* next piece fills it further.                                            *)
LEMMA WrittenFilled ==
  ASSUME NEW u \in Urls, NEW file, NEW k \in Nat, FilledTo(file, u, k),
         NEW i \in Nat, i < SizeOf[u]
  PROVE  /\ FilledTo(WrittenAt(file, i + 1, u), u, k)
         /\ i = k => FilledTo(WrittenAt(file, i + 1, u), u, k + 1)
<1> DEFINE w == WrittenAt(file, i + 1, u)
<1> USE DEF FilledTo
<1>1. /\ SizeOf[u] \in Nat /\ i + 1 \in 1 .. SizeOf[u] /\ Len(file) \in Nat
      /\ file \in Seq({u, Hole}) /\ k <= Len(file) /\ Len(file) <= SizeOf[u]
      /\ \A b \in 1 .. k : file[b] = u
  <2>1. SizeOf[u] \in Nat
    BY ContentFacts
  <2>2. Len(file) \in Nat
    BY LenProperties
  <2> QED
    BY <2>1, <2>2
<1>2. /\ w \in Seq({u, Hole})
      /\ Len(w) = IF i + 1 > Len(file) THEN i + 1 ELSE Len(file)
      /\ w[i + 1] = u
      /\ \A b \in 1 .. Len(file) : file[b] = u => w[b] = u
  BY <1>1, WrittenFacts
<1> HIDE DEF w
<1>3. k <= Len(w) /\ Len(w) <= SizeOf[u] /\ (i = k => k + 1 <= Len(w))
  BY <1>1, <1>2
<1>4. \A b \in 1 .. k : w[b] = u
  BY <1>1, <1>2
<1>5. i = k => \A b \in 1 .. k + 1 : w[b] = u
  BY <1>2, <1>4
<1> QED
  BY <1>2, <1>3, <1>4, <1>5 DEF FilledTo, w

(* A whole file stays whole when a piece of it is written again.           *)
LEMMA WrittenWhole ==
  ASSUME NEW u \in Urls, NEW i \in Nat, i < SizeOf[u]
  PROVE  WrittenAt(Content(u), i + 1, u) = Content(u)
<1>1. FilledTo(Content(u), u, SizeOf[u]) /\ SizeOf[u] \in Nat
  BY ContentFacts DEF FilledTo
<1> QED
  BY <1>1, WrittenFilled, FilledWhole

-----------------------------------------------------------------------------
(* The steps.                                                              *)

(* A step does not touch the process q.                                    *)
Stays(q) ==
  /\ pc'[q] = pc[q] /\ media'[q] = media[q] /\ at'[q] = at[q]
  /\ offset'[q] = offset[q] /\ paths'[q] = paths[q] /\ report'[q] = report[q]

(* What a process has done stays done when another one takes a step that   *)
(* removes no file.                                                        *)
LEMMA ProgressStays ==
  ASSUME NEW q \in Procs, Progress(q), Stays(q), DOMAIN disk \subseteq DOMAIN disk'
  PROVE  Progress(q)'
BY DEF Progress, Stays, DownloadedView

(* A process that creates or writes a file is at a media of its task.      *)
LEMMA CopyFacts ==
  ASSUME IInv, NEW p \in Procs, pc[p] \in {"create", "copy"}
  PROVE  /\ media[p] \in Media /\ at[p] \in 1 .. Size(media[p])
         /\ Kind(p) = KindAt(media[p], at[p])
         /\ Url(p) = UrlAt(media[p], at[p])
         /\ File(p) = FileAt(media[p], at[p])
         /\ Url(p) \in Urls
<1>1. /\ media[p] \in Media /\ at[p] \in Nat \ {0}
      /\ at[p] <= Size(media[p])
  BY DEF IInv, TypeInv, Progress
<1>2. at[p] \in 1 .. Size(media[p])
  BY <1>1, MediaFacts
<1> QED
  BY <1>1, <1>2, HereFacts

(* Writers in terms of the media a process is at.                          *)
LEMMA WritersFacts ==
  ASSUME IInv, NEW n
  PROVE  Writers(n) = {q \in Procs : Writes(q, n)}
BY CopyFacts DEF Writers, Writes

(* A step in which no file is created, written, finished or left.          *)
LEMMA QuietStep ==
  ASSUME IInv, NEW p \in Procs, pc[p] # "copy", pc'[p] # "copy",
         \A q \in Procs \ {p} : Stays(q), UNCHANGED <<disk, last, dirty>>,
         TypeInv', Progress(p)',
         UNCHANGED <<media[p], at[p]>> \/ at'[p] = 1
  PROVE  IInv'
<1>1. \A q \in Procs \ {p} : Progress(q)'
  BY ProgressStays DEF IInv
<1>2. \A q \in Procs : Delivered(q)'
  <2>1. ASSUME NEW q \in Procs, media'[q] = media[q], at'[q] = at[q]
        PROVE  Delivered(q)'
    BY <2>1 DEF IInv, Delivered
  <2>2. CASE at'[p] = 1
    <3>1. Delivered(p)'
      BY <2>2 DEF Delivered
    <3> QED
      BY <2>1, <3>1 DEF Stays
  <2>3. CASE UNCHANGED <<media[p], at[p]>>
    BY <2>1, <2>3 DEF Stays
  <2> QED
    BY <2>2, <2>3
<1>3. \A n : \A q \in Procs : Writes(q, n)' <=> Writes(q, n)
  BY DEF Writes, Stays
<1>4. FilesClean'
  <2> SUFFICES ASSUME NEW n \in DOMAIN disk \ dirty PROVE Clean(n)'
    BY DEF FilesClean
  <2>1. PICK u \in Urls :
          /\ \A q \in Procs : Writes(q, n) => UrlAt(media[q], at[q]) = u
          /\ IF last[n] \in Procs /\ Writes(last[n], n)
             THEN FilledTo(disk[n], u, offset[last[n]])
             ELSE disk[n] = Content(u)
    BY DEF IInv, FilesClean, Clean
  <2>2. \A q \in Procs : Writes(q, n) => q # p
    BY DEF Writes
  <2>3. \A q \in Procs : Writes(q, n)' => UrlAt(media'[q], at'[q]) = u
    BY <1>3, <2>1, <2>2 DEF Stays
  <2>4. IF last'[n] \in Procs /\ Writes(last[n], n)'
        THEN FilledTo(disk'[n], u, offset'[last'[n]])
        ELSE disk'[n] = Content(u)
    BY <1>3, <2>1, <2>2 DEF Stays
  <2> QED
    BY <2>3, <2>4 DEF Clean
<1> QED
  BY <1>1, <1>2, <1>4 DEF IInv

(* Nothing is stored before the first answer.                              *)
LEMMA NoMediaFacts ==
  NoMedia \in Media /\ Size(NoMedia) = 0 /\ PathsTo(NoMedia, 0) = NoPaths
<1>1. <<>> \in Seq(Shown) /\ Len(<<>>) = 0
  BY EmptySeq
<1>2. NoMedia \in Media /\ Size(NoMedia) = 0
  BY <1>1 DEF NoMedia, Media, Size
<1> QED
  BY <1>1, <1>2 DEF NoMedia, NoPaths, PathsTo

(* Before the first download there is no path.                             *)
LEMMA PathsToNone ==
  ASSUME NEW m \in Media
  PROVE  PathsTo(m, 0) = NoPaths
<1>1. Len(m.images) \in Nat
  BY MediaFacts
<1> QED
  BY <1>1 DEF PathsTo, NoPaths

(* Init: nothing is on disk, and nobody has done anything.                 *)
LEMMA InitHolds == Init => IInv
<1> SUFFICES ASSUME Init PROVE IInv
  OBVIOUS
<1>1. TypeInv
  BY NoMediaFacts DEF Init, TypeInv
<1>2. \A p \in Procs : Progress(p)
  BY NoMediaFacts DEF Init, Progress, Nothing
<1>3. \A p \in Procs : Delivered(p)
  BY DEF Init, Delivered
<1>4. FilesClean
  BY DEF Init, FilesClean
<1> QED
  BY <1>1, <1>2, <1>3, <1>4 DEF IInv

(* The steps of a query, which touch no file.                              *)
LEMMA ReadStep == ASSUME IInv, NEW p \in Procs, Read(p) PROVE IInv'
<1> USE DEF Read, shared, history, Goto
<1>1. TypeInv'
  BY DEF IInv, TypeInv
<1>2. /\ row \in Media /\ media'[p] = row /\ at[p] = 1 /\ paths[p] = NoPaths
      /\ report[p] = Nothing /\ pc'[p] = "asking"
  <2>1. Progress(p) /\ media[p] \in Media
    BY DEF IInv, TypeInv
  <2> QED
    BY <2>1, PathsToNone DEF IInv, TypeInv, Progress
<1>3. Progress(p)'
  BY <1>2, MediaFacts, PathsToNone DEF Progress, Nothing
<1>4. \A q \in Procs \ {p} : Stays(q)
  BY DEF IInv, TypeInv, Stays
<1> QED
  BY <1>1, <1>2, <1>3, <1>4, QuietStep

(* The answer's media are merged into the ones that were read.             *)
LEMMA AnsweredStep == ASSUME IInv, NEW p \in Procs, Answered(p) PROVE IInv'
<1> USE DEF Answered, Goto, history
<1>1. row' \in Media
  BY MergeMediaType, AnswersAssumption DEF IInv, TypeInv, Item
<1>2. TypeInv'
  BY <1>1 DEF IInv, TypeInv
<1>3. /\ media'[p] = row' /\ at[p] = 1 /\ paths[p] = NoPaths
      /\ report[p] = Nothing /\ pc'[p] = "queried"
  <2>1. Progress(p) /\ media[p] \in Media
    BY DEF IInv, TypeInv
  <2> QED
    BY <2>1, PathsToNone DEF IInv, TypeInv, Progress
<1>4. Progress(p)'
  BY <1>1, <1>3, MediaFacts, PathsToNone DEF Progress, Nothing
<1>5. \A q \in Procs \ {p} : Stays(q)
  BY DEF IInv, TypeInv, Stays
<1> QED
  BY <1>2, <1>3, <1>4, <1>5, QuietStep

(* The media that were read are stored again.                              *)
LEMMA UnansweredStep == ASSUME IInv, NEW p \in Procs, Unanswered(p) PROVE IInv'
<1> USE DEF Unanswered, Goto, history
<1>1. TypeInv'
  BY DEF IInv, TypeInv
<1>2. Progress(p)'
  BY DEF IInv, TypeInv, Progress, Nothing
<1>3. \A q \in Procs \ {p} : Stays(q)
  BY DEF IInv, TypeInv, Stays
<1> QED
  BY <1>1, <1>2, <1>3, QuietStep DEF IInv, TypeInv

(* The command ends without touching a file, and does not report files.    *)
LEMMA EndStep ==
  ASSUME IInv, NEW p \in Procs, pc[p] # "copy",
         NEW r, r.kind # "downloaded", Goto(p, "done"), Show(p, r),
         UNCHANGED <<shared, media, at, offset, paths, history>>
  PROVE  IInv'
<1> USE DEF Goto, Show, shared, history
<1>1. TypeInv'
  BY DEF IInv, TypeInv
<1>2. pc'[p] = "done" /\ report'[p] = r
  BY DEF IInv, TypeInv
<1>3. Progress(p)'
  BY <1>2 DEF IInv, Progress
<1>4. \A q \in Procs \ {p} : Stays(q)
  BY DEF IInv, TypeInv, Stays
<1> QED
  BY <1>1, <1>2, <1>3, <1>4, QuietStep

(* A step from one place to another, and nothing else.                     *)
LEMMA MoveStep ==
  ASSUME IInv, NEW p \in Procs, NEW l, Goto(p, l),
         \/ pc[p] = "queried" /\ l = "open"
         \/ pc[p] = "open" /\ l = "create" /\ at[p] <= Size(media[p]),
         UNCHANGED <<shared, media, at, offset, paths, report, history>>
  PROVE  IInv'
<1> USE DEF Goto, shared, history
<1>1. TypeInv'
  BY DEF IInv, TypeInv
<1>2. pc'[p] = l /\ l \in {"open", "create"}
  BY DEF IInv, TypeInv
<1>3. Progress(p)'
  BY <1>2 DEF IInv, Progress, Nothing
<1>4. \A q \in Procs \ {p} : Stays(q)
  BY DEF IInv, TypeInv, Stays
<1> QED
  BY <1>1, <1>2, <1>3, <1>4, QuietStep

(* The end: what is shown is what was downloaded.                          *)
LEMMA ShowDownloadedStep ==
  ASSUME IInv, NEW p \in Procs, ShowDownloaded(p)
  PROVE  IInv'
<1> USE DEF ShowDownloaded, Goto, Show, shared, history
<1>1. TypeInv'
  BY DEF IInv, TypeInv
<1>2. pc'[p] = "done" /\ report'[p] = DownloadedView(p)
  BY DEF IInv, TypeInv
<1>3. at[p] = Size(media[p]) + 1
  <2>1. /\ media[p] \in Media /\ at[p] \in Nat
        /\ at[p] <= Size(media[p]) + 1 /\ at[p] > Len(Queue(p))
    BY DEF IInv, TypeInv, Progress
  <2>2. Size(media[p]) \in Nat /\ Len(Queue(p)) = Size(media[p])
    BY <2>1, MediaFacts, QueueFacts
  <2> QED
    BY <2>1, <2>2
<1>4. Progress(p)'
  BY <1>2, <1>3 DEF IInv, Progress, DownloadedView
<1>5. \A q \in Procs \ {p} : Stays(q)
  BY DEF IInv, TypeInv, Stays
<1> QED
  BY <1>1, <1>2, <1>4, <1>5, QuietStep

(* The command starts over.                                                *)
LEMMA RerunStep == ASSUME IInv, NEW p \in Procs, Rerun(p) PROVE IInv'
<1> USE DEF Rerun, Goto, Show, shared
<1>1. TypeInv'
  BY NoMediaFacts DEF IInv, TypeInv
<1>2. /\ pc'[p] = "idle" /\ media'[p] = NoMedia /\ at'[p] = 1
      /\ paths'[p] = NoPaths /\ report'[p] = Nothing
  BY DEF IInv, TypeInv
<1>3. Progress(p)'
  BY <1>2, NoMediaFacts DEF Progress, Nothing
<1>4. \A q \in Procs \ {p} : Stays(q)
  BY DEF IInv, TypeInv, Stays
<1> QED
  BY <1>1, <1>2, <1>3, <1>4, QuietStep

(* A process that writes no file is killed.                                *)
LEMMA KillStep ==
  ASSUME IInv, NEW p \in Procs, Kill(p), pc[p] # "copy"
  PROVE  IInv'
<1> USE DEF Kill, Goto, shared
<1>1. TypeInv'
  BY DEF IInv, TypeInv
<1>2. pc'[p] = "done"
  BY DEF IInv, TypeInv
<1>3. Progress(p)'
  BY <1>2 DEF IInv, Progress, Nothing
<1>4. \A q \in Procs \ {p} : Stays(q)
  BY DEF IInv, TypeInv, Stays
<1> QED
  BY <1>1, <1>2, <1>3, <1>4, QuietStep

-----------------------------------------------------------------------------
(* The steps that touch files.                                             *)

(* os.Create: a file that is clean afterwards is written for one URL.      *)
LEMMA CreateStep == ASSUME IInv, NEW p \in Procs, Create(p) PROVE IInv'
<1> DEFINE n == File(p)
           u == Url(p)
           rivals == {q \in Writers(n) : Url(q) # u}
<1>1. /\ pc[p] = "create" /\ disk' = With(disk, n, <<>>) /\ last' = With(last, n, p)
      /\ dirty' = IF rivals = {} THEN dirty \ {n} ELSE dirty \cup {n}
      /\ pc' = [pc EXCEPT ![p] = "copy"] /\ offset' = [offset EXCEPT ![p] = 0]
      /\ UNCHANGED <<row, media, at, paths, report>>
  BY DEF Create, Goto
<1>2. /\ media[p] \in Media /\ at[p] \in 1 .. Size(media[p])
      /\ u = UrlAt(media[p], at[p]) /\ n = FileAt(media[p], at[p])
      /\ u \in Urls
  BY <1>1, CopyFacts
<1> HIDE DEF n, u
<1>3. /\ pc'[p] = "copy" /\ offset'[p] = 0
      /\ \A q \in Procs \ {p} : Stays(q)
  BY <1>1 DEF IInv, TypeInv, Stays
<1>4. /\ DOMAIN disk' = DOMAIN disk \cup {n} /\ DOMAIN last' = DOMAIN last \cup {n}
      /\ disk'[n] = <<>> /\ last'[n] = p
      /\ \A m \in DOMAIN disk \ {n} : disk'[m] = disk[m] /\ last'[m] = last[m]
  BY <1>1 DEF With, IInv, TypeInv
<1>5. TypeInv'
  BY <1>1, <1>4 DEF IInv, TypeInv
<1>6. Progress(p)'
  <2>1. SizeOf[u] \in Nat /\ n \in DOMAIN disk'
    BY <1>2, <1>4, ContentFacts
  <2>2. Progress(p) /\ report'[p] = report[p] /\ paths'[p] = paths[p]
    BY <1>1 DEF IInv
  <2> QED
    BY <1>1, <1>2, <1>3, <2>1, <2>2 DEF Progress, Nothing
<1>7. \A q \in Procs \ {p} : Progress(q)'
  BY <1>3, <1>4, ProgressStays DEF IInv
<1>8. \A q \in Procs : Delivered(q)'
  <2> SUFFICES ASSUME NEW q \in Procs, NEW j \in 1 .. at[q] - 1
               PROVE  LET m == FileAt(media[q], j)
                      IN  /\ m \in DOMAIN disk'
                          /\ last'[m] = q /\ m \notin dirty' =>
                               disk'[m] = Content(UrlAt(media[q], j))
    BY <1>1 DEF Delivered
  <2> DEFINE m == FileAt(media[q], j)
  <2>1. /\ m \in DOMAIN disk
        /\ last[m] = q /\ m \notin dirty => disk[m] = Content(UrlAt(media[q], j))
    BY DEF IInv, Delivered
  <2>2. CASE m # n
    <3>1. m \notin dirty' => m \notin dirty
      BY <1>1, <2>2
    <3> QED
      BY <1>4, <2>1, <2>2, <3>1
  <2>3. CASE m = n
    <3>1. q # p
      <4> SUFFICES ASSUME q = p PROVE FALSE
        OBVIOUS
      <4>1. Size(media[p]) \in Nat
        BY <1>2, MediaFacts
      <4>2. j \in 1 .. Size(media[p]) /\ j # at[p]
        BY <1>2, <4>1
      <4> QED
        BY <1>2, <2>3, <4>2, SlotFacts
    <3> QED
      BY <1>4, <2>1, <2>3, <3>1
  <2> QED
    BY <2>2, <2>3
<1>9. FilesClean'
  <2> SUFFICES ASSUME NEW m \in DOMAIN disk' \ dirty' PROVE Clean(m)'
    BY DEF FilesClean
  <2>1. \A q \in Procs \ {p} : Writes(q, m)' <=> Writes(q, m)
    BY <1>3 DEF Writes, Stays
  <2>2. Writes(p, m)' <=> m = n
    BY <1>1, <1>2, <1>3 DEF Writes
  <2>3. CASE m # n
    <3>1. m \in DOMAIN disk \ dirty /\ disk'[m] = disk[m] /\ last'[m] = last[m]
      BY <1>1, <1>4, <2>3
    <3>2. ~ Writes(p, m)
      BY <1>1 DEF Writes
    <3>3. PICK v \in Urls :
            /\ \A q \in Procs : Writes(q, m) => UrlAt(media[q], at[q]) = v
            /\ IF last[m] \in Procs /\ Writes(last[m], m)
               THEN FilledTo(disk[m], v, offset[last[m]])
               ELSE disk[m] = Content(v)
      BY <3>1 DEF IInv, FilesClean, Clean
    <3>4. \A q \in Procs : Writes(q, m)' => UrlAt(media'[q], at'[q]) = v
      BY <1>1, <2>1, <2>2, <2>3, <3>3
    <3>5. IF last'[m] \in Procs /\ Writes(last[m], m)'
          THEN FilledTo(disk'[m], v, offset'[last'[m]])
          ELSE disk'[m] = Content(v)
      BY <1>3, <2>1, <2>2, <2>3, <3>1, <3>2, <3>3 DEF Stays
    <3> QED
      BY <3>1, <3>4, <3>5 DEF Clean
  <2>4. CASE m = n
    <3>1. rivals = {}
      BY <1>1, <2>4
    <3>2. \A q \in Procs : Writes(q, m) => Url(q) = u
      BY <2>4, <3>1, WritersFacts
    <3>3. \A q \in Procs : Writes(q, m)' => UrlAt(media'[q], at'[q]) = u
      <4> SUFFICES ASSUME NEW q \in Procs, Writes(q, m)', q # p
                   PROVE  UrlAt(media[q], at[q]) = u
        BY <1>1, <1>2
      <4>1. Writes(q, m) /\ pc[q] = "copy"
        BY <2>1 DEF Writes
      <4> QED
        BY <3>2, <4>1, CopyFacts
    <3>4. FilledTo(<<>>, u, 0)
      <4>1. <<>> \in Seq({u, Hole}) /\ Len(<<>>) = 0
        BY EmptySeq
      <4>2. SizeOf[u] \in Nat
        BY <1>2, ContentFacts
      <4> QED
        BY <4>1, <4>2 DEF FilledTo
    <3>5. last'[m] = p /\ Writes(p, m)' /\ disk'[m] = <<>> /\ offset'[p] = 0
      BY <1>3, <1>4, <2>2, <2>4
    <3> QED
      BY <1>2, <2>4, <3>3, <3>4, <3>5 DEF Clean
  <2> QED
    BY <2>3, <2>4
<1> QED
  BY <1>5, <1>6, <1>7, <1>8, <1>9 DEF IInv

(* io.Copy: what it writes into a file that is clean is of the file's URL. *)
LEMMA CopyStep == ASSUME IInv, NEW p \in Procs, Copy(p) PROVE IInv'
<1>1. /\ pc[p] = "copy" /\ pc'[p] = "copy"
      /\ media[p] \in Media /\ at[p] \in 1 .. Size(media[p])
      /\ Url(p) \in Urls /\ FileAt(media[p], at[p]) = File(p)
      /\ UrlAt(media[p], at[p]) = Url(p)
      /\ offset[p] \in Nat /\ offset[p] < SizeOf[Url(p)]
      /\ offset' = [offset EXCEPT ![p] = @ + 1]
      /\ File(p) \in DOMAIN disk
      /\ disk' = [disk EXCEPT ![File(p)] = WrittenAt(@, offset[p] + 1, Url(p))]
  <2>1. Progress(p)
    BY DEF IInv
  <2>2. pc[p] = "copy"
    BY DEF Copy
  <2> QED
    BY <2>1, <2>2, CopyFacts DEF Copy, IInv, TypeInv, Progress
<1>2. PICK n, u : n = File(p) /\ u = Url(p)
  OBVIOUS
<1>3. /\ pc' = pc /\ media' = media /\ at' = at
      /\ \A m : \A q \in Procs : Writes(q, m)' <=> Writes(q, m)
  BY DEF Copy, Writes
<1>4. \A q \in Procs \ {p} : Stays(q)
  BY DEF Copy, Stays, IInv, TypeInv
<1>5. /\ n \in DOMAIN disk /\ DOMAIN disk' = DOMAIN disk
      /\ disk'[n] = WrittenAt(disk[n], offset[p] + 1, u)
      /\ \A m \in DOMAIN disk \ {n} : disk'[m] = disk[m]
      /\ last' = last /\ dirty' = dirty
  BY <1>1, <1>2 DEF Copy, history
<1>6. TypeInv'
  BY <1>1, <1>5 DEF Copy, IInv, TypeInv
<1>7. Progress(p)'
  <2>1. SizeOf[u] \in Nat /\ offset'[p] = offset[p] + 1
    BY <1>1, <1>2, ContentFacts DEF IInv, TypeInv
  <2>2. Progress(p) /\ report'[p] = report[p] /\ paths'[p] = paths[p]
        /\ media'[p] = media[p] /\ at'[p] = at[p]
    BY DEF Copy, IInv
  <2> QED
    BY <1>1, <1>2, <1>5, <2>1, <2>2 DEF Progress, Nothing
<1>8. \A q \in Procs \ {p} : Progress(q)'
  BY <1>4, <1>5, ProgressStays DEF IInv
<1>9. \A v \in Urls : disk[n] = Content(v) /\ u = v => disk'[n] = disk[n]
  BY <1>1, <1>2, <1>5, WrittenWhole
<1>10. Writes(p, n)
  BY <1>1, <1>2 DEF Writes
<1>11. \A q \in Procs : Delivered(q)'
  <2> SUFFICES ASSUME NEW q \in Procs, NEW j \in 1 .. at[q] - 1
               PROVE  LET m == FileAt(media[q], j)
                      IN  /\ m \in DOMAIN disk'
                          /\ last[m] = q /\ m \notin dirty =>
                               disk'[m] = Content(UrlAt(media[q], j))
    BY <1>3, <1>5 DEF Delivered
  <2> DEFINE m == FileAt(media[q], j)
  <2>1. /\ m \in DOMAIN disk
        /\ last[m] = q /\ m \notin dirty => disk[m] = Content(UrlAt(media[q], j))
    BY DEF IInv, Delivered
  <2>2. CASE m # n
    BY <1>5, <2>1, <2>2
  <2>3. CASE m = n /\ last[m] = q /\ m \notin dirty
    <3>1. ~ Writes(q, n)
      <4> SUFFICES ASSUME Writes(q, n) PROVE FALSE
        OBVIOUS
      <4>1. /\ media[q] \in Media /\ at[q] \in 1 .. Size(media[q])
            /\ Size(media[q]) \in Nat
        BY CopyFacts, MediaFacts DEF Writes
      <4>2. j \in 1 .. Size(media[q]) /\ j # at[q]
        BY <4>1
      <4> QED
        BY <2>3, <4>1, <4>2, SlotFacts DEF Writes
    <3>2. PICK v \in Urls : Url(p) = v /\ disk[n] = Content(v)
      BY <1>1, <1>5, <1>10, <2>3, <3>1 DEF IInv, FilesClean, Clean
    <3> QED
      BY <1>2, <1>5, <1>9, <2>1, <2>3, <3>2
  <2> QED
    BY <1>5, <2>1, <2>2, <2>3
<1>12. FilesClean'
  <2> SUFFICES ASSUME NEW m \in DOMAIN disk \ dirty PROVE Clean(m)'
    BY <1>5 DEF FilesClean
  <2>1. PICK v \in Urls :
          /\ \A q \in Procs : Writes(q, m) => UrlAt(media[q], at[q]) = v
          /\ IF last[m] \in Procs /\ Writes(last[m], m)
             THEN FilledTo(disk[m], v, offset[last[m]])
             ELSE disk[m] = Content(v)
    BY DEF IInv, FilesClean, Clean
  <2>2. \A q \in Procs : Writes(q, m)' <=> Writes(q, m)
    BY <1>3
  <2>3. \A q \in Procs : Writes(q, m)' => UrlAt(media'[q], at'[q]) = v
    BY <1>3, <2>1, <2>2
  <2>4. CASE m # n
    <3>1. ~ Writes(p, m)
      BY <1>1, <1>2, <2>4 DEF Writes
    <3>2. IF last'[m] \in Procs /\ Writes(last[m], m)'
          THEN FilledTo(disk'[m], v, offset'[last'[m]])
          ELSE disk'[m] = Content(v)
      BY <1>4, <1>5, <2>1, <2>2, <2>4, <3>1 DEF Stays
    <3> QED
      BY <1>5, <2>3, <3>2 DEF Clean
  <2>5. CASE m = n
    <3>1. u = v
      BY <1>1, <1>2, <1>10, <2>1, <2>5
    <3>2. CASE last[m] \in Procs /\ Writes(last[m], m)
      <4> DEFINE q == last[m]
      <4>1. FilledTo(disk[m], v, offset[q]) /\ offset[q] \in Nat
        BY <2>1, <3>2 DEF IInv, TypeInv
      <4>2. /\ FilledTo(disk'[m], v, offset[q])
            /\ offset[p] = offset[q] => FilledTo(disk'[m], v, offset[q] + 1)
        BY <1>1, <1>2, <1>5, <2>5, <3>1, <4>1, WrittenFilled
      <4>3. FilledTo(disk'[m], v, offset'[q])
        <5>1. CASE q = p
          <6>1. offset'[q] = offset[q] + 1
            BY <1>1, <5>1 DEF IInv, TypeInv
          <6> QED
            BY <4>2, <5>1, <6>1
        <5>2. CASE q # p
          BY <1>4, <3>2, <4>2, <5>2 DEF Stays
        <5> QED
          BY <5>1, <5>2
      <4>4. last'[m] = q /\ Writes(q, m)'
        BY <1>5, <2>2, <3>2
      <4> QED
        BY <2>3, <3>2, <4>3, <4>4 DEF Clean
    <3>3. CASE ~ (last[m] \in Procs /\ Writes(last[m], m))
      <4>1. disk'[m] = Content(v)
        BY <1>9, <2>1, <2>5, <3>1, <3>3
      <4>2. ~ (last'[m] \in Procs /\ Writes(last[m], m)')
        BY <1>5, <2>2, <3>3
      <4> QED
        BY <1>5, <2>3, <4>1, <4>2 DEF Clean
    <3> QED
      BY <3>2, <3>3
  <2> QED
    BY <2>4, <2>5
<1> QED
  BY <1>6, <1>7, <1>8, <1>11, <1>12 DEF IInv

(* A process leaves the file it was writing unfinished.                    *)
LEMMA LeaveStep ==
  ASSUME IInv, NEW p \in Procs, pc[p] = "copy", Goto(p, "done"),
         UNCHANGED <<shared, media, at, offset, paths, last>>,
         dirty' = dirty \cup {File(p)},
         \/ UNCHANGED report
         \/ Show(p, Failed)
  PROVE  IInv'
<1> USE DEF Goto, Show, shared
<1>1. /\ pc'[p] = "done"
      /\ \A q \in Procs \ {p} : Stays(q)
      /\ media' = media /\ at' = at /\ disk' = disk /\ last' = last
  BY DEF IInv, TypeInv, Stays
<1>2. TypeInv'
  BY DEF IInv, TypeInv
<1>3. Progress(p)'
  <2>1. Progress(p) /\ report'[p].kind # "downloaded"
    BY DEF IInv, TypeInv, Progress, Nothing, Failed
  <2> QED
    BY <1>1, <2>1 DEF Progress
<1>4. \A q \in Procs \ {p} : Progress(q)'
  BY <1>1, ProgressStays DEF IInv
<1>5. \A q \in Procs : Delivered(q)'
  BY <1>1 DEF IInv, Delivered
<1>6. FilesClean'
  <2> SUFFICES ASSUME NEW m \in DOMAIN disk \ dirty, m # File(p) PROVE Clean(m)'
    BY <1>1 DEF FilesClean
  <2>1. PICK v \in Urls :
          /\ \A q \in Procs : Writes(q, m) => UrlAt(media[q], at[q]) = v
          /\ IF last[m] \in Procs /\ Writes(last[m], m)
             THEN FilledTo(disk[m], v, offset[last[m]])
             ELSE disk[m] = Content(v)
    BY DEF IInv, FilesClean, Clean
  <2>2. \A q \in Procs : Writes(q, m)' <=> Writes(q, m)
    <3>1. ~ Writes(p, m) /\ ~ Writes(p, m)'
      BY <1>1, CopyFacts DEF Writes
    <3> QED
      BY <1>1, <3>1 DEF Writes, Stays
  <2>3. \A q \in Procs : Writes(q, m)' => UrlAt(media'[q], at'[q]) = v
    BY <1>1, <2>1, <2>2
  <2>4. IF last'[m] \in Procs /\ Writes(last[m], m)'
        THEN FilledTo(disk'[m], v, offset'[last'[m]])
        ELSE disk'[m] = Content(v)
    BY <1>1, <2>1, <2>2
  <2> QED
    BY <1>1, <2>3, <2>4 DEF Clean
<1> QED
  BY <1>2, <1>3, <1>4, <1>5, <1>6 DEF IInv

(* One path more.                                                          *)
LEMMA PathsToNext ==
  ASSUME NEW m \in Media, NEW k \in 1 .. Size(m)
  PROVE  Longer(PathsTo(m, k - 1), KindAt(m, k), FileAt(m, k)) = PathsTo(m, k)
<1> DEFINE a == Len(m.images)
           b == Len(m.videos)
           F == {FileAt(m, j) : j \in Nat}
           images(l) == [i \in 1 .. (IF l <= a THEN l ELSE a) |-> FileAt(m, i)]
           videos(l) == [i \in 1 .. (IF l <= a THEN 0 ELSE l - a) |-> FileAt(m, a + i)]
<1>1. /\ a \in Nat /\ b \in Nat /\ k \in 1 .. a + b
      /\ \A l : PathsTo(m, l) = [images |-> images(l), videos |-> videos(l)]
  BY MediaFacts DEF Size, PathsTo
<1>2. KindAt(m, k) = IF k <= a THEN "images" ELSE "videos"
  BY DEF KindAt
<1>3. \A j \in Nat : FileAt(m, j) \in F
  OBVIOUS
<1> HIDE DEF a, b, F
<1>4. ASSUME NEW n \in Nat, NEW g \in [1 .. n + 1 -> F]
      PROVE  Append([i \in 1 .. n |-> g[i]], g[n + 1]) = g
  <2> DEFINE s == [i \in 1 .. n |-> g[i]]
  <2>1. s \in [1 .. n -> F] /\ DOMAIN s = 1 .. n
    BY <1>4
  <2>2. s \in Seq(F)
    BY <2>1, SeqDef
  <2>3. Len(s) = n
    BY <2>1, <2>2, LenProperties
  <2>4. g \in Seq(F) /\ g[n + 1] \in F /\ DOMAIN g = 1 .. n + 1 /\ n + 1 \in Nat
    BY <1>4, SeqDef
  <2>5. Len(g) = n + 1
    BY <2>4, LenProperties
  <2>6. \A i \in 1 .. n : s[i] = g[i]
    OBVIOUS
  <2> HIDE DEF s
  <2>7. /\ Append(s, g[n + 1]) \in Seq(F)
        /\ Len(Append(s, g[n + 1])) = n + 1
        /\ \A i \in 1 .. n : Append(s, g[n + 1])[i] = s[i]
        /\ Append(s, g[n + 1])[n + 1] = g[n + 1]
    BY <2>2, <2>3, <2>4, AppendProperties
  <2>8. \A i \in 1 .. n + 1 : Append(s, g[n + 1])[i] = g[i]
    BY <2>6, <2>7
  <2> QED
    BY <2>4, <2>5, <2>7, <2>8, SeqEqual DEF s
<1>5. CASE k <= a
  <2>1. images(k) \in [1 .. (k - 1) + 1 -> F] /\ k - 1 \in Nat
    BY <1>1, <1>3, <1>5
  <2>2. /\ images(k - 1) = [i \in 1 .. k - 1 |-> images(k)[i]]
        /\ images(k)[(k - 1) + 1] = FileAt(m, k)
    BY <1>1, <1>5
  <2>3. videos(k - 1) = videos(k)
    BY <1>1, <1>5
  <2> HIDE DEF images, videos
  <2>4. Append(images(k - 1), FileAt(m, k)) = images(k)
    BY <1>4, <2>1, <2>2
  <2> QED
    BY <1>1, <1>2, <1>5, <2>3, <2>4 DEF Longer
<1>6. CASE ~ (k <= a)
  <2>1. videos(k) \in [1 .. (k - a - 1) + 1 -> F] /\ k - a - 1 \in Nat
    BY <1>1, <1>3, <1>6
  <2>2. /\ videos(k - 1) = [i \in 1 .. k - a - 1 |-> videos(k)[i]]
        /\ videos(k)[(k - a - 1) + 1] = FileAt(m, k)
    BY <1>1, <1>6
  <2>3. images(k - 1) = images(k)
    BY <1>1, <1>6
  <2> HIDE DEF images, videos
  <2>4. Append(videos(k - 1), FileAt(m, k)) = videos(k)
    BY <1>4, <2>1, <2>2
  <2> QED
    BY <1>1, <1>2, <1>6, <2>3, <2>4 DEF Longer
<1> QED
  BY <1>5, <1>6

(* The last piece is written: the file is whole if it is clean.            *)
LEMMA FinishStep == ASSUME IInv, NEW p \in Procs, Finish(p) PROVE IInv'
<1>1. /\ pc[p] = "copy" /\ Progress(p)
      /\ media[p] \in Media /\ at[p] \in 1 .. Size(media[p])
      /\ Kind(p) = KindAt(media[p], at[p])
      /\ Url(p) \in Urls /\ FileAt(media[p], at[p]) = File(p)
      /\ UrlAt(media[p], at[p]) = Url(p)
      /\ offset[p] = SizeOf[Url(p)]
  <2>1. pc[p] = "copy"
    BY DEF Finish
  <2> QED
    BY <2>1, CopyFacts DEF Finish, IInv
<1>2. /\ pc'[p] = "open" /\ at'[p] = at[p] + 1
      /\ paths'[p] = Longer(paths[p], Kind(p), File(p))
      /\ \A q \in Procs \ {p} : Stays(q)
  BY DEF Finish, Goto, Stays, IInv, TypeInv
<1>3. UNCHANGED <<row, disk, media, offset, report, last, dirty>>
  BY DEF Finish, shared, history
<1>4. PICK n, u : n = File(p) /\ u = Url(p)
  OBVIOUS
<1>5. TypeInv'
  BY <1>3 DEF Finish, Goto, IInv, TypeInv
<1>6. Progress(p)'
  <2>1. Size(media[p]) \in Nat /\ at[p] \in Nat
    BY <1>1, MediaFacts
  <2>2. at'[p] <= Size(media[p]) + 1 /\ at'[p] - 1 = at[p]
    BY <1>1, <1>2, <2>1
  <2>3. paths'[p] = PathsTo(media[p], at[p])
    <3>1. paths[p] = PathsTo(media[p], at[p] - 1)
      BY <1>1 DEF Progress
    <3> QED
      BY <1>1, <1>2, <3>1, PathsToNext
  <2>4. report'[p] = Nothing
    BY <1>1, <1>3 DEF Progress
  <2> QED
    BY <1>2, <1>3, <2>2, <2>3, <2>4 DEF Progress, Nothing
<1>7. \A q \in Procs \ {p} : Progress(q)'
  BY <1>2, <1>3, ProgressStays DEF IInv
<1>8. Writes(p, n) /\ n \in DOMAIN disk
  BY <1>1, <1>4 DEF Writes, Progress
<1>9. ASSUME n \notin dirty, last[n] = p PROVE disk[n] = Content(u)
  <2>1. PICK v \in Urls :
          /\ UrlAt(media[p], at[p]) = v
          /\ FilledTo(disk[n], v, offset[p])
    BY <1>8, <1>9 DEF IInv, FilesClean, Clean
  <2> QED
    BY <1>1, <1>4, <2>1, FilledWhole
<1>10. \A q \in Procs : Delivered(q)'
  <2>1. \A q \in Procs \ {p} : Delivered(q)'
    BY <1>2, <1>3 DEF IInv, Delivered, Stays
  <2>2. Delivered(p)'
    <3> SUFFICES ASSUME NEW j \in 1 .. at[p]
                 PROVE  LET m == FileAt(media[p], j)
                        IN  /\ m \in DOMAIN disk
                            /\ last[m] = p /\ m \notin dirty =>
                                 disk[m] = Content(UrlAt(media[p], j))
      BY <1>1, <1>2, <1>3 DEF Delivered
    <3>1. CASE j = at[p]
      BY <1>1, <1>4, <1>8, <1>9, <3>1
    <3>2. CASE j # at[p]
      <4>1. j \in 1 .. at[p] - 1
        BY <1>1, <3>2
      <4> QED
        BY <4>1 DEF IInv, Delivered
    <3> QED
      BY <3>1, <3>2
  <2> QED
    BY <2>1, <2>2
<1>11. FilesClean'
  <2> SUFFICES ASSUME NEW m \in DOMAIN disk \ dirty PROVE Clean(m)'
    BY <1>3 DEF FilesClean
  <2>1. PICK v \in Urls :
          /\ \A q \in Procs : Writes(q, m) => UrlAt(media[q], at[q]) = v
          /\ IF last[m] \in Procs /\ Writes(last[m], m)
             THEN FilledTo(disk[m], v, offset[last[m]])
             ELSE disk[m] = Content(v)
    BY DEF IInv, FilesClean, Clean
  <2>2. /\ ~ Writes(p, m)'
        /\ \A q \in Procs \ {p} : Writes(q, m)' <=> Writes(q, m)
    BY <1>2 DEF Writes, Stays
  <2>3. \A q \in Procs : Writes(q, m)' => UrlAt(media'[q], at'[q]) = v
    BY <1>2, <2>1, <2>2 DEF Stays
  <2>4. CASE last[m] = p /\ Writes(p, m)
    <3>1. m = n
      BY <1>1, <1>4, <2>4 DEF Writes
    <3>2. u = v
      BY <1>1, <1>4, <2>1, <2>4
    <3>3. disk'[m] = Content(v)
      BY <1>3, <1>9, <2>4, <3>1, <3>2
    <3>4. ~ (last'[m] \in Procs /\ Writes(last[m], m)')
      BY <1>3, <2>2, <2>4 DEF Writes
    <3> QED
      BY <1>3, <2>3, <3>3, <3>4 DEF Clean
  <2>5. CASE ~ (last[m] = p /\ Writes(p, m))
    <3>1. IF last'[m] \in Procs /\ Writes(last[m], m)'
          THEN FilledTo(disk'[m], v, offset'[last'[m]])
          ELSE disk'[m] = Content(v)
      BY <1>3, <2>1, <2>2, <2>5
    <3> QED
      BY <1>3, <2>3, <3>1 DEF Clean
  <2> QED
    BY <2>4, <2>5
<1> QED
  BY <1>5, <1>6, <1>7, <1>10, <1>11 DEF IInv

(* A step that changes nothing.                                            *)
LEMMA UnchangedStep == IInv /\ UNCHANGED vars => IInv'
<1> SUFFICES ASSUME IInv, UNCHANGED vars PROVE IInv'
  OBVIOUS
<1> USE DEF vars, shared, history
<1>1. TypeInv'
  BY DEF IInv, TypeInv
<1>2. \A p \in Procs : Progress(p)'
  BY DEF IInv, Progress, DownloadedView
<1>3. \A p \in Procs : Delivered(p)'
  BY DEF IInv, Delivered
<1>4. FilesClean'
  BY DEF IInv, FilesClean, Clean, Writes
<1> QED
  BY <1>1, <1>2, <1>3, <1>4 DEF IInv

(* IInv is kept by every step of every process.                            *)
LEMMA NextHolds == IInv /\ [Next]_vars => IInv'
<1> SUFFICES ASSUME IInv, [Next]_vars PROVE IInv'
  OBVIOUS
<1>0. Failed.kind # "downloaded"
  BY DEF Failed, Nothing
<1>1. ASSUME NEW p \in Procs, QueryFails(p) PROVE IInv'
  BY <1>1, <1>0, EndStep DEF QueryFails, Fail
<1>2. ASSUME NEW p \in Procs, ShowMedia(p) PROVE IInv'
  BY <1>2, EndStep DEF ShowMedia
<1>3. ASSUME NEW p \in Procs, NothingToDownload(p) PROVE IInv'
  BY <1>3, <1>0, EndStep DEF NothingToDownload, Fail
<1>4. ASSUME NEW p \in Procs, StartDownload(p) PROVE IInv'
  BY <1>4, MoveStep DEF StartDownload
<1>5. ASSUME NEW p \in Procs, Open(p) PROVE IInv'
  <2>1. at[p] <= Size(media[p])
    BY <1>5, QueueFacts DEF Open, IInv, TypeInv
  <2> QED
    BY <1>5, <2>1, MoveStep DEF Open
<1>6. ASSUME NEW p \in Procs, Refused(p) PROVE IInv'
  BY <1>6, <1>0, EndStep DEF Refused, Fail
<1>7. ASSUME NEW p \in Procs, CopyFails(p) PROVE IInv'
  BY <1>7, LeaveStep DEF CopyFails, Fail
<1>8. ASSUME NEW p \in Procs, Kill(p) PROVE IInv'
  <2>1. CASE pc[p] = "copy"
    BY <1>8, <2>1, LeaveStep DEF Kill
  <2>2. CASE pc[p] # "copy"
    BY <1>8, <2>2, KillStep
  <2> QED
    BY <2>1, <2>2
<1>9. CASE UNCHANGED vars
  BY <1>9, UnchangedStep
<1>10. CASE Next
  BY <1>1, <1>2, <1>3, <1>4, <1>5, <1>6, <1>7, <1>8, <1>10, ReadStep,
     AnsweredStep, UnansweredStep, CreateStep, CopyStep, FinishStep,
     ShowDownloadedStep, RerunStep DEF Next
<1> QED
  BY <1>9, <1>10

-----------------------------------------------------------------------------
(* In every state the processes, their files and their reports agree as    *)
(* IInv says, whatever the number of processes, media and pieces.          *)
THEOREM ProcessesAndFilesAgree == Spec => []IInv
BY InitHolds, NextHolds, PTL DEF Spec

(* FilesEndWhole: two downloads of the same media into the same file may   *)
(* truncate it and write into it in any order, holes included; when both   *)
(* are through, it is whole.                                               *)
THEOREM FilesAreWhole == Spec => []FilesEndWhole
<1>1. IInv => FilesEndWhole
  <2> SUFFICES ASSUME IInv, NEW n \in DOMAIN disk \ dirty, Writers(n) = {}
               PROVE  \E u \in Urls : disk[n] = Content(u)
    BY DEF FilesEndWhole
  <2>1. \A q \in Procs : ~ Writes(q, n)
    BY WritersFacts
  <2> QED
    BY <2>1 DEF IInv, FilesClean, Clean
<1> QED
  BY <1>1, ProcessesAndFilesAgree, PTL

(* ReportIsComplete: the reported paths stand in the order of the media,   *)
(* one for each, under different names, and each file is there and whole.  *)
THEOREM ReportsAreComplete == Spec => []ReportIsComplete
<1>1. IInv => ReportIsComplete
  <2> SUFFICES ASSUME IInv, NEW p \in Procs, report[p].kind = "downloaded"
               PROVE  \A kind \in Lists :
                        /\ DOMAIN report[p][kind] = DOMAIN media[p][kind]
                        /\ \A i \in DOMAIN media[p][kind] :
                             LET n == report[p][kind][i]
                             IN  /\ n \in DOMAIN disk
                                 /\ last[n] = p /\ n \notin dirty =>
                                      disk[n] = Content(media[p][kind][i].url)
    BY DEF ReportIsComplete
  <2> DEFINE m == media[p]
             a == Len(m.images)
             b == Len(m.videos)
  <2>1. /\ m \in Media /\ at[p] = Size(m) + 1 /\ report[p] = DownloadedView(p)
        /\ paths[p] = PathsTo(m, at[p] - 1) /\ Delivered(p)
    BY DEF IInv, TypeInv, Progress
  <2>2. /\ a \in Nat /\ b \in Nat /\ Size(m) = a + b
        /\ DOMAIN m.images = 1 .. a /\ DOMAIN m.videos = 1 .. b
    BY <2>1, MediaFacts DEF Size
  <2>3. at[p] - 1 = a + b
    BY <2>1, <2>2
  <2>4. \A j \in 1 .. a + b :
          LET n == FileAt(m, j)
          IN  /\ n \in DOMAIN disk
              /\ last[n] = p /\ n \notin dirty => disk[n] = Content(UrlAt(m, j))
    BY <2>1, <2>3 DEF Delivered
  <2>5. /\ paths[p].images = [i \in 1 .. a |-> FileAt(m, i)]
        /\ paths[p].videos = [i \in 1 .. b |-> FileAt(m, a + i)]
    <3> DEFINE F(x, y) == [images |-> [i \in 1 .. x |-> FileAt(m, i)],
                           videos |-> [i \in 1 .. y |-> FileAt(m, a + i)]]
    <3>1. \A l, x, y : /\ x = (IF l <= a THEN l ELSE a)
                       /\ y = (IF l <= a THEN 0 ELSE l - a)
                       => PathsTo(m, l) = F(x, y)
      BY DEF PathsTo
    <3> HIDE DEF m, a, b
    <3> DEFINE c == a + b
    <3>2. /\ a = (IF c <= a THEN c ELSE a)
          /\ b = (IF c <= a THEN 0 ELSE c - a)
      BY <2>2
    <3>3. paths[p] = PathsTo(m, c)
      BY <2>1, <2>3
    <3> HIDE DEF c, F
    <3>4. paths[p] = F(a, b)
      BY <3>1, <3>2, <3>3
    <3> QED
      BY <3>4 DEF F
  <2>6. /\ DOMAIN report[p].images = 1 .. a
        /\ \A i \in 1 .. a : report[p].images[i] = FileAt(m, i)
    <3>1. report[p].images =
            [i \in DOMAIN m.images |->
               IF i \in DOMAIN paths[p].images THEN paths[p].images[i]
               ELSE m.images[i].view]
      BY <2>1 DEF DownloadedView
    <3> HIDE DEF m, a, b
    <3> QED
      BY <2>2, <2>5, <3>1
  <2>7. /\ DOMAIN report[p].videos = 1 .. b
        /\ \A i \in 1 .. b : report[p].videos[i] = FileAt(m, a + i)
    <3>1. report[p].videos =
            [i \in DOMAIN m.videos |->
               IF i \in DOMAIN paths[p].videos THEN paths[p].videos[i]
               ELSE m.videos[i].view]
      BY <2>1 DEF DownloadedView
    <3> HIDE DEF m, a, b
    <3> QED
      BY <2>2, <2>5, <3>1
  <2>8. \A i \in 1 .. a : i \in 1 .. a + b /\ UrlAt(m, i) = m.images[i].url
    <3>1. \A i \in 1 .. a : i \in 1 .. a + b /\ i <= a
      <4> HIDE DEF m, a, b
      <4> QED
        BY <2>2
    <3> QED
      BY <3>1 DEF UrlAt, KindAt, IndexAt
  <2>9. \A i \in 1 .. b : a + i \in 1 .. a + b /\ UrlAt(m, a + i) = m.videos[i].url
    <3>1. \A i \in 1 .. b : a + i \in 1 .. a + b /\ ~ (a + i <= a) /\ (a + i) - a = i
      <4> HIDE DEF m, a, b
      <4> QED
        BY <2>2
    <3> QED
      BY <3>1 DEF UrlAt, KindAt, IndexAt
  <2>10. \A i \in 1 .. a :
           LET n == report[p].images[i]
           IN  /\ n \in DOMAIN disk
               /\ last[n] = p /\ n \notin dirty => disk[n] = Content(m.images[i].url)
    BY <2>4, <2>6, <2>8
  <2>11. \A i \in 1 .. b :
           LET n == report[p].videos[i]
           IN  /\ n \in DOMAIN disk
               /\ last[n] = p /\ n \notin dirty => disk[n] = Content(m.videos[i].url)
    BY <2>4, <2>7, <2>9
  <2> HIDE DEF m, a, b
  <2> QED
    BY <2>2, <2>6, <2>7, <2>10, <2>11 DEF Lists, m
<1> QED
  BY <1>1, ProcessesAndFilesAgree, PTL

(* ShownIsDownloaded: no sequence of answers mixes an entry's URLs.        *)
THEOREM ShownIsWhatIsDownloaded == Spec => []ShownIsDownloaded
<1>1. IInv => ShownIsDownloaded
  <2> SUFFICES ASSUME IInv, NEW e \in Stored PROVE e.view = e.url
    BY DEF ShownIsDownloaded
  <2>1. PICK m \in {row} \cup {media[p] : p \in Procs} :
          e \in {m.images[i] : i \in DOMAIN m.images}
                 \cup {m.videos[i] : i \in DOMAIN m.videos}
    BY DEF Stored
  <2>2. m \in Media
    BY <2>1 DEF IInv, TypeInv
  <2>3. e \in Shown
    BY <2>1, <2>2, MediaFacts
  <2> QED
    BY <2>3, ShownFacts
<1> QED
  BY <1>1, ProcessesAndFilesAgree, PTL
=============================================================================
