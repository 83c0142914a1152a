--------------------------- MODULE GroundingProofs --------------------------
(***************************************************************************)
(* Proofs about RetrievalTurn for every set of chunks, every answer, every *)
(* number of probes, batches and retries: passages do not overlap, a score *)
(* stays with its passage, what is served is grounded, and what is used is *)
(* read again.                                                             *)
(***************************************************************************)
EXTENDS RetrievalTurn, FiniteSetTheorems, SequenceTheorems, WellFoundedInduction, TLAPS

\* A share of zero would let an answer through that cites nothing.
SupportIsAsked == MinGroundedness[1] > 0

(* The inductive invariant *)

Token == [kind : {"claim", "short", "break", "marker"}, n : Nat]

IsList(s) == \E T : s \in Seq(T)
NoRepeat(s) == \A i, j \in DOMAIN s : i # j => s[i] # s[j]

Apart(s) == \A i, j \in DOMAIN s : ~Overlapping(s[i], s[j])

Hit == [state : {"pending", "failed", "empty", "done"}, list : Seq(Chunks)]

(* Counting and recursion                                                  *)

LEMMA NatMin ==
  ASSUME NEW S, S \subseteq Nat, S # {}
  PROVE  \E n \in S : \A m \in S : n <= m
<1> DEFINE R == OpToRel(<, Nat)
<1>1. IsWellFoundedOn(R, Nat)
  BY NatLessThanWellFounded
<1> HIDE DEF R
<1>2. PICK n \in S : \A y \in S : ~(<<y, n>> \in R)
  BY <1>1, WFMin
<1>3. \A x, y \in Nat : x < y => <<x, y>> \in R
  BY DEF R, OpToRel
<1>4. ASSUME NEW m \in S PROVE n <= m
  <2>1. ~(m < n)
    BY <1>2, <1>3
  <2> QED
    BY <2>1
<1> QED
  BY <1>4

LEMMA NatInd ==
  ASSUME NEW S, 0 \in S, \A n \in Nat : n \in S => n + 1 \in S
  PROVE  Nat \subseteq S
<1>1. SUFFICES ASSUME Nat \ S # {} PROVE FALSE
  OBVIOUS
<1>2. PICK n \in Nat \ S : \A m \in Nat \ S : n <= m
  BY <1>1, NatMin
<1>3. n - 1 \in Nat /\ n - 1 \notin Nat \ S
  BY <1>2
<1> QED
  BY <1>2, <1>3

\* The values a, F[1][a], F[2][F[1][a]], ... at 0, 1, 2, ...
Unrolled(m, a, F) ==
    CHOOSE g : /\ g = [n \in 0..m |-> g[n]]
               /\ g[0] = a /\ \A n \in 1..m : g[n] = F[n][g[n - 1]]

\* A list computed position by position exists.
LEMMA Recursion ==
  ASSUME NEW m \in Nat, NEW a, NEW F
  PROVE  /\ Unrolled(m, a, F) = [n \in 0..m |-> Unrolled(m, a, F)[n]]
         /\ Unrolled(m, a, F)[0] = a
         /\ \A n \in 1..m : Unrolled(m, a, F)[n] = F[n][Unrolled(m, a, F)[n - 1]]
<1> DEFINE Upto(k, g) == g = [n \in 0..k |-> IF n = 0 THEN a ELSE F[n][g[n - 1]]]
           S == {k \in Nat : \E g : Upto(k, g)}
<1>1. 0 \in S
  <2>1. Upto(0, [n \in 0..0 |-> a])
    OBVIOUS
  <2>2. \E g : Upto(0, g)
    BY <2>1
  <2> QED
    BY <2>2
<1>2. ASSUME NEW k \in Nat, k \in S PROVE k + 1 \in S
  <2>1. PICK g : Upto(k, g)
    BY <1>2
  <2> DEFINE h == [n \in 0..(k + 1) |-> IF n <= k THEN g[n] ELSE F[k + 1][g[k]]]
  <2>2. Upto(k + 1, h)
    <3>1. DOMAIN h = 0..(k + 1) /\ h = [n \in 0..(k + 1) |-> h[n]]
      OBVIOUS
    <3>2. \A n \in 0..k : h[n] = g[n]
      OBVIOUS
    <3>3. h[k + 1] = F[k + 1][g[k]]
      OBVIOUS
    <3> HIDE DEF h
    <3>4. \A n \in 0..k : g[n] = IF n = 0 THEN a ELSE F[n][g[n - 1]]
      BY <2>1
    <3>5. ASSUME NEW n \in 0..(k + 1)
          PROVE  h[n] = IF n = 0 THEN a ELSE F[n][h[n - 1]]
      <4>1. CASE n = 0
        BY <3>2, <3>4, <4>1
      <4>2. CASE n \in 1..k
        <5>1. n \in 0..k /\ n - 1 \in 0..k /\ n # 0
          BY <4>2
        <5> QED
          BY <3>2, <3>4, <5>1
      <4>3. CASE n = k + 1
        <5>1. k \in 0..k /\ n # 0 /\ n - 1 = k
          BY <4>3
        <5> QED
          BY <3>2, <3>3, <4>3, <5>1
      <4> QED
        BY <4>1, <4>2, <4>3
    <3> QED
      BY <3>1, <3>5
  <2> HIDE DEF h
  <2>3. \E f : Upto(k + 1, f)
    BY <2>2
  <2> QED
    BY <2>3
<1> HIDE DEF S
<1>3. m \in S
  BY <1>1, <1>2, NatInd
<1>4. PICK g : Upto(m, g)
  BY <1>3 DEF S
<1>5. g = [n \in 0..m |-> g[n]] /\ g[0] = a /\ \A n \in 1..m : g[n] = F[n][g[n - 1]]
  BY <1>4
<1> QED
  BY <1>5 DEF Unrolled

\* What its first value has and every step hands on, each of its values has.
LEMMA HandedOn ==
  ASSUME NEW m \in Nat, NEW g, NEW V, g[0] \in V[0],
         \A n \in 1..m : g[n - 1] \in V[n - 1] => g[n] \in V[n]
  PROVE  \A n \in 0..m : g[n] \in V[n]
<1> DEFINE S == {n \in Nat : n <= m => g[n] \in V[n]}
<1>1. 0 \in S
  OBVIOUS
<1>2. ASSUME NEW n \in Nat, n \in S PROVE n + 1 \in S
  <2>1. CASE n + 1 <= m
    <3>1. n + 1 \in 1..m /\ (n + 1) - 1 = n /\ n <= m
      BY <2>1
    <3> QED
      BY <1>2, <3>1
  <2> QED
    BY <2>1
<1> HIDE DEF S
<1>3. Nat \subseteq S
  BY <1>1, <1>2, NatInd
<1> QED
  BY <1>3 DEF S

-----------------------------------------------------------------------------
(* Lists                                                                   *)

\* The items kept are wanted ones of the list, in places of their own.
LEMMA KeepingOK ==
  ASSUME NEW T, NEW list \in Seq(T), NEW W
  PROVE  /\ Keeping(list, W) \in Seq(T) /\ Len(Keeping(list, W)) <= Len(list)
         /\ \A i \in 1..Len(Keeping(list, W)) :
               /\ Keeping(list, W)[i] \in W
               /\ \E j \in 1..Len(list) : list[j] = Keeping(list, W)[i]
         /\ NoRepeat(list) => NoRepeat(Keeping(list, W))
<1> DEFINE L == Len(list)
           start == <<>>
           Step(n, s) == IF list[n] \in W THEN Append(s, list[n]) ELSE s
           Upto(g) == g = [n \in 0..L |-> IF n = 0 THEN start ELSE Step(n, g[n - 1])]
           F == [n \in 1..L |-> [s \in Seq(T) |-> Step(n, s)]]
           Good(n, s) == /\ Len(s) <= n
                         /\ \A i \in 1..Len(s) : s[i] \in W /\ \E j \in 1..n : list[j] = s[i]
                         /\ NoRepeat(list) => \A i, j \in 1..Len(s) : i # j => s[i] # s[j]
           V == [n \in 0..L |-> {s \in Seq(T) : Good(n, s)}]
<1>0. L \in Nat /\ \A n \in 1..L : list[n] \in T
  BY LenProperties, ElementOfSeq
<1>1. DOMAIN list = 1..L
  BY LenProperties
<1>2. start \in V[0]
  <2>1. <<>> \in Seq(T) /\ Len(<<>>) = 0
    BY EmptySeq
  <2>2. Good(0, <<>>)
    BY <2>1
  <2>3. 0 \in 0..L
    BY <1>0
  <2> QED
    BY <2>1, <2>2, <2>3
<1>3. ASSUME NEW n \in 1..L, NEW s \in V[n - 1]
      PROVE  Step(n, s) \in V[n]
  <2>0. n - 1 \in 0..L /\ n \in 0..L /\ list[n] \in T /\ L \in Nat /\ n \in Nat
    BY <1>0
  <2>1. s \in Seq(T) /\ Good(n - 1, s)
    BY <2>0
  <2>2. Len(s) \in Nat
    BY <2>1, LenProperties
  <2>3. CASE list[n] \in W
    <3> DEFINE t == Append(s, list[n])
    <3>1. /\ t \in Seq(T) /\ Len(t) = Len(s) + 1
          /\ \A i \in 1..Len(s) : t[i] = s[i]
          /\ t[Len(s) + 1] = list[n]
      BY <2>0, <2>1, AppendProperties
    <3> HIDE DEF t
    <3>2. Len(t) <= n
      BY <2>0, <2>1, <2>2, <3>1
    <3>3. \A i \in 1..Len(t) : i \in 1..Len(s) \/ i = Len(s) + 1
      BY <2>2, <3>1
    <3>4. \A i \in 1..Len(t) : t[i] \in W /\ \E j \in 1..n : list[j] = t[i]
      <4>1. ASSUME NEW i \in 1..Len(s) PROVE t[i] \in W /\ \E j \in 1..n : list[j] = t[i]
        <5>1. s[i] \in W /\ \E j \in 1..(n - 1) : list[j] = s[i]
          BY <2>1
        <5>2. t[i] = s[i]
          BY <3>1
        <5> QED
          BY <2>0, <5>1, <5>2
      <4>2. t[Len(s) + 1] \in W /\ \E j \in 1..n : list[j] = t[Len(s) + 1]
        BY <2>0, <2>3, <3>1
      <4> QED
        BY <3>3, <4>1, <4>2
    <3>5. ASSUME NoRepeat(list), NEW i \in 1..Len(t), NEW j \in 1..Len(t), i # j
          PROVE  t[i] # t[j]
      <4>1. \A k \in 1..Len(s) : t[k] # list[n]
        <5>1. SUFFICES ASSUME NEW k \in 1..Len(s) PROVE s[k] # list[n]
          BY <3>1
        <5>2. PICK q \in 1..(n - 1) : list[q] = s[k]
          BY <2>1
        <5>3. q # n /\ q \in 1..L /\ n \in 1..L
          BY <2>0
        <5> QED
          BY <3>5, <5>2, <5>3, <1>1 DEF NoRepeat
      <4>2. CASE i \in 1..Len(s) /\ j \in 1..Len(s)
        BY <2>1, <3>1, <3>5, <4>2
      <4>3. CASE i = Len(s) + 1
        <5>1. j \in 1..Len(s)
          BY <3>3, <3>5, <4>3
        <5> QED
          BY <3>1, <4>1, <4>3, <5>1
      <4>4. CASE j = Len(s) + 1
        <5>1. i \in 1..Len(s)
          BY <3>3, <3>5, <4>4
        <5> QED
          BY <3>1, <4>1, <4>4, <5>1
      <4> QED
        BY <3>3, <4>2, <4>3, <4>4
    <3>6. Good(n, t)
      BY <3>2, <3>4, <3>5
    <3> QED
      BY <2>0, <2>3, <3>1, <3>6 DEF t
  <2>4. CASE list[n] \notin W
    <3>1. Good(n, s)
      BY <2>0, <2>1, <2>2
    <3> QED
      BY <2>0, <2>1, <2>4, <3>1
  <2> QED
    BY <2>3, <2>4
<1>4. \A n \in 0..L : V[n] \subseteq Seq(T)
  OBVIOUS
<1>5. Keeping(list, W) = (CHOOSE g : Upto(g))[L]
  BY DEF Keeping
<1> HIDE DEF V, L, Step, F, start
<1>6. \E g : Upto(g)
  <2> DEFINE g == Unrolled(L, start, F)
  <2>1. /\ g = [n \in 0..L |-> g[n]]
        /\ g[0] = start /\ \A n \in 1..L : g[n] = F[n][g[n - 1]]
    BY <1>0, Recursion
  <2> HIDE DEF g
  <2>2. \A n \in 1..L : n - 1 \in 0..L /\ n \in 0..L /\ n # 0
    BY <1>0
  <2>3. \A n \in 1..L : g[n - 1] \in V[n - 1] => g[n] \in V[n]
    BY <1>3, <1>4, <2>1, <2>2 DEF F
  <2>4. \A n \in 0..L : g[n] \in V[n]
    BY <1>0, <1>2, <2>1, <2>3, HandedOn
  <2>5. \A n \in 1..L : F[n][g[n - 1]] = Step(n, g[n - 1])
    BY <1>4, <2>2, <2>4 DEF F
  <2>6. \A n \in 0..L : n = 0 \/ n \in 1..L
    BY <1>0
  <2>7. \A n \in 0..L : g[n] = IF n = 0 THEN start ELSE Step(n, g[n - 1])
    BY <2>1, <2>5, <2>6
  <2>8. Upto(g)
    BY <2>1, <2>7
  <2> QED
    BY <2>8
<1>7. PICK g : Upto(g) /\ Keeping(list, W) = g[L]
  BY <1>6, <1>5
<1>8. \A n \in 0..L : g[n] \in V[n]
  <2>1. g[0] = start
    BY <1>0, <1>7
  <2>2. ASSUME NEW n \in 1..L PROVE g[n] = Step(n, g[n - 1])
    BY <1>0, <1>7
  <2>3. \A n \in 1..L : g[n - 1] \in V[n - 1] => g[n] \in V[n]
    BY <1>3, <2>2
  <2> QED
    BY <1>0, <1>2, <2>1, <2>3, HandedOn
<1>9. Keeping(list, W) \in V[L]
  BY <1>0, <1>7, <1>8
<1>10. Keeping(list, W) \in Seq(T) /\ Good(L, Keeping(list, W))
  BY <1>0, <1>9 DEF V
<1>11. DOMAIN Keeping(list, W) = 1..Len(Keeping(list, W))
  BY <1>10, LenProperties
<1> QED
  BY <1>10, <1>11 DEF NoRepeat, L

LEMMA ShareIsNat ==
  ASSUME NEW x \in Nat, NEW y \in Nat \ {0}
  PROVE  x \div y \in Nat
OBVIOUS

\* Where a list holds a chunk, RankIn says so.
LEMMA RankInOK ==
  ASSUME NEW list, Len(list) \in Nat, NEW c
  PROVE  /\ RankIn(list, c) \in Nat
         /\ \A j \in 1..Len(list) : list[j] = c =>
               RankIn(list, c) \in 1..Len(list) /\ list[RankIn(list, c)] = c
<1> DEFINE I == {i \in 1..Len(list) : list[i] = c}
<1>1. RankIn(list, c) = IF I # {} THEN Min(I) ELSE 0
  BY DEF RankIn, SelectInSeq
<1>2. ASSUME I # {} PROVE Min(I) \in I
  <2>1. I \subseteq Nat
    OBVIOUS
  <2>2. \E x \in I : \A y \in I : x <= y
    BY <1>2, <2>1, NatMin
  <2> HIDE DEF I
  <2> QED
    BY <2>2 DEF Min
<1>3. CASE I = {}
  <2>1. RankIn(list, c) = 0 /\ \A j \in 1..Len(list) : list[j] # c
    BY <1>1, <1>3
  <2> QED
    BY <2>1
<1>4. CASE I # {}
  <2>1. RankIn(list, c) \in I
    BY <1>1, <1>2, <1>4
  <2>2. RankIn(list, c) \in 1..Len(list) /\ list[RankIn(list, c)] = c
    BY <2>1
  <2> QED
    BY <2>2
<1> QED
  BY <1>3, <1>4

\* A search asks at least the question, and no more than it and the allowed number of others.
LEMMA BuildProbesOK ==
  ASSUME NEW query, NEW asks, IsList(asks)
  PROVE  /\ IsList(BuildProbes(query, asks))
         /\ Len(BuildProbes(query, asks)) \in 1..(MaxSubQueries + 1)
<1> DEFINE L == Len(asks)
           start == <<query>>
           Search(item) == item # NotText /\ Cut[item] # Blank
           Full(s) == Len(s) > MaxSubQueries
           Step(n, s) == IF ~Search(asks[n]) \/ Full(s) \/ Cut[asks[n]] \in ToSet(s)
                         THEN s ELSE Append(s, Cut[asks[n]])
           Good == {s \in Seq({query} \cup {Cut[asks[n]] : n \in 1..L}) : Len(s) \in 1..(MaxSubQueries + 1)}
           Upto(g) == g = [n \in 0..L |-> IF n = 0 THEN start ELSE Step(n, g[n - 1])]
           F == [n \in 1..L |-> [s \in Good |-> Step(n, s)]]
           V == [n \in 0..L |-> Good]
<1>0. L \in Nat /\ MaxSubQueries \in Nat
  BY LenProperties, RoutingAssumption DEF IsList
<1>2. start \in V[0]
  <2>1. start \in Seq({query} \cup {Cut[asks[n]] : n \in 1..L}) /\ Len(start) = 1
    OBVIOUS
  <2> QED
    BY <1>0, <2>1
<1>3. ASSUME NEW n \in 1..L, NEW s \in V[n - 1]
      PROVE  Step(n, s) \in V[n]
  <2> DEFINE T == {query} \cup {Cut[asks[k]] : k \in 1..L}
  <2>1. n - 1 \in 0..L /\ n \in 0..L /\ Cut[asks[n]] \in T
    BY <1>0
  <2>2. s \in Seq(T) /\ Len(s) \in 1..(MaxSubQueries + 1)
    BY <2>1
  <2>3. CASE Full(s)
    BY <2>1, <2>2, <2>3
  <2>4. CASE ~Full(s)
    <3>1. Append(s, Cut[asks[n]]) \in Seq(T) /\ Len(Append(s, Cut[asks[n]])) = Len(s) + 1
      BY <2>1, <2>2, AppendProperties
    <3>2. Len(s) + 1 \in 1..(MaxSubQueries + 1)
      BY <1>0, <2>2, <2>4
    <3>3. Append(s, Cut[asks[n]]) \in Good /\ s \in Good
      BY <2>2, <3>1, <3>2
    <3> HIDE DEF Good
    <3> QED
      BY <2>1, <3>3
  <2> QED
    BY <2>3, <2>4
<1>4. \A n \in 0..L : V[n] \subseteq Good
  OBVIOUS
<1>5. BuildProbes(query, asks) = (CHOOSE g : Upto(g))[L]
  BY DEF BuildProbes
<1> HIDE DEF V, L, Step, F, start, Good
<1>6. \E g : Upto(g)
  <2> DEFINE g == Unrolled(L, start, F)
  <2>1. /\ g = [n \in 0..L |-> g[n]]
        /\ g[0] = start /\ \A n \in 1..L : g[n] = F[n][g[n - 1]]
    BY <1>0, Recursion
  <2> HIDE DEF g
  <2>2. \A n \in 1..L : n - 1 \in 0..L /\ n \in 0..L /\ n # 0
    BY <1>0
  <2>3. \A n \in 1..L : g[n - 1] \in V[n - 1] => g[n] \in V[n]
    BY <1>3, <1>4, <2>1, <2>2 DEF F
  <2>4. \A n \in 0..L : g[n] \in V[n]
    BY <1>0, <1>2, <2>1, <2>3, HandedOn
  <2>5. \A n \in 1..L : F[n][g[n - 1]] = Step(n, g[n - 1])
    BY <1>4, <2>2, <2>4 DEF F
  <2>6. \A n \in 0..L : n = 0 \/ n \in 1..L
    BY <1>0
  <2>7. \A n \in 0..L : g[n] = IF n = 0 THEN start ELSE Step(n, g[n - 1])
    BY <2>1, <2>5, <2>6
  <2>8. Upto(g)
    BY <2>1, <2>7
  <2> QED
    BY <2>8
<1>7. PICK g : Upto(g) /\ BuildProbes(query, asks) = g[L]
  BY <1>5, <1>6
<1>8. \A n \in 0..L : g[n] \in V[n]
  <2>1. g[0] = start
    BY <1>0, <1>7
  <2>2. ASSUME NEW n \in 1..L PROVE g[n] = Step(n, g[n - 1])
    BY <1>0, <1>7
  <2>3. \A n \in 1..L : g[n - 1] \in V[n - 1] => g[n] \in V[n]
    BY <1>3, <2>2
  <2> QED
    BY <1>0, <1>2, <2>1, <2>3, HandedOn
<1>9. BuildProbes(query, asks) \in V[L]
  BY <1>0, <1>7, <1>8
<1>10. BuildProbes(query, asks) \in Good
  BY <1>0, <1>4, <1>9
<1> QED
  BY <1>10 DEF Good, IsList

\* The router's probes are a list.
LEMMA CleanProbesOK ==
  ASSUME NEW raw, Len(raw) \in Nat
  PROVE  IsList(CleanProbes(raw))
<1> DEFINE L == Len(raw)
           start == <<>>
           Full(s) == Len(s) >= MaxSubQueries
           Known(s, item) == Key[Cut[Cleaned[item]]] \in {Key[Query]} \cup {Key[p] : p \in ToSet(s)}
           Step(n, s) == IF ~Usable(raw[n]) \/ Full(s) \/ Known(s, raw[n])
                         THEN s ELSE Append(s, Cut[Cleaned[raw[n]]])
           Good == Seq({Cut[Cleaned[raw[n]]] : n \in 1..L})
           Upto(g) == g = [n \in 0..L |-> IF n = 0 THEN start ELSE Step(n, g[n - 1])]
           F == [n \in 1..L |-> [s \in Good |-> Step(n, s)]]
           V == [n \in 0..L |-> Good]
<1>0. L \in Nat
  OBVIOUS
<1>2. start \in V[0]
  BY <1>0, EmptySeq
<1>3. ASSUME NEW n \in 1..L, NEW s \in V[n - 1]
      PROVE  Step(n, s) \in V[n]
  <2> DEFINE T == {Cut[Cleaned[raw[k]]] : k \in 1..L}
  <2>1. n - 1 \in 0..L /\ n \in 0..L /\ Cut[Cleaned[raw[n]]] \in T
    BY <1>0
  <2>2. s \in Seq(T)
    BY <2>1
  <2>3. Append(s, Cut[Cleaned[raw[n]]]) \in Good /\ s \in Good
    BY <2>1, <2>2, AppendProperties
  <2> HIDE DEF Good
  <2> QED
    BY <2>1, <2>3
<1>4. \A n \in 0..L : V[n] \subseteq Good
  OBVIOUS
<1>5. CleanProbes(raw) = (CHOOSE g : Upto(g))[L]
  BY DEF CleanProbes
<1> HIDE DEF V, L, Step, F, start, Good
<1>6. \E g : Upto(g)
  <2> DEFINE g == Unrolled(L, start, F)
  <2>1. /\ g = [n \in 0..L |-> g[n]]
        /\ g[0] = start /\ \A n \in 1..L : g[n] = F[n][g[n - 1]]
    BY <1>0, Recursion
  <2> HIDE DEF g
  <2>2. \A n \in 1..L : n - 1 \in 0..L /\ n \in 0..L /\ n # 0
    BY <1>0
  <2>3. \A n \in 1..L : g[n - 1] \in V[n - 1] => g[n] \in V[n]
    BY <1>3, <1>4, <2>1, <2>2 DEF F
  <2>4. \A n \in 0..L : g[n] \in V[n]
    BY <1>0, <1>2, <2>1, <2>3, HandedOn
  <2>5. \A n \in 1..L : F[n][g[n - 1]] = Step(n, g[n - 1])
    BY <1>4, <2>2, <2>4 DEF F
  <2>6. \A n \in 0..L : n = 0 \/ n \in 1..L
    BY <1>0
  <2>7. \A n \in 0..L : g[n] = IF n = 0 THEN start ELSE Step(n, g[n - 1])
    BY <2>1, <2>5, <2>6
  <2>8. Upto(g)
    BY <2>1, <2>7
  <2> QED
    BY <2>8
<1>7. PICK g : Upto(g) /\ CleanProbes(raw) = g[L]
  BY <1>5, <1>6
<1>8. \A n \in 0..L : g[n] \in V[n]
  <2>1. g[0] = start
    BY <1>0, <1>7
  <2>2. ASSUME NEW n \in 1..L PROVE g[n] = Step(n, g[n - 1])
    BY <1>0, <1>7
  <2>3. \A n \in 1..L : g[n - 1] \in V[n - 1] => g[n] \in V[n]
    BY <1>3, <2>2
  <2> QED
    BY <1>0, <1>2, <2>1, <2>3, HandedOn
<1>9. CleanProbes(raw) \in V[L]
  BY <1>0, <1>7, <1>8
<1>10. CleanProbes(raw) \in Good
  BY <1>0, <1>4, <1>9
<1> QED
  BY <1>10 DEF Good, IsList

\* A fused score is a whole number of units.
LEMMA RrfScoreOK ==
  ASSUME NEW lists \in Seq(Seq(Chunks)), NEW c
  PROVE  RrfScore(lists, c) \in Nat
<1> DEFINE L == Len(lists)
           start == 0
           Step(n, s) == s + Contribution(lists[n], c)
           Good == Nat
           Upto(g) == g = [n \in 0..L |-> IF n = 0 THEN start ELSE Step(n, g[n - 1])]
           F == [n \in 1..L |-> [s \in Good |-> Step(n, s)]]
           V == [n \in 0..L |-> Good]
<1>0. L \in Nat
  BY LenProperties
<1>2. start \in V[0]
  BY <1>0
<1>3. ASSUME NEW n \in 1..L, NEW s \in V[n - 1]
      PROVE  Step(n, s) \in V[n]
  <2>1. n - 1 \in 0..L /\ n \in 0..L /\ s \in Nat
    BY <1>0
  <2>2. Len(lists[n]) \in Nat
    BY <1>0, ElementOfSeq, LenProperties
  <2>3. RankIn(lists[n], c) \in Nat
    BY <2>2, RankInOK
  <2>4. Unit \in Nat /\ RrfK \in Nat \ {0}
    BY FusionAssumption, TurnAssumption DEF RetrievalCoherent
  <2>5. RrfK + RankIn(lists[n], c) \in Nat \ {0}
    BY <2>3, <2>4
  <2>6. Unit \div (RrfK + RankIn(lists[n], c)) \in Nat
    BY <2>4, <2>5, ShareIsNat
  <2>7. Contribution(lists[n], c) \in Nat
    BY <2>6 DEF Contribution
  <2> QED
    BY <2>1, <2>7
<1>4. \A n \in 0..L : V[n] \subseteq Good
  OBVIOUS
<1>5. RrfScore(lists, c) = (CHOOSE g : Upto(g))[L]
  BY DEF RrfScore
<1> HIDE DEF V, L, Step, F, start, Good
<1>6. \E g : Upto(g)
  <2> DEFINE g == Unrolled(L, start, F)
  <2>1. /\ g = [n \in 0..L |-> g[n]]
        /\ g[0] = start /\ \A n \in 1..L : g[n] = F[n][g[n - 1]]
    BY <1>0, Recursion
  <2> HIDE DEF g
  <2>2. \A n \in 1..L : n - 1 \in 0..L /\ n \in 0..L /\ n # 0
    BY <1>0
  <2>3. \A n \in 1..L : g[n - 1] \in V[n - 1] => g[n] \in V[n]
    BY <1>3, <1>4, <2>1, <2>2 DEF F
  <2>4. \A n \in 0..L : g[n] \in V[n]
    BY <1>0, <1>2, <2>1, <2>3, HandedOn
  <2>5. \A n \in 1..L : F[n][g[n - 1]] = Step(n, g[n - 1])
    BY <1>4, <2>2, <2>4 DEF F
  <2>6. \A n \in 0..L : n = 0 \/ n \in 1..L
    BY <1>0
  <2>7. \A n \in 0..L : g[n] = IF n = 0 THEN start ELSE Step(n, g[n - 1])
    BY <2>1, <2>5, <2>6
  <2>8. Upto(g)
    BY <2>1, <2>7
  <2> QED
    BY <2>8
<1>7. PICK g : Upto(g) /\ RrfScore(lists, c) = g[L]
  BY <1>5, <1>6
<1>8. \A n \in 0..L : g[n] \in V[n]
  <2>1. g[0] = start
    BY <1>0, <1>7
  <2>2. ASSUME NEW n \in 1..L PROVE g[n] = Step(n, g[n - 1])
    BY <1>0, <1>7
  <2>3. \A n \in 1..L : g[n - 1] \in V[n - 1] => g[n] \in V[n]
    BY <1>3, <2>2
  <2> QED
    BY <1>0, <1>2, <2>1, <2>3, HandedOn
<1>9. RrfScore(lists, c) \in V[L]
  BY <1>0, <1>7, <1>8
<1> QED
  BY <1>0, <1>4, <1>9 DEF Good

\* The weaker half of an overlapping pair goes: what is left shares no text and was in the list.
LEMMA DropOK ==
  ASSUME NEW list \in Seq(Chunks), NoRepeat(list)
  PROVE  /\ DropOverlappingNeighbours(list) \in Seq(Chunks)
         /\ NoRepeat(DropOverlappingNeighbours(list))
         /\ Apart(DropOverlappingNeighbours(list))
<1> DEFINE L == Len(list)
           start == <<>>
           Step(n, s) == Joined[list[n]][s]
           Good == Seq(Chunks)
           Fits(n, s) == /\ \A i, j \in 1..Len(s) : ~Overlapping(s[i], s[j])
                         /\ \A i, j \in 1..Len(s) : i # j => s[i] # s[j]
                         /\ \A i \in 1..Len(s) : \E j \in 1..n : s[i] = list[j]
           Upto(g) == g = [n \in 0..L |-> IF n = 0 THEN start ELSE Step(n, g[n - 1])]
           F == [n \in 1..L |-> [s \in Good |-> Step(n, s)]]
           V == [n \in 0..L |-> {s \in Good : Fits(n, s)}]
<1>0. L \in Nat /\ DOMAIN list = 1..L /\ \A n \in 1..L : list[n] \in Chunks
  BY LenProperties, ElementOfSeq
<1>2. start \in V[0]
  <2>1. start \in Seq(Chunks) /\ Len(start) = 0
    BY EmptySeq
  <2>2. Fits(0, start)
    BY <2>1
  <2> QED
    BY <1>0, <2>1, <2>2
<1>3. ASSUME NEW n \in 1..L, NEW s \in V[n - 1]
      PROVE  Step(n, s) \in V[n]
  <2>1. n - 1 \in 0..L /\ n \in 0..L /\ list[n] \in Chunks /\ n \in Nat
    BY <1>0
  <2>2. s \in Seq(Chunks) /\ Fits(n - 1, s)
    BY <2>1
  <2>3. Len(s) \in Nat /\ \A i \in 1..Len(s) : s[i] \in Chunks
    BY <2>2, LenProperties, ElementOfSeq
  <2>4. ToSet(s) = {s[i] : i \in 1..Len(s)}
    BY <2>2, LenProperties DEF ToSet
  <2>5. Step(n, s) = IF \E k \in ToSet(s) : Overlapping(k, list[n]) THEN s ELSE Append(s, list[n])
    BY <2>1, <2>2 DEF Joined
  <2>6. CASE \E k \in ToSet(s) : Overlapping(k, list[n])
    <3>1. Fits(n, s)
      <4>1. \A j \in 1..(n - 1) : j \in 1..n
        BY <2>1
      <4> QED
        BY <2>2, <4>1
    <3>2. Step(n, s) = s
      BY <2>5, <2>6
    <3> QED
      BY <2>1, <2>2, <3>1, <3>2
  <2>7. CASE ~\E k \in ToSet(s) : Overlapping(k, list[n])
    <3> DEFINE t == Append(s, list[n])
    <3>1. /\ t \in Seq(Chunks) /\ Len(t) = Len(s) + 1
          /\ \A i \in 1..Len(s) : t[i] = s[i]
          /\ t[Len(s) + 1] = list[n]
      BY <2>1, <2>2, AppendProperties
    <3> HIDE DEF t
    <3>2. \A i \in 1..Len(t) : i \in 1..Len(s) \/ i = Len(s) + 1
      BY <2>3, <3>1
    <3>3. \A i \in 1..Len(s) : ~Overlapping(s[i], list[n])
      BY <2>4, <2>7
    <3>4. \A i \in 1..Len(s) : ~Overlapping(list[n], s[i])
      BY <3>3 DEF Overlapping
    <3>5. ~Overlapping(list[n], list[n])
      <4>1. Meta[list[n]].index \in Nat
        BY <2>1, FusionAssumption
      <4> QED
        BY <4>1 DEF Overlapping
    <3>6. \A i, j \in 1..Len(t) : ~Overlapping(t[i], t[j])
      BY <2>2, <3>1, <3>2, <3>3, <3>4, <3>5
    <3>7. \A i \in 1..Len(s) : s[i] # list[n]
      <4>1. SUFFICES ASSUME NEW i \in 1..Len(s) PROVE s[i] # list[n]
        OBVIOUS
      <4>2. PICK j \in 1..(n - 1) : s[i] = list[j]
        BY <2>2
      <4>3. j \in 1..L /\ j # n
        BY <2>1
      <4> QED
        BY <1>0, <4>2, <4>3 DEF NoRepeat
    <3>8. \A i, j \in 1..Len(t) : i # j => t[i] # t[j]
      BY <2>2, <3>1, <3>2, <3>7
    <3>9. \A i \in 1..Len(t) : \E j \in 1..n : t[i] = list[j]
      <4>1. \A j \in 1..(n - 1) : j \in 1..n
        BY <2>1
      <4>2. n \in 1..n
        BY <2>1
      <4> QED
        BY <2>2, <3>1, <3>2, <4>1, <4>2
    <3>10. Fits(n, t)
      BY <3>6, <3>8, <3>9
    <3>11. Step(n, s) = t
      BY <2>5, <2>7 DEF t
    <3> QED
      BY <2>1, <3>1, <3>10, <3>11
  <2> QED
    BY <2>6, <2>7
<1>4. \A n \in 0..L : V[n] \subseteq Good
  OBVIOUS
<1>5. DropOverlappingNeighbours(list) = (CHOOSE g : Upto(g))[L]
  BY DEF DropOverlappingNeighbours
<1> HIDE DEF V, L, Step, F, start, Good
<1>6. \E g : Upto(g)
  <2> DEFINE g == Unrolled(L, start, F)
  <2>1. /\ g = [n \in 0..L |-> g[n]]
        /\ g[0] = start /\ \A n \in 1..L : g[n] = F[n][g[n - 1]]
    BY <1>0, Recursion
  <2> HIDE DEF g
  <2>2. \A n \in 1..L : n - 1 \in 0..L /\ n \in 0..L /\ n # 0
    BY <1>0
  <2>3. \A n \in 1..L : g[n - 1] \in V[n - 1] => g[n] \in V[n]
    BY <1>3, <1>4, <2>1, <2>2 DEF F
  <2>4. \A n \in 0..L : g[n] \in V[n]
    BY <1>0, <1>2, <2>1, <2>3, HandedOn
  <2>5. \A n \in 1..L : F[n][g[n - 1]] = Step(n, g[n - 1])
    BY <1>4, <2>2, <2>4 DEF F
  <2>6. \A n \in 0..L : n = 0 \/ n \in 1..L
    BY <1>0
  <2>7. \A n \in 0..L : g[n] = IF n = 0 THEN start ELSE Step(n, g[n - 1])
    BY <2>1, <2>5, <2>6
  <2>8. Upto(g)
    BY <2>1, <2>7
  <2> QED
    BY <2>8
<1>7. PICK g : Upto(g) /\ DropOverlappingNeighbours(list) = g[L]
  BY <1>5, <1>6
<1>8. \A n \in 0..L : g[n] \in V[n]
  <2>1. g[0] = start
    BY <1>0, <1>7
  <2>2. ASSUME NEW n \in 1..L PROVE g[n] = Step(n, g[n - 1])
    BY <1>0, <1>7
  <2>3. \A n \in 1..L : g[n - 1] \in V[n - 1] => g[n] \in V[n]
    BY <1>3, <2>2
  <2> QED
    BY <1>0, <1>2, <2>1, <2>3, HandedOn
<1>9. DropOverlappingNeighbours(list) \in V[L]
  BY <1>0, <1>7, <1>8
<1>10. DropOverlappingNeighbours(list) \in Seq(Chunks) /\ Fits(L, DropOverlappingNeighbours(list))
  BY <1>0, <1>9 DEF V, Good
<1>11. DOMAIN DropOverlappingNeighbours(list) = 1..Len(DropOverlappingNeighbours(list))
  BY <1>10, LenProperties
<1> QED
  BY <1>10, <1>11 DEF NoRepeat, Apart

\* A cut list keeps what the whole one had.
LEMMA TopOK ==
  ASSUME NEW T, NEW list \in Seq(T), NEW n \in Nat
  PROVE  /\ Top(list, n) \in Seq(T) /\ Len(Top(list, n)) <= n /\ Len(Top(list, n)) <= Len(list)
         /\ \A i \in 1..Len(Top(list, n)) : Top(list, n)[i] = list[i]
         /\ NoRepeat(list) => NoRepeat(Top(list, n))
         /\ Apart(list) => Apart(Top(list, n))
<1> DEFINE m == IF Len(list) < n THEN Len(list) ELSE n
<1>1. m \in Nat /\ m <= n /\ m <= Len(list) /\ Len(list) \in Nat /\ DOMAIN list = 1..Len(list)
  BY LenProperties
<1>2. \A i \in 1..m : list[i] \in T /\ i \in 1..Len(list)
  BY <1>1, ElementOfSeq
<1>3. Top(list, n) = SubSeq(list, 1, m)
  BY DEF Top
<1> HIDE DEF m
<1>4. /\ Top(list, n) \in Seq(T) /\ Len(Top(list, n)) = IF 1 <= m THEN m - 1 + 1 ELSE 0
      /\ \A i \in 1..(m - 1 + 1) : Top(list, n)[i] = list[1 + i - 1]
  BY <1>1, <1>2, <1>3, SubSeqProperties
<1>5. Len(Top(list, n)) = m /\ \A i \in 1..m : Top(list, n)[i] = list[i]
  BY <1>1, <1>4
<1>6. DOMAIN Top(list, n) = 1..m
  BY <1>4, <1>5, LenProperties
<1> QED
  BY <1>1, <1>2, <1>4, <1>5, <1>6 DEF NoRepeat, Apart

-----------------------------------------------------------------------------
(* Orders                                                                  *)

Total(S, R) ==
    /\ \A x \in S : <<x, x>> \notin R
    /\ \A x, y \in S : x # y => <<x, y>> \in R \/ <<y, x>> \in R
    /\ \A x, y, z \in S : <<x, y>> \in R /\ <<y, z>> \in R => <<x, z>> \in R

Below(S, R, x) == {y \in S : <<y, x>> \in R}

\* In a strict order of a finite set, every place is somebody's.
LEMMA PlacesTaken ==
  ASSUME NEW S, IsFiniteSet(S), NEW R, Total(S, R)
  PROVE  /\ Cardinality(S) \in Nat
         /\ \A n \in 1..Cardinality(S) : \E x \in S : Cardinality(Below(S, R, x)) + 1 = n
<1> DEFINE Place == [x \in S |-> Cardinality(Below(S, R, x)) + 1]
           N == Cardinality(S)
<1>1. N \in Nat
  BY FS_CardinalityType
<1>2. ASSUME NEW x \in S
      PROVE  /\ IsFiniteSet(Below(S, R, x)) /\ Cardinality(Below(S, R, x)) \in Nat
             /\ Cardinality(Below(S, R, x)) + 1 \in 1..N
  <2>1. Below(S, R, x) \in SUBSET S /\ Below(S, R, x) # S
    BY DEF Below, Total
  <2>2. /\ IsFiniteSet(Below(S, R, x)) /\ Cardinality(Below(S, R, x)) <= N
        /\ Cardinality(Below(S, R, x)) # N
    BY <2>1, FS_Subset
  <2>3. Cardinality(Below(S, R, x)) \in Nat
    BY <2>2, FS_CardinalityType
  <2> QED
    BY <1>1, <2>2, <2>3
<1>3. ASSUME NEW x \in S, NEW y \in S, <<x, y>> \in R
      PROVE  Cardinality(Below(S, R, x)) # Cardinality(Below(S, R, y))
  <2>1. Below(S, R, x) \in SUBSET Below(S, R, y)
    BY <1>3 DEF Below, Total
  <2>2. x \in Below(S, R, y) /\ x \notin Below(S, R, x)
    BY <1>3 DEF Below, Total
  <2>3. IsFiniteSet(Below(S, R, y))
    BY <1>2
  <2> QED
    BY <2>1, <2>2, <2>3, FS_Subset
<1>4. \A x \in S : Place[x] \in 1..N /\ Place[x] = Cardinality(Below(S, R, x)) + 1
  BY <1>2
<1>5. ASSUME NEW x \in S, NEW y \in S, x # y PROVE Place[x] # Place[y]
  <2>1. Cardinality(Below(S, R, x)) # Cardinality(Below(S, R, y))
    BY <1>3, <1>5 DEF Total
  <2>2. Cardinality(Below(S, R, x)) \in Nat /\ Cardinality(Below(S, R, y)) \in Nat
    BY <1>2
  <2> QED
    BY <1>4, <2>1, <2>2
<1>6. Place \in [S -> 1..N]
  BY <1>4
<1> HIDE DEF Place
<1>7. Place \in Injection(S, 1..N)
  BY <1>5, <1>6 DEF Injection, IsInjective
<1>8. IsFiniteSet(1..N) /\ Cardinality(1..N) = N
  BY <1>1, FS_Interval
<1>9. Place \in Surjection(S, 1..N)
  BY <1>7, <1>8, FS_Injection
<1>10. \A n \in 1..N : \E x \in S : Place[x] = n
  BY <1>9 DEF Surjection
<1> QED
  BY <1>1, <1>4, <1>10

LEMMA ImageFinite ==
  ASSUME NEW S, IsFiniteSet(S), NEW f
  PROVE  IsFiniteSet({f[x] : x \in S})
<1> DEFINE T == {f[x] : x \in S}
           g == [x \in S |-> f[x]]
<1>1. g \in Surjection(S, T)
  BY DEF Surjection
<1> HIDE DEF g
<1> QED
  BY <1>1, FS_Surjection

LEMMA ListFinite ==
  ASSUME NEW T, NEW s \in Seq(T)
  PROVE  /\ IsFiniteSet(DOMAIN s) /\ IsFiniteSet(ToSet(s))
         /\ ToSet(s) = {s[i] : i \in 1..Len(s)} /\ ToSet(s) \subseteq T
<1>1. Len(s) \in Nat /\ DOMAIN s = 1..Len(s) /\ \A i \in 1..Len(s) : s[i] \in T
  BY LenProperties, ElementOfSeq
<1>2. IsFiniteSet(1..Len(s))
  BY <1>1, FS_Interval
<1>3. ToSet(s) = {s[i] : i \in 1..Len(s)}
  BY <1>1 DEF ToSet
<1> QED
  BY <1>1, <1>2, <1>3, ImageFinite

LEMMA FoundOK ==
  ASSUME NEW lists \in Seq(Seq(Chunks))
  PROVE  IsFiniteSet(Found(lists)) /\ Found(lists) \subseteq Chunks
<1> DEFINE each == [i \in 1..Len(lists) |-> ToSet(lists[i])]
           sets == {each[i] : i \in 1..Len(lists)}
<1>1. /\ Len(lists) \in Nat /\ DOMAIN lists = 1..Len(lists)
      /\ \A i \in 1..Len(lists) : lists[i] \in Seq(Chunks)
  BY LenProperties, ElementOfSeq
<1>2. \A i \in 1..Len(lists) : IsFiniteSet(each[i]) /\ each[i] \subseteq Chunks
  BY <1>1, ListFinite
<1>3. Found(lists) = UNION sets
  BY <1>1 DEF Found
<1> HIDE DEF each
<1>4. IsFiniteSet(1..Len(lists))
  BY <1>1, FS_Interval
<1>5. IsFiniteSet(sets)
  BY <1>4, ImageFinite
<1>6. \A x \in sets : IsFiniteSet(x) /\ x \subseteq Chunks
  BY <1>2
<1> HIDE DEF sets
<1> QED
  BY <1>3, <1>5, <1>6, FS_UNION

\* Best score first: every chunk found is listed, once.
LEMMA ByScoreOK ==
  ASSUME NEW ranked \in SUBSET (Chunks \X Nat), IsFiniteSet(ranked),
         \A a, b \in ranked : a[1] = b[1] => a = b
  PROVE  ByScore[ranked] \in Seq(Chunks) /\ NoRepeat(ByScore[ranked])
<1> DEFINE Ahead(a, b) == a[2] > b[2] \/ (a[2] = b[2] /\ a[1] < b[1])
           R == {p \in ranked \X ranked : Ahead(p[1], p[2])}
           N == Cardinality(ranked)
           order == [n \in 1..N |-> CHOOSE x \in ranked : Cardinality({y \in ranked : Ahead(y, x)}) + 1 = n]
<1>1. ByScore[ranked] = [n \in DOMAIN order |-> order[n][1]]
  BY DEF ByScore, Ordered
<1>2. \A a \in ranked : a[1] \in Nat /\ a[2] \in Nat /\ a[1] \in Chunks
  BY FusionAssumption
<1>3. \A x, y \in ranked : <<x, y>> \in R <=> Ahead(x, y)
  OBVIOUS
<1>4. Total(ranked, R)
  <2>1. \A x \in ranked : ~Ahead(x, x)
    BY <1>2
  <2>2. \A x, y \in ranked : x # y => Ahead(x, y) \/ Ahead(y, x)
    BY <1>2
  <2>3. \A x, y, z \in ranked : Ahead(x, y) /\ Ahead(y, z) => Ahead(x, z)
    BY <1>2
  <2> HIDE DEF R, Ahead
  <2> QED
    BY <1>3, <2>1, <2>2, <2>3 DEF Total
<1>5. ASSUME NEW x \in ranked PROVE Below(ranked, R, x) = {y \in ranked : Ahead(y, x)}
  <2> HIDE DEF R, Ahead
  <2> QED
    BY <1>3 DEF Below
<1>6. /\ N \in Nat
      /\ \A n \in 1..N : \E x \in ranked : Cardinality(Below(ranked, R, x)) + 1 = n
  <2> HIDE DEF R
  <2> QED
    BY <1>4, PlacesTaken
<1> HIDE DEF R, N
<1>7. ASSUME NEW n \in 1..N
      PROVE  order[n] \in ranked /\ Cardinality({y \in ranked : Ahead(y, order[n])}) + 1 = n
  <2>1. PICK x \in ranked : Cardinality(Below(ranked, R, x)) + 1 = n
    BY <1>6
  <2>2. \E z \in ranked : Cardinality({y \in ranked : Ahead(y, z)}) + 1 = n
    BY <1>5, <2>1
  <2>3. order[n] = CHOOSE z \in ranked : Cardinality({y \in ranked : Ahead(y, z)}) + 1 = n
    OBVIOUS
  <2> HIDE DEF order, Ahead
  <2> QED
    BY <2>2, <2>3
<1>8. DOMAIN order = 1..N
  OBVIOUS
<1>9. \A n, m \in 1..N : order[n] = order[m] => n = m
  <2> HIDE DEF order, Ahead
  <2> QED
    BY <1>7
<1> HIDE DEF order
<1>10. ByScore[ranked] = [n \in 1..N |-> order[n][1]]
  BY <1>1, <1>8
<1>11. \A n \in 1..N : order[n][1] \in Chunks
  BY <1>2, <1>7
<1>12. ByScore[ranked] \in Seq(Chunks) /\ DOMAIN ByScore[ranked] = 1..N
  BY <1>6, <1>10, <1>11
<1>13. \A n, m \in 1..N : n # m => order[n][1] # order[m][1]
  BY <1>7, <1>9
<1> QED
  BY <1>10, <1>12, <1>13 DEF NoRepeat

LEMMA MergeOK ==
  ASSUME NEW lists \in Seq(Seq(Chunks))
  PROVE  RrfMerge(lists) \in Seq(Chunks) /\ NoRepeat(RrfMerge(lists))
<1> DEFINE pair == [c \in Found(lists) |-> <<c, RrfScore(lists, c)>>]
           ranked == {pair[c] : c \in Found(lists)}
<1>1. IsFiniteSet(Found(lists)) /\ Found(lists) \subseteq Chunks
  BY FoundOK
<1>2. \A c \in Found(lists) : pair[c] \in Chunks \X Nat /\ pair[c][1] = c
  BY <1>1, RrfScoreOK
<1>3. RrfMerge(lists) = ByScore[ranked]
  BY DEF RrfMerge
<1> HIDE DEF pair
<1>4. IsFiniteSet(ranked)
  BY <1>1, ImageFinite
<1>5. ranked \in SUBSET (Chunks \X Nat) /\ \A a, b \in ranked : a[1] = b[1] => a = b
  BY <1>2
<1> HIDE DEF ranked
<1> QED
  BY <1>3, <1>4, <1>5, ByScoreOK

\* What a search hands on: each passage once, none sharing text with another, no more than the cap.
LEMMA MergeProbesOK ==
  ASSUME NEW lists \in Seq(Seq(Chunks))
  PROVE  /\ MergeProbes(lists) \in Seq(Chunks) /\ Len(MergeProbes(lists)) <= MergedTopK
         /\ NoRepeat(MergeProbes(lists)) /\ Apart(MergeProbes(lists))
<1>1. RrfMerge(lists) \in Seq(Chunks) /\ NoRepeat(RrfMerge(lists))
  BY MergeOK
<1>2. /\ DropOverlappingNeighbours(RrfMerge(lists)) \in Seq(Chunks)
      /\ NoRepeat(DropOverlappingNeighbours(RrfMerge(lists)))
      /\ Apart(DropOverlappingNeighbours(RrfMerge(lists)))
  BY <1>1, DropOK
<1>3. MergedTopK \in Nat
  BY TurnAssumption DEF RetrievalCoherent
<1> QED
  BY <1>2, <1>3, TopOK DEF MergeProbes

LEMMA ArmListsOK ==
  ASSUME NEW list \in ArmLists[Accessible]
  PROVE  list \in Seq(Chunks)
<1> DEFINE Lists(readable) == {s \in BoundedSeq(readable, ArmDepth) : IsInjective(s)}
<1>1. Accessible \in SUBSET Chunks /\ ArmDepth \in Nat
  BY TurnAssumption DEF Accessible, RetrievalCoherent
<1>2. PICK dense \in Lists(Accessible), sparse \in Lists(Accessible) : list = HybridSearch(dense, sparse)
  BY <1>1 DEF ArmLists
<1>3. ASSUME NEW s \in Lists(Accessible) PROVE s \in Seq(Chunks)
  <2>1. PICK n \in 0..ArmDepth : s \in [1..n -> Accessible]
    BY <1>1 DEF BoundedSeq, SeqOf
  <2>2. n \in Nat /\ s \in [1..n -> Chunks]
    BY <1>1, <2>1
  <2> QED
    BY <2>2
<1>4. <<dense, sparse>> \in Seq(Seq(Chunks))
  BY <1>3
<1>5. RrfMerge(<<dense, sparse>>) \in Seq(Chunks) /\ NoRepeat(RrfMerge(<<dense, sparse>>))
  BY <1>4, MergeOK
<1>6. DropOverlappingNeighbours(RrfMerge(<<dense, sparse>>)) \in Seq(Chunks)
  BY <1>5, DropOK
<1>7. FusionTopK \in Nat
  BY TurnAssumption DEF RetrievalCoherent
<1> QED
  BY <1>2, <1>6, <1>7, TopOK DEF HybridSearch

-----------------------------------------------------------------------------
(* Batches and ranks                                                       *)

LEMMA OnePlace ==
  ASSUME NEW i \in Nat, NEW j \in Nat, NEW n \in 1..BatchSize, NEW m \in 1..BatchSize,
         (i - 1) * BatchSize + n = (j - 1) * BatchSize + m
  PROVE  i = j /\ n = m
<1>1. BatchSize \in Nat \ {0}
  BY GroundingAssumption
<1>2. i * BatchSize + (n - 1) = j * BatchSize + (m - 1)
  BY <1>1
<1>3. n - 1 \in 0..(BatchSize - 1) /\ m - 1 \in 0..(BatchSize - 1)
  BY <1>1
<1>4. \A B \in Nat \ {0} : \A r, s \in 0..(B - 1) : i * B + r = j * B + s => i = j /\ r = s
  BY SMTT(60)
<1>5. i = j /\ n - 1 = m - 1
  BY <1>1, <1>2, <1>3, <1>4
<1> QED
  BY <1>1, <1>5

\* Where passage n of batch i stands in the whole list.
PlaceOf(i, n) == (i - 1) * BatchSize + n

LEMMA PlaceOfNumber ==
  ASSUME NEW i \in Nat \ {0}, NEW n \in 1..BatchSize
  PROVE  /\ (PlaceOf(i, n) - 1) \div BatchSize + 1 = i
         /\ ((PlaceOf(i, n) - 1) % BatchSize) + 1 = n
<1>1. BatchSize \in Nat \ {0}
  BY GroundingAssumption
<1>2. \A B \in Nat \ {0} : \A k \in Nat : \A r \in 0..(B - 1) :
         (k * B + r) \div B = k /\ (k * B + r) % B = r
  BY SMTT(60)
<1>3. i - 1 \in Nat /\ n - 1 \in 0..(BatchSize - 1)
  BY <1>1
<1>4. /\ ((i - 1) * BatchSize + (n - 1)) \div BatchSize = i - 1
      /\ ((i - 1) * BatchSize + (n - 1)) % BatchSize = n - 1
  BY <1>1, <1>2, <1>3
<1>5. PlaceOf(i, n) - 1 = (i - 1) * BatchSize + (n - 1)
  BY <1>1 DEF PlaceOf
<1> QED
  BY <1>1, <1>4, <1>5

\* The n-th passage of batch i is the candidate at its place in the whole list.
LEMMA BatchOK ==
  ASSUME NEW T, NEW list \in Seq(T), NEW i \in Nat \ {0}
  PROVE  /\ Batch(list, i) \in Seq(T) /\ Len(Batch(list, i)) <= BatchSize
         /\ \A n \in 1..Len(Batch(list, i)) :
               /\ (i - 1) * BatchSize + n \in 1..Len(list)
               /\ Batch(list, i)[n] = list[(i - 1) * BatchSize + n]
<1> DEFINE base == (i - 1) * BatchSize
           last == IF i * BatchSize < Len(list) THEN i * BatchSize ELSE Len(list)
<1>1. BatchSize \in Nat \ {0} /\ Len(list) \in Nat
  BY GroundingAssumption, LenProperties
<1>2. base \in Nat /\ i * BatchSize = base + BatchSize
  <2>1. i - 1 \in Nat
    OBVIOUS
  <2>2. \A k, B \in Nat : k * B \in Nat
    OBVIOUS
  <2>3. base \in Nat
    BY <1>1, <2>1, <2>2
  <2> QED
    BY <1>1, <2>3
<1>3. Batch(list, i) = SubSeq(list, base + 1, last)
  BY DEF Batch
<1>4. last \in Nat /\ last <= Len(list) /\ last <= base + BatchSize
  BY <1>1, <1>2
<1> HIDE DEF base, last
<1>5. \A k \in (base + 1)..last : list[k] \in T
  <2>1. \A k \in (base + 1)..last : k \in 1..Len(list)
    BY <1>1, <1>2, <1>4
  <2> QED
    BY <2>1, ElementOfSeq
<1>6. /\ Batch(list, i) \in Seq(T)
      /\ Len(Batch(list, i)) = IF base + 1 <= last THEN last - (base + 1) + 1 ELSE 0
      /\ \A n \in 1..(last - (base + 1) + 1) : Batch(list, i)[n] = list[(base + 1) + n - 1]
  BY <1>2, <1>3, <1>4, <1>5, SubSeqProperties
<1>7. Len(Batch(list, i)) <= BatchSize
  BY <1>1, <1>2, <1>4, <1>6
<1>8. ASSUME NEW n \in 1..Len(Batch(list, i))
      PROVE  base + n \in 1..Len(list) /\ Batch(list, i)[n] = list[base + n]
  <2>1. n \in 1..(last - (base + 1) + 1) /\ (base + 1) + n - 1 = base + n
    BY <1>1, <1>2, <1>4, <1>6
  <2>2. base + n \in 1..Len(list)
    BY <1>1, <1>2, <1>4, <2>1
  <2> QED
    BY <1>6, <2>1, <2>2
<1> QED
  BY <1>6, <1>7, <1>8 DEF base

\* Position p of the list has the score its batch gave it.
FromBatch(list, bs, p) ==
    \E i \in DOMAIN bs : \E n \in DOMAIN bs[i] :
        Scored(bs)[p] = bs[i][n] /\ list[p] = Batch(list, i)[n]

\* Scores a batch gave stand at the places its passages have in the whole list.
LEMMA ScoredOK ==
  ASSUME NEW list \in Seq(Chunks), NEW bs, DOMAIN bs = 1..BatchCount(list),
         \A i \in DOMAIN bs : DOMAIN bs[i] \subseteq 1..Len(Batch(list, i)),
         NEW p \in DOMAIN Scored(bs)
  PROVE  p \in 1..Len(list) /\ FromBatch(list, bs, p)
<1> DEFINE At(q) == (q - 1) \div BatchSize + 1
           Number(q) == ((q - 1) % BatchSize) + 1
           positions == UNION {{(i - 1) * BatchSize + n : n \in DOMAIN bs[i]} : i \in DOMAIN bs}
<1>1. Scored(bs) = [q \in positions |-> bs[At(q)][Number(q)]]
  BY DEF Scored
<1>2. DOMAIN Scored(bs) = positions
  BY <1>1
<1>3. BatchSize \in Nat \ {0} /\ BatchCount(list) \in Nat
  <2>1. BatchSize \in Nat \ {0} /\ Len(list) \in Nat
    BY GroundingAssumption, LenProperties
  <2>2. Len(list) + BatchSize - 1 \in Nat
    BY <2>1
  <2> QED
    BY <2>1, <2>2, ShareIsNat DEF BatchCount
<1>4. p \in positions
  BY <1>2
<1>5. PICK i \in DOMAIN bs : \E n \in DOMAIN bs[i] : p = (i - 1) * BatchSize + n
  BY <1>4
<1>6. PICK n \in DOMAIN bs[i] : p = (i - 1) * BatchSize + n
  BY <1>5
<1>7. i \in Nat \ {0} /\ n \in 1..Len(Batch(list, i))
  BY <1>3, <1>5, <1>6
<1>8. /\ Batch(list, i) \in Seq(Chunks) /\ Len(Batch(list, i)) <= BatchSize
      /\ p \in 1..Len(list) /\ Batch(list, i)[n] = list[p]
  BY <1>6, <1>7, BatchOK
<1>9. n \in 1..BatchSize
  <2>1. Len(Batch(list, i)) \in Nat
    BY <1>8, LenProperties
  <2> QED
    BY <1>3, <1>7, <1>8, <2>1
<1>10. At(p) = i /\ Number(p) = n
  <2>1. p = PlaceOf(i, n)
    BY <1>6 DEF PlaceOf
  <2> QED
    BY <1>7, <1>9, <2>1, PlaceOfNumber
<1>11. Scored(bs)[p] = bs[At(p)][Number(p)]
  BY <1>1, <1>4
<1> HIDE DEF At, Number
<1>12. Scored(bs)[p] = bs[i][n]
  BY <1>10, <1>11
<1>13. \E k \in DOMAIN bs[i] : Scored(bs)[p] = bs[i][k] /\ list[p] = Batch(list, i)[k]
  BY <1>6, <1>8, <1>12
<1> QED
  BY <1>5, <1>8, <1>13 DEF FromBatch

\* Ranking puts every position somewhere.
LEMMA RankedPositionsOK ==
  ASSUME NEW count \in Nat, NEW scored, \A p \in DOMAIN scored : scored[p] \in Nat
  PROVE  RankedPositions(count, scored) \in Seq(1..count)
<1> DEFINE S == 1..count
           Ahead(a, b) ==
              \/ a \in DOMAIN scored /\ b \notin DOMAIN scored
              \/ /\ a \in DOMAIN scored <=> b \in DOMAIN scored
                 /\ \/ a \in DOMAIN scored /\ scored[a] > scored[b]
                    \/ (a \in DOMAIN scored => scored[a] = scored[b]) /\ a < b
           R == {p \in S \X S : Ahead(p[1], p[2])}
           N == Cardinality(S)
           At(n) == CHOOSE x \in S : Cardinality({y \in S : Ahead(y, x)}) + 1 = n
           order == [n \in 1..N |-> At(n)]
<1>1. RankedPositions(count, scored) = order
  BY DEF RankedPositions, Ordered
<1>2. IsFiniteSet(S)
  BY FS_Interval
<1>3. \A x, y \in S : <<x, y>> \in R <=> Ahead(x, y)
  <2> HIDE DEF Ahead, S
  <2> QED
    OBVIOUS
<1>4. Total(S, R)
  <2>1. \A x \in S : ~Ahead(x, x)
    OBVIOUS
  <2>2. \A x, y \in S : x # y => Ahead(x, y) \/ Ahead(y, x)
    OBVIOUS
  <2>3. \A x, y, z \in S : Ahead(x, y) /\ Ahead(y, z) => Ahead(x, z)
    OBVIOUS
  <2> HIDE DEF R, Ahead
  <2> QED
    BY <1>3, <2>1, <2>2, <2>3 DEF Total
<1>5. ASSUME NEW x \in S PROVE Below(S, R, x) = {y \in S : Ahead(y, x)}
  <2> HIDE DEF R, Ahead
  <2> QED
    BY <1>3 DEF Below
<1>6. /\ N \in Nat
      /\ \A n \in 1..N : \E x \in S : Cardinality(Below(S, R, x)) + 1 = n
  <2> HIDE DEF R, S
  <2> QED
    BY <1>2, <1>4, PlacesTaken
<1> HIDE DEF R, N
<1>7. ASSUME NEW n \in 1..N PROVE At(n) \in S
  <2>1. PICK x \in S : Cardinality(Below(S, R, x)) + 1 = n
    BY <1>6
  <2>2. \E z \in S : Cardinality({y \in S : Ahead(y, z)}) + 1 = n
    BY <1>5, <2>1
  <2> HIDE DEF Ahead, S
  <2> QED
    BY <2>2
<1> HIDE DEF At, S
<1>8. order \in Seq(S)
  BY <1>6, <1>7
<1> QED
  BY <1>1, <1>8 DEF S

\* What the ranking returns: passages of the list, and scores only where every one has its own.
LEMMA RankPassagesOK ==
  ASSUME NEW list \in Seq(Chunks), NEW scored, \A p \in DOMAIN scored : scored[p] \in Nat
  PROVE  LET ranked == RankPassages(list, scored)
         IN  /\ ranked.ids \in Seq(Chunks) /\ Len(ranked.ids) <= RerankTopK
             /\ ranked.scores \in Seq(Nat)
             /\ ranked.scores # <<>> => Len(ranked.scores) = Len(ranked.ids)
             /\ \A i \in 1..Len(ranked.scores) : \E p \in DOMAIN scored :
                   ranked.ids[i] = list[p] /\ ranked.scores[i] = scored[p]
<1> DEFINE order == RankedPositions(Len(list), scored)
           k == IF Len(order) < RerankTopK THEN Len(order) ELSE RerankTopK
           top == SubSeq(order, 1, k)
           ranked == RankPassages(list, scored)
           All == DOMAIN scored # {} /\ \A i \in DOMAIN top : top[i] \in DOMAIN scored
<1>1. Len(list) \in Nat /\ RerankTopK \in Nat
  BY LenProperties, GroundingAssumption
<1>2. order \in Seq(1..Len(list))
  BY <1>1, RankedPositionsOK
<1>3. Len(order) \in Nat
  BY <1>2, LenProperties
<1>4. ranked = [ids |-> [i \in DOMAIN top |-> list[top[i]]],
                scores |-> IF All THEN [i \in DOMAIN top |-> scored[top[i]]] ELSE <<>>]
  BY DEF RankPassages
<1> HIDE DEF order, ranked
<1>5. k \in Nat /\ k <= RerankTopK /\ k <= Len(order)
  BY <1>1, <1>3
<1> HIDE DEF k
<1>6. \A i \in 1..k : order[i] \in 1..Len(list)
  <2>1. \A i \in 1..k : i \in 1..Len(order)
    BY <1>3, <1>5
  <2> QED
    BY <1>2, <2>1, ElementOfSeq
<1>7. top \in Seq(1..Len(list)) /\ Len(top) = k
  BY <1>5, <1>6, SubSeqProperties
<1> HIDE DEF top
<1>8. DOMAIN top = 1..k /\ \A i \in 1..k : top[i] \in 1..Len(list)
  BY <1>7, LenProperties, ElementOfSeq
<1>9. \A i \in 1..k : list[top[i]] \in Chunks
  BY <1>8, ElementOfSeq
<1>10. ranked.ids = [i \in 1..k |-> list[top[i]]]
  BY <1>4, <1>8
<1>11. ranked.ids \in Seq(Chunks) /\ Len(ranked.ids) = k
  BY <1>5, <1>9, <1>10
<1>12. CASE All
  <2>1. ranked.scores = [i \in 1..k |-> scored[top[i]]]
    BY <1>4, <1>8, <1>12
  <2>2. \A i \in 1..k : top[i] \in DOMAIN scored /\ scored[top[i]] \in Nat
    BY <1>8, <1>12
  <2>3. ranked.scores \in Seq(Nat) /\ Len(ranked.scores) = k
    BY <1>5, <2>1, <2>2
  <2>4. ASSUME NEW i \in 1..Len(ranked.scores)
        PROVE  \E p \in DOMAIN scored : ranked.ids[i] = list[p] /\ ranked.scores[i] = scored[p]
    <3>1. i \in 1..k
      BY <2>3, <2>4
    <3>2. ranked.ids[i] = list[top[i]] /\ ranked.scores[i] = scored[top[i]] /\ top[i] \in DOMAIN scored
      BY <1>10, <2>1, <2>2, <3>1
    <3> QED
      BY <3>2
  <2>5. /\ ranked.ids \in Seq(Chunks) /\ Len(ranked.ids) <= RerankTopK
        /\ ranked.scores # <<>> => Len(ranked.scores) = Len(ranked.ids)
    BY <1>5, <1>11, <2>3
  <2> HIDE DEF All
  <2> QED
    BY <2>3, <2>4, <2>5 DEF ranked
<1>13. CASE ~All
  <2>1. ranked.scores = <<>>
    BY <1>4, <1>13
  <2>2. ranked.scores \in Seq(Nat) /\ Len(ranked.scores) = 0
    BY <2>1, EmptySeq
  <2>3. /\ ranked.ids \in Seq(Chunks) /\ Len(ranked.ids) <= RerankTopK
        /\ ~(ranked.scores # <<>>) /\ ~\E i \in 1..Len(ranked.scores) : TRUE
    BY <1>5, <1>11, <2>1, <2>2
  <2> HIDE DEF All
  <2> QED
    BY <2>2, <2>3 DEF ranked
<1> QED
  BY <1>12, <1>13

\* A score that stays is the one its passage had before the others vanished.
LEMMA RealignOK ==
  ASSUME NEW previous \in Seq(Chunks), NEW surviving \in Seq(Chunks), NEW given \in Seq(Nat),
         \A i \in 1..Len(surviving) : \E j \in 1..Len(previous) : previous[j] = surviving[i]
  PROVE  LET kept == RealignScores(previous, surviving, given)
         IN  /\ kept \in Seq(Nat)
             /\ kept # <<>> => Len(kept) = Len(surviving)
             /\ \A i \in 1..Len(kept) : \E j \in 1..Len(given) :
                   surviving[i] = previous[j] /\ kept[i] = given[j]
<1> DEFINE kept == RealignScores(previous, surviving, given)
<1>1. CASE Len(given) # Len(previous)
  <2>1. kept = <<>>
    BY <1>1 DEF RealignScores
  <2> HIDE DEF kept
  <2>2. kept \in Seq(Nat) /\ Len(kept) = 0
    BY <2>1, EmptySeq
  <2>3. ~(kept # <<>>) /\ ~\E i \in 1..Len(kept) : TRUE
    BY <2>1, <2>2
  <2> QED
    BY <2>2, <2>3 DEF kept
<1>2. CASE Len(given) = Len(previous)
  <2> DEFINE n == Len(surviving)
  <2>1. Len(previous) \in Nat /\ n \in Nat /\ DOMAIN surviving = 1..n
    BY LenProperties
  <2>2. kept = [i \in 1..n |-> given[RankIn(previous, surviving[i])]]
    BY <1>2, <2>1 DEF RealignScores
  <2> HIDE DEF kept
  <2>3. \A i \in 1..n : /\ RankIn(previous, surviving[i]) \in 1..Len(given)
                        /\ previous[RankIn(previous, surviving[i])] = surviving[i]
    BY <1>2, <2>1, RankInOK
  <2>4. \A i \in 1..n : given[RankIn(previous, surviving[i])] \in Nat
    BY <2>3, ElementOfSeq
  <2> HIDE DEF n
  <2>5. kept \in Seq(Nat) /\ Len(kept) = n
    BY <2>1, <2>2, <2>4
  <2>6. ASSUME NEW i \in 1..Len(kept)
        PROVE  \E j \in 1..Len(given) : surviving[i] = previous[j] /\ kept[i] = given[j]
    <3>1. i \in 1..n
      BY <2>5, <2>6
    <3>2. kept[i] = given[RankIn(previous, surviving[i])]
      BY <2>2, <3>1
    <3> QED
      BY <2>3, <3>1, <3>2
  <2> QED
    BY <2>5, <2>6 DEF kept, n
<1> QED
  BY <1>1, <1>2

\* What is made of a reply: scores for passages of the batch, no others.
LEMMA RepliesOK ==
  ASSUME NEW n \in Nat, NEW reply \in BatchReplies(n)
  PROVE  DOMAIN reply \subseteq 1..n /\ \A p \in DOMAIN reply : reply[p] \in Nat
<1>0. Scale \in Nat
  BY GroundingAssumption
<1>1. PICK k \in 0..n : \E entries \in [1..k -> [id : 1..(n + 1), score : 0..(Scale + 1)]] :
                           reply = ParseScores(entries, n)
  BY DEF BatchReplies
<1>2. PICK entries \in [1..k -> [id : 1..(n + 1), score : 0..(Scale + 1)]] :
         reply = ParseScores(entries, n)
  BY <1>1
<1> DEFINE I(p) == {i \in 1..Len(entries) : entries[i].id = p}
           First(p) == IF I(p) # {} THEN Min(I(p)) ELSE 0
           ids == {entries[e].id : e \in DOMAIN entries} \cap 1..n
<1>3. reply = [p \in ids |-> IF entries[First(p)].score < 0 THEN 0
                             ELSE IF entries[First(p)].score > Scale THEN Scale
                             ELSE entries[First(p)].score]
  BY <1>2 DEF ParseScores, SelectInSeq
<1>4. k \in Nat /\ Len(entries) = k /\ DOMAIN entries = 1..k
  BY <1>1, <1>2
<1>5. ASSUME NEW p \in ids PROVE First(p) \in 1..k
  <2>1. I(p) # {} /\ I(p) \subseteq Nat
    <3>0. p \in {entries[e].id : e \in 1..k}
      BY <1>4
    <3>1. PICK e \in 1..k : entries[e].id = p
      BY <3>0
    <3>2. e \in I(p)
      BY <1>4, <3>1
    <3>3. I(p) \subseteq Nat
      BY <1>4
    <3> HIDE DEF I
    <3> QED
      BY <3>2, <3>3
  <2>2. \E x \in I(p) : \A y \in I(p) : x <= y
    <3> HIDE DEF I
    <3> QED
      BY <2>1, NatMin
  <2>3. Min(I(p)) \in I(p)
    <3> HIDE DEF I
    <3> QED
      BY <2>2 DEF Min
  <2>4. First(p) \in I(p)
    BY <2>1, <2>3
  <2> QED
    BY <1>4, <2>4
<1> HIDE DEF First
<1>6. \A p \in ids : entries[First(p)].score \in 0..(Scale + 1)
  BY <1>2, <1>5
<1> HIDE DEF ids
<1>7. \A p \in ids : reply[p] \in Nat
  BY <1>0, <1>3, <1>6
<1>8. DOMAIN reply = ids
  BY <1>3
<1> QED
  BY <1>7, <1>8 DEF ids

-----------------------------------------------------------------------------
(* Markers and citations                                                   *)

Segment == [kind : {"claim", "short", "break", "marker", "cite"}, n : Nat]

\* A marker that is left cites a passage of the list.
LEMMA SegmentsOK ==
  ASSUME NEW text \in Seq(Token), NEW sources \in Seq(Chunks)
  PROVE  /\ SplitSegments(text, sources) \in Seq(Segment)
         /\ \A i \in 1..Len(SplitSegments(text, sources)) :
               SplitSegments(text, sources)[i].kind = "cite" =>
                  SplitSegments(text, sources)[i].n \in ToSet(sources)
<1> DEFINE Kept(token) == token.kind # "marker" \/ token.n \in DOMAIN sources
           W == {token \in ToSet(text) : Kept(token)}
           kept == Keeping(text, W)
           At(i) == IF kept[i].kind = "marker" THEN [kind |-> "cite", n |-> sources[kept[i].n]]
                    ELSE kept[i]
           segments == SplitSegments(text, sources)
<1>1. segments = [i \in DOMAIN kept |-> At(i)]
  BY DEF SplitSegments
<1>2. kept \in Seq(Token) /\ \A i \in 1..Len(kept) : kept[i] \in W
  BY KeepingOK
<1>3. \A i \in 1..Len(kept) : Kept(kept[i])
  BY <1>2
<1> HIDE DEF kept, segments
<1>4. DOMAIN kept = 1..Len(kept) /\ Len(kept) \in Nat /\ \A i \in 1..Len(kept) : kept[i] \in Token
  BY <1>2, LenProperties, ElementOfSeq
<1>5. DOMAIN sources = 1..Len(sources) /\ \A j \in 1..Len(sources) : sources[j] \in Chunks
  BY LenProperties, ElementOfSeq
<1>6. ASSUME NEW i \in 1..Len(kept)
      PROVE  At(i) \in Segment /\ (At(i).kind = "cite" => At(i).n \in ToSet(sources))
  <2>1. CASE kept[i].kind = "marker"
    <3>1. kept[i].n \in DOMAIN sources
      BY <1>3, <2>1
    <3>2. sources[kept[i].n] \in ToSet(sources) /\ sources[kept[i].n] \in Nat
      BY <1>5, <3>1, FusionAssumption DEF ToSet
    <3>3. At(i) = [kind |-> "cite", n |-> sources[kept[i].n]]
      BY <2>1
    <3> HIDE DEF At
    <3> QED
      BY <3>2, <3>3 DEF Segment
  <2>2. CASE kept[i].kind # "marker"
    <3>1. At(i) = kept[i]
      BY <2>2
    <3>2. kept[i] \in Token
      BY <1>4
    <3> HIDE DEF At
    <3> QED
      BY <3>1, <3>2 DEF Segment, Token
  <2> QED
    BY <2>1, <2>2
<1> HIDE DEF At
<1>7. segments \in Seq(Segment) /\ Len(segments) = Len(kept)
  BY <1>1, <1>4, <1>6
<1>8. \A i \in 1..Len(segments) : segments[i].kind = "cite" => segments[i].n \in ToSet(sources)
  BY <1>1, <1>4, <1>6, <1>7
<1> QED
  BY <1>7, <1>8 DEF segments

\* A stored citation is a marker whose passage was read, with that passage's score.
LEMMA CitationsOK ==
  ASSUME NEW segments \in Seq(Segment), NEW sources, NEW read, NEW given
  PROVE  LET cs == BuildCitations(segments, sources, read, given)
         IN  /\ \E n \in Nat : DOMAIN cs = 1..n /\ Len(cs) = n
             /\ (\A j \in 1..Len(segments) : segments[j].kind # "cite") => cs = <<>>
             /\ \A i \in DOMAIN cs : \E j \in 1..Len(segments) :
                   /\ segments[j].kind = "cite" /\ segments[j].n \in read
                   /\ cs[i].chunk = segments[j].n
                   /\ cs[i].score =
                         IF Len(given) = Len(sources) /\ given # <<>> /\ segments[j].n \in ToSet(sources)
                         THEN given[RankIn(sources, segments[j].n)] ELSE NoScore
<1> DEFINE Read(s) == s.kind = "cite" /\ s.n \in read
           W == {s \in ToSet(segments) : Read(s)}
           kept == Keeping(segments, W)
           ScoreOf(c) == IF Len(given) = Len(sources) /\ given # <<>> /\ c \in ToSet(sources)
                         THEN given[RankIn(sources, c)] ELSE NoScore
           cs == BuildCitations(segments, sources, read, given)
<1>1. cs = [i \in DOMAIN kept |-> [chunk |-> kept[i].n, score |-> ScoreOf(kept[i].n)]]
  BY DEF BuildCitations
<1>2. /\ kept \in Seq(Segment)
      /\ \A i \in 1..Len(kept) : kept[i] \in W /\ \E j \in 1..Len(segments) : segments[j] = kept[i]
  BY KeepingOK
<1> HIDE DEF kept, cs, ScoreOf
<1>3. DOMAIN kept = 1..Len(kept) /\ Len(kept) \in Nat
  BY <1>2, LenProperties
<1>4. DOMAIN cs = 1..Len(kept) /\ Len(cs) = Len(kept)
  BY <1>1, <1>3
<1>5. ASSUME NEW i \in 1..Len(kept)
      PROVE  \E j \in 1..Len(segments) :
                /\ segments[j].kind = "cite" /\ segments[j].n \in read
                /\ cs[i].chunk = segments[j].n /\ cs[i].score = ScoreOf(segments[j].n)
  <2>1. PICK j \in 1..Len(segments) : segments[j] = kept[i]
    BY <1>2
  <2>2. kept[i].kind = "cite" /\ kept[i].n \in read
    BY <1>2
  <2>3. cs[i] = [chunk |-> kept[i].n, score |-> ScoreOf(kept[i].n)]
    BY <1>1, <1>3
  <2>4. cs[i].chunk = kept[i].n /\ cs[i].score = ScoreOf(kept[i].n)
    BY <2>3
  <2> QED
    BY <2>1, <2>2, <2>4
<1>6. ASSUME \A j \in 1..Len(segments) : segments[j].kind # "cite" PROVE cs = <<>>
  <2>1. Len(kept) = 0
    BY <1>3, <1>5, <1>6
  <2> QED
    BY <1>1, <1>3, <2>1
<1> QED
  BY <1>3, <1>4, <1>5, <1>6 DEF cs, ScoreOf

\* Fetching keeps passages of the list that may be read now.
LEMMA FetchOK ==
  ASSUME NEW ids \in Seq(Chunks)
  PROVE  /\ FetchChunks(ids) \in Seq(Chunks) /\ Len(FetchChunks(ids)) <= Len(ids)
         /\ \A i \in 1..Len(FetchChunks(ids)) : \E j \in 1..Len(ids) : ids[j] = FetchChunks(ids)[i]
         /\ NoRepeat(ids) => NoRepeat(FetchChunks(ids))
         /\ ToSet(FetchChunks(ids)) \subseteq Accessible
<1>1. /\ FetchChunks(ids) \in Seq(Chunks) /\ Len(FetchChunks(ids)) <= Len(ids)
      /\ \A i \in 1..Len(FetchChunks(ids)) : FetchChunks(ids)[i] \in Accessible
      /\ \A i \in 1..Len(FetchChunks(ids)) : \E j \in 1..Len(ids) : ids[j] = FetchChunks(ids)[i]
      /\ NoRepeat(ids) => NoRepeat(FetchChunks(ids))
  BY KeepingOK DEF FetchChunks
<1>2. ToSet(FetchChunks(ids)) = {FetchChunks(ids)[i] : i \in 1..Len(FetchChunks(ids))}
  BY <1>1, ListFinite
<1> QED
  BY <1>1, <1>2

\* The cited passages are looked up as a list of themselves.
LEMMA NumbersOK ==
  ASSUME NEW S, IsFiniteSet(S), S \subseteq Nat
  PROVE  Numbers(S) \in Seq(S)
<1> DEFINE R == {p \in S \X S : p[1] < p[2]}
           N == Cardinality(S)
           At(n) == CHOOSE x \in S : Cardinality({y \in S : y < x}) + 1 = n
           order == [n \in 1..N |-> At(n)]
<1>1. Numbers(S) = order
  BY DEF Numbers, Ordered
<1>2. \A x, y \in S : <<x, y>> \in R <=> x < y
  OBVIOUS
<1>3. Total(S, R)
  <2>1. \A x, y, z \in S : ~(x < x) /\ (x # y => x < y \/ y < x) /\ (x < y /\ y < z => x < z)
    OBVIOUS
  <2> HIDE DEF R
  <2> QED
    BY <1>2, <2>1 DEF Total
<1>4. ASSUME NEW x \in S PROVE Below(S, R, x) = {y \in S : y < x}
  <2> HIDE DEF R
  <2> QED
    BY <1>2 DEF Below
<1>5. /\ N \in Nat
      /\ \A n \in 1..N : \E x \in S : Cardinality(Below(S, R, x)) + 1 = n
  <2> HIDE DEF R
  <2> QED
    BY <1>3, PlacesTaken
<1> HIDE DEF R, N
<1>6. ASSUME NEW n \in 1..N PROVE At(n) \in S
  <2>1. PICK x \in S : Cardinality(Below(S, R, x)) + 1 = n
    BY <1>5
  <2>2. \E z \in S : Cardinality({y \in S : y < z}) + 1 = n
    BY <1>4, <2>1
  <2> QED
    BY <2>2
<1> HIDE DEF At
<1>7. order \in Seq(S)
  BY <1>5, <1>6
<1> QED
  BY <1>1, <1>7

\* What each channel holds.
Channels ==
    /\ served \subseteq Documents /\ changes \in 0..MaxChanges
    /\ pc \in Steps /\ retries \in 0..MaxRetries
    /\ outcome \in {"none", "answered", "abstained"}
    /\ IsList(subs) /\ Len(probes) <= MaxSubQueries + 1
    /\ slot \in Hit /\ hits \in Seq(Hit)
    /\ answer \in Seq(Token)
    /\ pc = "adapt" => retries < MaxRetries

\* Merged lists: ranked once, cut, without shared text.
Merged ==
    /\ retrieved \in Seq(Chunks) /\ Len(retrieved) <= MergedTopK
    /\ NoRepeat(retrieved) /\ Apart(retrieved)

\* What a batch was scored with is what each of its passages was judged, and no other was.
BatchFits(i) ==
    /\ DOMAIN batches[i] \subseteq 1..Len(Batch(candidates, i))
    /\ \A p \in DOMAIN batches[i] :
          /\ batches[i][p] \in Nat
          /\ Batch(candidates, i)[p] \in DOMAIN judged
          /\ judged[Batch(candidates, i)[p]] = batches[i][p]

InBatches ==
    /\ candidates \in Seq(Chunks)
    /\ pc # "ranking" => candidates = <<>>
    /\ pc = "ranking" =>
          /\ NoRepeat(candidates)
          /\ DOMAIN batches = 1..BatchCount(candidates)
          /\ \A i \in DOMAIN batches : Unscored(i) \/ BatchFits(i)
          /\ \A c \in DOMAIN judged : \E i \in DOMAIN batches :
                ~Unscored(i) /\ \E p \in DOMAIN batches[i] : c = Batch(candidates, i)[p]

\* Scores are all there and stand beside the passages they were given.
Aligned ==
    /\ reranked \in Seq(Chunks) /\ Len(reranked) <= RerankTopK
    /\ scores \in Seq(Nat)
    /\ scores # <<>> => Len(scores) = Len(reranked)
    /\ pc # "ranking" => \A i \in 1..Len(scores) :
          reranked[i] \in DOMAIN judged /\ scores[i] = judged[reranked[i]]

\* An outcome is decided once, over the answer and the passages it is stored with.
Decided ==
    /\ outcome # "none" <=> pc \in {"persist", "done"}
    /\ outcome = "answered" => Grounded(SplitSegments(answer, reranked))
    /\ pc # "done" => citations = <<>>
    /\ pc = "done" => ScoresOwnPassage /\ ScoresAllOrNone
    /\ outcome = "abstained" => citations = <<>>

TurnInv == Channels /\ Merged /\ InBatches /\ Aligned /\ Decided

\* The prefetched arm is gone once a search has begun.
TakenOnce == asked # <<>> => slot = Empty

-----------------------------------------------------------------------------
(* What an action leaves alone                                             *)

LEMMA MergedKept == Merged /\ UNCHANGED retrieved => Merged'
BY DEF Merged, NoRepeat, Apart

LEMMA BatchesKept ==
  InBatches /\ UNCHANGED <<candidates, batches, judged>> /\ (pc = "ranking" <=> pc' = "ranking")
    => InBatches'
<1> SUFFICES ASSUME InBatches, UNCHANGED <<candidates, batches, judged>>,
                    pc = "ranking" <=> pc' = "ranking"
             PROVE  InBatches'
  OBVIOUS
<1>1. candidates' = candidates /\ batches' = batches /\ judged' = judged
  OBVIOUS
<1>2. CASE pc = "ranking"
  <2>1. pc' = "ranking"
    BY <1>2
  <2> QED
    BY <1>1, <1>2, <2>1 DEF InBatches, BatchFits, Unscored, NoRepeat
<1>3. CASE pc # "ranking"
  <2>1. pc' # "ranking"
    BY <1>3
  <2> QED
    BY <1>1, <1>3, <2>1 DEF InBatches
<1> QED
  BY <1>2, <1>3

LEMMA AlignedKept ==
  Aligned /\ UNCHANGED <<reranked, scores, judged>> /\ (pc' # "ranking" => pc # "ranking") => Aligned'
BY DEF Aligned

LEMMA UndecidedKept ==
  Decided /\ UNCHANGED <<outcome, citations>> /\ pc \notin {"persist", "done"}
    /\ pc' \notin {"persist", "done"} => Decided'
<1> SUFFICES ASSUME Decided, UNCHANGED <<outcome, citations>>, pc \notin {"persist", "done"},
                    pc' \notin {"persist", "done"}
             PROVE  Decided'
  OBVIOUS
<1>1. outcome' = "none" /\ citations' = <<>> /\ pc' # "done"
  BY DEF Decided
<1> QED
  BY <1>1 DEF Decided

LEMMA ConstantsOK ==
  /\ MaxSubQueries \in Nat /\ MaxRetries \in Nat /\ MergedTopK \in Nat /\ RerankTopK \in Nat
  /\ MaxChanges \in Nat
BY RoutingAssumption, GroundingAssumption, TurnAssumption DEF RetrievalCoherent, SettingsCoherent

LEMMA HitsOK ==
  /\ Pending \in Hit /\ Failed \in Hit /\ Empty \in Hit
  /\ \A list \in Seq(Chunks) : Done(list) \in Hit /\ Done(list) # Pending /\ Done(list).list = list
<1>1. <<>> \in Seq(Chunks)
  BY EmptySeq
<1> QED
  BY <1>1 DEF Hit, Pending, Failed, Empty, Done

LEMMA InitInv == Init => TurnInv
<1> SUFFICES ASSUME Init PROVE TurnInv
  OBVIOUS
<1> USE DEF Init
<1>0. <<>> \in Seq(Chunks) /\ Len(<<>>) = 0 /\ <<>> \in Seq(Nat) /\ <<>> \in Seq(Token) /\ <<>> \in Seq(Hit)
  BY EmptySeq
<1>1. Channels
  <2>1. slot \in Hit
    BY HitsOK
  <2>2. IsList(subs)
    BY <1>0 DEF IsList
  <2>3. Len(probes) <= MaxSubQueries + 1
    BY <1>0, ConstantsOK
  <2>4. hits \in Seq(Hit) /\ answer \in Seq(Token)
    BY <1>0
  <2>5. served \subseteq Documents /\ changes \in 0..MaxChanges /\ retries \in 0..MaxRetries
    BY ConstantsOK
  <2>6. pc \in Steps /\ outcome \in {"none", "answered", "abstained"} /\ pc # "adapt"
    BY DEF Steps
  <2> HIDE DEF Init
  <2> QED
    BY <2>1, <2>2, <2>3, <2>4, <2>5, <2>6 DEF Channels
<1>2. Merged
  BY <1>0, ConstantsOK DEF Merged, NoRepeat, Apart
<1>3. InBatches
  BY <1>0 DEF InBatches
<1>4. Aligned
  <2>1. reranked \in Seq(Chunks) /\ Len(reranked) <= RerankTopK /\ scores \in Seq(Nat)
    BY <1>0, ConstantsOK
  <2>2. scores = <<>> /\ ~\E i \in 1..Len(scores) : TRUE
    BY <1>0
  <2> HIDE DEF Init
  <2> QED
    BY <2>1, <2>2 DEF Aligned
<1>5. Decided
  BY DEF Decided
<1> QED
  BY <1>1, <1>2, <1>3, <1>4, <1>5 DEF TurnInv

LEMMA DocumentChangesStep ==
  TurnInv /\ (\E d \in Documents : DocumentChanges(d)) => TurnInv'
<1> SUFFICES ASSUME TurnInv, NEW d \in Documents, DocumentChanges(d) PROVE TurnInv'
  OBVIOUS
<1> USE DEF DocumentChanges, searching, ranking, writing
<1>1. Channels'
  <2>1. served' \subseteq Documents
    BY DEF TurnInv, Channels
  <2>2. changes' \in 0..MaxChanges
    BY ConstantsOK DEF TurnInv, Channels
  <2> QED
    BY <2>1, <2>2 DEF TurnInv, Channels
<1>2. Merged'
  BY MergedKept DEF TurnInv
<1>3. InBatches'
  BY BatchesKept DEF TurnInv
<1>4. Aligned'
  BY AlignedKept DEF TurnInv
<1>5. Decided'
  BY DEF TurnInv, Decided
<1> QED
  BY <1>1, <1>2, <1>3, <1>4, <1>5 DEF TurnInv

-----------------------------------------------------------------------------
(* route                                                                   *)

LEMMA ClassifyStep == TurnInv /\ Classify => TurnInv'
<1> SUFFICES ASSUME TurnInv, Classify PROVE TurnInv'
  OBVIOUS
<1> USE DEF Classify, world, ranking, writing
<1>1. Channels'
  <2>1. PICK answered \in BOOLEAN, reply \in Replies :
           decision' = ClassifyQuery(Query, answered, reply.class, reply.raw)
    OBVIOUS
  <2>2. Len(reply.raw) \in Nat
    BY TurnAssumption
  <2>3. IsList(CleanProbes(reply.raw))
    BY <2>2, CleanProbesOK
  <2>4. IsList(<<>>)
    BY EmptySeq DEF IsList
  <2>5. IsList(decision'.probes)
    <3>1. decision'.probes \in {<<>>, CleanProbes(reply.raw)}
      BY <2>1 DEF ClassifyQuery, ParseDecision, Fallback
    <3> QED
      BY <2>3, <2>4, <3>1
  <2>6. IsList(subs)'
    BY <2>5 DEF IsList
  <2> QED
    BY <2>6 DEF TurnInv, Channels
<1>2. Merged'
  BY MergedKept DEF TurnInv
<1>3. InBatches'
  BY BatchesKept DEF TurnInv
<1>4. Aligned'
  BY AlignedKept DEF TurnInv
<1>5. Decided'
  BY UndecidedKept DEF TurnInv
<1> QED
  BY <1>1, <1>2, <1>3, <1>4, <1>5 DEF TurnInv

LEMMA PrefetchStep == TurnInv /\ PrefetchQueryArm => TurnInv'
<1> SUFFICES ASSUME TurnInv, PrefetchQueryArm PROVE TurnInv'
  OBVIOUS
<1> USE DEF PrefetchQueryArm, world, ranking, writing
<1>1. Channels'
  <2>1. slot' \in Hit
    <3>1. CASE \E list \in ArmLists[Accessible] : slot' = Done(list)
      <4>1. PICK list \in ArmLists[Accessible] : slot' = Done(list)
        BY <3>1
      <4> QED
        BY <4>1, ArmListsOK, HitsOK
    <3> QED
      BY <3>1, HitsOK
  <2> QED
    BY <2>1 DEF TurnInv, Channels
<1>2. Merged'
  BY MergedKept DEF TurnInv
<1>3. InBatches'
  BY BatchesKept DEF TurnInv
<1>4. Aligned'
  BY AlignedKept DEF TurnInv
<1>5. Decided'
  BY UndecidedKept DEF TurnInv
<1> QED
  BY <1>1, <1>2, <1>3, <1>4, <1>5 DEF TurnInv

LEMMA RoutedStep == TurnInv /\ Routed => TurnInv'
<1> SUFFICES ASSUME TurnInv, Routed PROVE TurnInv'
  OBVIOUS
<1> USE DEF Routed, world, searching, ranking, writing
<1>1. Channels'
  BY DEF TurnInv, Channels, Steps
<1>2. Merged'
  BY MergedKept DEF TurnInv
<1>3. InBatches'
  BY BatchesKept DEF TurnInv
<1>4. Aligned'
  BY AlignedKept DEF TurnInv
<1>5. Decided'
  BY UndecidedKept DEF TurnInv
<1> QED
  BY <1>1, <1>2, <1>3, <1>4, <1>5 DEF TurnInv

-----------------------------------------------------------------------------
(* retrieve                                                                *)

\* A search asks for each probe once; only the question's may be answered already.
LEMMA SearchesOK ==
  ASSUME NEW asking, IsList(asking), NEW taken \in Hit
  PROVE  SearchesOf(asking, taken) \in Seq(Hit)
<1> DEFINE At(i) == IF i = 1 /\ taken.state = "done" THEN taken ELSE Pending
<1>1. Len(asking) \in Nat /\ DOMAIN asking = 1..Len(asking)
  BY LenProperties DEF IsList
<1>2. SearchesOf(asking, taken) = [i \in 1..Len(asking) |-> At(i)]
  BY <1>1 DEF SearchesOf
<1>3. \A i \in 1..Len(asking) : At(i) \in Hit
  BY HitsOK
<1> HIDE DEF At
<1> QED
  BY <1>1, <1>2, <1>3

LEMMA StartSearchStep == TurnInv /\ StartSearch => TurnInv'
<1> SUFFICES ASSUME TurnInv, StartSearch PROVE TurnInv'
  OBVIOUS
<1> USE DEF StartSearch, world, ranking, writing
<1>1. Channels'
  <2>1. IsList(probes)' /\ Len(probes') \in 1..(MaxSubQueries + 1)
    <3>1. IsList(subs) /\ probes' = BuildProbes(Query, subs)
      BY DEF TurnInv, Channels
    <3>2. IsList(probes') /\ Len(probes') \in 1..(MaxSubQueries + 1)
      BY <3>1, BuildProbesOK
    <3> QED
      BY <3>2 DEF IsList
  <2>2. slot' \in Hit
    BY HitsOK DEF AfterTake
  <2>3. hits' \in Seq(Hit)
    <3>1. slot \in Hit /\ hits \in Seq(Hit)
      BY DEF TurnInv, Channels
    <3>2. SearchesOf(probes', slot) \in Seq(Hit)
      BY <2>1, <3>1, SearchesOK DEF IsList
    <3> QED
      BY <3>1, <3>2
  <2>4. pc' \in Steps /\ pc' # "adapt"
    BY DEF Steps
  <2>5. Len(probes') <= MaxSubQueries + 1
    BY <2>1, ConstantsOK
  <2>6. IsList(subs)'
    BY DEF TurnInv, Channels, IsList
  <2> QED
    BY <2>2, <2>3, <2>4, <2>5, <2>6 DEF TurnInv, Channels
<1>2. Merged'
  BY MergedKept DEF TurnInv
<1>3. InBatches'
  BY BatchesKept DEF TurnInv
<1>4. Aligned'
  BY AlignedKept DEF TurnInv
<1>5. Decided'
  BY UndecidedKept DEF TurnInv
<1> QED
  BY <1>1, <1>2, <1>3, <1>4, <1>5 DEF TurnInv

LEMMA SearchProbeStep ==
  TurnInv /\ (\E i \in DOMAIN hits : SearchProbe(i)) => TurnInv'
<1> SUFFICES ASSUME TurnInv, NEW i \in DOMAIN hits, SearchProbe(i) PROVE TurnInv'
  OBVIOUS
<1> USE DEF SearchProbe, world, ranking, writing
<1>1. Channels'
  <2>1. hits \in Seq(Hit)
    BY DEF TurnInv, Channels
  <2>2. \E h \in Hit : hits' = [hits EXCEPT ![i] = h]
    <3>1. CASE \E list \in ArmLists[Accessible] : hits' = [hits EXCEPT ![i] = Done(list)]
      <4>1. PICK list \in ArmLists[Accessible] : hits' = [hits EXCEPT ![i] = Done(list)]
        BY <3>1
      <4> QED
        BY <4>1, ArmListsOK, HitsOK
    <3> QED
      BY <3>1, HitsOK
  <2>3. i \in 1..Len(hits)
    BY <2>1, LenProperties
  <2>4. hits' \in Seq(Hit)
    BY <2>1, <2>2, <2>3, ExceptSeq
  <2> QED
    BY <2>4 DEF TurnInv, Channels
<1>2. Merged'
  BY MergedKept DEF TurnInv
<1>3. InBatches'
  BY BatchesKept DEF TurnInv
<1>4. Aligned'
  BY AlignedKept DEF TurnInv
<1>5. Decided'
  BY UndecidedKept DEF TurnInv
<1> QED
  BY <1>1, <1>2, <1>3, <1>4, <1>5 DEF TurnInv

LEMMA MergeHitsStep == TurnInv /\ MergeHits => TurnInv'
<1> SUFFICES ASSUME TurnInv, MergeHits PROVE TurnInv'
  OBVIOUS
<1> USE DEF MergeHits, world, writing
<1>0. pc = "searching" /\ pc' \in {"rerank", "failed"}
  OBVIOUS
<1>1. Channels'
  <2>1. hits' \in Seq(Hit)
    BY EmptySeq
  <2> QED
    BY <1>0, <2>1 DEF TurnInv, Channels, Steps
<1>2. Merged'
  <2> DEFINE lists == [i \in DOMAIN hits |-> hits[i].list]
  <2>1. lists \in Seq(Seq(Chunks))
    <3>1. hits \in Seq(Hit)
      BY DEF TurnInv, Channels
    <3>2. DOMAIN hits = 1..Len(hits) /\ Len(hits) \in Nat
      BY <3>1, LenProperties
    <3>3. \A i \in 1..Len(hits) : hits[i].list \in Seq(Chunks)
      <4>1. \A i \in 1..Len(hits) : hits[i] \in Hit
        BY <3>1, ElementOfSeq
      <4> QED
        BY <4>1 DEF Hit
    <3> QED
      BY <3>2, <3>3
  <2>2. retrieved' = MergeProbes(lists) \/ retrieved' = retrieved
    OBVIOUS
  <2> HIDE DEF lists, MergeHits
  <2>3. CASE retrieved' = MergeProbes(lists)
    <3>1. /\ retrieved' \in Seq(Chunks) /\ Len(retrieved') <= MergedTopK
          /\ NoRepeat(retrieved') /\ Apart(retrieved')
      BY <2>1, <2>3, MergeProbesOK
    <3> QED
      BY <3>1 DEF Merged, NoRepeat, Apart
  <2> QED
    BY <2>2, <2>3, MergedKept DEF TurnInv
<1>3. InBatches'
  BY <1>0, BatchesKept DEF TurnInv
<1>4. Aligned'
  BY <1>0, AlignedKept DEF TurnInv
<1>5. Decided'
  BY <1>0, UndecidedKept DEF TurnInv
<1> QED
  BY <1>1, <1>2, <1>3, <1>4, <1>5 DEF TurnInv

-----------------------------------------------------------------------------
(* rerank                                                                  *)

LEMMA RankNothingStep == TurnInv /\ RankNothing => TurnInv'
<1> SUFFICES ASSUME TurnInv, RankNothing PROVE TurnInv'
  OBVIOUS
<1> USE DEF RankNothing, world, searching, writing
<1>1. Channels'
  BY DEF TurnInv, Channels, Steps
<1>2. Merged'
  BY MergedKept DEF TurnInv
<1>3. InBatches'
  BY DEF TurnInv, InBatches
<1>4. Aligned'
  <2>1. retrieved \in Seq(Chunks)
    BY DEF TurnInv, Merged
  <2>2. FetchChunks(retrieved) \in Seq(Chunks)
    BY <2>1, FetchOK
  <2>3. reranked' \in Seq(Chunks) /\ Len(reranked') <= RerankTopK
    BY <2>2, TopOK, ConstantsOK
  <2>4. scores' = <<>> /\ scores' \in Seq(Nat) /\ ~\E i \in 1..Len(scores') : TRUE
    BY EmptySeq
  <2> HIDE DEF RankNothing
  <2> QED
    BY <2>3, <2>4 DEF Aligned
<1>5. Decided'
  BY UndecidedKept DEF TurnInv
<1> QED
  BY <1>1, <1>2, <1>3, <1>4, <1>5 DEF TurnInv

LEMMA BatchCountOK ==
  ASSUME NEW list \in Seq(Chunks)
  PROVE  BatchCount(list) \in Nat
<1>1. BatchSize \in Nat \ {0} /\ Len(list) \in Nat
  BY GroundingAssumption, LenProperties
<1>2. Len(list) + BatchSize - 1 \in Nat
  BY <1>1
<1> QED
  BY <1>1, <1>2, ShareIsNat DEF BatchCount

LEMMA StartRankingStep == TurnInv /\ StartRanking => TurnInv'
<1> SUFFICES ASSUME TurnInv, StartRanking PROVE TurnInv'
  OBVIOUS
<1> USE DEF StartRanking, world, searching, writing
<1>1. Channels'
  BY DEF TurnInv, Channels, Steps
<1>2. Merged'
  BY MergedKept DEF TurnInv
<1>3. InBatches'
  <2>1. retrieved \in Seq(Chunks) /\ NoRepeat(retrieved)
    BY DEF TurnInv, Merged
  <2>2. candidates' \in Seq(Chunks) /\ NoRepeat(candidates')
    BY <2>1, FetchOK
  <2>3. batches' = [i \in 1..BatchCount(candidates') |-> <<NoScore>>]
    OBVIOUS
  <2>4. DOMAIN batches' = 1..BatchCount(candidates') /\ \A i \in DOMAIN batches' : batches'[i] = <<NoScore>>
    BY <2>3
  <2>5. judged' = <<>> /\ pc' = "ranking"
    OBVIOUS
  <2>6. ~\E c \in DOMAIN judged' : TRUE
    BY <2>5
  <2> HIDE DEF StartRanking
  <2> QED
    BY <2>2, <2>4, <2>5, <2>6 DEF InBatches, Unscored, NoRepeat
<1>4. Aligned'
  BY DEF TurnInv, Aligned
<1>5. Decided'
  BY UndecidedKept DEF TurnInv
<1> QED
  BY <1>1, <1>2, <1>3, <1>4, <1>5 DEF TurnInv

LEMMA BatchFailsStep ==
  TurnInv /\ (\E i \in DOMAIN batches : BatchFails(i)) => TurnInv'
<1> SUFFICES ASSUME TurnInv, NEW i \in DOMAIN batches, BatchFails(i) PROVE TurnInv'
  OBVIOUS
<1> USE DEF BatchFails, world, searching, writing
<1>1. Channels'
  BY DEF TurnInv, Channels
<1>2. Merged'
  BY MergedKept DEF TurnInv
<1>3. InBatches'
  <2>1. /\ pc = "ranking" /\ pc' = "ranking" /\ candidates' = candidates /\ judged' = judged
        /\ batches' = [batches EXCEPT ![i] = <<>>] /\ Unscored(i)
    OBVIOUS
  <2>2. /\ candidates \in Seq(Chunks) /\ NoRepeat(candidates)
        /\ DOMAIN batches = 1..BatchCount(candidates)
        /\ \A k \in DOMAIN batches : Unscored(k) \/ BatchFits(k)
        /\ \A c \in DOMAIN judged : \E k \in DOMAIN batches :
              ~Unscored(k) /\ \E p \in DOMAIN batches[k] : c = Batch(candidates, k)[p]
    BY <2>1 DEF TurnInv, InBatches
  <2> HIDE DEF BatchFails
  <2>3. /\ DOMAIN batches' = DOMAIN batches
        /\ \A k \in DOMAIN batches : k # i => batches'[k] = batches[k]
        /\ batches'[i] = <<>>
    BY <2>1
  <2>4. ASSUME NEW k \in DOMAIN batches' PROVE Unscored(k)' \/ BatchFits(k)'
    <3>1. CASE k = i
      <4>1. DOMAIN batches'[k] = {}
        BY <2>3, <3>1
      <4> QED
        BY <4>1 DEF BatchFits
    <3>2. CASE k # i
      <4>1. k \in DOMAIN batches /\ batches'[k] = batches[k]
        BY <2>3, <3>2
      <4>2. Unscored(k) => Unscored(k)'
        BY <4>1 DEF Unscored
      <4>3. BatchFits(k) => BatchFits(k)'
        BY <2>1, <4>1 DEF BatchFits
      <4> QED
        BY <2>2, <4>1, <4>2, <4>3
    <3> QED
      BY <3>1, <3>2
  <2>5. ASSUME NEW c \in DOMAIN judged'
        PROVE  \E k \in DOMAIN batches' :
                  ~Unscored(k)' /\ \E p \in DOMAIN batches'[k] : c = Batch(candidates', k)[p]
    <3>1. PICK k \in DOMAIN batches :
             ~Unscored(k) /\ \E p \in DOMAIN batches[k] : c = Batch(candidates, k)[p]
      BY <2>1, <2>2, <2>5
    <3>2. k # i /\ batches'[k] = batches[k]
      BY <2>1, <2>3, <3>1
    <3>3. ~Unscored(k)'
      BY <3>1, <3>2 DEF Unscored
    <3> QED
      BY <2>1, <2>3, <3>1, <3>2, <3>3
  <2>6. NoRepeat(candidates)' /\ DOMAIN batches' = 1..BatchCount(candidates')
    BY <2>1, <2>2, <2>3 DEF NoRepeat
  <2>7. candidates' \in Seq(Chunks) /\ pc' = "ranking"
    BY <2>1, <2>2
  <2> QED
    BY <2>4, <2>5, <2>6, <2>7 DEF InBatches
<1>4. Aligned'
  BY AlignedKept DEF TurnInv
<1>5. Decided'
  BY UndecidedKept DEF TurnInv
<1> QED
  BY <1>1, <1>2, <1>3, <1>4, <1>5 DEF TurnInv

LEMMA ScoreBatchStep ==
  TurnInv /\ (\E i \in DOMAIN batches : ScoreBatch(i)) => TurnInv'
<1> SUFFICES ASSUME TurnInv, NEW i \in DOMAIN batches, ScoreBatch(i) PROVE TurnInv'
  OBVIOUS
<1> USE DEF ScoreBatch, world, searching, writing
<1>1. Channels'
  BY DEF TurnInv, Channels
<1>2. Merged'
  BY MergedKept DEF TurnInv
<1>3. InBatches'
  <2> DEFINE B(k) == Batch(candidates, k)
  <2>1. pc = "ranking" /\ pc' = "ranking" /\ candidates' = candidates /\ Unscored(i)
    OBVIOUS
  <2>2. /\ candidates \in Seq(Chunks) /\ NoRepeat(candidates)
        /\ DOMAIN batches = 1..BatchCount(candidates)
        /\ \A k \in DOMAIN batches : Unscored(k) \/ BatchFits(k)
        /\ \A c \in DOMAIN judged : \E k \in DOMAIN batches :
              ~Unscored(k) /\ \E p \in DOMAIN batches[k] : c = B(k)[p]
    BY <2>1 DEF TurnInv, InBatches
  <2>3. PICK reply \in BatchReplies(Len(B(i))) :
           /\ batches' = [batches EXCEPT ![i] = reply]
           /\ judged' = [c \in DOMAIN judged \cup {B(i)[p] : p \in DOMAIN reply} |->
                            IF c \in DOMAIN judged THEN judged[c] ELSE reply[RankIn(B(i), c)]]
    OBVIOUS
  <2> HIDE DEF ScoreBatch
  <2>4. \A k \in DOMAIN batches : k \in Nat \ {0}
    BY <2>2, BatchCountOK
  <2>5. \A k \in DOMAIN batches : B(k) \in Seq(Chunks) /\ Len(B(k)) \in Nat /\ Len(B(k)) <= BatchSize
    BY <2>2, <2>4, BatchOK, LenProperties
  <2>6. DOMAIN reply \subseteq 1..Len(B(i)) /\ \A p \in DOMAIN reply : reply[p] \in Nat
    BY <2>5, RepliesOK
  <2>7. /\ DOMAIN batches' = DOMAIN batches
        /\ \A k \in DOMAIN batches : k # i => batches'[k] = batches[k]
        /\ batches'[i] = reply
    BY <2>3
  <2>8. /\ DOMAIN judged \subseteq DOMAIN judged'
        /\ \A c \in DOMAIN judged : judged'[c] = judged[c]
        /\ \A c \in DOMAIN judged' : c \in DOMAIN judged \/ \E p \in DOMAIN reply : c = B(i)[p]
        /\ \A p \in DOMAIN reply : B(i)[p] \in DOMAIN judged'
    BY <2>3
  <2>9. ASSUME NEW k \in DOMAIN batches, NEW p \in 1..Len(B(k)),
               NEW m \in DOMAIN batches, NEW q \in 1..Len(B(m)), B(k)[p] = B(m)[q]
        PROVE  k = m /\ p = q
    <3>1. /\ PlaceOf(k, p) \in 1..Len(candidates) /\ B(k)[p] = candidates[PlaceOf(k, p)]
          /\ PlaceOf(m, q) \in 1..Len(candidates) /\ B(m)[q] = candidates[PlaceOf(m, q)]
      BY <2>2, <2>4, BatchOK DEF PlaceOf
    <3>2. DOMAIN candidates = 1..Len(candidates)
      BY <2>2, LenProperties
    <3>3. PlaceOf(k, p) = PlaceOf(m, q)
      BY <2>2, <2>9, <3>1, <3>2 DEF NoRepeat
    <3>4. p \in 1..BatchSize /\ q \in 1..BatchSize /\ k \in Nat /\ m \in Nat
      <4>1. BatchSize \in Nat
        BY GroundingAssumption
      <4> QED
        BY <2>4, <2>5, <4>1
    <3>5. (k - 1) * BatchSize + p = (m - 1) * BatchSize + q
      BY <3>3 DEF PlaceOf
    <3> QED
      BY <3>4, <3>5, OnePlace
  <2>10. \A p \in DOMAIN reply : judged'[B(i)[p]] = reply[p]
    <3>1. SUFFICES ASSUME NEW p \in DOMAIN reply PROVE judged'[B(i)[p]] = reply[p]
      OBVIOUS
    <3>2. p \in 1..Len(B(i))
      BY <2>6
    <3>3. B(i)[p] \notin DOMAIN judged
      <4>1. SUFFICES ASSUME B(i)[p] \in DOMAIN judged PROVE FALSE
        OBVIOUS
      <4>2. PICK m \in DOMAIN batches :
               ~Unscored(m) /\ \E q \in DOMAIN batches[m] : B(i)[p] = B(m)[q]
        BY <2>2, <4>1
      <4>3. PICK q \in DOMAIN batches[m] : B(i)[p] = B(m)[q]
        BY <4>2
      <4>4. q \in 1..Len(B(m))
        BY <2>2, <4>2, <4>3 DEF BatchFits
      <4>5. i = m
        BY <2>9, <3>2, <4>3, <4>4
      <4> QED
        BY <2>1, <4>2, <4>5
    <3>4. judged'[B(i)[p]] = reply[RankIn(B(i), B(i)[p])]
      BY <2>3, <2>8, <3>1, <3>3
    <3>5. RankIn(B(i), B(i)[p]) \in 1..Len(B(i)) /\ B(i)[RankIn(B(i), B(i)[p])] = B(i)[p]
      BY <2>5, <3>2, RankInOK
    <3>6. RankIn(B(i), B(i)[p]) = p
      BY <2>9, <3>2, <3>5
    <3> QED
      BY <3>4, <3>6
  <2>11. BatchFits(i)'
    BY <2>1, <2>6, <2>7, <2>8, <2>10 DEF BatchFits
  <2>12. ASSUME NEW k \in DOMAIN batches' PROVE Unscored(k)' \/ BatchFits(k)'
    <3>1. CASE k # i
      <4>1. k \in DOMAIN batches /\ batches'[k] = batches[k]
        BY <2>7, <3>1
      <4>2. Unscored(k) => Unscored(k)'
        BY <4>1 DEF Unscored
      <4>3. BatchFits(k) => BatchFits(k)'
        BY <2>1, <2>8, <4>1 DEF BatchFits
      <4> QED
        BY <2>2, <4>1, <4>2, <4>3
    <3> QED
      BY <2>11, <3>1
  <2>13. ~Unscored(i)'
    <3>1. SUFFICES ASSUME reply = <<NoScore>> PROVE FALSE
      BY <2>7 DEF Unscored
    <3>2. 1 \in DOMAIN reply /\ reply[1] = NoScore
      BY <3>1
    <3> QED
      BY <2>6, <3>2 DEF NoScore
  <2>14. ASSUME NEW c \in DOMAIN judged'
         PROVE  \E k \in DOMAIN batches' :
                   ~Unscored(k)' /\ \E p \in DOMAIN batches'[k] : c = Batch(candidates', k)[p]
    <3>1. CASE c \in DOMAIN judged
      <4>1. PICK k \in DOMAIN batches :
               ~Unscored(k) /\ \E p \in DOMAIN batches[k] : c = B(k)[p]
        BY <2>2, <3>1
      <4>2. k # i /\ batches'[k] = batches[k]
        BY <2>1, <2>7, <4>1
      <4>3. ~Unscored(k)'
        BY <4>1, <4>2 DEF Unscored
      <4> QED
        BY <2>1, <2>7, <4>1, <4>2, <4>3
    <3>2. CASE \E p \in DOMAIN reply : c = B(i)[p]
      BY <2>1, <2>7, <2>13, <3>2
    <3> QED
      BY <2>8, <3>1, <3>2
  <2>15. NoRepeat(candidates)' /\ DOMAIN batches' = 1..BatchCount(candidates')
    BY <2>1, <2>2, <2>7 DEF NoRepeat
  <2>16. candidates' \in Seq(Chunks) /\ pc' = "ranking"
    BY <2>1, <2>2
  <2> QED
    BY <2>12, <2>14, <2>15, <2>16 DEF InBatches
<1>4. Aligned'
  BY DEF TurnInv, Aligned
<1>5. Decided'
  BY UndecidedKept DEF TurnInv
<1> QED
  BY <1>1, <1>2, <1>3, <1>4, <1>5 DEF TurnInv

LEMMA RankStep == TurnInv /\ Rank => TurnInv'
<1> SUFFICES ASSUME TurnInv, Rank PROVE TurnInv'
  OBVIOUS
<1> USE DEF Rank, world, searching, writing
<1>1. Channels'
  BY DEF TurnInv, Channels, Steps
<1>2. Merged'
  BY MergedKept DEF TurnInv
<1>3. InBatches'
  BY EmptySeq DEF InBatches
<1>4. Aligned'
  <2> DEFINE scored == Scored(batches)
             ranked == RankPassages(candidates, scored)
  <2>1. /\ pc = "ranking" /\ judged' = judged /\ \A k \in DOMAIN batches : ~Unscored(k)
        /\ reranked' = ranked.ids /\ scores' = ranked.scores
    OBVIOUS
  <2> HIDE DEF Rank
  <2>2. /\ candidates \in Seq(Chunks) /\ DOMAIN batches = 1..BatchCount(candidates)
        /\ \A k \in DOMAIN batches : BatchFits(k)
    BY <2>1 DEF TurnInv, InBatches
  <2>3. \A k \in DOMAIN batches : DOMAIN batches[k] \subseteq 1..Len(Batch(candidates, k))
    BY <2>2 DEF BatchFits
  <2>4. \A p \in DOMAIN scored : p \in 1..Len(candidates) /\ FromBatch(candidates, batches, p)
    BY <2>2, <2>3, ScoredOK
  <2>5. \A p \in DOMAIN scored :
           /\ scored[p] \in Nat /\ candidates[p] \in DOMAIN judged
           /\ judged[candidates[p]] = scored[p]
    <3>1. SUFFICES ASSUME NEW p \in DOMAIN scored
                   PROVE  /\ scored[p] \in Nat /\ candidates[p] \in DOMAIN judged
                          /\ judged[candidates[p]] = scored[p]
      OBVIOUS
    <3>2. PICK k \in DOMAIN batches : \E n \in DOMAIN batches[k] :
             scored[p] = batches[k][n] /\ candidates[p] = Batch(candidates, k)[n]
      BY <2>4 DEF FromBatch
    <3>3. PICK n \in DOMAIN batches[k] :
             scored[p] = batches[k][n] /\ candidates[p] = Batch(candidates, k)[n]
      BY <3>2
    <3>4. BatchFits(k)
      BY <2>2
    <3> HIDE DEF scored
    <3> QED
      BY <3>3, <3>4 DEF BatchFits
  <2> HIDE DEF scored
  <2>6. /\ ranked.ids \in Seq(Chunks) /\ Len(ranked.ids) <= RerankTopK
        /\ ranked.scores \in Seq(Nat)
        /\ ranked.scores # <<>> => Len(ranked.scores) = Len(ranked.ids)
        /\ \A i \in 1..Len(ranked.scores) : \E p \in DOMAIN scored :
              ranked.ids[i] = candidates[p] /\ ranked.scores[i] = scored[p]
    BY <2>2, <2>5, RankPassagesOK
  <2> HIDE DEF ranked
  <2>7. \A i \in 1..Len(ranked.scores) :
           ranked.ids[i] \in DOMAIN judged /\ ranked.scores[i] = judged[ranked.ids[i]]
    BY <2>5, <2>6
  <2> QED
    BY <2>1, <2>6, <2>7 DEF Aligned
<1>5. Decided'
  BY UndecidedKept DEF TurnInv
<1> QED
  BY <1>1, <1>2, <1>3, <1>4, <1>5 DEF TurnInv

-----------------------------------------------------------------------------
(* generate, gate, adapt, persist                                          *)

LEMMA GenerateNothingStep == TurnInv /\ GenerateNothing => TurnInv'
<1> SUFFICES ASSUME TurnInv, GenerateNothing PROVE TurnInv'
  OBVIOUS
<1> USE DEF GenerateNothing, world, searching, ranking
<1>1. Channels'
  BY EmptySeq DEF TurnInv, Channels, Steps
<1>2. Merged'
  BY MergedKept DEF TurnInv
<1>3. InBatches'
  BY BatchesKept DEF TurnInv
<1>4. Aligned'
  BY AlignedKept DEF TurnInv
<1>5. Decided'
  BY DEF TurnInv, Decided
<1> QED
  BY <1>1, <1>2, <1>3, <1>4, <1>5 DEF TurnInv

LEMMA GenerateAnswerStep == TurnInv /\ GenerateAnswer => TurnInv'
<1> SUFFICES ASSUME TurnInv, GenerateAnswer PROVE TurnInv'
  OBVIOUS
<1> USE DEF GenerateAnswer, world, searching
<1>1. Channels'
  <2>1. answer' \in Answers
    OBVIOUS
  <2>2. answer' \in Seq(Token)
    BY <2>1, TurnAssumption DEF Token
  <2> QED
    BY <2>2 DEF TurnInv, Channels, Steps
<1>2. Merged'
  BY MergedKept DEF TurnInv
<1>3. InBatches'
  BY BatchesKept DEF TurnInv
<1>4. Aligned'
  <2> DEFINE surviving == FetchChunks(reranked)
             kept == RealignScores(reranked, surviving, scores)
  <2>1. /\ pc = "generate" /\ pc' = "gate" /\ judged' = judged /\ reranked' = surviving
        /\ scores' = IF surviving = reranked THEN scores ELSE kept
    BY DEF ScoresLeft
  <2>2. /\ reranked \in Seq(Chunks) /\ Len(reranked) <= RerankTopK /\ scores \in Seq(Nat)
        /\ scores # <<>> => Len(scores) = Len(reranked)
        /\ \A i \in 1..Len(scores) :
              reranked[i] \in DOMAIN judged /\ scores[i] = judged[reranked[i]]
    BY <2>1 DEF TurnInv, Aligned
  <2> HIDE DEF GenerateAnswer
  <2>3. /\ surviving \in Seq(Chunks) /\ Len(surviving) <= Len(reranked)
        /\ \A i \in 1..Len(surviving) : \E j \in 1..Len(reranked) : reranked[j] = surviving[i]
    BY <2>2, FetchOK
  <2>4. Len(surviving) <= RerankTopK
    BY <2>2, <2>3, ConstantsOK, LenProperties
  <2>5. CASE surviving = reranked
    BY <2>1, <2>2, <2>5 DEF Aligned
  <2>6. CASE surviving # reranked
    <3> HIDE DEF surviving
    <3>1. /\ kept \in Seq(Nat)
          /\ kept # <<>> => Len(kept) = Len(surviving)
          /\ \A i \in 1..Len(kept) : \E j \in 1..Len(scores) :
                surviving[i] = reranked[j] /\ kept[i] = scores[j]
      BY <2>2, <2>3, RealignOK
    <3> HIDE DEF kept
    <3>2. \A i \in 1..Len(kept) : surviving[i] \in DOMAIN judged /\ kept[i] = judged[surviving[i]]
      BY <2>2, <3>1
    <3>3. scores' = kept /\ reranked' = surviving /\ judged' = judged
      BY <2>1, <2>6
    <3> QED
      BY <2>3, <2>4, <3>1, <3>2, <3>3 DEF Aligned
  <2> QED
    BY <2>5, <2>6
<1>5. Decided'
  BY UndecidedKept DEF TurnInv
<1> QED
  BY <1>1, <1>2, <1>3, <1>4, <1>5 DEF TurnInv

LEMMA GenerationFailsStep == TurnInv /\ GenerationFails => TurnInv'
<1> SUFFICES ASSUME TurnInv, GenerationFails PROVE TurnInv'
  OBVIOUS
<1> USE DEF GenerationFails, world, searching, ranking, writing
<1>1. Channels'
  BY DEF TurnInv, Channels, Steps
<1>2. Merged'
  BY MergedKept DEF TurnInv
<1>3. InBatches'
  BY BatchesKept DEF TurnInv
<1>4. Aligned'
  BY AlignedKept DEF TurnInv
<1>5. Decided'
  BY UndecidedKept DEF TurnInv
<1> QED
  BY <1>1, <1>2, <1>3, <1>4, <1>5 DEF TurnInv

\* An answer is served when the passages it is stored with support it.
LEMMA GateStep == TurnInv /\ Gate => TurnInv'
<1> SUFFICES ASSUME TurnInv, Gate PROVE TurnInv'
  OBVIOUS
<1> USE DEF Gate, world, searching, ranking
<1>0. pc = "gate" /\ pc' \in {"persist", "adapt"}
  OBVIOUS
<1>1. Channels'
  <2>1. pc' = "adapt" => retries' < MaxRetries
    OBVIOUS
  <2>2. outcome' \in {"none", "answered", "abstained"}
    BY DEF TurnInv, Channels
  <2> QED
    BY <1>0, <2>1, <2>2 DEF TurnInv, Channels, Steps
<1>2. Merged'
  BY MergedKept DEF TurnInv
<1>3. InBatches'
  BY <1>0, BatchesKept DEF TurnInv
<1>4. Aligned'
  BY <1>0, AlignedKept DEF TurnInv
<1>5. Decided'
  <2> DEFINE segments == SplitSegments(answer, reranked)
  <2>1. segments' = segments /\ citations' = citations
    OBVIOUS
  <2>2. citations = <<>> /\ outcome = "none"
    BY <1>0 DEF TurnInv, Decided
  <2>3. \/ Passes(segments) /\ outcome' = "answered" /\ pc' = "persist"
        \/ pc' = "adapt" /\ outcome' = outcome
        \/ outcome' = "abstained" /\ pc' = "persist"
    OBVIOUS
  <2>4. outcome' = "answered" => Grounded(segments)
    BY <2>2, <2>3 DEF Passes
  <2>5. answer' = answer /\ reranked' = reranked
    OBVIOUS
  <2>6. pc' # "done" /\ (outcome' # "none" <=> pc' = "persist")
    BY <2>2, <2>3
  <2> HIDE DEF Gate
  <2>7. Grounded(SplitSegments(answer, reranked))' <=> Grounded(SplitSegments(answer, reranked))
    BY <2>5
  <2> QED
    BY <2>1, <2>2, <2>4, <2>6, <2>7 DEF Decided
<1> QED
  BY <1>1, <1>2, <1>3, <1>4, <1>5 DEF TurnInv

LEMMA AdaptStep == TurnInv /\ Adapt => TurnInv'
<1> SUFFICES ASSUME TurnInv, Adapt PROVE TurnInv'
  OBVIOUS
<1> USE DEF Adapt, world, ranking
<1>1. Channels'
  <2>1. retries' \in 0..MaxRetries
    BY ConstantsOK DEF TurnInv, Channels
  <2>2. IsList(subs)'
    <3>1. PICK T : subs \in Seq(T)
      BY DEF TurnInv, Channels, IsList
    <3>2. subs \in Seq(T \cup {Rewrite})
      BY <3>1, SeqMonotonic
    <3>3. subs' \in Seq(T \cup {Rewrite})
      BY <3>2, AppendProperties
    <3> QED
      BY <3>3 DEF IsList
  <2> QED
    BY <2>1, <2>2 DEF TurnInv, Channels, Steps
<1>2. Merged'
  BY MergedKept DEF TurnInv
<1>3. InBatches'
  BY BatchesKept DEF TurnInv
<1>4. Aligned'
  BY AlignedKept DEF TurnInv
<1>5. Decided'
  BY UndecidedKept DEF TurnInv
<1> QED
  BY <1>1, <1>2, <1>3, <1>4, <1>5 DEF TurnInv

\* The citations an answer is stored with: readable passages of its ranking, each with the score
\* it was judged, all of them or none.
LEMMA PersistCites ==
  ASSUME TurnInv, Persist
  PROVE  /\ \E n \in Nat : DOMAIN citations' = 1..n
         /\ \A i \in DOMAIN citations' :
               /\ citations'[i].chunk \in Accessible
               /\ scores = <<>> => citations'[i].score = NoScore
               /\ scores # <<>> => /\ citations'[i].chunk \in DOMAIN judged
                                   /\ citations'[i].score = judged[citations'[i].chunk]
                                   /\ citations'[i].score \in Nat
         /\ outcome # "answered" => citations' = <<>>
<1> DEFINE sources == CitableSources
           segments == SplitSegments(answer, sources)
           cited == CitedChunks(segments)
           read == ToSet(FetchChunks(Numbers(cited)))
           cs == BuildCitations(segments, sources, read, scores)
<1>1. citations' = cs
  BY DEF Persist
<1>2. /\ pc = "persist" /\ reranked \in Seq(Chunks) /\ scores \in Seq(Nat) /\ answer \in Seq(Token)
      /\ scores # <<>> => Len(scores) = Len(reranked)
      /\ \A i \in 1..Len(scores) :
            reranked[i] \in DOMAIN judged /\ scores[i] = judged[reranked[i]]
  BY DEF TurnInv, Aligned, Channels, Persist
<1>3. sources \in Seq(Chunks) /\ (outcome # "answered" => sources = <<>>)
      /\ (outcome = "answered" => sources = reranked)
  BY <1>2, EmptySeq DEF CitableSources
<1> HIDE DEF sources
<1>4. /\ segments \in Seq(Segment)
      /\ \A i \in 1..Len(segments) : segments[i].kind = "cite" => segments[i].n \in ToSet(sources)
  BY <1>2, <1>3, SegmentsOK
<1> HIDE DEF segments
<1>5. DOMAIN segments = 1..Len(segments) /\ IsFiniteSet(DOMAIN segments)
  BY <1>4, LenProperties, ListFinite
<1>6. ToSet(sources) = {sources[j] : j \in 1..Len(sources)} /\ ToSet(sources) \subseteq Chunks
      /\ IsFiniteSet(ToSet(sources))
  BY <1>3, ListFinite
<1>7. cited \subseteq ToSet(sources)
  BY <1>4, <1>5 DEF CitedChunks, Cites
<1>8. Numbers(cited) \in Seq(Chunks)
  <2> HIDE DEF cited
  <2>1. IsFiniteSet(cited) /\ cited \subseteq Chunks /\ cited \subseteq Nat
    BY <1>6, <1>7, FS_Subset, FusionAssumption
  <2>2. Numbers(cited) \in Seq(cited)
    BY <2>1, NumbersOK
  <2> QED
    BY <2>1, <2>2, SeqMonotonic
<1> HIDE DEF cited
<1>9. read \subseteq Accessible
  BY <1>8, FetchOK
<1> HIDE DEF read
<1>10. /\ \E n \in Nat : DOMAIN cs = 1..n /\ Len(cs) = n
       /\ (\A j \in 1..Len(segments) : segments[j].kind # "cite") => cs = <<>>
       /\ \A i \in DOMAIN cs : \E j \in 1..Len(segments) :
             /\ segments[j].kind = "cite" /\ segments[j].n \in read
             /\ cs[i].chunk = segments[j].n
             /\ cs[i].score =
                   IF Len(scores) = Len(sources) /\ scores # <<>> /\ segments[j].n \in ToSet(sources)
                   THEN scores[RankIn(sources, segments[j].n)] ELSE NoScore
  BY <1>4, CitationsOK
<1> HIDE DEF cs
<1>11. outcome # "answered" => cs = <<>>
  <2> SUFFICES ASSUME outcome # "answered" PROVE cs = <<>>
    OBVIOUS
  <2>1. Len(sources) = 0
    BY <1>3, EmptySeq
  <2>2. ToSet(sources) = {}
    BY <1>6, <2>1
  <2> QED
    BY <1>4, <1>10, <2>2
<1>12. ASSUME NEW i \in DOMAIN cs
       PROVE  /\ cs[i].chunk \in Accessible
              /\ scores = <<>> => cs[i].score = NoScore
              /\ scores # <<>> => /\ cs[i].chunk \in DOMAIN judged
                                  /\ cs[i].score = judged[cs[i].chunk]
                                  /\ cs[i].score \in Nat
  <2>1. PICK j \in 1..Len(segments) :
             /\ segments[j].kind = "cite" /\ segments[j].n \in read
             /\ cs[i].chunk = segments[j].n
             /\ cs[i].score =
                   IF Len(scores) = Len(sources) /\ scores # <<>> /\ segments[j].n \in ToSet(sources)
                   THEN scores[RankIn(sources, segments[j].n)] ELSE NoScore
    BY <1>10
  <2>2. cs[i].chunk \in ToSet(sources) /\ cs[i].chunk \in Accessible
    BY <1>4, <1>9, <2>1
  <2>3. scores = <<>> => cs[i].score = NoScore
    BY <2>1
  <2>4. ASSUME scores # <<>>
        PROVE  /\ cs[i].chunk \in DOMAIN judged /\ cs[i].score = judged[cs[i].chunk]
               /\ cs[i].score \in Nat
    <3> DEFINE r == RankIn(sources, cs[i].chunk)
    <3>1. sources = reranked
      <4>1. outcome = "answered"
        <5>1. ASSUME outcome # "answered" PROVE FALSE
          <6>1. ToSet(sources) = {}
            BY <1>3, <1>6, <5>1, EmptySeq
          <6> QED
            BY <2>2, <6>1
        <5> QED
          BY <5>1
      <4> QED
        BY <1>3, <4>1
    <3>2. Len(scores) = Len(sources)
      BY <1>2, <2>4, <3>1
    <3>3. cs[i].score = scores[r]
      BY <2>1, <2>2, <2>4, <3>2
    <3>4. r \in 1..Len(sources) /\ sources[r] = cs[i].chunk
      <4>1. Len(sources) \in Nat
        BY <1>3, LenProperties
      <4>2. PICK j2 \in 1..Len(sources) : sources[j2] = cs[i].chunk
        BY <1>6, <2>2
      <4> QED
        BY <4>1, <4>2, RankInOK
    <3> HIDE DEF r
    <3>5. scores[r] \in Nat /\ reranked[r] \in DOMAIN judged /\ scores[r] = judged[reranked[r]]
      BY <1>2, <3>2, <3>4, ElementOfSeq
    <3> QED
      BY <3>1, <3>3, <3>4, <3>5
  <2> QED
    BY <2>2, <2>3, <2>4
<1> QED
  BY <1>1, <1>10, <1>11, <1>12

LEMMA PersistStep == TurnInv /\ Persist => TurnInv'
<1> SUFFICES ASSUME TurnInv, Persist PROVE TurnInv'
  OBVIOUS
<1>0. /\ pc = "persist" /\ pc' = "done" /\ outcome' = outcome /\ answer' = answer
      /\ UNCHANGED <<world, searching, ranking, answer, retries, outcome, asked>>
  BY DEF Persist
<1>1. Channels'
  BY <1>0 DEF TurnInv, Channels, Steps, world, searching
<1>2. Merged'
  BY <1>0, MergedKept DEF TurnInv, ranking
<1>3. InBatches'
  BY <1>0, BatchesKept DEF TurnInv, ranking
<1>4. Aligned'
  BY <1>0, AlignedKept DEF TurnInv, ranking
<1>5. Decided'
  <2>1. /\ \A i \in DOMAIN citations' :
              /\ scores = <<>> => citations'[i].score = NoScore
              /\ scores # <<>> => /\ citations'[i].chunk \in DOMAIN judged
                                  /\ citations'[i].score = judged[citations'[i].chunk]
                                  /\ citations'[i].score \in Nat
        /\ outcome # "answered" => citations' = <<>>
    BY PersistCites
  <2>2. judged' = judged /\ reranked' = reranked
    BY <1>0 DEF ranking
  <2>3. ScoresOwnPassage'
    BY <2>1, <2>2 DEF ScoresOwnPassage
  <2>4. ScoresAllOrNone'
    <3>1. NoScore \notin Nat
      BY DEF NoScore
    <3> QED
      BY <2>1, <3>1 DEF ScoresAllOrNone
  <2>5. outcome' # "none" /\ (outcome' = "abstained" => citations' = <<>>)
    BY <1>0, <2>1 DEF TurnInv, Decided
  <2>6. outcome = "answered" => Grounded(SplitSegments(answer, reranked))
    BY DEF TurnInv, Decided
  <2>7. Grounded(SplitSegments(answer, reranked))' <=> Grounded(SplitSegments(answer, reranked))
    BY <1>0, <2>2
  <2> QED
    BY <1>0, <2>3, <2>4, <2>5, <2>6, <2>7 DEF Decided
<1> QED
  BY <1>1, <1>2, <1>3, <1>4, <1>5 DEF TurnInv

-----------------------------------------------------------------------------
(* The theorems                                                            *)

LEMMA StepInv == TurnInv /\ [Next]_vars => TurnInv'
<1> SUFFICES ASSUME TurnInv, [Next]_vars PROVE TurnInv'
  OBVIOUS
<1>1. CASE Route
  BY <1>1, ClassifyStep, PrefetchStep, RoutedStep DEF Route
<1>2. CASE Retrieve
  BY <1>2, StartSearchStep, SearchProbeStep, MergeHitsStep DEF Retrieve
<1>3. CASE Rerank
  BY <1>3, RankNothingStep, StartRankingStep, ScoreBatchStep, BatchFailsStep, RankStep DEF Rerank
<1>4. CASE Answer
  BY <1>4, GenerateNothingStep, GenerateAnswerStep, GenerationFailsStep, GateStep, AdaptStep,
     PersistStep DEF Answer
<1>5. CASE \E d \in Documents : DocumentChanges(d)
  BY <1>5, DocumentChangesStep
<1>6. CASE UNCHANGED vars
  <2> USE <1>6 DEF vars, world, searching, ranking, writing
  <2>1. Channels'
    BY DEF TurnInv, Channels
  <2>2. Merged'
    BY MergedKept DEF TurnInv
  <2>3. InBatches'
    BY BatchesKept DEF TurnInv
  <2>4. Aligned'
    BY AlignedKept DEF TurnInv
  <2>5. Decided'
    BY DEF TurnInv, Decided, ScoresOwnPassage, ScoresAllOrNone
  <2> QED
    BY <2>1, <2>2, <2>3, <2>4, <2>5 DEF TurnInv
<1> QED
  BY <1>1, <1>2, <1>3, <1>4, <1>5, <1>6 DEF Next

\* The inductive invariant holds in every reachable state of a turn.
THEOREM TurnHolds == Spec => []TurnInv
BY InitInv, StepInv, PTL DEF Spec

LEMMA InvIsFaithful == TurnInv => RankedFaithfully
<1> SUFFICES ASSUME TurnInv PROVE RankedFaithfully
  OBVIOUS
<1>1. /\ retrieved \in Seq(Chunks) /\ candidates \in Seq(Chunks) /\ reranked \in Seq(Chunks)
      /\ scores \in Seq(Nat)
  BY DEF TurnInv, Merged, InBatches, Aligned
<1>2. TypeOK
  <2>1. ToSet(retrieved) \subseteq Chunks /\ ToSet(candidates) \subseteq Chunks
        /\ ToSet(reranked) \subseteq Chunks
    BY <1>1, ListFinite
  <2> QED
    BY <2>1 DEF TurnInv, Channels, Merged, Aligned, TypeOK
<1>3. NoOverlapRetrieved
  BY DEF TurnInv, Merged, Apart, NoOverlapRetrieved
<1>4. CASE pc = "done"
  BY <1>2, <1>3, <1>4 DEF TurnInv, Decided, RankedFaithfully
<1>5. CASE pc # "done"
  <2>1. citations = <<>>
    BY <1>5 DEF TurnInv, Decided
  <2>2. ~\E i \in DOMAIN citations : TRUE
    BY <2>1
  <2>3. ScoresOwnPassage /\ ScoresAllOrNone
    BY <2>2 DEF ScoresOwnPassage, ScoresAllOrNone
  <2> QED
    BY <1>2, <1>3, <2>3 DEF RankedFaithfully
<1> QED
  BY <1>4, <1>5

\* For every set of chunks, every number of probes and batches and every order in which they come
\* back, fail or are cut: no two passages found share text, and a citation has the score its own
\* passage was last given, all citations of an answer or none.
THEOREM RankedIsFaithful == Spec => []RankedFaithfully
BY TurnHolds, InvIsFaithful, PTL

\* Where support is asked for, an answer that has it cites something.
LEMMA SupportNeedsCites ==
  ASSUME SupportIsAsked, NEW segments \in Seq(Segment), Grounded(segments)
  PROVE  Cites(segments) # {}
<1> SUFFICES ASSUME Cites(segments) = {} PROVE FALSE
  OBVIOUS
<1>1. /\ MinGroundedness[1] \in Nat \ {0} /\ MinGroundedness[2] \in Nat \ {0}
  BY GroundingAssumption DEF SupportIsAsked
<1>2. CASE Claims(segments) = {}
  <2>1. Groundedness(segments) = <<0, 1>>
    BY <1>2 DEF Groundedness
  <2>2. 0 * MinGroundedness[2] >= MinGroundedness[1] * 1
    BY <2>1 DEF Grounded
  <2> QED
    BY <1>1, <2>2
<1>3. CASE Claims(segments) # {}
  <2>1. Supported(segments) = {}
    BY DEF Supported
  <2>2. Cardinality(Supported(segments)) = 0
    BY <2>1, FS_EmptySet
  <2>3. IsFiniteSet(Claims(segments))
    <3>1. IsFiniteSet(DOMAIN segments) /\ Claims(segments) \in SUBSET DOMAIN segments
      BY ListFinite DEF Claims
    <3> QED
      BY <3>1, FS_Subset
  <2>4. Cardinality(Claims(segments)) \in Nat \ {0}
    BY <1>3, <2>3, FS_CardinalityType, FS_EmptySet
  <2>5. Groundedness(segments) = <<0, Cardinality(Claims(segments))>>
    BY <1>3, <2>2 DEF Groundedness
  <2>6. 0 * MinGroundedness[2] >= MinGroundedness[1] * Cardinality(Claims(segments))
    BY <2>5 DEF Grounded
  <2>7. \A a, b \in Nat \ {0} : a * b \in Nat \ {0}
    OBVIOUS
  <2> QED
    BY <1>1, <2>4, <2>6, <2>7
<1> QED
  BY <1>2, <1>3

LEMMA InvIsGrounded == ASSUME SupportIsAsked PROVE TurnInv => ServedIsGrounded
<1> SUFFICES ASSUME TurnInv PROVE ServedIsGrounded
  OBVIOUS
<1>1. answer \in Seq(Token) /\ reranked \in Seq(Chunks)
  BY DEF TurnInv, Channels, Aligned
<1>2. SplitSegments(answer, reranked) \in Seq(Segment)
  BY <1>1, SegmentsOK
<1>3. /\ outcome = "answered" => Grounded(SplitSegments(answer, reranked))
      /\ outcome = "abstained" => citations = <<>>
  BY DEF TurnInv, Decided
<1>4. outcome = "answered" => Cites(SplitSegments(answer, reranked)) # {}
  BY <1>2, <1>3, SupportNeedsCites
<1> QED
  BY <1>3, <1>4 DEF ServedIsGrounded

\* Whatever the model writes, an answer is served only over claims its citations cover, as far as
\* the configured share asks, and a refusal cites nothing.
THEOREM ServesGrounded == ASSUME SupportIsAsked PROVE Spec => []ServedIsGrounded
<1>1. TurnInv => ServedIsGrounded
  BY InvIsGrounded
<1> QED
  BY <1>1, TurnHolds, PTL

LEMMA TakenStep == TakenOnce /\ [Next]_vars => TakenOnce'
<1> SUFFICES ASSUME TakenOnce, [Next]_vars PROVE TakenOnce'
  OBVIOUS
<1>1. CASE PrefetchQueryArm
  <2>1. slot = Pending /\ asked' = asked
    BY <1>1 DEF PrefetchQueryArm
  <2>2. Pending # Empty
    BY DEF Pending, Empty
  <2>3. asked = <<>>
    BY <2>1, <2>2 DEF TakenOnce
  <2> QED
    BY <2>1, <2>3 DEF TakenOnce
<1>2. CASE StartSearch
  BY <1>2 DEF StartSearch, AfterTake, TakenOnce
<1>3. CASE UNCHANGED <<slot, asked>>
  BY <1>3 DEF TakenOnce
<1>4. Classify \/ Routed => UNCHANGED <<slot, asked>>
  BY DEF Classify, Routed, searching
<1>5. MergeHits \/ (\E i \in DOMAIN hits : SearchProbe(i)) => UNCHANGED <<slot, asked>>
  BY DEF MergeHits, SearchProbe
<1>6. Rerank => UNCHANGED <<slot, asked>>
  BY DEF Rerank, RankNothing, StartRanking, ScoreBatch, BatchFails, Rank, searching
<1>7. Answer => UNCHANGED <<slot, asked>>
  BY DEF Answer, GenerateNothing, GenerateAnswer, GenerationFails, Gate, Adapt, Persist, searching
<1>8. (\E d \in Documents : DocumentChanges(d)) \/ UNCHANGED vars => UNCHANGED <<slot, asked>>
  BY DEF DocumentChanges, searching, vars
<1> QED
  BY <1>1, <1>2, <1>3, <1>4, <1>5, <1>6, <1>7, <1>8 DEF Next, Route, Retrieve

LEMMA FreshStep ==
  TurnInv /\ TakenOnce /\ [Next]_vars =>
     /\ pc = "generate" /\ pc' = "gate" => ToSet(reranked') \subseteq Accessible
     /\ pc = "persist" => {citations'[i].chunk : i \in DOMAIN citations'} \subseteq Accessible
     /\ Len(asked) = 1 /\ Len(asked') = 2 => hits'[1] = Pending
<1> SUFFICES ASSUME TurnInv, TakenOnce, [Next]_vars
             PROVE  /\ pc = "generate" /\ pc' = "gate" => ToSet(reranked') \subseteq Accessible
                    /\ pc = "persist" =>
                          {citations'[i].chunk : i \in DOMAIN citations'} \subseteq Accessible
                    /\ Len(asked) = 1 /\ Len(asked') = 2 => hits'[1] = Pending
  OBVIOUS
<1>1. ASSUME pc = "generate", pc' = "gate" PROVE ToSet(reranked') \subseteq Accessible
  <2>1. GenerateAnswer
    BY <1>1 DEF Next, Route, Classify, PrefetchQueryArm, Routed, Retrieve, StartSearch, SearchProbe,
                MergeHits, Rerank, RankNothing, StartRanking, ScoreBatch, BatchFails, Rank, Answer,
                GenerateNothing, GenerationFails, Gate, Adapt, Persist, DocumentChanges, vars
  <2>2. reranked' = FetchChunks(reranked) /\ reranked \in Seq(Chunks)
    BY <2>1 DEF GenerateAnswer, TurnInv, Aligned
  <2> QED
    BY <2>2, FetchOK
<1>2. ASSUME pc = "persist"
      PROVE  {citations'[i].chunk : i \in DOMAIN citations'} \subseteq Accessible
  <2>1. Persist \/ citations' = citations
    BY <1>2 DEF Next, Route, Classify, PrefetchQueryArm, Routed, Retrieve, StartSearch, SearchProbe,
                MergeHits, Rerank, RankNothing, StartRanking, ScoreBatch, BatchFails, Rank, Answer,
                GenerateNothing, GenerateAnswer, GenerationFails, Gate, Adapt, DocumentChanges,
                vars, writing
  <2>2. CASE Persist
    BY <2>2, PersistCites
  <2>3. CASE citations' = citations
    <3>1. citations' = <<>>
      BY <1>2, <2>3 DEF TurnInv, Decided
    <3> QED
      BY <3>1
  <2> QED
    BY <2>1, <2>2, <2>3
<1>3. ASSUME Len(asked) = 1, Len(asked') = 2 PROVE hits'[1] = Pending
  <2>1. StartSearch
    <3>1. asked' # asked
      BY <1>3
    <3> QED
      BY <3>1 DEF Next, Route, Classify, PrefetchQueryArm, Routed, Retrieve, SearchProbe,
                  MergeHits, Rerank, RankNothing, StartRanking, ScoreBatch, BatchFails, Rank, Answer,
                  GenerateNothing, GenerateAnswer, GenerationFails, Gate, Adapt, Persist,
                  DocumentChanges, vars
  <2>2. asked # <<>>
    BY <1>3, EmptySeq
  <2>3. slot = Empty
    BY <2>2 DEF TakenOnce
  <2>4. hits' = SearchesOf(probes', slot)
    <3>1. asked' # asked
      BY <1>3
    <3> QED
      BY <2>1, <3>1 DEF StartSearch
  <2>5. 1 \in DOMAIN probes'
    <3>1. IsList(subs) /\ probes' = BuildProbes(Query, subs)
      BY <2>1 DEF StartSearch, TurnInv, Channels
    <3>2. IsList(probes') /\ Len(probes') \in 1..(MaxSubQueries + 1)
      BY <3>1, BuildProbesOK
    <3>3. DOMAIN probes' = 1..Len(probes')
      BY <3>2, LenProperties DEF IsList
    <3> QED
      BY <3>2, <3>3, ConstantsOK
  <2> QED
    BY <2>3, <2>4, <2>5 DEF SearchesOf, Empty
<1> QED
  BY <1>1, <1>2, <1>3

\* Whenever documents leave or return during a turn: a passage reaches the model, and a citation
\* the transcript, only while the asker may read it, and the retry asks the index again.
THEOREM UsedFresh == Spec => FreshAtUse
<1>1. Init => TakenOnce
  BY DEF Init, TakenOnce
<1>2. TurnInv /\ TakenOnce /\ [Next]_vars =>
         [/\ pc = "generate" /\ pc' = "gate" => ToSet(reranked') \subseteq Accessible
          /\ pc = "persist" => {citations'[i].chunk : i \in DOMAIN citations'} \subseteq Accessible]_vars
  BY FreshStep
<1>3. TurnInv /\ TakenOnce /\ [Next]_vars => [Len(asked) = 1 /\ Len(asked') = 2 => hits'[1] = Pending]_vars
  BY FreshStep
<1>4. Spec => []TakenOnce
  BY <1>1, TakenStep, TurnHolds, PTL DEF Spec
<1>5. Spec => ReadableAtUse
  BY <1>2, <1>4, TurnHolds, PTL DEF Spec, ReadableAtUse
<1>6. Spec => RetrySearchesAfresh
  BY <1>3, <1>4, TurnHolds, PTL DEF Spec, RetrySearchesAfresh
<1> QED
  BY <1>5, <1>6 DEF FreshAtUse
=============================================================================
