--------------------------- MODULE Floods_proofs ---------------------------
(***************************************************************************)
(* Proofs about what goes round the network in a cycle and what a peer     *)
(* makes of it.                                                            *)
(*   - Votes: in any network that its nodes connect, every peer elects the *)
(*     block the nodes voted for most (WinnerElected), and the relays come *)
(*     to an end (FloodEnds).                                              *)
(*   - Local deltas: a node relays no more of a signer than it has had     *)
(*     pools, whatever the interleaving (RelayBounded); one of each signer *)
(*     is merged and rewarded per cycle until stage4 overtakes a worker.   *)
(***************************************************************************)
EXTENDS Votes, LocalDeltas, FiniteSetTheorems, TLAPS

-----------------------------------------------------------------------------
(***************************************************************************)
(* Sets of numbers, and the order std::map keeps its keys in.              *)
(***************************************************************************)

\* A nonempty set of numbers has a least one.
LEMMA LeastNumber ==
    ASSUME NEW T, T \subseteq Nat, T # {}
    PROVE  \E x \in T : \A y \in T : x <= y
<1> DEFINE R == OpToRel(<, Nat)
<1>1. IsWellFoundedOn(R, Nat)
  BY NatLessThanWellFounded
<1> HIDE DEF R
<1>2. PICK x \in T : \A y \in T : ~ (<<y, x>> \in R)
  BY <1>1, WFMin
<1>3. \A i, j \in Nat : i < j => <<i, j>> \in R
  BY DEF R, OpToRel
<1>4. x \in Nat /\ \A y \in T : y \in Nat
  OBVIOUS
<1>5. \A y \in T : ~(y < x)
  BY <1>2, <1>3, <1>4
<1> QED BY <1>4, <1>5

\* Induction over the subsets of a finite set, with a set of subsets in the
\* place of a predicate.
LEMMA SubsetInduction ==
    ASSUME NEW S, IsFiniteSet(S), NEW G, {} \in G,
           \A T \in SUBSET S : T # {} /\ (\A x \in T : T \ {x} \in G) => T \in G
    PROVE  S \in G
<1> SUFFICES ASSUME S \notin G PROVE FALSE
  OBVIOUS
<1> DEFINE Bad == {n \in Nat : \E T \in SUBSET S : Cardinality(T) = n /\ T \notin G}
<1>1. \A T \in SUBSET S : IsFiniteSet(T) /\ Cardinality(T) \in Nat
  BY FS_Subset, FS_CardinalityType
<1>2. PICK n \in Bad : \A m \in Bad : n <= m
  <2>1. Bad \subseteq Nat /\ Bad # {}
    BY <1>1
  <2> HIDE DEF Bad
  <2> QED BY <2>1, LeastNumber
<1>3. PICK T \in SUBSET S : Cardinality(T) = n /\ T \notin G
  BY <1>2
<1>4. \A x \in T : T \ {x} \in G
  <2> SUFFICES ASSUME NEW x \in T, T \ {x} \notin G PROVE FALSE
    OBVIOUS
  <2>1. Cardinality(T \ {x}) = Cardinality(T) - 1
    BY <1>1, FS_RemoveElement
  <2>2. Cardinality(T \ {x}) \in Nat /\ Cardinality(T) \in Nat
    BY <1>1
  <2>3. Cardinality(T \ {x}) \in Bad
    BY <2>2
  <2>4. n <= Cardinality(T \ {x})
    BY <1>2, <2>3
  <2> QED BY <1>3, <2>1, <2>2, <2>4
<1> QED BY <1>3, <1>4

\* A nonempty finite set of numbers has a greatest one.
LEMMA MaxIs ==
    ASSUME NEW S, IsFiniteSet(S), S \subseteq Nat, S # {}
    PROVE  Max(S) \in S /\ \A x \in S : x <= Max(S)
<1> DEFINE G == {T \in SUBSET S : T = {} \/ \E m \in T : \A x \in T : x <= m}
<1>1. {} \in G
  OBVIOUS
<1>2. ASSUME NEW T \in SUBSET S, T # {}, \A x \in T : T \ {x} \in G PROVE T \in G
  <2>1. PICK x \in T : TRUE
    BY <1>2
  <2>2. CASE T \ {x} = {}
    <3>1. \A y \in T : y <= x
      BY <2>2
    <3> QED BY <3>1
  <2>3. CASE \E m \in T \ {x} : \A y \in T \ {x} : y <= m
    <3>1. PICK m \in T \ {x} : \A y \in T \ {x} : y <= m
      BY <2>3
    <3>2. CASE x <= m
      <4>1. \A y \in T : y <= m
        BY <3>1, <3>2
      <4> QED BY <4>1
    <3>3. CASE m <= x
      <4>1. \A y \in T : y <= x
        BY <3>1, <3>3
      <4> QED BY <4>1
    <3>4. x \in Nat /\ m \in Nat
      OBVIOUS
    <3> QED BY <3>2, <3>3, <3>4
  <2> QED BY <1>2, <2>2, <2>3
<1> HIDE DEF G
<1>3. S \in G
  BY ONLY IsFiniteSet(S), <1>1, <1>2, SubsetInduction, Zenon
<1>4. PICK m \in S : \A x \in S : x <= m
  BY <1>3 DEF G
<1>5. \A x \in S : m >= x
  BY <1>4
<1>6. Max(S) \in S /\ \A x \in S : Max(S) >= x
  BY <1>5 DEF Max
<1> QED BY <1>6

\* s goes through the numbers of R in ascending order.
Ascending(s, R) ==
    /\ s \in [1..Cardinality(R) -> R]
    /\ \A i, j \in 1..Cardinality(R) : i < j => s[i] < s[j]

\* There is such a sequence.
LEMMA AscendingExists ==
    ASSUME NEW R, IsFiniteSet(R), R \subseteq Nat
    PROVE  \E s : Ascending(s, R)
<1> DEFINE G == {T \in SUBSET R : \E s : Ascending(s, T)}
<1>1. {} \in G
  <2> DEFINE e == [i \in {} |-> 0]
  <2>1. Cardinality({}) = 0 /\ 1..0 = {}
    BY FS_EmptySet
  <2>2. e \in [{} -> {}]
    OBVIOUS
  <2>3. Ascending(e, {})
    BY <2>1, <2>2 DEF Ascending
  <2> QED BY <2>3
<1>2. ASSUME NEW T \in SUBSET R, T # {}, \A x \in T : T \ {x} \in G PROVE T \in G
  <2> DEFINE m == Max(T)
             U == T \ {m}
             k == Cardinality(U)
  <2>1. IsFiniteSet(T) /\ T \subseteq Nat
    BY FS_Subset
  <2>2. m \in T /\ \A x \in T : x <= m
    BY <1>2, <2>1, MaxIs
  <2>20. U \in G
    BY <1>2, <2>2
  <2>3. PICK s : Ascending(s, U)
    <3> HIDE DEF U
    <3> QED BY <2>20
  <2>4. k \in Nat /\ Cardinality(T) = k + 1
    <3>1. Cardinality(T) \in Nat /\ Cardinality(U) \in Nat /\ Cardinality(U) = Cardinality(T) - 1
      BY <2>1, <2>2, FS_RemoveElement, FS_CardinalityType
    <3> QED BY <3>1
  <2>5. s \in [1..k -> U] /\ \A i, j \in 1..k : i < j => s[i] < s[j]
    BY <2>3 DEF Ascending
  <2> HIDE DEF m, k
  <2>6. \A x \in U : x \in Nat /\ x < m /\ x \in T
    <3> SUFFICES ASSUME NEW x \in U PROVE x \in Nat /\ x < m /\ x \in T
      OBVIOUS
    <3>1. x \in Nat /\ m \in Nat /\ x <= m /\ x # m /\ x \in T
      BY <2>1, <2>2
    <3> QED BY <3>1
  <2> HIDE DEF U
  <2> DEFINE t == [i \in 1..(k + 1) |-> IF i = k + 1 THEN m ELSE s[i]]
  <2>7. \A i \in 1..(k + 1) : i = k + 1 \/ i \in 1..k
    BY <2>4
  <2>8. t \in [1..(k + 1) -> T]
    BY <2>2, <2>5, <2>6, <2>7
  <2>9. ASSUME NEW i \in 1..(k + 1), NEW j \in 1..(k + 1), i < j PROVE t[i] < t[j]
    <3>1. i \in 1..k /\ t[i] = s[i]
      BY <2>4, <2>7, <2>9
    <3>2. CASE j = k + 1
      BY <2>5, <2>6, <3>1, <3>2
    <3>3. CASE j \in 1..k
      <4>1. t[j] = s[j]
        BY <2>4, <3>3
      <4> QED BY <2>5, <2>9, <3>1, <3>3, <4>1
    <3> QED BY <2>7, <3>2, <3>3
  <2> HIDE DEF t
  <2>10. Ascending(t, T)
    BY <2>4, <2>8, <2>9 DEF Ascending
  <2> QED BY <2>10
<1> HIDE DEF G
<1>3. R \in G
  BY ONLY IsFiniteSet(R), <1>1, <1>2, SubsetInduction, Zenon
<1> QED BY <1>3 DEF G

\* The keys of a std::map are gone through in ascending order, each once.
LEMMA InOrderIs ==
    ASSUME NEW R, IsFiniteSet(R), R \subseteq Nat
    PROVE  /\ Ascending(InOrder(R), R) /\ Cardinality(R) \in Nat
           /\ \A r \in R : \E i \in 1..Cardinality(R) : InOrder(R)[i] = r
<1> DEFINE k == Cardinality(R)
           w == InOrder(R)
<1>1. PICK s : Ascending(s, R)
  BY AscendingExists
<1>2. s \in [1..k -> R] /\ \A i, j \in DOMAIN s : i < j => s[i] < s[j]
  BY <1>1 DEF Ascending
<1>3. w \in [1..k -> R] /\ \A i, j \in DOMAIN w : i < j => w[i] < w[j]
  <2> HIDE DEF k
  <2>1. w = CHOOSE x \in [1..k -> R] : \A i, j \in DOMAIN x : i < j => x[i] < x[j]
    BY DEF InOrder, k
  <2> HIDE DEF w
  <2> QED BY <1>2, <2>1
<1>4. Ascending(w, R)
  BY <1>3 DEF Ascending
<1>5. k \in Nat
  BY FS_CardinalityType
<1> HIDE DEF w, k
<1>6. ASSUME NEW i \in 1..k, NEW j \in 1..k, w[i] = w[j] PROVE i = j
  <2>1. i \in Nat /\ j \in Nat
    BY <1>5
  <2>11. w[i] \in R /\ w[j] \in R
    BY <1>3
  <2>12. w[i] \in Nat /\ w[j] \in Nat
    BY <2>11
  <2>2. ~(i < j) /\ ~(j < i)
    BY <1>3, <1>6, <2>1, <2>12
  <2> QED BY <2>1, <2>2
<1>7. w \in Injection(1..k, R)
  BY <1>3, <1>6 DEF Injection, IsInjective
<1>8. Cardinality(1..k) = k
  <2>1. Cardinality(1..k) = IF 1 > k THEN 0 ELSE k - 1 + 1
    BY <1>5, FS_Interval
  <2> QED BY <1>5, <2>1
<1>9. w \in Surjection(1..k, R)
  BY <1>7, <1>8, FS_Injection DEF k
<1> QED BY <1>4, <1>5, <1>9 DEF Surjection, w, k

-----------------------------------------------------------------------------
(***************************************************************************)
(* votes_t::select finds the winner.                                       *)
(***************************************************************************)

\* How many votes of vs are for h.
CountOf(vs, h) == Cardinality({v \in DOMAIN vs : vs[v] = h})

\* votes_t::select, the body of the loop.
Better(vs, best, h) == IF CountOf(vs, h) >= best.max THEN [max |-> CountOf(vs, h), hash |-> h] ELSE best

\* What votes_t::select starts from.
Nobody == [max |-> 0, hash |-> 0]

\* The function on sets of positions by which FoldLeft is defined.
IsWalk(g, vs, w) ==
    g = [s \in SUBSET DOMAIN w |-> IF s = {} THEN Nobody ELSE Better(vs, g[s \ {Max(s)}], w[Max(s)])]

\* Select is the value of such a function, once there is one.
LEMMA SelectIs ==
    ASSUME NEW vs, \E g : IsWalk(g, vs, InOrder(Range(vs)))
    PROVE  \E g : IsWalk(g, vs, InOrder(Range(vs))) /\ Select(vs) = g[DOMAIN InOrder(Range(vs))].hash
BY DEF Select, FoldLeft, MapThenFoldSet, IsWalk, Better, Nobody, CountOf

\* The position among s of the most votes, the last of several.
Ahead(vs, w, s, i) ==
    \A j \in s : CountOf(vs, w[j]) < CountOf(vs, w[i]) \/ (CountOf(vs, w[j]) = CountOf(vs, w[i]) /\ j <= i)

\* What the loop has found after the positions s.
Found(vs, w, s) ==
    IF s = {} THEN Nobody
    ELSE LET i == CHOOSE i \in s : Ahead(vs, w, s, i) IN [max |-> CountOf(vs, w[i]), hash |-> w[i]]

\* There is one, and no other.
LEMMA AheadIs ==
    ASSUME NEW vs, NEW w, NEW s, s \subseteq Nat, \A i \in s : CountOf(vs, w[i]) \in Nat,
           NEW i \in s, Ahead(vs, w, s, i)
    PROVE  Found(vs, w, s) = [max |-> CountOf(vs, w[i]), hash |-> w[i]]
<1>1. ASSUME NEW j \in s, Ahead(vs, w, s, j) PROVE j = i
  <2>1. CountOf(vs, w[i]) \in Nat /\ CountOf(vs, w[j]) \in Nat /\ i \in Nat /\ j \in Nat
    OBVIOUS
  <2>2. CountOf(vs, w[j]) < CountOf(vs, w[i]) \/ (CountOf(vs, w[j]) = CountOf(vs, w[i]) /\ j <= i)
    BY DEF Ahead
  <2>3. CountOf(vs, w[i]) < CountOf(vs, w[j]) \/ (CountOf(vs, w[i]) = CountOf(vs, w[j]) /\ i <= j)
    BY <1>1 DEF Ahead
  <2> QED BY <2>1, <2>2, <2>3
<1>2. (CHOOSE j \in s : Ahead(vs, w, s, j)) = i
  BY <1>1
<1> QED BY <1>2 DEF Found

\* One more position, after the others.
LEMMA FoundNext ==
    ASSUME NEW vs, NEW w, NEW s, s \subseteq Nat, IsFiniteSet(s), s # {}, \A i \in s : CountOf(vs, w[i]) \in Nat,
           s \ {Max(s)} = {} \/ \E i \in s \ {Max(s)} : Ahead(vs, w, s \ {Max(s)}, i)
    PROVE  /\ \E i \in s : Ahead(vs, w, s, i)
           /\ Found(vs, w, s) = Better(vs, Found(vs, w, s \ {Max(s)}), w[Max(s)])
<1> DEFINE m == Max(s)
           t == s \ {m}
<1>1. m \in s /\ \A x \in s : x <= m
  BY MaxIs
<1> HIDE DEF m
<1>2. CountOf(vs, w[m]) \in Nat /\ m \in Nat
  BY <1>1
<1>3. CASE t = {}
  <2>1. \A x \in s : x = m
    BY <1>3
  <2>2. Ahead(vs, w, s, m)
    BY <1>2, <2>1 DEF Ahead
  <2>3. Found(vs, w, s) = [max |-> CountOf(vs, w[m]), hash |-> w[m]]
    BY <1>1, <2>2, AheadIs
  <2>4. Found(vs, w, t) = Nobody
    BY <1>3 DEF Found
  <2>5. Better(vs, Nobody, w[m]) = [max |-> CountOf(vs, w[m]), hash |-> w[m]]
    BY <1>2 DEF Better, Nobody
  <2> QED BY <1>1, <2>2, <2>3, <2>4, <2>5 DEF m
<1>4. ASSUME NEW i \in t, Ahead(vs, w, t, i)
      PROVE  /\ \E k \in s : Ahead(vs, w, s, k)
             /\ Found(vs, w, s) = Better(vs, Found(vs, w, t), w[m])
  <2> DEFINE c == CountOf(vs, w[i])
             d == CountOf(vs, w[m])
  <2>1. c \in Nat /\ d \in Nat /\ i \in Nat /\ i \in s /\ t \subseteq Nat /\ \A x \in t : CountOf(vs, w[x]) \in Nat
    BY <1>2
  <2>2. Found(vs, w, t) = [max |-> c, hash |-> w[i]]
    BY <1>4, <2>1, AheadIs
  <2>3. CASE d >= c
    <3>1. ASSUME NEW j \in s PROVE CountOf(vs, w[j]) < d \/ (CountOf(vs, w[j]) = d /\ j <= m)
      <4>1. CASE j = m
        BY <1>2, <4>1
      <4>2. CASE j \in t
        <5>1. CountOf(vs, w[j]) < c \/ CountOf(vs, w[j]) = c
          BY <1>4, <4>2 DEF Ahead
        <5>2. CountOf(vs, w[j]) \in Nat /\ j <= m
          BY <1>1
        <5> HIDE DEF c, d
        <5> QED BY <2>1, <2>3, <5>1, <5>2
      <4> QED BY <4>1, <4>2
    <3>2. Ahead(vs, w, s, m)
      BY <3>1 DEF Ahead
    <3>3. Found(vs, w, s) = [max |-> d, hash |-> w[m]]
      BY <1>1, <3>2, AheadIs
    <3>4. Better(vs, [max |-> c, hash |-> w[i]], w[m]) = [max |-> d, hash |-> w[m]]
      BY <2>3 DEF Better
    <3> QED BY <1>1, <2>2, <3>2, <3>3, <3>4
  <2>4. CASE ~(d >= c)
    <3>1. ASSUME NEW j \in s PROVE CountOf(vs, w[j]) < c \/ (CountOf(vs, w[j]) = c /\ j <= i)
      <4>1. CASE j = m
        BY <2>1, <2>4, <4>1
      <4>2. CASE j \in t
        BY <1>4, <4>2 DEF Ahead
      <4> QED BY <4>1, <4>2
    <3>2. Ahead(vs, w, s, i)
      BY <3>1 DEF Ahead
    <3>3. Found(vs, w, s) = [max |-> c, hash |-> w[i]]
      BY <2>1, <3>2, AheadIs
    <3>4. Better(vs, [max |-> c, hash |-> w[i]], w[m]) = [max |-> c, hash |-> w[i]]
      BY <2>4 DEF Better
    <3> QED BY <2>1, <2>2, <3>2, <3>3, <3>4
  <2> QED BY <2>3, <2>4
<1>5. t = {} \/ \E i \in t : Ahead(vs, w, t, i)
  BY DEF m
<1> QED BY <1>3, <1>4, <1>5 DEF m

\* The loop finds the position of the most votes, the last of several.
LEMMA LoopFinds ==
    ASSUME NEW vs, NEW w, IsFiniteSet(DOMAIN w), DOMAIN w \subseteq Nat, \A i \in DOMAIN w : CountOf(vs, w[i]) \in Nat
    PROVE  /\ \E g : IsWalk(g, vs, w)
           /\ \A g : IsWalk(g, vs, w) => g[DOMAIN w] = Found(vs, w, DOMAIN w)
           /\ DOMAIN w # {} => \E i \in DOMAIN w : Ahead(vs, w, DOMAIN w, i)
<1> DEFINE P == DOMAIN w
           A == {s \in SUBSET P : s = {} \/ \E i \in s : Ahead(vs, w, s, i)}
<1>1. \A s \in SUBSET P : IsFiniteSet(s) /\ s \subseteq Nat /\ \A i \in s : CountOf(vs, w[i]) \in Nat
  BY FS_Subset
<1>2. ASSUME NEW S \in SUBSET P PROVE S \in A
  <2>1. {} \in A
    OBVIOUS
  <2>2. ASSUME NEW s \in SUBSET S, s # {}, \A x \in s : s \ {x} \in A PROVE s \in A
    <3>1. Max(s) \in s /\ s \in SUBSET P
      BY <1>1, <2>2, MaxIs
    <3>2. s \ {Max(s)} = {} \/ \E i \in s \ {Max(s)} : Ahead(vs, w, s \ {Max(s)}, i)
      BY <2>2, <3>1
    <3>3. \E i \in s : Ahead(vs, w, s, i)
      BY <1>1, <2>2, <3>1, <3>2, FoundNext
    <3> QED BY <3>1, <3>3
  <2>3. IsFiniteSet(S)
    BY <1>1
  <2> HIDE DEF A
  <2> QED BY ONLY <2>1, <2>2, <2>3, SubsetInduction, Zenon
<1>3. ASSUME NEW s \in SUBSET P, s # {}
      PROVE  Max(s) \in s /\ Found(vs, w, s) = Better(vs, Found(vs, w, s \ {Max(s)}), w[Max(s)])
  <2>1. Max(s) \in s
    BY <1>1, <1>3, MaxIs
  <2>2. s \ {Max(s)} \in A
    BY <1>2
  <2>3. s \ {Max(s)} = {} \/ \E i \in s \ {Max(s)} : Ahead(vs, w, s \ {Max(s)}, i)
    BY <2>2
  <2> QED BY <1>1, <1>3, <2>1, <2>3, FoundNext
<1>4. \E g : IsWalk(g, vs, w)
  <2> DEFINE g == [s \in SUBSET P |-> Found(vs, w, s)]
  <2>1. Found(vs, w, {}) = Nobody
    BY DEF Found
  <2>2. \A s \in SUBSET P : g[s] = Found(vs, w, s)
    OBVIOUS
  <2>3. ASSUME NEW s \in SUBSET P
        PROVE  Found(vs, w, s) = IF s = {} THEN Nobody ELSE Better(vs, g[s \ {Max(s)}], w[Max(s)])
    <3>1. g[s \ {Max(s)}] = Found(vs, w, s \ {Max(s)})
      OBVIOUS
    <3> QED BY <1>3, <2>1, <3>1
  <2>4. IsWalk(g, vs, w)
    BY <2>3 DEF IsWalk
  <2> QED BY <2>4
<1>5. ASSUME NEW g, IsWalk(g, vs, w) PROVE g[P] = Found(vs, w, P)
  <2> DEFINE G == {s \in SUBSET P : g[s] = Found(vs, w, s)}
  <2>1. \A s \in SUBSET P : g[s] = IF s = {} THEN Nobody ELSE Better(vs, g[s \ {Max(s)}], w[Max(s)])
    BY <1>5 DEF IsWalk
  <2>2. {} \in G
    BY <2>1 DEF Found
  <2>3. ASSUME NEW s \in SUBSET P, s # {}, \A x \in s : s \ {x} \in G PROVE s \in G
    BY <1>3, <2>1, <2>3
  <2> HIDE DEF G
  <2>4. P \in G
    BY ONLY IsFiniteSet(P), <2>2, <2>3, SubsetInduction, Zenon
  <2> QED BY <2>4 DEF G
<1>6. P # {} => \E i \in P : Ahead(vs, w, P, i)
  <2>1. P \in A
    BY <1>2
  <2> QED BY <2>1
<1> QED BY <1>4, <1>5, <1>6

\* votes_t::select: no other block has more votes than the one it returns, and
\* none that has as many has a greater hash; zero when there are no votes.
LEMMA SelectsTheWinner ==
    ASSUME NEW vs \in Votings
    PROVE  /\ Select(vs) = IF vs = NoVotes THEN 0 ELSE Max(Leaders(vs))
           /\ Select(vs) \in Hashes \cup {0}
<1> DEFINE D == DOMAIN vs
           R == Range(vs)
           w == InOrder(R)
           k == Cardinality(R)
<1>1. D \in SUBSET Nodes /\ vs \in [D -> Hashes]
  BY DEF Votings
<1>2. IsFiniteSet(D)
  BY <1>1, NodesAssumption, FS_Subset
<1>3. IsFiniteSet(R) /\ R \subseteq Nat
  <2>1. R = {vs[v] : v \in D}
    BY DEF Range
  <2>2. vs \in Surjection(D, R)
    BY <1>1, <2>1 DEF Surjection
  <2>3. R \subseteq Nat
    BY <1>1, <2>1, HashesAssumption
  <2> QED BY <1>2, <2>2, <2>3, FS_Surjection
<1>4. \A h : CountOf(vs, h) \in Nat
  <2> SUFFICES ASSUME NEW h PROVE CountOf(vs, h) \in Nat
    OBVIOUS
  <2>1. {v \in DOMAIN vs : vs[v] = h} \in SUBSET D
    OBVIOUS
  <2> QED BY <1>2, <2>1, FS_Subset, FS_CardinalityType DEF CountOf
<1>5. k \in Nat /\ w \in [1..k -> R] /\ (\A i, j \in 1..k : i < j => w[i] < w[j])
      /\ \A r \in R : \E i \in 1..k : w[i] = r
  BY <1>3, InOrderIs DEF Ascending
<1> HIDE DEF w, k
<1>6. DOMAIN w = 1..k /\ IsFiniteSet(DOMAIN w) /\ DOMAIN w \subseteq Nat
  <2>1. DOMAIN w = 1..k /\ IsFiniteSet(1..k)
    BY <1>5, FS_Interval
  <2> QED BY <1>5, <2>1
<1>7. /\ \E g : IsWalk(g, vs, w)
      /\ \A g : IsWalk(g, vs, w) => g[DOMAIN w] = Found(vs, w, DOMAIN w)
      /\ DOMAIN w # {} => \E i \in DOMAIN w : Ahead(vs, w, DOMAIN w, i)
  BY <1>4, <1>6, LoopFinds
<1>8. Select(vs) = Found(vs, w, DOMAIN w).hash
  <2>1. PICK g : IsWalk(g, vs, w) /\ Select(vs) = g[DOMAIN w].hash
    BY <1>7, SelectIs DEF w
  <2> QED BY <1>7, <2>1
<1>9. CASE vs = NoVotes
  <2>1. R = {}
    BY <1>9 DEF Range, NoVotes
  <2>2. DOMAIN w = {}
    BY <1>5, <1>6, <2>1
  <2> QED BY <1>8, <1>9, <2>2 DEF Found, Nobody
<1>10. CASE vs # NoVotes
  <2>1. D # {}
    BY <1>1, <1>10 DEF NoVotes
  <2>2. DOMAIN w # {}
    <3>1. R # {}
      BY <2>1 DEF Range
    <3> QED BY <1>5, <1>6, <3>1
  <2>3. PICK i \in DOMAIN w : Ahead(vs, w, DOMAIN w, i)
    BY <1>7, <2>2
  <2>4. Select(vs) = w[i]
    <3>1. Found(vs, w, DOMAIN w) = [max |-> CountOf(vs, w[i]), hash |-> w[i]]
      BY <1>4, <1>6, <2>3, AheadIs
    <3> QED BY <1>8, <3>1
  <2>5. w[i] \in R
    BY <1>5, <1>6
  <2>6. Leaders(vs) = {h \in R : \A x \in R : CountOf(vs, x) <= CountOf(vs, h)}
    BY DEF Leaders, CountOf
  <2>7. ASSUME NEW h \in R
        PROVE  /\ CountOf(vs, h) <= CountOf(vs, w[i])
               /\ CountOf(vs, h) = CountOf(vs, w[i]) => h <= w[i]
    <3>1. PICK j \in 1..k : w[j] = h
      BY <1>5
    <3>2. CountOf(vs, h) < CountOf(vs, w[i]) \/ (CountOf(vs, h) = CountOf(vs, w[i]) /\ j <= i)
      BY <1>6, <2>3, <3>1 DEF Ahead
    <3>3. CountOf(vs, h) \in Nat /\ CountOf(vs, w[i]) \in Nat /\ i \in Nat /\ j \in Nat /\ h \in Nat /\ w[i] \in Nat
      BY <1>3, <1>4, <1>6, <2>5
    <3>4. j <= i => h <= w[i]
      <4>1. j < i => w[j] < w[i]
        BY <1>5, <1>6
      <4> QED BY <3>1, <3>3, <4>1
    <3> QED BY <3>2, <3>3, <3>4
  <2>8. w[i] \in Leaders(vs)
    BY <2>5, <2>6, <2>7
  <2>9. ASSUME NEW h \in Leaders(vs) PROVE h \in Nat /\ h <= w[i]
    <3>1. h \in R /\ CountOf(vs, w[i]) <= CountOf(vs, h)
      BY <2>5, <2>6
    <3>2. CountOf(vs, h) <= CountOf(vs, w[i])
      BY <2>7, <3>1
    <3>3. CountOf(vs, h) = CountOf(vs, w[i])
      BY <1>4, <3>1, <3>2
    <3> QED BY <1>3, <2>7, <3>1, <3>3
  <2>10. Leaders(vs) \subseteq Nat /\ IsFiniteSet(Leaders(vs)) /\ Leaders(vs) # {}
    <3>1. Leaders(vs) \in SUBSET R
      BY <2>6
    <3> QED BY <1>3, <2>8, <3>1, FS_Subset
  <2>11. Max(Leaders(vs)) \in Leaders(vs) /\ \A x \in Leaders(vs) : x <= Max(Leaders(vs))
    BY <2>10, MaxIs
  <2>12. Max(Leaders(vs)) = w[i]
    <3> DEFINE m == Max(Leaders(vs))
    <3>1. m \in Nat /\ m <= w[i] /\ w[i] <= m /\ w[i] \in Nat
      BY <2>8, <2>9, <2>11
    <3> HIDE DEF m
    <3>2. m = w[i]
      BY <3>1
    <3> QED BY <3>2 DEF m
  <2>13. w[i] \in Hashes
    BY <1>1, <2>5 DEF Range
  <2> QED BY <1>10, <2>4, <2>12, <2>13
<1> QED BY <1>9, <1>10

-----------------------------------------------------------------------------
(***************************************************************************)
(* The flood of votes.                                                     *)
(***************************************************************************)

\* Everything that is said was cast, and whoever says it has heard it.
SaidAsCast ==
    /\ \A m \in wire : m.voter \in DOMAIN cast /\ m.hash = cast[m.voter] /\ m.voter \in DOMAIN votes[m.from]
    /\ \A n \in Peers : \A v \in DOMAIN votes[n] : v \in DOMAIN cast /\ votes[n][v] = cast[v]

\* While the votes go round, what a node has heard its people have heard too,
\* or it is on its way to them.
GoesRound ==
    /\ \A v \in DOMAIN cast : v \in DOMAIN votes[v]
    /\ \A n \in Nodes : \A v \in DOMAIN votes[n], p \in GetPeople(n) :
         v \in DOMAIN votes[p] \/ \E m \in wire : m.to = p /\ m.voter = v

\* Once one has elected, the others have all the votes.
Electing ==
    /\ VotesDelivered
    /\ \A n \in Peers \ done["stage2"] : votes[n] = cast
    /\ \A n \in done["stage2"] : votes[n] = NoVotes /\ tip[n] = Select(cast)

\* Together: the inductive invariant of the election.
FloodInv ==
    /\ TypeOK /\ IsFiniteSet(wire)
    /\ DOMAIN cast \subseteq done["stage1"]
    /\ SaidAsCast
    /\ IF done["stage2"] = {} THEN GoesRound ELSE Electing

\* The votes of some nodes.
LEMMA VotingIs ==
    ASSUME NEW vs
    PROVE  vs \in Votings <=> DOMAIN vs \in SUBSET Nodes /\ vs \in [DOMAIN vs -> Hashes]
BY DEF Votings

\* votes_t::clear leaves no votes.
LEMMA NoVoting == NoVotes \in Votings /\ DOMAIN NoVotes = {}
BY VotingIs DEF NoVotes

\* votes_t::add
LEMMA AddIs ==
    ASSUME NEW vs \in Votings, NEW v \in Nodes, NEW h \in Hashes
    PROVE  /\ Add(vs, v, h) \in Votings
           /\ DOMAIN Add(vs, v, h) = DOMAIN vs \cup {v}
           /\ \A u \in DOMAIN vs : Add(vs, v, h)[u] = vs[u]
           /\ v \notin DOMAIN vs => Add(vs, v, h)[v] = h
<1>1. DOMAIN vs \in SUBSET Nodes /\ vs \in [DOMAIN vs -> Hashes]
  BY VotingIs
<1>2. /\ DOMAIN Add(vs, v, h) = DOMAIN vs \cup {v}
      /\ \A u \in DOMAIN vs : Add(vs, v, h)[u] = vs[u]
      /\ v \notin DOMAIN vs => Add(vs, v, h)[v] = h
      /\ Add(vs, v, h) \in [DOMAIN vs \cup {v} -> Hashes]
  BY <1>1 DEF Add
<1> QED BY <1>1, <1>2, VotingIs

\* What is sent is one message for each of the people.
LEMMA SentIs ==
    ASSUME NEW n \in Peers, NEW people \in SUBSET Peers, NEW v \in Nodes, NEW h \in Hashes
    PROVE  /\ Sent(n, people, v, h) \subseteq Message
           /\ \A m \in Sent(n, people, v, h) : m.to \in people /\ m.from = n /\ m.voter = v /\ m.hash = h
           /\ \A p \in people : \E m \in Sent(n, people, v, h) : m.to = p /\ m.voter = v
           /\ IsFiniteSet(Sent(n, people, v, h)) /\ Cardinality(Sent(n, people, v, h)) <= Cardinality(Peers)
<1> DEFINE S == Sent(n, people, v, h)
           f == [p \in people |-> [to |-> p, from |-> n, voter |-> v, hash |-> h]]
<1>1. S \subseteq Message /\ \A m \in S : m.to \in people /\ m.from = n /\ m.voter = v /\ m.hash = h
  BY DEF Sent, Message
<1>2. \A p \in people : f[p] \in S /\ f[p].to = p /\ f[p].voter = v
  BY DEF Sent
<1>3. f \in Surjection(people, S)
  <2>1. ASSUME NEW m \in S PROVE \E p \in people : f[p] = m
    <3>1. m = [to |-> m.to, from |-> n, voter |-> v, hash |-> h] /\ m.to \in people
      BY DEF Sent
    <3> QED BY <3>1
  <2>2. f \in [people -> S]
    BY <1>2
  <2> QED BY <2>1, <2>2 DEF Surjection
<1>4. IsFiniteSet(people) /\ Cardinality(people) <= Cardinality(Peers) /\ IsFiniteSet(Peers)
  BY NodesAssumption, FS_Subset
<1>5. IsFiniteSet(S) /\ Cardinality(S) <= Cardinality(people)
  <2> HIDE DEF f, S
  <2> QED BY <1>3, <1>4, FS_Surjection
<1>6. Cardinality(S) \in Nat /\ Cardinality(people) \in Nat /\ Cardinality(Peers) \in Nat
  BY <1>4, <1>5, FS_CardinalityType
<1>7. Cardinality(S) <= Cardinality(Peers)
  BY <1>4, <1>5, <1>6
<1> QED BY <1>1, <1>2, <1>5, <1>7

\* When no vote is under way any more, everybody has all that were cast.
LEMMA AllHaveHeard ==
    ASSUME TypeOK, SaidAsCast, GoesRound, wire = {}
    PROVE  \A p \in Peers : votes[p] = cast
<1>1. ASSUME NEW v \in DOMAIN cast PROVE \A p \in Peers : v \in DOMAIN votes[p]
  <2> DEFINE S == {p \in Peers : v \in DOMAIN votes[p]}
  <2>1. v \in Nodes
    BY <1>1, VotingIs DEF TypeOK
  <2>2. v \in S
    BY <1>1, <2>1, NodesAssumption DEF GoesRound
  <2>3. ASSUME NEW m \in S \cap Nodes PROVE GetPeople(m) \subseteq S
    BY <2>3 DEF GoesRound, GetPeople
  <2>4. S = Peers
    <3> HIDE DEF S
    <3>1. S \in SUBSET Peers
      BY DEF S
    <3> QED BY <2>1, <2>2, <2>3, <3>1, ConnectedAssumption
  <2> QED BY <2>4
<1>2. ASSUME NEW p \in Peers PROVE votes[p] = cast
  <2>1. votes[p] \in Votings /\ cast \in Votings
    BY DEF TypeOK
  <2>2. votes[p] \in [DOMAIN votes[p] -> Hashes] /\ cast \in [DOMAIN cast -> Hashes]
    BY <2>1, VotingIs
  <2>3. DOMAIN votes[p] = DOMAIN cast /\ \A v \in DOMAIN cast : votes[p][v] = cast[v]
    BY <1>1 DEF SaidAsCast
  <2> QED BY <2>2, <2>3
<1> QED BY <1>2

\* No vote has been cast at the start.
LEMMA FloodInit == Init => FloodInv
<1> SUFFICES ASSUME Init PROVE FloodInv
  OBVIOUS
<1>1. votes \in [Peers -> Votings] /\ cast \in Votings /\ DOMAIN cast = {} /\ \A n \in Peers : DOMAIN votes[n] = {}
  BY NoVoting DEF Init
<1>2. done \in [{"stage1", "stage2"} -> SUBSET Peers] /\ tip \in [Peers -> Hashes \cup {0}] /\ wire = {}
      /\ done["stage2"] = {}
  BY DEF Init
<1>3. TypeOK
  BY <1>1, <1>2 DEF TypeOK
<1>4. SaidAsCast /\ GoesRound
  BY <1>1, <1>2, NodesAssumption DEF SaidAsCast, GoesRound
<1> QED BY <1>1, <1>2, <1>3, <1>4, FS_EmptySet DEF FloodInv

\* stage1 of a node that has a block to vote for.
LEMMA VoteStep ==
    ASSUME FloodInv, NEW n \in Peers, NEW h \in Hashes, VoteTip(n, h)
    PROVE  FloodInv'
<1> DEFINE S == Sent(n, GetPeople(n), n, h)
<1>1. /\ n \in Nodes /\ n \notin done["stage1"]
      /\ done' = [done EXCEPT !["stage1"] = @ \cup {n}]
      /\ votes' = [votes EXCEPT ![n] = Add(@, n, h)]
      /\ wire' = wire \cup S /\ cast' = Add(cast, n, h) /\ tip' = tip
  BY DEF VoteTip, PastStage
<1>2. TypeOK /\ IsFiniteSet(wire) /\ DOMAIN cast \subseteq done["stage1"] /\ SaidAsCast
  BY DEF FloodInv
<1>3. done["stage2"] = {} /\ GoesRound
  BY <1>1 DEF FloodInv, Electing, VotesDelivered
<1>4. votes[n] \in Votings /\ cast \in Votings /\ n \notin DOMAIN cast /\ n \notin DOMAIN votes[n]
  BY <1>1, <1>2 DEF TypeOK, SaidAsCast
<1>5. GetPeople(n) \in SUBSET Peers
  BY DEF GetPeople
<1>6. /\ cast' \in Votings /\ DOMAIN cast' = DOMAIN cast \cup {n}
      /\ cast'[n] = h /\ \A v \in DOMAIN cast : cast'[v] = cast[v]
  <2>1. /\ Add(cast, n, h) \in Votings /\ DOMAIN Add(cast, n, h) = DOMAIN cast \cup {n}
        /\ Add(cast, n, h)[n] = h /\ \A v \in DOMAIN cast : Add(cast, n, h)[v] = cast[v]
    BY <1>1, <1>4, AddIs
  <2> QED BY <1>1, <2>1
<1>7. /\ votes' \in [Peers -> Votings] /\ DOMAIN votes'[n] = DOMAIN votes[n] \cup {n}
      /\ votes'[n][n] = h /\ \A v \in DOMAIN votes[n] : votes'[n][v] = votes[n][v]
      /\ \A p \in Peers : p # n => votes'[p] = votes[p]
  <2>1. /\ Add(votes[n], n, h) \in Votings /\ DOMAIN Add(votes[n], n, h) = DOMAIN votes[n] \cup {n}
        /\ Add(votes[n], n, h)[n] = h /\ \A v \in DOMAIN votes[n] : Add(votes[n], n, h)[v] = votes[n][v]
    BY <1>1, <1>4, AddIs
  <2>2. votes'[n] = Add(votes[n], n, h)
    BY <1>1, <1>2 DEF TypeOK
  <2> QED BY <1>1, <1>2, <2>1, <2>2 DEF TypeOK
<1>8. /\ S \subseteq Message /\ IsFiniteSet(S)
      /\ \A m \in S : m.from = n /\ m.voter = n /\ m.hash = h
      /\ \A p \in GetPeople(n) : \E m \in S : m.to = p /\ m.voter = n
  BY <1>1, <1>5, SentIs
<1> HIDE DEF S
<1>9. done' \in [{"stage1", "stage2"} -> SUBSET Peers] /\ done'["stage1"] = done["stage1"] \cup {n} /\ done'["stage2"] = {}
  BY <1>1, <1>2, <1>3 DEF TypeOK
<1>10. TypeOK'
  BY <1>1, <1>2, <1>6, <1>7, <1>8, <1>9 DEF TypeOK
<1>11. IsFiniteSet(wire')
  BY <1>1, <1>2, <1>8, FS_Union
<1>12. SaidAsCast'
  <2>1. ASSUME NEW m \in wire'
        PROVE  m.voter \in DOMAIN cast' /\ m.hash = cast'[m.voter] /\ m.voter \in DOMAIN votes'[m.from]
    <3>1. CASE m \in S
      BY <1>6, <1>7, <1>8, <3>1
    <3>2. CASE m \in wire
      <4>1. m.voter \in DOMAIN cast /\ m.hash = cast[m.voter] /\ m.voter \in DOMAIN votes[m.from] /\ m.from \in Peers
        BY <1>2, <3>2 DEF SaidAsCast, TypeOK, Message
      <4> QED BY <1>6, <1>7, <4>1
    <3> QED BY <1>1, <3>1, <3>2
  <2>2. ASSUME NEW p \in Peers, NEW v \in DOMAIN votes'[p]
        PROVE  v \in DOMAIN cast' /\ votes'[p][v] = cast'[v]
    <3>1. CASE v \in DOMAIN votes[p]
      <4>1. v \in DOMAIN cast /\ votes[p][v] = cast[v] /\ votes'[p][v] = votes[p][v]
        BY <1>2, <1>7, <3>1 DEF SaidAsCast
      <4> QED BY <1>6, <4>1
    <3>2. CASE v \notin DOMAIN votes[p]
      <4>1. p = n /\ v = n
        BY <1>7, <3>2
      <4> QED BY <1>6, <1>7, <4>1
    <3> QED BY <3>1, <3>2
  <2> QED BY <2>1, <2>2 DEF SaidAsCast
<1>13. GoesRound'
  <2>1. \A p \in Peers : DOMAIN votes[p] \subseteq DOMAIN votes'[p]
    BY <1>7
  <2>2. ASSUME NEW v \in DOMAIN cast' PROVE v \in DOMAIN votes'[v]
    <3>1. CASE v = n
      BY <1>7, <3>1
    <3>2. CASE v \in DOMAIN cast
      <4>1. v \in DOMAIN votes[v] /\ v \in Peers
        BY <1>3, <1>4, <3>2, VotingIs, NodesAssumption DEF GoesRound
      <4> QED BY <2>1, <4>1
    <3> QED BY <1>6, <3>1, <3>2
  <2>3. ASSUME NEW x \in Nodes, NEW v \in DOMAIN votes'[x], NEW p \in GetPeople(x)
        PROVE  v \in DOMAIN votes'[p] \/ \E m \in wire' : m.to = p /\ m.voter = v
    <3>1. CASE v \in DOMAIN votes[x]
      <4>1. v \in DOMAIN votes[p] \/ \E m \in wire : m.to = p /\ m.voter = v
        BY <1>3, <3>1 DEF GoesRound
      <4>2. p \in Peers
        BY DEF GetPeople
      <4> QED BY <1>1, <2>1, <4>1, <4>2
    <3>2. CASE v \notin DOMAIN votes[x]
      <4>1. x = n /\ v = n
        BY <1>7, <3>2, NodesAssumption
      <4>2. \E m \in S : m.to = p /\ m.voter = n
        BY <1>8, <4>1
      <4> QED BY <1>1, <4>1, <4>2
    <3> QED BY <3>1, <3>2
  <2> QED BY <2>2, <2>3 DEF GoesRound
<1>14. DOMAIN cast' \subseteq done'["stage1"]
  BY <1>2, <1>6, <1>9
<1> QED BY <1>9, <1>10, <1>11, <1>12, <1>13, <1>14 DEF FloodInv

\* What process_vote_tip changes: the receiver has heard, and a vote that is
\* new to a node is sent to all its people but the one it came from.
LEMMA ProcessIs ==
    ASSUME FloodInv, NEW m \in wire, ProcessVoteTip(m)
    PROVE  \E S : /\ wire' = (wire \ {m}) \cup S /\ S \subseteq Message /\ IsFiniteSet(S)
                  /\ \A x \in S : x.from = m.to /\ x.voter = m.voter /\ x.hash = m.hash
                  /\ m.voter \in DOMAIN votes[m.to] => S = {}
                  /\ Cardinality(S) <= Cardinality(Peers)
                  /\ m.voter \notin DOMAIN votes[m.to] /\ m.to \in Nodes =>
                       \A p \in GetPeople(m.to) \ {m.from} : \E x \in S : x.to = p /\ x.voter = m.voter
<1> DEFINE people == GetPeople(m.to) \ {m.from}
           T == Sent(m.to, people, m.voter, m.hash)
<1>1. m.to \in Peers /\ m.voter \in Nodes /\ m.hash \in Hashes
  BY DEF FloodInv, TypeOK, Message
<1>2. people \in SUBSET Peers
  BY DEF GetPeople
<1>3. /\ T \subseteq Message /\ IsFiniteSet(T) /\ Cardinality(T) <= Cardinality(Peers)
      /\ \A x \in T : x.from = m.to /\ x.voter = m.voter /\ x.hash = m.hash
      /\ \A p \in people : \E x \in T : x.to = p /\ x.voter = m.voter
  <2> HIDE DEF people
  <2> QED BY <1>1, <1>2, SentIs
<1>4. wire' = (wire \ {m}) \cup (IF m.voter \notin DOMAIN votes[m.to] /\ m.to \in Nodes THEN T ELSE {})
  BY DEF ProcessVoteTip
<1> HIDE DEF T
<1>5. CASE m.voter \notin DOMAIN votes[m.to] /\ m.to \in Nodes
  BY <1>3, <1>4, <1>5
<1>6. CASE ~(m.voter \notin DOMAIN votes[m.to] /\ m.to \in Nodes)
  <2>1. wire' = (wire \ {m}) \cup {}
    BY <1>4, <1>6
  <2>2. IsFiniteSet({}) /\ Cardinality({}) = 0 /\ Cardinality(Peers) \in Nat
    BY NodesAssumption, FS_EmptySet, FS_CardinalityType
  <2> QED BY <1>6, <2>1, <2>2
<1> QED BY <1>5, <1>6

\* process_vote_tip
LEMMA ProcessStep ==
    ASSUME FloodInv, NEW m \in wire, ProcessVoteTip(m)
    PROVE  FloodInv'
<1> DEFINE n == m.to
           v == m.voter
<1>1. PICK S : /\ wire' = (wire \ {m}) \cup S /\ S \subseteq Message /\ IsFiniteSet(S)
               /\ \A x \in S : x.from = n /\ x.voter = v /\ x.hash = m.hash
               /\ v \in DOMAIN votes[n] => S = {}
               /\ v \notin DOMAIN votes[n] /\ n \in Nodes =>
                    \A p \in GetPeople(n) \ {m.from} : \E x \in S : x.to = p /\ x.voter = v
  BY ProcessIs
<1>2. votes' = [votes EXCEPT ![n] = Add(@, v, m.hash)] /\ UNCHANGED <<done, tip, cast>>
  BY DEF ProcessVoteTip
<1>3. TypeOK /\ IsFiniteSet(wire) /\ DOMAIN cast \subseteq done["stage1"] /\ SaidAsCast
  BY DEF FloodInv
<1>4. done["stage2"] = {} /\ GoesRound
  BY DEF FloodInv, Electing, VotesDelivered
<1>5. n \in Peers /\ v \in Nodes /\ m.hash \in Hashes /\ m.from \in Peers
  BY <1>3 DEF TypeOK, Message
<1>6. v \in DOMAIN cast /\ m.hash = cast[v] /\ v \in DOMAIN votes[m.from]
  BY <1>3 DEF SaidAsCast
<1>7. /\ votes' \in [Peers -> Votings] /\ DOMAIN votes'[n] = DOMAIN votes[n] \cup {v}
      /\ \A u \in DOMAIN votes[n] : votes'[n][u] = votes[n][u]
      /\ v \notin DOMAIN votes[n] => votes'[n][v] = m.hash
      /\ \A p \in Peers : p # n => votes'[p] = votes[p]
  <2>1. votes[n] \in Votings
    BY <1>3, <1>5 DEF TypeOK
  <2>2. /\ Add(votes[n], v, m.hash) \in Votings /\ DOMAIN Add(votes[n], v, m.hash) = DOMAIN votes[n] \cup {v}
        /\ \A u \in DOMAIN votes[n] : Add(votes[n], v, m.hash)[u] = votes[n][u]
        /\ v \notin DOMAIN votes[n] => Add(votes[n], v, m.hash)[v] = m.hash
    BY <1>5, <2>1, AddIs
  <2>3. votes'[n] = Add(votes[n], v, m.hash)
    BY <1>2, <1>3, <1>5 DEF TypeOK
  <2> HIDE DEF n, v
  <2> QED BY <1>2, <1>3, <2>2, <2>3 DEF TypeOK
<1> HIDE DEF n, v
<1>8. TypeOK'
  BY <1>1, <1>2, <1>3, <1>7 DEF TypeOK
<1>9. IsFiniteSet(wire')
  BY <1>1, <1>3, FS_Union, FS_RemoveElement
<1>10. \A p \in Peers : DOMAIN votes[p] \subseteq DOMAIN votes'[p]
  BY <1>7
<1>11. SaidAsCast'
  <2>1. ASSUME NEW x \in wire'
        PROVE  x.voter \in DOMAIN cast' /\ x.hash = cast'[x.voter] /\ x.voter \in DOMAIN votes'[x.from]
    <3>1. CASE x \in S
      BY <1>1, <1>2, <1>6, <1>7, <3>1
    <3>2. CASE x \in wire
      <4>1. x.voter \in DOMAIN cast /\ x.hash = cast[x.voter] /\ x.voter \in DOMAIN votes[x.from] /\ x.from \in Peers
        BY <1>3, <3>2 DEF SaidAsCast, TypeOK, Message
      <4> QED BY <1>2, <1>10, <4>1
    <3> QED BY <1>1, <3>1, <3>2
  <2>2. ASSUME NEW p \in Peers, NEW u \in DOMAIN votes'[p]
        PROVE  u \in DOMAIN cast' /\ votes'[p][u] = cast'[u]
    <3>1. CASE u \in DOMAIN votes[p]
      <4>1. u \in DOMAIN cast /\ votes[p][u] = cast[u] /\ votes'[p][u] = votes[p][u]
        BY <1>3, <1>7, <3>1 DEF SaidAsCast
      <4> QED BY <1>2, <4>1
    <3>2. CASE u \notin DOMAIN votes[p]
      <4>1. p = n /\ u = v
        BY <1>7, <3>2
      <4> QED BY <1>2, <1>6, <1>7, <3>2, <4>1
    <3> QED BY <3>1, <3>2
  <2> QED BY <2>1, <2>2 DEF SaidAsCast
<1>12. GoesRound'
  <2>1. ASSUME NEW u \in DOMAIN cast' PROVE u \in DOMAIN votes'[u]
    <3>1. u \in DOMAIN votes[u] /\ u \in Peers
      BY <1>2, <1>3, <1>4, VotingIs, NodesAssumption DEF GoesRound, TypeOK
    <3> QED BY <1>10, <3>1
  <2>2. ASSUME NEW x \in Nodes, NEW u \in DOMAIN votes'[x], NEW p \in GetPeople(x)
        PROVE  u \in DOMAIN votes'[p] \/ \E y \in wire' : y.to = p /\ y.voter = u
    <3>1. p \in Peers
      BY DEF GetPeople
    <3>2. CASE u \in DOMAIN votes[x]
      <4>1. u \in DOMAIN votes[p] \/ \E y \in wire : y.to = p /\ y.voter = u
        BY <1>4, <3>2 DEF GoesRound
      <4>2. CASE u \in DOMAIN votes[p]
        BY <1>10, <3>1, <4>2
      <4>3. ASSUME NEW y \in wire, y.to = p, y.voter = u
            PROVE  u \in DOMAIN votes'[p] \/ \E z \in wire' : z.to = p /\ z.voter = u
        <5>1. CASE y = m
          <6>1. p = n /\ u = v
            BY <4>3, <5>1 DEF n, v
          <6> QED BY <1>7, <6>1
        <5>2. CASE y # m
          BY <1>1, <4>3, <5>2
        <5> QED BY <5>1, <5>2
      <4> QED BY <4>1, <4>2, <4>3
    <3>3. CASE u \notin DOMAIN votes[x]
      <4>1. x = n /\ u = v /\ v \notin DOMAIN votes[n] /\ n \in Nodes
        BY <1>7, <3>3, NodesAssumption
      <4>2. CASE p = m.from
        BY <1>5, <1>6, <1>10, <4>1, <4>2
      <4>3. CASE p # m.from
        <5>1. \E y \in S : y.to = p /\ y.voter = v
          BY <1>1, <4>1, <4>3
        <5> QED BY <1>1, <4>1, <5>1
      <4> QED BY <4>2, <4>3
    <3> QED BY <3>2, <3>3
  <2> QED BY <2>1, <2>2 DEF GoesRound
<1> QED BY <1>2, <1>3, <1>4, <1>8, <1>9, <1>11, <1>12 DEF FloodInv

\* stage2
LEMMA ElectStep ==
    ASSUME FloodInv, NEW n \in Peers, Stage2(n)
    PROVE  FloodInv'
<1>1. /\ n \notin done["stage2"] /\ VotesDelivered
      /\ tip' = [tip EXCEPT ![n] = Select(votes[n])]
      /\ votes' = [votes EXCEPT ![n] = NoVotes]
      /\ done' = [done EXCEPT !["stage2"] = @ \cup {n}]
      /\ UNCHANGED <<wire, cast>>
  BY DEF Stage2, PastStage
<1>2. TypeOK /\ IsFiniteSet(wire) /\ DOMAIN cast \subseteq done["stage1"] /\ SaidAsCast /\ wire = {} /\ wire' = {}
  BY <1>1 DEF FloodInv, VotesDelivered
<1>3. /\ \A p \in Peers \ done["stage2"] : votes[p] = cast
      /\ \A p \in done["stage2"] : votes[p] = NoVotes /\ tip[p] = Select(cast)
  BY <1>2, AllHaveHeard DEF FloodInv, Electing
<1>4. /\ done' \in [{"stage1", "stage2"} -> SUBSET Peers]
      /\ done'["stage1"] = done["stage1"] /\ done'["stage2"] = done["stage2"] \cup {n}
  BY <1>1, <1>2 DEF TypeOK
<1>5. /\ votes' \in [Peers -> Votings] /\ votes'[n] = NoVotes
      /\ \A p \in Peers : p # n => votes'[p] = votes[p]
  BY <1>1, <1>2, NoVoting DEF TypeOK
<1>6. Select(cast) \in Hashes \cup {0}
  BY <1>2, SelectsTheWinner DEF TypeOK
<1>7. tip' \in [Peers -> Hashes \cup {0}] /\ tip'[n] = Select(cast) /\ \A p \in Peers : p # n => tip'[p] = tip[p]
  BY <1>1, <1>2, <1>3, <1>6 DEF TypeOK
<1>8. TypeOK'
  BY <1>1, <1>2, <1>4, <1>5, <1>7 DEF TypeOK
<1>9. SaidAsCast'
  BY <1>1, <1>2, <1>5, NoVoting DEF SaidAsCast
<1>10. Electing'
  <2>1. VotesDelivered'
    BY <1>1, <1>4 DEF VotesDelivered
  <2>2. ASSUME NEW p \in Peers \ done'["stage2"] PROVE votes'[p] = cast'
    BY <1>1, <1>3, <1>4, <1>5
  <2>3. ASSUME NEW p \in done'["stage2"] PROVE votes'[p] = NoVotes /\ tip'[p] = Select(cast')
    <3>1. CASE p = n
      BY <1>1, <1>5, <1>7, <3>1
    <3>2. CASE p # n
      <4>1. p \in done["stage2"] /\ p \in Peers
        BY <1>2, <1>4, <3>2 DEF TypeOK
      <4> QED BY <1>1, <1>3, <1>5, <1>7, <3>2, <4>1
    <3> QED BY <3>1, <3>2
  <2> QED BY <2>1, <2>2, <2>3 DEF Electing
<1> QED BY <1>1, <1>2, <1>4, <1>8, <1>9, <1>10 DEF FloodInv

\* stage1 of a peer that does not vote, and the next minute.
LEMMA OtherStep ==
    ASSUME FloodInv, (\E n \in Peers : Abstain(n)) \/ NewCycle \/ UNCHANGED vars
    PROVE  FloodInv'
<1>1. ASSUME NEW n \in Peers, Abstain(n) PROVE FloodInv'
  <2>1. done' = [done EXCEPT !["stage1"] = @ \cup {n}] /\ UNCHANGED <<votes, wire, tip, cast>> /\ n \notin done["stage1"]
    BY <1>1 DEF Abstain, PastStage
  <2>2. /\ done' \in [{"stage1", "stage2"} -> SUBSET Peers]
        /\ done'["stage1"] = done["stage1"] \cup {n} /\ done'["stage2"] = done["stage2"]
    BY <2>1 DEF FloodInv, TypeOK
  <2>3. done["stage2"] = {}
    BY <2>1 DEF FloodInv, Electing, VotesDelivered
  <2> QED BY <2>1, <2>2, <2>3 DEF FloodInv, TypeOK, SaidAsCast, GoesRound
<1>2. CASE NewCycle
  <2>1. /\ done["stage2"] = Peers /\ done' = [s \in {"stage1", "stage2"} |-> {}]
        /\ cast' = NoVotes /\ UNCHANGED <<votes, wire, tip>>
    BY <1>2 DEF NewCycle
  <2>2. wire = {} /\ \A n \in Peers : DOMAIN votes[n] = {}
    <3>1. CASE Peers = {}
      BY <3>1 DEF FloodInv, TypeOK, Message
    <3>2. CASE Peers # {}
      BY <2>1, <3>2, NoVoting DEF FloodInv, Electing, VotesDelivered
    <3> QED BY <3>1, <3>2
  <2>3. /\ done' \in [{"stage1", "stage2"} -> SUBSET Peers] /\ done'["stage2"] = {}
        /\ cast' \in Votings /\ DOMAIN cast' = {}
    BY <2>1, NoVoting
  <2>4. TypeOK'
    BY <2>1, <2>3 DEF FloodInv, TypeOK
  <2>5. SaidAsCast' /\ GoesRound'
    BY <2>1, <2>2, <2>3, NodesAssumption DEF SaidAsCast, GoesRound
  <2> QED BY <2>1, <2>3, <2>4, <2>5 DEF FloodInv
<1>3. CASE UNCHANGED vars
  BY <1>3 DEF vars, FloodInv, TypeOK, SaidAsCast, GoesRound, Electing, VotesDelivered
<1> QED BY <1>1, <1>2, <1>3

\* Every step keeps the invariant.
LEMMA FloodStep == FloodInv /\ [Next]_vars => FloodInv'
BY VoteStep, ProcessStep, ElectStep, OtherStep DEF Next

\* In any network that its nodes connect, for any number of peers and any
\* votes, whatever the order in which votes arrive and are relayed: every peer
\* elects the block with the most votes of those that the nodes have cast,
\* the one with the greatest hash if there are several (vote_tip,
\* process_vote_tip, votes_t::add, votes_t::select).
THEOREM WinnerElected == Spec => []ElectsTheWinner
<1>1. FloodInv => ElectsTheWinner
  BY SelectsTheWinner DEF FloodInv, Electing, TypeOK, ElectsTheWinner
<1> QED BY <1>1, FloodInit, FloodStep, PTL DEF Spec

-----------------------------------------------------------------------------
\* Peers and nodes whose vote they have not heard.
Unheard == {nv \in Peers \X Nodes : nv[2] \notin DOMAIN votes[nv[1]]}

LEMMA UnheardFinite == IsFiniteSet(Unheard) /\ Cardinality(Unheard) \in Nat
<1>1. IsFiniteSet(Peers) /\ IsFiniteSet(Nodes)
  BY NodesAssumption, FS_Subset
<1>2. IsFiniteSet(Peers \X Nodes)
  BY <1>1, FS_Product
<1>3. Unheard \in SUBSET (Peers \X Nodes)
  BY DEF Unheard
<1>4. IsFiniteSet(Unheard)
  BY <1>2, <1>3, FS_Subset
<1> QED BY <1>4, FS_CardinalityType

\* process_vote_tip leaves less to be sent.
LEMMA ProcessShrinks ==
    ASSUME FloodInv, NEW m \in wire, ProcessVoteTip(m)
    PROVE  Pending' < Pending
<1> DEFINE n == m.to
           v == m.voter
           W == Cardinality(wire)
           P == Cardinality(Peers)
           U == Cardinality(Unheard)
<1>1. PICK S : /\ wire' = (wire \ {m}) \cup S /\ IsFiniteSet(S)
               /\ v \in DOMAIN votes[n] => S = {}
               /\ Cardinality(S) <= Cardinality(Peers)
  BY ProcessIs
<1>2. Pending = W + P * U /\ Pending' = Cardinality(wire') + P * Cardinality(Unheard')
  BY DEF Pending, Unheard
<1>3. IsFiniteSet(wire) /\ n \in Peers /\ v \in Nodes /\ m.hash \in Hashes /\ votes \in [Peers -> Votings]
  BY DEF FloodInv, TypeOK, Message
<1>4. W \in Nat /\ P \in Nat /\ U \in Nat /\ Cardinality(S) \in Nat /\ Cardinality(wire') \in Nat /\ IsFiniteSet(wire')
  BY <1>1, <1>3, NodesAssumption, UnheardFinite, FS_CardinalityType, FS_RemoveElement, FS_Union
<1>5. Cardinality(wire') <= W - 1 + Cardinality(S)
  <2> DEFINE r == wire \ {m}
  <2>1. IsFiniteSet(r) /\ Cardinality(r) = W - 1
    BY <1>3, FS_RemoveElement
  <2> HIDE DEF r
  <2>2. Cardinality(r \cup S) = Cardinality(r) + Cardinality(S) - Cardinality(r \cap S)
    BY <1>1, <2>1, FS_Union
  <2>3. Cardinality(r \cap S) \in Nat
    <3>1. r \cap S \in SUBSET S
      OBVIOUS
    <3> QED BY <1>1, <3>1, FS_Subset, FS_CardinalityType
  <2>4. wire' = r \cup S
    BY <1>1 DEF r
  <2> HIDE DEF W
  <2> QED BY <1>4, <2>1, <2>2, <2>3, <2>4
<1>6. votes'[n] = Add(votes[n], v, m.hash) /\ \A p \in Peers : p # n => votes'[p] = votes[p]
  BY <1>3 DEF ProcessVoteTip
<1>7. DOMAIN votes'[n] = DOMAIN votes[n] \cup {v}
  <2>1. votes[n] \in Votings
    BY <1>3
  <2>2. DOMAIN Add(votes[n], v, m.hash) = DOMAIN votes[n] \cup {v}
    <3>1. v \in Nodes /\ m.hash \in Hashes
      BY <1>3
    <3> HIDE DEF n, v
    <3> QED BY <2>1, <3>1, AddIs
  <2> QED BY <1>6, <2>2
<1>8. CASE v \in DOMAIN votes[n]
  <2>1. S = {} /\ Cardinality(S) = 0
    BY <1>1, <1>8, FS_EmptySet
  <2>2. Unheard' = Unheard
    BY <1>6, <1>7, <1>8 DEF Unheard
  <2>3. Cardinality(wire') <= W - 1
    BY <1>4, <1>5, <2>1
  <2>4. P * U \in Nat
    BY <1>4
  <2> DEFINE q == P * U
  <2>5. Pending = W + q /\ Pending' = Cardinality(wire') + q /\ q \in Nat
    BY <1>2, <2>2, <2>4
  <2> HIDE DEF q, W
  <2> QED BY <1>4, <2>3, <2>5
<1>9. CASE v \notin DOMAIN votes[n]
  <2>1. Unheard' = Unheard \ {<<n, v>>} /\ <<n, v>> \in Unheard
    BY <1>3, <1>6, <1>7, <1>9 DEF Unheard
  <2>2. Cardinality(Unheard') = U - 1
    BY <2>1, UnheardFinite, FS_RemoveElement
  <2>3. Cardinality(Unheard') \in Nat
    BY <2>1, UnheardFinite, FS_RemoveElement, FS_CardinalityType
  <2> DEFINE q == P * U
             r == P * Cardinality(Unheard')
  <2>4. q \in Nat /\ r \in Nat /\ q = r + P
    <3> DEFINE u == Cardinality(Unheard')
    <3>1. u \in Nat /\ U = u + 1
      BY <1>4, <2>2, <2>3
    <3> HIDE DEF P, U, u
    <3>2. P * (u + 1) = P * u + P /\ P * u \in Nat
      BY <1>4, <3>1
    <3> QED BY <1>4, <3>1, <3>2 DEF u
  <2>5. Pending = W + q /\ Pending' = Cardinality(wire') + r
    BY <1>2
  <2> HIDE DEF q, r, W
  <2>6. Cardinality(S) <= P
    BY <1>1
  <2> HIDE DEF P
  <2> QED BY <1>4, <1>5, <2>4, <2>5, <2>6
<1> QED BY <1>8, <1>9

\* In any network of finitely many peers: every vote that is handled leaves
\* less to be sent, so that loops do not keep a vote going round
\* (process_vote_tip).
THEOREM FloodEnds == Spec => FloodShrinks
<1> DEFINE Step == wire \ wire' # {} => Pending' < Pending
<1>1. FloodInv /\ [Next]_vars => [Step]_vars
  <2> SUFFICES ASSUME FloodInv, Next, wire \ wire' # {} PROVE Pending' < Pending
    OBVIOUS
  <2>1. PICK m \in wire : ProcessVoteTip(m)
    BY DEF Next, VoteTip, Abstain, Stage2, NewCycle
  <2> QED BY <2>1, ProcessShrinks
<1> QED BY <1>1, FloodInit, FloodStep, PTL DEF Spec, FloodShrinks

-----------------------------------------------------------------------------
(***************************************************************************)
(* The pool of local deltas.                                               *)
(***************************************************************************)

\* What workers are about to relay of the pubkey k.
ToRelay(k) == {d \in torelay : Pub[d] = k}

\* One delta of each pubkey was let through per pool, the present one included
\* when the pubkey is in its proof_of_work.
BoundInv ==
    /\ IsFiniteSet(torelay)
    /\ \A k \in PubKeys :
         IF mpc = "start" THEN ToRelay(k) = {} /\ relays[k] = 0 /\ k \notin pow
         ELSE relays[k] + Cardinality(ToRelay(k)) + (IF k \in pow THEN 0 ELSE 1) <= pools
    /\ mpc = "start" => pools = 0

Signers(S) == {SignerOf(x) : x \in S}

\* What the pool holds and what workers are about to add to it are of distinct
\* signers, and proof_of_work lists exactly these.
PoolInv ==
    /\ OnePerSigner(merged \cup allowed)
    /\ pow = Signers(merged \cup allowed)
    /\ OnePerSigner(new_diff.merged)
    /\ new_diff.pow = Signers(new_diff.merged)

\* Every step of the main loop and of the workers keeps the types.
LEMMA DeltasTypeStep == PoolTypeOK /\ [PoolNext]_poolvars => PoolTypeOK'
<1> SUFFICES ASSUME PoolTypeOK, [PoolNext]_poolvars PROVE PoolTypeOK'
  OBVIOUS
<1> USE DEF PoolTypeOK, Deltas
<1>1. CASE CreatePool BY <1>1 DEF CreatePool, log
<1>2. CASE Stage3Send BY <1>2 DEF Stage3Send, log
<1>3. CASE Stage3Add BY <1>3 DEF Stage3Add, PubKeys, log
<1>4. CASE Stage4 BY <1>4 DEF Stage4, log
<1>5. ASSUME NEW d \in Dgrams, ArriveTooEarly(d) PROVE PoolTypeOK'
  BY <1>5 DEF ArriveTooEarly, log
<1>6. ASSUME NEW d \in Dgrams, Allow(d) PROVE PoolTypeOK'
  BY <1>6 DEF Allow, PubKeys, log
<1>7. ASSUME NEW d \in Dgrams, NEW h \in BOOLEAN, AddDelta(d, h) PROVE PoolTypeOK'
  BY <1>7 DEF AddDelta, log
<1>8. ASSUME NEW d \in Dgrams, Relay(d) PROVE PoolTypeOK'
  BY <1>8 DEF Relay, PubKeys
<1>9. CASE UNCHANGED poolvars BY <1>9 DEF poolvars, log
<1> QED BY <1>1, <1>2, <1>3, <1>4, <1>5, <1>6, <1>7, <1>8, <1>9 DEF PoolNext, Main, Worker

\* Type correctness of the pool, its workers and the main loop's part in it.
THEOREM DeltasTyped == PoolSpec => []PoolTypeOK
<1>1. ASSUME PoolInit PROVE PoolTypeOK
  <2>1. new_diff \in [pow : SUBSET PubKeys, merged : SUBSET Deltas]
    BY <1>1 DEF PoolInit
  <2> QED BY <1>1, <2>1 DEF PoolInit, PoolTypeOK
<1> QED BY <1>1, DeltasTypeStep, PTL DEF PoolSpec

\* Every step keeps BoundInv, workers that stage4 overtakes included.
LEMMA BoundStep == PoolTypeOK /\ BoundInv /\ [PoolNext]_poolvars => BoundInv'
<1> SUFFICES ASSUME PoolTypeOK, BoundInv, [PoolNext]_poolvars PROVE BoundInv'
  OBVIOUS
<1>0. \A k \in PubKeys : /\ relays[k] \in Nat /\ pools \in Nat
                         /\ Cardinality(ToRelay(k)) \in Nat /\ IsFiniteSet(ToRelay(k))
  <2>1. \A k \in PubKeys : ToRelay(k) \subseteq torelay
    BY DEF ToRelay
  <2> QED BY <2>1, FS_Subset, FS_CardinalityType DEF BoundInv, PoolTypeOK
<1>10. ASSUME UNCHANGED <<torelay, relays, pools>>, pow \subseteq pow', mpc # "start", mpc' # "start" PROVE BoundInv'
  <2>1. \A k \in PubKeys : ToRelay(k)' = ToRelay(k)
    BY <1>10 DEF ToRelay
  <2> QED BY <1>0, <1>10, <2>1 DEF BoundInv
<1>1. CASE CreatePool
  <2>1. mpc = "start" /\ mpc' # "start" /\ pools' = 1 /\ UNCHANGED <<torelay, relays, pow>>
    BY <1>1 DEF CreatePool
  <2>2. \A k \in PubKeys : ToRelay(k)' = {} /\ Cardinality(ToRelay(k)') = 0
    BY <2>1, FS_EmptySet DEF ToRelay, BoundInv
  <2> QED BY <2>1, <2>2 DEF BoundInv
<1>2. CASE Stage3Send BY <1>2, <1>10 DEF Stage3Send, log
<1>3. CASE Stage3Add BY <1>3, <1>10 DEF Stage3Add, log
<1>4. CASE Stage4
  <2>1. mpc # "start" /\ mpc' # "start" /\ pools' = pools + 1 /\ UNCHANGED <<torelay, relays>>
    BY <1>4 DEF Stage4
  <2>2. \A k \in PubKeys : ToRelay(k)' = ToRelay(k)
    BY <2>1 DEF ToRelay
  <2> QED BY <1>0, <2>1, <2>2 DEF BoundInv
<1>5. ASSUME NEW d \in Dgrams, ArriveTooEarly(d) PROVE BoundInv'
  <2>1. UNCHANGED <<mpc, pow, torelay, relays, pools>>
    BY <1>5 DEF ArriveTooEarly, log
  <2> QED BY <2>1 DEF BoundInv, ToRelay
<1>6. ASSUME NEW d \in Dgrams, Allow(d) PROVE BoundInv'
  <2>1. /\ mpc # "start" /\ Pub[d] \notin pow /\ pow' = pow \cup {Pub[d]} /\ torelay' = torelay \cup {d}
        /\ UNCHANGED <<mpc, relays, pools>>
    BY <1>6 DEF Allow, log
  <2>2. IsFiniteSet(torelay')
    BY <2>1, FS_AddElement DEF BoundInv
  <2>3. ASSUME NEW k \in PubKeys
        PROVE  relays[k] + Cardinality(ToRelay(k)') + (IF k \in pow' THEN 0 ELSE 1) <= pools
    <3>1. CASE k = Pub[d]
      <4>1. ToRelay(k)' = ToRelay(k) \cup {d}
        BY <2>1, <3>1 DEF ToRelay
      <4>2. Cardinality(ToRelay(k)') \in Nat /\ Cardinality(ToRelay(k)') <= Cardinality(ToRelay(k)) + 1
        <5> DEFINE T == ToRelay(k)
        <5>1. IsFiniteSet(T) /\ Cardinality(T) \in Nat
          BY <1>0
        <5> HIDE DEF T
        <5>2. /\ IsFiniteSet(T \cup {d})
              /\ Cardinality(T \cup {d}) = Cardinality(T) \/ Cardinality(T \cup {d}) = Cardinality(T) + 1
          BY <5>1, FS_AddElement
        <5>3. Cardinality(T \cup {d}) \in Nat /\ Cardinality(T \cup {d}) <= Cardinality(T) + 1
          BY <5>1, <5>2, FS_CardinalityType
        <5> QED BY <4>1, <5>3 DEF T
      <4> QED BY <1>0, <2>1, <3>1, <4>2 DEF BoundInv
    <3>2. CASE k # Pub[d]
      <4>1. ToRelay(k)' = ToRelay(k) /\ (k \in pow' <=> k \in pow)
        BY <2>1, <3>2 DEF ToRelay
      <4> QED BY <2>1, <4>1 DEF BoundInv
    <3> QED BY <3>1, <3>2
  <2> QED BY <2>1, <2>2, <2>3 DEF BoundInv
<1>7. ASSUME NEW d \in Dgrams, NEW h \in BOOLEAN, AddDelta(d, h) PROVE BoundInv'
  <2>1. UNCHANGED <<mpc, pow, torelay, relays, pools>>
    BY <1>7 DEF AddDelta, log
  <2> QED BY <2>1 DEF BoundInv, ToRelay
<1>8. ASSUME NEW d \in Dgrams, Relay(d) PROVE BoundInv'
  <2>1. /\ d \in torelay /\ torelay' = torelay \ {d} /\ relays' = [relays EXCEPT ![Pub[d]] = @ + 1]
        /\ UNCHANGED <<mpc, pow, pools>> /\ Pub[d] \in PubKeys
    BY <1>8 DEF Relay, PubKeys
  <2>2. IsFiniteSet(torelay')
    BY <2>1, FS_RemoveElement DEF BoundInv
  <2>3. mpc # "start"
    BY <2>1 DEF BoundInv, ToRelay
  <2>4. ASSUME NEW k \in PubKeys
        PROVE  relays'[k] + Cardinality(ToRelay(k)') + (IF k \in pow THEN 0 ELSE 1) <= pools
    <3>1. CASE k = Pub[d]
      <4>1. ToRelay(k)' = ToRelay(k) \ {d} /\ d \in ToRelay(k)
        BY <2>1, <3>1 DEF ToRelay
      <4>2. Cardinality(ToRelay(k)') = Cardinality(ToRelay(k)) - 1
        BY <1>0, <4>1, FS_RemoveElement
      <4>3. relays'[k] = relays[k] + 1
        BY <2>1, <3>1 DEF PoolTypeOK
      <4> QED BY <1>0, <2>3, <4>2, <4>3 DEF BoundInv
    <3>2. CASE k # Pub[d]
      <4>1. ToRelay(k)' = ToRelay(k) /\ relays'[k] = relays[k]
        BY <2>1, <3>2 DEF ToRelay, PoolTypeOK
      <4> QED BY <2>3, <4>1 DEF BoundInv
    <3> QED BY <3>1, <3>2
  <2> QED BY <2>1, <2>2, <2>3, <2>4 DEF BoundInv
<1>9. CASE UNCHANGED poolvars
  <2>1. UNCHANGED <<mpc, pow, torelay, relays, pools>>
    BY <1>9 DEF poolvars, log
  <2> QED BY <2>1 DEF BoundInv, ToRelay
<1> QED BY <1>1, <1>2, <1>3, <1>4, <1>5, <1>6, <1>7, <1>8, <1>9 DEF PoolNext, Main, Worker

\* Whatever the interleaving of process_incoming_local_deltas with stage3 and
\* stage4, a node never relays more deltas of a pubkey than it has had pools.
THEOREM RelayBounded == PoolSpec => []RelaysBounded
<1>1. PoolInit => BoundInv
  <2> SUFFICES ASSUME PoolInit PROVE BoundInv
    OBVIOUS
  <2> QED BY FS_EmptySet DEF PoolInit, BoundInv, ToRelay
<1>2. PoolTypeOK /\ BoundInv => RelaysBounded
  <2> SUFFICES ASSUME PoolTypeOK, BoundInv, NEW k \in PubKeys PROVE relays[k] <= pools
    BY DEF RelaysBounded
  <2>1. relays[k] \in Nat /\ pools \in Nat
    BY DEF PoolTypeOK
  <2>2. Cardinality(ToRelay(k)) \in Nat
    <3>1. ToRelay(k) \subseteq torelay
      BY DEF ToRelay
    <3> QED BY <3>1, FS_Subset, FS_CardinalityType DEF BoundInv
  <2> QED BY <2>1, <2>2 DEF BoundInv
<1> QED BY <1>1, <1>2, DeltasTyped, BoundStep, PTL DEF PoolSpec

\* A new signer's delta can join a set of deltas of distinct signers.
LEMMA JoinSigners ==
    ASSUME NEW S, OnePerSigner(S), NEW x, SignerOf(x) \notin Signers(S)
    PROVE  /\ OnePerSigner(S \cup {x})
           /\ Signers(S \cup {x}) = Signers(S) \cup {SignerOf(x)}
BY DEF OnePerSigner, Signers

\* Once stage4 has overtaken a worker, it has.
LEMMA OvertakenStays == [PoolNext]_poolvars /\ ~overtaken' => ~overtaken
<1> SUFFICES ASSUME [PoolNext]_poolvars, ~overtaken' PROVE ~overtaken
  OBVIOUS
<1>1. CASE CreatePool BY <1>1 DEF CreatePool
<1>2. CASE Stage3Send BY <1>2 DEF Stage3Send, log
<1>3. CASE Stage3Add BY <1>3 DEF Stage3Add, log
<1>4. CASE Stage4 BY <1>4, Zenon DEF Stage4
<1>5. ASSUME NEW d \in Dgrams, Worker(d) PROVE ~overtaken
  BY <1>5 DEF Worker, ArriveTooEarly, Allow, Relay, AddDelta, log
<1>6. CASE UNCHANGED poolvars BY <1>6 DEF poolvars, log
<1> QED BY <1>1, <1>2, <1>3, <1>4, <1>5, <1>6 DEF PoolNext, Main

\* Until stage4 overtakes a worker, every step keeps PoolInv.
LEMMA PoolStep ==
    PoolTypeOK /\ (~overtaken => PoolInv) /\ [PoolNext]_poolvars => (~overtaken => PoolInv)'
<1> SUFFICES ASSUME PoolTypeOK, PoolInv, [PoolNext]_poolvars, ~overtaken' PROVE PoolInv'
  BY OvertakenStays
<1>10. ASSUME UNCHANGED <<merged, allowed, pow, new_diff>> PROVE PoolInv'
  BY <1>10 DEF PoolInv, Signers, OnePerSigner
<1>11. ASSUME UNCHANGED new_diff
      PROVE  (OnePerSigner(new_diff.merged) /\ new_diff.pow = Signers(new_diff.merged))'
  BY <1>11 DEF PoolInv, Signers, OnePerSigner
<1>12. ASSUME NEW x, SignerOf(x) \notin pow, UNCHANGED new_diff,
             (merged \cup allowed)' = (merged \cup allowed) \cup {x},
             pow' = pow \cup {SignerOf(x)}
      PROVE  PoolInv'
  <2>1. OnePerSigner((merged \cup allowed) \cup {x})
        /\ Signers((merged \cup allowed) \cup {x}) = pow \cup {SignerOf(x)}
    BY <1>12, JoinSigners DEF PoolInv
  <2> QED BY <1>12, <2>1, <1>11 DEF PoolInv
<1>1. CASE CreatePool BY <1>1, <1>10 DEF CreatePool
<1>2. CASE Stage3Send BY <1>2, <1>10 DEF Stage3Send
<1>3. CASE Stage3Add
  <2>1. CASE Self \in pow
    BY <2>1, <1>3, <1>10 DEF Stage3Add
  <2>2. CASE Self \notin pow
    <3>1. SignerOf(Own) = Self
      BY DEF SignerOf
    <3> QED BY <2>2, <3>1, <1>3, <1>12 DEF Stage3Add
  <2> QED BY <2>1, <2>2
<1>4. CASE Stage4
  <2>1. allowed = {} /\ allowed' = {} /\ merged' = {} /\ pow' = {}
        /\ new_diff' = [pow |-> pow, merged |-> merged]
    BY <1>4 DEF Stage4
  <2>2. OnePerSigner(merged) /\ pow = Signers(merged)
    BY <2>1 DEF PoolInv
  <2>3. (OnePerSigner(merged \cup allowed) /\ pow = Signers(merged \cup allowed))'
    BY <2>1 DEF OnePerSigner, Signers
  <2>4. new_diff'.merged = merged /\ new_diff'.pow = pow
    BY <2>1
  <2> QED BY <2>2, <2>3, <2>4 DEF PoolInv, Signers
<1>5. ASSUME NEW d \in Dgrams, ArriveTooEarly(d) PROVE PoolInv'
  BY <1>5, <1>10 DEF ArriveTooEarly
<1>6. ASSUME NEW d \in Dgrams, Allow(d) PROVE PoolInv'
  <2>1. SignerOf(d) = Pub[d]
    BY OwnAssumption DEF SignerOf
  <2> QED BY <2>1, <1>6, <1>12 DEF Allow
<1>7. ASSUME NEW d \in Dgrams, NEW h \in BOOLEAN, AddDelta(d, h) PROVE PoolInv'
  <2>1. (merged \cup allowed)' = merged \cup allowed /\ UNCHANGED <<pow, new_diff>>
    BY <1>7 DEF AddDelta
  <2> QED BY <2>1, <1>11 DEF PoolInv
<1>8. ASSUME NEW d \in Dgrams, Relay(d) PROVE PoolInv'
  BY <1>8, <1>10 DEF Relay
<1>9. CASE UNCHANGED poolvars BY <1>9, <1>10 DEF poolvars
<1> QED BY <1>1, <1>2, <1>3, <1>4, <1>5, <1>6, <1>7, <1>8, <1>9 DEF PoolNext, Main, Worker

\* Until stage4 overtakes a worker, PoolInv holds.
LEMMA PoolInvariant == PoolSpec => [](~overtaken => PoolInv)
<1>1. PoolInit => (~overtaken => PoolInv)
  BY DEF PoolInit, PoolInv, OnePerSigner, Signers
<1> QED BY <1>1, DeltasTyped, PoolStep, PTL DEF PoolSpec

\* Until stage4 overtakes a worker, no diff merges two deltas of one node.
THEOREM OneDelta == PoolSpec => []OneDeltaPerPubkey
<1>1. (~overtaken => PoolInv) => OneDeltaPerPubkey
  BY DEF PoolInv, OneDeltaPerPubkey, OnePerSigner
<1> QED BY <1>1, PoolInvariant, PTL

\* Until stage4 overtakes a worker, a block rewards exactly the signers of the
\* deltas merged into it.
THEOREM RewardsMatch == PoolSpec => []ProofOfWorkMatches
<1>1. (~overtaken => PoolInv) => ProofOfWorkMatches
  BY DEF PoolInv, ProofOfWorkMatches, Signers
<1> QED BY <1>1, PoolInvariant, PTL
=============================================================================
