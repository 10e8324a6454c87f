------------------------- MODULE JettonLedgerProofs -------------------------
(***************************************************************************)
(* The supply of the jetton covers what its wallets hold and what is on    *)
(* the way, for every number of accounts, orders and faults.               *)
(***************************************************************************)
EXTENDS JettonLedger, FiniteSetTheorems, WellFoundedInduction, TLAPS

-----------------------------------------------------------------------------
(* Sums over finite sets *)

LEMMA LeastOfNats ==
  ASSUME NEW S, S \subseteq Nat, S # {}
  PROVE  \E m \in S : \A n \in S : m <= n
<1>1. PICK m \in S : \A n \in S : ~(<<n, m>> \in OpToRel(<, Nat))
  BY NatLessThanWellFounded, WFMin
<1>2. ASSUME NEW n \in S, n < m PROVE FALSE
  <2>1. <<n, m>> \in Nat \X Nat
    OBVIOUS
  <2>2. <<n, m>> \in OpToRel(<, Nat)
    BY <1>2, <2>1 DEF OpToRel
  <2> QED
    BY <1>1, <2>2
<1> QED
  BY <1>2

\* Induction over finite sets, with a set of sets for the counterexamples.
LEMMA MinimalSubset ==
  ASSUME NEW S, IsFiniteSet(S), NEW C, C \subseteq SUBSET S, C # {}
  PROVE  \E t \in C : \A u \in C : u \subseteq t => u = t
<1> DEFINE sizes == {Cardinality(t) : t \in C}
<1>1. \A t \in C : IsFiniteSet(t) /\ Cardinality(t) \in Nat
  BY FS_Subset, FS_CardinalityType
<1>2. sizes \subseteq Nat /\ sizes # {}
  BY <1>1
<1>3. \E n \in sizes : \A k \in sizes : n <= k
  <2> HIDE DEF sizes
  <2> QED
    BY <1>2, LeastOfNats
<1>4. PICK t \in C : \A u \in C : Cardinality(t) <= Cardinality(u)
  BY <1>3
<1>5. ASSUME NEW u \in C, u \subseteq t, u # t PROVE FALSE
  <2>1. Cardinality(u) <= Cardinality(t) /\ Cardinality(u) # Cardinality(t)
    BY <1>1, <1>5, FS_Subset
  <2> QED
    BY <1>1, <1>4, <2>1
<1> QED
  BY <1>5

\* The next element a sum takes, and the function that a sum is the value of.
One(s) == CHOOSE x \in s : TRUE
Summing(g, f, S) ==
  g = [s \in SUBSET S |-> IF s = {} THEN 0 ELSE f[One(s)] + g[s \ {One(s)}]]

LEMMA OneIn == ASSUME NEW s, s # {} PROVE One(s) \in s
BY DEF One

LEMMA SumIs ==
  ASSUME NEW f, NEW S
  PROVE  SumFunctionOnSet(f, S) = (CHOOSE g : Summing(g, f, S))[S]
BY DEF SumFunctionOnSet, FoldFunctionOnSet, MapThenFoldSet, Summing, One

LEMMA SummingAt ==
  ASSUME NEW f, NEW S, NEW g, Summing(g, f, S), NEW s \in SUBSET S
  PROVE  g[s] = IF s = {} THEN 0 ELSE f[One(s)] + g[s \ {One(s)}]
BY DEF Summing

\* Two such functions agree where both are defined.
LEMMA SummingUnique ==
  ASSUME NEW f, NEW S, IsFiniteSet(S), NEW T \in SUBSET S,
         NEW g, Summing(g, f, S), NEW h, Summing(h, f, T)
  PROVE  \A s \in SUBSET T : g[s] = h[s]
<1> DEFINE C == {s \in SUBSET T : g[s] # h[s]}
<1>1. SUFFICES ASSUME C # {} PROVE FALSE
  OBVIOUS
<1>2. C \subseteq SUBSET T /\ IsFiniteSet(T)
  BY FS_Subset
<1>3. \E t \in C : \A u \in C : u \subseteq t => u = t
  <2> HIDE DEF C
  <2> QED
    BY <1>1, <1>2, MinimalSubset
<1>4. PICK t \in C : \A u \in C : u \subseteq t => u = t
  BY <1>3
<1>5. t \in SUBSET T /\ t \in SUBSET S /\ g[t] # h[t]
  OBVIOUS
<1>6. /\ g[t] = IF t = {} THEN 0 ELSE f[One(t)] + g[t \ {One(t)}]
      /\ h[t] = IF t = {} THEN 0 ELSE f[One(t)] + h[t \ {One(t)}]
  BY <1>5, SummingAt
<1>7. t # {}
  BY <1>5, <1>6
<1>8. t \ {One(t)} \notin C
  BY <1>4, <1>7, OneIn
<1> QED
  BY <1>5, <1>6, <1>7, <1>8

\* Such a function exists.
LEMMA SummingExists ==
  ASSUME NEW f, NEW S, IsFiniteSet(S)
  PROVE  \E g : Summing(g, f, S)
<1> DEFINE C == {s \in SUBSET S : ~\E g : Summing(g, f, s)}
<1>1. SUFFICES ASSUME C # {} PROVE FALSE
  OBVIOUS
<1>2. PICK t \in C : \A u \in C : u \subseteq t => u = t
  <2>1. C \subseteq SUBSET S
    OBVIOUS
  <2> HIDE DEF C
  <2> QED
    BY <1>1, <2>1, MinimalSubset
<1>3. IsFiniteSet(t) /\ t \in SUBSET S
  BY FS_Subset
<1> DEFINE sum(s) == (CHOOSE h : Summing(h, f, s))[s]
           rest(s) == IF s = {} THEN 0 ELSE f[One(s)] + sum(s \ {One(s)})
           g == [s \in SUBSET t |-> rest(s)]
<1>4. ASSUME NEW s \in SUBSET t, s # {}
      PROVE  g[s \ {One(s)}] = sum(s \ {One(s)})
  <2> DEFINE u == s \ {One(s)}
  <2>1. u \in SUBSET t /\ u # t /\ u \in SUBSET S /\ IsFiniteSet(u)
    BY <1>3, <1>4, OneIn, FS_Subset
  <2>2. PICK h : Summing(h, f, u)
    BY <1>2, <2>1
  <2> DEFINE k == CHOOSE j : Summing(j, f, u)
  <2>3. Summing(k, f, u)
    BY <2>2
  <2>4. g[u] = rest(u)
    BY <2>1
  <2>5. CASE u = {}
    <3>1. k[u] = 0
      <4> HIDE DEF k
      <4>1. u \in SUBSET u
        OBVIOUS
      <4> QED
        BY <2>3, <2>5, <4>1, SummingAt
    <3> QED
      BY <2>4, <2>5, <3>1
  <2>6. CASE u # {}
    <3> DEFINE v == u \ {One(u)}
    <3>1. k[u] = f[One(u)] + k[v]
      <4> HIDE DEF k, u
      <4>1. u \in SUBSET u
        OBVIOUS
      <4> QED
        BY <2>3, <2>6, <4>1, SummingAt
    <3>2. v \in SUBSET t /\ v # t /\ v \in SUBSET u /\ v \in SUBSET S
      BY <2>1, <2>6, OneIn
    <3>3. PICK m : Summing(m, f, v)
      BY <1>2, <3>2
    <3> DEFINE n == CHOOSE j : Summing(j, f, v)
    <3>4. Summing(n, f, v)
      BY <3>3
    <3> HIDE DEF k, n
    <3>5. k[v] = n[v]
      BY <2>1, <2>3, <3>2, <3>4, SummingUnique
    <3> USE DEF k, n
    <3> QED
      BY <2>4, <2>6, <3>1, <3>5
  <2> QED
    BY <2>5, <2>6
<1>5. g = [s \in SUBSET t |-> IF s = {} THEN 0 ELSE f[One(s)] + g[s \ {One(s)}]]
  <2> HIDE DEF sum
  <2>1. \A s \in SUBSET t : rest(s) = IF s = {} THEN 0 ELSE f[One(s)] + g[s \ {One(s)}]
    BY <1>4
  <2> QED
    BY <2>1
<1>6. Summing(g, f, t)
  BY <1>5 DEF Summing
<1> QED
  BY <1>6

\* How a sum is computed: element by element.
LEMMA SumStep ==
  ASSUME NEW f, NEW S, IsFiniteSet(S)
  PROVE  /\ S = {} => SumFunctionOnSet(f, S) = 0
         /\ S # {} => SumFunctionOnSet(f, S)
                        = f[One(S)] + SumFunctionOnSet(f, S \ {One(S)})
<1> DEFINE T == S \ {One(S)}
           g == CHOOSE j : Summing(j, f, S)
           h == CHOOSE j : Summing(j, f, T)
<1>1. IsFiniteSet(T) /\ T \in SUBSET S
  BY FS_Subset
<1>2. Summing(g, f, S) /\ Summing(h, f, T)
  BY <1>1, SummingExists
<1>3. SumFunctionOnSet(f, S) = g[S] /\ SumFunctionOnSet(f, T) = h[T]
  BY SumIs
<1> HIDE DEF g, h
<1>4. g[S] = IF S = {} THEN 0 ELSE f[One(S)] + g[T]
  BY <1>2, SummingAt
<1>5. g[T] = h[T]
  <2> HIDE DEF T
  <2> QED
    BY <1>1, <1>2, SummingUnique
<1> QED
  BY <1>3, <1>4, <1>5

LEMMA SumEmpty == ASSUME NEW f PROVE SumFunctionOnSet(f, {}) = 0
<1>1. IsFiniteSet({})
  BY FS_EmptySet
<1> QED
  BY <1>1, SumStep

\* A property of the sums over the subsets of S that fails, fails at a set
\* that is not empty and all of whose proper subsets have it.
LEMMA SumInduction ==
  ASSUME NEW S, IsFiniteSet(S), NEW C, C \subseteq SUBSET S, {} \notin C,
         \A t \in SUBSET S : t # {} /\ (\A u \in SUBSET t : u # t => u \notin C) => t \notin C
  PROVE  C = {}
<1>1. SUFFICES ASSUME C # {} PROVE FALSE
  OBVIOUS
<1>2. PICK t \in C : \A u \in C : u \subseteq t => u = t
  BY <1>1, MinimalSubset
<1> QED
  BY <1>2

LEMMA SumType ==
  ASSUME NEW f, NEW S, IsFiniteSet(S), \A x \in S : f[x] \in Int
  PROVE  SumFunctionOnSet(f, S) \in Int
<1> DEFINE C == {s \in SUBSET S : SumFunctionOnSet(f, s) \notin Int}
<1>1. {} \notin C
  BY SumEmpty
<1>2. ASSUME NEW t \in SUBSET S, t # {}, \A u \in SUBSET t : u # t => u \notin C
      PROVE  t \notin C
  <2>1. One(t) \in t /\ t \ {One(t)} \notin C /\ f[One(t)] \in Int
    BY <1>2, OneIn
  <2>2. SumFunctionOnSet(f, t) = f[One(t)] + SumFunctionOnSet(f, t \ {One(t)})
    BY <1>2, SumStep, FS_Subset
  <2> QED
    BY <2>1, <2>2
<1>3. C \subseteq SUBSET S
  OBVIOUS
<1>4. C = {}
  <2> HIDE DEF C
  <2> QED
    BY <1>1, <1>2, <1>3, SumInduction
<1> QED
  BY <1>4

\* The order of the elements does not matter.
LEMMA SumPick ==
  ASSUME NEW f, NEW S, IsFiniteSet(S), \A x \in S : f[x] \in Int, NEW a \in S
  PROVE  SumFunctionOnSet(f, S) = f[a] + SumFunctionOnSet(f, S \ {a})
<1> DEFINE sum(s) == SumFunctionOnSet(f, s)
           C == {s \in SUBSET S : \E x \in s : sum(s) # f[x] + sum(s \ {x})}
<1>1. ASSUME NEW t \in SUBSET S, t # {}, \A u \in SUBSET t : u # t => u \notin C
      PROVE  t \notin C
  <2> SUFFICES ASSUME NEW x \in t PROVE sum(t) = f[x] + sum(t \ {x})
    OBVIOUS
  <2> DEFINE y == One(t)
  <2>1. y \in t /\ sum(t) = f[y] + sum(t \ {y})
    BY <1>1, OneIn, SumStep, FS_Subset
  <2>2. CASE x = y
    <3> HIDE DEF y, sum
    <3> QED
      BY <2>2, <2>1
  <2>3. CASE x # y
    <3>1. sum(t \ {y}) = f[x] + sum((t \ {y}) \ {x})
      <4>1. t \ {y} \in SUBSET t /\ t \ {y} # t /\ x \in t \ {y}
        BY <2>1, <2>3
      <4> QED
        BY <1>1, <4>1
    <3>2. sum(t \ {x}) = f[y] + sum((t \ {x}) \ {y})
      <4>1. t \ {x} \in SUBSET t /\ t \ {x} # t /\ y \in t \ {x}
        BY <2>1, <2>3
      <4> QED
        BY <1>1, <4>1
    <3>3. sum((t \ {y}) \ {x}) = sum((t \ {x}) \ {y})
      <4>1. (t \ {y}) \ {x} = (t \ {x}) \ {y}
        OBVIOUS
      <4> QED
        BY <4>1, Zenon
    <3>4. f[x] \in Int /\ f[y] \in Int /\ sum((t \ {x}) \ {y}) \in Int
      <4>1. IsFiniteSet((t \ {x}) \ {y}) /\ (t \ {x}) \ {y} \subseteq S
        BY FS_Subset
      <4> QED
        BY <2>1, <4>1, SumType
    <3> HIDE DEF y, sum
    <3> QED
      BY <2>1, <3>1, <3>2, <3>3, <3>4
  <2> QED
    BY <2>2, <2>3
<1>2. C \subseteq SUBSET S /\ {} \notin C
  OBVIOUS
<1>3. C = {}
  <2> HIDE DEF C
  <2> QED
    BY <1>1, <1>2, SumInduction
<1> QED
  BY <1>3

\* Functions that agree have the same sum, under whatever names h the
\* elements are summed up.
LEMMA SumRenamed ==
  ASSUME NEW f, NEW S, IsFiniteSet(S), \A x \in S : f[x] \in Int,
         NEW g, NEW T, NEW h \in [S -> T], \A x, y \in S : h[x] = h[y] => x = y,
         \A y \in T : \E x \in S : h[x] = y, \A x \in S : g[h[x]] = f[x]
  PROVE  SumFunctionOnSet(g, T) = SumFunctionOnSet(f, S)
<1> DEFINE img(s) == {h[x] : x \in s}
           C == {s \in SUBSET S : SumFunctionOnSet(g, img(s)) # SumFunctionOnSet(f, s)}
<1>1. {} \notin C
  <2>1. img({}) = {}
    OBVIOUS
  <2> QED
    BY <2>1, SumEmpty
<1>2. ASSUME NEW t \in SUBSET S, t # {}, \A u \in SUBSET t : u # t => u \notin C
      PROVE  t \notin C
  <2> DEFINE x == One(t)
             r == t \ {x}
  <2>1. x \in t /\ SumFunctionOnSet(f, t) = f[x] + SumFunctionOnSet(f, r)
    BY <1>2, OneIn, SumStep, FS_Subset
  <2>2. IsFiniteSet(img(t)) /\ \A y \in img(t) : g[y] \in Int
    <3>1. IsFiniteSet(t)
      BY FS_Subset
    <3>2. [y \in t |-> h[y]] \in Surjection(t, img(t))
      BY DEF Surjection
    <3> QED
      BY <3>1, <3>2, FS_Surjection
  <2>3. SumFunctionOnSet(g, img(t)) = g[h[x]] + SumFunctionOnSet(g, img(t) \ {h[x]})
    <3>1. h[x] \in img(t)
      BY <2>1
    <3> HIDE DEF img, x
    <3> QED
      BY <2>2, <3>1, SumPick
  <2>4. img(t) \ {h[x]} = img(r)
    BY <2>1
  <2>5. r \notin C /\ r \in SUBSET S
    BY <1>2, <2>1
  <2>6. SumFunctionOnSet(g, img(r)) = SumFunctionOnSet(f, r)
    BY <2>5
  <2>7. g[h[x]] = f[x]
    BY <2>1
  <2> QED
    BY <2>1, <2>3, <2>4, <2>6, <2>7
<1>3. C \subseteq SUBSET S
  OBVIOUS
<1>4. C = {}
  <2> HIDE DEF C
  <2> QED
    BY <1>1, <1>2, <1>3, SumInduction
<1>5. S \notin C /\ img(S) = T
  BY <1>4
<1> QED
  BY <1>5

LEMMA SumSame ==
  ASSUME NEW f, NEW S, IsFiniteSet(S), \A x \in S : f[x] \in Int,
         NEW g, \A x \in S : g[x] = f[x]
  PROVE  SumFunctionOnSet(g, S) = SumFunctionOnSet(f, S)
<1> DEFINE h == [x \in S |-> x]
<1>1. h \in [S -> S] /\ \A x \in S : h[x] = x
  OBVIOUS
<1> HIDE DEF h
<1> QED
  BY <1>1, SumRenamed

\* Elements that count for nothing can be left out.
LEMMA SumZeros ==
  ASSUME NEW f, NEW S, IsFiniteSet(S), \A x \in S : f[x] \in Int,
         NEW T \in SUBSET S, \A x \in S \ T : f[x] = 0
  PROVE  SumFunctionOnSet(f, S) = SumFunctionOnSet(f, T)
<1> DEFINE C == {s \in SUBSET S : /\ T \subseteq s
                                  /\ SumFunctionOnSet(f, s) # SumFunctionOnSet(f, T)}
<1>1. ASSUME NEW t \in C, \A u \in C : u \subseteq t => u = t PROVE FALSE
  <2>1. PICK x \in t : x \notin T
    BY <1>1
  <2>2. t \ {x} \notin C /\ IsFiniteSet(t) /\ IsFiniteSet(t \ {x})
    BY <1>1, <2>1, FS_Subset
  <2>3. SumFunctionOnSet(f, t) = f[x] + SumFunctionOnSet(f, t \ {x})
    BY <2>2, SumPick
  <2>4. SumFunctionOnSet(f, t \ {x}) \in Int
    BY <2>2, SumType
  <2> QED
    BY <1>1, <2>1, <2>2, <2>3, <2>4
<1>2. C \subseteq SUBSET S
  OBVIOUS
<1>3. C = {}
  <2> HIDE DEF C
  <2> QED
    BY <1>1, <1>2, MinimalSubset
<1>4. S \notin C
  BY <1>3
<1> QED
  BY <1>4

\* A sum of naturals is a natural, and none of them is greater than it.
LEMMA SumOfNats ==
  ASSUME NEW f, NEW S, IsFiniteSet(S), \A x \in S : f[x] \in Nat
  PROVE  /\ SumFunctionOnSet(f, S) \in Nat
         /\ \A x \in S : f[x] <= SumFunctionOnSet(f, S)
<1> DEFINE C == {s \in SUBSET S : SumFunctionOnSet(f, s) \notin Nat}
<1>1. {} \notin C
  BY SumEmpty
<1>2. ASSUME NEW t \in SUBSET S, t # {}, \A u \in SUBSET t : u # t => u \notin C
      PROVE  t \notin C
  <2>1. One(t) \in t /\ t \ {One(t)} \notin C /\ f[One(t)] \in Nat
    BY <1>2, OneIn
  <2>2. SumFunctionOnSet(f, t) = f[One(t)] + SumFunctionOnSet(f, t \ {One(t)})
    BY <1>2, SumStep, FS_Subset
  <2> QED
    BY <2>1, <2>2
<1>3. C \subseteq SUBSET S
  OBVIOUS
<1>4. C = {}
  <2> HIDE DEF C
  <2> QED
    BY <1>1, <1>2, <1>3, SumInduction
<1>5. \A s \in SUBSET S : SumFunctionOnSet(f, s) \in Nat
  BY <1>4
<1>6. ASSUME NEW x \in S PROVE f[x] <= SumFunctionOnSet(f, S)
  <2>1. SumFunctionOnSet(f, S) = f[x] + SumFunctionOnSet(f, S \ {x})
    BY SumPick
  <2>2. SumFunctionOnSet(f, S \ {x}) \in Nat
    BY <1>5
  <2> QED
    BY <2>1, <2>2
<1> QED
  BY <1>5, <1>6
\* A sum follows the one element that changes.
LEMMA SumChange ==
  ASSUME NEW S, IsFiniteSet(S), NEW f \in [S -> Int], NEW g \in [S -> Int],
         NEW a \in S, \A x \in S : x # a => g[x] = f[x]
  PROVE  SumFunction(g) = SumFunction(f) - f[a] + g[a]
<1>1. IsFiniteSet(S \ {a})
  BY FS_Subset
<1>2. /\ SumFunctionOnSet(f, S) = f[a] + SumFunctionOnSet(f, S \ {a})
      /\ SumFunctionOnSet(g, S) = g[a] + SumFunctionOnSet(g, S \ {a})
  BY SumPick
<1>3. SumFunctionOnSet(f, S \ {a}) \in Int
  BY <1>1, SumType
<1>4. SumFunctionOnSet(g, S \ {a}) = SumFunctionOnSet(f, S \ {a})
  BY <1>1, SumSame
<1>5. f[a] \in Int /\ g[a] \in Int
  OBVIOUS
<1> QED
  BY <1>2, <1>3, <1>4, <1>5 DEF SumFunction

-----------------------------------------------------------------------------
(* What the messages carry *)

CarriedBy(s) == SumFunction([i \in DOMAIN s |-> Carried(s[i])])

LEMMA CarriedType == ASSUME NEW m \in Message PROVE Carried(m) \in Nat
BY DEF Message, Carried

LEMMA CarriedIsNat ==
  ASSUME NEW s \in Seq(Message)
  PROVE  /\ IsFiniteSet(DOMAIN s) /\ CarriedBy(s) \in Nat
         /\ \A i \in DOMAIN s : Carried(s[i]) \in Nat /\ Carried(s[i]) <= CarriedBy(s)
<1> DEFINE f == [i \in DOMAIN s |-> Carried(s[i])]
<1>1. IsFiniteSet(DOMAIN s)
  BY FS_Interval, Len(s) \in Nat, DOMAIN s = 1 .. Len(s)
<1>2. DOMAIN f = DOMAIN s /\ \A i \in DOMAIN s : f[i] = Carried(s[i]) /\ f[i] \in Nat
  BY CarriedType
<1>3. CarriedBy(s) = SumFunctionOnSet(f, DOMAIN s)
  BY <1>2 DEF CarriedBy, SumFunction
<1> HIDE DEF f
<1>4. /\ SumFunctionOnSet(f, DOMAIN s) \in Nat
      /\ \A i \in DOMAIN s : f[i] <= SumFunctionOnSet(f, DOMAIN s)
  BY <1>1, <1>2, SumOfNats
<1> QED
  BY <1>1, <1>2, <1>3, <1>4

\* A message is sent: the new one is the last.
LEMMA CarriedAppend ==
  ASSUME NEW s \in Seq(Message), NEW m \in Message
  PROVE  CarriedBy(Append(s, m)) = CarriedBy(s) + Carried(m)
<1> DEFINE t == Append(s, m)
           n == Len(s) + 1
           f == [i \in DOMAIN s |-> Carried(s[i])]
           g == [i \in DOMAIN t |-> Carried(t[i])]
<1>1. /\ DOMAIN s = 1 .. Len(s) /\ DOMAIN t = 1 .. n /\ Len(s) \in Nat
      /\ t[n] = m /\ \A i \in DOMAIN s : t[i] = s[i]
  OBVIOUS
<1>2. t \in Seq(Message)
  OBVIOUS
<1>3. /\ DOMAIN f = DOMAIN s /\ DOMAIN g = DOMAIN t /\ g[n] = Carried(m)
      /\ \A i \in DOMAIN s : f[i] = Carried(s[i]) /\ g[i] = f[i] /\ f[i] \in Int
  BY <1>1, CarriedType
<1>4. (DOMAIN t) \ {n} = DOMAIN s /\ n \in DOMAIN t
  BY <1>1
<1>5. IsFiniteSet(DOMAIN s) /\ IsFiniteSet(DOMAIN t)
  BY <1>2, CarriedIsNat
<1>6. /\ CarriedBy(s) = SumFunctionOnSet(f, DOMAIN s)
      /\ CarriedBy(t) = SumFunctionOnSet(g, DOMAIN t)
  BY <1>3 DEF CarriedBy, SumFunction
<1>7. \A i \in DOMAIN t : g[i] \in Int
  <2>1. \A i \in DOMAIN t : g[i] = Carried(t[i])
    OBVIOUS
  <2> HIDE DEF g, t
  <2> QED
    BY <1>2, <2>1, CarriedIsNat
<1> HIDE DEF f, g, t, n
<1>8. SumFunctionOnSet(g, DOMAIN t) = g[n] + SumFunctionOnSet(g, DOMAIN s)
  BY <1>4, <1>5, <1>7, SumPick
<1>9. SumFunctionOnSet(g, DOMAIN s) = SumFunctionOnSet(f, DOMAIN s)
  BY <1>3, <1>5, SumSame
<1>10. CarriedBy(s) \in Nat /\ Carried(m) \in Nat
  BY CarriedIsNat, CarriedType
<1>11. CarriedBy(t) = CarriedBy(s) + Carried(m)
  BY <1>3, <1>6, <1>8, <1>9, <1>10
<1> QED
  BY <1>11 DEF t

\* Policy messages carry nothing, however many of them are sent.
LEMMA CarriedPolicy ==
  ASSUME NEW s \in Seq(Message), NEW t \in Seq(Message),
         \A i \in DOMAIN t : Carried(t[i]) = 0
  PROVE  CarriedBy(s \o t) = CarriedBy(s)
<1> DEFINE u == s \o t
           f == [i \in DOMAIN s |-> Carried(s[i])]
           g == [i \in DOMAIN u |-> Carried(u[i])]
<1>1. u \in Seq(Message)
  OBVIOUS
<1>2. /\ DOMAIN s \subseteq DOMAIN u /\ \A i \in DOMAIN s : u[i] = s[i]
      /\ \A i \in (DOMAIN u) \ DOMAIN s : i - Len(s) \in DOMAIN t /\ u[i] = t[i - Len(s)]
  OBVIOUS
<1>3. /\ DOMAIN f = DOMAIN s /\ DOMAIN g = DOMAIN u
      /\ \A i \in DOMAIN s : g[i] = f[i] /\ f[i] \in Int
      /\ \A i \in DOMAIN u : g[i] \in Int
      /\ \A i \in (DOMAIN u) \ DOMAIN s : g[i] = 0
  BY <1>1, <1>2, CarriedIsNat
<1>4. IsFiniteSet(DOMAIN s) /\ IsFiniteSet(DOMAIN u)
  BY <1>1, CarriedIsNat
<1>5. /\ CarriedBy(s) = SumFunctionOnSet(f, DOMAIN s)
      /\ CarriedBy(u) = SumFunctionOnSet(g, DOMAIN u)
  BY <1>3 DEF CarriedBy, SumFunction
<1> HIDE DEF f, g, u
<1>6. SumFunctionOnSet(g, DOMAIN u) = SumFunctionOnSet(g, DOMAIN s)
  BY <1>2, <1>3, <1>4, SumZeros
<1>7. SumFunctionOnSet(g, DOMAIN s) = SumFunctionOnSet(f, DOMAIN s)
  BY <1>3, <1>4, SumSame
<1> QED
  BY <1>5, <1>6, <1>7 DEF u

\* A message is delivered, or is gone: the later ones move up.
LEMMA RemoveAtIs ==
  ASSUME NEW s \in Seq(Message), NEW i \in DOMAIN s
  PROVE  /\ RemoveAt(s, i) \in Seq(Message) /\ Len(RemoveAt(s, i)) = Len(s) - 1
         /\ \A j \in 1 .. Len(s) - 1 :
              RemoveAt(s, i)[j] = IF j < i THEN s[j] ELSE s[j + 1]
<1> DEFINE l == SubSeq(s, 1, i - 1)
           r == SubSeq(s, i + 1, Len(s))
<1>1. /\ l \in Seq(Message) /\ Len(l) = i - 1 /\ \A j \in 1 .. i - 1 : l[j] = s[j]
  OBVIOUS
<1>2. /\ r \in Seq(Message) /\ Len(r) = Len(s) - i
      /\ \A j \in 1 .. Len(s) - i : r[j] = s[j + i]
  OBVIOUS
<1>3. RemoveAt(s, i) = l \o r
  BY DEF RemoveAt
<1> HIDE DEF l, r
<1>4. Len(l \o r) = Len(s) - 1 /\ l \o r \in Seq(Message)
  BY <1>1, <1>2
<1>5. ASSUME NEW j \in 1 .. Len(s) - 1
      PROVE  (l \o r)[j] = IF j < i THEN s[j] ELSE s[j + 1]
  <2>1. CASE j < i
    BY <1>1, <1>2, <2>1
  <2>2. CASE ~(j < i)
    <3>1. (l \o r)[j] = r[j - (i - 1)] /\ j - (i - 1) \in 1 .. Len(s) - i
      BY <1>1, <1>2, <2>2
    <3>2. r[j - (i - 1)] = s[(j - (i - 1)) + i] /\ (j - (i - 1)) + i = j + 1
      BY <1>2, <3>1
    <3> QED
      BY <2>2, <3>1, <3>2
  <2> QED
    BY <2>1, <2>2
<1> QED
  BY <1>3, <1>4, <1>5

LEMMA CarriedRemove ==
  ASSUME NEW s \in Seq(Message), NEW i \in DOMAIN s
  PROVE  CarriedBy(RemoveAt(s, i)) = CarriedBy(s) - Carried(s[i])
<1> DEFINE t == RemoveAt(s, i)
           f == [j \in DOMAIN s |-> Carried(s[j])]
           g == [j \in DOMAIN t |-> Carried(t[j])]
           rest == (DOMAIN s) \ {i}
           h == [j \in DOMAIN t |-> IF j < i THEN j ELSE j + 1]
<1>1. /\ t \in Seq(Message) /\ DOMAIN t = 1 .. Len(s) - 1 /\ DOMAIN s = 1 .. Len(s)
      /\ Len(s) \in Nat /\ i \in 1 .. Len(s)
      /\ \A j \in DOMAIN t : t[j] = IF j < i THEN s[j] ELSE s[j + 1]
  <2>1. /\ t \in Seq(Message) /\ Len(t) = Len(s) - 1
        /\ \A j \in 1 .. Len(s) - 1 : t[j] = IF j < i THEN s[j] ELSE s[j + 1]
    BY RemoveAtIs
  <2> HIDE DEF t
  <2> QED
    BY <2>1
<1>2. /\ h \in [DOMAIN t -> rest] /\ \A j, k \in DOMAIN t : h[j] = h[k] => j = k
      /\ \A j \in DOMAIN t : t[j] = s[h[j]]
  BY <1>1
<1>3. \A k \in rest : \E j \in DOMAIN t : h[j] = k
  <2> SUFFICES ASSUME NEW k \in rest PROVE \E j \in DOMAIN t : h[j] = k
    OBVIOUS
  <2>1. CASE k < i
    BY <1>1, <2>1
  <2>2. CASE ~(k < i)
    <3>1. k - 1 \in DOMAIN t /\ ~(k - 1 < i) /\ h[k - 1] = k
      BY <1>1, <2>2
    <3> QED
      BY <3>1
  <2> QED
    BY <2>1, <2>2
<1>4. /\ IsFiniteSet(DOMAIN s) /\ IsFiniteSet(DOMAIN t) /\ IsFiniteSet(rest)
      /\ CarriedBy(s) \in Nat /\ Carried(s[i]) \in Nat
  BY <1>1, CarriedIsNat, FS_Subset
<1>5. /\ DOMAIN f = DOMAIN s /\ DOMAIN g = DOMAIN t /\ f[i] = Carried(s[i])
      /\ \A j \in DOMAIN s : f[j] \in Int
      /\ \A j \in DOMAIN t : g[j] \in Int
  BY <1>1, CarriedIsNat
<1>6. \A j \in DOMAIN t : f[h[j]] = g[j]
  <2>1. \A j \in DOMAIN t : h[j] \in DOMAIN s /\ t[j] = s[h[j]]
    BY <1>2
  <2> HIDE DEF h, t
  <2> QED
    BY <2>1
<1>7. /\ CarriedBy(s) = SumFunctionOnSet(f, DOMAIN s)
      /\ CarriedBy(t) = SumFunctionOnSet(g, DOMAIN t)
  BY <1>5 DEF CarriedBy, SumFunction
<1> HIDE DEF f, g, t, h
<1>8. SumFunctionOnSet(f, DOMAIN s) = f[i] + SumFunctionOnSet(f, rest)
  BY <1>4, <1>5, SumPick
<1>9. SumFunctionOnSet(f, rest) \in Int
  BY <1>4, <1>5, SumType
<1> HIDE DEF rest
<1>10. SumFunctionOnSet(f, rest) = SumFunctionOnSet(g, DOMAIN t)
  BY <1>2, <1>3, <1>4, <1>5, <1>6, SumRenamed
<1>11. CarriedBy(t) = CarriedBy(s) - Carried(s[i])
  BY <1>4, <1>5, <1>7, <1>8, <1>9, <1>10
<1> QED
  BY <1>11 DEF t
-----------------------------------------------------------------------------
(* What the wallets hold *)

BalancesOf(w) == SumFunction([o \in Owner |-> w[o].balance])

LEMMA OwnersFinite == IsFiniteSet(Owner)
BY LedgerAssumption, FS_AddElement DEF Owner

LEMMA BalancesAreNat ==
  ASSUME NEW w \in [Owner -> Wallet]
  PROVE  BalancesOf(w) \in Nat
<1> DEFINE f == [o \in Owner |-> w[o].balance]
<1>1. DOMAIN f = Owner /\ \A o \in Owner : f[o] \in Nat
  BY DEF Wallet
<1>2. BalancesOf(w) = SumFunctionOnSet(f, Owner)
  BY <1>1 DEF BalancesOf, SumFunction
<1> HIDE DEF f
<1> QED
  BY <1>1, <1>2, OwnersFinite, SumOfNats

\* At most the wallet o has another balance.
LEMMA BalanceChange ==
  ASSUME NEW w \in [Owner -> Wallet], NEW v \in [Owner -> Wallet], NEW o \in Owner,
         \A x \in Owner : x # o => v[x].balance = w[x].balance
  PROVE  BalancesOf(v) = BalancesOf(w) - w[o].balance + v[o].balance
<1> DEFINE f == [x \in Owner |-> w[x].balance]
           g == [x \in Owner |-> v[x].balance]
<1>1. /\ f \in [Owner -> Int] /\ g \in [Owner -> Int]
      /\ \A x \in Owner : f[x] = w[x].balance /\ g[x] = v[x].balance
  BY DEF Wallet
<1>2. BalancesOf(w) = SumFunction(f) /\ BalancesOf(v) = SumFunction(g)
  BY DEF BalancesOf
<1> HIDE DEF f, g
<1>3. \A x \in Owner : x # o => g[x] = f[x]
  BY <1>1
<1>4. SumFunction(g) = SumFunction(f) - f[o] + g[o]
  BY <1>1, <1>3, OwnersFinite, SumChange
<1> QED
  BY <1>1, <1>2, <1>4

LEMMA BalanceSame ==
  ASSUME NEW w \in [Owner -> Wallet], NEW v \in [Owner -> Wallet],
         \A x \in Owner : v[x].balance = w[x].balance
  PROVE  BalancesOf(v) = BalancesOf(w)
<1>1. Foreign \in Owner
  BY DEF Owner
<1>2. BalancesOf(v) = BalancesOf(w) - w[Foreign].balance + v[Foreign].balance
  BY <1>1, BalanceChange
<1>3. BalancesOf(w) \in Nat /\ w[Foreign].balance \in Nat
  BY <1>1, BalancesAreNat DEF Wallet
<1> QED
  BY <1>1, <1>2, <1>3

LEMMA NothingHeld ==
  ASSUME NEW w \in [Owner -> Wallet], \A x \in Owner : w[x].balance = 0
  PROVE  BalancesOf(w) = 0
<1> DEFINE f == [x \in Owner |-> w[x].balance]
<1>1. DOMAIN f = Owner /\ \A x \in Owner : f[x] = 0
  OBVIOUS
<1>2. BalancesOf(w) = SumFunctionOnSet(f, Owner)
  BY <1>1 DEF BalancesOf, SumFunction
<1> HIDE DEF f
<1>3. SumFunctionOnSet(f, Owner) = SumFunctionOnSet(f, {})
  BY <1>1, OwnersFinite, SumZeros
<1> QED
  BY <1>2, <1>3, SumEmpty
-----------------------------------------------------------------------------
(* The steps *)

LEMMA Readings == Balances = BalancesOf(wallet) /\ OnTheWay = CarriedBy(net)
BY DEF Balances, BalancesOf, OnTheWay, CarriedBy
LEMMA ReadingsNext == Balances' = BalancesOf(wallet') /\ OnTheWay' = CarriedBy(net')
BY DEF Balances, BalancesOf, OnTheWay, CarriedBy

LEMMA ValueTyped ==
  ASSUME NEW kind \in {"transfer", "burned", "bounced"}, NEW src \in Address,
         NEW dst \in Address, NEW amount \in Nat
  PROVE  /\ Value(kind, src, dst, amount) \in Message
         /\ Carried(Value(kind, src, dst, amount)) = amount
BY DEF Value, Message, Carried

LEMMA PolicyTyped ==
  ASSUME TypeOK, NEW dst \in Owner, NEW open \in BOOLEAN, NEW to \in Account,
         NEW operator \in BOOLEAN
  PROVE  /\ Sync(dst, open, to, operator) \in Message
         /\ Carried(Sync(dst, open, to, operator)) = 0
         /\ NewVault(dst, to) \in Message /\ Carried(NewVault(dst, to)) = 0
<1>1. to \in Address
  BY DEF Address, Owner
<1> QED
  BY <1>1 DEF Sync, NewVault, Message, Carried

\* The amount of an order leaves, or the message could not be paid for.
LEMMA Sending ==
  ASSUME TypeOK, NEW m \in Message, Sends(<<m>>)
  PROVE  /\ net' \in Seq(Message) /\ faults' \in 0 .. MaxFaults
         /\ CarriedBy(net') <= CarriedBy(net) + Carried(m)
<1>1. PICK n \in 0 .. 1 : /\ net' = net \o SubSeq(<<m>>, 1, n)
                          /\ n < 1 => faults < MaxFaults
                          /\ faults' = IF n < 1 THEN faults + 1 ELSE faults
  BY DEF Sends
<1>2. faults' \in 0 .. MaxFaults
  BY <1>1, LedgerAssumption DEF TypeOK
<1>3. CarriedBy(net) \in Nat /\ Carried(m) \in Nat
  BY CarriedIsNat, CarriedType DEF TypeOK
<1>4. CASE n = 0
  <2>1. net' = net
    BY <1>1, <1>4 DEF TypeOK
  <2> QED
    BY <1>2, <1>3, <2>1 DEF TypeOK
<1>5. CASE n = 1
  <2>1. net' = Append(net, m)
    BY <1>1, <1>5 DEF TypeOK
  <2> QED
    BY <1>2, <1>3, <2>1, CarriedAppend DEF TypeOK
<1> QED
  BY <1>4, <1>5

LEMMA SendingPolicy ==
  ASSUME TypeOK, NEW ms \in Seq(Message), \A i \in DOMAIN ms : Carried(ms[i]) = 0,
         Sends(ms)
  PROVE  /\ net' \in Seq(Message) /\ faults' \in 0 .. MaxFaults
         /\ CarriedBy(net') = CarriedBy(net)
<1>1. PICK n \in 0 .. Len(ms) : /\ net' = net \o SubSeq(ms, 1, n)
                                /\ n < Len(ms) => faults < MaxFaults
                                /\ faults' = IF n < Len(ms) THEN faults + 1 ELSE faults
  BY DEF Sends
<1>2. faults' \in 0 .. MaxFaults
  BY <1>1, LedgerAssumption DEF TypeOK
<1> DEFINE t == SubSeq(ms, 1, n)
<1>3. t \in Seq(Message) /\ \A i \in DOMAIN t : Carried(t[i]) = 0
  OBVIOUS
<1>4. net' = net \o t
  BY <1>1
<1> HIDE DEF t
<1> QED
  BY <1>2, <1>3, <1>4, CarriedPolicy DEF TypeOK

\* An order to send one message of value: mint, transfer and burn.
LEMMA MintStep ==
  ASSUME LedgerInv, NEW who \in Account, NEW to \in Owner, NEW amount \in Amount,
         Mint(who, to, amount)
  PROVE  LedgerInv'
<1> DEFINE m == Value("transfer", Master, to, amount)
<1>1. amount \in Nat /\ m \in Message /\ Carried(m) = amount
  BY LedgerAssumption, ValueTyped DEF Address
<1> HIDE DEF m
<1>2. /\ net' \in Seq(Message) /\ faults' \in 0 .. MaxFaults
      /\ CarriedBy(net') <= CarriedBy(net) + amount
  BY <1>1, Sending DEF LedgerInv, Mint, m
<1>3. TypeOK'
  BY <1>1, <1>2, LedgerAssumption DEF LedgerInv, TypeOK, Mint, Ordered
<1>4. CarriedBy(net) \in Nat /\ CarriedBy(net') \in Nat /\ BalancesOf(wallet) \in Nat
  BY <1>2, CarriedIsNat, BalancesAreNat DEF LedgerInv, TypeOK
<1>5. SupplyCovers'
  BY <1>1, <1>2, <1>4, Readings, ReadingsNext
     DEF LedgerInv, TypeOK, SupplyCovers, Mint
<1> QED
  BY <1>3, <1>5 DEF LedgerInv

\* The guards of a transfer and of a burn keep a balance a natural number.
LEMMA SpendStep ==
  ASSUME LedgerInv, NEW o \in Account, NEW amount \in Amount, NEW m \in Message,
         Ordered, Carried(m) = amount, wallet[o].balance >= amount,
         wallet' = [wallet EXCEPT ![o].balance = @ - amount], Sends(<<m>>),
         UNCHANGED master
  PROVE  LedgerInv'
<1>1. amount \in Nat /\ o \in Owner /\ wallet \in [Owner -> Wallet]
  BY LedgerAssumption DEF Owner, LedgerInv, TypeOK
<1>2. /\ net' \in Seq(Message) /\ faults' \in 0 .. MaxFaults
      /\ CarriedBy(net') <= CarriedBy(net) + amount
  BY Sending DEF LedgerInv
<1>3. /\ wallet' \in [Owner -> Wallet]
      /\ wallet'[o].balance = wallet[o].balance - amount
      /\ \A x \in Owner : x # o => wallet'[x].balance = wallet[x].balance
  BY <1>1 DEF Wallet
<1>4. BalancesOf(wallet') = BalancesOf(wallet) - wallet[o].balance + wallet'[o].balance
  BY <1>1, <1>3, BalanceChange
<1>5. /\ CarriedBy(net) \in Nat /\ CarriedBy(net') \in Nat /\ BalancesOf(wallet) \in Nat
      /\ wallet[o].balance \in Nat
  BY <1>1, <1>2, CarriedIsNat, BalancesAreNat DEF LedgerInv, TypeOK, Wallet
<1>6. TypeOK'
  BY <1>2, <1>3, LedgerAssumption DEF LedgerInv, TypeOK, Ordered, master
<1>7. BalancesOf(wallet) + CarriedBy(net) <= supply /\ supply \in Nat /\ supply' = supply
  BY Readings DEF LedgerInv, TypeOK, SupplyCovers, master
<1>8. BalancesOf(wallet') + CarriedBy(net') <= supply'
  <2>1. BalancesOf(wallet') = BalancesOf(wallet) - amount
    BY <1>1, <1>3, <1>4, <1>5
  <2> QED
    BY <1>1, <1>2, <1>5, <1>7, <2>1
<1> QED
  BY <1>6, <1>8, ReadingsNext DEF LedgerInv, SupplyCovers

LEMMA OwnerStep ==
  ASSUME LedgerInv, NEW o \in Account, NEW amount \in Amount,
         (\E to \in Owner : Transfer(o, to, amount)) \/ Burn(o, amount)
  PROVE  LedgerInv'
<1>1. amount \in Nat /\ o \in Address /\ Master \in Address /\ Owner \subseteq Address
  BY LedgerAssumption DEF Address, Owner
<1>2. CASE \E to \in Owner : Transfer(o, to, amount)
  <2> PICK to \in Owner : Transfer(o, to, amount)
    BY <1>2
  <2>1. /\ Value("transfer", o, to, amount) \in Message
        /\ Carried(Value("transfer", o, to, amount)) = amount
    BY <1>1, ValueTyped
  <2> QED
    BY <2>1, SpendStep DEF Transfer, Accepts
<1>3. CASE Burn(o, amount)
  <2>1. /\ Value("burned", o, Master, amount) \in Message
        /\ Carried(Value("burned", o, Master, amount)) = amount
    BY <1>1, ValueTyped
  <2> QED
    BY <1>3, <2>1, SpendStep DEF Burn
<1> QED
  BY <1>2, <1>3

\* An order of the master that moves no value.
LEMMA PolicyStep ==
  ASSUME LedgerInv, Ordered, NEW ms \in Seq(Message),
         \A i \in DOMAIN ms : Carried(ms[i]) = 0, Sends(ms), UNCHANGED <<supply, wallet>>,
         admin' \in Account, vault' \in Account, enabled' \in BOOLEAN
  PROVE  LedgerInv'
<1>1. /\ net' \in Seq(Message) /\ faults' \in 0 .. MaxFaults
      /\ CarriedBy(net') = CarriedBy(net)
  BY SendingPolicy DEF LedgerInv
<1>2. TypeOK'
  BY <1>1, LedgerAssumption DEF LedgerInv, TypeOK, Ordered
<1> QED
  BY <1>1, <1>2, Readings, ReadingsNext DEF LedgerInv, SupplyCovers

LEMMA OrdersStep ==
  ASSUME LedgerInv, Orders PROVE LedgerInv'
<1> USE DEF LedgerInv
<1>1. admin \in Account /\ vault \in Account /\ enabled \in BOOLEAN
  BY DEF TypeOK
<1>2. ASSUME NEW list \in WalletLists, NEW open \in BOOLEAN
      PROVE  /\ Broadcast(list, open) \in Seq(Message)
             /\ \A i \in DOMAIN Broadcast(list, open) : Carried(Broadcast(list, open)[i]) = 0
  <2>1. list \in Seq(Owner)
    BY LedgerAssumption
  <2>2. ASSUME NEW i \in DOMAIN list
        PROVE  /\ Sync(list[i], open, vault, FALSE) \in Message
               /\ Carried(Sync(list[i], open, vault, FALSE)) = 0
    <3>1. list[i] \in Owner
      BY <2>1
    <3>2. \A operator \in BOOLEAN : /\ Sync(list[i], open, vault, operator) \in Message
                                     /\ Carried(Sync(list[i], open, vault, operator)) = 0
      BY <1>1, <3>1, PolicyTyped
    <3>3. FALSE \in BOOLEAN
      OBVIOUS
    <3> QED
      BY <3>2, <3>3, Zenon
  <2>3. Len(list) \in Nat /\ DOMAIN list = 1 .. Len(list)
    BY <2>1
  <2> DEFINE ms == [i \in 1 .. Len(list) |-> Sync(list[i], open, vault, FALSE)]
  <2>4. Broadcast(list, open) = ms
    BY <2>3 DEF Broadcast
  <2>5. ms \in Seq(Message) /\ \A i \in DOMAIN ms : Carried(ms[i]) = 0
    <3> DEFINE sync(i) == Sync(list[i], open, vault, FALSE)
    <3>1. \A i \in 1 .. Len(list) : sync(i) \in Message /\ Carried(sync(i)) = 0
      BY <2>2, <2>3
    <3> HIDE DEF sync
    <3>2. ms = [i \in 1 .. Len(list) |-> sync(i)]
      BY Zenon DEF sync
    <3> HIDE DEF ms
    <3> QED
      BY <2>3, <3>1, <3>2
  <2> QED
    BY <2>4, <2>5
<1>3. ASSUME NEW who \in Account, NEW open \in BOOLEAN, NEW list \in WalletLists,
             SetTransfersEnabled(who, open, list)
      PROVE  LedgerInv'
  BY <1>1, <1>2, <1>3, PolicyStep DEF SetTransfersEnabled
<1>4. ASSUME NEW who \in Account, NEW to \in Account, NEW list \in WalletLists,
             ChangeAdmin(who, to, list)
      PROVE  LedgerInv'
  BY <1>1, <1>2, <1>4, PolicyStep DEF ChangeAdmin
<1>5. ASSUME NEW who \in Account, NEW of \in Account, NEW operator \in BOOLEAN,
             NEW to \in Account, SetOperator(who, of, operator, to)
      PROVE  LedgerInv'
  <2> DEFINE m == Sync(of, enabled, to, operator)
  <2>1. m \in Message /\ Carried(m) = 0
    BY <1>1, PolicyTyped DEF Owner
  <2>2. Sends(<<m>>)
    BY <1>5 DEF SetOperator
  <2> HIDE DEF m
  <2>3. <<m>> \in Seq(Message) /\ \A i \in DOMAIN <<m>> : Carried(<<m>>[i]) = 0
    BY <2>1
  <2> QED
    BY <1>1, <1>5, <2>2, <2>3, PolicyStep DEF SetOperator, master
<1>6. ASSUME NEW who \in Account, NEW to \in Account, NEW list \in WalletLists,
             UpdateVaultBatch(who, to, list)
      PROVE  LedgerInv'
  <2> DEFINE ms == [i \in DOMAIN list |-> NewVault(list[i], to)]
  <2>1. list \in Seq(Owner)
    BY LedgerAssumption
  <2>2. \A i \in DOMAIN list : /\ NewVault(list[i], to) \in Message
                               /\ Carried(NewVault(list[i], to)) = 0
    BY <1>1, <2>1, PolicyTyped
  <2>3. ms \in Seq(Message) /\ \A i \in DOMAIN ms : Carried(ms[i]) = 0
    BY <2>1, <2>2
  <2>4. Sends(ms)
    BY <1>6 DEF UpdateVaultBatch
  <2> HIDE DEF ms
  <2> QED
    BY <1>1, <1>6, <2>3, <2>4, PolicyStep DEF UpdateVaultBatch
<1> QED
  BY <1>3, <1>4, <1>5, <1>6, MintStep, OwnerStep DEF Orders

\* A message that is taken: what it carried is gone from the way.
LEMMA Taking ==
  ASSUME TypeOK, NEW i \in DOMAIN net, net' = RemoveAt(net, i)
  PROVE  /\ net' \in Seq(Message) /\ CarriedBy(net') = CarriedBy(net) - Carried(net[i])
         /\ CarriedBy(net) \in Nat /\ CarriedBy(net') \in Nat
         /\ net[i] \in Message /\ Carried(net[i]) \in Nat
<1>1. net \in Seq(Message)
  BY DEF TypeOK
<1>2. net' \in Seq(Message)
  BY <1>1, RemoveAtIs
<1> QED
  BY <1>1, <1>2, CarriedRemove, CarriedIsNat

LEMMA KindOf ==
  ASSUME NEW m \in Message
  PROVE  /\ m.kind \in {"transfer", "burned", "bounced"}
              => /\ m.src \in Address /\ m.dst \in Address /\ m.amount \in Nat
                 /\ Carried(m) = m.amount
         /\ m.kind = "sync" => /\ m.dst \in Owner /\ m.enabled \in BOOLEAN
                               /\ m.vault \in Address /\ m.operator \in BOOLEAN
         /\ m.kind = "vault" => m.dst \in Owner /\ m.vault \in Address
BY DEF Message, Carried

LEMMA CreditStep ==
  ASSUME LedgerInv, NEW i \in DOMAIN net, Credit(i)
  PROVE  LedgerInv'
<1> DEFINE m == net[i]
           o == m.dst
<1>1. /\ net' \in Seq(Message) /\ CarriedBy(net') = CarriedBy(net) - Carried(m)
      /\ CarriedBy(net) \in Nat /\ CarriedBy(net') \in Nat /\ m \in Message
  BY Taking DEF LedgerInv, Credit, Takes
<1>2. /\ wallet' = [wallet EXCEPT ![o].balance = @ + m.amount, ![o].deployed = TRUE]
      /\ m.kind \in {"transfer", "bounced"} /\ o # Master /\ wallet \in [Owner -> Wallet]
  BY DEF Credit, LedgerInv, TypeOK
<1> HIDE DEF m
<1>3. o \in Owner /\ m.amount \in Nat /\ Carried(m) = m.amount
  BY <1>1, <1>2, KindOf DEF Address
<1> HIDE DEF o
<1> DEFINE w == [wallet EXCEPT ![o].balance = @ + m.amount]
<1>4. /\ wallet' \in [Owner -> Wallet]
      /\ wallet'[o].balance = wallet[o].balance + m.amount
      /\ \A x \in Owner : x # o => wallet'[x].balance = wallet[x].balance
  <2>1. /\ w \in [Owner -> Wallet] /\ w[o].balance = wallet[o].balance + m.amount
        /\ \A x \in Owner : x # o => w[x].balance = wallet[x].balance
    BY <1>2, <1>3 DEF Wallet
  <2>2. wallet' = [w EXCEPT ![o].deployed = TRUE]
    BY <1>2, <1>3
  <2> HIDE DEF w
  <2> QED
    BY <1>3, <2>1, <2>2 DEF Wallet
<1>5. BalancesOf(wallet') = BalancesOf(wallet) - wallet[o].balance + wallet'[o].balance
  BY <1>2, <1>3, <1>4, BalanceChange
<1>6. BalancesOf(wallet) \in Nat /\ wallet[o].balance \in Nat
  BY <1>2, <1>3, BalancesAreNat DEF Wallet
<1>7. TypeOK'
  BY <1>1, <1>4 DEF LedgerInv, TypeOK, Credit, Takes, master
<1>8. SupplyCovers'
  <2>1. BalancesOf(wallet) + CarriedBy(net) <= supply /\ supply \in Nat /\ supply' = supply
    BY Readings DEF LedgerInv, TypeOK, SupplyCovers, Credit, master
  <2>2. /\ BalancesOf(wallet') = BalancesOf(wallet) + m.amount
        /\ CarriedBy(net') = CarriedBy(net) - m.amount
    BY <1>1, <1>3, <1>4, <1>5, <1>6
  <2>3. BalancesOf(wallet') + CarriedBy(net') <= supply'
    BY <1>1, <1>3, <1>6, <2>1, <2>2
  <2> QED
    BY <2>3, ReadingsNext DEF SupplyCovers
<1> QED
  BY <1>7, <1>8 DEF LedgerInv

\* The supply never falls below zero: it covers the burn that is on the way.
LEMMA BurnNotifiedStep ==
  ASSUME LedgerInv, NEW i \in DOMAIN net, BurnNotified(i)
  PROVE  LedgerInv'
<1>1. /\ net' \in Seq(Message) /\ CarriedBy(net') = CarriedBy(net) - Carried(net[i])
      /\ CarriedBy(net) \in Nat /\ CarriedBy(net') \in Nat /\ net[i] \in Message
  BY Taking DEF LedgerInv, BurnNotified, Takes
<1>2. net[i].amount \in Nat /\ Carried(net[i]) = net[i].amount
  BY <1>1, KindOf DEF BurnNotified
<1>3. BalancesOf(wallet) \in Nat
  BY BalancesAreNat DEF LedgerInv, TypeOK
<1>4. BalancesOf(wallet) + CarriedBy(net) <= supply
  BY Readings DEF LedgerInv, SupplyCovers
<1>5. supply' = supply - net[i].amount /\ wallet' = wallet /\ supply \in Nat
  BY DEF BurnNotified, LedgerInv, TypeOK
<1>6. supply' \in Nat /\ BalancesOf(wallet') + CarriedBy(net') <= supply'
  <2>1. BalancesOf(wallet') = BalancesOf(wallet)
    BY <1>5
  <2>2. CarriedBy(net') = CarriedBy(net) - net[i].amount
    BY <1>1, <1>2
  <2> QED
    BY <1>1, <1>2, <1>3, <1>4, <1>5, <2>1, <2>2
<1>7. TypeOK'
  BY <1>1, <1>6 DEF LedgerInv, TypeOK, BurnNotified, Takes
<1> QED
  BY <1>6, <1>7, ReadingsNext DEF LedgerInv, SupplyCovers

\* A policy message changes no balance.
LEMMA LearnStep ==
  ASSUME LedgerInv, NEW i \in DOMAIN net, SyncPolicy(i) \/ UpdateVault(i)
  PROVE  LedgerInv'
<1> DEFINE m == net[i]
<1>1. Takes(i) /\ UNCHANGED master /\ wallet \in [Owner -> Wallet]
  BY DEF SyncPolicy, UpdateVault, LedgerInv, TypeOK
<1>2. /\ net' \in Seq(Message) /\ CarriedBy(net') = CarriedBy(net) - Carried(m)
      /\ CarriedBy(net) \in Nat /\ CarriedBy(net') \in Nat /\ m \in Message
      /\ Carried(m) \in Nat
  BY <1>1, Taking DEF LedgerInv, Takes
<1>3. \/ wallet' = wallet
      \/ /\ m.kind = "sync"
         /\ wallet' = [wallet EXCEPT ![m.dst].enabled = m.enabled,
                                     ![m.dst].vault = m.vault,
                                     ![m.dst].operator = m.operator]
      \/ m.kind = "vault" /\ wallet' = [wallet EXCEPT ![m.dst].vault = m.vault]
  BY DEF SyncPolicy, UpdateVault
<1> HIDE DEF m
<1>4. /\ wallet' \in [Owner -> Wallet]
      /\ \A x \in Owner : wallet'[x].balance = wallet[x].balance
  <2>1. CASE wallet' = wallet
    BY <1>1, <2>1
  <2>2. CASE /\ m.kind = "sync"
             /\ wallet' = [wallet EXCEPT ![m.dst].enabled = m.enabled,
                                         ![m.dst].vault = m.vault,
                                         ![m.dst].operator = m.operator]
    <3> DEFINE o == m.dst
               v == [wallet EXCEPT ![o].enabled = m.enabled]
               w == [v EXCEPT ![o].vault = m.vault]
    <3>1. /\ o \in Owner /\ m.enabled \in BOOLEAN /\ m.vault \in Address
          /\ m.operator \in BOOLEAN
      BY <1>2, <2>2, KindOf
    <3>2. wallet' = [w EXCEPT ![o].operator = m.operator]
      BY <1>1, <2>2, <3>1
    <3> HIDE DEF o
    <3>3. v \in [Owner -> Wallet] /\ \A x \in Owner : v[x].balance = wallet[x].balance
      BY <1>1, <3>1 DEF Wallet
    <3> HIDE DEF v
    <3>4. w \in [Owner -> Wallet] /\ \A x \in Owner : w[x].balance = wallet[x].balance
      BY <3>1, <3>3 DEF Wallet
    <3> HIDE DEF w
    <3> QED
      BY <3>1, <3>2, <3>4 DEF Wallet
  <2>3. CASE m.kind = "vault" /\ wallet' = [wallet EXCEPT ![m.dst].vault = m.vault]
    <3>1. m.dst \in Owner /\ m.vault \in Address
      BY <1>2, <2>3, KindOf
    <3> QED
      BY <1>1, <2>3, <3>1 DEF Wallet
  <2> QED
    BY <1>3, <2>1, <2>2, <2>3
<1>5. BalancesOf(wallet') = BalancesOf(wallet) /\ BalancesOf(wallet) \in Nat
  BY <1>1, <1>4, BalanceSame, BalancesAreNat
<1>6. TypeOK'
  BY <1>1, <1>2, <1>4 DEF LedgerInv, TypeOK, Takes, master
<1>7. BalancesOf(wallet) + CarriedBy(net) <= supply /\ supply \in Nat /\ supply' = supply
  BY <1>1, Readings DEF LedgerInv, TypeOK, SupplyCovers, master
<1>8. BalancesOf(wallet') + CarriedBy(net') <= supply'
  BY <1>2, <1>5, <1>7
<1> QED
  BY <1>6, <1>8, ReadingsNext DEF LedgerInv, SupplyCovers

LEMMA BounceStep ==
  ASSUME LedgerInv, NEW i \in DOMAIN net, Bounce(i)
  PROVE  LedgerInv'
<1> DEFINE s == RemoveAt(net, i)
           m == Value("bounced", net[i].dst, net[i].src, net[i].amount)
<1>1. net[i] \in Message /\ net \in Seq(Message)
  BY DEF LedgerInv, TypeOK
<1>2. m \in Message /\ Carried(m) = Carried(net[i])
  BY <1>1, KindOf, ValueTyped DEF Bounce
<1>3. /\ s \in Seq(Message) /\ CarriedBy(s) = CarriedBy(net) - Carried(net[i])
      /\ CarriedBy(net) \in Nat /\ Carried(net[i]) \in Nat
  BY <1>1, RemoveAtIs, CarriedRemove, CarriedIsNat
<1>4. net' = Append(s, m) /\ UNCHANGED <<master, wallet, orders>> /\ Faulty
  BY DEF Bounce
<1> HIDE DEF s, m
<1>5. net' \in Seq(Message) /\ CarriedBy(net') = CarriedBy(net)
  BY <1>2, <1>3, <1>4, CarriedAppend
<1>6. TypeOK'
  BY <1>4, <1>5, LedgerAssumption DEF LedgerInv, TypeOK, Faulty, master
<1> QED
  BY <1>4, <1>5, <1>6, Readings, ReadingsNext DEF LedgerInv, SupplyCovers, master

LEMMA GoneStep ==
  ASSUME LedgerInv, NEW i \in DOMAIN net, Lose(i) \/ MintReturned(i)
  PROVE  LedgerInv'
<1>1. /\ net' \in Seq(Message) /\ CarriedBy(net') = CarriedBy(net) - Carried(net[i])
      /\ CarriedBy(net) \in Nat /\ CarriedBy(net') \in Nat /\ Carried(net[i]) \in Nat
  BY Taking DEF LedgerInv, Lose, MintReturned, Takes
<1>2. BalancesOf(wallet) \in Nat /\ supply \in Nat
  BY BalancesAreNat DEF LedgerInv, TypeOK
<1>3. UNCHANGED <<admin, supply, enabled, vault, wallet, orders>> /\ faults' \in 0 .. MaxFaults
  BY LedgerAssumption DEF LedgerInv, TypeOK, Lose, MintReturned, Takes, Faulty, master
<1>4. TypeOK'
  BY <1>1, <1>3 DEF LedgerInv, TypeOK
<1> QED
  BY <1>1, <1>2, <1>3, <1>4, Readings, ReadingsNext DEF LedgerInv, SupplyCovers

LEMMA LedgerInit == Init => LedgerInv
<1> SUFFICES ASSUME Init PROVE LedgerInv
  OBVIOUS
<1>1. NewWallet \in Wallet /\ NewWallet.balance = 0
  BY DEF NewWallet, Wallet, Address
<1>2. wallet \in [Owner -> Wallet] /\ \A x \in Owner : wallet[x].balance = 0
  BY <1>1 DEF Init
<1>3. BalancesOf(wallet) = 0
  BY <1>2, NothingHeld
<1>4. net \in Seq(Message) /\ net = <<>>
  BY DEF Init
<1>5. CarriedBy(net) = 0
  <2> DEFINE f == [i \in DOMAIN net |-> Carried(net[i])]
  <2>1. DOMAIN f = {}
    BY <1>4
  <2>2. CarriedBy(net) = SumFunctionOnSet(f, {})
    BY <2>1 DEF CarriedBy, SumFunction
  <2> HIDE DEF f
  <2> QED
    BY <2>2, SumEmpty
<1>6. TypeOK
  <2>1. admin \in Account /\ vault \in Account /\ supply \in Nat /\ enabled \in BOOLEAN
    BY DEF Init
  <2>2. orders \in 0 .. MaxOrders /\ faults \in 0 .. MaxFaults
    BY LedgerAssumption DEF Init
  <2> QED
    BY <1>2, <1>4, <2>1, <2>2 DEF TypeOK
<1> QED
  BY <1>3, <1>5, <1>6, Readings DEF Init, LedgerInv, SupplyCovers

\* However the messages of the jetton are delivered, fail, bounce and get
\* lost, the supply of the master covers the balances of the wallets and every
\* amount on the way: a burn notification never takes it below zero, and no
\* bounce credits an amount twice.
THEOREM SupplyHolds == Spec => []LedgerInv
<1>1. LedgerInv /\ [Next]_vars => LedgerInv'
  <2> SUFFICES ASSUME LedgerInv, [Next]_vars PROVE LedgerInv'
    OBVIOUS
  <2>1. CASE Orders
    BY <2>1, OrdersStep
  <2>2. CASE Deliver
    BY <2>2, CreditStep, BurnNotifiedStep, LearnStep, BounceStep, GoneStep DEF Deliver
  <2>3. CASE UNCHANGED vars
    BY <2>3, Readings, ReadingsNext
       DEF LedgerInv, TypeOK, SupplyCovers, Balances, OnTheWay, vars, master
  <2> QED
    BY <2>1, <2>2, <2>3 DEF Next
<1> QED
  BY <1>1, LedgerInit, PTL DEF Spec
=============================================================================
