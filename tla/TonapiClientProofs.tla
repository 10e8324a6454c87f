------------------------- MODULE TonapiClientProofs -------------------------
(***************************************************************************)
(* Proofs about TonapiClient: reads of one account are collapsed into one  *)
(* fetch, and the bursts of requests that the rate limiter lets through are*)
(* bounded, for any readers, accounts, limits and times.                   *)
(*                                                                         *)
(* Neither depends on what the cache holds.  Its size and its order are    *)
(* part of the typing, which comes first: bulk reads fold get and set over *)
(* lists of accounts.                                                      *)
(***************************************************************************)
EXTENDS TonapiClient, FiniteSetTheorems, SequenceTheorems, WellFoundedInduction, TLAPS

-----------------------------------------------------------------------------
(* The cache *)

\* What a cache holds: profiles, no more than configured, an account once.
CacheOK(c) ==
  /\ c \in Seq(Profile) /\ Len(c) <= CacheMax
  /\ \A i, j \in DOMAIN c : c[i].id = c[j].id => i = j

LEMMA RemoveOne ==
  ASSUME NEW S, NEW c \in Seq(S), NEW i \in 1 .. Len(c)
  PROVE  /\ RemoveAt(c, i) \in Seq(S) /\ Len(RemoveAt(c, i)) = Len(c) - 1
         /\ \A j \in 1 .. Len(c) - 1 :
              RemoveAt(c, i)[j] = c[IF j < i THEN j ELSE j + 1]
<1> DEFINE front == SubSeq(c, 1, i - 1)
           back == SubSeq(c, i + 1, Len(c))
<1>1. /\ front \in Seq(S) /\ Len(front) = i - 1
      /\ \A j \in 1 .. i - 1 : front[j] = c[j]
  <2>1. \A j \in 1 .. i - 1 : c[j] \in S
    OBVIOUS
  <2> QED
    BY <2>1, SubSeqProperties
<1>2. /\ back \in Seq(S) /\ Len(back) = Len(c) - i
      /\ \A j \in 1 .. Len(c) - i : back[j] = c[i + j]
  <2>1. \A j \in i + 1 .. Len(c) : c[j] \in S
    OBVIOUS
  <2>2. /\ back \in Seq(S) /\ Len(back) = IF i + 1 <= Len(c) THEN Len(c) - (i + 1) + 1 ELSE 0
        /\ \A j \in 1 .. Len(c) - (i + 1) + 1 : back[j] = c[(i + 1) + j - 1]
    BY <2>1, SubSeqProperties
  <2> QED
    BY <2>2
<1> HIDE DEF front, back
<1>3. /\ front \o back \in Seq(S) /\ Len(front \o back) = Len(front) + Len(back)
      /\ \A j \in 1 .. Len(front) + Len(back) :
           (front \o back)[j] = IF j <= Len(front) THEN front[j] ELSE back[j - Len(front)]
  BY <1>1, <1>2, ConcatProperties
<1>4. RemoveAt(c, i) = front \o back
  BY DEF RemoveAt, front, back
<1>5. ASSUME NEW j \in 1 .. Len(c) - 1
      PROVE  (front \o back)[j] = c[IF j < i THEN j ELSE j + 1]
  <2>1. CASE j < i
    BY <1>1, <1>2, <1>3, <2>1
  <2>2. CASE ~(j < i)
    <3>1. j - (i - 1) \in 1 .. Len(c) - i /\ i + (j - (i - 1)) = j + 1
      BY <2>2
    <3> QED
      BY <1>1, <1>2, <1>3, <2>2, <3>1
  <2> QED
    BY <2>1, <2>2
<1>6. Len(c) \in Nat /\ Len(front) + Len(back) = Len(c) - 1
  BY <1>1, <1>2
<1> QED
  BY <1>3, <1>4, <1>5, <1>6

\* Taking a profile out leaves a cache.
LEMMA RemovedOK ==
  ASSUME NEW c, CacheOK(c), NEW i \in DOMAIN c
  PROVE  /\ CacheOK(RemoveAt(c, i)) /\ Len(RemoveAt(c, i)) = Len(c) - 1
         /\ \A j \in DOMAIN RemoveAt(c, i) :
              \E k \in DOMAIN c : k # i /\ RemoveAt(c, i)[j] = c[k]
<1> DEFINE r == RemoveAt(c, i)
           at(j) == IF j < i THEN j ELSE j + 1
<1>1. c \in Seq(Profile) /\ Len(c) \in Nat /\ DOMAIN c = 1 .. Len(c) /\ i \in 1 .. Len(c)
  BY DEF CacheOK
<1>2. /\ r \in Seq(Profile) /\ Len(r) = Len(c) - 1
      /\ \A j \in 1 .. Len(c) - 1 : r[j] = c[at(j)]
  BY <1>1, RemoveOne
<1> HIDE DEF r
<1>3. DOMAIN r = 1 .. Len(c) - 1
  BY <1>1, <1>2
<1>4. \A j \in DOMAIN r : at(j) \in DOMAIN c /\ at(j) # i /\ r[j] = c[at(j)]
  BY <1>1, <1>2, <1>3
<1>5. \A j, k \in DOMAIN r : at(j) = at(k) => j = k
  BY <1>1, <1>3
<1>6. \A j, k \in DOMAIN r : r[j].id = r[k].id => j = k
  <2> HIDE DEF at
  <2> QED
    BY <1>4, <1>5 DEF CacheOK
<1>7. Len(r) <= CacheMax
  BY <1>1, <1>2, ClientAssumption DEF CacheOK
<1>8. CacheOK(r)
  BY <1>2, <1>6, <1>7 DEF CacheOK
<1> QED
  BY <1>2, <1>4, <1>8 DEF r

\* After a delete the account is not in the cache.
LEMMA WithoutOK ==
  ASSUME NEW c, CacheOK(c), NEW id
  PROVE  CacheOK(Without(c, id)) /\ PlaceOf(Without(c, id), id) = {}
<1>1. CASE PlaceOf(c, id) = {}
  BY <1>1 DEF Without
<1>2. CASE PlaceOf(c, id) # {}
  <2> DEFINE i == CHOOSE i \in PlaceOf(c, id) : TRUE
  <2>1. i \in DOMAIN c /\ c[i].id = id
    BY <1>2 DEF PlaceOf
  <2>2. Without(c, id) = RemoveAt(c, i)
    BY <1>2 DEF Without
  <2> HIDE DEF i
  <2>3. CacheOK(RemoveAt(c, i))
    BY <2>1, RemovedOK
  <2>4. ASSUME NEW j \in DOMAIN RemoveAt(c, i) PROVE RemoveAt(c, i)[j].id # id
    <3>1. PICK k \in DOMAIN c : k # i /\ RemoveAt(c, i)[j] = c[k]
      BY <2>1, RemovedOK
    <3> QED
      BY <2>1, <3>1 DEF CacheOK
  <2> QED
    BY <2>2, <2>3, <2>4 DEF PlaceOf
<1> QED
  BY <1>1, <1>2

LEMMA LeastOfNats ==
  ASSUME NEW S, S \subseteq Nat, S # {}
  PROVE  \E m \in S : \A n \in S : m <= n
<1>1. PICK m \in S : \A n \in S : ~(<<n, m>> \in OpToRel(<, Nat))
  BY NatLessThanWellFounded, WFMin
<1>2. ASSUME NEW n \in S, n < m PROVE FALSE
  <2>1. <<n, m>> \in Nat \X Nat
    OBVIOUS
  <2>2. <<n, m>> \in OpToRel(<, Nat)
    BY <1>2, <2>1 DEF OpToRel
  <2> QED
    BY <1>1, <2>2
<1> QED
  BY <1>2

\* A cache that holds something has a profile used least recently.
LEMMA LeastUsedIn ==
  ASSUME NEW c \in Seq(Profile), Len(c) > 0
  PROVE  LeastUsed(c) \in DOMAIN c
<1> DEFINE used == {c[i].used : i \in DOMAIN c}
<1>1. /\ Len(c) \in Nat /\ DOMAIN c = 1 .. Len(c)
      /\ \A i \in DOMAIN c : c[i].used \in Nat
  <2>1. Len(c) \in Nat /\ DOMAIN c = 1 .. Len(c)
    OBVIOUS
  <2>2. \A i \in DOMAIN c : c[i] \in Profile
    BY <2>1, ElementOfSeq
  <2> QED
    BY <2>1, <2>2, ClientAssumption DEF Profile
<1>2. PICK m \in used : \A n \in used : m <= n
  <2>1. used \subseteq Nat /\ used # {}
    BY <1>1
  <2> HIDE DEF used
  <2> QED
    BY <2>1, LeastOfNats
<1> DEFINE places == {i \in DOMAIN c : c[i].used = m}
<1>3. PICK i \in places : \A j \in places : i <= j
  <2>1. places \subseteq Nat /\ places # {}
    BY <1>1, <1>2
  <2> HIDE DEF places
  <2> QED
    BY <2>1, LeastOfNats
<1>4. \A j \in DOMAIN c : c[i].used < c[j].used \/ (c[i].used = c[j].used /\ i <= j)
  <2> TAKE j \in DOMAIN c
  <2>1. CASE j \in places
    BY <1>3, <2>1
  <2>2. CASE j \notin places
    <3>1. m <= c[j].used /\ m # c[j].used /\ m \in Nat /\ c[j].used \in Nat /\ c[i].used = m
      BY <1>1, <1>2, <1>3, <2>2
    <3> QED
      BY <3>1
  <2> QED
    BY <2>1, <2>2
<1> QED
  BY <1>3, <1>4 DEF LeastUsed
\* set leaves a cache, of any account at any time.
LEMMA CacheSetOK ==
  ASSUME NEW c, CacheOK(c), NEW id \in Account, now \in 0 .. MaxTime
  PROVE  CacheOK(CacheSet(c, id))
<1> DEFINE rest == Without(c, id)
           room == IF Len(rest) >= CacheMax THEN RemoveAt(rest, LeastUsed(rest)) ELSE rest
           new == [id |-> id, at |-> now, used |-> now]
<1>1. CacheOK(rest) /\ \A i \in DOMAIN rest : rest[i].id # id
  BY WithoutOK DEF PlaceOf
<1>2. new \in Profile
  BY DEF Profile
<1>3. CacheSet(c, id) = Append(room, new)
  BY DEF CacheSet
<1> HIDE DEF rest, new
<1>4. /\ CacheOK(room) /\ Len(room) < CacheMax
      /\ \A i \in DOMAIN room : room[i].id # id
  <2>1. rest \in Seq(Profile) /\ Len(rest) \in Nat /\ Len(rest) <= CacheMax
    BY <1>1 DEF CacheOK
  <2>2. CASE Len(rest) >= CacheMax
    <3>1. LeastUsed(rest) \in DOMAIN rest
      BY <2>1, <2>2, ClientAssumption, LeastUsedIn
    <3>2. /\ CacheOK(room) /\ Len(room) = Len(rest) - 1
          /\ \A i \in DOMAIN room : \E k \in DOMAIN rest : room[i] = rest[k]
      BY <1>1, <2>2, <3>1, RemovedOK
    <3> QED
      BY <1>1, <2>1, <3>2, ClientAssumption
  <2>3. CASE ~(Len(rest) >= CacheMax)
    BY <1>1, <2>1, <2>3, ClientAssumption
  <2> QED
    BY <2>2, <2>3
<1> HIDE DEF room
<1>5. /\ Append(room, new) \in Seq(Profile) /\ Len(Append(room, new)) = Len(room) + 1
      /\ \A i \in 1 .. Len(room) : Append(room, new)[i] = room[i]
      /\ Append(room, new)[Len(room) + 1] = new
  BY <1>2, <1>4, AppendProperties DEF CacheOK
<1>6. Len(room) \in Nat /\ DOMAIN room = 1 .. Len(room)
  BY <1>4 DEF CacheOK
<1>7. DOMAIN Append(room, new) = 1 .. Len(room) + 1
  BY <1>5
<1>8. \A i, j \in 1 .. Len(room) + 1 : Append(room, new)[i].id = Append(room, new)[j].id => i = j
  <2>2. new.id = id
    BY DEF new
  <2> QED
    BY <1>4, <1>5, <1>6, <2>2 DEF CacheOK
<1>9. Len(room) + 1 <= CacheMax
  BY <1>4, <1>6, ClientAssumption
<1> QED
  BY <1>3, <1>5, <1>7, <1>8, <1>9 DEF CacheOK

\* So does get.
LEMMA GotOK ==
  ASSUME NEW c, CacheOK(c), NEW id, now \in 0 .. MaxTime
  PROVE  CacheOK(Got(c, id))
<1>1. CASE ~Hit(c, id)
  BY <1>1, WithoutOK DEF Got
<1>2. CASE Hit(c, id)
  <2> DEFINE touched(i) == IF c[i].id = id THEN [c[i] EXCEPT !.used = now] ELSE c[i]
             g == [i \in 1 .. Len(c) |-> touched(i)]
  <2>1. c \in Seq(Profile) /\ Len(c) \in Nat /\ DOMAIN c = 1 .. Len(c)
    BY DEF CacheOK
  <2>2. \A i \in 1 .. Len(c) : touched(i) \in Profile /\ touched(i).id = c[i].id
    <3>1. \A i \in 1 .. Len(c) : c[i] \in Profile
      BY <2>1, ElementOfSeq
    <3> QED
      BY <3>1 DEF Profile
  <2>3. Got(c, id) = g
    BY <1>2, <2>1 DEF Got
  <2>4. g \in Seq(Profile)
    <3> HIDE DEF touched
    <3> QED
      BY <2>1, <2>2, IsASeq
  <2>5. Len(g) = Len(c) /\ DOMAIN g = 1 .. Len(c) /\ \A i \in 1 .. Len(c) : g[i].id = c[i].id
    BY <2>1, <2>2, <2>4
  <2> HIDE DEF g
  <2> QED
    BY <2>1, <2>3, <2>4, <2>5 DEF CacheOK
<1> QED
  BY <1>1, <1>2

-----------------------------------------------------------------------------
(* Lists of gets and sets.  The library's folds take the positions of a list one by *)
(* one, the last one last: induction over a finite set of positions, with the set of *)
(* counterexamples in place of an operator.                                         *)

Positions(S) == S \subseteq Nat /\ IsFiniteSet(S)

LEMMA PartOf == ASSUME NEW S, Positions(S), NEW T \in SUBSET S PROVE Positions(T)
BY FS_Subset DEF Positions

LEMMA MinimalPart ==
  ASSUME NEW S, Positions(S), NEW C, C \subseteq SUBSET S, C # {}
  PROVE  \E t \in C : \A u \in C : u \subseteq t => u = t
<1> DEFINE sizes == {Cardinality(t) : t \in C}
<1>1. \A t \in C : IsFiniteSet(t) /\ Cardinality(t) \in Nat
  BY FS_Subset, FS_CardinalityType DEF Positions
<1>2. sizes \subseteq Nat /\ sizes # {}
  BY <1>1
<1>3. \E n \in sizes : \A k \in sizes : n <= k
  <2> HIDE DEF sizes
  <2> QED
    BY <1>2, LeastOfNats
<1>4. PICK t \in C : \A u \in C : Cardinality(t) <= Cardinality(u)
  BY <1>3
<1>5. ASSUME NEW u \in C, u \subseteq t, u # t PROVE FALSE
  <2>1. Cardinality(u) <= Cardinality(t) /\ Cardinality(u) # Cardinality(t)
    BY <1>1, <1>5, FS_Subset
  <2> QED
    BY <1>1, <1>4, <2>1
<1> QED
  BY <1>5

LEMMA MaxIn ==
  ASSUME NEW S, Positions(S), S # {}
  PROVE  Max(S) \in S /\ \A x \in S : x <= Max(S)
<1> DEFINE top(t) == \E m \in t : \A x \in t : m >= x
           C == {t \in SUBSET S : t # {} /\ ~top(t)}
<1>1. ASSUME NEW t \in C, \A u \in C : u \subseteq t => u = t PROVE FALSE
  <2>1. PICK a \in t : a \in Nat /\ \A x \in t : x \in Nat
    BY DEF Positions
  <2>2. t \ {a} \notin C /\ t \ {a} \in SUBSET S
    BY <1>1, <2>1
  <2>3. CASE t \ {a} = {}
    BY <2>1, <2>3
  <2>4. CASE t \ {a} # {}
    <3>1. PICK m \in t \ {a} : \A x \in t \ {a} : m >= x
      BY <2>2, <2>4
    <3>2. CASE m >= a
      BY <3>1, <3>2
    <3>3. CASE ~(m >= a)
      BY <2>1, <3>1, <3>3
    <3> QED
      BY <3>2, <3>3
  <2> QED
    BY <2>3, <2>4
<1>2. C \subseteq SUBSET S
  OBVIOUS
<1>3. C = {}
  <2> HIDE DEF C
  <2> QED
    BY <1>1, <1>2, MinimalPart
<1>4. PICK m \in S : \A x \in S : m >= x
  BY <1>3
<1> QED
  BY <1>4 DEF Max

\* A get or a set, and a list of them after cache c.
Touched(gets, c, id) == IF gets THEN Got(c, id) ELSE CacheSet(c, id)
Folding(g, gets, c, q, S) ==
  g = [s \in SUBSET S |-> IF s = {} THEN c ELSE Touched(gets, g[s \ {Max(s)}], q[Max(s)])]

LEMMA FoldingAt ==
  ASSUME NEW gets, NEW c, NEW q, NEW S, NEW g, Folding(g, gets, c, q, S), NEW s \in SUBSET S
  PROVE  g[s] = IF s = {} THEN c ELSE Touched(gets, g[s \ {Max(s)}], q[Max(s)])
BY DEF Folding

\* The function a fold is defined by exists: a least set without one could be given one,
\* from that of the set without its last position.
LEMMA FoldingExists ==
  ASSUME NEW gets, NEW c, NEW q, NEW S, Positions(S)
  PROVE  \E g : Folding(g, gets, c, q, S)
<1> DEFINE C == {s \in SUBSET S : ~\E g : Folding(g, gets, c, q, s)}
<1>1. SUFFICES ASSUME C # {} PROVE FALSE
  OBVIOUS
<1>2. \E t \in C : \A u \in C : u \subseteq t => u = t
  <2>1. C \subseteq SUBSET S
    OBVIOUS
  <2> HIDE DEF C
  <2> QED
    BY <1>1, <2>1, MinimalPart
<1>3. PICK t \in C : \A u \in C : u \subseteq t => u = t
  BY <1>2
<1>4. Positions(t) /\ t \in SUBSET S
  BY PartOf
<1>5. CASE t = {}
  <2> DEFINE g == [s \in SUBSET t |-> c]
  <2>1. g = [s \in SUBSET t |->
               IF s = {} THEN c ELSE Touched(gets, g[s \ {Max(s)}], q[Max(s)])]
    BY <1>5
  <2>2. Folding(g, gets, c, q, t)
    BY <2>1 DEF Folding
  <2> QED
    BY <2>2
<1>6. CASE t # {}
  <2> DEFINE m == Max(t)
  <2>1. m \in t /\ \A x \in t : x <= m
    BY <1>4, <1>6, MaxIn
  <2> HIDE DEF m
  <2>2. PICK h : Folding(h, gets, c, q, t \ {m})
    <3>1. t \ {m} \in SUBSET S /\ t \ {m} \notin C
      BY <1>3, <1>4, <2>1
    <3> QED
      BY <3>1
  <2> DEFINE g == [s \in SUBSET t |-> IF m \in s THEN Touched(gets, h[s \ {m}], q[m]) ELSE h[s]]
             next(s) == IF s = {} THEN c ELSE Touched(gets, g[s \ {Max(s)}], q[Max(s)])
  <2>3. ASSUME NEW s \in SUBSET t PROVE g[s] = next(s)
    <3>1. s # {} => Max(s) \in s /\ \A x \in s : x <= Max(s)
      BY <1>4, PartOf, MaxIn
    <3>2. CASE m \in s
      <4>1. Max(s) = m
        <5>1. Max(s) \in Nat /\ m \in Nat /\ m <= Max(s) /\ Max(s) <= m
          BY <1>4, <2>1, <3>1, <3>2 DEF Positions
        <5> QED
          BY <5>1
      <4>2. s \ {m} \in SUBSET t /\ m \notin s \ {m}
        OBVIOUS
      <4>3. g[s \ {m}] = h[s \ {m}]
        BY <4>2
      <4> QED
        BY <3>2, <4>1, <4>3
    <3>3. CASE m \notin s
      <4>1. s \in SUBSET (t \ {m}) /\ g[s] = h[s]
        BY <3>3
      <4>2. h[s] = IF s = {} THEN c ELSE Touched(gets, h[s \ {Max(s)}], q[Max(s)])
        BY <2>2, <4>1, FoldingAt
      <4>3. g[s \ {Max(s)}] = h[s \ {Max(s)}]
        BY <3>3
      <4> QED
        BY <4>1, <4>2, <4>3
    <3> QED
      BY <3>2, <3>3
  <2>4. g = [s \in SUBSET t |-> next(s)]
    <3> HIDE DEF next
    <3> QED
      BY <2>3
  <2>5. Folding(g, gets, c, q, t)
    BY <2>4 DEF Folding
  <2> QED
    BY <2>5
<1> QED
  BY <1>5, <1>6

\* Whatever is got from a cache or set in it, it remains one.
LEMMA FoldingOK ==
  ASSUME NEW gets, NEW c, CacheOK(c), NEW q \in Seq(Account), now \in 0 .. MaxTime,
         NEW g, Folding(g, gets, c, q, DOMAIN q)
  PROVE  CacheOK(g[DOMAIN q])
<1> DEFINE S == DOMAIN q
           C == {s \in SUBSET S : ~CacheOK(g[s])}
<1>1. \A s \in SUBSET DOMAIN q :
        g[s] = IF s = {} THEN c ELSE Touched(gets, g[s \ {Max(s)}], q[Max(s)])
  BY DEF Folding
<1>2. Positions(S) /\ \A i \in S : q[i] \in Account
  <2>1. S = 1 .. Len(q) /\ Len(q) \in Nat
    OBVIOUS
  <2>2. Positions(S)
    BY <2>1, FS_Interval DEF Positions
  <2>3. \A i \in 1 .. Len(q) : q[i] \in Account
    BY ElementOfSeq
  <2> QED
    BY <2>1, <2>2, <2>3
<1>3. ASSUME NEW t \in C, \A u \in C : u \subseteq t => u = t PROVE FALSE
  <2>1. g[t] = IF t = {} THEN c ELSE Touched(gets, g[t \ {Max(t)}], q[Max(t)])
    BY <1>1
  <2>2. t # {}
    BY <2>1
  <2>3. Max(t) \in t
    BY <1>2, <2>2, PartOf, MaxIn
  <2>4. CacheOK(g[t \ {Max(t)}]) /\ q[Max(t)] \in Account
    BY <1>2, <1>3, <2>3
  <2>5. CacheOK(Touched(gets, g[t \ {Max(t)}], q[Max(t)]))
    BY <2>4, GotOK, CacheSetOK DEF Touched
  <2> QED
    BY <2>1, <2>2, <2>5
<1>4. C = {}
  <2>1. C \subseteq SUBSET S
    OBVIOUS
  <2> HIDE DEF C
  <2> QED
    BY <1>2, <1>3, <2>1, MinimalPart
<1> QED
  BY <1>4

LEMMA ManyGotOK ==
  ASSUME NEW c, CacheOK(c), NEW q \in Seq(Account), now \in 0 .. MaxTime
  PROVE  CacheOK(FoldLeft(Got, c, q))
<1> DEFINE Gets(g) == g = [s \in SUBSET DOMAIN q |->
                             IF s = {} THEN c ELSE Got(g[s \ {Max(s)}], q[Max(s)])]
           iter == CHOOSE g : Gets(g)
<1>1. FoldLeft(Got, c, q) = iter[DOMAIN q]
  BY DEF FoldLeft, MapThenFoldSet
<1>2. \A g : Gets(g) <=> Folding(g, TRUE, c, q, DOMAIN q)
  BY DEF Folding, Touched
<1>3. Positions(DOMAIN q)
  BY FS_Interval DEF Positions
<1>4. Folding(iter, TRUE, c, q, DOMAIN q)
  <2> HIDE DEF Gets
  <2> QED
    BY <1>2, <1>3, FoldingExists
<1> HIDE DEF iter
<1> QED
  BY <1>1, <1>4, FoldingOK

LEMMA ManySetOK ==
  ASSUME NEW c, CacheOK(c), NEW q \in Seq(Account), now \in 0 .. MaxTime
  PROVE  CacheOK(FoldLeft(CacheSet, c, q))
<1> DEFINE Sets(g) == g = [s \in SUBSET DOMAIN q |->
                             IF s = {} THEN c ELSE CacheSet(g[s \ {Max(s)}], q[Max(s)])]
           iter == CHOOSE g : Sets(g)
<1>1. FoldLeft(CacheSet, c, q) = iter[DOMAIN q]
  BY DEF FoldLeft, MapThenFoldSet
<1>2. \A g : Sets(g) <=> Folding(g, FALSE, c, q, DOMAIN q)
  BY DEF Folding, Touched
<1>3. Positions(DOMAIN q)
  BY FS_Interval DEF Positions
<1>4. Folding(iter, FALSE, c, q, DOMAIN q)
  <2> HIDE DEF Sets
  <2> QED
    BY <1>2, <1>3, FoldingExists
<1> HIDE DEF iter
<1> QED
  BY <1>1, <1>4, FoldingOK

-----------------------------------------------------------------------------
(* Typing *)

LEMMA ReadKinds ==
  ASSUME NEW read \in Read
  PROVE  /\ read.kind \in {"profile", "bulk", "history"}
         /\ read.kind = "profile" => read.id \in Account
<1> DEFINE lists == {Of(s, ids) : s \in BulkReads, ids \in SUBSET Account}
<1>1. \/ read \in [kind : {"profile"}, id : Account]
      \/ read \in [kind : {"bulk"}, asked : lists]
      \/ read \in [kind : {"history"}]
  BY DEF Read
<1> HIDE DEF lists
<1> QED
  BY <1>1

LEMMA ReadsMade ==
  /\ \A id \in Account : [kind |-> "profile", id |-> id] \in Read
  /\ \A s \in BulkReads, S \in SUBSET Account : [kind |-> "bulk", asked |-> Of(s, S)] \in Read
  /\ [kind |-> "history"] \in Read
<1> DEFINE lists == {Of(s, ids) : s \in BulkReads, ids \in SUBSET Account}
<1>1. \A s \in BulkReads, S \in SUBSET Account : Of(s, S) \in lists
  OBVIOUS
<1>2. Read = [kind : {"profile"}, id : Account] \cup [kind : {"bulk"}, asked : lists]
               \cup [kind : {"history"}]
  BY DEF Read
<1> HIDE DEF lists
<1> QED
  BY <1>1, <1>2

\* What a reader may be at.
ReaderState ==
  {Idle}
    \cup [step : {"joined"}, read : Read]
    \cup [step : {"asking", "waiting"}, read : Read, attempt : 0 .. MaxAttempts - 1]
    \cup [step : {"answered"}, read : Read, reason : Reasons]

\* A reader that waits has an attempt left.
CallsOK ==
  /\ inFlight \subseteq Account /\ reader \in [Reader -> ReaderState]
  /\ \A r \in Reader : reader[r].step = "waiting" => reader[r].attempt + 1 < MaxAttempts

LimiterOK ==
  windowStart \in 0 .. now /\ count \in 0 .. MaxPerWindow /\ requests \in Seq(0 .. now)

ClientInv ==
  /\ now \in 0 .. MaxTime /\ credentials \in BOOLEAN /\ calls \in 0 .. MaxCalls
  /\ CacheOK(cache) /\ CallsOK /\ LimiterOK

LEMMA InvIsTyped == ClientInv => TypeOK
BY DEF ClientInv, TypeOK, CacheOK, CallsOK, LimiterOK, ReaderState

LEMMA StateRead ==
  ASSUME NEW s \in ReaderState
  PROVE  /\ s.step \in {"idle", "joined", "asking", "waiting", "answered"}
         /\ s.step # "idle" => s.read \in Read
         /\ s.step \in {"asking", "waiting"} =>
              /\ s.attempt \in 0 .. MaxAttempts - 1
              /\ s = [step |-> s.step, read |-> s.read, attempt |-> s.attempt]
BY DEF ReaderState, Idle

LEMMA AnswerState ==
  ASSUME NEW read \in Read, NEW reason \in Reasons
  PROVE  /\ Answer(read, reason) \in ReaderState
         /\ Answer(read, reason).step = "answered"
BY DEF Answer, ReaderState

LEMMA AskState ==
  ASSUME NEW step \in {"asking", "waiting"}, NEW read \in Read, NEW n \in 0 .. MaxAttempts - 1
  PROVE  [step |-> step, read |-> read, attempt |-> n] \in ReaderState
BY DEF ReaderState

\* One reader moves on.
LEMMA OneMoves ==
  ASSUME CallsOK, NEW r \in Reader, NEW s \in ReaderState,
         s.step = "waiting" => s.attempt + 1 < MaxAttempts,
         reader' = [reader EXCEPT ![r] = s], inFlight' \subseteq Account
  PROVE  CallsOK'
<1>1. reader' \in [Reader -> ReaderState]
  BY DEF CallsOK
<1>2. \A q \in Reader : reader'[q] = IF q = r THEN s ELSE reader[q]
  BY DEF CallsOK
<1> QED
  BY <1>1, <1>2 DEF CallsOK

\* A read ends, for all who wait for it.
LEMMA EndMoves ==
  ASSUME CallsOK, NEW r \in Reader, reader[r].step # "idle",
         NEW reason \in Reasons, Finish(r, reader[r].read, reason)
  PROVE  CallsOK'
<1> DEFINE waits == Waiting(r, reader[r].read)
           Next1(q) == IF q \in waits THEN Answer(reader[q].read, reason) ELSE reader[q]
<1>1. reader' = [q \in Reader |-> Next1(q)] /\ inFlight' \subseteq inFlight
  BY DEF Finish, Settled
<1>2. \A q \in Reader : reader[q] \in ReaderState
  BY DEF CallsOK
<1>3. \A q \in waits : q \in Reader /\ reader[q].step # "idle"
  BY DEF Waiting
<1>4. ASSUME NEW q \in Reader
      PROVE  /\ Next1(q) \in ReaderState
             /\ Next1(q).step = "waiting" => Next1(q).attempt + 1 < MaxAttempts
  <2>1. CASE q \in waits
    <3>1. reader[q].read \in Read
      BY <1>2, <1>3, <2>1, StateRead
    <3>2. /\ Answer(reader[q].read, reason) \in ReaderState
          /\ Answer(reader[q].read, reason).step = "answered"
      BY <3>1, AnswerState
    <3> QED
      BY <2>1, <3>2
  <2>2. CASE q \notin waits
    BY <1>2, <2>2 DEF CallsOK
  <2> QED
    BY <2>1, <2>2
<1> HIDE DEF Next1
<1> QED
  BY <1>1, <1>4 DEF CallsOK

LEMMA CountedOK ==
  ASSUME LimiterOK, now \in 0 .. MaxTime, Counted, UNCHANGED now,
         requests' = IF Allowed THEN Append(requests, now) ELSE requests
  PROVE  LimiterOK'
<1>1. windowStart' \in 0 .. now /\ count' \in 0 .. MaxPerWindow
  BY ClientAssumption DEF LimiterOK, Counted, Allowed, WindowOver
<1>2. requests' \in Seq(0 .. now)
  <2>1. requests \in Seq(0 .. now) /\ now \in 0 .. now
    BY ClientAssumption DEF LimiterOK
  <2>2. Append(requests, now) \in Seq(0 .. now)
    BY <2>1, AppendProperties
  <2> QED
    BY <2>1, <2>2
<1> QED
  BY <1>1, <1>2 DEF LimiterOK

\* An attempt is sent off, or the limiter ends the read.
LEMMA AttemptMoves ==
  ASSUME CallsOK, LimiterOK, now \in 0 .. MaxTime, NEW r \in Reader, NEW read \in Read,
         NEW n \in 0 .. MaxAttempts - 1, n # 0 => reader[r].step # "idle" /\ reader[r].read = read,
         Attempt(r, read, n), UNCHANGED now
  PROVE  CallsOK' /\ LimiterOK'
<1>1. LimiterOK'
  BY CountedOK DEF Attempt
<1>2. CASE Allowed
  <2> DEFINE s == [step |-> "asking", read |-> read, attempt |-> n]
  <2>1. s \in ReaderState /\ s.step # "waiting"
    BY AskState
  <2>2. reader' = [reader EXCEPT ![r] = s] /\ inFlight' \subseteq Account
    BY <1>2, ReadKinds DEF Attempt, CallsOK
  <2> HIDE DEF s
  <2> QED
    BY <1>1, <2>1, <2>2, OneMoves
<1>3. CASE ~Allowed /\ n = 0
  <2> DEFINE s == Answer(read, "rate_limit_exceeded")
  <2>1. s \in ReaderState /\ s.step # "waiting"
    BY AnswerState DEF Reasons
  <2>2. reader' = [reader EXCEPT ![r] = s] /\ inFlight' \subseteq Account
    BY <1>3 DEF Attempt, CallsOK
  <2> HIDE DEF s
  <2> QED
    BY <1>1, <2>1, <2>2, OneMoves
<1>4. CASE ~Allowed /\ n # 0
  <2>1. Finish(r, reader[r].read, "rate_limit_exceeded") /\ "rate_limit_exceeded" \in Reasons
    BY <1>4 DEF Attempt, Reasons
  <2> QED
    BY <1>1, <1>4, <2>1, EndMoves
<1> QED
  BY <1>2, <1>3, <1>4

LEMMA AnswersAtOnce ==
  ASSUME CallsOK, NEW r \in Reader, NEW read \in Read, NEW reason \in Reasons,
         reader' = [reader EXCEPT ![r] = Answer(read, reason)], UNCHANGED inFlight
  PROVE  CallsOK'
<1> DEFINE s == Answer(read, reason)
<1>1. s \in ReaderState /\ s.step # "waiting" /\ inFlight' \subseteq Account
  BY AnswerState DEF CallsOK
<1>2. reader' = [reader EXCEPT ![r] = s]
  OBVIOUS
<1> HIDE DEF s
<1> QED
  BY <1>1, <1>2, OneMoves

LEMMA RequestMoves ==
  ASSUME CallsOK, LimiterOK, now \in 0 .. MaxTime, NEW r \in Reader, NEW read \in Read,
         Request(r, read), UNCHANGED now
  PROVE  CallsOK' /\ LimiterOK'
<1>1. CASE credentials
  <2>1. 0 \in 0 .. MaxAttempts - 1 /\ Attempt(r, read, 0)
    BY <1>1, ClientAssumption DEF Request
  <2> QED
    BY <2>1, AttemptMoves
<1>2. CASE ~credentials
  <2>1. "missing_credentials" \in Reasons
    BY DEF Reasons
  <2>2. /\ reader' = [reader EXCEPT ![r] = Answer(read, "missing_credentials")]
        /\ UNCHANGED <<inFlight, windowStart, count, requests>>
    BY <1>2 DEF Request, limiter
  <2>3. CallsOK'
    BY <2>1, <2>2, AnswersAtOnce
  <2> QED
    BY <2>2, <2>3 DEF LimiterOK
<1> QED
  BY <1>1, <1>2

LEMMA ClientStep == ClientInv /\ [Next]_vars => ClientInv'
<1> SUFFICES ASSUME ClientInv, [Next]_vars PROVE ClientInv'
  OBVIOUS
<1>1. /\ now \in 0 .. MaxTime /\ now \in Nat /\ credentials \in BOOLEAN
      /\ calls \in 0 .. MaxCalls /\ CacheOK(cache) /\ CallsOK /\ LimiterOK
  BY ClientAssumption DEF ClientInv
<1>2. \A r \in Reader : Calls(r) =>
        UNCHANGED <<now, credentials>> /\ calls' \in 0 .. MaxCalls
  BY <1>1, ClientAssumption DEF Calls
<1>3. ASSUME NEW r \in Reader, NEW id \in Account, ReadProfile(r, id) PROVE ClientInv'
  <2> DEFINE read == [kind |-> "profile", id |-> id]
  <2>1. read \in Read /\ Calls(r) /\ cache' = Got(cache, id)
    BY <1>3, ReadsMade DEF ReadProfile
  <2>2. CacheOK(cache')
    BY <1>1, <2>1, GotOK
  <2>3. CallsOK' /\ LimiterOK'
    <3>1. CASE Hit(cache, id)
      <4>1. /\ reader' = [reader EXCEPT ![r] = Answer(read, "ok")]
            /\ UNCHANGED <<inFlight, windowStart, count, requests>> /\ "ok" \in Reasons
        BY <1>3, <3>1 DEF ReadProfile, AnsweredAtOnce, limiter, Reasons
      <4> HIDE DEF read
      <4>2. CallsOK'
        BY <1>1, <2>1, <4>1, AnswersAtOnce
      <4> QED
        BY <1>1, <1>2, <2>1, <4>1, <4>2 DEF LimiterOK
    <3>2. CASE ~Hit(cache, id) /\ Collapses(id)
      <4> DEFINE s == [step |-> "joined", read |-> read]
      <4>1. /\ reader' = [reader EXCEPT ![r] = s]
            /\ UNCHANGED <<inFlight, windowStart, count, requests>>
        BY <1>3, <3>2 DEF ReadProfile, limiter
      <4>2. s \in ReaderState /\ s.step # "waiting" /\ inFlight' \subseteq Account
        BY <1>1, <2>1, <4>1 DEF ReaderState, CallsOK
      <4> HIDE DEF s
      <4>3. CallsOK'
        BY <1>1, <4>1, <4>2, OneMoves
      <4> QED
        BY <1>1, <1>2, <2>1, <4>1, <4>3 DEF LimiterOK
    <3>3. CASE ~Hit(cache, id) /\ ~Collapses(id)
      <4>1. Request(r, read) /\ UNCHANGED now
        BY <1>2, <1>3, <2>1, <3>3 DEF ReadProfile
      <4> QED
        BY <1>1, <2>1, <4>1, RequestMoves
    <3> QED
      BY <3>1, <3>2, <3>3
  <2> QED
    BY <1>1, <1>2, <2>1, <2>2, <2>3 DEF ClientInv
<1>4. ASSUME NEW r \in Reader, NEW ids \in BulkReads, ReadBulk(r, ids) PROVE ClientInv'
  <2> DEFINE missed == {id \in Account : ~Hit(cache, id)}
             read == [kind |-> "bulk", asked |-> Of(ids, missed)]
  <2>1. read \in Read /\ Calls(r) /\ cache' = FoldLeft(Got, cache, ids) /\ ids \in Seq(Account)
    <3>1. missed \in SUBSET Account
      OBVIOUS
    <3>2. Calls(r) /\ cache' = FoldLeft(Got, cache, ids)
      BY <1>4 DEF ReadBulk
    <3> HIDE DEF missed
    <3> QED
      BY <3>1, <3>2, ReadsMade, ClientAssumption
  <2>2. CacheOK(cache')
    <3>1. CacheOK(FoldLeft(Got, cache, ids))
      BY <1>1, <2>1, ManyGotOK
    <3> QED
      BY <2>1, <3>1
  <2>3. \/ AnsweredAtOnce(r, read)
        \/ /\ reader' = [reader EXCEPT ![r] = Answer(read, "invalid_request")]
           /\ UNCHANGED <<inFlight, limiter>>
        \/ Request(r, read)
    BY <1>4 DEF ReadBulk
  <2> HIDE DEF read
  <2>4. ASSUME NEW reason \in Reasons,
               reader' = [reader EXCEPT ![r] = Answer(read, reason)],
               UNCHANGED <<inFlight, limiter>>
        PROVE  CallsOK' /\ LimiterOK'
    <3>1. CallsOK'
      BY <1>1, <2>1, <2>4, AnswersAtOnce
    <3> QED
      BY <1>1, <1>2, <2>1, <2>4, <3>1 DEF LimiterOK, limiter
  <2>5. CallsOK' /\ LimiterOK'
    <3>1. UNCHANGED now /\ {"ok", "invalid_request"} \subseteq Reasons
      BY <1>2, <2>1 DEF Reasons
    <3> QED
      BY <1>1, <2>1, <2>3, <2>4, <3>1, RequestMoves DEF AnsweredAtOnce
  <2> QED
    BY <1>1, <1>2, <2>1, <2>2, <2>5 DEF ClientInv
<1>5. ASSUME NEW r \in Reader, ReadHistory(r) PROVE ClientInv'
  <2>1. /\ Calls(r) /\ Request(r, [kind |-> "history"]) /\ UNCHANGED cache
        /\ [kind |-> "history"] \in Read
    BY <1>5, ReadsMade DEF ReadHistory
  <2>2. CallsOK' /\ LimiterOK'
    BY <1>1, <1>2, <2>1, RequestMoves
  <2> QED
    BY <1>1, <1>2, <2>1, <2>2 DEF ClientInv
<1>6. \A r \in Reader : /\ reader[r].step # "idle" => reader[r].read \in Read
                        /\ reader[r].step \in {"asking", "waiting"} =>
                             /\ reader[r].attempt \in 0 .. MaxAttempts - 1
                             /\ reader[r] = [step |-> reader[r].step, read |-> reader[r].read,
                                             attempt |-> reader[r].attempt]
  BY <1>1, StateRead DEF CallsOK
<1>7. ASSUME NEW r \in Reader, Responds(r) PROVE ClientInv'
  <2> DEFINE read == reader[r].read
  <2>1. /\ reader[r].step = "asking" /\ read \in Read /\ Finish(r, read, "ok")
        /\ UNCHANGED <<now, windowStart, count, requests, credentials, calls>> /\ "ok" \in Reasons
    BY <1>6, <1>7 DEF Responds, Asking, limiter, Reasons
  <2>2. CallsOK'
    BY <1>1, <2>1, EndMoves
  <2>3. CacheOK(cache')
    <3>1. CASE read.kind = "profile"
      <4>1. cache' = CacheSet(cache, read.id) /\ read.id \in Account
        BY <1>7, <2>1, <3>1, ReadKinds DEF Responds
      <4> QED
        BY <1>1, <4>1, CacheSetOK
    <3>2. CASE read.kind = "bulk"
      <4>1. PICK ids \in BulkAnswers : cache' = FoldLeft(CacheSet, cache, ids)
        BY <1>7, <3>2 DEF Responds
      <4>2. CacheOK(FoldLeft(CacheSet, cache, ids))
        BY <1>1, ManySetOK, ClientAssumption
      <4> QED
        BY <4>1, <4>2
    <3>3. CASE read.kind = "history"
      BY <1>1, <1>7, <3>3 DEF Responds
    <3> QED
      BY <2>1, <3>1, <3>2, <3>3, ReadKinds
  <2> QED
    BY <1>1, <2>1, <2>2, <2>3 DEF ClientInv, LimiterOK
<1>8. ASSUME NEW r \in Reader, NEW reason \in {"malformed_response", "http_error"},
             Refuses(r, reason)
      PROVE  ClientInv'
  <2>1. /\ reader[r].step = "asking" /\ Finish(r, reader[r].read, reason)
        /\ UNCHANGED <<now, cache, windowStart, count, requests, credentials, calls>>
        /\ reason \in Reasons
    BY <1>8 DEF Refuses, Asking, limiter, Reasons
  <2>2. CallsOK'
    BY <1>1, <2>1, EndMoves
  <2> QED
    BY <1>1, <2>1, <2>2 DEF ClientInv, LimiterOK
<1>9. ASSUME NEW r \in Reader, NEW reason \in Reasons, FailsAs(r, reason) PROVE ClientInv'
  <2>1. /\ reader[r].step = "asking"
        /\ UNCHANGED <<now, cache, windowStart, count, requests, credentials, calls>>
    BY <1>9 DEF FailsAs, Asking, limiter
  <2>2. CallsOK'
    <3>1. CASE reader[r].attempt + 1 < MaxAttempts
      <4> DEFINE n == reader[r].attempt
                 s == [step |-> "waiting", read |-> reader[r].read, attempt |-> n]
      <4>1. s \in ReaderState /\ s.attempt + 1 < MaxAttempts
        BY <1>6, <2>1, <3>1, AskState
      <4>2. [reader[r] EXCEPT !.step = "waiting"] = s
        <5>1. reader[r] = [step |-> reader[r].step, read |-> reader[r].read, attempt |-> n]
          BY <1>6, <2>1
        <5> QED
          BY <5>1
      <4>3. reader' = [reader EXCEPT ![r] = s] /\ inFlight' \subseteq Account
        BY <1>1, <1>9, <3>1, <4>2 DEF FailsAs, CallsOK
      <4> HIDE DEF s
      <4> QED
        BY <1>1, <4>1, <4>3, OneMoves
    <3>2. CASE ~(reader[r].attempt + 1 < MaxAttempts)
      <4>1. Finish(r, reader[r].read, reason)
        BY <1>9, <3>2 DEF FailsAs
      <4> QED
        BY <1>1, <2>1, <4>1, EndMoves
    <3> QED
      BY <3>1, <3>2
  <2> QED
    BY <1>1, <2>1, <2>2 DEF ClientInv, LimiterOK
<1>10. ASSUME NEW r \in Reader, Retries(r) PROVE ClientInv'
  <2> DEFINE n == reader[r].attempt + 1
             read == reader[r].read
  <2>1. /\ reader[r].step = "waiting" /\ Attempt(r, read, n)
        /\ UNCHANGED <<now, cache, credentials, calls>>
    BY <1>10 DEF Retries
  <2>2. n \in 0 .. MaxAttempts - 1 /\ read \in Read
    BY <1>1, <1>6, <2>1, ClientAssumption DEF CallsOK
  <2> HIDE DEF n
  <2>3. CallsOK' /\ LimiterOK'
    BY <1>1, <2>1, <2>2, AttemptMoves
  <2> QED
    BY <1>1, <2>1, <2>3 DEF ClientInv
<1>11. ASSUME NEW r \in Reader, Returns(r) PROVE ClientInv'
  <2>1. /\ reader' = [reader EXCEPT ![r] = Idle]
        /\ UNCHANGED <<now, cache, inFlight, windowStart, count, requests, credentials, calls>>
    BY <1>11 DEF Returns, limiter
  <2>2. Idle \in ReaderState /\ Idle.step # "waiting" /\ inFlight' \subseteq Account
    BY <1>1, <2>1 DEF ReaderState, Idle, CallsOK
  <2>3. CallsOK'
    BY <1>1, <2>1, <2>2, OneMoves
  <2> QED
    BY <1>1, <2>1, <2>3 DEF ClientInv, LimiterOK
<1>12. CASE Tick \/ LosesCredentials \/ UNCHANGED vars
  <2>1. /\ now' \in 0 .. MaxTime /\ now' >= now
        /\ UNCHANGED <<cache, inFlight, windowStart, count, requests, reader, calls>>
        /\ credentials' \in BOOLEAN
    <3>1. CASE Tick
      <4>1. now < MaxTime /\ now' = now + 1 /\ UNCHANGED credentials
        BY <3>1 DEF Tick
      <4>2. now' \in 0 .. MaxTime /\ now' >= now
        BY <1>1, <4>1, ClientAssumption
      <4> QED
        BY <1>1, <3>1, <4>1, <4>2 DEF Tick, limiter
    <3>2. CASE LosesCredentials \/ UNCHANGED vars
      <4>1. UNCHANGED <<now, cache, inFlight, windowStart, count, requests, reader, calls>>
        BY <3>2 DEF LosesCredentials, vars, limiter
      <4>2. credentials' \in BOOLEAN
        BY <1>1, <3>2 DEF LosesCredentials, vars
      <4> QED
        BY <1>1, <4>1, <4>2
    <3> QED
      BY <1>12, <3>1, <3>2
  <2> QED
    BY <1>1, <2>1 DEF ClientInv, CallsOK, LimiterOK
<1>13. {"max_attempts_exceeded", "request_timeout"} \subseteq Reasons
  BY DEF Reasons
<1> QED
  BY <1>3, <1>4, <1>5, <1>7, <1>8, <1>9, <1>10, <1>11, <1>12, <1>13 DEF Next, Fails, TimesOut

LEMMA ClientIsTyped == Spec => []ClientInv
<1>1. Init => ClientInv
  <2>1. CacheOK(<<>>)
    BY EmptySeq, ClientAssumption DEF CacheOK
  <2>2. Idle \in ReaderState /\ Idle.step # "waiting"
    BY DEF Idle, ReaderState
  <2> SUFFICES ASSUME Init PROVE ClientInv
    OBVIOUS
  <2>3. CallsOK /\ LimiterOK
    BY <2>2, ClientAssumption DEF Init, CallsOK, LimiterOK
  <2> QED
    BY <2>1, <2>3, ClientAssumption DEF Init, ClientInv
<1> QED
  BY <1>1, ClientStep, PTL DEF Spec

\* Every reachable state of the client is well typed, the cache stays within its size
\* and holds an account once, whatever bulk reads ask for and whatever their answers hold.
THEOREM ClientTyping == Spec => []TypeOK
BY ClientIsTyped, InvIsTyped, PTL

-----------------------------------------------------------------------------
(* The readers *)

IsRead(read) ==
  /\ read.kind \in {"profile", "bulk", "history"}
  /\ read.kind = "profile" => read.id \in Account /\ read = [kind |-> "profile", id |-> read.id]

ReaderTypeOK ==
  /\ now \in Nat /\ inFlight \subseteq Account
  /\ reader = [r \in Reader |-> reader[r]]
  /\ \A r \in Reader :
       /\ reader[r].step \in {"idle", "joined", "asking", "waiting", "answered"}
       /\ reader[r].step # "idle" => IsRead(reader[r].read)
       /\ reader[r].step \in {"asking", "waiting"} =>
            /\ reader[r].attempt \in Nat
            /\ reader[r] = [step |-> reader[r].step, read |-> reader[r].read,
                            attempt |-> reader[r].attempt]

\* Who joined has somebody to wait for, who fetches is the only one to fetch the
\* account, and what is in flight is fetched.
Collapsed ==
  /\ \A r \in Reader : reader[r].step = "joined" =>
       reader[r].read.kind = "profile" /\ reader[r].read.id \in inFlight
  /\ \A id \in Account, r \in Reader : Fetching(r, id) =>
       id \in inFlight /\ \A q \in Reader : Fetching(q, id) => q = r
  /\ \A id \in inFlight : \E r \in Reader : Fetching(r, id)

ReadersInv == ReaderTypeOK /\ Collapsed

\* A read that ends answers all who wait for it, and takes it out of flight.
LEMMA FinishStep ==
  ASSUME ReadersInv, NEW r \in Reader, reader[r].step \in {"asking", "waiting"}, NEW reason,
         Finish(r, reader[r].read, reason), UNCHANGED now
  PROVE  ReadersInv'
<1> DEFINE read == reader[r].read
           waits == Waiting(r, read)
<1> USE ClientAssumption DEF ReadersInv
<1>1. IsRead(read)
  BY DEF ReaderTypeOK
<1>2. /\ reader' = [q \in Reader |-> IF q \in waits THEN Answer(reader[q].read, reason)
                                     ELSE reader[q]]
      /\ inFlight' = IF read.kind = "profile" THEN inFlight \ {read.id} ELSE inFlight
  BY DEF Finish, Settled
<1>3. /\ r \in waits /\ waits \subseteq Reader
      /\ \A q \in waits : reader[q].step # "idle"
      /\ \A q \in Reader : reader[q].step = "joined" /\ q \notin waits =>
           read.kind # "profile" \/ reader[q].read.id # read.id
  BY DEF Waiting
<1>4. ReaderTypeOK'
  BY <1>1, <1>2, <1>3 DEF ReaderTypeOK, Answer, IsRead
<1>5. \A q \in Reader, id \in Account : Fetching(q, id)' <=> Fetching(q, id) /\ q # r
  <2>1. \A q \in Reader \ {r} : q \in waits => reader[q].step = "joined"
    BY DEF Waiting
  <2> QED
    BY <1>2, <1>3, <2>1 DEF Fetching, Answer
<1>6. Collapsed'
  <2>1. \A q \in Reader : reader'[q].step = "joined" =>
          reader'[q].read.kind = "profile" /\ reader'[q].read.id \in inFlight'
    BY <1>2, <1>3 DEF Collapsed, Answer
  <2>2. ASSUME NEW id \in Account, NEW q \in Reader, Fetching(q, id)'
        PROVE  id \in inFlight' /\ \A p \in Reader : Fetching(p, id)' => p = q
    <3>1. Fetching(q, id) /\ q # r
      BY <1>5, <2>2
    <3>2. read.kind = "profile" => read.id # id
      BY <1>1, <3>1 DEF Collapsed, Fetching, IsRead
    <3> QED
      BY <1>2, <1>5, <3>1, <3>2 DEF Collapsed
  <2>3. ASSUME NEW id \in inFlight' PROVE \E q \in Reader : Fetching(q, id)'
    <3>1. id \in inFlight /\ id \in Account
      BY <1>2 DEF ReaderTypeOK
    <3>2. PICK q \in Reader : Fetching(q, id)
      BY <3>1 DEF Collapsed
    <3>3. q # r
      BY <1>2, <3>2 DEF Fetching
    <3> QED
      BY <1>5, <3>1, <3>2, <3>3
  <2> QED
    BY <2>1, <2>2, <2>3 DEF Collapsed
<1> QED
  BY <1>4, <1>6

\* A call that is answered in the step that makes it.
LEMMA AnswerStep ==
  ASSUME ReadersInv, NEW r \in Reader, reader[r] = Idle, NEW read, IsRead(read), NEW reason,
         reader' = [reader EXCEPT ![r] = Answer(read, reason)],
         UNCHANGED <<inFlight, now>>
  PROVE  ReadersInv'
<1> USE DEF ReadersInv
<1>1. ReaderTypeOK'
  BY DEF ReaderTypeOK, Answer
<1>2. \A q \in Reader : q # r => reader'[q] = reader[q]
  BY DEF ReaderTypeOK
<1>3. /\ reader[r].step = "idle" /\ reader'[r] = Answer(read, reason)
      /\ reader'[r].step = "answered"
  BY DEF ReaderTypeOK, Idle, Answer
<1>4. \A q \in Reader, id \in Account : Fetching(q, id)' <=> Fetching(q, id)
  BY <1>2, <1>3 DEF Fetching
<1>5. Collapsed'
  BY <1>2, <1>3, <1>4 DEF Collapsed, ReaderTypeOK
<1> QED
  BY <1>1, <1>5

\* An attempt that the limiter lets through puts a single read into flight.
LEMMA AskStep ==
  ASSUME ReadersInv, NEW r \in Reader, NEW read, IsRead(read), NEW n \in Nat,
         \/ reader[r] = Idle /\ (read.kind = "profile" => read.id \notin inFlight)
         \/ reader[r].step = "waiting" /\ reader[r].read = read,
         reader' = [reader EXCEPT ![r] = [step |-> "asking", read |-> read, attempt |-> n]],
         inFlight' = IF read.kind = "profile" THEN inFlight \cup {read.id} ELSE inFlight,
         UNCHANGED now
  PROVE  ReadersInv'
<1> USE DEF ReadersInv
<1>1. ReaderTypeOK'
  BY DEF ReaderTypeOK, IsRead
<1>2. \A q \in Reader : q # r => reader'[q] = reader[q]
  BY DEF ReaderTypeOK
<1>3. /\ reader[r].step \in {"idle", "waiting"}
      /\ reader'[r] = [step |-> "asking", read |-> read, attempt |-> n]
      /\ reader'[r].step = "asking" /\ reader'[r].read = read
  BY DEF ReaderTypeOK, Idle
<1>4. \A id \in Account : Fetching(r, id)' <=> read.kind = "profile" /\ id = read.id
  BY <1>3 DEF Fetching, IsRead
<1>5. \A q \in Reader, id \in Account : q # r => (Fetching(q, id)' <=> Fetching(q, id))
  BY <1>2 DEF Fetching
<1>6. ASSUME NEW id \in Account, NEW q \in Reader, q # r, Fetching(q, id)
      PROVE  ~(read.kind = "profile" /\ id = read.id)
  <2>1. id \in inFlight /\ \A p \in Reader : Fetching(p, id) => p = q
    BY <1>6 DEF Collapsed
  <2>2. CASE reader[r].step = "waiting" /\ reader[r].read = read
    BY <1>6, <2>1, <2>2 DEF Fetching, IsRead
  <2> QED
    BY <2>1, <2>2
<1>7. Collapsed'
  <2>1. \A q \in Reader : reader'[q].step = "joined" =>
          reader'[q].read.kind = "profile" /\ reader'[q].read.id \in inFlight'
    BY <1>2, <1>3 DEF Collapsed
  <2>2. ASSUME NEW id \in Account, NEW q \in Reader, Fetching(q, id)'
        PROVE  id \in inFlight' /\ \A p \in Reader : Fetching(p, id)' => p = q
    <3>1. CASE q = r
      BY <2>2, <3>1, <1>4, <1>5, <1>6
    <3>2. CASE q # r
      BY <2>2, <3>2, <1>4, <1>5, <1>6 DEF Collapsed
    <3> QED
      BY <3>1, <3>2
  <2>3. ASSUME NEW id \in inFlight' PROVE \E q \in Reader : Fetching(q, id)'
    <3>1. CASE read.kind = "profile" /\ id = read.id
      BY <3>1, <1>4 DEF IsRead
    <3>2. CASE ~(read.kind = "profile" /\ id = read.id)
      <4>1. id \in inFlight /\ id \in Account
        BY <3>2 DEF ReaderTypeOK
      <4>2. PICK q \in Reader : Fetching(q, id)
        BY <4>1 DEF Collapsed
      <4>3. q # r
        BY <3>2, <4>2 DEF Fetching, Idle
      <4> QED
        BY <4>1, <4>2, <4>3, <1>5
    <3> QED
      BY <3>1, <3>2
  <2> QED
    BY <2>1, <2>2, <2>3 DEF Collapsed
<1> QED
  BY <1>1, <1>7

\* A request of a new call.
LEMMA RequestStep ==
  ASSUME ReadersInv, NEW r \in Reader, reader[r] = Idle, NEW read, IsRead(read),
         read.kind = "profile" => read.id \notin inFlight,
         Request(r, read), UNCHANGED now
  PROVE  ReadersInv'
<1>1. CASE ~credentials
  BY <1>1, AnswerStep DEF Request
<1>2. CASE credentials /\ Allowed
  BY <1>2, AskStep DEF Request, Attempt
<1>3. CASE credentials /\ ~Allowed
  BY <1>3, AnswerStep DEF Request, Attempt
<1> QED
  BY <1>1, <1>2, <1>3

\* A single read that joins one in flight.
LEMMA JoinStep ==
  ASSUME ReadersInv, NEW r \in Reader, reader[r] = Idle, NEW id \in inFlight,
         reader' = [reader EXCEPT ![r] = [step |-> "joined",
                                          read |-> [kind |-> "profile", id |-> id]]],
         UNCHANGED <<inFlight, now>>
  PROVE  ReadersInv'
<1> USE DEF ReadersInv
<1>1. ReaderTypeOK'
  BY DEF ReaderTypeOK, IsRead
<1>2. \A q \in Reader : q # r => reader'[q] = reader[q]
  BY DEF ReaderTypeOK
<1>3. /\ reader[r].step = "idle" /\ reader'[r].step = "joined"
      /\ reader'[r].read = [kind |-> "profile", id |-> id]
  BY DEF ReaderTypeOK, Idle
<1>4. \A q \in Reader, a \in Account : Fetching(q, a)' <=> Fetching(q, a)
  BY <1>2, <1>3 DEF Fetching
<1>5. Collapsed'
  BY <1>2, <1>3, <1>4 DEF Collapsed, ReaderTypeOK
<1> QED
  BY <1>1, <1>5

LEMMA ReadersStep == ReadersInv /\ [Next]_vars => ReadersInv'
<1> SUFFICES ASSUME ReadersInv, [Next]_vars PROVE ReadersInv'
  OBVIOUS
<1>1. ASSUME NEW r \in Reader, NEW id \in Account, ReadProfile(r, id) PROVE ReadersInv'
  <2> DEFINE read == [kind |-> "profile", id |-> id]
  <2>1. reader[r] = Idle /\ UNCHANGED now /\ IsRead(read)
    BY <1>1 DEF ReadProfile, Calls, IsRead
  <2>2. CASE Hit(cache, id)
    BY <1>1, <2>1, <2>2, AnswerStep DEF ReadProfile, AnsweredAtOnce
  <2>3. CASE ~Hit(cache, id) /\ id \in inFlight
    BY <1>1, <2>1, <2>3, JoinStep DEF ReadProfile, Collapses
  <2>4. CASE ~Hit(cache, id) /\ id \notin inFlight
    BY <1>1, <2>1, <2>4, RequestStep DEF ReadProfile, Collapses
  <2> QED
    BY <2>2, <2>3, <2>4
<1>2. ASSUME NEW r \in Reader, NEW ids \in BulkReads, ReadBulk(r, ids) PROVE ReadersInv'
  <2> DEFINE misses == Of(ids, {id \in Account : ~Hit(cache, id)})
             read == [kind |-> "bulk", asked |-> misses]
  <2> HIDE DEF misses
  <2>1. reader[r] = Idle /\ UNCHANGED now /\ IsRead(read) /\ read.kind # "profile"
    BY <1>2 DEF ReadBulk, Calls, IsRead
  <2>2. \/ AnsweredAtOnce(r, read)
        \/ /\ reader' = [reader EXCEPT ![r] = Answer(read, "invalid_request")]
           /\ UNCHANGED inFlight
        \/ Request(r, read)
    BY <1>2 DEF ReadBulk, misses, limiter
  <2> QED
    BY <2>1, <2>2, AnswerStep, RequestStep DEF AnsweredAtOnce
<1>3. ASSUME NEW r \in Reader, ReadHistory(r) PROVE ReadersInv'
  BY <1>3, RequestStep DEF ReadHistory, Calls, IsRead
<1>4. ASSUME NEW r \in Reader, Responds(r) PROVE ReadersInv'
  BY <1>4, FinishStep DEF Responds, Asking
<1>5. ASSUME NEW r \in Reader, NEW reason, Refuses(r, reason) PROVE ReadersInv'
  BY <1>5, FinishStep DEF Refuses, Asking
<1>6. ASSUME NEW r \in Reader, NEW reason, FailsAs(r, reason) PROVE ReadersInv'
  <2>1. CASE reader[r].attempt + 1 < MaxAttempts
    <3>1. /\ reader[r].step = "asking" /\ reader' = [reader EXCEPT ![r].step = "waiting"]
          /\ UNCHANGED <<inFlight, now>>
      BY <1>6, <2>1 DEF FailsAs, Asking
    <3>2. /\ \A q \in Reader : q # r => reader'[q] = reader[q]
          /\ reader'[r] = [step |-> "waiting", read |-> reader[r].read,
                            attempt |-> reader[r].attempt]
      <4>1. reader[r] = [step |-> reader[r].step, read |-> reader[r].read,
                         attempt |-> reader[r].attempt]
        BY <3>1 DEF ReadersInv, ReaderTypeOK
      <4>2. [reader[r] EXCEPT !.step = "waiting"]
              = [step |-> "waiting", read |-> reader[r].read, attempt |-> reader[r].attempt]
        BY <4>1
      <4> QED
        BY <3>1, <4>2 DEF ReadersInv, ReaderTypeOK
    <3>4. ReaderTypeOK'
      <4>1. /\ reader'[r].step = "waiting" /\ reader'[r].read = reader[r].read
            /\ reader'[r].attempt = reader[r].attempt
        BY <3>2
      <4>2. reader' = [q \in Reader |-> reader'[q]]
        BY <3>1 DEF ReadersInv, ReaderTypeOK
      <4> QED
        BY <3>1, <3>2, <4>1, <4>2 DEF ReadersInv, ReaderTypeOK, IsRead
    <3>3. \A q \in Reader, id \in Account : Fetching(q, id)' <=> Fetching(q, id)
      BY <3>1, <3>2 DEF Fetching
    <3> QED
      BY <3>1, <3>2, <3>3, <3>4 DEF ReadersInv, Collapsed, ReaderTypeOK
  <2>2. CASE ~(reader[r].attempt + 1 < MaxAttempts)
    BY <1>6, <2>2, FinishStep DEF FailsAs, Asking
  <2> QED
    BY <2>1, <2>2
<1>7. ASSUME NEW r \in Reader, Retries(r) PROVE ReadersInv'
  <2> DEFINE read == reader[r].read
             n == reader[r].attempt + 1
  <2>1. /\ reader[r].step = "waiting" /\ Attempt(r, read, n) /\ UNCHANGED now
        /\ IsRead(read) /\ n \in Nat /\ n # 0
    BY <1>7 DEF Retries, ReadersInv, ReaderTypeOK
  <2> HIDE DEF n
  <2>2. CASE Allowed
    BY <2>1, <2>2, AskStep DEF Attempt
  <2>3. CASE ~Allowed
    BY <2>1, <2>3, FinishStep DEF Attempt
  <2> QED
    BY <2>2, <2>3
<1>8. ASSUME NEW r \in Reader, Returns(r) PROVE ReadersInv'
  <2>1. /\ reader[r].step = "answered" /\ reader' = [reader EXCEPT ![r] = Idle]
        /\ UNCHANGED <<inFlight, now>>
    BY <1>8 DEF Returns
  <2>2. /\ ReaderTypeOK'
        /\ \A q \in Reader : q # r => reader'[q] = reader[q]
        /\ reader'[r].step = "idle"
    BY <2>1 DEF ReadersInv, ReaderTypeOK, Idle
  <2>3. \A q \in Reader, id \in Account : Fetching(q, id)' <=> Fetching(q, id)
    BY <2>1, <2>2 DEF Fetching
  <2> QED
    BY <2>1, <2>2, <2>3 DEF ReadersInv, Collapsed, ReaderTypeOK
<1>9. CASE Tick \/ LosesCredentials \/ UNCHANGED vars
  <2>1. UNCHANGED <<inFlight, reader>> /\ now' \in Nat
    BY <1>9 DEF Tick, LosesCredentials, vars, ReadersInv, ReaderTypeOK
  <2> QED
    BY <2>1 DEF ReadersInv, ReaderTypeOK, Collapsed, Fetching
<1> QED
  BY <1>1, <1>2, <1>3, <1>4, <1>5, <1>6, <1>7, <1>8, <1>9 DEF Next, Fails, TimesOut

THEOREM ReadersAreTyped == Spec => []ReadersInv
<1>1. Init => ReadersInv
  BY DEF Init, Idle, ReadersInv, ReaderTypeOK, Collapsed, Fetching
<1> QED
  BY <1>1, ReadersStep, PTL DEF Spec

-----------------------------------------------------------------------------
(* The properties *)

\* However many readers ask for one account and however their requests end, one request
\* at a time goes to the provider for it, and who joined it is answered with it.
THEOREM FetchedOnce == Spec => []OneFetchPerAccount
<1>1. ReadersInv => OneFetchPerAccount
  <2> SUFFICES ASSUME ReadersInv, NEW id \in Account
               PROVE  /\ Cardinality({r \in Reader : Fetching(r, id)})
                           = (IF id \in inFlight THEN 1 ELSE 0)
                      /\ (\E r \in Reader : reader[r].step = "joined" /\ reader[r].read.id = id)
                           => id \in inFlight
    BY DEF OneFetchPerAccount
  <2>1. CASE id \in inFlight
    <3>1. PICK r \in Reader : Fetching(r, id)
      BY <2>1 DEF ReadersInv, Collapsed
    <3>2. {q \in Reader : Fetching(q, id)} = {r}
      BY <3>1 DEF ReadersInv, Collapsed
    <3>3. Cardinality({r}) = 1
      BY FS_Singleton
    <3> QED
      BY <2>1, <3>2, <3>3
  <2>2. CASE id \notin inFlight
    <3>1. {q \in Reader : Fetching(q, id)} = {}
      BY <2>2 DEF ReadersInv, Collapsed
    <3> QED
      BY <2>2, <3>1, FS_EmptySet DEF ReadersInv, Collapsed
  <2> QED
    BY <2>1, <2>2
<1> QED
  BY <1>1, ReadersAreTyped, PTL

-----------------------------------------------------------------------------
(* The rate limiter *)

\* Of the log, the last count requests are of the window that is open.  Those before it
\* were made before it opened; those but the last window's worth of them, before the
\* window that came before it opened.
WindowsOK ==
  /\ count <= Len(requests)
  /\ \A i \in 1 .. Len(requests) :
       /\ i + count <= Len(requests) => requests[i] < windowStart
       /\ requests[i] < windowStart + Window
       /\ i + count + MaxPerWindow <= Len(requests) => requests[i] + Window < windowStart

LogInv == WindowsOK /\ BurstsAreBounded

\* The limiter moves with a request that it lets through, and opens a window with it.
LEMMA LimiterMoves ==
  ASSUME ClientInv, [Next]_vars
  PROVE  \/ UNCHANGED <<windowStart, count, requests>>
         \/ /\ Counted
            /\ requests' = IF Allowed THEN Append(requests, now) ELSE requests
<1> DEFINE Moves == \/ UNCHANGED <<windowStart, count, requests>>
                    \/ /\ Counted
                       /\ requests' = IF Allowed THEN Append(requests, now) ELSE requests
<1>1. ASSUME NEW r, NEW read, Request(r, read) PROVE Moves
  BY <1>1 DEF Request, Attempt, limiter
<1>2. ASSUME NEW r \in Reader, NEW id \in Account, ReadProfile(r, id) PROVE Moves
  BY <1>1, <1>2 DEF ReadProfile, AnsweredAtOnce, limiter
<1>3. ASSUME NEW r \in Reader, NEW ids \in BulkReads, ReadBulk(r, ids) PROVE Moves
  <2> DEFINE read == [kind |-> "bulk", asked |-> Of(ids, {id \in Account : ~Hit(cache, id)})]
  <2>1. UNCHANGED limiter \/ Request(r, read)
    BY <1>3 DEF ReadBulk, AnsweredAtOnce
  <2> HIDE DEF read
  <2> QED
    BY <1>1, <2>1 DEF limiter
<1>4. ASSUME NEW r \in Reader, ReadHistory(r) PROVE Moves
  BY <1>1, <1>4 DEF ReadHistory
<1>5. ASSUME NEW r \in Reader, Retries(r) PROVE Moves
  BY <1>5 DEF Retries, Attempt
<1>6. ASSUME NEW r \in Reader,
             \/ Responds(r) \/ Returns(r) \/ \E reason : Refuses(r, reason) \/ FailsAs(r, reason)
      PROVE  Moves
  BY <1>6 DEF Responds, Returns, Refuses, FailsAs, limiter
<1>7. CASE Tick \/ LosesCredentials \/ UNCHANGED vars
  BY <1>7 DEF Tick, LosesCredentials, vars, limiter
<1> QED
  BY <1>2, <1>3, <1>4, <1>5, <1>6, <1>7 DEF Next, Fails, TimesOut

\* A request that the limiter lets through.
LEMMA RequestLogged ==
  ASSUME now \in Nat, LimiterOK, LogInv, Counted, Allowed, requests' = Append(requests, now)
  PROVE  LogInv'
<1> DEFINE n == Len(requests)
<1>1. /\ requests \in Seq(0 .. now) /\ n \in Nat /\ DOMAIN requests = 1 .. n
      /\ windowStart \in Nat /\ windowStart <= now
      /\ count \in Nat /\ count <= MaxPerWindow /\ count <= n
      /\ Window \in Nat /\ Window > 0 /\ MaxPerWindow \in Nat /\ MaxPerWindow > 0
  BY ClientAssumption DEF LimiterOK, LogInv, WindowsOK
<1>2. \A i \in 1 .. n : requests[i] \in Nat /\ requests[i] <= now
  <2>1. \A i \in 1 .. n : requests[i] \in 0 .. now
    BY <1>1, ElementOfSeq
  <2> QED
    BY <2>1
<1>3. /\ Len(requests') = n + 1 /\ DOMAIN requests' = 1 .. n + 1
      /\ \A i \in 1 .. n : requests'[i] = requests[i]
      /\ requests'[n + 1] = now
  <2>1. now \in 0 .. now
    OBVIOUS
  <2>2. /\ Append(requests, now) \in Seq(0 .. now) /\ Len(Append(requests, now)) = n + 1
        /\ \A i \in 1 .. n : Append(requests, now)[i] = requests[i]
        /\ Append(requests, now)[n + 1] = now
    BY <1>1, <2>1, AppendProperties
  <2> QED
    BY <2>2
<1>4. \A i \in 1 .. n :
        /\ i + count <= n => requests[i] < windowStart
        /\ requests[i] < windowStart + Window
        /\ i + count + MaxPerWindow <= n => requests[i] + Window < windowStart
  BY DEF LogInv, WindowsOK
<1>5. \A i \in 1 .. n : i + 2 * MaxPerWindow <= n =>
        requests[i + 2 * MaxPerWindow] - requests[i] > Window
  <2> SUFFICES ASSUME NEW i \in 1 .. n, i + 2 * MaxPerWindow <= n
               PROVE  requests[i + 2 * MaxPerWindow] - requests[i] > Window
    OBVIOUS
  <2>1. i \in DOMAIN requests /\ i + 2 * MaxPerWindow \in DOMAIN requests
    <3>1. i + 2 * MaxPerWindow \in 1 .. n
      BY <1>1
    <3> QED
      BY <1>1, <3>1
  <2> QED
    BY <2>1 DEF LogInv, BurstsAreBounded
<1> HIDE DEF n
<1>6. ASSUME NEW i \in 1 .. n, i + count' + MaxPerWindow <= n + 1
      PROVE  requests[i] + Window < windowStart'
  <2>1. CASE WindowOver
    BY <1>1, <1>2, <1>4, <1>6, <2>1 DEF Counted, WindowOver
  <2>2. CASE ~WindowOver
    BY <1>1, <1>2, <1>4, <1>6, <2>2 DEF Counted
  <2> QED
    BY <2>1, <2>2
<1>7. WindowsOK'
  <2>1. count' \in Nat /\ count' <= n + 1 /\ count' > 0
    BY <1>1 DEF Counted
  <2>2. ASSUME NEW i \in 1 .. n
        PROVE  /\ i + count' <= n + 1 => requests[i] < windowStart'
               /\ requests[i] < windowStart' + Window
    <3>1. CASE WindowOver
      BY <1>1, <1>2, <1>4, <3>1 DEF Counted, WindowOver
    <3>2. CASE ~WindowOver
      BY <1>1, <1>2, <1>4, <3>2 DEF Counted
    <3> QED
      BY <3>1, <3>2
  <2>3. now < windowStart' + Window
    BY <1>1 DEF Counted, WindowOver
  <2>4. count' <= Len(requests')
    BY <1>3, <2>1
  <2>5. ASSUME NEW i \in 1 .. Len(requests')
        PROVE  /\ i + count' <= Len(requests') => requests'[i] < windowStart'
               /\ requests'[i] < windowStart' + Window
               /\ i + count' + MaxPerWindow <= Len(requests') =>
                    requests'[i] + Window < windowStart'
    <3>1. CASE i \in 1 .. n
      <4>1. requests'[i] = requests[i]
        BY <1>3, <3>1
      <4> QED
        BY <1>3, <1>6, <2>2, <3>1, <4>1
    <3>2. CASE i = n + 1
      <4>1. ~(i + count' <= n + 1) /\ ~(i + count' + MaxPerWindow <= n + 1)
        <5>1. PICK k \in Nat : k = count'
          BY <2>1
        <5>2. k > 0 /\ k \in Nat
          BY <2>1, <5>1
        <5>3. n \in Nat /\ MaxPerWindow \in Nat
          BY <1>1
        <5>4. ~(n + 1 + k <= n + 1) /\ ~(n + 1 + k + MaxPerWindow <= n + 1)
          BY <5>2, <5>3
        <5> QED
          BY <3>2, <5>1, <5>4
      <4> QED
        BY <1>3, <2>3, <3>2, <4>1
    <3> QED
      BY <1>1, <1>3, <3>1, <3>2
  <2> QED
    BY <2>4, <2>5 DEF WindowsOK
<1>8. windowStart' <= now /\ windowStart' \in Nat /\ count' <= MaxPerWindow /\ count' \in Nat
  BY <1>1 DEF Counted, Allowed
<1>9. ASSUME NEW i \in 1 .. n + 1, i + 2 * MaxPerWindow \in 1 .. n + 1
      PROVE  requests'[i + 2 * MaxPerWindow] - requests'[i] > Window
  <2>1. i \in 1 .. n /\ requests'[i] = requests[i]
    BY <1>1, <1>3, <1>9
  <2>2. CASE i + 2 * MaxPerWindow = n + 1
    <3>1. i + count' + MaxPerWindow <= n + 1
      <4>1. i + MaxPerWindow + MaxPerWindow = n + 1
        BY <1>1, <2>2
      <4>2. PICK k \in Nat : k = count'
        BY <1>8
      <4>3. i \in Nat /\ k <= MaxPerWindow
        BY <1>1, <1>8, <2>1, <4>2
      <4>4. i + k + MaxPerWindow <= n + 1
        BY <1>1, <4>1, <4>3
      <4> QED
        BY <4>2, <4>4
    <3>2. requests[i] + Window < windowStart'
      BY <1>6, <2>1, <3>1
    <3> QED
      <4>1. requests'[i + 2 * MaxPerWindow] = now
        BY <1>3, <2>2
      <4> QED
        BY <1>1, <1>2, <1>8, <2>1, <3>2, <4>1
  <2>3. CASE i + 2 * MaxPerWindow # n + 1
    <3>1. i + 2 * MaxPerWindow \in 1 .. n
      BY <1>1, <1>9, <2>3
    <3> QED
      BY <1>1, <1>3, <1>5, <2>1, <3>1
  <2> QED
    BY <2>2, <2>3
<1>10. BurstsAreBounded'
  BY <1>3, <1>9 DEF BurstsAreBounded
<1> QED
  BY <1>7, <1>10 DEF LogInv

LEMMA LogStep == ClientInv /\ LogInv /\ [Next]_vars => LogInv'
<1> SUFFICES ASSUME ClientInv, LogInv, [Next]_vars PROVE LogInv'
  OBVIOUS
<1>1. CASE UNCHANGED <<windowStart, count, requests>>
  BY <1>1 DEF LogInv, WindowsOK, BurstsAreBounded
<1>2. CASE Counted /\ requests' = IF Allowed THEN Append(requests, now) ELSE requests
  <2>1. LimiterOK /\ now \in Nat
    BY ClientAssumption DEF ClientInv
  <2>2. CASE Allowed
    BY <1>2, <2>1, <2>2, RequestLogged
  <2>3. CASE ~Allowed
    <3>1. UNCHANGED <<windowStart, count, requests>>
      BY <1>2, <2>3 DEF Counted, Allowed
    <3> QED
      BY <1>1, <3>1
  <2> QED
    BY <2>2, <2>3
<1> QED
  BY <1>1, <1>2, LimiterMoves

\* However reads and retries of all readers fall, no more than twice the maximum of
\* requests reach the provider within a window's length.
THEOREM BurstsStayBounded == Spec => []BurstsAreBounded
<1>1. Init => LogInv
  BY DEF Init, LogInv, WindowsOK, BurstsAreBounded
<1>2. LogInv => BurstsAreBounded
  BY DEF LogInv
<1> QED
  BY <1>1, <1>2, ClientIsTyped, LogStep, PTL DEF Spec
=============================================================================
