------------------------- MODULE DecisionStoreProofs -------------------------
(***************************************************************************)
(* Proofs about the decision store and its lock, for any writers, locks,   *)
(* records and times.  The lock: typing, that a created lock is exclusive  *)
(* until it expires, and that takeovers clean up after themselves; the     *)
(* store runs its lock so.  The store: what recovery accepts, and that it  *)
(* keeps one verdict per candidate and run until a lock is taken over.     *)
(***************************************************************************)
EXTENDS DecisionStore, FiniteSetTheorems, WellFoundedInduction, TLAPS

LEMMA LockTypeStep == LockTypeOK /\ [LockNext]_lockVars => LockTypeOK'
<1> SUFFICES ASSUME LockTypeOK, [LockNext]_lockVars PROVE LockTypeOK'
  OBVIOUS
<1> USE LockAssumption
    DEF LockTypeOK, Goto, call, disk, Content, Step, InTakeover, Lock
<1>1. ASSUME NEW w \in Writer, Acquire(w) PROVE LockTypeOK'
  BY <1>1 DEF Acquire
<1>2. ASSUME NEW w \in Writer, PlanRejects(w) PROVE LockTypeOK'
  BY <1>2 DEF PlanRejects, Reject
<1>3. ASSUME NEW w \in Writer, PlanCreates(w) PROVE LockTypeOK'
  BY <1>3 DEF PlanCreates
<1>4. ASSUME NEW w \in Writer, PlanReplaces(w) PROVE LockTypeOK'
  BY <1>4 DEF PlanReplaces, Usable
<1>5. ASSUME NEW w \in Writer, CreateLock(w) PROVE LockTypeOK'
  BY <1>5 DEF CreateLock, Reject
<1>6. ASSUME NEW w \in Writer, FillCreated(w) PROVE LockTypeOK'
  BY <1>6 DEF FillCreated, Acquired, FillOpenFile, Written
<1>7. ASSUME NEW w \in Writer, Reread(w) PROVE LockTypeOK'
  BY <1>7 DEF Reread, Reject
<1>8. ASSUME NEW w \in Writer, OpenTemp(w) PROVE LockTypeOK'
  BY <1>8 DEF OpenTemp
<1>9. ASSUME NEW w \in Writer, FillTemp(w) PROVE LockTypeOK'
  BY <1>9 DEF FillTemp, FillOpenFile, Written
<1>10. ASSUME NEW w \in Writer, RenameTemp(w) PROVE LockTypeOK'
  BY <1>10 DEF RenameTemp, Acquired, Renamed
<1>11. ASSUME NEW w \in Writer, Cleanup(w) PROVE LockTypeOK'
  BY <1>11 DEF Cleanup, Reject
<1>12. ASSUME NEW w \in Writer, WriteFails(w) PROVE LockTypeOK'
  BY <1>12 DEF WriteFails
<1>13. ASSUME NEW w \in Writer, UnlinkFails(w) PROVE LockTypeOK'
  BY <1>13 DEF UnlinkFails, Reject
<1>14. ASSUME NEW w \in Writer, Die(w) PROVE LockTypeOK'
  BY <1>14 DEF Die
<1>15. ASSUME Tick PROVE LockTypeOK'
  BY <1>15 DEF Tick
<1>16. CASE UNCHANGED lockVars
  BY <1>16 DEF lockVars
<1> QED
  BY <1>1, <1>2, <1>3, <1>4, <1>5, <1>6, <1>7, <1>8, <1>9, <1>10, <1>11, <1>12, <1>13, <1>14, <1>15, <1>16
  DEF LockNext, Proceed

\* Every reachable state of the lock protocol is well typed, whatever locks are asked for
\* and whatever operations fail.
THEOREM LockTyping == LockSpec => []LockTypeOK
<1>1. Init => LockTypeOK
  BY LockAssumption DEF Init, LockTypeOK, Content, Step, Lock
<1> QED
  BY <1>1, LockTypeStep, PTL DEF LockSpec

-----------------------------------------------------------------------------
(* The exclusive creation *)

\* The writer is not in a takeover and has no file open.
Quiet(w) == pc[w] \in {"idle", "read", "create"} /\ at[w] = "gone"

\* Before the lock file exists nobody takes over and nobody holds a lock;
MissingInv == lockFile = Missing => \A v \in Writer : Quiet(v) /\ ~Holds(v)

\* the same while its creator writes it,
CreatingInv ==
  \A w \in Writer : pc[w] = "created" =>
    /\ lockFile = Empty /\ at[w] = "lock"
    /\ \A v \in Writer : ~Holds(v) /\ (v # w => Quiet(v))

\* and for the others until the lock it wrote expires.
CreatedInv ==
  \A w \in Writer : mode[w] = "created" /\ Active(w) =>
    /\ lockFile = held[w]
    /\ \A v \in Writer : Quiet(v) /\ (v # w => ~Holds(v))

LockInv == MissingInv /\ CreatingInv /\ CreatedInv

LEMMA LockInvStep == LockTypeOK /\ LockInv /\ [LockNext]_lockVars => LockInv'
<1> SUFFICES ASSUME LockTypeOK, LockInv, [LockNext]_lockVars PROVE LockInv'
  OBVIOUS
<1> USE LockAssumption
    DEF LockTypeOK, LockInv, MissingInv, CreatingInv, CreatedInv, Quiet, Holds, Active,
        Expired, Usable, Goto, call, disk, Content, InTakeover, Lock
<1>1. ASSUME NEW w \in Writer, Acquire(w) PROVE LockInv'
  BY <1>1 DEF Acquire
<1>2. ASSUME NEW w \in Writer, PlanRejects(w) PROVE LockInv'
  BY <1>2 DEF PlanRejects, Reject
<1>3. ASSUME NEW w \in Writer, PlanCreates(w) PROVE LockInv'
  BY <1>3 DEF PlanCreates
<1>4. ASSUME NEW w \in Writer, PlanReplaces(w) PROVE LockInv'
  BY <1>4 DEF PlanReplaces, Usable
<1>5. ASSUME NEW w \in Writer, CreateLock(w) PROVE LockInv'
  BY <1>5 DEF CreateLock, Reject
<1>6. ASSUME NEW w \in Writer, FillCreated(w) PROVE LockInv'
  BY <1>6 DEF FillCreated, Acquired, FillOpenFile, Written
<1>7. ASSUME NEW w \in Writer, Reread(w) PROVE LockInv'
  BY <1>7 DEF Reread, Reject
<1>8. ASSUME NEW w \in Writer, OpenTemp(w) PROVE LockInv'
  BY <1>8 DEF OpenTemp
<1>9. ASSUME NEW w \in Writer, FillTemp(w) PROVE LockInv'
  BY <1>9 DEF FillTemp, FillOpenFile, Written
<1>10. ASSUME NEW w \in Writer, RenameTemp(w) PROVE LockInv'
  BY <1>10 DEF RenameTemp, Acquired, Renamed
<1>11. ASSUME NEW w \in Writer, Cleanup(w) PROVE LockInv'
  BY <1>11 DEF Cleanup, Reject
<1>12. ASSUME NEW w \in Writer, WriteFails(w) PROVE LockInv'
  BY <1>12 DEF WriteFails
<1>13. ASSUME NEW w \in Writer, UnlinkFails(w) PROVE LockInv'
  BY <1>13 DEF UnlinkFails, Reject
<1>14. ASSUME NEW w \in Writer, Die(w) PROVE LockInv'
  BY <1>14 DEF Die
<1>15. ASSUME Tick PROVE LockInv'
  BY <1>15 DEF Tick
<1>16. CASE UNCHANGED lockVars
  BY <1>16 DEF lockVars
<1> QED
  BY <1>1, <1>2, <1>3, <1>4, <1>5, <1>6, <1>7, <1>8, <1>9, <1>10, <1>11, <1>12, <1>13, <1>14, <1>15, <1>16
  DEF LockNext, Proceed

THEOREM CreationInvariant == LockSpec => []LockInv
<1>1. Init => LockInv
  BY LockAssumption DEF Init, LockInv, MissingInv, CreatingInv, CreatedInv, Quiet, Holds,
    Active
<1> QED
  BY <1>1, LockInvStep, LockTyping, PTL DEF LockSpec

\* A created lock excludes every other writer until it expires, for any writers, clocks
\* and failures.
THEOREM CreationExcludes == LockSpec => []CreatedExcludes
<1>1. LockInv => CreatedExcludes
  BY DEF LockInv, CreatedInv, CreatedExcludes
<1> QED
  BY <1>1, CreationInvariant, PTL

-----------------------------------------------------------------------------
(* The temporary file *)

LEMMA TempStep ==
  LockTypeOK /\ LockInv /\ NoTempLeftBehind /\ [LockNext]_lockVars => NoTempLeftBehind'
<1> SUFFICES ASSUME LockTypeOK, LockInv, NoTempLeftBehind, [LockNext]_lockVars
             PROVE  NoTempLeftBehind'
  OBVIOUS
<1> USE LockAssumption
    DEF LockTypeOK, LockInv, CreatingInv, NoTempLeftBehind, Goto, call, disk, InTakeover
<1>1. ASSUME NEW w \in Writer, Acquire(w) PROVE NoTempLeftBehind'
  BY <1>1 DEF Acquire
<1>2. ASSUME NEW w \in Writer, PlanRejects(w) PROVE NoTempLeftBehind'
  BY <1>2 DEF PlanRejects, Reject
<1>3. ASSUME NEW w \in Writer, PlanCreates(w) PROVE NoTempLeftBehind'
  BY <1>3 DEF PlanCreates
<1>4. ASSUME NEW w \in Writer, PlanReplaces(w) PROVE NoTempLeftBehind'
  BY <1>4 DEF PlanReplaces, Usable
<1>5. ASSUME NEW w \in Writer, CreateLock(w) PROVE NoTempLeftBehind'
  BY <1>5 DEF CreateLock, Reject
<1>6. ASSUME NEW w \in Writer, FillCreated(w) PROVE NoTempLeftBehind'
  BY <1>6 DEF FillCreated, Acquired, FillOpenFile, Written
<1>7. ASSUME NEW w \in Writer, Reread(w) PROVE NoTempLeftBehind'
  BY <1>7 DEF Reread, Reject
<1>8. ASSUME NEW w \in Writer, OpenTemp(w) PROVE NoTempLeftBehind'
  BY <1>8 DEF OpenTemp
<1>9. ASSUME NEW w \in Writer, FillTemp(w) PROVE NoTempLeftBehind'
  BY <1>9 DEF FillTemp, FillOpenFile, Written
<1>10. ASSUME NEW w \in Writer, RenameTemp(w) PROVE NoTempLeftBehind'
  BY <1>10 DEF RenameTemp, Acquired, Renamed
<1>11. ASSUME NEW w \in Writer, Cleanup(w) PROVE NoTempLeftBehind'
  BY <1>11 DEF Cleanup, Reject
<1>12. ASSUME NEW w \in Writer, WriteFails(w) PROVE NoTempLeftBehind'
  BY <1>12 DEF WriteFails
<1>13. ASSUME NEW w \in Writer, UnlinkFails(w) PROVE NoTempLeftBehind'
  BY <1>13 DEF UnlinkFails, Reject
<1>14. ASSUME NEW w \in Writer, Die(w) PROVE NoTempLeftBehind'
  BY <1>14 DEF Die
<1>15. ASSUME Tick PROVE NoTempLeftBehind'
  BY <1>15 DEF Tick
<1>16. CASE UNCHANGED lockVars
  BY <1>16 DEF lockVars
<1> QED
  BY <1>1, <1>2, <1>3, <1>4, <1>5, <1>6, <1>7, <1>8, <1>9, <1>10, <1>11, <1>12, <1>13, <1>14, <1>15, <1>16
  DEF LockNext, Proceed

\* Without failed operations a temporary file exists only while a takeover is going on,
\* for any number of takeovers that share its name.
THEOREM TempIsCleanedUp == LockSpec => []NoTempLeftBehind
<1>1. Init => NoTempLeftBehind
  BY DEF Init, NoTempLeftBehind
<1> QED
  BY <1>1, TempStep, LockTyping, CreationInvariant, PTL DEF LockSpec

-----------------------------------------------------------------------------
(* The store around the lock *)

\* Planning, checking ownership and appending leave the lock alone.
LEMMA LockStepOnly == [Next]_vars => [LockNext]_lockVars
<1> SUFFICES ASSUME [Next]_vars PROVE [LockNext]_lockVars
  OBVIOUS
<1>1. CASE TimePasses
  BY <1>1 DEF TimePasses, LockNext
<1>2. ASSUME NEW w \in Writer, LockStep(w) PROVE [LockNext]_lockVars
  BY <1>2 DEF LockStep, LockNext
<1>3. ASSUME NEW w \in Writer, Crash(w) PROVE [LockNext]_lockVars
  BY <1>3 DEF Crash, LockNext
<1>4. ASSUME NEW w \in Writer, Recover(w) \/ CheckOwnership(w) \/ AppendLine(w) \/ AppendFails(w)
      PROVE  UNCHANGED lockVars
  BY <1>4 DEF Recover, CheckOwnership, AppendLine, AppendFails
<1>5. ASSUME NEW w \in Writer, NEW record \in Record, PlanAppend(w, record)
      PROVE  UNCHANGED lockVars
  BY <1>5 DEF PlanAppend
<1>6. CASE UNCHANGED vars
  BY <1>6 DEF vars
<1> QED
  BY <1>1, <1>2, <1>3, <1>4, <1>5, <1>6 DEF Next

\* The store implements the lock protocol, so a created lock excludes the other writers
\* from it and takeovers leave no temporary file.
THEOREM StoreRunsLock ==
  Spec => LockSpec /\ []CreatedExcludes /\ []NoTempLeftBehind
<1>1. StoreInit => Init
  BY DEF StoreInit
<1> QED
  BY <1>1, LockStepOnly, CreationExcludes, TempIsCleanedUp, PTL DEF Spec, LockSpec

-----------------------------------------------------------------------------
(* The scan of the file *)

LEMMA LeastOfNats ==
  ASSUME NEW S, S \subseteq Nat, S # {}
  PROVE  \E m \in S : \A n \in S : m <= n
<1>1. PICK m \in S : \A n \in S : ~(<<n, m>> \in OpToRel(<, Nat))
  BY NatLessThanWellFounded, WFMin
<1>2. ASSUME NEW n \in S, n < m PROVE FALSE
  <2>1. <<n, m>> \in Nat \X Nat
    OBVIOUS
  <2>2. <<n, m>> \in OpToRel(<, Nat)
    BY <1>2, <2>1 DEF OpToRel
  <2> QED
    BY <1>1, <2>2
<1> QED
  BY <1>2

\* Induction over finite sets, with a set of sets for the counterexamples.
LEMMA MinimalSubset ==
  ASSUME NEW S, IsFiniteSet(S), NEW C, C \subseteq SUBSET S, C # {}
  PROVE  \E t \in C : \A u \in C : u \subseteq t => u = t
<1> DEFINE sizes == {Cardinality(t) : t \in C}
<1>1. \A t \in C : IsFiniteSet(t) /\ Cardinality(t) \in Nat
  BY FS_Subset, FS_CardinalityType
<1>2. sizes \subseteq Nat /\ sizes # {}
  BY <1>1
<1>3. \E n \in sizes : \A k \in sizes : n <= k
  <2> HIDE DEF sizes
  <2> QED
    BY <1>2, LeastOfNats
<1>4. PICK t \in C : \A u \in C : Cardinality(t) <= Cardinality(u)
  BY <1>3
<1>5. ASSUME NEW u \in C, u \subseteq t, u # t PROVE FALSE
  <2>1. Cardinality(u) <= Cardinality(t) /\ Cardinality(u) # Cardinality(t)
    BY <1>1, <1>5, FS_Subset
  <2> QED
    BY <1>1, <1>4, <2>1
<1> QED
  BY <1>5


\* Sets of positions in a file.
Positions(S) == S \subseteq Nat /\ IsFiniteSet(S)

LEMMA PartOf == ASSUME NEW S, Positions(S), NEW T \in SUBSET S PROVE Positions(T)
BY FS_Subset DEF Positions

LEMMA MinimalPart ==
  ASSUME NEW S, Positions(S), NEW C, C \subseteq SUBSET S, C # {}
  PROVE  \E t \in C : \A u \in C : u \subseteq t => u = t
<1>1. IsFiniteSet(S)
  BY DEF Positions
<1> QED
  BY <1>1, MinimalSubset

LEMMA MaxIn ==
  ASSUME NEW S, Positions(S), S # {}
  PROVE  Max(S) \in S /\ \A x \in S : x <= Max(S)
<1> DEFINE top(t) == \E m \in t : \A x \in t : m >= x
           C == {t \in SUBSET S : t # {} /\ ~top(t)}
<1>1. ASSUME NEW t \in C, \A u \in C : u \subseteq t => u = t PROVE FALSE
  <2>1. PICK a \in t : a \in Nat /\ \A x \in t : x \in Nat
    BY DEF Positions
  <2>2. t \ {a} \notin C /\ t \ {a} \in SUBSET S
    BY <1>1, <2>1
  <2>3. CASE t \ {a} = {}
    BY <2>1, <2>3
  <2>4. CASE t \ {a} # {}
    <3>1. PICK m \in t \ {a} : \A x \in t \ {a} : m >= x
      BY <2>2, <2>4
    <3>2. CASE m >= a
      BY <3>1, <3>2
    <3>3. CASE ~(m >= a)
      BY <2>1, <3>1, <3>3
    <3> QED
      BY <3>2, <3>3
  <2> QED
    BY <2>3, <2>4
<1>2. C \subseteq SUBSET S
  OBVIOUS
<1>3. C = {}
  <2> HIDE DEF C
  <2> QED
    BY <1>1, <1>2, MinimalPart
<1>4. PICK m \in S : \A x \in S : m >= x
  BY <1>3
<1> QED
  BY <1>4 DEF Max

\* What the scan has found before the first line, and the function it is the value of.
Start == [ok |-> TRUE, records |-> {}]
Folding(g, q, S) ==
  g = [s \in SUBSET S |-> IF s = {} THEN Start ELSE Scan(g[s \ {Max(s)}], q[Max(s)])]

LEMMA FoldingAt ==
  ASSUME NEW q, NEW S, NEW g, Folding(g, q, S), NEW s \in SUBSET S
  PROVE  g[s] = IF s = {} THEN Start ELSE Scan(g[s \ {Max(s)}], q[Max(s)])
BY DEF Folding

\* Two such functions agree where both are defined.
LEMMA FoldingUnique ==
  ASSUME NEW q, NEW S, Positions(S), NEW T \in SUBSET S,
         NEW g, Folding(g, q, S), NEW h, Folding(h, q, T)
  PROVE  \A s \in SUBSET T : g[s] = h[s]
<1> DEFINE C == {s \in SUBSET T : g[s] # h[s]}
<1>1. SUFFICES ASSUME C # {} PROVE FALSE
  OBVIOUS
<1>2. C \subseteq SUBSET T /\ Positions(T)
  BY PartOf
<1>3. \E t \in C : \A u \in C : u \subseteq t => u = t
  <2> HIDE DEF C
  <2> QED
    BY <1>1, <1>2, MinimalPart
<1>4. PICK t \in C : \A u \in C : u \subseteq t => u = t
  BY <1>3
<1>5. t \in SUBSET T /\ t \in SUBSET S /\ g[t] # h[t]
  OBVIOUS
<1>6. /\ g[t] = IF t = {} THEN Start ELSE Scan(g[t \ {Max(t)}], q[Max(t)])
      /\ h[t] = IF t = {} THEN Start ELSE Scan(h[t \ {Max(t)}], q[Max(t)])
  BY <1>5, FoldingAt
<1>7. t # {}
  BY <1>5, <1>6
<1>8. t \ {Max(t)} \notin C
  <2>1. Positions(t)
    BY <1>5, PartOf
  <2> QED
    BY <1>4, <1>7, <2>1, MaxIn
<1> QED
  BY <1>5, <1>6, <1>7, <1>8

\* Such a function exists.
LEMMA FoldingExists ==
  ASSUME NEW q, NEW S, Positions(S)
  PROVE  \E g : Folding(g, q, S)
<1> DEFINE C == {s \in SUBSET S : ~\E g : Folding(g, q, s)}
<1>1. SUFFICES ASSUME C # {} PROVE FALSE
  OBVIOUS
<1>2. PICK t \in C : \A u \in C : u \subseteq t => u = t
  <2>1. C \subseteq SUBSET S
    OBVIOUS
  <2> HIDE DEF C
  <2> QED
    BY <1>1, <2>1, MinimalPart
<1>3. Positions(t) /\ t \in SUBSET S
  BY PartOf
<1> DEFINE sum(s) == (CHOOSE h : Folding(h, q, s))[s]
           rest(s) == IF s = {} THEN Start ELSE Scan(sum(s \ {Max(s)}), q[Max(s)])
           g == [s \in SUBSET t |-> rest(s)]
<1>4. ASSUME NEW s \in SUBSET t, s # {}
      PROVE  g[s \ {Max(s)}] = sum(s \ {Max(s)})
  <2> DEFINE u == s \ {Max(s)}
  <2>1. u \in SUBSET t /\ u # t /\ u \in SUBSET S /\ Positions(u)
    BY <1>3, <1>4, MaxIn, PartOf
  <2>2. PICK h : Folding(h, q, u)
    BY <1>2, <2>1
  <2> DEFINE k == CHOOSE j : Folding(j, q, u)
  <2>3. Folding(k, q, u)
    BY <2>2
  <2>4. g[u] = rest(u)
    BY <2>1
  <2>5. CASE u = {}
    <3>1. k[u] = Start
      <4> HIDE DEF k
      <4>1. u \in SUBSET u
        OBVIOUS
      <4> QED
        BY <2>3, <2>5, <4>1, FoldingAt
    <3> QED
      BY <2>4, <2>5, <3>1
  <2>6. CASE u # {}
    <3> DEFINE v == u \ {Max(u)}
    <3>1. k[u] = Scan(k[v], q[Max(u)])
      <4> HIDE DEF k, u
      <4>1. u \in SUBSET u
        OBVIOUS
      <4> QED
        BY <2>3, <2>6, <4>1, FoldingAt
    <3>2. v \in SUBSET t /\ v # t /\ v \in SUBSET u /\ v \in SUBSET S
      BY <2>1, <2>6, MaxIn
    <3>3. PICK m : Folding(m, q, v)
      BY <1>2, <3>2
    <3> DEFINE n == CHOOSE j : Folding(j, q, v)
    <3>4. Folding(n, q, v)
      BY <3>3
    <3> HIDE DEF k, n
    <3>5. k[v] = n[v]
      BY <2>1, <2>3, <3>2, <3>4, FoldingUnique
    <3> USE DEF k, n
    <3> QED
      BY <2>4, <2>6, <3>1, <3>5
  <2> QED
    BY <2>5, <2>6
<1>5. g = [s \in SUBSET t |-> IF s = {} THEN Start ELSE Scan(g[s \ {Max(s)}], q[Max(s)])]
  <2> HIDE DEF sum
  <2>1. \A s \in SUBSET t : rest(s) = IF s = {} THEN Start ELSE Scan(g[s \ {Max(s)}], q[Max(s)])
    BY <1>4
  <2> QED
    BY <2>1
<1>6. Folding(g, q, t)
  BY <1>5 DEF Folding
<1> QED
  BY <1>6

\* How a scan is computed: line by line.
Folded(q, S) == (CHOOSE g : Folding(g, q, S))[S]

LEMMA FoldStep ==
  ASSUME NEW q, NEW S, Positions(S)
  PROVE  /\ S = {} => Folded(q, S) = Start
         /\ S # {} => Folded(q, S) = Scan(Folded(q, S \ {Max(S)}), q[Max(S)])
<1> DEFINE T == S \ {Max(S)}
           g == CHOOSE j : Folding(j, q, S)
           h == CHOOSE j : Folding(j, q, T)
<1>1. Positions(T) /\ T \in SUBSET S
  BY PartOf
<1>2. Folding(g, q, S) /\ Folding(h, q, T)
  BY <1>1, FoldingExists
<1>3. Folded(q, S) = g[S] /\ Folded(q, T) = h[T]
  BY DEF Folded
<1> HIDE DEF g, h
<1>4. g[S] = IF S = {} THEN Start ELSE Scan(g[T], q[Max(S)])
  BY <1>2, FoldingAt
<1>5. g[T] = h[T]
  <2> HIDE DEF T
  <2> QED
    BY <1>1, <1>2, FoldingUnique
<1> QED
  BY <1>3, <1>4, <1>5

LEMMA RecoveryIsFold == recoverDecisionStoreFromJsonl = Folded(lines, DOMAIN lines)
BY DEF recoverDecisionStoreFromJsonl, FoldLeft, MapThenFoldSet, Folded, Folding, Start

LEMMA PrefixStep ==
  ASSUME NEW q, NEW k \in Nat
  PROVE  /\ k = 0 => Folded(q, 1 .. k) = Start
         /\ k > 0 => Folded(q, 1 .. k) = Scan(Folded(q, 1 .. k - 1), q[k])
<1>1. Positions(1 .. k)
  BY FS_Interval DEF Positions
<1>2. ASSUME k = 0 PROVE Folded(q, 1 .. k) = Start
  <2>1. 1 .. k = {}
    BY <1>2
  <2> QED
    BY <1>1, <2>1, FoldStep
<1>3. ASSUME k > 0 PROVE Folded(q, 1 .. k) = Scan(Folded(q, 1 .. k - 1), q[k])
  <2>1. Max(1 .. k) = k /\ 1 .. k # {}
    <3>1. k \in 1 .. k
      BY <1>3
    <3>2. Max(1 .. k) \in 1 .. k /\ k <= Max(1 .. k)
      BY <1>1, <3>1, MaxIn
    <3> QED
      BY <3>1, <3>2
  <2>2. (1 .. k) \ {k} = 1 .. k - 1
    BY <1>3
  <2>3. Folded(q, 1 .. k) = Scan(Folded(q, (1 .. k) \ {k}), q[k])
    BY <1>1, <2>1, FoldStep
  <2> QED
    BY <2>2, <2>3
<1> QED
  BY <1>2, <1>3, Zenon

\* One line on top of valid records of different runs: it repeats one of them, conflicts
\* with one of them, or is new.
LEMMA ScanOne ==
  ASSUME NEW R, R \subseteq Record \ Invalid, \A r, s \in R : RunOf[r] = RunOf[s] => r = s,
         NEW x \in Record \ Invalid
  PROVE  Scan([ok |-> TRUE, records |-> R], x)
           = IF \E r \in R : RunOf[r] = RunOf[x] /\ r # x THEN Refused
             ELSE [ok |-> TRUE, records |-> R \cup {x}]
<1> DEFINE result == [ok |-> TRUE, records |-> R]
           found == findExisting(R, x)
           sameId == {r \in R : IdOf[r] = IdOf[x]}
           sameRun == {r \in R : RunOf[r] = RunOf[x]}
<1>1. sameId \subseteq sameRun
  BY StoreAssumption
<1>2. /\ sameRun = {} => found = NoRecord
      /\ sameRun # {} => found \in sameRun
      /\ x \in R => found = x
  <2>1. x \in R => x \in sameId /\ \A r \in sameId : r = x
    BY <1>1
  <2> QED
    BY <1>1, <2>1 DEF findExisting
<1>3. NoRecord \notin R /\ x # GarbledLine /\ x \notin Invalid
  BY StoreAssumption
<1>4. CASE \E r \in R : RunOf[r] = RunOf[x] /\ r # x
  <2>1. x \notin R /\ sameRun # {}
    BY <1>4
  <2>2. found \in R /\ RunOf[found] = RunOf[x] /\ found # x /\ found # NoRecord
    BY <1>2, <1>3, <2>1
  <2>3. Classified(R, x) = "conflicting_duplicate"
    BY <2>2 DEF Classified, classifyDecisionStoreDuplicate
  <2> QED
    BY <1>3, <1>4, <2>3 DEF Scan
<1>5. CASE x \in R
  <2>1. Classified(R, x) = "identical_duplicate"
    BY <1>2, <1>3, <1>5 DEF Classified, classifyDecisionStoreDuplicate
  <2>2. Scan(result, x) = result
    BY <1>3, <2>1 DEF Scan
  <2>3. ~\E r \in R : RunOf[r] = RunOf[x] /\ r # x
    BY <1>5
  <2>4. R \cup {x} = R
    BY <1>5
  <2> QED
    BY <2>2, <2>3, <2>4
<1>6. CASE x \notin R /\ ~\E r \in R : RunOf[r] = RunOf[x] /\ r # x
  <2>1. sameRun = {}
    BY <1>6
  <2>2. Classified(R, x) = "new_record"
    BY <1>2, <2>1 DEF Classified, classifyDecisionStoreDuplicate
  <2>3. Scan(result, x) = [result EXCEPT !.records = R \cup {x}]
    BY <1>3, <2>2 DEF Scan
  <2> QED
    BY <1>6, <2>3
<1> QED
  BY <1>4, <1>5, <1>6

\* What recovery accepts of the first k lines.
Fits(q, k) ==
  /\ \A i \in 1 .. k : q[i] # GarbledLine /\ q[i] \notin Invalid
  /\ \A i, j \in 1 .. k : RunOf[q[i]] = RunOf[q[j]] => q[i] = q[j]

Seen(q, k) == {q[i] : i \in 1 .. k}
Found(q, k) == IF Fits(q, k) THEN [ok |-> TRUE, records |-> Seen(q, k)] ELSE Refused

LEMMA ScanNext ==
  ASSUME NEW q \in Seq(Record \cup {GarbledLine}), NEW k \in 1 .. Len(q)
  PROVE  Scan(Found(q, k - 1), q[k]) = Found(q, k)
<1>1. /\ k - 1 \in Nat /\ 1 .. k - 1 \subseteq 1 .. k
      /\ \A i \in 1 .. k : q[i] \in Record \cup {GarbledLine}
      /\ \A i \in 1 .. k : i = k \/ i \in 1 .. k - 1
      /\ k \in 1 .. k
  OBVIOUS
<1>2. CASE ~Fits(q, k - 1)
  <2>1. ~Fits(q, k)
    BY <1>1, <1>2 DEF Fits
  <2> QED
    BY <1>2, <2>1 DEF Found, Scan, Refused
<1>3. CASE Fits(q, k - 1) /\ (q[k] = GarbledLine \/ q[k] \in Invalid)
  <2>1. ~Fits(q, k)
    BY <1>1, <1>3 DEF Fits
  <2> QED
    BY <1>3, <2>1 DEF Found, Scan
<1>4. CASE Fits(q, k - 1) /\ q[k] # GarbledLine /\ q[k] \notin Invalid
  <2> DEFINE R == Seen(q, k - 1)
  <2>1. /\ R \subseteq Record \ Invalid /\ \A r, s \in R : RunOf[r] = RunOf[s] => r = s
        /\ q[k] \in Record \ Invalid
    BY <1>1, <1>4 DEF Fits, Seen
  <2>2. Seen(q, k) = R \cup {q[k]}
    BY <1>1 DEF Seen
  <2>3. Fits(q, k) <=> ~\E r \in R : RunOf[r] = RunOf[q[k]] /\ r # q[k]
    BY <1>1, <1>4 DEF Fits, Seen
  <2>4. Found(q, k - 1) = [ok |-> TRUE, records |-> R]
    BY <1>4 DEF Found
  <2> HIDE DEF R
  <2>5. Scan(Found(q, k - 1), q[k])
           = IF \E r \in R : RunOf[r] = RunOf[q[k]] /\ r # q[k] THEN Refused
             ELSE [ok |-> TRUE, records |-> R \cup {q[k]}]
    BY <2>1, <2>4, ScanOne
  <2> QED
    BY <2>2, <2>3, <2>5 DEF Found
<1> QED
  BY <1>2, <1>3, <1>4

LEMMA RecoveryIs ==
  ASSUME NEW q \in Seq(Record \cup {GarbledLine})
  PROVE  Folded(q, DOMAIN q) = Found(q, Len(q))
<1> DEFINE W == {k \in 0 .. Len(q) : Folded(q, 1 .. k) # Found(q, k)}
<1>1. ASSUME NEW k \in W, \A n \in W : k <= n PROVE FALSE
  <2>1. k \in 0 .. Len(q) /\ k \in Nat /\ Folded(q, 1 .. k) # Found(q, k)
    OBVIOUS
  <2>2. CASE k = 0
    <3>1. Folded(q, 1 .. k) = Start
      BY <2>1, <2>2, PrefixStep
    <3>2. Found(q, 0) = Start
      <4>1. 1 .. 0 = {}
        OBVIOUS
      <4>2. Fits(q, 0) /\ Seen(q, 0) = {}
        BY <4>1 DEF Fits, Seen
      <4> QED
        BY <4>2 DEF Found, Start
    <3> QED
      BY <2>1, <2>2, <3>1, <3>2
  <2>3. CASE k > 0
    <3>1. k - 1 \in 0 .. Len(q) /\ k - 1 \notin W /\ k \in 1 .. Len(q)
      BY <1>1, <2>1, <2>3
    <3>2. Folded(q, 1 .. k - 1) = Found(q, k - 1)
      BY <3>1
    <3>3. Folded(q, 1 .. k) = Scan(Folded(q, 1 .. k - 1), q[k])
      BY <2>1, <2>3, PrefixStep
    <3>4. Scan(Found(q, k - 1), q[k]) = Found(q, k)
      BY <3>1, ScanNext
    <3> QED
      BY <2>1, <3>2, <3>3, <3>4
  <2> QED
    BY <2>1, <2>2, <2>3
<1>2. W \subseteq Nat
  OBVIOUS
<1>3. W = {}
  <2> HIDE DEF W
  <2> QED
    BY <1>1, <1>2, LeastOfNats
<1>4. Len(q) \notin W /\ Len(q) \in 0 .. Len(q) /\ DOMAIN q = 1 .. Len(q)
  BY <1>3
<1> QED
  BY <1>4

-----------------------------------------------------------------------------
(* Typing of the store, and what recovery accepts *)

\* What an append makes of the file: lines that can be read stay where they were, and
\* the last may be the new one.
LEMMA AppendedIs ==
  ASSUME TypeOK, NEW line \in Record \cup {GarbledLine}
  PROVE  /\ Appended(line) \in Seq(Record \cup {GarbledLine}) /\ Appended(line) # <<>>
         /\ \A i \in DOMAIN Appended(line) : Appended(line)[i] # GarbledLine =>
              \/ i \in DOMAIN lines /\ Appended(line)[i] = lines[i]
              \/ i = Len(lines) + 1 /\ Appended(line)[i] = line
<1>1. lines \in Seq(Record \cup {GarbledLine}) /\ (open => lines # <<>>)
  BY DEF TypeOK
<1>2. CASE open
  <2> DEFINE q == [lines EXCEPT ![Len(lines)] = GarbledLine]
  <2>1. Appended(line) = q
    BY <1>2 DEF Appended
  <2>2. /\ q \in Seq(Record \cup {GarbledLine}) /\ DOMAIN q = DOMAIN lines
        /\ Len(lines) \in DOMAIN lines
        /\ \A i \in DOMAIN lines : q[i] = IF i = Len(lines) THEN GarbledLine ELSE lines[i]
    BY <1>1, <1>2
  <2> HIDE DEF q
  <2> QED
    BY <2>1, <2>2
<1>3. CASE ~open
  <2>1. Appended(line) = Append(lines, line)
    BY <1>3 DEF Appended
  <2> QED
    BY <1>1, <2>1
<1> QED
  BY <1>2, <1>3

LEMMA RecoveredIndex ==
  ASSUME TypeOK, recoverDecisionStoreFromJsonl.ok
  PROVE  /\ recoverDecisionStoreFromJsonl.records \in SUBSET Record
         /\ \A i \in Parsed : lines[i] \in recoverDecisionStoreFromJsonl.records
<1>1. lines \in Seq(Record \cup {GarbledLine}) /\ DOMAIN lines = 1 .. Len(lines)
  BY DEF TypeOK
<1>2. recoverDecisionStoreFromJsonl = Found(lines, Len(lines))
  BY <1>1, RecoveryIs, RecoveryIsFold
<1>3. Fits(lines, Len(lines))
  BY <1>2 DEF Found, Refused
<1>4. recoverDecisionStoreFromJsonl.records = Seen(lines, Len(lines))
  BY <1>2, <1>3 DEF Found
<1>5. \A i \in 1 .. Len(lines) : lines[i] \in Record
  BY <1>1, <1>3 DEF Fits
<1> QED
  BY <1>1, <1>4, <1>5 DEF Seen, Parsed

LEMMA FailsClosed == TypeOK => RecoveryFailsClosed
<1> SUFFICES ASSUME TypeOK PROVE RecoveryFailsClosed
  OBVIOUS
<1>1. lines \in Seq(Record \cup {GarbledLine}) /\ DOMAIN lines = 1 .. Len(lines)
  BY DEF TypeOK
<1>2. recoverDecisionStoreFromJsonl = Found(lines, Len(lines))
  BY <1>1, RecoveryIs, RecoveryIsFold
<1>3. recoverDecisionStoreFromJsonl.ok <=> Fits(lines, Len(lines))
  BY <1>2 DEF Found, Refused
<1>4. Fits(lines, Len(lines)) <=>
        /\ Parsed = DOMAIN lines
        /\ \A i \in Parsed : lines[i] \notin Invalid
        /\ \A i, j \in Parsed : RunOf[lines[i]] = RunOf[lines[j]] => lines[i] = lines[j]
  BY <1>1 DEF Fits, Parsed
<1> QED
  BY <1>3, <1>4 DEF RecoveryFailsClosed

\* A record that can be planned is new to the index: none in it is of the same run.
LEMMA NewIsOther ==
  ASSUME NEW R, R \subseteq Record, NEW x \in Record, Classified(R, x) = "new_record"
  PROVE  \A r \in R : RunOf[r] # RunOf[x]
<1> DEFINE sameId == {r \in R : IdOf[r] = IdOf[x]}
           sameRun == {r \in R : RunOf[r] = RunOf[x]}
<1>1. ASSUME sameRun # {} PROVE FALSE
  <2>1. findExisting(R, x) \in sameId \cup sameRun
    BY <1>1 DEF findExisting
  <2>2. findExisting(R, x) # NoRecord
    BY <2>1, StoreAssumption
  <2> QED
    BY <2>1, <2>2 DEF Classified, classifyDecisionStoreDuplicate
<1> QED
  BY <1>1

LEMMA StoreTypeStep == TypeOK /\ [Next]_vars => TypeOK'
<1> SUFFICES ASSUME TypeOK, [Next]_vars PROVE TypeOK'
  OBVIOUS
<1>1. LockTypeOK'
  BY LockStepOnly, LockTypeStep DEF TypeOK
<1>2. ASSUME NEW w \in Writer, LockStep(w) PROVE TypeOK'
  BY <1>1, <1>2 DEF TypeOK, LockStep, store
<1>3. ASSUME NEW w \in Writer, EndSession(w),
             lines' \in Seq(Record \cup {GarbledLine}), open' \in BOOLEAN,
             open' => lines' # <<>>
      PROVE  TypeOK'
  BY <1>1, <1>3 DEF TypeOK, EndSession, Advance
<1>4. ASSUME NEW w \in Writer, Crash(w) PROVE TypeOK'
  BY <1>3, <1>4 DEF TypeOK, Crash
<1>5. ASSUME NEW w \in Writer, Recover(w) PROVE TypeOK'
  BY <1>1, <1>5, RecoveredIndex DEF TypeOK, Recover, Advance
<1>6. ASSUME NEW w \in Writer, CheckOwnership(w) PROVE TypeOK'
  <2>1. CASE EndSession(w)
    BY <1>3, <1>6, <2>1 DEF TypeOK, CheckOwnership
  <2>2. CASE Advance(w, "owned") /\ UNCHANGED <<index, plan>>
    BY <1>1, <1>6, <2>2 DEF TypeOK, CheckOwnership, Advance
  <2> QED
    BY <1>6, <2>1, <2>2 DEF CheckOwnership
<1>7. ASSUME NEW w \in Writer, AppendLine(w) PROVE TypeOK'
  <2>1. plan[w] \in Record
    BY <1>7 DEF TypeOK, AppendLine
  <2> QED
    BY <1>3, <1>7, <2>1, AppendedIs DEF AppendLine
<1>8. ASSUME NEW w \in Writer, AppendFails(w) PROVE TypeOK'
  <2>1. plan[w] \in Record
    BY <1>8 DEF TypeOK, AppendFails
  <2>2. CASE UNCHANGED <<lines, open>>
    BY <1>3, <1>8, <2>2 DEF TypeOK, AppendFails
  <2>3. CASE \E line \in {GarbledLine, plan[w]} : lines' = Appended(line) /\ open' = TRUE
    BY <1>3, <1>8, <2>1, <2>3, AppendedIs DEF AppendFails
  <2> QED
    BY <1>8, <2>2, <2>3 DEF AppendFails
<1>9. ASSUME NEW w \in Writer, NEW record \in Record, PlanAppend(w, record) PROVE TypeOK'
  <2>1. CASE EndSession(w)
    BY <1>3, <1>9, <2>1 DEF TypeOK, PlanAppend
  <2>2. CASE /\ Classified(index[w], record) = "new_record"
             /\ Advance(w, "planned") /\ plan' = [plan EXCEPT ![w] = record]
             /\ UNCHANGED index
    <3>1. record \notin index[w]
      BY <2>2, NewIsOther DEF TypeOK
    <3> QED
      BY <1>1, <1>9, <2>2, <3>1 DEF TypeOK, PlanAppend, Advance
  <2> QED
    BY <1>9, <2>1, <2>2 DEF PlanAppend
<1>10. CASE TimePasses
  BY <1>1, <1>10 DEF TypeOK, TimePasses, store
<1>11. CASE UNCHANGED vars
  BY <1>1, <1>11 DEF TypeOK, vars, store
<1> QED
  BY <1>2, <1>4, <1>5, <1>6, <1>7, <1>8, <1>9, <1>10, <1>11 DEF Next

\* The file, the indexes and the append plans have their types, and a planned record is
\* never one that the writer's index already has.
THEOREM StoreTyping == Spec => []TypeOK
<1>1. StoreInit => TypeOK
  <2> SUFFICES ASSUME StoreInit PROVE TypeOK
    OBVIOUS
  <2>1. LockTypeOK
    BY LockAssumption DEF StoreInit, Init, LockTypeOK, Content, Step, Lock
  <2>2. lines \in Seq(Record \cup {GarbledLine}) /\ open = FALSE
    BY DEF StoreInit
  <2>3. /\ stage \in [Writer -> {"none", "indexed", "planned", "owned"}]
        /\ \A w \in Writer : stage[w] = "none"
    BY DEF StoreInit
  <2>4. /\ index \in [Writer -> SUBSET Record]
        /\ plan \in [Writer -> Record \cup {NoRecord}]
    BY DEF StoreInit
  <2> QED
    BY <2>1, <2>2, <2>3, <2>4 DEF TypeOK
<1> QED
  BY <1>1, StoreTypeStep, PTL DEF Spec

\* Whatever appends fail or tear a line, recovery accepts a file exactly when every line
\* of it is a valid record and no two of them give different verdicts on one run.
THEOREM RecoveryIsClosed == Spec => []RecoveryFailsClosed
BY StoreTyping, FailsClosed, PTL

-----------------------------------------------------------------------------
(* One verdict per run *)

\* Until a lock is taken over, a takeover on its way is one of an expired lock by a lock
\* that outlives it,
TakeoverInv ==
  /\ \A v \in Writer : at[v] = "lock" => pc[v] = "created"
  /\ lockFile \notin Lock =>
       /\ tempFile = Missing
       /\ \A v \in Writer : pc[v] \in {"idle", "read", "create", "created"}
  /\ lockFile \in Lock =>
       /\ tempFile \in Lock => tempFile.expiresAtMs > lockFile.expiresAtMs
       /\ \A v \in Writer : pc[v] \in {"reread", "temp"} \cup InTakeover =>
            request[v].expiresAtMs > lockFile.expiresAtMs

\* at most one writer has a lock,
OneHolder == \A v, w \in Writer : Holds(v) /\ Holds(w) => v = w

\* and once the file has a line no lock is created any more.
LinesHeld == lines # <<>> => lockFile # Missing /\ \A w \in Writer : pc[w] # "created"

\* A writer that appends holds a lock, what it appends is new to its index, and until a
\* lock is taken over the index of the holder has every line.
SessionInv ==
  \A w \in Writer :
    /\ stage[w] = "owned" => Holds(w)
    /\ stage[w] \in {"planned", "owned"} =>
         \A r \in index[w] : RunOf[r] # RunOf[plan[w]]
    /\ ~replaced /\ Holds(w) /\ stage[w] # "none" =>
         \A i \in Parsed : lines[i] \in index[w]

Untaken == TakeoverInv /\ OneHolder /\ LinesHeld /\ OneVerdictPerRun
VerdictInv == SessionInv /\ (~replaced => Untaken)

\* The lock file holds a lock and goes on to hold something else.
Replaces == lockFile \in Lock /\ lockFile' # lockFile

LEMMA TakeoverStep ==
  LockTypeOK /\ LockInv /\ TakeoverInv /\ OneHolder /\ ~Replaces /\ [LockNext]_lockVars
    => TakeoverInv' /\ OneHolder'
<1> SUFFICES ASSUME LockTypeOK, LockInv, TakeoverInv, OneHolder, ~Replaces,
                    [LockNext]_lockVars
             PROVE  TakeoverInv' /\ OneHolder'
  OBVIOUS
<1> DEFINE Goal == TakeoverInv' /\ OneHolder'
<1> USE LockAssumption
    DEF LockTypeOK, LockInv, MissingInv, CreatingInv, Quiet, TakeoverInv, OneHolder, Holds,
        Replaces, Goto, call, disk, Content, InTakeover, Lock, Step
<1>1. ASSUME NEW w \in Writer, Acquire(w) PROVE Goal
  BY <1>1 DEF Acquire
<1>2. ASSUME NEW w \in Writer, PlanRejects(w) PROVE Goal
  BY <1>2 DEF PlanRejects, Reject
<1>3. ASSUME NEW w \in Writer, PlanCreates(w) PROVE Goal
  BY <1>3 DEF PlanCreates
<1>4. ASSUME NEW w \in Writer, PlanReplaces(w) PROVE Goal
  BY <1>4 DEF PlanReplaces, Usable, Expired, RequestStands
<1>5. ASSUME NEW w \in Writer, CreateLock(w) PROVE Goal
  BY <1>5 DEF CreateLock, Reject
<1>6. ASSUME NEW w \in Writer, FillCreated(w) PROVE Goal
  BY <1>6 DEF FillCreated, Acquired, FillOpenFile, Written
<1>7. ASSUME NEW w \in Writer, Reread(w) PROVE Goal
  BY <1>7 DEF Reread, Reject
<1>8. ASSUME NEW w \in Writer, OpenTemp(w) PROVE Goal
  BY <1>8 DEF OpenTemp
<1>9. ASSUME NEW w \in Writer, FillTemp(w) PROVE Goal
  BY <1>9 DEF FillTemp, FillOpenFile, Written
<1>10. ASSUME NEW w \in Writer, RenameTemp(w) PROVE Goal
  BY <1>10 DEF RenameTemp, Acquired, Renamed
<1>11. ASSUME NEW w \in Writer, Cleanup(w) PROVE Goal
  BY <1>11 DEF Cleanup, Reject
<1>12. ASSUME NEW w \in Writer, WriteFails(w) PROVE Goal
  BY <1>12 DEF WriteFails
<1>13. ASSUME NEW w \in Writer, UnlinkFails(w) PROVE Goal
  BY <1>13 DEF UnlinkFails, Reject
<1>14. ASSUME NEW w \in Writer, Die(w) PROVE Goal
  BY <1>14 DEF Die
<1>15. ASSUME Tick PROVE Goal
  BY <1>15 DEF Tick
<1>16. CASE UNCHANGED lockVars
  BY <1>16 DEF lockVars
<1> QED
  BY <1>1, <1>2, <1>3, <1>4, <1>5, <1>6, <1>7, <1>8, <1>9, <1>10, <1>11, <1>12, <1>13, <1>14, <1>15, <1>16
  DEF LockNext, Proceed

\* A lock is acquired only by the writer whose step it is: by the one that creates it or
\* by a takeover.
LEMMA LockMoves ==
  ASSUME LockTypeOK, LockInv, TakeoverInv, NEW w \in Writer, Proceed(w) \/ Die(w)
  PROVE  /\ \A v \in Writer : v # w => held'[v] = held[v]
         /\ held'[w] = NoLock \/ held'[w] = held[w] \/ pc[w] = "created" \/ Replaces
         /\ lockFile # Missing => lockFile' # Missing
         /\ \A v \in Writer : pc'[v] = "created" => pc[v] = "created" \/ lockFile = Missing
<1> USE LockAssumption
    DEF LockTypeOK, LockInv, CreatingInv, TakeoverInv, Replaces, Goto, call, disk, Content,
        InTakeover, Lock, Step
<1> DEFINE Goal ==
             /\ \A v \in Writer : v # w => held'[v] = held[v]
             /\ held'[w] = NoLock \/ held'[w] = held[w] \/ pc[w] = "created" \/ Replaces
             /\ lockFile # Missing => lockFile' # Missing
             /\ \A v \in Writer : pc'[v] = "created" => pc[v] = "created" \/ lockFile = Missing
<1>1. CASE Acquire(w) \/ PlanRejects(w) \/ PlanCreates(w) \/ PlanReplaces(w)
  BY <1>1 DEF Acquire, PlanRejects, PlanCreates, PlanReplaces, Reject
<1>2. CASE CreateLock(w)
  BY <1>2 DEF CreateLock, Reject
<1>3. CASE FillCreated(w)
  BY <1>3 DEF FillCreated, Acquired, FillOpenFile, Written
<1>4. CASE Reread(w) \/ OpenTemp(w) \/ Cleanup(w) \/ UnlinkFails(w)
  BY <1>4 DEF Reread, OpenTemp, Cleanup, UnlinkFails, Reject
<1>5. CASE FillTemp(w)
  BY <1>5 DEF FillTemp, FillOpenFile, Written
<1>6. CASE RenameTemp(w)
  BY <1>6 DEF RenameTemp, Acquired, Renamed
<1>7. CASE WriteFails(w)
  BY <1>7 DEF WriteFails
<1>8. CASE Die(w)
  BY <1>8 DEF Die
<1> QED
  BY <1>1, <1>2, <1>3, <1>4, <1>5, <1>6, <1>7, <1>8 DEF Proceed

LEMMA Growing ==
  ASSUME TypeOK, SessionInv, NEW w \in Writer, stage[w] = "owned", EndSession(w),
         UNCHANGED <<lockVars, replaced>>,
         \/ UNCHANGED lines
         \/ \E line \in {plan[w], GarbledLine} : lines' = Appended(line),
         LockInv, ~replaced => Untaken
  PROVE  VerdictInv'
<1>1. Holds(w) /\ plan[w] \in Record /\ plan[w] # GarbledLine
  BY StoreAssumption DEF SessionInv, TypeOK
<1>2. ASSUME NEW i \in Parsed'
      PROVE  \/ i \in Parsed /\ lines'[i] = lines[i]
             \/ i = Len(lines) + 1 /\ lines'[i] = plan[w]
  <2>1. CASE UNCHANGED lines
    BY <2>1 DEF Parsed
  <2>2. ASSUME NEW line \in {plan[w], GarbledLine}, lines' = Appended(line)
        PROVE  \/ i \in Parsed /\ lines'[i] = lines[i]
               \/ i = Len(lines) + 1 /\ lines'[i] = plan[w]
    BY <1>1, <2>2, AppendedIs DEF Parsed
  <2> QED
    BY <2>1, <2>2
<1>3. SessionInv'
  <2> SUFFICES ASSUME NEW v \in Writer
               PROVE  /\ stage'[v] = "owned" => Holds(v)'
                      /\ stage'[v] \in {"planned", "owned"} =>
                           \A r \in index'[v] : RunOf[r] # RunOf[plan'[v]]
                      /\ ~replaced' /\ Holds(v)' /\ stage'[v] # "none" =>
                           \A i \in Parsed' : lines'[i] \in index'[v]
    BY DEF SessionInv
  <2>1. CASE v = w
    BY <2>1 DEF TypeOK, EndSession, Advance
  <2>2. CASE v # w
    <3>1. stage'[v] = stage[v] /\ index'[v] = index[v] /\ plan'[v] = plan[v]
      BY <2>2 DEF TypeOK, EndSession, Advance
    <3>2. Holds(v)' = Holds(v) /\ (~replaced => ~Holds(v))
      BY <1>1, <2>2 DEF Untaken, OneHolder, lockVars, Holds
    <3> QED
      BY <3>1, <3>2 DEF SessionInv
  <2> QED
    BY <2>1, <2>2
<1>4. ASSUME ~replaced PROVE Untaken'
  <2>1. TakeoverInv' /\ OneHolder'
    BY <1>4 DEF Untaken, TakeoverInv, OneHolder, Holds, lockVars, call, disk
  <2>2. LinesHeld'
    BY <1>1 DEF LockInv, MissingInv, CreatingInv, LinesHeld, lockVars, disk, Holds
  <2>3. \A i \in Parsed : lines[i] \in index[w] /\ RunOf[lines[i]] # RunOf[plan[w]]
    BY <1>1, <1>4 DEF SessionInv
  <2>4. OneVerdictPerRun'
    <3> SUFFICES ASSUME NEW i \in Parsed', NEW j \in Parsed',
                        RunOf[lines'[i]] = RunOf[lines'[j]]
                 PROVE  i = j
      BY DEF OneVerdictPerRun
    <3>1. CASE i \in Parsed /\ j \in Parsed /\ lines'[i] = lines[i] /\ lines'[j] = lines[j]
      BY <1>4, <3>1 DEF Untaken, OneVerdictPerRun
    <3> QED
      BY <1>2, <2>3, <3>1
  <2> QED
    BY <2>1, <2>2, <2>4 DEF Untaken
<1> QED
  BY <1>3, <1>4 DEF VerdictInv

LEMMA VerdictStep ==
  TypeOK /\ LockInv /\ VerdictInv /\ [Next]_vars => VerdictInv'
<1> SUFFICES ASSUME TypeOK, LockInv, VerdictInv, [Next]_vars PROVE VerdictInv'
  OBVIOUS
<1>1. LockTypeOK /\ [LockNext]_lockVars
  BY LockStepOnly DEF TypeOK
<1>2. ASSUME NEW w \in Writer, LockStep(w) \/ Crash(w) PROVE VerdictInv'
  <2>1. /\ UNCHANGED <<lines, open>>
        /\ Proceed(w) \/ Die(w)
        /\ (LockStep(w) /\ UNCHANGED store) \/ (Crash(w) /\ EndSession(w) /\ held'[w] = NoLock)
    BY <1>1, <1>2 DEF LockStep, Crash, store, LockTypeOK, Die
  <2>2. ~replaced' => ~replaced /\ ~(LockStep(w) /\ Replaces)
    BY <1>2 DEF LockStep, Crash, Replaces
  <2>3. Crash(w) => ~Replaces
    BY DEF Crash, Die, disk, Replaces
  <2>4. ~replaced' => ~Replaces
    BY <1>2, <2>2, <2>3
  <2>5. ASSUME ~replaced' PROVE Untaken'
    <3>1. Untaken /\ ~replaced /\ ~Replaces
      BY <2>2, <2>4, <2>5 DEF VerdictInv
    <3>2. TakeoverInv' /\ OneHolder'
      BY <1>1, <3>1, TakeoverStep DEF Untaken
    <3>3. LinesHeld'
      BY <1>1, <2>1, <3>1, LockMoves DEF Untaken, LinesHeld
    <3>4. OneVerdictPerRun'
      BY <2>1, <3>1 DEF Untaken, OneVerdictPerRun, Parsed
    <3> QED
      BY <3>2, <3>3, <3>4 DEF Untaken
  <2>6. ASSUME NEW v \in Writer
        PROVE  /\ stage'[v] = "owned" => Holds(v)'
               /\ stage'[v] \in {"planned", "owned"} =>
                    \A r \in index'[v] : RunOf[r] # RunOf[plan'[v]]
               /\ ~replaced' /\ Holds(v)' /\ stage'[v] # "none" =>
                    \A i \in Parsed' : lines'[i] \in index'[v]
    <3>1. /\ stage'[v] = "none"
             \/ (stage'[v] = stage[v] /\ index'[v] = index[v] /\ plan'[v] = plan[v])
          /\ v = w /\ stage'[v] = "owned" => FALSE
          /\ Parsed' = Parsed /\ lines' = lines
      BY <1>2, <2>1 DEF TypeOK, EndSession, Advance, store, LockStep, Parsed
    <3>2. v # w => held'[v] = held[v]
      <4>1. CASE Crash(w)
        BY <1>1, <4>1 DEF Crash, Die, LockTypeOK
      <4>2. CASE LockStep(w)
        BY <1>1, <4>2 DEF LockStep, Proceed, LockTypeOK, Acquire, PlanRejects, PlanCreates,
           PlanReplaces, CreateLock, FillCreated, Reread, OpenTemp, FillTemp, RenameTemp,
           Cleanup, WriteFails, UnlinkFails, Reject, Acquired
      <4> QED
        BY <1>2, <4>1, <4>2
    <3>3. stage'[v] = "owned" => Holds(v)'
      BY <3>1, <3>2 DEF VerdictInv, SessionInv, Holds
    <3>4. stage'[v] \in {"planned", "owned"} =>
            \A r \in index'[v] : RunOf[r] # RunOf[plan'[v]]
      BY <3>1 DEF VerdictInv, SessionInv
    <3>5. ASSUME ~replaced', Holds(v)', stage'[v] # "none"
          PROVE  \A i \in Parsed' : lines'[i] \in index'[v]
      <4>1. Untaken /\ ~replaced /\ ~Replaces
        BY <2>2, <2>4, <3>5 DEF VerdictInv
      <4>2. CASE Holds(v)
        BY <3>1, <3>5, <4>1, <4>2 DEF VerdictInv, SessionInv
      <4>3. CASE ~Holds(v)
        <5>1. v = w /\ held'[w] # NoLock /\ held'[w] # held[w]
          BY <3>2, <3>5, <4>3 DEF Holds
        <5>2. pc[w] = "created"
          BY <1>1, <2>1, <4>1, <5>1, LockMoves DEF Untaken
        <5>3. lines = <<>>
          BY <4>1, <5>2 DEF Untaken, LinesHeld
        <5> QED
          BY <3>1, <5>3 DEF Parsed
      <4> QED
        BY <4>2, <4>3
    <3> QED
      BY <3>3, <3>4, <3>5
  <2> QED
    BY <2>5, <2>6 DEF VerdictInv, SessionInv
<1>3. ASSUME UNCHANGED <<lockVars, lines, replaced>>
      PROVE  Untaken' = Untaken /\ Parsed' = Parsed /\ \A w \in Writer : Holds(w)' = Holds(w)
  BY <1>3 DEF Untaken, TakeoverInv, OneHolder, LinesHeld, OneVerdictPerRun, Parsed, Holds,
              lockVars, call, disk
<1>4. ASSUME NEW w \in Writer, EndSession(w), UNCHANGED <<lockVars, lines, replaced>>
      PROVE  VerdictInv'
  BY <1>3, <1>4 DEF TypeOK, VerdictInv, SessionInv, EndSession, Advance
<1>5. ASSUME NEW w \in Writer, Recover(w) PROVE VerdictInv'
  <2>1. UNCHANGED <<lockVars, lines, replaced>>
    BY <1>5 DEF Recover
  <2>2. \A i \in Parsed : lines[i] \in recoverDecisionStoreFromJsonl.records
    BY <1>5, RecoveredIndex DEF Recover
  <2>3. /\ stage'[w] = "indexed" /\ index'[w] = recoverDecisionStoreFromJsonl.records
        /\ \A v \in Writer : v # w => stage'[v] = stage[v] /\ index'[v] = index[v]
        /\ plan' = plan
    BY <1>5 DEF TypeOK, Recover, Advance
  <2>4. SessionInv'
    <3> SUFFICES ASSUME NEW v \in Writer
                 PROVE  /\ stage'[v] = "owned" => Holds(v)'
                        /\ stage'[v] \in {"planned", "owned"} =>
                             \A r \in index'[v] : RunOf[r] # RunOf[plan'[v]]
                        /\ ~replaced' /\ Holds(v)' /\ stage'[v] # "none" =>
                             \A i \in Parsed' : lines'[i] \in index'[v]
      BY DEF SessionInv
    <3>1. CASE v = w
      BY <1>3, <2>1, <2>2, <2>3, <3>1
    <3>2. CASE v # w
      BY <1>3, <2>1, <2>3, <3>2 DEF VerdictInv, SessionInv
    <3> QED
      BY <3>1, <3>2
  <2> QED
    BY <1>3, <2>1, <2>4 DEF VerdictInv
<1>6. ASSUME NEW w \in Writer, NEW record \in Record, PlanAppend(w, record) PROVE VerdictInv'
  <2>1. UNCHANGED <<lockVars, lines, replaced>>
    BY <1>6 DEF PlanAppend
  <2>2. CASE EndSession(w)
    BY <1>4, <2>1, <2>2
  <2>3. CASE /\ Classified(index[w], record) = "new_record"
             /\ Advance(w, "planned") /\ plan' = [plan EXCEPT ![w] = record]
             /\ UNCHANGED index
    <3>1. \A r \in index[w] : RunOf[r] # RunOf[record]
      BY <2>3, NewIsOther DEF TypeOK
    <3>2. stage[w] = "indexed"
      BY <1>6 DEF PlanAppend
    <3> QED
      BY <1>3, <2>1, <2>3, <3>1, <3>2 DEF TypeOK, VerdictInv, SessionInv, Advance
  <2> QED
    BY <1>6, <2>2, <2>3 DEF PlanAppend
<1>7. ASSUME NEW w \in Writer, CheckOwnership(w) PROVE VerdictInv'
  <2>1. UNCHANGED <<lockVars, lines, replaced>>
    BY <1>7 DEF CheckOwnership
  <2>2. CASE EndSession(w)
    BY <1>4, <2>1, <2>2
  <2>3. CASE held[w] \in Lock /\ Advance(w, "owned") /\ UNCHANGED <<index, plan>>
    <3>1. Holds(w) /\ stage[w] = "planned"
      BY <1>7, <2>3, LockAssumption DEF Holds, CheckOwnership
    <3> QED
      BY <1>3, <2>1, <2>3, <3>1 DEF TypeOK, VerdictInv, SessionInv, Advance
  <2> QED
    BY <1>7, <2>2, <2>3 DEF CheckOwnership, ownershipValid
<1>8. ASSUME NEW w \in Writer, AppendLine(w) \/ AppendFails(w) PROVE VerdictInv'
  BY <1>8, Growing DEF VerdictInv, AppendLine, AppendFails
<1>9. CASE TimePasses
  <2>1. UNCHANGED <<disk, pc, call, at, held, mode, store, replaced>>
    BY <1>9 DEF TimePasses, Tick
  <2> QED
    BY <2>1 DEF VerdictInv, SessionInv, Untaken, TakeoverInv, OneHolder, LinesHeld,
                OneVerdictPerRun, Parsed, Holds, store, disk, call
<1>10. CASE UNCHANGED vars
  BY <1>3, <1>10 DEF vars, store, VerdictInv, SessionInv
<1> QED
  BY <1>2, <1>5, <1>6, <1>7, <1>8, <1>9, <1>10 DEF Next

\* Until a lock is taken over the store keeps one verdict per candidate and run: only the
\* creator of the lock can append, and its index has every line there is.
THEOREM OneVerdict == Spec => []OneVerdictPerRun
<1>1. StoreInit => VerdictInv
  <2> SUFFICES ASSUME StoreInit PROVE VerdictInv
    OBVIOUS
  <2>1. SessionInv
    BY DEF StoreInit, SessionInv
  <2>2. lines = <<>> /\ Parsed = {}
    BY DEF StoreInit, Parsed
  <2>3. TakeoverInv /\ OneHolder
    BY LockAssumption DEF StoreInit, Init, TakeoverInv, OneHolder, Holds
  <2> QED
    BY <2>1, <2>2, <2>3 DEF VerdictInv, Untaken, LinesHeld, OneVerdictPerRun
<1>2. VerdictInv => OneVerdictPerRun
  BY DEF VerdictInv, Untaken, OneVerdictPerRun
<1>3. Spec => []LockInv
  BY StoreRunsLock, CreationInvariant, PTL
<1> QED
  BY <1>1, <1>2, <1>3, VerdictStep, StoreTyping, PTL DEF Spec
=============================================================================
