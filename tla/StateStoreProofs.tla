-------------------------- MODULE StateStoreProofs --------------------------
(***************************************************************************)
(* Proofs about StateStoreLock: typing, one holder, and that the store     *)
(* implements AtomicState, for any processes, stores and updates.          *)
(***************************************************************************)
EXTENDS StateStoreLock, SequenceTheorems, TLAPS

Active == {"polling"} \cup Holding

LEMMA ActiveIsHead ==
  ASSUME TypeOK, NEW u \in Update, NEW v \in Update,
         phase[u] \in Active, phase[v] \in Active, StoreOf[u] = StoreOf[v]
  PROVE  u = v
  BY DEF TypeOK, Active

\* Settling an active update keeps the chains typed and every other update at its head.
LEMMA SettlesTyped ==
  ASSUME TypeOK, NEW u \in Update, phase[u] \in Active,
         NEW label \in Answered, Settles(u, label)
  PROVE  /\ phase' \in [Update -> Phase]
         /\ chain' \in [Store -> Seq(Update)]
         /\ \A v \in Update : phase'[v] \in {"polling"} \cup Holding =>
              chain'[StoreOf[v]] # <<>> /\ Head(chain'[StoreOf[v]]) = v
<1> USE StoreAssumption
<1>1. StoreOf[u] \in Store /\ chain[StoreOf[u]] \in Seq(Update) /\ chain[StoreOf[u]] # <<>>
  BY DEF TypeOK, Active
<1>2. Tail(chain[StoreOf[u]]) \in Seq(Update)
  BY <1>1
<1>3. phase' \in [Update -> Phase]
  BY DEF Settles, Become, TypeOK, Phase, Answered
<1>4. chain' \in [Store -> Seq(Update)]
  BY <1>1, <1>2 DEF Settles, TypeOK
<1>5. ASSUME NEW v \in Update, phase'[v] \in Active
      PROVE  chain'[StoreOf[v]] # <<>> /\ Head(chain'[StoreOf[v]]) = v
  <2>1. v # u /\ phase[v] = phase'[v]
    BY <1>5 DEF Settles, Become, TypeOK, Answered, Active, Holding
  <2>2. StoreOf[v] # StoreOf[u]
    BY <2>1, <1>5, ActiveIsHead
  <2>3. chain'[StoreOf[v]] = chain[StoreOf[v]]
    BY <2>2, <1>1 DEF Settles, TypeOK
  <2> QED BY <2>1, <2>3, <1>5 DEF TypeOK, Active
<1> QED BY <1>3, <1>4, <1>5 DEF Active

LEMMA TypeStep == TypeOK /\ [Next]_vars => TypeOK'
<1> USE StoreAssumption
<1> SUFFICES ASSUME TypeOK, [Next]_vars PROVE TypeOK'
  OBVIOUS
<1>1. ASSUME NEW u \in Update, Call(u) PROVE TypeOK'
  <2>1. StoreOf[u] \in Store /\ chain[StoreOf[u]] \in Seq(Update)
    BY DEF TypeOK
  <2>2. chain' \in [Store -> Seq(Update)]
    BY <1>1, <2>1 DEF Call, TypeOK
  <2>3. ASSUME NEW v \in Update, phase'[v] \in {"polling"} \cup Holding
        PROVE  chain'[StoreOf[v]] # <<>> /\ Head(chain'[StoreOf[v]]) = v
    <3>1. phase[v] = phase'[v] /\ v # u
      BY <1>1, <2>3 DEF Call, Become, TypeOK, Holding
    <3>2. chain[StoreOf[v]] # <<>> /\ Head(chain[StoreOf[v]]) = v
      BY <2>3, <3>1 DEF TypeOK
    <3>3. CASE StoreOf[v] = StoreOf[u]
      <4>1. chain'[StoreOf[v]] = Append(chain[StoreOf[v]], u)
        BY <1>1, <3>3, <2>1 DEF Call, TypeOK
      <4> QED BY <4>1, <3>2, <3>3, <2>1
    <3>4. CASE StoreOf[v] # StoreOf[u]
      BY <1>1, <3>2, <3>4 DEF Call, TypeOK
    <3> QED BY <3>3, <3>4
  <2>4. phase' \in [Update -> Phase]
    BY <1>1 DEF Call, Become, TypeOK, Phase
  <2> QED BY <1>1, <2>2, <2>3, <2>4 DEF Call, TypeOK
<1>2. ASSUME NEW u \in Update, Begin(u) PROVE TypeOK'
  BY <1>2 DEF Begin, Become, TypeOK, Phase, Holding
<1>3. ASSUME NEW u \in Update, AcquireLock(u) PROVE TypeOK'
  BY <1>3 DEF AcquireLock, Become, TypeOK, Phase, Holding
<1>4. ASSUME NEW u \in Update, LockTimeout(u) PROVE TypeOK'
  <2>1. phase[u] \in Active /\ Settles(u, "rejected") /\ "rejected" \in Answered
    BY <1>4 DEF LockTimeout, Active, Answered
  <2> QED BY <1>4, <2>1, SettlesTyped DEF LockTimeout, TypeOK
<1>5. ASSUME NEW u \in Update, LoadAndMutate(u) PROVE TypeOK'
  BY <1>5 DEF LoadAndMutate, Become, TypeOK, Phase, Holding
<1>6. ASSUME NEW u \in Update, MutatorThrows(u) PROVE TypeOK'
  BY <1>6 DEF MutatorThrows, Become, TypeOK, Phase, Holding
<1>7. ASSUME NEW u \in Update, SaveState(u) PROVE TypeOK'
  BY <1>7 DEF SaveState, Become, TypeOK, Phase, Holding
<1>8. ASSUME NEW u \in Update, ReleaseLock(u) \/ UnlinkFails(u) PROVE TypeOK'
  <2>1. PICK label \in Answered : Settles(u, label)
    BY <1>8 DEF ReleaseLock, UnlinkFails, Answered
  <2>2. phase[u] \in Active
    BY <1>8 DEF ReleaseLock, UnlinkFails, Active, Holding
  <2>3. /\ phase' \in [Update -> Phase]
        /\ chain' \in [Store -> Seq(Update)]
        /\ \A v \in Update : phase'[v] \in {"polling"} \cup Holding =>
             chain'[StoreOf[v]] # <<>> /\ Head(chain'[StoreOf[v]]) = v
    BY <2>1, <2>2, SettlesTyped
  <2>4. /\ UNCHANGED <<state, draft, late>>
        /\ lockFile' \in BOOLEAN /\ faults' \in Nat
    <3>1. CASE ReleaseLock(u)
      BY <3>1 DEF ReleaseLock, TypeOK
    <3>2. CASE UnlinkFails(u)
      BY <3>2 DEF UnlinkFails, Fails, TypeOK
    <3> QED BY <1>8, <3>1, <3>2
  <2> QED BY <2>3, <2>4 DEF TypeOK
<1>9. ASSUME NEW u \in Update, OpenFails(u) PROVE TypeOK'
  <2>1. phase[u] \in Active /\ Settles(u, "rejected") /\ "rejected" \in Answered
    BY <1>9 DEF OpenFails, Active, Answered
  <2> QED BY <1>9, <2>1, SettlesTyped DEF OpenFails, Fails, TypeOK
<1>10. ASSUME NEW u \in Update, SaveFails(u) PROVE TypeOK'
  BY <1>10 DEF SaveFails, Fails, Become, TypeOK, Phase, Holding
<1>11. ASSUME NEW u \in Update, DeadlinePasses(u) PROVE TypeOK'
  BY <1>11 DEF DeadlinePasses, TypeOK
<1>12. ASSUME NEW p \in Process, Crash(p) PROVE TypeOK'
  <2>1. phase' \in [Update -> Phase] /\ chain' \in [Store -> Seq(Update)]
    BY <1>12 DEF Crash, TypeOK, Phase
  <2>2. ASSUME NEW v \in Update, phase'[v] \in {"polling"} \cup Holding
        PROVE  chain'[StoreOf[v]] # <<>> /\ Head(chain'[StoreOf[v]]) = v
    <3>1. HostOf[StoreOf[v]] # p /\ phase[v] = phase'[v]
      BY <1>12, <2>2 DEF Crash, Holding, Answered
    <3>2. chain'[StoreOf[v]] = chain[StoreOf[v]]
      BY <1>12, <3>1 DEF Crash
    <3> QED BY <2>2, <3>1, <3>2 DEF TypeOK
  <2>3. UNCHANGED <<state, lockFile, draft, late>> /\ faults' \in Nat
    BY <1>12 DEF Crash, TypeOK
  <2> QED BY <2>1, <2>2, <2>3 DEF TypeOK
<1>13. CASE UNCHANGED vars
  BY <1>13 DEF vars, TypeOK
<1> QED BY <1>1, <1>2, <1>3, <1>4, <1>5, <1>6, <1>7, <1>8, <1>9, <1>10, <1>11, <1>12, <1>13
        DEF Next, Step, Fault

(* Every variable of the store keeps its type, and the update that runs heads the chain
   of its store: JsonAtomicStateStore never runs two updates of one instance at once. *)
THEOREM StoreTyping == Spec => []TypeOK
<1>1. Init => TypeOK
  <2> SUFFICES ASSUME Init PROVE TypeOK
    OBVIOUS
  <2>1. phase \in [Update -> Phase] /\ \A u \in Update : phase[u] = "new"
    BY DEF Init, Phase
  <2>2. chain \in [Store -> Seq(Update)]
    BY DEF Init
  <2>3. state \in SUBSET Update /\ lockFile \in BOOLEAN /\ late \in SUBSET Update
        /\ draft \in [Update -> SUBSET Update] /\ faults \in Nat
    BY DEF Init
  <2> QED BY <2>1, <2>2, <2>3 DEF TypeOK, Holding
<1> QED BY <1>1, TypeStep, PTL DEF Spec
-----------------------------------------------------------------------------
LEMMA StoreStep == TypeOK /\ StoreInv /\ [Next]_vars => StoreInv'
<1> SUFFICES ASSUME TypeOK, StoreInv, [Next]_vars PROVE StoreInv'
  OBVIOUS
<1> USE DEF StoreInv, OneHolder, SavedInv, Holding
<1>1. ASSUME NEW u \in Update, Call(u) \/ Begin(u) PROVE StoreInv'
  BY <1>1 DEF Call, Begin, Become, TypeOK
<1>3. ASSUME NEW u \in Update, AcquireLock(u) PROVE StoreInv'
  BY <1>3 DEF AcquireLock, Become, TypeOK
<1>4. ASSUME NEW u \in Update, LockTimeout(u) \/ OpenFails(u) PROVE StoreInv'
  <2>1. CASE LockTimeout(u)
    BY <2>1 DEF LockTimeout, Settles, Become, TypeOK
  <2>2. CASE OpenFails(u)
    BY <2>2 DEF OpenFails, Settles, Become, TypeOK
  <2> QED BY <1>4, <2>1, <2>2
<1>5. ASSUME NEW u \in Update, LoadAndMutate(u) PROVE StoreInv'
  BY <1>5 DEF LoadAndMutate, Become, TypeOK
<1>6. ASSUME NEW u \in Update, MutatorThrows(u) \/ SaveFails(u) PROVE StoreInv'
  BY <1>6 DEF MutatorThrows, SaveFails, Become, TypeOK
<1>7. ASSUME NEW u \in Update, SaveState(u) PROVE StoreInv'
  <2>1. state' = state \cup {u} /\ phase' = [phase EXCEPT ![u] = "saved"]
    BY <1>7 DEF SaveState, Become
  <2>2. \A v \in Update : phase'[v] = "drafted" => FALSE
    BY <1>7, <2>1 DEF SaveState, TypeOK
  <2> QED BY <1>7, <2>1, <2>2 DEF SaveState, TypeOK
<1>8. ASSUME NEW u \in Update, ReleaseLock(u) PROVE StoreInv'
  BY <1>8 DEF ReleaseLock, Settles, Become, TypeOK
<1>9. ASSUME NEW u \in Update, UnlinkFails(u) PROVE StoreInv'
  BY <1>9 DEF UnlinkFails, Settles, Become, TypeOK
<1>10. ASSUME NEW u \in Update, DeadlinePasses(u) PROVE StoreInv'
  BY <1>10 DEF DeadlinePasses
<1>11. ASSUME NEW p \in Process, Crash(p) PROVE StoreInv'
  BY <1>11 DEF Crash, TypeOK, Answered
<1>12. CASE UNCHANGED vars
  BY <1>12 DEF vars
<1> QED BY <1>1, <1>3, <1>4, <1>5, <1>6, <1>7, <1>8, <1>9, <1>10, <1>11, <1>12
        DEF Next, Step, Fault

(* Transactions exclude each other, and whatever is in the state file was put there by
   the update that says so: the lock file of acquireLock and releaseLock. *)
THEOREM TransactionsExclude == Spec => []StoreInv
<1>1. Init => StoreInv
  BY DEF Init, StoreInv, OneHolder, SavedInv, Holding
<1> QED BY <1>1, StoreStep, StoreTyping, PTL DEF Spec
-----------------------------------------------------------------------------
LEMMA Telling ==
  ASSUME TypeOK, NEW u \in Update, NEW label \in Answered, Settles(u, label)
  PROVE  Told' = [Told EXCEPT ![u] = label]
  BY DEF TypeOK, Settles, Become, Told, Answered

LEMMA SilentStep ==
  ASSUME TypeOK, NEW u \in Update, NEW label \in Phase \ Answered,
         phase[u] \notin Answered, Become(u, label)
  PROVE  Told' = Told
  BY DEF TypeOK, Become, Told, Answered

LEMMA RefinementStep ==
  TypeOK /\ StoreInv /\ [Next]_vars => [Promise!AtomicNext]_(Promise!atomicVars)
<1> SUFFICES ASSUME TypeOK, StoreInv, [Next]_vars
             PROVE  Promise!AtomicNext \/ UNCHANGED <<state, Told>>
  BY DEF Promise!atomicVars
<1>1. ASSUME NEW u \in Update,
             \/ Call(u) \/ Begin(u) \/ AcquireLock(u) \/ LoadAndMutate(u)
             \/ MutatorThrows(u) \/ SaveFails(u)
      PROVE  UNCHANGED <<state, Told>>
  <2>1. phase[u] \notin Answered /\ state' = state
    BY <1>1 DEF Call, Begin, AcquireLock, LoadAndMutate, MutatorThrows, SaveFails, Answered
  <2>2. \E label \in Phase \ Answered : Become(u, label)
    BY <1>1 DEF Call, Begin, AcquireLock, LoadAndMutate, MutatorThrows, SaveFails,
                Phase, Answered, Holding
  <2> QED BY <2>1, <2>2, SilentStep
<1>2. ASSUME NEW u \in Update, SaveState(u) PROVE Promise!TakesEffect(u)
  <2>1. phase[u] \notin Answered /\ Become(u, "saved") /\ "saved" \in Phase \ Answered
    BY <1>2 DEF SaveState, Answered, Phase, Holding
  <2>2. Told' = Told /\ Told[u] = "none"
    BY <2>1, SilentStep DEF Told
  <2>3. u \notin state /\ state' = state \cup {u}
    BY <1>2 DEF SaveState, StoreInv, SavedInv
  <2> QED BY <2>2, <2>3 DEF Promise!TakesEffect
<1>3. ASSUME NEW u \in Update, LockTimeout(u) \/ OpenFails(u) PROVE Promise!Rejects(u)
  <2>1. Settles(u, "rejected") /\ "rejected" \in Answered /\ state' = state
    BY <1>3 DEF LockTimeout, OpenFails, Answered
  <2>2. Told[u] = "none" /\ u \notin state
    BY <1>3 DEF LockTimeout, OpenFails, Told, Answered, StoreInv, SavedInv
  <2> QED BY <2>1, <2>2, Telling DEF Promise!Rejects
<1>4. ASSUME NEW u \in Update, ReleaseLock(u) \/ UnlinkFails(u)
      PROVE  Promise!Resolves(u) \/ Promise!Rejects(u)
  <2>1. Told[u] = "none" /\ state' = state
    BY <1>4 DEF ReleaseLock, UnlinkFails, Told, Answered
  <2>2. CASE phase[u] = "saved"
    <3>1. Settles(u, "resolved") /\ "resolved" \in Answered /\ u \in state
      BY <1>4, <2>2 DEF ReleaseLock, UnlinkFails, Answered, StoreInv, SavedInv
    <3> QED BY <2>1, <3>1, Telling DEF Promise!Resolves
  <2>3. CASE phase[u] = "failed"
    <3>1. Settles(u, "rejected") /\ "rejected" \in Answered /\ u \notin state
      BY <1>4, <2>3 DEF ReleaseLock, UnlinkFails, Answered, StoreInv, SavedInv
    <3> QED BY <2>1, <3>1, Telling DEF Promise!Rejects
  <2> QED BY <1>4, <2>2, <2>3 DEF ReleaseLock, UnlinkFails
<1>5. ASSUME NEW u \in Update, DeadlinePasses(u) PROVE UNCHANGED <<state, Told>>
  BY <1>5 DEF DeadlinePasses, Told
<1>6. ASSUME NEW p \in Process, Crash(p) PROVE \E updates \in SUBSET Update : Promise!Dies(updates)
  <2> DEFINE gone == {u \in Update : HostOf[StoreOf[u]] = p
                                      /\ phase[u] \notin Answered \cup {"new"}}
  <2>1. \A u \in gone : Told[u] = "none"
    BY DEF Told
  <2>2. Told' = [u \in Update |-> IF u \in gone THEN "dead" ELSE Told[u]]
    <3>1. \A u \in Update : phase'[u] = IF u \in gone THEN "dead" ELSE phase[u]
      BY <1>6 DEF Crash
    <3> QED BY <3>1 DEF Told, Answered
  <2>3. state' = state
    BY <1>6 DEF Crash
  <2>4. gone \in SUBSET Update
    OBVIOUS
  <2> HIDE DEF gone
  <2> QED BY <2>1, <2>2, <2>3, <2>4 DEF Promise!Dies
<1>7. CASE UNCHANGED vars
  BY <1>7 DEF vars, Told
<1> QED BY <1>1, <1>2, <1>3, <1>4, <1>5, <1>6, <1>7
        DEF Next, Step, Fault, Promise!AtomicNext

(* store.update() is the atomic update that the models of the dispatch path take it
   for: one instant of effect or none, nothing lost, and a truthful answer. *)
THEOREM StoreIsAtomic == Spec => ImplementsAtomicState
<1>1. Init => Promise!AtomicInit
  BY DEF Init, Promise!AtomicInit, Told, Answered
<1> QED BY <1>1, RefinementStep, StoreTyping, TransactionsExclude, PTL
        DEF Spec, ImplementsAtomicState, Promise!AtomicSpec
=============================================================================
