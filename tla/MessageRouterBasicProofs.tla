---------------------- MODULE MessageRouterBasicProofs ----------------------
(***************************************************************************)
(* Proofs that the router keeps RouterInv, and with it the safety          *)
(* invariants of MessageRouterBasic, for every number of receivers and     *)
(* every set of messages and filter lists.                                 *)
(***************************************************************************)
EXTENDS MessageRouterBasic, FiniteSetTheorems, TLAPS

\* The receivers, and so the threads inside broadcastMessage, are finite.
LEMMA FiniteReceivers ==
  IsFiniteSet(Receivers) /\ \A S \in SUBSET Receivers : IsFiniteSet(S)
  <1>1. IsFiniteSet(Receivers)
    <2>1. 1 \in Int /\ NumReceivers \in Int
      BY RouterAssumption
    <2> QED BY Zenon, <2>1, FS_Interval DEF Receivers
  <1>2. \A S \in SUBSET Receivers : IsFiniteSet(S)
    BY Zenon, <1>1, FS_Subset
  <1> QED BY Zenon, <1>1, <1>2

\* The count reads zero exactly when no thread is inside broadcastMessage.
LEMMA ZeroCountMeansNoBroadcast ==
  ASSUME TypeOK, ActiveCountExact, BroadcastsInactive
  PROVE  \A r \in Receivers : pc[r] # "iterating"
  <1>1. mActiveBroadcasts = 0
    BY DEF TypeOK, BroadcastsInactive
  <1>2. IsFiniteSet(Broadcasting)
    BY Zenon, FiniteReceivers DEF Broadcasting
  <1>3. Broadcasting = {}
    BY Zenon, <1>1, <1>2, FS_EmptySet DEF ActiveCountExact
  <1> QED BY Zenon, <1>3 DEF Broadcasting

\* The bounds of the pointers, of end() and of the counters.
LEMMA Pointers ==
  /\ End \in Nat /\ End # 0
  /\ 0 \in 0..End /\ End \in 0..End /\ 0 \in 0..MaxOps
  /\ \A r \in Receivers : r \in Nat /\ 0 < r /\ r < End /\ r \in 0..End
  /\ Null \notin Receivers
  BY RouterAssumption DEF Receivers, End

\* Counting a call keeps the counter within its bound.
LEMMA CallCounted ==
  ASSUME ops \in [Receivers -> 0..MaxOps], NEW r \in Receivers, CountCall(r)
  PROVE  ops' \in [Receivers -> 0..MaxOps]
  <1>1. ops[r] + 1 \in 0..MaxOps
    BY RouterAssumption DEF CountCall
  <1> QED BY Zenon, <1>1 DEF CountCall

\* The initial state satisfies the inductive invariant.
LEMMA RouterInit == Init => RouterInv
  <1> SUFFICES ASSUME Init PROVE RouterInv
    BY Zenon
  <1>1. TypeOK
    <2>1. /\ keys \in SUBSET Receivers
          /\ filters \in [Receivers -> FilterLists]
          /\ mActiveBroadcasts \in Nat
          /\ mMapLock \in Receivers \cup {Null}
          /\ late \in [Receivers -> SUBSET Receivers]
          /\ expected \in [Receivers -> SUBSET Receivers]
      BY Zenon, RouterAssumption DEF Init
    <2>2. /\ pc \in [Receivers -> PCs]
          /\ arg \in [Receivers -> Calls]
          /\ cursor \in [Receivers -> 0..End]
          /\ ops \in [Receivers -> 0..MaxOps]
      BY Zenon, Pointers DEF Init, PCs, Calls
    <2>3. /\ alive \in [Receivers -> BOOLEAN]
          /\ crashed \in BOOLEAN
          /\ torn \in [Receivers -> BOOLEAN]
          /\ overlapped \in [Receivers -> BOOLEAN]
      BY Zenon DEF Init
    <2>4. delivered \in [Receivers -> [Receivers -> Nat]]
      BY Zenon DEF Init
    <2> QED BY Zenon, <2>1, <2>2, <2>3, <2>4 DEF TypeOK
  <1>2. ActiveCountExact
    <2>1. Broadcasting = {}
      BY Zenon DEF Init, Broadcasting
    <2> QED BY Zenon, <2>1, FS_EmptySet DEF Init, ActiveCountExact
  <1>3. OneMapWriter /\ OverlapOnlyLate /\ WalkExact /\ KeysAlive
    BY Zenon, Pointers DEF Init, OneMapWriter, OverlapOnlyLate, WalkExact, KeysAlive
  <1>4. CallsWellFormed
    BY Zenon DEF Init, CallsWellFormed
  <1> QED BY Zenon, <1>1, <1>2, <1>3, <1>4 DEF RouterInv

\* Entering broadcastMessage.
LEMMA EnterKeepsInv ==
  ASSUME RouterInv, NEW r \in Receivers, NEW m \in Messages,
         EnterBroadcast(r, m)
  PROVE  RouterInv'
  <1> USE DEF RouterInv
  <1>1. TypeOK'
    <2>1. Subscribers(m) \ {r} \in SUBSET Receivers
      BY Zenon DEF Subscribers, TypeOK
    <2>2. ops' \in [Receivers -> 0..MaxOps]
      BY Zenon, CallCounted DEF TypeOK, EnterBroadcast
    <2>3. pc' \in [Receivers -> PCs] /\ arg' \in [Receivers -> Calls]
      BY Zenon DEF TypeOK, EnterBroadcast, Goto, PCs, Calls
    <2>4. cursor' \in [Receivers -> 0..End]
      BY Zenon, Pointers DEF TypeOK, EnterBroadcast
    <2>5. late' \in [Receivers -> SUBSET Receivers]
      BY Zenon DEF TypeOK, EnterBroadcast
    <2>6. expected' \in [Receivers -> SUBSET Receivers]
      BY Zenon, <2>1 DEF TypeOK, EnterBroadcast
    <2> QED BY <2>2, <2>3, <2>4, <2>5, <2>6
          DEF TypeOK, EnterBroadcast, mapVars
  <1>2. ActiveCountExact'
    <2>1. Broadcasting' = Broadcasting \cup {r} /\ r \notin Broadcasting
      BY Zenon DEF Broadcasting, EnterBroadcast, Goto, TypeOK
    <2>2. IsFiniteSet(Broadcasting)
      BY Zenon, FiniteReceivers DEF Broadcasting
    <2> QED BY Zenon, <2>1, <2>2, FS_AddElement DEF ActiveCountExact, EnterBroadcast
  <1>3. OneMapWriter' /\ KeysAlive'
    BY Zenon DEF OneMapWriter, KeysAlive, EnterBroadcast, Goto, TypeOK, mapVars
  <1>4. OverlapOnlyLate'
    BY Zenon DEF OverlapOnlyLate, EnterBroadcast, Goto, TypeOK
  <1>5. CallsWellFormed'
    BY Zenon DEF CallsWellFormed, EnterBroadcast, Goto, TypeOK
  <1>6. WalkExact'
    <2> SUFFICES ASSUME NEW b \in Receivers,
                        pc'[b] = "iterating", ~overlapped'[b]
                 PROVE  WalkServed(b)'
      BY Zenon DEF WalkExact
    <2>1. CASE b = r
      BY SMTT(30), <2>1, Pointers
         DEF WalkServed, CallsWellFormed, EnterBroadcast, Goto, TypeOK,
             Subscribers, mapVars
    <2>2. CASE b # r
      <3>1. WalkServed(b)
        BY Zenon, <2>2 DEF WalkExact, EnterBroadcast, Goto, TypeOK
      <3> QED BY Zenon, <2>2, <3>1 DEF WalkServed, EnterBroadcast, TypeOK, Subscribers,
                               mapVars
    <2> QED BY Zenon, <2>1, <2>2
  <1> QED BY Zenon, <1>1, <1>2, <1>3, <1>4, <1>5, <1>6

\* Constructing a receiver.
LEMMA ConstructKeepsInv ==
  ASSUME RouterInv, NEW r \in Receivers, Construct(r)
  PROVE  RouterInv'
  <1> USE DEF RouterInv
  <1>1. TypeOK'
    BY Zenon, CallCounted DEF TypeOK, Construct, mapVars, histVars
  <1>2. Broadcasting' = Broadcasting
    BY Zenon DEF Broadcasting, Construct
  <1>3. ActiveCountExact' /\ OneMapWriter' /\ OverlapOnlyLate'
    BY Zenon, <1>2 DEF ActiveCountExact, OneMapWriter, OverlapOnlyLate, Construct,
                histVars
  <1>4. WalkExact'
    BY Zenon DEF WalkExact, WalkServed, Subscribers, Construct, mapVars, histVars
  <1>5. KeysAlive' /\ CallsWellFormed'
    BY DEF KeysAlive, CallsWellFormed, Construct, TypeOK, mapVars, histVars
  <1> QED BY Zenon, <1>1, <1>3, <1>4, <1>5

\* Moves of a thread that is not broadcasting and changes neither the map nor
\* the histories: the two calls, taking the map lock and leaving the spin loop.
LEMMA WalksUndisturbed ==
  ASSUME RouterInv, NEW r \in Receivers, pc[r] # "iterating",
         NEW to \in PCs \ {"iterating"}, pc' = [pc EXCEPT ![r] = to],
         NEW a, arg' = [arg EXCEPT ![r] = a],
         UNCHANGED <<mapVars, mActiveBroadcasts, cursor, histVars>>
  PROVE  ActiveCountExact' /\ WalkExact'
  <1> USE DEF RouterInv
  <1>1. Broadcasting' = Broadcasting
    BY Zenon DEF Broadcasting, TypeOK
  <1>2. ActiveCountExact'
    BY Zenon, <1>1 DEF ActiveCountExact
  <1>3. WalkExact'
    <2> SUFFICES ASSUME NEW b \in Receivers,
                        pc'[b] = "iterating", ~overlapped'[b]
                 PROVE  WalkServed(b)'
      BY Zenon DEF WalkExact
    <2>1. b # r /\ WalkServed(b)
      BY Zenon DEF WalkExact, TypeOK, histVars
    <2> QED BY Zenon, <2>1 DEF WalkServed, Subscribers, TypeOK, mapVars, histVars
  <1> QED BY Zenon, <1>2, <1>3

\* Calling registerReceiver.
LEMMA CallRegisterKeepsInv ==
  ASSUME RouterInv, NEW r \in Receivers, NEW F \in FilterLists, CallRegister(r, F)
  PROVE  RouterInv'
  <1> USE DEF RouterInv
  <1>1. TypeOK'
    BY Zenon, CallCounted DEF TypeOK, CallRegister, Goto, PCs, Calls, mapVars, histVars
  <1>2. ActiveCountExact' /\ WalkExact'
    <2>1. pc[r] # "iterating" /\ "locking" \in PCs \ {"iterating"}
      BY Zenon DEF CallRegister, Goto, PCs
    <2>2. arg' = [arg EXCEPT ![r] = Register(F)]
      BY Zenon DEF CallRegister, TypeOK
    <2>3. pc' = [pc EXCEPT ![r] = "locking"]
      BY Zenon DEF CallRegister, Goto
    <2> QED BY Zenon, <2>1, <2>2, <2>3, WalksUndisturbed DEF CallRegister
  <1>3. OneMapWriter'
    BY Zenon, Pointers DEF OneMapWriter, CallRegister, Goto, TypeOK
  <1>4. OverlapOnlyLate'
    BY Zenon DEF OverlapOnlyLate, CallRegister, Goto, TypeOK, histVars
  <1>5. KeysAlive' /\ CallsWellFormed'
    BY Zenon DEF KeysAlive, CallsWellFormed, CallRegister, Goto, TypeOK, mapVars, histVars
  <1> QED BY Zenon, <1>1, <1>2, <1>3, <1>4, <1>5

\* Calling unregisterReceiver.
LEMMA CallUnregisterKeepsInv ==
  ASSUME RouterInv, NEW r \in Receivers, CallUnregister(r)
  PROVE  RouterInv'
  <1> USE DEF RouterInv
  <1>1. TypeOK'
    BY Zenon DEF TypeOK, CallUnregister, Goto, PCs, Calls, mapVars, histVars
  <1>2. ActiveCountExact' /\ WalkExact'
    <2>1. pc[r] # "iterating" /\ "locking" \in PCs \ {"iterating"}
      BY Zenon DEF CallUnregister, Goto, PCs
    <2>2. arg' = [arg EXCEPT ![r] = Unregister]
      BY Zenon DEF CallUnregister, TypeOK
    <2>3. pc' = [pc EXCEPT ![r] = "locking"]
      BY Zenon DEF CallUnregister, Goto
    <2> QED BY Zenon, <2>1, <2>2, <2>3, WalksUndisturbed DEF CallUnregister
  <1>3. OneMapWriter'
    BY Zenon, Pointers DEF OneMapWriter, CallUnregister, Goto, TypeOK
  <1>4. OverlapOnlyLate'
    BY Zenon DEF OverlapOnlyLate, CallUnregister, Goto, TypeOK, histVars
  <1>5. KeysAlive' /\ CallsWellFormed'
    BY Zenon DEF KeysAlive, CallsWellFormed, CallUnregister, Goto, TypeOK, mapVars, histVars
  <1> QED BY Zenon, <1>1, <1>2, <1>3, <1>4, <1>5

\* Taking the map lock.
LEMMA LockMapKeepsInv ==
  ASSUME RouterInv, NEW r \in Receivers, LockMap(r)
  PROVE  RouterInv'
  <1> USE DEF RouterInv
  <1>1. TypeOK'
    BY Zenon DEF TypeOK, LockMap, Goto, PCs, Calls, mapVars, histVars
  <1>2. ActiveCountExact' /\ WalkExact'
    <2>1. pc[r] # "iterating" /\ "spinning" \in PCs \ {"iterating"}
      BY Zenon DEF LockMap, Goto, PCs
    <2>2. arg' = [arg EXCEPT ![r] = arg[r]]
      BY Zenon DEF LockMap, TypeOK
    <2>3. pc' = [pc EXCEPT ![r] = "spinning"]
      BY Zenon DEF LockMap, Goto
    <2> QED BY Zenon, <2>1, <2>2, <2>3, WalksUndisturbed DEF LockMap
  <1>3. OneMapWriter'
    BY Zenon, Pointers DEF OneMapWriter, LockMap, MapLockFree, Goto, TypeOK
  <1>4. OverlapOnlyLate'
    BY Zenon DEF OverlapOnlyLate, LockMap, Goto, TypeOK, histVars
  <1>5. KeysAlive' /\ CallsWellFormed'
    BY ZenonT(30) DEF KeysAlive, CallsWellFormed, LockMap, Goto, TypeOK, mapVars, histVars
  <1> QED BY <1>1, <1>2, <1>3, <1>4, <1>5

\* Leaving the spin loop: the zero count rules out every running broadcast.
LEMMA DrainedKeepsInv ==
  ASSUME RouterInv, NEW r \in Receivers, Drained(r)
  PROVE  RouterInv'
  <1> USE DEF RouterInv
  <1>1. TypeOK'
    BY Zenon DEF TypeOK, Drained, Goto, PCs, Calls, mapVars, histVars
  <1>2. ActiveCountExact' /\ WalkExact'
    <2>1. pc[r] # "iterating" /\ "writing" \in PCs \ {"iterating"}
      BY Zenon DEF Drained, Goto, PCs
    <2>2. arg' = [arg EXCEPT ![r] = arg[r]]
      BY Zenon DEF Drained, TypeOK
    <2>3. pc' = [pc EXCEPT ![r] = "writing"]
      BY Zenon DEF Drained, Goto
    <2> QED BY Zenon, <2>1, <2>2, <2>3, WalksUndisturbed DEF Drained
  <1>3. OneMapWriter'
    BY Zenon, Pointers DEF OneMapWriter, Drained, Goto, TypeOK
  <1>4. OverlapOnlyLate'
    BY Zenon, ZeroCountMeansNoBroadcast DEF OverlapOnlyLate, Drained, Goto, TypeOK, histVars
  <1>5. KeysAlive' /\ CallsWellFormed'
    BY ZenonT(30) DEF KeysAlive, CallsWellFormed, Drained, Goto, TypeOK, mapVars, histVars
  <1> QED BY <1>1, <1>2, <1>3, <1>4, <1>5

\* One turn of the loop serves the next subscriber and skips none.
LEMMA VisitKeepsInv ==
  ASSUME RouterInv, NEW r \in Receivers, Visit(r)
  PROVE  RouterInv'
  <1> USE DEF RouterInv
  <1>1. PICK k \in Successors(r) :
          /\ cursor' = [cursor EXCEPT ![r] = k]
          /\ delivered' =
               IF k \in {r, End} THEN delivered
               ELSE [delivered EXCEPT
                       ![r][k] = @ + Deliveries(filters[k], arg[r])]
    BY Zenon DEF Visit
  <1>2. k \in keys \cup {End} /\ k \in Nat /\ k \in 0..End
    BY Zenon, Pointers DEF Successors, TypeOK
  <1>3. Deliveries(filters[k], arg[r]) \in {0, 1}
    BY Zenon DEF Deliveries
  <1>4. TypeOK'
    <2>1. cursor' \in [Receivers -> 0..End]
      BY Zenon, <1>1, <1>2 DEF TypeOK
    <2>2. delivered' \in [Receivers -> [Receivers -> Nat]]
      <3>1. CASE k \in {r, End}
        BY Zenon, <1>1, <3>1 DEF TypeOK
      <3>2. CASE k \notin {r, End}
        <4>1. k \in Receivers
          BY Zenon, <1>2, <3>2 DEF TypeOK
        <4>2. delivered[r][k] + Deliveries(filters[k], arg[r]) \in Nat
          BY <1>3, <4>1 DEF TypeOK
        <4> QED BY Zenon, <1>1, <3>2, <4>1, <4>2 DEF TypeOK
      <3> QED BY Zenon, <3>1, <3>2
    <2>3. torn' \in [Receivers -> BOOLEAN]
      BY Zenon DEF TypeOK, Visit
    <2> QED BY Zenon, <2>1, <2>2, <2>3 DEF TypeOK, Visit, mapVars
  <1>5. ActiveCountExact' /\ OneMapWriter' /\ OverlapOnlyLate' /\ KeysAlive'
    <2>1. Broadcasting' = Broadcasting
      BY Zenon DEF Broadcasting, Visit
    <2> QED BY Zenon, <2>1 DEF ActiveCountExact, OneMapWriter, OverlapOnlyLate,
                        KeysAlive, Visit, mapVars
  <1>6. CallsWellFormed'
    <2> SUFFICES ASSUME NEW b \in Receivers, b # r
                 PROVE  delivered'[b] = delivered[b] /\ torn'[b] = torn[b]
      BY DEF CallsWellFormed, Visit, TypeOK
    <2> QED BY Zenon, <1>1 DEF Visit, TypeOK
  <1>7. WalkExact'
    <2> SUFFICES ASSUME NEW b \in Receivers,
                        pc'[b] = "iterating", ~overlapped'[b]
                 PROVE  WalkServed(b)'
      BY Zenon DEF WalkExact
    <2>1. WalkServed(b)
      BY Zenon DEF WalkExact, Visit
    <2>2. CASE b # r
      BY SMTT(30), <1>1, <2>1, <2>2
         DEF WalkServed, Subscribers, Visit, TypeOK, mapVars
    <2>3. CASE b = r
      <3>1. /\ k > cursor[r]
            /\ \A j \in keys : j > cursor[r] => k <= j
        BY Zenon, <2>1, <2>3 DEF WalkServed, Successors
      <3>2. /\ cursor'[r] = k
            /\ (expected[r] = Subscribers(arg[r]) \ {r})'
            /\ expected'[r] = expected[r] /\ ~torn'[r] /\ keys' = keys
        BY SMTT(30), <1>1, <2>1, <2>3 DEF WalkServed, Subscribers, Visit, TypeOK, mapVars
      <3>3. ASSUME NEW j \in Receivers
            PROVE  delivered'[r][j] = IF j \in expected[r] /\ j <= k THEN 1 ELSE 0
        <4>1. j \in Nat /\ cursor[r] \in Nat
          BY Pointers DEF TypeOK
        <4>2. delivered[r][j] =
                IF j \in expected[r] /\ j <= cursor[r] THEN 1 ELSE 0
          BY Zenon, <2>1, <2>3 DEF WalkServed
        <4>3. j \in expected[r] => j \in keys /\ j # r
          BY Zenon, <2>1, <2>3 DEF WalkServed, Subscribers
        <4>4. CASE j # k \/ k = r
          <5>1. delivered'[r][j] = delivered[r][j]
            BY Zenon, <1>1, <4>4 DEF TypeOK
          <5> QED BY SMTT(30), <1>2, <3>1, <4>1, <4>2, <4>3, <4>4, <5>1
        <4>5. CASE j = k /\ k # r
          <5>1. k # End /\ k \in keys
            BY SMTT(30), <1>2, <4>5, Pointers
          <5>2. delivered'[r][j] = delivered[r][j] + Deliveries(filters[k], arg[r])
            BY SMTT(30), <1>1, <4>5, <5>1 DEF TypeOK
          <5>3. Deliveries(filters[k], arg[r]) = IF k \in expected[r] THEN 1 ELSE 0
            BY Zenon, <2>1, <2>3, <4>5, <5>1 DEF WalkServed, Subscribers, Deliveries
          <5>4. delivered[r][j] = 0
            BY <1>2, <3>1, <4>1, <4>2, <4>5
          <5> QED BY SMTT(30), <1>2, <4>5, <5>2, <5>3, <5>4
        <4> QED BY Zenon, <4>4, <4>5
      <3> QED BY Zenon, <1>2, <2>3, <3>2, <3>3 DEF WalkServed
    <2> QED BY Zenon, <2>2, <2>3
  <1> QED BY Zenon, <1>4, <1>5, <1>6, <1>7

\* A fault ends the process and changes nothing else.
LEMMA FaultKeepsInv ==
  ASSUME RouterInv, NEW r \in Receivers, Fault(r)
  PROVE  RouterInv'
  <1> USE DEF RouterInv
  <1>1. TypeOK'
    BY Zenon DEF TypeOK, Fault, mapVars, histVars
  <1>2. Broadcasting' = Broadcasting
    BY Zenon DEF Broadcasting, Fault
  <1>3. ActiveCountExact' /\ OneMapWriter' /\ OverlapOnlyLate' /\ KeysAlive'
    BY Zenon, <1>2 DEF ActiveCountExact, OneMapWriter, OverlapOnlyLate, KeysAlive,
                Fault, mapVars, histVars
  <1>4. WalkExact' /\ CallsWellFormed'
    BY DEF WalkExact, WalkServed, Subscribers, CallsWellFormed, Fault, mapVars,
           histVars
  <1> QED BY Zenon, <1>1, <1>3, <1>4

\* Leaving broadcastMessage.
LEMMA LeaveKeepsInv ==
  ASSUME RouterInv, NEW r \in Receivers, LeaveBroadcast(r)
  PROVE  RouterInv'
  <1> USE DEF RouterInv
  <1>1. ActiveCountExact' /\ mActiveBroadcasts' \in Nat
    <2>1. Broadcasting' = Broadcasting \ {r} /\ r \in Broadcasting
      BY Zenon DEF Broadcasting, LeaveBroadcast, Goto, TypeOK
    <2>2. IsFiniteSet(Broadcasting) /\ IsFiniteSet(Broadcasting')
      BY Zenon, <2>1, FiniteReceivers DEF Broadcasting
    <2>3. Cardinality(Broadcasting') = Cardinality(Broadcasting) - 1
      BY Zenon, <2>1, <2>2, FS_RemoveElement
    <2>4. Cardinality(Broadcasting') \in Nat
      BY Zenon, <2>2, FS_CardinalityType
    <2> QED BY Zenon, <2>3, <2>4 DEF ActiveCountExact, LeaveBroadcast, Lowered
  <1>2. TypeOK'
    BY Zenon, <1>1 DEF TypeOK, LeaveBroadcast, Goto, PCs, Calls, mapVars
  <1>3. OneMapWriter' /\ OverlapOnlyLate' /\ KeysAlive'
    BY Zenon DEF OneMapWriter, OverlapOnlyLate, KeysAlive, LeaveBroadcast, Goto,
           TypeOK, mapVars
  <1>4. CallsWellFormed'
    BY Zenon DEF CallsWellFormed, LeaveBroadcast, Goto, TypeOK
  <1>5. WalkExact'
    <2> SUFFICES ASSUME NEW b \in Receivers,
                        pc'[b] = "iterating", ~overlapped'[b]
                 PROVE  WalkServed(b)'
      BY Zenon DEF WalkExact
    <2>1. b # r
      BY Zenon DEF LeaveBroadcast, Goto, TypeOK
    <2>2. WalkServed(b)
      BY Zenon, <2>1 DEF WalkExact, LeaveBroadcast, Goto, TypeOK
    <2> QED BY Zenon, <2>1, <2>2
          DEF WalkServed, Subscribers, LeaveBroadcast, TypeOK, mapVars
  <1> QED BY Zenon, <1>1, <1>2, <1>3, <1>4, <1>5

\* Writing the map entry of a registered receiver.
LEMMA WriteRegisterKeepsInv ==
  ASSUME RouterInv, NEW r \in Receivers, WriteRegister(r)
  PROVE  RouterInv'
  <1> USE DEF RouterInv
  <1>1. PICK F \in FilterLists : arg[r] = Register(F)
    BY Zenon DEF CallsWellFormed, WriteRegister, Goto
  <1>2. arg[r].filters \in FilterLists
    BY <1>1 DEF Register
  <1>3. TypeOK'
    BY Zenon, <1>2 DEF TypeOK, WriteRegister, MarkOverlaps, Goto, PCs, Calls
  <1>4. ActiveCountExact'
    <2>1. Broadcasting' = Broadcasting
      BY Zenon DEF Broadcasting, WriteRegister, Goto, TypeOK
    <2> QED BY Zenon, <2>1 DEF ActiveCountExact, WriteRegister
  <1>5. OneMapWriter'
    BY Zenon, Pointers DEF OneMapWriter, WriteRegister, Goto, TypeOK
  <1>6. OverlapOnlyLate'
    BY Zenon DEF OverlapOnlyLate, WriteRegister, Goto, TypeOK
  <1>7. KeysAlive'
    BY Zenon DEF KeysAlive, CallsWellFormed, WriteRegister, Goto, TypeOK
  <1>8. CallsWellFormed'
    BY Zenon DEF CallsWellFormed, WriteRegister, MarkOverlaps, Goto, TypeOK
  <1>9. WalkExact'
    BY Zenon DEF WalkExact, WriteRegister, MarkOverlaps, Goto, TypeOK
  <1> QED BY Zenon, <1>3, <1>4, <1>5, <1>6, <1>7, <1>8, <1>9

\* Erasing the map entry of a destroyed receiver.
LEMMA WriteUnregisterKeepsInv ==
  ASSUME RouterInv, NEW r \in Receivers, WriteUnregister(r)
  PROVE  RouterInv'
  <1> USE DEF RouterInv
  <1>1. TypeOK'
    BY ZenonT(30), RouterAssumption
       DEF TypeOK, WriteUnregister, MarkOverlaps, Erased, Goto, PCs, Calls
  <1>2. ActiveCountExact'
    <2>1. Broadcasting' = Broadcasting
      BY Zenon DEF Broadcasting, WriteUnregister, Goto, TypeOK
    <2> QED BY Zenon, <2>1 DEF ActiveCountExact, WriteUnregister
  <1>3. OneMapWriter'
    BY Zenon, Pointers DEF OneMapWriter, WriteUnregister, Goto, TypeOK
  <1>4. OverlapOnlyLate'
    BY Zenon DEF OverlapOnlyLate, WriteUnregister, Goto, TypeOK
  <1>5. KeysAlive'
    BY Zenon DEF KeysAlive, WriteUnregister, Erased, TypeOK
  <1>6. CallsWellFormed'
    BY DEF CallsWellFormed, WriteUnregister, MarkOverlaps, Goto, TypeOK
  <1>7. WalkExact'
    <2>1. CASE r \in keys
      BY ZenonT(30), <2>1 DEF WalkExact, WriteUnregister, MarkOverlaps, Goto, TypeOK
    <2>2. CASE r \notin keys
      <3> SUFFICES ASSUME NEW b \in Receivers,
                          pc'[b] = "iterating", ~overlapped'[b]
                   PROVE  WalkServed(b)'
        BY DEF WalkExact
      <3>1. b # r /\ WalkServed(b)
        BY Zenon, <2>2 DEF WalkExact, WriteUnregister, Goto, TypeOK
      <3>2. keys' = keys /\ \A k \in keys : filters'[k] = filters[k]
        BY SMTT(30), <2>2 DEF WriteUnregister, Erased, TypeOK
      <3>3. arg'[b] = arg[b]
        BY Zenon, <3>1 DEF WriteUnregister, TypeOK
      <3>4. Subscribers(arg[b])' = Subscribers(arg[b])
        BY Zenon, <3>2, <3>3 DEF Subscribers
      <3> QED BY Zenon, <2>2, <3>1, <3>2, <3>4 DEF WalkServed, WriteUnregister
    <2> QED BY Zenon, <2>1, <2>2
  <1> QED BY Zenon, <1>1, <1>2, <1>3, <1>4, <1>5, <1>6, <1>7

\* Every step keeps the inductive invariant.
LEMMA RouterStep == RouterInv /\ [Next]_vars => RouterInv'
  <1> SUFFICES ASSUME RouterInv, [Next]_vars PROVE RouterInv'
    BY SMTT(30)
  <1>1. CASE UNCHANGED vars
    <2>1. Broadcasting' = Broadcasting
      BY Zenon, <1>1 DEF vars, Broadcasting
    <2> QED BY SMTT(30), <1>1, <2>1
          DEF RouterInv, TypeOK, ActiveCountExact, OneMapWriter,
              OverlapOnlyLate, WalkExact, WalkServed, Subscribers, KeysAlive,
              CallsWellFormed, vars
  <1>2. CASE Next
    <2>1. PICK r \in Receivers : Call(r) \/ Continue(r)
      BY Zenon, <1>2 DEF Next
    <2>2. CASE Call(r)
      BY Zenon, <2>2, ConstructKeepsInv, EnterKeepsInv, CallRegisterKeepsInv,
         CallUnregisterKeepsInv DEF Call
    <2>3. CASE Continue(r)
      BY Zenon, <2>3, VisitKeepsInv, FaultKeepsInv, LeaveKeepsInv, LockMapKeepsInv,
         DrainedKeepsInv, WriteRegisterKeepsInv, WriteUnregisterKeepsInv
         DEF Continue
    <2> QED BY Zenon, <2>1, <2>2, <2>3
  <1> QED BY Zenon, <1>1, <1>2

\* The router keeps its inductive invariant: in particular the broadcast count
\* is exact and a map writer only ever meets broadcasts that entered after it
\* saw the count at zero.
THEOREM RouterCorrect == Spec => []RouterInv
  BY RouterInit, RouterStep, PTL DEF Spec

\* A map writer never disturbs a broadcast that was running when the writer
\* looked at mActiveBroadcasts.
THEOREM WritersSpareRunningBroadcasts == Spec => []OverlapOnlyLate
  <1>1. RouterInv => OverlapOnlyLate
    BY SMTT(30) DEF RouterInv
  <1> QED BY <1>1, RouterCorrect, PTL

\* broadcastMessage calls receiveMessage exactly once for every receiver with a
\* matching filter, and for no other, when the map is not written meanwhile.
THEOREM BroadcastDeliversExactly == Spec => []ExactDelivery
  <1>1. RouterInv => ExactDelivery
    <2> SUFFICES ASSUME RouterInv, NEW r \in Receivers, pc[r] = "iterating",
                        cursor[r] = End, ~overlapped[r], NEW k \in Receivers
                 PROVE  delivered[r][k] = IF k \in expected[r] THEN 1 ELSE 0
      BY Zenon DEF ExactDelivery
    <2>1. k <= End
      BY Pointers
    <2> QED BY Zenon, <2>1 DEF RouterInv, WalkExact, WalkServed
  <1> QED BY <1>1, RouterCorrect, PTL

\* A broadcast never stands inside a destroyed receiver when the map is not
\* written meanwhile.
THEOREM BroadcastReachesLiveReceivers == Spec => []LiveDispatch
  <1>1. RouterInv => LiveDispatch
    BY Pointers DEF RouterInv, LiveDispatch, WalkExact, WalkServed, KeysAlive
  <1> QED BY <1>1, RouterCorrect, PTL

\* mActiveBroadcasts counts exactly the broadcasts between their increment and their
\* decrement, also when one leaves by an exception.
THEOREM BroadcastCountIsExact == Spec => []ActiveCountExact
  <1>1. RouterInv => ActiveCountExact
    BY Zenon DEF RouterInv
  <1> QED BY <1>1, RouterCorrect, PTL

\* At most one thread writes the receiver map.
THEOREM MapHasOneWriter == Spec => []OneMapWriter
  <1>1. RouterInv => OneMapWriter
    BY Zenon DEF RouterInv
  <1> QED BY <1>1, RouterCorrect, PTL

\* The variables of the router keep their types.
THEOREM RouterTypes == Spec => []TypeOK
  <1>1. RouterInv => TypeOK
    BY Zenon DEF RouterInv
  <1> QED BY <1>1, RouterCorrect, PTL
=============================================================================
