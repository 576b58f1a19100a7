-------------------------- MODULE RoundRobinProofs --------------------------
(***************************************************************************)
(* The loop of allocateInventory keeps the contract FairShare, for every   *)
(* ring of stores, every number of tiers and demands and every bound:      *)
(* stock goes to the tiers in order and to the stores of a tier evenly,    *)
(* and is used up when anybody wants it.  AllocationPipeline uses the      *)
(* contract in place of the loop.  Over the runs the persisted cursor      *)
(* comes round to every store that asks in the first tier.                 *)
(*                                                                         *)
(* RoundRobinAssumption is a hypothesis of every lemma and theorem, since  *)
(* the module is instantiated several times.                               *)
(***************************************************************************)
EXTENDS RoundRobin, QuantitySumsProofs

-----------------------------------------------------------------------------
\* The ring of a run

\* Every store stands at one position of the list.
LEMMA ListPositions ==
    ASSUME RoundRobinAssumption
    PROVE  /\ Len(StoreList) \in Nat /\ Len(StoreList) > 0
           /\ \A s \in Store : /\ IndexIn(StoreList, s) \in 1 .. Len(StoreList)
                               /\ StoreList[IndexIn(StoreList, s)] = s
           /\ IsFiniteSet(Store) /\ Cardinality(Store) <= Len(StoreList)
<1> DEFINE n == Len(StoreList)
<1>1. n \in Nat /\ n > 0 /\ DOMAIN StoreList = 1 .. n /\ StoreList \in [1 .. n -> Store]
  BY DEF RoundRobinAssumption
<1>2. ASSUME NEW s \in Store
      PROVE  /\ IndexIn(StoreList, s) \in 1 .. n
             /\ StoreList[IndexIn(StoreList, s)] = s
  <2>1. \E i \in DOMAIN StoreList : StoreList[i] = s
    BY DEF Store
  <2> QED BY <1>1, <2>1 DEF IndexIn
<1>3. StoreList \in Surjection(1 .. n, Store)
  BY <1>1, <1>2 DEF Surjection
<1>4. IsFiniteSet(1 .. n) /\ Cardinality(1 .. n) = n
  BY <1>1, FS_Interval
<1> HIDE DEF n
<1>5. IsFiniteSet(Store) /\ Cardinality(Store) <= Cardinality(1 .. n)
  BY <1>3, <1>4, FS_Surjection
<1> QED BY <1>1, <1>2, <1>4, <1>5 DEF n

\* The places number the active stores from 1 on, none twice.
LEMMA PlacesNumber ==
    ASSUME RoundRobinAssumption, active \subseteq Store
    PROVE  /\ Cardinality(active) \in Nat
           /\ Cardinality(active) <= Len(StoreList)
           /\ \A s \in active : Place(s) \in 1 .. Cardinality(active)
           /\ \A r, s \in active : Place(r) = Place(s) => r = s
           /\ \A i \in 1 .. Cardinality(active) : \E s \in active : Place(s) = i
           /\ \A r, s \in active :
                 IndexIn(StoreList, r) < IndexIn(StoreList, s) => Place(r) < Place(s)
<1> DEFINE n == Cardinality(active)
           Upto(s) == {r \in active : IndexIn(StoreList, r) <= IndexIn(StoreList, s)}
           place == [s \in active |-> Place(s)]
<1>1. IsFiniteSet(active) /\ n \in Nat /\ n <= Len(StoreList)
  <2>1. IsFiniteSet(active) /\ Cardinality(active) <= Cardinality(Store)
    BY ListPositions, FS_Subset
  <2>2. Cardinality(active) \in Nat /\ Cardinality(Store) \in Nat
    BY <2>1, ListPositions, FS_CardinalityType
  <2> QED BY <2>1, <2>2, ListPositions
<1>2. ASSUME NEW s \in active
      PROVE  /\ IsFiniteSet(Upto(s)) /\ Place(s) = Cardinality(Upto(s))
             /\ s \in Upto(s) /\ Place(s) \in 1 .. n
  <2>1. Upto(s) \in SUBSET active /\ s \in Upto(s)
    BY ListPositions
  <2>2. IsFiniteSet(Upto(s)) /\ Cardinality(Upto(s)) <= n
    BY <1>1, <2>1, FS_Subset
  <2>3. Cardinality(Upto(s)) \in Nat /\ Cardinality(Upto(s)) # 0
    BY <2>1, <2>2, FS_CardinalityType, FS_EmptySet
  <2> QED BY <1>1, <2>1, <2>2, <2>3 DEF Place
<1>3. ASSUME NEW r \in active, NEW s \in active,
             IndexIn(StoreList, r) < IndexIn(StoreList, s)
      PROVE  Place(r) < Place(s)
  <2>1. Upto(r) \in SUBSET (Upto(s) \ {s})
    BY <1>3, ListPositions
  <2>2. /\ IsFiniteSet(Upto(s) \ {s})
        /\ Cardinality(Upto(s) \ {s}) = Cardinality(Upto(s)) - 1
    BY <1>2, FS_RemoveElement
  <2>3. Cardinality(Upto(r)) <= Cardinality(Upto(s)) - 1
    BY <2>1, <2>2, FS_Subset
  <2> HIDE DEF Upto, n
  <2> QED BY <1>1, <1>2, <2>3
<1>4. \A r, s \in active : Place(r) = Place(s) => r = s
  <2> SUFFICES ASSUME NEW r \in active, NEW s \in active, Place(r) = Place(s)
               PROVE  r = s
    OBVIOUS
  <2> HIDE DEF n, Upto
  <2>0. Place(r) \in 1 .. n /\ Place(s) \in 1 .. n
    BY <1>2
  <2>1. Place(r) \in Nat /\ Place(s) \in Nat
    BY <2>0
  <2>2. /\ IndexIn(StoreList, r) \in Nat /\ IndexIn(StoreList, s) \in Nat
        /\ StoreList[IndexIn(StoreList, r)] = r
        /\ StoreList[IndexIn(StoreList, s)] = s
    BY ListPositions
  <2>3. ~(IndexIn(StoreList, r) < IndexIn(StoreList, s))
    BY <1>3, <2>1
  <2>4. ~(IndexIn(StoreList, s) < IndexIn(StoreList, r))
    BY <1>3, <2>1
  <2> QED BY <2>2, <2>3, <2>4
<1>5. place \in Injection(active, 1 .. n)
  BY <1>2, <1>4 DEF Injection, IsInjective
<1>6. IsFiniteSet(1 .. n) /\ Cardinality(1 .. n) = n
  BY <1>1, FS_Interval
<1>7. place \in Surjection(active, 1 .. n)
  <2> HIDE DEF place
  <2> QED BY <1>5, <1>6, FS_Injection
<1>8. \A i \in 1 .. n : \E s \in active : Place(s) = i
  BY <1>7 DEF Surjection
<1> QED BY <1>1, <1>2, <1>3, <1>4, <1>8

\* The ring of a run lists every active store once (loadStoreOrder).
LEMMA RingListsActive ==
    ASSUME RoundRobinAssumption, active \subseteq Store
    PROVE  /\ StoreOrder \in Seq(Store)
           /\ Len(StoreOrder) <= Len(StoreList)
           /\ DOMAIN StoreOrder = 1 .. Len(StoreOrder)
           /\ \A i, j \in 1 .. Len(StoreOrder) : StoreOrder[i] = StoreOrder[j] => i = j
           /\ \A s \in active : \E i \in 1 .. Len(StoreOrder) : StoreOrder[i] = s
<1> DEFINE n == Cardinality(active)
<1>1. n \in Nat /\ n <= Len(StoreList)
  BY PlacesNumber
<1>2. ASSUME NEW i \in 1 .. n
      PROVE  StoreOrder[i] \in active /\ Place(StoreOrder[i]) = i
  <2>1. \E s \in active : Place(s) = i
    BY PlacesNumber
  <2> QED BY <2>1 DEF StoreOrder
<1>3. StoreOrder \in [1 .. n -> Store]
  <2>1. DOMAIN StoreOrder = 1 .. n /\ StoreOrder = [i \in 1 .. n |-> StoreOrder[i]]
    BY DEF StoreOrder
  <2> QED BY <1>2, <2>1
<1>4. StoreOrder \in Seq(Store) /\ Len(StoreOrder) = n
  BY <1>1, <1>3
<1>5. ASSUME NEW s \in active
      PROVE  \E i \in 1 .. n : StoreOrder[i] = s
  <2>1. Place(s) \in 1 .. n
    BY PlacesNumber
  <2>2. StoreOrder[Place(s)] \in active /\ Place(StoreOrder[Place(s)]) = Place(s)
    BY <1>2, <2>1
  <2> QED BY <2>1, <2>2, PlacesNumber
<1> QED BY <1>1, <1>2, <1>3, <1>4, <1>5

-----------------------------------------------------------------------------
\* Types

\* How the locals of a run belong together: the ring lists the stores with a
\* demand, the cursor is on it, and nothing is granted that was not asked for.
RingInv ==
    /\ Len(ring) <= Len(StoreList)
    /\ \A i, j \in 1 .. Len(ring) : ring[i] = ring[j] => i = j
    /\ Len(ring) > 0 => at \in 1 .. Len(ring)
    /\ pc = "round" => roundStart \in 1 .. Len(ring) /\ tier \in Tier
    /\ pc = "done" => tier = LastTier + 1
    /\ grants <= offset
    /\ \A d \in Demand : left[d] <= requested[d]
    /\ \A d \in Demand : requested[d] > 0 => \E i \in 1 .. Len(ring) : ring[i] = d[1][2]

\* The types without the flag, which the solvers treat apart.
Numbers ==
    /\ active \subseteq Store
    /\ cursor \in Store \cup {NoStore}
    /\ pc \in {"idle", "tier", "round", "done"}
    /\ requested \in [Demand -> 0 .. MaxDemand]
    /\ left \in [Demand -> 0 .. MaxDemand]
    /\ snapshot \in 0 .. MaxAvailable /\ available \in 0 .. MaxAvailable
    /\ ring \in Seq(Store) /\ at \in 1 .. Len(StoreList)
    /\ tier \in 1 .. LastTier + 1
    /\ roundStart \in 1 .. Len(StoreList)
    /\ offset \in 0 .. Len(ring) /\ grants \in 0 .. Len(ring)
    /\ passedOver \in [Store -> Nat]

\* A grant is made to a store of the ring.
Flagged == madeAnyGrant \in BOOLEAN /\ (madeAnyGrant => ring # <<>>)

Typed == Numbers /\ RingInv /\ Flagged

\* The constants are numbers.
LEMMA RoundRobinNumbers ==
    ASSUME RoundRobinAssumption
    PROVE  /\ LastTier \in Nat /\ LastTier > 0
           /\ DemandsPerStore \in Nat /\ DemandsPerStore > 0
           /\ MaxDemand \in Nat /\ MaxAvailable \in Nat
           /\ Len(StoreList) \in Nat /\ Len(StoreList) > 0
  BY DEF RoundRobinAssumption

\* Wrapping around the ring.
LEMMA Wrap ==
    ASSUME NEW n \in Nat, n > 0, NEW x \in Nat
    PROVE  /\ x % n \in 0 .. n - 1
           /\ x < n => x % n = x
           /\ n <= x /\ x < 2 * n => x % n = x - n
<1>1. x % n \in 0 .. n - 1
  OBVIOUS
<1>2. x < n => x % n = x
  OBVIOUS
<1>3. n <= x /\ x < 2 * n => x % n = x - n
  OBVIOUS
<1> QED BY <1>1, <1>2, <1>3

\* A turn of the round is a position of the ring.
LEMMA TurnOnRing ==
    ASSUME RoundRobinAssumption, Typed, InRound
    PROVE  /\ storeIndex \in 1 .. Len(ring) /\ (storeIndex % Len(ring)) + 1 \in 1 .. Len(ring)
           /\ ring[storeIndex] \in Store /\ tier \in Tier /\ group \in Group
<1>1. /\ Len(ring) \in Nat /\ Len(ring) > 0 /\ roundStart \in 1 .. Len(ring)
      /\ offset \in Nat /\ tier \in Tier /\ ring \in Seq(Store)
  BY DEF Typed, Numbers, RingInv, InRound
<1>2. (roundStart - 1 + offset) % Len(ring) \in 0 .. Len(ring) - 1
  BY <1>1, Wrap
<1>3. storeIndex \in 1 .. Len(ring)
  BY <1>1, <1>2 DEF storeIndex
<1>4. storeIndex % Len(ring) \in 0 .. Len(ring) - 1
  BY <1>1, <1>3, Wrap
<1>5. ring[storeIndex] \in Store
  BY <1>1, <1>3
<1> QED BY <1>1, <1>3, <1>4, <1>5 DEF group, Group

LEMMA InitTyped ==
    ASSUME RoundRobinAssumption, Init
    PROVE  Typed
<1>1. NoDemand \in [Demand -> 0 .. MaxDemand] /\ \A d \in Demand : NoDemand[d] = 0
  BY RoundRobinNumbers DEF NoDemand
<1>2. <<>> \in Seq(Store) /\ Len(<<>>) = 0
  OBVIOUS
<1>3. Numbers
  BY <1>1, <1>2, RoundRobinNumbers DEF Init, Numbers
<1>4. RingInv
  BY <1>1, <1>2, RoundRobinNumbers DEF Init, RingInv
<1>5. Flagged
  BY Zenon DEF Init, Flagged
<1> QED BY <1>3, <1>4, <1>5 DEF Typed

LEMMA BeginRunTyped ==
    ASSUME RoundRobinAssumption, Typed,
           NEW wanted \in [Demand -> 0 .. MaxDemand], NEW quantity \in 0 .. MaxAvailable,
           BeginRun(wanted, quantity)
    PROVE  Typed'
<1>1. active \subseteq Store /\ Numbers
  BY DEF Typed, Numbers
<1>2. /\ StoreOrder \in Seq(Store) /\ Len(StoreOrder) <= Len(StoreList)
      /\ Len(StoreOrder) \in Nat
      /\ DOMAIN StoreOrder = 1 .. Len(StoreOrder)
      /\ \A i, j \in 1 .. Len(StoreOrder) : StoreOrder[i] = StoreOrder[j] => i = j
      /\ \A s \in active : \E i \in 1 .. Len(StoreOrder) : StoreOrder[i] = s
  BY <1>1, RingListsActive
<1>3. at' \in 1 .. Len(StoreList) /\ (Len(StoreOrder) > 0 => at' \in 1 .. Len(StoreOrder))
  <2>1. CASE cursor = NoStore
    BY <1>2, <2>1, RoundRobinNumbers DEF BeginRun
  <2>2. CASE cursor # NoStore
    <3>1. IndexIn(StoreOrder, cursor) \in 1 .. Len(StoreOrder)
      BY <1>2, <2>2 DEF BeginRun, IndexIn
    <3> QED BY <1>2, <2>2, <3>1, RoundRobinNumbers DEF BeginRun
  <2> QED BY <2>1, <2>2
<1>4. \A d \in Demand : wanted[d] \in Nat /\ wanted[d] <= wanted[d]
  BY RoundRobinNumbers
<1>5. Numbers'
  <2>1. /\ requested' = wanted /\ left' = wanted
        /\ snapshot' = quantity /\ available' = quantity
        /\ ring' = StoreOrder /\ tier' = 1 /\ roundStart' = 1 /\ offset' = 0 /\ grants' = 0
        /\ pc' = "tier" /\ UNCHANGED <<active, cursor, passedOver>>
    BY DEF BeginRun
  <2>2. /\ active' \subseteq Store /\ cursor' \in Store \cup {NoStore}
        /\ passedOver' \in [Store -> Nat]
    BY <1>1, <2>1 DEF Numbers
  <2>3. /\ 1 \in 1 .. LastTier + 1 /\ 1 \in 1 .. Len(StoreList)
        /\ 0 \in 0 .. Len(StoreOrder)
    BY <1>2, RoundRobinNumbers
  <2>4. /\ tier' \in 1 .. LastTier + 1 /\ roundStart' \in 1 .. Len(StoreList)
        /\ offset' \in 0 .. Len(ring)' /\ grants' \in 0 .. Len(ring)'
    BY <2>1, <2>3
  <2> HIDE <1>1
  <2> QED BY <1>2, <1>3, <2>1, <2>2, <2>4 DEF Numbers
<1>6. \A d \in Demand :
         wanted[d] > 0 => \E i \in 1 .. Len(StoreOrder) : StoreOrder[i] = d[1][2]
  BY <1>2 DEF BeginRun
<1>7. RingInv'
  BY <1>2, <1>3, <1>4, <1>6 DEF BeginRun, RingInv
<1>8. Flagged'
  BY Zenon DEF BeginRun, Flagged
<1> QED BY <1>5, <1>7, <1>8 DEF Typed

LEMMA GrantTyped ==
    ASSUME RoundRobinAssumption, Typed, Grant
    PROVE  Typed'
<1> DEFINE next == (storeIndex % Len(ring)) + 1
<1>1. /\ storeIndex \in 1 .. Len(ring) /\ next \in 1 .. Len(ring) /\ at' = next
      /\ ring[storeIndex] \in Store /\ tier \in Tier /\ group \in Group
  BY TurnOnRing DEF Grant
<1> HIDE DEF next
<1>2. PICK k \in 1 .. DemandsPerStore :
         IsNextDemand(k) /\ left' = [left EXCEPT ![<<group, k>>] = @ - 1]
  BY DEF Grant
<1>3. <<group, k>> \in Demand /\ left[<<group, k>>] > 0
  BY <1>1, <1>2 DEF Demand, IsNextDemand
<1>4. /\ left' \in [Demand -> 0 .. MaxDemand]
      /\ \A d \in Demand : left'[d] <= left[d]
  <2>1. MaxDemand \in Nat /\ left \in [Demand -> 0 .. MaxDemand]
    BY RoundRobinNumbers DEF Typed, Numbers
  <2>2. ASSUME NEW d \in Demand
        PROVE  left'[d] = (IF d = <<group, k>> THEN left[d] - 1 ELSE left[d])
    BY <1>2, <2>1
  <2>3. ASSUME NEW d \in Demand
        PROVE  left'[d] \in 0 .. MaxDemand /\ left'[d] <= left[d]
    <3>1. left[d] \in 0 .. MaxDemand
      BY <2>1
    <3> QED BY <1>3, <2>1, <2>2, <3>1
  <2>4. left' = [d \in Demand |-> left'[d]]
    BY <1>2, <2>1
  <2> QED BY <2>3, <2>4
<1>5. /\ Len(ring) \in Nat /\ Len(ring) <= Len(StoreList) /\ offset < Len(ring)
      /\ grants <= offset /\ offset \in Nat /\ grants \in Nat /\ available \in Nat
      /\ available > 0
  BY DEF Typed, Numbers, RingInv, Grant, InRound
<1>6. Numbers'
  <2>1. /\ available' = available - 1 /\ grants' = grants + 1 /\ offset' = offset + 1
        /\ UNCHANGED <<active, cursor, pc, requested, snapshot, ring, tier, roundStart, passedOver>>
    BY DEF Grant
  <2>2. Numbers
    BY DEF Typed
  <2>3. /\ available' \in 0 .. MaxAvailable /\ offset' \in 0 .. Len(ring)
        /\ grants' \in 0 .. Len(ring)
    <3>1. available \in 0 .. MaxAvailable /\ MaxAvailable \in Nat
      BY <2>2, RoundRobinNumbers DEF Numbers
    <3> QED BY <1>5, <2>1, <3>1
  <2>4. at' \in 1 .. Len(StoreList)
    BY <1>1, <1>5, RoundRobinNumbers
  <2> QED BY <1>4, <2>1, <2>2, <2>3, <2>4 DEF Numbers
<1>7. \A d \in Demand : left'[d] <= requested[d]
  <2> SUFFICES ASSUME NEW d \in Demand PROVE left'[d] <= requested[d]
    OBVIOUS
  <2>1. left'[d] \in 0 .. MaxDemand /\ left'[d] <= left[d]
    BY <1>4
  <2>2. left[d] <= requested[d]
    BY DEF Typed, RingInv
  <2>3. left[d] \in 0 .. MaxDemand /\ requested[d] \in 0 .. MaxDemand
    BY DEF Typed, Numbers
  <2> QED BY <2>1, <2>2, <2>3, RoundRobinNumbers
<1>8. RingInv'
  <2>1. /\ grants' = grants + 1 /\ offset' = offset + 1
        /\ UNCHANGED <<pc, requested, ring, tier, roundStart>>
    BY DEF Grant
  <2>2. RingInv
    BY DEF Typed
  <2> QED BY <1>1, <1>5, <1>7, <2>1, <2>2 DEF RingInv
<1>9. Flagged'
  <2>1. ring # <<>>
    BY <1>5
  <2> QED BY <2>1, Zenon DEF Grant, Flagged
<1> QED BY <1>6, <1>8, <1>9 DEF Typed

\* Every step of the program keeps the types and what the locals of a run
\* have to do with each other.
LEMMA NextTyped ==
    ASSUME RoundRobinAssumption, Typed, [Next]_vars
    PROVE  Typed'
<1>0. Numbers /\ RingInv /\ Flagged
  BY DEF Typed
<1>1. ASSUME NEW s \in Store, CloseStore(s) PROVE Typed'
  <2>1. Numbers'
    BY <1>0, <1>1 DEF CloseStore, run, Numbers
  <2>2. RingInv' /\ Flagged'
    BY <1>0, <1>1 DEF CloseStore, run, RingInv, Flagged
  <2> QED BY <2>1, <2>2 DEF Typed
<1>2. ASSUME NEW s \in Store, ReopenStore(s) PROVE Typed'
  <2>1. Numbers'
    BY <1>0, <1>2 DEF ReopenStore, run, Numbers
  <2>2. RingInv' /\ Flagged'
    BY <1>0, <1>2 DEF ReopenStore, run, RingInv, Flagged
  <2> QED BY <2>1, <2>2 DEF Typed
<1>3. CASE BeginRound
  <2>1. Numbers'
    <3>1. /\ pc' = "round" /\ roundStart' = at /\ offset' = 0 /\ grants' = 0
          /\ UNCHANGED <<active, cursor, requested, left, snapshot, available, ring, at,
                         tier, passedOver>>
      BY <1>3 DEF BeginRound
    <3>2. Len(ring) \in Nat
      BY <1>0 DEF Numbers
    <3>3. offset' \in 0 .. Len(ring) /\ grants' \in 0 .. Len(ring)
      BY <3>1, <3>2
    <3> QED BY <1>0, <3>1, <3>3 DEF Numbers
  <2>2. RingInv'
    BY <1>0, <1>3, RoundRobinNumbers DEF BeginRound, Numbers, RingInv
  <2>3. Flagged'
    BY <1>0, <1>3 DEF BeginRound, Flagged
  <2> QED BY <2>1, <2>2, <2>3 DEF Typed
<1>4. CASE NextTier
  <2>1. Numbers'
    <3>1. /\ tier \in 1 .. LastTier /\ tier' = tier + 1
          /\ UNCHANGED <<active, cursor, pc, requested, left, snapshot, available, ring, at,
                         roundStart, offset, grants, passedOver>>
      BY <1>4 DEF NextTier, Tier
    <3>2. tier' \in 1 .. LastTier + 1
      BY <3>1, RoundRobinNumbers
    <3> QED BY <1>0, <3>1, <3>2 DEF Numbers
  <2>2. RingInv'
    BY <1>0, <1>4 DEF NextTier, RingInv
  <2>3. Flagged'
    BY <1>0, <1>4 DEF NextTier, Flagged
  <2> QED BY <2>1, <2>2, <2>3 DEF Typed
<1>5. CASE Skip
  <2>1. Numbers'
    <3>1. /\ offset < Len(ring) /\ offset' = offset + 1
          /\ UNCHANGED <<active, cursor, pc, requested, left, snapshot, available, ring, at,
                         tier, roundStart, grants, passedOver>>
      BY <1>5 DEF Skip, InRound
    <3>2. offset \in 0 .. Len(ring) /\ Len(ring) \in Nat
      BY <1>0 DEF Numbers
    <3>3. offset' \in 0 .. Len(ring)
      BY <3>1, <3>2
    <3> QED BY <1>0, <3>1, <3>3 DEF Numbers
  <2>2. RingInv'
    BY <1>0, <1>5 DEF Skip, InRound, Numbers, RingInv
  <2>3. Flagged'
    BY <1>0, <1>5 DEF Skip, Flagged
  <2> QED BY <2>1, <2>2, <2>3 DEF Typed
<1>6. CASE EndRound
  <2>1. Numbers'
    BY <1>0, <1>6 DEF EndRound, run, Numbers
  <2>2. RingInv' /\ Flagged'
    BY <1>0, <1>6 DEF EndRound, run, RingInv, Flagged
  <2> QED BY <2>1, <2>2 DEF Typed
<1>7. CASE FinishRun
  <2>1. cursor' \in Store \cup {NoStore}
    <3>1. CASE madeAnyGrant
      <4>1. ring # <<>>
        BY <1>0, <3>1, Zenon DEF Flagged
      <4>2. cursor' = ring[at]
        BY <1>7, <3>1, Zenon DEF FinishRun, nextCursor
      <4>3. Len(ring) \in Nat /\ Len(ring) > 0 /\ ring \in Seq(Store)
        BY <1>0, <4>1 DEF Numbers
      <4>4. at \in 1 .. Len(ring)
        BY <1>0, <4>3 DEF RingInv
      <4> QED BY <4>2, <4>3, <4>4
    <3>2. CASE ~madeAnyGrant
      BY <1>0, <1>7, <3>2, Zenon DEF FinishRun, nextCursor, Numbers
    <3> QED BY <3>1, <3>2
  <2>2. passedOver' \in [Store -> Nat]
    <3>1. ASSUME NEW s \in Store
          PROVE  (IF PassedOver(s) THEN passedOver[s] + 1
                  ELSE IF madeAnyGrant THEN 0 ELSE passedOver[s]) \in Nat
      BY <1>0 DEF Numbers
    <3> QED BY <1>7, <3>1 DEF FinishRun
  <2>3. Numbers'
    <3>1. /\ pc' = "done"
          /\ UNCHANGED <<active, requested, left, snapshot, available, ring, at, tier,
                         roundStart, offset, grants>>
      BY <1>7 DEF FinishRun, run
    <3> QED BY <1>0, <2>1, <2>2, <3>1 DEF Numbers
  <2>4. RingInv' /\ Flagged'
    BY <1>0, <1>7 DEF FinishRun, run, RingInv, Flagged
  <2> QED BY <2>3, <2>4 DEF Typed
<1>8. CASE Return
  <2>1. NoDemand \in [Demand -> 0 .. MaxDemand] /\ \A d \in Demand : NoDemand[d] = 0
    BY RoundRobinNumbers DEF NoDemand
  <2>2. <<>> \in Seq(Store) /\ Len(<<>>) = 0
    OBVIOUS
  <2>3. Numbers'
    <3>1. /\ pc' = "idle" /\ requested' = NoDemand /\ left' = NoDemand
          /\ snapshot' = 0 /\ available' = 0 /\ ring' = <<>> /\ at' = 1 /\ tier' = 1
          /\ roundStart' = 1 /\ offset' = 0 /\ grants' = 0
          /\ UNCHANGED <<active, cursor, passedOver>>
      BY <1>8 DEF Return
    <3>2. /\ 0 \in 0 .. MaxAvailable /\ 1 \in 1 .. Len(StoreList)
          /\ 1 \in 1 .. LastTier + 1 /\ 0 \in 0 .. Len(<<>>)
      BY <2>2, RoundRobinNumbers
    <3>3. /\ ring' \in Seq(Store) /\ offset' \in 0 .. Len(ring') /\ grants' \in 0 .. Len(ring')
      BY <2>2, <3>1, <3>2
    <3>4. /\ active' \subseteq Store /\ cursor' \in Store \cup {NoStore}
          /\ passedOver' \in [Store -> Nat]
      BY <1>0, <3>1 DEF Numbers
    <3> HIDE <1>0
    <3> QED BY <2>1, <3>1, <3>2, <3>3, <3>4 DEF Numbers
  <2>4. RingInv'
    BY <1>8, <2>1, <2>2, RoundRobinNumbers DEF Return, RingInv
  <2>5. Flagged'
    BY <1>8, Zenon DEF Return, Flagged
  <2> QED BY <2>3, <2>4, <2>5 DEF Typed
<1>9. CASE UNCHANGED vars
  <2>1. Numbers' /\ RingInv' /\ Flagged'
    BY <1>0, <1>9 DEF vars, Numbers, RingInv, Flagged
  <2> QED BY <2>1 DEF Typed
<1> QED BY <1>1, <1>2, <1>3, <1>4, <1>5, <1>6, <1>7, <1>8, <1>9,
           BeginRunTyped, GrantTyped DEF Next, Compute

-----------------------------------------------------------------------------
\* The order among the demands of one store

LEMMA InitEarlier ==
    ASSUME Init
    PROVE  EarlierDemandFirst
  BY DEF Init, NoDemand, EarlierDemandFirst, Demand

\* A grant goes to the first demand of the group that still wants something, so
\* it neither opens an earlier one nor touches a later one.
LEMMA NextEarlier ==
    ASSUME RoundRobinAssumption, Typed, EarlierDemandFirst, [Next]_vars
    PROVE  EarlierDemandFirst'
<1>0. /\ left \in [Demand -> 0 .. MaxDemand] /\ requested \in [Demand -> 0 .. MaxDemand]
      /\ MaxDemand \in Nat /\ DemandsPerStore \in Nat
  BY RoundRobinNumbers DEF Typed, Numbers
<1>1. ASSUME UNCHANGED <<left, requested>> PROVE EarlierDemandFirst'
  BY <1>1 DEF EarlierDemandFirst
<1>2. ASSUME NEW wanted \in [Demand -> 0 .. MaxDemand], left' = wanted, requested' = wanted
      PROVE  EarlierDemandFirst'
  <2>1. \A d \in Demand : ~(wanted[d] < wanted[d])
    BY <1>0
  <2>2. \A g \in Group : \A k \in 1 .. DemandsPerStore : <<g, k>> \in Demand
    BY DEF Demand
  <2> QED BY <1>2, <2>1, <2>2 DEF EarlierDemandFirst
<1>3. CASE Grant
  <2>1. group \in Group /\ requested' = requested
    BY <1>3, TurnOnRing DEF Grant
  <2>2. PICK i \in 1 .. DemandsPerStore :
           IsNextDemand(i) /\ left' = [left EXCEPT ![<<group, i>>] = @ - 1]
    BY <1>3 DEF Grant
  <2>3. /\ left[<<group, i>>] > 0
        /\ \A j \in 1 .. i - 1 : left[<<group, j>>] = 0
    BY <2>2 DEF IsNextDemand
  <2> SUFFICES ASSUME NEW g \in Group, NEW k \in 1 .. DemandsPerStore, NEW j \in 1 .. k - 1,
                      left'[<<g, k>>] < requested[<<g, k>>]
               PROVE  left'[<<g, j>>] = 0
    BY <2>1 DEF EarlierDemandFirst
  <2>4. j \in 1 .. DemandsPerStore /\ j # k
    BY <1>0
  <2>5. <<g, k>> \in Demand /\ <<g, j>> \in Demand /\ <<group, i>> \in Demand
    BY <2>1, <2>4 DEF Demand
  <2>6. CASE <<g, k>> = <<group, i>>
    <3>1. left[<<g, j>>] = 0 /\ <<g, j>> # <<group, i>>
      BY <2>3, <2>4, <2>6
    <3> QED BY <1>0, <2>2, <2>5, <3>1
  <2>7. CASE <<g, k>> # <<group, i>>
    <3>1. left[<<g, k>>] < requested[<<g, k>>]
      BY <1>0, <2>2, <2>5, <2>7
    <3>2. left[<<g, j>>] = 0
      BY <3>1 DEF EarlierDemandFirst
    <3>3. <<g, j>> # <<group, i>>
      BY <2>3, <3>2
    <3> QED BY <1>0, <2>2, <2>5, <3>2, <3>3
  <2> QED BY <2>6, <2>7
<1>4. CASE Return
  <2>1. NoDemand \in [Demand -> 0 .. MaxDemand]
    BY <1>0 DEF NoDemand
  <2> QED BY <1>2, <1>4, <2>1 DEF Return
<1>5. ASSUME NEW wanted \in [Demand -> 0 .. MaxDemand], NEW quantity \in 0 .. MaxAvailable,
             BeginRun(wanted, quantity)
      PROVE  EarlierDemandFirst'
  BY <1>2, <1>5 DEF BeginRun
<1>6. CASE \E s \in Store : CloseStore(s) \/ ReopenStore(s)
  BY <1>1, <1>6 DEF CloseStore, ReopenStore, run
<1>7. CASE BeginRound \/ NextTier \/ Skip
  BY <1>1, <1>7 DEF BeginRound, NextTier, Skip
<1>8. CASE EndRound \/ FinishRun
  BY <1>1, <1>8 DEF EndRound, FinishRun, run
<1>9. CASE UNCHANGED vars
  BY <1>1, <1>9 DEF vars
<1> QED BY <1>3, <1>4, <1>5, <1>6, <1>7, <1>8, <1>9 DEF Next, Compute

\* The locals of a run keep their types and belong together: the ring lists
\* every store with a demand once and the cursor is a position of it.
THEOREM LoopIsTyped ==
    ASSUME RoundRobinAssumption
    PROVE  Spec => []TypeOK
<1>1. Init => Typed
  BY InitTyped
<1>2. Typed /\ [Next]_vars => Typed'
  BY NextTyped
<1>3. Typed => TypeOK
  BY DEF Typed, Numbers, Flagged, TypeOK
<1> QED BY <1>1, <1>2, <1>3, PTL DEF Spec

\* Among the demands one store has in one tier, a later one is served only when
\* the earlier ones are satisfied, at every moment of every run.
THEOREM EarlierDemandsFirst ==
    ASSUME RoundRobinAssumption
    PROVE  Spec => []EarlierDemandFirst
<1>1. Init => Typed /\ EarlierDemandFirst
  BY InitTyped, InitEarlier
<1>2. Typed /\ EarlierDemandFirst /\ [Next]_vars => (Typed /\ EarlierDemandFirst)'
  BY NextTyped, NextEarlier
<1> QED BY <1>1, <1>2, PTL DEF Spec


-----------------------------------------------------------------------------
\* The fairness of a run

\* What the stores of each tier want still, have got, and asked for.
Open  == GroupTotal(left)
Got   == GroupTotal(Granted)
Asked == GroupTotal(requested)

\* The stores whose turn in this round is still to come.
Waiting == {ring[((roundStart - 1 + j) % Len(ring)) + 1] : j \in offset .. Len(ring) - 1}

Turned == [s \in Store |-> IF s \in Waiting THEN 0 ELSE 1]

\* Every unit that left the stock was granted to somebody.
Counted == available <= snapshot /\ SumOf(Got) = snapshot - available

\* The tiers take their turns in order, while there is stock.
LaterUntouched == \A g \in Group : g[1] > tier => Got[g] = 0
EarlierSettled == available > 0 => \A g \in Group : g[1] < tier => Open[g] = 0
TiersInOrder ==
    \A g, h \in Group : g[1] < h[1] /\ Got[h] > 0 => Open[g] = 0

\* Who still wants something is at most one unit behind in its tier, not behind
\* at all between two rounds, and in a round only behind those whose turn was
\* before its own.
NearlyLevel ==
    \A g, h \in Group : g[1] = h[1] /\ Open[g] > 0 => Got[h] <= Got[g] + 1
LevelBetweenRounds ==
    pc = "tier" /\ available > 0 =>
        \A g, h \in Group : g[1] = tier /\ h[1] = tier /\ Open[g] > 0 => Got[h] <= Got[g]
LevelInRound ==
    pc = "round" =>
        \A g, h \in Group :
            g[1] = tier /\ h[1] = tier /\ Open[g] > 0
            => Got[h] + Turned[g[2]] <= Got[g] + Turned[h[2]]

\* A round that granted nothing so far had only turns of satisfied stores.
EmptyTurns ==
    pc = "round" /\ grants = 0 =>
        /\ available > 0 /\ TierHasRemaining(tier)
        /\ \A g \in Group : g[1] = tier /\ g[2] \notin Waiting => Open[g] = 0

OrderInv == LaterUntouched /\ EarlierSettled /\ TiersInOrder
LevelInv == NearlyLevel /\ LevelBetweenRounds /\ LevelInRound

\* A total is a number, zero when nothing is in the group.
LEMMA GroupNumbers ==
    ASSUME RoundRobinAssumption, NEW q \in [Demand -> Nat]
    PROVE  /\ GroupTotal(q) \in [Group -> Nat]
           /\ \A g \in Group : \A k \in 1 .. DemandsPerStore :
                 q[<<g, k>>] <= GroupTotal(q)[g]
           /\ \A g \in Group :
                 (\A k \in 1 .. DemandsPerStore : q[<<g, k>>] = 0) => GroupTotal(q)[g] = 0
<1> DEFINE K == 1 .. DemandsPerStore
           row(g) == [k \in K |-> q[<<g, k>>]]
<1>1. IsFiniteSet(K)
  BY RoundRobinNumbers, FS_Interval
<1>2. ASSUME NEW g \in Group PROVE row(g) \in [K -> Nat]
  <2>1. \A k \in K : <<g, k>> \in Demand
    BY DEF Demand
  <2> QED BY <2>1
<1>3. \A g \in Group : GroupTotal(q)[g] = SumOf(row(g))
  BY DEF GroupTotal
<1>4. \A g \in Group : \A k \in K : row(g)[k] = q[<<g, k>>]
  OBVIOUS
<1> HIDE DEF K, row
<1>5. ASSUME NEW g \in Group
      PROVE  /\ SumOf(row(g)) \in Nat
             /\ \A k \in K : row(g)[k] <= SumOf(row(g))
             /\ (\A k \in K : row(g)[k] = 0) => SumOf(row(g)) = 0
  BY <1>1, <1>2, SumType, SumCovers, SumZero
<1>6. GroupTotal(q) \in [Group -> Nat]
  <2>1. GroupTotal(q) = [g \in Group |-> GroupTotal(q)[g]]
    BY DEF GroupTotal
  <2> QED BY <1>3, <1>5, <2>1
<1>7. \A g \in Group : \A k \in K : q[<<g, k>>] <= GroupTotal(q)[g]
  BY <1>3, <1>4, <1>5
<1>8. \A g \in Group : (\A k \in K : q[<<g, k>>] = 0) => GroupTotal(q)[g] = 0
  BY <1>3, <1>4, <1>5
<1> QED BY <1>6, <1>7, <1>8 DEF K

\* Totals add up demand by demand.
LEMMA GroupAdd ==
    ASSUME RoundRobinAssumption, NEW q \in [Demand -> Nat],
           NEW a \in [Demand -> Nat], NEW b \in [Demand -> Nat],
           \A d \in Demand : q[d] = a[d] + b[d]
    PROVE  \A g \in Group : GroupTotal(q)[g] = GroupTotal(a)[g] + GroupTotal(b)[g]
<1> DEFINE K == 1 .. DemandsPerStore
           row(f, g) == [k \in K |-> f[<<g, k>>]]
<1>1. IsFiniteSet(K)
  BY RoundRobinNumbers, FS_Interval
<1>2. \A g \in Group : \A k \in K : <<g, k>> \in Demand
  BY DEF Demand
<1>3. ASSUME NEW g \in Group
      PROVE  /\ row(q, g) \in [K -> Nat] /\ row(a, g) \in [K -> Nat] /\ row(b, g) \in [K -> Nat]
             /\ \A k \in K : row(q, g)[k] = row(a, g)[k] + row(b, g)[k]
  BY <1>2
<1>4. \A g \in Group : /\ GroupTotal(q)[g] = SumOf(row(q, g))
                       /\ GroupTotal(a)[g] = SumOf(row(a, g))
                       /\ GroupTotal(b)[g] = SumOf(row(b, g))
  BY DEF GroupTotal
<1> HIDE DEF K, row
<1>5. ASSUME NEW g \in Group
      PROVE  SumOf(row(q, g)) = SumOf(row(a, g)) + SumOf(row(b, g))
  BY <1>1, <1>3, SumAdd
<1> QED BY <1>4, <1>5

\* One unit more of one demand is one unit more of its group and of no other.
LEMMA GroupStep ==
    ASSUME RoundRobinAssumption, NEW q \in [Demand -> Nat], NEW r \in [Demand -> Nat],
           NEW e \in Demand, r[e] = q[e] + 1,
           \A d \in Demand : d # e => r[d] = q[d]
    PROVE  /\ GroupTotal(r)[e[1]] = GroupTotal(q)[e[1]] + 1
           /\ \A g \in Group : g # e[1] => GroupTotal(r)[g] = GroupTotal(q)[g]
<1> DEFINE K == 1 .. DemandsPerStore
           h == e[1]
           i == e[2]
           row(f, g) == [k \in K |-> f[<<g, k>>]]
<1>1. IsFiniteSet(K)
  BY RoundRobinNumbers, FS_Interval
<1>2. \A g \in Group : \A k \in K : <<g, k>> \in Demand
  BY DEF Demand
<1>3. h \in Group /\ i \in K /\ e = <<h, i>>
  BY DEF Demand
<1>4. \A g \in Group : /\ GroupTotal(q)[g] = SumOf(row(q, g))
                       /\ GroupTotal(r)[g] = SumOf(row(r, g))
  BY DEF GroupTotal
<1> HIDE DEF h, i
<1>5. /\ row(q, h) \in [K -> Nat] /\ row(r, h) \in [K -> Nat]
      /\ row(r, h)[i] = row(q, h)[i] + 1
      /\ \A k \in K : k # i => row(r, h)[k] = row(q, h)[k]
  BY <1>2, <1>3
<1>6. \A g \in Group : g # h => row(r, g) = row(q, g)
  BY <1>2, <1>3
<1> HIDE DEF row, K
<1>7. SumOf(row(r, h)) = SumOf(row(q, h)) + 1
  BY <1>1, <1>3, <1>5, SumStep
<1> QED BY <1>3, <1>4, <1>6, <1>7 DEF h

\* What a group asked for, it has got or wants still.
LEMMA Amounts ==
    ASSUME RoundRobinAssumption, Typed
    PROVE  /\ left \in [Demand -> Nat] /\ requested \in [Demand -> Nat]
           /\ Granted \in [Demand -> Nat]
           /\ Open \in [Group -> Nat] /\ Got \in [Group -> Nat] /\ Asked \in [Group -> Nat]
           /\ \A g \in Group : Asked[g] = Open[g] + Got[g]
<1>1. \A d \in Demand : left[d] \in Nat /\ requested[d] \in Nat /\ left[d] <= requested[d]
  BY RoundRobinNumbers DEF Typed, Numbers, RingInv
<1>2. left \in [Demand -> Nat] /\ requested \in [Demand -> Nat]
  BY RoundRobinNumbers DEF Typed, Numbers
<1>3. \A d \in Demand : Granted[d] = requested[d] - left[d]
  BY DEF Granted
<1>4. Granted \in [Demand -> Nat]
  BY <1>1 DEF Granted
<1>5. \A d \in Demand : requested[d] = left[d] + Granted[d]
  BY <1>1, <1>3
<1> QED BY <1>2, <1>4, <1>5, GroupNumbers, GroupAdd DEF Open, Got, Asked

\* A tier has something remaining when one of its groups has.
LEMMA TierOpen ==
    ASSUME RoundRobinAssumption, Typed, NEW t
    PROVE  TierHasRemaining(t) <=> \E g \in Group : g[1] = t /\ Open[g] > 0
<1>1. left \in [Demand -> Nat] /\ Open \in [Group -> Nat]
  BY Amounts
<1>2. ASSUME NEW d \in Demand PROVE d[1] \in Group /\ d[2] \in 1 .. DemandsPerStore /\ d = <<d[1], d[2]>>
  BY DEF Demand
<1>3. \A g \in Group : \A k \in 1 .. DemandsPerStore : <<g, k>> \in Demand
  BY DEF Demand
<1>4. ASSUME TierHasRemaining(t) PROVE \E g \in Group : g[1] = t /\ Open[g] > 0
  <2>1. PICK d \in Demand : d[1][1] = t /\ left[d] > 0
    BY <1>4 DEF TierHasRemaining
  <2>2. left[<<d[1], d[2]>>] <= Open[d[1]]
    BY <1>1, <1>2, GroupNumbers DEF Open
  <2>3. d[1] \in Group /\ left[d] <= Open[d[1]] /\ left[d] \in Nat /\ Open[d[1]] \in Nat
    BY <1>1, <1>2, <2>2
  <2>4. Open[d[1]] > 0
    BY <2>1, <2>3
  <2> QED BY <2>1, <2>3, <2>4
<1>5. ASSUME NEW g \in Group, g[1] = t, Open[g] > 0 PROVE TierHasRemaining(t)
  <2>1. ~(\A k \in 1 .. DemandsPerStore : left[<<g, k>>] = 0)
    BY <1>1, <1>5, GroupNumbers DEF Open
  <2>2. PICK k \in 1 .. DemandsPerStore : left[<<g, k>>] # 0
    BY <2>1
  <2>3. <<g, k>> \in Demand /\ left[<<g, k>>] > 0 /\ <<g, k>>[1][1] = t
    BY <1>1, <1>3, <1>5, <2>2
  <2> QED BY <2>3 DEF TierHasRemaining
<1> QED BY <1>4, <1>5

LEMMA GroupsFinite ==
    ASSUME RoundRobinAssumption
    PROVE  IsFiniteSet(Group)
<1>1. IsFiniteSet(Tier) /\ IsFiniteSet(Store)
  BY RoundRobinNumbers, ListPositions, FS_Interval DEF Tier
<1> QED BY <1>1, FS_Product DEF Group

\* A grant moves one unit of the group whose turn it is, and of no other.
LEMMA GrantMoves ==
    ASSUME RoundRobinAssumption, Typed, Grant
    PROVE  /\ group \in Group /\ Open[group] > 0
           /\ Open' \in [Group -> Nat] /\ Got' \in [Group -> Nat]
           /\ Open'[group] = Open[group] - 1 /\ Got'[group] = Got[group] + 1
           /\ \A g \in Group : g # group => Open'[g] = Open[g] /\ Got'[g] = Got[g]
           /\ SumOf(Got') = SumOf(Got) + 1
<1> DEFINE G == group
<1>1. G \in Group /\ Typed'
  BY TurnOnRing, GrantTyped DEF Grant
<1>2. PICK k \in 1 .. DemandsPerStore :
         IsNextDemand(k) /\ left' = [left EXCEPT ![<<G, k>>] = @ - 1]
  BY DEF Grant
<1>3. left[<<G, k>>] > 0
  BY <1>2 DEF IsNextDemand
<1> HIDE DEF G
<1>4. <<G, k>> \in Demand
  BY <1>1 DEF Demand
<1>5. /\ left \in [Demand -> Nat] /\ Granted \in [Demand -> Nat]
      /\ requested \in [Demand -> Nat]
      /\ Open \in [Group -> Nat] /\ Got \in [Group -> Nat]
  BY Amounts
<1>6. /\ left' \in [Demand -> Nat]
      /\ left[<<G, k>>] = left'[<<G, k>>] + 1
      /\ \A d \in Demand : d # <<G, k>> => left[d] = left'[d]
  <2>1. \A d \in Demand : left'[d] = IF d = <<G, k>> THEN left[d] - 1 ELSE left[d]
    BY <1>2, <1>5
  <2>2. left' = [d \in Demand |-> left'[d]]
    BY <1>2, <1>5
  <2>3. left[<<G, k>>] - 1 \in Nat
    BY <1>3, <1>4, <1>5
  <2> QED BY <1>4, <1>5, <2>1, <2>2, <2>3
<1>7. requested' = requested
  BY DEF Grant
<1>8. ASSUME NEW d \in Demand
      PROVE  /\ Granted[d] = requested[d] - left[d]
             /\ Granted'[d] = requested[d] - left'[d]
             /\ Granted'[d] = IF d = <<G, k>> THEN Granted[d] + 1 ELSE Granted[d]
  <2>1. /\ Granted[d] = requested[d] - left[d]
        /\ Granted'[d] = requested[d] - left'[d]
    BY <1>7 DEF Granted
  <2> QED BY <1>4, <1>5, <1>6, <2>1
<1>9. /\ Granted' \in [Demand -> Nat]
      /\ Granted'[<<G, k>>] = Granted[<<G, k>>] + 1
      /\ \A d \in Demand : d # <<G, k>> => Granted'[d] = Granted[d]
  <2>1. Granted' = [d \in Demand |-> Granted'[d]]
    BY DEF Granted
  <2>2. \A d \in Demand : Granted[d] \in Nat
    BY <1>5
  <2> QED BY <1>4, <1>8, <2>1, <2>2
<1> DEFINE D == <<G, k>>
<1> HIDE DEF D
<1>10. /\ Open = GroupTotal(left) /\ Open' = GroupTotal(left')
       /\ Got = GroupTotal(Granted) /\ Got' = GroupTotal(Granted')
  BY DEF Open, Got
<1>11. Open' \in [Group -> Nat] /\ Got' \in [Group -> Nat]
  BY <1>6, <1>9, <1>10, GroupNumbers
<1>12. /\ Open[G] = Open'[G] + 1
       /\ \A g \in Group : g # G => Open[g] = Open'[g]
  <2>1. /\ D \in Demand /\ D[1] = G /\ left[D] = left'[D] + 1
        /\ \A d \in Demand : d # D => left[d] = left'[d]
    BY <1>4, <1>6 DEF D
  <2> QED BY <1>5, <1>6, <1>10, <2>1, GroupStep
<1>13. /\ Got'[G] = Got[G] + 1
       /\ \A g \in Group : g # G => Got'[g] = Got[g]
  <2>1. /\ D \in Demand /\ D[1] = G /\ Granted'[D] = Granted[D] + 1
        /\ \A d \in Demand : d # D => Granted'[d] = Granted[d]
    BY <1>4, <1>9 DEF D
  <2> QED BY <1>5, <1>9, <1>10, <2>1, GroupStep
<1>14. SumOf(Got') = SumOf(Got) + 1
  BY <1>1, <1>5, <1>11, <1>13, GroupsFinite, SumStep
<1>15. Open[G] > 0 /\ Open'[G] = Open[G] - 1
  BY <1>1, <1>5, <1>11, <1>12
<1> QED BY <1>1, <1>11, <1>12, <1>13, <1>14, <1>15 DEF G

-----------------------------------------------------------------------------
\* Turns

\* Counting on from any position of a ring passes every position once.
LEMMA RingTurns ==
    ASSUME NEW n \in Nat, n > 0, NEW s \in 1 .. n
    PROVE  /\ \A j, k \in 0 .. n - 1 :
                 ((s - 1 + j) % n) + 1 = ((s - 1 + k) % n) + 1 => j = k
           /\ \A i \in 1 .. n : \E j \in 0 .. n - 1 : ((s - 1 + j) % n) + 1 = i
<1> DEFINE p(j) == ((s - 1 + j) % n) + 1
<1>1. ASSUME NEW j \in 0 .. n - 1
      PROVE  p(j) = IF s + j <= n THEN s + j ELSE s + j - n
  <2>1. s - 1 + j \in Nat /\ s - 1 + j < 2 * n
    OBVIOUS
  <2>2. (s - 1 + j < n => (s - 1 + j) % n = s - 1 + j)
        /\ (n <= s - 1 + j => (s - 1 + j) % n = s - 1 + j - n)
    BY <2>1, Wrap
  <2> DEFINE x == (s - 1 + j) % n
  <2> HIDE DEF x
  <2>3. (s - 1 + j < n => x = s - 1 + j) /\ (n <= s - 1 + j => x = s - 1 + j - n)
    BY <2>2 DEF x
  <2>4. x + 1 = IF s + j <= n THEN s + j ELSE s + j - n
    BY <2>3
  <2> QED BY <2>4 DEF x
<1> HIDE DEF p
<1>2. \A j, k \in 0 .. n - 1 : p(j) = p(k) => j = k
  BY <1>1
<1>3. ASSUME NEW i \in 1 .. n PROVE \E j \in 0 .. n - 1 : p(j) = i
  <2>1. CASE s <= i
    <3>1. i - s \in 0 .. n - 1 /\ p(i - s) = i
      BY <1>1, <2>1
    <3> QED BY <3>1
  <2>2. CASE ~(s <= i)
    <3>1. i + n - s \in 0 .. n - 1 /\ p(i + n - s) = i
      BY <1>1, <2>2
    <3> QED BY <3>1
  <2> QED BY <2>1, <2>2
<1> QED BY <1>2, <1>3 DEF p

\* A turn takes its store, and no other, off those that wait for theirs.
LEMMA TurnPasses ==
    ASSUME RoundRobinAssumption, Typed, InRound,
           offset' = offset + 1, ring' = ring, roundStart' = roundStart
    PROVE  /\ ring[storeIndex] \in Waiting
           /\ Waiting' = Waiting \ {ring[storeIndex]}
<1> DEFINE n == Len(ring)
           p(j) == ((roundStart - 1 + j) % Len(ring)) + 1
<1>1. /\ n \in Nat /\ n > 0 /\ roundStart \in 1 .. n /\ offset \in 0 .. n - 1
      /\ \A i, j \in 1 .. n : ring[i] = ring[j] => i = j
  BY DEF Typed, Numbers, RingInv, InRound
<1>2. \A j \in 0 .. n - 1 : roundStart - 1 + j \in Nat
  BY <1>1
<1>3. \A j \in 0 .. n - 1 : p(j) \in 1 .. n
  BY <1>1, <1>2, Wrap
<1>4. \A j, k \in 0 .. n - 1 : p(j) = p(k) => j = k
  BY <1>1, RingTurns
<1>5. /\ storeIndex = p(offset)
      /\ Waiting = {ring[p(j)] : j \in offset .. n - 1}
      /\ Waiting' = {ring[p(j)] : j \in offset + 1 .. n - 1}
  BY DEF storeIndex, Waiting
<1> HIDE DEF p, n
<1>6. \A j, k \in 0 .. n - 1 : ring[p(j)] = ring[p(k)] => j = k
  BY <1>1, <1>3, <1>4
<1>7. ring[storeIndex] \in Waiting
  BY <1>1, <1>5
<1>8. ASSUME NEW x \in Waiting', x = ring[storeIndex] PROVE FALSE
  <2>1. PICK j \in offset + 1 .. n - 1 : x = ring[p(j)]
    BY <1>5
  <2>2. ring[p(offset)] = ring[p(j)] /\ j \in 0 .. n - 1 /\ j # offset
    BY <1>1, <1>5, <1>8, <2>1
  <2> QED BY <1>1, <1>6, <2>2
<1>9. Waiting' \subseteq Waiting
  BY <1>1, <1>5
<1>10. ASSUME NEW x \in Waiting, x # ring[storeIndex] PROVE x \in Waiting'
  <2>1. PICK j \in offset .. n - 1 : x = ring[p(j)]
    BY <1>5
  <2>2. j \in offset + 1 .. n - 1
    BY <1>1, <1>5, <1>10, <2>1
  <2> QED BY <1>5, <2>1, <2>2
<1> QED BY <1>7, <1>8, <1>9, <1>10

\* At the head of a round every store of the ring waits for its turn.
LEMMA AllWait ==
    ASSUME RoundRobinAssumption, Typed, BeginRound
    PROVE  \A i \in 1 .. Len(ring) : ring[i] \in Waiting'
<1>1. /\ Len(ring) \in Nat /\ Len(ring) > 0 /\ at \in 1 .. Len(ring)
  BY DEF Typed, Numbers, RingInv, BeginRound
<1>2. Waiting' = {ring[((at - 1 + j) % Len(ring)) + 1] : j \in 0 .. Len(ring) - 1}
  BY DEF BeginRound, Waiting
<1>3. \A i \in 1 .. Len(ring) : \E j \in 0 .. Len(ring) - 1 : ((at - 1 + j) % Len(ring)) + 1 = i
  BY <1>1, RingTurns
<1> QED BY <1>2, <1>3

\* Whoever wants something is on the ring.
LEMMA OpenOnRing ==
    ASSUME RoundRobinAssumption, Typed, NEW g \in Group, Open[g] > 0
    PROVE  \E i \in 1 .. Len(ring) : ring[i] = g[2]
<1>1. /\ left \in [Demand -> Nat] /\ requested \in [Demand -> Nat] /\ Open \in [Group -> Nat]
  BY Amounts
<1>2. ~(\A k \in 1 .. DemandsPerStore : left[<<g, k>>] = 0)
  BY <1>1, GroupNumbers DEF Open
<1>3. PICK k \in 1 .. DemandsPerStore : left[<<g, k>>] # 0
  BY <1>2
<1>4. <<g, k>> \in Demand
  BY DEF Demand
<1>5. requested[<<g, k>>] > 0
  BY <1>1, <1>3, <1>4 DEF Typed, RingInv
<1> QED BY <1>4, <1>5 DEF Typed, RingInv

-----------------------------------------------------------------------------
\* The fairness is kept by every step

Fair == Counted /\ OrderInv /\ LevelInv /\ EmptyTurns

\* Nobody has got anything of demands that are all still remaining.
LEMMA NothingGot ==
    ASSUME RoundRobinAssumption, NEW wanted \in [Demand -> Nat],
           NEW got, got = GroupTotal([d \in Demand |-> wanted[d] - wanted[d]])
    PROVE  (\A g \in Group : got[g] = 0) /\ SumOf(got) = 0
<1> DEFINE q == [d \in Demand |-> wanted[d] - wanted[d]]
<1>1. q \in [Demand -> Nat] /\ \A d \in Demand : q[d] = 0
  OBVIOUS
<1>2. \A g \in Group : \A k \in 1 .. DemandsPerStore : <<g, k>> \in Demand
  BY DEF Demand
<1>3. got = GroupTotal(q)
  OBVIOUS
<1> HIDE DEF q
<1>4. got \in [Group -> Nat] /\ \A g \in Group : got[g] = 0
  BY <1>1, <1>2, <1>3, GroupNumbers
<1> QED BY <1>4, SumZero

LEMMA InitFair ==
    ASSUME RoundRobinAssumption, Init
    PROVE  Fair
<1>1. NoDemand \in [Demand -> Nat]
  BY DEF NoDemand
<1>2. /\ left = NoDemand /\ requested = NoDemand /\ snapshot = 0 /\ available = 0
      /\ pc = "idle"
  BY DEF Init
<1>3. Got = GroupTotal([d \in Demand |-> NoDemand[d] - NoDemand[d]])
  BY <1>2 DEF Got, Granted
<1>4. (\A g \in Group : Got[g] = 0) /\ SumOf(Got) = 0
  BY <1>1, <1>3, NothingGot
<1>5. Counted
  BY <1>2, <1>4 DEF Counted
<1>6. OrderInv
  BY <1>2, <1>4 DEF OrderInv, LaterUntouched, EarlierSettled, TiersInOrder
<1>7. LevelInv
  BY <1>2, <1>4 DEF LevelInv, NearlyLevel, LevelBetweenRounds, LevelInRound
<1>8. EmptyTurns
  BY <1>2 DEF EmptyTurns
<1> QED BY <1>5, <1>6, <1>7, <1>8 DEF Fair

\* A run that has not started its first round is fair.
LEMMA FreshFair ==
    ASSUME RoundRobinAssumption, NEW wanted \in [Demand -> Nat],
           left' = wanted, requested' = wanted,
           NEW quantity \in Nat, snapshot' = quantity, available' = quantity,
           tier' = 1, pc' # "round"
    PROVE  Fair'
<1>1. Got' = GroupTotal([d \in Demand |-> wanted[d] - wanted[d]])
  BY DEF Got, Granted
<1>2. (\A g \in Group : Got'[g] = 0) /\ SumOf(Got') = 0
  BY <1>1, NothingGot
<1>3. \A g \in Group : g[1] \in 1 .. LastTier
  BY DEF Group, Tier
<1>4. Counted'
  BY <1>2 DEF Counted
<1>5. OrderInv'
  BY <1>2, <1>3, RoundRobinNumbers DEF OrderInv, LaterUntouched, EarlierSettled, TiersInOrder
<1>6. LevelInv'
  BY <1>2 DEF LevelInv, NearlyLevel, LevelBetweenRounds, LevelInRound
<1>7. EmptyTurns'
  BY DEF EmptyTurns
<1> QED BY <1>4, <1>5, <1>6, <1>7 DEF Fair

\* Steps that leave the quantities alone leave the totals alone.
LEMMA TotalsStay ==
    ASSUME UNCHANGED <<left, requested>>
    PROVE  Open' = Open /\ Got' = Got /\ \A t : TierHasRemaining(t)' <=> TierHasRemaining(t)
BY DEF Open, Got, Granted, TierHasRemaining

LEMMA QuietFair ==
    ASSUME Fair, UNCHANGED <<pc, run>>
    PROVE  Fair'
<1>1. /\ UNCHANGED <<left, requested>>
      /\ UNCHANGED <<pc, snapshot, available, ring, tier, roundStart, offset, grants>>
  BY DEF run
<1>2. Open' = Open /\ Got' = Got /\ \A t : TierHasRemaining(t)' <=> TierHasRemaining(t)
  BY <1>1, TotalsStay
<1>3. Waiting' = Waiting /\ Turned' = Turned
  BY <1>1 DEF Waiting, Turned
<1>4. Counted'
  BY <1>1, <1>2 DEF Fair, Counted
<1>5. OrderInv'
  BY <1>1, <1>2 DEF Fair, OrderInv, LaterUntouched, EarlierSettled, TiersInOrder
<1>6. LevelInv'
  BY <1>1, <1>2, <1>3 DEF Fair, LevelInv, NearlyLevel, LevelBetweenRounds, LevelInRound
<1>7. EmptyTurns'
  BY <1>1, <1>2, <1>3 DEF Fair, EmptyTurns, TierHasRemaining
<1> QED BY <1>4, <1>5, <1>6, <1>7 DEF Fair

\* A round starts level: whoever wants something is on the ring and waits.
LEMMA BeginRoundFair ==
    ASSUME RoundRobinAssumption, Typed, Fair, BeginRound
    PROVE  Fair'
<1>1. /\ UNCHANGED <<left, requested>> /\ UNCHANGED <<snapshot, available, tier>>
      /\ pc = "tier" /\ pc' = "round" /\ available > 0 /\ TierHasRemaining(tier)
  BY DEF BeginRound
<1>2. Open' = Open /\ Got' = Got
  BY <1>1, TotalsStay
<1>3. Open \in [Group -> Nat] /\ Got \in [Group -> Nat]
  BY Amounts
<1>4. ASSUME NEW g \in Group, Open[g] > 0 PROVE g[2] \in Waiting'
  BY <1>4, OpenOnRing, AllWait
<1>5. \A s \in Store : Turned'[s] \in 0 .. 1 /\ (s \in Waiting' => Turned'[s] = 0)
  BY DEF Turned
<1>6. \A g \in Group : g[2] \in Store
  BY DEF Group
<1>7. Counted'
  BY <1>1, <1>2 DEF Fair, Counted
<1>8. OrderInv'
  BY <1>1, <1>2 DEF Fair, OrderInv, LaterUntouched, EarlierSettled, TiersInOrder
<1>9. NearlyLevel' /\ LevelBetweenRounds'
  BY <1>1, <1>2 DEF Fair, LevelInv, NearlyLevel, LevelBetweenRounds
<1>10. LevelInRound'
  <2> SUFFICES ASSUME NEW g \in Group, NEW h \in Group,
                      g[1] = tier, h[1] = tier, Open[g] > 0
               PROVE  Got[h] + Turned'[g[2]] <= Got[g] + Turned'[h[2]]
    BY <1>1, <1>2 DEF LevelInRound
  <2>1. Got[h] <= Got[g]
    BY <1>1 DEF Fair, LevelInv, LevelBetweenRounds
  <2>2. Turned'[g[2]] = 0 /\ Turned'[h[2]] \in 0 .. 1
    BY <1>4, <1>5, <1>6
  <2> QED BY <1>3, <2>1, <2>2
<1>11. EmptyTurns'
  <2>1. TierHasRemaining(tier)'
    BY <1>1 DEF TierHasRemaining
  <2>2. ASSUME NEW g \in Group, g[2] \notin Waiting' PROVE Open'[g] = 0
    BY <1>2, <1>3, <1>4, <2>2
  <2> QED BY <1>1, <2>1, <2>2 DEF EmptyTurns
<1> QED BY <1>7, <1>8, <1>9, <1>10, <1>11 DEF Fair, LevelInv

\* The next tier comes when there is no stock or this one is settled.
LEMMA NextTierFair ==
    ASSUME RoundRobinAssumption, Typed, Fair, NextTier
    PROVE  Fair'
<1>1. /\ UNCHANGED <<left, requested>> /\ UNCHANGED <<snapshot, available, pc>>
      /\ pc = "tier" /\ tier' = tier + 1 /\ tier \in Nat /\ available \in Nat
      /\ available = 0 \/ ~TierHasRemaining(tier) \/ Len(ring) = 0
  BY DEF NextTier, Typed, Numbers
<1>2. Open' = Open /\ Got' = Got
  BY <1>1, TotalsStay
<1>3. Open \in [Group -> Nat] /\ Got \in [Group -> Nat]
  BY Amounts
<1>4. \A g \in Group : g[1] \in Nat
  BY RoundRobinNumbers DEF Group, Tier
<1>5. ASSUME available > 0, NEW g \in Group, g[1] = tier PROVE Open[g] = 0
  <2>1. CASE ~TierHasRemaining(tier)
    BY <1>3, <1>5, <2>1, TierOpen
  <2>2. CASE Len(ring) = 0
    BY <1>3, <2>2, OpenOnRing
  <2> QED BY <1>1, <1>5, <2>1, <2>2
<1>6. Counted'
  BY <1>1, <1>2 DEF Fair, Counted
<1>7. LaterUntouched'
  BY <1>1, <1>2, <1>4 DEF Fair, OrderInv, LaterUntouched
<1>8. EarlierSettled'
  <2> SUFFICES ASSUME available > 0, NEW g \in Group, g[1] < tier + 1
               PROVE  Open[g] = 0
    BY <1>1, <1>2 DEF EarlierSettled
  <2>1. g[1] < tier \/ g[1] = tier
    BY <1>1, <1>4
  <2> QED BY <1>5, <2>1 DEF Fair, OrderInv, EarlierSettled
<1>9. TiersInOrder' /\ NearlyLevel'
  BY <1>2 DEF Fair, OrderInv, TiersInOrder, LevelInv, NearlyLevel
<1>10. LevelBetweenRounds'
  <2>1. \A g \in Group : g[1] = tier + 1 => Got[g] = 0
    BY <1>1, <1>4 DEF Fair, OrderInv, LaterUntouched
  <2> QED BY <1>1, <1>2, <2>1 DEF LevelBetweenRounds
<1>11. LevelInRound' /\ EmptyTurns'
  BY <1>1 DEF LevelInRound, EmptyTurns
<1> QED BY <1>6, <1>7, <1>8, <1>9, <1>10, <1>11 DEF Fair, OrderInv, LevelInv

\* The store in turn gets a unit: nobody of its tier that still wants something
\* was further behind, and who waits can catch up within the round.
LEMMA GrantFair ==
    ASSUME RoundRobinAssumption, Typed, Fair, Grant
    PROVE  Fair'
<1> DEFINE G == group
<1>1. /\ G \in Group /\ Open[G] > 0
      /\ Open' \in [Group -> Nat] /\ Got' \in [Group -> Nat]
      /\ Open'[G] = Open[G] - 1 /\ Got'[G] = Got[G] + 1
      /\ \A g \in Group : g # G => Open'[g] = Open[g] /\ Got'[g] = Got[g]
      /\ SumOf(Got') = SumOf(Got) + 1
  BY GrantMoves
<1>2. /\ pc = "round" /\ pc' = "round" /\ available > 0 /\ available' = available - 1
      /\ UNCHANGED <<snapshot, tier>> /\ grants' = grants + 1
      /\ available \in Nat /\ snapshot \in Nat /\ grants \in Nat
  BY DEF Grant, InRound, Typed, Numbers
<1>3. Open \in [Group -> Nat] /\ Got \in [Group -> Nat]
  BY Amounts
<1>4. /\ ring[storeIndex] \in Waiting
      /\ Waiting' = Waiting \ {ring[storeIndex]}
  BY TurnPasses DEF Grant
<1>5. G[1] = tier /\ G[2] = ring[storeIndex]
  BY DEF group
<1> HIDE DEF G
<1>6. \A g \in Group : g[1] \in Nat /\ g[2] \in Store /\ g = <<g[1], g[2]>>
  BY RoundRobinNumbers DEF Group, Tier
<1>7. /\ \A s \in Store : Turned[s] \in 0 .. 1 /\ Turned'[s] \in 0 .. 1
      /\ Turned[G[2]] = 0 /\ Turned'[G[2]] = 1
      /\ \A s \in Store : s # G[2] => Turned'[s] = Turned[s]
  BY <1>1, <1>4, <1>5, <1>6 DEF Turned
<1>8. Counted'
  BY <1>1, <1>2 DEF Fair, Counted
<1>9. LaterUntouched'
  BY <1>1, <1>2, <1>5, <1>6 DEF Fair, OrderInv, LaterUntouched
<1>10. EarlierSettled'
  BY <1>1, <1>2, <1>5, <1>6 DEF Fair, OrderInv, EarlierSettled
<1>11. TiersInOrder'
  <2> SUFFICES ASSUME NEW g \in Group, NEW h \in Group, g[1] < h[1], Got'[h] > 0
               PROVE  Open'[g] = 0
    BY DEF TiersInOrder
  <2>1. CASE h = G
    <3>1. Open[g] = 0
      BY <1>2, <1>5, <2>1 DEF Fair, OrderInv, EarlierSettled
    <3> QED BY <1>1, <3>1
  <2>2. CASE h # G
    <3>1. Open[g] = 0
      BY <1>1, <2>2 DEF Fair, OrderInv, TiersInOrder
    <3> QED BY <1>1, <3>1
  <2> QED BY <2>1, <2>2
<1>12. ASSUME NEW g \in Group, Open'[g] > 0 PROVE Open[g] > 0 /\ Got[g] <= Got'[g]
  BY <1>1, <1>3, <1>12
<1>13. ASSUME NEW g \in Group, NEW h \in Group, g[1] = tier, h[1] = tier, Open[g] > 0
       PROVE  Got[h] + Turned[g[2]] <= Got[g] + Turned[h[2]]
  BY <1>2, <1>13 DEF Fair, LevelInv, LevelInRound
<1>14. NearlyLevel'
  <2> SUFFICES ASSUME NEW g \in Group, NEW h \in Group, g[1] = h[1], Open'[g] > 0
               PROVE  Got'[h] <= Got'[g] + 1
    BY DEF NearlyLevel
  <2>1. Open[g] > 0 /\ Got[g] <= Got'[g]
    BY <1>12
  <2>2. /\ Got[g] \in Nat /\ Got[h] \in Nat /\ Got'[g] \in Nat /\ Got'[h] \in Nat
        /\ Turned[g[2]] \in 0 .. 1
    BY <1>1, <1>3, <1>6, <1>7
  <2>3. CASE h = G
    <3>1. Got[G] + Turned[g[2]] <= Got[g] + Turned[G[2]]
      BY <1>1, <1>5, <1>13, <2>1, <2>3
    <3> QED BY <1>1, <1>7, <2>1, <2>2, <2>3, <3>1
  <2>4. CASE h # G
    <3>1. Got[h] <= Got[g] + 1 /\ Got'[h] = Got[h]
      BY <1>1, <2>1, <2>4 DEF Fair, LevelInv, NearlyLevel
    <3> QED BY <2>1, <2>2, <3>1
  <2> QED BY <2>3, <2>4
<1>15. LevelInRound'
  <2> SUFFICES ASSUME NEW g \in Group, NEW h \in Group,
                      g[1] = tier, h[1] = tier, Open'[g] > 0
               PROVE  Got'[h] + Turned'[g[2]] <= Got'[g] + Turned'[h[2]]
    BY <1>2 DEF LevelInRound
  <2>1. Got[h] + Turned[g[2]] <= Got[g] + Turned[h[2]]
    BY <1>12, <1>13
  <2>2. /\ Got[g] \in Nat /\ Got[h] \in Nat
        /\ Turned[g[2]] \in 0 .. 1 /\ Turned[h[2]] \in 0 .. 1
    BY <1>3, <1>6, <1>7
  <2>3. ASSUME NEW f \in Group, f[1] = tier
        PROVE  IF f = G THEN Got'[f] = Got[f] + 1 /\ Turned[f[2]] = 0 /\ Turned'[f[2]] = 1
               ELSE Got'[f] = Got[f] /\ Turned'[f[2]] = Turned[f[2]]
    <3>1. CASE f = G
      BY <1>1, <1>7, <3>1
    <3>2. CASE f # G
      <4>1. f[2] # G[2]
        BY <1>1, <1>5, <1>6, <2>3, <3>2
      <4> QED BY <1>1, <1>6, <1>7, <3>2, <4>1
    <3> QED BY <3>1, <3>2
  <2> QED BY <2>1, <2>2, <2>3
<1>16. LevelBetweenRounds' /\ EmptyTurns'
  BY <1>2 DEF LevelBetweenRounds, EmptyTurns
<1> QED BY <1>8, <1>9, <1>10, <1>11, <1>14, <1>15, <1>16 DEF Fair, OrderInv, LevelInv

\* A store passed by in its turn wants nothing any more in this tier.
LEMMA SkipFair ==
    ASSUME RoundRobinAssumption, Typed, Fair, Skip
    PROVE  Fair'
<1> DEFINE G == group
<1>1. /\ UNCHANGED <<left, requested>> /\ UNCHANGED <<pc, snapshot, available, tier, grants>>
      /\ pc = "round"
  BY DEF Skip, InRound
<1>2. Open' = Open /\ Got' = Got
  BY <1>1, TotalsStay
<1>3. Open \in [Group -> Nat] /\ Got \in [Group -> Nat] /\ left \in [Demand -> Nat]
  BY Amounts
<1>4. G \in Group /\ G[1] = tier /\ G[2] = ring[storeIndex]
  BY TurnOnRing DEF Skip, group
<1>5. Open[G] = 0
  BY <1>3, <1>4, GroupNumbers DEF Skip, Open
<1>6. /\ ring[storeIndex] \in Waiting
      /\ Waiting' = Waiting \ {ring[storeIndex]}
  BY TurnPasses DEF Skip
<1> HIDE DEF G
<1>7. \A g \in Group : g[2] \in Store /\ g = <<g[1], g[2]>>
  BY DEF Group
<1>8. /\ \A s \in Store : Turned[s] \in 0 .. 1 /\ Turned'[s] \in 0 .. 1 /\ Turned[s] <= Turned'[s]
      /\ \A s \in Store : s # G[2] => Turned'[s] = Turned[s]
  BY <1>4, <1>6 DEF Turned
<1>9. ASSUME NEW g \in Group, g[1] = tier, g[2] = G[2] PROVE Open[g] = 0
  <2>1. g = G
    BY <1>4, <1>7, <1>9
  <2> QED BY <1>5, <2>1
<1>10. Counted'
  BY <1>1, <1>2 DEF Fair, Counted
<1>11. OrderInv'
  BY <1>1, <1>2 DEF Fair, OrderInv, LaterUntouched, EarlierSettled, TiersInOrder
<1>12. NearlyLevel' /\ LevelBetweenRounds'
  BY <1>1, <1>2 DEF Fair, LevelInv, NearlyLevel, LevelBetweenRounds
<1>13. LevelInRound'
  <2> SUFFICES ASSUME NEW g \in Group, NEW h \in Group,
                      g[1] = tier, h[1] = tier, Open[g] > 0
               PROVE  Got[h] + Turned'[g[2]] <= Got[g] + Turned'[h[2]]
    BY <1>1, <1>2 DEF LevelInRound
  <2>1. Got[h] + Turned[g[2]] <= Got[g] + Turned[h[2]]
    BY <1>1 DEF Fair, LevelInv, LevelInRound
  <2>2. g[2] # G[2] /\ Turned'[g[2]] = Turned[g[2]]
    BY <1>7, <1>8, <1>9
  <2>3. /\ Turned[h[2]] <= Turned'[h[2]] /\ Turned[h[2]] \in 0 .. 1 /\ Turned'[h[2]] \in 0 .. 1
        /\ Turned[g[2]] \in 0 .. 1 /\ Got[g] \in Nat /\ Got[h] \in Nat
    BY <1>3, <1>7, <1>8
  <2> QED BY <2>1, <2>2, <2>3
<1>14. EmptyTurns'
  <2> SUFFICES ASSUME grants = 0
               PROVE  /\ available > 0 /\ TierHasRemaining(tier)'
                      /\ \A g \in Group : g[1] = tier /\ g[2] \notin Waiting' => Open[g] = 0
    BY <1>1, <1>2 DEF EmptyTurns
  <2>1. /\ available > 0 /\ TierHasRemaining(tier)
        /\ \A g \in Group : g[1] = tier /\ g[2] \notin Waiting => Open[g] = 0
    BY <1>1 DEF Fair, EmptyTurns
  <2>2. TierHasRemaining(tier)'
    BY <1>1, <2>1 DEF TierHasRemaining
  <2>3. \A g \in Group : g[1] = tier /\ g[2] \notin Waiting' => Open[g] = 0
    BY <1>4, <1>6, <1>9, <2>1
  <2> QED BY <2>1, <2>2, <2>3
<1> QED BY <1>10, <1>11, <1>12, <1>13, <1>14 DEF Fair, LevelInv

\* When the round has gone around, everybody had a turn.
LEMMA RoundGoneAround ==
    ASSUME Typed, RoundOver, available > 0
    PROVE  Waiting = {} /\ \A s \in Store : Turned[s] = 1
<1>1. offset = Len(ring) /\ Len(ring) \in Nat
  BY DEF Typed, Numbers, RoundOver
<1>2. Waiting = {}
  BY <1>1 DEF Waiting
<1> QED BY <1>2 DEF Turned

LEMMA EndRoundFair ==
    ASSUME RoundRobinAssumption, Typed, Fair, EndRound
    PROVE  Fair'
<1>1. /\ UNCHANGED <<left, requested>> /\ UNCHANGED <<snapshot, available, tier>>
      /\ pc = "round" /\ pc' = "tier" /\ RoundOver
  BY DEF EndRound, RoundOver, run
<1>2. Open' = Open /\ Got' = Got
  BY <1>1, TotalsStay
<1>3. Open \in [Group -> Nat] /\ Got \in [Group -> Nat]
  BY Amounts
<1>4. Counted'
  BY <1>1, <1>2 DEF Fair, Counted
<1>5. OrderInv'
  BY <1>1, <1>2 DEF Fair, OrderInv, LaterUntouched, EarlierSettled, TiersInOrder
<1>6. NearlyLevel' /\ LevelInRound' /\ EmptyTurns'
  BY <1>1, <1>2 DEF Fair, LevelInv, NearlyLevel, LevelInRound, EmptyTurns
<1>7. LevelBetweenRounds'
  <2> SUFFICES ASSUME available > 0, NEW g \in Group, NEW h \in Group,
                      g[1] = tier, h[1] = tier, Open[g] > 0
               PROVE  Got[h] <= Got[g]
    BY <1>1, <1>2 DEF LevelBetweenRounds
  <2>1. Got[h] + Turned[g[2]] <= Got[g] + Turned[h[2]]
    BY <1>1 DEF Fair, LevelInv, LevelInRound
  <2>2. g[2] \in Store /\ h[2] \in Store
    BY DEF Group
  <2>3. Turned[g[2]] = 1 /\ Turned[h[2]] = 1
    BY <1>1, <2>2, RoundGoneAround
  <2> QED BY <1>3, <2>1, <2>3
<1> QED BY <1>4, <1>5, <1>6, <1>7 DEF Fair, LevelInv

LEMMA FinishRunFair ==
    ASSUME Fair, FinishRun
    PROVE  Fair'
<1>1. /\ UNCHANGED <<left, requested>> /\ UNCHANGED <<snapshot, available, tier>>
      /\ pc' = "done"
  BY DEF FinishRun, run
<1>2. Open' = Open /\ Got' = Got
  BY <1>1, TotalsStay
<1>3. Counted'
  BY <1>1, <1>2 DEF Fair, Counted
<1>4. OrderInv'
  BY <1>1, <1>2 DEF Fair, OrderInv, LaterUntouched, EarlierSettled, TiersInOrder
<1>5. LevelInv' /\ EmptyTurns'
  BY <1>1, <1>2 DEF Fair, LevelInv, NearlyLevel, LevelBetweenRounds, LevelInRound, EmptyTurns
<1> QED BY <1>3, <1>4, <1>5 DEF Fair

LEMMA NextFair ==
    ASSUME RoundRobinAssumption, Typed, Fair, [Next]_vars
    PROVE  Fair'
<1>1. CASE \E s \in Store : CloseStore(s) \/ ReopenStore(s)
  BY <1>1, QuietFair DEF CloseStore, ReopenStore
<1>2. ASSUME NEW wanted \in [Demand -> 0 .. MaxDemand], NEW quantity \in 0 .. MaxAvailable,
             BeginRun(wanted, quantity)
      PROVE  Fair'
  <2>1. wanted \in [Demand -> Nat] /\ quantity \in Nat
    BY RoundRobinNumbers
  <2> QED BY <1>2, <2>1, FreshFair DEF BeginRun
<1>3. CASE Return
  <2>1. NoDemand \in [Demand -> Nat] /\ 0 \in Nat
    BY DEF NoDemand
  <2> QED BY <1>3, <2>1, FreshFair DEF Return
<1>4. CASE UNCHANGED vars
  BY <1>4, QuietFair DEF vars, run
<1> QED BY <1>1, <1>2, <1>3, <1>4, BeginRoundFair, NextTierFair, GrantFair, SkipFair,
           EndRoundFair, FinishRunFair DEF Next, Compute

\* At every moment of every run: what is known of the locals and of the totals.
LEMMA LoopIsFair ==
    ASSUME RoundRobinAssumption
    PROVE  Spec => [](Typed /\ Fair)
<1>1. Init => Typed /\ Fair
  BY InitTyped, InitFair
<1>2. Typed /\ Fair /\ [Next]_vars => (Typed /\ Fair)'
  BY NextTyped, NextFair
<1> QED BY <1>1, <1>2, PTL DEF Spec

LEMMA ProgressOfFair ==
    ASSUME RoundRobinAssumption, Typed, Fair
    PROVE  RoundMakesProgress
<1> SUFFICES ASSUME RoundOver, ~(grants > 0) PROVE FALSE
  BY DEF RoundMakesProgress
<1>1. pc = "round" /\ grants = 0
  BY DEF RoundOver, Typed, Numbers
<1>2. /\ available > 0 /\ TierHasRemaining(tier)
      /\ \A g \in Group : g[1] = tier /\ g[2] \notin Waiting => Open[g] = 0
  BY <1>1 DEF Fair, EmptyTurns
<1>3. Waiting = {}
  BY <1>2, RoundGoneAround
<1>4. \E g \in Group : g[1] = tier /\ Open[g] > 0
  BY <1>2, TierOpen
<1> QED BY <1>2, <1>3, <1>4

LEMMA ShareOfFair ==
    ASSUME RoundRobinAssumption, Typed, Fair
    PROVE  ResultIsFairShare
<1> SUFFICES ASSUME pc = "done"
             PROVE  IsFairShare(Asked, [g \in Group |-> g[1]], snapshot, Got)
  BY DEF ResultIsFairShare, Asked, Got
<1>1. /\ Open \in [Group -> Nat] /\ Got \in [Group -> Nat] /\ Asked \in [Group -> Nat]
      /\ \A g \in Group : Asked[g] = Open[g] + Got[g]
  BY Amounts
<1>2. DOMAIN Asked = Group
  BY <1>1
<1>3. Bounded(Asked, Got)
  BY <1>1, <1>2 DEF Bounded
<1>4. Exhaustive(Asked, snapshot, Got)
  <2>1. SumOf(Open) \in Nat /\ SumOf(Got) \in Nat
    BY <1>1, GroupsFinite, SumType
  <2>2. SumOf(Asked) = SumOf(Open) + SumOf(Got)
    BY <1>1, GroupsFinite, SumAdd
  <2>3. /\ SumOf(Got) = snapshot - available
        /\ available \in Nat /\ snapshot \in Nat
    BY DEF Fair, Counted, Typed, Numbers
  <2>4. ASSUME available > 0 PROVE SumOf(Open) = 0
    <3>1. tier = LastTier + 1
      BY DEF Typed, RingInv
    <3>2. \A g \in Group : g[1] < tier
      BY <3>1, RoundRobinNumbers DEF Group, Tier
    <3>3. \A g \in Group : Open[g] = 0
      BY <2>4, <3>2 DEF Fair, OrderInv, EarlierSettled
    <3> QED BY <1>1, <3>3, SumZero
  <2>5. SumOf(Got) = Lesser(snapshot, SumOf(Asked))
    BY <2>1, <2>2, <2>3, <2>4 DEF Lesser
  <2> QED BY <2>5 DEF Exhaustive
<1>5. PriorityFirst(Asked, [g \in Group |-> g[1]], Got)
  <2> SUFFICES ASSUME NEW g \in Group, NEW h \in Group, g[1] < h[1], Got[h] > 0
               PROVE  Got[g] = Asked[g]
    BY <1>2 DEF PriorityFirst
  <2>1. Open[g] = 0
    BY DEF Fair, OrderInv, TiersInOrder
  <2> QED BY <1>1, <2>1
<1>6. LevelFill(Asked, [g \in Group |-> g[1]], Got)
  <2> SUFFICES ASSUME NEW g \in Group, NEW h \in Group, g[1] = h[1], Got[g] < Asked[g]
               PROVE  Got[h] <= Got[g] + 1
    BY <1>2 DEF LevelFill
  <2>1. Open[g] > 0
    BY <1>1
  <2> QED BY <2>1 DEF Fair, LevelInv, NearlyLevel
<1> QED BY <1>3, <1>4, <1>5, <1>6 DEF IsFairShare

\* The assertion 'Allocation round made no progress' never fires: a round that
\* has ended has granted something, whatever the ring, the tiers and the demands.
THEOREM RoundsMakeProgress ==
    ASSUME RoundRobinAssumption
    PROVE  Spec => []RoundMakesProgress
<1>1. Typed /\ Fair => RoundMakesProgress
  BY ProgressOfFair
<1> QED BY <1>1, LoopIsFair, PTL

\* allocateInventory implements the contract FairShare: what a run returns is a
\* fair share of the snapshot between the stores of each tier.
THEOREM LoopIsFairShare ==
    ASSUME RoundRobinAssumption
    PROVE  Spec => []ResultIsFairShare
<1>1. Typed /\ Fair => ResultIsFairShare
  BY ShareOfFair
<1> QED BY <1>1, LoopIsFair, PTL

\* Together: what allocateInventory promises of every run, at every moment of it.
THEOREM SharesStayFair ==
    ASSUME RoundRobinAssumption
    PROVE  Spec => []SharesFair
<1>1. TypeOK /\ ResultIsFairShare /\ EarlierDemandFirst /\ RoundMakesProgress
        => SharesFair
  BY DEF SharesFair
<1> QED BY <1>1, LoopIsTyped, LoopIsFairShare, EarlierDemandsFirst, RoundsMakeProgress, PTL

-----------------------------------------------------------------------------
\* Passing over

Pos(s) == IndexIn(StoreList, s)

\* How many places of the list, going around, store s comes after store r.
Ahead(r, s) ==
    IF Pos(r) <= Pos(s) THEN Pos(s) - Pos(r) ELSE Pos(s) - Pos(r) + Len(StoreList)

\* A store that asked in the first tier and has got nothing yet.
Unserved(s) == Asked[<<1, s>>] > 0 /\ Got[<<1, s>>] = 0

\* The store this run started from.
StartStore == IF cursor = NoStore THEN ring[1] ELSE cursor

\* The ring is in display order.
RingSorted ==
    \A i, j \in 1 .. Len(ring) : i < j => Pos(ring[i]) < Pos(ring[j])

\* While an unserved store wants something, the run stays in its first round:
\* every grant takes the cursor closer to that store.
BeforeGrants ==
    pc \in {"tier", "round"} /\ ~madeAnyGrant =>
        \A s \in Store : Unserved(s) => ring[at] = StartStore
AfterGrants ==
    pc \in {"tier", "round"} /\ madeAnyGrant =>
        \A s \in Store : Unserved(s) => Ahead(ring[at], s) < Ahead(StartStore, s)
FirstHead ==
    pc = "tier" /\ available > 0 =>
        \A s \in Store : Unserved(s) => tier = 1 /\ ~madeAnyGrant
FirstRound ==
    pc = "round" /\ available > 0 =>
        \A s \in Store : Unserved(s) =>
            tier = 1 /\ ring[roundStart] = StartStore /\ s \in Waiting

Nearing == BeforeGrants /\ AfterGrants /\ FirstHead /\ FirstRound

\* A streak never outgrows the places the cursor has left to go.
Streaks ==
    \A s \in Store : passedOver[s] > 0 =>
        cursor \in Store /\ Ahead(cursor, s) + passedOver[s] < Len(StoreList)

LEMMA AheadRange ==
    ASSUME RoundRobinAssumption, NEW r \in Store, NEW s \in Store
    PROVE  /\ Pos(r) \in 1 .. Len(StoreList) /\ Pos(s) \in 1 .. Len(StoreList)
           /\ Ahead(r, s) \in 0 .. Len(StoreList) - 1
<1>1. Pos(r) \in 1 .. Len(StoreList) /\ Pos(s) \in 1 .. Len(StoreList)
  BY ListPositions DEF Pos
<1>2. Len(StoreList) \in Nat
  BY ListPositions
<1> QED BY <1>1, <1>2 DEF Ahead

\* The ring lists the active stores in display order.
LEMMA RingInOrder ==
    ASSUME RoundRobinAssumption, active \subseteq Store
    PROVE  \A i, j \in 1 .. Len(StoreOrder) :
               i < j => Pos(StoreOrder[i]) < Pos(StoreOrder[j])
<1> DEFINE n == Cardinality(active)
<1>1. n \in Nat
  BY PlacesNumber
<1>2. ASSUME NEW i \in 1 .. n
      PROVE  StoreOrder[i] \in active /\ Place(StoreOrder[i]) = i
  <2>1. \E s \in active : Place(s) = i
    BY PlacesNumber
  <2> QED BY <2>1 DEF StoreOrder
<1>3. Len(StoreOrder) = n
  <2>1. DOMAIN StoreOrder = 1 .. n
    BY DEF StoreOrder
  <2>2. DOMAIN StoreOrder = 1 .. Len(StoreOrder) /\ Len(StoreOrder) \in Nat
    BY RingListsActive
  <2> HIDE DEF n
  <2> QED BY <1>1, <2>1, <2>2
<1>4. ASSUME NEW i \in 1 .. n, NEW j \in 1 .. n, i < j
      PROVE  Pos(StoreOrder[i]) < Pos(StoreOrder[j])
  <2> DEFINE r == StoreOrder[i]
             s == StoreOrder[j]
  <2>1. r \in active /\ s \in active /\ Place(r) = i /\ Place(s) = j
    BY <1>2
  <2> HIDE DEF r, s, n
  <2>2. /\ Pos(r) \in Nat /\ Pos(s) \in Nat
        /\ StoreList[Pos(r)] = r /\ StoreList[Pos(s)] = s
    BY <2>1, ListPositions DEF Pos
  <2>3. Pos(r) # Pos(s)
    BY <1>1, <1>4, <2>1, <2>2
  <2>4. ~(Pos(s) < Pos(r))
    <3>1. Pos(s) < Pos(r) => Place(s) < Place(r)
      BY <2>1, PlacesNumber DEF Pos
    <3> QED BY <1>1, <1>4, <2>1, <3>1
  <2>5. Pos(r) < Pos(s)
    BY <2>2, <2>3, <2>4
  <2> QED BY <2>5 DEF r, s
<1> QED BY <1>3, <1>4

\* The positions of a round, counted from its start.
LEMMA TurnPositions ==
    ASSUME NEW n \in Nat, n > 0, NEW rs \in 1 .. n, NEW j \in 0 .. n - 1
    PROVE  /\ ((rs - 1 + j) % n) + 1 = IF rs + j <= n THEN rs + j ELSE rs + j - n
           /\ j + 1 <= n - 1 =>
                 ((((rs - 1 + j) % n) + 1) % n) + 1 = ((rs - 1 + (j + 1)) % n) + 1
<1> DEFINE p(k) == IF rs + k <= n THEN rs + k ELSE rs + k - n
<1>1. ASSUME NEW k \in 0 .. n - 1
      PROVE  ((rs - 1 + k) % n) + 1 = p(k)
  <2> DEFINE x == (rs - 1 + k) % n
  <2>1. rs - 1 + k \in Nat /\ rs - 1 + k < 2 * n
    OBVIOUS
  <2>2. (rs - 1 + k < n => x = rs - 1 + k) /\ (n <= rs - 1 + k => x = rs - 1 + k - n)
    BY <2>1, Wrap
  <2> HIDE DEF x
  <2>3. x + 1 = p(k)
    BY <2>2
  <2> QED BY <2>3 DEF x
<1>2. ASSUME j + 1 <= n - 1 PROVE (p(j) % n) + 1 = p(j + 1)
  <2>1. p(j) \in 1 .. n /\ p(j) \in Nat
    OBVIOUS
  <2>2. (p(j) < n => p(j) % n = p(j)) /\ (p(j) = n => p(j) % n = 0)
    <3> HIDE DEF p
    <3>1. p(j) < n => p(j) % n = p(j)
      BY <2>1, Wrap
    <3>2. n <= p(j) /\ p(j) < 2 * n => p(j) % n = p(j) - n
      BY <2>1, Wrap
    <3> QED BY <2>1, <3>1, <3>2
  <2> DEFINE y == p(j) % n
  <2>3. (p(j) < n => y = p(j)) /\ (p(j) = n => y = 0)
    BY <2>2
  <2> HIDE DEF y
  <2>4. y + 1 = p(j + 1)
    BY <1>2, <2>3
  <2> QED BY <2>4 DEF y
<1>3. j + 1 <= n - 1 => j + 1 \in 0 .. n - 1
  OBVIOUS
<1> HIDE DEF p
<1>4. j + 1 <= n - 1 => ((rs - 1 + (j + 1)) % n) + 1 = p(j + 1)
  BY <1>1, <1>3
<1>5. ((rs - 1 + j) % n) + 1 = p(j)
  BY <1>1
<1> QED BY <1>2, <1>4, <1>5 DEF p

\* The later a store of the round has its turn, the longer the way to it: the
\* turns between take the cursor closer.
LEMMA Nearer ==
    ASSUME NEW n \in Nat, n > 0, NEW m \in Nat, NEW f,
           \A i \in 1 .. n : f[i] \in 1 .. m,
           \A i, j \in 1 .. n : i < j => f[i] < f[j],
           NEW rs \in 1 .. n, NEW pj \in 1 .. n, NEW pe \in 1 .. n,
           NEW j \in 1 .. n - 1, NEW e \in 1 .. n - 1, j <= e,
           pj = IF rs + j <= n THEN rs + j ELSE rs + j - n,
           pe = IF rs + e <= n THEN rs + e ELSE rs + e - n
    PROVE  (IF f[pj] <= f[pe] THEN f[pe] - f[pj] ELSE f[pe] - f[pj] + m)
         < (IF f[rs] <= f[pe] THEN f[pe] - f[rs] ELSE f[pe] - f[rs] + m)
<1> DEFINE a == f[pj]
           b == f[pe]
           c == f[rs]
<1>1. a \in 1 .. m /\ b \in 1 .. m /\ c \in 1 .. m
  OBVIOUS
<1>2. pj < pe => a < b
  OBVIOUS
<1>3. pj = pe => a = b
  OBVIOUS
<1>4. rs < pj => c < a
  OBVIOUS
<1>5. pj < rs => a < c
  OBVIOUS
<1>6. rs < pe => c < b
  OBVIOUS
<1>7. pe < rs => b < c
  OBVIOUS
<1>8. \/ rs < pj /\ rs < pe /\ pj <= pe
      \/ rs < pj /\ pe < rs
      \/ pj < rs /\ pe < rs /\ pj <= pe
  OBVIOUS
<1> HIDE DEF a, b, c
<1>9. \/ c < a /\ c < b /\ a <= b
      \/ c < a /\ b < c
      \/ a < c /\ b < c /\ a <= b
  BY <1>1, <1>2, <1>3, <1>4, <1>5, <1>6, <1>7, <1>8
<1>10. (IF a <= b THEN b - a ELSE b - a + m) < (IF c <= b THEN b - c ELSE b - c + m)
  BY <1>1, <1>9
<1> QED BY <1>10 DEF a, b, c

\* A grant to one store leaves the cursor closer to every store that still
\* waits for its turn than the round's start was.
LEMMA GrantNearer ==
    ASSUME RoundRobinAssumption, Typed, RingSorted, InRound,
           at' = (storeIndex % Len(ring)) + 1,
           NEW s, s \in Waiting, s # ring[storeIndex]
    PROVE  Ahead(ring[at'], s) < Ahead(ring[roundStart], s)
<1> DEFINE n == Len(ring)
           p(j) == ((roundStart - 1 + j) % Len(ring)) + 1
           f == [i \in 1 .. Len(ring) |-> Pos(ring[i])]
<1>1. /\ n \in Nat /\ n > 0 /\ roundStart \in 1 .. n /\ offset \in 0 .. n - 1
      /\ ring \in Seq(Store)
  BY DEF Typed, Numbers, RingInv, InRound
<1>2. storeIndex = p(offset) /\ Waiting = {ring[p(j)] : j \in offset .. n - 1}
  BY DEF storeIndex, Waiting
<1>3. PICK e \in offset .. n - 1 : s = ring[p(e)]
  BY <1>2
<1>4. e # offset
  BY <1>2, <1>3
<1> DEFINE j == offset + 1
<1>5. j \in 1 .. n - 1 /\ e \in 1 .. n - 1 /\ j <= e
  BY <1>1, <1>3, <1>4
<1>6. p(e) = IF roundStart + e <= n THEN roundStart + e ELSE roundStart + e - n
  <2>1. e \in 0 .. n - 1
    BY <1>1, <1>5
  <2> HIDE DEF n
  <2> QED BY <1>1, <2>1, TurnPositions DEF n
<1>7. p(j) = IF roundStart + j <= n THEN roundStart + j ELSE roundStart + j - n
  <2>1. j \in 0 .. n - 1
    BY <1>1, <1>5
  <2> HIDE DEF j
  <2> QED BY <1>1, <2>1, TurnPositions
<1>8. at' = p(j)
  <2>1. offset + 1 <= n - 1
    BY <1>1, <1>5
  <2> QED BY <1>1, <1>2, <2>1, TurnPositions
<1>9. p(j) \in 1 .. n /\ p(e) \in 1 .. n
  <2> HIDE DEF p, j, n
  <2> QED BY <1>1, <1>5, <1>6, <1>7
<1>10. \A i \in 1 .. n : f[i] = Pos(ring[i]) /\ f[i] \in 1 .. Len(StoreList)
  <2> SUFFICES ASSUME NEW i \in 1 .. n
               PROVE  f[i] = Pos(ring[i]) /\ f[i] \in 1 .. Len(StoreList)
    OBVIOUS
  <2>1. ring[i] \in Store
    BY <1>1
  <2>2. Pos(ring[i]) \in 1 .. Len(StoreList)
    BY <2>1, AheadRange
  <2> QED BY <2>2
<1>11. \A i, k \in 1 .. n : i < k => f[i] < f[k]
  BY DEF RingSorted
<1>12. Len(StoreList) \in Nat
  BY RoundRobinNumbers
<1> HIDE DEF f, p, j, n
<1>13. (IF f[p(j)] <= f[p(e)] THEN f[p(e)] - f[p(j)] ELSE f[p(e)] - f[p(j)] + Len(StoreList))
     < (IF f[roundStart] <= f[p(e)] THEN f[p(e)] - f[roundStart] ELSE f[p(e)] - f[roundStart] + Len(StoreList))
  BY <1>1, <1>5, <1>6, <1>7, <1>9, <1>10, <1>11, <1>12, Nearer
<1>14. /\ f[p(j)] = Pos(ring[at']) /\ f[p(e)] = Pos(s) /\ f[roundStart] = Pos(ring[roundStart])
  BY <1>1, <1>3, <1>8, <1>9, <1>10
<1> QED BY <1>13, <1>14 DEF Ahead

\* Nothing is granted or asked: the same stores are unserved.
LEMMA UnservedStay ==
    ASSUME UNCHANGED <<left, requested>>, NEW s
    PROVE  Unserved(s)' <=> Unserved(s)
<1>1. Open' = Open /\ Got' = Got
  BY TotalsStay
<1>2. Asked' = Asked
  BY DEF Asked, GroupTotal
<1> QED BY <1>1, <1>2 DEF Unserved

\* An unserved store still wants something in the first tier.
LEMMA UnservedWants ==
    ASSUME RoundRobinAssumption, Typed, NEW s \in Store, Unserved(s)
    PROVE  /\ <<1, s>> \in Group /\ Open[<<1, s>>] > 0
           /\ TierHasRemaining(1)
           /\ \E i \in 1 .. Len(ring) : ring[i] = s
<1>1. <<1, s>> \in Group /\ <<1, s>>[1] = 1 /\ <<1, s>>[2] = s
  BY RoundRobinNumbers DEF Group, Tier
<1>2. Open[<<1, s>>] > 0
  BY <1>1, Amounts DEF Unserved
<1>3. TierHasRemaining(1)
  BY <1>1, <1>2, TierOpen
<1>4. \E i \in 1 .. Len(ring) : ring[i] = s
  BY <1>1, <1>2, OpenOnRing
<1> QED BY <1>1, <1>2, <1>3, <1>4

LEMMA NextSorted ==
    ASSUME RoundRobinAssumption, Typed, RingSorted, [Next]_vars
    PROVE  RingSorted'
<1>1. CASE ring' = ring
  BY <1>1 DEF RingSorted, Pos
<1>2. ASSUME NEW wanted, NEW quantity, BeginRun(wanted, quantity) PROVE RingSorted'
  <2>1. active \subseteq Store /\ ring' = StoreOrder
    BY <1>2 DEF BeginRun, Typed, Numbers
  <2> QED BY <2>1, RingInOrder DEF RingSorted, Pos
<1>3. CASE Return
  <2>1. ring' = <<>>
    BY <1>3 DEF Return
  <2> QED BY <2>1 DEF RingSorted
<1> QED BY <1>1, <1>2, <1>3
        DEF Next, Compute, vars, run, CloseStore, ReopenStore, BeginRound, NextTier, Grant,
            Skip, EndRound, FinishRun

LEMMA BeginRunNears ==
    ASSUME RoundRobinAssumption, Typed, NEW wanted, NEW quantity, BeginRun(wanted, quantity)
    PROVE  Nearing'
<1>1. /\ active \subseteq Store
      /\ pc' = "tier" /\ tier' = 1 /\ ring' = StoreOrder /\ cursor' = cursor
      /\ at' = IF cursor = NoStore THEN 1 ELSE IndexIn(StoreOrder, cursor)
      /\ cursor # NoStore => \E i \in DOMAIN StoreOrder : StoreOrder[i] = cursor
  BY DEF BeginRun, Typed, Numbers
<1>2. ~madeAnyGrant'
  BY Zenon DEF BeginRun
<1>3. ring'[at'] = StartStore'
  <2>1. CASE cursor = NoStore
    BY <1>1, <2>1 DEF StartStore
  <2>2. CASE cursor # NoStore
    <3>1. StoreOrder[IndexIn(StoreOrder, cursor)] = cursor
      BY <1>1, <2>2 DEF IndexIn
    <3> QED BY <1>1, <2>2, <3>1 DEF StartStore
  <2> QED BY <2>1, <2>2
<1>4. BeforeGrants'
  BY <1>3 DEF BeforeGrants
<1>5. AfterGrants'
  BY <1>2, Zenon DEF AfterGrants
<1>6. FirstHead'
  BY <1>1, <1>2, Zenon DEF FirstHead
<1>7. FirstRound'
  BY <1>1 DEF FirstRound
<1> QED BY <1>4, <1>5, <1>6, <1>7 DEF Nearing

\* What a step that serves nobody leaves alone.
LEMMA NearingStays ==
    ASSUME Nearing, UNCHANGED <<left, requested, cursor, ring, at, madeAnyGrant>>,
           pc \in {"tier", "round"}
    PROVE  BeforeGrants' /\ AfterGrants'
<1>1. \A s \in Store : Unserved(s)' <=> Unserved(s)
  BY UnservedStay
<1>2. StartStore' = StartStore
  BY DEF StartStore
<1>3. \A s \in Store : /\ Ahead(ring[at], s)' = Ahead(ring[at], s)
                       /\ Ahead(StartStore, s)' = Ahead(StartStore, s)
  BY <1>2 DEF Ahead, Pos
<1>4. ring'[at'] = ring[at] /\ madeAnyGrant' = madeAnyGrant
  OBVIOUS
<1>5. BeforeGrants'
  <2> SUFFICES ASSUME ~madeAnyGrant', NEW s \in Store, Unserved(s)'
               PROVE  ring'[at'] = StartStore'
    BY Zenon DEF BeforeGrants
  <2>1. ~madeAnyGrant /\ Unserved(s)
    BY <1>1
  <2>2. ring[at] = StartStore
    BY <2>1, Zenon DEF Nearing, BeforeGrants
  <2> QED BY <1>2, <1>4, <2>2
<1>6. AfterGrants'
  <2> SUFFICES ASSUME madeAnyGrant', NEW s \in Store, Unserved(s)'
               PROVE  Ahead(ring[at], s)' < Ahead(StartStore, s)'
    BY Zenon DEF AfterGrants
  <2>1. madeAnyGrant /\ Unserved(s)
    BY <1>1
  <2>2. Ahead(ring[at], s) < Ahead(StartStore, s)
    BY <2>1, Zenon DEF Nearing, AfterGrants
  <2> QED BY <1>3, <2>2
<1> QED BY <1>5, <1>6

LEMMA BeginRoundNears ==
    ASSUME RoundRobinAssumption, Typed, Nearing, BeginRound
    PROVE  Nearing'
<1>1. /\ pc = "tier" /\ pc' = "round" /\ available > 0 /\ roundStart' = at
      /\ UNCHANGED <<left, requested, cursor, ring, at, madeAnyGrant, tier>>
  BY DEF BeginRound
<1>2. BeforeGrants' /\ AfterGrants'
  BY <1>1, NearingStays
<1>3. FirstHead'
  BY <1>1 DEF FirstHead
<1>4. FirstRound'
  <2> SUFFICES ASSUME NEW s \in Store, Unserved(s)
               PROVE  tier = 1 /\ ring[at] = StartStore /\ s \in Waiting'
    <3>1. \A s \in Store : Unserved(s)' <=> Unserved(s)
      BY <1>1, UnservedStay
    <3>2. StartStore' = StartStore
      BY <1>1 DEF StartStore
    <3> QED BY <1>1, <3>1, <3>2 DEF FirstRound
  <2>1. tier = 1 /\ ~madeAnyGrant
    BY <1>1, Zenon DEF Nearing, FirstHead
  <2>2. ring[at] = StartStore
    BY <1>1, <2>1, Zenon DEF Nearing, BeforeGrants
  <2>3. s \in Waiting'
    BY AllWait, UnservedWants
  <2> QED BY <2>1, <2>2, <2>3
<1> QED BY <1>2, <1>3, <1>4 DEF Nearing

\* The run leaves a tier with stock in hand only when nobody in it is unserved.
LEMMA NextTierNears ==
    ASSUME RoundRobinAssumption, Typed, Nearing, NextTier
    PROVE  Nearing'
<1>1. /\ pc = "tier" /\ pc' = "tier"
      /\ available = 0 \/ ~TierHasRemaining(tier) \/ Len(ring) = 0
      /\ UNCHANGED <<left, requested, cursor, ring, at, madeAnyGrant, available>>
  BY DEF NextTier
<1>2. BeforeGrants' /\ AfterGrants'
  BY <1>1, NearingStays
<1>3. FirstRound'
  BY <1>1 DEF FirstRound
<1>4. ASSUME available > 0, NEW s \in Store, Unserved(s)
      PROVE  FALSE
  <2>1. tier = 1
    BY <1>1, <1>4, Zenon DEF Nearing, FirstHead
  <2>2. TierHasRemaining(tier) /\ \E i \in 1 .. Len(ring) : ring[i] = s
    BY <1>4, <2>1, UnservedWants
  <2>3. Len(ring) = 0
    BY <1>1, <1>4, <2>2
  <2> QED BY <2>2, <2>3
<1>5. FirstHead'
  <2>1. \A s \in Store : Unserved(s)' <=> Unserved(s)
    BY <1>1, UnservedStay
  <2>2. available' > 0 => available > 0
    BY <1>1
  <2> QED BY <1>4, <2>1, <2>2, Zenon DEF FirstHead
<1> QED BY <1>2, <1>3, <1>5 DEF Nearing

LEMMA GrantNears ==
    ASSUME RoundRobinAssumption, Typed, RingSorted, Nearing, Grant
    PROVE  Nearing'
<1>1. /\ InRound /\ pc = "round" /\ pc' = "round" /\ available > 0
      /\ at' = (storeIndex % Len(ring)) + 1 /\ offset' = offset + 1
      /\ UNCHANGED <<requested, cursor, ring, tier, roundStart>>
  BY DEF Grant, InRound
<1>2. madeAnyGrant'
  BY Zenon DEF Grant
<1>3. StartStore' = StartStore
  BY <1>1 DEF StartStore
<1>4. ASSUME NEW s \in Store, Unserved(s)'
      PROVE  /\ tier = 1 /\ ring[roundStart] = StartStore
             /\ s \in Waiting /\ s # ring[storeIndex]
  <2>1. <<1, s>> \in Group
    BY RoundRobinNumbers DEF Group, Tier
  <2>2. Asked' = Asked
    BY <1>1 DEF Asked, GroupTotal
  <2>3. Asked[<<1, s>>] > 0 /\ Got'[<<1, s>>] = 0
    BY <1>4, <2>2 DEF Unserved
  <2>4. Got[group] \in Nat /\ Got'[group] = Got[group] + 1
    BY GrantMoves, Amounts
  <2>5. <<1, s>> # group
    BY <2>3, <2>4
  <2>6. Got[<<1, s>>] = 0
    BY <2>1, <2>3, <2>5, GrantMoves
  <2>7. tier = 1 /\ ring[roundStart] = StartStore /\ s \in Waiting
    BY <1>1, <2>3, <2>6 DEF Nearing, FirstRound, Unserved
  <2> QED BY <2>5, <2>7 DEF group
<1>5. BeforeGrants'
  BY <1>2, Zenon DEF BeforeGrants
<1>6. AfterGrants'
  <2> SUFFICES ASSUME NEW s \in Store, Unserved(s)'
               PROVE  Ahead(ring'[at'], s) < Ahead(StartStore', s)
    BY DEF AfterGrants, Ahead, Pos
  <2>1. Ahead(ring[at'], s) < Ahead(ring[roundStart], s)
    BY <1>1, <1>4, GrantNearer
  <2> QED BY <1>1, <1>3, <1>4, <2>1
<1>7. FirstHead'
  BY <1>1 DEF FirstHead
<1>8. FirstRound'
  <2> SUFFICES ASSUME NEW s \in Store, Unserved(s)'
               PROVE  tier = 1 /\ ring[roundStart] = StartStore /\ s \in Waiting'
    BY <1>1, <1>3 DEF FirstRound
  <2>1. Waiting' = Waiting \ {ring[storeIndex]}
    BY <1>1, TurnPasses
  <2> QED BY <1>4, <2>1
<1> QED BY <1>5, <1>6, <1>7, <1>8 DEF Nearing

LEMMA SkipNears ==
    ASSUME RoundRobinAssumption, Typed, Nearing, Skip
    PROVE  Nearing'
<1>1. /\ InRound /\ pc = "round" /\ pc' = "round" /\ offset' = offset + 1
      /\ \A k \in 1 .. DemandsPerStore : left[<<group, k>>] = 0
      /\ UNCHANGED <<left, requested, cursor, ring, at, madeAnyGrant, available, tier,
                     roundStart>>
  BY DEF Skip, InRound
<1>2. BeforeGrants' /\ AfterGrants'
  BY <1>1, NearingStays
<1>3. FirstHead'
  BY <1>1 DEF FirstHead
<1>4. FirstRound'
  <2> SUFFICES ASSUME available > 0, NEW s \in Store, Unserved(s)
               PROVE  tier = 1 /\ ring[roundStart] = StartStore /\ s \in Waiting'
    <3>1. \A s \in Store : Unserved(s)' <=> Unserved(s)
      BY <1>1, UnservedStay
    <3>2. StartStore' = StartStore
      BY <1>1 DEF StartStore
    <3> QED BY <1>1, <3>1, <3>2 DEF FirstRound
  <2>1. tier = 1 /\ ring[roundStart] = StartStore /\ s \in Waiting
    BY <1>1 DEF Nearing, FirstRound
  <2>2. Open[group] = 0
    <3>1. group \in Group /\ left \in [Demand -> Nat]
      BY <1>1, TurnOnRing, Amounts
    <3> QED BY <1>1, <3>1, GroupNumbers DEF Open
  <2>3. s # ring[storeIndex]
    <3>1. <<1, s>> # group
      BY <2>2, UnservedWants
    <3> QED BY <2>1, <3>1 DEF group
  <2>4. Waiting' = Waiting \ {ring[storeIndex]}
    BY <1>1, TurnPasses
  <2> QED BY <2>1, <2>3, <2>4
<1> QED BY <1>2, <1>3, <1>4 DEF Nearing

LEMMA EndRoundNears ==
    ASSUME RoundRobinAssumption, Typed, Nearing, EndRound
    PROVE  Nearing'
<1>1. /\ RoundOver /\ pc = "round" /\ pc' = "tier"
      /\ UNCHANGED <<left, requested, cursor, ring, at, madeAnyGrant, available>>
  BY DEF EndRound, RoundOver, run
<1>2. BeforeGrants' /\ AfterGrants'
  BY <1>1, NearingStays
<1>3. FirstRound'
  BY <1>1 DEF FirstRound
<1>4. ASSUME available > 0, NEW s \in Store, Unserved(s)
      PROVE  FALSE
  <2>1. s \in Waiting
    BY <1>1, <1>4 DEF Nearing, FirstRound
  <2> QED BY <1>1, <1>4, <2>1, RoundGoneAround
<1>5. FirstHead'
  <2>1. \A s \in Store : Unserved(s)' <=> Unserved(s)
    BY <1>1, UnservedStay
  <2>2. available' > 0 => available > 0
    BY <1>1
  <2> QED BY <1>4, <2>1, <2>2, Zenon DEF FirstHead
<1> QED BY <1>2, <1>3, <1>5 DEF Nearing

\* Outside a run there is nothing to near.
LEMMA IdleNears ==
    ASSUME pc' \notin {"tier", "round"}
    PROVE  Nearing'
<1>1. BeforeGrants' /\ AfterGrants'
  BY Zenon DEF BeforeGrants, AfterGrants
<1>2. FirstHead' /\ FirstRound'
  BY DEF FirstHead, FirstRound
<1> QED BY <1>1, <1>2 DEF Nearing

LEMMA NextNears ==
    ASSUME RoundRobinAssumption, Typed, RingSorted, Nearing, [Next]_vars
    PROVE  Nearing'
<1>1. CASE \E s \in Store : CloseStore(s) \/ ReopenStore(s)
  BY <1>1, IdleNears DEF CloseStore, ReopenStore
<1>2. CASE FinishRun \/ Return
  BY <1>2, IdleNears DEF FinishRun, Return
<1>3. CASE UNCHANGED vars
  <2>1. CASE pc \in {"tier", "round"}
    <3>1. UNCHANGED <<left, requested, cursor, ring, at, madeAnyGrant>>
      BY <1>3 DEF vars
    <3>2. BeforeGrants' /\ AfterGrants'
      BY <2>1, <3>1, NearingStays
    <3>3. \A s \in Store : Unserved(s)' <=> Unserved(s)
      BY <3>1, UnservedStay
    <3>4. StartStore' = StartStore /\ Waiting' = Waiting
      BY <1>3 DEF StartStore, Waiting, vars
    <3>5. FirstHead'
      BY <1>3, <3>3 DEF Nearing, FirstHead, vars
    <3>6. FirstRound'
      BY <1>3, <3>3, <3>4 DEF Nearing, FirstRound, vars
    <3> QED BY <3>2, <3>5, <3>6 DEF Nearing
  <2>2. CASE pc \notin {"tier", "round"}
    BY <1>3, <2>2, IdleNears DEF vars
  <2> QED BY <2>1, <2>2
<1> QED BY <1>1, <1>2, <1>3, BeginRunNears, BeginRoundNears, NextTierNears, GrantNears,
           SkipNears, EndRoundNears DEF Next, Compute

\* A run that serves others brings the cursor closer to whom it passes over.
LEMMA FinishRunStreaks ==
    ASSUME RoundRobinAssumption, Typed, Nearing, Streaks, FinishRun
    PROVE  Streaks'
<1>1. /\ pc = "tier" /\ ring \in Seq(Store) /\ passedOver \in [Store -> Nat]
      /\ cursor \in Store \cup {NoStore} /\ Len(StoreList) \in Nat
  BY RoundRobinNumbers DEF FinishRun, Typed, Numbers
<1>2. CASE ~madeAnyGrant
  <2>1. cursor' = cursor
    BY <1>2, Zenon DEF FinishRun, nextCursor
  <2>2. ASSUME NEW s \in Store PROVE passedOver'[s] = passedOver[s]
    <3>1. ~PassedOver(s)
      BY <1>2, Zenon DEF PassedOver
    <3> QED BY <1>2, <3>1 DEF FinishRun
  <2> QED BY <2>1, <2>2 DEF Streaks, Ahead, Pos
<1>3. CASE madeAnyGrant
  <2>1. cursor' = ring[at]
    BY <1>3, Zenon DEF FinishRun, nextCursor
  <2>2. ring # <<>>
    BY <1>3, Zenon DEF Typed, Flagged
  <2>3. Len(ring) \in Nat /\ Len(ring) > 0
    BY <1>1, <2>2
  <2>4. at \in 1 .. Len(ring)
    BY <2>3 DEF Typed, RingInv
  <2>5. ring[at] \in Store /\ ring[1] \in Store
    BY <1>1, <2>3, <2>4
  <2>6. StartStore \in Store
    BY <1>1, <2>5 DEF StartStore
  <2> SUFFICES ASSUME NEW s \in Store, passedOver'[s] > 0
               PROVE  Ahead(ring[at], s) + passedOver'[s] < Len(StoreList)
    BY <2>1, <2>5 DEF Streaks, Ahead, Pos
  <2>7. PassedOver(s) /\ passedOver'[s] = passedOver[s] + 1
    <3>1. passedOver'[s] = IF PassedOver(s) THEN passedOver[s] + 1 ELSE 0
      BY <1>3 DEF FinishRun
    <3> QED BY <3>1
  <2>8. Unserved(s)
    BY <2>7 DEF PassedOver, Unserved, Asked, Got
  <2>9. Ahead(ring[at], s) < Ahead(StartStore, s)
    BY <1>1, <1>3, <2>8, Zenon DEF Nearing, AfterGrants
  <2>10. Ahead(ring[at], s) \in Nat /\ Ahead(StartStore, s) \in 0 .. Len(StoreList) - 1
    <3>1. \A r \in Store : Ahead(r, s) \in 0 .. Len(StoreList) - 1
      BY AheadRange
    <3> QED BY <1>1, <2>5, <2>6, <3>1
  <2>11. CASE passedOver[s] = 0
    BY <1>1, <2>7, <2>9, <2>10, <2>11
  <2>12. CASE passedOver[s] > 0
    <3>1. cursor \in Store /\ Ahead(cursor, s) + passedOver[s] < Len(StoreList)
      BY <2>12 DEF Streaks
    <3>2. StartStore = cursor
      BY <3>1 DEF StartStore, RoundRobinAssumption
    <3> QED BY <1>1, <2>7, <2>9, <2>10, <3>1, <3>2
  <2> QED BY <1>1, <2>11, <2>12
<1> QED BY <1>2, <1>3

LEMMA NextStreaks ==
    ASSUME RoundRobinAssumption, Typed, Nearing, Streaks, [Next]_vars
    PROVE  Streaks'
<1>1. CASE UNCHANGED <<cursor, passedOver>>
  BY <1>1 DEF Streaks, Ahead, Pos
<1>2. ASSUME NEW s \in Store, CloseStore(s) PROVE Streaks'
  <2>1. /\ cursor' = cursor /\ passedOver \in [Store -> Nat]
        /\ passedOver' = [passedOver EXCEPT ![s] = 0]
    BY <1>2 DEF CloseStore, Typed, Numbers
  <2>2. \A r \in Store : passedOver'[r] > 0 => passedOver'[r] = passedOver[r]
    BY <2>1
  <2> QED BY <2>1, <2>2 DEF Streaks, Ahead, Pos
<1> QED BY <1>1, <1>2, FinishRunStreaks
        DEF Next, Compute, vars, ReopenStore, BeginRun, BeginRound, NextTier, Grant, Skip,
            EndRound, Return

LEMMA StreakBound ==
    ASSUME RoundRobinAssumption, Typed, Streaks
    PROVE  StoresServed
<1> SUFFICES ASSUME NEW s \in Store PROVE passedOver[s] < Len(StoreList)
  BY DEF StoresServed
<1>1. passedOver[s] \in Nat /\ Len(StoreList) \in Nat /\ Len(StoreList) > 0
  BY RoundRobinNumbers DEF Typed, Numbers
<1>2. CASE passedOver[s] = 0
  BY <1>1, <1>2
<1>3. CASE passedOver[s] > 0
  <2>1. cursor \in Store /\ Ahead(cursor, s) + passedOver[s] < Len(StoreList)
    BY <1>3 DEF Streaks
  <2>2. Ahead(cursor, s) \in Nat
    BY <2>1, AheadRange
  <2> QED BY <1>1, <2>1, <2>2
<1> QED BY <1>1, <1>2, <1>3

\* The persisted cursor rotates over the runs: however the runs, the closings
\* and the reopenings of stores follow each other, a store asking in the first
\* tier is passed over in fewer runs in a row than there are stores.
THEOREM StoresRotate ==
    ASSUME RoundRobinAssumption
    PROVE  Spec => []StoresServed
<1>1. Init => Typed /\ RingSorted /\ Nearing /\ Streaks
  <2> SUFFICES ASSUME Init PROVE Typed /\ RingSorted /\ Nearing /\ Streaks
    OBVIOUS
  <2>1. pc = "idle" /\ ring = <<>> /\ passedOver = [s \in Store |-> 0]
    BY DEF Init
  <2>2. BeforeGrants /\ AfterGrants
    BY <2>1, Zenon DEF BeforeGrants, AfterGrants
  <2>3. FirstHead /\ FirstRound
    BY <2>1 DEF FirstHead, FirstRound
  <2>4. RingSorted /\ Streaks
    BY <2>1 DEF RingSorted, Streaks
  <2> QED BY <2>2, <2>3, <2>4, InitTyped DEF Nearing
<1>2. Typed /\ RingSorted /\ Nearing /\ Streaks /\ [Next]_vars
        => (Typed /\ RingSorted /\ Nearing /\ Streaks)'
  BY NextTyped, NextSorted, NextNears, NextStreaks
<1>3. Typed /\ Streaks => StoresServed
  BY StreakBound
<1> QED BY <1>1, <1>2, <1>3, PTL DEF Spec
=============================================================================
