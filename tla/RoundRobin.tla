----------------------------- MODULE RoundRobin -----------------------------
(***************************************************************************)
(* allocateInventory (src/packages/domain/src/allocation.ts) as the worker *)
(* runs it, one product, run after run: the ring of stores is rebuilt from *)
(* the active stores for every run (loadStoreOrder) and starts at the      *)
(* cursor the last completed run left (loadPreviousCursors).  Between runs *)
(* an administrator may close or reopen a store (updateStore).             *)
(*                                                                         *)
(* One step of the model is one turn of the innermost loop.  A run that    *)
(* throws changes nothing and is retried, so it is no step at all.         *)
(***************************************************************************)
EXTENDS Integers, Sequences, FiniteSets, QuantitySums, FairShare

CONSTANTS
    StoreList,      \* every store once, in display order
    Closable,       \* the stores an administrator may close
    LastTier,       \* the tiers are 1 .. LastTier (1 is P0A)
    DemandsPerStore,\* how many demands of a store may share a tier
    MaxDemand,      \* bound on the quantity of one demand
    MaxAvailable,   \* bound on the allocatable quantity of a run
    NoStore         \* the null cursor

Store == {StoreList[i] : i \in DOMAIN StoreList}

RoundRobinAssumption ==
    /\ StoreList \in Seq(Store) /\ Len(StoreList) > 0
    /\ \A i, j \in DOMAIN StoreList : StoreList[i] = StoreList[j] => i = j
    /\ Closable \subseteq Store /\ NoStore \notin Store
    /\ LastTier \in Nat \ {0} /\ DemandsPerStore \in Nat \ {0}
    /\ MaxDemand \in Nat /\ MaxAvailable \in Nat

Tier == 1 .. LastTier
Group == Tier \X Store
Demand == Group \X (1 .. DemandsPerStore)    \* in the order of the demand ids

VARIABLES
    active,        \* the stores that are open
    cursor,        \* nextCursor of the last completed run
    pc,            \* "idle", "tier" (head of a round), "round", "done"
    requested,     \* requestedQuantity of each demand of this run
    left,          \* remainingQuantity of each demand
    snapshot,      \* availableQuantity the run started from
    available,
    ring,          \* storeOrder of this run
    at,            \* cursorIndex, 1-based
    tier,
    roundStart,
    offset,
    grants,        \* grantsThisRound
    madeAnyGrant,
    passedOver     \* history: runs in a row that served others but not s

vars == <<active, cursor, pc, requested, left, snapshot, available, ring, at,
          tier, roundStart, offset, grants, madeAnyGrant, passedOver>>

run == <<requested, left, snapshot, available, ring, at, tier, roundStart,
         offset, grants, madeAnyGrant>>

NoDemand == [d \in Demand |-> 0]

IndexIn(order, s) == CHOOSE i \in DOMAIN order : order[i] = s

\* The active stores in display order: the place of a store is the number of
\* active stores listed up to it.
Place(s) ==
    Cardinality({r \in active : IndexIn(StoreList, r) <= IndexIn(StoreList, s)})

StoreOrder ==
    [i \in 1 .. Cardinality(active) |-> CHOOSE s \in active : Place(s) = i]

Granted == [d \in Demand |-> requested[d] - left[d]]

\* Totals of one store in one tier.
GroupTotal(quantity) ==
    [g \in Group |-> SumOf([k \in 1 .. DemandsPerStore |-> quantity[<<g, k>>]])]

TierHasRemaining(t) == \E d \in Demand : d[1][1] = t /\ left[d] > 0

Init ==
    /\ active = Store
    /\ cursor = NoStore
    /\ pc = "idle"
    /\ requested = NoDemand /\ left = NoDemand
    /\ snapshot = 0 /\ available = 0
    /\ ring = <<>> /\ at = 1 /\ tier = 1
    /\ roundStart = 1 /\ offset = 0 /\ grants = 0
    /\ madeAnyGrant = FALSE
    /\ passedOver = [s \in Store |-> 0]

-----------------------------------------------------------------------------
\* updateStore between two runs.  assertStoreHasNoPendingWork lets a store be
\* closed only once its waits and holds are settled, which ends its streak.
CloseStore(s) ==
    /\ pc = "idle"
    /\ s \in active \cap Closable
    /\ active' = active \ {s}
    /\ passedOver' = [passedOver EXCEPT ![s] = 0]
    /\ UNCHANGED <<cursor, pc, run>>

ReopenStore(s) ==
    /\ pc = "idle"
    /\ s \in Store \ active
    /\ active' = active \cup {s}
    /\ UNCHANGED <<cursor, pc, run, passedOver>>

\* The worker calls allocateInventory with the ring of this run and the
\* cursor of the last one; resolveStoreOrder refuses a cursor off the ring.
BeginRun(wanted, quantity) ==
    /\ pc = "idle"
    /\ \A d \in Demand : wanted[d] > 0 => d[1][2] \in active
    /\ cursor # NoStore => \E i \in DOMAIN StoreOrder : StoreOrder[i] = cursor
    /\ requested' = wanted /\ left' = wanted
    /\ snapshot' = quantity /\ available' = quantity
    /\ ring' = StoreOrder
    /\ at' = IF cursor = NoStore THEN 1 ELSE IndexIn(StoreOrder, cursor)
    /\ tier' = 1 /\ roundStart' = 1 /\ offset' = 0 /\ grants' = 0
    /\ madeAnyGrant' = FALSE
    /\ pc' = "tier"
    /\ UNCHANGED <<active, cursor, passedOver>>

\* while (available > 0) ... one more round of the tier.
BeginRound ==
    /\ pc = "tier" /\ tier \in Tier
    /\ available > 0 /\ TierHasRemaining(tier) /\ Len(ring) > 0
    /\ roundStart' = at /\ offset' = 0 /\ grants' = 0
    /\ pc' = "round"
    /\ UNCHANGED <<active, cursor, requested, left, snapshot, available, ring,
                   at, tier, madeAnyGrant, passedOver>>

NextTier ==
    /\ pc = "tier" /\ tier \in Tier
    /\ available = 0 \/ ~TierHasRemaining(tier) \/ Len(ring) = 0
    /\ tier' = tier + 1
    /\ UNCHANGED <<active, cursor, pc, requested, left, snapshot, available,
                   ring, at, roundStart, offset, grants, madeAnyGrant,
                   passedOver>>

InRound == pc = "round" /\ offset < Len(ring) /\ available > 0

\* Mutant: the round counts from the cursor, which moves with every grant.
indexFromCursor == ((at - 1 + offset) % Len(ring)) + 1

storeIndex == ((roundStart - 1 + offset) % Len(ring)) + 1

\* The demands of this tier whose store has its turn.
group == <<tier, ring[storeIndex]>>

\* The first demand of the group that still has something remaining.
IsNextDemand(k) ==
    /\ left[<<group, k>>] > 0
    /\ \A j \in 1 .. k - 1 : left[<<group, j>>] = 0

Grant ==
    /\ InRound
    /\ \E k \in 1 .. DemandsPerStore :
        /\ IsNextDemand(k)
        /\ left' = [left EXCEPT ![<<group, k>>] = @ - 1]
    /\ available' = available - 1
    /\ grants' = grants + 1
    /\ madeAnyGrant' = TRUE
    /\ at' = (storeIndex % Len(ring)) + 1
    /\ offset' = offset + 1
    /\ UNCHANGED <<active, cursor, pc, requested, snapshot, ring, tier,
                   roundStart, passedOver>>

Skip ==
    /\ InRound
    /\ \A k \in 1 .. DemandsPerStore : left[<<group, k>>] = 0
    /\ offset' = offset + 1
    /\ UNCHANGED <<active, cursor, pc, requested, left, snapshot, available,
                   ring, at, tier, roundStart, grants, madeAnyGrant, passedOver>>

RoundOver == pc = "round" /\ (offset = Len(ring) \/ available = 0)

\* The code asserts that the round granted something before it goes on.
EndRound ==
    /\ RoundOver
    /\ grants > 0
    /\ pc' = "tier"
    /\ UNCHANGED <<active, cursor, run, passedOver>>

\* A store that asked in the first tier and got nothing while others did.
PassedOver(s) ==
    /\ madeAnyGrant
    /\ GroupTotal(requested)[<<1, s>>] > 0
    /\ GroupTotal(Granted)[<<1, s>>] = 0

\* Mutant: every run starts where the one before it started.
startCursor == cursor

nextCursor == IF madeAnyGrant THEN ring[at] ELSE cursor

\* The result is returned and the run stores nextCursor.
FinishRun ==
    /\ pc = "tier" /\ tier = LastTier + 1
    /\ cursor' = nextCursor
    /\ pc' = "done"
    /\ passedOver' = [s \in Store |->
                        IF PassedOver(s) THEN passedOver[s] + 1
                        ELSE IF madeAnyGrant THEN 0 ELSE passedOver[s]]
    /\ UNCHANGED <<active, run>>

\* The call's locals go out of scope.
Return ==
    /\ pc = "done"
    /\ pc' = "idle"
    /\ requested' = NoDemand /\ left' = NoDemand
    /\ snapshot' = 0 /\ available' = 0
    /\ ring' = <<>> /\ at' = 1 /\ tier' = 1
    /\ roundStart' = 1 /\ offset' = 0 /\ grants' = 0
    /\ madeAnyGrant' = FALSE
    /\ UNCHANGED <<active, cursor, passedOver>>

Compute == BeginRound \/ NextTier \/ Grant \/ Skip \/ EndRound \/ FinishRun \/ Return

Next ==
    \/ \E s \in Store : CloseStore(s) \/ ReopenStore(s)
    \/ \E wanted \in [Demand -> 0 .. MaxDemand], quantity \in 0 .. MaxAvailable :
          BeginRun(wanted, quantity)
    \/ Compute

Spec == Init /\ [][Next]_vars

FairSpec == Spec /\ WF_vars(Compute)

-----------------------------------------------------------------------------
TypeOK ==
    /\ active \subseteq Store
    /\ cursor \in Store \cup {NoStore}
    /\ pc \in {"idle", "tier", "round", "done"}
    /\ requested \in [Demand -> 0 .. MaxDemand]
    /\ left \in [Demand -> 0 .. MaxDemand]
    /\ snapshot \in 0 .. MaxAvailable /\ available \in 0 .. MaxAvailable
    /\ ring \in Seq(Store) /\ at \in 1 .. Len(StoreList)
    /\ tier \in 1 .. LastTier + 1
    /\ roundStart \in 1 .. Len(StoreList)
    /\ offset \in 0 .. Len(ring) /\ grants \in 0 .. Len(ring)
    /\ madeAnyGrant \in BOOLEAN
    /\ passedOver \in [Store -> Nat]

\* The result of a run is a fair share of the snapshot between the stores of
\* each tier: the loop of allocateInventory refines the contract FairShare.
ResultIsFairShare ==
    pc = "done" =>
        IsFairShare(GroupTotal(requested), [g \in Group |-> g[1]], snapshot,
                    GroupTotal(Granted))

\* Among the demands one store has in one tier, a later one is touched only
\* when the earlier ones are satisfied, at every moment of the run.
EarlierDemandFirst ==
    \A g \in Group : \A k \in 1 .. DemandsPerStore : \A j \in 1 .. k - 1 :
        left[<<g, k>>] < requested[<<g, k>>] => left[<<g, j>>] = 0

\* allocateInventory asserts 'Allocation round made no progress' never fires:
\* a round that was worth starting always grants something.
RoundMakesProgress == RoundOver => grants > 0

\* What allocateInventory promises of every run, at every moment of it.
SharesFair ==
    TypeOK /\ ResultIsFairShare /\ EarlierDemandFirst /\ RoundMakesProgress

\* The persisted cursor rotates over the runs: a store asking in the first
\* tier is passed over, in favour of others, in fewer runs than there are
\* stores, whatever the lower tiers do to the cursor they share with it.
StoresServed ==
    \A s \in Store : passedOver[s] < Len(StoreList)

\* resolveStoreOrder asserts 'startCursor must occur in storeOrder' of every
\* run: the store the last run left the cursor at is still on the ring.
CursorOccursInStoreOrder ==
    pc = "idle" => cursor \in active \cup {NoStore}
=============================================================================
