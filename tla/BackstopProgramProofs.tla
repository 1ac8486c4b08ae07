------------------------ MODULE BackstopProgramProofs ------------------------
(***************************************************************************)
(* Theorems about the on-chain program, for any number of mints, keys and   *)
(* snapshot ids, any amounts and any clock.                                 *)
(***************************************************************************)
EXTENDS BackstopProgram, TLAPS

-----------------------------------------------------------------------------
(* The arithmetic of calculate_coverage_bps. *)

\* Euclid's identity for \div, the only fact about division needed.
LEMMA DivBounds ==
    ASSUME NEW n \in Nat, NEW d \in Nat, d > 0
    PROVE  /\ n \div d \in Nat
           /\ (n \div d) * d <= n
           /\ n < (n \div d) * d + d
  BY SMT

LEMMA ProductIsNat ==
    ASSUME NEW a \in Nat, NEW b \in Nat
    PROVE  a * b \in Nat
  BY SMT

LEMMA ProductMonotonic ==
    ASSUME NEW a \in Nat, NEW b \in Nat, NEW c \in Nat, a <= b
    PROVE  a * c <= b * c
  BY SMT

\* Floor division never rounds a shortfall up to full coverage.
LEMMA ShortfallStaysBelowFull ==
    ASSUME NEW backing \in Nat, NEW observed \in Nat, backing < observed
    PROVE  (backing * FullBps) \div observed < FullBps
  <1> DEFINE q == (backing * FullBps) \div observed
  <1>1. q \in Nat /\ q * observed <= backing * FullBps
    BY DivBounds DEF FullBps
  <1>2. backing * FullBps < observed * FullBps
    BY DEF FullBps
  <1>3. ASSUME FullBps <= q PROVE FALSE
    <2>1. FullBps * observed <= q * observed
      BY <1>1, <1>3, ProductMonotonic DEF FullBps
    <2> QED BY <1>1, <1>2, <2>1 DEF FullBps
  <1> QED BY <1>1, <1>3 DEF FullBps

LEMMA CoverIsFull ==
    ASSUME NEW backing \in Nat, NEW observed \in Nat, observed > 0, observed <= backing
    PROVE  (backing * FullBps) \div observed >= FullBps
  <1> DEFINE q == (backing * FullBps) \div observed
  <1>1. q \in Nat /\ backing * FullBps < q * observed + observed
    BY DivBounds DEF FullBps
  <1>2. observed * FullBps <= backing * FullBps
    BY DEF FullBps
  <1>3. ASSUME q < FullBps PROVE FALSE
    <2>1. q + 1 <= FullBps
      BY <1>1, <1>3 DEF FullBps
    <2>2. (q + 1) * observed <= FullBps * observed
      BY <1>1, <2>1, ProductMonotonic DEF FullBps
    <2>3. (q + 1) * observed = q * observed + observed
      BY <1>1
    <2> QED BY <1>1, <1>2, <2>2, <2>3, ProductIsNat DEF FullBps
  <1> QED BY <1>1, <1>3 DEF FullBps

\* calculate_coverage_bps fits its field and reports full coverage exactly when
\* the backing is enough.
LEMMA CoverageBps ==
    ASSUME NEW observed \in Amounts, NEW backing \in Amounts
    PROVE  /\ CalculateCoverageBps(observed, backing) \in 0 .. FullBps
           /\ CalculateCoverageBps(observed, backing) = FullBps <=> observed <= backing
  <1>1. observed \in Nat /\ backing \in Nat
    BY BoundAssumption DEF Amounts
  <1>2. CASE observed = 0
    BY <1>1, <1>2 DEF CalculateCoverageBps, FullBps
  <1>3. CASE observed > 0 /\ observed <= backing
    <2>1. (backing * FullBps) \div observed >= FullBps
      BY <1>1, <1>3, CoverIsFull
    <2>2. (backing * FullBps) \div observed \in Nat
      BY <1>1, <1>3, DivBounds DEF FullBps
    <2> QED BY <1>1, <1>3, <2>1, <2>2 DEF CalculateCoverageBps, FullBps
  <1>4. CASE backing < observed
    <2>1. (backing * FullBps) \div observed < FullBps
      BY <1>1, <1>4, ShortfallStaysBelowFull
    <2>2. (backing * FullBps) \div observed \in Nat
      BY <1>1, <1>4, DivBounds DEF FullBps
    <2> QED BY <1>1, <1>4, <2>1, <2>2 DEF CalculateCoverageBps, FullBps
  <1> QED BY <1>1, <1>2, <1>3, <1>4

-----------------------------------------------------------------------------
(* Type correctness. *)

LEMMA ExpiryIsTimestamp ==
    ASSUME NEW t \in Timestamps, NEW e \in Timestamps, ValidateExpiry(t, e)
    PROVE  t < e /\ e <= t + MAX_SNAPSHOT_VALIDITY_SECS
  BY BoundAssumption DEF ValidateExpiry, SaturatingAdd, Timestamps

\* evaluate_snapshot always gives one of its result codes.
LEMMA EvaluateResultType ==
    ASSUME NEW mint \in Mints, NEW key \in SnapshotKeys
    PROVE  EvaluateResult(mint, key) \in EvaluateResults
  BY DEF EvaluateResult, EvaluateResults, CheckSnapshotSafety

LEMMA TypeInit == Init => TypeOK
  BY BoundAssumption DEF Init, TypeOK, Timestamps

LEMMA TypeInitializeAsset ==
    ASSUME TypeOK,
           NEW signer \in Keys, NEW m \in Mints, NEW a \in AssetIds, NEW k \in Keys,
           InitializeAsset(signer, m, a, k)
    PROVE  TypeOK'
  <1>1. [authority |-> signer, mint |-> m, attestor |-> k, latest_snapshot |-> DefaultKey,
         latest_snapshot_id |-> ZeroId, has_snapshot |-> FALSE, asset_id |-> a] \in AssetRegistry
    BY IdAssumption DEF AssetRegistry
  <1> QED BY <1>1 DEF TypeOK, InitializeAsset

\* What submit_snapshot writes is a well-formed account.
LEMMA SubmittedSnapshot ==
    ASSUME TypeOK,
           NEW signer \in Keys, NEW m \in Mints, NEW id \in SnapshotIds,
           NEW b \in Amounts, NEW e \in Timestamps,
           SubmitSnapshot(signer, m, id, b, e)
    PROVE  /\ SnapshotPda(m, id) \in SnapshotKeys
           /\ snapshots'[SnapshotPda(m, id)] \in Snapshot
           /\ snapshots'[SnapshotPda(m, id)] # NoAccount
  <1>1. SnapshotPda(m, id) \in SnapshotKeys
    BY DEF SnapshotPda, SnapshotKeys
  <1>2. registries[m] \in AssetRegistry /\ supply[m] \in Amounts /\ now \in Timestamps
    BY DEF TypeOK, SubmitSnapshot
  <1>3. CalculateCoverageBps(supply[m], b) \in 0 .. FullBps
    BY <1>2, CoverageBps
  <1>4. [registry |-> m, mint |-> m, asset_id |-> registries[m].asset_id,
         observed_supply |-> supply[m], attested_backing |-> b,
         coverage_bps |-> CalculateCoverageBps(supply[m], b), timestamp |-> now,
         expires_at |-> e, attestor |-> registries[m].attestor,
         status |-> StatusOf(supply[m], b)] \in Snapshot
    BY <1>2, <1>3 DEF Snapshot, AssetRegistry, StatusOf, SnapshotStatus
  <1>5. snapshots'[SnapshotPda(m, id)] \in Snapshot
    BY <1>1, <1>4 DEF TypeOK, SubmitSnapshot
  <1> QED BY <1>1, <1>5, NoAccountAssumption

LEMMA TypeSubmitSnapshot ==
    ASSUME TypeOK,
           NEW signer \in Keys, NEW m \in Mints, NEW id \in SnapshotIds,
           NEW b \in Amounts, NEW e \in Timestamps,
           SubmitSnapshot(signer, m, id, b, e)
    PROVE  TypeOK'
  <1> DEFINE key == SnapshotPda(m, id)
  <1>1. key \in SnapshotKeys
    BY DEF SnapshotPda, SnapshotKeys
  <1>2. registries[m] \in AssetRegistry
    BY DEF TypeOK, SubmitSnapshot
  <1>3. snapshots' \in [SnapshotKeys -> Snapshot \cup {NoAccount}]
    BY <1>1, SubmittedSnapshot DEF TypeOK, SubmitSnapshot
  <1>4. PointTo(registries[m], key, id) \in AssetRegistry
    BY <1>1, <1>2 DEF PointTo, AssetRegistry
  <1>5. registries' \in [Mints -> AssetRegistry \cup {NoAccount}]
    BY <1>4 DEF TypeOK, SubmitSnapshot
  <1> QED BY <1>3, <1>5 DEF TypeOK, SubmitSnapshot

LEMMA TypeUpdateAttestor ==
    ASSUME TypeOK,
           NEW signer \in Keys, NEW m \in Mints, NEW k \in Keys,
           UpdateAttestor(signer, m, k)
    PROVE  TypeOK'
  <1>1. registries[m] \in AssetRegistry
    BY DEF TypeOK, UpdateAttestor
  <1>2. [registries[m] EXCEPT !.attestor = k] \in AssetRegistry
    BY <1>1 DEF AssetRegistry
  <1> QED BY <1>2 DEF TypeOK, UpdateAttestor

LEMMA TypeStep ==
    ASSUME TypeOK, [Next]_vars
    PROVE  TypeOK'
  <1>1. ASSUME NEW signer \in Keys, NEW m \in Mints, NEW a \in AssetIds, NEW k \in Keys,
               InitializeAsset(signer, m, a, k)
        PROVE  TypeOK'
    BY <1>1, TypeInitializeAsset
  <1>2. ASSUME NEW signer \in Keys, NEW m \in Mints, NEW id \in SnapshotIds,
               NEW b \in Amounts, NEW e \in Timestamps,
               SubmitSnapshot(signer, m, id, b, e)
        PROVE  TypeOK'
    BY <1>2, TypeSubmitSnapshot
  <1>3. ASSUME NEW signer \in Keys, NEW m \in Mints, NEW k \in Keys,
               UpdateAttestor(signer, m, k)
        PROVE  TypeOK'
    BY <1>3, TypeUpdateAttestor
  <1>4. ASSUME NEW m \in Mints, NEW key \in SnapshotKeys, EvaluateSnapshot(m, key)
        PROVE  TypeOK'
    BY <1>4, EvaluateResultType DEF TypeOK, EvaluateSnapshot
  <1>5. ASSUME NEW m \in Mints, NEW amount \in Amounts, ChangeSupply(m, amount)
        PROVE  TypeOK'
    BY <1>5 DEF TypeOK, ChangeSupply
  <1>6. CASE AdvanceClock
    BY <1>6, BoundAssumption DEF TypeOK, AdvanceClock, Timestamps
  <1>7. CASE UNCHANGED vars
    BY <1>7 DEF TypeOK, vars
  <1> QED BY <1>1, <1>2, <1>3, <1>4, <1>5, <1>6, <1>7 DEF Next

\* Every account always holds what its struct declares; in particular the
\* coverage fits the u16 it is cast to.
THEOREM TypeCorrect == Spec => []TypeOK
  <1>1. Init => TypeOK
    BY TypeInit
  <1>2. TypeOK /\ [Next]_vars => TypeOK'
    BY TypeStep
  <1> QED BY <1>1, <1>2, PTL DEF Spec

-----------------------------------------------------------------------------
(* The inductive invariant.                                                 *)
(*                                                                          *)
(* GateSound is not inductive: it speaks of the snapshot a registry points  *)
(* to and of nothing that keeps the pointer, the derived fields and the     *)
(* clock in step.  Inv adds what does.                                      *)

LEMMA InvInit == Init => Inv
  BY TypeInit DEF Init, Inv, RegistryInv, SnapshotInv, Exists

LEMMA InvInitializeAsset ==
    ASSUME Inv,
           NEW signer \in Keys, NEW m \in Mints, NEW a \in AssetIds, NEW k \in Keys,
           InitializeAsset(signer, m, a, k)
    PROVE  RegistryInv' /\ SnapshotInv'
  <1> USE DEF Inv
  <1>1. registries \in [Mints -> AssetRegistry \cup {NoAccount}]
    BY DEF TypeOK
  <1>2. /\ registries[m] = NoAccount
        /\ registries' = [registries EXCEPT ![m] = registries'[m]]
        /\ registries'[m] # NoAccount => /\ registries'[m].mint = m
                                         /\ registries'[m].authority = BACKSTOP_ADMIN
                                         /\ registries'[m].latest_snapshot = DefaultKey
                                         /\ ~registries'[m].has_snapshot
        /\ snapshots' = snapshots /\ now' = now
    BY <1>1 DEF InitializeAsset
  <1>3. RegistryInv'
    BY <1>1, <1>2 DEF RegistryInv, Exists
  <1>4. SnapshotInv'
    <2> SUFFICES ASSUME NEW key \in SnapshotKeys, Exists(key)
                 PROVE  registries'[key[1]] = registries[key[1]]
      BY <1>2 DEF SnapshotInv, Exists
    <2>1. key[1] \in Mints /\ registries[key[1]] # NoAccount
      BY DEF SnapshotInv, SnapshotKeys
    <2> QED BY <1>1, <1>2, <2>1
  <1> QED BY <1>3, <1>4

LEMMA InvSubmitSnapshot ==
    ASSUME Inv,
           NEW signer \in Keys, NEW m \in Mints, NEW id \in SnapshotIds,
           NEW b \in Amounts, NEW e \in Timestamps,
           SubmitSnapshot(signer, m, id, b, e)
    PROVE  RegistryInv' /\ SnapshotInv'
  <1> USE DEF Inv
  <1> DEFINE key == SnapshotPda(m, id)
  <1>1. /\ registries \in [Mints -> AssetRegistry \cup {NoAccount}]
        /\ snapshots \in [SnapshotKeys -> Snapshot \cup {NoAccount}]
        /\ registries[m] \in AssetRegistry
        /\ now \in Timestamps /\ now \in Int
    BY DEF TypeOK, SubmitSnapshot, Timestamps
  <1>2. key \in SnapshotKeys /\ key[1] = m /\ key # DefaultKey /\ key = <<m, id>>
    BY KeyAssumption DEF SnapshotPda, SnapshotKeys
  <1>3. /\ registries' = [registries EXCEPT ![m] = PointTo(registries[m], key, id)]
        /\ registries'[m] = PointTo(registries[m], key, id)
        /\ registries'[m].mint = registries[m].mint
        /\ registries'[m].authority = registries[m].authority
        /\ registries'[m].latest_snapshot = key
        /\ registries'[m].latest_snapshot_id = id
        /\ registries'[m].has_snapshot = TRUE
        /\ registries'[m] \in AssetRegistry
    BY <1>1, <1>2 DEF SubmitSnapshot, PointTo, AssetRegistry
  <1>4. /\ snapshots[key] = NoAccount
        /\ snapshots' = [snapshots EXCEPT ![key] = snapshots'[key]]
        /\ now' = now
    BY <1>1, <1>2 DEF SubmitSnapshot, SnapshotInit
  <1>5. /\ snapshots'[key].registry = m
        /\ snapshots'[key].mint = m
        /\ snapshots'[key].timestamp = now
        /\ snapshots'[key].expires_at = e
        /\ snapshots'[key].status =
               StatusOf(snapshots'[key].observed_supply, snapshots'[key].attested_backing)
        /\ snapshots'[key].coverage_bps =
               CalculateCoverageBps(snapshots'[key].observed_supply, snapshots'[key].attested_backing)
    BY <1>1, <1>2 DEF SubmitSnapshot
  <1>6. snapshots'[key] # NoAccount
    BY SubmittedSnapshot
  <1>7. now < e /\ e <= now + MAX_SNAPSHOT_VALIDITY_SECS
    BY <1>1, ExpiryIsTimestamp DEF SubmitSnapshot
  <1>8. registries'[m] # NoAccount
    BY <1>3, NoAccountAssumption
  <1>9. RegistryInv'
    <2> SUFFICES ASSUME NEW n \in Mints, registries'[n] # NoAccount
                 PROVE  LET r == registries'[n] IN
                        /\ r.mint = n
                        /\ r.authority = BACKSTOP_ADMIN
                        /\ r.has_snapshot => /\ r.latest_snapshot = SnapshotPda(n, r.latest_snapshot_id)
                                             /\ snapshots'[r.latest_snapshot] # NoAccount
                        /\ ~r.has_snapshot => r.latest_snapshot = DefaultKey
      BY DEF RegistryInv, Exists
    <2>1. CASE n = m
      BY <2>1, <1>1, <1>3, <1>6, NoAccountAssumption DEF RegistryInv
    <2>2. CASE n # m
      <3>1. registries'[n] = registries[n]
        BY <2>2, <1>1, <1>3
      <3>2. ASSUME registries[n].has_snapshot
            PROVE  snapshots'[registries[n].latest_snapshot] # NoAccount
        <4>1. /\ registries[n].latest_snapshot = SnapshotPda(n, registries[n].latest_snapshot_id)
              /\ Exists(registries[n].latest_snapshot)
              /\ registries[n] \in AssetRegistry
          BY <3>1, <3>2, <1>1 DEF RegistryInv
        <4>2. registries[n].latest_snapshot \in SnapshotKeys /\ registries[n].latest_snapshot # key
          BY <4>1, <2>2, <1>2 DEF SnapshotPda, SnapshotKeys, AssetRegistry
        <4> QED BY <4>1, <4>2, <1>1, <1>4 DEF Exists
      <3> QED BY <3>1, <3>2 DEF RegistryInv
    <2> QED BY <2>1, <2>2
  <1>10. SnapshotInv'
    <2> SUFFICES ASSUME NEW k \in SnapshotKeys, snapshots'[k] # NoAccount
                 PROVE  LET s == snapshots'[k]
                            r == registries'[k[1]]
                        IN  /\ s.registry = k[1] /\ s.mint = k[1]
                            /\ s.status = StatusOf(s.observed_supply, s.attested_backing)
                            /\ s.coverage_bps = CalculateCoverageBps(s.observed_supply, s.attested_backing)
                            /\ s.timestamp < s.expires_at
                            /\ s.expires_at <= s.timestamp + MAX_SNAPSHOT_VALIDITY_SECS
                            /\ s.timestamp <= now
                            /\ r # NoAccount
                            /\ r.has_snapshot
                            /\ s.timestamp <= snapshots'[r.latest_snapshot].timestamp
      BY <1>4 DEF SnapshotInv, Exists
    <2>1. CASE k = key
      BY <2>1, <1>1, <1>2, <1>3, <1>5, <1>7, <1>8
    <2>2. CASE k # key
      <3>1. snapshots'[k] = snapshots[k] /\ Exists(k) /\ k[1] \in Mints
        BY <2>2, <1>1, <1>4 DEF Exists, SnapshotKeys
      <3>2. CASE k[1] = m
        BY <3>1, <3>2, <1>3, <1>5, <1>8 DEF SnapshotInv
      <3>3. CASE k[1] # m
        <4>1. registries'[k[1]] = registries[k[1]]
          BY <3>1, <3>3, <1>1, <1>3
        <4>2. /\ registries[k[1]].latest_snapshot =
                     SnapshotPda(k[1], registries[k[1]].latest_snapshot_id)
              /\ registries[k[1]] \in AssetRegistry
          BY <3>1, <1>1 DEF RegistryInv, SnapshotInv
        <4>3. /\ registries[k[1]].latest_snapshot \in SnapshotKeys
              /\ registries[k[1]].latest_snapshot # key
          BY <4>2, <3>1, <3>3, <1>2 DEF SnapshotPda, SnapshotKeys, AssetRegistry
        <4>4. snapshots'[registries[k[1]].latest_snapshot] = snapshots[registries[k[1]].latest_snapshot]
          BY <4>3, <1>1, <1>4
        <4> QED BY <3>1, <4>1, <4>4 DEF SnapshotInv
      <3> QED BY <3>2, <3>3
    <2> QED BY <2>1, <2>2
  <1> QED BY <1>9, <1>10

LEMMA InvUpdateAttestor ==
    ASSUME Inv,
           NEW signer \in Keys, NEW m \in Mints, NEW k \in Keys,
           UpdateAttestor(signer, m, k)
    PROVE  RegistryInv' /\ SnapshotInv'
  <1> USE DEF Inv
  <1>1. /\ registries \in [Mints -> AssetRegistry \cup {NoAccount}]
        /\ registries[m] \in AssetRegistry
    BY DEF TypeOK, UpdateAttestor
  <1>2. /\ registries'[m] = [registries[m] EXCEPT !.attestor = k]
        /\ registries'[m] \in AssetRegistry
        /\ registries'[m] # NoAccount
        /\ \A n \in Mints : n # m => registries'[n] = registries[n]
        /\ snapshots' = snapshots /\ now' = now
    BY <1>1, NoAccountAssumption DEF UpdateAttestor, AssetRegistry
  <1>3. /\ registries'[m].mint = registries[m].mint
        /\ registries'[m].authority = registries[m].authority
        /\ registries'[m].latest_snapshot = registries[m].latest_snapshot
        /\ registries'[m].latest_snapshot_id = registries[m].latest_snapshot_id
        /\ registries'[m].has_snapshot = registries[m].has_snapshot
        /\ registries[m] # NoAccount
    BY <1>1, <1>2 DEF AssetRegistry, UpdateAttestor
  <1>4. RegistryInv'
    <2> SUFFICES ASSUME NEW n \in Mints, registries'[n] # NoAccount
                 PROVE  LET r == registries'[n] IN
                        /\ r.mint = n
                        /\ r.authority = BACKSTOP_ADMIN
                        /\ r.has_snapshot => /\ r.latest_snapshot = SnapshotPda(n, r.latest_snapshot_id)
                                             /\ snapshots[r.latest_snapshot] # NoAccount
                        /\ ~r.has_snapshot => r.latest_snapshot = DefaultKey
      BY <1>2 DEF RegistryInv, Exists
    <2>1. CASE n = m
      BY <2>1, <1>3 DEF RegistryInv, Exists
    <2>2. CASE n # m
      BY <2>2, <1>2 DEF RegistryInv, Exists
    <2> QED BY <2>1, <2>2
  <1>5. SnapshotInv'
    <2> SUFFICES ASSUME NEW key \in SnapshotKeys, Exists(key)
                 PROVE  /\ registries'[key[1]] # NoAccount
                        /\ registries'[key[1]].has_snapshot
                        /\ registries'[key[1]].latest_snapshot = registries[key[1]].latest_snapshot
      BY <1>2 DEF SnapshotInv, Exists
    <2>1. /\ key[1] \in Mints
          /\ registries[key[1]] # NoAccount /\ registries[key[1]].has_snapshot
      BY DEF SnapshotInv, SnapshotKeys
    <2>2. CASE key[1] = m
      BY <2>1, <2>2, <1>2, <1>3
    <2>3. CASE key[1] # m
      BY <2>1, <2>3, <1>2
    <2> QED BY <2>2, <2>3
  <1> QED BY <1>4, <1>5

LEMMA InvStep ==
    ASSUME Inv, [Next]_vars
    PROVE  Inv'
  <1>1. TypeOK'
    BY TypeStep DEF Inv
  <1>2. ASSUME registries' = registries, snapshots' = snapshots, now \in Nat, now' \in Nat, now <= now'
        PROVE  RegistryInv' /\ SnapshotInv'
    <2>1. RegistryInv'
      BY <1>2 DEF Inv, RegistryInv, Exists
    <2>2. SnapshotInv'
      <3>1. \A key \in SnapshotKeys : Exists(key) => snapshots[key].timestamp \in Int
        BY DEF Inv, TypeOK, Exists, Snapshot, Timestamps
      <3> QED BY <1>2, <3>1 DEF Inv, SnapshotInv, Exists
    <2> QED BY <2>1, <2>2
  <1>3. now \in Nat
    BY BoundAssumption DEF Inv, TypeOK, Timestamps
  <1>4. ASSUME NEW signer \in Keys, NEW m \in Mints, NEW a \in AssetIds, NEW k \in Keys,
               InitializeAsset(signer, m, a, k)
        PROVE  Inv'
    BY <1>1, <1>4, InvInitializeAsset DEF Inv
  <1>5. ASSUME NEW signer \in Keys, NEW m \in Mints, NEW id \in SnapshotIds,
               NEW b \in Amounts, NEW e \in Timestamps,
               SubmitSnapshot(signer, m, id, b, e)
        PROVE  Inv'
    BY <1>1, <1>5, InvSubmitSnapshot DEF Inv
  <1>6. ASSUME NEW signer \in Keys, NEW m \in Mints, NEW k \in Keys,
               UpdateAttestor(signer, m, k)
        PROVE  Inv'
    BY <1>1, <1>6, InvUpdateAttestor DEF Inv
  <1>7. ASSUME NEW m \in Mints, NEW key \in SnapshotKeys, EvaluateSnapshot(m, key)
        PROVE  Inv'
    BY <1>1, <1>2, <1>3, <1>7 DEF Inv, EvaluateSnapshot
  <1>8. ASSUME NEW m \in Mints, NEW amount \in Amounts, ChangeSupply(m, amount)
        PROVE  Inv'
    BY <1>1, <1>2, <1>3, <1>8 DEF Inv, ChangeSupply
  <1>9. CASE AdvanceClock
    BY <1>1, <1>2, <1>3, <1>9 DEF Inv, AdvanceClock
  <1>10. CASE UNCHANGED vars
    BY <1>1, <1>2, <1>3, <1>10 DEF Inv, vars
  <1> QED BY <1>4, <1>5, <1>6, <1>7, <1>8, <1>9, <1>10 DEF Next

\* The invariant everything below rests on: pointers name existing, newest
\* accounts and every stored verdict matches the amounts it was computed from.
THEOREM InvHolds == Spec => []Inv
  <1>1. Init => Inv
    BY InvInit
  <1>2. Inv /\ [Next]_vars => Inv'
    BY InvStep
  <1> QED BY <1>1, <1>2, PTL DEF Spec

-----------------------------------------------------------------------------
(* What evaluate_snapshot's Ok comes down to. *)

\* The account is the one the registry points to, live, and covers the supply.
Covers(registry, snapshot, key, t, amount) ==
    /\ registry # NoAccount
    /\ snapshot # NoAccount
    /\ registry.has_snapshot
    /\ registry.latest_snapshot = key
    /\ ~(t >= snapshot.expires_at)
    /\ snapshot.status = "Verified"
    /\ amount <= snapshot.attested_backing

LEMMA OkMeansCovers ==
    ASSUME NEW mint \in Mints, NEW key \in SnapshotKeys
    PROVE  EvaluateResult(mint, key) = "Ok" =>
               Covers(registries[mint], snapshots[key], key, now, supply[mint])
  BY DEF EvaluateResult, CheckSnapshotSafety, Covers

LEMMA OkMeansCoversNext ==
    ASSUME NEW mint \in Mints, NEW key \in SnapshotKeys
    PROVE  EvaluateResult(mint, key)' = "Ok" =>
               Covers(registries'[mint], snapshots'[key], key, now', supply'[mint])
  BY DEF EvaluateResult, CheckSnapshotSafety, Covers

\* Under the invariant no other check of the instruction can fail.
LEMMA CoversMeansOk ==
    ASSUME Inv, NEW mint \in Mints, NEW key \in SnapshotKeys,
           Covers(registries[mint], snapshots[key], key, now, supply[mint])
    PROVE  EvaluateResult(mint, key) = "Ok"
  <1>1. /\ registries[mint].mint = mint
        /\ key = SnapshotPda(mint, registries[mint].latest_snapshot_id)
    BY DEF Inv, RegistryInv, Covers
  <1>2. key[1] = mint /\ key # DefaultKey
    BY <1>1, KeyAssumption DEF SnapshotPda, SnapshotKeys
  <1>3. snapshots[key].mint = mint /\ snapshots[key].registry = mint
    BY <1>2 DEF Inv, SnapshotInv, Exists, Covers
  <1> QED BY <1>1, <1>2, <1>3 DEF EvaluateResult, CheckSnapshotSafety, AssertSnapshotBinding, Covers

LEMMA CoversMeansOkNext ==
    ASSUME Inv', NEW mint \in Mints, NEW key \in SnapshotKeys,
           Covers(registries'[mint], snapshots'[key], key, now', supply'[mint])
    PROVE  EvaluateResult(mint, key)' = "Ok"
  <1>1. /\ registries'[mint].mint = mint
        /\ key = SnapshotPda(mint, registries'[mint].latest_snapshot_id)
    BY DEF Inv, RegistryInv, Covers
  <1>2. key[1] = mint /\ key # DefaultKey
    BY <1>1, KeyAssumption DEF SnapshotPda, SnapshotKeys
  <1>3. snapshots'[key].mint = mint /\ snapshots'[key].registry = mint
    BY <1>2 DEF Inv, SnapshotInv, Exists, Covers
  <1> QED BY <1>1, <1>2, <1>3 DEF EvaluateResult, CheckSnapshotSafety, AssertSnapshotBinding, Covers

-----------------------------------------------------------------------------
(* Safety. *)

\* A snapshot's stored status and its stored coverage never contradict each
\* other, whatever the amounts: no rounding hides a shortfall.
THEOREM CoverageAgreement == Spec => []CoverageAgreesWithStatus
  <1>1. Inv => CoverageAgreesWithStatus
    <2> SUFFICES ASSUME Inv, NEW key \in SnapshotKeys, Exists(key)
                 PROVE  snapshots[key].status = "Verified" <=> snapshots[key].coverage_bps = FullBps
      BY DEF CoverageAgreesWithStatus
    <2>1. snapshots[key].observed_supply \in Amounts /\ snapshots[key].attested_backing \in Amounts
      BY DEF Inv, TypeOK, Exists, Snapshot
    <2>2. snapshots[key].coverage_bps = FullBps <=>
              snapshots[key].observed_supply <= snapshots[key].attested_backing
      BY <2>1, CoverageBps DEF Inv, SnapshotInv
    <2>3. snapshots[key].status = "Verified" <=>
              snapshots[key].observed_supply <= snapshots[key].attested_backing
      BY DEF Inv, SnapshotInv, StatusOf
    <2> QED BY <2>2, <2>3
  <1> QED BY <1>1, InvHolds, PTL

\* When evaluate_snapshot says Ok, the snapshot is the newest one of that mint,
\* younger than MAX_SNAPSHOT_VALIDITY_SECS, and covered the supply then and now.
THEOREM GateIsSound == Spec => []GateSound
  <1>1. Inv => GateSound
    <2> SUFFICES ASSUME Inv, NEW mint \in Mints, NEW key \in SnapshotKeys,
                        EvaluateResult(mint, key) = "Ok"
                 PROVE  LET s == snapshots[key] IN
                        /\ key[1] = mint
                        /\ \A id \in SnapshotIds : Exists(<<mint, id>>) =>
                               snapshots[<<mint, id>>].timestamp <= s.timestamp
                        /\ s.timestamp <= now /\ now < s.timestamp + MAX_SNAPSHOT_VALIDITY_SECS
                        /\ s.observed_supply <= s.attested_backing
                        /\ supply[mint] <= s.attested_backing
      BY DEF GateSound
    <2>1. Covers(registries[mint], snapshots[key], key, now, supply[mint])
      BY OkMeansCovers
    <2>2. key[1] = mint /\ Exists(key)
      BY <2>1 DEF Inv, RegistryInv, Covers, SnapshotPda, Exists
    <2>3. ASSUME NEW id \in SnapshotIds, Exists(<<mint, id>>)
          PROVE  snapshots[<<mint, id>>].timestamp <= snapshots[key].timestamp
      <3>1. <<mint, id>> \in SnapshotKeys /\ <<mint, id>>[1] = mint
        BY DEF SnapshotKeys
      <3> QED BY <2>1, <2>3, <3>1 DEF Inv, SnapshotInv, Covers
    <2>4. /\ snapshots[key].timestamp <= now
          /\ now < snapshots[key].timestamp + MAX_SNAPSHOT_VALIDITY_SECS
      <3>1. /\ snapshots[key].timestamp \in Int /\ snapshots[key].expires_at \in Int
            /\ now \in Int /\ MAX_SNAPSHOT_VALIDITY_SECS \in Int
        BY <2>2, BoundAssumption DEF Inv, TypeOK, Exists, Snapshot, Timestamps
      <3>2. /\ snapshots[key].timestamp <= now
            /\ snapshots[key].expires_at <= snapshots[key].timestamp + MAX_SNAPSHOT_VALIDITY_SECS
        BY <2>2 DEF Inv, SnapshotInv
      <3> QED BY <2>1, <3>1, <3>2 DEF Covers
    <2>5. snapshots[key].observed_supply <= snapshots[key].attested_backing
      BY <2>1, <2>2 DEF Inv, SnapshotInv, Covers, StatusOf
    <2>6. supply[mint] <= snapshots[key].attested_backing
      BY <2>1 DEF Covers
    <2> QED BY <2>2, <2>3, <2>4, <2>5, <2>6
  <1> QED BY <1>1, InvHolds, PTL

-----------------------------------------------------------------------------
(* What a step may never do. *)

LEMMA SnapshotsKept ==
    ASSUME Inv, [Next]_vars, NEW key \in SnapshotKeys, Exists(key)
    PROVE  snapshots'[key] = snapshots[key]
  <1>1. ASSUME NEW signer \in Keys, NEW m \in Mints, NEW id \in SnapshotIds,
               NEW b \in Amounts, NEW e \in Timestamps,
               SubmitSnapshot(signer, m, id, b, e)
        PROVE  snapshots'[key] = snapshots[key]
    <2>1. SnapshotPda(m, id) # key
      BY <1>1 DEF SubmitSnapshot, SnapshotInit, Exists
    <2> QED BY <1>1, <2>1 DEF SubmitSnapshot, Inv, TypeOK
  <1> QED BY <1>1 DEF Next, vars, InitializeAsset, UpdateAttestor, EvaluateSnapshot, ChangeSupply, AdvanceClock

LEMMA RegistriesKept ==
    ASSUME Inv, [Next]_vars, NEW mint \in Mints, registries[mint] # NoAccount
    PROVE  /\ registries'[mint] # NoAccount
           /\ registries'[mint].mint = registries[mint].mint
           /\ registries'[mint].authority = registries[mint].authority
           /\ registries'[mint].asset_id = registries[mint].asset_id
           /\ registries[mint].has_snapshot => registries'[mint].has_snapshot
  <1>1. registries \in [Mints -> AssetRegistry \cup {NoAccount}] /\ registries[mint] \in AssetRegistry
    BY DEF Inv, TypeOK
  <1>2. registries' \in [Mints -> AssetRegistry \cup {NoAccount}]
    BY TypeStep DEF Inv, TypeOK
  <1>3. ASSUME NEW signer \in Keys, NEW m \in Mints, NEW a \in AssetIds, NEW k \in Keys,
               InitializeAsset(signer, m, a, k)
        PROVE  registries'[mint] = registries[mint]
    BY <1>1, <1>3 DEF InitializeAsset
  <1>4. ASSUME NEW signer \in Keys, NEW m \in Mints, NEW id \in SnapshotIds,
               NEW b \in Amounts, NEW e \in Timestamps,
               SubmitSnapshot(signer, m, id, b, e)
        PROVE  \/ registries'[mint] = registries[mint]
               \/ registries'[mint] = PointTo(registries[mint], SnapshotPda(m, id), id)
    BY <1>1, <1>4 DEF SubmitSnapshot
  <1>5. ASSUME NEW id \in SnapshotIds, NEW key \in SnapshotKeys,
               registries'[mint] = PointTo(registries[mint], key, id)
        PROVE  /\ registries'[mint] \in AssetRegistry
               /\ registries'[mint].mint = registries[mint].mint
               /\ registries'[mint].authority = registries[mint].authority
               /\ registries'[mint].asset_id = registries[mint].asset_id
               /\ registries'[mint].has_snapshot
    BY <1>1, <1>5 DEF PointTo, AssetRegistry
  <1>6. ASSUME NEW signer \in Keys, NEW m \in Mints, NEW k \in Keys, UpdateAttestor(signer, m, k)
        PROVE  \/ registries'[mint] = registries[mint]
               \/ registries'[mint] = [registries[mint] EXCEPT !.attestor = k]
    BY <1>1, <1>6 DEF UpdateAttestor
  <1>7. ASSUME NEW k \in Keys, registries'[mint] = [registries[mint] EXCEPT !.attestor = k]
        PROVE  /\ registries'[mint] \in AssetRegistry
               /\ registries'[mint].mint = registries[mint].mint
               /\ registries'[mint].authority = registries[mint].authority
               /\ registries'[mint].asset_id = registries[mint].asset_id
               /\ registries'[mint].has_snapshot = registries[mint].has_snapshot
    BY <1>1, <1>7 DEF AssetRegistry
  <1>8. CASE \E signer \in Keys, m \in Mints, a \in AssetIds, k \in Keys : InitializeAsset(signer, m, a, k)
    BY <1>3, <1>8
  <1>9. CASE \E signer \in Keys, m \in Mints, id \in SnapshotIds, b \in Amounts, e \in Timestamps :
                 SubmitSnapshot(signer, m, id, b, e)
    <2>1. PICK m \in Mints, id \in SnapshotIds :
              \/ registries'[mint] = registries[mint]
              \/ registries'[mint] = PointTo(registries[mint], SnapshotPda(m, id), id)
      BY <1>4, <1>9
    <2>2. SnapshotPda(m, id) \in SnapshotKeys
      BY DEF SnapshotPda, SnapshotKeys
    <2> QED BY <2>1, <2>2, <1>5, NoAccountAssumption
  <1>10. CASE \E signer \in Keys, m \in Mints, k \in Keys : UpdateAttestor(signer, m, k)
    <2>1. PICK k \in Keys : \/ registries'[mint] = registries[mint]
                            \/ registries'[mint] = [registries[mint] EXCEPT !.attestor = k]
      BY <1>6, <1>10
    <2> QED BY <2>1, <1>7, NoAccountAssumption
  <1>11. CASE UNCHANGED registries
    BY <1>11
  <1> QED BY <1>8, <1>9, <1>10, <1>11 DEF Next, vars, EvaluateSnapshot, ChangeSupply, AdvanceClock

\* Attestations are never rewritten or withdrawn; a registry stays bound to its
\* mint, authority and asset id.
THEOREM PermanentAccounts == Spec => AccountsArePermanent
  <1>1. ASSUME Inv, [Next]_vars
        PROVE  /\ \A key \in SnapshotKeys : Exists(key) => snapshots'[key] = snapshots[key]
               /\ \A mint \in Mints : registries[mint] # NoAccount =>
                      /\ registries'[mint] # NoAccount
                      /\ registries'[mint].mint = registries[mint].mint
                      /\ registries'[mint].authority = registries[mint].authority
                      /\ registries'[mint].asset_id = registries[mint].asset_id
                      /\ registries[mint].has_snapshot => registries'[mint].has_snapshot
    BY <1>1, SnapshotsKept, RegistriesKept
  <1> QED BY <1>1, InvHolds, PTL DEF Spec, AccountsArePermanent

LEMMA ClockMonotonic ==
    ASSUME Inv, [Next]_vars
    PROVE  now \in Int /\ now' \in Int /\ now <= now'
  <1>1. now \in Int
    BY DEF Inv, TypeOK, Timestamps
  <1> QED BY <1>1 DEF Next, vars, InitializeAsset, SubmitSnapshot, UpdateAttestor, EvaluateSnapshot,
                      ChangeSupply, AdvanceClock

\* A registry that points away from an existing snapshot never points back.
LEMMA PointerNeverReturns ==
    ASSUME Inv, [Next]_vars, NEW key \in SnapshotKeys, Exists(key),
           registries[key[1]].latest_snapshot # key
    PROVE  registries'[key[1]].latest_snapshot # key
  <1>1. /\ key[1] \in Mints /\ registries[key[1]] # NoAccount
        /\ registries \in [Mints -> AssetRegistry \cup {NoAccount}]
        /\ registries[key[1]] \in AssetRegistry
    BY DEF Inv, TypeOK, SnapshotInv, SnapshotKeys
  <1>2. ASSUME NEW signer \in Keys, NEW m \in Mints, NEW a \in AssetIds, NEW k \in Keys,
               InitializeAsset(signer, m, a, k)
        PROVE  registries'[key[1]].latest_snapshot # key
    BY <1>1, <1>2 DEF InitializeAsset
  <1>3. ASSUME NEW signer \in Keys, NEW m \in Mints, NEW id \in SnapshotIds,
               NEW b \in Amounts, NEW e \in Timestamps,
               SubmitSnapshot(signer, m, id, b, e)
        PROVE  registries'[key[1]].latest_snapshot # key
    <2>1. SnapshotPda(m, id) # key
      BY <1>3 DEF SubmitSnapshot, SnapshotInit, Exists
    <2>2. \/ registries'[key[1]] = registries[key[1]]
          \/ registries'[key[1]] = PointTo(registries[key[1]], SnapshotPda(m, id), id)
      BY <1>1, <1>3 DEF SubmitSnapshot
    <2> QED BY <1>1, <2>1, <2>2 DEF PointTo, AssetRegistry
  <1>4. ASSUME NEW signer \in Keys, NEW m \in Mints, NEW k \in Keys, UpdateAttestor(signer, m, k)
        PROVE  registries'[key[1]].latest_snapshot # key
    <2>1. \/ registries'[key[1]] = registries[key[1]]
          \/ registries'[key[1]] = [registries[key[1]] EXCEPT !.attestor = k]
      BY <1>1, <1>4 DEF UpdateAttestor
    <2> QED BY <1>1, <2>1 DEF AssetRegistry
  <1>5. CASE UNCHANGED registries
    BY <1>5
  <1> QED BY <1>2, <1>3, <1>4, <1>5 DEF Next, vars, EvaluateSnapshot, ChangeSupply, AdvanceClock

\* No sequence of instructions makes the gate accept an expired or replaced
\* snapshot again.
THEOREM SpentStaysSpent == Spec => SpentSnapshotsStaySpent
  <1>1. ASSUME Inv, [Next]_vars, NEW mint \in Mints, NEW key \in SnapshotKeys, Spent(key),
               Inv', EvaluateResult(mint, key)' = "Ok"
        PROVE  FALSE
    <2>1. Covers(registries'[mint], snapshots'[key], key, now', supply'[mint])
      BY <1>1, OkMeansCoversNext
    <2>2. key[1] = mint
      BY <1>1, <2>1 DEF Inv, RegistryInv, Covers, SnapshotPda
    <2>3. Exists(key) /\ snapshots'[key] = snapshots[key]
      BY <1>1, SnapshotsKept DEF Spent
    <2>4. CASE now >= snapshots[key].expires_at
      <3>1. snapshots[key].expires_at \in Int
        BY <1>1, <2>3 DEF Inv, TypeOK, Exists, Snapshot, Timestamps
      <3>2. now \in Int /\ now' \in Int /\ now <= now'
        BY <1>1, ClockMonotonic
      <3> QED BY <2>1, <2>3, <2>4, <3>1, <3>2 DEF Covers
    <2>5. CASE registries[key[1]].latest_snapshot # key
      <3>1. registries'[key[1]].latest_snapshot # key
        BY <1>1, <2>3, <2>5, PointerNeverReturns
      <3> QED BY <2>1, <2>2, <3>1 DEF Covers
    <2> QED BY <1>1, <2>4, <2>5 DEF Spent
  <1>2. ASSUME Inv, [Next]_vars, Inv'
        PROVE  \A mint \in Mints, key \in SnapshotKeys : Spent(key) => EvaluateResult(mint, key)' # "Ok"
    BY <1>1, <1>2
  <1> QED BY <1>2, InvHolds, PTL DEF Spec, SpentSnapshotsStaySpent

\* A gate's answer changes only with a new snapshot, a supply change or the
\* clock: registering assets and rotating attestors leave every verdict as it is.
THEOREM VerdictsNeedCause == Spec => VerdictsChangeOnlyForCause
  <1>1. ASSUME Inv, [Next]_vars, Inv', snapshots' = snapshots, supply' = supply, now' = now,
               NEW mint \in Mints, NEW key \in SnapshotKeys
        PROVE  EvaluateResult(mint, key) = "Ok" <=> EvaluateResult(mint, key)' = "Ok"
    <2>1. Exists(key) /\ key[1] = mint =>
              /\ registries[mint] # NoAccount
              /\ registries'[mint] # NoAccount
              /\ registries[mint].has_snapshot
              /\ registries'[mint].has_snapshot
      BY <1>1 DEF Inv, SnapshotInv, Exists
    <2>2. ASSUME Exists(key), key[1] = mint
          PROVE  registries'[mint].latest_snapshot = registries[mint].latest_snapshot
      <3>1. registries \in [Mints -> AssetRegistry \cup {NoAccount}] /\ registries[mint] \in AssetRegistry
        BY <1>1, <2>1, <2>2 DEF Inv, TypeOK
      <3>2. ASSUME NEW signer \in Keys, NEW m \in Mints, NEW a \in AssetIds, NEW k \in Keys,
                   InitializeAsset(signer, m, a, k)
            PROVE  registries'[mint] = registries[mint]
        BY <2>1, <2>2, <3>1, <3>2 DEF InitializeAsset
      <3>3. ASSUME NEW signer \in Keys, NEW m \in Mints, NEW id \in SnapshotIds,
                   NEW b \in Amounts, NEW e \in Timestamps,
                   SubmitSnapshot(signer, m, id, b, e)
            PROVE  FALSE
        BY <1>1, <3>3, SubmittedSnapshot DEF Inv, SubmitSnapshot, SnapshotInit
      <3>4. ASSUME NEW signer \in Keys, NEW m \in Mints, NEW k \in Keys, UpdateAttestor(signer, m, k)
            PROVE  registries'[mint].latest_snapshot = registries[mint].latest_snapshot
        <4>1. \/ registries'[mint] = registries[mint]
              \/ registries'[mint] = [registries[mint] EXCEPT !.attestor = k]
          BY <3>1, <3>4 DEF UpdateAttestor
        <4> QED BY <3>1, <4>1 DEF AssetRegistry
      <3>5. CASE UNCHANGED registries
        BY <3>5
      <3> QED BY <1>1, <3>2, <3>3, <3>4, <3>5 DEF Next, vars, EvaluateSnapshot, ChangeSupply, AdvanceClock
    <2>3. ASSUME EvaluateResult(mint, key) = "Ok"
          PROVE  EvaluateResult(mint, key)' = "Ok"
      <3>1. Covers(registries[mint], snapshots[key], key, now, supply[mint])
        BY <2>3, OkMeansCovers
      <3>2. Exists(key) /\ key[1] = mint
        BY <1>1, <3>1 DEF Covers, Exists, Inv, RegistryInv, SnapshotPda
      <3>3. Covers(registries'[mint], snapshots'[key], key, now', supply'[mint])
        BY <1>1, <2>1, <2>2, <3>1, <3>2 DEF Covers
      <3> QED BY <1>1, <3>3, CoversMeansOkNext
    <2>4. ASSUME EvaluateResult(mint, key)' = "Ok"
          PROVE  EvaluateResult(mint, key) = "Ok"
      <3>1. Covers(registries'[mint], snapshots'[key], key, now', supply'[mint])
        BY <2>4, OkMeansCoversNext
      <3>2. Exists(key) /\ key[1] = mint
        BY <1>1, <3>1 DEF Covers, Exists, Inv, RegistryInv, SnapshotPda
      <3>3. Covers(registries[mint], snapshots[key], key, now, supply[mint])
        BY <1>1, <2>1, <2>2, <3>1, <3>2 DEF Covers
      <3> QED BY <1>1, <3>3, CoversMeansOk
    <2> QED BY <2>3, <2>4
  <1>2. ASSUME Inv, [Next]_vars, Inv'
        PROVE  snapshots' = snapshots /\ supply' = supply /\ now' = now =>
                   \A mint \in Mints, key \in SnapshotKeys :
                       EvaluateResult(mint, key) = "Ok" <=> EvaluateResult(mint, key)' = "Ok"
    BY <1>1, <1>2
  <1> QED BY <1>2, InvHolds, PTL DEF Spec, VerdictsChangeOnlyForCause

\* A snapshot comes into being only by submit_snapshot, under its own address.
LEMMA CreatedBySubmit ==
    ASSUME Inv, [Next]_vars, NEW key \in SnapshotKeys,
           snapshots[key] = NoAccount, snapshots'[key] # NoAccount
    PROVE  \E signer \in Keys, m \in Mints, id \in SnapshotIds, b \in Amounts, e \in Timestamps :
               key = SnapshotPda(m, id) /\ SubmitSnapshot(signer, m, id, b, e)
  <1>1. ASSUME NEW signer \in Keys, NEW m \in Mints, NEW id \in SnapshotIds,
               NEW b \in Amounts, NEW e \in Timestamps,
               SubmitSnapshot(signer, m, id, b, e)
        PROVE  key = SnapshotPda(m, id)
    BY <1>1 DEF SubmitSnapshot, Inv, TypeOK
  <1>2. snapshots' # snapshots
    OBVIOUS
  <1> QED BY <1>1, <1>2 DEF Next, vars, InitializeAsset, UpdateAttestor, EvaluateSnapshot,
                            ChangeSupply, AdvanceClock

\* What the gate says of a snapshot the moment it was submitted depends on
\* nothing but whether the backing covers the supply.
THEOREM SubmissionsTakeEffect == Spec => SubmitTakesEffect
  <1>1. ASSUME Inv, [Next]_vars, Inv', NEW key \in SnapshotKeys,
               snapshots[key] = NoAccount, snapshots'[key] # NoAccount
        PROVE  EvaluateResult(key[1], key)' =
                   IF supply[key[1]] <= snapshots'[key].attested_backing THEN "Ok" ELSE "SnapshotNotSafe"
    <2>1. PICK signer \in Keys, m \in Mints, id \in SnapshotIds, b \in Amounts, e \in Timestamps :
              key = SnapshotPda(m, id) /\ SubmitSnapshot(signer, m, id, b, e)
      BY <1>1, CreatedBySubmit
    <2>2. key[1] = m /\ key # DefaultKey
      BY <2>1, KeyAssumption DEF SnapshotPda, SnapshotKeys
    <2>3. registries[m] \in AssetRegistry /\ registries'[m] = PointTo(registries[m], key, id)
      BY <1>1, <2>1 DEF SubmitSnapshot, Inv, TypeOK
    <2>4. /\ registries'[m].latest_snapshot = key
          /\ registries'[m].latest_snapshot_id = id
          /\ registries'[m].has_snapshot
          /\ registries'[m] # NoAccount
          /\ registries'[m].mint = m
      <3>1. registries'[m].mint = registries[m].mint /\ registries'[m] \in AssetRegistry
        BY <2>1, <2>2, <2>3 DEF PointTo, AssetRegistry
      <3>2. registries[m].mint = m
        BY <2>1 DEF SubmitSnapshot
      <3> QED BY <2>3, <3>1, <3>2, NoAccountAssumption DEF PointTo, AssetRegistry
    <2>5. /\ snapshots'[key].registry = m /\ snapshots'[key].mint = m
          /\ snapshots'[key].expires_at = e
          /\ snapshots'[key].status = StatusOf(supply[m], b)
          /\ snapshots'[key].attested_backing = b
          /\ supply' = supply /\ now' = now
      BY <1>1, <2>1 DEF SubmitSnapshot, Inv, TypeOK
    <2>6. ~(now >= e)
      <3>1. now \in Timestamps /\ e \in Int /\ now \in Int
        BY <1>1 DEF Inv, TypeOK, Timestamps
      <3>2. now < e
        BY <2>1, <3>1, ExpiryIsTimestamp DEF SubmitSnapshot
      <3> QED BY <3>1, <3>2
    <2>7. EvaluateResult(m, key)' = CheckSnapshotSafety(snapshots'[key], now', supply'[m])
      BY <1>1, <2>1, <2>2, <2>4, <2>5 DEF EvaluateResult, AssertSnapshotBinding
    <2>8. EvaluateResult(m, key)' = IF supply[m] <= b THEN "Ok" ELSE "SnapshotNotSafe"
      BY <2>5, <2>6, <2>7 DEF CheckSnapshotSafety, StatusOf
    <2> QED BY <2>2, <2>5, <2>8
  <1>2. ASSUME Inv, [Next]_vars, Inv'
        PROVE  \A key \in SnapshotKeys : snapshots[key] = NoAccount /\ snapshots'[key] # NoAccount =>
                   EvaluateResult(key[1], key)' =
                       IF supply[key[1]] <= snapshots'[key].attested_backing THEN "Ok" ELSE "SnapshotNotSafe"
    BY <1>1, <1>2
  <1> QED BY <1>2, InvHolds, PTL DEF Spec, SubmitTakesEffect
=============================================================================
