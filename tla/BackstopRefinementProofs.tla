----------------------- MODULE BackstopRefinementProofs -----------------------
(***************************************************************************)
(* The program implements the gate, for any mints, keys, ids and bounds.    *)
(***************************************************************************)
EXTENDS BackstopRefinement, BackstopProgramProofs

\* What the refinement mapping reads of the concrete state.
LEMMA CurrentIsDetermined ==
    ASSUME NEW mint \in Mints,
           registries'[mint] = registries[mint],
           registries[mint] # NoAccount /\ registries[mint].has_snapshot =>
               snapshots'[registries[mint].latest_snapshot] = snapshots[registries[mint].latest_snapshot]
    PROVE  CurrentAttestation(mint)' = CurrentAttestation(mint)
  BY DEF CurrentAttestation

LEMMA AttestationUnchanged ==
    ASSUME \A m \in Mints : CurrentAttestation(m)' = CurrentAttestation(m)
    PROVE  [m \in Mints |-> CurrentAttestation(m)]' = [m \in Mints |-> CurrentAttestation(m)]
  OBVIOUS

LEMMA OutcomeCleared ==
    ASSUME outcome' = NoOutcome
    PROVE  AnswerGiven' = NoAccount
  BY DEF AnswerGiven

LEMMA GateInit == Init => Gate!Init
  BY DEF Init, Gate!Init, CurrentAttestation, AnswerGiven, Amounts

\* Creating a registry shows the gate nothing.
LEMMA InitializeIsManage ==
    ASSUME Inv,
           NEW signer \in Keys, NEW m \in Mints, NEW a \in AssetIds, NEW k \in Keys,
           InitializeAsset(signer, m, a, k)
    PROVE  Gate!Manage
  <1>1. registries \in [Mints -> AssetRegistry \cup {NoAccount}]
    BY DEF Inv, TypeOK
  <1>2. ASSUME NEW n \in Mints PROVE CurrentAttestation(n)' = CurrentAttestation(n)
    <2>1. CASE n = m
      <3>1. CurrentAttestation(n) = NoAccount
        BY <2>1 DEF InitializeAsset, CurrentAttestation
      <3>2. ~registries'[m].has_snapshot
        BY <1>1 DEF InitializeAsset
      <3> QED BY <2>1, <3>1, <3>2 DEF CurrentAttestation
    <2>2. CASE n # m
      BY <1>1, <2>2, CurrentIsDetermined DEF InitializeAsset
    <2> QED BY <2>1, <2>2
  <1> QED BY <1>2, AttestationUnchanged, OutcomeCleared DEF InitializeAsset, Gate!Manage

\* So does rotating an attestor.
LEMMA RotationIsManage ==
    ASSUME Inv, NEW signer \in Keys, NEW m \in Mints, NEW k \in Keys,
           UpdateAttestor(signer, m, k)
    PROVE  Gate!Manage
  <1>1. registries \in [Mints -> AssetRegistry \cup {NoAccount}] /\ registries[m] \in AssetRegistry
    BY DEF Inv, TypeOK, UpdateAttestor
  <1>2. ASSUME NEW n \in Mints PROVE CurrentAttestation(n)' = CurrentAttestation(n)
    <2>1. CASE n = m
      <3>1. /\ registries'[m] \in AssetRegistry
            /\ registries'[m].has_snapshot = registries[m].has_snapshot
            /\ registries'[m].latest_snapshot = registries[m].latest_snapshot
        BY <1>1 DEF UpdateAttestor, AssetRegistry
      <3> QED BY <1>1, <2>1, <3>1, NoAccountAssumption DEF CurrentAttestation, UpdateAttestor
    <2>2. CASE n # m
      BY <1>1, <2>2, CurrentIsDetermined DEF UpdateAttestor
    <2> QED BY <2>1, <2>2
  <1> QED BY <1>2, AttestationUnchanged, OutcomeCleared DEF UpdateAttestor, Gate!Manage

\* A submission is a new attestation within the window.
LEMMA SubmitIsAttest ==
    ASSUME Inv,
           NEW signer \in Keys, NEW m \in Mints, NEW id \in SnapshotIds,
           NEW b \in Amounts, NEW e \in Timestamps,
           SubmitSnapshot(signer, m, id, b, e)
    PROVE  Gate!Attest(m)
  <1> DEFINE key == SnapshotPda(m, id)
             att == [n \in Mints |-> CurrentAttestation(n)]
             new == [ceiling |-> b, deadline |-> e, covered |-> supply[m] <= b]
  <1>1. /\ registries \in [Mints -> AssetRegistry \cup {NoAccount}]
        /\ snapshots \in [SnapshotKeys -> Snapshot \cup {NoAccount}]
        /\ registries[m] \in AssetRegistry /\ key \in SnapshotKeys
        /\ now \in Timestamps
    BY SubmittedSnapshot DEF Inv, TypeOK, SubmitSnapshot
  <1>2. CurrentAttestation(m)' = new
    <2>1. /\ registries'[m] = PointTo(registries[m], key, id)
          /\ registries'[m] \in AssetRegistry
          /\ registries'[m].has_snapshot
          /\ registries'[m].latest_snapshot = key
      BY <1>1 DEF SubmitSnapshot, PointTo, AssetRegistry
    <2>2. /\ snapshots'[key].attested_backing = b
          /\ snapshots'[key].expires_at = e
          /\ snapshots'[key].status = StatusOf(supply[m], b)
      BY <1>1 DEF SubmitSnapshot
    <2>3. (snapshots'[key].status = "Verified") = (supply[m] <= b)
      BY <2>2 DEF StatusOf
    <2> QED BY <2>1, <2>2, <2>3, NoAccountAssumption DEF CurrentAttestation
  <1>3. ASSUME NEW n \in Mints, n # m PROVE CurrentAttestation(n)' = CurrentAttestation(n)
    <2>1. registries'[n] = registries[n]
      BY <1>1, <1>3 DEF SubmitSnapshot
    <2>2. ASSUME registries[n] # NoAccount, registries[n].has_snapshot
          PROVE  snapshots'[registries[n].latest_snapshot] = snapshots[registries[n].latest_snapshot]
      <3>1. /\ registries[n] \in AssetRegistry
            /\ registries[n].latest_snapshot = SnapshotPda(n, registries[n].latest_snapshot_id)
        BY <1>1, <2>2 DEF Inv, RegistryInv
      <3>2. registries[n].latest_snapshot \in SnapshotKeys /\ registries[n].latest_snapshot # key
        BY <3>1, <1>3 DEF SnapshotPda, SnapshotKeys, AssetRegistry
      <3> QED BY <1>1, <3>2 DEF SubmitSnapshot
    <2> QED BY <2>1, <2>2, CurrentIsDetermined
  <1>4. att' = [att EXCEPT ![m] = new]
    BY <1>2, <1>3
  <1>5. now < e /\ e <= now + MAX_SNAPSHOT_VALIDITY_SECS
    BY <1>1, ExpiryIsTimestamp DEF SubmitSnapshot
  <1>6. b \in 0 .. MaxSupply /\ e \in 0 .. MaxTime
    BY DEF Amounts, Timestamps
  <1>7. AnswerGiven' = NoAccount /\ UNCHANGED <<supply, now>>
    BY OutcomeCleared DEF SubmitSnapshot
  <1> QED BY <1>4, <1>5, <1>6, <1>7 DEF Gate!Attest

\* Under the invariant a registry's pointer is a snapshot address only when the
\* mint has a current attestation, and the attestation is that snapshot's.
LEMMA PointedToIsCurrent ==
    ASSUME Inv, NEW m \in Mints, NEW key \in SnapshotKeys,
           registries[m] # NoAccount, registries[m].latest_snapshot = key
    PROVE  /\ registries[m].has_snapshot
           /\ snapshots[key] \in Snapshot /\ snapshots[key] # NoAccount
           /\ CurrentAttestation(m) = [ceiling |-> snapshots[key].attested_backing,
                                       deadline |-> snapshots[key].expires_at,
                                       covered |-> snapshots[key].status = "Verified"]
           /\ CurrentAttestation(m) # NoAccount
  <1>1. registries[m].has_snapshot
    BY KeyAssumption DEF Inv, RegistryInv, SnapshotKeys
  <1>2. snapshots[key] \in Snapshot /\ snapshots[key] # NoAccount
    BY <1>1 DEF Inv, RegistryInv, TypeOK, Exists
  <1>3. CurrentAttestation(m) = [ceiling |-> snapshots[key].attested_backing,
                                 deadline |-> snapshots[key].expires_at,
                                 covered |-> snapshots[key].status = "Verified"]
    BY <1>1 DEF CurrentAttestation
  <1>4. [ceiling |-> snapshots[key].attested_backing,
         deadline |-> snapshots[key].expires_at,
         covered |-> snapshots[key].status = "Verified"] \in Gate!Attestation
    <2>1. (snapshots[key].status = "Verified") \in BOOLEAN
      OBVIOUS
    <2>2. snapshots[key].attested_backing \in 0 .. MaxSupply /\ snapshots[key].expires_at \in 0 .. MaxTime
      BY <1>2 DEF Snapshot, Amounts, Timestamps
    <2> QED BY <2>1, <2>2 DEF Gate!Attestation
  <1> QED BY <1>1, <1>2, <1>3, <1>4, NoneAssumption

\* evaluate_snapshot answers for the current attestation and refuses the rest:
\* for an account that is not current, its own checks keep it from saying Ok.
LEMMA EvaluateIsAskOrRefuse ==
    ASSUME Inv, NEW m \in Mints, NEW key \in SnapshotKeys, EvaluateSnapshot(m, key)
    PROVE  Gate!Ask(m) \/ Gate!Refuse(m)
  <1> DEFINE result == EvaluateResult(m, key)
  <1>1. /\ outcome' = [mint |-> m, snapshot |-> key, result |-> result]
        /\ registries' = registries /\ snapshots' = snapshots /\ supply' = supply /\ now' = now
    BY DEF EvaluateSnapshot
  <1>2. outcome' # NoOutcome
    <2>1. result \in EvaluateResults
      BY EvaluateResultType
    <2>2. result # "None"
      BY <2>1 DEF EvaluateResults
    <2>3. outcome'.result = result
      BY <1>1
    <2> QED BY <2>2, <2>3 DEF NoOutcome
  <1>3. [n \in Mints |-> CurrentAttestation(n)]' = [n \in Mints |-> CurrentAttestation(n)]
    BY <1>1 DEF CurrentAttestation
  <1>4. AnswerGiven' = [mint |-> m, current |-> OffersCurrent(m, key), safe |-> result = "Ok"]
    BY <1>1, <1>2 DEF AnswerGiven, OffersCurrent
  <1> HIDE DEF result
  <1>5. CASE ~OffersCurrent(m, key)
    <2>1. result # "Ok"
      BY <1>5, OkMeansCovers DEF result, OffersCurrent, Covers
    <2>2. AnswerGiven' = [mint |-> m, current |-> FALSE, safe |-> FALSE]
      <3>1. OffersCurrent(m, key) = FALSE
        BY <1>5 DEF OffersCurrent
      <3>2. (result = "Ok") = FALSE
        BY <2>1
      <3> QED BY <1>4, <3>1, <3>2
    <2> QED BY <1>1, <1>3, <2>2 DEF Gate!Refuse
  <1>6. CASE OffersCurrent(m, key)
    <2>1. /\ registries[m].has_snapshot
          /\ snapshots[key] # NoAccount /\ snapshots[key] \in Snapshot
          /\ CurrentAttestation(m) = [ceiling |-> snapshots[key].attested_backing,
                                      deadline |-> snapshots[key].expires_at,
                                      covered |-> snapshots[key].status = "Verified"]
          /\ CurrentAttestation(m) # NoAccount
      BY <1>6, PointedToIsCurrent DEF OffersCurrent
    <2>2. now \in Int /\ snapshots[key].expires_at \in Int
      BY <2>1 DEF Inv, TypeOK, Snapshot, Timestamps
    <2>3. Gate!Safe(m) <=> Covers(registries[m], snapshots[key], key, now, supply[m])
      <3>1. /\ CurrentAttestation(m).deadline = snapshots[key].expires_at
            /\ CurrentAttestation(m).ceiling = snapshots[key].attested_backing
            /\ CurrentAttestation(m).covered = (snapshots[key].status = "Verified")
        BY <2>1
      <3>2. Gate!Safe(m) <=> /\ now < snapshots[key].expires_at
                             /\ snapshots[key].status = "Verified"
                             /\ supply[m] <= snapshots[key].attested_backing
        <4>1. Gate!Safe(m) <=> /\ CurrentAttestation(m) # NoAccount
                               /\ now < CurrentAttestation(m).deadline
                               /\ CurrentAttestation(m).covered
                               /\ supply[m] <= CurrentAttestation(m).ceiling
          BY DEF Gate!Safe
        <4> QED BY <2>1, <3>1, <4>1
      <3>3. now < snapshots[key].expires_at <=> ~(now >= snapshots[key].expires_at)
        BY <2>2
      <3> QED BY <1>6, <2>1, <3>2, <3>3 DEF Covers, OffersCurrent
    <2>4. Gate!Safe(m) <=> result = "Ok"
      BY <2>3, OkMeansCovers, CoversMeansOk DEF result
    <2>5. AnswerGiven' = [mint |-> m, current |-> TRUE, safe |-> Gate!Safe(m)]
      <3>1. (result = "Ok") = Gate!Safe(m)
        BY <2>4 DEF Gate!Safe
      <3>2. OffersCurrent(m, key) = TRUE
        BY <1>6 DEF OffersCurrent
      <3> QED BY <1>4, <3>1, <3>2
    <2> QED BY <1>1, <1>3, <2>1, <2>5 DEF Gate!Ask
  <1> QED BY <1>5, <1>6

LEMMA SupplyIsSupply ==
    ASSUME Inv, NEW m \in Mints, NEW amount \in Amounts, ChangeSupply(m, amount)
    PROVE  Gate!ChangeSupply(m)
  <1>1. [n \in Mints |-> CurrentAttestation(n)]' = [n \in Mints |-> CurrentAttestation(n)]
    BY DEF CurrentAttestation, ChangeSupply
  <1>2. amount \in 0 .. MaxSupply
    BY DEF Amounts
  <1> QED BY <1>1, <1>2, OutcomeCleared DEF ChangeSupply, Gate!ChangeSupply

LEMMA ClockIsClock ==
    ASSUME AdvanceClock
    PROVE  Gate!AdvanceClock
  <1>1. [n \in Mints |-> CurrentAttestation(n)]' = [n \in Mints |-> CurrentAttestation(n)]
    BY DEF CurrentAttestation, AdvanceClock
  <1> QED BY <1>1, OutcomeCleared DEF AdvanceClock, Gate!AdvanceClock

LEMMA StutterIsStutter ==
    ASSUME UNCHANGED vars
    PROVE  UNCHANGED Gate!gateVars
  BY DEF vars, Gate!gateVars, CurrentAttestation, AnswerGiven, OffersCurrent

LEMMA GateStep ==
    ASSUME Inv, [Next]_vars
    PROVE  [Gate!Next]_Gate!gateVars
  <1>1. ASSUME NEW signer \in Keys, NEW m \in Mints, NEW a \in AssetIds, NEW k \in Keys,
               InitializeAsset(signer, m, a, k)
        PROVE  Gate!Next
    BY <1>1, InitializeIsManage DEF Gate!Next
  <1>2. ASSUME NEW signer \in Keys, NEW m \in Mints, NEW id \in SnapshotIds,
               NEW b \in Amounts, NEW e \in Timestamps,
               SubmitSnapshot(signer, m, id, b, e)
        PROVE  Gate!Next
    BY <1>2, SubmitIsAttest DEF Gate!Next
  <1>3. ASSUME NEW signer \in Keys, NEW m \in Mints, NEW k \in Keys, UpdateAttestor(signer, m, k)
        PROVE  Gate!Next
    BY <1>3, RotationIsManage DEF Gate!Next
  <1>4. ASSUME NEW m \in Mints, NEW key \in SnapshotKeys, EvaluateSnapshot(m, key)
        PROVE  Gate!Next
    BY <1>4, EvaluateIsAskOrRefuse DEF Gate!Next
  <1>5. ASSUME NEW m \in Mints, NEW amount \in Amounts, ChangeSupply(m, amount)
        PROVE  Gate!Next
    BY <1>5, SupplyIsSupply DEF Gate!Next
  <1>6. CASE AdvanceClock
    BY <1>6, ClockIsClock DEF Gate!Next
  <1>7. CASE UNCHANGED vars
    BY <1>7, StutterIsStutter
  <1> QED BY <1>1, <1>2, <1>3, <1>4, <1>5, <1>6, <1>7 DEF Next

\* Whatever admins, attestors and callers do, evaluate_snapshot says Ok of a
\* mint's current attestation exactly while the gate calls it safe, and of no
\* other account that is offered to it, an older or another mint's.
THEOREM ProgramImplementsGate == Spec => ImplementsGate
  <1>1. Init => Gate!Init
    BY GateInit
  <1>2. Inv /\ [Next]_vars => [Gate!Next]_Gate!gateVars
    BY GateStep
  <1> QED BY <1>1, <1>2, InvHolds, PTL DEF Spec, ImplementsGate, Gate!Spec
=============================================================================
