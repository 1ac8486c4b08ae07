--------------------------- MODULE BackstopProgram ---------------------------
(***************************************************************************)
(* The on-chain program, programs/backstop/src/lib.rs: one registry account *)
(* per mint, one snapshot account per (mint, snapshot id), and the four     *)
(* instructions.  A transaction is atomic, so an instruction is one step;   *)
(* one that returns an error changes no account and is a disabled action,   *)
(* except evaluate_snapshot, whose result code is what callers ask for and  *)
(* is kept in "outcome".                                                    *)
(*                                                                          *)
(* Program-derived addresses are modelled by what they are derived from: a  *)
(* registry's address by its mint, a snapshot's by <<mint, snapshot_id>>.   *)
(* An account that does not exist is NoAccount.  Two things change the      *)
(* world without this program: the SPL Token program mints and burns, and   *)
(* the cluster's clock advances.                                            *)
(***************************************************************************)
EXTENDS Integers

CONSTANTS
    Keys,               \* public keys that sign transactions
    BACKSTOP_ADMIN,     \* the one key initialize_asset accepts
    Mints,              \* SPL Token mints
    SnapshotIds,        \* [u8; 32] snapshot ids
    ZeroId,             \* [0; 32], which initialize_asset writes
    AssetIds,           \* asset_id strings a caller may pass
    LongAssetIds,       \* those longer than MAX_ASSET_ID_LEN bytes
    NoAccount,          \* the content of an address that holds no account
    DefaultKey,         \* Pubkey::default()
    MaxSupply,          \* u64::MAX
    MAX_SNAPSHOT_VALIDITY_SECS,
    MaxTime             \* i64::MAX; the clock stops there

ASSUME KeyAssumption == BACKSTOP_ADMIN \in Keys /\ DefaultKey \notin Mints \X SnapshotIds
ASSUME IdAssumption == ZeroId \in SnapshotIds /\ LongAssetIds \subseteq AssetIds
ASSUME BoundAssumption ==
    /\ MaxSupply \in Nat
    /\ MAX_SNAPSHOT_VALIDITY_SECS \in Nat \ {0}
    /\ MaxTime \in Nat

Amounts == 0 .. MaxSupply
Timestamps == 0 .. MaxTime
FullBps == 10000

\* The addresses find_program_address derives from the "snapshot" seed.
SnapshotKeys == Mints \X SnapshotIds
SnapshotPda(mint, id) == <<mint, id>>

SnapshotStatus == {"Verified", "UnderBacked"}

AssetRegistry ==
    [authority : Keys,
     mint : Mints,
     attestor : Keys,
     latest_snapshot : SnapshotKeys \cup {DefaultKey},
     latest_snapshot_id : SnapshotIds,
     has_snapshot : BOOLEAN,
     asset_id : AssetIds]

Snapshot ==
    [registry : Mints,
     mint : Mints,
     asset_id : AssetIds,
     observed_supply : Amounts,
     attested_backing : Amounts,
     coverage_bps : 0 .. FullBps,
     timestamp : Timestamps,
     expires_at : Timestamps,
     attestor : Keys,
     status : SnapshotStatus]

ASSUME NoAccountAssumption == NoAccount \notin AssetRegistry /\ NoAccount \notin Snapshot

EvaluateResults ==
    {"Ok", "SnapshotStale", "SnapshotNotSafe", "MintMismatch", "AccountNotInitialized", "ConstraintSeeds"}

\* outcome before the first evaluation and after any later step.
NoOutcome == [mint |-> DefaultKey, snapshot |-> DefaultKey, result |-> "None"]

VARIABLES
    registries,     \* the registry account at each mint's registry address
    snapshots,      \* the snapshot account at each snapshot address
    supply,         \* Mint.supply of the SPL Token mint accounts
    now,            \* Clock::get()?.unix_timestamp
    outcome         \* what evaluate_snapshot returned, until the next step

vars == <<registries, snapshots, supply, now, outcome>>

-----------------------------------------------------------------------------
(* Pure helpers. *)

\* i64::saturating_add for two values that are not negative.
SaturatingAdd(a, b) == IF a + b > MaxTime THEN MaxTime ELSE a + b

\* Faulty variant: no ceiling on the validity window.
ValidateExpiry_NoCeiling(t, expires_at) == expires_at > t

ValidateExpiry(t, expires_at) ==
    /\ expires_at > t
    /\ expires_at <= SaturatingAdd(t, MAX_SNAPSHOT_VALIDITY_SECS)

StatusOf(observed_supply, attested_backing) ==
    IF observed_supply <= attested_backing THEN "Verified" ELSE "UnderBacked"

\* Faulty variants: the cap is lost; zero supply falls through to unwrap_or(0).
CalculateCoverageBps_NoCap(observed_supply, attested_backing) ==
    IF observed_supply = 0 THEN FullBps ELSE (attested_backing * FullBps) \div observed_supply

CalculateCoverageBps_ZeroSupply(observed_supply, attested_backing) ==
    IF observed_supply = 0 \/ attested_backing = 0 THEN 0
    ELSE LET coverage == (attested_backing * FullBps) \div observed_supply
         IN  IF coverage < FullBps THEN coverage ELSE FullBps

\* The u128 product cannot overflow: u64::MAX * 10_000 < 2^128.
CalculateCoverageBps(observed_supply, attested_backing) ==
    IF observed_supply = 0
    THEN FullBps
    ELSE LET coverage == (attested_backing * FullBps) \div observed_supply
         IN  IF coverage < FullBps THEN coverage ELSE FullBps

\* Faulty variant: a snapshot still counts in the second it expires.
CheckSnapshotSafety_LateByOne(snapshot, t, current_supply) ==
    IF t > snapshot.expires_at THEN "SnapshotStale"
    ELSE IF snapshot.status = "Verified" /\ current_supply <= snapshot.attested_backing
         THEN "Ok"
         ELSE "SnapshotNotSafe"

\* Faulty variant: the status stored at submission is trusted as it is.
CheckSnapshotSafety_TrustsStatus(snapshot, t, current_supply) ==
    IF t >= snapshot.expires_at THEN "SnapshotStale"
    ELSE IF snapshot.status = "Verified" THEN "Ok" ELSE "SnapshotNotSafe"

CheckSnapshotSafety(snapshot, t, current_supply) ==
    IF t >= snapshot.expires_at THEN "SnapshotStale"
    ELSE IF snapshot.status = "Verified" /\ current_supply <= snapshot.attested_backing
         THEN "Ok"
         ELSE "SnapshotNotSafe"

AssertSnapshotBinding(registry, registryKey, snapshot, snapshotKey, mint) ==
    /\ registry.mint = mint
    /\ snapshot.mint = mint
    /\ snapshot.registry = registryKey
    /\ registry.latest_snapshot = snapshotKey
    /\ snapshotKey # DefaultKey

\* Faulty variants: any snapshot of the mint will do; any snapshot will do.
EvaluateResult_OlderSnapshot(mint, key) ==
    IF registries[mint] = NoAccount \/ snapshots[key] = NoAccount THEN "AccountNotInitialized"
    ELSE IF snapshots[key].mint # mint THEN "MintMismatch"
    ELSE CheckSnapshotSafety(snapshots[key], now, supply[mint])

EvaluateResult_AnySnapshot(mint, key) ==
    IF registries[mint] = NoAccount \/ snapshots[key] = NoAccount THEN "AccountNotInitialized"
    ELSE CheckSnapshotSafety(snapshots[key], now, supply[mint])

\* The checks of evaluate_snapshot in the order the framework runs them: the
\* accounts exist, the constraints of EvaluateSnapshot, then the handler's body.
EvaluateResult(mint, key) ==
    LET registry == registries[mint]
        snapshot == snapshots[key]
    IN  IF registry = NoAccount \/ snapshot = NoAccount THEN "AccountNotInitialized"
        ELSE IF registry.mint # mint THEN "MintMismatch"
        ELSE IF ~registry.has_snapshot \/ registry.latest_snapshot # key THEN "SnapshotNotSafe"
        ELSE IF key # SnapshotPda(mint, registry.latest_snapshot_id) THEN "ConstraintSeeds"
        ELSE IF snapshot.registry # mint THEN "SnapshotNotSafe"
        ELSE IF snapshot.mint # mint THEN "MintMismatch"
        ELSE IF ~AssertSnapshotBinding(registry, mint, snapshot, key, mint) THEN "SnapshotNotSafe"
        ELSE CheckSnapshotSafety(snapshot, now, supply[mint])

-----------------------------------------------------------------------------
(* The instructions. *)

Init ==
    /\ registries = [m \in Mints |-> NoAccount]
    /\ snapshots = [k \in SnapshotKeys |-> NoAccount]
    /\ supply \in [Mints -> Amounts]
    /\ now = 0
    /\ outcome = NoOutcome

\* "init" creates the registry account: a second call for a mint fails.
InitializeAsset(authority, mint, asset_id, attestor) ==
    /\ registries[mint] = NoAccount
    /\ authority = BACKSTOP_ADMIN
    /\ asset_id \notin LongAssetIds
    /\ registries' = [registries EXCEPT ![mint] =
           [authority |-> authority,
            mint |-> mint,
            attestor |-> attestor,
            latest_snapshot |-> DefaultKey,
            latest_snapshot_id |-> ZeroId,
            has_snapshot |-> FALSE,
            asset_id |-> asset_id]]
    /\ outcome' = NoOutcome
    /\ UNCHANGED <<snapshots, supply, now>>

\* Faulty variant: init_if_needed.
SnapshotInit_IfNeeded(key) == TRUE

\* "init" creates the snapshot account: an id is used once per registry.
SnapshotInit(key) == snapshots[key] = NoAccount

\* Faulty variant: latest_snapshot_id, a seed of evaluate_snapshot, is forgotten.
PointTo_KeepsId(registry, key, snapshot_id) ==
    [registry EXCEPT !.latest_snapshot = key, !.has_snapshot = TRUE]

PointTo(registry, key, snapshot_id) ==
    [registry EXCEPT !.latest_snapshot = key,
                     !.latest_snapshot_id = snapshot_id,
                     !.has_snapshot = TRUE]

SubmitSnapshot(attestor, mint, snapshot_id, attested_backing, expires_at) ==
    LET registry == registries[mint]
        key == SnapshotPda(mint, snapshot_id)
    IN  /\ registry # NoAccount
        /\ SnapshotInit(key)
        /\ registry.attestor = attestor
        /\ registry.mint = mint
        /\ ValidateExpiry(now, expires_at)
        /\ snapshots' = [snapshots EXCEPT ![key] =
               [registry |-> mint,
                mint |-> mint,
                asset_id |-> registry.asset_id,
                observed_supply |-> supply[mint],
                attested_backing |-> attested_backing,
                coverage_bps |-> CalculateCoverageBps(supply[mint], attested_backing),
                timestamp |-> now,
                expires_at |-> expires_at,
                attestor |-> registry.attestor,
                status |-> StatusOf(supply[mint], attested_backing)]]
        /\ registries' = [registries EXCEPT ![mint] = PointTo(registry, key, snapshot_id)]
        /\ outcome' = NoOutcome
        /\ UNCHANGED <<supply, now>>

\* Faulty variant: the rotation also drops the current attestation.
UpdateAttestor_Invalidates(authority, mint, new_attestor) ==
    /\ registries[mint] # NoAccount
    /\ registries[mint].mint = mint
    /\ registries[mint].authority = authority
    /\ registries' = [registries EXCEPT ![mint] =
           [@ EXCEPT !.attestor = new_attestor, !.has_snapshot = FALSE]]
    /\ outcome' = NoOutcome
    /\ UNCHANGED <<snapshots, supply, now>>

UpdateAttestor(authority, mint, new_attestor) ==
    /\ registries[mint] # NoAccount
    /\ registries[mint].mint = mint
    /\ registries[mint].authority = authority
    /\ registries' = [registries EXCEPT ![mint] = [@ EXCEPT !.attestor = new_attestor]]
    /\ outcome' = NoOutcome
    /\ UNCHANGED <<snapshots, supply, now>>

\* Anyone may ask, and may pass any snapshot account.
EvaluateSnapshot(mint, key) ==
    /\ outcome' = [mint |-> mint, snapshot |-> key, result |-> EvaluateResult(mint, key)]
    /\ UNCHANGED <<registries, snapshots, supply, now>>

(* The SPL Token program and the cluster's clock. *)

ChangeSupply(mint, amount) ==
    /\ amount # supply[mint]
    /\ supply' = [supply EXCEPT ![mint] = amount]
    /\ outcome' = NoOutcome
    /\ UNCHANGED <<registries, snapshots, now>>

AdvanceClock ==
    /\ now < MaxTime
    /\ now' = now + 1
    /\ outcome' = NoOutcome
    /\ UNCHANGED <<registries, snapshots, supply>>

Next ==
    \/ \E signer \in Keys, m \in Mints, a \in AssetIds, k \in Keys : InitializeAsset(signer, m, a, k)
    \/ \E signer \in Keys, m \in Mints, id \in SnapshotIds, b \in Amounts, e \in Timestamps :
           SubmitSnapshot(signer, m, id, b, e)
    \/ \E signer \in Keys, m \in Mints, k \in Keys : UpdateAttestor(signer, m, k)
    \/ \E m \in Mints, key \in SnapshotKeys : EvaluateSnapshot(m, key)
    \/ \E m \in Mints, amount \in Amounts : ChangeSupply(m, amount)
    \/ AdvanceClock

Spec == Init /\ [][Next]_vars

\* The cluster produces slots, so its clock advances.
FairSpec == Spec /\ WF_vars(AdvanceClock)

-----------------------------------------------------------------------------
(* Properties. *)

\* Every account holds what its struct declares, every address one account.
TypeOK ==
    /\ registries \in [Mints -> AssetRegistry \cup {NoAccount}]
    /\ snapshots \in [SnapshotKeys -> Snapshot \cup {NoAccount}]
    /\ supply \in [Mints -> Amounts]
    /\ now \in Timestamps
    /\ outcome \in [mint : Mints, snapshot : SnapshotKeys, result : EvaluateResults] \cup {NoOutcome}

Exists(key) == snapshots[key] # NoAccount

\* The two verdicts a snapshot stores are computed apart, by a comparison and
\* by a rounded division with a special case for zero supply: they never
\* disagree about full coverage.
CoverageAgreesWithStatus ==
    \A key \in SnapshotKeys : Exists(key) =>
        (snapshots[key].status = "Verified" <=> snapshots[key].coverage_bps = FullBps)

\* A registry is bound to the mint its address is derived from, and its three
\* pointer fields tell one story: either no snapshot was ever submitted, or
\* they name an account that exists.
RegistryInv ==
    \A mint \in Mints : registries[mint] # NoAccount =>
        LET r == registries[mint] IN
        /\ r.mint = mint
        /\ r.authority = BACKSTOP_ADMIN
        /\ r.has_snapshot => /\ r.latest_snapshot = SnapshotPda(mint, r.latest_snapshot_id)
                             /\ Exists(r.latest_snapshot)
        /\ ~r.has_snapshot => r.latest_snapshot = DefaultKey

\* A snapshot belongs to the registry its address is derived from, its derived
\* fields agree with its inputs, its window is within the ceiling, and the
\* registry points to one at least as new.
SnapshotInv ==
    \A key \in SnapshotKeys : Exists(key) =>
        LET s == snapshots[key]
            r == registries[key[1]]
        IN  /\ s.registry = key[1] /\ s.mint = key[1]
            /\ s.status = StatusOf(s.observed_supply, s.attested_backing)
            /\ s.coverage_bps = CalculateCoverageBps(s.observed_supply, s.attested_backing)
            /\ s.timestamp < s.expires_at
            /\ s.expires_at <= s.timestamp + MAX_SNAPSHOT_VALIDITY_SECS
            /\ s.timestamp <= now
            /\ r # NoAccount
            /\ r.has_snapshot
            /\ s.timestamp <= snapshots[r.latest_snapshot].timestamp

\* The inductive invariant: no account is orphaned or points backwards.
Inv == TypeOK /\ RegistryInv /\ SnapshotInv

\* What evaluate_snapshot's Ok means to the caller, over everything that led
\* to it: the account is the newest attestation made for this very mint, it is
\* at most MAX_SNAPSHOT_VALIDITY_SECS old, and the backing it attests covered
\* the supply when it was made and covers it now.
GateSound ==
    \A mint \in Mints, key \in SnapshotKeys : EvaluateResult(mint, key) = "Ok" =>
        LET s == snapshots[key] IN
        /\ key[1] = mint
        /\ \A id \in SnapshotIds : Exists(<<mint, id>>) => snapshots[<<mint, id>>].timestamp <= s.timestamp
        /\ s.timestamp <= now /\ now < s.timestamp + MAX_SNAPSHOT_VALIDITY_SECS
        /\ s.observed_supply <= s.attested_backing
        /\ supply[mint] <= s.attested_backing

\* A submitted snapshot is at once the one the gate answers for: whether it is
\* Ok depends on the backing alone, so no pointer field was left behind.
SubmitTakesEffect ==
    [][\A key \in SnapshotKeys : snapshots[key] = NoAccount /\ snapshots'[key] # NoAccount =>
           EvaluateResult(key[1], key)' =
               IF supply[key[1]] <= snapshots'[key].attested_backing THEN "Ok" ELSE "SnapshotNotSafe"]_vars

\* A gate's answer changes only for a cause: a new snapshot, a supply change or
\* the clock.  Rotating the attestor is none, as update_attestor's comment
\* promises of the snapshots the previous attestor submitted.
VerdictsChangeOnlyForCause ==
    [][snapshots' = snapshots /\ supply' = supply /\ now' = now =>
           \A mint \in Mints, key \in SnapshotKeys :
               EvaluateResult(mint, key) = "Ok" <=> EvaluateResult(mint, key)' = "Ok"]_vars

\* An attestation is never rewritten or withdrawn, and a registry stays bound
\* to its mint, authority and asset id, whoever the attestor becomes.
AccountsArePermanent ==
    [][/\ \A key \in SnapshotKeys : Exists(key) => snapshots'[key] = snapshots[key]
       /\ \A mint \in Mints : registries[mint] # NoAccount =>
              /\ registries'[mint] # NoAccount
              /\ registries'[mint].mint = registries[mint].mint
              /\ registries'[mint].authority = registries[mint].authority
              /\ registries'[mint].asset_id = registries[mint].asset_id
              /\ registries[mint].has_snapshot => registries'[mint].has_snapshot]_vars

\* A snapshot that expired or was replaced by another is spent: no sequence of
\* instructions, rotations or supply changes makes the gate accept it again.
Spent(key) ==
    Exists(key) /\ (now >= snapshots[key].expires_at \/ registries[key[1]].latest_snapshot # key)

SpentSnapshotsStaySpent ==
    [][\A mint \in Mints, key \in SnapshotKeys : Spent(key) => EvaluateResult(mint, key)' # "Ok"]_vars

\* Whatever the attestor asked for, the gate stops accepting each snapshot for
\* good once the clock has run long enough.
VerdictsExpire ==
    \A mint \in Mints, key \in SnapshotKeys : Exists(key) ~> [](EvaluateResult(mint, key) # "Ok")
=============================================================================
