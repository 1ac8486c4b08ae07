----------------------------- MODULE HealthVerdict -----------------------------
(***************************************************************************)
(* The verdict at the end of readAssetHealth in backend/onchain.ts, from    *)
(* the snapshot and the live supply that were read and the host's clock.    *)
(* AssetHealth judges it against the whole program; Evidence has it as the  *)
(* first of the four sources.  A registry's address stands as its mint's.   *)
(***************************************************************************)
EXTENDS Integers

\* Faulty variant: a second of grace.
Expired_Late(snapshot, t) == t > snapshot.expires_at + 1

Expired(snapshot, t) == t > snapshot.expires_at

\* Faulty variant: full backing to the last unit is not enough.
UnderBacked_AtEquality(snapshot, liveSupply) == liveSupply >= snapshot.attested_backing

UnderBacked(snapshot, liveSupply) == liveSupply > snapshot.attested_backing

\* statusName turns the stored byte into the API's word for it.
StatusName(status) == IF status = "Verified" THEN "VERIFIED" ELSE "UNDER_BACKED"

\* Faulty variants: expiry forgotten in the status; the live supply ignored.
HealthStatus_NoExpiry(snapshot, liveSupply, t) ==
    IF UnderBacked(snapshot, liveSupply) THEN "UNDER_BACKED" ELSE StatusName(snapshot.status)

HealthStatus(snapshot, liveSupply, t) ==
    IF Expired(snapshot, t) THEN "STALE"
    ELSE IF UnderBacked(snapshot, liveSupply) THEN "UNDER_BACKED"
    ELSE StatusName(snapshot.status)

HealthSafe_IgnoresSupply(snapshot, liveSupply, t, mint) ==
    /\ StatusName(snapshot.status) = "VERIFIED"
    /\ ~Expired(snapshot, t)
    /\ snapshot.mint = mint
    /\ snapshot.registry = mint

HealthSafe(snapshot, liveSupply, t, mint) ==
    /\ StatusName(snapshot.status) = "VERIFIED"
    /\ ~Expired(snapshot, t)
    /\ ~UnderBacked(snapshot, liveSupply)
    /\ snapshot.mint = mint
    /\ snapshot.registry = mint
=============================================================================
