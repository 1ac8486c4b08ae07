-------------------------- MODULE BackstopRefinement --------------------------
(***************************************************************************)
(* The program's accounts seen as the gate's attestations: a mint's current *)
(* attestation is the snapshot its registry points to.                      *)
(***************************************************************************)
EXTENDS BackstopProgram

CurrentAttestation(mint) ==
    LET registry == registries[mint]
    IN  IF registry = NoAccount THEN NoAccount
        ELSE IF ~registry.has_snapshot THEN NoAccount
        ELSE LET s == snapshots[registry.latest_snapshot]
             IN  [ceiling |-> s.attested_backing,
                  deadline |-> s.expires_at,
                  covered |-> s.status = "Verified"]

\* The account offered to evaluate_snapshot is the mint's current snapshot.
OffersCurrent(mint, key) ==
    registries[mint] # NoAccount /\ registries[mint].latest_snapshot = key

\* What a caller of evaluate_snapshot is told: Ok is "safe", and nothing else
\* is, whichever account was offered.
AnswerGiven ==
    IF outcome = NoOutcome THEN NoAccount
    ELSE [mint |-> outcome.mint,
          current |-> OffersCurrent(outcome.mint, outcome.snapshot),
          safe |-> outcome.result = "Ok"]

Gate == INSTANCE BackstopGate WITH
            MaxWindow <- MAX_SNAPSHOT_VALIDITY_SECS,
            None <- NoAccount,
            attestation <- [m \in Mints |-> CurrentAttestation(m)],
            answer <- AnswerGiven

ASSUME NoneAssumption == NoAccount \notin Gate!Attestation /\ NoAccount \notin Gate!Answers

\* The program is a gate: whatever the attestors, the admin and the callers of
\* evaluate_snapshot do, with several mints' accounts passed to one another's
\* instructions, Ok is answered for a mint's current attestation while it is
\* safe and for no other account, as BackstopGate has it.
ImplementsGate == Gate!Spec
=============================================================================
