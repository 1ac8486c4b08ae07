----------------------------- MODULE BackstopGate -----------------------------
(***************************************************************************)
(* What the on-chain program promises a protocol that gates on it: for      *)
(* every mint there is one current attestation, a ceiling on supply that    *)
(* lasts until a deadline; a deadline is never further away than MaxWindow; *)
(* and asking about it gives "safe" exactly while it is live, covered the   *)
(* supply when it was made, and covers it now.  Asking about anything else  *)
(* never does.  No account, key, id or rotation appears here: they must not *)
(* matter to the caller.                                                    *)
(***************************************************************************)
EXTENDS Integers

CONSTANTS
    Mints,
    MaxSupply,
    MaxWindow,      \* the longest an attestation may be trusted for
    MaxTime,
    None            \* no attestation yet; no answer yet

Attestation == [ceiling : 0 .. MaxSupply, deadline : 0 .. MaxTime, covered : BOOLEAN]

\* The answer to a question about a mint: whether it was its current attestation
\* that was offered for judgement, and whether the mint was called safe.
Answers == [mint : Mints, current : BOOLEAN, safe : BOOLEAN]

VARIABLES
    attestation,    \* the current attestation of each mint
    supply,         \* its token supply
    now,            \* the time
    answer          \* the answer to the last question, until the next step

gateVars == <<attestation, supply, now, answer>>

Init ==
    /\ attestation = [m \in Mints |-> None]
    /\ supply \in [Mints -> 0 .. MaxSupply]
    /\ now = 0
    /\ answer = None

\* A new attestation replaces the old one, better or worse.
Attest(mint) ==
    /\ \E ceiling \in 0 .. MaxSupply, deadline \in 0 .. MaxTime :
           /\ now < deadline /\ deadline <= now + MaxWindow
           /\ attestation' = [attestation EXCEPT ![mint] =
                  [ceiling |-> ceiling, deadline |-> deadline, covered |-> supply[mint] <= ceiling]]
    /\ answer' = None
    /\ UNCHANGED <<supply, now>>

Safe(mint) ==
    /\ attestation[mint] # None
    /\ now < attestation[mint].deadline
    /\ attestation[mint].covered
    /\ supply[mint] <= attestation[mint].ceiling

Ask(mint) ==
    /\ attestation[mint] # None
    /\ answer' = [mint |-> mint, current |-> TRUE, safe |-> Safe(mint)]
    /\ UNCHANGED <<attestation, supply, now>>

\* Another mint's attestation, one that was replaced, or none at all: refused,
\* even while the mint's current attestation is safe.
Refuse(mint) ==
    /\ answer' = [mint |-> mint, current |-> FALSE, safe |-> FALSE]
    /\ UNCHANGED <<attestation, supply, now>>

\* Registration and rotation: invisible but for the end of the last answer.
Manage ==
    /\ answer' = None
    /\ UNCHANGED <<attestation, supply, now>>

ChangeSupply(mint) ==
    /\ \E amount \in 0 .. MaxSupply : supply' = [supply EXCEPT ![mint] = amount]
    /\ answer' = None
    /\ UNCHANGED <<attestation, now>>

AdvanceClock ==
    /\ now < MaxTime
    /\ now' = now + 1
    /\ answer' = None
    /\ UNCHANGED <<attestation, supply>>

Next ==
    \/ \E m \in Mints : Attest(m) \/ Ask(m) \/ Refuse(m) \/ ChangeSupply(m)
    \/ Manage
    \/ AdvanceClock

Spec == Init /\ [][Next]_gateVars
=============================================================================
