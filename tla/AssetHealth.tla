----------------------------- MODULE AssetHealth -----------------------------
(***************************************************************************)
(* readAssetHealth of backend/onchain.ts: the API's and the reconciliation  *)
(* script's own judgement of "safe", made from three RPC reads of accounts  *)
(* the on-chain program keeps changing meanwhile.  Each read is one step    *)
(* and may fail and be retried by withRpcRetry; the verdict is computed in  *)
(* a last step, with the host's clock.                                      *)
(*                                                                          *)
(* Requests share no state, so one is modelled, again and again, and its    *)
(* answer is delivered before the chain moves on: an answer is judged at    *)
(* the moment it is given.  The RPC endpoint is a pool of nodes: with       *)
(* LaggingNodes a read may be answered by one that has not caught up        *)
(* ("replica").  The host's clock is within ClockSkew of the cluster's.     *)
(***************************************************************************)
EXTENDS BackstopProgram, HealthVerdict

CONSTANTS
    MaxAttempts,    \* attempts of withRpcRetry
    LaggingNodes,   \* whether some node may answer from an older state
    ClockSkew

ASSUME HealthAssumption ==
    /\ MaxAttempts \in Nat \ {0}
    /\ LaggingNodes \in BOOLEAN
    /\ ClockSkew \in Nat

VARIABLES
    req,        \* the request being served: its phase and its local variables
    answer,     \* what readAssetHealth returned or threw, while phase = "done"
    replica,    \* the accounts as the lagging node has them
    seen        \* history: what really happened while the request was served

healthVars == <<registries, snapshots, supply, now, outcome, req, answer, replica, seen>>
chain == [registries |-> registries, snapshots |-> snapshots, supply |-> supply]

Phases == {"idle", "registry", "snapshot", "supply", "reply", "done"}
ReadPhases == {"registry", "snapshot", "supply"}
NoValue == "none"

IdleRequest == [phase |-> "idle", mint |-> DefaultKey, failures |-> 0,
                target |-> DefaultKey, snapshot |-> NoAccount, liveSupply |-> 0]
NoAnswer == [kind |-> NoValue]
NothingSeen == [quiet |-> TRUE, okSeen |-> FALSE, known |-> FALSE, lagged |-> FALSE]

\* The nodes of the pool a read may reach.
Views == IF LaggingNodes THEN {chain, replica} ELSE {chain}

\* Whether evaluate_snapshot would return Ok for some account of this mint.
Evaluable(mint) == \E key \in SnapshotKeys : EvaluateResult(mint, key) = "Ok"

HostClocks == {t \in Timestamps : t >= now - ClockSkew /\ t <= now + ClockSkew}

-----------------------------------------------------------------------------
(* Serving a request. *)

HealthInit ==
    /\ Init
    /\ req = IdleRequest
    /\ answer = NoAnswer
    /\ replica = chain
    /\ seen = NothingSeen

Request(mint) ==
    /\ req.phase = "idle"
    /\ req' = [IdleRequest EXCEPT !.phase = "registry", !.mint = mint]
    /\ seen' = [NothingSeen EXCEPT
                    !.okSeen = Evaluable(mint),
                    !.known = registries[mint] # NoAccount /\ registries[mint].has_snapshot]
    /\ UNCHANGED <<registries, snapshots, supply, now, outcome, answer, replica>>

\* An early return or a throw: the verdict is UNKNOWN and safe is false, or
\* there is no answer at all.
Return(kind, reason) ==
    /\ req' = [IdleRequest EXCEPT !.phase = "done"]
    /\ answer' = [kind |-> kind, reason |-> reason, status |-> "UNKNOWN", safe |-> FALSE]

\* History: whether some read was answered by a node that is behind.
Sees(view) == seen' = [seen EXCEPT !.lagged = @ \/ view # chain]

ReadRegistry ==
    /\ req.phase = "registry"
    /\ \E view \in Views :
           LET registry == view.registries[req.mint] IN
           /\ Sees(view)
           /\ \/ /\ registry = NoAccount
                 /\ Return("unknown", "registry_not_found")
              \/ /\ registry # NoAccount
                 /\ ~registry.has_snapshot
                 /\ Return("unknown", "no_snapshot")
              \/ /\ registry # NoAccount
                 /\ registry.has_snapshot
                 /\ req' = [req EXCEPT !.phase = "snapshot", !.failures = 0,
                                       !.target = registry.latest_snapshot]
                 /\ UNCHANGED answer
    /\ UNCHANGED <<registries, snapshots, supply, now, outcome, replica>>

ReadSnapshot ==
    /\ req.phase = "snapshot"
    /\ \E view \in Views :
           LET snapshot == view.snapshots[req.target] IN
           /\ Sees(view)
           /\ \/ /\ snapshot = NoAccount
                 /\ Return("unknown", "latest_snapshot_not_found")
              \/ /\ snapshot # NoAccount
                 /\ req' = [req EXCEPT !.phase = "supply", !.failures = 0, !.snapshot = snapshot]
                 /\ UNCHANGED answer
    /\ UNCHANGED <<registries, snapshots, supply, now, outcome, replica>>

ReadSupply ==
    /\ req.phase = "supply"
    /\ \E view \in Views :
           /\ Sees(view)
           /\ req' = [req EXCEPT !.phase = "reply", !.liveSupply = view.supply[req.mint]]
    /\ UNCHANGED <<registries, snapshots, supply, now, outcome, answer, replica>>

\* The last await is over: the host's clock is read and the result returned.
\* "evaluable", "at" and "quiet" are history.
Reply ==
    /\ req.phase = "reply"
    /\ \E t \in HostClocks :
           answer' = [kind |-> "health",
                      status |-> HealthStatus(req.snapshot, req.liveSupply, t),
                      safe |-> HealthSafe(req.snapshot, req.liveSupply, t, req.mint),
                      mint |-> req.mint,
                      snapshot |-> req.target,
                      attestedBacking |-> req.snapshot.attested_backing,
                      expiresAt |-> req.snapshot.expires_at,
                      at |-> now,
                      hostClock |-> t,
                      evaluable |-> Evaluable(req.mint),
                      overtaken |-> registries[req.mint].latest_snapshot # req.target]
    /\ req' = [IdleRequest EXCEPT !.phase = "done"]
    /\ UNCHANGED <<registries, snapshots, supply, now, outcome, replica, seen>>

\* Faulty variant: after the last attempt the loop starts over.
CountFailure_StartsOver(failures) == (failures + 1) % MaxAttempts

CountFailure(failures) == failures + 1

\* Faulty variant: one attempt too many.
GivesUp_Late == CountFailure(req.failures) > MaxAttempts

GivesUp == CountFailure(req.failures) >= MaxAttempts

\* An RPC call fails: withRpcRetry waits and tries again, or throws.
RpcFails ==
    /\ req.phase \in ReadPhases
    /\ \/ /\ ~GivesUp
          /\ req' = [req EXCEPT !.failures = CountFailure(@)]
          /\ UNCHANGED answer
       \/ /\ GivesUp
          /\ Return("thrown", NoValue)
    /\ UNCHANGED <<registries, snapshots, supply, now, outcome, replica, seen>>

\* The caller has its answer; the next request may come.
Deliver ==
    /\ req.phase = "done"
    /\ req' = IdleRequest
    /\ answer' = NoAnswer
    /\ seen' = NothingSeen
    /\ UNCHANGED <<registries, snapshots, supply, now, outcome, replica>>

-----------------------------------------------------------------------------
(* The chain goes on meanwhile.  evaluate_snapshot changes no account and is *)
(* compared with, not taken as a step.                                      *)

ProgramStep ==
    \/ \E signer \in Keys, m \in Mints, a \in AssetIds, k \in Keys : InitializeAsset(signer, m, a, k)
    \/ \E signer \in Keys, m \in Mints, id \in SnapshotIds, b \in Amounts, e \in Timestamps :
           SubmitSnapshot(signer, m, id, b, e)
    \/ \E signer \in Keys, m \in Mints, k \in Keys : UpdateAttestor(signer, m, k)
    \/ \E m \in Mints, amount \in Amounts : ChangeSupply(m, amount)
    \/ AdvanceClock

Serving == req.phase \notin {"idle", "done"}

ChainStep ==
    /\ req.phase # "done"
    /\ ProgramStep
    /\ UNCHANGED <<req, answer, replica>>
    /\ seen' = [seen EXCEPT
           !.quiet = @ /\ (Serving => chain' = chain),
           !.okSeen = @ \/ (Serving /\ Evaluable(req.mint)')]

CatchUp ==
    /\ LaggingNodes
    /\ replica' = chain
    /\ UNCHANGED <<registries, snapshots, supply, now, outcome, req, answer, seen>>

Serve == ReadRegistry \/ ReadSnapshot \/ ReadSupply \/ Reply \/ RpcFails

HealthNext ==
    \/ \E m \in Mints : Request(m)
    \/ ReadRegistry
    \/ ReadSnapshot
    \/ ReadSupply
    \/ Reply
    \/ RpcFails
    \/ Deliver
    \/ ChainStep
    \/ CatchUp

HealthSpec == HealthInit /\ [][HealthNext]_healthVars

\* Every RPC call settles, one way or the other, and the event loop goes on.
FairHealthSpec == HealthSpec /\ WF_healthVars(Serve)

-----------------------------------------------------------------------------
(* Properties. *)

HealthTypeOK ==
    /\ TypeOK
    /\ req \in [phase : Phases, mint : Mints \cup {DefaultKey}, failures : 0 .. MaxAttempts - 1,
                target : SnapshotKeys \cup {DefaultKey},
                snapshot : Snapshot \cup {NoAccount}, liveSupply : Amounts]
    /\ answer.kind \in {NoValue, "unknown", "thrown", "health"}
    /\ (req.phase = "done") <=> (answer.kind # NoValue)
    /\ req.phase \in {"snapshot", "supply", "reply"} => req.target \in SnapshotKeys
    /\ req.phase \in {"supply", "reply"} => req.snapshot # NoAccount
    /\ seen \in [quiet : BOOLEAN, okSeen : BOOLEAN, known : BOOLEAN, lagged : BOOLEAN]

Answered == answer.kind = "health"

\* The API returns the verdict twice, as a status word and as a flag, computed
\* apart; the verdict logic reads one and clients the other.
StatusAndSafeAgree == Answered => (answer.safe <=> answer.status = "VERIFIED")

\* The reads are not atomic, so "safe" may hold at no instant of the chain's
\* history.  Unless a node that is behind answered one of them, it never
\* misleads by more than this: evaluate_snapshot would have said Ok at some
\* instant of the request, or a newer snapshot overtook the one read, or the
\* snapshot ran out within the clocks' difference.
SafeHasBasis ==
    Answered /\ answer.safe /\ ~seen.lagged =>
        \/ seen.okSeen
        \/ answer.overtaken
        \/ answer.at >= answer.expiresAt /\ answer.at <= answer.expiresAt + ClockSkew

\* While no transaction lands during the request, the nodes are up to date and
\* the clocks agree, the API's verdict is evaluate_snapshot's, save in the very
\* second of expiry.
AgreesWhenQuiet ==
    Answered /\ seen.quiet /\ ~seen.lagged /\ answer.hostClock = answer.at /\ answer.at # answer.expiresAt =>
        (answer.safe <=> answer.evaluable)

\* backend/onchain.ts says it applies the freshness and coverage checks that
\* evaluate_snapshot enforces, so that there is one definition of "safe".
AgreesWithEvaluate ==
    Answered /\ seen.quiet /\ ~seen.lagged /\ answer.hostClock = answer.at =>
        (answer.safe <=> answer.evaluable)

\* An asset that had a snapshot when the request came in is never reported as
\* unknown by nodes that are up to date: the three reads follow pointers that
\* only move forward, to accounts that are never closed.
KnownAssetIsNeverUnknown == seen.known /\ ~seen.lagged => answer.kind # "unknown"

\* Even from lagging nodes, the attestation an answer quotes is one the chain
\* holds, with this backing and this expiry.
AnswerIsGenuine ==
    Answered =>
        /\ Exists(answer.snapshot)
        /\ snapshots[answer.snapshot].attested_backing = answer.attestedBacking
        /\ snapshots[answer.snapshot].expires_at = answer.expiresAt
        /\ answer.safe => snapshots[answer.snapshot].status = "Verified"

\* Every request is answered, if only by an error.
RequestsAnswered == Serving ~> req.phase = "done"
=============================================================================
