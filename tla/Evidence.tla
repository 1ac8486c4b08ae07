------------------------------- MODULE Evidence -------------------------------
(***************************************************************************)
(* GET /assets/:mint/evidence of backend/server.ts and the protocol that     *)
(* gates on it (mock-consumer/index.ts).  getEvidence asks four sources one  *)
(* after the other, each may fail on its own, and evaluateEvidence makes one *)
(* verdict of what came back; the consumer allows or blocks, or gives up     *)
(* waiting.  The first source, readAssetHealth, is itself three reads of a   *)
(* chain that moves meanwhile, some of them perhaps from a node that is      *)
(* behind, and a look at the host's clock.                                   *)
(*                                                                           *)
(* Time is counted in seconds since the consumer asked.  Of the chain only   *)
(* the mint that is checked is kept: what its registry points to and its     *)
(* supply.  A snapshot stands for its address, as it is never rewritten or   *)
(* closed (AccountsArePermanent of BackstopProgram).                         *)
(***************************************************************************)
EXTENDS EvidenceVerdict, HealthVerdict

CONSTANTS
    ConsumerTimeout,    \* seconds the consumer waits
    MaxSupply,
    ClockSkew,          \* how far the host's clock may be from the cluster's
    LaggingNodes,       \* whether a read may be answered by a node that is behind
    Unregistered,       \* the mint has no registry
    NoSnapshot          \* its registry points to no snapshot; none has been read

ASSUME TimeAssumption == ConsumerTimeout \in Nat \ {0} /\ ClockSkew \in Nat
ASSUME ChainAssumption == MaxSupply \in Nat /\ LaggingNodes \in BOOLEAN

Amounts == 0 .. MaxSupply

\* A deadline before the first is long past, one at the last beyond reach.
Deadlines == -(ClockSkew + 1) .. ConsumerTimeout + ClockSkew + 1

SnapshotsOf(m) ==
    [mint : {m}, registry : {m}, status : {"Verified", "UnderBacked"},
     attested_backing : Amounts, expires_at : Deadlines]

ASSUME NoneAssumption ==
    /\ Unregistered # NoSnapshot
    /\ \A m \in Mints : Unregistered \notin SnapshotsOf(m) /\ NoSnapshot \notin SnapshotsOf(m)

RegistriesOf(m) == {Unregistered, NoSnapshot} \cup SnapshotsOf(m)

VARIABLES
    mint,       \* the mint the consumer is checking
    registry,   \* on the chain: the snapshot its registry points to, if any
    supply,     \* on the chain: its supply
    identity,   \* what its mainnet account is
    req,        \* the request the server works on: its phase, the values read
                \* for readAssetHealth, and its evidence
    left,       \* seconds until the consumer gives up
    decision,   \* the consumer's decision
    seen        \* history: what really happened since the consumer asked

vars == <<mint, registry, supply, identity, req, left, decision, seen>>

-----------------------------------------------------------------------------
(* The chain and the clocks. *)

Now == ConsumerTimeout - left

\* What BackstopGate calls safe, and evaluate_snapshot says Ok to.
Vouches(current, amount, t) ==
    /\ current \notin {Unregistered, NoSnapshot}
    /\ current.status = "Verified"
    /\ t < current.expires_at
    /\ amount <= current.attested_backing

\* The current attestation, in force by some clock, does not cover the supply
\* or did not when it was made.
FallsShort(current, amount, t) ==
    /\ current \notin {Unregistered, NoSnapshot}
    /\ t <= current.expires_at + ClockSkew
    /\ current.status = "UnderBacked" \/ amount > current.attested_backing

\* What a node may answer: the registry as it is, or as it was at any time.
RegistryViews ==
    IF ~LaggingNodes THEN {registry}
    ELSE CASE registry = Unregistered -> {Unregistered}
           [] registry = NoSnapshot   -> {Unregistered, NoSnapshot}
           [] OTHER                   -> RegistriesOf(mint)

SupplyViews == IF LaggingNodes THEN Amounts ELSE {supply}

HostClocks == (Now - ClockSkew) .. (Now + ClockSkew)

-----------------------------------------------------------------------------
(* The request and the consumer. *)

IdleRequest == [phase |-> "idle", target |-> NoSnapshot, liveSupply |-> 0,
                evidence |-> NoEvidence, verdict |-> "none"]

\* No price has been used: one too old.
NothingSeen == [vouched |-> FALSE, short |-> FALSE, lagged |-> FALSE, overtaken |-> FALSE,
                expiring |-> FALSE, published |-> -(PYTH_MAX_AGE_SECONDS + 1)]

Init ==
    /\ mint \in Mints
    /\ registry = Unregistered
    /\ supply = 0
    /\ identity = "agrees"
    /\ req = IdleRequest
    /\ left = 0
    /\ decision = "none"
    /\ seen = NothingSeen

\* checkMint, whatever state the mint is in.
Ask(m) ==
    /\ decision = "none"
    /\ mint' = m
    /\ registry' \in RegistriesOf(m)
    /\ supply' \in Amounts
    /\ identity' \in (IF m \in Catalogued THEN Identities ELSE {"agrees"})
    /\ req' = [IdleRequest EXCEPT !.phase = "registry"]
    /\ left' = ConsumerTimeout
    /\ decision' = "waiting"
    /\ seen' = [NothingSeen EXCEPT !.vouched = Vouches(registry', supply', 0),
                                   !.short = FallsShort(registry', supply', 0)]

-----------------------------------------------------------------------------
(* readAssetHealth.  withRpcRetry only delays a read, or fails it.          *)

\* The answer is there, and the values read are no longer needed.
HealthIs(answer) ==
    req' = [req EXCEPT !.phase = "prestocks", !.target = NoSnapshot, !.liveSupply = 0,
                       !.evidence.backstop = answer]

ReadRegistry ==
    /\ req.phase = "registry"
    /\ \E view \in RegistryViews :
           /\ seen' = [seen EXCEPT !.lagged = @ \/ view # registry]
           /\ \/ view = Unregistered /\ HealthIs(Health("UNKNOWN", FALSE, FALSE))
              \/ view = NoSnapshot /\ HealthIs(Health("UNKNOWN", FALSE, TRUE))
              \/ /\ view \notin {Unregistered, NoSnapshot}
                 /\ req' = [req EXCEPT !.phase = "snapshot", !.target = view]
    /\ UNCHANGED <<mint, registry, supply, identity, left, decision>>

\* The account is there, as the registry points to no other; a node that is
\* behind may not have it yet.
ReadSnapshot ==
    /\ req.phase = "snapshot"
    /\ \/ /\ req' = [req EXCEPT !.phase = "supply"]
          /\ UNCHANGED seen
       \/ /\ LaggingNodes
          /\ HealthIs(Health("UNKNOWN", FALSE, FALSE))
          /\ seen' = [seen EXCEPT !.lagged = TRUE]
    /\ UNCHANGED <<mint, registry, supply, identity, left, decision>>

\* "overtaken" is history: a newer snapshot is current by now.
ReadSupply ==
    /\ req.phase = "supply"
    /\ \E view \in SupplyViews :
           /\ req' = [req EXCEPT !.phase = "clock", !.liveSupply = view]
           /\ seen' = [seen EXCEPT !.lagged = @ \/ view # supply, !.overtaken = registry # req.target]
    /\ UNCHANGED <<mint, registry, supply, identity, left, decision>>

\* The last answer has arrived.  "expiring" is history: the snapshot ran out
\* no longer ago than the clocks may differ.
ReadClock ==
    /\ req.phase = "clock"
    /\ \E t \in HostClocks :
           HealthIs(Health(HealthStatus(req.target, req.liveSupply, t),
                           HealthSafe(req.target, req.liveSupply, t, mint), TRUE))
    /\ seen' = [seen EXCEPT !.expiring = /\ req.target.expires_at <= Now
                                         /\ Now <= req.target.expires_at + ClockSkew]
    /\ UNCHANGED <<mint, registry, supply, identity, left, decision>>

\* A read that fails to the end is caught in getEvidence.
ReadFails ==
    /\ req.phase \in {"registry", "snapshot", "supply"}
    /\ HealthIs(HealthUnavailable)
    /\ UNCHANGED <<mint, registry, supply, identity, left, decision, seen>>

-----------------------------------------------------------------------------
(* The other sources, the reply and the consumer's decision. *)

ReadPrestocks ==
    /\ req.phase = "prestocks"
    /\ \E answer \in PrestocksAnswers(mint) :
           req' = [req EXCEPT !.phase = "mainnet", !.evidence.prestocks = answer]
    /\ UNCHANGED <<mint, registry, supply, identity, left, decision, seen>>

ReadMainnet ==
    /\ req.phase = "mainnet"
    /\ \E answer \in MainnetAnswers(mint, identity) :
           req' = [req EXCEPT !.phase = "pyth", !.evidence.mainnet = answer]
    /\ UNCHANGED <<mint, registry, supply, identity, left, decision, seen>>

ReadPyth ==
    /\ req.phase = "pyth"
    /\ \/ /\ HasFeed(mint, req.evidence.backstop)
          /\ \E quote \in Quotes :
                 /\ req' = [req EXCEPT !.phase = "reply", !.evidence.pyth = PythObserved(quote)]
                 /\ seen' = [seen EXCEPT !.published = Now - quote.age]
       \/ /\ HasFeed(mint, req.evidence.backstop)
          /\ req' = [req EXCEPT !.phase = "reply", !.evidence.pyth = PythAnswer("UNAVAILABLE", FALSE)]
          /\ UNCHANGED seen
       \/ /\ ~HasFeed(mint, req.evidence.backstop)
          /\ req' = [req EXCEPT !.phase = "reply", !.evidence.pyth = PythAnswer("NOT_APPLICABLE", FALSE)]
          /\ UNCHANGED seen
    /\ UNCHANGED <<mint, registry, supply, identity, left, decision>>

Reply ==
    /\ req.phase = "reply"
    /\ req' = [req EXCEPT !.phase = "replied", !.verdict = Verdict(req.evidence, mint)]
    /\ UNCHANGED <<mint, registry, supply, identity, left, decision, seen>>

Decide(verdict) == IF verdict = "VERIFIED" THEN "ALLOW COLLATERAL" ELSE "BLOCK COLLATERAL"

Deliver ==
    /\ req.phase = "replied"
    /\ decision = "waiting"
    /\ decision' = Decide(req.verdict)
    /\ UNCHANGED <<mint, registry, supply, identity, req, left, seen>>

\* The API cannot be reached, or the response is not ok.
RequestFails ==
    /\ decision = "waiting"
    /\ decision' = Decide("none")
    /\ UNCHANGED <<mint, registry, supply, identity, req, left, seen>>

\* Faulty variant: a timeout makes the consumer ask again.
TimesOut_Retries ==
    /\ decision = "waiting"
    /\ left = 0
    /\ left' = ConsumerTimeout
    /\ req' = [IdleRequest EXCEPT !.phase = "registry"]
    /\ UNCHANGED <<mint, registry, supply, identity, decision, seen>>

\* AbortSignal.timeout; a response may still win the race at the deadline.
TimesOut ==
    /\ decision = "waiting"
    /\ left = 0
    /\ decision' = Decide("none")
    /\ UNCHANGED <<mint, registry, supply, identity, req, left, seen>>

\* checkMint returns, and the loop of main goes on to another mint.  What the
\* server still does for this one has nobody to answer to.
NextMint ==
    /\ decision \in {"ALLOW COLLATERAL", "BLOCK COLLATERAL"}
    /\ decision' = "none"
    /\ req' = IdleRequest
    /\ left' = 0
    /\ seen' = NothingSeen
    /\ UNCHANGED <<mint, registry, supply, identity>>

-----------------------------------------------------------------------------
(* Meanwhile, outside: an asset is registered, snapshots are submitted,     *)
(* supply moves, a second passes.  The chain is followed for as long as it   *)
(* is read; a rotation changes nothing that is read.                         *)

Reading == req.phase \in {"registry", "snapshot", "supply"}

ChainBecomes(current, amount) ==
    /\ Reading
    /\ registry' = current
    /\ supply' = amount
    /\ seen' = [seen EXCEPT !.vouched = @ \/ Vouches(current, amount, Now),
                            !.short = @ \/ FallsShort(current, amount, Now)]
    /\ UNCHANGED <<mint, identity, req, left, decision>>

InitializeAsset ==
    /\ registry = Unregistered
    /\ ChainBecomes(NoSnapshot, supply)

SubmitSnapshot ==
    /\ registry # Unregistered
    /\ \E snapshot \in SnapshotsOf(mint) :
           /\ snapshot.expires_at > Now
           /\ snapshot.status = IF supply <= snapshot.attested_backing THEN "Verified" ELSE "UnderBacked"
           /\ ChainBecomes(snapshot, supply)

ChangeSupply == \E amount \in Amounts \ {supply} : ChainBecomes(registry, amount)

Tick ==
    /\ decision = "waiting"
    /\ left > 0
    /\ left' = left - 1
    /\ UNCHANGED <<mint, registry, supply, identity, req, decision, seen>>

Next ==
    \/ \E m \in Mints : Ask(m)
    \/ ReadRegistry
    \/ ReadSnapshot
    \/ ReadSupply
    \/ ReadClock
    \/ ReadFails
    \/ ReadPrestocks
    \/ ReadMainnet
    \/ ReadPyth
    \/ Reply
    \/ Deliver
    \/ RequestFails
    \/ TimesOut
    \/ NextMint
    \/ InitializeAsset
    \/ SubmitSnapshot
    \/ ChangeSupply
    \/ Tick

Spec == Init /\ [][Next]_vars

\* Seconds pass and the consumer's timer fires.  Nothing is asked of the
\* server: its sources may hang.
FairSpec == Spec /\ WF_vars(Tick) /\ WF_vars(TimesOut)

-----------------------------------------------------------------------------
(* Properties. *)

\* Whatever the three reads met, readAssetHealth's answer is one of six.
EvidenceTypeOK ==
    /\ mint \in Mints /\ registry \in RegistriesOf(mint) /\ supply \in Amounts
    /\ identity \in Identities
    /\ req.phase \in {"idle", "registry", "snapshot", "supply", "clock",
                     "prestocks", "mainnet", "pyth", "reply", "replied"}
    /\ req.target \in {NoSnapshot} \cup SnapshotsOf(mint) /\ req.liveSupply \in Amounts
    /\ req.evidence.backstop \in HealthAnswers
    /\ req.verdict \in {"none", "VERIFIED", "WARNING", "DENY", "UNKNOWN"}
    /\ (req.phase = "replied") <=> (req.verdict # "none")
    /\ left \in 0 .. ConsumerTimeout
    /\ decision \in {"none", "waiting", "ALLOW COLLATERAL", "BLOCK COLLATERAL"}
    /\ seen \in [vouched : BOOLEAN, short : BOOLEAN, lagged : BOOLEAN, overtaken : BOOLEAN, expiring : BOOLEAN,
                 published : -(PYTH_MAX_AGE_SECONDS + 1) .. ConsumerTimeout + 1]

Replied == req.phase = "replied"

\* A consumer that admits collateral does so on a price that is, by the host's
\* clock, no older than a fresh one and the consumer's own timeout; and, if
\* every node it was read from was up to date, on a snapshot that
\* evaluate_snapshot would have said Ok to at some moment since the consumer
\* asked, unless a newer one replaced it between the reads or it ran out
\* within the clocks' difference (the second of expiry included, in which
\* onchain.ts still says VERIFIED).
AllowHasBasis ==
    decision = "ALLOW COLLATERAL" =>
        /\ Now - seen.published <= PYTH_MAX_AGE_SECONDS + ConsumerTimeout
        /\ seen.vouched \/ seen.lagged \/ seen.overtaken \/ seen.expiring

\* docs/PRESTOCKS_INTEGRATION.md caps a PreStocks asset at WARNING: no mix of
\* failing sources and devnet accounts turns it into a verified one.
PrestocksPathIsCapped == Replied /\ mint \in Catalogued => req.verdict # "VERIFIED"

\* README.md: unavailable evidence is not a failure.  A verdict of DENY needs
\* something really wrong: a mainnet identity that differs, or an attestation
\* that fell short of the supply at some moment since the consumer asked.  Only
\* a newer snapshot between the reads, or a node that is behind, can make the
\* server see a shortfall that never was.
DenialIsGrounded ==
    Replied /\ req.verdict = "DENY" =>
        identity # "agrees" \/ seen.short \/ seen.lagged \/ seen.overtaken

\* The other evidence, some of its sources gone.
Outages(e) ==
    {[backstop |-> b, prestocks |-> p, mainnet |-> n, pyth |-> y] :
        b \in {e.backstop, HealthUnavailable},
        p \in {e.prestocks} \cup (IF e.prestocks = "OBSERVED" THEN {"failed"} ELSE {}),
        n \in {e.mainnet} \cup
              (IF e.mainnet.status = "OBSERVED" THEN {[status |-> "failed", identity |-> "unread"]} ELSE {}),
        y \in {e.pyth} \cup
              (IF e.pyth.status = "OBSERVED" THEN {PythAnswer("UNAVAILABLE", FALSE)} ELSE {})}

\* The gate fails closed: losing any sources never turns a verdict into
\* VERIFIED that was not.
OutagesNeverVerify ==
    Replied /\ req.verdict # "VERIFIED" =>
        \A e \in Outages(req.evidence) : Verdict(e, mint) # "VERIFIED"

\* docs/PRESTOCKS_INTEGRATION.md: an identity mismatch is treated as a serious
\* evidence failure rather than being ignored.
MismatchIsNeverIgnored ==
    Replied /\ req.evidence.mainnet.identity \in Identities \ {"agrees"} => req.verdict = "DENY"

\* backend/server.ts, on its four states: NOT_APPLICABLE is for a check that
\* structurally does not apply, UNKNOWN for one that could not be completed.
NotApplicableIsStructural ==
    Replied /\ PythDisplay(req.evidence) = "NOT_APPLICABLE" =>
        mint \notin Listed \/ registry = Unregistered

\* The consumer decides on every mint, even if the server never answers.
ConsumerDecides == decision = "waiting" ~> decision # "waiting"
=============================================================================
