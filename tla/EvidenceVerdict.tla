---------------------------- MODULE EvidenceVerdict ----------------------------
(***************************************************************************)
(* What GET /assets/:mint/evidence of backend/server.ts makes of the answers *)
(* its four sources may give: the classification of each and the verdict,    *)
(* which evaluateEvidence computes from them.  Evidence says in which order  *)
(* and over what time the sources are asked, Dashboard what the page shows.  *)
(*                                                                           *)
(* The texts of "reasons" and "detail" are left out; every path adds a       *)
(* reason, so reasons.length > 0 always holds.                               *)
(***************************************************************************)
EXTENDS Integers

CONSTANTS
    Mints,
    Catalogued,     \* mints in the PRESTOCKS_ASSETS table
    Listed,         \* mints whose symbol or asset id has a feed in PYTH_EQUITY_FEEDS
    PYTH_MAX_AGE_SECONDS,
    PYTH_MAX_CONFIDENCE_BPS

\* PreStocks assets are private companies, and no equity feed exists for them.
ASSUME MintAssumption == Catalogued \subseteq Mints /\ Listed \subseteq Mints \ Catalogued
ASSUME PythAssumption == PYTH_MAX_AGE_SECONDS \in Nat /\ PYTH_MAX_CONFIDENCE_BPS \in Nat

\* What the chain holds for a mint, as readAssetHealth would report it.
GateStates == {"VERIFIED", "UNDER_BACKED", "STALE", "NO_SNAPSHOT", "UNREGISTERED"}

\* How the mainnet account compares with the table: all fields that could be
\* read agree (or none could), or a field differs.
Identities == {"agrees", "decimals", "symbol", "name"}

\* A Hermes price update: how old it is when it arrives may be negative, as
\* two clocks are compared.
Quotes == [price : 0 .. 2, conf : 0 .. 1, age : -1 .. PYTH_MAX_AGE_SECONDS + 1]

-----------------------------------------------------------------------------
(* The sources' answers. *)

Health(status, safe, named) == [status |-> status, safe |-> safe, named |-> named]

\* assetId is there when a registry was read and nothing was missing after it.
HealthAnswer(g) ==
    CASE g = "VERIFIED"     -> Health("VERIFIED", TRUE, TRUE)
      [] g = "UNDER_BACKED" -> Health("UNDER_BACKED", FALSE, TRUE)
      [] g = "STALE"        -> Health("STALE", FALSE, TRUE)
      [] g = "NO_SNAPSHOT"  -> Health("UNKNOWN", FALSE, TRUE)
      [] g = "UNREGISTERED" -> Health("UNKNOWN", FALSE, FALSE)

HealthUnavailable == Health("UNKNOWN", FALSE, FALSE)

\* All that getEvidence may learn from readAssetHealth.
HealthAnswers == {HealthUnavailable} \cup {HealthAnswer(g) : g \in GateStates}

PrestocksAnswers(m) == IF m \in Catalogued THEN {"OBSERVED", "failed"} ELSE {"not_registered"}

MainnetAnswers(m, id) ==
    IF m \in Catalogued
    THEN {[status |-> "OBSERVED", identity |-> id], [status |-> "failed", identity |-> "unread"]}
    ELSE {[status |-> "not_known", identity |-> "unread"]}

Fresh(quote) == quote.age >= 0 /\ quote.age <= PYTH_MAX_AGE_SECONDS

ConfidenceAcceptable(quote) ==
    /\ quote.price > 0
    /\ quote.conf * 10000 <= quote.price * PYTH_MAX_CONFIDENCE_BPS

PythAnswer(status, usable) == [status |-> status, usable |-> usable]

\* Faulty variant: the price's age is not looked at.
PythObserved_AnyAge(quote) == PythAnswer("OBSERVED", ConfidenceAcceptable(quote))

PythObserved(quote) == PythAnswer("OBSERVED", Fresh(quote) /\ ConfidenceAcceptable(quote))

\* The symbol of a catalogued mint comes from the table, of any other from
\* the asset id on chain, if it could be read; a feed must exist for it.
HasSymbol(m, health) == m \in Catalogued \/ health.named

\* Faulty variant: any symbol is good enough for a feed.
HasFeed_AnySymbol(m, health) == HasSymbol(m, health)

HasFeed(m, health) == HasSymbol(m, health) /\ m \in Listed

-----------------------------------------------------------------------------
(* evaluateEvidence. *)

BackstopDisplay(e, m) ==
    IF e.backstop.safe THEN "PASS"
    ELSE IF e.backstop.status \in {"UNDER_BACKED", "STALE"} THEN "FAIL"
    ELSE IF m \in Catalogued THEN "NOT_APPLICABLE" ELSE "UNKNOWN"

PrestocksDisplay(e) ==
    CASE e.prestocks = "OBSERVED"       -> "PASS"
      [] e.prestocks = "not_registered" -> "NOT_APPLICABLE"
      [] e.prestocks = "failed"         -> "UNKNOWN"

MainnetSolanaDisplay(e) ==
    CASE e.mainnet.status = "OBSERVED"  -> "PASS"
      [] e.mainnet.status = "not_known" -> "NOT_APPLICABLE"
      [] e.mainnet.status = "failed"    -> "UNKNOWN"

PythDisplay(e) ==
    CASE e.pyth.status = "NOT_APPLICABLE" -> "NOT_APPLICABLE"
      [] e.pyth.status = "OBSERVED"       -> IF e.pyth.usable THEN "PASS" ELSE "FAIL"
      [] e.pyth.status = "UNAVAILABLE"    -> "UNKNOWN"

EvidenceDisplay(e, m) ==
    [backstop |-> BackstopDisplay(e, m), prestocks |-> PrestocksDisplay(e),
     mainnetSolana |-> MainnetSolanaDisplay(e), pyth |-> PythDisplay(e)]

Displays(e, m) ==
    LET display == EvidenceDisplay(e, m)
    IN  {display.backstop, display.prestocks, display.mainnetSolana, display.pyth}

BothObserved(e) == e.prestocks = "OBSERVED" /\ e.mainnet.status = "OBSERVED"

IdentityMismatch(e) == BothObserved(e) /\ e.mainnet.identity # "agrees"

HasConcreteEvidence(e, m) == Displays(e, m) \cap {"PASS", "FAIL"} # {}

\* Faulty variants: a missing price is no objection; a registry that could not
\* be read denies; a verdict the type does not have.
Verdict_PriceOptional(e, m) ==
    IF IdentityMismatch(e) \/ e.backstop.status = "UNDER_BACKED" THEN "DENY"
    ELSE IF BothObserved(e) THEN "WARNING"
    ELSE IF e.backstop.safe /\ (e.pyth.status = "OBSERVED" => e.pyth.usable) THEN "VERIFIED"
    ELSE IF HasConcreteEvidence(e, m) THEN "WARNING" ELSE "UNKNOWN"

Verdict_OutageDenies(e, m) ==
    IF IdentityMismatch(e) \/ (~e.backstop.safe /\ e.backstop.status # "STALE") THEN "DENY"
    ELSE IF BothObserved(e) THEN "WARNING"
    ELSE IF e.backstop.safe /\ e.pyth.status = "OBSERVED" /\ e.pyth.usable THEN "VERIFIED"
    ELSE IF HasConcreteEvidence(e, m) THEN "WARNING" ELSE "UNKNOWN"

Verdict_NotApplicable(e, m) ==
    IF IdentityMismatch(e) \/ e.backstop.status = "UNDER_BACKED" THEN "DENY"
    ELSE IF BothObserved(e) THEN "WARNING"
    ELSE IF e.backstop.safe /\ e.pyth.status = "OBSERVED" /\ e.pyth.usable THEN "VERIFIED"
    ELSE IF HasConcreteEvidence(e, m) THEN "WARNING"
    ELSE IF "NOT_APPLICABLE" \in Displays(e, m) THEN "NOT_APPLICABLE" ELSE "UNKNOWN"

Verdict(e, m) ==
    IF IdentityMismatch(e) \/ e.backstop.status = "UNDER_BACKED" THEN "DENY"
    ELSE IF BothObserved(e) THEN "WARNING"
    ELSE IF e.backstop.safe /\ e.pyth.status = "OBSERVED" /\ e.pyth.usable THEN "VERIFIED"
    ELSE IF HasConcreteEvidence(e, m) THEN "WARNING" ELSE "UNKNOWN"

\* The evidence when every source is out.
NoEvidence == [backstop |-> HealthUnavailable, prestocks |-> "failed",
               mainnet |-> [status |-> "failed", identity |-> "unread"],
               pyth |-> PythAnswer("UNAVAILABLE", FALSE)]
=============================================================================
