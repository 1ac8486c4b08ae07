---------------------------- MODULE EvidenceProofs ----------------------------
(***************************************************************************)
(* Proofs about Evidence, for any mints, tables, supplies, time limits and  *)
(* clock skew, with and without nodes that are behind: the pipeline of      *)
(* backend/server.ts and the consumer fail closed.                          *)
(*                                                                          *)
(* EvidenceInv is the inductive invariant.  It follows readAssetHealth      *)
(* through its reads: what the values read so far tell of the chain since   *)
(* the consumer asked, then what the answer made of them does; it ties the  *)
(* other answers to the mint they are about.  The properties follow from    *)
(* that and from Verdict.                                                   *)
(***************************************************************************)
EXTENDS Evidence, TLAPS

MainnetRecord == [status : {"OBSERVED", "failed", "not_known"}, identity : Identities \cup {"unread"}]
PythRecord == [status : {"OBSERVED", "UNAVAILABLE", "NOT_APPLICABLE"}, usable : BOOLEAN]

EvidenceRecord ==
    [backstop : HealthAnswers,
     prestocks : {"OBSERVED", "failed", "not_registered"},
     mainnet : MainnetRecord,
     pyth : PythRecord]

RequestRecord ==
    [phase : {"idle", "registry", "snapshot", "supply", "clock",
              "prestocks", "mainnet", "pyth", "reply", "replied"},
     target : {NoSnapshot} \cup SnapshotsOf(mint),
     liveSupply : Amounts,
     evidence : EvidenceRecord,
     verdict : {"none", "VERIFIED", "WARNING", "DENY", "UNKNOWN"}]

SeenRecord ==
    [vouched : BOOLEAN, short : BOOLEAN, lagged : BOOLEAN, overtaken : BOOLEAN, expiring : BOOLEAN,
     published : -(PYTH_MAX_AGE_SECONDS + 1) .. ConsumerTimeout + 1]

Shape == EvidenceTypeOK /\ req \in RequestRecord

HealthPhases == {"registry", "snapshot", "supply", "clock"}

\* While readAssetHealth runs, "vouched" and "short" are up to date for as long
\* as the chain is read; once the supply is read, they are so for what was
\* read, unless that is not what the chain held then.
ReadsAreTrue ==
    /\ req.phase \in HealthPhases => req.evidence.backstop = HealthUnavailable
    /\ req.phase \in {"snapshot", "supply", "clock"} => req.target # NoSnapshot
    /\ Reading =>
        /\ Vouches(registry, supply, Now) => seen.vouched
        /\ FallsShort(registry, supply, Now) => seen.short
    /\ req.phase = "clock" =>
        \/ seen.lagged \/ seen.overtaken
        \/ /\ Vouches(req.target, req.liveSupply, Now) => seen.vouched
           /\ FallsShort(req.target, req.liveSupply, Now) => seen.short

Mixed == seen.lagged \/ seen.overtaken

\* What readAssetHealth's answer, and a usable price, tell of what happened.
AnswersAreGrounded ==
    /\ req.evidence.backstop.safe = TRUE => seen.vouched \/ seen.expiring \/ Mixed
    /\ req.evidence.backstop.status = "UNDER_BACKED" => seen.short \/ Mixed
    /\ req.evidence.pyth.usable = TRUE => seen.published >= -PYTH_MAX_AGE_SECONDS

\* What was observed is about this mint: a catalogue entry and a mainnet
\* account only for a catalogued one, a price only for a listed one.
AnswersAreAboutMint ==
    /\ req.evidence.prestocks = "OBSERVED" => mint \in Catalogued
    /\ req.evidence.mainnet.status = "OBSERVED" => req.evidence.mainnet.identity = identity
    /\ req.evidence.pyth.status = "OBSERVED" => mint \in Listed

\* The consumer allows nothing but the verdict of this very request.
VerdictIsUsed ==
    /\ req.phase = "replied" => req.verdict = Verdict(req.evidence, mint)
    /\ decision = "ALLOW COLLATERAL" => req.phase = "replied" /\ req.verdict = "VERIFIED"

EvidenceInv == Shape /\ ReadsAreTrue /\ AnswersAreGrounded /\ AnswersAreAboutMint /\ VerdictIsUsed

-----------------------------------------------------------------------------
(* The answers and the verdict. *)

LEMMA UnavailableIsAnswer == HealthUnavailable \in HealthAnswers
  BY DEF HealthAnswers

\* Every answer has its flag.
LEMMA AnswerIsFlagged ==
    ASSUME NEW answer \in HealthAnswers
    PROVE  answer.safe \in BOOLEAN
  <1>1. CASE answer = HealthUnavailable
    BY <1>1 DEF HealthUnavailable, Health
  <1>2. ASSUME NEW g \in GateStates, answer = HealthAnswer(g)
        PROVE  answer.safe \in BOOLEAN
    <2>1. HealthAnswer(g) \in {Health("VERIFIED", TRUE, TRUE), Health("UNDER_BACKED", FALSE, TRUE),
                                Health("STALE", FALSE, TRUE), Health("UNKNOWN", FALSE, TRUE),
                                Health("UNKNOWN", FALSE, FALSE)}
      BY DEF HealthAnswer, GateStates
    <2>2. \A status, named : \A safe \in BOOLEAN : Health(status, safe, named).safe \in BOOLEAN
      BY DEF Health
    <2> QED BY <1>2, <2>1, <2>2
  <1> QED BY <1>1, <1>2 DEF HealthAnswers

\* An early return of readAssetHealth.
LEMMA UnknownIsAnswer ==
    ASSUME NEW named \in BOOLEAN
    PROVE  Health("UNKNOWN", FALSE, named) \in HealthAnswers
  <1>1. CASE named = TRUE
    <2>1. HealthAnswer("NO_SNAPSHOT") = Health("UNKNOWN", FALSE, TRUE)
      BY DEF HealthAnswer
    <2> QED BY <1>1, <2>1 DEF HealthAnswers, GateStates
  <1>2. CASE named = FALSE
    BY <1>2 DEF HealthAnswers, HealthUnavailable
  <1> QED BY <1>1, <1>2

\* The verdict at the end of readAssetHealth: its status and its flag agree,
\* and each says what the values read and the host's clock were.
LEMMA HealthVerdictMeans ==
    ASSUME NEW m \in Mints, NEW target \in SnapshotsOf(m), NEW amount \in Amounts, NEW t \in Int
    PROVE  /\ Health(HealthStatus(target, amount, t), HealthSafe(target, amount, t, m), TRUE) \in HealthAnswers
           /\ HealthSafe(target, amount, t, m) =>
                  target.status = "Verified" /\ amount <= target.attested_backing /\ t <= target.expires_at
           /\ HealthStatus(target, amount, t) = "UNDER_BACKED" =>
                  /\ t <= target.expires_at
                  /\ target.status = "UnderBacked" \/ amount > target.attested_backing
  <1>1. /\ target.mint = m /\ target.registry = m
        /\ target.status \in {"Verified", "UnderBacked"}
        /\ target.attested_backing \in Int /\ target.expires_at \in Int /\ amount \in Int
    BY ChainAssumption, TimeAssumption DEF SnapshotsOf, Amounts, Deadlines
  <1>2. HealthSafe(target, amount, t, m) \in BOOLEAN
    BY DEF HealthSafe
  <1>3. HealthSafe(target, amount, t, m) <=> HealthStatus(target, amount, t) = "VERIFIED"
    BY <1>1 DEF HealthSafe, HealthStatus, StatusName
  <1>4. HealthStatus(target, amount, t) \in {"VERIFIED", "UNDER_BACKED", "STALE"}
    BY DEF HealthStatus, StatusName
  <1>5. Health(HealthStatus(target, amount, t), HealthSafe(target, amount, t, m), TRUE) \in HealthAnswers
    <2> DEFINE status == HealthStatus(target, amount, t)
               safe == HealthSafe(target, amount, t, m)
    <2> HIDE DEF status, safe
    <2>1. status \in GateStates /\ status \in {"VERIFIED", "UNDER_BACKED", "STALE"}
      BY <1>4 DEF status, GateStates
    <2>2. safe = (status = "VERIFIED")
      BY <1>2, <1>3 DEF status, safe
    <2>3. HealthAnswer(status) = Health(status, safe, TRUE)
      <3>1. CASE status = "VERIFIED"
        BY <2>2, <3>1 DEF HealthAnswer
      <3>2. CASE status = "UNDER_BACKED"
        BY <2>2, <3>2 DEF HealthAnswer
      <3>3. CASE status = "STALE"
        BY <2>2, <3>3 DEF HealthAnswer
      <3> QED BY <2>1, <3>1, <3>2, <3>3
    <2> QED BY <2>1, <2>3 DEF HealthAnswers, status, safe
  <1>6. HealthSafe(target, amount, t, m) =>
            target.status = "Verified" /\ amount <= target.attested_backing /\ t <= target.expires_at
    BY <1>1 DEF HealthSafe, StatusName, Expired, UnderBacked
  <1>7. HealthStatus(target, amount, t) = "UNDER_BACKED" =>
            /\ t <= target.expires_at
            /\ target.status = "UnderBacked" \/ amount > target.attested_backing
    BY <1>1 DEF HealthStatus, StatusName, Expired, UnderBacked
  <1> QED BY <1>5, <1>6, <1>7

\* A usable price was at most PYTH_MAX_AGE_SECONDS old when it arrived.
LEMMA UsableQuoteIsFresh ==
    ASSUME NEW quote \in Quotes
    PROVE  /\ PythObserved(quote) \in [status : {"OBSERVED"}, usable : BOOLEAN]
           /\ PythObserved(quote).usable = TRUE => quote.age >= 0 /\ quote.age <= PYTH_MAX_AGE_SECONDS
  <1> DEFINE usable == Fresh(quote) /\ ConfidenceAcceptable(quote)
  <1>1. PythObserved(quote) = [status |-> "OBSERVED", usable |-> usable]
    BY DEF PythObserved, PythAnswer
  <1>2. usable \in BOOLEAN
    OBVIOUS
  <1>3. usable = TRUE => quote.age >= 0 /\ quote.age <= PYTH_MAX_AGE_SECONDS
    BY DEF Fresh
  <1> HIDE DEF usable
  <1> QED BY <1>1, <1>2, <1>3

\* evaluateEvidence knows four verdicts.
LEMMA VerdictTyped ==
    ASSUME NEW e, NEW m
    PROVE  Verdict(e, m) \in {"VERIFIED", "WARNING", "DENY", "UNKNOWN"}
  BY DEF Verdict

\* The evidence of a request that has asked nothing is evidence.
LEMMA NoEvidenceTyped == NoEvidence \in EvidenceRecord
  BY UnavailableIsAnswer DEF NoEvidence, EvidenceRecord, MainnetRecord, PythRecord, PythAnswer

\* Time takes a snapshot's force away and never gives it.
LEMMA ForceFades ==
    ASSUME NEW m \in Mints, NEW current \in RegistriesOf(m), NEW amount, NEW t \in Int
    PROVE  /\ Vouches(current, amount, t + 1) => Vouches(current, amount, t)
           /\ FallsShort(current, amount, t + 1) => FallsShort(current, amount, t)
  <1>1. ASSUME current \notin {Unregistered, NoSnapshot} PROVE current.expires_at \in Int
    <2>1. current \in SnapshotsOf(m)
      BY <1>1 DEF RegistriesOf
    <2> QED BY <2>1, TimeAssumption DEF SnapshotsOf, Deadlines
  <1>2. ClockSkew \in Int
    BY TimeAssumption
  <1> QED BY <1>1, <1>2 DEF Vouches, FallsShort

-----------------------------------------------------------------------------
(* The invariant. *)

\* The numbers of a well-shaped state are numbers.
LEMMA ShapeNumbers ==
    ASSUME Shape
    PROVE  /\ left \in Int /\ 0 <= left /\ left <= ConsumerTimeout
           /\ ConsumerTimeout \in Int /\ ClockSkew \in Int /\ PYTH_MAX_AGE_SECONDS \in Int
           /\ Now \in Int /\ 0 <= Now /\ Now <= ConsumerTimeout
           /\ seen.published \in Int
  <1>1. left \in 0 .. ConsumerTimeout
    BY DEF Shape, EvidenceTypeOK
  <1>2. seen.published \in -(PYTH_MAX_AGE_SECONDS + 1) .. ConsumerTimeout + 1
    BY DEF Shape, EvidenceTypeOK
  <1>3. ConsumerTimeout \in Int /\ ClockSkew \in Int /\ PYTH_MAX_AGE_SECONDS \in Int
    BY TimeAssumption, PythAssumption
  <1> QED BY <1>1, <1>2, <1>3 DEF Now

\* It holds initially.
LEMMA EvidenceInitInv == Init => EvidenceInv
  <1> SUFFICES ASSUME Init PROVE EvidenceInv
    OBVIOUS
  <1>1. 0 \in Amounts /\ 0 \in 0 .. ConsumerTimeout
    BY ChainAssumption, TimeAssumption DEF Amounts
  <1>2. seen \in SeenRecord
    <2>1. -(PYTH_MAX_AGE_SECONDS + 1) \in -(PYTH_MAX_AGE_SECONDS + 1) .. ConsumerTimeout + 1
      BY PythAssumption, TimeAssumption
    <2> QED BY <2>1 DEF Init, NothingSeen, SeenRecord
  <1>3. req \in RequestRecord
    BY <1>1, NoEvidenceTyped DEF Init, IdleRequest, RequestRecord
  <1>4. NoEvidence.backstop = HealthUnavailable
    BY DEF NoEvidence
  <1>5. Shape
    BY <1>1, <1>2, <1>3, <1>4, UnavailableIsAnswer
       DEF Init, Shape, EvidenceTypeOK, IdleRequest, RegistriesOf, Identities, SeenRecord
  <1>6. ReadsAreTrue /\ AnswersAreGrounded /\ AnswersAreAboutMint /\ VerdictIsUsed
    BY DEF Init, IdleRequest, NoEvidence, HealthUnavailable, Health, PythAnswer, HealthPhases, Reading,
           ReadsAreTrue, AnswersAreGrounded, AnswersAreAboutMint, VerdictIsUsed
  <1> QED BY <1>5, <1>6 DEF EvidenceInv

\* The consumer asks.
LEMMA AskKeeps ==
    ASSUME NEW m \in Mints, Ask(m)
    PROVE  EvidenceInv'
  <1>1. /\ mint' = m /\ registry' \in RegistriesOf(m) /\ supply' \in Amounts /\ identity' \in Identities
        /\ req' = [phase |-> "registry", target |-> NoSnapshot, liveSupply |-> 0,
                   evidence |-> NoEvidence, verdict |-> "none"]
        /\ left' = ConsumerTimeout /\ decision' = "waiting"
    BY DEF Ask, IdleRequest, Identities
  <1> DEFINE vouched == Vouches(registry', supply', 0)
             short == FallsShort(registry', supply', 0)
  <1>2. vouched \in BOOLEAN /\ short \in BOOLEAN
    BY DEF Vouches, FallsShort
  <1>3. seen' = [vouched |-> vouched, short |-> short, lagged |-> FALSE, overtaken |-> FALSE,
                 expiring |-> FALSE, published |-> -(PYTH_MAX_AGE_SECONDS + 1)]
    BY DEF Ask, NothingSeen
  <1>4. Now' = 0
    BY <1>1, TimeAssumption DEF Now
  <1>5. Vouches(registry, supply, Now)' <=> vouched
    BY <1>4 DEF Vouches
  <1>6. FallsShort(registry, supply, Now)' <=> short
    BY <1>4 DEF FallsShort
  <1>7. NoEvidence.backstop = HealthUnavailable
    BY DEF NoEvidence
  <1> HIDE DEF vouched, short
  <1>8. Shape'
    <2>1. seen' \in SeenRecord
      <3>1. -(PYTH_MAX_AGE_SECONDS + 1) \in -(PYTH_MAX_AGE_SECONDS + 1) .. ConsumerTimeout + 1
        BY PythAssumption, TimeAssumption
      <3> QED BY <1>2, <1>3, <3>1 DEF SeenRecord
    <2>2. 0 \in Amounts /\ left' \in 0 .. ConsumerTimeout
      BY <1>1, ChainAssumption, TimeAssumption DEF Amounts
    <2>3. (req \in RequestRecord)'
      BY <1>1, <2>2, NoEvidenceTyped DEF RequestRecord
    <2> QED BY <1>1, <1>7, <2>1, <2>2, <2>3, UnavailableIsAnswer DEF Shape, EvidenceTypeOK, SeenRecord
  <1>9. ReadsAreTrue'
    BY <1>1, <1>3, <1>5, <1>6, <1>7 DEF ReadsAreTrue, HealthPhases, Reading
  <1>10. AnswersAreGrounded' /\ AnswersAreAboutMint' /\ VerdictIsUsed'
    BY <1>1 DEF NoEvidence, HealthUnavailable, Health, PythAnswer,
                AnswersAreGrounded, AnswersAreAboutMint, VerdictIsUsed
  <1> QED BY <1>8, <1>9, <1>10 DEF EvidenceInv

\* readAssetHealth answers, and what it says is grounded.
LEMMA HealthIsKeeps ==
    ASSUME EvidenceInv, req.phase \in HealthPhases, NEW answer \in HealthAnswers, HealthIs(answer),
           UNCHANGED <<mint, registry, supply, identity, left, decision>>,
           seen' \in SeenRecord, seen'.published = seen.published,
           answer.safe = TRUE => seen'.vouched \/ seen'.expiring \/ Mixed',
           answer.status = "UNDER_BACKED" => seen'.short \/ Mixed'
    PROVE  EvidenceInv'
  <1>1. req \in RequestRecord /\ req.evidence \in EvidenceRecord
    BY DEF EvidenceInv, Shape, RequestRecord
  <1>2. req' = [phase |-> "prestocks", target |-> NoSnapshot, liveSupply |-> 0,
                evidence |-> [req.evidence EXCEPT !.backstop = answer], verdict |-> req.verdict]
    BY <1>1 DEF HealthIs, RequestRecord
  <1>3. /\ req'.evidence \in EvidenceRecord
        /\ req'.evidence.backstop = answer
        /\ req'.evidence.prestocks = req.evidence.prestocks
        /\ req'.evidence.mainnet = req.evidence.mainnet
        /\ req'.evidence.pyth = req.evidence.pyth
    BY <1>1, <1>2 DEF EvidenceRecord
  <1>4. req.verdict = "none" /\ decision # "ALLOW COLLATERAL"
    BY DEF EvidenceInv, Shape, EvidenceTypeOK, VerdictIsUsed, HealthPhases
  <1>5. Shape'
    <2>1. 0 \in Amounts
      BY ChainAssumption DEF Amounts
    <2>2. (req \in RequestRecord)'
      BY <1>1, <1>2, <1>3, <2>1 DEF RequestRecord
    <2> QED BY <1>2, <1>3, <1>4, <2>1, <2>2 DEF EvidenceInv, Shape, EvidenceTypeOK, SeenRecord
  <1>6. ReadsAreTrue'
    BY <1>2 DEF ReadsAreTrue, HealthPhases, Reading
  <1>7. AnswersAreGrounded'
    BY <1>3 DEF EvidenceInv, AnswersAreGrounded
  <1>8. AnswersAreAboutMint'
    BY <1>3 DEF EvidenceInv, AnswersAreAboutMint
  <1>9. VerdictIsUsed'
    BY <1>2, <1>4 DEF VerdictIsUsed
  <1> QED BY <1>5, <1>6, <1>7, <1>8, <1>9 DEF EvidenceInv

\* It goes on to its next read: the answers and the verdict are as they were.
LEMMA ReadOnKeeps ==
    ASSUME EvidenceInv, req.phase \in HealthPhases,
           NEW phase \in HealthPhases, NEW target \in SnapshotsOf(mint), NEW amount \in Amounts,
           req' = [req EXCEPT !.phase = phase, !.target = target, !.liveSupply = amount],
           UNCHANGED <<mint, registry, supply, identity, left, decision>>,
           seen' \in SeenRecord, seen'.published = seen.published
    PROVE  /\ Shape' /\ AnswersAreGrounded' /\ AnswersAreAboutMint' /\ VerdictIsUsed'
           /\ req'.phase = phase /\ req'.target = target /\ req'.liveSupply = amount
           /\ req'.evidence.backstop = HealthUnavailable
           /\ req'.target # NoSnapshot
  <1>1. req \in RequestRecord
    BY DEF EvidenceInv, Shape
  <1>2. req' = [phase |-> phase, target |-> target, liveSupply |-> amount,
                evidence |-> req.evidence, verdict |-> req.verdict]
    BY <1>1 DEF RequestRecord
  <1>3. req.verdict = "none" /\ decision # "ALLOW COLLATERAL"
    BY DEF EvidenceInv, Shape, EvidenceTypeOK, VerdictIsUsed, HealthPhases
  <1>4. req.evidence.backstop = HealthUnavailable
    BY DEF EvidenceInv, ReadsAreTrue
  <1>5. mint \in Mints /\ target # NoSnapshot
    BY NoneAssumption DEF EvidenceInv, Shape, EvidenceTypeOK
  <1>6. phase \in {"registry", "snapshot", "supply", "clock"} /\ phase # "replied"
    BY DEF HealthPhases
  <1>7. Shape'
    <2>1. (req \in RequestRecord)'
      BY <1>1, <1>2, <1>6 DEF RequestRecord
    <2> QED BY <1>2, <1>3, <1>6, <2>1 DEF EvidenceInv, Shape, EvidenceTypeOK, SeenRecord
  <1>8. AnswersAreGrounded'
    BY <1>2, <1>4 DEF EvidenceInv, AnswersAreGrounded, HealthUnavailable, Health
  <1>9. AnswersAreAboutMint'
    BY <1>2 DEF EvidenceInv, AnswersAreAboutMint
  <1>10. VerdictIsUsed'
    BY <1>2, <1>3, <1>6 DEF VerdictIsUsed
  <1> QED BY <1>2, <1>4, <1>5, <1>7, <1>8, <1>9, <1>10

\* The registry: nothing there, nothing to point to, or a snapshot, which is
\* the current one if the node is up to date.
LEMMA ReadRegistryKeeps ==
    ASSUME EvidenceInv, ReadRegistry
    PROVE  EvidenceInv'
  <1>1. /\ req.phase = "registry" /\ req.phase \in HealthPhases /\ Reading
        /\ UNCHANGED <<mint, registry, supply, identity, left, decision>>
    BY DEF ReadRegistry, HealthPhases, Reading
  <1>2. PICK view \in RegistryViews :
            /\ seen' = [seen EXCEPT !.lagged = @ \/ view # registry]
            /\ \/ view = Unregistered /\ HealthIs(Health("UNKNOWN", FALSE, FALSE))
               \/ view = NoSnapshot /\ HealthIs(Health("UNKNOWN", FALSE, TRUE))
               \/ /\ view \notin {Unregistered, NoSnapshot}
                  /\ req' = [req EXCEPT !.phase = "snapshot", !.target = view]
    BY DEF ReadRegistry
  <1>3. seen \in SeenRecord
    BY DEF EvidenceInv, Shape, EvidenceTypeOK, SeenRecord
  <1>4. /\ seen' \in SeenRecord /\ seen'.published = seen.published
        /\ seen'.vouched = seen.vouched /\ seen'.short = seen.short
    BY <1>2, <1>3 DEF SeenRecord
  <1>5. ASSUME NEW named \in BOOLEAN, HealthIs(Health("UNKNOWN", FALSE, named))
        PROVE  EvidenceInv'
    BY <1>1, <1>4, <1>5, UnknownIsAnswer, HealthIsKeeps DEF Health
  <1>6. ASSUME view \notin {Unregistered, NoSnapshot},
               req' = [req EXCEPT !.phase = "snapshot", !.target = view]
        PROVE  EvidenceInv'
    <2>1. view \in SnapshotsOf(mint)
      BY <1>2, <1>6 DEF RegistryViews, RegistriesOf, EvidenceInv, Shape, EvidenceTypeOK
    <2>2. req \in RequestRecord /\ req.liveSupply \in Amounts
      BY DEF EvidenceInv, Shape, RequestRecord
    <2>3. req' = [req EXCEPT !.phase = "snapshot", !.target = view, !.liveSupply = req.liveSupply]
      BY <1>6, <2>2 DEF RequestRecord
    <2>4. /\ Shape' /\ AnswersAreGrounded' /\ AnswersAreAboutMint' /\ VerdictIsUsed'
          /\ req'.phase = "snapshot" /\ req'.target # NoSnapshot
          /\ req'.evidence.backstop = HealthUnavailable
      BY <1>1, <1>4, <2>1, <2>2, <2>3, ReadOnKeeps DEF HealthPhases
    <2>5. ReadsAreTrue'
      <3>1. Now' = Now
        BY <1>1 DEF Now
      <3>2. /\ Vouches(registry, supply, Now)' <=> Vouches(registry, supply, Now)
            /\ FallsShort(registry, supply, Now)' <=> FallsShort(registry, supply, Now)
        BY <1>1, <3>1 DEF Vouches, FallsShort
      <3> QED BY <1>1, <1>4, <2>4, <3>2 DEF EvidenceInv, ReadsAreTrue, HealthPhases, Reading
    <2> QED BY <2>4, <2>5 DEF EvidenceInv
  <1> QED BY <1>2, <1>5, <1>6

\* The snapshot's account.
LEMMA ReadSnapshotKeeps ==
    ASSUME EvidenceInv, ReadSnapshot
    PROVE  EvidenceInv'
  <1>1. /\ req.phase = "snapshot" /\ req.phase \in HealthPhases /\ Reading
        /\ UNCHANGED <<mint, registry, supply, identity, left, decision>>
    BY DEF ReadSnapshot, HealthPhases, Reading
  <1>2. seen \in SeenRecord
    BY DEF EvidenceInv, Shape, EvidenceTypeOK, SeenRecord
  <1>3. CASE HealthIs(Health("UNKNOWN", FALSE, FALSE)) /\ seen' = [seen EXCEPT !.lagged = TRUE]
    <2>1. seen' \in SeenRecord /\ seen'.published = seen.published
      BY <1>2, <1>3 DEF SeenRecord
    <2> QED BY <1>1, <1>3, <2>1, UnknownIsAnswer, HealthIsKeeps DEF Health
  <1>4. CASE req' = [req EXCEPT !.phase = "supply"] /\ UNCHANGED seen
    <2>1. /\ req \in RequestRecord /\ req.liveSupply \in Amounts
          /\ req.target \in SnapshotsOf(mint)
      BY <1>1 DEF EvidenceInv, Shape, RequestRecord, ReadsAreTrue
    <2>2. req' = [req EXCEPT !.phase = "supply", !.target = req.target, !.liveSupply = req.liveSupply]
      BY <1>4, <2>1 DEF RequestRecord
    <2>3. /\ Shape' /\ AnswersAreGrounded' /\ AnswersAreAboutMint' /\ VerdictIsUsed'
          /\ req'.phase = "supply" /\ req'.target # NoSnapshot
          /\ req'.evidence.backstop = HealthUnavailable
      <3>1. seen' \in SeenRecord /\ seen'.published = seen.published
        BY <1>2, <1>4
      <3>2. "supply" \in HealthPhases
        BY DEF HealthPhases
      <3> QED BY <1>1, <2>1, <2>2, <3>1, <3>2, ReadOnKeeps
    <2>4. ReadsAreTrue'
      <3>1. Now' = Now
        BY <1>1 DEF Now
      <3>2. /\ Vouches(registry, supply, Now)' <=> Vouches(registry, supply, Now)
            /\ FallsShort(registry, supply, Now)' <=> FallsShort(registry, supply, Now)
        BY <1>1, <3>1 DEF Vouches, FallsShort
      <3> QED BY <1>1, <1>4, <2>3, <3>2 DEF EvidenceInv, ReadsAreTrue, HealthPhases, Reading
    <2> QED BY <2>3, <2>4 DEF EvidenceInv
  <1> QED BY <1>3, <1>4 DEF ReadSnapshot

\* The supply: if neither it nor the registry was out of date, the two are what
\* the chain holds at this moment.
LEMMA ReadSupplyKeeps ==
    ASSUME EvidenceInv, ReadSupply
    PROVE  EvidenceInv'
  <1>1. /\ req.phase = "supply" /\ req.phase \in HealthPhases /\ Reading
        /\ UNCHANGED <<mint, registry, supply, identity, left, decision>>
    BY DEF ReadSupply, HealthPhases, Reading
  <1>2. PICK view \in SupplyViews :
            /\ req' = [req EXCEPT !.phase = "clock", !.liveSupply = view]
            /\ seen' = [seen EXCEPT !.lagged = @ \/ view # supply, !.overtaken = registry # req.target]
    BY DEF ReadSupply
  <1>3. seen \in SeenRecord
    BY DEF EvidenceInv, Shape, EvidenceTypeOK, SeenRecord
  <1>4. /\ seen' \in SeenRecord /\ seen'.published = seen.published
        /\ seen'.vouched = seen.vouched /\ seen'.short = seen.short
        /\ seen'.lagged = (seen.lagged \/ view # supply)
        /\ seen'.overtaken = (registry # req.target)
    BY <1>2, <1>3 DEF SeenRecord
  <1>5. view \in Amounts
    BY DEF SupplyViews, EvidenceInv, Shape, EvidenceTypeOK
  <1>6. req \in RequestRecord /\ req.target \in SnapshotsOf(mint)
    BY <1>1 DEF EvidenceInv, Shape, RequestRecord, ReadsAreTrue
  <1>7. req' = [req EXCEPT !.phase = "clock", !.target = req.target, !.liveSupply = view]
    BY <1>2, <1>6 DEF RequestRecord
  <1>8. /\ Shape' /\ AnswersAreGrounded' /\ AnswersAreAboutMint' /\ VerdictIsUsed'
        /\ req'.phase = "clock" /\ req'.target = req.target /\ req'.liveSupply = view
        /\ req'.target # NoSnapshot /\ req'.evidence.backstop = HealthUnavailable
    BY <1>1, <1>4, <1>5, <1>6, <1>7, ReadOnKeeps DEF HealthPhases
  <1>9. ReadsAreTrue'
    <2>1. Now' = Now
      BY <1>1 DEF Now
    <2>2. ASSUME ~seen'.lagged, ~seen'.overtaken
          PROVE  /\ Vouches(req.target, req.liveSupply, Now)' => seen'.vouched
                 /\ FallsShort(req.target, req.liveSupply, Now)' => seen'.short
      <3>1. view = supply /\ req.target = registry
        BY <1>4, <2>2
      <3>2. /\ Vouches(registry, supply, Now) => seen.vouched
            /\ FallsShort(registry, supply, Now) => seen.short
        BY <1>1 DEF EvidenceInv, ReadsAreTrue
      <3>3. /\ Vouches(req.target, req.liveSupply, Now)' <=> Vouches(registry, supply, Now)
            /\ FallsShort(req.target, req.liveSupply, Now)' <=> FallsShort(registry, supply, Now)
        BY <1>8, <2>1, <3>1 DEF Vouches, FallsShort
      <3> QED BY <1>4, <3>2, <3>3
    <2> QED BY <1>8, <2>2 DEF ReadsAreTrue, HealthPhases, Reading
  <1> QED BY <1>8, <1>9 DEF EvidenceInv

\* The host's clock is read: a snapshot it takes for live has run out, if at
\* all, no longer ago than the clocks differ.
LEMMA ReadClockKeeps ==
    ASSUME EvidenceInv, ReadClock
    PROVE  EvidenceInv'
  <1>1. /\ req.phase = "clock" /\ req.phase \in HealthPhases
        /\ UNCHANGED <<mint, registry, supply, identity, left, decision>>
    BY DEF ReadClock, HealthPhases
  <1> DEFINE expiring == req.target.expires_at <= Now /\ Now <= req.target.expires_at + ClockSkew
  <1>2. PICK t \in HostClocks :
            HealthIs(Health(HealthStatus(req.target, req.liveSupply, t),
                            HealthSafe(req.target, req.liveSupply, t, mint), TRUE))
    BY DEF ReadClock
  <1>3. seen \in SeenRecord /\ seen' = [seen EXCEPT !.expiring = expiring]
    BY DEF ReadClock, EvidenceInv, Shape, EvidenceTypeOK, SeenRecord
  <1>4. expiring \in BOOLEAN
    OBVIOUS
  <1> HIDE DEF expiring
  <1>5. /\ seen' \in SeenRecord /\ seen'.published = seen.published
        /\ seen'.vouched = seen.vouched /\ seen'.short = seen.short
        /\ seen'.lagged = seen.lagged /\ seen'.overtaken = seen.overtaken /\ seen'.expiring = expiring
    BY <1>3, <1>4 DEF SeenRecord
  <1>6. mint \in Mints /\ req.target \in SnapshotsOf(mint) /\ req.liveSupply \in Amounts
    BY <1>1 DEF EvidenceInv, Shape, EvidenceTypeOK, RequestRecord, ReadsAreTrue
  <1>7. /\ req.target \notin {Unregistered, NoSnapshot}
        /\ req.target.expires_at \in Int /\ req.target.attested_backing \in Int /\ req.liveSupply \in Int
    BY <1>6, NoneAssumption, TimeAssumption, ChainAssumption DEF SnapshotsOf, Deadlines, Amounts
  <1>8. Now \in Int /\ ClockSkew \in Int
    BY ShapeNumbers DEF EvidenceInv
  <1>9. t \in Int /\ t <= Now + ClockSkew /\ Now <= t + ClockSkew
    <2>1. t \in (Now - ClockSkew) .. (Now + ClockSkew)
      BY DEF HostClocks
    <2> QED BY <1>8, <2>1
  <1> DEFINE status == HealthStatus(req.target, req.liveSupply, t)
             safe == HealthSafe(req.target, req.liveSupply, t, mint)
  <1>10. /\ Health(status, safe, TRUE) \in HealthAnswers
         /\ safe => /\ req.target.status = "Verified" /\ req.liveSupply <= req.target.attested_backing
                    /\ t <= req.target.expires_at
         /\ status = "UNDER_BACKED" =>
                /\ t <= req.target.expires_at
                /\ req.target.status = "UnderBacked" \/ req.liveSupply > req.target.attested_backing
    BY <1>6, <1>9, HealthVerdictMeans
  <1>11. HealthIs(Health(status, safe, TRUE))
    BY <1>2
  <1> HIDE DEF status, safe
  <1>12. safe => seen.vouched \/ expiring \/ Mixed
    <2> SUFFICES ASSUME safe, ~Mixed, ~expiring PROVE seen.vouched
      OBVIOUS
    <2>1. Now <= req.target.expires_at + ClockSkew
      BY <1>7, <1>8, <1>9, <1>10
    <2>2. Now < req.target.expires_at
      BY <1>7, <1>8, <2>1 DEF expiring
    <2>3. Vouches(req.target, req.liveSupply, Now)
      BY <1>7, <1>10, <2>2 DEF Vouches
    <2> QED BY <1>1, <2>3 DEF EvidenceInv, ReadsAreTrue, Mixed
  <1>13. status = "UNDER_BACKED" => seen.short \/ Mixed
    <2> SUFFICES ASSUME status = "UNDER_BACKED", ~Mixed PROVE seen.short
      OBVIOUS
    <2>1. Now <= req.target.expires_at + ClockSkew
      BY <1>7, <1>8, <1>9, <1>10
    <2>2. FallsShort(req.target, req.liveSupply, Now)
      BY <1>7, <1>10, <2>1 DEF FallsShort
    <2> QED BY <1>1, <2>2 DEF EvidenceInv, ReadsAreTrue, Mixed
  <1>14. Mixed' = Mixed
    BY <1>5 DEF Mixed
  <1>15. Health(status, safe, TRUE).safe = safe /\ Health(status, safe, TRUE).status = status
    BY DEF Health
  <1> QED BY <1>1, <1>5, <1>10, <1>11, <1>12, <1>13, <1>14, <1>15, HealthIsKeeps

\* A read has failed for good.
LEMMA ReadFailsKeeps ==
    ASSUME EvidenceInv, ReadFails
    PROVE  EvidenceInv'
  <1>1. /\ req.phase \in HealthPhases /\ HealthIs(HealthUnavailable)
        /\ UNCHANGED <<mint, registry, supply, identity, left, decision, seen>>
    BY DEF ReadFails, HealthPhases
  <1>2. seen' \in SeenRecord /\ seen'.published = seen.published
    BY <1>1 DEF EvidenceInv, Shape, EvidenceTypeOK, SeenRecord
  <1> QED BY <1>1, <1>2, UnavailableIsAnswer, HealthIsKeeps DEF HealthUnavailable, Health

\* Of the other sources, none touches what is known of the chain.
LEMMA AfterHealth ==
    ASSUME req'.phase \in {"prestocks", "mainnet", "pyth", "reply", "replied"}
    PROVE  ReadsAreTrue'
  BY DEF ReadsAreTrue, HealthPhases, Reading

LEMMA ReadPrestocksKeeps ==
    ASSUME EvidenceInv, ReadPrestocks
    PROVE  EvidenceInv'
  <1>1. PICK answer \in PrestocksAnswers(mint) :
            req' = [req EXCEPT !.phase = "mainnet", !.evidence.prestocks = answer]
    BY DEF ReadPrestocks
  <1>2. /\ answer \in {"OBSERVED", "failed", "not_registered"}
        /\ answer = "OBSERVED" => mint \in Catalogued
    BY DEF PrestocksAnswers
  <1>3. /\ req.phase = "prestocks" /\ req.verdict = "none" /\ decision # "ALLOW COLLATERAL"
        /\ UNCHANGED <<mint, registry, supply, identity, left, decision, seen>>
    BY DEF ReadPrestocks, EvidenceInv, Shape, EvidenceTypeOK, VerdictIsUsed
  <1>4. req \in RequestRecord
    BY DEF EvidenceInv, Shape
  <1>5. req' = [req EXCEPT !.phase = "mainnet", !.evidence = [req.evidence EXCEPT !.prestocks = answer]]
    BY <1>1, <1>4 DEF RequestRecord
  <1>6. /\ req'.evidence \in EvidenceRecord
        /\ req'.evidence.prestocks = answer
        /\ req'.evidence.backstop = req.evidence.backstop
        /\ req'.evidence.mainnet = req.evidence.mainnet
        /\ req'.evidence.pyth = req.evidence.pyth
    BY <1>2, <1>4, <1>5 DEF RequestRecord, EvidenceRecord
  <1>7. /\ (req \in RequestRecord)' /\ req'.phase = "mainnet" /\ req'.verdict = "none"
        /\ req'.target = req.target /\ req'.liveSupply = req.liveSupply
    BY <1>3, <1>4, <1>5, <1>6 DEF RequestRecord
  <1>8. Shape'
    BY <1>3, <1>6, <1>7 DEF EvidenceInv, Shape, EvidenceTypeOK
  <1>9. AnswersAreGrounded' /\ AnswersAreAboutMint'
    BY <1>2, <1>3, <1>6 DEF EvidenceInv, AnswersAreGrounded, AnswersAreAboutMint, Mixed
  <1>10. ReadsAreTrue' /\ VerdictIsUsed'
    BY <1>3, <1>7, AfterHealth DEF VerdictIsUsed
  <1> QED BY <1>8, <1>9, <1>10 DEF EvidenceInv

LEMMA ReadMainnetKeeps ==
    ASSUME EvidenceInv, ReadMainnet
    PROVE  EvidenceInv'
  <1>1. PICK answer \in MainnetAnswers(mint, identity) :
            req' = [req EXCEPT !.phase = "pyth", !.evidence.mainnet = answer]
    BY DEF ReadMainnet
  <1>2. /\ answer \in MainnetRecord
        /\ answer.status = "OBSERVED" => answer.identity = identity
    <2>1. identity \in Identities
      BY DEF EvidenceInv, Shape, EvidenceTypeOK
    <2>2. answer \in {[status |-> "OBSERVED", identity |-> identity],
                     [status |-> "failed", identity |-> "unread"],
                     [status |-> "not_known", identity |-> "unread"]}
      BY DEF MainnetAnswers
    <2> QED BY <2>1, <2>2 DEF MainnetRecord
  <1>3. /\ req.phase = "mainnet" /\ req.verdict = "none" /\ decision # "ALLOW COLLATERAL"
        /\ UNCHANGED <<mint, registry, supply, identity, left, decision, seen>>
    BY DEF ReadMainnet, EvidenceInv, Shape, EvidenceTypeOK, VerdictIsUsed
  <1>4. req \in RequestRecord
    BY DEF EvidenceInv, Shape
  <1>5. req' = [req EXCEPT !.phase = "pyth", !.evidence = [req.evidence EXCEPT !.mainnet = answer]]
    BY <1>1, <1>4 DEF RequestRecord
  <1>6. /\ req'.evidence \in EvidenceRecord
        /\ req'.evidence.mainnet = answer
        /\ req'.evidence.backstop = req.evidence.backstop
        /\ req'.evidence.prestocks = req.evidence.prestocks
        /\ req'.evidence.pyth = req.evidence.pyth
    BY <1>2, <1>4, <1>5 DEF RequestRecord, EvidenceRecord
  <1>7. /\ (req \in RequestRecord)' /\ req'.phase = "pyth" /\ req'.verdict = "none"
        /\ req'.target = req.target /\ req'.liveSupply = req.liveSupply
    BY <1>3, <1>4, <1>5, <1>6 DEF RequestRecord
  <1>8. Shape'
    BY <1>3, <1>6, <1>7 DEF EvidenceInv, Shape, EvidenceTypeOK
  <1>9. AnswersAreGrounded' /\ AnswersAreAboutMint'
    BY <1>2, <1>3, <1>6 DEF EvidenceInv, AnswersAreGrounded, AnswersAreAboutMint, Mixed
  <1>10. ReadsAreTrue' /\ VerdictIsUsed'
    BY <1>3, <1>7, AfterHealth DEF VerdictIsUsed
  <1> QED BY <1>8, <1>9, <1>10 DEF EvidenceInv

\* A price, none, or no feed to ask for one.
LEMMA ReadPythKeeps ==
    ASSUME EvidenceInv, ReadPyth
    PROVE  EvidenceInv'
  <1>1. /\ req.phase = "pyth" /\ req.verdict = "none" /\ decision # "ALLOW COLLATERAL"
        /\ UNCHANGED <<mint, registry, supply, identity, left, decision>>
    BY DEF ReadPyth, EvidenceInv, Shape, EvidenceTypeOK, VerdictIsUsed
  <1>2. req \in RequestRecord /\ seen \in SeenRecord
    BY DEF EvidenceInv, Shape, EvidenceTypeOK, SeenRecord
  <1> DEFINE Gives(answer) ==
          /\ req' = [req EXCEPT !.phase = "reply", !.evidence.pyth = answer]
          /\ answer.status = "OBSERVED" => mint \in Listed
          /\ answer.usable = TRUE => seen'.published >= -PYTH_MAX_AGE_SECONDS
          /\ seen' \in SeenRecord
          /\ seen'.vouched = seen.vouched /\ seen'.short = seen.short /\ seen'.lagged = seen.lagged
          /\ seen'.overtaken = seen.overtaken /\ seen'.expiring = seen.expiring
  <1>3. \E answer \in PythRecord : Gives(answer)
    <2>1. ASSUME NEW quote \in Quotes, HasFeed(mint, req.evidence.backstop),
                 req' = [req EXCEPT !.phase = "reply", !.evidence.pyth = PythObserved(quote)],
                 seen' = [seen EXCEPT !.published = Now - quote.age]
          PROVE  Gives(PythObserved(quote)) /\ PythObserved(quote) \in PythRecord
      <3>1. mint \in Listed
        BY <2>1 DEF HasFeed
      <3>2. /\ PythObserved(quote) \in PythRecord
            /\ PythObserved(quote).usable = TRUE => quote.age >= 0 /\ quote.age <= PYTH_MAX_AGE_SECONDS
        BY UsableQuoteIsFresh DEF PythRecord
      <3>3. quote.age \in -1 .. PYTH_MAX_AGE_SECONDS + 1
        BY DEF Quotes
      <3>4. /\ Now \in Int /\ 0 <= Now /\ Now <= ConsumerTimeout
            /\ ConsumerTimeout \in Int /\ PYTH_MAX_AGE_SECONDS \in Int
        BY ShapeNumbers DEF EvidenceInv
      <3> DEFINE published == Now - quote.age
      <3>5. published \in -(PYTH_MAX_AGE_SECONDS + 1) .. ConsumerTimeout + 1
        BY <3>3, <3>4
      <3>6. PythObserved(quote).usable = TRUE => published >= -PYTH_MAX_AGE_SECONDS
        BY <3>2, <3>3, <3>4
      <3> HIDE DEF published
      <3>7. seen' = [seen EXCEPT !.published = published]
        BY <2>1 DEF published
      <3>8. /\ seen' \in SeenRecord /\ seen'.published = published
            /\ seen'.vouched = seen.vouched /\ seen'.short = seen.short /\ seen'.lagged = seen.lagged
            /\ seen'.overtaken = seen.overtaken /\ seen'.expiring = seen.expiring
        BY <1>2, <3>5, <3>7 DEF SeenRecord
      <3> QED BY <2>1, <3>1, <3>2, <3>6, <3>8
    <2>2. ASSUME NEW status \in {"UNAVAILABLE", "NOT_APPLICABLE"},
                 req' = [req EXCEPT !.phase = "reply", !.evidence.pyth = PythAnswer(status, FALSE)],
                 UNCHANGED seen
          PROVE  Gives(PythAnswer(status, FALSE)) /\ PythAnswer(status, FALSE) \in PythRecord
      <3>1. PythAnswer(status, FALSE) \in PythRecord
        BY DEF PythAnswer, PythRecord
      <3> QED BY <1>2, <2>2, <3>1 DEF PythAnswer
    <2> QED BY <2>1, <2>2 DEF ReadPyth
  <1>4. PICK answer \in PythRecord : Gives(answer)
    BY <1>3
  <1>5. req' = [req EXCEPT !.phase = "reply", !.evidence = [req.evidence EXCEPT !.pyth = answer]]
    BY <1>2, <1>4 DEF RequestRecord
  <1>6. /\ req'.evidence \in EvidenceRecord
        /\ req'.evidence.pyth = answer
        /\ req'.evidence.backstop = req.evidence.backstop
        /\ req'.evidence.prestocks = req.evidence.prestocks
        /\ req'.evidence.mainnet = req.evidence.mainnet
    BY <1>2, <1>5 DEF RequestRecord, EvidenceRecord
  <1>7. /\ (req \in RequestRecord)' /\ req'.phase = "reply" /\ req'.verdict = "none"
        /\ req'.target = req.target /\ req'.liveSupply = req.liveSupply
    BY <1>1, <1>2, <1>5, <1>6 DEF RequestRecord
  <1>8. Shape'
    BY <1>1, <1>4, <1>6, <1>7 DEF EvidenceInv, Shape, EvidenceTypeOK, SeenRecord
  <1>9. AnswersAreGrounded' /\ AnswersAreAboutMint'
    BY <1>1, <1>4, <1>6 DEF EvidenceInv, AnswersAreGrounded, AnswersAreAboutMint, Mixed
  <1>10. ReadsAreTrue' /\ VerdictIsUsed'
    BY <1>1, <1>7, AfterHealth DEF VerdictIsUsed
  <1> QED BY <1>8, <1>9, <1>10 DEF EvidenceInv

LEMMA ReplyKeeps ==
    ASSUME EvidenceInv, Reply
    PROVE  EvidenceInv'
  <1>1. /\ req.phase = "reply" /\ decision # "ALLOW COLLATERAL"
        /\ UNCHANGED <<mint, registry, supply, identity, left, decision, seen>>
    BY DEF Reply, EvidenceInv, VerdictIsUsed
  <1>2. req \in RequestRecord
    BY DEF EvidenceInv, Shape
  <1>3. /\ req' = [req EXCEPT !.phase = "replied", !.verdict = Verdict(req.evidence, mint)]
        /\ Verdict(req.evidence, mint) \in {"VERIFIED", "WARNING", "DENY", "UNKNOWN"}
    BY VerdictTyped DEF Reply
  <1>4. /\ (req \in RequestRecord)' /\ req'.phase = "replied" /\ req'.evidence = req.evidence
        /\ req'.verdict = Verdict(req.evidence, mint) /\ req'.verdict # "none"
        /\ req'.target = req.target /\ req'.liveSupply = req.liveSupply
    BY <1>1, <1>2, <1>3 DEF RequestRecord
  <1>5. Shape'
    <2>1. req'.verdict \in {"none", "VERIFIED", "WARNING", "DENY", "UNKNOWN"}
      BY <1>3, <1>4
    <2> QED BY <1>1, <1>4, <2>1 DEF EvidenceInv, Shape, EvidenceTypeOK
  <1>6. AnswersAreGrounded' /\ AnswersAreAboutMint'
    BY <1>1, <1>4 DEF EvidenceInv, AnswersAreGrounded, AnswersAreAboutMint, Mixed
  <1>7. ReadsAreTrue' /\ VerdictIsUsed'
    BY <1>1, <1>4, AfterHealth DEF VerdictIsUsed
  <1> QED BY <1>5, <1>6, <1>7 DEF EvidenceInv

\* The consumer decides, on this verdict or without one.
LEMMA DecidingKeeps ==
    ASSUME EvidenceInv, Deliver \/ RequestFails \/ TimesOut
    PROVE  EvidenceInv'
  <1>1. /\ UNCHANGED <<mint, registry, supply, identity, req, left, seen>>
        /\ decision' \in {"ALLOW COLLATERAL", "BLOCK COLLATERAL"}
        /\ decision' = "ALLOW COLLATERAL" => req.phase = "replied" /\ req.verdict = "VERIFIED"
    BY DEF Deliver, RequestFails, TimesOut, Decide
  <1>2. Shape'
    <2>1. /\ (mint \in Mints /\ registry \in RegistriesOf(mint) /\ supply \in Amounts)'
          /\ (identity \in Identities /\ left \in 0 .. ConsumerTimeout)'
          /\ (decision \in {"none", "waiting", "ALLOW COLLATERAL", "BLOCK COLLATERAL"})'
      BY <1>1 DEF EvidenceInv, Shape, EvidenceTypeOK
    <2>2. (seen \in SeenRecord)'
      BY <1>1 DEF EvidenceInv, Shape, EvidenceTypeOK, SeenRecord
    <2>3. (req.target \in {NoSnapshot} \cup SnapshotsOf(mint) /\ req.liveSupply \in Amounts)'
      BY <1>1 DEF EvidenceInv, Shape, EvidenceTypeOK
    <2>4. (req.evidence.backstop \in HealthAnswers)'
      BY <1>1 DEF EvidenceInv, Shape, EvidenceTypeOK
    <2>5. /\ (req.phase \in {"idle", "registry", "snapshot", "supply", "clock",
                            "prestocks", "mainnet", "pyth", "reply", "replied"})'
          /\ (req.verdict \in {"none", "VERIFIED", "WARNING", "DENY", "UNKNOWN"})'
          /\ ((req.phase = "replied") <=> (req.verdict # "none"))'
      BY <1>1 DEF EvidenceInv, Shape, EvidenceTypeOK
    <2>6. EvidenceTypeOK'
      BY <2>1, <2>2, <2>3, <2>4, <2>5 DEF EvidenceTypeOK, SeenRecord
    <2>7. (req \in RequestRecord)'
      BY <1>1 DEF EvidenceInv, Shape, RequestRecord
    <2> QED BY <2>6, <2>7 DEF Shape
  <1>3. ReadsAreTrue'
    BY <1>1 DEF EvidenceInv, ReadsAreTrue, Reading, Now, Vouches, FallsShort
  <1>4. AnswersAreGrounded' /\ AnswersAreAboutMint' /\ VerdictIsUsed'
    BY <1>1 DEF EvidenceInv, AnswersAreGrounded, AnswersAreAboutMint, VerdictIsUsed, Mixed
  <1> QED BY <1>2, <1>3, <1>4 DEF EvidenceInv

\* And goes on to another mint.
LEMMA NextMintKeeps ==
    ASSUME EvidenceInv, NextMint
    PROVE  EvidenceInv'
  <1>1. /\ UNCHANGED <<mint, registry, supply, identity>>
        /\ req' = IdleRequest /\ left' = 0 /\ seen' = NothingSeen /\ decision' = "none"
    BY DEF NextMint
  <1>2. 0 \in Amounts /\ 0 \in 0 .. ConsumerTimeout
    BY ChainAssumption, TimeAssumption DEF Amounts
  <1>3. seen' \in SeenRecord
    <2>1. -(PYTH_MAX_AGE_SECONDS + 1) \in -(PYTH_MAX_AGE_SECONDS + 1) .. ConsumerTimeout + 1
      BY PythAssumption, TimeAssumption
    <2> QED BY <1>1, <2>1 DEF NothingSeen, SeenRecord
  <1>4. (req \in RequestRecord)'
    BY <1>1, <1>2, NoEvidenceTyped DEF IdleRequest, RequestRecord
  <1>5. NoEvidence.backstop = HealthUnavailable
    BY DEF NoEvidence
  <1>6. Shape'
    BY <1>1, <1>2, <1>3, <1>4, <1>5, UnavailableIsAnswer
       DEF EvidenceInv, Shape, EvidenceTypeOK, IdleRequest, SeenRecord
  <1>7. ReadsAreTrue' /\ AnswersAreGrounded' /\ AnswersAreAboutMint' /\ VerdictIsUsed'
    BY <1>1 DEF IdleRequest, NoEvidence, HealthUnavailable, Health, PythAnswer, HealthPhases, Reading,
                ReadsAreTrue, AnswersAreGrounded, AnswersAreAboutMint, VerdictIsUsed
  <1> QED BY <1>6, <1>7 DEF EvidenceInv

\* The chain moves while it is read: history takes note.
LEMMA ChainBecomesKeeps ==
    ASSUME EvidenceInv, NEW current \in RegistriesOf(mint), NEW amount \in Amounts,
           ChainBecomes(current, amount)
    PROVE  EvidenceInv'
  <1> DEFINE vouched == seen.vouched \/ Vouches(current, amount, Now)
             short == seen.short \/ FallsShort(current, amount, Now)
  <1>1. /\ Reading /\ req.phase \in {"registry", "snapshot", "supply"}
        /\ registry' = current /\ supply' = amount
        /\ UNCHANGED <<mint, identity, req, left, decision>>
    BY DEF ChainBecomes, Reading
  <1>2. seen \in SeenRecord
    BY DEF EvidenceInv, Shape, EvidenceTypeOK, SeenRecord
  <1>3. vouched \in BOOLEAN /\ short \in BOOLEAN
    OBVIOUS
  <1>4. seen' = [seen EXCEPT !.vouched = vouched, !.short = short]
    BY <1>2 DEF ChainBecomes, SeenRecord
  <1>5. /\ seen.vouched => vouched
        /\ seen.short => short
        /\ Vouches(current, amount, Now) => vouched
        /\ FallsShort(current, amount, Now) => short
    OBVIOUS
  <1> HIDE DEF vouched, short
  <1>6. /\ seen' \in SeenRecord
        /\ seen'.vouched = vouched /\ seen'.short = short /\ seen'.published = seen.published
        /\ seen'.lagged = seen.lagged /\ seen'.overtaken = seen.overtaken /\ seen'.expiring = seen.expiring
    BY <1>2, <1>3, <1>4 DEF SeenRecord
  <1>7. Shape'
    BY <1>1, <1>6 DEF EvidenceInv, Shape, EvidenceTypeOK, SeenRecord, RequestRecord
  <1>8. ReadsAreTrue'
    <2>1. Now' = Now
      BY <1>1 DEF Now
    <2>2. /\ Vouches(registry, supply, Now)' => seen'.vouched
          /\ FallsShort(registry, supply, Now)' => seen'.short
      BY <1>1, <1>5, <1>6, <2>1 DEF Vouches, FallsShort
    <2> QED BY <1>1, <2>2 DEF EvidenceInv, ReadsAreTrue, HealthPhases, Reading
  <1>9. AnswersAreGrounded'
    <2>1. Mixed' = Mixed
      BY <1>6 DEF Mixed
    <2> QED BY <1>1, <1>5, <1>6, <2>1 DEF EvidenceInv, AnswersAreGrounded
  <1>10. AnswersAreAboutMint' /\ VerdictIsUsed'
    BY <1>1 DEF EvidenceInv, AnswersAreAboutMint, VerdictIsUsed
  <1> QED BY <1>7, <1>8, <1>9, <1>10 DEF EvidenceInv

LEMMA ChainKeeps ==
    ASSUME EvidenceInv, InitializeAsset \/ SubmitSnapshot \/ ChangeSupply
    PROVE  EvidenceInv'
  <1>1. registry \in RegistriesOf(mint) /\ supply \in Amounts
    BY DEF EvidenceInv, Shape, EvidenceTypeOK
  <1>2. CASE InitializeAsset
    <2>1. NoSnapshot \in RegistriesOf(mint)
      BY DEF RegistriesOf
    <2> QED BY <1>1, <1>2, <2>1, ChainBecomesKeeps DEF InitializeAsset
  <1>3. CASE SubmitSnapshot
    <2>1. PICK snapshot \in SnapshotsOf(mint) : ChainBecomes(snapshot, supply)
      BY <1>3 DEF SubmitSnapshot
    <2>2. snapshot \in RegistriesOf(mint)
      BY DEF RegistriesOf
    <2> QED BY <1>1, <2>1, <2>2, ChainBecomesKeeps
  <1>4. CASE ChangeSupply
    <2>1. PICK amount \in Amounts : ChainBecomes(registry, amount)
      BY <1>4 DEF ChangeSupply
    <2> QED BY <1>1, <2>1, ChainBecomesKeeps
  <1> QED BY <1>2, <1>3, <1>4

\* Where nothing but the clock moves, every variable keeps its type.
LEMMA TypesStay ==
    ASSUME EvidenceTypeOK, left' \in 0 .. ConsumerTimeout,
           UNCHANGED <<mint, registry, supply, identity, req, decision, seen>>
    PROVE  EvidenceTypeOK'
  <1>1. (mint \in Mints /\ registry \in RegistriesOf(mint) /\ supply \in Amounts /\ identity \in Identities)'
    BY DEF EvidenceTypeOK
  <1>2. (seen \in SeenRecord)'
    BY DEF EvidenceTypeOK, SeenRecord
  <1>3. (req.target \in {NoSnapshot} \cup SnapshotsOf(mint) /\ req.liveSupply \in Amounts)'
    BY DEF EvidenceTypeOK
  <1>4. (decision \in {"none", "waiting", "ALLOW COLLATERAL", "BLOCK COLLATERAL"})'
    BY DEF EvidenceTypeOK
  <1>5. (req.evidence.backstop \in HealthAnswers)'
    BY DEF EvidenceTypeOK
  <1> QED BY <1>1, <1>2, <1>3, <1>4, <1>5 DEF EvidenceTypeOK, SeenRecord

\* A second passes: what is in force then was so before.
LEMMA TickKeeps ==
    ASSUME EvidenceInv, Tick
    PROVE  EvidenceInv'
  <1>1. /\ left > 0 /\ left' = left - 1
        /\ UNCHANGED <<mint, registry, supply, identity, req, decision, seen>>
    BY DEF Tick
  <1>2. /\ left \in Int /\ 0 <= left /\ left <= ConsumerTimeout /\ ConsumerTimeout \in Int /\ Now \in Int
    BY ShapeNumbers DEF EvidenceInv
  <1>3. Now' = Now + 1
    BY <1>1, <1>2 DEF Now
  <1>4. Shape'
    <2>1. left' \in 0 .. ConsumerTimeout
      BY <1>1, <1>2
    <2>2. EvidenceTypeOK'
      BY <1>1, <2>1, TypesStay DEF EvidenceInv, Shape
    <2>3. (req \in RequestRecord)'
      BY <1>1 DEF EvidenceInv, Shape, RequestRecord
    <2> QED BY <2>2, <2>3 DEF Shape
  <1>5. mint \in Mints /\ registry \in RegistriesOf(mint) /\ req.target \in RegistriesOf(mint)
    BY DEF EvidenceInv, Shape, EvidenceTypeOK, RequestRecord, RegistriesOf
  <1>6. /\ Vouches(registry, supply, Now)' => Vouches(registry, supply, Now)
        /\ FallsShort(registry, supply, Now)' => FallsShort(registry, supply, Now)
    <2>1. /\ Vouches(registry, supply, Now)' <=> Vouches(registry, supply, Now + 1)
          /\ FallsShort(registry, supply, Now)' <=> FallsShort(registry, supply, Now + 1)
      BY <1>1, <1>3 DEF Vouches, FallsShort
    <2> QED BY <1>2, <1>5, <2>1, ForceFades
  <1>7. /\ Vouches(req.target, req.liveSupply, Now)' => Vouches(req.target, req.liveSupply, Now)
        /\ FallsShort(req.target, req.liveSupply, Now)' => FallsShort(req.target, req.liveSupply, Now)
    <2>1. /\ Vouches(req.target, req.liveSupply, Now)' <=> Vouches(req.target, req.liveSupply, Now + 1)
          /\ FallsShort(req.target, req.liveSupply, Now)' <=> FallsShort(req.target, req.liveSupply, Now + 1)
      BY <1>1, <1>3 DEF Vouches, FallsShort
    <2> QED BY <1>2, <1>5, <2>1, ForceFades
  <1>8. ReadsAreTrue'
    BY <1>1, <1>6, <1>7 DEF EvidenceInv, ReadsAreTrue, Reading
  <1>9. AnswersAreGrounded' /\ AnswersAreAboutMint' /\ VerdictIsUsed'
    BY <1>1 DEF EvidenceInv, AnswersAreGrounded, AnswersAreAboutMint, VerdictIsUsed, Mixed
  <1> QED BY <1>4, <1>8, <1>9 DEF EvidenceInv

LEMMA StutterKeeps ==
    ASSUME EvidenceInv, UNCHANGED vars
    PROVE  EvidenceInv'
  <1>1. UNCHANGED <<mint, registry, supply, identity, req, left, decision, seen>>
    BY DEF vars
  <1>2. Shape'
    <2>1. EvidenceTypeOK'
      <3>1. left' \in 0 .. ConsumerTimeout
        BY <1>1 DEF EvidenceInv, Shape, EvidenceTypeOK
      <3> QED BY <1>1, <3>1, TypesStay DEF EvidenceInv, Shape
    <2>2. (req \in RequestRecord)'
      BY <1>1 DEF EvidenceInv, Shape, RequestRecord
    <2> QED BY <2>1, <2>2 DEF Shape
  <1>3. ReadsAreTrue'
    BY <1>1 DEF EvidenceInv, ReadsAreTrue, Reading, Now, Vouches, FallsShort
  <1>4. AnswersAreGrounded' /\ AnswersAreAboutMint' /\ VerdictIsUsed'
    BY <1>1 DEF EvidenceInv, AnswersAreGrounded, AnswersAreAboutMint, VerdictIsUsed, Mixed
  <1> QED BY <1>2, <1>3, <1>4 DEF EvidenceInv

\* Every step of the server, the consumer and the world keeps the invariant.
LEMMA EvidenceStepInv == EvidenceInv /\ [Next]_vars => EvidenceInv'
  <1> SUFFICES ASSUME EvidenceInv, [Next]_vars PROVE EvidenceInv'
    OBVIOUS
  <1>1. ASSUME NEW m \in Mints, Ask(m) PROVE EvidenceInv'
    BY <1>1, AskKeeps
  <1>2. CASE ReadRegistry
    BY <1>2, ReadRegistryKeeps
  <1>3. CASE ReadSnapshot
    BY <1>3, ReadSnapshotKeeps
  <1>4. CASE ReadSupply
    BY <1>4, ReadSupplyKeeps
  <1>5. CASE ReadClock
    BY <1>5, ReadClockKeeps
  <1>6. CASE ReadFails
    BY <1>6, ReadFailsKeeps
  <1>7. CASE ReadPrestocks
    BY <1>7, ReadPrestocksKeeps
  <1>8. CASE ReadMainnet
    BY <1>8, ReadMainnetKeeps
  <1>9. CASE ReadPyth
    BY <1>9, ReadPythKeeps
  <1>10. CASE Reply
    BY <1>10, ReplyKeeps
  <1>11. CASE Deliver \/ RequestFails \/ TimesOut
    BY <1>11, DecidingKeeps
  <1>12. CASE NextMint
    BY <1>12, NextMintKeeps
  <1>13. CASE InitializeAsset \/ SubmitSnapshot \/ ChangeSupply
    BY <1>13, ChainKeeps
  <1>14. CASE Tick
    BY <1>14, TickKeeps
  <1>15. CASE UNCHANGED vars
    BY <1>15, StutterKeeps
  <1> QED BY <1>1, <1>2, <1>3, <1>4, <1>5, <1>6, <1>7, <1>8, <1>9, <1>10, <1>11, <1>12, <1>13, <1>14, <1>15
          DEF Next

\* The invariant holds in every reachable state.
THEOREM EvidenceInvHolds == Spec => []EvidenceInv
  <1> QED BY EvidenceInitInv, EvidenceStepInv, PTL DEF Spec

-----------------------------------------------------------------------------
(* What follows. *)

\* Every variable keeps its type, readAssetHealth's answer is one of those the
\* verdict knows, and a verdict is there exactly when the request has been
\* answered.
THEOREM EvidenceTypeCorrect == Spec => []EvidenceTypeOK
  <1>1. EvidenceInv => EvidenceTypeOK
    BY DEF EvidenceInv, Shape
  <1> QED BY <1>1, EvidenceInvHolds, PTL

\* What evaluateEvidence needs for VERIFIED.
LEMMA VerifiedNeeds ==
    ASSUME NEW e, NEW m, Verdict(e, m) = "VERIFIED"
    PROVE  /\ ~IdentityMismatch(e) /\ e.backstop.status # "UNDER_BACKED" /\ ~BothObserved(e)
           /\ e.backstop.safe /\ e.pyth.status = "OBSERVED" /\ e.pyth.usable
  BY DEF Verdict

\* What is enough for VERIFIED.
LEMMA VerifiedSuffices ==
    ASSUME NEW e, NEW m, ~IdentityMismatch(e), e.backstop.status # "UNDER_BACKED", ~BothObserved(e),
           e.backstop.safe, e.pyth.status = "OBSERVED", e.pyth.usable
    PROVE  Verdict(e, m) = "VERIFIED"
  BY DEF Verdict

\* What evaluateEvidence needs for DENY.
LEMMA DenyNeeds ==
    ASSUME NEW e, NEW m, Verdict(e, m) = "DENY"
    PROVE  IdentityMismatch(e) \/ e.backstop.status = "UNDER_BACKED"
  BY DEF Verdict

\* mock-consumer/index.ts admits collateral only on a price not much older than
\* a fresh one and on a snapshot that evaluate_snapshot would have said Ok to
\* since the consumer asked; a newer snapshot between the reads, a node that is
\* behind and a snapshot running out within the clocks' difference are the only
\* exceptions, whatever else happened between the reads.
THEOREM AllowanceHasBasis == Spec => []AllowHasBasis
  <1>1. ASSUME EvidenceInv, decision = "ALLOW COLLATERAL"
        PROVE  /\ Now - seen.published <= PYTH_MAX_AGE_SECONDS + ConsumerTimeout
               /\ seen.vouched \/ seen.lagged \/ seen.overtaken \/ seen.expiring
    <2>1. req \in RequestRecord /\ Verdict(req.evidence, mint) = "VERIFIED"
      BY <1>1 DEF EvidenceInv, VerdictIsUsed, Shape
    <2>2. req.evidence.backstop.safe \in BOOLEAN /\ req.evidence.pyth.usable \in BOOLEAN
      <3>1. req.evidence.backstop \in HealthAnswers /\ req.evidence.pyth \in PythRecord
        BY <2>1 DEF RequestRecord, EvidenceRecord
      <3> QED BY <3>1, AnswerIsFlagged DEF PythRecord
    <2>3. req.evidence.backstop.safe = TRUE /\ req.evidence.pyth.usable = TRUE
      BY <2>1, <2>2, VerifiedNeeds
    <2>4. seen.vouched \/ seen.expiring \/ Mixed
      BY <1>1, <2>3 DEF EvidenceInv, AnswersAreGrounded
    <2>5. seen.published >= -PYTH_MAX_AGE_SECONDS
      BY <1>1, <2>3 DEF EvidenceInv, AnswersAreGrounded
    <2>6. Now - seen.published <= PYTH_MAX_AGE_SECONDS + ConsumerTimeout
      <3>1. /\ Now \in Int /\ Now <= ConsumerTimeout /\ ConsumerTimeout \in Int
            /\ PYTH_MAX_AGE_SECONDS \in Int /\ seen.published \in Int
        BY <1>1, ShapeNumbers DEF EvidenceInv
      <3> QED BY <2>5, <3>1
    <2> QED BY <2>4, <2>6 DEF Mixed
  <1>2. EvidenceInv => AllowHasBasis
    BY <1>1 DEF AllowHasBasis
  <1> QED BY <1>2, EvidenceInvHolds, PTL

\* A PreStocks asset is never VERIFIED: no feed exists for its symbol.
THEOREM PrestocksAreCapped == Spec => []PrestocksPathIsCapped
  <1>1. ASSUME EvidenceInv, Replied, mint \in Catalogued, req.verdict = "VERIFIED"
        PROVE  FALSE
    <2>1. Verdict(req.evidence, mint) = "VERIFIED"
      BY <1>1 DEF EvidenceInv, VerdictIsUsed, Replied
    <2>2. mint \in Listed
      BY <1>1, <2>1, VerifiedNeeds DEF EvidenceInv, AnswersAreAboutMint
    <2> QED BY <1>1, <2>2, MintAssumption
  <1>2. EvidenceInv => PrestocksPathIsCapped
    BY <1>1 DEF PrestocksPathIsCapped
  <1> QED BY <1>2, EvidenceInvHolds, PTL

\* A DENY is about something the chain or the mainnet account showed while the
\* request was served, never about a source that failed; the chain showed it
\* unless a newer snapshot came between the reads or a node was behind.
THEOREM DenialsAreGrounded == Spec => []DenialIsGrounded
  <1>1. ASSUME EvidenceInv, Replied, req.verdict = "DENY", identity = "agrees"
        PROVE  seen.short \/ seen.lagged \/ seen.overtaken
    <2>1. Verdict(req.evidence, mint) = "DENY"
      BY <1>1 DEF EvidenceInv, VerdictIsUsed, Replied
    <2>2. ~IdentityMismatch(req.evidence)
      BY <1>1 DEF EvidenceInv, AnswersAreAboutMint, IdentityMismatch, BothObserved
    <2> QED BY <1>1, <2>1, <2>2, DenyNeeds DEF EvidenceInv, AnswersAreGrounded, Mixed
  <1>2. EvidenceInv => DenialIsGrounded
    BY <1>1 DEF DenialIsGrounded
  <1> QED BY <1>2, EvidenceInvHolds, PTL

\* Of the two answers VERIFIED rests on, an outage keeps or loses each.
LEMMA OutageKeepsOrLoses ==
    ASSUME NEW old, NEW e \in Outages(old)
    PROVE  /\ e.backstop \in {old.backstop, HealthUnavailable}
           /\ e.pyth \in {old.pyth, PythAnswer("UNAVAILABLE", FALSE)}
  <1> DEFINE P == {old.prestocks} \cup (IF old.prestocks = "OBSERVED" THEN {"failed"} ELSE {})
             N == {old.mainnet} \cup
                    (IF old.mainnet.status = "OBSERVED"
                     THEN {[status |-> "failed", identity |-> "unread"]} ELSE {})
             Y == {old.pyth} \cup
                    (IF old.pyth.status = "OBSERVED" THEN {PythAnswer("UNAVAILABLE", FALSE)} ELSE {})
  <1>1. Y \subseteq {old.pyth, PythAnswer("UNAVAILABLE", FALSE)}
    OBVIOUS
  <1>2. Outages(old) = {[backstop |-> b, prestocks |-> p, mainnet |-> n, pyth |-> y] :
                          b \in {old.backstop, HealthUnavailable}, p \in P, n \in N, y \in Y}
    BY DEF Outages
  <1> HIDE DEF P, N, Y
  <1>3. e.backstop \in {old.backstop, HealthUnavailable} /\ e.pyth \in Y
    BY <1>2
  <1> QED BY <1>1, <1>3

\* Losing sources never makes a verdict VERIFIED.  By evaluateEvidence alone it
\* could: a second source gone lifts the cap of "both observed"; but then the
\* mint is a catalogued one, which has no price.
THEOREM OutagesVerifyNothing == Spec => []OutagesNeverVerify
  <1>1. ASSUME EvidenceInv, Replied, NEW e \in Outages(req.evidence), Verdict(e, mint) = "VERIFIED"
        PROVE  req.verdict = "VERIFIED"
    <2> DEFINE old == req.evidence
    <2>1. /\ e.backstop.safe /\ e.pyth.status = "OBSERVED" /\ e.pyth.usable
          /\ e.backstop.status # "UNDER_BACKED"
      BY <1>1, VerifiedNeeds
    <2>2. /\ e.backstop \in {old.backstop, HealthUnavailable}
          /\ e.pyth \in {old.pyth, PythAnswer("UNAVAILABLE", FALSE)}
      BY <1>1, OutageKeepsOrLoses
    <2>3. e.backstop = old.backstop /\ e.pyth = old.pyth
      BY <2>1, <2>2 DEF HealthUnavailable, Health, PythAnswer
    <2>4. mint \in Listed
      BY <1>1, <2>1, <2>3 DEF EvidenceInv, AnswersAreAboutMint
    <2>5. ~BothObserved(old) /\ ~IdentityMismatch(old)
      BY <1>1, <2>4, MintAssumption DEF EvidenceInv, AnswersAreAboutMint, BothObserved, IdentityMismatch
    <2>6. Verdict(old, mint) = "VERIFIED"
      BY <2>1, <2>3, <2>5, VerifiedSuffices
    <2> QED BY <1>1, <2>6 DEF EvidenceInv, VerdictIsUsed, Replied
  <1>2. EvidenceInv => OutagesNeverVerify
    BY <1>1 DEF OutagesNeverVerify
  <1> QED BY <1>2, EvidenceInvHolds, PTL
=============================================================================
