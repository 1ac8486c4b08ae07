-------------------------- MODULE AssetHealthProofs --------------------------
(***************************************************************************)
(* Theorems about readAssetHealth, for any number of mints, keys and ids,   *)
(* any amounts, clocks and retries, and nodes that lag behind as they like. *)
(*                                                                          *)
(* What the three reads return is about three moments of a chain that moves *)
(* on.  HealthInv says what of each is still true later: accounts are never *)
(* rewritten, pointers never return, clocks never go back (the lemmas of    *)
(* BackstopProgramProofs), and a node that is behind holds what the chain   *)
(* once held.                                                               *)
(***************************************************************************)
EXTENDS AssetHealth, BackstopProgramProofs

\* What a node that is behind knows is well formed, and nothing it knows of a
\* snapshot has changed since.
Behind(view, accounts) ==
    /\ view.registries \in [Mints -> AssetRegistry \cup {NoAccount}]
    /\ view.snapshots \in [SnapshotKeys -> Snapshot \cup {NoAccount}]
    /\ view.supply \in [Mints -> Amounts]
    /\ \A mint \in Mints : view.registries[mint] # NoAccount /\ view.registries[mint].has_snapshot =>
           LET key == view.registries[mint].latest_snapshot IN
           key \in SnapshotKeys /\ key[1] = mint /\ accounts[key] # NoAccount
    /\ \A key \in SnapshotKeys : view.snapshots[key] # NoAccount => view.snapshots[key] = accounts[key]

\* The local variables of the request: its pointer names an account of the
\* mint that exists, and its copy of the account is the account.
RequestInv ==
    /\ Serving => req.mint \in Mints
    /\ req.phase \in {"snapshot", "supply", "reply"} =>
           req.target \in SnapshotKeys /\ req.target[1] = req.mint /\ snapshots[req.target] # NoAccount
    /\ req.phase \in {"supply", "reply"} => req.snapshot = snapshots[req.target]

\* What the request has read and what has really happened meanwhile.
HistoryInv ==
    /\ Serving /\ Evaluable(req.mint) => seen.okSeen = TRUE
    /\ Serving /\ seen.known = TRUE => registries[req.mint] # NoAccount /\ registries[req.mint].has_snapshot
    /\ req.phase \in {"snapshot", "supply", "reply"} /\ seen.quiet = TRUE /\ seen.lagged = FALSE =>
           registries[req.mint].latest_snapshot = req.target
    /\ req.phase = "reply" /\ seen.quiet = TRUE /\ seen.lagged = FALSE => req.liveSupply = supply[req.mint]
    /\ req.phase = "reply" /\ seen.lagged = FALSE
       /\ snapshots[req.target].status = "Verified" /\ req.liveSupply <= snapshots[req.target].attested_backing =>
           \/ seen.okSeen = TRUE
           \/ registries[req.mint].latest_snapshot # req.target
           \/ now >= snapshots[req.target].expires_at

\* The answer, until it is delivered.
AnswerInv ==
    /\ StatusAndSafeAgree
    /\ SafeHasBasis
    /\ AgreesWhenQuiet
    /\ KnownAssetIsNeverUnknown
    /\ AnswerIsGenuine

HealthInv ==
    /\ Inv
    /\ HealthTypeOK
    /\ Behind(replica, snapshots)
    /\ RequestInv
    /\ HistoryInv
    /\ AnswerInv
-----------------------------------------------------------------------------
(* The chain. *)

ReqRecord ==
    [phase : Phases, mint : Mints \cup {DefaultKey}, failures : 0 .. MaxAttempts - 1,
     target : SnapshotKeys \cup {DefaultKey},
     snapshot : Snapshot \cup {NoAccount}, liveSupply : Amounts]
SeenRecord == [quiet : BOOLEAN, okSeen : BOOLEAN, known : BOOLEAN, lagged : BOOLEAN]

\* What goes on on the chain is what the program and the world around it do.
LEMMA ChainStepIsNext == ChainStep => Next
  BY DEF ChainStep, ProgramStep, Next

\* The chain itself is as a node that is not behind at all has it.
LEMMA ChainIsBehind == Inv => Behind(chain, snapshots)
  <1> SUFFICES ASSUME Inv PROVE Behind(chain, snapshots)
    OBVIOUS
  <1>1. /\ chain.registries = registries /\ chain.snapshots = snapshots /\ chain.supply = supply
        /\ registries \in [Mints -> AssetRegistry \cup {NoAccount}]
        /\ snapshots \in [SnapshotKeys -> Snapshot \cup {NoAccount}]
        /\ supply \in [Mints -> Amounts]
    BY DEF Inv, TypeOK, chain
  <1>2. ASSUME NEW mint \in Mints, registries[mint] # NoAccount, registries[mint].has_snapshot
        PROVE  LET key == registries[mint].latest_snapshot IN
               key \in SnapshotKeys /\ key[1] = mint /\ snapshots[key] # NoAccount
    <2>1. registries[mint] \in AssetRegistry
      BY <1>1, <1>2
    <2>2. registries[mint].latest_snapshot_id \in SnapshotIds
      BY <2>1 DEF AssetRegistry
    <2>3. /\ registries[mint].latest_snapshot = SnapshotPda(mint, registries[mint].latest_snapshot_id)
          /\ snapshots[registries[mint].latest_snapshot] # NoAccount
      BY <1>2 DEF Inv, RegistryInv, Exists
    <2> QED BY <2>2, <2>3 DEF SnapshotPda, SnapshotKeys
  <1> QED BY <1>1, <1>2 DEF Behind

\* It falls further behind, and what it holds stays true.
LEMMA BehindKept ==
    ASSUME Inv, [Next]_vars, NEW view, Behind(view, snapshots)
    PROVE  Behind(view, snapshots')
  <1>1. \A key \in SnapshotKeys : snapshots[key] # NoAccount => snapshots'[key] = snapshots[key]
    BY SnapshotsKept DEF Exists
  <1>2. ASSUME NEW mint \in Mints, view.registries[mint] # NoAccount, view.registries[mint].has_snapshot
        PROVE  LET key == view.registries[mint].latest_snapshot IN
               key \in SnapshotKeys /\ key[1] = mint /\ snapshots'[key] # NoAccount
    <2> DEFINE key == view.registries[mint].latest_snapshot
    <2>1. key \in SnapshotKeys /\ key[1] = mint /\ snapshots[key] # NoAccount
      BY <1>2 DEF Behind
    <2> HIDE DEF key
    <2>2. snapshots'[key] # NoAccount
      BY <1>1, <2>1
    <2> QED BY <2>1, <2>2 DEF key
  <1>3. ASSUME NEW key \in SnapshotKeys, view.snapshots[key] # NoAccount
        PROVE  view.snapshots[key] = snapshots'[key]
    BY <1>1, <1>3 DEF Behind
  <1> QED BY <1>2, <1>3 DEF Behind

\* Every node a read may reach.
LEMMA ViewsAreBehind ==
    ASSUME HealthInv, NEW view \in Views
    PROVE  Behind(view, snapshots)
  BY ChainIsBehind DEF HealthInv, Views

\* An existing snapshot of a mint, if its registry points to it, is the one
\* evaluate_snapshot answers for.
LEMMA CurrentIsEvaluable ==
    ASSUME Inv, NEW mint \in Mints, NEW key \in SnapshotKeys, key[1] = mint, snapshots[key] # NoAccount,
           registries[mint].latest_snapshot = key
    PROVE  Evaluable(mint) <=> /\ ~(now >= snapshots[key].expires_at)
                               /\ snapshots[key].status = "Verified"
                               /\ supply[mint] <= snapshots[key].attested_backing
  <1>1. registries[mint] # NoAccount /\ registries[mint].has_snapshot
    BY DEF Inv, SnapshotInv, Exists
  <1>2. ASSUME NEW k \in SnapshotKeys, EvaluateResult(mint, k) = "Ok"
        PROVE  k = key /\ Covers(registries[mint], snapshots[key], key, now, supply[mint])
    BY <1>2, OkMeansCovers DEF Covers
  <1>3. Covers(registries[mint], snapshots[key], key, now, supply[mint]) => EvaluateResult(mint, key) = "Ok"
    BY CoversMeansOk
  <1>4. Evaluable(mint) <=> Covers(registries[mint], snapshots[key], key, now, supply[mint])
    BY <1>2, <1>3 DEF Evaluable
  <1> QED BY <1>1, <1>4 DEF Covers

\* Whether it says Ok depends on the chain and its clock alone.
LEMMA EvaluableUnchanged ==
    ASSUME UNCHANGED <<registries, snapshots, supply, now>>, req'.mint = req.mint
    PROVE  Evaluable(req.mint)' <=> Evaluable(req.mint)
  BY DEF Evaluable, EvaluateResult, CheckSnapshotSafety, AssertSnapshotBinding, SnapshotPda

-----------------------------------------------------------------------------
(* The invariant. *)

\* Before the first request there is nothing to be wrong about.
LEMMA HealthInitInv == HealthInit => HealthInv
  <1> SUFFICES ASSUME HealthInit PROVE HealthInv
    OBVIOUS
  <1>1. Inv
    BY InvInit DEF HealthInit
  <1>2. MaxAttempts \in Nat /\ MaxAttempts > 0 /\ MaxSupply \in Nat
    BY HealthAssumption, BoundAssumption
  <1>3. /\ req = [phase |-> "idle", mint |-> DefaultKey, failures |-> 0,
                  target |-> DefaultKey, snapshot |-> NoAccount, liveSupply |-> 0]
        /\ answer = [kind |-> "none"] /\ replica = chain
        /\ seen = [quiet |-> TRUE, okSeen |-> FALSE, known |-> FALSE, lagged |-> FALSE]
    BY DEF HealthInit, IdleRequest, NoAnswer, NoValue, NothingSeen
  <1>4. req \in ReqRecord /\ seen \in SeenRecord
    BY <1>2, <1>3 DEF ReqRecord, SeenRecord, Phases, Amounts
  <1>5. HealthTypeOK
    BY <1>1, <1>3, <1>4 DEF Inv, HealthTypeOK, ReqRecord, SeenRecord, NoValue
  <1>6. Behind(replica, snapshots)
    BY <1>1, <1>3, ChainIsBehind
  <1>7. RequestInv /\ HistoryInv
    BY <1>3 DEF RequestInv, HistoryInv, Serving
  <1>8. AnswerInv
    BY <1>3 DEF AnswerInv, StatusAndSafeAgree, SafeHasBasis, AgreesWhenQuiet, KnownAssetIsNeverUnknown,
                AnswerIsGenuine, Answered
  <1> QED BY <1>1, <1>5, <1>6, <1>7, <1>8 DEF HealthInv

\* Whatever leaves the chain and the nodes alone leaves what is known of them.
LEMMA ChainUntouched ==
    ASSUME HealthInv, UNCHANGED <<registries, snapshots, supply, now, outcome, replica>>
    PROVE  Inv' /\ TypeOK' /\ Behind(replica, snapshots)'
  <1>1. Inv'
    BY InvStep DEF HealthInv, vars
  <1>2. Behind(replica, snapshots)'
    BY DEF HealthInv, Behind
  <1> QED BY <1>1, <1>2 DEF Inv

\* An answer without a verdict, unknown or thrown, may come from anywhere, but
\* "unknown" only to those for whom the asset was unknown or a node behind.
LEMMA ReturnInv ==
    ASSUME HealthInv, UNCHANGED <<registries, snapshots, supply, now, outcome, replica>>,
           NEW kind \in {"unknown", "thrown"}, NEW reason, Return(kind, reason),
           seen' \in SeenRecord,
           kind = "unknown" => seen'.known = FALSE \/ seen'.lagged = TRUE
    PROVE  HealthInv'
  <1>1. /\ req' = [phase |-> "done", mint |-> DefaultKey, failures |-> 0,
                   target |-> DefaultKey, snapshot |-> NoAccount, liveSupply |-> 0]
        /\ answer'.kind = kind
    BY DEF Return, IdleRequest
  <1>2. req' \in ReqRecord
    BY <1>1, HealthAssumption, BoundAssumption DEF ReqRecord, Phases, Amounts
  <1>3. Inv' /\ TypeOK' /\ Behind(replica, snapshots)'
    BY ChainUntouched
  <1>4. HealthTypeOK'
    BY <1>1, <1>2, <1>3 DEF HealthTypeOK, ReqRecord, SeenRecord, NoValue
  <1>5. RequestInv' /\ HistoryInv'
    BY <1>1 DEF RequestInv, HistoryInv, Serving
  <1>6. AnswerInv'
    <2>1. ~Answered'
      BY <1>1 DEF Answered
    <2>2. KnownAssetIsNeverUnknown'
      BY <1>1 DEF KnownAssetIsNeverUnknown
    <2> QED BY <2>1, <2>2 DEF AnswerInv, StatusAndSafeAgree, SafeHasBasis, AgreesWhenQuiet, AnswerIsGenuine
  <1> QED BY <1>3, <1>4, <1>5, <1>6 DEF HealthInv

\* While a request is served there is no answer yet, before and after a step.
LEMMA NoAnswerYet ==
    ASSUME answer'.kind = "none"
    PROVE  AnswerInv'
  BY DEF AnswerInv, StatusAndSafeAgree, SafeHasBasis, AgreesWhenQuiet, KnownAssetIsNeverUnknown,
         AnswerIsGenuine, Answered

\* An answer exists only once the request is done.
LEMMA ServingHasNoAnswer ==
    ASSUME HealthTypeOK, req.phase # "done"
    PROVE  answer.kind = "none"
  BY DEF HealthTypeOK, NoValue

\* The types of the request's and the history's variables.
LEMMA HealthTypes ==
    ASSUME HealthInv
    PROVE  /\ req \in ReqRecord /\ seen \in SeenRecord
           /\ Inv /\ TypeOK /\ HealthTypeOK
  BY DEF HealthInv, Inv, HealthTypeOK, ReqRecord, SeenRecord

\* A new request starts with a history that is true of the chain as it is.
LEMMA RequestStep ==
    ASSUME HealthInv, NEW m \in Mints, Request(m)
    PROVE  HealthInv'
  <1>1. /\ req' = [phase |-> "registry", mint |-> m, failures |-> 0,
                   target |-> DefaultKey, snapshot |-> NoAccount, liveSupply |-> 0]
        /\ seen' = [quiet |-> TRUE, okSeen |-> Evaluable(m),
                    known |-> registries[m] # NoAccount /\ registries[m].has_snapshot, lagged |-> FALSE]
        /\ req.phase = "idle" /\ answer' = answer
        /\ UNCHANGED <<registries, snapshots, supply, now, outcome, replica>>
    BY DEF Request, IdleRequest, NothingSeen
  <1>2. Inv' /\ TypeOK' /\ Behind(replica, snapshots)'
    BY <1>1, ChainUntouched
  <1>3. req' \in ReqRecord
    BY <1>1, HealthAssumption, BoundAssumption DEF ReqRecord, Phases, Amounts
  <1>4. Evaluable(m) \in BOOLEAN /\ (registries[m] # NoAccount /\ registries[m].has_snapshot) \in BOOLEAN
    BY DEF Evaluable
  <1>5. seen' \in SeenRecord
    BY <1>1, <1>4 DEF SeenRecord
  <1>6. answer'.kind = "none"
    BY <1>1, ServingHasNoAnswer DEF HealthInv
  <1>7. HealthTypeOK'
    BY <1>1, <1>2, <1>3, <1>5, <1>6 DEF HealthTypeOK, ReqRecord, SeenRecord, NoValue
  <1>8. RequestInv'
    BY <1>1 DEF RequestInv, Serving
  <1>9. HistoryInv'
    <2>1. Evaluable(req.mint)' <=> Evaluable(m)
      BY <1>1 DEF Evaluable, EvaluateResult, CheckSnapshotSafety, AssertSnapshotBinding, SnapshotPda
    <2>2. /\ seen'.okSeen = Evaluable(m)
          /\ seen'.known = (registries[m] # NoAccount /\ registries[m].has_snapshot)
          /\ req'.phase = "registry" /\ req'.mint = m
      BY <1>1
    <2>3. Evaluable(req.mint)' => seen'.okSeen = TRUE
      BY <2>1, <2>2, <1>4
    <2>4. seen'.known = TRUE => registries'[req'.mint] # NoAccount /\ registries'[req'.mint].has_snapshot
      BY <1>1, <2>2
    <2> QED BY <2>2, <2>3, <2>4 DEF HistoryInv
  <1>10. AnswerInv'
    BY <1>6, NoAnswerYet
  <1> QED BY <1>2, <1>7, <1>8, <1>9, <1>10 DEF HealthInv

\* A node is asked, and history notes whether it was behind.
LEMMA SeesKeeps ==
    ASSUME seen \in SeenRecord, NEW view, Sees(view)
    PROVE  /\ seen' \in SeenRecord
           /\ seen'.quiet = seen.quiet /\ seen'.okSeen = seen.okSeen /\ seen'.known = seen.known
           /\ seen'.lagged = FALSE => seen.lagged = FALSE /\ view = chain
  <1>1. (seen.lagged \/ view # chain) \in BOOLEAN
    OBVIOUS
  <1>2. seen' = [seen EXCEPT !.lagged = seen.lagged \/ view # chain]
    BY DEF Sees
  <1>3. /\ seen' \in SeenRecord /\ seen'.lagged = (seen.lagged \/ view # chain)
        /\ seen'.quiet = seen.quiet /\ seen'.okSeen = seen.okSeen /\ seen'.known = seen.known
    BY <1>1, <1>2 DEF SeenRecord
  <1>4. seen.lagged \in BOOLEAN
    BY DEF SeenRecord
  <1> QED BY <1>3, <1>4

\* The pointer a node returns names an account of the mint that exists, even if
\* the registry has since moved on.
LEMMA ReadRegistryStep ==
    ASSUME HealthInv, ReadRegistry
    PROVE  HealthInv'
  <1>1. PICK view \in Views :
            LET registry == view.registries[req.mint] IN
            /\ Sees(view)
            /\ \/ /\ registry = NoAccount
                  /\ Return("unknown", "registry_not_found")
               \/ /\ registry # NoAccount
                  /\ ~registry.has_snapshot
                  /\ Return("unknown", "no_snapshot")
               \/ /\ registry # NoAccount
                  /\ registry.has_snapshot
                  /\ req' = [req EXCEPT !.phase = "snapshot", !.failures = 0,
                                        !.target = registry.latest_snapshot]
                  /\ UNCHANGED answer
    BY DEF ReadRegistry
  <1>2. /\ req.phase = "registry"
        /\ UNCHANGED <<registries, snapshots, supply, now, outcome, replica>>
    BY DEF ReadRegistry
  <1>3. req \in ReqRecord /\ seen \in SeenRecord /\ Inv /\ HealthTypeOK
    BY HealthTypes
  <1>4. req.mint \in Mints
    BY <1>2 DEF HealthInv, RequestInv, Serving
  <1>5. /\ seen' \in SeenRecord
        /\ seen'.quiet = seen.quiet /\ seen'.okSeen = seen.okSeen /\ seen'.known = seen.known
        /\ seen'.lagged = FALSE => seen.lagged = FALSE /\ view = chain
    BY <1>1, <1>3, SeesKeeps
  <1>6. seen.known = TRUE => registries[req.mint] # NoAccount /\ registries[req.mint].has_snapshot
    BY <1>2 DEF HealthInv, HistoryInv, Serving
  <1>7. view = chain => view.registries = registries
    BY DEF chain
  <1> DEFINE registry == view.registries[req.mint]
  <1>8. ASSUME NEW reason, Return("unknown", reason), registry = NoAccount \/ ~registry.has_snapshot
        PROVE  HealthInv'
    <2>1. seen'.known = FALSE \/ seen'.lagged = TRUE
      <3>1. seen.known \in BOOLEAN /\ seen'.lagged \in BOOLEAN
        BY <1>3, <1>5 DEF SeenRecord
      <3> QED BY <1>5, <1>6, <1>7, <1>8, <3>1
    <2> QED BY <1>2, <1>5, <1>8, <2>1, ReturnInv
  <1>9. ASSUME registry # NoAccount, registry.has_snapshot, UNCHANGED answer,
               req' = [req EXCEPT !.phase = "snapshot", !.failures = 0, !.target = registry.latest_snapshot]
        PROVE  HealthInv'
    <2>1. Behind(view, snapshots)
      BY ViewsAreBehind
    <2> DEFINE key == registry.latest_snapshot
    <2>2. key \in SnapshotKeys /\ key[1] = req.mint /\ snapshots[key] # NoAccount
      BY <1>4, <1>9, <2>1 DEF Behind
    <2>3. view = chain => key = registries[req.mint].latest_snapshot
      BY <1>7
    <2>4. req' = [req EXCEPT !.phase = "snapshot", !.failures = 0, !.target = key]
      BY <1>9
    <2> HIDE DEF key, registry
    <2>5. /\ req' \in ReqRecord
          /\ req'.phase = "snapshot" /\ req'.mint = req.mint /\ req'.target = key
      <3>1. 0 \in 0 .. MaxAttempts - 1
        BY HealthAssumption
      <3> QED BY <1>3, <2>2, <2>4, <3>1 DEF ReqRecord, Phases
    <2>6. Inv' /\ TypeOK' /\ Behind(replica, snapshots)'
      BY <1>2, ChainUntouched
    <2>7. answer'.kind = "none"
      BY <1>2, <1>3, <1>9, ServingHasNoAnswer
    <2>8. HealthTypeOK'
      BY <1>5, <2>2, <2>5, <2>6, <2>7 DEF HealthTypeOK, ReqRecord, SeenRecord, NoValue
    <2>9. RequestInv'
      BY <1>2, <1>4, <2>2, <2>5 DEF RequestInv, Serving
    <2>10. HistoryInv'
      <3>1. Evaluable(req.mint)' <=> Evaluable(req.mint)
        BY <1>2, <2>5, EvaluableUnchanged
      <3>2. Evaluable(req.mint)' => seen'.okSeen = TRUE
        BY <1>2, <1>5, <3>1 DEF HealthInv, HistoryInv, Serving
      <3> QED BY <1>2, <1>5, <1>6, <2>3, <2>5, <3>2 DEF HistoryInv
    <2>11. AnswerInv'
      BY <2>7, NoAnswerYet
    <2> QED BY <2>6, <2>8, <2>9, <2>10, <2>11 DEF HealthInv
  <1> QED BY <1>1, <1>8, <1>9

\* The account a node returns is the account, because accounts are permanent.
LEMMA ReadSnapshotStep ==
    ASSUME HealthInv, ReadSnapshot
    PROVE  HealthInv'
  <1>1. PICK view \in Views :
            LET snapshot == view.snapshots[req.target] IN
            /\ Sees(view)
            /\ \/ /\ snapshot = NoAccount
                  /\ Return("unknown", "latest_snapshot_not_found")
               \/ /\ snapshot # NoAccount
                  /\ req' = [req EXCEPT !.phase = "supply", !.failures = 0, !.snapshot = snapshot]
                  /\ UNCHANGED answer
    BY DEF ReadSnapshot
  <1>2. /\ req.phase = "snapshot"
        /\ UNCHANGED <<registries, snapshots, supply, now, outcome, replica>>
    BY DEF ReadSnapshot
  <1>3. req \in ReqRecord /\ seen \in SeenRecord /\ Inv /\ HealthTypeOK
    BY HealthTypes
  <1>4. /\ req.mint \in Mints /\ req.target \in SnapshotKeys /\ req.target[1] = req.mint
        /\ snapshots[req.target] # NoAccount
    BY <1>2 DEF HealthInv, RequestInv, Serving
  <1>5. /\ seen' \in SeenRecord
        /\ seen'.quiet = seen.quiet /\ seen'.okSeen = seen.okSeen /\ seen'.known = seen.known
        /\ seen'.lagged = FALSE => seen.lagged = FALSE /\ view = chain
    BY <1>1, <1>3, SeesKeeps
  <1>7. view = chain => view.snapshots = snapshots
    BY DEF chain
  <1>8. ASSUME Return("unknown", "latest_snapshot_not_found"), view.snapshots[req.target] = NoAccount
        PROVE  HealthInv'
    <2>1. seen'.known = FALSE \/ seen'.lagged = TRUE
      <3>1. seen'.lagged \in BOOLEAN
        BY <1>5 DEF SeenRecord
      <3> QED BY <1>4, <1>5, <1>7, <1>8, <3>1
    <2> QED BY <1>2, <1>5, <1>8, <2>1, ReturnInv
  <1>9. ASSUME view.snapshots[req.target] # NoAccount, UNCHANGED answer,
               req' = [req EXCEPT !.phase = "supply", !.failures = 0, !.snapshot = view.snapshots[req.target]]
        PROVE  HealthInv'
    <2>1. view.snapshots[req.target] = snapshots[req.target]
      BY <1>4, <1>9, ViewsAreBehind DEF Behind
    <2>2. snapshots[req.target] \in Snapshot
      BY <1>3, <1>4 DEF Inv, TypeOK
    <2>5. /\ req' \in ReqRecord
          /\ req'.phase = "supply" /\ req'.mint = req.mint /\ req'.target = req.target
          /\ req'.snapshot = snapshots[req.target]
      <3>1. 0 \in 0 .. MaxAttempts - 1
        BY HealthAssumption
      <3> QED BY <1>3, <1>9, <2>1, <2>2, <3>1 DEF ReqRecord, Phases
    <2>6. Inv' /\ TypeOK' /\ Behind(replica, snapshots)'
      BY <1>2, ChainUntouched
    <2>7. answer'.kind = "none"
      BY <1>2, <1>3, <1>9, ServingHasNoAnswer
    <2>8. HealthTypeOK'
      BY <1>4, <1>5, <2>5, <2>6, <2>7 DEF HealthTypeOK, ReqRecord, SeenRecord, NoValue
    <2>9. RequestInv'
      BY <1>2, <1>4, <2>5 DEF RequestInv, Serving
    <2>10. HistoryInv'
      <3>1. Evaluable(req.mint)' <=> Evaluable(req.mint)
        BY <1>2, <2>5, EvaluableUnchanged
      <3>2. Evaluable(req.mint)' => seen'.okSeen = TRUE
        BY <1>2, <1>5, <3>1 DEF HealthInv, HistoryInv, Serving
      <3> QED BY <1>2, <1>5, <2>5, <3>2 DEF HealthInv, HistoryInv, Serving
    <2>11. AnswerInv'
      BY <2>7, NoAnswerYet
    <2> QED BY <2>6, <2>8, <2>9, <2>10, <2>11 DEF HealthInv
  <1> QED BY <1>1, <1>8, <1>9

\* The supply is the chain's as it is now, or a node was behind.
LEMMA ReadSupplyStep ==
    ASSUME HealthInv, ReadSupply
    PROVE  HealthInv'
  <1>1. PICK view \in Views :
            /\ Sees(view)
            /\ req' = [req EXCEPT !.phase = "reply", !.liveSupply = view.supply[req.mint]]
    BY DEF ReadSupply
  <1>2. /\ req.phase = "supply"
        /\ UNCHANGED <<registries, snapshots, supply, now, outcome, answer, replica>>
    BY DEF ReadSupply
  <1>3. req \in ReqRecord /\ seen \in SeenRecord /\ Inv /\ HealthTypeOK
    BY HealthTypes
  <1>4. /\ req.mint \in Mints /\ req.target \in SnapshotKeys /\ req.target[1] = req.mint
        /\ snapshots[req.target] # NoAccount /\ req.snapshot = snapshots[req.target]
    BY <1>2 DEF HealthInv, RequestInv, Serving
  <1>5. /\ seen' \in SeenRecord
        /\ seen'.quiet = seen.quiet /\ seen'.okSeen = seen.okSeen /\ seen'.known = seen.known
        /\ seen'.lagged = FALSE => seen.lagged = FALSE /\ view = chain
    BY <1>1, <1>3, SeesKeeps
  <1>6. view.supply[req.mint] \in Amounts
    BY <1>4, ViewsAreBehind DEF Behind
  <1>7. view = chain => view.supply[req.mint] = supply[req.mint]
    BY DEF chain
  <1>8. /\ req' \in ReqRecord
        /\ req'.phase = "reply" /\ req'.mint = req.mint /\ req'.target = req.target
        /\ req'.snapshot = req.snapshot /\ req'.liveSupply = view.supply[req.mint]
    BY <1>1, <1>3, <1>6 DEF ReqRecord, Phases
  <1>9. Inv' /\ TypeOK' /\ Behind(replica, snapshots)'
    BY <1>2, ChainUntouched
  <1>10. answer'.kind = "none"
    BY <1>2, <1>3, ServingHasNoAnswer
  <1>11. HealthTypeOK'
    <2>1. req'.snapshot # NoAccount
      BY <1>4, <1>8
    <2> QED BY <1>4, <1>5, <1>8, <1>9, <1>10, <2>1 DEF HealthTypeOK, ReqRecord, SeenRecord, NoValue
  <1>12. RequestInv'
    BY <1>2, <1>4, <1>8 DEF RequestInv, Serving
  <1>13. HistoryInv'
    <2>1. Evaluable(req.mint)' => seen'.okSeen = TRUE
      <3>1. Evaluable(req.mint)' <=> Evaluable(req.mint)
        BY <1>2, <1>8, EvaluableUnchanged
      <3> QED BY <1>2, <1>5, <3>1 DEF HealthInv, HistoryInv, Serving
    <2>2. seen'.known = TRUE => registries'[req'.mint] # NoAccount /\ registries'[req'.mint].has_snapshot
      BY <1>2, <1>5, <1>8 DEF HealthInv, HistoryInv, Serving
    <2>3. seen'.quiet = TRUE /\ seen'.lagged = FALSE => registries'[req'.mint].latest_snapshot = req'.target
      BY <1>2, <1>5, <1>8 DEF HealthInv, HistoryInv
    <2>4. seen'.lagged = FALSE => req'.liveSupply = supply'[req'.mint]
      BY <1>2, <1>5, <1>7, <1>8
    <2>5. ASSUME seen'.lagged = FALSE, snapshots'[req'.target].status = "Verified",
                 req'.liveSupply <= snapshots'[req'.target].attested_backing
          PROVE  \/ seen'.okSeen = TRUE
                 \/ registries'[req'.mint].latest_snapshot # req'.target
                 \/ now' >= snapshots'[req'.target].expires_at
      <3>1. /\ registries[req.mint].latest_snapshot = req.target
            /\ ~(now >= snapshots[req.target].expires_at)
            => Evaluable(req.mint)
        <4>1. supply[req.mint] <= snapshots[req.target].attested_backing /\ snapshots[req.target].status = "Verified"
          BY <1>2, <1>8, <2>4, <2>5
        <4> QED BY <1>3, <1>4, <4>1, CurrentIsEvaluable
      <3>2. Evaluable(req.mint) => seen'.okSeen = TRUE
        BY <1>2, <1>5 DEF HealthInv, HistoryInv, Serving
      <3> QED BY <1>2, <1>8, <3>1, <3>2
    <2> QED BY <1>8, <2>1, <2>2, <2>3, <2>4, <2>5 DEF HistoryInv
  <1>14. AnswerInv'
    BY <1>10, NoAnswerYet
  <1> QED BY <1>9, <1>11, <1>12, <1>13, <1>14 DEF HealthInv

\* A status byte is one word or the other, and the program computes it.
LEMMA StatusWords ==
    ASSUME NEW s \in Snapshot
    PROVE  StatusName(s.status) = "VERIFIED" <=> s.status = "Verified"
  BY DEF StatusName, Snapshot, SnapshotStatus

\* The two verdicts come from the same two comparisons.
LEMMA VerdictsAgree ==
    ASSUME NEW s \in Snapshot, NEW mint, s.mint = mint, s.registry = mint, NEW live, NEW t
    PROVE  /\ HealthSafe(s, live, t, mint) <=> HealthStatus(s, live, t) = "VERIFIED"
           /\ HealthSafe(s, live, t, mint) <=> /\ ~Expired(s, t)
                                               /\ ~UnderBacked(s, live)
                                               /\ s.status = "Verified"
           /\ HealthSafe(s, live, t, mint) \in BOOLEAN
  BY StatusWords DEF HealthSafe, HealthStatus, StatusName

\* The answer is judged at the moment it is given, against what was read and
\* what the chain holds now.
LEMMA ReplyStep ==
    ASSUME HealthInv, Reply
    PROVE  HealthInv'
  <1>1. PICK t \in HostClocks :
            answer' = [kind |-> "health",
                       status |-> HealthStatus(req.snapshot, req.liveSupply, t),
                       safe |-> HealthSafe(req.snapshot, req.liveSupply, t, req.mint),
                       mint |-> req.mint,
                       snapshot |-> req.target,
                       attestedBacking |-> req.snapshot.attested_backing,
                       expiresAt |-> req.snapshot.expires_at,
                       at |-> now,
                       hostClock |-> t,
                       evaluable |-> Evaluable(req.mint),
                       overtaken |-> registries[req.mint].latest_snapshot # req.target]
    BY DEF Reply
  <1>2. /\ req.phase = "reply"
        /\ req' = [phase |-> "done", mint |-> DefaultKey, failures |-> 0,
                   target |-> DefaultKey, snapshot |-> NoAccount, liveSupply |-> 0]
        /\ UNCHANGED <<registries, snapshots, supply, now, outcome, replica, seen>>
    BY DEF Reply, IdleRequest
  <1>3. req \in ReqRecord /\ seen \in SeenRecord /\ Inv /\ HealthTypeOK
    BY HealthTypes
  <1>4. /\ req.mint \in Mints /\ req.target \in SnapshotKeys /\ req.target[1] = req.mint
        /\ snapshots[req.target] # NoAccount /\ req.snapshot = snapshots[req.target]
    BY <1>2 DEF HealthInv, RequestInv, Serving
  <1> DEFINE s == snapshots[req.target]
             live == req.liveSupply
  <1>5. s \in Snapshot /\ s.mint = req.mint /\ s.registry = req.mint
    BY <1>3, <1>4 DEF Inv, TypeOK, SnapshotInv, Exists
  <1>6. /\ s.expires_at \in Int /\ s.attested_backing \in Int /\ live \in Int
        /\ now \in Int /\ t \in Int /\ ClockSkew \in Int
        /\ t >= now - ClockSkew
    BY <1>3, <1>5, HealthAssumption, BoundAssumption
       DEF Snapshot, ReqRecord, Amounts, Timestamps, HostClocks, Inv, TypeOK
  <1>7. /\ answer'.kind = "health"
        /\ answer'.status = HealthStatus(s, live, t)
        /\ answer'.safe = HealthSafe(s, live, t, req.mint)
        /\ answer'.snapshot = req.target
        /\ answer'.attestedBacking = s.attested_backing
        /\ answer'.expiresAt = s.expires_at
        /\ answer'.at = now /\ answer'.hostClock = t
        /\ answer'.evaluable = Evaluable(req.mint)
        /\ answer'.overtaken = (registries[req.mint].latest_snapshot # req.target)
    BY <1>1, <1>4
  <1>8. /\ HealthSafe(s, live, t, req.mint) <=> HealthStatus(s, live, t) = "VERIFIED"
        /\ HealthSafe(s, live, t, req.mint) <=> ~(t > s.expires_at) /\ ~(live > s.attested_backing)
                                                /\ s.status = "Verified"
    BY <1>5, VerdictsAgree DEF Expired, UnderBacked
  <1>9. Inv' /\ TypeOK' /\ Behind(replica, snapshots)'
    BY <1>2, ChainUntouched
  <1>10. req' \in ReqRecord
    BY <1>2, HealthAssumption, BoundAssumption DEF ReqRecord, Phases, Amounts
  <1>11. HealthTypeOK'
    BY <1>2, <1>3, <1>7, <1>9, <1>10 DEF HealthTypeOK, ReqRecord, SeenRecord, NoValue
  <1>12. RequestInv' /\ HistoryInv'
    BY <1>2 DEF RequestInv, HistoryInv, Serving
  <1>13. StatusAndSafeAgree'
    BY <1>7, <1>8 DEF StatusAndSafeAgree
  <1>14. SafeHasBasis'
    <2> SUFFICES ASSUME answer'.safe, ~seen'.lagged
                 PROVE  \/ seen'.okSeen
                        \/ answer'.overtaken
                        \/ answer'.at >= answer'.expiresAt /\ answer'.at <= answer'.expiresAt + ClockSkew
      BY DEF SafeHasBasis
    <2>1. ~(t > s.expires_at) /\ live <= s.attested_backing /\ s.status = "Verified"
      BY <1>6, <1>7, <1>8
    <2>2. seen.lagged = FALSE
      BY <1>2, <1>3 DEF SeenRecord
    <2>3. \/ seen.okSeen = TRUE
          \/ registries[req.mint].latest_snapshot # req.target
          \/ now >= s.expires_at
      BY <1>2, <2>1, <2>2 DEF HealthInv, HistoryInv
    <2>4. now >= s.expires_at => now <= s.expires_at + ClockSkew
      BY <1>6, <2>1
    <2> QED BY <1>2, <1>7, <2>3, <2>4
  <1>15. AgreesWhenQuiet'
    <2> SUFFICES ASSUME seen'.quiet, ~seen'.lagged, answer'.hostClock = answer'.at, answer'.at # answer'.expiresAt
                 PROVE  answer'.safe <=> answer'.evaluable
      BY DEF AgreesWhenQuiet
    <2>1. seen.lagged = FALSE /\ seen.quiet = TRUE
      BY <1>2, <1>3 DEF SeenRecord
    <2>2. registries[req.mint].latest_snapshot = req.target /\ live = supply[req.mint]
      BY <1>2, <2>1 DEF HealthInv, HistoryInv
    <2>3. Evaluable(req.mint) <=> /\ ~(now >= s.expires_at)
                                  /\ s.status = "Verified"
                                  /\ live <= s.attested_backing
      BY <1>3, <1>4, <2>2, CurrentIsEvaluable
    <2>4. t = now /\ now # s.expires_at
      BY <1>7
    <2>5. /\ ~(now >= s.expires_at) <=> ~(t > s.expires_at)
          /\ live <= s.attested_backing <=> ~(live > s.attested_backing)
      BY <1>6, <2>4
    <2> QED BY <1>7, <1>8, <2>3, <2>5
  <1>16. KnownAssetIsNeverUnknown'
    BY <1>7 DEF KnownAssetIsNeverUnknown
  <1>17. AnswerIsGenuine'
    BY <1>2, <1>4, <1>7, <1>8 DEF AnswerIsGenuine, Exists
  <1> QED BY <1>9, <1>11, <1>12, <1>13, <1>14, <1>15, <1>16, <1>17 DEF HealthInv, AnswerInv

\* A call that failed is repeated with nothing forgotten, until the last.
LEMMA RpcFailsStep ==
    ASSUME HealthInv, RpcFails
    PROVE  HealthInv'
  <1>1. /\ req.phase \in ReadPhases
        /\ UNCHANGED <<registries, snapshots, supply, now, outcome, replica, seen>>
    BY DEF RpcFails
  <1>2. req \in ReqRecord /\ seen \in SeenRecord /\ Inv /\ HealthTypeOK
    BY HealthTypes
  <1>3. CASE Return("thrown", NoValue)
    BY <1>1, <1>2, <1>3, ReturnInv
  <1>4. ASSUME ~GivesUp, req' = [req EXCEPT !.failures = CountFailure(req.failures)], UNCHANGED answer
        PROVE  HealthInv'
    <2>1. req.failures + 1 \in 0 .. MaxAttempts - 1
      <3>1. req.failures \in 0 .. MaxAttempts - 1 /\ MaxAttempts \in Nat
        BY <1>2, HealthAssumption DEF ReqRecord
      <3>2. ~(req.failures + 1 >= MaxAttempts)
        BY <1>4 DEF GivesUp, CountFailure
      <3> QED BY <3>1, <3>2
    <2>2. /\ req' \in ReqRecord
          /\ req'.phase = req.phase /\ req'.mint = req.mint /\ req'.target = req.target
          /\ req'.snapshot = req.snapshot /\ req'.liveSupply = req.liveSupply
      BY <1>2, <1>4, <2>1 DEF ReqRecord, CountFailure
    <2>3. Inv' /\ TypeOK' /\ Behind(replica, snapshots)'
      BY <1>1, ChainUntouched
    <2>4. answer'.kind = "none"
      BY <1>1, <1>2, <1>4, ServingHasNoAnswer DEF ReadPhases
    <2>5. HealthTypeOK'
      BY <1>1, <1>2, <1>4, <2>2, <2>3 DEF HealthTypeOK, ReqRecord, SeenRecord, NoValue
    <2>6. RequestInv'
      BY <1>1, <2>2 DEF HealthInv, RequestInv, Serving
    <2>7. HistoryInv'
      <3>1. Evaluable(req.mint)' <=> Evaluable(req.mint)
        BY <1>1, <2>2, EvaluableUnchanged
      <3> QED BY <1>1, <2>2, <3>1 DEF HealthInv, HistoryInv, Serving
    <2>8. AnswerInv'
      BY <2>4, NoAnswerYet
    <2> QED BY <2>3, <2>5, <2>6, <2>7, <2>8 DEF HealthInv
  <1> QED BY <1>3, <1>4 DEF RpcFails

\* The answer is gone, and everything about it.
LEMMA DeliverStep ==
    ASSUME HealthInv, Deliver
    PROVE  HealthInv'
  <1>1. /\ req' = [phase |-> "idle", mint |-> DefaultKey, failures |-> 0,
                   target |-> DefaultKey, snapshot |-> NoAccount, liveSupply |-> 0]
        /\ answer' = [kind |-> "none"]
        /\ seen' = [quiet |-> TRUE, okSeen |-> FALSE, known |-> FALSE, lagged |-> FALSE]
        /\ UNCHANGED <<registries, snapshots, supply, now, outcome, replica>>
    BY DEF Deliver, IdleRequest, NoAnswer, NoValue, NothingSeen
  <1>2. req' \in ReqRecord /\ seen' \in SeenRecord
    BY <1>1, HealthAssumption, BoundAssumption DEF ReqRecord, SeenRecord, Phases, Amounts
  <1>3. Inv' /\ TypeOK' /\ Behind(replica, snapshots)'
    BY <1>1, ChainUntouched
  <1>4. HealthTypeOK'
    BY <1>1, <1>2, <1>3 DEF HealthTypeOK, ReqRecord, SeenRecord, NoValue
  <1>5. RequestInv' /\ HistoryInv'
    BY <1>1 DEF RequestInv, HistoryInv, Serving
  <1>6. AnswerInv'
    BY <1>1, NoAnswerYet
  <1> QED BY <1>3, <1>4, <1>5, <1>6 DEF HealthInv

\* A node that catches up knows the chain as it is now.
LEMMA CatchUpStep ==
    ASSUME HealthInv, CatchUp
    PROVE  HealthInv'
  <1>1. replica' = chain /\ UNCHANGED <<registries, snapshots, supply, now, outcome, req, answer, seen>>
    BY DEF CatchUp
  <1>2. Inv /\ HealthTypeOK
    BY HealthTypes
  <1>3. Inv' /\ TypeOK'
    BY <1>1, <1>2, InvStep DEF vars, Inv
  <1>4. Behind(replica, snapshots)'
    BY <1>1, <1>2, ChainIsBehind DEF Behind
  <1>5. HealthTypeOK'
    BY <1>1, <1>2, <1>3 DEF HealthTypeOK
  <1>6. RequestInv'
    BY <1>1 DEF HealthInv, RequestInv, Serving
  <1>7. HistoryInv'
    <2>1. Evaluable(req.mint)' <=> Evaluable(req.mint)
      BY <1>1, EvaluableUnchanged
    <2> QED BY <1>1, <2>1 DEF HealthInv, HistoryInv, Serving
  <1>8. AnswerInv'
    BY <1>1 DEF HealthInv, AnswerInv, StatusAndSafeAgree, SafeHasBasis, AgreesWhenQuiet, KnownAssetIsNeverUnknown,
                AnswerIsGenuine, Answered, Exists
  <1> QED BY <1>3, <1>4, <1>5, <1>6, <1>7, <1>8 DEF HealthInv

\* What a request has read of the chain outlives whatever the chain does next.
LEMMA ChainStepStep ==
    ASSUME HealthInv, ChainStep
    PROVE  HealthInv'
  <1>1. /\ req.phase # "done" /\ [Next]_vars
        /\ UNCHANGED <<req, answer, replica>>
        /\ seen' = [seen EXCEPT
               !.quiet = seen.quiet /\ (Serving => chain' = chain),
               !.okSeen = seen.okSeen \/ (Serving /\ Evaluable(req.mint)')]
    BY ChainStepIsNext DEF ChainStep
  <1>2. req \in ReqRecord /\ seen \in SeenRecord /\ Inv /\ HealthTypeOK
    BY HealthTypes
  <1>3. Inv' /\ TypeOK'
    BY <1>1, <1>2, InvStep DEF Inv
  <1>4. Behind(replica, snapshots)'
    BY <1>1, BehindKept DEF HealthInv
  <1>5. /\ seen' \in SeenRecord
        /\ seen'.known = seen.known /\ seen'.lagged = seen.lagged
        /\ seen'.quiet = TRUE /\ Serving => seen.quiet = TRUE /\ chain' = chain
        /\ seen.okSeen = TRUE \/ (Serving /\ Evaluable(req.mint)') => seen'.okSeen = TRUE
    <2>1. seen.quiet \in BOOLEAN /\ seen.okSeen \in BOOLEAN
      BY <1>2 DEF SeenRecord
    <2> DEFINE q == seen.quiet /\ (Serving => chain' = chain)
               o == seen.okSeen \/ (Serving /\ Evaluable(req.mint)')
    <2>2. /\ q \in BOOLEAN /\ o \in BOOLEAN
          /\ q = TRUE /\ Serving => seen.quiet = TRUE /\ chain' = chain
          /\ seen.okSeen = TRUE \/ (Serving /\ Evaluable(req.mint)') => o = TRUE
      BY <2>1
    <2>3. seen' = [seen EXCEPT !.quiet = q, !.okSeen = o]
      BY <1>1
    <2> HIDE DEF q, o
    <2>4. seen' \in SeenRecord /\ seen'.known = seen.known /\ seen'.lagged = seen.lagged
          /\ seen'.quiet = q /\ seen'.okSeen = o
      BY <1>2, <2>2, <2>3 DEF SeenRecord
    <2> QED BY <2>2, <2>4
  <1>6. answer.kind = "none" /\ answer'.kind = "none"
    BY <1>1, <1>2, ServingHasNoAnswer
  <1>7. HealthTypeOK'
    BY <1>1, <1>2, <1>3, <1>5, <1>6 DEF HealthTypeOK, SeenRecord, NoValue
  <1>8. Serving => req.mint \in Mints
    BY DEF HealthInv, RequestInv
  <1>9. ASSUME req.phase \in {"snapshot", "supply", "reply"}
        PROVE  /\ req.target \in SnapshotKeys /\ req.target[1] = req.mint /\ Exists(req.target)
               /\ snapshots'[req.target] = snapshots[req.target] /\ snapshots'[req.target] # NoAccount
    <2>1. req.target \in SnapshotKeys /\ req.target[1] = req.mint /\ Exists(req.target)
      BY <1>9 DEF HealthInv, RequestInv, Exists
    <2>2. snapshots'[req.target] = snapshots[req.target]
      BY <1>1, <1>2, <2>1, SnapshotsKept
    <2> QED BY <2>1, <2>2 DEF Exists
  <1>10. RequestInv'
    BY <1>1, <1>8, <1>9 DEF HealthInv, RequestInv, Serving
  <1>11. HistoryInv'
    <2>1. Serving' <=> Serving
      BY <1>1 DEF Serving
    <2>2. Serving' /\ Evaluable(req.mint)' => seen'.okSeen = TRUE
      BY <1>5, <2>1
    <2>3. Serving' /\ seen'.known = TRUE => registries'[req'.mint] # NoAccount /\ registries'[req'.mint].has_snapshot
      <3>1. Serving /\ seen.known = TRUE => registries[req.mint] # NoAccount /\ registries[req.mint].has_snapshot
        BY DEF HealthInv, HistoryInv
      <3>2. Serving /\ seen.known = TRUE => registries'[req.mint] # NoAccount /\ registries'[req.mint].has_snapshot
        BY <1>1, <1>2, <1>8, <3>1, RegistriesKept
      <3> QED BY <1>1, <1>5, <2>1, <3>2
    <2>4. req.phase \in {"snapshot", "supply", "reply"} => Serving
      BY DEF Serving
    <2>5. chain' = chain => UNCHANGED <<registries, supply>>
      BY DEF chain
    <2>6. req'.phase \in {"snapshot", "supply", "reply"} /\ seen'.quiet = TRUE /\ seen'.lagged = FALSE =>
              registries'[req'.mint].latest_snapshot = req'.target
      BY <1>1, <1>5, <2>4, <2>5 DEF HealthInv, HistoryInv
    <2>7. req'.phase = "reply" /\ seen'.quiet = TRUE /\ seen'.lagged = FALSE => req'.liveSupply = supply'[req'.mint]
      BY <1>1, <1>5, <2>4, <2>5 DEF HealthInv, HistoryInv
    <2>8. ASSUME req'.phase = "reply", seen'.lagged = FALSE, snapshots'[req'.target].status = "Verified",
                 req'.liveSupply <= snapshots'[req'.target].attested_backing
          PROVE  \/ seen'.okSeen = TRUE
                 \/ registries'[req'.mint].latest_snapshot # req'.target
                 \/ now' >= snapshots'[req'.target].expires_at
      <3>1. /\ req.target \in SnapshotKeys /\ req.target[1] = req.mint /\ Exists(req.target)
            /\ snapshots'[req.target] = snapshots[req.target]
        BY <1>1, <1>9, <2>8
      <3>2. \/ seen.okSeen = TRUE
            \/ registries[req.mint].latest_snapshot # req.target
            \/ now >= snapshots[req.target].expires_at
        BY <1>1, <1>5, <2>8, <3>1 DEF HealthInv, HistoryInv
      <3>3. registries[req.mint].latest_snapshot # req.target => registries'[req.mint].latest_snapshot # req.target
        BY <1>1, <1>2, <3>1, PointerNeverReturns
      <3>4. now >= snapshots[req.target].expires_at => now' >= snapshots'[req.target].expires_at
        <4>1. snapshots[req.target].expires_at \in Int
          BY <1>2, <3>1, BoundAssumption DEF Inv, TypeOK, Exists, Snapshot, Timestamps
        <4>2. now \in Int /\ now' \in Int /\ now <= now'
          BY <1>1, <1>2, ClockMonotonic
        <4> QED BY <3>1, <4>1, <4>2
      <3> QED BY <1>1, <1>5, <3>2, <3>3, <3>4
    <2> QED BY <2>2, <2>3, <2>6, <2>7, <2>8 DEF HistoryInv
  <1>12. AnswerInv'
    BY <1>6, NoAnswerYet
  <1> QED BY <1>3, <1>4, <1>7, <1>10, <1>11, <1>12 DEF HealthInv

\* Nothing happens.
LEMMA HealthStutter ==
    ASSUME HealthInv, UNCHANGED healthVars
    PROVE  HealthInv'
  <1>1. UNCHANGED <<registries, snapshots, supply, now, outcome, req, answer, replica, seen>>
    BY DEF healthVars
  <1>2. Inv' /\ TypeOK' /\ Behind(replica, snapshots)'
    BY <1>1, ChainUntouched
  <1>3. HealthTypeOK'
    BY <1>1, <1>2 DEF HealthInv, HealthTypeOK
  <1>4. RequestInv'
    BY <1>1 DEF HealthInv, RequestInv, Serving
  <1>5. HistoryInv'
    <2>1. Evaluable(req.mint)' <=> Evaluable(req.mint)
      BY <1>1, EvaluableUnchanged
    <2> QED BY <1>1, <2>1 DEF HealthInv, HistoryInv, Serving
  <1>6. AnswerInv'
    BY <1>1 DEF HealthInv, AnswerInv, StatusAndSafeAgree, SafeHasBasis, AgreesWhenQuiet, KnownAssetIsNeverUnknown,
                AnswerIsGenuine, Answered, Exists
  <1> QED BY <1>2, <1>3, <1>4, <1>5, <1>6 DEF HealthInv

\* HealthInv is inductive: it holds in every state of every run of the reader.
THEOREM HealthInvHolds == HealthSpec => []HealthInv
  <1>1. HealthInit => HealthInv
    BY HealthInitInv
  <1>2. HealthInv /\ [HealthNext]_healthVars => HealthInv'
    BY RequestStep, ReadRegistryStep, ReadSnapshotStep, ReadSupplyStep, ReplyStep, RpcFailsStep, DeliverStep,
       ChainStepStep, CatchUpStep, HealthStutter DEF HealthNext
  <1> QED BY <1>1, <1>2, PTL DEF HealthSpec

\* The request, its answer and its history keep their types, however the reads,
\* the retries and the chain interleave; there is an answer exactly when done.
THEOREM HealthTypeCorrect == HealthSpec => []HealthTypeOK
  <1>1. HealthInv => HealthTypeOK
    BY DEF HealthInv
  <1> QED BY <1>1, HealthInvHolds, PTL

\* The status word and the safe flag of an answer, computed apart, never differ
\* on whether the asset is safe.
THEOREM StatusAgreesWithSafe == HealthSpec => []StatusAndSafeAgree
  <1>1. HealthInv => StatusAndSafeAgree
    BY DEF HealthInv, AnswerInv
  <1> QED BY <1>1, HealthInvHolds, PTL

\* "safe", from three reads of a chain that moves between them, is right at some
\* instant of the request, or overtaken, or within the clocks' difference of it.
THEOREM SafeIsGrounded == HealthSpec => []SafeHasBasis
  <1>1. HealthInv => SafeHasBasis
    BY DEF HealthInv, AnswerInv
  <1> QED BY <1>1, HealthInvHolds, PTL

\* While nothing moves and the clocks agree, the API and evaluate_snapshot give
\* the same verdict, save in the second of expiry.
THEOREM QuietVerdictAgrees == HealthSpec => []AgreesWhenQuiet
  <1>1. HealthInv => AgreesWhenQuiet
    BY DEF HealthInv, AnswerInv
  <1> QED BY <1>1, HealthInvHolds, PTL

\* The pointers the reads follow never lead nowhere: an asset with a snapshot is
\* never reported as unknown by nodes that are up to date.
THEOREM KnownStaysKnown == HealthSpec => []KnownAssetIsNeverUnknown
  <1>1. HealthInv => KnownAssetIsNeverUnknown
    BY DEF HealthInv, AnswerInv
  <1> QED BY <1>1, HealthInvHolds, PTL

\* However far behind the nodes are, an answer quotes an attestation the chain
\* holds, with its own backing and expiry.
THEOREM GenuineAnswers == HealthSpec => []AnswerIsGenuine
  <1>1. HealthInv => AnswerIsGenuine
    BY DEF HealthInv, AnswerInv
  <1> QED BY <1>1, HealthInvHolds, PTL
=============================================================================
