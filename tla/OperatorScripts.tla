---------------------------- MODULE OperatorScripts ----------------------------
(***************************************************************************)
(* scripts/refresh-snapshot.ts, rotate-attestor.ts and day2-real-mint.ts,    *)
(* with the sendWithRetry and the confirms they use: the code that writes to *)
(* the on-chain program.  Runs of the first two may overlap.  The third      *)
(* mints a token of its own, registers it and submits its first snapshot;    *)
(* nobody else works on the mint before that run is over.  Each send makes a *)
(* new transaction, with a blockhash of its own, and the network may deliver *)
(* it late or never, or deliver it and lose the answer.                      *)
(*                                                                           *)
(* A tick is a minute or more; confirm polls every two seconds, so a status  *)
(* is seen within the tick.  The random bytes of a snapshot id never         *)
(* collide: an id stands for the run that made it.  An evaluation changes no *)
(* account, so its transaction is known by its result alone.                 *)
(***************************************************************************)
EXTENDS BackstopProgram, FiniteSets

CONSTANTS
    MINT,               \* the asset the scripts are run for
    Runs,               \* runs of a script, and the ids they would give a snapshot
    MaxSends,           \* attempts of sendWithRetry
    BlockhashLife,      \* ticks after which a transaction can land no more
    CONFIRM_TIMEOUT,
    Supplies,           \* what the supply may move to, other than by the setup
    SetupAmount,        \* what the setup mints and attests
    SNAPSHOT_VALIDITY   \* for how long a submitted snapshot is good

\* 150 slots of a blockhash, about a minute, are less than the ninety seconds
\* confirm waits.
ASSUME ScriptAssumption ==
    /\ MINT \in Mints
    /\ Runs \subseteq SnapshotIds \ {ZeroId}
    /\ MaxSends \in Nat \ {0}
    /\ Supplies \subseteq Amounts /\ SetupAmount \in Amounts
    /\ BlockhashLife \in Nat /\ CONFIRM_TIMEOUT \in Nat /\ BlockhashLife < CONFIRM_TIMEOUT
    /\ SNAPSHOT_VALIDITY \in 1 .. MAX_SNAPSHOT_VALIDITY_SECS /\ SNAPSHOT_VALIDITY <= MaxTime
    /\ AssetIds \ LongAssetIds # {}

VARIABLES
    runs,       \* each run's progress and its local variables
    network,    \* transactions that may still land
    before,     \* history: <<a, b>> if a had completed or timed out when b began
    accepted,   \* history: runs with an evaluation that was executed and said Ok
    trouble     \* history: runs that met a reason to fail

programVars == <<registries, snapshots, supply, now, outcome>>
scriptVars == <<programVars, runs, network, before, accepted, trouble>>

\* The instruction a run is busy with.  An evaluation carries the snapshot it
\* is about by the run's name, and a rotation no amounts.
NoIx == [op |-> "none", backing |-> 0, expires_at |-> 0, attestor |-> DefaultKey]
SubmitIx(backing, expires_at) == [NoIx EXCEPT !.op = "submit", !.backing = backing, !.expires_at = expires_at]
EvaluateIx(submitIx) == [submitIx EXCEPT !.op = "evaluate"]
MintIx == [NoIx EXCEPT !.op = "mint"]
RegisterIx == [NoIx EXCEPT !.op = "register", !.attestor = BACKSTOP_ADMIN]
RotateIx(attestor) == [NoIx EXCEPT !.op = "rotate", !.attestor = attestor]

\* "status" is what getSignatureStatuses would say of the awaited transaction;
\* "setup" tells a run of day2-real-mint.ts.
IdleRun == [phase |-> "idle", setup |-> FALSE, ix |-> NoIx, attempt |-> 0, status |-> "unknown",
            left |-> 0, wallet |-> DefaultKey, result |-> "none"]

Started(p) == runs[p].phase # "idle"
Ended(p) == runs[p].phase = "done"
Running(p) == Started(p) /\ ~Ended(p)
Transaction(p) == [run |-> p, attempt |-> runs[p].attempt, ix |-> runs[p].ix, left |-> BlockhashLife]
Awaits(p, tx) ==
    /\ tx.run = p
    /\ runs[p].phase = "confirming"
    /\ tx.attempt = runs[p].attempt
    /\ tx.ix = runs[p].ix

\* Faulty variant: the id is made anew for a second attempt.
IdOf_PerAttempt(tx) == IF tx.attempt = 1 THEN tx.run ELSE ZeroId

\* The instruction, with its id, is built once, before the first attempt.
IdOf(tx) == tx.run

-----------------------------------------------------------------------------
(* The programs' side: what a transaction does when it is processed.  All    *)
(* scripts sign with the one wallet they admit.                              *)

\* Whether it would succeed now, which is also what preflight simulates.
Succeeds(tx) ==
    \/ /\ tx.ix.op = "mint"
       /\ supply[MINT] + SetupAmount <= MaxSupply
    \/ /\ tx.ix.op = "register"
       /\ registries[MINT] = NoAccount
    \/ /\ tx.ix.op = "submit"
       /\ SnapshotInit(SnapshotPda(MINT, IdOf(tx)))
       /\ registries[MINT].attestor = BACKSTOP_ADMIN
       /\ ValidateExpiry(now, tx.ix.expires_at)
    \/ /\ tx.ix.op = "evaluate"
       /\ EvaluateResult(MINT, SnapshotPda(MINT, tx.run)) = "Ok"
    \/ /\ tx.ix.op = "rotate"
       /\ registries[MINT].authority = BACKSTOP_ADMIN

SetupAssetId == CHOOSE a \in AssetIds \ LongAssetIds : TRUE

Execute(tx) ==
    \/ /\ tx.ix.op = "mint"
       /\ ChangeSupply(MINT, supply[MINT] + SetupAmount)
    \/ /\ tx.ix.op = "register"
       /\ InitializeAsset(BACKSTOP_ADMIN, MINT, SetupAssetId, tx.ix.attestor)
    \/ /\ tx.ix.op = "submit"
       /\ SubmitSnapshot(BACKSTOP_ADMIN, MINT, IdOf(tx), tx.ix.backing, tx.ix.expires_at)
    \/ /\ tx.ix.op = "evaluate"
       /\ UNCHANGED programVars
    \/ /\ tx.ix.op = "rotate"
       /\ UpdateAttestor(BACKSTOP_ADMIN, MINT, tx.ix.attestor)

NoteStatus(tx, status) ==
    runs' = [p \in Runs |-> IF Awaits(p, tx) THEN [runs[p] EXCEPT !.status = status] ELSE runs[p]]

LandsOk(tx) ==
    /\ Succeeds(tx)
    /\ Execute(tx)
    /\ NoteStatus(tx, "ok")
    /\ network' = network \ {tx}
    /\ trouble' = IF tx.ix.op = "evaluate" THEN trouble
                  ELSE trouble \cup {p \in Runs : p # tx.run /\ Running(p)}
    /\ accepted' = IF tx.ix.op = "evaluate" THEN accepted \cup {tx.run} ELSE accepted
    /\ UNCHANGED before

LandsErr(tx) ==
    /\ ~Succeeds(tx)
    /\ NoteStatus(tx, "err")
    /\ network' = network \ {tx}
    /\ UNCHANGED <<programVars, before, accepted, trouble>>

-----------------------------------------------------------------------------
(* The scripts. *)

\* The asset was registered with the admin as its attestor, or its mint is yet
\* to be set up.
ScriptInit ==
    /\ \/ /\ registries = [m \in Mints |->
                 [authority |-> BACKSTOP_ADMIN, mint |-> m, attestor |-> BACKSTOP_ADMIN,
                  latest_snapshot |-> DefaultKey, latest_snapshot_id |-> ZeroId,
                  has_snapshot |-> FALSE, asset_id |-> SetupAssetId]]
          /\ supply \in [Mints -> Supplies]
       \/ /\ registries = [m \in Mints |-> NoAccount]
          /\ supply = [m \in Mints |-> 0]
    /\ snapshots = [k \in SnapshotKeys |-> NoAccount]
    /\ now = 0
    /\ outcome = NoOutcome
    /\ runs = [p \in Runs |-> IdleRun]
    /\ network = {}
    /\ before = {}
    /\ accepted = {}
    /\ trouble = {}

\* Any run may be the setup; which one is the same to everyone.
SetupRun == CHOOSE p \in Runs : TRUE

SettingUp == \E q \in Runs : runs[q].setup /\ Running(q)
Operable == registries[MINT] # NoAccount /\ ~SettingUp

Begin(p, run) ==
    /\ runs[p].phase = "idle"
    /\ runs' = [runs EXCEPT ![p] = run]
    /\ before' = before \cup {<<q, p>> : q \in {r \in Runs : runs[r].result \in {"complete", "timed out"}}}
    /\ UNCHANGED <<programVars, network, accepted>>

\* The process exits; of its variables, those the properties ask about stay.
RunEnded(p, result) ==
    [IdleRun EXCEPT !.phase = "done", !.setup = runs[p].setup, !.result = result,
                    !.attempt = IF runs[p].ix.op = "rotate" THEN runs[p].attempt ELSE 0,
                    !.ix = [runs[p].ix EXCEPT !.backing = 0, !.expires_at = 0]]

Sending(ix) == [IdleRun EXCEPT !.phase = "sending", !.ix = ix, !.attempt = 1]
SettingUpBy(ix) == [Sending(ix) EXCEPT !.setup = TRUE]

\* EXPECTED_ATTESTOR is BACKSTOP_ADMIN.
WalletAdmitted(wallet) == wallet = BACKSTOP_ADMIN

RefuseWallet(p, wallet) ==
    /\ Operable
    /\ ~WalletAdmitted(wallet)
    /\ Begin(p, [IdleRun EXCEPT !.phase = "done", !.wallet = wallet, !.result = "refused"])
    /\ UNCHANGED trouble

\* getMint answers, and the rest up to the first send is computed at once.
\* Runs are begun early enough for the clock's bound.
StartRefresh(p, wallet) ==
    /\ Operable
    /\ WalletAdmitted(wallet)
    /\ now + SNAPSHOT_VALIDITY <= MaxTime
    /\ Begin(p, Sending(SubmitIx(supply[MINT], now + SNAPSHOT_VALIDITY)))
    /\ trouble' = IF registries[MINT].attestor = wallet THEN trouble ELSE trouble \cup {p}

\* The balance is there, createMint has made the mint and its token account is
\* found or made: each may be asked for again without harm.
StartSetup(p, wallet) ==
    /\ registries[MINT] = NoAccount
    /\ p = SetupRun /\ \A q \in Runs : ~Started(q)
    /\ WalletAdmitted(wallet)
    /\ Begin(p, SettingUpBy(MintIx))
    /\ UNCHANGED trouble

\* "Wallet is not BACKSTOP_ADMIN."
RefuseSetup(p, wallet) ==
    /\ registries[MINT] = NoAccount
    /\ p = SetupRun /\ \A q \in Runs : ~Started(q)
    /\ ~WalletAdmitted(wallet)
    /\ Begin(p, [IdleRun EXCEPT !.phase = "done", !.setup = TRUE, !.result = "no authority"])
    /\ UNCHANGED trouble

\* The registry is read and names the wallet as its authority.
StartRotation(p, wallet, new_attestor) ==
    /\ Operable
    /\ registries[MINT].authority = wallet
    /\ Begin(p, Sending(RotateIx(new_attestor)))
    /\ UNCHANGED trouble

\* The registry names another authority.
RefuseRotation(p, wallet) ==
    /\ Operable
    /\ registries[MINT].authority # wallet
    /\ Begin(p, [IdleRun EXCEPT !.phase = "done", !.result = "no authority"])
    /\ UNCHANGED trouble

\* getMint or the first getAccountInfo fails, and nothing catches it; so do
\* createMint or the last attempt at what comes before and after it.
StartFails(p) ==
    /\ ~SettingUp
    /\ Begin(p, [IdleRun EXCEPT !.phase = "done", !.result = "failed"])
    /\ trouble' = trouble \cup {p}

\* Faulty variant: one attempt too many.
Exhausted_Late(p) == runs[p].attempt > MaxSends

Exhausted(p) == runs[p].attempt = MaxSends

\* The catch of sendWithRetry.
AfterFailure(p) ==
    IF Exhausted(p) THEN RunEnded(p, "failed") ELSE [runs[p] EXCEPT !.attempt = @ + 1]

\* The blockhash or the node cannot be had.  An evaluation whose answer is
\* lost is the same to everyone.
SendFails(p) ==
    /\ runs[p].phase = "sending"
    /\ runs' = [runs EXCEPT ![p] = AfterFailure(p)]
    /\ trouble' = trouble \cup {p}
    /\ UNCHANGED <<programVars, network, before, accepted>>

PreflightRejects(p) ==
    /\ runs[p].phase = "sending"
    /\ ~Succeeds(Transaction(p))
    /\ runs' = [runs EXCEPT ![p] = AfterFailure(p)]
    /\ UNCHANGED <<programVars, network, before, accepted, trouble>>

Send(p) ==
    /\ runs[p].phase = "sending"
    /\ Succeeds(Transaction(p))
    /\ network' = network \cup {Transaction(p)}
    /\ runs' = [runs EXCEPT ![p].phase = "confirming", ![p].left = CONFIRM_TIMEOUT]
    /\ UNCHANGED <<programVars, before, accepted, trouble>>

\* The node forwards the transaction and its answer is lost.
SendUnanswered(p) ==
    /\ runs[p].phase = "sending"
    /\ runs[p].ix.op # "evaluate"
    /\ Succeeds(Transaction(p))
    /\ network' = network \cup {Transaction(p)}
    /\ runs' = [runs EXCEPT ![p] = AfterFailure(p)]
    /\ trouble' = trouble \cup {p}
    /\ UNCHANGED <<programVars, before, accepted>>

\* Faulty variant: any status counts as confirmation.
IsConfirmed_Any(p) == runs[p].status \in {"ok", "err"}

IsConfirmed(p) == runs[p].status = "ok"

AfterConfirmation(p) ==
    CASE runs[p].ix.op = "mint"     -> [SettingUpBy(MintIx) EXCEPT !.phase = "checking supply", !.attempt = 0]
      [] runs[p].ix.op = "register" -> SettingUpBy(SubmitIx(SetupAmount, now + SNAPSHOT_VALIDITY))
      [] runs[p].ix.op = "submit"   -> [Sending(EvaluateIx(runs[p].ix)) EXCEPT !.setup = runs[p].setup]
      [] runs[p].ix.op = "evaluate" -> RunEnded(p, "complete")
      [] runs[p].ix.op = "rotate"   -> [runs[p] EXCEPT !.phase = "reading back", !.left = 0, !.status = "unknown"]

Confirmed(p) ==
    /\ runs[p].phase = "confirming"
    /\ IsConfirmed(p)
    /\ runs' = [runs EXCEPT ![p] = AfterConfirmation(p)]
    /\ UNCHANGED <<programVars, network, before, accepted, trouble>>

\* value.err: the transaction was processed and failed.  In day2-real-mint.ts
\* confirm throws inside its own try, catches that and polls on; mintTo, which
\* confirms by itself, never fails on chain.
Rejected(p) ==
    /\ runs[p].phase = "confirming"
    /\ runs[p].status = "err"
    /\ ~runs[p].setup
    /\ runs' = [runs EXCEPT ![p] = RunEnded(p, "failed")]
    /\ UNCHANGED <<programVars, network, before, accepted, trouble>>

\* A process that exits leaves what it sent in the network.  Its evaluation,
\* which changes nothing, nobody waits for any more.
Leaves(p) == {tx \in network : tx.run = p => tx.ix.op # "evaluate"}

\* Faulty variant: the loop has no deadline.
Overdue_Never(p) == FALSE

Overdue(p) == runs[p].left = 0

TimesOut(p) ==
    /\ runs[p].phase = "confirming"
    /\ Overdue(p)
    /\ runs[p].ix.op # "mint"
    /\ runs' = [runs EXCEPT ![p] = RunEnded(p, "timed out")]
    /\ network' = Leaves(p)
    /\ UNCHANGED <<programVars, before, accepted, trouble>>

\* An attempt at mintTo ends without a confirmation, its blockhash expired or a
\* call failed: withRetry mints again, whether or not the first transaction has
\* landed or will.
MintAgain(p) ==
    /\ runs[p].phase = "confirming"
    /\ runs[p].ix.op = "mint"
    /\ runs' = [runs EXCEPT ![p] =
           IF Exhausted(p) THEN RunEnded(p, "failed")
           ELSE [SettingUpBy(MintIx) EXCEPT !.attempt = runs[p].attempt + 1]]
    /\ trouble' = trouble \cup {p}
    /\ UNCHANGED <<programVars, network, before, accepted>>

\* Its supply is that of one mintTo, or "Supply mismatch" is thrown.
CheckSupply(p) ==
    /\ runs[p].phase = "checking supply"
    /\ runs' = [runs EXCEPT ![p] =
           IF supply[MINT] = SetupAmount THEN SettingUpBy(RegisterIx) ELSE RunEnded(p, "mismatch")]
    /\ UNCHANGED <<programVars, network, before, accepted, trouble>>

\* The registry is read again and compared with what was asked for.
ReadBack(p) ==
    /\ runs[p].phase = "reading back"
    /\ runs' = [runs EXCEPT ![p] =
           RunEnded(p, IF registries[MINT].attestor = runs[p].ix.attestor THEN "complete" ELSE "mismatch")]
    /\ UNCHANGED <<programVars, network, before, accepted, trouble>>

\* The node asked has not caught up with the rotation.
ReadBackLags(p) ==
    /\ runs[p].phase = "reading back"
    /\ runs' = [runs EXCEPT ![p] = RunEnded(p, "mismatch")]
    /\ trouble' = trouble \cup {p}
    /\ UNCHANGED <<programVars, network, before, accepted>>

\* A status, the second getAccountInfo or getMint cannot be had, and nothing
\* catches it, save the confirm of day2-real-mint.ts.
CallFails(p) ==
    /\ \/ runs[p].phase = "confirming" /\ ~runs[p].setup
       \/ runs[p].phase \in {"reading back", "checking supply"}
    /\ runs' = [runs EXCEPT ![p] = RunEnded(p, "failed")]
    /\ network' = Leaves(p)
    /\ trouble' = trouble \cup {p}
    /\ UNCHANGED <<programVars, before, accepted>>

-----------------------------------------------------------------------------
(* Outside. *)

SupplyMoves(amount) ==
    /\ Operable
    /\ ChangeSupply(MINT, amount)
    /\ trouble' = trouble \cup {p \in Runs : Running(p)}
    /\ UNCHANGED <<runs, network, before, accepted>>

\* The clock is counted from the first snapshot: what comes before looks at
\* no time.
Unclocked ==
    \/ registries[MINT] = NoAccount
    \/ \E q \in Runs : Running(q) /\ runs[q].ix.op \in {"mint", "register"}

\* What happens within seconds goes first: a status that is there is seen, a
\* deadline that has come fires.  The clock stops at its bound, timers do not.
Tick ==
    /\ \A p \in Runs : runs[p].phase = "confirming" =>
           runs[p].left > 0 /\ runs[p].status \in (IF runs[p].setup THEN {"unknown", "err"} ELSE {"unknown"})
    /\ \/ ~Unclocked /\ AdvanceClock
       \/ (Unclocked \/ now = MaxTime) /\ UNCHANGED programVars
    /\ network' = {[tx EXCEPT !.left = @ - 1] : tx \in {t \in network : t.left > 0}}
    /\ runs' = [p \in Runs |-> IF runs[p].phase = "confirming" THEN [runs[p] EXCEPT !.left = @ - 1] ELSE runs[p]]
    /\ trouble' = trouble
           \cup {tx.run : tx \in {t \in network : t.left = 0}}
           \cup {p \in Runs : Running(p) /\ runs[p].ix.op \in {"submit", "evaluate"} /\ now' >= runs[p].ix.expires_at}
    /\ UNCHANGED <<before, accepted>>

ScriptNext ==
    \/ \E p \in Runs, wallet \in Keys : RefuseWallet(p, wallet)
    \/ \E p \in Runs, wallet \in Keys : StartRefresh(p, wallet)
    \/ \E p \in Runs, wallet \in Keys : StartSetup(p, wallet)
    \/ \E p \in Runs, wallet \in Keys : RefuseSetup(p, wallet)
    \/ \E p \in Runs, wallet \in Keys, k \in Keys : StartRotation(p, wallet, k)
    \/ \E p \in Runs, wallet \in Keys : RefuseRotation(p, wallet)
    \/ \E p \in Runs : StartFails(p)
    \/ \E p \in Runs : SendFails(p)
    \/ \E p \in Runs : PreflightRejects(p)
    \/ \E p \in Runs : Send(p)
    \/ \E p \in Runs : SendUnanswered(p)
    \/ \E p \in Runs : Confirmed(p)
    \/ \E p \in Runs : Rejected(p)
    \/ \E p \in Runs : TimesOut(p)
    \/ \E p \in Runs : MintAgain(p)
    \/ \E p \in Runs : CheckSupply(p)
    \/ \E p \in Runs : ReadBack(p)
    \/ \E p \in Runs : ReadBackLags(p)
    \/ \E p \in Runs : CallFails(p)
    \/ \E tx \in network : LandsOk(tx)
    \/ \E tx \in network : LandsErr(tx)
    \/ \E amount \in Supplies : SupplyMoves(amount)
    \/ Tick

ScriptSpec == ScriptInit /\ [][ScriptNext]_scriptVars

\* What a run does next, when it is not waiting.
Proceeds(p) ==
    \/ SendFails(p) \/ PreflightRejects(p) \/ Send(p) \/ SendUnanswered(p)
    \/ Confirmed(p) \/ Rejected(p) \/ TimesOut(p) \/ MintAgain(p)
    \/ ReadBack(p) \/ CheckSupply(p)

\* The scripts' event loop goes on, every call settles, and time passes.  No
\* transaction is assumed to land, no call to succeed.
FairScriptSpec ==
    /\ ScriptSpec
    /\ WF_scriptVars(Tick)
    /\ \A p \in Runs : WF_scriptVars(Proceeds(p))

-----------------------------------------------------------------------------
(* Properties. *)

Instructions == [op : {"none", "mint", "register", "submit", "evaluate", "rotate"}, backing : Amounts,
                 expires_at : Timestamps, attestor : Keys \cup {DefaultKey}]

RunRecords ==
    [phase : {"idle", "sending", "confirming", "reading back", "checking supply", "done"},
     setup : BOOLEAN,
     ix : Instructions,
     attempt : 0 .. MaxSends,
     status : {"unknown", "ok", "err"},
     left : 0 .. CONFIRM_TIMEOUT,
     wallet : Keys \cup {DefaultKey},
     result : {"none", "refused", "no authority", "complete", "failed", "timed out", "mismatch"}]

Transactions == [run : Runs, attempt : 1 .. MaxSends, ix : Instructions, left : 0 .. BlockhashLife]

\* The shape of the state, and a run is over exactly when it has a result.
ScriptTypeOK ==
    /\ TypeOK
    /\ runs \in [Runs -> RunRecords]
    /\ network \subseteq Transactions
    /\ \A p \in Runs : Ended(p) <=> runs[p].result # "none"

\* However often a refresh is sent, and however many of its transactions are
\* delivered late after all, it leaves at most one snapshot behind.
OneSnapshotPerRun ==
    Cardinality({key \in SnapshotKeys : Exists(key)}) <=
        Cardinality({p \in Runs : runs[p].ix.op \in {"submit", "evaluate"}})

\* "REFRESH COMPLETE" is true: the snapshot is on the chain, and the program
\* executed an evaluation of it and said Ok, not only the preflight of one.
CompleteMeansAccepted ==
    \A p \in Runs : runs[p].result = "complete" /\ runs[p].ix.op = "evaluate" =>
        Exists(SnapshotPda(MINT, p)) /\ p \in accepted

\* No late duplicate of a run that was over brings its snapshot back over one
\* of a run that began afterwards.
SnapshotsInOrder ==
    \A a, b \in Runs : <<a, b>> \in before /\ Exists(SnapshotPda(MINT, b)) =>
        registries[MINT].latest_snapshot # SnapshotPda(MINT, a)

\* After a complete rotation the attestor is the one it asked for, or one that
\* another rotation did, which was not over when it began.  A rotation, unlike
\* a snapshot, can be executed twice: this takes earlier ones that were sent
\* once.
RotationsInOrder ==
    \A b \in Runs : runs[b].ix.op = "rotate" /\ runs[b].result = "complete" =>
        \E c \in Runs : /\ runs[c].ix.op = "rotate"
                        /\ registries[MINT].attestor = runs[c].ix.attestor
                        /\ <<c, b>> \in before => runs[c].attempt > 1

\* An operator who waits for a run to complete or to time out before starting
\* the next has their order kept by the chain.
RunsStayInOrder == SnapshotsInOrder /\ RotationsInOrder

\* A run never fails for nothing: a call or a transaction was lost, a node
\* lagged, the supply moved, another run's transaction came in between, the
\* snapshot expired, or the wallet was no longer the attestor.
FailureHasCause ==
    \A p \in Runs : runs[p].result \in {"failed", "timed out", "mismatch"} => p \in trouble

\* refresh-snapshot.ts turns a wallet away with "Wallet is not the registered
\* Backstop attestor": then it is not.
RefusedIsNotAttestor ==
    [][\A p \in Runs : runs'[p].result = "refused" /\ runs[p].result # "refused" =>
           runs'[p].wallet # registries[MINT].attestor]_scriptVars

\* Every run of a script ends, whatever the network does.
RunsEnd == \A p \in Runs : Started(p) ~> Ended(p)
=============================================================================
