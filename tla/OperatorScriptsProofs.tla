------------------------ MODULE OperatorScriptsProofs ------------------------
(***************************************************************************)
(* Theorems about the scripts that write, for any number of runs and sends, *)
(* any amounts, lifetimes and deadlines, and a network that loses, delays   *)
(* and repeats as it likes.                                                 *)
(*                                                                          *)
(* The invariant is a statement about each run, over its local variables,   *)
(* its own transactions and the chain, plus the little that relates runs to *)
(* each other.  A step of one run leaves the statements about the others    *)
(* alone, except that what it lands may be the others' trouble.             *)
(***************************************************************************)
EXTENDS OperatorScripts, BackstopProgramProofs, FiniteSetTheorems

MyPda(p) == SnapshotPda(MINT, p)

\* The local variables of a run agree with where it is in its script.
RunInv(p) ==
    LET run == runs[p] IN
    /\ run.phase = "idle" => run.ix.op = "none"
    /\ Running(p) => run.ix.op # "none"
    /\ run.status # "unknown" => run.phase = "confirming"
    /\ run.phase \in {"sending", "confirming"} => run.attempt >= 1
    /\ run.phase = "checking supply" => run.ix.op = "mint" /\ run.attempt = 0
    /\ run.phase = "reading back" => run.ix.op = "rotate"
    /\ run.ix.op = "mint" => run.ix = MintIx \/ run.phase = "done"
    /\ run.ix.op = "register" => run.ix.attestor = BACKSTOP_ADMIN
    /\ run.ix.op = "rotate" => run.ix = RotateIx(run.ix.attestor) /\ run.ix.attestor \in Keys /\ run.attempt >= 1
    /\ run.result = "complete" => run.ix.op \in {"evaluate", "rotate"}

\* What a run may have sent when it is busy with an instruction.
Earlier(op) ==
    CASE op = "mint"     -> {"mint"}
      [] op = "register" -> {"mint", "register"}
      [] op = "submit"   -> {"mint", "register", "submit"}
      [] op = "evaluate" -> {"mint", "register", "submit", "evaluate"}
      [] op = "rotate"   -> {"rotate"}
      [] OTHER           -> {}

SentOnce(p) == runs[p].attempt = 1

\* A transaction is of an attempt of its run's, expires before the run gives
\* up on the latest one, and is the latest one only while the run waits for it.
SentInv(p) ==
    /\ \A tx \in network : tx.run = p =>
           /\ tx.ix.op \in Earlier(runs[p].ix.op)
           /\ tx.ix.op = "register" => tx.ix.attestor = BACKSTOP_ADMIN
           /\ tx.ix.op = "rotate" => tx.ix = runs[p].ix /\ tx.attempt <= runs[p].attempt
           /\ Running(p) /\ tx.ix.op = runs[p].ix.op /\ runs[p].phase # "checking supply" =>
                  tx.ix = runs[p].ix /\ tx.attempt <= runs[p].attempt
           /\ runs[p].phase = "confirming" => tx.left < runs[p].left
           /\ Running(p) /\ tx.ix = runs[p].ix /\ tx.attempt = runs[p].attempt =>
                  runs[p].phase = "confirming" /\ runs[p].status = "unknown"
           /\ runs[p].result # "timed out"
           /\ ~(runs[p].result = "complete" /\ runs[p].ix.op = "rotate" /\ SentOnce(p))
    /\ \A tx, other \in network : Awaits(p, tx) /\ Awaits(p, other) => tx = other

\* A run goes on only after what it sent was executed.
DoneInv(p) ==
    /\ runs[p].ix.op = "evaluate" \/ (runs[p].ix.op = "submit" /\ runs[p].status = "ok") => Exists(MyPda(p))
    /\ runs[p].ix.op = "evaluate" /\ (runs[p].status = "ok" \/ runs[p].result = "complete") => p \in accepted
    /\ runs[p].ix.op = "rotate" => registries[MINT] # NoAccount

Attested(p) ==
    /\ Exists(MyPda(p))
    /\ registries[MINT].has_snapshot = TRUE
    /\ registries[MINT].latest_snapshot = MyPda(p)
    /\ snapshots[MyPda(p)].status = "Verified"
    /\ snapshots[MyPda(p)].attested_backing = runs[p].ix.backing
    /\ snapshots[MyPda(p)].expires_at = runs[p].ix.expires_at

\* What the run is busy with was executed.
Landed(p) == runs[p].status = "ok" \/ runs[p].phase \in {"reading back", "checking supply"}

\* The chain as an untroubled run expects it.
Expected(p) ==
    LET ix == runs[p].ix IN
    \/ /\ ix.op = "mint"
       /\ registries[MINT] = NoAccount
       /\ supply[MINT] = IF Landed(p) THEN SetupAmount ELSE 0
    \/ /\ ix.op = "register"
       /\ IF Landed(p) THEN registries[MINT] # NoAccount /\ registries[MINT].attestor = BACKSTOP_ADMIN
                       ELSE registries[MINT] = NoAccount
       /\ supply[MINT] = SetupAmount
    \/ /\ ix.op = "submit"
       /\ registries[MINT] # NoAccount /\ registries[MINT].attestor = BACKSTOP_ADMIN
       /\ supply[MINT] = ix.backing
       /\ now < ix.expires_at /\ ix.expires_at <= now + MAX_SNAPSHOT_VALIDITY_SECS
       /\ IF Landed(p) THEN Attested(p) ELSE ~Exists(MyPda(p))
    \/ /\ ix.op = "evaluate"
       /\ registries[MINT] # NoAccount
       /\ supply[MINT] = ix.backing
       /\ now < ix.expires_at
       /\ Attested(p)
    \/ /\ ix.op = "rotate"
       /\ registries[MINT] # NoAccount
       /\ Landed(p) => registries[MINT].attestor = ix.attestor

\* A run without trouble waits for the only transaction it has in the network,
\* which will succeed.
CauseInv(p) ==
    p \notin trouble =>
        /\ runs[p].result \notin {"failed", "timed out", "mismatch"}
        /\ runs[p].status # "err"
        /\ Running(p) =>
               /\ \A tx \in network : tx.run = p => Awaits(p, tx)
               /\ runs[p].phase = "confirming" => runs[p].left > 0
               /\ runs[p].phase = "confirming" /\ runs[p].status = "unknown" => \E tx \in network : Awaits(p, tx)
               /\ Expected(p)

RunsInv == \A p \in Runs : RunInv(p) /\ SentInv(p) /\ DoneInv(p) /\ CauseInv(p)

\* Who made the snapshots.
AuthorsInv ==
    \A key \in SnapshotKeys : Exists(key) =>
        key[1] = MINT /\ key[2] \in Runs /\ runs[key[2]].ix.op \in {"submit", "evaluate"}

\* The setup starts from nothing, and time is counted from its first snapshot.
SetupInv ==
    /\ Unclocked => now = 0
    /\ registries[MINT] = NoAccount /\ (\A p \in Runs : ~Started(p)) => supply[MINT] = 0

\* The runs an operator waited for have nothing left to land.
BeforeInv ==
    \A a, b \in Runs : <<a, b>> \in before => runs[a].result \in {"complete", "timed out"} /\ Started(b)

FinitelyManyStarted == IsFiniteSet({p \in Runs : Started(p)})

ScriptInv ==
    /\ Inv
    /\ ScriptTypeOK
    /\ RunsInv
    /\ AuthorsInv
    /\ SetupInv
    /\ BeforeInv
    /\ FinitelyManyStarted
    /\ RunsStayInOrder

-----------------------------------------------------------------------------
(* The records. *)

LEMMA Parameters ==
    /\ MINT \in Mints /\ BACKSTOP_ADMIN \in Keys
    /\ Runs \subseteq SnapshotIds
    /\ MaxSends \in Nat /\ MaxSends >= 1 /\ MaxSupply \in Nat /\ MaxTime \in Nat
    /\ SetupAmount \in Nat /\ SetupAmount \in Amounts
    /\ BlockhashLife \in Nat /\ CONFIRM_TIMEOUT \in Nat /\ BlockhashLife < CONFIRM_TIMEOUT
    /\ SNAPSHOT_VALIDITY \in Nat /\ SNAPSHOT_VALIDITY >= 1
    /\ SNAPSHOT_VALIDITY <= MaxTime /\ SNAPSHOT_VALIDITY <= MAX_SNAPSHOT_VALIDITY_SECS
    /\ MAX_SNAPSHOT_VALIDITY_SECS \in Nat
  BY ScriptAssumption, BoundAssumption, KeyAssumption DEF Amounts

LEMMA NatReflexive == \A n \in Nat : n <= n
  OBVIOUS

LEMMA ZeroIsLeast == ~(0 > 0) /\ \A n \in Nat : ~(n < 0)
  OBVIOUS

LEMMA OneIsPositive == 1 >= 1
  OBVIOUS

LEMMA Zeros == 0 \in Amounts /\ 0 \in Timestamps /\ 0 \in 0 .. MaxSends /\ 0 \in 0 .. CONFIRM_TIMEOUT
  BY Parameters DEF Amounts, Timestamps

LEMMA InstructionTypes ==
    /\ NoIx \in Instructions /\ NoIx.op = "none"
    /\ MintIx \in Instructions /\ MintIx.op = "mint"
    /\ RegisterIx \in Instructions /\ RegisterIx.op = "register" /\ RegisterIx.attestor = BACKSTOP_ADMIN
    /\ \A b \in Amounts, e \in Timestamps :
           /\ SubmitIx(b, e) \in Instructions /\ SubmitIx(b, e).op = "submit"
           /\ SubmitIx(b, e).backing = b /\ SubmitIx(b, e).expires_at = e
    /\ \A k \in Keys :
           /\ RotateIx(k) \in Instructions /\ RotateIx(k).op = "rotate" /\ RotateIx(k).attestor = k
           /\ RotateIx(k).backing = 0 /\ RotateIx(k).expires_at = 0
  <1>1. 0 \in Amounts /\ 0 \in Timestamps /\ BACKSTOP_ADMIN \in Keys
    BY BoundAssumption, KeyAssumption DEF Amounts, Timestamps
  <1> QED BY <1>1 DEF NoIx, MintIx, RegisterIx, SubmitIx, RotateIx, Instructions

LEMMA EvaluateIxType ==
    ASSUME NEW ix \in Instructions
    PROVE  /\ EvaluateIx(ix) \in Instructions /\ EvaluateIx(ix).op = "evaluate"
           /\ EvaluateIx(ix).backing = ix.backing /\ EvaluateIx(ix).expires_at = ix.expires_at
  BY DEF EvaluateIx, Instructions

LEMMA IdleRunType ==
    /\ IdleRun \in RunRecords
    /\ IdleRun.phase = "idle" /\ IdleRun.setup = FALSE /\ IdleRun.ix = NoIx /\ IdleRun.attempt = 0
    /\ IdleRun.status = "unknown" /\ IdleRun.left = 0 /\ IdleRun.result = "none"
  <1>1. NoIx \in Instructions /\ 0 \in 0 .. MaxSends /\ 0 \in 0 .. CONFIRM_TIMEOUT
    BY InstructionTypes, ScriptAssumption
  <1> QED BY <1>1 DEF IdleRun, RunRecords

\* A run that is about to send.
LEMMA SendingType ==
    ASSUME NEW ix \in Instructions
    PROVE  /\ Sending(ix) \in RunRecords
           /\ Sending(ix).phase = "sending" /\ Sending(ix).ix = ix /\ Sending(ix).attempt = 1
           /\ Sending(ix).status = "unknown" /\ Sending(ix).left = 0 /\ Sending(ix).result = "none"
  <1>1. 1 \in 0 .. MaxSends
    BY ScriptAssumption
  <1> QED BY <1>1, IdleRunType DEF Sending, RunRecords

LEMMA SettingUpType ==
    ASSUME NEW ix \in Instructions
    PROVE  /\ SettingUpBy(ix) \in RunRecords
           /\ SettingUpBy(ix).phase = "sending" /\ SettingUpBy(ix).ix = ix /\ SettingUpBy(ix).attempt = 1
           /\ SettingUpBy(ix).status = "unknown" /\ SettingUpBy(ix).left = 0 /\ SettingUpBy(ix).result = "none"
  <1> DEFINE r == Sending(ix)
  <1>1. r \in RunRecords
    BY SendingType
  <1>2. SettingUpBy(ix) = [r EXCEPT !.setup = TRUE]
    BY DEF SettingUpBy
  <1> HIDE DEF r
  <1>3. /\ SettingUpBy(ix) \in RunRecords
        /\ SettingUpBy(ix).phase = r.phase /\ SettingUpBy(ix).ix = r.ix /\ SettingUpBy(ix).attempt = r.attempt
        /\ SettingUpBy(ix).status = r.status /\ SettingUpBy(ix).left = r.left /\ SettingUpBy(ix).result = r.result
    BY <1>1, <1>2 DEF RunRecords
  <1> QED BY <1>3, SendingType DEF r

\* What is left of a run that is over.
LEMMA RunEndedType ==
    ASSUME NEW p \in Runs, runs[p] \in RunRecords,
           NEW result \in {"complete", "failed", "timed out", "mismatch"}
    PROVE  /\ RunEnded(p, result) \in RunRecords
           /\ RunEnded(p, result).phase = "done" /\ RunEnded(p, result).result = result
           /\ RunEnded(p, result).status = "unknown"
           /\ RunEnded(p, result).ix.op = runs[p].ix.op
           /\ RunEnded(p, result).ix.attestor = runs[p].ix.attestor
           /\ runs[p].ix.op = "rotate" => RunEnded(p, result).attempt = runs[p].attempt
           /\ runs[p].ix = RotateIx(runs[p].ix.attestor) /\ runs[p].ix.attestor \in Keys =>
                  RunEnded(p, result).ix = runs[p].ix
  <1> DEFINE ix == [runs[p].ix EXCEPT !.backing = 0, !.expires_at = 0]
  <1>1. 0 \in Amounts /\ 0 \in Timestamps /\ 0 \in 0 .. MaxSends
    BY Zeros
  <1>2. runs[p].ix \in Instructions /\ runs[p].attempt \in 0 .. MaxSends /\ runs[p].setup \in BOOLEAN
    BY DEF RunRecords
  <1>3. /\ ix \in Instructions /\ ix.op = runs[p].ix.op /\ ix.attestor = runs[p].ix.attestor
        /\ runs[p].ix.backing = 0 /\ runs[p].ix.expires_at = 0 => ix = runs[p].ix
    BY <1>1, <1>2 DEF Instructions
  <1>4. ASSUME runs[p].ix = RotateIx(runs[p].ix.attestor), runs[p].ix.attestor \in Keys
        PROVE  ix = runs[p].ix
    <2>1. RotateIx(runs[p].ix.attestor).backing = 0 /\ RotateIx(runs[p].ix.attestor).expires_at = 0
      BY <1>4, InstructionTypes
    <2>2. runs[p].ix.backing = 0 /\ runs[p].ix.expires_at = 0
      BY <1>4, <2>1, Zenon
    <2> QED BY <1>3, <2>2
  <1>5. /\ RunEnded(p, result).phase = "done" /\ RunEnded(p, result).result = result
        /\ RunEnded(p, result).status = "unknown"
        /\ RunEnded(p, result).ix = ix
        /\ runs[p].ix.op = "rotate" => RunEnded(p, result).attempt = runs[p].attempt
    BY IdleRunType DEF RunEnded, RunRecords
  <1> HIDE DEF ix
  <1>6. RunEnded(p, result) \in RunRecords
    <2>1. PICK first \in RunRecords : first = [IdleRun EXCEPT !.phase = "done", !.setup = runs[p].setup,
                                                            !.result = result]
      BY <1>2, IdleRunType DEF RunRecords
    <2>2. PICK attempt \in 0 .. MaxSends : attempt = IF runs[p].ix.op = "rotate" THEN runs[p].attempt ELSE 0
      BY <1>1, <1>2
    <2>3. RunEnded(p, result) = [first EXCEPT !.attempt = attempt, !.ix = ix]
      BY <2>1, <2>2 DEF RunEnded, ix
    <2> QED BY <1>3, <2>3 DEF RunRecords
  <1> QED BY <1>3, <1>4, <1>5, <1>6

LEMMA RetryType ==
    ASSUME NEW p \in Runs, runs[p] \in RunRecords, ~Exhausted(p)
    PROVE  /\ [runs[p] EXCEPT !.attempt = @ + 1] \in RunRecords
           /\ [runs[p] EXCEPT !.attempt = @ + 1].phase = runs[p].phase
           /\ [runs[p] EXCEPT !.attempt = @ + 1].ix = runs[p].ix
           /\ [runs[p] EXCEPT !.attempt = @ + 1].attempt = runs[p].attempt + 1
           /\ [runs[p] EXCEPT !.attempt = @ + 1].status = runs[p].status
           /\ [runs[p] EXCEPT !.attempt = @ + 1].left = runs[p].left
           /\ [runs[p] EXCEPT !.attempt = @ + 1].result = runs[p].result
  <1>1. runs[p].attempt \in 0 .. MaxSends /\ runs[p].attempt # MaxSends
    BY DEF RunRecords, Exhausted
  <1>2. runs[p].attempt + 1 \in 0 .. MaxSends
    BY <1>1, Parameters
  <1> QED BY <1>2 DEF RunRecords

\* A transaction of p's is what p is busy with.
LEMMA TransactionType ==
    ASSUME NEW p \in Runs, runs[p] \in RunRecords, runs[p].attempt >= 1
    PROVE  /\ Transaction(p) \in Transactions
           /\ Transaction(p).run = p /\ Transaction(p).ix = runs[p].ix
           /\ Transaction(p).attempt = runs[p].attempt /\ Transaction(p).left = BlockhashLife
  <1>1. runs[p].attempt \in 0 .. MaxSends
    BY DEF RunRecords
  <1>2. runs[p].attempt \in 1 .. MaxSends /\ BlockhashLife \in 0 .. BlockhashLife
    BY <1>1, Parameters
  <1> QED BY <1>2 DEF Transaction, Transactions, RunRecords

-----------------------------------------------------------------------------
(* What a step of one run leaves alone. *)

LEMMA SameRun ==
    ASSUME NEW q \in Runs, RunInv(q), SentInv(q), runs'[q] = runs[q],
           \A tx \in network' : tx.run = q => tx \in network
    PROVE  RunInv(q)' /\ SentInv(q)'
  <1>1. RunInv(q)'
    BY DEF RunInv, Running, Started, Ended
  <1>2. SentInv(q)'
    BY DEF SentInv, Running, Started, Ended, Awaits, SentOnce
  <1> QED BY <1>1, <1>2

LEMMA SameDone ==
    ASSUME NEW q \in Runs, DoneInv(q), runs'[q] = runs[q],
           Exists(MyPda(q)) => Exists(MyPda(q))', accepted \subseteq accepted',
           registries[MINT] # NoAccount => registries'[MINT] # NoAccount
    PROVE  DoneInv(q)'
  BY DEF DoneInv, MyPda

LEMMA SameCause ==
    ASSUME NEW q \in Runs, CauseInv(q), runs'[q] = runs[q],
           UNCHANGED programVars, trouble \subseteq trouble',
           \A tx \in network \cup network' : tx.run = q => (tx \in network <=> tx \in network')
    PROVE  CauseInv(q)'
  <1>1. CASE q \in trouble
    BY <1>1 DEF CauseInv
  <1>2. CASE q \notin trouble
    <2>1. Expected(q) => Expected(q)'
      BY DEF Expected, Landed, Attested, MyPda, Exists, programVars
    <2>2. Running(q)' <=> Running(q)
      BY DEF Running, Started, Ended
    <2>3. \A tx : Awaits(q, tx)' <=> Awaits(q, tx)
      BY DEF Awaits
    <2>4. \A tx : Awaits(q, tx) => tx.run = q
      BY DEF Awaits
    <2>5. Running(q) => /\ \A tx \in network' : tx.run = q => Awaits(q, tx)'
                        /\ (\E tx \in network : Awaits(q, tx)) => \E tx \in network' : Awaits(q, tx)'
      BY <1>2, <2>3, <2>4 DEF CauseInv
    <2> QED BY <1>2, <2>1, <2>2, <2>5 DEF CauseInv
  <1> QED BY <1>1, <1>2

\* A run that is not over has no result yet.
LEMMA RunningHasNoResult ==
    ASSUME ScriptTypeOK, NEW p \in Runs, Running(p)
    PROVE  runs[p].result = "none" /\ runs[p].phase # "idle" /\ runs[p].phase # "done"
  BY DEF ScriptTypeOK, Running, Started, Ended

\* One run moves on, the chain does not.
LEMMA LocalStep ==
    ASSUME ScriptInv, NEW p \in Runs, NEW r \in RunRecords,
           Running(p), runs' = [runs EXCEPT ![p] = r],
           UNCHANGED <<programVars, before, accepted>>, trouble \subseteq trouble',
           network' \subseteq Transactions,
           \A tx \in network \cup network' : tx.run # p => (tx \in network <=> tx \in network'),
           r.phase # "idle", r.phase = "done" <=> r.result # "none",
           runs[p].ix.op \in {"submit", "evaluate"} => r.ix.op \in {"submit", "evaluate"},
           r.phase # "done" /\ r.ix.op \in {"mint", "register"} => runs[p].ix.op \in {"mint", "register"},
           runs[p].ix.op = "rotate" => r.ix = runs[p].ix,
           r.ix.op = "rotate" /\ r.result = "complete" => registries[MINT].attestor = r.ix.attestor,
           RunInv(p)', SentInv(p)', DoneInv(p)', CauseInv(p)'
    PROVE  ScriptInv'
  <1>1. runs'[p] = r /\ \A q \in Runs \ {p} : runs'[q] = runs[q]
    BY DEF ScriptInv, ScriptTypeOK
  <1>2. /\ registries' = registries /\ snapshots' = snapshots /\ supply' = supply /\ now' = now
        /\ outcome' = outcome /\ before' = before
    BY DEF programVars
  <1>3. Inv'
    BY <1>2, InvStep DEF ScriptInv, vars
  <1>4. ScriptTypeOK'
    <2>1. runs' \in [Runs -> RunRecords]
      BY DEF ScriptInv, ScriptTypeOK
    <2>2. \A q \in Runs : Ended(q)' <=> runs'[q].result # "none"
      BY <1>1 DEF ScriptInv, ScriptTypeOK, Ended
    <2>3. TypeOK'
      BY <1>3 DEF Inv
    <2> QED BY <2>1, <2>2, <2>3 DEF ScriptTypeOK
  <1>5. RunsInv'
    <2>1. ASSUME NEW q \in Runs, q # p
          PROVE  RunInv(q)' /\ SentInv(q)' /\ DoneInv(q)' /\ CauseInv(q)'
      <3>1. RunInv(q) /\ SentInv(q) /\ DoneInv(q) /\ CauseInv(q) /\ runs'[q] = runs[q]
        BY <1>1, <2>1 DEF ScriptInv, RunsInv
      <3>2. RunInv(q)' /\ SentInv(q)'
        BY <2>1, <3>1, SameRun
      <3>3. DoneInv(q)'
        BY <1>2, <3>1, SameDone DEF Exists, MyPda
      <3>4. CauseInv(q)'
        BY <2>1, <3>1, SameCause
      <3> QED BY <3>2, <3>3, <3>4
    <2> QED BY <2>1 DEF RunsInv
  <1>6. \A q \in Runs : Started(q)' <=> Started(q)
    BY <1>1 DEF Started, Running
  <1>7. AuthorsInv'
    BY <1>1, <1>2 DEF ScriptInv, AuthorsInv, Exists
  <1>8. SetupInv'
    <2>1. Unclocked' => Unclocked
      BY <1>1, <1>2 DEF Unclocked, Running, Started, Ended
    <2> QED BY <1>2, <1>6, <2>1 DEF ScriptInv, SetupInv
  <1>9. BeforeInv'
    BY <1>1, <1>2, <1>6, RunningHasNoResult DEF ScriptInv, BeforeInv
  <1>10. FinitelyManyStarted'
    BY <1>6 DEF ScriptInv, FinitelyManyStarted
  <1>11. RunsStayInOrder'
    <2>1. ASSUME NEW b \in Runs, runs'[b].ix.op = "rotate", runs'[b].result = "complete"
          PROVE  \E c \in Runs : /\ runs'[c].ix.op = "rotate"
                                 /\ registries[MINT].attestor = runs'[c].ix.attestor
                                 /\ <<c, b>> \in before => runs'[c].attempt > 1
      <3>1. \A c \in Runs : <<p, c>> \notin before
        BY RunningHasNoResult DEF ScriptInv, BeforeInv
      <3>2. CASE b = p
        BY <1>1, <2>1, <3>1, <3>2
      <3>3. CASE b # p
        <4>1. PICK c \in Runs : /\ runs[c].ix.op = "rotate"
                                /\ registries[MINT].attestor = runs[c].ix.attestor
                                /\ <<c, b>> \in before => runs[c].attempt > 1
          BY <1>1, <2>1, <3>3 DEF ScriptInv, RunsStayInOrder, SnapshotsInOrder, RotationsInOrder
        <4> QED BY <1>1, <3>1, <4>1
      <3> QED BY <3>2, <3>3
    <2> QED BY <1>2, <2>1 DEF ScriptInv, RunsStayInOrder, SnapshotsInOrder, RotationsInOrder, Exists
  <1> QED BY <1>3, <1>4, <1>5, <1>7, <1>8, <1>9, <1>10, <1>11 DEF ScriptInv

\* A run begins.
LEMMA BeginStep ==
    ASSUME ScriptInv, NEW p \in Runs, NEW r \in RunRecords,
           Begin(p, r), trouble \subseteq trouble',
           r.phase # "idle", r.phase = "done" <=> r.result # "none", r.phase \in {"sending", "done"},
           r.status = "unknown", r.phase = "sending" => r.attempt >= 1,
           r.result \notin {"complete", "timed out"},
           r.result \in {"failed", "mismatch"} => p \in trouble',
           \/ r.phase = "done" /\ r.ix.op = "none"
           \/ r.phase = "sending" /\ r.ix = MintIx /\ registries[MINT] = NoAccount
           \/ r.phase = "sending" /\ r.ix.op = "submit"
           \/ \E k \in Keys : r.phase = "sending" /\ r.ix = RotateIx(k) /\ registries[MINT] # NoAccount,
           r.phase = "sending" => p \in trouble' \/ Expected(p)'
    PROVE  ScriptInv'
  <1>1. /\ runs[p].phase = "idle" /\ runs' = [runs EXCEPT ![p] = r]
        /\ before' = before \cup {<<q, p>> : q \in {s \in Runs : runs[s].result \in {"complete", "timed out"}}}
        /\ UNCHANGED <<programVars, network, accepted>>
    BY DEF Begin
  <1>2. runs'[p] = r /\ \A q \in Runs \ {p} : runs'[q] = runs[q]
    BY <1>1 DEF ScriptInv, ScriptTypeOK
  <1>3. /\ registries' = registries /\ snapshots' = snapshots /\ supply' = supply /\ now' = now
        /\ outcome' = outcome /\ network' = network /\ accepted' = accepted
    BY <1>1 DEF programVars
  <1>4. runs[p].ix.op = "none" /\ runs[p].result = "none" /\ \A tx \in network : tx.run # p
    <2>1. RunInv(p) /\ SentInv(p)
      BY DEF ScriptInv, RunsInv
    <2>2. runs[p].ix.op = "none"
      BY <1>1, <2>1 DEF RunInv
    <2>3. runs[p].result = "none"
      BY <1>1 DEF ScriptInv, ScriptTypeOK, Ended
    <2> QED BY <2>1, <2>2, <2>3 DEF SentInv, Earlier
  <1>5. Inv'
    BY <1>3, InvStep DEF ScriptInv, vars
  <1>6. ScriptTypeOK'
    <2>1. runs' \in [Runs -> RunRecords]
      BY <1>1 DEF ScriptInv, ScriptTypeOK
    <2>2. \A q \in Runs : Ended(q)' <=> runs'[q].result # "none"
      BY <1>2 DEF ScriptInv, ScriptTypeOK, Ended
    <2>3. TypeOK' /\ network' \subseteq Transactions
      BY <1>3, <1>5 DEF Inv, ScriptInv, ScriptTypeOK
    <2> QED BY <2>1, <2>2, <2>3 DEF ScriptTypeOK
  <1>7. RunsInv'
    <2>1. ASSUME NEW q \in Runs, q # p
          PROVE  RunInv(q)' /\ SentInv(q)' /\ DoneInv(q)' /\ CauseInv(q)'
      <3>1. RunInv(q) /\ SentInv(q) /\ DoneInv(q) /\ CauseInv(q) /\ runs'[q] = runs[q]
        BY <1>2, <2>1 DEF ScriptInv, RunsInv
      <3>2. RunInv(q)' /\ SentInv(q)'
        BY <1>3, <3>1, SameRun
      <3>3. DoneInv(q)'
        BY <1>3, <3>1, SameDone DEF Exists, MyPda
      <3>4. CauseInv(q)'
        BY <1>1, <1>3, <3>1, SameCause
      <3> QED BY <3>2, <3>3, <3>4
    <2>2. RunInv(p)'
      <3>1. CASE r.phase = "done" /\ r.ix.op = "none"
        BY <1>2, <3>1 DEF RunInv, Running, Started, Ended
      <3>2. CASE r.phase = "sending" /\ ((r.ix.op = "mint" /\ r.ix = MintIx) \/ r.ix.op = "submit")
        BY <1>2, <3>2 DEF RunInv, Running, Started, Ended
      <3>3. CASE \E k \in Keys : r.phase = "sending" /\ r.ix = RotateIx(k) /\ registries[MINT] # NoAccount
        <4>1. PICK k \in Keys : r.phase = "sending" /\ r.ix = RotateIx(k)
          BY <3>3
        <4>2. r.ix.op = "rotate" /\ r.ix.attestor = k
          <5>1. RotateIx(k).op = "rotate" /\ RotateIx(k).attestor = k
            BY InstructionTypes
          <5> QED BY <4>1, <5>1
        <4>3. r.ix = RotateIx(r.ix.attestor) /\ r.ix.attestor \in Keys
          BY <4>1, <4>2
        <4> QED BY <1>2, <4>1, <4>2, <4>3 DEF RunInv, Running, Started, Ended
      <3> QED BY <3>1, <3>2, <3>3, InstructionTypes
    <2>3. SentInv(p)'
      BY <1>2, <1>3, <1>4 DEF SentInv, Awaits
    <2>4. DoneInv(p)'
      BY <1>2, <1>3, InstructionTypes DEF DoneInv
    <2>5. CauseInv(p)'
      BY <1>2, <1>3, <1>4 DEF CauseInv, Running, Started, Ended
    <2> QED BY <2>1, <2>2, <2>3, <2>4, <2>5 DEF RunsInv
  <1>8. AuthorsInv'
    BY <1>2, <1>3, <1>4 DEF ScriptInv, AuthorsInv, Exists
  <1>9. SetupInv'
    <2>1. r.phase # "done" /\ r.ix.op \in {"mint", "register"} => registries[MINT] = NoAccount
      BY InstructionTypes
    <2>2. Unclocked' => Unclocked
      BY <1>2, <1>3, <2>1 DEF Unclocked, Running, Started, Ended
    <2>3. Started(p)'
      BY <1>2 DEF Started
    <2> QED BY <1>3, <2>2, <2>3 DEF ScriptInv, SetupInv
  <1>10. BeforeInv'
    <2>1. ASSUME NEW a \in Runs, NEW b \in Runs, <<a, b>> \in before'
          PROVE  runs'[a].result \in {"complete", "timed out"} /\ Started(b)'
      <3>1. CASE <<a, b>> \in before
        <4>1. runs[a].result \in {"complete", "timed out"} /\ Started(b)
          BY <3>1 DEF ScriptInv, BeforeInv
        <4>2. a # p /\ b # p
          BY <1>1, <1>4, <4>1 DEF Started
        <4> QED BY <1>2, <4>1, <4>2 DEF Started
      <3>2. CASE <<a, b>> \notin before
        <4>1. b = p /\ runs[a].result \in {"complete", "timed out"}
          BY <1>1, <2>1, <3>2
        <4> QED BY <1>2, <1>4, <4>1 DEF Started
      <3> QED BY <3>1, <3>2
    <2> QED BY <2>1 DEF BeforeInv
  <1>11. FinitelyManyStarted'
    <2> DEFINE S == {q \in Runs : Started(q)}
    <2> DEFINE T == {q \in Runs : runs'[q].phase # "idle"}
    <2>1. IsFiniteSet(S)
      BY DEF ScriptInv, FinitelyManyStarted
    <2>2. T = S \cup {p}
      BY <1>2 DEF Started
    <2> HIDE DEF S, T
    <2>3. IsFiniteSet(T)
      BY <2>1, <2>2, FS_AddElement
    <2> QED BY <2>3 DEF FinitelyManyStarted, Started, T
  <1>12. RunsStayInOrder'
    <2>1. ~Exists(MyPda(p))
      <3>1. MyPda(p) \in SnapshotKeys /\ MyPda(p)[2] = p
        BY Parameters DEF MyPda, SnapshotPda, SnapshotKeys
      <3> QED BY <1>4, <3>1 DEF ScriptInv, AuthorsInv
    <2>2. \A a, b \in Runs : b # p => (<<a, b>> \in before' <=> <<a, b>> \in before)
      BY <1>1
    <2>3. \A a, b \in Runs : <<a, b>> \in before' /\ Exists(SnapshotPda(MINT, b)) =>
              registries[MINT].latest_snapshot # SnapshotPda(MINT, a)
      BY <2>1, <2>2 DEF ScriptInv, RunsStayInOrder, SnapshotsInOrder, RotationsInOrder, MyPda
    <2>4. ASSUME NEW b \in Runs, runs'[b].ix.op = "rotate", runs'[b].result = "complete"
          PROVE  \E c \in Runs : /\ runs'[c].ix.op = "rotate"
                                 /\ registries[MINT].attestor = runs'[c].ix.attestor
                                 /\ <<c, b>> \in before' => runs'[c].attempt > 1
      <3>1. b # p
        BY <1>2, <2>4
      <3>2. PICK c \in Runs : /\ runs[c].ix.op = "rotate"
                              /\ registries[MINT].attestor = runs[c].ix.attestor
                              /\ <<c, b>> \in before => runs[c].attempt > 1
        BY <1>2, <2>4, <3>1 DEF ScriptInv, RunsStayInOrder, SnapshotsInOrder, RotationsInOrder
      <3>3. c # p
        BY <1>4, <3>2
      <3> QED BY <1>2, <2>2, <3>1, <3>2, <3>3
    <2> QED BY <1>3, <2>3, <2>4 DEF RunsStayInOrder, SnapshotsInOrder, RotationsInOrder, Exists
  <1> QED BY <1>5, <1>6, <1>7, <1>8, <1>9, <1>10, <1>11, <1>12 DEF ScriptInv

-----------------------------------------------------------------------------
(* Transactions of untroubled runs. *)

\* What an untroubled run sends would be executed, until it has been.
LEMMA UntroubledSucceeds ==
    ASSUME ScriptInv, NEW p \in Runs, p \notin trouble, Running(p),
           NEW tx, tx.run = p, tx.ix = runs[p].ix, ~Landed(p)
    PROVE  Succeeds(tx)
  <1>1. Expected(p) /\ Inv /\ TypeOK
    BY DEF ScriptInv, RunsInv, CauseInv, Inv
  <1>2. IdOf(tx) = p /\ MINT \in Mints
    BY Parameters DEF IdOf
  <1>3. CASE runs[p].ix.op = "mint"
    <2>1. supply[MINT] = 0
      BY <1>1, <1>3 DEF Expected
    <2>2. SetupAmount \in Nat /\ SetupAmount <= MaxSupply
      BY Parameters DEF Amounts
    <2> QED BY <1>3, <2>1, <2>2 DEF Succeeds
  <1>4. CASE runs[p].ix.op = "register"
    BY <1>1, <1>4 DEF Expected, Succeeds
  <1>5. CASE runs[p].ix.op = "submit"
    <2>1. /\ now < runs[p].ix.expires_at /\ runs[p].ix.expires_at <= now + MAX_SNAPSHOT_VALIDITY_SECS
          /\ registries[MINT].attestor = BACKSTOP_ADMIN /\ ~Exists(MyPda(p))
      BY <1>1, <1>5 DEF Expected
    <2>2. runs[p].ix \in Instructions
      BY DEF ScriptInv, ScriptTypeOK, RunRecords
    <2>3. now \in 0 .. MaxTime /\ runs[p].ix.expires_at \in 0 .. MaxTime
      BY <1>1, <2>2 DEF TypeOK, Instructions, Timestamps
    <2>4. ValidateExpiry(now, runs[p].ix.expires_at)
      BY <2>1, <2>3, Parameters DEF ValidateExpiry, SaturatingAdd
    <2> QED BY <1>2, <1>5, <2>1, <2>4 DEF Succeeds, SnapshotInit, Exists, MyPda
  <1>6. CASE runs[p].ix.op = "evaluate"
    <2> DEFINE key == MyPda(p)
    <2>1. /\ registries[MINT] # NoAccount /\ supply[MINT] = runs[p].ix.backing /\ now < runs[p].ix.expires_at
          /\ Attested(p)
      BY <1>1, <1>6 DEF Expected
    <2>2. key \in SnapshotKeys /\ key[1] = MINT /\ key = <<MINT, p>>
      BY Parameters DEF MyPda, SnapshotPda, SnapshotKeys
    <2>3. /\ registries[MINT].mint = MINT /\ registries[MINT].has_snapshot = TRUE
          /\ registries[MINT].latest_snapshot = key
          /\ key = SnapshotPda(MINT, registries[MINT].latest_snapshot_id)
      BY <1>1, <1>2, <2>1 DEF Inv, RegistryInv, Attested
    <2>4. snapshots[key].registry = MINT /\ snapshots[key].mint = MINT
      BY <1>1, <2>1, <2>2 DEF Inv, SnapshotInv, Attested
    <2>5. key # DefaultKey
      BY <2>2, KeyAssumption DEF SnapshotKeys
    <2>6. now \in Int /\ runs[p].ix.expires_at \in Int /\ supply[MINT] \in Int
      <3>1. runs[p].ix \in Instructions
        BY DEF ScriptInv, ScriptTypeOK, RunRecords
      <3>2. now \in 0 .. MaxTime /\ runs[p].ix.expires_at \in 0 .. MaxTime /\ supply[MINT] \in 0 .. MaxSupply
        BY <1>1, <1>2, <3>1 DEF TypeOK, Instructions, Timestamps, Amounts
      <3> QED BY <3>2
    <2>7. CheckSnapshotSafety(snapshots[key], now, supply[MINT]) = "Ok"
      BY <2>1, <2>6 DEF CheckSnapshotSafety, Attested
    <2>8. EvaluateResult(MINT, key) = "Ok"
      BY <2>1, <2>3, <2>4, <2>5, <2>7 DEF EvaluateResult, AssertSnapshotBinding, Attested, Exists
    <2> QED BY <1>6, <2>8 DEF Succeeds, MyPda
  <1>7. CASE runs[p].ix.op = "rotate"
    BY <1>1, <1>2, <1>7 DEF Expected, Succeeds, Inv, RegistryInv
  <1> QED BY <1>1, <1>3, <1>4, <1>5, <1>6, <1>7 DEF Expected

-----------------------------------------------------------------------------
(* The ends of a run, and what its catch blocks do. *)

LEMMA EarlierOps ==
    /\ \A op \in {"mint", "register", "submit", "evaluate", "rotate"} : op \in Earlier(op)
    /\ \A op : "mint" \in Earlier(op) => op \in {"mint", "register", "submit", "evaluate"}
    /\ \A op : "register" \in Earlier(op) => op \in {"register", "submit", "evaluate"}
    /\ \A op : "submit" \in Earlier(op) => op \in {"submit", "evaluate"}
    /\ \A op : "evaluate" \in Earlier(op) => op = "evaluate"
    /\ \A op : "rotate" \in Earlier(op) <=> op = "rotate"
    /\ Earlier("mint") \subseteq Earlier("register")
    /\ Earlier("register") \subseteq Earlier("submit")
    /\ Earlier("submit") \subseteq Earlier("evaluate")
  BY DEF Earlier

LEMMA RunTypes ==
    ASSUME ScriptInv, NEW p \in Runs
    PROVE  /\ runs[p] \in RunRecords /\ runs[p].ix \in Instructions
           /\ runs[p].attempt \in Nat /\ runs[p].left \in Nat
           /\ runs[p].ix.op \in {"none", "mint", "register", "submit", "evaluate", "rotate"}
           /\ RunInv(p) /\ SentInv(p) /\ DoneInv(p) /\ CauseInv(p)
  <1>1. runs[p] \in RunRecords
    BY DEF ScriptInv, ScriptTypeOK
  <1>2. runs[p].ix \in Instructions /\ runs[p].attempt \in 0 .. MaxSends /\ runs[p].left \in 0 .. CONFIRM_TIMEOUT
    BY <1>1 DEF RunRecords
  <1>3. runs[p].attempt \in Nat /\ runs[p].left \in Nat
    BY <1>2, Parameters
  <1>4. runs[p].ix.op \in {"none", "mint", "register", "submit", "evaluate", "rotate"}
    BY <1>2 DEF Instructions
  <1> QED BY <1>1, <1>2, <1>3, <1>4 DEF ScriptInv, RunsInv

LEMMA NetworkTypes ==
    ASSUME ScriptInv, NEW tx \in network
    PROVE  /\ tx \in Transactions /\ tx.run \in Runs /\ tx.ix \in Instructions
           /\ tx.attempt \in Nat /\ tx.attempt >= 1 /\ tx.left \in Nat /\ tx.left <= BlockhashLife
  <1>1. tx \in Transactions
    BY DEF ScriptInv, ScriptTypeOK
  <1>2. tx.run \in Runs /\ tx.ix \in Instructions /\ tx.attempt \in 1 .. MaxSends /\ tx.left \in 0 .. BlockhashLife
    BY <1>1 DEF Transactions
  <1>3. tx.attempt \in Nat /\ tx.attempt >= 1 /\ tx.left \in Nat /\ tx.left <= BlockhashLife
    BY <1>2, Parameters
  <1> QED BY <1>1, <1>2, <1>3

LEMMA SentBy ==
    ASSUME ScriptInv, NEW tx \in network
    PROVE  LET p == tx.run IN
           /\ tx.ix.op \in Earlier(runs[p].ix.op)
           /\ tx.ix.op = "register" => tx.ix.attestor = BACKSTOP_ADMIN
           /\ tx.ix.op = "rotate" => tx.ix = runs[p].ix /\ tx.attempt <= runs[p].attempt
           /\ Running(p) /\ tx.ix.op = runs[p].ix.op /\ runs[p].phase # "checking supply" =>
                  tx.ix = runs[p].ix /\ tx.attempt <= runs[p].attempt
           /\ runs[p].phase = "confirming" => tx.left < runs[p].left
           /\ Running(p) /\ tx.ix = runs[p].ix /\ tx.attempt = runs[p].attempt =>
                  runs[p].phase = "confirming" /\ runs[p].status = "unknown"
           /\ runs[p].result # "timed out"
           /\ ~(runs[p].result = "complete" /\ runs[p].ix.op = "rotate" /\ SentOnce(p))
  <1>1. tx.run \in Runs /\ SentInv(tx.run)
    BY NetworkTypes, RunTypes
  <1> QED BY <1>1 DEF SentInv

\* The process exits, with a result it has reason for.
LEMMA EndsStep ==
    ASSUME ScriptInv, NEW p \in Runs, NEW result \in {"complete", "failed", "timed out", "mismatch"},
           Running(p), runs' = [runs EXCEPT ![p] = RunEnded(p, result)],
           UNCHANGED <<programVars, before, accepted>>, trouble \subseteq trouble',
           \A tx \in network' : tx \in network \/ (tx = Transaction(p) /\ runs[p].phase = "sending"),
           \A tx \in network : tx.run # p => tx \in network',
           result # "complete" => p \in trouble',
           result = "timed out" => \A tx \in network' : tx.run # p,
           result = "complete" =>
               \/ runs[p].ix.op = "evaluate" /\ p \in accepted
               \/ /\ runs[p].ix.op = "rotate" /\ registries[MINT].attestor = runs[p].ix.attestor
                  /\ SentOnce(p) => \A tx \in network' : tx.run # p
    PROVE  ScriptInv'
  <1>1. runs[p] \in RunRecords /\ runs[p].attempt \in Nat /\ RunInv(p) /\ SentInv(p) /\ DoneInv(p)
    BY RunTypes
  <1>2. PICK r \in RunRecords : r = RunEnded(p, result)
    BY <1>1, RunEndedType
  <1>3. /\ r.phase = "done" /\ r.result = result /\ r.status = "unknown" /\ r.ix.op = runs[p].ix.op
        /\ r.ix.attestor = runs[p].ix.attestor
    BY <1>1, <1>2, RunEndedType
  <1>4. runs[p].ix.op = "rotate" => r.ix = runs[p].ix /\ r.attempt = runs[p].attempt
    BY <1>1, <1>2, RunEndedType DEF RunInv
  <1>5. runs' = [runs EXCEPT ![p] = r] /\ runs'[p] = r
    BY <1>2 DEF ScriptInv, ScriptTypeOK
  <1>6. \A tx \in network' : tx \in Transactions /\ (tx \in network \/ (tx = Transaction(p) /\ tx.run = p /\ tx.ix = runs[p].ix
                                                                 /\ tx.attempt = runs[p].attempt))
    <2>1. runs[p].phase = "sending" => runs[p].attempt >= 1
      BY <1>1 DEF RunInv
    <2> QED BY <1>1, <2>1, TransactionType, NetworkTypes
  <1>7. RunInv(p)'
    BY <1>1, <1>3, <1>4, <1>5 DEF RunInv, Running, Started, Ended
  <1>8. SentInv(p)'
    <2>1. \A tx \in network' : tx.run = p =>
              /\ tx.ix.op \in Earlier(runs[p].ix.op)
              /\ tx.ix.op = "register" => tx.ix.attestor = BACKSTOP_ADMIN
              /\ tx.ix.op = "rotate" => tx.ix = runs[p].ix /\ tx.attempt <= runs[p].attempt
      <3>1. ASSUME NEW tx \in network', tx.run = p, tx \in network
            PROVE  /\ tx.ix.op \in Earlier(runs[p].ix.op)
                   /\ tx.ix.op = "register" => tx.ix.attestor = BACKSTOP_ADMIN
                   /\ tx.ix.op = "rotate" => tx.ix = runs[p].ix /\ tx.attempt <= runs[p].attempt
        BY <3>1, SentBy
      <3>2. runs[p].ix.op \in Earlier(runs[p].ix.op)
        BY <1>1, RunTypes, EarlierOps DEF RunInv
      <3>3. runs[p].attempt <= runs[p].attempt
        BY <1>1, NatReflexive, Zenon
      <3> QED BY <1>1, <1>6, <3>1, <3>2, <3>3 DEF RunInv
    <2>2. \A tx \in network' : tx.ix.op = "rotate" /\ tx.run = p => runs[p].ix.op = "rotate"
      BY <2>1, EarlierOps
    <2> QED BY <1>3, <1>4, <1>5, <2>1, <2>2 DEF SentInv, Running, Ended, Awaits, SentOnce
  <1>9. DoneInv(p)'
    BY <1>1, <1>3, <1>5 DEF DoneInv, Exists, MyPda, programVars
  <1>10. CauseInv(p)'
    BY <1>3, <1>5 DEF CauseInv, Running, Ended
  <1>11. \A tx \in network \cup network' : tx.run # p => (tx \in network <=> tx \in network')
    BY <1>6
  <1>12. network' \subseteq Transactions
    BY <1>6
  <1> QED BY <1>3, <1>4, <1>5, <1>7, <1>8, <1>9, <1>10, <1>11, <1>12, LocalStep

\* Another attempt: what was sent before is no longer waited for.
LEMMA RetryStep ==
    ASSUME ScriptInv, NEW p \in Runs, runs[p].phase = "sending", ~Exhausted(p),
           runs' = [runs EXCEPT ![p] = [runs[p] EXCEPT !.attempt = @ + 1]],
           UNCHANGED <<programVars, before, accepted>>, trouble \subseteq trouble', p \in trouble',
           \A tx \in network' : tx \in network \/ tx = Transaction(p),
           \A tx \in network : tx \in network'
    PROVE  ScriptInv'
  <1>1. /\ runs[p] \in RunRecords /\ runs[p].attempt \in Nat
        /\ RunInv(p) /\ SentInv(p) /\ DoneInv(p) /\ Running(p)
    BY RunTypes DEF Running, Started, Ended
  <1>2. PICK r \in RunRecords : r = [runs[p] EXCEPT !.attempt = @ + 1]
    BY <1>1, RetryType
  <1>3. /\ r.phase = "sending" /\ r.ix = runs[p].ix /\ r.attempt = runs[p].attempt + 1
        /\ r.status = runs[p].status /\ r.result = runs[p].result
    BY <1>1, <1>2, RetryType
  <1>4. runs[p].attempt >= 1 /\ runs[p].ix.op # "none" /\ runs[p].result = "none"
    BY <1>1, RunningHasNoResult DEF RunInv, ScriptInv
  <1>5. runs' = [runs EXCEPT ![p] = r] /\ runs'[p] = r
    BY <1>2 DEF ScriptInv, ScriptTypeOK
  <1>6. \A tx \in network' : tx \in Transactions /\ (tx \in network \/ (tx.run = p /\ tx.ix = runs[p].ix
                                                                 /\ tx.attempt = runs[p].attempt))
    BY <1>1, <1>4, TransactionType, NetworkTypes
  <1>7. runs[p].attempt <= r.attempt /\ r.attempt >= 1 /\ \A n \in Nat : n <= runs[p].attempt => n <= r.attempt /\ n # r.attempt
    BY <1>1, <1>3, <1>4
  <1>8. RunInv(p)'
    BY <1>1, <1>3, <1>5, <1>7 DEF RunInv, Running, Started, Ended
  <1>9. SentInv(p)'
    <2>1. \A tx \in network' : tx.run = p =>
              /\ tx.ix.op \in Earlier(runs[p].ix.op)
              /\ tx.ix.op = "register" => tx.ix.attestor = BACKSTOP_ADMIN
              /\ tx.ix.op = "rotate" => tx.ix = runs[p].ix
              /\ tx.ix.op = runs[p].ix.op => tx.ix = runs[p].ix /\ tx.attempt \in Nat /\ tx.attempt <= runs[p].attempt
      <3>1. ASSUME NEW tx \in network', tx.run = p, tx \in network
            PROVE  /\ tx.ix.op \in Earlier(runs[p].ix.op)
                   /\ tx.ix.op = "register" => tx.ix.attestor = BACKSTOP_ADMIN
                   /\ tx.ix.op = "rotate" => tx.ix = runs[p].ix
                   /\ tx.ix.op = runs[p].ix.op => tx.ix = runs[p].ix /\ tx.attempt \in Nat /\ tx.attempt <= runs[p].attempt
        BY <1>1, <3>1, NetworkTypes DEF SentInv
      <3>2. runs[p].ix.op \in Earlier(runs[p].ix.op)
        BY <1>4, RunTypes, EarlierOps
      <3>3. runs[p].attempt <= runs[p].attempt
        BY <1>1
      <3> QED BY <1>1, <1>6, <3>1, <3>2, <3>3 DEF RunInv
    <2>2. \A tx \in network' : tx.run = p =>
              /\ tx.ix.op = runs[p].ix.op => tx.ix = runs[p].ix /\ tx.attempt <= r.attempt /\ tx.attempt # r.attempt
              /\ tx.ix.op = "rotate" => tx.ix = runs[p].ix /\ tx.attempt <= r.attempt
      BY <1>7, <2>1
    <2> QED BY <1>3, <1>4, <1>5, <2>1, <2>2 DEF SentInv, Awaits
  <1>10. DoneInv(p)'
    BY <1>1, <1>3, <1>5 DEF DoneInv, Exists, MyPda, programVars
  <1>11. CauseInv(p)'
    BY DEF CauseInv
  <1>12. \A tx \in network \cup network' : tx.run # p => (tx \in network <=> tx \in network')
    BY <1>6
  <1>13. network' \subseteq Transactions
    BY <1>6
  <1> QED BY <1>1, <1>3, <1>4, <1>5, <1>8, <1>9, <1>10, <1>11, <1>12, <1>13, LocalStep

LEMMA FailureStep ==
    ASSUME ScriptInv, NEW p \in Runs, runs[p].phase = "sending",
           runs' = [runs EXCEPT ![p] = AfterFailure(p)],
           UNCHANGED <<programVars, before, accepted>>, trouble \subseteq trouble', p \in trouble',
           \A tx \in network' : tx \in network \/ tx = Transaction(p),
           \A tx \in network : tx \in network'
    PROVE  ScriptInv'
  <1>1. CASE Exhausted(p)
    <2>1. runs' = [runs EXCEPT ![p] = RunEnded(p, "failed")] /\ Running(p)
      BY <1>1 DEF AfterFailure, Running, Started, Ended
    <2> QED BY <2>1, EndsStep
  <1>2. CASE ~Exhausted(p)
    <2>1. runs' = [runs EXCEPT ![p] = [runs[p] EXCEPT !.attempt = @ + 1]]
      BY <1>2 DEF AfterFailure
    <2> QED BY <1>2, <2>1, RetryStep
  <1> QED BY <1>1, <1>2

\* An untroubled run has nothing in the network but what it waits for.
LEMMA NothingInNetwork ==
    ASSUME ScriptInv, NEW p \in Runs, Running(p), p \notin trouble,
           runs[p].phase # "confirming" \/ runs[p].status # "unknown"
    PROVE  \A tx \in network : tx.run # p
  <1>1. ASSUME NEW tx \in network, tx.run = p
        PROVE  FALSE
    <2>1. Awaits(p, tx)
      BY <1>1, RunTypes DEF CauseInv
    <2> QED BY <1>1, <2>1, SentBy DEF Awaits
  <1> QED BY <1>1

LEMMA SendFailsStep ==
    ASSUME ScriptInv, NEW p \in Runs, SendFails(p)
    PROVE  ScriptInv'
  <1>1. /\ runs[p].phase = "sending" /\ runs' = [runs EXCEPT ![p] = AfterFailure(p)]
        /\ UNCHANGED <<programVars, before, accepted>> /\ network' = network
        /\ trouble' = trouble \cup {p}
    BY DEF SendFails
  <1> QED BY <1>1, FailureStep

LEMMA PreflightRejectsStep ==
    ASSUME ScriptInv, NEW p \in Runs, PreflightRejects(p)
    PROVE  ScriptInv'
  <1>1. /\ runs[p].phase = "sending" /\ ~Succeeds(Transaction(p))
        /\ runs' = [runs EXCEPT ![p] = AfterFailure(p)]
        /\ UNCHANGED <<programVars, before, accepted>> /\ network' = network /\ trouble' = trouble
    BY DEF PreflightRejects
  <1>2. p \in trouble
    <2>1. Running(p) /\ runs[p].attempt >= 1 /\ ~Landed(p) /\ runs[p] \in RunRecords
      BY <1>1, RunTypes DEF RunInv, Landed, Running, Started, Ended
    <2>2. PICK tx : tx = Transaction(p)
      OBVIOUS
    <2>3. tx.run = p /\ tx.ix = runs[p].ix /\ ~Succeeds(tx)
      BY <1>1, <2>1, <2>2, TransactionType
    <2> QED BY <2>1, <2>3, UntroubledSucceeds
  <1> QED BY <1>1, <1>2, FailureStep

LEMMA SendUnansweredStep ==
    ASSUME ScriptInv, NEW p \in Runs, SendUnanswered(p)
    PROVE  ScriptInv'
  <1>1. /\ runs[p].phase = "sending" /\ runs' = [runs EXCEPT ![p] = AfterFailure(p)]
        /\ UNCHANGED <<programVars, before, accepted>> /\ network' = network \cup {Transaction(p)}
        /\ trouble' = trouble \cup {p}
    BY DEF SendUnanswered
  <1> QED BY <1>1, FailureStep

LEMMA RejectedStep ==
    ASSUME ScriptInv, NEW p \in Runs, Rejected(p)
    PROVE  ScriptInv'
  <1>1. /\ runs[p].phase = "confirming" /\ runs[p].status = "err"
        /\ runs' = [runs EXCEPT ![p] = RunEnded(p, "failed")]
        /\ UNCHANGED <<programVars, before, accepted>> /\ network' = network /\ trouble' = trouble
    BY DEF Rejected
  <1>2. p \in trouble /\ Running(p)
    BY <1>1, RunTypes DEF CauseInv, Running, Started, Ended
  <1> QED BY <1>1, <1>2, EndsStep

\* Every transaction of a run expires before confirm gives up.
LEMMA TimesOutStep ==
    ASSUME ScriptInv, NEW p \in Runs, TimesOut(p)
    PROVE  ScriptInv'
  <1>1. /\ runs[p].phase = "confirming" /\ runs[p].left = 0
        /\ runs' = [runs EXCEPT ![p] = RunEnded(p, "timed out")]
        /\ UNCHANGED <<programVars, before, accepted>> /\ network' = Leaves(p) /\ trouble' = trouble
    BY DEF TimesOut, Overdue
  <1>2. Running(p)
    BY <1>1 DEF Running, Started, Ended
  <1>3. p \in trouble
    <2>1. ~(runs[p].left > 0)
      BY <1>1, ZeroIsLeast, Zenon
    <2> QED BY <1>1, <1>2, <2>1, RunTypes DEF CauseInv
  <1>4. \A tx \in network : tx.run # p
    <2>1. ASSUME NEW tx \in network, tx.run = p
          PROVE  FALSE
      <3>1. tx.left < runs[p].left /\ tx.left \in Nat
        BY <1>1, <2>1, SentBy, NetworkTypes
      <3> QED BY <1>1, <3>1, ZeroIsLeast, Zenon
    <2> QED BY <2>1
  <1>5. network' = network
    BY <1>1, <1>4 DEF Leaves
  <1> QED BY <1>1, <1>2, <1>3, <1>4, <1>5, EndsStep

LEMMA CallFailsStep ==
    ASSUME ScriptInv, NEW p \in Runs, CallFails(p)
    PROVE  ScriptInv'
  <1>1. /\ runs[p].phase \in {"confirming", "reading back", "checking supply"}
        /\ runs' = [runs EXCEPT ![p] = RunEnded(p, "failed")]
        /\ UNCHANGED <<programVars, before, accepted>> /\ network' = Leaves(p) /\ trouble' = trouble \cup {p}
    BY DEF CallFails
  <1>2. Running(p)
    BY <1>1 DEF Running, Started, Ended
  <1>3. network' \subseteq network /\ \A tx \in network : tx.run # p => tx \in network'
    BY <1>1 DEF Leaves
  <1> QED BY <1>1, <1>2, <1>3, EndsStep

LEMMA ReadBackLagsStep ==
    ASSUME ScriptInv, NEW p \in Runs, ReadBackLags(p)
    PROVE  ScriptInv'
  <1>1. /\ runs[p].phase = "reading back" /\ runs' = [runs EXCEPT ![p] = RunEnded(p, "mismatch")]
        /\ UNCHANGED <<programVars, before, accepted>> /\ network' = network /\ trouble' = trouble \cup {p}
    BY DEF ReadBackLags
  <1>2. Running(p)
    BY <1>1 DEF Running, Started, Ended
  <1> QED BY <1>1, <1>2, EndsStep

\* A rotation that was sent once and has landed has nothing left to land.
LEMMA ReadBackStep ==
    ASSUME ScriptInv, NEW p \in Runs, ReadBack(p)
    PROVE  ScriptInv'
  <1>1. /\ runs[p].phase = "reading back"
        /\ runs' = [runs EXCEPT ![p] =
               RunEnded(p, IF registries[MINT].attestor = runs[p].ix.attestor THEN "complete" ELSE "mismatch")]
        /\ UNCHANGED <<programVars, before, accepted>> /\ network' = network /\ trouble' = trouble
    BY DEF ReadBack
  <1>2. Running(p) /\ runs[p].ix.op = "rotate" /\ Landed(p)
    BY <1>1, RunTypes DEF Running, Started, Ended, RunInv, Landed
  <1>3. CASE registries[MINT].attestor = runs[p].ix.attestor
    <2>1. ASSUME NEW tx \in network, tx.run = p, SentOnce(p)
          PROVE  FALSE
      <3>1. tx.ix.op \in Earlier("rotate")
        BY <1>2, <2>1, SentBy
      <3>2. tx.ix.op = "rotate"
        BY <3>1 DEF Earlier
      <3>3. tx.ix = runs[p].ix /\ tx.attempt <= runs[p].attempt
        BY <2>1, <3>2, SentBy
      <3>4. tx.attempt = runs[p].attempt
        BY <2>1, <3>3, NetworkTypes DEF SentOnce
      <3> QED BY <1>1, <1>2, <2>1, <3>3, <3>4, SentBy
    <2>2. runs' = [runs EXCEPT ![p] = RunEnded(p, "complete")]
      BY <1>1, <1>3
    <2> QED BY <1>1, <1>2, <1>3, <2>1, <2>2, EndsStep
  <1>4. CASE registries[MINT].attestor # runs[p].ix.attestor
    <2>1. p \in trouble
      BY <1>2, <1>4, RunTypes DEF CauseInv, Expected
    <2>2. runs' = [runs EXCEPT ![p] = RunEnded(p, "mismatch")]
      BY <1>1, <1>4
    <2> QED BY <1>1, <1>2, <2>1, <2>2, EndsStep
  <1> QED BY <1>3, <1>4

-----------------------------------------------------------------------------
(* A run goes on. *)

\* What one who begins with a new instruction has sent before is of no account.
LEMMA NewInstruction ==
    ASSUME ScriptInv, NEW p \in Runs, NEW r \in RunRecords, runs'[p] = r,
           r.phase = "sending", r.result = "none", r.ix.op # runs[p].ix.op, r.ix.op # "rotate",
           runs[p].ix.op # "rotate", r.ix.op # "none",
           Earlier(runs[p].ix.op) \subseteq Earlier(r.ix.op), r.ix.op \notin Earlier(runs[p].ix.op),
           network' = network
    PROVE  SentInv(p)'
  <1>1. ASSUME NEW tx \in network, tx.run = p
        PROVE  /\ tx.ix.op \in Earlier(r.ix.op) /\ tx.ix.op # r.ix.op /\ tx.ix.op # "rotate"
               /\ tx.ix.op = "register" => tx.ix.attestor = BACKSTOP_ADMIN
    <2>1. tx.ix.op \in Earlier(runs[p].ix.op) /\ (tx.ix.op = "register" => tx.ix.attestor = BACKSTOP_ADMIN)
      BY <1>1, SentBy
    <2>2. tx.ix.op # "rotate"
      BY <2>1, EarlierOps
    <2> QED BY <2>1, <2>2
  <1> QED BY <1>1 DEF SentInv, Running, Started, Ended, Awaits

LEMMA MintAgainStep ==
    ASSUME ScriptInv, NEW p \in Runs, MintAgain(p)
    PROVE  ScriptInv'
  <1>1. /\ runs[p].phase = "confirming" /\ runs[p].ix.op = "mint"
        /\ UNCHANGED <<programVars, before, accepted>> /\ network' = network /\ trouble' = trouble \cup {p}
    BY DEF MintAgain
  <1>2. Running(p)
    BY <1>1 DEF Running, Started, Ended
  <1>3. CASE Exhausted(p)
    <2>1. runs' = [runs EXCEPT ![p] = RunEnded(p, "failed")]
      BY <1>3 DEF MintAgain
    <2> QED BY <1>1, <1>2, <2>1, EndsStep
  <1>4. CASE ~Exhausted(p)
    <2> DEFINE q == SettingUpBy(MintIx)
    <2>1. /\ q \in RunRecords /\ q.phase = "sending" /\ q.ix = MintIx /\ q.status = "unknown" /\ q.result = "none"
          /\ MintIx.op = "mint"
      BY SettingUpType, InstructionTypes
    <2>2. runs[p].attempt \in Nat /\ runs[p].attempt + 1 \in 0 .. MaxSends
      <3>1. runs[p].attempt \in 0 .. MaxSends /\ runs[p].attempt # MaxSends
        BY <1>4, RunTypes DEF RunRecords, Exhausted
      <3> QED BY <3>1, Parameters
    <2>3. PICK r : r = [q EXCEPT !.attempt = runs[p].attempt + 1]
      OBVIOUS
    <2>4. runs' = [runs EXCEPT ![p] = r]
      BY <1>4, <2>3 DEF MintAgain
    <2> HIDE DEF q
    <2>5. /\ r \in RunRecords /\ r.phase = "sending" /\ r.ix = MintIx /\ r.status = "unknown" /\ r.result = "none"
          /\ r.attempt = runs[p].attempt + 1
      BY <2>1, <2>2, <2>3 DEF RunRecords
    <2>6. runs'[p] = r
      BY <2>4 DEF ScriptInv, ScriptTypeOK
    <2>7. r.attempt >= 1 /\ \A n \in Nat : n <= runs[p].attempt => n <= r.attempt /\ n # r.attempt
      BY <2>2, <2>5
    <2>8. RunInv(p)'
      BY <2>1, <2>5, <2>6, <2>7 DEF RunInv, Running, Started, Ended
    <2>9. SentInv(p)'
      <3>1. ASSUME NEW tx \in network, tx.run = p
            PROVE  tx.ix.op = "mint" /\ tx.attempt <= r.attempt /\ tx.attempt # r.attempt /\ tx.ix = runs[p].ix
        <4>1. tx.ix.op \in Earlier("mint")
          BY <1>1, <3>1, SentBy
        <4>2. tx.ix.op = "mint"
          BY <4>1 DEF Earlier
        <4>3. tx.attempt \in Nat /\ tx.attempt <= runs[p].attempt /\ tx.ix = runs[p].ix
          BY <1>1, <1>2, <3>1, <4>2, SentBy, NetworkTypes
        <4> QED BY <2>7, <4>2, <4>3
      <3>2. \A tx \in network : tx.run = p => tx.ix = MintIx
        <4>1. ASSUME NEW tx \in network, tx.run = p PROVE tx.ix = MintIx
          BY <3>1, <4>1, <1>1, RunTypes DEF RunInv
        <4> QED BY <4>1
      <3>3. \A tx \in network' : tx.run = p =>
                /\ tx.ix.op = "mint" /\ tx.ix = r.ix /\ tx.attempt <= r.attempt /\ tx.attempt # r.attempt
        BY <1>1, <2>5, <3>1, <3>2
      <3>4. "mint" \in Earlier(r.ix.op)
        BY <2>1, <2>5, EarlierOps
      <3>5. \A tx : ~Awaits(p, tx)'
        BY <2>5, <2>6 DEF Awaits
      <3> QED BY <2>5, <2>6, <3>3, <3>4, <3>5 DEF SentInv
    <2>10. DoneInv(p)'
      BY <2>1, <2>5, <2>6 DEF DoneInv
    <2>11. CauseInv(p)'
      BY <1>1 DEF CauseInv
    <2> QED BY <1>1, <1>2, <2>1, <2>4, <2>5, <2>8, <2>9, <2>10, <2>11, LocalStep DEF ScriptInv, ScriptTypeOK
  <1> QED BY <1>3, <1>4

LEMMA CheckSupplyStep ==
    ASSUME ScriptInv, NEW p \in Runs, CheckSupply(p)
    PROVE  ScriptInv'
  <1>1. /\ runs[p].phase = "checking supply"
        /\ UNCHANGED <<programVars, before, accepted>> /\ network' = network /\ trouble' = trouble
    BY DEF CheckSupply
  <1>2. Running(p) /\ runs[p].ix.op = "mint" /\ Landed(p)
    BY <1>1, RunTypes DEF Running, Started, Ended, RunInv, Landed
  <1>3. p \notin trouble => supply[MINT] = SetupAmount /\ registries[MINT] = NoAccount
    BY <1>2, RunTypes DEF CauseInv, Expected
  <1>4. CASE supply[MINT] # SetupAmount
    <2>1. runs' = [runs EXCEPT ![p] = RunEnded(p, "mismatch")]
      BY <1>4 DEF CheckSupply
    <2> QED BY <1>1, <1>2, <1>3, <1>4, <2>1, EndsStep
  <1>5. CASE supply[MINT] = SetupAmount
    <2>1. PICK r : r = SettingUpBy(RegisterIx)
      OBVIOUS
    <2>2. /\ r \in RunRecords /\ r.phase = "sending" /\ r.ix = RegisterIx /\ r.attempt = 1
          /\ r.status = "unknown" /\ r.result = "none"
          /\ r.ix.op = "register" /\ r.ix.attestor = BACKSTOP_ADMIN
      BY <2>1, SettingUpType, InstructionTypes
    <2>3. runs' = [runs EXCEPT ![p] = r] /\ runs'[p] = r
      BY <1>5, <2>1 DEF CheckSupply, ScriptInv, ScriptTypeOK
    <2>4. r.attempt >= 1
      BY <2>2, OneIsPositive, Zenon
    <2>5. RunInv(p)'
      BY <2>2, <2>3, <2>4 DEF RunInv, Running, Started, Ended
    <2>6. SentInv(p)'
      <3>1. r.ix.op \notin Earlier(runs[p].ix.op) /\ Earlier(runs[p].ix.op) \subseteq Earlier(r.ix.op)
        BY <1>2, <2>2 DEF Earlier
      <3> QED BY <1>1, <1>2, <2>2, <2>3, <3>1, NewInstruction
    <2>7. DoneInv(p)'
      BY <2>2, <2>3 DEF DoneInv
    <2>8. CauseInv(p)'
      <3>1. p \notin trouble => \A tx \in network : tx.run # p
        BY <1>1, <1>2, NothingInNetwork
      <3>2. ~Landed(p)'
        BY <2>2, <2>3 DEF Landed
      <3>3. p \notin trouble => Expected(p)'
        BY <1>1, <1>3, <2>2, <2>3, <3>2 DEF Expected, programVars
      <3> QED BY <1>1, <2>2, <2>3, <3>1, <3>3 DEF CauseInv
    <2> QED BY <1>1, <1>2, <2>2, <2>3, <2>5, <2>6, <2>7, <2>8, LocalStep DEF ScriptInv, ScriptTypeOK
  <1> QED BY <1>4, <1>5

LEMMA SendStep ==
    ASSUME ScriptInv, NEW p \in Runs, Send(p)
    PROVE  ScriptInv'
  <1> DEFINE new == [[runs[p] EXCEPT !.phase = "confirming"] EXCEPT !.left = CONFIRM_TIMEOUT]
  <1>1. /\ runs[p].phase = "sending" /\ network' = network \cup {Transaction(p)}
        /\ UNCHANGED <<programVars, before, accepted>> /\ trouble' = trouble
    BY DEF Send
  <1>2. runs[p] \in RunRecords /\ RunInv(p) /\ DoneInv(p) /\ CauseInv(p) /\ Running(p)
    BY <1>1, RunTypes DEF Running, Started, Ended
  <1>3. runs[p].attempt >= 1 /\ runs[p].status = "unknown" /\ runs[p].result = "none" /\ runs[p].ix.op # "none"
    BY <1>1, <1>2, RunningHasNoResult DEF RunInv, ScriptInv
  <1>4. PICK r : r = new
    OBVIOUS
  <1>5. runs' = [runs EXCEPT ![p] = r] /\ runs'[p] = r
    <2>1. runs \in [Runs -> RunRecords]
      BY DEF ScriptInv, ScriptTypeOK
    <2>2. runs' = [runs EXCEPT ![p] = new]
      BY <2>1 DEF Send
    <2> QED BY <1>4, <2>1, <2>2
  <1>6. /\ r \in RunRecords /\ r.phase = "confirming" /\ r.left = CONFIRM_TIMEOUT /\ r.ix = runs[p].ix
        /\ r.attempt = runs[p].attempt /\ r.status = "unknown" /\ r.result = "none"
    <2>1. CONFIRM_TIMEOUT \in 0 .. CONFIRM_TIMEOUT
      BY Parameters
    <2> QED BY <1>2, <1>3, <1>4, <2>1 DEF RunRecords
  <1> HIDE DEF new
  <1>7. PICK sent : sent = Transaction(p)
    OBVIOUS
  <1>8. /\ sent \in Transactions /\ sent.run = p /\ sent.ix = r.ix /\ sent.attempt = r.attempt
        /\ sent.left = BlockhashLife /\ network' = network \cup {sent}
    BY <1>1, <1>2, <1>3, <1>6, <1>7, TransactionType
  <1>9. RunInv(p)'
    BY <1>1, <1>2, <1>3, <1>5, <1>6 DEF RunInv, Running, Started, Ended
  <1>10. \A tx \in network' : tx.left < CONFIRM_TIMEOUT
    <2>1. ASSUME NEW tx \in network' PROVE tx.left \in Nat /\ tx.left <= BlockhashLife
      <3>1. CASE tx \in network
        BY <3>1, NetworkTypes
      <3>2. CASE tx = sent
        BY <1>8, <3>2, Parameters, NatReflexive, Zenon
      <3> QED BY <1>8, <2>1, <3>1, <3>2
    <2>2. \A n \in Nat : n <= BlockhashLife => n < CONFIRM_TIMEOUT
      BY Parameters
    <2> QED BY <2>1, <2>2
  \* What was sent in earlier attempts is not what is waited for.
  <1>11. ASSUME NEW tx \in network, tx.run = p
         PROVE  /\ tx.ix.op \in Earlier(r.ix.op)
                /\ tx.ix.op = "register" => tx.ix.attestor = BACKSTOP_ADMIN
                /\ tx.ix.op = "rotate" => tx.ix = r.ix /\ tx.attempt <= r.attempt
                /\ tx.ix.op = r.ix.op => tx.ix = r.ix /\ tx.attempt <= r.attempt
                /\ ~(tx.ix = r.ix /\ tx.attempt = r.attempt)
    BY <1>1, <1>2, <1>6, <1>11, SentBy
  <1>12. SentInv(p)'
    <2>1. /\ sent.ix.op \in Earlier(r.ix.op) /\ sent.attempt <= r.attempt
          /\ sent.ix.op = "register" => sent.ix.attestor = BACKSTOP_ADMIN
      <3>1. r.ix.op \in Earlier(r.ix.op)
        BY <1>3, <1>6, RunTypes, EarlierOps
      <3>2. r.attempt <= r.attempt
        BY <1>6, RunTypes, NatReflexive, Zenon
      <3> QED BY <1>2, <1>6, <1>8, <3>1, <3>2 DEF RunInv
    <2>2. \A tx \in network' : tx.run = p =>
              /\ tx.ix.op \in Earlier(r.ix.op)
              /\ tx.ix.op = "register" => tx.ix.attestor = BACKSTOP_ADMIN
              /\ tx.ix.op = "rotate" => tx.ix = r.ix /\ tx.attempt <= r.attempt
              /\ tx.ix.op = r.ix.op => tx.ix = r.ix /\ tx.attempt <= r.attempt
      BY <1>8, <1>11, <2>1
    <2>3. \A tx, other \in network' : Awaits(p, tx)' /\ Awaits(p, other)' => tx = other
      BY <1>5, <1>8, <1>11 DEF Awaits
    <2> QED BY <1>5, <1>6, <1>10, <2>2, <2>3 DEF SentInv
  <1>13. DoneInv(p)'
    BY <1>1, <1>2, <1>5, <1>6 DEF DoneInv, Exists, MyPda, programVars
  <1>14. CauseInv(p)'
    <2>1. p \notin trouble => \A tx \in network : tx.run # p
      BY <1>1, <1>2, NothingInNetwork
    <2>2. ~Landed(p) /\ ~Landed(p)'
      BY <1>1, <1>3, <1>5, <1>6 DEF Landed
    <2>3. p \notin trouble => Expected(p)'
      <3>1. p \notin trouble => Expected(p)
        BY <1>2 DEF CauseInv
      <3> QED BY <1>1, <1>5, <1>6, <2>2, <3>1 DEF Expected, Attested, Exists, MyPda, programVars
    <2>4. Awaits(p, sent)'
      BY <1>5, <1>6, <1>8 DEF Awaits
    <2>5. CONFIRM_TIMEOUT > 0
      BY Parameters
    <2> QED BY <1>1, <1>5, <1>6, <1>8, <2>1, <2>3, <2>4, <2>5 DEF CauseInv
  <1>15. network' \subseteq Transactions
    BY <1>8 DEF ScriptInv, ScriptTypeOK
  <1>16. \A tx \in network \cup network' : tx.run # p => (tx \in network <=> tx \in network')
    BY <1>8
  <1> QED BY <1>1, <1>2, <1>5, <1>6, <1>9, <1>12, <1>13, <1>14, <1>15, <1>16, LocalStep

\* The common part of a confirmation that does not end the run: an untroubled
\* run has nothing in the network, and finds what it goes on with.
LEMMA GoesOn ==
    ASSUME ScriptInv, NEW p \in Runs, NEW r \in RunRecords, Confirmed(p),
           AfterConfirmation(p) = r, r.phase \notin {"idle", "confirming", "done"},
           r.status = "unknown", r.result = "none", runs[p].ix.op # "evaluate",
           runs[p].ix.op \in {"submit", "evaluate"} => r.ix.op \in {"submit", "evaluate"},
           r.ix.op \in {"mint", "register"} => runs[p].ix.op \in {"mint", "register"},
           runs[p].ix.op = "rotate" => r.ix = runs[p].ix,
           r.ix.op = "evaluate" => runs[p].ix.op = "submit",
           r.ix.op = "rotate" => runs[p].ix.op = "rotate",
           runs'[p] = r => RunInv(p)' /\ SentInv(p)' /\ (p \notin trouble => Expected(p)')
    PROVE  ScriptInv'
  <1>1. /\ runs[p].phase = "confirming" /\ runs[p].status = "ok"
        /\ UNCHANGED <<programVars, before, accepted>> /\ network' = network /\ trouble' = trouble
    BY DEF Confirmed, IsConfirmed
  <1>2. runs' = [runs EXCEPT ![p] = r] /\ runs'[p] = r
    BY DEF Confirmed, ScriptInv, ScriptTypeOK
  <1>3. Running(p) /\ DoneInv(p) /\ CauseInv(p)
    BY <1>1, RunTypes DEF Running, Started, Ended
  <1>4. DoneInv(p)'
    BY <1>1, <1>2, <1>3 DEF DoneInv, Exists, MyPda, programVars
  <1>5. CauseInv(p)'
    <2>1. p \notin trouble => \A tx \in network : tx.run # p
      BY <1>1, <1>3, NothingInNetwork
    <2> QED BY <1>1, <1>2, <2>1 DEF CauseInv
  <1>6. network' \subseteq Transactions /\ trouble \subseteq trouble'
    BY <1>1 DEF ScriptInv, ScriptTypeOK
  <1> QED BY <1>1, <1>2, <1>3, <1>4, <1>5, <1>6, LocalStep

\* An untroubled run finds the chain as it expects after its instruction.
LEMMA ConfirmedFinds ==
    ASSUME ScriptInv, NEW p \in Runs, Confirmed(p)
    PROVE  /\ runs[p].phase = "confirming" /\ runs[p].status = "ok" /\ Running(p) /\ Landed(p)
           /\ RunInv(p) /\ SentInv(p) /\ DoneInv(p)
           /\ p \notin trouble => Expected(p)
           /\ runs' = [runs EXCEPT ![p] = AfterConfirmation(p)]
           /\ registries' = registries /\ snapshots' = snapshots /\ supply' = supply /\ now' = now
           /\ network' = network
  <1>1. /\ runs[p].phase = "confirming" /\ runs[p].status = "ok"
        /\ runs' = [runs EXCEPT ![p] = AfterConfirmation(p)]
        /\ UNCHANGED programVars /\ network' = network
    BY DEF Confirmed, IsConfirmed
  <1>2. Running(p) /\ Landed(p)
    BY <1>1 DEF Running, Started, Ended, Landed
  <1> QED BY <1>1, <1>2, RunTypes DEF CauseInv, programVars

\* The mint is confirmed, and its supply is looked at next.
LEMMA MintConfirmed ==
    ASSUME ScriptInv, NEW p \in Runs, Confirmed(p), runs[p].ix.op = "mint"
    PROVE  ScriptInv'
  <1> DEFINE q == SettingUpBy(MintIx)
  <1>1. /\ q \in RunRecords /\ q.phase = "sending" /\ q.ix = MintIx /\ q.status = "unknown" /\ q.result = "none"
        /\ MintIx.op = "mint"
    BY SettingUpType, InstructionTypes
  <1>2. PICK r : r = [q EXCEPT !.phase = "checking supply", !.attempt = 0]
    OBVIOUS
  <1>3. AfterConfirmation(p) = r
    BY <1>2 DEF AfterConfirmation
  <1> HIDE DEF q
  <1>4. /\ r \in RunRecords /\ r.phase = "checking supply" /\ r.ix = MintIx /\ r.status = "unknown"
        /\ r.result = "none" /\ r.attempt = 0
    BY <1>1, <1>2, Zeros DEF RunRecords
  <1>5. ASSUME runs'[p] = r PROVE RunInv(p)' /\ SentInv(p)' /\ (p \notin trouble => Expected(p)')
    <2>1. RunInv(p)'
      BY <1>1, <1>4, <1>5 DEF RunInv, Running, Started, Ended
    <2>2. ASSUME NEW tx \in network, tx.run = p
          PROVE  tx.ix.op \in Earlier("mint") /\ tx.ix.op = "mint" /\ tx.attempt # 0
      <3>1. tx.ix.op \in Earlier("mint")
        BY <2>2, SentBy
      <3>2. tx.attempt # 0
        <4>1. \A n \in Nat : n >= 1 => n # 0
          OBVIOUS
        <4> QED BY <2>2, <4>1, NetworkTypes
      <3> QED BY <3>1, <3>2 DEF Earlier
    <2>3. SentInv(p)'
      BY <1>1, <1>4, <1>5, <2>2, ConfirmedFinds DEF SentInv, Awaits
    <2>4. p \notin trouble => Expected(p)'
      <3>1. Landed(p)'
        BY <1>4, <1>5 DEF Landed
      <3> QED BY <1>1, <1>4, <1>5, <3>1, ConfirmedFinds DEF Expected
    <2> QED BY <2>1, <2>3, <2>4
  <1> QED BY <1>1, <1>3, <1>4, <1>5, GoesOn

\* The asset is registered, and time is counted from now on.
LEMMA RegisterConfirmed ==
    ASSUME ScriptInv, NEW p \in Runs, Confirmed(p), runs[p].ix.op = "register"
    PROVE  ScriptInv'
  <1> DEFINE ix == SubmitIx(SetupAmount, now + SNAPSHOT_VALIDITY)
  <1>1. now = 0 /\ now + SNAPSHOT_VALIDITY \in Timestamps
    <2>1. now = 0
      BY ConfirmedFinds DEF ScriptInv, SetupInv, Unclocked
    <2> QED BY <2>1, Parameters DEF Timestamps
  <1>2. /\ ix \in Instructions /\ ix.op = "submit" /\ ix.backing = SetupAmount
        /\ ix.expires_at = now + SNAPSHOT_VALIDITY
    BY <1>1, InstructionTypes, Parameters
  <1>3. PICK r : r = SettingUpBy(ix)
    OBVIOUS
  <1>4. AfterConfirmation(p) = r
    BY <1>3 DEF AfterConfirmation
  <1> HIDE DEF ix
  <1>5. /\ r \in RunRecords /\ r.phase = "sending" /\ r.ix = ix /\ r.attempt = 1
        /\ r.status = "unknown" /\ r.result = "none"
    BY <1>2, <1>3, SettingUpType
  <1>6. r.attempt >= 1
    BY <1>5, OneIsPositive, Zenon
  <1>7. /\ now < r.ix.expires_at /\ r.ix.expires_at <= now + MAX_SNAPSHOT_VALIDITY_SECS
        /\ r.ix.backing = SetupAmount /\ r.ix.op = "submit"
    <2>1. now < now + SNAPSHOT_VALIDITY /\ now + SNAPSHOT_VALIDITY <= now + MAX_SNAPSHOT_VALIDITY_SECS
      BY <1>1, Parameters
    <2> QED BY <1>2, <1>5, <2>1
  <1>8. ASSUME runs'[p] = r PROVE RunInv(p)' /\ SentInv(p)' /\ (p \notin trouble => Expected(p)')
    <2>1. RunInv(p)'
      BY <1>5, <1>6, <1>7, <1>8 DEF RunInv, Running, Started, Ended
    <2>2. SentInv(p)'
      <3>1. r.ix.op \notin Earlier(runs[p].ix.op) /\ Earlier(runs[p].ix.op) \subseteq Earlier(r.ix.op)
        BY <1>7 DEF Earlier
      <3> QED BY <1>5, <1>7, <1>8, <3>1, NewInstruction, ConfirmedFinds
    <2>3. ~Exists(MyPda(p))
      <3>1. MyPda(p) \in SnapshotKeys /\ MyPda(p)[2] = p
        BY Parameters DEF MyPda, SnapshotPda, SnapshotKeys
      <3> QED BY <3>1 DEF ScriptInv, AuthorsInv
    <2>4. p \notin trouble => Expected(p)'
      <3>1. ~Landed(p)'
        BY <1>5, <1>8 DEF Landed
      <3>2. p \notin trouble => /\ registries[MINT] # NoAccount /\ registries[MINT].attestor = BACKSTOP_ADMIN
                                /\ supply[MINT] = SetupAmount
        BY ConfirmedFinds DEF Expected
      <3> QED BY <1>7, <1>8, <2>3, <3>1, <3>2, ConfirmedFinds DEF Expected, Exists, MyPda
    <2> QED BY <2>1, <2>2, <2>4
  <1> QED BY <1>4, <1>5, <1>7, <1>8, GoesOn

\* The snapshot is there, and is evaluated.
LEMMA SubmitConfirmed ==
    ASSUME ScriptInv, NEW p \in Runs, Confirmed(p), runs[p].ix.op = "submit"
    PROVE  ScriptInv'
  <1> DEFINE ix == EvaluateIx(runs[p].ix)
  <1> DEFINE q == Sending(ix)
  <1>1. runs[p].ix \in Instructions /\ runs[p].setup \in BOOLEAN
    BY RunTypes DEF RunRecords
  <1>2. PICK r : r = [q EXCEPT !.setup = runs[p].setup]
    OBVIOUS
  <1>3. AfterConfirmation(p) = r
    BY <1>2 DEF AfterConfirmation
  <1>4. /\ ix \in Instructions /\ ix.op = "evaluate" /\ ix.backing = runs[p].ix.backing
        /\ ix.expires_at = runs[p].ix.expires_at
    BY <1>1, EvaluateIxType
  <1>5. /\ q \in RunRecords /\ q.phase = "sending" /\ q.ix = ix /\ q.attempt = 1
        /\ q.status = "unknown" /\ q.result = "none"
    BY <1>4, SendingType
  <1> HIDE DEF q, ix
  <1>6. /\ r \in RunRecords /\ r.phase = "sending" /\ r.ix = ix /\ r.attempt = 1
        /\ r.status = "unknown" /\ r.result = "none"
    BY <1>1, <1>2, <1>5 DEF RunRecords
  <1>7. r.attempt >= 1
    BY <1>6, OneIsPositive, Zenon
  <1>8. r.ix.op = "evaluate" /\ r.ix.backing = runs[p].ix.backing /\ r.ix.expires_at = runs[p].ix.expires_at
    BY <1>4, <1>6
  <1>9. ASSUME runs'[p] = r PROVE RunInv(p)' /\ SentInv(p)' /\ (p \notin trouble => Expected(p)')
    <2>1. RunInv(p)'
      BY <1>6, <1>7, <1>8, <1>9 DEF RunInv, Running, Started, Ended
    <2>2. SentInv(p)'
      <3>1. r.ix.op \notin Earlier(runs[p].ix.op) /\ Earlier(runs[p].ix.op) \subseteq Earlier(r.ix.op)
        BY <1>8 DEF Earlier
      <3> QED BY <1>6, <1>8, <1>9, <3>1, NewInstruction, ConfirmedFinds
    <2>3. ASSUME p \notin trouble PROVE Expected(p)'
      <3>1. /\ registries[MINT] # NoAccount /\ supply[MINT] = runs[p].ix.backing /\ now < runs[p].ix.expires_at
            /\ Attested(p)
        BY <2>3, ConfirmedFinds DEF Expected
      <3>2. Attested(p)'
        BY <1>8, <1>9, <3>1, ConfirmedFinds DEF Attested, Exists, MyPda
      <3> QED BY <1>8, <1>9, <3>1, <3>2, ConfirmedFinds DEF Expected
    <2> QED BY <2>1, <2>2, <2>3
  <1> QED BY <1>3, <1>6, <1>8, <1>9, GoesOn

\* The program said Ok.
LEMMA EvaluateConfirmed ==
    ASSUME ScriptInv, NEW p \in Runs, Confirmed(p), runs[p].ix.op = "evaluate"
    PROVE  ScriptInv'
  <1>1. runs' = [runs EXCEPT ![p] = RunEnded(p, "complete")]
    BY DEF Confirmed, AfterConfirmation
  <1>2. UNCHANGED <<programVars, before, accepted>> /\ network' = network /\ trouble' = trouble
    BY DEF Confirmed
  <1>3. p \in accepted
    BY ConfirmedFinds DEF DoneInv
  <1> QED BY <1>1, <1>2, <1>3, ConfirmedFinds, EndsStep

LEMMA RotateConfirmed ==
    ASSUME ScriptInv, NEW p \in Runs, Confirmed(p), runs[p].ix.op = "rotate"
    PROVE  ScriptInv'
  <1>1. PICK r : r = [runs[p] EXCEPT !.phase = "reading back", !.left = 0, !.status = "unknown"]
    OBVIOUS
  <1>2. AfterConfirmation(p) = r
    BY <1>1 DEF AfterConfirmation
  <1>3. runs[p].result = "none"
    BY ConfirmedFinds, RunningHasNoResult DEF ScriptInv
  <1>4. runs[p] \in RunRecords
    BY RunTypes
  <1>5. /\ r \in RunRecords /\ r.phase = "reading back" /\ r.ix = runs[p].ix /\ r.attempt = runs[p].attempt
        /\ r.status = "unknown" /\ r.result = "none"
    BY <1>1, <1>3, <1>4, Zeros DEF RunRecords
  <1>6. ASSUME runs'[p] = r PROVE RunInv(p)' /\ SentInv(p)' /\ (p \notin trouble => Expected(p)')
    <2>1. RunInv(p)'
      BY <1>5, <1>6, ConfirmedFinds DEF RunInv, Running, Started, Ended
    <2>2. ASSUME NEW tx \in network, tx.run = p
          PROVE  /\ tx.ix.op \in Earlier(r.ix.op)
                 /\ tx.ix.op = "register" => tx.ix.attestor = BACKSTOP_ADMIN
                 /\ tx.ix = r.ix /\ tx.attempt <= r.attempt
                 /\ tx.attempt # r.attempt
      <3>1. tx.ix.op \in Earlier("rotate")
        BY <2>2, SentBy
      <3>2. tx.ix.op = "rotate"
        BY <3>1 DEF Earlier
      <3>3. tx.ix = runs[p].ix /\ tx.attempt <= runs[p].attempt
        BY <2>2, <3>2, SentBy
      <3>4. tx.attempt # runs[p].attempt
        BY <2>2, <3>3, SentBy, ConfirmedFinds
      <3> QED BY <1>5, <3>1, <3>2, <3>3, <3>4
    <2>3. SentInv(p)'
      BY <1>5, <1>6, <2>2, ConfirmedFinds DEF SentInv, Awaits
    <2>4. p \notin trouble => Expected(p)'
      <3>1. Landed(p)'
        BY <1>5, <1>6 DEF Landed
      <3> QED BY <1>5, <1>6, <3>1, ConfirmedFinds DEF Expected
    <2> QED BY <2>1, <2>3, <2>4
  <1> QED BY <1>2, <1>5, <1>6, GoesOn

LEMMA ConfirmedStep ==
    ASSUME ScriptInv, NEW p \in Runs, Confirmed(p)
    PROVE  ScriptInv'
  <1>1. runs[p].ix.op \in {"mint", "register", "submit", "evaluate", "rotate"}
    BY ConfirmedFinds, RunTypes DEF RunInv
  <1> QED BY <1>1, MintConfirmed, RegisterConfirmed, SubmitConfirmed, EvaluateConfirmed, RotateConfirmed

-----------------------------------------------------------------------------
(* Runs begin. *)

LEMMA NoSnapshotYet ==
    ASSUME ScriptInv, NEW p \in Runs, runs[p].ix.op \notin {"submit", "evaluate"}
    PROVE  ~Exists(MyPda(p))
  <1>1. MyPda(p) \in SnapshotKeys /\ MyPda(p)[2] = p
    BY Parameters DEF MyPda, SnapshotPda, SnapshotKeys
  <1> QED BY <1>1 DEF ScriptInv, AuthorsInv

\* What an idle run has not got, and the record of one that is over at once.
LEMMA BeginFinds ==
    ASSUME ScriptInv, NEW p \in Runs, NEW r, Begin(p, r)
    PROVE  /\ runs[p].phase = "idle" /\ ~Exists(MyPda(p))
           /\ registries' = registries /\ snapshots' = snapshots /\ supply' = supply /\ now' = now
           /\ runs'[p] = r
  <1>1. runs[p].phase = "idle" /\ runs' = [runs EXCEPT ![p] = r] /\ UNCHANGED programVars
    BY DEF Begin
  <1>2. runs[p].ix.op = "none"
    BY <1>1, RunTypes DEF RunInv
  <1>3. runs'[p] = r
    BY <1>1 DEF ScriptInv, ScriptTypeOK
  <1> QED BY <1>1, <1>2, <1>3, NoSnapshotYet DEF programVars

LEMMA OverAtOnce ==
    ASSUME NEW r, NEW result \in {"refused", "no authority", "failed"}, NEW wallet \in Keys,
           \/ r = [IdleRun EXCEPT !.phase = "done", !.wallet = wallet, !.result = result]
           \/ r = [IdleRun EXCEPT !.phase = "done", !.setup = TRUE, !.result = result]
           \/ r = [IdleRun EXCEPT !.phase = "done", !.result = result]
    PROVE  /\ r \in RunRecords /\ r.phase = "done" /\ r.status = "unknown" /\ r.result = result
           /\ r.ix.op = "none"
  <1>1. PICK over \in [setup : BOOLEAN, wallet : Keys \cup {DefaultKey}] :
          r = [phase |-> "done", setup |-> over.setup, ix |-> NoIx, attempt |-> 0, status |-> "unknown",
               left |-> 0, wallet |-> over.wallet, result |-> result]
    <2>1. CASE r = [IdleRun EXCEPT !.phase = "done", !.wallet = wallet, !.result = result]
      <3> WITNESS [setup |-> FALSE, wallet |-> wallet] \in [setup : BOOLEAN, wallet : Keys \cup {DefaultKey}]
      <3> QED BY <2>1 DEF IdleRun
    <2>2. CASE r = [IdleRun EXCEPT !.phase = "done", !.setup = TRUE, !.result = result]
      <3> WITNESS [setup |-> TRUE, wallet |-> DefaultKey] \in [setup : BOOLEAN, wallet : Keys \cup {DefaultKey}]
      <3> QED BY <2>2 DEF IdleRun
    <2>3. CASE r = [IdleRun EXCEPT !.phase = "done", !.result = result]
      <3> WITNESS [setup |-> FALSE, wallet |-> DefaultKey] \in [setup : BOOLEAN, wallet : Keys \cup {DefaultKey}]
      <3> QED BY <2>3 DEF IdleRun
    <2> QED BY <2>1, <2>2, <2>3
  <1>2. NoIx \in Instructions /\ NoIx.op = "none" /\ 0 \in 0 .. MaxSends /\ 0 \in 0 .. CONFIRM_TIMEOUT
    BY InstructionTypes, Zeros
  <1> QED BY <1>1, <1>2 DEF RunRecords

\* A run that is over before it sends anything, and why.
LEMMA BeginsAndEnds ==
    ASSUME ScriptInv, NEW p \in Runs, NEW result \in {"refused", "no authority", "failed"}, NEW r \in RunRecords,
           r.phase = "done", r.status = "unknown", r.result = result, r.ix.op = "none",
           Begin(p, r), trouble \subseteq trouble', result = "failed" => p \in trouble'
    PROVE  ScriptInv'
  BY BeginStep

LEMMA RefuseWalletStep ==
    ASSUME ScriptInv, NEW p \in Runs, NEW wallet \in Keys, RefuseWallet(p, wallet)
    PROVE  ScriptInv'
  <1>1. PICK r : r = [IdleRun EXCEPT !.phase = "done", !.wallet = wallet, !.result = "refused"]
    OBVIOUS
  <1>2. Begin(p, r) /\ trouble' = trouble
    BY <1>1 DEF RefuseWallet
  <1>3. r \in RunRecords /\ r.phase = "done" /\ r.status = "unknown" /\ r.result = "refused" /\ r.ix.op = "none"
    BY <1>1, OverAtOnce
  <1> QED BY <1>2, <1>3, BeginsAndEnds

LEMMA RefuseSetupStep ==
    ASSUME ScriptInv, NEW p \in Runs, NEW wallet \in Keys, RefuseSetup(p, wallet)
    PROVE  ScriptInv'
  <1>1. PICK r : r = [IdleRun EXCEPT !.phase = "done", !.setup = TRUE, !.result = "no authority"]
    OBVIOUS
  <1>2. Begin(p, r) /\ trouble' = trouble
    BY <1>1 DEF RefuseSetup
  <1>3. r \in RunRecords /\ r.phase = "done" /\ r.status = "unknown" /\ r.result = "no authority" /\ r.ix.op = "none"
    BY <1>1, OverAtOnce
  <1> QED BY <1>2, <1>3, BeginsAndEnds

LEMMA RefuseRotationStep ==
    ASSUME ScriptInv, NEW p \in Runs, NEW wallet \in Keys, RefuseRotation(p, wallet)
    PROVE  ScriptInv'
  <1>1. PICK r : r = [IdleRun EXCEPT !.phase = "done", !.result = "no authority"]
    OBVIOUS
  <1>2. Begin(p, r) /\ trouble' = trouble
    BY <1>1 DEF RefuseRotation
  <1>3. r \in RunRecords /\ r.phase = "done" /\ r.status = "unknown" /\ r.result = "no authority" /\ r.ix.op = "none"
    BY <1>1, OverAtOnce
  <1> QED BY <1>2, <1>3, BeginsAndEnds

LEMMA StartFailsStep ==
    ASSUME ScriptInv, NEW p \in Runs, StartFails(p)
    PROVE  ScriptInv'
  <1>1. PICK r : r = [IdleRun EXCEPT !.phase = "done", !.result = "failed"]
    OBVIOUS
  <1>2. Begin(p, r) /\ trouble' = trouble \cup {p}
    BY <1>1 DEF StartFails
  <1>3. r \in RunRecords /\ r.phase = "done" /\ r.status = "unknown" /\ r.result = "failed" /\ r.ix.op = "none"
    BY <1>1, OverAtOnce, Parameters
  <1> QED BY <1>2, <1>3, BeginsAndEnds

LEMMA StartRefreshStep ==
    ASSUME ScriptInv, NEW p \in Runs, NEW wallet \in Keys, StartRefresh(p, wallet)
    PROVE  ScriptInv'
  <1> DEFINE ix == SubmitIx(supply[MINT], now + SNAPSHOT_VALIDITY)
  <1>1. supply[MINT] \in Amounts /\ now \in 0 .. MaxTime
    BY Parameters DEF ScriptInv, ScriptTypeOK, TypeOK, Timestamps
  <1>2. /\ registries[MINT] # NoAccount /\ wallet = BACKSTOP_ADMIN /\ now + SNAPSHOT_VALIDITY <= MaxTime
        /\ trouble' = IF registries[MINT].attestor = wallet THEN trouble ELSE trouble \cup {p}
    BY DEF StartRefresh, Operable, WalletAdmitted
  <1>3. now + SNAPSHOT_VALIDITY \in Timestamps
    BY <1>1, <1>2, Parameters DEF Timestamps
  <1>4. /\ ix \in Instructions /\ ix.op = "submit" /\ ix.backing = supply[MINT]
        /\ ix.expires_at = now + SNAPSHOT_VALIDITY
    BY <1>1, <1>3, InstructionTypes
  <1>5. PICK r : r = Sending(ix)
    OBVIOUS
  <1>6. Begin(p, r)
    BY <1>5 DEF StartRefresh
  <1> HIDE DEF ix
  <1>7. /\ r \in RunRecords /\ r.phase = "sending" /\ r.ix = ix /\ r.attempt = 1
        /\ r.status = "unknown" /\ r.result = "none"
    BY <1>4, <1>5, SendingType
  <1>8. r.attempt >= 1
    BY <1>7, OneIsPositive, Zenon
  <1>9. /\ r.ix.op = "submit" /\ r.ix.backing = supply[MINT]
        /\ now < r.ix.expires_at /\ r.ix.expires_at <= now + MAX_SNAPSHOT_VALIDITY_SECS
    <2>1. now < now + SNAPSHOT_VALIDITY /\ now + SNAPSHOT_VALIDITY <= now + MAX_SNAPSHOT_VALIDITY_SECS
      BY <1>1, Parameters
    <2> QED BY <1>4, <1>7, <2>1
  <1>10. p \in trouble' \/ Expected(p)'
    <2>1. CASE registries[MINT].attestor = wallet
      <3>1. ~Landed(p)'
        BY <1>6, <1>7, BeginFinds DEF Landed
      <3> QED BY <1>2, <1>6, <1>9, <2>1, <3>1, BeginFinds DEF Expected, Exists, MyPda
    <2>2. CASE registries[MINT].attestor # wallet
      BY <1>2, <2>2
    <2> QED BY <2>1, <2>2
  <1>11. trouble \subseteq trouble'
    BY <1>2
  <1> QED BY <1>6, <1>7, <1>8, <1>9, <1>10, <1>11, BeginStep

LEMMA StartSetupStep ==
    ASSUME ScriptInv, NEW p \in Runs, NEW wallet \in Keys, StartSetup(p, wallet)
    PROVE  ScriptInv'
  <1>1. registries[MINT] = NoAccount /\ supply[MINT] = 0 /\ trouble' = trouble
    BY DEF StartSetup, ScriptInv, SetupInv
  <1>2. PICK r : r = SettingUpBy(MintIx)
    OBVIOUS
  <1>3. Begin(p, r)
    BY <1>2 DEF StartSetup
  <1>4. /\ r \in RunRecords /\ r.phase = "sending" /\ r.ix = MintIx /\ r.attempt = 1
        /\ r.status = "unknown" /\ r.result = "none" /\ MintIx.op = "mint"
    BY <1>2, SettingUpType, InstructionTypes
  <1>5. r.attempt >= 1
    BY <1>4, OneIsPositive, Zenon
  <1>6. Expected(p)'
    <2>1. ~Landed(p)'
      BY <1>3, <1>4, BeginFinds DEF Landed
    <2> QED BY <1>1, <1>3, <1>4, <2>1, BeginFinds DEF Expected
  <1> QED BY <1>1, <1>3, <1>4, <1>5, <1>6, BeginStep

LEMMA StartRotationStep ==
    ASSUME ScriptInv, NEW p \in Runs, NEW wallet \in Keys, NEW k \in Keys, StartRotation(p, wallet, k)
    PROVE  ScriptInv'
  <1>1. registries[MINT] # NoAccount /\ trouble' = trouble
    BY DEF StartRotation, Operable
  <1>2. PICK r : r = Sending(RotateIx(k))
    OBVIOUS
  <1>3. Begin(p, r)
    BY <1>2 DEF StartRotation
  <1>4. RotateIx(k) \in Instructions /\ RotateIx(k).op = "rotate"
    BY InstructionTypes
  <1>5. /\ r \in RunRecords /\ r.phase = "sending" /\ r.ix = RotateIx(k) /\ r.attempt = 1
        /\ r.status = "unknown" /\ r.result = "none"
    BY <1>2, <1>4, SendingType
  <1>6. r.attempt >= 1
    BY <1>5, OneIsPositive, Zenon
  <1>7. Expected(p)'
    <2>1. ~Landed(p)'
      BY <1>3, <1>5, BeginFinds DEF Landed
    <2> QED BY <1>1, <1>3, <1>4, <1>5, <2>1, BeginFinds DEF Expected
  <1> QED BY <1>1, <1>3, <1>5, <1>6, <1>7, BeginStep

-----------------------------------------------------------------------------
(* A transaction lands. *)

\* Its run, if it waits for it, learns so; to everybody else nothing happens.
LEMMA Noted ==
    ASSUME ScriptInv, NEW tx \in network, NEW status \in {"ok", "err"},
           NoteStatus(tx, status), network' = network \ {tx}
    PROVE  /\ runs' \in [Runs -> RunRecords]
           /\ \A q \in Runs : /\ runs'[q].phase = runs[q].phase /\ runs'[q].ix = runs[q].ix
                              /\ runs'[q].attempt = runs[q].attempt /\ runs'[q].left = runs[q].left
                              /\ runs'[q].result = runs[q].result
                              /\ Awaits(q, tx) => runs'[q].status = status
                              /\ ~Awaits(q, tx) => runs'[q] = runs[q]
           /\ \A q \in Runs : Started(q)' = Started(q) /\ Ended(q)' = Ended(q) /\ Running(q)' = Running(q)
  <1>1. ASSUME NEW q \in Runs
        PROVE  /\ runs'[q] \in RunRecords
               /\ runs'[q].phase = runs[q].phase /\ runs'[q].ix = runs[q].ix
               /\ runs'[q].attempt = runs[q].attempt /\ runs'[q].left = runs[q].left
               /\ runs'[q].result = runs[q].result
               /\ Awaits(q, tx) => runs'[q].status = status
               /\ ~Awaits(q, tx) => runs'[q] = runs[q]
    <2>1. runs'[q] = IF Awaits(q, tx) THEN [runs[q] EXCEPT !.status = status] ELSE runs[q]
      BY DEF NoteStatus
    <2>2. runs[q] \in RunRecords
      BY RunTypes
    <2>3. CASE Awaits(q, tx)
      <3>1. PICK r \in RunRecords : r = runs[q]
        BY <2>2
      <3>2. runs'[q] = [r EXCEPT !.status = status]
        BY <2>1, <2>3, <3>1
      <3>3. /\ [r EXCEPT !.status = status] \in RunRecords /\ [r EXCEPT !.status = status].status = status
            /\ [r EXCEPT !.status = status].phase = r.phase /\ [r EXCEPT !.status = status].ix = r.ix
            /\ [r EXCEPT !.status = status].attempt = r.attempt /\ [r EXCEPT !.status = status].left = r.left
            /\ [r EXCEPT !.status = status].result = r.result
        BY DEF RunRecords
      <3> QED BY <2>3, <3>1, <3>2, <3>3
    <2>4. CASE ~Awaits(q, tx)
      BY <2>1, <2>2, <2>4
    <2> QED BY <2>3, <2>4
  <1>2. \A q \in Runs : Started(q)' = Started(q) /\ Ended(q)' = Ended(q) /\ Running(q)' = Running(q)
    BY <1>1 DEF Started, Ended, Running
  <1>3. runs' \in [Runs -> RunRecords]
    BY <1>1 DEF NoteStatus
  <1> QED BY <1>1, <1>2, <1>3

LEMMA NotedRuns ==
    ASSUME ScriptInv, NEW tx \in network, NEW status \in {"ok", "err"},
           NoteStatus(tx, status), network' = network \ {tx}, NEW q \in Runs
    PROVE  RunInv(q)' /\ SentInv(q)'
  <1>1. /\ runs'[q].phase = runs[q].phase /\ runs'[q].ix = runs[q].ix
        /\ runs'[q].attempt = runs[q].attempt /\ runs'[q].left = runs[q].left
        /\ runs'[q].result = runs[q].result /\ Running(q)' = Running(q)
    BY Noted
  <1>2. RunInv(q) /\ SentInv(q)
    BY RunTypes
  <1>3. CASE ~Awaits(q, tx)
    <2>1. runs'[q] = runs[q]
      BY <1>3, Noted
    <2> QED BY <1>2, <2>1, SameRun
  <1>4. CASE Awaits(q, tx)
    <2>1. RunInv(q)'
      BY <1>1, <1>2, <1>4 DEF RunInv, Awaits
    <2>2. \A other : Awaits(q, other)' = Awaits(q, other)
      BY <1>1 DEF Awaits
    \* There is no other transaction of this attempt.
    <2>3. \A other \in network' : ~Awaits(q, other)
      BY <1>2, <1>4 DEF SentInv
    <2>4. \A other \in network' : other.run = q => ~(other.ix = runs[q].ix /\ other.attempt = runs[q].attempt)
      BY <1>4, <2>3 DEF Awaits
    <2>5. \A other \in network' : other \in network
      OBVIOUS
    <2> QED BY <1>1, <1>2, <2>1, <2>2, <2>3, <2>4, <2>5 DEF SentInv, SentOnce
  <1> QED BY <1>3, <1>4

\* What is not about the chain is as before.
LEMMA NotedRest ==
    ASSUME ScriptInv, NEW tx \in network, NEW status \in {"ok", "err"},
           NoteStatus(tx, status), network' = network \ {tx}, before' = before, TypeOK'
    PROVE  ScriptTypeOK' /\ BeforeInv' /\ FinitelyManyStarted'
  <1>1. ScriptTypeOK'
    <2>1. \A q \in Runs : Ended(q)' <=> runs'[q].result # "none"
      BY Noted DEF ScriptInv, ScriptTypeOK
    <2>2. network' \subseteq Transactions
      BY DEF ScriptInv, ScriptTypeOK
    <2> QED BY <2>1, <2>2, Noted DEF ScriptTypeOK
  <1>2. BeforeInv'
    BY Noted DEF ScriptInv, BeforeInv
  <1>3. FinitelyManyStarted'
    BY Noted DEF ScriptInv, FinitelyManyStarted
  <1> QED BY <1>1, <1>2, <1>3

\* The order of the runs, when the pointer and the attestor stay.
LEMMA SnapshotsStill ==
    ASSUME SnapshotsInOrder, before' = before,
           registries'[MINT].latest_snapshot = registries[MINT].latest_snapshot,
           \A b \in Runs : Exists(SnapshotPda(MINT, b))' => Exists(SnapshotPda(MINT, b))
    PROVE  SnapshotsInOrder'
  BY DEF SnapshotsInOrder

LEMMA RotationsStill ==
    ASSUME RotationsInOrder, before' = before,
           registries'[MINT].attestor = registries[MINT].attestor,
           \A q \in Runs : /\ runs'[q].ix = runs[q].ix /\ runs'[q].result = runs[q].result
                           /\ runs'[q].attempt = runs[q].attempt
    PROVE  RotationsInOrder'
  <1>1. ASSUME NEW b \in Runs, runs'[b].ix.op = "rotate", runs'[b].result = "complete"
        PROVE  \E c \in Runs : /\ runs'[c].ix.op = "rotate"
                               /\ registries'[MINT].attestor = runs'[c].ix.attestor
                               /\ <<c, b>> \in before' => runs'[c].attempt > 1
    <2>1. PICK c \in Runs : /\ runs[c].ix.op = "rotate"
                            /\ registries[MINT].attestor = runs[c].ix.attestor
                            /\ <<c, b>> \in before => runs[c].attempt > 1
      BY <1>1 DEF RotationsInOrder
    <2> QED BY <2>1
  <1> QED BY <1>1 DEF RotationsInOrder

\* On the chain an untroubled run's transaction fails only after it landed.
LEMMA LandsErrStep ==
    ASSUME ScriptInv, NEW tx \in network, LandsErr(tx)
    PROVE  ScriptInv'
  <1>1. /\ ~Succeeds(tx) /\ NoteStatus(tx, "err") /\ network' = network \ {tx}
        /\ UNCHANGED programVars /\ before' = before /\ accepted' = accepted /\ trouble' = trouble
        /\ registries' = registries /\ snapshots' = snapshots /\ supply' = supply /\ now' = now
        /\ outcome' = outcome
    BY DEF LandsErr, programVars
  <1>2. Inv' /\ TypeOK'
    <2>1. Inv'
      BY <1>1, InvStep DEF ScriptInv, vars
    <2> QED BY <2>1 DEF Inv
  <1>3. RunsInv'
    <2>1. ASSUME NEW q \in Runs
          PROVE  DoneInv(q)' /\ CauseInv(q)'
      <3>1. CASE ~Awaits(q, tx)
        <4>1. runs'[q] = runs[q] /\ DoneInv(q) /\ CauseInv(q)
          BY <1>1, <3>1, Noted, RunTypes
        <4>2. DoneInv(q)'
          BY <1>1, <4>1, SameDone DEF Exists, MyPda
        <4>3. CauseInv(q)'
          <5>1. CASE q \in trouble
            BY <1>1, <5>1 DEF CauseInv
          <5>2. CASE q \notin trouble
            <6>1. CASE Running(q)
              <7>1. tx.run # q
                BY <3>1, <4>1, <5>2, <6>1 DEF CauseInv
              <7>2. \A other \in network \cup network' : other.run = q => (other \in network <=> other \in network')
                BY <1>1, <7>1
              <7> QED BY <1>1, <4>1, <7>2, SameCause
            <6>2. CASE ~Running(q)
              BY <1>1, <4>1, <5>2, <6>2, Noted DEF CauseInv
            <6> QED BY <6>1, <6>2
          <5> QED BY <5>1, <5>2
        <4> QED BY <4>2, <4>3
      <3>2. CASE Awaits(q, tx)
        <4>1. /\ runs[q].phase = "confirming" /\ tx.run = q /\ tx.ix = runs[q].ix
              /\ tx.attempt = runs[q].attempt /\ Running(q)
          BY <3>2 DEF Awaits, Running, Started, Ended
        <4>2. runs[q].status = "unknown"
          BY <4>1, SentBy
        <4>3. q \in trouble
          BY <1>1, <4>1, <4>2, UntroubledSucceeds DEF Landed
        <4>4. DoneInv(q)'
          <5>1. runs'[q].ix = runs[q].ix /\ runs'[q].result = runs[q].result /\ runs'[q].status = "err"
            BY <1>1, <3>2, Noted
          <5> QED BY <1>1, <5>1, RunTypes DEF DoneInv, Exists, MyPda
        <4>5. CauseInv(q)'
          BY <1>1, <4>3 DEF CauseInv
        <4> QED BY <4>4, <4>5
      <3> QED BY <3>1, <3>2
    <2> QED BY <1>1, <2>1, NotedRuns DEF RunsInv
  <1>4. AuthorsInv'
    BY <1>1, Noted DEF ScriptInv, AuthorsInv, Exists
  <1>5. SetupInv'
    <2>1. Unclocked' => Unclocked
      BY <1>1, Noted DEF Unclocked
    <2>2. (\A q \in Runs : ~Started(q))' => \A q \in Runs : ~Started(q)
      BY <1>1, Noted
    <2> QED BY <1>1, <2>1, <2>2 DEF ScriptInv, SetupInv
  <1>6. RunsStayInOrder'
    BY <1>1, Noted, SnapshotsStill, RotationsStill DEF ScriptInv, RunsStayInOrder, Exists
  <1>7. ScriptTypeOK' /\ BeforeInv' /\ FinitelyManyStarted'
    BY <1>1, <1>2, NotedRest
  <1> QED BY <1>2, <1>3, <1>4, <1>5, <1>6, <1>7 DEF ScriptInv

\* What the instructions do to the asset.
LEMMA Executed ==
    ASSUME ScriptInv, NEW tx \in network, LandsOk(tx)
    PROVE  /\ Inv' /\ TypeOK' /\ now' = now
           /\ \A key \in SnapshotKeys : Exists(key) => Exists(key)'
           /\ tx.ix.op # "submit" => snapshots' = snapshots
           /\ registries[MINT] # NoAccount => registries'[MINT] # NoAccount
           /\ tx.ix.op # "register" => registries'[MINT] = NoAccount <=> registries[MINT] = NoAccount
           /\ tx.ix.op \notin {"register", "submit"} =>
                  /\ registries'[MINT].latest_snapshot = registries[MINT].latest_snapshot
                  /\ registries'[MINT].has_snapshot = registries[MINT].has_snapshot
           /\ tx.ix.op \notin {"register", "rotate"} => registries'[MINT].attestor = registries[MINT].attestor
           /\ tx.ix.op # "mint" => supply'[MINT] = supply[MINT]
           /\ tx.ix.op = "mint" => supply'[MINT] = supply[MINT] + SetupAmount
           /\ tx.ix.op = "register" => /\ registries[MINT] = NoAccount /\ registries'[MINT] # NoAccount
                                       /\ registries'[MINT].attestor = BACKSTOP_ADMIN
                                       /\ registries'[MINT].latest_snapshot = DefaultKey
           /\ tx.ix.op = "submit" =>
                  LET key == MyPda(tx.run) IN
                  /\ ~Exists(key) /\ Exists(key)'
                  /\ \A other \in SnapshotKeys : other # key => snapshots'[other] = snapshots[other]
                  /\ registries[MINT] # NoAccount
                  /\ registries'[MINT].latest_snapshot = key /\ registries'[MINT].has_snapshot = TRUE
                  /\ snapshots'[key].attested_backing = tx.ix.backing
                  /\ snapshots'[key].expires_at = tx.ix.expires_at
                  /\ snapshots'[key].status = StatusOf(supply[MINT], tx.ix.backing)
           /\ tx.ix.op = "evaluate" => UNCHANGED programVars
           /\ tx.ix.op = "rotate" => /\ registries[MINT] # NoAccount
                                     /\ registries'[MINT].attestor = tx.ix.attestor
           /\ tx.ix.op \in {"mint", "register", "submit", "evaluate", "rotate"}
  <1> DEFINE s == tx.run
  <1>1. Succeeds(tx) /\ Execute(tx) /\ s \in Runs /\ tx.ix \in Instructions
    BY NetworkTypes DEF LandsOk
  <1>2. Inv /\ TypeOK /\ MINT \in Mints /\ BACKSTOP_ADMIN \in Keys /\ Runs \subseteq SnapshotIds
    BY Parameters DEF ScriptInv, Inv
  <1>3. registries \in [Mints -> AssetRegistry \cup {NoAccount}]
    BY <1>2 DEF TypeOK
  <1>4. /\ registries[MINT] # NoAccount => registries[MINT] \in AssetRegistry
        /\ snapshots \in [SnapshotKeys -> Snapshot \cup {NoAccount}] /\ supply \in [Mints -> Amounts]
    BY <1>2, <1>3 DEF TypeOK
  <1>5. CASE tx.ix.op = "mint"
    <2>1. ChangeSupply(MINT, supply[MINT] + SetupAmount) /\ supply[MINT] + SetupAmount <= MaxSupply
      BY <1>1, <1>5 DEF Execute, Succeeds
    <2>2. supply[MINT] + SetupAmount \in Amounts
      <3>1. supply[MINT] \in 0 .. MaxSupply
        BY <1>2, <1>4 DEF Amounts
      <3> QED BY <2>1, <3>1, Parameters DEF Amounts
    <2>3. Inv'
      BY <1>2, <2>1, <2>2, InvStep DEF Next
    <2>4. /\ registries' = registries /\ snapshots' = snapshots /\ now' = now
          /\ supply' = [supply EXCEPT ![MINT] = supply[MINT] + SetupAmount]
      BY <2>1 DEF ChangeSupply
    <2>5. supply'[MINT] = supply[MINT] + SetupAmount
      BY <1>2, <1>4, <2>4
    <2> QED BY <1>5, <2>3, <2>4, <2>5 DEF Inv, Exists
  <1>6. CASE tx.ix.op = "register"
    <2>1. InitializeAsset(BACKSTOP_ADMIN, MINT, SetupAssetId, tx.ix.attestor) /\ tx.ix.attestor = BACKSTOP_ADMIN
      BY <1>1, <1>6, SentBy DEF Execute
    <2>2. SetupAssetId \in AssetIds
      BY ScriptAssumption DEF SetupAssetId
    <2>3. Inv'
      BY <1>2, <2>1, <2>2, InvStep DEF Next
    <2> DEFINE account == [authority |-> BACKSTOP_ADMIN, mint |-> MINT, attestor |-> BACKSTOP_ADMIN,
                           latest_snapshot |-> DefaultKey, latest_snapshot_id |-> ZeroId,
                           has_snapshot |-> FALSE, asset_id |-> SetupAssetId]
    <2>4. /\ registries[MINT] = NoAccount /\ snapshots' = snapshots /\ supply' = supply /\ now' = now
          /\ registries' = [registries EXCEPT ![MINT] = account]
      BY <2>1 DEF InitializeAsset
    <2>5. account \in AssetRegistry
      BY <1>2, <2>2, IdAssumption DEF AssetRegistry
    <2>6. registries'[MINT] = account /\ registries'[MINT] # NoAccount
      BY <1>2, <1>3, <2>4, <2>5, NoAccountAssumption
    <2> QED BY <1>6, <2>3, <2>4, <2>6 DEF Inv, Exists
  <1>7. CASE tx.ix.op = "submit"
    <2> DEFINE key == MyPda(s)
    <2>1. SubmitSnapshot(BACKSTOP_ADMIN, MINT, s, tx.ix.backing, tx.ix.expires_at)
      BY <1>1, <1>7 DEF Execute, IdOf
    <2>2. tx.ix.backing \in Amounts /\ tx.ix.expires_at \in Timestamps /\ s \in SnapshotIds
      BY <1>1, <1>2 DEF Instructions
    <2>3. Inv'
      BY <1>2, <2>1, <2>2, InvStep DEF Next
    <2>4. key \in SnapshotKeys /\ Exists(key)'
      BY <1>2, <2>1, <2>2, SubmittedSnapshot DEF MyPda, Exists, SnapshotPda, SnapshotKeys
    <2>5. /\ registries[MINT] # NoAccount /\ snapshots[key] = NoAccount /\ supply' = supply /\ now' = now
          /\ registries' = [registries EXCEPT ![MINT] = PointTo(registries[MINT], key, s)]
          /\ snapshots' = [snapshots EXCEPT ![key] =
                 [registry |-> MINT, mint |-> MINT, asset_id |-> registries[MINT].asset_id,
                  observed_supply |-> supply[MINT], attested_backing |-> tx.ix.backing,
                  coverage_bps |-> CalculateCoverageBps(supply[MINT], tx.ix.backing), timestamp |-> now,
                  expires_at |-> tx.ix.expires_at, attestor |-> registries[MINT].attestor,
                  status |-> StatusOf(supply[MINT], tx.ix.backing)]]
      BY <2>1 DEF SubmitSnapshot, SnapshotInit, MyPda
    <2> HIDE DEF key
    <2>6. /\ snapshots'[key].attested_backing = tx.ix.backing
          /\ snapshots'[key].expires_at = tx.ix.expires_at
          /\ snapshots'[key].status = StatusOf(supply[MINT], tx.ix.backing)
          /\ \A other \in SnapshotKeys : other # key => snapshots'[other] = snapshots[other]
      BY <1>4, <2>4, <2>5
    <2>7. registries'[MINT] = PointTo(registries[MINT], key, s)
      BY <1>2, <1>3, <2>5
    <2>8. /\ registries'[MINT].latest_snapshot = key /\ registries'[MINT].has_snapshot = TRUE
          /\ registries'[MINT].attestor = registries[MINT].attestor
      <3>1. PICK registry \in AssetRegistry : registry = registries[MINT]
        BY <1>4, <2>5
      <3> DEFINE first == [registry EXCEPT !.latest_snapshot = key]
      <3> DEFINE second == [first EXCEPT !.latest_snapshot_id = s]
      <3>2. first.latest_snapshot = key /\ first.attestor = registry.attestor
        BY DEF AssetRegistry
      <3>3. second.latest_snapshot = key /\ second.attestor = registry.attestor
        BY <3>2 DEF AssetRegistry
      <3>4. PointTo(registry, key, s) = [second EXCEPT !.has_snapshot = TRUE]
        BY DEF PointTo
      <3>5. [second EXCEPT !.has_snapshot = TRUE].latest_snapshot = second.latest_snapshot
            /\ [second EXCEPT !.has_snapshot = TRUE].attestor = second.attestor
            /\ [second EXCEPT !.has_snapshot = TRUE].has_snapshot = TRUE
        BY DEF AssetRegistry
      <3> QED BY <2>7, <3>1, <3>3, <3>4, <3>5
    <2>9. registries'[MINT] # NoAccount
      <3>1. PointTo(registries[MINT], key, s) \in AssetRegistry
        BY <1>4, <2>2, <2>4, <2>5 DEF PointTo, AssetRegistry
      <3> QED BY <2>7, <3>1, NoAccountAssumption
    <2>10. \A other \in SnapshotKeys : Exists(other) => Exists(other)'
      BY <2>4, <2>6 DEF Exists
    <2>11. TypeOK' /\ ~Exists(key)
      BY <2>3, <2>5 DEF Inv, Exists
    <2> QED BY <1>7, <2>3, <2>4, <2>5, <2>6, <2>8, <2>9, <2>10, <2>11 DEF key
  <1>8. CASE tx.ix.op = "evaluate"
    <2>1. UNCHANGED programVars
      BY <1>1, <1>8 DEF Execute
    <2>2. Inv'
      BY <1>2, <2>1, InvStep DEF vars, programVars
    <2> QED BY <1>8, <2>1, <2>2 DEF Inv, Exists, programVars
  <1>9. CASE tx.ix.op = "rotate"
    <2>1. UpdateAttestor(BACKSTOP_ADMIN, MINT, tx.ix.attestor)
      BY <1>1, <1>9 DEF Execute
    <2>2. tx.ix.attestor \in Keys
      <3>1. runs[s].ix = tx.ix
        BY <1>9, SentBy
      <3>2. RunInv(s)
        BY <1>1, RunTypes
      <3> QED BY <1>9, <3>1, <3>2 DEF RunInv
    <2>3. Inv'
      BY <1>2, <2>1, <2>2, InvStep DEF Next
    <2>4. /\ registries[MINT] # NoAccount /\ snapshots' = snapshots /\ supply' = supply /\ now' = now
          /\ registries' = [registries EXCEPT ![MINT] = [registries[MINT] EXCEPT !.attestor = tx.ix.attestor]]
      BY <1>3, <2>1 DEF UpdateAttestor
    <2>5. registries'[MINT] = [registries[MINT] EXCEPT !.attestor = tx.ix.attestor]
      BY <1>2, <1>3, <2>4
    <2>6. /\ registries'[MINT].attestor = tx.ix.attestor /\ registries'[MINT] \in AssetRegistry
          /\ registries'[MINT].latest_snapshot = registries[MINT].latest_snapshot
          /\ registries'[MINT].has_snapshot = registries[MINT].has_snapshot
      BY <1>4, <2>2, <2>4, <2>5 DEF AssetRegistry
    <2>7. registries'[MINT] # NoAccount
      BY <2>6, NoAccountAssumption
    <2> QED BY <1>9, <2>3, <2>4, <2>6, <2>7 DEF Inv, Exists
  <1> QED BY <1>1, <1>5, <1>6, <1>7, <1>8, <1>9 DEF Execute

LEMMA LandsOkFinds ==
    ASSUME ScriptInv, NEW tx \in network, LandsOk(tx)
    PROVE  /\ NoteStatus(tx, "ok") /\ network' = network \ {tx} /\ before' = before
           /\ trouble \subseteq trouble' /\ accepted \subseteq accepted'
           /\ tx.ix.op = "evaluate" => tx.run \in accepted'
           /\ tx.ix.op # "evaluate" => \A q \in Runs : q # tx.run /\ Running(q) => q \in trouble'
  BY DEF LandsOk

LEMMA LandedDone ==
    ASSUME ScriptInv, NEW tx \in network, LandsOk(tx), NEW q \in Runs
    PROVE  DoneInv(q)'
  <1>1. /\ NoteStatus(tx, "ok") /\ network' = network \ {tx}
        /\ accepted \subseteq accepted' /\ DoneInv(q)
    BY LandsOkFinds, RunTypes
  <1>2. Exists(MyPda(q)) => Exists(MyPda(q))'
    BY Executed, Parameters DEF MyPda, SnapshotPda, SnapshotKeys
  <1>3. registries[MINT] # NoAccount => registries'[MINT] # NoAccount
    BY Executed
  <1>4. CASE ~Awaits(q, tx)
    <2>1. runs'[q] = runs[q]
      BY <1>1, <1>4, Noted
    <2> QED BY <1>1, <1>2, <1>3, <2>1, SameDone
  <1>5. CASE Awaits(q, tx)
    <2>1. q = tx.run /\ tx.ix = runs[q].ix /\ runs'[q].ix = runs[q].ix /\ runs'[q].result = runs[q].result
      BY <1>1, <1>5, Noted DEF Awaits
    <2>2. tx.ix.op = "submit" => Exists(MyPda(q))'
      BY <2>1, Executed
    <2>3. tx.ix.op = "evaluate" => q \in accepted'
      BY <2>1, LandsOkFinds
    <2> QED BY <1>1, <1>2, <1>3, <2>1, <2>2, <2>3 DEF DoneInv, MyPda
  <1> QED BY <1>4, <1>5

\* It was the only one its untroubled run had sent.
LEMMA LandedExpected ==
    ASSUME ScriptInv, NEW tx \in network, LandsOk(tx),
           NEW q \in Runs, tx.run = q, Running(q), q \notin trouble
    PROVE  /\ Awaits(q, tx) /\ runs'[q].status = "ok"
           /\ \A other \in network' : other.run # q
           /\ Expected(q)'
  <1>1. NoteStatus(tx, "ok") /\ network' = network \ {tx}
    BY LandsOkFinds
  <1>2. CauseInv(q) /\ SentInv(q)
    BY RunTypes
  <1>3. Awaits(q, tx) /\ Expected(q)
    BY <1>2 DEF CauseInv
  <1>4. /\ runs[q].phase = "confirming" /\ tx.ix = runs[q].ix /\ tx.attempt = runs[q].attempt
    BY <1>3 DEF Awaits
  <1>5. runs[q].status = "unknown" /\ ~Landed(q)
    BY <1>4, SentBy DEF Landed
  <1>6. /\ runs'[q].status = "ok" /\ runs'[q].ix = runs[q].ix /\ Landed(q)'
    BY <1>1, <1>3, Noted DEF Landed
  <1>7. \A other \in network' : other.run # q
    BY <1>1, <1>2, <1>3 DEF CauseInv, SentInv
  <1>8. now' = now /\ supply[MINT] \in Nat /\ SetupAmount \in Nat
    <2>1. supply[MINT] \in 0 .. MaxSupply
      BY Parameters DEF ScriptInv, Inv, TypeOK, Amounts
    <2>2. supply[MINT] \in Nat /\ SetupAmount \in Nat
      BY <2>1, Parameters
    <2> QED BY <2>2, Executed
  <1>9. CASE tx.ix.op = "mint"
    <2>1. registries[MINT] = NoAccount /\ supply[MINT] = 0
      BY <1>3, <1>4, <1>5, <1>9 DEF Expected
    <2>2. registries'[MINT] = NoAccount /\ supply'[MINT] = supply[MINT] + SetupAmount
      BY <1>9, <2>1, Executed
    <2>3. supply'[MINT] = SetupAmount
      BY <1>8, <2>1, <2>2
    <2> QED BY <1>3, <1>4, <1>6, <1>7, <1>9, <2>2, <2>3 DEF Expected
  <1>10. CASE tx.ix.op = "register"
    <2>1. supply[MINT] = SetupAmount
      BY <1>3, <1>4, <1>10 DEF Expected
    <2>2. /\ registries'[MINT] # NoAccount /\ registries'[MINT].attestor = BACKSTOP_ADMIN
          /\ supply'[MINT] = supply[MINT]
      BY <1>10, Executed
    <2> QED BY <1>3, <1>4, <1>6, <1>7, <1>10, <2>1, <2>2 DEF Expected
  <1>11. CASE tx.ix.op = "submit"
    <2>1. /\ registries[MINT] # NoAccount /\ registries[MINT].attestor = BACKSTOP_ADMIN
          /\ supply[MINT] = tx.ix.backing
          /\ now < tx.ix.expires_at /\ tx.ix.expires_at <= now + MAX_SNAPSHOT_VALIDITY_SECS
      BY <1>3, <1>4, <1>11 DEF Expected
    <2>2. /\ registries'[MINT] # NoAccount /\ registries'[MINT].attestor = BACKSTOP_ADMIN
          /\ supply'[MINT] = tx.ix.backing
          /\ now' < tx.ix.expires_at /\ tx.ix.expires_at <= now' + MAX_SNAPSHOT_VALIDITY_SECS
      BY <1>8, <1>11, <2>1, Executed
    <2>3. /\ Exists(MyPda(q))' /\ registries'[MINT].latest_snapshot = MyPda(q)
          /\ registries'[MINT].has_snapshot = TRUE
          /\ snapshots'[MyPda(q)].attested_backing = tx.ix.backing
          /\ snapshots'[MyPda(q)].expires_at = tx.ix.expires_at
          /\ snapshots'[MyPda(q)].status = StatusOf(supply[MINT], tx.ix.backing)
      BY <1>11, Executed
    <2>4. snapshots'[MyPda(q)].status = "Verified"
      BY <1>8, <2>1, <2>3 DEF StatusOf
    <2>5. Attested(q)'
      BY <1>4, <1>6, <2>3, <2>4 DEF Attested, MyPda
    <2> QED BY <1>3, <1>4, <1>6, <1>7, <1>11, <2>2, <2>5 DEF Expected
  <1>12. CASE tx.ix.op = "evaluate"
    <2>1. UNCHANGED programVars
      BY <1>12, Executed
    <2> QED BY <1>3, <1>4, <1>6, <1>7, <1>12, <2>1 DEF Expected, Attested, Exists, MyPda, programVars
  <1>13. CASE tx.ix.op = "rotate"
    <2>1. registries'[MINT] # NoAccount /\ registries'[MINT].attestor = tx.ix.attestor
      BY <1>13, Executed
    <2> QED BY <1>3, <1>4, <1>6, <1>7, <1>13, <2>1 DEF Expected
  <1>14. tx.ix.op \in {"mint", "register", "submit", "evaluate", "rotate"}
    BY Executed
  <1> QED BY <1>9, <1>10, <1>11, <1>12, <1>13, <1>14

LEMMA LandedCause ==
    ASSUME ScriptInv, NEW tx \in network, LandsOk(tx), NEW q \in Runs
    PROVE  CauseInv(q)'
  <1>1. /\ NoteStatus(tx, "ok") /\ network' = network \ {tx} /\ trouble \subseteq trouble'
        /\ CauseInv(q)
    BY LandsOkFinds, RunTypes
  <1>2. CASE q \in trouble
    BY <1>1, <1>2 DEF CauseInv
  <1>3. CASE q \notin trouble /\ ~Running(q)
    <2>1. ~Awaits(q, tx)
      BY <1>3 DEF Awaits, Running, Started, Ended
    <2>2. runs'[q] = runs[q] /\ ~Running(q)'
      BY <1>1, <1>3, <2>1, Noted
    <2> QED BY <1>1, <1>3, <2>2 DEF CauseInv
  <1>4. CASE q \notin trouble /\ Running(q) /\ tx.run # q
    <2>1. runs'[q] = runs[q]
      BY <1>1, <1>4, Noted DEF Awaits
    <2>2. CASE tx.ix.op = "evaluate"
      <3>1. UNCHANGED programVars
        BY <2>2, Executed
      <3>2. \A other \in network \cup network' : other.run = q => (other \in network <=> other \in network')
        BY <1>1, <1>4
      <3> QED BY <1>1, <2>1, <3>1, <3>2, SameCause
    <2>3. CASE tx.ix.op # "evaluate"
      <3>1. q \in trouble'
        BY <1>4, <2>3, LandsOkFinds
      <3> QED BY <3>1 DEF CauseInv
    <2> QED BY <2>2, <2>3
  <1>5. CASE q \notin trouble /\ Running(q) /\ tx.run = q
    <2>1. /\ Awaits(q, tx) /\ runs'[q].status = "ok" /\ Expected(q)'
          /\ \A other \in network' : other.run # q
      BY <1>5, LandedExpected
    <2>2. runs'[q].result = runs[q].result /\ runs'[q].phase = runs[q].phase /\ runs'[q].left = runs[q].left
      BY <1>1, Noted
    <2> QED BY <1>1, <1>5, <2>1, <2>2 DEF CauseInv
  <1> QED BY <1>2, <1>3, <1>4, <1>5

LEMMA LandedSnapshotOrder ==
    ASSUME ScriptInv, NEW tx \in network, LandsOk(tx)
    PROVE  SnapshotsInOrder'
  <1>1. before' = before /\ SnapshotsInOrder
    BY LandsOkFinds DEF ScriptInv, RunsStayInOrder
  <1>2. CASE tx.ix.op \notin {"register", "submit"}
    BY <1>1, <1>2, Executed, SnapshotsStill DEF Exists
  <1>3. CASE tx.ix.op = "register"
    <2>1. registries'[MINT].latest_snapshot = DefaultKey
      BY <1>3, Executed
    <2>2. \A a \in Runs : SnapshotPda(MINT, a) # DefaultKey
      BY Parameters, KeyAssumption DEF SnapshotPda
    <2> QED BY <2>1, <2>2 DEF SnapshotsInOrder
  \* Its run timed out and left nothing, or is complete and its snapshot there.
  <1>4. CASE tx.ix.op = "submit"
    <2>1. registries'[MINT].latest_snapshot = MyPda(tx.run) /\ ~Exists(MyPda(tx.run)) /\ tx.run \in Runs
      BY <1>4, Executed, NetworkTypes
    <2>2. ASSUME NEW a \in Runs, NEW b \in Runs, <<a, b>> \in before, SnapshotPda(MINT, a) = MyPda(tx.run)
          PROVE  FALSE
      <3>1. a = tx.run
        BY <2>2 DEF MyPda, SnapshotPda
      <3>2. runs[a].result = "complete"
        BY <2>2, <3>1, SentBy DEF ScriptInv, BeforeInv
      <3>3. runs[a].ix.op \in {"evaluate", "rotate"} /\ RunInv(a) /\ DoneInv(a)
        BY <3>2, RunTypes DEF RunInv
      <3>4. runs[a].ix.op \in {"submit", "evaluate"}
        BY <1>4, <3>1, SentBy, EarlierOps
      <3>5. Exists(MyPda(a))
        BY <3>3, <3>4 DEF DoneInv
      <3> QED BY <2>1, <3>1, <3>5
    <2> QED BY <1>1, <2>1, <2>2 DEF SnapshotsInOrder
  <1> QED BY <1>2, <1>3, <1>4

LEMMA LandedRotationOrder ==
    ASSUME ScriptInv, NEW tx \in network, LandsOk(tx)
    PROVE  RotationsInOrder'
  <1>1. NoteStatus(tx, "ok") /\ network' = network \ {tx} /\ before' = before /\ RotationsInOrder
    BY LandsOkFinds DEF ScriptInv, RunsStayInOrder
  <1>2. \A q \in Runs : /\ runs'[q].ix = runs[q].ix /\ runs'[q].result = runs[q].result
                        /\ runs'[q].attempt = runs[q].attempt
    BY <1>1, Noted
  <1>3. CASE tx.ix.op \notin {"register", "rotate"}
    BY <1>1, <1>2, <1>3, Executed, RotationsStill
  <1>4. CASE tx.ix.op = "register"
    <2>1. registries[MINT] = NoAccount
      BY <1>4, Executed
    <2>2. \A q \in Runs : runs[q].ix.op # "rotate"
      BY <2>1, RunTypes DEF DoneInv
    <2> QED BY <1>2, <2>2 DEF RotationsInOrder
  \* If it is late, its run had sent it twice.
  <1>5. CASE tx.ix.op = "rotate"
    <2> DEFINE c == tx.run
    <2>1. c \in Runs /\ tx.ix = runs[c].ix /\ registries'[MINT].attestor = runs[c].ix.attestor
      BY <1>5, Executed, NetworkTypes, SentBy
    <2>2. ASSUME NEW b \in Runs, <<c, b>> \in before
          PROVE  runs[c].attempt > 1
      <3>1. runs[c].result = "complete" /\ runs[c].attempt # 1
        BY <1>5, <2>1, <2>2, SentBy DEF ScriptInv, BeforeInv, SentOnce
      <3>2. runs[c].attempt \in Nat /\ runs[c].attempt >= 1
        BY <1>5, <2>1, RunTypes DEF RunInv
      <3> QED BY <3>1, <3>2
    <2> QED BY <1>1, <1>2, <1>5, <2>1, <2>2 DEF RotationsInOrder
  <1> QED BY <1>3, <1>4, <1>5

LEMMA LandsOkStep ==
    ASSUME ScriptInv, NEW tx \in network, LandsOk(tx)
    PROVE  ScriptInv'
  <1>1. NoteStatus(tx, "ok") /\ network' = network \ {tx} /\ before' = before
    BY LandsOkFinds
  <1>2. Inv' /\ TypeOK' /\ now' = now
    BY Executed
  <1>3. RunsInv'
    BY <1>1, NotedRuns, LandedDone, LandedCause DEF RunsInv
  <1>4. AuthorsInv'
    <2>1. ASSUME NEW key \in SnapshotKeys, Exists(key)'
          PROVE  key[1] = MINT /\ key[2] \in Runs /\ runs[key[2]].ix.op \in {"submit", "evaluate"}
      <3>1. CASE Exists(key)
        BY <3>1 DEF ScriptInv, AuthorsInv
      <3>2. CASE ~Exists(key)
        <4>1. tx.ix.op = "submit" /\ key = MyPda(tx.run)
          BY <2>1, <3>2, Executed DEF Exists
        <4>2. key[1] = MINT /\ key[2] = tx.run /\ tx.run \in Runs
          BY <4>1, NetworkTypes DEF MyPda, SnapshotPda
        <4> QED BY <4>1, <4>2, SentBy, EarlierOps
      <3> QED BY <3>1, <3>2
    <2> QED BY <1>1, <2>1, Noted DEF AuthorsInv
  <1>5. SetupInv'
    <2>1. Unclocked' => Unclocked
      BY <1>1, Executed, Noted DEF Unclocked
    <2>2. tx.run \in Runs /\ Started(tx.run)
      <3>1. tx.run \in Runs /\ RunInv(tx.run)
        BY NetworkTypes, RunTypes
      <3>2. runs[tx.run].ix.op # "none"
        BY SentBy DEF Earlier
      <3> QED BY <3>1, <3>2 DEF RunInv, Started
    <2>3. Started(tx.run)'
      BY <1>1, <2>2, Noted
    <2> QED BY <1>2, <2>1, <2>2, <2>3 DEF ScriptInv, SetupInv
  <1>6. RunsStayInOrder'
    BY LandedSnapshotOrder, LandedRotationOrder DEF RunsStayInOrder
  <1>7. ScriptTypeOK' /\ BeforeInv' /\ FinitelyManyStarted'
    BY <1>1, <1>2, NotedRest
  <1> QED BY <1>2, <1>3, <1>4, <1>5, <1>6, <1>7 DEF ScriptInv

-----------------------------------------------------------------------------
(* Outside. *)

\* Whoever is under way has a reason to fail from now on.
LEMMA SupplyMovesStep ==
    ASSUME ScriptInv, NEW amount \in Supplies, SupplyMoves(amount)
    PROVE  ScriptInv'
  <1>1. /\ registries[MINT] # NoAccount /\ ChangeSupply(MINT, amount)
        /\ runs' = runs /\ network' = network /\ before' = before /\ accepted' = accepted
        /\ trouble \subseteq trouble' /\ \A q \in Runs : Running(q) => q \in trouble'
    BY DEF SupplyMoves, Operable
  <1>2. registries' = registries /\ snapshots' = snapshots /\ now' = now
    BY <1>1 DEF ChangeSupply
  <1>3. Inv'
    <2>1. amount \in Amounts
      BY ScriptAssumption
    <2> QED BY <1>1, <2>1, Parameters, InvStep DEF ScriptInv, Next
  <1>4. RunsInv'
    <2>1. ASSUME NEW q \in Runs
          PROVE  RunInv(q)' /\ SentInv(q)' /\ DoneInv(q)' /\ CauseInv(q)'
      <3>1. RunInv(q) /\ SentInv(q) /\ DoneInv(q) /\ CauseInv(q)
        BY RunTypes
      <3>2. RunInv(q)' /\ SentInv(q)'
        BY <1>1, <3>1, SameRun
      <3>3. DoneInv(q)'
        BY <1>1, <1>2, <3>1, SameDone DEF Exists, MyPda
      <3>4. CauseInv(q)'
        BY <1>1, <3>1 DEF CauseInv, Running, Started, Ended
      <3> QED BY <3>2, <3>3, <3>4
    <2> QED BY <2>1 DEF RunsInv
  <1>5. ScriptTypeOK' /\ AuthorsInv' /\ BeforeInv' /\ FinitelyManyStarted'
    BY <1>1, <1>2, <1>3 DEF ScriptInv, Inv, ScriptTypeOK, AuthorsInv, Exists, BeforeInv, FinitelyManyStarted, Started, Ended
  <1>6. SetupInv'
    BY <1>1, <1>2 DEF ScriptInv, SetupInv, Unclocked, Running, Started, Ended
  <1>7. RunsStayInOrder'
    BY <1>1, <1>2, SnapshotsStill, RotationsStill DEF ScriptInv, RunsStayInOrder, Exists
  <1> QED BY <1>3, <1>4, <1>5, <1>6, <1>7 DEF ScriptInv

\* What a tick does to the runs and the network.
Older(tx) == [tx EXCEPT !.left = @ - 1]

LEMMA OlderIs ==
    ASSUME ScriptInv, NEW tx \in network, tx.left > 0
    PROVE  /\ Older(tx) \in Transactions
           /\ Older(tx).run = tx.run /\ Older(tx).ix = tx.ix /\ Older(tx).attempt = tx.attempt
           /\ Older(tx).left = tx.left - 1
  <1>1. tx.left \in 0 .. BlockhashLife /\ tx \in Transactions
    BY NetworkTypes DEF Transactions
  <1>2. tx.left - 1 \in 0 .. BlockhashLife
    BY <1>1, Parameters
  <1> QED BY <1>1, <1>2 DEF Older, Transactions

LEMMA TickFinds ==
    ASSUME ScriptInv, Tick
    PROVE  /\ registries' = registries /\ snapshots' = snapshots /\ supply' = supply
           /\ before' = before /\ accepted' = accepted /\ trouble \subseteq trouble'
           /\ Inv' /\ now \in Nat /\ now' \in Nat /\ now <= now' /\ (Unclocked => now' = now)
           /\ network' = {Older(tx) : tx \in {t \in network : t.left > 0}}
           /\ \A tx \in network : tx.left > 0 \/ tx.run \in trouble'
           /\ \A q \in Runs : Running(q) /\ runs[q].ix.op \in {"submit", "evaluate"} /\ q \notin trouble' =>
                  now' < runs[q].ix.expires_at
  <1>1. /\ before' = before /\ accepted' = accepted /\ trouble \subseteq trouble'
        /\ network' = {Older(tx) : tx \in {t \in network : t.left > 0}}
    BY DEF Tick, Older
  <1>2. /\ registries' = registries /\ snapshots' = snapshots /\ supply' = supply
        /\ now' = now + 1 \/ now' = now
        /\ Unclocked => now' = now
    BY DEF Tick, AdvanceClock, programVars
  <1>3. Inv'
    <2>1. CASE AdvanceClock
      BY <2>1, InvStep DEF ScriptInv, Next
    <2>2. CASE UNCHANGED programVars
      BY <2>2, InvStep DEF ScriptInv, vars, programVars
    <2> QED BY <2>1, <2>2 DEF Tick
  <1>4. now \in Nat
    <2>1. now \in 0 .. MaxTime
      BY DEF ScriptInv, Inv, TypeOK, Timestamps
    <2> QED BY <2>1, Parameters
  <1>5. now' \in Nat /\ now <= now'
    BY <1>2, <1>4
  <1>6. \A tx \in network : tx.left > 0 \/ tx.run \in trouble'
    <2>1. \A tx \in network : tx.left = 0 => tx.run \in trouble'
      BY DEF Tick
    <2>2. \A tx \in network : tx.left \in Nat
      BY NetworkTypes
    <2> QED BY <2>1, <2>2
  <1>7. ASSUME NEW q \in Runs, Running(q), runs[q].ix.op \in {"submit", "evaluate"}, q \notin trouble'
        PROVE  now' < runs[q].ix.expires_at
    <2>1. ~(now' >= runs[q].ix.expires_at)
      BY <1>7 DEF Tick
    <2>2. runs[q].ix.expires_at \in 0 .. MaxTime
      BY RunTypes DEF Instructions, Timestamps
    <2>3. runs[q].ix.expires_at \in Int
      BY <2>2, Parameters
    <2> QED BY <1>5, <2>1, <2>3
  <1> QED BY <1>1, <1>2, <1>3, <1>4, <1>5, <1>6, <1>7

LEMMA TickRuns ==
    ASSUME ScriptInv, Tick
    PROVE  /\ runs' \in [Runs -> RunRecords]
           /\ \A q \in Runs : /\ runs'[q].phase = runs[q].phase /\ runs'[q].ix = runs[q].ix
                              /\ runs'[q].attempt = runs[q].attempt /\ runs'[q].status = runs[q].status
                              /\ runs'[q].result = runs[q].result
                              /\ runs[q].phase = "confirming" =>
                                     /\ runs[q].left > 0 /\ runs'[q].left = runs[q].left - 1
                                     /\ runs[q].status # "ok"
           /\ \A q \in Runs : Started(q)' = Started(q) /\ Ended(q)' = Ended(q) /\ Running(q)' = Running(q)
  <1>1. ASSUME NEW q \in Runs
        PROVE  /\ runs'[q] \in RunRecords
               /\ runs'[q].phase = runs[q].phase /\ runs'[q].ix = runs[q].ix
               /\ runs'[q].attempt = runs[q].attempt /\ runs'[q].status = runs[q].status
               /\ runs'[q].result = runs[q].result
               /\ runs[q].phase = "confirming" =>
                      /\ runs[q].left > 0 /\ runs'[q].left = runs[q].left - 1
                      /\ runs[q].status # "ok"
    <2>1. runs[q] \in RunRecords /\ runs[q].left \in 0 .. CONFIRM_TIMEOUT
      BY RunTypes DEF RunRecords
    <2>2. runs'[q] = IF runs[q].phase = "confirming" THEN [runs[q] EXCEPT !.left = @ - 1] ELSE runs[q]
      BY DEF Tick
    <2>3. CASE runs[q].phase = "confirming"
      <3>1. runs[q].left > 0 /\ runs[q].status # "ok"
        BY <2>3 DEF Tick
      <3>2. runs[q].left - 1 \in 0 .. CONFIRM_TIMEOUT
        BY <2>1, <3>1, Parameters
      <3>3. runs'[q] = [runs[q] EXCEPT !.left = runs[q].left - 1]
        BY <2>2, <2>3
      <3> QED BY <2>1, <3>1, <3>2, <3>3 DEF RunRecords
    <2>4. CASE runs[q].phase # "confirming"
      BY <2>1, <2>2, <2>4
    <2> QED BY <2>3, <2>4
  <1>2. runs' \in [Runs -> RunRecords]
    BY <1>1 DEF Tick
  <1>3. \A q \in Runs : Started(q)' = Started(q) /\ Ended(q)' = Ended(q) /\ Running(q)' = Running(q)
    BY <1>1 DEF Started, Ended, Running
  <1> QED BY <1>1, <1>2, <1>3

LEMMA TickNetwork ==
    ASSUME ScriptInv, Tick
    PROVE  /\ network' \subseteq Transactions
           /\ \A new \in network' : \E tx \in network :
                  /\ tx.left > 0 /\ new = Older(tx)
                  /\ new.run = tx.run /\ new.ix = tx.ix /\ new.attempt = tx.attempt
                  /\ new.left = tx.left - 1
           /\ \A q \in Runs, tx \in network : tx.left > 0 => Older(tx) \in network' /\ (Awaits(q, Older(tx))' <=> Awaits(q, tx))
  <1>1. \A new \in network' : \E tx \in network : tx.left > 0 /\ new = Older(tx)
    BY TickFinds
  <1>2. \A tx \in network : tx.left > 0 => Older(tx) \in network'
    BY TickFinds
  <1>3. ASSUME NEW q \in Runs, NEW tx \in network, tx.left > 0
        PROVE  Awaits(q, Older(tx))' <=> Awaits(q, tx)
    <2>1. /\ Older(tx)' = Older(tx)
          /\ Older(tx).run = tx.run /\ Older(tx).ix = tx.ix /\ Older(tx).attempt = tx.attempt
      BY <1>3, OlderIs DEF Older
    <2>2. runs'[q].phase = runs[q].phase /\ runs'[q].ix = runs[q].ix /\ runs'[q].attempt = runs[q].attempt
      BY TickRuns
    <2> QED BY <2>1, <2>2 DEF Awaits
  <1> QED BY <1>1, <1>2, <1>3, OlderIs

LEMMA TickSent ==
    ASSUME ScriptInv, Tick, NEW q \in Runs
    PROVE  RunInv(q)' /\ SentInv(q)'
  <1>1. RunInv(q) /\ SentInv(q) /\ runs[q].left \in Nat
    BY RunTypes
  <1>2. /\ runs'[q].phase = runs[q].phase /\ runs'[q].ix = runs[q].ix
        /\ runs'[q].attempt = runs[q].attempt /\ runs'[q].status = runs[q].status
        /\ runs'[q].result = runs[q].result
        /\ runs[q].phase = "confirming" => runs'[q].left = runs[q].left - 1
        /\ Running(q)' = Running(q)
    BY TickRuns
  <1>3. RunInv(q)'
    BY <1>1, <1>2 DEF RunInv
  <1>4. ASSUME NEW new \in network', new.run = q
        PROVE  /\ new.ix.op \in Earlier(runs[q].ix.op)
               /\ new.ix.op = "register" => new.ix.attestor = BACKSTOP_ADMIN
               /\ new.ix.op = "rotate" => new.ix = runs[q].ix /\ new.attempt <= runs[q].attempt
               /\ Running(q) /\ new.ix.op = runs[q].ix.op /\ runs[q].phase # "checking supply" =>
                      new.ix = runs[q].ix /\ new.attempt <= runs[q].attempt
               /\ runs[q].phase = "confirming" => new.left < runs'[q].left
               /\ Running(q) /\ new.ix = runs[q].ix /\ new.attempt = runs[q].attempt =>
                      runs[q].phase = "confirming" /\ runs[q].status = "unknown"
               /\ runs[q].result # "timed out"
               /\ ~(runs[q].result = "complete" /\ runs[q].ix.op = "rotate" /\ SentOnce(q))
    <2>1. PICK tx \in network : /\ new.run = tx.run /\ new.ix = tx.ix /\ new.attempt = tx.attempt
                                /\ new.left = tx.left - 1
      BY TickNetwork
    <2>2. tx.left \in Nat /\ tx.run = q
      BY <1>4, <2>1, NetworkTypes
    <2>3. runs[q].phase = "confirming" => tx.left < runs[q].left
      BY <2>2, SentBy
    <2>4. runs[q].phase = "confirming" => new.left < runs'[q].left
      BY <1>1, <1>2, <2>1, <2>2, <2>3
    <2> QED BY <2>1, <2>2, <2>4, SentBy
  <1>5. ASSUME NEW new \in network', NEW other \in network', Awaits(q, new)', Awaits(q, other)'
        PROVE  new = other
    <2>1. PICK tx \in network : tx.left > 0 /\ new = Older(tx)
      BY TickNetwork
    <2>2. PICK oth \in network : oth.left > 0 /\ other = Older(oth)
      BY TickNetwork
    <2>3. Awaits(q, Older(tx))' /\ Awaits(q, Older(oth))'
      BY <1>5, <2>1, <2>2 DEF Awaits
    <2>4. Awaits(q, tx) /\ Awaits(q, oth)
      BY <2>1, <2>2, <2>3, TickNetwork
    <2> QED BY <1>1, <2>1, <2>2, <2>4 DEF SentInv
  <1> QED BY <1>2, <1>3, <1>4, <1>5 DEF SentInv, SentOnce

\* A transaction outlives the blockhash only as its run's trouble, and the run
\* waits for longer than that.
LEMMA TickCause ==
    ASSUME ScriptInv, Tick, NEW q \in Runs
    PROVE  CauseInv(q)'
  <1>1. CauseInv(q) /\ SentInv(q) /\ runs[q].left \in Nat
    BY RunTypes
  <1>2. /\ runs'[q].phase = runs[q].phase /\ runs'[q].ix = runs[q].ix
        /\ runs'[q].status = runs[q].status /\ runs'[q].result = runs[q].result
        /\ Running(q)' = Running(q)
    BY TickRuns
  <1>3. CASE q \in trouble'
    BY <1>3 DEF CauseInv
  <1>4. CASE q \notin trouble' /\ ~Running(q)
    BY <1>1, <1>2, <1>4, TickFinds DEF CauseInv
  <1>5. CASE q \notin trouble' /\ Running(q)
    <2>1. /\ q \notin trouble /\ runs[q].result \notin {"failed", "timed out", "mismatch"}
          /\ runs[q].status # "err" /\ Expected(q)
          /\ \A tx \in network : tx.run = q => Awaits(q, tx)
          /\ runs[q].phase = "confirming" /\ runs[q].status = "unknown" => \E tx \in network : Awaits(q, tx)
      BY <1>1, <1>5, TickFinds DEF CauseInv
    <2>2. ASSUME NEW new \in network', new.run = q
          PROVE  Awaits(q, new)'
      <3>1. PICK tx \in network : tx.left > 0 /\ new = Older(tx) /\ new.run = tx.run
        BY TickNetwork
      <3>2. Awaits(q, Older(tx))'
        BY <2>1, <2>2, <3>1, TickNetwork
      <3> QED BY <3>1, <3>2 DEF Awaits
    <2>3. ASSUME runs[q].phase = "confirming"
          PROVE  runs'[q].left > 0 /\ \E new \in network' : Awaits(q, new)'
      <3>1. runs[q].status = "unknown"
        <4>1. runs[q].status \in {"unknown", "ok", "err"}
          BY RunTypes DEF RunRecords
        <4> QED BY <2>1, <2>3, <4>1, TickRuns
      <3>2. PICK tx \in network : Awaits(q, tx)
        BY <2>1, <2>3, <3>1
      <3>3. tx.run = q /\ tx.left \in Nat /\ tx.left > 0 /\ tx.left < runs[q].left
        BY <1>5, <2>3, <3>2, NetworkTypes, SentBy, TickFinds DEF Awaits
      <3>4. runs'[q].left > 0
        BY <1>1, <2>3, <3>3, TickRuns
      <3>5. Older(tx) \in network' /\ Awaits(q, Older(tx))'
        BY <3>2, <3>3, TickNetwork
      <3>6. PICK new : new = Older(tx)
        OBVIOUS
      <3>7. new \in network' /\ Awaits(q, new)'
        BY <3>5, <3>6 DEF Awaits
      <3> QED BY <3>4, <3>7
    <2>4. Expected(q)'
      <3>1. registries' = registries /\ snapshots' = snapshots /\ supply' = supply
        BY TickFinds
      <3>2. runs[q].ix.op \in {"submit", "evaluate"} => now' < runs[q].ix.expires_at
        BY <1>5, TickFinds
      <3>3. runs[q].ix.op = "submit" => runs[q].ix.expires_at <= now' + MAX_SNAPSHOT_VALIDITY_SECS
        <4>1. now \in Nat /\ now' \in Nat /\ now <= now' /\ MAX_SNAPSHOT_VALIDITY_SECS \in Nat
          BY TickFinds, Parameters
        <4>2. runs[q].ix.expires_at \in Int
          <5>1. runs[q].ix.expires_at \in 0 .. MaxTime
            BY RunTypes DEF Instructions, Timestamps
          <5> QED BY <5>1, Parameters
        <4>3. runs[q].ix.op = "submit" => runs[q].ix.expires_at <= now + MAX_SNAPSHOT_VALIDITY_SECS
          BY <2>1 DEF Expected
        <4> QED BY <4>1, <4>2, <4>3
      <3>4. Landed(q)' = Landed(q) /\ (Attested(q) => Attested(q)')
        BY <1>2, <3>1 DEF Landed, Attested, Exists, MyPda
      <3>5. ~Exists(MyPda(q)) => ~Exists(MyPda(q))'
        BY <3>1 DEF Exists, MyPda
      <3> QED BY <1>2, <2>1, <3>1, <3>2, <3>3, <3>4, <3>5 DEF Expected
    <2> QED BY <1>2, <1>5, <2>1, <2>2, <2>3, <2>4 DEF CauseInv
  <1> QED BY <1>3, <1>4, <1>5

LEMMA TickStep ==
    ASSUME ScriptInv, Tick
    PROVE  ScriptInv'
  <1>1. /\ registries' = registries /\ snapshots' = snapshots /\ supply' = supply
        /\ before' = before /\ accepted' = accepted /\ Inv'
        /\ Unclocked => now' = now
    BY TickFinds
  <1>2. /\ \A q \in Runs : /\ runs'[q].phase = runs[q].phase /\ runs'[q].ix = runs[q].ix
                           /\ runs'[q].attempt = runs[q].attempt /\ runs'[q].status = runs[q].status
                           /\ runs'[q].result = runs[q].result
        /\ \A q \in Runs : Started(q)' = Started(q) /\ Ended(q)' = Ended(q) /\ Running(q)' = Running(q)
    BY TickRuns
  <1>3. ScriptTypeOK'
    <2>1. runs' \in [Runs -> RunRecords] /\ network' \subseteq Transactions
      BY TickRuns, TickNetwork
    <2>2. \A q \in Runs : Ended(q)' <=> runs'[q].result # "none"
      BY <1>2 DEF ScriptInv, ScriptTypeOK
    <2> QED BY <1>1, <2>1, <2>2 DEF ScriptTypeOK, Inv
  <1>4. RunsInv'
    <2>1. ASSUME NEW q \in Runs
          PROVE  DoneInv(q)'
      BY <1>1, <1>2, RunTypes DEF DoneInv, Exists, MyPda
    <2> QED BY <2>1, TickSent, TickCause DEF RunsInv
  <1>5. AuthorsInv'
    BY <1>1, <1>2 DEF ScriptInv, AuthorsInv, Exists
  <1>6. SetupInv'
    <2>1. Unclocked' => Unclocked
      BY <1>1, <1>2 DEF Unclocked
    <2> QED BY <1>1, <1>2, <2>1 DEF ScriptInv, SetupInv
  <1>7. BeforeInv' /\ FinitelyManyStarted'
    BY <1>1, <1>2 DEF ScriptInv, BeforeInv, FinitelyManyStarted
  <1>8. RunsStayInOrder'
    BY <1>1, <1>2, SnapshotsStill, RotationsStill DEF ScriptInv, RunsStayInOrder, Exists
  <1> QED BY <1>1, <1>3, <1>4, <1>5, <1>6, <1>7, <1>8 DEF ScriptInv

-----------------------------------------------------------------------------
LEMMA ScriptInvInit ==
    ASSUME ScriptInit
    PROVE  ScriptInv
  <1> DEFINE Fresh(m) == [authority |-> BACKSTOP_ADMIN, mint |-> m, attestor |-> BACKSTOP_ADMIN,
                          latest_snapshot |-> DefaultKey, latest_snapshot_id |-> ZeroId,
                          has_snapshot |-> FALSE, asset_id |-> SetupAssetId]
  <1>1. /\ snapshots = [k \in SnapshotKeys |-> NoAccount] /\ now = 0 /\ outcome = NoOutcome
        /\ runs = [p \in Runs |-> IdleRun] /\ network = {} /\ before = {} /\ accepted = {} /\ trouble = {}
    BY DEF ScriptInit
  <1>2. ASSUME NEW m \in Mints
        PROVE  Fresh(m) \in AssetRegistry /\ Fresh(m) # NoAccount
    <2>1. SetupAssetId \in AssetIds
      BY ScriptAssumption DEF SetupAssetId
    <2>2. Fresh(m) \in AssetRegistry
      BY <2>1, KeyAssumption, IdAssumption DEF AssetRegistry
    <2> QED BY <2>2, NoAccountAssumption
  <1>3. /\ registries \in [Mints -> AssetRegistry \cup {NoAccount}]
        /\ RegistryInv
        /\ supply \in [Mints -> Amounts]
        /\ registries[MINT] = NoAccount => supply[MINT] = 0
    <2>1. CASE registries = [m \in Mints |-> Fresh(m)] /\ supply \in [Mints -> Supplies]
      <3>1. registries \in [Mints -> AssetRegistry \cup {NoAccount}] /\ \A m \in Mints : registries[m] = Fresh(m)
        BY <1>2, <2>1
      <3>2. RegistryInv
        BY <3>1 DEF RegistryInv
      <3>3. supply \in [Mints -> Amounts]
        BY <2>1, ScriptAssumption
      <3> QED BY <1>2, <3>1, <3>2, <3>3, Parameters
    <2>2. CASE registries = [m \in Mints |-> NoAccount] /\ supply = [m \in Mints |-> 0]
      BY <2>2, Zeros, Parameters DEF RegistryInv
    <2> QED BY <2>1, <2>2 DEF ScriptInit
  <1>4. \A key \in SnapshotKeys : ~Exists(key)
    BY <1>1 DEF Exists
  <1>5. Inv
    BY <1>1, <1>3, <1>4, Zeros DEF Inv, TypeOK, SnapshotInv
  <1>6. \A p \in Runs : runs[p] = IdleRun
    BY <1>1
  <1>7. ScriptTypeOK
    <2>1. runs \in [Runs -> RunRecords]
      BY <1>1, IdleRunType
    <2>2. \A p \in Runs : Ended(p) <=> runs[p].result # "none"
      BY <1>6, IdleRunType DEF Ended
    <2> QED BY <1>1, <1>5, <2>1, <2>2 DEF ScriptTypeOK, Inv
  <1>8. RunsInv
    <2>1. ASSUME NEW p \in Runs
          PROVE  RunInv(p) /\ SentInv(p) /\ DoneInv(p) /\ CauseInv(p)
      <3>1. /\ runs[p].phase = "idle" /\ runs[p].ix.op = "none" /\ runs[p].status = "unknown"
            /\ runs[p].result = "none" /\ ~Running(p)
        BY <1>6, IdleRunType, InstructionTypes DEF Running, Started
      <3> QED BY <1>1, <3>1 DEF RunInv, SentInv, DoneInv, CauseInv
    <2> QED BY <2>1 DEF RunsInv
  <1>9. AuthorsInv /\ SetupInv /\ BeforeInv
    BY <1>1, <1>3, <1>4 DEF AuthorsInv, SetupInv, BeforeInv
  <1>10. FinitelyManyStarted
    <2>1. {p \in Runs : Started(p)} = {}
      BY <1>6, IdleRunType DEF Started
    <2> QED BY <2>1, FS_EmptySet DEF FinitelyManyStarted
  <1>11. RunsStayInOrder
    BY <1>4, <1>1, <1>6, IdleRunType DEF RunsStayInOrder, SnapshotsInOrder, RotationsInOrder
  <1> QED BY <1>5, <1>7, <1>8, <1>9, <1>10, <1>11 DEF ScriptInv

LEMMA ScriptStutter ==
    ASSUME ScriptInv, UNCHANGED scriptVars
    PROVE  ScriptInv'
  <1>1. /\ registries' = registries /\ snapshots' = snapshots /\ supply' = supply /\ now' = now
        /\ outcome' = outcome /\ UNCHANGED programVars
        /\ runs' = runs /\ network' = network /\ before' = before /\ accepted' = accepted /\ trouble' = trouble
    BY DEF scriptVars, programVars
  <1>2. Inv'
    BY <1>1, InvStep DEF ScriptInv, vars
  <1>3. RunsInv'
    <2>1. ASSUME NEW q \in Runs
          PROVE  RunInv(q)' /\ SentInv(q)' /\ DoneInv(q)' /\ CauseInv(q)'
      BY <1>1, RunTypes, SameRun, SameDone, SameCause DEF Exists, MyPda
    <2> QED BY <2>1 DEF RunsInv
  <1>4. ScriptTypeOK' /\ AuthorsInv' /\ BeforeInv' /\ FinitelyManyStarted'
    BY <1>1, <1>2 DEF ScriptInv, Inv, ScriptTypeOK, AuthorsInv, Exists, BeforeInv, FinitelyManyStarted, Started, Ended
  <1>5. SetupInv'
    BY <1>1 DEF ScriptInv, SetupInv, Unclocked, Running, Started, Ended
  <1>6. RunsStayInOrder'
    BY <1>1, SnapshotsStill, RotationsStill DEF ScriptInv, RunsStayInOrder, Exists
  <1> QED BY <1>2, <1>3, <1>4, <1>5, <1>6 DEF ScriptInv

LEMMA ScriptInvStep ==
    ASSUME ScriptInv, [ScriptNext]_scriptVars
    PROVE  ScriptInv'
  <1>1. CASE \E p \in Runs, wallet \in Keys : RefuseWallet(p, wallet)
    BY <1>1, RefuseWalletStep
  <1>2. CASE \E p \in Runs, wallet \in Keys : StartRefresh(p, wallet)
    BY <1>2, StartRefreshStep
  <1>3. CASE \E p \in Runs, wallet \in Keys : StartSetup(p, wallet)
    BY <1>3, StartSetupStep
  <1>4. CASE \E p \in Runs, wallet \in Keys : RefuseSetup(p, wallet)
    BY <1>4, RefuseSetupStep
  <1>5. CASE \E p \in Runs, wallet \in Keys, k \in Keys : StartRotation(p, wallet, k)
    BY <1>5, StartRotationStep
  <1>6. CASE \E p \in Runs, wallet \in Keys : RefuseRotation(p, wallet)
    BY <1>6, RefuseRotationStep
  <1>7. CASE \E p \in Runs : StartFails(p)
    BY <1>7, StartFailsStep
  <1>8. CASE \E p \in Runs : SendFails(p)
    BY <1>8, SendFailsStep
  <1>9. CASE \E p \in Runs : PreflightRejects(p)
    BY <1>9, PreflightRejectsStep
  <1>10. CASE \E p \in Runs : Send(p)
    BY <1>10, SendStep
  <1>11. CASE \E p \in Runs : SendUnanswered(p)
    BY <1>11, SendUnansweredStep
  <1>12. CASE \E p \in Runs : Confirmed(p)
    BY <1>12, ConfirmedStep
  <1>13. CASE \E p \in Runs : Rejected(p)
    BY <1>13, RejectedStep
  <1>14. CASE \E p \in Runs : TimesOut(p)
    BY <1>14, TimesOutStep
  <1>15. CASE \E p \in Runs : MintAgain(p)
    BY <1>15, MintAgainStep
  <1>16. CASE \E p \in Runs : CheckSupply(p)
    BY <1>16, CheckSupplyStep
  <1>17. CASE \E p \in Runs : ReadBack(p)
    BY <1>17, ReadBackStep
  <1>18. CASE \E p \in Runs : ReadBackLags(p)
    BY <1>18, ReadBackLagsStep
  <1>19. CASE \E p \in Runs : CallFails(p)
    BY <1>19, CallFailsStep
  <1>20. CASE \E tx \in network : LandsOk(tx)
    BY <1>20, LandsOkStep
  <1>21. CASE \E tx \in network : LandsErr(tx)
    BY <1>21, LandsErrStep
  <1>22. CASE \E amount \in Supplies : SupplyMoves(amount)
    BY <1>22, SupplyMovesStep
  <1>23. CASE Tick
    BY <1>23, TickStep
  <1>24. CASE UNCHANGED scriptVars
    BY <1>24, ScriptStutter
  <1> QED BY <1>1, <1>2, <1>3, <1>4, <1>5, <1>6, <1>7, <1>8, <1>9, <1>10, <1>11, <1>12, <1>13, <1>14,
             <1>15, <1>16, <1>17, <1>18, <1>19, <1>20, <1>21, <1>22, <1>23, <1>24 DEF ScriptNext

\* What lands is one of the instructions, with arguments of the types the
\* program's steps are taken with.
LEMMA LandsOkTakesStep ==
    ASSUME ScriptInv, NEW tx \in network, LandsOk(tx)
    PROVE  [Next]_vars
  <1>1. /\ Execute(tx) /\ tx.run \in SnapshotIds /\ tx.ix \in Instructions
        /\ MINT \in Mints /\ BACKSTOP_ADMIN \in Keys
    BY NetworkTypes, Parameters DEF LandsOk
  <1>2. CASE tx.ix.op = "mint"
    <2>1. ChangeSupply(MINT, supply[MINT] + SetupAmount)
      BY <1>1, <1>2 DEF Execute
    <2>2. supply'[MINT] = supply[MINT] + SetupAmount /\ TypeOK'
      BY <1>2, Executed
    <2>3. supply[MINT] + SetupAmount \in Amounts
      BY <1>1, <2>2 DEF TypeOK
    <2> QED BY <1>1, <2>1, <2>3 DEF Next
  <1>3. CASE tx.ix.op = "register"
    <2>1. SetupAssetId \in AssetIds /\ tx.ix.attestor = BACKSTOP_ADMIN
      BY <1>3, SentBy, ScriptAssumption DEF SetupAssetId
    <2> QED BY <1>1, <1>3, <2>1 DEF Execute, Next
  <1>4. CASE tx.ix.op = "submit"
    <2>1. tx.ix.backing \in Amounts /\ tx.ix.expires_at \in Timestamps
      BY <1>1 DEF Instructions
    <2> QED BY <1>1, <1>4, <2>1 DEF Execute, IdOf, Next
  <1>5. CASE tx.ix.op = "evaluate"
    BY <1>1, <1>5 DEF Execute, programVars, vars
  <1>6. CASE tx.ix.op = "rotate"
    <2>1. RunInv(tx.run) /\ tx.ix = runs[tx.run].ix
      BY <1>6, NetworkTypes, RunTypes, SentBy
    <2>2. tx.ix.attestor \in Keys
      BY <1>6, <2>1 DEF RunInv
    <2> QED BY <1>1, <1>6, <2>2 DEF Execute, Next
  <1> QED BY <1>2, <1>3, <1>4, <1>5, <1>6, Executed

-----------------------------------------------------------------------------
(* The results. *)

\* What every property of the scripts rests on: each run, its transactions and
\* the chain agree about how far it has come.
THEOREM ScriptInvHolds == ScriptSpec => []ScriptInv
  <1>1. ScriptInit => ScriptInv
    BY ScriptInvInit
  <1>2. ScriptInv /\ [ScriptNext]_scriptVars => ScriptInv'
    BY ScriptInvStep
  <1> QED BY <1>1, <1>2, PTL DEF ScriptSpec

\* The state keeps its shape, and the scripts, whatever the network does with
\* what they send, never take the supply or the clock out of their bounds.
THEOREM ScriptTypeCorrect == ScriptSpec => []ScriptTypeOK
  <1>1. ScriptInv => ScriptTypeOK
    BY DEF ScriptInv
  <1> QED BY <1>1, ScriptInvHolds, PTL

\* A refresh leaves at most one snapshot behind, however often it is sent and
\* however late it is delivered: refresh-snapshot.ts builds the instruction,
\* and with it the id, once.
THEOREM OneSnapshot == ScriptSpec => []OneSnapshotPerRun
  <1>1. ScriptInv => OneSnapshotPerRun
    <2> SUFFICES ASSUME ScriptInv
                 PROVE  OneSnapshotPerRun
      OBVIOUS
    <2> DEFINE Made == {key \in SnapshotKeys : Exists(key)}
    <2> DEFINE Makers == {p \in Runs : runs[p].ix.op \in {"submit", "evaluate"}}
    <2> DEFINE Beginners == {p \in Runs : Started(p)}
    <2>1. \A key \in Made : key[1] = MINT /\ key[2] \in Makers
      BY DEF ScriptInv, AuthorsInv
    <2>2. IsFiniteSet(Makers)
      <3>1. IsFiniteSet(Beginners)
        BY DEF ScriptInv, FinitelyManyStarted
      <3>2. Makers \in SUBSET Beginners
        BY RunTypes DEF RunInv, Started
      <3> HIDE DEF Makers, Beginners
      <3> QED BY <3>1, <3>2, FS_Subset
    <2> DEFINE f == [key \in Made |-> key[2]]
    <2>3. \A key, other \in Made : key[2] = other[2] => key = other
      BY <2>1 DEF SnapshotKeys
    <2> HIDE DEF Made, Makers
    <2>4. f \in Injection(Made, Makers)
      BY <2>1, <2>3 DEF Injection, IsInjective
    <2> HIDE DEF f
    <2>5. Cardinality(Made) <= Cardinality(Makers)
      BY <2>2, <2>4, FS_Injection
    <2> QED BY <2>5 DEF OneSnapshotPerRun, Made, Makers
  <1> QED BY <1>1, ScriptInvHolds, PTL

\* "REFRESH COMPLETE" and the end of the setup are only said of a snapshot that
\* is on the chain and that an executed evaluation accepted.
THEOREM CompleteIsAccepted == ScriptSpec => []CompleteMeansAccepted
  <1>1. ScriptInv => CompleteMeansAccepted
    BY DEF ScriptInv, RunsInv, DoneInv, CompleteMeansAccepted, MyPda
  <1> QED BY <1>1, ScriptInvHolds, PTL

\* Who waits for a run to complete or to time out before starting the next has
\* the order kept by the chain, with any number of runs before and beside.
THEOREM OrderKept == ScriptSpec => []RunsStayInOrder
  <1>1. ScriptInv => RunsStayInOrder
    BY DEF ScriptInv
  <1> QED BY <1>1, ScriptInvHolds, PTL

\* A run that fails, times out or finds a mismatch met something outside of
\* itself: the scripts have no fault of their own that makes them fail.
THEOREM FailuresHaveCause == ScriptSpec => []FailureHasCause
  <1>1. ScriptInv => FailureHasCause
    BY DEF ScriptInv, RunsInv, CauseInv, FailureHasCause
  <1> QED BY <1>1, ScriptInvHolds, PTL

\* The scripts do to the chain only what the program's instructions, the token
\* program and the clock do: what is proved of steps of the program holds of it
\* while the scripts are run.
THEOREM ScriptsUseProgram == ScriptSpec => [][Next]_vars
  <1>1. ScriptInv /\ [ScriptNext]_scriptVars => [Next]_vars
    <2> SUFFICES ASSUME ScriptInv, [ScriptNext]_scriptVars
                 PROVE  [Next]_vars
      OBVIOUS
    <2>1. CASE \E tx \in network : LandsOk(tx)
      <3>1. PICK tx \in network : LandsOk(tx)
        BY <2>1
      <3> QED BY <3>1, LandsOkTakesStep
    <2>2. CASE \E amount \in Supplies : SupplyMoves(amount)
      BY <2>2, ScriptAssumption, Parameters DEF SupplyMoves, Next
    <2>3. CASE Tick
      BY <2>3 DEF Tick, Next, programVars, vars
    <2>4. CASE UNCHANGED programVars
      BY <2>4 DEF programVars, vars
    <2>5. CASE UNCHANGED scriptVars
      BY <2>5 DEF scriptVars, programVars, vars
    <2>6. CASE \E p \in Runs, wallet \in Keys, k \in Keys :
                   \/ RefuseWallet(p, wallet) \/ StartRefresh(p, wallet) \/ StartSetup(p, wallet)
                   \/ RefuseSetup(p, wallet) \/ StartRotation(p, wallet, k) \/ RefuseRotation(p, wallet)
                   \/ StartFails(p)
      <3>1. \A p, r : Begin(p, r) => UNCHANGED programVars
        BY DEF Begin
      <3>2. PICK p \in Runs, wallet \in Keys, k \in Keys :
                 \/ RefuseWallet(p, wallet) \/ StartRefresh(p, wallet) \/ StartSetup(p, wallet)
                 \/ RefuseSetup(p, wallet) \/ StartRotation(p, wallet, k) \/ RefuseRotation(p, wallet)
                 \/ StartFails(p)
        BY <2>6
      <3>3. \E r : Begin(p, r)
        BY <3>2 DEF RefuseWallet, StartRefresh, StartSetup, RefuseSetup, StartRotation, RefuseRotation, StartFails
      <3> QED BY <2>4, <3>1, <3>3
    <2>7. CASE \E p \in Runs :
                   \/ SendFails(p) \/ PreflightRejects(p) \/ Send(p) \/ SendUnanswered(p) \/ Confirmed(p)
                   \/ Rejected(p) \/ TimesOut(p) \/ MintAgain(p) \/ CheckSupply(p) \/ ReadBack(p)
                   \/ ReadBackLags(p) \/ CallFails(p)
      BY <2>4, <2>7 DEF SendFails, PreflightRejects, Send, SendUnanswered, Confirmed, Rejected, TimesOut,
                        MintAgain, CheckSupply, ReadBack, ReadBackLags, CallFails
    <2>8. CASE \E tx \in network : LandsErr(tx)
      BY <2>4, <2>8 DEF LandsErr
    <2>9. BACKSTOP_ADMIN \in Keys
      BY Parameters
    <2> QED BY <2>1, <2>2, <2>3, <2>5, <2>6, <2>7, <2>8, <2>9 DEF ScriptNext
  <1> QED BY <1>1, ScriptInvHolds, PTL DEF ScriptSpec
=============================================================================
