# Formal model of the SDK v2 Account reconciler

This directory holds TLA+ models of the account controller in
`src/controllers/account/`:

* the SDK v2 reconciler, `account_controller_v2.go`;
* the example reconciler, `account_controller_v2_example.go`;
* the BYOC and IAM role helpers, `byoc.go`.

It also holds the TLC configurations that check them and the TLAPS proofs of
the main invariants.

## The system

An `Account` object lives in the Kubernetes control plane. Four kinds of
writer change it:

* the reconciler (`AccountReconcilerV2.Reconcile`), which runs once per
  event. controller-runtime never runs two reconciles of the same object at
  once, so each object has one reconciliation in progress at a time;
* the API server, which deletes objects. An object that is being deleted
  stays while it has a finalizer;
* the AccountClaim controller (not in this tree), which sets the claim link
  and then `Status.Claimed` on a Ready pool account;
* time, which makes a Creating account older than `createPendTime`. The
  total-account watcher also refreshes the budget snapshot.

Each reconcile re-reads the object and then performs a chain of writes. Each
write is an `Update` (spec and metadata) or a `Status().Update` (status). A
write succeeds only if the resourceVersion it carries is still current, and
the response is copied back into the reconciler's local object. The
reconcile can stop between any two writes, through an error return, a
conflict, a panic or a crash. The next event restarts it from the top.

## Modules

| module | what it is |
|---|---|
| `AccountReconciler` | The reconciler and its environment: state, actions, properties, and the mutant operators that are placed before the definitions they replace. |
| `MC_AccountReconciler` | Model values and account sets for TLC. |
| `AccountReconcilerProofs` | The TLAPS proofs for `AccountReconciler`. |
| `AccountLifecycle` | The abstract lifecycle of an Account as the control plane shows it. `AccountReconciler` is checked to implement it. |
| `ExampleReconciler` | `AccountReconcilerV2Example`: its calls and their retries. |
| `ExampleIamChain` | What `createIAMUserV2` promises: the user, then one access key, then one instance. `ExampleReconciler` is checked and proved to implement it. |
| `AccountLifecycleProofs` | The TLAPS proof that `AccountReconciler` implements `AccountLifecycle`, and its corollaries for Ready and Claimed pool accounts. |
| `AccountLifecycleTheorems` | The TLAPS proof of `ClaimedInv` on the abstract lifecycle. |
| `ExampleReconcilerProofs` | The TLAPS proofs that the example's IAM chain runs at most once and that its counters stay well typed. |
| `ByocHelpersProofs` | The TLAPS proof of the error contract of the `byoc.go` helpers. |
| `ByocHelpers` | The helpers of `byoc.go`, as operators from call outcomes to the (result, error) they return. |

### State

| variable | code |
|---|---|
| `obj[a]` | the stored object: exists, resourceVersion, deletionTimestamp set, finalizer present, `Spec.AwsAccountID` set, IAM user label, claim link, `Status.State`, `Status.Claimed` |
| `loc[a]` | `currentAcctInstance`, the reconciler's copy |
| `pc[a]` | where the running reconciliation of `a` stands, which is the next write it makes |
| `outcome[a]` | the final `DescribeCreateAccountStatus` state of the pending CreateAccount |
| `expired[a]` | `CreationConditionOlderThan(createPendTime)` |
| `budget` | `TotalAccountWatcher.AccountsCanBeCreated()`: the snapshot `TotalAwsAccounts < AccountLimit` taken at the last refresh |
| `awsAccounts[a]` | how many AWS accounts CreateAccount created for `a` (ghost) |
| `finalized[a]` | whether `finalizeAccountV2` ran since the last creation (ghost) |
| `createCode[a]` | the AWS error code of the last failed CreateAccount (ghost) |

Data is abstracted to what the properties tell apart. An account ID, a label
or a claim link is present or absent. An error is its code together with the
form its text takes under the SDK: the bare code, the wrapped response text,
or an error that is not a smithy error.

### Actions

Each action is the stretch of `Reconcile` between two writes, together with
the write that ends it:

* `Get`: `r.Get`, lines 112-121.
* `AddFinalizer`: lines 153-159 and `addFinalizer`.
* `Route`: the chain of early returns at lines 161-283, in the code's order
  (`RouteTarget`).
* `Delete`: the deletion branch at lines 161-201, as three actions:
  - `DeleteSts`: the STS path;
  - `DeleteRoleFailed`: role assumption fails and the account is set Failed;
  - `DeleteFinalize`: finalize, then remove the finalizer.
* `ByocCreating`: the BYOC branch at lines 215-234.
* `Timeout`: lines 248-257.
* `Create` and `Poll`: `BuildAccountV2` and `CreateAccountV2`.
* `SetCreating` and `SetId`: the two writes of `nonCCSAssignAccountIDV2`.
* `AlreadyCreated`: lines 274-282.
* `InitializeAccount`: lines 302-376.
* `Abort`: any error return, crash or panic.

`RequestDelete`, `BindClaimLink`, `MarkClaimed`, `Expire` and `RefreshBudget`
are the environment. The handlers the code leaves as stubs return nil without
writing, and the model does the same: region initialization, CCS
initialization, pending verification, `ClaimAccountV2`, IAM user creation and
`finalizeAccountV2`.

### The example reconciler (`ExampleReconciler`)

`AccountReconcilerV2Example.Reconcile` never writes the Account. It reads
the object, builds a client, and for an account without a state calls
CreateAccount and DescribeCreateAccountStatus. When `Spec.AwsAccountID` is
set, it then assumes a role into that account and creates the IAM user
`example-user`, an access key and an EC2 instance.

* `pc` is the next call.
* The AWS side effects are the counters `created`, `keys` and `instances`,
  and the flag `user`.
* Each call is an action that fails, which returns the error and requeues,
  or goes on to the next call.
* `Crash` stops a reconcile anywhere.
* `DeleteObject` removes the object. The reconciler adds no finalizer, so
  nothing is reconciled after that, and the example runs do not check
  deadlock.

### The byoc.go helpers (`ByocHelpers`)

Each helper is an operator from the outcomes of the calls it makes to what
it returns: whether the result is usable, and the error.

* The ConfigMap read can fail, or the key can be missing or present.
* An IAM or STS call can succeed or fail.
* GetRole can return the role, `NoSuchEntity`, `ServiceFailure`, another
  AWS error, or an error that is not an AWS error.

`Invoke` calls any helper with any outcomes. `initializeNewCCSAccount`'s
write of `ClaimStatusError` on the AccountClaim accumulates in
`claimErrorStatus`. The Go convention on a (result, error) pair is checked
in two halves:

* `ErrorMeansNoResult`: an error never comes with a usable result. This
  holds.
* `NilErrorMeansResult`: a nil error comes with a usable result, except
  when GetExistingRole reports a role that does not exist. This fails at
  line 262.

## Runs

| run | expect | checks |
|---|---|---|
| `AccountPool` | pass | OrphanFreeDeletion, LifecycleRefinement, PoolReadyIsStable and ClaimedPoolAccountReady for one pool account (13740 states) |
| `AccountByoc` | pass | FailedIsTerminal and LifecycleRefinement for a BYOC account and a manual-STS account together (48256 states) |
| `AccountDeletion` | pass | DeletionCompletes under `LiveSpec`, for one pool account |
| `ExampleIam` | pass | IamChainRunsOnce and IamChainRefinement for the example reconciler (182 states) |
| `ByocHelpers` | pass | ErrorMeansNoResult over every outcome of every helper (180 states) |
| `CreateErrorsTransient` | violation | TransientCreateErrorsNotTerminal |
| `ByocReadyStable` | violation | ReadyIsStable |
| `AccountIdFirst` | violation | AccountIdBeforeProgress |
| `SingleAwsAccount` | violation | AtMostOneAwsAccount |
| `AccountLimit` | violation | CreateWithinLimit, for two pool accounts |
| `ExampleIamRetry` | violation | IamChainCompletes under the example's `LiveSpec` |
| `ByocStsClient` | violation | NilErrorMeansResult |

The passing runs between them fire every action. Each property of a
passing run has a mutant (`mutants` in `PROJECT.json`), a plausible bug that
TLC catches:

* `DeleteAllAsSts` takes the STS deletion path for every account, which
  breaks OrphanFreeDeletion.
* `RouteTargetNoFailedCheck` drops the IsFailed early return. This breaks
  FailedIsTerminal, and LifecycleRefinement for the BYOC and STS accounts.
* `RouteTargetNoCreatingCheck` drops the IsCreating test before the creation
  timeout, so a pool account that is not being created is failed. This
  breaks LifecycleRefinement, PoolReadyIsStable and
  ClaimedPoolAccountReady: a Ready pool account, claimed or not, is failed
  once its creation time is past.
* `RouteTargetFailedFirst` moves the IsFailed return before the deletion
  branch, so a Failed account is never finalized. This breaks
  DeletionCompletes.
* `CreateUserAnyName` lets CreateUser succeed when the user exists, which
  breaks IamChainRunsOnce.

  IamChainRunsOnce and IamChainRefinement hold because of the fixed user
  name. That same name makes every retry fail at CreateUser (finding 7). So
  these two properties do not guard against the retry hazard at line 136;
  IamChainCompletes does.
* `CreateAccessKeyNoReturn` logs a failed CreateAccessKey but does not
  return, so RunInstances runs without a key. This breaks
  IamChainRefinement and no other property: the counts stay at most one,
  but the order is lost.
* `GetExistingRoleFallThrough` passes on GetRole's output with an error,
  which breaks ErrorMeansNoResult.

OrphanFreeDeletion is checked only on pool accounts. BYOC and STS accounts
never call CreateAccount, so for them it holds vacuously. FailedIsTerminal
is checked only on BYOC and STS accounts. For a pool account every Failed
write ends the reconcile, so only the BYOC branch can write over Failed.
The proofs below cover every kind of account.

**OrphanFreeDeletion.** An object whose AWS account was created leaves the
control plane only after `finalizeAccountV2` has run. This depends on the
finalizer being stored before CreateAccount is reached. It also depends on
the API server refusing a new finalizer on an object that is being deleted,
and on the deletion branch removing the finalizer only after finalizing.

**FailedIsTerminal.** No write takes an object out of Failed. Writes are made
from the copy read at the start, so this depends on the resourceVersion
check and on the early return at line 205.

**LifecycleRefinement.** `AccountReconciler` implements `AccountLifecycle`
under the mapping that projects each stored object onto exists, deleting,
State, account ID, claim link and Claimed. The abstract module allows these
steps and no others:

* State moves only along the lifecycle edges.
* The ID, the claim link, Claimed and the deletion timestamp are set once
  and never cleared by any writer the model has. The claim controller's
  release of a deleted claim does clear the link and Claimed, and sets
  Ready (`accountclaim_controller_test.go:198-205`, spec 4.1.9). That
  controller is not in this tree and the release is not modelled, so the
  refinement covers an account's life up to the release of its claim.
* An object leaves only after its deletion was requested.

The check covers interleavings with the other writers, conflicts, aborts,
and the re-read after CreateAccount. That re-read writes Creating and the ID
onto an object whose deletion was requested meanwhile. The early returns of `RouteTarget` are what it depends on.

**PoolReadyIsStable.** A pool account that is Ready and not being deleted
stays Ready, whichever stale copy a reconciliation writes from. This is the
pool side of `ReadyIsStable`, which fails for BYOC accounts (finding 2):
the creation timeout fires only on an account that IsCreating, and the
BYOC branch, which writes Creating again, is not taken.

**ClaimedPoolAccountReady.** A Claimed pool account keeps its claim link
and stays Ready until its deletion is requested. The claim controller's two
writes (the link, then Claimed) interleave with reconciles. Those
reconciles write the whole spec (`r.Update`) and the whole status
(`statusUpdate`, line 665) from the copy they read. A stale copy could
clear the link or Claimed, or send the account to the creation timeout.

**The violations** are disagreements between the code and the spec, or
between the code and its own comments (`findings` in `PROJECT.json`):

1. The SDK v2 error switch never matches, so throttling errors mark the
   account Failed.
2. `newBYOCAccountV2` ignores the account's state, so a Ready BYOC account
   goes back to Creating.
3. The status write comes before the ID write, so a lost second write gives
   Ready without an AWS account ID.
4. A describe error, or a stop before the ID is saved, leads to a second
   CreateAccount.
5. The account limit is checked against a snapshot. Two accounts
   reconciled before the next refresh both create, and the total exceeds
   `AccountLimit`.
6. The example reconciler never writes the Account, so every retry creates
   another AWS account. This shows in the `ExampleIamRetry` counterexample.
   `AtMostOneAwsAccount` of `ExampleReconciler` states the property, but
   no run of its own checks it.
7. The example's IAM user has a fixed name. After a failure past
   CreateUser, every retry fails at CreateUser, and the chain never
   completes.
8. `getSTSClient` returns `cmErr` for a missing `sts-jump-role` key
   (`byoc.go:262`). On that path `cmErr` is nil, so the function returns a
   nil client with a nil error. No code under `src/` calls `getSTSClient`,
   so the finding is about the helper's contract, not about a caller in
   this tree.

## Bounds

* The pool safety run has one account, and `AccountByoc` has one BYOC and
  one STS account. Accounts share only the budget
  snapshot, and no safety property relates two accounts, so one account of
  each kind (pool, BYOC, STS) covers every path. `AccountLimit` has two pool
  accounts, which is the least needed to exceed a limit of one through a
  shared snapshot. The symmetry of the two pool accounts is sound because no
  definition tells them apart.
* `MaxVersion` bounds the writes to one object. A full creation takes
  five (finalizer, Creating, ID, label, Ready) and a claim two more (link,
  Claimed). `AccountPool` uses 8. That is enough for one write after a
  claim, even on an account that was created: this is the case
  `ClaimedPoolAccountReady` is about. The other runs use 6, which is enough
  for creation and deletion and for each of their counterexamples.
* `MaxAwsAccounts = 2` lets a second AWS account be created, which is what
  `SingleAwsAccount` shows. It is a guard of the model (`Create` blocks a
  success at the cap), and the code has no counterpart. No property is
  about it.
* The example counts AWS accounts up to `MaxCreated = 3`, which is enough to
  see repeated creation. The count saturates there; the code has no
  bound. Keys and instances are not bounded: the model
  shows they never exceed one.
* `ByocHelpers` enumerates every combination of call outcomes. There is no
  bound to choose.

## Fairness and liveness

`LiveSpec` is `Spec` together with fairness for each account, justified by
how controller-runtime schedules reconciles:

* `WF(Get)`: a queued request is eventually reconciled. Every error return
  requeues with backoff, and the periodic resync requeues too.
* `WF(Running \/ Abort)`: a started reconcile eventually takes its next
  step, or stops.
* `SF(AddFinalizer)`, `SF(Route)` and `SF(DeleteFinalize)`: a write or an AWS
  call that is retried forever eventually succeeds. Conflicts and transient
  errors do not recur forever, and the role of an account being deleted is
  eventually assumable.

**DeletionCompletes.** An existing object whose deletion was requested
eventually leaves the store, or uses up its `MaxVersion` writes. The second
disjunct, `VersionsExhausted`, is an artefact of the bound. Without it, TLC
finds lassos only at `rv = MaxVersion`, where every write conflicts.

If role assumption fails forever, the finalizer is never removed
(line 178). The fairness above rules that case out by assumption. The code
itself gives no bound on it.

The example reconciler has its own `LiveSpec`: each call that is retried
forever eventually succeeds. `IamChainCompletes` is still violated, because
once the user exists CreateUser can never succeed.

## Proofs (`AccountReconcilerProofs`, checked by tlapm)

* `TypeCorrect`: `Spec => []TypeOK`, for all account sets and bounds that
  satisfy `ConstantsAssumption`. It rests on lemmas about object updates and
  `Commit`. It is a lemma for the proofs below, not a result about the code.
  Its bound on `awsAccounts` is the model's cap `MaxAwsAccounts`; the code
  has no such cap. No run checks `TypeOK`.
* `OrphanFree`: `Spec => []OrphanFreeDeletion`. `OrphanFreeDeletion` is not
  inductive on its own. The proof uses `IInv`, which is TypeOK together with
  `AccountInv` for every account. `AccountInv` says:
  - only non-BYOC accounts have AWS accounts or reach the creation steps;
  - a non-STS reconciliation past `AddFinalizer` holds a copy with the
    finalizer, and the stored object still has it (a write that would drop
    it must carry the current resourceVersion);
  - a stored finalizer keeps the object in existence;
  - an existing object with an unfinalized AWS account keeps its finalizer.

  `InitIInv` and `NextIInv` prove that `IInv` is inductive, with one step
  per action. TLC also checked `IInv` as an invariant on all three passing
  configurations.

* `FailedTerminal`: `Spec => FailedIsTerminal`, an action property, proved
  from the inductive invariant `FInv`, which is TypeOK together with
  `FailedInv` for every account. `FailedInv` says two things. First, a
  running reconciliation holds the stored state. Only the reconciler writes
  the state, and every landed write copies the response back. Second, a
  reconciliation headed for a step that writes a non-Failed state
  (`StateSteps`) did not start from Failed, because of the early return at
  line 205. A landed write carries the current resourceVersion, so it starts
  from the stored state. A write of Creating or Ready therefore never lands
  on a Failed object. `NextFInv` proves the invariant and the property
  together, one step per action, from the lemmas `LandedStatus`,
  `LandedSpec`, `NoWrite`, `TriedStatus`, `TriedSpec` and `RouteTargetFacts`.

## Proofs (`ExampleReconcilerProofs`)

* `IamChainOnce`: `Spec => []IamChainRunsOnce`, for every `MaxCreated`.
  The proof uses the inductive invariant `IInv`, which holds:
  - TypeOK;
  - `keys <= 1` and `instances <= keys`;
  - no key exists before the user;
  - CreateAccessKey and RunInstances are reached only once the user exists;
  - at CreateAccessKey there is no key yet;
  - at RunInstances there is one key and no instance.

  It is needed because `IamChainRunsOnce` alone says nothing about where a
  running reconcile stands. The fact that makes it work is the `~user`
  guard of CreateUser: `example-user` can be created only once. TLC checked
  `IInv` on the `ExampleIam` configuration before the proof was written.
  The Boolean-typed variables are proved well typed by Zenon, in lemma
  `NextFlags`, and the counters by SMT.

* `ChainRefinement`: `Spec => IamChainRefinement`, for every `MaxCreated`.
  The example reconciler implements `ExampleIamChain` under the identity
  mapping on the user, keys and instances. Every other variable is hidden.
  `InitChain` maps the initial state. `NextChain` maps each step, under
  `IInv`, to CreateUser, CreateAccessKey, RunInstances or a stutter. The
  conjuncts of `IInv` that place pc at CreateAccessKey and RunInstances
  give those steps' guards: the user and no key, or one key and no
  instance.

## Proofs (`AccountLifecycleProofs`)

* `Refinement`: `Spec => LifecycleRefinement`, for every account set,
  every BYOC and STS subset and every bound. In words: `AccountReconciler`
  implements `AccountLifecycle` under the projection of each stored object
  onto exists, deleting, State, account ID, claim link and Claimed.
  The proof has three parts.
  - `InitRefines`: the initial objects map to initial abstract objects.
  - `NextRInv`: the invariant `RInv` is inductive.
  - `NextRefines`: under `RInv`, every step maps to an abstract step or a
    stutter. It is proved one step per action.

  `RInv` is `FInv` (from `FailedTerminal`) together with four facts per
  account:
  - `Synced`: the copy a reconciliation holds is never newer than the
    stored object, and equals it when the resourceVersions agree. A write
    that lands therefore writes over exactly the fields the reconciliation
    read. Without this, a landed write could appear to clear a field.
  - `Held`: an existing object whose deletion was requested has its
    finalizer. An object therefore leaves only through the finalizer's
    removal, after the deletion request, which is an abstract step.
  - `ClaimSync`: a running reconciliation of an account that is not Ready
    holds the stored Claimed. A write of Ready therefore never clears
    Claimed.
  - `PcFacts`: what the stored state, the BYOC kind and the copy are at
    each step of a reconciliation. For example, the BYOC branch runs only
    on BYOC accounts that are not Failed, and the creation steps only on
    pool accounts with no state. This is where the early returns of
    `RouteTarget` enter. It also covers the re-read after CreateAccount
    (lines 540-544): the write of Creating and the ID lands on whatever
    object is stored then, even one being deleted. That is the abstract
    `SetCreating` step, which permits deletion.

  TLC checked `RInv` as an invariant on `AccountPool` and `AccountByoc`
  before the proof was written.
* `PoolReadyStable`: `Spec => PoolReadyIsStable`, a corollary of
  `Refinement`. In the abstract lifecycle, a Ready account leaves Ready only
  to Failed while it is being deleted, or to Creating when it is BYOC.
* `ClaimedReady`: `Spec => []ClaimedPoolAccountReady`. It is proved on the
  abstract lifecycle and carried to the reconciler through `Refinement`.
  `AccountLifecycleTheorems` proves `ClaimedStable`
  (`Spec => []ClaimedInv` of `AccountLifecycle`). Its inductive invariant
  is `ClaimedInv` together with the lifecycle's type invariant `LTypeOK`.
  The argument: only MarkClaimed sets Claimed, and it needs the link and
  Ready; a Claimed pool account is not in `CreatingFrom`; and `SetFailed`
  fails a Ready account only when its deletion was requested.
  `AccountLifecycleProofs` instantiates that module with the mapping of
  `Life`. Lemma `SameLifecycle` shows that this instance and `Life` are the
  same specification. `ClaimedReady` then follows from `Refinement` by
  temporal logic.

## Proofs (`ByocHelpersProofs`)

* `NoResultWithError`: `Spec => []ErrorMeansNoResult`. The lemma
  `ReturnsContract` proves the contract of every helper over every outcome
  of the calls it makes. The inductive invariant `IInv` states that the
  last result is what `Returns` gives for the last call.

Liveness, and anything that needs `ENABLED`, stays with TLC:
`DeletionCompletes` and `IamChainCompletes`. So do the properties that
TLC finds violated.

## Not modelled

* The opt-in region branch (lines 287-289). It is a stub behind a feature
  flag and is assumed off.
* The ami-owner lookup. Its error return is covered by `Abort`.
* In `byoc.go`: `newBYOCAccount`, a predicate used only as the reference
  for finding 2. Also `getAccountClaim`, `ClaimAccount` and
  `setAccountClaimError`, which are not in this tree. Their outcomes are
  inputs of `InitializeNewCCSAccount`.
* The credential calls of `stsclient`, which are not in this tree. Their
  success or failure is an input.
* The AccountClaim controller, apart from its two writes to an Account.
