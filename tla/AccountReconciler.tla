-------------------------- MODULE AccountReconciler --------------------------
(***************************************************************************)
(* The Account reconciler of controllers/account/account_controller_v2.go *)
(* (AccountReconcilerV2.Reconcile and the helpers it calls).               *)
(*                                                                         *)
(* The control plane holds one Account object per name.  A reconciliation *)
(* reads the object into a local copy, then walks the code's chain of     *)
(* checks and early returns, writing the object back through Update (the  *)
(* spec and metadata) or Status().Update (the status).  Every write is a  *)
(* compare-and-set on the resourceVersion the local copy was read at.     *)
(* Reconciliations of one object are serialized, but the object is also   *)
(* written by the claim controller and by deletion requests, and the      *)
(* process may stop between any two writes.  The AWS Organizations side   *)
(* is the count of AWS accounts created on behalf of each object.         *)
(***************************************************************************)
EXTENDS Naturals, FiniteSets

CONSTANTS
    Accounts,        \* names of Account objects
    BYOC,            \* accounts with Spec.BYOC set (customer supplied)
    STS,             \* accounts with Spec.ManualSTSMode set
    IsFedramp,       \* config.IsFedramp(): the account limit does not apply
    MaxVersion,      \* bound on the resourceVersion of an object
    MaxAwsAccounts,  \* model bound on the AWS accounts of one object; the code has none
    AccountLimit     \* the configured ceiling the TotalAccountWatcher checks

ASSUME ConstantsAssumption ==
    /\ BYOC \subseteq Accounts
    /\ STS \subseteq BYOC
    /\ IsFedramp \in BOOLEAN
    /\ MaxVersion \in Nat \ {0}
    /\ MaxAwsAccounts \in Nat \ {0}
    /\ AccountLimit \in Nat

VARIABLES
    obj,          \* obj[a]: the Account object as the control plane stores it
    loc,          \* loc[a]: the reconciler's local copy (currentAcctInstance)
    pc,           \* pc[a]: where the running reconciliation of a is
    outcome,      \* outcome[a]: final status of the CreateAccount request
    expired,      \* expired[a]: the Creating condition is older than createPendTime
    budget,       \* TotalAccountWatcher.AccountsCanBeCreated()
    awsAccounts,  \* awsAccounts[a]: AWS accounts created for object a
    finalized,    \* finalized[a]: finalizeAccountV2 ran since the last creation
    createCode    \* createCode[a]: AWS error code of the last failed CreateAccount

vars == <<obj, loc, pc, outcome, expired, budget, awsAccounts, finalized, createCode>>

AccountStates == {"None", "Creating", "PendingVerification",
                  "InitializingRegions", "Ready", "Failed"}

Object == [exists: BOOLEAN, rv: 0..MaxVersion, deleting: BOOLEAN,
           fin: BOOLEAN, awsId: BOOLEAN, label: BOOLEAN, claimLink: BOOLEAN,
           state: AccountStates, claimed: BOOLEAN]

Steps == {"Idle", "AddFinalizer", "Route", "Delete", "ByocCreating",
          "Timeout", "Create", "Poll", "SetCreating", "SetId",
          "AlreadyCreated", "Init"}

\* AWS error codes CreateAccount can return, and how their text reaches the
\* switch on awsErr.Err.Error(): the bare code, the SDK's wrapped response
\* text, or an error that is not a *smithy.OperationError at all.
ErrorCodes == {"ConcurrentModificationException", "ConstraintViolationException",
               "ServiceException", "TooManyRequestsException", "OtherException"}
ErrorTexts == {"bare", "wrapped", "nonSmithy"}

\* Final states of DescribeCreateAccountStatus (FAILED with its reason).
CreateResults == {"SUCCEEDED", "ACCOUNT_LIMIT_EXCEEDED", "INTERNAL_FAILURE",
                  "OTHER_FAILURE"}

TypeOK ==
    /\ obj \in [Accounts -> Object]
    /\ loc \in [Accounts -> Object]
    /\ pc \in [Accounts -> Steps]
    /\ outcome \in [Accounts -> CreateResults]
    /\ expired \in [Accounts -> BOOLEAN]
    /\ budget \in BOOLEAN
    /\ awsAccounts \in [Accounts -> 0..MaxAwsAccounts]
    /\ finalized \in [Accounts -> BOOLEAN]
    /\ createCode \in [Accounts -> ErrorCodes \cup {"none"}]

-----------------------------------------------------------------------------
(* Predicates of the Account type (api/v1alpha1) the reconciler branches on *)

IsUnclaimedAndHasNoState(l) == l.state = "None" /\ ~l.claimed

IsReadyUnclaimedAndHasClaimLink(l) ==
    l.state = "Ready" /\ l.claimLink /\ ~l.claimed

ReadyForInitialization(a, l) ==
    \/ a \in BYOC /\ l.state = "Creating"
    \/ ~l.claimed /\ l.state = "Creating"

\* CreateAccountV2: the error the switch on awsErr.Err.Error() returns.
\* A non-smithy error leaves returnErr nil.
CodeToError == [ConcurrentModificationException |-> "ErrAwsConcurrentModification",
                ConstraintViolationException    |-> "ErrAwsAccountLimitExceeded",
                ServiceException                |-> "ErrAwsInternalFailure",
                TooManyRequestsException        |-> "ErrAwsTooManyRequests",
                OtherException                  |-> "ErrAwsFailedCreateAccount"]

CreateError(code, text) ==
    CASE text = "bare"      -> CodeToError[code]
      [] text = "wrapped"   -> "ErrAwsFailedCreateAccount"
      [] text = "nonSmithy" -> "nil"

-----------------------------------------------------------------------------
(* Writes to the control plane                                            *)

\* The write is refused: the object is gone or was changed since loc was read.
Conflict(a) == ~obj[a].exists \/ loc[a].rv # obj[a].rv

WriteOk(a) == ~Conflict(a) /\ obj[a].rv < MaxVersion

\* Update stores the spec and metadata, Status().Update the status.
WithSpec(o, l) == [o EXCEPT !.fin = l.fin, !.awsId = l.awsId,
                            !.label = l.label, !.claimLink = l.claimLink]
WithStatus(o, l) == [o EXCEPT !.state = l.state, !.claimed = l.claimed]

\* The stored result of a write: a change bumps the resourceVersion, and an
\* object being deleted whose last finalizer is gone is removed.
Commit(o, n) ==
    IF n = o THEN o
    ELSE [n EXCEPT !.rv = o.rv + 1, !.exists = ~(n.deleting /\ ~n.fin)]

\* A successful write of n; the client copies the response into loc.
Store(a, n) ==
    /\ obj' = [obj EXCEPT ![a] = Commit(obj[a], n)]
    /\ loc' = [loc EXCEPT ![a] = Commit(obj[a], n)]

SpecUpdate(a, l) == Store(a, WithSpec(obj[a], l))
StatusUpdate(a, l) == Store(a, WithStatus(obj[a], l))

\* A write whose error the code ignores or returns: it may or may not land.
TryStatusUpdate(a, l) ==
    \/ WriteOk(a) /\ StatusUpdate(a, l)
    \/ Conflict(a) /\ UNCHANGED <<obj, loc>>

TrySpecUpdate(a, l) ==
    \/ WriteOk(a) /\ SpecUpdate(a, l)
    \/ Conflict(a) /\ UNCHANGED <<obj, loc>>

Goto(a, s) == pc' = [pc EXCEPT ![a] = s]

\* Past the BYOC / non-BYOC branch: account init if ReadyForInitialization.
AfterBranch(a, l) == IF ReadyForInitialization(a, l) THEN "Init" ELSE "Idle"

-----------------------------------------------------------------------------
(* Init                                                                   *)

\* Objects as the claim controller, pool replenishment or the previous
\* (SDK v1) controller leave them: a fresh object, one whose AWS account is
\* pre-provisioned, and ones mid-way through or failed under the v1 flow,
\* which carry the finalizer (an STS one too: the STS deletion path at
\* lines 162-168 exists to remove it).
NewObject(a) == [exists |-> TRUE, rv |-> 0, deleting |-> FALSE,
                 fin |-> FALSE, awsId |-> a \in BYOC, label |-> FALSE,
                 claimLink |-> a \in BYOC, state |-> "None", claimed |-> FALSE]

InitialObjects(a) ==
    {NewObject(a), [NewObject(a) EXCEPT !.awsId = TRUE]}
    \cup {[NewObject(a) EXCEPT !.fin = TRUE, !.awsId = TRUE,
                               !.state = s] :
          s \in {"PendingVerification", "InitializingRegions", "Failed"}}

\* The AWS accounts in the organization, as the TotalAccountWatcher counts
\* them: every AWS account created for every object (a set of pairs whose
\* size is the sum of awsAccounts).
TotalAwsAccounts ==
    Cardinality({p \in Accounts \X (1..MaxAwsAccounts) : p[2] <= awsAccounts[p[1]]})

Init ==
    /\ obj \in [Accounts -> UNION {InitialObjects(a) : a \in Accounts}]
    /\ \A a \in Accounts : obj[a] \in InitialObjects(a)
    /\ loc = obj
    /\ pc = [a \in Accounts |-> "Idle"]
    /\ outcome = [a \in Accounts |-> "SUCCEEDED"]
    /\ expired = [a \in Accounts |-> FALSE]
    /\ awsAccounts = [a \in Accounts |->
                        IF a \notin BYOC /\ obj[a].state # "None" THEN 1 ELSE 0]
    /\ budget = (TotalAwsAccounts < AccountLimit)
    /\ finalized = [a \in Accounts |-> FALSE]
    /\ createCode = [a \in Accounts |-> "none"]

-----------------------------------------------------------------------------
(* Reconcile(ctx, request), one action per stretch between two writes     *)

\* r.Get of the object; a missing object ends the reconciliation.
Get(a) ==
    /\ pc[a] = "Idle"
    /\ obj[a].exists
    /\ loc' = [loc EXCEPT ![a] = obj[a]]
    /\ Goto(a, "AddFinalizer")
    /\ UNCHANGED <<obj, outcome, expired, budget, awsAccounts, finalized, createCode>>

\* addFinalizer for non-STS accounts.  The API server refuses a new finalizer
\* on an object that is being deleted.
AddFinalizer(a) ==
    /\ pc[a] = "AddFinalizer"
    /\ IF a \notin STS /\ ~loc[a].fin
         THEN \/ /\ WriteOk(a) /\ ~obj[a].deleting
                 /\ SpecUpdate(a, [loc[a] EXCEPT !.fin = TRUE])
                 /\ Goto(a, "Route")
              \/ /\ Conflict(a) \/ obj[a].deleting
                 /\ Goto(a, "Idle")
                 /\ UNCHANGED <<obj, loc>>
         ELSE Goto(a, "Route") /\ UNCHANGED <<obj, loc>>
    /\ UNCHANGED <<outcome, expired, budget, awsAccounts, finalized, createCode>>

\* The chain of checks between the finalizer and the opt-in branch, in the
\* code's order.  Stubbed handlers (InitializingRegions, PendingVerification,
\* ClaimAccountV2) return nil without writing.
\* Mutant: the IsFailed early return is missing.
RouteTargetNoFailedCheck(a, l) ==
    IF l.deleting THEN "Delete"
    ELSE IF l.state = "InitializingRegions" THEN "Idle"
    ELSE IF a \in BYOC THEN "ByocCreating"
    ELSE IF l.state = "PendingVerification" THEN "Idle"
    ELSE IF IsReadyUnclaimedAndHasClaimLink(l) THEN "Idle"
    ELSE IF l.state = "Creating" /\ expired[a] THEN "Timeout"
    ELSE IF IsUnclaimedAndHasNoState(l) /\ ~l.awsId
         THEN IF ~budget /\ ~IsFedramp THEN "Idle" ELSE "Create"
    ELSE IF IsUnclaimedAndHasNoState(l) THEN "AlreadyCreated"
    ELSE AfterBranch(a, l)

\* Mutant: the IsFailed early return is checked before IsPendingDeletion.
RouteTargetFailedFirst(a, l) ==
    IF l.state = "Failed" THEN "Idle"
    ELSE IF l.deleting THEN "Delete"
    ELSE IF l.state = "InitializingRegions" THEN "Idle"
    ELSE IF a \in BYOC THEN "ByocCreating"
    ELSE IF l.state = "PendingVerification" THEN "Idle"
    ELSE IF IsReadyUnclaimedAndHasClaimLink(l) THEN "Idle"
    ELSE IF l.state = "Creating" /\ expired[a] THEN "Timeout"
    ELSE IF IsUnclaimedAndHasNoState(l) /\ ~l.awsId
         THEN IF ~budget /\ ~IsFedramp THEN "Idle" ELSE "Create"
    ELSE IF IsUnclaimedAndHasNoState(l) THEN "AlreadyCreated"
    ELSE AfterBranch(a, l)

\* Mutant: the creation timeout is checked without IsCreating.
RouteTargetNoCreatingCheck(a, l) ==
    IF l.deleting THEN "Delete"
    ELSE IF l.state \in {"Failed", "InitializingRegions"} THEN "Idle"
    ELSE IF a \in BYOC THEN "ByocCreating"
    ELSE IF l.state = "PendingVerification" THEN "Idle"
    ELSE IF IsReadyUnclaimedAndHasClaimLink(l) THEN "Idle"
    ELSE IF expired[a] THEN "Timeout"
    ELSE IF IsUnclaimedAndHasNoState(l) /\ ~l.awsId
         THEN IF ~budget /\ ~IsFedramp THEN "Idle" ELSE "Create"
    ELSE IF IsUnclaimedAndHasNoState(l) THEN "AlreadyCreated"
    ELSE AfterBranch(a, l)

RouteTarget(a, l) ==
    IF l.deleting THEN "Delete"
    ELSE IF l.state \in {"Failed", "InitializingRegions"} THEN "Idle"
    ELSE IF a \in BYOC THEN "ByocCreating"
    ELSE IF l.state = "PendingVerification" THEN "Idle"
    ELSE IF IsReadyUnclaimedAndHasClaimLink(l) THEN "Idle"
    ELSE IF l.state = "Creating" /\ expired[a] THEN "Timeout"
    ELSE IF IsUnclaimedAndHasNoState(l) /\ ~l.awsId
         THEN IF ~budget /\ ~IsFedramp THEN "Idle" ELSE "Create"
    ELSE IF IsUnclaimedAndHasNoState(l) THEN "AlreadyCreated"
    ELSE AfterBranch(a, l)

Route(a) ==
    /\ pc[a] = "Route"
    /\ Goto(a, RouteTarget(a, loc[a]))
    /\ UNCHANGED <<obj, loc, outcome, expired, budget, awsAccounts, finalized, createCode>>

\* IsPendingDeletion: STS accounts only drop the finalizer.  Others assume
\* the operator (or BYOC) role; on failure handleAWSClientErrorV2 marks the
\* account Failed, otherwise finalizeAccountV2 runs and the finalizer goes.
\* Mutant: every account takes the STS path and only drops its finalizer.
DeleteAllAsSts(a) ==
    /\ pc[a] = "Delete"
    /\ Goto(a, "Idle")
    /\ TrySpecUpdate(a, [loc[a] EXCEPT !.fin = FALSE])
    /\ UNCHANGED <<outcome, expired, budget, awsAccounts, finalized, createCode>>

DeleteSts(a) ==
    /\ pc[a] = "Delete" /\ a \in STS
    /\ Goto(a, "Idle")
    /\ TrySpecUpdate(a, [loc[a] EXCEPT !.fin = FALSE])
    /\ UNCHANGED <<outcome, expired, budget, awsAccounts, finalized, createCode>>

DeleteRoleFailed(a) ==
    /\ pc[a] = "Delete" /\ a \notin STS
    /\ Goto(a, "Idle")
    /\ TryStatusUpdate(a, [loc[a] EXCEPT !.state = "Failed"])
    /\ UNCHANGED <<outcome, expired, budget, awsAccounts, finalized, createCode>>

DeleteFinalize(a) ==
    /\ pc[a] = "Delete" /\ a \notin STS
    /\ Goto(a, "Idle")
    /\ finalized' = [finalized EXCEPT ![a] = TRUE]
    /\ IF loc[a].fin
         THEN TrySpecUpdate(a, [loc[a] EXCEPT !.fin = FALSE])
         ELSE UNCHANGED <<obj, loc>>
    /\ UNCHANGED <<outcome, expired, budget, awsAccounts, createCode>>

Delete(a) == DeleteSts(a) \/ DeleteRoleFailed(a) \/ DeleteFinalize(a)

\* newBYOCAccountV2 holds for every BYOC account: initializeNewCCSAccountV2
\* returns nil and the status is set to Creating.
ByocCreating(a) ==
    /\ pc[a] = "ByocCreating"
    /\ \/ /\ WriteOk(a)
          /\ StatusUpdate(a, [loc[a] EXCEPT !.state = "Creating"])
          /\ Goto(a, AfterBranch(a, [loc[a] EXCEPT !.state = "Creating"]))
       \/ Conflict(a) /\ Goto(a, "Idle") /\ UNCHANGED <<obj, loc>>
    /\ UNCHANGED <<outcome, expired, budget, awsAccounts, finalized, createCode>>

\* Creating for longer than createPendTime: setAccountFailedV2.
Timeout(a) ==
    /\ pc[a] = "Timeout"
    /\ TryStatusUpdate(a, [loc[a] EXCEPT !.state = "Failed"])
    /\ Goto(a, "Idle")
    /\ UNCHANGED <<outcome, expired, budget, awsAccounts, finalized, createCode>>

\* nonCCSAssignAccountIDV2 -> BuildAccountV2 -> CreateAccountV2: the
\* CreateAccount call.  On an error BuildAccountV2 marks the account Failed
\* for ErrAwsFailedCreateAccount and returns the others; a nil error with an
\* empty output panics on the AccountId dereference.
Create(a) ==
    /\ pc[a] = "Create"
    /\ \/ \E code \in ErrorCodes, text \in ErrorTexts :
            /\ createCode' = [createCode EXCEPT ![a] = code]
            /\ IF CreateError(code, text) = "ErrAwsFailedCreateAccount"
                 THEN TryStatusUpdate(a, [loc[a] EXCEPT !.state = "Failed"])
                 ELSE UNCHANGED <<obj, loc>>
            /\ Goto(a, "Idle")
            /\ UNCHANGED <<outcome, awsAccounts, finalized>>
       \/ \E r \in CreateResults :
            /\ outcome' = [outcome EXCEPT ![a] = r]
            /\ IF r = "SUCCEEDED"
                 THEN \* A bound of the model, not a check of the code: the
                      \* code creates an AWS account on every success.
                      /\ awsAccounts[a] < MaxAwsAccounts
                      /\ awsAccounts' = [awsAccounts EXCEPT ![a] = @ + 1]
                      /\ finalized' = [finalized EXCEPT ![a] = FALSE]
                 ELSE UNCHANGED <<awsAccounts, finalized>>
            /\ Goto(a, "Poll")
            /\ UNCHANGED <<obj, loc, createCode>>
    /\ UNCHANGED <<expired, budget>>

\* The DescribeCreateAccountStatus loop.  A describe error is returned; a
\* FAILED status maps to an error as above; SUCCEEDED re-reads the object
\* (a failed r.Get is only logged).
Poll(a) ==
    /\ pc[a] = "Poll"
    /\ \/ Goto(a, "Idle") /\ UNCHANGED <<obj, loc>>
       \/ /\ outcome[a] \in {"ACCOUNT_LIMIT_EXCEEDED", "INTERNAL_FAILURE"}
          /\ Goto(a, "Idle") /\ UNCHANGED <<obj, loc>>
       \/ /\ outcome[a] = "OTHER_FAILURE"
          /\ TryStatusUpdate(a, [loc[a] EXCEPT !.state = "Failed"])
          /\ Goto(a, "Idle")
       \/ /\ outcome[a] = "SUCCEEDED"
          /\ \/ obj[a].exists /\ loc' = [loc EXCEPT ![a] = obj[a]]
             \/ UNCHANGED loc
          /\ Goto(a, "SetCreating")
          /\ UNCHANGED obj
    /\ UNCHANGED <<outcome, expired, budget, awsAccounts, finalized, createCode>>

\* nonCCSAssignAccountIDV2: the status is set to Creating first ...
SetCreating(a) ==
    /\ pc[a] = "SetCreating"
    /\ \/ /\ WriteOk(a)
          /\ StatusUpdate(a, [loc[a] EXCEPT !.state = "Creating"])
          /\ Goto(a, "SetId")
       \/ Conflict(a) /\ Goto(a, "Idle") /\ UNCHANGED <<obj, loc>>
    /\ UNCHANGED <<outcome, expired, budget, awsAccounts, finalized, createCode>>

\* ... then Spec.AwsAccountID is set (TagAccountV2 errors are only logged)
\* and written by accountSpecUpdate.
SetId(a) ==
    LET l == [loc[a] EXCEPT !.awsId = TRUE] IN
    /\ pc[a] = "SetId"
    /\ \/ /\ WriteOk(a)
          /\ SpecUpdate(a, l)
          /\ Goto(a, AfterBranch(a, l))
       \/ Conflict(a) /\ Goto(a, "Idle") /\ UNCHANGED <<obj, loc>>
    /\ UNCHANGED <<outcome, expired, budget, awsAccounts, finalized, createCode>>

\* An account ID already known: set state Creating without calling AWS.
AlreadyCreated(a) ==
    LET l == [loc[a] EXCEPT !.state = "Creating"] IN
    /\ pc[a] = "AlreadyCreated"
    /\ \/ /\ WriteOk(a)
          /\ StatusUpdate(a, l)
          /\ Goto(a, AfterBranch(a, l))
       \/ Conflict(a) /\ Goto(a, "Idle") /\ UNCHANGED <<obj, loc>>
    /\ UNCHANGED <<outcome, expired, budget, awsAccounts, finalized, createCode>>

\* ReadyForInitialization.  STS accounts fetch their AccountClaim (an error
\* is returned); others first get an IAM user label and requeue.  The IAM
\* user, STS client and region initialization handlers are stubs that
\* succeed, after which the account is set Ready.
InitializeAccount(a) ==
    /\ pc[a] = "Init"
    /\ Goto(a, "Idle")
    /\ \/ a \in STS /\ UNCHANGED <<obj, loc>>
       \/ /\ a \in STS
          /\ TryStatusUpdate(a, [loc[a] EXCEPT !.state = "Ready"])
       \/ /\ a \notin STS /\ ~loc[a].label
          /\ TrySpecUpdate(a, [loc[a] EXCEPT !.label = TRUE])
       \/ /\ a \notin STS /\ loc[a].label
          /\ TryStatusUpdate(a, [loc[a] EXCEPT !.state = "Ready"])
    /\ UNCHANGED <<outcome, expired, budget, awsAccounts, finalized, createCode>>

\* The reconciliation stops between two writes (a crash, a cancelled
\* context, a panic, or any error the code returns) and is retried later.
Abort(a) ==
    /\ pc[a] # "Idle"
    /\ Goto(a, "Idle")
    /\ UNCHANGED <<obj, loc, outcome, expired, budget, awsAccounts, finalized, createCode>>

-----------------------------------------------------------------------------
(* The other writers of the object and the environment                    *)

\* Deletion is requested: with no finalizer the object goes at once.
RequestDelete(a) ==
    /\ obj[a].exists /\ ~obj[a].deleting /\ obj[a].rv < MaxVersion
    /\ obj' = [obj EXCEPT ![a].deleting = TRUE, ![a].rv = @ + 1,
                          ![a].exists = obj[a].fin]
    /\ UNCHANGED <<loc, pc, outcome, expired, budget, awsAccounts, finalized, createCode>>

\* The claim controller binds a Ready pool account: the claim link first ...
BindClaimLink(a) ==
    /\ a \notin BYOC
    /\ obj[a].exists /\ ~obj[a].deleting /\ obj[a].rv < MaxVersion
    /\ obj[a].state = "Ready" /\ ~obj[a].claimLink /\ ~obj[a].claimed
    /\ obj' = [obj EXCEPT ![a].claimLink = TRUE, ![a].rv = @ + 1]
    /\ UNCHANGED <<loc, pc, outcome, expired, budget, awsAccounts, finalized, createCode>>

\* ... then the Claimed flag.
MarkClaimed(a) ==
    /\ a \notin BYOC
    /\ obj[a].exists /\ ~obj[a].deleting /\ obj[a].rv < MaxVersion
    /\ obj[a].state = "Ready" /\ obj[a].claimLink /\ ~obj[a].claimed
    /\ obj' = [obj EXCEPT ![a].claimed = TRUE, ![a].rv = @ + 1]
    /\ UNCHANGED <<loc, pc, outcome, expired, budget, awsAccounts, finalized, createCode>>

\* Time passes beyond createPendTime for an object in Creating.
Expire(a) ==
    /\ obj[a].exists /\ obj[a].state = "Creating" /\ ~expired[a]
    /\ expired' = [expired EXCEPT ![a] = TRUE]
    /\ UNCHANGED <<obj, loc, pc, outcome, budget, awsAccounts, finalized, createCode>>

\* The total-account watcher refreshes its snapshot, out of band: accounts
\* can be created while the organization holds fewer than the limit.
RefreshBudget ==
    /\ budget' = (TotalAwsAccounts < AccountLimit)
    /\ UNCHANGED <<obj, loc, pc, outcome, expired, awsAccounts, finalized, createCode>>

Reconcile(a) ==
    \/ Get(a) \/ AddFinalizer(a) \/ Route(a) \/ Delete(a) \/ ByocCreating(a)
    \/ Timeout(a) \/ Create(a) \/ Poll(a) \/ SetCreating(a) \/ SetId(a)
    \/ AlreadyCreated(a) \/ InitializeAccount(a) \/ Abort(a)

Environment(a) ==
    \/ RequestDelete(a) \/ BindClaimLink(a) \/ MarkClaimed(a) \/ Expire(a)

Next ==
    \/ \E a \in Accounts : Reconcile(a) \/ Environment(a)
    \/ RefreshBudget

Spec == Init /\ [][Next]_vars

\* The steps of a reconciliation after r.Get.
Running(a) ==
    \/ AddFinalizer(a) \/ Route(a) \/ Delete(a) \/ ByocCreating(a)
    \/ Timeout(a) \/ Create(a) \/ Poll(a) \/ SetCreating(a) \/ SetId(a)
    \/ AlreadyCreated(a) \/ InitializeAccount(a)

\* controller-runtime reconciles every existing object again (the event of
\* any write, the requeue of an error return, the periodic resync), and a
\* running reconciliation eventually takes its next step or returns.  The
\* errors, panics and crashes that cut a reconciliation short (Abort) do
\* not recur forever on the steps before the deletion branch, and the
\* operator role can eventually be assumed: a deletion retried forever
\* eventually gets past HandleRoleAssumptionV2.
Fairness ==
    \A a \in Accounts :
        /\ WF_vars(Get(a))
        /\ WF_vars(Running(a) \/ Abort(a))
        /\ SF_vars(AddFinalizer(a))
        /\ SF_vars(Route(a))
        /\ SF_vars(DeleteFinalize(a))

LiveSpec == Spec /\ Fairness

-----------------------------------------------------------------------------
(* Properties                                                             *)

\* Failed is terminal (spec 3, "no further reconciliation actions"): no
\* write, by the reconciler from whatever copy it holds or by another
\* writer, takes an object out of Failed.  For BYOC accounts only the
\* early return at line 205 keeps the unconditional BYOC branch from
\* rewriting a Failed account to Creating.
FailedIsTerminal ==
    [][\A a \in Accounts : obj[a].state = "Failed" => obj'[a].state = "Failed"]_vars

\* An object whose AWS account this operator created is removed from the
\* control plane only after finalizeAccountV2 has run since that creation:
\* the finalizer added first thing in Reconcile holds deletion until the
\* deletion branch has cleaned the account up.
OrphanFreeDeletion ==
    \A a \in Accounts : ~obj[a].exists /\ awsAccounts[a] > 0 => finalized[a]

\* The model bounds the writes to one object; an object at the bound can
\* take no further write.
VersionsExhausted(a) == obj[a].rv = MaxVersion

\* Deletion completes (spec 4.1.9): an object whose deletion was requested
\* eventually leaves the control plane.  A failed role assumption marks the
\* account Failed (handleAWSClientErrorV2), so this rests on the deletion
\* branch coming before the IsFailed early return in Reconcile.
DeletionCompletes ==
    \A a \in Accounts :
        (obj[a].exists /\ obj[a].deleting) ~> (~obj[a].exists \/ VersionsExhausted(a))

\* At most one AWS account is ever created for one Account object.
AtMostOneAwsAccount == \A a \in Accounts : awsAccounts[a] <= 1

\* Spec 4.1.2: a net-new AWS account is requested only if the global
\* account-creation budget allows it: CreateAccount creates an AWS account
\* only while the organization holds fewer than the configured limit.  The
\* reconciler consults the watcher's snapshot (line 262), refreshed out of
\* band, and reconciliations of different accounts run in parallel.
CreateWithinLimit ==
    [][\A a \in Accounts :
         awsAccounts'[a] > awsAccounts[a] => TotalAwsAccounts < AccountLimit]_vars

\* Spec 3: AwsAccountID is set before any state beyond Creating.
AccountIdBeforeProgress ==
    \A a \in Accounts :
        obj[a].exists /\ obj[a].state \in {"PendingVerification", "InitializingRegions", "Ready"}
            => obj[a].awsId

\* Spec 4.1: Ready is semi-terminal: an account that is Ready and not being
\* deleted stays Ready.
ReadyIsStable ==
    [][\A a \in Accounts :
         obj[a].state = "Ready" /\ ~obj[a].deleting => obj'[a].state = "Ready"]_vars

\* What a claim holder relies on: a Claimed pool account keeps its claim
\* link and stays Ready until its deletion is requested, although the
\* claim controller and reconciles that write whole status and spec
\* copies (Status().Update, r.Update) interleave on the object.
ClaimedPoolAccountReady ==
    \A a \in Accounts \ BYOC :
        obj[a].claimed => obj[a].claimLink /\ (obj[a].state = "Ready" \/ obj[a].deleting)

\* The same for pool accounts: a pool account that is Ready and not being
\* deleted stays Ready, whatever stale copy a reconciliation writes from,
\* because the creation timeout fires only on an account that IsCreating
\* and the BYOC branch, which sets Creating again, is not taken.
PoolReadyIsStable ==
    [][\A a \in Accounts \ BYOC :
         obj[a].state = "Ready" /\ ~obj[a].deleting => obj'[a].state = "Ready"]_vars

\* Spec 7(a): throttling and concurrent-modification errors from
\* CreateAccount are transient and never make the account Failed.
TransientCreateErrorsNotTerminal ==
    [][\A a \in Accounts :
         pc[a] = "Create" /\ obj[a].state # "Failed" /\ obj'[a].state = "Failed"
            => createCode'[a] \notin {"ConcurrentModificationException", "TooManyRequestsException"}]_vars

-----------------------------------------------------------------------------
(* Refinement of the account lifecycle                                    *)

\* The object as the control plane shows it to the other controllers.
Life == INSTANCE AccountLifecycle WITH
            exists <- [a \in Accounts |-> obj[a].exists],
            deleting <- [a \in Accounts |-> obj[a].deleting],
            state <- [a \in Accounts |-> obj[a].state],
            awsId <- [a \in Accounts |-> obj[a].awsId],
            claimLink <- [a \in Accounts |-> obj[a].claimLink],
            claimed <- [a \in Accounts |-> obj[a].claimed]

\* Every behaviour of the reconciler and its environment is a behaviour of
\* AccountLifecycle: however reconciles interleave with the claim
\* controller and deletions, conflict, stop between two writes or re-read
\* the object after CreateAccount, every write of the reconciler moves
\* Status.State along an edge of the lifecycle and clears no field once set.
LifecycleRefinement == Life!Spec

=============================================================================
