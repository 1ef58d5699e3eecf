-------------------------- MODULE ExampleReconciler --------------------------
(***************************************************************************)
(* AccountReconcilerV2Example.Reconcile of                                 *)
(* controllers/account/account_controller_v2_example.go and the two        *)
(* helpers it calls, createAccountV2 and createIAMUserV2.                  *)
(*                                                                         *)
(* The reconciler never writes the Account object: it reads it, and for an *)
(* account without a state calls CreateAccount, DescribeCreateAccountStatus *)
(* and, when Spec.AwsAccountID is set, assumes a role into that account and *)
(* creates the IAM user "example-user", an access key and an EC2 instance. *)
(* Every AWS call may fail, which returns the error and requeues; so does  *)
(* a crash.  A success without an account ID requeues after 30 seconds.   *)
(***************************************************************************)
EXTENDS Naturals

CONSTANTS
    MaxCreated   \* AWS accounts counted; MaxCreated stands for that many or more

ASSUME MaxCreatedAssumption == MaxCreated \in Nat \ {0}

VARIABLES
    objExists,   \* the Account object is in the store
    hasState,    \* Status.State is not empty
    hasId,       \* Spec.AwsAccountID is not empty
    pc,          \* where the running reconciliation is
    created,     \* AWS accounts created by CreateAccount
    user,        \* the IAM user "example-user" exists in the account
    keys,        \* access keys created for it
    instances    \* EC2 instances launched in the account

vars == <<objExists, hasState, hasId, pc, created, user, keys, instances>>

Steps == {"Idle", "GetClient", "CreateAccount", "Describe", "AssumeRole",
          "CreateUser", "CreateAccessKey", "RunInstances"}

TypeOK ==
    /\ objExists \in BOOLEAN /\ hasState \in BOOLEAN /\ hasId \in BOOLEAN
    /\ pc \in Steps
    /\ created \in 0..MaxCreated
    /\ user \in BOOLEAN
    /\ keys \in Nat /\ instances \in Nat

\* An Account as another controller created it, with or without a state
\* and an account ID; nothing exists yet in AWS on its behalf.
Init ==
    /\ objExists = TRUE
    /\ hasState \in BOOLEAN /\ hasId \in BOOLEAN
    /\ pc = "Idle"
    /\ created = 0 /\ user = FALSE /\ keys = 0 /\ instances = 0

Goto(s) == pc' = s

\* One AWS call: it fails (the error is returned and the request requeued)
\* or it succeeds and the reconciliation goes on.
Call(s, next) == pc = s /\ (Goto("Idle") \/ Goto(next))

\* r.Get; a missing object returns the not-found error.
Get ==
    /\ pc = "Idle" /\ objExists
    /\ Goto("GetClient")
    /\ UNCHANGED <<objExists, hasState, hasId, created, user, keys, instances>>

\* GetClientV2, then createAccountV2 for an account without a state.
GetClient ==
    /\ Call("GetClient", IF hasState THEN "Idle" ELSE "CreateAccount")
    /\ UNCHANGED <<objExists, hasState, hasId, created, user, keys, instances>>

\* CreateAccount: every success is a new AWS account.  The code has no
\* bound; the count saturates at MaxCreated, a bound of the model that
\* stands for MaxCreated or more.
CreateAccount ==
    /\ pc = "CreateAccount"
    /\ \/ Goto("Idle") /\ UNCHANGED created
       \/ /\ created' = IF created < MaxCreated THEN created + 1 ELSE created
          /\ Goto("Describe")
    /\ UNCHANGED <<objExists, hasState, hasId, user, keys, instances>>

\* DescribeCreateAccountStatus, then the role assumption only when
\* Spec.AwsAccountID is set; otherwise RequeueAfter 30 seconds.
Describe ==
    /\ Call("Describe", IF hasId THEN "AssumeRole" ELSE "Idle")
    /\ UNCHANGED <<objExists, hasState, hasId, created, user, keys, instances>>

\* AssumeRoleAndCreateClientV2 into OrganizationAccountAccessRole.
AssumeRole ==
    /\ Call("AssumeRole", "CreateUser")
    /\ UNCHANGED <<objExists, hasState, hasId, created, user, keys, instances>>

\* Mutant: CreateUser succeeds whether or not the user exists.
CreateUserAnyName ==
    /\ pc = "CreateUser"
    /\ \/ Goto("Idle") /\ UNCHANGED user
       \/ user' = TRUE /\ Goto("CreateAccessKey")
    /\ UNCHANGED <<objExists, hasState, hasId, created, keys, instances>>

\* createIAMUserV2: CreateUser of the fixed name fails once the user exists.
CreateUser ==
    /\ pc = "CreateUser"
    /\ \/ Goto("Idle") /\ UNCHANGED user
       \/ ~user /\ user' = TRUE /\ Goto("CreateAccessKey")
    /\ UNCHANGED <<objExists, hasState, hasId, created, keys, instances>>

\* Mutant: a failed CreateAccessKey is logged but not returned, and the
\* chain goes on to RunInstances.
CreateAccessKeyNoReturn ==
    /\ pc = "CreateAccessKey"
    /\ \/ Goto("RunInstances") /\ UNCHANGED keys
       \/ keys' = keys + 1 /\ Goto("RunInstances")
    /\ UNCHANGED <<objExists, hasState, hasId, created, user, instances>>

CreateAccessKey ==
    /\ pc = "CreateAccessKey"
    /\ \/ Goto("Idle") /\ UNCHANGED keys
       \/ keys' = keys + 1 /\ Goto("RunInstances")
    /\ UNCHANGED <<objExists, hasState, hasId, created, user, instances>>

RunInstances ==
    /\ pc = "RunInstances"
    /\ \/ UNCHANGED instances
       \/ instances' = instances + 1
    /\ Goto("Idle")
    /\ UNCHANGED <<objExists, hasState, hasId, created, user, keys>>

\* The process stops mid-way; the request is reconciled again later.
Crash ==
    /\ pc # "Idle"
    /\ Goto("Idle")
    /\ UNCHANGED <<objExists, hasState, hasId, created, user, keys, instances>>

\* The object is deleted; the reconciler adds no finalizer.
DeleteObject ==
    /\ objExists /\ objExists' = FALSE
    /\ UNCHANGED <<hasState, hasId, pc, created, user, keys, instances>>

Next ==
    \/ Get \/ GetClient \/ CreateAccount \/ Describe \/ AssumeRole
    \/ CreateUser \/ CreateAccessKey \/ RunInstances \/ Crash \/ DeleteObject

Spec == Init /\ [][Next]_vars

\* A call that succeeds: the reconciliation goes on past it.
Passes(A) == A /\ pc' # "Idle"

\* The steps of a reconciliation after r.Get.
Running ==
    \/ GetClient \/ CreateAccount \/ Describe \/ AssumeRole
    \/ CreateUser \/ CreateAccessKey \/ RunInstances

\* Requeued requests are reconciled again, a running reconciliation takes
\* its next step, and an AWS call retried forever eventually succeeds.
Fairness ==
    /\ WF_vars(Get) /\ WF_vars(Running)
    /\ SF_vars(Passes(GetClient)) /\ SF_vars(Passes(CreateAccount))
    /\ SF_vars(Passes(Describe)) /\ SF_vars(Passes(AssumeRole))
    /\ SF_vars(Passes(CreateUser)) /\ SF_vars(Passes(CreateAccessKey))
    /\ SF_vars(RunInstances /\ instances' = instances + 1)

LiveSpec == Spec /\ Fairness

-----------------------------------------------------------------------------
(* Properties                                                             *)

\* The IAM user, its access key and the EC2 instance are created at most
\* once per account, however often the reconcile is retried: a retry after
\* a failed CreateAccessKey or RunInstances fails at CreateUser, whose name
\* is fixed.
IamChainRunsOnce == keys <= 1 /\ instances <= 1

\* Spec 7(a): a transient AWS error is retried and is not the end of the
\* operation: for an account with an ID and no state that is never deleted,
\* the IAM user, access key and EC2 instance chain eventually completes.
IamChainCompletes == (hasId /\ ~hasState /\ []objExists) => <>(instances > 0)

\* The chain as createIAMUserV2 promises it, the rest of the state hidden.
Chain == INSTANCE ExampleIamChain WITH user <- user, keys <- keys, instances <- instances

\* Every behaviour of the example reconciler, retries and crashes included,
\* creates the IAM user, then one access key, then one EC2 instance, in
\* that order and each once: no retry of Reconcile creates a key before the
\* user or a second key or instance.
IamChainRefinement == Chain!Spec

\* At most one AWS account is created for one Account object (spec 4.1.2:
\* creation is requested for an account without a state, and an account
\* whose ID is known is not created again).
AtMostOneAwsAccount == created <= 1

=============================================================================
