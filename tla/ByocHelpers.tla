----------------------------- MODULE ByocHelpers -----------------------------
(***************************************************************************)
(* The client and IAM role helpers of controllers/account/byoc.go.        *)
(*                                                                         *)
(* Each helper is an operator from the outcomes of the calls it makes (a  *)
(* control-plane read, an AWS call) to what it returns: whether the result *)
(* is usable (a client, a role, an ARN, a role ID) and which error comes   *)
(* with it.  Errors are model values; "nil" is no error.  The state       *)
(* machine below calls one helper with one choice of outcomes per step,   *)
(* so TLC checks the helpers over every combination of outcomes.           *)
(***************************************************************************)
EXTENDS Naturals

\* The ConfigMap read: r.Get fails, the key is missing or empty, or present.
ConfigMapOutcomes == {"getError", "keyMissing", "present"}
CallOutcomes == {"ok", "err"}
\* How IAM GetRole answers: the role, or one of the errors GetExistingRole
\* tells apart, or an error that is not an awserr.Error.
GetRoleOutcomes == {"role", "NoSuchEntity", "ServiceFailure", "OtherAwsError", "NotAwsError"}
\* How getAccountClaim answers: the claim, an error with a claim, an error
\* without one.
ClaimGetOutcomes == {"ok", "errWithClaim", "errNoClaim"}

\* What a helper returns: whether the result is usable (a client, a role, an
\* ARN, a role ID, a role that was changed, a claimed account), the error,
\* and whether it wrote ClaimStatusError on the AccountClaim.
Result(usable, err, claimError) == [usable |-> usable, err |-> err, claimError |-> claimError]
Returned(usable, err) == Result(usable, err, FALSE)

\* GetSREAccessARN: the ARN from the operator ConfigMap.
GetSREAccessARN(cm) ==
    IF cm = "getError" THEN Returned(FALSE, "cmErr")
    ELSE IF cm = "keyMissing" THEN Returned(FALSE, "ErrInvalidConfigMap")
    ELSE Returned(TRUE, "nil")

\* CreateRole: json.Marshal of the trust policy, then IAM CreateRole; the
\* role ID of the new role.
CreateRole(marshal, create) ==
    IF marshal = "err" THEN Returned(FALSE, "marshalErr")
    ELSE IF create = "err" THEN Returned(FALSE, "createErr")
    ELSE Returned(TRUE, "nil")

\* Mutant: an error of GetRole other than NoSuchEntity falls through to
\* the final return of the output GetRole gave.
GetExistingRoleFallThrough(get) ==
    CASE get = "role"           -> Returned(TRUE, "nil")
      [] get = "NoSuchEntity"   -> Returned(FALSE, "nil")
      [] get = "ServiceFailure" -> Returned(TRUE, "ServiceFailure")
      [] get = "OtherAwsError"  -> Returned(TRUE, "OtherAwsError")
      [] get = "NotAwsError"    -> Returned(FALSE, "NotAwsError")

\* GetExistingRole: NoSuchEntity is not an error and gives an empty output;
\* every other error gives an empty output and the error.
GetExistingRole(get) ==
    CASE get = "role"           -> Returned(TRUE, "nil")
      [] get = "NoSuchEntity"   -> Returned(FALSE, "nil")
      [] get = "ServiceFailure" -> Returned(FALSE, "ServiceFailure")
      [] get = "OtherAwsError"  -> Returned(FALSE, "OtherAwsError")
      [] get = "NotAwsError"    -> Returned(FALSE, "NotAwsError")

\* GetAttachedPolicies, DetachPolicyFromRole and DeleteRole: one IAM call,
\* whose error is returned (after logging it when it is an awserr.Error).
GetAttachedPolicies(list) ==
    IF list = "err" THEN Returned(FALSE, "listErr") ELSE Returned(TRUE, "nil")

DetachPolicyFromRole(detach) ==
    IF detach = "err" THEN Returned(FALSE, "detachErr") ELSE Returned(TRUE, "nil")

DeleteRole(delete) ==
    IF delete = "err" THEN Returned(FALSE, "deleteErr") ELSE Returned(TRUE, "nil")

\* getSTSClient: the sts-jump-role ARN from the ConfigMap, jump-role
\* credentials, a client on them, the customer role's credentials, and a
\* client on those.  A missing key returns cmErr, the error of the read.
GetSTSClient(cm, jumpCreds, jumpClient, custCreds, custClient) ==
    LET cmErr == IF cm = "getError" THEN "cmErr" ELSE "nil" IN
    IF cmErr # "nil" THEN Returned(FALSE, cmErr)
    ELSE IF cm = "keyMissing" THEN Returned(FALSE, cmErr)
    ELSE IF jumpCreds = "err" THEN Returned(FALSE, "jumpCredsErr")
    ELSE IF jumpClient = "err" THEN Returned(FALSE, "jumpClientErr")
    ELSE IF custCreds = "err" THEN Returned(FALSE, "customerCredsErr")
    ELSE IF custClient = "err" THEN Returned(FALSE, "customerClientErr")
    ELSE Returned(TRUE, "nil")

\* getCCSClient: a client on the BYOC secret of the claim.
GetCCSClient(build) ==
    IF build = "err" THEN Returned(FALSE, "buildErr") ELSE Returned(TRUE, "nil")

\* initializeNewCCSAccount with claimBYOCAccount: the AccountClaim is read
\* (on an error with a claim, ClaimStatusError is written on it); an
\* unclaimed account is claimed by ClaimAccount, and a failure of that is
\* written on the claim by setAccountClaimError.  Either status write may
\* fail, which is only logged.  The result is usable when the account is
\* claimed afterwards.
InitializeNewCCSAccount(getClaim, claimed, claimAcct, statusWrite) ==
    IF getClaim # "ok"
    THEN Result(FALSE, "claimGetErr", getClaim = "errWithClaim" /\ statusWrite = "ok")
    ELSE IF ~claimed /\ claimAcct = "err"
    THEN Result(FALSE, "claimErr", statusWrite = "ok")
    ELSE Returned(TRUE, "nil")

\* Every call of every helper with every combination of outcomes.
Calls ==
    [helper: {"GetSREAccessARN"}, cm: ConfigMapOutcomes]
    \cup [helper: {"CreateRole"}, marshal: CallOutcomes, create: CallOutcomes]
    \cup [helper: {"GetExistingRole"}, get: GetRoleOutcomes]
    \cup [helper: {"GetAttachedPolicies"}, list: CallOutcomes]
    \cup [helper: {"DetachPolicyFromRole"}, detach: CallOutcomes]
    \cup [helper: {"DeleteRole"}, delete: CallOutcomes]
    \cup [helper: {"getSTSClient"}, cm: ConfigMapOutcomes, jumpCreds: CallOutcomes,
          jumpClient: CallOutcomes, custCreds: CallOutcomes, custClient: CallOutcomes]
    \cup [helper: {"getCCSClient"}, build: CallOutcomes]
    \cup [helper: {"initializeNewCCSAccount"}, getClaim: ClaimGetOutcomes,
          claimed: BOOLEAN, claimAcct: CallOutcomes, statusWrite: CallOutcomes]

Returns(c) ==
    CASE c.helper = "GetSREAccessARN"      -> GetSREAccessARN(c.cm)
      [] c.helper = "CreateRole"           -> CreateRole(c.marshal, c.create)
      [] c.helper = "GetExistingRole"      -> GetExistingRole(c.get)
      [] c.helper = "GetAttachedPolicies"  -> GetAttachedPolicies(c.list)
      [] c.helper = "DetachPolicyFromRole" -> DetachPolicyFromRole(c.detach)
      [] c.helper = "DeleteRole"           -> DeleteRole(c.delete)
      [] c.helper = "getSTSClient"         ->
            GetSTSClient(c.cm, c.jumpCreds, c.jumpClient, c.custCreds, c.custClient)
      [] c.helper = "getCCSClient"         -> GetCCSClient(c.build)
      [] c.helper = "initializeNewCCSAccount" ->
            InitializeNewCCSAccount(c.getClaim, c.claimed, c.claimAcct, c.statusWrite)

VARIABLES
    call,    \* the helper last called and the outcomes of the calls it made
    result,  \* what it returned
    claimErrorStatus  \* the AccountClaim's status is ClaimStatusError

vars == <<call, result, claimErrorStatus>>

Init ==
    /\ call = [helper |-> "none"] /\ result = Returned(FALSE, "nil")
    /\ claimErrorStatus = FALSE

\* One call of a helper, with any outcome of the calls it makes.
Invoke ==
    \E c \in Calls :
        /\ call' = c
        /\ result' = Returns(c)
        /\ claimErrorStatus' = (claimErrorStatus \/ Returns(c).claimError)

Spec == Init /\ [][Invoke]_vars

-----------------------------------------------------------------------------
(* Properties: the Go convention on a (result, error) pair.               *)

\* A helper that returns an error returns no usable result with it: no
\* caller acts on a client, role or ARN that came with an error (in
\* GetExistingRole, an AWS error never passes on the GetRole output).
ErrorMeansNoResult ==
    call.helper # "none" /\ result.err # "nil" => ~result.usable

\* A helper that returns a nil error returns a usable result, except
\* GetExistingRole for a role that does not exist, as its doc comment
\* states: callers of getSTSClient use the client whenever err is nil.
NilErrorMeansResult ==
    call.helper # "none" /\ result.err = "nil" =>
        \/ result.usable
        \/ call.helper = "GetExistingRole" /\ call.get = "NoSuchEntity"

=============================================================================
