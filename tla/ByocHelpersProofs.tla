------------------------- MODULE ByocHelpersProofs -------------------------
(***************************************************************************)
(* Proofs about ByocHelpers: the error contract of the byoc.go helpers    *)
(* for every call and every outcome of the calls each one makes.          *)
(***************************************************************************)
EXTENDS ByocHelpers, TLAPS

\* No helper of byoc.go, for any outcome of the calls it makes, returns a
\* usable result together with an error.
LEMMA ReturnsContract ==
    ASSUME NEW c \in Calls
    PROVE  Returns(c).err # "nil" => ~Returns(c).usable
<1>1. CASE c.helper = "GetSREAccessARN"
  BY <1>1 DEF Returns, GetSREAccessARN, Returned, Result
<1>2. CASE c.helper = "CreateRole"
  BY <1>2 DEF Returns, CreateRole, Returned, Result
<1>3. CASE c.helper = "GetExistingRole"
  <2>1. c.get \in GetRoleOutcomes
    BY <1>3 DEF Calls
  <2> QED
    BY <1>3, <2>1 DEF Returns, GetExistingRole, Returned, Result, GetRoleOutcomes
<1>4. CASE c.helper \in {"GetAttachedPolicies", "DetachPolicyFromRole", "DeleteRole"}
  BY <1>4 DEF Returns, GetAttachedPolicies, DetachPolicyFromRole, DeleteRole,
              Returned, Result
<1>5. CASE c.helper = "getSTSClient"
  BY <1>5 DEF Returns, GetSTSClient, Returned, Result
<1>6. CASE c.helper = "getCCSClient"
  BY <1>6 DEF Returns, GetCCSClient, Returned, Result
<1>7. CASE c.helper = "initializeNewCCSAccount"
  BY <1>7 DEF Returns, InitializeNewCCSAccount, Returned, Result
<1> QED
  <2>1. c.helper \in {"GetSREAccessARN", "CreateRole", "GetExistingRole",
                      "GetAttachedPolicies", "DetachPolicyFromRole", "DeleteRole",
                      "getSTSClient", "getCCSClient", "initializeNewCCSAccount"}
    BY DEF Calls
  <2> QED
    BY <2>1, <1>1, <1>2, <1>3, <1>4, <1>5, <1>6, <1>7

\* The inductive invariant: the last result is what the last call returns.
IInv ==
    \/ call = [helper |-> "none"] /\ result = Returned(FALSE, "nil")
    \/ call \in Calls /\ result = Returns(call)

LEMMA InitIInv == Init => IInv
BY DEF Init, IInv

LEMMA NextIInv == IInv /\ [Invoke]_vars => IInv'
<1> SUFFICES ASSUME IInv, [Invoke]_vars PROVE IInv'
  OBVIOUS
<1>1. CASE Invoke
  BY <1>1 DEF Invoke, IInv
<1>2. CASE UNCHANGED vars
  BY <1>2 DEF vars, IInv
<1> QED
  BY <1>1, <1>2

\* ErrorMeansNoResult for every behaviour: no byoc.go helper returns a
\* client, role, ARN or role ID together with an error.
THEOREM NoResultWithError == Spec => []ErrorMeansNoResult
<1>1. IInv => ErrorMeansNoResult
  <2> SUFFICES ASSUME IInv, call.helper # "none", result.err # "nil"
               PROVE  ~result.usable
    BY DEF ErrorMeansNoResult
  <2>1. call \in Calls /\ result = Returns(call)
    BY DEF IInv, Returned, Result
  <2> QED
    BY <2>1, ReturnsContract
<1> QED
  BY InitIInv, NextIInv, <1>1, PTL DEF Spec

=============================================================================
