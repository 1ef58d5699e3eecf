--------------------------- MODULE AccountLifecycle ---------------------------
(***************************************************************************)
(* What the Account reconciler promises about an Account object as the    *)
(* control plane shows it, whatever reconciles run, conflict or stop      *)
(* half-way: Status.State moves only along the edges below, the AWS       *)
(* account ID, the claim link, Claimed and the deletion timestamp are set *)
(* once and never cleared, and an object leaves the store only after its *)
(* deletion was requested.  The AccountClaim controller's release of a   *)
(* deleted claim, which clears the link and Claimed, is not in this tree  *)
(* and not modelled: the lifecycle ends at the release of a claim.        *)
(*                                                                         *)
(* The edges are those of Reconcile in account_controller_v2.go, where    *)
(* they differ from spec 4.1: a Creating account becomes Ready directly,  *)
(* and a BYOC account is set back to Creating from any state but Failed   *)
(* and InitializingRegions.                                               *)
(***************************************************************************)
CONSTANTS Accounts, BYOC

VARIABLES
    exists,     \* the object is in the store
    deleting,   \* the deletion timestamp is set
    state,      \* Status.State
    awsId,      \* Spec.AwsAccountID is set
    claimLink,  \* Spec.ClaimLink is set
    claimed     \* Status.Claimed

vars == <<exists, deleting, state, awsId, claimLink, claimed>>

Init ==
    /\ exists = [a \in Accounts |-> TRUE]
    /\ deleting = [a \in Accounts |-> FALSE]
    /\ state \in [Accounts -> {"None", "PendingVerification", "InitializingRegions", "Failed"}]
    /\ awsId \in [Accounts -> BOOLEAN]
    /\ \A a \in Accounts : a \in BYOC \/ state[a] # "None" => awsId[a]
    /\ claimLink = [a \in Accounts |-> a \in BYOC]
    /\ claimed = [a \in Accounts |-> FALSE]

\* The states from which an account is set to Creating: an unclaimed pool
\* account without a state (nonCCSAssignAccountIDV2, or the account ID is
\* already known), and a BYOC account in any state newBYOCAccountV2 reaches.
CreatingFrom(a) ==
    IF a \in BYOC THEN {"None", "PendingVerification", "Ready"}
    ELSE IF claimed[a] THEN {} ELSE {"None"}

SetCreating(a) ==
    /\ exists[a] /\ state[a] \in CreatingFrom(a)
    /\ state' = [state EXCEPT ![a] = "Creating"]
    /\ UNCHANGED <<exists, deleting, awsId, claimLink, claimed>>

\* ReadyForInitialization, then the account is set Ready.
SetReady(a) ==
    /\ exists[a] /\ state[a] = "Creating" /\ (a \in BYOC \/ ~claimed[a])
    /\ state' = [state EXCEPT ![a] = "Ready"]
    /\ UNCHANGED <<exists, deleting, awsId, claimLink, claimed>>

\* A creation error or timeout fails an account that is being created; a
\* failed role assumption in the deletion branch fails any account.
SetFailed(a) ==
    /\ exists[a] /\ state[a] # "Failed"
    /\ state[a] \in {"None", "Creating"} \/ deleting[a]
    /\ state' = [state EXCEPT ![a] = "Failed"]
    /\ UNCHANGED <<exists, deleting, awsId, claimLink, claimed>>

\* The ID of the AWS account just created is recorded on a pool account.
SetAwsId(a) ==
    /\ exists[a] /\ a \notin BYOC /\ ~awsId[a] /\ state[a] = "Creating"
    /\ awsId' = [awsId EXCEPT ![a] = TRUE]
    /\ UNCHANGED <<exists, deleting, state, claimLink, claimed>>

\* The claim controller binds a Ready pool account, link first.
BindClaimLink(a) ==
    /\ exists[a] /\ ~deleting[a] /\ a \notin BYOC
    /\ state[a] = "Ready" /\ ~claimLink[a] /\ ~claimed[a]
    /\ claimLink' = [claimLink EXCEPT ![a] = TRUE]
    /\ UNCHANGED <<exists, deleting, state, awsId, claimed>>

MarkClaimed(a) ==
    /\ exists[a] /\ ~deleting[a] /\ a \notin BYOC
    /\ state[a] = "Ready" /\ claimLink[a] /\ ~claimed[a]
    /\ claimed' = [claimed EXCEPT ![a] = TRUE]
    /\ UNCHANGED <<exists, deleting, state, awsId, claimLink>>

\* Deletion is requested; an object without a finalizer goes at once.
RequestDelete(a) ==
    /\ exists[a] /\ ~deleting[a]
    /\ deleting' = [deleting EXCEPT ![a] = TRUE]
    /\ exists' \in {exists, [exists EXCEPT ![a] = FALSE]}
    /\ UNCHANGED <<state, awsId, claimLink, claimed>>

\* The finalizer of an object being deleted is removed.
Remove(a) ==
    /\ exists[a] /\ deleting[a]
    /\ exists' = [exists EXCEPT ![a] = FALSE]
    /\ UNCHANGED <<deleting, state, awsId, claimLink, claimed>>

Next ==
    \E a \in Accounts :
        \/ SetCreating(a) \/ SetReady(a) \/ SetFailed(a) \/ SetAwsId(a)
        \/ BindClaimLink(a) \/ MarkClaimed(a) \/ RequestDelete(a) \/ Remove(a)

Spec == Init /\ [][Next]_vars

\* What the lifecycle promises a claim: a pool account that is Claimed is
\* linked to its claim and stays Ready until its deletion is requested.
ClaimedInv ==
    \A a \in Accounts \ BYOC :
        claimed[a] => claimLink[a] /\ (state[a] = "Ready" \/ deleting[a])

=============================================================================
