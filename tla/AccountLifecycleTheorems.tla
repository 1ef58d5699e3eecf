------------------------ MODULE AccountLifecycleTheorems ------------------------
(***************************************************************************)
(* Proofs about the abstract lifecycle.  AccountLifecycleProofs carries   *)
(* them to the reconciler through the refinement.                          *)
(***************************************************************************)
EXTENDS AccountLifecycle, TLAPS

LStates == {"None", "PendingVerification", "InitializingRegions", "Failed",
            "Creating", "Ready"}

LTypeOK ==
    /\ exists \in [Accounts -> BOOLEAN] /\ deleting \in [Accounts -> BOOLEAN]
    /\ state \in [Accounts -> LStates] /\ awsId \in [Accounts -> BOOLEAN]
    /\ claimLink \in [Accounts -> BOOLEAN] /\ claimed \in [Accounts -> BOOLEAN]

\* The inductive invariant: ClaimedInv holds of well-typed states.
LInv == LTypeOK /\ ClaimedInv

LEMMA InitLInv == Init => LInv
BY DEF Init, LInv, LTypeOK, ClaimedInv, LStates

\* One step of the lifecycle keeps LInv: only MarkClaimed sets Claimed, and
\* it needs the link and Ready; a Claimed pool account is never set
\* Creating, and is failed only once its deletion is requested.
LEMMA NextLInv == LInv /\ [Next]_vars => LInv'
<1> SUFFICES ASSUME LInv, [Next]_vars PROVE LInv'
  OBVIOUS
<1>1. LTypeOK'
  BY DEF LInv, LTypeOK, Next, vars, SetCreating, SetReady, SetFailed, SetAwsId,
         BindClaimLink, MarkClaimed, RequestDelete, Remove, LStates
<1>2. ASSUME NEW b \in Accounts \ BYOC, claimed'[b]
      PROVE  claimLink'[b] /\ (state'[b] = "Ready" \/ deleting'[b])
  <2>1. CASE UNCHANGED vars
    BY <1>2, <2>1 DEF LInv, ClaimedInv, vars
  <2>2. ASSUME NEW a \in Accounts, SetCreating(a)
        PROVE  claimLink'[b] /\ (state'[b] = "Ready" \/ deleting'[b])
    <3>1. a # b
      BY <1>2, <2>2 DEF LInv, LTypeOK, SetCreating, CreatingFrom
    <3> QED
      BY <1>2, <2>2, <3>1 DEF LInv, LTypeOK, ClaimedInv, SetCreating
  <2>3. ASSUME NEW a \in Accounts,
               SetReady(a) \/ SetFailed(a) \/ SetAwsId(a) \/ BindClaimLink(a)
               \/ RequestDelete(a) \/ Remove(a)
        PROVE  claimLink'[b] /\ (state'[b] = "Ready" \/ deleting'[b])
    BY <1>2, <2>3 DEF LInv, LTypeOK, ClaimedInv, SetReady, SetFailed, SetAwsId,
                      BindClaimLink, RequestDelete, Remove
  <2>4. ASSUME NEW a \in Accounts, MarkClaimed(a)
        PROVE  claimLink'[b] /\ (state'[b] = "Ready" \/ deleting'[b])
    BY <1>2, <2>4 DEF LInv, LTypeOK, ClaimedInv, MarkClaimed
  <2> QED
    BY <2>1, <2>2, <2>3, <2>4 DEF Next
<1> QED
  BY <1>1, <1>2 DEF LInv, ClaimedInv

\* Every behaviour of the lifecycle keeps a Claimed pool account linked and
\* Ready until its deletion is requested.
THEOREM ClaimedStable == Spec => []ClaimedInv
<1>1. LInv => ClaimedInv
  BY DEF LInv
<1> QED
  BY InitLInv, NextLInv, <1>1, PTL DEF Spec

=============================================================================
