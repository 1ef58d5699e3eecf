----------------------- MODULE AccountReconcilerProofs -----------------------
(***************************************************************************)
(* Proofs about AccountReconciler for every value of the constants: type  *)
(* correctness, and that no object whose AWS account the operator created *)
(* leaves the control plane before finalizeAccountV2 has run.             *)
(***************************************************************************)
EXTENDS AccountReconciler, TLAPS

-----------------------------------------------------------------------------
(* Writes keep objects well typed                                          *)

LEMMA WithType ==
    ASSUME NEW o \in Object, NEW l \in Object
    PROVE  WithSpec(o, l) \in Object /\ WithStatus(o, l) \in Object
BY DEF WithSpec, WithStatus, Object

\* Setting one field of an object to a value of its type gives an object.
LEMMA ObjectUpdate ==
    ASSUME NEW o \in Object, NEW b \in BOOLEAN, NEW st \in AccountStates
    PROVE  /\ [o EXCEPT !.fin = b] \in Object
           /\ [o EXCEPT !.awsId = b] \in Object
           /\ [o EXCEPT !.label = b] \in Object
           /\ [o EXCEPT !.state = st] \in Object
BY DEF Object

\* The same for a new state alone.
LEMMA StateUpdate ==
    ASSUME NEW o \in Object, NEW st \in AccountStates
    PROVE  [o EXCEPT !.state = st] \in Object
BY DEF Object

LEMMA CommitType ==
    ASSUME ConstantsAssumption, NEW o \in Object, NEW n \in Object, o.rv < MaxVersion
    PROVE  Commit(o, n) \in Object
<1>1. CASE n = o
  BY <1>1 DEF Commit
<1>2. CASE n # o
  <2>1. o.rv + 1 \in 0..MaxVersion
    BY DEF ConstantsAssumption, Object
  <2> QED
    BY <1>2, <2>1 DEF Commit, Object
<1> QED
  BY <1>1, <1>2

-----------------------------------------------------------------------------
(* Type correctness                                                        *)

LEMMA InitType == Init => TypeOK
<1> SUFFICES ASSUME Init PROVE TypeOK
  OBVIOUS
<1>1. \A a \in Accounts : InitialObjects(a) \subseteq Object
  <2> SUFFICES ASSUME NEW a \in Accounts PROVE InitialObjects(a) \subseteq Object
    OBVIOUS
  <2>1. NewObject(a) \in Object
    BY ConstantsAssumption DEF NewObject, Object, AccountStates
  <2>2. [NewObject(a) EXCEPT !.awsId = TRUE] \in Object
    BY <2>1 DEF Object
  <2>3. \A st \in {"PendingVerification", "InitializingRegions", "Failed"} :
           [NewObject(a) EXCEPT !.fin = TRUE, !.awsId = TRUE, !.state = st] \in Object
    BY <2>1 DEF Object, AccountStates
  <2> QED
    BY <2>1, <2>2, <2>3 DEF InitialObjects
<1>2. obj \in [Accounts -> Object] /\ loc \in [Accounts -> Object]
  BY <1>1 DEF Init
<1>3. awsAccounts \in [Accounts -> 0..MaxAwsAccounts]
  BY ConstantsAssumption DEF Init
<1> QED
  BY <1>2, <1>3 DEF Init, TypeOK, Steps, CreateResults

\* Every step of a reconciliation or of the environment keeps the types.
LEMMA NextType == TypeOK /\ [Next]_vars => TypeOK'
<1> SUFFICES ASSUME TypeOK, [Next]_vars PROVE TypeOK'
  OBVIOUS
<1> USE ConstantsAssumption
<1>1. ASSUME NEW a \in Accounts, Get(a) PROVE TypeOK'
  BY <1>1 DEF Get, Goto, TypeOK, Steps
<1>2. ASSUME NEW a \in Accounts, AddFinalizer(a) PROVE TypeOK'
  <2>1. [loc[a] EXCEPT !.fin = TRUE] \in Object
    BY ObjectUpdate DEF TypeOK, AccountStates
  <2>2. obj' \in [Accounts -> Object] /\ loc' \in [Accounts -> Object]
    BY <1>2, <2>1, CommitType, WithType DEF AddFinalizer, StatusUpdate, SpecUpdate, TryStatusUpdate, TrySpecUpdate, Store, WriteOk, Conflict, TypeOK
  <2>3. pc' \in [Accounts -> Steps]
    BY <1>2 DEF AddFinalizer, Goto, AfterBranch, TypeOK, Steps
  <2> QED
    BY <1>2, <2>2, <2>3 DEF AddFinalizer, TypeOK
<1>3. ASSUME NEW a \in Accounts, Route(a) PROVE TypeOK'
  <2>1. RouteTarget(a, loc[a]) \in Steps
    BY DEF RouteTarget, AfterBranch, Steps
  <2> QED
    BY <1>3, <2>1 DEF Route, Goto, TypeOK
<1>4. ASSUME NEW a \in Accounts, Delete(a) PROVE TypeOK'
  <2>1. [loc[a] EXCEPT !.fin = FALSE] \in Object /\ [loc[a] EXCEPT !.state = "Failed"] \in Object
    BY ObjectUpdate DEF TypeOK, AccountStates
  <2>2. obj' \in [Accounts -> Object] /\ loc' \in [Accounts -> Object]
    BY <1>4, <2>1, CommitType, WithType DEF Delete, DeleteSts, DeleteRoleFailed, DeleteFinalize, StatusUpdate, SpecUpdate, TryStatusUpdate, TrySpecUpdate, Store, WriteOk, Conflict, TypeOK
  <2>3. pc' \in [Accounts -> Steps]
    BY <1>4 DEF Delete, DeleteSts, DeleteRoleFailed, DeleteFinalize, Goto, AfterBranch, TypeOK, Steps
  <2> QED
    BY <1>4, <2>2, <2>3 DEF Delete, DeleteSts, DeleteRoleFailed, DeleteFinalize, TypeOK
<1>5. ASSUME NEW a \in Accounts, ByocCreating(a) PROVE TypeOK'
  <2>1. [loc[a] EXCEPT !.state = "Creating"] \in Object
    BY ObjectUpdate DEF TypeOK, AccountStates
  <2>2. obj' \in [Accounts -> Object] /\ loc' \in [Accounts -> Object]
    BY <1>5, <2>1, CommitType, WithType DEF ByocCreating, StatusUpdate, SpecUpdate, TryStatusUpdate, TrySpecUpdate, Store, WriteOk, Conflict, TypeOK
  <2>3. pc' \in [Accounts -> Steps]
    BY <1>5 DEF ByocCreating, Goto, AfterBranch, TypeOK, Steps
  <2> QED
    BY <1>5, <2>2, <2>3 DEF ByocCreating, TypeOK
<1>6. ASSUME NEW a \in Accounts, Timeout(a) PROVE TypeOK'
  <2>1. [loc[a] EXCEPT !.state = "Failed"] \in Object
    BY ObjectUpdate DEF TypeOK, AccountStates
  <2>2. obj' \in [Accounts -> Object] /\ loc' \in [Accounts -> Object]
    BY <1>6, <2>1, CommitType, WithType DEF Timeout, StatusUpdate, SpecUpdate, TryStatusUpdate, TrySpecUpdate, Store, WriteOk, Conflict, TypeOK
  <2>3. pc' \in [Accounts -> Steps]
    BY <1>6 DEF Timeout, Goto, AfterBranch, TypeOK, Steps
  <2> QED
    BY <1>6, <2>2, <2>3 DEF Timeout, TypeOK
<1>7. ASSUME NEW a \in Accounts, Create(a) PROVE TypeOK'
  <2>1. [loc[a] EXCEPT !.state = "Failed"] \in Object
    BY StateUpdate DEF TypeOK, AccountStates
  <2>2. CASE \E code \in ErrorCodes, text \in ErrorTexts :
               /\ createCode' = [createCode EXCEPT ![a] = code]
               /\ IF CreateError(code, text) = "ErrAwsFailedCreateAccount"
                    THEN TryStatusUpdate(a, [loc[a] EXCEPT !.state = "Failed"])
                    ELSE UNCHANGED <<obj, loc>>
               /\ Goto(a, "Idle")
               /\ UNCHANGED <<outcome, awsAccounts, finalized>>
    <3> PICK code \in ErrorCodes, text \in ErrorTexts :
               /\ createCode' = [createCode EXCEPT ![a] = code]
               /\ IF CreateError(code, text) = "ErrAwsFailedCreateAccount"
                    THEN TryStatusUpdate(a, [loc[a] EXCEPT !.state = "Failed"])
                    ELSE UNCHANGED <<obj, loc>>
               /\ Goto(a, "Idle")
               /\ UNCHANGED <<outcome, awsAccounts, finalized>>
      BY <2>2
    <3>1. obj' \in [Accounts -> Object] /\ loc' \in [Accounts -> Object]
      <4>1. CASE CreateError(code, text) = "ErrAwsFailedCreateAccount"
        BY <2>1, <4>1, CommitType, WithType DEF TryStatusUpdate, StatusUpdate, Store, WriteOk, Conflict, TypeOK
      <4>2. CASE CreateError(code, text) # "ErrAwsFailedCreateAccount"
        BY <4>2 DEF TypeOK
      <4> QED
        BY <4>1, <4>2
    <3>2. pc' \in [Accounts -> Steps] /\ createCode' \in [Accounts -> ErrorCodes \cup {"none"}]
      BY DEF Goto, TypeOK, Steps
    <3> QED
      BY <1>7, <3>1, <3>2 DEF Create, TypeOK
  <2>3. CASE \E r \in CreateResults :
               /\ outcome' = [outcome EXCEPT ![a] = r]
               /\ IF r = "SUCCEEDED"
                    THEN /\ awsAccounts[a] < MaxAwsAccounts
                         /\ awsAccounts' = [awsAccounts EXCEPT ![a] = @ + 1]
                         /\ finalized' = [finalized EXCEPT ![a] = FALSE]
                    ELSE UNCHANGED <<awsAccounts, finalized>>
               /\ Goto(a, "Poll")
               /\ UNCHANGED <<obj, loc, createCode>>
    <3> PICK r \in CreateResults :
               /\ outcome' = [outcome EXCEPT ![a] = r]
               /\ IF r = "SUCCEEDED"
                    THEN /\ awsAccounts[a] < MaxAwsAccounts
                         /\ awsAccounts' = [awsAccounts EXCEPT ![a] = @ + 1]
                         /\ finalized' = [finalized EXCEPT ![a] = FALSE]
                    ELSE UNCHANGED <<awsAccounts, finalized>>
               /\ Goto(a, "Poll")
               /\ UNCHANGED <<obj, loc, createCode>>
      BY <2>3
    <3>1. awsAccounts' \in [Accounts -> 0..MaxAwsAccounts] /\ finalized' \in [Accounts -> BOOLEAN]
      <4>1. CASE r = "SUCCEEDED"
        <5>1. awsAccounts[a] \in 0..MaxAwsAccounts /\ awsAccounts[a] < MaxAwsAccounts
          BY <4>1 DEF TypeOK
        <5>2. awsAccounts[a] + 1 \in 0..MaxAwsAccounts
          BY <5>1
        <5>3. awsAccounts' = [awsAccounts EXCEPT ![a] = awsAccounts[a] + 1]
              /\ finalized' = [finalized EXCEPT ![a] = FALSE]
          BY <4>1
        <5> QED
          BY <5>2, <5>3 DEF TypeOK
      <4>2. CASE r # "SUCCEEDED"
        BY <4>2 DEF TypeOK
      <4> QED
        BY <4>1, <4>2
    <3>2. pc' \in [Accounts -> Steps] /\ outcome' \in [Accounts -> CreateResults]
      BY DEF Goto, TypeOK, Steps
    <3> QED
      BY <1>7, <3>1, <3>2 DEF Create, TypeOK
  <2> QED
    BY <1>7, <2>2, <2>3 DEF Create
<1>8. ASSUME NEW a \in Accounts, Poll(a) PROVE TypeOK'
  <2>1. [loc[a] EXCEPT !.state = "Failed"] \in Object
    BY ObjectUpdate DEF TypeOK, AccountStates
  <2>2. obj' \in [Accounts -> Object] /\ loc' \in [Accounts -> Object]
    BY <1>8, <2>1, CommitType, WithType DEF Poll, StatusUpdate, SpecUpdate, TryStatusUpdate, TrySpecUpdate, Store, WriteOk, Conflict, TypeOK
  <2>3. pc' \in [Accounts -> Steps]
    BY <1>8 DEF Poll, Goto, AfterBranch, TypeOK, Steps
  <2> QED
    BY <1>8, <2>2, <2>3 DEF Poll, TypeOK
<1>9. ASSUME NEW a \in Accounts, SetCreating(a) PROVE TypeOK'
  <2>1. [loc[a] EXCEPT !.state = "Creating"] \in Object
    BY ObjectUpdate DEF TypeOK, AccountStates
  <2>2. obj' \in [Accounts -> Object] /\ loc' \in [Accounts -> Object]
    BY <1>9, <2>1, CommitType, WithType DEF SetCreating, StatusUpdate, SpecUpdate, TryStatusUpdate, TrySpecUpdate, Store, WriteOk, Conflict, TypeOK
  <2>3. pc' \in [Accounts -> Steps]
    BY <1>9 DEF SetCreating, Goto, AfterBranch, TypeOK, Steps
  <2> QED
    BY <1>9, <2>2, <2>3 DEF SetCreating, TypeOK
<1>10. ASSUME NEW a \in Accounts, SetId(a) PROVE TypeOK'
  <2>1. [loc[a] EXCEPT !.awsId = TRUE] \in Object
    BY ObjectUpdate DEF TypeOK, AccountStates
  <2>2. obj' \in [Accounts -> Object] /\ loc' \in [Accounts -> Object]
    BY <1>10, <2>1, CommitType, WithType DEF SetId, StatusUpdate, SpecUpdate, TryStatusUpdate, TrySpecUpdate, Store, WriteOk, Conflict, TypeOK
  <2>3. pc' \in [Accounts -> Steps]
    BY <1>10 DEF SetId, Goto, AfterBranch, TypeOK, Steps
  <2> QED
    BY <1>10, <2>2, <2>3 DEF SetId, TypeOK
<1>11. ASSUME NEW a \in Accounts, AlreadyCreated(a) PROVE TypeOK'
  <2>1. [loc[a] EXCEPT !.state = "Creating"] \in Object
    BY ObjectUpdate DEF TypeOK, AccountStates
  <2>2. obj' \in [Accounts -> Object] /\ loc' \in [Accounts -> Object]
    BY <1>11, <2>1, CommitType, WithType DEF AlreadyCreated, StatusUpdate, SpecUpdate, TryStatusUpdate, TrySpecUpdate, Store, WriteOk, Conflict, TypeOK
  <2>3. pc' \in [Accounts -> Steps]
    BY <1>11 DEF AlreadyCreated, Goto, AfterBranch, TypeOK, Steps
  <2> QED
    BY <1>11, <2>2, <2>3 DEF AlreadyCreated, TypeOK
<1>12. ASSUME NEW a \in Accounts, InitializeAccount(a) PROVE TypeOK'
  <2>1. [loc[a] EXCEPT !.state = "Ready"] \in Object /\ [loc[a] EXCEPT !.label = TRUE] \in Object
    BY ObjectUpdate DEF TypeOK, AccountStates
  <2>2. obj' \in [Accounts -> Object] /\ loc' \in [Accounts -> Object]
    BY <1>12, <2>1, CommitType, WithType DEF InitializeAccount, StatusUpdate, SpecUpdate, TryStatusUpdate, TrySpecUpdate, Store, WriteOk, Conflict, TypeOK
  <2>3. pc' \in [Accounts -> Steps]
    BY <1>12 DEF InitializeAccount, Goto, AfterBranch, TypeOK, Steps
  <2> QED
    BY <1>12, <2>2, <2>3 DEF InitializeAccount, TypeOK
<1>13. ASSUME NEW a \in Accounts, Abort(a) PROVE TypeOK'
  BY <1>13 DEF Abort, Goto, TypeOK, Steps
<1>14. ASSUME NEW a \in Accounts, Environment(a) PROVE TypeOK'
  <2>1. CASE RequestDelete(a)
    BY <2>1 DEF RequestDelete, TypeOK, Object
  <2>2. CASE BindClaimLink(a)
    BY <2>2 DEF BindClaimLink, TypeOK, Object
  <2>3. CASE MarkClaimed(a)
    BY <2>3 DEF MarkClaimed, TypeOK, Object
  <2>4. CASE Expire(a)
    BY <2>4 DEF Expire, TypeOK
  <2> QED
    BY <1>14, <2>1, <2>2, <2>3, <2>4 DEF Environment
<1>15. CASE RefreshBudget
  BY <1>15 DEF RefreshBudget, TypeOK
<1>16. CASE UNCHANGED vars
  BY <1>16 DEF vars, TypeOK
<1> QED
  BY <1>1, <1>2, <1>3, <1>4, <1>5, <1>6, <1>7, <1>8, <1>9, <1>10, <1>11,
     <1>12, <1>13, <1>14, <1>15, <1>16 DEF Next, Reconcile

\* Type correctness of the Account reconciler: every reachable state gives
\* each object, local copy, step and counter a value of its type.
THEOREM TypeCorrect == Spec => []TypeOK
BY InitType, NextType, PTL DEF Spec

-----------------------------------------------------------------------------
(* No orphaned AWS account                                                 *)

\* The steps between AddFinalizer and the end of a reconciliation, and the
\* steps reached only on the path that calls CreateAccount.
PostFinalizer == Steps \ {"Idle", "AddFinalizer"}
CreationSteps == {"Create", "Poll", "SetCreating", "SetId"}

\* What holds of one account, besides the property itself: only pool
\* accounts reach CreateAccount; once past addFinalizer a non-STS
\* reconciliation holds a copy with the finalizer, which the stored object
\* still has; a stored finalizer keeps the object in the control plane; and
\* an object with an unfinalized AWS account keeps its finalizer.
AccountInv(a) ==
    /\ awsAccounts[a] > 0 => a \notin BYOC
    /\ pc[a] \in CreationSteps => a \notin BYOC
    /\ a \notin STS /\ pc[a] \in PostFinalizer => loc[a].fin
    /\ pc[a] # "Idle" /\ loc[a].fin => obj[a].fin
    /\ obj[a].fin => obj[a].exists
    /\ obj[a].exists /\ awsAccounts[a] > 0 /\ ~finalized[a] => obj[a].fin
    /\ ~obj[a].exists /\ awsAccounts[a] > 0 => finalized[a]


\* What a landed status write leaves in the store and in the local copy.
LEMMA StatusWriteFacts ==
    ASSUME TypeOK, NEW a \in Accounts, NEW l \in Object,
           WriteOk(a), StatusUpdate(a, l)
    PROVE  /\ obj'[a] = loc'[a]
           /\ obj'[a].fin = obj[a].fin
           /\ obj[a].fin => obj'[a].exists
           /\ \A b \in Accounts \ {a} : obj'[b] = obj[b] /\ loc'[b] = loc[b]
BY DEF TypeOK, Object, WriteOk, Conflict, StatusUpdate, Store, Commit, WithStatus

\* What a landed spec write leaves in the store and in the local copy.
LEMMA SpecWriteFacts ==
    ASSUME TypeOK, NEW a \in Accounts, NEW l \in Object,
           WriteOk(a), SpecUpdate(a, l)
    PROVE  /\ obj'[a] = loc'[a]
           /\ obj'[a].fin = l.fin
           /\ l.fin => obj'[a].exists
           /\ \A b \in Accounts \ {a} : obj'[b] = obj[b] /\ loc'[b] = loc[b]
BY DEF TypeOK, Object, WriteOk, Conflict, SpecUpdate, Store, Commit, WithSpec

\* The inductive invariant behind OrphanFreeDeletion.
IInv == TypeOK /\ \A a \in Accounts : AccountInv(a)

\* Every initial state satisfies it.
LEMMA InitIInv == Init => IInv
<1> SUFFICES ASSUME Init PROVE IInv
  OBVIOUS
<1>1. TypeOK
  BY InitType
<1>2. ASSUME NEW a \in Accounts PROVE AccountInv(a)
  <2>1. /\ obj[a] \in InitialObjects(a)
        /\ awsAccounts[a] = IF a \notin BYOC /\ obj[a].state # "None" THEN 1 ELSE 0
        /\ pc[a] = "Idle" /\ loc[a] = obj[a] /\ finalized[a] = FALSE
    BY DEF Init
  <2>2. obj[a].exists /\ (obj[a].state # "None" => obj[a].fin)
    <3>1. CASE obj[a] = NewObject(a) \/ obj[a] = [NewObject(a) EXCEPT !.awsId = TRUE]
      BY <3>1 DEF NewObject
    <3>2. CASE \E s \in {"PendingVerification", "InitializingRegions", "Failed"} :
                 obj[a] = [NewObject(a) EXCEPT !.fin = TRUE, !.awsId = TRUE, !.state = s]
      BY <3>2 DEF NewObject
    <3> QED
      BY <2>1, <3>1, <3>2 DEF InitialObjects
  <2>3. awsAccounts[a] > 0 => a \notin BYOC /\ obj[a].fin
    <3>1. awsAccounts[a] > 0 => a \notin BYOC /\ obj[a].state # "None"
      BY <2>1
    <3>2. a \notin BYOC => a \notin STS
      BY ConstantsAssumption
    <3> QED
      BY <2>2, <3>1, <3>2
  <2>4. pc[a] \notin PostFinalizer \cup CreationSteps
    BY <2>1 DEF PostFinalizer, CreationSteps, Steps
  <2> QED
    BY <2>1, <2>2, <2>3, <2>4 DEF AccountInv
<1> QED
  BY <1>1, <1>2 DEF IInv

\* Every step keeps the invariant of every account.
LEMMA NextIInv == IInv /\ [Next]_vars => IInv'
<1> SUFFICES ASSUME IInv, [Next]_vars PROVE IInv'
  OBVIOUS
<1> USE ConstantsAssumption
<1>0. TypeOK'
  BY NextType DEF IInv
<1>1. ASSUME NEW a \in Accounts, Get(a) PROVE \A b \in Accounts : AccountInv(b)'
  BY <1>1, <1>0 DEF IInv, TypeOK, AccountInv, PostFinalizer, CreationSteps, Steps, Object, Get, StatusUpdate, SpecUpdate, TryStatusUpdate, TrySpecUpdate, Store, WriteOk, Conflict, Commit, WithSpec, WithStatus, Goto, AfterBranch, RouteTarget
<1>2. ASSUME NEW a \in Accounts, AddFinalizer(a) PROVE \A b \in Accounts : AccountInv(b)'
  <2> SUFFICES ASSUME NEW b \in Accounts PROVE AccountInv(b)'
    OBVIOUS
  <2>0. AccountInv(b) /\ AccountInv(a) /\ pc[a] = "AddFinalizer" /\ UNCHANGED <<awsAccounts, finalized>>
    BY <1>2 DEF IInv, AddFinalizer
  <2>1. [loc[a] EXCEPT !.fin = TRUE] \in Object
    BY ObjectUpdate DEF IInv, TypeOK, AccountStates
  <2>9. [loc[a] EXCEPT !.fin = TRUE].fin
    BY DEF IInv, TypeOK, Object
  <2>2. CASE a \notin STS /\ ~loc[a].fin /\ WriteOk(a) /\ SpecUpdate(a, [loc[a] EXCEPT !.fin = TRUE]) /\ Goto(a, "Route")
    <3>1. /\ obj'[a] = loc'[a]
          /\ obj'[a].fin = [loc[a] EXCEPT !.fin = TRUE].fin
          /\ [loc[a] EXCEPT !.fin = TRUE].fin => obj'[a].exists
          /\ \A c \in Accounts \ {a} : obj'[c] = obj[c] /\ loc'[c] = loc[c]
      BY <2>1, <2>2, SpecWriteFacts DEF IInv
    <3>2. obj[a].exists /\ pc' = [pc EXCEPT ![a] = "Route"]
      BY <2>2 DEF WriteOk, Conflict, Goto
    <3>3. CASE b = a
      BY <2>0, <2>9, <2>2, <3>1, <3>2, <3>3 DEF IInv, TypeOK, AccountInv, PostFinalizer, CreationSteps, Steps
    <3>4. CASE b # a
      BY <2>0, <3>1, <3>2, <3>4 DEF AccountInv, IInv, TypeOK
    <3> QED
      BY <3>3, <3>4
  <2>3. CASE UNCHANGED <<obj, loc>> /\ Goto(a, "Idle")
    BY <2>0, <2>3 DEF Goto, IInv, TypeOK, AccountInv, PostFinalizer, CreationSteps, Steps
  <2>4. CASE ~(a \notin STS /\ ~loc[a].fin) /\ UNCHANGED <<obj, loc>> /\ Goto(a, "Route")
    BY <2>0, <2>4 DEF Goto, IInv, TypeOK, AccountInv, PostFinalizer, CreationSteps, Steps
  <2> QED
    BY <1>2, <2>2, <2>3, <2>4 DEF AddFinalizer
<1>3. ASSUME NEW a \in Accounts, Route(a) PROVE \A b \in Accounts : AccountInv(b)'
  BY <1>3, <1>0 DEF IInv, TypeOK, AccountInv, PostFinalizer, CreationSteps, Steps, Object, Route, StatusUpdate, SpecUpdate, TryStatusUpdate, TrySpecUpdate, Store, WriteOk, Conflict, Commit, WithSpec, WithStatus, Goto, AfterBranch, RouteTarget
<1>4. ASSUME NEW a \in Accounts, Delete(a) PROVE \A b \in Accounts : AccountInv(b)'
  <2> SUFFICES ASSUME NEW b \in Accounts PROVE AccountInv(b)'
    OBVIOUS
  <2>0. AccountInv(b) /\ AccountInv(a) /\ pc[a] = "Delete" /\ UNCHANGED awsAccounts
    BY <1>4 DEF IInv, Delete, DeleteSts, DeleteRoleFailed, DeleteFinalize
  <2>1. [loc[a] EXCEPT !.fin = FALSE] \in Object
    BY ObjectUpdate DEF IInv, TypeOK, AccountStates
  <2>2. [loc[a] EXCEPT !.state = "Failed"] \in Object
    BY ObjectUpdate DEF IInv, TypeOK, AccountStates
  <2>3. CASE a \in STS /\ TrySpecUpdate(a, [loc[a] EXCEPT !.fin = FALSE]) /\ UNCHANGED finalized
    <3>0. awsAccounts[a] = 0 /\ pc' = [pc EXCEPT ![a] = "Idle"]
      BY <1>4, <2>0, <2>3, ConstantsAssumption DEF AccountInv, Delete, DeleteSts, DeleteRoleFailed, DeleteFinalize, Goto, TypeOK, IInv
    <3>1. CASE WriteOk(a) /\ SpecUpdate(a, [loc[a] EXCEPT !.fin = FALSE])
      <4>1. /\ obj'[a] = loc'[a]
            /\ obj'[a].fin = [loc[a] EXCEPT !.fin = FALSE].fin
            /\ \A c \in Accounts \ {a} : obj'[c] = obj[c] /\ loc'[c] = loc[c]
        BY <2>1, <3>1, SpecWriteFacts DEF IInv
      <4>2. ~[loc[a] EXCEPT !.fin = FALSE].fin
        BY DEF IInv, TypeOK, Object
      <4> QED
        BY <2>0, <2>3, <3>0, <4>1, <4>2 DEF IInv, TypeOK, AccountInv, PostFinalizer, CreationSteps, Steps
    <3>2. CASE UNCHANGED <<obj, loc>>
      BY <2>0, <2>3, <3>0, <3>2 DEF IInv, TypeOK, AccountInv, PostFinalizer, CreationSteps, Steps
    <3> QED
      BY <2>3, <3>1, <3>2 DEF TrySpecUpdate
  <2>4. CASE a \notin STS /\ TryStatusUpdate(a, [loc[a] EXCEPT !.state = "Failed"]) /\ UNCHANGED finalized
    <3>0. pc' = [pc EXCEPT ![a] = "Idle"]
      BY <1>4 DEF Delete, DeleteSts, DeleteRoleFailed, DeleteFinalize, Goto
    <3>1. CASE WriteOk(a) /\ StatusUpdate(a, [loc[a] EXCEPT !.state = "Failed"])
      <4>1. /\ obj'[a] = loc'[a]
            /\ obj'[a].fin = obj[a].fin
            /\ obj[a].fin => obj'[a].exists
            /\ \A c \in Accounts \ {a} : obj'[c] = obj[c] /\ loc'[c] = loc[c]
        BY <2>2, <3>1, StatusWriteFacts DEF IInv
      <4>2. obj[a].exists
        BY <3>1 DEF WriteOk, Conflict
      <4> QED
        BY <2>0, <2>4, <3>0, <4>1, <4>2 DEF IInv, TypeOK, AccountInv, PostFinalizer, CreationSteps, Steps
    <3>2. CASE UNCHANGED <<obj, loc>>
      BY <2>0, <2>4, <3>0, <3>2 DEF IInv, TypeOK, AccountInv, PostFinalizer, CreationSteps, Steps
    <3> QED
      BY <2>4, <3>1, <3>2 DEF TryStatusUpdate
  <2>5. CASE a \notin STS /\ finalized' = [finalized EXCEPT ![a] = TRUE]
             /\ IF loc[a].fin THEN TrySpecUpdate(a, [loc[a] EXCEPT !.fin = FALSE]) ELSE UNCHANGED <<obj, loc>>
    <3>0. pc' = [pc EXCEPT ![a] = "Idle"] /\ finalized'[a] /\ \A c \in Accounts \ {a} : finalized'[c] = finalized[c]
      BY <1>4, <2>5 DEF Delete, DeleteSts, DeleteRoleFailed, DeleteFinalize, Goto, IInv, TypeOK
    <3>1. CASE WriteOk(a) /\ SpecUpdate(a, [loc[a] EXCEPT !.fin = FALSE])
      <4>1. /\ obj'[a] = loc'[a]
            /\ \A c \in Accounts \ {a} : obj'[c] = obj[c] /\ loc'[c] = loc[c]
        BY <2>1, <3>1, SpecWriteFacts DEF IInv
      <4>2. obj'[a].fin = [loc[a] EXCEPT !.fin = FALSE].fin /\ ~[loc[a] EXCEPT !.fin = FALSE].fin
        <5>1. obj'[a].fin = [loc[a] EXCEPT !.fin = FALSE].fin
          BY <2>1, <3>1, SpecWriteFacts DEF IInv
        <5>2. ~[loc[a] EXCEPT !.fin = FALSE].fin
          BY DEF IInv, TypeOK, Object
        <5> QED
          BY <5>1, <5>2
      <4> QED
        BY <1>4, <2>0, <3>0, <4>1, <4>2 DEF Delete, DeleteSts, DeleteRoleFailed, DeleteFinalize, IInv, TypeOK, AccountInv, PostFinalizer, CreationSteps, Steps
    <3>2. CASE UNCHANGED <<obj, loc>>
      BY <1>4, <2>0, <3>0, <3>2 DEF Delete, DeleteSts, DeleteRoleFailed, DeleteFinalize, IInv, TypeOK, AccountInv, PostFinalizer, CreationSteps, Steps
    <3> QED
      BY <2>5, <3>1, <3>2 DEF TrySpecUpdate
  <2> QED
    BY <1>4, <2>3, <2>4, <2>5 DEF Delete, DeleteSts, DeleteRoleFailed, DeleteFinalize
<1>5. ASSUME NEW a \in Accounts, ByocCreating(a) PROVE \A b \in Accounts : AccountInv(b)'
  <2> SUFFICES ASSUME NEW b \in Accounts PROVE AccountInv(b)'
    OBVIOUS
  <2>0. AccountInv(b) /\ AccountInv(a) /\ pc[a] = "ByocCreating" /\ UNCHANGED <<awsAccounts, finalized>>
    BY <1>5 DEF IInv, ByocCreating
  <2>1. [loc[a] EXCEPT !.state = "Creating"] \in Object
    BY ObjectUpdate DEF IInv, TypeOK, AccountStates
  <2>2. CASE WriteOk(a) /\ StatusUpdate(a, [loc[a] EXCEPT !.state = "Creating"]) /\ Goto(a, AfterBranch(a, [loc[a] EXCEPT !.state = "Creating"]))
    <3>1. /\ obj'[a] = loc'[a]
          /\ obj'[a].fin = obj[a].fin
          /\ obj[a].fin => obj'[a].exists
          /\ \A c \in Accounts \ {a} : obj'[c] = obj[c] /\ loc'[c] = loc[c]
      BY <2>1, <2>2, StatusWriteFacts DEF IInv
    <3>2. obj[a].exists /\ pc' = [pc EXCEPT ![a] = AfterBranch(a, [loc[a] EXCEPT !.state = "Creating"])]
      BY <2>2 DEF WriteOk, Conflict, Goto
    <3>3. CASE b = a
      BY <2>0, <2>2, <3>1, <3>2, <3>3 DEF IInv, TypeOK, AccountInv, PostFinalizer, CreationSteps, Steps, AfterBranch
    <3>4. CASE b # a
      BY <2>0, <3>1, <3>2, <3>4 DEF AccountInv, IInv, TypeOK
    <3> QED
      BY <3>3, <3>4
  <2>3. CASE UNCHANGED <<obj, loc>> /\ Goto(a, "Idle")
    BY <2>0, <2>3 DEF Goto, IInv, TypeOK, AccountInv, PostFinalizer, CreationSteps, Steps, AfterBranch
  <2> QED
    BY <1>5, <2>2, <2>3 DEF ByocCreating, TryStatusUpdate, WriteOk
<1>6. ASSUME NEW a \in Accounts, Timeout(a) PROVE \A b \in Accounts : AccountInv(b)'
  <2> SUFFICES ASSUME NEW b \in Accounts PROVE AccountInv(b)'
    OBVIOUS
  <2>0. AccountInv(b) /\ AccountInv(a) /\ pc[a] = "Timeout" /\ UNCHANGED <<awsAccounts, finalized>>
    BY <1>6 DEF IInv, Timeout
  <2>1. [loc[a] EXCEPT !.state = "Failed"] \in Object
    BY ObjectUpdate DEF IInv, TypeOK, AccountStates
  <2>2. CASE WriteOk(a) /\ StatusUpdate(a, [loc[a] EXCEPT !.state = "Failed"]) /\ Goto(a, "Idle")
    <3>1. /\ obj'[a] = loc'[a]
          /\ obj'[a].fin = obj[a].fin
          /\ obj[a].fin => obj'[a].exists
          /\ \A c \in Accounts \ {a} : obj'[c] = obj[c] /\ loc'[c] = loc[c]
      BY <2>1, <2>2, StatusWriteFacts DEF IInv
    <3>2. obj[a].exists /\ pc' = [pc EXCEPT ![a] = "Idle"]
      BY <2>2 DEF WriteOk, Conflict, Goto
    <3>3. CASE b = a
      BY <2>0, <2>2, <3>1, <3>2, <3>3 DEF IInv, TypeOK, AccountInv, PostFinalizer, CreationSteps, Steps
    <3>4. CASE b # a
      BY <2>0, <3>1, <3>2, <3>4 DEF AccountInv, IInv, TypeOK
    <3> QED
      BY <3>3, <3>4
  <2>3. CASE UNCHANGED <<obj, loc>> /\ Goto(a, "Idle")
    BY <2>0, <2>3 DEF Goto, IInv, TypeOK, AccountInv, PostFinalizer, CreationSteps, Steps
  <2> QED
    BY <1>6, <2>2, <2>3 DEF Timeout, TryStatusUpdate, WriteOk
<1>7. ASSUME NEW a \in Accounts, Create(a) PROVE \A b \in Accounts : AccountInv(b)'
  <2> SUFFICES ASSUME NEW b \in Accounts PROVE AccountInv(b)'
    OBVIOUS
  <2>0. AccountInv(b) /\ AccountInv(a) /\ pc[a] = "Create"
    BY <1>7 DEF IInv, Create
  <2>1. a \notin BYOC /\ a \notin STS /\ loc[a].fin /\ obj[a].fin /\ obj[a].exists
    BY <2>0 DEF AccountInv, CreationSteps, PostFinalizer, Steps
  <2>2. [loc[a] EXCEPT !.state = "Failed"] \in Object
    <3>1. loc[a] \in Object /\ "Failed" \in AccountStates
      BY DEF IInv, TypeOK, AccountStates
    <3> QED
      BY <3>1, StateUpdate
  <2>3. CASE UNCHANGED <<awsAccounts, finalized>> /\ Goto(a, "Idle")
             /\ TryStatusUpdate(a, [loc[a] EXCEPT !.state = "Failed"])
    <3>0. pc' = [pc EXCEPT ![a] = "Idle"] /\ pc'[a] = "Idle"
      BY <2>3 DEF Goto, IInv, TypeOK
    <3>1. CASE WriteOk(a) /\ StatusUpdate(a, [loc[a] EXCEPT !.state = "Failed"])
      <4>1. /\ obj'[a] = loc'[a]
            /\ obj'[a].fin = obj[a].fin
            /\ obj[a].fin => obj'[a].exists
            /\ \A c \in Accounts \ {a} : obj'[c] = obj[c] /\ loc'[c] = loc[c]
        BY <2>2, <3>1, StatusWriteFacts DEF IInv
      <4>2. CASE b = a
        <5>1. obj'[a].fin /\ obj'[a].exists
          BY <2>1, <4>1
        <5> QED
          BY <2>1, <2>3, <3>0, <4>2, <5>1 DEF AccountInv, PostFinalizer, CreationSteps, Steps
      <4>3. CASE b # a
        BY <2>0, <2>3, <3>0, <4>1, <4>3 DEF AccountInv, IInv, TypeOK
      <4> QED
        BY <4>2, <4>3
    <3>2. CASE UNCHANGED <<obj, loc>>
      BY <2>0, <2>3, <3>0, <3>2 DEF IInv, TypeOK, AccountInv, PostFinalizer, CreationSteps, Steps
    <3> QED
      BY <2>3, <3>1, <3>2 DEF TryStatusUpdate
  <2>4. CASE UNCHANGED <<awsAccounts, finalized, obj, loc>> /\ Goto(a, "Idle")
    BY <2>0, <2>4 DEF Goto, IInv, TypeOK, AccountInv, PostFinalizer, CreationSteps, Steps
  <2>5. CASE /\ UNCHANGED <<obj, loc>> /\ Goto(a, "Poll")
             /\ \A c \in Accounts \ {a} : awsAccounts'[c] = awsAccounts[c] /\ finalized'[c] = finalized[c]
    <3>0. pc' = [pc EXCEPT ![a] = "Poll"]
      BY <2>5 DEF Goto
    <3>1. CASE b = a
      BY <2>0, <2>1, <2>5, <3>0, <3>1 DEF IInv, TypeOK, AccountInv, PostFinalizer, CreationSteps, Steps
    <3>2. CASE b # a
      BY <2>0, <2>5, <3>0, <3>2 DEF AccountInv, IInv, TypeOK
    <3> QED
      BY <3>1, <3>2
  <2>6. CASE \E code \in ErrorCodes, text \in ErrorTexts :
               /\ IF CreateError(code, text) = "ErrAwsFailedCreateAccount"
                    THEN TryStatusUpdate(a, [loc[a] EXCEPT !.state = "Failed"])
                    ELSE UNCHANGED <<obj, loc>>
               /\ Goto(a, "Idle")
               /\ UNCHANGED <<awsAccounts, finalized>>
    <3> PICK code \in ErrorCodes, text \in ErrorTexts :
               /\ IF CreateError(code, text) = "ErrAwsFailedCreateAccount"
                    THEN TryStatusUpdate(a, [loc[a] EXCEPT !.state = "Failed"])
                    ELSE UNCHANGED <<obj, loc>>
               /\ Goto(a, "Idle")
               /\ UNCHANGED <<awsAccounts, finalized>>
      BY <2>6
    <3>1. CASE CreateError(code, text) = "ErrAwsFailedCreateAccount"
      BY <2>3, <3>1
    <3>2. CASE CreateError(code, text) # "ErrAwsFailedCreateAccount"
      BY <2>4, <3>2
    <3> QED
      BY <3>1, <3>2
  <2>7. CASE \E r \in CreateResults :
               /\ IF r = "SUCCEEDED"
                    THEN /\ awsAccounts' = [awsAccounts EXCEPT ![a] = @ + 1]
                         /\ finalized' = [finalized EXCEPT ![a] = FALSE]
                    ELSE UNCHANGED <<awsAccounts, finalized>>
               /\ Goto(a, "Poll")
               /\ UNCHANGED <<obj, loc>>
    <3> PICK r \in CreateResults :
               /\ IF r = "SUCCEEDED"
                    THEN /\ awsAccounts' = [awsAccounts EXCEPT ![a] = @ + 1]
                         /\ finalized' = [finalized EXCEPT ![a] = FALSE]
                    ELSE UNCHANGED <<awsAccounts, finalized>>
               /\ Goto(a, "Poll")
               /\ UNCHANGED <<obj, loc>>
      BY <2>7
    <3>1. \A c \in Accounts \ {a} : awsAccounts'[c] = awsAccounts[c] /\ finalized'[c] = finalized[c]
      BY DEF IInv, TypeOK
    <3> QED
      BY <2>5, <3>1
  <2> QED
    BY <1>7, <2>6, <2>7 DEF Create
<1>8. ASSUME NEW a \in Accounts, Poll(a) PROVE \A b \in Accounts : AccountInv(b)'
  <2> SUFFICES ASSUME NEW b \in Accounts PROVE AccountInv(b)'
    OBVIOUS
  <2>0. AccountInv(b) /\ AccountInv(a) /\ pc[a] = "Poll" /\ UNCHANGED <<awsAccounts, finalized>>
    BY <1>8 DEF IInv, Poll
  <2>1. a \notin BYOC /\ a \notin STS /\ loc[a].fin /\ obj[a].fin /\ obj[a].exists
    BY <2>0 DEF AccountInv, CreationSteps, PostFinalizer, Steps
  <2>2. [loc[a] EXCEPT !.state = "Failed"] \in Object
    BY StateUpdate DEF IInv, TypeOK, AccountStates
  <2>3. CASE TryStatusUpdate(a, [loc[a] EXCEPT !.state = "Failed"]) /\ Goto(a, "Idle")
    <3>0. pc' = [pc EXCEPT ![a] = "Idle"] /\ pc'[a] = "Idle"
      BY <2>3 DEF Goto, IInv, TypeOK
    <3>1. CASE WriteOk(a) /\ StatusUpdate(a, [loc[a] EXCEPT !.state = "Failed"])
      <4>1. /\ obj'[a] = loc'[a]
            /\ obj'[a].fin = obj[a].fin
            /\ obj[a].fin => obj'[a].exists
            /\ \A c \in Accounts \ {a} : obj'[c] = obj[c] /\ loc'[c] = loc[c]
        BY <2>2, <3>1, StatusWriteFacts DEF IInv
      <4>2. CASE b = a
        <5>1. obj'[a].fin /\ obj'[a].exists
          BY <2>1, <4>1
        <5> QED
          BY <2>0, <2>1, <3>0, <4>2, <5>1 DEF AccountInv, PostFinalizer, CreationSteps, Steps
      <4>3. CASE b # a
        BY <2>0, <3>0, <4>1, <4>3 DEF AccountInv, IInv, TypeOK
      <4> QED
        BY <4>2, <4>3
    <3>2. CASE UNCHANGED <<obj, loc>>
      BY <2>0, <3>0, <3>2 DEF IInv, TypeOK, AccountInv, PostFinalizer, CreationSteps, Steps
    <3> QED
      BY <2>3, <3>1, <3>2 DEF TryStatusUpdate
  <2>4. CASE UNCHANGED <<obj, loc>> /\ Goto(a, "Idle")
    BY <2>0, <2>4 DEF Goto, IInv, TypeOK, AccountInv, PostFinalizer, CreationSteps, Steps
  <2>5. CASE /\ \/ obj[a].exists /\ loc' = [loc EXCEPT ![a] = obj[a]]
                \/ UNCHANGED loc
             /\ Goto(a, "SetCreating")
             /\ UNCHANGED obj
    <3>0. pc' = [pc EXCEPT ![a] = "SetCreating"]
      BY <2>5 DEF Goto
    <3>1. loc'[a].fin /\ \A c \in Accounts \ {a} : loc'[c] = loc[c]
      BY <2>1, <2>5 DEF IInv, TypeOK
    <3>2. CASE b = a
      BY <2>0, <2>1, <2>5, <3>0, <3>1, <3>2 DEF IInv, TypeOK, AccountInv, PostFinalizer, CreationSteps, Steps
    <3>3. CASE b # a
      BY <2>0, <2>5, <3>0, <3>1, <3>3 DEF AccountInv, IInv, TypeOK
    <3> QED
      BY <3>2, <3>3
  <2> QED
    BY <1>8, <2>3, <2>4, <2>5 DEF Poll
<1>9. ASSUME NEW a \in Accounts, SetCreating(a) PROVE \A b \in Accounts : AccountInv(b)'
  <2> SUFFICES ASSUME NEW b \in Accounts PROVE AccountInv(b)'
    OBVIOUS
  <2>0. AccountInv(b) /\ AccountInv(a) /\ pc[a] = "SetCreating" /\ UNCHANGED <<awsAccounts, finalized>>
    BY <1>9 DEF IInv, SetCreating
  <2>1. [loc[a] EXCEPT !.state = "Creating"] \in Object
    BY ObjectUpdate DEF IInv, TypeOK, AccountStates
  <2>2. CASE WriteOk(a) /\ StatusUpdate(a, [loc[a] EXCEPT !.state = "Creating"]) /\ Goto(a, "SetId")
    <3>1. /\ obj'[a] = loc'[a]
          /\ obj'[a].fin = obj[a].fin
          /\ obj[a].fin => obj'[a].exists
          /\ \A c \in Accounts \ {a} : obj'[c] = obj[c] /\ loc'[c] = loc[c]
      BY <2>1, <2>2, StatusWriteFacts DEF IInv
    <3>2. obj[a].exists /\ pc' = [pc EXCEPT ![a] = "SetId"]
      BY <2>2 DEF WriteOk, Conflict, Goto
    <3>3. CASE b = a
      BY <2>0, <2>2, <3>1, <3>2, <3>3 DEF IInv, TypeOK, AccountInv, PostFinalizer, CreationSteps, Steps
    <3>4. CASE b # a
      BY <2>0, <3>1, <3>2, <3>4 DEF AccountInv, IInv, TypeOK
    <3> QED
      BY <3>3, <3>4
  <2>3. CASE UNCHANGED <<obj, loc>> /\ Goto(a, "Idle")
    BY <2>0, <2>3 DEF Goto, IInv, TypeOK, AccountInv, PostFinalizer, CreationSteps, Steps
  <2> QED
    BY <1>9, <2>2, <2>3 DEF SetCreating, TryStatusUpdate, WriteOk
<1>10. ASSUME NEW a \in Accounts, SetId(a) PROVE \A b \in Accounts : AccountInv(b)'
  <2> SUFFICES ASSUME NEW b \in Accounts PROVE AccountInv(b)'
    OBVIOUS
  <2>0. AccountInv(b) /\ AccountInv(a) /\ pc[a] = "SetId" /\ UNCHANGED <<awsAccounts, finalized>>
    BY <1>10 DEF IInv, SetId
  <2>1. [loc[a] EXCEPT !.awsId = TRUE] \in Object
    BY ObjectUpdate DEF IInv, TypeOK, AccountStates
  <2>2. CASE WriteOk(a) /\ SpecUpdate(a, [loc[a] EXCEPT !.awsId = TRUE]) /\ Goto(a, AfterBranch(a, [loc[a] EXCEPT !.awsId = TRUE]))
    <3>1. /\ obj'[a] = loc'[a]
          /\ obj'[a].fin = [loc[a] EXCEPT !.awsId = TRUE].fin
          /\ [loc[a] EXCEPT !.awsId = TRUE].fin => obj'[a].exists
          /\ \A c \in Accounts \ {a} : obj'[c] = obj[c] /\ loc'[c] = loc[c]
      BY <2>1, <2>2, SpecWriteFacts DEF IInv
    <3>2. obj[a].exists /\ pc' = [pc EXCEPT ![a] = AfterBranch(a, [loc[a] EXCEPT !.awsId = TRUE])]
      BY <2>2 DEF WriteOk, Conflict, Goto
    <3>3. CASE b = a
      BY <2>0, <2>2, <3>1, <3>2, <3>3 DEF IInv, TypeOK, AccountInv, PostFinalizer, CreationSteps, Steps, AfterBranch
    <3>4. CASE b # a
      BY <2>0, <3>1, <3>2, <3>4 DEF AccountInv, IInv, TypeOK
    <3> QED
      BY <3>3, <3>4
  <2>3. CASE UNCHANGED <<obj, loc>> /\ Goto(a, "Idle")
    BY <2>0, <2>3 DEF Goto, IInv, TypeOK, AccountInv, PostFinalizer, CreationSteps, Steps
  <2> QED
    BY <1>10, <2>2, <2>3 DEF SetId, WriteOk
<1>11. ASSUME NEW a \in Accounts, AlreadyCreated(a) PROVE \A b \in Accounts : AccountInv(b)'
  <2> SUFFICES ASSUME NEW b \in Accounts PROVE AccountInv(b)'
    OBVIOUS
  <2>0. AccountInv(b) /\ AccountInv(a) /\ pc[a] = "AlreadyCreated" /\ UNCHANGED <<awsAccounts, finalized>>
    BY <1>11 DEF IInv, AlreadyCreated
  <2>1. [loc[a] EXCEPT !.state = "Creating"] \in Object
    BY ObjectUpdate DEF IInv, TypeOK, AccountStates
  <2>2. CASE WriteOk(a) /\ StatusUpdate(a, [loc[a] EXCEPT !.state = "Creating"]) /\ Goto(a, AfterBranch(a, [loc[a] EXCEPT !.state = "Creating"]))
    <3>1. /\ obj'[a] = loc'[a]
          /\ obj'[a].fin = obj[a].fin
          /\ obj[a].fin => obj'[a].exists
          /\ \A c \in Accounts \ {a} : obj'[c] = obj[c] /\ loc'[c] = loc[c]
      BY <2>1, <2>2, StatusWriteFacts DEF IInv
    <3>2. obj[a].exists /\ pc' = [pc EXCEPT ![a] = AfterBranch(a, [loc[a] EXCEPT !.state = "Creating"])]
      BY <2>2 DEF WriteOk, Conflict, Goto
    <3>3. CASE b = a
      BY <2>0, <2>2, <3>1, <3>2, <3>3 DEF IInv, TypeOK, AccountInv, PostFinalizer, CreationSteps, Steps, AfterBranch
    <3>4. CASE b # a
      BY <2>0, <3>1, <3>2, <3>4 DEF AccountInv, IInv, TypeOK
    <3> QED
      BY <3>3, <3>4
  <2>3. CASE UNCHANGED <<obj, loc>> /\ Goto(a, "Idle")
    BY <2>0, <2>3 DEF Goto, IInv, TypeOK, AccountInv, PostFinalizer, CreationSteps, Steps, AfterBranch
  <2> QED
    BY <1>11, <2>2, <2>3 DEF AlreadyCreated, TryStatusUpdate, WriteOk
<1>12. ASSUME NEW a \in Accounts, InitializeAccount(a) PROVE \A b \in Accounts : AccountInv(b)'
  <2> SUFFICES ASSUME NEW b \in Accounts PROVE AccountInv(b)'
    OBVIOUS
  <2>0. AccountInv(b) /\ AccountInv(a) /\ pc[a] = "Init" /\ UNCHANGED <<awsAccounts, finalized>>
        /\ pc' = [pc EXCEPT ![a] = "Idle"] /\ pc'[a] = "Idle"
    BY <1>12 DEF IInv, TypeOK, InitializeAccount, Goto
  <2>1. a \notin STS => loc[a].fin /\ obj[a].fin /\ obj[a].exists
    BY <2>0 DEF AccountInv, PostFinalizer, Steps
  <2>2. [loc[a] EXCEPT !.state = "Ready"] \in Object
    BY StateUpdate DEF IInv, TypeOK, AccountStates
  <2>3. [loc[a] EXCEPT !.label = TRUE] \in Object /\ [loc[a] EXCEPT !.label = TRUE].fin = loc[a].fin
    <3>1. [loc[a] EXCEPT !.label = TRUE] \in Object
      BY ObjectUpdate DEF IInv, TypeOK, AccountStates
    <3>2. [loc[a] EXCEPT !.label = TRUE].fin = loc[a].fin
      BY DEF IInv, TypeOK, Object
    <3> QED
      BY <3>1, <3>2
  <2>4. CASE UNCHANGED <<obj, loc>>
    BY <2>0, <2>4 DEF IInv, TypeOK, AccountInv, PostFinalizer, CreationSteps, Steps
  <2>5. CASE WriteOk(a) /\ StatusUpdate(a, [loc[a] EXCEPT !.state = "Ready"])
    <3>1. /\ obj'[a] = loc'[a]
          /\ obj'[a].fin = obj[a].fin
          /\ obj[a].fin => obj'[a].exists
          /\ \A c \in Accounts \ {a} : obj'[c] = obj[c] /\ loc'[c] = loc[c]
      BY <2>2, <2>5, StatusWriteFacts DEF IInv
    <3>2. CASE b = a
      BY <2>0, <3>1, <3>2 DEF AccountInv, PostFinalizer, CreationSteps, Steps
    <3>3. CASE b # a
      BY <2>0, <3>1, <3>3 DEF AccountInv, IInv, TypeOK
    <3> QED
      BY <3>2, <3>3
  <2>6. CASE a \notin STS /\ WriteOk(a) /\ SpecUpdate(a, [loc[a] EXCEPT !.label = TRUE])
    <3>1. /\ obj'[a] = loc'[a]
          /\ obj'[a].fin = [loc[a] EXCEPT !.label = TRUE].fin
          /\ [loc[a] EXCEPT !.label = TRUE].fin => obj'[a].exists
          /\ \A c \in Accounts \ {a} : obj'[c] = obj[c] /\ loc'[c] = loc[c]
      BY <2>3, <2>6, SpecWriteFacts DEF IInv
    <3>2. obj'[a].fin /\ obj'[a].exists
      BY <2>1, <2>3, <2>6, <3>1
    <3>3. CASE b = a
      BY <2>0, <3>2, <3>3 DEF AccountInv, PostFinalizer, CreationSteps, Steps
    <3>4. CASE b # a
      BY <2>0, <3>1, <3>4 DEF AccountInv, IInv, TypeOK
    <3> QED
      BY <3>3, <3>4
  <2> QED
    BY <1>12, <2>4, <2>5, <2>6 DEF InitializeAccount, TryStatusUpdate, TrySpecUpdate
<1>13. ASSUME NEW a \in Accounts, Abort(a) PROVE \A b \in Accounts : AccountInv(b)'
  BY <1>13, <1>0 DEF IInv, TypeOK, AccountInv, PostFinalizer, CreationSteps, Steps, Object, Abort, StatusUpdate, SpecUpdate, TryStatusUpdate, TrySpecUpdate, Store, WriteOk, Conflict, Commit, WithSpec, WithStatus, Goto, AfterBranch, RouteTarget
<1>14. ASSUME NEW a \in Accounts, RequestDelete(a) PROVE \A b \in Accounts : AccountInv(b)'
  BY <1>14, <1>0 DEF IInv, TypeOK, AccountInv, PostFinalizer, CreationSteps, Steps, Object, RequestDelete, StatusUpdate, SpecUpdate, TryStatusUpdate, TrySpecUpdate, Store, WriteOk, Conflict, Commit, WithSpec, WithStatus, Goto, AfterBranch, RouteTarget
<1>15. ASSUME NEW a \in Accounts, BindClaimLink(a) PROVE \A b \in Accounts : AccountInv(b)'
  BY <1>15, <1>0 DEF IInv, TypeOK, AccountInv, PostFinalizer, CreationSteps, Steps, Object, BindClaimLink, StatusUpdate, SpecUpdate, TryStatusUpdate, TrySpecUpdate, Store, WriteOk, Conflict, Commit, WithSpec, WithStatus, Goto, AfterBranch, RouteTarget
<1>16. ASSUME NEW a \in Accounts, MarkClaimed(a) PROVE \A b \in Accounts : AccountInv(b)'
  BY <1>16, <1>0 DEF IInv, TypeOK, AccountInv, PostFinalizer, CreationSteps, Steps, Object, MarkClaimed, StatusUpdate, SpecUpdate, TryStatusUpdate, TrySpecUpdate, Store, WriteOk, Conflict, Commit, WithSpec, WithStatus, Goto, AfterBranch, RouteTarget
<1>17. ASSUME NEW a \in Accounts, Expire(a) PROVE \A b \in Accounts : AccountInv(b)'
  BY <1>17, <1>0 DEF IInv, TypeOK, AccountInv, PostFinalizer, CreationSteps, Steps, Object, Expire, StatusUpdate, SpecUpdate, TryStatusUpdate, TrySpecUpdate, Store, WriteOk, Conflict, Commit, WithSpec, WithStatus, Goto, AfterBranch, RouteTarget
<1>18. CASE RefreshBudget
  BY <1>0, <1>18 DEF RefreshBudget, IInv, AccountInv
<1>19. CASE UNCHANGED vars
  BY <1>0, <1>19 DEF vars, IInv, AccountInv
<1> QED
  BY <1>0, <1>1, <1>2, <1>3, <1>4, <1>5, <1>6, <1>7, <1>8, <1>9, <1>10, <1>11, <1>12, <1>13, <1>14, <1>15, <1>16, <1>17, <1>18, <1>19 DEF Next, Reconcile, Environment, IInv


\* The deletion branch of Reconcile (finalizeAccountV2 then removeFinalizer)
\* always runs before an object whose AWS account the reconciler created
\* leaves the control plane, whatever the interleaving of reconciles,
\* conflicts, aborts, deletion requests and claim writes.
THEOREM OrphanFree == Spec => []OrphanFreeDeletion
<1>1. IInv => OrphanFreeDeletion
  BY DEF IInv, AccountInv, OrphanFreeDeletion
<1> QED
  BY <1>1, InitIInv, NextIInv, PTL DEF Spec


-----------------------------------------------------------------------------
(* Failed is terminal                                                     *)

\* The steps whose write sets a state other than Failed, and the steps
\* that lead to them.
StateSteps == {"ByocCreating", "SetCreating", "AlreadyCreated", "Init",
               "Create", "Poll", "SetId"}

\* Only the reconciler writes the state, and each of its writes refreshes
\* its copy, so a running reconciliation holds the stored state; a
\* reconciliation headed for a non-Failed write did not start from Failed.
FailedInv(a) ==
    /\ pc[a] # "Idle" => loc[a].state = obj[a].state
    /\ pc[a] \in StateSteps => loc[a].state # "Failed"

FInv == TypeOK /\ \A a \in Accounts : FailedInv(a)

\* A step keeps the invariant and leaves a Failed object Failed.
StepOk(b) ==
    /\ FailedInv(b)'
    /\ obj[b].state = "Failed" => obj'[b].state = "Failed"

\* The states a write stores.
LEMMA StatusWriteState ==
    ASSUME TypeOK, NEW a \in Accounts, NEW l \in Object,
           WriteOk(a), StatusUpdate(a, l)
    PROVE  /\ obj'[a] = loc'[a]
           /\ obj'[a].state = l.state
           /\ \A b \in Accounts \ {a} : obj'[b] = obj[b] /\ loc'[b] = loc[b]
BY DEF TypeOK, Object, WriteOk, Conflict, StatusUpdate, Store, Commit, WithStatus

LEMMA SpecWriteState ==
    ASSUME TypeOK, NEW a \in Accounts, NEW l \in Object,
           WriteOk(a), SpecUpdate(a, l)
    PROVE  /\ obj'[a] = loc'[a]
           /\ obj'[a].state = obj[a].state
           /\ \A b \in Accounts \ {a} : obj'[b] = obj[b] /\ loc'[b] = loc[b]
BY DEF TypeOK, Object, WriteOk, Conflict, SpecUpdate, Store, Commit, WithSpec

\* A landed status write of l by the reconciliation of a, which then goes
\* to t: either the write stores Failed, or the reconciliation was headed
\* for a non-Failed write.
LEMMA LandedStatus ==
    ASSUME FInv, NEW a \in Accounts, NEW l \in Object, NEW t \in Steps,
           WriteOk(a), StatusUpdate(a, l),
           pc' = [pc EXCEPT ![a] = t],
           t \in StateSteps => l.state # "Failed",
           pc[a] \in StateSteps \/ l.state = "Failed",
           pc[a] # "Idle"
    PROVE  \A b \in Accounts : StepOk(b)
<1>1. /\ obj'[a] = loc'[a]
      /\ obj'[a].state = l.state
      /\ \A b \in Accounts \ {a} : obj'[b] = obj[b] /\ loc'[b] = loc[b]
  BY StatusWriteState DEF FInv
<1>2. obj[a].state = "Failed" => l.state = "Failed"
  BY DEF FInv, FailedInv
<1>3. pc'[a] = t /\ \A b \in Accounts \ {a} : pc'[b] = pc[b]
  BY DEF FInv, TypeOK
<1> QED
  BY <1>1, <1>2, <1>3 DEF StepOk, FailedInv, FInv

\* A landed spec write leaves the state alone.
LEMMA LandedSpec ==
    ASSUME FInv, NEW a \in Accounts, NEW l \in Object, NEW t \in Steps,
           WriteOk(a), SpecUpdate(a, l),
           pc' = [pc EXCEPT ![a] = t],
           t \in StateSteps => loc[a].state # "Failed",
           pc[a] # "Idle"
    PROVE  \A b \in Accounts : StepOk(b)
<1>1. /\ obj'[a] = loc'[a]
      /\ obj'[a].state = obj[a].state
      /\ \A b \in Accounts \ {a} : obj'[b] = obj[b] /\ loc'[b] = loc[b]
  BY SpecWriteState DEF FInv
<1>2. pc'[a] = t /\ \A b \in Accounts \ {a} : pc'[b] = pc[b]
  BY DEF FInv, TypeOK
<1> QED
  BY <1>1, <1>2 DEF StepOk, FailedInv, FInv

\* A step of the reconciliation of a that writes nothing.
LEMMA NoWrite ==
    ASSUME FInv, NEW a \in Accounts, NEW t \in Steps,
           UNCHANGED <<obj, loc>>,
           pc' = [pc EXCEPT ![a] = t],
           t \in StateSteps => loc[a].state # "Failed",
           t # "Idle" => pc[a] # "Idle"
    PROVE  \A b \in Accounts : StepOk(b)
<1>1. pc'[a] = t /\ \A b \in Accounts \ {a} : pc'[b] = pc[b]
  BY DEF FInv, TypeOK
<1> QED
  BY <1>1 DEF StepOk, FailedInv, FInv


\* A status or spec write whose error the code ignores or returns.
LEMMA TriedStatus ==
    ASSUME FInv, NEW a \in Accounts, NEW l \in Object, NEW t \in Steps,
           TryStatusUpdate(a, l),
           pc' = [pc EXCEPT ![a] = t],
           t \in StateSteps => l.state # "Failed" /\ loc[a].state # "Failed",
           pc[a] \in StateSteps \/ l.state = "Failed",
           pc[a] # "Idle"
    PROVE  \A b \in Accounts : StepOk(b)
<1>1. CASE WriteOk(a) /\ StatusUpdate(a, l)
  BY <1>1, LandedStatus
<1>2. CASE UNCHANGED <<obj, loc>>
  BY <1>2, NoWrite
<1> QED
  BY <1>1, <1>2 DEF TryStatusUpdate

LEMMA TriedSpec ==
    ASSUME FInv, NEW a \in Accounts, NEW l \in Object, NEW t \in Steps,
           TrySpecUpdate(a, l),
           pc' = [pc EXCEPT ![a] = t],
           t \in StateSteps => loc[a].state # "Failed",
           pc[a] # "Idle"
    PROVE  \A b \in Accounts : StepOk(b)
<1>1. CASE WriteOk(a) /\ SpecUpdate(a, l)
  BY <1>1, LandedSpec
<1>2. CASE UNCHANGED <<obj, loc>>
  BY <1>2, NoWrite
<1> QED
  BY <1>1, <1>2 DEF TrySpecUpdate

\* Where the chain of checks in Reconcile sends a reconciliation: a step
\* that writes a non-Failed state is reached only from a non-Failed copy.
LEMMA AfterBranchFacts ==
    ASSUME NEW a, NEW l
    PROVE  /\ AfterBranch(a, l) \in Steps
           /\ AfterBranch(a, l) \in StateSteps => l.state = "Creating"
BY DEF AfterBranch, ReadyForInitialization, Steps, StateSteps

LEMMA RouteTargetFacts ==
    ASSUME NEW a, NEW l
    PROVE  /\ RouteTarget(a, l) \in Steps
           /\ RouteTarget(a, l) \in StateSteps => l.state # "Failed"
BY AfterBranchFacts DEF RouteTarget, IsUnclaimedAndHasNoState,
   IsReadyUnclaimedAndHasClaimLink, Steps, StateSteps

\* Every initial state satisfies FInv: no reconciliation is running.
LEMMA InitFInv == Init => FInv
<1> SUFFICES ASSUME Init PROVE FInv
  OBVIOUS
<1>1. TypeOK
  BY InitType
<1>2. \A a \in Accounts : pc[a] = "Idle"
  BY DEF Init
<1> QED
  BY <1>1, <1>2 DEF FInv, FailedInv, StateSteps


\* Every step keeps FailedInv and leaves a Failed object Failed.
LEMMA NextFInv == FInv /\ [Next]_vars => \A b \in Accounts : StepOk(b)
<1> SUFFICES ASSUME FInv, [Next]_vars PROVE \A b \in Accounts : StepOk(b)
  OBVIOUS
<1> USE ConstantsAssumption
<1>0. TypeOK
  BY DEF FInv
<1>1. ASSUME NEW a \in Accounts, Get(a) PROVE \A b \in Accounts : StepOk(b)
  BY <1>0, <1>1 DEF Get, Goto, StepOk, FInv, FailedInv, TypeOK, StateSteps
<1>2. ASSUME NEW a \in Accounts, AddFinalizer(a) PROVE \A b \in Accounts : StepOk(b)
  <2>1. [loc[a] EXCEPT !.fin = TRUE] \in Object
    BY <1>0, ObjectUpdate DEF TypeOK, AccountStates
  <2>2. pc[a] = "AddFinalizer"
    BY <1>2 DEF AddFinalizer
  <2>3. CASE WriteOk(a) /\ SpecUpdate(a, [loc[a] EXCEPT !.fin = TRUE]) /\ Goto(a, "Route")
    BY <2>1, <2>2, <2>3, LandedSpec DEF Goto, Steps, StateSteps
  <2>4. CASE UNCHANGED <<obj, loc>> /\ (Goto(a, "Idle") \/ Goto(a, "Route"))
    BY <2>2, <2>4, NoWrite DEF Goto, Steps, StateSteps
  <2> QED
    BY <1>2, <2>3, <2>4 DEF AddFinalizer
<1>3. ASSUME NEW a \in Accounts, Route(a) PROVE \A b \in Accounts : StepOk(b)
  <2>1. /\ RouteTarget(a, loc[a]) \in Steps
        /\ RouteTarget(a, loc[a]) \in StateSteps => loc[a].state # "Failed"
    BY RouteTargetFacts
  <2> QED
    BY <1>3, <2>1, NoWrite DEF Route, Goto
<1>4. ASSUME NEW a \in Accounts, Delete(a) PROVE \A b \in Accounts : StepOk(b)
  <2>1. /\ [loc[a] EXCEPT !.fin = FALSE] \in Object
        /\ [loc[a] EXCEPT !.state = "Failed"] \in Object
        /\ [loc[a] EXCEPT !.state = "Failed"].state = "Failed"
    <3>1. [loc[a] EXCEPT !.fin = FALSE] \in Object /\ [loc[a] EXCEPT !.state = "Failed"] \in Object
      BY <1>0, ObjectUpdate DEF TypeOK, AccountStates
    <3>2. [loc[a] EXCEPT !.state = "Failed"].state = "Failed"
      BY <1>0 DEF TypeOK, Object
    <3> QED
      BY <3>1, <3>2
  <2>2. pc[a] = "Delete" /\ pc' = [pc EXCEPT ![a] = "Idle"] /\ "Idle" \in Steps /\ "Idle" \notin StateSteps
    BY <1>4 DEF Delete, DeleteSts, DeleteRoleFailed, DeleteFinalize, Goto, Steps, StateSteps
  <2>3. CASE TrySpecUpdate(a, [loc[a] EXCEPT !.fin = FALSE])
    BY <2>1, <2>2, <2>3, TriedSpec
  <2>4. CASE TryStatusUpdate(a, [loc[a] EXCEPT !.state = "Failed"])
    BY <2>1, <2>2, <2>4, TriedStatus
  <2>5. CASE UNCHANGED <<obj, loc>>
    BY <2>2, <2>5, NoWrite
  <2> QED
    BY <1>4, <2>3, <2>4, <2>5 DEF Delete, DeleteSts, DeleteRoleFailed, DeleteFinalize
<1>5. ASSUME NEW a \in Accounts, ByocCreating(a) PROVE \A b \in Accounts : StepOk(b)
  <2>1. /\ [loc[a] EXCEPT !.state = "Creating"] \in Object
        /\ [loc[a] EXCEPT !.state = "Creating"].state = "Creating"
    <3>1. [loc[a] EXCEPT !.state = "Creating"] \in Object
      BY <1>0, StateUpdate DEF TypeOK, AccountStates
    <3>2. [loc[a] EXCEPT !.state = "Creating"].state = "Creating"
      BY <1>0 DEF TypeOK, Object
    <3> QED
      BY <3>1, <3>2
  <2>2. /\ AfterBranch(a, [loc[a] EXCEPT !.state = "Creating"]) \in Steps
        /\ AfterBranch(a, [loc[a] EXCEPT !.state = "Creating"]) \in StateSteps
             => [loc[a] EXCEPT !.state = "Creating"].state = "Creating"
    BY AfterBranchFacts
  <2>3. pc[a] = "ByocCreating" /\ pc[a] \in StateSteps
    BY <1>5 DEF ByocCreating, StateSteps
  <2>4. CASE WriteOk(a) /\ StatusUpdate(a, [loc[a] EXCEPT !.state = "Creating"])
             /\ Goto(a, AfterBranch(a, [loc[a] EXCEPT !.state = "Creating"]))
    BY <2>1, <2>2, <2>3, <2>4, LandedStatus DEF Goto
  <2>5. CASE UNCHANGED <<obj, loc>> /\ Goto(a, "Idle")
    BY <2>3, <2>5, NoWrite DEF Goto, Steps, StateSteps
  <2> QED
    BY <1>5, <2>4, <2>5 DEF ByocCreating, WriteOk
<1>6. ASSUME NEW a \in Accounts, Timeout(a) PROVE \A b \in Accounts : StepOk(b)
  <2>1. /\ [loc[a] EXCEPT !.state = "Failed"] \in Object
        /\ [loc[a] EXCEPT !.state = "Failed"].state = "Failed"
    <3>1. [loc[a] EXCEPT !.state = "Failed"] \in Object
      BY <1>0, StateUpdate DEF TypeOK, AccountStates
    <3>2. [loc[a] EXCEPT !.state = "Failed"].state = "Failed"
      BY <1>0 DEF TypeOK, Object
    <3> QED
      BY <3>1, <3>2
  <2>2. pc[a] = "Timeout" /\ pc' = [pc EXCEPT ![a] = "Idle"] /\ "Idle" \in Steps /\ "Idle" \notin StateSteps
    BY <1>6 DEF Timeout, Goto, Steps, StateSteps
  <2> QED
    BY <1>6, <2>1, <2>2, TriedStatus DEF Timeout
<1>7. ASSUME NEW a \in Accounts, Create(a) PROVE \A b \in Accounts : StepOk(b)
  <2>1. /\ [loc[a] EXCEPT !.state = "Failed"] \in Object
        /\ [loc[a] EXCEPT !.state = "Failed"].state = "Failed"
    <3>1. [loc[a] EXCEPT !.state = "Failed"] \in Object
      BY <1>0, StateUpdate DEF TypeOK, AccountStates
    <3>2. [loc[a] EXCEPT !.state = "Failed"].state = "Failed"
      BY <1>0 DEF TypeOK, Object
    <3> QED
      BY <3>1, <3>2
  <2>2. pc[a] = "Create" /\ loc[a].state # "Failed"
    BY <1>7 DEF Create, FInv, FailedInv, StateSteps
  <2>3. CASE TryStatusUpdate(a, [loc[a] EXCEPT !.state = "Failed"]) /\ Goto(a, "Idle")
    BY <2>1, <2>2, <2>3, TriedStatus DEF Goto, Steps, StateSteps
  <2>4. CASE UNCHANGED <<obj, loc>> /\ (Goto(a, "Idle") \/ Goto(a, "Poll"))
    BY <2>2, <2>4, NoWrite DEF Goto, Steps, StateSteps
  <2> QED
    BY <1>7, <2>3, <2>4 DEF Create
<1>8. ASSUME NEW a \in Accounts, Poll(a) PROVE \A b \in Accounts : StepOk(b)
  <2>1. /\ [loc[a] EXCEPT !.state = "Failed"] \in Object
        /\ [loc[a] EXCEPT !.state = "Failed"].state = "Failed"
    <3>1. [loc[a] EXCEPT !.state = "Failed"] \in Object
      BY <1>0, StateUpdate DEF TypeOK, AccountStates
    <3>2. [loc[a] EXCEPT !.state = "Failed"].state = "Failed"
      BY <1>0 DEF TypeOK, Object
    <3> QED
      BY <3>1, <3>2
  <2>2. pc[a] = "Poll" /\ loc[a].state # "Failed" /\ loc[a].state = obj[a].state
    BY <1>8 DEF Poll, FInv, FailedInv, StateSteps
  <2>3. CASE TryStatusUpdate(a, [loc[a] EXCEPT !.state = "Failed"]) /\ Goto(a, "Idle")
    BY <2>1, <2>2, <2>3, TriedStatus DEF Goto, Steps, StateSteps
  <2>4. CASE UNCHANGED <<obj, loc>> /\ (Goto(a, "Idle") \/ Goto(a, "SetCreating"))
    BY <2>2, <2>4, NoWrite DEF Goto, Steps, StateSteps
  <2>5. CASE loc' = [loc EXCEPT ![a] = obj[a]] /\ Goto(a, "SetCreating") /\ UNCHANGED obj
    BY <1>0, <2>2, <2>5 DEF Goto, StepOk, FInv, FailedInv, TypeOK, StateSteps
  <2> QED
    BY <1>8, <2>3, <2>4, <2>5 DEF Poll
<1>9. ASSUME NEW a \in Accounts, SetCreating(a) PROVE \A b \in Accounts : StepOk(b)
  <2>1. /\ [loc[a] EXCEPT !.state = "Creating"] \in Object
        /\ [loc[a] EXCEPT !.state = "Creating"].state = "Creating"
    <3>1. [loc[a] EXCEPT !.state = "Creating"] \in Object
      BY <1>0, StateUpdate DEF TypeOK, AccountStates
    <3>2. [loc[a] EXCEPT !.state = "Creating"].state = "Creating"
      BY <1>0 DEF TypeOK, Object
    <3> QED
      BY <3>1, <3>2
  <2>2. pc[a] = "SetCreating" /\ pc[a] \in StateSteps
    BY <1>9 DEF SetCreating, StateSteps
  <2>3. CASE WriteOk(a) /\ StatusUpdate(a, [loc[a] EXCEPT !.state = "Creating"]) /\ Goto(a, "SetId")
    BY <2>1, <2>2, <2>3, LandedStatus DEF Goto, Steps
  <2>4. CASE UNCHANGED <<obj, loc>> /\ Goto(a, "Idle")
    BY <2>2, <2>4, NoWrite DEF Goto, Steps, StateSteps
  <2> QED
    BY <1>9, <2>3, <2>4 DEF SetCreating
<1>10. ASSUME NEW a \in Accounts, SetId(a) PROVE \A b \in Accounts : StepOk(b)
  <2>1. /\ [loc[a] EXCEPT !.awsId = TRUE] \in Object
        /\ [loc[a] EXCEPT !.awsId = TRUE].state = loc[a].state
    <3>1. [loc[a] EXCEPT !.awsId = TRUE] \in Object
      BY <1>0, ObjectUpdate DEF TypeOK, AccountStates
    <3>2. [loc[a] EXCEPT !.awsId = TRUE].state = loc[a].state
      BY <1>0 DEF TypeOK, Object
    <3> QED
      BY <3>1, <3>2
  <2>2. /\ AfterBranch(a, [loc[a] EXCEPT !.awsId = TRUE]) \in Steps
        /\ AfterBranch(a, [loc[a] EXCEPT !.awsId = TRUE]) \in StateSteps
             => [loc[a] EXCEPT !.awsId = TRUE].state = "Creating"
    BY AfterBranchFacts
  <2>3. pc[a] = "SetId"
    BY <1>10 DEF SetId
  <2>4. CASE WriteOk(a) /\ SpecUpdate(a, [loc[a] EXCEPT !.awsId = TRUE])
             /\ Goto(a, AfterBranch(a, [loc[a] EXCEPT !.awsId = TRUE]))
    BY <2>1, <2>2, <2>3, <2>4, LandedSpec DEF Goto
  <2>5. CASE UNCHANGED <<obj, loc>> /\ Goto(a, "Idle")
    BY <2>3, <2>5, NoWrite DEF Goto, Steps, StateSteps
  <2> QED
    BY <1>10, <2>4, <2>5 DEF SetId
<1>11. ASSUME NEW a \in Accounts, AlreadyCreated(a) PROVE \A b \in Accounts : StepOk(b)
  <2>1. /\ [loc[a] EXCEPT !.state = "Creating"] \in Object
        /\ [loc[a] EXCEPT !.state = "Creating"].state = "Creating"
    <3>1. [loc[a] EXCEPT !.state = "Creating"] \in Object
      BY <1>0, StateUpdate DEF TypeOK, AccountStates
    <3>2. [loc[a] EXCEPT !.state = "Creating"].state = "Creating"
      BY <1>0 DEF TypeOK, Object
    <3> QED
      BY <3>1, <3>2
  <2>2. /\ AfterBranch(a, [loc[a] EXCEPT !.state = "Creating"]) \in Steps
        /\ AfterBranch(a, [loc[a] EXCEPT !.state = "Creating"]) \in StateSteps
             => [loc[a] EXCEPT !.state = "Creating"].state = "Creating"
    BY AfterBranchFacts
  <2>3. pc[a] = "AlreadyCreated" /\ pc[a] \in StateSteps
    BY <1>11 DEF AlreadyCreated, StateSteps
  <2>4. CASE WriteOk(a) /\ StatusUpdate(a, [loc[a] EXCEPT !.state = "Creating"])
             /\ Goto(a, AfterBranch(a, [loc[a] EXCEPT !.state = "Creating"]))
    BY <2>1, <2>2, <2>3, <2>4, LandedStatus DEF Goto
  <2>5. CASE UNCHANGED <<obj, loc>> /\ Goto(a, "Idle")
    BY <2>3, <2>5, NoWrite DEF Goto, Steps, StateSteps
  <2> QED
    BY <1>11, <2>4, <2>5 DEF AlreadyCreated
<1>12. ASSUME NEW a \in Accounts, InitializeAccount(a) PROVE \A b \in Accounts : StepOk(b)
  <2>1. /\ [loc[a] EXCEPT !.state = "Ready"] \in Object
        /\ [loc[a] EXCEPT !.state = "Ready"].state = "Ready"
        /\ [loc[a] EXCEPT !.label = TRUE] \in Object
    <3>1. [loc[a] EXCEPT !.state = "Ready"] \in Object /\ [loc[a] EXCEPT !.label = TRUE] \in Object
      BY <1>0, ObjectUpdate DEF TypeOK, AccountStates
    <3>2. [loc[a] EXCEPT !.state = "Ready"].state = "Ready"
      BY <1>0 DEF TypeOK, Object
    <3> QED
      BY <3>1, <3>2
  <2>2. /\ pc[a] = "Init" /\ pc[a] \in StateSteps
        /\ pc' = [pc EXCEPT ![a] = "Idle"] /\ "Idle" \in Steps /\ "Idle" \notin StateSteps
    BY <1>12 DEF InitializeAccount, Goto, Steps, StateSteps
  <2>3. CASE TryStatusUpdate(a, [loc[a] EXCEPT !.state = "Ready"])
    BY <2>1, <2>2, <2>3, TriedStatus
  <2>4. CASE TrySpecUpdate(a, [loc[a] EXCEPT !.label = TRUE])
    BY <2>1, <2>2, <2>4, TriedSpec
  <2>5. CASE UNCHANGED <<obj, loc>>
    BY <2>2, <2>5, NoWrite
  <2> QED
    BY <1>12, <2>3, <2>4, <2>5 DEF InitializeAccount
<1>13. ASSUME NEW a \in Accounts, Abort(a) PROVE \A b \in Accounts : StepOk(b)
  BY <1>13, NoWrite DEF Abort, Goto, Steps, StateSteps
<1>14. ASSUME NEW a \in Accounts, Environment(a) PROVE \A b \in Accounts : StepOk(b)
  <2>1. /\ UNCHANGED <<loc, pc>>
        /\ \A b \in Accounts : obj'[b].state = obj[b].state
    BY <1>0, <1>14 DEF Environment, RequestDelete, BindClaimLink, MarkClaimed, Expire, TypeOK, Object
  <2> QED
    BY <2>1 DEF StepOk, FInv, FailedInv
<1>15. CASE RefreshBudget \/ UNCHANGED vars
  BY <1>15 DEF RefreshBudget, vars, StepOk, FInv, FailedInv
<1> QED
  BY <1>1, <1>2, <1>3, <1>4, <1>5, <1>6, <1>7, <1>8, <1>9, <1>10, <1>11, <1>12,
     <1>13, <1>14, <1>15 DEF Next, Reconcile

\* Failed is terminal: no write of the reconciler, from whatever copy it
\* holds, and no other writer takes an object out of Failed.  Behind it are
\* the resourceVersion check on every write, which makes a landed write
\* start from the stored state, and the early return on IsFailed (line 205).
THEOREM FailedTerminal == Spec => FailedIsTerminal
<1>1. FInv /\ [Next]_vars => FInv'
  BY NextFInv, NextType DEF FInv, StepOk
<1>2. FInv /\ [Next]_vars
        => [\A a \in Accounts : obj[a].state = "Failed" => obj'[a].state = "Failed"]_vars
  BY NextFInv DEF StepOk
<1>3. Spec => []FInv
  BY InitFInv, <1>1, PTL DEF Spec
<1> QED
  BY <1>2, <1>3, PTL DEF Spec, FailedIsTerminal

=============================================================================
