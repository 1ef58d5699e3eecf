------------------------ MODULE AccountLifecycleProofs ------------------------
(***************************************************************************)
(* The Account reconciler implements AccountLifecycle: every step of      *)
(* AccountReconciler, seen through the refinement mapping Life (the       *)
(* object as the control plane shows it), is a step of the lifecycle or   *)
(* leaves what it shows unchanged.                                         *)
(*                                                                         *)
(* A write of the reconciler is a compare-and-set on the resourceVersion  *)
(* of its local copy, so a landed write starts from the stored object     *)
(* (Synced); the copy a reconciliation holds records where the chain of   *)
(* checks in Reconcile sent it (PcFacts); and an object that is shown and *)
(* being deleted still holds the finalizer (Held), so only the write that *)
(* drops the finalizer removes it.                                         *)
(***************************************************************************)
EXTENDS AccountReconcilerProofs

\* The refinement mapping, as the INSTANCE Life of AccountReconciler has it.
LExists    == [b \in Accounts |-> obj[b].exists]
LDeleting  == [b \in Accounts |-> obj[b].deleting]
LState     == [b \in Accounts |-> obj[b].state]
LAwsId     == [b \in Accounts |-> obj[b].awsId]
LClaimLink == [b \in Accounts |-> obj[b].claimLink]
LClaimed   == [b \in Accounts |-> obj[b].claimed]
LVars == <<LExists, LDeleting, LState, LAwsId, LClaimLink, LClaimed>>

\* A local copy at the stored resourceVersion is the stored object: every
\* write of the object bumps the version, and the reconciler's own writes
\* and reads copy the object into loc.
Synced(a) ==
    /\ loc[a].rv <= obj[a].rv
    /\ loc[a].rv = obj[a].rv => loc[a] = obj[a]

\* An object that is in the store and being deleted holds the finalizer.
Held(a) == obj[a].exists /\ obj[a].deleting => obj[a].fin

\* Only the claim controller sets Claimed, and only on a Ready object: a
\* running reconciliation of an object that is not Ready holds its Claimed.
ClaimSync(a) ==
    pc[a] # "Idle" /\ obj[a].state # "Ready" => loc[a].claimed = obj[a].claimed

\* What the chain of checks in Reconcile established of the copy l before
\* it sent the reconciliation of a to step p.
PcFacts(a, p, l) ==
    /\ p = "Delete" => l.deleting
    /\ p = "ByocCreating" => a \in BYOC /\ l.state \notin {"Failed", "InitializingRegions"}
    /\ p \in {"Create", "Poll", "SetCreating", "AlreadyCreated"} =>
          a \notin BYOC /\ l.state = "None" /\ ~l.claimed
    /\ p = "SetId" => a \notin BYOC /\ l.state = "Creating"
    /\ p = "Timeout" => l.state = "Creating"
    /\ p = "Init" => ReadyForInitialization(a, l)

RefInv(a) == Synced(a) /\ Held(a) /\ ClaimSync(a) /\ PcFacts(a, pc[a], loc[a])

\* The inductive invariant the refinement rests on.
RInv == FInv /\ \A a \in Accounts : RefInv(a)

-----------------------------------------------------------------------------
(* What a write stores                                                     *)

\* A commit keeps every field the code writes; only the resourceVersion
\* and, for a deleted object without a finalizer, the presence change.
LEMMA CommitFields ==
    ASSUME NEW o \in Object, NEW n \in Object
    PROVE  /\ Commit(o, n).state = n.state
           /\ Commit(o, n).claimed = n.claimed
           /\ Commit(o, n).deleting = n.deleting
           /\ Commit(o, n).fin = n.fin
           /\ Commit(o, n).awsId = n.awsId
           /\ Commit(o, n).claimLink = n.claimLink
           /\ Commit(o, n) = o \/ Commit(o, n).exists = ~(n.deleting /\ ~n.fin)
BY DEF Commit, Object

\* A landed write of a keeps Synced, Held and ClaimSync of every object:
\* the reconciler's copy is the stored result, and a stored result that is
\* being deleted without a finalizer is gone.
LEMMA LandedKeeps ==
    ASSUME TypeOK, ConstantsAssumption, NEW a \in Accounts, NEW n \in Object, NEW t,
           \A b \in Accounts : RefInv(b),
           obj[a].rv < MaxVersion,
           obj' = [obj EXCEPT ![a] = Commit(obj[a], n)],
           loc' = [loc EXCEPT ![a] = Commit(obj[a], n)],
           pc' = [pc EXCEPT ![a] = t]
    PROVE  \A b \in Accounts : Synced(b)' /\ Held(b)' /\ ClaimSync(b)'
<1>1. Commit(obj[a], n) \in Object
  BY CommitType DEF TypeOK
<1>2. Synced(a)' /\ ClaimSync(a)'
  BY <1>1 DEF TypeOK, Synced, ClaimSync, Object
<1>3. Held(a)'
  <2>1. CASE Commit(obj[a], n) = obj[a]
    BY <2>1 DEF TypeOK, Held, RefInv
  <2>2. CASE Commit(obj[a], n).exists = ~(n.deleting /\ ~n.fin)
    <3>1. /\ obj'[a].exists = ~(n.deleting /\ ~n.fin)
          /\ obj'[a].deleting = n.deleting /\ obj'[a].fin = n.fin
      BY <2>2, CommitFields DEF TypeOK
    <3> QED
      BY <3>1, Zenon DEF Held
  <2> QED
    BY <2>1, <2>2, CommitFields DEF TypeOK
<1>4. \A b \in Accounts \ {a} : Synced(b)' /\ Held(b)' /\ ClaimSync(b)'
  BY DEF TypeOK, RefInv, Synced, Held, ClaimSync
<1> QED
  BY <1>2, <1>3, <1>4

\* The write a reconciliation makes from a copy that is the stored object.
LEMMA StatusStored ==
    ASSUME TypeOK, NEW a \in Accounts, loc[a] = obj[a], NEW st \in AccountStates
    PROVE  /\ WithStatus(obj[a], [loc[a] EXCEPT !.state = st]) = [obj[a] EXCEPT !.state = st]
           /\ [obj[a] EXCEPT !.state = st] \in Object
<1>1. obj[a] \in Object
  BY DEF TypeOK
<1>2. /\ [loc[a] EXCEPT !.state = st].state = st
      /\ [loc[a] EXCEPT !.state = st].claimed = obj[a].claimed
  BY <1>1 DEF Object
<1>3. WithStatus(obj[a], [loc[a] EXCEPT !.state = st])
        = [obj[a] EXCEPT !.state = st, !.claimed = obj[a].claimed]
  BY <1>2 DEF WithStatus
<1>4. [obj[a] EXCEPT !.state = st, !.claimed = obj[a].claimed] = [obj[a] EXCEPT !.state = st]
  BY <1>1 DEF Object
<1>5. [obj[a] EXCEPT !.state = st] \in Object
  BY <1>1 DEF Object
<1> QED
  BY <1>3, <1>4, <1>5

LEMMA SpecStored ==
    ASSUME TypeOK, NEW a \in Accounts, loc[a] = obj[a], NEW v \in BOOLEAN
    PROVE  /\ WithSpec(obj[a], [loc[a] EXCEPT !.fin = v]) = [obj[a] EXCEPT !.fin = v]
           /\ WithSpec(obj[a], [loc[a] EXCEPT !.awsId = v]) = [obj[a] EXCEPT !.awsId = v]
           /\ WithSpec(obj[a], [loc[a] EXCEPT !.label = v]) = [obj[a] EXCEPT !.label = v]
           /\ [obj[a] EXCEPT !.fin = v] \in Object
           /\ [obj[a] EXCEPT !.awsId = v] \in Object
           /\ [obj[a] EXCEPT !.label = v] \in Object
<1>1. obj[a] \in Object
  BY DEF TypeOK
<1>2. WithSpec(obj[a], [loc[a] EXCEPT !.fin = v]) = [obj[a] EXCEPT !.fin = v]
  <2>1. WithSpec(obj[a], [loc[a] EXCEPT !.fin = v])
          = [obj[a] EXCEPT !.fin = v, !.awsId = obj[a].awsId,
                           !.label = obj[a].label, !.claimLink = obj[a].claimLink]
    BY <1>1 DEF WithSpec, Object
  <2> QED
    BY <1>1, <2>1 DEF Object
<1>3. WithSpec(obj[a], [loc[a] EXCEPT !.awsId = v]) = [obj[a] EXCEPT !.awsId = v]
  <2>1. WithSpec(obj[a], [loc[a] EXCEPT !.awsId = v])
          = [obj[a] EXCEPT !.fin = obj[a].fin, !.awsId = v,
                           !.label = obj[a].label, !.claimLink = obj[a].claimLink]
    BY <1>1 DEF WithSpec, Object
  <2> QED
    BY <1>1, <2>1 DEF Object
<1>4. WithSpec(obj[a], [loc[a] EXCEPT !.label = v]) = [obj[a] EXCEPT !.label = v]
  <2>1. WithSpec(obj[a], [loc[a] EXCEPT !.label = v])
          = [obj[a] EXCEPT !.fin = obj[a].fin, !.awsId = obj[a].awsId,
                           !.label = v, !.claimLink = obj[a].claimLink]
    BY <1>1 DEF WithSpec, Object
  <2> QED
    BY <1>1, <2>1 DEF Object
<1>5. /\ [obj[a] EXCEPT !.fin = v] \in Object
      /\ [obj[a] EXCEPT !.awsId = v] \in Object
      /\ [obj[a] EXCEPT !.label = v] \in Object
  BY <1>1 DEF Object
<1> QED
  BY <1>2, <1>3, <1>4, <1>5

-----------------------------------------------------------------------------
(* Initial states                                                          *)

\* Every object the other controllers create is one of InitialObjects.
LEMMA InitialObjectFacts ==
    ASSUME NEW a \in Accounts, NEW o \in InitialObjects(a)
    PROVE  /\ o.exists /\ ~o.deleting /\ ~o.claimed /\ o.claimLink = (a \in BYOC)
           /\ o.state \in {"None", "PendingVerification", "InitializingRegions", "Failed"}
           /\ a \in BYOC \/ o.state # "None" => o.awsId
<1>1. CASE o = NewObject(a)
  BY <1>1 DEF NewObject
<1>2. CASE o = [NewObject(a) EXCEPT !.awsId = TRUE]
  BY <1>2 DEF NewObject
<1>3. CASE \E st \in {"PendingVerification", "InitializingRegions", "Failed"} :
             o = [NewObject(a) EXCEPT !.fin = TRUE, !.awsId = TRUE, !.state = st]
  BY <1>3 DEF NewObject
<1> QED
  BY <1>1, <1>2, <1>3 DEF InitialObjects

LEMMA InitRInv == Init => RInv
<1> SUFFICES ASSUME Init PROVE RInv
  OBVIOUS
<1>1. FInv
  BY InitFInv
<1>2. ASSUME NEW a \in Accounts PROVE RefInv(a)
  <2>0. obj[a] \in InitialObjects(a) /\ loc[a] = obj[a] /\ pc[a] = "Idle"
    BY DEF Init
  <2>1. loc[a] = obj[a] /\ pc[a] = "Idle" /\ ~obj[a].deleting
    BY <2>0, InitialObjectFacts, Zenon
  <2>2. Synced(a)
    BY <2>1, InitType DEF Synced, TypeOK, Object
  <2>3. Held(a) /\ ClaimSync(a)
    BY <2>1 DEF Held, ClaimSync
  <2>4. PcFacts(a, pc[a], loc[a])
    BY <2>1 DEF PcFacts
  <2> QED
    BY <2>2, <2>3, <2>4 DEF RefInv
<1> QED
  BY <1>1, <1>2 DEF RInv

\* The objects the reconciler starts from are initial objects of the
\* lifecycle.
LEMMA InitRefines == Init => Life!Init
<1> SUFFICES ASSUME Init PROVE Life!Init
  OBVIOUS
<1>1. \A a \in Accounts : obj[a] \in InitialObjects(a)
  BY DEF Init
<1>2. obj \in [Accounts -> Object]
  BY InitType DEF TypeOK
<1>0. ASSUME NEW a \in Accounts
      PROVE  /\ obj[a].exists = TRUE /\ obj[a].deleting = FALSE
             /\ obj[a].claimed = FALSE /\ obj[a].claimLink = (a \in BYOC)
  <2>1. obj[a] \in InitialObjects(a)
    BY <1>1
  <2>2. /\ obj[a].exists /\ ~obj[a].deleting /\ ~obj[a].claimed
        /\ obj[a].claimLink = (a \in BYOC)
    BY <2>1, InitialObjectFacts, Zenon
  <2>3. /\ obj[a].exists \in BOOLEAN /\ obj[a].deleting \in BOOLEAN
        /\ obj[a].claimed \in BOOLEAN
    BY <1>2 DEF Object
  <2> QED
    BY <2>2, <2>3, Zenon
<1>3. LExists = [a \in Accounts |-> TRUE] /\ LDeleting = [a \in Accounts |-> FALSE]
  BY <1>0, Zenon DEF LExists, LDeleting
<1>4. LClaimLink = [a \in Accounts |-> a \in BYOC] /\ LClaimed = [a \in Accounts |-> FALSE]
  BY <1>0, Zenon DEF LClaimLink, LClaimed
<1>5. LState \in [Accounts -> {"None", "PendingVerification", "InitializingRegions", "Failed"}]
  BY <1>1, InitialObjectFacts DEF LState
<1>6. LAwsId \in [Accounts -> BOOLEAN]
  BY <1>2 DEF LAwsId, Object
<1>7. \A a \in Accounts : a \in BYOC \/ LState[a] # "None" => LAwsId[a]
  BY <1>1, InitialObjectFacts DEF LState, LAwsId
<1> QED
  BY <1>3, <1>4, <1>5, <1>6, <1>7 DEF Life!Init, LExists, LDeleting, LState, LAwsId, LClaimLink, LClaimed

-----------------------------------------------------------------------------
(* The invariant is inductive                                              *)

\* A step of the reconciliation of a that writes nothing and sends it to t.
LEMMA Unwritten ==
    ASSUME TypeOK, \A b \in Accounts : RefInv(b), NEW a \in Accounts, NEW t,
           UNCHANGED <<obj, loc>>, pc' = [pc EXCEPT ![a] = t],
           PcFacts(a, t, loc[a]),
           t # "Idle" => pc[a] # "Idle"
    PROVE  \A b \in Accounts : RefInv(b)'
<1>1. pc'[a] = t /\ \A b \in Accounts \ {a} : pc'[b] = pc[b]
  BY DEF TypeOK
<1> QED
  BY <1>1 DEF RefInv, Synced, Held, ClaimSync, PcFacts

\* A read of the stored object into loc, which sends the reconciliation to t.
LEMMA ReRead ==
    ASSUME TypeOK, \A b \in Accounts : RefInv(b), NEW a \in Accounts, NEW t,
           UNCHANGED obj, loc' = [loc EXCEPT ![a] = obj[a]], pc' = [pc EXCEPT ![a] = t],
           PcFacts(a, t, obj[a])
    PROVE  \A b \in Accounts : RefInv(b)'
<1>1. pc'[a] = t /\ \A b \in Accounts \ {a} : pc'[b] = pc[b] /\ loc'[b] = loc[b]
  BY DEF TypeOK
<1>2. loc'[a] = obj[a] /\ obj[a].rv \in Nat
  BY DEF TypeOK, Object
<1>3. RefInv(a)'
  BY <1>1, <1>2 DEF RefInv, Synced, Held, ClaimSync
<1>4. \A b \in Accounts \ {a} : RefInv(b)'
  BY <1>1 DEF RefInv, Synced, Held, ClaimSync, PcFacts
<1> QED
  BY <1>3, <1>4

\* A landed write of n by the reconciliation of a, which then goes to t.
LEMMA Landed ==
    ASSUME TypeOK, ConstantsAssumption, \A b \in Accounts : RefInv(b),
           NEW a \in Accounts, NEW n \in Object, NEW t,
           obj[a].rv < MaxVersion,
           obj' = [obj EXCEPT ![a] = Commit(obj[a], n)],
           loc' = [loc EXCEPT ![a] = Commit(obj[a], n)],
           pc' = [pc EXCEPT ![a] = t],
           PcFacts(a, t, Commit(obj[a], n))
    PROVE  \A b \in Accounts : RefInv(b)'
<1>1. \A b \in Accounts : Synced(b)' /\ Held(b)' /\ ClaimSync(b)'
  BY LandedKeeps
<1>2. pc'[a] = t /\ loc'[a] = Commit(obj[a], n)
      /\ \A b \in Accounts \ {a} : pc'[b] = pc[b] /\ loc'[b] = loc[b]
  BY DEF TypeOK
<1> QED
  BY <1>1, <1>2 DEF RefInv, PcFacts

\* A write that may not land: it lands as above or conflicts.
LEMMA TriedKeeps ==
    ASSUME TypeOK, ConstantsAssumption, \A b \in Accounts : RefInv(b),
           NEW a \in Accounts, NEW l \in Object, pc' = [pc EXCEPT ![a] = "Idle"],
           TryStatusUpdate(a, l) \/ TrySpecUpdate(a, l)
    PROVE  \A b \in Accounts : RefInv(b)'
<1>1. CASE WriteOk(a) /\ StatusUpdate(a, l)
  <2>1. WithStatus(obj[a], l) \in Object
    BY WithType DEF TypeOK
  <2> QED
    BY <1>1, <2>1, Landed DEF WriteOk, StatusUpdate, Store, PcFacts
<1>2. CASE WriteOk(a) /\ SpecUpdate(a, l)
  <2>1. WithSpec(obj[a], l) \in Object
    BY WithType DEF TypeOK
  <2> QED
    BY <1>2, <2>1, Landed DEF WriteOk, SpecUpdate, Store, PcFacts
<1>3. CASE UNCHANGED <<obj, loc>>
  BY <1>3, Unwritten DEF PcFacts
<1> QED
  BY <1>1, <1>2, <1>3 DEF TryStatusUpdate, TrySpecUpdate

\* Where the chain of checks in Reconcile sends a reconciliation, and what
\* it checked of the copy on the way.
LEMMA RoutePc ==
    ASSUME NEW a, NEW l
    PROVE  PcFacts(a, RouteTarget(a, l), l)
BY DEF RouteTarget, AfterBranch, PcFacts, IsUnclaimedAndHasNoState,
       IsReadyUnclaimedAndHasClaimLink

\* After a landed write of l, account initialization is reached only if
\* the stored result is ready for it.
LEMMA AfterBranchPc ==
    ASSUME NEW a, NEW o \in Object, NEW l \in Object
    PROVE  PcFacts(a, AfterBranch(a, l), Commit(o, l))
<1>1. Commit(o, l).state = l.state /\ Commit(o, l).claimed = l.claimed
  BY CommitFields
<1> QED
  BY <1>1 DEF AfterBranch, PcFacts, ReadyForInitialization

\* Every step keeps RefInv of every object.
LEMMA NextRefInv ==
    ASSUME RInv, [Next]_vars PROVE \A b \in Accounts : RefInv(b)'
<1> USE ConstantsAssumption
<1>0. TypeOK /\ \A b \in Accounts : RefInv(b) /\ FailedInv(b)
  BY DEF RInv, FInv
<1>1. ASSUME NEW a \in Accounts, Get(a) PROVE \A b \in Accounts : RefInv(b)'
  BY <1>0, <1>1, ReRead DEF Get, Goto, PcFacts
<1>2. ASSUME NEW a \in Accounts, AddFinalizer(a) PROVE \A b \in Accounts : RefInv(b)'
  <2>1. WithSpec(obj[a], [loc[a] EXCEPT !.fin = TRUE]) \in Object
    <3>1. [loc[a] EXCEPT !.fin = TRUE] \in Object
      BY <1>0, ObjectUpdate DEF TypeOK, AccountStates
    <3> QED
      BY <1>0, <3>1, WithType DEF TypeOK
  <2>2. CASE WriteOk(a) /\ SpecUpdate(a, [loc[a] EXCEPT !.fin = TRUE]) /\ Goto(a, "Route")
    BY <1>0, <2>1, <2>2, Landed DEF WriteOk, SpecUpdate, Store, Goto, PcFacts
  <2>3. CASE UNCHANGED <<obj, loc>> /\ (Goto(a, "Idle") \/ Goto(a, "Route"))
    BY <1>0, <1>2, <2>3, Unwritten DEF AddFinalizer, Goto, PcFacts
  <2> QED
    BY <1>2, <2>2, <2>3 DEF AddFinalizer
<1>3. ASSUME NEW a \in Accounts, Route(a) PROVE \A b \in Accounts : RefInv(b)'
  BY <1>0, <1>3, RoutePc, Unwritten DEF Route, Goto
<1>4. ASSUME NEW a \in Accounts, Delete(a) PROVE \A b \in Accounts : RefInv(b)'
  <2>1. [loc[a] EXCEPT !.fin = FALSE] \in Object /\ [loc[a] EXCEPT !.state = "Failed"] \in Object
    BY <1>0, ObjectUpdate DEF TypeOK, AccountStates
  <2>2. pc' = [pc EXCEPT ![a] = "Idle"]
    BY <1>4 DEF Delete, DeleteSts, DeleteRoleFailed, DeleteFinalize, Goto
  <2>3. CASE TrySpecUpdate(a, [loc[a] EXCEPT !.fin = FALSE])
    BY <1>0, <2>1, <2>2, <2>3, TriedKeeps
  <2>4. CASE TryStatusUpdate(a, [loc[a] EXCEPT !.state = "Failed"])
    BY <1>0, <2>1, <2>2, <2>4, TriedKeeps
  <2>5. CASE UNCHANGED <<obj, loc>>
    BY <1>0, <2>2, <2>5, Unwritten DEF PcFacts
  <2> QED
    BY <1>4, <2>3, <2>4, <2>5 DEF Delete, DeleteSts, DeleteRoleFailed, DeleteFinalize
<1>5. ASSUME NEW a \in Accounts, Timeout(a) PROVE \A b \in Accounts : RefInv(b)'
  <2>1. [loc[a] EXCEPT !.state = "Failed"] \in Object
    BY <1>0, StateUpdate DEF TypeOK, AccountStates
  <2> QED
    BY <1>0, <1>5, <2>1, TriedKeeps DEF Timeout, Goto
<1>6. ASSUME NEW a \in Accounts, Create(a) PROVE \A b \in Accounts : RefInv(b)'
  <2>1. [loc[a] EXCEPT !.state = "Failed"] \in Object
    BY <1>0, StateUpdate DEF TypeOK, AccountStates
  <2>2. CASE TryStatusUpdate(a, [loc[a] EXCEPT !.state = "Failed"]) /\ Goto(a, "Idle")
    BY <1>0, <2>1, <2>2, TriedKeeps DEF Goto
  <2>3. CASE UNCHANGED <<obj, loc>> /\ Goto(a, "Idle")
    BY <1>0, <2>3, Unwritten DEF Goto, PcFacts
  <2>4. CASE UNCHANGED <<obj, loc>> /\ Goto(a, "Poll")
    BY <1>0, <1>6, <2>4, Unwritten DEF Create, Goto, PcFacts, RefInv
  <2> QED
    BY <1>6, <2>2, <2>3, <2>4 DEF Create
<1>7. ASSUME NEW a \in Accounts, Poll(a) PROVE \A b \in Accounts : RefInv(b)'
  <2>1. [loc[a] EXCEPT !.state = "Failed"] \in Object
    BY <1>0, StateUpdate DEF TypeOK, AccountStates
  <2>2. /\ pc[a] = "Poll"
        /\ a \notin BYOC /\ loc[a].state = "None" /\ ~loc[a].claimed
        /\ obj[a].state = "None" /\ ~obj[a].claimed
    <3>1. pc[a] = "Poll"
      BY <1>7 DEF Poll
    <3>2. a \notin BYOC /\ loc[a].state = "None" /\ ~loc[a].claimed
      BY <1>0, <3>1 DEF RefInv, PcFacts
    <3>3. obj[a].state = "None"
      BY <1>0, <3>1, <3>2 DEF FailedInv
    <3> QED
      BY <1>0, <3>1, <3>2, <3>3 DEF RefInv, ClaimSync
  <2>3. CASE TryStatusUpdate(a, [loc[a] EXCEPT !.state = "Failed"]) /\ Goto(a, "Idle")
    BY <1>0, <2>1, <2>3, TriedKeeps DEF Goto
  <2>4. CASE UNCHANGED <<obj, loc>> /\ Goto(a, "Idle")
    BY <1>0, <2>4, Unwritten DEF Goto, PcFacts
  <2>5. CASE UNCHANGED <<obj, loc>> /\ Goto(a, "SetCreating")
    BY <1>0, <2>2, <2>5, Unwritten DEF Goto, PcFacts
  <2>6. CASE loc' = [loc EXCEPT ![a] = obj[a]] /\ UNCHANGED obj /\ Goto(a, "SetCreating")
    BY <1>0, <2>2, <2>6, ReRead DEF Goto, PcFacts
  <2> QED
    BY <1>7, <2>3, <2>4, <2>5, <2>6 DEF Poll
<1>8. ASSUME NEW a \in Accounts, SetCreating(a) PROVE \A b \in Accounts : RefInv(b)'
  <2>1. CASE WriteOk(a) /\ StatusUpdate(a, [loc[a] EXCEPT !.state = "Creating"]) /\ Goto(a, "SetId")
    <3>1. loc[a] = obj[a]
      BY <1>0, <2>1 DEF RefInv, Synced, WriteOk, Conflict
    <3>2. /\ WithStatus(obj[a], [loc[a] EXCEPT !.state = "Creating"]) = [obj[a] EXCEPT !.state = "Creating"]
          /\ [obj[a] EXCEPT !.state = "Creating"] \in Object
      BY <1>0, <3>1, StatusStored DEF AccountStates
    <3>3. a \notin BYOC
      BY <1>0, <1>8 DEF SetCreating, RefInv, PcFacts
    <3>4. Commit(obj[a], [obj[a] EXCEPT !.state = "Creating"]).state = "Creating"
      BY <1>0, <3>2, CommitFields DEF TypeOK, Object
    <3> QED
      BY <1>0, <2>1, <3>2, <3>3, <3>4, Landed DEF WriteOk, StatusUpdate, Store, Goto, PcFacts
  <2>2. CASE UNCHANGED <<obj, loc>> /\ Goto(a, "Idle")
    BY <1>0, <2>2, Unwritten DEF Goto, PcFacts
  <2> QED
    BY <1>8, <2>1, <2>2 DEF SetCreating
<1>9. ASSUME NEW a \in Accounts, SetId(a) PROVE \A b \in Accounts : RefInv(b)'
  <2> DEFINE l == [loc[a] EXCEPT !.awsId = TRUE]
  <2>1. CASE WriteOk(a) /\ SpecUpdate(a, l) /\ Goto(a, AfterBranch(a, l))
    <3>1. loc[a] = obj[a]
      BY <1>0, <2>1 DEF RefInv, Synced, WriteOk, Conflict
    <3>2. WithSpec(obj[a], l) = l /\ l \in Object
      BY <1>0, <3>1, SpecStored
    <3>3. PcFacts(a, AfterBranch(a, l), Commit(obj[a], l))
      BY <1>0, <3>2, AfterBranchPc DEF TypeOK
    <3> QED
      BY <1>0, <2>1, <3>2, <3>3, Landed DEF WriteOk, SpecUpdate, Store, Goto
  <2>2. CASE UNCHANGED <<obj, loc>> /\ Goto(a, "Idle")
    BY <1>0, <2>2, Unwritten DEF Goto, PcFacts
  <2> QED
    BY <1>9, <2>1, <2>2 DEF SetId
<1>10. ASSUME NEW a \in Accounts, NEW l \in Object, l = [loc[a] EXCEPT !.state = "Creating"],
              pc[a] \in {"ByocCreating", "AlreadyCreated"},
              \/ WriteOk(a) /\ StatusUpdate(a, l) /\ Goto(a, AfterBranch(a, l))
              \/ UNCHANGED <<obj, loc>> /\ Goto(a, "Idle")
       PROVE \A b \in Accounts : RefInv(b)'
  <2>1. CASE WriteOk(a) /\ StatusUpdate(a, l) /\ Goto(a, AfterBranch(a, l))
    <3>1. loc[a] = obj[a]
      BY <1>0, <2>1 DEF RefInv, Synced, WriteOk, Conflict
    <3>2. WithStatus(obj[a], l) = l
      BY <1>0, <1>10, <3>1, StatusStored DEF AccountStates
    <3>3. PcFacts(a, AfterBranch(a, l), Commit(obj[a], l))
      BY <1>0, <1>10, AfterBranchPc DEF TypeOK
    <3> QED
      BY <1>0, <1>10, <2>1, <3>2, <3>3, Landed DEF WriteOk, StatusUpdate, Store, Goto
  <2>2. CASE UNCHANGED <<obj, loc>> /\ Goto(a, "Idle")
    BY <1>0, <2>2, Unwritten DEF Goto, PcFacts
  <2> QED
    BY <1>10, <2>1, <2>2
<1>11. ASSUME NEW a \in Accounts, ByocCreating(a) \/ AlreadyCreated(a)
       PROVE \A b \in Accounts : RefInv(b)'
  <2>1. [loc[a] EXCEPT !.state = "Creating"] \in Object
    BY <1>0, StateUpdate DEF TypeOK, AccountStates
  <2> QED
    BY <1>11, <2>1, <1>10 DEF ByocCreating, AlreadyCreated
<1>12. ASSUME NEW a \in Accounts, InitializeAccount(a) PROVE \A b \in Accounts : RefInv(b)'
  <2>1. [loc[a] EXCEPT !.state = "Ready"] \in Object /\ [loc[a] EXCEPT !.label = TRUE] \in Object
    BY <1>0, ObjectUpdate DEF TypeOK, AccountStates
  <2>2. pc' = [pc EXCEPT ![a] = "Idle"]
    BY <1>12 DEF InitializeAccount, Goto
  <2>3. CASE TryStatusUpdate(a, [loc[a] EXCEPT !.state = "Ready"])
    BY <1>0, <2>1, <2>2, <2>3, TriedKeeps
  <2>4. CASE TrySpecUpdate(a, [loc[a] EXCEPT !.label = TRUE])
    BY <1>0, <2>1, <2>2, <2>4, TriedKeeps
  <2>5. CASE UNCHANGED <<obj, loc>>
    BY <1>0, <2>2, <2>5, Unwritten DEF PcFacts
  <2> QED
    BY <1>12, <2>3, <2>4, <2>5 DEF InitializeAccount
<1>13. ASSUME NEW a \in Accounts, Abort(a) PROVE \A b \in Accounts : RefInv(b)'
  BY <1>0, <1>13, Unwritten DEF Abort, Goto, PcFacts
<1>14. ASSUME NEW a \in Accounts, Environment(a) PROVE \A b \in Accounts : RefInv(b)'
  <2>1. CASE Expire(a)
    BY <1>0, <2>1 DEF Expire, RefInv, Synced, Held, ClaimSync
  <2>2. CASE RequestDelete(a) \/ BindClaimLink(a) \/ MarkClaimed(a)
    <3>1. /\ UNCHANGED <<loc, pc>>
          /\ obj' = [obj EXCEPT ![a] = obj'[a]]
          /\ obj'[a].rv = obj[a].rv + 1
          /\ obj'[a].exists /\ obj'[a].deleting => obj'[a].fin
          /\ obj'[a].claimed # obj[a].claimed => obj[a].state = "Ready"
          /\ obj'[a].state = obj[a].state
      BY <1>0, <2>2 DEF RequestDelete, BindClaimLink, MarkClaimed, TypeOK, Object
    <3>2. obj[a].rv \in Nat /\ loc[a].rv \in Nat
      BY <1>0 DEF TypeOK, Object
    <3>3. RefInv(a)'
      BY <1>0, <3>1, <3>2 DEF RefInv, Synced, Held, ClaimSync, PcFacts
    <3>4. \A b \in Accounts \ {a} : RefInv(b)'
      <4>1. \A b \in Accounts \ {a} : obj'[b] = obj[b]
        BY <1>0, <3>1 DEF TypeOK
      <4> QED
        BY <1>0, <3>1, <4>1 DEF RefInv, Synced, Held, ClaimSync, PcFacts
    <3> QED
      BY <3>3, <3>4
  <2> QED
    BY <1>14, <2>1, <2>2 DEF Environment
<1>15. CASE RefreshBudget \/ UNCHANGED vars
  BY <1>0, <1>15 DEF RefreshBudget, vars, RefInv, Synced, Held, ClaimSync, PcFacts
<1> QED
  BY <1>1, <1>2, <1>3, <1>4, <1>5, <1>6, <1>7, <1>8, <1>9, <1>11, <1>12,
     <1>13, <1>14, <1>15 DEF Next, Reconcile

LEMMA NextRInv == RInv /\ [Next]_vars => RInv'
<1> SUFFICES ASSUME RInv, [Next]_vars PROVE RInv'
  OBVIOUS
<1>1. FInv'
  BY NextFInv, NextType DEF RInv, FInv, StepOk
<1> QED
  BY <1>1, NextRefInv DEF RInv

-----------------------------------------------------------------------------
(* What the other controllers see of a step                                *)

\* A step that changes no object but a is seen as a change of a alone.
LEMMA Projection ==
    ASSUME TypeOK, TypeOK', NEW a \in Accounts,
           \A b \in Accounts \ {a} : obj'[b] = obj[b]
    PROVE  /\ LExists' = [LExists EXCEPT ![a] = obj'[a].exists]
           /\ LDeleting' = [LDeleting EXCEPT ![a] = obj'[a].deleting]
           /\ LState' = [LState EXCEPT ![a] = obj'[a].state]
           /\ LAwsId' = [LAwsId EXCEPT ![a] = obj'[a].awsId]
           /\ LClaimLink' = [LClaimLink EXCEPT ![a] = obj'[a].claimLink]
           /\ LClaimed' = [LClaimed EXCEPT ![a] = obj'[a].claimed]
BY DEF TypeOK, LExists, LDeleting, LState, LAwsId, LClaimLink, LClaimed

\* A landed write of n, made from the stored object, is seen as n, with
\* the object gone when n is being deleted and holds no finalizer.
LEMMA WriteShown ==
    ASSUME TypeOK, TypeOK', NEW a \in Accounts, Held(a), WriteOk(a),
           NEW n \in Object, n.deleting = obj[a].deleting,
           obj' = [obj EXCEPT ![a] = Commit(obj[a], n)]
    PROVE  /\ LExists' = [LExists EXCEPT ![a] = ~(obj[a].deleting /\ ~n.fin)]
           /\ LDeleting' = LDeleting
           /\ LState' = [LState EXCEPT ![a] = n.state]
           /\ LAwsId' = [LAwsId EXCEPT ![a] = n.awsId]
           /\ LClaimLink' = [LClaimLink EXCEPT ![a] = n.claimLink]
           /\ LClaimed' = [LClaimed EXCEPT ![a] = n.claimed]
<1>1. obj'[a] = Commit(obj[a], n) /\ \A b \in Accounts \ {a} : obj'[b] = obj[b]
  BY DEF TypeOK
<1>2. /\ obj'[a].state = n.state /\ obj'[a].claimed = n.claimed
      /\ obj'[a].deleting = obj[a].deleting /\ obj'[a].awsId = n.awsId
      /\ obj'[a].claimLink = n.claimLink
  BY <1>1, CommitFields DEF TypeOK
<1>3. obj'[a].exists = ~(obj[a].deleting /\ ~n.fin)
  <2>1. CASE Commit(obj[a], n) = obj[a]
    <3>0. n = obj[a]
      <4>1. obj[a].rv \in Nat
        BY DEF TypeOK, Object
      <4>2. n # obj[a] => Commit(obj[a], n).rv = obj[a].rv + 1
        BY DEF Commit, Object
      <4> QED
        BY <2>1, <4>1, <4>2
    <3>1. obj'[a] = obj[a] /\ n = obj[a] /\ obj[a].exists
      BY <1>1, <2>1, <3>0 DEF WriteOk, Conflict
    <3>2. obj[a].exists \in BOOLEAN
      BY DEF TypeOK, Object
    <3> QED
      BY <3>1, <3>2, Zenon DEF Held
  <2>2. CASE Commit(obj[a], n).exists = ~(n.deleting /\ ~n.fin)
    BY <1>1, <2>2
  <2> QED
    BY <2>1, <2>2, CommitFields DEF TypeOK
<1>4. LDeleting' = LDeleting
  BY <1>1, <1>2, Projection DEF TypeOK, LDeleting
<1> QED
  BY <1>1, <1>2, <1>3, <1>4, Projection

\* A landed write that keeps the finalizer, or adds it, keeps the object in
\* the store: the other controllers see its state and account ID change.
LEMMA KeptShown ==
    ASSUME RInv, TypeOK', NEW a \in Accounts, WriteOk(a),
           NEW n \in Object, obj' = [obj EXCEPT ![a] = Commit(obj[a], n)],
           n.deleting = obj[a].deleting, n.claimed = obj[a].claimed,
           n.claimLink = obj[a].claimLink, n.fin = obj[a].fin \/ n.fin = TRUE
    PROVE  /\ LExists[a]
           /\ LState' = [LState EXCEPT ![a] = n.state]
           /\ LAwsId' = [LAwsId EXCEPT ![a] = n.awsId]
           /\ UNCHANGED <<LExists, LDeleting, LClaimLink, LClaimed>>
<1>1. TypeOK /\ Held(a) /\ obj[a].exists
  BY DEF RInv, FInv, RefInv, WriteOk, Conflict
<1>2. /\ LExists' = [LExists EXCEPT ![a] = ~(obj[a].deleting /\ ~n.fin)]
      /\ LDeleting' = LDeleting
      /\ LState' = [LState EXCEPT ![a] = n.state]
      /\ LAwsId' = [LAwsId EXCEPT ![a] = n.awsId]
      /\ LClaimLink' = [LClaimLink EXCEPT ![a] = n.claimLink]
      /\ LClaimed' = [LClaimed EXCEPT ![a] = n.claimed]
  BY <1>1, WriteShown
<1>3. ~(obj[a].deleting /\ ~n.fin) = TRUE /\ obj[a].exists = TRUE
  <2>1. obj[a].exists \in BOOLEAN /\ obj[a].deleting \in BOOLEAN /\ obj[a].fin \in BOOLEAN
    BY <1>1 DEF TypeOK, Object
  <2> QED
    BY <1>1, <2>1, Zenon DEF Held
<1>4. /\ LExists[a] = TRUE
      /\ [LExists EXCEPT ![a] = TRUE] = LExists
      /\ [LClaimLink EXCEPT ![a] = n.claimLink] = LClaimLink
      /\ [LClaimed EXCEPT ![a] = n.claimed] = LClaimed
  BY <1>1, <1>3 DEF TypeOK, LExists, LClaimLink, LClaimed
<1> QED
  BY <1>2, <1>3, <1>4

\* A landed write that drops the finalizer of an object being deleted
\* removes it from the store.
LEMMA RemovedShown ==
    ASSUME RInv, TypeOK', NEW a \in Accounts, WriteOk(a), obj[a].deleting,
           NEW n \in Object, obj' = [obj EXCEPT ![a] = Commit(obj[a], n)],
           n = [obj[a] EXCEPT !.fin = FALSE]
    PROVE  /\ LExists[a] /\ LDeleting[a]
           /\ LExists' = [LExists EXCEPT ![a] = FALSE]
           /\ UNCHANGED <<LDeleting, LState, LAwsId, LClaimLink, LClaimed>>
<1>1. TypeOK /\ Held(a) /\ obj[a].exists
  BY DEF RInv, FInv, RefInv, WriteOk, Conflict
<1>2. /\ n.deleting = obj[a].deleting /\ n.fin = FALSE /\ n.state = obj[a].state
      /\ n.awsId = obj[a].awsId /\ n.claimLink = obj[a].claimLink /\ n.claimed = obj[a].claimed
  BY <1>1 DEF TypeOK, Object
<1>3. /\ LExists' = [LExists EXCEPT ![a] = ~(obj[a].deleting /\ ~n.fin)]
      /\ LDeleting' = LDeleting
      /\ LState' = [LState EXCEPT ![a] = n.state]
      /\ LAwsId' = [LAwsId EXCEPT ![a] = n.awsId]
      /\ LClaimLink' = [LClaimLink EXCEPT ![a] = n.claimLink]
      /\ LClaimed' = [LClaimed EXCEPT ![a] = n.claimed]
  BY <1>1, <1>2, WriteShown
<1>4. ~(obj[a].deleting /\ ~n.fin) = FALSE
  BY <1>2, Zenon
<1>5. /\ [LState EXCEPT ![a] = n.state] = LState
      /\ [LAwsId EXCEPT ![a] = n.awsId] = LAwsId
      /\ [LClaimLink EXCEPT ![a] = n.claimLink] = LClaimLink
      /\ [LClaimed EXCEPT ![a] = n.claimed] = LClaimed
  BY <1>1, <1>2 DEF TypeOK, LState, LAwsId, LClaimLink, LClaimed
<1>6. LExists[a] /\ LDeleting[a]
  BY <1>1 DEF TypeOK, LExists, LDeleting
<1> QED
  BY <1>3, <1>4, <1>5, <1>6

\* A landed status write of st, made from the stored object, is seen as
\* the state of a alone becoming st.
LEMMA StatusShown ==
    ASSUME RInv, TypeOK', NEW a \in Accounts, NEW st \in AccountStates,
           WriteOk(a), StatusUpdate(a, [loc[a] EXCEPT !.state = st])
    PROVE  /\ loc[a] = obj[a] /\ LExists[a]
           /\ LState' = [LState EXCEPT ![a] = st]
           /\ UNCHANGED <<LExists, LDeleting, LAwsId, LClaimLink, LClaimed>>
<1>1. TypeOK /\ loc[a] = obj[a]
  BY DEF RInv, FInv, RefInv, Synced, WriteOk, Conflict
<1>2. /\ WithStatus(obj[a], [loc[a] EXCEPT !.state = st]) = [obj[a] EXCEPT !.state = st]
      /\ [obj[a] EXCEPT !.state = st] \in Object
  BY <1>1, StatusStored
<1>3. /\ obj' = [obj EXCEPT ![a] = Commit(obj[a], [obj[a] EXCEPT !.state = st])]
      /\ [obj[a] EXCEPT !.state = st].deleting = obj[a].deleting
      /\ [obj[a] EXCEPT !.state = st].claimed = obj[a].claimed
      /\ [obj[a] EXCEPT !.state = st].claimLink = obj[a].claimLink
      /\ [obj[a] EXCEPT !.state = st].fin = obj[a].fin
      /\ [obj[a] EXCEPT !.state = st].awsId = obj[a].awsId
      /\ [obj[a] EXCEPT !.state = st].state = st
  BY <1>1, <1>2 DEF StatusUpdate, Store, TypeOK, Object
<1>4. [LAwsId EXCEPT ![a] = obj[a].awsId] = LAwsId
  BY <1>1 DEF TypeOK, LAwsId
<1> DEFINE n == [obj[a] EXCEPT !.state = st]
<1>5. /\ LExists[a]
      /\ LState' = [LState EXCEPT ![a] = n.state]
      /\ LAwsId' = [LAwsId EXCEPT ![a] = n.awsId]
      /\ UNCHANGED <<LExists, LDeleting, LClaimLink, LClaimed>>
  BY <1>2, <1>3, KeptShown
<1> QED
  BY <1>1, <1>3, <1>4, <1>5

\* The same for a spec write that sets the account ID, the IAM user label
\* or the finalizer: only the account ID can be seen to change.
LEMMA SpecShown ==
    ASSUME RInv, TypeOK', NEW a \in Accounts, WriteOk(a),
           NEW l \in {[loc[a] EXCEPT !.awsId = TRUE], [loc[a] EXCEPT !.label = TRUE],
                      [loc[a] EXCEPT !.fin = TRUE]},
           SpecUpdate(a, l)
    PROVE  /\ loc[a] = obj[a] /\ LExists[a]
           /\ LAwsId' = [LAwsId EXCEPT ![a] = l.awsId]
           /\ UNCHANGED <<LExists, LDeleting, LState, LClaimLink, LClaimed>>
<1>1. TypeOK /\ loc[a] = obj[a]
  BY DEF RInv, FInv, RefInv, Synced, WriteOk, Conflict
<1>2. WithSpec(obj[a], l) = l /\ l \in Object
  <2>1. CASE l = [loc[a] EXCEPT !.awsId = TRUE]
    BY <1>1, <2>1, SpecStored
  <2>2. CASE l = [loc[a] EXCEPT !.label = TRUE]
    BY <1>1, <2>2, SpecStored
  <2>3. CASE l = [loc[a] EXCEPT !.fin = TRUE]
    BY <1>1, <2>3, SpecStored
  <2> QED
    BY <2>1, <2>2, <2>3
<1>3. /\ obj' = [obj EXCEPT ![a] = Commit(obj[a], l)]
      /\ l.deleting = obj[a].deleting /\ l.claimed = obj[a].claimed
      /\ l.claimLink = obj[a].claimLink /\ l.state = obj[a].state
      /\ l.fin = obj[a].fin \/ l.fin = TRUE
  BY <1>1, <1>2 DEF SpecUpdate, Store, TypeOK, Object
<1>4. [LState EXCEPT ![a] = obj[a].state] = LState
  BY <1>1 DEF TypeOK, LState
<1>5. /\ LExists[a]
      /\ LState' = [LState EXCEPT ![a] = l.state]
      /\ LAwsId' = [LAwsId EXCEPT ![a] = l.awsId]
      /\ UNCHANGED <<LExists, LDeleting, LClaimLink, LClaimed>>
  BY <1>2, <1>3, KeptShown
<1> QED
  BY <1>1, <1>3, <1>4, <1>5

-----------------------------------------------------------------------------
(* Every step is a step of the lifecycle                                   *)

\* A step that writes no object is a stutter of the lifecycle.
LEMMA NoObjectChange == UNCHANGED obj => UNCHANGED Life!vars
BY DEF Life!vars

\* A status write of the state the object already has is not seen.
LEMMA SameState ==
    ASSUME NEW a \in Accounts, TypeOK,
           LState' = [LState EXCEPT ![a] = LState[a]],
           UNCHANGED <<LExists, LDeleting, LAwsId, LClaimLink, LClaimed>>
    PROVE  UNCHANGED Life!vars
<1>1. LState' = LState
  BY DEF TypeOK, LState
<1> QED
  BY <1>1 DEF Life!vars, LExists, LDeleting, LState, LAwsId, LClaimLink, LClaimed

\* A landed status write of Failed, from a state the lifecycle fails.
LEMMA FailedStep ==
    ASSUME RInv, TypeOK', NEW a \in Accounts,
           WriteOk(a), StatusUpdate(a, [loc[a] EXCEPT !.state = "Failed"]),
           loc[a].state \in {"None", "Creating"} \/ loc[a].deleting
    PROVE  [Life!Next]_(Life!vars)
<1>1. /\ loc[a] = obj[a] /\ LExists[a]
      /\ LState' = [LState EXCEPT ![a] = "Failed"]
      /\ UNCHANGED <<LExists, LDeleting, LAwsId, LClaimLink, LClaimed>>
  BY StatusShown DEF AccountStates
<1>2. TypeOK
  BY DEF RInv, FInv
<1>3. CASE LState[a] = "Failed"
  BY <1>1, <1>2, <1>3, SameState
<1>4. CASE LState[a] # "Failed"
  <2>1. LState[a] \in {"None", "Creating"} \/ LDeleting[a]
    BY <1>1, <1>2 DEF TypeOK, LState, LDeleting
  <2>2. Life!SetFailed(a)
    BY <1>1, <1>4, <2>1 DEF Life!SetFailed, LExists, LDeleting, LState, LAwsId, LClaimLink, LClaimed
  <2> QED
    BY <2>2 DEF Life!Next
<1> QED
  BY <1>3, <1>4

\* A landed status write of Creating, from a state the lifecycle sets to
\* Creating.
LEMMA CreatingStep ==
    ASSUME RInv, TypeOK', NEW a \in Accounts,
           WriteOk(a), StatusUpdate(a, [loc[a] EXCEPT !.state = "Creating"]),
           \/ a \in BYOC /\ loc[a].state \in {"None", "PendingVerification", "Ready", "Creating"}
           \/ a \notin BYOC /\ loc[a].state = "None" /\ ~loc[a].claimed
    PROVE  [Life!Next]_(Life!vars)
<1>1. /\ loc[a] = obj[a] /\ LExists[a]
      /\ LState' = [LState EXCEPT ![a] = "Creating"]
      /\ UNCHANGED <<LExists, LDeleting, LAwsId, LClaimLink, LClaimed>>
  BY StatusShown DEF AccountStates
<1>2. TypeOK
  BY DEF RInv, FInv
<1>3. CASE LState[a] = "Creating"
  BY <1>1, <1>2, <1>3, SameState
<1>4. CASE LState[a] # "Creating"
  <2>1. \/ a \in BYOC /\ LState[a] \in {"None", "PendingVerification", "Ready"}
        \/ a \notin BYOC /\ LState[a] = "None" /\ ~LClaimed[a]
    BY <1>1, <1>2, <1>4 DEF TypeOK, LState, LClaimed
  <2>2. Life!SetCreating(a)
    BY <1>1, <2>1 DEF Life!SetCreating, Life!CreatingFrom, LExists, LDeleting, LState,
                      LAwsId, LClaimLink, LClaimed
  <2> QED
    BY <2>2 DEF Life!Next
<1> QED
  BY <1>3, <1>4

\* A landed status write of Ready, from a copy ready for initialization.
LEMMA ReadyStep ==
    ASSUME RInv, TypeOK', NEW a \in Accounts,
           WriteOk(a), StatusUpdate(a, [loc[a] EXCEPT !.state = "Ready"]),
           ReadyForInitialization(a, loc[a])
    PROVE  [Life!Next]_(Life!vars)
<1>1. /\ loc[a] = obj[a] /\ LExists[a]
      /\ LState' = [LState EXCEPT ![a] = "Ready"]
      /\ UNCHANGED <<LExists, LDeleting, LAwsId, LClaimLink, LClaimed>>
  BY StatusShown DEF AccountStates
<1>2. TypeOK
  BY DEF RInv, FInv
<1>3. LState[a] = "Creating" /\ (a \in BYOC \/ ~LClaimed[a])
  BY <1>1, <1>2 DEF ReadyForInitialization, TypeOK, LState, LClaimed
<1>4. Life!SetReady(a)
  BY <1>1, <1>3 DEF Life!SetReady, LExists, LDeleting, LState, LAwsId, LClaimLink, LClaimed
<1> QED
  BY <1>4 DEF Life!Next

\* A landed spec write of the IAM user label or of the finalizer is not
\* seen; one of the account ID is seen on an account being created.
LEMMA SpecStep ==
    ASSUME RInv, TypeOK', NEW a \in Accounts, WriteOk(a),
           NEW l \in {[loc[a] EXCEPT !.awsId = TRUE], [loc[a] EXCEPT !.label = TRUE],
                      [loc[a] EXCEPT !.fin = TRUE]},
           SpecUpdate(a, l),
           l.awsId # loc[a].awsId => a \notin BYOC /\ loc[a].state = "Creating"
    PROVE  [Life!Next]_(Life!vars)
<1>1. /\ loc[a] = obj[a] /\ LExists[a]
      /\ LAwsId' = [LAwsId EXCEPT ![a] = l.awsId]
      /\ UNCHANGED <<LExists, LDeleting, LState, LClaimLink, LClaimed>>
  BY SpecShown
<1>2. TypeOK
  BY DEF RInv, FInv
<1>3. CASE l.awsId = LAwsId[a]
  <2>1. LAwsId' = LAwsId
    BY <1>1, <1>2, <1>3 DEF TypeOK, LAwsId
  <2> QED
    BY <1>1, <2>1 DEF Life!vars, LExists, LDeleting, LState, LAwsId, LClaimLink, LClaimed
<1>4. CASE l.awsId # LAwsId[a]
  <2>1. l = [loc[a] EXCEPT !.awsId = TRUE] /\ l.awsId = TRUE
    BY <1>1, <1>2, <1>4 DEF TypeOK, Object, LAwsId
  <2>2. a \notin BYOC /\ LState[a] = "Creating" /\ ~LAwsId[a]
    <3>1. a \notin BYOC /\ LState[a] = "Creating" /\ LAwsId[a] \in BOOLEAN
      BY <1>1, <1>2, <1>4 DEF TypeOK, Object, LState, LAwsId
    <3> QED
      BY <1>4, <2>1, <3>1, Zenon
  <2>3. Life!SetAwsId(a)
    BY <1>1, <2>1, <2>2 DEF Life!SetAwsId, LExists, LDeleting, LState, LAwsId, LClaimLink, LClaimed
  <2> QED
    BY <2>3 DEF Life!Next
<1> QED
  BY <1>3, <1>4

\* A landed spec write that drops the finalizer of an object being deleted
\* is the removal of the object.
LEMMA RemoveStep ==
    ASSUME RInv, TypeOK', NEW a \in Accounts, WriteOk(a), loc[a].deleting,
           SpecUpdate(a, [loc[a] EXCEPT !.fin = FALSE])
    PROVE  [Life!Next]_(Life!vars)
<1>1. TypeOK /\ loc[a] = obj[a]
  BY DEF RInv, FInv, RefInv, Synced, WriteOk, Conflict
<1>2. /\ WithSpec(obj[a], [loc[a] EXCEPT !.fin = FALSE]) = [obj[a] EXCEPT !.fin = FALSE]
      /\ [obj[a] EXCEPT !.fin = FALSE] \in Object
  BY <1>1, SpecStored
<1>3. obj' = [obj EXCEPT ![a] = Commit(obj[a], [obj[a] EXCEPT !.fin = FALSE])]
  BY <1>2 DEF SpecUpdate, Store
<1>4. /\ LExists[a] /\ LDeleting[a]
      /\ LExists' = [LExists EXCEPT ![a] = FALSE]
      /\ UNCHANGED <<LDeleting, LState, LAwsId, LClaimLink, LClaimed>>
  BY <1>1, <1>2, <1>3, RemovedShown
<1>5. Life!Remove(a)
  BY <1>4 DEF Life!Remove, LExists, LDeleting, LState, LAwsId, LClaimLink, LClaimed
<1> QED
  BY <1>5 DEF Life!Next

\* Every step of the reconciler and its environment is a step of the
\* lifecycle or is not seen by the other controllers.
LEMMA NextRefines ==
    ASSUME RInv, [Next]_vars PROVE [Life!Next]_(Life!vars)
<1> USE ConstantsAssumption
<1>0. /\ TypeOK /\ TypeOK'
      /\ \A b \in Accounts : RefInv(b) /\ FailedInv(b)
  BY NextType DEF RInv, FInv
<1>1. ASSUME NEW a \in Accounts, Get(a) \/ Route(a) \/ Abort(a) \/ Expire(a)
      PROVE  [Life!Next]_(Life!vars)
  BY <1>1, NoObjectChange DEF Get, Route, Abort, Expire
<1>2. ASSUME NEW a \in Accounts, AddFinalizer(a) PROVE [Life!Next]_(Life!vars)
  <2>1. CASE WriteOk(a) /\ SpecUpdate(a, [loc[a] EXCEPT !.fin = TRUE])
    <3>1. [loc[a] EXCEPT !.fin = TRUE].awsId = loc[a].awsId
      BY <1>0 DEF TypeOK, Object
    <3> QED
      BY <1>0, <2>1, <3>1, SpecStep
  <2>2. CASE UNCHANGED obj
    BY <2>2, NoObjectChange
  <2> QED
    BY <1>2, <2>1, <2>2 DEF AddFinalizer
<1>3. ASSUME NEW a \in Accounts, Delete(a) PROVE [Life!Next]_(Life!vars)
  <2>1. pc[a] = "Delete" /\ loc[a].deleting
    BY <1>0, <1>3 DEF Delete, DeleteSts, DeleteRoleFailed, DeleteFinalize, RefInv, PcFacts
  <2>2. CASE WriteOk(a) /\ SpecUpdate(a, [loc[a] EXCEPT !.fin = FALSE])
    BY <1>0, <2>1, <2>2, RemoveStep
  <2>3. CASE WriteOk(a) /\ StatusUpdate(a, [loc[a] EXCEPT !.state = "Failed"])
    BY <1>0, <2>1, <2>3, FailedStep
  <2>4. CASE UNCHANGED obj
    BY <2>4, NoObjectChange
  <2> QED
    BY <1>3, <2>2, <2>3, <2>4 DEF Delete, DeleteSts, DeleteRoleFailed, DeleteFinalize,
                                 TrySpecUpdate, TryStatusUpdate
<1>4. ASSUME NEW a \in Accounts, Timeout(a) \/ Create(a) \/ Poll(a)
      PROVE  [Life!Next]_(Life!vars)
  <2>1. loc[a].state \in {"None", "Creating"}
    BY <1>0, <1>4 DEF Timeout, Create, Poll, RefInv, PcFacts
  <2>2. CASE WriteOk(a) /\ StatusUpdate(a, [loc[a] EXCEPT !.state = "Failed"])
    BY <1>0, <2>1, <2>2, FailedStep
  <2>3. CASE UNCHANGED obj
    BY <2>3, NoObjectChange
  <2> QED
    BY <1>4, <2>2, <2>3 DEF Timeout, Create, Poll, TryStatusUpdate
<1>5. ASSUME NEW a \in Accounts, ByocCreating(a) \/ SetCreating(a) \/ AlreadyCreated(a)
      PROVE  [Life!Next]_(Life!vars)
  <2>1. \/ a \in BYOC /\ loc[a].state \in {"None", "PendingVerification", "Ready", "Creating"}
        \/ a \notin BYOC /\ loc[a].state = "None" /\ ~loc[a].claimed
    BY <1>0, <1>5 DEF ByocCreating, SetCreating, AlreadyCreated, RefInv, PcFacts, TypeOK,
                      Object, AccountStates
  <2>2. CASE WriteOk(a) /\ StatusUpdate(a, [loc[a] EXCEPT !.state = "Creating"])
    BY <1>0, <2>1, <2>2, CreatingStep
  <2>3. CASE UNCHANGED obj
    BY <2>3, NoObjectChange
  <2> QED
    BY <1>5, <2>2, <2>3 DEF ByocCreating, SetCreating, AlreadyCreated
<1>6. ASSUME NEW a \in Accounts, SetId(a) PROVE [Life!Next]_(Life!vars)
  <2>1. a \notin BYOC /\ loc[a].state = "Creating"
    BY <1>0, <1>6 DEF SetId, RefInv, PcFacts
  <2> QED
    BY <1>0, <1>6, <2>1, SpecStep, NoObjectChange DEF SetId
<1>7. ASSUME NEW a \in Accounts, InitializeAccount(a) PROVE [Life!Next]_(Life!vars)
  <2>1. ReadyForInitialization(a, loc[a])
    BY <1>0, <1>7 DEF InitializeAccount, RefInv, PcFacts
  <2>2. CASE WriteOk(a) /\ StatusUpdate(a, [loc[a] EXCEPT !.state = "Ready"])
    BY <1>0, <2>1, <2>2, ReadyStep
  <2>3. CASE WriteOk(a) /\ SpecUpdate(a, [loc[a] EXCEPT !.label = TRUE])
    <3>1. [loc[a] EXCEPT !.label = TRUE].awsId = loc[a].awsId
      BY <1>0 DEF TypeOK, Object
    <3> QED
      BY <1>0, <2>3, <3>1, SpecStep
  <2>4. CASE UNCHANGED obj
    BY <2>4, NoObjectChange
  <2> QED
    BY <1>7, <2>2, <2>3, <2>4 DEF InitializeAccount, TryStatusUpdate, TrySpecUpdate
<1>8. ASSUME NEW a \in Accounts, RequestDelete(a) \/ BindClaimLink(a) \/ MarkClaimed(a)
      PROVE  [Life!Next]_(Life!vars)
  <2>1. \A b \in Accounts \ {a} : obj'[b] = obj[b]
    BY <1>0, <1>8 DEF RequestDelete, BindClaimLink, MarkClaimed, TypeOK
  <2>2. /\ LExists' = [LExists EXCEPT ![a] = obj'[a].exists]
        /\ LDeleting' = [LDeleting EXCEPT ![a] = obj'[a].deleting]
        /\ LState' = [LState EXCEPT ![a] = obj'[a].state]
        /\ LAwsId' = [LAwsId EXCEPT ![a] = obj'[a].awsId]
        /\ LClaimLink' = [LClaimLink EXCEPT ![a] = obj'[a].claimLink]
        /\ LClaimed' = [LClaimed EXCEPT ![a] = obj'[a].claimed]
    BY <1>0, <2>1, Projection
  <2>3. CASE RequestDelete(a)
    <3>1. /\ LExists[a] /\ ~LDeleting[a]
          /\ LDeleting' = [LDeleting EXCEPT ![a] = TRUE]
          /\ UNCHANGED <<LState, LAwsId, LClaimLink, LClaimed>>
      <4>1. /\ obj[a].exists /\ ~obj[a].deleting
            /\ obj'[a].deleting = TRUE
            /\ obj'[a].state = obj[a].state /\ obj'[a].awsId = obj[a].awsId
            /\ obj'[a].claimLink = obj[a].claimLink /\ obj'[a].claimed = obj[a].claimed
        BY <1>0, <2>3 DEF RequestDelete, TypeOK, Object
      <4>2. LExists[a] /\ ~LDeleting[a]
        BY <4>1 DEF LExists, LDeleting
      <4>3. LDeleting' = [LDeleting EXCEPT ![a] = TRUE]
        BY <2>2, <4>1
      <4>4. /\ LState' = [LState EXCEPT ![a] = obj[a].state]
            /\ LAwsId' = [LAwsId EXCEPT ![a] = obj[a].awsId]
            /\ LClaimLink' = [LClaimLink EXCEPT ![a] = obj[a].claimLink]
            /\ LClaimed' = [LClaimed EXCEPT ![a] = obj[a].claimed]
        BY <2>2, <4>1
      <4>5. /\ obj[a].state = LState[a] /\ obj[a].awsId = LAwsId[a]
            /\ obj[a].claimLink = LClaimLink[a] /\ obj[a].claimed = LClaimed[a]
        BY DEF LState, LAwsId, LClaimLink, LClaimed
      <4>6. /\ [LState EXCEPT ![a] = LState[a]] = LState
            /\ [LAwsId EXCEPT ![a] = LAwsId[a]] = LAwsId
            /\ [LClaimLink EXCEPT ![a] = LClaimLink[a]] = LClaimLink
            /\ [LClaimed EXCEPT ![a] = LClaimed[a]] = LClaimed
        BY DEF LState, LAwsId, LClaimLink, LClaimed
      <4>7. UNCHANGED <<LState, LAwsId, LClaimLink, LClaimed>>
        BY <4>4, <4>5, <4>6
      <4> QED
        BY <4>2, <4>3, <4>7
    <3>2. LExists' \in {LExists, [LExists EXCEPT ![a] = FALSE]}
      <4>1. obj'[a].exists = obj[a].fin /\ obj[a].exists /\ obj[a].fin \in BOOLEAN
        BY <1>0, <2>3 DEF RequestDelete, TypeOK, Object
      <4>2. obj'[a].exists = TRUE \/ obj'[a].exists = FALSE
        BY <4>1, Zenon
      <4>3. [LExists EXCEPT ![a] = TRUE] = LExists
        <5>1. obj[a].exists = TRUE
          BY <4>1, Zenon
        <5> QED
          BY <1>0, <5>1 DEF TypeOK, LExists
      <4> QED
        BY <2>2, <4>2, <4>3
    <3> QED
      BY <3>1, <3>2 DEF Life!Next, Life!RequestDelete, LExists, LDeleting, LState,
                        LAwsId, LClaimLink, LClaimed
  <2>4. CASE BindClaimLink(a)
    <3>1. /\ LExists[a] /\ ~LDeleting[a] /\ a \notin BYOC
          /\ LState[a] = "Ready" /\ ~LClaimLink[a] /\ ~LClaimed[a]
          /\ LClaimLink' = [LClaimLink EXCEPT ![a] = TRUE]
          /\ UNCHANGED <<LExists, LDeleting, LState, LAwsId, LClaimed>>
      BY <1>0, <2>2, <2>4 DEF BindClaimLink, TypeOK, Object, LExists, LDeleting, LState,
                             LAwsId, LClaimLink, LClaimed
    <3> QED
      BY <3>1 DEF Life!Next, Life!BindClaimLink, LExists, LDeleting, LState,
                  LAwsId, LClaimLink, LClaimed
  <2>5. CASE MarkClaimed(a)
    <3>1. /\ LExists[a] /\ ~LDeleting[a] /\ a \notin BYOC
          /\ LState[a] = "Ready" /\ LClaimLink[a] /\ ~LClaimed[a]
          /\ LClaimed' = [LClaimed EXCEPT ![a] = TRUE]
          /\ UNCHANGED <<LExists, LDeleting, LState, LAwsId, LClaimLink>>
      BY <1>0, <2>2, <2>5 DEF MarkClaimed, TypeOK, Object, LExists, LDeleting, LState,
                             LAwsId, LClaimLink, LClaimed
    <3> QED
      BY <3>1 DEF Life!Next, Life!MarkClaimed, LExists, LDeleting, LState,
                  LAwsId, LClaimLink, LClaimed
  <2> QED
    BY <1>8, <2>3, <2>4, <2>5
<1>9. CASE RefreshBudget \/ UNCHANGED vars
  BY <1>9, NoObjectChange DEF RefreshBudget, vars
<1> QED
  BY <1>1, <1>2, <1>3, <1>4, <1>5, <1>6, <1>7, <1>8, <1>9
     DEF Next, Reconcile, Environment

\* The Account reconciler implements AccountLifecycle: however reconciles
\* interleave with the claim controller and deletion requests, conflict on
\* the resourceVersion, stop between two writes or re-read the object after
\* CreateAccount (lines 540-544 of account_controller_v2.go), every write
\* moves Status.State along an edge of the lifecycle, clears no field once
\* set, and removes only an object whose deletion was requested.
THEOREM Refinement == Spec => LifecycleRefinement
<1>1. Spec => []RInv
  BY InitRInv, NextRInv, PTL DEF Spec
<1>2. RInv /\ [Next]_vars => [Life!Next]_(Life!vars)
  BY NextRefines
<1> QED
  BY <1>1, <1>2, InitRefines, PTL DEF Spec, LifecycleRefinement, Life!Spec

-----------------------------------------------------------------------------
(* A consequence: Ready pool accounts stay Ready                           *)

\* In the lifecycle, only a BYOC account is set back to Creating, and only
\* an account being deleted is failed from Ready.
LEMMA LifePoolReady ==
    ASSUME [Life!Next]_(Life!vars), NEW a \in Accounts \ BYOC,
           LState[a] = "Ready", ~LDeleting[a]
    PROVE  LState'[a] = "Ready"
<1>1. CASE UNCHANGED Life!vars
  <2>1. LState' = LState
    BY <1>1 DEF Life!vars, LState
  <2> QED
    BY <2>1
<1>2. CASE Life!Next
  <2>1. PICK b \in Accounts :
          \/ Life!SetCreating(b) \/ Life!SetReady(b) \/ Life!SetFailed(b)
          \/ Life!SetAwsId(b) \/ Life!BindClaimLink(b) \/ Life!MarkClaimed(b)
          \/ Life!RequestDelete(b) \/ Life!Remove(b)
    BY <1>2 DEF Life!Next
  <2>2. CASE Life!SetCreating(b)
    <3>1. b # a
      BY <2>2 DEF Life!SetCreating, Life!CreatingFrom, LState, LClaimed
    <3> QED
      BY <2>2, <3>1 DEF Life!SetCreating, LState
  <2>3. CASE Life!SetReady(b)
    BY <2>3 DEF Life!SetReady, LState
  <2>4. CASE Life!SetFailed(b)
    <3>1. b # a
      BY <2>4 DEF Life!SetFailed, LState, LDeleting
    <3> QED
      BY <2>4, <3>1 DEF Life!SetFailed, LState
  <2>5. CASE \/ Life!SetAwsId(b) \/ Life!BindClaimLink(b) \/ Life!MarkClaimed(b)
             \/ Life!RequestDelete(b) \/ Life!Remove(b)
    <3>1. LState' = LState
      BY <2>5 DEF Life!SetAwsId, Life!BindClaimLink, Life!MarkClaimed,
                  Life!RequestDelete, Life!Remove, LState
    <3> QED
      BY <3>1
  <2> QED
    BY <2>1, <2>2, <2>3, <2>4, <2>5
<1> QED
  BY <1>1, <1>2

\* A pool account that is Ready and not being deleted stays Ready, however
\* stale the copy a reconciliation writes from: a corollary of Refinement,
\* since the lifecycle fails a Ready account only in the deletion branch
\* and sets Creating again only on a BYOC account.
THEOREM PoolReadyStable == Spec => PoolReadyIsStable
<1>1. Spec => []RInv
  BY InitRInv, NextRInv, PTL DEF Spec
<1>2. RInv /\ [Next]_vars
        => [\A a \in Accounts \ BYOC :
              obj[a].state = "Ready" /\ ~obj[a].deleting => obj'[a].state = "Ready"]_vars
  <2> SUFFICES ASSUME RInv, [Next]_vars, NEW a \in Accounts \ BYOC,
                      obj[a].state = "Ready", ~obj[a].deleting
               PROVE  obj'[a].state = "Ready"
    OBVIOUS
  <2>1. [Life!Next]_(Life!vars)
    BY NextRefines
  <2>2. LState[a] = "Ready" /\ ~LDeleting[a]
    BY DEF LState, LDeleting
  <2>3. LState'[a] = "Ready"
    BY <2>1, <2>2, LifePoolReady
  <2> QED
    BY <2>3 DEF LState
<1> QED
  BY <1>1, <1>2, PTL DEF Spec, PoolReadyIsStable

-----------------------------------------------------------------------------
(* A consequence: a Claimed pool account stays linked and Ready            *)

\* The proofs about the lifecycle, seen through the same mapping as Life.
LT == INSTANCE AccountLifecycleTheorems WITH
        exists <- [a \in Accounts |-> obj[a].exists],
        deleting <- [a \in Accounts |-> obj[a].deleting],
        state <- [a \in Accounts |-> obj[a].state],
        awsId <- [a \in Accounts |-> obj[a].awsId],
        claimLink <- [a \in Accounts |-> obj[a].claimLink],
        claimed <- [a \in Accounts |-> obj[a].claimed]

\* Life and LT are the same lifecycle under the same mapping.
LEMMA SameLifecycle == Life!Spec => LT!Spec
<1>1. Life!Init <=> LT!Init
  BY DEF Life!Init, LT!Init
<1>2. [Life!Next]_(Life!vars) <=> [LT!Next]_(LT!vars)
  BY DEF Life!Next, LT!Next, Life!vars, LT!vars,
         Life!SetCreating, LT!SetCreating, Life!CreatingFrom, LT!CreatingFrom,
         Life!SetReady, LT!SetReady, Life!SetFailed, LT!SetFailed,
         Life!SetAwsId, LT!SetAwsId, Life!BindClaimLink, LT!BindClaimLink,
         Life!MarkClaimed, LT!MarkClaimed, Life!RequestDelete, LT!RequestDelete,
         Life!Remove, LT!Remove
<1> QED
  BY <1>1, <1>2, PTL DEF Life!Spec, LT!Spec

\* ClaimedPoolAccountReady for every behaviour of the reconciler and the
\* claim controller: however reconciles that write whole status and spec
\* copies (Status().Update, r.Update) interleave with the claim controller,
\* a Claimed pool account keeps its claim link and stays Ready until its
\* deletion is requested.  The lifecycle keeps the property (ClaimedStable),
\* and the reconciler implements the lifecycle (Refinement).
THEOREM ClaimedReady == Spec => []ClaimedPoolAccountReady
<1>1. LT!ClaimedInv <=> ClaimedPoolAccountReady
  BY DEF LT!ClaimedInv, ClaimedPoolAccountReady
<1> QED
  BY Refinement, SameLifecycle, LT!ClaimedStable, <1>1, PTL DEF LifecycleRefinement

=============================================================================
