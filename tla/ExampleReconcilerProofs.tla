----------------------- MODULE ExampleReconcilerProofs -----------------------
(***************************************************************************)
(* Proofs about ExampleReconciler, for every bound MaxCreated.            *)
(***************************************************************************)
EXTENDS ExampleReconciler, TLAPS

\* The strengthening of IamChainRunsOnce: an access key exists only once
\* the user does, an instance only once a key does, and the two steps of
\* the chain after CreateUser are reached only right after a CreateUser
\* that created the user.
IInv ==
    /\ TypeOK
    /\ keys <= 1 /\ instances <= keys
    /\ ~user => keys = 0
    /\ pc \in {"CreateAccessKey", "RunInstances"} => user
    /\ pc = "CreateAccessKey" => keys = 0
    /\ pc = "RunInstances" => keys = 1 /\ instances = 0

\* The Boolean-valued variables, whose types Zenon proves.
Flags == {objExists, hasState, hasId, user} \subseteq BOOLEAN

\* Every initial state satisfies the strengthening.
LEMMA InitIInv == Init => IInv
<1> SUFFICES ASSUME Init PROVE IInv
  OBVIOUS
<1>1. Flags
  BY Zenon DEF Init, Flags
<1>2. /\ pc \in Steps /\ created \in 0..MaxCreated
      /\ keys \in Nat /\ instances \in Nat
  BY MaxCreatedAssumption DEF Init, Steps
<1>3. /\ keys <= 1 /\ instances <= keys
      /\ ~user => keys = 0
      /\ pc \in {"CreateAccessKey", "RunInstances"} => user
      /\ pc = "CreateAccessKey" => keys = 0
      /\ pc = "RunInstances" => keys = 1 /\ instances = 0
  BY DEF Init
<1> QED
  BY <1>1, <1>2, <1>3 DEF IInv, TypeOK, Flags

\* No step gives a flag a value that is not Boolean.
LEMMA NextFlags == Flags /\ [Next]_vars => Flags'
BY Zenon DEF Flags, Next, vars, Get, GetClient, Call, CreateAccount, Describe,
             AssumeRole, CreateUser, CreateAccessKey, RunInstances, Crash,
             DeleteObject, Goto

\* Every step keeps the strengthening: one step per action of Next, each
\* for the counters and pc, the flags being kept by NextFlags.
LEMMA NextIInv == IInv /\ [Next]_vars => IInv'
<1> SUFFICES ASSUME IInv, [Next]_vars PROVE IInv'
  OBVIOUS
<1>0. Flags'
  <2>1. Flags
    BY DEF IInv, TypeOK, Flags
  <2> QED
    BY <2>1, NextFlags
<1> DEFINE Rest ==
        /\ pc \in Steps /\ created \in 0..MaxCreated
        /\ keys \in Nat /\ instances \in Nat
        /\ keys <= 1 /\ instances <= keys
        /\ ~user => keys = 0
        /\ pc \in {"CreateAccessKey", "RunInstances"} => user
        /\ pc = "CreateAccessKey" => keys = 0
        /\ pc = "RunInstances" => keys = 1 /\ instances = 0
<1>h. Rest /\ MaxCreated \in Nat
  BY MaxCreatedAssumption DEF IInv, TypeOK
<1> SUFFICES Rest'
  BY <1>0 DEF IInv, TypeOK, Flags
<1> USE <1>h DEF Steps, Goto
<1>1. CASE Get
  BY <1>1 DEF Get
<1>2. CASE GetClient
  BY <1>2 DEF GetClient, Call
<1>3. CASE CreateAccount
  BY <1>3 DEF CreateAccount
<1>4. CASE Describe
  BY <1>4 DEF Describe, Call
<1>5. CASE AssumeRole
  BY <1>5 DEF AssumeRole, Call
\* A CreateUser that goes on creates the user, so there is no key yet.
<1>6. CASE CreateUser
  BY <1>6 DEF CreateUser
\* The key is created right after the user, so there is one key and no
\* instance when RunInstances is reached.
<1>7. CASE CreateAccessKey
  BY <1>7 DEF CreateAccessKey
<1>8. CASE RunInstances
  BY <1>8 DEF RunInstances
<1>9. CASE Crash
  BY <1>9 DEF Crash
<1>10. CASE DeleteObject
  BY <1>10 DEF DeleteObject
<1>11. CASE UNCHANGED vars
  BY <1>11 DEF vars
<1> QED
  BY <1>1, <1>2, <1>3, <1>4, <1>5, <1>6, <1>7, <1>8, <1>9, <1>10, <1>11 DEF Next

\* The IAM user's access key and the EC2 instance are created at most once
\* per account however often createIAMUserV2 is retried, for every bound:
\* the fixed user name makes every CreateUser after the first fail.
THEOREM IamChainOnce == Spec => []IamChainRunsOnce
<1>1. IInv => IamChainRunsOnce
  BY DEF IInv, TypeOK, IamChainRunsOnce
<1> QED
  BY InitIInv, NextIInv, <1>1, PTL DEF Spec

-----------------------------------------------------------------------------
(* The example reconciler implements ExampleIamChain                      *)

\* The initial state creates nothing.
LEMMA InitChain == Init => Chain!Init
BY DEF Init, Chain!Init

\* Under IInv every step is a step of the chain or leaves the user, the
\* keys and the instances alone: CreateUser creates the user only when it
\* does not exist, and the two later calls are reached only with the user
\* and no key, or with one key and no instance.
LEMMA NextChain == IInv /\ [Next]_vars => [Chain!Next]_(Chain!vars)
<1> SUFFICES ASSUME IInv, [Next]_vars PROVE [Chain!Next]_(Chain!vars)
  OBVIOUS
<1>1. CASE Get \/ GetClient \/ CreateAccount \/ Describe \/ AssumeRole
           \/ Crash \/ DeleteObject \/ UNCHANGED vars
  BY <1>1 DEF Get, GetClient, Call, CreateAccount, Describe, AssumeRole, Crash,
              DeleteObject, vars, Chain!vars
<1>2. CASE CreateUser
  <2>1. CASE UNCHANGED user
    BY <1>2, <2>1 DEF CreateUser, Chain!vars
  <2>2. CASE ~user /\ user' = TRUE
    BY <1>2, <2>2 DEF CreateUser, Chain!Next, Chain!CreateUser
  <2> QED
    BY <1>2, <2>1, <2>2 DEF CreateUser
<1>3. CASE CreateAccessKey
  <2>1. CASE UNCHANGED keys
    BY <1>3, <2>1 DEF CreateAccessKey, Chain!vars
  <2>2. CASE keys' = keys + 1
    <3>1. user /\ keys = 0
      BY <1>3 DEF CreateAccessKey, IInv
    <3> QED
      BY <1>3, <2>2, <3>1 DEF CreateAccessKey, Chain!Next, Chain!CreateAccessKey
  <2> QED
    BY <1>3, <2>1, <2>2 DEF CreateAccessKey
<1>4. CASE RunInstances
  <2>1. CASE UNCHANGED instances
    BY <1>4, <2>1 DEF RunInstances, Chain!vars
  <2>2. CASE instances' = instances + 1
    <3>1. keys = 1 /\ instances = 0
      BY <1>4 DEF RunInstances, IInv
    <3> QED
      BY <1>4, <2>2, <3>1 DEF RunInstances, Chain!Next, Chain!RunInstances
  <2> QED
    BY <1>4, <2>1, <2>2 DEF RunInstances
<1> QED
  BY <1>1, <1>2, <1>3, <1>4 DEF Next

\* IamChainRefinement for every bound MaxCreated: however Reconcile is
\* retried or stopped, createIAMUserV2 creates the user, then one access
\* key, then one EC2 instance, in that order and each once.
THEOREM ChainRefinement == Spec => IamChainRefinement
<1>1. Spec => []IInv
  BY InitIInv, NextIInv, PTL DEF Spec
<1> QED
  BY <1>1, InitChain, NextChain, PTL DEF Spec, IamChainRefinement, Chain!Spec

=============================================================================
