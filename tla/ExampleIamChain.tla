--------------------------- MODULE ExampleIamChain ---------------------------
(***************************************************************************)
(* What createIAMUserV2 of account_controller_v2_example.go promises      *)
(* about the resources it creates in the customer's AWS account, whatever *)
(* the retries of Reconcile: the IAM user "example-user", then one access *)
(* key for it, then one EC2 instance, each created once and in that order. *)
(***************************************************************************)
EXTENDS Naturals

VARIABLES
    user,       \* the IAM user exists
    keys,       \* access keys created for it
    instances   \* EC2 instances launched

vars == <<user, keys, instances>>

Init == user = FALSE /\ keys = 0 /\ instances = 0

\* iam CreateUser of the fixed name "example-user".
CreateUser ==
    /\ ~user /\ user' = TRUE
    /\ UNCHANGED <<keys, instances>>

\* iam CreateAccessKey, for the user just created.
CreateAccessKey ==
    /\ user /\ keys = 0 /\ keys' = 1
    /\ UNCHANGED <<user, instances>>

\* ec2 RunInstances, once the key exists.
RunInstances ==
    /\ keys = 1 /\ instances = 0 /\ instances' = 1
    /\ UNCHANGED <<user, keys>>

Next == CreateUser \/ CreateAccessKey \/ RunInstances

Spec == Init /\ [][Next]_vars

=============================================================================
