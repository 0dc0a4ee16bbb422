------------------------------ MODULE MCCentre ------------------------------
(***************************************************************************)
(* UserAccounts and Deployment for TLC. The two share the account of the   *)
(* first administrator, which the seed of a deployment creates and with    *)
(* which the accounts begin, and nothing else: a behaviour is that of one  *)
(* of them, while the other stays as it began.                             *)
(***************************************************************************)
EXTENDS UserAccounts, Deployment, TLC

VARIABLE part  \* which of the two runs

centreVars == <<part, vars, deploymentVars>>

CentreInit ==
  /\ Init /\ DeploymentInit
  /\ part \in {"accounts", "deployment"}
  /\ part = "deployment" => created = 1

CentreNext ==
  /\ \/ part = "accounts" /\ Next /\ UNCHANGED deploymentVars
     \/ part = "deployment" /\ DeploymentNext /\ UNCHANGED vars
  /\ UNCHANGED part

CentreSpec == CentreInit /\ [][CentreNext]_centreVars

Symmetry == Permutations(People) \union Permutations(Names)
            \union Permutations(Requests)
=============================================================================
