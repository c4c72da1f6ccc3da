----------------------------- MODULE Provisioning -----------------------------
(***************************************************************************)
(* The calls that prepare a sandbox container: cloning the repository,     *)
(* copying the git identity, uploading credentials, and acquiring          *)
(* installation tokens.  The library leaves their order and their number   *)
(* to the embedder, and none of them reads what another one writes: the    *)
(* workspace, the git configuration and the credential directories are     *)
(* different parts of the container.  So a behaviour here is that of an    *)
(* embedder repeating one operation, in a world that changes meanwhile;    *)
(* calls that clone may also overlap.                                      *)
(***************************************************************************)
EXTENDS RepositoryClone, GitIdentity, CredentialUpload, InstallationToken

CONSTANT MaxCalls   \* bound: how many calls the embedder makes

ASSUME ProvisioningAssumption == MaxCalls \in Nat

VARIABLES
    operation,   \* clone, identity, upload or token: what the embedder does
    calls        \* how many calls it has made

vars == <<operation, calls, cloneVars, identityVars, uploadVars, tokenVars>>

Operations == {"clone", "identity", "upload", "token"}

Init ==
    /\ operation \in Operations /\ calls = 0
    /\ CloneInit /\ IdentityInit /\ UploadInit /\ TokenInit

NewCall == calls < MaxCalls /\ calls' = calls + 1 /\ UNCHANGED operation
SameCall == UNCHANGED <<operation, calls>>

Clone ==
    /\ operation = "clone"
    /\ \/ (\E c \in CloneCalls : StartClone(c)) /\ NewCall
       \/ (CheckoutInContainer \/ \E c \in CloneCalls : CloneStep(c)) /\ SameCall
    /\ UNCHANGED <<identityVars, uploadVars, tokenVars>>

ConfigureIdentity ==
    /\ operation = "identity"
    /\ \/ StartIdentity /\ NewCall
       \/ (HostIdentityChanges \/ IdentityStep) /\ SameCall
    /\ UNCHANGED <<cloneVars, uploadVars, tokenVars>>

UploadCredentials ==
    /\ operation = "upload"
    /\ \/ StartUpload /\ NewCall
       \/ (UploadHost \/ UploadStep) /\ SameCall
    /\ UNCHANGED <<cloneVars, identityVars, tokenVars>>

AcquireToken ==
    /\ operation = "token"
    /\ \/ StartToken /\ NewCall
       \/ (TimePasses \/ TokenStep) /\ SameCall
    /\ UNCHANGED <<cloneVars, identityVars, uploadVars>>

Next == Clone \/ ConfigureIdentity \/ UploadCredentials \/ AcquireToken

Spec == Init /\ [][Next]_vars

TypeOK ==
    /\ operation \in Operations /\ calls \in 0..MaxCalls
    /\ CloneTypeOK /\ IdentityTypeOK /\ UploadTypeOK /\ TokenTypeOK

=============================================================================
