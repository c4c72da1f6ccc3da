-------------------------- MODULE Provisioning_proofs --------------------------
(***************************************************************************)
(* What the four provisioning operations keep true, for every set of       *)
(* calls, repositories, values, trees and times.  The invariants of the    *)
(* upload and of the tokens are those of the modules extended; those of    *)
(* the clone and of the identity are here.                                 *)
(***************************************************************************)
EXTENDS Provisioning, InstallationToken_proofs, CredentialUpload_proofs

----------------------------------------------------------------------------
(* Cloning.                                                                *)

\* A call whose git clone succeeded has the workspace for itself: git cloned into an
\* empty directory, and nothing empties it again.
VerifiesOwnClone ==
    \A c \in CloneCalls : cloneStep[c] \in {"cloned", "verify", "passed"} => OwnClone(c)

\* What a call's test has seen, or would see now, was there since its git clone.
SawInv ==
    \A c \in CloneCalls :
        cloneStep[c] = "passed" \/ (cloneStep[c] = "verify" /\ OnBranch(c)) => sawBranch[c]

KnownRepo == workspace.holds # "nothing" => workspace.repo \in Repos

CloneInv == CloneTypeOK /\ KnownRepo /\ VerifiesOwnClone /\ SawInv

LEMMA CloneInitInv == CloneInit => CloneInv
  BY DEF CloneInit, CloneInv, CloneTypeOK, KnownRepo, VerifiesOwnClone, SawInv, Empty, Workspaces

LEMMA ClonedIsWorkspace ==
  ASSUME NEW c \in CloneCalls, cloneRequest[c] \in CloneRequests
  PROVE  /\ Cloned(c) \in Workspaces /\ Cloned(c).holds = "clone" /\ Cloned(c).by = c
         /\ Cloned(c).repo = cloneRequest[c].repo /\ Cloned(c).repo \in Repos
  BY DEF Cloned, CloneRequests, Workspaces

LEMMA StartCloneInv == ASSUME NEW c \in CloneCalls, CloneInv, StartClone(c) PROVE CloneInv'
  <1>1. PICK request \in CloneRequests : cloneRequest' = [cloneRequest EXCEPT ![c] = request]
    BY DEF StartClone
  <1>2. CloneTypeOK'
    BY <1>1 DEF StartClone, CloneInv, CloneTypeOK
  <1>3. KnownRepo' /\ VerifiesOwnClone'
    BY <1>1 DEF StartClone, CloneInv, CloneTypeOK, KnownRepo, VerifiesOwnClone, OwnClone
  <1>4. SawInv'
    BY <1>1 DEF StartClone, CloneInv, CloneTypeOK, SawInv, OnBranch
  <1> QED  BY <1>2, <1>3, <1>4 DEF CloneInv

LEMMA RunCloneInv == ASSUME NEW c \in CloneCalls, CloneInv, RunClone(c) PROVE CloneInv'
  <1>1. cloneRequest[c] \in CloneRequests
    BY DEF RunClone, CloneInv, CloneTypeOK
  <1>2. /\ workspace' = Cloned(c) /\ workspace.holds = "nothing"
        /\ cloneStep' = [cloneStep EXCEPT ![c] = "cloned"]
        /\ UNCHANGED <<cloneRequest, cloneReport, sawBranch>>
    BY DEF RunClone, CanClone
  <1>3. CloneTypeOK'
    BY <1>1, <1>2, ClonedIsWorkspace DEF RunClone, CloneInv, CloneTypeOK
  <1>4. \A d \in CloneCalls : d # c => cloneStep'[d] \notin {"cloned", "verify", "passed"}
    BY <1>2 DEF CloneInv, CloneTypeOK, VerifiesOwnClone, OwnClone
  <1>5. cloneStep'[c] = "cloned"
    BY <1>2 DEF CloneInv, CloneTypeOK
  <1>6. KnownRepo' /\ VerifiesOwnClone'
    BY <1>1, <1>2, <1>4, ClonedIsWorkspace DEF KnownRepo, VerifiesOwnClone, OwnClone
  <1>7. SawInv'
    BY <1>4, <1>5 DEF SawInv
  <1> QED  BY <1>3, <1>6, <1>7 DEF CloneInv

\* The steps of one call that leave the workspace alone.
LEMMA QuietCallInv ==
  ASSUME NEW c \in CloneCalls, CloneInv,
         \/ CloneSucceeds(c) \/ TestBranch(c) \/ VerifyCheckedOutBranch(c) \/ VerifyFails(c)
         \/ RunCloneFails(c) /\ workspace' = workspace
  PROVE  CloneInv'
  <1> USE DEF CloneSucceeds, TestBranch, VerifyCheckedOutBranch, VerifyFails, RunCloneFails,
              FailClone
  <1>1. CloneTypeOK' /\ KnownRepo'
    BY DEF CloneInv, CloneTypeOK, KnownRepo, OnBranch
  <1>2. VerifiesOwnClone'
    BY DEF CloneInv, CloneTypeOK, VerifiesOwnClone, OwnClone
  <1>3. SawInv'
    BY DEF CloneInv, CloneTypeOK, SawInv, OnBranch
  <1> QED  BY <1>1, <1>2, <1>3 DEF CloneInv

LEMMA RunCloneFailsInv ==
  ASSUME NEW c \in CloneCalls, CloneInv, RunCloneFails(c) PROVE CloneInv'
  <1>1. cloneRequest[c] \in CloneRequests
    BY DEF RunCloneFails, CloneInv, CloneTypeOK
  <1>2. /\ cloneStep' = [cloneStep EXCEPT ![c] = "done"]
        /\ cloneReport' = [cloneReport EXCEPT ![c] = "failed"]
        /\ UNCHANGED <<cloneRequest, sawBranch>> /\ workspace' \in Leavings(c)
    BY DEF RunCloneFails, FailClone
  <1>3. \/ workspace' = workspace
        \/ workspace.holds = "nothing" /\ workspace' = [Cloned(c) EXCEPT !.holds = "part"]
    <2>1. CASE CanClone(c)
      BY <1>2, <2>1 DEF Leavings, CanClone
    <2>2. CASE ~CanClone(c)
      BY <1>2, <2>2 DEF Leavings
    <2> QED  BY <2>1, <2>2
  <1>4. CASE workspace' = workspace
    BY <1>4, QuietCallInv
  <1>5. CASE workspace.holds = "nothing" /\ workspace' = [Cloned(c) EXCEPT !.holds = "part"]
    <2>1. workspace' \in Workspaces /\ workspace'.repo \in Repos
      <3>1. /\ Cloned(c) \in Workspaces /\ Cloned(c).repo \in Repos
        BY <1>1, ClonedIsWorkspace
      <3>2. /\ [Cloned(c) EXCEPT !.holds = "part"] \in Workspaces
            /\ [Cloned(c) EXCEPT !.holds = "part"].repo = Cloned(c).repo
        BY <3>1 DEF Workspaces
      <3> QED  BY <1>5, <3>1, <3>2
    <2>2. \A d \in CloneCalls : cloneStep'[d] \notin {"cloned", "verify", "passed"}
      BY <1>2, <1>5 DEF CloneInv, CloneTypeOK, VerifiesOwnClone, OwnClone
    <2>3. CloneTypeOK' /\ KnownRepo'
      BY <1>1, <1>2, <2>1 DEF CloneInv, CloneTypeOK, KnownRepo
    <2> QED  BY <2>2, <2>3 DEF CloneInv, VerifiesOwnClone, SawInv
  <1> QED  BY <1>3, <1>4, <1>5

LEMMA CheckoutInv == CloneInv /\ CheckoutInContainer => CloneInv'
  <1> SUFFICES ASSUME CloneInv, CheckoutInContainer PROVE CloneInv'
    OBVIOUS
  <1>1. PICK head \in BranchesOf[workspace.repo] \cup {Detached} :
           /\ workspace' = [workspace EXCEPT !.head = head]
           /\ sawBranch' = [c \in CloneCalls |->
                               sawBranch[c] \/ (Verifying(c) /\ head = cloneRequest[c].branch)]
    BY DEF CheckoutInContainer
  <1>2. workspace \in Workspaces /\ workspace.repo \in Repos
    BY DEF CheckoutInContainer, CloneInv, CloneTypeOK, KnownRepo
  <1>3. head \in Branches \cup {Detached}
    BY <1>2, CloneAssumption
  <1>4. /\ workspace' \in Workspaces /\ workspace'.holds = workspace.holds
        /\ workspace'.by = workspace.by /\ workspace'.repo = workspace.repo
        /\ workspace'.head = head
    BY <1>1, <1>2, <1>3 DEF Workspaces
  <1>5. UNCHANGED <<cloneStep, cloneRequest, cloneReport>>
    BY DEF CheckoutInContainer
  <1>6. CloneTypeOK' /\ KnownRepo'
    <2>1. sawBranch' \in [CloneCalls -> BOOLEAN]
      BY <1>1 DEF CloneInv, CloneTypeOK
    <2> QED  BY <1>2, <1>4, <1>5, <2>1 DEF CloneInv, CloneTypeOK, KnownRepo
  <1>7. VerifiesOwnClone'
    BY <1>4, <1>5 DEF CloneInv, VerifiesOwnClone, OwnClone
  <1>8. SawInv'
    BY <1>1, <1>4, <1>5 DEF CloneInv, CloneTypeOK, SawInv, OnBranch, Verifying
  <1> QED  BY <1>6, <1>7, <1>8 DEF CloneInv

CloneAction == CheckoutInContainer \/ \E c \in CloneCalls : StartClone(c) \/ CloneStep(c)

LEMMA CloneStepInv == CloneInv /\ CloneAction => CloneInv'
  BY StartCloneInv, RunCloneInv, RunCloneFailsInv, QuietCallInv, CheckoutInv
  DEF CloneAction, CloneStep

LEMMA CloneUnchangedInv == CloneInv /\ UNCHANGED cloneVars => CloneInv'
  BY DEF cloneVars, CloneInv, CloneTypeOK, KnownRepo, VerifiesOwnClone, SawInv, OwnClone, OnBranch

\* Success is reported after the test, and the invariant tells of whose clone and that
\* the test has seen the branch.
LEMMA CloneReportStep ==
  ASSUME CloneInv, CloneAction, NEW c \in CloneCalls,
         cloneReport[c] # "cloned", cloneReport'[c] = "cloned"
  PROVE  OwnClone(c) /\ sawBranch[c]
  <1>1. cloneReport \in [CloneCalls -> {"none", "failed", "cloned"}]
    BY DEF CloneInv, CloneTypeOK
  <1>2. VerifyCheckedOutBranch(c)
    <2>1. PICK d \in CloneCalls : VerifyCheckedOutBranch(d)
      BY <1>1 DEF CloneAction, CheckoutInContainer, StartClone, CloneStep, RunClone,
                  CloneSucceeds, RunCloneFails, TestBranch, VerifyFails, FailClone
    <2>2. c = d
      BY <1>1, <2>1 DEF VerifyCheckedOutBranch
    <2> QED  BY <2>1, <2>2
  <1> QED
    BY <1>2 DEF VerifyCheckedOutBranch, CloneInv, VerifiesOwnClone, SawInv

----------------------------------------------------------------------------
(* The identity.                                                           *)

Untouched == containerIdentity = identityBefore

\* What has been read and set when the call is at each of its steps.
IdentityPhases ==
    /\ identityStep # "done" => identityReport = "none"
    /\ identityStep \in {"read name", "read email", "set name"} => Untouched
    /\ identityStep \in {"read name", "read email"} => ~Reported("user.email")
    /\ identityStep = "set name" => Reported("user.name")
    /\ identityStep = "set email" =>
          /\ Reported("user.email")
          /\ containerIdentity["user.email"] = identityBefore["user.email"]
          /\ containerIdentity["user.name"] =
                IF Reported("user.name") THEN readIdentity["user.name"]
                ELSE identityBefore["user.name"]

IdentityInv ==
    IdentityTypeOK /\ IdentityPhases /\ IdentityReportTrue /\ IdentityFailureIsPrefix

LEMMA NothingType ==
  /\ Nothing \in [Keys -> Values \cup {Unset}] /\ Nothing \in Identities
  /\ Nothing \in [Keys -> Values \cup {Unset, Blank}]
  /\ [key \in Keys |-> "image default"] \in Identities
  /\ Nothing["user.name"] = Unset /\ Nothing["user.email"] = Unset
  BY DEF Nothing, Identities, Keys

LEMMA IdentityInitInv == IdentityInit => IdentityInv
  <1> SUFFICES ASSUME IdentityInit PROVE IdentityInv
    OBVIOUS
  <1>1. /\ containerIdentity \in Identities /\ identityBefore = containerIdentity
        /\ identityStep = "idle" /\ hostIdentity = Nothing /\ readIdentity = Nothing
        /\ identityChanges = 0 /\ identityReport = "none"
    BY NothingType DEF IdentityInit
  <1>0. identityChanges \in 0..MaxIdentityChanges
    BY <1>1, IdentityAssumption
  <1>2. IdentityTypeOK
    BY <1>0, <1>1, NothingType DEF IdentityTypeOK
  <1>3. IdentityPhases
    BY <1>1 DEF IdentityPhases, Untouched
  <1>4. IdentityReportTrue /\ IdentityFailureIsPrefix
    BY <1>1 DEF IdentityReportTrue, IdentityFailureIsPrefix
  <1> QED  BY <1>2, <1>3, <1>4 DEF IdentityInv

LEMMA StartIdentityInv == IdentityInv /\ StartIdentity => IdentityInv'
  <1> SUFFICES ASSUME IdentityInv, StartIdentity PROVE IdentityInv'
    OBVIOUS
  <1>1. /\ identityBefore' = containerIdentity /\ UNCHANGED containerIdentity
        /\ identityStep' = "read name" /\ readIdentity' = Nothing
        /\ hostIdentity' \in [Keys -> Values \cup {Unset, Blank}]
        /\ identityChanges' = 0 /\ identityReport' = "none"
    BY DEF StartIdentity
  <1>0. identityChanges' \in 0..MaxIdentityChanges
    <2>1. identityChanges' = 0
      BY <1>1
    <2>2. MaxIdentityChanges \in Nat
      BY IdentityAssumption
    <2> QED  BY <2>1, <2>2
  <1>2. IdentityTypeOK'
    <2>1. containerIdentity' \in Identities /\ identityBefore' \in Identities
      BY <1>1 DEF IdentityInv, IdentityTypeOK
    <2> QED
      BY <1>0, <1>1, <2>1, NothingType DEF IdentityTypeOK
  <1>3. Untouched' /\ ~Reported("user.email")'
    BY <1>1, NothingType DEF Untouched, Reported
  <1>4. IdentityPhases'
    BY <1>1, <1>3 DEF IdentityPhases
  <1>5. IdentityReportTrue' /\ IdentityFailureIsPrefix'
    BY <1>1 DEF IdentityReportTrue, IdentityFailureIsPrefix
  <1> QED  BY <1>2, <1>4, <1>5 DEF IdentityInv

LEMMA HostIdentityChangesInv == IdentityInv /\ HostIdentityChanges => IdentityInv'
  <1> SUFFICES ASSUME IdentityInv, HostIdentityChanges PROVE IdentityInv'
    OBVIOUS
  <1>1. /\ UNCHANGED <<identityStep, readIdentity, containerIdentity, identityBefore,
                       identityReport>>
        /\ identityChanges' \in 0..MaxIdentityChanges
    <2>1. identityChanges \in 0..MaxIdentityChanges /\ MaxIdentityChanges \in Nat
      BY IdentityAssumption DEF IdentityInv, IdentityTypeOK
    <2>2. identityChanges < MaxIdentityChanges /\ identityChanges' = identityChanges + 1
      BY DEF HostIdentityChanges
    <2> QED  BY <2>1, <2>2 DEF HostIdentityChanges
  <1>2. hostIdentity' \in [Keys -> Values \cup {Unset, Blank}]
    BY DEF HostIdentityChanges, IdentityInv, IdentityTypeOK
  <1> QED
    BY <1>1, <1>2
    DEF IdentityInv, IdentityTypeOK, IdentityPhases, IdentityReportTrue,
        IdentityFailureIsPrefix, Untouched, Reported

LEMMA ReadResultsType ==
  ASSUME NEW key \in Keys PROVE ReadResults(key) \subseteq Values \cup {Unset}
  BY DEF ReadResults

LEMMA ReadNameInv == IdentityInv /\ ReadName => IdentityInv'
  <1> SUFFICES ASSUME IdentityInv, ReadName PROVE IdentityInv'
    OBVIOUS
  <1>1. PICK value \in Values \cup {Unset} :
           readIdentity' = [readIdentity EXCEPT !["user.name"] = value]
    BY ReadResultsType DEF ReadName, Keys
  <1>2. IdentityTypeOK'
    BY <1>1 DEF ReadName, IdentityInv, IdentityTypeOK, Keys
  <1>3. IdentityPhases'
    BY <1>1 DEF ReadName, IdentityInv, IdentityTypeOK, IdentityPhases, Untouched, Reported, Keys
  <1> QED
    BY <1>2, <1>3
    DEF ReadName, IdentityInv, IdentityPhases, IdentityReportTrue, IdentityFailureIsPrefix

LEMMA ReadEmailInv == IdentityInv /\ ReadEmail => IdentityInv'
  <1> SUFFICES ASSUME IdentityInv, ReadEmail PROVE IdentityInv'
    OBVIOUS
  <1>1. PICK value \in Values \cup {Unset} :
           readIdentity' = [readIdentity EXCEPT !["user.email"] = value]
    BY ReadResultsType DEF ReadEmail, Keys
  <1>2. /\ readIdentity' \in [Keys -> Values \cup {Unset}]
        /\ readIdentity'["user.name"] = readIdentity["user.name"]
    BY <1>1 DEF IdentityInv, IdentityTypeOK, Keys
  <1>3. /\ Untouched /\ identityReport = "none"
        /\ UNCHANGED <<hostIdentity, identityChanges, containerIdentity, identityBefore>>
    BY DEF ReadEmail, IdentityInv, IdentityPhases
  <1>4. CASE \A key \in Keys : ~Reported(key)'
    <2>1. identityStep' = "done" /\ identityReport' = "none configured"
      BY <1>4 DEF ReadEmail, Classify, Reported
    <2> QED
      BY <1>2, <1>3, <1>4, <2>1
      DEF IdentityInv, IdentityTypeOK, IdentityPhases, IdentityReportTrue,
          IdentityFailureIsPrefix, Untouched, Keys
  <1>5. CASE \E key \in Keys : Reported(key)'
    <2>1. /\ identityStep' = IF readIdentity["user.name"] # Unset THEN "set name" ELSE "set email"
          /\ identityReport' = "none"
      BY <1>3, <1>5 DEF ReadEmail, Classify, Reported
    <2>2. IdentityTypeOK'
      BY <1>2, <1>3, <2>1 DEF IdentityInv, IdentityTypeOK
    <2>3. IdentityPhases'
      BY <1>2, <1>3, <1>5, <2>1 DEF IdentityPhases, Untouched, Reported, Keys
    <2> QED
      BY <2>1, <2>2, <2>3 DEF IdentityInv, IdentityReportTrue, IdentityFailureIsPrefix
  <1> QED  BY <1>4, <1>5

\* What a command leaves in the container when it sets a key.
LEMMA SetKey ==
  ASSUME IdentityInv, NEW key \in Keys, Reported(key), Set(key)
  PROVE  /\ containerIdentity' \in Identities
         /\ containerIdentity'[key] = readIdentity[key]
         /\ \A other \in Keys \ {key} : containerIdentity'[other] = containerIdentity[other]
  BY DEF Set, IdentityInv, IdentityTypeOK, Identities

LEMMA SetNameInv == IdentityInv /\ SetName => IdentityInv'
  <1> SUFFICES ASSUME IdentityInv, SetName PROVE IdentityInv'
    OBVIOUS
  <1>1. /\ Untouched /\ Reported("user.name") /\ Set("user.name") /\ identityReport = "none"
        /\ UNCHANGED <<hostIdentity, identityChanges, readIdentity, identityBefore>>
    BY DEF SetName, IdentityInv, IdentityPhases
  <1>2. /\ containerIdentity' \in Identities
        /\ containerIdentity'["user.name"] = readIdentity["user.name"]
        /\ containerIdentity'["user.email"] = identityBefore["user.email"]
    BY <1>1, SetKey DEF Keys, Untouched
  <1>3. CASE Reported("user.email")
    <2>1. identityStep' = "set email" /\ identityReport' = "none"
      BY <1>1, <1>3 DEF SetName, Reported
    <2> QED
      BY <1>1, <1>2, <1>3, <2>1
      DEF IdentityInv, IdentityTypeOK, IdentityPhases, IdentityReportTrue,
          IdentityFailureIsPrefix, Reported
  <1>4. CASE ~Reported("user.email")
    <2>1. identityStep' = "done" /\ identityReport' = "partial"
      BY <1>1, <1>4 DEF SetName, Reported, Classify, Keys
    <2> QED
      BY <1>1, <1>2, <1>4, <2>1
      DEF IdentityInv, IdentityTypeOK, IdentityPhases, IdentityReportTrue,
          IdentityFailureIsPrefix, Reported, Keys
  <1> QED  BY <1>3, <1>4

LEMMA SetEmailInv == IdentityInv /\ SetEmail => IdentityInv'
  <1> SUFFICES ASSUME IdentityInv, SetEmail PROVE IdentityInv'
    OBVIOUS
  <1>1. /\ Reported("user.email") /\ Set("user.email") /\ identityStep' = "done"
        /\ identityReport' = Classify(readIdentity)
        /\ containerIdentity["user.name"] =
              IF Reported("user.name") THEN readIdentity["user.name"]
              ELSE identityBefore["user.name"]
        /\ UNCHANGED <<hostIdentity, identityChanges, readIdentity, identityBefore>>
    BY DEF SetEmail, IdentityInv, IdentityPhases
  <1>2. /\ containerIdentity' \in Identities
        /\ containerIdentity'["user.email"] = readIdentity["user.email"]
        /\ containerIdentity'["user.name"] = containerIdentity["user.name"]
    BY <1>1, SetKey DEF Keys
  <1>3. identityReport' = IF Reported("user.name") THEN "configured" ELSE "partial"
    BY <1>1 DEF Classify, Reported, Keys
  <1> QED
    BY <1>1, <1>2, <1>3
    DEF IdentityInv, IdentityTypeOK, IdentityPhases, IdentityReportTrue,
        IdentityFailureIsPrefix, Reported, Keys

LEMMA SetFailsInv == IdentityInv /\ SetFails => IdentityInv'
  <1> SUFFICES ASSUME IdentityInv, SetFails PROVE IdentityInv'
    OBVIOUS
  <1> DEFINE key == IF identityStep = "set name" THEN "user.name" ELSE "user.email"
  <1>1. /\ identityStep \in {"set name", "set email"} /\ key \in Keys /\ Reported(key)
        /\ Set(key) \/ UNCHANGED containerIdentity
        /\ identityStep' = "done" /\ identityReport' = "failed"
        /\ UNCHANGED <<hostIdentity, identityChanges, readIdentity, identityBefore>>
    BY DEF SetFails, IdentityInv, IdentityPhases, Keys
  <1>2. containerIdentity' \in Identities
    <2> HIDE DEF key
    <2> QED  BY <1>1, SetKey DEF IdentityInv, IdentityTypeOK
  <1>3. \A other \in Keys \ {key} : containerIdentity'[other] = containerIdentity[other]
    <2> HIDE DEF key
    <2> QED  BY <1>1, SetKey
  <1>4. \/ containerIdentity'[key] = readIdentity[key]
        \/ containerIdentity'[key] = containerIdentity[key]
    <2> HIDE DEF key
    <2> QED  BY <1>1, SetKey
  <1>5. IdentityFailureIsPrefix'
    <2>1. CASE identityStep = "set name"
      BY <1>1, <1>3, <2>1
      DEF IdentityInv, IdentityPhases, IdentityFailureIsPrefix, Untouched, Keys
    <2>2. CASE identityStep = "set email"
      BY <1>1, <1>3, <1>4, <2>2
      DEF IdentityInv, IdentityPhases, IdentityFailureIsPrefix, Reported, Keys
    <2> QED  BY <1>1, <2>1, <2>2
  <1> QED
    BY <1>1, <1>2, <1>5
    DEF IdentityInv, IdentityTypeOK, IdentityPhases, IdentityReportTrue

IdentityAction == StartIdentity \/ HostIdentityChanges \/ IdentityStep

LEMMA IdentityStepInv == IdentityInv /\ IdentityAction => IdentityInv'
  BY StartIdentityInv, HostIdentityChangesInv, ReadNameInv, ReadEmailInv, SetNameInv,
     SetEmailInv, SetFailsInv
  DEF IdentityAction, IdentityStep

LEMMA IdentityUnchangedInv == IdentityInv /\ UNCHANGED identityVars => IdentityInv'
  BY DEF identityVars, IdentityInv, IdentityTypeOK, IdentityPhases, IdentityReportTrue,
         IdentityFailureIsPrefix, Untouched, Reported

----------------------------------------------------------------------------
(* All of it.                                                              *)

CallsOK == operation \in Operations /\ calls \in 0..MaxCalls

ProvisioningInv == CallsOK /\ CloneInv /\ IdentityInv /\ UploadInv /\ TokenInv

LEMMA ProvisioningInitInv == Init => ProvisioningInv
  BY ProvisioningAssumption, CloneInitInv, IdentityInitInv, UploadInitInv, TokenInitInv
  DEF Init, ProvisioningInv, CallsOK

LEMMA CallsStep == CallsOK /\ (NewCall \/ SameCall) => CallsOK'
  BY ProvisioningAssumption DEF CallsOK, NewCall, SameCall

LEMMA ProvisioningStepInv == ProvisioningInv /\ [Next]_vars => ProvisioningInv'
  <1> SUFFICES ASSUME ProvisioningInv, [Next]_vars PROVE ProvisioningInv'
    OBVIOUS
  <1> USE DEF ProvisioningInv
  <1>1. CASE Clone
    <2>1. CloneAction /\ (NewCall \/ SameCall)
      BY <1>1 DEF Clone, CloneAction
    <2>2. UNCHANGED identityVars /\ UNCHANGED uploadVars /\ UNCHANGED tokenVars
      BY <1>1 DEF Clone
    <2> QED
      BY <2>1, <2>2, CloneStepInv, CallsStep, IdentityUnchangedInv, UploadUnchangedInv,
         TokenUnchangedInv
  <1>2. CASE ConfigureIdentity
    <2>1. IdentityAction /\ (NewCall \/ SameCall)
      BY <1>2 DEF ConfigureIdentity, IdentityAction
    <2>2. UNCHANGED cloneVars /\ UNCHANGED uploadVars /\ UNCHANGED tokenVars
      BY <1>2 DEF ConfigureIdentity
    <2> QED
      BY <2>1, <2>2, IdentityStepInv, CallsStep, CloneUnchangedInv, UploadUnchangedInv,
         TokenUnchangedInv
  <1>3. CASE UploadCredentials
    <2>1. (StartUpload \/ UploadHost \/ UploadStep) /\ (NewCall \/ SameCall)
      BY <1>3 DEF UploadCredentials
    <2>2. UNCHANGED cloneVars /\ UNCHANGED identityVars /\ UNCHANGED tokenVars
      BY <1>3 DEF UploadCredentials
    <2> QED
      BY <2>1, <2>2, UploadStepInv, CallsStep, CloneUnchangedInv, IdentityUnchangedInv,
         TokenUnchangedInv
  <1>4. CASE AcquireToken
    <2>1. (StartToken \/ TimePasses \/ TokenStep) /\ (NewCall \/ SameCall)
      BY <1>4 DEF AcquireToken
    <2>2. UNCHANGED cloneVars /\ UNCHANGED identityVars /\ UNCHANGED uploadVars
      BY <1>4 DEF AcquireToken
    <2> QED
      BY <2>1, <2>2, TokenStepInv, CallsStep, CloneUnchangedInv, IdentityUnchangedInv,
         UploadUnchangedInv
  <1>5. CASE UNCHANGED vars
    <2>1. /\ UNCHANGED cloneVars /\ UNCHANGED identityVars /\ UNCHANGED uploadVars
          /\ UNCHANGED tokenVars /\ SameCall
      BY <1>5 DEF vars, SameCall
    <2> QED
      BY <2>1, CallsStep, CloneUnchangedInv, IdentityUnchangedInv, UploadUnchangedInv,
         TokenUnchangedInv
  <1> QED  BY <1>1, <1>2, <1>3, <1>4, <1>5 DEF Next

\* The inductive invariant of the four operations of engine/connection/ and github/ that
\* prepare a container: what each call knows at each of its steps.
THEOREM ProvisioningInvariant == Spec => []ProvisioningInv
  BY ProvisioningInitInv, ProvisioningStepInv, PTL DEF Spec

\* Every variable keeps its type: no retry too many (github/mod.rs:104-116), no time outside
\* the clock.
THEOREM ProvisioningTypeCorrect == Spec => []TypeOK
  <1>1. ProvisioningInv => TypeOK
    BY DEF ProvisioningInv, CallsOK, CloneInv, IdentityInv, UploadInv, TokenInv, TypeOK
  <1> QED  BY <1>1, ProvisioningInvariant, PTL

\* The identity result names exactly what was set in the container
\* (engine/connection/git_identity/container_configurator.rs:56).
THEOREM IdentityReportIsTrue == Spec => []IdentityReportTrue
  <1>1. ProvisioningInv => IdentityReportTrue
    BY DEF ProvisioningInv, IdentityInv
  <1> QED  BY <1>1, ProvisioningInvariant, PTL

\* A failed identity call never leaves an address without the name it goes with
\* (container_configurator.rs:56, where `?` follows the name).
THEOREM IdentityFailureLeavesPrefix == Spec => []IdentityFailureIsPrefix
  <1>1. ProvisioningInv => IdentityFailureIsPrefix
    BY DEF ProvisioningInv, IdentityInv
  <1> QED  BY <1>1, ProvisioningInvariant, PTL

\* A failure on the host has sent nothing to the container
\* (engine/connection/upload_credentials/mod.rs:189, archive.rs:76).
THEOREM UploadIsAllOrNothing == Spec => []UploadAllOrNothing
  <1>1. ProvisioningInv => UploadAllOrNothing
    BY DEF ProvisioningInv, UploadInv
  <1> QED  BY <1>1, ProvisioningInvariant, PTL

\* An upload result names the directories the container got, whole as the
\* host has them (engine/connection/upload_credentials/mod.rs:189).
THEOREM UploadReportIsTrue == Spec => []UploadReportTrue
  <1>1. ProvisioningInv => UploadReportTrue
    BY DEF ProvisioningInv, UploadInv
  <1> QED  BY <1>1, ProvisioningInvariant, PTL

\* Archive and remaining work stay in the order of the walk.
LEMMA ArchiveOrderInvariant == Spec => []OrderInv
  <1>1. Init => OrderInv
    BY UploadInitOrder DEF Init
  <1>2. ProvisioningInv /\ OrderInv /\ [Next]_vars => OrderInv'
    <2> SUFFICES ASSUME ProvisioningInv, OrderInv, [Next]_vars PROVE OrderInv'
      OBVIOUS
    <2>1. CASE UNCHANGED uploadVars
      BY <2>1, UploadUnchangedOrder
    <2>2. CASE StartUpload \/ UploadHost \/ UploadStep
      BY <2>2, UploadStepOrder DEF ProvisioningInv
    <2> QED
      BY <2>1, <2>2 DEF Next, Clone, ConfigureIdentity, UploadCredentials, AcquireToken, vars
  <1> QED  BY <1>1, <1>2, ProvisioningInvariant, PTL DEF Spec

\* However the host changes while it is walked, the archive has each path once, a directory
\* before what is in it and entries by name: the depth-first walk of upload_credentials/archive.rs:16-97.
THEOREM ArchiveIsInOrder == Spec => []ArchiveInOrder
  <1>1. ProvisioningInv /\ OrderInv => ArchiveInOrder
    BY ArchiveFollowsOrder DEF ProvisioningInv
  <1> QED  BY <1>1, ProvisioningInvariant, ArchiveOrderInvariant, PTL

\* Up to its refresh time a token has the requested buffer left to live
\* (github/installation_token.rs:148).
THEOREM RefreshLeavesTheBuffer == Spec => []RefreshLeavesBuffer
  <1>1. ProvisioningInv => RefreshLeavesBuffer
    BY TokenInvImplies DEF ProvisioningInv
  <1> QED  BY <1>1, ProvisioningInvariant, PTL

\* A clone that reports success reports it of its own clone of the requested repository,
\* in which the requested branch was checked out at some moment since git clone was known
\* to have succeeded, whatever the container does between a command and the poll that
\* tells of it (engine/connection/repository_clone/mod.rs:39-135).
THEOREM CloneReportIsTrue == Spec => CloneReportTrue
  <1>1. ASSUME ProvisioningInv, [Next]_vars
        PROVE  [\A c \in CloneCalls :
                   cloneReport[c] # "cloned" /\ cloneReport'[c] = "cloned"
                       => OwnClone(c) /\ sawBranch[c]]_cloneVars
    <2>1. CASE CloneAction
      BY <1>1, <2>1, CloneReportStep DEF ProvisioningInv
    <2>2. CASE UNCHANGED cloneVars
      BY <2>2
    <2> QED
      BY <1>1, <2>1, <2>2
      DEF Next, Clone, CloneAction, ConfigureIdentity, UploadCredentials, AcquireToken, vars
  <1> QED  BY <1>1, ProvisioningInvariant, PTL DEF Spec, CloneReportTrue

=============================================================================
