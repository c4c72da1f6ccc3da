----------------------------- MODULE GitIdentity -----------------------------
(***************************************************************************)
(* Copying the git identity of the host into a container                   *)
(* (api/configure_git_identity.rs, engine/connection/git_identity/).       *)
(*                                                                         *)
(* The call reads user.name and user.email from the host with one git      *)
(* process each, and sets what it found in the container with one exec     *)
(* each.  The host's configuration may change in between.  A value that is *)
(* absent or blank, and a git that cannot be run, all read as unset.       *)
(***************************************************************************)
EXTENDS Naturals

CONSTANTS
    Values,               \* values of user.name and user.email
    MaxIdentityChanges    \* bound: how often that of the host changes in a call

Keys == {"user.name", "user.email"}
Unset == "unset"
Blank == "blank"

ASSUME IdentityAssumption == {Unset, Blank} \cap Values = {} /\ MaxIdentityChanges \in Nat

VARIABLES
    identityStep,       \* idle, read name, read email, set name, set email or done
    hostIdentity,       \* the host's git configuration
    identityChanges,    \* how often it changed
    readIdentity,       \* HostGitIdentity, as far as it was read
    containerIdentity,  \* the container's global git configuration
    identityBefore,     \* what that was when the call began
    identityReport      \* none, failed, configured, partial or none configured

identityVars ==
    <<identityStep, hostIdentity, identityChanges, readIdentity, containerIdentity,
      identityBefore, identityReport>>

Nothing == [key \in Keys |-> Unset]

IdentityInit ==
    /\ identityStep = "idle"
    /\ hostIdentity = Nothing /\ identityChanges = 0
    /\ readIdentity = Nothing
    /\ containerIdentity \in {Nothing, [key \in Keys |-> "image default"]}
    /\ identityBefore = containerIdentity
    /\ identityReport = "none"

----------------------------------------------------------------------------
(* Reading the host, whose configuration may be anything when a call begins. *)

StartIdentity ==
    /\ identityStep \in {"idle", "done"}
    /\ identityStep' = "read name" /\ readIdentity' = Nothing
    /\ identityBefore' = containerIdentity /\ identityReport' = "none"
    /\ hostIdentity' \in [Keys -> Values \cup {Unset, Blank}] /\ identityChanges' = 0
    /\ UNCHANGED containerIdentity

\* git config --get: the value, unless it is blank or git fails.
ReadResults(key) == {Unset} \cup ({hostIdentity[key]} \cap Values)

ReadName ==
    /\ identityStep = "read name"
    /\ \E value \in ReadResults("user.name") :
          readIdentity' = [readIdentity EXCEPT !["user.name"] = value]
    /\ identityStep' = "read email"
    /\ UNCHANGED <<hostIdentity, identityChanges, containerIdentity, identityBefore>>
    /\ UNCHANGED identityReport

\* The second read, after which the identity is classified.
Classify(identity) ==
    IF \A key \in Keys : identity[key] = Unset THEN "none configured"
    ELSE IF \A key \in Keys : identity[key] # Unset THEN "configured" ELSE "partial"

ReadEmail ==
    /\ identityStep = "read email"
    /\ \E value \in ReadResults("user.email") :
          readIdentity' = [readIdentity EXCEPT !["user.email"] = value]
    /\ IF Classify(readIdentity') = "none configured"
       THEN identityStep' = "done" /\ identityReport' = "none configured"
       ELSE /\ identityStep' = IF readIdentity["user.name"] # Unset THEN "set name" ELSE "set email"
            /\ UNCHANGED identityReport
    /\ UNCHANGED <<hostIdentity, identityChanges, containerIdentity, identityBefore>>

----------------------------------------------------------------------------
(* Setting the container's configuration, with one exec for each value.    *)

Set(key) == containerIdentity' = [containerIdentity EXCEPT ![key] = readIdentity[key]]

SetName ==
    /\ identityStep = "set name"
    /\ Set("user.name")
    /\ IF readIdentity["user.email"] # Unset
       THEN identityStep' = "set email" /\ UNCHANGED identityReport
       ELSE identityStep' = "done" /\ identityReport' = Classify(readIdentity)
    /\ UNCHANGED <<hostIdentity, identityChanges, readIdentity, identityBefore>>

SetEmail ==
    /\ identityStep = "set email"
    /\ Set("user.email")
    /\ identityStep' = "done" /\ identityReport' = Classify(readIdentity)
    /\ UNCHANGED <<hostIdentity, identityChanges, readIdentity, identityBefore>>

\* A name that cannot be set does not stop the call.
SetFailsGoingOn ==
    /\ identityStep \in {"set name", "set email"}
    /\ UNCHANGED containerIdentity
    /\ IF identityStep = "set name" /\ readIdentity["user.email"] # Unset
       THEN identityStep' = "set email" /\ UNCHANGED identityReport
       ELSE identityStep' = "done" /\ identityReport' = "failed"
    /\ UNCHANGED <<hostIdentity, identityChanges, readIdentity, identityBefore>>

\* Both commands are run before either exit code is looked at.
SetFailsAfterBoth ==
    /\ identityStep \in {"set name", "set email"}
    /\ Set("user.email") \/ UNCHANGED containerIdentity
    /\ identityStep' = "done" /\ identityReport' = "failed"
    /\ UNCHANGED <<hostIdentity, identityChanges, readIdentity, identityBefore>>

\* A non-zero exit code, or an exec that fails before or after the command took effect.
SetFails ==
    /\ identityStep \in {"set name", "set email"}
    /\ LET key == IF identityStep = "set name" THEN "user.name" ELSE "user.email" IN
          Set(key) \/ UNCHANGED containerIdentity
    /\ identityStep' = "done" /\ identityReport' = "failed"
    /\ UNCHANGED <<hostIdentity, identityChanges, readIdentity, identityBefore>>

IdentityActive == identityStep \notin {"idle", "done"}

HostIdentityChanges ==
    /\ IdentityActive /\ identityChanges < MaxIdentityChanges
    /\ identityChanges' = identityChanges + 1
    /\ \E key \in Keys, value \in Values \cup {Unset} :
          hostIdentity' = [hostIdentity EXCEPT ![key] = value]
    /\ UNCHANGED <<identityStep, readIdentity, containerIdentity, identityBefore>>
    /\ UNCHANGED identityReport

IdentityStep == ReadName \/ ReadEmail \/ SetName \/ SetEmail \/ SetFails

----------------------------------------------------------------------------

Identities == [Keys -> Values \cup {Unset, Blank, "image default"}]

IdentityTypeOK ==
    /\ identityStep \in {"idle", "read name", "read email", "set name", "set email", "done"}
    /\ hostIdentity \in [Keys -> Values \cup {Unset, Blank}]
    /\ identityChanges \in 0..MaxIdentityChanges
    /\ readIdentity \in [Keys -> Values \cup {Unset}]
    /\ containerIdentity \in Identities /\ identityBefore \in Identities
    /\ identityReport \in {"none", "failed", "configured", "partial", "none configured"}

Reported(key) == readIdentity[key] # Unset

\* A call that returns a GitIdentityResult has set exactly the values it reports, has left
\* the other keys of the container as they were, and calls the result configured, partial
\* or none configured after the number of values set.
IdentityReportTrue ==
    identityReport \in {"configured", "partial", "none configured"} =>
        /\ \A key \in Keys :
              containerIdentity[key] =
                  IF Reported(key) THEN readIdentity[key] ELSE identityBefore[key]
        /\ identityReport = "configured" <=> \A key \in Keys : Reported(key)
        /\ identityReport = "none configured" <=> \A key \in Keys : ~Reported(key)

\* A failed call has set no more than a prefix: the e-mail address is touched only when
\* the name that was read is in place, so a container never gets an address without the
\* name it goes with (set_git_config of the name is followed by `?`).
IdentityFailureIsPrefix ==
    identityReport = "failed" =>
        \/ containerIdentity["user.email"] = identityBefore["user.email"]
        \/ /\ containerIdentity["user.email"] = readIdentity["user.email"]
           /\ Reported("user.name") =>
                 containerIdentity["user.name"] = readIdentity["user.name"]

=============================================================================
