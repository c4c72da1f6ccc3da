--------------------------- MODULE RepositoryClone ---------------------------
(***************************************************************************)
(* Cloning a repository into the workspace of a container                  *)
(* (engine/connection/repository_clone/mod.rs).                            *)
(*                                                                         *)
(* A call is two commands executed in the container one after the other:   *)
(* git clone, and a test of the branch that is checked out.  Each is a     *)
(* detached exec whose exit code is learned later, by polling, so much may *)
(* happen between what a command does or sees and the call's knowing it.   *)
(* Calls may overlap or follow a failed one; they share the workspace,     *)
(* which git refuses to clone into unless it is empty, and in which a      *)
(* process of the container may check out something else at any time.      *)
(*                                                                         *)
(* What git clone does counts as one step; nothing here empties the        *)
(* workspace.                                                              *)
(***************************************************************************)
EXTENDS Naturals

CONSTANTS
    CloneCalls,   \* the calls of clone_repository_into_workspace
    Repos,        \* the repositories, as owner and name
    Branches,     \* names of branches and tags
    BranchesOf,   \* the branches of each repository
    TagsOf        \* its tags: git clone --branch takes them too

NoRepo == "no repository"
Detached == "HEAD"
NoCall == "no call"

ASSUME CloneAssumption ==
    /\ NoRepo \notin Repos /\ Detached \notin Branches /\ NoCall \notin CloneCalls
    /\ BranchesOf \in [Repos -> SUBSET Branches]
    /\ TagsOf \in [Repos -> SUBSET Branches]

VARIABLES
    cloneStep,      \* of each call: idle, clone, cloned, verify, passed or done
    cloneRequest,   \* what it was asked for
    cloneReport,    \* none, failed or cloned
    workspace,      \* what the workspace holds: nothing, a part of a clone or a clone,
                    \* of which repository, with which HEAD, and put there by which call
    sawBranch       \* history: of each call, whether its branch was checked out at some
                    \* moment since its git clone was known to have succeeded

cloneVars == <<cloneStep, cloneRequest, cloneReport, workspace, sawBranch>>

CloneRequests == [repo : Repos, branch : Branches]
NoRequest == [repo |-> NoRepo, branch |-> Detached]
Workspaces ==
    [holds : {"nothing", "part", "clone"}, repo : Repos \cup {NoRepo},
     head : Branches \cup {Detached}, by : CloneCalls \cup {NoCall}]

Empty == [holds |-> "nothing", repo |-> NoRepo, head |-> Detached, by |-> NoCall]

\* What git clone leaves for a request: a branch is checked out, a tag is not.
Cloned(c) ==
    LET r == cloneRequest[c] IN
    [holds |-> "clone", repo |-> r.repo, by |-> c,
     head |-> IF r.branch \in BranchesOf[r.repo] THEN r.branch ELSE Detached]

RefExists(c) ==
    LET r == cloneRequest[c] IN r.branch \in BranchesOf[r.repo] \cup TagsOf[r.repo]

CanClone(c) == workspace.holds = "nothing" /\ RefExists(c)

CloneInit ==
    /\ cloneStep = [c \in CloneCalls |-> "idle"]
    /\ cloneRequest = [c \in CloneCalls |-> NoRequest]
    /\ cloneReport = [c \in CloneCalls |-> "none"]
    /\ workspace = Empty
    /\ sawBranch = [c \in CloneCalls |-> FALSE]

----------------------------------------------------------------------------

StartClone(c) ==
    /\ cloneStep[c] = "idle"
    /\ cloneStep' = [cloneStep EXCEPT ![c] = "clone"]
    /\ \E request \in CloneRequests : cloneRequest' = [cloneRequest EXCEPT ![c] = request]
    /\ UNCHANGED <<cloneReport, workspace, sawBranch>>

\* git clone ends with exit code 0, in the container.
RunClone(c) ==
    /\ cloneStep[c] = "clone" /\ CanClone(c)
    /\ workspace' = Cloned(c)
    /\ cloneStep' = [cloneStep EXCEPT ![c] = "cloned"]
    /\ UNCHANGED <<cloneRequest, cloneReport, sawBranch>>

\* The branch that the call wants is checked out.
OnBranch(c) == workspace.holds = "clone" /\ workspace.head = cloneRequest[c].branch

\* A poll tells the call so, and it goes on to the test.
CloneSucceeds(c) ==
    /\ cloneStep[c] = "cloned"
    /\ cloneStep' = [cloneStep EXCEPT ![c] = "verify"]
    /\ sawBranch' = [sawBranch EXCEPT ![c] = OnBranch(c)]
    /\ UNCHANGED <<cloneRequest, cloneReport, workspace>>

FailClone(c) ==
    /\ cloneStep' = [cloneStep EXCEPT ![c] = "done"]
    /\ cloneReport' = [cloneReport EXCEPT ![c] = "failed"]
    /\ UNCHANGED <<cloneRequest, sawBranch>>

\* What a git clone that failed, or whose exec did, may leave behind: nothing new, or a
\* part of the clone.
Leavings(c) ==
    {workspace} \cup (IF CanClone(c) THEN {[Cloned(c) EXCEPT !.holds = "part"]} ELSE {})

\* The exit code of git clone is ignored; the test is to decide.
RunCloneIgnored(c) ==
    /\ cloneStep[c] = "clone"
    /\ workspace' \in Leavings(c)
    /\ cloneStep' = [cloneStep EXCEPT ![c] = "cloned"]
    /\ UNCHANGED <<cloneRequest, cloneReport, sawBranch>>

\* git clone or its exec fails; once it has cloned, only its exit code is lost.
RunCloneFails(c) ==
    /\ cloneStep[c] \in {"clone", "cloned"}
    /\ workspace' \in Leavings(c)
    /\ FailClone(c)

\* test "$(git rev-parse --abbrev-ref HEAD)" = branch holds, in the container.
TestBranch(c) ==
    /\ cloneStep[c] = "verify" /\ OnBranch(c)
    /\ cloneStep' = [cloneStep EXCEPT ![c] = "passed"]
    /\ UNCHANGED <<cloneRequest, cloneReport, workspace, sawBranch>>

\* A poll finds exit code 0 of the test, whatever is checked out by then.
VerifyCheckedOutBranch(c) ==
    /\ cloneStep[c] = "passed"
    /\ cloneStep' = [cloneStep EXCEPT ![c] = "done"]
    /\ cloneReport' = [cloneReport EXCEPT ![c] = "cloned"]
    /\ UNCHANGED <<cloneRequest, workspace, sawBranch>>

\* Another branch is checked out, or the exec fails, perhaps after the test.
VerifyFails(c) ==
    /\ cloneStep[c] \in {"verify", "passed"}
    /\ FailClone(c)
    /\ UNCHANGED workspace

Verifying(c) == cloneStep[c] \in {"verify", "passed"}

\* A process of the container checks something else out.
CheckoutInContainer ==
    /\ workspace.holds = "clone"
    /\ \E head \in BranchesOf[workspace.repo] \cup {Detached} :
          /\ head # workspace.head
          /\ workspace' = [workspace EXCEPT !.head = head]
          /\ sawBranch' = [c \in CloneCalls |->
                              sawBranch[c] \/ (Verifying(c) /\ head = cloneRequest[c].branch)]
    /\ UNCHANGED <<cloneStep, cloneRequest, cloneReport>>

CloneStep(c) ==
    \/ RunClone(c) \/ CloneSucceeds(c) \/ RunCloneFails(c)
    \/ TestBranch(c) \/ VerifyCheckedOutBranch(c) \/ VerifyFails(c)

----------------------------------------------------------------------------

CloneTypeOK ==
    /\ cloneStep \in [CloneCalls -> {"idle", "clone", "cloned", "verify", "passed", "done"}]
    /\ cloneRequest \in [CloneCalls -> CloneRequests \cup {NoRequest}]
    /\ \A c \in CloneCalls : cloneStep[c] # "idle" => cloneRequest[c] \in CloneRequests
    /\ cloneReport \in [CloneCalls -> {"none", "failed", "cloned"}]
    /\ workspace \in Workspaces
    /\ sawBranch \in [CloneCalls -> BOOLEAN]

OwnClone(c) ==
    workspace.holds = "clone" /\ workspace.by = c /\ workspace.repo = cloneRequest[c].repo

\* A call that reports success reports it of its own clone: at that moment the workspace
\* holds the requested repository, put there by this call and not by an earlier, failed or
\* overlapping one, and the branch it reports has been checked out in it at some moment
\* since git clone was known to have succeeded, though perhaps not any more
\* (clone_repository_into_workspace returns the branch that its test saw).
CloneReportTrue ==
    [][\A c \in CloneCalls :
          cloneReport[c] # "cloned" /\ cloneReport'[c] = "cloned" =>
              OwnClone(c) /\ sawBranch[c]]_cloneVars

=============================================================================
