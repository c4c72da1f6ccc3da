----------------------------- MODULE RequestValues -----------------------------
(***************************************************************************)
(* The values a caller hands over as strings, and the two places that      *)
(* judge them: podbot run (api/run.rs, api/mod.rs) and the clone of a      *)
(* repository (api/repository_clone.rs).  A string is a sequence of        *)
(* characters, of which only the slash and white space mean anything.      *)
(***************************************************************************)
EXTENDS Integers, Sequences

CONSTANT Letters   \* the other characters

Slash == "/"
Blank == " "

ASSUME LettersAssumption == {Slash, Blank} \cap Letters = {}

Characters == Letters \cup {Slash, Blank}
Strings == Seq(Characters)

\* The first and the last character that is no white space, of a string that has one.
Leading(s) == CHOOSE i \in DOMAIN s : s[i] # Blank /\ \A j \in 1..i - 1 : s[j] = Blank
Trailing(s) == CHOOSE i \in DOMAIN s : s[i] # Blank /\ \A j \in i + 1..Len(s) : s[j] = Blank

IsBlank(s) == \A i \in DOMAIN s : s[i] = Blank
Trim(s) == IF IsBlank(s) THEN <<>> ELSE SubSeq(s, Leading(s), Trailing(s))

Contains(s, character) == \E i \in DOMAIN s : s[i] = character
FirstSlash(s) == CHOOSE i \in DOMAIN s : s[i] = Slash /\ \A j \in 1..i - 1 : s[j] # Slash
BeforeSlash(s) == SubSeq(s, 1, FirstSlash(s) - 1)
AfterSlash(s) == SubSeq(s, FirstSlash(s) + 1, Len(s))

----------------------------------------------------------------------------
(* What a run takes.                                                       *)

\* RunRequest::new
IsRunRequest(repository, branch) == ~IsBlank(repository) /\ ~IsBlank(branch)

\* A segment may contain blanks.
IsRepositorySegmentLenient(segment) == segment # <<>>

IsRepositorySegment(segment) == segment # <<>> /\ ~Contains(segment, Blank)

IsOwnerRepositoryName(repository) ==
    /\ Contains(repository, Slash)
    /\ ~Contains(AfterSlash(repository), Slash)
    /\ IsRepositorySegment(BeforeSlash(repository))
    /\ IsRepositorySegment(AfterSlash(repository))

\* validate_run_request_for_agent
IsAgentRequest(repository, branch) ==
    IsOwnerRepositoryName(repository) /\ ~Contains(branch, Blank)

----------------------------------------------------------------------------
(* What a clone takes, and makes of it.                                    *)

HasInvalidSegments(owner, name) ==
    \/ owner = <<>> \/ name = <<>>
    \/ Contains(name, Slash)
    \/ owner # Trim(owner) \/ name # Trim(name)

\* RepositoryRef::parse
IsRepositoryRef(value) ==
    LET trimmed == Trim(value) IN
    /\ Contains(trimmed, Slash)
    /\ ~HasInvalidSegments(BeforeSlash(trimmed), AfterSlash(trimmed))

RepositoryRef(value) ==
    [owner |-> BeforeSlash(Trim(value)), name |-> AfterSlash(Trim(value))]

\* github_remote, without https://github.com/ and .git
GitHubRemote(ref) == ref.owner \o <<Slash>> \o ref.name

\* BranchName::parse
IsRequiredTrimmed(value) == Trim(value) # <<>>

=============================================================================
