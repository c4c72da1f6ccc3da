--------------------------- MODULE InstallationToken ---------------------------
(***************************************************************************)
(* Acquiring a GitHub App installation token                               *)
(* (github/installation_token.rs, github/mod.rs).                          *)
(*                                                                         *)
(* A token lives for a fixed time from the moment GitHub issues it.  That  *)
(* moment is not in the answer podbot uses: the call stamps the token with *)
(* a time of its own and derives expiry and refresh time from it.  Time    *)
(* passes while a request is under way, while the client waits to retry    *)
(* it, and between calls.                                                  *)
(*                                                                         *)
(* Octocrab keeps the token of an installation client and returns it again *)
(* while it lives longer than the buffer; podbot makes a fresh client for  *)
(* each call.  Podbot's clock and GitHub's are taken to agree.             *)
(***************************************************************************)
EXTENDS Integers

CONSTANTS
    Lifetime,        \* GITHUB_INSTALLATION_TOKEN_LIFETIME
    Buffers,         \* expiry buffers a caller asks for
    MaxBuffer,       \* the longest buffer that chrono can hold
    MaxInstant,      \* the last time that SystemTime can hold; the first is 0
    MaxRetries,      \* max_retries of the client's RetryConfig
    StartTimes       \* times at which the clock may start

NoTime == -1

ASSUME TokenAssumption ==
    /\ Lifetime \in Nat \ {0} /\ Buffers \subseteq Nat /\ MaxBuffer \in Nat
    /\ MaxInstant \in Nat /\ MaxRetries \in Nat /\ StartTimes \subseteq 0..MaxInstant

VARIABLES
    now,          \* the clock
    tokenStep,    \* idle, prepare, request or done
    buffer,       \* expiry_buffer
    acquiredAt,   \* the time the call stamped itself with
    retries,      \* how often the request was sent again
    cachedIssue,  \* when the token in the installation client's cache was issued
    tokenReport,  \* none, failed or acquired
    held          \* the token the caller got: when GitHub issued it, and its metadata

tokenVars ==
    <<now, tokenStep, buffer, acquiredAt, retries, cachedIssue, tokenReport, held>>

NoToken ==
    [issuedAt |-> NoTime, buffer |-> 0,
     acquiredAt |-> NoTime, expiresAt |-> NoTime, refreshAfter |-> NoTime]

TokenInit ==
    /\ now \in StartTimes
    /\ tokenStep = "idle" /\ buffer = 0 /\ acquiredAt = NoTime /\ retries = 0
    /\ cachedIssue = NoTime
    /\ tokenReport = "none" /\ held = NoToken

----------------------------------------------------------------------------

StartToken ==
    /\ tokenStep \in {"idle", "done"}
    /\ buffer' \in Buffers
    /\ tokenStep' = "prepare" /\ tokenReport' = "none" /\ retries' = 0
    /\ UNCHANGED <<now, acquiredAt, cachedIssue, held>>

FailToken == tokenStep' = "done" /\ tokenReport' = "failed"

\* One installation client for all calls.
SharedInstallationClient == UNCHANGED cachedIssue

\* installation(): a client of its own, with an empty cache.
InstallationClient == cachedIssue' = NoTime

PrepareToken ==
    /\ tokenStep = "prepare"
    /\ InstallationClient
    /\ acquiredAt' = now
    /\ IF buffer <= MaxBuffer
       THEN tokenStep' = "request" /\ UNCHANGED tokenReport
       ELSE FailToken
    /\ UNCHANGED <<now, buffer, retries, held>>

PrepareFails ==
    /\ tokenStep = "prepare"
    /\ FailToken
    /\ UNCHANGED <<now, buffer, acquiredAt, retries, cachedIssue, held>>

\* InstallationAccessToken::new and from_metadata.
ExpiresAt == acquiredAt + Lifetime
RefreshAfter == ExpiresAt - buffer

MetadataOK ==
    /\ ExpiresAt <= MaxInstant        \* no overflow
    /\ RefreshAfter >= 0              \* no underflow
    /\ RefreshAfter >= acquiredAt     \* refresh does not precede acquisition

\* The answer carries a token that GitHub issued at the given time.
TakeToken(issue) ==
    /\ IF MetadataOK
       THEN /\ tokenStep' = "done" /\ tokenReport' = "acquired"
            /\ held' = [issuedAt |-> issue, buffer |-> buffer, acquiredAt |-> acquiredAt,
                        expiresAt |-> ExpiresAt, refreshAfter |-> RefreshAfter]
       ELSE FailToken /\ UNCHANGED held
    /\ UNCHANGED <<now, buffer, acquiredAt, retries>>

\* A token of this client that lives longer than the buffer.
Fresh(issue) == issue # NoTime /\ now + buffer < issue + Lifetime

\* What is issued: the token of the cache, or one that GitHub issues some time after the
\* request and before its answer arrives.
Issues == IF Fresh(cachedIssue) THEN {cachedIssue} ELSE acquiredAt..now

RequestToken ==
    /\ tokenStep = "request"
    /\ \E issue \in Issues :
          /\ cachedIssue' = issue
          /\ TakeToken(issue)

\* One retry too many.
RetryRequestOnceMore ==
    /\ tokenStep = "request" /\ ~Fresh(cachedIssue) /\ retries <= MaxRetries
    /\ retries' = retries + 1
    /\ UNCHANGED <<now, tokenStep, buffer, acquiredAt, cachedIssue, tokenReport, held>>

\* A rate limit or a server error: the request is sent again later.
RetryRequest ==
    /\ tokenStep = "request" /\ ~Fresh(cachedIssue) /\ retries < MaxRetries
    /\ retries' = retries + 1
    /\ UNCHANGED <<now, tokenStep, buffer, acquiredAt, cachedIssue, tokenReport, held>>

RequestFails ==
    /\ tokenStep = "request" /\ ~Fresh(cachedIssue)
    /\ FailToken
    /\ UNCHANGED <<now, buffer, acquiredAt, retries, cachedIssue, held>>

TimePasses ==
    /\ now < MaxInstant
    /\ now' = now + 1
    /\ UNCHANGED <<tokenStep, buffer, acquiredAt, retries, cachedIssue, tokenReport, held>>

TokenStep ==
    \/ PrepareToken \/ PrepareFails
    \/ RequestToken \/ RetryRequest \/ RequestFails

----------------------------------------------------------------------------

Times == {NoTime} \cup 0..MaxInstant

TokenTypeOK ==
    /\ now \in 0..MaxInstant
    /\ tokenStep \in {"idle", "prepare", "request", "done"}
    /\ buffer \in Nat /\ acquiredAt \in Times /\ retries \in 0..MaxRetries
    /\ cachedIssue \in Times
    /\ tokenReport \in {"none", "failed", "acquired"}
    /\ held \in [issuedAt : Times, buffer : Nat, acquiredAt : Times,
                 expiresAt : Times, refreshAfter : Times]

\* Up to its refresh time, a token has at least the requested buffer left to live at GitHub,
\* however long the request took and however often it was repeated; and the refresh time
\* does not precede the acquisition (expires_at is documented as the conservative expiry).
RefreshLeavesBuffer ==
    held # NoToken =>
        /\ held.refreshAfter + held.buffer <= held.issuedAt + Lifetime
        /\ held.acquiredAt <= held.refreshAfter

=============================================================================
