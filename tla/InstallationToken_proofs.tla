------------------------ MODULE InstallationToken_proofs ------------------------
(***************************************************************************)
(* What the acquisition of tokens keeps true, for every lifetime, buffer,  *)
(* clock and number of retries.                                            *)
(***************************************************************************)
EXTENDS InstallationToken, TLAPS

\* The call stamps itself before GitHub can issue the token, and asks with an empty cache:
\* so the issue lies between the stamp and the answer.
Stamped ==
    tokenStep = "request" => acquiredAt \in 0..now /\ cachedIssue = NoTime

\* The metadata of a token in the caller's hands is derived from the stamp of its call.
HeldMetadata ==
    held # NoToken =>
        /\ 0 <= held.acquiredAt /\ held.acquiredAt <= held.issuedAt
        /\ held.expiresAt = held.acquiredAt + Lifetime
        /\ held.refreshAfter = held.expiresAt - held.buffer
        /\ held.acquiredAt <= held.refreshAfter

TokenInv == TokenTypeOK /\ Stamped /\ HeldMetadata

\* The invariant implies the property.
LEMMA TokenInvImplies == TokenInv => RefreshLeavesBuffer
  <1> SUFFICES ASSUME TokenInv, held # NoToken
               PROVE  /\ held.refreshAfter + held.buffer <= held.issuedAt + Lifetime
                      /\ held.acquiredAt <= held.refreshAfter
    BY DEF RefreshLeavesBuffer
  <1>1. held.acquiredAt \in Int /\ held.issuedAt \in Int /\ held.buffer \in Int /\ Lifetime \in Int
    BY TokenAssumption DEF TokenInv, TokenTypeOK, Times, NoTime
  <1> QED  BY <1>1 DEF TokenInv, HeldMetadata

LEMMA TokenInitInv == TokenInit => TokenInv
  BY TokenAssumption
  DEF TokenInit, TokenInv, TokenTypeOK, Stamped, HeldMetadata, NoToken, Times, NoTime

LEMMA StartTokenInv == TokenInv /\ StartToken => TokenInv'
  BY TokenAssumption DEF StartToken, TokenInv, TokenTypeOK, Stamped, HeldMetadata, Times

LEMMA PrepareTokenInv == TokenInv /\ PrepareToken => TokenInv'
  BY TokenAssumption
  DEF PrepareToken, InstallationClient, FailToken,
      TokenInv, TokenTypeOK, Stamped, HeldMetadata, Times, NoTime

LEMMA PrepareFailsInv == TokenInv /\ PrepareFails => TokenInv'
  BY DEF PrepareFails, FailToken, TokenInv, TokenTypeOK, Stamped, HeldMetadata

LEMMA RequestTokenInv == TokenInv /\ RequestToken => TokenInv'
  <1> SUFFICES ASSUME TokenInv, RequestToken PROVE TokenInv'
    OBVIOUS
  <1>1. acquiredAt \in 0..now /\ now \in 0..MaxInstant /\ buffer \in Nat /\ Lifetime \in Nat
        /\ MaxInstant \in Nat
    BY TokenAssumption DEF TokenInv, TokenTypeOK, Stamped, RequestToken
  <1>2. PICK issue \in acquiredAt..now : cachedIssue' = issue /\ TakeToken(issue)
    BY DEF RequestToken, Issues, Fresh, TokenInv, Stamped
  <1>3. issue \in 0..MaxInstant /\ acquiredAt <= issue /\ issue \in Times
    BY <1>1, <1>2 DEF Times
  <1>4. TokenTypeOK'
    <2>1. CASE MetadataOK
      <3>1. ExpiresAt \in Times /\ RefreshAfter \in Times /\ acquiredAt \in Times
        BY <1>1, <2>1 DEF MetadataOK, ExpiresAt, RefreshAfter, Times
      <3> QED  BY <1>1, <1>2, <1>3, <2>1, <3>1 DEF TakeToken, TokenInv, TokenTypeOK
    <2>2. CASE ~MetadataOK
      BY <1>2, <1>3, <2>2 DEF TakeToken, FailToken, TokenInv, TokenTypeOK
    <2> QED  BY <2>1, <2>2
  <1>5. Stamped'
    BY <1>2 DEF TakeToken, FailToken, Stamped
  <1>6. HeldMetadata'
    <2>1. CASE MetadataOK
      <3>1. held' = [issuedAt |-> issue, buffer |-> buffer, acquiredAt |-> acquiredAt,
                     expiresAt |-> ExpiresAt, refreshAfter |-> RefreshAfter]
        BY <1>2, <2>1 DEF TakeToken
      <3>2. /\ 0 <= acquiredAt /\ acquiredAt <= issue
            /\ ExpiresAt = acquiredAt + Lifetime /\ RefreshAfter = ExpiresAt - buffer
            /\ acquiredAt <= RefreshAfter
        BY <1>1, <1>3, <2>1 DEF MetadataOK, ExpiresAt, RefreshAfter
      <3> QED  BY <3>1, <3>2 DEF HeldMetadata
    <2>2. CASE ~MetadataOK
      BY <1>2, <2>2 DEF TakeToken, TokenInv, HeldMetadata, NoToken
    <2> QED  BY <2>1, <2>2
  <1> QED  BY <1>4, <1>5, <1>6 DEF TokenInv

LEMMA RetryRequestInv == TokenInv /\ RetryRequest => TokenInv'
  BY TokenAssumption
  DEF RetryRequest, TokenInv, TokenTypeOK, Stamped, HeldMetadata, NoToken

LEMMA RequestFailsInv == TokenInv /\ RequestFails => TokenInv'
  BY DEF RequestFails, FailToken, TokenInv, TokenTypeOK, Stamped, HeldMetadata, NoToken

LEMMA TimePassesInv == TokenInv /\ TimePasses => TokenInv'
  BY TokenAssumption
  DEF TimePasses, TokenInv, TokenTypeOK, Stamped, HeldMetadata, NoToken

LEMMA TokenStepInv == TokenInv /\ (StartToken \/ TimePasses \/ TokenStep) => TokenInv'
  BY StartTokenInv, PrepareTokenInv, PrepareFailsInv, RequestTokenInv, RetryRequestInv,
     RequestFailsInv, TimePassesInv
  DEF TokenStep

LEMMA TokenUnchangedInv == TokenInv /\ UNCHANGED tokenVars => TokenInv'
  BY DEF tokenVars, TokenInv, TokenTypeOK, Stamped, HeldMetadata, NoToken

=============================================================================
