------------------------------ MODULE AcpPolicy ------------------------------
(***************************************************************************)
(* The pure ACP capability policy (engine/connection/exec/acp_policy.rs).  *)
(*                                                                         *)
(* A JSON value is abstracted to what the policy looks at: whether the     *)
(* bytes parse, whether the JSON-RPC marker is "2.0", the method name and  *)
(* the id.  A method name is split where strip_prefix splits it: "prefix"  *)
(* is the blocked family prefix the name starts with ("" when there is     *)
(* none) and "rest" is what follows.                                       *)
(***************************************************************************)

NoMethod == [prefix |-> "no method", rest |-> ""]
NoId == "no id"

\* A value that serde_json refuses, and one that is JSON but no call
\* (a response, a batch, an array, a scalar).
NotJson == [parses |-> FALSE, jsonrpc2 |-> FALSE, method |-> NoMethod, id |-> NoId]
NotACall == [parses |-> TRUE, jsonrpc2 |-> TRUE, method |-> NoMethod, id |-> NoId]

DefaultBlockedFamilies == {"terminal/", "fs/"}

----------------------------------------------------------------------------
\* MethodFamily::matches without the test for an empty operation name.
MatchesBarePrefix(family, method) == method.prefix = family

\* MethodFamily::matches: the prefix and at least one character after it.
Matches(family, method) == method.prefix = family /\ method.rest # ""

\* MethodDenylist::is_blocked over the default families.
IsBlocked(method) == \E family \in DefaultBlockedFamilies : Matches(family, method)

\* evaluate_agent_outbound_frame, when only a numeric or string id counts.
EvaluateNullIdAsNotification(message) ==
    IF message.parses /\ message.jsonrpc2 /\ IsBlocked(message.method)
    THEN IF message.id \in {NoId, "null"} THEN "BlockNotification" ELSE "BlockRequest"
    ELSE "Forward"

\* evaluate_agent_outbound_frame: everything that is not a well-formed call of
\* a blocked family is forwarded; an id, null included, makes the call a request.
Evaluate(message) ==
    IF message.parses /\ message.jsonrpc2 /\ message.method # NoMethod /\ IsBlocked(message.method)
    THEN IF message.id = NoId THEN "BlockNotification" ELSE "BlockRequest"
    ELSE "Forward"

\* build_method_blocked_error: the synthesized response carries the id of the
\* request and the line ending of its frame.
MethodBlockedError(message, ending) == [id |-> message.id, ending |-> ending]

=============================================================================
