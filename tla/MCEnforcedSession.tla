------------------------- MODULE MCEnforcedSession -------------------------
(***************************************************************************)
(* Small sessions: an agent that emits denied requests, permitted lines,   *)
(* denied notifications, a residue and an overflow, and hosts that send an *)
(* initialize line as long as the limit, an overlong line, two lines, an   *)
(* unfinished one.                                                         *)
(***************************************************************************)
EXTENDS EnforcedSession

CONSTANTS Agents, Hosts   \* which of the streams below a run uses

AgentStream ==
    [denied   |-> <<"q", "NL", "p", "NL">>,
     burst    |-> <<"q", "NL", "r", "CR", "NL">>,
     residue  |-> <<"n", "NL", "q">>,
     overflow |-> <<"p", "p", "p", "p", "q", "NL">>]

HostStream ==
    [initialize |-> <<"I", "CR", "NL", "x">>,
     overlong   |-> <<"x", "x", "x", "I", "NL">>,
     lines      |-> <<"I", "NL", "x", "NL">>,
     unfinished |-> <<"I">>]

AgentStreams == {AgentStream[a] : a \in Agents}
ChosenHosts == {HostStream[h] : h \in Hosts}

Call(prefix, rest, id) ==
    [parses |-> TRUE, jsonrpc2 |-> TRUE, method |-> [prefix |-> prefix, rest |-> rest], id |-> id]

Decode(payload) ==
    CASE payload = <<"q">> -> Call("terminal/", "create", "1")
      [] payload = <<"r">> -> Call("fs/", "read_text_file", "null")
      [] payload = <<"n">> -> Call("fs/", "write_text_file", NoId)
      [] payload = <<"p">> -> Call("", "session/update", NoId)
      [] OTHER -> NotJson

\* "I" is an initialize request that offers terminal and fs, "M" what is left
\* of it; "T" still offers fs.
HostMessage(method, capabilities) ==
    [parses |-> TRUE, method |-> method, capabilities |-> capabilities]

DecodeHost(payload) ==
    CASE payload = <<"I">> -> HostMessage("initialize", {"terminal", "fs"})
      [] payload = <<"T">> -> HostMessage("initialize", {"fs"})
      [] payload = <<"M">> -> HostMessage("initialize", NoCapabilities)
      [] payload = <<"x">> -> HostMessage("session/new", NoCapabilities)
      [] OTHER -> [HostMessage("", NoCapabilities) EXCEPT !.parses = FALSE]

EncodeHost(message) ==
    CASE message.capabilities = NoCapabilities -> <<"M">>
      [] message.capabilities = {"fs"} -> <<"T">>
      [] OTHER -> <<"I">>

=============================================================================
