--------------------------- MODULE MCExecLifecycle ---------------------------
(***************************************************************************)
(* Small calls: execs that say nothing or use all four kinds of records,   *)
(* with exit codes at and beyond the edges of a process status, and hosts  *)
(* that send an initialize line and more, or an unfinished line.           *)
(***************************************************************************)
EXTENDS ExecLifecycle

CONSTANTS Execs, Hosts, Codes   \* which of the values below a run uses

Script ==
    [silent |-> <<>>,
     mixed  |-> <<"StdIn", "StdErr", "StdOut">>,
     echo   |-> <<"StdIn", "Console">>]

HostStream ==
    [initialize |-> <<"I", "NL", "x">>,
     unfinished |-> <<"I">>]

ExitCode == [ok |-> 0, one |-> 1, negative |-> -1, wide |-> 256]

ChosenScripts == {Script[e] : e \in Execs}
ChosenHosts == {HostStream[h] : h \in Hosts}
ChosenCodes == {ExitCode[c] : c \in Codes}

HostMessage(method, capabilities) ==
    [parses |-> TRUE, method |-> method, capabilities |-> capabilities]

\* "I" is an initialize request that offers terminal, "M" what is left of it.
DecodeHost(payload) ==
    CASE payload = <<"I">> -> HostMessage("initialize", {"terminal"})
      [] payload = <<"M">> -> HostMessage("initialize", NoCapabilities)
      [] OTHER -> [HostMessage("", NoCapabilities) EXCEPT !.parses = FALSE]

EncodeHost(message) == IF message.capabilities = NoCapabilities THEN <<"M">> ELSE <<"I">>

=============================================================================
