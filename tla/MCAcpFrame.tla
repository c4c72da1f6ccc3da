----------------------------- MODULE MCAcpFrame -----------------------------
(***************************************************************************)
(* The assembler over every stream of at most MaxStreamBytes bytes and     *)
(* every way to cut it into chunks of at most MaxChunkBytes.               *)
(***************************************************************************)
EXTENDS AcpFrame

CONSTANT MaxStreamBytes

Streams == UNION {[1..n -> Byte] : n \in 0..MaxStreamBytes}

Call(prefix, rest, id) ==
    [parses |-> TRUE, jsonrpc2 |-> TRUE, method |-> [prefix |-> prefix, rest |-> rest], id |-> id]

\* What the payloads of the small instance mean. "t" and "f" are the bytes a
\* stream is made of; every other payload is not JSON.
Decode(payload) ==
    CASE payload = <<"t">> -> Call("terminal/", "create", "7")
      [] payload = <<"f">> -> Call("fs/", "read", NoId)
      [] payload = <<"t", "t">> -> Call("terminal/", "create", "null")
      [] payload = <<"t", "f">> -> Call("terminal/", "", "7")
      [] payload = <<"f", "t">> -> Call("", "terminalize", "7")
      [] payload = <<"f", "f">> -> [Call("fs/", "read", "7") EXCEPT !.jsonrpc2 = FALSE]
      [] payload = <<>> -> NotACall
      [] OTHER -> NotJson

\* The payloads the design document wants refused, each with the way it is
\* refused (docs/podbot-design.md:231-236): a method of a blocked family with a
\* non-empty operation, an error response when there is an id, null or not.
Refused == [payload \in {<<"t">>, <<"f">>, <<"t", "t">>} |->
               IF payload = <<"f">> THEN "BlockNotification" ELSE "BlockRequest"]

\* Until the fallback, a line is withheld from the host exactly when the design
\* document says so, whatever bytes and chunk boundaries surround it.
RefusedExactly ==
    \A k \in 1..Len(outputs) :
        LET payload == Payload(outputs[k].bytes) IN
        IsLine(outputs[k].bytes) /\ ~rawFallback =>
            outputs[k].kind = IF payload \in DOMAIN Refused THEN Refused[payload] ELSE "Forward"

=============================================================================
