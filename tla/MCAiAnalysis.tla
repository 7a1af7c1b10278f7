---- MODULE MCAiAnalysis ----
(***************************************************************************)
(* A small instance of AiAnalysis: every way to set the number of retries, *)
(* a status of each kind, and a content for each check of the parser.      *)
(***************************************************************************)
EXTENDS AiAnalysis

Absent == [kind |-> "absent", n |-> 0]
Other == [kind |-> "other", n |-> 0]
Integer(i) == [kind |-> "integer", n |-> i]

Set(option, env) ==
    [maxRetries |-> option, envMaxRetries |-> env, validPayload |-> TRUE, hasKey |-> TRUE]
MCSettings ==
    {Set(o, e) : o \in {Absent, Integer(-1), Integer(0), Integer(3)},
                 e \in {Absent, Other, Integer(-1), Integer(1)}}
    \cup {[Set(Absent, Absent) EXCEPT !.validPayload = FALSE],
          [Set(Absent, Absent) EXCEPT !.hasKey = FALSE]}

MCStatuses == {200, 400, 429, 500, 503}

Good == [form |-> "object", keys |-> ExpectedKeys, bad |-> {}, for |-> 100, against |-> 0]
MCContents ==
    {Good,
     [Good EXCEPT !.form = "fenced"], [Good EXCEPT !.form = "broken"], [Good EXCEPT !.form = "other"],
     [Good EXCEPT !.keys = @ \cup {"winner"}], [Good EXCEPT !.keys = @ \ {"summary"}],
     [Good EXCEPT !.bad = {"forFeedback"}], [Good EXCEPT !.for = 101], [Good EXCEPT !.against = -1]}

====
