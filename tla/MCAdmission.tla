------------------------------ MODULE MCAdmission ------------------------------
(* An instance of Admission for TLC: numbers at both limits of E.164 and in two spellings,  *)
(* payloads that differ from a good one in a field or two, and the settings that matter to   *)
(* each provider.                                                                            *)
EXTENDS Admission

CONSTANT token

\* n digits, the first of them d.
Number(d, n) == <<"+", d>> \o [i \in 1..(n - 1) |-> "0"]

\* "+1 (000) ...": the same number with separators.
Spread(number) == <<" ", "+", "-">> \o Tail(number) \o <<"-", " ">>

Shortest == Number("1", 8)
Longest  == Number("1", 15)
Local    == Number("2", 8)

Own == {Spread(Shortest), Longest, Local}

MCRelayNumbers == {Shortest, Spread(Longest)}

Good == [task_id |-> Text("dinner", FALSE), caller_identity |-> Text("Gab", FALSE),
         destination_phone |-> Shortest, call_goal |-> Text("table", FALSE),
         consent_confirmed |-> "true", language |-> None, timezone |-> None,
         idempotency_key |-> Text("key", FALSE), confirmed |-> "true"]

MCTimezones == {"Europe/Brussels", " Europe/Brussels", "null"}

MCPayloads ==
    {Good,
     [Good EXCEPT !.destination_phone = Spread(Shortest), !.language = "en"],
     [Good EXCEPT !.call_goal = Text("table", TRUE), !.task_id = Text("dinner", TRUE),
                  !.idempotency_key = Text("key", TRUE)]}
    \cup {[Good EXCEPT !.destination_phone = n] : n \in
             {None, <<" ", " ">>, <<"-">>, Longest, Local, Number("1", 7), Number("1", 16), Number("0", 9),
              <<"+", "1", "x">> \o Shortest}}
    \cup {[Good EXCEPT !.language = l] : l \in {"fr", "de", "null"}}
    \cup {[Good EXCEPT !.timezone = z] : z \in MCTimezones}
    \cup {[Good EXCEPT !.call_goal = t] : t \in {None, Text("", TRUE), Text("speech", FALSE)}}
    \cup {[Good EXCEPT !.consent_confirmed = f] : f \in {"yes", "false"}}
    \cup {[Good EXCEPT !.confirmed = f] : f \in {"yes", "false"}}
    \cup {[Good EXCEPT !.idempotency_key = Text("", TRUE)]}

Blanks == [endpoint |-> None, token |-> None]

MCProfiles == {[endpoint |-> e, token |-> t] : e \in {"http", "https"}, t \in {"short", token}}

MCFound == {Absent, Blanks, [endpoint |-> None, token |-> "long"],
            [endpoint |-> "https", token |-> "long"]}

\* Nothing is set.
Bare == [provider |-> None, endpoint |-> None, token |-> None, credentials |-> {},
         public_url |-> None, numbers |-> {}, in_range |-> TRUE]

Complete == [Bare EXCEPT !.credentials = Credentials, !.public_url = "https", !.numbers = Own]

\* The provider named or found out, and each need of a real call left out
Real == {Complete} \cup {[Complete EXCEPT !.provider = "real", !.credentials = @ \ x,
                                           !.public_url = u, !.numbers = n] :
            u \in {None, "http", "https"}, n \in {{}, Own},
            x \in {{}} \cup {{y} : y \in Credentials}}

Demo == {[Bare EXCEPT !.provider = p, !.endpoint = e, !.token = t, !.numbers = n] :
            p \in {None, "demo"}, e \in {None, "https"}, t \in {None, token}, n \in {{}, Own}}

Others == {[Bare EXCEPT !.provider = "mock", !.numbers = Own], [Bare EXCEPT !.provider = "other"],
           [Bare EXCEPT !.in_range = FALSE],
           [Bare EXCEPT !.numbers = {Number("1", 16)}], [Bare EXCEPT !.numbers = {Number("1", 7)}]}

MCEnvironments == Real \cup Demo \cup Others
===============================================================================
