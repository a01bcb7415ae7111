-------------------------------- MODULE Policy --------------------------------
(***************************************************************************)
(* build_task and normalize_phone (policy.py): which payload becomes a     *)
(* task, which is refused and with what code, and what the task says.      *)
(*                                                                         *)
(* A phone number is a sequence of characters: "+", digits, " " for        *)
(* whitespace, "-" for any other character that normalize_phone removes,   *)
(* "x" for the rest.  Any other text is told by its words and by whether   *)
(* it has spaces that strip() or split() take away.  A text that is absent *)
(* or no string is None.  A language or a timezone is None only when it is *)
(* absent, which has a default: the JSON null is a value of its own, and a *)
(* timezone is kept as it was written, which nothing checks or strips.     *)
(* "de" is any other language.                                             *)
(***************************************************************************)
EXTENDS Naturals, Sequences

CONSTANTS
    LongGoals,  \* the goals of more than 500 characters
    Timezones,  \* what a payload may name as its timezone, whatever JSON value it is
    None

Texts == [words : STRING, spaced : BOOLEAN]

Digit == {"0", "1", "2"}

Removed == {"-", " "}

Numbers == Seq(Digit \cup Removed \cup {"+", "x"})

\* What build_task reads of a payload, and of a task that reaches the relay
Payload == [task_id : Texts \cup {None}, caller_identity : Texts \cup {None},
            destination_phone : Numbers \cup {None}, call_goal : Texts \cup {None},
            consent_confirmed : {"true", "yes", "false"}, language : {"en", "fr", "de", "null", None},
            timezone : Timezones \cup {None},
            idempotency_key : Texts \cup {None}, confirmed : {"true", "yes", "false"}]

ASSUME PolicyConstants ==
    /\ None \notin Texts \cup Numbers \cup Payload
    /\ "Europe/Brussels" \in Timezones

Text(words, spaced) == [words |-> words, spaced |-> spaced]
Strip(text) == Text(text.words, FALSE)
Blank(text) == text = None \/ text.words = ""

\* What re.sub has kept of each beginning of the number.
Kept(number) ==
    LET kept[i \in 0..Len(number)] ==
            IF i = 0 THEN << >>
            ELSE IF number[i] \in Removed THEN kept[i - 1] ELSE Append(kept[i - 1], number[i])
    IN  kept

Normal(number) == Kept(number)[Len(number)]

IsE164(number) ==
    /\ Len(number) \in 9..16
    /\ number[1] = "+" /\ number[2] \in Digit \ {"0"}
    /\ \A i \in 3..Len(number) : number[i] \in Digit

Refused(code) == [code |-> code]

Missing(p) ==
    \/ Blank(p.task_id) \/ Blank(p.caller_identity) \/ Blank(p.call_goal)
    \/ p.destination_phone = None
    \/ \A i \in DOMAIN p.destination_phone : p.destination_phone[i] = " "

\* Mutant: whatever Python takes for true.
Literally_Truthy(flag) == flag # "false"

\* A flag is "true", the JSON true; "yes", some other value Python takes for true; or "false".
Literally(flag) == flag = "true"

AsFlag(holds) == IF holds THEN "true" ELSE "false"

Language(p) == IF p.language = None THEN "en" ELSE p.language
Timezone(p) == IF p.timezone = None THEN "Europe/Brussels" ELSE p.timezone

\* Mutant: a timezone that is left out is stored as left out.
TaskOf_NoTimezone(p) ==
    [task_id |-> Strip(p.task_id), caller_identity |-> Strip(p.caller_identity),
     destination_phone |-> Normal(p.destination_phone), call_goal |-> Strip(p.call_goal),
     consent_confirmed |-> "true", language |-> Language(p), timezone |-> p.timezone,
     idempotency_key |-> p.idempotency_key, confirmed |-> AsFlag(Literally(p.confirmed))]

\* Mutant: the destination is checked in its normal form and kept as it was written.
TaskOf_RawDestination(p) ==
    [p EXCEPT !.task_id = Strip(@), !.caller_identity = Strip(@), !.call_goal = Strip(@),
              !.language = Language(p), !.timezone = Timezone(p), !.confirmed = AsFlag(Literally(@)),
              !.consent_confirmed = "true"]

TaskOf(p) ==
    [task_id |-> Strip(p.task_id), caller_identity |-> Strip(p.caller_identity),
     destination_phone |-> Normal(p.destination_phone), call_goal |-> Strip(p.call_goal),
     consent_confirmed |-> "true", language |-> Language(p), timezone |-> Timezone(p),
     idempotency_key |-> p.idempotency_key, confirmed |-> AsFlag(Literally(p.confirmed))]

\* The checks in their order; allowed are the numbers of the policy.
BuildTask(p, allowed) ==
    IF Missing(p) THEN Refused("needs_input")
    ELSE IF ~IsE164(Normal(p.destination_phone)) THEN Refused("invalid_destination")
    ELSE IF Normal(p.destination_phone) \notin allowed THEN Refused("destination_not_allowed")
    ELSE IF ~Literally(p.consent_confirmed) THEN Refused("consent_required")
    ELSE IF Language(p) \notin {"en", "fr"} THEN Refused("invalid_language")
    ELSE IF p.call_goal.words \in LongGoals THEN Refused("invalid_goal")
    ELSE [code |-> "ok", task |-> TaskOf(p)]

\* Policy(...) normalizes the operator's list, and raises when an entry is no number.
ListIsValid(numbers) == \A n \in numbers : IsE164(Normal(n))
Allowed(numbers) == {Normal(n) : n \in numbers}
===============================================================================
