------------------------------- MODULE Admission -------------------------------
(***************************************************************************)
(* What has to be true before a call is ordered: the environment and the   *)
(* published profile that Settings.from_env reads (settings.py), the       *)
(* commands that write and check them (cli.py), the server that takes its  *)
(* settings once, when it starts (server.py), its policy (Policy), and     *)
(* behind it the provider's own conditions, or the relay's: its token and  *)
(* its own policy (demo_relay.py).                                         *)
(*                                                                         *)
(* Endpoints, tokens and public URLs are model values and a scheme.  What  *)
(* becomes of an order is left to PhoneTasks and DemoMode; here one key is *)
(* submitted with payload after payload.  A failed order is told as        *)
(* provider_failed whatever failed; reply keeps the cause.                 *)
(***************************************************************************)
EXTENDS Policy, FiniteSets

CONSTANTS
    Environments,   \* the environments the server may be started in: provider, endpoint, token,
                    \* credentials, public_url, numbers (FREDO_ALLOWED_NUMBERS), and in_range,
                    \* whether every numeric setting parses and is in its range
    Payloads,       \* the payloads the host may submit
    Profiles,       \* the contents `demo configure` may be asked to publish
    Found,          \* the files that may be there to begin with
    Shipped,        \* the profile next to the code, read when the one in the cwd is not
    RelayToken,     \* the relay's FREDO_DEMO_ACCESS_TOKEN
    RelayNumbers,   \* the relay's FREDO_ALLOWED_NUMBERS
    Absent, Torn,   \* no profile; a profile truncated and not filled
    Down            \* no server

\* The five credentials the doctor asks for, of which place_call needs the first three.
Credentials == {"TWILIO_ACCOUNT_SID", "TWILIO_AUTH_TOKEN", "TWILIO_PHONE_NUMBER",
                "DEEPGRAM_API_KEY", "FREDO_ENDPOINT_SECRET"}

Profile == [endpoint : {None, "http", "https"}, token : {None, "short", "long", RelayToken}]

Environment == [provider : STRING \cup {None}, endpoint : {None, "http", "https"},
                token : {None, "short", "long", RelayToken}, credentials : SUBSET Credentials,
                public_url : {None, "http", "https"}, numbers : SUBSET Numbers,
                in_range : BOOLEAN]

\* All other payloads have the same key, in one spelling or another.
Keyless(p) == Blank(p.idempotency_key)

ASSUME AdmissionConstants ==
    /\ Profiles \subseteq Profile
    /\ Shipped \in Profile
    /\ Found \subseteq Profile \cup {Absent, Torn}
    /\ Environments \subseteq Environment
    /\ Payloads \subseteq Payload
    /\ \A p, q \in Payloads :
          Keyless(p) \/ Keyless(q) \/ Strip(p.idempotency_key) = Strip(q.idempotency_key)
    /\ RelayNumbers \in SUBSET Numbers /\ ListIsValid(RelayNumbers)

VARIABLES
    env,        \* the environment
    profile,    \* demo/profile.json in the working directory
    publishing, \* the runs of `demo configure` past their check: what each is to write, and
                \* whether it has opened, and so truncated, the file
    ready,      \* whether the doctor called env and profile ready, as they are
    server,     \* the settings of the running server, or Down
    row,        \* the task stored under the key, or None
    reply,      \* what the user was told last: is what, by whom, about which payload
    orders      \* the orders that reached a carrier

vars == <<env, profile, publishing, ready, server, row, reply, orders>>

Reply(code, by, p) == [is |-> code, by |-> by, given |-> p]

Init ==
    /\ env \in Environments
    /\ profile \in Found
    /\ publishing = {}
    /\ ready = FALSE
    /\ server = Down
    /\ row = None
    /\ reply = Reply("none", "nobody", None)
    /\ orders = {}

-------------------------------------------------------------------------------
(* Settings.from_env *)

DemoProfile == IF profile \in {Absent, Torn} THEN Shipped ELSE profile

Either(first, second) == IF first # None THEN first ELSE second

Endpoint == Either(env.endpoint, DemoProfile.endpoint)

Provider == Either(env.provider, IF Endpoint # None THEN "demo" ELSE "real")

Loads == env.in_range /\ Provider \in {"real", "mock", "demo"}

Settings == [provider |-> Provider, endpoint |-> Endpoint,
             token |-> Either(env.token, DemoProfile.token),
             credentials |-> env.credentials, public_url |-> env.public_url,
             numbers |-> env.numbers]

\* Mutant: a doctor that does not look at the public URL.
IsReady_NoUrl(s) ==
    CASE s.provider = "demo" -> s.endpoint # None /\ s.token # None
      [] s.provider = "mock" -> TRUE
      [] s.provider = "real" -> s.credentials = Credentials /\ s.numbers # {}

\* missing_for_real_call returns nothing.
IsReady(s) ==
    CASE s.provider = "demo" -> s.endpoint # None /\ s.token # None
      [] s.provider = "mock" -> TRUE
      [] s.provider = "real" ->
            s.credentials = Credentials /\ s.numbers # {} /\ s.public_url # None

-------------------------------------------------------------------------------
(* The commands *)

\* `demo configure` does not touch the file unless forced: it is active, or (an exception
\* nobody catches) it cannot be read.
Keeps ==
    /\ profile # Absent
    /\ profile = Torn \/ profile.endpoint # None \/ profile.token # None

ConfigureChecks(new, force) ==
    /\ new.endpoint = "https" /\ new.token \notin {None, "short"}
    /\ force \/ ~Keeps
    /\ publishing' = publishing \cup {[new |-> new, opened |-> FALSE]}
    /\ UNCHANGED <<env, profile, ready, server, row, reply, orders>>

\* The file may have changed since the check.
ConfigureOpens(run) ==
    /\ run \in publishing /\ ~run.opened
    /\ publishing' = (publishing \ {run}) \cup {[run EXCEPT !.opened = TRUE]}
    /\ profile' = Torn
    /\ ready' = FALSE
    /\ UNCHANGED <<env, server, row, reply, orders>>

\* Over what another run has written meanwhile, the file is torn where that was longer.
ConfigureFills(run) ==
    /\ run \in publishing /\ run.opened
    /\ publishing' = publishing \ {run}
    /\ profile' \in IF profile = Torn THEN {run.new} ELSE {run.new, Torn}
    /\ ready' = FALSE
    /\ UNCHANGED <<env, server, row, reply, orders>>

ConfigureDies(run) ==
    /\ run \in publishing
    /\ publishing' = publishing \ {run}
    /\ UNCHANGED <<env, profile, ready, server, row, reply, orders>>

Doctor ==
    /\ ready' = (Loads /\ IsReady(Settings))
    /\ UNCHANGED <<env, profile, publishing, server, row, reply, orders>>

\* The server loads its settings, its policy and its provider, or dies of an exception.
Serve ==
    /\ server = Down
    /\ Loads
    /\ ListIsValid(env.numbers)
    /\ Provider = "demo" => Endpoint # None
    /\ server' = Settings
    /\ UNCHANGED <<env, profile, publishing, ready, row, reply, orders>>

Exit ==
    /\ server # Down
    /\ server' = Down
    /\ reply' = Reply("none", "nobody", None)
    /\ UNCHANGED <<env, profile, publishing, ready, row, orders>>

-------------------------------------------------------------------------------
(* bond.create_phone_task *)

\* Mutant: the task reaches the relay with its flags written out as words.
Wire_Words(task) == [task EXCEPT !.consent_confirmed = "yes"]

\* task.as_dict(), as the relay gets it.
Wire(task) == task

\* The relay's guard and its own policy.
RelayVerdict(task) ==
    IF server.token # RelayToken THEN Refused("unauthorized")
    ELSE LET verdict == BuildTask(Wire(task), Allowed(RelayNumbers))
         IN  IF verdict.code = "ok" /\ ~Literally(verdict.task.confirmed)
             THEN Refused("confirmation_required") ELSE verdict

\* What place_call needs; its exception for a URL that is not https comes later, as it does for
\* anything the carrier's library raises.
CarrierVerdict(task) ==
    IF Credentials \ {"DEEPGRAM_API_KEY", "FREDO_ENDPOINT_SECRET"} \subseteq server.credentials
       /\ server.public_url # None
    THEN IF server.public_url = "https" THEN [code |-> "ok", task |-> task]
                                        ELSE Refused("not_https")
    ELSE Refused("not_configured")

\* provider.create_call(task).  The mock orders nothing.
Verdict(task) ==
    CASE server.provider = "demo" -> RelayVerdict(task)
      [] server.provider = "real" -> CarrierVerdict(task)
      [] server.provider = "mock" -> Refused("simulated")

\* The payload with its key in normal form
Keyed(p) == [p EXCEPT !.idempotency_key = Strip(@)]

\* A request that goes no further than the server: refused, previewed, replayed or a conflict.
Turned(p) ==
    LET built == BuildTask(Keyed(p), Allowed(server.numbers))
    IN  IF Keyless(p) THEN "idempotency_required"
        ELSE IF built.code # "ok" THEN built.code
        ELSE IF ~Literally(p.confirmed) THEN "needs_confirmation"
        ELSE IF row = None THEN "new"
        ELSE IF row = built.task THEN "replayed" ELSE "idempotency_conflict"

CreateTurned(p) ==
    /\ server # Down
    /\ Turned(p) # "new"
    /\ reply' = Reply(Turned(p), "server", p)
    /\ UNCHANGED <<env, profile, publishing, ready, server, row, orders>>

\* The task is stored, then ordered; an order that fails leaves its row.
CreateNew(p) ==
    /\ server # Down
    /\ Turned(p) = "new"
    /\ row' = BuildTask(Keyed(p), Allowed(server.numbers)).task
    /\ LET verdict == Verdict(row')
       IN  /\ reply' = Reply(verdict.code, "provider", p)
           /\ orders' = IF verdict.code = "ok"
                        THEN orders \cup {[given |-> p, task |-> verdict.task,
                                           through |-> server.provider]}
                        ELSE orders
    /\ UNCHANGED <<env, profile, publishing, ready, server>>

-------------------------------------------------------------------------------
Next ==
    \/ \E new \in Profiles, force \in BOOLEAN : ConfigureChecks(new, force)
    \/ \E run \in publishing : ConfigureOpens(run) \/ ConfigureFills(run) \/ ConfigureDies(run)
    \/ Doctor \/ Serve \/ Exit
    \/ \E p \in Payloads : CreateTurned(p) \/ CreateNew(p)

Spec == Init /\ [][Next]_vars

-------------------------------------------------------------------------------
(* Properties *)

Setting == [provider : {"real", "mock", "demo"}, endpoint : {None, "http", "https"},
            token : {None, "short", "long", RelayToken}, credentials : SUBSET Credentials,
            public_url : {None, "http", "https"}, numbers : {env.numbers}]

TypeOK ==
    /\ env \in Environments
    /\ profile \in Profiles \cup Found \cup {Torn}
    /\ publishing \subseteq [new : Profiles, opened : BOOLEAN]
    /\ ready \in BOOLEAN
    /\ server \in Setting \cup {Down}
    /\ row # None => IsE164(row.destination_phone)
    /\ reply.given \in Payloads \cup {None}
    /\ \A o \in orders : o.given \in Payloads /\ o.through \in {"real", "demo"}

\* What a payload means to whoever wrote it: its words, its digits, its language, and its time
\* zone to the letter.
Meaning(p) ==
    <<p.task_id.words, p.caller_identity.words, p.call_goal.words, Normal(p.destination_phone),
      Language(p), Timezone(p)>>

\* A key submitted again is replayed when it means the same and is a conflict when it does not,
\* however the number and the texts are spelled and whether the defaults are left out
\* (build_task's task, not the payload, is what store.reserve compares).
ReplaysWhatMeansTheSame ==
    /\ reply.is = "replayed" => Meaning(reply.given) = Meaning(row)
    /\ reply.is = "idempotency_conflict" => Meaning(reply.given) # Meaning(row)

\* Whichever way an order takes to a carrier, the host gave a literal consent and confirmation,
\* and the number is on the list of the operator who pays: of the server with credentials of its
\* own, of the relay in demo mode.
OnlyEnrolledIsOrdered ==
    \A o \in orders :
        /\ o.given.consent_confirmed = "true" /\ o.given.confirmed = "true"
        /\ o.task.destination_phone \in Allowed(IF o.through = "demo" THEN RelayNumbers
                                                                     ELSE env.numbers)

\* What the server's policy accepted the relay's accepts too and takes for the very same task,
\* unless the number is not on the relay's list: the second build_task changes nothing.
RelayAgreesWithServer ==
    /\ reply.by = "provider" /\ server.provider = "demo" =>
          reply.is \in {"ok", "unauthorized", "destination_not_allowed"}
    /\ \A o \in orders : o.task = row /\ Meaning(o.task) = Meaning(o.given)

\* A server started on the settings the doctor called ready never fails an order for want of a
\* setting: missing_for_real_call covers what the providers ask for themselves.
ReadyMeansConfigured ==
    ready /\ server = Settings => reply.is # "not_configured"
===============================================================================
