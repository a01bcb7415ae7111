------------------------------- MODULE DemoMode -------------------------------
(***************************************************************************)
(* Demo mode: MCP servers without provider credentials place their calls   *)
(* through the operator's relay.  A task has a row in the server's own     *)
(* store (server.py, through DemoProvider in providers.py) and one in the  *)
(* relay's (demo_relay.py), and the carrier has its own view of the call.  *)
(*                                                                         *)
(* The server gives up on a request after 15 seconds; the relay's handler  *)
(* goes on.  The relay's process is the callback runtime as well: status   *)
(* webhooks and media sessions write its rows behind its handlers.  Server *)
(* and relay each make one step per await, as in PhoneTasks; errors of the *)
(* stores are left to PhoneTasks.                                          *)
(*                                                                         *)
(* A key is submitted from one store only, and that store replays it       *)
(* itself, so the relay never sees a key twice: its rows, and the call ids *)
(* it hands out, are named by the key.  A server's row that is not         *)
(* terminal has its provider id exactly when it is no longer "confirmed";  *)
(* the relay's may lose it to a stale webhook.                             *)
(***************************************************************************)
EXTENDS TaskModel, Integers

CONSTANTS
    Servers,    \* MCP servers, each with a store of its own
    Keys,       \* idempotency keys
    ServerOf,   \* the server each key is submitted to
    Slots,      \* the requests the relay can have open at once (bounds them)
    Endings,    \* the ways the carrier may end a call nobody answered
    Answering,  \* the keys whose callee may pick up
    Cancelling, \* the keys whose host may cancel
    MaxMishaps, \* how much may go wrong in all (bounds mishaps)
    None

Status == TaskState \cup {"absent"}

\* row: the status the handler read.  said: the carrier's answer.
Request == [op : {"create", "status", "cancel"}, key : Keys,
            at : {"sent", "dialing", "looking", "answered", "hanging", "hungup"},
            row : Status, said : CarrierStatus \cup {"none"}]

\* The relay's row, and whether it names the carrier's call (provider_call_id).
Row == [status : Status, named : BOOLEAN]

\* A webhook that has read the row: the status it is about to write, over which row.
Hook == [key : Keys, status : TaskState, named : BOOLEAN]

ASSUME DemoConstants ==
    /\ ServerOf \in [Keys -> Servers]
    /\ Endings \subseteq UnansweredEndings
    /\ Answering \subseteq Keys /\ Cancelling \subseteq Keys
    /\ MaxMishaps \in Nat
    /\ None \notin Slots /\ None \notin Request

VARIABLES
    local,      \* the status column of the server's row for each key
    waits,      \* the request each server awaits
    request,    \* the open requests, with what their handler at the relay holds
    relay,      \* the relay's row for each key
    hooks,      \* status webhooks at the relay, awaiting request.form()
    media,      \* the media session of each key's call at the relay
    call,       \* the carrier's view of the call placed for each key
    mishaps,    \* how often a server gave up or died, the relay died, the carrier's answer to an
                \* order was lost, or a webhook was late or had to wait for its form
    freed       \* history, for OneCallUnlessFreed: the keys whose row became terminal while
                \* their call was up

vars == <<local, waits, request, relay, hooks, media, call, mishaps, freed>>
serverVars == <<local, waits>>

Init ==
    /\ local = [k \in Keys |-> "absent"]
    /\ waits = [p \in Servers |-> None]
    /\ request = [s \in Slots |-> None]
    /\ relay = [k \in Keys |-> [status |-> "absent", named |-> FALSE]]
    /\ hooks = {}
    /\ media = [k \in Keys |-> "none"]
    /\ call = [k \in Keys |-> "none"]
    /\ mishaps = 0
    /\ freed = {}

Active(status) == status \notin TERMINAL_STATES \cup {"absent"}
Live(k) == call[k] \in CarrierLive
Up(k) == Live(k) \/ call[k] = "ordered"
Accepted(k) == call[k] \in CarrierStatus
AtRelay(s, at) == request[s] # None /\ request[s].at = at
Open(s) == waits[ServerOf[request[s].key]] = s     \* somebody still waits for its answer
Mishap == mishaps < MaxMishaps /\ mishaps' = mishaps + 1
Free == {s \in Slots : request[s] = None}

-------------------------------------------------------------------------------
(* The server *)

\* Sends a request, in whichever slot is free: slots are told apart by nothing else.
Send(p, op, k) ==
    /\ waits[p] = None
    /\ ServerOf[k] = p
    /\ Free # {}
    /\ LET s == CHOOSE s \in Free : TRUE
       IN  /\ waits' = [waits EXCEPT ![p] = s]
           /\ request' = [request EXCEPT ![s] = [op |-> op, key |-> k, at |-> "sent",
                                                 row |-> "absent", said |-> "none"]]

\* create_phone_task: reserved in the server's store, then ordered from the relay.
CreateTask(p, k) ==
    /\ local[k] = "absent"
    /\ \A j \in Keys : ServerOf[j] = p => ~Active(local[j])
    /\ Send(p, "create", k)
    /\ local' = [local EXCEPT ![k] = "confirmed"]
    /\ UNCHANGED <<relay, hooks, media, call, mishaps, freed>>

PollTask(p, k) ==
    /\ Active(local[k]) /\ local[k] # "confirmed"
    /\ Send(p, "status", k)
    /\ UNCHANGED <<local, relay, hooks, media, call, mishaps, freed>>

\* cancel_phone_task: the relay is asked if it is known to have the call; if the row has no
\* provider id the cancellation is recorded at once.
CancelTask(p, k) ==
    /\ Active(local[k]) /\ k \in Cancelling
    /\ \/ /\ local[k] # "confirmed"
          /\ Send(p, "cancel", k)
          /\ UNCHANGED local
       \/ /\ local[k] = "confirmed"
          /\ waits[p] = None /\ ServerOf[k] = p
          /\ local' = [local EXCEPT ![k] = "cancelled"]
          /\ UNCHANGED <<waits, request>>
    /\ UNCHANGED <<relay, hooks, media, call, mishaps, freed>>

\* Mutant: a table that does not know the relay's spelling of no-answer.
RelayNames_CarrierSpelling == {"dialing", "in_progress", "completed", "cancelled", "failed"}

\* The entries of _refresh_provider_status's table that are names the relay uses.
RelayNames == {"dialing", "in_progress", "completed", "no_answer", "cancelled", "failed"}

\* What the server records when its request r failed, and when it was answered with a row of
\* that status.
Failed(r) == IF r.op = "create" THEN "failed" ELSE local[r.key]

Answered(r, status) ==
    CASE r.op = "create" -> "dialing"
      [] r.op = "status" -> IF status \in RelayNames THEN status ELSE local[r.key]
      [] r.op = "cancel" -> "cancelled"

\* The server is done with the request it awaits and records that status.
Records(s, status) ==
    LET k == request[s].key
    IN  /\ local' = [local EXCEPT ![k] = status]
        /\ waits' = [waits EXCEPT ![ServerOf[k]] = None]

\* The server gives up on its request: it could not be sent, or no answer came in time.  Its
\* handler, if the relay has it or gets it yet, goes on and answers nobody.
GiveUp(p) ==
    \E s \in Slots :
        /\ Mishap
        /\ waits[p] = s
        /\ Records(s, Failed(request[s]))
        /\ \/ UNCHANGED request
           \/ AtRelay(s, "sent") /\ request' = [request EXCEPT ![s] = None]
        /\ UNCHANGED <<relay, hooks, media, call, freed>>

\* The server dies and is started again; its store is as it was.
ServerCrash(p) ==
    /\ Mishap
    /\ waits[p] # None
    /\ waits' = [waits EXCEPT ![p] = None]
    /\ UNCHANGED <<local, request, relay, hooks, media, call, freed>>

-------------------------------------------------------------------------------
(* The relay *)

Goes(s, at) == request' = [request EXCEPT ![s].at = at]

\* The request r, with what its handler holds now.
Holding(r, at, row, said) == [op |-> r.op, key |-> r.key, at |-> at, row |-> row, said |-> said]

\* The handler of s ends with that answer.  An answer on its way is read by nobody but the
\* server that waits for it, so its arrival is one step with its sending: an answer that is
\* late or lost is one to a server that has given up.
Replies(s, status) ==
    /\ request' = [request EXCEPT ![s] = None]
    /\ IF Open(s) THEN Records(s, status) ELSE UNCHANGED serverVars

Answers(s, row) == Replies(s, Answered(request[s], row))
Refuses(s)      == Replies(s, Failed(request[s]))

\* The row of key k becomes what some handler, webhook or session holds of it.
Writes(k, status, named) ==
    /\ relay' = [relay EXCEPT ![k] = [status |-> status, named |-> named]]
    /\ freed' = IF Up(k) /\ ~Active(status) THEN freed \cup {k} ELSE freed

\* Mutant: a reservation whose call is not placed yet is no reason to refuse another.
RelayIsIdle_ConfirmedIgnored ==
    \A k \in Keys : Active(relay[k].status) => relay[k].status = "confirmed"

RelayIsIdle == \A k \in Keys : ~Active(relay[k].status)

\* create_call: the row is reserved and the order goes out before the first await.
RelayReserve(s) ==
    /\ AtRelay(s, "sent") /\ request[s].op = "create"
    /\ \/ /\ RelayIsIdle
          /\ Writes(request[s].key, "confirmed", FALSE)
          /\ call' = [call EXCEPT ![request[s].key] = "ordered"]
          /\ Goes(s, "dialing")
          /\ UNCHANGED serverVars
       \/ /\ ~RelayIsIdle
          /\ Refuses(s)
          /\ UNCHANGED <<relay, call, freed>>
    /\ UNCHANGED <<hooks, media, mishaps>>

\* The carrier took the order and its answer arrived.
RelayRecords(s) ==
    /\ AtRelay(s, "dialing") /\ Accepted(request[s].key)
    /\ Writes(request[s].key, "dialing", TRUE)
    /\ Answers(s, "dialing")
    /\ UNCHANGED <<hooks, media, call, mishaps>>

\* The order raised: the carrier refused it, or its answer was lost and it may have been, or
\* may yet be, taken.  The relay records FAILED and answers 502.
RelayRejects(s) ==
    /\ AtRelay(s, "dialing")
    /\ \/ call[request[s].key] = "refused" /\ UNCHANGED mishaps
       \/ Mishap
    /\ Writes(request[s].key, "failed", FALSE)
    /\ Refuses(s)
    /\ UNCHANGED <<hooks, media, call>>

\* get_call: the carrier is asked unless the row is terminal or does not name its call.
RelayStatus(s) ==
    /\ AtRelay(s, "sent") /\ request[s].op = "status"
    /\ LET row == relay[request[s].key]
       IN  IF Active(row.status) /\ row.named
           THEN request' = [request EXCEPT ![s] =
                                Holding(request[s], "looking", row.status, "none")]
                /\ UNCHANGED serverVars
           ELSE Answers(s, row.status)
    /\ UNCHANGED <<relay, hooks, media, call, mishaps, freed>>

LookupAnswers(s) ==
    /\ AtRelay(s, "looking")
    /\ request' = [request EXCEPT ![s] =
          Holding(request[s], "answered", request[s].row, call[request[s].key])]
    /\ UNCHANGED <<serverVars, relay, hooks, media, call, mishaps, freed>>

LookupFails(s) ==
    /\ AtRelay(s, "looking")
    /\ Answers(s, request[s].row)
    /\ UNCHANGED <<relay, hooks, media, call, mishaps, freed>>

\* Mutant: the carrier's word goes into the row as it is.
RelayApplies_Unmapped(s) ==
    /\ AtRelay(s, "answered")
    /\ Writes(request[s].key, request[s].said, TRUE)
    /\ Answers(s, request[s].row)
    /\ UNCHANGED <<hooks, media, call, mishaps>>

\* The object read before the lookup is written back with the carrier's word, if that is new.
RelayApplies(s) ==
    /\ AtRelay(s, "answered")
    /\ LET status == MapStatus(request[s].said)
       IN  /\ Answers(s, status)
           /\ IF status # request[s].row
              THEN Writes(request[s].key, status, TRUE)
              ELSE UNCHANGED <<relay, freed>>
    /\ UNCHANGED <<hooks, media, call, mishaps>>

\* Mutant: the relay records the cancellation and leaves the call alone.
RelayCancel_NoHangup(s) ==
    /\ AtRelay(s, "sent") /\ request[s].op = "cancel"
    /\ Goes(s, "hungup")
    /\ UNCHANGED <<serverVars, relay, hooks, media, call, mishaps, freed>>

\* cancel_call: a terminal row is answered as it is, a row that names its call has it hung up
\* first, and one that does not is CANCELLED at once.
RelayCancel(s) ==
    /\ AtRelay(s, "sent") /\ request[s].op = "cancel"
    /\ LET row == relay[request[s].key]
       IN  \/ ~Active(row.status) /\ Answers(s, row.status) /\ UNCHANGED <<relay, freed>>
           \/ /\ Active(row.status) /\ row.named
              /\ Goes(s, "hanging")
              /\ UNCHANGED <<serverVars, relay, freed>>
           \/ /\ Active(row.status) /\ ~row.named
              /\ Writes(request[s].key, "cancelled", FALSE)
              /\ Answers(s, "cancelled")
    /\ UNCHANGED <<hooks, media, call, mishaps>>

HangUp(k) ==
    \/ call[k] = "ringing" /\ \E e \in {"completed", "canceled"} : call' = [call EXCEPT ![k] = e]
    \/ call[k] = "in-progress" /\ call' = [call EXCEPT ![k] = "completed"]
    \/ ~Live(k) /\ UNCHANGED call

RelayHangsUp(s) ==
    /\ AtRelay(s, "hanging")
    /\ HangUp(request[s].key)
    /\ Goes(s, "hungup")
    /\ UNCHANGED <<serverVars, relay, hooks, media, mishaps, freed>>

\* The carrier does not answer, whether it hung up or not: cancel_call raises, the row stays.
HangupFails(s) ==
    /\ AtRelay(s, "hanging")
    /\ HangUp(request[s].key) \/ UNCHANGED call
    /\ Refuses(s)
    /\ UNCHANGED <<relay, hooks, media, mishaps, freed>>

RelayCancels(s) ==
    /\ AtRelay(s, "hungup")
    /\ Writes(request[s].key, "cancelled", TRUE)
    /\ Answers(s, "cancelled")
    /\ UNCHANGED <<hooks, media, call, mishaps>>

-------------------------------------------------------------------------------
(* The callback runtime in the relay's process (demo_relay.py:70) *)

\* The statuses the carrier has posted of the call of k.
Posted(k) ==
    IF Accepted(k)
    THEN {"ringing", call[k]} \cup (IF media[k] # "none" THEN {"in-progress"} ELSE {})
    ELSE {}

\* POST /twilio/status, prompt and with its form at hand: the call's status is written over a
\* row that is not terminal.
HookAtOnce(k) ==
    /\ Active(relay[k].status) /\ Accepted(k)
    /\ Writes(k, MapStatus(call[k]), relay[k].named)
    /\ UNCHANGED <<serverVars, request, hooks, media, call, mishaps>>

\* A webhook that comes late, twice, out of order or in parts: the row is read, then the form
\* awaited.  (Over a terminal row nothing will be written, so nothing is kept of it.)
HookReceive(k) ==
    /\ Active(relay[k].status)
    /\ Mishap
    /\ \E s \in Posted(k) :
          hooks' = hooks \cup {[key |-> k, status |-> MapStatus(s), named |-> relay[k].named]}
    /\ UNCHANGED <<serverVars, request, relay, media, call, freed>>

\* The object read then is written back with the posted status.
HookApply(h) ==
    /\ hooks' = hooks \ {h}
    /\ Writes(h.key, h.status, h.named)
    /\ UNCHANGED <<serverVars, request, media, call, mishaps>>

\* /twilio/media, on "start": read, changed and written with no await between.
MediaStart(k) ==
    /\ media[k] = "connected"
    /\ media' = [media EXCEPT ![k] = "open"]
    /\ Writes(k, "in_progress", TRUE)
    /\ UNCHANGED <<serverVars, request, hooks, call, mishaps>>

\* on_outcome, when finish_demo is handled: the last words and the hang-up are still to come.
OnOutcome(k) ==
    /\ media[k] = "open"
    /\ media' = [media EXCEPT ![k] = "told"]
    /\ Writes(k, "completed", TRUE)
    /\ UNCHANGED <<serverVars, request, hooks, call, mishaps>>

\* The relay dies with its handlers, webhooks and sessions, and open requests fail.
RelayCrash ==
    /\ Mishap
    /\ request' = [s \in Slots |-> None]
    /\ waits' = [p \in Servers |-> None]
    /\ local' = [k \in Keys |->
          IF \E s \in Slots : request[s] # None /\ request[s].key = k /\ Open(s)
                              /\ request[s].op = "create"
          THEN "failed" ELSE local[k]]
    /\ hooks' = {}
    /\ media' = [k \in Keys |-> IF media[k] \in {"connected", "open"} THEN "closed" ELSE media[k]]
    /\ UNCHANGED <<relay, call, freed>>

-------------------------------------------------------------------------------
(* The carrier (external) *)

CarrierDecides(k) ==
    /\ call[k] = "ordered"
    /\ \E v \in {"ringing", "refused"} : call' = [call EXCEPT ![k] = v]
    /\ UNCHANGED <<serverVars, request, relay, hooks, media, mishaps, freed>>

\* The callee answers, and the carrier opens the media stream.
CallAnswered(k) ==
    /\ call[k] = "ringing" /\ k \in Answering
    /\ call' = [call EXCEPT ![k] = "in-progress"]
    /\ media' = [media EXCEPT ![k] = "connected"]
    /\ UNCHANGED <<serverVars, request, relay, hooks, mishaps, freed>>

\* The carrier, the callee or the session of the call (after the last words, on silence, at
\* the time limit) ends it.
CallEnds(k) ==
    /\ \/ call[k] = "ringing" /\ \E e \in Endings : call' = [call EXCEPT ![k] = e]
       \/ call[k] = "in-progress" /\ call' = [call EXCEPT ![k] = "completed"]
    /\ UNCHANGED <<serverVars, request, relay, hooks, media, mishaps, freed>>

-------------------------------------------------------------------------------
ServerNext(p) ==
    \/ \E k \in Keys : CreateTask(p, k) \/ PollTask(p, k) \/ CancelTask(p, k)
    \/ GiveUp(p) \/ ServerCrash(p)

\* The steps of a handler that nothing went wrong with
RelayWorks(s) ==
    \/ RelayReserve(s) \/ RelayRecords(s)
    \/ RelayStatus(s) \/ LookupAnswers(s) \/ RelayApplies(s)
    \/ RelayCancel(s) \/ RelayHangsUp(s) \/ RelayCancels(s)

RelayFails(s) == RelayRejects(s) \/ LookupFails(s) \/ HangupFails(s)

Next ==
    \/ \E p \in Servers : ServerNext(p)
    \/ \E s \in Slots : RelayWorks(s) \/ RelayFails(s)
    \/ \E h \in hooks : HookApply(h)
    \/ RelayCrash
    \/ \E k \in Keys : \/ HookAtOnce(k) \/ HookReceive(k) \/ MediaStart(k) \/ OnOutcome(k)
                       \/ CarrierDecides(k) \/ CallAnswered(k) \/ CallEnds(k)

Spec == Init /\ [][Next]_vars

\* What the network and the processes may do to a request.
Disturbance ==
    \/ \E p \in Servers : GiveUp(p) \/ ServerCrash(p)
    \/ \E s \in Slots : RelayFails(s)
    \/ RelayCrash

\* A host polls the task it created until it is terminal; handlers run to their end; every order
\* is answered and every call ends (time_limit); and requests do not go wrong for ever.
FairSpec ==
    /\ Spec
    /\ <>[][~Disturbance]_vars
    /\ \A s \in Slots : WF_vars(RelayWorks(s))
    /\ \A k \in Keys : /\ WF_vars(CarrierDecides(k)) /\ WF_vars(CallEnds(k))
                       /\ SF_vars(PollTask(ServerOf[k], k))

-------------------------------------------------------------------------------
(* Properties *)

TypeOK ==
    /\ local \in [Keys -> Status]
    /\ waits \in [Servers -> Slots \cup {None}]
    /\ request \in [Slots -> Request \cup {None}]
    /\ relay \in [Keys -> Row]
    /\ hooks \subseteq Hook
    /\ media \in [Keys -> {"none", "connected", "open", "told", "closed"}]
    /\ call \in [Keys -> CarrierStatus \cup {"none", "ordered", "refused"}]
    /\ mishaps \in Nat
    /\ freed \subseteq Keys

\* Two calls of the relay are up at once only if the row of one became terminal while its call
\* was up: whatever servers give up on, webhooks write back and crashes cut short, reserve in
\* the relay's store lets no order pass an active row.
OneCallUnlessFreed ==
    \A j, k \in Keys : Live(j) /\ Live(k) /\ j # k => j \in freed \/ k \in freed

\* With nothing gone wrong that happens in one way only: the session reported its outcome and
\* goes on speaking (on_outcome at finish_demo).  Mishaps add two: the answer to the order was
\* lost, or the call was cancelled over a row whose provider id a stale webhook had erased.
FreedEarly ==
    \A k \in Keys : Live(k) /\ ~Active(relay[k].status) =>
        \/ relay[k].status = "completed" /\ media[k] = "told"
        \/ mishaps > 0 /\ relay[k].status = "failed"
        \/ mishaps > 0 /\ relay[k].status = "cancelled" /\ ~relay[k].named

\* What either store says of a call is something that happened to it, through stale webhooks,
\* two tables and lost answers: a conversation is under way or over, a completed one is over or
\* had its outcome reported, an unanswered call was not answered; and the relay's cancelled
\* call, if its row still names it, is over.
HonestOf(status, k) ==
    /\ status = "dialing"     => Accepted(k)
    /\ status = "in_progress" => call[k] \in {"in-progress", "completed"}
    /\ status = "completed"   => call[k] = "completed" \/ media[k] = "told"
    /\ status = "no_answer"   => call[k] = "no-answer"
    /\ status = "declined"    => call[k] = "busy"

BothStoresAreHonest ==
    \A k \in Keys :
        /\ HonestOf(local[k], k) /\ HonestOf(relay[k].status, k)
        /\ relay[k].status = "cancelled" /\ relay[k].named => call[k] \in CarrierEndings

\* A task whose call was placed becomes terminal in the store of the server that created it,
\* unless a stale webhook erases the provider id from the relay's row.
OutcomeReachesServer ==
    \A k \in Keys :
        local[k] = "dialing" ~> local[k] \in TERMINAL_STATES \/ ~relay[k].named
===============================================================================
