------------------------------ MODULE PhoneTasks ------------------------------
(***************************************************************************)
(* The life of a phone task: the workers that run the MCP tools (server.py *)
(* and, with the same handlers, demo_relay.py) against one SQLite table    *)
(* (store.py), the callback runtime that writes the same table             *)
(* (runtime.py), and the carrier behind them (Twilio, external).           *)
(*                                                                         *)
(* Every handler reads a row into a PhoneResult object, awaits something,  *)
(* and writes the whole object back.  The object is the `result` field of  *)
(* `worker`, `handlers` and `media` below; the row is `result[c]`.  Each   *)
(* read and each write is one step, because TaskStore.get and              *)
(* TaskStore.update are transactions of their own; only TaskStore.reserve  *)
(* reads and writes in one transaction.                                    *)
(***************************************************************************)
EXTENDS TaskModel, Integers

CONSTANTS
    Workers,    \* MCP server processes sharing the store, or concurrent relay requests
    CallIds,    \* the uuid4 values that can become call ids (bounds the rows)
    Keys,       \* idempotency keys
    Tasks,      \* task contents, as _canonical tells them apart
    Allowed,    \* the tasks build_task accepts with confirmed = true
    Endings,    \* the ways the carrier may end a call nobody answered
    Faults,     \* the failures allowed to happen, out of FaultKinds
    Runtime,    \* whether the carrier can reach the callback runtime
    None

FaultKinds == {"crash", "lost_reply", "store_error"}

ASSUME ConstantsAssumption ==
    /\ Allowed \subseteq Tasks
    /\ Endings \subseteq UnansweredEndings
    /\ Faults \subseteq FaultKinds
    /\ Runtime \in BOOLEAN
    /\ None \notin CallIds

VARIABLES
    payload,    \* the idempotency_key and payload columns: None while no row exists
    result,     \* the result column
    worker,     \* what each worker is doing, and the PhoneResult it holds meanwhile
    carrier,    \* the carrier's own view of each call
    dials,      \* how many times the carrier was asked to place each call
    callbacks,  \* status webhooks posted and not yet received
    handlers,   \* status webhooks received, awaiting request.form()
    media       \* the media session of each call

vars == <<payload, result, worker, carrier, dials, callbacks, handlers, media>>

-------------------------------------------------------------------------------
(* Types *)

Payload == [key : Keys, task : Tasks]

ASSUME NoneIsNoPayload == None \notin Payload

Result == [status : TaskState,
           outcome : {"none", "conversation_completed"},
           error : {"none", "provider_rejected"},
           provider_call_id : CallIds \cup {None}]

\* The carrier's id for call c is written c itself: NoSecondDial is what makes that sound.
NewResult == [status |-> "confirmed", outcome |-> "none", error |-> "none",
              provider_call_id |-> None]

WorkerAt == {"idle", "reserved", "dialing", "polling", "polled", "cancelling", "hungup"}
MediaAt  == {"none", "connected", "starting", "open", "finishing", "closed"}

Idle    == [at |-> "idle", call |-> None, result |-> NewResult, seen |-> None]
NoMedia == [at |-> "none", result |-> NewResult]

\* "ordered": the request is on its way; "refused": the carrier said no.
CarrierState == {"none", "ordered", "refused"} \cup CarrierStatus

WorkerState == [at : WorkerAt, call : CallIds \cup {None}, result : Result,
                seen : CarrierStatus \cup {None}]

Webhook == [call : CallIds, status : CarrierStatus]
Handler == [call : CallIds, status : TaskState, result : Result]

TypeOK ==
    /\ payload \in [CallIds -> Payload \cup {None}]
    /\ result \in [CallIds -> Result]
    /\ worker \in [Workers -> WorkerState]
    /\ carrier \in [CallIds -> CarrierState]
    /\ dials \in [CallIds -> Nat]
    /\ callbacks \subseteq Webhook
    /\ handlers \subseteq Handler
    /\ media \in [CallIds -> [at : MediaAt, result : Result]]

-------------------------------------------------------------------------------
(* The store *)

HasRow(c) == payload[c] # None

Terminal(r) == r.status \in TERMINAL_STATES

\* A store that looks for a reused key among the active rows only.
KeyIsFree_ActiveOnly(k) ==
    \A c \in CallIds : HasRow(c) /\ ~Terminal(result[c]) => payload[c].key # k

KeyIsFree(k) == \A c \in CallIds : HasRow(c) => payload[c].key # k

\* A store that takes a task still waiting for its carrier as no reason to refuse another.
NothingActive_ConfirmedIgnored ==
    \A c \in CallIds : HasRow(c) => Terminal(result[c]) \/ result[c].status = "confirmed"

\* A store that only counts the rows whose carrier call was never placed.
NothingActive_DialingIgnored ==
    \A c \in CallIds : HasRow(c) => result[c].status # "confirmed"

NothingActive == \A c \in CallIds : HasRow(c) => Terminal(result[c])

\* UPDATE phone_tasks SET result = r WHERE call_id = c: the whole object, whatever the row
\* holds by now.
Update(c, r) == result' = [result EXCEPT ![c] = r]

-------------------------------------------------------------------------------
(* The carrier (external): modelled from telephony.py's use of it *)

Accepted(c) == carrier[c] \in CarrierStatus
Live(c)     == carrier[c] \in CarrierLive

\* The carrier moves call c to status s and posts the webhook for it.
CarrierMoves(c, s) ==
    /\ carrier' = [carrier EXCEPT ![c] = s]
    /\ callbacks' = IF Runtime THEN callbacks \cup {[call |-> c, status |-> s]}
                               ELSE callbacks

\* calls(sid).update(status="completed"): an answered call ends completed, a ringing one may
\* also be reported canceled, an ended one stays as it is.
HangUp(c) ==
    \/ carrier[c] = "ringing" /\ \E s \in {"completed", "canceled"} : CarrierMoves(c, s)
    \/ carrier[c] = "in-progress" /\ CarrierMoves(c, "completed")
    \/ ~Live(c) /\ UNCHANGED <<carrier, callbacks>>

CarrierAccept(c) ==
    /\ carrier[c] = "ordered"
    /\ CarrierMoves(c, "ringing")
    /\ UNCHANGED <<payload, result, worker, dials, handlers, media>>

CarrierRefuse(c) ==
    /\ carrier[c] = "ordered"
    /\ carrier' = [carrier EXCEPT ![c] = "refused"]
    /\ UNCHANGED <<payload, result, worker, dials, callbacks, handlers, media>>

\* The callee answers, and the TwiML makes the carrier open the media stream.
CarrierAnswer(c) ==
    /\ carrier[c] = "ringing"
    /\ CarrierMoves(c, "in-progress")
    /\ media' = IF Runtime THEN [media EXCEPT ![c].at = "connected"] ELSE media
    /\ UNCHANGED <<payload, result, worker, dials, handlers>>

CarrierEnd(c) ==
    /\ \/ carrier[c] = "ringing" /\ \E s \in Endings : CarrierMoves(c, s)
       \/ carrier[c] = "in-progress" /\ CarrierMoves(c, "completed")
    /\ UNCHANGED <<payload, result, worker, dials, handlers, media>>

-------------------------------------------------------------------------------
(* bond.create_phone_task *)

\* Reserves a call id for a confirmed, allowed task.  An unconfirmed or rejected request, an
\* exact replay, a key reused for another task and a busy store all reply without a write.
Reserve(w, k, t) ==
    /\ worker[w].at = "idle"
    /\ t \in Allowed
    /\ KeyIsFree(k)
    /\ NothingActive
    /\ \E c \in CallIds :
          /\ ~HasRow(c)
          /\ payload' = [payload EXCEPT ![c] = [key |-> k, task |-> t]]
          /\ Update(c, NewResult)
          /\ worker' = [worker EXCEPT ![w] = [Idle EXCEPT !.at = "reserved", !.call = c]]
    /\ UNCHANGED <<carrier, dials, callbacks, handlers, media>>

\* A provider that asks the carrier again when no answer comes.
PlaceCall_Retries(w) ==
    LET c == worker[w].call IN
    /\ worker[w].at \in {"reserved", "dialing"}
    /\ dials[c] < 2
    /\ carrier' = [carrier EXCEPT ![c] = "ordered"]
    /\ dials' = [dials EXCEPT ![c] = @ + 1]
    /\ worker' = [worker EXCEPT ![w].at = "dialing"]
    /\ UNCHANGED <<payload, result, callbacks, handlers, media>>

\* provider.create_call sends the order to the carrier and awaits the answer.
PlaceCall(w) ==
    LET c == worker[w].call IN
    /\ worker[w].at = "reserved"
    /\ carrier' = [carrier EXCEPT ![c] = "ordered"]
    /\ dials' = [dials EXCEPT ![c] = @ + 1]
    /\ worker' = [worker EXCEPT ![w].at = "dialing"]
    /\ UNCHANGED <<payload, result, callbacks, handlers, media>>

\* The worker writes r over the row of its call and is done with it.
WriteAndReply(w, r) ==
    /\ Update(worker[w].call, r)
    /\ worker' = [worker EXCEPT ![w] = Idle]
    /\ UNCHANGED <<payload, carrier, dials, callbacks, handlers, media>>

\* The worker replies without touching the row.
ReplyOnly(w) ==
    /\ worker' = [worker EXCEPT ![w] = Idle]
    /\ UNCHANGED <<payload, result, dials, handlers, media>>

CreateReturn(w) ==
    /\ worker[w].at = "dialing"
    /\ Accepted(worker[w].call)
    /\ WriteAndReply(w, [worker[w].result EXCEPT !.provider_call_id = worker[w].call,
                                                 !.status = "dialing"])

Rejected(r) == [r EXCEPT !.status = "failed", !.error = "provider_rejected"]

\* create_call raised: the carrier refused, or its answer (or the order) was lost on the way.
CreateFails(w) ==
    /\ worker[w].at = "dialing"
    /\ carrier[worker[w].call] = "refused" \/ "lost_reply" \in Faults
    /\ WriteAndReply(w, Rejected(worker[w].result))

\* create_call returned, store.update raised inside the same try block, and the handler
\* recorded the accepted call as failed.
CreateStoreError(w) ==
    /\ "store_error" \in Faults
    /\ worker[w].at = "dialing"
    /\ Accepted(worker[w].call)
    /\ WriteAndReply(w, Rejected([worker[w].result EXCEPT
                                     !.provider_call_id = worker[w].call]))

\* store.update raised where nothing catches it: the last write of a handler, which for
\* create_phone_task is the one that was to record the failure.  The row stays as it is.
WriteFails(w) ==
    /\ "store_error" \in Faults
    /\ \/ /\ worker[w].at = "dialing"
          /\ \/ Accepted(worker[w].call) \/ carrier[worker[w].call] = "refused"
             \/ "lost_reply" \in Faults
       \/ worker[w].at = "polled" /\ MapStatus(worker[w].seen) # worker[w].result.status
       \/ worker[w].at = "hungup"
    /\ ReplyOnly(w)
    /\ UNCHANGED <<carrier, callbacks>>

-------------------------------------------------------------------------------
(* bond.get_phone_task_status *)

\* A refresh that asks the carrier about terminal rows too.
GetStatus_TerminalToo(w, c) ==
    /\ worker[w].at = "idle"
    /\ HasRow(c)
    /\ result[c].provider_call_id # None
    /\ worker' = [worker EXCEPT ![w] = [Idle EXCEPT !.at = "polling", !.call = c,
                                                    !.result = result[c]]]
    /\ UNCHANGED <<payload, result, carrier, dials, callbacks, handlers, media>>

\* store.get, then _refresh_provider_status asks the carrier unless the row is terminal or
\* names no carrier call.
GetStatus(w, c) ==
    /\ worker[w].at = "idle"
    /\ HasRow(c)
    /\ result[c].provider_call_id # None
    /\ ~Terminal(result[c])
    /\ worker' = [worker EXCEPT ![w] = [Idle EXCEPT !.at = "polling", !.call = c,
                                                    !.result = result[c]]]
    /\ UNCHANGED <<payload, result, carrier, dials, callbacks, handlers, media>>

PollAnswer(w) ==
    /\ worker[w].at = "polling"
    /\ worker' = [worker EXCEPT ![w].at = "polled", ![w].seen = carrier[worker[w].call]]
    /\ UNCHANGED <<payload, result, carrier, dials, callbacks, handlers, media>>

PollError(w) ==
    /\ worker[w].at = "polling"
    /\ ReplyOnly(w)
    /\ UNCHANGED <<carrier, callbacks>>

\* A refresh that stores the carrier's word as it came.
PollApply_Unmapped(w) ==
    /\ worker[w].at = "polled"
    /\ WriteAndReply(w, [worker[w].result EXCEPT !.status = worker[w].seen])

\* A refresh that writes an object of its own making.
PollApply_NewObject(w) ==
    /\ worker[w].at = "polled"
    /\ WriteAndReply(w, [NewResult EXCEPT !.status = MapStatus(worker[w].seen)])

PollApply(w) ==
    LET mapped == MapStatus(worker[w].seen)
    IN  /\ worker[w].at = "polled"
        /\ \/ /\ mapped # worker[w].result.status
              /\ WriteAndReply(w, [worker[w].result EXCEPT !.status = mapped])
           \/ /\ mapped = worker[w].result.status
              /\ ReplyOnly(w)
              /\ UNCHANGED <<carrier, callbacks>>

-------------------------------------------------------------------------------
(* bond.cancel_phone_task *)

\* A cancellation that records CANCELLED and leaves the call to its time limit.
Cancel_NoHangup(w, c) ==
    /\ worker[w].at = "idle"
    /\ HasRow(c)
    /\ ~Terminal(result[c])
    /\ worker' = [worker EXCEPT ![w] = [Idle EXCEPT !.at = "hungup", !.call = c,
                                                    !.result = result[c]]]
    /\ UNCHANGED <<payload, result, carrier, dials, callbacks, handlers, media>>

\* store.get, then the hang-up when the row names a carrier call; a terminal row is replied
\* as it is.
Cancel(w, c) ==
    /\ worker[w].at = "idle"
    /\ HasRow(c)
    /\ ~Terminal(result[c])
    /\ LET next == IF result[c].provider_call_id # None THEN "cancelling" ELSE "hungup"
       IN  worker' = [worker EXCEPT ![w] = [Idle EXCEPT !.at = next, !.call = c,
                                                        !.result = result[c]]]
    /\ UNCHANGED <<payload, result, carrier, dials, callbacks, handlers, media>>

CancelHangup(w) ==
    /\ worker[w].at = "cancelling"
    /\ HangUp(worker[w].call)
    /\ worker' = [worker EXCEPT ![w].at = "hungup"]
    /\ UNCHANGED <<payload, result, dials, handlers, media>>

\* cancel_call raised, before or after the carrier acted; the row stays as it was.
CancelError(w) ==
    /\ worker[w].at = "cancelling"
    /\ HangUp(worker[w].call) \/ UNCHANGED <<carrier, callbacks>>
    /\ ReplyOnly(w)

CancelWrite(w) ==
    /\ worker[w].at = "hungup"
    /\ WriteAndReply(w, [worker[w].result EXCEPT !.status = "cancelled"])

-------------------------------------------------------------------------------
(* The callback runtime: one event loop, so a stretch of a handler without an await, like   *)
(* the media handler's get and update, is interleaved with the workers only.                *)

LoopIsFree == \A c \in CallIds : media[c].at # "starting"

\* POST /twilio/status: store.get, then await request.form().
StatusReceive(m) ==
    /\ LoopIsFree
    /\ m \in callbacks
    /\ callbacks' = callbacks \ {m}
    /\ handlers' = IF HasRow(m.call)
                   THEN handlers \cup {[call |-> m.call, status |-> MapStatus(m.status),
                                        result |-> result[m.call]]}
                   ELSE handlers
    /\ UNCHANGED <<payload, result, worker, carrier, dials, media>>

\* The handler writes back the object it read before the await, unless that was terminal.
StatusApply(h) ==
    /\ LoopIsFree
    /\ h \in handlers
    /\ handlers' = handlers \ {h}
    /\ IF Terminal(h.result)
       THEN UNCHANGED result
       ELSE Update(h.call, [h.result EXCEPT !.status = h.status])
    /\ UNCHANGED <<payload, worker, carrier, dials, callbacks, media>>

\* store.update raised, and the webhook is answered with an error.
StatusWriteFails(h) ==
    /\ "store_error" \in Faults
    /\ LoopIsFree
    /\ h \in handlers /\ ~Terminal(h.result)
    /\ handlers' = handlers \ {h}
    /\ UNCHANGED <<payload, result, worker, carrier, dials, callbacks, media>>

\* /twilio/media, on the "start" event: store.get_task and store.get.
MediaStart(c) ==
    /\ LoopIsFree
    /\ media[c].at = "connected"
    /\ HasRow(c)
    /\ media' = [media EXCEPT ![c] = [at |-> "starting", result |-> result[c]]]
    /\ UNCHANGED <<payload, result, worker, carrier, dials, callbacks, handlers>>

\* The stream disconnects, or sends something else than "start" first.
MediaDrop(c) ==
    /\ LoopIsFree
    /\ media[c].at = "connected"
    /\ media' = [media EXCEPT ![c].at = "closed"]
    /\ UNCHANGED <<payload, result, worker, carrier, dials, callbacks, handlers>>

\* The media handler's r becomes the row, whatever the row holds by now.
MediaWrites(c, at, r) ==
    /\ media' = [media EXCEPT ![c] = [at |-> at, result |-> r]]
    /\ Update(c, r)
    /\ UNCHANGED <<payload, worker, carrier, dials, callbacks, handlers>>

MediaRecord(c) ==
    /\ media[c].at = "starting"
    /\ MediaWrites(c, "open", [media[c].result EXCEPT !.status = "in_progress",
                                                      !.provider_call_id = c])

\* store.update raised: the handler ends before its session starts.
MediaWriteFails(c) ==
    /\ "store_error" \in Faults
    /\ media[c].at = "starting"
    /\ media' = [media EXCEPT ![c].at = "closed"]
    /\ UNCHANGED <<payload, result, worker, carrier, dials, callbacks, handlers>>

SessionIsOpen(c) == LoopIsFree /\ media[c].at \in {"open", "finishing"}

\* finish_demo: on_outcome, on the object the session has held since it started.
Outcome(c) ==
    /\ SessionIsOpen(c)
    /\ MediaWrites(c, "finishing", [media[c].result EXCEPT
                                       !.status = "completed",
                                       !.outcome = "conversation_completed"])

\* The session hangs up: after the closing words, at the duration limit or on silence.
SessionHangup(c) ==
    /\ SessionIsOpen(c)
    /\ HangUp(c)
    /\ UNCHANGED <<payload, result, worker, dials, handlers, media>>

\* session.run returned or raised, perhaps because on_outcome's update did: the handler ends
\* and writes nothing.
SessionClose(c) ==
    /\ SessionIsOpen(c)
    /\ media' = [media EXCEPT ![c].at = "closed"]
    /\ UNCHANGED <<payload, result, worker, carrier, dials, callbacks, handlers>>

-------------------------------------------------------------------------------
(* Crashes: the rows survive, the objects in memory do not *)

Crash(w) ==
    /\ "crash" \in Faults
    /\ worker[w].at # "idle"
    /\ worker' = [worker EXCEPT ![w] = Idle]
    /\ UNCHANGED <<payload, result, carrier, dials, callbacks, handlers, media>>

RuntimeCrash ==
    /\ "crash" \in Faults
    /\ handlers' = {}
    /\ media' = [c \in CallIds |-> IF media[c].at = "none" THEN media[c]
                                   ELSE [media[c] EXCEPT !.at = "closed"]]
    /\ UNCHANGED <<payload, result, worker, carrier, dials, callbacks>>

-------------------------------------------------------------------------------

Init ==
    /\ payload = [c \in CallIds |-> None]
    /\ result = [c \in CallIds |-> NewResult]
    /\ worker = [w \in Workers |-> Idle]
    /\ carrier = [c \in CallIds |-> "none"]
    /\ dials = [c \in CallIds |-> 0]
    /\ callbacks = {}
    /\ handlers = {}
    /\ media = [c \in CallIds |-> NoMedia]

WorkerNext(w) ==
    \/ \E k \in Keys, t \in Tasks : Reserve(w, k, t)
    \/ PlaceCall(w) \/ CreateReturn(w) \/ CreateFails(w) \/ CreateStoreError(w) \/ WriteFails(w)
    \/ \E c \in CallIds : GetStatus(w, c) \/ Cancel(w, c)
    \/ PollAnswer(w) \/ PollError(w) \/ PollApply(w)
    \/ CancelHangup(w) \/ CancelError(w) \/ CancelWrite(w)
    \/ Crash(w)

CarrierNext(c) ==
    CarrierAccept(c) \/ CarrierRefuse(c) \/ CarrierAnswer(c) \/ CarrierEnd(c)

RuntimeNext ==
    \/ \E m \in callbacks : StatusReceive(m)
    \/ \E h \in handlers : StatusApply(h) \/ StatusWriteFails(h)
    \/ \E c \in CallIds : \/ MediaStart(c) \/ MediaDrop(c) \/ MediaRecord(c) \/ MediaWriteFails(c)
                          \/ Outcome(c) \/ SessionHangup(c) \/ SessionClose(c)
    \/ RuntimeCrash

Next ==
    \/ \E w \in Workers : WorkerNext(w)
    \/ \E c \in CallIds : CarrierNext(c)
    \/ RuntimeNext

Spec == Init /\ [][Next]_vars

\* A worker finishes the handler it runs; the carrier answers every order and ends every call
\* (time_limit); the host polls each task until it is terminal, and not every lookup and not
\* every write of its answer fails.
FairSpec ==
    /\ Spec
    /\ \A w \in Workers :
          /\ WF_vars(PlaceCall(w))
          /\ WF_vars(CreateReturn(w) \/ CreateFails(w) \/ CreateStoreError(w) \/ WriteFails(w))
          /\ WF_vars(CancelHangup(w) \/ CancelError(w)) /\ WF_vars(CancelWrite(w) \/ WriteFails(w))
          /\ WF_vars(PollApply(w) \/ WriteFails(w)) /\ WF_vars(PollAnswer(w) \/ PollError(w))
          /\ SF_vars(PollAnswer(w)) /\ SF_vars(PollApply(w))
          /\ \A c \in CallIds : SF_vars(GetStatus(w, c))
    /\ \A c \in CallIds :
          WF_vars(CarrierAccept(c) \/ CarrierRefuse(c)) /\ WF_vars(CarrierEnd(c))

-------------------------------------------------------------------------------
(* Safety under every interleaving, crash and fault *)

\* However often a task is resubmitted, raced, retried after a failure or interrupted by a
\* crash, the carrier is asked to place at most one call for an idempotency key, and never for
\* a task that was not confirmed and allowed (store.reserve before provider.create_call).
NoSecondDial ==
    /\ \A c \in CallIds : dials[c] <= 1
    /\ \A c \in CallIds : dials[c] > 0 => HasRow(c) /\ payload[c].task \in Allowed
    /\ \A c, d \in CallIds :
          dials[c] > 0 /\ dials[d] > 0 /\ payload[c].key = payload[d].key => c = d

\* What a PhoneResult r says of call c, whose carrier state is cs, is something the carrier or
\* the session did: a declined or unanswered call is never told as a conversation, an outcome
\* needs an answered call, and a failure with no reported error is the carrier's own.
Truthful(cs, c, r) ==
    /\ r.provider_call_id # None => r.provider_call_id = c /\ cs \in CarrierStatus
    /\ r.status = "dialing"      => cs \in CarrierStatus
    /\ r.status = "no_answer"    => cs = "no-answer"
    /\ r.status = "declined"     => cs = "busy"
    /\ r.status = "failed"       => cs = "failed" \/ r.error # "none"
    /\ r.status \in {"in_progress", "completed"} => cs \in {"in-progress", "completed"}
    /\ r.outcome # "none"        => cs \in {"in-progress", "completed"}

\* However stale the object a handler writes back, the row a client reads is truthful
\* (_refresh_provider_status, the status webhook, the media handler).
HonestResults == \A c \in CallIds : HasRow(c) => Truthful(carrier[c], c, result[c])

\* A cancelled row that names a carrier call names one that is over: cancel_call is awaited
\* before CANCELLED is written, and no later write brings a live call under that status.
CancelledIsHungUp ==
    \A c \in CallIds :
        result[c].status = "cancelled" /\ result[c].provider_call_id # None => ~Live(c)

\* Reservations exclude each other across processes: two tasks never wait for their carrier
\* order at once, whatever stale objects were written meanwhile (BEGIN IMMEDIATE in reserve).
Reserved(c) == HasRow(c) /\ result[c].status = "confirmed"

ReservationIsExclusive ==
    \A c, d \in CallIds : Reserved(c) /\ Reserved(d) => c = d

-------------------------------------------------------------------------------
(* What a single process promises when no callback can reach it *)

\* One active task at a time (the whole point of store.reserve's ActiveCall).
Active(c) == HasRow(c) /\ ~Terminal(result[c])

OneActiveTask == \A c, d \in CallIds : Active(c) /\ Active(d) => c = d

\* A terminal row is final (the early returns on a terminal status in server.py).
TerminalIsFinal ==
    [][\A c \in CallIds : HasRow(c) /\ Terminal(result[c]) => result'[c] = result[c]]_vars

\* A row that no handler works on and no poll can move: create_phone_task could record
\* neither its call nor its failure.  It goes on counting as the active task until somebody
\* cancels it.
Stranded(c) ==
    /\ result[c].status = "confirmed" /\ result[c].provider_call_id = None
    /\ \A w \in Workers : worker[w].call # c

\* Every reserved task reaches a terminal status, whatever is lost and fails on the way, or is
\* stranded by two failed writes.
EventuallyTerminal ==
    \A c \in CallIds : HasRow(c) ~> Terminal(result[c]) \/ Stranded(c)

-------------------------------------------------------------------------------
(* What the documents promise and the code does not keep *)

\* The carrier never carries two live calls of this program ("one active call").
OneLiveCall == \A c, d \in CallIds : Live(c) /\ Live(d) => c = d

\* A row that names its carrier call keeps naming it, so that it can be polled and cancelled
\* ("Persist a local correlation between task_id, call_id and provider ID").
CorrelationIsKept ==
    [][\A c \in CallIds : result[c].provider_call_id # None =>
           result'[c].provider_call_id = result[c].provider_call_id]_vars

-------------------------------------------------------------------------------
(* The abstract promise: CarrierAttempts, one attempt at most per accepted key *)

CallsOf(k) == {c \in CallIds : HasRow(c) /\ payload[c].key = k}

TasksOf(k) == {payload[c].task : c \in CallsOf(k)}

OrdersOf(k) == UNION {{c} \X (1..dials[c]) : c \in CallsOf(k)}

Attempts == INSTANCE CarrierAttempts WITH
    Receipts <- CallIds,
    accepted <- [k \in Keys |-> TasksOf(k)],
    attempts <- [k \in Keys |-> OrdersOf(k)]

\* Every step of workers, carrier, callbacks and crashes is an acceptance of a key, its single
\* attempt, or nothing a client or the carrier's bill can tell (reserve, then create_call).
ImplementsAttempts == Attempts!Spec
==============================================================================
