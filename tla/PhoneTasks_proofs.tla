-------------------------- MODULE PhoneTasks_proofs --------------------------
(***************************************************************************)
(* Proofs about PhoneTasks for every number of workers, calls, keys and    *)
(* tasks, with every fault and with or without the callback runtime.       *)
(*                                                                         *)
(* The safety properties speak of rows, but a row becomes whatever object  *)
(* some handler holds.  The inductive invariant therefore says of every    *)
(* object in memory, and of every status on its way, what the properties   *)
(* say of the rows; it survives because the carrier only moves forward.    *)
(***************************************************************************)
EXTENDS PhoneTasks, TLAPS

-------------------------------------------------------------------------------
(* The inductive invariant *)

\* What an object r about call c may say while the carrier holds the call in state cs.
Faithful(cs, c, r) ==
    /\ Truthful(cs, c, r)
    /\ r.status = "cancelled" /\ r.provider_call_id # None => cs \notin CarrierLive

\* The carrier has reported s, and nothing since has taken it back.
Said(cs, s) ==
    /\ cs \in CarrierStatus
    /\ s = "in-progress" => cs \in {"in-progress", "completed"}
    /\ s \in CarrierEndings => cs = s

RowInv(c) ==
    /\ Faithful(carrier[c], c, result[c])
    /\ dials[c] \in {0, 1}
    /\ dials[c] = 0 <=> carrier[c] = "none"
    /\ dials[c] = 1 => HasRow(c)
    /\ HasRow(c) => payload[c].task \in Allowed

KeysApart ==
    \A c, d \in CallIds :
        HasRow(c) /\ HasRow(d) /\ payload[c].key = payload[d].key => c = d

WorkerInv(w) ==
    worker[w].at # "idle" =>
        LET c == worker[w].call
            r == worker[w].result
        IN  /\ c \in CallIds
            /\ HasRow(c)
            /\ Faithful(carrier[c], c, r)
            /\ worker[w].at = "reserved" => dials[c] = 0
            /\ worker[w].at \in {"polling", "polled", "cancelling"} =>
                   r.provider_call_id # None
            /\ worker[w].at = "polled" =>
                   worker[w].seen \in CarrierStatus /\ Said(carrier[c], worker[w].seen)
            /\ worker[w].at = "hungup" /\ r.provider_call_id # None =>
                   carrier[c] \notin CarrierLive

CreatorsApart ==
    \A v, w \in Workers :
        /\ worker[v].at = "reserved" /\ worker[w].at = "reserved"
        /\ worker[v].call = worker[w].call
        => v = w

CallbacksInv == \A m \in callbacks : Said(carrier[m.call], m.status)

HandlerInv(h) ==
    /\ Faithful(carrier[h.call], h.call, h.result)
    /\ \E s \in CarrierStatus : h.status = MapStatus(s) /\ Said(carrier[h.call], s)

MediaInv(c) ==
    /\ Faithful(carrier[c], c, media[c].result)
    /\ media[c].at \in {"connected", "starting", "open", "finishing"} =>
           carrier[c] \in {"in-progress", "completed"}

IInv ==
    /\ TypeOK
    /\ \A c \in CallIds : RowInv(c)
    /\ KeysApart
    /\ \A w \in Workers : WorkerInv(w)
    /\ CreatorsApart
    /\ CallbacksInv
    /\ \A h \in handlers : HandlerInv(h)
    /\ \A c \in CallIds : MediaInv(c)
    /\ ReservationIsExclusive

-------------------------------------------------------------------------------
(* The carrier only moves forward *)

Advance(a, b) ==
    \/ a = b
    \/ a = "none" /\ b = "ordered"
    \/ a = "ordered" /\ b \in {"refused", "ringing"}
    \/ a = "ringing" /\ b \in CarrierStatus
    \/ a = "in-progress" /\ b = "completed"

\* What is true of a call stays true as the carrier moves on (why a stale object is harmless
\* to HonestResults).
LEMMA FaithfulAdvance ==
    ASSUME NEW a, NEW b, NEW c, NEW r, Advance(a, b), Faithful(a, c, r)
    PROVE  Faithful(b, c, r)
BY DEF Advance, Faithful, Truthful, CarrierStatus, CarrierLive, CarrierEndings,
       UnansweredEndings

\* A carrier status on its way to the store is not taken back meanwhile.
LEMMA SaidAdvance ==
    ASSUME NEW a, NEW b, NEW s, Advance(a, b), Said(a, s)
    PROVE  Said(b, s)
BY DEF Advance, Said, CarrierStatus, CarrierLive, CarrierEndings, UnansweredEndings

\* The mapping tables turn what the carrier said into what a row may say, and never into a
\* reservation.
LEMMA MappedIsFaithful ==
    ASSUME NEW cs, NEW c \in CallIds, NEW r \in Result, NEW s \in CarrierStatus,
           Faithful(cs, c, r), Said(cs, s)
    PROVE  /\ MapStatus(s) \in TaskState \ {"confirmed"}
           /\ [r EXCEPT !.status = MapStatus(s)] \in Result
           /\ Faithful(cs, c, [r EXCEPT !.status = MapStatus(s)])
<1>1. MapStatus(s) \in TaskState \ {"confirmed"}
  BY DEF MapStatus, TaskState, CarrierStatus, CarrierLive, CarrierEndings, UnansweredEndings
<1>2. [r EXCEPT !.status = MapStatus(s)] \in Result
  BY <1>1 DEF Result
<1>3. Faithful(cs, c, [r EXCEPT !.status = MapStatus(s)])
  BY <1>1 DEF Faithful, Truthful, Said, MapStatus, Result, CarrierStatus, CarrierLive,
              CarrierEndings, UnansweredEndings
<1>4. QED
  BY <1>1, <1>2, <1>3

-------------------------------------------------------------------------------
(* Initially *)

\* An empty store, with nothing in memory or under way, satisfies the invariant.
LEMMA InitIInv == Init => IInv
<1> SUFFICES ASSUME Init PROVE IInv
  OBVIOUS
<1> USE ConstantsAssumption, NoneIsNoPayload
<1>1. NewResult \in Result
  BY DEF NewResult, Result, TaskState
<1>2. TypeOK
  BY <1>1 DEF Init, TypeOK, Idle, NoMedia, WorkerState, WorkerAt, MediaAt, CarrierState
<1>3. \A c \in CallIds : Faithful(carrier[c], c, NewResult)
  BY DEF Faithful, Truthful, NewResult
<1>4. QED
  BY <1>2, <1>3 DEF Init, IInv, RowInv, KeysApart, WorkerInv, CreatorsApart, CallbacksInv,
                    MediaInv, ReservationIsExclusive, Reserved, HasRow, Idle, NoMedia

-------------------------------------------------------------------------------
(* What the steps share *)

\* A handler writes a faithful object over the row of call c, and nothing else that rows are
\* related to changes.
LEMMA WriteKeepsRows ==
    ASSUME IInv, NEW c \in CallIds, NEW r \in Result, Faithful(carrier[c], c, r),
           r.status # "confirmed", Update(c, r), UNCHANGED <<payload, carrier, dials>>
    PROVE  /\ result' \in [CallIds -> Result]
           /\ \A d \in CallIds : RowInv(d)'
           /\ KeysApart'
           /\ ReservationIsExclusive'
<1>1. result \in [CallIds -> Result]
  BY DEF IInv, TypeOK
<1>2. result' \in [CallIds -> Result]
  BY <1>1 DEF Update
<1>3. \A d \in CallIds : RowInv(d)'
  BY <1>1 DEF IInv, RowInv, Update, HasRow
<1>4. KeysApart'
  BY DEF IInv, KeysApart, HasRow
<1>5. ReservationIsExclusive'
  BY <1>1 DEF IInv, ReservationIsExclusive, Reserved, HasRow, Update
<1>6. QED
  BY <1>2, <1>3, <1>4, <1>5

\* The carrier moves forward on the calls it was asked to place, and the rows stay.
LEMMA CarrierKeepsRows ==
    ASSUME IInv, UNCHANGED <<payload, result, dials>>,
           \A d \in CallIds : /\ Advance(carrier[d], carrier'[d])
                              /\ carrier[d] = "none" <=> carrier'[d] = "none"
    PROVE  /\ \A d \in CallIds : RowInv(d)'
           /\ KeysApart'
           /\ ReservationIsExclusive'
<1>1. \A d \in CallIds : RowInv(d)'
  BY FaithfulAdvance DEF IInv, RowInv, HasRow
<1>2. QED
  BY <1>1 DEF IInv, KeysApart, HasRow, ReservationIsExclusive, Reserved

\* Objects and messages nobody touches stay faithful as the carrier moves forward and rows are
\* written.
LEMMA ObjectsKeep ==
    ASSUME IInv, UNCHANGED dials,
           \A d \in CallIds : HasRow(d) => HasRow(d)',
           \A d \in CallIds : Advance(carrier[d], carrier'[d])
    PROVE  /\ \A v \in Workers : worker'[v] = worker[v] => WorkerInv(v)'
           /\ \A h \in handlers : HandlerInv(h)'
           /\ \A m \in callbacks : Said(carrier'[m.call], m.status)
           /\ \A d \in CallIds : media'[d] = media[d] => MediaInv(d)'
<1>1. ASSUME NEW v \in Workers, worker'[v] = worker[v] PROVE WorkerInv(v)'
  <2>1. WorkerInv(v)
    BY DEF IInv
  <2>2. SUFFICES ASSUME worker[v].at # "idle" PROVE WorkerInv(v)'
    BY <1>1 DEF WorkerInv
  <2>3. worker[v].call \in CallIds
    BY <2>1, <2>2 DEF WorkerInv
  <2>4. /\ Faithful(carrier'[worker[v].call], worker[v].call, worker[v].result)
        /\ worker[v].at = "polled" => Said(carrier'[worker[v].call], worker[v].seen)
    BY <2>1, <2>2, <2>3, FaithfulAdvance, SaidAdvance DEF WorkerInv
  <2>5. /\ worker[v].at = "hungup"
        /\ worker[v].result.provider_call_id # None
        => carrier'[worker[v].call] \notin CarrierLive
    BY <2>1, <2>2, <2>3 DEF WorkerInv, Faithful, Truthful, Advance, CarrierLive,
                            CarrierStatus, CarrierEndings, UnansweredEndings
  <2>6. QED
    BY <1>1, <2>1, <2>2, <2>3, <2>4, <2>5 DEF WorkerInv
<1>2. \A h \in handlers : HandlerInv(h)'
  BY FaithfulAdvance, SaidAdvance DEF IInv, TypeOK, Handler, HandlerInv
<1>3. \A m \in callbacks : Said(carrier'[m.call], m.status)
  BY SaidAdvance DEF IInv, TypeOK, Webhook, CallbacksInv
<1>4. ASSUME NEW d \in CallIds, media'[d] = media[d] PROVE MediaInv(d)'
  BY <1>4, FaithfulAdvance DEF IInv, MediaInv, Advance
<1>5. QED
  BY <1>1, <1>2, <1>3, <1>4

\* A worker moves on, and does not reserve.
LEMMA WorkersStayApart ==
    ASSUME IInv, NEW w \in Workers, worker'[w].at # "reserved",
           \A v \in Workers \ {w} : worker'[v] = worker[v]
    PROVE  CreatorsApart'
BY DEF IInv, CreatorsApart

\* The carrier call c, asked for already, moves to status s.
LEMMA CarrierMovesKeeps ==
    ASSUME IInv, NEW c \in CallIds, NEW s \in CarrierStatus, CarrierMoves(c, s),
           Advance(carrier[c], s), carrier[c] # "none", UNCHANGED <<payload, result, dials>>
    PROVE  /\ carrier' \in [CallIds -> CarrierState]
           /\ callbacks' \subseteq Webhook
           /\ \A d \in CallIds : RowInv(d)'
           /\ KeysApart'
           /\ ReservationIsExclusive'
           /\ CallbacksInv'
           /\ \A d \in CallIds : Advance(carrier[d], carrier'[d])
<1>1. /\ carrier \in [CallIds -> CarrierState]
      /\ callbacks \subseteq Webhook
  BY DEF IInv, TypeOK
<1>2. carrier' = [carrier EXCEPT ![c] = s]
  BY DEF CarrierMoves
<1>3. carrier' \in [CallIds -> CarrierState]
  BY <1>1, <1>2 DEF CarrierState
<1>4. callbacks' \subseteq Webhook
  BY <1>1 DEF CarrierMoves, Webhook
<1>5. \A d \in CallIds : Advance(carrier[d], carrier'[d])
  BY <1>1, <1>2 DEF Advance
<1>6. \A d \in CallIds : carrier[d] = "none" <=> carrier'[d] = "none"
  BY <1>1, <1>2 DEF CarrierStatus, CarrierLive, CarrierEndings, UnansweredEndings
<1>7. /\ \A d \in CallIds : RowInv(d)'
      /\ KeysApart'
      /\ ReservationIsExclusive'
  BY <1>5, <1>6, CarrierKeepsRows
<1>8. \A m \in callbacks : Said(carrier'[m.call], m.status)
  BY <1>1, <1>5, SaidAdvance DEF IInv, CallbacksInv, Webhook
<1>9. Said(carrier'[c], s)
  BY <1>1, <1>2 DEF Said, CarrierStatus, CarrierLive, CarrierEndings, UnansweredEndings
<1>10. CallbacksInv'
  BY <1>8, <1>9 DEF CallbacksInv, CarrierMoves
<1>11. QED
  BY <1>3, <1>4, <1>5, <1>7, <1>10

\* Hanging up moves a live call to its end and leaves every other call alone.
LEMMA HangUpKeeps ==
    ASSUME IInv, NEW c \in CallIds, HangUp(c), UNCHANGED <<payload, result, dials>>
    PROVE  /\ carrier' \in [CallIds -> CarrierState]
           /\ callbacks' \subseteq Webhook
           /\ \A d \in CallIds : RowInv(d)'
           /\ KeysApart'
           /\ ReservationIsExclusive'
           /\ CallbacksInv'
           /\ \A d \in CallIds : Advance(carrier[d], carrier'[d])
           /\ carrier'[c] \notin CarrierLive
<1>1. carrier \in [CallIds -> CarrierState] /\ callbacks \subseteq Webhook
  BY DEF IInv, TypeOK
<1>2. CASE ~Live(c) /\ UNCHANGED <<carrier, callbacks>>
  <2>1. \A d \in CallIds : Advance(carrier[d], carrier'[d])
    BY <1>2 DEF Advance
  <2>2. QED
    BY <1>1, <1>2, <2>1, CarrierKeepsRows DEF Live, IInv, CallbacksInv
<1>3. ASSUME NEW s \in {"completed", "canceled"}, CarrierMoves(c, s),
             \/ carrier[c] = "ringing"
             \/ carrier[c] = "in-progress" /\ s = "completed"
      PROVE  /\ carrier' \in [CallIds -> CarrierState]
             /\ callbacks' \subseteq Webhook
             /\ \A d \in CallIds : RowInv(d)'
             /\ KeysApart'
             /\ ReservationIsExclusive'
             /\ CallbacksInv'
             /\ \A d \in CallIds : Advance(carrier[d], carrier'[d])
             /\ carrier'[c] \notin CarrierLive
  <2>1. s \in CarrierStatus /\ s \notin CarrierLive
    BY DEF CarrierStatus, CarrierLive, CarrierEndings, UnansweredEndings
  <2>2. Advance(carrier[c], s) /\ carrier[c] # "none"
    BY <1>3, <2>1 DEF Advance
  <2>3. carrier'[c] = s
    BY <1>1, <1>3 DEF CarrierMoves
  <2>4. QED
    BY <1>3, <2>1, <2>2, <2>3, CarrierMovesKeeps
<1>4. QED
  BY <1>2, <1>3 DEF HangUp

-------------------------------------------------------------------------------
(* The workers' steps *)

\* A worker writes a faithful object over the row of its call and goes idle.
LEMMA WriteAndReplyKeeps ==
    ASSUME IInv, NEW w \in Workers, worker[w].at # "idle", NEW r \in Result,
           Faithful(carrier[worker[w].call], worker[w].call, r), r.status # "confirmed",
           WriteAndReply(w, r)
    PROVE  IInv'
<1> DEFINE c == worker[w].call
<1>1. c \in CallIds /\ HasRow(c)
  BY DEF IInv, WorkerInv
<1>2. Update(c, r) /\ UNCHANGED <<payload, carrier, dials, callbacks, handlers, media>>
  BY DEF WriteAndReply
<1>3. /\ result' \in [CallIds -> Result]
      /\ \A d \in CallIds : RowInv(d)'
      /\ KeysApart'
      /\ ReservationIsExclusive'
  BY <1>1, <1>2, WriteKeepsRows
<1>4. /\ worker' = [worker EXCEPT ![w] = Idle]
      /\ worker'[w] = Idle
      /\ \A v \in Workers \ {w} : worker'[v] = worker[v]
  BY DEF WriteAndReply, IInv, TypeOK
<1>5. /\ \A v \in Workers : worker'[v] = worker[v] => WorkerInv(v)'
      /\ \A h \in handlers : HandlerInv(h)'
      /\ \A m \in callbacks : Said(carrier'[m.call], m.status)
      /\ \A d \in CallIds : media'[d] = media[d] => MediaInv(d)'
  BY <1>2, ObjectsKeep DEF HasRow, Advance
<1>6. \A v \in Workers : WorkerInv(v)'
  BY <1>4, <1>5 DEF WorkerInv, Idle
<1>7. CreatorsApart'
  BY <1>4, WorkersStayApart DEF Idle
<1>8. TypeOK'
  BY <1>2, <1>3, <1>4 DEF IInv, TypeOK, Idle, WorkerState, WorkerAt, NewResult, Result, TaskState
<1>9. QED
  BY <1>2, <1>3, <1>5, <1>6, <1>7, <1>8 DEF IInv, CallbacksInv

\* A worker changes what it holds, and nothing else changes.
LEMMA WorkerOnlyKeeps ==
    ASSUME IInv, NEW w \in Workers,
           NEW x \in WorkerState,
           worker' = [worker EXCEPT ![w] = x], x.at # "reserved", WorkerInv(w)',
           UNCHANGED <<payload, result, carrier, dials, callbacks, handlers, media>>
    PROVE  IInv'
<1>1. worker \in [Workers -> WorkerState]
  BY DEF IInv, TypeOK
<1>2. worker'[w] = x /\ \A v \in Workers \ {w} : worker'[v] = worker[v]
  BY <1>1
<1>3. /\ \A v \in Workers : worker'[v] = worker[v] => WorkerInv(v)'
      /\ \A h \in handlers : HandlerInv(h)'
      /\ \A d \in CallIds : media'[d] = media[d] => MediaInv(d)'
  BY ObjectsKeep DEF HasRow, Advance
<1>4. \A v \in Workers : WorkerInv(v)'
  BY <1>2, <1>3
<1>5. CreatorsApart'
  BY <1>2, WorkersStayApart
<1>6. TypeOK'
  BY <1>1 DEF IInv, TypeOK
<1>7. QED
  BY <1>3, <1>4, <1>5, <1>6 DEF IInv, RowInv, HasRow, KeysApart, CallbacksInv,
                                ReservationIsExclusive, Reserved

\* A reservation takes a free key and finds every other row terminal, so it is the only one.
LEMMA ReserveKeeps ==
    ASSUME IInv, NEW w \in Workers, NEW k \in Keys, NEW t \in Tasks, Reserve(w, k, t)
    PROVE  IInv'
<1> USE NoneIsNoPayload
<1>1. PICK c \in CallIds :
          /\ ~HasRow(c)
          /\ payload' = [payload EXCEPT ![c] = [key |-> k, task |-> t]]
          /\ Update(c, NewResult)
          /\ worker' = [worker EXCEPT ![w] = [Idle EXCEPT !.at = "reserved", !.call = c]]
  BY DEF Reserve
<1>2. /\ UNCHANGED <<carrier, dials, callbacks, handlers, media>>
      /\ t \in Allowed
      /\ KeyIsFree(k)
      /\ NothingActive
  BY DEF Reserve
<1>3. /\ payload \in [CallIds -> Payload \cup {None}]
      /\ result \in [CallIds -> Result]
      /\ worker \in [Workers -> WorkerState]
  BY DEF IInv, TypeOK
<1>4. NewResult \in Result
  BY DEF NewResult, Result, TaskState
<1>5. [key |-> k, task |-> t] \in Payload /\ [key |-> k, task |-> t] # None
  BY DEF Payload
<1>6. HasRow(c)' /\ \A d \in CallIds \ {c} : payload'[d] = payload[d] /\ result'[d] = result[d]
  BY <1>1, <1>3, <1>5 DEF HasRow, Update
<1>7. TypeOK'
  BY <1>1, <1>2, <1>3, <1>4, <1>5 DEF IInv, TypeOK, Update, Idle, WorkerState, WorkerAt
<1>8. dials[c] = 0 /\ carrier[c] = "none"
  BY <1>1 DEF IInv, RowInv
<1>9. \A d \in CallIds : RowInv(d)'
  <2>1. Faithful(carrier[c], c, NewResult)
    BY DEF Faithful, Truthful, NewResult
  <2>2. result'[c] = NewResult /\ payload'[c].task = t
    BY <1>1, <1>3 DEF Update
  <2>3. QED
    BY <1>2, <1>6, <1>8, <2>1, <2>2 DEF IInv, RowInv, HasRow
<1>10. KeysApart'
  BY <1>1, <1>2, <1>3, <1>6 DEF IInv, KeysApart, KeyIsFree, HasRow
<1>11. ReservationIsExclusive'
  BY <1>2, <1>6 DEF ReservationIsExclusive, Reserved, NothingActive, Terminal,
                    TERMINAL_STATES, HasRow
<1>12. /\ \A v \in Workers : worker'[v] = worker[v] => WorkerInv(v)'
       /\ \A h \in handlers : HandlerInv(h)'
       /\ \A d \in CallIds : media'[d] = media[d] => MediaInv(d)'
  BY <1>2, <1>6, ObjectsKeep DEF HasRow, Advance
<1>13. \A v \in Workers \ {w} : worker'[v] = worker[v]
  BY <1>1, <1>3
<1>14. WorkerInv(w)'
  <2>1. worker'[w] = [Idle EXCEPT !.at = "reserved", !.call = c]
    BY <1>1, <1>3
  <2>2. Faithful(carrier'[c], c, NewResult)
    BY <1>2, <1>8 DEF Faithful, Truthful, NewResult
  <2>3. QED
    BY <1>2, <1>6, <1>8, <2>1, <2>2 DEF WorkerInv, Idle
<1>15. CreatorsApart'
  <2>1. \A v \in Workers : worker[v].at # "idle" => worker[v].call # c
    BY <1>1 DEF IInv, WorkerInv
  <2>2. worker'[w].call = c
    BY <1>1, <1>3 DEF Idle
  <2>3. QED
    BY <1>13, <2>1, <2>2 DEF CreatorsApart, IInv
<1>16. QED
  BY <1>2, <1>7, <1>9, <1>10, <1>11, <1>12, <1>13, <1>14, <1>15 DEF IInv, CallbacksInv

\* Only the worker that reserved a call orders it, and it has not been ordered before.
LEMMA PlaceCallKeeps ==
    ASSUME IInv, NEW w \in Workers, PlaceCall(w)
    PROVE  IInv'
<1> DEFINE c == worker[w].call
<1>1. /\ c \in CallIds /\ HasRow(c)
      /\ dials[c] = 0 /\ carrier[c] = "none"
  BY DEF PlaceCall, IInv, WorkerInv, RowInv
<1>2. /\ carrier' = [carrier EXCEPT ![c] = "ordered"]
      /\ dials' = [dials EXCEPT ![c] = @ + 1]
      /\ worker' = [worker EXCEPT ![w].at = "dialing"]
      /\ UNCHANGED <<payload, result, callbacks, handlers, media>>
  BY DEF PlaceCall
<1>3. /\ carrier \in [CallIds -> CarrierState]
      /\ dials \in [CallIds -> Nat]
      /\ worker \in [Workers -> WorkerState]
  BY DEF IInv, TypeOK
<1>4. /\ dials'[c] = 1 /\ carrier'[c] = "ordered"
      /\ \A d \in CallIds \ {c} : dials'[d] = dials[d] /\ carrier'[d] = carrier[d]
  BY <1>1, <1>2, <1>3
<1>5. TypeOK'
  BY <1>1, <1>2, <1>3 DEF IInv, TypeOK, CarrierState, WorkerState, WorkerAt
<1>6. \A d \in CallIds : Advance(carrier[d], carrier'[d])
  BY <1>1, <1>4 DEF Advance
<1>7. \A d \in CallIds : RowInv(d)'
  <2>1. \A d \in CallIds : Faithful(carrier'[d], d, result'[d])
    BY <1>2, <1>6, FaithfulAdvance DEF IInv, RowInv
  <2>2. QED
    BY <1>1, <1>2, <1>4, <2>1 DEF IInv, RowInv, HasRow
<1>8. \A h \in handlers : HandlerInv(h)'
  BY <1>6, FaithfulAdvance, SaidAdvance DEF IInv, TypeOK, Handler, HandlerInv
<1>9. CallbacksInv'
  BY <1>2, <1>6, SaidAdvance DEF IInv, TypeOK, Webhook, CallbacksInv
<1>10. \A d \in CallIds : MediaInv(d)'
  BY <1>2, <1>6, FaithfulAdvance DEF IInv, MediaInv, Advance
<1>11. \A v \in Workers : WorkerInv(v)'
  <2>1. ASSUME NEW v \in Workers, v # w, worker[v].at # "idle" PROVE WorkerInv(v)'
    <3>1. worker'[v] = worker[v]
      BY <1>2, <1>3, <2>1
    <3>2. worker[v].at = "reserved" => worker[v].call # c
      BY <2>1, <1>1 DEF IInv, CreatorsApart, PlaceCall
    <3>3. WorkerInv(v) /\ worker[v].call \in CallIds
      BY <2>1 DEF IInv, WorkerInv
    <3>4. /\ Faithful(carrier'[worker[v].call], worker[v].call, worker[v].result)
          /\ worker[v].at = "polled" => Said(carrier'[worker[v].call], worker[v].seen)
      BY <1>6, <2>1, <3>3, FaithfulAdvance, SaidAdvance DEF WorkerInv
    <3>5. worker[v].at = "hungup" /\ worker[v].result.provider_call_id # None
          => carrier'[worker[v].call] \notin CarrierLive
      BY <1>1, <1>4, <2>1, <3>3 DEF WorkerInv, CarrierLive
    <3>6. QED
      BY <1>2, <1>4, <2>1, <3>1, <3>2, <3>3, <3>4, <3>5 DEF WorkerInv, HasRow
  <2>2. ASSUME NEW v \in Workers, v # w, worker[v].at = "idle" PROVE WorkerInv(v)'
    BY <1>2, <1>3, <2>2 DEF WorkerInv
  <2>3. WorkerInv(w)'
    <3>1. worker'[w] = [worker[w] EXCEPT !.at = "dialing"]
      BY <1>2, <1>3
    <3>2. Faithful(carrier'[c], c, worker[w].result)
      BY <1>1, <1>6, FaithfulAdvance DEF IInv, WorkerInv, PlaceCall
    <3>3. QED
      BY <1>1, <1>2, <1>3, <3>1, <3>2 DEF WorkerInv, HasRow
  <2>4. QED
    BY <2>1, <2>2, <2>3
<1>12. CreatorsApart'
  BY <1>2, <1>3, WorkersStayApart
<1>13. QED
  BY <1>2, <1>5, <1>7, <1>8, <1>9, <1>10, <1>11, <1>12
     DEF IInv, KeysApart, HasRow, ReservationIsExclusive, Reserved

\* What create_phone_task writes, whichever way create_call ended, is what the carrier did.
LEMMA CreateKeeps ==
    ASSUME IInv, NEW w \in Workers, CreateReturn(w) \/ CreateFails(w) \/ CreateStoreError(w)
    PROVE  IInv'
<1> DEFINE c == worker[w].call
           r == worker[w].result
<1>1. /\ worker[w].at = "dialing" /\ r \in Result
      /\ c \in CallIds /\ Faithful(carrier[c], c, r)
  BY DEF IInv, TypeOK, WorkerInv, CreateReturn, CreateFails, CreateStoreError, WorkerState
<1>2. CASE CreateReturn(w)
  <2> DEFINE written == [r EXCEPT !.provider_call_id = c, !.status = "dialing"]
  <2>1. written \in Result /\ written.status # "confirmed"
    BY <1>1 DEF Result, TaskState
  <2>2. Faithful(carrier[c], c, written)
    BY <1>1, <1>2 DEF CreateReturn, Accepted, Faithful, Truthful, Result
  <2>3. QED
    BY <1>1, <1>2, <2>1, <2>2, WriteAndReplyKeeps DEF CreateReturn
<1>3. CASE CreateFails(w)
  <2>1. Rejected(r) \in Result /\ Rejected(r).status # "confirmed"
    BY <1>1 DEF Rejected, Result, TaskState
  <2>2. Faithful(carrier[c], c, Rejected(r))
    BY <1>1 DEF Rejected, Faithful, Truthful, Result
  <2>3. QED
    BY <1>1, <1>3, <2>1, <2>2, WriteAndReplyKeeps DEF CreateFails
<1>4. CASE CreateStoreError(w)
  <2> DEFINE written == Rejected([r EXCEPT !.provider_call_id = c])
  <2>1. written \in Result /\ written.status # "confirmed"
    BY <1>1 DEF Rejected, Result, TaskState
  <2>2. Faithful(carrier[c], c, written)
    BY <1>1, <1>4 DEF CreateStoreError, Accepted, Rejected, Faithful, Truthful, Result
  <2>3. QED
    BY <1>1, <1>4, <2>1, <2>2, WriteAndReplyKeeps DEF CreateStoreError
<1>5. QED
  BY <1>2, <1>3, <1>4

\* What a refresh writes was true when the carrier said it, and is true still.
LEMMA PollKeeps ==
    ASSUME IInv, NEW w \in Workers,
           \/ \E c \in CallIds : GetStatus(w, c)
           \/ PollAnswer(w) \/ PollError(w) \/ PollApply(w)
    PROVE  IInv'
<1> DEFINE call == worker[w].call
           r == worker[w].result
<1>1. worker \in [Workers -> WorkerState]
  BY DEF IInv, TypeOK
<1>2. NewResult \in Result
  BY DEF NewResult, Result, TaskState
<1>3. ASSUME NEW c \in CallIds, GetStatus(w, c) PROVE IInv'
  <2> DEFINE x == [Idle EXCEPT !.at = "polling", !.call = c, !.result = result[c]]
  <2>1. /\ HasRow(c) /\ result[c].provider_call_id # None
        /\ worker' = [worker EXCEPT ![w] = x]
        /\ UNCHANGED <<payload, result, carrier, dials, callbacks, handlers, media>>
    BY <1>3 DEF GetStatus
  <2>2. x.at = "polling" /\ x.call = c /\ x.result = result[c]
    BY DEF Idle
  <2>3. x \in WorkerState
    BY <1>2 DEF IInv, TypeOK, WorkerState, WorkerAt, Idle
  <2>4. WorkerInv(w)'
    BY <1>1, <2>1, <2>2 DEF WorkerInv, HasRow, IInv, RowInv
  <2>5. QED
    BY <2>1, <2>2, <2>3, <2>4, WorkerOnlyKeeps
<1>4. CASE PollAnswer(w)
  <2> DEFINE x == [worker[w] EXCEPT !.at = "polled", !.seen = carrier[call]]
  <2>1. /\ call \in CallIds /\ HasRow(call) /\ r.provider_call_id # None
        /\ Faithful(carrier[call], call, r)
    BY <1>4 DEF PollAnswer, IInv, WorkerInv
  <2>2. carrier[call] \in CarrierStatus /\ Said(carrier[call], carrier[call])
    BY <2>1 DEF Faithful, Truthful, Said
  <2>3. x \in WorkerState
    BY <1>1, <2>2 DEF WorkerState, WorkerAt
  <2>4. /\ worker' = [worker EXCEPT ![w] = x]
        /\ UNCHANGED <<payload, result, carrier, dials, callbacks, handlers, media>>
    BY <1>1, <1>4 DEF PollAnswer
  <2>5. WorkerInv(w)'
    BY <1>1, <2>1, <2>2, <2>4 DEF WorkerInv, HasRow
  <2>6. x.at # "reserved"
    BY <1>1
  <2>7. QED
    BY <2>3, <2>4, <2>5, <2>6, WorkerOnlyKeeps
<1>5. ASSUME ReplyOnly(w), UNCHANGED <<carrier, callbacks>> PROVE IInv'
  <2>1. Idle \in WorkerState
    BY <1>2 DEF Idle, WorkerState, WorkerAt
  <2>2. WorkerInv(w)'
    BY <1>1, <1>5 DEF ReplyOnly, WorkerInv, Idle
  <2>3. QED
    BY <1>5, <2>1, <2>2, WorkerOnlyKeeps DEF ReplyOnly, Idle
<1>6. CASE PollError(w)
  BY <1>5, <1>6 DEF PollError
<1>7. CASE PollApply(w)
  <2> DEFINE mapped == MapStatus(worker[w].seen)
  <2>1. /\ call \in CallIds /\ r \in Result /\ worker[w].seen \in CarrierStatus
        /\ Faithful(carrier[call], call, r) /\ Said(carrier[call], worker[w].seen)
    BY <1>1, <1>7 DEF PollApply, IInv, WorkerInv, WorkerState
  <2>2. /\ mapped \in TaskState \ {"confirmed"}
        /\ [r EXCEPT !.status = mapped] \in Result
        /\ Faithful(carrier[call], call, [r EXCEPT !.status = mapped])
    BY <2>1, MappedIsFaithful
  <2>3. CASE WriteAndReply(w, [r EXCEPT !.status = mapped])
    <3>1. worker[w].at # "idle" /\ [r EXCEPT !.status = mapped].status # "confirmed"
      BY <1>7, <2>1, <2>2 DEF PollApply, Result
    <3>2. QED
      BY <2>2, <2>3, <3>1, WriteAndReplyKeeps
  <2>4. QED
    BY <1>5, <1>7, <2>3 DEF PollApply
<1>8. QED
  BY <1>3, <1>4, <1>6, <1>7

\* CANCELLED is written over a call hung up before, or over a row that names no call.
LEMMA CancelKeeps ==
    ASSUME IInv, NEW w \in Workers,
           \/ \E c \in CallIds : Cancel(w, c)
           \/ CancelHangup(w) \/ CancelError(w) \/ CancelWrite(w)
    PROVE  IInv'
<1> DEFINE call == worker[w].call
           r == worker[w].result
<1>1. worker \in [Workers -> WorkerState]
  BY DEF IInv, TypeOK
<1>2. ASSUME NEW c \in CallIds, Cancel(w, c) PROVE IInv'
  <2> DEFINE next == IF result[c].provider_call_id # None THEN "cancelling" ELSE "hungup"
             x == [Idle EXCEPT !.at = next, !.call = c, !.result = result[c]]
  <2>1. /\ HasRow(c)
        /\ worker' = [worker EXCEPT ![w] = x]
        /\ UNCHANGED <<payload, result, carrier, dials, callbacks, handlers, media>>
    BY <1>2 DEF Cancel
  <2>2. x.at = next /\ x.call = c /\ x.result = result[c]
    BY DEF Idle
  <2>3. x \in WorkerState
    BY DEF IInv, TypeOK, WorkerState, WorkerAt, Idle
  <2>4. WorkerInv(w)'
    BY <1>1, <2>1, <2>2 DEF WorkerInv, HasRow, IInv, RowInv
  <2>5. QED
    BY <2>1, <2>2, <2>3, <2>4, WorkerOnlyKeeps DEF WorkerState
<1>3. ASSUME worker[w].at = "cancelling", HangUp(call),
             worker' = [worker EXCEPT ![w].at = "hungup"] \/ worker' = [worker EXCEPT ![w] = Idle],
             UNCHANGED <<payload, result, dials, handlers, media>>
      PROVE  IInv'
  <2>1. /\ call \in CallIds /\ HasRow(call) /\ r.provider_call_id # None
        /\ Faithful(carrier[call], call, r)
    BY <1>3 DEF IInv, WorkerInv
  <2>2. /\ carrier' \in [CallIds -> CarrierState]
        /\ callbacks' \subseteq Webhook
        /\ \A d \in CallIds : RowInv(d)'
        /\ KeysApart'
        /\ ReservationIsExclusive'
        /\ CallbacksInv'
        /\ \A d \in CallIds : Advance(carrier[d], carrier'[d])
        /\ carrier'[call] \notin CarrierLive
    BY <1>3, <2>1, HangUpKeeps
  <2>3. /\ \A v \in Workers : worker'[v] = worker[v] => WorkerInv(v)'
        /\ \A h \in handlers : HandlerInv(h)'
        /\ \A d \in CallIds : media'[d] = media[d] => MediaInv(d)'
    BY <1>3, <2>2, ObjectsKeep DEF HasRow
  <2>4. /\ worker'[w].at \in {"hungup", "idle"}
        /\ \A v \in Workers \ {w} : worker'[v] = worker[v]
    BY <1>1, <1>3 DEF Idle, WorkerState
  <2>5. WorkerInv(w)'
    <3>1. Faithful(carrier'[call], call, r)
      BY <2>1, <2>2, FaithfulAdvance
    <3>2. CASE worker' = [worker EXCEPT ![w].at = "hungup"]
      BY <1>1, <1>3, <2>1, <2>2, <3>1, <3>2 DEF WorkerInv, HasRow
    <3>3. CASE worker' = [worker EXCEPT ![w] = Idle]
      BY <1>1, <3>3 DEF WorkerInv, Idle
    <3>4. QED
      BY <1>3, <3>2, <3>3
  <2>6. CreatorsApart'
    BY <2>4, WorkersStayApart
  <2>7. TypeOK'
    <3>1. [worker[w] EXCEPT !.at = "hungup"] \in WorkerState
      BY <1>1 DEF WorkerState, WorkerAt
    <3>2. Idle \in WorkerState
      BY DEF Idle, WorkerState, WorkerAt, NewResult, Result, TaskState
    <3>3. worker' \in [Workers -> WorkerState]
      BY <1>1, <1>3, <3>1, <3>2
    <3>4. QED
      BY <1>3, <2>2, <3>3 DEF IInv, TypeOK
  <2>8. QED
    BY <1>3, <2>2, <2>3, <2>4, <2>5, <2>6, <2>7 DEF IInv
<1>4. CASE CancelHangup(w)
  BY <1>3, <1>4 DEF CancelHangup
<1>5. CASE CancelError(w)
  <2>1. CASE HangUp(call)
    BY <1>3, <1>5, <2>1 DEF CancelError, ReplyOnly
  <2>2. CASE UNCHANGED <<carrier, callbacks>>
    <3>1. Idle \in WorkerState
      BY DEF Idle, WorkerState, WorkerAt, NewResult, Result, TaskState
    <3>2. WorkerInv(w)'
      BY <1>1, <1>5 DEF CancelError, ReplyOnly, WorkerInv, Idle
    <3>3. QED
      BY <1>5, <2>2, <3>1, <3>2, WorkerOnlyKeeps DEF CancelError, ReplyOnly, Idle
  <2>3. QED
    BY <1>5, <2>1, <2>2 DEF CancelError
<1>6. CASE CancelWrite(w)
  <2> DEFINE written == [r EXCEPT !.status = "cancelled"]
  <2>1. /\ worker[w].at = "hungup" /\ r \in Result
        /\ Faithful(carrier[call], call, r)
        /\ r.provider_call_id # None => carrier[call] \notin CarrierLive
    BY <1>1, <1>6 DEF CancelWrite, IInv, WorkerInv, WorkerState
  <2>2. written \in Result /\ written.status # "confirmed"
    BY <2>1 DEF Result, TaskState
  <2>3. Faithful(carrier[call], call, written)
    BY <2>1 DEF Faithful, Truthful, Result
  <2>4. QED
    BY <1>6, <2>1, <2>2, <2>3, WriteAndReplyKeeps DEF CancelWrite
<1>7. QED
  BY <1>2, <1>4, <1>5, <1>6

\* A worker that dies writes nothing.
LEMMA CrashKeeps ==
    ASSUME IInv, NEW w \in Workers, Crash(w) \/ WriteFails(w)
    PROVE  IInv'
<1>1. Idle \in WorkerState
  BY DEF Idle, WorkerState, WorkerAt, NewResult, Result, TaskState
<1>2. WorkerInv(w)'
  BY DEF IInv, TypeOK, Crash, WriteFails, ReplyOnly, WorkerInv, Idle
<1>3. QED
  BY <1>1, <1>2, WorkerOnlyKeeps DEF Crash, WriteFails, ReplyOnly, Idle

-------------------------------------------------------------------------------
(* The carrier's steps *)

\* Whatever the carrier does on its own, it only moves a call it was asked for forward.
LEMMA CarrierNextKeeps ==
    ASSUME IInv, NEW c \in CallIds, CarrierNext(c)
    PROVE  IInv'
<1>1. /\ carrier \in [CallIds -> CarrierState]
      /\ media \in [CallIds -> [at : MediaAt, result : Result]]
  BY DEF IInv, TypeOK
<1>2. ASSUME NEW s \in CarrierStatus, CarrierMoves(c, s), Advance(carrier[c], s),
             carrier[c] # "none", UNCHANGED <<payload, result, worker, dials, handlers>>,
             \/ UNCHANGED media
             \/ s = "in-progress" /\ media' = [media EXCEPT ![c].at = "connected"]
      PROVE  IInv'
  <2>1. /\ carrier' \in [CallIds -> CarrierState]
        /\ callbacks' \subseteq Webhook
        /\ \A d \in CallIds : RowInv(d)'
        /\ KeysApart'
        /\ ReservationIsExclusive'
        /\ CallbacksInv'
        /\ \A d \in CallIds : Advance(carrier[d], carrier'[d])
    BY <1>2, CarrierMovesKeeps
  <2>2. /\ \A v \in Workers : worker'[v] = worker[v] => WorkerInv(v)'
        /\ \A h \in handlers : HandlerInv(h)'
        /\ \A d \in CallIds : media'[d] = media[d] => MediaInv(d)'
    BY <1>2, <2>1, ObjectsKeep DEF HasRow
  <2>3. media' \in [CallIds -> [at : MediaAt, result : Result]]
    BY <1>1, <1>2 DEF MediaAt
  <2>4. \A d \in CallIds : MediaInv(d)'
    <3>1. carrier'[c] = s
      BY <1>1, <1>2 DEF CarrierMoves
    <3>2. Faithful(carrier'[c], c, media[c].result)
      BY <2>1, FaithfulAdvance DEF IInv, MediaInv
    <3>3. QED
      BY <1>1, <1>2, <2>2, <3>1, <3>2 DEF MediaInv
  <2>5. TypeOK'
    BY <1>2, <2>1, <2>3 DEF IInv, TypeOK
  <2>6. QED
    BY <1>2, <2>1, <2>2, <2>4, <2>5 DEF IInv, CreatorsApart
<1>3. CASE CarrierAccept(c)
  BY <1>2, <1>3 DEF CarrierAccept, Advance, CarrierStatus, CarrierLive
<1>4. CASE CarrierAnswer(c)
  BY <1>2, <1>4 DEF CarrierAnswer, Advance, CarrierStatus, CarrierLive
<1>5. CASE CarrierEnd(c)
  <2>1. Endings \subseteq CarrierStatus /\ "completed" \in CarrierStatus
    BY ConstantsAssumption DEF CarrierStatus, CarrierEndings
  <2>2. QED
    BY <1>2, <1>5, <2>1 DEF CarrierEnd, Advance
<1>6. CASE CarrierRefuse(c)
  <2>1. /\ carrier[c] = "ordered" /\ carrier' = [carrier EXCEPT ![c] = "refused"]
        /\ UNCHANGED <<payload, result, worker, dials, callbacks, handlers, media>>
    BY <1>6 DEF CarrierRefuse
  <2>2. \A d \in CallIds : /\ Advance(carrier[d], carrier'[d])
                           /\ carrier[d] = "none" <=> carrier'[d] = "none"
    BY <1>1, <2>1 DEF Advance
  <2>3. TypeOK'
    BY <1>1, <2>1 DEF IInv, TypeOK, CarrierState
  <2>4. QED
    BY <2>1, <2>2, <2>3, CarrierKeepsRows, ObjectsKeep
       DEF IInv, HasRow, CreatorsApart, CallbacksInv
<1>7. QED
  BY <1>3, <1>4, <1>5, <1>6 DEF CarrierNext

-------------------------------------------------------------------------------
(* The runtime's steps *)

\* A status webhook takes the row and a status the carrier has reported.
LEMMA StatusReceiveKeeps ==
    ASSUME IInv, NEW m \in callbacks, StatusReceive(m)
    PROVE  IInv'
<1>1. /\ m \in Webhook /\ m.call \in CallIds /\ m.status \in CarrierStatus
      /\ result[m.call] \in Result
  BY DEF IInv, TypeOK, Webhook
<1>2. /\ callbacks' = callbacks \ {m}
      /\ UNCHANGED <<payload, result, worker, carrier, dials, media>>
  BY DEF StatusReceive
<1>3. Faithful(carrier[m.call], m.call, result[m.call]) /\ Said(carrier[m.call], m.status)
  BY <1>1 DEF IInv, RowInv, CallbacksInv
<1>4. MapStatus(m.status) \in TaskState
  BY <1>1, <1>3, MappedIsFaithful
<1>5. ASSUME NEW h \in handlers' PROVE h \in Handler /\ HandlerInv(h)'
  <2>1. CASE h \in handlers
    BY <1>2, <2>1 DEF IInv, TypeOK, HandlerInv
  <2>2. CASE h = [call |-> m.call, status |-> MapStatus(m.status), result |-> result[m.call]]
    <3>1. h.call = m.call /\ h.status = MapStatus(m.status) /\ h.result = result[m.call]
      BY <2>2
    <3>2. h \in Handler
      BY <1>1, <1>4, <2>2 DEF Handler
    <3>3. \E s \in CarrierStatus : h.status = MapStatus(s) /\ Said(carrier'[h.call], s)
      BY <1>1, <1>2, <1>3, <3>1
    <3>4. QED
      BY <1>2, <1>3, <3>1, <3>2, <3>3 DEF HandlerInv
  <2>3. QED
    BY <1>5, <2>1, <2>2 DEF StatusReceive
<1>6. TypeOK'
  BY <1>2, <1>5 DEF IInv, TypeOK
<1>7. QED
  BY <1>2, <1>5, <1>6 DEF IInv, RowInv, HasRow, KeysApart, WorkerInv, CreatorsApart,
                          CallbacksInv, MediaInv, ReservationIsExclusive, Reserved

\* The runtime writes a faithful object over the row of call c; its session may move on to
\* hold that object.
LEMMA RuntimeWriteKeeps ==
    ASSUME IInv, NEW c \in CallIds, NEW r \in Result, Faithful(carrier[c], c, r),
           r.status # "confirmed", Update(c, r),
           UNCHANGED <<payload, worker, carrier, dials, callbacks>>,
           handlers' \subseteq handlers,
           \/ UNCHANGED media
           \/ \E at \in {"open", "finishing"} :
                  /\ carrier[c] \in {"in-progress", "completed"}
                  /\ media' = [media EXCEPT ![c] = [at |-> at, result |-> r]]
    PROVE  IInv'
<1>1. /\ result' \in [CallIds -> Result]
      /\ \A d \in CallIds : RowInv(d)'
      /\ KeysApart'
      /\ ReservationIsExclusive'
  BY WriteKeepsRows
<1>2. /\ \A v \in Workers : worker'[v] = worker[v] => WorkerInv(v)'
      /\ \A h \in handlers : HandlerInv(h)'
      /\ \A d \in CallIds : media'[d] = media[d] => MediaInv(d)'
  BY ObjectsKeep DEF HasRow, Advance
<1>3. media \in [CallIds -> [at : MediaAt, result : Result]]
  BY DEF IInv, TypeOK
<1>4. media' \in [CallIds -> [at : MediaAt, result : Result]]
  BY <1>3 DEF MediaAt
<1>5. \A d \in CallIds : MediaInv(d)'
  BY <1>2, <1>3 DEF MediaInv
<1>6. TypeOK'
  BY <1>1, <1>4 DEF IInv, TypeOK
<1>7. QED
  BY <1>1, <1>2, <1>5, <1>6 DEF IInv, CreatorsApart, CallbacksInv

\* A status webhook writes a faithful object, or nothing over a terminal one.
LEMMA StatusApplyKeeps ==
    ASSUME IInv, NEW h \in handlers, StatusApply(h)
    PROVE  IInv'
<1> DEFINE written == [h.result EXCEPT !.status = h.status]
<1>1. h \in Handler /\ h.call \in CallIds /\ h.result \in Result /\ HandlerInv(h)
  BY DEF IInv, TypeOK, Handler
<1>2. /\ handlers' = handlers \ {h}
      /\ UNCHANGED <<payload, worker, carrier, dials, callbacks, media>>
  BY DEF StatusApply
<1>3. CASE Update(h.call, written)
  <2>1. PICK s \in CarrierStatus : h.status = MapStatus(s) /\ Said(carrier[h.call], s)
    BY <1>1 DEF HandlerInv
  <2>2. /\ h.status \in TaskState \ {"confirmed"}
        /\ written \in Result
        /\ Faithful(carrier[h.call], h.call, written)
    BY <1>1, <2>1, MappedIsFaithful DEF HandlerInv
  <2>3. written.status # "confirmed"
    BY <1>1, <2>2 DEF Result
  <2>4. QED
    BY <1>1, <1>2, <1>3, <2>2, <2>3, RuntimeWriteKeeps
<1>4. CASE UNCHANGED result
  <2>1. TypeOK'
    BY <1>2, <1>4 DEF IInv, TypeOK
  <2>2. \A g \in handlers' : HandlerInv(g)'
    BY <1>2 DEF IInv, HandlerInv
  <2>3. QED
    BY <1>2, <1>4, <2>1, <2>2
       DEF IInv, RowInv, HasRow, KeysApart, WorkerInv, CreatorsApart, CallbacksInv,
           MediaInv, ReservationIsExclusive, Reserved
<1>5. QED
  BY <1>3, <1>4 DEF StatusApply

\* Only the media sessions move, each to an object it may hold.
LEMMA MediaOnlyKeeps ==
    ASSUME IInv, UNCHANGED <<payload, result, worker, carrier, dials, callbacks>>,
           handlers' \subseteq handlers,
           media' \in [CallIds -> [at : MediaAt, result : Result]],
           \A d \in CallIds : MediaInv(d)'
    PROVE  IInv'
<1>1. TypeOK'
  BY DEF IInv, TypeOK
<1>2. \A g \in handlers' : HandlerInv(g)'
  BY DEF IInv, HandlerInv
<1>3. QED
  BY <1>1, <1>2 DEF IInv, RowInv, HasRow, KeysApart, WorkerInv, CreatorsApart,
                    CallbacksInv, ReservationIsExclusive, Reserved

\* The media handler and its session write only of a call that was answered.
LEMMA MediaKeeps ==
    ASSUME IInv, NEW c \in CallIds,
           \/ MediaStart(c) \/ MediaDrop(c) \/ MediaRecord(c) \/ MediaWriteFails(c)
           \/ Outcome(c) \/ SessionHangup(c) \/ SessionClose(c)
    PROVE  IInv'
<1> DEFINE r == media[c].result
<1>1. /\ media \in [CallIds -> [at : MediaAt, result : Result]]
      /\ r \in Result /\ result[c] \in Result
      /\ Faithful(carrier[c], c, r) /\ Faithful(carrier[c], c, result[c])
      /\ \A d \in CallIds : MediaInv(d)
  BY DEF IInv, TypeOK, MediaInv, RowInv
<1>2. CASE MediaStart(c)
  <2>1. /\ media' = [media EXCEPT ![c] = [at |-> "starting", result |-> result[c]]]
        /\ UNCHANGED <<payload, result, worker, carrier, dials, callbacks, handlers>>
        /\ carrier[c] \in {"in-progress", "completed"}
    BY <1>1, <1>2 DEF MediaStart, MediaInv
  <2>2. media' \in [CallIds -> [at : MediaAt, result : Result]]
    BY <1>1, <2>1 DEF MediaAt
  <2>3. \A d \in CallIds : MediaInv(d)'
    BY <1>1, <2>1 DEF MediaInv
  <2>4. QED
    BY <2>1, <2>2, <2>3, MediaOnlyKeeps
<1>3. CASE MediaDrop(c) \/ MediaWriteFails(c) \/ SessionClose(c)
  <2>1. /\ media' = [media EXCEPT ![c].at = "closed"]
        /\ UNCHANGED <<payload, result, worker, carrier, dials, callbacks, handlers>>
    BY <1>3 DEF MediaDrop, MediaWriteFails, SessionClose
  <2>2. media' \in [CallIds -> [at : MediaAt, result : Result]]
    BY <1>1, <2>1 DEF MediaAt
  <2>3. \A d \in CallIds : MediaInv(d)'
    BY <1>1, <2>1 DEF MediaInv
  <2>4. QED
    BY <2>1, <2>2, <2>3, MediaOnlyKeeps
<1>4. CASE MediaRecord(c)
  <2> DEFINE written == [r EXCEPT !.status = "in_progress", !.provider_call_id = c]
  <2>1. written \in Result /\ written.status # "confirmed"
    BY <1>1 DEF Result, TaskState
  <2>2. carrier[c] \in {"in-progress", "completed"}
    BY <1>1, <1>4 DEF MediaRecord, MediaInv
  <2>3. Faithful(carrier[c], c, written)
    BY <1>1, <2>2 DEF Faithful, Truthful, Result, CarrierStatus, CarrierLive, CarrierEndings
  <2>4. QED
    BY <1>4, <2>1, <2>2, <2>3, RuntimeWriteKeeps DEF MediaRecord, MediaWrites
<1>5. CASE Outcome(c)
  <2> DEFINE written == [r EXCEPT !.status = "completed",
                                  !.outcome = "conversation_completed"]
  <2>1. written \in Result /\ written.status # "confirmed"
    BY <1>1 DEF Result, TaskState
  <2>2. carrier[c] \in {"in-progress", "completed"}
    BY <1>1, <1>5 DEF Outcome, SessionIsOpen, MediaInv
  <2>3. Faithful(carrier[c], c, written)
    BY <1>1, <2>2 DEF Faithful, Truthful, Result
  <2>4. QED
    BY <1>5, <2>1, <2>2, <2>3, RuntimeWriteKeeps DEF Outcome, MediaWrites
<1>6. CASE SessionHangup(c)
  <2>1. HangUp(c) /\ UNCHANGED <<payload, result, worker, dials, handlers, media>>
    BY <1>6 DEF SessionHangup
  <2>2. /\ carrier' \in [CallIds -> CarrierState]
        /\ callbacks' \subseteq Webhook
        /\ \A d \in CallIds : RowInv(d)'
        /\ KeysApart'
        /\ ReservationIsExclusive'
        /\ CallbacksInv'
        /\ \A d \in CallIds : Advance(carrier[d], carrier'[d])
    BY <2>1, HangUpKeeps
  <2>3. /\ \A v \in Workers : WorkerInv(v)'
        /\ \A h \in handlers : HandlerInv(h)'
        /\ \A d \in CallIds : MediaInv(d)'
    BY <2>1, <2>2, ObjectsKeep DEF HasRow
  <2>4. TypeOK'
    BY <2>1, <2>2 DEF IInv, TypeOK
  <2>5. QED
    BY <2>1, <2>2, <2>3, <2>4 DEF IInv, CreatorsApart
<1>7. QED
  BY <1>2, <1>3, <1>4, <1>5, <1>6

\* A webhook whose write fails only ends.
LEMMA StatusWriteFailsKeeps ==
    ASSUME IInv, NEW h \in handlers, StatusWriteFails(h)
    PROVE  IInv'
<1>1. UNCHANGED <<payload, result, worker, carrier, dials, callbacks, media>> /\ handlers' \subseteq handlers
  BY DEF StatusWriteFails
<1>2. media' \in [CallIds -> [at : MediaAt, result : Result]] /\ \A d \in CallIds : MediaInv(d)'
  BY <1>1 DEF IInv, TypeOK, MediaInv
<1>3. QED
  BY <1>1, <1>2, MediaOnlyKeeps

\* A runtime that dies writes nothing and leaves no session open.
LEMMA RuntimeCrashKeeps ==
    ASSUME IInv, RuntimeCrash
    PROVE  IInv'
<1>1. media \in [CallIds -> [at : MediaAt, result : Result]]
  BY DEF IInv, TypeOK
<1>2. media' = [c \in CallIds |-> IF media[c].at = "none" THEN media[c]
                                  ELSE [media[c] EXCEPT !.at = "closed"]]
  BY DEF RuntimeCrash
<1>3. media' \in [CallIds -> [at : MediaAt, result : Result]]
  BY <1>1, <1>2 DEF MediaAt
<1>4. \A d \in CallIds : MediaInv(d)'
  BY <1>1, <1>2 DEF IInv, MediaInv, RuntimeCrash
<1>5. QED
  BY <1>3, <1>4, MediaOnlyKeeps DEF RuntimeCrash

-------------------------------------------------------------------------------
(* The invariant and the safety properties *)

\* Every step keeps the invariant: one lemma for each handler, carrier step and crash.
LEMMA NextIInv == IInv /\ [Next]_vars => IInv'
<1> SUFFICES ASSUME IInv, [Next]_vars PROVE IInv'
  OBVIOUS
<1>1. ASSUME NEW w \in Workers, WorkerNext(w) PROVE IInv'
  BY <1>1, ReserveKeeps, PlaceCallKeeps, CreateKeeps, PollKeeps, CancelKeeps, CrashKeeps
     DEF WorkerNext
<1>2. ASSUME NEW c \in CallIds, CarrierNext(c) PROVE IInv'
  BY <1>2, CarrierNextKeeps
<1>3. CASE RuntimeNext
  BY <1>3, StatusReceiveKeeps, StatusApplyKeeps, StatusWriteFailsKeeps, MediaKeeps, RuntimeCrashKeeps
     DEF RuntimeNext
<1>4. CASE UNCHANGED vars
  <2>1. TypeOK'
    BY <1>4 DEF vars, IInv, TypeOK
  <2>2. \A h \in handlers' : HandlerInv(h)'
    BY <1>4 DEF vars, IInv, HandlerInv
  <2>3. QED
    BY <1>4, <2>1, <2>2
       DEF vars, IInv, RowInv, HasRow, KeysApart, WorkerInv, CreatorsApart, CallbacksInv,
           MediaInv, ReservationIsExclusive, Reserved
<1>5. QED
  BY <1>1, <1>2, <1>3, <1>4 DEF Next

\* The inductive invariant holds in every reachable state.
THEOREM Invariance == Spec => []IInv
BY InitIInv, NextIInv, PTL DEF Spec

\* Every variable keeps its type; in particular no raw carrier status reaches a row.
THEOREM TypeCorrectness == Spec => []TypeOK
<1>1. IInv => TypeOK
  BY DEF IInv
<1>2. QED
  BY <1>1, Invariance, PTL

\* At most one carrier order per idempotency key, and only for allowed tasks.
THEOREM AtMostOneDial == Spec => []NoSecondDial
<1>1. IInv => NoSecondDial
  BY DEF IInv, TypeOK, RowInv, KeysApart, NoSecondDial
<1>2. QED
  BY <1>1, Invariance, PTL

\* No row says of its call what neither carrier nor session did.
THEOREM Honesty == Spec => []HonestResults
<1>1. IInv => HonestResults
  BY DEF IInv, RowInv, Faithful, HonestResults
<1>2. QED
  BY <1>1, Invariance, PTL

\* A cancelled row never names a live carrier call.
THEOREM CancellationHangsUp == Spec => []CancelledIsHungUp
<1>1. IInv => CancelledIsHungUp
  BY DEF IInv, RowInv, Faithful, CancelledIsHungUp, Live
<1>2. QED
  BY <1>1, Invariance, PTL

\* Two reservations never wait for their carrier order at once.
THEOREM ExclusiveReservation == Spec => []ReservationIsExclusive
<1>1. IInv => ReservationIsExclusive
  BY DEF IInv
<1>2. QED
  BY <1>1, Invariance, PTL

-------------------------------------------------------------------------------
(* The abstract promise *)

\* Nothing is accepted or attempted at first.
LEMMA InitImplements == Init => Attempts!Init
BY DEF Init, Attempts!Init, TasksOf, OrdersOf, CallsOf, HasRow

\* Only Reserve and PlaceCall touch what the abstract specification sees.
LEMMA OthersStutter ==
    ASSUME [Next]_vars,
           \A w \in Workers : ~PlaceCall(w) /\ \A k \in Keys, t \in Tasks : ~Reserve(w, k, t)
    PROVE  UNCHANGED <<payload, dials>>
BY DEF Next, vars, WorkerNext, CarrierNext, RuntimeNext, CreateReturn, CreateFails,
       CreateStoreError, WriteFails, StatusWriteFails, MediaWriteFails, WriteAndReply, ReplyOnly, GetStatus, PollAnswer, PollError, PollApply,
       Cancel, CancelHangup, CancelError, CancelWrite, Crash, CarrierAccept, CarrierRefuse,
       CarrierAnswer, CarrierEnd, StatusReceive, StatusApply, MediaStart, MediaDrop,
       MediaRecord, MediaWrites, Outcome, SessionHangup, SessionClose, RuntimeCrash

\* A reservation accepts its key for its task, under one receipt.
LEMMA ReserveAccepts ==
    ASSUME IInv, NEW w \in Workers, NEW k \in Keys, NEW t \in Tasks, Reserve(w, k, t)
    PROVE  Attempts!Accept(k, t)
<1> USE NoneIsNoPayload
<1>1. PICK c \in CallIds :
          /\ ~HasRow(c)
          /\ payload' = [payload EXCEPT ![c] = [key |-> k, task |-> t]]
  BY DEF Reserve
<1>2. /\ payload \in [CallIds -> Payload \cup {None}]
      /\ dials' = dials
      /\ [key |-> k, task |-> t] # None
  BY DEF IInv, TypeOK, Reserve, Payload
<1>3. CallsOf(k) = {} /\ t \in Allowed
  BY DEF Reserve, KeyIsFree, CallsOf, HasRow
<1>4. dials[c] = 0
  BY <1>1 DEF IInv, RowInv
<1>5. CallsOf(k)' = {c}
  BY <1>1, <1>2, <1>3 DEF CallsOf, HasRow
<1>6. \A j \in Keys \ {k} : CallsOf(j)' = CallsOf(j)
  BY <1>1, <1>2 DEF CallsOf, HasRow
<1>7. TasksOf(k) = {} /\ TasksOf(k)' = {t}
  BY <1>1, <1>2, <1>3, <1>5 DEF TasksOf
<1>8. \A j \in Keys \ {k} : TasksOf(j)' = TasksOf(j)
  BY <1>1, <1>2, <1>6 DEF TasksOf, CallsOf
<1>9. OrdersOf(k) = {} /\ OrdersOf(k)' = {}
  BY <1>2, <1>3, <1>4, <1>5 DEF OrdersOf
<1>10. \A j \in Keys \ {k} : OrdersOf(j)' = OrdersOf(j)
  BY <1>2, <1>6 DEF OrdersOf
<1>11. QED
  BY <1>3, <1>7, <1>8, <1>9, <1>10 DEF Attempts!Accept

\* An order is the first and only attempt under the receipt of its key.
LEMMA PlaceCallAttempts ==
    ASSUME IInv, NEW w \in Workers, PlaceCall(w),
           NEW c, c = worker[w].call, NEW k, k = payload[c].key
    PROVE  Attempts!Attempt(k, c)
<1> USE NoneIsNoPayload
<1>1. c \in CallIds /\ HasRow(c) /\ dials[c] = 0
  BY DEF PlaceCall, IInv, WorkerInv
<1>2. /\ payload' = payload
      /\ dials' = [dials EXCEPT ![c] = @ + 1]
      /\ dials \in [CallIds -> Nat]
      /\ payload[c] \in Payload
  BY <1>1 DEF PlaceCall, IInv, TypeOK, HasRow
<1>3. k \in Keys
  BY <1>2 DEF Payload
<1>4. CallsOf(k) = {c}
  BY <1>1 DEF IInv, KeysApart, CallsOf
<1>5. \A j \in Keys : CallsOf(j)' = CallsOf(j)
  BY <1>2 DEF CallsOf, HasRow
<1>6. \A j \in Keys \ {k} : c \notin CallsOf(j)
  BY DEF CallsOf
<1>7. \A j \in Keys : TasksOf(j)' = TasksOf(j)
  BY <1>2, <1>5 DEF TasksOf
<1>8. TasksOf(k) # {}
  BY <1>4 DEF TasksOf
<1>9. OrdersOf(k) = {} /\ OrdersOf(k)' = {<<c, 1>>}
  <2>1. dials'[c] = 1 /\ 1..1 = {1} /\ 1..0 = {}
    BY <1>1, <1>2
  <2>2. OrdersOf(k) = {c} \X (1..dials[c]) /\ OrdersOf(k)' = {c} \X (1..dials'[c])
    <3>1. {{d} \X (1..dials[d]) : d \in CallsOf(k)} = {{c} \X (1..dials[c])}
      BY <1>4
    <3>2. {{d} \X (1..dials'[d]) : d \in CallsOf(k)'} = {{c} \X (1..dials'[c])}
      BY <1>3, <1>4, <1>5
    <3>3. \A S : UNION {S} = S
      OBVIOUS
    <3>4. QED
      BY <3>1, <3>2, <3>3 DEF OrdersOf
  <2>3. {c} \X {1} = {<<c, 1>>} /\ {c} \X {} = {}
    OBVIOUS
  <2>4. QED
    BY <1>1, <2>1, <2>2, <2>3
<1>10. \A j \in Keys \ {k} : OrdersOf(j)' = OrdersOf(j)
  BY <1>2, <1>5, <1>6 DEF OrdersOf, CallsOf
<1>11. [j \in Keys |-> OrdersOf(j)]' = [[j \in Keys |-> OrdersOf(j)] EXCEPT ![k] = {<<c, 1>>}]
  BY <1>3, <1>9, <1>10
<1>12. [j \in Keys |-> TasksOf(j)]' = [j \in Keys |-> TasksOf(j)]
  BY <1>7
<1>13. QED
  BY <1>3, <1>8, <1>9, <1>11, <1>12 DEF Attempts!Attempt

\* Every step is a step of the abstract specification or leaves its variables unchanged.
LEMMA NextImplements == IInv /\ [Next]_vars => [Attempts!Next]_Attempts!avars
<1> SUFFICES ASSUME IInv, [Next]_vars PROVE [Attempts!Next]_Attempts!avars
  OBVIOUS
<1>1. ASSUME NEW w \in Workers, NEW k \in Keys, NEW t \in Tasks, Reserve(w, k, t)
      PROVE  Attempts!Next
  BY <1>1, ReserveAccepts DEF Attempts!Next
<1>2. ASSUME NEW w \in Workers, PlaceCall(w) PROVE Attempts!Next
  <2>1. worker[w].call \in CallIds /\ payload[worker[w].call].key \in Keys
    BY <1>2 DEF PlaceCall, IInv, WorkerInv, TypeOK, HasRow, Payload
  <2>2. QED
    BY <1>2, <2>1, PlaceCallAttempts DEF Attempts!Next
<1>3. CASE UNCHANGED <<payload, dials>>
  BY <1>3 DEF Attempts!avars, TasksOf, OrdersOf, CallsOf, HasRow
<1>4. QED
  BY <1>1, <1>2, <1>3, OthersStutter

\* The table, the handlers and the carrier together implement "one attempt at most per key".
THEOREM Implementation == Spec => ImplementsAttempts
BY InitIInv, NextIInv, InitImplements, NextImplements, PTL
   DEF Spec, ImplementsAttempts, Attempts!Spec
==============================================================================
