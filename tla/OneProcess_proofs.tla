-------------------------- MODULE OneProcess_proofs --------------------------
(***************************************************************************)
(* Proofs about PhoneTasks when a single process uses the store and no     *)
(* callback reaches it, as the one_process run has it: one task is active  *)
(* at a time, a terminal row is final, and a row that names its carrier    *)
(* call keeps naming it.  Nothing is assumed of the faults for these; they *)
(* fail as soon as a second writer holds a copy of the row.  The invariant *)
(* is that there is none: while the process is in a handler, the row of    *)
(* the call it works on is active and equals the object in its hand.       *)
(***************************************************************************)
EXTENDS PhoneTasks_proofs

\* One process, and no callback runtime
Alone == (\A v, w \in Workers : v = w) /\ Runtime = FALSE

Unreached == callbacks = {} /\ handlers = {} /\ \A c \in CallIds : media[c].at = "none"

WorksOnActive ==
    \A w \in Workers : worker[w].at # "idle" => ~Terminal(result[worker[w].call])

AloneInv == Unreached /\ WorksOnActive /\ OneActiveTask

\* What a step may do to the rows: write the one the process works on, or add one to a store
\* with no active row.
RowsStep ==
    \/ UNCHANGED <<payload, result>>
    \/ \E c \in CallIds : \E r :
          Active(c) /\ UNCHANGED payload /\ result' = [result EXCEPT ![c] = r]
    \/ \E c \in CallIds : \E p, r :
          /\ NothingActive /\ ~HasRow(c)
          /\ payload' = [payload EXCEPT ![c] = p] /\ result' = [result EXCEPT ![c] = r]

LEMMA RowsStayApart ==
    ASSUME IInv, OneActiveTask, RowsStep
    PROVE  /\ OneActiveTask'
           /\ \A c \in CallIds : HasRow(c) /\ Terminal(result[c]) => result'[c] = result[c]
<1>1. payload \in [CallIds -> Payload \cup {None}] /\ result \in [CallIds -> Result]
  BY DEF IInv, TypeOK
<1>2. CASE UNCHANGED <<payload, result>>
  BY <1>2 DEF OneActiveTask, Active, HasRow
<1>3. ASSUME NEW c \in CallIds, NEW r,
             Active(c), UNCHANGED payload, result' = [result EXCEPT ![c] = r]
      PROVE  /\ OneActiveTask'
             /\ \A d \in CallIds : HasRow(d) /\ Terminal(result[d]) => result'[d] = result[d]
  BY <1>1, <1>3 DEF OneActiveTask, Active, HasRow
<1>4. ASSUME NEW c \in CallIds, NEW p, NEW r, NothingActive, ~HasRow(c),
             payload' = [payload EXCEPT ![c] = p], result' = [result EXCEPT ![c] = r]
      PROVE  /\ OneActiveTask'
             /\ \A d \in CallIds : HasRow(d) /\ Terminal(result[d]) => result'[d] = result[d]
  BY <1>1, <1>4 DEF OneActiveTask, NothingActive, Active, HasRow
<1> QED
  BY <1>2, <1>3, <1>4 DEF RowsStep

\* The process w goes on with the call it works on, or with an active one, or becomes idle.
GoesOn(w) ==
    /\ UNCHANGED <<payload, result, callbacks, handlers, media>>
    /\ \/ worker' = [worker EXCEPT ![w] = Idle]
       \/ worker'[w].call = worker[w].call /\ worker[w].at # "idle"
       \/ worker'[w].call \in CallIds /\ Active(worker'[w].call)

\* A step of the process, seen from the rows and from its next one.
LEMMA AloneWorker ==
    ASSUME Alone, IInv, AloneInv, NEW w \in Workers, WorkerNext(w)
    PROVE  RowsStep /\ Unreached' /\ WorksOnActive'
<1> USE DEF AloneInv
<1>1. /\ worker \in [Workers -> WorkerState] /\ result \in [CallIds -> Result]
      /\ worker[w].at # "idle" => worker[w].call \in CallIds /\ Active(worker[w].call)
      /\ \A v \in Workers : v = w
  BY DEF Alone, IInv, TypeOK, WorkerInv, WorksOnActive, Active
<1>2. ASSUME GoesOn(w) PROVE RowsStep /\ Unreached' /\ WorksOnActive'
  BY <1>1, <1>2 DEF GoesOn, RowsStep, Unreached, WorksOnActive, Active, Idle
<1>3. ASSUME NEW r, WriteAndReply(w, r), worker[w].at # "idle"
      PROVE  RowsStep /\ Unreached' /\ WorksOnActive'
  BY <1>1, <1>3 DEF WriteAndReply, Update, RowsStep, Unreached, WorksOnActive, Idle
<1>4. ASSUME NEW k \in Keys, NEW t \in Tasks, Reserve(w, k, t)
      PROVE  RowsStep /\ Unreached' /\ WorksOnActive'
  <2>1. PICK c \in CallIds :
           /\ NothingActive /\ ~HasRow(c)
           /\ payload' = [payload EXCEPT ![c] = [key |-> k, task |-> t]]
           /\ result' = [result EXCEPT ![c] = NewResult]
           /\ worker' = [worker EXCEPT ![w] = [Idle EXCEPT !.at = "reserved", !.call = c]]
           /\ UNCHANGED <<callbacks, handlers, media>>
    BY <1>4 DEF Reserve, Update
  <2>2. worker'[w].call = c /\ result'[c] = NewResult
    BY <1>1, <2>1 DEF Idle
  <2>3. ~Terminal(NewResult)
    BY DEF Terminal, NewResult, TERMINAL_STATES
  <2> QED
    BY <1>1, <2>1, <2>2, <2>3 DEF RowsStep, Unreached, WorksOnActive
<1>5. ASSUME \/ PlaceCall(w) \/ PollAnswer(w) \/ PollError(w) \/ Crash(w) \/ WriteFails(w)
             \/ \E c \in CallIds : GetStatus(w, c) \/ Cancel(w, c)
      PROVE  RowsStep /\ Unreached' /\ WorksOnActive'
  <2>1. CASE PlaceCall(w) \/ PollAnswer(w)
    BY <1>1, <1>2, <2>1 DEF GoesOn, PlaceCall, PollAnswer, WorkerState
  <2>2. CASE PollError(w) \/ Crash(w) \/ WriteFails(w)
    BY <1>2, <2>2 DEF GoesOn, PollError, ReplyOnly, Crash, WriteFails
  <2>3. ASSUME NEW c \in CallIds, GetStatus(w, c) \/ Cancel(w, c) PROVE GoesOn(w)
    BY <1>1, <2>3 DEF GoesOn, GetStatus, Cancel, Idle, Active
  <2> QED
    BY <1>2, <1>5, <2>1, <2>2, <2>3
<1>6. ASSUME CancelHangup(w) \/ CancelError(w)
      PROVE  RowsStep /\ Unreached' /\ WorksOnActive'
  <2>1. UNCHANGED callbacks
    BY <1>6 DEF CancelHangup, CancelError, HangUp, CarrierMoves, Alone
  <2>2. GoesOn(w)
    BY <1>1, <1>6, <2>1 DEF GoesOn, CancelHangup, CancelError, ReplyOnly, WorkerState
  <2> QED
    BY <1>2, <2>2
<1>7. ASSUME CreateReturn(w) \/ CreateFails(w) \/ CreateStoreError(w) \/ CancelWrite(w)
      PROVE  RowsStep /\ Unreached' /\ WorksOnActive'
  BY <1>3, <1>7 DEF CreateReturn, CreateFails, CreateStoreError, CancelWrite
<1>8. ASSUME PollApply(w)
      PROVE  RowsStep /\ Unreached' /\ WorksOnActive'
  <2>1. worker[w].at = "polled"
    BY <1>8 DEF PollApply
  <2>2. CASE ReplyOnly(w) /\ UNCHANGED <<carrier, callbacks>>
    BY <1>2, <2>2 DEF GoesOn, ReplyOnly
  <2> QED
    BY <1>3, <1>8, <2>1, <2>2 DEF PollApply
<1> QED
  BY <1>4, <1>5, <1>6, <1>7, <1>8 DEF WorkerNext

\* The carrier, and the runtime nothing has reached.
LEMMA AloneOthers ==
    ASSUME Alone, AloneInv, (\E c \in CallIds : CarrierNext(c)) \/ RuntimeNext \/ UNCHANGED vars
    PROVE  RowsStep /\ Unreached' /\ WorksOnActive'
<1> USE DEF AloneInv
<1>1. ASSUME UNCHANGED <<payload, result, worker>>, Unreached'
      PROVE  RowsStep /\ Unreached' /\ WorksOnActive'
  BY <1>1 DEF RowsStep, WorksOnActive
<1>2. ASSUME NEW c \in CallIds, CarrierNext(c)
      PROVE  RowsStep /\ Unreached' /\ WorksOnActive'
  <2>1. UNCHANGED <<payload, result, worker, callbacks, handlers, media>>
    BY <1>2
    DEF CarrierNext, CarrierAccept, CarrierRefuse, CarrierAnswer, CarrierEnd, CarrierMoves, Alone
  <2> QED
    BY <1>1, <2>1 DEF Unreached
<1>3. CASE RuntimeNext
  <2>1. RuntimeCrash
    BY <1>3
    DEF RuntimeNext, Unreached, MediaStart, MediaDrop, MediaRecord, MediaWriteFails, Outcome, SessionHangup,
        SessionClose, SessionIsOpen
  <2>2. Unreached'
    BY <2>1 DEF RuntimeCrash, Unreached
  <2> QED
    BY <1>1, <2>1, <2>2 DEF RuntimeCrash
<1>4. CASE UNCHANGED vars
  BY <1>1, <1>4 DEF vars, Unreached
<1> QED
  BY <1>2, <1>3, <1>4

LEMMA AloneStep ==
    ASSUME Alone, IInv, AloneInv, [Next]_vars
    PROVE  /\ AloneInv'
           /\ \A c \in CallIds : HasRow(c) /\ Terminal(result[c]) => result'[c] = result[c]
<1>1. RowsStep /\ Unreached' /\ WorksOnActive'
  BY AloneWorker, AloneOthers DEF Next
<1> QED
  BY <1>1, RowsStayApart DEF AloneInv

LEMMA AloneInit == Init => AloneInv
BY DEF Init, AloneInv, Unreached, WorksOnActive, OneActiveTask, Active, HasRow, Idle, NoMedia

\* A process that nothing writes behind works on active rows only, and on one task at a time.
THEOREM AloneInvariance == ASSUME Alone PROVE Spec => []AloneInv
BY AloneInit, AloneStep, Invariance, PTL DEF Spec

\* store.reserve's ActiveCall keeps its promise for a single process: one active task.
THEOREM SingleActiveTask == ASSUME Alone PROVE Spec => []OneActiveTask
<1>1. AloneInv => OneActiveTask
  BY DEF AloneInv
<1> QED
  BY <1>1, AloneInvariance, PTL

\* And a row that became terminal stays as it is (the early returns in server.py).
THEOREM TerminalStays == ASSUME Alone PROVE Spec => TerminalIsFinal
BY AloneInvariance, AloneStep, Invariance, PTL DEF Spec, TerminalIsFinal
-------------------------------------------------------------------------------
(* No object is stale *)

\* The object the process has in hand is the row it was read from.
HoldsTheRow ==
    \A w \in Workers : worker[w].at # "idle" => worker[w].result = result[worker[w].call]

\* A step of the process: it goes on with the object it has, reads one, or writes and is done.
\* What it writes names the call as its object did, or, for the call it placed, by its own id.
LEMMA HoldsWorker ==
    ASSUME Alone, IInv, AloneInv, HoldsTheRow, NEW w \in Workers, WorkerNext(w)
    PROVE  /\ HoldsTheRow'
           /\ \A c \in CallIds : result[c].provider_call_id # None =>
                 result'[c].provider_call_id = result[c].provider_call_id
<1> DEFINE Correlated == \A c \in CallIds : result[c].provider_call_id # None =>
                            result'[c].provider_call_id = result[c].provider_call_id
<1>1. /\ worker \in [Workers -> WorkerState] /\ result \in [CallIds -> Result]
      /\ \A v \in Workers : v = w
      /\ worker[w].at # "idle" =>
            worker[w].call \in CallIds /\ worker[w].result = result[worker[w].call]
  BY DEF Alone, IInv, TypeOK, WorkerInv, HoldsTheRow
<1>2. \A c \in CallIds :
         result[c].provider_call_id # None => HasRow(c) /\ result[c].provider_call_id = c
  BY DEF IInv, RowInv, Faithful, Truthful, CarrierStatus, CarrierLive, CarrierEndings,
         UnansweredEndings
<1>3. ASSUME NEW k \in Keys, NEW t \in Tasks, Reserve(w, k, t)
      PROVE  HoldsTheRow' /\ Correlated
  <2>1. PICK c \in CallIds :
           /\ ~HasRow(c)
           /\ result' = [result EXCEPT ![c] = NewResult]
           /\ worker' = [worker EXCEPT ![w] = [Idle EXCEPT !.at = "reserved", !.call = c]]
    BY <1>3 DEF Reserve, Update
  <2>2. worker'[w].call = c /\ worker'[w].result = NewResult /\ result'[c] = NewResult
    BY <1>1, <2>1 DEF Idle
  <2>3. HoldsTheRow'
    BY <1>1, <2>2 DEF HoldsTheRow
  <2> QED
    BY <1>1, <1>2, <2>1, <2>3
<1>4. ASSUME \/ PlaceCall(w) \/ PollAnswer(w) \/ PollError(w) \/ Crash(w) \/ WriteFails(w)
             \/ CancelHangup(w) \/ CancelError(w)
             \/ \E c \in CallIds : GetStatus(w, c) \/ Cancel(w, c)
      PROVE  HoldsTheRow' /\ Correlated
  <2>1. UNCHANGED result
    BY <1>4 DEF PlaceCall, PollAnswer, PollError, Crash, WriteFails, CancelHangup, CancelError, ReplyOnly,
       GetStatus, Cancel
  <2>2. CASE PlaceCall(w) \/ PollAnswer(w) \/ CancelHangup(w)
    <3>1. worker[w].at # "idle" /\ worker'[w].call = worker[w].call
          /\ worker'[w].result = worker[w].result
      BY <1>1, <2>2 DEF PlaceCall, PollAnswer, CancelHangup, WorkerState
    <3> QED
      BY <1>1, <2>1, <3>1 DEF HoldsTheRow
  <2>3. CASE PollError(w) \/ Crash(w) \/ WriteFails(w) \/ CancelError(w)
    <3>1. worker'[w].at = "idle"
      BY <1>1, <2>3 DEF PollError, Crash, WriteFails, CancelError, ReplyOnly, Idle
    <3> QED
      BY <1>1, <2>1, <3>1 DEF HoldsTheRow
  <2>4. ASSUME NEW c \in CallIds, GetStatus(w, c) \/ Cancel(w, c) PROVE HoldsTheRow'
    <3>1. worker'[w].call = c /\ worker'[w].result = result[c]
      BY <1>1, <2>4 DEF GetStatus, Cancel, Idle
    <3> QED
      BY <1>1, <2>1, <3>1 DEF HoldsTheRow
  <2> QED
    BY <1>4, <2>1, <2>2, <2>3, <2>4
<1>5. ASSUME NEW r, WriteAndReply(w, r), worker[w].at # "idle",
             r.provider_call_id \in {worker[w].result.provider_call_id, worker[w].call}
      PROVE  HoldsTheRow' /\ Correlated
  <2>1. worker'[w].at = "idle"
    BY <1>1, <1>5 DEF WriteAndReply, Idle
  <2>2. HoldsTheRow'
    BY <1>1, <2>1 DEF HoldsTheRow
  <2> QED
    BY <1>1, <1>2, <1>5, <2>2 DEF WriteAndReply, Update
<1>6. /\ worker[w].result \in Result
      /\ worker[w].at = "polled" => MapStatus(worker[w].seen) \in TaskState
  BY <1>1, MappedIsFaithful DEF WorkerState, IInv, WorkerInv
<1>7. ASSUME CreateReturn(w) \/ CreateFails(w) \/ CreateStoreError(w) \/ CancelWrite(w)
      PROVE  HoldsTheRow' /\ Correlated
  <2>1. worker[w].at # "idle"
    BY <1>7 DEF CreateReturn, CreateFails, CreateStoreError, CancelWrite
  <2>2. CASE CreateReturn(w)
    BY <1>5, <1>6, <2>1, <2>2 DEF CreateReturn, Result
  <2>3. CASE CreateFails(w)
    BY <1>5, <1>6, <2>1, <2>3 DEF CreateFails, Rejected, Result
  <2>4. CASE CreateStoreError(w)
    BY <1>5, <1>6, <2>1, <2>4 DEF CreateStoreError, Rejected, Result
  <2>5. CASE CancelWrite(w)
    BY <1>5, <1>6, <2>1, <2>5 DEF CancelWrite, Result
  <2> QED
    BY <1>7, <2>2, <2>3, <2>4, <2>5
<1>8. ASSUME PollApply(w)
      PROVE  HoldsTheRow' /\ Correlated
  <2>1. worker[w].at = "polled"
    BY <1>8 DEF PollApply
  <2>2. CASE ReplyOnly(w)
    <3>1. worker'[w].at = "idle" /\ UNCHANGED result
      BY <1>1, <2>2 DEF ReplyOnly, Idle
    <3> QED
      BY <1>1, <3>1 DEF HoldsTheRow
  <2>3. CASE WriteAndReply(w, [worker[w].result EXCEPT !.status = MapStatus(worker[w].seen)])
    BY <1>5, <1>6, <2>1, <2>3 DEF Result
  <2> QED
    BY <1>8, <2>2, <2>3 DEF PollApply
<1> QED
  BY <1>3, <1>4, <1>7, <1>8 DEF WorkerNext

LEMMA HoldsStep ==
    ASSUME Alone, IInv, AloneInv, HoldsTheRow, [Next]_vars
    PROVE  /\ HoldsTheRow'
           /\ \A c \in CallIds : result[c].provider_call_id # None =>
                 result'[c].provider_call_id = result[c].provider_call_id
<1>1. CASE (\E c \in CallIds : CarrierNext(c)) \/ RuntimeNext \/ UNCHANGED vars
  <2>1. UNCHANGED <<worker, result>>
    <3>1. ASSUME NEW c \in CallIds, CarrierNext(c) PROVE UNCHANGED <<worker, result>>
      BY <3>1 DEF CarrierNext, CarrierAccept, CarrierRefuse, CarrierAnswer, CarrierEnd
    <3>2. CASE RuntimeNext
      BY <3>2
      DEF AloneInv, Unreached, RuntimeNext, MediaStart, MediaDrop, MediaRecord, MediaWriteFails, Outcome,
          SessionHangup, SessionClose, SessionIsOpen, RuntimeCrash
    <3> QED
      BY <1>1, <3>1, <3>2 DEF vars
  <2> QED
    BY <2>1 DEF HoldsTheRow
<1> QED
  BY <1>1, HoldsWorker DEF Next

LEMMA HoldsInit == Init => HoldsTheRow
BY DEF Init, HoldsTheRow, Idle

\* No object is ever stale: what stale_callback shows takes a second writer.
THEOREM NoStaleObject == ASSUME Alone PROVE Spec => []HoldsTheRow
BY HoldsInit, HoldsStep, AloneInvariance, Invariance, PTL DEF Spec

\* So a row that names its carrier call keeps naming it.
THEOREM CorrelationStays == ASSUME Alone PROVE Spec => CorrelationIsKept
BY HoldsStep, NoStaleObject, AloneInvariance, Invariance, PTL DEF Spec, CorrelationIsKept
===============================================================================
