---------------------------- MODULE DemoMode_proofs ----------------------------
(***************************************************************************)
(* Proofs about DemoMode, for any number of servers, keys, open requests   *)
(* and mishaps: when two calls of the relay may be up at once, and that    *)
(* neither store tells of a call what it was not.                          *)
(*                                                                         *)
(* The invariant says what is known of a call by whoever holds an object   *)
(* of it (a request's handler, a webhook), and each such fact survives     *)
(* every move of the call; and that a row is terminal while its call is up *)
(* only if the key is in the history variable `freed`.                     *)
(***************************************************************************)
EXTENDS DemoMode, TLAPS

-------------------------------------------------------------------------------
(* The inductive invariant *)

Talked(k) == call[k] \in {"in-progress", "completed"}
Over(k)   == call[k] \in CarrierEndings
Fresh(k)  == relay[k].status = "absent" /\ call[k] = "none" /\ media[k] = "none"

\* The relay's row names the call until it is over, unless a stale webhook erased the name.
Placed(k) ==
    /\ relay[k].status \notin {"absent", "confirmed"} /\ Accepted(k)
    /\ Active(relay[k].status) => relay[k].named \/ mishaps > 0

\* The server knows that its call was placed and not that it is over.
Ordered(k) == Active(local[k]) /\ local[k] # "confirmed"

\* The carrier has said that of the call of k.
Heard(said, k) ==
    /\ said \in CarrierStatus /\ Accepted(k)
    /\ said = "in-progress" => Talked(k)
    /\ said \in CarrierEndings => call[k] = said

\* How a row may be terminal while its call is up, or about to be.
Early(k) ==
    \/ relay[k].status = "completed" /\ media[k] = "told"
    \/ mishaps > 0 /\ relay[k].status = "failed"
    \/ mishaps > 0 /\ relay[k].status = "cancelled" /\ ~relay[k].named

RowInv(k) ==
    /\ relay[k].status = "absent" => Fresh(k)
    /\ HonestOf(relay[k].status, k)
    /\ relay[k].named => Accepted(k)
    /\ relay[k].status = "cancelled" /\ relay[k].named => Over(k)
    /\ Up(k) /\ ~Active(relay[k].status) => k \in freed /\ Early(k)

KeyInv(k) ==
    /\ RowInv(k)
    /\ local[k] = "absent" => Fresh(k)
    /\ media[k] # "none" => Talked(k)
    /\ HonestOf(local[k], k)
    /\ Ordered(k) => Placed(k)

HookInv(h) ==
    /\ mishaps > 0
    /\ Accepted(h.key)
    /\ h.status # "confirmed"
    /\ HonestOf(h.status, h.key)
    /\ h.status \in TERMINAL_STATES => Over(h.key)

RequestInv(s) ==
    LET k == request[s].key
    IN  /\ local[k] # "absent"
        /\ request[s].op = "create" => request[s].at \in {"sent", "dialing"}
        /\ request[s].op = "create" /\ request[s].at = "sent" => Fresh(k)
        /\ request[s].op # "create" => request[s].at # "dialing" /\ Placed(k)
        /\ request[s].at = "dialing" => relay[k].status # "absent"
        /\ request[s].row # "absent" => HonestOf(request[s].row, k)
        /\ request[s].at = "answered" => Heard(request[s].said, k)
        /\ request[s].at = "hungup" => Over(k)

Creates(s, k) == request[s] # None /\ request[s].op = "create" /\ request[s].key = k

OneCreate == \A k \in Keys : \A s, t \in Slots : Creates(s, k) /\ Creates(t, k) => s = t

OnePair == \A j, k \in Keys : Up(j) /\ Up(k) /\ j # k => j \in freed \/ k \in freed

\* A server waits for a request of its own.
Awaited ==
    \A p \in Servers :
        waits[p] # None => request[waits[p]] # None /\ ServerOf[request[waits[p]].key] = p

IInv ==
    /\ TypeOK
    /\ \A k \in Keys : KeyInv(k)
    /\ \A h \in hooks : HookInv(h)
    /\ \A s \in Slots : request[s] # None => RequestInv(s)
    /\ OneCreate
    /\ OnePair
    /\ Awaited

-------------------------------------------------------------------------------
(* What a step may do to a key, and what survives it *)

\* What is known of the call of k goes on being true.
Keeps(k) ==
    /\ Accepted(k) => Accepted(k)'
    /\ Talked(k) => Talked(k)'
    /\ Over(k) => call'[k] = call[k]
    /\ media[k] = "told" => media'[k] = "told"
    /\ relay[k].status # "absent" => relay'[k].status # "absent"

\* Nothing about k changes.
Same(k) ==
    /\ local'[k] = local[k] /\ relay'[k] = relay[k]
    /\ call'[k] = call[k] /\ media'[k] = media[k]
    /\ k \in freed => k \in freed'
    /\ mishaps > 0 => mishaps' > 0

LEMMA HonestKept ==
    ASSUME NEW k \in Keys, NEW status, HonestOf(status, k), Keeps(k)
    PROVE  HonestOf(status, k)'
BY DEF HonestOf, Keeps, Talked, Over, CarrierEndings, UnansweredEndings

LEMMA HeardKept ==
    ASSUME NEW k \in Keys, NEW said, Heard(said, k), Keeps(k)
    PROVE  Heard(said, k)'
BY DEF Heard, Keeps, Over

LEMMA SameKeeps ==
    ASSUME NEW k \in Keys, Same(k)
    PROVE  Keeps(k)
BY DEF Same, Keeps, Accepted, Talked

LEMMA SameRow ==
    ASSUME NEW k \in Keys, RowInv(k), relay'[k] = relay[k], call'[k] = call[k],
           relay[k].status = "absent" => media'[k] = media[k],
           media[k] = "told" => media'[k] = "told",
           k \in freed => k \in freed', mishaps > 0 => mishaps' > 0
    PROVE  RowInv(k)'
BY DEF RowInv, Fresh, HonestOf, Accepted, Over, Up, Live, Early

LEMMA SameKey ==
    ASSUME NEW k \in Keys, KeyInv(k), Same(k)
    PROVE  KeyInv(k)'
<1>1. RowInv(k)'
  BY SameRow DEF KeyInv, Same
<1> QED
  BY <1>1 DEF KeyInv, Same, Fresh, HonestOf, Accepted, Talked, Ordered, Placed

\* Every part of the invariant that is not about one key's variables.
LEMMA Preserved ==
    ASSUME IInv, TypeOK',
           \A k \in Keys : KeyInv(k)' /\ Keeps(k),
           \A k \in Keys : /\ local[k] # "absent" => local'[k] # "absent"
                           /\ Placed(k) => Placed(k)',
           mishaps > 0 => mishaps' > 0,
           \A h \in hooks' \ hooks : HookInv(h)',
           \A s \in Slots : request'[s] # None => request'[s] = request[s] \/ RequestInv(s)',
           \A s \in Slots : request'[s] # None /\ request'[s] = request[s] /\ request[s].op = "create"
                              /\ request[s].at = "sent" => Fresh(request[s].key)',
           OneCreate', OnePair', Awaited'
    PROVE  IInv'
<1>1. ASSUME NEW h \in hooks' PROVE HookInv(h)'
  <2>1. CASE h \in hooks
    <3>1. h.key \in Keys /\ HookInv(h)
      BY <2>1 DEF IInv, TypeOK, Hook
    <3>2. HonestOf(h.status, h.key)'
      BY <3>1, HonestKept DEF HookInv
    <3> QED
      BY <3>1, <3>2 DEF HookInv, Keeps, Over
  <2> QED
    BY <2>1
<1>2. ASSUME NEW s \in Slots, request'[s] # None PROVE RequestInv(s)'
  <2>1. CASE request'[s] = request[s]
    <3>1. PICK k \in Keys : k = request[s].key
      BY <1>2, <2>1 DEF IInv, TypeOK, Request
    <3>2. RequestInv(s)
      BY <1>2, <2>1 DEF IInv
    <3>3. PICK row, said : row = request[s].row /\ said = request[s].said
      OBVIOUS
    <3>4. row # "absent" => HonestOf(row, k)'
      BY <3>1, <3>2, <3>3, HonestKept DEF RequestInv
    <3>7. request[s].at = "answered" => Heard(said, k)'
      BY <3>1, <3>2, <3>3, HeardKept DEF RequestInv
    <3>5. request[s].at = "hungup" => Over(k)'
      BY <3>1, <3>2 DEF RequestInv, Keeps, Over
    <3>6. request[s].op = "create" /\ request[s].at = "sent" => Fresh(k)'
      BY <1>2, <2>1, <3>1
    <3>8. request[s].at = "dialing" => relay'[k].status # "absent"
      BY <3>1, <3>2 DEF RequestInv, Keeps
    <3> QED
      BY <2>1, <3>1, <3>2, <3>3, <3>4, <3>5, <3>6, <3>7, <3>8 DEF RequestInv
  <2> QED
    BY <1>2, <2>1
<1> QED
  BY <1>1, <1>2 DEF IInv

\* The carrier's words, once translated.
LEMMA Mapped ==
    ASSUME NEW k \in Keys, NEW said, Heard(said, k)
    PROVE  /\ MapStatus(said) \in TaskState \ {"confirmed"}
           /\ HonestOf(MapStatus(said), k)
           /\ MapStatus(said) \in TERMINAL_STATES => Over(k)
<1>1. /\ MapStatus(said) \in TaskState \ {"confirmed"}
      /\ MapStatus(said) \in TERMINAL_STATES <=> said \in CarrierEndings
      /\ MapStatus(said) = "dialing" => said = "ringing"
      /\ MapStatus(said) = "in_progress" => said = "in-progress"
      /\ MapStatus(said) = "completed" => said = "completed"
      /\ MapStatus(said) = "no_answer" => said = "no-answer"
      /\ MapStatus(said) = "declined" => said = "busy"
  BY DEF Heard, MapStatus, CarrierStatus, CarrierLive, CarrierEndings, UnansweredEndings,
         TaskState, TERMINAL_STATES
<1>2. /\ "completed" \in CarrierEndings /\ "no-answer" \in CarrierEndings
      /\ "busy" \in CarrierEndings
  BY DEF CarrierEndings, UnansweredEndings
<1> QED
  BY <1>1, <1>2 DEF Heard, HonestOf, Talked, Over

LEMMA OverIsNotUp ==
    ASSUME NEW k \in Keys, Over(k)
    PROVE  ~Up(k)
BY DEF Over, Up, Live, CarrierLive, CarrierEndings, UnansweredEndings

\* Who holds what the row of k is to become may write it.
LEMMA Written ==
    ASSUME IInv, NEW k \in Keys, NEW status \in TaskState \ {"confirmed"}, NEW named \in BOOLEAN,
           Writes(k, status, named), call' = call, Accepted(k) \/ ~named,
           relay[k].status # "absent",
           \A j \in Keys \ {k} : media'[j] = media[j], media[k] = "told" => media'[k] = "told",
           mishaps > 0 => mishaps' > 0,
           HonestOf(status, k)',
           status = "cancelled" /\ named => Over(k),
           Placed(k) /\ status \in {"dialing", "in_progress"} => named \/ mishaps' > 0,
           Up(k) /\ status \in TERMINAL_STATES =>
               \/ status = "completed" /\ media'[k] = "told"
               \/ mishaps' > 0 /\ status = "failed"
               \/ mishaps' > 0 /\ status = "cancelled" /\ ~named
    PROVE  /\ relay' \in [Keys -> Row] /\ freed' \subseteq Keys
           /\ \A j \in Keys : RowInv(j)'
           /\ \A j \in Keys : Keeps(j) /\ (Placed(j) => Placed(j)')
           /\ OnePair'
           /\ \A j \in Keys : Fresh(j) => Fresh(j)'
<1>1. /\ relay'[k] = [status |-> status, named |-> named]
      /\ \A j \in Keys \ {k} : relay'[j] = relay[j]
      /\ relay' \in [Keys -> Row]
  BY DEF Writes, IInv, TypeOK, Row, Status
<1>2. /\ freed \subseteq freed' /\ freed' \subseteq Keys
      /\ Up(k) /\ ~Active(status) => k \in freed'
  BY DEF Writes, IInv, TypeOK
<1>3. \A j \in Keys : Keeps(j)
  BY <1>1 DEF Keeps, Accepted, Talked, TaskState
<1>4. RowInv(k)'
  <2>1. Active(status) <=> status \notin TERMINAL_STATES
    BY DEF Active, TaskState
  <2>2. status # "absent"
    BY DEF TaskState
  <2>3. Up(k)' <=> Up(k)
    BY DEF Up, Live
  <2>4. Accepted(k)' <=> Accepted(k)
    BY DEF Accepted
  <2>5. Over(k)' <=> Over(k)
    BY DEF Over
  <2>6. /\ relay'[k].status = status /\ relay'[k].named = named
    BY <1>1
  <2>7. Up(k)' /\ ~Active(relay'[k].status) => k \in freed' /\ Early(k)'
    BY <1>2, <2>1, <2>3, <2>6 DEF Early
  <2>8. HonestOf(relay[k].status, k)'
    BY <2>6 DEF HonestOf
  <2> QED
    BY <2>2, <2>4, <2>5, <2>6, <2>7, <2>8 DEF RowInv
<1>5. ASSUME NEW j \in Keys \ {k} PROVE RowInv(j)'
  BY <1>1, <1>2, SameRow DEF IInv, KeyInv
<1>6. \A j \in Keys : Placed(j) => Placed(j)'
  BY <1>1 DEF Placed, Accepted, TaskState, Active, TERMINAL_STATES
<1>7. OnePair'
  BY <1>2 DEF IInv, OnePair, Up, Live
<1>8. \A j \in Keys : Fresh(j) => Fresh(j)'
  BY <1>1 DEF Fresh
<1> QED
  BY <1>1, <1>2, <1>3, <1>4, <1>5, <1>6, <1>7, <1>8

-------------------------------------------------------------------------------
(* How a handler's step ends *)

\* What a step of the relay that leaves the stores of the servers alone may do.
RelayFrame ==
    /\ relay' \in [Keys -> Row] /\ freed' \subseteq Keys /\ mishaps' \in Nat
    /\ call' \in [Keys -> CarrierStatus \cup {"none", "ordered", "refused"}]
    /\ media' \in [Keys -> {"none", "connected", "open", "told", "closed"}]
    /\ mishaps > 0 => mishaps' > 0
    /\ \A j \in Keys : /\ RowInv(j)' /\ Keeps(j)
                       /\ Placed(j) => Placed(j)'
                       /\ media'[j] # "none" => Talked(j)'
    /\ OnePair'

LEMMA Frames ==
    ASSUME IInv, UNCHANGED <<relay, media, call, freed>>,
           mishaps' \in Nat, mishaps > 0 => mishaps' > 0
    PROVE  RelayFrame /\ \A j \in Keys : Fresh(j) => Fresh(j)'
<1>1. ASSUME NEW j \in Keys PROVE RowInv(j)'
  BY SameRow DEF IInv, KeyInv
<1> QED
  BY <1>1 DEF IInv, TypeOK, RelayFrame, Keeps, Placed, Accepted, Talked, KeyInv, OnePair, Up, Live, Fresh

LEMMA MishapsGrow ==
    ASSUME IInv, Mishap \/ UNCHANGED mishaps
    PROVE  mishaps' \in Nat /\ (mishaps > 0 => mishaps' > 0) /\ (Mishap => mishaps' > 0)
BY DEF IInv, TypeOK, Mishap

\* The key of a server's row that did not change.
LEMMA LocalKept ==
    ASSUME IInv, RelayFrame, NEW j \in Keys, local'[j] = local[j], Fresh(j) => Fresh(j)'
    PROVE  KeyInv(j)'
<1>1. KeyInv(j) /\ RowInv(j)' /\ Keeps(j)
  BY DEF IInv, RelayFrame
<1>2. PICK status : status = local[j]
  OBVIOUS
<1>3. HonestOf(status, j)'
  BY <1>1, <1>2, HonestKept DEF KeyInv
<1> QED
  BY <1>1, <1>2, <1>3 DEF KeyInv, RelayFrame, Ordered

\* The key of a server's row that was written.
LEMMA LocalWritten ==
    ASSUME RelayFrame, NEW j \in Keys, NEW status \in TaskState, local'[j] = status,
           HonestOf(status, j)',
           status \in {"dialing", "in_progress"} => Placed(j)'
    PROVE  KeyInv(j)'
BY DEF KeyInv, RelayFrame, Ordered, Active, TaskState, TERMINAL_STATES

LEMMA OfRequest ==
    ASSUME IInv, NEW s \in Slots, request[s] # None
    PROVE  /\ request[s] \in Request /\ request[s].key \in Keys /\ RequestInv(s)
           /\ ServerOf[request[s].key] \in Servers
           /\ local[request[s].key] \in TaskState
BY DemoConstants DEF IInv, TypeOK, Request, RequestInv, Status

\* The handler of s has answered, and the server recorded `status` if it was still waiting.
LEMMA HandlerEnds ==
    ASSUME IInv, NEW s \in Slots, request[s] # None, NEW k, k = request[s].key,
           NEW status \in TaskState, Replies(s, status), hooks' = hooks, RelayFrame,
           HonestOf(status, k)',
           status \in {"dialing", "in_progress"} => Placed(k)',
           \A j \in Keys : Fresh(j) => Fresh(j)'
    PROVE  IInv'
<1>1. k \in Keys /\ RequestInv(s) /\ ServerOf[k] \in Servers /\ local[k] \in TaskState
  BY OfRequest
<1>2. /\ request' \in [Slots -> Request \cup {None}]
      /\ request'[s] = None /\ \A t \in Slots \ {s} : request'[t] = request[t]
  BY DEF Replies, IInv, TypeOK
<1>3. /\ local' \in [Keys -> Status] /\ waits' \in [Servers -> Slots \cup {None}]
      /\ \A j \in Keys \ {k} : local'[j] = local[j]
      /\ local'[k] \in {local[k], status}
      /\ \A p \in Servers : waits'[p] \in {None, waits[p]}
      /\ \A p \in Servers : waits[p] = s /\ p = ServerOf[k] => waits'[p] = None
  <2>1. local \in [Keys -> Status] /\ waits \in [Servers -> Slots \cup {None}]
    BY DEF IInv, TypeOK
  <2>2. CASE waits[ServerOf[k]] = s
    <3>1. /\ local' = [local EXCEPT ![k] = status]
          /\ waits' = [waits EXCEPT ![ServerOf[k]] = None]
      BY <2>2 DEF Replies, Records, Open
    <3> QED
      BY <1>1, <2>1, <3>1 DEF Status
  <2>3. CASE waits[ServerOf[k]] # s
    <3>1. local' = local /\ waits' = waits
      BY <2>3 DEF Replies, Open, serverVars
    <3> QED
      BY <2>1, <2>3, <3>1
  <2> QED
    BY <2>2, <2>3
<1>4. TypeOK'
  BY <1>2, <1>3 DEF TypeOK, IInv, RelayFrame
<1>5. ASSUME NEW j \in Keys PROVE KeyInv(j)'
  BY <1>1, <1>3, LocalKept, LocalWritten
<1>6. OneCreate'
  BY <1>2 DEF OneCreate, Creates, IInv
<1>7. Awaited'
  BY <1>2, <1>3, DemoConstants DEF Awaited, IInv, TypeOK
<1>8. \A j \in Keys : local[j] # "absent" => local'[j] # "absent"
  BY <1>3 DEF TaskState, RequestInv
<1>9. \A t \in Slots : request'[t] # None => request'[t] = request[t]
  BY <1>2
<1>10. ASSUME NEW t \in Slots, request'[t] # None, request'[t] = request[t],
              request[t].op = "create", request[t].at = "sent"
       PROVE  Fresh(request[t].key)'
  <2>1. PICK j \in Keys : j = request[t].key
    BY <1>10, OfRequest
  <2>2. Fresh(j)'
    BY <1>10, <2>1, OfRequest DEF RequestInv
  <2> QED
    BY <1>10, <2>1, <2>2
<1> QED
  BY <1>4, <1>5, <1>6, <1>7, <1>8, <1>9, <1>10, Preserved DEF RelayFrame

\* The handler of s goes on with its request, at `at`.
LEMMA HandlerGoes ==
    ASSUME IInv, NEW s \in Slots, request[s] # None, NEW r \in Request,
           request' = [request EXCEPT ![s] = r],
           r.op = request[s].op, r.key = request[s].key, r.at # "sent",
           UNCHANGED <<serverVars, hooks>>, RelayFrame,
           \A t \in Slots \ {s} : Creates(t, request[t].key) /\ request[t].at = "sent"
                                   => Fresh(request[t].key)',
           \A j \in Keys : local[j] = "absent" /\ Fresh(j) => Fresh(j)',
           RequestInv(s)'
    PROVE  IInv'
<1>1. /\ request' \in [Slots -> Request \cup {None}]
      /\ request'[s] = r /\ \A t \in Slots \ {s} : request'[t] = request[t]
  BY DEF IInv, TypeOK
<1>2. TypeOK'
  BY <1>1 DEF TypeOK, IInv, RelayFrame, serverVars
<1>3. ASSUME NEW j \in Keys PROVE KeyInv(j)'
  <2>1. PICK status : status = local[j]
    OBVIOUS
  <2>2. HonestOf(status, j)'
    BY <2>1, HonestKept DEF IInv, KeyInv, RelayFrame
  <2> QED
    BY <2>1, <2>2 DEF IInv, KeyInv, RelayFrame, Ordered, serverVars
<1>4. OneCreate'
  BY <1>1, DemoConstants DEF OneCreate, Creates, IInv
<1>5. Awaited'
  BY <1>1, DemoConstants DEF Awaited, IInv, TypeOK, serverVars
<1>6. ASSUME NEW t \in Slots, request'[t] # None, request'[t] = request[t],
             request[t].op = "create", request[t].at = "sent"
      PROVE  Fresh(request[t].key)'
  <2>1. t # s
    BY <1>1, <1>6
  <2> QED
    BY <1>6, <2>1 DEF Creates
<1>7. \A t \in Slots : request'[t] # None => request'[t] = request[t] \/ RequestInv(t)'
  BY <1>1
<1> QED
  BY <1>2, <1>3, <1>4, <1>5, <1>6, <1>7, Preserved DEF RelayFrame, serverVars

\* A step of the runtime or the carrier, which no request takes part in.
LEMMA Background ==
    ASSUME IInv, UNCHANGED <<serverVars, request>>, RelayFrame,
           hooks' \subseteq Hook, \A h \in hooks' \ hooks : HookInv(h)',
           \A j \in Keys : Fresh(j) => Fresh(j)'
    PROVE  IInv'
<1>1. TypeOK'
  BY DEF TypeOK, IInv, RelayFrame, serverVars
<1>2. ASSUME NEW j \in Keys PROVE KeyInv(j)'
  BY LocalKept DEF serverVars
<1>3. OneCreate' /\ Awaited'
  BY DEF OneCreate, Creates, Awaited, IInv, serverVars
<1>4. ASSUME NEW t \in Slots, request'[t] # None, request[t].op = "create", request[t].at = "sent"
      PROVE  Fresh(request[t].key)'
  <2>1. PICK j \in Keys : j = request[t].key
    BY <1>4, OfRequest
  <2>2. Fresh(j)'
    BY <1>4, <2>1, OfRequest DEF RequestInv
  <2> QED
    BY <1>4, <2>1, <2>2
<1> QED
  BY <1>1, <1>2, <1>3, <1>4, Preserved DEF RelayFrame, serverVars

-------------------------------------------------------------------------------
(* The relay's handlers, one step at a time *)

LEMMA ReserveStep ==
    ASSUME IInv, NEW s \in Slots, RelayReserve(s)
    PROVE  IInv'
<1>1. request[s] # None /\ request[s].at = "sent" /\ request[s].op = "create"
  BY DEF RelayReserve, AtRelay
<1>2. PICK k \in Keys : k = request[s].key
  BY <1>1, OfRequest
<1>3. RequestInv(s) /\ Fresh(k) /\ local[k] \in TaskState /\ request[s] \in Request
  BY <1>1, <1>2, OfRequest DEF RequestInv
<1>4. CASE ~RelayIsIdle
  <2>1. Refuses(s) /\ UNCHANGED <<relay, call, freed, hooks, media, mishaps>>
    BY <1>4 DEF RelayReserve
  <2>2. PICK status \in TaskState : status = Failed(request[s])
    BY <1>1 DEF Failed, TaskState
  <2>3. Replies(s, status)
    BY <2>1, <2>2 DEF Refuses
  <2>4. status = "failed"
    BY <1>1, <2>2 DEF Failed
  <2>5. RelayFrame /\ \A j \in Keys : Fresh(j) => Fresh(j)'
    BY <2>1, Frames, MishapsGrow
  <2>6. HonestOf(status, k)'
    BY <2>4 DEF HonestOf
  <2> QED
    BY <1>1, <1>2, <2>1, <2>3, <2>4, <2>5, <2>6, HandlerEnds
<1>5. CASE RelayIsIdle
  <2>1. /\ Writes(k, "confirmed", FALSE) /\ call' = [call EXCEPT ![k] = "ordered"]
        /\ Goes(s, "dialing") /\ UNCHANGED <<serverVars, hooks, media, mishaps>>
    BY <1>2, <1>5 DEF RelayReserve
  <2>2. Active("confirmed")
    BY DEF Active, TERMINAL_STATES
  <2>3. freed' = freed
    BY <2>1, <2>2 DEF Writes
  <2>4. /\ relay'[k] = [status |-> "confirmed", named |-> FALSE] /\ call'[k] = "ordered"
        /\ \A j \in Keys \ {k} : relay'[j] = relay[j] /\ call'[j] = call[j]
        /\ relay' \in [Keys -> Row]
        /\ call' \in [Keys -> CarrierStatus \cup {"none", "ordered", "refused"}]
    BY <2>1 DEF Writes, IInv, TypeOK, Row, Status, TaskState
  <2>5. ASSUME NEW j \in Keys
        PROVE  RowInv(j)' /\ Keeps(j) /\ (Placed(j) => Placed(j)') /\ (media'[j] # "none" => Talked(j)')
    <3>1. CASE j = k
      <4>1. "ordered" \notin CarrierStatus /\ "none" \notin CarrierEndings /\ "none" \notin CarrierStatus
        BY DEF CarrierStatus, CarrierEndings, CarrierLive, UnansweredEndings
      <4>2. media'[k] = "none"
        BY <1>3, <2>1 DEF Fresh
      <4> QED
        BY <1>3, <2>2, <2>4, <3>1, <4>1, <4>2
        DEF RowInv, Keeps, Placed, Fresh, HonestOf, Accepted, Talked, Over
    <3>2. CASE j # k
      <4>1. KeyInv(j) /\ relay'[j] = relay[j] /\ call'[j] = call[j] /\ media'[j] = media[j]
        BY <2>1, <2>4, <3>2 DEF IInv
      <4>2. RowInv(j)'
        BY <2>1, <2>3, <4>1, SameRow DEF KeyInv
      <4> QED
        BY <2>1, <4>1, <4>2 DEF Active, Keeps, Placed, Accepted, Talked, KeyInv
    <3> QED
      BY <3>1, <3>2
  <2>6. OnePair'
    <3>1. \A j \in Keys : Up(j) => j \in freed
      BY <1>5 DEF RelayIsIdle, IInv, KeyInv, RowInv
    <3>2. \A j \in Keys \ {k} : Up(j)' => j \in freed'
      BY <2>3, <2>4, <3>1 DEF Up, Live
    <3> QED
      BY <3>2 DEF OnePair
  <2>7. RelayFrame
    BY <2>1, <2>3, <2>4, <2>5, <2>6 DEF RelayFrame, IInv, TypeOK
  <2>8. PICK r \in Request : r = [request[s] EXCEPT !.at = "dialing"]
    BY <1>3 DEF Request
  <2>9. /\ request' = [request EXCEPT ![s] = r]
        /\ r.op = request[s].op /\ r.key = k /\ r.at = "dialing" /\ r.row = request[s].row
    BY <1>2, <1>3, <2>1, <2>8 DEF Goes, Request, IInv, TypeOK
  <2>10. request'[s] = r
    BY <2>9 DEF IInv, TypeOK
  <2>11. RequestInv(s)'
    <3>1. PICK row : row = request[s].row
      OBVIOUS
    <3>2. row # "absent" => HonestOf(row, k)'
      BY <1>2, <1>3, <2>7, <3>1, HonestKept DEF RequestInv, RelayFrame
    <3> QED
      BY <1>1, <1>2, <1>3, <2>1, <2>4, <2>9, <2>10, <3>1, <3>2 DEF RequestInv, serverVars
  <2>12. ASSUME NEW t \in Slots \ {s}, Creates(t, request[t].key), request[t].at = "sent"
         PROVE  Fresh(request[t].key)'
    <3>1. PICK j \in Keys : j = request[t].key
      BY <2>12, OfRequest DEF Creates
    <3>2. Fresh(j) /\ j # k
      BY <1>1, <1>2, <2>12, <3>1, OfRequest DEF Creates, RequestInv, IInv, OneCreate
    <3>3. Fresh(j)'
      BY <2>1, <2>4, <3>2 DEF Fresh
    <3>4. request'[t] = request[t]
      BY <2>9 DEF IInv, TypeOK
    <3> QED
      BY <3>1, <3>3, <3>4
  <2>13. ASSUME NEW j \in Keys, local[j] = "absent", Fresh(j) PROVE Fresh(j)'
    BY <1>3, <2>1, <2>4, <2>13 DEF Fresh, TaskState
  <2> QED
    BY <1>1, <1>2, <2>1, <2>7, <2>8, <2>9, <2>11, <2>12, <2>13, HandlerGoes
<1> QED
  BY <1>4, <1>5

\* A handler that writes the row of its call and ends.
LEMMA WriteAndEnd ==
    ASSUME IInv, NEW s \in Slots, request[s] # None, NEW k \in Keys, k = request[s].key,
           NEW status \in TaskState \ {"confirmed"}, NEW named \in BOOLEAN, NEW answer \in TaskState,
           Writes(k, status, named), Replies(s, answer), UNCHANGED <<call, media, hooks>>,
           mishaps' \in Nat, mishaps > 0 => mishaps' > 0,
           Accepted(k) \/ ~named, relay[k].status # "absent",
           HonestOf(status, k), status = "cancelled" /\ named => Over(k),
           status \in {"dialing", "in_progress"} => named \/ mishaps' > 0,
           Up(k) /\ status \in TERMINAL_STATES =>
               \/ status = "completed" /\ media[k] = "told"
               \/ mishaps' > 0 /\ status = "failed"
               \/ mishaps' > 0 /\ status = "cancelled" /\ ~named,
           HonestOf(answer, k),
           answer \in {"dialing", "in_progress"} => Accepted(k)
    PROVE  IInv'
<1>1. HonestOf(status, k)' /\ HonestOf(answer, k)'
  BY DEF HonestOf, Accepted
<1>2. /\ relay' \in [Keys -> Row] /\ freed' \subseteq Keys
      /\ \A j \in Keys : RowInv(j)' /\ Keeps(j) /\ (Placed(j) => Placed(j)')
      /\ OnePair' /\ \A j \in Keys : Fresh(j) => Fresh(j)'
  BY <1>1, Written
<1>3. \A j \in Keys : media'[j] # "none" => Talked(j)'
  BY DEF IInv, KeyInv, Talked
<1>4. RelayFrame
  BY <1>2, <1>3 DEF RelayFrame, IInv, TypeOK
<1>5. Accepted(k) => Placed(k)'
  BY DEF Writes, Placed, Accepted, IInv, TypeOK, TaskState, Active, TERMINAL_STATES
<1> QED
  BY <1>1, <1>2, <1>4, <1>5, HandlerEnds

\* The row of a request on its way through a handler is there.
LEMMA RowThere ==
    ASSUME IInv, NEW s \in Slots, request[s] # None, request[s].at # "sent" \/ request[s].op # "create"
    PROVE  relay[request[s].key].status # "absent"
BY OfRequest DEF RequestInv, Placed

LEMMA CreatingSteps ==
    ASSUME IInv, NEW s \in Slots, RelayRecords(s) \/ RelayRejects(s)
    PROVE  IInv'
<1>1. request[s] # None /\ request[s].at = "dialing"
  BY DEF RelayRecords, RelayRejects, AtRelay
<1>2. PICK k \in Keys : k = request[s].key
  BY <1>1, OfRequest
<1>3. RequestInv(s) /\ relay[k].status # "absent" /\ local[k] \in TaskState
  BY <1>1, <1>2, OfRequest, RowThere
<1>4. request[s].op = "create"
  BY <1>1, <1>3 DEF RequestInv
<1>5. CASE RelayRecords(s)
  <2>1. /\ Writes(k, "dialing", TRUE) /\ Replies(s, "dialing") /\ Accepted(k)
        /\ UNCHANGED <<hooks, media, call, mishaps>>
    BY <1>2, <1>4, <1>5 DEF RelayRecords, Answers, Answered
  <2>2. "dialing" \in TaskState \ {"confirmed"} /\ "dialing" \notin TERMINAL_STATES
    BY DEF TaskState, TERMINAL_STATES
  <2>3. HonestOf("dialing", k)
    BY <2>1 DEF HonestOf
  <2> QED
    BY <1>1, <1>2, <1>3, <2>1, <2>2, <2>3, WriteAndEnd DEF IInv, TypeOK
<1>6. CASE RelayRejects(s)
  <2>1. /\ Writes(k, "failed", FALSE) /\ Replies(s, "failed")
        /\ UNCHANGED <<hooks, media, call>>
    BY <1>2, <1>4, <1>6 DEF RelayRejects, Refuses, Failed
  <2>2. mishaps' \in Nat /\ (mishaps > 0 => mishaps' > 0) /\ (Up(k) => mishaps' > 0)
    <3>1. mishaps \in Nat
      BY DEF IInv, TypeOK
    <3>2. CASE Mishap
      BY <3>1, <3>2 DEF Mishap
    <3>3. CASE call[k] = "refused" /\ UNCHANGED mishaps
      BY <3>1, <3>3 DEF Up, Live, CarrierLive
    <3> QED
      BY <1>2, <1>6, <3>2, <3>3 DEF RelayRejects
  <2>3. "failed" \in TaskState \ {"confirmed"} /\ HonestOf("failed", k)
    BY DEF TaskState, HonestOf
  <2> QED
    BY <1>1, <1>2, <1>3, <2>1, <2>2, <2>3, WriteAndEnd
<1> QED
  BY <1>5, <1>6

\* Handlers that end without a write.
LEMMA AnswerOnly ==
    ASSUME IInv, NEW s \in Slots, request[s] # None, NEW k \in Keys, k = request[s].key,
           NEW answer \in TaskState, Replies(s, answer),
           UNCHANGED <<relay, call, media, hooks, mishaps, freed>>,
           HonestOf(answer, k), answer \in {"dialing", "in_progress"} => Placed(k)
    PROVE  IInv'
<1>1. RelayFrame /\ \A j \in Keys : Fresh(j) => Fresh(j)'
  BY Frames, MishapsGrow
<1>2. HonestOf(answer, k)'
  BY DEF HonestOf, Accepted
<1> QED
  BY <1>1, <1>2, HandlerEnds DEF RelayFrame

\* What the server records when its request about a placed call fails or is answered.
LEMMA AnswerHonest ==
    ASSUME IInv, NEW s \in Slots, request[s] # None, NEW k \in Keys, k = request[s].key,
           request[s].op # "create",
           NEW status \in TaskState, HonestOf(status, k),
           NEW answer, answer \in {Failed(request[s]), Answered(request[s], status)}
    PROVE  /\ answer \in TaskState
           /\ HonestOf(answer, k)
<1>1. local[k] \in TaskState /\ HonestOf(local[k], k) /\ request[s].op \in {"status", "cancel"}
  BY OfRequest DEF IInv, KeyInv, Request
<1>2. answer \in {local[k], status, "cancelled"}
  BY <1>1 DEF Failed, Answered
<1> QED
  BY <1>1, <1>2 DEF HonestOf, TaskState

LEMMA HonestRow ==
    ASSUME IInv, NEW k \in Keys
    PROVE  HonestOf(relay[k].status, k) /\ relay[k].status \in Status /\ relay[k].named \in BOOLEAN
BY DEF IInv, TypeOK, KeyInv, RowInv, Row

LEMMA ReadingSteps ==
    ASSUME IInv, NEW s \in Slots, RelayStatus(s) \/ LookupAnswers(s) \/ LookupFails(s)
    PROVE  IInv'
<1>1. request[s] # None /\ request[s].at \in {"sent", "looking"}
      /\ (request[s].at = "sent" => request[s].op = "status")
  BY DEF RelayStatus, LookupAnswers, LookupFails, AtRelay
<1>2. PICK k \in Keys : k = request[s].key
  BY <1>1, OfRequest
<1>3. RequestInv(s) /\ request[s] \in Request
  BY <1>1, <1>2, OfRequest
<1>4. request[s].op # "create" /\ Placed(k)
  BY <1>1, <1>2, <1>3 DEF RequestInv
<1>5. UNCHANGED <<relay, hooks, media, call, mishaps, freed>>
  BY DEF RelayStatus, LookupAnswers, LookupFails
<1>6. RelayFrame /\ \A j \in Keys : Fresh(j) => Fresh(j)'
  BY <1>5, Frames, MishapsGrow
<1>7. \A t \in Slots \ {s} : Creates(t, request[t].key) /\ request[t].at = "sent" /\ request'[t] = request[t]
                              => Fresh(request[t].key)'
  <2>1. ASSUME NEW t \in Slots \ {s}, Creates(t, request[t].key), request[t].at = "sent",
               request'[t] = request[t]
        PROVE  Fresh(request[t].key)'
    <3>1. PICK j \in Keys : j = request[t].key
      BY <2>1, OfRequest DEF Creates
    <3>2. Fresh(j)'
      BY <1>6, <2>1, <3>1, OfRequest DEF Creates, RequestInv
    <3> QED
      BY <2>1, <3>1, <3>2
  <2> QED
    BY <2>1
<1>8. ASSUME NEW at \in {"looking", "answered"}, NEW row \in Status,
             NEW said \in CarrierStatus \cup {"none"}, HonestOf(row, k),
             at = "answered" => Heard(said, k),
             request' = [request EXCEPT ![s] = Holding(request[s], at, row, said)],
             UNCHANGED serverVars
      PROVE  IInv'
  <2>1. PICK r \in Request : r = Holding(request[s], at, row, said)
    BY <1>3 DEF Request, Holding
  <2>2. /\ request' = [request EXCEPT ![s] = r] /\ request'[s] = r
        /\ \A t \in Slots \ {s} : request'[t] = request[t]
        /\ r.op = request[s].op /\ r.key = k /\ r.at = at /\ r.row = row /\ r.said = said
    BY <1>2, <1>8, <2>1 DEF Holding, IInv, TypeOK
  <2>3. HonestOf(row, k)' /\ (at = "answered" => Heard(said, k)')
    BY <1>5, <1>8 DEF HonestOf, Heard, Accepted, Talked
  <2>4. RequestInv(s)'
    BY <1>2, <1>3, <1>4, <1>5, <1>8, <2>2, <2>3
    DEF RequestInv, serverVars, Placed, Accepted
  <2> QED
    BY <1>1, <1>2, <1>5, <1>6, <1>7, <1>8, <2>1, <2>2, <2>4, HandlerGoes
<1>9. ASSUME NEW status \in TaskState, HonestOf(status, k), Answers(s, status)
      PROVE  IInv'
  <2>1. PICK answer : answer = Answered(request[s], status)
    OBVIOUS
  <2>2. answer \in TaskState /\ HonestOf(answer, k) /\ Replies(s, answer)
    BY <1>1, <1>2, <1>4, <1>9, <2>1, AnswerHonest DEF Answers
  <2> QED
    BY <1>1, <1>2, <1>4, <1>5, <2>2, AnswerOnly
<1>10. CASE RelayStatus(s)
  <2>1. PICK row \in TaskState : row = relay[k].status
    BY <1>4, HonestRow DEF Placed, Status
  <2>2. HonestOf(row, k) /\ row \in Status
    BY <2>1, HonestRow DEF Status
  <2> QED
    BY <1>2, <1>8, <1>9, <1>10, <2>1, <2>2 DEF RelayStatus
<1>11. CASE LookupAnswers(s)
  <2>1. PICK row, said : row = request[s].row /\ said = call[k]
    OBVIOUS
  <2>2. Heard(said, k)
    BY <1>4, <2>1 DEF Placed, Heard, Accepted, Talked
  <2>3. row \in Status /\ HonestOf(row, k)
    BY <1>2, <1>3, <2>1 DEF RequestInv, Request, HonestOf
  <2> QED
    BY <1>2, <1>8, <1>11, <2>1, <2>2, <2>3 DEF LookupAnswers, Heard
<1>12. CASE LookupFails(s)
  <2>1. PICK row \in Status : row = request[s].row
    BY <1>3 DEF Request
  <2>2. HonestOf(row, k)
    BY <1>2, <1>3, <2>1 DEF RequestInv, HonestOf
  <2>3. PICK answer : answer = Answered(request[s], row)
    OBVIOUS
  <2>4. answer \in TaskState /\ HonestOf(answer, k)
    <3>1. local[k] \in TaskState /\ HonestOf(local[k], k)
      BY <1>1, <1>2, OfRequest DEF IInv, KeyInv
    <3>2. answer \in {local[k], "cancelled"} \/ (answer = row /\ row \in RelayNames)
      <4>1. request[s].op \in {"status", "cancel"}
        BY <1>3, <1>4 DEF Request
      <4>2. CASE request[s].op = "status"
        <5>1. answer = IF row \in RelayNames THEN row ELSE local[k]
          BY <1>2, <2>3, <4>2 DEF Answered
        <5> QED
          BY <5>1
      <4>3. CASE request[s].op = "cancel"
        BY <2>3, <4>3 DEF Answered
      <4> QED
        BY <4>1, <4>2, <4>3
    <3> QED
      BY <2>2, <3>1, <3>2 DEF HonestOf, TaskState, RelayNames
  <2> QED
    BY <1>1, <1>2, <1>4, <1>5, <1>12, <2>1, <2>3, <2>4, AnswerOnly DEF LookupFails, Answers
<1> QED
  BY <1>10, <1>11, <1>12

LEMMA ApplyStep ==
    ASSUME IInv, NEW s \in Slots, RelayApplies(s)
    PROVE  IInv'
<1>1. request[s] # None /\ request[s].at = "answered"
  BY DEF RelayApplies, AtRelay
<1>2. PICK k \in Keys : k = request[s].key
  BY <1>1, OfRequest
<1>3. RequestInv(s) /\ request[s] \in Request
  BY <1>1, <1>2, OfRequest
<1>4. request[s].op # "create" /\ Placed(k)
  BY <1>1, <1>2, <1>3 DEF RequestInv
<1>5. PICK said, status : said = request[s].said /\ status = MapStatus(said)
  OBVIOUS
<1>6. Heard(said, k)
  BY <1>1, <1>2, <1>3, <1>5 DEF RequestInv
<1>7. /\ status \in TaskState \ {"confirmed"} /\ HonestOf(status, k)
      /\ status \in TERMINAL_STATES => Over(k)
  BY <1>5, <1>6, Mapped
<1>8. PICK answer : answer = Answered(request[s], status)
  OBVIOUS
<1>9. answer \in TaskState /\ HonestOf(answer, k)
  BY <1>1, <1>2, <1>4, <1>7, <1>8, AnswerHonest
<1>10. Replies(s, answer) /\ UNCHANGED <<hooks, media, call, mishaps>>
  BY <1>5, <1>8 DEF RelayApplies, Answers
<1>11. CASE status # request[s].row
  <2>1. Writes(k, status, TRUE)
    BY <1>2, <1>5, <1>11 DEF RelayApplies
  <2>2. relay[k].status # "absent"
    BY <1>1, <1>2, RowThere
  <2>3. "cancelled" \in TERMINAL_STATES
    BY DEF TERMINAL_STATES
  <2> QED
    BY <1>1, <1>2, <1>4, <1>7, <1>9, <1>10, <2>1, <2>2, <2>3, OverIsNotUp, WriteAndEnd
    DEF Placed, IInv, TypeOK
<1>12. CASE status = request[s].row
  <2>1. UNCHANGED <<relay, freed>>
    BY <1>5, <1>12 DEF RelayApplies
  <2> QED
    BY <1>1, <1>2, <1>4, <1>9, <1>10, <2>1, AnswerOnly
<1> QED
  BY <1>11, <1>12

\* The carrier hangs up on a call that was placed: it is over, and what was known of it stays.
LEMMA HangUpEffect ==
    ASSUME IInv, NEW k \in Keys, Accepted(k), HangUp(k)
    PROVE  /\ call' \in [Keys -> CarrierStatus \cup {"none", "ordered", "refused"}]
           /\ \A j \in Keys \ {k} : call'[j] = call[j]
           /\ call'[k] \in CarrierEndings
           /\ call[k] \in CarrierEndings \/ call[k] = "in-progress" => call'[k] \in {call[k], "completed"}
           /\ call[k] \in CarrierEndings => call'[k] = call[k]
BY DEF IInv, TypeOK, HangUp, Accepted, Live, CarrierStatus, CarrierLive, CarrierEndings, UnansweredEndings

\* A call moves on: what is known of it stays known.
LEMMA CallMoves ==
    ASSUME IInv, NEW k \in Keys, UNCHANGED <<relay, mishaps, freed>>,
           call' \in [Keys -> CarrierStatus \cup {"none", "ordered", "refused"}],
           media' \in [Keys -> {"none", "connected", "open", "told", "closed"}],
           \A j \in Keys \ {k} : call'[j] = call[j] /\ media'[j] = media[j],
           call[k] # "none", Accepted(k) => Accepted(k)', Talked(k) => Talked(k)',
           Over(k) => call'[k] = call[k], Up(k)' => Up(k),
           media[k] = "told" => media'[k] = "told", media'[k] # "none" => Talked(k)'
    PROVE  RelayFrame /\ \A j \in Keys : Fresh(j) => Fresh(j)'
<1>1. ASSUME NEW j \in Keys PROVE Keeps(j)
  BY DEF Keeps, Accepted, Talked, Over
<1>2. ASSUME NEW j \in Keys PROVE RowInv(j)'
  <2>1. RowInv(j) /\ (Up(j)' => Up(j))
    BY DEF IInv, KeyInv, Up, Live
  <2>2. PICK status : status = relay[j].status
    OBVIOUS
  <2>3. HonestOf(status, j)'
    BY <1>1, <2>1, <2>2, HonestKept DEF RowInv
  <2>4. Early(j) => Early(j)'
    BY <1>1 DEF Early, Keeps
  <2>5. relay[j].status = "absent" => j # k /\ Fresh(j)'
    BY <2>1 DEF RowInv, Fresh
  <2> QED
    BY <1>1, <2>1, <2>2, <2>3, <2>4, <2>5 DEF RowInv, Keeps, Over
<1>3. OnePair'
  BY DEF OnePair, IInv, Up, Live
<1>4. \A j \in Keys : Fresh(j) => Fresh(j)'
  BY DEF Fresh
<1>5. \A j \in Keys : media'[j] # "none" => Talked(j)'
  BY DEF IInv, KeyInv, Talked
<1>6. \A j \in Keys : Placed(j) => Placed(j)'
  BY <1>1 DEF Keeps, Placed
<1> QED
  BY <1>1, <1>2, <1>3, <1>4, <1>5, <1>6 DEF RelayFrame, IInv, TypeOK

LEMMA HungUp ==
    ASSUME IInv, NEW k \in Keys, Accepted(k), HangUp(k), UNCHANGED <<relay, media, mishaps, freed>>
    PROVE  /\ RelayFrame /\ (\A j \in Keys : Fresh(j) => Fresh(j)')
           /\ Over(k)'
<1>1. call'[k] \in CarrierEndings /\ "completed" \in CarrierEndings
  BY HangUpEffect DEF CarrierEndings
<1>2. ~Up(k)' /\ Accepted(k)' /\ call[k] # "none"
  BY <1>1 DEF Up, Live, Accepted, CarrierStatus, CarrierLive, CarrierEndings, UnansweredEndings
<1>3. Talked(k) => Talked(k)'
  BY HangUpEffect DEF Talked, CarrierEndings
<1>4. media'[k] # "none" => Talked(k)'
  BY <1>3 DEF IInv, KeyInv
<1> QED
  BY <1>1, <1>2, <1>3, <1>4, HangUpEffect, CallMoves DEF Over, IInv, TypeOK

LEMMA CancelSteps ==
    ASSUME IInv, NEW s \in Slots,
           RelayCancel(s) \/ RelayHangsUp(s) \/ HangupFails(s) \/ RelayCancels(s)
    PROVE  IInv'
<1>1. /\ request[s] # None /\ request[s].at \in {"sent", "hanging", "hungup"}
      /\ request[s].at = "sent" => request[s].op = "cancel"
  BY DEF RelayCancel, RelayHangsUp, HangupFails, RelayCancels, AtRelay
<1>2. PICK k \in Keys : k = request[s].key
  BY <1>1, OfRequest
<1>3. RequestInv(s) /\ request[s] \in Request /\ relay[k].status # "absent"
  BY <1>1, <1>2, OfRequest, RowThere
<1>4. request[s].op # "create" /\ Placed(k)
  BY <1>1, <1>2, <1>3 DEF RequestInv
<1>5. Accepted(k)
  BY <1>4 DEF Placed
<1>6. ASSUME NEW at \in {"hanging", "hungup"}, Goes(s, at), UNCHANGED <<serverVars, hooks>>,
             RelayFrame, \A j \in Keys : Fresh(j) => Fresh(j)', at = "hungup" => Over(k)'
      PROVE  IInv'
  <2>1. PICK r \in Request : r = [request[s] EXCEPT !.at = at]
    BY <1>3 DEF Request
  <2>2. /\ request' = [request EXCEPT ![s] = r]
        /\ r.op = request[s].op /\ r.key = k /\ r.at = at /\ r.row = request[s].row
    BY <1>2, <1>3, <1>6, <2>1 DEF Goes, Request, IInv, TypeOK
  <2>3. request'[s] = r /\ \A t \in Slots \ {s} : request'[t] = request[t]
    BY <2>2 DEF IInv, TypeOK
  <2>4. RequestInv(s)'
    <3>1. PICK row : row = request[s].row
      OBVIOUS
    <3>2. row # "absent" => HonestOf(row, k)'
      BY <1>2, <1>3, <1>6, <3>1, HonestKept DEF RequestInv, RelayFrame
    <3>3. Placed(k)'
      BY <1>4, <1>6 DEF RelayFrame
    <3> QED
      BY <1>2, <1>3, <1>4, <1>6, <2>2, <2>3, <3>1, <3>2, <3>3 DEF RequestInv, serverVars
  <2>5. ASSUME NEW t \in Slots \ {s}, Creates(t, request[t].key), request[t].at = "sent"
        PROVE  Fresh(request[t].key)'
    <3>1. PICK j \in Keys : j = request[t].key
      BY <2>5, OfRequest DEF Creates
    <3>2. Fresh(j)'
      BY <1>6, <2>5, <3>1, OfRequest DEF Creates, RequestInv
    <3> QED
      BY <2>3, <3>1, <3>2
  <2> QED
    BY <1>1, <1>2, <1>6, <2>1, <2>2, <2>4, <2>5, HandlerGoes
<1>7. "cancelled" \in TaskState \ {"confirmed"} /\ HonestOf("cancelled", k)
  BY DEF TaskState, HonestOf
<1>8. Answered(request[s], "cancelled") \in TaskState
      /\ HonestOf(Answered(request[s], "cancelled"), k)
  <2>1. PICK answer : answer = Answered(request[s], "cancelled")
    OBVIOUS
  <2> QED
    BY <1>1, <1>2, <1>4, <1>7, <2>1, AnswerHonest
<1>9. CASE RelayCancel(s)
  <2>1. UNCHANGED <<hooks, media, call, mishaps>>
    BY <1>9 DEF RelayCancel
  <2>2. CASE ~Active(relay[k].status) /\ Answers(s, relay[k].status) /\ UNCHANGED <<relay, freed>>
    <3>1. PICK status, answer : status = relay[k].status /\ answer = Answered(request[s], status)
      OBVIOUS
    <3>2. status \in TaskState /\ HonestOf(status, k)
      BY <1>3, <3>1, HonestRow DEF Status
    <3>3. answer \in TaskState /\ HonestOf(answer, k) /\ Replies(s, answer)
      BY <1>1, <1>2, <1>4, <2>2, <3>1, <3>2, AnswerHonest DEF Answers
    <3> QED
      BY <1>1, <1>2, <1>4, <2>1, <2>2, <3>3, AnswerOnly
  <2>3. CASE Goes(s, "hanging") /\ UNCHANGED <<serverVars, relay, freed>>
    BY <1>6, <2>1, <2>3, Frames, MishapsGrow
  <2>4. CASE /\ Active(relay[k].status) /\ ~relay[k].named
             /\ Writes(k, "cancelled", FALSE) /\ Answers(s, "cancelled")
    <3>1. mishaps > 0
      BY <1>3, <1>4, <2>4, HonestRow
      DEF IInv, KeyInv, RowInv, Placed, Active, Status, TaskState, TERMINAL_STATES
    <3>2. PICK answer : answer = Answered(request[s], "cancelled")
      OBVIOUS
    <3>3. "cancelled" \notin {"dialing", "in_progress"}
      OBVIOUS
    <3> QED
      BY <1>1, <1>2, <1>3, <1>5, <1>7, <1>8, <2>1, <2>4, <3>1, <3>2, <3>3, WriteAndEnd
      DEF Answers, IInv, TypeOK
  <2> QED
    BY <1>2, <1>9, <2>2, <2>3, <2>4 DEF RelayCancel
<1>10. CASE RelayHangsUp(s)
  <2>1. /\ HangUp(k) /\ Goes(s, "hungup") /\ UNCHANGED <<serverVars, relay, hooks, media, mishaps, freed>>
    BY <1>2, <1>10 DEF RelayHangsUp
  <2> QED
    BY <1>5, <1>6, <2>1, HungUp
<1>11. CASE HangupFails(s)
  <2>1. /\ HangUp(k) \/ UNCHANGED call
        /\ Refuses(s) /\ UNCHANGED <<relay, hooks, media, mishaps, freed>>
    BY <1>2, <1>11 DEF HangupFails
  <2>2. RelayFrame /\ \A j \in Keys : Fresh(j) => Fresh(j)'
    BY <1>5, <2>1, HungUp, Frames, MishapsGrow
  <2>3. PICK answer : answer = Failed(request[s])
    OBVIOUS
  <2>4. answer \in TaskState /\ HonestOf(answer, k) /\ Replies(s, answer)
    BY <1>1, <1>2, <1>4, <1>7, <2>1, <2>3, AnswerHonest DEF Refuses
  <2>5. HonestOf(answer, k)' /\ Placed(k)'
    BY <1>4, <2>2, <2>4, HonestKept DEF RelayFrame
  <2> QED
    BY <1>1, <1>2, <2>1, <2>2, <2>4, <2>5, HandlerEnds
<1>12. CASE RelayCancels(s)
  <2>1. /\ Writes(k, "cancelled", TRUE) /\ Answers(s, "cancelled") /\ Over(k)
        /\ UNCHANGED <<hooks, media, call, mishaps>>
    BY <1>2, <1>3, <1>12 DEF RelayCancels, RequestInv, AtRelay
  <2>2. PICK answer : answer = Answered(request[s], "cancelled")
    OBVIOUS
  <2> QED
    BY <1>1, <1>2, <1>3, <1>5, <1>7, <1>8, <2>1, <2>2, OverIsNotUp, WriteAndEnd
    DEF Answers, IInv, TypeOK
<1> QED
  BY <1>9, <1>10, <1>11, <1>12

-------------------------------------------------------------------------------
(* The servers' steps *)

\* A request goes out: to place the call of a key that is new, or about one that was placed.
LEMMA SendStep ==
    ASSUME IInv, NEW p \in Servers, NEW k \in Keys, NEW op \in {"create", "status", "cancel"},
           Send(p, op, k), UNCHANGED <<relay, hooks, media, call, mishaps, freed>>,
           \/ op = "create" /\ local[k] = "absent" /\ local' = [local EXCEPT ![k] = "confirmed"]
           \/ op # "create" /\ Ordered(k) /\ local' = local
    PROVE  IInv'
<1>1. RelayFrame /\ \A j \in Keys : Fresh(j) => Fresh(j)'
  BY Frames, MishapsGrow
<1>2. PICK s \in Slots :
        /\ request[s] = None
        /\ waits' = [waits EXCEPT ![p] = s]
        /\ request' = [request EXCEPT ![s] = [op |-> op, key |-> k, at |-> "sent",
                                              row |-> "absent", said |-> "none"]]
  BY DEF Send, Free
<1>3. PICK r \in Request : r = [op |-> op, key |-> k, at |-> "sent", row |-> "absent", said |-> "none"]
  BY DEF Request, Status
<1>4. /\ request' \in [Slots -> Request \cup {None}] /\ request'[s] = r
      /\ \A t \in Slots \ {s} : request'[t] = request[t]
      /\ r.op = op /\ r.key = k /\ r.at = "sent" /\ r.row = "absent" /\ r # None
      /\ waits' \in [Servers -> Slots \cup {None}] /\ waits'[p] = s
      /\ \A q \in Servers \ {p} : waits'[q] = waits[q]
  BY <1>2, <1>3, DemoConstants DEF IInv, TypeOK
<1>5. /\ local' \in [Keys -> Status] /\ local'[k] # "absent"
      /\ \A j \in Keys \ {k} : local'[j] = local[j]
      /\ op # "create" => local'[k] = local[k]
      /\ op = "create" => local'[k] = "confirmed"
  BY DEF IInv, TypeOK, Status, TaskState, Ordered, Active
<1>6. TypeOK'
  BY <1>1, <1>4, <1>5 DEF RelayFrame, IInv, TypeOK
<1>7. ASSUME NEW j \in Keys PROVE KeyInv(j)'
  <2>1. "confirmed" \in TaskState /\ HonestOf("confirmed", j)'
    BY DEF TaskState, HonestOf
  <2> QED
    BY <1>1, <1>5, <2>1, LocalKept, LocalWritten
<1>8. RequestInv(s)'
  <2>1. op = "create" => Fresh(k)'
    BY <1>1 DEF IInv, KeyInv, Ordered, Active
  <2>2. op # "create" => Placed(k)'
    BY <1>1 DEF IInv, KeyInv, Ordered, Active, RelayFrame
  <2> QED
    BY <1>4, <1>5, <2>1, <2>2 DEF RequestInv
<1>9. OneCreate'
  <2>1. \A t \in Slots : Creates(t, k) => op # "create"
    BY OfRequest DEF Creates, RequestInv, Ordered, Active
  <2> QED
    BY <1>4, <2>1 DEF OneCreate, Creates, IInv
<1>10. Awaited'
  <2>1. ServerOf[k] = p
    BY DEF Send
  <2>2. \A q \in Servers : waits[q] # s
    BY <1>2, DemoConstants DEF IInv, Awaited
  <2> QED
    BY <1>4, <2>1, <2>2 DEF Awaited, IInv, TypeOK
<1>11. ASSUME NEW t \in Slots, request'[t] # None, request'[t] = request[t],
              request[t].op = "create", request[t].at = "sent"
       PROVE  Fresh(request[t].key)'
  <2>1. PICK j \in Keys : j = request[t].key
    BY <1>11, OfRequest
  <2> QED
    BY <1>1, <1>11, <2>1, OfRequest DEF RequestInv
<1> QED
  BY <1>1, <1>4, <1>5, <1>6, <1>7, <1>8, <1>9, <1>10, <1>11, Preserved DEF RelayFrame

\* The server's rows and its wait change, by a cancellation on the spot or a mishap; requests
\* may end.
LEMMA ServerEnds ==
    ASSUME IInv, RelayFrame, hooks' \subseteq hooks,
           \A j \in Keys : Fresh(j) => Fresh(j)',
           local' \in [Keys -> Status], waits' \in [Servers -> Slots \cup {None}],
           request' \in [Slots -> Request \cup {None}],
           \A j \in Keys : local'[j] = local[j]
                          \/ (local[j] # "absent" /\ local'[j] \in {"failed", "cancelled"}),
           \A t \in Slots : request'[t] \in {None, request[t]},
           \A p \in Servers : \/ waits'[p] = None
                              \/ waits'[p] = waits[p] /\ request'[waits[p]] = request[waits[p]]
    PROVE  IInv'
<1>1. TypeOK'
  BY DEF RelayFrame, IInv, TypeOK
<1>2. ASSUME NEW j \in Keys PROVE KeyInv(j)'
  <2>1. {"failed", "cancelled"} \subseteq TaskState /\ HonestOf("failed", j)' /\ HonestOf("cancelled", j)'
    BY DEF TaskState, HonestOf
  <2> QED
    BY <2>1, LocalKept, LocalWritten
<1>3. OneCreate' /\ Awaited'
  BY DEF IInv, OneCreate, Creates, Awaited
<1>4. ASSUME NEW t \in Slots, request'[t] # None, request'[t] = request[t],
             request[t].op = "create", request[t].at = "sent"
      PROVE  Fresh(request[t].key)'
  <2>1. PICK j \in Keys : j = request[t].key
    BY <1>4, OfRequest
  <2> QED
    BY <1>4, <2>1, OfRequest DEF RequestInv
<1> QED
  BY <1>1, <1>2, <1>3, <1>4, Preserved DEF RelayFrame

LEMMA ServerSteps ==
    ASSUME IInv, NEW p \in Servers, ServerNext(p)
    PROVE  IInv'
<1>1. local \in [Keys -> Status] /\ waits \in [Servers -> Slots \cup {None}]
      /\ request \in [Slots -> Request \cup {None}]
  BY DEF IInv, TypeOK
<1>2. ASSUME NEW k \in Keys, CreateTask(p, k) \/ PollTask(p, k) PROVE IInv'
  BY <1>2, SendStep DEF CreateTask, PollTask, Ordered
<1>3. ASSUME NEW k \in Keys, CancelTask(p, k) PROVE IInv'
  <2>1. UNCHANGED <<relay, hooks, media, call, mishaps, freed>>
    BY <1>3 DEF CancelTask
  <2>2. CASE local[k] # "confirmed" /\ Send(p, "cancel", k) /\ UNCHANGED local
    BY <1>3, <2>1, <2>2, SendStep DEF CancelTask, Ordered
  <2>3. CASE /\ local[k] = "confirmed" /\ local' = [local EXCEPT ![k] = "cancelled"]
             /\ UNCHANGED <<waits, request>>
    <3>1. RelayFrame /\ \A j \in Keys : Fresh(j) => Fresh(j)'
      BY <2>1, Frames, MishapsGrow
    <3>2. local' \in [Keys -> Status]
      BY <1>1, <2>3 DEF Status, TaskState
    <3> QED
      BY <1>1, <2>1, <2>3, <3>1, <3>2, ServerEnds
  <2> QED
    BY <1>3, <2>2, <2>3 DEF CancelTask
<1>4. CASE GiveUp(p)
  <2>1. PICK s \in Slots :
          /\ Mishap /\ waits[p] = s /\ Records(s, Failed(request[s]))
          /\ request' = request \/ request' = [request EXCEPT ![s] = None]
          /\ UNCHANGED <<relay, hooks, media, call, freed>>
    BY <1>4 DEF GiveUp
  <2>2. RelayFrame /\ \A j \in Keys : Fresh(j) => Fresh(j)'
    BY <2>1, Frames, MishapsGrow
  <2>3. request[s] # None /\ ServerOf[request[s].key] = p
    BY <2>1, DemoConstants DEF IInv, Awaited
  <2>4. PICK k \in Keys : k = request[s].key
    BY <2>3, OfRequest
  <2>5. /\ local' = [local EXCEPT ![k] = Failed(request[s])]
        /\ waits' = [waits EXCEPT ![p] = None]
        /\ Failed(request[s]) \in {"failed", local[k]} /\ local[k] # "absent"
    BY <2>1, <2>3, <2>4, OfRequest DEF Records, Failed, RequestInv
  <2>6. /\ local' \in [Keys -> Status] /\ waits' \in [Servers -> Slots \cup {None}]
        /\ \A j \in Keys : local'[j] = local[j] \/ (local[j] # "absent" /\ local'[j] = "failed")
        /\ waits'[p] = None /\ \A q \in Servers \ {p} : waits'[q] = waits[q]
    BY <1>1, <2>5 DEF Status, TaskState
  <2>7. /\ request' \in [Slots -> Request \cup {None}]
        /\ request'[s] \in {None, request[s]}
        /\ \A t \in Slots \ {s} : request'[t] = request[t]
    BY <1>1, <2>1
  <2>8. \A q \in Servers \ {p} : waits[q] # None => waits[q] # s
    BY <2>1, <2>3 DEF IInv, Awaited
  <2>9. \A q \in Servers \ {p} : waits[q] \in Slots \cup {None}
    BY <1>1
  <2> QED
    BY <1>1, <2>1, <2>2, <2>6, <2>7, <2>8, <2>9, ServerEnds
<1>5. CASE ServerCrash(p)
  <2>1. Mishap /\ waits' = [waits EXCEPT ![p] = None]
        /\ UNCHANGED <<local, request, relay, hooks, media, call, freed>>
    BY <1>5 DEF ServerCrash
  <2>2. RelayFrame /\ \A j \in Keys : Fresh(j) => Fresh(j)'
    BY <2>1, Frames, MishapsGrow
  <2> QED
    BY <1>1, <2>1, <2>2, ServerEnds
<1> QED
  BY <1>2, <1>3, <1>4, <1>5 DEF ServerNext

-------------------------------------------------------------------------------
(* The relay's runtime, its crash, and the carrier *)

LEMMA RuntimeSteps ==
    ASSUME IInv, NEW k \in Keys, HookAtOnce(k) \/ HookReceive(k) \/ MediaStart(k) \/ OnOutcome(k)
    PROVE  IInv'
<1>1. KeyInv(k) /\ RowInv(k)
  BY DEF IInv, KeyInv
<1>2. UNCHANGED <<serverVars, request, call>>
  BY DEF HookAtOnce, HookReceive, MediaStart, OnOutcome
<1>3. CASE HookReceive(k)
  <2>1. PICK said \in Posted(k) :
          hooks' = hooks \cup {[key |-> k, status |-> MapStatus(said), named |-> relay[k].named]}
    BY <1>3 DEF HookReceive
  <2>2. Mishap /\ UNCHANGED <<relay, media, freed>>
    BY <1>3 DEF HookReceive
  <2>3. RelayFrame /\ \A j \in Keys : Fresh(j) => Fresh(j)'
    BY <1>2, <2>2, Frames, MishapsGrow
  <2>4. Heard(said, k)
    <3>1. Accepted(k) /\ (said \in {"ringing", call[k]} \/ (media[k] # "none" /\ said = "in-progress"))
      BY DEF Posted
    <3>2. "ringing" \in CarrierStatus \ CarrierEndings /\ "in-progress" \in CarrierStatus \ CarrierEndings
      BY DEF CarrierStatus, CarrierLive, CarrierEndings, UnansweredEndings
    <3> QED
      BY <1>1, <3>1, <3>2 DEF Heard, KeyInv, Accepted, Talked
  <2>5. PICK status : status = MapStatus(said)
    OBVIOUS
  <2>6. status \in TaskState \ {"confirmed"} /\ HonestOf(status, k)
        /\ (status \in TERMINAL_STATES => Over(k))
    BY <2>4, <2>5, Mapped
  <2>7. HonestOf(status, k)' /\ Accepted(k)' /\ (Over(k) => Over(k)') /\ mishaps' > 0
    BY <1>2, <2>2, <2>4, <2>6, MishapsGrow DEF HonestOf, Accepted, Over, Heard
  <2>8. ASSUME NEW h \in hooks' \ hooks PROVE h \in Hook /\ HookInv(h)'
    <3>1. /\ h = [key |-> k, status |-> status, named |-> relay[k].named]
          /\ relay[k].named \in BOOLEAN
      BY <2>1, <2>5, <2>8 DEF IInv, TypeOK, Row
    <3>2. h.key = k /\ h.status = status
      BY <3>1
    <3>3. h \in Hook
      BY <2>6, <3>1 DEF Hook
    <3> QED
      BY <2>6, <2>7, <3>2, <3>3 DEF HookInv
  <2>9. hooks' \subseteq Hook
    BY <2>8 DEF IInv, TypeOK
  <2> QED
    BY <1>2, <2>3, <2>8, <2>9, Background
<1>4. CASE MediaStart(k)
  <2>1. /\ media[k] = "connected" /\ media' = [media EXCEPT ![k] = "open"]
        /\ Writes(k, "in_progress", TRUE) /\ UNCHANGED <<hooks, mishaps>>
    BY <1>4 DEF MediaStart
  <2>2. Talked(k) /\ Accepted(k) /\ relay[k].status # "absent"
    BY <1>1, <2>1
    DEF KeyInv, RowInv, Fresh, Talked, Accepted, CarrierStatus, CarrierLive, CarrierEndings
  <2>3. /\ media' \in [Keys -> {"none", "connected", "open", "told", "closed"}]
        /\ media'[k] = "open" /\ \A j \in Keys \ {k} : media'[j] = media[j]
    BY <2>1 DEF IInv, TypeOK
  <2>4. "in_progress" \in TaskState \ {"confirmed"} /\ "in_progress" \notin TERMINAL_STATES
        /\ HonestOf("in_progress", k)'
    BY <1>2, <2>2 DEF TaskState, TERMINAL_STATES, HonestOf, Talked
  <2>5. /\ relay' \in [Keys -> Row] /\ freed' \subseteq Keys
        /\ \A j \in Keys : RowInv(j)' /\ Keeps(j) /\ (Placed(j) => Placed(j)')
        /\ OnePair' /\ \A j \in Keys : Fresh(j) => Fresh(j)'
    BY <1>2, <2>1, <2>2, <2>3, <2>4, Written
  <2>6. \A j \in Keys : media'[j] # "none" => Talked(j)'
    BY <1>2, <2>2, <2>3 DEF IInv, KeyInv, Talked
  <2>7. RelayFrame
    BY <1>2, <2>1, <2>3, <2>5, <2>6 DEF RelayFrame, IInv, TypeOK
  <2> QED
    BY <1>2, <2>1, <2>5, <2>7, Background DEF IInv, TypeOK
<1>5. CASE OnOutcome(k)
  <2>1. /\ media[k] = "open" /\ media' = [media EXCEPT ![k] = "told"]
        /\ Writes(k, "completed", TRUE) /\ UNCHANGED <<hooks, mishaps>>
    BY <1>5 DEF OnOutcome
  <2>2. Talked(k) /\ Accepted(k) /\ relay[k].status # "absent"
    BY <1>1, <2>1
    DEF KeyInv, RowInv, Fresh, Talked, Accepted, CarrierStatus, CarrierLive, CarrierEndings
  <2>3. /\ media' \in [Keys -> {"none", "connected", "open", "told", "closed"}]
        /\ media'[k] = "told" /\ \A j \in Keys \ {k} : media'[j] = media[j]
    BY <2>1 DEF IInv, TypeOK
  <2>4. "completed" \in TaskState \ {"confirmed"} /\ HonestOf("completed", k)'
    BY <2>3 DEF TaskState, HonestOf
  <2>5. /\ relay' \in [Keys -> Row] /\ freed' \subseteq Keys
        /\ \A j \in Keys : RowInv(j)' /\ Keeps(j) /\ (Placed(j) => Placed(j)')
        /\ OnePair' /\ \A j \in Keys : Fresh(j) => Fresh(j)'
    BY <1>2, <2>1, <2>2, <2>3, <2>4, Written
  <2>6. \A j \in Keys : media'[j] # "none" => Talked(j)'
    BY <1>2, <2>2, <2>3 DEF IInv, KeyInv, Talked
  <2>7. RelayFrame
    BY <1>2, <2>1, <2>3, <2>5, <2>6 DEF RelayFrame, IInv, TypeOK
  <2> QED
    BY <1>2, <2>1, <2>5, <2>7, Background DEF IInv, TypeOK
<1>6. CASE HookAtOnce(k)
  <2>1. PICK said, status, named :
          said = call[k] /\ status = MapStatus(said) /\ named = relay[k].named
    OBVIOUS
  <2>2. /\ Active(relay[k].status) /\ Accepted(k) /\ Writes(k, status, named)
        /\ UNCHANGED <<hooks, media, mishaps>>
    BY <1>6, <2>1 DEF HookAtOnce
  <2>3. Heard(said, k)
    BY <2>1, <2>2 DEF Heard, Accepted, Talked
  <2>4. status \in TaskState \ {"confirmed"} /\ HonestOf(status, k)
        /\ (status \in TERMINAL_STATES => Over(k))
    BY <2>1, <2>3, Mapped
  <2>5. HonestOf(status, k)' /\ named \in BOOLEAN /\ relay[k].status # "absent"
    BY <1>2, <2>1, <2>2, <2>4, HonestRow DEF HonestOf, Accepted, Active
  <2>6. "cancelled" \in TERMINAL_STATES
    BY DEF TERMINAL_STATES
  <2>7. Placed(k) => named \/ mishaps' > 0
    BY <2>1, <2>2 DEF Placed
  <2>8. /\ relay' \in [Keys -> Row] /\ freed' \subseteq Keys
        /\ \A j \in Keys : RowInv(j)' /\ Keeps(j) /\ (Placed(j) => Placed(j)')
        /\ OnePair' /\ \A j \in Keys : Fresh(j) => Fresh(j)'
    BY <1>2, <2>2, <2>4, <2>5, <2>6, <2>7, OverIsNotUp, Written
  <2>9. RelayFrame
    BY <1>2, <2>2, <2>8 DEF RelayFrame, IInv, TypeOK, KeyInv, Talked
  <2> QED
    BY <1>2, <2>2, <2>8, <2>9, Background DEF IInv, TypeOK
<1> QED
  BY <1>3, <1>4, <1>5, <1>6

LEMMA HookApplyStep ==
    ASSUME IInv, NEW h \in hooks, HookApply(h)
    PROVE  IInv'
<1>1. /\ hooks' = hooks \ {h} /\ Writes(h.key, h.status, h.named)
      /\ UNCHANGED <<serverVars, request, media, call, mishaps>>
  BY DEF HookApply
<1>2. HookInv(h) /\ h.key \in Keys /\ h.status \in TaskState /\ h.named \in BOOLEAN
  BY DEF IInv, TypeOK, Hook
<1>3. PICK k, status, named : k = h.key /\ status = h.status /\ named = h.named
  OBVIOUS
<1>4. relay[k].status # "absent"
  BY <1>2, <1>3 DEF HookInv, IInv, KeyInv, RowInv, Fresh, Accepted, CarrierStatus, CarrierLive,
                    CarrierEndings, UnansweredEndings
<1>5. HonestOf(status, k)'
  BY <1>1, <1>2, <1>3 DEF HookInv, HonestOf, Accepted
<1>6. "cancelled" \in TERMINAL_STATES
  BY DEF TERMINAL_STATES
<1>7. /\ relay' \in [Keys -> Row] /\ freed' \subseteq Keys
      /\ \A j \in Keys : RowInv(j)' /\ Keeps(j) /\ (Placed(j) => Placed(j)')
      /\ OnePair' /\ \A j \in Keys : Fresh(j) => Fresh(j)'
  BY <1>1, <1>2, <1>3, <1>4, <1>5, <1>6, OverIsNotUp, Written DEF HookInv
<1>8. RelayFrame
  BY <1>1, <1>7 DEF RelayFrame, IInv, TypeOK, KeyInv, Talked
<1> QED
  BY <1>1, <1>7, <1>8, Background DEF IInv, TypeOK

LEMMA CrashStep ==
    ASSUME IInv, RelayCrash
    PROVE  IInv'
<1>1. /\ Mishap /\ UNCHANGED <<relay, call, freed>> /\ hooks' = {}
      /\ request' = [s \in Slots |-> None] /\ waits' = [p \in Servers |-> None]
      /\ media' = [k \in Keys |-> IF media[k] \in {"connected", "open"} THEN "closed" ELSE media[k]]
  BY DEF RelayCrash
<1>2. mishaps' \in Nat /\ (mishaps > 0 => mishaps' > 0)
  BY <1>1, MishapsGrow
<1>3. /\ media' \in [Keys -> {"none", "connected", "open", "told", "closed"}]
      /\ \A k \in Keys : media'[k] = media[k] \/ media[k] \notin {"none", "told"}
  BY <1>1 DEF IInv, TypeOK
<1>4. ASSUME NEW j \in Keys
      PROVE  /\ RowInv(j)' /\ Keeps(j) /\ (Placed(j) => Placed(j)')
             /\ media'[j] # "none" => Talked(j)'
             /\ Fresh(j) => Fresh(j)'
  <2>1. KeyInv(j) /\ RowInv(j)
    BY DEF IInv, KeyInv
  <2>2. RowInv(j)'
    BY <1>1, <1>2, <1>3, <2>1, SameRow DEF RowInv, Fresh
  <2> QED
    BY <1>1, <1>2, <1>3, <2>1, <2>2 DEF Active, Keeps, Placed, Accepted, Talked, KeyInv, Fresh
<1>5. RelayFrame
  BY <1>1, <1>2, <1>3, <1>4 DEF RelayFrame, IInv, TypeOK, OnePair, Up, Live
<1>6. /\ local' \in [Keys -> Status]
      /\ \A k \in Keys : local'[k] = local[k] \/ (local[k] # "absent" /\ local'[k] = "failed")
  <2>1. ASSUME NEW k \in Keys, NEW s \in Slots, request[s] # None, request[s].key = k
        PROVE  local[k] # "absent"
    BY <2>1, OfRequest DEF RequestInv
  <2> QED
    BY <2>1 DEF RelayCrash, IInv, TypeOK, Status, TaskState
<1>7. /\ request' \in [Slots -> Request \cup {None}] /\ \A t \in Slots : request'[t] = None
      /\ waits' \in [Servers -> Slots \cup {None}] /\ \A p \in Servers : waits'[p] = None
  BY <1>1
<1> QED
  BY <1>1, <1>4, <1>5, <1>6, <1>7, ServerEnds

LEMMA CarrierSteps ==
    ASSUME IInv, NEW k \in Keys, CarrierDecides(k) \/ CallAnswered(k) \/ CallEnds(k)
    PROVE  IInv'
<1>1. UNCHANGED <<serverVars, request, relay, hooks, mishaps, freed>>
  BY DEF CarrierDecides, CallAnswered, CallEnds
<1>2. KeyInv(k) /\ call \in [Keys -> CarrierStatus \cup {"none", "ordered", "refused"}]
      /\ media \in [Keys -> {"none", "connected", "open", "told", "closed"}] /\ hooks \subseteq Hook
  BY DEF IInv, TypeOK
<1>3. /\ call' \in [Keys -> CarrierStatus \cup {"none", "ordered", "refused"}]
      /\ media' \in [Keys -> {"none", "connected", "open", "told", "closed"}]
      /\ \A j \in Keys \ {k} : call'[j] = call[j] /\ media'[j] = media[j]
      /\ \/ call[k] = "ordered" /\ call'[k] \in {"ringing", "refused"} /\ media'[k] = media[k]
         \/ call[k] = "ringing" /\ call'[k] = "in-progress" /\ media'[k] = "connected"
         \/ call[k] = "ringing" /\ call'[k] \in UnansweredEndings /\ media'[k] = media[k]
         \/ call[k] = "in-progress" /\ call'[k] = "completed" /\ media'[k] = media[k]
  BY <1>2, DemoConstants
  DEF CarrierDecides, CallAnswered, CallEnds, CarrierStatus, CarrierLive, CarrierEndings
<1>4. /\ {"none", "ordered", "refused"} \cap CarrierStatus = {}
      /\ CarrierEndings \subseteq CarrierStatus /\ UnansweredEndings \subseteq CarrierEndings
      /\ "completed" \in CarrierEndings
      /\ {"ringing", "in-progress"} = CarrierLive /\ CarrierLive \subseteq CarrierStatus
      /\ {"ringing", "in-progress"} \cap CarrierEndings = {}
  BY DEF CarrierStatus, CarrierLive, CarrierEndings, UnansweredEndings
<1>5. media[k] = "none" \/ Talked(k)
  BY <1>2 DEF KeyInv
<1>6. RelayFrame /\ \A j \in Keys : Fresh(j) => Fresh(j)'
  BY <1>1, <1>3, <1>4, <1>5, CallMoves DEF Accepted, Talked, Over, Up, Live
<1> QED
  BY <1>1, <1>2, <1>6, Background

-------------------------------------------------------------------------------
LEMMA InitIInv == Init => IInv
<1> SUFFICES ASSUME Init PROVE IInv
  OBVIOUS
<1>1. TypeOK
  BY DEF Init, TypeOK, Status, Row
<1>2. ASSUME NEW k \in Keys PROVE KeyInv(k)
  BY DEF Init, KeyInv, RowInv, Fresh, HonestOf, Ordered, Active, Up, Live, Accepted,
         CarrierLive, CarrierStatus, CarrierEndings, UnansweredEndings
<1>3. OneCreate /\ OnePair /\ Awaited
  BY DEF Init, OneCreate, Creates, OnePair, Up, Live, CarrierLive, Awaited
<1> QED
  BY <1>1, <1>2, <1>3 DEF IInv, Init

LEMMA StutterStep == IInv /\ UNCHANGED vars => IInv'
<1> SUFFICES ASSUME IInv, UNCHANGED vars PROVE IInv'
  OBVIOUS
<1>1. RelayFrame /\ \A j \in Keys : Fresh(j) => Fresh(j)'
  BY Frames, MishapsGrow DEF vars
<1> QED
  BY <1>1, Background DEF vars, serverVars, IInv, TypeOK

LEMMA NextIInv == IInv /\ [Next]_vars => IInv'
<1> SUFFICES ASSUME IInv, [Next]_vars PROVE IInv'
  OBVIOUS
<1>1. ASSUME NEW s \in Slots, RelayWorks(s) \/ RelayFails(s) PROVE IInv'
  BY <1>1, ReserveStep, CreatingSteps, ReadingSteps, ApplyStep, CancelSteps DEF RelayWorks, RelayFails
<1>2. ASSUME NEW k \in Keys, \/ HookAtOnce(k) \/ HookReceive(k) \/ MediaStart(k) \/ OnOutcome(k)
                             \/ CarrierDecides(k) \/ CallAnswered(k) \/ CallEnds(k)
      PROVE  IInv'
  BY <1>2, RuntimeSteps, CarrierSteps
<1> QED
  BY <1>1, <1>2, ServerSteps, HookApplyStep, CrashStep, StutterStep DEF Next

-------------------------------------------------------------------------------
(* The theorems *)

\* What each handler and webhook holds of its call, and the rest of IInv, is never wrong.
THEOREM RelayInvariance == Spec => []IInv
BY InitIInv, NextIInv, PTL DEF Spec

\* Rows, requests, webhooks and calls stay within their types.
THEOREM RelayTypes == Spec => []TypeOK
<1>1. IInv => TypeOK
  BY DEF IInv
<1> QED
  BY <1>1, RelayInvariance, PTL

\* The relay's one active call (docs/DEMO-RELAY.md:29-30), as far as the code keeps it: of two
\* calls that are up, one had its row made terminal while it was up.
THEOREM RelayCallsOverlapOnlyIfFreed == Spec => []OneCallUnlessFreed
<1>1. IInv => OneCallUnlessFreed
  BY DEF IInv, OnePair, OneCallUnlessFreed, Up
<1> QED
  BY <1>1, RelayInvariance, PTL

\* And a row is terminal before its call is over in three ways only, of which the outcome
\* reported at finish_demo is the one that needs nothing to go wrong.
THEOREM RelayFreesEarly == Spec => []FreedEarly
<1>1. IInv => FreedEarly
  BY DEF IInv, KeyInv, RowInv, Early, Up, FreedEarly
<1> QED
  BY <1>1, RelayInvariance, PTL

\* Neither the server's store nor the relay's tells of a call what it was not.
THEOREM HonestStores == Spec => []BothStoresAreHonest
<1>1. IInv => BothStoresAreHonest
  BY DEF IInv, KeyInv, RowInv, Over, BothStoresAreHonest
<1> QED
  BY <1>1, RelayInvariance, PTL
===============================================================================
