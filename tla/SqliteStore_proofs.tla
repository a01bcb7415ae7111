-------------------------- MODULE SqliteStore_proofs --------------------------
(***************************************************************************)
(* Proofs about SqliteStore, for any number of processes, threads, rows    *)
(* and operations: its locks always come back, and it implements           *)
(* AtomicStore.                                                            *)
(*                                                                         *)
(* The invariant says what a thread knows at each place of reserve.  It    *)
(* stays true while other threads move because knowledge of the table is   *)
(* only had by the thread with the RESERVED lock, and only that thread     *)
(* changes the table.                                                      *)
(***************************************************************************)
EXTENDS SqliteStore, TLAPS

-------------------------------------------------------------------------------
(* The inductive invariant *)

\* What t is about to commit, and the answer it will give.
ReservationDrafted(t) ==
    /\ Op(t) = "reserve"
    /\ Bound(t) = {} /\ ~Busy
    /\ \E c \in CallIds :
          /\ ~HasRow(c)
          /\ draft = [disk EXCEPT ![c] = [key |-> thread[t].request.key,
                                          task |-> thread[t].request.task,
                                          result |-> NewResult]]
          /\ thread[t].answer = Atomic!Says("made", c)

UpdateDrafted(t) ==
    LET q == thread[t].request
    IN  /\ Op(t) = "update"
        /\ draft = IF HasRow(q.call) THEN [disk EXCEPT ![q.call].result = q.result] ELSE disk
        /\ thread[t].answer = Atomic!Says("updated", None)

ThreadInv(t) ==
    /\ At(t, {"idle"}) => thread[t] = Atomic!Resting
    /\ ~At(t, {"idle"}) => thread[t].request \in Atomic!Request
    /\ At(t, {"begun", "searched", "clear"}) => Op(t) = "reserve"
    /\ At(t, {"reading"}) => Op(t) = "get"
    /\ At(t, Writing) <=> writer = t
    /\ mutex[ProcessOf[t]] = t => At(t, Holding \cup {"done"})
    /\ At(t, {"searched", "clear"}) => Bound(t) = {}
    /\ At(t, {"clear"}) => ~Busy
    /\ At(t, {"drafted", "committing"}) => ReservationDrafted(t) \/ UpdateDrafted(t)

IInv == TypeOK /\ \A t \in Threads : ThreadInv(t)

-------------------------------------------------------------------------------
(* Facts about requests, answers and what is visible *)

LEMMA SaysIsAnswer ==
    ASSUME NEW c \in CallIds \cup {None},
           NEW what \in {"none", "made", "conflict", "busy", "missing", "updated", "error"}
    PROVE  Atomic!Says(what, c) \in Atomic!Answer
BY DEF Atomic!Says, Atomic!Answer

LEMMA ShowsIsAnswer ==
    ASSUME disk \in Table, NEW c \in CallIds, HasRow(c), NEW what \in {"replayed", "found"}
    PROVE  Atomic!Shows(what, c) \in Atomic!Answer
<1>1. disk[c] \in Atomic!Row
  BY DEF Table, HasRow
<1> QED
  BY <1>1 DEF Atomic!Shows, Atomic!Answer

LEMMA RestingIsState == Atomic!Resting \in ThreadState
<1>1. Atomic!Says("none", None) \in Atomic!Answer
  BY SaysIsAnswer
<1> QED
  BY <1>1 DEF Atomic!Resting, ThreadState, Phases

\* The fields of a request, by its operation.
LEMMA RequestFields ==
    ASSUME NEW q \in Atomic!Request
    PROVE  /\ q.op \in {"reserve", "get", "update"}
           /\ q.op = "reserve" => q.key \in Keys /\ q.task \in Tasks
           /\ q.op # "reserve" => q.call \in CallIds
           /\ q.op = "update" => q.result \in Results
BY DEF Atomic!Request

\* One thread moves: its visible part becomes that of its new state.
LEMMA ClientStep ==
    ASSUME TypeOK, NEW u \in Threads, NEW r, thread' = [thread EXCEPT ![u] = r]
    PROVE  Client' = [Client EXCEPT ![u] = Visible(r)]
BY DEF Client, TypeOK, Visible

\* A step of u that leaves the other threads what they know and hold: it takes only locks that
\* are free, and changes the table only while no other thread has the RESERVED lock.
OnlyMoves(u) ==
    /\ TypeOK'
    /\ \A t \in Threads \ {u} :
          /\ thread'[t] = thread[t]
          /\ writer' = t <=> writer = t
          /\ (disk' = disk /\ draft' = draft) \/ writer # t
          /\ mutex'[ProcessOf[t]] = t => mutex[ProcessOf[t]] = t

LEMMA OthersKeep ==
    ASSUME IInv, NEW u \in Threads, OnlyMoves(u), NEW t \in Threads \ {u}
    PROVE  ThreadInv(t)'
<1> USE DEF At, Op, Writing, Holding, OnlyMoves
<1>1. ThreadInv(t)
  BY DEF IInv
<1>2. CASE writer = t
  <2>1. disk' = disk /\ draft' = draft
    BY <1>2
  <2>2. Bound(t)' = Bound(t) /\ Busy' = Busy
    BY <2>1 DEF Bound, Busy, HasRow
  <2>3. ReservationDrafted(t)' <=> ReservationDrafted(t)
    BY <2>1, <2>2 DEF ReservationDrafted, HasRow, Atomic!Says
  <2>4. UpdateDrafted(t)' <=> UpdateDrafted(t)
    BY <2>1 DEF UpdateDrafted, HasRow, Atomic!Says
  <2> QED
    BY <1>1, <1>2, <2>2, <2>3, <2>4 DEF ThreadInv, Atomic!Resting, Atomic!Says
<1>3. CASE writer # t
  <2>1. ~At(t, Writing) /\ ~At(t, Writing)'
    BY <1>1, <1>3 DEF ThreadInv
  <2> QED
    BY <1>1, <1>3, <2>1 DEF ThreadInv, Atomic!Resting, Atomic!Says
<1> QED
  BY <1>2, <1>3

\* Enough for a step of u to keep the invariant.
LEMMA OneMoves ==
    ASSUME IInv, NEW u \in Threads, OnlyMoves(u), ThreadInv(u)'
    PROVE  IInv'
BY OthersKeep DEF IInv, OnlyMoves

-------------------------------------------------------------------------------
(* Every step keeps the invariant *)

LEMMA InitIInv == Init => IInv
<1> SUFFICES ASSUME Init PROVE IInv
  OBVIOUS
<1>1. TypeOK
  BY RestingIsState DEF Init, TypeOK, Table, Processes
<1>2. ASSUME NEW t \in Threads PROVE ThreadInv(t)
  <2>1. thread[t] = Atomic!Resting /\ thread[t].at = "idle"
    BY DEF Init, Atomic!Resting
  <2>2. writer # t /\ mutex[ProcessOf[t]] # t
    BY StoreConstants DEF Init, Processes
  <2> QED
    BY <2>1, <2>2 DEF ThreadInv, At, Writing, Holding
<1> QED
  BY <1>1, <1>2 DEF IInv

LEMMA AskIInv ==
    ASSUME IInv, NEW u \in Threads, Ask(u)
    PROVE  IInv'
<1> USE DEF At
<1>0. TypeOK /\ ThreadInv(u)
  BY DEF IInv
<1>1. PICK q \in Asks[u] : thread' = [thread EXCEPT ![u] = Atomic!Asking(q)]
  BY DEF Ask
<1>2. q \in Atomic!Request
  BY StoreConstants
<1> DEFINE r == Atomic!Asking(q)
<1>3. r \in ThreadState /\ r.at = "asked" /\ r.request = q
  BY <1>2, SaysIsAnswer DEF ThreadState, Phases, Atomic!Asking
<1>4. thread'[u] = r
  BY <1>0, <1>1 DEF TypeOK
<1> HIDE DEF r
<1>5. ThreadInv(u)'
  BY <1>0, <1>2, <1>3, <1>4 DEF ThreadInv, Ask, Writing, Holding
<1>6. thread' = [thread EXCEPT ![u] = r] /\ UNCHANGED <<disk, draft, writer, mutex>>
  BY <1>1 DEF r, Ask
<1>7. OnlyMoves(u)
  BY <1>0, <1>3, <1>6 DEF OnlyMoves, TypeOK
<1> QED
  BY <1>5, <1>7, OneMoves

LEMMA LockIInv ==
    ASSUME IInv, NEW u \in Threads, Lock(u)
    PROVE  IInv'
<1>0. TypeOK /\ ThreadInv(u)
  BY DEF IInv
<1> DEFINE r == [thread[u] EXCEPT !.at = "locked"]
<1>1. thread' = [thread EXCEPT ![u] = r]
  BY <1>0 DEF Lock, Goes, TypeOK
<1>2. r \in ThreadState /\ r.at = "locked" /\ r.request = thread[u].request
  BY <1>0 DEF ThreadState, Phases, TypeOK
<1>3. thread'[u] = r
  BY <1>0, <1>1 DEF TypeOK
<1> HIDE DEF r
<1>4. ThreadInv(u)'
  BY <1>0, <1>2, <1>3 DEF ThreadInv, Lock, At, Writing, Holding
<1>5. /\ mutex' = [mutex EXCEPT ![ProcessOf[u]] = u]
      /\ UNCHANGED <<disk, draft, writer>>
  BY DEF Lock
<1>6. TypeOK'
  BY <1>0, <1>1, <1>2, <1>5 DEF TypeOK, Processes
<1>7. ASSUME NEW t \in Threads \ {u}
      PROVE  mutex'[ProcessOf[t]] = t => mutex[ProcessOf[t]] = t
  BY <1>0, <1>5 DEF TypeOK, Processes
<1>8. OnlyMoves(u)
  BY <1>0, <1>1, <1>5, <1>6, <1>7 DEF OnlyMoves, TypeOK
<1> QED
  BY <1>4, <1>8, OneMoves

LEMMA BeginImmediateIInv ==
    ASSUME IInv, NEW u \in Threads, BeginImmediate(u)
    PROVE  IInv'
<1>0. TypeOK /\ ThreadInv(u) /\ None \notin Threads
  BY StoreConstants DEF IInv
<1> DEFINE r == [thread[u] EXCEPT !.at = "begun"]
<1>1. thread' = [thread EXCEPT ![u] = r]
  BY <1>0 DEF BeginImmediate, Goes, TypeOK
<1>2. r \in ThreadState /\ r.at = "begun" /\ r.request = thread[u].request
  BY <1>0 DEF ThreadState, Phases, TypeOK
<1>3. thread'[u] = r
  BY <1>0, <1>1 DEF TypeOK
<1> HIDE DEF r
<1>4. ThreadInv(u)'
  BY <1>0, <1>2, <1>3 DEF ThreadInv, BeginImmediate, At, Op, Writing, Holding
<1>5. writer' = u /\ writer = None /\ draft' = disk /\ disk' = disk /\ mutex' = mutex
  BY DEF BeginImmediate
<1>6. OnlyMoves(u)
  BY <1>0, <1>1, <1>2, <1>5 DEF OnlyMoves, TypeOK, Processes
<1> QED
  BY <1>4, <1>6, OneMoves

\* An operation of u is over, with an answer; its transaction, if any, is ended.
Ends(u, answer) ==
    /\ ~At(u, {"idle", "answered"})
    /\ Answers(u, "done", answer)
    /\ Released(u)
    /\ disk' = disk \/ (disk' = draft /\ writer = u)
    /\ UNCHANGED <<draft, mutex>>

LEMMA EndsIInv ==
    ASSUME IInv, NEW u \in Threads, NEW answer \in Atomic!Answer, Ends(u, answer)
    PROVE  IInv'
<1> USE DEF Ends
<1>0. TypeOK /\ ThreadInv(u) /\ None \notin Threads
  BY StoreConstants DEF IInv
<1> DEFINE r == [thread[u] EXCEPT !.at = "done", !.answer = answer]
<1>1. thread' = [thread EXCEPT ![u] = r]
  BY <1>0 DEF Answers, TypeOK
<1>2. r \in ThreadState /\ r.at = "done" /\ r.request = thread[u].request
  BY <1>0 DEF ThreadState, Phases, TypeOK
<1>3. thread'[u] = r
  BY <1>0, <1>1 DEF TypeOK
<1> HIDE DEF r
<1>4. writer' # u /\ (writer' = writer \/ (writer' = None /\ writer = u))
  BY <1>0 DEF Released
<1>5. ThreadInv(u)'
  BY <1>0, <1>2, <1>3, <1>4 DEF ThreadInv, At, Writing, Holding
<1>6. OnlyMoves(u)
  BY <1>0, <1>1, <1>2, <1>4 DEF OnlyMoves, TypeOK
<1> QED
  BY <1>5, <1>6, OneMoves

LEMMA FindKeyIInv ==
    ASSUME IInv, NEW u \in Threads, FindKey(u)
    PROVE  IInv'
<1>0. TypeOK /\ ThreadInv(u) /\ At(u, {"begun"}) /\ ~At(u, {"idle", "answered"})
  BY DEF IInv, FindKey, At
<1>1. CASE Bound(u) = {} /\ Goes(u, "searched") /\ UNCHANGED writer
  <2> DEFINE r == [thread[u] EXCEPT !.at = "searched"]
  <2>1. thread' = [thread EXCEPT ![u] = r]
    BY <1>0, <1>1 DEF Goes, TypeOK
  <2>2. r \in ThreadState /\ r.at = "searched" /\ r.request = thread[u].request
    BY <1>0 DEF ThreadState, Phases, TypeOK
  <2>3. thread'[u] = r
    BY <1>0, <2>1 DEF TypeOK
  <2> HIDE DEF r
  <2>4. writer' = writer /\ draft' = draft /\ disk' = disk /\ mutex' = mutex
    BY <1>1 DEF FindKey
  <2>5. Bound(u)' = {}
    BY <1>1, <2>2, <2>3, <2>4 DEF Bound, HasRow
  <2>6. ThreadInv(u)'
    BY <1>0, <2>2, <2>3, <2>4, <2>5 DEF ThreadInv, At, Op, Writing, Holding
  <2>7. OnlyMoves(u)
    BY <1>0, <2>1, <2>2, <2>4 DEF OnlyMoves, TypeOK
  <2> QED
    BY <2>6, <2>7, OneMoves
<1>2. CASE /\ \E c \in Bound(u) :
                Answers(u, "done", IF disk[c].task = thread[u].request.task
                                   THEN Atomic!Shows("replayed", c)
                                   ELSE Atomic!Says("conflict", None))
           /\ Released(u)
  <2>1. PICK c \in Bound(u) :
                Answers(u, "done", IF disk[c].task = thread[u].request.task
                                   THEN Atomic!Shows("replayed", c)
                                   ELSE Atomic!Says("conflict", None))
    BY <1>2
  <2>2. c \in CallIds /\ HasRow(c)
    BY DEF Bound
  <2>3. /\ Atomic!Shows("replayed", c) \in Atomic!Answer
        /\ Atomic!Says("conflict", None) \in Atomic!Answer
    BY <1>0, <2>2, SaysIsAnswer, ShowsIsAnswer DEF TypeOK
  <2>4. \E answer \in Atomic!Answer : Ends(u, answer)
    BY <1>0, <1>2, <2>1, <2>3 DEF Ends, FindKey
  <2> QED
    BY <2>4, EndsIInv
<1> QED
  BY <1>1, <1>2 DEF FindKey

LEMMA CheckActiveIInv ==
    ASSUME IInv, NEW u \in Threads, CheckActive(u)
    PROVE  IInv'
<1>0. TypeOK /\ ThreadInv(u) /\ At(u, {"searched"}) /\ ~At(u, {"idle", "answered"})
  BY DEF IInv, CheckActive, At
<1>1. CASE ~Busy /\ Goes(u, "clear") /\ UNCHANGED writer
  <2> DEFINE r == [thread[u] EXCEPT !.at = "clear"]
  <2>1. thread' = [thread EXCEPT ![u] = r]
    BY <1>0, <1>1 DEF Goes, TypeOK
  <2>2. r \in ThreadState /\ r.at = "clear" /\ r.request = thread[u].request
    BY <1>0 DEF ThreadState, Phases, TypeOK
  <2>3. thread'[u] = r
    BY <1>0, <2>1 DEF TypeOK
  <2> HIDE DEF r
  <2>4. writer' = writer /\ draft' = draft /\ disk' = disk /\ mutex' = mutex
    BY <1>1 DEF CheckActive
  <2>5. Bound(u)' = {} /\ ~Busy'
    BY <1>0, <1>1, <2>2, <2>3, <2>4 DEF ThreadInv, At, Bound, Busy, HasRow
  <2>6. ThreadInv(u)'
    BY <1>0, <2>2, <2>3, <2>4, <2>5 DEF ThreadInv, At, Op, Writing, Holding
  <2>7. OnlyMoves(u)
    BY <1>0, <2>1, <2>2, <2>4 DEF OnlyMoves, TypeOK
  <2> QED
    BY <2>6, <2>7, OneMoves
<1>2. CASE Busy /\ Answers(u, "done", Atomic!Says("busy", None)) /\ Released(u)
  <2>1. Atomic!Says("busy", None) \in Atomic!Answer
    BY SaysIsAnswer
  <2>2. Ends(u, Atomic!Says("busy", None))
    BY <1>0, <1>2 DEF Ends, CheckActive
  <2> QED
    BY <2>1, <2>2, EndsIInv
<1> QED
  BY <1>1, <1>2 DEF CheckActive

\* What a reservation and an update leave to be committed is a table.
LEMMA InsertIInv ==
    ASSUME IInv, NEW u \in Threads, Insert(u)
    PROVE  IInv'
<1>0. TypeOK /\ ThreadInv(u) /\ At(u, {"clear"})
  BY DEF IInv, Insert
<1>1. PICK c \in CallIds :
         /\ ~HasRow(c)
         /\ draft' = [disk EXCEPT ![c] = [key |-> thread[u].request.key,
                                          task |-> thread[u].request.task,
                                          result |-> NewResult]]
         /\ Answers(u, "drafted", Atomic!Says("made", c))
  BY DEF Insert
<1> DEFINE r == [thread[u] EXCEPT !.at = "drafted", !.answer = Atomic!Says("made", c)]
<1>2. thread' = [thread EXCEPT ![u] = r]
  BY <1>0, <1>1 DEF Answers, TypeOK
<1>3. /\ r \in ThreadState /\ r.at = "drafted" /\ r.request = thread[u].request
      /\ r.answer = Atomic!Says("made", c)
  BY <1>0, SaysIsAnswer DEF ThreadState, Phases, TypeOK
<1>4. thread'[u] = r
  BY <1>0, <1>2 DEF TypeOK
<1> HIDE DEF r
<1>5. writer' = u /\ disk' = disk /\ mutex' = mutex /\ writer = u
  BY <1>0 DEF Insert, ThreadInv, At, Writing, Holding
<1>6. thread[u].request.key \in Keys /\ thread[u].request.task \in Tasks
  BY <1>0, RequestFields DEF ThreadInv, At, Op
<1>7. draft' \in Table
  BY <1>0, <1>1, <1>6, StoreConstants DEF TypeOK, Table, Atomic!Row
<1>8. ReservationDrafted(u)'
  <2>1. Bound(u)' = Bound(u) /\ Busy' = Busy /\ HasRow(c)' = HasRow(c)
    BY <1>3, <1>4, <1>5 DEF Bound, Busy, HasRow
  <2>2. Op(u)' = "reserve" /\ Bound(u) = {} /\ ~Busy
    BY <1>0, <1>3, <1>4 DEF ThreadInv, At, Op
  <2> QED
    BY <1>1, <1>3, <1>4, <1>5, <2>1, <2>2 DEF ReservationDrafted, Atomic!Says
<1>9. ThreadInv(u)'
  BY <1>0, <1>3, <1>4, <1>5, <1>8 DEF ThreadInv, At, Writing, Holding
<1>10. OnlyMoves(u)
  BY <1>0, <1>2, <1>3, <1>5, <1>7 DEF OnlyMoves, TypeOK
<1> QED
  BY <1>9, <1>10, OneMoves

LEMMA UpdateIInv ==
    ASSUME IInv, NEW u \in Threads, Update(u)
    PROVE  IInv'
<1>0. TypeOK /\ ThreadInv(u) /\ At(u, {"locked"})
  BY DEF IInv, Update
<1> DEFINE q == thread[u].request
           r == [thread[u] EXCEPT !.at = "drafted", !.answer = Atomic!Says("updated", None)]
<1>1. /\ q.op = "update" /\ writer = None /\ writer' = u /\ disk' = disk /\ mutex' = mutex
      /\ draft' = IF HasRow(q.call) THEN [disk EXCEPT ![q.call].result = q.result] ELSE disk
      /\ Answers(u, "drafted", Atomic!Says("updated", None))
  BY DEF Update
<1>2. thread' = [thread EXCEPT ![u] = r]
  BY <1>0, <1>1 DEF Answers, TypeOK
<1>3. /\ r \in ThreadState /\ r.at = "drafted" /\ r.request = q
      /\ r.answer = Atomic!Says("updated", None)
  BY <1>0, SaysIsAnswer DEF ThreadState, Phases, TypeOK
<1>4. thread'[u] = r
  BY <1>0, <1>2 DEF TypeOK
<1> HIDE DEF r
<1>5. q.call \in CallIds /\ q.result \in Results
  BY <1>0, <1>1, RequestFields DEF ThreadInv, At, Op
<1>6. draft' \in Table
  <2>1. CASE HasRow(q.call)
    <3>1. disk[q.call] \in Atomic!Row
      BY <1>0, <1>5, <2>1 DEF TypeOK, Table, HasRow
    <3>2. [disk[q.call] EXCEPT !.result = q.result] \in Atomic!Row
      BY <1>5, <3>1 DEF Atomic!Row
    <3>3. draft' = [disk EXCEPT ![q.call] = [disk[q.call] EXCEPT !.result = q.result]]
      BY <1>0, <1>1, <1>5, <2>1 DEF TypeOK, Table
    <3> QED
      BY <1>0, <1>5, <3>2, <3>3 DEF TypeOK, Table
  <2>2. CASE ~HasRow(q.call)
    BY <1>0, <1>1, <2>2 DEF TypeOK
  <2> QED
    BY <2>1, <2>2
<1>7. UpdateDrafted(u)'
  BY <1>1, <1>3, <1>4 DEF UpdateDrafted, Op, HasRow, Atomic!Says
<1>8. ThreadInv(u)'
  BY <1>0, <1>3, <1>4, <1>1, <1>7 DEF ThreadInv, At, Writing, Holding
<1>9. OnlyMoves(u)
  BY <1>0, <1>1, <1>2, <1>3, <1>6, StoreConstants DEF OnlyMoves, TypeOK
<1> QED
  BY <1>8, <1>9, OneMoves

LEMMA CommitIInv ==
    ASSUME IInv, NEW u \in Threads, Commit(u)
    PROVE  IInv'
<1>0. TypeOK /\ ThreadInv(u) /\ At(u, {"drafted"})
  BY DEF IInv, Commit
<1> DEFINE r == [thread[u] EXCEPT !.at = "committing"]
<1>1. thread' = [thread EXCEPT ![u] = r]
  BY <1>0 DEF Commit, Goes, TypeOK
<1>2. /\ r \in ThreadState /\ r.at = "committing" /\ r.request = thread[u].request
      /\ r.answer = thread[u].answer
  BY <1>0 DEF ThreadState, Phases, TypeOK
<1>3. thread'[u] = r
  BY <1>0, <1>1 DEF TypeOK
<1> HIDE DEF r
<1>4. writer' = writer /\ draft' = draft /\ disk' = disk /\ mutex' = mutex
  BY DEF Commit
<1>5. ReservationDrafted(u)' <=> ReservationDrafted(u)
  <2>1. Bound(u)' = Bound(u) /\ Busy' = Busy
    BY <1>2, <1>3, <1>4 DEF Bound, Busy, HasRow
  <2> QED
    BY <1>2, <1>3, <1>4, <2>1 DEF ReservationDrafted, Op, HasRow, Atomic!Says
<1>6. UpdateDrafted(u)' <=> UpdateDrafted(u)
  BY <1>2, <1>3, <1>4 DEF UpdateDrafted, Op, HasRow, Atomic!Says
<1>7. ThreadInv(u)'
  BY <1>0, <1>2, <1>3, <1>4, <1>5, <1>6 DEF ThreadInv, At, Writing, Holding
<1>8. OnlyMoves(u)
  BY <1>0, <1>1, <1>2, <1>4 DEF OnlyMoves, TypeOK
<1> QED
  BY <1>7, <1>8, OneMoves

LEMMA CommittedIInv ==
    ASSUME IInv, NEW u \in Threads, Committed(u)
    PROVE  IInv'
<1>0. TypeOK /\ ThreadInv(u) /\ At(u, {"committing"}) /\ writer = u
  BY DEF IInv, Committed, ThreadInv, At, Writing, Holding
<1>1. thread[u].answer \in Atomic!Answer
  BY <1>0 DEF TypeOK, ThreadState
<1>2. Answers(u, "done", thread[u].answer)
  BY <1>0 DEF Committed, Goes, Answers, TypeOK, ThreadState
<1>3. Ends(u, thread[u].answer)
  BY <1>0, <1>2 DEF Ends, Committed, At
<1> QED
  BY <1>1, <1>3, EndsIInv

LEMMA SelectIInv ==
    ASSUME IInv, NEW u \in Threads, Select(u)
    PROVE  IInv'
<1>0. TypeOK /\ ThreadInv(u)
  BY DEF IInv
<1> DEFINE r == [thread[u] EXCEPT !.at = "reading"]
<1>1. thread' = [thread EXCEPT ![u] = r]
  BY <1>0 DEF Select, Goes, TypeOK
<1>2. r \in ThreadState /\ r.at = "reading" /\ r.request = thread[u].request
  BY <1>0 DEF ThreadState, Phases, TypeOK
<1>3. thread'[u] = r
  BY <1>0, <1>1 DEF TypeOK
<1> HIDE DEF r
<1>4. writer' = writer /\ draft' = draft /\ disk' = disk /\ mutex' = mutex
  BY DEF Select
<1>5. ThreadInv(u)'
  BY <1>0, <1>2, <1>3, <1>4 DEF Select, ThreadInv, At, Op, Writing, Holding
<1>6. OnlyMoves(u)
  BY <1>0, <1>1, <1>2, <1>4 DEF OnlyMoves, TypeOK
<1> QED
  BY <1>5, <1>6, OneMoves

LEMMA FetchIInv ==
    ASSUME IInv, NEW u \in Threads, Fetch(u)
    PROVE  IInv'
<1>0. TypeOK /\ ThreadInv(u) /\ At(u, {"reading"}) /\ ~At(u, {"idle", "answered"})
  BY DEF IInv, Fetch, At
<1> DEFINE c == thread[u].request.call
           answer == IF HasRow(c) THEN Atomic!Shows("found", c) ELSE Atomic!Says("missing", None)
<1>1. c \in CallIds
  BY <1>0, RequestFields DEF ThreadInv, At, Op
<1>2. answer \in Atomic!Answer
  BY <1>0, <1>1, SaysIsAnswer, ShowsIsAnswer DEF TypeOK
<1>3. writer # u
  BY <1>0 DEF ThreadInv, At, Writing, Holding
<1>4. Ends(u, answer)
  BY <1>0, <1>3 DEF Ends, Fetch, Released
<1> QED
  BY <1>2, <1>4, EndsIInv

LEMMA RaisesIInv ==
    ASSUME IInv, NEW u \in Threads, BusyTimeout(u) \/ StatementError(u)
    PROVE  IInv'
<1>1. Atomic!Says("error", None) \in Atomic!Answer
  BY SaysIsAnswer
<1>2. ~At(u, {"idle", "answered"}) /\ Raises(u)
  BY DEF BusyTimeout, StatementError, Waits, Holding, At
<1>3. Ends(u, Atomic!Says("error", None))
  BY <1>2 DEF Ends, Raises
<1> QED
  BY <1>1, <1>3, EndsIInv

LEMMA ReturnIInv ==
    ASSUME IInv, NEW u \in Threads, Return(u)
    PROVE  IInv'
<1>0. TypeOK /\ ThreadInv(u) /\ None \notin Threads /\ At(u, {"done"}) /\ ProcessOf[u] \in Processes
  BY StoreConstants DEF IInv, Return, Processes
<1> DEFINE r == [thread[u] EXCEPT !.at = "answered"]
<1>1. thread' = [thread EXCEPT ![u] = r]
  BY <1>0 DEF Return, Goes, TypeOK
<1>2. r \in ThreadState /\ r.at = "answered" /\ r.request = thread[u].request
  BY <1>0 DEF ThreadState, Phases, TypeOK
<1>3. thread'[u] = r
  BY <1>0, <1>1 DEF TypeOK
<1> HIDE DEF r
<1>4. UNCHANGED <<writer, draft, disk>>
  BY DEF Return
<1>5. /\ mutex' \in [Processes -> Threads \cup {None}]
      /\ mutex'[ProcessOf[u]] # u
      /\ \A p \in Processes : mutex'[p] = mutex[p] \/ mutex'[p] = None
  BY <1>0 DEF Return, TypeOK
<1>6. ThreadInv(u)'
  BY <1>0, <1>2, <1>3, <1>4, <1>5 DEF ThreadInv, At, Writing, Holding
<1>7. ASSUME NEW t \in Threads \ {u}
      PROVE  mutex'[ProcessOf[t]] = t => mutex[ProcessOf[t]] = t
  BY <1>0, <1>5 DEF Processes
<1>8. OnlyMoves(u)
  BY <1>0, <1>1, <1>2, <1>4, <1>5, <1>7 DEF OnlyMoves, TypeOK
<1> QED
  BY <1>6, <1>8, OneMoves

LEMMA CollectIInv ==
    ASSUME IInv, NEW u \in Threads, Collect(u)
    PROVE  IInv'
<1>0. TypeOK /\ ThreadInv(u)
  BY DEF IInv
<1>1. thread' = [thread EXCEPT ![u] = Atomic!Resting]
  BY DEF Collect
<1>2. Atomic!Resting \in ThreadState /\ Atomic!Resting.at = "idle"
  BY RestingIsState DEF Atomic!Resting
<1>3. thread'[u] = Atomic!Resting
  BY <1>0, <1>1 DEF TypeOK
<1>4. writer' = writer /\ draft' = draft /\ disk' = disk /\ mutex' = mutex
  BY DEF Collect
<1>5. Atomic!Resting' = Atomic!Resting
  BY DEF Atomic!Resting, Atomic!Says
<1>6. ThreadInv(u)'
  BY <1>0, <1>2, <1>3, <1>4, <1>5 DEF Collect, ThreadInv, At, Writing, Holding
<1>7. OnlyMoves(u)
  BY <1>0, <1>1, <1>2, <1>4 DEF OnlyMoves, TypeOK
<1> QED
  BY <1>6, <1>7, OneMoves

LEMMA CrashIInv ==
    ASSUME IInv, NEW p \in Processes, Crash(p)
    PROVE  IInv'
<1> DEFINE Lost == {t \in Threads : ProcessOf[t] = p}
<1>0. TypeOK /\ None \notin Threads
  BY StoreConstants DEF IInv
<1>1. /\ thread' = [t \in Threads |-> IF t \in Lost THEN Atomic!Resting ELSE thread[t]]
      /\ mutex' = [mutex EXCEPT ![p] = None]
      /\ writer' = IF writer \in Lost THEN None ELSE writer
      /\ disk' = disk /\ draft' = draft
  BY DEF Crash
<1>2. TypeOK'
  BY <1>0, <1>1, RestingIsState DEF TypeOK
<1>3. Atomic!Resting' = Atomic!Resting /\ Atomic!Resting.at = "idle"
  BY DEF Atomic!Resting, Atomic!Says
<1>4. ASSUME NEW t \in Threads PROVE ThreadInv(t)'
  <2>1. CASE t \in Lost
    <3>1. thread'[t] = Atomic!Resting /\ writer' # t /\ mutex'[ProcessOf[t]] # t
      BY <1>0, <1>1, <2>1 DEF TypeOK
    <3> QED
      BY <1>3, <3>1 DEF ThreadInv, At, Writing, Holding
  <2>2. CASE t \notin Lost
    <3>1. thread'[t] = thread[t] /\ mutex'[ProcessOf[t]] = mutex[ProcessOf[t]]
      BY <1>0, <1>1, <2>2 DEF TypeOK, Processes
    <3>2. writer' = t <=> writer = t
      BY <1>0, <1>1, <2>2
    <3>3. Bound(t)' = Bound(t) /\ Busy' = Busy
      BY <1>1, <3>1 DEF Bound, Busy, HasRow
    <3>4. ReservationDrafted(t)' <=> ReservationDrafted(t)
      BY <1>1, <3>1, <3>3 DEF ReservationDrafted, Op, HasRow, Atomic!Says
    <3>5. UpdateDrafted(t)' <=> UpdateDrafted(t)
      BY <1>1, <3>1 DEF UpdateDrafted, Op, HasRow, Atomic!Says
    <3>6. ThreadInv(t)
      BY DEF IInv
    <3> QED
      BY <1>3, <3>1, <3>2, <3>3, <3>4, <3>5, <3>6 DEF ThreadInv, At, Op, Writing, Holding
  <2> QED
    BY <2>1, <2>2
<1> QED
  BY <1>2, <1>4 DEF IInv

LEMMA StutterIInv ==
    ASSUME IInv, UNCHANGED vars
    PROVE  IInv'
<1>1. UNCHANGED <<disk, draft, writer, mutex, thread>>
  BY DEF vars
<1>2. TypeOK'
  BY <1>1 DEF IInv, TypeOK
<1>3. ASSUME NEW t \in Threads PROVE ThreadInv(t)'
  <2>1. Bound(t)' = Bound(t) /\ Busy' = Busy
    BY <1>1 DEF Bound, Busy, HasRow
  <2>2. ReservationDrafted(t)' <=> ReservationDrafted(t)
    BY <1>1, <2>1 DEF ReservationDrafted, Op, HasRow, Atomic!Says
  <2>3. UpdateDrafted(t)' <=> UpdateDrafted(t)
    BY <1>1 DEF UpdateDrafted, Op, HasRow, Atomic!Says
  <2> QED
    BY <1>1, <2>1, <2>2, <2>3 DEF IInv, ThreadInv, At, Op, Writing, Holding, Atomic!Resting,
       Atomic!Says
<1> QED
  BY <1>2, <1>3 DEF IInv

LEMMA NextIInv ==
    ASSUME IInv, [Next]_vars
    PROVE  IInv'
<1>1. ASSUME NEW t \in Threads,
             \/ Ask(t) \/ Lock(t) \/ Proceeds(t)
             \/ BusyTimeout(t) \/ StatementError(t) \/ Collect(t)
      PROVE  IInv'
  BY <1>1, AskIInv, LockIInv, BeginImmediateIInv, FindKeyIInv, CheckActiveIInv, InsertIInv,
     UpdateIInv, CommitIInv, CommittedIInv, SelectIInv, FetchIInv, ReturnIInv, RaisesIInv,
     CollectIInv DEF Proceeds
<1>2. ASSUME NEW p \in Processes, Crash(p) PROVE IInv'
  BY <1>2, CrashIInv
<1> QED
  BY <1>1, <1>2, StutterIInv DEF Next

-------------------------------------------------------------------------------
(* What follows from it in every state *)

\* In every reachable state only the thread with the RESERVED lock is inside a transaction, and
\* what it knows of the table is still so when it commits.
THEOREM StoreInvariance == Spec => []IInv
<1>1. IInv /\ [Next]_vars => IInv'
  BY NextIInv
<1> QED
  BY InitIInv, <1>1, PTL DEF Spec

\* The variables keep their types, whatever the operations asked and the processes that die.
THEOREM TypeCorrect == Spec => []TypeOK
<1>1. IInv => TypeOK
  BY DEF IInv
<1> QED
  BY StoreInvariance, <1>1, PTL

\* However an operation ends, by a commit, an early return, a timeout, an exception or the death
\* of the process, its thread has neither lock any more (the two `with` of reserve and update).
THEOREM LocksComeBack == Spec => []LocksAreReturned
<1>1. IInv => LocksAreReturned
  <2> SUFFICES ASSUME IInv, NEW t \in Threads, At(t, {"idle", "answered"})
               PROVE  writer # t /\ mutex[ProcessOf[t]] # t
    BY DEF LocksAreReturned
  <2> QED
    BY DEF IInv, ThreadInv, At, Writing, Holding
<1> QED
  BY StoreInvariance, <1>1, PTL

-------------------------------------------------------------------------------
(* Threads never all wait *)

\* A process's lock is had by a thread of that process.
OwnersInv == \A p \in Processes : mutex[p] # None => ProcessOf[mutex[p]] = p

LEMMA OwnersStep ==
    ASSUME TypeOK, OwnersInv, [Next]_vars
    PROVE  OwnersInv'
<1> USE DEF OwnersInv, Processes
<1>1. ASSUME NEW u \in Threads, Lock(u) PROVE OwnersInv'
  BY <1>1 DEF Lock, TypeOK
<1>2. ASSUME NEW u \in Threads, Return(u) PROVE OwnersInv'
  BY <1>2 DEF Return, TypeOK
<1>3. ASSUME NEW p \in Processes, Crash(p) PROVE OwnersInv'
  BY <1>3 DEF Crash, TypeOK
<1>4. ASSUME NEW u \in Threads,
             \/ Ask(u) \/ (Proceeds(u) /\ ~Return(u))
             \/ BusyTimeout(u) \/ StatementError(u) \/ Collect(u)
      PROVE  UNCHANGED mutex
  <2>1. CASE Ask(u) \/ Collect(u) \/ BusyTimeout(u) \/ StatementError(u)
    BY <2>1 DEF Ask, Collect, BusyTimeout, StatementError, Raises
  <2>2. CASE Proceeds(u) /\ ~Return(u)
    BY <2>2 DEF Proceeds, BeginImmediate, FindKey, CheckActive, Insert, Update, Commit, Committed,
       Select, Fetch
  <2> QED
    BY <1>4, <2>1, <2>2
<1>5. UNCHANGED mutex => OwnersInv'
  OBVIOUS
<1> QED
  BY <1>1, <1>2, <1>3, <1>4, <1>5 DEF Next, vars

\* Behind a thread that waits for its process's lock is the one that has it; behind one that
\* waits for the file, the one that writes it; and behind a commit, one that only reads.
LEMMA SomeoneProceeds ==
    ASSUME IInv, OwnersInv
    PROVE  NoCircularWait
<1> USE DEF At, Op, Writing, Holding
<1> DEFINE Proceeding(t) == Inside(t) /\ ~WaitsForLock(t) /\ ~Waits(t)
<1> SUFFICES ASSUME NEW t \in Threads, Inside(t)
             PROVE  \E u \in Threads : Proceeding(u)
  BY DEF NoCircularWait
<1>1. CASE Reading
  <2>1. PICK u \in Threads : At(u, {"reading"})
    BY <1>1 DEF Reading
  <2> QED
    BY <2>1 DEF Inside, WaitsForLock, Waits
<1>2. ASSUME ~Reading, NEW u \in Threads, At(u, Writing)
      PROVE  Proceeding(u)
  BY <1>2 DEF Inside, WaitsForLock, Waits
<1>3. ASSUME ~Reading, writer # None
      PROVE  \E u \in Threads : Proceeding(u)
  <2>1. writer \in Threads /\ At(writer, Writing)
    BY <1>3 DEF IInv, TypeOK, ThreadInv
  <2> QED
    BY <1>2, <1>3, <2>1
<1>4. ASSUME ~Reading, writer = None, NEW u \in Threads,
             At(u, Holding \cup {"done"})
      PROVE  Proceeding(u)
  BY <1>4, <1>2 DEF Inside, WaitsForLock, Waits
<1>5. ASSUME ~Reading, writer = None, WaitsForLock(t)
      PROVE  \E u \in Threads : Proceeding(u)
  <2> DEFINE u == mutex[ProcessOf[t]]
  <2>1. u \in Threads /\ ProcessOf[u] = ProcessOf[t]
    BY <1>5 DEF WaitsForLock, IInv, TypeOK, OwnersInv, Processes
  <2>2. At(u, Holding \cup {"done"})
    BY <2>1 DEF IInv, ThreadInv
  <2> QED
    BY <1>4, <1>5, <2>1, <2>2
<1>6. ASSUME ~Reading, writer = None, ~WaitsForLock(t)
      PROVE  Proceeding(t)
  <2>1. ~Committing
    BY <1>6, StoreConstants DEF Committing, IInv, ThreadInv
  <2> QED
    BY <1>6, <2>1 DEF Waits, Inside
<1> QED
  BY <1>1, <1>3, <1>5, <1>6

\* The two locks are never waited for in a circle, by any number of threads and processes.
THEOREM NoDeadlock == Spec => []NoCircularWait
<1>1. Init => OwnersInv
  BY DEF Init, OwnersInv
<1>2. IInv => TypeOK
  BY DEF IInv
<1>3. IInv /\ OwnersInv /\ [Next]_vars => OwnersInv'
  BY <1>2, OwnersStep
<1>4. IInv /\ OwnersInv => NoCircularWait
  BY SomeoneProceeds
<1> QED
  BY <1>1, <1>3, <1>4, StoreInvariance, PTL DEF Spec

-------------------------------------------------------------------------------
(* The refinement of AtomicStore *)

Asked(u) == At(u, Phases \ {"idle", "done", "answered"})

LEMMA VisibleAsked ==
    ASSUME NEW r \in ThreadState, r.at \notin {"idle", "done", "answered"}
    PROVE  Visible(r) = [at |-> "asked", request |-> r.request,
                         answer |-> Atomic!Says("none", None)]
BY DEF Visible, ThreadState, Atomic!Says

LEMMA VisibleAnswered ==
    ASSUME NEW r \in ThreadState, r.at \in {"done", "answered"}
    PROVE  Visible(r) = [at |-> "answered", request |-> r.request, answer |-> r.answer]
BY DEF Visible, ThreadState

\* The steps on the way to an answer show nothing, and leave the table as it is.
LEMMA HiddenStep ==
    ASSUME IInv, NEW u \in Threads, Asked(u), NEW at \in Phases \ {"idle", "done", "answered"},
           NEW answer \in Atomic!Answer, Answers(u, at, answer), disk' = disk
    PROVE  UNCHANGED Atomic!vars
<1>0. TypeOK /\ thread[u] \in ThreadState
  BY DEF IInv, TypeOK
<1> DEFINE r == [thread[u] EXCEPT !.at = at, !.answer = answer]
<1>1. thread' = [thread EXCEPT ![u] = r]
  BY <1>0 DEF Answers, TypeOK
<1>2. r \in ThreadState /\ r.at = at /\ r.request = thread[u].request
  BY <1>0 DEF ThreadState
<1> HIDE DEF r
<1>3. Visible(r) = Visible(thread[u])
  BY <1>0, <1>2, VisibleAsked DEF Asked, At, Phases
<1>4. Client' = [Client EXCEPT ![u] = Visible(r)]
  BY <1>0, <1>1, ClientStep
<1>5. Client' = Client
  BY <1>3, <1>4 DEF Client
<1> QED
  BY <1>5 DEF Atomic!vars

LEMMA HiddenMove ==
    ASSUME IInv, NEW u \in Threads, Asked(u), NEW at \in Phases \ {"idle", "done", "answered"},
           Goes(u, at), disk' = disk
    PROVE  UNCHANGED Atomic!vars
<1>1. thread[u].answer \in Atomic!Answer
  BY DEF IInv, TypeOK, ThreadState
<1>2. Answers(u, at, thread[u].answer)
  BY DEF IInv, TypeOK, ThreadState, Goes, Answers
<1> QED
  BY <1>1, <1>2, HiddenStep

\* An operation that ends shows its answer.
LEMMA EndsAnswers ==
    ASSUME IInv, NEW u \in Threads, NEW answer \in Atomic!Answer, Ends(u, answer),
           ~At(u, {"done"})
    PROVE  /\ Client[u].request = thread[u].request
           /\ Client[u].at = "asked"
           /\ Client' = [Client EXCEPT ![u] = [at |-> "answered", request |-> thread[u].request,
                                               answer |-> answer]]
<1>0. TypeOK /\ thread[u] \in ThreadState
  BY DEF IInv, TypeOK
<1> DEFINE r == [thread[u] EXCEPT !.at = "done", !.answer = answer]
<1>1. thread' = [thread EXCEPT ![u] = r]
  BY <1>0 DEF Ends, Answers, TypeOK
<1>2. r \in ThreadState /\ r.at = "done" /\ r.request = thread[u].request /\ r.answer = answer
  BY <1>0 DEF ThreadState, Phases
<1> HIDE DEF r
<1>3. Visible(r) = [at |-> "answered", request |-> thread[u].request, answer |-> answer]
  BY <1>2, VisibleAnswered
<1>4. Client[u] = [at |-> "asked", request |-> thread[u].request,
                   answer |-> Atomic!Says("none", None)]
  BY <1>0, VisibleAsked DEF Client, Ends, At
<1>5. Client' = [Client EXCEPT ![u] = Visible(r)]
  BY <1>0, <1>1, ClientStep
<1>6. Client[u].request = thread[u].request /\ Client[u].at = "asked"
  BY <1>4
<1> QED
  BY <1>3, <1>5, <1>6

LEMMA EndsAnswered ==
    ASSUME IInv, NEW u \in Threads, NEW answer \in Atomic!Answer, Ends(u, answer),
           ~At(u, {"done"})
    PROVE  Atomic!Answered(u, answer)
BY EndsAnswers DEF Atomic!Answered

LEMMA AskRefines ==
    ASSUME IInv, NEW u \in Threads, Ask(u)
    PROVE  \E q \in Atomic!Request : Atomic!Ask(u, q)
<1>0. TypeOK /\ At(u, {"idle"})
  BY DEF IInv, Ask
<1>1. PICK q \in Asks[u] : thread' = [thread EXCEPT ![u] = Atomic!Asking(q)]
  BY DEF Ask
<1>2. q \in Atomic!Request
  BY StoreConstants
<1> DEFINE r == Atomic!Asking(q)
<1>3. r \in ThreadState /\ r.at = "asked" /\ r.request = q
  BY <1>2, SaysIsAnswer DEF ThreadState, Phases, Atomic!Asking
<1>4. Visible(r) = r
  BY <1>3, VisibleAsked DEF Atomic!Asking
<1>5. Client' = [Client EXCEPT ![u] = r]
  BY <1>0, <1>1, <1>4, ClientStep
<1>6. Client[u].at = "idle"
  BY <1>0 DEF Client, Visible, At
<1> QED
  BY <1>2, <1>5, <1>6 DEF Atomic!Ask, Ask

LEMMA FindKeyRefines ==
    ASSUME IInv, NEW u \in Threads, FindKey(u)
    PROVE  Atomic!Reserve(u) \/ UNCHANGED Atomic!vars
<1>0. TypeOK /\ ThreadInv(u) /\ At(u, {"begun"}) /\ disk' = disk
  BY DEF IInv, FindKey
<1>1. CASE Goes(u, "searched")
  BY <1>0, <1>1, HiddenMove DEF Asked, At, Phases
<1>2. CASE /\ \E c \in Bound(u) :
                Answers(u, "done", IF disk[c].task = thread[u].request.task
                                   THEN Atomic!Shows("replayed", c)
                                   ELSE Atomic!Says("conflict", None))
           /\ Released(u)
  <2>1. PICK c \in Bound(u) :
                Answers(u, "done", IF disk[c].task = thread[u].request.task
                                   THEN Atomic!Shows("replayed", c)
                                   ELSE Atomic!Says("conflict", None))
    BY <1>2
  <2> DEFINE answer == IF disk[c].task = thread[u].request.task
                       THEN Atomic!Shows("replayed", c) ELSE Atomic!Says("conflict", None)
  <2>2. c \in CallIds /\ HasRow(c)
    BY DEF Bound
  <2>3. answer \in Atomic!Answer
    BY <1>0, <2>2, SaysIsAnswer, ShowsIsAnswer DEF TypeOK
  <2>4. Ends(u, answer) /\ ~At(u, {"done"})
    BY <1>0, <1>2, <2>1 DEF Ends, FindKey, At
  <2> HIDE DEF answer
  <2>5. Client[u].request = thread[u].request /\ Client[u].at = "asked"
    BY <2>3, <2>4, EndsAnswers
  <2>6. Atomic!Answered(u, answer)
    BY <2>3, <2>4, EndsAnswered
  <2>7. thread[u].request.op = "reserve"
    BY <1>0 DEF ThreadInv, At, Op
  <2>8. c \in Atomic!Bound(Client[u].request)
    BY <2>2, <2>5 DEF Bound, Atomic!Bound, HasRow
  <2> QED
    BY <1>0, <2>5, <2>6, <2>7, <2>8 DEF Atomic!Reserve, Atomic!Asked, answer
<1> QED
  BY <1>1, <1>2 DEF FindKey

LEMMA CheckActiveRefines ==
    ASSUME IInv, NEW u \in Threads, CheckActive(u)
    PROVE  Atomic!Reserve(u) \/ UNCHANGED Atomic!vars
<1>0. TypeOK /\ ThreadInv(u) /\ At(u, {"searched"}) /\ disk' = disk
  BY DEF IInv, CheckActive
<1>1. CASE Goes(u, "clear")
  BY <1>0, <1>1, HiddenMove DEF Asked, At, Phases
<1>2. CASE Busy /\ Answers(u, "done", Atomic!Says("busy", None)) /\ Released(u)
  <2>1. Atomic!Says("busy", None) \in Atomic!Answer
    BY SaysIsAnswer
  <2>2. Ends(u, Atomic!Says("busy", None)) /\ ~At(u, {"done"})
    BY <1>0, <1>2 DEF Ends, CheckActive, At
  <2>3. Client[u].request = thread[u].request /\ Client[u].at = "asked"
    BY <2>1, <2>2, EndsAnswers
  <2>4. Atomic!Answered(u, Atomic!Says("busy", None))
    BY <2>1, <2>2, EndsAnswered
  <2>5. thread[u].request.op = "reserve"
    BY <1>0 DEF ThreadInv, At, Op
  <2>6. Atomic!Bound(Client[u].request) = {} /\ Atomic!Busy
    BY <1>0, <1>2, <2>3 DEF ThreadInv, At, Bound, Busy, Atomic!Bound, Atomic!Busy, HasRow
  <2> QED
    BY <1>0, <2>3, <2>4, <2>5, <2>6 DEF Atomic!Reserve, Atomic!Asked
<1> QED
  BY <1>1, <1>2 DEF CheckActive

\* The commit is the instant at which a reservation and an update take effect.
LEMMA CommittedRefines ==
    ASSUME IInv, NEW u \in Threads, Committed(u)
    PROVE  Atomic!Reserve(u) \/ Atomic!Update(u)
<1>0. TypeOK /\ ThreadInv(u) /\ At(u, {"committing"}) /\ writer = u /\ disk' = draft
  BY DEF IInv, Committed, ThreadInv, At, Writing, Holding
<1>1. thread[u].answer \in Atomic!Answer
  BY <1>0 DEF TypeOK, ThreadState
<1>2. Answers(u, "done", thread[u].answer)
  BY <1>0 DEF Committed, Goes, Answers, TypeOK, ThreadState
<1>3. Ends(u, thread[u].answer) /\ ~At(u, {"done"})
  BY <1>0, <1>2 DEF Ends, Committed, At
<1>4. Client[u].request = thread[u].request /\ Client[u].at = "asked"
  BY <1>1, <1>3, EndsAnswers
<1>5. Atomic!Answered(u, thread[u].answer)
  BY <1>1, <1>3, EndsAnswered
<1>6. CASE ReservationDrafted(u)
  <2>1. PICK c \in CallIds :
          /\ ~HasRow(c)
          /\ draft = [disk EXCEPT ![c] = [key |-> thread[u].request.key,
                                          task |-> thread[u].request.task,
                                          result |-> NewResult]]
          /\ thread[u].answer = Atomic!Says("made", c)
    BY <1>6 DEF ReservationDrafted
  <2>2. Atomic!Bound(Client[u].request) = {} /\ ~Atomic!Busy
    BY <1>4, <1>6 DEF ReservationDrafted, Bound, Busy, Atomic!Bound, Atomic!Busy, HasRow
  <2>3. Atomic!Asked(u, "reserve")
    BY <1>4, <1>6 DEF ReservationDrafted, Atomic!Asked, Op
  <2> QED
    BY <1>0, <1>4, <1>5, <2>1, <2>2, <2>3 DEF Atomic!Reserve, HasRow
<1>7. CASE UpdateDrafted(u)
  BY <1>0, <1>4, <1>5, <1>7 DEF UpdateDrafted, Atomic!Update, Atomic!Asked, Op, HasRow
<1> QED
  BY <1>0, <1>6, <1>7 DEF ThreadInv, At

LEMMA FetchRefines ==
    ASSUME IInv, NEW u \in Threads, Fetch(u)
    PROVE  Atomic!Get(u)
<1>0. TypeOK /\ ThreadInv(u) /\ At(u, {"reading"}) /\ disk' = disk
  BY DEF IInv, Fetch
<1> DEFINE c == thread[u].request.call
           answer == IF HasRow(c) THEN Atomic!Shows("found", c) ELSE Atomic!Says("missing", None)
<1>1. c \in CallIds
  BY <1>0, RequestFields DEF ThreadInv, At, Op
<1>2. answer \in Atomic!Answer
  BY <1>0, <1>1, SaysIsAnswer, ShowsIsAnswer DEF TypeOK
<1>3. writer # u
  BY <1>0 DEF ThreadInv, At, Writing, Holding
<1>4. Ends(u, answer) /\ ~At(u, {"done"})
  BY <1>0, <1>3 DEF Ends, Fetch, Released, At
<1>5. Client[u].request = thread[u].request /\ Client[u].at = "asked"
  BY <1>2, <1>4, EndsAnswers
<1>6. Atomic!Answered(u, answer)
  BY <1>2, <1>4, EndsAnswered
<1> QED
  BY <1>0, <1>5, <1>6 DEF Atomic!Get, Atomic!Asked, ThreadInv, At, Op, HasRow

LEMMA RaisesRefines ==
    ASSUME IInv, NEW u \in Threads, BusyTimeout(u) \/ StatementError(u)
    PROVE  Atomic!Fail(u)
<1>1. Atomic!Says("error", None) \in Atomic!Answer
  BY SaysIsAnswer
<1>2. ~At(u, {"idle", "answered", "done"}) /\ ~At(u, {"idle", "answered"}) /\ Raises(u)
  BY DEF BusyTimeout, StatementError, Waits, Holding, At
<1>3. Ends(u, Atomic!Says("error", None)) /\ ~At(u, {"done"}) /\ disk' = disk
  BY <1>2 DEF Ends, Raises, At
<1>4. Atomic!Answered(u, Atomic!Says("error", None))
  BY <1>1, <1>3, EndsAnswered
<1> QED
  BY <1>3, <1>4 DEF Atomic!Fail

LEMMA ReturnRefines ==
    ASSUME IInv, NEW u \in Threads, Return(u)
    PROVE  UNCHANGED Atomic!vars
<1>0. TypeOK /\ thread[u] \in ThreadState /\ At(u, {"done"})
  BY DEF IInv, TypeOK, Return
<1> DEFINE r == [thread[u] EXCEPT !.at = "answered"]
<1>1. thread' = [thread EXCEPT ![u] = r]
  BY <1>0 DEF Return, Goes, TypeOK
<1>2. /\ r \in ThreadState /\ r.at = "answered" /\ r.request = thread[u].request
      /\ r.answer = thread[u].answer
  BY <1>0 DEF ThreadState, Phases
<1> HIDE DEF r
<1>3. Visible(r) = Visible(thread[u])
  BY <1>0, <1>2, VisibleAnswered DEF At
<1>4. Client' = [Client EXCEPT ![u] = Visible(r)]
  BY <1>0, <1>1, ClientStep
<1>5. Client' = Client
  BY <1>3, <1>4 DEF Client
<1> QED
  BY <1>5 DEF Atomic!vars, Return

LEMMA CollectRefines ==
    ASSUME IInv, NEW u \in Threads, Collect(u)
    PROVE  Atomic!Collect(u)
<1>0. TypeOK /\ thread[u] \in ThreadState /\ At(u, {"answered"})
  BY DEF IInv, TypeOK, Collect
<1>1. Client[u].at = "answered"
  BY <1>0, VisibleAnswered DEF Client, At
<1>2. Visible(Atomic!Resting) = Atomic!Resting
  BY DEF Visible, Atomic!Resting
<1>3. Client' = [Client EXCEPT ![u] = Atomic!Resting]
  BY <1>0, <1>2, ClientStep DEF Collect
<1> QED
  BY <1>1, <1>3 DEF Atomic!Collect, Collect

LEMMA CrashRefines ==
    ASSUME IInv, NEW p \in Processes, Crash(p)
    PROVE  \E threads \in SUBSET Threads : Atomic!Crash(threads)
<1> DEFINE Lost == {t \in Threads : ProcessOf[t] = p}
<1>1. thread' = [t \in Threads |-> IF t \in Lost THEN Atomic!Resting ELSE thread[t]]
  BY DEF Crash
<1>2. Visible(Atomic!Resting) = Atomic!Resting
  BY DEF Visible, Atomic!Resting
<1>3. Client' = [t \in Threads |-> IF t \in Lost THEN Atomic!Resting ELSE Client[t]]
  BY <1>1, <1>2 DEF Client, Visible
<1> QED
  BY <1>3 DEF Atomic!Crash, Crash

LEMMA NextRefines ==
    ASSUME IInv, [Next]_vars
    PROVE  [Atomic!Next]_Atomic!vars
<1>1. ASSUME NEW u \in Threads, Lock(u) \/ BeginImmediate(u) \/ Commit(u) \/ Select(u)
      PROVE  UNCHANGED Atomic!vars
  <2>1. PICK at \in {"locked", "begun", "committing", "reading"} : Goes(u, at)
    BY <1>1 DEF Lock, BeginImmediate, Commit, Select
  <2>2. Asked(u) /\ disk' = disk
    BY <1>1 DEF Lock, BeginImmediate, Commit, Select, Asked, At, Phases
  <2>3. at \in Phases \ {"idle", "done", "answered"}
    BY <2>1 DEF Phases
  <2> QED
    BY <2>1, <2>2, <2>3, HiddenMove
<1>2. ASSUME NEW u \in Threads, Insert(u) \/ Update(u)
      PROVE  UNCHANGED Atomic!vars
  <2>1. PICK answer \in Atomic!Answer : Answers(u, "drafted", answer)
    BY <1>2, SaysIsAnswer DEF Insert, Update
  <2>2. Asked(u) /\ disk' = disk
    BY <1>2 DEF Insert, Update, Asked, At, Phases
  <2> QED
    BY <2>1, <2>2, HiddenStep DEF Phases
<1>3. ASSUME NEW u \in Threads,
             \/ Ask(u) \/ Lock(u) \/ Proceeds(u)
             \/ BusyTimeout(u) \/ StatementError(u) \/ Collect(u)
      PROVE  \/ UNCHANGED Atomic!vars
             \/ \E q \in Atomic!Request : Atomic!Ask(u, q)
             \/ Atomic!Reserve(u) \/ Atomic!Get(u) \/ Atomic!Update(u)
             \/ Atomic!Fail(u) \/ Atomic!Collect(u)
  BY <1>1, <1>2, <1>3, AskRefines, FindKeyRefines, CheckActiveRefines, CommittedRefines,
     FetchRefines, RaisesRefines, ReturnRefines, CollectRefines DEF Proceeds
<1>4. ASSUME NEW p \in Processes, Crash(p)
      PROVE  \E threads \in SUBSET Threads : Atomic!Crash(threads)
  BY <1>4, CrashRefines
<1>5. ASSUME UNCHANGED vars PROVE UNCHANGED Atomic!vars
  BY <1>5 DEF vars, Atomic!vars, Client, Visible
<1>6. ASSUME NEW u \in Threads,
             \/ Ask(u) \/ Lock(u) \/ Proceeds(u)
             \/ BusyTimeout(u) \/ StatementError(u) \/ Collect(u)
      PROVE  [Atomic!Next]_Atomic!vars
  BY <1>3, <1>6 DEF Atomic!Next
<1>7. ASSUME NEW p \in Processes, Crash(p) PROVE [Atomic!Next]_Atomic!vars
  BY <1>4, <1>7 DEF Atomic!Next
<1> QED
  BY <1>5, <1>6, <1>7 DEF Next

LEMMA InitRefines == Init => Atomic!Init
<1>1. Visible(Atomic!Resting) = Atomic!Resting
  BY DEF Visible, Atomic!Resting
<1> QED
  BY <1>1 DEF Init, Atomic!Init, Client

\* store.py's locks, statements, timeouts, rollbacks and crashes implement the store its callers
\* take for granted, where every operation happens in one instant or not at all.
THEOREM StoreIsAtomic == Spec => ImplementsAtomicStore
<1>1. IInv /\ [Next]_vars => [Atomic!Next]_Atomic!vars
  BY NextRefines
<1> QED
  BY StoreInvariance, InitRefines, <1>1, PTL DEF Spec, ImplementsAtomicStore, Atomic!Spec
==============================================================================
