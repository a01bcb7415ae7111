----------------------------- MODULE AtomicStore -----------------------------
(***************************************************************************)
(* What the callers of TaskStore (store.py) are promised: reserve, get and *)
(* update each take effect in one instant between the call and its return, *)
(* or fail and have no effect at all; and a process that dies has done all *)
(* of its operation or nothing.  PhoneTasks relies on this.                *)
(***************************************************************************)
CONSTANTS
    Threads,    \* the threads that use the store, in all processes
    CallIds,    \* the uuid4 values that can become call ids
    Keys,       \* idempotency keys
    Tasks,      \* task contents, as _canonical tells them apart
    Results,    \* the values of the result column
    NewResult,  \* the one a reservation writes
    Ended,      \* those whose status is terminal
    None

VARIABLES
    table,      \* the row of each call id, or None
    client      \* what each thread has asked, and the answer it was given

vars == <<table, client>>

Row == [key : Keys, task : Tasks, result : Results]

Request == [op : {"reserve"}, key : Keys, task : Tasks]
      \cup [op : {"get"}, call : CallIds]
      \cup [op : {"update"}, call : CallIds, result : Results]

Answer == [is : {"none", "made", "conflict", "busy", "missing", "updated", "error"},
           call : CallIds \cup {None}]
     \cup [is : {"replayed", "found"}, call : CallIds, row : Row]

Says(what, c) == [is |-> what, call |-> c]

Shows(what, c) == [is |-> what, call |-> c, row |-> table[c]]

Resting == [at |-> "idle", request |-> None, answer |-> Says("none", None)]

Asking(q) == [at |-> "asked", request |-> q, answer |-> Says("none", None)]

Init ==
    /\ table = [c \in CallIds |-> None]
    /\ client = [t \in Threads |-> Resting]

Ask(t, q) ==
    /\ client[t].at = "idle"
    /\ client' = [client EXCEPT ![t] = Asking(q)]
    /\ UNCHANGED table

Asked(t, op) == client[t].at = "asked" /\ client[t].request.op = op

Answered(t, answer) ==
    /\ client[t].at = "asked"
    /\ client' = [client EXCEPT ![t] =
                      [at |-> "answered", request |-> @.request, answer |-> answer]]

Bound(q) == {c \in CallIds : table[c] # None /\ table[c].key = q.key}

Busy == \E c \in CallIds : table[c] # None /\ table[c].result \notin Ended

\* The key's row decides, if it has one; then whether any row is active; then there is a new row.
Reserve(t) ==
    LET q == client[t].request
    IN  /\ Asked(t, "reserve")
        /\ \/ \E c \in Bound(q) :
                 /\ Answered(t, IF table[c].task = q.task THEN Shows("replayed", c)
                                                          ELSE Says("conflict", None))
                 /\ UNCHANGED table
           \/ /\ Bound(q) = {} /\ Busy
              /\ Answered(t, Says("busy", None))
              /\ UNCHANGED table
           \/ /\ Bound(q) = {} /\ ~Busy
              /\ \E c \in CallIds :
                    /\ table[c] = None
                    /\ table' = [table EXCEPT ![c] =
                                    [key |-> q.key, task |-> q.task, result |-> NewResult]]
                    /\ Answered(t, Says("made", c))

Get(t) ==
    LET q == client[t].request
    IN  /\ Asked(t, "get")
        /\ Answered(t, IF table[q.call] = None THEN Says("missing", None)
                                               ELSE Shows("found", q.call))
        /\ UNCHANGED table

\* Of a call without a row, nothing is kept.
Update(t) ==
    LET q == client[t].request
    IN  /\ Asked(t, "update")
        /\ Answered(t, Says("updated", None))
        /\ table' = IF table[q.call] = None THEN table
                    ELSE [table EXCEPT ![q.call].result = q.result]

Fail(t) ==
    /\ Answered(t, Says("error", None))
    /\ UNCHANGED table

Collect(t) ==
    /\ client[t].at = "answered"
    /\ client' = [client EXCEPT ![t] = Resting]
    /\ UNCHANGED table

\* The threads of a process are gone, with their answers.
Crash(threads) ==
    /\ client' = [t \in Threads |-> IF t \in threads THEN Resting ELSE client[t]]
    /\ UNCHANGED table

Next ==
    \/ \E t \in Threads :
          \/ \E q \in Request : Ask(t, q)
          \/ Reserve(t) \/ Get(t) \/ Update(t) \/ Fail(t) \/ Collect(t)
    \/ \E threads \in SUBSET Threads : Crash(threads)

Spec == Init /\ [][Next]_vars
==============================================================================
