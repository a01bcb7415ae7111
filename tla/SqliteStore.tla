----------------------------- MODULE SqliteStore -----------------------------
(***************************************************************************)
(* TaskStore (store.py) statement by statement: the threading.Lock every   *)
(* process has for itself, the explicit BEGIN IMMEDIATE of reserve, the    *)
(* transaction an UPDATE opens on its own, the commits, the connections    *)
(* that wait for each other at most five seconds, the exceptions that roll *)
(* back, and processes that die with a transaction open.                   *)
(*                                                                         *)
(* SQLite (external) locks its file as it does with a rollback journal: a  *)
(* SELECT holds SHARED while it runs, one connection at most has RESERVED, *)
(* and a commit lets no new reader in and waits for those that are there.  *)
(***************************************************************************)
CONSTANTS
    Threads,    \* the threads that use the store: of each process, server and callbacks
    ProcessOf,  \* the process of each thread
    Asks,       \* the operations each thread calls
    CallIds, Keys, Tasks, Results, NewResult, Ended, None   \* see AtomicStore

VARIABLES
    disk,       \* the table as the last commit left it
    draft,      \* the table as the connection with the RESERVED lock sees it
    writer,     \* the thread whose connection has the RESERVED lock, or None
    mutex,      \* TaskStore._lock of each process: the thread that has it, or None
    thread      \* where each thread is in its operation, with its request and its answer

vars == <<disk, draft, writer, mutex, thread>>

Processes == {ProcessOf[t] : t \in Threads}

\* What the callers can see of a thread: its answer counts once nothing can take it back.
Visible(r) ==
    CASE r.at = "idle" -> r
      [] r.at \in {"done", "answered"} -> [r EXCEPT !.at = "answered"]
      [] OTHER -> [r EXCEPT !.at = "asked", !.answer = [is |-> "none", call |-> None]]

Client == [t \in Threads |-> Visible(thread[t])]

Atomic == INSTANCE AtomicStore WITH table <- disk, client <- Client

\* The steps of reserve up to its commit; then those of any operation.
Phases == {"idle", "asked", "locked", "begun", "searched", "clear", "drafted", "committing",
           "reading", "done", "answered"}

\* The places at which a thread is inside an operation that writes, and inside its transaction.
Holding == {"locked", "begun", "searched", "clear", "drafted", "committing"}
Writing == Holding \ {"locked"}

ASSUME StoreConstants ==
    /\ Asks \in [Threads -> SUBSET Atomic!Request]
    /\ NewResult \in Results
    /\ Ended \subseteq Results
    /\ None \notin Threads \cup CallIds \cup Atomic!Row

Init ==
    /\ disk = [c \in CallIds |-> None]
    /\ draft = disk
    /\ writer = None
    /\ mutex = [p \in Processes |-> None]
    /\ thread = [t \in Threads |-> Atomic!Resting]

-------------------------------------------------------------------------------
At(t, places) == thread[t].at \in places

Op(t) == thread[t].request.op

Goes(t, at) == thread' = [thread EXCEPT ![t].at = at]

Answers(t, at, answer) == thread' = [thread EXCEPT ![t].at = at, ![t].answer = answer]

\* The connection of t ends its transaction, if it has one.
Released(t) == writer' = IF writer = t THEN None ELSE writer

HasRow(c) == disk[c] # None

\* The rows that have the key t reserves; whether any row's task is active.
Bound(t) == {c \in CallIds : HasRow(c) /\ disk[c].key = thread[t].request.key}
Busy == \E c \in CallIds : HasRow(c) /\ disk[c].result \notin Ended

Ask(t) ==
    /\ At(t, {"idle"})
    /\ \E q \in Asks[t] : thread' = [thread EXCEPT ![t] = Atomic!Asking(q)]
    /\ UNCHANGED <<disk, draft, writer, mutex>>

\* Mutant: reserve begins its transaction before it takes the lock.
Lock_BeginFirst(t) ==
    /\ At(t, {"asked"})
    /\ \/ /\ Op(t) = "reserve" /\ writer = None
          /\ writer' = t /\ draft' = disk
          /\ UNCHANGED <<disk, mutex, thread>>
       \/ /\ Op(t) = "update" \/ writer = t
          /\ mutex[ProcessOf[t]] = None
          /\ mutex' = [mutex EXCEPT ![ProcessOf[t]] = t]
          /\ Goes(t, IF Op(t) = "update" THEN "locked" ELSE "begun")
          /\ UNCHANGED <<disk, draft, writer>>

\* `with self._lock`, in reserve and update; get and get_task do without.
Lock(t) ==
    /\ At(t, {"asked"}) /\ Op(t) # "get"
    /\ mutex[ProcessOf[t]] = None
    /\ mutex' = [mutex EXCEPT ![ProcessOf[t]] = t]
    /\ Goes(t, "locked")
    /\ UNCHANGED <<disk, draft, writer>>

-------------------------------------------------------------------------------
(* reserve *)

\* Mutant: no explicit BEGIN, so that the two SELECTs are not part of a transaction.
BeginImmediate_Implicit(t) ==
    /\ At(t, {"locked"}) /\ Op(t) = "reserve"
    /\ Goes(t, "begun")
    /\ UNCHANGED <<disk, draft, writer, mutex>>

BeginImmediate(t) ==
    /\ At(t, {"locked"}) /\ Op(t) = "reserve"
    /\ writer = None
    /\ writer' = t
    /\ draft' = disk
    /\ Goes(t, "begun")
    /\ UNCHANGED <<disk, mutex>>

\* The SELECT for the key: its row is replayed, or refused as a conflict.
FindKey(t) ==
    /\ At(t, {"begun"})
    /\ \/ Bound(t) = {} /\ Goes(t, "searched") /\ UNCHANGED writer
       \/ /\ \E c \in Bound(t) :
                Answers(t, "done", IF disk[c].task = thread[t].request.task
                                   THEN Atomic!Shows("replayed", c)
                                   ELSE Atomic!Says("conflict", None))
          /\ Released(t)
    /\ UNCHANGED <<disk, draft, mutex>>

CheckActive(t) ==
    /\ At(t, {"searched"})
    /\ \/ ~Busy /\ Goes(t, "clear") /\ UNCHANGED writer
       \/ Busy /\ Answers(t, "done", Atomic!Says("busy", None)) /\ Released(t)
    /\ UNCHANGED <<disk, draft, mutex>>

\* The INSERT.  (It would open a transaction, were there none.)
Insert(t) ==
    LET q == thread[t].request
    IN  /\ At(t, {"clear"})
        /\ writer \in {t, None}
        /\ writer' = t
        /\ \E c \in CallIds :
              /\ ~HasRow(c)
              /\ draft' = [disk EXCEPT ![c] =
                              [key |-> q.key, task |-> q.task, result |-> NewResult]]
              /\ Answers(t, "drafted", Atomic!Says("made", c))
        /\ UNCHANGED <<disk, mutex>>

-------------------------------------------------------------------------------
(* update *)

\* Mutant: INSERT OR REPLACE, of a row that knows only its result.
Update_Upsert(t) ==
    LET q == thread[t].request
    IN  /\ At(t, {"locked"}) /\ q.op = "update"
        /\ writer = None
        /\ writer' = t
        /\ draft' = [disk EXCEPT ![q.call] = [key |-> None, task |-> None, result |-> q.result]]
        /\ Answers(t, "drafted", Atomic!Says("updated", None))
        /\ UNCHANGED <<disk, mutex>>

\* The UPDATE, which opens a transaction and takes the RESERVED lock at once.
Update(t) ==
    LET q == thread[t].request
    IN  /\ At(t, {"locked"}) /\ q.op = "update"
        /\ writer = None
        /\ writer' = t
        /\ draft' = IF HasRow(q.call) THEN [disk EXCEPT ![q.call].result = q.result] ELSE disk
        /\ Answers(t, "drafted", Atomic!Says("updated", None))
        /\ UNCHANGED <<disk, mutex>>

-------------------------------------------------------------------------------
(* Commits and reads *)

Committing == \E t \in Threads : At(t, {"committing"})
Reading == \E t \in Threads : At(t, {"reading"})

\* db.commit(): from here on no SELECT starts.
Commit(t) ==
    /\ At(t, {"drafted"})
    /\ Goes(t, "committing")
    /\ UNCHANGED <<disk, draft, writer, mutex>>

Committed(t) ==
    /\ At(t, {"committing"})
    /\ ~Reading
    /\ disk' = draft
    /\ Released(t)
    /\ Goes(t, "done")
    /\ UNCHANGED <<draft, mutex>>

\* get and get_task: a SELECT with no lock but SQLite's.
Select(t) ==
    /\ At(t, {"asked"}) /\ Op(t) = "get"
    /\ ~Committing
    /\ Goes(t, "reading")
    /\ UNCHANGED <<disk, draft, writer, mutex>>

Fetch(t) ==
    LET c == thread[t].request.call
    IN  /\ At(t, {"reading"})
        /\ Answers(t, "done", IF HasRow(c) THEN Atomic!Shows("found", c)
                                           ELSE Atomic!Says("missing", None))
        /\ UNCHANGED <<disk, draft, writer, mutex>>

-------------------------------------------------------------------------------
(* Ends, good and bad *)

\* Mutant: the exception leaves the transaction of a connection that lives on.
Raises_NoRollback(t) ==
    /\ Answers(t, "done", Atomic!Says("error", None))
    /\ UNCHANGED <<disk, draft, writer, mutex>>

\* A statement raises, and `with ... as db` rolls back.
Raises(t) ==
    /\ Answers(t, "done", Atomic!Says("error", None))
    /\ Released(t)
    /\ UNCHANGED <<disk, draft, mutex>>

\* The connection of t finds the file locked.
Waits(t) ==
    \/ At(t, {"locked"}) /\ writer # None
    \/ At(t, {"committing"}) /\ Reading
    \/ At(t, {"asked"}) /\ Op(t) = "get" /\ Committing

\* After five seconds of that: "database is locked".
BusyTimeout(t) == Waits(t) /\ Raises(t)

\* The disk is full, or the file unreadable.
StatementError(t) == At(t, Holding \cup {"reading"}) /\ Raises(t)

\* Mutant: the lock is acquired and released by hand, and an exception skips the release.
Return_NotOnError(t) ==
    /\ At(t, {"done"})
    /\ mutex' = IF mutex[ProcessOf[t]] = t /\ thread[t].answer.is # "error"
                THEN [mutex EXCEPT ![ProcessOf[t]] = None] ELSE mutex
    /\ Goes(t, "answered")
    /\ UNCHANGED <<disk, draft, writer>>

\* The block is left, by its end, a return or an exception, and the lock with it.
Return(t) ==
    /\ At(t, {"done"})
    /\ mutex' = IF mutex[ProcessOf[t]] = t THEN [mutex EXCEPT ![ProcessOf[t]] = None] ELSE mutex
    /\ Goes(t, "answered")
    /\ UNCHANGED <<disk, draft, writer>>

Collect(t) ==
    /\ At(t, {"answered"})
    /\ thread' = [thread EXCEPT ![t] = Atomic!Resting]
    /\ UNCHANGED <<disk, draft, writer, mutex>>

\* The process dies: its file locks go with it, and what it had not committed.
Crash(p) ==
    LET Lost == {t \in Threads : ProcessOf[t] = p}
    IN  /\ \E t \in Lost : ~At(t, {"idle"})
        /\ thread' = [t \in Threads |-> IF t \in Lost THEN Atomic!Resting ELSE thread[t]]
        /\ mutex' = [mutex EXCEPT ![p] = None]
        /\ writer' = IF writer \in Lost THEN None ELSE writer
        /\ UNCHANGED <<disk, draft>>

-------------------------------------------------------------------------------
Proceeds(t) ==
    \/ BeginImmediate(t) \/ FindKey(t) \/ CheckActive(t) \/ Insert(t) \/ Update(t)
    \/ Commit(t) \/ Committed(t) \/ Select(t) \/ Fetch(t) \/ Return(t)

Next ==
    \/ \E t \in Threads : \/ Ask(t) \/ Lock(t) \/ Proceeds(t)
                          \/ BusyTimeout(t) \/ StatementError(t) \/ Collect(t)
    \/ \E p \in Processes : Crash(p)

Spec == Init /\ [][Next]_vars

\* A thread goes on or gives up waiting for the file after five seconds; the lock of a process
\* is given to a thread that waits for it while it comes free again and again.
FairSpec ==
    /\ Spec
    /\ \A t \in Threads : WF_vars(Proceeds(t) \/ BusyTimeout(t)) /\ SF_vars(Lock(t))

-------------------------------------------------------------------------------
(* Properties *)

Table == [CallIds -> Atomic!Row \cup {None}]

ThreadState == [at : Phases, request : Atomic!Request \cup {None}, answer : Atomic!Answer]

TypeOK ==
    /\ disk \in Table /\ draft \in Table
    /\ writer \in Threads \cup {None}
    /\ mutex \in [Processes -> Threads \cup {None}]
    /\ thread \in [Threads -> ThreadState]

\* The comment at store.py:41-43: whatever statements of other threads and processes come
\* between those of an operation, and whoever times out or dies inside, reserve, get and update
\* are what PhoneTasks and DemoMode take them for.
ImplementsAtomicStore == Atomic!Spec

\* No way out of an operation, by its end, an early return or an exception, leaves the thread
\* with the process's lock or the file's: the next reservation is not refused for it.
LocksAreReturned ==
    \A t \in Threads :
        At(t, {"idle", "answered"}) => writer # t /\ mutex[ProcessOf[t]] # t

\* While a thread is inside an operation, some thread is that waits for no lock, neither its
\* process's nor the file's: threads never all wait for each other, and what sqlite3's five
\* seconds cut short is slowness, never a circle (self._lock before BEGIN IMMEDIATE, by all).
WaitsForLock(t) == At(t, {"asked"}) /\ Op(t) # "get" /\ mutex[ProcessOf[t]] # None

Inside(t) == ~At(t, {"idle", "answered"})

NoCircularWait ==
    (\E t \in Threads : Inside(t)) =>
        \E t \in Threads : Inside(t) /\ ~WaitsForLock(t) /\ ~Waits(t)

\* Whoever holds the locks, every call of an operation returns or raises in the end; the two
\* locks, taken in this order by all, are never waited for in a circle.
EveryCallReturns == \A t \in Threads : At(t, {"asked"}) ~> At(t, {"answered", "idle"})
==============================================================================
