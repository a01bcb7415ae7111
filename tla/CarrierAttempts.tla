--------------------------- MODULE CarrierAttempts ---------------------------
(***************************************************************************)
(* What a client may rely on when it sends a task with an idempotency key, *)
(* and sends it again because it cannot know what became of it: the key is *)
(* bound once, to one allowed task, and the carrier is asked once at most. *)
(* Nothing is said of rows, processes, crashes or callbacks.               *)
(***************************************************************************)
EXTENDS Integers

CONSTANTS Keys, Tasks, Allowed, Receipts

VARIABLES
    accepted,   \* accepted[k]: the task bound to key k, as a set of at most one
    attempts    \* attempts[k]: the orders sent to the carrier for key k, <<receipt, number>>

avars == <<accepted, attempts>>

Init ==
    /\ accepted = [k \in Keys |-> {}]
    /\ attempts = [k \in Keys |-> {}]

\* The key is bound to an allowed task.
Accept(k, t) ==
    /\ accepted[k] = {}
    /\ t \in Allowed
    /\ accepted' = [accepted EXCEPT ![k] = {t}]
    /\ UNCHANGED attempts

\* The carrier is asked, for the first and only time.
Attempt(k, receipt) ==
    /\ accepted[k] # {}
    /\ attempts[k] = {}
    /\ attempts' = [attempts EXCEPT ![k] = {<<receipt, 1>>}]
    /\ UNCHANGED accepted

Next ==
    \E k \in Keys : \/ \E t \in Tasks : Accept(k, t)
                    \/ \E receipt \in Receipts : Attempt(k, receipt)

Spec == Init /\ [][Next]_avars
==============================================================================
