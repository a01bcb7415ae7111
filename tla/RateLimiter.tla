----------------------------- MODULE RateLimiter -----------------------------
(***************************************************************************)
(* RelayRateLimiter (demo_relay.py): a sliding window of timestamps for    *)
(* each client of the relay.  allow() has no await, so a call of it is one *)
(* step; the clock moves between calls.                                    *)
(***************************************************************************)
EXTENDS Integers, Sequences, FiniteSets

CONSTANTS
    Clients,        \* the "host:token" keys of _requests
    MaxRequests,    \* max_requests
    Window,         \* window_seconds
    Horizon         \* the last instant of the clock (bounds the model)

ASSUME LimiterConstants ==
    /\ MaxRequests \in Nat
    /\ Window \in Nat
    /\ Horizon \in Nat

VARIABLES
    now,        \* time.monotonic()
    bucket,     \* _requests: the deque of each client
    answer,     \* what allow() last returned to each client, if it was called at this instant
    granted     \* recorded for the properties: every timestamp allow() granted

vars == <<now, bucket, answer, granted>>

Init ==
    /\ now = 0
    /\ bucket = [c \in Clients |-> <<>>]
    /\ answer = [c \in Clients |-> "none"]
    /\ granted = [c \in Clients |-> <<>>]

\* Mutant: a timestamp expires one instant late.
Expired_Late(t) == now - t > Window

Expired(t) == now - t >= Window

\* How many timestamps the popleft loop removes: it stops at the first that has not expired.
Popped(b) ==
    CHOOSE n \in 0..Len(b) :
        /\ \A i \in 1..n : Expired(b[i])
        /\ n < Len(b) => ~Expired(b[n + 1])

Current(b) == SubSeq(b, Popped(b) + 1, Len(b))

\* Mutant: the bucket takes one timestamp more than its size.
Full_OneMore(b) == Len(b) > MaxRequests

Full(b) == Len(b) >= MaxRequests

Allow(c) ==
    LET b == Current(bucket[c])
    IN  /\ \/ /\ Full(b)
              /\ bucket' = [bucket EXCEPT ![c] = b]
              /\ answer' = [answer EXCEPT ![c] = "denied"]
              /\ UNCHANGED granted
           \/ /\ ~Full(b)
              /\ bucket' = [bucket EXCEPT ![c] = Append(b, now)]
              /\ answer' = [answer EXCEPT ![c] = "allowed"]
              /\ granted' = [granted EXCEPT ![c] = Append(@, now)]
        /\ UNCHANGED now

Tick ==
    /\ now < Horizon
    /\ now' = now + 1
    /\ answer' = [c \in Clients |-> "none"]
    /\ UNCHANGED <<bucket, granted>>

Next == Tick \/ \E c \in Clients : Allow(c)

Spec == Init /\ [][Next]_vars

-------------------------------------------------------------------------------

\* Any MaxRequests + 1 consecutive grants to a client span at least one window, so no window,
\* wherever it starts, holds more than MaxRequests of them (allow, demo_relay.py:38-46).
AtMostPerWindow ==
    \A c \in Clients : \A i \in 1..Len(granted[c]) :
        i + MaxRequests <= Len(granted[c]) =>
            granted[c][i + MaxRequests] - granted[c][i] >= Window

\* The grants to c that count at this instant
InWindow(c) == {i \in 1..Len(granted[c]) : now - granted[c][i] < Window}

\* A client is turned away only if it was granted MaxRequests requests in the last window:
\* refused requests do not prolong its wait, and other clients' do not count.
DeniedOnlyWhenFull ==
    \A c \in Clients : answer[c] = "denied" => Cardinality(InWindow(c)) >= MaxRequests

===============================================================================
