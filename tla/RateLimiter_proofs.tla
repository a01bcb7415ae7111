--------------------------- MODULE RateLimiter_proofs ---------------------------
(***************************************************************************)
(* Proofs about RateLimiter, for any number of clients, any limit and any  *)
(* window.  The invariant says that a bucket is the end of the list of     *)
(* grants, and that every grant it no longer holds has expired.            *)
(***************************************************************************)
EXTENDS RateLimiter, FiniteSetTheorems, SequenceTheorems, SetInduction, TLAPS

\* How the bucket b of a client stands to its grants g.
BucketInv(b, g) ==
    /\ Len(b) <= Len(g)
    /\ Len(b) <= MaxRequests
    /\ \A i \in 1..Len(b) : b[i] = g[Len(g) - Len(b) + i]
    /\ \A i \in 1..(Len(g) - Len(b)) : now - g[i] >= Window

\* The grants g of a client are in order, in the past, and far enough apart.
GrantsInv(g) ==
    /\ \A i \in 1..Len(g) : g[i] <= now
    /\ \A i, j \in 1..Len(g) : i <= j => g[i] <= g[j]
    /\ \A i \in 1..Len(g) : i + MaxRequests <= Len(g) => g[i + MaxRequests] - g[i] >= Window

LimiterType ==
    /\ now \in Nat
    /\ bucket \in [Clients -> Seq(Nat)]
    /\ answer \in [Clients -> {"none", "allowed", "denied"}]
    /\ granted \in [Clients -> Seq(Nat)]

LimiterInv ==
    /\ LimiterType
    /\ \A c \in Clients : BucketInv(bucket[c], granted[c]) /\ GrantsInv(granted[c])
    /\ DeniedOnlyWhenFull

-------------------------------------------------------------------------------

\* The popleft loop removes a prefix of the bucket, all of it expired, and stops before the
\* first timestamp that is not.
LEMMA CurrentIsSuffix ==
    ASSUME NEW b \in Seq(Nat), now \in Nat
    PROVE  \E n \in 0..Len(b) :
             /\ \A i \in 1..n : Expired(b[i])
             /\ n < Len(b) => ~Expired(b[n + 1])
             /\ Current(b) \in Seq(Nat)
             /\ Len(Current(b)) = Len(b) - n
             /\ \A i \in 1..(Len(b) - n) : Current(b)[i] = b[n + i]
  <1> DEFINE Stops(n) == /\ \A i \in 1..n : Expired(b[i])
                         /\ n < Len(b) => ~Expired(b[n + 1])
             Fresh == {i \in 1..Len(b) : ~Expired(b[i])}
  <1>1. \E n \in 0..Len(b) : Stops(n)
    <2>1. CASE Fresh = {}
      BY <2>1
    <2>2. CASE Fresh # {}
      <3>1. PICK m \in Fresh : \A i \in Fresh : m <= i
        <4>1. Fresh \in SUBSET Nat
          OBVIOUS
        <4> HIDE DEF Fresh
        <4> QED
          BY <2>2, <4>1, LeastElement
      <3>2. m - 1 \in 0..Len(b) /\ Stops(m - 1)
        BY <3>1
      <3> QED
        BY <3>2
    <2> QED
      BY <2>1, <2>2
  <1>2. Popped(b) \in 0..Len(b) /\ Stops(Popped(b))
    BY <1>1 DEF Popped
  <1>3. ASSUME NEW p \in 0..Len(b)
        PROVE  LET s == SubSeq(b, p + 1, Len(b))
               IN  /\ s \in Seq(Nat)
                   /\ Len(s) = Len(b) - p
                   /\ \A i \in 1..(Len(b) - p) : s[i] = b[p + i]
    <2>1. p + 1 \in Int /\ Len(b) \in Int /\ \A i \in (p + 1)..Len(b) : b[i] \in Nat
      BY <1>3
    <2>2. /\ SubSeq(b, p + 1, Len(b)) \in Seq(Nat)
          /\ Len(SubSeq(b, p + 1, Len(b))) = IF p + 1 <= Len(b) THEN Len(b) - (p + 1) + 1 ELSE 0
          /\ \A i \in 1..(Len(b) - (p + 1) + 1) : SubSeq(b, p + 1, Len(b))[i] = b[p + 1 + i - 1]
      BY <2>1, SubSeqProperties
    <2> QED
      BY <2>2
  <1>4. /\ Current(b) \in Seq(Nat)
        /\ Len(Current(b)) = Len(b) - Popped(b)
        /\ \A i \in 1..(Len(b) - Popped(b)) : Current(b)[i] = b[Popped(b) + i]
    BY <1>2, <1>3 DEF Current
  <1> QED
    BY <1>2, <1>4

\* Dropping what has expired keeps the bucket's relation to the grants, and leaves nothing
\* in it that has expired, for the grants are in order.
LEMMA CurrentKeeps ==
    ASSUME NEW b \in Seq(Nat), NEW g \in Seq(Nat), now \in Nat, BucketInv(b, g), GrantsInv(g)
    PROVE  /\ Current(b) \in Seq(Nat)
           /\ BucketInv(Current(b), g)
           /\ \A i \in 1..Len(Current(b)) : ~Expired(Current(b)[i])
  <1> DEFINE d == Current(b)
  <1>1. PICK n \in 0..Len(b) :
          /\ \A i \in 1..n : Expired(b[i])
          /\ n < Len(b) => ~Expired(b[n + 1])
          /\ d \in Seq(Nat)
          /\ Len(d) = Len(b) - n
          /\ \A i \in 1..(Len(b) - n) : d[i] = b[n + i]
    BY CurrentIsSuffix
  <1> HIDE DEF d
  <1>a. /\ Len(b) \in Nat /\ Len(g) \in Nat /\ Len(d) \in Nat /\ n \in Nat
        /\ n <= Len(b) /\ Len(d) = Len(b) - n /\ Len(b) <= Len(g) /\ Len(d) <= Len(g)
        /\ Len(b) <= MaxRequests
    BY <1>1 DEF BucketInv
  <1>2. \A i \in 1..Len(d) : d[i] = g[Len(g) - Len(d) + i]
    BY <1>1 DEF BucketInv
  <1>3. ASSUME NEW i \in 1..(Len(g) - Len(d))
        PROVE  now - g[i] >= Window
    <2>1. CASE i <= Len(g) - Len(b)
      BY <2>1 DEF BucketInv
    <2>2. CASE i > Len(g) - Len(b)
      <3>1. i - (Len(g) - Len(b)) \in 1..n
        BY <2>2, <1>1 DEF BucketInv
      <3>2. b[i - (Len(g) - Len(b))] = g[i]
        BY <3>1, <1>1 DEF BucketInv
      <3> QED
        BY <3>1, <3>2, <1>1 DEF Expired
    <2> QED
      BY <2>1, <2>2 DEF BucketInv
  <1>4. ASSUME NEW i \in 1..Len(d)
        PROVE  ~Expired(d[i])
    <2>1. 1 \in 1..(Len(b) - n) /\ n < Len(b) /\ 1 \in 1..Len(d)
      BY <1>a, <1>4
    <2>2. ~Expired(d[1])
      <3>1. d[1] = b[n + 1]
        BY <1>1, <2>1
      <3> QED
        BY <1>1, <2>1, <3>1
    <2>3. Len(g) - Len(d) + 1 \in 1..Len(g) /\ Len(g) - Len(d) + i \in 1..Len(g)
      BY <1>a, <1>4
    <2>4. g[Len(g) - Len(d) + 1] <= g[Len(g) - Len(d) + i]
      <3>1. Len(g) - Len(d) + 1 <= Len(g) - Len(d) + i
        BY <1>a, <1>4
      <3> QED
        BY <2>3, <3>1 DEF GrantsInv
    <2>5. d[1] = g[Len(g) - Len(d) + 1] /\ d[i] = g[Len(g) - Len(d) + i]
      BY <2>1, <1>2, <1>4
    <2>6. d[1] \in Nat /\ d[i] \in Nat
      BY <2>3, <2>5
    <2> QED
      BY <2>2, <2>4, <2>5, <2>6, LimiterConstants DEF Expired
  <1>5. BucketInv(d, g)
    <2>1. Len(d) <= MaxRequests
      BY <1>a, LimiterConstants
    <2> QED
      BY <2>1, <1>a, <1>2, <1>3 DEF BucketInv
  <1> QED
    BY <1>1, <1>4, <1>5 DEF d

\* A grant to a client whose bucket b is not full keeps it far enough from the one
\* MaxRequests before it, which the bucket has dropped.
LEMMA GrantKeeps ==
    ASSUME NEW b \in Seq(Nat), NEW g \in Seq(Nat), now \in Nat,
           BucketInv(b, g), GrantsInv(g), ~Full(b)
    PROVE  BucketInv(Append(b, now), Append(g, now)) /\ GrantsInv(Append(g, now))
  <1> DEFINE b2 == Append(b, now)
             g2 == Append(g, now)
  <1>1. /\ Len(b2) = Len(b) + 1 /\ b2[Len(b) + 1] = now
        /\ \A i \in 1..Len(b) : b2[i] = b[i]
    OBVIOUS
  <1>2. /\ Len(g2) = Len(g) + 1 /\ g2[Len(g) + 1] = now
        /\ \A i \in 1..Len(g) : g2[i] = g[i] /\ g[i] \in Nat
    OBVIOUS
  <1> HIDE DEF b2, g2
  <1>3. /\ Len(b) \in Nat /\ Len(g) \in Nat /\ Len(b) < MaxRequests /\ MaxRequests \in Nat
        /\ Len(b) <= Len(g) /\ Len(b2) \in Nat /\ Len(g2) \in Nat
        /\ Len(g2) - Len(b2) = Len(g) - Len(b)
    BY <1>1, <1>2, LimiterConstants DEF Full, BucketInv
  <1>4. BucketInv(b2, g2)
    <2>1. ASSUME NEW i \in 1..Len(b2)
          PROVE  b2[i] = g2[Len(g2) - Len(b2) + i]
      <3>1. CASE i = Len(b) + 1
        <4>1. Len(g2) - Len(b2) + i = Len(g) + 1
          BY <3>1, <1>3
        <4> QED
          BY <3>1, <4>1, <1>1, <1>2
      <3>2. CASE i \in 1..Len(b)
        <4>1. Len(g) - Len(b) + i \in 1..Len(g)
          BY <3>2, <1>3
        <4>2. b[i] = g[Len(g) - Len(b) + i]
          BY <3>2 DEF BucketInv
        <4> QED
          BY <3>2, <4>1, <4>2, <1>1, <1>2, <1>3
      <3> QED
        BY <3>1, <3>2, <1>1, <1>3
    <2>2. ASSUME NEW i \in 1..(Len(g2) - Len(b2))
          PROVE  now - g2[i] >= Window
      <3>1. i \in 1..(Len(g) - Len(b)) /\ i \in 1..Len(g)
        BY <1>3
      <3>2. now - g[i] >= Window
        BY <3>1 DEF BucketInv
      <3> QED
        BY <3>1, <3>2, <1>2
    <2>3. Len(b2) <= Len(g2) /\ Len(b2) <= MaxRequests
      BY <1>1, <1>2, <1>3
    <2> QED
      BY <2>1, <2>2, <2>3 DEF BucketInv
  <1>5. ASSUME NEW i \in 1..Len(g2), i + MaxRequests <= Len(g2)
        PROVE  g2[i + MaxRequests] - g2[i] >= Window
    <2>1. CASE i + MaxRequests <= Len(g)
      <3>1. i \in 1..Len(g) /\ i + MaxRequests \in 1..Len(g)
        BY <2>1, <1>3
      <3>2. g[i + MaxRequests] - g[i] >= Window
        BY <3>1, <2>1 DEF GrantsInv
      <3> QED
        BY <3>1, <3>2, <1>2
    <2>2. CASE i + MaxRequests = Len(g) + 1
      <3>1. i \in 1..(Len(g) - Len(b)) /\ i \in 1..Len(g)
        BY <2>2, <1>3
      <3>2. now - g[i] >= Window
        BY <3>1 DEF BucketInv
      <3> QED
        BY <3>1, <3>2, <2>2, <1>2
    <2>3. i + MaxRequests <= Len(g) \/ i + MaxRequests = Len(g) + 1
      <3>1. Len(g2) = Len(g) + 1 /\ i \in Nat
        BY <1>2, <1>3
      <3> QED
        BY <3>1, <1>3, <1>5
    <2> QED
      BY <2>1, <2>2, <2>3
  <1>6. ASSUME NEW i \in 1..Len(g2)
        PROVE  /\ i \in 1..Len(g) \/ i = Len(g) + 1
               /\ g2[i] <= now
    <2>1. i \in 1..Len(g) \/ i = Len(g) + 1
      BY <1>2, <1>3
    <2> QED
      BY <2>1, <1>2 DEF GrantsInv
  <1>7. ASSUME NEW i \in 1..Len(g2), NEW j \in 1..Len(g2), i <= j
        PROVE  g2[i] <= g2[j]
    <2>1. CASE j \in 1..Len(g)
      <3>1. i \in 1..Len(g)
        BY <2>1, <1>7, <1>3
      <3>2. g[i] <= g[j]
        BY <2>1, <3>1, <1>7 DEF GrantsInv
      <3> QED
        BY <2>1, <3>1, <3>2, <1>2
    <2>2. CASE j = Len(g) + 1
      BY <2>2, <1>6, <1>2
    <2> QED
      BY <2>1, <2>2, <1>6
  <1> QED
    BY <1>4, <1>5, <1>6, <1>7 DEF GrantsInv, b2, g2

\* A full bucket in which nothing has expired stands for as many grants in the window.
LEMMA FullWindow ==
    ASSUME NEW d \in Seq(Nat), NEW g \in Seq(Nat), now \in Nat, BucketInv(d, g),
           \A i \in 1..Len(d) : ~Expired(d[i]), Full(d)
    PROVE  Cardinality({i \in 1..Len(g) : now - g[i] < Window}) >= MaxRequests
  <1> DEFINE W == {i \in 1..Len(g) : now - g[i] < Window}
             V == (Len(g) - Len(d) + 1)..Len(g)
  <1>1. V \subseteq W
    <2> SUFFICES ASSUME NEW i \in V PROVE i \in W
      OBVIOUS
    <2>1. i \in 1..Len(g) /\ i - (Len(g) - Len(d)) \in 1..Len(d)
      BY DEF BucketInv
    <2>2. d[i - (Len(g) - Len(d))] = g[i]
      BY <2>1 DEF BucketInv
    <2>3. g[i] \in Nat
      BY <2>1
    <2> QED
      BY <2>1, <2>2, <2>3, LimiterConstants DEF Expired
  <1>2. IsFiniteSet(W)
    <2>1. IsFiniteSet(1..Len(g))
      BY FS_Interval
    <2>2. W \in SUBSET (1..Len(g))
      OBVIOUS
    <2> QED
      BY <2>1, <2>2, FS_Subset
  <1>3. Cardinality(V) = Len(d)
    <2>1. Len(g) - Len(d) + 1 \in Int /\ Len(g) \in Int /\ Len(d) \in Nat
      OBVIOUS
    <2> QED
      <3>1. Cardinality(V) = IF Len(g) - Len(d) + 1 > Len(g)
                             THEN 0 ELSE Len(g) - (Len(g) - Len(d) + 1) + 1
        BY <2>1, FS_Interval
      <3> HIDE DEF V
      <3> QED
        BY <2>1, <3>1
  <1>4. Cardinality(V) <= Cardinality(W)
    <2> HIDE DEF V, W
    <2> QED
      BY <1>1, <1>2, FS_Subset
  <1>5. Cardinality(W) \in Nat
    BY <1>2, FS_CardinalityType
  <1> QED
    BY <1>3, <1>4, <1>5, LimiterConstants DEF Full

-------------------------------------------------------------------------------

\* Empty buckets and no grants satisfy the invariant.
LEMMA LimiterInit == Init => LimiterInv
  <1> SUFFICES ASSUME Init PROVE LimiterInv
    OBVIOUS
  <1>1. LimiterType
    BY DEF Init, LimiterType
  <1>2. ASSUME NEW c \in Clients PROVE BucketInv(bucket[c], granted[c]) /\ GrantsInv(granted[c])
    BY LimiterConstants DEF Init, BucketInv, GrantsInv
  <1>3. DeniedOnlyWhenFull
    BY DEF Init, DeniedOnlyWhenFull
  <1> QED
    BY <1>1, <1>2, <1>3 DEF LimiterInv

\* Time only expires timestamps, and nobody has been answered at the new instant.
LEMMA TickKeeps == LimiterInv /\ Tick => LimiterInv'
  <1> SUFFICES ASSUME LimiterInv, Tick PROVE LimiterInv'
    OBVIOUS
  <1>1. LimiterType'
    BY DEF LimiterInv, LimiterType, Tick
  <1>2. ASSUME NEW c \in Clients
        PROVE  (BucketInv(bucket[c], granted[c]) /\ GrantsInv(granted[c]))'
    <2>1. BucketInv(bucket[c], granted[c]) /\ GrantsInv(granted[c])
      BY <1>2 DEF LimiterInv
    <2>2. /\ bucket'[c] = bucket[c] /\ granted'[c] = granted[c] /\ now' = now + 1 /\ now \in Nat
          /\ bucket[c] \in Seq(Nat) /\ granted[c] \in Seq(Nat)
      BY <1>2 DEF Tick, LimiterInv, LimiterType
    <2>3. \A i \in 1..Len(granted[c]) : granted[c][i] \in Nat
      BY <2>2
    <2>4. BucketInv(bucket[c], granted[c])'
      <3>1. bucket'[c] = bucket[c] /\ granted'[c] = granted[c] /\ now' = now + 1
        BY <2>2
      <3>2. /\ Len(bucket[c]) <= Len(granted[c]) /\ Len(bucket[c]) <= MaxRequests
            /\ \A i \in 1..Len(bucket[c]) :
                   bucket[c][i] = granted[c][Len(granted[c]) - Len(bucket[c]) + i]
        BY <2>1 DEF BucketInv
      <3>3. Len(granted[c]) \in Nat /\ Len(bucket[c]) \in Nat
        BY <2>2
      <3>4. ASSUME NEW i \in 1..(Len(granted'[c]) - Len(bucket'[c]))
            PROVE  now' - granted'[c][i] >= Window
        <4>1. i \in 1..(Len(granted[c]) - Len(bucket[c])) /\ i \in 1..Len(granted[c])
          BY <3>1, <3>3
        <4>2. now - granted[c][i] >= Window
          BY <4>1, <2>1 DEF BucketInv
        <4>3. granted[c][i] \in Nat /\ granted'[c][i] = granted[c][i]
          BY <4>1, <3>1, <2>3
        <4> QED
          BY <4>2, <4>3, <3>1, <2>2, LimiterConstants
      <3>5. /\ Len(bucket'[c]) <= Len(granted'[c]) /\ Len(bucket'[c]) <= MaxRequests
            /\ \A i \in 1..Len(bucket'[c]) :
                   bucket'[c][i] = granted'[c][Len(granted'[c]) - Len(bucket'[c]) + i]
        BY <3>1, <3>2
      <3> QED
        BY <3>4, <3>5 DEF BucketInv
    <2>5. GrantsInv(granted[c])'
      <3>1. ASSUME NEW i \in 1..Len(granted[c])
            PROVE  granted[c][i] <= now + 1
        BY <2>1, <2>2, <2>3 DEF GrantsInv
      <3> QED
        BY <3>1, <2>1, <2>2 DEF GrantsInv
    <2> QED
      BY <2>4, <2>5
  <1>3. DeniedOnlyWhenFull'
    BY DEF Tick, DeniedOnlyWhenFull
  <1> QED
    BY <1>1, <1>2, <1>3 DEF LimiterInv

\* One call of allow() by client c; the buckets of the others are not touched.
LEMMA AllowKeeps ==
    ASSUME LimiterInv, NEW c \in Clients, Allow(c)
    PROVE  LimiterInv'
  <1> DEFINE b == Current(bucket[c])
  <1>1. /\ now \in Nat /\ bucket[c] \in Seq(Nat) /\ granted[c] \in Seq(Nat)
        /\ BucketInv(bucket[c], granted[c]) /\ GrantsInv(granted[c])
    BY DEF LimiterInv, LimiterType
  <1>2. /\ b \in Seq(Nat) /\ BucketInv(b, granted[c])
        /\ \A i \in 1..Len(b) : ~Expired(b[i])
    BY <1>1, CurrentKeeps
  <1>3. now' = now
    BY DEF Allow
  <1>4. ASSUME NEW e \in Clients, e # c
        PROVE  bucket'[e] = bucket[e] /\ granted'[e] = granted[e] /\ answer'[e] = answer[e]
    BY <1>4 DEF Allow, LimiterInv, LimiterType
  <1>5. CASE Full(b) /\ bucket' = [bucket EXCEPT ![c] = b]
             /\ answer' = [answer EXCEPT ![c] = "denied"] /\ granted' = granted
    <2>1. LimiterType'
      BY <1>2, <1>3, <1>5 DEF LimiterInv, LimiterType
    <2>2. bucket'[c] = b /\ granted'[c] = granted[c]
      BY <1>5 DEF LimiterInv, LimiterType
    <2>3. (BucketInv(bucket[c], granted[c]) /\ GrantsInv(granted[c]))'
      BY <2>2, <1>1, <1>2, <1>3 DEF BucketInv, GrantsInv
    <2>4. (Cardinality(InWindow(c)) >= MaxRequests)'
      <3>1. Cardinality({i \in 1..Len(granted[c]) : now - granted[c][i] < Window}) >= MaxRequests
        BY <1>1, <1>2, <1>5, FullWindow
      <3> QED
        BY <3>1, <2>2, <1>3 DEF InWindow
    <2>5. ASSUME NEW e \in Clients, e # c
          PROVE  /\ (BucketInv(bucket[e], granted[e]) /\ GrantsInv(granted[e]))'
                 /\ (answer[e] = "denied" => Cardinality(InWindow(e)) >= MaxRequests)'
      BY <2>5, <1>3, <1>4 DEF LimiterInv, DeniedOnlyWhenFull, BucketInv, GrantsInv, InWindow
    <2> QED
      BY <2>1, <2>3, <2>4, <2>5 DEF LimiterInv, DeniedOnlyWhenFull
  <1>6. CASE ~Full(b) /\ bucket' = [bucket EXCEPT ![c] = Append(b, now)]
             /\ answer' = [answer EXCEPT ![c] = "allowed"]
             /\ granted' = [granted EXCEPT ![c] = Append(@, now)]
    <2>1. LimiterType'
      BY <1>1, <1>2, <1>3, <1>6 DEF LimiterInv, LimiterType
    <2>2. bucket'[c] = Append(b, now) /\ granted'[c] = Append(granted[c], now)
      BY <1>6 DEF LimiterInv, LimiterType
    <2>3. BucketInv(Append(b, now), Append(granted[c], now)) /\ GrantsInv(Append(granted[c], now))
      BY <1>1, <1>2, <1>6, GrantKeeps
    <2>4. (BucketInv(bucket[c], granted[c]) /\ GrantsInv(granted[c]))'
      BY <2>2, <2>3, <1>3 DEF BucketInv, GrantsInv
    <2>5. answer'[c] # "denied"
      BY <1>6 DEF LimiterInv, LimiterType
    <2>6. ASSUME NEW e \in Clients, e # c
          PROVE  /\ (BucketInv(bucket[e], granted[e]) /\ GrantsInv(granted[e]))'
                 /\ (answer[e] = "denied" => Cardinality(InWindow(e)) >= MaxRequests)'
      BY <2>6, <1>3, <1>4 DEF LimiterInv, DeniedOnlyWhenFull, BucketInv, GrantsInv, InWindow
    <2> QED
      BY <2>1, <2>4, <2>5, <2>6 DEF LimiterInv, DeniedOnlyWhenFull
  <1> QED
    BY <1>5, <1>6 DEF Allow

\* The bucket of each client is the unexpired end of its grants (allow, demo_relay.py:38-46).
THEOREM LimiterInvariance == Spec => []LimiterInv
  <1>1. LimiterInv /\ [Next]_vars => LimiterInv'
    <2> SUFFICES ASSUME LimiterInv, [Next]_vars PROVE LimiterInv'
      OBVIOUS
    <2>1. CASE Tick
      BY <2>1, TickKeeps
    <2>2. CASE \E c \in Clients : Allow(c)
      BY <2>2, AllowKeeps
    <2>3. CASE UNCHANGED vars
      BY <2>3 DEF LimiterInv, LimiterType, BucketInv, GrantsInv, DeniedOnlyWhenFull, InWindow, vars
    <2> QED
      BY <2>1, <2>2, <2>3 DEF Next
  <1> QED
    BY <1>1, LimiterInit, PTL DEF Spec

\* No window, wherever it starts, holds more than MaxRequests grants to one client.
THEOREM WindowBound == Spec => []AtMostPerWindow
  <1>1. LimiterInv => AtMostPerWindow
    BY DEF LimiterInv, GrantsInv, AtMostPerWindow
  <1> QED
    BY <1>1, LimiterInvariance, PTL

\* A client is refused only when the last window holds MaxRequests grants to it.
THEOREM NoNeedlessDenial == Spec => []DeniedOnlyWhenFull
  <1>1. LimiterInv => DeniedOnlyWhenFull
    BY DEF LimiterInv
  <1> QED
    BY <1>1, LimiterInvariance, PTL

===============================================================================
