--------------------------- MODULE Admission_proofs ---------------------------
(***************************************************************************)
(* Proofs about Admission, for any environments, profiles, payloads and    *)
(* numbers: what is ordered was consented to and its number enrolled, a    *)
(* server the doctor called ready is not short of a setting, whichever     *)
(* runs of the setup command write its profile meanwhile, and a task is    *)
(* the same task in each of its spellings and at both policies.            *)
(*                                                                         *)
(* The last two rest on normalising a number twice being normalising it    *)
(* once (NormalAgain), an induction over the number's length; the rest of  *)
(* the proofs reads no number character by character.                      *)
(***************************************************************************)
EXTENDS Admission, SetInduction, TLAPS

-------------------------------------------------------------------------------
(* Phone numbers *)

Char == Digit \cup Removed \cup {"+", "x"}

\* What becomes of the characters found so far when the next one is char
Extended(found, char) == IF char \in Removed THEN found ELSE Append(found, char)

\* f is the recursion of Kept over the first n characters of s.
Solves(f, s, n) == f = [i \in 0..n |-> IF i = 0 THEN << >> ELSE Extended(f[i - 1], s[i])]

\* The recursion of Kept has a solution for every length, by induction on the length.
LEMMA KeptExists ==
    ASSUME NEW s, NEW n \in Nat
    PROVE  \E f : Solves(f, s, n)
<1> DEFINE S == {k \in 0..n : \E f : Solves(f, s, k)}
<1>1. 0 \in S
  <2>1. Solves([i \in 0..0 |-> << >>], s, 0)
    BY DEF Solves
  <2> QED
    BY <2>1
<1>2. ASSUME NEW k \in 0..(n - 1), k \in S PROVE k + 1 \in S
  <2>1. PICK f : Solves(f, s, k)
    BY <1>2
  <2> DEFINE g == [i \in 0..(k + 1) |-> IF i <= k THEN f[i] ELSE Extended(f[k], s[i])]
  <2>2. ASSUME NEW i \in 0..(k + 1) PROVE g[i] = IF i = 0 THEN << >> ELSE Extended(g[i - 1], s[i])
    <3>1. CASE i = 0
      BY <2>1, <3>1 DEF Solves
    <3>2. CASE i \in 1..k
      <4>1. g[i] = f[i] /\ g[i - 1] = f[i - 1]
        BY <3>2
      <4>2. f[i] = Extended(f[i - 1], s[i])
        BY <2>1, <3>2 DEF Solves
      <4> QED
        BY <3>2, <4>1, <4>2
    <3>3. CASE i = k + 1
      <4>1. g[i] = Extended(f[k], s[i]) /\ g[i - 1] = f[k]
        BY <3>3
      <4> QED
        BY <3>3, <4>1
    <3> QED
      BY <3>1, <3>2, <3>3
  <2>3. Solves(g, s, k + 1)
    <3>1. g = [i \in 0..(k + 1) |-> g[i]]
      OBVIOUS
    <3> HIDE DEF g
    <3> QED
      BY <2>2, <3>1 DEF Solves
  <2> QED
    BY <2>3
<1> HIDE DEF S
<1>3. n \in S
  BY <1>1, <1>2, UpTo
<1> QED
  BY <1>3 DEF S

LEMMA KeptSolves ==
    ASSUME NEW s, Len(s) \in Nat
    PROVE  Solves(Kept(s), s, Len(s))
<1>1. Kept(s) = CHOOSE f : Solves(f, s, Len(s))
  BY DEF Kept, Solves, Extended
<1> QED
  BY <1>1, KeptExists

\* The normal form has characters of the number, and none that is removed.
LEMMA NormalIsClean ==
    ASSUME NEW s \in Numbers
    PROVE  Normal(s) \in Seq(Char \ Removed)
<1>1. Len(s) \in Nat /\ \A i \in 1..Len(s) : s[i] \in Char
  BY DEF Numbers, Char
<1> DEFINE n == Len(s)
           Clean == {k \in 0..n : Kept(s)[k] \in Seq(Char \ Removed)}
<1>2. Solves(Kept(s), s, n)
  BY <1>1, KeptSolves
<1>3. 0 \in Clean
  BY <1>1, <1>2 DEF Solves
<1>4. ASSUME NEW k \in 0..(n - 1), k \in Clean PROVE k + 1 \in Clean
  <2>1. Kept(s)[k + 1] = Extended(Kept(s)[k], s[k + 1]) /\ s[k + 1] \in Char
    BY <1>1, <1>2 DEF Solves
  <2>2. Extended(Kept(s)[k], s[k + 1]) \in Seq(Char \ Removed)
    BY <1>4, <2>1 DEF Extended
  <2> QED
    BY <1>1, <2>1, <2>2
<1> HIDE DEF Clean
<1>5. n \in Clean
  BY <1>1, <1>3, <1>4, UpTo
<1> QED
  BY <1>5 DEF Clean, Normal

\* Nothing is removed of a number that has no such character.
LEMMA CleanIsNormal ==
    ASSUME NEW s \in Seq(Char \ Removed)
    PROVE  Normal(s) = s
<1>1. Len(s) \in Nat /\ \A i \in 1..Len(s) : s[i] \in Char /\ s[i] \notin Removed
  OBVIOUS
<1> DEFINE n == Len(s)
           Same == {k \in 0..n : Kept(s)[k] = SubSeq(s, 1, k)}
<1>2. Solves(Kept(s), s, n)
  BY <1>1, KeptSolves
<1>3. 0 \in Same
  BY <1>1, <1>2 DEF Solves
<1>4. ASSUME NEW k \in 0..(n - 1), k \in Same PROVE k + 1 \in Same
  <2>1. /\ Kept(s)[k + 1] = Extended(Kept(s)[k], s[k + 1])
        /\ s[k + 1] \notin Removed /\ Kept(s)[k] = SubSeq(s, 1, k)
    BY <1>1, <1>2, <1>4 DEF Solves
  <2>2. Kept(s)[k + 1] = Append(SubSeq(s, 1, k), s[k + 1])
    BY <2>1 DEF Extended
  <2>3. Append(SubSeq(s, 1, k), s[k + 1]) = SubSeq(s, 1, k + 1)
    OBVIOUS
  <2> QED
    BY <1>1, <2>2, <2>3
<1> HIDE DEF Same
<1>5. n \in Same
  <2>1. \A k \in 0..n : k \in Same
    BY <1>1, <1>3, <1>4, UpTo
  <2> QED
    BY <1>1, <2>1
<1>6. SubSeq(s, 1, n) = s
  OBVIOUS
<1> QED
  BY <1>5, <1>6 DEF Same, Normal

\* Normalising a number again changes nothing.
LEMMA NormalAgain ==
    ASSUME NEW s \in Numbers
    PROVE  Normal(s) \in Numbers /\ Normal(Normal(s)) = Normal(s)
<1>1. Normal(s) \in Seq(Char \ Removed)
  BY NormalIsClean
<1> HIDE DEF Normal
<1>2. Normal(s) \in Numbers
  BY <1>1 DEF Numbers, Char
<1> QED
  BY <1>1, <1>2, CleanIsNormal DEF Numbers, Char

LEMMA NotSpaces ==
    ASSUME NEW n \in Numbers, IsE164(n)
    PROVE  ~\A i \in DOMAIN n : n[i] = " "
<1>1. Len(n) \in 9..16 /\ n[1] = "+"
  BY DEF IsE164
<1>2. 1 \in DOMAIN n
  BY <1>1 DEF Numbers
<1> QED
  BY <1>1, <1>2

-------------------------------------------------------------------------------
(* The policy *)

\* A payload that passes has a literal consent, and its task an enrolled number.
LEMMA BuiltTask ==
    ASSUME NEW p, NEW allowed, BuildTask(p, allowed).code = "ok"
    PROVE  /\ p.consent_confirmed = "true"
           /\ BuildTask(p, allowed).task.destination_phone \in allowed
BY DEF BuildTask, Refused, Literally, TaskOf

\* The policy's verdicts
LEMMA BuildCodes ==
    ASSUME NEW p, NEW allowed
    PROVE  BuildTask(p, allowed).code \in
               {"needs_input", "invalid_destination", "destination_not_allowed", "consent_required",
                "invalid_language", "invalid_goal", "ok"}
BY DEF BuildTask, Refused

\* Its key aside, the payload is checked as it came.
LEMMA KeyedConsent ==
    ASSUME NEW p \in Payloads
    PROVE  Keyed(p).consent_confirmed = p.consent_confirmed
BY AdmissionConstants DEF Keyed, Payload

\* What a payload that passes has, and what is made of it
LEMMA Passing ==
    ASSUME NEW p, NEW allowed, BuildTask(p, allowed).code = "ok"
    PROVE  /\ ~Missing(p) /\ IsE164(Normal(p.destination_phone))
           /\ Normal(p.destination_phone) \in allowed
           /\ Literally(p.consent_confirmed) /\ Language(p) \in {"en", "fr"}
           /\ p.call_goal.words \notin LongGoals
           /\ BuildTask(p, allowed).task = TaskOf(p)
BY DEF BuildTask, Refused

LEMMA Stripped ==
    ASSUME NEW t \in Texts
    PROVE  /\ Strip(t) \in Texts /\ Strip(t).words = t.words /\ Strip(Strip(t)) = Strip(t)
           /\ Strip(t) = [words |-> t.words, spaced |-> FALSE]
           /\ t # None /\ (Blank(Strip(t)) <=> t.words = "")
<1>1. Strip(t) = [words |-> t.words, spaced |-> FALSE] /\ t.words \in STRING
  BY DEF Texts, Strip, Text
<1>2. Strip(t) \in Texts
  BY <1>1 DEF Texts
<1>3. t # None /\ Strip(t) # None
  BY <1>2, PolicyConstants
<1>4. Strip(Strip(t)) = Strip(t)
  BY <1>1 DEF Strip, Text
<1>5. Strip(t).words = t.words
  BY <1>1
<1>6. Blank(Strip(t)) <=> t.words = ""
  BY <1>3, <1>5 DEF Blank
<1> QED
  BY <1>1, <1>2, <1>3, <1>4, <1>5, <1>6

\* The fields of a payload that passes
Whole(p) ==
    /\ p.task_id \in Texts /\ p.caller_identity \in Texts /\ p.call_goal \in Texts
    /\ p.destination_phone \in Numbers
    /\ ~Blank(p.task_id) /\ ~Blank(p.caller_identity) /\ ~Blank(p.call_goal)

LEMMA PassingIsWhole ==
    ASSUME NEW p \in Payload, ~Missing(p)
    PROVE  Whole(p)
BY DEF Payload, Missing, Blank, Whole

\* A task is a payload, and its own task.
LEMMA TaskAgain ==
    ASSUME NEW p \in Payload, ~Missing(p), IsE164(Normal(p.destination_phone))
    PROVE  /\ TaskOf(p) \in Payload /\ ~Missing(TaskOf(p))
           /\ TaskOf(TaskOf(p)) = TaskOf(p)
           /\ Language(TaskOf(p)) = Language(p) /\ Timezone(TaskOf(p)) = Timezone(p)
           /\ TaskOf(p).call_goal.words = p.call_goal.words
<1> DEFINE t == TaskOf(p)
<1>1. Whole(p)
  BY PassingIsWhole
<1>2. /\ t.task_id = Strip(p.task_id) /\ t.caller_identity = Strip(p.caller_identity)
      /\ t.destination_phone = Normal(p.destination_phone)
      /\ t.call_goal = Strip(p.call_goal) /\ t.consent_confirmed = "true"
      /\ t.language = Language(p) /\ t.timezone = Timezone(p) /\ t.idempotency_key = p.idempotency_key
      /\ t.confirmed = AsFlag(Literally(p.confirmed))
  BY DEF TaskOf
<1>3. /\ t.task_id \in Texts /\ t.caller_identity \in Texts /\ t.call_goal \in Texts
      /\ Strip(t.task_id) = t.task_id /\ Strip(t.caller_identity) = t.caller_identity
      /\ Strip(t.call_goal) = t.call_goal /\ t.call_goal.words = p.call_goal.words
      /\ ~Blank(t.task_id) /\ ~Blank(t.caller_identity) /\ ~Blank(t.call_goal)
  BY <1>1, <1>2, Stripped DEF Whole, Blank
<1>4. t.destination_phone \in Numbers /\ Normal(t.destination_phone) = t.destination_phone
  BY <1>1, <1>2, NormalAgain DEF Whole
<1>5. Language(t) = Language(p) /\ t.language \in {"en", "fr", "de", "null", None}
  <2>1. Language(p) \in {"en", "fr", "de", "null", None} /\ (p.language = None => Language(p) = "en")
    BY DEF Language, Payload
  <2>2. Language(p) = None => Language(p) = "en"
    BY <2>1 DEF Language
  <2> QED
    BY <1>2, <2>1, <2>2 DEF Language
<1>10. Timezone(t) = Timezone(p) /\ t.timezone \in Timezones \cup {None}
  <2>1. Timezone(p) \in Timezones \cup {None} /\ (p.timezone = None => Timezone(p) = "Europe/Brussels")
    <3>1. p.timezone \in Timezones \cup {None}
      BY DEF Payload
    <3> QED
      BY <3>1, PolicyConstants DEF Timezone
  <2>2. Timezone(p) = None => Timezone(p) = "Europe/Brussels"
    BY <2>1 DEF Timezone
  <2> QED
    BY <1>2, <2>1, <2>2 DEF Timezone
<1>6. /\ t.confirmed \in {"true", "yes", "false"}
      /\ AsFlag(Literally(t.confirmed)) = t.confirmed
  BY <1>2 DEF AsFlag, Literally
<1>7. t \in Payload
  <2>1. t = [task_id |-> t.task_id, caller_identity |-> t.caller_identity,
             destination_phone |-> t.destination_phone, call_goal |-> t.call_goal,
             consent_confirmed |-> t.consent_confirmed, language |-> t.language,
             timezone |-> t.timezone, idempotency_key |-> t.idempotency_key, confirmed |-> t.confirmed]
    BY DEF TaskOf
  <2>2. t.idempotency_key \in Texts \cup {None}
    BY <1>2 DEF Payload
  <2> HIDE DEF t
  <2> QED
    BY <1>2, <1>3, <1>4, <1>5, <1>6, <1>10, <2>1, <2>2 DEF Payload
<1>8. ~Missing(t)
  <2>1. ~\A i \in DOMAIN t.destination_phone : t.destination_phone[i] = " "
    BY <1>2, <1>4, NotSpaces
  <2>2. t.destination_phone # None
    BY <1>4, PolicyConstants
  <2> HIDE DEF t
  <2> QED
    BY <1>3, <2>1, <2>2 DEF Missing
<1>9. TaskOf(t) = t
  <2>1. t = [task_id |-> t.task_id, caller_identity |-> t.caller_identity,
             destination_phone |-> t.destination_phone, call_goal |-> t.call_goal,
             consent_confirmed |-> t.consent_confirmed, language |-> t.language,
             timezone |-> t.timezone, idempotency_key |-> t.idempotency_key, confirmed |-> t.confirmed]
    BY DEF TaskOf
  <2> HIDE DEF t
  <2> QED
    BY <1>2, <1>3, <1>4, <1>5, <1>6, <1>10, <2>1 DEF TaskOf
<1> QED
  BY <1>3, <1>5, <1>7, <1>8, <1>9, <1>10

\* Another policy takes the task for the same task, unless the number is not on its list.
LEMMA SecondPolicy ==
    ASSUME NEW p \in Payload, NEW allowed, BuildTask(p, allowed).code = "ok", NEW others
    PROVE  /\ BuildTask(TaskOf(p), others).code \in {"ok", "destination_not_allowed"}
           /\ BuildTask(TaskOf(p), others).code = "ok" =>
                 BuildTask(TaskOf(p), others).task = TaskOf(p)
<1> DEFINE t == TaskOf(p)
<1>1. /\ ~Missing(p) /\ IsE164(Normal(p.destination_phone))
      /\ Language(p) \in {"en", "fr"} /\ p.call_goal.words \notin LongGoals
  BY Passing
<1>2. /\ ~Missing(t) /\ TaskOf(t) = t /\ Language(t) \in {"en", "fr"}
      /\ t.call_goal.words \notin LongGoals
  BY <1>1, TaskAgain
<1>3. IsE164(Normal(t.destination_phone)) /\ Literally(t.consent_confirmed)
  <2>1. p.destination_phone \in Numbers
    BY <1>1, PassingIsWhole DEF Whole
  <2>2. Normal(Normal(p.destination_phone)) = Normal(p.destination_phone)
    BY <2>1, NormalAgain
  <2> QED
    BY <1>1, <2>2 DEF TaskOf, Literally
<1> HIDE DEF t
<1> QED
  BY <1>2, <1>3 DEF BuildTask, Refused, t

\* A task means what its payload means.
LEMMA MeaningOfTask ==
    ASSUME NEW p \in Payload, ~Missing(p), IsE164(Normal(p.destination_phone))
    PROVE  Meaning(TaskOf(p)) = Meaning(p)
<1>1. Whole(p)
  BY PassingIsWhole
<1>2. Normal(Normal(p.destination_phone)) = Normal(p.destination_phone)
  BY <1>1, NormalAgain DEF Whole
<1>3. /\ Strip(p.task_id).words = p.task_id.words /\ Strip(p.call_goal).words = p.call_goal.words
      /\ Strip(p.caller_identity).words = p.caller_identity.words
  BY <1>1, Stripped DEF Whole
<1>4. Language(TaskOf(p)) = Language(p) /\ Timezone(TaskOf(p)) = Timezone(p)
  BY TaskAgain
<1>5. /\ TaskOf(p).task_id = Strip(p.task_id) /\ TaskOf(p).call_goal = Strip(p.call_goal)
      /\ TaskOf(p).caller_identity = Strip(p.caller_identity)
      /\ TaskOf(p).destination_phone = Normal(p.destination_phone)
  BY DEF TaskOf
<1> QED
  BY <1>2, <1>3, <1>4, <1>5 DEF Meaning

\* Confirmed payloads with the same key that mean the same make the same task.
LEMMA MeaningDecides ==
    ASSUME NEW p \in Payload, NEW q \in Payload, ~Missing(p), ~Missing(q),
           Literally(p.confirmed), Literally(q.confirmed),
           p.idempotency_key = q.idempotency_key, Meaning(p) = Meaning(q)
    PROVE  TaskOf(p) = TaskOf(q)
<1>1. Whole(p) /\ Whole(q)
  BY PassingIsWhole
<1>2. /\ p.task_id.words = q.task_id.words /\ p.call_goal.words = q.call_goal.words
      /\ p.caller_identity.words = q.caller_identity.words /\ Language(p) = Language(q)
      /\ Timezone(p) = Timezone(q)
      /\ Normal(p.destination_phone) = Normal(q.destination_phone)
  BY DEF Meaning
<1>3. /\ Strip(p.task_id) = Strip(q.task_id) /\ Strip(p.call_goal) = Strip(q.call_goal)
      /\ Strip(p.caller_identity) = Strip(q.caller_identity)
  <2>1. ASSUME NEW t \in Texts, NEW u \in Texts, t.words = u.words PROVE Strip(t) = Strip(u)
    BY <2>1, Stripped
  <2> QED
    BY <1>1, <1>2, <2>1 DEF Whole
<1> QED
  BY <1>2, <1>3 DEF TaskOf

LEMMA TurnedNew ==
    ASSUME NEW p \in Payloads, Turned(p) = "new"
    PROVE  /\ p.consent_confirmed = "true" /\ p.confirmed = "true"
           /\ BuildTask(Keyed(p), Allowed(server.numbers)).task.destination_phone
                \in Allowed(server.numbers)
<1> DEFINE built == BuildTask(Keyed(p), Allowed(server.numbers))
<1>1. built.code = "ok"
  BY BuildCodes DEF Turned
<1>2. Literally(p.confirmed)
  BY BuildCodes DEF Turned
<1> QED
  BY <1>1, <1>2, BuiltTask, KeyedConsent DEF Literally

LEMMA TurnedCode ==
    ASSUME NEW p
    PROVE  Turned(p) # "not_configured"
BY BuildCodes DEF Turned

-------------------------------------------------------------------------------
(* The inductive invariant *)

\* A running server has the settings of an environment that does not change.
Running ==
    server # Down =>
        server.numbers = env.numbers /\ server.provider \in {"real", "mock", "demo"}

\* The doctor's word is about what is there now.
Vouched == ready => Loads /\ IsReady(Settings)

\* An order failed for want of a setting that the running server does not have.
Wanting ==
    reply.is = "not_configured" =>
        /\ server # Down /\ server.provider = "real"
        /\ ~(Credentials \ {"DEEPGRAM_API_KEY", "FREDO_ENDPOINT_SECRET"} \subseteq server.credentials
             /\ server.public_url # None)

\* The steps of `demo configure`
Configuring ==
    \/ \E new \in Profiles, force \in BOOLEAN : ConfigureChecks(new, force)
    \/ \E run \in publishing : ConfigureOpens(run) \/ ConfigureFills(run) \/ ConfigureDies(run)

IInv == Running /\ Vouched /\ Wanting /\ OnlyEnrolledIsOrdered

LEMMA InitIInv == Init => IInv
BY AdmissionConstants
DEF Init, Reply, IInv, Running, Vouched, Wanting, OnlyEnrolledIsOrdered

\* The settings are those of env and profile.
LEMMA SettingsKept ==
    ASSUME UNCHANGED <<env, profile>>
    PROVE  UNCHANGED <<Loads, Settings>>
BY DEF Loads, Settings, Provider, Endpoint, Either, DemoProfile

LEMMA DoctorStep == ASSUME IInv, Doctor PROVE IInv'
<1>1. UNCHANGED <<env, profile, publishing, server, reply, orders>> /\ ready' = (Loads /\ IsReady(Settings))
  BY DEF Doctor
<1>2. Vouched'
  <2>1. UNCHANGED <<Loads, Settings>>
    BY <1>1, SettingsKept
  <2> QED
    BY <1>1, <2>1 DEF Vouched, IsReady
<1> QED
  BY <1>1, <1>2 DEF IInv, Running, Wanting, OnlyEnrolledIsOrdered

\* A step that leaves what the doctor looked at alone
LEMMA VouchedKept ==
    ASSUME IInv, UNCHANGED <<env, profile, ready>>
    PROVE  Vouched'
<1>1. UNCHANGED <<Loads, Settings>>
  BY SettingsKept
<1> QED
  BY <1>1 DEF IInv, Vouched, IsReady

LEMMA ConfigureStep == ASSUME IInv, Configuring PROVE IInv'
<1>1. UNCHANGED <<env, server, reply, orders>> /\ (UNCHANGED <<profile, ready>> \/ ~ready')
  BY DEF Configuring, ConfigureChecks, ConfigureOpens, ConfigureFills, ConfigureDies
<1>2. Vouched'
  BY <1>1, VouchedKept DEF Vouched
<1> QED
  BY <1>1, <1>2 DEF IInv, Running, Wanting, OnlyEnrolledIsOrdered

LEMMA ServeStep == ASSUME IInv, Serve \/ Exit PROVE IInv'
<1>1. UNCHANGED <<env, profile, publishing, ready, orders>>
  BY DEF Serve, Exit
<1>2. CASE Serve
  <2>1. Running'
    BY <1>2 DEF Serve, Running, Loads, Settings
  <2>2. Wanting'
    BY <1>2 DEF Serve, IInv, Wanting
  <2> QED
    BY <1>1, <2>1, <2>2, VouchedKept DEF IInv, OnlyEnrolledIsOrdered
<1>3. CASE Exit
  BY <1>1, <1>3, VouchedKept DEF Exit, Reply, IInv, Running, Wanting, OnlyEnrolledIsOrdered
<1> QED
  BY <1>2, <1>3

\* What the provider answers to an order
LEMMA VerdictEffect ==
    ASSUME Running, server # Down, NEW task
    PROVE  /\ Verdict(task).code = "ok" =>
                 /\ server.provider \in {"real", "demo"}
                 /\ server.provider = "real" => Verdict(task).task = task
                 /\ server.provider = "demo" =>
                       Verdict(task).task.destination_phone \in Allowed(RelayNumbers)
           /\ Verdict(task).code = "not_configured" =>
                 /\ server.provider = "real"
                 /\ ~(Credentials \ {"DEEPGRAM_API_KEY", "FREDO_ENDPOINT_SECRET"}
                        \subseteq server.credentials
                      /\ server.public_url # None)
<1>1. CASE server.provider = "demo"
  <2>1. Verdict(task) = RelayVerdict(task)
    BY <1>1 DEF Verdict
  <2>2. RelayVerdict(task).code = "ok" =>
           RelayVerdict(task).task.destination_phone \in Allowed(RelayNumbers)
    BY BuiltTask DEF RelayVerdict, Refused
  <2>3. RelayVerdict(task).code # "not_configured"
    BY BuildCodes DEF RelayVerdict, Refused
  <2> QED
    BY <1>1, <2>1, <2>2, <2>3
<1>2. CASE server.provider = "real"
  <2>1. Verdict(task) = CarrierVerdict(task)
    BY <1>2 DEF Verdict
  <2> QED
    BY <1>2, <2>1 DEF CarrierVerdict, Refused
<1>3. CASE server.provider = "mock"
  BY <1>3 DEF Verdict, Refused
<1> QED
  BY <1>1, <1>2, <1>3 DEF Running

LEMMA CreateStep ==
    ASSUME IInv, NEW p \in Payloads, CreateTurned(p) \/ CreateNew(p)
    PROVE  IInv'
<1>1. UNCHANGED <<env, profile, publishing, ready, server>> /\ server # Down
  BY DEF CreateTurned, CreateNew
<1>2. Vouched' /\ Running'
  BY <1>1, VouchedKept DEF IInv, Running
<1>3. CASE CreateTurned(p)
  <2>1. reply'.is # "not_configured" /\ UNCHANGED orders
    BY <1>3, TurnedCode DEF CreateTurned, Reply
  <2> QED
    BY <1>1, <1>2, <2>1 DEF IInv, Wanting, OnlyEnrolledIsOrdered
<1>4. CASE CreateNew(p)
  <2>1. PICK verdict : verdict = Verdict(row')
    OBVIOUS
  <2>2. /\ reply'.is = verdict.code
        /\ \/ orders' = orders
           \/ /\ verdict.code = "ok"
              /\ orders' = orders \cup {[given |-> p, task |-> verdict.task,
                                         through |-> server.provider]}
    BY <1>4, <2>1 DEF CreateNew, Reply
  <2>3. /\ p.consent_confirmed = "true" /\ p.confirmed = "true"
        /\ row'.destination_phone \in Allowed(env.numbers)
    BY <1>1, <1>4, TurnedNew DEF CreateNew, IInv, Running
  <2>4. Wanting'
    BY <1>1, <2>1, <2>2, VerdictEffect DEF IInv, Wanting
  <2>5. OnlyEnrolledIsOrdered'
    <3>1. ASSUME verdict.code = "ok"
          PROVE  verdict.task.destination_phone \in
                    Allowed(IF server.provider = "demo" THEN RelayNumbers ELSE env.numbers)
      BY <1>1, <2>1, <2>3, <3>1, VerdictEffect DEF IInv
    <3> QED
      BY <1>1, <2>2, <2>3, <3>1 DEF IInv, OnlyEnrolledIsOrdered
  <2> QED
    BY <1>2, <2>4, <2>5 DEF IInv
<1> QED
  BY <1>3, <1>4

LEMMA NextIInv == IInv /\ [Next]_vars => IInv'
<1> SUFFICES ASSUME IInv, [Next]_vars PROVE IInv'
  OBVIOUS
<1>1. CASE UNCHANGED vars
  BY <1>1, VouchedKept DEF vars, IInv, Running, Wanting, OnlyEnrolledIsOrdered
<1> QED
  BY <1>1, ConfigureStep, DoctorStep, ServeStep, CreateStep DEF Next, Configuring

-------------------------------------------------------------------------------
(* What is stored, ordered and told under the key *)

\* A payload whose task is stored when its key is new
Stores(p) ==
    /\ ~Keyless(p) /\ Literally(p.confirmed)
    /\ BuildTask(Keyed(p), Allowed(env.numbers)).code = "ok"

RowInv == row # None => \E p \in Payloads : Stores(p) /\ row = TaskOf(Keyed(p))

OrderInv == row = None => orders = {}

\* A provider's answer is the last word of the server that asked it.
ProviderInv == reply.by = "provider" => server # Down

RecordInv ==
    TypeOK /\ RowInv /\ OrderInv /\ ProviderInv /\ ReplaysWhatMeansTheSame /\ RelayAgreesWithServer

LEMMA KeyedPayload ==
    ASSUME NEW p \in Payloads, ~Keyless(p)
    PROVE  /\ Keyed(p) \in Payload /\ Meaning(Keyed(p)) = Meaning(p)
           /\ Keyed(p).confirmed = p.confirmed
           /\ Keyed(p).idempotency_key = Strip(p.idempotency_key)
<1>1. p \in Payload
  BY AdmissionConstants
<1>2. p.idempotency_key \in Texts
  BY <1>1 DEF Keyless, Blank, Payload
<1>3. Strip(p.idempotency_key) \in Texts
  BY <1>2, Stripped
<1> QED
  BY <1>1, <1>3 DEF Keyed, Payload, Meaning, Language, Timezone

\* What is known of a payload that is stored, and of its task
LEMMA StoredTask ==
    ASSUME NEW p \in Payloads, Stores(p)
    PROVE  /\ BuildTask(Keyed(p), Allowed(env.numbers)).task = TaskOf(Keyed(p))
           /\ TaskOf(Keyed(p)) \in Payload /\ TaskOf(Keyed(p)) # None
           /\ IsE164(TaskOf(Keyed(p)).destination_phone)
           /\ Literally(TaskOf(Keyed(p)).confirmed)
           /\ Meaning(TaskOf(Keyed(p))) = Meaning(p)
<1> DEFINE q == Keyed(p)
<1>1. q \in Payload /\ Meaning(q) = Meaning(p) /\ Literally(q.confirmed)
  BY KeyedPayload DEF Stores
<1>2. /\ ~Missing(q) /\ IsE164(Normal(q.destination_phone))
      /\ BuildTask(q, Allowed(env.numbers)).task = TaskOf(q)
  BY Passing DEF Stores
<1> HIDE DEF q
<1>3. TaskOf(q) \in Payload /\ Meaning(TaskOf(q)) = Meaning(q)
  BY <1>1, <1>2, TaskAgain, MeaningOfTask
<1>4. TaskOf(q).destination_phone = Normal(q.destination_phone) /\ Literally(TaskOf(q).confirmed)
  BY <1>1 DEF TaskOf, AsFlag, Literally
<1> QED
  BY <1>1, <1>2, <1>3, <1>4, PolicyConstants DEF q

\* Payloads that are stored under the key and mean the same are the same task.
LEMMA SameMeaning ==
    ASSUME NEW p \in Payloads, NEW q \in Payloads, Stores(p), Stores(q), Meaning(p) = Meaning(q)
    PROVE  TaskOf(Keyed(p)) = TaskOf(Keyed(q))
<1>1. /\ Keyed(p) \in Payload /\ Keyed(q) \in Payload
      /\ Meaning(Keyed(p)) = Meaning(Keyed(q))
      /\ Literally(Keyed(p).confirmed) /\ Literally(Keyed(q).confirmed)
  BY KeyedPayload DEF Stores
<1>2. Keyed(p).idempotency_key = Keyed(q).idempotency_key
  BY AdmissionConstants, KeyedPayload DEF Stores
<1>3. ~Missing(Keyed(p)) /\ ~Missing(Keyed(q))
  BY Passing DEF Stores
<1> QED
  BY <1>1, <1>2, <1>3, MeaningDecides

\* How far a payload goes at a server with the numbers of env
LEMMA TurnedAnswers ==
    ASSUME NEW p \in Payloads, server.numbers = env.numbers
    PROVE  /\ Turned(p) \in {"new", "replayed", "idempotency_conflict"} => Stores(p)
           /\ Turned(p) = "new" => row = None
           /\ Turned(p) = "replayed" => row # None /\ row = TaskOf(Keyed(p))
           /\ Turned(p) = "idempotency_conflict" => row # None /\ row # TaskOf(Keyed(p))
<1> DEFINE built == BuildTask(Keyed(p), Allowed(server.numbers))
<1>1. Turned(p) \in {"new", "replayed", "idempotency_conflict"} =>
         ~Keyless(p) /\ built.code = "ok" /\ Literally(p.confirmed)
  BY BuildCodes DEF Turned
<1>2. Turned(p) \in {"new", "replayed", "idempotency_conflict"} => Stores(p)
  BY <1>1 DEF Stores
<1>3. Stores(p) => built.task = TaskOf(Keyed(p))
  BY StoredTask
<1> QED
  BY <1>1, <1>2, <1>3, BuildCodes DEF Turned

LEMMA InitRecords == Init => RecordInv
<1> SUFFICES ASSUME Init PROVE RecordInv
  OBVIOUS
<1>1. reply.is = "none" /\ reply.by = "nobody" /\ reply.given = None
  BY DEF Init, Reply
<1>2. TypeOK
  BY <1>1 DEF Init, TypeOK
<1> QED
  BY <1>1, <1>2
  DEF Init, RecordInv, RowInv, OrderInv, ProviderInv, ReplaysWhatMeansTheSame,
      RelayAgreesWithServer

\* What a server takes is a setting.
LEMMA SettingsTyped ==
    ASSUME TypeOK, Loads
    PROVE  Settings \in Setting
<1>1. env \in Environment
  BY AdmissionConstants DEF TypeOK
<1>2. DemoProfile \in Profile
  BY AdmissionConstants DEF TypeOK, DemoProfile
<1>3. Endpoint \in {None, "http", "https"}
  BY <1>1, <1>2 DEF Endpoint, Either, Environment, Profile
<1>4. Either(env.token, DemoProfile.token) \in {None, "short", "long", RelayToken}
  BY <1>1, <1>2 DEF Either, Environment, Profile
<1>5. Provider \in {"real", "mock", "demo"}
  BY DEF Loads
<1> QED
  BY <1>1, <1>3, <1>4, <1>5 DEF Settings, Setting, Environment

\* A step that neither stores, orders nor answers for a provider
LEMMA RecordsKept ==
    ASSUME RecordInv, UNCHANGED <<env, row, orders>>, TypeOK',
           server' = server \/ reply'.by # "provider",
           reply' = reply \/ (reply'.by # "provider" /\
                                reply'.is \notin {"replayed", "idempotency_conflict"}),
           reply'.by = "provider" => server' = server
    PROVE  RecordInv'
<1>1. RowInv' /\ OrderInv'
  BY DEF RecordInv, RowInv, OrderInv, Stores
<1>2. ProviderInv'
  BY DEF RecordInv, ProviderInv
<1>3. ReplaysWhatMeansTheSame'
  BY DEF RecordInv, ReplaysWhatMeansTheSame
<1>4. RelayAgreesWithServer'
  BY DEF RecordInv, RelayAgreesWithServer
<1> QED
  BY <1>1, <1>2, <1>3, <1>4 DEF RecordInv

LEMMA CommandRecords ==
    ASSUME RecordInv, Configuring \/ Doctor \/ Serve \/ Exit
    PROVE  RecordInv'
<1>1. CASE Configuring
  <2>1. UNCHANGED <<env, server, row, reply, orders>> /\ ready' \in {ready, FALSE}
    BY <1>1 DEF Configuring, ConfigureChecks, ConfigureOpens, ConfigureFills, ConfigureDies
  <2> DEFINE Typed == /\ publishing \subseteq [new : Profiles, opened : BOOLEAN]
                      /\ profile \in Profiles \cup Found \cup {Torn}
  <2>2. Typed'
    <3>1. Typed
      BY DEF RecordInv, TypeOK
    <3>2. ASSUME NEW new \in Profiles, NEW force \in BOOLEAN, ConfigureChecks(new, force)
          PROVE  Typed'
      <4>1. [new |-> new, opened |-> FALSE] \in [new : Profiles, opened : BOOLEAN]
        OBVIOUS
      <4> QED
        BY <3>1, <3>2, <4>1 DEF ConfigureChecks
    <3>3. ASSUME NEW run \in publishing,
                 ConfigureOpens(run) \/ ConfigureFills(run) \/ ConfigureDies(run)
          PROVE  Typed'
      BY <3>1, <3>3 DEF ConfigureOpens, ConfigureFills, ConfigureDies
    <3> QED
      BY <1>1, <3>2, <3>3 DEF Configuring
  <2>3. TypeOK'
    BY <2>1, <2>2 DEF RecordInv, TypeOK, Setting
  <2> QED
    BY <2>1, <2>3, RecordsKept
<1>2. CASE Doctor
  <2>1. UNCHANGED <<env, profile, publishing, server, row, reply, orders>> /\ ready' \in BOOLEAN
    BY <1>2 DEF Doctor, Loads, IsReady
  <2>2. TypeOK'
    BY <2>1 DEF RecordInv, TypeOK, Setting
  <2> QED
    BY <2>1, <2>2, RecordsKept
<1>3. CASE Serve
  <2>1. /\ UNCHANGED <<env, profile, publishing, ready, row, reply, orders>>
        /\ server = Down /\ server' = Settings /\ Loads
    BY <1>3 DEF Serve
  <2>2. TypeOK'
    BY <2>1, SettingsTyped DEF RecordInv, TypeOK, Setting
  <2>3. reply'.by # "provider"
    BY <2>1 DEF RecordInv, ProviderInv
  <2> QED
    BY <2>1, <2>2, <2>3, RecordsKept
<1>4. CASE Exit
  <2>1. /\ UNCHANGED <<env, profile, publishing, ready, row, orders>> /\ server' = Down
        /\ reply'.is = "none" /\ reply'.by = "nobody" /\ reply'.given = None
    BY <1>4 DEF Exit, Reply
  <2>2. TypeOK'
    BY <2>1 DEF RecordInv, TypeOK
  <2>3. RowInv' /\ OrderInv'
    BY <2>1 DEF RecordInv, RowInv, OrderInv, Stores
  <2> QED
    BY <2>1, <2>2, <2>3
    DEF RecordInv, ProviderInv, ReplaysWhatMeansTheSame, RelayAgreesWithServer
<1> QED
  BY <1>1, <1>2, <1>3, <1>4

\* The codes a provider's answer can have
LEMMA VerdictCodes ==
    ASSUME server.provider \in {"real", "mock", "demo"}, NEW p \in Payloads, Stores(p)
    PROVE  LET task == TaskOf(Keyed(p))
           IN  /\ Verdict(task).code \notin {"replayed", "idempotency_conflict"}
               /\ Verdict(task).code = "ok" =>
                     Verdict(task).task = task /\ server.provider \in {"real", "demo"}
               /\ server.provider = "demo" =>
                     Verdict(task).code \in {"ok", "unauthorized", "destination_not_allowed"}
<1> DEFINE task == TaskOf(Keyed(p))
<1>1. Literally(task.confirmed)
  BY StoredTask
<1>2. /\ BuildTask(task, Allowed(RelayNumbers)).code \in {"ok", "destination_not_allowed"}
      /\ BuildTask(task, Allowed(RelayNumbers)).code = "ok" =>
            BuildTask(task, Allowed(RelayNumbers)).task = task
  <2>1. Keyed(p) \in Payload
    BY KeyedPayload DEF Stores
  <2>2. BuildTask(Keyed(p), Allowed(env.numbers)).code = "ok"
    BY DEF Stores
  <2> QED
    BY <2>1, <2>2, SecondPolicy
<1> HIDE DEF task
<1>3. CASE server.provider = "demo"
  <2>1. Verdict(task) = RelayVerdict(task)
    BY <1>3 DEF Verdict
  <2>2. /\ RelayVerdict(task).code \in {"ok", "unauthorized", "destination_not_allowed"}
        /\ RelayVerdict(task).code = "ok" => RelayVerdict(task).task = task
    BY <1>1, <1>2 DEF RelayVerdict, Wire, Refused
  <2> QED
    BY <1>3, <2>1, <2>2 DEF task
<1>4. CASE server.provider = "real"
  <2>1. Verdict(task) = CarrierVerdict(task)
    BY <1>4 DEF Verdict
  <2>2. /\ CarrierVerdict(task).code \in {"ok", "not_https", "not_configured"}
        /\ CarrierVerdict(task).code = "ok" => CarrierVerdict(task).task = task
    BY DEF CarrierVerdict, Refused
  <2> QED
    BY <1>4, <2>1, <2>2 DEF task
<1>5. CASE server.provider = "mock"
  <2>1. Verdict(task).code = "simulated"
    BY <1>5 DEF Verdict, Refused
  <2> QED
    BY <1>5, <2>1 DEF task
<1> QED
  BY <1>3, <1>4, <1>5

LEMMA TurnedRecords ==
    ASSUME IInv, RecordInv, NEW p \in Payloads, CreateTurned(p)
    PROVE  RecordInv'
<1>1. /\ UNCHANGED <<env, profile, publishing, ready, server, row, orders>> /\ server # Down
      /\ reply'.is = Turned(p) /\ reply'.by = "server" /\ reply'.given = p
  BY DEF CreateTurned, Reply
<1>2. server.numbers = env.numbers
  BY <1>1 DEF IInv, Running
<1>3. TypeOK'
  BY <1>1 DEF RecordInv, TypeOK, Setting
<1>4. RowInv' /\ OrderInv' /\ ProviderInv' /\ RelayAgreesWithServer'
  BY <1>1 DEF RecordInv, RowInv, OrderInv, ProviderInv, RelayAgreesWithServer, Stores
<1>5. ReplaysWhatMeansTheSame'
  <2>1. CASE Turned(p) = "replayed"
    <3>1. Stores(p) /\ row = TaskOf(Keyed(p))
      BY <1>2, <2>1, TurnedAnswers
    <3>2. Meaning(row) = Meaning(p)
      BY <3>1, StoredTask
    <3> QED
      BY <1>1, <2>1, <3>2 DEF ReplaysWhatMeansTheSame
  <2>2. CASE Turned(p) = "idempotency_conflict"
    <3>1. Stores(p) /\ row # None /\ row # TaskOf(Keyed(p))
      BY <1>2, <2>2, TurnedAnswers
    <3>2. PICK q \in Payloads : Stores(q) /\ row = TaskOf(Keyed(q))
      BY <3>1 DEF RecordInv, RowInv
    <3>3. Meaning(row) = Meaning(q)
      BY <3>2, StoredTask
    <3>4. Meaning(p) # Meaning(row)
      BY <3>1, <3>2, <3>3, SameMeaning
    <3> QED
      BY <1>1, <2>2, <3>4 DEF ReplaysWhatMeansTheSame
  <2> QED
    BY <1>1, <2>1, <2>2 DEF ReplaysWhatMeansTheSame
<1> QED
  BY <1>3, <1>4, <1>5 DEF RecordInv

LEMMA NewRecords ==
    ASSUME IInv, RecordInv, NEW p \in Payloads, CreateNew(p)
    PROVE  RecordInv'
<1> DEFINE task == TaskOf(Keyed(p))
           verdict == Verdict(task)
<1>1. /\ UNCHANGED <<env, profile, publishing, ready, server>> /\ server # Down
      /\ Turned(p) = "new" /\ server.numbers = env.numbers
      /\ server.provider \in {"real", "mock", "demo"}
  BY DEF CreateNew, IInv, Running
<1>2. Stores(p) /\ row = None /\ orders = {}
  BY <1>1, TurnedAnswers DEF RecordInv, OrderInv
<1>3. row' = task
  BY <1>1, <1>2, StoredTask DEF CreateNew
<1>4. /\ task # None /\ IsE164(task.destination_phone) /\ Meaning(task) = Meaning(p)
  BY <1>2, StoredTask
<1>5. /\ verdict.code \notin {"replayed", "idempotency_conflict"}
      /\ verdict.code = "ok" => verdict.task = task /\ server.provider \in {"real", "demo"}
      /\ server.provider = "demo" =>
            verdict.code \in {"ok", "unauthorized", "destination_not_allowed"}
  BY <1>1, <1>2, VerdictCodes
<1>6. /\ reply'.is = verdict.code /\ reply'.by = "provider" /\ reply'.given = p
      /\ orders' = IF verdict.code = "ok"
                   THEN {[given |-> p, task |-> verdict.task, through |-> server.provider]}
                   ELSE {}
  BY <1>2, <1>3 DEF CreateNew, Reply
<1> HIDE DEF task, verdict
<1>7. \A o \in orders' :
         /\ o.given = p /\ o.task = task /\ o.through = server.provider
         /\ server.provider \in {"real", "demo"}
  BY <1>5, <1>6
<1>8. TypeOK'
  BY <1>1, <1>3, <1>4, <1>6, <1>7 DEF RecordInv, TypeOK, Setting
<1>9. RowInv' /\ OrderInv' /\ ProviderInv'
  BY <1>1, <1>2, <1>3, <1>4 DEF RowInv, OrderInv, ProviderInv, Stores, task
<1>10. ReplaysWhatMeansTheSame' /\ RelayAgreesWithServer'
  <2>1. \A o \in orders' : o.task = row' /\ Meaning(o.task) = Meaning(o.given)
    BY <1>3, <1>4, <1>7
  <2> QED
    BY <1>1, <1>5, <1>6, <2>1 DEF ReplaysWhatMeansTheSame, RelayAgreesWithServer
<1> QED
  BY <1>8, <1>9, <1>10 DEF RecordInv

LEMMA NextRecords == IInv /\ RecordInv /\ [Next]_vars => RecordInv'
<1> SUFFICES ASSUME IInv, RecordInv, [Next]_vars PROVE RecordInv'
  OBVIOUS
<1>1. CASE UNCHANGED vars
  <2>1. TypeOK'
    BY <1>1 DEF vars, RecordInv, TypeOK, Setting
  <2> QED
    BY <1>1, <2>1, RecordsKept DEF vars
<1> QED
  BY <1>1, CommandRecords, TurnedRecords, NewRecords DEF Next, Configuring

-------------------------------------------------------------------------------
(* The theorems *)

\* Settings, replies and orders agree in every state.
THEOREM AdmissionInvariance == Spec => []IInv
BY InitIInv, NextIInv, PTL DEF Spec

\* No order reaches a carrier without a literal consent and confirmation, nor for a number that
\* is not on the list of the operator who pays for it.
THEOREM OnlyEnrolled == Spec => []OnlyEnrolledIsOrdered
<1>1. IInv => OnlyEnrolledIsOrdered
  BY DEF IInv
<1> QED
  BY <1>1, AdmissionInvariance, PTL

\* The doctor's list of needs covers what the providers ask for.
THEOREM DoctorIsRight == Spec => []ReadyMeansConfigured
<1>1. IInv => ReadyMeansConfigured
  <2> SUFFICES ASSUME IInv, ready, server = Settings, reply.is = "not_configured" PROVE FALSE
    BY DEF ReadyMeansConfigured
  <2>1. IsReady(server) /\ server.provider = "real"
    BY DEF IInv, Vouched, Wanting
  <2> QED
    BY <2>1 DEF IsReady, IInv, Wanting
<1> QED
  BY <1>1, AdmissionInvariance, PTL

\* The row is the task of a payload that was submitted, and every order is that task.
THEOREM RecordInvariance == Spec => []RecordInv
BY InitRecords, NextRecords, AdmissionInvariance, PTL DEF Spec

\* Every variable keeps its type; the number of a row is in E.164.
THEOREM AdmissionTypes == Spec => []TypeOK
<1>1. RecordInv => TypeOK
  BY DEF RecordInv
<1> QED
  BY <1>1, RecordInvariance, PTL

\* A key is replayed exactly for what means the same as the stored task, however it is spelled.
THEOREM MeaningIsReplayed == Spec => []ReplaysWhatMeansTheSame
<1>1. RecordInv => ReplaysWhatMeansTheSame
  BY DEF RecordInv
<1> QED
  BY <1>1, RecordInvariance, PTL

\* The relay's policy takes a task the server's made for the same task, or refuses its number.
THEOREM PoliciesAgree == Spec => []RelayAgreesWithServer
<1>1. RecordInv => RelayAgreesWithServer
  BY DEF RecordInv
<1> QED
  BY <1>1, RecordInvariance, PTL
===============================================================================
