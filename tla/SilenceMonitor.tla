---------------------------- MODULE SilenceMonitor ----------------------------
(***************************************************************************)
(* The timer that keeps a quiet line from being read as an answer          *)
(* (silence_monitor.py).  One asyncio task sleeps, asks the caller whether *)
(* they are there, and the second time says goodbye and hangs up.          *)
(*                                                                         *)
(* The module has no specification of its own: its operators are the       *)
(* methods of the object, and VoiceSession calls them from its handlers.   *)
(* An asyncio task that is cancelled takes no further step, so cancelling  *)
(* is immediate here.                                                      *)
(***************************************************************************)
EXTENDS Naturals

VARIABLES
    attempt,    \* _attempt: prompts since the caller last spoke, as the code counts them
    stopped,    \* _stopped
    timer       \* _timer: none or finished, asleep, or awaiting _inject_message

monitor == <<attempt, stopped, timer>>

MonitorType ==
    /\ attempt \in 0..2
    /\ stopped \in BOOLEAN
    /\ timer \in {"none", "sleeping", "injecting"}

MonitorInit ==
    /\ attempt = 0
    /\ stopped = FALSE
    /\ timer = "none"

\* Mutant: goodbye is not the last prompt.
Arm_Endless(prompted) == timer' = "sleeping"

\* _arm: cancels the task and starts another one, unless goodbye was already said
Arm(prompted) == timer' = IF prompted < 2 THEN "sleeping" ELSE "none"

NotifyAgentAudioDone ==
    \/ stopped /\ UNCHANGED monitor
    \/ ~stopped /\ Arm(attempt) /\ UNCHANGED <<attempt, stopped>>

\* Mutant: the caller's turn does not start the escalation again.
NotifyUserStartedSpeaking_NoReset ==
    \/ stopped /\ UNCHANGED monitor
    \/ ~stopped /\ Arm(attempt) /\ UNCHANGED <<attempt, stopped>>

NotifyUserStartedSpeaking ==
    \/ stopped /\ UNCHANGED monitor
    \/ ~stopped /\ attempt' = 0 /\ Arm(0) /\ UNCHANGED stopped

Stop ==
    /\ stopped' = TRUE
    /\ timer' = "none"
    /\ UNCHANGED attempt

\* The sleep is over: the task counts a prompt and awaits its injection.
Expire ==
    /\ timer = "sleeping"
    /\ ~stopped
    /\ attempt' = attempt + 1
    /\ timer' = "injecting"
    /\ UNCHANGED stopped

\* The reprompt was sent, or failed, which the task only logs: it ends, and the next
\* agent_audio_done arms the goodbye.
Reprompted ==
    /\ timer = "injecting"
    /\ attempt = 1
    /\ timer' = "none"
    /\ UNCHANGED <<attempt, stopped>>

\* The goodbye was sent, or failed: the task goes on to on_timeout.
GoodbyeSent == timer = "injecting" /\ attempt = 2

===============================================================================
