------------------------- MODULE VoiceSession_proofs -------------------------
(***************************************************************************)
(* Proofs about VoiceSession and the SilenceMonitor it drives: every       *)
(* safety property of the session, for both values of ProtectDisclosure.   *)
(*                                                                         *)
(* Each property follows from a rule between fields that no single handler *)
(* enforces: what may be heard before what is set (Disclosure), who may    *)
(* arm the timer (Monitored), what an unfinished utterance means for the   *)
(* flags (Spoken), and what the finally block leaves running (Cleared).    *)
(***************************************************************************)
EXTENDS VoiceSession, TLAPS

-------------------------------------------------------------------------------
(* The inductive invariant *)

\* The caller is heard only once the deadline of the disclosure is set, and the disclosure
\* counts as done only once all of it was sent, or it was cut.
Disclosure ==
    /\ heard => forward
    /\ forward => deadline # "unset"
    /\ disclosed => opening \notin {"unsaid", "sending"}
    /\ agent = "speaking" => opening # "unsaid"

\* The timer is armed by a session that is live and whose monitor is not stopped, and the
\* monitor's count is backed by prompts the caller did not answer.
Monitored ==
    /\ ~forward => timer = "none" /\ attempt = 0
    /\ stopped => timer = "none"
    /\ ~stopped => attempt <= prompts
    /\ timer = "sleeping" => attempt < 2
    /\ requested => stopped

\* An utterance that is owed is being spoken, and then the audio is not done.
Spoken ==
    /\ owed => agent = "speaking"
    /\ audioDone => agent = "idle"
    /\ finish \in {"finished", "mark", "marked", "hanging"} /\ ~gaveUp => ~owed

\* Once the finally block has run, no task takes a step of its own, and what is not over yet
\* is waited for.
Cleared ==
    /\ run \in {"gathering", "closed"} =>
         /\ timer = "none"
         /\ twilio \in {"cancelled", "ended"} /\ deepgram \in {"off", "cancelled", "ended"}
         /\ duration \in {"off", "cancelled", "ended"}
         /\ finish \in {"none", "cancelled", "ended"}
         /\ twilio = "cancelled" => "twilio" \in gathered
         /\ deepgram = "cancelled" => "deepgram" \in gathered
         /\ duration = "cancelled" => "duration" \in gathered
         /\ finish = "cancelled" => "finish" \in gathered
    /\ run = "closed" => "cancelled" \notin {twilio, deepgram, duration, finish}

\* The two parts of TypeOK that are not the monitor's
Flags ==
    {applied, forward, audioDone, disclosed, requested, heard, owed, gaveUp} \subseteq BOOLEAN

Phases ==
    /\ run \in {"connecting", "configuring", "live", "cancelling", "closing", "gathering",
                "closed"}
    /\ gathered \subseteq Tasks
    /\ twilio \in {"on", "cancelled", "ended"}
    /\ deepgram \in {"off", "on", "replying", "cancelled", "ended"}
    /\ duration \in {"off", "sleeping", "hanging", "cancelled", "ended"}
    /\ finish \in FinishPhase
    /\ deadline \in {"unset", "ahead", "passed"}
    /\ call \in {"live", "ending", "ended"}
    /\ hangups \subseteq Hangups
    /\ agent \in {"idle", "speaking"}
    /\ caller \in {"quiet", "speaking"}
    /\ opening \in {"unsaid", "sending", "sent", "cut"}
    /\ prompts \in 0..3

IInv == TypeOK /\ Disclosure /\ Monitored /\ Spoken /\ Cleared

-------------------------------------------------------------------------------
LEMMA InitIInv == Init => IInv
<1> SUFFICES ASSUME Init PROVE IInv
  OBVIOUS
<1>1. TypeOK
  <2>1. MonitorType
    <3>1. attempt = 0 /\ timer = "none"
      BY DEF Init, MonitorInit
    <3>2. stopped \in BOOLEAN
      BY DEF Init, MonitorInit
    <3> QED
      BY <3>1, <3>2 DEF MonitorType
  <2>2. Flags
    BY DEF Init, Flags
  <2>3. Phases
    BY DEF Init, Phases, FinishPhase, Hangups
  <2> QED
    BY <2>1, <2>2, <2>3 DEF TypeOK, Phases, Flags
<1>2. Disclosure /\ Monitored /\ Spoken /\ Cleared
  BY DEF Init, MonitorInit, Disclosure, Monitored, Spoken, Cleared
<1> QED
  BY <1>1, <1>2 DEF IInv

\* What a step leaves alone keeps its part of the invariant.
LEMMA Kept ==
    ASSUME IInv
    PROVE  /\ UNCHANGED <<heard, forward, deadline, disclosed, opening, agent>> => Disclosure'
           /\ UNCHANGED <<forward, attempt, stopped, timer, prompts, requested>> => Monitored'
           /\ UNCHANGED <<owed, agent, audioDone, finish, gaveUp>> => Spoken'
           /\ UNCHANGED <<run, gathered, twilio, deepgram, duration, finish, timer>> =>
                 Cleared'
BY DEF IInv, Disclosure, Monitored, Spoken, Cleared

\* The steps of run()
LEMMA RunSteps == ASSUME IInv, RunNext PROVE IInv'
<1> USE DEF IInv, main, monitor, session, outside, records
<1>1. CASE Connect
  <2>1. TypeOK'
    BY <1>1 DEF TypeOK, MonitorType, Monitored, FinishPhase, Hangups, Connect
  <2>2. Cleared'
    BY <1>1 DEF Cleared, Monitored, Connect
  <2> QED
    BY <1>1, <2>1, <2>2, Kept DEF Connect
<1>2. CASE Abort
  <2>1. TypeOK'
    BY <1>2 DEF TypeOK, MonitorType, Monitored, FinishPhase, Hangups, Abort, RunUnchanged
  <2>2. Cleared'
    BY <1>2 DEF Cleared, Monitored, Abort, RunUnchanged
  <2> QED
    BY <1>2, <2>1, <2>2, Kept DEF Abort, RunUnchanged
<1>3. CASE GoLive
  <2>1. TypeOK'
    BY <1>3 DEF TypeOK, MonitorType, Monitored, FinishPhase, Hangups, GoLive
  <2>2. Disclosure'
    BY <1>3 DEF Disclosure, TypeOK, GoLive
  <2>3. Monitored'
    BY <1>3 DEF Monitored, Disclosure, TypeOK, MonitorType, GoLive
  <2>4. Cleared'
    BY <1>3 DEF Cleared, Monitored, GoLive
  <2> QED
    BY <1>3, <2>1, <2>2, <2>3, <2>4, Kept DEF GoLive
<1>4. CASE ObserveEnd
  <2>1. TypeOK'
    BY <1>4 DEF TypeOK, MonitorType, Monitored, FinishPhase, Hangups, ObserveEnd, RunUnchanged
  <2>2. Cleared'
    BY <1>4 DEF Cleared, Monitored, ObserveEnd, RunUnchanged
  <2> QED
    BY <1>4, <2>1, <2>2, Kept DEF ObserveEnd, RunUnchanged
<1>5. ASSUME NEW t \in Listeners, CancelPending(t) PROVE IInv'
  <2> USE DEF CancelAll, DropHangups, IsOver, IsCancelled, TaskState
  <2>1. /\ twilio' \in {twilio, "cancelled"} /\ deepgram' \in {deepgram, "cancelled"}
        /\ duration' \in {duration, "cancelled"} /\ finish' = finish
    BY <1>5 DEF CancelPending, Listeners
  <2>2. hangups' \subseteq hangups
    BY <1>5 DEF CancelPending
  <2>3. TypeOK'
    <3>1. MonitorType' /\ Flags'
      BY <1>5 DEF TypeOK, MonitorType, Flags, CancelPending
    <3>2. UNCHANGED <<main, deadline, call, agent, caller, opening, prompts>>
      BY <1>5 DEF CancelPending
    <3>3. Phases'
      BY <2>1, <2>2, <3>2 DEF TypeOK, Phases
    <3> QED
      BY <3>1, <3>3 DEF TypeOK, Phases, Flags
  <2>4. Cleared'
    BY <1>5 DEF Cleared, CancelPending
  <2> QED
    BY <1>5, <2>1, <2>3, <2>4, Kept DEF CancelPending
<1>6. CASE LeaveWait
  <2>1. TypeOK'
    BY <1>6 DEF TypeOK, MonitorType, LeaveWait, RunUnchanged
  <2>2. Cleared'
    BY <1>6 DEF Cleared, LeaveWait, RunUnchanged
  <2> QED
    BY <1>6, <2>1, <2>2, Kept DEF LeaveWait, RunUnchanged
<1>7. CASE CleanUp
  <2> USE DEF CancelAll, DropHangups, IsOver, TaskState, Tasks, Listeners
  <2>1. /\ twilio' = IF twilio = "ended" THEN "ended" ELSE "cancelled"
        /\ deepgram' = IF deepgram \in {"off", "ended"} THEN deepgram ELSE "cancelled"
        /\ duration' = IF duration \in {"off", "ended"} THEN duration ELSE "cancelled"
        /\ finish' = IF finish \in {"none", "ended"} THEN finish ELSE "cancelled"
    BY <1>7 DEF CleanUp, TypeOK, FinishPhase
  <2>2. /\ "twilio" \in gathered' /\ gathered' \subseteq Tasks
        /\ deepgram # "off" => "deepgram" \in gathered'
        /\ duration # "off" => "duration" \in gathered'
        /\ finish # "none" => "finish" \in gathered'
    BY <1>7 DEF CleanUp, TypeOK, FinishPhase
  <2>3. hangups' \subseteq hangups
    BY <1>7 DEF CleanUp
  <2>4. timer' = "none" /\ MonitorType'
    BY <1>7 DEF CleanUp, StopIfMonitored, Stop, Monitored, TypeOK, MonitorType
  <2>5. TypeOK'
    <3>1. finish' \in FinishPhase
      BY <2>1 DEF TypeOK, FinishPhase
    <3>2. /\ twilio' \in {"on", "cancelled", "ended"}
          /\ deepgram' \in {"off", "on", "replying", "cancelled", "ended"}
          /\ duration' \in {"off", "sleeping", "hanging", "cancelled", "ended"}
      BY <2>1 DEF TypeOK
    <3>3. hangups' \subseteq Hangups
      BY <2>3 DEF TypeOK
    <3> QED
      BY <1>7, <2>2, <2>4, <3>1, <3>2, <3>3 DEF TypeOK, CleanUp
  <2>6. Monitored'
    BY <1>7, <2>4 DEF Monitored, TypeOK, MonitorType, CleanUp, StopIfMonitored, Stop
  <2>7. Spoken'
    BY <1>7, <2>1 DEF Spoken, TypeOK, CleanUp
  <2>8. Cleared'
    BY <1>7, <2>1, <2>2, <2>4 DEF Cleared, TypeOK, CleanUp
  <2> QED
    BY <1>7, <2>5, <2>6, <2>7, <2>8, Kept DEF CleanUp
<1>8. CASE CloseSession
  <2>1. TypeOK'
    BY <1>8 DEF TypeOK, MonitorType, CloseSession, RunUnchanged
  <2>2. "cancelled" \notin {twilio, deepgram, duration, finish}
    BY <1>8 DEF Cleared, CloseSession, IsOver, TaskState
  <2>3. Cleared'
    BY <1>8, <2>2 DEF Cleared, CloseSession, RunUnchanged
  <2> QED
    BY <1>8, <2>1, <2>3, Kept DEF CloseSession, RunUnchanged
<1> QED
  BY <1>1, <1>2, <1>3, <1>4, <1>5, <1>6, <1>7, <1>8 DEF RunNext

\* A task that was cancelled ends.
LEMMA DeliveryStep == ASSUME IInv, CancelDelivered PROVE IInv'
<1> USE DEF IInv, main, monitor, session, outside, records
<1>1. /\ twilio' = IF twilio = "cancelled" THEN "ended" ELSE twilio
      /\ deepgram' = IF deepgram = "cancelled" THEN "ended" ELSE deepgram
      /\ duration' = IF duration = "cancelled" THEN "ended" ELSE duration
      /\ finish' = IF finish = "cancelled" THEN "ended" ELSE finish
  BY DEF CancelDelivered, IsCancelled, TaskState
<1>2. TypeOK'
  <2>1. finish' \in FinishPhase
    BY <1>1 DEF TypeOK, FinishPhase
  <2> QED
    BY <1>1, <2>1 DEF TypeOK, MonitorType, CancelDelivered
<1>3. Spoken'
  BY <1>1 DEF Spoken, TypeOK, CancelDelivered
<1>4. Cleared'
  BY <1>1 DEF Cleared, CancelDelivered
<1> QED
  BY <1>2, <1>3, <1>4, Kept DEF CancelDelivered

\* The steps of _listen_twilio
LEMMA TwilioSteps ==
    ASSUME IInv, TwilioMedia \/ TwilioMark \/ TwilioStop \/ TwilioBreaks
    PROVE  IInv'
<1> USE DEF IInv, main, monitor, session, outside, records
<1>1. CASE TwilioMedia
  <2>1. TypeOK'
    BY <1>1 DEF TypeOK, MonitorType, Monitored, FinishPhase, Hangups, TwilioMedia
  <2>2. Disclosure'
    BY <1>1 DEF Disclosure, TypeOK, TwilioMedia
  <2> QED
    BY <1>1, <2>1, <2>2, Kept DEF TwilioMedia
<1>2. CASE TwilioMark
  <2>1. TypeOK'
    BY <1>2 DEF TypeOK, MonitorType, Monitored, FinishPhase, Hangups, TwilioMark
  <2>2. Spoken'
    BY <1>2 DEF Spoken, TypeOK, TwilioMark
  <2>3. Cleared'
    BY <1>2 DEF Cleared, Monitored, TwilioMark
  <2> QED
    BY <1>2, <2>1, <2>2, <2>3, Kept DEF TwilioMark
<1>3. CASE TwilioStop
  <2>1. TypeOK'
    BY <1>3 DEF TypeOK, MonitorType, Monitored, FinishPhase, Hangups, TwilioStop
  <2>2. Cleared'
    BY <1>3 DEF Cleared, Monitored, TwilioStop
  <2> QED
    BY <1>3, <2>1, <2>2, Kept DEF TwilioStop
<1>4. CASE TwilioBreaks
  <2>1. TypeOK'
    BY <1>4 DEF TypeOK, MonitorType, Monitored, FinishPhase, Hangups, TwilioBreaks
  <2>2. Cleared'
    BY <1>4 DEF Cleared, Monitored, TwilioBreaks
  <2> QED
    BY <1>4, <2>1, <2>2, Kept DEF TwilioBreaks
<1> QED
  BY <1>1, <1>2, <1>3, <1>4

\* The steps of _listen_deepgram
LEMMA DeepgramSteps ==
    ASSUME IInv,
           \/ SettingsApplied \/ AgentAudio \/ AgentAudioDone \/ UserText \/ UserStartedSpeaking
           \/ FunctionCall \/ FunctionReplied \/ DeepgramEnds
    PROVE  IInv'
<1> USE DEF IInv, main, monitor, session, outside, records
<1>1. CASE SettingsApplied
  <2>1. TypeOK'
    BY <1>1 DEF TypeOK, MonitorType, Monitored, FinishPhase, Hangups, SettingsApplied
  <2> QED
    BY <1>1, <2>1, Kept DEF SettingsApplied
<1>2. CASE AgentAudio
  <2>1. TypeOK'
    <3>1. MonitorType' /\ Flags'
      BY <1>2 DEF TypeOK, MonitorType, Flags, AgentAudio
    <3>2. finish' \in FinishPhase
      BY <1>2 DEF TypeOK, FinishPhase, AgentAudio
    <3>3. Phases'
      BY <1>2, <3>2 DEF TypeOK, Phases, AgentAudio
    <3> QED
      BY <3>1, <3>3 DEF TypeOK, Phases, Flags
  <2>2. Spoken'
    BY <1>2 DEF Spoken, TypeOK, AgentAudio
  <2>3. Cleared'
    BY <1>2 DEF Cleared, Monitored, AgentAudio
  <2>4. Disclosure'
    BY <1>2 DEF Disclosure, TypeOK, AgentAudio
  <2> QED
    BY <1>2, <2>1, <2>2, <2>3, <2>4, Kept DEF AgentAudio
<1>3. CASE AgentAudioDone
  <2>1. TypeOK'
    <3>1. MonitorType'
      BY <1>3 DEF TypeOK, MonitorType, Monitored, AgentAudioDone, NotifyAgentAudioDone, Arm
    <3>2. Flags'
      BY <1>3 DEF TypeOK, Flags, AgentAudioDone, NotifyAgentAudioDone, Arm
    <3>3. Phases'
      BY <1>3 DEF TypeOK, Phases, FinishPhase, Hangups, AgentAudioDone, NotifyAgentAudioDone, Arm
    <3> QED
      BY <3>1, <3>2, <3>3 DEF TypeOK, Phases, Flags
  <2>2. Monitored'
    BY <1>3 DEF Monitored, Disclosure, TypeOK, MonitorType, AgentAudioDone, NotifyAgentAudioDone,
       Arm
  <2>3. Spoken'
    BY <1>3 DEF Spoken, TypeOK, AgentAudioDone, NotifyAgentAudioDone, Arm
  <2>4. Cleared'
    BY <1>3 DEF Cleared, Monitored, AgentAudioDone, NotifyAgentAudioDone, Arm
  <2>5. Disclosure'
    BY <1>3 DEF Disclosure, TypeOK, AgentAudioDone
  <2> QED
    BY <1>3, <2>1, <2>2, <2>3, <2>4, <2>5, Kept DEF AgentAudioDone
<1>4. CASE UserText
  <2>1. TypeOK'
    <3>1. MonitorType'
      BY <1>4 DEF TypeOK, MonitorType, Monitored, UserText
    <3>2. Flags'
      BY <1>4 DEF TypeOK, Flags, UserText
    <3>3. Phases'
      BY <1>4 DEF TypeOK, Phases, FinishPhase, Hangups, UserText
    <3> QED
      BY <3>1, <3>2, <3>3 DEF TypeOK, Phases, Flags
  <2>2. Spoken'
    BY <1>4 DEF Spoken, TypeOK, UserText
  <2> QED
    BY <1>4, <2>1, <2>2, Kept DEF UserText
<1>5. CASE UserStartedSpeaking
  <2>1. TypeOK'
    <3>1. MonitorType'
      BY <1>5 DEF TypeOK, MonitorType, Monitored, UserStartedSpeaking, NotifyUserStartedSpeaking,
         Arm, Protected
    <3>2. Flags'
      BY <1>5 DEF TypeOK, Flags, UserStartedSpeaking, NotifyUserStartedSpeaking, Arm, Protected
    <3>3. Phases'
      BY <1>5 DEF TypeOK, Phases, FinishPhase, Hangups, UserStartedSpeaking,
         NotifyUserStartedSpeaking, Arm, Protected
    <3> QED
      BY <3>1, <3>2, <3>3 DEF TypeOK, Phases, Flags
  <2>2. Disclosure'
    BY <1>5 DEF Disclosure, TypeOK, UserStartedSpeaking, NotifyUserStartedSpeaking, Arm, Protected
  <2>3. Monitored'
    BY <1>5 DEF Monitored, Disclosure, TypeOK, MonitorType, UserStartedSpeaking,
       NotifyUserStartedSpeaking, Arm, Protected
  <2>4. Spoken'
    BY <1>5 DEF Spoken, TypeOK, UserStartedSpeaking, NotifyUserStartedSpeaking, Arm, Protected
  <2>5. Cleared'
    BY <1>5 DEF Cleared, Monitored, UserStartedSpeaking, NotifyUserStartedSpeaking,
       Arm, Protected
  <2> QED
    BY <2>1, <2>2, <2>3, <2>4, <2>5
<1>6. CASE FunctionCall
  <2>1. TypeOK'
    <3>1. MonitorType'
      BY <1>6 DEF TypeOK, MonitorType, Monitored, FunctionCall, StopIfMonitored, Stop
    <3>2. Flags'
      BY <1>6 DEF TypeOK, Flags, FunctionCall, StopIfMonitored, Stop
    <3>3. Phases'
      BY <1>6 DEF TypeOK, Phases, FinishPhase, Hangups, FunctionCall, StopIfMonitored, Stop
    <3> QED
      BY <3>1, <3>2, <3>3 DEF TypeOK, Phases, Flags
  <2>2. Monitored'
    BY <1>6 DEF Monitored, Disclosure, TypeOK, MonitorType, FunctionCall, StopIfMonitored, Stop
  <2>3. Cleared'
    BY <1>6 DEF Cleared, Monitored, FunctionCall, StopIfMonitored, Stop
  <2> QED
    BY <1>6, <2>1, <2>2, <2>3, Kept DEF FunctionCall
<1>7. CASE FunctionReplied
  <2>1. TypeOK'
    <3>1. MonitorType'
      BY <1>7 DEF TypeOK, MonitorType, Monitored, FunctionReplied
    <3>2. Flags'
      BY <1>7 DEF TypeOK, Flags, FunctionReplied
    <3>3. Phases'
      BY <1>7 DEF TypeOK, Phases, FinishPhase, Hangups, FunctionReplied
    <3> QED
      BY <3>1, <3>2, <3>3 DEF TypeOK, Phases, Flags
  <2>2. Spoken'
    BY <1>7 DEF Spoken, TypeOK, FunctionReplied
  <2>3. Cleared'
    BY <1>7 DEF Cleared, Monitored, FunctionReplied
  <2> QED
    BY <1>7, <2>1, <2>2, <2>3, Kept DEF FunctionReplied
<1>8. CASE DeepgramEnds
  <2>1. TypeOK'
    BY <1>8 DEF TypeOK, MonitorType, Monitored, FinishPhase, Hangups, DeepgramEnds
  <2>2. Cleared'
    BY <1>8 DEF Cleared, Monitored, DeepgramEnds
  <2> QED
    BY <1>8, <2>1, <2>2, Kept DEF DeepgramEnds
<1> QED
  BY <1>1, <1>2, <1>3, <1>4, <1>5, <1>6, <1>7, <1>8

\* The steps of _hangup_after_playback
LEMMA FinishSteps == ASSUME IInv, FinishNext PROVE IInv'
<1> USE DEF IInv, main, monitor, session, outside, records, FinishUnchanged, AwaitAudioUnlessDone,
            SendMark, AskToHangUp
<1>1. CASE FinishStarts
  <2>1. TypeOK'
    <3>1. MonitorType'
      BY <1>1 DEF TypeOK, MonitorType, Monitored, FinishStarts
    <3>2. Flags'
      BY <1>1 DEF TypeOK, Flags, FinishStarts
    <3>3. finish' \in FinishPhase
      BY <1>1 DEF TypeOK, FinishPhase, FinishStarts
    <3>4. hangups' \subseteq Hangups
      BY <1>1 DEF TypeOK, Hangups, FinishStarts
    <3>5. Phases'
      BY <1>1, <3>3, <3>4 DEF TypeOK, Phases, FinishStarts
    <3> QED
      BY <3>1, <3>2, <3>5 DEF TypeOK, Phases, Flags
  <2>2. Spoken'
    BY <1>1 DEF Spoken, TypeOK, FinishStarts
  <2>3. Cleared'
    BY <1>1 DEF Cleared, Monitored, FinishStarts
  <2> QED
    BY <1>1, <2>1, <2>2, <2>3, Kept DEF FinishStarts
<1>2. CASE GraceOver
  <2>1. TypeOK'
    <3>1. MonitorType'
      BY <1>2 DEF TypeOK, MonitorType, Monitored, GraceOver
    <3>2. Flags'
      BY <1>2 DEF TypeOK, Flags, GraceOver
    <3>3. finish' \in FinishPhase
      BY <1>2 DEF TypeOK, FinishPhase, GraceOver
    <3>4. hangups' \subseteq Hangups
      BY <1>2 DEF TypeOK, Hangups, GraceOver
    <3>5. Phases'
      BY <1>2, <3>3, <3>4 DEF TypeOK, Phases, GraceOver
    <3> QED
      BY <3>1, <3>2, <3>5 DEF TypeOK, Phases, Flags
  <2>2. Spoken'
    BY <1>2 DEF Spoken, TypeOK, GraceOver
  <2>3. Cleared'
    BY <1>2 DEF Cleared, Monitored, GraceOver
  <2> QED
    BY <1>2, <2>1, <2>2, <2>3, Kept DEF GraceOver
<1>3. CASE AudioOver
  <2>1. TypeOK'
    <3>1. MonitorType'
      BY <1>3 DEF TypeOK, MonitorType, Monitored, AudioOver
    <3>2. Flags'
      BY <1>3 DEF TypeOK, Flags, AudioOver
    <3>3. finish' \in FinishPhase
      BY <1>3 DEF TypeOK, FinishPhase, AudioOver
    <3>4. hangups' \subseteq Hangups
      BY <1>3 DEF TypeOK, Hangups, AudioOver
    <3>5. Phases'
      BY <1>3, <3>3, <3>4 DEF TypeOK, Phases, AudioOver
    <3> QED
      BY <3>1, <3>2, <3>5 DEF TypeOK, Phases, Flags
  <2>2. Spoken'
    BY <1>3 DEF Spoken, TypeOK, AudioOver
  <2>3. Cleared'
    BY <1>3 DEF Cleared, Monitored, AudioOver
  <2> QED
    BY <1>3, <2>1, <2>2, <2>3, Kept DEF AudioOver
<1>4. CASE MarkOver
  <2>1. TypeOK'
    <3>1. MonitorType'
      BY <1>4 DEF TypeOK, MonitorType, Monitored, MarkOver
    <3>2. Flags'
      BY <1>4 DEF TypeOK, Flags, MarkOver
    <3>3. Phases'
      BY <1>4 DEF TypeOK, Phases, FinishPhase, Hangups, MarkOver
    <3> QED
      BY <3>1, <3>2, <3>3 DEF TypeOK, Phases, Flags
  <2>2. Spoken'
    BY <1>4 DEF Spoken, TypeOK, MarkOver
  <2>3. Cleared'
    BY <1>4 DEF Cleared, Monitored, MarkOver
  <2> QED
    BY <1>4, <2>1, <2>2, <2>3, Kept DEF MarkOver
<1> QED
  BY <1>1, <1>2, <1>3, <1>4 DEF FinishNext

\* The monitor's task, the duration guard and the threads
LEMMA HangupSteps ==
    ASSUME IInv,
           \/ MonitorPrompts \/ SilenceHangup
           \/ DurationOver \/ \E by \in Hangups : HangupReturns(by)
    PROVE  IInv'
<1> USE DEF IInv, main, monitor, session, outside, records
<1>1. CASE MonitorPrompts
  <2>1. TypeOK'
    <3>1. MonitorType'
      BY <1>1 DEF TypeOK, MonitorType, Monitored, MonitorPrompts, Expire, Reprompted
    <3>2. Flags'
      BY <1>1 DEF TypeOK, Flags, MonitorPrompts, Expire, Reprompted
    <3>3. Phases'
      <4>1. prompts' \in 0..3
        BY <1>1 DEF TypeOK, MonitorPrompts
      <4> QED
        BY <1>1, <4>1 DEF TypeOK, Phases, MonitorPrompts
    <3> QED
      BY <3>1, <3>2, <3>3 DEF TypeOK, Phases, Flags
  <2>2. Monitored'
    BY <1>1 DEF Monitored, Disclosure, TypeOK, MonitorType, MonitorPrompts, Expire, Reprompted
  <2>3. Cleared'
    BY <1>1 DEF Cleared, Monitored, MonitorPrompts, Expire, Reprompted
  <2> QED
    BY <1>1, <2>1, <2>2, <2>3, Kept DEF MonitorPrompts
<1>2. CASE SilenceHangup
  <2>1. TypeOK'
    BY <1>2 DEF TypeOK, MonitorType, Monitored, FinishPhase, Hangups, SilenceHangup, GoodbyeSent,
       Stop
  <2>2. Monitored'
    BY <1>2 DEF Monitored, Disclosure, TypeOK, MonitorType, SilenceHangup, GoodbyeSent, Stop
  <2>3. Cleared'
    BY <1>2 DEF Cleared, Monitored, SilenceHangup, GoodbyeSent, Stop
  <2> QED
    BY <1>2, <2>1, <2>2, <2>3, Kept DEF SilenceHangup
<1>3. CASE DurationOver
  <2>1. TypeOK'
    BY <1>3 DEF TypeOK, MonitorType, Monitored, FinishPhase, Hangups, DurationOver
  <2>2. Cleared'
    BY <1>3 DEF Cleared, Monitored, DurationOver
  <2> QED
    BY <1>3, <2>1, <2>2, Kept DEF DurationOver
<1>4. ASSUME NEW by \in Hangups, HangupReturns(by) PROVE IInv'
  <2>1. TypeOK'
    BY <1>4 DEF TypeOK, MonitorType, Monitored, FinishPhase, Hangups, HangupReturns
  <2>2. Spoken'
    BY <1>4 DEF Spoken, TypeOK, HangupReturns
  <2>3. Cleared'
    BY <1>4 DEF Cleared, Monitored, HangupReturns
  <2> QED
    BY <1>4, <2>1, <2>2, <2>3, Kept DEF HangupReturns
<1> QED
  BY <1>1, <1>2, <1>3, <1>4

\* What happens outside the program, and nothing at all
LEMMA WorldSteps ==
    ASSUME IInv, CallEnds \/ CallerStops \/ DeadlinePasses \/ UNCHANGED vars
    PROVE  IInv'
<1> USE DEF IInv, main, monitor, session, outside, records
<1>1. CASE CallEnds
  <2>1. TypeOK'
    BY <1>1 DEF TypeOK, MonitorType, Monitored, FinishPhase, Hangups, CallEnds
  <2> QED
    BY <1>1, <2>1, Kept DEF CallEnds
<1>2. CASE CallerStops
  <2>1. TypeOK'
    BY <1>2 DEF TypeOK, MonitorType, Monitored, FinishPhase, Hangups, CallerStops
  <2> QED
    BY <1>2, <2>1, Kept DEF CallerStops
<1>3. CASE DeadlinePasses
  <2>1. TypeOK'
    BY <1>3 DEF TypeOK, MonitorType, Monitored, FinishPhase, Hangups, DeadlinePasses
  <2>2. Disclosure'
    BY <1>3 DEF Disclosure, TypeOK, DeadlinePasses
  <2> QED
    BY <1>3, <2>1, <2>2, Kept DEF DeadlinePasses
<1>4. CASE UNCHANGED vars
  <2>1. TypeOK'
    BY <1>4 DEF TypeOK, MonitorType, Monitored, FinishPhase, Hangups, vars
  <2>2. Disclosure'
    BY <1>4 DEF Disclosure, TypeOK, vars
  <2>3. Monitored'
    BY <1>4 DEF Monitored, Disclosure, TypeOK, MonitorType, vars
  <2>4. Spoken'
    BY <1>4 DEF Spoken, TypeOK, vars
  <2>5. Cleared'
    BY <1>4 DEF Cleared, Monitored, vars
  <2> QED
    BY <2>1, <2>2, <2>3, <2>4, <2>5
<1> QED
  BY <1>1, <1>2, <1>3, <1>4

LEMMA NextIInv == IInv /\ [Next]_vars => IInv'
BY RunSteps, DeliveryStep, TwilioSteps, DeepgramSteps, FinishSteps, HangupSteps, WorldSteps
   DEF Next, ListenNext

\* A step that asks for the silence hangup is the monitor's second timeout.
LEMMA SilenceStep ==
    IInv /\ [Next]_vars => (("silence" \in hangups' \ hangups) => prompts >= 2 /\ ~requested)
<1> SUFFICES ASSUME IInv, [Next]_vars, "silence" \in hangups', "silence" \notin hangups
             PROVE  prompts >= 2 /\ ~requested
  OBVIOUS
<1> USE DEF outside, Hangups
<1>1. CASE SilenceHangup
  <2>1. attempt = 2 /\ timer = "injecting"
    BY <1>1 DEF SilenceHangup, GoodbyeSent
  <2>2. ~stopped /\ ~requested
    BY <2>1 DEF IInv, Monitored, TypeOK, MonitorType
  <2> QED
    BY <2>1, <2>2 DEF IInv, Monitored, TypeOK
<1>2. ~RunNext
  BY DEF RunNext, RunUnchanged, Connect, Abort, GoLive, ObserveEnd, CancelPending, CancelAll,
         DropHangups, LeaveWait, CleanUp, CloseSession
<1>3. ~ListenNext
  BY DEF ListenNext, TwilioMedia, TwilioMark, TwilioStop, TwilioBreaks, SettingsApplied, AgentAudio,
         AgentAudioDone, UserText, UserStartedSpeaking, FunctionCall, FunctionReplied, DeepgramEnds
<1>4. ~FinishNext
  BY DEF FinishNext, FinishStarts, GraceOver, AudioOver, MarkOver, AwaitAudioUnlessDone, SendMark,
         AskToHangUp
<1>5. ~MonitorPrompts /\ ~DurationOver /\ \A by \in Hangups : ~HangupReturns(by)
  BY DEF MonitorPrompts, DurationOver, HangupReturns
<1>6. ~CallEnds /\ ~CallerStops /\ ~DeadlinePasses /\ ~CancelDelivered /\ ~UNCHANGED vars
  BY DEF CallEnds, CallerStops, DeadlinePasses, CancelDelivered, vars
<1> QED
  BY <1>1, <1>2, <1>3, <1>4, <1>5, <1>6 DEF Next

\* A step that cuts the disclosure is an interruption, of which Deepgram can only hear when the
\* caller is forwarded.
LEMMA DisclosureStep ==
    IInv /\ [Next]_vars =>
        (opening' = "cut" /\ opening # "cut" => ~ProtectDisclosure \/ deadline = "passed")
<1> SUFFICES ASSUME IInv, [Next]_vars, opening' = "cut", opening # "cut"
             PROVE  ~ProtectDisclosure \/ deadline = "passed"
  OBVIOUS
<1> USE DEF records
<1>1. CASE UserStartedSpeaking
  <2>1. opening = "sending" /\ ~Protected /\ heard
    BY <1>1 DEF UserStartedSpeaking
  <2>2. ~disclosed /\ deadline # "unset"
    BY <2>1 DEF IInv, Disclosure
  <2> QED
    BY <2>1, <2>2 DEF Protected, IInv, TypeOK
<1>2. ~RunNext /\ ~CancelDelivered
  BY DEF RunNext, RunUnchanged, Connect, Abort, GoLive, ObserveEnd, CancelPending, LeaveWait, CleanUp,
         CloseSession, CancelDelivered
<1>3. /\ ~TwilioMedia /\ ~TwilioMark /\ ~TwilioStop /\ ~TwilioBreaks /\ ~SettingsApplied
      /\ ~AgentAudio /\ ~AgentAudioDone /\ ~UserText /\ ~FunctionCall /\ ~FunctionReplied
      /\ ~DeepgramEnds
  BY DEF TwilioMedia, TwilioMark, TwilioStop, TwilioBreaks, SettingsApplied, AgentAudio,
         AgentAudioDone, UserText, FunctionCall, FunctionReplied, DeepgramEnds
<1>4. ~FinishNext
  BY DEF FinishNext, FinishStarts, GraceOver, AudioOver, MarkOver, FinishUnchanged
<1>5. ~MonitorPrompts /\ ~SilenceHangup /\ ~DurationOver /\ \A by \in Hangups : ~HangupReturns(by)
  BY DEF MonitorPrompts, SilenceHangup, DurationOver, HangupReturns
<1>6. ~CallEnds /\ ~CallerStops /\ ~DeadlinePasses /\ ~UNCHANGED vars
  BY DEF CallEnds, CallerStops, DeadlinePasses, vars
<1> QED
  BY <1>1, <1>2, <1>3, <1>4, <1>5, <1>6 DEF Next, ListenNext

-------------------------------------------------------------------------------
(* The theorems *)

\* The rules between the fields hold in every state of every session.
THEOREM SessionInvariance == Spec => []IInv
BY InitIInv, NextIInv, PTL DEF Spec

\* Every field and task stays in one of its states; the monitor counts to two.
THEOREM SessionTypes == Spec => []TypeOK
<1>1. IInv => TypeOK
  BY DEF IInv
<1> QED
  BY <1>1, SessionInvariance, PTL

\* Before the deadline, barge-in drops nothing of a protected disclosure that is being sent.
THEOREM DisclosureIsSent == Spec => DisclosureIsProtected
BY SessionInvariance, DisclosureStep, PTL DEF Spec, DisclosureIsProtected

\* From finish_demo on, the silence monitor has no timer to talk or hang up with.
THEOREM MonitorIsSilent == Spec => []MonitorYieldsToFinish
<1>1. IInv => MonitorYieldsToFinish
  BY DEF IInv, Monitored, MonitorYieldsToFinish
<1> QED
  BY <1>1, SessionInvariance, PTL

\* The final hangup comes after the utterance it waits for, or after a timeout.
THEOREM LastWords == Spec => []FinalWordsArePlayed
<1>1. IInv => FinalWordsArePlayed
  BY DEF IInv, Spoken, FinalWordsArePlayed
<1> QED
  BY <1>1, SessionInvariance, PTL

\* Once run() has returned, no task of the session is left.
THEOREM NothingIsLeft == Spec => []NothingOutlivesSession
<1>1. IInv => NothingOutlivesSession
  BY DEF IInv, Cleared, NothingOutlivesSession, IsOver, TaskState, Tasks, Listeners
<1> QED
  BY <1>1, SessionInvariance, PTL

\* The monitor hangs up on a caller it has prompted twice without a word in between.
THEOREM OnlyOnSilence == Spec => SilenceHangsUpOnSilence
BY SessionInvariance, SilenceStep, PTL DEF Spec, SilenceHangsUpOnSilence
===============================================================================
