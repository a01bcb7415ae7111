----------------------------- MODULE VoiceSession -----------------------------
(***************************************************************************)
(* One phone conversation (voice_agent.py): the asyncio tasks that bridge  *)
(* a Twilio media stream to a Deepgram agent, and the silence monitor they *)
(* drive.  Tasks of one event loop interleave only where they await, so an *)
(* action is what a task does from one await to the next.  The hangups run *)
(* in threads (telephony.py, asyncio.to_thread) and outlive the task that  *)
(* asked for them.  Twilio, Deepgram, the caller and the wall clock are    *)
(* external; a timeout may fire at any moment its wait is under way.       *)
(***************************************************************************)
EXTENDS SilenceMonitor

CONSTANT ProtectDisclosure      \* settings.protect_disclosure

ASSUME ProtectDisclosureAssumption == ProtectDisclosure \in BOOLEAN

VARIABLES
    \* The tasks
    run,        \* run(), up to the await it is in
    gathered,   \* the tasks its finally block found, and waits for
    twilio,     \* _listen_twilio
    deepgram,   \* _listen_deepgram; "replying" while it awaits send_function_call_response
    duration,   \* _duration_guard
    finish,     \* _hangup_after_playback
    \* The fields of the session
    applied,    \* _settings_applied
    forward,    \* _forward_twilio_audio; set in the same step as _silence
    audioDone,  \* _agent_audio_done and _agent_audio_done_is_current, always set and cleared together
    disclosed,  \* _disclosure_done
    deadline,   \* _disclosure_deadline against the clock
    requested,  \* _finish_requested
    \* The world outside the event loop
    call,       \* the carrier call
    hangups,    \* the hangups handed to a thread and not yet answered, by who asked
    agent,      \* whether Deepgram has begun an utterance it has not finished
    caller,     \* whether the caller is speaking
    \* Recorded for the properties
    heard,      \* the caller's audio has reached Deepgram
    opening,    \* the first utterance: unsaid, being sent, sent, or cut by a clear meanwhile
    prompts,    \* since the caller last spoke: 1 reprompted, 2 goodbye asked for, 3 goodbye spoken
    owed,       \* an utterance the final hangup has to wait for is not finished
    gaveUp      \* the final hangup stopped waiting for audio or playback

main == <<run, gathered>>
session == <<applied, forward, audioDone, disclosed, deadline, requested>>
outside == <<call, hangups, agent, caller>>
records == <<heard, opening, prompts, owed, gaveUp>>
vars == <<monitor, main, twilio, deepgram, duration, finish, session, outside, records>>

Hangups == {"duration", "silence", "finish"}
Listeners == {"twilio", "deepgram", "duration"}
Tasks == Listeners \cup {"finish"}

\* quiet, talking: created while the agent was silent, or in the middle of an utterance.
\* grace, audio, mark: awaiting the start of the final words, their end, their playback.
\* began, finished, marked: awoken by the event that was awaited.
FinishPhase == {"none", "quiet", "talking", "grace", "began", "audio", "finished",
                "mark", "marked", "hanging", "cancelled", "ended"}

Init ==
    /\ MonitorInit
    /\ run = "connecting" /\ gathered = {}
    /\ twilio = "on" /\ deepgram = "off" /\ duration = "off" /\ finish = "none"
    /\ applied = FALSE /\ forward = FALSE /\ audioDone = FALSE /\ disclosed = FALSE
    /\ deadline = "unset" /\ requested = FALSE
    /\ call = "live" /\ hangups = {} /\ agent = "idle" /\ caller = "quiet"
    /\ heard = FALSE /\ opening = "unsaid" /\ prompts = 0 /\ owed = FALSE /\ gaveUp = FALSE

-------------------------------------------------------------------------------
(* run() *)

\* Deepgram answers; its listener starts and the settings are sent.
Connect ==
    /\ run = "connecting"
    /\ run' = "configuring"
    /\ deepgram' = "on"
    /\ UNCHANGED <<monitor, gathered, twilio, duration, finish, session, outside, records>>

RunUnchanged == UNCHANGED <<monitor, gathered, twilio, deepgram, duration, finish,
                            session, outside, records>>

\* The connection fails, or the settings are not acknowledged in time.
Abort ==
    /\ run \in {"connecting", "configuring"}
    /\ run' = "closing"
    /\ RunUnchanged

\* From here the caller is heard, the disclosure protected and the duration guarded.
GoLive ==
    /\ run = "configuring" /\ applied
    /\ run' = "live"
    /\ forward' = TRUE
    /\ deadline' = "ahead"
    /\ duration' = "sleeping"
    /\ UNCHANGED <<monitor, gathered, twilio, deepgram, finish, applied, audioDone,
                   disclosed, requested, outside, records>>

\* Mutant: run() waits for its listeners only.
ObserveEnd_ListenersOnly ==
    /\ run = "live"
    /\ deepgram = "ended" \/ twilio = "ended"
    /\ run' = "cancelling"
    /\ RunUnchanged

\* asyncio.wait returns when the first of the three tasks is over, however it ended.
ObserveEnd ==
    /\ run = "live"
    /\ deepgram = "ended" \/ twilio = "ended" \/ duration = "ended"
    /\ run' = "cancelling"
    /\ RunUnchanged

TaskState == [twilio |-> twilio, deepgram |-> deepgram, duration |-> duration, finish |-> finish]
IsOver(t) == TaskState[t] \in {"off", "none", "ended"}
IsCancelled(t) == TaskState[t] = "cancelled"

\* Cancelling a task that is over does nothing; any other takes no step of its own any more.
CancelAll(ts) ==
    LET After(t) == IF t \in ts /\ ~IsOver(t) THEN "cancelled" ELSE TaskState[t]
    IN  /\ twilio' = After("twilio") /\ deepgram' = After("deepgram")
        /\ duration' = After("duration") /\ finish' = After("finish")

\* A hangup whose task is cancelled runs all the same once a thread has picked it up.
DropHangups(ts) ==
    \E dropped \in SUBSET {t \in ts \cap Hangups : TaskState[t] = "hanging"} :
        hangups' = hangups \ dropped

\* run() cancels the tasks that are pending one by one, and awaits each before the next: the
\* others go on meanwhile.
CancelPending(t) ==
    /\ run = "cancelling"
    /\ ~IsOver(t) /\ \A u \in Listeners : ~IsCancelled(u)
    /\ CancelAll({t})
    /\ DropHangups({t})
    /\ UNCHANGED <<monitor, main, session, call, agent, caller, records>>

\* The loop is over, or the exception of a task that ended by itself leaves it.  A normal end
\* is not told from an exception here: run() may leave in either case.
LeaveWait ==
    /\ run = "cancelling"
    /\ \A t \in Listeners : ~IsCancelled(t)
    /\ run' = "closing"
    /\ RunUnchanged

StopIfMonitored ==
    \/ forward /\ Stop
    \/ ~forward /\ UNCHANGED monitor

\* Mutant: the final hangup is not among the tasks the finally block looks at.
CleanUp_FinishForgotten ==
    /\ run = "closing"
    /\ run' = "gathering"
    /\ StopIfMonitored
    /\ gathered' = {t \in Listeners : TaskState[t] # "off"}
    /\ CancelAll(Listeners)
    /\ DropHangups(Listeners)
    /\ UNCHANGED <<session, call, agent, caller, records>>

\* The finally block: the monitor is stopped, and the tasks there are now are cancelled.
CleanUp ==
    /\ run = "closing"
    /\ run' = "gathering"
    /\ StopIfMonitored
    /\ gathered' = {t \in Tasks : TaskState[t] \notin {"off", "none"}}
    /\ CancelAll(Tasks)
    /\ DropHangups(Tasks)
    /\ UNCHANGED <<session, call, agent, caller, records>>

\* The event loop throws CancelledError into the tasks that were cancelled, all in one pass.
CancelDelivered ==
    /\ \E t \in Tasks : IsCancelled(t)
    /\ LET After(t) == IF IsCancelled(t) THEN "ended" ELSE TaskState[t]
       IN  /\ twilio' = After("twilio") /\ deepgram' = After("deepgram")
           /\ duration' = After("duration") /\ finish' = After("finish")
    /\ UNCHANGED <<monitor, main, session, outside, records>>

\* asyncio.gather returns and Deepgram is disconnected.
CloseSession ==
    /\ run = "gathering"
    /\ \A t \in gathered : IsOver(t)
    /\ run' = "closed"
    /\ RunUnchanged

-------------------------------------------------------------------------------
(* The hangups, and the tasks that only wait to ask for one *)

DurationOver ==
    /\ duration = "sleeping"
    /\ duration' = "hanging"
    /\ hangups' = hangups \cup {"duration"}
    /\ UNCHANGED <<monitor, main, twilio, deepgram, finish, session, call, agent, caller, records>>

\* A thread comes back from Twilio.  The duration guard ends either way (an error ends it
\* with an exception), the final hangup logs an error, nobody awaits the silence hangup, nor
\* one whose task was cancelled.
HangupReturns(by) ==
    /\ by \in hangups
    /\ hangups' = hangups \ {by}
    /\ call' \in {call, IF call = "live" THEN "ending" ELSE call}
    /\ duration' = IF by = "duration" /\ duration = "hanging" THEN "ended" ELSE duration
    /\ finish' = IF by = "finish" /\ finish = "hanging" THEN "ended" ELSE finish
    /\ UNCHANGED <<monitor, main, twilio, deepgram, session, agent, caller, records>>

MonitorPrompts ==
    \/ /\ Expire
       /\ prompts' = IF prompts < 2 THEN prompts + 1 ELSE prompts
       /\ UNCHANGED <<main, twilio, deepgram, duration, finish, session, outside,
                      heard, opening, owed, gaveUp>>
    \/ /\ Reprompted
       /\ UNCHANGED <<main, twilio, deepgram, duration, finish, session, outside, records>>

\* _silence_hangup runs inside the monitor's task, and the first thing it does, stop(),
\* cancels that task: the hangup is asked for, and dropped unless a thread picks it up at once.
SilenceHangup ==
    /\ GoodbyeSent
    /\ Stop
    /\ hangups' \in {hangups, hangups \cup {"silence"}}
    /\ UNCHANGED <<main, twilio, deepgram, duration, finish, session, call, agent, caller, records>>

-------------------------------------------------------------------------------
(* _listen_twilio *)

\* Mutant: what the caller said before Deepgram was ready is replayed to it.
TwilioMedia_Replayed ==
    /\ twilio = "on" /\ deepgram \in {"on", "replying"}
    /\ heard' = TRUE
    /\ UNCHANGED <<monitor, main, twilio, deepgram, duration, finish, session, outside,
                   opening, prompts, owed, gaveUp>>

\* A frame of the caller's audio; those that come before `forward` is set are discarded.
TwilioMedia ==
    /\ twilio = "on" /\ forward
    /\ heard' = TRUE
    /\ UNCHANGED <<monitor, main, twilio, deepgram, duration, finish, session, outside,
                   opening, prompts, owed, gaveUp>>

\* Twilio has played everything sent before the mark.
TwilioMark ==
    /\ twilio = "on" /\ call # "ended"
    /\ finish = "mark"
    /\ finish' = "marked"
    /\ UNCHANGED <<monitor, main, twilio, deepgram, duration, session, outside, records>>

\* "stop", which comes when the call has ended.
TwilioStop ==
    /\ twilio = "on" /\ call = "ended"
    /\ twilio' = "ended"
    /\ UNCHANGED <<monitor, main, deepgram, duration, finish, session, outside, records>>

\* The stream breaks, brings a frame that cannot be read, or Deepgram takes no more audio.
TwilioBreaks ==
    /\ twilio = "on"
    /\ twilio' = "ended"
    /\ UNCHANGED <<monitor, main, deepgram, duration, finish, session, outside, records>>

-------------------------------------------------------------------------------
(* _listen_deepgram *)

SettingsApplied ==
    /\ deepgram = "on" /\ ~applied
    /\ applied' = TRUE
    /\ UNCHANGED <<monitor, main, twilio, deepgram, duration, finish, forward, audioDone, disclosed,
                   deadline, requested, outside, records>>

\* Mutant: new audio does not take back the end of the previous one.
AgentAudio_DoneKept ==
    /\ deepgram = "on" /\ applied
    /\ agent' = "speaking"
    /\ finish' = IF finish \in {"quiet", "grace"} THEN "began" ELSE finish
    /\ owed' = (owed \/ finish \in {"quiet", "grace"})
    /\ opening' = IF opening = "unsaid" THEN "sending" ELSE opening
    /\ UNCHANGED <<monitor, main, twilio, deepgram, duration, session, call, hangups, caller,
                   heard, prompts, gaveUp>>

\* A frame of the agent's speech, passed on to Twilio.
AgentAudio ==
    /\ deepgram = "on" /\ applied
    /\ agent' = "speaking"
    /\ audioDone' = FALSE
    /\ finish' = IF finish \in {"quiet", "grace"} THEN "began" ELSE finish
    /\ owed' = (owed \/ finish \in {"quiet", "grace"})
    /\ opening' = IF opening = "unsaid" THEN "sending" ELSE opening
    /\ UNCHANGED <<monitor, main, twilio, deepgram, duration, applied, forward, disclosed, deadline,
                   requested, call, hangups, caller, heard, prompts, gaveUp>>

AgentAudioDone ==
    /\ deepgram = "on" /\ agent = "speaking"
    /\ agent' = "idle"
    /\ audioDone' = TRUE
    /\ disclosed' = TRUE
    /\ \/ forward /\ NotifyAgentAudioDone
       \/ ~forward /\ UNCHANGED monitor
    /\ finish' = IF finish = "audio" THEN "finished" ELSE finish
    /\ owed' = FALSE
    /\ prompts' = IF prompts = 2 THEN 3 ELSE prompts
    /\ opening' = IF opening = "sending" THEN "sent" ELSE opening
    /\ UNCHANGED <<main, twilio, deepgram, duration, applied, forward, deadline, requested,
                   call, hangups, caller, heard, gaveUp>>

\* The transcript of what the caller said.
UserText ==
    /\ deepgram = "on" /\ heard
    /\ audioDone' = FALSE
    /\ UNCHANGED <<monitor, main, twilio, deepgram, duration, finish, applied, forward, disclosed,
                   deadline, requested, outside, records>>

Protected == ProtectDisclosure /\ ~disclosed /\ deadline = "ahead"

\* The caller interrupts: Deepgram may stop talking, and unless the disclosure is protected
\* Twilio is told to drop what it has not played.
UserStartedSpeaking ==
    /\ deepgram = "on" /\ heard /\ caller = "quiet"
    /\ caller' = "speaking"
    /\ audioDone' = FALSE
    /\ \/ forward /\ NotifyUserStartedSpeaking
       \/ ~forward /\ UNCHANGED monitor
    /\ opening' = IF ~Protected /\ opening = "sending" THEN "cut" ELSE opening
    /\ agent' \in {agent, "idle"}
    /\ owed' = (owed /\ agent' = "speaking")
    /\ prompts' = 0
    /\ UNCHANGED <<main, twilio, deepgram, duration, finish, applied, forward, disclosed, deadline,
                   requested, call, hangups, heard, gaveUp>>

\* Mutant: the monitor goes on while the agent says its last words.
FunctionCall_MonitorGoesOn ==
    /\ deepgram = "on" /\ heard
    /\ deepgram' = "replying"
    /\ requested' = TRUE
    /\ UNCHANGED <<monitor, main, twilio, duration, finish, applied, forward, audioDone, disclosed,
                   deadline, outside, records>>

\* finish_demo: the outcome is recorded, the monitor stopped, and the answer on its way.
FunctionCall ==
    /\ deepgram = "on" /\ heard
    /\ deepgram' = "replying"
    /\ requested' = TRUE
    /\ StopIfMonitored
    /\ UNCHANGED <<main, twilio, duration, finish, applied, forward, audioDone, disclosed,
                   deadline, outside, records>>

\* The answer is sent.  The first time, the final hangup is scheduled.
FunctionReplied ==
    /\ deepgram = "replying"
    /\ deepgram' = "on"
    /\ \/ /\ finish = "none"
          /\ finish' = IF audioDone THEN "quiet" ELSE "talking"
          /\ owed' = (agent = "speaking")
       \/ finish # "none" /\ UNCHANGED <<finish, owed>>
    /\ UNCHANGED <<monitor, main, twilio, duration, session, outside, heard, opening, prompts, gaveUp>>

\* An error event, a handler that raises, or the end of the connection.
DeepgramEnds ==
    /\ deepgram \in {"on", "replying"}
    /\ deepgram' = "ended"
    /\ UNCHANGED <<monitor, main, twilio, duration, finish, session, outside, records>>

-------------------------------------------------------------------------------
(* _hangup_after_playback *)

AskToHangUp ==
    /\ finish' = "hanging"
    /\ hangups' = hangups \cup {"finish"}

\* The mark that follows the last audio; if the stream is gone the wait is given up.
SendMark ==
    \/ finish' = "mark" /\ UNCHANGED <<hangups, gaveUp>>
    \/ AskToHangUp /\ gaveUp' = TRUE

\* The test of _agent_audio_done_is_current
AwaitAudioUnlessDone ==
    \/ audioDone /\ SendMark
    \/ ~audioDone /\ finish' = "audio" /\ UNCHANGED <<hangups, gaveUp>>

FinishUnchanged == UNCHANGED <<monitor, main, twilio, deepgram, duration, session,
                               call, agent, caller, heard, opening, prompts, owed>>

\* The task starts: after silence it gives the agent a moment to say its last words.
FinishStarts ==
    /\ \/ finish = "quiet" /\ finish' = "grace" /\ UNCHANGED <<hangups, gaveUp>>
       \/ finish = "talking" /\ AwaitAudioUnlessDone
    /\ FinishUnchanged

\* The last words have begun, or the moment is over.
GraceOver ==
    /\ finish \in {"grace", "began"}
    /\ AwaitAudioUnlessDone
    /\ FinishUnchanged

\* Mutant: nothing bounds the wait for the end of the audio.
AudioOver_Untimed ==
    /\ finish = "finished" /\ SendMark
    /\ FinishUnchanged

AudioOver ==
    /\ \/ finish = "finished" /\ SendMark
       \/ /\ finish = "audio"
          /\ gaveUp' = TRUE
          /\ \/ finish' = "mark" /\ UNCHANGED hangups
             \/ AskToHangUp
    /\ FinishUnchanged

MarkOver ==
    /\ \/ finish = "marked" /\ UNCHANGED gaveUp
       \/ finish = "mark" /\ gaveUp' = TRUE
    /\ AskToHangUp
    /\ FinishUnchanged

-------------------------------------------------------------------------------
(* The world *)

CallEnds ==
    /\ call # "ended"
    /\ call' = "ended"
    /\ UNCHANGED <<monitor, main, twilio, deepgram, duration, finish, session, hangups, agent, caller,
                   records>>

CallerStops ==
    /\ caller = "speaking"
    /\ caller' = "quiet"
    /\ UNCHANGED <<monitor, main, twilio, deepgram, duration, finish, session, call, hangups, agent,
                   records>>

DeadlinePasses ==
    /\ deadline = "ahead"
    /\ deadline' = "passed"
    /\ UNCHANGED <<monitor, main, twilio, deepgram, duration, finish, applied, forward, audioDone,
                   disclosed, requested, outside, records>>

-------------------------------------------------------------------------------
RunNext ==
    \/ Connect \/ Abort \/ GoLive \/ ObserveEnd
    \/ \E t \in Listeners : CancelPending(t)
    \/ LeaveWait \/ CleanUp \/ CloseSession

ListenNext ==
    \/ TwilioMedia \/ TwilioMark \/ TwilioStop \/ TwilioBreaks
    \/ SettingsApplied \/ AgentAudio \/ AgentAudioDone \/ UserText \/ UserStartedSpeaking
    \/ FunctionCall \/ FunctionReplied \/ DeepgramEnds

FinishNext == FinishStarts \/ GraceOver \/ AudioOver \/ MarkOver

Next ==
    \/ RunNext \/ ListenNext \/ FinishNext
    \/ CancelDelivered
    \/ MonitorPrompts \/ SilenceHangup
    \/ DurationOver \/ \E by \in Hangups : HangupReturns(by)
    \/ CallEnds \/ CallerStops \/ DeadlinePasses

\* The event loop runs a task that can proceed, timeouts fire, threads come back, and Twilio
\* says when the call has ended.  Neither Deepgram, nor the caller, nor the duration guard is
\* assumed to do anything.
Fairness ==
    /\ WF_vars(RunNext)
    /\ WF_vars(FinishNext)
    /\ WF_vars(CancelDelivered)
    /\ WF_vars(TwilioStop)
    /\ \A by \in Hangups : WF_vars(HangupReturns(by))

Spec == Init /\ [][Next]_vars /\ Fairness

-------------------------------------------------------------------------------
(* Properties *)

\* Every field and every task is in one of its states, and a task that has not started or
\* is over leaves nothing behind.
TypeOK ==
    /\ MonitorType
    /\ run \in {"connecting", "configuring", "live", "cancelling", "closing", "gathering",
                "closed"}
    /\ gathered \subseteq Tasks
    /\ twilio \in {"on", "cancelled", "ended"}
    /\ deepgram \in {"off", "on", "replying", "cancelled", "ended"}
    /\ duration \in {"off", "sleeping", "hanging", "cancelled", "ended"}
    /\ finish \in FinishPhase
    /\ {applied, forward, audioDone, disclosed, requested} \subseteq BOOLEAN
    /\ deadline \in {"unset", "ahead", "passed"}
    /\ call \in {"live", "ending", "ended"}
    /\ hangups \subseteq Hangups
    /\ agent \in {"idle", "speaking"}
    /\ caller \in {"quiet", "speaking"}
    /\ opening \in {"unsaid", "sending", "sent", "cut"}
    /\ {heard, owed, gaveUp} \subseteq BOOLEAN
    /\ prompts \in 0..3

\* Before its deadline, barge-in drops nothing of a protected disclosure that Deepgram is
\* still sending: whatever the caller says, nothing can make Deepgram believe in an interruption
\* before the deadline is set (run, _listen_twilio, UserStartedSpeaking).  What was sent and
\* Twilio has not played yet is not protected (voice_agent.py:239).
DisclosureIsProtected ==
    [][opening' = "cut" /\ opening # "cut" => ~ProtectDisclosure \/ deadline = "passed"]_vars

\* The monitor hangs up only on a caller who was prompted twice without a word in between,
\* and never once finish_demo was called (silence_monitor.py against _handle_function_call).
SilenceHangsUpOnSilence ==
    [][("silence" \in hangups' \ hangups) => prompts >= 2 /\ ~requested]_vars

\* Once finish_demo was called the monitor is silent for good, so it cannot talk over the
\* last words or hang up before them, whatever Deepgram still sends.
MonitorYieldsToFinish == requested => timer = "none"

\* Unless a timeout gave up on it, the final hangup comes after the utterance that was under
\* way when finish_demo was answered, or that began within the grace period.
FinalWordsArePlayed ==
    finish \in {"mark", "marked", "hanging"} /\ ~gaveUp => ~owed

\* When run() has returned, no task of the session is left to prompt, hang up or write: no
\* listener, until its cancellation, started a final hangup that the finally block does not
\* know of, and nothing armed the monitor again (run, _handle_function_call, SilenceMonitor).
NothingOutlivesSession ==
    run = "closed" =>
        /\ \A t \in Tasks : IsOver(t)
        /\ timer = "none"

\* The final hangup is asked for whatever Deepgram and Twilio leave out.
FinishCompletes == finish \in {"quiet", "talking"} ~> finish = "ended"

\* The session ends with the call, and after the maximum duration even if the hangup fails.
SessionEnds == call = "ended" \/ duration = "hanging" ~> run = "closed"

\* silence_monitor.py:22-25: "on the second it says goodbye and ends the call".  The code
\* does not wait for the goodbye to be spoken.
GoodbyeIsSpoken == "silence" \in hangups => prompts = 3

===============================================================================
