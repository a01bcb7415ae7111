------------------------------ MODULE TaskModel ------------------------------
(***************************************************************************)
(* The vocabulary of src/src/bond_mcp/models.py and the translation of     *)
(* carrier statuses shared by the MCP server, the relay and the callback   *)
(* runtime.  Nothing here has state.                                       *)
(***************************************************************************)

(***************************************************************************)
(* TaskState, less "detected", "needs_input" and "ready_for_review": no    *)
(* line of the program ever builds a PhoneResult with one of those three.  *)
(***************************************************************************)
TaskState ==
    {"confirmed", "dialing", "in_progress",
     "completed", "no_answer", "declined", "failed", "cancelled"}

TERMINAL_STATES == {"completed", "no_answer", "declined", "failed", "cancelled"}

(***************************************************************************)
(* What the carrier can say of a call it accepted.  "ringing" stands for   *)
(* queued, initiated and ringing, which every table maps alike.            *)
(***************************************************************************)
UnansweredEndings == {"busy", "no-answer", "canceled", "failed"}
CarrierEndings    == UnansweredEndings \cup {"completed"}
CarrierLive       == {"ringing", "in-progress"}
CarrierStatus     == CarrierLive \cup CarrierEndings

\* A table that calls a busy line a completed conversation.
MapStatus_BusyIsCompleted(s) ==
    CASE s = "ringing"     -> "dialing"
      [] s = "in-progress" -> "in_progress"
      [] s = "completed"   -> "completed"
      [] s = "busy"        -> "completed"
      [] s = "no-answer"   -> "no_answer"
      [] s = "canceled"    -> "cancelled"
      [] s = "failed"      -> "failed"

\* A table without an entry for the no-answer ending: the lookup finds nothing and the
\* row is left as it was, here still dialing.
MapStatus_NoAnswerMissing(s) ==
    CASE s \in {"ringing", "no-answer"} -> "dialing"
      [] s = "in-progress" -> "in_progress"
      [] s = "completed"   -> "completed"
      [] s = "busy"        -> "declined"
      [] s = "canceled"    -> "cancelled"
      [] s = "failed"      -> "failed"

\* A table with the entries of a busy line and of no answer in each other's place.
MapStatus_BusyForNoAnswer(s) ==
    CASE s = "ringing"     -> "dialing"
      [] s = "in-progress" -> "in_progress"
      [] s = "completed"   -> "completed"
      [] s = "busy"        -> "no_answer"
      [] s = "no-answer"   -> "declined"
      [] s = "canceled"    -> "cancelled"
      [] s = "failed"      -> "failed"

(***************************************************************************)
(* The mapping tables of the status webhook, of the server's refresh and   *)
(* of the relay's refresh, on the spellings Twilio uses.                   *)
(***************************************************************************)
MapStatus(s) ==
    CASE s = "ringing"     -> "dialing"
      [] s = "in-progress" -> "in_progress"
      [] s = "completed"   -> "completed"
      [] s = "busy"        -> "declined"
      [] s = "no-answer"   -> "no_answer"
      [] s = "canceled"    -> "cancelled"
      [] s = "failed"      -> "failed"
==============================================================================
