--------------------------- MODULE ActivityLogger ---------------------------
(***************************************************************************)
(* activity_logger (engine/activity_logger.cpp) and its user, the LEDs of  *)
(* the status bar (interface/statusbar.cpp).                               *)
(*                                                                         *)
(* Threads that move data record how much; the first amount after a pause  *)
(* has to wake the status bar, which then polls with a timer until it      *)
(* finds no activity.  The amounts are atomics outside of mtx_, so an      *)
(* addition may fall between the two exchanges of extract_amounts and      *)
(* between the two stores of set_notifier.                                 *)
(***************************************************************************)
EXTENDS Integers

CONSTANTS
    Recorders,  \* threads that call record
    MaxRecords  \* bound: calls of record

ASSUME RecordBound == MaxRecords \in Nat

Directions == {"send", "recv"}

VARIABLES
    amounts,   \* amounts_
    waiting,   \* waiting_
    notifier,  \* notification_cb_ is set
    recorder,  \* where each thread is in record
    bar,       \* what the thread of the status bar does under mtx_
    left,      \* the atomics it has not cleared yet
    found,     \* the directions in which it has found activity
    calls,     \* calls of OnActivity on their way
    activityTimer, \* it runs
    leds,      \* the LEDs that are lit
    records    \* number of calls of record

loggerVars == <<amounts, waiting, notifier, recorder, bar, left, found, calls, activityTimer,
                leds, records>>

-----------------------------------------------------------------------------
(* record: the addition, and if the amount was zero the critical section   *)
Record(r, d) ==
    /\ recorder[r] = "idle"
    /\ records < MaxRecords
    /\ records' = records + 1
    /\ amounts' = [amounts EXCEPT ![d] = @ + 1]
    /\ recorder' = [recorder EXCEPT ![r] = IF amounts[d] = 0 THEN "first" ELSE "idle"]
    /\ UNCHANGED <<waiting, notifier, bar, left, found, calls, activityTimer, leds>>

(* mutant: waiting_ is tested before the mutex is taken *)
NotifyUnlocked(r) ==
    /\ recorder[r] = "first"
    /\ recorder' = [recorder EXCEPT ![r] = "idle"]
    /\ waiting' = FALSE
    /\ calls' = IF waiting /\ notifier THEN calls + 1 ELSE calls
    /\ UNCHANGED <<amounts, notifier, bar, left, found, activityTimer, leds, records>>

Notify(r) ==
    /\ recorder[r] = "first" /\ bar = "idle"
    /\ recorder' = [recorder EXCEPT ![r] = "idle"]
    /\ waiting' = FALSE
    /\ calls' = IF waiting /\ notifier THEN calls + 1 ELSE calls
    /\ UNCHANGED <<amounts, notifier, bar, left, found, activityTimer, leds, records>>

-----------------------------------------------------------------------------
(* The thread of the status bar.                                           *)

(* The constructor calls set_notifier.                                     *)
SetNotifier ==
    /\ bar = "idle" /\ ~notifier
    /\ notifier' = TRUE
    /\ bar' = "set"
    /\ left' = Directions
    /\ found' = {}
    /\ UNCHANGED <<amounts, waiting, recorder, calls, activityTimer, leds, records>>

(* OnActivity, invoked by the notifier or by the timer                     *)
OnActivity ==
    /\ bar = "idle"
    /\ \/ calls > 0 /\ calls' = calls - 1
       \/ activityTimer /\ UNCHANGED calls
    /\ bar' = "extract"
    /\ left' = Directions
    /\ found' = {}
    /\ UNCHANGED <<amounts, waiting, notifier, recorder, activityTimer, leds, records>>

(* One of the two exchanges, whose order C++ leaves open, or stores.       *)
Clear(d) ==
    /\ d \in left
    /\ left' = left \ {d}
    /\ amounts' = [amounts EXCEPT ![d] = 0]
    /\ found' = IF amounts[d] > 0 THEN found \cup {d} ELSE found
    /\ UNCHANGED <<waiting, notifier, recorder, bar, calls, activityTimer, leds, records>>

NotifierSet ==
    /\ bar = "set" /\ left = {}
    /\ bar' = "idle"
    /\ waiting' = TRUE
    /\ UNCHANGED <<amounts, notifier, recorder, left, found, calls, activityTimer, leds, records>>

(* mutant: without activity the LEDs are left alone *)
ShowActivityKeepsLeds ==
    /\ bar = "extract" /\ left = {}
    /\ bar' = "idle"
    /\ leds' = IF found = {} THEN leds ELSE found
    /\ activityTimer' = (found # {})
    /\ waiting' = (waiting \/ found = {})
    /\ UNCHANGED <<amounts, notifier, recorder, left, found, calls, records>>

ShowActivity ==
    /\ bar = "extract" /\ left = {}
    /\ bar' = "idle"
    /\ leds' = found
    /\ activityTimer' = (found # {})
    /\ waiting' = (waiting \/ found = {})
    /\ UNCHANGED <<amounts, notifier, recorder, left, found, calls, records>>

-----------------------------------------------------------------------------
LoggerInit ==
    /\ amounts = [d \in Directions |-> 0]
    /\ waiting = FALSE /\ notifier = FALSE
    /\ recorder = [r \in Recorders |-> "idle"]
    /\ bar = "idle" /\ left = {} /\ found = {}
    /\ calls = 0 /\ activityTimer = FALSE /\ leds = {} /\ records = 0

Bar == SetNotifier \/ OnActivity \/ (\E d \in Directions : Clear(d)) \/ NotifierSet \/ ShowActivity

LoggerNext ==
    \/ Bar
    \/ \E r \in Recorders : Notify(r) \/ \E d \in Directions : Record(r, d)

LoggerSpec == LoggerInit /\ [][LoggerNext]_loggerVars

(* The status bar is created, its calls and its timer are served and every *)
(* thread leaves its critical section.                                     *)
LoggerFairSpec == LoggerSpec /\ WF_loggerVars(Bar) /\ \A r \in Recorders : WF_loggerVars(Notify(r))

-----------------------------------------------------------------------------
(* Types.                                                                  *)
LoggerTypeOK ==
    /\ amounts \in [Directions -> Nat]
    /\ waiting \in BOOLEAN /\ notifier \in BOOLEAN /\ activityTimer \in BOOLEAN
    /\ recorder \in [Recorders -> {"idle", "first"}]
    /\ bar \in {"idle", "set", "extract"}
    /\ left \subseteq Directions /\ found \subseteq Directions /\ leds \subseteq Directions
    /\ calls \in Nat /\ records \in 0 .. MaxRecords

(* Activity that the status bar has not seen will be seen: it is polling,  *)
(* a call is on its way or a recording thread is about to make one.        *)
ActivityIsNoticed ==
    notifier /\ (\E d \in Directions : amounts[d] > 0) =>
        \/ activityTimer \/ calls > 0 \/ bar # "idle"
        \/ \E r \in Recorders : recorder[r] = "first"

(* When all traffic stops, the LEDs go out and polling ends.               *)
LedsGoOut == <>[](leds = {} /\ ~activityTimer /\ calls = 0 /\ waiting)
=============================================================================
