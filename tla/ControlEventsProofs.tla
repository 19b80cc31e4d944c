------------------------ MODULE ControlEventsProofs -------------------------
(***************************************************************************)
(* What a kill in the middle of an event's read can do to the tray, and    *)
(* what it cannot, proved for ControlEvents. StopRestarts, which the code  *)
(* does not keep, says that it can do harm; the theorems say when.         *)
(***************************************************************************)
EXTENDS ControlEvents, TLAPS

TypeOK ==
    /\ flag \subseteq Event
    /\ holder \in [Event -> {"none", "worker", "dead"}]
    /\ worker \in DOMAIN Reads \cup {"dead", "list", "task", "sleep"}
    /\ tray \in DOMAIN Does \cup {"idle", "spawn", "exec", "gone",
                                  "stop_terminate", "exit_terminate", "reset_terminate"}
    /\ named \in BOOLEAN

(* The events whose lock went with a worker.                               *)
Lost == {e \in Event : holder[e] = "dead"}

(* A living holder is inside the read of that event.                       *)
Reading(e) == worker \in DOMAIN Reads /\ Reads[worker] = e
HeldByRead == \A e \in Event : holder[e] = "worker" => Reading(e)

(* What may still be lost at each point between a kill and the menu: every *)
(* call of the tray that returns has had the lock it asked for.            *)
LostAt(place) ==
    {e \in Event :
        \/ place \in {"start", "exit_again", "reset_exit"}
        \/ place \in {"spawn", "label", "gone", "exec"} /\ e # "stop"
        \/ place = "paused" /\ e = "pause"}

(* There is no worker between a kill and the next start.                   *)
Bereft == {"start", "spawn", "exit_again", "reset_exit", "gone", "exec"}

EventsInv ==
    /\ TypeOK
    /\ HeldByRead
    /\ Lost \subseteq LostAt(tray)
    /\ tray \in Bereft => worker = "dead"

(* The menu is there only while every event can be had: a lock that a kill *)
(* has taken along stops the tray before it comes back to the user, and    *)
(* never shows at a later click.                                           *)
MenuUnharmed == tray = "idle" => Lost = {}

(* A callback the user has started waits for nothing but a read the living *)
(* worker is in, and ends with that read.                                  *)
FromTheMenu == {"toggle", "toggle_release", "release", "resume", "resume_release", "exit"}
WaitsForAReadOnly ==
    tray \in FromTheMenu =>
        LET e == Does[tray].event IN holder[e] = "none" \/ (holder[e] = "worker" /\ Reading(e))

-----------------------------------------------------------------------------
LEMMA EventsInit == Init => EventsInv
  BY DEF Init, EventsInv, TypeOK, HeldByRead, Reading, Lost, LostAt, Does, Event

(* A worker asks for a lock, answers and goes on: it loses none.           *)
LEMMA WorkerEvents ==
  ASSUME EventsInv, WorkerStep
  PROVE  EventsInv'
  <1> USE DEF EventsInv, TypeOK, HeldByRead, Reading, Lost, LostAt, Event, Bereft
  <1>1. CASE Ask
    BY <1>1 DEF Ask, Reads
  <1>2. CASE Answer
    <2>1. /\ worker \in DOMAIN Reads
          /\ worker' \in DOMAIN Reads \cup {"dead", "list", "task", "sleep"}
          /\ holder' = [holder EXCEPT ![Reads[worker]] = "none"]
          /\ named' \in BOOLEAN
          /\ UNCHANGED <<flag, tray>>
      BY <1>2 DEF Answer, Reads, IfSet, IfUnset
    <2> QED
      BY <2>1 DEF Reads
  <1>3. CASE List \/ NameTask \/ Wake
    BY <1>3 DEF List, NameTask, Wake, Reads
  <1> QED
    BY <1>1, <1>2, <1>3 DEF WorkerStep

(* A call of an event that returns shows that its lock was not lost.       *)
LEMMA UseEvents ==
  ASSUME EventsInv, Use
  PROVE  EventsInv'
  <1> USE DEF EventsInv, TypeOK, HeldByRead, Reading, Lost, LostAt, Event, Bereft
  <1>1. /\ tray \in DOMAIN Does
        /\ Does[tray].event \in Event
        /\ holder[Does[tray].event] = "none"
        /\ tray' \in {Does[tray].next} \cup {IfSetTray[p] : p \in {tray} \cap DOMAIN IfSetTray}
        /\ UNCHANGED <<holder, worker, named>>
    BY DEF Use, Does
  <1>2. flag' \subseteq Event
    BY DEF Use, Does
  <1>3. /\ tray' \in DOMAIN Does \cup {"idle", "spawn", "gone", "exec", "exit_terminate"}
        /\ tray' \in Bereft => tray \in Bereft
        /\ \A e \in LostAt(tray) : e = Does[tray].event \/ e \in LostAt(tray')
    BY <1>1 DEF Does, IfSetTray
  <1> QED
    BY <1>1, <1>2, <1>3

(* A kill may lose any lock; a click finds none lost and a new tray none.  *)
LEMMA TrayEvents ==
  ASSUME EventsInv, Spawn \/ Terminate \/ NewTray \/ ToggleRelease \/ StopCurrentRun \/ Exit \/ Reset
  PROVE  EventsInv'
  <1> USE DEF EventsInv, TypeOK, HeldByRead, Reading, Lost, LostAt, Event, Bereft
  <1>1. CASE Spawn
    BY <1>1 DEF Spawn, Reads, Does
  <1>2. CASE Terminate
    BY <1>2 DEF Terminate, Reads, Does
  <1>3. CASE NewTray
    BY <1>3 DEF NewTray, Does
  <1>4. CASE ToggleRelease \/ StopCurrentRun \/ Exit \/ Reset
    BY <1>4 DEF ToggleRelease, StopCurrentRun, Exit, Reset, Callback, Does
  <1> QED
    BY <1>1, <1>2, <1>3, <1>4

LEMMA EventsInvariance == Spec => []EventsInv
  <1>1. EventsInv /\ UNCHANGED vars => EventsInv'
    BY DEF vars, EventsInv, TypeOK, HeldByRead, Reading, Lost, LostAt, Bereft
  <1>2. EventsInv /\ [Next]_vars => EventsInv'
    BY <1>1, WorkerEvents, UseEvents, TrayEvents DEF Next, TrayStep
  <1> QED
    BY <1>2, EventsInit, PTL DEF Spec

(* The kill of Stop current run can hang the callback it is made in, on    *)
(* stop_event.clear() or on reading the label, and nothing after it: with  *)
(* the menu back, no event is broken.                                      *)
THEOREM MenuStaysWhole == Spec => []MenuUnharmed
  <1>1. EventsInv => MenuUnharmed
    BY DEF EventsInv, MenuUnharmed, LostAt
  <1> QED
    BY <1>1, EventsInvariance, PTL

(* The release toggle and Exit, until its kill, are held up only by a read *)
(* in progress, never by an event an earlier kill has broken.              *)
THEOREM ClicksAreAnswered == Spec => []WaitsForAReadOnly
  <1>1. EventsInv => WaitsForAReadOnly
    <2> SUFFICES ASSUME EventsInv, tray \in FromTheMenu
                 PROVE  LET e == Does[tray].event
                        IN  holder[e] = "none" \/ (holder[e] = "worker" /\ Reading(e))
      BY DEF WaitsForAReadOnly
    <2>1. Does[tray].event \in Event /\ LostAt(tray) = {}
      BY DEF FromTheMenu, Does, Event, LostAt
    <2> QED
      BY <2>1 DEF EventsInv, TypeOK, HeldByRead, Lost
  <1> QED
    BY <1>1, EventsInvariance, PTL
=============================================================================
