----------------------------- MODULE ManagerTask -----------------------------
(***************************************************************************)
(* The manager process of ports/aros/task/manager_task.c and the           *)
(* application task that starts it, asks it for scans and stops it.  The   *)
(* two share struct bt_aros_manager_task and wake each other with Exec     *)
(* signals.                                                                *)
(*                                                                         *)
(* The process has priority 1, so the application, at priority 0, runs     *)
(* only while the process waits: a pass of the loop is one step, and so is *)
(* the end of the process; but the process may start to run between any    *)
(* two steps of the application, and it waits during its teardown.         *)
(***************************************************************************)
EXTENDS Naturals

CONSTANTS
  CanFail,     \* may the manager fail while the process runs?
  MaxRuns,     \* bound on the number of processes started
  MaxRequests  \* bound on the number of scans asked for

ASSUME ManagerTaskAssumption ==
  CanFail \in BOOLEAN /\ MaxRuns \in Nat /\ MaxRequests \in Nat

VARIABLES
  app,        \* where the application is in start, stop or a request
  proc,       \* where the process is
  task,       \* task->task is not NULL
  single,     \* SIGF_SINGLE of the application
  signals,    \* signals pending at the process
  startup,    \* startup_status
  requested,  \* the kinds with le_scan_requested or inquiry_requested set
  status,     \* kind -> le_scan_status or inquiry_status
  timerOpen,  \* timer.device is open
  ioOpen,     \* the transport is open
  runs,       \* history: processes started
  requests    \* history: requests made

Kinds == {"le_scan", "inquiry"}

taskVars == <<app, proc, task, single, signals, startup, requested, status, timerOpen, ioOpen,
          runs, requests>>

TaskInit ==
  /\ app = "idle" /\ proc = "none" /\ task = FALSE /\ single = FALSE /\ signals = {}
  /\ startup = "INVALID" /\ requested = {} /\ status = [k \in Kinds |-> "OK"]
  /\ timerOpen = FALSE /\ ioOpen = FALSE /\ runs = 0 /\ requests = 0

-----------------------------------------------------------------------------
(* Fault: a SIGF_SINGLE left over from an earlier process is not cleared. *)
CallStartKeepsSignal ==
  /\ app = "idle" /\ ~task /\ runs < MaxRuns
  /\ app' = "starting" /\ proc' = "created" /\ runs' = runs + 1
  /\ UNCHANGED <<task, single, signals, startup, requested, status, timerOpen, ioOpen,
                 requests>>

(* bt_aros_manager_task_start up to its Wait; when no process can be        *)
(* created it returns and nothing has changed but the signal.               *)
CallStart ==
  /\ app = "idle" /\ ~task /\ runs < MaxRuns
  /\ single' = FALSE
  /\ \/ app' = "starting" /\ proc' = "created" /\ runs' = runs + 1
     \/ UNCHANGED <<app, proc, runs>>
  /\ UNCHANGED <<task, signals, startup, requested, status, timerOpen, ioOpen, requests>>

StartReturns ==
  /\ app = "starting" /\ single
  /\ single' = FALSE
  /\ app' = "idle"
  /\ UNCHANGED <<proc, task, signals, startup, requested, status, timerOpen, ioOpen, runs,
                 requests>>

(* request_le_scan and request_inquiry: the check of task->task, the        *)
(* request under Forbid, and the signal.                                    *)
CallRequest ==
  /\ app = "idle" /\ task /\ requests < MaxRequests
  /\ app' = "requesting"
  /\ requests' = requests + 1
  /\ UNCHANGED <<proc, task, single, signals, startup, requested, status, timerOpen, ioOpen,
                 runs>>

SetRequest ==
  /\ app = "requesting"
  /\ \E k \in Kinds : /\ requested' = requested \cup {k}
                       /\ status' = [status EXCEPT ![k] = "INVALID"]
  /\ app' = "requested"
  /\ UNCHANGED <<proc, task, single, signals, startup, timerOpen, ioOpen, runs, requests>>

(* Signal(task->task, ...); once the process is gone the signal goes        *)
(* nowhere.                                                                 *)
SignalProcess(sig) == signals' = IF task THEN signals \cup {sig} ELSE signals

SignalRequest ==
  /\ app = "requested"
  /\ SignalProcess("CTRL_F")
  /\ app' = "idle"
  /\ UNCHANGED <<proc, task, single, startup, requested, status, timerOpen, ioOpen, runs,
                 requests>>

(* bt_aros_manager_task_stop: the check, SetSignal, Signal and Wait. *)
CallStop ==
  /\ app = "idle" /\ task
  /\ app' = "stopping"
  /\ UNCHANGED <<proc, task, single, signals, startup, requested, status, timerOpen, ioOpen,
                 runs, requests>>

ClearSingle ==
  /\ app = "stopping"
  /\ single' = FALSE
  /\ app' = "cleared"
  /\ UNCHANGED <<proc, task, signals, startup, requested, status, timerOpen, ioOpen, runs,
                 requests>>

SignalStop ==
  /\ app = "cleared"
  /\ SignalProcess("CTRL_C")
  /\ app' = "waiting"
  /\ UNCHANGED <<proc, task, single, startup, requested, status, timerOpen, ioOpen, runs,
                 requests>>

StopReturns ==
  /\ app = "waiting" /\ single
  /\ single' = FALSE
  /\ app' = "idle"
  /\ UNCHANGED <<proc, task, signals, startup, requested, status, timerOpen, ioOpen, runs,
                 requests>>

-----------------------------------------------------------------------------
(* manager_process up to its loop: the timer and the manager come up.  A    *)
(* transport that is still open cannot be opened again.                     *)
ProcessStarts ==
  /\ proc = "created"
  /\ ~ioOpen
  /\ task' = TRUE /\ signals' = {}
  /\ timerOpen' = TRUE /\ ioOpen' = TRUE
  /\ startup' = "OK"
  /\ single' = TRUE
  /\ proc' = "loop"
  /\ UNCHANGED <<app, requested, status, runs, requests>>

(* The timer or the manager does not come up.  bt_manager_stop is not       *)
(* called: when the first command fails at once the transport stays open.   *)
ProcessFails ==
  /\ proc = "created"
  /\ task' = TRUE /\ signals' = {}
  /\ startup' = "ERROR"
  /\ \/ timerOpen' = FALSE /\ UNCHANGED ioOpen
     \/ timerOpen' = TRUE /\ ioOpen' \in {ioOpen, TRUE}
  /\ proc' = "closing"
  /\ UNCHANGED <<app, single, requested, status, runs, requests>>

(* The tick comes due; it is armed before the loop and again by every pass  *)
(* that serves it.                                                          *)
TimerFires ==
  /\ proc = "loop" /\ "TIMER" \notin signals
  /\ signals' = signals \cup {"TIMER"}
  /\ UNCHANGED <<app, proc, task, single, startup, requested, status, timerOpen, ioOpen, runs,
                 requests>>

(* Fault: requests are looked at only when their signal came. *)
ServedOnSignal == IF "CTRL_F" \in signals THEN requested ELSE {}

(* Every pass serves what has been requested, whatever woke it. *)
Served == requested

(* One pass of the loop: poll, serve the requests, tick, and leave on       *)
(* CTRL_C or when the manager has failed.                                   *)
Pass ==
  /\ proc = "loop" /\ signals # {}
  /\ signals' = {}
  /\ requested' = requested \ Served
  /\ \E result \in [Served -> {"OK", "REFUSED"}] :
       status' = [k \in Kinds |-> IF k \in Served THEN result[k] ELSE status[k]]
  /\ \/ "CTRL_C" \in signals /\ proc' = "stopping"
     \/ CanFail /\ proc' = "stopping"
     \/ "CTRL_C" \notin signals /\ UNCHANGED proc
  /\ UNCHANGED <<app, task, single, startup, timerOpen, ioOpen, runs, requests>>

(* bt_manager_stop, which waits for the transport to give up its requests.  *)
StopManager ==
  /\ proc = "stopping"
  /\ ioOpen' = FALSE
  /\ proc' = "closing"
  /\ UNCHANGED <<app, task, single, signals, startup, requested, status, timerOpen, runs,
                 requests>>

(* close_timer, which waits for the timer request. *)
CloseTimer ==
  /\ proc = "closing"
  /\ timerOpen' = FALSE
  /\ proc' = "ending"
  /\ UNCHANGED <<app, task, single, signals, startup, requested, status, ioOpen, runs,
                 requests>>

(* Fault: the process does not clear task->task. *)
ProcessEndsKeepsTask ==
  /\ proc = "ending"
  /\ single' = TRUE
  /\ proc' = "none"
  /\ UNCHANGED <<app, task, signals, startup, requested, status, timerOpen, ioOpen, runs,
                 requests>>

(* task->task = NULL; Signal(task->creator, SIGF_SINGLE) *)
ProcessEnds ==
  /\ proc = "ending"
  /\ task' = FALSE
  /\ single' = TRUE
  /\ proc' = "none"
  /\ UNCHANGED <<app, signals, startup, requested, status, timerOpen, ioOpen, runs, requests>>

-----------------------------------------------------------------------------
InCall == StartReturns \/ SetRequest \/ SignalRequest \/ ClearSingle \/ SignalStop
          \/ StopReturns
Application == CallStart \/ CallRequest \/ CallStop \/ InCall
Process == ProcessStarts \/ ProcessFails \/ Pass \/ StopManager \/ CloseTimer \/ ProcessEnds

TaskNext == Application \/ Process \/ TimerFires

(* Both tasks are scheduled, so the process runs whenever it can and the    *)
(* application finishes the calls it makes, and an armed tick comes due.    *)
TaskFairness == WF_taskVars(Process) /\ WF_taskVars(InCall) /\ WF_taskVars(TimerFires)

TaskSpec == TaskInit /\ [][TaskNext]_taskVars /\ TaskFairness

-----------------------------------------------------------------------------
(* Every variable stays in its type, and task->task is NULL exactly while   *)
(* no process runs.                                                         *)
TaskTypeOK ==
  /\ app \in {"idle", "starting", "requesting", "requested", "stopping", "cleared", "waiting"}
  /\ proc \in {"none", "created", "loop", "stopping", "closing", "ending"}
  /\ task = (proc \notin {"none", "created"}) /\ single \in BOOLEAN
  /\ signals \subseteq {"CTRL_C", "CTRL_F", "TIMER"}
  /\ startup \in {"INVALID", "OK", "ERROR"}
  /\ requested \subseteq Kinds /\ status \in [Kinds -> {"INVALID", "OK", "REFUSED"}]
  /\ timerOpen \in BOOLEAN /\ ioOpen \in BOOLEAN
  /\ runs \in 0..MaxRuns /\ requests \in 0..MaxRequests

(* When bt_aros_manager_task_stop returns, the process it waited for has    *)
(* closed its timer and its transport and is gone ("waits until all I/O has *)
(* been torn down").                                                        *)
StopTearsDown ==
  app = "waiting" /\ app' = "idle" => proc = "none" /\ ~task /\ ~timerOpen /\ ~ioOpen

(* bt_aros_manager_task_start returns the result of the process it created, *)
(* never one left by an earlier process or an earlier signal: after BT_OK   *)
(* the process has run its start-up, after an error it is gone.             *)
StartIsConclusive ==
  app = "starting" /\ app' = "idle" =>
    /\ proc # "created"
    /\ startup = "OK" \/ (startup = "ERROR" /\ proc = "none")

(* A request that has not been served reads as not started: the caller      *)
(* never sees the result of an earlier request ("Not BT_OK: the caller      *)
(* reads this back to learn whether the inquiry started").                  *)
StatusIsHonest == \A k \in requested : status[k] = "INVALID"

(* bt_aros_manager_task_stop returns if the process is still there when it  *)
(* has cleared SIGF_SINGLE, wherever the process is in its loop or in its   *)
(* teardown.                                                                *)
StopReturnsInTime == (app \in {"cleared", "waiting"} /\ task) ~> (app = "idle")

(* bt_aros_manager_task_stop returns. *)
StopAlwaysReturns == (app = "stopping") ~> (app = "idle")

(* A request is served as long as the process stays in its loop, even one   *)
(* whose signal went to a process that had ended.                           *)
RequestIsServed ==
  \A k \in Kinds : (k \in requested /\ proc = "loop") ~> (k \notin requested \/ proc # "loop")

(* What a call tells the application is about that call: nothing is left    *)
(* over from an earlier process, signal or request.                         *)
CallsAreConclusive == [][StartIsConclusive /\ StopTearsDown /\ StatusIsHonest']_taskVars

(* What the application asks of a process that is there happens: requests   *)
(* are served, and a stop that found the process returns.                   *)
CallsAreServed == RequestIsServed /\ StopReturnsInTime
=============================================================================
