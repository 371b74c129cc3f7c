------------------------------- MODULE LocEng -------------------------------
(***************************************************************************)
(* The location engine of the GPS HAL, gps/loc_api/libloc_api/loc_eng.cpp  *)
(* (with the XTRA buffer of loc_eng_xtra.cpp).                             *)
(*                                                                         *)
(* Three threads work on loc_eng_data:                                     *)
(*   - the framework's, which calls the HAL (init, start, stop, cleanup,   *)
(*     delete_aiding_data, the AGPS data_conn_* calls, inject_xtra_data);  *)
(*   - the RPC callback thread, which runs loc_event_cb for every event of *)
(*     the modem and may not block;                                        *)
(*   - the deferred-action thread, to which both hand work by setting a    *)
(*     flag and signalling deferred_action_cond.                           *)
(*                                                                         *)
(* A critical section of deferred_action_mutex, deferred_stop_mutex or     *)
(* mute_session_lock is one step.  Fields that are read or written outside *)
(* the locks (engine_status, fix_session_status, aiding_data_for_deletion, *)
(* navigating, the XTRA buffer) are accessed in steps of their own.        *)
(***************************************************************************)
EXTENDS Integers, FiniteSets

CONSTANTS
  Kinds,      \* the kinds of modem events that occur
  Calls,      \* the HAL calls that the framework makes
  Conns,      \* AGPS connection handles of the modem (non-zero)
  RpcFails,   \* may an RPC to the modem fail?
  MaxEvents,  \* bound on the number of modem events
  MaxCalls,   \* bound on the number of HAL calls
  MaxInits    \* bound on the number of loc_eng_init calls

AllKinds == {"engine_on", "engine_off", "session_begin", "session_end",
             "position", "assist_request", "server_open", "server_close",
             "ni_override"}

AllCalls == {"start", "stop", "cleanup", "delete_aiding", "xtra_init",
             "inject_xtra"}

ASSUME LocEngAssumption ==
  /\ Kinds \subseteq AllKinds
  /\ Calls \subseteq AllCalls
  /\ Conns \subseteq Nat \ {0}
  /\ RpcFails \in BOOLEAN
  /\ MaxEvents \in Nat
  /\ MaxCalls \in Nat
  /\ MaxInits \in Nat

ServerKinds == {"server_open", "server_close"}

(* A modem event: its kind and, for a location server request, the         *)
(* connection that it is about.                                            *)
Event == [kind: AllKinds \ ServerKinds, conn: {0}]
           \cup [kind: ServerKinds, conn: Conns]

NoEvent == [kind |-> "none", conn |-> 0]

EngineStatus == {"none", "engine_on", "engine_off"}

SessionStatus == {"none", "session_begin", "session_end"}

AGpsStatus == {"none", "request", "release"}

Flags == {"EVENT", "DELETE_AIDING", "AGPS_STATUS", "DATA_SUCCESS",
          "DATA_CLOSED", "DATA_FAILED", "QUIT"}

DataFlags == {"DATA_SUCCESS", "DATA_CLOSED", "DATA_FAILED"}

VARIABLES
  loc_eng_inited,
  loc_eng_data,  \* the module's data, one field per field used here
  last_status,   \* the static variable of loc_inform_gps_status
  wakelock,      \* is the wake lock of the HAL held?
  thread,        \* the deferred-action thread and its local variables
  hal,           \* the framework's thread
  rpc,           \* the event that loc_event_cb has checked and not yet posted
  modem,         \* the client, fix, engine and connections of the modem
  provider,      \* what GpsLocationProvider was told, wants and owes
  overwritten,   \* history: an event was replaced before the thread took it
  events, calls, inits   \* how many there were

vars == <<loc_eng_inited, loc_eng_data, last_status, wakelock, thread, hal, rpc,
          modem, provider, overwritten, events, calls, inits>>

DataType ==
  [client_opened: BOOLEAN, navigating: BOOLEAN,
   engine_status: EngineStatus, fix_session_status: SessionStatus,
   mute_session_state: {"NONE", "WAIT", "IN_SESSION"},
   deferred_action_flags: SUBSET Flags, loc_event: Event \cup {NoEvent},
   agps_status: AGpsStatus, conn_handle: Conns \cup {0},
   agps_request_pending: BOOLEAN, stop_request_pending: BOOLEAN,
   data_connection_is_on: BOOLEAN, aiding_data_for_deletion: BOOLEAN,
   xtra_data_for_injection: BOOLEAN, request_pending: BOOLEAN,
   download_request_cb: BOOLEAN]

(* What memset and the assignments of loc_eng_init leave. *)
InitialData ==
  [client_opened |-> FALSE, navigating |-> FALSE,
   engine_status |-> "none", fix_session_status |-> "none",
   mute_session_state |-> "NONE",
   deferred_action_flags |-> {}, loc_event |-> NoEvent,
   agps_status |-> "none", conn_handle |-> 0,
   agps_request_pending |-> FALSE, stop_request_pending |-> FALSE,
   data_connection_is_on |-> FALSE, aiding_data_for_deletion |-> FALSE,
   xtra_data_for_injection |-> FALSE, request_pending |-> FALSE,
   download_request_cb |-> FALSE]

ThreadLabels == {"none", "start", "top", "waiting", "woken", "event",
                 "inform_engine", "inform_session", "status_post", "delete",
                 "delete_done", "xtra", "data", "deferred_stop", "atl", "quit"}

(* The locals of the thread: its copies of the shared fields, and the      *)
(* status before loc_eng_report_status changed it.                         *)
ThreadType ==
  [pc: ThreadLabels, loc_event: Event \cup {NoEvent}, flags: SUBSET Flags,
   engine_status: EngineStatus, aiding: BOOLEAN, status: AGpsStatus,
   old_engine: EngineStatus, old_session: SessionStatus]

ThreadAt(pc) ==
  [pc |-> pc, loc_event |-> NoEvent, flags |-> {}, engine_status |-> "none",
   aiding |-> FALSE, status |-> "none", old_engine |-> "none",
   old_session |-> "none"]

HalLabels == {"idle", "init", "stop_check", "stop_fix", "stop_end", "close",
              "quit", "join", "xtra_signal"}

ConnStates == {"idle", "opening", "open", "closing"}

ModemType == [client: BOOLEAN, fix: BOOLEAN, engine: BOOLEAN,
              conn: [Conns -> ConnStates]]

ProviderType == [engine: EngineStatus, session: SessionStatus,
                 wants: BOOLEAN, owes: AGpsStatus]

TypeOK ==
  /\ loc_eng_inited \in BOOLEAN
  /\ loc_eng_data \in DataType
  /\ last_status \in EngineStatus \cup SessionStatus
  /\ wakelock \in BOOLEAN
  /\ thread \in ThreadType
  /\ hal \in [pc: HalLabels, in_cleanup: BOOLEAN]
  /\ rpc \in Event \cup {NoEvent}
  /\ modem \in ModemType
  /\ provider \in ProviderType
  /\ overwritten \in BOOLEAN
  /\ events \in 0 .. MaxEvents
  /\ calls \in 0 .. MaxCalls
  /\ inits \in 0 .. MaxInits

(* The process has started and loc_eng_init has not been called. *)
Init ==
  /\ loc_eng_inited = FALSE
  /\ loc_eng_data = InitialData
  /\ last_status = "none"
  /\ wakelock = FALSE
  /\ thread = ThreadAt("none")
  /\ hal = [pc |-> "idle", in_cleanup |-> FALSE]
  /\ rpc = NoEvent
  /\ modem = [client |-> FALSE, fix |-> FALSE, engine |-> FALSE,
              conn |-> [c \in Conns |-> "idle"]]
  /\ provider = [engine |-> "none", session |-> "none", wants |-> FALSE,
                 owes |-> "none"]
  /\ overwritten = FALSE
  /\ events = 0
  /\ calls = 0
  /\ inits = 0

counters == <<events, calls, inits>>

(* pthread_cond_signal(&deferred_action_cond) *)
Signal ==
  thread' = IF thread.pc = "waiting" THEN [thread EXCEPT !.pc = "woken"]
            ELSE thread

(* Mutant: the wake lock is not taken. *)
PostNoWakelock(data, flag) ==
  /\ loc_eng_data' = [data EXCEPT !.deferred_action_flags = @ \cup {flag}]
  /\ UNCHANGED wakelock

(* acquire_wakelock_cb() and deferred_action_flags |= flag *)
Post(data, flag) ==
  /\ loc_eng_data' = [data EXCEPT !.deferred_action_flags = @ \cup {flag}]
  /\ wakelock' = TRUE

(* What the provider knows after status_cb: ENGINE_OFF implies SESSION_END *)
(* and SESSION_BEGIN implies ENGINE_ON.                                    *)
Told(p, status) ==
  CASE status = "engine_on" -> [p EXCEPT !.engine = "engine_on"]
    [] status = "engine_off" -> [p EXCEPT !.engine = "engine_off",
                                          !.session = "session_end"]
    [] status = "session_begin" -> [p EXCEPT !.engine = "engine_on",
                                             !.session = "session_begin"]
    [] status = "session_end" -> [p EXCEPT !.session = "session_end"]
    [] OTHER -> p

(* loc_inform_gps_status *)
Inform(status) ==
  /\ provider' = IF status = "engine_on" /\ last_status = "session_begin"
                 THEN Told(Told(provider, status), "session_begin")
                 ELSE Told(provider, status)
  /\ last_status' = status

InformIf(condition, status) ==
  IF condition THEN Inform(status) ELSE UNCHANGED <<provider, last_status>>

(* The possible results of an RPC: without a client it fails. *)
RpcResults ==
  CASE ~ modem.client -> {FALSE}
    [] modem.client /\ RpcFails -> BOOLEAN
    [] modem.client /\ ~ RpcFails -> {TRUE}

-----------------------------------------------------------------------------
(* The modem and the RPC callback thread.                                  *)

(* What the modem does when it reports e; it reports changes only. *)
Reports(e) ==
  CASE e.kind = "engine_on" -> /\ ~ modem.engine
                               /\ modem' = [modem EXCEPT !.engine = TRUE]
    [] e.kind = "engine_off" -> /\ modem.engine
                                /\ modem' = [modem EXCEPT !.engine = FALSE]
    [] e.kind = "session_begin" -> /\ modem.fix
                                   /\ modem' = [modem EXCEPT !.engine = TRUE]
    [] e.kind = "server_open" ->
         /\ modem.conn[e.conn] = "idle"
         /\ modem' = [modem EXCEPT !.conn[e.conn] = "opening"]
    [] e.kind = "server_close" ->
         /\ modem.conn[e.conn] = "open"
         /\ modem' = [modem EXCEPT !.conn[e.conn] = "closing"]
    [] OTHER -> UNCHANGED modem

(* loc_event_cb is called, and returns at once when loc_eng_init has not   *)
(* finished.                                                               *)
EventArrives(e) ==
  /\ rpc = NoEvent
  /\ modem.client
  /\ e.kind \in Kinds
  /\ events < MaxEvents
  /\ events' = events + 1
  /\ Reports(e)
  /\ rpc' = IF loc_eng_inited THEN e ELSE NoEvent
  /\ UNCHANGED <<loc_eng_inited, loc_eng_data, last_status, wakelock, thread,
                 hal, provider, overwritten, calls, inits>>

(* Mutant: the thread is not signalled. *)
LocEventCbNoSignal ==
  /\ rpc # NoEvent
  /\ Post([loc_eng_data EXCEPT !.loc_event = rpc], "EVENT")
  /\ UNCHANGED thread
  /\ rpc' = NoEvent
  /\ overwritten' = (overwritten \/ "EVENT" \in loc_eng_data.deferred_action_flags)
  /\ UNCHANGED <<loc_eng_inited, last_status, hal, modem, provider, counters>>

(* loc_event_cb posts the event: there is room for one. *)
LocEventCb ==
  /\ rpc # NoEvent
  /\ Post([loc_eng_data EXCEPT !.loc_event = rpc], "EVENT")
  /\ Signal
  /\ rpc' = NoEvent
  /\ overwritten' = (overwritten \/ "EVENT" \in loc_eng_data.deferred_action_flags)
  /\ UNCHANGED <<loc_eng_inited, last_status, hal, modem, provider, counters>>

-----------------------------------------------------------------------------
(* The deferred-action thread.                                             *)

Goto(pc) == thread' = [thread EXCEPT !.pc = pc]

(* The thread starts (and unlocks the engine, an IOCTL whose result is not *)
(* looked at).                                                             *)
ThreadStart ==
  /\ thread.pc = "start"
  /\ Goto("top")
  /\ UNCHANGED <<loc_eng_inited, loc_eng_data, last_status, wakelock, hal, rpc,
                 modem, provider, overwritten, counters>>

(* Nothing to do: give up the wake lock and wait. *)
ThreadWait ==
  /\ thread.pc = "top"
  /\ loc_eng_data.deferred_action_flags = {}
  /\ wakelock' = FALSE
  /\ Goto("waiting")
  /\ UNCHANGED <<loc_eng_inited, loc_eng_data, last_status, hal, rpc, modem,
                 provider, overwritten, counters>>

SpuriousWakeup ==
  /\ thread.pc = "waiting"
  /\ Goto("woken")
  /\ UNCHANGED <<loc_eng_inited, loc_eng_data, last_status, wakelock, hal, rpc,
                 modem, provider, overwritten, counters>>

(* The thread holds the mutex and does not wait (any longer). *)
ThreadRuns ==
  \/ /\ thread.pc = "top"
     /\ loc_eng_data.deferred_action_flags # {}
     /\ UNCHANGED wakelock
  \/ /\ thread.pc = "woken"
     /\ wakelock' = TRUE

SeeQuit ==
  /\ ThreadRuns
  /\ "QUIT" \in loc_eng_data.deferred_action_flags
  /\ Goto("quit")
  /\ UNCHANGED <<loc_eng_inited, loc_eng_data, last_status, hal, rpc, modem,
                 provider, overwritten, counters>>

(* Copy what is needed and release the mutex. *)
TakeActions ==
  /\ ThreadRuns
  /\ "QUIT" \notin loc_eng_data.deferred_action_flags
  /\ thread' = [ThreadAt(IF loc_eng_data.loc_event = NoEvent THEN "delete"
                         ELSE "event") EXCEPT
                  !.loc_event = loc_eng_data.loc_event,
                  !.flags = loc_eng_data.deferred_action_flags,
                  !.engine_status = loc_eng_data.engine_status,
                  !.aiding = loc_eng_data.aiding_data_for_deletion,
                  !.status = loc_eng_data.agps_status]
  /\ loc_eng_data' = [loc_eng_data EXCEPT !.loc_event = NoEvent,
                                          !.deferred_action_flags = {},
                                          !.agps_status = "none"]
  /\ UNCHANGED <<loc_eng_inited, last_status, hal, rpc, modem, provider,
                 overwritten, counters>>

-----------------------------------------------------------------------------
(* loc_eng_process_loc_event *)

Processes(kinds) ==
  /\ thread.pc = "event"
  /\ thread.loc_event.kind \in kinds

EventDone(pc) == thread' = [thread EXCEPT !.pc = pc, !.loc_event = NoEvent,
                                          !.old_engine = "none",
                                          !.old_session = "none"]

(* A pending XTRA download is requested as soon as there is a callback to  *)
(* do it with; this is looked at once per event, whatever the event.       *)
RequestDownload(data) ==
  [data EXCEPT !.request_pending = @ /\ ~ data.download_request_cb]

(* Mutants: the session status lands in engine_status, which has the same  *)
(* C type; the engine goes off and the session stays.                      *)
NewStatusConfused(data, kind) ==
  CASE kind = "engine_on" -> [data EXCEPT !.engine_status = "engine_on"]
    [] kind = "engine_off" -> [data EXCEPT !.engine_status = "engine_off"]
    [] kind = "session_begin" ->
         [data EXCEPT !.engine_status = "session_begin"]
    [] kind = "session_end" -> data

NewStatusKeepsSession(data, kind) ==
  CASE kind = "engine_on" -> [data EXCEPT !.engine_status = "engine_on"]
    [] kind = "engine_off" -> [data EXCEPT !.engine_status = "engine_off"]
    [] kind = "session_begin" ->
         [data EXCEPT !.engine_status = "engine_on",
                      !.fix_session_status = "session_begin"]
    [] kind = "session_end" -> data

NewStatus(data, kind) ==
  CASE kind = "engine_on" -> [data EXCEPT !.engine_status = "engine_on"]
    [] kind = "engine_off" ->
         [data EXCEPT !.engine_status = "engine_off",
                      !.fix_session_status = "session_end"]
    [] kind = "session_begin" ->
         [data EXCEPT !.engine_status = "engine_on",
                      !.fix_session_status = "session_begin"]
    [] kind = "session_end" -> data

StatusKinds == {"engine_on", "engine_off", "session_begin", "session_end"}

(* loc_eng_report_status: remember the old status, set the new one ... *)
ReportStatusSet ==
  /\ Processes(StatusKinds)
  /\ loc_eng_data' = NewStatus(loc_eng_data, thread.loc_event.kind)
  /\ thread' = [thread EXCEPT !.pc = "inform_engine", !.loc_event = NoEvent,
                    !.old_engine = loc_eng_data.engine_status,
                    !.old_session = loc_eng_data.fix_session_status]
  /\ UNCHANGED <<loc_eng_inited, last_status, wakelock, hal, rpc, modem,
                 provider, overwritten, counters>>

(* ... report a changed engine status ... *)
ReportStatusEngine ==
  /\ thread.pc = "inform_engine"
  /\ InformIf(/\ loc_eng_data.fix_session_status # "session_begin"
              /\ thread.old_engine # loc_eng_data.engine_status,
              loc_eng_data.engine_status)
  /\ Goto("inform_session")
  /\ UNCHANGED <<loc_eng_inited, loc_eng_data, wakelock, hal, rpc, modem,
                 overwritten, counters>>

(* ... and a changed session status ... *)
ReportStatusSession ==
  /\ thread.pc = "inform_session"
  /\ InformIf(/\ loc_eng_data.engine_status # "engine_off"
              /\ thread.old_session # loc_eng_data.fix_session_status,
              loc_eng_data.fix_session_status)
  /\ Goto("status_post")
  /\ UNCHANGED <<loc_eng_inited, loc_eng_data, wakelock, hal, rpc, modem,
                 overwritten, counters>>

(* Mutant: the muted session goes on after the engine has gone off. *)
MuteSwitchedForever(data) ==
  IF data.engine_status = "engine_on" /\ data.mute_session_state = "WAIT"
  THEN [data EXCEPT !.mute_session_state = "IN_SESSION"] ELSE data

MuteSwitched(data) ==
  [data EXCEPT !.mute_session_state =
     IF data.engine_status = "engine_on" /\ @ = "WAIT" THEN "IN_SESSION"
     ELSE IF data.engine_status = "engine_off" /\ @ = "IN_SESSION" THEN "NONE"
     ELSE @]

(* Mutant: the thread goes on without looking at what waited for the       *)
(* engine to be off.                                                       *)
ReportStatusNoPost ==
  /\ thread.pc = "status_post"
  /\ loc_eng_data' = RequestDownload(MuteSwitched(loc_eng_data))
  /\ EventDone("delete")
  /\ UNCHANGED <<loc_eng_inited, last_status, wakelock, hal, rpc, modem,
                 provider, overwritten, counters>>

(* ... then switch the muted session and, with the engine off, wake the    *)
(* thread (itself) up for what had to wait for that.                       *)
ReportStatusPost ==
  LET data == RequestDownload(MuteSwitched(loc_eng_data))
  IN /\ thread.pc = "status_post"
     /\ IF /\ data.engine_status # "engine_on"
           /\ data.aiding_data_for_deletion \/ data.xtra_data_for_injection
        THEN Post(data, "DELETE_AIDING")
        ELSE loc_eng_data' = data /\ UNCHANGED wakelock
     /\ EventDone("delete")
     /\ UNCHANGED <<loc_eng_inited, last_status, hal, rpc, modem, provider,
                    overwritten, counters>>

(* A position is reported to the provider unless the session is muted, and *)
(* an assistance data request asks for an XTRA download.                   *)
ReportOther ==
  /\ Processes({"position", "assist_request"})
  /\ loc_eng_data' = RequestDownload([loc_eng_data EXCEPT !.request_pending =
                       @ \/ thread.loc_event.kind = "assist_request"])
  /\ EventDone("delete")
  /\ UNCHANGED <<loc_eng_inited, last_status, wakelock, hal, rpc, modem,
                 provider, overwritten, counters>>

(* loc_eng_process_conn_request *)
ProcessConnRequest ==
  LET open == thread.loc_event.kind = "server_open"
  IN /\ Processes(ServerKinds)
     /\ Post([RequestDownload(loc_eng_data) EXCEPT
                !.agps_status = IF open THEN "request" ELSE "release",
                !.conn_handle = thread.loc_event.conn,
                !.agps_request_pending = open],
             "AGPS_STATUS")
     /\ EventDone("delete")
     /\ UNCHANGED <<loc_eng_inited, last_status, hal, rpc, modem, provider,
                    overwritten, counters>>

(* An NI request that overrides privacy makes loc_eng_ni_callback call     *)
(* loc_eng_mute_one_session.                                               *)
MuteOneSession ==
  /\ Processes({"ni_override"})
  /\ loc_eng_data' = [RequestDownload(loc_eng_data) EXCEPT
                        !.mute_session_state = "WAIT"]
  /\ EventDone("delete")
  /\ UNCHANGED <<loc_eng_inited, last_status, wakelock, hal, rpc, modem,
                 provider, overwritten, counters>>

-----------------------------------------------------------------------------
(* The rest of the thread's loop: what its copies ask for.                 *)

DeletionDue == thread.engine_status # "engine_on" /\ thread.aiding

NoDeletion ==
  /\ thread.pc = "delete"
  /\ ~ DeletionDue
  /\ Goto("xtra")
  /\ UNCHANGED <<loc_eng_inited, loc_eng_data, last_status, wakelock, hal, rpc,
                 modem, provider, overwritten, counters>>

(* loc_eng_delete_aiding_data_action clears the request and sends it ... *)
DeleteAidingDataAction ==
  /\ thread.pc = "delete"
  /\ DeletionDue
  /\ loc_eng_data' = [loc_eng_data EXCEPT !.aiding_data_for_deletion = FALSE]
  /\ Goto("delete_done")
  /\ UNCHANGED <<loc_eng_inited, last_status, wakelock, hal, rpc, modem,
                 provider, overwritten, counters>>

(* ... and when the IOCTL is done the thread clears the request again. *)
DeletionDone ==
  /\ thread.pc = "delete_done"
  /\ loc_eng_data' = [loc_eng_data EXCEPT !.aiding_data_for_deletion = FALSE]
  /\ Goto("xtra")
  /\ UNCHANGED <<loc_eng_inited, last_status, wakelock, hal, rpc, modem,
                 provider, overwritten, counters>>

(* loc_eng_inject_xtra_data_in_buffer takes the buffer and injects it. *)
InjectXtraDataInBuffer ==
  /\ thread.pc = "xtra"
  /\ loc_eng_data' = [loc_eng_data EXCEPT !.xtra_data_for_injection =
                        @ /\ loc_eng_data.engine_status = "engine_on"]
  /\ Goto(IF thread.flags \cap DataFlags = {} THEN "atl" ELSE "data")
  /\ UNCHANGED <<loc_eng_inited, last_status, wakelock, hal, rpc, modem,
                 provider, overwritten, counters>>

(* What the modem makes of RPC_LOC_IOCTL_INFORM_SERVER_OPEN_STATUS and     *)
(* ..._CLOSE_STATUS: one it does not expect changes nothing.               *)
ModemInformed(expected, new) ==
  \E ok \in RpcResults :
    modem' = IF ok /\ modem.conn[loc_eng_data.conn_handle] = expected
             THEN [modem EXCEPT !.conn[loc_eng_data.conn_handle] = new]
             ELSE modem

(* loc_eng_ioctl_data_open_status *)
DataOpenStatus(success) ==
  /\ ModemInformed("opening", IF success THEN "open" ELSE "idle")
  /\ loc_eng_data' = [loc_eng_data EXCEPT !.data_connection_is_on = success]

(* loc_eng_ioctl_data_close_status; the failure path turns the flag off.   *)
DataCloseStatus(success) ==
  /\ ModemInformed("closing", IF success THEN "idle" ELSE "open")
  /\ loc_eng_data' = [loc_eng_data EXCEPT !.data_connection_is_on =
                        @ /\ success]

(* The data connection's outcome is passed on to the modem: of several     *)
(* that are pending, one.                                                  *)
DataStatus ==
  /\ thread.pc = "data"
  /\ \/ "DATA_SUCCESS" \in thread.flags /\ DataOpenStatus(TRUE)
     \/ /\ "DATA_SUCCESS" \notin thread.flags
        /\ "DATA_CLOSED" \in thread.flags
        /\ DataCloseStatus(TRUE)
     \/ /\ thread.flags \cap DataFlags = {"DATA_FAILED"}
        /\ IF loc_eng_data.data_connection_is_on
           THEN DataOpenStatus(FALSE) ELSE DataCloseStatus(FALSE)
  /\ Goto("deferred_stop")
  /\ UNCHANGED <<loc_eng_inited, last_status, wakelock, hal, rpc, provider,
                 overwritten, counters>>

(* Mutant: the AGPS request is done, but a deferred stop is forgotten. *)
DeferredStopForgotten ==
  /\ thread.pc = "deferred_stop"
  /\ loc_eng_data' = [loc_eng_data EXCEPT !.agps_request_pending = FALSE]
  /\ Goto("atl")
  /\ UNCHANGED <<loc_eng_inited, last_status, wakelock, hal, rpc, modem,
                 provider, overwritten, counters>>

(* The AGPS request is done: a stop that waited for it is carried out. *)
DeferredStop ==
  /\ thread.pc = "deferred_stop"
  /\ loc_eng_data' = [loc_eng_data EXCEPT !.agps_request_pending = FALSE]
  /\ \E ok \in RpcResults :
       modem' = [modem EXCEPT !.fix =
                   @ /\ ~ (loc_eng_data.stop_request_pending /\ ok)]
  /\ Goto("atl")
  /\ UNCHANGED <<loc_eng_inited, last_status, wakelock, hal, rpc, provider,
                 overwritten, counters>>

(* loc_eng_process_atl_action hands the connection request to the          *)
(* provider, which owes an answer; the loop ends here.                     *)
AtlAction ==
  /\ thread.pc = "atl"
  /\ provider' = IF thread.status = "none" THEN provider
                 ELSE [provider EXCEPT !.owes = thread.status]
  /\ thread' = ThreadAt("top")
  /\ UNCHANGED <<loc_eng_inited, loc_eng_data, last_status, wakelock, hal, rpc,
                 modem, overwritten, counters>>

(* The thread locks the engine (an IOCTL whose result is not looked at),   *)
(* releases the wake lock and ends.                                        *)
ThreadQuit ==
  /\ thread.pc = "quit"
  /\ wakelock' = FALSE
  /\ thread' = ThreadAt("none")
  /\ UNCHANGED <<loc_eng_inited, loc_eng_data, last_status, hal, rpc, modem,
                 provider, overwritten, counters>>

-----------------------------------------------------------------------------
(* The HAL calls of the framework's thread.                                *)

HalGoto(pc) == hal' = [hal EXCEPT !.pc = pc]

(* loc_eng_init up to loc_open ... *)
LocEngInit ==
  /\ hal.pc = "idle"
  /\ ~ loc_eng_inited
  /\ inits < MaxInits
  /\ inits' = inits + 1
  /\ \E opened \in IF RpcFails THEN BOOLEAN ELSE {TRUE} :
       /\ loc_eng_data' = [InitialData EXCEPT !.client_opened = opened]
       /\ modem' = [modem EXCEPT !.client = opened]
  /\ provider' = [engine |-> "none", session |-> "none", wants |-> FALSE,
                  owes |-> "none"]
  /\ overwritten' = FALSE
  /\ HalGoto("init")
  /\ UNCHANGED <<loc_eng_inited, last_status, wakelock, thread, rpc, events,
                 calls>>

(* ... and to its end: the thread is created and calls are let in. *)
LocEngInited ==
  /\ hal.pc = "init"
  /\ thread' = ThreadAt("start")
  /\ loc_eng_data' = [loc_eng_data EXCEPT !.download_request_cb = FALSE,
                                          !.request_pending = FALSE]
  /\ loc_eng_inited' = TRUE
  /\ HalGoto("idle")
  /\ UNCHANGED <<last_status, wakelock, rpc, modem, provider, overwritten,
                 counters>>

Call(name) ==
  /\ hal.pc = "idle"
  /\ loc_eng_inited
  /\ name \in Calls
  /\ calls < MaxCalls
  /\ calls' = calls + 1

(* loc_eng_start *)
LocEngStart ==
  /\ Call("start")
  /\ \E ok \in RpcResults :
       /\ modem' = [modem EXCEPT !.fix = @ \/ ok]
       /\ loc_eng_data' = [loc_eng_data EXCEPT !.navigating = @ \/ ok]
  /\ provider' = [provider EXCEPT !.wants = TRUE]
  /\ UNCHANGED <<loc_eng_inited, last_status, wakelock, thread, hal, rpc,
                 overwritten, events, inits>>

(* loc_eng_stop is called ... *)
LocEngStop ==
  /\ Call("stop")
  /\ provider' = [provider EXCEPT !.wants = FALSE]
  /\ HalGoto("stop_check")
  /\ UNCHANGED <<loc_eng_inited, loc_eng_data, last_status, wakelock, thread,
                 rpc, modem, overwritten, events, inits>>

AfterStop == IF hal.in_cleanup THEN "close" ELSE "idle"

(* ... defers the stop while an AGPS request is pending ... *)
LocEngStopCheck ==
  /\ hal.pc = "stop_check"
  /\ loc_eng_data' = [loc_eng_data EXCEPT !.stop_request_pending =
                        @ \/ loc_eng_data.agps_request_pending]
  /\ HalGoto(IF loc_eng_data.agps_request_pending THEN AfterStop
             ELSE "stop_fix")
  /\ UNCHANGED <<loc_eng_inited, last_status, wakelock, thread, rpc, modem,
                 provider, overwritten, counters>>

(* ... else stops the fix ... *)
LocEngStopFix ==
  /\ hal.pc = "stop_fix"
  /\ \E ok \in RpcResults :
       /\ modem' = [modem EXCEPT !.fix = @ /\ ~ ok]
       /\ HalGoto(IF ok THEN "stop_end" ELSE AfterStop)
  /\ UNCHANGED <<loc_eng_inited, loc_eng_data, last_status, wakelock, thread,
                 rpc, provider, overwritten, counters>>

(* ... and ends the session. *)
LocEngStopEnd ==
  /\ hal.pc = "stop_end"
  /\ loc_eng_data' = [loc_eng_data EXCEPT !.fix_session_status = "session_end",
                                          !.navigating = FALSE]
  /\ InformIf(/\ loc_eng_data.fix_session_status # "session_end"
              /\ loc_eng_data.engine_status # "engine_off",
              "session_end")
  /\ HalGoto(AfterStop)
  /\ UNCHANGED <<loc_eng_inited, wakelock, thread, rpc, modem, overwritten,
                 counters>>

(* loc_eng_cleanup calls loc_eng_deinit, which stops a running fix ... *)
LocEngCleanup ==
  /\ Call("cleanup")
  /\ provider' = [provider EXCEPT !.wants = FALSE]
  /\ hal' = [pc |-> IF loc_eng_data.navigating THEN "stop_check" ELSE "close",
             in_cleanup |-> TRUE]
  /\ UNCHANGED <<loc_eng_inited, loc_eng_data, last_status, wakelock, thread,
                 rpc, modem, overwritten, events, inits>>

(* ... and closes the client.  A loc_close that succeeds destroys the RPC  *)
(* client, which waits for the callback thread; one that fails does not.   *)
(* The engine goes off unless something else of the modem needs it.        *)
LocEngDeinitClose ==
  /\ hal.pc = "close"
  /\ rpc = NoEvent \/ RpcFails \/ ~ loc_eng_data.client_opened
  /\ loc_eng_data' = [loc_eng_data EXCEPT !.navigating = FALSE,
                                          !.client_opened = FALSE]
  /\ \E stays \in BOOLEAN :
       modem' = [modem EXCEPT !.client = FALSE, !.fix = FALSE,
                              !.engine = @ /\ stays,
                              !.conn = [c \in Conns |-> "idle"]]
  /\ loc_eng_inited' = FALSE
  /\ HalGoto("quit")
  /\ UNCHANGED <<last_status, wakelock, thread, rpc, provider, overwritten,
                 counters>>

(* Mutant: the thread is told to quit without a signal. *)
LocEngCleanupQuitNoSignal ==
  /\ hal.pc = "quit"
  /\ Post(loc_eng_data, "QUIT")
  /\ HalGoto("join")
  /\ UNCHANGED <<loc_eng_inited, last_status, thread, rpc, modem, provider,
                 overwritten, counters>>

(* Then loc_eng_cleanup tells the thread to quit ... *)
LocEngCleanupQuit ==
  /\ hal.pc = "quit"
  /\ Post(loc_eng_data, "QUIT")
  /\ Signal
  /\ HalGoto("join")
  /\ UNCHANGED <<loc_eng_inited, last_status, rpc, modem, provider, overwritten,
                 counters>>

(* ... and waits for its end. *)
LocEngCleanupJoin ==
  /\ hal.pc = "join"
  /\ thread.pc = "none"
  /\ hal' = [pc |-> "idle", in_cleanup |-> FALSE]
  /\ UNCHANGED <<loc_eng_inited, loc_eng_data, last_status, wakelock, thread,
                 rpc, modem, provider, overwritten, counters>>

(* loc_eng_delete_aiding_data *)
LocEngDeleteAidingData ==
  LET data == [loc_eng_data EXCEPT !.aiding_data_for_deletion = TRUE]
  IN /\ Call("delete_aiding")
     /\ IF loc_eng_data.engine_status # "engine_on"
        THEN Post(data, "DELETE_AIDING") /\ Signal
        ELSE loc_eng_data' = data /\ UNCHANGED <<wakelock, thread>>
     /\ UNCHANGED <<loc_eng_inited, last_status, hal, rpc, modem, provider,
                    overwritten, events, inits>>

(* qct_loc_eng_xtra_init *)
XtraInit ==
  /\ Call("xtra_init")
  /\ loc_eng_data' = [loc_eng_data EXCEPT !.download_request_cb = TRUE]
  /\ UNCHANGED <<loc_eng_inited, last_status, wakelock, thread, hal, rpc, modem,
                 provider, overwritten, events, inits>>

(* qct_loc_eng_inject_xtra_data_proxy buffers the data ... *)
InjectXtraDataProxy ==
  /\ Call("inject_xtra")
  /\ loc_eng_data' = [loc_eng_data EXCEPT !.xtra_data_for_injection = TRUE]
  /\ HalGoto("xtra_signal")
  /\ UNCHANGED <<loc_eng_inited, last_status, wakelock, thread, rpc, modem,
                 provider, overwritten, events, inits>>

(* ... and signals the thread, without a flag and without the mutex. *)
InjectXtraDataSignal ==
  /\ hal.pc = "xtra_signal"
  /\ IF loc_eng_data.engine_status # "engine_on" THEN Signal
     ELSE UNCHANGED thread
  /\ HalGoto("idle")
  /\ UNCHANGED <<loc_eng_inited, loc_eng_data, last_status, wakelock, rpc,
                 modem, provider, overwritten, counters>>

(* The provider answers a connection request: what the three data_conn     *)
(* calls have in common.                                                   *)
Answer(owed, data, flag) ==
  /\ hal.pc = "idle"
  /\ loc_eng_inited
  /\ provider.owes = owed
  /\ provider' = [provider EXCEPT !.owes = "none"]
  /\ Post(data, flag)
  /\ Signal
  /\ UNCHANGED <<loc_eng_inited, last_status, hal, rpc, modem, overwritten,
                 counters>>

(* loc_eng_data_conn_open, which sets the APN *)
DataConnOpen ==
  Answer("request", [loc_eng_data EXCEPT !.data_connection_is_on = TRUE],
         "DATA_SUCCESS")

(* loc_eng_data_conn_failed *)
DataConnFailed == Answer("request", loc_eng_data, "DATA_FAILED")

(* loc_eng_data_conn_closed *)
DataConnClosed == Answer("release", loc_eng_data, "DATA_CLOSED")

-----------------------------------------------------------------------------
ThreadStep ==
  \/ ThreadStart \/ ThreadWait \/ SeeQuit \/ TakeActions
  \/ ReportStatusSet \/ ReportStatusEngine \/ ReportStatusSession
  \/ ReportStatusPost \/ ReportOther \/ ProcessConnRequest \/ MuteOneSession
  \/ NoDeletion \/ DeleteAidingDataAction \/ DeletionDone
  \/ InjectXtraDataInBuffer \/ DataStatus \/ DeferredStop \/ AtlAction
  \/ ThreadQuit

(* The framework's thread inside a call. *)
HalStep ==
  \/ LocEngInited \/ LocEngStopCheck \/ LocEngStopFix \/ LocEngStopEnd
  \/ LocEngDeinitClose \/ LocEngCleanupQuit \/ LocEngCleanupJoin
  \/ InjectXtraDataSignal

HalCall ==
  \/ LocEngInit \/ LocEngStart \/ LocEngStop \/ LocEngCleanup
  \/ LocEngDeleteAidingData \/ XtraInit \/ InjectXtraDataProxy

ProviderAnswers == DataConnOpen \/ DataConnFailed \/ DataConnClosed

Next ==
  \/ \E e \in Event : EventArrives(e)
  \/ LocEventCb
  \/ ThreadStep
  \/ SpuriousWakeup
  \/ HalStep
  \/ HalCall
  \/ ProviderAnswers

Spec == Init /\ [][Next]_vars

(* Threads are scheduled; the provider answers the connection requests it  *)
(* is handed, as loc_eng_report_agps_status expects of it.  Nothing makes  *)
(* the modem report or the framework call.                                 *)
FairSpec ==
  /\ Spec
  /\ WF_vars(LocEventCb)
  /\ WF_vars(ThreadStep)
  /\ WF_vars(HalStep)
  /\ WF_vars(ProviderAnswers)

-----------------------------------------------------------------------------
(* Work never waits without a wake lock, and the thread never sleeps on    *)
(* work or on a wake lock: "hold a wake lock while events are pending for  *)
(* deferred_action_thread", "do not hold a wake lock while waiting for an  *)
(* event".  Posting, waiting and quitting are steps of different threads.  *)
WakelockMatchesWork ==
  /\ thread.pc # "none" /\ loc_eng_data.deferred_action_flags # {} => wakelock
  /\ thread.pc = "waiting" =>
       ~ wakelock /\ loc_eng_data.deferred_action_flags = {}

(* Aiding data whose deletion was asked for waits for the engine to be     *)
(* off, and for nothing else: with the engine not on, the thread does not  *)
(* sleep on it, whatever the order of the request, the engine's report and *)
(* the thread's steps.                                                     *)
AidingNotStranded ==
  thread.pc = "waiting" /\ loc_eng_data.aiding_data_for_deletion =>
    loc_eng_data.engine_status = "engine_on"

(* The engine going off ends the session and the muting of it, whatever    *)
(* came in between; loc_eng_report_status needs several steps for it.      *)
OffEndsSession ==
  /\ loc_eng_data.fix_session_status = "session_begin" =>
       loc_eng_data.engine_status = "engine_on"
  /\ /\ thread.pc \notin {"inform_engine", "inform_session", "status_post"}
     /\ loc_eng_data.mute_session_state = "IN_SESSION"
     => loc_eng_data.engine_status = "engine_on"

(* Between events the provider's picture of the engine and of the session, *)
(* put together from the statuses that loc_inform_gps_status let through,  *)
(* is the HAL's.                                                           *)
ProviderInSync ==
  thread.pc \in {"top", "waiting"} /\ hal.pc = "idle" /\ loc_eng_inited =>
    /\ provider.engine = loc_eng_data.engine_status
    /\ provider.session = loc_eng_data.fix_session_status

(* When everything is quiet the HAL knows whether the engine is on, unless *)
(* loc_event_cb has replaced an event that the thread had not taken.       *)
EngineStatusCurrent ==
  /\ thread.pc = "waiting"
  /\ rpc = NoEvent
  /\ loc_eng_data.engine_status # "none"
  /\ ~ overwritten
  => (loc_eng_data.engine_status = "engine_on") = modem.engine

(* An open client's fix is stopped only while the provider wants it to be. *)
StopOnlyIfWanted ==
  [][modem.fix /\ ~ modem'.fix /\ modem'.client => ~ provider.wants]_vars

(* A stop that loc_eng_stop deferred is never stranded: while the fix runs *)
(* on, a connection request or the answer to one is still on its way       *)
(* through the modem's event, the thread, the provider or the flags, and   *)
(* will come to the step that stops the fix.                               *)
DeferredStopNotStranded ==
  /\ loc_eng_data.stop_request_pending
  /\ modem.fix
  /\ ~ provider.wants
  /\ hal.pc = "idle"
  => \/ loc_eng_data.agps_status # "none"
     \/ thread.status # "none"
     \/ provider.owes # "none"
     \/ loc_eng_data.deferred_action_flags \cap DataFlags # {}
     \/ thread.flags \cap DataFlags # {}

(* A stop takes effect: at once, or when the AGPS request is done. *)
StopTakesEffect ==
  hal.pc = "stop_check" ~> ~ modem.fix \/ provider.wants

(* loc_eng_cleanup returns: the thread sees QUIT whatever it was doing. *)
CleanupReturns ==
  hal.in_cleanup ~> hal.pc = "idle"

(* A request to delete aiding data is carried out, unless the engine is    *)
(* turned on or the HAL cleaned up.                                        *)
DeletionHappens ==
  loc_eng_data.aiding_data_for_deletion ~>
    \/ ~ loc_eng_data.aiding_data_for_deletion
    \/ loc_eng_data.engine_status = "engine_on"
    \/ ~ loc_eng_inited
=============================================================================
