---------------------------- MODULE LocEngProofs ----------------------------
(***************************************************************************)
(* LocEng for every number of events, calls, lifetimes and connections:    *)
(* the wake lock and the thread's sleep match the pending work, no request *)
(* to delete aiding data is slept on, and the engine going off ends the    *)
(* session and its muting.                                                 *)
(***************************************************************************)
EXTENDS LocEng, TLAPS

(* The HAL calls and the life of the thread: there is no thread before     *)
(* loc_eng_init has finished nor after loc_eng_cleanup has.                *)
LifeInv ==
  /\ ~ loc_eng_inited /\ hal.pc \in {"idle", "init"} => thread.pc = "none"
  /\ hal.pc = "init" =>
       ~ loc_eng_inited /\ ~ loc_eng_data.aiding_data_for_deletion
  /\ hal.pc \in {"stop_check", "stop_fix", "stop_end", "close", "xtra_signal"}
       => loc_eng_inited

(* WakelockMatchesWork, with the state in which the thread is about to be  *)
(* created.                                                                *)
WakeInv ==
  /\ thread.pc # "none" \/ hal.pc = "init" =>
       (loc_eng_data.deferred_action_flags # {} => wakelock)
  /\ thread.pc = "waiting" =>
       ~ wakelock /\ loc_eng_data.deferred_action_flags = {}

Reporting == {"inform_engine", "inform_session", "status_post"}

(* A deletion that could be done has its flag set, or the thread has seen  *)
(* it and not yet come to it, or loc_eng_report_status is going to look.   *)
AidInv ==
  /\ thread.pc \notin Reporting \cup {"none", "quit"}
  /\ loc_eng_data.aiding_data_for_deletion
  /\ loc_eng_data.engine_status # "engine_on"
  => \/ "DELETE_AIDING" \in loc_eng_data.deferred_action_flags
     \/ thread.pc \in {"event", "delete"} /\ DeletionDue

(* OffEndsSession, with what a muted session knows of the engine while its *)
(* report is being worked on.                                              *)
OffInv ==
  /\ OffEndsSession
  /\ loc_eng_data.mute_session_state = "IN_SESSION" =>
       loc_eng_data.engine_status # "none"

(* The inductive invariant. *)
EngInv == TypeOK /\ LifeInv /\ WakeInv /\ AidInv /\ OffInv

(* The initial state satisfies it. *)
LEMMA InitEng == Init => EngInv
<1> SUFFICES ASSUME Init PROVE EngInv
  OBVIOUS
<1>1. loc_eng_data \in DataType
  BY DEF Init, InitialData, DataType, EngineStatus, SessionStatus, AGpsStatus
<1>2. thread \in ThreadType
  BY DEF Init, ThreadAt, ThreadType, ThreadLabels, EngineStatus, SessionStatus,
         AGpsStatus
<1>3. modem \in ModemType /\ provider \in ProviderType
  BY DEF Init, ModemType, ConnStates, ProviderType, EngineStatus,
         SessionStatus, AGpsStatus
<1>4. TypeOK
  <2>1. hal \in [pc: HalLabels, in_cleanup: BOOLEAN]
    BY DEF Init, HalLabels
  <2>2. events \in 0 .. MaxEvents /\ calls \in 0 .. MaxCalls
          /\ inits \in 0 .. MaxInits
    BY LocEngAssumption DEF Init
  <2>3. /\ loc_eng_inited \in BOOLEAN /\ wakelock \in BOOLEAN
        /\ overwritten \in BOOLEAN
    BY DEF Init
  <2>4. last_status \in EngineStatus \cup SessionStatus
          /\ rpc \in Event \cup {NoEvent}
    BY DEF Init, EngineStatus
  <2>5. QED
    BY <1>1, <1>2, <1>3, <2>1, <2>2, <2>3, <2>4 DEF TypeOK
<1>5. LifeInv /\ WakeInv /\ AidInv /\ OffInv
  BY DEF Init, LifeInv, WakeInv, AidInv, OffInv, OffEndsSession, InitialData,
         ThreadAt
<1>6. QED
  BY <1>4, <1>5 DEF EngInv

(* One type at a time: what the helpers return is well typed. *)
LEMMA ThreadAtType ==
  ASSUME NEW pc \in ThreadLabels
  PROVE ThreadAt(pc) \in ThreadType
  BY DEF ThreadAt, ThreadType, ThreadLabels, EngineStatus, SessionStatus,
         AGpsStatus

(* pthread_cond_signal changes nothing but the label of a waiting thread. *)
LEMMA SignalKeeps ==
  ASSUME thread \in ThreadType, Signal
  PROVE /\ thread' \in ThreadType
        /\ thread.pc = "waiting" => thread' = [thread EXCEPT !.pc = "woken"]
        /\ thread.pc # "waiting" => thread' = thread
  BY DEF Signal, ThreadType, ThreadLabels

(* Posting work takes the wake lock. *)
LEMMA PostKeeps ==
  ASSUME NEW data \in DataType, NEW flag \in Flags, Post(data, flag)
  PROVE /\ loc_eng_data' \in DataType
        /\ loc_eng_data' = [data EXCEPT !.deferred_action_flags = @ \cup {flag}]
        /\ wakelock' = TRUE
        /\ flag \in loc_eng_data'.deferred_action_flags
        /\ data.deferred_action_flags \subseteq loc_eng_data'.deferred_action_flags
  BY DEF Post, DataType

(* What the provider knows after a report is well typed. *)
LEMMA ToldType ==
  ASSUME NEW p \in ProviderType, NEW status
  PROVE Told(p, status) \in ProviderType
<1>1. CASE status = "engine_on"
  BY <1>1 DEF Told, ProviderType, EngineStatus
<1>2. CASE status = "engine_off"
  BY <1>2 DEF Told, ProviderType, EngineStatus, SessionStatus
<1>3. CASE status = "session_begin"
  BY <1>3 DEF Told, ProviderType, EngineStatus, SessionStatus
<1>4. CASE status = "session_end"
  BY <1>4 DEF Told, ProviderType, SessionStatus
<1>5. CASE status \notin {"engine_on", "engine_off", "session_begin",
                         "session_end"}
  BY <1>5 DEF Told
<1>6. QED
  BY <1>1, <1>2, <1>3, <1>4, <1>5

(* loc_inform_gps_status keeps the types. *)
LEMMA InformKeeps ==
  ASSUME provider \in ProviderType,
         last_status \in EngineStatus \cup SessionStatus,
         NEW condition, NEW status \in EngineStatus \cup SessionStatus,
         InformIf(condition, status)
  PROVE /\ provider' \in ProviderType
        /\ last_status' \in EngineStatus \cup SessionStatus
<1>1. CASE condition
  BY <1>1, ToldType DEF InformIf, Inform
<1>2. CASE ~ condition
  BY <1>2 DEF InformIf
<1>3. QED
  BY <1>1, <1>2

(* What loc_eng_init leaves is well typed. *)
LEMMA InitialDataType == InitialData \in DataType
  BY DEF InitialData, DataType, EngineStatus, SessionStatus, AGpsStatus

(* request_pending stays a flag when a request is added ... *)
LEMMA RequestPendingType ==
  ASSUME NEW data \in DataType, NEW p
  PROVE [data EXCEPT !.request_pending = @ \/ p] \in DataType
<1>1. CASE data.request_pending \/ p
  <2>1. [data EXCEPT !.request_pending = @ \/ p]
          = [data EXCEPT !.request_pending = TRUE]
    BY <1>1 DEF DataType
  <2>2. QED
    BY <2>1 DEF DataType
<1>2. CASE ~ (data.request_pending \/ p)
  <2>1. [data EXCEPT !.request_pending = @ \/ p]
          = [data EXCEPT !.request_pending = FALSE]
    BY <1>2 DEF DataType
  <2>2. QED
    BY <2>1 DEF DataType
<1>3. QED
  BY <1>1, <1>2

(* ... and when the download is requested. *)
LEMMA RequestDownloadType ==
  ASSUME NEW data \in DataType
  PROVE RequestDownload(data) \in DataType
<1>1. CASE data.request_pending /\ ~ data.download_request_cb
  <2>1. RequestDownload(data) = [data EXCEPT !.request_pending = TRUE]
    BY <1>1 DEF RequestDownload, DataType
  <2>2. QED
    BY <2>1 DEF DataType
<1>2. CASE ~ (data.request_pending /\ ~ data.download_request_cb)
  <2>1. RequestDownload(data) = [data EXCEPT !.request_pending = FALSE]
    BY <1>2 DEF RequestDownload, DataType
  <2>2. QED
    BY <2>1 DEF DataType
<1>3. QED
  BY <1>1, <1>2

(* Switching the muted session keeps the types. *)
LEMMA MuteSwitchedType ==
  ASSUME NEW data \in DataType
  PROVE MuteSwitched(data) \in DataType
  BY DEF MuteSwitched, DataType

(* So does a change of one connection of the modem ... *)
LEMMA ConnType ==
  ASSUME modem \in ModemType, NEW c, NEW s \in ConnStates
  PROVE [modem EXCEPT !.conn[c] = s] \in ModemType
  BY DEF ModemType

(* ... a report of the modem ... *)
LEMMA ReportsType ==
  ASSUME modem \in ModemType, NEW e, Reports(e)
  PROVE modem' \in ModemType
<1>1. CASE e.kind \in {"engine_on", "engine_off", "session_begin"}
  BY <1>1 DEF Reports, ModemType
<1>2. CASE e.kind = "server_open"
  BY <1>2, ConnType DEF Reports, ConnStates
<1>3. CASE e.kind = "server_close"
  BY <1>3, ConnType DEF Reports, ConnStates
<1>4. CASE e.kind \notin {"engine_on", "engine_off", "session_begin",
                         "server_open", "server_close"}
  BY <1>4 DEF Reports
<1>5. QED
  BY <1>1, <1>2, <1>3, <1>4

(* ... and the outcome of a connection that is passed on to it. *)
LEMMA ModemInformedType ==
  ASSUME modem \in ModemType, NEW expected, NEW new \in ConnStates,
         ModemInformed(expected, new)
  PROVE modem' \in ModemType
<1>1. \/ modem' = modem
      \/ modem' = [modem EXCEPT !.conn[loc_eng_data.conn_handle] = new]
  BY DEF ModemInformed
<1>2. [modem EXCEPT !.conn[loc_eng_data.conn_handle] = new] \in ModemType
  BY ConnType
<1>3. QED
  BY <1>1, <1>2

(* DataStatus sends one report to the modem. *)
LEMMA DataStatusType ==
  ASSUME TypeOK, DataStatus
  PROVE loc_eng_data' \in DataType /\ modem' \in ModemType
<1>1. ASSUME NEW success \in BOOLEAN, DataOpenStatus(success)
      PROVE loc_eng_data' \in DataType /\ modem' \in ModemType
  <2>1. loc_eng_data' \in DataType
    BY <1>1 DEF DataOpenStatus, DataType, TypeOK
  <2>2. (IF success THEN "open" ELSE "idle") \in ConnStates
    BY DEF ConnStates
  <2>3. modem' \in ModemType
    BY <1>1, <2>2, ModemInformedType DEF DataOpenStatus, TypeOK
  <2>4. QED
    BY <2>1, <2>3
<1>2. ASSUME NEW success \in BOOLEAN, DataCloseStatus(success)
      PROVE loc_eng_data' \in DataType /\ modem' \in ModemType
  <2>1. loc_eng_data' \in DataType
    <3>1. CASE success
      <4>1. loc_eng_data' = loc_eng_data
        BY <1>2, <3>1 DEF DataCloseStatus, DataType, TypeOK
      <4>2. QED
        BY <4>1 DEF TypeOK
    <3>2. CASE ~ success
      <4>1. loc_eng_data' = [loc_eng_data EXCEPT !.data_connection_is_on = FALSE]
        BY <1>2, <3>2 DEF DataCloseStatus, DataType, TypeOK
      <4>2. QED
        BY <4>1 DEF DataType, TypeOK
    <3>3. QED
      BY <3>1, <3>2
  <2>2. (IF success THEN "idle" ELSE "open") \in ConnStates
    BY DEF ConnStates
  <2>3. modem' \in ModemType
    BY <1>2, <2>2, ModemInformedType DEF DataCloseStatus, TypeOK
  <2>4. QED
    BY <2>1, <2>3
<1>3. QED
  BY <1>1, <1>2 DEF DataStatus

(* loc_eng_deinit closes the client. *)
LEMMA DeinitModemType ==
  ASSUME modem \in ModemType, LocEngDeinitClose
  PROVE modem' \in ModemType
<1>1. \E on \in BOOLEAN :
        modem' = [modem EXCEPT !.client = FALSE, !.fix = FALSE, !.engine = on,
                               !.conn = [c \in Conns |-> "idle"]]
  <2>1. PICK stays \in BOOLEAN :
          modem' = [modem EXCEPT !.client = FALSE, !.fix = FALSE,
                                 !.engine = @ /\ stays,
                                 !.conn = [c \in Conns |-> "idle"]]
    BY DEF LocEngDeinitClose
  <2>2. CASE modem.engine /\ stays
    BY <2>1, <2>2 DEF ModemType
  <2>3. CASE ~ (modem.engine /\ stays)
    BY <2>1, <2>3 DEF ModemType
  <2>4. QED
    BY <2>2, <2>3
<1>2. \A on \in BOOLEAN :
        [modem EXCEPT !.client = FALSE, !.fix = FALSE, !.engine = on,
                      !.conn = [c \in Conns |-> "idle"]] \in ModemType
  BY DEF ModemType, ConnStates
<1>3. QED
  BY <1>1, <1>2

(* The thread takes copies of what is pending. *)
LEMMA TakeActionsType ==
  ASSUME TypeOK, TakeActions
  PROVE thread' \in ThreadType
<1> DEFINE pc == IF loc_eng_data.loc_event = NoEvent THEN "delete" ELSE "event"
<1> DEFINE t == ThreadAt(pc)
<1>1. pc \in ThreadLabels
  BY DEF ThreadLabels
<1>2. t \in ThreadType
  BY <1>1, ThreadAtType
<1>3. thread' = [t EXCEPT !.loc_event = loc_eng_data.loc_event,
                          !.flags = loc_eng_data.deferred_action_flags,
                          !.engine_status = loc_eng_data.engine_status,
                          !.aiding = loc_eng_data.aiding_data_for_deletion,
                          !.status = loc_eng_data.agps_status]
  BY DEF TakeActions
<1> HIDE DEF t
<1>4. QED
  BY <1>2, <1>3 DEF ThreadType, DataType, TypeOK

(* Every step keeps the types. *)
LEMMA TypeStep == TypeOK /\ [Next]_vars => TypeOK'
<1> SUFFICES ASSUME TypeOK, [Next]_vars PROVE TypeOK'
  OBVIOUS
<1> USE DEF counters
<1>1. ASSUME NEW e \in Event, EventArrives(e) PROVE TypeOK'
  <2>1. modem' \in ModemType
    BY <1>1, ReportsType DEF EventArrives, TypeOK
  <2>2. rpc' \in Event \cup {NoEvent}
    BY <1>1 DEF EventArrives, TypeOK
  <2>3. events' \in 0 .. MaxEvents
    BY <1>1, LocEngAssumption DEF EventArrives, TypeOK
  <2>4. QED
    BY <1>1, <2>1, <2>2, <2>3 DEF EventArrives, TypeOK
<1>2. CASE LocEventCb
  <2>1. loc_eng_data' \in DataType
    BY <1>2, PostKeeps DEF LocEventCb, DataType, Flags, TypeOK
  <2>2. thread' \in ThreadType
    BY <1>2, SignalKeeps DEF LocEventCb, TypeOK
  <2>3. wakelock' \in BOOLEAN
    BY <1>2 DEF LocEventCb, Post, TypeOK
  <2>4. rpc' \in Event \cup {NoEvent}
    BY <1>2 DEF LocEventCb, TypeOK
  <2>5. QED
    BY <1>2, <2>1, <2>2, <2>3, <2>4 DEF LocEventCb, TypeOK
<1>3. CASE ThreadStart
  <2>1. thread' \in ThreadType
    BY <1>3 DEF ThreadStart, Goto, ThreadType, ThreadLabels, TypeOK
  <2>2. QED
    BY <1>3, <2>1 DEF ThreadStart, TypeOK
<1>4. CASE ThreadWait
  <2>1. thread' \in ThreadType
    BY <1>4 DEF ThreadWait, Goto, ThreadType, ThreadLabels, TypeOK
  <2>2. wakelock' \in BOOLEAN
    BY <1>4 DEF ThreadWait, TypeOK
  <2>3. QED
    BY <1>4, <2>1, <2>2 DEF ThreadWait, TypeOK
<1>5. CASE SpuriousWakeup
  <2>1. thread' \in ThreadType
    BY <1>5 DEF SpuriousWakeup, Goto, ThreadType, ThreadLabels, TypeOK
  <2>2. QED
    BY <1>5, <2>1 DEF SpuriousWakeup, TypeOK
<1>6. CASE SeeQuit
  <2>1. thread' \in ThreadType
    BY <1>6 DEF SeeQuit, Goto, ThreadType, ThreadLabels, TypeOK
  <2>2. wakelock' \in BOOLEAN
    BY <1>6 DEF SeeQuit, ThreadRuns, TypeOK
  <2>3. QED
    BY <1>6, <2>1, <2>2 DEF SeeQuit, TypeOK
<1>7. CASE TakeActions
  <2>1. thread' \in ThreadType
    BY <1>7, TakeActionsType DEF TakeActions, TypeOK
  <2>2. loc_eng_data' \in DataType
    BY <1>7 DEF TakeActions, DataType, AGpsStatus, TypeOK
  <2>3. wakelock' \in BOOLEAN
    BY <1>7 DEF TakeActions, ThreadRuns, TypeOK
  <2>4. QED
    BY <1>7, <2>1, <2>2, <2>3 DEF TakeActions, TypeOK
<1>8. CASE ReportStatusSet
  <2>1. loc_eng_data' \in DataType
    BY ZenonT(60), <1>8
    DEF ReportStatusSet, NewStatus, Processes, StatusKinds, DataType,
        EngineStatus, SessionStatus, TypeOK
  <2>2. thread' \in ThreadType
    BY <1>8
    DEF ReportStatusSet, ThreadType, ThreadLabels, DataType, TypeOK
  <2>3. QED
    BY <1>8, <2>1, <2>2 DEF ReportStatusSet, TypeOK
<1>9. CASE ReportStatusEngine
  <2>1. thread' \in ThreadType
    BY <1>9
    DEF ReportStatusEngine, Goto, ThreadType, ThreadLabels, TypeOK
  <2>2. provider' \in ProviderType /\ last_status' \in EngineStatus \cup SessionStatus
    BY <1>9, InformKeeps DEF ReportStatusEngine, DataType, TypeOK
  <2>3. QED
    BY <1>9, <2>1, <2>2 DEF ReportStatusEngine, TypeOK
<1>10. CASE ReportStatusSession
  <2>1. thread' \in ThreadType
    BY <1>10
    DEF ReportStatusSession, Goto, ThreadType, ThreadLabels, TypeOK
  <2>2. provider' \in ProviderType /\ last_status' \in EngineStatus \cup SessionStatus
    BY <1>10, InformKeeps DEF ReportStatusSession, DataType, TypeOK
  <2>3. QED
    BY <1>10, <2>1, <2>2 DEF ReportStatusSession, TypeOK
<1>11. CASE ReportStatusPost
  <2>1. loc_eng_data' \in DataType
    BY <1>11, MuteSwitchedType, RequestDownloadType, PostKeeps
    DEF ReportStatusPost, Flags, TypeOK
  <2>2. thread' \in ThreadType
    BY <1>11
    DEF ReportStatusPost, EventDone, ThreadType, ThreadLabels, EngineStatus,
        SessionStatus, TypeOK
  <2>3. wakelock' \in BOOLEAN
    BY <1>11 DEF ReportStatusPost, Post, TypeOK
  <2>4. QED
    BY <1>11, <2>1, <2>2, <2>3 DEF ReportStatusPost, TypeOK
<1>12. CASE ReportOther
  <2>1. loc_eng_data' \in DataType
    BY <1>12, RequestPendingType, RequestDownloadType
    DEF ReportOther, TypeOK
  <2>2. thread' \in ThreadType
    BY <1>12
    DEF ReportOther, EventDone, ThreadType, ThreadLabels, EngineStatus,
        SessionStatus, TypeOK
  <2>3. QED
    BY <1>12, <2>1, <2>2 DEF ReportOther, TypeOK
<1>13. CASE ProcessConnRequest
  <2>1. loc_eng_data' \in DataType
    <3> DEFINE data == RequestDownload(loc_eng_data)
    <3>1. data \in DataType
      BY RequestDownloadType DEF TypeOK
    <3>2. thread.loc_event.conn \in Conns \cup {0}
      BY DEF ThreadType, Event, NoEvent, TypeOK
    <3>3. [data EXCEPT
             !.agps_status = IF thread.loc_event.kind = "server_open"
                             THEN "request" ELSE "release",
             !.conn_handle = thread.loc_event.conn,
             !.agps_request_pending = (thread.loc_event.kind = "server_open")]
            \in DataType
      <4> HIDE DEF data
      <4> QED
        BY ZenonT(60), <3>1, <3>2 DEF DataType, AGpsStatus
    <3>4. QED
      BY <1>13, <3>3, PostKeeps DEF ProcessConnRequest, Flags
  <2>2. thread' \in ThreadType
    BY <1>13
    DEF ProcessConnRequest, EventDone, ThreadType, ThreadLabels, EngineStatus,
        SessionStatus, TypeOK
  <2>3. wakelock' \in BOOLEAN
    BY <1>13 DEF ProcessConnRequest, Post, TypeOK
  <2>4. QED
    BY <1>13, <2>1, <2>2, <2>3 DEF ProcessConnRequest, TypeOK
<1>14. CASE MuteOneSession
  <2>1. loc_eng_data' \in DataType
    BY <1>14, RequestDownloadType DEF MuteOneSession, DataType, TypeOK
  <2>2. thread' \in ThreadType
    BY <1>14
    DEF MuteOneSession, EventDone, ThreadType, ThreadLabels, EngineStatus,
        SessionStatus, TypeOK
  <2>3. QED
    BY <1>14, <2>1, <2>2 DEF MuteOneSession, TypeOK
<1>15. CASE NoDeletion
  <2>1. thread' \in ThreadType
    BY <1>15 DEF NoDeletion, Goto, ThreadType, ThreadLabels, TypeOK
  <2>2. QED
    BY <1>15, <2>1 DEF NoDeletion, TypeOK
<1>16. CASE DeleteAidingDataAction
  <2>1. loc_eng_data' \in DataType
    BY <1>16 DEF DeleteAidingDataAction, DataType, TypeOK
  <2>2. thread' \in ThreadType
    BY <1>16
    DEF DeleteAidingDataAction, Goto, ThreadType, ThreadLabels, TypeOK
  <2>3. QED
    BY <1>16, <2>1, <2>2 DEF DeleteAidingDataAction, TypeOK
<1>17. CASE DeletionDone
  <2>1. loc_eng_data' \in DataType
    BY <1>17 DEF DeletionDone, DataType, TypeOK
  <2>2. thread' \in ThreadType
    BY <1>17 DEF DeletionDone, Goto, ThreadType, ThreadLabels, TypeOK
  <2>3. QED
    BY <1>17, <2>1, <2>2 DEF DeletionDone, TypeOK
<1>18. CASE InjectXtraDataInBuffer
  <2>1. loc_eng_data' \in DataType
    BY ZenonT(60), <1>18 DEF InjectXtraDataInBuffer, DataType, TypeOK
  <2>2. thread' \in ThreadType
    BY <1>18
    DEF InjectXtraDataInBuffer, Goto, ThreadType, ThreadLabels, TypeOK
  <2>3. QED
    BY <1>18, <2>1, <2>2 DEF InjectXtraDataInBuffer, TypeOK
<1>19. CASE DataStatus
  <2>1. loc_eng_data' \in DataType /\ modem' \in ModemType
    BY <1>19, DataStatusType DEF DataStatus, TypeOK
  <2>2. thread' \in ThreadType
    BY <1>19 DEF DataStatus, Goto, ThreadType, ThreadLabels, TypeOK
  <2>3. QED
    BY <1>19, <2>1, <2>2 DEF DataStatus, TypeOK
<1>20. CASE DeferredStop
  <2>1. loc_eng_data' \in DataType
    BY <1>20 DEF DeferredStop, DataType, TypeOK
  <2>2. thread' \in ThreadType
    BY <1>20 DEF DeferredStop, Goto, ThreadType, ThreadLabels, TypeOK
  <2>3. modem' \in ModemType
    BY <1>20 DEF DeferredStop, ModemType, TypeOK
  <2>4. QED
    BY <1>20, <2>1, <2>2, <2>3 DEF DeferredStop, TypeOK
<1>21. CASE AtlAction
  <2>1. thread' \in ThreadType
    BY <1>21, ThreadAtType DEF AtlAction, ThreadLabels, TypeOK
  <2>2. provider' \in ProviderType
    BY <1>21 DEF AtlAction, ProviderType, ThreadType, AGpsStatus, TypeOK
  <2>3. QED
    BY <1>21, <2>1, <2>2 DEF AtlAction, TypeOK
<1>22. CASE ThreadQuit
  <2>1. thread' \in ThreadType
    BY <1>22, ThreadAtType DEF ThreadQuit, ThreadLabels, TypeOK
  <2>2. wakelock' \in BOOLEAN
    BY <1>22 DEF ThreadQuit, TypeOK
  <2>3. QED
    BY <1>22, <2>1, <2>2 DEF ThreadQuit, TypeOK
<1>23. CASE LocEngInited
  <2>1. loc_eng_data' \in DataType
    BY <1>23 DEF LocEngInited, DataType, TypeOK
  <2>2. thread' \in ThreadType
    BY <1>23, ThreadAtType DEF LocEngInited, ThreadLabels, TypeOK
  <2>3. hal' \in [pc: HalLabels, in_cleanup: BOOLEAN]
    BY <1>23 DEF LocEngInited, HalGoto, HalLabels, TypeOK
  <2>4. loc_eng_inited' \in BOOLEAN
    BY <1>23 DEF LocEngInited, TypeOK
  <2>5. QED
    BY <1>23, <2>1, <2>2, <2>3, <2>4 DEF LocEngInited, TypeOK
<1>24. CASE LocEngStopCheck
  <2>1. loc_eng_data' \in DataType
    BY <1>24 DEF LocEngStopCheck, DataType, TypeOK
  <2>2. hal' \in [pc: HalLabels, in_cleanup: BOOLEAN]
    BY <1>24 DEF LocEngStopCheck, HalGoto, HalLabels, AfterStop, TypeOK
  <2>3. QED
    BY <1>24, <2>1, <2>2 DEF LocEngStopCheck, TypeOK
<1>25. CASE LocEngStopFix
  <2>1. modem' \in ModemType
    BY <1>25 DEF LocEngStopFix, ModemType, TypeOK
  <2>2. hal' \in [pc: HalLabels, in_cleanup: BOOLEAN]
    BY <1>25 DEF LocEngStopFix, HalGoto, HalLabels, AfterStop, TypeOK
  <2>3. QED
    BY <1>25, <2>1, <2>2 DEF LocEngStopFix, TypeOK
<1>26. CASE LocEngStopEnd
  <2>1. loc_eng_data' \in DataType
    BY <1>26 DEF LocEngStopEnd, DataType, SessionStatus, TypeOK
  <2>2. provider' \in ProviderType /\ last_status' \in EngineStatus \cup SessionStatus
    BY <1>26, InformKeeps DEF LocEngStopEnd, SessionStatus, TypeOK
  <2>3. hal' \in [pc: HalLabels, in_cleanup: BOOLEAN]
    BY <1>26 DEF LocEngStopEnd, HalGoto, HalLabels, AfterStop, TypeOK
  <2>4. QED
    BY <1>26, <2>1, <2>2, <2>3 DEF LocEngStopEnd, TypeOK
<1>27. CASE LocEngDeinitClose
  <2>1. loc_eng_data' \in DataType
    BY <1>27 DEF LocEngDeinitClose, DataType, TypeOK
  <2>2. modem' \in ModemType
    BY <1>27, DeinitModemType DEF LocEngDeinitClose, TypeOK
  <2>3. hal' \in [pc: HalLabels, in_cleanup: BOOLEAN]
    BY <1>27 DEF LocEngDeinitClose, HalGoto, HalLabels, TypeOK
  <2>4. loc_eng_inited' \in BOOLEAN
    BY <1>27 DEF LocEngDeinitClose, TypeOK
  <2>5. QED
    BY <1>27, <2>1, <2>2, <2>3, <2>4 DEF LocEngDeinitClose, TypeOK
<1>28. CASE LocEngCleanupQuit
  <2>1. loc_eng_data' \in DataType
    BY <1>28, PostKeeps DEF LocEngCleanupQuit, Flags, TypeOK
  <2>2. thread' \in ThreadType
    BY <1>28, SignalKeeps DEF LocEngCleanupQuit, TypeOK
  <2>3. wakelock' \in BOOLEAN
    BY <1>28 DEF LocEngCleanupQuit, Post, TypeOK
  <2>4. hal' \in [pc: HalLabels, in_cleanup: BOOLEAN]
    BY <1>28 DEF LocEngCleanupQuit, HalGoto, HalLabels, TypeOK
  <2>5. QED
    BY <1>28, <2>1, <2>2, <2>3, <2>4 DEF LocEngCleanupQuit, TypeOK
<1>29. CASE LocEngCleanupJoin
  <2>1. hal' \in [pc: HalLabels, in_cleanup: BOOLEAN]
    BY <1>29 DEF LocEngCleanupJoin, HalLabels, TypeOK
  <2>2. QED
    BY <1>29, <2>1 DEF LocEngCleanupJoin, TypeOK
<1>30. CASE InjectXtraDataSignal
  <2>1. thread' \in ThreadType
    BY <1>30, SignalKeeps DEF InjectXtraDataSignal, TypeOK
  <2>2. hal' \in [pc: HalLabels, in_cleanup: BOOLEAN]
    BY <1>30 DEF InjectXtraDataSignal, HalGoto, HalLabels, TypeOK
  <2>3. QED
    BY <1>30, <2>1, <2>2 DEF InjectXtraDataSignal, TypeOK
<1>31. CASE LocEngInit
  <2>1. loc_eng_data' \in DataType
    <3>1. \A opened \in BOOLEAN :
            [InitialData EXCEPT !.client_opened = opened] \in DataType
      BY InitialDataType DEF DataType
    <3>2. QED
      BY <1>31, <3>1 DEF LocEngInit
  <2>2. modem' \in ModemType
    BY <1>31 DEF LocEngInit, ModemType, TypeOK
  <2>3. provider' \in ProviderType
    BY <1>31
    DEF LocEngInit, ProviderType, EngineStatus, SessionStatus, AGpsStatus,
        TypeOK
  <2>4. hal' \in [pc: HalLabels, in_cleanup: BOOLEAN]
    BY <1>31 DEF LocEngInit, HalGoto, HalLabels, TypeOK
  <2>5. overwritten' \in BOOLEAN
    BY <1>31 DEF LocEngInit, TypeOK
  <2>6. inits' \in 0 .. MaxInits
    BY <1>31, LocEngAssumption DEF LocEngInit, TypeOK
  <2>7. QED
    BY <1>31, <2>1, <2>2, <2>3, <2>4, <2>5, <2>6 DEF LocEngInit, TypeOK
<1>32. CASE LocEngStart
  <2>1. loc_eng_data' \in DataType
    BY ZenonT(60), <1>32 DEF LocEngStart, DataType, TypeOK
  <2>2. modem' \in ModemType
    BY <1>32 DEF LocEngStart, ModemType, TypeOK
  <2>3. provider' \in ProviderType
    BY <1>32 DEF LocEngStart, ProviderType, TypeOK
  <2>4. calls' \in 0 .. MaxCalls
    BY <1>32, LocEngAssumption DEF LocEngStart, Call, TypeOK
  <2>5. QED
    BY <1>32, <2>1, <2>2, <2>3, <2>4 DEF LocEngStart, Call, TypeOK
<1>33. CASE LocEngStop
  <2>1. provider' \in ProviderType
    BY <1>33 DEF LocEngStop, ProviderType, TypeOK
  <2>2. hal' \in [pc: HalLabels, in_cleanup: BOOLEAN]
    BY <1>33 DEF LocEngStop, HalGoto, HalLabels, TypeOK
  <2>3. calls' \in 0 .. MaxCalls
    BY <1>33, LocEngAssumption DEF LocEngStop, Call, TypeOK
  <2>4. QED
    BY <1>33, <2>1, <2>2, <2>3 DEF LocEngStop, Call, TypeOK
<1>34. CASE LocEngCleanup
  <2>1. provider' \in ProviderType
    BY <1>34 DEF LocEngCleanup, ProviderType, TypeOK
  <2>2. hal' \in [pc: HalLabels, in_cleanup: BOOLEAN]
    BY <1>34 DEF LocEngCleanup, HalLabels, TypeOK
  <2>3. calls' \in 0 .. MaxCalls
    BY <1>34, LocEngAssumption DEF LocEngCleanup, Call, TypeOK
  <2>4. QED
    BY <1>34, <2>1, <2>2, <2>3 DEF LocEngCleanup, Call, TypeOK
<1>35. CASE LocEngDeleteAidingData
  <2>1. loc_eng_data' \in DataType
    <3>1. [loc_eng_data EXCEPT !.aiding_data_for_deletion = TRUE] \in DataType
      BY DEF DataType, TypeOK
    <3>2. QED
      BY <1>35, <3>1, PostKeeps DEF LocEngDeleteAidingData, Flags
  <2>2. thread' \in ThreadType
    BY <1>35, SignalKeeps DEF LocEngDeleteAidingData, TypeOK
  <2>3. wakelock' \in BOOLEAN
    BY <1>35 DEF LocEngDeleteAidingData, Post, TypeOK
  <2>4. calls' \in 0 .. MaxCalls
    BY <1>35, LocEngAssumption DEF LocEngDeleteAidingData, Call, TypeOK
  <2>5. QED
    BY <1>35, <2>1, <2>2, <2>3, <2>4 DEF LocEngDeleteAidingData, Call, TypeOK
<1>36. CASE XtraInit
  <2>1. loc_eng_data' \in DataType
    BY <1>36 DEF XtraInit, DataType, TypeOK
  <2>2. calls' \in 0 .. MaxCalls
    BY <1>36, LocEngAssumption DEF XtraInit, Call, TypeOK
  <2>3. QED
    BY <1>36, <2>1, <2>2 DEF XtraInit, Call, TypeOK
<1>37. CASE InjectXtraDataProxy
  <2>1. loc_eng_data' \in DataType
    BY <1>37 DEF InjectXtraDataProxy, DataType, TypeOK
  <2>2. hal' \in [pc: HalLabels, in_cleanup: BOOLEAN]
    BY <1>37 DEF InjectXtraDataProxy, HalGoto, HalLabels, TypeOK
  <2>3. calls' \in 0 .. MaxCalls
    BY <1>37, LocEngAssumption DEF InjectXtraDataProxy, Call, TypeOK
  <2>4. QED
    BY <1>37, <2>1, <2>2, <2>3 DEF InjectXtraDataProxy, Call, TypeOK
<1>38. CASE DataConnOpen
  <2>1. loc_eng_data' \in DataType
    BY <1>38 DEF DataConnOpen, Answer, Post, DataType, Flags, TypeOK
  <2>2. thread' \in ThreadType
    BY <1>38, SignalKeeps DEF DataConnOpen, Answer, TypeOK
  <2>3. wakelock' \in BOOLEAN
    BY <1>38 DEF DataConnOpen, Answer, Post, TypeOK
  <2>4. provider' \in ProviderType
    BY <1>38 DEF DataConnOpen, Answer, ProviderType, AGpsStatus, TypeOK
  <2>5. QED
    BY <1>38, <2>1, <2>2, <2>3, <2>4 DEF DataConnOpen, Answer, TypeOK
<1>39. CASE DataConnFailed
  <2>1. loc_eng_data' \in DataType
    BY <1>39 DEF DataConnFailed, Answer, Post, DataType, Flags, TypeOK
  <2>2. thread' \in ThreadType
    BY <1>39, SignalKeeps DEF DataConnFailed, Answer, TypeOK
  <2>3. wakelock' \in BOOLEAN
    BY <1>39 DEF DataConnFailed, Answer, Post, TypeOK
  <2>4. provider' \in ProviderType
    BY <1>39
    DEF DataConnFailed, Answer, ProviderType, AGpsStatus, TypeOK
  <2>5. QED
    BY <1>39, <2>1, <2>2, <2>3, <2>4 DEF DataConnFailed, Answer, TypeOK
<1>40. CASE DataConnClosed
  <2>1. loc_eng_data' \in DataType
    BY <1>40 DEF DataConnClosed, Answer, Post, DataType, Flags, TypeOK
  <2>2. thread' \in ThreadType
    BY <1>40, SignalKeeps DEF DataConnClosed, Answer, TypeOK
  <2>3. wakelock' \in BOOLEAN
    BY <1>40 DEF DataConnClosed, Answer, Post, TypeOK
  <2>4. provider' \in ProviderType
    BY <1>40
    DEF DataConnClosed, Answer, ProviderType, AGpsStatus, TypeOK
  <2>5. QED
    BY <1>40, <2>1, <2>2, <2>3, <2>4 DEF DataConnClosed, Answer, TypeOK
<1>41. CASE UNCHANGED vars
  BY <1>41 DEF vars, TypeOK
<1>42. QED
  BY <1>1, <1>2, <1>3, <1>4, <1>5, <1>6, <1>7, <1>8, <1>9, <1>10, <1>11,
      <1>12, <1>13, <1>14, <1>15, <1>16, <1>17, <1>18, <1>19, <1>20, <1>21,
      <1>22, <1>23, <1>24, <1>25, <1>26, <1>27, <1>28, <1>29, <1>30, <1>31,
      <1>32, <1>33, <1>34, <1>35, <1>36, <1>37, <1>38, <1>39, <1>40, <1>41
  DEF Next, ThreadStep, HalStep, HalCall, ProviderAnswers

(* What loc_eng_report_status leaves in the data when it is done. *)
LEMMA ReportedData ==
  ASSUME NEW data \in DataType
  PROVE LET d == RequestDownload(MuteSwitched(data))
        IN /\ d \in DataType
           /\ d.engine_status = data.engine_status
           /\ d.fix_session_status = data.fix_session_status
           /\ d.aiding_data_for_deletion = data.aiding_data_for_deletion
           /\ d.mute_session_state = "IN_SESSION" =>
                \/ data.engine_status = "engine_on"
                \/ /\ data.mute_session_state = "IN_SESSION"
                   /\ data.engine_status # "engine_off"
<1> DEFINE m == MuteSwitched(data)
<1> DEFINE d == RequestDownload(m)
<1>1. m \in DataType /\ d \in DataType
  BY MuteSwitchedType, RequestDownloadType
<1>2. /\ m.engine_status = data.engine_status
      /\ m.fix_session_status = data.fix_session_status
      /\ m.aiding_data_for_deletion = data.aiding_data_for_deletion
      /\ m.mute_session_state = "IN_SESSION" =>
           \/ data.engine_status = "engine_on"
           \/ /\ data.mute_session_state = "IN_SESSION"
              /\ data.engine_status # "engine_off"
  BY DEF MuteSwitched, DataType
<1> HIDE DEF m
<1>3. /\ d.engine_status = m.engine_status
      /\ d.fix_session_status = m.fix_session_status
      /\ d.aiding_data_for_deletion = m.aiding_data_for_deletion
      /\ d.mute_session_state = m.mute_session_state
  BY <1>1 DEF RequestDownload, DataType
<1> HIDE DEF d
<1>4. QED
  BY <1>1, <1>2, <1>3 DEF d, m

(* The life of the engine: one step per action. *)
LEMMA LifeStep == TypeOK /\ LifeInv /\ [Next]_vars => LifeInv'
<1> SUFFICES ASSUME TypeOK, LifeInv, [Next]_vars PROVE LifeInv'
  OBVIOUS
<1> USE DEF counters
<1>1. ASSUME NEW e \in Event, EventArrives(e) PROVE LifeInv'
  BY <1>1 DEF EventArrives, Reports, LifeInv
<1>2. CASE LocEventCb
  BY <1>2 DEF LocEventCb, Post, Signal, LifeInv
<1>3. CASE ThreadStart
  BY <1>3 DEF ThreadStart, Goto, LifeInv
<1>4. CASE ThreadWait
  BY <1>4 DEF ThreadWait, Goto, LifeInv
<1>5. CASE SpuriousWakeup
  BY <1>5 DEF SpuriousWakeup, Goto, LifeInv
<1>6. CASE SeeQuit
  BY <1>6 DEF SeeQuit, Goto, ThreadRuns, LifeInv
<1>7. CASE TakeActions
  BY <1>7 DEF TakeActions, ThreadAt, ThreadRuns, LifeInv
<1>8. CASE ReportStatusSet
  BY <1>8 DEF ReportStatusSet, Processes, StatusKinds, NewStatus, LifeInv
<1>9. CASE ReportStatusEngine
  BY <1>9 DEF ReportStatusEngine, Goto, LifeInv
<1>10. CASE ReportStatusSession
  BY <1>10 DEF ReportStatusSession, Goto, LifeInv
<1>11. CASE ReportStatusPost
  BY <1>11 DEF ReportStatusPost, Post, RequestDownload, MuteSwitched,
      EventDone, LifeInv
<1>12. CASE ReportOther
  BY <1>12 DEF ReportOther, Processes, RequestDownload, EventDone, LifeInv
<1>13. CASE ProcessConnRequest
  BY <1>13 DEF ProcessConnRequest, Post, Processes, RequestDownload,
      EventDone, LifeInv
<1>14. CASE MuteOneSession
  BY <1>14 DEF MuteOneSession, Processes, RequestDownload, EventDone, LifeInv
<1>15. CASE NoDeletion
  BY <1>15 DEF NoDeletion, Goto, LifeInv
<1>16. CASE DeleteAidingDataAction
  BY <1>16 DEF DeleteAidingDataAction, Goto, LifeInv
<1>17. CASE DeletionDone
  BY <1>17 DEF DeletionDone, Goto, LifeInv
<1>18. CASE InjectXtraDataInBuffer
  BY <1>18 DEF InjectXtraDataInBuffer, Goto, LifeInv
<1>19. CASE DataStatus
  BY <1>19 DEF DataStatus, Goto, DataOpenStatus, DataCloseStatus, LifeInv
<1>20. CASE DeferredStop
  BY <1>20 DEF DeferredStop, Goto, LifeInv
<1>21. CASE AtlAction
  BY <1>21 DEF AtlAction, ThreadAt, LifeInv
<1>22. CASE ThreadQuit
  BY <1>22 DEF ThreadQuit, ThreadAt, LifeInv
<1>23. CASE LocEngInited
  BY <1>23 DEF LocEngInited, ThreadAt, HalGoto, LifeInv
<1>24. CASE LocEngStopCheck
  BY <1>24 DEF LocEngStopCheck, HalGoto, AfterStop, LifeInv
<1>25. CASE LocEngStopFix
  BY <1>25 DEF LocEngStopFix, HalGoto, AfterStop, LifeInv
<1>26. CASE LocEngStopEnd
  BY <1>26 DEF LocEngStopEnd, HalGoto, AfterStop, LifeInv
<1>27. CASE LocEngDeinitClose
  BY <1>27 DEF LocEngDeinitClose, HalGoto, LifeInv
<1>28. CASE LocEngCleanupQuit
  BY <1>28 DEF LocEngCleanupQuit, Post, Signal, HalGoto, LifeInv
<1>29. CASE LocEngCleanupJoin
  BY <1>29 DEF LocEngCleanupJoin, LifeInv
<1>30. CASE InjectXtraDataSignal
  BY <1>30 DEF InjectXtraDataSignal, Signal, HalGoto, LifeInv
<1>31. CASE LocEngInit
  BY <1>31 DEF LocEngInit, InitialData, HalGoto, LifeInv
<1>32. CASE LocEngStart
  BY <1>32 DEF LocEngStart, Call, LifeInv
<1>33. CASE LocEngStop
  BY <1>33 DEF LocEngStop, Call, HalGoto, LifeInv
<1>34. CASE LocEngCleanup
  BY <1>34 DEF LocEngCleanup, Call, LifeInv
<1>35. CASE LocEngDeleteAidingData
  BY <1>35 DEF LocEngDeleteAidingData, Call, Post, Signal, LifeInv
<1>36. CASE XtraInit
  BY <1>36 DEF XtraInit, Call, LifeInv
<1>37. CASE InjectXtraDataProxy
  BY <1>37 DEF InjectXtraDataProxy, Call, HalGoto, LifeInv
<1>38. CASE DataConnOpen
  BY <1>38 DEF DataConnOpen, Answer, Post, Signal, LifeInv
<1>39. CASE DataConnFailed
  BY <1>39 DEF DataConnFailed, Answer, Post, Signal, LifeInv
<1>40. CASE DataConnClosed
  BY <1>40 DEF DataConnClosed, Answer, Post, Signal, LifeInv
<1>41. CASE UNCHANGED vars
  BY <1>41 DEF vars, LifeInv
<1>42. QED
  BY <1>1, <1>2, <1>3, <1>4, <1>5, <1>6, <1>7, <1>8, <1>9, <1>10, <1>11,
      <1>12, <1>13, <1>14, <1>15, <1>16, <1>17, <1>18, <1>19, <1>20, <1>21,
      <1>22, <1>23, <1>24, <1>25, <1>26, <1>27, <1>28, <1>29, <1>30, <1>31,
      <1>32, <1>33, <1>34, <1>35, <1>36, <1>37, <1>38, <1>39, <1>40, <1>41
  DEF Next, ThreadStep, HalStep, HalCall, ProviderAnswers

(* The wake lock and the sleep of the thread. *)
LEMMA WakeStep == TypeOK /\ LifeInv /\ WakeInv /\ [Next]_vars => WakeInv'
<1> SUFFICES ASSUME TypeOK, LifeInv, WakeInv, [Next]_vars PROVE WakeInv'
  OBVIOUS
<1> USE DEF counters
<1>1. ASSUME NEW e \in Event, EventArrives(e) PROVE WakeInv'
  BY <1>1 DEF EventArrives, Reports, WakeInv
<1>2. CASE LocEventCb
  BY <1>2 DEF LocEventCb, Post, Signal, WakeInv
<1>3. CASE ThreadStart
  BY <1>3 DEF ThreadStart, Goto, WakeInv
<1>4. CASE ThreadWait
  BY <1>4 DEF ThreadWait, Goto, WakeInv
<1>5. CASE SpuriousWakeup
  BY <1>5 DEF SpuriousWakeup, Goto, WakeInv
<1>6. CASE SeeQuit
  BY <1>6 DEF SeeQuit, Goto, ThreadRuns, WakeInv
<1>7. CASE TakeActions
  BY <1>7 DEF TakeActions, ThreadAt, ThreadRuns, WakeInv
<1>8. CASE ReportStatusSet
  BY <1>8 DEF ReportStatusSet, Processes, StatusKinds, NewStatus, WakeInv
<1>9. CASE ReportStatusEngine
  BY <1>9 DEF ReportStatusEngine, Goto, WakeInv
<1>10. CASE ReportStatusSession
  BY <1>10 DEF ReportStatusSession, Goto, WakeInv
<1>11. CASE ReportStatusPost
  <2> DEFINE data == RequestDownload(MuteSwitched(loc_eng_data))
  <2>1. data.deferred_action_flags = loc_eng_data.deferred_action_flags
    BY DEF RequestDownload, MuteSwitched, TypeOK, DataType
  <2>2. thread.pc = "status_post" /\ thread'.pc = "delete"
    BY <1>11 DEF ReportStatusPost, EventDone, TypeOK, ThreadType
  <2>3. wakelock' \/ (wakelock' = wakelock /\ loc_eng_data' = data)
    BY <1>11 DEF ReportStatusPost, Post
  <2>4. QED
    BY <2>1, <2>2, <2>3 DEF WakeInv
<1>12. CASE ReportOther
  BY <1>12 DEF ReportOther, Processes, RequestDownload, EventDone, WakeInv
<1>13. CASE ProcessConnRequest
  BY <1>13 DEF ProcessConnRequest, Post, Processes, RequestDownload,
      EventDone, WakeInv
<1>14. CASE MuteOneSession
  BY <1>14 DEF MuteOneSession, Processes, RequestDownload, EventDone, WakeInv
<1>15. CASE NoDeletion
  BY <1>15 DEF NoDeletion, Goto, WakeInv
<1>16. CASE DeleteAidingDataAction
  BY <1>16 DEF DeleteAidingDataAction, Goto, WakeInv
<1>17. CASE DeletionDone
  BY <1>17 DEF DeletionDone, Goto, WakeInv
<1>18. CASE InjectXtraDataInBuffer
  BY <1>18 DEF InjectXtraDataInBuffer, Goto, WakeInv
<1>19. CASE DataStatus
  BY <1>19 DEF DataStatus, Goto, DataOpenStatus, DataCloseStatus, WakeInv,
      TypeOK, DataType
<1>20. CASE DeferredStop
  BY <1>20 DEF DeferredStop, Goto, WakeInv
<1>21. CASE AtlAction
  BY <1>21 DEF AtlAction, ThreadAt, WakeInv
<1>22. CASE ThreadQuit
  BY <1>22 DEF ThreadQuit, ThreadAt, WakeInv, LifeInv
<1>23. CASE LocEngInited
  BY <1>23 DEF LocEngInited, ThreadAt, HalGoto, WakeInv
<1>24. CASE LocEngStopCheck
  BY <1>24 DEF LocEngStopCheck, HalGoto, AfterStop, WakeInv
<1>25. CASE LocEngStopFix
  BY <1>25 DEF LocEngStopFix, HalGoto, AfterStop, WakeInv
<1>26. CASE LocEngStopEnd
  BY <1>26 DEF LocEngStopEnd, HalGoto, AfterStop, WakeInv
<1>27. CASE LocEngDeinitClose
  BY <1>27 DEF LocEngDeinitClose, HalGoto, WakeInv
<1>28. CASE LocEngCleanupQuit
  BY <1>28 DEF LocEngCleanupQuit, Post, Signal, HalGoto, WakeInv
<1>29. CASE LocEngCleanupJoin
  BY <1>29 DEF LocEngCleanupJoin, WakeInv
<1>30. CASE InjectXtraDataSignal
  BY <1>30 DEF InjectXtraDataSignal, Signal, HalGoto, WakeInv
<1>31. CASE LocEngInit
  BY <1>31 DEF LocEngInit, InitialData, HalGoto, WakeInv
<1>32. CASE LocEngStart
  BY <1>32 DEF LocEngStart, Call, WakeInv
<1>33. CASE LocEngStop
  BY <1>33 DEF LocEngStop, Call, HalGoto, WakeInv
<1>34. CASE LocEngCleanup
  BY <1>34 DEF LocEngCleanup, Call, WakeInv
<1>35. CASE LocEngDeleteAidingData
  BY <1>35 DEF LocEngDeleteAidingData, Call, Post, Signal, WakeInv, TypeOK,
      DataType, ThreadType
<1>36. CASE XtraInit
  BY <1>36 DEF XtraInit, Call, WakeInv
<1>37. CASE InjectXtraDataProxy
  BY <1>37 DEF InjectXtraDataProxy, Call, HalGoto, WakeInv
<1>38. CASE DataConnOpen
  BY <1>38 DEF DataConnOpen, Answer, Post, Signal, WakeInv
<1>39. CASE DataConnFailed
  BY <1>39 DEF DataConnFailed, Answer, Post, Signal, WakeInv
<1>40. CASE DataConnClosed
  BY <1>40 DEF DataConnClosed, Answer, Post, Signal, WakeInv
<1>41. CASE UNCHANGED vars
  BY <1>41 DEF vars, WakeInv
<1>42. QED
  BY <1>1, <1>2, <1>3, <1>4, <1>5, <1>6, <1>7, <1>8, <1>9, <1>10, <1>11,
      <1>12, <1>13, <1>14, <1>15, <1>16, <1>17, <1>18, <1>19, <1>20, <1>21,
      <1>22, <1>23, <1>24, <1>25, <1>26, <1>27, <1>28, <1>29, <1>30, <1>31,
      <1>32, <1>33, <1>34, <1>35, <1>36, <1>37, <1>38, <1>39, <1>40, <1>41
  DEF Next, ThreadStep, HalStep, HalCall, ProviderAnswers

(* The flag of a deletion that can be done. *)
LEMMA AidStep == TypeOK /\ LifeInv /\ WakeInv /\ AidInv /\ [Next]_vars => AidInv'
<1> SUFFICES ASSUME TypeOK, LifeInv, WakeInv, AidInv, [Next]_vars PROVE AidInv'
  OBVIOUS
<1> USE DEF counters
<1>1. ASSUME NEW e \in Event, EventArrives(e) PROVE AidInv'
  BY <1>1 DEF EventArrives, Reports, AidInv, DeletionDue
<1>2. CASE LocEventCb
  BY <1>2 DEF LocEventCb, Post, Signal, AidInv, DeletionDue, Reporting
<1>3. CASE ThreadStart
  BY <1>3 DEF ThreadStart, Goto, AidInv, DeletionDue, Reporting
<1>4. CASE ThreadWait
  BY <1>4 DEF ThreadWait, Goto, AidInv, DeletionDue, Reporting
<1>5. CASE SpuriousWakeup
  BY <1>5 DEF SpuriousWakeup, Goto, AidInv, DeletionDue, Reporting
<1>6. CASE SeeQuit
  BY <1>6 DEF SeeQuit, Goto, ThreadRuns, AidInv, DeletionDue
<1>7. CASE TakeActions
  BY <1>7 DEF TakeActions, ThreadAt, ThreadRuns, AidInv, DeletionDue
<1>8. CASE ReportStatusSet
  BY <1>8 DEF ReportStatusSet, Processes, StatusKinds, NewStatus, AidInv,
      DeletionDue, Reporting
<1>9. CASE ReportStatusEngine
  BY <1>9 DEF ReportStatusEngine, Goto, AidInv, DeletionDue, Reporting
<1>10. CASE ReportStatusSession
  BY <1>10 DEF ReportStatusSession, Goto, AidInv, DeletionDue, Reporting
<1>11. CASE ReportStatusPost
  <2> DEFINE data == RequestDownload(MuteSwitched(loc_eng_data))
  <2>1. /\ data \in DataType
        /\ data.engine_status = loc_eng_data.engine_status
        /\ data.aiding_data_for_deletion = loc_eng_data.aiding_data_for_deletion
    BY ReportedData DEF TypeOK
  <2> HIDE DEF data
  <2>2. \/ /\ data.engine_status # "engine_on"
           /\ data.aiding_data_for_deletion \/ data.xtra_data_for_injection
           /\ Post(data, "DELETE_AIDING")
        \/ /\ loc_eng_data' = data
           /\ data.engine_status = "engine_on" \/ ~ data.aiding_data_for_deletion
    BY <1>11 DEF ReportStatusPost, data
  <2>3. QED
    BY <2>1, <2>2, PostKeeps DEF AidInv, Flags
<1>12. CASE ReportOther
  BY <1>12 DEF ReportOther, Processes, RequestDownload, EventDone, AidInv,
      DeletionDue, Reporting
<1>13. CASE ProcessConnRequest
  BY <1>13 DEF ProcessConnRequest, Post, Processes, RequestDownload,
      EventDone, AidInv, DeletionDue, Reporting
<1>14. CASE MuteOneSession
  BY <1>14 DEF MuteOneSession, Processes, RequestDownload, EventDone, AidInv,
      DeletionDue, Reporting
<1>15. CASE NoDeletion
  BY <1>15 DEF NoDeletion, Goto, AidInv, DeletionDue, Reporting
<1>16. CASE DeleteAidingDataAction
  BY <1>16 DEF DeleteAidingDataAction, Goto, AidInv, DeletionDue
<1>17. CASE DeletionDone
  BY <1>17 DEF DeletionDone, Goto, AidInv, DeletionDue
<1>18. CASE InjectXtraDataInBuffer
  BY <1>18 DEF InjectXtraDataInBuffer, Goto, AidInv, DeletionDue, Reporting
<1>19. CASE DataStatus
  BY <1>19 DEF DataStatus, Goto, DataOpenStatus, DataCloseStatus, AidInv,
      DeletionDue, Reporting, TypeOK, DataType
<1>20. CASE DeferredStop
  BY <1>20 DEF DeferredStop, Goto, AidInv, DeletionDue, Reporting
<1>21. CASE AtlAction
  BY <1>21 DEF AtlAction, ThreadAt, AidInv, DeletionDue, Reporting
<1>22. CASE ThreadQuit
  BY <1>22 DEF ThreadQuit, ThreadAt, AidInv, DeletionDue
<1>23. CASE LocEngInited
  BY <1>23 DEF LocEngInited, ThreadAt, HalGoto, AidInv, LifeInv, DeletionDue
<1>24. CASE LocEngStopCheck
  BY <1>24 DEF LocEngStopCheck, HalGoto, AfterStop, AidInv, DeletionDue
<1>25. CASE LocEngStopFix
  BY <1>25 DEF LocEngStopFix, HalGoto, AfterStop, AidInv, DeletionDue
<1>26. CASE LocEngStopEnd
  BY <1>26 DEF LocEngStopEnd, HalGoto, AfterStop, AidInv, DeletionDue
<1>27. CASE LocEngDeinitClose
  BY <1>27 DEF LocEngDeinitClose, HalGoto, AidInv, DeletionDue
<1>28. CASE LocEngCleanupQuit
  BY <1>28 DEF LocEngCleanupQuit, Post, Signal, HalGoto, AidInv, DeletionDue,
      Reporting
<1>29. CASE LocEngCleanupJoin
  BY <1>29 DEF LocEngCleanupJoin, AidInv, DeletionDue
<1>30. CASE InjectXtraDataSignal
  BY <1>30 DEF InjectXtraDataSignal, Signal, HalGoto, AidInv, DeletionDue,
      Reporting
<1>31. CASE LocEngInit
  BY <1>31 DEF LocEngInit, InitialData, HalGoto, AidInv, DeletionDue,
      Reporting
<1>32. CASE LocEngStart
  BY <1>32 DEF LocEngStart, Call, AidInv, DeletionDue
<1>33. CASE LocEngStop
  BY <1>33 DEF LocEngStop, Call, HalGoto, AidInv, DeletionDue
<1>34. CASE LocEngCleanup
  BY <1>34 DEF LocEngCleanup, Call, AidInv, DeletionDue
<1>35. CASE LocEngDeleteAidingData
  <2> DEFINE data == [loc_eng_data EXCEPT !.aiding_data_for_deletion = TRUE]
  <2>1. data \in DataType /\ data.engine_status = loc_eng_data.engine_status
    BY DEF DataType, TypeOK
  <2> HIDE DEF data
  <2>2. CASE loc_eng_data.engine_status # "engine_on"
    BY <1>35, <2>1, <2>2, PostKeeps
    DEF LocEngDeleteAidingData, data, AidInv, Flags
  <2>3. CASE loc_eng_data.engine_status = "engine_on"
    BY <1>35, <2>1, <2>3 DEF LocEngDeleteAidingData, data, AidInv
  <2>4. QED
    BY <2>2, <2>3
<1>36. CASE XtraInit
  BY <1>36 DEF XtraInit, Call, AidInv, DeletionDue
<1>37. CASE InjectXtraDataProxy
  BY <1>37 DEF InjectXtraDataProxy, Call, HalGoto, AidInv, DeletionDue
<1>38. CASE DataConnOpen
  BY <1>38 DEF DataConnOpen, Answer, Post, Signal, AidInv, DeletionDue,
      Reporting
<1>39. CASE DataConnFailed
  BY <1>39 DEF DataConnFailed, Answer, Post, Signal, AidInv, DeletionDue,
      Reporting
<1>40. CASE DataConnClosed
  BY <1>40 DEF DataConnClosed, Answer, Post, Signal, AidInv, DeletionDue,
      Reporting
<1>41. CASE UNCHANGED vars
  BY <1>41 DEF vars, AidInv, DeletionDue
<1>42. QED
  BY <1>1, <1>2, <1>3, <1>4, <1>5, <1>6, <1>7, <1>8, <1>9, <1>10, <1>11,
      <1>12, <1>13, <1>14, <1>15, <1>16, <1>17, <1>18, <1>19, <1>20, <1>21,
      <1>22, <1>23, <1>24, <1>25, <1>26, <1>27, <1>28, <1>29, <1>30, <1>31,
      <1>32, <1>33, <1>34, <1>35, <1>36, <1>37, <1>38, <1>39, <1>40, <1>41
  DEF Next, ThreadStep, HalStep, HalCall, ProviderAnswers

(* The engine going off ends the session. *)
LEMMA OffStep == TypeOK /\ LifeInv /\ OffInv /\ [Next]_vars => OffInv'
<1> SUFFICES ASSUME TypeOK, LifeInv, OffInv, [Next]_vars PROVE OffInv'
  OBVIOUS
<1> USE DEF counters
<1>1. ASSUME NEW e \in Event, EventArrives(e) PROVE OffInv'
  BY <1>1 DEF EventArrives, Reports, OffInv, OffEndsSession
<1>2. CASE LocEventCb
  BY <1>2 DEF LocEventCb, Post, Signal, OffInv, OffEndsSession
<1>3. CASE ThreadStart
  BY <1>3 DEF ThreadStart, Goto, OffInv, OffEndsSession
<1>4. CASE ThreadWait
  BY <1>4 DEF ThreadWait, Goto, OffInv, OffEndsSession
<1>5. CASE SpuriousWakeup
  BY <1>5 DEF SpuriousWakeup, Goto, OffInv, OffEndsSession
<1>6. CASE SeeQuit
  BY <1>6 DEF SeeQuit, Goto, ThreadRuns, OffInv, OffEndsSession
<1>7. CASE TakeActions
  BY <1>7 DEF TakeActions, ThreadAt, ThreadRuns, OffInv, OffEndsSession
<1>8. CASE ReportStatusSet
  BY <1>8 DEF ReportStatusSet, Processes, StatusKinds, NewStatus, OffInv,
      OffEndsSession
<1>9. CASE ReportStatusEngine
  BY <1>9 DEF ReportStatusEngine, Goto, OffInv, OffEndsSession
<1>10. CASE ReportStatusSession
  BY <1>10 DEF ReportStatusSession, Goto, OffInv, OffEndsSession
<1>11. CASE ReportStatusPost
  <2> DEFINE data == RequestDownload(MuteSwitched(loc_eng_data))
  <2>1. /\ data \in DataType
        /\ data.engine_status = loc_eng_data.engine_status
        /\ data.fix_session_status = loc_eng_data.fix_session_status
        /\ data.mute_session_state = "IN_SESSION" =>
             \/ data.engine_status = "engine_on"
             \/ /\ loc_eng_data.mute_session_state = "IN_SESSION"
                /\ data.engine_status # "engine_off"
    BY ReportedData DEF TypeOK
  <2> HIDE DEF data
  <2>2. \/ loc_eng_data' = data
        \/ Post(data, "DELETE_AIDING")
    BY <1>11 DEF ReportStatusPost, data
  <2>3. /\ loc_eng_data'.engine_status = data.engine_status
        /\ loc_eng_data'.fix_session_status = data.fix_session_status
        /\ loc_eng_data'.mute_session_state = data.mute_session_state
    BY <2>1, <2>2 DEF Post, DataType
  <2>4. QED
    BY <2>1, <2>3 DEF OffInv, OffEndsSession, TypeOK, DataType, EngineStatus
<1>12. CASE ReportOther
  BY <1>12 DEF ReportOther, Processes, RequestDownload, EventDone, OffInv,
      OffEndsSession
<1>13. CASE ProcessConnRequest
  BY <1>13 DEF ProcessConnRequest, Post, Processes, RequestDownload,
      EventDone, OffInv, OffEndsSession
<1>14. CASE MuteOneSession
  BY <1>14 DEF MuteOneSession, Processes, RequestDownload, EventDone, OffInv,
      OffEndsSession
<1>15. CASE NoDeletion
  BY <1>15 DEF NoDeletion, Goto, OffInv, OffEndsSession
<1>16. CASE DeleteAidingDataAction
  BY <1>16 DEF DeleteAidingDataAction, Goto, OffInv, OffEndsSession
<1>17. CASE DeletionDone
  BY <1>17 DEF DeletionDone, Goto, OffInv, OffEndsSession
<1>18. CASE InjectXtraDataInBuffer
  BY <1>18 DEF InjectXtraDataInBuffer, Goto, OffInv, OffEndsSession
<1>19. CASE DataStatus
  BY <1>19 DEF DataStatus, Goto, DataOpenStatus, DataCloseStatus, OffInv,
      OffEndsSession, TypeOK, DataType
<1>20. CASE DeferredStop
  BY <1>20 DEF DeferredStop, Goto, OffInv, OffEndsSession
<1>21. CASE AtlAction
  BY <1>21 DEF AtlAction, ThreadAt, OffInv, OffEndsSession
<1>22. CASE ThreadQuit
  BY <1>22 DEF ThreadQuit, ThreadAt, OffInv, OffEndsSession
<1>23. CASE LocEngInited
  BY <1>23 DEF LocEngInited, ThreadAt, HalGoto, OffInv, OffEndsSession,
      LifeInv
<1>24. CASE LocEngStopCheck
  BY <1>24 DEF LocEngStopCheck, HalGoto, AfterStop, OffInv, OffEndsSession
<1>25. CASE LocEngStopFix
  BY <1>25 DEF LocEngStopFix, HalGoto, AfterStop, OffInv, OffEndsSession
<1>26. CASE LocEngStopEnd
  BY <1>26 DEF LocEngStopEnd, HalGoto, AfterStop, OffInv, OffEndsSession
<1>27. CASE LocEngDeinitClose
  BY <1>27 DEF LocEngDeinitClose, HalGoto, OffInv, OffEndsSession
<1>28. CASE LocEngCleanupQuit
  BY <1>28 DEF LocEngCleanupQuit, Post, Signal, HalGoto, OffInv,
      OffEndsSession
<1>29. CASE LocEngCleanupJoin
  BY <1>29 DEF LocEngCleanupJoin, OffInv, OffEndsSession
<1>30. CASE InjectXtraDataSignal
  BY <1>30 DEF InjectXtraDataSignal, Signal, HalGoto, OffInv, OffEndsSession
<1>31. CASE LocEngInit
  BY <1>31 DEF LocEngInit, InitialData, HalGoto, OffInv, OffEndsSession
<1>32. CASE LocEngStart
  BY <1>32 DEF LocEngStart, Call, OffInv, OffEndsSession
<1>33. CASE LocEngStop
  BY <1>33 DEF LocEngStop, Call, HalGoto, OffInv, OffEndsSession
<1>34. CASE LocEngCleanup
  BY <1>34 DEF LocEngCleanup, Call, OffInv, OffEndsSession
<1>35. CASE LocEngDeleteAidingData
  BY <1>35 DEF LocEngDeleteAidingData, Call, Post, Signal, OffInv,
      OffEndsSession, TypeOK, DataType
<1>36. CASE XtraInit
  BY <1>36 DEF XtraInit, Call, OffInv, OffEndsSession
<1>37. CASE InjectXtraDataProxy
  BY <1>37 DEF InjectXtraDataProxy, Call, HalGoto, OffInv, OffEndsSession
<1>38. CASE DataConnOpen
  BY <1>38 DEF DataConnOpen, Answer, Post, Signal, OffInv, OffEndsSession
<1>39. CASE DataConnFailed
  BY <1>39 DEF DataConnFailed, Answer, Post, Signal, OffInv, OffEndsSession
<1>40. CASE DataConnClosed
  BY <1>40 DEF DataConnClosed, Answer, Post, Signal, OffInv, OffEndsSession
<1>41. CASE UNCHANGED vars
  BY <1>41 DEF vars, OffInv, OffEndsSession
<1>42. QED
  BY <1>1, <1>2, <1>3, <1>4, <1>5, <1>6, <1>7, <1>8, <1>9, <1>10, <1>11,
      <1>12, <1>13, <1>14, <1>15, <1>16, <1>17, <1>18, <1>19, <1>20, <1>21,
      <1>22, <1>23, <1>24, <1>25, <1>26, <1>27, <1>28, <1>29, <1>30, <1>31,
      <1>32, <1>33, <1>34, <1>35, <1>36, <1>37, <1>38, <1>39, <1>40, <1>41
  DEF Next, ThreadStep, HalStep, HalCall, ProviderAnswers

(* Every step keeps the inductive invariant. *)
LEMMA NextEng == EngInv /\ [Next]_vars => EngInv'
  BY TypeStep, LifeStep, WakeStep, AidStep, OffStep DEF EngInv

(* For every set of events and calls, with or without failing RPCs: the    *)
(* wake lock is held exactly when the deferred-action thread has something *)
(* to do, the thread does not sleep on a deletion that loc_eng_report_status *)
(* or loc_eng_delete_aiding_data could have had done, and ENGINE_OFF ends  *)
(* the session and its muting.                                             *)
THEOREM EngineSafe ==
  Spec => [](TypeOK /\ WakelockMatchesWork /\ AidingNotStranded
               /\ OffEndsSession)
<1>1. EngInv => TypeOK /\ WakelockMatchesWork /\ AidingNotStranded
                  /\ OffEndsSession
  BY DEF EngInv, WakeInv, AidInv, OffInv, Reporting, WakelockMatchesWork,
         AidingNotStranded
<1>2. QED
  BY InitEng, NextEng, <1>1, PTL DEF Spec
=============================================================================
