------------------------------ MODULE LocEngNi ------------------------------
(***************************************************************************)
(* Network-initiated (NI) location requests, loc_eng_ni.cpp.  The          *)
(* deferred-action thread hands a request of the network to the user       *)
(* interface and starts a thread that waits for the user's response, or    *)
(* for the timeout, and answers the modem.  There is one record for the    *)
(* request in progress, loc_eng_ni_data, and two mutexes: loc_ni_lock      *)
(* around its changes, and user_cb_data_mutex around the response, which   *)
(* the thread keeps while its IOCTL is under way.                          *)
(*                                                                         *)
(* Requests are numbered.  The identity of a notification is a random      *)
(* number in the code; here it is the number of the request, that is,      *)
(* identities do not repeat.                                               *)
(***************************************************************************)
EXTENDS Naturals, FiniteSets

CONSTANTS
  MaxRequests,  \* bound on the number of NI requests
  MaxInits,     \* bound on the number of loc_eng_ni_init calls
  CreateFails   \* may pthread_create fail?

ASSUME LocEngNiAssumption ==
  MaxRequests \in Nat /\ MaxInits \in Nat /\ CreateFails \in BOOLEAN

Requests == 1 .. MaxRequests

NoRequest == 0

Responses == {"accept", "deny", "noresp"}

VARIABLES
  loc_eng_ni_data, \* the request in progress and the response to it
  handler,         \* loc_ni_request_handler: the request that it has yet to
                   \* pass to ni_notify_cb
  loc_ni_thread,   \* the NI thread of each request
  ui,              \* the user interface: the notification of each request
  given,           \* the user's response to each request
  answers,         \* history: what was sent to the modem
  requests, inits, \* how many there were
  timed_out,       \* history: an NI thread has timed out
  disturbed        \* history: loc_eng_ni_init came during a request

vars == <<loc_eng_ni_data, handler, loc_ni_thread, ui, given, answers, requests,
          inits, timed_out, disturbed>>

ThreadLabels == {"none", "start", "waiting", "woken", "expired", "ioctl",
                 "clear", "done"}

UiLabels == {"hidden", "shown", "responding", "done"}

(* by is the NI thread, named after its request, that sent the answer. *)
Answer == [by: Requests, request: Requests, resp: Responses]

DataType == [notif_in_progress: BOOLEAN,
             current_notif_id: Requests \cup {NoRequest},
             loc_ni_request: Requests \cup {NoRequest},
             user_response_received: BOOLEAN, resp: Responses]

TypeOK ==
  /\ loc_eng_ni_data \in DataType
  /\ handler \in Requests \cup {NoRequest}
  /\ loc_ni_thread \in [Requests -> ThreadLabels]
  /\ ui \in [Requests -> UiLabels]
  /\ given \in [Requests -> Responses \cup {"none"}]
  /\ answers \subseteq Answer
  /\ requests \in 0 .. MaxRequests
  /\ inits \in 0 .. MaxInits
  /\ timed_out \in BOOLEAN
  /\ disturbed \in BOOLEAN

(* After the first loc_eng_ni_init. *)
Init ==
  /\ loc_eng_ni_data = [notif_in_progress |-> FALSE,
                        current_notif_id |-> NoRequest,
                        loc_ni_request |-> NoRequest,
                        user_response_received |-> FALSE, resp |-> "noresp"]
  /\ handler = NoRequest
  /\ loc_ni_thread = [n \in Requests |-> "none"]
  /\ ui = [n \in Requests |-> "hidden"]
  /\ given = [n \in Requests |-> "none"]
  /\ answers = {}
  /\ requests = 0
  /\ inits = 0
  /\ timed_out = FALSE
  /\ disturbed = FALSE

(* The NI threads that have work left. *)
Alive == {n \in Requests : loc_ni_thread[n] \notin {"none", "done"}}

(* user_cb_data_mutex is free. *)
MutexFree == \A n \in Requests : loc_ni_thread[n] # "ioctl"

ThreadGoto(n, pc) == loc_ni_thread' = [loc_ni_thread EXCEPT ![n] = pc]

-----------------------------------------------------------------------------
(* loc_ni_request_handler, in the deferred-action thread.                  *)

(* Mutant: a request that finds another in progress takes its place. *)
RequestAlways ==
  /\ handler = NoRequest
  /\ requests < MaxRequests
  /\ requests' = requests + 1
  /\ handler' = requests + 1
  /\ loc_eng_ni_data' = [loc_eng_ni_data EXCEPT
                           !.notif_in_progress = TRUE,
                           !.current_notif_id = requests + 1,
                           !.loc_ni_request = requests + 1]
  /\ ThreadGoto(requests + 1, "start")
  /\ UNCHANGED <<ui, given, answers, inits, timed_out, disturbed>>

(* A failure is logged, and nothing else. *)
CreateThread(n) ==
  \E created \in IF CreateFails THEN BOOLEAN ELSE {TRUE} :
    ThreadGoto(n, IF created THEN "start" ELSE "none")

(* No request is in progress: save the new one and create its thread.  (A  *)
(* request that overrides privacy also mutes a session: see LocEng.)       *)
Request ==
  /\ handler = NoRequest
  /\ ~ loc_eng_ni_data.notif_in_progress
  /\ requests < MaxRequests
  /\ requests' = requests + 1
  /\ handler' = requests + 1
  /\ loc_eng_ni_data' = [loc_eng_ni_data EXCEPT
                           !.notif_in_progress = TRUE,
                           !.current_notif_id = requests + 1,
                           !.loc_ni_request = requests + 1]
  /\ CreateThread(requests + 1)
  /\ UNCHANGED <<ui, given, answers, inits, timed_out, disturbed>>

(* Then, without the lock, pass the notification, which was put together   *)
(* from the request, to the user interface.                                *)
NotifyCb ==
  /\ handler # NoRequest
  /\ ui' = [ui EXCEPT ![handler] = "shown"]
  /\ handler' = NoRequest
  /\ UNCHANGED <<loc_eng_ni_data, loc_ni_thread, given, answers, requests,
                 inits, timed_out, disturbed>>

(* A request that comes while another is in progress is ignored. *)
RequestIgnored ==
  /\ handler = NoRequest
  /\ loc_eng_ni_data.notif_in_progress
  /\ requests < MaxRequests
  /\ requests' = requests + 1
  /\ UNCHANGED <<loc_eng_ni_data, handler, loc_ni_thread, ui, given, answers,
                 inits, timed_out, disturbed>>

-----------------------------------------------------------------------------
(* The calls of the framework.                                             *)

(* loc_eng_ni_respond checks, without a lock, that the notification is the *)
(* one in progress ...                                                     *)
NiRespond(n, response) ==
  /\ ui[n] = "shown"
  /\ given' = [given EXCEPT ![n] = response]
  /\ ui' = [ui EXCEPT ![n] = IF /\ n = loc_eng_ni_data.current_notif_id
                                /\ loc_eng_ni_data.notif_in_progress
                             THEN "responding" ELSE "done"]
  /\ UNCHANGED <<loc_eng_ni_data, handler, loc_ni_thread, answers, requests,
                 inits, timed_out, disturbed>>

(* ... and loc_ni_process_user_response leaves the response and signals.   *)
ProcessUserResponse(n) ==
  /\ ui[n] = "responding"
  /\ MutexFree
  /\ loc_eng_ni_data' = [loc_eng_ni_data EXCEPT
                           !.resp = given[n], !.user_response_received = TRUE]
  /\ LET waiting == {m \in Requests : loc_ni_thread[m] = "waiting"}
     IN IF waiting = {} THEN UNCHANGED loc_ni_thread
        ELSE \E m \in waiting : ThreadGoto(m, "woken")
  /\ ui' = [ui EXCEPT ![n] = "done"]
  /\ UNCHANGED <<handler, given, answers, requests, inits, timed_out, disturbed>>

(* loc_eng_ni_init is called each time the GPS is enabled; nothing stops   *)
(* the NI thread when the GPS is disabled.                                 *)
NiInit ==
  /\ inits < MaxInits
  /\ inits' = inits + 1
  /\ loc_eng_ni_data' = [loc_eng_ni_data EXCEPT
                           !.notif_in_progress = FALSE,
                           !.current_notif_id = NoRequest,
                           !.user_response_received = FALSE]
  /\ disturbed' = (disturbed \/ Alive # {} \/ \E n \in Requests : ui[n] = "responding")
  /\ UNCHANGED <<handler, loc_ni_thread, ui, given, answers, requests, timed_out>>

-----------------------------------------------------------------------------
(* loc_ni_thread_proc                                                      *)

(* Wait unless there is a response. *)
NiWait(n) ==
  /\ loc_ni_thread[n] \in {"start", "woken"}
  /\ MutexFree
  /\ ~ loc_eng_ni_data.user_response_received
  /\ ThreadGoto(n, "waiting")
  /\ UNCHANGED <<loc_eng_ni_data, handler, ui, given, answers, requests, inits,
                 timed_out, disturbed>>

SpuriousWakeup(n) ==
  /\ loc_ni_thread[n] = "waiting"
  /\ ThreadGoto(n, "woken")
  /\ UNCHANGED <<loc_eng_ni_data, handler, ui, given, answers, requests, inits,
                 timed_out, disturbed>>

NiTimeout(n) ==
  /\ loc_ni_thread[n] = "waiting"
  /\ ThreadGoto(n, "expired")
  /\ timed_out' = TRUE
  /\ UNCHANGED <<loc_eng_ni_data, handler, ui, given, answers, requests, inits,
                 disturbed>>

(* loc_ni_respond sends the response to the request in progress. *)
Send(n, resp) ==
  answers' = answers \cup
    {[by |-> n, request |-> loc_eng_ni_data.loc_ni_request, resp |-> resp]}

(* Mutant: the flag is left for the next session. *)
NiSendResponseKeepsFlag(n) ==
  /\ loc_ni_thread[n] \in {"start", "woken"}
  /\ MutexFree
  /\ loc_eng_ni_data.user_response_received
  /\ Send(n, loc_eng_ni_data.resp)
  /\ ThreadGoto(n, "ioctl")
  /\ UNCHANGED <<loc_eng_ni_data, handler, ui, given, requests, inits, timed_out,
                 disturbed>>

(* The response has arrived: it is sent, with the mutex held.              *)
NiSendResponse(n) ==
  /\ loc_ni_thread[n] \in {"start", "woken"}
  /\ MutexFree
  /\ loc_eng_ni_data.user_response_received
  /\ loc_eng_ni_data' = [loc_eng_ni_data EXCEPT !.user_response_received = FALSE]
  /\ Send(n, loc_eng_ni_data.resp)
  /\ ThreadGoto(n, "ioctl")
  /\ UNCHANGED <<handler, ui, given, requests, inits, timed_out, disturbed>>

(* Mutant: nothing is sent when the user does not respond. *)
NiExpiresSilently(n) ==
  /\ loc_ni_thread[n] = "expired"
  /\ MutexFree
  /\ ThreadGoto(n, "clear")
  /\ UNCHANGED <<loc_eng_ni_data, handler, ui, given, answers, requests, inits,
                 timed_out, disturbed>>

(* The timeout: whatever has arrived meanwhile, there was no response.     *)
NiSendNoResponse(n) ==
  /\ loc_ni_thread[n] = "expired"
  /\ MutexFree
  /\ loc_eng_ni_data' = [loc_eng_ni_data EXCEPT !.user_response_received = FALSE,
                                                !.resp = "noresp"]
  /\ Send(n, "noresp")
  /\ ThreadGoto(n, "ioctl")
  /\ UNCHANGED <<handler, ui, given, requests, inits, timed_out, disturbed>>

(* Mutants: the thread goes on waiting for the next session; it returns    *)
(* with the mutex held.                                                    *)
NiIoctlLoops(n) ==
  /\ loc_ni_thread[n] = "ioctl"
  /\ ThreadGoto(n, "start")
  /\ UNCHANGED <<loc_eng_ni_data, handler, ui, given, answers, requests, inits,
                 timed_out, disturbed>>

NiIoctlKeepsMutex(n) ==
  /\ loc_ni_thread[n] = "ioctl"
  /\ loc_eng_ni_data' = [loc_eng_ni_data EXCEPT !.notif_in_progress = FALSE,
                                                !.current_notif_id = NoRequest]
  /\ UNCHANGED <<handler, loc_ni_thread, ui, given, answers, requests, inits,
                 timed_out, disturbed>>

(* The IOCTL, which has a timeout of its own, returns; the mutex is free.  *)
NiIoctlReturns(n) ==
  /\ loc_ni_thread[n] = "ioctl"
  /\ ThreadGoto(n, "clear")
  /\ UNCHANGED <<loc_eng_ni_data, handler, ui, given, answers, requests, inits,
                 timed_out, disturbed>>

(* Mutants: the thread clears the request too, which another thread may    *)
(* still have to answer; it ends without clearing the status.              *)
NiClearAll(n) ==
  /\ loc_ni_thread[n] = "clear"
  /\ loc_eng_ni_data' = [loc_eng_ni_data EXCEPT !.notif_in_progress = FALSE,
                                                !.current_notif_id = NoRequest,
                                                !.loc_ni_request = NoRequest]
  /\ ThreadGoto(n, "done")
  /\ UNCHANGED <<handler, ui, given, answers, requests, inits, timed_out,
                 disturbed>>

NiClearNothing(n) ==
  /\ loc_ni_thread[n] = "clear"
  /\ ThreadGoto(n, "done")
  /\ UNCHANGED <<loc_eng_ni_data, handler, ui, given, answers, requests, inits,
                 timed_out, disturbed>>

(* The status is cleared and the thread ends. *)
NiClear(n) ==
  /\ loc_ni_thread[n] = "clear"
  /\ loc_eng_ni_data' = [loc_eng_ni_data EXCEPT !.notif_in_progress = FALSE,
                                                !.current_notif_id = NoRequest]
  /\ ThreadGoto(n, "done")
  /\ UNCHANGED <<handler, ui, given, answers, requests, inits, timed_out,
                 disturbed>>

-----------------------------------------------------------------------------
ThreadStep(n) == NiWait(n) \/ NiSendResponse(n) \/ NiSendNoResponse(n)
                   \/ NiIoctlReturns(n) \/ NiClear(n)

Next ==
  \/ Request \/ NotifyCb \/ RequestIgnored \/ NiInit
  \/ \E n \in Requests :
       \/ ThreadStep(n)
       \/ SpuriousWakeup(n)
       \/ NiTimeout(n)
       \/ \E response \in Responses : NiRespond(n, response)
       \/ ProcessUserResponse(n)

Spec == Init /\ [][Next]_vars

(* Threads run.  The time to wait is an absolute one, so that a thread     *)
(* does not wait for ever, however often it is woken up.                   *)
FairSpec ==
  /\ Spec
  /\ WF_vars(NotifyCb)
  /\ \A n \in Requests : /\ WF_vars(ThreadStep(n))
                         /\ SF_vars(NiTimeout(n))
                         /\ WF_vars(ProcessUserResponse(n))

-----------------------------------------------------------------------------
(* Properties.                                                             *)

(* One request at a time: an NI thread that has work left works on the     *)
(* request in progress, whose notification a response has to name.         *)
OneSession ==
  ~ disturbed => \A n \in Alive :
    /\ loc_eng_ni_data.notif_in_progress
    /\ loc_eng_ni_data.loc_ni_request = n
    /\ loc_eng_ni_data.current_notif_id = n

(* The modem gets at most one answer to a request, from the thread of that *)
(* request, however the response, the timeout and the next request race.   *)
AnsweredOnce ==
  ~ disturbed =>
    /\ \A a \in answers : a.by = a.request
    /\ \A a, b \in answers : a.request = b.request => a = b

(* Until a thread times out, the modem gets what the user has responded to *)
(* this very request: loc_eng_ni_respond checks current_notif_id without   *)
(* the mutex under which the response is used later.                       *)
OwnAnswerUntilTimeout ==
  ~ disturbed /\ ~ timed_out => \A a \in answers : a.resp = given[a.request]

(* The thread is there "to timeout to clear up the notification status":   *)
(* it does, when it could be created.                                      *)
StatusClears ==
  loc_eng_ni_data.notif_in_progress /\ Alive # {} ~>
    ~ loc_eng_ni_data.notif_in_progress

(* loc_eng_ni_respond returns, although it needs a mutex that the thread   *)
(* keeps during an IOCTL.                                                  *)
RespondReturns ==
  \A n \in Requests : ui[n] = "responding" ~> ui[n] = "done"

(* A request that has a thread is answered in the end, unless              *)
(* loc_eng_ni_init comes in between.                                       *)
SavedRequestAnswered ==
  \A n \in Requests : n \in Alive ~>
    disturbed \/ \E a \in answers : a.request = n
=============================================================================
