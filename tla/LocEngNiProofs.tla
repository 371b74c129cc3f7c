--------------------------- MODULE LocEngNiProofs ---------------------------
(***************************************************************************)
(* LocEngNi for any number of requests and of loc_eng_ni_init calls, with  *)
(* or without failing pthread_create: as long as loc_eng_ni_init does not  *)
(* come during a request, one request is worked on at a time and the modem *)
(* gets at most one answer to each.                                        *)
(***************************************************************************)
EXTENDS LocEngNi, TLAPS

(* An answer was sent by a thread that has nothing left to send; so a      *)
(* thread that is going to send one has not sent any.                      *)
SentBy ==
  ~ disturbed => \A a \in answers :
    /\ a.by = a.request
    /\ loc_ni_thread[a.by] \in {"ioctl", "clear", "done"}

(* There is at most one answer of each thread. *)
SentOnce == ~ disturbed => \A a, b \in answers : a.by = b.by => a = b

(* Requests to come have no thread. *)
Unborn == \A n \in Requests : n > requests => loc_ni_thread[n] = "none"

(* A thread has a request to answer, and a response that is being handed   *)
(* over was given.                                                         *)
Saved == \A n \in Requests : loc_ni_thread[n] # "none" =>
           loc_eng_ni_data.loc_ni_request # NoRequest
Responded == \A n \in Requests : ui[n] = "responding" => given[n] # "none"

(* The inductive invariant. *)
NiInv ==
  /\ TypeOK /\ Saved /\ Responded
  /\ OneSession /\ SentBy /\ SentOnce /\ Unborn

(* The initial state satisfies it. *)
LEMMA InitNi == Init => NiInv
<1> SUFFICES ASSUME Init PROVE NiInv
  OBVIOUS
<1>1. loc_eng_ni_data \in DataType
  BY DEF Init, DataType, Responses
<1>2. /\ handler \in Requests \cup {NoRequest}
      /\ loc_ni_thread \in [Requests -> ThreadLabels]
      /\ ui \in [Requests -> UiLabels]
      /\ given \in [Requests -> Responses \cup {"none"}]
  BY DEF Init, ThreadLabels, UiLabels
<1>3. /\ answers \subseteq Answer /\ requests \in 0 .. MaxRequests
      /\ inits \in 0 .. MaxInits
  BY LocEngNiAssumption DEF Init
<1>4. timed_out \in BOOLEAN /\ disturbed \in BOOLEAN
  BY DEF Init
<1>5. Saved /\ Responded /\ OneSession /\ SentBy /\ SentOnce /\ Unborn
  BY DEF Init, Saved, Responded, OneSession, SentBy, SentOnce, Unborn, Alive
<1>6. QED
  BY <1>1, <1>2, <1>3, <1>4, <1>5 DEF NiInv, TypeOK, DataType

(* Every step keeps the types; one step per action. *)
LEMMA TypeStep == TypeOK /\ Saved /\ Responded /\ [Next]_vars => TypeOK'
<1> SUFFICES ASSUME TypeOK, Saved, Responded, [Next]_vars PROVE TypeOK'
  OBVIOUS
<1> USE DEF DataType
<1>1. CASE Request
  <2>1. requests + 1 \in Requests /\ requests' \in 0 .. MaxRequests
    BY <1>1, LocEngNiAssumption DEF Request, TypeOK, Requests
  <2>2. loc_eng_ni_data' \in DataType
    BY <1>1, <2>1 DEF Request, TypeOK
  <2>3. handler' \in Requests /\ loc_ni_thread' \in [Requests -> ThreadLabels]
    BY <1>1, <2>1 DEF Request, CreateThread, ThreadGoto, TypeOK, ThreadLabels
  <2>4. QED
    BY <1>1, <2>1, <2>2, <2>3 DEF Request, TypeOK
<1>2. CASE NotifyCb
  BY <1>2 DEF NotifyCb, TypeOK, UiLabels, NoRequest
<1>3. CASE RequestIgnored
  BY <1>3, LocEngNiAssumption DEF RequestIgnored, TypeOK
<1>4. CASE NiInit
  <2>1. loc_eng_ni_data' \in DataType
    BY <1>4 DEF NiInit, TypeOK
  <2>2. inits' \in 0 .. MaxInits
    BY <1>4, LocEngNiAssumption DEF NiInit, TypeOK
  <2>3. disturbed' \in BOOLEAN
    BY <1>4 DEF NiInit
  <2>4. QED
    BY <1>4, <2>1, <2>2, <2>3 DEF NiInit, TypeOK
<1>5. ASSUME NEW n \in Requests, ThreadStep(n) PROVE TypeOK'
  <2>1. CASE NiWait(n)
    BY <2>1 DEF NiWait, ThreadGoto, TypeOK, ThreadLabels
  <2>2. CASE NiSendResponse(n)
    <3>1. loc_eng_ni_data.loc_ni_request \in Requests
      BY <2>2 DEF NiSendResponse, Saved, TypeOK
    <3>2. answers' \subseteq Answer
      BY <2>2, <3>1 DEF NiSendResponse, Send, TypeOK, Answer
    <3>3. loc_eng_ni_data' \in DataType
      BY <2>2 DEF NiSendResponse, TypeOK
    <3>4. loc_ni_thread' \in [Requests -> ThreadLabels]
      BY <2>2 DEF NiSendResponse, ThreadGoto, TypeOK, ThreadLabels
    <3>5. QED
      BY <2>2, <3>2, <3>3, <3>4 DEF NiSendResponse, TypeOK
  <2>3. CASE NiSendNoResponse(n)
    <3>1. loc_eng_ni_data.loc_ni_request \in Requests
      BY <2>3 DEF NiSendNoResponse, Saved, TypeOK
    <3>2. answers' \subseteq Answer
      BY <2>3, <3>1 DEF NiSendNoResponse, Send, TypeOK, Answer, Responses
    <3>3. loc_eng_ni_data' \in DataType
      BY <2>3 DEF NiSendNoResponse, TypeOK, Responses
    <3>4. loc_ni_thread' \in [Requests -> ThreadLabels]
      BY <2>3 DEF NiSendNoResponse, ThreadGoto, TypeOK, ThreadLabels
    <3>5. QED
      BY <2>3, <3>2, <3>3, <3>4 DEF NiSendNoResponse, TypeOK
  <2>4. CASE NiIoctlReturns(n)
    BY <2>4 DEF NiIoctlReturns, ThreadGoto, TypeOK, ThreadLabels
  <2>5. CASE NiClear(n)
    BY <2>5 DEF NiClear, ThreadGoto, TypeOK, ThreadLabels, NoRequest
  <2>6. QED
    BY <1>5, <2>1, <2>2, <2>3, <2>4, <2>5 DEF ThreadStep
<1>6. ASSUME NEW n \in Requests, SpuriousWakeup(n) PROVE TypeOK'
  BY <1>6 DEF SpuriousWakeup, ThreadGoto, TypeOK, ThreadLabels
<1>7. ASSUME NEW n \in Requests, NiTimeout(n) PROVE TypeOK'
  BY <1>7 DEF NiTimeout, ThreadGoto, TypeOK, ThreadLabels
<1>8. ASSUME NEW n \in Requests, NEW response \in Responses,
             NiRespond(n, response)
      PROVE TypeOK'
  BY <1>8 DEF NiRespond, TypeOK, UiLabels
<1>9. ASSUME NEW n \in Requests, ProcessUserResponse(n) PROVE TypeOK'
  <2>1. given[n] \in Responses
    BY <1>9 DEF ProcessUserResponse, Responded, TypeOK
  <2>2. loc_eng_ni_data' \in DataType
    BY <1>9, <2>1 DEF ProcessUserResponse, TypeOK
  <2>3. loc_ni_thread' \in [Requests -> ThreadLabels]
    BY <1>9 DEF ProcessUserResponse, ThreadGoto, TypeOK, ThreadLabels
  <2>4. ui' \in [Requests -> UiLabels]
    BY <1>9 DEF ProcessUserResponse, TypeOK, UiLabels
  <2>5. QED
    BY <1>9, <2>2, <2>3, <2>4 DEF ProcessUserResponse, TypeOK
<1>10. CASE UNCHANGED vars
  BY <1>10 DEF vars, TypeOK
<1>11. QED
  BY <1>1, <1>2, <1>3, <1>4, <1>5, <1>6, <1>7, <1>8, <1>9, <1>10 DEF Next

(* A thread that was created has a request, and a response was given. *)
LEMMA SavedStep ==
  TypeOK /\ Saved /\ Responded /\ [Next]_vars => Saved' /\ Responded'
<1> SUFFICES ASSUME TypeOK, Saved, Responded, [Next]_vars
             PROVE Saved' /\ Responded'
  OBVIOUS
<1> USE DEF Saved, Responded, ThreadGoto, TypeOK, DataType
<1>1. CASE Request
  BY <1>1, LocEngNiAssumption DEF Request, CreateThread, Requests, NoRequest
<1>2. CASE NotifyCb
  BY <1>2 DEF NotifyCb
<1>3. CASE RequestIgnored \/ NiInit
  BY <1>3 DEF RequestIgnored, NiInit
<1>4. ASSUME NEW n \in Requests, ThreadStep(n) PROVE Saved' /\ Responded'
  BY <1>4 DEF ThreadStep, NiWait, NiSendResponse, NiSendNoResponse,
              NiIoctlReturns, NiClear
<1>5. ASSUME NEW n \in Requests, SpuriousWakeup(n) \/ NiTimeout(n)
      PROVE Saved' /\ Responded'
  BY <1>5 DEF SpuriousWakeup, NiTimeout
<1>6. ASSUME NEW n \in Requests, NEW response \in Responses,
             NiRespond(n, response)
      PROVE Saved' /\ Responded'
  BY <1>6 DEF NiRespond, Responses
<1>7. ASSUME NEW n \in Requests, ProcessUserResponse(n)
      PROVE Saved' /\ Responded'
  BY <1>7 DEF ProcessUserResponse
<1>8. CASE UNCHANGED vars
  BY <1>8 DEF vars
<1>9. QED
  BY <1>1, <1>2, <1>3, <1>4, <1>5, <1>6, <1>7, <1>8 DEF Next

(* One request at a time. *)
LEMMA SessionStep == NiInv /\ [Next]_vars => OneSession' /\ Unborn'
<1> SUFFICES ASSUME NiInv, [Next]_vars PROVE OneSession' /\ Unborn'
  OBVIOUS
<1> USE DEF NiInv, TypeOK, DataType, OneSession, Unborn, Alive, ThreadGoto
<1>1. CASE Request
  <2>1. \A n \in Requests : n # requests + 1 =>
          loc_ni_thread'[n] = loc_ni_thread[n]
    BY <1>1 DEF Request, CreateThread
  <2>2. ~ disturbed' => \A n \in Alive' : n = requests + 1
    BY <1>1, <2>1 DEF Request
  <2>3. OneSession'
    BY <1>1, <2>2 DEF Request
  <2>4. Unborn'
    BY <1>1, <2>1 DEF Request, Requests
  <2>5. QED
    BY <2>3, <2>4
<1>2. CASE NotifyCb
  BY <1>2 DEF NotifyCb
<1>3. CASE RequestIgnored
  BY <1>3 DEF RequestIgnored, Requests
<1>4. CASE NiInit
  BY <1>4 DEF NiInit
<1>5. ASSUME NEW n \in Requests, ThreadStep(n) PROVE OneSession' /\ Unborn'
  <2>1. CASE NiWait(n)
    BY <2>1 DEF NiWait
  <2>2. CASE NiSendResponse(n)
    BY <2>2 DEF NiSendResponse
  <2>3. CASE NiSendNoResponse(n)
    BY <2>3 DEF NiSendNoResponse
  <2>4. CASE NiIoctlReturns(n)
    BY <2>4 DEF NiIoctlReturns
  <2>5. CASE NiClear(n)
    BY <2>5 DEF NiClear
  <2>6. QED
    BY <1>5, <2>1, <2>2, <2>3, <2>4, <2>5 DEF ThreadStep
<1>6. ASSUME NEW n \in Requests, SpuriousWakeup(n) \/ NiTimeout(n)
      PROVE OneSession' /\ Unborn'
  BY <1>6 DEF SpuriousWakeup, NiTimeout
<1>7. ASSUME NEW n \in Requests, NEW response \in Responses,
             NiRespond(n, response)
      PROVE OneSession' /\ Unborn'
  BY <1>7 DEF NiRespond
<1>8. ASSUME NEW n \in Requests, ProcessUserResponse(n)
      PROVE OneSession' /\ Unborn'
  BY <1>8 DEF ProcessUserResponse
<1>9. CASE UNCHANGED vars
  BY <1>9 DEF vars
<1>10. QED
  BY <1>1, <1>2, <1>3, <1>4, <1>5, <1>6, <1>7, <1>8, <1>9 DEF Next

(* One answer of each thread. *)
LEMMA AnswerStep == NiInv /\ [Next]_vars => SentBy' /\ SentOnce'
<1> SUFFICES ASSUME NiInv, [Next]_vars PROVE SentBy' /\ SentOnce'
  OBVIOUS
<1> USE DEF NiInv, TypeOK, DataType, SentBy, SentOnce, ThreadGoto
<1>1. CASE Request
  BY <1>1, LocEngNiAssumption DEF Request, CreateThread, Requests, Unborn, Answer
<1>2. CASE NotifyCb \/ RequestIgnored \/ NiInit
  BY <1>2 DEF NotifyCb, RequestIgnored, NiInit
<1>3. ASSUME NEW n \in Requests, ThreadStep(n) PROVE SentBy' /\ SentOnce'
  <2>1. CASE NiWait(n)
    BY <1>3, <2>1 DEF NiWait, Answer
  <2>2. CASE NiSendResponse(n) \/ NiSendNoResponse(n)
    <3>1. SUFFICES ASSUME ~ disturbed PROVE SentBy' /\ SentOnce'
      BY <2>2 DEF NiSendResponse, NiSendNoResponse
    <3>2. /\ loc_eng_ni_data.loc_ni_request = n
          /\ loc_ni_thread[n] \notin {"ioctl", "clear", "done"}
      BY <2>2, <3>1 DEF NiSendResponse, NiSendNoResponse, OneSession, Alive
    <3>3. \A a \in answers : a.by # n
      BY <3>1, <3>2
    <3>4. PICK resp : answers' = answers \cup
                        {[by |-> n, request |-> n, resp |-> resp]}
      BY <2>2, <3>2 DEF NiSendResponse, NiSendNoResponse, Send
    <3>5. loc_ni_thread' = [loc_ni_thread EXCEPT ![n] = "ioctl"]
      BY <2>2 DEF NiSendResponse, NiSendNoResponse
    <3>6. SentBy'
      BY <3>1, <3>4, <3>5 DEF Answer
    <3>7. SentOnce'
      BY <3>1, <3>3, <3>4
    <3>8. QED
      BY <3>6, <3>7
  <2>3. CASE NiIoctlReturns(n) \/ NiClear(n)
    BY <2>3 DEF NiIoctlReturns, NiClear, Answer
  <2>4. QED
    BY <1>3, <2>1, <2>2, <2>3 DEF ThreadStep
<1>4. ASSUME NEW n \in Requests, SpuriousWakeup(n) \/ NiTimeout(n)
      PROVE SentBy' /\ SentOnce'
  BY <1>4 DEF SpuriousWakeup, NiTimeout, Answer
<1>5. ASSUME NEW n \in Requests, NEW response \in Responses,
             NiRespond(n, response)
      PROVE SentBy' /\ SentOnce'
  BY <1>5 DEF NiRespond
<1>6. ASSUME NEW n \in Requests, ProcessUserResponse(n)
      PROVE SentBy' /\ SentOnce'
  BY <1>6 DEF ProcessUserResponse, Answer
<1>7. CASE UNCHANGED vars
  BY <1>7 DEF vars
<1>8. QED
  BY <1>1, <1>2, <1>3, <1>4, <1>5, <1>6, <1>7 DEF Next

(* One request is worked on at a time, and the modem gets at most one      *)
(* answer to each: loc_ni_request_handler, loc_ni_thread_proc and          *)
(* loc_eng_ni_respond together keep the record of the request in progress  *)
(* consistent, although no two of them use the same mutex throughout.      *)
THEOREM OneAnswer == Spec => [](TypeOK /\ OneSession /\ AnsweredOnce)
<1>1. NiInv /\ [Next]_vars => NiInv'
  BY TypeStep, SavedStep, SessionStep, AnswerStep DEF NiInv
<1>2. NiInv => TypeOK /\ OneSession /\ AnsweredOnce
  BY DEF NiInv, SentBy, SentOnce, AnsweredOnce
<1>3. QED
  BY InitNi, <1>1, <1>2, PTL DEF Spec
=============================================================================
