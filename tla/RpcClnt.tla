------------------------------ MODULE RpcClnt ------------------------------
(***************************************************************************)
(* The RPC client of librpc (clnt.c) with one client, as the location API  *)
(* uses it: threads that call, the receive thread, the callback thread     *)
(* that the first CALL starts, clnt_destroy, and the modem behind the      *)
(* router device, which may restart.                                       *)
(*                                                                         *)
(* A mutex is held at the program counters that lie between its lock and   *)
(* its unlock; a critical section in which nobody can wait is one step.    *)
(* Replies and CALLs share one input buffer, in_msg, guarded by            *)
(* input_xdr_busy.                                                         *)
(***************************************************************************)
EXTENDS Integers, FiniteSets, Sequences

CONSTANTS
  Callers,        \* the threads that make calls
  SyncCallers,    \* those that hold loc_sync_data.lock during a call
  MaxCalls,       \* calls that the callers make
  MaxCbs,         \* CALLs of the modem
  MaxOutstanding, \* CALLs that the modem has open at a time
  MaxStrays,      \* CALLs for a program that is not registered
  MaxResets,      \* restarts of the modem
  SendFails,      \* whether writing to the router may fail
  Spurious,       \* whether pthread_cond_wait may return without a signal
  MayDestroy      \* whether clnt_destroy is called

ASSUME RpcAssumption ==
  /\ SyncCallers \subseteq Callers
  /\ {MaxCalls, MaxCbs, MaxOutstanding, MaxStrays, MaxResets} \subseteq Nat
  /\ {SendFails, Spurious, MayDestroy} \subseteq BOOLEAN

VARIABLES
  clnt,     \* the fields of struct CLIENT that threads share
  xid,      \* the XID of the last call message
  pc,       \* where each caller is
  rx,       \* the receive thread
  cb,       \* the callback thread
  des,      \* where clnt_destroy is
  pipe,     \* whether the wake-up pipe holds a byte
  wakelock, \* the wake lock "rpc-interface", which does not count
  modem,    \* the modem and the router's reset state
  inq,      \* messages that the router holds for the client
  failed,   \* history: the buffer was freed by someone who did not use it
  served,   \* history: the CALLs that reached svc_dispatch, in order
  calls     \* counter: calls that were begun

vars == <<clnt, xid, pc, rx, cb, des, pipe, wakelock, modem, inq, failed, served, calls>>
history == <<failed, served, calls>>

Msg == [kind : {"none", "reply", "call", "stray"}, id : Nat]
Reply(x) == [kind |-> "reply", id |-> x]

CallerPc == {"idle", "begin", "sending", "waiting", "woken", "decode", "out", "lost"}
RxHolding == {"begin", "begincb", "beginend", "end", "endcb", "inbuf", "reply", "call"}
RxPc == RxHolding \cup {"top", "setup", "poll", "check", "lock", "exited"}
CbHolding == {"loop", "body", "clone", "dispatch"}
CbPc == CbHolding \cup {"none", "start", "wait", "woken", "done"}
DesPc == {"idle", "signal", "joincb", "unlink", "joinrx", "done"}

ClntType == [in_reset : BOOLEAN, input_xdr_busy : BOOLEAN, in_msg : Msg,
             got_cb : BOOLEAN, cb_stop : {-1, 0, 1}, svc_in_reset : BOOLEAN]
RxType == [pc : RxPc, out : BOOLEAN, events : SUBSET {"in", "out", "rdhup"}]
CbType == [pc : CbPc, msg : Msg]
ModemType == [state : {"up", "down", "back"}, pending : SUBSET Nat, sent : Nat,
              unanswered : SUBSET Nat, strays : Nat, resets : Nat]

TypeOK ==
  /\ clnt \in ClntType
  /\ xid \in Nat
  /\ pc \in [Callers -> CallerPc]
  /\ rx \in RxType
  /\ cb \in CbType
  /\ des \in DesPc
  /\ pipe \in BOOLEAN /\ wakelock \in BOOLEAN
  /\ modem \in ModemType
  /\ inq \in Seq(Msg)
  /\ failed \in BOOLEAN
  /\ served \in Seq(Nat)
  /\ calls \in Nat

NoMsg == [kind |-> "none", id |-> 0]

\* clnt_create with the first client, after the server was registered.
Init ==
  /\ clnt = [in_reset |-> FALSE, input_xdr_busy |-> FALSE, in_msg |-> NoMsg,
             got_cb |-> FALSE, cb_stop |-> -1, svc_in_reset |-> FALSE]
  /\ xid = 0
  /\ pc = [c \in Callers |-> "idle"]
  /\ rx = [pc |-> "top", out |-> FALSE, events |-> {}]
  /\ cb = [pc |-> "none", msg |-> NoMsg]
  /\ des = "idle"
  /\ pipe = FALSE /\ wakelock = FALSE
  /\ modem = [state |-> "up", pending |-> {}, sent |-> 0, unanswered |-> {},
              strays |-> 0, resets |-> 0]
  /\ inq = <<>>
  /\ failed = FALSE
  /\ served = <<>>
  /\ calls = 0

----------------------------------------------------------------------------
(* Who holds which mutex. *)

SyncLockFree == \A c \in SyncCallers : pc[c] \in {"idle", "lost"}
LockFree ==
  /\ \A c \in Callers : pc[c] \in {"idle", "begin", "lost"}
  /\ des \in {"idle", "done"}
WaitReplyLockFree == \A c \in Callers : pc[c] \notin {"decode", "out"}
WaitCbLockFree == cb.pc \notin CbHolding
RxMutexFree == rx.pc \notin RxHolding /\ des # "joinrx"

NumClients == IF des \in {"joinrx", "done"} THEN 0 ELSE 1

\* pthread_cond_signal on wait_reply and on wait_cb.
SignalReply == [c \in Callers |-> IF pc[c] = "waiting" THEN "woken" ELSE pc[c]]
SignalCb == [cb EXCEPT !.pc = IF @ = "wait" THEN "woken" ELSE @]

CallerGoto(c, l) == pc' = [pc EXCEPT ![c] = l]
RxGoto(l) == rx' = [rx EXCEPT !.pc = l]
CbGoto(l) == cb' = [cb EXCEPT !.pc = l]

----------------------------------------------------------------------------
(* clnt_call. *)

\* The glue sees a client; loc_api_sync_ioctl has taken its own lock.
CallBegin(c) ==
  /\ pc[c] = "idle" /\ des # "done"
  /\ calls < MaxCalls /\ calls' = calls + 1
  /\ c \in SyncCallers => SyncLockFree
  /\ CallerGoto(c, "begin")
  /\ UNCHANGED <<clnt, xid, rx, cb, des, pipe, wakelock, modem, inq, failed, served>>

\* A client that was freed while the caller waited for its lock is gone:
\* what the caller does from there on is undefined.
CallLock(c) ==
  /\ pc[c] = "begin" /\ LockFree
  /\ \/ des = "done" /\ CallerGoto(c, "lost") /\ UNCHANGED xid
     \/ des # "done" /\ clnt.in_reset /\ CallerGoto(c, "idle") /\ UNCHANGED xid
     \/ des # "done" /\ ~clnt.in_reset /\ CallerGoto(c, "sending") /\ xid' = xid + 1
  /\ UNCHANGED <<clnt, rx, cb, des, pipe, wakelock, modem, inq, history>>

\* r_write returns -1 on every error, so that the test for -ENETRESET at
\* line 485 never holds and in_reset is left to the receive thread.
CallSend(c) ==
  /\ pc[c] = "sending" /\ WaitReplyLockFree
  /\ \/ /\ ~clnt.in_reset /\ modem.state = "up"
        /\ modem' = [modem EXCEPT !.pending = @ \cup {xid}]
        /\ CallerGoto(c, "waiting")
        /\ UNCHANGED failed
     \/ /\ clnt.in_reset \/ SendFails \/ modem.state # "up"
        /\ CallerGoto(c, "out")
        /\ failed' = TRUE
        /\ UNCHANGED modem
  /\ UNCHANGED <<clnt, xid, rx, cb, des, pipe, wakelock, inq, served, calls>>

CallSpurious(c) ==
  /\ Spurious /\ pc[c] = "waiting"
  /\ CallerGoto(c, "woken")
  /\ UNCHANGED <<clnt, xid, rx, cb, des, pipe, wakelock, modem, inq, history>>

\* Only the XID is compared.
CallWake(c) ==
  /\ pc[c] = "woken" /\ WaitReplyLockFree
  /\ CallerGoto(c, IF ~clnt.in_reset /\ clnt.in_msg.id = xid THEN "decode" ELSE "out")
  /\ failed' = (failed \/ clnt.in_reset \/ clnt.in_msg # Reply(xid))
  /\ UNCHANGED <<clnt, xid, rx, cb, des, pipe, wakelock, modem, inq, served, calls>>

CallDecode(c) ==
  /\ pc[c] = "decode"
  /\ CallerGoto(c, "out")
  /\ UNCHANGED <<clnt, xid, rx, cb, des, pipe, wakelock, modem, inq, history>>

CallOut(c) ==
  /\ pc[c] = "out"
  /\ clnt' = [clnt EXCEPT !.input_xdr_busy = FALSE]
  /\ CallerGoto(c, "idle")
  /\ UNCHANGED <<xid, rx, cb, des, pipe, wakelock, modem, inq, history>>

CallStep(c) ==
  CallLock(c) \/ CallSend(c) \/ CallWake(c) \/ CallDecode(c) \/ CallOut(c)

----------------------------------------------------------------------------
(* rx_context. *)

RxLoop ==
  /\ rx.pc = "top"
  /\ RxGoto(IF NumClients = 0 THEN "exited" ELSE "setup")
  /\ UNCHANGED <<clnt, xid, pc, cb, des, pipe, wakelock, modem, inq, history>>

RxSetup ==
  /\ rx.pc = "setup" /\ RxMutexFree
  /\ rx' = [rx EXCEPT !.pc = "poll", !.out = clnt.in_reset]
  /\ UNCHANGED <<clnt, xid, pc, cb, des, pipe, wakelock, modem, inq, history>>

\* What poll reports: POLLOUT when it was asked for, else POLLIN, POLLRDHUP.
Ready ==
  IF rx.out
  THEN {"out"} \cap (IF modem.state = "down" THEN {} ELSE {"out"})
  ELSE (IF inq # <<>> THEN {"in"} ELSE {}) \cup
       (IF modem.state = "up" THEN {} ELSE {"rdhup"})

RxPoll ==
  /\ rx.pc = "poll"
  /\ Ready # {} \/ pipe
  /\ pipe' = FALSE
  /\ rx' = [rx EXCEPT !.pc = "check", !.events = Ready]
  /\ UNCHANGED <<clnt, xid, pc, cb, des, wakelock, modem, inq, history>>

RxCheck ==
  /\ rx.pc = "check"
  /\ RxGoto(IF NumClients = 0 THEN "exited" ELSE "lock")
  /\ UNCHANGED <<clnt, xid, pc, cb, des, pipe, wakelock, modem, inq, history>>

\* With one client the number has changed only when it is zero.
RxScan ==
  /\ rx.pc = "lock" /\ RxMutexFree
  /\ RxGoto(IF NumClients = 0 THEN "top"
            ELSE IF ~clnt.in_reset /\ "rdhup" \in rx.events THEN "begin"
            ELSE IF clnt.in_reset /\ "out" \in rx.events THEN "end"
            ELSE IF "in" \in rx.events THEN "inbuf"
            ELSE "top")
  /\ UNCHANGED <<clnt, xid, pc, cb, des, pipe, wakelock, modem, inq, history>>

\* Mutant: the call that waits is not woken.
RxResetBeginSilent ==
  /\ rx.pc = "begin" /\ WaitReplyLockFree
  /\ clnt' = [clnt EXCEPT !.in_reset = TRUE]
  /\ RxGoto("begincb")
  /\ UNCHANGED <<xid, pc, cb, des, pipe, wakelock, modem, inq, history>>

RxResetBegin ==
  /\ rx.pc = "begin" /\ WaitReplyLockFree
  /\ clnt' = [clnt EXCEPT !.in_reset = TRUE]
  /\ pc' = SignalReply
  /\ RxGoto("begincb")
  /\ UNCHANGED <<xid, cb, des, pipe, wakelock, modem, inq, history>>

RxResetBeginCb ==
  /\ rx.pc = "begincb" /\ WaitCbLockFree
  /\ cb' = SignalCb
  /\ RxGoto("beginend")
  /\ UNCHANGED <<clnt, xid, pc, des, pipe, wakelock, modem, inq, history>>

RxResetUnblock ==
  /\ rx.pc = "beginend"
  /\ clnt' = [clnt EXCEPT !.input_xdr_busy = FALSE]
  /\ failed' = TRUE
  /\ RxGoto("top")
  /\ UNCHANGED <<xid, pc, cb, des, pipe, wakelock, modem, inq, served, calls>>

RxResetEnd ==
  /\ rx.pc = "end" /\ WaitReplyLockFree
  /\ clnt' = [clnt EXCEPT !.in_reset = FALSE]
  /\ modem' = [modem EXCEPT !.state = IF @ = "back" THEN "up" ELSE @]
  /\ RxGoto("endcb")
  /\ UNCHANGED <<xid, pc, cb, des, pipe, wakelock, inq, history>>

\* Nothing but POLLOUT was asked for, so no message is read this time.
RxResetEndCb ==
  /\ rx.pc = "endcb" /\ WaitCbLockFree
  /\ cb' = SignalCb
  /\ RxGoto("top")
  /\ UNCHANGED <<clnt, xid, pc, des, pipe, wakelock, modem, inq, history>>

\* Mutant: does not wait for the buffer.
RxReadAnyway ==
  /\ rx.pc = "inbuf" /\ inq # <<>>
  /\ wakelock' = TRUE
  /\ clnt' = [clnt EXCEPT !.in_msg = Head(inq), !.input_xdr_busy = TRUE]
  /\ inq' = Tail(inq)
  /\ RxGoto(IF Head(inq).kind = "reply" THEN "reply" ELSE "call")
  /\ UNCHANGED <<xid, pc, cb, des, pipe, modem, history>>

\* Mutant: keeps the wake lock when the read fails.
RxReadKeepsWakelock ==
  /\ rx.pc = "inbuf" /\ ~clnt.input_xdr_busy
  /\ wakelock' = TRUE
  /\ IF inq = <<>>
     THEN RxGoto("top") /\ UNCHANGED <<clnt, inq>>
     ELSE /\ clnt' = [clnt EXCEPT !.in_msg = Head(inq), !.input_xdr_busy = TRUE]
          /\ inq' = Tail(inq)
          /\ RxGoto(IF Head(inq).kind = "reply" THEN "reply" ELSE "call")
  /\ UNCHANGED <<xid, pc, cb, des, pipe, modem, history>>

\* The wake lock is taken for the read and given up when the read fails.
RxRead ==
  /\ rx.pc = "inbuf" /\ ~clnt.input_xdr_busy
  /\ \/ /\ inq = <<>>
        /\ wakelock' = FALSE
        /\ RxGoto("top")
        /\ UNCHANGED <<clnt, inq>>
     \/ /\ inq # <<>>
        /\ wakelock' = TRUE
        /\ clnt' = [clnt EXCEPT !.in_msg = Head(inq), !.input_xdr_busy = TRUE]
        /\ inq' = Tail(inq)
        /\ RxGoto(IF Head(inq).kind = "reply" THEN "reply" ELSE "call")
  /\ UNCHANGED <<xid, pc, cb, des, pipe, modem, history>>

RxReply ==
  /\ rx.pc = "reply" /\ WaitReplyLockFree
  /\ pc' = SignalReply
  /\ wakelock' = FALSE
  /\ RxGoto("top")
  /\ UNCHANGED <<clnt, xid, cb, des, pipe, modem, inq, history>>

\* Mutant: counts cb_stop up on every CALL.
RxCallCounts ==
  /\ rx.pc = "call" /\ WaitCbLockFree
  /\ clnt' = [clnt EXCEPT !.got_cb = TRUE, !.cb_stop = @ + 1]
  /\ cb' = IF clnt.cb_stop < 0 THEN [cb EXCEPT !.pc = "start"] ELSE SignalCb
  /\ RxGoto("top")
  /\ UNCHANGED <<xid, pc, des, pipe, wakelock, modem, inq, history>>

\* The first CALL starts the callback thread.
RxCall ==
  /\ rx.pc = "call" /\ WaitCbLockFree
  /\ clnt' = [clnt EXCEPT !.got_cb = TRUE, !.cb_stop = IF @ < 0 THEN 0 ELSE @]
  /\ cb' = IF clnt.cb_stop < 0 THEN [cb EXCEPT !.pc = "start"] ELSE SignalCb
  /\ RxGoto("top")
  /\ UNCHANGED <<xid, pc, des, pipe, wakelock, modem, inq, history>>

RxStep ==
  \/ RxLoop \/ RxSetup \/ RxPoll \/ RxCheck \/ RxScan
  \/ RxResetBegin \/ RxResetBeginCb \/ RxResetUnblock \/ RxResetEnd \/ RxResetEndCb
  \/ RxRead \/ RxReply \/ RxCall

----------------------------------------------------------------------------
(* cb_context. *)

CbStart ==
  /\ cb.pc = "start"
  /\ CbGoto("loop")
  /\ UNCHANGED <<clnt, xid, pc, rx, des, pipe, wakelock, modem, inq, history>>

\* Mutant: waits for the signal even when got_cb is set.
CbLoopWaits ==
  /\ cb.pc = "loop"
  /\ CbGoto(IF clnt.cb_stop # 0 THEN "done" ELSE "wait")
  /\ UNCHANGED <<clnt, xid, pc, rx, des, pipe, wakelock, modem, inq, history>>

CbLoop ==
  /\ cb.pc = "loop"
  /\ CbGoto(IF clnt.cb_stop # 0 THEN "done" ELSE IF clnt.got_cb THEN "body" ELSE "wait")
  /\ UNCHANGED <<clnt, xid, pc, rx, des, pipe, wakelock, modem, inq, history>>

\* Also a return of pthread_cond_wait without a signal.
CbWake ==
  /\ cb.pc = "woken" \/ (Spurious /\ cb.pc = "wait")
  /\ CbGoto("body")
  /\ UNCHANGED <<clnt, xid, pc, rx, des, pipe, wakelock, modem, inq, history>>

CbResetNotify ==
  /\ cb.pc = "body" /\ clnt.in_reset # clnt.svc_in_reset
  /\ clnt' = [clnt EXCEPT !.svc_in_reset = clnt.in_reset]
  /\ CbGoto("loop")
  /\ UNCHANGED <<xid, pc, rx, des, pipe, wakelock, modem, inq, history>>

CbNoData ==
  /\ cb.pc = "body" /\ clnt.in_reset = clnt.svc_in_reset /\ ~clnt.got_cb
  /\ CbGoto("loop")
  /\ UNCHANGED <<clnt, xid, pc, rx, des, pipe, wakelock, modem, inq, history>>

\* Mutant: leaves got_cb set.
CbTakeKeeps ==
  /\ cb.pc = "body" /\ clnt.in_reset = clnt.svc_in_reset /\ clnt.got_cb
  /\ \/ clnt.in_msg.kind = "call" /\ CbGoto("clone") /\ UNCHANGED wakelock
     \/ clnt.in_msg.kind # "call" /\ CbGoto("loop") /\ wakelock' = FALSE
  /\ UNCHANGED <<clnt, xid, pc, rx, des, pipe, modem, inq, history>>

\* svc_find looks the program up in in_msg. When there is no server, the
\* buffer is not given back.
CbTake ==
  /\ cb.pc = "body" /\ clnt.in_reset = clnt.svc_in_reset /\ clnt.got_cb
  /\ clnt' = [clnt EXCEPT !.got_cb = FALSE]
  /\ \/ clnt.in_msg.kind = "call" /\ CbGoto("clone") /\ UNCHANGED wakelock
     \/ clnt.in_msg.kind # "call" /\ CbGoto("loop") /\ wakelock' = FALSE
  /\ UNCHANGED <<xid, pc, rx, des, pipe, modem, inq, history>>

\* Mutant: does not mark the buffer as free.
CbCloneKeepsBuffer ==
  /\ cb.pc = "clone"
  /\ cb' = [pc |-> "dispatch", msg |-> clnt.in_msg]
  /\ UNCHANGED <<clnt, xid, pc, rx, des, pipe, wakelock, modem, inq, history>>

CbClone ==
  /\ cb.pc = "clone"
  /\ cb' = [pc |-> "dispatch", msg |-> clnt.in_msg]
  /\ clnt' = [clnt EXCEPT !.input_xdr_busy = FALSE]
  /\ UNCHANGED <<xid, pc, rx, des, pipe, wakelock, modem, inq, history>>

\* loc_api_callback_process_sync_call takes loc_sync_data.lock; then the
\* answer is sent. What is not a CALL is dropped.
SvcDispatch(msg) ==
  \/ /\ msg.kind = "call" /\ SyncLockFree
     /\ served' = Append(served, msg.id)
     /\ modem' = [modem EXCEPT !.unanswered = @ \ {msg.id}]
  \/ msg.kind # "call" /\ UNCHANGED <<served, modem>>

CbDispatch ==
  /\ cb.pc = "dispatch"
  /\ SvcDispatch(cb.msg)
  /\ wakelock' = FALSE
  /\ cb' = [pc |-> "loop", msg |-> NoMsg]
  /\ UNCHANGED <<clnt, xid, pc, rx, des, pipe, inq, failed, calls>>

CbStep ==
  \/ CbStart \/ CbLoop \/ CbWake \/ CbResetNotify \/ CbNoData
  \/ CbTake \/ CbClone \/ CbDispatch

----------------------------------------------------------------------------
(* clnt_destroy. *)

DestroyBegin ==
  /\ MayDestroy /\ des = "idle" /\ LockFree
  /\ des' = IF clnt.cb_stop = 0 THEN "signal" ELSE "unlink"
  /\ clnt' = [clnt EXCEPT !.cb_stop = IF @ = 0 THEN 1 ELSE @]
  /\ UNCHANGED <<xid, pc, rx, cb, pipe, wakelock, modem, inq, history>>

DestroySignal ==
  /\ des = "signal" /\ WaitCbLockFree
  /\ cb' = SignalCb
  /\ des' = "joincb"
  /\ UNCHANGED <<clnt, xid, pc, rx, pipe, wakelock, modem, inq, history>>

DestroyJoinCb ==
  /\ des = "joincb" /\ cb.pc = "done"
  /\ des' = "unlink"
  /\ UNCHANGED <<clnt, xid, pc, rx, cb, pipe, wakelock, modem, inq, history>>

\* rx_mutex stays locked until the receive thread has been joined.
DestroyUnlink ==
  /\ des = "unlink" /\ RxMutexFree
  /\ des' = "joinrx"
  /\ pipe' = TRUE
  /\ UNCHANGED <<clnt, xid, pc, rx, cb, wakelock, modem, inq, history>>

DestroyJoinRx ==
  /\ des = "joinrx" /\ rx.pc = "exited"
  /\ des' = "done"
  /\ UNCHANGED <<clnt, xid, pc, rx, cb, pipe, wakelock, modem, inq, history>>

DestroyStep == DestroySignal \/ DestroyJoinCb \/ DestroyUnlink \/ DestroyJoinRx

----------------------------------------------------------------------------
(* The modem and the router driver. *)

ModemReply ==
  /\ modem.state = "up"
  /\ \E x \in modem.pending :
       /\ modem' = [modem EXCEPT !.pending = @ \ {x}]
       /\ inq' = Append(inq, Reply(x))
  /\ UNCHANGED <<clnt, xid, pc, rx, cb, des, pipe, wakelock, history>>

ModemCall ==
  /\ modem.state = "up" /\ modem.sent < MaxCbs
  /\ Cardinality(modem.unanswered) < MaxOutstanding
  /\ modem' = [modem EXCEPT !.sent = @ + 1, !.unanswered = @ \cup {modem.sent + 1}]
  /\ inq' = Append(inq, [kind |-> "call", id |-> modem.sent + 1])
  /\ UNCHANGED <<clnt, xid, pc, rx, cb, des, pipe, wakelock, history>>

ModemStray ==
  /\ modem.state = "up" /\ modem.strays < MaxStrays
  /\ modem' = [modem EXCEPT !.strays = @ + 1]
  /\ inq' = Append(inq, [kind |-> "stray", id |-> 0])
  /\ UNCHANGED <<clnt, xid, pc, rx, cb, des, pipe, wakelock, history>>

\* The modem forgets the calls, and the router what was not yet read.
ModemReset ==
  /\ modem.state # "down" /\ modem.resets < MaxResets
  /\ modem' = [modem EXCEPT !.state = "down", !.resets = @ + 1,
                            !.pending = {}, !.unanswered = {}]
  /\ inq' = <<>>
  /\ UNCHANGED <<clnt, xid, pc, rx, cb, des, pipe, wakelock, history>>

ModemBack ==
  /\ modem.state = "down"
  /\ modem' = [modem EXCEPT !.state = "back"]
  /\ UNCHANGED <<clnt, xid, pc, rx, cb, des, pipe, wakelock, inq, history>>

ModemStep == ModemCall \/ ModemStray \/ ModemReset

----------------------------------------------------------------------------

Next ==
  \/ \E c \in Callers : CallBegin(c) \/ CallSpurious(c) \/ CallStep(c)
  \/ RxStep \/ CbStep
  \/ DestroyBegin \/ DestroyStep
  \/ ModemReply \/ ModemBack \/ ModemStep

Spec == Init /\ [][Next]_vars

\* Threads that can run do; the modem answers, and comes back from a reset.
Fairness ==
  /\ \A c \in Callers : WF_vars(CallStep(c))
  /\ WF_vars(RxStep) /\ WF_vars(CbStep) /\ WF_vars(DestroyStep)
  /\ WF_vars(ModemReply) /\ WF_vars(ModemBack)

FairSpec == Spec /\ Fairness

----------------------------------------------------------------------------
(* Properties. *)

\* The message that a caller decodes is the reply to its call, and the one
\* that the callback thread was told of is still the CALL.
InBufIntact ==
  /\ \A c \in Callers : pc[c] = "decode" => clnt.in_msg = Reply(xid)
  /\ cb.pc = "clone" => clnt.in_msg.kind = "call"
  /\ clnt.got_cb => clnt.in_msg.kind \in {"call", "stray"}

\* rx_context (line 339) does not read into in_msg while it is in use, as
\* long as no call has ended without its reply and no reset has freed it.
InBufIntactUntilFailure == ~failed => InBufIntact

\* Every CALL reaches svc_dispatch once and in the order of arrival, with
\* the same exception: got_cb and input_xdr_busy hand each over exactly.
CallsServedInOrder ==
  ~failed => \A i \in 1..Len(served) : served[i] = i

\* The wake lock is not held when there is no message to work on: each way
\* out of rx_context and cb_context gives it back.
WakelockForWork ==
  wakelock => \/ rx.pc \in {"reply", "call"}
              \/ clnt.got_cb
              \/ cb.pc \in {"clone", "dispatch"}

\* A call that was sent returns: the reply or a reset wakes it up, although
\* clnt_call waits without a timeout.
CallReturns ==
  \A c \in Callers : pc[c] = "waiting" ~> pc[c] \in {"idle", "lost"}

\* A CALL of the modem is answered, unless the modem restarts.
CallAnswered ==
  \A i \in 1..MaxCbs : i \in modem.unanswered ~> i \notin modem.unanswered

\* clnt_destroy returns: the wake-up pipe ends the receive thread (line 81,
\* line 824).
DestroyReturns == des # "idle" ~> des = "done"
=============================================================================
