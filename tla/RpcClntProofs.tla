--------------------------- MODULE RpcClntProofs ---------------------------
(* Proofs about RpcClnt, for any number of callers, calls and CALLs. *)
EXTENDS RpcClnt, TLAPS

\* client->lock is held by one caller at most.
InCall == {"sending", "waiting", "woken", "decode", "out"}
OneInCall == \A c, d \in Callers : pc[c] \in InCall /\ pc[d] \in InCall => c = d

\* in_reset is set only after the buffer was freed, or on the way there.
ResetInv ==
  /\ clnt.in_reset => failed \/ rx.pc \in {"begincb", "beginend"}
  /\ rx.pc \in {"end", "endcb"} => failed

\* XIDs are not used twice: no reply to a call that is not sent yet is about.
\* What the router holds is a message.
Fresh ==
  /\ \A i \in 1..Len(inq) : inq[i].kind # "none"
  /\ \A x \in modem.pending : x <= xid
  /\ \A i \in 1..Len(inq) : inq[i].kind = "reply" => inq[i].id <= xid
  /\ clnt.in_msg.kind = "reply" => clnt.in_msg.id <= xid
  /\ \A c \in Callers : pc[c] = "sending" =>
       /\ xid \notin modem.pending
       /\ \A i \in 1..Len(inq) : inq[i] # Reply(xid)
       /\ clnt.in_msg # Reply(xid)

\* A CALL is in the buffer and has not been copied yet.
CallInBuf == rx.pc = "call" \/ clnt.got_cb \/ cb.pc = "clone"

\* input_xdr_busy covers every use of the buffer.
BufInv ==
  /\ CallInBuf => clnt.input_xdr_busy /\ clnt.in_msg.kind \in {"call", "stray"}
  /\ cb.pc = "clone" => clnt.in_msg.kind = "call" /\ ~clnt.got_cb
  /\ rx.pc = "call" => ~clnt.got_cb /\ cb.pc # "clone"
  /\ \A c \in Callers : pc[c] \in {"decode", "out"} => clnt.in_msg = Reply(xid)
  /\ \A c \in Callers :
       pc[c] \in {"waiting", "woken", "decode", "out"} /\ clnt.in_msg = Reply(xid)
         => clnt.input_xdr_busy

\* The CALLs that were copied for svc_dispatch, and those that were read.
CallWaits == CallInBuf /\ clnt.in_msg.kind = "call"
Dispatched == Len(served) + (IF cb.pc = "dispatch" THEN 1 ELSE 0)
Taken == Dispatched + (IF CallWaits THEN 1 ELSE 0)

\* The CALLs on their way follow those that were served, in order, and none
\* is missing.
PipeInv ==
  /\ \A i \in 1..Len(served) : served[i] = i
  /\ cb.pc = "dispatch" => cb.msg.kind = "call" /\ cb.msg.id = Len(served) + 1
  /\ CallWaits => clnt.in_msg.id = Dispatched + 1
  /\ Taken <= modem.sent
  /\ modem.state # "up" => inq = <<>>
  /\ \A i \in 1..Len(inq) :
       inq[i].kind = "call" => Taken < inq[i].id /\ inq[i].id <= modem.sent
  /\ \A i, j \in 1..Len(inq) :
       i < j /\ inq[i].kind = "call" /\ inq[j].kind = "call" => inq[i].id < inq[j].id
  /\ modem.state = "up" =>
       \A n \in Nat : Taken < n /\ n <= modem.sent =>
         \E i \in 1..Len(inq) : inq[i].kind = "call" /\ inq[i].id = n

RpcInv ==
  /\ TypeOK /\ WakelockForWork /\ OneInCall /\ ResetInv
  /\ ~failed => Fresh /\ BufInv /\ PipeInv

(* What the assignments of the code do to the records keeps their types. *)
LEMMA ClntUpdates ==
  ASSUME NEW k \in ClntType
  PROVE  /\ \A b \in BOOLEAN : [k EXCEPT !.in_reset = b] \in ClntType
         /\ \A b \in BOOLEAN : [k EXCEPT !.input_xdr_busy = b] \in ClntType
         /\ \A b \in BOOLEAN : [k EXCEPT !.got_cb = b] \in ClntType
         /\ \A m \in Msg : [k EXCEPT !.in_msg = m, !.input_xdr_busy = TRUE] \in ClntType
         /\ [k EXCEPT !.got_cb = TRUE, !.cb_stop = IF @ < 0 THEN 0 ELSE @] \in ClntType
         /\ [k EXCEPT !.cb_stop = IF @ = 0 THEN 1 ELSE @] \in ClntType
         /\ [k EXCEPT !.svc_in_reset = k.in_reset] \in ClntType
  BY DEF ClntType

LEMMA RxUpdates ==
  ASSUME NEW r \in RxType
  PROVE  /\ \A l \in RxPc : [r EXCEPT !.pc = l] \in RxType
         /\ \A b \in BOOLEAN : [r EXCEPT !.pc = "poll", !.out = b] \in RxType
         /\ \A e \in SUBSET {"in", "out", "rdhup"} :
              [r EXCEPT !.pc = "check", !.events = e] \in RxType
  BY DEF RxType, RxPc

LEMMA CbUpdates ==
  ASSUME NEW r \in CbType
  PROVE  /\ \A l \in CbPc : [r EXCEPT !.pc = l] \in CbType
         /\ [r EXCEPT !.pc = IF @ = "wait" THEN "woken" ELSE @] \in CbType
         /\ \A m \in Msg, l \in CbPc : [pc |-> l, msg |-> m] \in CbType
  BY DEF CbType, CbPc

LEMMA ModemUpdates ==
  ASSUME NEW m \in ModemType, NEW x \in Nat
  PROVE  /\ [m EXCEPT !.pending = @ \cup {x}] \in ModemType
         /\ [m EXCEPT !.pending = @ \ {x}] \in ModemType
         /\ [m EXCEPT !.unanswered = @ \ {x}] \in ModemType
         /\ [m EXCEPT !.sent = @ + 1, !.unanswered = @ \cup {m.sent + 1}] \in ModemType
         /\ [m EXCEPT !.strays = @ + 1] \in ModemType
         /\ [m EXCEPT !.state = "down", !.resets = @ + 1,
                      !.pending = {}, !.unanswered = {}] \in ModemType
         /\ [m EXCEPT !.state = "back"] \in ModemType
         /\ [m EXCEPT !.state = IF @ = "back" THEN "up" ELSE @] \in ModemType
         /\ m.pending \subseteq Nat /\ m.sent \in Nat
<1> USE DEF ModemType
<1>1. [m EXCEPT !.pending = @ \cup {x}] \in ModemType
  OBVIOUS
<1>2. [m EXCEPT !.pending = @ \ {x}] \in ModemType
  OBVIOUS
<1>3. [m EXCEPT !.unanswered = @ \ {x}] \in ModemType
  OBVIOUS
<1>4. [m EXCEPT !.sent = @ + 1, !.unanswered = @ \cup {m.sent + 1}] \in ModemType
  <2>1. \A a \in Nat, S \in SUBSET Nat : [m EXCEPT !.sent = a, !.unanswered = S] \in ModemType
    OBVIOUS
  <2>2. m.sent + 1 \in Nat /\ m.unanswered \cup {m.sent + 1} \in SUBSET Nat
    OBVIOUS
  <2>3. QED
    BY ONLY <2>1, <2>2
<1>5. [m EXCEPT !.strays = @ + 1] \in ModemType
  OBVIOUS
<1>6. [m EXCEPT !.state = "down", !.resets = @ + 1,
                !.pending = {}, !.unanswered = {}] \in ModemType
  <2>1. \A a \in Nat, S, T \in SUBSET Nat :
          [m EXCEPT !.state = "down", !.resets = a, !.pending = S, !.unanswered = T]
            \in ModemType
    OBVIOUS
  <2>2. m.resets + 1 \in Nat /\ {} \in SUBSET Nat
    OBVIOUS
  <2>3. QED
    BY ONLY <2>1, <2>2
<1>7. [m EXCEPT !.state = "back"] \in ModemType
  OBVIOUS
<1>8. [m EXCEPT !.state = IF @ = "back" THEN "up" ELSE @] \in ModemType
  OBVIOUS
<1>9. m.pending \subseteq Nat /\ m.sent \in Nat
  OBVIOUS
<1>10. QED
  BY <1>1, <1>2, <1>3, <1>4, <1>5, <1>6, <1>7, <1>8, <1>9

(* Every step keeps the types. *)
LEMMA TypeStep == TypeOK /\ [Next]_vars => TypeOK'
<1> SUFFICES ASSUME TypeOK, [Next]_vars PROVE TypeOK'
  OBVIOUS
<1> USE DEF history
<1>1. ASSUME NEW c \in Callers, CallBegin(c) PROVE TypeOK'
  BY <1>1 DEF CallBegin, CallerGoto, TypeOK, CallerPc
<1>2. ASSUME NEW c \in Callers, CallLock(c) PROVE TypeOK'
  BY <1>2 DEF CallLock, CallerGoto, TypeOK, CallerPc
<1>3. ASSUME NEW c \in Callers, CallSend(c) PROVE TypeOK'
  <2>1. modem \in ModemType /\ xid \in Nat
    BY DEF TypeOK
  <2>2. modem' \in ModemType
    BY <1>3, <2>1, ModemUpdates DEF CallSend
  <2>3. QED
    BY <1>3, <2>2 DEF CallSend, CallerGoto, TypeOK, CallerPc
<1>4. ASSUME NEW c \in Callers, CallSpurious(c) PROVE TypeOK'
  BY <1>4 DEF CallSpurious, CallerGoto, TypeOK, CallerPc
<1>5. ASSUME NEW c \in Callers, CallWake(c) PROVE TypeOK'
  BY <1>5 DEF CallWake, CallerGoto, Reply, TypeOK, CallerPc
<1>6. ASSUME NEW c \in Callers, CallDecode(c) PROVE TypeOK'
  BY <1>6 DEF CallDecode, CallerGoto, TypeOK, CallerPc
<1>7. ASSUME NEW c \in Callers, CallOut(c) PROVE TypeOK'
  BY <1>7, ClntUpdates DEF CallOut, CallerGoto, TypeOK, CallerPc
<1>8. CASE RxLoop
  BY <1>8, RxUpdates DEF RxLoop, RxGoto, TypeOK, RxPc, RxHolding
<1>9. CASE RxSetup
  BY <1>9, RxUpdates DEF RxSetup, TypeOK, RxPc, RxHolding, ClntType
<1>10. CASE RxPoll
  BY <1>10, RxUpdates DEF RxPoll, Ready, TypeOK, RxPc, RxHolding
<1>11. CASE RxCheck
  BY <1>11, RxUpdates DEF RxCheck, RxGoto, TypeOK, RxPc, RxHolding
<1>12. CASE RxScan
  BY <1>12, RxUpdates DEF RxScan, RxGoto, TypeOK, RxPc, RxHolding
<1>13. CASE RxResetBegin
  BY <1>13, ClntUpdates, RxUpdates DEF RxResetBegin, RxGoto, SignalReply,
      TypeOK, RxPc, RxHolding, CallerPc
<1>14. CASE RxResetBeginCb
  BY <1>14, RxUpdates, CbUpdates DEF RxResetBeginCb, RxGoto, SignalCb, TypeOK,
      RxPc, RxHolding, CbPc, CbHolding
<1>15. CASE RxResetUnblock
  BY <1>15, ClntUpdates, RxUpdates DEF RxResetUnblock, RxGoto, TypeOK, RxPc,
      RxHolding
<1>16. CASE RxResetEnd
  BY <1>16, ClntUpdates, RxUpdates, ModemUpdates DEF RxResetEnd, RxGoto, TypeOK,
      RxPc, RxHolding
<1>17. CASE RxResetEndCb
  BY <1>17, RxUpdates, CbUpdates DEF RxResetEndCb, RxGoto, SignalCb, TypeOK,
      RxPc, RxHolding, CbPc, CbHolding
<1>18. CASE RxRead
  <2>1. inq # <<>> => Head(inq) \in Msg /\ Tail(inq) \in Seq(Msg)
    BY DEF TypeOK
  <2>2. clnt' \in ClntType
    BY ZenonT(60), <1>18, <2>1, ClntUpdates DEF RxRead, TypeOK
  <2>3. inq' \in Seq(Msg)
    BY <1>18, <2>1 DEF RxRead, TypeOK
  <2>4. rx' \in RxType
    <3>1. PICK l \in RxPc : RxGoto(l)
      BY <1>18 DEF RxRead, RxPc, RxHolding
    <3>2. QED
      BY <3>1, RxUpdates DEF RxGoto, TypeOK
  <2>5. QED
    BY <1>18, <2>2, <2>3, <2>4 DEF RxRead, TypeOK
<1>19. CASE RxReply
  BY <1>19, RxUpdates DEF RxReply, RxGoto, SignalReply, TypeOK, RxPc, RxHolding,
      CallerPc
<1>20. CASE RxCall
  BY <1>20, ClntUpdates, RxUpdates, CbUpdates DEF RxCall, RxGoto, SignalCb,
      TypeOK, RxPc, RxHolding, CbPc, CbHolding
<1>21. CASE CbStart
  BY <1>21, CbUpdates DEF CbStart, CbGoto, TypeOK, CbPc, CbHolding
<1>22. CASE CbLoop
  BY <1>22, CbUpdates DEF CbLoop, CbGoto, TypeOK, CbPc, CbHolding
<1>23. CASE CbWake
  BY <1>23, CbUpdates DEF CbWake, CbGoto, TypeOK, CbPc, CbHolding
<1>24. CASE CbResetNotify
  BY <1>24, ClntUpdates, CbUpdates DEF CbResetNotify, CbGoto, TypeOK, CbPc,
      CbHolding
<1>25. CASE CbNoData
  BY <1>25, CbUpdates DEF CbNoData, CbGoto, TypeOK, CbPc, CbHolding
<1>26. CASE CbTake
  <2>1. clnt' \in ClntType
    BY <1>26, ClntUpdates DEF CbTake, TypeOK
  <2>2. cb' \in CbType
    <3>1. PICK l \in CbPc : CbGoto(l)
      BY <1>26 DEF CbTake, CbPc, CbHolding
    <3>2. QED
      BY <3>1, CbUpdates DEF CbGoto, TypeOK
  <2>3. wakelock' \in BOOLEAN
    BY <1>26 DEF CbTake, TypeOK
  <2>4. QED
    BY <1>26, <2>1, <2>2, <2>3 DEF CbTake, TypeOK
<1>27. CASE CbClone
  <2>1. clnt.in_msg \in Msg
    BY DEF TypeOK, ClntType
  <2>2. clnt' \in ClntType
    BY <1>27, ClntUpdates DEF CbClone, TypeOK
  <2>3. cb' \in CbType
    BY <1>27, <2>1 DEF CbClone, CbType, CbPc, CbHolding
  <2>4. QED
    BY <1>27, <2>2, <2>3 DEF CbClone, TypeOK
<1>28. CASE CbDispatch
  <2>1. cb.msg.id \in Nat
    BY DEF TypeOK, CbType, Msg
  <2>2. modem' \in ModemType
    BY <1>28, <2>1, ModemUpdates DEF CbDispatch, SvcDispatch, TypeOK
  <2>3. cb' \in CbType
    BY <1>28 DEF CbDispatch, CbType, CbPc, CbHolding, NoMsg, Msg
  <2>4. served' \in Seq(Nat)
    <3>1. served \in Seq(Nat) /\ (served' = Append(served, cb.msg.id) \/ served' = served)
      BY <1>28 DEF CbDispatch, SvcDispatch, TypeOK
    <3>2. QED
      BY <2>1, <3>1
  <2>5. QED
    BY <1>28, <2>2, <2>3, <2>4 DEF CbDispatch, TypeOK
<1>29. CASE DestroyBegin
  BY <1>29, ClntUpdates DEF DestroyBegin, TypeOK, DesPc
<1>30. CASE DestroySignal
  BY <1>30, CbUpdates DEF DestroySignal, SignalCb, TypeOK, CbPc, CbHolding,
      DesPc
<1>31. CASE DestroyJoinCb
  BY <1>31 DEF DestroyJoinCb, TypeOK, DesPc
<1>32. CASE DestroyUnlink
  BY <1>32 DEF DestroyUnlink, TypeOK, DesPc
<1>33. CASE DestroyJoinRx
  BY <1>33 DEF DestroyJoinRx, TypeOK, DesPc
<1>34. CASE ModemReply
  <2>1. PICK x \in modem.pending : /\ modem' = [modem EXCEPT !.pending = @ \ {x}]
                                    /\ inq' = Append(inq, Reply(x))
    BY <1>34 DEF ModemReply
  <2>2. modem \in ModemType /\ x \in Nat
    BY DEF TypeOK, ModemType
  <2>3. modem' \in ModemType
    BY <2>1, <2>2, ModemUpdates
  <2>4. inq' \in Seq(Msg)
    BY <2>1, <2>2 DEF Reply, Msg, TypeOK
  <2>5. QED
    BY <1>34, <2>3, <2>4 DEF ModemReply, TypeOK
<1>35. CASE ModemCall
  <2>1. modem' \in ModemType
    BY <1>35, ModemUpdates DEF ModemCall, TypeOK
  <2>2. modem.sent + 1 \in Nat
    BY DEF TypeOK, ModemType
  <2>3. inq' \in Seq(Msg)
    BY <1>35, <2>2 DEF ModemCall, Msg, TypeOK
  <2>4. QED
    BY <1>35, <2>1, <2>3 DEF ModemCall, TypeOK
<1>36. CASE ModemStray
  <2>1. modem' \in ModemType
    BY <1>36, ModemUpdates DEF ModemStray, TypeOK
  <2>2. inq' \in Seq(Msg)
    BY <1>36 DEF ModemStray, Msg, TypeOK
  <2>3. QED
    BY <1>36, <2>1, <2>2 DEF ModemStray, TypeOK
<1>37. CASE ModemReset
  <2>1. modem' \in ModemType
    BY <1>37, ModemUpdates DEF ModemReset, TypeOK
  <2>2. QED
    BY <1>37, <2>1 DEF ModemReset, TypeOK
<1>38. CASE ModemBack
  BY <1>38, ModemUpdates DEF ModemBack, TypeOK
<1>39. CASE UNCHANGED vars
  BY <1>39 DEF vars, TypeOK
<1>40. QED
  BY <1>1, <1>2, <1>3, <1>4, <1>5, <1>6, <1>7, <1>8, <1>9, <1>10, <1>11, <1>12,
      <1>13, <1>14, <1>15, <1>16, <1>17, <1>18, <1>19, <1>20, <1>21, <1>22,
      <1>23, <1>24, <1>25, <1>26, <1>27, <1>28, <1>29, <1>30, <1>31, <1>32,
      <1>33, <1>34, <1>35, <1>36, <1>37, <1>38, <1>39
  DEF Next, CallStep, RxStep, CbStep, DestroyStep, ModemStep

(* Every step keeps WakelockForWork. *)
LEMMA WakeStep == TypeOK /\ WakelockForWork /\ [Next]_vars => WakelockForWork'
<1> SUFFICES ASSUME TypeOK, WakelockForWork, [Next]_vars PROVE WakelockForWork'
  OBVIOUS
<1> USE DEF history
<1>1. ASSUME NEW c \in Callers, CallBegin(c) PROVE WakelockForWork'
  BY <1>1 DEF CallBegin, CallerGoto, WakelockForWork, TypeOK, ClntType, RxType,
      CbType, ModemType, CallerPc, RxPc, RxHolding, CbPc, CbHolding, DesPc, Msg
<1>2. ASSUME NEW c \in Callers, CallLock(c) PROVE WakelockForWork'
  BY <1>2 DEF CallLock, CallerGoto, WakelockForWork, TypeOK, ClntType, RxType,
      CbType, ModemType, CallerPc, RxPc, RxHolding, CbPc, CbHolding, DesPc, Msg
<1>3. ASSUME NEW c \in Callers, CallSend(c) PROVE WakelockForWork'
  BY <1>3 DEF CallSend, CallerGoto, WakelockForWork, TypeOK, ClntType, RxType,
      CbType, ModemType, CallerPc, RxPc, RxHolding, CbPc, CbHolding, DesPc, Msg
<1>4. ASSUME NEW c \in Callers, CallSpurious(c) PROVE WakelockForWork'
  BY <1>4 DEF CallSpurious, CallerGoto, WakelockForWork, TypeOK, ClntType,
      RxType, CbType, ModemType, CallerPc, RxPc, RxHolding, CbPc, CbHolding,
      DesPc, Msg
<1>5. ASSUME NEW c \in Callers, CallWake(c) PROVE WakelockForWork'
  BY <1>5 DEF CallWake, CallerGoto, Reply, WakelockForWork, TypeOK, ClntType,
      RxType, CbType, ModemType, CallerPc, RxPc, RxHolding, CbPc, CbHolding,
      DesPc, Msg
<1>6. ASSUME NEW c \in Callers, CallDecode(c) PROVE WakelockForWork'
  BY <1>6 DEF CallDecode, CallerGoto, WakelockForWork, TypeOK, ClntType, RxType,
      CbType, ModemType, CallerPc, RxPc, RxHolding, CbPc, CbHolding, DesPc, Msg
<1>7. ASSUME NEW c \in Callers, CallOut(c) PROVE WakelockForWork'
  BY <1>7 DEF CallOut, CallerGoto, WakelockForWork, TypeOK, ClntType, RxType,
      CbType, ModemType, CallerPc, RxPc, RxHolding, CbPc, CbHolding, DesPc, Msg
<1>8. CASE RxLoop
  BY <1>8 DEF RxLoop, RxGoto, WakelockForWork, TypeOK, ClntType, RxType, CbType,
      ModemType, CallerPc, RxPc, RxHolding, CbPc, CbHolding, DesPc, Msg
<1>9. CASE RxSetup
  BY <1>9 DEF RxSetup, WakelockForWork, TypeOK, ClntType, RxType, CbType,
      ModemType, CallerPc, RxPc, RxHolding, CbPc, CbHolding, DesPc, Msg
<1>10. CASE RxPoll
  BY <1>10 DEF RxPoll, Ready, WakelockForWork, TypeOK, ClntType, RxType, CbType,
      ModemType, CallerPc, RxPc, RxHolding, CbPc, CbHolding, DesPc, Msg
<1>11. CASE RxCheck
  BY <1>11 DEF RxCheck, RxGoto, WakelockForWork, TypeOK, ClntType, RxType,
      CbType, ModemType, CallerPc, RxPc, RxHolding, CbPc, CbHolding, DesPc, Msg
<1>12. CASE RxScan
  BY <1>12 DEF RxScan, RxGoto, WakelockForWork, TypeOK, ClntType, RxType,
      CbType, ModemType, CallerPc, RxPc, RxHolding, CbPc, CbHolding, DesPc, Msg
<1>13. CASE RxResetBegin
  BY <1>13 DEF RxResetBegin, RxGoto, SignalReply, WakelockForWork, TypeOK,
      ClntType, RxType, CbType, ModemType, CallerPc, RxPc, RxHolding, CbPc,
      CbHolding, DesPc, Msg
<1>14. CASE RxResetBeginCb
  BY <1>14 DEF RxResetBeginCb, RxGoto, SignalCb, WakelockForWork, TypeOK,
      ClntType, RxType, CbType, ModemType, CallerPc, RxPc, RxHolding, CbPc,
      CbHolding, DesPc, Msg
<1>15. CASE RxResetUnblock
  BY <1>15 DEF RxResetUnblock, RxGoto, WakelockForWork, TypeOK, ClntType,
      RxType, CbType, ModemType, CallerPc, RxPc, RxHolding, CbPc, CbHolding,
      DesPc, Msg
<1>16. CASE RxResetEnd
  BY <1>16 DEF RxResetEnd, RxGoto, WakelockForWork, TypeOK, ClntType, RxType,
      CbType, ModemType, CallerPc, RxPc, RxHolding, CbPc, CbHolding, DesPc, Msg
<1>17. CASE RxResetEndCb
  BY <1>17 DEF RxResetEndCb, RxGoto, SignalCb, WakelockForWork, TypeOK,
      ClntType, RxType, CbType, ModemType, CallerPc, RxPc, RxHolding, CbPc,
      CbHolding, DesPc, Msg
<1>18. CASE RxRead
  BY <1>18 DEF RxRead, RxGoto, WakelockForWork, TypeOK, ClntType, RxType,
      CbType, ModemType, CallerPc, RxPc, RxHolding, CbPc, CbHolding, DesPc, Msg
<1>19. CASE RxReply
  BY <1>19 DEF RxReply, RxGoto, SignalReply, WakelockForWork, TypeOK, ClntType,
      RxType, CbType, ModemType, CallerPc, RxPc, RxHolding, CbPc, CbHolding,
      DesPc, Msg
<1>20. CASE RxCall
  BY <1>20 DEF RxCall, RxGoto, SignalCb, WakelockForWork, TypeOK, ClntType,
      RxType, CbType, ModemType, CallerPc, RxPc, RxHolding, CbPc, CbHolding,
      DesPc, Msg
<1>21. CASE CbStart
  BY <1>21 DEF CbStart, CbGoto, WakelockForWork, TypeOK, ClntType, RxType,
      CbType, ModemType, CallerPc, RxPc, RxHolding, CbPc, CbHolding, DesPc, Msg
<1>22. CASE CbLoop
  BY <1>22 DEF CbLoop, CbGoto, WakelockForWork, TypeOK, ClntType, RxType,
      CbType, ModemType, CallerPc, RxPc, RxHolding, CbPc, CbHolding, DesPc, Msg
<1>23. CASE CbWake
  BY <1>23 DEF CbWake, CbGoto, WakelockForWork, TypeOK, ClntType, RxType,
      CbType, ModemType, CallerPc, RxPc, RxHolding, CbPc, CbHolding, DesPc, Msg
<1>24. CASE CbResetNotify
  BY <1>24 DEF CbResetNotify, CbGoto, WakelockForWork, TypeOK, ClntType, RxType,
      CbType, ModemType, CallerPc, RxPc, RxHolding, CbPc, CbHolding, DesPc, Msg
<1>25. CASE CbNoData
  BY <1>25 DEF CbNoData, CbGoto, WakelockForWork, TypeOK, ClntType, RxType,
      CbType, ModemType, CallerPc, RxPc, RxHolding, CbPc, CbHolding, DesPc, Msg
<1>26. CASE CbTake
  BY <1>26 DEF CbTake, CbGoto, WakelockForWork, TypeOK, ClntType, RxType,
      CbType, ModemType, CallerPc, RxPc, RxHolding, CbPc, CbHolding, DesPc, Msg
<1>27. CASE CbClone
  BY <1>27 DEF CbClone, WakelockForWork, TypeOK, ClntType, RxType, CbType,
      ModemType, CallerPc, RxPc, RxHolding, CbPc, CbHolding, DesPc, Msg
<1>28. CASE CbDispatch
  BY <1>28 DEF CbDispatch, SvcDispatch, NoMsg, WakelockForWork, TypeOK,
      ClntType, RxType, CbType, ModemType, CallerPc, RxPc, RxHolding, CbPc,
      CbHolding, DesPc, Msg
<1>29. CASE DestroyBegin
  BY <1>29 DEF DestroyBegin, WakelockForWork, TypeOK, ClntType, RxType, CbType,
      ModemType, CallerPc, RxPc, RxHolding, CbPc, CbHolding, DesPc, Msg
<1>30. CASE DestroySignal
  BY <1>30 DEF DestroySignal, SignalCb, WakelockForWork, TypeOK, ClntType,
      RxType, CbType, ModemType, CallerPc, RxPc, RxHolding, CbPc, CbHolding,
      DesPc, Msg
<1>31. CASE DestroyJoinCb
  BY <1>31 DEF DestroyJoinCb, WakelockForWork, TypeOK, ClntType, RxType, CbType,
      ModemType, CallerPc, RxPc, RxHolding, CbPc, CbHolding, DesPc, Msg
<1>32. CASE DestroyUnlink
  BY <1>32 DEF DestroyUnlink, WakelockForWork, TypeOK, ClntType, RxType, CbType,
      ModemType, CallerPc, RxPc, RxHolding, CbPc, CbHolding, DesPc, Msg
<1>33. CASE DestroyJoinRx
  BY <1>33 DEF DestroyJoinRx, WakelockForWork, TypeOK, ClntType, RxType, CbType,
      ModemType, CallerPc, RxPc, RxHolding, CbPc, CbHolding, DesPc, Msg
<1>34. CASE ModemReply
  BY <1>34 DEF ModemReply, Reply, WakelockForWork, TypeOK, ClntType, RxType,
      CbType, ModemType, CallerPc, RxPc, RxHolding, CbPc, CbHolding, DesPc, Msg
<1>35. CASE ModemCall
  BY <1>35 DEF ModemCall, WakelockForWork, TypeOK, ClntType, RxType, CbType,
      ModemType, CallerPc, RxPc, RxHolding, CbPc, CbHolding, DesPc, Msg
<1>36. CASE ModemStray
  BY <1>36 DEF ModemStray, WakelockForWork, TypeOK, ClntType, RxType, CbType,
      ModemType, CallerPc, RxPc, RxHolding, CbPc, CbHolding, DesPc, Msg
<1>37. CASE ModemReset
  BY <1>37 DEF ModemReset, WakelockForWork, TypeOK, ClntType, RxType, CbType,
      ModemType, CallerPc, RxPc, RxHolding, CbPc, CbHolding, DesPc, Msg
<1>38. CASE ModemBack
  BY <1>38 DEF ModemBack, WakelockForWork, TypeOK, ClntType, RxType, CbType,
      ModemType, CallerPc, RxPc, RxHolding, CbPc, CbHolding, DesPc, Msg
<1>39. CASE UNCHANGED vars
  BY <1>39 DEF vars, WakelockForWork, TypeOK, ClntType, RxType, CbType,
      ModemType, CallerPc, RxPc, RxHolding, CbPc, CbHolding, DesPc, Msg
<1>40. QED
  BY <1>1, <1>2, <1>3, <1>4, <1>5, <1>6, <1>7, <1>8, <1>9, <1>10, <1>11, <1>12,
      <1>13, <1>14, <1>15, <1>16, <1>17, <1>18, <1>19, <1>20, <1>21, <1>22,
      <1>23, <1>24, <1>25, <1>26, <1>27, <1>28, <1>29, <1>30, <1>31, <1>32,
      <1>33, <1>34, <1>35, <1>36, <1>37, <1>38, <1>39
  DEF Next, CallStep, RxStep, CbStep, DestroyStep, ModemStep

(* Every step keeps one caller inside. *)
LEMMA LockStep == TypeOK /\ OneInCall /\ [Next]_vars => OneInCall'
<1> SUFFICES ASSUME TypeOK, OneInCall, [Next]_vars PROVE OneInCall'
  OBVIOUS
<1> USE DEF history
<1>1. ASSUME NEW c \in Callers, CallBegin(c) PROVE OneInCall'
  BY <1>1 DEF CallBegin, CallerGoto, OneInCall, InCall, LockFree, TypeOK,
      ClntType, RxType, CbType, ModemType, CallerPc, RxPc, RxHolding, CbPc,
      CbHolding, DesPc, Msg
<1>2. ASSUME NEW c \in Callers, CallLock(c) PROVE OneInCall'
  <2>1. \A d \in Callers : pc[d] \notin InCall
    BY <1>2 DEF CallLock, LockFree, InCall
  <2>2. \A d \in Callers : d # c => pc'[d] = pc[d]
    BY <1>2 DEF CallLock, CallerGoto, TypeOK
  <2>3. QED
    BY <2>1, <2>2 DEF OneInCall
<1>3. ASSUME NEW c \in Callers, CallSend(c) PROVE OneInCall'
  BY <1>3 DEF CallSend, CallerGoto, OneInCall, InCall, LockFree, TypeOK,
      ClntType, RxType, CbType, ModemType, CallerPc, RxPc, RxHolding, CbPc,
      CbHolding, DesPc, Msg
<1>4. ASSUME NEW c \in Callers, CallSpurious(c) PROVE OneInCall'
  BY <1>4 DEF CallSpurious, CallerGoto, OneInCall, InCall, LockFree, TypeOK,
      ClntType, RxType, CbType, ModemType, CallerPc, RxPc, RxHolding, CbPc,
      CbHolding, DesPc, Msg
<1>5. ASSUME NEW c \in Callers, CallWake(c) PROVE OneInCall'
  BY <1>5 DEF CallWake, CallerGoto, Reply, OneInCall, InCall, LockFree, TypeOK,
      ClntType, RxType, CbType, ModemType, CallerPc, RxPc, RxHolding, CbPc,
      CbHolding, DesPc, Msg
<1>6. ASSUME NEW c \in Callers, CallDecode(c) PROVE OneInCall'
  BY <1>6 DEF CallDecode, CallerGoto, OneInCall, InCall, LockFree, TypeOK,
      ClntType, RxType, CbType, ModemType, CallerPc, RxPc, RxHolding, CbPc,
      CbHolding, DesPc, Msg
<1>7. ASSUME NEW c \in Callers, CallOut(c) PROVE OneInCall'
  BY <1>7 DEF CallOut, CallerGoto, OneInCall, InCall, LockFree, TypeOK,
      ClntType, RxType, CbType, ModemType, CallerPc, RxPc, RxHolding, CbPc,
      CbHolding, DesPc, Msg
<1>8. CASE RxLoop
  BY <1>8 DEF RxLoop, RxGoto, OneInCall, InCall, LockFree, TypeOK, ClntType,
      RxType, CbType, ModemType, CallerPc, RxPc, RxHolding, CbPc, CbHolding,
      DesPc, Msg
<1>9. CASE RxSetup
  BY <1>9 DEF RxSetup, OneInCall, InCall, LockFree, TypeOK, ClntType, RxType,
      CbType, ModemType, CallerPc, RxPc, RxHolding, CbPc, CbHolding, DesPc, Msg
<1>10. CASE RxPoll
  BY <1>10 DEF RxPoll, Ready, OneInCall, InCall, LockFree, TypeOK, ClntType,
      RxType, CbType, ModemType, CallerPc, RxPc, RxHolding, CbPc, CbHolding,
      DesPc, Msg
<1>11. CASE RxCheck
  BY <1>11 DEF RxCheck, RxGoto, OneInCall, InCall, LockFree, TypeOK, ClntType,
      RxType, CbType, ModemType, CallerPc, RxPc, RxHolding, CbPc, CbHolding,
      DesPc, Msg
<1>12. CASE RxScan
  BY <1>12 DEF RxScan, RxGoto, OneInCall, InCall, LockFree, TypeOK, ClntType,
      RxType, CbType, ModemType, CallerPc, RxPc, RxHolding, CbPc, CbHolding,
      DesPc, Msg
<1>13. CASE RxResetBegin
  BY <1>13 DEF RxResetBegin, RxGoto, SignalReply, OneInCall, InCall, LockFree,
      TypeOK, ClntType, RxType, CbType, ModemType, CallerPc, RxPc, RxHolding,
      CbPc, CbHolding, DesPc, Msg
<1>14. CASE RxResetBeginCb
  BY <1>14 DEF RxResetBeginCb, RxGoto, SignalCb, OneInCall, InCall, LockFree,
      TypeOK, ClntType, RxType, CbType, ModemType, CallerPc, RxPc, RxHolding,
      CbPc, CbHolding, DesPc, Msg
<1>15. CASE RxResetUnblock
  BY <1>15 DEF RxResetUnblock, RxGoto, OneInCall, InCall, LockFree, TypeOK,
      ClntType, RxType, CbType, ModemType, CallerPc, RxPc, RxHolding, CbPc,
      CbHolding, DesPc, Msg
<1>16. CASE RxResetEnd
  BY <1>16 DEF RxResetEnd, RxGoto, OneInCall, InCall, LockFree, TypeOK,
      ClntType, RxType, CbType, ModemType, CallerPc, RxPc, RxHolding, CbPc,
      CbHolding, DesPc, Msg
<1>17. CASE RxResetEndCb
  BY <1>17 DEF RxResetEndCb, RxGoto, SignalCb, OneInCall, InCall, LockFree,
      TypeOK, ClntType, RxType, CbType, ModemType, CallerPc, RxPc, RxHolding,
      CbPc, CbHolding, DesPc, Msg
<1>18. CASE RxRead
  BY <1>18 DEF RxRead, RxGoto, OneInCall, InCall, LockFree, TypeOK, ClntType,
      RxType, CbType, ModemType, CallerPc, RxPc, RxHolding, CbPc, CbHolding,
      DesPc, Msg
<1>19. CASE RxReply
  BY <1>19 DEF RxReply, RxGoto, SignalReply, OneInCall, InCall, LockFree,
      TypeOK, ClntType, RxType, CbType, ModemType, CallerPc, RxPc, RxHolding,
      CbPc, CbHolding, DesPc, Msg
<1>20. CASE RxCall
  BY <1>20 DEF RxCall, RxGoto, SignalCb, OneInCall, InCall, LockFree, TypeOK,
      ClntType, RxType, CbType, ModemType, CallerPc, RxPc, RxHolding, CbPc,
      CbHolding, DesPc, Msg
<1>21. CASE CbStart
  BY <1>21 DEF CbStart, CbGoto, OneInCall, InCall, LockFree, TypeOK, ClntType,
      RxType, CbType, ModemType, CallerPc, RxPc, RxHolding, CbPc, CbHolding,
      DesPc, Msg
<1>22. CASE CbLoop
  BY <1>22 DEF CbLoop, CbGoto, OneInCall, InCall, LockFree, TypeOK, ClntType,
      RxType, CbType, ModemType, CallerPc, RxPc, RxHolding, CbPc, CbHolding,
      DesPc, Msg
<1>23. CASE CbWake
  BY <1>23 DEF CbWake, CbGoto, OneInCall, InCall, LockFree, TypeOK, ClntType,
      RxType, CbType, ModemType, CallerPc, RxPc, RxHolding, CbPc, CbHolding,
      DesPc, Msg
<1>24. CASE CbResetNotify
  BY <1>24 DEF CbResetNotify, CbGoto, OneInCall, InCall, LockFree, TypeOK,
      ClntType, RxType, CbType, ModemType, CallerPc, RxPc, RxHolding, CbPc,
      CbHolding, DesPc, Msg
<1>25. CASE CbNoData
  BY <1>25 DEF CbNoData, CbGoto, OneInCall, InCall, LockFree, TypeOK, ClntType,
      RxType, CbType, ModemType, CallerPc, RxPc, RxHolding, CbPc, CbHolding,
      DesPc, Msg
<1>26. CASE CbTake
  BY <1>26 DEF CbTake, CbGoto, OneInCall, InCall, LockFree, TypeOK, ClntType,
      RxType, CbType, ModemType, CallerPc, RxPc, RxHolding, CbPc, CbHolding,
      DesPc, Msg
<1>27. CASE CbClone
  BY <1>27 DEF CbClone, OneInCall, InCall, LockFree, TypeOK, ClntType, RxType,
      CbType, ModemType, CallerPc, RxPc, RxHolding, CbPc, CbHolding, DesPc, Msg
<1>28. CASE CbDispatch
  BY <1>28 DEF CbDispatch, SvcDispatch, NoMsg, OneInCall, InCall, LockFree,
      TypeOK, ClntType, RxType, CbType, ModemType, CallerPc, RxPc, RxHolding,
      CbPc, CbHolding, DesPc, Msg
<1>29. CASE DestroyBegin
  BY <1>29 DEF DestroyBegin, OneInCall, InCall, LockFree, TypeOK, ClntType,
      RxType, CbType, ModemType, CallerPc, RxPc, RxHolding, CbPc, CbHolding,
      DesPc, Msg
<1>30. CASE DestroySignal
  BY <1>30 DEF DestroySignal, SignalCb, OneInCall, InCall, LockFree, TypeOK,
      ClntType, RxType, CbType, ModemType, CallerPc, RxPc, RxHolding, CbPc,
      CbHolding, DesPc, Msg
<1>31. CASE DestroyJoinCb
  BY <1>31 DEF DestroyJoinCb, OneInCall, InCall, LockFree, TypeOK, ClntType,
      RxType, CbType, ModemType, CallerPc, RxPc, RxHolding, CbPc, CbHolding,
      DesPc, Msg
<1>32. CASE DestroyUnlink
  BY <1>32 DEF DestroyUnlink, OneInCall, InCall, LockFree, TypeOK, ClntType,
      RxType, CbType, ModemType, CallerPc, RxPc, RxHolding, CbPc, CbHolding,
      DesPc, Msg
<1>33. CASE DestroyJoinRx
  BY <1>33 DEF DestroyJoinRx, OneInCall, InCall, LockFree, TypeOK, ClntType,
      RxType, CbType, ModemType, CallerPc, RxPc, RxHolding, CbPc, CbHolding,
      DesPc, Msg
<1>34. CASE ModemReply
  BY <1>34 DEF ModemReply, Reply, OneInCall, InCall, LockFree, TypeOK, ClntType,
      RxType, CbType, ModemType, CallerPc, RxPc, RxHolding, CbPc, CbHolding,
      DesPc, Msg
<1>35. CASE ModemCall
  BY <1>35 DEF ModemCall, OneInCall, InCall, LockFree, TypeOK, ClntType, RxType,
      CbType, ModemType, CallerPc, RxPc, RxHolding, CbPc, CbHolding, DesPc, Msg
<1>36. CASE ModemStray
  BY <1>36 DEF ModemStray, OneInCall, InCall, LockFree, TypeOK, ClntType,
      RxType, CbType, ModemType, CallerPc, RxPc, RxHolding, CbPc, CbHolding,
      DesPc, Msg
<1>37. CASE ModemReset
  BY <1>37 DEF ModemReset, OneInCall, InCall, LockFree, TypeOK, ClntType,
      RxType, CbType, ModemType, CallerPc, RxPc, RxHolding, CbPc, CbHolding,
      DesPc, Msg
<1>38. CASE ModemBack
  BY <1>38 DEF ModemBack, OneInCall, InCall, LockFree, TypeOK, ClntType, RxType,
      CbType, ModemType, CallerPc, RxPc, RxHolding, CbPc, CbHolding, DesPc, Msg
<1>39. CASE UNCHANGED vars
  BY <1>39 DEF vars, OneInCall, InCall, LockFree, TypeOK, ClntType, RxType,
      CbType, ModemType, CallerPc, RxPc, RxHolding, CbPc, CbHolding, DesPc, Msg
<1>40. QED
  BY <1>1, <1>2, <1>3, <1>4, <1>5, <1>6, <1>7, <1>8, <1>9, <1>10, <1>11, <1>12,
      <1>13, <1>14, <1>15, <1>16, <1>17, <1>18, <1>19, <1>20, <1>21, <1>22,
      <1>23, <1>24, <1>25, <1>26, <1>27, <1>28, <1>29, <1>30, <1>31, <1>32,
      <1>33, <1>34, <1>35, <1>36, <1>37, <1>38, <1>39
  DEF Next, CallStep, RxStep, CbStep, DestroyStep, ModemStep

(* Every step keeps ResetInv. *)
LEMMA ResetStep == TypeOK /\ ResetInv /\ [Next]_vars => ResetInv'
<1> SUFFICES ASSUME TypeOK, ResetInv, [Next]_vars PROVE ResetInv'
  OBVIOUS
<1> USE DEF history
<1>1. ASSUME NEW c \in Callers, CallBegin(c) PROVE ResetInv'
  BY <1>1 DEF CallBegin, CallerGoto, ResetInv, TypeOK, ClntType, RxType, CbType,
      ModemType, CallerPc, RxPc, RxHolding, CbPc, CbHolding, DesPc, Msg
<1>2. ASSUME NEW c \in Callers, CallLock(c) PROVE ResetInv'
  BY <1>2 DEF CallLock, CallerGoto, ResetInv, TypeOK, ClntType, RxType, CbType,
      ModemType, CallerPc, RxPc, RxHolding, CbPc, CbHolding, DesPc, Msg
<1>3. ASSUME NEW c \in Callers, CallSend(c) PROVE ResetInv'
  BY <1>3 DEF CallSend, CallerGoto, ResetInv, TypeOK, ClntType, RxType, CbType,
      ModemType, CallerPc, RxPc, RxHolding, CbPc, CbHolding, DesPc, Msg
<1>4. ASSUME NEW c \in Callers, CallSpurious(c) PROVE ResetInv'
  BY <1>4 DEF CallSpurious, CallerGoto, ResetInv, TypeOK, ClntType, RxType,
      CbType, ModemType, CallerPc, RxPc, RxHolding, CbPc, CbHolding, DesPc, Msg
<1>5. ASSUME NEW c \in Callers, CallWake(c) PROVE ResetInv'
  BY <1>5 DEF CallWake, CallerGoto, Reply, ResetInv, TypeOK, ClntType, RxType,
      CbType, ModemType, CallerPc, RxPc, RxHolding, CbPc, CbHolding, DesPc, Msg
<1>6. ASSUME NEW c \in Callers, CallDecode(c) PROVE ResetInv'
  BY <1>6 DEF CallDecode, CallerGoto, ResetInv, TypeOK, ClntType, RxType,
      CbType, ModemType, CallerPc, RxPc, RxHolding, CbPc, CbHolding, DesPc, Msg
<1>7. ASSUME NEW c \in Callers, CallOut(c) PROVE ResetInv'
  BY <1>7 DEF CallOut, CallerGoto, ResetInv, TypeOK, ClntType, RxType, CbType,
      ModemType, CallerPc, RxPc, RxHolding, CbPc, CbHolding, DesPc, Msg
<1>8. CASE RxLoop
  BY <1>8 DEF RxLoop, RxGoto, ResetInv, TypeOK, ClntType, RxType, CbType,
      ModemType, CallerPc, RxPc, RxHolding, CbPc, CbHolding, DesPc, Msg
<1>9. CASE RxSetup
  BY <1>9 DEF RxSetup, ResetInv, TypeOK, ClntType, RxType, CbType, ModemType,
      CallerPc, RxPc, RxHolding, CbPc, CbHolding, DesPc, Msg
<1>10. CASE RxPoll
  BY <1>10 DEF RxPoll, Ready, ResetInv, TypeOK, ClntType, RxType, CbType,
      ModemType, CallerPc, RxPc, RxHolding, CbPc, CbHolding, DesPc, Msg
<1>11. CASE RxCheck
  BY <1>11 DEF RxCheck, RxGoto, ResetInv, TypeOK, ClntType, RxType, CbType,
      ModemType, CallerPc, RxPc, RxHolding, CbPc, CbHolding, DesPc, Msg
<1>12. CASE RxScan
  BY <1>12 DEF RxScan, RxGoto, ResetInv, TypeOK, ClntType, RxType, CbType,
      ModemType, CallerPc, RxPc, RxHolding, CbPc, CbHolding, DesPc, Msg
<1>13. CASE RxResetBegin
  BY <1>13 DEF RxResetBegin, RxGoto, SignalReply, ResetInv, TypeOK, ClntType,
      RxType, CbType, ModemType, CallerPc, RxPc, RxHolding, CbPc, CbHolding,
      DesPc, Msg
<1>14. CASE RxResetBeginCb
  BY <1>14 DEF RxResetBeginCb, RxGoto, SignalCb, ResetInv, TypeOK, ClntType,
      RxType, CbType, ModemType, CallerPc, RxPc, RxHolding, CbPc, CbHolding,
      DesPc, Msg
<1>15. CASE RxResetUnblock
  BY <1>15 DEF RxResetUnblock, RxGoto, ResetInv, TypeOK, ClntType, RxType,
      CbType, ModemType, CallerPc, RxPc, RxHolding, CbPc, CbHolding, DesPc, Msg
<1>16. CASE RxResetEnd
  BY <1>16 DEF RxResetEnd, RxGoto, ResetInv, TypeOK, ClntType, RxType, CbType,
      ModemType, CallerPc, RxPc, RxHolding, CbPc, CbHolding, DesPc, Msg
<1>17. CASE RxResetEndCb
  BY <1>17 DEF RxResetEndCb, RxGoto, SignalCb, ResetInv, TypeOK, ClntType,
      RxType, CbType, ModemType, CallerPc, RxPc, RxHolding, CbPc, CbHolding,
      DesPc, Msg
<1>18. CASE RxRead
  BY <1>18 DEF RxRead, RxGoto, ResetInv, TypeOK, ClntType, RxType, CbType,
      ModemType, CallerPc, RxPc, RxHolding, CbPc, CbHolding, DesPc, Msg
<1>19. CASE RxReply
  BY <1>19 DEF RxReply, RxGoto, SignalReply, ResetInv, TypeOK, ClntType, RxType,
      CbType, ModemType, CallerPc, RxPc, RxHolding, CbPc, CbHolding, DesPc, Msg
<1>20. CASE RxCall
  BY <1>20 DEF RxCall, RxGoto, SignalCb, ResetInv, TypeOK, ClntType, RxType,
      CbType, ModemType, CallerPc, RxPc, RxHolding, CbPc, CbHolding, DesPc, Msg
<1>21. CASE CbStart
  BY <1>21 DEF CbStart, CbGoto, ResetInv, TypeOK, ClntType, RxType, CbType,
      ModemType, CallerPc, RxPc, RxHolding, CbPc, CbHolding, DesPc, Msg
<1>22. CASE CbLoop
  BY <1>22 DEF CbLoop, CbGoto, ResetInv, TypeOK, ClntType, RxType, CbType,
      ModemType, CallerPc, RxPc, RxHolding, CbPc, CbHolding, DesPc, Msg
<1>23. CASE CbWake
  BY <1>23 DEF CbWake, CbGoto, ResetInv, TypeOK, ClntType, RxType, CbType,
      ModemType, CallerPc, RxPc, RxHolding, CbPc, CbHolding, DesPc, Msg
<1>24. CASE CbResetNotify
  BY <1>24 DEF CbResetNotify, CbGoto, ResetInv, TypeOK, ClntType, RxType,
      CbType, ModemType, CallerPc, RxPc, RxHolding, CbPc, CbHolding, DesPc, Msg
<1>25. CASE CbNoData
  BY <1>25 DEF CbNoData, CbGoto, ResetInv, TypeOK, ClntType, RxType, CbType,
      ModemType, CallerPc, RxPc, RxHolding, CbPc, CbHolding, DesPc, Msg
<1>26. CASE CbTake
  BY <1>26 DEF CbTake, CbGoto, ResetInv, TypeOK, ClntType, RxType, CbType,
      ModemType, CallerPc, RxPc, RxHolding, CbPc, CbHolding, DesPc, Msg
<1>27. CASE CbClone
  BY <1>27 DEF CbClone, ResetInv, TypeOK, ClntType, RxType, CbType, ModemType,
      CallerPc, RxPc, RxHolding, CbPc, CbHolding, DesPc, Msg
<1>28. CASE CbDispatch
  BY <1>28 DEF CbDispatch, SvcDispatch, NoMsg, ResetInv, TypeOK, ClntType,
      RxType, CbType, ModemType, CallerPc, RxPc, RxHolding, CbPc, CbHolding,
      DesPc, Msg
<1>29. CASE DestroyBegin
  BY <1>29 DEF DestroyBegin, ResetInv, TypeOK, ClntType, RxType, CbType,
      ModemType, CallerPc, RxPc, RxHolding, CbPc, CbHolding, DesPc, Msg
<1>30. CASE DestroySignal
  BY <1>30 DEF DestroySignal, SignalCb, ResetInv, TypeOK, ClntType, RxType,
      CbType, ModemType, CallerPc, RxPc, RxHolding, CbPc, CbHolding, DesPc, Msg
<1>31. CASE DestroyJoinCb
  BY <1>31 DEF DestroyJoinCb, ResetInv, TypeOK, ClntType, RxType, CbType,
      ModemType, CallerPc, RxPc, RxHolding, CbPc, CbHolding, DesPc, Msg
<1>32. CASE DestroyUnlink
  BY <1>32 DEF DestroyUnlink, ResetInv, TypeOK, ClntType, RxType, CbType,
      ModemType, CallerPc, RxPc, RxHolding, CbPc, CbHolding, DesPc, Msg
<1>33. CASE DestroyJoinRx
  BY <1>33 DEF DestroyJoinRx, ResetInv, TypeOK, ClntType, RxType, CbType,
      ModemType, CallerPc, RxPc, RxHolding, CbPc, CbHolding, DesPc, Msg
<1>34. CASE ModemReply
  BY <1>34 DEF ModemReply, Reply, ResetInv, TypeOK, ClntType, RxType, CbType,
      ModemType, CallerPc, RxPc, RxHolding, CbPc, CbHolding, DesPc, Msg
<1>35. CASE ModemCall
  BY <1>35 DEF ModemCall, ResetInv, TypeOK, ClntType, RxType, CbType, ModemType,
      CallerPc, RxPc, RxHolding, CbPc, CbHolding, DesPc, Msg
<1>36. CASE ModemStray
  BY <1>36 DEF ModemStray, ResetInv, TypeOK, ClntType, RxType, CbType,
      ModemType, CallerPc, RxPc, RxHolding, CbPc, CbHolding, DesPc, Msg
<1>37. CASE ModemReset
  BY <1>37 DEF ModemReset, ResetInv, TypeOK, ClntType, RxType, CbType,
      ModemType, CallerPc, RxPc, RxHolding, CbPc, CbHolding, DesPc, Msg
<1>38. CASE ModemBack
  BY <1>38 DEF ModemBack, ResetInv, TypeOK, ClntType, RxType, CbType, ModemType,
      CallerPc, RxPc, RxHolding, CbPc, CbHolding, DesPc, Msg
<1>39. CASE UNCHANGED vars
  BY <1>39 DEF vars, ResetInv, TypeOK, ClntType, RxType, CbType, ModemType,
      CallerPc, RxPc, RxHolding, CbPc, CbHolding, DesPc, Msg
<1>40. QED
  BY <1>1, <1>2, <1>3, <1>4, <1>5, <1>6, <1>7, <1>8, <1>9, <1>10, <1>11, <1>12,
      <1>13, <1>14, <1>15, <1>16, <1>17, <1>18, <1>19, <1>20, <1>21, <1>22,
      <1>23, <1>24, <1>25, <1>26, <1>27, <1>28, <1>29, <1>30, <1>31, <1>32,
      <1>33, <1>34, <1>35, <1>36, <1>37, <1>38, <1>39
  DEF Next, CallStep, RxStep, CbStep, DestroyStep, ModemStep

(* Positions in a queue after Append and after Tail. *)
LEMMA AppendAt ==
  ASSUME NEW S, NEW q \in Seq(S), NEW m \in S
  PROVE  /\ Append(q, m) \in Seq(S) /\ Len(Append(q, m)) = Len(q) + 1
         /\ \A i \in 1..Len(q) : Append(q, m)[i] = q[i]
         /\ Append(q, m)[Len(q) + 1] = m
         /\ \A i \in 1..Len(Append(q, m)) : i \in 1..Len(q) \/ i = Len(q) + 1
  OBVIOUS

LEMMA TailAt ==
  ASSUME NEW S, NEW q \in Seq(S), q # <<>>
  PROVE  /\ Tail(q) \in Seq(S) /\ Len(Tail(q)) = Len(q) - 1
         /\ Head(q) = q[1] /\ Head(q) \in S /\ 1 \in 1..Len(q)
         /\ \A i \in 1..Len(Tail(q)) : i + 1 \in 1..Len(q) /\ Tail(q)[i] = q[i + 1]
  OBVIOUS

(* Every step keeps Fresh, while nothing has failed. *)
LEMMA FreshStep == TypeOK /\ OneInCall /\ Fresh /\ [Next]_vars => (failed \/ Fresh)'
<1> SUFFICES ASSUME TypeOK, OneInCall, Fresh, [Next]_vars PROVE (failed \/ Fresh)'
  OBVIOUS
<1> USE DEF history
<1>1. ASSUME NEW c \in Callers, CallBegin(c) PROVE (failed \/ Fresh)'
  BY <1>1 DEF CallBegin, CallerGoto, Fresh, OneInCall, InCall, LockFree, Reply,
      TypeOK, ClntType, RxType, CbType, ModemType, CallerPc, RxPc, RxHolding,
      CbPc, CbHolding, DesPc, Msg
<1>2. ASSUME NEW c \in Callers, CallLock(c) PROVE (failed \/ Fresh)'
  <2>1. \A d \in Callers : pc[d] # "sending"
    BY <1>2 DEF CallLock, LockFree
  <2>2. \A d \in Callers : d # c => pc'[d] = pc[d]
    BY <1>2 DEF CallLock, CallerGoto, TypeOK
  <2>3. UNCHANGED <<clnt, modem, inq>> /\ xid \in Nat
    BY <1>2 DEF CallLock, TypeOK
  <2>4. CASE xid' = xid /\ pc'[c] # "sending"
    BY <2>1, <2>2, <2>3, <2>4 DEF Fresh
  <2>5. CASE xid' = xid + 1
    <3>1. modem.pending \subseteq Nat /\ clnt.in_msg \in Msg /\ inq \in Seq(Msg)
      BY DEF TypeOK, ModemType, ClntType
    <3>2. (xid + 1) \notin modem.pending /\ clnt.in_msg # Reply(xid + 1)
      BY <2>3, <3>1 DEF Fresh, Reply, Msg
    <3>3. \A i \in 1..Len(inq) : inq[i] # Reply(xid + 1)
      BY <2>3, <3>1 DEF Fresh, Reply, Msg
    <3>4. \A i \in 1..Len(inq) : inq[i] \in Msg
      BY <3>1
    <3>5. /\ \A x \in modem.pending : x <= xid + 1
          /\ clnt.in_msg.kind = "reply" => clnt.in_msg.id <= xid + 1
      BY <2>3, <3>1 DEF Fresh, Msg
    <3>6. \A i \in 1..Len(inq) : inq[i].kind = "reply" => inq[i].id <= xid + 1
      BY <2>3, <3>4 DEF Fresh, Msg
    <3>7. QED
      BY <2>3, <2>5, <3>2, <3>3, <3>5, <3>6 DEF Fresh
  <2>6. pc'[c] = "sending" => xid' = xid + 1
    BY <1>2 DEF CallLock, CallerGoto, TypeOK
  <2>7. xid' \in {xid, xid + 1}
    BY <1>2 DEF CallLock
  <2>8. QED
    BY <2>4, <2>5, <2>6, <2>7
<1>3. ASSUME NEW c \in Callers, CallSend(c) PROVE (failed \/ Fresh)'
  <2>1. \A d \in Callers : pc'[d] # "sending"
    BY <1>3 DEF CallSend, CallerGoto, TypeOK, OneInCall, InCall
  <2>2. UNCHANGED <<clnt, inq, xid>> /\ xid \in Nat
    BY <1>3 DEF CallSend, TypeOK
  <2>3. \A x \in modem'.pending : x <= xid
    BY <1>3, <2>2 DEF CallSend, TypeOK, ModemType, Fresh
  <2>4. QED
    BY <2>1, <2>2, <2>3 DEF Fresh
<1>4. ASSUME NEW c \in Callers, CallSpurious(c) PROVE (failed \/ Fresh)'
  BY <1>4 DEF CallSpurious, CallerGoto, Fresh, OneInCall, InCall, LockFree,
      Reply, TypeOK, ClntType, RxType, CbType, ModemType, CallerPc, RxPc,
      RxHolding, CbPc, CbHolding, DesPc, Msg
<1>5. ASSUME NEW c \in Callers, CallWake(c) PROVE (failed \/ Fresh)'
  BY <1>5 DEF CallWake, CallerGoto, Reply, Fresh, OneInCall, InCall, LockFree,
      Reply, TypeOK, ClntType, RxType, CbType, ModemType, CallerPc, RxPc,
      RxHolding, CbPc, CbHolding, DesPc, Msg
<1>6. ASSUME NEW c \in Callers, CallDecode(c) PROVE (failed \/ Fresh)'
  BY <1>6 DEF CallDecode, CallerGoto, Fresh, OneInCall, InCall, LockFree, Reply,
      TypeOK, ClntType, RxType, CbType, ModemType, CallerPc, RxPc, RxHolding,
      CbPc, CbHolding, DesPc, Msg
<1>7. ASSUME NEW c \in Callers, CallOut(c) PROVE (failed \/ Fresh)'
  BY <1>7 DEF CallOut, CallerGoto, Fresh, OneInCall, InCall, LockFree, Reply,
      TypeOK, ClntType, RxType, CbType, ModemType, CallerPc, RxPc, RxHolding,
      CbPc, CbHolding, DesPc, Msg
<1>8. CASE RxLoop
  BY <1>8 DEF RxLoop, RxGoto, Fresh, OneInCall, InCall, LockFree, Reply, TypeOK,
      ClntType, RxType, CbType, ModemType, CallerPc, RxPc, RxHolding, CbPc,
      CbHolding, DesPc, Msg
<1>9. CASE RxSetup
  BY <1>9 DEF RxSetup, Fresh, OneInCall, InCall, LockFree, Reply, TypeOK,
      ClntType, RxType, CbType, ModemType, CallerPc, RxPc, RxHolding, CbPc,
      CbHolding, DesPc, Msg
<1>10. CASE RxPoll
  BY <1>10 DEF RxPoll, Ready, Fresh, OneInCall, InCall, LockFree, Reply, TypeOK,
      ClntType, RxType, CbType, ModemType, CallerPc, RxPc, RxHolding, CbPc,
      CbHolding, DesPc, Msg
<1>11. CASE RxCheck
  BY <1>11 DEF RxCheck, RxGoto, Fresh, OneInCall, InCall, LockFree, Reply,
      TypeOK, ClntType, RxType, CbType, ModemType, CallerPc, RxPc, RxHolding,
      CbPc, CbHolding, DesPc, Msg
<1>12. CASE RxScan
  BY <1>12 DEF RxScan, RxGoto, Fresh, OneInCall, InCall, LockFree, Reply,
      TypeOK, ClntType, RxType, CbType, ModemType, CallerPc, RxPc, RxHolding,
      CbPc, CbHolding, DesPc, Msg
<1>13. CASE RxResetBegin
  BY <1>13 DEF RxResetBegin, RxGoto, SignalReply, Fresh, OneInCall, InCall,
      LockFree, Reply, TypeOK, ClntType, RxType, CbType, ModemType, CallerPc,
      RxPc, RxHolding, CbPc, CbHolding, DesPc, Msg
<1>14. CASE RxResetBeginCb
  BY <1>14 DEF RxResetBeginCb, RxGoto, SignalCb, Fresh, OneInCall, InCall,
      LockFree, Reply, TypeOK, ClntType, RxType, CbType, ModemType, CallerPc,
      RxPc, RxHolding, CbPc, CbHolding, DesPc, Msg
<1>15. CASE RxResetUnblock
  BY <1>15 DEF RxResetUnblock, RxGoto, Fresh, OneInCall, InCall, LockFree,
      Reply, TypeOK, ClntType, RxType, CbType, ModemType, CallerPc, RxPc,
      RxHolding, CbPc, CbHolding, DesPc, Msg
<1>16. CASE RxResetEnd
  BY <1>16 DEF RxResetEnd, RxGoto, Fresh, OneInCall, InCall, LockFree, Reply,
      TypeOK, ClntType, RxType, CbType, ModemType, CallerPc, RxPc, RxHolding,
      CbPc, CbHolding, DesPc, Msg
<1>17. CASE RxResetEndCb
  BY <1>17 DEF RxResetEndCb, RxGoto, SignalCb, Fresh, OneInCall, InCall,
      LockFree, Reply, TypeOK, ClntType, RxType, CbType, ModemType, CallerPc,
      RxPc, RxHolding, CbPc, CbHolding, DesPc, Msg
<1>18. CASE RxRead
  <2>1. CASE inq = <<>>
    BY <1>18, <2>1 DEF RxRead, Fresh
  <2>2. CASE inq # <<>>
    <3>1. inq \in Seq(Msg) /\ clnt \in ClntType
      BY DEF TypeOK
    <3>2. /\ clnt'.in_msg = inq[1] /\ inq' = Tail(inq)
          /\ UNCHANGED <<xid, pc, modem>>
      BY <1>18, <2>2, <3>1, TailAt DEF RxRead, ClntType
    <3>3. /\ 1 \in 1..Len(inq)
          /\ \A i \in 1..Len(inq') : i + 1 \in 1..Len(inq) /\ inq'[i] = inq[i + 1]
      BY <2>2, <3>1, <3>2, TailAt
    <3>4. QED
      BY <3>2, <3>3 DEF Fresh
  <2>3. QED
    BY <2>1, <2>2
<1>19. CASE RxReply
  BY <1>19 DEF RxReply, RxGoto, SignalReply, Fresh, OneInCall, InCall, LockFree,
      Reply, TypeOK, ClntType, RxType, CbType, ModemType, CallerPc, RxPc,
      RxHolding, CbPc, CbHolding, DesPc, Msg
<1>20. CASE RxCall
  BY <1>20 DEF RxCall, RxGoto, SignalCb, Fresh, OneInCall, InCall, LockFree,
      Reply, TypeOK, ClntType, RxType, CbType, ModemType, CallerPc, RxPc,
      RxHolding, CbPc, CbHolding, DesPc, Msg
<1>21. CASE CbStart
  BY <1>21 DEF CbStart, CbGoto, Fresh, OneInCall, InCall, LockFree, Reply,
      TypeOK, ClntType, RxType, CbType, ModemType, CallerPc, RxPc, RxHolding,
      CbPc, CbHolding, DesPc, Msg
<1>22. CASE CbLoop
  BY <1>22 DEF CbLoop, CbGoto, Fresh, OneInCall, InCall, LockFree, Reply,
      TypeOK, ClntType, RxType, CbType, ModemType, CallerPc, RxPc, RxHolding,
      CbPc, CbHolding, DesPc, Msg
<1>23. CASE CbWake
  BY <1>23 DEF CbWake, CbGoto, Fresh, OneInCall, InCall, LockFree, Reply,
      TypeOK, ClntType, RxType, CbType, ModemType, CallerPc, RxPc, RxHolding,
      CbPc, CbHolding, DesPc, Msg
<1>24. CASE CbResetNotify
  BY <1>24 DEF CbResetNotify, CbGoto, Fresh, OneInCall, InCall, LockFree, Reply,
      TypeOK, ClntType, RxType, CbType, ModemType, CallerPc, RxPc, RxHolding,
      CbPc, CbHolding, DesPc, Msg
<1>25. CASE CbNoData
  BY <1>25 DEF CbNoData, CbGoto, Fresh, OneInCall, InCall, LockFree, Reply,
      TypeOK, ClntType, RxType, CbType, ModemType, CallerPc, RxPc, RxHolding,
      CbPc, CbHolding, DesPc, Msg
<1>26. CASE CbTake
  BY <1>26 DEF CbTake, CbGoto, Fresh, OneInCall, InCall, LockFree, Reply,
      TypeOK, ClntType, RxType, CbType, ModemType, CallerPc, RxPc, RxHolding,
      CbPc, CbHolding, DesPc, Msg
<1>27. CASE CbClone
  BY <1>27 DEF CbClone, Fresh, OneInCall, InCall, LockFree, Reply, TypeOK,
      ClntType, RxType, CbType, ModemType, CallerPc, RxPc, RxHolding, CbPc,
      CbHolding, DesPc, Msg
<1>28. CASE CbDispatch
  BY <1>28 DEF CbDispatch, SvcDispatch, NoMsg, Fresh, OneInCall, InCall,
      LockFree, Reply, TypeOK, ClntType, RxType, CbType, ModemType, CallerPc,
      RxPc, RxHolding, CbPc, CbHolding, DesPc, Msg
<1>29. CASE DestroyBegin
  BY <1>29 DEF DestroyBegin, Fresh, OneInCall, InCall, LockFree, Reply, TypeOK,
      ClntType, RxType, CbType, ModemType, CallerPc, RxPc, RxHolding, CbPc,
      CbHolding, DesPc, Msg
<1>30. CASE DestroySignal
  BY <1>30 DEF DestroySignal, SignalCb, Fresh, OneInCall, InCall, LockFree,
      Reply, TypeOK, ClntType, RxType, CbType, ModemType, CallerPc, RxPc,
      RxHolding, CbPc, CbHolding, DesPc, Msg
<1>31. CASE DestroyJoinCb
  BY <1>31 DEF DestroyJoinCb, Fresh, OneInCall, InCall, LockFree, Reply, TypeOK,
      ClntType, RxType, CbType, ModemType, CallerPc, RxPc, RxHolding, CbPc,
      CbHolding, DesPc, Msg
<1>32. CASE DestroyUnlink
  BY <1>32 DEF DestroyUnlink, Fresh, OneInCall, InCall, LockFree, Reply, TypeOK,
      ClntType, RxType, CbType, ModemType, CallerPc, RxPc, RxHolding, CbPc,
      CbHolding, DesPc, Msg
<1>33. CASE DestroyJoinRx
  BY <1>33 DEF DestroyJoinRx, Fresh, OneInCall, InCall, LockFree, Reply, TypeOK,
      ClntType, RxType, CbType, ModemType, CallerPc, RxPc, RxHolding, CbPc,
      CbHolding, DesPc, Msg
<1>34. CASE ModemReply
  <2>1. inq \in Seq(Msg) /\ modem \in ModemType /\ xid \in Nat
    BY DEF TypeOK
  <2>2. PICK x \in modem.pending : /\ modem' = [modem EXCEPT !.pending = @ \ {x}]
                                   /\ inq' = Append(inq, Reply(x))
    BY <1>34 DEF ModemReply
  <2>3. x \in Nat /\ x <= xid /\ Reply(x) \in Msg
    BY <2>1 DEF Fresh, ModemType, Reply, Msg
  <2>4. \A i \in 1..Len(inq') : 
          (i \in 1..Len(inq) /\ inq'[i] = inq[i]) \/ inq'[i] = Reply(x)
    BY <2>1, <2>2, <2>3, AppendAt
  <2>5. QED
    BY <1>34, <2>1, <2>2, <2>3, <2>4 DEF ModemReply, Fresh, ModemType, Reply
<1>35. CASE ModemCall
  <2>1. inq \in Seq(Msg) /\ modem \in ModemType /\ xid \in Nat
    BY DEF TypeOK
  <2>2. inq' = Append(inq, [kind |-> "call", id |-> modem.sent + 1])
    BY <1>35 DEF ModemCall
  <2>3. [kind |-> "call", id |-> modem.sent + 1] \in Msg
    BY <2>1 DEF ModemType, Msg
  <2>4. \A i \in 1..Len(inq') : 
          (i \in 1..Len(inq) /\ inq'[i] = inq[i]) \/ inq'[i] = [kind |-> "call", id |-> modem.sent + 1]
    BY <2>1, <2>2, <2>3, AppendAt
  <2>5. QED
    BY <1>35, <2>1, <2>2, <2>3, <2>4 DEF ModemCall, Fresh, ModemType, Reply
<1>36. CASE ModemStray
  <2>1. inq \in Seq(Msg) /\ modem \in ModemType /\ xid \in Nat
    BY DEF TypeOK
  <2>2. inq' = Append(inq, [kind |-> "stray", id |-> 0])
    BY <1>36 DEF ModemStray
  <2>3. [kind |-> "stray", id |-> 0] \in Msg
    BY DEF Msg
  <2>4. \A i \in 1..Len(inq') : 
          (i \in 1..Len(inq) /\ inq'[i] = inq[i]) \/ inq'[i] = [kind |-> "stray", id |-> 0]
    BY <2>1, <2>2, <2>3, AppendAt
  <2>5. QED
    BY <1>36, <2>1, <2>2, <2>3, <2>4 DEF ModemStray, Fresh, ModemType, Reply
<1>37. CASE ModemReset
  BY <1>37 DEF ModemReset, Fresh, OneInCall, InCall, LockFree, Reply, TypeOK,
      ClntType, RxType, CbType, ModemType, CallerPc, RxPc, RxHolding, CbPc,
      CbHolding, DesPc, Msg
<1>38. CASE ModemBack
  BY <1>38 DEF ModemBack, Fresh, OneInCall, InCall, LockFree, Reply, TypeOK,
      ClntType, RxType, CbType, ModemType, CallerPc, RxPc, RxHolding, CbPc,
      CbHolding, DesPc, Msg
<1>39. CASE UNCHANGED vars
  BY <1>39 DEF vars, Fresh, OneInCall, InCall, LockFree, Reply, TypeOK,
      ClntType, RxType, CbType, ModemType, CallerPc, RxPc, RxHolding, CbPc,
      CbHolding, DesPc, Msg
<1>40. QED
  BY <1>1, <1>2, <1>3, <1>4, <1>5, <1>6, <1>7, <1>8, <1>9, <1>10, <1>11, <1>12,
      <1>13, <1>14, <1>15, <1>16, <1>17, <1>18, <1>19, <1>20, <1>21, <1>22,
      <1>23, <1>24, <1>25, <1>26, <1>27, <1>28, <1>29, <1>30, <1>31, <1>32,
      <1>33, <1>34, <1>35, <1>36, <1>37, <1>38, <1>39
  DEF Next, CallStep, RxStep, CbStep, DestroyStep, ModemStep

(* Every step keeps BufInv, while nothing has failed. *)
LEMMA BufStep == TypeOK /\ OneInCall /\ Fresh /\ BufInv /\ [Next]_vars => (failed \/ BufInv)'
<1> SUFFICES ASSUME TypeOK, OneInCall, Fresh, BufInv, [Next]_vars PROVE (failed \/ BufInv)'
  OBVIOUS
<1> USE DEF history
<1>1. ASSUME NEW c \in Callers, CallBegin(c) PROVE (failed \/ BufInv)'
  BY <1>1 DEF CallBegin, CallerGoto, BufInv, CallInBuf, Fresh, OneInCall,
      InCall, LockFree, Reply, TypeOK, ClntType, RxType, CbType, ModemType,
      CallerPc, RxPc, RxHolding, CbPc, CbHolding, DesPc, Msg
<1>2. ASSUME NEW c \in Callers, CallLock(c) PROVE (failed \/ BufInv)'
  BY <1>2 DEF CallLock, CallerGoto, BufInv, CallInBuf, Fresh, OneInCall, InCall,
      LockFree, Reply, TypeOK, ClntType, RxType, CbType, ModemType, CallerPc,
      RxPc, RxHolding, CbPc, CbHolding, DesPc, Msg
<1>3. ASSUME NEW c \in Callers, CallSend(c) PROVE (failed \/ BufInv)'
  BY <1>3 DEF CallSend, CallerGoto, BufInv, CallInBuf, Fresh, OneInCall, InCall,
      LockFree, Reply, TypeOK, ClntType, RxType, CbType, ModemType, CallerPc,
      RxPc, RxHolding, CbPc, CbHolding, DesPc, Msg
<1>4. ASSUME NEW c \in Callers, CallSpurious(c) PROVE (failed \/ BufInv)'
  BY <1>4 DEF CallSpurious, CallerGoto, BufInv, CallInBuf, Fresh, OneInCall,
      InCall, LockFree, Reply, TypeOK, ClntType, RxType, CbType, ModemType,
      CallerPc, RxPc, RxHolding, CbPc, CbHolding, DesPc, Msg
<1>5. ASSUME NEW c \in Callers, CallWake(c) PROVE (failed \/ BufInv)'
  BY <1>5 DEF CallWake, CallerGoto, Reply, BufInv, CallInBuf, Fresh, OneInCall,
      InCall, LockFree, Reply, TypeOK, ClntType, RxType, CbType, ModemType,
      CallerPc, RxPc, RxHolding, CbPc, CbHolding, DesPc, Msg
<1>6. ASSUME NEW c \in Callers, CallDecode(c) PROVE (failed \/ BufInv)'
  BY <1>6 DEF CallDecode, CallerGoto, BufInv, CallInBuf, Fresh, OneInCall,
      InCall, LockFree, Reply, TypeOK, ClntType, RxType, CbType, ModemType,
      CallerPc, RxPc, RxHolding, CbPc, CbHolding, DesPc, Msg
<1>7. ASSUME NEW c \in Callers, CallOut(c) PROVE (failed \/ BufInv)'
  BY <1>7 DEF CallOut, CallerGoto, BufInv, CallInBuf, Fresh, OneInCall, InCall,
      LockFree, Reply, TypeOK, ClntType, RxType, CbType, ModemType, CallerPc,
      RxPc, RxHolding, CbPc, CbHolding, DesPc, Msg
<1>8. CASE RxLoop
  BY <1>8 DEF RxLoop, RxGoto, BufInv, CallInBuf, Fresh, OneInCall, InCall,
      LockFree, Reply, TypeOK, ClntType, RxType, CbType, ModemType, CallerPc,
      RxPc, RxHolding, CbPc, CbHolding, DesPc, Msg
<1>9. CASE RxSetup
  BY <1>9 DEF RxSetup, BufInv, CallInBuf, Fresh, OneInCall, InCall, LockFree,
      Reply, TypeOK, ClntType, RxType, CbType, ModemType, CallerPc, RxPc,
      RxHolding, CbPc, CbHolding, DesPc, Msg
<1>10. CASE RxPoll
  BY <1>10 DEF RxPoll, Ready, BufInv, CallInBuf, Fresh, OneInCall, InCall,
      LockFree, Reply, TypeOK, ClntType, RxType, CbType, ModemType, CallerPc,
      RxPc, RxHolding, CbPc, CbHolding, DesPc, Msg
<1>11. CASE RxCheck
  BY <1>11 DEF RxCheck, RxGoto, BufInv, CallInBuf, Fresh, OneInCall, InCall,
      LockFree, Reply, TypeOK, ClntType, RxType, CbType, ModemType, CallerPc,
      RxPc, RxHolding, CbPc, CbHolding, DesPc, Msg
<1>12. CASE RxScan
  BY <1>12 DEF RxScan, RxGoto, BufInv, CallInBuf, Fresh, OneInCall, InCall,
      LockFree, Reply, TypeOK, ClntType, RxType, CbType, ModemType, CallerPc,
      RxPc, RxHolding, CbPc, CbHolding, DesPc, Msg
<1>13. CASE RxResetBegin
  BY <1>13 DEF RxResetBegin, RxGoto, SignalReply, BufInv, CallInBuf, Fresh,
      OneInCall, InCall, LockFree, Reply, TypeOK, ClntType, RxType, CbType,
      ModemType, CallerPc, RxPc, RxHolding, CbPc, CbHolding, DesPc, Msg
<1>14. CASE RxResetBeginCb
  BY <1>14 DEF RxResetBeginCb, RxGoto, SignalCb, BufInv, CallInBuf, Fresh,
      OneInCall, InCall, LockFree, Reply, TypeOK, ClntType, RxType, CbType,
      ModemType, CallerPc, RxPc, RxHolding, CbPc, CbHolding, DesPc, Msg
<1>15. CASE RxResetUnblock
  BY <1>15 DEF RxResetUnblock, RxGoto, BufInv, CallInBuf, Fresh, OneInCall,
      InCall, LockFree, Reply, TypeOK, ClntType, RxType, CbType, ModemType,
      CallerPc, RxPc, RxHolding, CbPc, CbHolding, DesPc, Msg
<1>16. CASE RxResetEnd
  BY <1>16 DEF RxResetEnd, RxGoto, BufInv, CallInBuf, Fresh, OneInCall, InCall,
      LockFree, Reply, TypeOK, ClntType, RxType, CbType, ModemType, CallerPc,
      RxPc, RxHolding, CbPc, CbHolding, DesPc, Msg
<1>17. CASE RxResetEndCb
  BY <1>17 DEF RxResetEndCb, RxGoto, SignalCb, BufInv, CallInBuf, Fresh,
      OneInCall, InCall, LockFree, Reply, TypeOK, ClntType, RxType, CbType,
      ModemType, CallerPc, RxPc, RxHolding, CbPc, CbHolding, DesPc, Msg
<1>18. CASE RxRead
  <2>1. CASE inq = <<>>
    BY <1>18, <2>1 DEF RxRead, RxGoto, BufInv, CallInBuf, TypeOK, RxType
  <2>2. CASE inq # <<>>
    <3>1. inq \in Seq(Msg) /\ clnt \in ClntType /\ rx \in RxType
      BY DEF TypeOK
    <3>2. Head(inq) \in Msg
      BY <2>2, <3>1
    <3>3. /\ clnt'.in_msg = Head(inq) /\ clnt'.input_xdr_busy /\ clnt'.got_cb = clnt.got_cb
          /\ UNCHANGED <<xid, pc, cb>>
      BY <1>18, <2>2, <3>1 DEF RxRead, ClntType
    <3>4. rx'.pc = "call" => Head(inq).kind \in {"call", "stray"}
      <4>1. Head(inq).kind # "none"
        BY <2>2, <3>1, TailAt DEF Fresh
      <4>2. QED
        BY <1>18, <2>2, <3>1, <3>2, <4>1 DEF RxRead, RxGoto, RxType, Msg
    <3>5. ~CallInBuf /\ \A c \in Callers : pc[c] \notin {"decode", "out"}
      BY <1>18 DEF RxRead, BufInv, CallInBuf
    <3>6. QED
      BY <3>3, <3>4, <3>5 DEF BufInv, CallInBuf
  <2>3. QED
    BY <2>1, <2>2
<1>19. CASE RxReply
  BY <1>19 DEF RxReply, RxGoto, SignalReply, BufInv, CallInBuf, Fresh,
      OneInCall, InCall, LockFree, Reply, TypeOK, ClntType, RxType, CbType,
      ModemType, CallerPc, RxPc, RxHolding, CbPc, CbHolding, DesPc, Msg
<1>20. CASE RxCall
  BY <1>20 DEF RxCall, RxGoto, SignalCb, BufInv, CallInBuf, Fresh, OneInCall,
      InCall, LockFree, Reply, TypeOK, ClntType, RxType, CbType, ModemType,
      CallerPc, RxPc, RxHolding, CbPc, CbHolding, DesPc, Msg
<1>21. CASE CbStart
  BY <1>21 DEF CbStart, CbGoto, BufInv, CallInBuf, Fresh, OneInCall, InCall,
      LockFree, Reply, TypeOK, ClntType, RxType, CbType, ModemType, CallerPc,
      RxPc, RxHolding, CbPc, CbHolding, DesPc, Msg
<1>22. CASE CbLoop
  BY <1>22 DEF CbLoop, CbGoto, BufInv, CallInBuf, Fresh, OneInCall, InCall,
      LockFree, Reply, TypeOK, ClntType, RxType, CbType, ModemType, CallerPc,
      RxPc, RxHolding, CbPc, CbHolding, DesPc, Msg
<1>23. CASE CbWake
  BY <1>23 DEF CbWake, CbGoto, BufInv, CallInBuf, Fresh, OneInCall, InCall,
      LockFree, Reply, TypeOK, ClntType, RxType, CbType, ModemType, CallerPc,
      RxPc, RxHolding, CbPc, CbHolding, DesPc, Msg
<1>24. CASE CbResetNotify
  BY <1>24 DEF CbResetNotify, CbGoto, BufInv, CallInBuf, Fresh, OneInCall,
      InCall, LockFree, Reply, TypeOK, ClntType, RxType, CbType, ModemType,
      CallerPc, RxPc, RxHolding, CbPc, CbHolding, DesPc, Msg
<1>25. CASE CbNoData
  BY <1>25 DEF CbNoData, CbGoto, BufInv, CallInBuf, Fresh, OneInCall, InCall,
      LockFree, Reply, TypeOK, ClntType, RxType, CbType, ModemType, CallerPc,
      RxPc, RxHolding, CbPc, CbHolding, DesPc, Msg
<1>26. CASE CbTake
  BY <1>26 DEF CbTake, CbGoto, BufInv, CallInBuf, Fresh, OneInCall, InCall,
      LockFree, Reply, TypeOK, ClntType, RxType, CbType, ModemType, CallerPc,
      RxPc, RxHolding, CbPc, CbHolding, DesPc, Msg
<1>27. CASE CbClone
  BY <1>27 DEF CbClone, BufInv, CallInBuf, Fresh, OneInCall, InCall, LockFree,
      Reply, TypeOK, ClntType, RxType, CbType, ModemType, CallerPc, RxPc,
      RxHolding, CbPc, CbHolding, DesPc, Msg
<1>28. CASE CbDispatch
  BY <1>28 DEF CbDispatch, SvcDispatch, NoMsg, BufInv, CallInBuf, Fresh,
      OneInCall, InCall, LockFree, Reply, TypeOK, ClntType, RxType, CbType,
      ModemType, CallerPc, RxPc, RxHolding, CbPc, CbHolding, DesPc, Msg
<1>29. CASE DestroyBegin
  BY <1>29 DEF DestroyBegin, BufInv, CallInBuf, Fresh, OneInCall, InCall,
      LockFree, Reply, TypeOK, ClntType, RxType, CbType, ModemType, CallerPc,
      RxPc, RxHolding, CbPc, CbHolding, DesPc, Msg
<1>30. CASE DestroySignal
  BY <1>30 DEF DestroySignal, SignalCb, BufInv, CallInBuf, Fresh, OneInCall,
      InCall, LockFree, Reply, TypeOK, ClntType, RxType, CbType, ModemType,
      CallerPc, RxPc, RxHolding, CbPc, CbHolding, DesPc, Msg
<1>31. CASE DestroyJoinCb
  BY <1>31 DEF DestroyJoinCb, BufInv, CallInBuf, Fresh, OneInCall, InCall,
      LockFree, Reply, TypeOK, ClntType, RxType, CbType, ModemType, CallerPc,
      RxPc, RxHolding, CbPc, CbHolding, DesPc, Msg
<1>32. CASE DestroyUnlink
  BY <1>32 DEF DestroyUnlink, BufInv, CallInBuf, Fresh, OneInCall, InCall,
      LockFree, Reply, TypeOK, ClntType, RxType, CbType, ModemType, CallerPc,
      RxPc, RxHolding, CbPc, CbHolding, DesPc, Msg
<1>33. CASE DestroyJoinRx
  BY <1>33 DEF DestroyJoinRx, BufInv, CallInBuf, Fresh, OneInCall, InCall,
      LockFree, Reply, TypeOK, ClntType, RxType, CbType, ModemType, CallerPc,
      RxPc, RxHolding, CbPc, CbHolding, DesPc, Msg
<1>34. CASE ModemReply
  BY <1>34 DEF ModemReply, Reply, BufInv, CallInBuf, Fresh, OneInCall, InCall,
      LockFree, Reply, TypeOK, ClntType, RxType, CbType, ModemType, CallerPc,
      RxPc, RxHolding, CbPc, CbHolding, DesPc, Msg
<1>35. CASE ModemCall
  BY <1>35 DEF ModemCall, BufInv, CallInBuf, Fresh, OneInCall, InCall, LockFree,
      Reply, TypeOK, ClntType, RxType, CbType, ModemType, CallerPc, RxPc,
      RxHolding, CbPc, CbHolding, DesPc, Msg
<1>36. CASE ModemStray
  BY <1>36 DEF ModemStray, BufInv, CallInBuf, Fresh, OneInCall, InCall,
      LockFree, Reply, TypeOK, ClntType, RxType, CbType, ModemType, CallerPc,
      RxPc, RxHolding, CbPc, CbHolding, DesPc, Msg
<1>37. CASE ModemReset
  BY <1>37 DEF ModemReset, BufInv, CallInBuf, Fresh, OneInCall, InCall,
      LockFree, Reply, TypeOK, ClntType, RxType, CbType, ModemType, CallerPc,
      RxPc, RxHolding, CbPc, CbHolding, DesPc, Msg
<1>38. CASE ModemBack
  BY <1>38 DEF ModemBack, BufInv, CallInBuf, Fresh, OneInCall, InCall, LockFree,
      Reply, TypeOK, ClntType, RxType, CbType, ModemType, CallerPc, RxPc,
      RxHolding, CbPc, CbHolding, DesPc, Msg
<1>39. CASE UNCHANGED vars
  BY <1>39 DEF vars, BufInv, CallInBuf, Fresh, OneInCall, InCall, LockFree,
      Reply, TypeOK, ClntType, RxType, CbType, ModemType, CallerPc, RxPc,
      RxHolding, CbPc, CbHolding, DesPc, Msg
<1>40. QED
  BY <1>1, <1>2, <1>3, <1>4, <1>5, <1>6, <1>7, <1>8, <1>9, <1>10, <1>11, <1>12,
      <1>13, <1>14, <1>15, <1>16, <1>17, <1>18, <1>19, <1>20, <1>21, <1>22,
      <1>23, <1>24, <1>25, <1>26, <1>27, <1>28, <1>29, <1>30, <1>31, <1>32,
      <1>33, <1>34, <1>35, <1>36, <1>37, <1>38, <1>39
  DEF Next, CallStep, RxStep, CbStep, DestroyStep, ModemStep

(* A step that moves no CALL keeps PipeInv. *)
LEMMA PipeFrame ==
  ASSUME PipeInv, served' = served, inq' = inq,
         cb'.pc = "dispatch" <=> cb.pc = "dispatch", cb'.msg = cb.msg,
         CallWaits' <=> CallWaits, clnt'.in_msg = clnt.in_msg,
         modem'.sent = modem.sent, modem'.state = "up" <=> modem.state = "up"
  PROVE  PipeInv'
<1>1. Dispatched' = Dispatched /\ Taken' = Taken
  BY DEF Dispatched, Taken
<1>2. QED
  BY <1>1 DEF PipeInv

(* Every step keeps PipeInv, while nothing has failed. *)
LEMMA PipeStep == TypeOK /\ ResetInv /\ BufInv /\ PipeInv /\ [Next]_vars => (failed \/ PipeInv)'
<1> SUFFICES ASSUME TypeOK, ResetInv, BufInv, PipeInv, [Next]_vars PROVE (failed \/ PipeInv)'
  OBVIOUS
<1> USE DEF history
<1>1. ASSUME NEW c \in Callers, CallBegin(c) PROVE (failed \/ PipeInv)'
  BY <1>1, PipeFrame DEF CallBegin, CallerGoto, CallWaits, CallInBuf, TypeOK,
      ClntType, RxType, CbType, ModemType
<1>2. ASSUME NEW c \in Callers, CallLock(c) PROVE (failed \/ PipeInv)'
  BY <1>2, PipeFrame DEF CallLock, CallerGoto, CallWaits, CallInBuf, TypeOK,
      ClntType, RxType, CbType, ModemType
<1>3. ASSUME NEW c \in Callers, CallSend(c) PROVE (failed \/ PipeInv)'
  <2>1. modem'.sent = modem.sent /\ modem'.state = modem.state
    BY <1>3 DEF CallSend, TypeOK, ModemType
  <2>2. CallWaits' <=> CallWaits
    BY <1>3 DEF CallSend, CallWaits, CallInBuf
  <2>3. QED
    BY <1>3, <2>1, <2>2, PipeFrame DEF CallSend
<1>4. ASSUME NEW c \in Callers, CallSpurious(c) PROVE (failed \/ PipeInv)'
  BY <1>4, PipeFrame DEF CallSpurious, CallerGoto, CallWaits, CallInBuf, TypeOK,
      ClntType, RxType, CbType, ModemType
<1>5. ASSUME NEW c \in Callers, CallWake(c) PROVE (failed \/ PipeInv)'
  BY <1>5, PipeFrame DEF CallWake, CallerGoto, Reply, CallWaits, CallInBuf,
      TypeOK, ClntType, RxType, CbType, ModemType
<1>6. ASSUME NEW c \in Callers, CallDecode(c) PROVE (failed \/ PipeInv)'
  BY <1>6, PipeFrame DEF CallDecode, CallerGoto, CallWaits, CallInBuf, TypeOK,
      ClntType, RxType, CbType, ModemType
<1>7. ASSUME NEW c \in Callers, CallOut(c) PROVE (failed \/ PipeInv)'
  BY <1>7, PipeFrame DEF CallOut, CallerGoto, CallWaits, CallInBuf, TypeOK,
      ClntType, RxType, CbType, ModemType
<1>8. CASE RxLoop
  BY <1>8, PipeFrame DEF RxLoop, RxGoto, CallWaits, CallInBuf, TypeOK, ClntType,
      RxType, CbType, ModemType
<1>9. CASE RxSetup
  BY <1>9, PipeFrame DEF RxSetup, CallWaits, CallInBuf, TypeOK, ClntType,
      RxType, CbType, ModemType
<1>10. CASE RxPoll
  BY <1>10, PipeFrame DEF RxPoll, Ready, CallWaits, CallInBuf, TypeOK, ClntType,
      RxType, CbType, ModemType
<1>11. CASE RxCheck
  BY <1>11, PipeFrame DEF RxCheck, RxGoto, CallWaits, CallInBuf, TypeOK,
      ClntType, RxType, CbType, ModemType
<1>12. CASE RxScan
  BY <1>12, PipeFrame DEF RxScan, RxGoto, CallWaits, CallInBuf, TypeOK,
      ClntType, RxType, CbType, ModemType
<1>13. CASE RxResetBegin
  BY <1>13, PipeFrame DEF RxResetBegin, RxGoto, SignalReply, CallWaits,
      CallInBuf, TypeOK, ClntType, RxType, CbType, ModemType
<1>14. CASE RxResetBeginCb
  BY <1>14, PipeFrame DEF RxResetBeginCb, RxGoto, SignalCb, CallWaits,
      CallInBuf, TypeOK, ClntType, RxType, CbType, ModemType
<1>15. CASE RxResetUnblock
  BY <1>15 DEF RxResetUnblock
<1>16. CASE RxResetEnd
  BY <1>16 DEF RxResetEnd, ResetInv
<1>17. CASE RxResetEndCb
  BY <1>17, PipeFrame DEF RxResetEndCb, RxGoto, SignalCb, CallWaits, CallInBuf,
      TypeOK, ClntType, RxType, CbType, ModemType
<1>18. CASE RxRead
  <2> DEFINE m == Head(inq)
  <2>1. inq \in Seq(Msg) /\ clnt \in ClntType /\ rx \in RxType /\ modem.sent \in Nat
    BY DEF TypeOK, ModemType
  <2>2. UNCHANGED <<cb, modem, served>> /\ ~CallInBuf /\ ~CallWaits
    BY <1>18 DEF RxRead, BufInv, CallInBuf, CallWaits
  <2>3. Dispatched' = Dispatched /\ Dispatched \in Nat /\ Taken = Dispatched
    BY <2>2 DEF Dispatched, Taken, TypeOK
  <2>4. CASE inq = <<>>
    <3>1. clnt' = clnt /\ inq' = inq /\ rx'.pc = "top"
      BY <1>18, <2>1, <2>4 DEF RxRead, RxGoto, RxType
    <3>2. ~CallWaits'
      BY <2>2, <3>1 DEF CallWaits, CallInBuf
    <3>3. QED
      BY <2>2, <3>1, <3>2, PipeFrame
  <2>5. CASE inq # <<>>
    <3>1. /\ m = inq[1] /\ m \in Msg /\ inq' = Tail(inq) /\ 1 \in 1..Len(inq)
          /\ Len(inq') = Len(inq) - 1
          /\ \A i \in 1..Len(inq') : i + 1 \in 1..Len(inq) /\ inq'[i] = inq[i + 1]
      BY <1>18, <2>1, <2>5, TailAt DEF RxRead
    <3>2. /\ clnt'.in_msg = m /\ clnt'.got_cb = clnt.got_cb
          /\ rx'.pc = IF m.kind = "reply" THEN "reply" ELSE "call"
      BY <1>18, <2>1, <2>5 DEF RxRead, RxGoto, ClntType, RxType
    <3>3. CallWaits' <=> m.kind = "call"
      BY <2>2, <3>2 DEF CallWaits, CallInBuf
    <3>4. modem.state = "up" /\ m.id \in Nat /\ \A i \in 1..Len(inq) : inq[i].id \in Nat
      <4>1. modem.state = "up"
        BY <2>5 DEF PipeInv
      <4>2. m.id \in Nat
        BY <3>1 DEF Msg
      <4>3. \A i \in 1..Len(inq) : inq[i].id \in Nat
        <5>1. \A i \in 1..Len(inq) : inq[i] \in Msg
          BY <2>1
        <5>2. QED
          BY <5>1 DEF Msg
      <4>4. QED
        BY <4>1, <4>2, <4>3
    <3>5. ASSUME m.kind = "call" PROVE m.id = Dispatched + 1
      <4>1. Dispatched < m.id /\ m.id <= modem.sent
        BY <2>3, <3>1, <3>5 DEF PipeInv
      <4>2. PICK i \in 1..Len(inq) : inq[i].kind = "call" /\ inq[i].id = Dispatched + 1
        BY SMTT(30), <2>1, <2>3, <3>4, <4>1 DEF PipeInv
      <4>3. 1 < i => m.id < Dispatched + 1
        BY <3>1, <3>5, <4>2 DEF PipeInv
      <4>4. QED
        BY <2>3, <3>1, <3>4, <4>1, <4>2, <4>3
    <3>6. Taken' = Dispatched + (IF m.kind = "call" THEN 1 ELSE 0)
      BY <2>3, <3>3 DEF Taken
    <3>7. Taken' <= modem.sent
      BY <2>3, <3>1, <3>4, <3>5, <3>6 DEF PipeInv
    <3>8. \A i \in 1..Len(inq') : inq'[i].kind = "call" =>
            Taken' < inq'[i].id /\ inq'[i].id <= modem.sent
      BY <2>3, <3>1, <3>4, <3>5, <3>6 DEF PipeInv
    <3>9. \A i, j \in 1..Len(inq') :
            i < j /\ inq'[i].kind = "call" /\ inq'[j].kind = "call" => inq'[i].id < inq'[j].id
      BY <3>1 DEF PipeInv
    <3>10. \A n \in Nat : Taken' < n /\ n <= modem.sent =>
             \E i \in 1..Len(inq') : inq'[i].kind = "call" /\ inq'[i].id = n
      <4> SUFFICES ASSUME NEW n \in Nat, Taken' < n, n <= modem.sent
                   PROVE \E i \in 1..Len(inq') : inq'[i].kind = "call" /\ inq'[i].id = n
        OBVIOUS
      <4>1. PICK i \in 1..Len(inq) : inq[i].kind = "call" /\ inq[i].id = n
        BY <2>3, <3>4, <3>6 DEF PipeInv
      <4>2. i # 1
        BY <2>3, <3>1, <3>5, <3>6, <4>1
      <4>3. i - 1 \in 1..Len(inq') /\ inq'[i - 1] = inq[i]
        BY <2>1, <3>1, <4>2
      <4>4. QED
        BY <4>1, <4>3
    <3>11. QED
      BY <2>2, <2>3, <3>2, <3>3, <3>4, <3>5, <3>7, <3>8, <3>9, <3>10 DEF PipeInv
  <2>6. QED
    BY <2>4, <2>5
<1>19. CASE RxReply
  BY <1>19, PipeFrame DEF RxReply, RxGoto, SignalReply, CallWaits, CallInBuf,
      TypeOK, ClntType, RxType, CbType, ModemType
<1>20. CASE RxCall
  <2>1. cb.pc # "dispatch" /\ (cb'.pc = "dispatch" <=> cb.pc = "dispatch") /\ cb'.msg = cb.msg
    BY <1>20 DEF RxCall, WaitCbLockFree, CbHolding, SignalCb, TypeOK, CbType
  <2>2. clnt'.got_cb /\ clnt'.in_msg = clnt.in_msg /\ UNCHANGED <<served, inq, modem>>
    BY <1>20 DEF RxCall, TypeOK, ClntType
  <2>3. CallWaits' <=> CallWaits
    BY <1>20, <2>2 DEF RxCall, CallWaits, CallInBuf
  <2>4. QED
    BY <2>1, <2>2, <2>3, PipeFrame
<1>21. CASE CbStart
  BY <1>21, PipeFrame DEF CbStart, CbGoto, CallWaits, CallInBuf, TypeOK,
      ClntType, RxType, CbType, ModemType
<1>22. CASE CbLoop
  BY <1>22, PipeFrame DEF CbLoop, CbGoto, CallWaits, CallInBuf, TypeOK,
      ClntType, RxType, CbType, ModemType
<1>23. CASE CbWake
  BY <1>23, PipeFrame DEF CbWake, CbGoto, CallWaits, CallInBuf, TypeOK,
      ClntType, RxType, CbType, ModemType
<1>24. CASE CbResetNotify
  BY <1>24, PipeFrame DEF CbResetNotify, CbGoto, CallWaits, CallInBuf, TypeOK,
      ClntType, RxType, CbType, ModemType
<1>25. CASE CbNoData
  BY <1>25, PipeFrame DEF CbNoData, CbGoto, CallWaits, CallInBuf, TypeOK,
      ClntType, RxType, CbType, ModemType
<1>26. CASE CbTake
  BY <1>26, PipeFrame DEF CbTake, CbGoto, CallWaits, CallInBuf, TypeOK,
      ClntType, RxType, CbType, ModemType
<1>27. CASE CbClone
  <2>1. /\ cb.pc = "clone" /\ cb' = [pc |-> "dispatch", msg |-> clnt.in_msg]
        /\ clnt' = [clnt EXCEPT !.input_xdr_busy = FALSE] /\ clnt \in ClntType
        /\ UNCHANGED <<rx, modem, inq, served>>
    BY <1>27 DEF CbClone, TypeOK
  <2>2. clnt'.got_cb = clnt.got_cb /\ clnt'.in_msg = clnt.in_msg
    BY <2>1 DEF ClntType
  <2>3. CallWaits /\ ~CallWaits'
    BY <2>1, <2>2 DEF CallWaits, CallInBuf, BufInv
  <2>4. Dispatched = Len(served) /\ Dispatched' = Len(served) + 1 /\ Len(served) \in Nat
    BY <2>1 DEF Dispatched, TypeOK
  <2>5. Taken' = Taken
    BY <2>3, <2>4 DEF Taken
  <2>6. cb'.msg.kind = "call" /\ cb'.msg.id = Len(served) + 1
    BY <2>1, <2>3, <2>4 DEF CallWaits, PipeInv
  <2>7. QED
    BY <2>1, <2>3, <2>5, <2>6 DEF PipeInv
<1>28. CASE CbDispatch
  <2>1. /\ served \in Seq(Nat) /\ cb.pc = "dispatch" /\ cb.msg.kind = "call"
        /\ cb.msg.id = Len(served) + 1
    BY <1>28 DEF CbDispatch, PipeInv, TypeOK
  <2>2. /\ served' = Append(served, Len(served) + 1) /\ cb'.pc = "loop"
        /\ modem' = [modem EXCEPT !.unanswered = @ \ {cb.msg.id}]
        /\ UNCHANGED <<clnt, rx, inq>>
    BY <1>28, <2>1 DEF CbDispatch, SvcDispatch
  <2>3. modem'.sent = modem.sent /\ modem'.state = modem.state
    BY <2>2 DEF TypeOK, ModemType
  <2>4. /\ Len(served') = Len(served) + 1
        /\ \A i \in 1..Len(served') : served'[i] = i
    <3>1. Len(served) + 1 \in Nat
      BY <2>1
    <3>2. /\ Len(served') = Len(served) + 1 /\ served'[Len(served) + 1] = Len(served) + 1
          /\ \A i \in 1..Len(served) : served'[i] = served[i]
          /\ \A i \in 1..Len(served') : i \in 1..Len(served) \/ i = Len(served) + 1
      BY <2>1, <2>2, <3>1, AppendAt
    <3>3. QED
      BY <3>2 DEF PipeInv
  <2>5. CallWaits' <=> CallWaits
    BY <2>1, <2>2 DEF CallWaits, CallInBuf
  <2>6. Dispatched' = Dispatched
    BY <2>1, <2>2, <2>4 DEF Dispatched
  <2>7. Taken' = Taken
    BY <2>5, <2>6 DEF Taken
  <2>8. QED
    BY <2>2, <2>3, <2>4, <2>5, <2>6, <2>7 DEF PipeInv
<1>29. CASE DestroyBegin
  BY <1>29, PipeFrame DEF DestroyBegin, CallWaits, CallInBuf, TypeOK, ClntType,
      RxType, CbType, ModemType
<1>30. CASE DestroySignal
  BY <1>30, PipeFrame DEF DestroySignal, SignalCb, CallWaits, CallInBuf, TypeOK,
      ClntType, RxType, CbType, ModemType
<1>31. CASE DestroyJoinCb
  BY <1>31, PipeFrame DEF DestroyJoinCb, CallWaits, CallInBuf, TypeOK, ClntType,
      RxType, CbType, ModemType
<1>32. CASE DestroyUnlink
  BY <1>32, PipeFrame DEF DestroyUnlink, CallWaits, CallInBuf, TypeOK, ClntType,
      RxType, CbType, ModemType
<1>33. CASE DestroyJoinRx
  BY <1>33, PipeFrame DEF DestroyJoinRx, CallWaits, CallInBuf, TypeOK, ClntType,
      RxType, CbType, ModemType
<1>34. CASE ModemReply
  <2>1. PICK x \in modem.pending : /\ modem' = [modem EXCEPT !.pending = @ \ {x}]
                                   /\ inq' = Append(inq, Reply(x))
    BY <1>34 DEF ModemReply
  <2>2. Reply(x) \in Msg
    BY DEF TypeOK, ModemType, Reply, Msg
  <2>3. inq \in Seq(Msg) /\ modem \in ModemType /\ UNCHANGED <<served, cb, clnt, rx>>
    BY <1>34 DEF ModemReply, TypeOK
  <2>4. modem'.sent = modem.sent /\ modem'.state = modem.state
    BY <2>1, <2>3 DEF ModemType
  <2>5. /\ 1..Len(inq) \subseteq 1..Len(inq')
        /\ \A i \in 1..Len(inq) : inq'[i] = inq[i]
        /\ \A i \in 1..Len(inq') : i \in 1..Len(inq) \/ inq'[i].kind # "call"
    BY <2>1, <2>2, <2>3, AppendAt DEF Reply
  <2>6. Dispatched' = Dispatched /\ Taken' = Taken /\ (CallWaits' <=> CallWaits)
    BY <2>3 DEF Dispatched, Taken, CallWaits, CallInBuf
  <2>7. QED
    BY <1>34, <2>3, <2>4, <2>5, <2>6 DEF PipeInv, ModemReply
<1>35. CASE ModemCall
  <2> DEFINE k == modem.sent + 1
             m == [kind |-> "call", id |-> k]
  <2>1. inq \in Seq(Msg) /\ modem \in ModemType /\ UNCHANGED <<served, cb, clnt, rx>>
    BY <1>35 DEF ModemCall, TypeOK
  <2>2. modem.sent \in Nat /\ modem'.sent = k /\ modem'.state = "up" /\ modem.state = "up"
    BY <1>35, <2>1 DEF ModemCall, ModemType
  <2>3. m \in Msg /\ inq' = Append(inq, m)
    BY <1>35, <2>2 DEF ModemCall, Msg
  <2>4. /\ 1..Len(inq) \subseteq 1..Len(inq') /\ Len(inq) + 1 \in 1..Len(inq')
        /\ \A i \in 1..Len(inq) : inq'[i] = inq[i]
        /\ inq'[Len(inq) + 1] = m
        /\ \A i \in 1..Len(inq') : i \in 1..Len(inq) \/ i = Len(inq) + 1
    BY <2>1, <2>3, AppendAt
  <2>5. Dispatched' = Dispatched /\ Taken' = Taken /\ (CallWaits' <=> CallWaits)
    BY <2>1 DEF Dispatched, Taken, CallWaits, CallInBuf
  <2>6. Taken \in Nat /\ Taken <= modem.sent /\ \A i \in 1..Len(inq) : inq[i].id \in Nat
    <3>1. Taken \in Nat
      <4>1. Len(served) \in Nat
        BY DEF TypeOK
      <4>2. Dispatched \in Nat
        BY <4>1 DEF Dispatched
      <4>3. QED
        BY <4>2 DEF Taken
    <3>2. Taken <= modem.sent
      BY DEF PipeInv
    <3>3. \A i \in 1..Len(inq) : inq[i].id \in Nat
      <4>1. \A i \in 1..Len(inq) : inq[i] \in Msg
        BY <2>1
      <4>2. QED
        BY <4>1 DEF Msg
    <3>4. QED
      BY <3>1, <3>2, <3>3
  <2>7. \A i \in 1..Len(inq') : inq'[i].kind = "call" => Taken < inq'[i].id /\ inq'[i].id <= k
    BY SMTT(30), <2>2, <2>4, <2>6 DEF PipeInv
  <2>8. \A i, j \in 1..Len(inq') :
          i < j /\ inq'[i].kind = "call" /\ inq'[j].kind = "call" => inq'[i].id < inq'[j].id
    <3> SUFFICES ASSUME NEW i \in 1..Len(inq'), NEW j \in 1..Len(inq'), i < j,
                        inq'[i].kind = "call", inq'[j].kind = "call"
                 PROVE inq'[i].id < inq'[j].id
      OBVIOUS
    <3>1. i \in 1..Len(inq)
      <4>1. Len(inq) \in Nat
        BY <2>1
      <4>2. i # Len(inq) + 1
        BY <4>1, <2>4
      <4>3. QED
        BY <4>2, <2>4
    <3>2. inq[i].id <= modem.sent
      BY <2>4, <3>1 DEF PipeInv
    <3>3. CASE j \in 1..Len(inq)
      BY <2>4, <3>1, <3>3 DEF PipeInv
    <3>4. CASE j = Len(inq) + 1
      BY <2>2, <2>4, <2>6, <3>1, <3>2, <3>4
    <3>5. QED
      BY <2>4, <3>3, <3>4
  <2>9. \A n \in Nat : Taken < n /\ n <= k =>
          \E i \in 1..Len(inq') : inq'[i].kind = "call" /\ inq'[i].id = n
    <3> SUFFICES ASSUME NEW n \in Nat, Taken < n, n <= k
                 PROVE \E i \in 1..Len(inq') : inq'[i].kind = "call" /\ inq'[i].id = n
      OBVIOUS
    <3>1. CASE n = k
      BY <2>4, <3>1
    <3>2. CASE n <= modem.sent
      <4>1. PICK i \in 1..Len(inq) : inq[i].kind = "call" /\ inq[i].id = n
        BY <2>2, <3>2 DEF PipeInv
      <4>2. i \in 1..Len(inq') /\ inq'[i] = inq[i]
        BY <2>4
      <4>3. QED
        BY <4>1, <4>2
    <3>3. QED
      BY <2>2, <3>1, <3>2
  <2>10. Taken' <= modem'.sent /\ (CallWaits' => clnt'.in_msg.id = Dispatched' + 1)
    BY <2>1, <2>2, <2>5, <2>6 DEF PipeInv
  <2>11. \A n \in Nat : Taken' < n /\ n <= modem'.sent =>
          \E i \in 1..Len(inq') : inq'[i].kind = "call" /\ inq'[i].id = n
    BY <2>2, <2>5, <2>9
  <2>12. \A i \in 1..Len(inq') : inq'[i].kind = "call" =>
          Taken' < inq'[i].id /\ inq'[i].id <= modem'.sent
    BY <2>2, <2>5, <2>7
  <2>13. \A i \in 1..Len(served') : served'[i] = i
    BY <2>1 DEF PipeInv
  <2>14. cb'.pc = "dispatch" => cb'.msg.kind = "call" /\ cb'.msg.id = Len(served') + 1
    BY <2>1 DEF PipeInv
  <2>15. QED
    BY <2>2, <2>8, <2>10, <2>11, <2>12, <2>13, <2>14 DEF PipeInv
<1>36. CASE ModemStray
  <2>1. /\ modem' = [modem EXCEPT !.strays = @ + 1]
        /\ inq' = Append(inq, [kind |-> "stray", id |-> 0])
    BY <1>36 DEF ModemStray
  <2>2. [kind |-> "stray", id |-> 0] \in Msg
    BY DEF Msg
  <2>3. inq \in Seq(Msg) /\ modem \in ModemType /\ UNCHANGED <<served, cb, clnt, rx>>
    BY <1>36 DEF ModemStray, TypeOK
  <2>4. modem'.sent = modem.sent /\ modem'.state = modem.state
    BY <2>1, <2>3 DEF ModemType
  <2>5. /\ 1..Len(inq) \subseteq 1..Len(inq')
        /\ \A i \in 1..Len(inq) : inq'[i] = inq[i]
        /\ \A i \in 1..Len(inq') : i \in 1..Len(inq) \/ inq'[i].kind # "call"
    BY <2>1, <2>2, <2>3, AppendAt
  <2>6. Dispatched' = Dispatched /\ Taken' = Taken /\ (CallWaits' <=> CallWaits)
    BY <2>3 DEF Dispatched, Taken, CallWaits, CallInBuf
  <2>7. QED
    BY <1>36, <2>3, <2>4, <2>5, <2>6 DEF PipeInv, ModemStray
<1>37. CASE ModemReset
  <2>1. UNCHANGED <<served, cb, clnt, rx>> /\ inq' = <<>> /\ modem \in ModemType
    BY <1>37 DEF ModemReset, TypeOK
  <2>2. modem'.sent = modem.sent /\ modem'.state = "down"
    BY <1>37, <2>1 DEF ModemReset, ModemType
  <2>3. Dispatched' = Dispatched /\ Taken' = Taken /\ (CallWaits' <=> CallWaits)
    BY <2>1 DEF Dispatched, Taken, CallWaits, CallInBuf
  <2>4. QED
    BY <2>1, <2>2, <2>3 DEF PipeInv
<1>38. CASE ModemBack
  BY <1>38, PipeFrame DEF ModemBack, CallWaits, CallInBuf, TypeOK, ClntType,
      RxType, CbType, ModemType
<1>39. CASE UNCHANGED vars
  BY <1>39, PipeFrame DEF vars, CallWaits, CallInBuf
<1>40. QED
  BY <1>1, <1>2, <1>3, <1>4, <1>5, <1>6, <1>7, <1>8, <1>9, <1>10, <1>11, <1>12,
      <1>13, <1>14, <1>15, <1>16, <1>17, <1>18, <1>19, <1>20, <1>21, <1>22,
      <1>23, <1>24, <1>25, <1>26, <1>27, <1>28, <1>29, <1>30, <1>31, <1>32,
      <1>33, <1>34, <1>35, <1>36, <1>37, <1>38, <1>39
  DEF Next, CallStep, RxStep, CbStep, DestroyStep, ModemStep

(* failed is never taken back. *)
LEMMA FailedStays == TypeOK /\ [Next]_vars => (failed => failed')
<1> SUFFICES ASSUME TypeOK, [Next]_vars PROVE (failed => failed')
  OBVIOUS
<1> USE DEF history
<1>1. ASSUME NEW c \in Callers, CallBegin(c) PROVE (failed => failed')
  BY <1>1 DEF CallBegin, CallerGoto, TypeOK
<1>2. ASSUME NEW c \in Callers, CallLock(c) PROVE (failed => failed')
  BY <1>2 DEF CallLock, CallerGoto, TypeOK
<1>3. ASSUME NEW c \in Callers, CallSend(c) PROVE (failed => failed')
  BY <1>3 DEF CallSend, CallerGoto, TypeOK
<1>4. ASSUME NEW c \in Callers, CallSpurious(c) PROVE (failed => failed')
  BY <1>4 DEF CallSpurious, CallerGoto, TypeOK
<1>5. ASSUME NEW c \in Callers, CallWake(c) PROVE (failed => failed')
  BY <1>5 DEF CallWake, CallerGoto, Reply, TypeOK
<1>6. ASSUME NEW c \in Callers, CallDecode(c) PROVE (failed => failed')
  BY <1>6 DEF CallDecode, CallerGoto, TypeOK
<1>7. ASSUME NEW c \in Callers, CallOut(c) PROVE (failed => failed')
  BY <1>7 DEF CallOut, CallerGoto, TypeOK
<1>8. CASE RxLoop
  BY <1>8 DEF RxLoop, RxGoto, TypeOK
<1>9. CASE RxSetup
  BY <1>9 DEF RxSetup, TypeOK
<1>10. CASE RxPoll
  BY <1>10 DEF RxPoll, Ready, TypeOK
<1>11. CASE RxCheck
  BY <1>11 DEF RxCheck, RxGoto, TypeOK
<1>12. CASE RxScan
  BY <1>12 DEF RxScan, RxGoto, TypeOK
<1>13. CASE RxResetBegin
  BY <1>13 DEF RxResetBegin, RxGoto, SignalReply, TypeOK
<1>14. CASE RxResetBeginCb
  BY <1>14 DEF RxResetBeginCb, RxGoto, SignalCb, TypeOK
<1>15. CASE RxResetUnblock
  BY <1>15 DEF RxResetUnblock, RxGoto, TypeOK
<1>16. CASE RxResetEnd
  BY <1>16 DEF RxResetEnd, RxGoto, TypeOK
<1>17. CASE RxResetEndCb
  BY <1>17 DEF RxResetEndCb, RxGoto, SignalCb, TypeOK
<1>18. CASE RxRead
  BY <1>18 DEF RxRead, RxGoto, TypeOK
<1>19. CASE RxReply
  BY <1>19 DEF RxReply, RxGoto, SignalReply, TypeOK
<1>20. CASE RxCall
  BY <1>20 DEF RxCall, RxGoto, SignalCb, TypeOK
<1>21. CASE CbStart
  BY <1>21 DEF CbStart, CbGoto, TypeOK
<1>22. CASE CbLoop
  BY <1>22 DEF CbLoop, CbGoto, TypeOK
<1>23. CASE CbWake
  BY <1>23 DEF CbWake, CbGoto, TypeOK
<1>24. CASE CbResetNotify
  BY <1>24 DEF CbResetNotify, CbGoto, TypeOK
<1>25. CASE CbNoData
  BY <1>25 DEF CbNoData, CbGoto, TypeOK
<1>26. CASE CbTake
  BY <1>26 DEF CbTake, CbGoto, TypeOK
<1>27. CASE CbClone
  BY <1>27 DEF CbClone, TypeOK
<1>28. CASE CbDispatch
  BY <1>28 DEF CbDispatch, SvcDispatch, NoMsg, TypeOK
<1>29. CASE DestroyBegin
  BY <1>29 DEF DestroyBegin, TypeOK
<1>30. CASE DestroySignal
  BY <1>30 DEF DestroySignal, SignalCb, TypeOK
<1>31. CASE DestroyJoinCb
  BY <1>31 DEF DestroyJoinCb, TypeOK
<1>32. CASE DestroyUnlink
  BY <1>32 DEF DestroyUnlink, TypeOK
<1>33. CASE DestroyJoinRx
  BY <1>33 DEF DestroyJoinRx, TypeOK
<1>34. CASE ModemReply
  BY <1>34 DEF ModemReply, Reply, TypeOK
<1>35. CASE ModemCall
  BY <1>35 DEF ModemCall, TypeOK
<1>36. CASE ModemStray
  BY <1>36 DEF ModemStray, TypeOK
<1>37. CASE ModemReset
  BY <1>37 DEF ModemReset, TypeOK
<1>38. CASE ModemBack
  BY <1>38 DEF ModemBack, TypeOK
<1>39. CASE UNCHANGED vars
  BY <1>39 DEF vars, TypeOK
<1>40. QED
  BY <1>1, <1>2, <1>3, <1>4, <1>5, <1>6, <1>7, <1>8, <1>9, <1>10, <1>11, <1>12,
      <1>13, <1>14, <1>15, <1>16, <1>17, <1>18, <1>19, <1>20, <1>21, <1>22,
      <1>23, <1>24, <1>25, <1>26, <1>27, <1>28, <1>29, <1>30, <1>31, <1>32,
      <1>33, <1>34, <1>35, <1>36, <1>37, <1>38, <1>39
  DEF Next, CallStep, RxStep, CbStep, DestroyStep, ModemStep

(* Init establishes the invariant. *)
LEMMA InitRpc == Init => RpcInv
<1> SUFFICES ASSUME Init PROVE RpcInv
  OBVIOUS
<1>1. clnt \in ClntType
  BY DEF Init, ClntType, NoMsg, Msg
<1>2. rx \in RxType /\ cb \in CbType
  BY DEF Init, RxType, RxPc, CbType, CbPc, NoMsg, Msg
<1>3. modem \in ModemType
  BY DEF Init, ModemType
<1>4. TypeOK
  <2>1. pc \in [Callers -> CallerPc] /\ des \in DesPc
    BY DEF Init, CallerPc, DesPc
  <2>2. inq \in Seq(Msg) /\ served \in Seq(Nat)
    BY DEF Init
  <2>3. xid \in Nat /\ calls \in Nat
    BY DEF Init
  <2>4. pipe \in BOOLEAN /\ wakelock \in BOOLEAN /\ failed \in BOOLEAN
    BY DEF Init
  <2>5. QED
    BY <1>1, <1>2, <1>3, <2>1, <2>2, <2>3, <2>4 DEF TypeOK
<1>5. WakelockForWork /\ OneInCall /\ ResetInv
  BY DEF Init, WakelockForWork, OneInCall, InCall, ResetInv
<1>6. Fresh
  BY DEF Init, Fresh, NoMsg, Reply
<1>7. BufInv
  BY DEF Init, BufInv, CallInBuf, NoMsg, Reply
<1>8. PipeInv
  <2>1. ~CallInBuf /\ ~CallWaits /\ cb.pc # "dispatch"
    BY DEF Init, CallWaits, CallInBuf
  <2>2. Len(served) = 0 /\ Len(inq) = 0 /\ inq = <<>>
    BY DEF Init
  <2>3. modem.sent = 0
    BY DEF Init
  <2>4. Dispatched = 0 /\ Taken = 0
    BY <2>1, <2>2 DEF Dispatched, Taken
  <2>5. \A n \in Nat : ~(Taken < n /\ n <= modem.sent)
    BY <2>3, <2>4
  <2>6. 1..Len(served) = {} /\ 1..Len(inq) = {}
    BY <2>2
  <2>7. QED
    BY <2>1, <2>2, <2>3, <2>4, <2>5, <2>6 DEF PipeInv
<1>9. QED
  BY <1>4, <1>5, <1>6, <1>7, <1>8 DEF RpcInv

(* Every step keeps it. *)
LEMMA NextRpc == RpcInv /\ [Next]_vars => RpcInv'
<1> SUFFICES ASSUME RpcInv, [Next]_vars PROVE RpcInv'
  OBVIOUS
<1>1. TypeOK' /\ WakelockForWork' /\ OneInCall' /\ ResetInv'
  BY TypeStep, WakeStep, LockStep, ResetStep DEF RpcInv
<1>2. failed => failed'
  BY FailedStays DEF RpcInv
<1>3. ~failed' => Fresh' /\ BufInv' /\ PipeInv'
  BY <1>2, FreshStep, BufStep, PipeStep DEF RpcInv
<1>4. QED
  BY <1>1, <1>3 DEF RpcInv

(* Until a call ends without its reply or a restart frees the buffer,      *)
(* rx_context does not overwrite a message that clnt_call or cb_context    *)
(* still uses, and cb_context serves each CALL once and in order. The wake *)
(* lock is never kept without a message to work on.                        *)
THEOREM BufferSafe ==
  Spec => [](TypeOK /\ InBufIntactUntilFailure /\ CallsServedInOrder /\ WakelockForWork)
<1>1. RpcInv => TypeOK /\ InBufIntactUntilFailure /\ CallsServedInOrder /\ WakelockForWork
  BY DEF RpcInv, BufInv, PipeInv, CallInBuf, InBufIntactUntilFailure,
      InBufIntact,
      CallsServedInOrder
<1>2. QED
  BY <1>1, InitRpc, NextRpc, PTL DEF Spec
=============================================================================
