------------------------- MODULE LocSyncCallProofs -------------------------
(***************************************************************************)
(* Proofs about the slot table of LocSyncCall, for any number of threads,  *)
(* slots, handles, IOCTL types and calls.                                  *)
(***************************************************************************)
EXTENDS LocSyncCall, TLAPS

SlotType == [handle: Handles \cup {-1}, selected: BOOLEAN, waiting: BOOLEAN,
             arrived: BOOLEAN, wait_mask: SUBSET EventBits,
             ioctl_type: Ioctls \cup {0}, payload: Payload]

(* A thread inside loc_api_sync_ioctl has a request. *)
RequestMade == \A c \in Callers : pc[c] # "idle" => req[c] \in Request

(* loc_cb_is_waiting is TRUE exactly while the owner of the slot is in     *)
(* pthread_cond_timedwait or on its way out of it.                         *)
WaitingExact ==
  \A s \in Slots : slots[s].waiting <=>
    \E c \in Callers : select_id[c] = s /\ pc[c] \in {"sleeping", "woken", "timedout"}

(* The inductive invariant: the flags of the table are exact and slots     *)
(* have one owner.                                                         *)
TableInv ==
  /\ TypeOK
  /\ RequestMade
  /\ InUseExact
  /\ SlotOwned
  /\ WaitingExact
  /\ WaitNeverRefused

(* The table that loc_api_sync_call_init leaves satisfies it. *)
LEMMA InitTable == Init => TableInv
  <1> SUFFICES ASSUME Init PROVE TableInv
    OBVIOUS
  <1> USE DEF Init
  <1>1. NoPayload \in Payload
    BY SyncCallAssumption DEF NoPayload, Payload
  <1>2. slots \in [Slots -> [handle: Handles \cup {-1}, selected: BOOLEAN,
                             waiting: BOOLEAN, arrived: BOOLEAN,
                             wait_mask: SUBSET EventBits,
                             ioctl_type: Ioctls \cup {0}, payload: Payload]]
    BY <1>1
  <1>a. stored \in [Slots -> Seq(0 .. MaxCalls)]
    OBVIOUS
  <1>b. select_id \in [Callers -> Slots \cup {NoSlot}] /\ pc \in [Callers -> Labels]
    BY DEF Labels
  <1>c. ncalls \in 0 .. MaxCalls
    BY SyncCallAssumption
  <1>3. TypeOK
    BY <1>2, <1>a, <1>b, <1>c DEF TypeOK
  <1>4. RequestMade /\ InUseExact /\ SlotOwned /\ WaitNeverRefused
    BY SyncCallAssumption DEF RequestMade, InUseExact, SlotOwned, WaitNeverRefused, Slots, NoSlot
  <1>5. WaitingExact
    BY DEF WaitingExact
  <1> QED
    BY <1>3, <1>4, <1>5 DEF TableInv

(* The number that stands for no slot is not a slot. *)
LEMMA NoSlotIsNone == NoSlot \notin Slots
  BY SyncCallAssumption DEF Slots, NoSlot

(* A thread that holds a slot: the slot's number is one of the table's. *)
LEMMA OwnSlot ==
  ASSUME TypeOK, SlotOwned, NEW c \in Callers, pc[c] # "idle"
  PROVE  select_id[c] \in Slots
  BY DEF TypeOK, SlotOwned

(* A step of loc_api_callback_process_sync_call leaves the owners alone,   *)
(* keeps loc_cb_is_waiting, and moves threads only out of the two sleeps.  *)
LEMMA ProcessKeeps ==
  ASSUME TypeOK, NEW h, NEW e, NEW p \in Payload, ProcessSyncCall(h, e, p)
  PROVE  /\ slots' \in [Slots -> [handle: Handles \cup {-1}, selected: BOOLEAN,
                                  waiting: BOOLEAN, arrived: BOOLEAN,
                                  wait_mask: SUBSET EventBits,
                                  ioctl_type: Ioctls \cup {0}, payload: Payload]]
         /\ stored' \in [Slots -> Seq(0 .. MaxCalls)]
         /\ \A s \in Slots : slots'[s].waiting = slots[s].waiting
         /\ pc' \in [Callers -> Labels]
         /\ \A c \in Callers : \/ pc'[c] = pc[c]
                               \/ pc[c] = "busy" /\ pc'[c] = "ioctl"
                               \/ pc[c] = "sleeping" /\ pc'[c] = "woken"
         /\ in_use' = (in_use /\ \E s \in Slots : slot_in_use[s])
  <1> DEFINE consumer == First(Candidates(h, e, p))
             sleeper == UNION {Sleepers(s) : s \in {t \in consumer : slots[t].waiting}}
             waiters == {c \in Callers : pc[c] = "busy"}
  <1>1. PICK W1 \in Signal(sleeper), W2 \in Signal(waiters) : Wake(W1 \cup W2)
    BY DEF ProcessSyncCall
  <1>2. \A c \in W1 \cup W2 : pc[c] \in {"sleeping", "busy"}
    BY DEF Signal, Sleepers
  <1>3. slots' = [s \in Slots |-> IF s \in consumer THEN Received(slots[s], p) ELSE slots[s]]
    BY DEF ProcessSyncCall
  <1>4. stored' = [s \in Slots |-> IF s \in consumer THEN Append(stored[s], p.call)
                                                     ELSE stored[s]]
    BY DEF ProcessSyncCall
  <1>5. \A s \in Slots : Received(slots[s], p) \in
          [handle: Handles \cup {-1}, selected: BOOLEAN, waiting: BOOLEAN, arrived: BOOLEAN,
           wait_mask: SUBSET EventBits, ioctl_type: Ioctls \cup {0}, payload: Payload]
    BY ZenonT(60) DEF TypeOK, Received
  <1>6. \A s \in Slots : Received(slots[s], p).waiting = slots[s].waiting
    BY DEF TypeOK, Received
  <1>7. \A c \in Callers : pc'[c] = IF c \in W1 \cup W2 THEN Awake(pc[c]) ELSE pc[c]
    BY <1>1 DEF Wake
  <1>8. p.call \in 0 .. MaxCalls
    BY DEF Payload
  <1>a. \A s \in Slots : stored[s] \in Seq(0 .. MaxCalls)
    BY DEF TypeOK
  <1>b. \A s \in Slots : Append(stored[s], p.call) \in Seq(0 .. MaxCalls)
    BY <1>8, <1>a
  <1>9. stored' \in [Slots -> Seq(0 .. MaxCalls)]
    BY <1>4, <1>a, <1>b
  <1>10. pc' \in [Callers -> Labels]
    BY <1>1, <1>2 DEF Wake, Awake, Labels, TypeOK
  <1>11. \A c \in Callers : \/ pc'[c] = pc[c]
                            \/ pc[c] = "busy" /\ pc'[c] = "ioctl"
                            \/ pc[c] = "sleeping" /\ pc'[c] = "woken"
    BY <1>2, <1>7 DEF Awake
  <1>12. in_use' = (in_use /\ \E s \in Slots : slot_in_use[s])
    BY DEF ProcessSyncCall
  <1> QED
    BY <1>3, <1>5, <1>6, <1>9, <1>10, <1>11, <1>12 DEF TypeOK

(* What Return adds to the history. *)
LEMMA ReturnAdds ==
  ASSUME TypeOK, RequestMade, SlotOwned, NEW c \in Callers, pc[c] # "idle",
         NEW code \in Codes, NEW from \in 0 .. MaxCalls, Return(c, code, from)
  PROVE  /\ returns' \subseteq [call: 1 .. MaxCalls, code: Codes, from: 0 .. MaxCalls,
                                stored: Seq(0 .. MaxCalls)]
         /\ \A r \in returns' : r \in returns \/ r.code = code
  <1>1. req[c].call \in 1 .. MaxCalls
    BY DEF RequestMade, Request
  <1>2. select_id[c] \in Slots /\ select_id[c] # NoSlot
    BY OwnSlot DEF SlotOwned
  <1>3. stored[select_id[c]] \in Seq(0 .. MaxCalls)
    BY <1>2 DEF TypeOK
  <1> QED
    BY <1>1, <1>2, <1>3 DEF Return, TypeOK

(* Steps inside a call that change neither the owners nor the table's      *)
(* flags: the first half of the invariant carries over.                    *)
LEMMA OwnersKept ==
  ASSUME TableInv, UNCHANGED <<in_use, slot_in_use, select_id>>,
         \A c \in Callers : pc'[c] = "idle" <=> pc[c] = "idle"
  PROVE  InUseExact' /\ SlotOwned'
  BY DEF TableInv, InUseExact, SlotOwned

(* loc_alloc_slot with a free slot keeps the table consistent ... *)
LEMMA AllocStep ==
  ASSUME TableInv, NEW c \in Callers, NEW h \in Handles, NEW t \in Ioctls,
         AllocSlot(c, h, t)
  PROVE  TableInv'
  <1> USE DEF TableInv
  <1>1. PICK s \in FreeSlots : /\ select_id' = [select_id EXCEPT ![c] = s]
                               /\ slot_in_use' = [slot_in_use EXCEPT ![s] = TRUE]
    BY DEF AllocSlot
  <1>2. s \in Slots /\ ~ slot_in_use[s] /\ s # NoSlot
    BY <1>1, SyncCallAssumption DEF FreeSlots, Slots, NoSlot
  <1>3. /\ pc[c] = "idle" /\ pc' = [pc EXCEPT ![c] = "select"] /\ in_use' = TRUE
        /\ req' = [req EXCEPT ![c] = [call |-> ncalls + 1, handle |-> h, ioctl |-> t]]
        /\ ncalls' = ncalls + 1 /\ ncalls < MaxCalls
        /\ UNCHANGED <<slots, modem, stored, returns>>
    BY DEF AllocSlot
  <1>4. [call |-> ncalls + 1, handle |-> h, ioctl |-> t] \in Request
    BY <1>3, SyncCallAssumption DEF TypeOK, Request
  <1>5. ncalls' \in 0 .. MaxCalls
    BY <1>3, SyncCallAssumption DEF TypeOK
  <1>6. TypeOK'
    BY <1>1, <1>2, <1>3, <1>4, <1>5 DEF TypeOK, Labels
  <1>7. RequestMade'
    BY <1>3, <1>4 DEF TypeOK, RequestMade
  <1>8. InUseExact'
    BY <1>1, <1>2, <1>3 DEF InUseExact, TypeOK
  <1>9. \A d \in Callers : select_id[d] # s
    BY <1>2 DEF SlotOwned
  <1>a. \A d \in Callers : /\ select_id'[d] = IF d = c THEN s ELSE select_id[d]
                           /\ pc'[d] = IF d = c THEN "select" ELSE pc[d]
    BY <1>1, <1>3 DEF TypeOK
  <1>b. \A x \in Slots : slot_in_use'[x] <=> x = s \/ slot_in_use[x]
    BY <1>1, <1>2 DEF TypeOK
  <1>10. SlotOwned'
    <2>1. \A d \in Callers : select_id'[d] # NoSlot <=> pc'[d] # "idle"
      BY <1>2, <1>a DEF SlotOwned
    <2>2. \A d, e \in Callers : select_id'[d] = select_id'[e] /\ d # e =>
                                  select_id'[d] = NoSlot
      BY <1>9, <1>a DEF SlotOwned
    <2>3. \A x \in Slots : slot_in_use'[x] <=> \E d \in Callers : select_id'[d] = x
      <3> SUFFICES ASSUME NEW x \in Slots
                   PROVE  slot_in_use'[x] <=> \E d \in Callers : select_id'[d] = x
        OBVIOUS
      <3>1. select_id[c] # x
        BY <1>3, NoSlotIsNone DEF SlotOwned
      <3>2. CASE x = s
        BY <1>a, <1>b, <3>2
      <3>3. CASE x # s
        BY <1>a, <1>b, <3>1, <3>3 DEF SlotOwned
      <3> QED
        BY <3>2, <3>3
    <2> QED
      BY <2>1, <2>2, <2>3 DEF SlotOwned
  <1>11. WaitingExact'
    <2>1. \A x \in Slots :
            (\E d \in Callers : select_id'[d] = x /\ pc'[d] \in {"sleeping", "woken", "timedout"})
            <=> \E d \in Callers : select_id[d] = x /\ pc[d] \in {"sleeping", "woken", "timedout"}
      BY <1>3, <1>a
    <2> QED
      BY <1>3, <2>1 DEF WaitingExact
  <1>12. WaitNeverRefused'
    BY <1>3 DEF WaitNeverRefused
  <1> QED
    BY <1>6, <1>7, <1>8, <1>10, <1>11, <1>12

(* ... and so does loc_alloc_slot when all are taken. *)
LEMMA AllocFullStep ==
  ASSUME TableInv, NEW c \in Callers, NEW h \in Handles, NEW t \in Ioctls,
         AllocFull(c, h, t)
  PROVE  TableInv'
  <1> USE DEF TableInv
  <1>1. /\ returns' = returns \cup {[call |-> ncalls + 1, code |-> "engine_busy",
                                     from |-> 0, stored |-> <<>>]}
        /\ ncalls' = ncalls + 1 /\ ncalls < MaxCalls
        /\ UNCHANGED <<in_use, slot_in_use, slots, pc, select_id, req, modem, stored>>
    BY DEF AllocFull
  <1>2. ncalls + 1 \in 1 .. MaxCalls /\ ncalls + 1 \in 0 .. MaxCalls /\ 0 \in 0 .. MaxCalls
    BY <1>1, SyncCallAssumption DEF TypeOK
  <1>3. <<>> \in Seq(0 .. MaxCalls)
    OBVIOUS
  <1>4. [call |-> ncalls + 1, code |-> "engine_busy", from |-> 0, stored |-> <<>>] \in
          [call: 1 .. MaxCalls, code: Codes, from: 0 .. MaxCalls, stored: Seq(0 .. MaxCalls)]
    BY <1>2, <1>3 DEF Codes
  <1>5. TypeOK'
    BY <1>1, <1>2, <1>4 DEF TypeOK
  <1>6. WaitNeverRefused'
    BY <1>1 DEF WaitNeverRefused
  <1> QED
    BY <1>1, <1>5, <1>6 DEF RequestMade, InUseExact, SlotOwned, WaitingExact

(* Filling a slot keeps the table consistent. *)
LEMMA CallbackStep ==
  ASSUME TableInv, NEW h, NEW e, NEW p \in Payload, ProcessSyncCall(h, e, p),
         modem' \subseteq modem, UNCHANGED <<slot_in_use, select_id, req, ncalls, returns>>
  PROVE  TableInv'
  <1> USE DEF TableInv
  <1>1. TypeOK'
    BY ProcessKeeps DEF TypeOK, InUseExact
  <1>2. \A c \in Callers : pc'[c] = "idle" <=> pc[c] = "idle"
    BY ProcessKeeps
  <1>3. InUseExact'
    BY ProcessKeeps DEF InUseExact
  <1>4. SlotOwned'
    BY <1>2 DEF SlotOwned
  <1>5. RequestMade' /\ WaitNeverRefused'
    BY <1>2 DEF RequestMade, WaitNeverRefused
  <1>6. \A c \in Callers : pc'[c] \in {"sleeping", "woken", "timedout"} <=>
                           pc[c] \in {"sleeping", "woken", "timedout"}
    BY ProcessKeeps
  <1>7. WaitingExact'
    BY <1>6, ProcessKeeps DEF WaitingExact
  <1> QED
    BY <1>1, <1>3, <1>4, <1>5, <1>7

(* Steps that only move one thread between labels of the same kind. *)
LEMMA MoveStep ==
  ASSUME TableInv, NEW c \in Callers, NEW l \in Labels \ {"idle"}, pc[c] # "idle",
         pc' = [pc EXCEPT ![c] = l],
         pc[c] \in {"sleeping", "woken", "timedout"} <=>
           l \in {"sleeping", "woken", "timedout"},
         modem' \subseteq Request,
         UNCHANGED <<in_use, slot_in_use, slots, select_id, req, ncalls, stored>>,
         returns' \subseteq [call: 1 .. MaxCalls, code: Codes, from: 0 .. MaxCalls,
                             stored: Seq(0 .. MaxCalls)],
         WaitNeverRefused'
  PROVE  TableInv'
  <1> USE DEF TableInv
  <1>1. \A d \in Callers : pc'[d] = IF d = c THEN l ELSE pc[d]
    BY DEF TypeOK
  <1>2. TypeOK'
    BY DEF TypeOK
  <1>3. InUseExact' /\ SlotOwned'
    BY <1>1, OwnersKept
  <1>4. RequestMade'
    BY <1>1 DEF RequestMade
  <1>5. WaitingExact'
    BY <1>1 DEF WaitingExact
  <1> QED
    BY <1>2, <1>3, <1>4, <1>5

(* Setting loc_cb_is_waiting keeps the type of the slots. *)
LEMMA WaitingTyped ==
  ASSUME TypeOK, NEW s \in Slots, NEW b \in BOOLEAN,
         slots' = [slots EXCEPT ![s].waiting = b]
  PROVE  slots' \in [Slots -> SlotType]
  <1>1. slots \in [Slots -> SlotType]
    BY DEF TypeOK, SlotType
  <1>2. [slots[s] EXCEPT !.waiting = b] \in SlotType
    BY <1>1 DEF SlotType
  <1> QED
    BY <1>1, <1>2

(* loc_api_select_callback keeps the table consistent. *)
LEMMA SelectStep ==
  ASSUME TableInv, NEW c \in Callers, SelectCallback(c)
  PROVE  TableInv'
  <1> USE DEF TableInv, SelectCallback
  <1>1. select_id[c] \in Slots /\ req[c] \in Request
    BY OwnSlot DEF RequestMade
  <1>2. slots[select_id[c]] \in SlotType
    BY <1>1 DEF TypeOK, SlotType
  <1>3. /\ Selected(slots[select_id[c]], req[c]) \in SlotType
        /\ Selected(slots[select_id[c]], req[c]).waiting = FALSE
    BY <1>1, <1>2 DEF Selected, SlotType, Request, EventBits
  <1>4. slots' \in [Slots -> SlotType]
    BY <1>1, <1>3 DEF TypeOK, SlotType
  <1>5. stored' \in [Slots -> Seq(0 .. MaxCalls)]
    <2>1. <<>> \in Seq(0 .. MaxCalls)
      OBVIOUS
    <2> QED
      BY <2>1 DEF TypeOK
  <1>6. TypeOK'
    BY <1>4, <1>5 DEF TypeOK, SlotType, Labels
  <1>7. \A d \in Callers : pc'[d] = IF d = c THEN "ioctl" ELSE pc[d]
    BY DEF TypeOK
  <1>8. InUseExact' /\ SlotOwned'
    BY <1>7, OwnersKept
  <1>9. RequestMade' /\ WaitNeverRefused'
    BY <1>7 DEF RequestMade, WaitNeverRefused
  <1>10. \A s \in Slots : slots'[s].waiting <=> slots[s].waiting /\ s # select_id[c]
    BY <1>1, <1>3 DEF TypeOK
  <1>11. ~ slots[select_id[c]].waiting
    BY <1>1, NoSlotIsNone DEF WaitingExact, SlotOwned
  <1>12. WaitingExact'
    BY <1>7, <1>10, <1>11 DEF WaitingExact
  <1> QED
    BY <1>6, <1>8, <1>9, <1>12

(* loc_api_wait_callback, the step into pthread_cond_timedwait: the slot   *)
(* is in use and nobody waits on it, so neither error return is taken.     *)
LEMMA SleepStep ==
  ASSUME TableInv, NEW c \in Callers, WaitSleep(c)
  PROVE  TableInv'
  <1> USE DEF TableInv
  <1>1. select_id[c] \in Slots /\ pc[c] = "wait"
    BY OwnSlot DEF WaitSleep
  <1>2. slot_in_use[select_id[c]] /\ ~ slots[select_id[c]].waiting
    BY <1>1, NoSlotIsNone DEF SlotOwned, WaitingExact
  <1>3. /\ slots' = [slots EXCEPT ![select_id[c]].waiting = TRUE]
        /\ pc' = [pc EXCEPT ![c] = "sleeping"]
        /\ UNCHANGED <<in_use, slot_in_use, select_id, req, modem, ncalls, stored, returns>>
    BY <1>2 DEF WaitSleep
  <1>a. slots' \in [Slots -> SlotType]
    BY <1>1, <1>3, WaitingTyped
  <1>4. TypeOK'
    BY <1>1, <1>3, <1>a DEF TypeOK, Labels, SlotType
  <1>5. \A d \in Callers : pc'[d] = IF d = c THEN "sleeping" ELSE pc[d]
    BY <1>3 DEF TypeOK
  <1>6. InUseExact' /\ SlotOwned'
    BY <1>1, <1>3, <1>5, OwnersKept
  <1>7. RequestMade' /\ WaitNeverRefused'
    BY <1>1, <1>3, <1>5 DEF RequestMade, WaitNeverRefused
  <1>8. \A s \in Slots : slots'[s].waiting <=> slots[s].waiting \/ s = select_id[c]
    BY <1>1, <1>3 DEF TypeOK
  <1>9. WaitingExact'
    BY <1>1, <1>2, <1>3, <1>5, <1>8 DEF WaitingExact
  <1> QED
    BY <1>4, <1>6, <1>7, <1>9

(* The steps out of pthread_cond_timedwait. *)
LEMMA WakeStep ==
  ASSUME TableInv, NEW c \in Callers, WaitWoken(c) \/ WaitTimedOut(c)
  PROVE  TableInv'
  <1> USE DEF TableInv
  <1>1. select_id[c] \in Slots /\ pc[c] \in {"woken", "timedout"}
    BY OwnSlot DEF WaitWoken, WaitTimedOut
  <1>2. /\ slots' = [slots EXCEPT ![select_id[c]].waiting = FALSE]
        /\ pc' = [pc EXCEPT ![c] = "free"]
        /\ UNCHANGED <<in_use, slot_in_use, select_id, req, modem, ncalls, stored>>
    BY DEF WaitWoken, WaitTimedOut
  <1>3. PICK code \in {"success", "failure", "timeout"}, from \in 0 .. MaxCalls :
          Return(c, code, from)
    <2>1. slots[select_id[c]].payload \in Payload
      BY <1>1 DEF TypeOK
    <2>2. CASE WaitWoken(c)
      BY <2>1, <2>2, SyncCallAssumption DEF WaitWoken, Result, Payload
    <2>3. CASE WaitTimedOut(c)
      <3>1. 0 \in 0 .. MaxCalls
        BY SyncCallAssumption
      <3> QED
        BY <2>3, <3>1 DEF WaitTimedOut
    <2> QED
      BY <2>2, <2>3
  <1>4. code \in Codes
    BY DEF Codes
  <1>5. /\ returns' \subseteq [call: 1 .. MaxCalls, code: Codes, from: 0 .. MaxCalls,
                               stored: Seq(0 .. MaxCalls)]
        /\ \A r \in returns' : r \in returns \/ r.code = code
    BY <1>1, <1>3, <1>4, ReturnAdds
  <1>a. slots' \in [Slots -> SlotType]
    BY <1>1, <1>2, WaitingTyped
  <1>6. TypeOK'
    BY <1>1, <1>2, <1>5, <1>a DEF TypeOK, Labels, SlotType
  <1>7. \A d \in Callers : pc'[d] = IF d = c THEN "free" ELSE pc[d]
    BY <1>2 DEF TypeOK
  <1>8. InUseExact' /\ SlotOwned'
    BY <1>1, <1>2, <1>7, OwnersKept
  <1>9. RequestMade' /\ WaitNeverRefused'
    BY <1>1, <1>2, <1>5, <1>7 DEF RequestMade, WaitNeverRefused
  <1>10. \A s \in Slots : slots'[s].waiting <=> slots[s].waiting /\ s # select_id[c]
    BY <1>1, <1>2 DEF TypeOK
  <1>11. \A d \in Callers : d # c => select_id[d] # select_id[c]
    BY <1>1, NoSlotIsNone DEF SlotOwned
  <1>12. WaitingExact'
    BY <1>1, <1>2, <1>7, <1>10, <1>11 DEF WaitingExact
  <1> QED
    BY <1>6, <1>8, <1>9, <1>12

(* loc_free_slot keeps the table consistent. *)
LEMMA FreeStep ==
  ASSUME TableInv, NEW c \in Callers, FreeSlot(c)
  PROVE  TableInv'
  <1> USE DEF TableInv
  <1>1. select_id[c] \in Slots /\ pc[c] = "free"
    BY OwnSlot DEF FreeSlot
  <1>2. /\ slot_in_use' = [slot_in_use EXCEPT ![select_id[c]] = FALSE]
        /\ in_use' = (in_use /\ \E s \in Slots : slot_in_use'[s])
        /\ select_id' = [select_id EXCEPT ![c] = NoSlot]
        /\ pc' = [pc EXCEPT ![c] = "idle"]
        /\ UNCHANGED <<slots, req, modem, ncalls, stored, returns>>
    BY DEF FreeSlot
  <1>3. \A d \in Callers : /\ select_id'[d] = IF d = c THEN NoSlot ELSE select_id[d]
                           /\ pc'[d] = IF d = c THEN "idle" ELSE pc[d]
    BY <1>2 DEF TypeOK
  <1>4. \A s \in Slots : slot_in_use'[s] <=> slot_in_use[s] /\ s # select_id[c]
    BY <1>1, <1>2 DEF TypeOK
  <1>5. \A d \in Callers : d # c => select_id[d] # select_id[c]
    BY <1>1, NoSlotIsNone DEF SlotOwned
  <1>6. in_use' \in BOOLEAN
    BY <1>2
  <1>7. TypeOK'
    BY <1>1, <1>2, <1>6 DEF TypeOK, Labels
  <1>8. RequestMade' /\ WaitNeverRefused'
    BY <1>2, <1>3 DEF RequestMade, WaitNeverRefused
  <1>9. InUseExact'
    BY <1>2, <1>4 DEF InUseExact
  <1>10. SlotOwned'
    <2>1. \A d \in Callers : select_id'[d] # NoSlot <=> pc'[d] # "idle"
      BY <1>3 DEF SlotOwned
    <2>2. \A d, e \in Callers : select_id'[d] = select_id'[e] /\ d # e =>
                                  select_id'[d] = NoSlot
      BY <1>3 DEF SlotOwned
    <2>3. \A s \in Slots : slot_in_use'[s] <=> \E d \in Callers : select_id'[d] = s
      BY <1>3, <1>4, <1>5, NoSlotIsNone DEF SlotOwned
    <2> QED
      BY <2>1, <2>2, <2>3 DEF SlotOwned
  <1>11. WaitingExact'
    <2>1. \A s \in Slots :
            (\E d \in Callers : select_id'[d] = s /\ pc'[d] \in {"sleeping", "woken", "timedout"})
            <=> \E d \in Callers : select_id[d] = s /\ pc[d] \in {"sleeping", "woken", "timedout"}
      BY <1>1, <1>3
    <2> QED
      BY <1>2, <2>1 DEF WaitingExact
  <1> QED
    BY <1>7, <1>8, <1>9, <1>10, <1>11

(* Every step does; one step per action. *)
LEMMA NextTable == TableInv /\ [Next]_vars => TableInv'
  <1> SUFFICES ASSUME TableInv, [Next]_vars PROVE TableInv'
    OBVIOUS
  <1>1. ASSUME NEW c \in Callers, NEW h \in Handles, NEW t \in Ioctls,
               AllocSlot(c, h, t) \/ AllocFull(c, h, t)
        PROVE  TableInv'
    BY <1>1, AllocStep, AllocFullStep
  <1>2. ASSUME NEW c \in Callers, SyncIoctl(c)
        PROVE  TableInv'
    <2>1. CASE SelectCallback(c)
      BY <2>1, SelectStep
    <2>2. CASE IoctlAccepted(c) \/ IoctlBusy(c)
      <3>1. req[c] \in Request
        BY <2>2 DEF IoctlAccepted, IoctlBusy, TableInv, RequestMade
      <3>2. WaitNeverRefused' /\ modem' \subseteq Request /\ UNCHANGED returns
        BY <2>2, <3>1 DEF IoctlAccepted, IoctlBusy, TableInv, WaitNeverRefused, TypeOK
      <3> QED
        BY <2>2, <3>2, MoveStep DEF IoctlAccepted, IoctlBusy, TableInv, TypeOK, Labels
    <2>3. CASE IoctlFailed(c)
      <3>1. 0 \in 0 .. MaxCalls /\ "ioctl_failed" \in Codes
        BY SyncCallAssumption DEF Codes
      <3>2. /\ returns' \subseteq [call: 1 .. MaxCalls, code: Codes, from: 0 .. MaxCalls,
                                   stored: Seq(0 .. MaxCalls)]
            /\ \A r \in returns' : r \in returns \/ r.code = "ioctl_failed"
        BY <2>3, <3>1, ReturnAdds DEF IoctlFailed, TableInv
      <3>3. WaitNeverRefused'
        BY <3>2 DEF TableInv, WaitNeverRefused
      <3> QED
        BY <2>3, <3>2, <3>3, MoveStep DEF IoctlFailed, TableInv, TypeOK, Labels
    <2>4. CASE WaitArrived(c)
      <3>1. select_id[c] \in Slots
        BY <2>4, OwnSlot DEF TableInv, WaitArrived
      <3>2. slots[select_id[c]].payload \in Payload
        BY <3>1 DEF TableInv, TypeOK
      <3>3. PICK code \in {"success", "failure"}, from \in 0 .. MaxCalls : Return(c, code, from)
        BY <2>4, <3>2, SyncCallAssumption DEF WaitArrived, Result, Payload
      <3>4. code \in Codes
        BY DEF Codes
      <3>5. /\ returns' \subseteq [call: 1 .. MaxCalls, code: Codes, from: 0 .. MaxCalls,
                                   stored: Seq(0 .. MaxCalls)]
            /\ \A r \in returns' : r \in returns \/ r.code = code
        BY <2>4, <3>3, <3>4, ReturnAdds DEF WaitArrived, TableInv
      <3>6. WaitNeverRefused'
        BY <3>5 DEF TableInv, WaitNeverRefused
      <3> QED
        BY <2>4, <3>5, <3>6, MoveStep DEF WaitArrived, TableInv, TypeOK, Labels
    <2>5. CASE WaitSleep(c)
      BY <2>5, SleepStep
    <2>6. CASE Timeout(c)
      <3>1. WaitNeverRefused'
        BY <2>6 DEF Timeout, TableInv, WaitNeverRefused
      <3> QED
        BY <2>6, <3>1, MoveStep DEF Timeout, TableInv, TypeOK, Labels
    <2>7. CASE WaitWoken(c) \/ WaitTimedOut(c)
      BY <2>7, WakeStep
    <2>8. CASE FreeSlot(c)
      BY <2>8, FreeStep
    <2> QED
      BY <1>2, <2>1, <2>2, <2>3, <2>4, <2>5, <2>6, <2>7, <2>8 DEF SyncIoctl
  <1>3. ASSUME NEW c \in Callers, SpuriousWakeup(c)
        PROVE  TableInv'
    <2>1. pc' = [pc EXCEPT ![c] = Awake(pc[c])]
      BY <1>3 DEF SpuriousWakeup, Wake, TableInv, TypeOK
    <2>2. WaitNeverRefused'
      BY <1>3 DEF SpuriousWakeup, TableInv, WaitNeverRefused
    <2> QED
      BY <1>3, <2>1, <2>2, MoveStep DEF SpuriousWakeup, TableInv, TypeOK, Labels, Awake
  <1>4. ASSUME NEW r \in modem, NEW st \in Status, IoctlCallback(r, st)
        PROVE  TableInv'
    <2>1. [call |-> r.call, ioctl |-> r.ioctl, status |-> st] \in Payload
      BY SyncCallAssumption DEF TableInv, TypeOK, Request, Payload
    <2>2. CASE in_use
      BY <1>4, <2>1, <2>2, CallbackStep DEF IoctlCallback
    <2>3. CASE ~ in_use
      <3>1. /\ UNCHANGED <<in_use, slot_in_use, slots, stored, select_id, pc, req, ncalls, returns>>
            /\ modem' \subseteq modem
        BY <1>4, <2>3 DEF IoctlCallback
      <3>2. TypeOK'
        BY <3>1 DEF TableInv, TypeOK
      <3>3. RequestMade' /\ InUseExact' /\ SlotOwned'
        BY <3>1 DEF TableInv, RequestMade, InUseExact, SlotOwned
      <3>4. WaitingExact' /\ WaitNeverRefused'
        BY <3>1 DEF TableInv, WaitingExact, WaitNeverRefused
      <3> QED
        BY <3>2, <3>3, <3>4 DEF TableInv
    <2> QED
      BY <2>2, <2>3
  <1>5. ASSUME NEW h \in Handles, OtherCallback(h)
        PROVE  TableInv'
    <2>1. NoPayload \in Payload
      BY SyncCallAssumption DEF NoPayload, Payload
    <2> QED
      BY <1>5, <2>1, CallbackStep DEF OtherCallback
  <1>6. CASE UNCHANGED vars
    BY ZenonT(60), <1>6 DEF vars, TableInv, TypeOK, RequestMade, InUseExact, SlotOwned, WaitingExact,
                WaitNeverRefused
  <1> QED
    BY <1>1, <1>2, <1>3, <1>4, <1>5, <1>6 DEF Next

(* The table stays well typed, in_use stays exact, every slot in use has   *)
(* one owner, and loc_api_wait_callback never takes its error returns.     *)
THEOREM TableConsistent ==
  Spec => [](TypeOK /\ InUseExact /\ SlotOwned /\ WaitNeverRefused)
  <1>1. TableInv => TypeOK /\ InUseExact /\ SlotOwned /\ WaitNeverRefused
    BY DEF TableInv
  <1> QED
    BY <1>1, InitTable, NextTable, PTL DEF Spec

=============================================================================
