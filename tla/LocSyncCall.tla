---------------------------- MODULE LocSyncCall ----------------------------
(***************************************************************************)
(* The synchronous IOCTL layer of the location API client,                 *)
(* gps/loc_api/libloc_api-rpc/src/loc_api_sync_call.c.                     *)
(*                                                                         *)
(* loc_ioctl only asks the modem for something; the answer is a later      *)
(* callback.  loc_api_sync_ioctl makes the pair look like one blocking     *)
(* call: it takes a slot of a fixed table, writes into it which callback   *)
(* it wants, sends the request, and sleeps on the slot's condition         *)
(* variable until loc_api_callback_process_sync_call (run by the RPC       *)
(* callback thread for every event of the modem) has filled the slot, or   *)
(* the timeout has passed.                                                 *)
(*                                                                         *)
(* Every critical section of loc_sync_data.lock or of a slot's lock is one *)
(* step.  A thread that sleeps on a condition variable has a pc of its own *)
(* ("sleeping" on the slot's, "busy" on the table's); waking up and        *)
(* reacquiring the lock are different steps, so that a callback can come   *)
(* in between.                                                             *)
(***************************************************************************)
EXTENDS Integers, FiniteSets, Sequences

CONSTANTS
  Callers,   \* threads that issue synchronous IOCTLs
  Size,      \* LOC_SYNC_CALL_BUFFER_SIZE
  Handles,   \* client handles
  Ioctls,    \* IOCTL types (non-zero)
  Uses,      \* the <<thread, IOCTL type>> pairs that occur
  Status,    \* what a callback can say of its request: "success", "failure"
  MaxCalls,  \* bound on the number of calls
  Spurious   \* may a sleeping thread wake up without a signal?

ASSUME SyncCallAssumption ==
  /\ Size \in Nat \ {0}
  /\ Ioctls \subseteq Nat \ {0}
  /\ Uses \subseteq Callers \X Ioctls
  /\ "success" \in Status
  /\ Status \subseteq {"success", "failure"}
  /\ MaxCalls \in Nat
  /\ Spurious \in BOOLEAN

Slots == 0 .. Size - 1

NoSlot == -1

(* The event bits that the matching tells apart: the IOCTL report and the  *)
(* rest (status, position, NMEA, ... reports).                             *)
EventBits == {"ioctl_report", "other"}

(* A callback's payload.  "call" is the number of the loc_ioctl it         *)
(* answers: the program does not have it, the properties do (0: none).     *)
Payload == [call: 0 .. MaxCalls, ioctl: Ioctls \cup {0}, status: Status]

NoPayload == [call |-> 0, ioctl |-> 0, status |-> "success"]

Request == [call: 1 .. MaxCalls, handle: Handles, ioctl: Ioctls]

NoRequest == [call |-> 0, handle |-> -1, ioctl |-> 0]

VARIABLES
  in_use,       \* loc_sync_data.in_use
  slot_in_use,  \* loc_sync_data.slot_in_use
  slots,        \* loc_sync_data.slots
  pc,           \* where each thread is
  select_id,    \* the slot each thread holds
  req,          \* the request each thread is making
  modem,        \* requests the modem has accepted and not answered
  ncalls,       \* calls made so far
  stored,       \* history: calls whose callback was put in a slot since it was selected
  returns       \* history: what each finished call returned

vars == <<in_use, slot_in_use, slots, pc, select_id, req, modem, ncalls,
          stored, returns>>

Labels == {"idle", "select", "ioctl", "busy", "wait", "sleeping", "woken",
           "timedout", "free"}

Codes == {"success", "failure", "timeout", "engine_busy", "ioctl_failed",
          "already_waiting", "invalid_parameter"}

TypeOK ==
  /\ in_use \in BOOLEAN
  /\ slot_in_use \in [Slots -> BOOLEAN]
  /\ slots \in [Slots -> [handle: Handles \cup {-1}, selected: BOOLEAN,
                          waiting: BOOLEAN, arrived: BOOLEAN,
                          wait_mask: SUBSET EventBits,
                          ioctl_type: Ioctls \cup {0}, payload: Payload]]
  /\ pc \in [Callers -> Labels]
  /\ select_id \in [Callers -> Slots \cup {NoSlot}]
  /\ req \in [Callers -> Request \cup {NoRequest}]
  /\ modem \subseteq Request
  /\ ncalls \in 0 .. MaxCalls
  /\ stored \in [Slots -> Seq(0 .. MaxCalls)]
  /\ returns \subseteq [call: 1 .. MaxCalls, code: Codes, from: 0 .. MaxCalls,
                        stored: Seq(0 .. MaxCalls)]

(* loc_api_sync_call_init *)
Init ==
  /\ in_use = FALSE
  /\ slot_in_use = [s \in Slots |-> FALSE]
  /\ slots = [s \in Slots |-> [handle |-> -1, selected |-> FALSE,
                               waiting |-> FALSE, arrived |-> FALSE,
                               wait_mask |-> {}, ioctl_type |-> 0,
                               payload |-> NoPayload]]
  /\ pc = [c \in Callers |-> "idle"]
  /\ select_id = [c \in Callers |-> NoSlot]
  /\ req = [c \in Callers |-> NoRequest]
  /\ modem = {}
  /\ ncalls = 0
  /\ stored = [s \in Slots |-> <<>>]
  /\ returns = {}

-----------------------------------------------------------------------------
(* What a call returned: its code, the call whose callback it was given    *)
(* (0: none) and the callbacks its slot had received by then.              *)
Return(c, code, from) ==
  returns' = returns \cup
    {[call |-> req[c].call, code |-> code, from |-> from,
      stored |-> IF select_id[c] = NoSlot THEN <<>> ELSE stored[select_id[c]]]}

(* Mutants: the loop runs one slot too far; it does not look at slot_in_use. *)
FreeSlotsPastEnd == {s \in 0 .. Size : s = Size \/ ~ slot_in_use[s]}

FreeSlotsAny == Slots

FreeSlots == {s \in Slots : ~ slot_in_use[s]}

(* loc_api_sync_ioctl enters; loc_alloc_slot takes the first free slot. *)
AllocSlot(c, h, t) ==
  /\ pc[c] = "idle"
  /\ ncalls < MaxCalls
  /\ ncalls' = ncalls + 1
  /\ req' = [req EXCEPT ![c] = [call |-> ncalls + 1, handle |-> h, ioctl |-> t]]
  /\ \E s \in FreeSlots :
       /\ \A other \in FreeSlots : s <= other
       /\ select_id' = [select_id EXCEPT ![c] = s]
       /\ slot_in_use' = [slot_in_use EXCEPT ![s] = TRUE]
  /\ in_use' = TRUE
  /\ pc' = [pc EXCEPT ![c] = "select"]
  /\ UNCHANGED <<slots, modem, stored, returns>>

(* loc_alloc_slot finds the table full: the call fails at once. *)
AllocFull(c, h, t) ==
  /\ pc[c] = "idle"
  /\ ncalls < MaxCalls
  /\ FreeSlots = {}
  /\ ncalls' = ncalls + 1
  /\ returns' = returns \cup {[call |-> ncalls + 1, code |-> "engine_busy",
                               from |-> 0, stored |-> <<>>]}
  /\ UNCHANGED <<in_use, slot_in_use, slots, pc, select_id, req, modem, stored>>

(* Mutant: loc_cb_has_arrived is not reset. *)
SelectedKeepsArrived(slot, r) ==
  [slot EXCEPT !.handle = r.handle, !.selected = TRUE, !.waiting = FALSE,
               !.wait_mask = {"ioctl_report"}, !.ioctl_type = r.ioctl]

(* What loc_api_select_callback writes into the slot, with event_mask 0. *)
Selected(slot, r) ==
  [slot EXCEPT !.handle = r.handle, !.selected = TRUE, !.waiting = FALSE,
               !.arrived = FALSE, !.wait_mask = {"ioctl_report"},
               !.ioctl_type = r.ioctl]

SelectCallback(c) ==
  /\ pc[c] = "select"
  /\ slots' = [slots EXCEPT ![select_id[c]] = Selected(@, req[c])]
  /\ stored' = [stored EXCEPT ![select_id[c]] = <<>>]
  /\ pc' = [pc EXCEPT ![c] = "ioctl"]
  /\ UNCHANGED <<in_use, slot_in_use, select_id, req, modem, ncalls, returns>>

(* loc_ioctl, called with loc_sync_data.lock held: the modem takes the     *)
(* request, is busy with an earlier one (the thread then sleeps on the     *)
(* table's condition variable and tries again), or refuses it.             *)
IoctlAccepted(c) ==
  /\ pc[c] = "ioctl"
  /\ modem' = modem \cup {req[c]}
  /\ pc' = [pc EXCEPT ![c] = "wait"]
  /\ UNCHANGED <<in_use, slot_in_use, slots, select_id, req, ncalls, stored, returns>>

IoctlBusy(c) ==
  /\ pc[c] = "ioctl"
  /\ modem # {}
  /\ pc' = [pc EXCEPT ![c] = "busy"]
  /\ UNCHANGED <<in_use, slot_in_use, slots, select_id, req, modem, ncalls, stored,
                 returns>>

(* Mutant: the error path forgets loc_free_slot. *)
IoctlFailedLeaks(c) ==
  /\ pc[c] = "ioctl"
  /\ Return(c, "ioctl_failed", 0)
  /\ pc' = [pc EXCEPT ![c] = "idle"]
  /\ select_id' = [select_id EXCEPT ![c] = NoSlot]
  /\ UNCHANGED <<in_use, slot_in_use, slots, req, modem, ncalls, stored>>

IoctlFailed(c) ==
  /\ pc[c] = "ioctl"
  /\ Return(c, "ioctl_failed", 0)
  /\ pc' = [pc EXCEPT ![c] = "free"]
  /\ UNCHANGED <<in_use, slot_in_use, slots, select_id, req, modem, ncalls, stored>>

-----------------------------------------------------------------------------
(* Mutant: the IOCTL type is not compared. *)
MatchesAnyType(slot, event, payload) == slot.wait_mask \cap event # {}

(* loc_match_callback *)
Matches(slot, event, payload) ==
  /\ slot.wait_mask \cap event # {}
  /\ \/ event # {"ioctl_report"}
     \/ slot.ioctl_type = 0
     \/ payload.ioctl = slot.ioctl_type

(* Mutant: a callback that comes before the wait is not remembered. *)
CandidatesWaiting(handle, event, payload) ==
  {s \in Slots : /\ slot_in_use[s]
                 /\ slots[s].handle = handle
                 /\ Matches(slots[s], event, payload)
                 /\ slots[s].waiting}

(* The slots the loop of loc_api_callback_process_sync_call would stop at. *)
Candidates(handle, event, payload) ==
  {s \in Slots : /\ slot_in_use[s]
                 /\ slots[s].handle = handle
                 /\ Matches(slots[s], event, payload)
                 /\ ~ slots[s].arrived}

First(S) == {s \in S : \A other \in S : s <= other}

(* The payload goes into the slot; a thread asleep on it is signalled, and *)
(* if there is none yet the slot remembers that the callback has arrived.  *)
Received(slot, payload) ==
  [slot EXCEPT !.payload = payload, !.arrived = IF slot.waiting THEN @ ELSE TRUE]

Sleepers(s) == {c \in Callers : pc[c] = "sleeping" /\ select_id[c] = s}

(* pthread_cond_signal wakes one of the threads in Q, if there are any. *)
Signal(Q) == IF Q = {} THEN {{}} ELSE {{c} : c \in Q}

Awake(label) == IF label = "busy" THEN "ioctl" ELSE "woken"

Wake(W) == pc' = [c \in Callers |-> IF c \in W THEN Awake(pc[c]) ELSE pc[c]]

(* Mutant: only the slot's condition variable is signalled. *)
ProcessSyncCallOneSignal(handle, event, payload) ==
  LET consumer == First(Candidates(handle, event, payload))
      sleeper  == UNION {Sleepers(s) : s \in {t \in consumer : slots[t].waiting}}
  IN  /\ slots' = [s \in Slots |-> IF s \in consumer THEN Received(slots[s], payload)
                                                     ELSE slots[s]]
      /\ stored' = [s \in Slots |-> IF s \in consumer
                                    THEN Append(stored[s], payload.call)
                                    ELSE stored[s]]
      /\ UNCHANGED in_use
      /\ \E W \in Signal(sleeper) : Wake(W)

ProcessSyncCall(handle, event, payload) ==
  LET consumer == First(Candidates(handle, event, payload))
      sleeper  == UNION {Sleepers(s) : s \in {t \in consumer : slots[t].waiting}}
      waiters  == {c \in Callers : pc[c] = "busy"}
  IN  /\ slots' = [s \in Slots |-> IF s \in consumer THEN Received(slots[s], payload)
                                                     ELSE slots[s]]
      /\ stored' = [s \in Slots |-> IF s \in consumer
                                    THEN Append(stored[s], payload.call)
                                    ELSE stored[s]]
      /\ in_use' = (in_use /\ \E s \in Slots : slot_in_use[s])
      /\ \E W1 \in Signal(sleeper), W2 \in Signal(waiters) : Wake(W1 \cup W2)

(* The modem answers a request; the callback thread runs                   *)
(* loc_api_callback_process_sync_call, which returns at once when no       *)
(* synchronous call is active.                                             *)
IoctlCallback(r, st) ==
  /\ r \in modem
  /\ modem' = modem \ {r}
  /\ IF in_use
     THEN ProcessSyncCall(r.handle, {"ioctl_report"},
                          [call |-> r.call, ioctl |-> r.ioctl, status |-> st])
     ELSE UNCHANGED <<in_use, slots, stored, pc>>
  /\ UNCHANGED <<slot_in_use, select_id, req, ncalls, returns>>

(* Any other event of the modem goes through the same function. *)
OtherCallback(h) ==
  /\ in_use
  /\ ProcessSyncCall(h, {"other"}, NoPayload)
  /\ UNCHANGED <<slot_in_use, select_id, req, modem, ncalls, returns>>

-----------------------------------------------------------------------------
(* loc_api_sync_ioctl turns a bad status in the payload into its result. *)
Result(payload) == payload.status

(* loc_api_wait_callback when the callback came first. *)
WaitArrived(c) ==
  LET slot == slots[select_id[c]] IN
  /\ pc[c] = "wait"
  /\ slot_in_use[select_id[c]]
  /\ slot.arrived
  /\ Return(c, Result(slot.payload), slot.payload.call)
  /\ pc' = [pc EXCEPT ![c] = "free"]
  /\ UNCHANGED <<in_use, slot_in_use, slots, select_id, req, modem, ncalls, stored>>

(* Otherwise it goes to sleep; the two error returns in front of that are  *)
(* a slot that is not in use and a slot another thread is waiting on       *)
(* (RPC_LOC_API_ENGINE_BUSY as well, but named apart here).                *)
WaitSleep(c) ==
  LET slot == slots[select_id[c]] IN
  /\ pc[c] = "wait"
  /\ ~ (slot_in_use[select_id[c]] /\ slot.arrived)
  /\ IF slot_in_use[select_id[c]] /\ ~ slot.waiting
     THEN /\ slots' = [slots EXCEPT ![select_id[c]].waiting = TRUE]
          /\ pc' = [pc EXCEPT ![c] = "sleeping"]
          /\ UNCHANGED returns
     ELSE /\ Return(c, IF slot_in_use[select_id[c]] THEN "already_waiting"
                                                    ELSE "invalid_parameter", 0)
          /\ pc' = [pc EXCEPT ![c] = IF slot_in_use[select_id[c]] THEN "free" ELSE "idle"]
          /\ UNCHANGED slots
  /\ UNCHANGED <<in_use, slot_in_use, select_id, req, modem, ncalls, stored>>

(* The timer of pthread_cond_timedwait fires. *)
Timeout(c) ==
  /\ pc[c] = "sleeping"
  /\ pc' = [pc EXCEPT ![c] = "timedout"]
  /\ UNCHANGED <<in_use, slot_in_use, slots, select_id, req, modem, ncalls, stored,
                 returns>>

(* Neither condition variable is waited on in a loop over a predicate of   *)
(* its own: a wake-up without a signal counts as one.                      *)
SpuriousWakeup(c) ==
  /\ Spurious
  /\ pc[c] \in {"sleeping", "busy"}
  /\ Wake({c})
  /\ UNCHANGED <<in_use, slot_in_use, slots, select_id, req, modem, ncalls, stored,
                 returns>>

(* The thread has the slot's lock again. *)
WaitWoken(c) ==
  LET slot == slots[select_id[c]] IN
  /\ pc[c] = "woken"
  /\ slots' = [slots EXCEPT ![select_id[c]].waiting = FALSE]
  /\ Return(c, Result(slot.payload), slot.payload.call)
  /\ pc' = [pc EXCEPT ![c] = "free"]
  /\ UNCHANGED <<in_use, slot_in_use, select_id, req, modem, ncalls, stored>>

WaitTimedOut(c) ==
  /\ pc[c] = "timedout"
  /\ slots' = [slots EXCEPT ![select_id[c]].waiting = FALSE]
  /\ Return(c, "timeout", 0)
  /\ pc' = [pc EXCEPT ![c] = "free"]
  /\ UNCHANGED <<in_use, slot_in_use, select_id, req, modem, ncalls, stored>>

(* Mutant: in_use falls with any slot. *)
FreeSlotClearsInUse(c) ==
  /\ pc[c] = "free"
  /\ slot_in_use' = [slot_in_use EXCEPT ![select_id[c]] = FALSE]
  /\ in_use' = FALSE
  /\ select_id' = [select_id EXCEPT ![c] = NoSlot]
  /\ pc' = [pc EXCEPT ![c] = "idle"]
  /\ UNCHANGED <<slots, req, modem, ncalls, stored, returns>>

(* loc_free_slot: in_use falls with the last slot. *)
FreeSlot(c) ==
  /\ pc[c] = "free"
  /\ slot_in_use' = [slot_in_use EXCEPT ![select_id[c]] = FALSE]
  /\ in_use' = (in_use /\ \E s \in Slots : slot_in_use'[s])
  /\ select_id' = [select_id EXCEPT ![c] = NoSlot]
  /\ pc' = [pc EXCEPT ![c] = "idle"]
  /\ UNCHANGED <<slots, req, modem, ncalls, stored, returns>>

-----------------------------------------------------------------------------
SyncIoctl(c) ==
  \/ SelectCallback(c)
  \/ IoctlAccepted(c) \/ IoctlBusy(c) \/ IoctlFailed(c)
  \/ WaitArrived(c) \/ WaitSleep(c)
  \/ Timeout(c)
  \/ WaitWoken(c) \/ WaitTimedOut(c)
  \/ FreeSlot(c)

Next ==
  \/ \E c \in Callers, h \in Handles, t \in Ioctls :
       /\ <<c, t>> \in Uses
       /\ AllocSlot(c, h, t) \/ AllocFull(c, h, t)
  \/ \E c \in Callers : SyncIoctl(c) \/ SpuriousWakeup(c)
  \/ \E r \in modem, st \in Status : IoctlCallback(r, st)
  \/ \E h \in Handles : OtherCallback(h)

Spec == Init /\ [][Next]_vars

(* A thread that can run does, timers fire, and the modem goes on          *)
(* reporting events (answers included).                                    *)
FairSpec ==
  /\ Spec
  /\ \A c \in Callers : WF_vars(SyncIoctl(c))
  /\ WF_vars(\E r \in modem, st \in Status : IoctlCallback(r, st))
  /\ WF_vars(\E h \in Handles : OtherCallback(h))

-----------------------------------------------------------------------------
(* loc_sync_data.in_use ("at least one sync call is active") is TRUE       *)
(* exactly when some slot is in use.  The callback thread drops an event   *)
(* when it is FALSE, and three functions write it, so that a wrong FALSE   *)
(* would starve a call that is waiting.                                    *)
InUseExact == in_use <=> \E s \in Slots : slot_in_use[s]

(* A slot between loc_alloc_slot and loc_free_slot belongs to one thread,  *)
(* a thread past loc_alloc_slot has a slot that is in use, and no slot     *)
(* stays in use without an owner: the error returns free theirs too.       *)
SlotOwned ==
  /\ \A c \in Callers : select_id[c] # NoSlot <=> pc[c] # "idle"
  /\ \A c, d \in Callers : select_id[c] = select_id[d] /\ c # d => select_id[c] = NoSlot
  /\ \A s \in Slots : slot_in_use[s] <=> \E c \in Callers : select_id[c] = s

(* The two "caller error" returns of loc_api_wait_callback (an unused slot *)
(* and a slot that is already waited on) never happen to                   *)
(* loc_api_sync_ioctl; the second would free the other thread's slot.      *)
WaitNeverRefused ==
  \A r \in returns : r.code \notin {"invalid_parameter", "already_waiting"}

(* A call that returns what a callback carried returns one that was put in *)
(* its slot after it had selected it: never what an earlier user of the    *)
(* slot left there.                                                        *)
ResultIsFresh ==
  \A r \in returns : r.code \in Status =>
                       \E i \in DOMAIN r.stored : r.stored[i] = r.from

(* No callback is the result of two calls. *)
ResultUsedOnce ==
  \A r1, r2 \in returns : r1.from = r2.from /\ r1.from # 0 => r1.call = r2.call

(* When no two threads use the same IOCTL type, a call that does not       *)
(* return its own callback returns an older one, and then a call that is   *)
(* no newer than that one timed out: before the first timeout nothing is   *)
(* mixed up.                                                               *)
OwnResultUntilTimeout ==
  \A r \in returns : r.from \notin {0, r.call} =>
    /\ r.from < r.call
    /\ \E q \in returns : q.call <= r.from /\ q.code = "timeout"

(* The answer to a call that still waits for it is put in some slot,       *)
(* unless the call's slot holds a callback already.                        *)
AnswerNotDropped ==
  [][\A r \in modem \ modem' : \A c \in Callers :
       req[c].call = r.call /\ pc[c] \in {"wait", "sleeping"} =>
         \/ slots[select_id[c]].arrived
         \/ \E s \in Slots : stored'[s] # stored[s]]_vars

(* Every loc_api_sync_ioctl returns: the wait for the answer is timed, and *)
(* the untimed wait for a busy engine ends because every event of the      *)
(* modem wakes one of the threads in it.                                   *)
EveryCallReturns == \A c \in Callers : pc[c] # "idle" ~> pc[c] = "idle"

=============================================================================
