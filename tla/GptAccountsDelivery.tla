------------------------ MODULE GptAccountsDelivery ------------------------
(***************************************************************************)
(* GptAccountsDeliveryService on top of GptAccountsDeliveryStorage.  The   *)
(* service shares its entry points, its lock and its timers with the       *)
(* Gemini service (AutoDeliveryService), but sends first and records the   *)
(* outcome afterwards, has no confirmation, and a retry does not look at   *)
(* what became of the order.  As in GeminiDelivery, op is the handler that *)
(* holds the service lock; stock commands come between any two steps.      *)
(***************************************************************************)
EXTENDS Integers, Sequences, FiniteSets, SequencesExt

CONSTANTS
  Orders,       \* order ids
  Accounts,     \* accounts, identified by their case-folded e-mail
  NoOrder,      \* the order of an idle service
  Out,          \* the place of an account the storage does not keep
  Shelf,        \* the place of an account in the stock
  MaxAmount,    \* bound: accounts bought by one order
  MaxEvents,    \* bound: new-order events, duplicates included
  MaxRetries,   \* bound: presses of retry buttons
  MaxRestarts,  \* bound: restarts of the plugin
  MaxFailures   \* bound: handlers ended by a failed write

ASSUME GptAssumption ==
  /\ IsFiniteSet(Orders)
  /\ IsFiniteSet(Accounts)
  /\ NoOrder \notin Orders
  /\ MaxAmount \in Nat \ {0}
  /\ {MaxEvents, MaxRetries, MaxRestarts, MaxFailures} \subseteq Nat
  /\ Out # Shelf /\ Out \notin Orders /\ Shelf \notin Orders

VARIABLES
  mem,       \* storage.state
  disk,      \* the storage file
  writable,  \* storage.writable
  enabled,   \* settings["gpt_accounts_delivery"]["enabled"]
  timers,    \* delayed deliveries that have not fired, per order
  offered,   \* orders the waiting page has listed since the start
  op,        \* the handler that holds the service lock
  \* History variables: what the world outside has seen.
  received,  \* accounts that reached the buyer of each order
  sends,     \* messages with accounts that reached the buyer of each order
  troubles,  \* retries, failed writes and restarts that hit each order
  events,    \* new-order events so far
  retries,   \* retries so far
  restarts,  \* restarts so far
  failures   \* failed writes so far

store    == <<mem, disk>>
history  == <<received, sends, troubles>>
counters == <<events, retries, restarts, failures>>
vars == <<mem, disk, writable, enabled, timers, offered, op,
          received, sends, troubles, events, retries, restarts, failures>>

Statuses == {"reserved", "waiting_stock", "completed", "send_failed", "retryable"}

(* The statuses reserve leaves alone. *)
HeldStatuses == {"reserved", "completed", "send_failed"}

WaitingStatuses == {"waiting_stock", "retryable", "send_failed"}

OrderRecords ==
  [status    : Statuses \cup {"absent"},
   requested : Nat \ {0},
   reserved  : Seq(Accounts),
   notified  : BOOLEAN]

Stores == [stock : Seq(Accounts), orders : [Orders -> OrderRecords]]

(* Mutant: the amount is off by one. *)
NewRecordOneLess(amount) ==
  [status |-> "retryable", requested |-> amount - 1, reserved |-> <<>>, notified |-> FALSE]

NewRecord(amount) ==
  [status |-> "retryable", requested |-> amount, reserved |-> <<>>, notified |-> FALSE]

NoRecord == [NewRecord(1) EXCEPT !.status = "absent"]

DefaultStore == [stock |-> <<>>, orders |-> [o \in Orders |-> NoRecord]]

StatusOf(s, o) == s.orders[o].status

SetStatus(s, o, status) == [s EXCEPT !.orders[o].status = status]

AccountsOf(s, o) == ToSet(s.orders[o].reserved)

Shortage(s, o) == Len(s.orders[o].reserved) < s.orders[o].requested

(* Mutant: the accounts of completed orders may be uploaded again. *)
UnsoldEmails(s) ==
  ToSet(s.stock) \cup UNION {AccountsOf(s, o) : o \in {p \in Orders : StatusOf(s, p) # "completed"}}

(* active_emails: the orders that are completed count as well. *)
ActiveEmails(s) == ToSet(s.stock) \cup UNION {AccountsOf(s, o) : o \in Orders}

-----------------------------------------------------------------------------
(* Operations of the storage. *)

NewAccounts(s, accounts) == SetToSeqs(accounts \ ActiveEmails(s))

AddAccounts(s, batch) == [s EXCEPT !.stock = @ \o batch]

RemoveStockAccount(s, account) == [s EXCEPT !.stock = RemoveFirst(@, account)]

ClearStock(s) == [s EXCEPT !.stock = <<>>]

ToTake(available, requested, allOrNothing) ==
  IF available < requested
  THEN IF allOrNothing THEN 0 ELSE available
  ELSE requested

(* Mutant: the accounts are handed out but stay in the stock. *)
ReserveLeavingStock(s, o, amount, allOrNothing) ==
  LET order == IF StatusOf(s, o) = "absent" THEN NewRecord(amount) ELSE s.orders[o]
      take  == ToTake(Len(s.stock), amount, allOrNothing)
  IN IF StatusOf(s, o) \in HeldStatuses
     THEN s
     ELSE [s EXCEPT !.orders[o] =
             [order EXCEPT !.reserved = SubSeq(s.stock, 1, take),
                           !.status   = IF take > 0 THEN "reserved" ELSE "waiting_stock"]]

(* Mutant: an order that is still reserved takes new accounts. *)
ReserveAnew(s, o, amount, allOrNothing) ==
  LET order == IF StatusOf(s, o) = "absent" THEN NewRecord(amount) ELSE s.orders[o]
      take  == ToTake(Len(s.stock), amount, allOrNothing)
  IN IF StatusOf(s, o) \in HeldStatuses \ {"reserved"}
     THEN s
     ELSE [stock  |-> SubSeq(s.stock, take + 1, Len(s.stock)),
           orders |-> [s.orders EXCEPT ![o] =
             [order EXCEPT !.reserved = SubSeq(s.stock, 1, take),
                           !.status   = IF take > 0 THEN "reserved" ELSE "waiting_stock"]]]

Reserve(s, o, amount, allOrNothing) ==
  LET order == IF StatusOf(s, o) = "absent" THEN NewRecord(amount) ELSE s.orders[o]
      take  == ToTake(Len(s.stock), amount, allOrNothing)
  IN IF StatusOf(s, o) \in HeldStatuses
     THEN s
     ELSE [stock  |-> SubSeq(s.stock, take + 1, Len(s.stock)),
           orders |-> [s.orders EXCEPT ![o] =
             [order EXCEPT !.reserved = SubSeq(s.stock, 1, take),
                           !.status   = IF take > 0 THEN "reserved" ELSE "waiting_stock"]]]

MarkShortageNotified(s, o) == [s EXCEPT !.orders[o].notified = TRUE]

Listed(s) == {o \in Orders : StatusOf(s, o) \in WaitingStatuses}

-----------------------------------------------------------------------------
Steps == {"idle", "deliver", "shortage", "send", "complete", "fail"}

Idle == [pc |-> "idle", order |-> NoOrder, amount |-> 1, allOrNothing |-> FALSE]

Operations ==
  [pc : Steps, order : Orders \cup {NoOrder}, amount : Nat \ {0}, allOrNothing : BOOLEAN]

At(pc) == op.pc = pc

Free == At("idle")

Record == mem.orders[op.order]

Goto(pc) == op' = [op EXCEPT !.pc = pc]

Return == op' = Idle

(* mutate: the file is written first, then the state in memory replaced. *)
Commit(s) ==
  /\ writable
  /\ disk' = s
  /\ mem' = s

Init ==
  /\ mem = DefaultStore
  /\ disk = DefaultStore
  /\ writable = TRUE
  /\ enabled \in BOOLEAN
  /\ timers = [o \in Orders |-> 0]
  /\ offered = {}
  /\ op = Idle
  /\ received = [o \in Orders |-> {}]
  /\ sends = [o \in Orders |-> 0]
  /\ troubles = [o \in Orders |-> 0]
  /\ events = 0
  /\ retries = 0
  /\ restarts = 0
  /\ failures = 0

-----------------------------------------------------------------------------
(* Entry points of the service. *)

CallDeliver(o, amounts) ==
  \E amount \in amounts, allOrNothing \in BOOLEAN :
    op' = [pc |-> "deliver", order |-> o, amount |-> amount, allOrNothing |-> allOrNothing]

(* Mutant: an event is delivered whatever became of the order. *)
HandleAnyOrder(o) == IF ~enabled THEN UNCHANGED op ELSE CallDeliver(o, 1..MaxAmount)

(* handle_new_order_locked *)
HandleNewOrder(o) ==
  IF ~enabled \/ StatusOf(mem, o) \in {"completed", "send_failed", "waiting_stock"}
  THEN UNCHANGED op
  ELSE CallDeliver(o, 1..MaxAmount)

NewOrderEvent(o) ==
  /\ Free
  /\ events < MaxEvents
  /\ events' = events + 1
  /\ \/ HandleNewOrder(o) /\ UNCHANGED timers
     \/ enabled /\ timers' = [timers EXCEPT ![o] = @ + 1] /\ UNCHANGED op
  /\ UNCHANGED <<store, writable, enabled, offered, history, retries, restarts, failures>>

TimerFires(o) ==
  /\ Free
  /\ timers[o] > 0
  /\ timers' = [timers EXCEPT ![o] = @ - 1]
  /\ HandleNewOrder(o)
  /\ UNCHANGED <<store, writable, enabled, offered, history, counters>>

OpenWaiting ==
  /\ offered' = offered \cup Listed(mem)
  /\ UNCHANGED <<store, writable, enabled, timers, op, history, counters>>

(* retry_order: a failed send is repeated as it is, anything else is       *)
(* delivered with the amount on record, a completed order included.        *)
RetryOrder(o) ==
  /\ Free
  /\ retries < MaxRetries
  /\ retries' = retries + 1
  /\ o \in offered
  /\ enabled
  /\ StatusOf(mem, o) # "absent"
  /\ IF StatusOf(mem, o) = "send_failed" /\ mem.orders[o].reserved # <<>>
     THEN op' = [Idle EXCEPT !.pc = "send", !.order = o]
     ELSE CallDeliver(o, {mem.orders[o].requested})
  /\ troubles' = [troubles EXCEPT ![o] = @ + 1]
  /\ UNCHANGED <<store, writable, enabled, timers, offered, received, sends, events, restarts, failures>>

-----------------------------------------------------------------------------
(* deliver and send_reserved, one step per durable write or call. *)

(* Mutant: only an order that waits for stock warns of the shortage. *)
DeliverQuietly ==
  /\ At("deliver")
  /\ LET s == Reserve(mem, op.order, op.amount, op.allOrNothing)
     IN /\ Commit(s)
        /\ Goto(IF StatusOf(s, op.order) = "waiting_stock" THEN "shortage" ELSE "send")
  /\ UNCHANGED <<writable, enabled, timers, offered, history, counters>>

Deliver ==
  /\ At("deliver")
  /\ LET s == Reserve(mem, op.order, op.amount, op.allOrNothing)
     IN /\ Commit(s)
        /\ Goto(IF StatusOf(s, op.order) = "waiting_stock" \/ Shortage(s, op.order)
                THEN "shortage" ELSE "send")
  /\ UNCHANGED <<writable, enabled, timers, offered, history, counters>>

(* notify_shortage_once; the notifications that follow the mark may fail   *)
(* without consequence. *)
NotifyShortageOnce ==
  /\ At("shortage")
  /\ IF Record.notified
     THEN UNCHANGED store
     ELSE Commit(MarkShortageNotified(mem, op.order))
  /\ IF Record.status = "waiting_stock" THEN Return ELSE Goto("send")
  /\ UNCHANGED <<writable, enabled, timers, offered, history, counters>>

(* A call that fails may still have delivered the message. *)
SendReserved ==
  /\ At("send")
  /\ \/ /\ sends' = [sends EXCEPT ![op.order] = @ + 1]
        /\ received' = [received EXCEPT ![op.order] = @ \cup AccountsOf(mem, op.order)]
        /\ Goto("complete") \/ Goto("fail")
     \/ /\ UNCHANGED <<sends, received>>
        /\ Goto("fail")
  /\ UNCHANGED <<store, writable, enabled, timers, offered, troubles, counters>>

MarkCompleted ==
  /\ At("complete")
  /\ Commit(SetStatus(mem, op.order, "completed"))
  /\ Return
  /\ UNCHANGED <<writable, enabled, timers, offered, history, counters>>

MarkSendFailed ==
  /\ At("fail")
  /\ Commit(SetStatus(mem, op.order, "send_failed"))
  /\ Return
  /\ UNCHANGED <<writable, enabled, timers, offered, history, counters>>

(* A write that fails raises: memory and file stay, the handler is over. *)
Raise ==
  /\ op.pc \notin {"idle", "send"}
  /\ failures < MaxFailures
  /\ failures' = failures + 1
  /\ troubles' = [troubles EXCEPT ![op.order] = @ + 1]
  /\ Return
  /\ UNCHANGED <<store, writable, enabled, timers, offered, received, sends, events, retries, restarts>>

(* The storage that could not be loaded refuses every write. *)
RaiseUnavailable ==
  /\ op.pc \notin {"idle", "send"}
  /\ ~writable
  /\ Return
  /\ UNCHANGED <<store, writable, enabled, timers, offered, history, counters>>

-----------------------------------------------------------------------------
(* Administrators and restarts. *)

UploadAccounts ==
  /\ \E accounts \in SUBSET Accounts : \E batch \in NewAccounts(mem, accounts) :
       Commit(AddAccounts(mem, batch))
  /\ UNCHANGED <<writable, enabled, timers, offered, op, history, counters>>

DeleteAccount ==
  /\ \E account \in Accounts : Commit(RemoveStockAccount(mem, account))
  /\ UNCHANGED <<writable, enabled, timers, offered, op, history, counters>>

ClearAccounts ==
  /\ Commit(ClearStock(mem))
  /\ UNCHANGED <<writable, enabled, timers, offered, op, history, counters>>

Toggle ==
  /\ enabled' = ~enabled
  /\ UNCHANGED <<store, writable, timers, offered, op, history, counters>>

(* The process ends anywhere; the next one loads the file, or cannot. *)
Restart ==
  /\ restarts < MaxRestarts
  /\ restarts' = restarts + 1
  /\ \/ mem' = disk /\ writable' = TRUE
     \/ mem' = DefaultStore /\ writable' = FALSE
  /\ timers' = [o \in Orders |-> 0]
  /\ offered' = {}
  /\ troubles' = [o \in Orders |-> IF o = op.order THEN troubles[o] + 1 ELSE troubles[o]]
  /\ Return
  /\ UNCHANGED <<disk, enabled, received, sends, events, retries, failures>>

HandlerStep ==
  \/ Deliver \/ NotifyShortageOnce \/ SendReserved \/ MarkCompleted \/ MarkSendFailed
  \/ Raise \/ RaiseUnavailable

Next ==
  \/ \E o \in Orders : NewOrderEvent(o) \/ TimerFires(o) \/ RetryOrder(o)
  \/ HandlerStep
  \/ OpenWaiting \/ UploadAccounts \/ DeleteAccount \/ ClearAccounts \/ Toggle
  \/ Restart

Spec == Init /\ [][Next]_vars

-----------------------------------------------------------------------------
(* Types of the variables. *)
TypeOK ==
  /\ mem \in Stores
  /\ disk \in Stores
  /\ writable \in BOOLEAN
  /\ enabled \in BOOLEAN
  /\ timers \in [Orders -> Nat]
  /\ offered \subseteq Orders
  /\ op \in Operations
  /\ received \in [Orders -> SUBSET Accounts]
  /\ sends \in [Orders -> Nat]
  /\ troubles \in [Orders -> Nat]
  /\ {events, retries, restarts, failures} \subseteq Nat

(* An account reaches one buyer only, ever: completed orders keep their    *)
(* accounts on record, so that add_accounts refuses them for good.         *)
NoAccountSoldTwice ==
  \A o1, o2 \in Orders : o1 # o2 => received[o1] \cap received[o2] = {}

(* However often an order is sent, by retries and after interrupted sends, *)
(* its buyer gets the accounts of one reservation and never other ones.    *)
OneReservationPerBuyer ==
  \A o \in Orders : received[o] \subseteq AccountsOf(disk, o)

(* Delivery is at least once: a repeated message needs a retry, a write    *)
(* that failed or a restart in the middle of the delivery.  Repeated       *)
(* events and delayed deliveries never send twice.                         *)
RepeatsNeedTrouble == \A o \in Orders : sends[o] <= 1 + troubles[o]

(* The buyer who got fewer accounts than ordered was told so: the mark     *)
(* precedes the first message, across restarts and retries.                *)
ShortDeliveryIsWarned ==
  \A o \in Orders : sends[o] > 0 /\ Shortage(disk, o) => disk.orders[o].notified

(* Where the file says each account is. *)
Holder ==
  [a \in Accounts |->
     IF a \in ToSet(disk.stock) THEN Shelf
     ELSE IF \E o \in Orders : a \in AccountsOf(disk, o)
     THEN CHOOSE o \in Orders : a \in AccountsOf(disk, o)
     ELSE Out]

Ledger == INSTANCE StockLedger WITH Goods <- Accounts, holder <- Holder

(* The storage implements the ledger of StockLedger. *)
ImplementsLedger == Ledger!Spec
=============================================================================
