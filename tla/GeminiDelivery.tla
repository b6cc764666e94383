--------------------------- MODULE GeminiDelivery ---------------------------
(***************************************************************************)
(* GeminiDeliveryService on top of GeminiDeliveryStorage: new-order events *)
(* of FunPay, delayed deliveries, the retry and confirmation buttons of    *)
(* the Telegram panel, the administrators' stock commands, failed writes,  *)
(* failed and half-failed calls, and restarts of the plugin.               *)
(*                                                                         *)
(* Every entry point of the service holds its lock from the first read to  *)
(* the last write, so one handler is in progress at a time: op is the one  *)
(* that holds the lock, stopped before the durable write or the call that  *)
(* op.pc names.  Stock commands and settings changes do not take that lock *)
(* and come between any two steps of a handler.                            *)
(***************************************************************************)
EXTENDS GeminiStorage

CONSTANTS
  MaxAmount,     \* bound: links bought by one order
  MaxEvents,     \* bound: new-order events, duplicates included
  MaxRestarts,   \* bound: restarts of the plugin
  MaxUploads,    \* bound: uploads of links by the administrators
  NoOrder        \* the order of an idle service

ASSUME DeliveryAssumption ==
  /\ MaxAmount \in Nat \ {0}
  /\ MaxEvents \in Nat
  /\ MaxRestarts \in Nat
  /\ MaxUploads \in Nat
  /\ NoOrder \notin Orders

VARIABLES
  mem,       \* storage.state
  disk,      \* the storage file
  writable,  \* storage.writable
  mode,      \* settings["gemini_delivery"]["mode"]
  timers,    \* delayed deliveries that have not fired, per order
  cards,     \* orders with a confirmation card whose buttons still work
  offered,   \* orders the waiting page has listed since the start
  op,        \* the handler that holds the service lock
  \* History variables: what the world outside has seen.
  received,  \* links that reached the buyer of each order
  sends,     \* messages with goods that reached the buyer of each order
  warnings,  \* shortage warnings that got out, per order
  missed,    \* orders marked as warned of whose warning never got out
  forgotten, \* completed orders the storage has trimmed
  reused,    \* links uploaded again after a buyer had received them
  events,    \* new-order events so far
  restarts,  \* restarts so far
  uploads    \* uploads so far

store    == <<mem, disk>>
panel    == <<cards, offered>>
history  == <<received, sends, warnings, missed, forgotten, reused>>
counters == <<events, restarts, uploads>>
vars == <<mem, disk, writable, mode, timers, cards, offered, op,
          received, sends, warnings, missed, forgotten, reused, events, restarts, uploads>>

Modes == {"auto", "confirm", "off"}

Steps == {"idle", "deliver", "pin", "shortage", "warn", "prepare", "gist", "shorten",
          "awaiting", "confirm", "send", "complete", "fail"}

Idle == [pc |-> "idle", order |-> NoOrder, amount |-> 1, allOrNothing |-> FALSE,
         provider |-> "unset", todo |-> <<>>]

Operations ==
  [pc : Steps, order : Orders \cup {NoOrder}, amount : Nat \ {0}, allOrNothing : BOOLEAN,
   provider : Providers \cup {"unset"}, todo : Seq(Links)]

At(pc) == op.pc = pc

Free == At("idle")

Status == StatusOf(mem, op.order)

Record == mem.orders[op.order]

Goto(pc) == op' = [op EXCEPT !.pc = pc]

Return == op' = Idle

(* mutate: the new state is written to the file, then replaces the one in  *)
(* memory, under the storage lock.                                         *)
Commit(s) ==
  /\ writable
  /\ disk' = s
  /\ mem' = s

-----------------------------------------------------------------------------
Init ==
  /\ mem = DefaultStore
  /\ disk = DefaultStore
  /\ writable = TRUE
  /\ mode \in Modes
  /\ timers = [o \in Orders |-> 0]
  /\ cards = {}
  /\ offered = {}
  /\ op = Idle
  /\ received = [o \in Orders |-> {}]
  /\ sends = [o \in Orders |-> 0]
  /\ warnings = [o \in Orders |-> 0]
  /\ missed = {}
  /\ forgotten = {}
  /\ reused = {}
  /\ events = 0
  /\ restarts = 0
  /\ uploads = 0

-----------------------------------------------------------------------------
(* Entry points of the service. *)

(* deliver is called with the request and a snapshot of the settings.  The *)
(* amount is what get_order or, when that call fails, the event says.      *)
CallDeliver(o) ==
  \E amount \in 1..MaxAmount, allOrNothing \in BOOLEAN, provider \in Providers :
    op' = [pc |-> "deliver", order |-> o, amount |-> amount, allOrNothing |-> allOrNothing,
           provider |-> provider, todo |-> <<>>]

CallConfirm(o) == op' = [Idle EXCEPT !.pc = "confirm", !.order = o]

(* handle_new_order_locked *)
HandleNewOrder(o) ==
  IF mode = "off" \/ StatusOf(mem, o) \in {"completed", "send_failed", "waiting_stock"}
  THEN UNCHANGED op
  ELSE CallDeliver(o)

(* handle_new_order: delivered at once, or left to a timer. *)
NewOrderEvent(o) ==
  /\ Free
  /\ events < MaxEvents
  /\ events' = events + 1
  /\ \/ HandleNewOrder(o) /\ UNCHANGED timers
     \/ mode # "off" /\ timers' = [timers EXCEPT ![o] = @ + 1] /\ UNCHANGED op
  /\ UNCHANGED <<store, writable, mode, panel, history, restarts, uploads>>

TimerFires(o) ==
  /\ Free
  /\ timers[o] > 0
  /\ timers' = [timers EXCEPT ![o] = @ - 1]
  /\ HandleNewOrder(o)
  /\ UNCHANGED <<store, writable, mode, panel, history, counters>>

(* A page of the waiting orders gives each of them a retry button. *)
Listed(s) == {o \in Orders : StatusOf(s, o) \in ActionableStatuses}

ShowWaitingPage ==
  /\ offered' = offered \cup Listed(mem)
  /\ UNCHANGED <<store, writable, mode, timers, cards, op, history, counters>>

(* The confirmation card is sent, unless Telegram fails. *)
NotifyConfirmation(o) == cards' \in {cards, cards \cup {o}}

(* retry_order, from the button of a page that may be stale by now. *)
RetryOrder(o) ==
  /\ Free
  /\ o \in offered
  /\ mode # "off"
  /\ \/ /\ StatusOf(mem, o) = "awaiting_confirmation"
        /\ mode = "auto"
        /\ CallConfirm(o)
        /\ UNCHANGED cards
     \/ /\ StatusOf(mem, o) = "awaiting_confirmation"
        /\ mode = "confirm"
        /\ NotifyConfirmation(o)
        /\ UNCHANGED op
     \/ /\ StatusOf(mem, o) \notin {"absent", "awaiting_confirmation", "completed", "send_failed", "cancelled"}
        /\ CallDeliver(o)
        /\ UNCHANGED cards
  /\ UNCHANGED <<store, writable, mode, timers, offered, history, counters>>

(* The button of a confirmation card; the card may be stale as well. *)
PressConfirm(o) ==
  /\ Free
  /\ o \in cards
  /\ CallConfirm(o)
  /\ UNCHANGED <<store, writable, mode, timers, panel, history, counters>>

PressCancel(o) ==
  /\ Free
  /\ o \in cards
  /\ StatusOf(mem, o) = "awaiting_confirmation"
  /\ Commit(SetStatus(mem, o, "cancelled"))
  /\ UNCHANGED <<writable, mode, timers, panel, op, history, counters>>

-----------------------------------------------------------------------------
(* deliver, one step per durable write or call. *)

Settled == {"completed", "send_failed", "awaiting_confirmation", "cancelled"}

(* Nothing to do, or a gist that only waits to be confirmed. *)
DeliverSettled ==
  /\ At("deliver")
  /\ \/ Status \in Settled /\ Return
     \/ Status = "gist_created" /\ Goto("awaiting")
  /\ UNCHANGED <<store, writable, mode, timers, panel, history, counters>>

(* provider_config_error: the provider has no credentials. *)
DeliverMisconfigured ==
  /\ At("deliver")
  /\ Status \notin Settled \cup {"gist_created"}
  /\ Commit(RecordError(mem, op.order, op.amount))
  /\ Return
  /\ UNCHANGED <<writable, mode, timers, panel, history, counters>>

DeliverReserve ==
  /\ At("deliver")
  /\ Status \notin Settled \cup {"gist_created"}
  /\ LET s == Reserve(mem, op.order, op.amount, op.allOrNothing)
     IN /\ Commit(s)
        /\ \/ StatusOf(s, op.order) = "waiting_stock" /\ Goto("shortage")
           \/ StatusOf(s, op.order) \in {"reserved", "preparation_failed"} /\ Goto("pin")
           \/ StatusOf(s, op.order) = "sending" /\ Return
  /\ UNCHANGED <<writable, mode, timers, panel, history, counters>>

(* Mutant: only an order that waits for stock warns of the shortage. *)
PinProviderQuietly ==
  /\ At("pin")
  /\ Commit(SetProvider(mem, op.order, op.provider))
  /\ Goto("prepare")
  /\ UNCHANGED <<writable, mode, timers, panel, history, counters>>

PinProvider ==
  /\ At("pin")
  /\ Commit(SetProvider(mem, op.order, op.provider))
  /\ Goto(IF Shortage(mem, op.order) THEN "shortage" ELSE "prepare")
  /\ UNCHANGED <<writable, mode, timers, panel, history, counters>>

(* notify_shortage_once: marked first, then sent to the topic and to the    *)
(* administrators; both messages may fail, and neither is sent again.       *)
AfterShortage == IF Status = "waiting_stock" THEN Return ELSE Goto("prepare")

NotifyShortageOnce ==
  /\ At("shortage")
  /\ IF Record.notified
     THEN AfterShortage /\ UNCHANGED store
     ELSE Goto("warn") /\ Commit(MarkShortageNotified(mem, op.order))
  /\ UNCHANGED <<writable, mode, timers, panel, history, counters>>

WarnShortage ==
  /\ At("warn")
  /\ \/ warnings' = [warnings EXCEPT ![op.order] = @ + 1] /\ UNCHANGED missed
     \/ missed' = missed \cup {op.order} /\ UNCHANGED warnings
  /\ AfterShortage
  /\ UNCHANGED <<store, writable, mode, timers, panel, received, sends, forgotten, reused, counters>>

(* The reservation is read again with a second reserve, which holds it. *)
StartPreparation ==
  /\ At("prepare")
  /\ Commit(Reserve(mem, op.order, op.amount, op.allOrNothing))
  /\ \/ /\ Record.provider = "short_io"
        /\ op' = [op EXCEPT !.pc = "shorten",
                            !.todo = SubSeq(Record.reserved, Len(Record.prepared) + 1, Len(Record.reserved))]
     \/ /\ Record.provider = "github"
        /\ Goto(IF Record.prepared = <<>> THEN "gist" ELSE "awaiting")
  /\ UNCHANGED <<writable, mode, timers, panel, history, counters>>

CreateGist ==
  /\ At("gist")
  /\ \/ Commit(MarkGistCreated(mem, op.order)) /\ Goto("awaiting")
     \/ Commit(RestoreReservation(mem, op.order)) /\ Return
  /\ UNCHANGED <<writable, mode, timers, panel, history, counters>>

(* prepare_short_io: the loop over the links that are not prepared yet. *)
ShortenLink ==
  /\ At("shorten")
  /\ op.todo # <<>>
  /\ \/ /\ InPreparationOrder(mem, op.order, Head(op.todo))
        /\ Commit(AppendPreparedLink(mem, op.order, Head(op.todo)))
        /\ op' = [op EXCEPT !.todo = Tail(@)]
     \/ /\ Commit(SetStatus(mem, op.order, "preparation_failed"))
        /\ Return
  /\ UNCHANGED <<writable, mode, timers, panel, history, counters>>

ShortenDone ==
  /\ At("shorten")
  /\ op.todo = <<>>
  /\ Goto("awaiting")
  /\ UNCHANGED <<store, writable, mode, timers, panel, history, counters>>

(* request_confirmation: sent at once in auto mode, else left to an admin. *)
RequestConfirmation ==
  /\ At("awaiting")
  /\ Record.prepared # <<>>
  /\ Commit(SetStatus(mem, op.order, "awaiting_confirmation"))
  /\ \/ mode = "auto" /\ CallConfirm(op.order) /\ UNCHANGED cards
     \/ mode # "auto" /\ NotifyConfirmation(op.order) /\ Return
  /\ UNCHANGED <<writable, mode, timers, offered, history, counters>>

(* Mutant: a cancelled order is sent when its old card is pressed. *)
BeginSendCancelled ==
  /\ At("confirm")
  /\ IF Status \in {"awaiting_confirmation", "cancelled"}
     THEN Goto("send") /\ Commit(SetStatus(mem, op.order, "sending"))
     ELSE Return /\ UNCHANGED store
  /\ UNCHANGED <<writable, mode, timers, panel, history, counters>>

(* confirm_order: begin_send lets one caller through. *)
BeginSend ==
  /\ At("confirm")
  /\ IF Status = "awaiting_confirmation"
     THEN Goto("send") /\ Commit(SetStatus(mem, op.order, "sending"))
     ELSE Return /\ UNCHANGED store
  /\ UNCHANGED <<writable, mode, timers, panel, history, counters>>

(* The links behind the urls of the message. *)
MessageLinks ==
  IF Record.prepared = <<Gist>> THEN ToSet(Record.reserved) ELSE ToSet(Record.prepared)

(* A call that fails may still have delivered the message. *)
SendMessage ==
  /\ At("send")
  /\ \/ /\ sends' = [sends EXCEPT ![op.order] = @ + 1]
        /\ received' = [received EXCEPT ![op.order] = @ \cup MessageLinks]
        /\ Goto("complete") \/ Goto("fail")
     \/ /\ UNCHANGED <<sends, received>>
        /\ Goto("fail")
  /\ UNCHANGED <<store, writable, mode, timers, panel, warnings, missed, forgotten, reused, counters>>

MarkCompleted ==
  /\ At("complete")
  /\ LET s == SetStatus(mem, op.order, "completed")
     IN \E S \in Trimmed(s) : Commit(Forget(s, S)) /\ forgotten' = forgotten \cup S
  /\ Return
  /\ UNCHANGED <<writable, mode, timers, panel, received, sends, warnings, missed, reused, counters>>

(* Mutant: a send that failed puts the links back on sale. *)
MarkSendFailedRestoring ==
  /\ At("fail")
  /\ Commit(SetStatus(RestoreReservation(mem, op.order), op.order, "send_failed"))
  /\ Return
  /\ UNCHANGED <<writable, mode, timers, panel, history, counters>>

MarkSendFailed ==
  /\ At("fail")
  /\ Commit(SetStatus(mem, op.order, "send_failed"))
  /\ Return
  /\ UNCHANGED <<writable, mode, timers, panel, history, counters>>

(* A write that fails raises: memory and file stay, the handler is over.   *)
(* So do the ValueErrors of the storage.                                   *)
Raise ==
  /\ op.pc \notin {"idle", "warn", "send"}
  /\ Return
  /\ UNCHANGED <<store, writable, mode, timers, panel, history, counters>>

-----------------------------------------------------------------------------
(* Administrators and restarts. *)

UploadLinks ==
  /\ uploads < MaxUploads
  /\ uploads' = uploads + 1
  /\ \E links \in SUBSET Links : \E batch \in NewLinks(mem, links) :
       /\ Commit(AddLinks(mem, batch))
       /\ reused' = reused \cup (ToSet(batch) \cap UNION {received[o] : o \in Orders})
  /\ UNCHANGED <<writable, mode, timers, panel, op, received, sends, warnings, missed, forgotten, events, restarts>>

DeleteLink ==
  /\ \E link \in Links : Commit(RemoveStockLink(mem, link))
  /\ UNCHANGED <<writable, mode, timers, panel, op, history, counters>>

ClearLinks ==
  /\ Commit(ClearStock(mem))
  /\ UNCHANGED <<writable, mode, timers, panel, op, history, counters>>

SetMode ==
  /\ mode' \in Modes
  /\ UNCHANGED <<store, writable, timers, panel, op, history, counters>>

(* The process ends anywhere; the next one loads the file, or cannot.  A    *)
(* warning that is marked and not sent yet is never sent.                   *)
Restart ==
  /\ restarts < MaxRestarts
  /\ restarts' = restarts + 1
  /\ \/ mem' = NormalizeState(disk) /\ writable' = TRUE
     \/ mem' = DefaultStore /\ writable' = FALSE
  /\ timers' = [o \in Orders |-> 0]
  /\ cards' = {}
  /\ offered' = {}
  /\ missed' = IF At("warn") THEN missed \cup {op.order} ELSE missed
  /\ Return
  /\ UNCHANGED <<disk, mode, received, sends, warnings, forgotten, reused, events, uploads>>

-----------------------------------------------------------------------------
HandlerStep ==
  \/ DeliverSettled \/ DeliverMisconfigured \/ DeliverReserve \/ PinProvider
  \/ NotifyShortageOnce \/ WarnShortage \/ StartPreparation \/ CreateGist
  \/ ShortenLink \/ ShortenDone \/ RequestConfirmation \/ BeginSend
  \/ SendMessage \/ MarkCompleted \/ MarkSendFailed \/ Raise

Next ==
  \/ \E o \in Orders : NewOrderEvent(o) \/ TimerFires(o) \/ RetryOrder(o) \/ PressConfirm(o) \/ PressCancel(o)
  \/ HandlerStep
  \/ ShowWaitingPage \/ UploadLinks \/ DeleteLink \/ ClearLinks \/ SetMode
  \/ Restart

Spec == Init /\ [][Next]_vars

-----------------------------------------------------------------------------
(* Types of the variables. *)
TypeOK ==
  /\ mem \in Stores
  /\ disk \in Stores
  /\ writable \in BOOLEAN
  /\ mode \in Modes
  /\ timers \in [Orders -> Nat]
  /\ cards \subseteq Orders
  /\ offered \subseteq Orders
  /\ op \in Operations
  /\ received \in [Orders -> SUBSET (Links \cup {Gist})]
  /\ sends \in [Orders -> Nat]
  /\ warnings \in [Orders -> Nat]
  /\ missed \subseteq Orders
  /\ forgotten \subseteq Orders
  /\ reused \subseteq Links
  /\ events \in Nat
  /\ restarts \in Nat
  /\ uploads \in Nat

(* A link is in the stock once or held for one unfinished order, never     *)
(* both, although reservations are put back (restore_reservation) while    *)
(* administrators upload and clear the stock beside the handler.           *)
LinksExclusive == ExclusiveIn(mem) /\ ExclusiveIn(disk)

(* begin_send: whatever events are repeated, buttons pressed twice, writes *)
(* fail and restarts happen, a buyer gets the goods of an order once, as   *)
(* long as its record has not been trimmed.                                *)
AtMostOneMessage == \A o \in Orders \ forgotten : sends[o] <= 1

(* Two buyers receive the same link only if it was uploaded again after a  *)
(* buyer had it.                                                           *)
NoLinkSoldTwice ==
  \A o1, o2 \in Orders : o1 # o2 => received[o1] \cap received[o2] \subseteq reused

Prepared(order) == order.prepared = order.reserved \/ order.prepared = <<Gist>>

ReadyStatuses == {"gist_created", "awaiting_confirmation", "sending", "send_failed", "completed", "cancelled"}

(* An order that waits for its confirmation, or went past it, has links,   *)
(* and every one of them is prepared, also when the preparation stopped    *)
(* half way, another provider was chosen and it was retried later.         *)
NothingLeftUnprepared ==
  \A o \in Orders : StatusOf(disk, o) \in ReadyStatuses =>
    disk.orders[o].reserved # <<>> /\ Prepared(disk.orders[o])

(* A buyer is not given fewer links than ordered in silence: the topic or  *)
(* the administrators were warned before the order was ready, also when a  *)
(* restart came between the reservation and the mark, and once, across     *)
(* retries and restarts (notify_shortage_once).  The exception is missed:  *)
(* the mark was written, and then both messages failed or the process      *)
(* ended before them.  Then nothing is ever sent.                          *)
ShortageWarnedOnce ==
  /\ \A o \in Orders :
       StatusOf(disk, o) \in ReadyStatuses /\ Shortage(disk, o) => warnings[o] > 0 \/ o \in missed
  /\ \A o \in Orders \ forgotten : warnings[o] <= (IF o \in missed THEN 0 ELSE 1)

(* What an administrator cancelled stays cancelled: a card pressed later,  *)
(* a retry button of an old page or a late event sends nothing, and the    *)
(* links do not go back on sale.                                           *)
CancelledStaysCancelled ==
  [][\A o \in Orders : StatusOf(disk, o) = "cancelled" =>
       /\ StatusOf(disk', o) = "cancelled"
       /\ disk'.orders[o].reserved = disk.orders[o].reserved
       /\ sends'[o] = sends[o]]_<<disk, sends>>

(* Once a buyer has the links of an order its record says so: it is being  *)
(* sent, completed or failed, never back in a status that is delivered.    *)
DeliveredStaysDelivered ==
  \A o \in Orders \ forgotten : sends[o] > 0 => StatusOf(disk, o) \in {"sending", "completed", "send_failed"}

(* The page lists the orders that require action: nothing in progress, an  *)
(* order that is neither completed nor cancelled is on it.                 *)
UnfinishedOrdersAreListed ==
  Free /\ writable /\ (\A o \in Orders : timers[o] = 0) =>
    \A o \in Orders : StatusOf(mem, o) \notin {"absent", "completed", "cancelled"} => o \in Listed(mem)

-----------------------------------------------------------------------------
(* Where the file says each link is. *)
CONSTANTS
  Out,    \* the place of a link the storage does not keep
  Shelf   \* the place of a link in the stock

ASSUME LedgerAssumption == Out # Shelf /\ Out \notin Orders /\ Shelf \notin Orders

Holder ==
  [l \in Links |->
     IF l \in ToSet(disk.stock) THEN Shelf
     ELSE IF \E o \in Orders : l \in LinksOf(disk, o)
     THEN CHOOSE o \in Orders : l \in LinksOf(disk, o)
     ELSE Out]

Ledger == INSTANCE StockLedger WITH Goods <- Links, holder <- Holder

(* The storage implements the ledger of StockLedger.                       *)
ImplementsLedger == Ledger!Spec
=============================================================================
