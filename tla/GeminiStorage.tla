--------------------------- MODULE GeminiStorage ---------------------------
(***************************************************************************)
(* The state kept by GeminiDeliveryStorage and its operations, each as a   *)
(* function from the store it starts from to the store it writes.  A store *)
(* is the content of the JSON file: the stock, a queue of links, and one   *)
(* record per order; an order without a record has status "absent".        *)
(* What a record keeps for display only (buyer, chat, timestamps, texts of *)
(* errors) is left out.  The links prepared for the buyer are named by the *)
(* link they stand for; a gist stands for all reserved links at once and   *)
(* is the single value Gist.                                               *)
(***************************************************************************)
EXTENDS Integers, Sequences, FiniteSets, SequencesExt

CONSTANTS
  Orders,           \* order ids
  Links,            \* Gemini links
  Gist,             \* what a prepared GitHub gist is named by
  CompletionLimit   \* completed orders kept in the file (completion_limit)

ASSUME StorageAssumption ==
  /\ IsFiniteSet(Orders)
  /\ IsFiniteSet(Links)
  /\ Gist \notin Links
  /\ CompletionLimit \in Nat \ {0}

Statuses == {"reserved", "waiting_stock", "gist_created", "completed", "send_failed", "retryable",
             "preparation_failed", "awaiting_confirmation", "sending", "cancelled"}

(* Mutant: the set of held statuses without one of its members. *)
HeldButSending == Statuses \ {"waiting_stock", "retryable", "sending"}

(* RESERVATION_HELD_STATUSES: a record in one of them keeps its links. *)
HeldStatuses == Statuses \ {"waiting_stock", "retryable"}

ActionableStatuses == {"waiting_stock", "preparation_failed", "awaiting_confirmation", "send_failed"}

Providers == {"github", "short_io"}

OrderRecords ==
  [status    : Statuses \cup {"absent"},
   requested : Nat \ {0},
   reserved  : Seq(Links),
   prepared  : Seq(Links \cup {Gist}),
   provider  : Providers \cup {"unset"},
   notified  : BOOLEAN]

Stores == [stock : Seq(Links), orders : [Orders -> OrderRecords]]

(* Mutant: the amount is off by one. *)
NewRecordOneLess(amount) ==
  [status |-> "retryable", requested |-> amount - 1, reserved |-> <<>>, prepared |-> <<>>,
   provider |-> "unset", notified |-> FALSE]

NewRecord(amount) ==
  [status |-> "retryable", requested |-> amount, reserved |-> <<>>, prepared |-> <<>>,
   provider |-> "unset", notified |-> FALSE]

NoRecord == [NewRecord(1) EXCEPT !.status = "absent"]

DefaultStore == [stock |-> <<>>, orders |-> [o \in Orders |-> NoRecord]]

StatusOf(s, o) == s.orders[o].status

Update(s, o, record) == [s EXCEPT !.orders[o] = record]

SetStatus(s, o, status) == [s EXCEPT !.orders[o].status = status]

(* Links of an order count as known to the storage until it is completed. *)
LinksOf(s, o) == IF StatusOf(s, o) = "completed" THEN {} ELSE ToSet(s.orders[o].reserved)

ActiveLinks(s) == ToSet(s.stock) \cup UNION {LinksOf(s, o) : o \in Orders}

-----------------------------------------------------------------------------
(* Stock operations of the administrators. *)

(* What add_links keeps of the links an administrator sends, in any order. *)
NewLinks(s, links) == SetToSeqs(links \ ActiveLinks(s))

AddLinks(s, batch) == [s EXCEPT !.stock = @ \o batch]

RemoveStockLink(s, link) == [s EXCEPT !.stock = RemoveFirst(@, link)]

ClearStock(s) == [s EXCEPT !.stock = <<>>]

-----------------------------------------------------------------------------
(* Operations of the delivery service on one order. *)

ToTake(available, requested, allOrNothing) ==
  IF available < requested
  THEN IF allOrNothing THEN 0 ELSE available
  ELSE requested

Reserve(s, o, amount, allOrNothing) ==
  LET order == IF StatusOf(s, o) = "absent" THEN NewRecord(amount) ELSE s.orders[o]
      take  == ToTake(Len(s.stock), order.requested, allOrNothing)
  IN IF StatusOf(s, o) \in HeldStatuses
     THEN s
     ELSE [stock  |-> SubSeq(s.stock, take + 1, Len(s.stock)),
           orders |-> [s.orders EXCEPT ![o] =
             [order EXCEPT !.reserved = SubSeq(s.stock, 1, take),
                           !.status   = IF take > 0 THEN "reserved" ELSE "waiting_stock"]]]

Shortage(s, o) == Len(s.orders[o].reserved) < s.orders[o].requested

(* Mutant: the links go back on sale and stay with the order. *)
RestoreKeepingReserved(s, o) ==
  [stock  |-> s.orders[o].reserved \o s.stock,
   orders |-> [s.orders EXCEPT ![o] =
     [@ EXCEPT !.provider = "unset", !.prepared = <<>>, !.status = "retryable"]]]

RestoreReservation(s, o) ==
  [stock  |-> s.orders[o].reserved \o s.stock,
   orders |-> [s.orders EXCEPT ![o] =
     [@ EXCEPT !.reserved = <<>>, !.provider = "unset", !.prepared = <<>>, !.status = "retryable"]]]

(* Mutant: a retry may change the provider. *)
ReplaceProvider(s, o, provider) == [s EXCEPT !.orders[o].provider = provider]

SetProvider(s, o, provider) ==
  IF s.orders[o].provider # "unset" THEN s ELSE [s EXCEPT !.orders[o].provider = provider]

(* A link may be prepared when it is the next reserved one. *)
InPreparationOrder(s, o, link) ==
  LET order == s.orders[o]
      next  == Len(order.prepared) + 1
  IN \/ link \in ToSet(order.prepared)
     \/ next <= Len(order.reserved) /\ order.reserved[next] = link

AppendPreparedLink(s, o, link) ==
  IF link \in ToSet(s.orders[o].prepared)
  THEN s
  ELSE [s EXCEPT !.orders[o].prepared = Append(@, link)]

MarkGistCreated(s, o) ==
  Update(s, o, [s.orders[o] EXCEPT !.status = "gist_created", !.provider = "github", !.prepared = <<Gist>>])

MarkShortageNotified(s, o) == [s EXCEPT !.orders[o].notified = TRUE]

RecordError(s, o, amount) ==
  IF StatusOf(s, o) = "absent" THEN Update(s, o, NewRecord(amount)) ELSE s

CompletedOrders(s) == {o \in Orders : StatusOf(s, o) = "completed"}

(* trim_completed_orders forgets the completed orders over the limit.  They *)
(* are ranked by wall-clock time, which may step back: any of them may be   *)
(* the ones that go.                                                        *)
Trimmed(s) ==
  LET excess == Cardinality(CompletedOrders(s)) - CompletionLimit
  IN {S \in SUBSET CompletedOrders(s) : Cardinality(S) = IF excess > 0 THEN excess ELSE 0}

Forget(s, S) == [s EXCEPT !.orders = [o \in Orders |-> IF o \in S THEN NoRecord ELSE s.orders[o]]]

-----------------------------------------------------------------------------
(* Mutant: an interrupted send is offered for confirmation again. *)
NormalizeRecordResending(order) ==
  CASE order.status \in {"gist_created", "sending"} -> [order EXCEPT !.status = "awaiting_confirmation"]
    [] OTHER -> order

(* What load makes of the file: a gist that was created is ready to be      *)
(* confirmed, and a message that was being sent counts as not sent.         *)
NormalizeRecord(order) ==
  CASE order.status = "gist_created" -> [order EXCEPT !.status = "awaiting_confirmation", !.provider = "github"]
    [] order.status = "sending"      -> [order EXCEPT !.status = "send_failed"]
    [] OTHER                         -> order

NormalizeState(s) == [s EXCEPT !.orders = [o \in Orders |-> NormalizeRecord(s.orders[o])]]

-----------------------------------------------------------------------------
(* A link is in the stock once or held for one unfinished order.           *)
ExclusiveIn(s) ==
  /\ IsInjective(s.stock)
  /\ \A o \in Orders : StatusOf(s, o) # "completed" => IsInjective(s.orders[o].reserved)
  /\ \A o \in Orders : LinksOf(s, o) \cap ToSet(s.stock) = {}
  /\ \A o1, o2 \in Orders : o1 # o2 => LinksOf(s, o1) \cap LinksOf(s, o2) = {}
=============================================================================
