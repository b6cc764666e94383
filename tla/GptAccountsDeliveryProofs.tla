--------------------- MODULE GptAccountsDeliveryProofs ---------------------
(***************************************************************************)
(* Proofs about GptAccountsDelivery: the types; what each write does to    *)
(* the records and to the stock; then what a buyer may get, how often, and *)
(* that the file implements the ledger.                                    *)
(***************************************************************************)
EXTENDS GptAccountsDelivery, SequenceLemmas

(* A handler in progress is about an order. *)
TypeInv == TypeOK /\ (~Free => op.order \in Orders)

(* The memory is what the file says, or the storage refuses every write. *)
Agreement == IF writable THEN mem = disk ELSE mem = DefaultStore

(* An account is in the stock once or on record for one order, for good.   *)
Exclusive(s) ==
  /\ IsInjective(s.stock)
  /\ \A o \in Orders : IsInjective(s.orders[o].reserved)
  /\ \A o \in Orders : AccountsOf(s, o) \cap ToSet(s.stock) = {}
  /\ \A o1, o2 \in Orders : o1 # o2 => AccountsOf(s, o1) \cap AccountsOf(s, o2) = {}

(* An order that reserve acts on has nothing reserved: nothing is lost when *)
(* reserve overwrites the reservation.                                      *)
EmptyHanded(s) == \A o \in Orders : StatusOf(s, o) \notin HeldStatuses => s.orders[o].reserved = <<>>

-----------------------------------------------------------------------------
(* The operations of the storage. *)

(* A new record holds nothing. *)
LEMMA NewRecordType ==
  ASSUME NEW amount \in Nat \ {0}
  PROVE  /\ NewRecord(amount) \in OrderRecords
         /\ NewRecord(amount).status = "retryable" /\ NewRecord(amount).reserved = <<>>
<1>1. <<>> \in Seq(Accounts)
  BY EmptySeq
<1> QED
  BY <1>1 DEF NewRecord, OrderRecords, Statuses

(* The empty storage is a storage. *)
LEMMA DefaultStoreType ==
  /\ DefaultStore \in Stores /\ DefaultStore.stock = <<>>
  /\ \A o \in Orders : DefaultStore.orders[o] = NoRecord
  /\ NoRecord.status = "absent" /\ NoRecord.reserved = <<>>
<1>1. <<>> \in Seq(Accounts)
  BY EmptySeq
<1>2. NoRecord \in OrderRecords /\ NoRecord.status = "absent" /\ NoRecord.reserved = <<>>
  BY NewRecordType DEF NoRecord, OrderRecords, Statuses
<1>3. /\ DefaultStore.stock = <<>> /\ DefaultStore.orders = [o \in Orders |-> NoRecord]
      /\ DefaultStore = [stock |-> <<>>, orders |-> [o \in Orders |-> NoRecord]]
  BY DEF DefaultStore
<1> QED
  BY <1>1, <1>2, <1>3 DEF Stores

(* The empty storage keeps nothing. *)
LEMMA DefaultStoreSound == Exclusive(DefaultStore) /\ EmptyHanded(DefaultStore)
<1>1. \A o \in Orders : AccountsOf(DefaultStore, o) = {} /\ IsInjective(DefaultStore.orders[o].reserved)
  BY DefaultStoreType, EmptyToSet DEF AccountsOf
<1> QED
  BY <1>1, DefaultStoreType, EmptyToSet DEF Exclusive, EmptyHanded

(* A change of status, or the mark of a shortage, leaves stock and reservations. *)
LEMMA SetStatusType ==
  ASSUME NEW s \in Stores, NEW o \in Orders, NEW status \in Statuses
  PROVE  /\ SetStatus(s, o, status) \in Stores
         /\ SetStatus(s, o, status).stock = s.stock
         /\ \A p \in Orders : SetStatus(s, o, status).orders[p] =
                                IF p = o THEN [s.orders[o] EXCEPT !.status = status] ELSE s.orders[p]
<1>1. s.orders[o] \in OrderRecords
  BY DEF Stores
<1>2. [s.orders[o] EXCEPT !.status = status] \in OrderRecords
  BY <1>1 DEF OrderRecords
<1> QED
  BY <1>2 DEF SetStatus, Stores

(* The other parts of the records stay as well. *)
LEMMA SetStatusEffect ==
  ASSUME NEW s \in Stores, NEW o \in Orders, NEW status \in Statuses
  PROVE  \A p \in Orders :
           /\ StatusOf(SetStatus(s, o, status), p) = IF p = o THEN status ELSE StatusOf(s, p)
           /\ SetStatus(s, o, status).orders[p].reserved = s.orders[p].reserved
           /\ SetStatus(s, o, status).orders[p].requested = s.orders[p].requested
           /\ SetStatus(s, o, status).orders[p].notified = s.orders[p].notified
<1> TAKE p \in Orders
<1>1. s.orders[o] \in OrderRecords
  BY DEF Stores
<1> DEFINE t == SetStatus(s, o, status)
<1>2. t.orders[p] = IF p = o THEN [s.orders[o] EXCEPT !.status = status] ELSE s.orders[p]
  BY SetStatusType
<1> HIDE DEF t
<1>3. /\ StatusOf(t, p) = IF p = o THEN status ELSE StatusOf(s, p)
      /\ t.orders[p].reserved = s.orders[p].reserved
      /\ t.orders[p].requested = s.orders[p].requested
      /\ t.orders[p].notified = s.orders[p].notified
  BY <1>1, <1>2 DEF OrderRecords, StatusOf
<1> QED
  BY <1>3 DEF t

(* The mark of a shortage is all that mark_shortage_notified changes. *)
LEMMA MarkType ==
  ASSUME NEW s \in Stores, NEW o \in Orders
  PROVE  /\ MarkShortageNotified(s, o) \in Stores
         /\ MarkShortageNotified(s, o).stock = s.stock
         /\ \A p \in Orders :
              /\ StatusOf(MarkShortageNotified(s, o), p) = StatusOf(s, p)
              /\ MarkShortageNotified(s, o).orders[p].reserved = s.orders[p].reserved
              /\ MarkShortageNotified(s, o).orders[p].requested = s.orders[p].requested
              /\ MarkShortageNotified(s, o).orders[p].notified = IF p = o THEN TRUE ELSE s.orders[p].notified
<1>1. \A p \in Orders : s.orders[p] \in OrderRecords
  BY DEF Stores
<1>2. [s.orders[o] EXCEPT !.notified = TRUE] \in OrderRecords
  BY <1>1 DEF OrderRecords
<1>3. MarkShortageNotified(s, o) = [s EXCEPT !.orders = [s.orders EXCEPT ![o] = [s.orders[o] EXCEPT !.notified = TRUE]]]
  BY DEF MarkShortageNotified, Stores
<1> DEFINE t == MarkShortageNotified(s, o)
<1>4. /\ t \in Stores
      /\ t.stock = s.stock
      /\ \A p \in Orders : t.orders[p] = IF p = o THEN [s.orders[o] EXCEPT !.notified = TRUE] ELSE s.orders[p]
  BY <1>2, <1>3 DEF Stores
<1> HIDE DEF t
<1>5. ASSUME NEW p \in Orders
      PROVE  /\ StatusOf(t, p) = StatusOf(s, p)
             /\ t.orders[p].reserved = s.orders[p].reserved
             /\ t.orders[p].requested = s.orders[p].requested
             /\ t.orders[p].notified = IF p = o THEN TRUE ELSE s.orders[p].notified
  <2>1. CASE p = o
    BY <1>1, <1>4, <2>1 DEF OrderRecords, StatusOf
  <2>2. CASE p # o
    BY <1>4, <2>2 DEF StatusOf
  <2> QED
    BY <2>1, <2>2
<1> QED
  BY <1>4, <1>5 DEF t

(* What reserve does: nothing, or it moves the front of the stock to the     *)
(* The outcome t of a reserve that takes k accounts. *)
Reserves(s, o, amount, allOrNothing, k, t) ==
  /\ t = Reserve(s, o, amount, allOrNothing)
  /\ t.stock = SubSeq(s.stock, k + 1, Len(s.stock))
  /\ t.orders[o].reserved = SubSeq(s.stock, 1, k)
  /\ StatusOf(t, o) = IF k > 0 THEN "reserved" ELSE "waiting_stock"
  /\ \A p \in Orders \ {o} : t.orders[p] = s.orders[p]

(* order, under the amount on record.                                       *)
LEMMA ReserveEffect ==
  ASSUME NEW s \in Stores, NEW o \in Orders, NEW amount \in Nat \ {0}, NEW allOrNothing \in BOOLEAN,
         StatusOf(s, o) \notin HeldStatuses
  PROVE  \E k \in 0..Len(s.stock) : \E t \in Stores : Reserves(s, o, amount, allOrNothing, k, t)
<1> DEFINE order == IF StatusOf(s, o) = "absent" THEN NewRecord(amount) ELSE s.orders[o]
           take  == ToTake(Len(s.stock), amount, allOrNothing)
           record == [order EXCEPT !.reserved = SubSeq(s.stock, 1, take),
                                   !.status   = IF take > 0 THEN "reserved" ELSE "waiting_stock"]
           t     == Reserve(s, o, amount, allOrNothing)
<1>1. order \in OrderRecords
  BY NewRecordType DEF Stores
<1>2. s.stock \in Seq(Accounts) /\ Len(s.stock) \in Nat
  BY LenProperties DEF Stores
<1>3. take \in 0..Len(s.stock)
  BY <1>2 DEF ToTake
<1>4. t = [stock |-> SubSeq(s.stock, take + 1, Len(s.stock)), orders |-> [s.orders EXCEPT ![o] = record]]
  BY DEF Reserve
<1> HIDE DEF take, t, order
<1>5. SubSeq(s.stock, 1, take) \in Seq(Accounts) /\ SubSeq(s.stock, take + 1, Len(s.stock)) \in Seq(Accounts)
  BY <1>2, <1>3, SubSeqType
<1>6. /\ record \in OrderRecords
      /\ record.reserved = SubSeq(s.stock, 1, take)
      /\ record.status = IF take > 0 THEN "reserved" ELSE "waiting_stock"
  BY <1>1, <1>5 DEF OrderRecords, Statuses
<1> HIDE DEF record
<1>7. /\ t \in Stores
      /\ t.stock = SubSeq(s.stock, take + 1, Len(s.stock))
      /\ t.orders[o] = record
      /\ \A p \in Orders \ {o} : t.orders[p] = s.orders[p]
  BY <1>4, <1>5, <1>6 DEF Stores
<1>8. StatusOf(t, o) = IF take > 0 THEN "reserved" ELSE "waiting_stock"
  BY <1>6, <1>7 DEF StatusOf
<1> QED
  BY <1>3, <1>6, <1>7, <1>8 DEF t, Reserves

(* reserve returns a storage, and leaves an order that holds accounts. *)
LEMMA ReserveType ==
  ASSUME NEW s \in Stores, NEW o \in Orders, NEW amount \in Nat \ {0}, NEW allOrNothing \in BOOLEAN
  PROVE  /\ Reserve(s, o, amount, allOrNothing) \in Stores
         /\ StatusOf(s, o) \in HeldStatuses => Reserve(s, o, amount, allOrNothing) = s
<1>1. CASE StatusOf(s, o) \in HeldStatuses
  BY <1>1 DEF Reserve
<1>2. CASE StatusOf(s, o) \notin HeldStatuses
  BY <1>2, ReserveEffect DEF Reserves
<1> QED
  BY <1>1, <1>2

(* The administrators' operations touch no order. *)
LEMMA StockType ==
  ASSUME NEW s \in Stores
  PROVE  /\ \A accounts \in SUBSET Accounts : \A batch \in NewAccounts(s, accounts) :
              /\ batch \in Seq(Accounts) /\ IsInjective(batch) /\ ToSet(batch) \cap ActiveEmails(s) = {}
              /\ AddAccounts(s, batch) \in Stores
              /\ AddAccounts(s, batch).stock = s.stock \o batch
              /\ AddAccounts(s, batch).orders = s.orders
         /\ \A account \in Accounts :
              /\ RemoveStockAccount(s, account) \in Stores
              /\ RemoveStockAccount(s, account).stock = RemoveFirst(s.stock, account)
              /\ RemoveStockAccount(s, account).orders = s.orders
         /\ ClearStock(s) \in Stores /\ ClearStock(s).stock = <<>> /\ ClearStock(s).orders = s.orders
<1>1. s.stock \in Seq(Accounts) /\ <<>> \in Seq(Accounts)
  BY EmptySeq DEF Stores
<1>2. ASSUME NEW q \in Seq(Accounts)
      PROVE  /\ [s EXCEPT !.stock = q] \in Stores
             /\ [s EXCEPT !.stock = q].stock = q /\ [s EXCEPT !.stock = q].orders = s.orders
  BY <1>2 DEF Stores
<1>3. ASSUME NEW accounts \in SUBSET Accounts, NEW batch \in NewAccounts(s, accounts)
      PROVE  batch \in Seq(Accounts) /\ IsInjective(batch) /\ ToSet(batch) \cap ActiveEmails(s) = {}
  <2> DEFINE fresh == accounts \ ActiveEmails(s)
  <2>1. IsFiniteSet(fresh) /\ fresh \in SUBSET Accounts
    BY GptAssumption, FS_Subset
  <2>2. batch \in SetToSeqs(fresh)
    BY DEF NewAccounts
  <2>3. fresh \cap ActiveEmails(s) = {}
    OBVIOUS
  <2> HIDE DEF fresh
  <2>4. batch \in Seq(Accounts) /\ IsInjective(batch) /\ ToSet(batch) \subseteq fresh
    BY <2>1, <2>2, ArrangementType
  <2> QED
    BY <2>3, <2>4
<1>4. \A batch \in Seq(Accounts) : s.stock \o batch \in Seq(Accounts)
  BY <1>1, ConcatProperties
<1>5. \A account \in Accounts : RemoveFirst(s.stock, account) \in Seq(Accounts)
  BY <1>1, RemoveFirstType
<1> QED
  BY <1>1, <1>2, <1>3, <1>4, <1>5 DEF AddAccounts, RemoveStockAccount, ClearStock

-----------------------------------------------------------------------------
(* Types. *)

(* Where a handler goes on, or ends, or begins. *)
LEMMA OpType ==
  ASSUME op \in Operations
  PROVE  /\ \A pc \in Steps : Goto(pc) => op' \in Operations /\ op'.pc = pc /\ op'.order = op.order
         /\ Return => op' \in Operations /\ op'.pc = "idle" /\ op'.order = NoOrder
         /\ \A o \in Orders, amounts \in SUBSET (Nat \ {0}) :
              CallDeliver(o, amounts) => op' \in Operations /\ op'.pc = "deliver" /\ op'.order = o
         /\ \A o \in Orders : op' = [Idle EXCEPT !.pc = "send", !.order = o]
              => op' \in Operations /\ op'.pc = "send" /\ op'.order = o
<1>1. ASSUME NEW pc \in Steps, Goto(pc)
      PROVE  op' \in Operations /\ op'.pc = pc /\ op'.order = op.order
  BY <1>1 DEF Goto, Operations
<1>2. Return => op' \in Operations /\ op'.pc = "idle" /\ op'.order = NoOrder
  BY DEF Return, Idle, Operations, Steps
<1>3. ASSUME NEW o \in Orders, NEW amounts \in SUBSET (Nat \ {0}), CallDeliver(o, amounts)
      PROVE  op' \in Operations /\ op'.pc = "deliver" /\ op'.order = o
  BY <1>3 DEF CallDeliver, Operations, Steps
<1>4. ASSUME NEW o \in Orders, op' = [Idle EXCEPT !.pc = "send", !.order = o]
      PROVE  op' \in Operations /\ op'.pc = "send" /\ op'.order = o
  <2>1. op' = [pc |-> "send", order |-> o, amount |-> 1, allOrNothing |-> FALSE]
    BY <1>4 DEF Idle
  <2> QED
    BY <2>1 DEF Operations, Steps
<1> QED
  BY <1>1, <1>2, <1>3, <1>4

(* What an event does to the handler. *)
LEMMA HandleNewOrderType ==
  ASSUME op \in Operations, NEW o \in Orders, HandleNewOrder(o)
  PROVE  \/ op' = op
         \/ /\ op' \in Operations /\ op'.pc = "deliver" /\ op'.order = o
            /\ StatusOf(mem, o) \notin {"completed", "send_failed", "waiting_stock"}
<1>1. 1..MaxAmount \in SUBSET (Nat \ {0})
  BY GptAssumption
<1> QED
  BY <1>1, OpType DEF HandleNewOrder

(* Every step keeps the types. *)
LEMMA TypeNext == TypeInv /\ [Next]_vars => TypeInv'
<1> SUFFICES ASSUME TypeInv, [Next]_vars PROVE TypeInv'
  OBVIOUS
<1>1. /\ op \in Operations /\ mem \in Stores /\ disk \in Stores
      /\ op.pc # "idle" => op.order \in Orders
      /\ op.amount \in Nat \ {0} /\ op.allOrNothing \in BOOLEAN
  BY DEF TypeInv, TypeOK, Free, At, Operations
<1> DEFINE StoreTyped == mem' \in Stores /\ disk' \in Stores
           OpTyped    == op' \in Operations /\ (op'.pc # "idle" => op'.order \in Orders)
           WorldTyped ==
             /\ writable' \in BOOLEAN /\ enabled' \in BOOLEAN
             /\ timers' \in [Orders -> Nat] /\ offered' \subseteq Orders
             /\ received' \in [Orders -> SUBSET Accounts]
             /\ sends' \in [Orders -> Nat] /\ troubles' \in [Orders -> Nat]
             /\ {events', retries', restarts', failures'} \subseteq Nat
<1>2. StoreTyped /\ OpTyped /\ WorldTyped => TypeInv'
  BY DEF TypeInv, TypeOK, Free, At
<1>3. UNCHANGED store => StoreTyped
  BY <1>1 DEF store
<1>4. \A t \in Stores : Commit(t) => StoreTyped
  BY DEF Commit
<1>5. UNCHANGED op => OpTyped
  BY <1>1
<1>6. /\ {"shortage", "send", "complete", "fail"} \subseteq Steps
      /\ {"completed", "send_failed"} \subseteq Statuses
  BY DEF Steps, Statuses
<1>7. /\ writable \in BOOLEAN /\ enabled \in BOOLEAN
      /\ timers \in [Orders -> Nat] /\ offered \subseteq Orders
      /\ received \in [Orders -> SUBSET Accounts]
      /\ sends \in [Orders -> Nat] /\ troubles \in [Orders -> Nat]
      /\ events \in Nat /\ retries \in Nat /\ restarts \in Nat /\ failures \in Nat
  BY DEF TypeInv, TypeOK
<1>8. \A o \in Orders : /\ mem.orders[o].requested \in Nat \ {0}
                        /\ AccountsOf(mem, o) \subseteq Accounts
  <2>1. \A o \in Orders : mem.orders[o].requested \in Nat \ {0} /\ mem.orders[o].reserved \in Seq(Accounts)
    BY <1>1 DEF Stores, OrderRecords
  <2> QED
    BY <2>1, ToSetSeq DEF AccountsOf
<1>9. Return => OpTyped
  BY <1>1, OpType
<1>10. \A pc \in {"shortage", "send", "complete", "fail"} : Goto(pc) /\ op.pc # "idle" => OpTyped
  BY <1>1, <1>6, OpType
<1> HIDE DEF StoreTyped, OpTyped
<1>11. ASSUME NEW o \in Orders, NewOrderEvent(o) \/ TimerFires(o) PROVE TypeInv'
  <2>1. StoreTyped
    BY <1>3, <1>11 DEF NewOrderEvent, TimerFires
  <2>2. OpTyped
    BY <1>1, <1>5, <1>11, HandleNewOrderType DEF NewOrderEvent, TimerFires, OpTyped
  <2>3. WorldTyped
    BY <1>7, <1>11 DEF NewOrderEvent, TimerFires, history, counters
  <2> QED
    BY <1>2, <2>1, <2>2, <2>3
<1>12. ASSUME NEW o \in Orders, RetryOrder(o) PROVE TypeInv'
  <2>1. StoreTyped
    BY <1>3, <1>12 DEF RetryOrder
  <2>2. OpTyped
    <3>1. {mem.orders[o].requested} \in SUBSET (Nat \ {0})
      BY <1>8
    <3> QED
      BY <1>1, <1>12, <3>1, OpType DEF RetryOrder, OpTyped
  <2>3. WorldTyped
    BY <1>7, <1>12 DEF RetryOrder
  <2> QED
    BY <1>2, <2>1, <2>2, <2>3
<1>13. ASSUME Deliver PROVE TypeInv'
  <2>1. op.pc # "idle" /\ op.order \in Orders
    BY <1>1, <1>13 DEF Deliver, At
  <2>2. StoreTyped
    BY <1>1, <1>4, <1>13, <2>1, ReserveType DEF Deliver
  <2>3. OpTyped
    BY <1>10, <1>13, <2>1 DEF Deliver
  <2>4. WorldTyped
    BY <1>7, <1>13 DEF Deliver, history, counters
  <2> QED
    BY <1>2, <2>2, <2>3, <2>4
<1>14. ASSUME NotifyShortageOnce PROVE TypeInv'
  <2>1. op.pc # "idle" /\ op.order \in Orders
    BY <1>1, <1>14 DEF NotifyShortageOnce, At
  <2>2. StoreTyped
    BY <1>1, <1>3, <1>4, <1>14, <2>1, MarkType DEF NotifyShortageOnce
  <2>3. OpTyped
    BY <1>9, <1>10, <1>14, <2>1 DEF NotifyShortageOnce
  <2>4. WorldTyped
    BY <1>7, <1>14 DEF NotifyShortageOnce, history, counters
  <2> QED
    BY <1>2, <2>2, <2>3, <2>4
<1>15. ASSUME SendReserved PROVE TypeInv'
  <2>1. op.pc # "idle" /\ op.order \in Orders
    BY <1>1, <1>15 DEF SendReserved, At
  <2>2. StoreTyped
    BY <1>3, <1>15 DEF SendReserved
  <2>3. OpTyped
    BY <1>10, <1>15, <2>1 DEF SendReserved
  <2>4. received' \in [Orders -> SUBSET Accounts] /\ sends' \in [Orders -> Nat]
    BY <1>7, <1>8, <1>15, <2>1 DEF SendReserved
  <2>5. WorldTyped
    BY <1>7, <1>15, <2>4 DEF SendReserved, counters
  <2> QED
    BY <1>2, <2>2, <2>3, <2>5
<1>16. ASSUME MarkCompleted \/ MarkSendFailed PROVE TypeInv'
  <2>1. op.order \in Orders
    BY <1>1, <1>16 DEF MarkCompleted, MarkSendFailed, At
  <2>2. StoreTyped
    BY <1>1, <1>4, <1>6, <1>16, <2>1, SetStatusType DEF MarkCompleted, MarkSendFailed
  <2>3. OpTyped
    BY <1>9, <1>16 DEF MarkCompleted, MarkSendFailed
  <2>4. WorldTyped
    BY <1>7, <1>16 DEF MarkCompleted, MarkSendFailed, history, counters
  <2> QED
    BY <1>2, <2>2, <2>3, <2>4
<1>17. ASSUME Raise \/ RaiseUnavailable PROVE TypeInv'
  <2>1. StoreTyped
    BY <1>3, <1>17 DEF Raise, RaiseUnavailable
  <2>2. OpTyped
    BY <1>9, <1>17 DEF Raise, RaiseUnavailable
  <2>3. WorldTyped
    BY <1>7, <1>17 DEF Raise, RaiseUnavailable, history, counters
  <2> QED
    BY <1>2, <2>1, <2>2, <2>3
<1>18. ASSUME OpenWaiting \/ Toggle PROVE TypeInv'
  <2>1. StoreTyped /\ OpTyped
    BY <1>3, <1>5, <1>18 DEF OpenWaiting, Toggle
  <2>2. WorldTyped
    BY <1>7, <1>18 DEF OpenWaiting, Toggle, Listed, history, counters
  <2> QED
    BY <1>2, <2>1, <2>2
<1>19. ASSUME UploadAccounts \/ DeleteAccount \/ ClearAccounts PROVE TypeInv'
  <2>1. StoreTyped
    BY <1>1, <1>4, <1>19, StockType DEF UploadAccounts, DeleteAccount, ClearAccounts
  <2>2. OpTyped
    BY <1>5, <1>19 DEF UploadAccounts, DeleteAccount, ClearAccounts
  <2>3. WorldTyped
    BY <1>7, <1>19 DEF UploadAccounts, DeleteAccount, ClearAccounts, history, counters
  <2> QED
    BY <1>2, <2>1, <2>2, <2>3
<1>20. ASSUME Restart PROVE TypeInv'
  <2>1. StoreTyped
    BY <1>1, <1>20, DefaultStoreType DEF Restart, StoreTyped
  <2>2. OpTyped
    BY <1>9, <1>20 DEF Restart
  <2>3. timers' \in [Orders -> Nat] /\ troubles' \in [Orders -> Nat]
    BY <1>7, <1>20 DEF Restart
  <2>4. writable' \in BOOLEAN
    BY <1>20 DEF Restart
  <2>5. enabled' \in BOOLEAN /\ received' \in [Orders -> SUBSET Accounts] /\ sends' \in [Orders -> Nat]
    BY <1>7, <1>20 DEF Restart
  <2>6. offered' \subseteq Orders /\ {events', retries', restarts', failures'} \subseteq Nat
    BY <1>7, <1>20 DEF Restart
  <2>7. WorldTyped
    BY <2>3, <2>4, <2>5, <2>6
  <2> QED
    BY <1>2, <2>1, <2>2, <2>7
<1>21. CASE UNCHANGED vars
  BY <1>21 DEF vars, TypeInv, TypeOK, Free, At
<1> QED
  BY <1>11, <1>12, <1>13, <1>14, <1>15, <1>16, <1>17, <1>18, <1>19, <1>20, <1>21 DEF Next, HandlerStep

(* The types hold at the start. *)
LEMMA TypeInit == Init => TypeInv
<1> SUFFICES ASSUME Init PROVE TypeInv
  OBVIOUS
<1>1. mem \in Stores /\ disk \in Stores
  BY DefaultStoreType DEF Init
<1>2. op \in Operations /\ op.pc = "idle"
  BY DEF Init, Idle, Operations, Steps
<1> QED
  BY <1>1, <1>2 DEF Init, TypeInv, TypeOK, Free, At

(* The variables keep their types for any orders, accounts and bounds. *)
THEOREM TypeCorrectness == Spec => []TypeOK
<1>1. TypeInv => TypeOK
  BY DEF TypeInv
<1> QED
  BY <1>1, TypeInit, TypeNext, PTL DEF Spec

-----------------------------------------------------------------------------
(* The ledger. *)

(* Where a store says each account is: Holder, for any store. *)
Places(s) ==
  [a \in Accounts |->
     IF a \in ToSet(s.stock) THEN Shelf
     ELSE IF \E o \in Orders : a \in AccountsOf(s, o)
     THEN CHOOSE o \in Orders : a \in AccountsOf(s, o)
     ELSE Out]

Moved(h, S, place) == [a \in Accounts |-> IF a \in S THEN place ELSE h[a]]

AtPlace(h, place) == {a \in Accounts : h[a] = place}

(* The arrows of the ledger, between two values of the holder. *)
Arrow(h, k) ==
  \/ k = h
  \/ \E S \in SUBSET AtPlace(h, Out) : k = Moved(h, S, Shelf)
  \/ \E S \in SUBSET AtPlace(h, Shelf) : k = Moved(h, S, Out)
  \/ \E o \in Orders, S \in SUBSET AtPlace(h, Shelf) : AtPlace(h, o) = {} /\ k = Moved(h, S, o)
  \/ \E o \in Orders : k = Moved(h, AtPlace(h, o), Shelf) \/ k = Moved(h, AtPlace(h, o), Out)

(* What a write must do. *)
Follows(s, t) == Exclusive(t) /\ EmptyHanded(t) /\ Arrow(Places(s), Places(t))

(* A step between two files is a step of the ledger when it is an arrow. *)
LEMMA ArrowIsLedgerStep ==
  ASSUME Arrow(Places(disk), Places(disk'))
  PROVE  [Ledger!Next]_Holder
<1> DEFINE h == Holder  k == Holder'
<1>1. h = Places(disk) /\ k = Places(disk')
  BY DEF Holder, Places
<1>2. \A S, place : Ledger!Move(S, place) <=> k = Moved(h, S, place)
  BY DEF Ledger!Move, Moved
<1>3. \A o : Ledger!Held(o) = AtPlace(h, o)
  BY DEF Ledger!Held, AtPlace
<1>4. Arrow(h, k)
  BY <1>1
<1>5. CASE k = h
  BY <1>5
<1>6. CASE \E S \in SUBSET AtPlace(h, Out) : k = Moved(h, S, Shelf)
  BY <1>2, <1>6 DEF Ledger!Next, Ledger!Stock, AtPlace
<1>7. CASE \E S \in SUBSET AtPlace(h, Shelf) : k = Moved(h, S, Out)
  BY <1>2, <1>7 DEF Ledger!Next, Ledger!Withdraw, AtPlace
<1>8. CASE \E o \in Orders, S \in SUBSET AtPlace(h, Shelf) : AtPlace(h, o) = {} /\ k = Moved(h, S, o)
  BY <1>2, <1>3, <1>8 DEF Ledger!Next, Ledger!Reserve, AtPlace
<1>9. CASE \E o \in Orders : k = Moved(h, AtPlace(h, o), Shelf) \/ k = Moved(h, AtPlace(h, o), Out)
  BY <1>2, <1>3, <1>9 DEF Ledger!Next, Ledger!Release, Ledger!Close
<1> QED
  BY <1>4, <1>5, <1>6, <1>7, <1>8, <1>9 DEF Arrow

(* What an order holds are accounts. *)
LEMMA AccountsOfType ==
  ASSUME NEW s \in Stores, NEW o \in Orders
  PROVE  AccountsOf(s, o) \subseteq Accounts /\ ToSet(s.stock) \subseteq Accounts
<1>1. s.stock \in Seq(Accounts) /\ s.orders[o].reserved \in Seq(Accounts)
  BY DEF Stores, OrderRecords
<1> QED
  BY <1>1, ToSetSeq DEF AccountsOf

(* The place of an account is the one that has it. *)
LEMMA PlaceOf ==
  ASSUME NEW s \in Stores, Exclusive(s)
  PROVE  /\ \A a \in Accounts : a \in ToSet(s.stock) <=> Places(s)[a] = Shelf
         /\ \A a \in Accounts, o \in Orders : a \in AccountsOf(s, o) <=> Places(s)[a] = o
         /\ \A a \in Accounts : Places(s)[a] \in Orders \cup {Shelf, Out}
<1> SUFFICES ASSUME NEW a \in Accounts
             PROVE  /\ a \in ToSet(s.stock) <=> Places(s)[a] = Shelf
                    /\ \A o \in Orders : a \in AccountsOf(s, o) <=> Places(s)[a] = o
                    /\ Places(s)[a] \in Orders \cup {Shelf, Out}
  OBVIOUS
<1>1. \A o \in Orders : a \in AccountsOf(s, o) => a \notin ToSet(s.stock)
  BY DEF Exclusive
<1>2. \A o1, o2 \in Orders : a \in AccountsOf(s, o1) /\ a \in AccountsOf(s, o2) => o1 = o2
  BY DEF Exclusive
<1>3. CASE a \in ToSet(s.stock)
  BY <1>1, <1>3, GptAssumption DEF Places
<1>4. CASE a \notin ToSet(s.stock) /\ \E o \in Orders : a \in AccountsOf(s, o)
  <2> DEFINE owner == CHOOSE o \in Orders : a \in AccountsOf(s, o)
  <2>1. Places(s)[a] = owner
    BY <1>4 DEF Places
  <2>2. owner \in Orders /\ a \in AccountsOf(s, owner)
    BY <1>4
  <2> HIDE DEF owner
  <2> QED
    BY <1>2, <1>4, <2>1, <2>2, GptAssumption
<1>5. CASE a \notin ToSet(s.stock) /\ ~\E o \in Orders : a \in AccountsOf(s, o)
  BY <1>5, GptAssumption DEF Places
<1> QED
  BY <1>3, <1>4, <1>5

(* The same stock and the same holdings are the same places. *)
LEMMA SamePlaces ==
  ASSUME NEW s, NEW t, ToSet(t.stock) = ToSet(s.stock),
         \A o \in Orders : AccountsOf(t, o) = AccountsOf(s, o)
  PROVE  Places(t) = Places(s)
<1>1. \A a \in Accounts : (CHOOSE o \in Orders : a \in AccountsOf(t, o)) = (CHOOSE o \in Orders : a \in AccountsOf(s, o))
  OBVIOUS
<1> QED
  BY <1>1 DEF Places

(* Accounts that go from where they are to one place. *)
LEMMA PlacesMoved ==
  ASSUME NEW s \in Stores, NEW t \in Stores, Exclusive(s), Exclusive(t),
         NEW S \in SUBSET Accounts, NEW place \in Orders \cup {Shelf, Out},
         place = Shelf => S \subseteq ToSet(t.stock),
         place \in Orders => S \subseteq AccountsOf(t, place),
         place = Out => S \cap ToSet(t.stock) = {} /\ \A o \in Orders : S \cap AccountsOf(t, o) = {},
         \A a \in Accounts \ S : /\ a \in ToSet(t.stock) <=> a \in ToSet(s.stock)
                              /\ \A o \in Orders : a \in AccountsOf(t, o) <=> a \in AccountsOf(s, o)
  PROVE  Places(t) = Moved(Places(s), S, place)
<1> DEFINE h == Places(s)  k == Places(t)
<1>1. /\ \A a \in Accounts : a \in ToSet(s.stock) <=> h[a] = Shelf
      /\ \A a \in Accounts, o \in Orders : a \in AccountsOf(s, o) <=> h[a] = o
      /\ \A a \in Accounts : h[a] \in Orders \cup {Shelf, Out}
  BY PlaceOf
<1>2. /\ \A a \in Accounts : a \in ToSet(t.stock) <=> k[a] = Shelf
      /\ \A a \in Accounts, o \in Orders : a \in AccountsOf(t, o) <=> k[a] = o
      /\ \A a \in Accounts : k[a] \in Orders \cup {Shelf, Out}
  BY PlaceOf
<1>3. k = [a \in Accounts |-> k[a]]
  BY DEF Places
<1> HIDE DEF h, k
<1>4. \A a \in S : k[a] = place
  <2> TAKE a \in S
  <2> QED
    BY <1>2, GptAssumption
<1>5. \A a \in Accounts \ S : k[a] = h[a]
  <2> TAKE a \in Accounts \ S
  <2> QED
    BY <1>1, <1>2, GptAssumption
<1>6. k = [a \in Accounts |-> IF a \in S THEN place ELSE h[a]]
  BY <1>3, <1>4, <1>5
<1> QED
  BY <1>6 DEF Moved, h, k

(* A write that changes neither stock nor reservations, and puts an order at *)
(* most under a status that holds them.                                     *)
LEMMA FollowsQuietly ==
  ASSUME NEW s \in Stores, NEW t \in Stores, Exclusive(s), EmptyHanded(s), t.stock = s.stock,
         \A o \in Orders : /\ t.orders[o].reserved = s.orders[o].reserved
                           /\ StatusOf(t, o) \in HeldStatuses \/ StatusOf(t, o) = StatusOf(s, o)
  PROVE  Follows(s, t)
<1>1. \A o \in Orders : AccountsOf(t, o) = AccountsOf(s, o)
  BY DEF AccountsOf
<1>2. Places(t) = Places(s)
  BY <1>1, SamePlaces
<1>3. Exclusive(t)
  BY <1>1 DEF Exclusive
<1> QED
  BY <1>2, <1>3 DEF Follows, Arrow, EmptyHanded

(* reserve moves the front of the stock to an order that held nothing. *)
LEMMA FollowsReserve ==
  ASSUME NEW s \in Stores, NEW o \in Orders, NEW amount \in Nat \ {0}, NEW allOrNothing \in BOOLEAN,
         EmptyHanded(s), Exclusive(s)
  PROVE  Follows(s, Reserve(s, o, amount, allOrNothing))
<1>1. CASE StatusOf(s, o) \in HeldStatuses
  <2>1. Reserve(s, o, amount, allOrNothing) = s
    BY <1>1, ReserveType
  <2> QED
    BY <2>1, FollowsQuietly
<1>2. CASE StatusOf(s, o) \notin HeldStatuses
  <2>0. PICK k \in 0..Len(s.stock) : \E t \in Stores : Reserves(s, o, amount, allOrNothing, k, t)
    BY <1>2, ReserveEffect
  <2>1. PICK t \in Stores :
           /\ t = Reserve(s, o, amount, allOrNothing)
           /\ t.stock = SubSeq(s.stock, k + 1, Len(s.stock))
           /\ t.orders[o].reserved = SubSeq(s.stock, 1, k)
           /\ StatusOf(t, o) = IF k > 0 THEN "reserved" ELSE "waiting_stock"
           /\ \A p \in Orders \ {o} : t.orders[p] = s.orders[p]
    BY <2>0 DEF Reserves
  <2>2. s.stock \in Seq(Accounts) /\ Len(s.stock) \in Nat /\ IsInjective(s.stock)
    BY LenProperties DEF Stores, Exclusive
  <2> DEFINE S == ToSet(SubSeq(s.stock, 1, k))
             rest == ToSet(SubSeq(s.stock, k + 1, Len(s.stock)))
  <2>3. /\ IsInjective(t.stock) /\ IsInjective(t.orders[o].reserved)
        /\ S \cup rest = ToSet(s.stock) /\ S \cap rest = {}
    BY <2>1, <2>2, SplitInjective
  <2>4. ToSet(t.stock) = rest /\ AccountsOf(t, o) = S
    BY <2>1 DEF AccountsOf
  <2>5. \A p \in Orders \ {o} : AccountsOf(t, p) = AccountsOf(s, p) /\ StatusOf(t, p) = StatusOf(s, p)
    BY <2>1 DEF AccountsOf, StatusOf
  <2>6. AccountsOf(s, o) = {}
    BY <1>2, EmptyToSet DEF EmptyHanded, AccountsOf
  <2>7. S \in SUBSET Accounts
    BY <2>4, AccountsOfType
  <2> HIDE DEF S, rest
  <2>8. Exclusive(t)
    <3>1. \A p \in Orders : IsInjective(t.orders[p].reserved)
      BY <2>1, <2>3 DEF Exclusive
    <3>2. \A p \in Orders : AccountsOf(t, p) \cap ToSet(t.stock) = {}
      BY <2>3, <2>4, <2>5 DEF Exclusive
    <3>3. \A p, q \in Orders : p # q => AccountsOf(t, p) \cap AccountsOf(t, q) = {}
      BY <2>3, <2>4, <2>5 DEF Exclusive
    <3> QED
      BY <2>3, <3>1, <3>2, <3>3 DEF Exclusive
  <2>9. EmptyHanded(t)
    <3>1. k = 0 => t.orders[o].reserved = <<>>
      <4>1. SubSeq(s.stock, 1, 0) = <<>>
        BY <2>2, SubSeqProperties, EmptySeq
      <4> QED
        BY <2>1, <4>1
    <3>2. k # 0 => StatusOf(t, o) \in HeldStatuses
      BY <2>1 DEF HeldStatuses
    <3> QED
      BY <2>1, <2>5, <3>1, <3>2 DEF EmptyHanded
  <2>10. Places(t) = Moved(Places(s), S, o)
    <3>1. o # Shelf /\ o # Out
      BY GptAssumption
    <3>2. \A a \in Accounts \ S : /\ a \in ToSet(t.stock) <=> a \in ToSet(s.stock)
                                  /\ \A p \in Orders : a \in AccountsOf(t, p) <=> a \in AccountsOf(s, p)
      BY <2>3, <2>4, <2>5, <2>6
    <3> QED
      BY <2>4, <2>7, <2>8, <3>1, <3>2, PlacesMoved
  <2>11. S \in SUBSET AtPlace(Places(s), Shelf) /\ AtPlace(Places(s), o) = {}
    BY <2>3, <2>6, <2>7, PlaceOf DEF AtPlace
  <2>12. Arrow(Places(s), Places(t))
    BY <2>10, <2>11 DEF Arrow
  <2> QED
    BY <2>1, <2>8, <2>9, <2>12 DEF Follows
<1> QED
  BY <1>1, <1>2

(* New accounts come from outside. *)
LEMMA FollowsAddAccounts ==
  ASSUME NEW s \in Stores, NEW accounts \in SUBSET Accounts, NEW batch \in NewAccounts(s, accounts),
         EmptyHanded(s), Exclusive(s)
  PROVE  Follows(s, AddAccounts(s, batch))
<1> DEFINE t == AddAccounts(s, batch)
           S == ToSet(batch)
<1>1. /\ batch \in Seq(Accounts) /\ IsInjective(batch) /\ S \cap ActiveEmails(s) = {}
      /\ t \in Stores /\ t.stock = s.stock \o batch /\ t.orders = s.orders
  BY StockType
<1> HIDE DEF t
<1>2. s.stock \in Seq(Accounts) /\ IsInjective(s.stock)
  BY DEF Stores, Exclusive
<1>3. S \cap ToSet(s.stock) = {} /\ \A p \in Orders : S \cap AccountsOf(s, p) = {}
  BY <1>1 DEF ActiveEmails
<1>4. ToSet(t.stock) = ToSet(s.stock) \cup S /\ IsInjective(t.stock)
  BY <1>1, <1>2, <1>3, JoinInjective
<1>5. \A p \in Orders : AccountsOf(t, p) = AccountsOf(s, p)
  BY <1>1 DEF AccountsOf
<1>6. S \in SUBSET Accounts
  BY <1>1, ToSetSeq
<1> HIDE DEF S
<1>7. Exclusive(t)
  BY <1>1, <1>3, <1>4, <1>5 DEF Exclusive
<1>8. Places(t) = Moved(Places(s), S, Shelf)
  <2>1. S \subseteq ToSet(t.stock) /\ Shelf \notin Orders /\ Shelf # Out
    BY <1>4, GptAssumption
  <2>2. \A a \in Accounts \ S : /\ a \in ToSet(t.stock) <=> a \in ToSet(s.stock)
                                /\ \A p \in Orders : a \in AccountsOf(t, p) <=> a \in AccountsOf(s, p)
    BY <1>4, <1>5
  <2>3. /\ Shelf = Shelf => S \subseteq ToSet(t.stock)
        /\ Shelf \in Orders => S \subseteq AccountsOf(t, Shelf)
        /\ Shelf = Out => S \cap ToSet(t.stock) = {} /\ \A p \in Orders : S \cap AccountsOf(t, p) = {}
        /\ Shelf \in Orders \cup {Shelf, Out}
    BY <2>1
  <2>4. t \in Stores
    BY <1>1
  <2> QED
    BY <1>6, <1>7, <2>2, <2>3, <2>4, PlacesMoved
<1>9. S \in SUBSET AtPlace(Places(s), Out)
  BY <1>3, <1>6, PlaceOf DEF AtPlace
<1>10. EmptyHanded(t)
  BY <1>1 DEF EmptyHanded, StatusOf
<1>11. Arrow(Places(s), Places(t))
  BY <1>8, <1>9 DEF Arrow
<1> QED
  BY <1>7, <1>10, <1>11 DEF Follows, t

(* Accounts that leave the stock leave the plugin. *)
LEMMA FollowsStockShrunk ==
  ASSUME NEW s \in Stores, NEW t \in Stores, EmptyHanded(s), Exclusive(s),
         t.orders = s.orders, IsInjective(t.stock), ToSet(t.stock) \subseteq ToSet(s.stock)
  PROVE  Follows(s, t)
<1> DEFINE S == ToSet(s.stock) \ ToSet(t.stock)
<1>1. \A p \in Orders : AccountsOf(t, p) = AccountsOf(s, p) /\ S \cap AccountsOf(s, p) = {}
  BY DEF AccountsOf, Exclusive
<1>2. S \in SUBSET Accounts
  <2>1. s.stock \in Seq(Accounts)
    BY DEF Stores
  <2> QED
    BY <2>1, ToSetSeq
<1>3. S \subseteq ToSet(s.stock) /\ S \cap ToSet(t.stock) = {}
  OBVIOUS
<1>4. \A a \in Accounts \ S : a \in ToSet(t.stock) <=> a \in ToSet(s.stock)
  OBVIOUS
<1>5. Exclusive(t)
  BY <1>1 DEF Exclusive
<1> HIDE DEF S
<1>6. Places(t) = Moved(Places(s), S, Out)
  <2>1. Out \notin Orders /\ Shelf # Out
    BY GptAssumption
  <2> QED
    BY <1>1, <1>2, <1>3, <1>4, <1>5, <2>1, PlacesMoved
<1>7. S \in SUBSET AtPlace(Places(s), Shelf)
  BY <1>2, <1>3, PlaceOf DEF AtPlace
<1>8. Arrow(Places(s), Places(t))
  BY <1>6, <1>7 DEF Arrow
<1> QED
  BY <1>5, <1>8 DEF Follows, EmptyHanded, StatusOf

-----------------------------------------------------------------------------
(* What each step does to memory and file. *)

(* Both stores are sound and agree. *)
SoundInv ==
  /\ Agreement
  /\ Exclusive(mem) /\ EmptyHanded(mem)
  /\ Exclusive(disk) /\ EmptyHanded(disk)

(* The stores change as a write of the order's record may change them. *)
Written ==
  /\ writable /\ writable' = writable
  /\ mem' = disk'
  /\ Follows(mem, mem')

(* The records of all orders but one stay. *)
OthersKept(o) == \A p \in Orders \ {o} : mem'.orders[p] = mem.orders[p]

(* The administrators leave the orders alone. *)
LEMMA StockStep ==
  ASSUME TypeInv, SoundInv, UploadAccounts \/ DeleteAccount \/ ClearAccounts
  PROVE  Written /\ mem'.orders = mem.orders
<1>1. mem \in Stores /\ Exclusive(mem) /\ EmptyHanded(mem)
  BY DEF TypeInv, TypeOK, SoundInv
<1>2. mem.stock \in Seq(Accounts) /\ IsInjective(mem.stock)
  BY <1>1 DEF Stores, Exclusive
<1>3. CASE UploadAccounts
  <2>1. writable' = writable
    BY <1>3 DEF UploadAccounts
  <2>2. PICK accounts \in SUBSET Accounts : \E batch \in NewAccounts(mem, accounts) : Commit(AddAccounts(mem, batch))
    BY <1>3 DEF UploadAccounts
  <2>3. PICK batch \in NewAccounts(mem, accounts) : Commit(AddAccounts(mem, batch))
    BY <2>2
  <2>4. AddAccounts(mem, batch).orders = mem.orders
    BY <1>1, StockType
  <2>5. Follows(mem, AddAccounts(mem, batch))
    BY <1>1, FollowsAddAccounts
  <2> QED
    BY <2>1, <2>3, <2>4, <2>5 DEF Commit, Written
<1>4. CASE DeleteAccount
  <2>1. PICK account \in Accounts : Commit(RemoveStockAccount(mem, account)) /\ writable' = writable
    BY <1>4 DEF DeleteAccount
  <2> DEFINE t == RemoveStockAccount(mem, account)
  <2>2. t \in Stores /\ t.stock = RemoveFirst(mem.stock, account) /\ t.orders = mem.orders
    BY <1>1, StockType
  <2>3. IsInjective(t.stock) /\ ToSet(t.stock) \subseteq ToSet(mem.stock)
    BY <1>2, <2>2, RemoveFirstInjective
  <2> HIDE DEF t
  <2>4. Follows(mem, t)
    BY <1>1, <2>2, <2>3, FollowsStockShrunk
  <2>5. Commit(t)
    BY <2>1 DEF t
  <2> QED
    BY <2>1, <2>2, <2>4, <2>5 DEF Commit, Written
<1>5. CASE ClearAccounts
  <2> DEFINE t == ClearStock(mem)
  <2>1. t \in Stores /\ t.stock = <<>> /\ t.orders = mem.orders
    BY <1>1, StockType
  <2>2. IsInjective(t.stock) /\ ToSet(t.stock) \subseteq ToSet(mem.stock)
    BY <2>1, EmptyToSet
  <2> HIDE DEF t
  <2>3. Follows(mem, t)
    BY <1>1, <2>1, <2>2, FollowsStockShrunk
  <2>4. Commit(t) /\ writable' = writable
    BY <1>5 DEF t, ClearAccounts
  <2> QED
    BY <2>1, <2>3, <2>4 DEF Commit, Written
<1> QED
  BY <1>3, <1>4, <1>5

(* reserve leaves an order that holds accounts; any other is reserved, or  *)
(* waits, afterwards.                                                      *)
LEMMA DeliverStep ==
  ASSUME TypeInv, SoundInv, Deliver
  PROVE  /\ op.order \in Orders
         /\ Written /\ OthersKept(op.order)
         /\ StatusOf(mem, op.order) \in HeldStatuses => mem' = mem
         /\ StatusOf(mem, op.order) \notin HeldStatuses
              => StatusOf(mem', op.order) \in {"reserved", "waiting_stock"}
         /\ mem' = Reserve(mem, op.order, op.amount, op.allOrNothing)
<1> DEFINE o == op.order
           t == Reserve(mem, o, op.amount, op.allOrNothing)
<1>1. /\ mem \in Stores /\ Exclusive(mem) /\ EmptyHanded(mem)
      /\ o \in Orders /\ op.amount \in Nat \ {0} /\ op.allOrNothing \in BOOLEAN
  BY DEF TypeInv, TypeOK, SoundInv, Deliver, At, Free, Operations
<1>2. Commit(t) /\ writable' = writable
  BY DEF Deliver
<1>3. Follows(mem, t)
  BY <1>1, FollowsReserve
<1>4. Written /\ mem' = t
  BY <1>2, <1>3 DEF Commit, Written
<1>5. CASE StatusOf(mem, o) \in HeldStatuses
  BY <1>1, <1>4, <1>5, ReserveType DEF OthersKept
<1>6. CASE StatusOf(mem, o) \notin HeldStatuses
  <2>1. PICK k \in 0..Len(mem.stock) : \E r \in Stores : Reserves(mem, o, op.amount, op.allOrNothing, k, r)
    BY <1>1, <1>6, ReserveEffect
  <2>2. /\ StatusOf(t, o) \in {"reserved", "waiting_stock"}
        /\ \A p \in Orders \ {o} : t.orders[p] = mem.orders[p]
    BY <2>1 DEF Reserves
  <2> QED
    BY <1>1, <1>4, <1>6, <2>2 DEF OthersKept
<1> QED
  BY <1>1, <1>4, <1>5, <1>6

(* notify_shortage_once changes the mark at most, and has it set. *)
LEMMA ShortageStep ==
  ASSUME TypeInv, SoundInv, NotifyShortageOnce
  PROVE  /\ op.order \in Orders
         /\ (UNCHANGED <<mem, disk, writable>>) \/ Written
         /\ mem'.orders[op.order].notified
         /\ \A p \in Orders : /\ StatusOf(mem', p) = StatusOf(mem, p)
                              /\ mem'.orders[p].reserved = mem.orders[p].reserved
                              /\ mem'.orders[p].requested = mem.orders[p].requested
                              /\ mem.orders[p].notified => mem'.orders[p].notified
<1> DEFINE o == op.order
           t == MarkShortageNotified(mem, o)
<1>1. mem \in Stores /\ Exclusive(mem) /\ EmptyHanded(mem) /\ o \in Orders
  BY DEF TypeInv, TypeOK, SoundInv, NotifyShortageOnce, At, Free
<1>2. CASE mem.orders[o].notified
  <2>1. UNCHANGED <<mem, disk, writable>>
    BY <1>2 DEF NotifyShortageOnce, Record, store
  <2> QED
    BY <1>1, <1>2, <2>1
<1>3. CASE ~mem.orders[o].notified
  <2>1. Commit(t) /\ writable' = writable
    BY <1>3 DEF NotifyShortageOnce, Record
  <2>2. /\ t \in Stores /\ t.stock = mem.stock
        /\ \A p \in Orders :
             /\ StatusOf(t, p) = StatusOf(mem, p)
             /\ t.orders[p].reserved = mem.orders[p].reserved
             /\ t.orders[p].requested = mem.orders[p].requested
             /\ t.orders[p].notified = IF p = o THEN TRUE ELSE mem.orders[p].notified
    BY <1>1, MarkType
  <2> HIDE DEF t
  <2>3. Follows(mem, t)
    BY <1>1, <2>2, FollowsQuietly
  <2>4. mem' = t /\ Written
    BY <2>1, <2>3 DEF Commit, Written
  <2> QED
    BY <1>1, <2>2, <2>4
<1> QED
  BY <1>2, <1>3

(* The outcome of a send changes the order's status only. *)
LEMMA OutcomeStep ==
  ASSUME TypeInv, SoundInv, MarkCompleted \/ MarkSendFailed
  PROVE  /\ op.order \in Orders
         /\ Written
         /\ StatusOf(mem', op.order) \in {"completed", "send_failed"}
         /\ \A p \in Orders : /\ p # op.order => StatusOf(mem', p) = StatusOf(mem, p)
                              /\ mem'.orders[p].reserved = mem.orders[p].reserved
                              /\ mem'.orders[p].requested = mem.orders[p].requested
                              /\ mem'.orders[p].notified = mem.orders[p].notified
<1> DEFINE o == op.order
<1>1. mem \in Stores /\ Exclusive(mem) /\ EmptyHanded(mem) /\ o \in Orders
  BY DEF TypeInv, TypeOK, SoundInv, MarkCompleted, MarkSendFailed, At, Free
<1>2. PICK status \in {"completed", "send_failed"} : Commit(SetStatus(mem, o, status)) /\ writable' = writable
  BY DEF MarkCompleted, MarkSendFailed
<1> DEFINE t == SetStatus(mem, o, status)
<1>3. status \in Statuses /\ status \in HeldStatuses
  BY DEF Statuses, HeldStatuses
<1>4. /\ t \in Stores /\ t.stock = mem.stock
      /\ \A p \in Orders :
           /\ StatusOf(t, p) = IF p = o THEN status ELSE StatusOf(mem, p)
           /\ t.orders[p].reserved = mem.orders[p].reserved
           /\ t.orders[p].requested = mem.orders[p].requested
           /\ t.orders[p].notified = mem.orders[p].notified
  <2>1. t \in Stores /\ t.stock = mem.stock
    BY <1>1, <1>3, SetStatusType
  <2> QED
    BY <1>1, <1>3, <2>1, SetStatusEffect
<1>5. Commit(t) /\ writable' = writable
  BY <1>2
<1> HIDE DEF t
<1>6. Follows(mem, t)
  BY <1>1, <1>3, <1>4, FollowsQuietly
<1>7. mem' = t /\ Written
  BY <1>5, <1>6 DEF Commit, Written
<1> QED
  BY <1>1, <1>4, <1>7

-----------------------------------------------------------------------------
(* The stores stay sound, and the file moves along the ledger's arrows. *)

(* One step, in memory and in the file. *)
LEMMA SoundStep == TypeInv /\ SoundInv /\ [Next]_vars => SoundInv' /\ [Ledger!Next]_Holder
<1> DEFINE Good == SoundInv' /\ Arrow(Places(disk), Places(disk'))
<1> SUFFICES ASSUME TypeInv, SoundInv, [Next]_vars PROVE Good
  BY ArrowIsLedgerStep
<1>1. Written => Good
  BY DEF Written, SoundInv, Agreement, Follows
<1>2. UNCHANGED <<mem, disk, writable>> => Good
  <2> SUFFICES ASSUME UNCHANGED <<mem, disk, writable>> PROVE Good
    OBVIOUS
  <2>1. Places(disk') = Places(disk)
    OBVIOUS
  <2> QED
    BY <2>1 DEF SoundInv, Agreement, Arrow
<1> HIDE DEF Good
<1>3. ASSUME NEW o \in Orders, NewOrderEvent(o) \/ TimerFires(o) \/ RetryOrder(o) PROVE Good
  BY <1>2, <1>3 DEF NewOrderEvent, TimerFires, RetryOrder, store
<1>4. CASE SendReserved \/ Raise \/ RaiseUnavailable \/ OpenWaiting \/ Toggle
  BY <1>2, <1>4 DEF SendReserved, Raise, RaiseUnavailable, OpenWaiting, Toggle, store
<1>5. CASE Deliver
  BY <1>1, <1>5, DeliverStep
<1>6. CASE NotifyShortageOnce
  BY <1>1, <1>2, <1>6, ShortageStep
<1>7. CASE MarkCompleted \/ MarkSendFailed
  BY <1>1, <1>7, OutcomeStep
<1>8. CASE UploadAccounts \/ DeleteAccount \/ ClearAccounts
  BY <1>1, <1>8, StockStep
<1>9. CASE Restart
  <2>1. disk' = disk /\ Exclusive(disk) /\ EmptyHanded(disk)
    BY <1>9 DEF Restart, SoundInv
  <2>2. \/ mem' = disk /\ writable' = TRUE
        \/ mem' = DefaultStore /\ writable' = FALSE
    BY <1>9 DEF Restart
  <2>3. Exclusive(mem') /\ EmptyHanded(mem') /\ Agreement'
    BY <2>1, <2>2, DefaultStoreSound DEF Agreement
  <2> QED
    BY <2>1, <2>3 DEF Good, SoundInv, Arrow
<1>10. CASE UNCHANGED vars
  BY <1>2, <1>10 DEF vars
<1> QED
  BY <1>3, <1>4, <1>5, <1>6, <1>7, <1>8, <1>9, <1>10 DEF Next, HandlerStep

(* At the start nothing is kept. *)
LEMMA SoundInit == Init => SoundInv /\ Ledger!Init
<1> SUFFICES ASSUME Init PROVE SoundInv /\ Ledger!Init
  OBVIOUS
<1>1. SoundInv
  BY DefaultStoreSound DEF Init, SoundInv, Agreement
<1>2. ToSet(disk.stock) = {} /\ \A o \in Orders : AccountsOf(disk, o) = {}
  BY DefaultStoreType, EmptyToSet DEF Init, AccountsOf
<1> QED
  BY <1>1, <1>2 DEF Ledger!Init, Holder

(* Memory and file agree and neither lists an account twice. *)
LEMMA Soundness == Spec => [](TypeInv /\ SoundInv)
  BY TypeInit, TypeNext, SoundInit, SoundStep, PTL DEF Spec

(* The file implements the ledger: an account is outside, in the stock or   *)
(* on record for one order, and moves along the ledger's arrows only.       *)
THEOREM LedgerImplemented == Spec => ImplementsLedger
<1> QED
  BY TypeInit, TypeNext, SoundInit, SoundStep, PTL DEF Spec, ImplementsLedger, Ledger!Spec

-----------------------------------------------------------------------------
(* What the buyers get. *)

(* An order whose accounts may be sent: it holds them, and its buyer was   *)
(* warned when they are too few.                                           *)
Ready(s, o) == StatusOf(s, o) \in HeldStatuses /\ (Shortage(s, o) => s.orders[o].notified)

(* What the handler knows of its order when it comes to each step. *)
Position ==
  /\ op.pc = "shortage" => StatusOf(mem, op.order) \in HeldStatuses \cup {"waiting_stock"}
  /\ op.pc \in {"send", "complete", "fail"} => Ready(mem, op.order)

(* An order that was sent, or tried to be, stays ready; what the buyer has *)
(* got is still on record.                                                 *)
Sent(o) ==
  /\ received[o] \subseteq AccountsOf(disk, o)
  /\ sends[o] > 0 => Ready(disk, o)
  /\ StatusOf(disk, o) \in {"completed", "send_failed"} => Ready(disk, o)

DeliveryInv == Position /\ \A o \in Orders : Sent(o)

(* Readiness looks at four parts of a record. *)
LEMMA ReadyKept ==
  ASSUME NEW s, NEW t, NEW o,
         StatusOf(t, o) = StatusOf(s, o) \/ StatusOf(t, o) \in HeldStatuses,
         t.orders[o].reserved = s.orders[o].reserved,
         t.orders[o].requested = s.orders[o].requested,
         s.orders[o].notified => t.orders[o].notified
  PROVE  Ready(s, o) => Ready(t, o)
BY DEF Ready, Shortage

(* The orders of a storage that was not loaded have no status. *)
LEMMA NotWritable ==
  ASSUME TypeInv, SoundInv, ~writable, NEW o \in Orders
  PROVE  StatusOf(mem, o) = "absent" /\ ~Ready(mem, o)
<1>1. StatusOf(mem, o) = "absent"
  BY DefaultStoreType DEF SoundInv, Agreement, StatusOf
<1> QED
  BY <1>1 DEF Ready, HeldStatuses

(* A handler that sends writes to the file it reads. *)
LEMMA SendersWrite ==
  ASSUME TypeInv, SoundInv, Position, op.pc \in {"shortage", "send", "complete", "fail"}
  PROVE  op.order \in Orders /\ writable /\ mem = disk
<1>1. op.order \in Orders
  BY DEF TypeInv, Free, At
<1>2. writable
  <2>1. SUFFICES ASSUME ~writable PROVE FALSE
    BY DEF TypeInv, TypeOK
  <2>2. StatusOf(mem, op.order) = "absent" /\ ~Ready(mem, op.order)
    BY <1>1, <2>1, NotWritable
  <2> QED
    BY <2>2 DEF Position, HeldStatuses
<1> QED
  BY <1>1, <1>2 DEF SoundInv, Agreement

(* One step, for the handler's order and for all the others. *)
LEMMA DeliveryStep == TypeInv /\ SoundInv /\ DeliveryInv /\ [Next]_vars => DeliveryInv'
<1> DEFINE SentAll == \A o \in Orders : Sent(o)
<1> SUFFICES ASSUME TypeInv, SoundInv, Position, SentAll, [Next]_vars PROVE Position' /\ SentAll'
  BY DEF DeliveryInv
<1>1. /\ op \in Operations /\ mem \in Stores /\ disk \in Stores
      /\ op.pc # "idle" => op.order \in Orders
      /\ writable => mem = disk
      /\ sends \in [Orders -> Nat] /\ received \in [Orders -> SUBSET Accounts]
  BY DEF TypeInv, TypeOK, Free, At, SoundInv, Agreement
<1>2. ASSUME UNCHANGED <<mem, op>> PROVE Position'
  BY <1>2 DEF Position, Ready, StatusOf, Shortage
<1>3. op'.pc \in {"idle", "deliver"} => Position'
  BY DEF Position
<1>4. ASSUME UNCHANGED <<disk, received, sends>> PROVE SentAll'
  BY <1>4 DEF Sent, Ready, StatusOf, Shortage, AccountsOf
<1>5. Return => op'.pc = "idle"
  BY <1>1, OpType
<1> HIDE DEF SentAll
<1>6. ASSUME NEW o \in Orders, NewOrderEvent(o) \/ TimerFires(o) PROVE Position' /\ SentAll'
  <2>1. UNCHANGED <<mem, disk, received, sends>>
    BY <1>6 DEF NewOrderEvent, TimerFires, store, history
  <2>2. op' = op \/ op'.pc = "deliver"
    BY <1>1, <1>6, HandleNewOrderType DEF NewOrderEvent, TimerFires
  <2> QED
    BY <1>2, <1>3, <1>4, <2>1, <2>2
<1>7. ASSUME NEW o \in Orders, RetryOrder(o) PROVE Position' /\ SentAll'
  <2>1. UNCHANGED <<mem, disk, writable, received, sends>>
    BY <1>7 DEF RetryOrder, store
  <2>2. SentAll'
    BY <1>4, <2>1
  <2>3. CASE StatusOf(mem, o) = "send_failed" /\ mem.orders[o].reserved # <<>>
    <3>1. op' = [Idle EXCEPT !.pc = "send", !.order = o]
      BY <1>7, <2>3 DEF RetryOrder
    <3>2. op'.pc = "send" /\ op'.order = o
      BY <1>1, <3>1, OpType
    <3>3. writable
      BY <1>1, <2>3, NotWritable DEF TypeInv, TypeOK
    <3>4. Ready(mem, o)
      BY <1>1, <2>3, <3>3 DEF SentAll, Sent
    <3> QED
      BY <2>1, <2>2, <3>2, <3>4 DEF Position, Ready, StatusOf, Shortage
  <2>4. CASE ~(StatusOf(mem, o) = "send_failed" /\ mem.orders[o].reserved # <<>>)
    <3>1. CallDeliver(o, {mem.orders[o].requested})
      BY <1>7, <2>4 DEF RetryOrder
    <3>2. {mem.orders[o].requested} \in SUBSET (Nat \ {0})
      BY <1>1 DEF Stores, OrderRecords
    <3>3. op'.pc = "deliver"
      BY <1>1, <3>1, <3>2, OpType
    <3> QED
      BY <1>3, <2>2, <3>3
  <2> QED
    BY <2>3, <2>4
<1>8. ASSUME Deliver PROVE Position' /\ SentAll'
  <2>0. PICK o \in Orders : o = op.order
    BY <1>8, DeliverStep
  <2>1. /\ o \in Orders /\ writable /\ mem = disk /\ mem' = disk' /\ OthersKept(o)
        /\ StatusOf(mem, o) \in HeldStatuses => mem' = mem
        /\ StatusOf(mem, o) \notin HeldStatuses => StatusOf(mem', o) \in {"reserved", "waiting_stock"}
        /\ UNCHANGED <<received, sends>>
    BY <1>1, <1>8, <2>0, DeliverStep DEF Written, Deliver, history
  <2>2. /\ op'.order = o
        /\ op'.pc = IF StatusOf(mem', o) = "waiting_stock" \/ Shortage(mem', o) THEN "shortage" ELSE "send"
    <3>1. Goto(IF StatusOf(mem', o) = "waiting_stock" \/ Shortage(mem', o) THEN "shortage" ELSE "send")
      BY <1>8, <2>0, DeliverStep DEF Deliver
    <3> QED
      BY <1>1, <2>0, <3>1, OpType DEF Steps
  <2>3. StatusOf(mem', o) \in HeldStatuses \cup {"waiting_stock"}
    BY <2>1 DEF HeldStatuses
  <2>4. Position'
    <3>1. op'.pc = "send" => Ready(mem', o)
      BY <2>2, <2>3 DEF Ready
    <3> QED
      BY <2>2, <2>3, <3>1 DEF Position, Ready, StatusOf, Shortage
  <2>5. ASSUME NEW p \in Orders, disk'.orders[p] = disk.orders[p] PROVE Sent(p)'
    BY <2>1, <2>5 DEF SentAll, Sent, Ready, StatusOf, Shortage, AccountsOf
  <2>6. ASSUME StatusOf(mem, o) \notin HeldStatuses PROVE Sent(o)'
    <3>1. AccountsOf(disk, o) = {} /\ ~Ready(disk, o)
      BY <2>1, <2>6, EmptyToSet DEF SoundInv, EmptyHanded, AccountsOf, Ready
    <3>2. received[o] = {} /\ ~(sends[o] > 0)
      BY <2>1, <3>1 DEF SentAll, Sent
    <3>3. StatusOf(disk', o) \notin {"completed", "send_failed"}
      BY <2>1, <2>6
    <3>4. received'[o] = {} /\ ~(sends'[o] > 0)
      BY <2>1, <3>2
    <3> QED
      BY <3>3, <3>4 DEF Sent, StatusOf
  <2>7. \A p \in Orders : Sent(p)'
    BY <2>1, <2>5, <2>6 DEF OthersKept
  <2> QED
    BY <2>4, <2>7 DEF SentAll
<1>9. ASSUME NotifyShortageOnce PROVE Position' /\ SentAll'
  <2> DEFINE o == op.order
  <2>1. /\ o \in Orders /\ writable /\ mem = disk
        /\ StatusOf(mem, o) \in HeldStatuses \cup {"waiting_stock"}
    BY <1>9, SendersWrite DEF NotifyShortageOnce, At, Position
  <2>2. /\ mem' = disk' /\ mem'.orders[o].notified
        /\ \A p \in Orders : /\ StatusOf(mem', p) = StatusOf(mem, p)
                             /\ mem'.orders[p].reserved = mem.orders[p].reserved
                             /\ mem'.orders[p].requested = mem.orders[p].requested
                             /\ mem.orders[p].notified => mem'.orders[p].notified
        /\ UNCHANGED <<received, sends>>
    BY <1>9, <2>1, ShortageStep DEF Written, NotifyShortageOnce, history
  <2>3. \/ op'.pc = "idle"
        \/ StatusOf(mem, o) # "waiting_stock" /\ op'.pc = "send" /\ op'.order = o
    BY <1>1, <1>9, OpType DEF NotifyShortageOnce, Record, StatusOf, Steps
  <2>4. Position'
    <3>1. StatusOf(mem, o) # "waiting_stock" => Ready(mem', o)
      BY <2>1, <2>2 DEF Ready
    <3> QED
      BY <1>3, <2>3, <3>1 DEF Position, Ready, StatusOf, Shortage
  <2>5. ASSUME NEW p \in Orders PROVE Sent(p)'
    <3>1. Ready(disk, p) => Ready(disk', p)
      BY <2>1, <2>2, <2>5, ReadyKept
    <3>2. AccountsOf(disk', p) = AccountsOf(disk, p) /\ StatusOf(disk', p) = StatusOf(disk, p)
      BY <2>1, <2>2 DEF AccountsOf
    <3> QED
      BY <2>2, <3>1, <3>2 DEF SentAll, Sent, Ready, StatusOf, Shortage, AccountsOf
  <2> QED
    BY <2>4, <2>5 DEF SentAll
<1>10. ASSUME SendReserved PROVE Position' /\ SentAll'
  <2> DEFINE o == op.order
  <2>1. o \in Orders /\ mem = disk /\ Ready(mem, o) /\ UNCHANGED <<mem, disk>>
    BY <1>10, SendersWrite DEF SendReserved, At, Position, store
  <2>2. op'.pc \in {"complete", "fail"} /\ op'.order = o
    BY <1>1, <1>10, OpType DEF SendReserved, Steps
  <2>3. Position'
    BY <2>1, <2>2 DEF Position, Ready, StatusOf, Shortage
  <2>4. \/ UNCHANGED <<received, sends>>
        \/ /\ received' = [received EXCEPT ![o] = @ \cup AccountsOf(mem, o)]
           /\ sends' = [sends EXCEPT ![o] = @ + 1]
    BY <1>10 DEF SendReserved
  <2>5. ASSUME received' = [received EXCEPT ![o] = @ \cup AccountsOf(mem, o)],
               sends' = [sends EXCEPT ![o] = @ + 1], NEW p \in Orders
        PROVE  Sent(p)'
    <3>1. CASE p = o
      <4>1. received'[o] = received[o] \cup AccountsOf(disk, o) /\ received[o] \subseteq AccountsOf(disk, o)
        BY <1>1, <2>1, <2>5 DEF SentAll, Sent
      <4> QED
        BY <2>1, <3>1, <4>1 DEF Sent, Ready, StatusOf, Shortage, AccountsOf
    <3>2. CASE p # o
      <4>1. received'[p] = received[p] /\ sends'[p] = sends[p]
        BY <1>1, <2>1, <2>5, <3>2
      <4> QED
        BY <2>1, <4>1 DEF SentAll, Sent, Ready, StatusOf, Shortage, AccountsOf
    <3> QED
      BY <3>1, <3>2
  <2> QED
    BY <1>4, <2>1, <2>3, <2>4, <2>5 DEF SentAll
<1>11. ASSUME MarkCompleted \/ MarkSendFailed PROVE Position' /\ SentAll'
  <2> DEFINE o == op.order
  <2>1. o \in Orders /\ mem = disk /\ Ready(mem, o)
    BY <1>11, SendersWrite DEF MarkCompleted, MarkSendFailed, At, Position
  <2>2. /\ mem' = disk' /\ StatusOf(mem', o) \in {"completed", "send_failed"}
        /\ \A p \in Orders : /\ p # o => StatusOf(mem', p) = StatusOf(mem, p)
                             /\ mem'.orders[p].reserved = mem.orders[p].reserved
                             /\ mem'.orders[p].requested = mem.orders[p].requested
                             /\ mem'.orders[p].notified = mem.orders[p].notified
        /\ UNCHANGED <<received, sends>>
    BY <1>11, OutcomeStep DEF Written, MarkCompleted, MarkSendFailed, history
  <2>3. Position'
    BY <1>3, <1>5, <1>11 DEF MarkCompleted, MarkSendFailed
  <2>4. ASSUME NEW p \in Orders PROVE Sent(p)'
    <3>1. Ready(disk, p) => Ready(disk', p)
      BY <2>1, <2>2, <2>4, ReadyKept DEF HeldStatuses
    <3>2. AccountsOf(disk', p) = AccountsOf(disk, p)
      BY <2>1, <2>2 DEF AccountsOf
    <3>3. StatusOf(disk', p) \in {"completed", "send_failed"} => Ready(disk', p)
      BY <2>1, <2>2, <3>1 DEF SentAll, Sent
    <3> QED
      BY <2>2, <3>1, <3>2, <3>3 DEF SentAll, Sent, Ready, StatusOf, Shortage, AccountsOf
  <2> QED
    BY <2>3, <2>4 DEF SentAll
<1>12. ASSUME Raise \/ RaiseUnavailable \/ Restart PROVE Position' /\ SentAll'
  BY <1>3, <1>4, <1>5, <1>12 DEF Raise, RaiseUnavailable, Restart, store, history
<1>13. ASSUME OpenWaiting \/ Toggle PROVE Position' /\ SentAll'
  BY <1>2, <1>4, <1>13 DEF OpenWaiting, Toggle, store, history
<1>14. ASSUME UploadAccounts \/ DeleteAccount \/ ClearAccounts PROVE Position' /\ SentAll'
  <2>1. mem = disk /\ mem' = disk' /\ mem'.orders = mem.orders
    BY <1>1, <1>14, StockStep DEF Written
  <2>2. UNCHANGED <<op, received, sends>>
    BY <1>14 DEF UploadAccounts, DeleteAccount, ClearAccounts, history
  <2>3. Position'
    BY <2>1, <2>2 DEF Position, Ready, StatusOf, Shortage
  <2>4. SentAll'
    BY <2>1, <2>2 DEF SentAll, Sent, Ready, StatusOf, Shortage, AccountsOf
  <2> QED
    BY <2>3, <2>4
<1>15. CASE UNCHANGED vars
  BY <1>2, <1>4, <1>15 DEF vars
<1> QED
  BY <1>6, <1>7, <1>8, <1>9, <1>10, <1>11, <1>12, <1>13, <1>14, <1>15 DEF Next, HandlerStep

(* At the start nothing was sent. *)
LEMMA DeliveryInit == Init => DeliveryInv
<1> SUFFICES ASSUME Init PROVE DeliveryInv
  OBVIOUS
<1>1. Position
  BY DEF Init, Position, Idle
<1>2. \A o \in Orders : received[o] = {} /\ sends[o] = 0 /\ StatusOf(disk, o) = "absent"
  BY DefaultStoreType DEF Init, StatusOf
<1> QED
  BY <1>1, <1>2 DEF DeliveryInv, Sent

(* What the buyers get, in every state. *)
LEMMA DeliveryInvariance == Spec => []DeliveryInv
  BY DeliveryInit, DeliveryStep, Soundness, PTL DEF Spec

(* However often an order is sent, its buyer gets the accounts of one      *)
(* reservation: they are on record for the order for good.                 *)
THEOREM OneReservation == Spec => []OneReservationPerBuyer
<1>1. DeliveryInv => OneReservationPerBuyer
  BY DEF DeliveryInv, Sent, OneReservationPerBuyer
<1> QED
  BY <1>1, DeliveryInvariance, PTL

(* No two buyers get one account: what they got is on record, and a record *)
(* shares no account with another.                                         *)
THEOREM SoldOnce == Spec => []NoAccountSoldTwice
<1>1. SoundInv /\ DeliveryInv => NoAccountSoldTwice
  BY DEF SoundInv, Exclusive, DeliveryInv, Sent, NoAccountSoldTwice
<1> QED
  BY <1>1, Soundness, DeliveryInvariance, PTL

(* The buyer of too few accounts was told before the first message. *)
THEOREM WarnedFirst == Spec => []ShortDeliveryIsWarned
<1>1. DeliveryInv => ShortDeliveryIsWarned
  BY DEF DeliveryInv, Sent, Ready, ShortDeliveryIsWarned
<1> QED
  BY <1>1, DeliveryInvariance, PTL

-----------------------------------------------------------------------------
(* How often an order is sent. *)

(* An order sent more often than its troubles explain is closed, or its    *)
(* handler is about to close it; no handler on its way to a send has one.  *)
Explained(o) ==
  /\ sends[o] <= 1 + troubles[o]
  /\ sends[o] > troubles[o]
       => \/ StatusOf(disk, o) \in {"completed", "send_failed"}
          \/ op.order = o /\ op.pc \in {"complete", "fail"}
  /\ op.order = o /\ op.pc \in {"deliver", "shortage", "send"} /\ writable => sends[o] <= troubles[o]

TroubleInv == \A o \in Orders : Explained(o)

(* An order stays explained when its status and counters stay and the      *)
(* handler is neither closing it nor on its way to a send.                 *)
LEMMA ExplainedKept ==
  ASSUME TypeInv, NEW o \in Orders, Explained(o),
         sends'[o] = sends[o], troubles'[o] = troubles[o],
         StatusOf(disk', o) = StatusOf(disk, o) \/ StatusOf(disk', o) \in {"completed", "send_failed"}
                                                \/ sends[o] <= troubles[o],
         op.order # o \/ op.pc \notin {"complete", "fail"}
           \/ StatusOf(disk', o) \in {"completed", "send_failed"},
         op'.order # o \/ op'.pc \notin {"deliver", "shortage", "send"} \/ sends[o] <= troubles[o]
           \/ ~writable'
  PROVE  Explained(o)'
<1>1. sends[o] \in Nat /\ troubles[o] \in Nat
  BY DEF TypeInv, TypeOK
<1> QED
  BY <1>1 DEF Explained, StatusOf

(* One step, for any order. *)
LEMMA TroubleStep ==
  TypeInv /\ SoundInv /\ DeliveryInv /\ TroubleInv /\ [Next]_vars => TroubleInv'
<1> SUFFICES ASSUME TypeInv, SoundInv, Position, TroubleInv, [Next]_vars, NEW o \in Orders
             PROVE  Explained(o)'
  BY DEF DeliveryInv, TroubleInv
<1>1. /\ op \in Operations /\ Explained(o)
      /\ op.pc # "idle" => op.order \in Orders
      /\ writable => mem = disk
      /\ sends \in [Orders -> Nat] /\ troubles \in [Orders -> Nat]
      /\ sends[o] \in Nat /\ troubles[o] \in Nat
  BY DEF TypeInv, TypeOK, Free, At, SoundInv, Agreement, TroubleInv
<1>2. Return => op'.pc = "idle"
  BY <1>1, OpType
<1>3. ASSUME UNCHANGED <<sends, troubles, disk, op, writable>> PROVE Explained(o)'
  BY <1>1, <1>3 DEF Explained, StatusOf
<1>4. ASSUME NEW p \in Orders, NewOrderEvent(p) \/ TimerFires(p) PROVE Explained(o)'
  <2>1. UNCHANGED <<sends, troubles, disk, writable>> /\ op.pc = "idle"
    BY <1>4 DEF NewOrderEvent, TimerFires, store, history, Free, At
  <2>2. CASE op' = op
    BY <1>3, <2>1, <2>2
  <2>3. CASE /\ op'.pc = "deliver" /\ op'.order = p
             /\ StatusOf(mem, p) \notin {"completed", "send_failed", "waiting_stock"}
    <3>1. writable /\ p = o => sends[o] <= troubles[o]
      BY <1>1, <2>1, <2>3 DEF Explained
    <3> QED
      BY <1>1, <2>1, <2>3, <3>1, ExplainedKept
  <2> QED
    BY <1>1, <1>4, <2>2, <2>3, HandleNewOrderType DEF NewOrderEvent, TimerFires
<1>5. ASSUME NEW p \in Orders, RetryOrder(p) PROVE Explained(o)'
  <2>1. UNCHANGED <<sends, disk, writable>> /\ op.pc = "idle" /\ troubles' = [troubles EXCEPT ![p] = @ + 1]
    BY <1>5 DEF RetryOrder, store, Free, At
  <2>2. op'.order = p
    <3>1. {mem.orders[p].requested} \in SUBSET (Nat \ {0})
      BY DEF TypeInv, TypeOK, Stores, OrderRecords
    <3> QED
      BY <1>1, <1>5, <3>1, OpType DEF RetryOrder
  <2>3. CASE p = o
    <3>1. troubles'[o] = troubles[o] + 1 /\ sends'[o] = sends[o]
      BY <1>1, <2>1, <2>3
    <3> QED
      BY <1>1, <3>1 DEF Explained
  <2>4. CASE p # o
    <3>1. troubles'[o] = troubles[o] /\ sends'[o] = sends[o]
      BY <1>1, <2>1, <2>4
    <3> QED
      BY <1>1, <2>1, <2>2, <2>4, <3>1, ExplainedKept
  <2> QED
    BY <2>3, <2>4
<1>6. ASSUME Deliver PROVE Explained(o)'
  <2>1. UNCHANGED <<sends, troubles, writable>> /\ op.pc = "deliver"
    BY <1>6 DEF Deliver, history, At
  <2>2. /\ op.order \in Orders /\ writable /\ mem = disk /\ mem' = disk'
        /\ o # op.order => mem'.orders[o] = mem.orders[o]
    BY <1>1, <1>6, DeliverStep DEF Written, OthersKept
  <2>3. op'.order = op.order
    BY <1>1, <1>6, OpType DEF Deliver, Steps
  <2>4. o = op.order => sends[o] <= troubles[o]
    BY <1>1, <2>1, <2>2 DEF Explained
  <2>5. o # op.order => StatusOf(disk', o) = StatusOf(disk, o)
    BY <2>2 DEF StatusOf
  <2> QED
    BY <1>1, <2>1, <2>3, <2>4, <2>5, ExplainedKept
<1>7. ASSUME NotifyShortageOnce PROVE Explained(o)'
  <2>1. UNCHANGED <<sends, troubles, writable>> /\ op.pc = "shortage"
    BY <1>7 DEF NotifyShortageOnce, history, At
  <2>2. writable /\ mem = disk
    BY <1>7, <2>1, SendersWrite
  <2>3. StatusOf(disk', o) = StatusOf(disk, o)
    BY <1>7, <2>2, ShortageStep DEF Written
  <2>4. op'.pc = "idle" \/ op'.order = op.order
    BY <1>1, <1>7, OpType DEF NotifyShortageOnce, Steps
  <2>5. o = op.order => sends[o] <= troubles[o]
    BY <1>1, <2>1, <2>2 DEF Explained
  <2> QED
    BY <1>1, <2>1, <2>3, <2>4, <2>5, ExplainedKept
<1>8. ASSUME SendReserved PROVE Explained(o)'
  <2>1. UNCHANGED <<troubles, disk, writable>> /\ op.pc = "send"
    BY <1>8 DEF SendReserved, store, At
  <2>2. writable /\ op.order \in Orders
    BY <2>1, SendersWrite
  <2>3. op'.pc \in {"complete", "fail"} /\ op'.order = op.order
    BY <1>1, <1>8, OpType DEF SendReserved, Steps
  <2>4. sends' = sends \/ sends' = [sends EXCEPT ![op.order] = @ + 1]
    BY <1>8 DEF SendReserved
  <2>5. CASE o = op.order
    <3>1. sends[o] <= troubles[o]
      BY <1>1, <2>1, <2>2, <2>5 DEF Explained
    <3>2. sends'[o] \in {sends[o], sends[o] + 1} /\ troubles'[o] = troubles[o]
      BY <1>1, <2>1, <2>4, <2>5
    <3> QED
      BY <1>1, <2>3, <2>5, <3>1, <3>2 DEF Explained
  <2>6. CASE o # op.order
    <3>1. sends'[o] = sends[o] /\ troubles'[o] = troubles[o]
      BY <1>1, <2>1, <2>2, <2>4, <2>6
    <3> QED
      BY <1>1, <2>1, <2>3, <2>6, <3>1, ExplainedKept
  <2> QED
    BY <2>5, <2>6
<1>9. ASSUME MarkCompleted \/ MarkSendFailed PROVE Explained(o)'
  <2>1. UNCHANGED <<sends, troubles, writable>> /\ op.pc \in {"complete", "fail"}
    BY <1>9 DEF MarkCompleted, MarkSendFailed, history, At
  <2>2. /\ mem = disk /\ mem' = disk'
        /\ StatusOf(mem', op.order) \in {"completed", "send_failed"}
        /\ o # op.order => StatusOf(mem', o) = StatusOf(mem, o)
    BY <1>1, <1>9, OutcomeStep DEF Written
  <2>3. op'.pc = "idle"
    BY <1>2, <1>9 DEF MarkCompleted, MarkSendFailed
  <2>4. \/ o = op.order /\ StatusOf(disk', o) \in {"completed", "send_failed"}
        \/ o # op.order /\ StatusOf(disk', o) = StatusOf(disk, o)
    BY <2>2
  <2> QED
    BY <1>1, <2>1, <2>3, <2>4, ExplainedKept
<1>10. ASSUME Raise \/ Restart PROVE Explained(o)'
  <2>1. UNCHANGED <<sends, disk>> /\ op'.pc = "idle"
    BY <1>2, <1>10 DEF Raise, Restart, store
  <2>2. troubles'[o] = IF o = op.order THEN troubles[o] + 1 ELSE troubles[o]
    <3>1. CASE Raise
      BY <1>1, <3>1 DEF Raise
    <3>2. CASE Restart
      BY <1>1, <3>2 DEF Restart
    <3> QED
      BY <1>10, <3>1, <3>2
  <2>3. CASE o = op.order
    <3>1. troubles'[o] = troubles[o] + 1 /\ sends'[o] = sends[o]
      BY <2>1, <2>2, <2>3
    <3> QED
      BY <1>1, <2>1, <3>1 DEF Explained
  <2>4. CASE o # op.order
    BY <1>1, <2>1, <2>2, <2>4, ExplainedKept
  <2> QED
    BY <2>3, <2>4
<1>11. ASSUME RaiseUnavailable PROVE Explained(o)'
  <2>1. UNCHANGED <<sends, troubles, disk>> /\ op'.pc = "idle" /\ ~writable
    BY <1>2, <1>11 DEF RaiseUnavailable, store, history
  <2>2. op.pc \notin {"complete", "fail"}
    BY <2>1, SendersWrite
  <2> QED
    BY <1>1, <2>1, <2>2, ExplainedKept
<1>12. ASSUME OpenWaiting \/ Toggle PROVE Explained(o)'
  BY <1>3, <1>12 DEF OpenWaiting, Toggle, store, history
<1>13. ASSUME UploadAccounts \/ DeleteAccount \/ ClearAccounts PROVE Explained(o)'
  <2>1. UNCHANGED <<sends, troubles, op, writable>>
    BY <1>13 DEF UploadAccounts, DeleteAccount, ClearAccounts, history
  <2>2. StatusOf(disk', o) = StatusOf(disk, o)
    BY <1>1, <1>13, StockStep DEF Written, StatusOf
  <2> QED
    BY <1>1, <2>1, <2>2 DEF Explained, StatusOf
<1>14. CASE UNCHANGED vars
  BY <1>3, <1>14 DEF vars
<1> QED
  BY <1>4, <1>5, <1>6, <1>7, <1>8, <1>9, <1>10, <1>11, <1>12, <1>13, <1>14 DEF Next, HandlerStep

(* A message with accounts is repeated only after a retry, a write that    *)
(* failed or a restart in the middle: repeated events and delayed          *)
(* deliveries find the order closed.                                       *)
THEOREM RepeatsExplained == Spec => []RepeatsNeedTrouble
<1>1. Init => TroubleInv
  <2> SUFFICES ASSUME Init PROVE TroubleInv
    OBVIOUS
  <2>1. \A o \in Orders : sends[o] = 0 /\ troubles[o] = 0
    BY DEF Init
  <2> QED
    BY <2>1 DEF TroubleInv, Explained
<1>2. TroubleInv => RepeatsNeedTrouble
  BY DEF TroubleInv, Explained, RepeatsNeedTrouble
<1> QED
  BY <1>1, <1>2, TroubleStep, Soundness, DeliveryInvariance, PTL DEF Spec
=============================================================================
