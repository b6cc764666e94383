------------------------ MODULE GeminiDeliveryProofs ------------------------
(***************************************************************************)
(* Proofs about GeminiDelivery, on lemmas about the operations of its      *)
(* storage, in layers: the types, then what the file, the memory and the   *)
(* position of the handler say of each other, then the safety properties   *)
(* that rest on these.                                                     *)
(***************************************************************************)
EXTENDS GeminiDelivery, SequenceLemmas

-----------------------------------------------------------------------------
(* The operations of GeminiStorage: each maps stores to stores. *)

(* A new record is one, retryable and of the amount asked for. *)
LEMMA NewRecordType ==
  ASSUME NEW amount \in Nat \ {0}
  PROVE  /\ NewRecord(amount) \in OrderRecords
         /\ NewRecord(amount).requested = amount
         /\ NewRecord(amount).status = "retryable"
<1>1. <<>> \in Seq(Links) /\ <<>> \in Seq(Links \cup {Gist})
  BY EmptySeq
<1> QED  BY <1>1 DEF NewRecord, OrderRecords, Statuses, Providers

(* So is the record that stands for no record. *)
LEMMA NoRecordType ==
  /\ NoRecord \in OrderRecords
  /\ NoRecord.status = "absent"
<1>1. NewRecord(1) \in OrderRecords
  BY NewRecordType
<1> QED  BY <1>1 DEF NoRecord, OrderRecords

(* The empty file is a store. *)
LEMMA DefaultStoreType == DefaultStore \in Stores
<1>1. <<>> \in Seq(Links)
  BY EmptySeq
<1> QED  BY <1>1, NoRecordType DEF DefaultStore, Stores

(* An update replaces one record. *)
LEMMA UpdateType ==
  ASSUME NEW s \in Stores, NEW o \in Orders, NEW record \in OrderRecords
  PROVE  /\ Update(s, o, record) \in Stores
         /\ Update(s, o, record).stock = s.stock
         /\ Update(s, o, record).orders = [s.orders EXCEPT ![o] = record]
BY DEF Stores, Update

(* A change of status replaces one status. *)
LEMMA SetStatusType ==
  ASSUME NEW s \in Stores, NEW o \in Orders, NEW status \in Statuses
  PROVE  /\ SetStatus(s, o, status) \in Stores
         /\ SetStatus(s, o, status).stock = s.stock
         /\ SetStatus(s, o, status).orders = [s.orders EXCEPT ![o].status = status]
<1>1. [s.orders[o] EXCEPT !.status = status] \in OrderRecords
  BY DEF Stores, OrderRecords
<1> QED  BY <1>1 DEF SetStatus, Stores

(* reserve takes no more than the stock has. *)
LEMMA ToTakeType ==
  ASSUME NEW available \in Nat, NEW requested \in Nat \ {0}, NEW allOrNothing \in BOOLEAN
  PROVE  ToTake(available, requested, allOrNothing) \in 0..available
BY DEF ToTake

(* reserve makes a store of a store. *)
LEMMA ReserveType ==
  ASSUME NEW s \in Stores, NEW o \in Orders, NEW amount \in Nat \ {0}, NEW allOrNothing \in BOOLEAN
  PROVE  Reserve(s, o, amount, allOrNothing) \in Stores
<1> DEFINE order == IF StatusOf(s, o) = "absent" THEN NewRecord(amount) ELSE s.orders[o]
           take  == ToTake(Len(s.stock), order.requested, allOrNothing)
<1>1. CASE StatusOf(s, o) \in HeldStatuses
  BY <1>1 DEF Reserve
<1>2. CASE StatusOf(s, o) \notin HeldStatuses
  <2>1. order \in OrderRecords
    BY NewRecordType DEF Stores
  <2>2. s.stock \in Seq(Links) /\ Len(s.stock) \in Nat
    BY LenProperties DEF Stores
  <2>3. take \in 0..Len(s.stock)
    BY <2>1, <2>2, ToTakeType DEF OrderRecords
  <2>4. /\ SubSeq(s.stock, 1, take) \in Seq(Links)
        /\ SubSeq(s.stock, take + 1, Len(s.stock)) \in Seq(Links)
    BY <2>2, <2>3, SubSeqType
  <2> DEFINE record == [order EXCEPT !.reserved = SubSeq(s.stock, 1, take),
                                     !.status   = IF take > 0 THEN "reserved" ELSE "waiting_stock"]
  <2>5. record \in OrderRecords
    BY <2>1, <2>4 DEF OrderRecords, Statuses
  <2>6. Reserve(s, o, amount, allOrNothing) =
          [stock |-> SubSeq(s.stock, take + 1, Len(s.stock)), orders |-> [s.orders EXCEPT ![o] = record]]
    BY <1>2 DEF Reserve
  <2> HIDE DEF take, record, order
  <2> QED  BY <2>4, <2>5, <2>6 DEF Stores
<1> QED  BY <1>1, <1>2

(* restore_reservation puts the links back in front of the stock. *)
LEMMA RestoreReservationType ==
  ASSUME NEW s \in Stores, NEW o \in Orders
  PROVE  /\ RestoreReservation(s, o) \in Stores
         /\ RestoreReservation(s, o).stock = s.orders[o].reserved \o s.stock
         /\ RestoreReservation(s, o).orders[o].reserved = <<>>
         /\ RestoreReservation(s, o).orders[o].status = "retryable"
         /\ \A p \in Orders \ {o} : RestoreReservation(s, o).orders[p] = s.orders[p]
<1> DEFINE record == [s.orders[o] EXCEPT !.reserved = <<>>, !.provider = "unset",
                                         !.prepared = <<>>, !.status = "retryable"]
<1>1. <<>> \in Seq(Links) /\ <<>> \in Seq(Links \cup {Gist})
  BY EmptySeq
<1>2. record \in OrderRecords /\ record.reserved = <<>> /\ record.status = "retryable"
  BY <1>1 DEF Stores, OrderRecords, Statuses
<1>3. s.orders[o].reserved \o s.stock \in Seq(Links)
  BY ConcatProperties DEF Stores, OrderRecords
<1>4. RestoreReservation(s, o) =
        [stock |-> s.orders[o].reserved \o s.stock, orders |-> [s.orders EXCEPT ![o] = record]]
  BY DEF RestoreReservation, Stores
<1> HIDE DEF record
<1> QED  BY <1>2, <1>3, <1>4 DEF Stores

(* The new links, in the order they are added. *)
LEMMA NewLinksType ==
  ASSUME NEW s \in Stores, NEW links \in SUBSET Links, NEW batch \in NewLinks(s, links)
  PROVE  /\ batch \in Seq(Links)
         /\ IsInjective(batch)
         /\ ToSet(batch) \cap ActiveLinks(s) = {}
<1> DEFINE fresh == links \ ActiveLinks(s)
<1>1. IsFiniteSet(fresh) /\ fresh \in SUBSET Links
  BY StorageAssumption, FS_Subset
<1>2. batch \in SetToSeqs(fresh)
  BY DEF NewLinks
<1>3. fresh \cap ActiveLinks(s) = {}
  OBVIOUS
<1> HIDE DEF fresh
<1>4. batch \in Seq(Links) /\ IsInjective(batch) /\ ToSet(batch) \subseteq fresh
  BY <1>1, <1>2, ArrangementType
<1> QED  BY <1>3, <1>4

(* The new links are appended to the stock. *)
LEMMA AddLinksType ==
  ASSUME NEW s \in Stores, NEW batch \in Seq(Links)
  PROVE  /\ AddLinks(s, batch) \in Stores
         /\ AddLinks(s, batch).stock = s.stock \o batch
         /\ AddLinks(s, batch).orders = s.orders
<1>1. s.stock \o batch \in Seq(Links)
  BY ConcatProperties DEF Stores
<1> QED  BY <1>1 DEF AddLinks, Stores

(* clear_stock touches no order. *)
LEMMA ClearStockType ==
  ASSUME NEW s \in Stores
  PROVE  /\ ClearStock(s) \in Stores
         /\ ClearStock(s).stock = <<>>
         /\ ClearStock(s).orders = s.orders
<1>1. <<>> \in Seq(Links)
  BY EmptySeq
<1> QED  BY <1>1 DEF ClearStock, Stores

(* remove_stock_link touches no order. *)
LEMMA RemoveStockLinkType ==
  ASSUME NEW s \in Stores, NEW link \in Links
  PROVE  /\ RemoveStockLink(s, link) \in Stores
         /\ RemoveStockLink(s, link).stock = RemoveFirst(s.stock, link)
         /\ RemoveStockLink(s, link).orders = s.orders
<1>1. RemoveFirst(s.stock, link) \in Seq(Links)
  BY RemoveFirstType DEF Stores
<1> QED  BY <1>1 DEF RemoveStockLink, Stores

(* set_provider changes one provider, or nothing. *)
LEMMA SetProviderType ==
  ASSUME NEW s \in Stores, NEW o \in Orders, NEW provider \in Providers \cup {"unset"}
  PROVE  /\ SetProvider(s, o, provider) \in Stores
         /\ SetProvider(s, o, provider).stock = s.stock
         /\ \/ SetProvider(s, o, provider) = s
            \/ SetProvider(s, o, provider).orders = [s.orders EXCEPT ![o].provider = provider]
<1>1. [s.orders[o] EXCEPT !.provider = provider] \in OrderRecords
  BY DEF Stores, OrderRecords
<1> QED  BY <1>1 DEF SetProvider, Stores

(* append_prepared_link appends to one list, or changes nothing. *)
LEMMA AppendPreparedLinkType ==
  ASSUME NEW s \in Stores, NEW o \in Orders, NEW link \in Links
  PROVE  /\ AppendPreparedLink(s, o, link) \in Stores
         /\ AppendPreparedLink(s, o, link).stock = s.stock
         /\ \/ AppendPreparedLink(s, o, link) = s
            \/ AppendPreparedLink(s, o, link).orders =
                 [s.orders EXCEPT ![o].prepared = Append(s.orders[o].prepared, link)]
<1>1. Append(s.orders[o].prepared, link) \in Seq(Links \cup {Gist})
  BY AppendProperties DEF Stores, OrderRecords
<1>2. [s.orders[o] EXCEPT !.prepared = Append(s.orders[o].prepared, link)] \in OrderRecords
  BY <1>1 DEF Stores, OrderRecords
<1> QED  BY <1>2 DEF AppendPreparedLink, Stores

(* mark_gist_created replaces one record. *)
LEMMA MarkGistCreatedType ==
  ASSUME NEW s \in Stores, NEW o \in Orders
  PROVE  /\ MarkGistCreated(s, o) \in Stores
         /\ MarkGistCreated(s, o).stock = s.stock
         /\ MarkGistCreated(s, o).orders =
              [s.orders EXCEPT ![o] =
                [s.orders[o] EXCEPT !.status = "gist_created", !.provider = "github", !.prepared = <<Gist>>]]
<1>1. <<Gist>> \in Seq(Links \cup {Gist})
  <2>1. <<>> \in Seq(Links \cup {Gist}) /\ Append(<<>>, Gist) = <<Gist>>
    BY EmptySeq
  <2> QED  BY <2>1, AppendProperties
<1>2. [s.orders[o] EXCEPT !.status = "gist_created", !.provider = "github", !.prepared = <<Gist>>] \in OrderRecords
  BY <1>1 DEF Stores, OrderRecords, Statuses, Providers
<1> QED  BY <1>2, UpdateType DEF MarkGistCreated

(* mark_shortage_notified sets one mark. *)
LEMMA MarkShortageNotifiedType ==
  ASSUME NEW s \in Stores, NEW o \in Orders
  PROVE  /\ MarkShortageNotified(s, o) \in Stores
         /\ MarkShortageNotified(s, o).stock = s.stock
         /\ MarkShortageNotified(s, o).orders = [s.orders EXCEPT ![o].notified = TRUE]
<1>1. [s.orders[o] EXCEPT !.notified = TRUE] \in OrderRecords
  BY DEF Stores, OrderRecords
<1> QED  BY <1>1 DEF MarkShortageNotified, Stores

(* record_error creates a record, or changes nothing modelled here. *)
LEMMA RecordErrorType ==
  ASSUME NEW s \in Stores, NEW o \in Orders, NEW amount \in Nat \ {0}
  PROVE  /\ RecordError(s, o, amount) \in Stores
         /\ RecordError(s, o, amount).stock = s.stock
         /\ \/ RecordError(s, o, amount) = s
            \/ /\ StatusOf(s, o) = "absent"
               /\ RecordError(s, o, amount).orders = [s.orders EXCEPT ![o] = NewRecord(amount)]
BY NewRecordType, UpdateType DEF RecordError

(* Trimmed orders lose their records. *)
LEMMA ForgetType ==
  ASSUME NEW s \in Stores, NEW S \in SUBSET Orders
  PROVE  /\ Forget(s, S) \in Stores
         /\ Forget(s, S).stock = s.stock
         /\ \A o \in Orders : Forget(s, S).orders[o] = IF o \in S THEN NoRecord ELSE s.orders[o]
BY NoRecordType DEF Forget, Stores

(* What load makes of a record is one, with the same links. *)
LEMMA NormalizeRecordType ==
  ASSUME NEW order \in OrderRecords
  PROVE  /\ NormalizeRecord(order) \in OrderRecords
         /\ NormalizeRecord(order).reserved = order.reserved
         /\ NormalizeRecord(order).status =
              CASE order.status = "gist_created" -> "awaiting_confirmation"
                [] order.status = "sending"      -> "send_failed"
                [] OTHER                         -> order.status
<1>1. CASE order.status = "gist_created"
  BY <1>1 DEF NormalizeRecord, OrderRecords, Statuses, Providers
<1>2. CASE order.status = "sending"
  BY <1>2 DEF NormalizeRecord, OrderRecords, Statuses
<1>3. CASE order.status \notin {"gist_created", "sending"}
  BY <1>3 DEF NormalizeRecord
<1> QED  BY <1>1, <1>2, <1>3

(* load normalises every record. *)
LEMMA NormalizeStateType ==
  ASSUME NEW s \in Stores
  PROVE  /\ NormalizeState(s) \in Stores
         /\ NormalizeState(s).stock = s.stock
         /\ \A o \in Orders : NormalizeState(s).orders[o] = NormalizeRecord(s.orders[o])
BY NormalizeRecordType DEF NormalizeState, Stores

-----------------------------------------------------------------------------
(* Exclusive stores stay exclusive. *)

(* No order has more links than before. *)
LEMMA ExclusiveShrunk ==
  ASSUME NEW s \in Stores, NEW t \in Stores, ExclusiveIn(s),
         IsInjective(t.stock),
         \A p \in Orders : StatusOf(t, p) # "completed" => IsInjective(t.orders[p].reserved),
         \A p \in Orders : LinksOf(t, p) \subseteq LinksOf(s, p),
         \A p \in Orders : LinksOf(t, p) \cap ToSet(t.stock) = {}
  PROVE  ExclusiveIn(t)
<1>1. ASSUME NEW o1 \in Orders, NEW o2 \in Orders, o1 # o2
      PROVE  LinksOf(t, o1) \cap LinksOf(t, o2) = {}
  <2>1. LinksOf(s, o1) \cap LinksOf(s, o2) = {}
    BY <1>1 DEF ExclusiveIn
  <2> QED  BY <2>1
<1> QED  BY <1>1 DEF ExclusiveIn

(* Links pass between the stock and one order. *)
LEMMA ExclusiveExchange ==
  ASSUME NEW s \in Stores, NEW t \in Stores, NEW o \in Orders, ExclusiveIn(s),
         \A p \in Orders \ {o} : t.orders[p] = s.orders[p],
         IsInjective(t.stock),
         StatusOf(t, o) # "completed" => IsInjective(t.orders[o].reserved),
         LinksOf(t, o) \cap ToSet(t.stock) = {},
         ToSet(t.stock) \cup LinksOf(t, o) \subseteq ToSet(s.stock) \cup LinksOf(s, o)
  PROVE  ExclusiveIn(t)
<1>1. \A p \in Orders \ {o} : LinksOf(t, p) = LinksOf(s, p) /\ StatusOf(t, p) = StatusOf(s, p)
  BY DEF LinksOf, StatusOf
<1>2. \A p \in Orders : StatusOf(t, p) # "completed" => IsInjective(t.orders[p].reserved)
  BY <1>1 DEF ExclusiveIn
<1>3. \A p \in Orders \ {o} : LinksOf(s, p) \cap (ToSet(s.stock) \cup LinksOf(s, o)) = {}
  BY DEF ExclusiveIn
<1>4. \A p \in Orders : LinksOf(t, p) \cap ToSet(t.stock) = {}
  BY <1>1, <1>3
<1>5. \A o1, o2 \in Orders : o1 # o2 => LinksOf(t, o1) \cap LinksOf(t, o2) = {}
  BY <1>1, <1>3 DEF ExclusiveIn
<1> QED  BY <1>2, <1>4, <1>5 DEF ExclusiveIn

(* The record of one order changes, but not its links. *)
LEMMA ExclusiveKept ==
  ASSUME NEW s \in Stores, NEW t \in Stores, NEW o \in Orders, ExclusiveIn(s),
         t.stock = s.stock,
         \A p \in Orders \ {o} : t.orders[p] = s.orders[p],
         t.orders[o].reserved = s.orders[o].reserved,
         StatusOf(s, o) = "completed" => StatusOf(t, o) = "completed"
  PROVE  ExclusiveIn(t)
<1>1. LinksOf(t, o) \subseteq LinksOf(s, o)
  BY DEF LinksOf
<1>2. StatusOf(t, o) # "completed" => IsInjective(t.orders[o].reserved)
  BY DEF ExclusiveIn
<1>3. LinksOf(s, o) \cap ToSet(s.stock) = {} /\ IsInjective(s.stock)
  BY DEF ExclusiveIn
<1> QED  BY <1>1, <1>2, <1>3, ExclusiveExchange

(* The empty file holds no link. *)
LEMMA ExclusiveDefault == ExclusiveIn(DefaultStore)
<1>1. \A o \in Orders : DefaultStore.orders[o].reserved = <<>>
  BY DEF DefaultStore, NoRecord, NewRecord
<1>2. \A o \in Orders : LinksOf(DefaultStore, o) = {}
  BY <1>1, EmptyToSet DEF LinksOf
<1>3. DefaultStore.stock = <<>>
  BY DEF DefaultStore
<1> QED  BY <1>1, <1>2, <1>3, EmptyToSet DEF ExclusiveIn

(* New links join the stock. *)
LEMMA ExclusiveAddLinks ==
  ASSUME NEW s \in Stores, NEW links \in SUBSET Links, NEW batch \in NewLinks(s, links), ExclusiveIn(s)
  PROVE  ExclusiveIn(AddLinks(s, batch))
<1> DEFINE t == AddLinks(s, batch)
<1>1. batch \in Seq(Links) /\ IsInjective(batch) /\ ToSet(batch) \cap ActiveLinks(s) = {}
  BY NewLinksType
<1>2. t \in Stores /\ t.stock = s.stock \o batch /\ t.orders = s.orders
  BY <1>1, AddLinksType
<1> HIDE DEF t
<1>3. s.stock \in Seq(Links) /\ IsInjective(s.stock)
  BY DEF Stores, ExclusiveIn
<1>4. IsInjective(t.stock) /\ ToSet(t.stock) = ToSet(s.stock) \cup ToSet(batch)
  BY <1>1, <1>2, <1>3, JoinInjective DEF ActiveLinks
<1>5. \A p \in Orders : LinksOf(t, p) = LinksOf(s, p) /\ StatusOf(t, p) = StatusOf(s, p)
  BY <1>2 DEF LinksOf, StatusOf
<1>6. \A p \in Orders : LinksOf(t, p) \cap ToSet(t.stock) = {}
  BY <1>1, <1>4, <1>5 DEF ActiveLinks, ExclusiveIn
<1>7. \A p \in Orders : StatusOf(t, p) # "completed" => IsInjective(t.orders[p].reserved)
  BY <1>2, <1>5 DEF ExclusiveIn
<1> QED  BY <1>2, <1>4, <1>5, <1>6, <1>7, ExclusiveShrunk DEF t

(* The administrators take links off the stock. *)
LEMMA ExclusiveStockShrunk ==
  ASSUME NEW s \in Stores, NEW t \in Stores, ExclusiveIn(s),
         t.orders = s.orders, IsInjective(t.stock), ToSet(t.stock) \subseteq ToSet(s.stock)
  PROVE  ExclusiveIn(t)
<1>1. \A p \in Orders : LinksOf(t, p) = LinksOf(s, p) /\ StatusOf(t, p) = StatusOf(s, p)
  BY DEF LinksOf, StatusOf
<1>2. \A p \in Orders : LinksOf(t, p) \cap ToSet(t.stock) = {}
  BY <1>1 DEF ExclusiveIn
<1>3. \A p \in Orders : StatusOf(t, p) # "completed" => IsInjective(t.orders[p].reserved)
  BY <1>1 DEF ExclusiveIn
<1> QED  BY <1>1, <1>2, <1>3, ExclusiveShrunk

(* remove_stock_link only shrinks the stock. *)
LEMMA ExclusiveRemoveStockLink ==
  ASSUME NEW s \in Stores, NEW link \in Links, ExclusiveIn(s)
  PROVE  ExclusiveIn(RemoveStockLink(s, link))
<1>1. s.stock \in Seq(Links) /\ IsInjective(s.stock)
  BY DEF Stores, ExclusiveIn
<1>2. IsInjective(RemoveFirst(s.stock, link)) /\ ToSet(RemoveFirst(s.stock, link)) \subseteq ToSet(s.stock)
  BY <1>1, RemoveFirstInjective
<1> QED  BY <1>2, RemoveStockLinkType, ExclusiveStockShrunk

(* So does clear_stock. *)
LEMMA ExclusiveClearStock ==
  ASSUME NEW s \in Stores, ExclusiveIn(s)
  PROVE  ExclusiveIn(ClearStock(s))
BY EmptyToSet, ClearStockType, ExclusiveStockShrunk

(* An order that holds nothing takes a front part of the stock. *)
LEMMA ExclusiveSplit ==
  ASSUME NEW s \in Stores, NEW t \in Stores, NEW o \in Orders, ExclusiveIn(s),
         \A p \in Orders \ {o} : t.orders[p] = s.orders[p],
         NEW k \in 0..Len(s.stock),
         t.stock = SubSeq(s.stock, k + 1, Len(s.stock)),
         t.orders[o].reserved = SubSeq(s.stock, 1, k),
         StatusOf(t, o) # "completed"
  PROVE  ExclusiveIn(t)
<1>1. s.stock \in Seq(Links) /\ IsInjective(s.stock)
  BY DEF Stores, ExclusiveIn
<1>2. /\ IsInjective(t.stock)
      /\ IsInjective(t.orders[o].reserved)
      /\ ToSet(t.orders[o].reserved) \cap ToSet(t.stock) = {}
      /\ ToSet(t.orders[o].reserved) \cup ToSet(t.stock) = ToSet(s.stock)
  BY <1>1, SplitInjective
<1>3. LinksOf(t, o) = ToSet(t.orders[o].reserved)
  BY DEF LinksOf
<1>4. /\ LinksOf(t, o) \cap ToSet(t.stock) = {}
      /\ ToSet(t.stock) \cup LinksOf(t, o) \subseteq ToSet(s.stock) \cup LinksOf(s, o)
  BY <1>2, <1>3
<1> QED  BY <1>2, <1>4, ExclusiveExchange

(* reserve takes a front part of the stock, or changes nothing. *)
LEMMA ExclusiveReserve ==
  ASSUME NEW s \in Stores, NEW o \in Orders, NEW amount \in Nat \ {0}, NEW allOrNothing \in BOOLEAN,
         ExclusiveIn(s)
  PROVE  ExclusiveIn(Reserve(s, o, amount, allOrNothing))
<1> DEFINE order == IF StatusOf(s, o) = "absent" THEN NewRecord(amount) ELSE s.orders[o]
           take  == ToTake(Len(s.stock), order.requested, allOrNothing)
           t     == Reserve(s, o, amount, allOrNothing)
<1>1. CASE StatusOf(s, o) \in HeldStatuses
  BY <1>1 DEF Reserve
<1>2. CASE StatusOf(s, o) \notin HeldStatuses
  <2>1. order \in OrderRecords
    BY NewRecordType DEF Stores
  <2>2. Len(s.stock) \in Nat
    BY LenProperties DEF Stores
  <2>3. take \in 0..Len(s.stock)
    BY <2>1, <2>2, ToTakeType DEF OrderRecords
  <2> DEFINE record == [order EXCEPT !.reserved = SubSeq(s.stock, 1, take),
                                     !.status   = IF take > 0 THEN "reserved" ELSE "waiting_stock"]
  <2>4. t = [stock |-> SubSeq(s.stock, take + 1, Len(s.stock)), orders |-> [s.orders EXCEPT ![o] = record]]
    BY <1>2 DEF Reserve
  <2>5. /\ record.reserved = SubSeq(s.stock, 1, take)
        /\ record.status = IF take > 0 THEN "reserved" ELSE "waiting_stock"
    BY <2>1 DEF OrderRecords
  <2> HIDE DEF record, take, order, t
  <2>8. /\ t.stock = SubSeq(s.stock, take + 1, Len(s.stock))
        /\ t.orders = [s.orders EXCEPT ![o] = record]
    BY <2>4
  <2>6. /\ t.stock = SubSeq(s.stock, take + 1, Len(s.stock))
        /\ t.orders[o] = record
        /\ \A p \in Orders \ {o} : t.orders[p] = s.orders[p]
    BY <2>8 DEF Stores
  <2>7. \E k \in 0..Len(s.stock) :
          /\ t.stock = SubSeq(s.stock, k + 1, Len(s.stock))
          /\ t.orders[o].reserved = SubSeq(s.stock, 1, k)
          /\ t.orders[o].status = IF k > 0 THEN "reserved" ELSE "waiting_stock"
    BY <2>3, <2>5, <2>6
  <2>9. t \in Stores
    BY ReserveType DEF t
  <2>10. ExclusiveIn(t)
    <3>1. PICK k \in 0..Len(s.stock) :
            /\ t.stock = SubSeq(s.stock, k + 1, Len(s.stock))
            /\ t.orders[o].reserved = SubSeq(s.stock, 1, k)
            /\ t.orders[o].status = IF k > 0 THEN "reserved" ELSE "waiting_stock"
      BY <2>7
    <3>2. StatusOf(t, o) # "completed"
      BY <3>1 DEF StatusOf
    <3> QED  BY <2>6, <2>9, <3>1, <3>2, ExclusiveSplit
  <2> QED  BY <2>10 DEF t
<1> QED  BY <1>1, <1>2

(* The links of an unfinished order go back to the stock. *)
LEMMA ExclusiveRestoreReservation ==
  ASSUME NEW s \in Stores, NEW o \in Orders, StatusOf(s, o) # "completed", ExclusiveIn(s)
  PROVE  ExclusiveIn(RestoreReservation(s, o))
<1> DEFINE t == RestoreReservation(s, o)
<1>1. /\ t \in Stores
      /\ t.stock = s.orders[o].reserved \o s.stock
      /\ t.orders[o].reserved = <<>>
      /\ \A p \in Orders \ {o} : t.orders[p] = s.orders[p]
  BY RestoreReservationType
<1> HIDE DEF t
<1>2. s.orders[o].reserved \in Seq(Links) /\ s.stock \in Seq(Links)
  BY DEF Stores, OrderRecords
<1>3. LinksOf(s, o) = ToSet(s.orders[o].reserved)
  BY DEF LinksOf
<1>4. /\ IsInjective(s.orders[o].reserved)
      /\ IsInjective(s.stock)
      /\ ToSet(s.orders[o].reserved) \cap ToSet(s.stock) = {}
  BY <1>3 DEF ExclusiveIn
<1>5. IsInjective(t.stock) /\ ToSet(t.stock) = ToSet(s.orders[o].reserved) \cup ToSet(s.stock)
  BY <1>1, <1>2, <1>4, JoinInjective
<1>6. LinksOf(t, o) = {} /\ IsInjective(t.orders[o].reserved)
  BY <1>1, EmptyToSet DEF LinksOf
<1>7. /\ LinksOf(t, o) \cap ToSet(t.stock) = {}
      /\ ToSet(t.stock) \cup LinksOf(t, o) \subseteq ToSet(s.stock) \cup LinksOf(s, o)
  BY <1>3, <1>5, <1>6
<1>8. ExclusiveIn(t)
  BY <1>1, <1>5, <1>6, <1>7, ExclusiveExchange
<1> QED  BY <1>8 DEF t

(* A record made for an error reserves nothing. *)
LEMMA ExclusiveRecordError ==
  ASSUME NEW s \in Stores, NEW o \in Orders, NEW amount \in Nat \ {0}, ExclusiveIn(s)
  PROVE  ExclusiveIn(RecordError(s, o, amount))
<1> DEFINE t == RecordError(s, o, amount)
<1>1. CASE t = s
  BY <1>1
<1>2. CASE t # s
  <2>1. t \in Stores /\ t.stock = s.stock /\ t.orders = [s.orders EXCEPT ![o] = NewRecord(amount)]
    BY <1>2, RecordErrorType
  <2>2. t.orders[o] = NewRecord(amount) /\ \A p \in Orders \ {o} : t.orders[p] = s.orders[p]
    BY <2>1 DEF Stores
  <2> HIDE DEF t
  <2>3. t.orders[o].reserved = <<>>
    BY <2>2 DEF NewRecord
  <2>4. LinksOf(t, o) = {} /\ IsInjective(t.orders[o].reserved)
    BY <2>3, EmptyToSet DEF LinksOf
  <2>5. IsInjective(s.stock)
    BY DEF ExclusiveIn
  <2>7. /\ LinksOf(t, o) \cap ToSet(t.stock) = {}
        /\ ToSet(t.stock) \cup LinksOf(t, o) \subseteq ToSet(s.stock) \cup LinksOf(s, o)
        /\ IsInjective(t.stock)
    BY <2>1, <2>4, <2>5
  <2>6. ExclusiveIn(t)
    BY <2>1, <2>2, <2>4, <2>7, ExclusiveExchange
  <2> QED  BY <2>6 DEF t
<1> QED  BY <1>1, <1>2

(* Trimmed orders held nothing that counts. *)
LEMMA ExclusiveForget ==
  ASSUME NEW s \in Stores, NEW S \in SUBSET Orders, ExclusiveIn(s)
  PROVE  ExclusiveIn(Forget(s, S))
<1> DEFINE t == Forget(s, S)
<1>1. t \in Stores /\ t.stock = s.stock /\ \A o \in Orders : t.orders[o] = IF o \in S THEN NoRecord ELSE s.orders[o]
  BY ForgetType
<1> HIDE DEF t
<1>2. NoRecord.reserved = <<>>
  BY DEF NoRecord, NewRecord
<1>3. \A o \in Orders : LinksOf(t, o) \subseteq LinksOf(s, o)
  BY <1>1, <1>2, EmptyToSet DEF LinksOf, StatusOf
<1>4. \A o \in Orders : StatusOf(t, o) # "completed" => IsInjective(t.orders[o].reserved)
  BY <1>1, <1>2, EmptyToSet DEF ExclusiveIn, StatusOf
<1>5. \A o \in Orders : LinksOf(t, o) \cap ToSet(t.stock) = {}
  BY <1>1, <1>3 DEF ExclusiveIn
<1>6. IsInjective(t.stock)
  BY <1>1 DEF ExclusiveIn
<1>7. ExclusiveIn(t)
  BY <1>1, <1>3, <1>4, <1>5, <1>6, ExclusiveShrunk
<1> QED  BY <1>7 DEF t

(* load changes no links. *)
LEMMA ExclusiveNormalizeState ==
  ASSUME NEW s \in Stores, ExclusiveIn(s)
  PROVE  ExclusiveIn(NormalizeState(s))
<1> DEFINE t == NormalizeState(s)
<1>1. t \in Stores /\ t.stock = s.stock /\ \A o \in Orders : t.orders[o] = NormalizeRecord(s.orders[o])
  BY NormalizeStateType
<1> HIDE DEF t
<1>2. \A o \in Orders : /\ t.orders[o].reserved = s.orders[o].reserved
                        /\ StatusOf(t, o) = "completed" <=> StatusOf(s, o) = "completed"
  <2> TAKE o \in Orders
  <2>1. s.orders[o] \in OrderRecords
    BY DEF Stores
  <2> QED  BY <1>1, <2>1, NormalizeRecordType DEF StatusOf
<1>3. \A o \in Orders : LinksOf(t, o) = LinksOf(s, o)
  BY <1>2 DEF LinksOf
<1>4. t.stock = s.stock
  BY <1>1
<1> QED  BY <1>2, <1>3, <1>4 DEF ExclusiveIn, t
-----------------------------------------------------------------------------
(* What each operation does to the statuses and to the reserved links.     *)

(* Only the status of one order changes. *)
LEMMA SetStatusEffect ==
  ASSUME NEW s \in Stores, NEW o \in Orders, NEW status \in Statuses
  PROVE  \A p \in Orders :
           /\ StatusOf(SetStatus(s, o, status), p) = IF p = o THEN status ELSE StatusOf(s, p)
           /\ SetStatus(s, o, status).orders[p].reserved = s.orders[p].reserved
<1> DEFINE t == SetStatus(s, o, status)
<1>1. t.orders = [s.orders EXCEPT ![o].status = status]
  BY SetStatusType
<1>2. s.orders \in [Orders -> OrderRecords]
  BY DEF Stores
<1> HIDE DEF t
<1>3. \A p \in Orders : /\ StatusOf(t, p) = IF p = o THEN status ELSE StatusOf(s, p)
                     /\ t.orders[p].reserved = s.orders[p].reserved
  BY <1>1, <1>2 DEF OrderRecords, StatusOf
<1> QED  BY <1>3 DEF t

(* The provider is no status and no link. *)
LEMMA SetProviderEffect ==
  ASSUME NEW s \in Stores, NEW o \in Orders, NEW provider \in Providers \cup {"unset"}
  PROVE  /\ \A p \in Orders :
              /\ StatusOf(SetProvider(s, o, provider), p) = StatusOf(s, p)
              /\ SetProvider(s, o, provider).orders[p].reserved = s.orders[p].reserved
         /\ \A p \in Orders \ {o} : SetProvider(s, o, provider).orders[p] = s.orders[p]
<1> DEFINE t == SetProvider(s, o, provider)
<1>1. t = s \/ t.orders = [s.orders EXCEPT ![o].provider = provider]
  BY SetProviderType
<1>2. s.orders \in [Orders -> OrderRecords]
  BY DEF Stores
<1> HIDE DEF t
<1>3. CASE t = s
  BY <1>3 DEF t
<1>4. CASE t.orders = [s.orders EXCEPT ![o].provider = provider]
  <2>1. \A p \in Orders : /\ StatusOf(t, p) = StatusOf(s, p)
                       /\ t.orders[p].reserved = s.orders[p].reserved
    BY <1>2, <1>4 DEF OrderRecords, StatusOf
  <2>2. \A p \in Orders \ {o} : t.orders[p] = s.orders[p]
    BY <1>2, <1>4
  <2> QED  BY <2>1, <2>2 DEF t
<1> QED  BY <1>1, <1>3, <1>4

(* Nor are the prepared links. *)
LEMMA AppendPreparedLinkEffect ==
  ASSUME NEW s \in Stores, NEW o \in Orders, NEW link \in Links
  PROVE  /\ \A p \in Orders :
              /\ StatusOf(AppendPreparedLink(s, o, link), p) = StatusOf(s, p)
              /\ AppendPreparedLink(s, o, link).orders[p].reserved = s.orders[p].reserved
         /\ \A p \in Orders \ {o} : AppendPreparedLink(s, o, link).orders[p] = s.orders[p]
<1> DEFINE t == AppendPreparedLink(s, o, link)
<1> DEFINE longer == Append(s.orders[o].prepared, link)
<1>1. t = s \/ t.orders = [s.orders EXCEPT ![o].prepared = longer]
  BY AppendPreparedLinkType
<1>2. s.orders \in [Orders -> OrderRecords]
  BY DEF Stores
<1> HIDE DEF t, longer
<1>3. CASE t = s
  BY <1>3 DEF t
<1>4. CASE t.orders = [s.orders EXCEPT ![o].prepared = longer]
  <2>1. \A p \in Orders : /\ StatusOf(t, p) = StatusOf(s, p)
                       /\ t.orders[p].reserved = s.orders[p].reserved
    BY <1>2, <1>4 DEF OrderRecords, StatusOf
  <2>2. \A p \in Orders \ {o} : t.orders[p] = s.orders[p]
    BY <1>2, <1>4
  <2> QED  BY <2>1, <2>2 DEF t
<1> QED  BY <1>1, <1>3, <1>4

(* Nor is the mark of the warning. *)
LEMMA MarkShortageNotifiedEffect ==
  ASSUME NEW s \in Stores, NEW o \in Orders
  PROVE  /\ \A p \in Orders :
              /\ StatusOf(MarkShortageNotified(s, o), p) = StatusOf(s, p)
              /\ MarkShortageNotified(s, o).orders[p].reserved = s.orders[p].reserved
         /\ \A p \in Orders \ {o} : MarkShortageNotified(s, o).orders[p] = s.orders[p]
<1> DEFINE t == MarkShortageNotified(s, o)
<1>1. t.orders = [s.orders EXCEPT ![o].notified = TRUE]
  BY MarkShortageNotifiedType
<1>2. s.orders \in [Orders -> OrderRecords]
  BY DEF Stores
<1> HIDE DEF t
<1>3. \A p \in Orders : /\ StatusOf(t, p) = StatusOf(s, p)
                     /\ t.orders[p].reserved = s.orders[p].reserved
  BY <1>1, <1>2 DEF OrderRecords, StatusOf
<1>4. \A p \in Orders \ {o} : t.orders[p] = s.orders[p]
  BY <1>1, <1>2
<1> QED  BY <1>3, <1>4 DEF t

(* A gist makes the order gist_created. *)
LEMMA MarkGistCreatedEffect ==
  ASSUME NEW s \in Stores, NEW o \in Orders
  PROVE  /\ \A p \in Orders :
              /\ StatusOf(MarkGistCreated(s, o), p) = IF p = o THEN "gist_created" ELSE StatusOf(s, p)
              /\ MarkGistCreated(s, o).orders[p].reserved = s.orders[p].reserved
         /\ \A p \in Orders \ {o} : MarkGistCreated(s, o).orders[p] = s.orders[p]
<1> DEFINE t == MarkGistCreated(s, o)
<1>1. t.orders = [s.orders EXCEPT ![o] =
                   [s.orders[o] EXCEPT !.status = "gist_created", !.provider = "github", !.prepared = <<Gist>>]]
  BY MarkGistCreatedType
<1>2. s.orders \in [Orders -> OrderRecords]
  BY DEF Stores
<1> HIDE DEF t
<1>3. \A p \in Orders : /\ StatusOf(t, p) = IF p = o THEN "gist_created" ELSE StatusOf(s, p)
                     /\ t.orders[p].reserved = s.orders[p].reserved
  BY <1>1, <1>2 DEF OrderRecords, StatusOf
<1>4. \A p \in Orders \ {o} : t.orders[p] = s.orders[p]
  BY <1>1, <1>2
<1> QED  BY <1>3, <1>4 DEF t

(* An error of an order that has a record changes nothing modelled here. *)
LEMMA RecordErrorEffect ==
  ASSUME NEW s \in Stores, NEW o \in Orders, NEW amount \in Nat \ {0}
  PROVE  \A p \in Orders :
           \/ RecordError(s, o, amount).orders[p] = s.orders[p]
           \/ /\ p = o
              /\ StatusOf(s, p) = "absent"
              /\ StatusOf(RecordError(s, o, amount), p) = "retryable"
<1> DEFINE t == RecordError(s, o, amount)
<1>1. \/ t = s
      \/ StatusOf(s, o) = "absent" /\ t.orders = [s.orders EXCEPT ![o] = NewRecord(amount)]
  BY RecordErrorType
<1>2. s.orders \in [Orders -> OrderRecords] /\ NewRecord(amount).status = "retryable"
  BY NewRecordType DEF Stores
<1> HIDE DEF t
<1>3. \A p \in Orders :
        \/ t.orders[p] = s.orders[p]
        \/ p = o /\ StatusOf(s, p) = "absent" /\ StatusOf(t, p) = "retryable"
  BY <1>1, <1>2 DEF StatusOf
<1> QED  BY <1>3 DEF t

(* reserve leaves a held order alone; another becomes reserved or waits. *)
LEMMA ReserveEffect ==
  ASSUME NEW s \in Stores, NEW o \in Orders, NEW amount \in Nat \ {0}, NEW allOrNothing \in BOOLEAN
  PROVE  \A p \in Orders :
           \/ Reserve(s, o, amount, allOrNothing).orders[p] = s.orders[p]
           \/ /\ p = o
              /\ StatusOf(s, p) \notin HeldStatuses
              /\ StatusOf(Reserve(s, o, amount, allOrNothing), p) \in {"reserved", "waiting_stock"}
<1> DEFINE order == IF StatusOf(s, o) = "absent" THEN NewRecord(amount) ELSE s.orders[o]
           take  == ToTake(Len(s.stock), order.requested, allOrNothing)
           record == [order EXCEPT !.reserved = SubSeq(s.stock, 1, take),
                                   !.status   = IF take > 0 THEN "reserved" ELSE "waiting_stock"]
           t == Reserve(s, o, amount, allOrNothing)
<1>1. CASE StatusOf(s, o) \in HeldStatuses
  BY <1>1 DEF Reserve
<1>2. CASE StatusOf(s, o) \notin HeldStatuses
  <2>1. order \in OrderRecords
    BY NewRecordType DEF Stores
  <2>2. record.status \in {"reserved", "waiting_stock"}
    BY <2>1 DEF OrderRecords
  <2>3. t = [stock |-> SubSeq(s.stock, take + 1, Len(s.stock)), orders |-> [s.orders EXCEPT ![o] = record]]
    BY <1>2 DEF Reserve
  <2> HIDE DEF record, take, order, t
  <2>4. t.orders = [s.orders EXCEPT ![o] = record]
    BY <2>3
  <2>5. t.orders[o] = record /\ \A p \in Orders \ {o} : t.orders[p] = s.orders[p]
    BY <2>4 DEF Stores
  <2>6. StatusOf(t, o) \in {"reserved", "waiting_stock"}
    BY <2>2, <2>5 DEF StatusOf
  <2> QED  BY <1>2, <2>5, <2>6 DEF t
<1> QED  BY <1>1, <1>2

(* A reservation put back makes the order retryable. *)
LEMMA RestoreReservationEffect ==
  ASSUME NEW s \in Stores, NEW o \in Orders
  PROVE  \A p \in Orders :
           \/ RestoreReservation(s, o).orders[p] = s.orders[p]
           \/ p = o /\ StatusOf(RestoreReservation(s, o), p) = "retryable"
<1>1. RestoreReservation(s, o).orders[o].status = "retryable"
  BY RestoreReservationType
<1>2. \A p \in Orders \ {o} : RestoreReservation(s, o).orders[p] = s.orders[p]
  BY RestoreReservationType
<1> QED  BY <1>1, <1>2 DEF StatusOf

(* load changes the two statuses that a restart can interrupt. *)
LEMMA NormalizeStateEffect ==
  ASSUME NEW s \in Stores
  PROVE  \A p \in Orders :
           /\ StatusOf(NormalizeState(s), p) =
                CASE StatusOf(s, p) = "gist_created" -> "awaiting_confirmation"
                  [] StatusOf(s, p) = "sending"      -> "send_failed"
                  [] OTHER                           -> StatusOf(s, p)
           /\ NormalizeState(s).orders[p].reserved = s.orders[p].reserved
<1>1. SUFFICES ASSUME NEW p \in Orders
      PROVE  /\ StatusOf(NormalizeState(s), p) =
                  CASE StatusOf(s, p) = "gist_created" -> "awaiting_confirmation"
                    [] StatusOf(s, p) = "sending"      -> "send_failed"
                    [] OTHER                           -> StatusOf(s, p)
             /\ NormalizeState(s).orders[p].reserved = s.orders[p].reserved
  OBVIOUS
<1>2. s.orders[p] \in OrderRecords
  BY DEF Stores
<1>3. NormalizeState(s).orders[p] = NormalizeRecord(s.orders[p])
  BY NormalizeStateType
<1> QED  BY <1>2, <1>3, NormalizeRecordType DEF StatusOf

(* Orders start without records. *)
LEMMA DefaultStoreEffect == \A p \in Orders : StatusOf(DefaultStore, p) = "absent"
BY NoRecordType DEF DefaultStore, StatusOf
-----------------------------------------------------------------------------
(* The operations that change neither stock nor reservation keep the links *)
(* exclusive, as long as a completed order stays completed.                *)

(* A completed order keeps nothing, so it may not become another. *)
LEMMA ExclusiveSetStatus ==
  ASSUME NEW s \in Stores, NEW o \in Orders, NEW status \in Statuses, ExclusiveIn(s),
         status = "completed" \/ StatusOf(s, o) # "completed"
  PROVE  ExclusiveIn(SetStatus(s, o, status))
<1> DEFINE t == SetStatus(s, o, status)
<1>1. t \in Stores /\ t.stock = s.stock
  BY SetStatusType
<1>2. t.orders = [s.orders EXCEPT ![o].status = status]
  BY SetStatusType
<1>3. /\ t.orders[o].reserved = s.orders[o].reserved
      /\ StatusOf(s, o) = "completed" => StatusOf(t, o) = "completed"
  BY SetStatusEffect
<1>4. s.orders \in [Orders -> OrderRecords]
  BY DEF Stores
<1> HIDE DEF t
<1>5. \A p \in Orders \ {o} : t.orders[p] = s.orders[p]
  BY <1>2, <1>4
<1>6. ExclusiveIn(t)
  BY <1>1, <1>3, <1>5, ExclusiveKept
<1> QED  BY <1>6 DEF t

(* The provider changes. *)
LEMMA ExclusiveSetProvider ==
  ASSUME NEW s \in Stores, NEW o \in Orders, NEW provider \in Providers \cup {"unset"}, ExclusiveIn(s)
  PROVE  ExclusiveIn(SetProvider(s, o, provider))
<1> DEFINE t == SetProvider(s, o, provider)
<1>1. t \in Stores /\ t.stock = s.stock
  BY SetProviderType
<1>2. t = s \/ t.orders = [s.orders EXCEPT ![o].provider = provider]
  BY SetProviderType
<1>3. /\ t.orders[o].reserved = s.orders[o].reserved
      /\ StatusOf(s, o) = "completed" => StatusOf(t, o) = "completed"
  BY SetProviderEffect
<1>4. s.orders \in [Orders -> OrderRecords]
  BY DEF Stores
<1> HIDE DEF t
<1>5. \A p \in Orders \ {o} : t.orders[p] = s.orders[p]
  BY <1>2, <1>4
<1>6. ExclusiveIn(t)
  BY <1>1, <1>3, <1>5, ExclusiveKept
<1> QED  BY <1>6 DEF t

(* A link has been prepared. *)
LEMMA ExclusiveAppendPreparedLink ==
  ASSUME NEW s \in Stores, NEW o \in Orders, NEW link \in Links, ExclusiveIn(s)
  PROVE  ExclusiveIn(AppendPreparedLink(s, o, link))
<1> DEFINE t == AppendPreparedLink(s, o, link)
<1> DEFINE longer == Append(s.orders[o].prepared, link)
<1>1. t \in Stores /\ t.stock = s.stock
  BY AppendPreparedLinkType
<1>2. t = s \/ t.orders = [s.orders EXCEPT ![o].prepared = longer]
  BY AppendPreparedLinkType
<1>3. /\ t.orders[o].reserved = s.orders[o].reserved
      /\ StatusOf(s, o) = "completed" => StatusOf(t, o) = "completed"
  BY AppendPreparedLinkEffect
<1>4. s.orders \in [Orders -> OrderRecords]
  BY DEF Stores
<1> HIDE DEF t, longer
<1>5. \A p \in Orders \ {o} : t.orders[p] = s.orders[p]
  BY <1>2, <1>4
<1>6. ExclusiveIn(t)
  BY <1>1, <1>3, <1>5, ExclusiveKept
<1> QED  BY <1>6 DEF t

(* The warning is marked. *)
LEMMA ExclusiveMarkShortageNotified ==
  ASSUME NEW s \in Stores, NEW o \in Orders, ExclusiveIn(s)
  PROVE  ExclusiveIn(MarkShortageNotified(s, o))
<1> DEFINE t == MarkShortageNotified(s, o)
<1>1. t \in Stores /\ t.stock = s.stock
  BY MarkShortageNotifiedType
<1>2. t.orders = [s.orders EXCEPT ![o].notified = TRUE]
  BY MarkShortageNotifiedType
<1>3. /\ t.orders[o].reserved = s.orders[o].reserved
      /\ StatusOf(s, o) = "completed" => StatusOf(t, o) = "completed"
  BY MarkShortageNotifiedEffect
<1>4. s.orders \in [Orders -> OrderRecords]
  BY DEF Stores
<1> HIDE DEF t
<1>5. \A p \in Orders \ {o} : t.orders[p] = s.orders[p]
  BY <1>2, <1>4
<1>6. ExclusiveIn(t)
  BY <1>1, <1>3, <1>5, ExclusiveKept
<1> QED  BY <1>6 DEF t

(* The gist has been created. *)
LEMMA ExclusiveMarkGistCreated ==
  ASSUME NEW s \in Stores, NEW o \in Orders, ExclusiveIn(s), StatusOf(s, o) # "completed"
  PROVE  ExclusiveIn(MarkGistCreated(s, o))
<1> DEFINE t == MarkGistCreated(s, o)
<1>1. t \in Stores /\ t.stock = s.stock
  BY MarkGistCreatedType
<1>2. t.orders = [s.orders EXCEPT ![o] =
                 [s.orders[o] EXCEPT !.status = "gist_created", !.provider = "github", !.prepared = <<Gist>>]]
  BY MarkGistCreatedType
<1>3. /\ t.orders[o].reserved = s.orders[o].reserved
      /\ StatusOf(s, o) = "completed" => StatusOf(t, o) = "completed"
  BY MarkGistCreatedEffect
<1>4. s.orders \in [Orders -> OrderRecords]
  BY DEF Stores
<1> HIDE DEF t
<1>5. \A p \in Orders \ {o} : t.orders[p] = s.orders[p]
  BY <1>2, <1>4
<1>6. ExclusiveIn(t)
  BY <1>1, <1>3, <1>5, ExclusiveKept
<1> QED  BY <1>6 DEF t

-----------------------------------------------------------------------------

(* Layer 1: the types, and a handler in progress is about an order. *)
TypeInv ==
  /\ TypeOK
  /\ ~Free => op.order \in Orders

(* Statuses that only the holder of the send, or a trimming, may leave. *)
Final == {"sending", "completed", "send_failed", "cancelled"}

Preparing == {"pin", "shortage", "warn", "prepare", "gist", "shorten", "awaiting"}

(* Layer 2: the memory is what the file says, up to what load changes, or  *)
(* the storage is read-only; an order that is prepared is not past its     *)
(* confirmation, and one that is being sent says so.                       *)
Agreement ==
  IF writable
  THEN mem = disk \/ mem = NormalizeState(disk)
  ELSE mem = DefaultStore /\ op.pc \in {"idle", "deliver", "confirm"}

Position ==
  /\ op.pc \in Preparing => Status \notin Final
  /\ op.pc \in {"send", "complete", "fail"} => Status = "sending"

StepInv == Agreement /\ Position

(* Layer 3 is LinksExclusive itself.  Layer 4: what a step may do to an    *)
(* order that was sent or cancelled.                                       *)
Delivered == {"sending", "completed", "send_failed"}

FinalKept ==
  \A o \in Orders :
    /\ StatusOf(disk, o) \in Delivered /\ o \notin forgotten' => StatusOf(disk', o) \in Delivered
    /\ StatusOf(disk, o) = "cancelled" =>
         StatusOf(disk', o) = "cancelled" /\ disk'.orders[o].reserved = disk.orders[o].reserved

(* Layer 5: the messages. *)
MessageInv ==
  /\ AtMostOneMessage
  /\ DeliveredStaysDelivered
  /\ At("send") /\ op.order \notin forgotten => sends[op.order] = 0
-----------------------------------------------------------------------------
(* Layer 1. *)

(* A value that is one of the steps may be the next step of a handler. *)
LEMMA GotoType ==
  ASSUME TypeInv, NEW pc \in Steps, Goto(pc)
  PROVE  op' \in Operations /\ op'.order = op.order
BY DEF TypeInv, TypeOK, Operations, Goto

(* A handler that returns leaves the service idle. *)
LEMMA ReturnType ==
  ASSUME Return
  PROVE  op' \in Operations /\ op'.pc = "idle"
<1>1. <<>> \in Seq(Links)
  BY EmptySeq
<1> QED  BY <1>1 DEF Return, Idle, Operations, Steps, Providers

(* deliver is called about the order of the event. *)
LEMMA CallDeliverType ==
  ASSUME NEW o \in Orders, CallDeliver(o)
  PROVE  op' \in Operations /\ op'.order = o /\ op'.pc = "deliver"
<1>1. <<>> \in Seq(Links)
  BY EmptySeq
<1>2. 1..MaxAmount \subseteq Nat \ {0}
  BY DeliveryAssumption
<1>3. PICK amount \in 1..MaxAmount, allOrNothing \in BOOLEAN, provider \in Providers :
        op' = [pc |-> "deliver", order |-> o, amount |-> amount, allOrNothing |-> allOrNothing,
               provider |-> provider, todo |-> <<>>]
  BY DEF CallDeliver
<1>4. amount \in Nat \ {0}
  BY <1>2
<1> QED  BY <1>1, <1>3, <1>4 DEF Operations, Steps

(* confirm_order is called about the order of the button. *)
LEMMA CallConfirmType ==
  ASSUME NEW o \in Orders, CallConfirm(o)
  PROVE  op' \in Operations /\ op'.order = o /\ op'.pc = "confirm"
<1>1. <<>> \in Seq(Links)
  BY EmptySeq
<1>2. op' = [pc |-> "confirm", order |-> o, amount |-> 1, allOrNothing |-> FALSE,
             provider |-> "unset", todo |-> <<>>]
  BY DEF CallConfirm, Idle
<1> QED  BY <1>1, <1>2 DEF Operations, Steps

(* So is the delivery that a new-order event starts, if it starts one. *)
LEMMA HandleNewOrderType ==
  ASSUME TypeInv, NEW o \in Orders, HandleNewOrder(o)
  PROVE  /\ op' \in Operations
         /\ \/ op' = op
            \/ op'.order = o /\ op'.pc = "deliver"
<1>1. op \in Operations
  BY DEF TypeInv, TypeOK
<1>2. CASE UNCHANGED op
  BY <1>1, <1>2
<1>3. CASE CallDeliver(o)
  BY <1>3, CallDeliverType
<1> QED  BY <1>2, <1>3 DEF HandleNewOrder

(* The types hold at the start. *)
LEMMA TypeInit == Init => TypeInv
<1> SUFFICES ASSUME Init PROVE TypeInv
  OBVIOUS
<1>1. Idle \in Operations
  <2>1. <<>> \in Seq(Links)
    BY EmptySeq
  <2> QED  BY <2>1 DEF Idle, Operations, Steps, Providers
<1>2. Free
  BY DEF Init, Free, At, Idle
<1> QED  BY <1>1, <1>2, DefaultStoreType DEF Init, TypeInv, TypeOK, Modes

(* Every step of the program keeps the types. *)
LEMMA TypeNext == TypeInv /\ [Next]_vars => TypeInv'
<1> SUFFICES ASSUME TypeInv, [Next]_vars PROVE TypeInv'
  OBVIOUS
<1> USE DEF store, panel, history, counters
<1> DEFINE HandlerTyped == op' \in Operations /\ (op'.pc # "idle" => op'.order \in Orders)
           StoreTyped   == mem' \in Stores /\ disk' \in Stores
<1>1. /\ op \in Operations /\ mem \in Stores /\ disk \in Stores
      /\ op.pc # "idle" => op.order \in Orders
      /\ op.amount \in Nat \ {0} /\ op.allOrNothing \in BOOLEAN
      /\ op.provider \in Providers \cup {"unset"} /\ op.todo \in Seq(Links)
  BY DEF TypeInv, TypeOK, Free, At, Operations
<1>2. UNCHANGED op => HandlerTyped
  BY <1>1
<1>3. UNCHANGED store => StoreTyped
  BY <1>1
<1>4. ASSUME NEW t \in Stores, Commit(t) PROVE StoreTyped
  BY <1>4 DEF Commit
<1>5. ASSUME NEW pc \in Steps, op.order \in Orders, Goto(pc) PROVE HandlerTyped
  BY <1>5, GotoType
<1>6. Return => HandlerTyped
  BY ReturnType
<1>7. ASSUME HandlerTyped, StoreTyped, writable' \in BOOLEAN, mode' \in Modes, timers' \in [Orders -> Nat],
             cards' \subseteq Orders, offered' \subseteq Orders,
             received' \in [Orders -> SUBSET (Links \cup {Gist})], sends' \in [Orders -> Nat],
             warnings' \in [Orders -> Nat], missed' \subseteq Orders, forgotten' \subseteq Orders, reused' \subseteq Links,
             events' \in Nat, restarts' \in Nat, uploads' \in Nat
      PROVE  TypeInv'
  BY <1>7 DEF TypeInv, TypeOK, Free, At
<1>8. /\ writable \in BOOLEAN /\ mode \in Modes /\ timers \in [Orders -> Nat]
      /\ cards \subseteq Orders /\ offered \subseteq Orders
      /\ received \in [Orders -> SUBSET (Links \cup {Gist})] /\ sends \in [Orders -> Nat]
      /\ warnings \in [Orders -> Nat] /\ missed \subseteq Orders
      /\ forgotten \subseteq Orders /\ reused \subseteq Links
      /\ events \in Nat /\ restarts \in Nat /\ uploads \in Nat
  BY DEF TypeInv, TypeOK
<1> HIDE DEF HandlerTyped, StoreTyped
<1>9. HandlerTyped <=> op' \in Operations /\ (op'.pc # "idle" => op'.order \in Orders)
  BY DEF HandlerTyped
<1>10. ASSUME NEW o \in Orders, NewOrderEvent(o)
       PROVE  TypeInv'
  <2>1. HandlerTyped
    BY <1>1, <1>2, <1>9, <1>10, HandleNewOrderType DEF NewOrderEvent
  <2>2. StoreTyped
    BY <1>3, <1>10 DEF NewOrderEvent
  <2> QED  BY <1>7, <1>8, <1>10, <2>1, <2>2 DEF NewOrderEvent
<1>11. ASSUME NEW o \in Orders, TimerFires(o)
       PROVE  TypeInv'
  <2>1. HandlerTyped
    BY <1>1, <1>2, <1>9, <1>11, HandleNewOrderType DEF TimerFires
  <2>2. StoreTyped
    BY <1>3, <1>11 DEF TimerFires
  <2> QED  BY <1>7, <1>8, <1>11, <2>1, <2>2 DEF TimerFires
<1>12. ASSUME NEW o \in Orders, RetryOrder(o)
       PROVE  TypeInv'
  <2>1. HandlerTyped
    BY <1>2, <1>9, <1>12, CallDeliverType, CallConfirmType DEF RetryOrder
  <2>2. StoreTyped
    BY <1>3, <1>12 DEF RetryOrder
  <2> QED  BY <1>7, <1>8, <1>12, <2>1, <2>2 DEF RetryOrder, NotifyConfirmation
<1>13. ASSUME NEW o \in Orders, PressConfirm(o)
       PROVE  TypeInv'
  <2>1. HandlerTyped
    BY <1>9, <1>13, CallConfirmType DEF PressConfirm
  <2>2. StoreTyped
    BY <1>3, <1>13 DEF PressConfirm
  <2> QED  BY <1>7, <1>8, <1>13, <2>1, <2>2 DEF PressConfirm
<1>14. ASSUME NEW o \in Orders, PressCancel(o)
       PROVE  TypeInv'
  <2>1. "cancelled" \in Statuses
    BY DEF Statuses
  <2>2. HandlerTyped
    BY <1>2, <1>14 DEF PressCancel
  <2>3. StoreTyped
    BY <1>1, <1>4, <1>14, <2>1, SetStatusType DEF PressCancel
  <2> QED  BY <1>7, <1>8, <1>14, <2>2, <2>3 DEF PressCancel
<1>15. ASSUME DeliverSettled
       PROVE  TypeInv'
  <2>1. op.order \in Orders
    BY <1>1, <1>15 DEF DeliverSettled, At
  <2>2. HandlerTyped
    BY <1>5, <1>6, <1>15, <2>1 DEF DeliverSettled, Steps
  <2>3. StoreTyped
    BY <1>3, <1>15 DEF DeliverSettled
  <2> QED  BY <1>7, <1>8, <1>15, <2>2, <2>3 DEF DeliverSettled
<1>16. ASSUME DeliverMisconfigured
       PROVE  TypeInv'
  <2>1. op.order \in Orders
    BY <1>1, <1>16 DEF DeliverMisconfigured, At
  <2>2. HandlerTyped
    BY <1>6, <1>16 DEF DeliverMisconfigured
  <2>3. StoreTyped
    BY <1>1, <1>4, <1>16, <2>1, RecordErrorType DEF DeliverMisconfigured
  <2> QED  BY <1>7, <1>8, <1>16, <2>2, <2>3 DEF DeliverMisconfigured
<1>17. ASSUME DeliverReserve
       PROVE  TypeInv'
  <2>1. op.order \in Orders
    BY <1>1, <1>17 DEF DeliverReserve, At
  <2>2. HandlerTyped
    BY <1>5, <1>6, <1>17, <2>1 DEF DeliverReserve, Steps
  <2>3. StoreTyped
    BY <1>1, <1>4, <1>17, <2>1, ReserveType DEF DeliverReserve
  <2> QED  BY <1>7, <1>8, <1>17, <2>2, <2>3 DEF DeliverReserve
<1>18. ASSUME PinProvider
       PROVE  TypeInv'
  <2>1. op.order \in Orders
    BY <1>1, <1>18 DEF PinProvider, At
  <2>2. HandlerTyped
    BY <1>5, <1>18, <2>1 DEF PinProvider, Steps
  <2>3. StoreTyped
    BY <1>1, <1>4, <1>18, <2>1, SetProviderType DEF PinProvider
  <2> QED  BY <1>7, <1>8, <1>18, <2>2, <2>3 DEF PinProvider
<1>19. ASSUME NotifyShortageOnce
       PROVE  TypeInv'
  <2>1. op.order \in Orders
    BY <1>1, <1>19 DEF NotifyShortageOnce, At
  <2>2. HandlerTyped
    BY <1>5, <1>6, <1>19, <2>1 DEF NotifyShortageOnce, AfterShortage, Steps
  <2>3. StoreTyped
    BY <1>1, <1>3, <1>4, <1>19, <2>1, MarkShortageNotifiedType DEF NotifyShortageOnce
  <2> QED  BY <1>7, <1>8, <1>19, <2>2, <2>3 DEF NotifyShortageOnce
<1>20. ASSUME WarnShortage
       PROVE  TypeInv'
  <2>1. op.order \in Orders
    BY <1>1, <1>20 DEF WarnShortage, At
  <2>2. warnings' \in [Orders -> Nat]
    BY <1>8, <1>20, <2>1 DEF WarnShortage
  <2>3. UNCHANGED <<store, writable, mode, timers, panel, received, sends, forgotten, reused, counters>>
    BY <1>20 DEF WarnShortage
  <2>4. HandlerTyped
    BY <1>5, <1>6, <1>20, <2>1 DEF WarnShortage, AfterShortage, Steps
  <2>5. StoreTyped
    BY <1>3, <1>20 DEF WarnShortage
  <2> QED  BY <1>7, <1>8, <1>20, <2>1, <2>2, <2>3, <2>4, <2>5 DEF WarnShortage
<1>21. ASSUME StartPreparation
       PROVE  TypeInv'
  <2>1. op.order \in Orders
    BY <1>1, <1>21 DEF StartPreparation, At
  <2>2. HandlerTyped
    <3>1. CASE op' = [op EXCEPT !.pc = "shorten",
                            !.todo = SubSeq(Record.reserved, Len(Record.prepared) + 1, Len(Record.reserved))]
      <4>1. /\ Record.reserved \in Seq(Links)
            /\ Len(Record.prepared) \in Nat /\ Len(Record.reserved) \in Nat
        BY <1>1, <2>1, LenProperties DEF Record, Stores, OrderRecords
      <4>2. \A i \in Len(Record.prepared) + 1..Len(Record.reserved) : Record.reserved[i] \in Links
        BY <4>1, ElementOfSeq
      <4>3. SubSeq(Record.reserved, Len(Record.prepared) + 1, Len(Record.reserved)) \in Seq(Links)
        BY <4>1, <4>2, SubSeqProperties
      <4> QED  BY <1>1, <1>9, <2>1, <3>1, <4>3 DEF Operations, Steps
    <3> QED  BY <1>5, <1>21, <2>1, <3>1 DEF StartPreparation, Steps
  <2>3. StoreTyped
    BY <1>1, <1>4, <1>21, <2>1, ReserveType DEF StartPreparation
  <2> QED  BY <1>7, <1>8, <1>21, <2>2, <2>3 DEF StartPreparation
<1>22. ASSUME CreateGist
       PROVE  TypeInv'
  <2>1. op.order \in Orders
    BY <1>1, <1>22 DEF CreateGist, At
  <2>2. HandlerTyped
    BY <1>5, <1>6, <1>22, <2>1 DEF CreateGist, Steps
  <2>3. StoreTyped
    BY <1>1, <1>4, <1>22, <2>1, MarkGistCreatedType, RestoreReservationType DEF CreateGist
  <2> QED  BY <1>7, <1>8, <1>22, <2>2, <2>3 DEF CreateGist
<1>23. ASSUME ShortenLink
       PROVE  TypeInv'
  <2>1. op.order \in Orders
    BY <1>1, <1>23 DEF ShortenLink, At
  <2>2. op.todo # <<>> /\ Head(op.todo) \in Links /\ "preparation_failed" \in Statuses
    BY <1>1, <1>23, HeadTailProperties DEF ShortenLink, Statuses
  <2>3. HandlerTyped
    <3>1. CASE op' = [op EXCEPT !.todo = Tail(@)]
      <4>1. Tail(op.todo) \in Seq(Links)
        BY <1>1, <2>2, HeadTailProperties
      <4> QED  BY <1>1, <1>9, <2>1, <3>1, <4>1 DEF Operations
    <3> QED  BY <1>6, <1>23, <3>1 DEF ShortenLink
  <2>4. StoreTyped
    BY <1>1, <1>4, <1>23, <2>1, <2>2, AppendPreparedLinkType, SetStatusType DEF ShortenLink
  <2> QED  BY <1>7, <1>8, <1>23, <2>3, <2>4 DEF ShortenLink
<1>24. ASSUME ShortenDone
       PROVE  TypeInv'
  <2>1. op.order \in Orders
    BY <1>1, <1>24 DEF ShortenDone, At
  <2>2. HandlerTyped
    BY <1>5, <1>24, <2>1 DEF ShortenDone, Steps
  <2>3. StoreTyped
    BY <1>3, <1>24 DEF ShortenDone
  <2> QED  BY <1>7, <1>8, <1>24, <2>2, <2>3 DEF ShortenDone
<1>25. ASSUME RequestConfirmation
       PROVE  TypeInv'
  <2>1. op.order \in Orders
    BY <1>1, <1>25 DEF RequestConfirmation, At
  <2>2. "awaiting_confirmation" \in Statuses
    BY DEF Statuses
  <2>3. HandlerTyped
    BY <1>6, <1>9, <1>25, <2>1, CallConfirmType DEF RequestConfirmation
  <2>4. StoreTyped
    BY <1>1, <1>4, <1>25, <2>1, <2>2, SetStatusType DEF RequestConfirmation
  <2> QED  BY <1>7, <1>8, <1>25, <2>1, <2>3, <2>4 DEF RequestConfirmation, NotifyConfirmation
<1>26. ASSUME BeginSend
       PROVE  TypeInv'
  <2>1. op.order \in Orders
    BY <1>1, <1>26 DEF BeginSend, At
  <2>2. "sending" \in Statuses
    BY DEF Statuses
  <2>3. HandlerTyped
    BY <1>5, <1>6, <1>26, <2>1 DEF BeginSend, Steps
  <2>4. StoreTyped
    BY <1>1, <1>3, <1>4, <1>26, <2>1, <2>2, SetStatusType DEF BeginSend
  <2> QED  BY <1>7, <1>8, <1>26, <2>3, <2>4 DEF BeginSend
<1>27. ASSUME SendMessage
       PROVE  TypeInv'
  <2>1. op.order \in Orders
    BY <1>1, <1>27 DEF SendMessage, At
  <2>2. MessageLinks \subseteq Links \cup {Gist}
    <3>1. Record.reserved \in Seq(Links) /\ Record.prepared \in Seq(Links \cup {Gist})
      BY <1>1, <2>1 DEF Record, Stores, OrderRecords
    <3> QED  BY <3>1, ToSetSeq DEF MessageLinks
  <2>3. HandlerTyped
    BY <1>5, <1>27, <2>1 DEF SendMessage, Steps
  <2>4. StoreTyped
    BY <1>3, <1>27 DEF SendMessage
  <2> QED  BY <1>7, <1>8, <1>27, <2>2, <2>3, <2>4 DEF SendMessage
<1>28. ASSUME MarkCompleted
       PROVE  TypeInv'
  <2>1. op.order \in Orders
    BY <1>1, <1>28 DEF MarkCompleted, At
  <2>2. PICK S \in Trimmed(SetStatus(mem, op.order, "completed")) :
          Commit(Forget(SetStatus(mem, op.order, "completed"), S)) /\ forgotten' = forgotten \cup S
    BY <1>28 DEF MarkCompleted
  <2>3. S \in SUBSET Orders /\ Forget(SetStatus(mem, op.order, "completed"), S) \in Stores
    <3>1. S \in SUBSET Orders
      BY DEF Trimmed, CompletedOrders
    <3>2. SetStatus(mem, op.order, "completed") \in Stores
      BY <1>1, <2>1, SetStatusType DEF Statuses
    <3> QED  BY <3>1, <3>2, ForgetType
  <2>4. HandlerTyped
    BY <1>6, <1>28 DEF MarkCompleted
  <2>5. StoreTyped
    BY <1>4, <1>28, <2>2, <2>3 DEF MarkCompleted
  <2> QED  BY <1>7, <1>8, <1>28, <2>2, <2>3, <2>4, <2>5 DEF MarkCompleted
<1>29. ASSUME MarkSendFailed
       PROVE  TypeInv'
  <2>1. op.order \in Orders
    BY <1>1, <1>29 DEF MarkSendFailed, At
  <2>2. "send_failed" \in Statuses
    BY DEF Statuses
  <2>3. HandlerTyped
    BY <1>6, <1>29 DEF MarkSendFailed
  <2>4. StoreTyped
    BY <1>1, <1>4, <1>29, <2>1, <2>2, SetStatusType DEF MarkSendFailed
  <2> QED  BY <1>7, <1>8, <1>29, <2>3, <2>4 DEF MarkSendFailed
<1>30. ASSUME Raise
       PROVE  TypeInv'
  <2>1. HandlerTyped
    BY <1>6, <1>30 DEF Raise
  <2>2. StoreTyped
    BY <1>3, <1>30 DEF Raise
  <2> QED  BY <1>7, <1>8, <1>30, <2>1, <2>2 DEF Raise
<1>31. ASSUME ShowWaitingPage
       PROVE  TypeInv'
  <2>1. HandlerTyped
    BY <1>2, <1>31 DEF ShowWaitingPage
  <2>2. StoreTyped
    BY <1>3, <1>31 DEF ShowWaitingPage
  <2> QED  BY <1>7, <1>8, <1>31, <2>1, <2>2 DEF ShowWaitingPage, Listed
<1>32. ASSUME UploadLinks
       PROVE  TypeInv'
  <2>1. PICK links \in SUBSET Links :
          \E batch \in NewLinks(mem, links) :
            /\ Commit(AddLinks(mem, batch))
            /\ reused' = reused \cup (ToSet(batch) \cap UNION {received[o] : o \in Orders})
    BY <1>32 DEF UploadLinks
  <2>2. PICK batch \in NewLinks(mem, links) :
          /\ Commit(AddLinks(mem, batch))
          /\ reused' = reused \cup (ToSet(batch) \cap UNION {received[o] : o \in Orders})
    BY <2>1
  <2>3. batch \in Seq(Links)
    BY <1>1, NewLinksType
  <2>4. reused' \subseteq Links
    BY <1>8, <2>2, <2>3, ToSetSeq
  <2>5. HandlerTyped
    BY <1>2, <1>32 DEF UploadLinks
  <2>6. StoreTyped
    BY <1>1, <1>4, <2>2, <2>3, AddLinksType
  <2> QED  BY <1>7, <1>8, <1>32, <2>4, <2>5, <2>6 DEF UploadLinks
<1>33. ASSUME DeleteLink
       PROVE  TypeInv'
  <2>1. HandlerTyped
    BY <1>2, <1>33 DEF DeleteLink
  <2>2. StoreTyped
    BY <1>1, <1>4, <1>33, RemoveStockLinkType DEF DeleteLink
  <2> QED  BY <1>7, <1>8, <1>33, <2>1, <2>2 DEF DeleteLink
<1>34. ASSUME ClearLinks
       PROVE  TypeInv'
  <2>1. HandlerTyped
    BY <1>2, <1>34 DEF ClearLinks
  <2>2. StoreTyped
    BY <1>1, <1>4, <1>34, ClearStockType DEF ClearLinks
  <2> QED  BY <1>7, <1>8, <1>34, <2>1, <2>2 DEF ClearLinks
<1>35. ASSUME SetMode
       PROVE  TypeInv'
  <2>1. HandlerTyped
    BY <1>2, <1>35 DEF SetMode
  <2>2. StoreTyped
    BY <1>3, <1>35 DEF SetMode
  <2> QED  BY <1>7, <1>8, <1>35, <2>1, <2>2 DEF SetMode
<1>36. ASSUME Restart
       PROVE  TypeInv'
  <2>1. timers' \in [Orders -> Nat] /\ writable' \in BOOLEAN
    BY <1>36 DEF Restart
  <2>2. HandlerTyped
    BY <1>6, <1>36 DEF Restart
  <2>3. StoreTyped
    <3>1. mem' \in Stores
      BY <1>1, <1>36, NormalizeStateType, DefaultStoreType DEF Restart
    <3> QED  BY <1>1, <1>36, <3>1 DEF Restart, StoreTyped
  <2>4. missed' \subseteq Orders
    BY <1>1, <1>8, <1>36 DEF Restart, At
  <2> QED  BY <1>7, <1>8, <1>36, <2>1, <2>2, <2>3, <2>4 DEF Restart
<1>37. CASE UNCHANGED vars
  BY <1>2, <1>3, <1>7, <1>8, <1>37 DEF vars
<1> QED  BY <1>10, <1>11, <1>12, <1>13, <1>14, <1>15, <1>16, <1>17, <1>18, <1>19, <1>20, <1>21, <1>22, <1>23, <1>24, <1>25, <1>26, <1>27, <1>28, <1>29, <1>30, <1>31, <1>32, <1>33, <1>34, <1>35, <1>36, <1>37 DEF Next, HandlerStep

(* The variables keep their types, and the service works on an order       *)
(* whenever it is not idle.                                                *)
THEOREM TypeInvariance == Spec => []TypeInv
<1> QED  BY TypeInit, TypeNext, PTL DEF Spec

(* The types of the variables, as the runs check them.                     *)
THEOREM TypeCorrectness == Spec => []TypeOK
<1>1. TypeInv => TypeOK
  BY DEF TypeInv
<1> QED  BY <1>1, TypeInvariance, PTL

-----------------------------------------------------------------------------
(* Layer 2. At the start no order is being prepared and memory is the disk. *)
LEMMA StepInit == Init => StepInv
BY DEF Init, StepInv, Agreement, Position, Preparing, Idle

(* load leaves a final status final and a cancelled one cancelled.         *)
LEMMA AgreedStatus ==
  ASSUME TypeInv, Agreement, writable, NEW o \in Orders
  PROVE  /\ StatusOf(disk, o) \in Delivered <=> StatusOf(mem, o) \in Delivered
         /\ StatusOf(disk, o) = "cancelled" <=> StatusOf(mem, o) = "cancelled"
         /\ StatusOf(mem, o) = "sending" => mem = disk
         /\ mem.orders[o].reserved = disk.orders[o].reserved
<1>1. disk \in Stores
  BY DEF TypeInv, TypeOK
<1>2. CASE mem = disk
  BY <1>2
<1>3. CASE mem = NormalizeState(disk)
  <2>1. StatusOf(mem, o) =
          CASE StatusOf(disk, o) = "gist_created" -> "awaiting_confirmation"
            [] StatusOf(disk, o) = "sending"      -> "send_failed"
            [] OTHER                              -> StatusOf(disk, o)
    BY <1>1, <1>3, NormalizeStateEffect
  <2>2. mem.orders[o].reserved = disk.orders[o].reserved
    BY <1>1, <1>3, NormalizeStateEffect
  <2> QED  BY <2>1, <2>2 DEF Delivered
<1> QED  BY <1>2, <1>3 DEF Agreement

(* Nothing is stored, and nothing is in progress, when the file could not  *)
(* be read.                                                                *)
LEMMA ReadOnly ==
  ASSUME TypeInv, Agreement, NEW o \in Orders
  PROVE  /\ op.pc \notin {"idle", "deliver", "confirm"} => writable
         /\ StatusOf(mem, o) # "absent" => writable
BY DefaultStoreEffect DEF Agreement, TypeInv, TypeOK

(* Every step keeps memory and file in agreement and knows where it is.    *)
LEMMA StepNext == TypeInv /\ StepInv /\ [Next]_vars => StepInv'
<1> SUFFICES ASSUME TypeInv, StepInv, [Next]_vars PROVE StepInv'
  OBVIOUS
<1> USE DEF store
<1>1. /\ op \in Operations /\ mem \in Stores /\ disk \in Stores
      /\ op.pc # "idle" => op.order \in Orders
      /\ op.amount \in Nat \ {0} /\ op.allOrNothing \in BOOLEAN
      /\ op.provider \in Providers \cup {"unset"} /\ op.todo \in Seq(Links)
      /\ writable \in BOOLEAN
  BY DEF TypeInv, TypeOK, Free, At, Operations
<1>2. ASSUME NEW t, Commit(t), UNCHANGED writable PROVE Agreement'
  BY <1>2 DEF Commit, Agreement
<1>3. ASSUME UNCHANGED <<mem, disk, writable>>, writable \/ op'.pc \in {"idle", "deliver", "confirm"}
      PROVE  Agreement'
  BY <1>3 DEF StepInv, Agreement
<1>4. op'.pc \in {"idle", "deliver", "confirm"} => Position'
  BY DEF Position, Preparing
<1>5. ASSUME op' = op, mem'.orders = mem.orders PROVE Position'
  BY <1>5 DEF StepInv, Position, Status, StatusOf
<1>6. ASSUME NEW pc \in Steps, op.order \in Orders, Goto(pc),
             pc \in Preparing => StatusOf(mem', op.order) \notin Final,
             pc \in {"send", "complete", "fail"} => StatusOf(mem', op.order) = "sending"
      PROVE  Position'
  <2>1. op'.order = op.order /\ op'.pc = pc
    BY <1>6, <1>1, GotoType DEF Goto, Operations
  <2> QED  BY <1>6, <2>1 DEF Position, Status
<1>7. ASSUME NEW pc \in Steps, Goto(pc) PROVE op'.pc = pc
  BY <1>7, <1>1 DEF Goto, Operations
<1>8. Return => op'.pc = "idle"
  BY ReturnType
<1>9. /\ op.pc \in Preparing => StatusOf(mem, op.order) \notin Final
      /\ op.pc \in {"send", "complete", "fail"} => StatusOf(mem, op.order) = "sending"
      /\ op.pc \notin {"idle", "deliver", "confirm"} => writable
  <2>1. op.pc \notin {"idle", "deliver", "confirm"} => op.order \in Orders
    BY <1>1
  <2> QED  BY <2>1, ReadOnly DEF StepInv, Position, Status, Agreement
<1>10. ASSUME NEW o \in Orders, NewOrderEvent(o)
       PROVE  StepInv'
  <2>1. op'.pc \in {"idle", "deliver", "confirm"}
    BY <1>10, HandleNewOrderType DEF NewOrderEvent, Free, At
  <2>2. Agreement'
    BY <1>1, <1>3, <2>1, <1>10 DEF NewOrderEvent
  <2>3. Position'
    BY <1>4, <1>5, <2>1, <1>10 DEF NewOrderEvent
  <2> QED  BY <2>2, <2>3 DEF StepInv
<1>11. ASSUME NEW o \in Orders, TimerFires(o)
       PROVE  StepInv'
  <2>1. op'.pc \in {"idle", "deliver", "confirm"}
    BY <1>11, HandleNewOrderType DEF TimerFires, Free, At
  <2>2. Agreement'
    BY <1>1, <1>3, <2>1, <1>11 DEF TimerFires
  <2>3. Position'
    BY <1>4, <1>5, <2>1, <1>11 DEF TimerFires
  <2> QED  BY <2>2, <2>3 DEF StepInv
<1>12. ASSUME NEW o \in Orders, RetryOrder(o)
       PROVE  StepInv'
  <2>1. op'.pc \in {"idle", "deliver", "confirm"}
    BY <1>12, CallDeliverType, CallConfirmType DEF RetryOrder, Free, At
  <2>2. Agreement'
    BY <1>1, <1>3, <2>1, <1>12 DEF RetryOrder
  <2>3. Position'
    BY <1>4, <1>5, <2>1, <1>12 DEF RetryOrder
  <2> QED  BY <2>2, <2>3 DEF StepInv
<1>13. ASSUME NEW o \in Orders, PressConfirm(o)
       PROVE  StepInv'
  <2>1. op'.pc \in {"idle", "deliver", "confirm"}
    BY <1>13, CallConfirmType DEF PressConfirm
  <2>2. Agreement'
    BY <1>1, <1>3, <2>1, <1>13 DEF PressConfirm
  <2>3. Position'
    BY <1>4, <2>1
  <2> QED  BY <2>2, <2>3 DEF StepInv
<1>14. ASSUME NEW o \in Orders, PressCancel(o)
       PROVE  StepInv'
  <2>1. Agreement'
    BY <1>2, <1>14 DEF PressCancel
  <2>2. Position'
    BY <1>4, <1>14 DEF PressCancel, Free, At
  <2> QED  BY <2>1, <2>2 DEF StepInv
<1>15. ASSUME DeliverSettled
       PROVE  StepInv'
  <2>1. op.order \in Orders
    BY <1>1, <1>15 DEF DeliverSettled, At
  <2>2. Agreement'
    BY <1>3, <1>8, <2>1, <1>15, ReadOnly DEF DeliverSettled, StepInv, Status
  <2>3. Position'
    BY <1>4, <1>6, <1>8, <2>1, <1>15 DEF DeliverSettled, Status, Final, Steps
  <2> QED  BY <2>2, <2>3 DEF StepInv
<1>16. ASSUME DeliverMisconfigured
       PROVE  StepInv'
  <2>1. Agreement'
    BY <1>2, <1>16 DEF DeliverMisconfigured
  <2>2. Position'
    BY <1>4, <1>8, <1>16 DEF DeliverMisconfigured
  <2> QED  BY <2>1, <2>2 DEF StepInv
<1>17. ASSUME DeliverReserve
       PROVE  StepInv'
  <2>1. op.order \in Orders
    BY <1>1, <1>17 DEF DeliverReserve, At
  <2>2. Agreement'
    BY <1>2, <1>17 DEF DeliverReserve
  <2>3. Position'
    BY <1>4, <1>6, <1>8, <2>1, <1>17 DEF DeliverReserve, Commit, Final, Steps
  <2> QED  BY <2>2, <2>3 DEF StepInv
<1>18. ASSUME PinProvider
       PROVE  StepInv'
  <2>1. op.order \in Orders
    BY <1>1, <1>18 DEF PinProvider, At
  <2>2. StatusOf(SetProvider(mem, op.order, op.provider), op.order) \notin Final
    BY <1>1, <1>9, <2>1, <1>18, SetProviderEffect DEF PinProvider, At, Preparing
  <2>3. Agreement'
    BY <1>2, <1>18 DEF PinProvider
  <2>4. Position'
    BY <1>6, <2>1, <2>2, <1>18 DEF PinProvider, Commit, Preparing, Steps
  <2> QED  BY <2>3, <2>4 DEF StepInv
<1>19. ASSUME NotifyShortageOnce
       PROVE  StepInv'
  <2>1. op.order \in Orders
    BY <1>1, <1>19 DEF NotifyShortageOnce, At
  <2>2. StatusOf(mem, op.order) \notin Final
    BY <1>9, <1>19 DEF NotifyShortageOnce, At, Preparing
  <2>3. StatusOf(MarkShortageNotified(mem, op.order), op.order) \notin Final
    BY <1>1, <2>1, <2>2, MarkShortageNotifiedEffect
  <2>4. Agreement'
    BY <1>2, <1>3, <1>9, <2>1, <2>2, <1>19 DEF NotifyShortageOnce, At
  <2>5. Position'
    <3>1. CASE Record.notified
      BY <1>4, <1>6, <1>8, <2>1, <2>2, <3>1, <1>19 DEF NotifyShortageOnce, AfterShortage, Preparing, Steps
    <3>2. CASE ~Record.notified
      BY <1>6, <2>1, <2>3, <3>2, <1>19 DEF NotifyShortageOnce, Commit, Preparing, Steps
    <3> QED  BY <3>1, <3>2
  <2> QED  BY <2>4, <2>5 DEF StepInv
<1>20. ASSUME WarnShortage
       PROVE  StepInv'
  <2>1. op.order \in Orders
    BY <1>1, <1>20 DEF WarnShortage, At
  <2>2. StatusOf(mem, op.order) \notin Final
    BY <1>9, <1>20 DEF WarnShortage, At, Preparing
  <2>3. Agreement'
    BY <1>3, <1>9, <1>20 DEF WarnShortage, At
  <2>4. Position'
    BY <1>4, <1>6, <1>8, <2>1, <2>2, <1>20 DEF WarnShortage, AfterShortage, Preparing, Steps
  <2> QED  BY <2>3, <2>4 DEF StepInv
<1>21. ASSUME StartPreparation
       PROVE  StepInv'
  <2>1. op.order \in Orders
    BY <1>1, <1>21 DEF StartPreparation, At
  <2>2. StatusOf(mem, op.order) \notin Final
    BY <1>9, <1>21 DEF StartPreparation, At, Preparing
  <2>3. StatusOf(Reserve(mem, op.order, op.amount, op.allOrNothing), op.order) \notin Final
    BY <1>1, <2>1, <2>2, ReserveEffect DEF Final, StatusOf
  <2>4. Agreement'
    BY <1>2, <1>21 DEF StartPreparation
  <2>5. Position'
    <3>1. op'.order = op.order /\ op'.pc \in {"shorten", "gist", "awaiting"}
      BY <1>1, <1>21 DEF StartPreparation, Goto, Operations
    <3> QED  BY <2>3, <3>1, <1>21 DEF StartPreparation, Commit, Position, Status
  <2> QED  BY <2>4, <2>5 DEF StepInv
<1>22. ASSUME CreateGist
       PROVE  StepInv'
  <2>1. op.order \in Orders
    BY <1>1, <1>22 DEF CreateGist, At
  <2>2. StatusOf(MarkGistCreated(mem, op.order), op.order) = "gist_created"
    BY <1>1, <2>1, MarkGistCreatedEffect
  <2>3. Agreement'
    BY <1>2, <1>22 DEF CreateGist
  <2>4. Position'
    <3>1. CASE Return
      BY <1>4, <1>8, <3>1
    <3>2. CASE Goto("awaiting") /\ Commit(MarkGistCreated(mem, op.order))
      BY <1>6, <2>1, <2>2, <3>2 DEF Commit, Final, Steps
    <3> QED  BY <3>1, <3>2, <1>22 DEF CreateGist
  <2> QED  BY <2>3, <2>4 DEF StepInv
<1>23. ASSUME ShortenLink
       PROVE  StepInv'
  <2>1. op.order \in Orders
    BY <1>1, <1>23 DEF ShortenLink, At
  <2>2. StatusOf(mem, op.order) \notin Final /\ Head(op.todo) \in Links
    BY <1>1, <1>9, <1>23, HeadTailProperties DEF ShortenLink, At, Preparing
  <2>3. StatusOf(AppendPreparedLink(mem, op.order, Head(op.todo)), op.order) \notin Final
    BY <1>1, <2>1, <2>2, AppendPreparedLinkEffect
  <2>4. Agreement'
    BY <1>2, <1>23 DEF ShortenLink
  <2>5. Position'
    <3>1. CASE Return
      BY <1>4, <1>8, <3>1
    <3>2. CASE /\ Commit(AppendPreparedLink(mem, op.order, Head(op.todo)))
               /\ op' = [op EXCEPT !.todo = Tail(@)]
      <4>1. op'.order = op.order /\ op'.pc = "shorten"
        BY <1>1, <3>2, <1>23 DEF ShortenLink, At, Operations
      <4> QED  BY <2>3, <3>2, <4>1 DEF Commit, Position, Status
    <3> QED  BY <3>1, <3>2, <1>23 DEF ShortenLink
  <2> QED  BY <2>4, <2>5 DEF StepInv
<1>24. ASSUME ShortenDone
       PROVE  StepInv'
  <2>1. op.order \in Orders
    BY <1>1, <1>24 DEF ShortenDone, At
  <2>2. Agreement'
    BY <1>3, <1>9, <1>24 DEF ShortenDone, At
  <2>3. Position'
    BY <1>6, <1>9, <2>1, <1>24 DEF ShortenDone, At, Preparing, Steps
  <2> QED  BY <2>2, <2>3 DEF StepInv
<1>25. ASSUME RequestConfirmation
       PROVE  StepInv'
  <2>1. op.order \in Orders
    BY <1>1, <1>25 DEF RequestConfirmation, At
  <2>2. op'.pc \in {"idle", "deliver", "confirm"}
    BY <1>8, <2>1, <1>25, CallConfirmType DEF RequestConfirmation
  <2>3. Agreement'
    BY <1>2, <1>25 DEF RequestConfirmation
  <2>4. Position'
    BY <1>4, <2>2
  <2> QED  BY <2>3, <2>4 DEF StepInv
<1>26. ASSUME BeginSend
       PROVE  StepInv'
  <2>1. op.order \in Orders
    BY <1>1, <1>26 DEF BeginSend, At
  <2>2. StatusOf(SetStatus(mem, op.order, "sending"), op.order) = "sending"
    BY <1>1, <2>1, SetStatusEffect DEF Statuses
  <2>3. Agreement'
    BY <1>2, <1>3, <1>8, <1>26 DEF BeginSend
  <2>4. Position'
    BY <1>4, <1>6, <1>8, <2>1, <2>2, <1>26 DEF BeginSend, Commit, Preparing, Steps
  <2> QED  BY <2>3, <2>4 DEF StepInv
<1>27. ASSUME SendMessage
       PROVE  StepInv'
  <2>1. op.order \in Orders
    BY <1>1, <1>27 DEF SendMessage, At
  <2>2. StatusOf(mem, op.order) = "sending"
    BY <1>9, <1>27 DEF SendMessage, At
  <2>3. Agreement'
    BY <1>3, <1>9, <1>27 DEF SendMessage, At
  <2>4. Position'
    BY <1>6, <2>1, <2>2, <1>27 DEF SendMessage, Preparing, Steps
  <2> QED  BY <2>3, <2>4 DEF StepInv
<1>28. ASSUME MarkCompleted
       PROVE  StepInv'
  <2>1. Agreement'
    BY <1>2, <1>28 DEF MarkCompleted
  <2>2. Position'
    BY <1>4, <1>8, <1>28 DEF MarkCompleted
  <2> QED  BY <2>1, <2>2 DEF StepInv
<1>29. ASSUME MarkSendFailed
       PROVE  StepInv'
  <2>1. Agreement'
    BY <1>2, <1>29 DEF MarkSendFailed
  <2>2. Position'
    BY <1>4, <1>8, <1>29 DEF MarkSendFailed
  <2> QED  BY <2>1, <2>2 DEF StepInv
<1>30. ASSUME Raise
       PROVE  StepInv'
  <2>1. Agreement'
    BY <1>3, <1>8, <1>30 DEF Raise
  <2>2. Position'
    BY <1>4, <1>8, <1>30 DEF Raise
  <2> QED  BY <2>1, <2>2 DEF StepInv
<1>31. ASSUME ShowWaitingPage
       PROVE  StepInv'
  <2>1. UNCHANGED <<mem, disk, writable, op>>
    BY <1>31 DEF ShowWaitingPage
  <2>2. Agreement'
    BY <2>1, <1>31 DEF ShowWaitingPage, StepInv, Agreement
  <2>3. Position'
    BY <1>5, <1>31 DEF ShowWaitingPage
  <2> QED  BY <2>2, <2>3 DEF StepInv
<1>32. ASSUME UploadLinks
       PROVE  StepInv'
  <2>1. \E links \in SUBSET Links : \E batch \in NewLinks(mem, links) : Commit(AddLinks(mem, batch))
    BY <1>32 DEF UploadLinks
  <2>2. Agreement'
    BY <1>2, <2>1, <1>32 DEF UploadLinks
  <2>3. Position'
    <3>1. mem'.orders = mem.orders
      BY <2>1, <1>1, AddLinksType, NewLinksType DEF Commit
    <3> QED  BY <1>5, <3>1, <1>32 DEF UploadLinks
  <2> QED  BY <2>2, <2>3 DEF StepInv
<1>33. ASSUME DeleteLink
       PROVE  StepInv'
  <2>1. Agreement'
    BY <1>2, <1>33 DEF DeleteLink
  <2>2. Position'
    BY <1>1, <1>5, <1>33, RemoveStockLinkType DEF DeleteLink, Commit
  <2> QED  BY <2>1, <2>2 DEF StepInv
<1>34. ASSUME ClearLinks
       PROVE  StepInv'
  <2>1. Agreement'
    BY <1>2, <1>34 DEF ClearLinks
  <2>2. Position'
    BY <1>1, <1>5, <1>34, ClearStockType DEF ClearLinks, Commit
  <2> QED  BY <2>1, <2>2 DEF StepInv
<1>35. ASSUME SetMode
       PROVE  StepInv'
  <2>1. UNCHANGED <<mem, disk, writable, op>>
    BY <1>35 DEF SetMode
  <2>2. Agreement'
    BY <2>1, <1>35 DEF SetMode, StepInv, Agreement
  <2>3. Position'
    BY <1>5, <1>35 DEF SetMode
  <2> QED  BY <2>2, <2>3 DEF StepInv
<1>36. ASSUME Restart
       PROVE  StepInv'
  <2>1. Agreement'
    BY <1>8, <1>36 DEF Restart, Agreement
  <2>2. Position'
    BY <1>4, <1>8, <1>36 DEF Restart
  <2> QED  BY <2>1, <2>2 DEF StepInv
<1>37. CASE UNCHANGED vars
  <2>1. UNCHANGED <<mem, disk, writable, op>>
    BY <1>37 DEF vars
  <2> QED  BY <1>5, <2>1 DEF StepInv, Agreement
<1> QED  BY <1>10, <1>11, <1>12, <1>13, <1>14, <1>15, <1>16, <1>17, <1>18, <1>19, <1>20, <1>21, <1>22, <1>23, <1>24, <1>25, <1>26, <1>27, <1>28, <1>29, <1>30, <1>31, <1>32, <1>33, <1>34, <1>35, <1>36, <1>37 DEF Next, HandlerStep

(* The memory is what the file says or what load made of it, the storage   *)
(* writes nothing it could not read, and a step of a handler finds its     *)
(* order in a status the steps before it have left it in.                  *)
THEOREM StepInvariance == Spec => []StepInv
<1> QED  BY StepInit, StepNext, TypeInvariance, PTL DEF Spec

-----------------------------------------------------------------------------
(* Layer 3. *)

(* Every write of the storage keeps the links exclusive.                   *)
LEMMA ExclusiveNext == TypeInv /\ StepInv /\ LinksExclusive /\ [Next]_vars => LinksExclusive'
<1> SUFFICES ASSUME TypeInv, StepInv, LinksExclusive, [Next]_vars PROVE LinksExclusive'
  OBVIOUS
<1> USE DEF store
<1>1. /\ op \in Operations /\ mem \in Stores /\ disk \in Stores
      /\ op.pc # "idle" => op.order \in Orders
      /\ op.amount \in Nat \ {0} /\ op.allOrNothing \in BOOLEAN
      /\ op.provider \in Providers \cup {"unset"} /\ op.todo \in Seq(Links)
  BY DEF TypeInv, TypeOK, Free, At, Operations
<1>2. ExclusiveIn(mem) /\ ExclusiveIn(disk)
  BY DEF LinksExclusive
<1>3. ASSUME NEW t, Commit(t), ExclusiveIn(t) PROVE LinksExclusive'
  BY <1>3 DEF Commit, LinksExclusive
<1>4. UNCHANGED store => LinksExclusive'
  BY DEF LinksExclusive
<1>5. ASSUME NEW o \in Orders, NEW status \in Statuses, status = "completed" \/ StatusOf(mem, o) # "completed",
             Commit(SetStatus(mem, o, status))
      PROVE  LinksExclusive'
  BY <1>1, <1>2, <1>3, <1>5, ExclusiveSetStatus
<1>6. /\ op.pc \in Preparing => StatusOf(mem, op.order) # "completed"
      /\ op.pc \in {"send", "complete", "fail"} => StatusOf(mem, op.order) = "sending"
  BY DEF StepInv, Position, Status, Final
<1>7. {"cancelled", "preparation_failed", "awaiting_confirmation", "sending", "completed", "send_failed"} \subseteq Statuses
  BY DEF Statuses
<1>8. ASSUME NEW o \in Orders, NewOrderEvent(o)
       PROVE  LinksExclusive'
  BY <1>4, <1>8 DEF NewOrderEvent
<1>9. ASSUME NEW o \in Orders, TimerFires(o)
       PROVE  LinksExclusive'
  BY <1>4, <1>9 DEF TimerFires
<1>10. ASSUME NEW o \in Orders, RetryOrder(o)
       PROVE  LinksExclusive'
  BY <1>4, <1>10 DEF RetryOrder
<1>11. ASSUME NEW o \in Orders, PressConfirm(o)
       PROVE  LinksExclusive'
  BY <1>4, <1>11 DEF PressConfirm
<1>12. ASSUME NEW o \in Orders, PressCancel(o)
       PROVE  LinksExclusive'
  BY <1>5, <1>7, <1>12 DEF PressCancel
<1>13. ASSUME DeliverSettled
       PROVE  LinksExclusive'
  BY <1>4, <1>13 DEF DeliverSettled
<1>14. ASSUME DeliverMisconfigured
       PROVE  LinksExclusive'
  <2>1. op.order \in Orders
    BY <1>1, <1>14 DEF DeliverMisconfigured, At
  <2>2. ExclusiveIn(RecordError(mem, op.order, op.amount))
    BY <1>1, <1>2, <2>1, ExclusiveRecordError
  <2> QED  BY <1>3, <2>2, <1>14 DEF DeliverMisconfigured
<1>15. ASSUME DeliverReserve
       PROVE  LinksExclusive'
  <2>1. op.order \in Orders
    BY <1>1, <1>15 DEF DeliverReserve, At
  <2>2. ExclusiveIn(Reserve(mem, op.order, op.amount, op.allOrNothing))
    BY <1>1, <1>2, <2>1, ExclusiveReserve
  <2> QED  BY <1>3, <2>2, <1>15 DEF DeliverReserve
<1>16. ASSUME PinProvider
       PROVE  LinksExclusive'
  <2>1. op.order \in Orders
    BY <1>1, <1>16 DEF PinProvider, At
  <2>2. ExclusiveIn(SetProvider(mem, op.order, op.provider))
    BY <1>1, <1>2, <1>6, <2>1, <1>16, ExclusiveSetProvider DEF PinProvider, At, Preparing
  <2> QED  BY <1>3, <1>4, <2>2, <1>16 DEF PinProvider
<1>17. ASSUME NotifyShortageOnce
       PROVE  LinksExclusive'
  <2>1. op.order \in Orders
    BY <1>1, <1>17 DEF NotifyShortageOnce, At
  <2>2. ExclusiveIn(MarkShortageNotified(mem, op.order))
    BY <1>1, <1>2, <1>6, <2>1, <1>17, ExclusiveMarkShortageNotified DEF NotifyShortageOnce, At, Preparing
  <2> QED  BY <1>3, <1>4, <2>2, <1>17 DEF NotifyShortageOnce
<1>18. ASSUME WarnShortage
       PROVE  LinksExclusive'
  BY <1>4, <1>18 DEF WarnShortage
<1>19. ASSUME StartPreparation
       PROVE  LinksExclusive'
  <2>1. op.order \in Orders
    BY <1>1, <1>19 DEF StartPreparation, At
  <2>2. ExclusiveIn(Reserve(mem, op.order, op.amount, op.allOrNothing))
    BY <1>1, <1>2, <2>1, ExclusiveReserve
  <2> QED  BY <1>3, <2>2, <1>19 DEF StartPreparation
<1>20. ASSUME CreateGist
       PROVE  LinksExclusive'
  <2>1. op.order \in Orders
    BY <1>1, <1>20 DEF CreateGist, At
  <2>2. ExclusiveIn(MarkGistCreated(mem, op.order))
    BY <1>1, <1>2, <1>6, <2>1, <1>20, ExclusiveMarkGistCreated DEF CreateGist, At, Preparing
  <2>3. ExclusiveIn(RestoreReservation(mem, op.order))
    BY <1>1, <1>2, <1>6, <2>1, <1>20, ExclusiveRestoreReservation DEF CreateGist, At, Preparing
  <2> QED  BY <1>3, <2>2, <2>3, <1>20 DEF CreateGist
<1>21. ASSUME ShortenLink
       PROVE  LinksExclusive'
  <2>1. op.order \in Orders
    BY <1>1, <1>21 DEF ShortenLink, At
  <2>3. Head(op.todo) \in Links
    BY <1>1, <1>21, HeadTailProperties DEF ShortenLink
  <2>2. ExclusiveIn(AppendPreparedLink(mem, op.order, Head(op.todo)))
    BY <1>1, <1>2, <1>6, <2>1, <2>3, <1>21, ExclusiveAppendPreparedLink DEF ShortenLink, At, Preparing
  <2> QED  BY <1>3, <1>5, <1>6, <1>7, <2>1, <2>2, <1>21 DEF ShortenLink, At, Preparing
<1>22. ASSUME ShortenDone
       PROVE  LinksExclusive'
  BY <1>4, <1>22 DEF ShortenDone
<1>23. ASSUME RequestConfirmation
       PROVE  LinksExclusive'
  <2>1. op.order \in Orders
    BY <1>1, <1>23 DEF RequestConfirmation, At
  <2> QED  BY <1>5, <1>6, <1>7, <2>1, <1>23 DEF RequestConfirmation, At, Preparing
<1>24. ASSUME BeginSend
       PROVE  LinksExclusive'
  <2>1. op.order \in Orders
    BY <1>1, <1>24 DEF BeginSend, At
  <2> QED  BY <1>4, <1>5, <1>7, <2>1, <1>24 DEF BeginSend, Status
<1>25. ASSUME SendMessage
       PROVE  LinksExclusive'
  BY <1>4, <1>25 DEF SendMessage
<1>26. ASSUME MarkCompleted
       PROVE  LinksExclusive'
  <2>1. op.order \in Orders
    BY <1>1, <1>26 DEF MarkCompleted, At
  <2> DEFINE t == SetStatus(mem, op.order, "completed")
  <2>2. t \in Stores /\ ExclusiveIn(t)
    BY <1>1, <1>2, <1>7, <2>1, SetStatusType, ExclusiveSetStatus
  <2>3. \A S \in Trimmed(t) : ExclusiveIn(Forget(t, S))
    <3> HIDE DEF t
    <3> QED  BY <2>2, ExclusiveForget DEF Trimmed, CompletedOrders
  <2> QED  BY <1>3, <2>3, <1>26 DEF MarkCompleted
<1>27. ASSUME MarkSendFailed
       PROVE  LinksExclusive'
  <2>1. op.order \in Orders
    BY <1>1, <1>27 DEF MarkSendFailed, At
  <2> QED  BY <1>5, <1>6, <1>7, <2>1, <1>27 DEF MarkSendFailed, At
<1>28. ASSUME Raise
       PROVE  LinksExclusive'
  BY <1>4, <1>28 DEF Raise
<1>29. ASSUME ShowWaitingPage
       PROVE  LinksExclusive'
  BY <1>4, <1>29 DEF ShowWaitingPage
<1>30. ASSUME UploadLinks
       PROVE  LinksExclusive'
  <2>1. \A links \in SUBSET Links : \A batch \in NewLinks(mem, links) : ExclusiveIn(AddLinks(mem, batch))
    BY <1>1, <1>2, ExclusiveAddLinks
  <2> QED  BY <1>3, <2>1, <1>30 DEF UploadLinks
<1>31. ASSUME DeleteLink
       PROVE  LinksExclusive'
  BY <1>1, <1>2, <1>3, <1>31, ExclusiveRemoveStockLink DEF DeleteLink
<1>32. ASSUME ClearLinks
       PROVE  LinksExclusive'
  BY <1>1, <1>2, <1>3, <1>32, ExclusiveClearStock DEF ClearLinks
<1>33. ASSUME SetMode
       PROVE  LinksExclusive'
  BY <1>4, <1>33 DEF SetMode
<1>34. ASSUME Restart
       PROVE  LinksExclusive'
  BY <1>1, <1>2, <1>34, ExclusiveNormalizeState, ExclusiveDefault DEF Restart, LinksExclusive
<1>35. CASE UNCHANGED vars
  BY <1>4, <1>35 DEF vars
<1> QED  BY <1>8, <1>9, <1>10, <1>11, <1>12, <1>13, <1>14, <1>15, <1>16, <1>17, <1>18, <1>19, <1>20, <1>21, <1>22, <1>23, <1>24, <1>25, <1>26, <1>27, <1>28, <1>29, <1>30, <1>31, <1>32, <1>33, <1>34, <1>35 DEF Next, HandlerStep

(* No link is ever for sale and reserved, nor reserved twice: not when a   *)
(* reservation is put back, when the stock is filled and cleared beside a  *)
(* handler, when a write fails, nor after a restart.                       *)
THEOREM LinksStayExclusive == Spec => []LinksExclusive
<1>1. Init => LinksExclusive
  BY ExclusiveDefault DEF Init, LinksExclusive
<1> QED  BY <1>1, ExclusiveNext, TypeInvariance, StepInvariance, PTL DEF Spec

-----------------------------------------------------------------------------
(* Layer 4. *)

(* No step takes an order out of a delivered status, or undoes a           *)
(* cancellation.                                                           *)
LEMMA FinalKeptNext == TypeInv /\ StepInv /\ [Next]_vars => FinalKept
<1> SUFFICES ASSUME TypeInv, StepInv, [Next]_vars PROVE FinalKept
  OBVIOUS
<1> USE DEF store
<1>1. /\ op \in Operations /\ mem \in Stores /\ disk \in Stores
      /\ op.pc # "idle" => op.order \in Orders
      /\ op.amount \in Nat \ {0} /\ op.allOrNothing \in BOOLEAN
      /\ op.provider \in Providers \cup {"unset"} /\ op.todo \in Seq(Links)
  BY DEF TypeInv, TypeOK, Free, At, Operations
<1>2. UNCHANGED disk => FinalKept
  BY DEF FinalKept
<1>3. ASSUME NEW t, Commit(t),
             \A p \in Orders :
               /\ StatusOf(mem, p) \in Delivered /\ p \notin forgotten' => StatusOf(t, p) \in Delivered
               /\ StatusOf(mem, p) = "cancelled" =>
                    StatusOf(t, p) = "cancelled" /\ t.orders[p].reserved = mem.orders[p].reserved
      PROVE  FinalKept
  <2>1. writable /\ disk' = t
    BY <1>3 DEF Commit
  <2>2. \A p \in Orders :
          /\ StatusOf(disk, p) \in Delivered <=> StatusOf(mem, p) \in Delivered
          /\ StatusOf(disk, p) = "cancelled" <=> StatusOf(mem, p) = "cancelled"
          /\ mem.orders[p].reserved = disk.orders[p].reserved
    BY <2>1, AgreedStatus DEF StepInv
  <2> QED  BY <1>3, <2>1, <2>2 DEF FinalKept
<1>4. ASSUME NEW t, Commit(t), t.orders = mem.orders PROVE FinalKept
  <2>1. \A p \in Orders : StatusOf(t, p) = StatusOf(mem, p) /\ t.orders[p].reserved = mem.orders[p].reserved
    BY <1>4 DEF StatusOf
  <2> HIDE DEF StatusOf
  <2> QED  BY <1>3, <1>4, <2>1
<1>5. ASSUME NEW t, NEW o \in Orders, Commit(t),
             \A p \in Orders : p = o \/ t.orders[p] = mem.orders[p],
             StatusOf(mem, o) \notin Final
      PROVE  FinalKept
  <2>1. \A p \in Orders : p # o => StatusOf(t, p) = StatusOf(mem, p) /\ t.orders[p].reserved = mem.orders[p].reserved
    BY <1>5 DEF StatusOf
  <2>2. StatusOf(mem, o) \notin Delivered /\ StatusOf(mem, o) # "cancelled"
    BY <1>5 DEF Final, Delivered
  <2> QED  BY <1>3, <1>5, <2>1, <2>2
<1>6. ASSUME NEW o \in Orders, NEW status \in Statuses, Commit(SetStatus(mem, o, status)),
             StatusOf(mem, o) # "cancelled",
             StatusOf(mem, o) \in Delivered => status \in Delivered
      PROVE  FinalKept
  <2> DEFINE t == SetStatus(mem, o, status)
  <2>1. \A p \in Orders : /\ StatusOf(t, p) = IF p = o THEN status ELSE StatusOf(mem, p)
                         /\ t.orders[p].reserved = mem.orders[p].reserved
    BY <1>1, SetStatusEffect
  <2> HIDE DEF t
  <2>2. Commit(t)
    BY <1>6 DEF t
  <2> QED  BY <1>3, <1>6, <2>1, <2>2
<1>7. /\ op.pc \in Preparing => StatusOf(mem, op.order) \notin Final
      /\ op.pc \in {"send", "complete", "fail"} => StatusOf(mem, op.order) = "sending"
  BY DEF StepInv, Position, Status
<1>8. {"cancelled", "preparation_failed", "awaiting_confirmation", "sending", "completed", "send_failed"} \subseteq Statuses
  BY DEF Statuses
<1>9. ASSUME NEW o \in Orders, NewOrderEvent(o)
       PROVE  FinalKept
  BY <1>2, <1>9 DEF NewOrderEvent
<1>10. ASSUME NEW o \in Orders, TimerFires(o)
       PROVE  FinalKept
  BY <1>2, <1>10 DEF TimerFires
<1>11. ASSUME NEW o \in Orders, RetryOrder(o)
       PROVE  FinalKept
  BY <1>2, <1>11 DEF RetryOrder
<1>12. ASSUME NEW o \in Orders, PressConfirm(o)
       PROVE  FinalKept
  BY <1>2, <1>12 DEF PressConfirm
<1>13. ASSUME NEW o \in Orders, PressCancel(o)
       PROVE  FinalKept
  BY <1>6, <1>8, <1>13 DEF PressCancel, Delivered
<1>14. ASSUME DeliverSettled
       PROVE  FinalKept
  BY <1>2, <1>14 DEF DeliverSettled
<1>15. ASSUME DeliverMisconfigured
       PROVE  FinalKept
  <2>1. op.order \in Orders
    BY <1>1, <1>15 DEF DeliverMisconfigured, At
  <2>2. \A p \in Orders :
          \/ RecordError(mem, op.order, op.amount).orders[p] = mem.orders[p]
          \/ StatusOf(mem, p) = "absent"
    BY <1>1, <2>1, RecordErrorEffect
  <2>3. \A p \in Orders :
          StatusOf(mem, p) # "absent" =>
            /\ StatusOf(RecordError(mem, op.order, op.amount), p) = StatusOf(mem, p)
            /\ RecordError(mem, op.order, op.amount).orders[p].reserved = mem.orders[p].reserved
    BY <2>2 DEF StatusOf
  <2> QED  BY <1>3, <2>3, <1>15 DEF DeliverMisconfigured, Delivered
<1>16. ASSUME DeliverReserve
       PROVE  FinalKept
  <2>1. op.order \in Orders
    BY <1>1, <1>16 DEF DeliverReserve, At
  <2>2. \A p \in Orders :
          \/ Reserve(mem, op.order, op.amount, op.allOrNothing).orders[p] = mem.orders[p]
          \/ StatusOf(mem, p) \notin HeldStatuses
    BY <1>1, <2>1, ReserveEffect
  <2>3. \A p \in Orders :
          StatusOf(mem, p) \in HeldStatuses =>
            /\ StatusOf(Reserve(mem, op.order, op.amount, op.allOrNothing), p) = StatusOf(mem, p)
            /\ Reserve(mem, op.order, op.amount, op.allOrNothing).orders[p].reserved = mem.orders[p].reserved
    BY <2>2 DEF StatusOf
  <2>4. Delivered \cup {"cancelled"} \subseteq HeldStatuses
    BY DEF Delivered, HeldStatuses, Statuses
  <2> QED  BY <1>3, <2>3, <2>4, <1>16 DEF DeliverReserve
<1>17. ASSUME PinProvider
       PROVE  FinalKept
  <2>1. op.order \in Orders
    BY <1>1, <1>17 DEF PinProvider, At
  <2>2. \A p \in Orders \ {op.order} : SetProvider(mem, op.order, op.provider).orders[p] = mem.orders[p]
    BY <1>1, <2>1, SetProviderEffect
  <2> QED  BY <1>2, <1>5, <1>7, <2>1, <2>2, <1>17 DEF PinProvider, At, Preparing
<1>18. ASSUME NotifyShortageOnce
       PROVE  FinalKept
  <2>1. op.order \in Orders
    BY <1>1, <1>18 DEF NotifyShortageOnce, At
  <2>2. \A p \in Orders \ {op.order} : MarkShortageNotified(mem, op.order).orders[p] = mem.orders[p]
    BY <1>1, <2>1, MarkShortageNotifiedEffect
  <2> QED  BY <1>2, <1>5, <1>7, <2>1, <2>2, <1>18 DEF NotifyShortageOnce, At, Preparing
<1>19. ASSUME WarnShortage
       PROVE  FinalKept
  BY <1>2, <1>19 DEF WarnShortage
<1>20. ASSUME StartPreparation
       PROVE  FinalKept
  <2>1. op.order \in Orders
    BY <1>1, <1>20 DEF StartPreparation, At
  <2>2. \A p \in Orders :
          \/ Reserve(mem, op.order, op.amount, op.allOrNothing).orders[p] = mem.orders[p]
          \/ StatusOf(mem, p) \notin HeldStatuses
    BY <1>1, <2>1, ReserveEffect
  <2>3. \A p \in Orders :
          StatusOf(mem, p) \in HeldStatuses =>
            /\ StatusOf(Reserve(mem, op.order, op.amount, op.allOrNothing), p) = StatusOf(mem, p)
            /\ Reserve(mem, op.order, op.amount, op.allOrNothing).orders[p].reserved = mem.orders[p].reserved
    BY <2>2 DEF StatusOf
  <2>4. Delivered \cup {"cancelled"} \subseteq HeldStatuses
    BY DEF Delivered, HeldStatuses, Statuses
  <2> QED  BY <1>3, <2>3, <2>4, <1>20 DEF StartPreparation
<1>21. ASSUME CreateGist
       PROVE  FinalKept
  <2>1. op.order \in Orders
    BY <1>1, <1>21 DEF CreateGist, At
  <2>3. \A p \in Orders : p = op.order \/ RestoreReservation(mem, op.order).orders[p] = mem.orders[p]
    BY <1>1, <2>1, RestoreReservationEffect
  <2>2. \A p \in Orders \ {op.order} : MarkGistCreated(mem, op.order).orders[p] = mem.orders[p]
    BY <1>1, <2>1, MarkGistCreatedEffect
  <2> QED  BY <1>5, <1>7, <2>1, <2>2, <2>3, <1>21 DEF CreateGist, At, Preparing
<1>22. ASSUME ShortenLink
       PROVE  FinalKept
  <2>1. op.order \in Orders
    BY <1>1, <1>22 DEF ShortenLink, At
  <2>3. Head(op.todo) \in Links
    BY <1>1, <1>22, HeadTailProperties DEF ShortenLink
  <2>2. \A p \in Orders \ {op.order} : AppendPreparedLink(mem, op.order, Head(op.todo)).orders[p] = mem.orders[p]
    BY <1>1, <2>1, <2>3, AppendPreparedLinkEffect
  <2> QED  BY <1>5, <1>6, <1>7, <1>8, <2>1, <2>2, <1>22 DEF ShortenLink, At, Preparing, Final, Delivered
<1>23. ASSUME ShortenDone
       PROVE  FinalKept
  BY <1>2, <1>23 DEF ShortenDone
<1>24. ASSUME RequestConfirmation
       PROVE  FinalKept
  <2>1. op.order \in Orders
    BY <1>1, <1>24 DEF RequestConfirmation, At
  <2> QED  BY <1>6, <1>7, <1>8, <2>1, <1>24 DEF RequestConfirmation, At, Preparing, Final, Delivered
<1>25. ASSUME BeginSend
       PROVE  FinalKept
  <2>1. op.order \in Orders
    BY <1>1, <1>25 DEF BeginSend, At
  <2> QED  BY <1>2, <1>6, <1>8, <2>1, <1>25 DEF BeginSend, Status, Delivered
<1>26. ASSUME SendMessage
       PROVE  FinalKept
  BY <1>2, <1>26 DEF SendMessage
<1>27. ASSUME MarkCompleted
       PROVE  FinalKept
  <2>1. op.order \in Orders
    BY <1>1, <1>27 DEF MarkCompleted, At
  <2> DEFINE t == SetStatus(mem, op.order, "completed")
  <2>2. PICK S \in Trimmed(t) : Commit(Forget(t, S)) /\ forgotten' = forgotten \cup S
    BY <1>27 DEF MarkCompleted
  <2>3. /\ S \in SUBSET Orders
        /\ \A p \in S : StatusOf(t, p) = "completed"
    BY DEF Trimmed, CompletedOrders
  <2>4. \A p \in Orders : /\ StatusOf(t, p) = IF p = op.order THEN "completed" ELSE StatusOf(mem, p)
                         /\ t.orders[p].reserved = mem.orders[p].reserved
    BY <1>1, <1>8, <2>1, SetStatusEffect
  <2>5. t \in Stores
    BY <1>1, <1>8, <2>1, SetStatusType
  <2> HIDE DEF t
  <2>6. \A p \in Orders : Forget(t, S).orders[p] = IF p \in S THEN NoRecord ELSE t.orders[p]
    BY <2>3, <2>5, ForgetType
  <2>7. \A p \in Orders \ S : /\ StatusOf(Forget(t, S), p) = StatusOf(t, p)
                             /\ Forget(t, S).orders[p].reserved = t.orders[p].reserved
    BY <2>6 DEF StatusOf
  <2>8. StatusOf(mem, op.order) = "sending"
    BY <1>7, <1>27 DEF MarkCompleted, At
  <2>9. \A p \in Orders : StatusOf(mem, p) = "cancelled" => p \notin S /\ p # op.order
    BY <2>3, <2>4, <2>8
  <2> QED  BY <1>3, <2>2, <2>4, <2>7, <2>9 DEF Delivered
<1>28. ASSUME MarkSendFailed
       PROVE  FinalKept
  <2>1. op.order \in Orders
    BY <1>1, <1>28 DEF MarkSendFailed, At
  <2> QED  BY <1>6, <1>7, <1>8, <2>1, <1>28 DEF MarkSendFailed, At, Delivered
<1>29. ASSUME Raise
       PROVE  FinalKept
  BY <1>2, <1>29 DEF Raise
<1>30. ASSUME ShowWaitingPage
       PROVE  FinalKept
  BY <1>2, <1>30 DEF ShowWaitingPage
<1>31. ASSUME UploadLinks
       PROVE  FinalKept
  <2>1. \A links \in SUBSET Links : \A batch \in NewLinks(mem, links) : AddLinks(mem, batch).orders = mem.orders
    BY <1>1, NewLinksType, AddLinksType
  <2> QED  BY <1>4, <2>1, <1>31 DEF UploadLinks
<1>32. ASSUME DeleteLink
       PROVE  FinalKept
  BY <1>1, <1>4, <1>32, RemoveStockLinkType DEF DeleteLink
<1>33. ASSUME ClearLinks
       PROVE  FinalKept
  BY <1>1, <1>4, <1>33, ClearStockType DEF ClearLinks
<1>34. ASSUME SetMode
       PROVE  FinalKept
  BY <1>2, <1>34 DEF SetMode
<1>35. ASSUME Restart
       PROVE  FinalKept
  BY <1>2, <1>35 DEF Restart
<1>36. CASE UNCHANGED vars
  BY <1>2, <1>36 DEF vars
<1> QED  BY <1>9, <1>10, <1>11, <1>12, <1>13, <1>14, <1>15, <1>16, <1>17, <1>18, <1>19, <1>20, <1>21, <1>22, <1>23, <1>24, <1>25, <1>26, <1>27, <1>28, <1>29, <1>30, <1>31, <1>32, <1>33, <1>34, <1>35, <1>36 DEF Next, HandlerStep

-----------------------------------------------------------------------------
(* Layer 5. *)

(* Messages are sent by one step, at a position one step leads to.         *)
LEMMA SendingSteps ==
  ASSUME TypeInv, [Next]_vars
  PROVE  /\ SendMessage \/ UNCHANGED sends
         /\ BeginSend \/ op' = op \/ op'.pc # "send"
         /\ MarkCompleted \/ UNCHANGED forgotten
<1> USE DEF history
<1>1. op \in Operations
  BY DEF TypeInv, TypeOK
<1>2. Return => op'.pc # "send"
  BY ReturnType
<1>3. \A pc \in Steps : Goto(pc) => op'.pc = pc
  BY <1>1 DEF Goto, Operations
<1>4. \A o \in Orders : CallDeliver(o) \/ CallConfirm(o) => op'.pc # "send"
  BY CallDeliverType, CallConfirmType
<1>5. ASSUME NEW o \in Orders, NewOrderEvent(o) \/ TimerFires(o) \/ RetryOrder(o) \/ PressConfirm(o) \/ PressCancel(o)
      PROVE  UNCHANGED <<sends, forgotten>> /\ (op' = op \/ op'.pc # "send")
  BY <1>4, <1>5 DEF NewOrderEvent, TimerFires, RetryOrder, PressConfirm, PressCancel, HandleNewOrder
<1>6. ASSUME ShowWaitingPage \/ UploadLinks \/ DeleteLink \/ ClearLinks \/ SetMode
      PROVE  UNCHANGED <<sends, forgotten, op>>
  BY <1>6 DEF ShowWaitingPage, UploadLinks, DeleteLink, ClearLinks, SetMode
<1>7. ASSUME Restart PROVE UNCHANGED <<sends, forgotten>> /\ op'.pc # "send"
  BY <1>2, <1>7 DEF Restart
<1>8. ASSUME HandlerStep
      PROVE  /\ SendMessage \/ UNCHANGED sends
             /\ MarkCompleted \/ UNCHANGED forgotten
  BY <1>8 DEF HandlerStep, DeliverSettled, DeliverMisconfigured, DeliverReserve, PinProvider,
       NotifyShortageOnce, WarnShortage, StartPreparation, CreateGist, ShortenLink, ShortenDone,
       RequestConfirmation, BeginSend, SendMessage, MarkCompleted, MarkSendFailed, Raise
<1>9. ASSUME HandlerStep PROVE BeginSend \/ op'.pc # "send"
  <2>1. CASE StartPreparation
    BY <1>1, <1>3, <2>1 DEF StartPreparation, Operations, Steps
  <2>2. CASE ShortenLink
    BY <1>1, <1>2, <2>2 DEF ShortenLink, At, Operations
  <2>3. CASE RequestConfirmation
    <3>1. op.order \in Orders
      BY <2>3 DEF RequestConfirmation, TypeInv, Free, At
    <3> QED  BY <1>2, <1>4, <2>3, <3>1 DEF RequestConfirmation
  <2>4. CASE DeliverSettled \/ DeliverMisconfigured \/ DeliverReserve \/ PinProvider
    BY <1>2, <1>3, <2>4 DEF DeliverSettled, DeliverMisconfigured, DeliverReserve, PinProvider, Steps
  <2>5. CASE NotifyShortageOnce \/ WarnShortage \/ CreateGist \/ ShortenDone
    BY <1>2, <1>3, <2>5 DEF NotifyShortageOnce, WarnShortage, AfterShortage, CreateGist, ShortenDone, Steps
  <2>6. CASE SendMessage \/ MarkCompleted \/ MarkSendFailed \/ Raise
    BY <1>2, <1>3, <2>6 DEF SendMessage, MarkCompleted, MarkSendFailed, Raise, Steps
  <2> QED  BY <1>9, <2>1, <2>2, <2>3, <2>4, <2>5, <2>6 DEF HandlerStep
<1> QED  BY <1>5, <1>6, <1>7, <1>8, <1>9 DEF Next, vars

(* The holder of the send sends once, whatever else happens.               *)
LEMMA MessageNext == TypeInv /\ StepInv /\ MessageInv /\ [Next]_vars => MessageInv'
<1> SUFFICES ASSUME TypeInv, StepInv, MessageInv, [Next]_vars PROVE MessageInv'
  OBVIOUS
<1>1. /\ sends \in [Orders -> Nat] /\ op \in Operations
      /\ op.pc # "idle" => op.order \in Orders
  BY DEF TypeInv, TypeOK, Free, At
<1>2. FinalKept
  BY FinalKeptNext
<1>3. /\ SendMessage \/ UNCHANGED sends
      /\ BeginSend \/ op' = op \/ op'.pc # "send"
      /\ MarkCompleted \/ UNCHANGED forgotten
  BY SendingSteps
<1>4. forgotten \subseteq forgotten'
  BY <1>3 DEF MarkCompleted
<1>5. \A o \in Orders : sends[o] > 0 /\ o \notin forgotten => StatusOf(disk, o) \in Delivered
  BY DEF MessageInv, DeliveredStaysDelivered, Delivered
<1>6. \A o \in Orders : o \notin forgotten => sends[o] <= 1
  BY DEF MessageInv, AtMostOneMessage
<1>7. ASSUME SendMessage PROVE MessageInv'
  <2>1. op.order \in Orders /\ op.pc = "send"
    BY <1>1, <1>7 DEF SendMessage, At
  <2>2. /\ UNCHANGED disk /\ UNCHANGED forgotten
        /\ sends' = sends \/ sends' = [sends EXCEPT ![op.order] = @ + 1]
    BY <1>7 DEF SendMessage, store
  <2>3. \A o \in Orders \ {op.order} : sends'[o] = sends[o]
    BY <1>1, <2>1, <2>2
  <2>4. op.order \notin forgotten => sends[op.order] = 0
    BY <2>1 DEF MessageInv, At
  <2>5. sends'[op.order] = sends[op.order] \/ sends'[op.order] = sends[op.order] + 1
    BY <1>1, <2>1, <2>2
  <2>6. op.order \notin forgotten => sends'[op.order] <= 1
    BY <1>1, <2>1, <2>4, <2>5
  <2>7. StatusOf(disk, op.order) \in Delivered
    <3>1. StatusOf(mem, op.order) = "sending" /\ writable
      BY <2>1, ReadOnly DEF StepInv, Position, Status
    <3> QED  BY <2>1, <3>1, AgreedStatus DEF StepInv, Delivered
  <2>8. AtMostOneMessage'
    BY <1>6, <2>2, <2>3, <2>6 DEF AtMostOneMessage
  <2>9. DeliveredStaysDelivered'
    BY <1>5, <2>2, <2>3, <2>7 DEF DeliveredStaysDelivered, Delivered
  <2>10. op'.pc # "send"
    BY <1>1, <1>7 DEF SendMessage, Goto, Operations
  <2> QED  BY <2>8, <2>9, <2>10 DEF MessageInv, At
<1>8. ASSUME UNCHANGED sends PROVE MessageInv'
  <2>1. AtMostOneMessage'
    BY <1>4, <1>6, <1>8 DEF AtMostOneMessage
  <2>2. DeliveredStaysDelivered'
    BY <1>2, <1>4, <1>5, <1>8 DEF DeliveredStaysDelivered, FinalKept, Delivered
  <2>3. (At("send") /\ op.order \notin forgotten => sends[op.order] = 0)'
    <3>1. CASE op' = op
      BY <1>4, <1>8, <3>1 DEF MessageInv, At
    <3>2. CASE op'.pc # "send"
      BY <3>2 DEF At
    <3>3. CASE BeginSend /\ op'.pc = "send"
      <4>1. op.order \in Orders
        BY <1>1, <3>3 DEF BeginSend, At
      <4>2. op'.order = op.order
        BY <1>1, <3>3, ReturnType DEF BeginSend, Goto, Operations
      <4>3. StatusOf(mem, op.order) = "awaiting_confirmation"
        BY <3>3, ReturnType DEF BeginSend, Status
      <4>4. StatusOf(disk, op.order) \notin Delivered
        BY <4>1, <4>3, ReadOnly, AgreedStatus DEF StepInv, Delivered
      <4>5. op.order \notin forgotten => sends[op.order] = 0
        BY <1>1, <1>5, <4>1, <4>4
      <4> QED  BY <1>4, <1>8, <4>2, <4>5
    <3> QED  BY <1>3, <3>1, <3>2, <3>3
  <2> QED  BY <2>1, <2>2, <2>3 DEF MessageInv
<1> QED  BY <1>3, <1>7, <1>8

(* The invariant of the messages holds from the start.                     *)
THEOREM MessageInvariance == Spec => []MessageInv
<1>1. Init => MessageInv
  BY DEF Init, MessageInv, AtMostOneMessage, DeliveredStaysDelivered, At, Idle
<1> QED  BY <1>1, MessageNext, TypeInvariance, StepInvariance, PTL DEF Spec

(* A buyer gets the goods of an order at most once, for as long as the     *)
(* storage remembers the order.                                            *)
THEOREM NoSecondMessage == Spec => []AtMostOneMessage
<1>1. MessageInv => AtMostOneMessage
  BY DEF MessageInv
<1> QED  BY <1>1, MessageInvariance, PTL

(* An order whose goods have reached the buyer is never again in a status  *)
(* that a retry, an event or a button would deliver.                       *)
THEOREM DeliveredForGood == Spec => []DeliveredStaysDelivered
<1>1. MessageInv => DeliveredStaysDelivered
  BY DEF MessageInv
<1> QED  BY <1>1, MessageInvariance, PTL

(* A cancelled order stays cancelled, keeps its links and sends nothing.   *)
THEOREM CancelledForGood == Spec => CancelledStaysCancelled
<1> DEFINE Kept == \A o \in Orders : StatusOf(disk, o) = "cancelled" =>
                     /\ StatusOf(disk', o) = "cancelled"
                     /\ disk'.orders[o].reserved = disk.orders[o].reserved
                     /\ sends'[o] = sends[o]
<1>1. TypeInv /\ StepInv /\ [Next]_vars => [Kept]_<<disk, sends>>
  <2> SUFFICES ASSUME TypeInv, StepInv, [Next]_vars, NEW o \in Orders, StatusOf(disk, o) = "cancelled"
      PROVE  /\ StatusOf(disk', o) = "cancelled"
             /\ disk'.orders[o].reserved = disk.orders[o].reserved
             /\ sends'[o] = sends[o]
    OBVIOUS
  <2>1. StatusOf(disk', o) = "cancelled" /\ disk'.orders[o].reserved = disk.orders[o].reserved
    BY FinalKeptNext DEF FinalKept
  <2>2. sends'[o] = sends[o]
    <3>1. CASE UNCHANGED sends
      BY <3>1
    <3>2. CASE SendMessage
      <4>1. op.order \in Orders /\ op.pc = "send"
        BY <3>2 DEF SendMessage, At, TypeInv, Free
      <4>2. StatusOf(mem, op.order) = "sending" /\ writable
        BY <4>1, ReadOnly DEF StepInv, Position, Status
      <4>3. op.order # o
        BY <4>1, <4>2, AgreedStatus DEF StepInv
      <4>4. sends \in [Orders -> Nat]
        BY DEF TypeInv, TypeOK
      <4> QED  BY <3>2, <4>3, <4>4 DEF SendMessage
    <3> QED  BY <3>1, <3>2, SendingSteps
  <2> QED  BY <2>1, <2>2
<1> QED  BY <1>1, TypeInvariance, StepInvariance, PTL DEF Spec, CancelledStaysCancelled

-----------------------------------------------------------------------------
(* Layer 6: the ledger.  Every write of the storage moves links along one   *)
(* arrow of StockLedger, or moves none.                                     *)

(* Where a store says each link is: Holder, for any store. *)
Places(s) ==
  [l \in Links |->
     IF l \in ToSet(s.stock) THEN Shelf
     ELSE IF \E o \in Orders : l \in LinksOf(s, o)
     THEN CHOOSE o \in Orders : l \in LinksOf(s, o)
     ELSE Out]

Moved(h, S, place) == [l \in Links |-> IF l \in S THEN place ELSE h[l]]

AtPlace(h, place) == {l \in Links : h[l] = place}

(* The arrows of the ledger, between two values of the holder. *)
Arrow(h, k) ==
  \/ k = h
  \/ \E S \in SUBSET AtPlace(h, Out) : k = Moved(h, S, Shelf)
  \/ \E S \in SUBSET AtPlace(h, Shelf) : k = Moved(h, S, Out)
  \/ \E o \in Orders, S \in SUBSET AtPlace(h, Shelf) : AtPlace(h, o) = {} /\ k = Moved(h, S, o)
  \/ \E o \in Orders : k = Moved(h, AtPlace(h, o), Shelf) \/ k = Moved(h, AtPlace(h, o), Out)

(* An order whose status does not hold a reservation has none: that is why  *)
(* reserve, which overwrites the reservation, loses nothing.                *)
EmptyHanded(s) == \A o \in Orders : StatusOf(s, o) \notin HeldStatuses => s.orders[o].reserved = <<>>

HandsInv == EmptyHanded(mem) /\ EmptyHanded(disk)

(* What a write must do. *)
Follows(s, t) == EmptyHanded(t) /\ Arrow(Places(s), Places(t))

-----------------------------------------------------------------------------
(* A step between two files is a step of the ledger when it is an arrow. *)
LEMMA ArrowIsLedgerStep ==
  ASSUME Arrow(Places(disk), Places(disk'))
  PROVE  [Ledger!Next]_Holder
<1> DEFINE h == Holder  k == Holder'
<1>1. h = Places(disk) /\ k = Places(disk')
  BY DEF Holder, Places
<1>2. \A S, place : Ledger!Move(S, place) <=> k = Moved(h, S, place)
  BY DEF Ledger!Move, Moved
<1>3. \A o : Ledger!Held(o) = AtPlace(h, o)
  BY DEF Ledger!Held, AtPlace
<1>4. Arrow(h, k)
  BY <1>1
<1>5. CASE k = h
  BY <1>5
<1>6. CASE \E S \in SUBSET AtPlace(h, Out) : k = Moved(h, S, Shelf)
  BY <1>2, <1>6 DEF Ledger!Next, Ledger!Stock, AtPlace
<1>7. CASE \E S \in SUBSET AtPlace(h, Shelf) : k = Moved(h, S, Out)
  BY <1>2, <1>7 DEF Ledger!Next, Ledger!Withdraw, AtPlace
<1>8. CASE \E o \in Orders, S \in SUBSET AtPlace(h, Shelf) : AtPlace(h, o) = {} /\ k = Moved(h, S, o)
  BY <1>2, <1>3, <1>8 DEF Ledger!Next, Ledger!Reserve, AtPlace
<1>9. CASE \E o \in Orders : k = Moved(h, AtPlace(h, o), Shelf) \/ k = Moved(h, AtPlace(h, o), Out)
  BY <1>2, <1>3, <1>9 DEF Ledger!Next, Ledger!Release, Ledger!Close
<1> QED
  BY <1>4, <1>5, <1>6, <1>7, <1>8, <1>9 DEF Arrow

(* What an order holds are links. *)
LEMMA LinksOfType ==
  ASSUME NEW s \in Stores, NEW o \in Orders
  PROVE  LinksOf(s, o) \subseteq Links /\ ToSet(s.stock) \subseteq Links
<1>1. s.stock \in Seq(Links) /\ s.orders[o].reserved \in Seq(Links)
  BY DEF Stores, OrderRecords
<1> QED
  BY <1>1, ToSetSeq DEF LinksOf

(* The place of a link is the one that has it. *)
LEMMA PlaceOf ==
  ASSUME NEW s \in Stores, ExclusiveIn(s)
  PROVE  /\ \A l \in Links : l \in ToSet(s.stock) <=> Places(s)[l] = Shelf
         /\ \A l \in Links, o \in Orders : l \in LinksOf(s, o) <=> Places(s)[l] = o
         /\ \A l \in Links : Places(s)[l] \in Orders \cup {Shelf, Out}
<1> SUFFICES ASSUME NEW l \in Links
             PROVE  /\ l \in ToSet(s.stock) <=> Places(s)[l] = Shelf
                    /\ \A o \in Orders : l \in LinksOf(s, o) <=> Places(s)[l] = o
                    /\ Places(s)[l] \in Orders \cup {Shelf, Out}
  OBVIOUS
<1>1. \A o \in Orders : l \in LinksOf(s, o) => l \notin ToSet(s.stock)
  BY DEF ExclusiveIn
<1>2. \A o1, o2 \in Orders : l \in LinksOf(s, o1) /\ l \in LinksOf(s, o2) => o1 = o2
  BY DEF ExclusiveIn
<1>3. CASE l \in ToSet(s.stock)
  BY <1>1, <1>3, LedgerAssumption DEF Places
<1>4. CASE l \notin ToSet(s.stock) /\ \E o \in Orders : l \in LinksOf(s, o)
  <2> DEFINE owner == CHOOSE o \in Orders : l \in LinksOf(s, o)
  <2>1. Places(s)[l] = owner
    BY <1>4 DEF Places
  <2>2. owner \in Orders /\ l \in LinksOf(s, owner)
    BY <1>4
  <2> HIDE DEF owner
  <2> QED
    BY <1>2, <1>4, <2>1, <2>2, LedgerAssumption
<1>5. CASE l \notin ToSet(s.stock) /\ ~\E o \in Orders : l \in LinksOf(s, o)
  BY <1>5, LedgerAssumption DEF Places
<1> QED
  BY <1>3, <1>4, <1>5

(* The same stock and the same holdings are the same places. *)
LEMMA SamePlaces ==
  ASSUME NEW s, NEW t, ToSet(t.stock) = ToSet(s.stock),
         \A o \in Orders : LinksOf(t, o) = LinksOf(s, o)
  PROVE  Places(t) = Places(s)
<1>1. \A l \in Links : (CHOOSE o \in Orders : l \in LinksOf(t, o)) = (CHOOSE o \in Orders : l \in LinksOf(s, o))
  OBVIOUS
<1> QED
  BY <1>1 DEF Places

(* Links that go from where they are to one place. *)
LEMMA PlacesMoved ==
  ASSUME NEW s \in Stores, NEW t \in Stores, ExclusiveIn(s), ExclusiveIn(t),
         NEW S \in SUBSET Links, NEW place \in Orders \cup {Shelf, Out},
         place = Shelf => S \subseteq ToSet(t.stock),
         place \in Orders => S \subseteq LinksOf(t, place),
         place = Out => S \cap ToSet(t.stock) = {} /\ \A o \in Orders : S \cap LinksOf(t, o) = {},
         \A l \in Links \ S : /\ l \in ToSet(t.stock) <=> l \in ToSet(s.stock)
                              /\ \A o \in Orders : l \in LinksOf(t, o) <=> l \in LinksOf(s, o)
  PROVE  Places(t) = Moved(Places(s), S, place)
<1> DEFINE h == Places(s)  k == Places(t)
<1>1. /\ \A l \in Links : l \in ToSet(s.stock) <=> h[l] = Shelf
      /\ \A l \in Links, o \in Orders : l \in LinksOf(s, o) <=> h[l] = o
      /\ \A l \in Links : h[l] \in Orders \cup {Shelf, Out}
  BY PlaceOf
<1>2. /\ \A l \in Links : l \in ToSet(t.stock) <=> k[l] = Shelf
      /\ \A l \in Links, o \in Orders : l \in LinksOf(t, o) <=> k[l] = o
      /\ \A l \in Links : k[l] \in Orders \cup {Shelf, Out}
  BY PlaceOf
<1>3. k = [l \in Links |-> k[l]]
  BY DEF Places
<1> HIDE DEF h, k
<1>4. \A l \in S : k[l] = place
  <2> TAKE l \in S
  <2> QED
    BY <1>2, LedgerAssumption
<1>5. \A l \in Links \ S : k[l] = h[l]
  <2> TAKE l \in Links \ S
  <2> QED
    BY <1>1, <1>2, LedgerAssumption
<1>6. k = [l \in Links |-> IF l \in S THEN place ELSE h[l]]
  BY <1>3, <1>4, <1>5
<1> QED
  BY <1>6 DEF Moved, h, k

-----------------------------------------------------------------------------
(* The operations of the storage. *)

(* A write that changes no link. *)
LEMMA FollowsQuietly ==
  ASSUME NEW s \in Stores, NEW t \in Stores, EmptyHanded(s), t.stock = s.stock,
         \A o \in Orders : /\ t.orders[o].reserved = s.orders[o].reserved
                           /\ StatusOf(t, o) = "completed" <=> StatusOf(s, o) = "completed"
                           /\ StatusOf(t, o) \in HeldStatuses \/ StatusOf(t, o) = StatusOf(s, o)
                                \/ t.orders[o].reserved = <<>>
  PROVE  Follows(s, t)
<1>1. \A o \in Orders : LinksOf(t, o) = LinksOf(s, o)
  BY DEF LinksOf
<1>2. Places(t) = Places(s)
  BY <1>1, SamePlaces
<1> QED
  BY <1>2 DEF Follows, Arrow, EmptyHanded

(* An order that is not completed changes its status, to one that holds links. *)
LEMMA FollowsStatus ==
  ASSUME NEW s \in Stores, NEW o \in Orders, NEW status \in HeldStatuses \ {"completed"},
         EmptyHanded(s), StatusOf(s, o) # "completed"
  PROVE  Follows(s, SetStatus(s, o, status))
<1> DEFINE t == SetStatus(s, o, status)
<1>1. status \in Statuses
  BY DEF HeldStatuses
<1>2. t \in Stores /\ t.stock = s.stock
  BY <1>1, SetStatusType
<1>3. \A p \in Orders : /\ StatusOf(t, p) = IF p = o THEN status ELSE StatusOf(s, p)
                        /\ t.orders[p].reserved = s.orders[p].reserved
  BY <1>1, SetStatusEffect, ZenonT(60)
<1> HIDE DEF t
<1>4. Follows(s, t)
  BY <1>2, <1>3, FollowsQuietly
<1> QED
  BY <1>4 DEF t

(* A provider, a mark, a prepared link or a gist moves no link. *)
LEMMA FollowsPreparation ==
  ASSUME NEW s \in Stores, NEW o \in Orders, EmptyHanded(s)
  PROVE  /\ \A provider \in Providers \cup {"unset"} : Follows(s, SetProvider(s, o, provider))
         /\ Follows(s, MarkShortageNotified(s, o))
         /\ \A link \in Links : Follows(s, AppendPreparedLink(s, o, link))
         /\ StatusOf(s, o) # "completed" => Follows(s, MarkGistCreated(s, o))
<1>1. ASSUME NEW provider \in Providers \cup {"unset"} PROVE Follows(s, SetProvider(s, o, provider))
  <2> DEFINE t == SetProvider(s, o, provider)
  <2>1. t \in Stores /\ t.stock = s.stock
    BY SetProviderType
  <2>2. \A p \in Orders : StatusOf(t, p) = StatusOf(s, p) /\ t.orders[p].reserved = s.orders[p].reserved
    BY SetProviderEffect
  <2> HIDE DEF t
  <2>3. Follows(s, t)
    BY <2>1, <2>2, FollowsQuietly
  <2> QED
    BY <2>3 DEF t
<1>2. Follows(s, MarkShortageNotified(s, o))
  <2> DEFINE t == MarkShortageNotified(s, o)
  <2>1. t \in Stores /\ t.stock = s.stock
    BY MarkShortageNotifiedType
  <2>2. \A p \in Orders : StatusOf(t, p) = StatusOf(s, p) /\ t.orders[p].reserved = s.orders[p].reserved
    BY MarkShortageNotifiedEffect
  <2> HIDE DEF t
  <2>3. Follows(s, t)
    BY <2>1, <2>2, FollowsQuietly
  <2> QED
    BY <2>3 DEF t
<1>3. ASSUME NEW link \in Links PROVE Follows(s, AppendPreparedLink(s, o, link))
  <2> DEFINE t == AppendPreparedLink(s, o, link)
  <2>1. t \in Stores /\ t.stock = s.stock
    BY AppendPreparedLinkType
  <2>2. \A p \in Orders : StatusOf(t, p) = StatusOf(s, p) /\ t.orders[p].reserved = s.orders[p].reserved
    BY AppendPreparedLinkEffect
  <2> HIDE DEF t
  <2>3. Follows(s, t)
    BY <2>1, <2>2, FollowsQuietly
  <2> QED
    BY <2>3 DEF t
<1>4. ASSUME StatusOf(s, o) # "completed" PROVE Follows(s, MarkGistCreated(s, o))
  <2> DEFINE t == MarkGistCreated(s, o)
  <2>1. t \in Stores /\ t.stock = s.stock
    BY MarkGistCreatedType
  <2>2. \A p \in Orders : /\ StatusOf(t, p) = IF p = o THEN "gist_created" ELSE StatusOf(s, p)
                          /\ t.orders[p].reserved = s.orders[p].reserved
    BY MarkGistCreatedEffect
  <2>3. "gist_created" \in HeldStatuses
    BY DEF HeldStatuses, Statuses
  <2> HIDE DEF t
  <2>4. Follows(s, t)
    BY <1>4, <2>1, <2>2, <2>3, FollowsQuietly
  <2> QED
    BY <2>4 DEF t
<1> QED
  BY <1>1, <1>2, <1>3, <1>4

(* A record made for an error is of an order that had none, and held nothing. *)
LEMMA FollowsError ==
  ASSUME NEW s \in Stores, NEW o \in Orders, NEW amount \in Nat \ {0}, EmptyHanded(s)
  PROVE  Follows(s, RecordError(s, o, amount))
<1> DEFINE t == RecordError(s, o, amount)
<1>1. t \in Stores /\ t.stock = s.stock
  BY RecordErrorType
<1>2. CASE t = s
  BY <1>1, <1>2, FollowsQuietly
<1>3. CASE t # s
  <2>1. StatusOf(s, o) = "absent" /\ t.orders = [s.orders EXCEPT ![o] = NewRecord(amount)]
    BY <1>3, RecordErrorType
  <2>2. t.orders[o] = NewRecord(amount) /\ \A p \in Orders \ {o} : t.orders[p] = s.orders[p]
    BY <2>1 DEF Stores
  <2>3. t.orders[o].reserved = <<>> /\ StatusOf(t, o) = "retryable"
    BY <2>2 DEF NewRecord, StatusOf
  <2>4. s.orders[o].reserved = <<>>
    BY <2>1 DEF EmptyHanded, HeldStatuses, Statuses
  <2> HIDE DEF t
  <2>5. \A p \in Orders \ {o} : StatusOf(t, p) = StatusOf(s, p) /\ t.orders[p].reserved = s.orders[p].reserved
    BY <2>2 DEF StatusOf
  <2>6. \A p \in Orders : /\ t.orders[p].reserved = s.orders[p].reserved
                          /\ StatusOf(t, p) = "completed" <=> StatusOf(s, p) = "completed"
                          /\ StatusOf(t, p) = StatusOf(s, p) \/ t.orders[p].reserved = <<>>
    BY <2>1, <2>3, <2>4, <2>5
  <2>7. Follows(s, t)
    BY <1>1, <2>6, FollowsQuietly
  <2> QED
    BY <2>7 DEF t
<1> QED
  BY <1>2, <1>3

(* reserve moves the front of the stock to an order that held nothing. *)
LEMMA FollowsReserve ==
  ASSUME NEW s \in Stores, NEW o \in Orders, NEW amount \in Nat \ {0}, NEW allOrNothing \in BOOLEAN,
         EmptyHanded(s), ExclusiveIn(s)
  PROVE  Follows(s, Reserve(s, o, amount, allOrNothing))
<1> DEFINE order == IF StatusOf(s, o) = "absent" THEN NewRecord(amount) ELSE s.orders[o]
           take  == ToTake(Len(s.stock), order.requested, allOrNothing)
           t     == Reserve(s, o, amount, allOrNothing)
<1>1. t \in Stores /\ ExclusiveIn(t)
  BY ReserveType, ExclusiveReserve
<1>2. CASE StatusOf(s, o) \in HeldStatuses
  <2>1. t = s
    BY <1>2 DEF Reserve
  <2> QED
    BY <2>1, FollowsQuietly
<1>3. CASE StatusOf(s, o) \notin HeldStatuses
  <2>1. order \in OrderRecords
    BY NewRecordType DEF Stores
  <2>2. s.stock \in Seq(Links) /\ Len(s.stock) \in Nat
    BY LenProperties DEF Stores
  <2>3. take \in 0..Len(s.stock)
    BY <2>1, <2>2, ToTakeType DEF OrderRecords
  <2> DEFINE record == [order EXCEPT !.reserved = SubSeq(s.stock, 1, take),
                                     !.status   = IF take > 0 THEN "reserved" ELSE "waiting_stock"]
  <2>4. t = [stock |-> SubSeq(s.stock, take + 1, Len(s.stock)), orders |-> [s.orders EXCEPT ![o] = record]]
    BY <1>3 DEF Reserve
  <2>5. /\ record.reserved = SubSeq(s.stock, 1, take)
        /\ record.status = IF take > 0 THEN "reserved" ELSE "waiting_stock"
    BY <2>1 DEF OrderRecords
  <2> HIDE DEF record, take, order, t
  <2>6. /\ t.stock = SubSeq(s.stock, take + 1, Len(s.stock))
        /\ t.orders[o] = record
        /\ \A p \in Orders \ {o} : t.orders[p] = s.orders[p]
    BY <2>4 DEF Stores
  <2> DEFINE S == ToSet(SubSeq(s.stock, 1, take))
             rest == ToSet(SubSeq(s.stock, take + 1, Len(s.stock)))
  <2>7. S \cup rest = ToSet(s.stock) /\ S \cap rest = {}
    BY <2>2, <2>3, SplitInjective DEF ExclusiveIn
  <2>8. StatusOf(t, o) \in {"reserved", "waiting_stock"} /\ LinksOf(t, o) = S
    BY <2>5, <2>6 DEF StatusOf, LinksOf
  <2>9. LinksOf(s, o) = {}
    BY <1>3, EmptyToSet DEF EmptyHanded, LinksOf
  <2>10. ToSet(t.stock) = rest /\ \A p \in Orders \ {o} : LinksOf(t, p) = LinksOf(s, p)
    BY <2>6 DEF LinksOf, StatusOf
  <2>11. S \in SUBSET Links
    BY <1>1, <2>8, LinksOfType
  <2> HIDE DEF S, rest
  <2>12. Places(t) = Moved(Places(s), S, o)
    BY <1>1, <2>7, <2>8, <2>9, <2>10, <2>11, PlacesMoved, LedgerAssumption
  <2>13. S \in SUBSET AtPlace(Places(s), Shelf) /\ AtPlace(Places(s), o) = {}
    BY <2>7, <2>9, <2>11, PlaceOf DEF AtPlace
  <2>14. EmptyHanded(t)
    <3>1. take = 0 => t.orders[o].reserved = <<>>
      <4>1. SubSeq(s.stock, 1, 0) = <<>>
        BY <2>2, SubSeqProperties, EmptySeq
      <4> QED
        BY <2>5, <2>6, <4>1
    <3>2. take # 0 => StatusOf(t, o) \in HeldStatuses
      BY <2>3, <2>5, <2>6 DEF StatusOf, HeldStatuses, Statuses
    <3> QED
      BY <2>6, <3>1, <3>2 DEF EmptyHanded, StatusOf
  <2>15. Arrow(Places(s), Places(t))
    BY <2>12, <2>13 DEF Arrow
  <2> QED
    BY <2>14, <2>15 DEF Follows, t
<1> QED
  BY <1>2, <1>3

(* restore_reservation moves what an order holds to the stock. *)
LEMMA FollowsRestore ==
  ASSUME NEW s \in Stores, NEW o \in Orders, EmptyHanded(s), ExclusiveIn(s), StatusOf(s, o) # "completed"
  PROVE  Follows(s, RestoreReservation(s, o))
<1> DEFINE t == RestoreReservation(s, o)
           S == LinksOf(s, o)
<1>1. t \in Stores /\ ExclusiveIn(t)
  BY RestoreReservationType, ExclusiveRestoreReservation
<1>2. /\ t.stock = s.orders[o].reserved \o s.stock
      /\ t.orders[o].reserved = <<>>
      /\ StatusOf(t, o) = "retryable"
      /\ \A p \in Orders \ {o} : t.orders[p] = s.orders[p]
  BY RestoreReservationType DEF StatusOf
<1> HIDE DEF t
<1>3. s.orders[o].reserved \in Seq(Links) /\ s.stock \in Seq(Links)
  BY DEF Stores, OrderRecords
<1>4. ToSet(t.stock) = S \cup ToSet(s.stock)
  BY <1>2, <1>3, JoinInjective DEF LinksOf
<1>5. LinksOf(t, o) = {} /\ \A p \in Orders \ {o} : LinksOf(t, p) = LinksOf(s, p)
  BY <1>2, EmptyToSet DEF LinksOf, StatusOf
<1>6. S \in SUBSET Links
  BY LinksOfType
<1>7. S = AtPlace(Places(s), o)
  BY <1>6, PlaceOf DEF AtPlace
<1> HIDE DEF S
<1>8. \A l \in Links \ S : l \notin LinksOf(s, o)
  BY DEF S
<1>9. Places(t) = Moved(Places(s), S, Shelf)
  BY <1>1, <1>4, <1>5, <1>6, <1>8, PlacesMoved, LedgerAssumption
<1>10. EmptyHanded(t)
  BY <1>2 DEF EmptyHanded, StatusOf
<1>11. Arrow(Places(s), Places(t))
  BY <1>7, <1>9 DEF Arrow
<1> QED
  BY <1>10, <1>11 DEF Follows, t

(* A completed order lets its links go; the orders forgotten then have none left. *)
LEMMA FollowsComplete ==
  ASSUME NEW s \in Stores, NEW o \in Orders, EmptyHanded(s), ExclusiveIn(s),
         NEW S \in Trimmed(SetStatus(s, o, "completed"))
  PROVE  Follows(s, Forget(SetStatus(s, o, "completed"), S))
<1> DEFINE t == SetStatus(s, o, "completed")
           u == Forget(t, S)
           gone == LinksOf(s, o)
<1>1. "completed" \in Statuses /\ "completed" \in HeldStatuses
  BY DEF HeldStatuses, Statuses
<1>2. t \in Stores /\ t.stock = s.stock /\ ExclusiveIn(t)
  BY <1>1, SetStatusType, ExclusiveSetStatus
<1>3. \A p \in Orders : /\ StatusOf(t, p) = IF p = o THEN "completed" ELSE StatusOf(s, p)
                        /\ t.orders[p].reserved = s.orders[p].reserved
  BY <1>1, SetStatusEffect, ZenonT(60)
<1>4. S \in SUBSET Orders /\ \A p \in S : StatusOf(t, p) = "completed"
  BY DEF Trimmed, CompletedOrders
<1> HIDE DEF t
<1>5. u.stock = t.stock /\ \A p \in Orders : u.orders[p] = IF p \in S THEN NoRecord ELSE t.orders[p]
  BY <1>2, <1>4, ForgetType
<1> HIDE DEF u
<1>6. NoRecord.reserved = <<>>
  BY DEF NoRecord, NewRecord
<1>7. \A p \in Orders : LinksOf(u, p) = LinksOf(t, p)
  BY <1>4, <1>5, <1>6, EmptyToSet DEF LinksOf, StatusOf
<1>8. Places(u) = Places(t)
  BY <1>5, <1>7, SamePlaces
<1>9. LinksOf(t, o) = {} /\ \A p \in Orders \ {o} : LinksOf(t, p) = LinksOf(s, p)
  BY <1>3 DEF LinksOf
<1>10. gone \in SUBSET Links /\ gone \cap ToSet(s.stock) = {}
  BY LinksOfType DEF ExclusiveIn
<1>11. \A p \in Orders \ {o} : gone \cap LinksOf(s, p) = {}
  BY DEF ExclusiveIn
<1>12. gone = AtPlace(Places(s), o)
  BY <1>10, PlaceOf DEF AtPlace
<1>13. \A l \in Links \ gone : l \notin LinksOf(s, o)
  OBVIOUS
<1> HIDE DEF gone
<1>14. Places(t) = Moved(Places(s), gone, Out)
  BY <1>2, <1>9, <1>10, <1>11, <1>13, PlacesMoved, LedgerAssumption
<1>15. EmptyHanded(u)
  BY <1>1, <1>3, <1>5, <1>6 DEF EmptyHanded, StatusOf
<1>16. Arrow(Places(s), Places(u))
  BY <1>8, <1>12, <1>14 DEF Arrow
<1> QED
  BY <1>15, <1>16 DEF Follows, t, u

(* load moves no link. *)
LEMMA FollowsLoad ==
  ASSUME NEW s \in Stores, EmptyHanded(s)
  PROVE  EmptyHanded(NormalizeState(s)) /\ Places(NormalizeState(s)) = Places(s)
<1> DEFINE t == NormalizeState(s)
<1>1. t.stock = s.stock
  BY NormalizeStateType
<1>2. \A p \in Orders : /\ StatusOf(t, p) =
                             CASE StatusOf(s, p) = "gist_created" -> "awaiting_confirmation"
                               [] StatusOf(s, p) = "sending"      -> "send_failed"
                               [] OTHER                           -> StatusOf(s, p)
                        /\ t.orders[p].reserved = s.orders[p].reserved
  BY NormalizeStateEffect
<1> HIDE DEF t
<1>3. \A p \in Orders : LinksOf(t, p) = LinksOf(s, p)
  BY <1>2 DEF LinksOf
<1>4. Places(t) = Places(s)
  BY <1>1, <1>3, SamePlaces
<1>5. EmptyHanded(t)
  BY <1>2 DEF EmptyHanded, HeldStatuses, Statuses
<1> QED
  BY <1>4, <1>5 DEF t

(* New links come from outside. *)
LEMMA FollowsAddLinks ==
  ASSUME NEW s \in Stores, NEW links \in SUBSET Links, NEW batch \in NewLinks(s, links),
         EmptyHanded(s), ExclusiveIn(s)
  PROVE  Follows(s, AddLinks(s, batch))
<1> DEFINE t == AddLinks(s, batch)
           S == ToSet(batch)
<1>1. batch \in Seq(Links) /\ S \cap ActiveLinks(s) = {}
  BY NewLinksType
<1>2. t \in Stores /\ ExclusiveIn(t) /\ t.stock = s.stock \o batch /\ t.orders = s.orders
  BY <1>1, AddLinksType, ExclusiveAddLinks
<1> HIDE DEF t
<1>3. s.stock \in Seq(Links)
  BY DEF Stores
<1>4. ToSet(t.stock) = ToSet(s.stock) \cup S
  BY <1>1, <1>2, <1>3, JoinInjective
<1>5. \A p \in Orders : LinksOf(t, p) = LinksOf(s, p)
  BY <1>2 DEF LinksOf, StatusOf
<1>6. S \in SUBSET Links
  BY <1>1, ToSetSeq
<1>7. S \cap ToSet(s.stock) = {} /\ \A p \in Orders : S \cap LinksOf(s, p) = {}
  BY <1>1 DEF ActiveLinks
<1> HIDE DEF S
<1>8. Places(t) = Moved(Places(s), S, Shelf)
  <2>1. S \subseteq ToSet(t.stock) /\ Shelf \notin Orders /\ Shelf # Out
    BY <1>4, LedgerAssumption
  <2>2. \A l \in Links \ S : /\ l \in ToSet(t.stock) <=> l \in ToSet(s.stock)
                            /\ \A p \in Orders : l \in LinksOf(t, p) <=> l \in LinksOf(s, p)
    BY <1>4, <1>5
  <2>3. t \in Stores /\ ExclusiveIn(t)
    BY <1>2
  <2> QED
    BY <1>6, <2>1, <2>2, <2>3, PlacesMoved
<1>9. S \in SUBSET AtPlace(Places(s), Out)
  BY <1>6, <1>7, PlaceOf DEF AtPlace
<1>10. EmptyHanded(t)
  BY <1>2 DEF EmptyHanded, StatusOf
<1>11. Arrow(Places(s), Places(t))
  BY <1>8, <1>9 DEF Arrow
<1> QED
  BY <1>10, <1>11 DEF Follows, t

(* Links that leave the stock leave the plugin. *)
LEMMA FollowsStockShrunk ==
  ASSUME NEW s \in Stores, NEW t \in Stores, EmptyHanded(s), ExclusiveIn(s), ExclusiveIn(t),
         t.orders = s.orders, ToSet(t.stock) \subseteq ToSet(s.stock)
  PROVE  Follows(s, t)
<1> DEFINE S == ToSet(s.stock) \ ToSet(t.stock)
<1>1. \A p \in Orders : LinksOf(t, p) = LinksOf(s, p) /\ S \cap LinksOf(s, p) = {}
  BY DEF LinksOf, StatusOf, ExclusiveIn
<1>2. S \in SUBSET Links
  <2>1. s.stock \in Seq(Links)
    BY DEF Stores
  <2> QED
    BY <2>1, ToSetSeq
<1>3. S \subseteq ToSet(s.stock) /\ S \cap ToSet(t.stock) = {}
  OBVIOUS
<1>4. \A l \in Links \ S : l \in ToSet(t.stock) <=> l \in ToSet(s.stock)
  OBVIOUS
<1> HIDE DEF S
<1>5. Places(t) = Moved(Places(s), S, Out)
  BY <1>1, <1>2, <1>3, <1>4, PlacesMoved, LedgerAssumption
<1>6. S \in SUBSET AtPlace(Places(s), Shelf)
  BY <1>2, <1>3, PlaceOf DEF AtPlace
<1>7. Arrow(Places(s), Places(t))
  BY <1>5, <1>6 DEF Arrow
<1> QED
  BY <1>7 DEF Follows, EmptyHanded, StatusOf

-----------------------------------------------------------------------------
(* Every step of the program. *)

(* Memory and file place the links alike while the storage can be written. *)
LEMMA SamePlacesInFile ==
  ASSUME TypeInv, StepInv, HandsInv, writable
  PROVE  Places(mem) = Places(disk)
<1>1. disk \in Stores
  BY DEF TypeInv, TypeOK
<1> QED
  BY <1>1, FollowsLoad DEF StepInv, Agreement, HandsInv

(* One step: of the handler, of the administrators, or a restart. *)
LEMMA LedgerStep ==
  TypeInv /\ StepInv /\ LinksExclusive /\ HandsInv /\ [Next]_vars => HandsInv' /\ [Ledger!Next]_Holder
<1> DEFINE Good == HandsInv' /\ Arrow(Places(disk), Places(disk'))
<1> SUFFICES ASSUME TypeInv, StepInv, LinksExclusive, HandsInv, [Next]_vars PROVE Good
  BY ArrowIsLedgerStep
<1> USE DEF store
<1>1. /\ op \in Operations /\ mem \in Stores /\ disk \in Stores
      /\ op.pc # "idle" => op.order \in Orders
      /\ op.amount \in Nat \ {0} /\ op.allOrNothing \in BOOLEAN
      /\ op.provider \in Providers \cup {"unset"} /\ op.todo \in Seq(Links)
  BY DEF TypeInv, TypeOK, Free, At, Operations
<1>2. ExclusiveIn(mem) /\ EmptyHanded(mem) /\ EmptyHanded(disk)
  BY DEF LinksExclusive, HandsInv
<1>3. ASSUME NEW t, Commit(t), Follows(mem, t) PROVE Good
  BY <1>3, SamePlacesInFile DEF Commit, Follows, HandsInv
<1>4. UNCHANGED store => Good
  BY <1>2 DEF HandsInv, Arrow
<1>5. ASSUME NEW o \in Orders, NEW status \in HeldStatuses \ {"completed"}, StatusOf(mem, o) # "completed",
             Commit(SetStatus(mem, o, status))
      PROVE  Good
  BY <1>1, <1>2, <1>3, <1>5, FollowsStatus
<1>6. /\ op.pc \in Preparing => StatusOf(mem, op.order) # "completed"
      /\ op.pc \in {"send", "complete", "fail"} => StatusOf(mem, op.order) = "sending"
  BY DEF StepInv, Position, Status, Final
<1>7. {"cancelled", "preparation_failed", "awaiting_confirmation", "sending", "send_failed"}
        \subseteq HeldStatuses \ {"completed"}
  BY DEF HeldStatuses, Statuses
<1> HIDE DEF Good
<1>8. ASSUME NEW o \in Orders,
             NewOrderEvent(o) \/ TimerFires(o) \/ RetryOrder(o) \/ PressConfirm(o) \/ PressCancel(o)
      PROVE  Good
  <2>1. CASE PressCancel(o)
    BY <1>5, <1>7, <2>1 DEF PressCancel
  <2> QED
    BY <1>4, <1>8, <2>1 DEF NewOrderEvent, TimerFires, RetryOrder, PressConfirm
<1>9. ASSUME \/ DeliverSettled \/ WarnShortage \/ ShortenDone \/ SendMessage \/ Raise
             \/ ShowWaitingPage \/ SetMode
      PROVE  Good
  BY <1>4, <1>9 DEF DeliverSettled, WarnShortage, ShortenDone, SendMessage, Raise, ShowWaitingPage, SetMode
<1>10. ASSUME DeliverMisconfigured PROVE Good
  <2>1. op.order \in Orders
    BY <1>1, <1>10 DEF DeliverMisconfigured, At
  <2> QED
    BY <1>1, <1>2, <1>3, <1>10, <2>1, FollowsError DEF DeliverMisconfigured
<1>11. ASSUME DeliverReserve \/ StartPreparation PROVE Good
  <2>1. op.order \in Orders
    BY <1>1, <1>11 DEF DeliverReserve, StartPreparation, At
  <2>2. Follows(mem, Reserve(mem, op.order, op.amount, op.allOrNothing))
    BY <1>1, <1>2, <2>1, FollowsReserve
  <2> QED
    BY <1>3, <1>11, <2>2 DEF DeliverReserve, StartPreparation
<1>12. ASSUME PinProvider \/ NotifyShortageOnce PROVE Good
  <2>1. op.order \in Orders
    BY <1>1, <1>12 DEF PinProvider, NotifyShortageOnce, At
  <2>2. Follows(mem, SetProvider(mem, op.order, op.provider)) /\ Follows(mem, MarkShortageNotified(mem, op.order))
    BY <1>1, <1>2, <2>1, FollowsPreparation
  <2> QED
    BY <1>3, <1>4, <1>12, <2>2 DEF PinProvider, NotifyShortageOnce
<1>13. ASSUME CreateGist PROVE Good
  <2>1. op.order \in Orders /\ StatusOf(mem, op.order) # "completed"
    BY <1>1, <1>6, <1>13 DEF CreateGist, At, Preparing
  <2>2. Follows(mem, MarkGistCreated(mem, op.order)) /\ Follows(mem, RestoreReservation(mem, op.order))
    BY <1>1, <1>2, <2>1, FollowsPreparation, FollowsRestore
  <2> QED
    BY <1>3, <1>13, <2>2 DEF CreateGist
<1>14. ASSUME ShortenLink PROVE Good
  <2>1. op.order \in Orders /\ StatusOf(mem, op.order) # "completed"
    BY <1>1, <1>6, <1>14 DEF ShortenLink, At, Preparing
  <2>2. Head(op.todo) \in Links
    BY <1>1, <1>14, HeadTailProperties DEF ShortenLink
  <2>3. Follows(mem, AppendPreparedLink(mem, op.order, Head(op.todo)))
    BY <1>1, <1>2, <2>1, <2>2, FollowsPreparation
  <2> QED
    BY <1>3, <1>5, <1>7, <1>14, <2>1, <2>3 DEF ShortenLink
<1>15. ASSUME RequestConfirmation \/ BeginSend \/ MarkSendFailed PROVE Good
  <2>1. op.order \in Orders
    BY <1>1, <1>15 DEF RequestConfirmation, BeginSend, MarkSendFailed, At
  <2>2. StatusOf(mem, op.order) # "completed" \/ UNCHANGED store
    BY <1>6, <1>15 DEF RequestConfirmation, BeginSend, MarkSendFailed, At, Preparing, Status
  <2> QED
    BY <1>4, <1>5, <1>7, <1>15, <2>1, <2>2 DEF RequestConfirmation, BeginSend, MarkSendFailed
<1>16. ASSUME MarkCompleted PROVE Good
  <2>1. op.order \in Orders
    BY <1>1, <1>16 DEF MarkCompleted, At
  <2> QED
    BY <1>1, <1>2, <1>3, <1>16, <2>1, FollowsComplete DEF MarkCompleted
<1>17. ASSUME UploadLinks PROVE Good
  BY <1>1, <1>2, <1>3, <1>17, FollowsAddLinks DEF UploadLinks
<1>18. ASSUME DeleteLink PROVE Good
  <2>1. PICK link \in Links : Commit(RemoveStockLink(mem, link))
    BY <1>18 DEF DeleteLink
  <2> DEFINE t == RemoveStockLink(mem, link)
  <2>2. t \in Stores /\ ExclusiveIn(t) /\ t.orders = mem.orders /\ t.stock = RemoveFirst(mem.stock, link)
    BY <1>1, <1>2, RemoveStockLinkType, ExclusiveRemoveStockLink
  <2>3. mem.stock \in Seq(Links) /\ IsInjective(mem.stock)
    BY <1>1, <1>2 DEF Stores, ExclusiveIn
  <2>4. ToSet(t.stock) \subseteq ToSet(mem.stock)
    BY <2>2, <2>3, RemoveFirstInjective
  <2> HIDE DEF t
  <2>5. Follows(mem, t)
    BY <1>1, <1>2, <2>2, <2>4, FollowsStockShrunk
  <2> QED
    BY <1>3, <2>1, <2>5 DEF t
<1>19. ASSUME ClearLinks PROVE Good
  <2> DEFINE t == ClearStock(mem)
  <2>1. t \in Stores /\ ExclusiveIn(t) /\ t.orders = mem.orders /\ ToSet(t.stock) = {}
    BY <1>1, <1>2, ClearStockType, ExclusiveClearStock, EmptyToSet
  <2> HIDE DEF t
  <2>2. Follows(mem, t)
    BY <1>1, <1>2, <2>1, FollowsStockShrunk
  <2> QED
    BY <1>3, <1>19, <2>2 DEF ClearLinks, t
<1>20. ASSUME Restart PROVE Good
  <2>1. EmptyHanded(DefaultStore)
    BY DEF EmptyHanded, DefaultStore, NoRecord, NewRecord
  <2>2. disk' = disk /\ EmptyHanded(mem')
    BY <1>1, <1>2, <1>20, <2>1, FollowsLoad DEF Restart
  <2> QED
    BY <1>2, <2>2 DEF Good, HandsInv, Arrow
<1>21. CASE UNCHANGED vars
  BY <1>4, <1>21 DEF vars
<1> QED
  BY <1>8, <1>9, <1>10, <1>11, <1>12, <1>13, <1>14, <1>15, <1>16, <1>17, <1>18, <1>19, <1>20, <1>21
     DEF Next, HandlerStep

(* The file implements the ledger: whatever handlers, administrators,       *)
(* failed writes and restarts do, a link moves along the arrows only.       *)
THEOREM LedgerImplemented == Spec => ImplementsLedger
<1>1. Init => HandsInv
  BY DEF Init, HandsInv, EmptyHanded, DefaultStore, NoRecord, NewRecord
<1>2. Init => Ledger!Init
  <2> SUFFICES ASSUME Init PROVE Ledger!Init
    OBVIOUS
  <2>1. \A o \in Orders : disk.orders[o].reserved = <<>> /\ disk.stock = <<>>
    BY DEF Init, DefaultStore, NoRecord, NewRecord
  <2>2. ToSet(disk.stock) = {} /\ \A o \in Orders : LinksOf(disk, o) = {}
    BY <2>1, EmptyToSet DEF Init, DefaultStore, LinksOf
  <2> QED
    BY <2>2 DEF Ledger!Init, Holder
<1> QED
  BY <1>1, <1>2, LedgerStep, TypeInvariance, StepInvariance, LinksStayExclusive, PTL
     DEF Spec, ImplementsLedger, Ledger!Spec

-----------------------------------------------------------------------------
(* Layer 7: the preparation.  Every record is sound, and the handler has    *)
(* left what is not prepared yet.                                           *)

(* A record that is short of links has the mark of the warning. *)
Warned(r) == Len(r.reserved) < r.requested => r.notified

(* What a record may say: nothing is prepared or pinned without links, what  *)
(* is prepared are the first of the links in their order or one gist of all, *)
(* and a record that is ready is prepared and, if short, warned of.          *)
Sound(r) ==
  /\ r.status \notin HeldStatuses => r.prepared = <<>> /\ r.provider = "unset"
  /\ r.status \in HeldStatuses => r.reserved # <<>>
  /\ r.provider = "unset" => r.prepared = <<>>
  /\ r.provider = "github" => r.prepared \in {<<>>, <<Gist>>}
  /\ r.provider = "short_io" => /\ Len(r.prepared) <= Len(r.reserved)
                                /\ r.prepared = SubSeq(r.reserved, 1, Len(r.prepared))
  /\ r.status = "gist_created" => r.prepared = <<Gist>>
  /\ r.status \in ReadyStatuses => Prepared(r) /\ Warned(r)

AllSound(s) == \A o \in Orders : Sound(s.orders[o])

(* The statuses of an order whose links are being prepared. *)
Unprepared == {"reserved", "preparation_failed"}

(* What the handler knows of the record of its order at each position. *)
Working(pc, todo, r) ==
  /\ pc \in {"pin", "prepare", "gist", "shorten"} => r.status \in Unprepared
  /\ pc \in {"shortage", "warn"} => r.status \in Unprepared \cup {"waiting_stock"}
  /\ pc = "awaiting" => r.status \in HeldStatuses
  /\ pc = "warn" => r.notified
  /\ pc \in {"prepare", "gist", "shorten", "awaiting"} => Warned(r)
  /\ pc = "shorten" => /\ r.provider = "short_io"
                       /\ todo = SubSeq(r.reserved, Len(r.prepared) + 1, Len(r.reserved))
  /\ pc = "awaiting" => r.prepared = <<>> \/ Prepared(r)

PreparationInv ==
  /\ AllSound(mem) /\ AllSound(disk)
  /\ Working(op.pc, op.todo, Record)


-----------------------------------------------------------------------------
(* A record and its sequences. *)
LEMMA RecordFields ==
  ASSUME NEW r \in OrderRecords
  PROVE  /\ r.status \in Statuses \cup {"absent"} /\ r.requested \in Nat \ {0}
         /\ r.reserved \in Seq(Links) /\ r.prepared \in Seq(Links \cup {Gist})
         /\ r.provider \in Providers \cup {"unset"} /\ r.notified \in BOOLEAN
         /\ Len(r.reserved) \in Nat /\ Len(r.prepared) \in Nat
BY LenProperties DEF OrderRecords

(* One record is replaced by a sound one. *)
LEMMA SoundUpdate ==
  ASSUME NEW s \in Stores, NEW t, NEW o \in Orders, NEW record,
         AllSound(s), t.orders = [s.orders EXCEPT ![o] = record], Sound(record)
  PROVE  AllSound(t)
<1>1. s.orders \in [Orders -> OrderRecords]
  BY DEF Stores
<1> QED  BY <1>1 DEF AllSound

(* A record without a reservation. *)
LEMMA SoundEmpty ==
  ASSUME NEW amount \in Nat \ {0}
  PROVE  Sound(NewRecord(amount)) /\ Sound(NoRecord)
<1>1. /\ NewRecord(amount).status = "retryable" /\ NewRecord(amount).prepared = <<>>
      /\ NewRecord(amount).provider = "unset"
  BY DEF NewRecord
<1>2. NoRecord.status = "absent" /\ NoRecord.prepared = <<>> /\ NoRecord.provider = "unset"
  BY DEF NoRecord, NewRecord
<1>3. "retryable" \notin HeldStatuses \cup ReadyStatuses /\ "absent" \notin HeldStatuses \cup ReadyStatuses
  BY DEF HeldStatuses, Statuses, ReadyStatuses
<1> QED  BY <1>1, <1>2, <1>3 DEF Sound

(* A status that holds links, and the record has them, prepared if need be. *)
LEMMA SoundStatus ==
  ASSUME NEW s \in Stores, NEW o \in Orders, NEW status \in HeldStatuses \ {"gist_created"},
         AllSound(s), StatusOf(s, o) \in HeldStatuses,
         status \in ReadyStatuses => Prepared(s.orders[o]) /\ Warned(s.orders[o])
  PROVE  AllSound(SetStatus(s, o, status))
<1> DEFINE r == s.orders[o]
           u == [r EXCEPT !.status = status]
<1>1. status \in Statuses
  BY DEF HeldStatuses
<1>2. SetStatus(s, o, status).orders = [s.orders EXCEPT ![o] = u]
  BY <1>1, SetStatusType
<1>3. r \in OrderRecords /\ Sound(r) /\ r.status \in HeldStatuses
  BY DEF Stores, AllSound, StatusOf
<1> HIDE DEF r
<1>4. /\ u.status = status /\ u.reserved = r.reserved /\ u.prepared = r.prepared /\ u.provider = r.provider
      /\ u.requested = r.requested /\ u.notified = r.notified
  BY <1>3 DEF OrderRecords
<1> HIDE DEF u
<1>5. Sound(u)
  BY <1>3, <1>4 DEF Sound, Prepared, Warned, r
<1> QED  BY <1>2, <1>5, SoundUpdate

(* The provider is pinned when the order has links, before any is prepared. *)
LEMMA SoundProvider ==
  ASSUME NEW s \in Stores, NEW o \in Orders, NEW provider \in Providers \cup {"unset"},
         AllSound(s), StatusOf(s, o) \in HeldStatuses
  PROVE  AllSound(SetProvider(s, o, provider))
<1> DEFINE r == s.orders[o]
           u == [r EXCEPT !.provider = provider]
<1>1. r \in OrderRecords /\ Sound(r) /\ r.status \in HeldStatuses
  BY DEF Stores, AllSound, StatusOf
<1>2. CASE r.provider # "unset"
  BY <1>2 DEF SetProvider
<1>3. CASE r.provider = "unset"
  <2>1. SetProvider(s, o, provider).orders = [s.orders EXCEPT ![o] = u]
    BY <1>3 DEF SetProvider, Stores
  <2> HIDE DEF r
  <2>2. /\ u.status = r.status /\ u.reserved = r.reserved /\ u.prepared = r.prepared /\ u.provider = provider
        /\ u.requested = r.requested /\ u.notified = r.notified
    BY <1>1 DEF OrderRecords
  <2> HIDE DEF u
  <2>3. r.prepared = <<>>
    BY <1>1, <1>3 DEF Sound
  <2>4. Len(<<>>) = 0 /\ SubSeq(u.reserved, 1, 0) = <<>> /\ Len(u.reserved) \in Nat
    BY <1>1, <2>2, RecordFields, SubSeqProperties, EmptySeq
  <2>5. Sound(u)
    BY <1>1, <2>2, <2>3, <2>4 DEF Sound, Prepared, Warned
  <2> QED  BY <2>1, <2>5, SoundUpdate
<1> QED  BY <1>2, <1>3

(* The mark of the warning. *)
LEMMA SoundMark ==
  ASSUME NEW s \in Stores, NEW o \in Orders, AllSound(s)
  PROVE  /\ AllSound(MarkShortageNotified(s, o))
         /\ MarkShortageNotified(s, o).orders[o] = [s.orders[o] EXCEPT !.notified = TRUE]
<1> DEFINE r == s.orders[o]
           u == [r EXCEPT !.notified = TRUE]
<1>1. r \in OrderRecords /\ Sound(r)
  BY DEF Stores, AllSound
<1>2. MarkShortageNotified(s, o).orders = [s.orders EXCEPT ![o] = u]
  BY MarkShortageNotifiedType
<1> HIDE DEF r
<1>3. /\ u.status = r.status /\ u.reserved = r.reserved /\ u.prepared = r.prepared /\ u.provider = r.provider
      /\ u.requested = r.requested /\ u.notified = TRUE
  BY <1>1 DEF OrderRecords
<1> HIDE DEF u
<1>4. Sound(u)
  BY <1>1, <1>3 DEF Sound, Prepared, Warned
<1>5. AllSound(MarkShortageNotified(s, o)) /\ MarkShortageNotified(s, o).orders[o] = u
  <2> DEFINE t == MarkShortageNotified(s, o)
  <2>1. t.orders = [s.orders EXCEPT ![o] = u]
    BY <1>2
  <2> HIDE DEF t
  <2>2. AllSound(t)
    BY <1>4, <2>1, SoundUpdate
  <2>3. t.orders[o] = u
    BY <2>1 DEF Stores
  <2> QED  BY <2>2, <2>3 DEF t
<1> QED  BY <1>5 DEF u, r

(* A gist is made of all the links. *)
LEMMA SoundGist ==
  ASSUME NEW s \in Stores, NEW o \in Orders, AllSound(s), StatusOf(s, o) \in HeldStatuses, Warned(s.orders[o])
  PROVE  /\ AllSound(MarkGistCreated(s, o))
         /\ MarkGistCreated(s, o).orders[o] =
              [s.orders[o] EXCEPT !.status = "gist_created", !.provider = "github", !.prepared = <<Gist>>]
<1> DEFINE r == s.orders[o]
           u == [r EXCEPT !.status = "gist_created", !.provider = "github", !.prepared = <<Gist>>]
<1>1. r \in OrderRecords /\ Sound(r) /\ r.status \in HeldStatuses /\ Warned(r)
  BY DEF Stores, AllSound, StatusOf
<1>2. MarkGistCreated(s, o).orders = [s.orders EXCEPT ![o] = u]
  BY MarkGistCreatedType
<1> HIDE DEF r
<1>3. /\ u.status = "gist_created" /\ u.reserved = r.reserved /\ u.prepared = <<Gist>> /\ u.provider = "github"
      /\ u.requested = r.requested /\ u.notified = r.notified
  BY <1>1 DEF OrderRecords
<1>4. "gist_created" \in HeldStatuses
  BY DEF HeldStatuses, Statuses
<1> HIDE DEF u
<1>5. Sound(u)
  BY <1>1, <1>3, <1>4 DEF Sound, Prepared, Warned
<1>6. AllSound(MarkGistCreated(s, o)) /\ MarkGistCreated(s, o).orders[o] = u
  <2> DEFINE t == MarkGistCreated(s, o)
  <2>1. t.orders = [s.orders EXCEPT ![o] = u]
    BY <1>2
  <2> HIDE DEF t
  <2>2. AllSound(t)
    BY <1>5, <2>1, SoundUpdate
  <2>3. t.orders[o] = u
    BY <2>1 DEF Stores
  <2> QED  BY <2>2, <2>3 DEF t
<1> QED  BY <1>6 DEF u, r

(* reserve starts from a record without links and without anything prepared. *)
LEMMA SoundReserve ==
  ASSUME NEW s \in Stores, NEW o \in Orders, NEW amount \in Nat \ {0}, NEW allOrNothing \in BOOLEAN,
         AllSound(s)
  PROVE  AllSound(Reserve(s, o, amount, allOrNothing))
<1> DEFINE order == IF StatusOf(s, o) = "absent" THEN NewRecord(amount) ELSE s.orders[o]
           take  == ToTake(Len(s.stock), order.requested, allOrNothing)
           u     == [order EXCEPT !.reserved = SubSeq(s.stock, 1, take),
                                  !.status   = IF take > 0 THEN "reserved" ELSE "waiting_stock"]
           t     == Reserve(s, o, amount, allOrNothing)
<1>1. CASE StatusOf(s, o) \in HeldStatuses
  BY <1>1 DEF Reserve
<1>2. CASE StatusOf(s, o) \notin HeldStatuses
  <2>1. order \in OrderRecords
    BY NewRecordType DEF Stores
  <2>2. order.prepared = <<>> /\ order.provider = "unset"
    BY <1>2 DEF AllSound, Sound, StatusOf, NewRecord
  <2>3. s.stock \in Seq(Links) /\ Len(s.stock) \in Nat
    BY LenProperties DEF Stores
  <2>4. take \in 0..Len(s.stock)
    BY <2>1, <2>3, ToTakeType DEF OrderRecords
  <2>5. t.orders = [s.orders EXCEPT ![o] = u]
    BY <1>2 DEF Reserve
  <2> HIDE DEF order, take, t
  <2>6. /\ u.status = IF take > 0 THEN "reserved" ELSE "waiting_stock"
        /\ u.reserved = SubSeq(s.stock, 1, take) /\ u.prepared = <<>> /\ u.provider = "unset"
    BY <2>1, <2>2 DEF OrderRecords
  <2> HIDE DEF u
  <2>7. take > 0 => u.reserved # <<>>
    <3>1. take > 0 => Len(SubSeq(s.stock, 1, take)) = take
      BY <2>3, <2>4, SubSeqProperties
    <3> QED  BY <2>4, <2>6, <3>1, EmptySeq
  <2>8. {"reserved", "waiting_stock"} \cap ReadyStatuses = {} /\ "waiting_stock" \notin HeldStatuses
    BY DEF ReadyStatuses, HeldStatuses
  <2>9. Sound(u)
    BY <2>6, <2>7, <2>8 DEF Sound
  <2>10. AllSound(t)
    BY <2>5, <2>9, SoundUpdate
  <2> QED  BY <2>10 DEF t
<1> QED  BY <1>1, <1>2

(* restore_reservation leaves neither links nor anything prepared. *)
LEMMA SoundRestore ==
  ASSUME NEW s \in Stores, NEW o \in Orders, AllSound(s)
  PROVE  AllSound(RestoreReservation(s, o))
<1> DEFINE r == s.orders[o]
           u == [r EXCEPT !.reserved = <<>>, !.provider = "unset", !.prepared = <<>>, !.status = "retryable"]
           t == RestoreReservation(s, o)
<1>1. r \in OrderRecords
  BY DEF Stores
<1>2. t.orders = [s.orders EXCEPT ![o] = u]
  BY DEF RestoreReservation, Stores
<1> HIDE DEF r, t
<1>3. u.status = "retryable" /\ u.prepared = <<>> /\ u.provider = "unset"
  BY <1>1 DEF OrderRecords
<1> HIDE DEF u
<1>4. "retryable" \notin HeldStatuses \cup ReadyStatuses
  BY DEF HeldStatuses, ReadyStatuses
<1>5. Sound(u)
  BY <1>3, <1>4 DEF Sound
<1>6. AllSound(t)
  BY <1>2, <1>5, SoundUpdate
<1> QED  BY <1>6 DEF t

(* A record made for an error has nothing either. *)
LEMMA SoundError ==
  ASSUME NEW s \in Stores, NEW o \in Orders, NEW amount \in Nat \ {0}, AllSound(s)
  PROVE  AllSound(RecordError(s, o, amount))
<1> DEFINE t == RecordError(s, o, amount)
<1>1. t = s \/ t.orders = [s.orders EXCEPT ![o] = NewRecord(amount)]
  BY RecordErrorType
<1> HIDE DEF t
<1>2. AllSound(t)
  BY <1>1, SoundEmpty, SoundUpdate
<1> QED  BY <1>2 DEF t

(* What was trimmed is no record. *)
LEMMA SoundForget ==
  ASSUME NEW s \in Stores, NEW S \in SUBSET Orders, AllSound(s)
  PROVE  AllSound(Forget(s, S))
<1>1. \A o \in Orders : Forget(s, S).orders[o] = IF o \in S THEN NoRecord ELSE s.orders[o]
  BY ForgetType
<1>2. Sound(NoRecord)
  BY SoundEmpty
<1> QED  BY <1>1, <1>2 DEF AllSound

(* load keeps records sound. *)
LEMMA SoundLoad ==
  ASSUME NEW s \in Stores, AllSound(s)
  PROVE  AllSound(NormalizeState(s)) /\ AllSound(DefaultStore)
<1>1. \A o \in Orders : NormalizeState(s).orders[o] = NormalizeRecord(s.orders[o])
  BY NormalizeStateType
<1>2. ASSUME NEW r \in OrderRecords, Sound(r) PROVE Sound(NormalizeRecord(r))
  <2> DEFINE u == NormalizeRecord(r)
  <2>1. CASE r.status = "gist_created"
    <3>1. /\ u.status = "awaiting_confirmation" /\ u.reserved = r.reserved /\ u.prepared = r.prepared
          /\ u.provider = "github" /\ u.requested = r.requested /\ u.notified = r.notified
      BY <2>1 DEF NormalizeRecord, OrderRecords
    <3>2. /\ {"awaiting_confirmation", "gist_created"} \subseteq HeldStatuses
          /\ {"awaiting_confirmation", "gist_created"} \subseteq ReadyStatuses
      BY DEF HeldStatuses, Statuses, ReadyStatuses
    <3> HIDE DEF u
    <3>3. Sound(u)
      BY <1>2, <2>1, <3>1, <3>2 DEF Sound, Prepared, Warned
    <3> QED  BY <3>3 DEF u
  <2>2. CASE r.status = "sending"
    <3>1. /\ u.status = "send_failed" /\ u.reserved = r.reserved /\ u.prepared = r.prepared
          /\ u.provider = r.provider /\ u.requested = r.requested /\ u.notified = r.notified
      BY <2>2 DEF NormalizeRecord, OrderRecords
    <3>2. /\ {"send_failed", "sending"} \subseteq HeldStatuses
          /\ {"send_failed", "sending"} \subseteq ReadyStatuses
      BY DEF HeldStatuses, Statuses, ReadyStatuses
    <3> HIDE DEF u
    <3>3. Sound(u)
      BY <1>2, <2>2, <3>1, <3>2 DEF Sound, Prepared, Warned
    <3> QED  BY <3>3 DEF u
  <2> QED  BY <1>2, <2>1, <2>2 DEF NormalizeRecord
<1>3. \A o \in Orders : s.orders[o] \in OrderRecords
  BY DEF Stores
<1>4. AllSound(DefaultStore)
  BY SoundEmpty DEF AllSound, DefaultStore
<1> QED  BY <1>1, <1>2, <1>3, <1>4 DEF AllSound

(* One link has been prepared and the others are left. *)
Continues(s, o, todo, t) ==
  /\ AllSound(t)
  /\ Tail(todo) = SubSeq(t.orders[o].reserved, Len(t.orders[o].prepared) + 1, Len(t.orders[o].reserved))
  /\ t.orders[o].status = s.orders[o].status
  /\ t.orders[o].provider = "short_io"
  /\ t.orders[o].reserved = s.orders[o].reserved
  /\ Warned(s.orders[o]) => Warned(t.orders[o])

(* The next reserved link joins the prepared ones. *)
LEMMA SoundAppend ==
  ASSUME NEW s \in Stores, NEW o \in Orders, NEW todo, AllSound(s), IsInjective(s.orders[o].reserved),
         s.orders[o].provider = "short_io", StatusOf(s, o) \in Unprepared, todo # <<>>,
         todo = SubSeq(s.orders[o].reserved, Len(s.orders[o].prepared) + 1, Len(s.orders[o].reserved))
  PROVE  Continues(s, o, todo, AppendPreparedLink(s, o, Head(todo)))
<1> DEFINE r == s.orders[o]
           n == Len(r.prepared)
           m == Len(r.reserved)
           link == Head(todo)
           u == [r EXCEPT !.prepared = Append(@, link)]
           t == AppendPreparedLink(s, o, Head(todo))
<1>1. r \in OrderRecords /\ Sound(r)
  BY DEF Stores, AllSound
<1>2. /\ r.reserved \in Seq(Links) /\ r.prepared \in Seq(Links \cup {Gist}) /\ n \in Nat /\ m \in Nat
      /\ DOMAIN r.reserved = 1..m
  BY <1>1, RecordFields, LenProperties
<1>3. n =< m /\ r.prepared = SubSeq(r.reserved, 1, n)
  BY <1>1 DEF Sound
<1>4. n \in 0..m
  BY <1>2, <1>3
<1>5. /\ n < m /\ link = r.reserved[n + 1] /\ link \in Links
      /\ Tail(todo) = SubSeq(r.reserved, (n + 1) + 1, m)
      /\ Append(r.prepared, link) = SubSeq(r.reserved, 1, n + 1)
  BY <1>2, <1>3, <1>4, NextOfRest
<1>6. link \notin ToSet(r.prepared)
  <2>1. ToSet(r.prepared) = {r.reserved[i] : i \in 1..n}
    <3>1. ToSet(SubSeq(r.reserved, 1, n)) = {r.reserved[i] : i \in 1..n}
      <4> DEFINE q == r.reserved
      <4>1. q \in Seq(Links) /\ 1 \in 1..Len(q) + 1 /\ n \in 1 - 1..Len(q)
        BY <1>2, <1>4
      <4> HIDE DEF q, n
      <4>2. ToSet(SubSeq(q, 1, n)) = {q[i] : i \in 1..n}
        BY <4>1, Slice
      <4> QED  BY <4>2 DEF q
    <3> QED  BY <1>3, <3>1
  <2>2. \A i \in 1..n : r.reserved[i] # r.reserved[n + 1]
    <3> DEFINE q == r.reserved
    <3>1. DOMAIN q = 1..m /\ n \in Nat /\ m \in Nat /\ n < m
      BY <1>2, <1>5
    <3>2. \A i, j \in DOMAIN q : q[i] = q[j] => i = j
      BY DEF IsInjective
    <3> HIDE DEF q, n, m
    <3>3. \A i \in 1..n : q[i] # q[n + 1]
      BY <3>1, <3>2
    <3> QED  BY <3>3 DEF q
  <2> QED  BY <1>5, <2>1, <2>2
<1>7. t.orders = [s.orders EXCEPT ![o] = u]
  BY <1>6 DEF AppendPreparedLink, Stores
<1>8. Len(Append(r.prepared, link)) = n + 1
  <2>1. link \in Links \cup {Gist}
    BY <1>5
  <2> QED  BY <1>2, <2>1, AppendProperties
<1> DEFINE longer == Append(r.prepared, link)
<1>9. /\ u.status = r.status /\ u.reserved = r.reserved /\ u.prepared = longer
      /\ u.provider = r.provider /\ u.requested = r.requested /\ u.notified = r.notified
  BY <1>1 DEF OrderRecords
<1>10. r.status \in {"reserved", "preparation_failed"} /\ r.provider = "short_io"
  BY DEF StatusOf, Unprepared
<1>11. {"reserved", "preparation_failed"} \subseteq HeldStatuses \ ReadyStatuses
  BY DEF HeldStatuses, Statuses, ReadyStatuses
<1>12. t.orders[o] = u
  BY <1>7 DEF Stores
<1>13. longer = SubSeq(r.reserved, 1, n + 1) /\ Len(longer) = n + 1
  BY <1>5, <1>8
<1> HIDE DEF u, t, n, m, link, r, longer
<1>14. Sound(u)
  <2>1. Len(u.prepared) = n + 1 /\ Len(u.reserved) = m
    BY <1>9, <1>13 DEF m
  <2>2. Len(u.prepared) =< Len(u.reserved)
    BY <1>2, <1>5, <2>1
  <2>3. u.prepared = SubSeq(u.reserved, 1, Len(u.prepared))
    BY <1>9, <1>13, <2>1
  <2>4. u.status \in HeldStatuses \ ReadyStatuses /\ u.status # "gist_created" /\ u.reserved # <<>>
    BY <1>1, <1>9, <1>10, <1>11 DEF Sound
  <2> QED  BY <1>9, <1>10, <2>2, <2>3, <2>4 DEF Sound
<1>15. AllSound(t)
  BY <1>7, <1>14, SoundUpdate
<1>16. Tail(todo) = SubSeq(u.reserved, Len(u.prepared) + 1, Len(u.reserved))
  BY <1>5, <1>9, <1>13 DEF m
<1>17. Warned(r) => Warned(u)
  BY <1>9 DEF Warned
<1> QED
  <2>1. t = AppendPreparedLink(s, o, Head(todo)) /\ r = s.orders[o]
    BY DEF t, r
  <2>2. Continues(s, o, todo, t)
    BY <1>9, <1>10, <1>12, <1>15, <1>16, <1>17, <2>1 DEF Continues
  <2> QED  BY <2>1, <2>2

(* The preparation starts, and stops, with sound records only.             *)
LEMMA PreparationNext == TypeInv /\ StepInv /\ LinksExclusive /\ PreparationInv /\ [Next]_vars => PreparationInv'
<1> SUFFICES ASSUME TypeInv, StepInv, LinksExclusive, PreparationInv, [Next]_vars PROVE PreparationInv'
  OBVIOUS
<1> USE DEF store
<1> DEFINE Quiet == {"idle", "deliver", "confirm", "send", "complete", "fail"}
<1>1. /\ op \in Operations /\ mem \in Stores /\ disk \in Stores
      /\ op.pc # "idle" => op.order \in Orders
      /\ op.amount \in Nat \ {0} /\ op.allOrNothing \in BOOLEAN
      /\ op.provider \in Providers \cup {"unset"} /\ op.todo \in Seq(Links)
  BY DEF TypeInv, TypeOK, Free, At, Operations
<1>2. AllSound(mem) /\ AllSound(disk) /\ Working(op.pc, op.todo, mem.orders[op.order])
  BY DEF PreparationInv, Record
<1>3. ASSUME NEW t, Commit(t), AllSound(t), Working(op'.pc, op'.todo, t.orders[op'.order])
      PROVE  PreparationInv'
  BY <1>3 DEF Commit, PreparationInv, Record
<1>4. ASSUME UNCHANGED store, Working(op'.pc, op'.todo, mem.orders[op'.order])
      PROVE  PreparationInv'
  BY <1>2, <1>4 DEF PreparationInv, Record
<1>5. \A pc \in Quiet : \A todo, r : Working(pc, todo, r)
  BY DEF Working
<1>6. \A pc \in Steps : Goto(pc) => op'.pc = pc /\ op'.todo = op.todo /\ op'.order = op.order
  BY <1>1 DEF Goto, Operations
<1>7. Return => op'.pc \in Quiet
  BY ReturnType
<1>8. ASSUME NEW o \in Orders, CallDeliver(o) \/ CallConfirm(o) PROVE op'.pc \in Quiet
  BY <1>8, CallDeliverType, CallConfirmType
<1>9. ASSUME UNCHANGED <<store, op>> PROVE PreparationInv'
  BY <1>2, <1>9 DEF PreparationInv, Record
<1>10. ASSUME UNCHANGED store, op'.pc \in Quiet PROVE PreparationInv'
  BY <1>4, <1>5, <1>10
<1>11. ASSUME NEW t, Commit(t), AllSound(t), op'.pc \in Quiet PROVE PreparationInv'
  BY <1>3, <1>5, <1>11
<1>12. ASSUME NEW t, Commit(t), t.orders = mem.orders, UNCHANGED op PROVE PreparationInv'
  BY <1>2, <1>3, <1>12 DEF AllSound
<1>13. \A o \in Orders : mem.orders[o] \in OrderRecords /\ Sound(mem.orders[o])
  BY <1>1, <1>2 DEF AllSound, Stores
<1>14. ASSUME NEW o \in Orders, NEW status \in {"cancelled", "sending", "send_failed", "completed"},
              StatusOf(mem, o) \in {"awaiting_confirmation", "sending"}
       PROVE  AllSound(SetStatus(mem, o, status))
  <2>1. /\ {"awaiting_confirmation", "sending"} \subseteq HeldStatuses \cap ReadyStatuses
        /\ status \in HeldStatuses \ {"gist_created"}
    BY DEF HeldStatuses, Statuses, ReadyStatuses
  <2>2. Prepared(mem.orders[o]) /\ Warned(mem.orders[o])
    BY <1>13, <1>14, <2>1 DEF Sound, StatusOf
  <2> QED  BY <1>1, <1>2, <1>14, <2>1, <2>2, SoundStatus
<1>15. Unprepared \subseteq HeldStatuses /\ Unprepared \cap ReadyStatuses = {} /\ "waiting_stock" \notin HeldStatuses
  BY DEF Unprepared, HeldStatuses, Statuses, ReadyStatuses
<1> HIDE DEF Quiet
<1>16. {"idle", "deliver", "confirm", "send", "complete", "fail"} = Quiet
  BY DEF Quiet
<1>17. ASSUME NEW o \in Orders,
             NewOrderEvent(o) \/ TimerFires(o) \/ RetryOrder(o) \/ PressConfirm(o) \/ PressCancel(o)
      PROVE  PreparationInv'
  <2>1. CASE PressCancel(o)
    <3>1. op.pc \in Quiet /\ UNCHANGED op
      BY <1>16, <2>1 DEF PressCancel, Free, At
    <3> QED  BY <1>11, <1>14, <2>1, <3>1 DEF PressCancel
  <2>2. CASE ~PressCancel(o)
    <3>1. UNCHANGED store /\ (UNCHANGED op \/ CallDeliver(o) \/ CallConfirm(o))
      BY <1>17, <2>2 DEF NewOrderEvent, TimerFires, RetryOrder, PressConfirm, HandleNewOrder
    <3> QED  BY <1>8, <1>9, <1>10, <3>1
  <2> QED  BY <2>1, <2>2
<1>18. ASSUME ShowWaitingPage \/ SetMode PROVE PreparationInv'
  BY <1>9, <1>18 DEF ShowWaitingPage, SetMode
<1>19. ASSUME Raise \/ SendMessage PROVE PreparationInv'
  <2>1. UNCHANGED store /\ op'.pc \in Quiet
    BY <1>6, <1>7, <1>16, <1>19 DEF Raise, SendMessage, Steps
  <2> QED  BY <1>10, <2>1
<1>20. ASSUME DeliverSettled PROVE PreparationInv'
  <2>1. op.order \in Orders /\ UNCHANGED store
    BY <1>1, <1>20 DEF DeliverSettled, At
  <2>2. CASE Return
    BY <1>7, <1>10, <2>1, <2>2
  <2>3. CASE Status = "gist_created" /\ Goto("awaiting")
    <3>1. op'.pc = "awaiting" /\ op'.order = op.order
      BY <1>6, <2>3 DEF Steps
    <3>2. "gist_created" \in HeldStatuses \cap ReadyStatuses
      BY DEF HeldStatuses, Statuses, ReadyStatuses
    <3>3. mem.orders[op.order].status = "gist_created"
      BY <2>3 DEF Status, StatusOf
    <3>4. Prepared(mem.orders[op.order]) /\ Warned(mem.orders[op.order])
      BY <1>13, <2>1, <3>2, <3>3 DEF Sound
    <3>5. Working(op'.pc, op'.todo, mem.orders[op'.order])
      BY <3>1, <3>2, <3>3, <3>4 DEF Working
    <3> QED  BY <1>4, <2>1, <3>5
  <2> QED  BY <1>20, <2>2, <2>3 DEF DeliverSettled
<1>21. ASSUME DeliverMisconfigured PROVE PreparationInv'
  <2>1. op.order \in Orders
    BY <1>1, <1>21 DEF DeliverMisconfigured, At
  <2>2. AllSound(RecordError(mem, op.order, op.amount))
    BY <1>1, <1>2, <2>1, SoundError
  <2> QED  BY <1>7, <1>11, <1>21, <2>2 DEF DeliverMisconfigured
<1>22. ASSUME DeliverReserve PROVE PreparationInv'
  <2> DEFINE t == Reserve(mem, op.order, op.amount, op.allOrNothing)
  <2>1. op.order \in Orders
    BY <1>1, <1>22 DEF DeliverReserve, At
  <2>2. AllSound(t)
    BY <1>1, <1>2, <2>1, SoundReserve
  <2>3. /\ Commit(t)
        /\ \/ StatusOf(t, op.order) = "waiting_stock" /\ Goto("shortage")
           \/ StatusOf(t, op.order) \in Unprepared /\ Goto("pin")
           \/ Return
    BY <1>22 DEF DeliverReserve, Unprepared
  <2> HIDE DEF t
  <2>4. CASE Return
    BY <1>7, <1>11, <2>2, <2>3, <2>4
  <2>5. CASE StatusOf(t, op.order) = "waiting_stock" /\ Goto("shortage")
    <3>1. op'.pc = "shortage" /\ op'.order = op.order
      BY <1>6, <2>5 DEF Steps
    <3>2. Working(op'.pc, op'.todo, t.orders[op'.order])
      BY <2>5, <3>1 DEF Working, StatusOf
    <3> QED  BY <1>3, <2>2, <2>3, <3>2
  <2>6. CASE StatusOf(t, op.order) \in Unprepared /\ Goto("pin")
    <3>1. op'.pc = "pin" /\ op'.order = op.order
      BY <1>6, <2>6 DEF Steps
    <3>2. Working(op'.pc, op'.todo, t.orders[op'.order])
      BY <2>6, <3>1 DEF Working, StatusOf
    <3> QED  BY <1>3, <2>2, <2>3, <3>2
  <2> QED  BY <2>3, <2>4, <2>5, <2>6
<1>23. ASSUME PinProvider PROVE PreparationInv'
  <2> DEFINE r == mem.orders[op.order]
             t == SetProvider(mem, op.order, op.provider)
  <2>1. op.order \in Orders /\ r.status \in Unprepared
    BY <1>1, <1>2, <1>23 DEF PinProvider, At, Working
  <2>2. AllSound(t)
    BY <1>1, <1>2, <1>15, <2>1, SoundProvider DEF StatusOf
  <2>3. /\ t.orders[op.order].status = r.status /\ t.orders[op.order].reserved = r.reserved
        /\ t.orders[op.order].requested = r.requested
    <3>1. r \in OrderRecords /\ mem.orders \in [Orders -> OrderRecords]
      BY <1>1, <2>1 DEF Stores
    <3>2. t = mem \/ t.orders[op.order] = [r EXCEPT !.provider = op.provider]
      BY <2>1, <3>1 DEF SetProvider, Stores
    <3> QED  BY <3>1, <3>2 DEF OrderRecords
  <2>4. Commit(t) /\ op'.pc = (IF Shortage(mem, op.order) THEN "shortage" ELSE "prepare") /\ op'.order = op.order
    BY <1>6, <1>23 DEF PinProvider, Steps
  <2>5. ~Shortage(mem, op.order) => Warned(t.orders[op.order])
    BY <2>3 DEF Shortage, Warned
  <2> HIDE DEF t
  <2>6. Working(op'.pc, op'.todo, t.orders[op'.order])
    BY <2>1, <2>3, <2>4, <2>5 DEF Working
  <2> QED  BY <1>3, <2>2, <2>4, <2>6
<1>24. ASSUME NEW r, AfterShortage, op.order \in Orders,
              r.status \in Unprepared \cup {"waiting_stock"}, r.status = Status, r.notified
       PROVE  Working(op'.pc, op'.todo, r) /\ (op'.pc # "idle" => op'.order = op.order)
  <2>1. CASE Return
    BY <1>5, <1>7, <2>1, ReturnType
  <2>2. CASE Status # "waiting_stock" /\ Goto("prepare")
    <3>1. op'.pc = "prepare" /\ op'.order = op.order
      BY <1>6, <2>2 DEF Steps
    <3> QED  BY <1>24, <2>2, <3>1 DEF Working, Warned
  <2> QED  BY <1>24, <2>1, <2>2 DEF AfterShortage
<1>25. ASSUME NotifyShortageOnce PROVE PreparationInv'
  <2> DEFINE r == mem.orders[op.order]
             t == MarkShortageNotified(mem, op.order)
  <2>1. op.order \in Orders /\ r.status \in Unprepared \cup {"waiting_stock"} /\ Status = r.status
    BY <1>1, <1>2, <1>25 DEF NotifyShortageOnce, At, Working, Status, StatusOf
  <2>2. CASE Record.notified
    <3>1. AfterShortage /\ UNCHANGED store /\ r.notified
      BY <1>25, <2>2 DEF NotifyShortageOnce, Record
    <3>2. Working(op'.pc, op'.todo, r) /\ (op'.pc # "idle" => op'.order = op.order)
      BY <1>24, <2>1, <3>1
    <3> QED  BY <1>4, <1>10, <1>16, <3>1, <3>2
  <2>3. CASE ~Record.notified
    <3>1. Goto("warn") /\ Commit(t)
      BY <1>25, <2>3 DEF NotifyShortageOnce
    <3>2. op'.pc = "warn" /\ op'.order = op.order
      BY <1>6, <3>1 DEF Steps
    <3>3. AllSound(t) /\ t.orders[op.order] = [r EXCEPT !.notified = TRUE]
      BY <1>1, <1>2, <2>1, SoundMark
    <3>4. t.orders[op.order].notified /\ t.orders[op.order].status = r.status
      BY <1>13, <2>1, <3>3 DEF OrderRecords
    <3> HIDE DEF t
    <3>5. Working(op'.pc, op'.todo, t.orders[op'.order])
      BY <2>1, <3>2, <3>4 DEF Working
    <3> QED  BY <1>3, <3>1, <3>3, <3>5
  <2> QED  BY <2>2, <2>3
<1>26. ASSUME WarnShortage PROVE PreparationInv'
  <2> DEFINE r == mem.orders[op.order]
  <2>1. op.order \in Orders /\ r.status \in Unprepared \cup {"waiting_stock"} /\ r.notified /\ Status = r.status
    BY <1>1, <1>2, <1>26 DEF WarnShortage, At, Working, Status, StatusOf
  <2>2. AfterShortage /\ UNCHANGED store
    BY <1>26 DEF WarnShortage
  <2>3. Working(op'.pc, op'.todo, r) /\ (op'.pc # "idle" => op'.order = op.order)
    BY <1>24, <2>1, <2>2
  <2>4. CASE op'.pc = "idle"
    BY <1>10, <1>16, <2>2, <2>4
  <2>5. CASE op'.pc # "idle"
    BY <1>4, <2>2, <2>3, <2>5
  <2> QED  BY <2>4, <2>5
<1>27. ASSUME StartPreparation PROVE PreparationInv'
  <2> DEFINE r == mem.orders[op.order]
  <2>1. op.order \in Orders /\ r.status \in Unprepared /\ Warned(r)
    BY <1>1, <1>2, <1>27 DEF StartPreparation, At, Working
  <2>2. Commit(mem)
    BY <1>15, <1>27, <2>1 DEF StartPreparation, Reserve, StatusOf
  <2>3. CASE /\ r.provider = "short_io"
             /\ op' = [op EXCEPT !.pc = "shorten",
                                 !.todo = SubSeq(r.reserved, Len(r.prepared) + 1, Len(r.reserved))]
    <3>1. /\ op'.pc = "shorten" /\ op'.order = op.order
          /\ op'.todo = SubSeq(r.reserved, Len(r.prepared) + 1, Len(r.reserved))
      BY <1>1, <2>3 DEF Operations
    <3>2. Working(op'.pc, op'.todo, mem.orders[op'.order])
      BY <2>1, <2>3, <3>1 DEF Working
    <3> QED  BY <1>2, <1>3, <2>2, <3>2
  <2>4. CASE r.provider = "github" /\ Goto(IF r.prepared = <<>> THEN "gist" ELSE "awaiting")
    <3>1. op'.pc = (IF r.prepared = <<>> THEN "gist" ELSE "awaiting") /\ op'.order = op.order
      BY <1>6, <2>4 DEF Steps
    <3>2. r.prepared # <<>> => Prepared(r)
      BY <1>13, <2>1, <2>4 DEF Sound, Prepared
    <3>3. Working(op'.pc, op'.todo, mem.orders[op'.order])
      BY <1>15, <2>1, <3>1, <3>2 DEF Working
    <3> QED  BY <1>2, <1>3, <2>2, <3>3
  <2> QED  BY <1>27, <2>3, <2>4 DEF StartPreparation, Record
<1>28. ASSUME CreateGist PROVE PreparationInv'
  <2> DEFINE r == mem.orders[op.order]
             t == MarkGistCreated(mem, op.order)
  <2>1. op.order \in Orders /\ r.status \in Unprepared /\ Warned(r)
    BY <1>1, <1>2, <1>28 DEF CreateGist, At, Working
  <2>2. CASE Commit(t) /\ Goto("awaiting")
    <3>1. AllSound(t) /\ t.orders[op.order] = [r EXCEPT !.status = "gist_created", !.provider = "github", !.prepared = <<Gist>>]
      BY <1>1, <1>2, <1>15, <2>1, SoundGist DEF StatusOf
    <3>2. /\ t.orders[op.order].status = "gist_created" /\ t.orders[op.order].prepared = <<Gist>>
          /\ t.orders[op.order].reserved = r.reserved /\ t.orders[op.order].requested = r.requested
          /\ t.orders[op.order].notified = r.notified
      BY <1>13, <2>1, <3>1 DEF OrderRecords
    <3>3. op'.pc = "awaiting" /\ op'.order = op.order
      BY <1>6, <2>2 DEF Steps
    <3>4. "gist_created" \in HeldStatuses
      BY DEF HeldStatuses, Statuses
    <3> HIDE DEF t
    <3>5. Working(op'.pc, op'.todo, t.orders[op'.order])
      BY <2>1, <3>2, <3>3, <3>4 DEF Working, Prepared, Warned
    <3> QED  BY <1>3, <2>2, <3>1, <3>5
  <2>3. CASE Commit(RestoreReservation(mem, op.order)) /\ Return
    <3>1. AllSound(RestoreReservation(mem, op.order))
      BY <1>1, <1>2, <2>1, SoundRestore
    <3> QED  BY <1>7, <1>11, <2>3, <3>1
  <2> QED  BY <1>28, <2>2, <2>3 DEF CreateGist
<1>29. ASSUME ShortenLink PROVE PreparationInv'
  <2> DEFINE r == mem.orders[op.order]
             t == AppendPreparedLink(mem, op.order, Head(op.todo))
             u == t.orders[op.order]
  <2>1. /\ op.order \in Orders /\ r.status \in Unprepared /\ Warned(r) /\ r.provider = "short_io"
        /\ op.todo = SubSeq(r.reserved, Len(r.prepared) + 1, Len(r.reserved)) /\ op.todo # <<>>
    BY <1>1, <1>2, <1>29 DEF ShortenLink, At, Working
  <2>2. CASE Commit(t) /\ op' = [op EXCEPT !.todo = Tail(@)]
    <3>1. IsInjective(r.reserved)
      BY <2>1 DEF LinksExclusive, ExclusiveIn, StatusOf, Unprepared
    <3>2. /\ AllSound(t) /\ Tail(op.todo) = SubSeq(u.reserved, Len(u.prepared) + 1, Len(u.reserved))
          /\ u.status = r.status /\ u.provider = "short_io" /\ u.reserved = r.reserved /\ Warned(u)
      <4>1. /\ AllSound(mem) /\ IsInjective(mem.orders[op.order].reserved) /\ op.todo # <<>>
            /\ mem.orders[op.order].provider = "short_io" /\ StatusOf(mem, op.order) \in Unprepared
            /\ op.todo = SubSeq(mem.orders[op.order].reserved, Len(mem.orders[op.order].prepared) + 1,
                                Len(mem.orders[op.order].reserved))
        BY <1>2, <2>1, <3>1 DEF StatusOf
      <4>2. Continues(mem, op.order, op.todo, t)
        BY <1>1, <2>1, <4>1, SoundAppend
      <4> QED  BY <2>1, <4>2 DEF Continues
    <3>3. op'.pc = "shorten" /\ op'.order = op.order /\ op'.todo = Tail(op.todo)
      BY <1>1, <1>29, <2>2 DEF Operations, ShortenLink, At
    <3>4. t.orders[op'.order] = u
      BY <3>3
    <3> HIDE DEF t, u
    <3>5. Working(op'.pc, op'.todo, u)
      BY <2>1, <3>2, <3>3 DEF Working
    <3>6. Working(op'.pc, op'.todo, t.orders[op'.order])
      BY <3>4, <3>5
    <3> QED  BY <1>3, <2>2, <3>2, <3>6
  <2>3. CASE Commit(SetStatus(mem, op.order, "preparation_failed")) /\ Return
    <3>1. "preparation_failed" \in HeldStatuses \ ReadyStatuses
      BY DEF HeldStatuses, Statuses, ReadyStatuses
    <3>2. AllSound(SetStatus(mem, op.order, "preparation_failed"))
      BY <1>1, <1>2, <1>15, <2>1, <3>1, SoundStatus DEF StatusOf
    <3> QED  BY <1>7, <1>11, <2>3, <3>2
  <2> QED  BY <1>29, <2>2, <2>3 DEF ShortenLink
<1>30. ASSUME ShortenDone PROVE PreparationInv'
  <2> DEFINE r == mem.orders[op.order]
  <2>1. /\ op.order \in Orders /\ r.status \in Unprepared /\ Warned(r) /\ r.provider = "short_io"
        /\ SubSeq(r.reserved, Len(r.prepared) + 1, Len(r.reserved)) = <<>>
    BY <1>1, <1>2, <1>30 DEF ShortenDone, At, Working
  <2>2. /\ r.reserved \in Seq(Links) /\ Len(r.prepared) \in 0..Len(r.reserved)
        /\ r.prepared = SubSeq(r.reserved, 1, Len(r.prepared))
    BY <1>13, <2>1, RecordFields DEF Sound
  <2>3. r.prepared = r.reserved
    BY <2>1, <2>2, NothingOfRest
  <2>4. op'.pc = "awaiting" /\ op'.order = op.order /\ UNCHANGED store
    BY <1>6, <1>30 DEF ShortenDone, Steps
  <2>5. Working(op'.pc, op'.todo, mem.orders[op'.order])
    BY <1>15, <2>1, <2>3, <2>4 DEF Working, Prepared
  <2> QED  BY <1>4, <2>4, <2>5
<1>31. ASSUME RequestConfirmation PROVE PreparationInv'
  <2> DEFINE r == mem.orders[op.order]
  <2>1. op.order \in Orders /\ r.status \in HeldStatuses /\ Warned(r) /\ Prepared(r)
    BY <1>1, <1>2, <1>31 DEF RequestConfirmation, At, Working, Record
  <2>2. "awaiting_confirmation" \in HeldStatuses \ {"gist_created"}
    BY DEF HeldStatuses, Statuses
  <2>3. AllSound(SetStatus(mem, op.order, "awaiting_confirmation"))
    BY <1>1, <1>2, <2>1, <2>2, SoundStatus DEF StatusOf
  <2>4. op'.pc \in Quiet
    BY <1>7, <1>8, <1>31, <2>1 DEF RequestConfirmation
  <2> QED  BY <1>11, <1>31, <2>3, <2>4 DEF RequestConfirmation
<1>32. ASSUME BeginSend PROVE PreparationInv'
  <2>1. op.order \in Orders
    BY <1>1, <1>32 DEF BeginSend, At
  <2>2. op'.pc \in Quiet
    BY <1>6, <1>7, <1>16, <1>32 DEF BeginSend, Steps
  <2>3. Status = "awaiting_confirmation" => AllSound(SetStatus(mem, op.order, "sending"))
    BY <1>14, <2>1 DEF Status
  <2> QED  BY <1>10, <1>11, <1>32, <2>2, <2>3 DEF BeginSend
<1>33. ASSUME MarkCompleted \/ MarkSendFailed PROVE PreparationInv'
  <2>1. op.order \in Orders /\ StatusOf(mem, op.order) = "sending"
    BY <1>1, <1>33 DEF MarkCompleted, MarkSendFailed, At, StepInv, Position, Status
  <2>2. AllSound(SetStatus(mem, op.order, "completed")) /\ AllSound(SetStatus(mem, op.order, "send_failed"))
    BY <1>14, <2>1
  <2>3. CASE MarkSendFailed
    BY <1>7, <1>11, <2>2, <2>3 DEF MarkSendFailed
  <2>4. CASE MarkCompleted
    <3> DEFINE t == SetStatus(mem, op.order, "completed")
    <3>1. PICK S \in Trimmed(t) : Commit(Forget(t, S))
      BY <2>4 DEF MarkCompleted
    <3>2. S \in SUBSET Orders /\ t \in Stores
      BY <1>1, <2>1, SetStatusType DEF Trimmed, CompletedOrders, Statuses
    <3> HIDE DEF t
    <3>3. AllSound(Forget(t, S))
      BY <2>2, <3>2, SoundForget DEF t
    <3> QED  BY <1>7, <1>11, <2>4, <3>1, <3>3 DEF MarkCompleted
  <2> QED  BY <1>33, <2>3, <2>4
<1>34. ASSUME UploadLinks PROVE PreparationInv'
  <2>1. \A links \in SUBSET Links : \A batch \in NewLinks(mem, links) : AddLinks(mem, batch).orders = mem.orders
    BY <1>1, NewLinksType, AddLinksType
  <2> QED  BY <1>12, <1>34, <2>1 DEF UploadLinks
<1>35. ASSUME DeleteLink \/ ClearLinks PROVE PreparationInv'
  BY <1>1, <1>12, <1>35, RemoveStockLinkType, ClearStockType DEF DeleteLink, ClearLinks
<1>36. ASSUME Restart PROVE PreparationInv'
  <2>1. AllSound(mem') /\ AllSound(disk')
    BY <1>1, <1>2, <1>36, SoundLoad DEF Restart
  <2>2. Working(op'.pc, op'.todo, mem'.orders[op'.order])
    BY <1>5, <1>7, <1>36 DEF Restart
  <2> QED  BY <2>1, <2>2 DEF PreparationInv, Record
<1>37. CASE UNCHANGED vars
  BY <1>9, <1>37 DEF vars
<1> QED
  BY <1>17, <1>18, <1>19, <1>20, <1>21, <1>22, <1>23, <1>25, <1>26, <1>27, <1>28, <1>29, <1>30, <1>31, <1>32,
     <1>33, <1>34, <1>35, <1>36, <1>37 DEF Next, HandlerStep

(* Every record is sound, and the preparation knows what it has left to do. *)
THEOREM PreparationInvariance == Spec => []PreparationInv
<1>1. Init => PreparationInv
  <2> SUFFICES ASSUME Init PROVE PreparationInv
    OBVIOUS
  <2>1. AllSound(DefaultStore)
    BY SoundEmpty DEF AllSound, DefaultStore
  <2>2. op.pc = "idle"
    BY DEF Init, Idle
  <2>3. Working(op.pc, op.todo, Record)
    BY <2>2 DEF Working
  <2> QED  BY <2>1, <2>3 DEF Init, PreparationInv
<1> QED  BY <1>1, PreparationNext, TypeInvariance, StepInvariance, LinksStayExclusive, PTL DEF Spec

(* An order that is ready to be sent, or past it, has links, and every one  *)
(* of them is prepared.                                                     *)
THEOREM NothingUnprepared == Spec => []NothingLeftUnprepared
<1>1. PreparationInv => NothingLeftUnprepared
  <2>1. ReadyStatuses \subseteq HeldStatuses
    BY DEF ReadyStatuses, HeldStatuses, Statuses
  <2> QED  BY <2>1 DEF PreparationInv, AllSound, Sound, NothingLeftUnprepared, StatusOf
<1> QED  BY <1>1, PreparationInvariance, PTL

-----------------------------------------------------------------------------
(* Layer 8: the warning of a shortage, which is given where its mark has    *)
(* just been written.                                                       *)

(* The mark of the warning is in the file. *)
Recorded(s, o) == s.orders[o].notified /\ StatusOf(s, o) # "absent"

(* The message of the order may have left. *)
Dispatched(s, o) == StatusOf(s, o) \in {"sending", "send_failed"}

(* The warning is between its mark and its messages. *)
Underway(o) == op.pc = "warn" /\ op.order = o

(* An order that was warned of, or whose warning was lost, has its mark.   *)
WarnedInv ==
  /\ \A o \in Orders \ forgotten :
       /\ warnings[o] <= (IF o \in missed THEN 0 ELSE 1)
       /\ warnings[o] > 0 \/ o \in missed => Recorded(disk, o)
  /\ op.pc = "warn" /\ op.order \notin forgotten => warnings[op.order] = 0 /\ op.order \notin missed

(* And a mark has its warning, unless that is lost or still underway.      *)
MarkedInv ==
  \A o \in Orders : disk.orders[o].notified => warnings[o] > 0 \/ o \in missed \/ Underway(o)

WarningInv == WarnedInv /\ MarkedInv

-----------------------------------------------------------------------------
(* Memory and file agree on what was warned of and on where the links are. *)
LEMMA AgreedRecord ==
  ASSUME TypeInv, Agreement, writable, NEW o \in Orders
  PROVE  /\ Recorded(mem, o) <=> Recorded(disk, o)
         /\ mem.orders[o].notified = disk.orders[o].notified
         /\ mem.stock = disk.stock
         /\ LinksOf(mem, o) = LinksOf(disk, o)
         /\ Dispatched(mem, o) <=> Dispatched(disk, o)
<1>1. disk \in Stores /\ disk.orders[o] \in OrderRecords
  BY DEF TypeInv, TypeOK, Stores
<1>2. CASE mem = disk
  BY <1>2
<1>3. CASE mem = NormalizeState(disk)
  <2>1. mem.stock = disk.stock /\ mem.orders[o] = NormalizeRecord(disk.orders[o])
    BY <1>1, <1>3, NormalizeStateType
  <2>2. /\ mem.orders[o].reserved = disk.orders[o].reserved
        /\ StatusOf(mem, o) =
             CASE StatusOf(disk, o) = "gist_created" -> "awaiting_confirmation"
               [] StatusOf(disk, o) = "sending"      -> "send_failed"
               [] OTHER                              -> StatusOf(disk, o)
    BY <1>1, <2>1, NormalizeRecordType DEF StatusOf
  <2>3. mem.orders[o].notified = disk.orders[o].notified
    BY <1>1, <2>1 DEF NormalizeRecord, OrderRecords
  <2> QED  BY <2>1, <2>2, <2>3 DEF Recorded, Dispatched, LinksOf
<1> QED  BY <1>2, <1>3 DEF Agreement

(* No operation of the storage but the trimming loses the mark. *)
LEMMA RecordedKept ==
  ASSUME NEW s \in Stores, NEW o \in Orders, NEW p \in Orders, Recorded(s, p)
  PROVE  /\ \A status \in Statuses : Recorded(SetStatus(s, o, status), p)
         /\ \A provider \in Providers \cup {"unset"} :
              Recorded(SetProvider(s, o, provider), p)
         /\ Recorded(RestoreReservation(s, o), p)
         /\ Recorded(MarkGistCreated(s, o), p)
         /\ \A link \in Links : Recorded(AppendPreparedLink(s, o, link), p)
         /\ StatusOf(s, o) # "absent" => Recorded(MarkShortageNotified(s, o), p)
         /\ \A amount \in Nat \ {0} : Recorded(RecordError(s, o, amount), p)
<1> DEFINE r == s.orders[o]
<1>1. r \in OrderRecords /\ s.orders \in [Orders -> OrderRecords]
  BY DEF Stores
<1>2. ASSUME NEW status \in Statuses PROVE Recorded(SetStatus(s, o, status), p)
  <2> DEFINE t == SetStatus(s, o, status)
  <2>1. t.orders = [s.orders EXCEPT ![o].status = status]
    BY SetStatusType
  <2>2. "absent" \notin Statuses
    BY DEF Statuses
  <2> HIDE DEF t
  <2>3. t.orders[p] = IF p = o THEN [r EXCEPT !.status = status] ELSE s.orders[p]
    BY <1>1, <2>1
  <2>4. Recorded(t, p)
    BY <1>1, <2>2, <2>3 DEF Recorded, StatusOf, OrderRecords
  <2> QED  BY <2>4 DEF t
<1>3. ASSUME NEW provider \in Providers \cup {"unset"}
      PROVE  Recorded(SetProvider(s, o, provider), p)
  <2> DEFINE t == SetProvider(s, o, provider)
  <2>1. t = s \/ t.orders = [s.orders EXCEPT ![o].provider = provider]
    BY SetProviderType
  <2> HIDE DEF t
  <2>2. t = s \/ t.orders[p] = IF p = o THEN [r EXCEPT !.provider = provider] ELSE s.orders[p]
    BY <1>1, <2>1
  <2>3. Recorded(t, p)
    BY <1>1, <2>2 DEF Recorded, StatusOf, OrderRecords
  <2> QED  BY <2>3 DEF t
<1>4. Recorded(RestoreReservation(s, o), p)
  <2>1. RestoreReservation(s, o).orders[p] =
          IF p = o THEN [r EXCEPT !.reserved = <<>>, !.provider = "unset", !.prepared = <<>>, !.status = "retryable"]
                   ELSE s.orders[p]
    BY <1>1 DEF RestoreReservation
  <2> QED  BY <1>1, <2>1 DEF Recorded, StatusOf, OrderRecords
<1>5. Recorded(MarkGistCreated(s, o), p)
  <2> DEFINE t == MarkGistCreated(s, o)
             u == [r EXCEPT !.status = "gist_created", !.provider = "github", !.prepared = <<Gist>>]
  <2>1. t.orders = [s.orders EXCEPT ![o] = u]
    BY MarkGistCreatedType
  <2> HIDE DEF t
  <2>2. u.status = "gist_created" /\ u.notified = r.notified
    BY <1>1 DEF OrderRecords
  <2> HIDE DEF u
  <2>3. t.orders[p] = IF p = o THEN u ELSE s.orders[p]
    BY <1>1, <2>1
  <2>4. Recorded(t, p)
    BY <2>2, <2>3 DEF Recorded, StatusOf
  <2> QED  BY <2>4 DEF t
<1>6. ASSUME NEW link \in Links PROVE Recorded(AppendPreparedLink(s, o, link), p)
  <2> DEFINE longer == Append(r.prepared, link)
             t      == AppendPreparedLink(s, o, link)
  <2>1. t = s \/ t.orders = [s.orders EXCEPT ![o].prepared = longer]
    BY AppendPreparedLinkType
  <2> HIDE DEF longer, t
  <2> DEFINE u == [r EXCEPT !.prepared = longer]
  <2>2. t = s \/ t.orders[p] = IF p = o THEN u ELSE s.orders[p]
    BY <1>1, <2>1
  <2>3. u.status = r.status /\ u.notified = r.notified
    BY <1>1 DEF OrderRecords
  <2> HIDE DEF u
  <2>4. Recorded(t, p)
    BY <2>2, <2>3 DEF Recorded, StatusOf
  <2> QED  BY <2>4 DEF t
<1>7. ASSUME StatusOf(s, o) # "absent" PROVE Recorded(MarkShortageNotified(s, o), p)
  <2>1. MarkShortageNotified(s, o).orders[p] = IF p = o THEN [r EXCEPT !.notified = TRUE] ELSE s.orders[p]
    BY <1>1, MarkShortageNotifiedType
  <2> QED  BY <1>1, <2>1 DEF Recorded, StatusOf, OrderRecords
<1>8. ASSUME NEW amount \in Nat \ {0} PROVE Recorded(RecordError(s, o, amount), p)
  <2> DEFINE t == RecordError(s, o, amount)
  <2>1. t.orders[p] = s.orders[p] \/ StatusOf(s, p) = "absent"
    BY RecordErrorEffect
  <2> HIDE DEF t
  <2>2. Recorded(t, p)
    BY <2>1 DEF Recorded, StatusOf
  <2> QED  BY <2>2 DEF t
<1> QED  BY <1>2, <1>3, <1>4, <1>5, <1>6, <1>7, <1>8

(* Nor does reserve. *)
LEMMA RecordedReserve ==
  ASSUME NEW s \in Stores, NEW o \in Orders, NEW p \in Orders, Recorded(s, p),
         NEW amount \in Nat \ {0}, NEW allOrNothing \in BOOLEAN
  PROVE  Recorded(Reserve(s, o, amount, allOrNothing), p)
<1> DEFINE order == IF StatusOf(s, o) = "absent" THEN NewRecord(amount) ELSE s.orders[o]
           take  == ToTake(Len(s.stock), order.requested, allOrNothing)
           part  == SubSeq(s.stock, 1, take)
           u     == [order EXCEPT !.reserved = part,
                                  !.status   = IF take > 0 THEN "reserved" ELSE "waiting_stock"]
           t     == Reserve(s, o, amount, allOrNothing)
<1>1. CASE StatusOf(s, o) \in HeldStatuses
  BY <1>1 DEF Reserve
<1>2. CASE StatusOf(s, o) \notin HeldStatuses
  <2>1. order \in OrderRecords /\ s.orders \in [Orders -> OrderRecords]
    BY NewRecordType DEF Stores
  <2>2. t.orders = [s.orders EXCEPT ![o] = u]
    BY <1>2 DEF Reserve
  <2>3. p = o => order = s.orders[p]
    BY DEF Recorded
  <2> HIDE DEF order, take, part, t
  <2>4. u.status # "absent" /\ u.notified = order.notified
    BY <2>1 DEF OrderRecords
  <2> HIDE DEF u
  <2>5. t.orders[p] = IF p = o THEN u ELSE s.orders[p]
    BY <2>1, <2>2
  <2>6. Recorded(t, p)
    BY <2>3, <2>4, <2>5 DEF Recorded, StatusOf
  <2> QED  BY <2>6 DEF t
<1> QED  BY <1>1, <1>2

(* A mark is lost by a trimming only. *)
LEMMA RecordedNext ==
  ASSUME TypeInv, StepInv, PreparationInv, [Next]_vars, NEW o \in Orders, Recorded(disk, o), o \notin forgotten'
  PROVE  Recorded(disk', o)
<1> USE DEF store
<1>1. /\ op \in Operations /\ mem \in Stores /\ disk \in Stores
      /\ op.pc # "idle" => op.order \in Orders
      /\ op.amount \in Nat \ {0} /\ op.allOrNothing \in BOOLEAN
      /\ op.provider \in Providers \cup {"unset"} /\ op.todo \in Seq(Links)
  BY DEF TypeInv, TypeOK, Free, At, Operations
<1>2. ASSUME NEW t, Commit(t), Recorded(mem, o) => Recorded(t, o) PROVE Recorded(disk', o)
  BY <1>2, AgreedRecord DEF Commit, StepInv
<1>3. ASSUME NEW t, Commit(t), t.orders = mem.orders PROVE Recorded(disk', o)
  <2>1. Recorded(mem, o) => Recorded(t, o)
    BY <1>3 DEF Recorded, StatusOf
  <2> QED  BY <1>2, <1>3, <2>1
<1>4. {"cancelled", "preparation_failed", "awaiting_confirmation", "sending", "completed", "send_failed"} \subseteq Statuses
  BY DEF Statuses
<1>5. ASSUME NEW p \in Orders, NEW status \in Statuses, Commit(SetStatus(mem, p, status)) PROVE Recorded(disk', o)
  <2>1. Recorded(mem, o) => Recorded(SetStatus(mem, p, status), o)
    BY <1>1, RecordedKept
  <2> QED  BY <1>2, <1>5, <2>1
<1>6. ASSUME UNCHANGED disk PROVE Recorded(disk', o)
  BY <1>6
<1>7. ASSUME NEW p \in Orders,
             NewOrderEvent(p) \/ TimerFires(p) \/ RetryOrder(p) \/ PressConfirm(p) \/ PressCancel(p)
      PROVE  Recorded(disk', o)
  <2>1. CASE PressCancel(p)
    BY <1>4, <1>5, <2>1 DEF PressCancel
  <2> QED
    BY <1>6, <1>7, <2>1 DEF NewOrderEvent, TimerFires, RetryOrder, PressConfirm
<1>8. ASSUME \/ DeliverSettled \/ WarnShortage \/ ShortenDone \/ SendMessage \/ Raise
             \/ ShowWaitingPage \/ SetMode \/ Restart
      PROVE  Recorded(disk', o)
  BY <1>6, <1>8 DEF DeliverSettled, WarnShortage, ShortenDone, SendMessage, Raise, ShowWaitingPage, SetMode, Restart
<1>9. ASSUME DeliverMisconfigured PROVE Recorded(disk', o)
  <2>1. op.order \in Orders
    BY <1>1, <1>9 DEF DeliverMisconfigured, At
  <2>2. Recorded(mem, o) => Recorded(RecordError(mem, op.order, op.amount), o)
    BY <1>1, <2>1, RecordedKept
  <2> QED  BY <1>2, <1>9, <2>2 DEF DeliverMisconfigured
<1>10. ASSUME DeliverReserve \/ StartPreparation PROVE Recorded(disk', o)
  <2>1. op.order \in Orders
    BY <1>1, <1>10 DEF DeliverReserve, StartPreparation, At
  <2>2. Recorded(mem, o) => Recorded(Reserve(mem, op.order, op.amount, op.allOrNothing), o)
    BY <1>1, <2>1, RecordedReserve
  <2> QED  BY <1>2, <1>10, <2>2 DEF DeliverReserve, StartPreparation
<1>11. ASSUME PinProvider \/ NotifyShortageOnce PROVE Recorded(disk', o)
  <2>1. op.order \in Orders
    BY <1>1, <1>11 DEF PinProvider, NotifyShortageOnce, At
  <2>2. StatusOf(mem, op.order) # "absent"
    BY <1>11 DEF PinProvider, NotifyShortageOnce, At, PreparationInv, Working, Record, StatusOf, Unprepared
  <2>3. Recorded(mem, o) => Recorded(SetProvider(mem, op.order, op.provider), o)
    BY <1>1, <2>1, RecordedKept
  <2>4. Recorded(mem, o) => Recorded(MarkShortageNotified(mem, op.order), o)
    BY <1>1, <2>1, <2>2, RecordedKept
  <2> QED  BY <1>2, <1>6, <1>11, <2>3, <2>4 DEF PinProvider, NotifyShortageOnce
<1>12. ASSUME CreateGist PROVE Recorded(disk', o)
  <2>1. op.order \in Orders
    BY <1>1, <1>12 DEF CreateGist, At
  <2>2. Recorded(mem, o) => Recorded(MarkGistCreated(mem, op.order), o) /\ Recorded(RestoreReservation(mem, op.order), o)
    BY <1>1, <2>1, RecordedKept
  <2> QED  BY <1>2, <1>12, <2>2 DEF CreateGist
<1>13. ASSUME ShortenLink PROVE Recorded(disk', o)
  <2>1. op.order \in Orders /\ Head(op.todo) \in Links
    BY <1>1, <1>13, HeadTailProperties DEF ShortenLink, At
  <2>2. Recorded(mem, o) => Recorded(AppendPreparedLink(mem, op.order, Head(op.todo)), o)
    BY <1>1, <2>1, RecordedKept
  <2> QED  BY <1>2, <1>4, <1>5, <1>13, <2>1, <2>2 DEF ShortenLink
<1>14. ASSUME RequestConfirmation \/ BeginSend \/ MarkSendFailed PROVE Recorded(disk', o)
  <2>1. op.order \in Orders
    BY <1>1, <1>14 DEF RequestConfirmation, BeginSend, MarkSendFailed, At
  <2> QED
    BY <1>4, <1>5, <1>6, <1>14, <2>1 DEF RequestConfirmation, BeginSend, MarkSendFailed
<1>15. ASSUME MarkCompleted PROVE Recorded(disk', o)
  <2> DEFINE t == SetStatus(mem, op.order, "completed")
  <2>1. op.order \in Orders
    BY <1>1, <1>15 DEF MarkCompleted, At
  <2>2. PICK S \in Trimmed(t) : Commit(Forget(t, S)) /\ forgotten' = forgotten \cup S
    BY <1>15 DEF MarkCompleted
  <2>3. S \in SUBSET Orders /\ t \in Stores /\ (Recorded(mem, o) => Recorded(t, o))
    BY <1>1, <1>4, <2>1, SetStatusType, RecordedKept DEF Trimmed, CompletedOrders
  <2> HIDE DEF t
  <2>4. Forget(t, S).orders[o] = t.orders[o]
    BY <2>2, <2>3, ForgetType
  <2>5. Recorded(mem, o) => Recorded(Forget(t, S), o)
    BY <2>3, <2>4 DEF Recorded, StatusOf
  <2> QED  BY <1>2, <2>2, <2>5
<1>16. ASSUME UploadLinks \/ DeleteLink \/ ClearLinks PROVE Recorded(disk', o)
  <2>1. \A links \in SUBSET Links : \A batch \in NewLinks(mem, links) : AddLinks(mem, batch).orders = mem.orders
    BY <1>1, NewLinksType, AddLinksType
  <2> QED
    BY <1>1, <1>3, <1>16, <2>1, RemoveStockLinkType, ClearStockType DEF UploadLinks, DeleteLink, ClearLinks
<1>17. CASE UNCHANGED vars
  BY <1>6, <1>17 DEF vars
<1> QED
  BY <1>7, <1>8, <1>9, <1>10, <1>11, <1>12, <1>13, <1>14, <1>15, <1>16, <1>17 DEF Next, HandlerStep

(* No operation of the storage but the one that makes the mark makes it.   *)
LEMMA NotMarked ==
  ASSUME NEW s \in Stores, NEW o \in Orders, NEW p \in Orders, ~s.orders[p].notified
  PROVE  /\ \A status \in Statuses : ~SetStatus(s, o, status).orders[p].notified
         /\ \A provider \in Providers \cup {"unset"} : ~SetProvider(s, o, provider).orders[p].notified
         /\ ~RestoreReservation(s, o).orders[p].notified
         /\ ~MarkGistCreated(s, o).orders[p].notified
         /\ \A link \in Links : ~AppendPreparedLink(s, o, link).orders[p].notified
         /\ \A amount \in Nat \ {0} : ~RecordError(s, o, amount).orders[p].notified
         /\ p # o => ~MarkShortageNotified(s, o).orders[p].notified
<1> DEFINE r == s.orders[o]
<1>1. r \in OrderRecords /\ s.orders \in [Orders -> OrderRecords]
  BY DEF Stores
<1>2. ASSUME NEW status \in Statuses PROVE ~SetStatus(s, o, status).orders[p].notified
  <2> DEFINE t == SetStatus(s, o, status)
  <2>1. t.orders = [s.orders EXCEPT ![o].status = status]
    BY SetStatusType
  <2> HIDE DEF t
  <2>2. t.orders[p] = IF p = o THEN [r EXCEPT !.status = status] ELSE s.orders[p]
    BY <1>1, <2>1
  <2>3. ~t.orders[p].notified
    BY <1>1, <2>2 DEF OrderRecords
  <2> QED  BY <2>3 DEF t
<1>3. ASSUME NEW provider \in Providers \cup {"unset"}
      PROVE  ~SetProvider(s, o, provider).orders[p].notified
  <2> DEFINE t == SetProvider(s, o, provider)
  <2>1. t = s \/ t.orders = [s.orders EXCEPT ![o].provider = provider]
    BY SetProviderType
  <2> HIDE DEF t
  <2>2. t = s \/ t.orders[p] = IF p = o THEN [r EXCEPT !.provider = provider] ELSE s.orders[p]
    BY <1>1, <2>1
  <2>3. ~t.orders[p].notified
    BY <1>1, <2>2 DEF OrderRecords
  <2> QED  BY <2>3 DEF t
<1>4. ~RestoreReservation(s, o).orders[p].notified
  <2>1. RestoreReservation(s, o).orders[p] =
          IF p = o THEN [r EXCEPT !.reserved = <<>>, !.provider = "unset", !.prepared = <<>>, !.status = "retryable"]
                   ELSE s.orders[p]
    BY <1>1 DEF RestoreReservation
  <2> QED  BY <1>1, <2>1 DEF OrderRecords
<1>5. ~MarkGistCreated(s, o).orders[p].notified
  <2> DEFINE t == MarkGistCreated(s, o)
             u == [r EXCEPT !.status = "gist_created", !.provider = "github", !.prepared = <<Gist>>]
  <2>1. t.orders = [s.orders EXCEPT ![o] = u]
    BY MarkGistCreatedType
  <2>2. u.notified = r.notified
    BY <1>1 DEF OrderRecords
  <2> HIDE DEF t, u
  <2>3. t.orders[p] = IF p = o THEN u ELSE s.orders[p]
    BY <1>1, <2>1
  <2>4. ~t.orders[p].notified
    BY <2>2, <2>3
  <2> QED  BY <2>4 DEF t
<1>6. ASSUME NEW link \in Links PROVE ~AppendPreparedLink(s, o, link).orders[p].notified
  <2> DEFINE longer == Append(r.prepared, link)
             t      == AppendPreparedLink(s, o, link)
             u      == [r EXCEPT !.prepared = longer]
  <2>1. t = s \/ t.orders = [s.orders EXCEPT ![o].prepared = longer]
    BY AppendPreparedLinkType
  <2> HIDE DEF longer, t
  <2>2. t = s \/ t.orders[p] = IF p = o THEN u ELSE s.orders[p]
    BY <1>1, <2>1
  <2>3. u.notified = r.notified
    BY <1>1 DEF OrderRecords
  <2> HIDE DEF u
  <2>4. ~t.orders[p].notified
    BY <2>2, <2>3
  <2> QED  BY <2>4 DEF t
<1>7. ASSUME NEW amount \in Nat \ {0} PROVE ~RecordError(s, o, amount).orders[p].notified
  <2>1. ~NewRecord(amount).notified
    BY DEF NewRecord
  <2>2. RecordError(s, o, amount).orders[p] \in {s.orders[p], NewRecord(amount)}
    BY <1>1 DEF RecordError, Update
  <2> QED  BY <2>1, <2>2
<1>8. ASSUME p # o PROVE ~MarkShortageNotified(s, o).orders[p].notified
  <2>1. MarkShortageNotified(s, o).orders[p] = s.orders[p]
    BY <1>1, <1>8, MarkShortageNotifiedType
  <2> QED  BY <2>1
<1> QED  BY <1>2, <1>3, <1>4, <1>5, <1>6, <1>7, <1>8

(* Nor does reserve. *)
LEMMA NotMarkedReserve ==
  ASSUME NEW s \in Stores, NEW o \in Orders, NEW p \in Orders, ~s.orders[p].notified,
         NEW amount \in Nat \ {0}, NEW allOrNothing \in BOOLEAN
  PROVE  ~Reserve(s, o, amount, allOrNothing).orders[p].notified
<1> DEFINE order == IF StatusOf(s, o) = "absent" THEN NewRecord(amount) ELSE s.orders[o]
           take  == ToTake(Len(s.stock), order.requested, allOrNothing)
           part  == SubSeq(s.stock, 1, take)
           u     == [order EXCEPT !.reserved = part,
                                  !.status   = IF take > 0 THEN "reserved" ELSE "waiting_stock"]
           t     == Reserve(s, o, amount, allOrNothing)
<1>1. CASE StatusOf(s, o) \in HeldStatuses
  BY <1>1 DEF Reserve
<1>2. CASE StatusOf(s, o) \notin HeldStatuses
  <2>1. order \in OrderRecords /\ s.orders \in [Orders -> OrderRecords]
    BY NewRecordType DEF Stores
  <2>2. t.orders = [s.orders EXCEPT ![o] = u]
    BY <1>2 DEF Reserve
  <2>3. p = o => ~order.notified
    BY DEF NewRecord
  <2> HIDE DEF order, take, part, t
  <2>4. u.notified = order.notified
    BY <2>1 DEF OrderRecords
  <2> HIDE DEF u
  <2>5. t.orders[p] = IF p = o THEN u ELSE s.orders[p]
    BY <2>1, <2>2
  <2>6. ~t.orders[p].notified
    BY <2>3, <2>4, <2>5
  <2> QED  BY <2>6 DEF t
<1> QED  BY <1>1, <1>2

(* One step makes a mark, and it leads to where the warning is sent.       *)
LEMMA MarkedNext ==
  ASSUME TypeInv, StepInv, [Next]_vars, NEW o \in Orders, ~disk.orders[o].notified, ~Underway(o)'
  PROVE  ~disk'.orders[o].notified
<1> USE DEF store
<1>1. /\ op \in Operations /\ mem \in Stores /\ disk \in Stores
      /\ op.pc # "idle" => op.order \in Orders
      /\ op.amount \in Nat \ {0} /\ op.allOrNothing \in BOOLEAN
      /\ op.provider \in Providers \cup {"unset"} /\ op.todo \in Seq(Links)
  BY DEF TypeInv, TypeOK, Free, At, Operations
<1> DEFINE Goal == ~disk'.orders[o].notified
<1>2. ASSUME NEW t, Commit(t), ~mem.orders[o].notified => ~t.orders[o].notified PROVE Goal
  BY <1>2, AgreedRecord DEF Commit, StepInv
<1>3. ASSUME NEW t, Commit(t), t.orders = mem.orders PROVE Goal
  BY <1>2, <1>3
<1>4. {"cancelled", "preparation_failed", "awaiting_confirmation", "sending", "completed", "send_failed"} \subseteq Statuses
  BY DEF Statuses
<1>5. ASSUME NEW p \in Orders, NEW status \in Statuses, Commit(SetStatus(mem, p, status)) PROVE Goal
  <2>1. ~mem.orders[o].notified => ~SetStatus(mem, p, status).orders[o].notified
    BY <1>1, NotMarked
  <2> QED  BY <1>2, <1>5, <2>1
<1>6. ASSUME UNCHANGED disk PROVE Goal
  BY <1>6
<1> HIDE DEF Goal
<1>7. ASSUME NEW p \in Orders,
             NewOrderEvent(p) \/ TimerFires(p) \/ RetryOrder(p) \/ PressConfirm(p) \/ PressCancel(p)
      PROVE  Goal
  <2>1. CASE PressCancel(p)
    BY <1>4, <1>5, <2>1 DEF PressCancel
  <2> QED
    BY <1>6, <1>7, <2>1 DEF NewOrderEvent, TimerFires, RetryOrder, PressConfirm
<1>8. ASSUME \/ DeliverSettled \/ WarnShortage \/ ShortenDone \/ SendMessage \/ Raise
             \/ ShowWaitingPage \/ SetMode \/ Restart
      PROVE  Goal
  BY <1>6, <1>8 DEF DeliverSettled, WarnShortage, ShortenDone, SendMessage, Raise, ShowWaitingPage, SetMode, Restart
<1>9. ASSUME DeliverMisconfigured PROVE Goal
  <2>1. op.order \in Orders
    BY <1>1, <1>9 DEF DeliverMisconfigured, At
  <2>2. ~mem.orders[o].notified => ~RecordError(mem, op.order, op.amount).orders[o].notified
    BY <1>1, <2>1, NotMarked
  <2> QED  BY <1>2, <1>9, <2>2 DEF DeliverMisconfigured
<1>10. ASSUME DeliverReserve \/ StartPreparation PROVE Goal
  <2>1. op.order \in Orders
    BY <1>1, <1>10 DEF DeliverReserve, StartPreparation, At
  <2>2. ~mem.orders[o].notified => ~Reserve(mem, op.order, op.amount, op.allOrNothing).orders[o].notified
    BY <1>1, <2>1, NotMarkedReserve
  <2> QED  BY <1>2, <1>10, <2>2 DEF DeliverReserve, StartPreparation
<1>11. ASSUME PinProvider PROVE Goal
  <2>1. op.order \in Orders
    BY <1>1, <1>11 DEF PinProvider, At
  <2>2. ~mem.orders[o].notified => ~SetProvider(mem, op.order, op.provider).orders[o].notified
    BY <1>1, <2>1, NotMarked
  <2> QED  BY <1>2, <1>11, <2>2 DEF PinProvider
<1>12. ASSUME NotifyShortageOnce PROVE Goal
  <2>1. op.order \in Orders
    BY <1>1, <1>12 DEF NotifyShortageOnce, At
  <2>2. CASE Record.notified
    BY <1>6, <1>12, <2>2 DEF NotifyShortageOnce
  <2>3. CASE ~Record.notified
    <3>1. op'.pc = "warn" /\ op'.order = op.order
      BY <1>1, <1>12, <2>3, GotoType DEF NotifyShortageOnce, Goto, Operations
    <3>2. o # op.order
      BY <3>1 DEF Underway
    <3>3. ~mem.orders[o].notified => ~MarkShortageNotified(mem, op.order).orders[o].notified
      BY <1>1, <2>1, <3>2, NotMarked
    <3> QED  BY <1>2, <1>12, <2>3, <3>3 DEF NotifyShortageOnce
  <2> QED  BY <2>2, <2>3
<1>13. ASSUME CreateGist PROVE Goal
  <2>1. op.order \in Orders
    BY <1>1, <1>13 DEF CreateGist, At
  <2>2. ~mem.orders[o].notified =>
          ~MarkGistCreated(mem, op.order).orders[o].notified /\ ~RestoreReservation(mem, op.order).orders[o].notified
    BY <1>1, <2>1, NotMarked
  <2> QED  BY <1>2, <1>13, <2>2 DEF CreateGist
<1>14. ASSUME ShortenLink PROVE Goal
  <2>1. op.order \in Orders /\ Head(op.todo) \in Links
    BY <1>1, <1>14, HeadTailProperties DEF ShortenLink, At
  <2>2. ~mem.orders[o].notified => ~AppendPreparedLink(mem, op.order, Head(op.todo)).orders[o].notified
    BY <1>1, <2>1, NotMarked
  <2> QED  BY <1>2, <1>4, <1>5, <1>14, <2>1, <2>2 DEF ShortenLink
<1>15. ASSUME RequestConfirmation \/ BeginSend \/ MarkSendFailed PROVE Goal
  <2>1. op.order \in Orders
    BY <1>1, <1>15 DEF RequestConfirmation, BeginSend, MarkSendFailed, At
  <2> QED
    BY <1>4, <1>5, <1>6, <1>15, <2>1 DEF RequestConfirmation, BeginSend, MarkSendFailed
<1>16. ASSUME MarkCompleted PROVE Goal
  <2> DEFINE t == SetStatus(mem, op.order, "completed")
  <2>1. op.order \in Orders
    BY <1>1, <1>16 DEF MarkCompleted, At
  <2>2. PICK S \in Trimmed(t) : Commit(Forget(t, S))
    BY <1>16 DEF MarkCompleted
  <2>3. S \in SUBSET Orders /\ t \in Stores /\ (~mem.orders[o].notified => ~t.orders[o].notified)
    BY <1>1, <1>4, <2>1, SetStatusType, NotMarked DEF Trimmed, CompletedOrders
  <2> HIDE DEF t
  <2>4. Forget(t, S).orders[o] \in {NoRecord, t.orders[o]}
    BY <2>3, ForgetType
  <2>5. ~NoRecord.notified
    BY DEF NoRecord, NewRecord
  <2> QED  BY <1>2, <2>2, <2>3, <2>4, <2>5
<1>17. ASSUME UploadLinks \/ DeleteLink \/ ClearLinks PROVE Goal
  <2>1. \A links \in SUBSET Links : \A batch \in NewLinks(mem, links) : AddLinks(mem, batch).orders = mem.orders
    BY <1>1, NewLinksType, AddLinksType
  <2> QED
    BY <1>1, <1>3, <1>17, <2>1, RemoveStockLinkType, ClearStockType DEF UploadLinks, DeleteLink, ClearLinks
<1>18. ASSUME UNCHANGED vars PROVE Goal
  BY <1>6, <1>18 DEF vars
<1>19. Goal
  BY <1>7, <1>8, <1>9, <1>10, <1>11, <1>12, <1>13, <1>14, <1>15, <1>16, <1>17, <1>18 DEF Next, HandlerStep
<1> QED  BY <1>19 DEF Goal

(* Warnings are sent or lost by one step, or lost by a restart, at a        *)
(* position one step leads to, which has just made the mark.                *)
LEMMA WarningSteps ==
  ASSUME TypeInv, [Next]_vars
  PROVE  /\ WarnShortage \/ Restart \/ UNCHANGED <<warnings, missed>>
         /\ \/ op' = op
            \/ op'.pc # "warn"
            \/ op'.order = op.order /\ op.order \in Orders /\ writable /\ ~Record.notified
         /\ op.pc = "warn" => WarnShortage \/ Restart \/ op' = op
         /\ WarnShortage => op'.pc # "warn"
         /\ Restart => op'.pc # "warn"
         /\ forgotten \subseteq forgotten'
<1> USE DEF history
<1>1. op \in Operations
  BY DEF TypeInv, TypeOK
<1>2. Return => op'.pc # "warn"
  BY ReturnType
<1>3. \A pc \in Steps : Goto(pc) => op'.pc = pc /\ op'.order = op.order
  BY <1>1 DEF Goto, Operations
<1>4. \A o \in Orders : CallDeliver(o) \/ CallConfirm(o) => op'.pc # "warn"
  BY CallDeliverType, CallConfirmType
<1>5. ASSUME NEW o \in Orders, NewOrderEvent(o) \/ TimerFires(o) \/ RetryOrder(o) \/ PressConfirm(o) \/ PressCancel(o)
      PROVE  UNCHANGED <<warnings, missed, forgotten>> /\ (op' = op \/ op'.pc # "warn") /\ op.pc # "warn"
  BY <1>4, <1>5 DEF NewOrderEvent, TimerFires, RetryOrder, PressConfirm, PressCancel, HandleNewOrder, Free, At
<1>6. ASSUME ShowWaitingPage \/ UploadLinks \/ DeleteLink \/ ClearLinks \/ SetMode
      PROVE  UNCHANGED <<warnings, missed, forgotten, op>>
  BY <1>6 DEF ShowWaitingPage, UploadLinks, DeleteLink, ClearLinks, SetMode
<1>7. ASSUME Restart PROVE UNCHANGED <<warnings, forgotten>> /\ op'.pc # "warn"
  BY <1>2, <1>7 DEF Restart
<1>8. ASSUME HandlerStep
      PROVE  (WarnShortage \/ UNCHANGED <<warnings, missed>>) /\ forgotten \subseteq forgotten'
  BY <1>8 DEF HandlerStep, DeliverSettled, DeliverMisconfigured, DeliverReserve, PinProvider,
       NotifyShortageOnce, WarnShortage, StartPreparation, CreateGist, ShortenLink, ShortenDone,
       RequestConfirmation, BeginSend, SendMessage, MarkCompleted, MarkSendFailed, Raise
<1>9. ASSUME HandlerStep PROVE NotifyShortageOnce \/ op'.pc # "warn"
  <2>1. CASE StartPreparation
    BY <1>1, <1>3, <2>1 DEF StartPreparation, Operations, Steps
  <2>2. CASE ShortenLink
    BY <1>1, <1>2, <2>2 DEF ShortenLink, At, Operations
  <2>3. CASE RequestConfirmation
    <3>1. op.order \in Orders
      BY <2>3 DEF RequestConfirmation, TypeInv, Free, At
    <3> QED  BY <1>2, <1>4, <2>3, <3>1 DEF RequestConfirmation
  <2>4. CASE DeliverSettled \/ DeliverMisconfigured \/ DeliverReserve \/ PinProvider
    BY <1>2, <1>3, <2>4 DEF DeliverSettled, DeliverMisconfigured, DeliverReserve, PinProvider, Steps
  <2>5. CASE WarnShortage \/ CreateGist \/ ShortenDone
    BY <1>2, <1>3, <2>5 DEF WarnShortage, AfterShortage, CreateGist, ShortenDone, Steps
  <2>6. CASE BeginSend \/ SendMessage \/ MarkCompleted \/ MarkSendFailed \/ Raise
    BY <1>2, <1>3, <2>6 DEF BeginSend, SendMessage, MarkCompleted, MarkSendFailed, Raise, Steps
  <2> QED  BY <1>9, <2>1, <2>2, <2>3, <2>4, <2>5, <2>6 DEF HandlerStep
<1>10. ASSUME NotifyShortageOnce, op'.pc = "warn"
       PROVE  op'.order = op.order /\ op.order \in Orders /\ writable /\ ~Record.notified
  <2>1. op.order \in Orders
    BY <1>10 DEF NotifyShortageOnce, TypeInv, Free, At
  <2>2. CASE Record.notified
    BY <1>2, <1>3, <1>10, <2>2 DEF NotifyShortageOnce, AfterShortage, Steps
  <2>3. CASE ~Record.notified
    BY <1>3, <1>10, <2>1, <2>3 DEF NotifyShortageOnce, Commit, Steps
  <2> QED  BY <2>2, <2>3
<1>11. WarnShortage => op'.pc # "warn"
  BY <1>2, <1>3 DEF WarnShortage, AfterShortage, Steps
<1>12. ASSUME HandlerStep, op.pc = "warn" PROVE WarnShortage
  BY <1>12 DEF HandlerStep, At, DeliverSettled, DeliverMisconfigured, DeliverReserve, PinProvider,
       NotifyShortageOnce, StartPreparation, CreateGist, ShortenLink, ShortenDone,
       RequestConfirmation, BeginSend, SendMessage, MarkCompleted, MarkSendFailed, Raise
<1> QED  BY <1>5, <1>6, <1>7, <1>8, <1>9, <1>10, <1>11, <1>12 DEF Next, vars

(* What a warning, sent or lost, leaves.                                   *)
LEMMA WarningEffect ==
  ASSUME TypeInv, WarnShortage \/ Restart, NEW o \in Orders
  PROVE  /\ UNCHANGED <<disk, forgotten>>
         /\ ~Underway(o) => warnings'[o] = warnings[o] /\ (o \in missed' <=> o \in missed)
         /\ Underway(o) => \/ warnings'[o] = warnings[o] + 1 /\ (o \in missed' <=> o \in missed)
                           \/ warnings'[o] = warnings[o] /\ o \in missed'
<1>1. warnings \in [Orders -> Nat]
  BY DEF TypeInv, TypeOK
<1> QED  BY <1>1 DEF WarnShortage, Restart, Underway, At, store

(* A warning is given where the mark has just been made.                   *)
LEMMA WarnedNext == TypeInv /\ StepInv /\ PreparationInv /\ WarnedInv /\ [Next]_vars => WarnedInv'
<1> SUFFICES ASSUME TypeInv, StepInv, PreparationInv, WarnedInv, [Next]_vars PROVE WarnedInv'
  OBVIOUS
<1>1. warnings \in [Orders -> Nat] /\ (op.pc # "idle" => op.order \in Orders)
  BY DEF TypeInv, TypeOK, Free, At
<1>2. /\ WarnShortage \/ Restart \/ UNCHANGED <<warnings, missed>>
      /\ \/ op' = op
         \/ op'.pc # "warn"
         \/ op'.order = op.order /\ op.order \in Orders /\ writable /\ ~Record.notified
      /\ WarnShortage => op'.pc # "warn"
      /\ Restart => op'.pc # "warn"
      /\ forgotten \subseteq forgotten'
  BY WarningSteps
<1>3. \A o \in Orders : Recorded(disk, o) /\ o \notin forgotten' => Recorded(disk', o)
  BY RecordedNext
<1>4. /\ \A o \in Orders \ forgotten :
           /\ warnings[o] <= (IF o \in missed THEN 0 ELSE 1)
           /\ warnings[o] > 0 \/ o \in missed => Recorded(disk, o)
      /\ op.pc = "warn" /\ op.order \notin forgotten => warnings[op.order] = 0 /\ op.order \notin missed
  BY DEF WarnedInv
<1>5. ASSUME UNCHANGED <<warnings, missed>> PROVE WarnedInv'
  <2>1. \A o \in Orders \ forgotten' :
          /\ warnings'[o] <= (IF o \in missed' THEN 0 ELSE 1)
          /\ warnings'[o] > 0 \/ o \in missed' => Recorded(disk', o)
    BY <1>2, <1>3, <1>4, <1>5
  <2>2. ASSUME op'.pc = "warn", op'.order \notin forgotten'
        PROVE  warnings'[op'.order] = 0 /\ op'.order \notin missed'
    <3>1. CASE op' = op
      BY <1>2, <1>4, <1>5, <2>2, <3>1
    <3>2. CASE op'.order = op.order /\ op.order \in Orders /\ writable /\ ~Record.notified
      <4>1. ~Recorded(disk, op.order)
        BY <3>2, AgreedRecord DEF StepInv, Record, Recorded
      <4>2. warnings[op.order] \in Nat /\ op.order \in Orders \ forgotten
        BY <1>1, <1>2, <2>2, <3>2
      <4>3. warnings[op.order] = 0 /\ op.order \notin missed
        BY <1>4, <4>1, <4>2
      <4> QED  BY <1>5, <3>2, <4>3
    <3> QED  BY <1>2, <2>2, <3>1, <3>2
  <2> QED  BY <2>1, <2>2 DEF WarnedInv
<1>6. ASSUME WarnShortage \/ Restart PROVE WarnedInv'
  <2>1. UNCHANGED <<disk, forgotten>> /\ op'.pc # "warn"
    BY <1>2, <1>6 DEF WarnShortage, Restart, store
  <2>2. ASSUME NEW o \in Orders \ forgotten
        PROVE  /\ warnings'[o] <= (IF o \in missed' THEN 0 ELSE 1)
               /\ warnings'[o] > 0 \/ o \in missed' => Recorded(disk, o)
    <3>1. CASE ~Underway(o)
      BY <1>4, <1>6, <3>1, WarningEffect
    <3>2. CASE Underway(o)
      <4>1. op.pc = "warn" /\ op.order = o /\ writable
        BY <3>2, ReadOnly DEF Underway, StepInv
      <4>2. Recorded(mem, o)
        BY <4>1 DEF PreparationInv, Working, Record, Recorded, StatusOf, Unprepared
      <4>3. Recorded(disk, o)
        BY <4>1, <4>2, AgreedRecord DEF StepInv
      <4>4. warnings[o] = 0 /\ o \notin missed
        BY <1>4, <4>1
      <4> QED  BY <1>6, <3>2, <4>3, <4>4, WarningEffect
    <3> QED  BY <3>1, <3>2
  <2> QED  BY <2>1, <2>2 DEF WarnedInv
<1> QED  BY <1>2, <1>5, <1>6

(* A mark has its warning: the step that makes it leads to the warning, and *)
(* from there the warning is sent or counted as missed.                     *)
LEMMA MarkedInvNext == TypeInv /\ StepInv /\ MarkedInv /\ [Next]_vars => MarkedInv'
<1> SUFFICES ASSUME TypeInv, StepInv, MarkedInv, [Next]_vars, NEW o \in Orders, disk'.orders[o].notified,
                    ~Underway(o)'
             PROVE  warnings'[o] > 0 \/ o \in missed'
  BY DEF MarkedInv
<1>1. warnings[o] \in Nat
  BY DEF TypeInv, TypeOK
<1>2. disk.orders[o].notified
  BY MarkedNext
<1>3. warnings[o] > 0 \/ o \in missed \/ Underway(o)
  BY <1>2 DEF MarkedInv
<1>4. /\ WarnShortage \/ Restart \/ UNCHANGED <<warnings, missed>>
      /\ op.pc = "warn" => WarnShortage \/ Restart \/ op' = op
  BY WarningSteps
<1>5. CASE WarnShortage \/ Restart
  BY <1>1, <1>3, <1>5, WarningEffect
<1>6. CASE UNCHANGED <<warnings, missed>> /\ ~(WarnShortage \/ Restart)
  BY <1>3, <1>4, <1>6 DEF Underway
<1> QED  BY <1>4, <1>5, <1>6

(* An order that is ready to be sent with fewer links than were bought has  *)
(* been warned of once, or the process or both messages failed right after  *)
(* the mark.                                                                *)
THEOREM WarnedOfOnce == Spec => []ShortageWarnedOnce
<1>1. Init => WarningInv
  BY DEF Init, WarningInv, WarnedInv, MarkedInv, Idle, DefaultStore, NoRecord, NewRecord
<1>2. TypeInv /\ StepInv /\ PreparationInv /\ WarningInv => ShortageWarnedOnce
  <2> SUFFICES ASSUME TypeInv, StepInv, PreparationInv, WarningInv, NEW o \in Orders
      PROVE  /\ StatusOf(disk, o) \in ReadyStatuses /\ Shortage(disk, o) => warnings[o] > 0 \/ o \in missed
             /\ o \notin forgotten => warnings[o] <= (IF o \in missed THEN 0 ELSE 1)
    BY DEF ShortageWarnedOnce
  <2>1. o \notin forgotten => warnings[o] <= (IF o \in missed THEN 0 ELSE 1)
    BY DEF WarningInv, WarnedInv
  <2>2. ASSUME StatusOf(disk, o) \in ReadyStatuses, Shortage(disk, o)
        PROVE  warnings[o] > 0 \/ o \in missed
    <3>1. disk.orders[o].notified
      BY <2>2 DEF PreparationInv, AllSound, Sound, Warned, Shortage, StatusOf
    <3>2. ~Underway(o)
      <4> SUFFICES ASSUME op.pc = "warn", op.order = o PROVE FALSE
        BY DEF Underway
      <4>1. writable /\ StatusOf(mem, o) \in Unprepared \cup {"waiting_stock"}
        BY ReadOnly DEF StepInv, PreparationInv, Working, Record, StatusOf
      <4>2. StatusOf(mem, o) = StatusOf(disk, o) \/ StatusOf(mem, o) \in {"awaiting_confirmation", "send_failed"}
        <5>1. disk \in Stores /\ disk.orders[o] \in OrderRecords
          BY DEF TypeInv, TypeOK, Stores
        <5> QED
          BY <4>1, <5>1, NormalizeStateType, NormalizeRecordType DEF StepInv, Agreement, StatusOf
      <4> QED  BY <2>2, <4>1, <4>2 DEF ReadyStatuses, Unprepared
    <3> QED  BY <3>1, <3>2 DEF WarningInv, MarkedInv
  <2> QED  BY <2>1, <2>2
<1>3. TypeInv /\ StepInv /\ PreparationInv /\ WarningInv /\ [Next]_vars => WarningInv'
  BY WarnedNext, MarkedInvNext DEF WarningInv
<1> QED
  BY <1>1, <1>2, <1>3, TypeInvariance, StepInvariance, PreparationInvariance, PTL DEF Spec

-----------------------------------------------------------------------------
(* Layer 9: sold links.                                                     *)

(* Links a buyer has, unless they were uploaded again. *)
Sold(o) == received[o] \ reused

(* A sold link is on sale nowhere: not in the stock, not held for another   *)
(* order, nor for its own one in a status that is delivered again.          *)
Unsold(s) ==
  \A o \in Orders : \A link \in Sold(o) :
    /\ link \notin ToSet(s.stock)
    /\ \A p \in Orders : link \in LinksOf(s, p) => p = o /\ Dispatched(s, p)

SoldInv ==
  /\ NoLinkSoldTwice
  /\ \A o \in Orders : received[o] \subseteq Links
  /\ Unsold(disk)

(* What a write may do to the links: the stock gets back those of an order   *)
(* that was not dispatched, and an order gets its links from the stock.      *)
Passes(s, t) ==
  /\ \A link \in ToSet(t.stock) :
       link \in ToSet(s.stock) \/ \E p \in Orders : link \in LinksOf(s, p) /\ ~Dispatched(s, p)
  /\ \A p \in Orders : \A link \in LinksOf(t, p) :
       \/ link \in ToSet(s.stock)
       \/ link \in LinksOf(s, p) /\ (Dispatched(s, p) => Dispatched(t, p))

(* A write that gives no order a link. *)
LEMMA PassesQuietly ==
  ASSUME NEW s, NEW t, ToSet(t.stock) \subseteq ToSet(s.stock),
         \A p \in Orders : /\ LinksOf(t, p) \subseteq LinksOf(s, p)
                           /\ Dispatched(s, p) => Dispatched(t, p) \/ LinksOf(t, p) = {}
  PROVE  Passes(s, t)
BY DEF Passes

(* The same reservations in other statuses, nothing put back. *)
LEMMA PassesStatus ==
  ASSUME NEW s \in Stores, NEW t, t.stock = s.stock,
         \A p \in Orders : /\ t.orders[p].reserved = s.orders[p].reserved
                           /\ StatusOf(s, p) = "completed" => StatusOf(t, p) = "completed"
                           /\ Dispatched(s, p) => Dispatched(t, p) \/ StatusOf(t, p) = "completed"
  PROVE  Passes(s, t)
<1>1. \A p \in Orders : LinksOf(t, p) \subseteq LinksOf(s, p) /\ (StatusOf(t, p) = "completed" => LinksOf(t, p) = {})
  BY DEF LinksOf
<1> QED  BY <1>1, PassesQuietly

(* The operations on one record that leave the reservations alone. *)
LEMMA PassesPreparation ==
  ASSUME NEW s \in Stores, NEW o \in Orders
  PROVE  /\ \A provider \in Providers \cup {"unset"} : Passes(s, SetProvider(s, o, provider))
         /\ Passes(s, MarkShortageNotified(s, o))
         /\ \A link \in Links : Passes(s, AppendPreparedLink(s, o, link))
         /\ StatusOf(s, o) \in Unprepared => Passes(s, MarkGistCreated(s, o))
         /\ \A status \in Statuses :
              /\ StatusOf(s, o) = "completed" => status = "completed"
              /\ Dispatched(s, o) => status \in {"sending", "send_failed", "completed"}
              => Passes(s, SetStatus(s, o, status))
<1>1. ASSUME NEW provider \in Providers \cup {"unset"} PROVE Passes(s, SetProvider(s, o, provider))
  <2> DEFINE t == SetProvider(s, o, provider)
  <2>1. t.stock = s.stock /\ \A p \in Orders : StatusOf(t, p) = StatusOf(s, p) /\ t.orders[p].reserved = s.orders[p].reserved
    BY SetProviderType, SetProviderEffect
  <2> HIDE DEF t
  <2>2. Passes(s, t)
    BY <2>1, PassesStatus DEF Dispatched
  <2> QED  BY <2>2 DEF t
<1>2. Passes(s, MarkShortageNotified(s, o))
  <2> DEFINE t == MarkShortageNotified(s, o)
  <2>1. t.stock = s.stock /\ \A p \in Orders : StatusOf(t, p) = StatusOf(s, p) /\ t.orders[p].reserved = s.orders[p].reserved
    BY MarkShortageNotifiedType, MarkShortageNotifiedEffect
  <2> HIDE DEF t
  <2>2. Passes(s, t)
    BY <2>1, PassesStatus DEF Dispatched
  <2> QED  BY <2>2 DEF t
<1>3. ASSUME NEW link \in Links PROVE Passes(s, AppendPreparedLink(s, o, link))
  <2> DEFINE t == AppendPreparedLink(s, o, link)
  <2>1. t.stock = s.stock /\ \A p \in Orders : StatusOf(t, p) = StatusOf(s, p) /\ t.orders[p].reserved = s.orders[p].reserved
    BY AppendPreparedLinkType, AppendPreparedLinkEffect
  <2> HIDE DEF t
  <2>2. Passes(s, t)
    BY <2>1, PassesStatus DEF Dispatched
  <2> QED  BY <2>2 DEF t
<1>4. ASSUME StatusOf(s, o) \in Unprepared PROVE Passes(s, MarkGistCreated(s, o))
  <2> DEFINE t == MarkGistCreated(s, o)
  <2>1. /\ t.stock = s.stock
        /\ \A p \in Orders : /\ StatusOf(t, p) = IF p = o THEN "gist_created" ELSE StatusOf(s, p)
                             /\ t.orders[p].reserved = s.orders[p].reserved
    BY MarkGistCreatedType, MarkGistCreatedEffect
  <2> HIDE DEF t
  <2>2. Passes(s, t)
    BY <1>4, <2>1, PassesStatus DEF Dispatched, Unprepared
  <2> QED  BY <2>2 DEF t
<1>5. ASSUME NEW status \in Statuses,
             StatusOf(s, o) = "completed" => status = "completed",
             Dispatched(s, o) => status \in {"sending", "send_failed", "completed"}
      PROVE  Passes(s, SetStatus(s, o, status))
  <2> DEFINE t == SetStatus(s, o, status)
  <2>1. /\ t.stock = s.stock
        /\ \A p \in Orders : /\ StatusOf(t, p) = IF p = o THEN status ELSE StatusOf(s, p)
                             /\ t.orders[p].reserved = s.orders[p].reserved
    BY SetStatusType, SetStatusEffect
  <2> HIDE DEF t
  <2>2. Passes(s, t)
    BY <1>5, <2>1, PassesStatus DEF Dispatched
  <2> QED  BY <2>2 DEF t
<1> QED  BY <1>1, <1>2, <1>3, <1>4, <1>5

(* The operations that move links between the stock and an order. *)
LEMMA PassesReserve ==
  ASSUME NEW s \in Stores, NEW o \in Orders, NEW amount \in Nat \ {0}, NEW allOrNothing \in BOOLEAN,
         ExclusiveIn(s)
  PROVE  Passes(s, Reserve(s, o, amount, allOrNothing))
<1> DEFINE order == IF StatusOf(s, o) = "absent" THEN NewRecord(amount) ELSE s.orders[o]
           take  == ToTake(Len(s.stock), order.requested, allOrNothing)
           u     == [order EXCEPT !.reserved = SubSeq(s.stock, 1, take),
                                  !.status   = IF take > 0 THEN "reserved" ELSE "waiting_stock"]
           t     == Reserve(s, o, amount, allOrNothing)
<1>1. CASE StatusOf(s, o) \in HeldStatuses
  <2>1. t = s
    BY <1>1 DEF Reserve
  <2> QED  BY <2>1, PassesQuietly
<1>2. CASE StatusOf(s, o) \notin HeldStatuses
  <2>1. order \in OrderRecords /\ s.orders \in [Orders -> OrderRecords]
    BY NewRecordType DEF Stores
  <2>2. s.stock \in Seq(Links) /\ IsInjective(s.stock) /\ Len(s.stock) \in Nat
    BY LenProperties DEF Stores, ExclusiveIn
  <2>3. take \in 0..Len(s.stock)
    BY <2>1, <2>2, ToTakeType DEF OrderRecords
  <2>4. t.stock = SubSeq(s.stock, take + 1, Len(s.stock)) /\ t.orders = [s.orders EXCEPT ![o] = u]
    BY <1>2 DEF Reserve
  <2>5. u.reserved = SubSeq(s.stock, 1, take)
    BY <2>1 DEF OrderRecords
  <2> HIDE DEF order, take, u, t
  <2>6. ToSet(SubSeq(s.stock, 1, take)) \subseteq ToSet(s.stock) /\ ToSet(t.stock) \subseteq ToSet(s.stock)
    BY <2>2, <2>3, <2>4, SplitInjective
  <2>7. t.orders[o] = u /\ \A p \in Orders \ {o} : t.orders[p] = s.orders[p]
    BY <2>1, <2>4
  <2>8. LinksOf(t, o) \subseteq ToSet(s.stock)
    BY <2>5, <2>6, <2>7 DEF LinksOf
  <2>9. \A p \in Orders \ {o} : LinksOf(t, p) = LinksOf(s, p) /\ (Dispatched(s, p) => Dispatched(t, p))
    BY <2>7 DEF LinksOf, Dispatched, StatusOf
  <2>10. Passes(s, t)
    BY <2>6, <2>8, <2>9 DEF Passes
  <2> QED  BY <2>10 DEF t
<1> QED  BY <1>1, <1>2

(* restore_reservation puts the links of an order back. *)
LEMMA PassesRestore ==
  ASSUME NEW s \in Stores, NEW o \in Orders, StatusOf(s, o) \in Unprepared
  PROVE  Passes(s, RestoreReservation(s, o))
<1> DEFINE t == RestoreReservation(s, o)
<1>1. /\ t.stock = s.orders[o].reserved \o s.stock /\ t.orders[o].reserved = <<>>
      /\ \A p \in Orders \ {o} : t.orders[p] = s.orders[p]
  BY RestoreReservationType
<1> HIDE DEF t
<1>2. s.orders[o].reserved \in Seq(Links) /\ s.stock \in Seq(Links)
  BY DEF Stores, OrderRecords
<1>3. ToSet(t.stock) = LinksOf(s, o) \cup ToSet(s.stock) /\ ~Dispatched(s, o)
  BY <1>1, <1>2, JoinInjective DEF LinksOf, Dispatched, Unprepared
<1>4. LinksOf(t, o) = {} /\ \A p \in Orders \ {o} : LinksOf(t, p) = LinksOf(s, p) /\ (Dispatched(s, p) => Dispatched(t, p))
  BY <1>1, EmptyToSet DEF LinksOf, Dispatched, StatusOf
<1>5. Passes(s, t)
  BY <1>3, <1>4 DEF Passes
<1> QED  BY <1>5 DEF t

(* A record made for an error has no links. *)
LEMMA PassesError ==
  ASSUME NEW s \in Stores, NEW o \in Orders, NEW amount \in Nat \ {0}
  PROVE  Passes(s, RecordError(s, o, amount))
<1> DEFINE t == RecordError(s, o, amount)
<1>1. t.stock = s.stock
  BY RecordErrorType
<1>2. t = s \/ (StatusOf(s, o) = "absent" /\ t.orders = [s.orders EXCEPT ![o] = NewRecord(amount)])
  BY RecordErrorType
<1> HIDE DEF t
<1>3. CASE t = s
  BY <1>3, PassesQuietly DEF t
<1>4. CASE StatusOf(s, o) = "absent" /\ t.orders = [s.orders EXCEPT ![o] = NewRecord(amount)]
  <2>1. t.orders[o] = NewRecord(amount) /\ \A p \in Orders \ {o} : t.orders[p] = s.orders[p]
    BY <1>4 DEF Stores
  <2>2. LinksOf(t, o) = {}
    BY <2>1, EmptyToSet DEF LinksOf, NewRecord
  <2>3. \A p \in Orders \ {o} : LinksOf(t, p) = LinksOf(s, p) /\ (Dispatched(s, p) => Dispatched(t, p))
    BY <2>1 DEF LinksOf, Dispatched, StatusOf
  <2>4. Passes(s, t)
    BY <1>1, <2>2, <2>3 DEF Passes
  <2> QED  BY <2>4 DEF t
<1> QED  BY <1>2, <1>3, <1>4

(* A completed order gives up its links, and so does one that is trimmed. *)
LEMMA PassesComplete ==
  ASSUME NEW s \in Stores, NEW o \in Orders, NEW S \in Trimmed(SetStatus(s, o, "completed"))
  PROVE  Passes(s, Forget(SetStatus(s, o, "completed"), S))
<1> DEFINE t == SetStatus(s, o, "completed")
           u == Forget(t, S)
<1>1. "completed" \in Statuses
  BY DEF Statuses
<1>2. /\ t \in Stores /\ t.stock = s.stock
      /\ \A p \in Orders : /\ StatusOf(t, p) = IF p = o THEN "completed" ELSE StatusOf(s, p)
                           /\ t.orders[p].reserved = s.orders[p].reserved
  BY <1>1, SetStatusType, SetStatusEffect
<1>3. S \in SUBSET Orders
  BY DEF Trimmed, CompletedOrders
<1> HIDE DEF t
<1>4. u.stock = t.stock /\ \A p \in Orders : u.orders[p] = IF p \in S THEN NoRecord ELSE t.orders[p]
  BY <1>2, <1>3, ForgetType
<1> HIDE DEF u
<1>5. NoRecord.reserved = <<>>
  BY DEF NoRecord, NewRecord
<1>6. ASSUME NEW p \in Orders
      PROVE  LinksOf(u, p) \subseteq LinksOf(s, p) /\ (Dispatched(s, p) => Dispatched(u, p) \/ LinksOf(u, p) = {})
  <2>1. CASE p \in S \/ p = o
    <3>1. LinksOf(u, p) = {}
      BY <1>2, <1>4, <1>5, <2>1, EmptyToSet DEF LinksOf, StatusOf
    <3> QED  BY <3>1
  <2>2. CASE p \notin S /\ p # o
    BY <1>2, <1>4, <2>2 DEF LinksOf, Dispatched, StatusOf
  <2> QED  BY <2>1, <2>2
<1>7. Passes(s, u)
  BY <1>2, <1>4, <1>6, PassesQuietly
<1> QED  BY <1>7 DEF u, t

(* The stock may lose links. *)
LEMMA PassesStock ==
  ASSUME NEW s, NEW t, t.orders = s.orders, ToSet(t.stock) \subseteq ToSet(s.stock)
  PROVE  Passes(s, t)
<1>1. \A p \in Orders : LinksOf(t, p) = LinksOf(s, p) /\ (Dispatched(s, p) => Dispatched(t, p))
  BY DEF LinksOf, Dispatched, StatusOf
<1> QED  BY <1>1, PassesQuietly

(* A write of this kind sells nothing that has been sold. *)
LEMMA StillUnsold ==
  ASSUME NEW s, NEW t, Unsold(s), Passes(s, t)
  PROVE  Unsold(t)
<1> SUFFICES ASSUME NEW o \in Orders, NEW link \in Sold(o)
    PROVE  /\ link \notin ToSet(t.stock)
           /\ \A p \in Orders : link \in LinksOf(t, p) => p = o /\ Dispatched(t, p)
  BY DEF Unsold
<1>1. link \notin ToSet(s.stock) /\ \A p \in Orders : link \in LinksOf(s, p) => p = o /\ Dispatched(s, p)
  BY DEF Unsold
<1> QED  BY <1>1 DEF Passes

(* What a step writes, unless it uploads links. *)
LEMMA SoldSteps ==
  ASSUME TypeInv, StepInv, LinksExclusive, PreparationInv, [Next]_vars
  PROVE  \/ UploadLinks
         \/ UNCHANGED disk
         \/ \E t : Commit(t) /\ Passes(mem, t)
<1> DEFINE Goal == UploadLinks \/ UNCHANGED disk \/ \E t : Commit(t) /\ Passes(mem, t)
<1> USE DEF store
<1>1. /\ op \in Operations /\ mem \in Stores /\ disk \in Stores
      /\ op.pc # "idle" => op.order \in Orders
      /\ op.amount \in Nat \ {0} /\ op.allOrNothing \in BOOLEAN
      /\ op.provider \in Providers \cup {"unset"} /\ op.todo \in Seq(Links)
      /\ ExclusiveIn(mem)
  BY DEF TypeInv, TypeOK, Free, At, Operations, LinksExclusive
<1>2. ASSUME NEW t, Commit(t), Passes(mem, t) PROVE Goal
  BY <1>2
<1>3. UNCHANGED disk => Goal
  OBVIOUS
<1> HIDE DEF Goal
<1>4. {"cancelled", "preparation_failed", "awaiting_confirmation", "sending", "completed", "send_failed"} \subseteq Statuses
  BY DEF Statuses
<1>5. ASSUME NEW o \in Orders, NEW status \in Statuses, Commit(SetStatus(mem, o, status)),
             \/ StatusOf(mem, o) \notin {"completed", "sending", "send_failed"}
             \/ StatusOf(mem, o) = "sending" /\ status = "send_failed"
      PROVE  Goal
  <2> DEFINE t == SetStatus(mem, o, status)
  <2>1. /\ StatusOf(mem, o) = "completed" => status = "completed"
        /\ Dispatched(mem, o) => status \in {"sending", "send_failed", "completed"}
    BY <1>5 DEF Dispatched
  <2>2. Passes(mem, t)
    BY <1>1, <2>1, PassesPreparation
  <2>3. Commit(t)
    BY <1>5
  <2> HIDE DEF t
  <2> QED  BY <1>2, <2>2, <2>3
<1>6. ASSUME NEW o \in Orders,
             NewOrderEvent(o) \/ TimerFires(o) \/ RetryOrder(o) \/ PressConfirm(o) \/ PressCancel(o)
      PROVE  Goal
  <2>1. CASE PressCancel(o)
    BY <1>4, <1>5, <2>1 DEF PressCancel
  <2> QED
    BY <1>3, <1>6, <2>1 DEF NewOrderEvent, TimerFires, RetryOrder, PressConfirm
<1>7. ASSUME \/ DeliverSettled \/ WarnShortage \/ ShortenDone \/ SendMessage \/ Raise
             \/ ShowWaitingPage \/ SetMode \/ Restart
      PROVE  Goal
  BY <1>3, <1>7 DEF DeliverSettled, WarnShortage, ShortenDone, SendMessage, Raise, ShowWaitingPage, SetMode, Restart
<1>8. ASSUME DeliverMisconfigured PROVE Goal
  BY <1>1, <1>2, <1>8, PassesError DEF DeliverMisconfigured, At
<1>9. ASSUME DeliverReserve \/ StartPreparation PROVE Goal
  BY <1>1, <1>2, <1>9, PassesReserve DEF DeliverReserve, StartPreparation, At
<1>10. ASSUME PinProvider \/ NotifyShortageOnce PROVE Goal
  <2>1. op.order \in Orders
    BY <1>1, <1>10 DEF PinProvider, NotifyShortageOnce, At
  <2>2. Passes(mem, SetProvider(mem, op.order, op.provider)) /\ Passes(mem, MarkShortageNotified(mem, op.order))
    BY <1>1, <2>1, PassesPreparation
  <2> QED  BY <1>2, <1>3, <1>10, <2>2 DEF PinProvider, NotifyShortageOnce
<1>11. ASSUME CreateGist PROVE Goal
  <2>1. op.order \in Orders /\ StatusOf(mem, op.order) \in Unprepared
    BY <1>1, <1>11 DEF CreateGist, At, PreparationInv, Working, Record, StatusOf
  <2>2. Passes(mem, MarkGistCreated(mem, op.order)) /\ Passes(mem, RestoreReservation(mem, op.order))
    BY <1>1, <2>1, PassesPreparation, PassesRestore
  <2> QED  BY <1>2, <1>11, <2>2 DEF CreateGist
<1>12. ASSUME ShortenLink PROVE Goal
  <2>1. op.order \in Orders /\ StatusOf(mem, op.order) \in Unprepared /\ Head(op.todo) \in Links
    BY <1>1, <1>12, HeadTailProperties DEF ShortenLink, At, PreparationInv, Working, Record, StatusOf
  <2>2. CASE Commit(AppendPreparedLink(mem, op.order, Head(op.todo)))
    <3>1. Passes(mem, AppendPreparedLink(mem, op.order, Head(op.todo)))
      BY <1>1, <2>1, PassesPreparation
    <3> QED  BY <1>2, <2>2, <3>1
  <2>3. CASE Commit(SetStatus(mem, op.order, "preparation_failed"))
    <3>1. StatusOf(mem, op.order) \notin {"completed", "sending", "send_failed"}
      BY <2>1 DEF Unprepared
    <3> QED  BY <1>4, <1>5, <2>1, <2>3, <3>1
  <2> QED  BY <1>12, <2>2, <2>3 DEF ShortenLink
<1>13. ASSUME RequestConfirmation PROVE Goal
  <2>1. op.order \in Orders /\ StatusOf(mem, op.order) \notin {"completed", "sending", "send_failed"}
    BY <1>1, <1>13 DEF RequestConfirmation, At, StepInv, Position, Preparing, Final, Status
  <2> QED  BY <1>4, <1>5, <1>13, <2>1 DEF RequestConfirmation
<1>14. ASSUME BeginSend \/ MarkSendFailed PROVE Goal
  <2>1. op.order \in Orders
    BY <1>1, <1>14 DEF BeginSend, MarkSendFailed, At
  <2>2. MarkSendFailed => StatusOf(mem, op.order) = "sending"
    BY DEF MarkSendFailed, At, StepInv, Position, Status
  <2> QED
    BY <1>3, <1>4, <1>5, <1>14, <2>1, <2>2 DEF BeginSend, MarkSendFailed, Status
<1>15. ASSUME MarkCompleted PROVE Goal
  <2>1. op.order \in Orders
    BY <1>1, <1>15 DEF MarkCompleted, At
  <2>2. PICK S \in Trimmed(SetStatus(mem, op.order, "completed")) :
          Commit(Forget(SetStatus(mem, op.order, "completed"), S))
    BY <1>15 DEF MarkCompleted
  <2>3. Passes(mem, Forget(SetStatus(mem, op.order, "completed"), S))
    BY <1>1, <2>1, PassesComplete
  <2> QED  BY <1>2, <2>2, <2>3
<1>16. ASSUME DeleteLink \/ ClearLinks PROVE Goal
  <2>1. mem.stock \in Seq(Links) /\ IsInjective(mem.stock)
    BY <1>1 DEF Stores, ExclusiveIn
  <2>2. ASSUME NEW link \in Links PROVE Passes(mem, RemoveStockLink(mem, link))
    BY <1>1, <2>1, RemoveStockLinkType, RemoveFirstInjective, PassesStock
  <2>3. Passes(mem, ClearStock(mem))
    BY <1>1, EmptyToSet, ClearStockType, PassesStock
  <2> QED  BY <1>2, <1>16, <2>2, <2>3 DEF DeleteLink, ClearLinks
<1>17. UploadLinks => Goal
  BY DEF Goal
<1>18. CASE UNCHANGED vars
  BY <1>3, <1>18 DEF vars
<1>19. HandlerStep => Goal
  BY <1>7, <1>8, <1>9, <1>10, <1>11, <1>12, <1>13, <1>14, <1>15 DEF HandlerStep
<1>20. ASSUME Next PROVE Goal
  <2>1. CASE \E o \in Orders :
               NewOrderEvent(o) \/ TimerFires(o) \/ RetryOrder(o) \/ PressConfirm(o) \/ PressCancel(o)
    BY <1>6, <2>1
  <2>2. CASE ShowWaitingPage \/ UploadLinks \/ DeleteLink \/ ClearLinks \/ SetMode \/ Restart
    BY <1>7, <1>16, <1>17, <2>2
  <2> QED  BY <1>19, <1>20, <2>1, <2>2 DEF Next
<1>21. Next \/ UNCHANGED vars
  OBVIOUS
<1> QED  BY <1>18, <1>20, <1>21 DEF Goal

(* Buyers get links from one step, and links come back from another. *)
LEMMA ReceivedSteps ==
  ASSUME [Next]_vars
  PROVE  /\ SendMessage \/ UNCHANGED received
         /\ UploadLinks \/ UNCHANGED reused
<1> USE DEF history
<1>1. ASSUME NEW o \in Orders, NewOrderEvent(o) \/ TimerFires(o) \/ RetryOrder(o) \/ PressConfirm(o) \/ PressCancel(o)
      PROVE  UNCHANGED <<received, reused>>
  BY <1>1 DEF NewOrderEvent, TimerFires, RetryOrder, PressConfirm, PressCancel
<1>2. ASSUME ShowWaitingPage \/ DeleteLink \/ ClearLinks \/ SetMode \/ Restart
      PROVE  UNCHANGED <<received, reused>>
  BY <1>2 DEF ShowWaitingPage, DeleteLink, ClearLinks, SetMode, Restart
<1>3. ASSUME HandlerStep PROVE UNCHANGED reused /\ (SendMessage \/ UNCHANGED received)
  BY <1>3 DEF HandlerStep, DeliverSettled, DeliverMisconfigured, DeliverReserve, PinProvider,
       NotifyShortageOnce, WarnShortage, StartPreparation, CreateGist, ShortenLink, ShortenDone,
       RequestConfirmation, BeginSend, SendMessage, MarkCompleted, MarkSendFailed, Raise
<1>4. UploadLinks => UNCHANGED received
  BY DEF UploadLinks
<1> QED  BY <1>1, <1>2, <1>3, <1>4 DEF Next, vars

(* The message of an order has links that the file holds for that order. *)
LEMMA MessageOfOrder ==
  ASSUME TypeInv, StepInv, PreparationInv, SendMessage
  PROVE  /\ op.order \in Orders /\ mem = disk /\ Dispatched(disk, op.order)
         /\ MessageLinks \subseteq LinksOf(disk, op.order)
<1>1. op.order \in Orders /\ StatusOf(mem, op.order) = "sending" /\ At("send")
  BY DEF SendMessage, At, TypeInv, Free, StepInv, Position, Status
<1>2. mem = disk
  <2>1. writable
    BY <1>1 DEF StepInv, Agreement, At
  <2> QED  BY <1>1, <2>1, AgreedStatus DEF StepInv
<1>3. Prepared(mem.orders[op.order])
  BY <1>1 DEF PreparationInv, AllSound, Sound, StatusOf, ReadyStatuses
<1>4. MessageLinks \subseteq ToSet(mem.orders[op.order].reserved)
  BY <1>3 DEF MessageLinks, Record, Prepared
<1>5. LinksOf(mem, op.order) = ToSet(mem.orders[op.order].reserved)
  BY <1>1 DEF LinksOf
<1> QED  BY <1>1, <1>2, <1>4, <1>5 DEF Dispatched

(* A link that a buyer has goes back to the stock by an upload only. *)
LEMMA SoldNext ==
  TypeInv /\ StepInv /\ LinksExclusive /\ PreparationInv /\ SoldInv /\ [Next]_vars => SoldInv'
<1> SUFFICES ASSUME TypeInv, StepInv, LinksExclusive, PreparationInv, SoldInv, [Next]_vars PROVE SoldInv'
  OBVIOUS
<1>1. /\ mem \in Stores /\ disk \in Stores /\ reused \subseteq Links /\ DOMAIN received = Orders
      /\ ExclusiveIn(disk)
  BY DEF TypeInv, TypeOK, LinksExclusive
<1>2. /\ \A o1, o2 \in Orders : o1 # o2 => received[o1] \cap received[o2] \subseteq reused
      /\ \A o \in Orders : received[o] \subseteq Links
      /\ Unsold(disk)
  BY DEF SoldInv, NoLinkSoldTwice
<1>3. writable => Unsold(mem)
  <2> SUFFICES ASSUME writable, NEW o \in Orders, NEW link \in Sold(o)
      PROVE  /\ link \notin ToSet(mem.stock)
             /\ \A p \in Orders : link \in LinksOf(mem, p) => p = o /\ Dispatched(mem, p)
    BY DEF Unsold
  <2> QED  BY <1>2, AgreedRecord DEF StepInv, Unsold
<1>4. CASE UploadLinks
  <2>1. PICK links \in SUBSET Links :
          \E batch \in NewLinks(mem, links) :
            /\ Commit(AddLinks(mem, batch))
            /\ reused' = reused \cup (ToSet(batch) \cap UNION {received[o] : o \in Orders})
    BY <1>4 DEF UploadLinks
  <2>2. PICK batch \in NewLinks(mem, links) :
          /\ Commit(AddLinks(mem, batch))
          /\ reused' = reused \cup (ToSet(batch) \cap UNION {received[o] : o \in Orders})
    BY <2>1
  <2>3. UNCHANGED received
    BY <1>4 DEF UploadLinks
  <2> DEFINE t == AddLinks(mem, batch)
  <2>4. /\ t.stock = mem.stock \o batch /\ t.orders = mem.orders /\ batch \in Seq(Links)
        /\ mem.stock \in Seq(Links)
    BY <1>1, AddLinksType, NewLinksType DEF Stores
  <2>5. disk' = t /\ writable
    BY <2>2 DEF Commit
  <2> HIDE DEF t
  <2>6. ToSet(t.stock) = ToSet(mem.stock) \cup ToSet(batch)
    BY <2>4, JoinInjective
  <2>7. \A p \in Orders : LinksOf(t, p) = LinksOf(mem, p) /\ (Dispatched(t, p) <=> Dispatched(mem, p))
    BY <2>4 DEF LinksOf, Dispatched, StatusOf
  <2>8. reused \subseteq reused' /\ \A o \in Orders : received[o] \cap ToSet(batch) \subseteq reused'
    BY <2>2
  <2>9. ASSUME NEW o \in Orders, NEW link \in received[o] \ reused'
        PROVE  /\ link \notin ToSet(t.stock)
               /\ \A p \in Orders : link \in LinksOf(t, p) => p = o /\ Dispatched(t, p)
    <3>1. link \in Sold(o) /\ link \notin ToSet(batch)
      BY <2>8, <2>9 DEF Sold
    <3> QED  BY <1>3, <2>5, <2>6, <2>7, <3>1 DEF Unsold
  <2>10. Unsold(disk)'
    BY <2>3, <2>5, <2>9 DEF Unsold, Sold, LinksOf, Dispatched, StatusOf
  <2>11. \A o1, o2 \in Orders : o1 # o2 => received'[o1] \cap received'[o2] \subseteq reused'
    BY <1>2, <2>3, <2>8
  <2> QED  BY <1>2, <2>3, <2>10, <2>11 DEF SoldInv, NoLinkSoldTwice
<1>5. CASE SendMessage
  <2> DEFINE o == op.order
  <2>1. o \in Orders /\ mem = disk /\ Dispatched(disk, o) /\ MessageLinks \subseteq LinksOf(disk, o)
    BY <1>5, MessageOfOrder
  <2>2. /\ UNCHANGED <<disk, reused>>
        /\ UNCHANGED received \/ received' = [received EXCEPT ![o] = @ \cup MessageLinks]
    BY <1>5 DEF SendMessage, store
  <2>3. PICK more : more \in SUBSET LinksOf(disk, o) /\ received' = [received EXCEPT ![o] = @ \cup more]
    <3>1. CASE UNCHANGED received
      <4>1. received' = [received EXCEPT ![o] = @ \cup {}]
        BY <1>1, <2>1, <3>1 DEF TypeInv, TypeOK
      <4> QED  BY <4>1
    <3>2. CASE received' = [received EXCEPT ![o] = @ \cup MessageLinks]
      BY <2>1, <3>2
    <3> QED  BY <2>2, <3>1, <3>2
  <2> HIDE DEF o
  <2>4. \A p \in Orders : received'[p] = IF p = o THEN received[p] \cup more ELSE received[p]
    BY <1>1, <2>1, <2>3
  <2>5. LinksOf(disk, o) \subseteq Links
    <3>1. disk.orders[o].reserved \in Seq(Links)
      BY <1>1, <2>1 DEF Stores, OrderRecords
    <3> QED  BY <3>1, ToSetSeq DEF LinksOf
  <2>6. ASSUME NEW p \in Orders, p # o PROVE received[p] \cap more \subseteq reused
    BY <1>2, <2>1, <2>3, <2>6 DEF Unsold, Sold
  <2>7. \A o1, o2 \in Orders : o1 # o2 => received'[o1] \cap received'[o2] \subseteq reused'
    BY <1>2, <2>2, <2>4, <2>6
  <2>8. ASSUME NEW p \in Orders, NEW link \in received'[p] \ reused'
        PROVE  /\ link \notin ToSet(disk.stock)
               /\ \A q \in Orders : link \in LinksOf(disk, q) => q = p /\ Dispatched(disk, q)
    <3>1. CASE link \in Sold(p)
      BY <1>2, <3>1 DEF Unsold
    <3>2. CASE link \notin Sold(p)
      <4>1. p = o /\ link \in LinksOf(disk, o)
        BY <2>2, <2>3, <2>4, <2>8, <3>2 DEF Sold
      <4> QED  BY <1>1, <2>1, <4>1 DEF ExclusiveIn
    <3> QED  BY <3>1, <3>2
  <2>9. Unsold(disk)'
    BY <2>2, <2>8 DEF Unsold, Sold, LinksOf, Dispatched, StatusOf
  <2>10. \A p \in Orders : received'[p] \subseteq Links
    BY <1>2, <2>3, <2>4, <2>5
  <2> QED  BY <2>7, <2>9, <2>10 DEF SoldInv, NoLinkSoldTwice
<1>6. CASE UNCHANGED <<received, reused>> /\ ~UploadLinks
  <2>1. Unsold(disk')
    <3>1. CASE UNCHANGED disk
      BY <1>2, <3>1
    <3>2. CASE \E t : Commit(t) /\ Passes(mem, t)
      <4>1. PICK t : Commit(t) /\ Passes(mem, t)
        BY <3>2
      <4>2. disk' = t /\ Unsold(mem)
        BY <1>3, <4>1 DEF Commit
      <4>3. Unsold(t)
        BY <4>1, <4>2, StillUnsold
      <4> QED  BY <4>2, <4>3
    <3> QED  BY <1>6, <3>1, <3>2, SoldSteps
  <2>2. Unsold(disk)'
    BY <1>6, <2>1 DEF Unsold, Sold, LinksOf, Dispatched, StatusOf
  <2> QED  BY <1>2, <1>6, <2>2 DEF SoldInv, NoLinkSoldTwice
<1> QED  BY <1>4, <1>5, <1>6, ReceivedSteps

(* No link is sold to two buyers, unless an administrator uploaded it again. *)
THEOREM NoSecondSale == Spec => []NoLinkSoldTwice
<1>1. Init => SoldInv
  <2> SUFFICES ASSUME Init PROVE SoldInv
    OBVIOUS
  <2>1. \A o \in Orders : received[o] = {} /\ Sold(o) = {}
    BY DEF Init, Sold
  <2> QED  BY <2>1 DEF SoldInv, NoLinkSoldTwice, Unsold
<1>2. SoldInv => NoLinkSoldTwice
  BY DEF SoldInv
<1> QED
  BY <1>1, <1>2, SoldNext, TypeInvariance, StepInvariance, LinksStayExclusive, PreparationInvariance, PTL DEF Spec
=============================================================================
