---------------------------- MODULE StockLedger ----------------------------
(***************************************************************************)
(* What an auto-delivery storage promises about the goods it keeps (links  *)
(* or accounts), whatever the handlers, the administrators, the crashes    *)
(* and the failed writes do: a good is at one place at a time - outside    *)
(* the plugin, on the shelf, or held for exactly one order - and only ever *)
(* moves along the arrows below.  Both delivery storages are shown to      *)
(* implement this ledger.                                                  *)
(***************************************************************************)

CONSTANTS
  Goods,    \* links or accounts
  Orders,   \* order ids
  Out,      \* the place of a good the storage does not know, or has let go
  Shelf     \* the place of a good that is free to be reserved

VARIABLE holder   \* where each good is

Held(o) == {g \in Goods : holder[g] = o}

Move(S, place) == holder' = [g \in Goods |-> IF g \in S THEN place ELSE holder[g]]

Init == holder = [g \in Goods |-> Out]

(* The administrator uploads goods the storage does not hold already. *)
Stock(S) ==
  /\ S \subseteq {g \in Goods : holder[g] = Out}
  /\ Move(S, Shelf)

(* The administrator deletes goods; those held for an order stay. *)
Withdraw(S) ==
  /\ S \subseteq {g \in Goods : holder[g] = Shelf}
  /\ Move(S, Out)

(* An order that holds nothing takes goods off the shelf. *)
Reserve(o, S) ==
  /\ Held(o) = {}
  /\ S \subseteq {g \in Goods : holder[g] = Shelf}
  /\ Move(S, o)

(* A preparation that failed puts back everything the order held. *)
Release(o) == Move(Held(o), Shelf)

(* A completed order lets its goods go: they left for the buyer. *)
Close(o) == Move(Held(o), Out)

Next ==
  \/ \E S \in SUBSET Goods : Stock(S) \/ Withdraw(S)
  \/ \E o \in Orders, S \in SUBSET Goods : Reserve(o, S)
  \/ \E o \in Orders : Release(o) \/ Close(o)

Spec == Init /\ [][Next]_holder
=============================================================================
