# Manual Actions: a verification project

Manual Actions is a plugin of FunPay Cardinal: it delivers goods to buyers on its
own, mirrors FunPay chats into the topics of a Telegram group, follows the prices of
competitors, updates itself and gives the administrators a Telegram panel. This
directory holds TLA+ modules of its stateful parts, TLC configurations for small
instances, and proofs checked by TLAPS. Paths below are relative to `src/`.

To use it: `tlc -config <name>.cfg <module>.tla` for a run of `PROJECT.json`,
`tlapm <module>.tla` for a module whose name ends in `Proofs`.

## 1. Inventory

| component | state | operations | talks to |
|---|---|---|---|
| Gemini auto-delivery storage (`core/delivery/providers/gemini_storage.py`) | a JSON file: stock of links, one record per order; its copy in memory; `writable` | `add_links`, `remove_stock_link`, `clear_stock`, `reserve`, `restore_reservation`, `set_provider`, `append_prepared_link`, `mark_*`, `begin_send`, `cancel_order`, `load` | file system (`core/runtime/persistence.py`) |
| Gemini auto-delivery service (`.../gemini_service.py`, `core/delivery/service.py`) | one lock, a timer per delayed order | new-order event, delayed delivery, `retry_order`, `confirm_order`, `cancel_order` | its storage, FunPay (`send_message`), GitHub gists, Short.io, Telegram |
| Gemini panel (`.../gemini_ui.py`) | payloads behind buttons | pages of waiting orders, uploads, deletions, mode | service and storage, from other threads |
| ChatGPT accounts auto-delivery (`.../gpt_accounts_*.py`) | as above: stock of accounts, one record per order | as above without confirmation | its storage, FunPay, Telegram |
| Delivery orchestrator (`core/delivery/orchestrator.py`) | none | routes a new-order event to the provider of its lot | the two services |
| Chat Sync service (`core/chat_sync/service.py`, `storage.py`, `importer.py`) | topic per chat, its inverse, last mirrored message, a JSON file | `ensure_topic`, `deliver`, `refresh_topic`, `run_bulk_sync`, `import_legacy`, `clear_topics` | Telegram, FunPay; event threads, worker, bulk thread, refresher threads |
| Chat Sync queue, rate limiter (`core/chat_sync/dispatcher.py`) | a FIFO of jobs, one worker thread; a token bucket | `submit`, `stop`, `_run`; `acquire`, `call` | every thread that calls Telegram |
| Chat Sync panel (`core/chat_sync/telegram.py`, `ui.py`) | bound group | `/setup_sync_chat`, `/delete_sync_chat`, `/sync_chats`, forwarding of messages to FunPay | service, settings |
| Auto-dumping (`core/modules/auto_dumping/`) | scheduler thread, its stop event and lock; applied prices and conflict fingerprints in a JSON file; rules in the settings; tokens behind buttons | `start`, `stop`, `run_once`, `run_cycle`; the rule dialog, toggles, deletions, blacklists | FunPay lots, settings, Telegram |
| Gist command (`core/gist/`) | commands waiting for an order, links waiting to be sent | `/gist`, choice of an order, cancel, send, skip; token, visibility, file name | GitHub, Chat Sync's topics, FunPay, settings |
| Updater and lifecycle (`core/application/updater.py`, `plugin.py`) | thread and stop event, last / notified / skipped / installed version in the settings, the plugin file | background and manual check, install, skip, `start`, `stop` | GitHub, settings, file system |
| Settings (`core/config/settings.py`, `core/runtime/settings.py`) | one dict shared by everything, one file | `update_settings` with rollback | every component |
| Module registry, two-factor codes, withdrawals, FunPay lots / orders / profit / blacklist, Telegram pages, status page, Short.io client, build tools | little or none | sequential registration, dialogues, pages, requests | - |

Where the program is hard:

* *Two kinds of locks.* A delivery service holds its lock for a whole handler,
  network calls included, while the panel changes stock and settings beside it under
  the storage lock only. A handler therefore reads its order again and again, and each
  time the stock may be another one.
* *At most once against at least once.* Sending goods and recording that they were
  sent cannot be one step. The Gemini service records "sending" first and never
  sends again; the GPT service records the outcome afterwards and sends again.
* *Restarts.* All state in memory is lost between any two steps; timers and cards die.
* *Stale buttons.* A page or card of yesterday still works and calls the service.
* *Half failures.* Short.io fails in the middle of an order, a write fails, Telegram
  reports an error for a message that arrived.
* *Chat Sync threads.* The queue's worker, the bulk sync thread, one refresher per
  chat and the command handlers change the topic maps with Telegram calls in between,
  and each of them writes the whole file from a snapshot.
* *Handlers of Telegram.* Each runs on a thread of its own and changes the one dictionary
  of settings without a lock. A rollback puts other objects in the place of those a check,
  a cycle or a command still holds; a page's button names a rule by its index, and the
  rules have moved since.
* *Schedulers that are stopped with a time limit.* A poller or worker that is busy outlives
  the stop, and its successor may already be there.

What makes each component correct: no good has two owners; no buyer gets the goods of
an order twice (Gemini), or other goods than those reserved (GPT); a cancelled order
stays cancelled; a shortage is told once, and missed only where its messages fail or the
process ends between the mark and them; every unfinished order can be found. For Chat Sync:
a topic belongs to one chat, a chat has one topic, no message
is mirrored into another buyer's topic, mirrored twice or skipped. For the updater: no
version is announced twice or installed against the administrator's choice; one
background thread. For auto-dumping: one cycle at a time, no price below the rule's
minimum, a price is not set again and again, a button changes its own rule. For a gist:
one for each command, its link sent once and to the right client. For the settings: what
was saved stays, and a failed write undoes its own change (that it undoes no other
one is not true of the code; see section 6).

## 2. Plan

Order of work; each step is a module that is checked before the next is begun.

1. **done** `StockLedger` (abstract), `GeminiStorage`, `GeminiDelivery`: the delivery of
   links, its implementation of the ledger, its proofs.
2. **done** `GptAccountsDelivery`: the other discipline of delivery over the same ledger.
3. **done** `TelegramRateLimiter`: the token bucket shared by the threads of Chat Sync; theorems
   about it.
4. **done** `ChatSyncQueue`: the worker, its stop with a time limit and later submissions.
5. **done** `ChatSyncTopics`: worker, bulk sync, refreshers, administrators and restarts over the
   topic maps and the file; liveness of the queue.
6. **done** `Releases`, `Updater`: poller, checks by hand, skip, install, with the settings'
   rollback beside them.
7. **done** `PriceRules`, `TelegramSettings`, `AutoDumpingPanel`, `AutoDumping`: the price of a
   lot, the cycle over the lots, the scheduler's threads, the rules and their pages.
8. **done** `GistCommand`, and `AdminPanel`, which composes it with auto-dumping over the
   settings, the dialogs and the handlers' threads they share.
9. Theorems: **done** every invariant a passing run checks, the refinements of the ledger, and the
   floor of a price. Left: nothing of this list; liveness stays with TLC (section 8).
10. Left out: the withdrawal dialogue (section 8).

No module composes the limiter or the queue with the topics: the limiter only delays a
call, and `ChatSyncTopics` lets any time pass before one; the queue is a FIFO with one
worker until it is stopped, as `ChatSyncQueue` checks and `ChatSyncQueueProofs` proves,
and that is the queue `ChatSyncTopics` has.

## 3. Delivery of links (Gemini)

### Modules

`StockLedger` says what a stock of goods is: a good is outside, on the shelf, or held
for one order, and moves only along Stock, Withdraw, Reserve, Release, Close.

`GeminiStorage` is the storage as functions from store to store, one per method of
`GeminiDeliveryStorage`. A store is `[stock, orders]`, the content of the JSON file. A
missing record has status `absent`. The prepared links of a record are named by the
links they stand for, and a gist, which stands for all of them, is the value `Gist`.

`GeminiDelivery` is the service. `mem` is `storage.state`, `disk` the file, `writable`
what `load` leaves behind. `op` is the handler that holds the service lock
(`core/delivery/service.py:60`, `gemini_service.py:156`, `:176`, `:330`), and `op.pc` names
the durable write or the call it is stopped before:

| action | code |
|---|---|
| `NewOrderEvent`, `TimerFires` | `handle_new_order`, `handle_delayed_new_order` and the early returns of `handle_new_order_locked` |
| `RetryOrder`, `PressConfirm`, `PressCancel` | `retry_order`, `confirm_order`, `cancel_order`, each from a button that may be stale |
| `DeliverSettled`, `DeliverMisconfigured`, `DeliverReserve`, `PinProvider` | `deliver` up to the preparation |
| `NotifyShortageOnce`, `WarnShortage` | `notify_shortage_once`: the mark, then the messages |
| `StartPreparation`, `CreateGist`, `ShortenLink`, `ShortenDone` | `prepare_links`, `prepare_github`, the loop of `prepare_short_io` |
| `RequestConfirmation`, `BeginSend`, `SendMessage`, `MarkCompleted`, `MarkSendFailed` | `request_confirmation` and `confirm_order` |
| `Raise` | a write that fails, or a `ValueError` of the storage: the handler ends, `mutate` has changed nothing |
| `UploadLinks`, `DeleteLink`, `ClearLinks`, `SetMode` | the panel, under the storage lock only |
| `Restart` | the process ends anywhere and `load` reads the file, or cannot |

`received`, `sends`, `warnings`, `missed`, `forgotten` and `reused` are history: what buyers and
administrators have seen, the orders whose warning reached nobody although the mark was
written, those `trim_completed_orders` has dropped, and the links uploaded again after a
buyer had them.

### Runs

| run | instance | shows |
|---|---|---|
| `MCGeminiOneOrder` | 1 order, 2 links, amount <= 2, 3 events, 2 restarts, 1 upload | everything about the life of one order: sent at most once; ready only with every link prepared, by one provider, after a preparation that stopped half way; short only with a warning, given once and before it is ready, or with one that was missed after its mark; final when cancelled |
| `MCGeminiOrders` | 2 orders, 1 link, amount <= 2, 2 events, 1 restart, 2 uploads | a link has one owner; the file implements `StockLedger`; two buyers get one link only if it was uploaded again |
| `MCGeminiListing` | 1 order, 1 link | expected violation, see section 7 |

The bounds are enough for the interesting cases: two links are the least for an order
that is short by one and for a preparation that stops between two links; three events
are an event, its repetition and one after a restart; two restarts let the second come
in the middle of what the first left behind; two orders compete for the last link.
`CompletionLimit = 1` (1000 in the code) makes `trim_completed_orders` happen.
Administrators may upload, delete, clear and switch the mode between any two steps.
Deadlock is checked: the panel can always be opened.

No fairness is assumed, and no liveness is stated: the service retries nothing by
itself, so that an order moves on is up to FunPay's events and to the administrators.

### Proofs

`GeminiDeliveryProofs` begins with lemmas about the storage operations: each preserves the
type of a store; each preserves exclusive ownership (`ExclusiveIn`) under its
precondition; and what each does to statuses and reservations of its order and of the
others. It then proves theorems of `Spec`, for any sets of orders and
links, any amounts and bounds, from `StorageAssumption` and `DeliveryAssumption` alone.
The inductive invariant is built in layers, each relative to the ones before it:

1. `TypeInv`: `TypeOK`, with the handler's order a real order when one is in progress.
2. `StepInv`: *agreement* - memory and file are equal up to `NormalizeState`, and a storage
   that could not be loaded writes nothing - and *position* - at each `op.pc` the order
   has one of the statuses the earlier steps can have left. Position is needed because
   `MarkCompleted` and `MarkSendFailed` do not look at the status they overwrite: only
   the place in the handler says that it is "sending".
3. `LinksExclusive`, in memory and in the file.
4. `FinalKept`: what is cancelled or delivered keeps its status under every action.
5. `MessageInv`: an order with a message sent is in a status no send starts from, and
   one at `send` has sent none; `AtMostOneMessage` and `DeliveredStaysDelivered` follow.

They give the theorems `TypeCorrectness`, `StepInvariance`, `LinksStayExclusive`,
`NoSecondMessage`, `DeliveredForGood` and `CancelledForGood`. Each inductive invariant was first checked by TLC
on the instances above.

A sixth layer proves the refinement, `LedgerImplemented`: `Spec` implies the ledger's, with
`Holder` for its variable. It assumes besides that the places `Out` and `Shelf` are two and no orders
(`LedgerAssumption`). `Places` is `Holder` for any store; each operation of the storage is shown
to move it along one arrow of the ledger, or not at all (`Follows`). The ledger lets an order
take goods only when it holds none, while `reserve` overwrites what is there without a look;
the invariant `HandsInv` says why nothing is lost: an order in a status that `reserve` acts on has
an empty reservation, in memory and in the file.

Three more layers prove what the buyer gets:

7. `PreparationInv`: every record, in memory and in the file, is `Sound` - what is prepared are
   the first of its links in their order, or one gist of all; nothing is pinned or prepared
   without links; a record that is ready is prepared and, if short, marked - and `Working` says
   what the handler knows at each position, among it that the loop of `ShortenLink` has left
   exactly the links that are not prepared. `append_prepared_link` takes a link that it has
   already for done, so a reservation with a link twice would end up with fewer links prepared
   than reserved: layer 3 excludes that. `NothingUnprepared` follows.
8. `WarningInv`: a mark on record means that the warning was given, or was missed, or is about
   to be given by the handler that has just made the mark; a warning given is on record, and
   that handler has not warned before, since its mark was missing. With layer 7 it gives
   `WarnedOfOnce`. What is missed is named, not excused in general: `missed` grows only in
   `WarnShortage`, when both messages fail, and in `Restart`, when the handler stands there.
9. `SoldInv`: a link a buyer has is neither in the stock nor held for another order, and its own
   order, if it is still held there, may have been sent (`Dispatched`). `Passes` is what a write
   may do to the links, shown for each operation; only an upload is not of that kind, and it
   counts what it brings back in `reused`. `NoSecondSale` follows.

Every invariant of the Gemini runs is so proved for all values of the constants, except
`UnfinishedOrdersAreListed`, which the code violates.

`SequenceLemmas` holds what both deliveries and the updater need of sequences: the halves of an
injective sequence, its concatenation with another, `RemoveFirst`, an arrangement of a set.

## 4. Delivery of accounts (GPT)

`GptAccountsDelivery` has the storage and the service in one module; `op`, `mem`, `disk`,
`Restart` and the panel's actions are as in `GeminiDelivery`. The differences are the
point: `SendReserved` comes before the outcome is recorded, a retry delivers whatever
became of the order (`retry_order` looks at `send_failed` only), and the accounts of
completed orders stay on record for good. So delivery is at least once, and what is checked
is what that is worth: `RepeatsNeedTrouble` (a second message needs a retry, a failed
write or a restart in the middle), `OneReservationPerBuyer` (all messages of an order carry
the accounts of one reservation), `NoAccountSoldTwice`, `ShortDeliveryIsWarned`, and the same
`StockLedger`. `troubles` counts the retries, failed writes and restarts per order. `ShortDeliveryIsWarned` is
about the mark in the file: when the process ends between the mark
(`gpt_accounts_service.py:156`) and the message to the buyer (`:161`), the order is marked and
its buyer is told nothing.

| run | instance | shows |
|---|---|---|
| `MCGptOrders` | 2 orders, 2 accounts, amount <= 2, 3 events, 1 retry, 2 restarts, 1 failed write | at least once, of one reservation, warned of when short; no account reaches two buyers; the file implements the ledger |

### Proofs

`GptAccountsDeliveryProofs` proves every property of the run, and that the file implements
`StockLedger`, for any sets of orders and accounts, any amounts and bounds, from
`GptAssumption` alone. The invariant, again in layers:

1. `TypeInv`: `TypeOK`, with the handler's order a real order when one is in progress.
2. `SoundInv`: memory is the file, or the storage was not loaded and writes nothing; in both
   an account is in the stock once or on record for one order (`Exclusive`), and an order in a
   status that `reserve` acts on has nothing on record (`EmptyHanded`), so that `reserve`,
   which overwrites the reservation without a look, loses no account. `LedgerImplemented`
   follows with `Follows`, what a write must do.
3. `DeliveryInv`: what a buyer has got is on record for the order, and an order that was sent,
   or whose send was recorded as failed, is `Ready`: it holds its accounts, and its buyer was
   warned if they are too few. It has to speak of the handler (`Position`), which decides
   whether to warn in one step, writes the mark in another and sends in a third.
   `OneReservation`, `SoldOnce` and `WarnedFirst` follow.
4. `TroubleInv`: an order sent more often than its troubles explain is closed, or its handler
   is about to close it; no handler on its way to a send has such an order. So the next event
   finds it closed: `RepeatsExplained`.

## 5. Chat Sync

### The rate limiter

`TelegramRateLimiter` is `TelegramRateLimiter` and `TelegramSender` of
`core/chat_sync/dispatcher.py`. Threads compete for a token bucket in discrete time; a
token is worth `Minute` units, so that a limit of `rate` messages a minute refills `rate`
units a tick and everything is an integer (the code has floating-point seconds).

| action | code |
|---|---|
| `StartCall`, `Answer`, `TooManyRequests` | `call`: a first attempt, an end of any kind, a 429 with retries left |
| `Acquire` | one turn of the loop of `acquire`, which is one critical section: refill, then take a token or compute a delay and sleep; a thread may oversleep |
| `Configure` | an administrator sets another limit |

`MCTelegramRateLimiter` has two threads, two limits, a minute of four ticks, a gap of one,
one retry and seven ticks: enough for a full bucket to be emptied, to refill and to
overflow, and for a limit to change in between. `BurstIsBounded` is the bound the
algorithm keeps, `RequestsKeepTheGap` the interval between calls of any threads.

`TelegramRateLimiterProofs` proves all three properties for any threads, limits and
times. `TypeCorrectness` includes that the bucket is never overdrawn. For `BurstBound`
the bound on grants is strengthened by a *headroom*: for every grant `i`, what was granted
since and what is in the bucket now are together at most one full bucket and the refill
since grant `i`. A grant moves a token from one side to the other, a refill adds to both,
a new limit only takes tokens away.

### The queue

`ChatSyncQueue` is the class of that name. `Submit` and `Put` are the two halves of
`submit`, between which other threads come; `TakeThread`, `PutSentinel` and `JoinReturns`
are `stop`, whose `join` gives up after five seconds and is therefore allowed to return at
any time; `Get` and `Finish` are the worker.

`MCChatSyncQueue` has two event threads, four jobs, one stop and up to three workers.
The stop may come at any time, and submissions may follow it. Until the stop there is one
worker, jobs end in the order they were put, and each of them ends even when others raise;
after a stop that no submission follows the worker has ended.
Fairness: a thread that has started a worker puts its job, `stop` puts its sentinel, a
worker takes what is in the queue, and a job ends, because its calls have time limits.
Nobody has to submit or to stop. Deadlock is checked, with `AllDone` as the state where
the run may rest.

`ChatSyncQueueProofs` proves `TypeCorrectness`, `OneWorker` and `OrderedDeliveries`. The
invariant for the order is `Accounted`: until a stop, what has finished, then the job in the
worker's hands, then the queue are together exactly what was accepted. It needs `OneThread`:
the worker of `_thread` is the only one alive.

### The topics

`ChatSyncTopics` is `ChatSyncService` with its storage, its importer and the commands of
its panel. Every thread has a record in `op`: where it stands (`pc`) and the values it has
read and still holds. A step ends where the code calls Telegram or FunPay, takes a lock, or
writes the file; other threads run in between.

| thread | actions | code in `core/chat_sync/` |
|---|---|---|
| FunPay events | `NewMessages`, `NewOrder` | `service.py` `handle_new_message`, `handle_new_order` |
| worker of the queue | `TakeJob`, `SendFresh`, `RememberFresh`, `ScheduleTopicRefresh` | `deliver`, `ensure_topic_for_username`, `remember_last_message` |
| worker and bulk sync | `LockTopic`, `CreateTopic`, `CreationFails`, `SendHeader`, `LoadHistory`, `PostHistory`, `RememberHistory`, `ReturnTopic` | `ensure_topic`, `create_topic`, `send_topic_header`, `backfill_history` |
| bulk sync | `StartSync`, `NextChat` | `run_bulk_sync` |
| refresher of a chat | `StartRefresh`, `EditTopic`, `SendStats` | `refresh_topic`, `send_stats_message` |
| administrators | `SetupSyncChat`, `DeleteSyncChat`, `ClearTopics`, `ImportLegacy`, `ApplyGroup`, `ApplyTopics`; `DeleteTopic` in Telegram itself | `telegram.py` commands, `reset_topics`, `import_legacy`, `apply_import`, `importer.py` `build_import_plan` |
| all of them | `WriteTopics` | the write of `save_topics`, from the snapshot taken with the change |
| - | `Restart` | the process ends anywhere; `load` with `normalize_topics` |

`SendText` and `DropTopic` are shared by all of these, as in the code: a send to a
topic that is gone unlinks whatever topic its chat has *by now*. A topic is a group and a
thread id; the program stores the thread id only, and sends to the group bound now.

| run | instance | shows |
|---|---|---|
| `MCChatSyncTopics` | 1 chat, 2 messages, 3 thread ids, history of 1, 1 bulk sync, 1 refresher, 1 deleted topic, 1 failed write, 1 restart | worker and bulk sync never make two topics for a chat unless a topic was deleted, the process restarted, or Telegram made one whose thread id the program never got; a message still queued counts as mirrored only if it was tried with the history, or if a history of that depth no longer reaches back to it; every job ends |
| `MCChatSyncCommands` | 2 chats, 1 legacy topic, 2 commands, 1 order, 1 bulk sync, 1 deletion, 1 failed write, 1 restart | a topic belongs to one buyer in both directions, through binding, leaving, importing, deletion and restart |
| `MCChatSyncStaleDrop`, `MCChatSyncTwice` | 1 chat | expected violations, see section 7 |

One chat is enough for what `MCChatSyncTopics` asks, since the lock, the record and the
history are per chat and the queue is one; two messages let one be delivered while another
is waiting, and a history of one message be too short for both; three thread ids are a topic, the one made in its place, and one after a
restart. Two chats are the least for a topic to be the wrong buyer's; messages play no part
in that, so that run has none. Both runs have one group: with two, a topic in the making
while the group is replaced is linked in the new one (hazard at `service.py:241`).

Fairness: the worker, and a bulk sync once begun, go on: they are threads of the program
whose calls have time limits. Nobody has to write, order, sync or type a command, and a
refresher, which no job waits for, may hang. Deadlock is not checked, because every buyer
and administrator may stop; a lock that is kept shows as a violation of `JobsEnd` instead.

Left out: usernames, and the saves that renaming causes; icons and titles; repeated stacks
of events; the switch that disables Chat Sync; the repetition of a creation after a 429, which
Telegram sends for what it has not done; a batch is posted as one message where the
code may split it into chunks; the snapshot of a record takes its last message together
with the map; the answer of a created topic is published in the step that creates it; one
bulk sync at a time. Telegram counts thread ids up.

`ChatSyncTopicsProofs` proves `TypeCorrectness` for any chats, groups, ids and bounds. It
is more than types: `TypeOK` says of each thread that it holds the chat, the topic and the
group its next step uses, also when it goes on after a write (`Placed`). Each helper of
the module has a lemma of its own (`SaveType`, `DropType`, `SendTextType`, `RememberType`,
`WithTopicType`), and every action cites those it is built from.

`BuyersKept` proves `EachTopicHasItsBuyer` for any chats, ids, legacy threads and bounds,
from one assumption besides `TopicsAssumption`: `OneGroup`, that administrators bind one
group only (`MCChatSyncCommands` is such an instance). The property alone is not inductive,
since an import, a late write followed by a restart, or a legacy thread may bring a topic
back that is not in memory now. `BuyersInv` therefore says of memory in both directions
(`Linked`, `InverseLinked`), of the file and of every snapshot on its way to the file or held by an
import (`FilesOwned`), and of the legacy threads (`LegacyOwned`), that they name a topic's own
chat only. The heart of it is `CreateOwned`: a topic in the making has a thread id that
nothing names yet, and `ReversedOwned`: an inverse map rebuilt from topics of distinct
chats is their inverse. `OneGroup` is needed where two topics with the same thread id
must be the same topic.

`NoSecondTopic` is `OneTopicPerChat`, for any number of groups. Its invariant, `CalmInv`, says
while the calm lasts that every topic in memory exists in the group bound, that every topic
made for a chat, and answered, is the one memory has for it, and what each thread `Knows`: its topic is
there - so that nothing is unlinked, which would let the next job make a second one - and
between the second look and the return the lock of the chat is its own. A creation that fails
(`NoAnswer`) may have made a topic all the same, when its answer is lost or has no thread id
(`service.py:246-258`): nothing links such a topic, and the next job makes another. They are kept
in `unanswered`, which grows in no other step, and the property speaks of the others.

`SkippedAlways` is `SkippedMeansTried`, for any number of groups. `SkipInv` says of every number up to
which a chat may be taken for mirrored that it may (`Reached`: what is queued up to it was tried,
or is older than a history is deep), wherever the number is kept: for each topic, linked or not, since an
import may link it again; in the file, which a restart believes; in each snapshot on its
way there. Two facts carry it. The queue has the messages of a chat in their order
(`QueueOrdered`), so the worker's batch is before all that is queued, and remembering it skips
nothing. A history that is remembered is the last messages of some moment, and was posted
(`HandAt`): whatever is queued below it and was not posted is too old for it. Every step is
`Steady`: it takes nothing back that was sent or tried, gives no topic another chat, and queues only what was just
sent; so what was reached stays reached.

`JobsEnd` needs fairness and is model-checked only.

## 6. The updater

`Releases` holds the pure part of `core/application/updater.py`: versions that compare as
tuples of numbers or, when one is no dotted number, by inequality; the first public release
with a plugin file; whether a release is offered (`should_offer`). `Updater` has the threads:
pollers (`_run`, one thread for each start), and handlers of the panel that check, install,
skip, or change some setting.

* `heap` and `section`. A check keeps `settings["updater"]` in a local variable and goes on using it
  after a save (`updater.py:113`); a rollback by `update_settings` puts another object in the
  dictionary. `heap` holds every object the section has been, `section` says which one it is now,
  `my[a].kept` which one a check kept.
* A save is two steps, the dump and the replacement of the file (`Dump`, `Written`), since the
  settings are dumped without a lock and another thread may come between. What a check cannot save
  stays in memory (`CheckSaveFails`), what the panel cannot save is rolled back (`HandlerSaveFails`).
* `listing` is what GitHub lists. A release may appear there (`Publish`), and a listed one may be
  deleted, or made a draft or a prerelease (`Withdraw`), so that the one before it is the latest again.
* `asked` and `losses` are history: how often each version was asked about without an administrator's
  tap, and what may bring a question back: a copy of the settings put back, a start on a file whose
  note of the version an older dump has overwritten (`NoteIsLost`), and a release withdrawn, since
  `notified_version` holds one version only. A restart alone is none of them.
* `stop[p]` is the event of one poller; the `join` of two seconds may give up at any time, so an old
  poller may still be in a check while the next one starts. `lock` is `_check_lock`.
* `Download` replaces the plugin file and then writes `installed_version`: the file is
  `plugin`, the code that runs is `running` until a restart.

Abstracted: copying the settings, changing them and dumping them is one step; so is putting the copy
back, which is `clear()` and then `update()` in the code (`core/runtime/settings.py:18`), and what a
reader finds between the two is left out: no setting, or a `KeyError`. A message
that is not delivered is a message whose buttons nobody taps. `last_checked_version`, the interval
and the token have no value; a file without an `updater` section is not among the initial
states; deleting the plugin is not modelled.

| run | instance | shows |
|---|---|---|
| `MCUpdater` | versions 1.0, 1.0.1 and a tag without numbers, 2 pollers, 2 handlers, 2 taps, 3 events in all (taps, releases published, releases withdrawn: `MaxEvents`), 1 failed save, 1 restart | a release is asked about once, whatever pollers there are, also after a restart; at most one check that had begun installs after the mode was changed; one poller when the mode asks for one; the file follows memory; a skipped version is left alone |

The exceptions are stated in the properties, and each is needed: a copy put back, a
start on a file that lost the note, and a release withdrawn each bring a question back (`AskedOnce`;
TLC finds the question when any of the three is not counted), two handlers at the mode may leave no poller
(`PollersAsTheModeSays`), two saves at once may leave the older dump in the file
(`FileIsCurrent`) and may leave a check with a section that a rollback has replaced, in which
the version is not skipped yet (`SkippedIsLeftAlone`; it takes three taps). Two taps are what two handlers need to cross; a third adds nothing but a
second crossing. Deadlock is not checked because the system comes to rest when taps, releases
and failures are used up and the mode is "disabled".

### Proofs

`UpdaterProofs` proves every property of the run for any versions,
catalogs, threads and bounds, from `ReleasesAssumption` and `UpdaterAssumption` (among others that
there is a poller at all: the thread started at boot). Helpers that several actions use (`Go`,
`Ends`, `Dump`, `SetSection`, `Boot`, the steps of a check, a handler and a tap) have a lemma for
each invariant.

* `TypeCorrectness`: `Typed` is the type invariant with `LocalsOK`, which says that a check that
  has found a release holds one and that a kept section is one of the heap's.
* `AtMostOneLate`: by `Solo`, only the owner of the lock is inside a check; by `LateOK`, once an
  installation is late the mode is no longer "enabled", and no poll under way has read that it is.
  The second follows from the first: the late poll was the only check there was.
* `FileFollows`: `FileOK` says of the thread that is saving, while saves do not overlap, that
  what it dumped is what memory holds and what it would put back is what the file holds.
* `SkippedForGood` adds `SkipOK` (the version skipped last is in memory, in the file and in what
  a rollback would put back) and `KeptOK` (the section a check has kept is the current one: no
  rollback came between).
* `PollersFollow`: `PlacesOK` says where a handler stands that changes the settings, and `PollersOK`
  follows the only such handler from its save to the stop and the start of pollers (`OnTheWay`).

* `AskedOnceAlways`: by `AskInv` each loss pays for one question more. A version
  asked about as often as that allows is `Closed`: the settings have it as notified, or GitHub
  lists a later public release, so that no check finds it the latest again (`Past`; a release is
  listed once). `AskingOK` carries this through a check, which judges by a section it has kept and
  that a rollback may have replaced, and writes the version before it asks. `NotedOK` is what a restart needs: while no two
  saves have crossed, the note of such a version is in the file as well, since the question goes
  out only after it was saved. Without that save the invariant fails, and so does the run.

## 7. The admin panel: auto-dumping, settings, gists

`AdminPanel` composes what shares the settings, the dialogs and the threads of the handlers:

| module | models |
|---|---|
| `PriceRules` | `pricing.py`, `matching.py`, `conflicts.py` and `decide`: the price a lot gets from the rules |
| `TelegramSettings` | `update_settings` (`Save`, `Written`, `RollBack`), dialogs (`Ask`), templates and statuses |
| `AutoDumpingPanel` | the pages of rules, their buttons and tokens, the rule dialog, blacklists |
| `AutoDumping` | the scheduler's threads, the cycle, FunPay's prices and Cardinal's cached profile, the memory of applied prices, restarts |
| `GistCommand` | `/gist`, the choice of an order, the link and its buttons, the gist pages |
| `AdminPanel` | all of them: a restart ends every one at once |

How the state corresponds to the code:

* `heap`, `current`, `file`: as in the updater, but for all settings. A rule object is a rule's id
  and its place in the heap: the code compares objects by identity
  (`core/modules/auto_dumping/telegram.py:323`), and after a rollback they are others. A cycle keeps
  the heap index it began with, a `/gist` command too.
* `panel[u]` is the set of buttons with tokens on an administrator's page; a token is good for one tap.
  `Valid` is the check a tap passes, `SameId` and `SomeRule` what the change itself looks at again.
  `TapRule` and the change are two steps, with other handlers in between.
* `AskWords` is the question for blacklist words: the rule was looked at before it is sent
  (`telegram.py:968`), and is read again by its index and without a look after it (`:983`). So the
  dialog has the rule that the button was for and the one its token is `bound` to, which may be
  another one, or there is no dialog when the index is out of range. `Accepted` is the check of
  the answer.
* `trouble`, `again`, `overlap`, `promised`, `dropped`, `moved` and `astray` are history. `moved` says
  of a handler or a dialog that a deletion, an emptied list or a rollback came between a look at the
  rule and its use; `astray`, that a blacklist was changed that was not meant, without such a move;
  `dropped`, which rules a start left out as duplicates.
* A cycle: `CycleBegins` (settings), `CycleReads` (market, profile, decisions), then for each lot
  `ConsiderLot`, `UpdatePrice`, `Record`, `Tell`, and `FinishCycle`. The worker holds `cycleLock`; a
  cycle run by hand does not take it.
* `price` is what FunPay has, `profile` what Cardinal's cache shows for the seller's lots: it is read
  again at any time (`ProfileRefreshes`). `applied` is the memory that keeps a stale
  profile from setting the same price again.
* `requests` and `results` are `pending_requests` and `pending_results`: a button takes its entry out
  in one step, and what comes after is the business of the thread that got it.

Abstracted. A prompt and the state it sets are one step, except the question for blacklist words.
Putting a copy back is one step, as in section 6: a handler that finds no setting between `clear()`
and `update()`, and fails, is left out (`telegram.py:1070`). Pages have no end and tokens are never
too many: a button beyond either limit is a button nobody taps. A user has one panel message. The
page between a rule and its lists is passed over. A title is a set of words and the keywords of a
rule a set, so that two rules that differ in the order of keywords count as duplicates on loading.
Activity and availability of lots are not modelled, and the catalog is read at one instant. The
period is not modelled: a wait may end at any time, and one too long for `Event.wait` (`scheduler.py:71`)
is not among them. FunPay's silent refusal of a price is taken for
success, as in the code. A price restored by hand to the one last seen is taken for a stale
profile, as in the code. A `/gist` without a text, and buttons whose entry is gone, change nothing.
A gist's file name is the value it is made from; what is stripped from it is not modelled.

`Scenarios` (a constant) gives each initial state its own budget of taps, market moves, failures and
restarts, and the topics of the panel that are tapped; one run covers eleven small questions that share
the model and whose product would be too large: `Race` (cycles by hand, the switch and the worker),
`Wind` (market moves, failures, a restart), `Full` (more lots than applied prices are kept), `Knobs`
(two handlers at the switch), `Shelf` (rules and blacklists under stale buttons), `Refill` (one list emptied and filled again while
a removal from it is under way), `Wizard` (the whole
rule dialog beside a rule it may duplicate, and a restart), `Pages` (templates), `Words2` (statuses), `Notes` (two `/gist` commands with every button
tapped twice), `Names` (a command while its settings change).

| run | instance | shows |
|---|---|---|
| `MCAdminPanel` | 2 handlers, 2 workers, 2 own lots, 3 rivals, 2 rules, 2 templates, 2 topics, 2 orders, 2 commands, the eleven scenarios | the same price is not saved again and again; a button or an answer changes its own rule's lists; what was saved stays, duplicates excepted; the workers follow the switch; a command makes one gist at most and its link is sent once at most, to its own client |

`SavedOnce`, `Kept` and `WorkersAsSwitched` name their exceptions with history variables (`trouble`,
`overlap`, `dropped`), each of which TLC shows to be needed: without them a cycle by hand, a failed
call, two saves at once or a second rule for the same lots and keywords break the property. The dialog
accepts such a rule and reports it as saved, also with another price; the next start drops it
(`settings.py:28`). `RightRule` excepts a move between the check of a tap or an answer and the change,
and one while the question for the words is being sent: then the token is bound to the rule that has
come to the place, the answer passes its check, and the words go to that rule. Deadlock is not checked: when the budget is
used up and auto-dumping is off, nothing is left to happen. No liveness is claimed here: a
cycle waits for the market and handlers for administrators.

Every action fires in the run; the steps below `Step` and `GistStep` were counted with TLC's coverage.

### Proofs

`AdminPanelProofs` proves every property of the run for `AdminSpec`, for any administrators, threads,
rules, templates, lots, rivals, prices, limits and scenarios. It assumes what the modules assume of
their constants: `AutoDumpingAssumption` and `AutoDumpingPanelAssumption` (the lots and keywords are
finitely many, no constant stands for two things), `GistCommandAssumption`, `ScenarioAssumption`
(a scenario starts from settings).

The module has some seventy actions and six invariants, and most actions have nothing to do with most
invariants. So actions are first sorted, and an invariant is proved for each sort. `Kinds` sorts
for settings and scheduler: a step is aside of both, a save (`Updates`), its end (`Writes`), a rollback,
a step at the switch (`Drives`), a worker that is woken, or a restart. `Undisturbed` and
`Quiet` sort for the gist command and the cycles.

* `TypeOKAlways`: `Typed`, with what each handler holds at its step (`WorkOK`) and each dialog has
  been answered (`DialogOK`).
* `KeptAlways`: `KeptInv`, while no two saves cross: what was promised is in memory, in the file,
  and in what the one save under way would roll back to; save what starts have `dropped`, to which
  only a restart adds, and only rules that are duplicates in the file.
* `RightRuleAlways`: `Aimed`, that what a handler has looked up is where it was until it is told of a
  move, and `Bound`, that a dialog is bound to a rule with the id of its button's, unless that moved
  while the question was sent. The proof showed the excuse of the property to be too narrow: with a removal
  under way another handler may empty the same list and fill it again, with no deletion
  and no rollback. TLC confirmed it, which is the scenario `Refill`.
* `WorkersAsSwitchedAlways`: `WorkerOK` and `Orderly`: while one handler at most is at the switch, the
  setting and the worker agree unless that handler is about to make them agree (`AtSwitch`).
* `OneLinkEachAlways`: `OneInv` follows a command from the handler on its way to the gist through
  request, result and the handler that sends: it is in one of these places at most, once.
* `SavedOnceAlways`: `OnceInv`. For a lot without trouble the price last saved is in the memory of
  applied prices or in the hands of the thread that is about to record it (`SavedInv`); a worker in a
  cycle has the lock, and two threads in a cycle know of each other (`LockOK`).
* `DecidedByRule` is about `PriceRules`: each decision of a cycle is that of an enabled rule for the
  lot, or for all lots, and its price is not under the rule's own minimum (`FinalPriceFloor`:
  undercutting and commission are compared with the floor before the price is rounded to the cent, so
  the floor is kept to the cent).

## 8. What is not modelled, and why

Texts, pages, parsing of uploads and formatting; the clients of Short.io and
FunPay, of which only "succeeds, fails, or fails although it worked" matters;
two-factor codes, withdrawals, lots, profit, the blacklist and the status page,
which are sequential and keep no state across calls or a single value. A delayed delivery
(`core/delivery/service.py:54`) fires at any later time; delays themselves are not
measured.

Liveness under fairness, `ENABLED`, induction over data and recursive operators are out of
the prover's reach; what needs them stays with TLC: `JobsEnd` of the topics and the liveness of the
queue (`JobsAreDone`, `StopEndsTheWorker`). Every other property of a passing run is a theorem.

## 9. Disagreements found

* `MCGeminiListing`: the waiting page claims that no order needs attention while a
  `retryable` order does. `record_error` (provider without credentials) and
  `restore_reservation` (gist refused) leave an order `retryable`, and
  `actionable_orders` (`gemini_storage.py:407`) does not list that status, so the retry
  button, which besides a repeated new-order event alone would deliver it, is on no page. The run shows an order in that
  state with nothing in progress.
* `MCChatSyncStaleDrop`: `refresh_topic` and `send_text` call `drop_topic(key)` after a call
  that failed for a deleted topic, and that unlinks whatever topic the chat has by then
  (`service.py:768`). When a new one was made meanwhile, it is unlinked although it exists:
  what administrators write there reaches nobody, and the next message makes another topic.
  The log line at `service.py:279` says of each unlinked topic that it is gone.
* `MCChatSyncTwice`: `create_topic` publishes the topic before it posts the history
  (`service.py:262`). A message the worker delivers in between is posted a second time by
  the bulk sync; `tests/test_chat_sync_service.py:236` promises that backfilled messages are
  not delivered twice, and tests it in sequence only.
