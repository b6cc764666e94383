--------------------------- MODULE ChatSyncTopics ---------------------------
(***************************************************************************)
(* ChatSyncService: every FunPay chat is mirrored into a topic of its own  *)
(* in a Telegram group.  The worker of the queue, the bulk sync, one       *)
(* refresher per chat and the administrators' commands share the map from  *)
(* chats to topics, with calls to Telegram and FunPay between their steps, *)
(* and each of them writes the whole map to the file from a snapshot.      *)
(*                                                                         *)
(* A topic is known to Telegram by its group and its thread id, to the     *)
(* program by the thread id alone; its record is named like the topic.     *)
(* A batch of messages is posted as one message.                           *)
(***************************************************************************)
EXTENDS Integers, Sequences

CONSTANTS
  Chats,          \* FunPay chats
  Groups,         \* Telegram groups
  Ids,            \* thread ids of a group, numbers
  None,           \* no group, no topic, no chat, nobody
  Depth,          \* history_depth
  LegacyGroup,    \* the group the legacy plugin has left behind
  Legacy,         \* its threads: the thread id of some chats
  MaxMessages,    \* bound: messages per chat
  MaxOrders,      \* bound: orders
  MaxFailures,    \* bound: writes that fail
  MaxSyncs,       \* bound: bulk syncs
  MaxRefreshes,   \* bound: refreshers started
  MaxDeletions,   \* bound: topics deleted in Telegram
  MaxCommands,    \* bound: commands that bind, replace, leave or import
  MaxRestarts     \* bound: restarts

ASSUME TopicsAssumption ==
  /\ None \notin Chats \cup Groups \cup [group : Groups, id : Ids] \cup {"worker", "bulk", "admin"}
  /\ Chats \cap {"worker", "bulk", "admin"} = {}
  /\ Ids \subseteq Nat
  /\ Depth \in Nat /\ MaxMessages \in Nat
  /\ LegacyGroup \in Groups
  /\ DOMAIN Legacy \subseteq Chats
  /\ \A c \in DOMAIN Legacy : Legacy[c] \in Ids
  /\ \A c, d \in DOMAIN Legacy : Legacy[c] = Legacy[d] => c = d

VARIABLES
  group,     \* telegram_chat_id, in the settings
  topics,    \* topics: the topic of each chat
  reversed,  \* _reversed: the chat of each thread id
  last,      \* last_message_id of each topic's record
  lock,      \* who holds the lock of each chat
  queue,     \* jobs of the queue
  pending,   \* chats the bulk sync has still to visit
  op,        \* where each thread is
  disk,      \* content of the file
  alive,     \* topics that exist in Telegram
  made,      \* the chat each topic was made for
  unanswered,  \* topics that were made and not answered with a thread id
  sent,      \* messages of each chat so far
  \* History.
  tried,     \* messages of each chat handed to send_text
  shown,     \* messages to be seen in Telegram
  twice,     \* those to be seen twice in one topic
  calm,      \* no deletion, restart or command yet
  count      \* how much of each bound is used

memory == <<topics, reversed, last>>
telegram == <<alive, made, unanswered>>
history == <<tried, shown, twice>>
vars == <<group, memory, lock, queue, pending, op, disk, telegram, sent, history, calm, count>>

Topics == [group : Groups, id : Ids]

Topic(g, id) == [group |-> g, id |-> id]

Refreshers == Chats

Threads == {"worker", "bulk", "admin"} \cup Refreshers

Messages == 1..MaxMessages

NoRecord == [topic |-> None, last |-> 0]

(* What save_topics writes. *)
FileOf(tps, lst) ==
  [c \in Chats |-> IF tps[c] = None THEN NoRecord ELSE [topic |-> tps[c], last |-> lst[tps[c]]]]

NoTopics == [c \in Chats |-> None]

EmptyFile == [c \in Chats |-> NoRecord]

Idle == [pc |-> "idle", chat |-> None, topic |-> None, group |-> None, batch |-> {}, loaded |-> {},
         next |-> "idle", snap |-> EmptyFile]

At(pc) == [Idle EXCEPT !.pc = pc]

Ready == group # None

LegacyTopics == {Topic(LegacyGroup, Legacy[c]) : c \in DOMAIN Legacy}

ReversedOf(tps) ==
  [i \in Ids |-> IF \E c \in Chats : tps[c] # None /\ tps[c].id = i
                 THEN CHOOSE c \in Chats : tps[c] # None /\ tps[c].id = i
                 ELSE None]

Init ==
  /\ group \in Groups
  /\ topics = NoTopics
  /\ reversed = [i \in Ids |-> None]
  /\ last = [t \in Topics |-> 0]
  /\ lock = [c \in Chats |-> None]
  /\ queue = <<>>
  /\ pending = {}
  /\ op = [a \in Threads |-> Idle]
  /\ disk = EmptyFile
  /\ alive = LegacyTopics
  /\ made = [t \in Topics |-> IF t \in LegacyTopics THEN CHOOSE c \in DOMAIN Legacy : Legacy[c] = t.id ELSE None]
  /\ unanswered = {}
  /\ sent = [c \in Chats |-> 0]
  /\ tried = [c \in Chats |-> {}]
  /\ shown = {}
  /\ twice = {}
  /\ calm = TRUE
  /\ count = [orders |-> 0, failures |-> 0, syncs |-> 0, refreshes |-> 0, deletions |-> 0, commands |-> 0, restarts |-> 0]

-----------------------------------------------------------------------------
(* Thread a goes on at o. *)
Go(a, o) == op' = [op EXCEPT ![a] = o]

(* What thread a, doing o, is about when it goes on at pc. *)
Then(o, pc) == IF pc = "idle" THEN Idle ELSE [o EXCEPT !.pc = pc]

(* save_topics, up to the write: the snapshot of the changed topics. *)
Save(a, o, pc) == Go(a, [o EXCEPT !.pc = "save", !.next = pc, !.snap = FileOf(topics', last')])

(* The write; a write that fails is logged.  Then thread a goes on. *)
WriteTopics(a) ==
  /\ op[a].pc = "save"
  /\ \/ disk' = op[a].snap /\ UNCHANGED count
     \/ /\ count.failures < MaxFailures
        /\ count' = [count EXCEPT !.failures = @ + 1]
        /\ UNCHANGED disk
  /\ Go(a, Then([op[a] EXCEPT !.next = "idle", !.snap = EmptyFile], op[a].next))
  /\ UNCHANGED <<group, memory, lock, queue, pending, telegram, sent, history, calm>>

(* drop_topic unlinks whatever topic the chat has by now. *)
DropTopic(a, o, pc) ==
  IF topics[o.chat] = None
  THEN Go(a, Then(o, pc)) /\ UNCHANGED memory
  ELSE /\ topics' = [topics EXCEPT ![o.chat] = None]
       /\ reversed' = [reversed EXCEPT ![topics[o.chat].id] = None]
       /\ UNCHANGED last
       /\ Save(a, o, pc)

(* send_text: to the thread in the group bound now. *)
SendText(a, o, batch, pc) ==
  LET c == o.chat
      t == Topic(group, o.topic.id)
      seen == {[topic |-> t, chat |-> c, message |-> m] : m \in batch}
  IN
  /\ tried' = [tried EXCEPT ![c] = @ \cup batch]
  /\ \/ /\ ~Ready \/ t \in alive      \* nowhere to send to, or a failure
        /\ Go(a, Then(o, pc))
        /\ UNCHANGED <<memory, shown, twice>>
     \/ /\ Ready /\ t \in alive
        /\ shown' = shown \cup seen
        /\ twice' = twice \cup (shown \cap seen)
        /\ Go(a, Then(o, pc))
        /\ UNCHANGED memory
     \/ /\ Ready /\ t \notin alive    \* message thread not found
        /\ DropTopic(a, o, pc)
        /\ UNCHANGED <<shown, twice>>

(* remember_last_message, for the topic the chat has by now. *)
RememberLastMessage(a, o, batch, pc) ==
  \/ batch = {} /\ Go(a, Then(o, pc)) /\ UNCHANGED memory
  \/ \E newest \in batch :
       /\ \A m \in batch : m <= newest
       /\ IF topics[o.chat] = None \/ last[topics[o.chat]] >= newest
          THEN Go(a, Then(o, pc)) /\ UNCHANGED memory
          ELSE /\ last' = [last EXCEPT ![topics[o.chat]] = newest]
               /\ UNCHANGED <<topics, reversed>>
               /\ Save(a, o, pc)

-----------------------------------------------------------------------------
(* ensure_topic, called by the worker and by the bulk sync. *)

(* The caller is told there is no topic. *)
WithoutTopic(a) == IF a = "bulk" THEN At("next") ELSE Idle

(* The caller is given topic t: the worker delivers what is new in it. *)
WithTopic(a, o, t) ==
  LET fresh == {m \in o.batch : m > last[t]} IN
  CASE a = "bulk" -> At("next")
    [] a # "bulk" /\ fresh = {} -> Idle
    [] OTHER -> [At("send") EXCEPT !.chat = o.chat, !.topic = t, !.batch = fresh]

EnsureTopic(a, o) ==
  Go(a, CASE ~Ready -> WithoutTopic(a)
          [] Ready /\ topics[o.chat] # None -> WithTopic(a, o, topics[o.chat])
          [] OTHER -> [o EXCEPT !.pc = "lock"])

(* Mutant: the topic is not looked up again under the lock. *)
LockTopicUnchecked(a) ==
  LET o == op[a] IN
  /\ o.pc = "lock"
  /\ lock[o.chat] = None
  /\ lock' = [lock EXCEPT ![o.chat] = IF Ready THEN a ELSE @]
  /\ Go(a, IF Ready THEN [o EXCEPT !.pc = "create", !.group = group] ELSE WithoutTopic(a))
  /\ UNCHANGED <<group, memory, queue, pending, disk, telegram, sent, history, calm, count>>

(* The lock, and the second look: the topic may be there by now. *)
LockTopic(a) ==
  LET o == op[a]
      creates == Ready /\ topics[o.chat] = None
  IN
  /\ o.pc = "lock"
  /\ lock[o.chat] = None
  /\ lock' = [lock EXCEPT ![o.chat] = IF creates THEN a ELSE @]
  /\ Go(a, CASE creates -> [o EXCEPT !.pc = "create", !.group = group]
             [] topics[o.chat] # None -> WithTopic(a, o, topics[o.chat])
             [] OTHER -> WithoutTopic(a))
  /\ UNCHANGED <<group, memory, queue, pending, disk, telegram, sent, history, calm, count>>

(* create_forum_topic: Telegram makes topic t for chat c, and counts the     *)
(* thread ids of a group up.                                               *)
Makes(t, c) ==
  /\ \A i \in Ids : made[Topic(t.group, i)] = None <=> i >= t.id
  /\ alive' = alive \cup {t}
  /\ made' = [made EXCEPT ![t] = c]

(* In the group read before; the answer is published.                      *)
CreateTopic(a) ==
  LET o == op[a] IN
  /\ o.pc = "create"
  /\ \E id \in Ids :
       LET t == Topic(o.group, id) IN
       /\ Makes(t, o.chat)
       /\ topics' = [topics EXCEPT ![o.chat] = t]
       /\ reversed' = [reversed EXCEPT ![id] = o.chat]
       /\ UNCHANGED last
       /\ Save(a, [o EXCEPT !.topic = t], "header")
  /\ UNCHANGED <<group, lock, queue, pending, disk, unanswered, sent, history, calm, count>>

(* The call fails, and no topic is made, or it is made and its answer is    *)
(* lost or has no thread id in it: the program knows of none either way.   *)
NoAnswer(o) ==
  \/ UNCHANGED telegram
  \/ \E id \in Ids : /\ Makes(Topic(o.group, id), o.chat)
                     /\ unanswered' = unanswered \cup {Topic(o.group, id)}

(* Mutant: a failed creation keeps the lock. *)
CreationFailsLocked(a) ==
  /\ op[a].pc = "create"
  /\ NoAnswer(op[a])
  /\ Go(a, WithoutTopic(a))
  /\ UNCHANGED <<group, memory, lock, queue, pending, disk, sent, history, calm, count>>

CreationFails(a) ==
  /\ op[a].pc = "create"
  /\ NoAnswer(op[a])
  /\ lock' = [lock EXCEPT ![op[a].chat] = None]
  /\ Go(a, WithoutTopic(a))
  /\ UNCHANGED <<group, memory, queue, pending, disk, sent, history, calm, count>>

SendHeader(a) ==
  /\ op[a].pc = "header"
  /\ SendText(a, op[a], {}, IF Depth = 0 THEN "return" ELSE "load")
  /\ UNCHANGED <<group, lock, queue, pending, disk, telegram, sent, calm, count>>

(* load_history: the last messages of the chat, or none on a failure. *)
LoadHistory(a) ==
  LET o == op[a]
      newest == sent[o.chat]
  IN
  /\ o.pc = "load"
  /\ \E loaded \in {{}, {m \in 1..newest : m > newest - Depth}} :
       Go(a, [o EXCEPT !.pc = IF loaded = {} THEN "return" ELSE "post", !.loaded = loaded])
  /\ UNCHANGED <<group, memory, lock, queue, pending, disk, telegram, sent, history, calm, count>>

PostHistory(a) ==
  /\ op[a].pc = "post"
  /\ SendText(a, op[a], op[a].loaded, "posted")
  /\ UNCHANGED <<group, lock, queue, pending, disk, telegram, sent, calm, count>>

(* Mutant: whatever the chat has by now is taken for posted. *)
RememberEverything(a) ==
  /\ op[a].pc = "posted"
  /\ RememberLastMessage(a, op[a], 1..sent[op[a].chat], "return")
  /\ UNCHANGED <<group, lock, queue, pending, disk, telegram, sent, history, calm, count>>

RememberHistory(a) ==
  /\ op[a].pc = "posted"
  /\ RememberLastMessage(a, op[a], op[a].loaded, "return")
  /\ UNCHANGED <<group, lock, queue, pending, disk, telegram, sent, history, calm, count>>

(* The creator of the topic releases the lock and returns its record. *)
ReturnTopic(a) ==
  LET o == op[a] IN
  /\ o.pc = "return"
  /\ lock' = [lock EXCEPT ![o.chat] = None]
  /\ Go(a, WithTopic(a, o, o.topic))
  /\ UNCHANGED <<group, memory, queue, pending, disk, telegram, sent, history, calm, count>>

-----------------------------------------------------------------------------
(* A buyer writes up to two messages at once: handle_new_message. *)
NewMessages(c, n) ==
  /\ sent[c] + n <= MaxMessages
  /\ sent' = [sent EXCEPT ![c] = @ + n]
  /\ queue' = IF Ready THEN Append(queue, [chat |-> c, batch |-> (sent[c] + 1)..(sent[c] + n)]) ELSE queue
  /\ UNCHANGED <<group, memory, lock, pending, op, disk, telegram, history, calm, count>>

(* handle_new_order: a chat without a topic gets one. *)
NewOrder(c) ==
  /\ Ready
  /\ topics[c] = None
  /\ count.orders < MaxOrders
  /\ count' = [count EXCEPT !.orders = @ + 1]
  /\ queue' = Append(queue, [chat |-> c, batch |-> {}])
  /\ UNCHANGED <<group, memory, lock, pending, op, disk, telegram, sent, history, calm>>

(* The worker takes a job: deliver, or ensure_topic_for_username. *)
TakeJob ==
  /\ op["worker"] = Idle
  /\ queue # <<>>
  /\ queue' = Tail(queue)
  /\ EnsureTopic("worker", [Idle EXCEPT !.chat = Head(queue).chat, !.batch = Head(queue).batch])
  /\ UNCHANGED <<group, memory, lock, pending, disk, telegram, sent, history, calm, count>>

SendFresh ==
  /\ op["worker"].pc = "send"
  /\ SendText("worker", op["worker"], op["worker"].batch, "sent")
  /\ UNCHANGED <<group, lock, queue, pending, disk, telegram, sent, calm, count>>

RememberFresh ==
  /\ op["worker"].pc = "sent"
  /\ RememberLastMessage("worker", op["worker"], op["worker"].batch, "refresh")
  /\ UNCHANGED <<group, lock, queue, pending, disk, telegram, sent, history, calm, count>>

(* schedule_topic_refresh: after an event of an order, one at a time. *)
ScheduleTopicRefresh ==
  LET c == op["worker"].chat IN
  /\ op["worker"].pc = "refresh"
  /\ \/ op' = [op EXCEPT !["worker"] = Idle] /\ UNCHANGED count
     \/ /\ op[c] = Idle
        /\ count.refreshes < MaxRefreshes
        /\ count' = [count EXCEPT !.refreshes = @ + 1]
        /\ op' = [op EXCEPT !["worker"] = Idle, ![c] = [At("start") EXCEPT !.chat = c]]
  /\ UNCHANGED <<group, memory, lock, queue, pending, disk, telegram, sent, history, calm>>

(* Mutant: the record is not looked for. *)
StartRefreshBlindly(c) ==
  /\ op[c].pc = "start"
  /\ Go(c, IF Ready THEN [op[c] EXCEPT !.pc = "edit", !.topic = topics[c], !.group = group] ELSE Idle)
  /\ UNCHANGED <<group, memory, lock, queue, pending, disk, telegram, sent, history, calm, count>>

(* refresh_topic, up to the call; there may be nothing to change. *)
StartRefresh(c) ==
  /\ op[c].pc = "start"
  /\ \/ Go(c, Idle)
     \/ /\ topics[c] # None
        /\ Ready
        /\ Go(c, [op[c] EXCEPT !.pc = "edit", !.topic = topics[c], !.group = group])
  /\ UNCHANGED <<group, memory, lock, queue, pending, disk, telegram, sent, history, calm, count>>

EditTopic(c) ==
  LET t == Topic(op[c].group, op[c].topic.id) IN
  /\ op[c].pc = "edit"
  /\ \/ t \in alive /\ UNCHANGED memory /\ (Save(c, op[c], "stats") \/ Go(c, Idle))
     \/ t \notin alive /\ DropTopic(c, op[c], "idle")
  /\ UNCHANGED <<group, lock, queue, pending, disk, telegram, sent, history, calm, count>>

SendStats(c) ==
  /\ op[c].pc = "stats"
  /\ SendText(c, op[c], {}, "idle")
  /\ UNCHANGED <<group, lock, queue, pending, disk, telegram, sent, calm, count>>

-----------------------------------------------------------------------------
(* run_bulk_sync: one at a time. *)
StartSync ==
  /\ op["bulk"] = Idle
  /\ Ready
  /\ count.syncs < MaxSyncs
  /\ count' = [count EXCEPT !.syncs = @ + 1]
  /\ pending' = {c \in Chats : topics[c] = None}
  /\ Go("bulk", At("next"))
  /\ UNCHANGED <<group, memory, lock, queue, disk, telegram, sent, history, calm>>

NextChat ==
  /\ op["bulk"].pc = "next"
  /\ IF pending = {}
     THEN Go("bulk", Idle) /\ UNCHANGED pending
     ELSE \E c \in pending : pending' = pending \ {c} /\ EnsureTopic("bulk", [Idle EXCEPT !.chat = c])
  /\ UNCHANGED <<group, memory, lock, queue, disk, telegram, sent, history, calm, count>>

-----------------------------------------------------------------------------
Command == op["admin"] = Idle /\ count.commands < MaxCommands
           /\ count' = [count EXCEPT !.commands = @ + 1]

(* /setup_sync_chat: the topics of another group are reset afterwards. *)
SetupSyncChat(g) ==
  /\ Command
  /\ group' = g
  /\ Go("admin", IF Ready /\ group # g THEN At("reset") ELSE Idle)
  /\ calm' = (calm /\ group = g)
  /\ UNCHANGED <<memory, lock, queue, pending, disk, telegram, sent, history>>

(* /delete_sync_chat *)
DeleteSyncChat ==
  /\ Ready
  /\ Command
  /\ group' = None
  /\ Go("admin", At("reset"))
  /\ calm' = FALSE
  /\ UNCHANGED <<memory, lock, queue, pending, disk, telegram, sent, history>>

(* reset_topics, clear_topics *)
ClearTopics ==
  /\ op["admin"].pc = "reset"
  /\ topics' = NoTopics
  /\ reversed' = [i \in Ids |-> None]
  /\ UNCHANGED last
  /\ Save("admin", op["admin"], "idle")
  /\ UNCHANGED <<group, lock, queue, pending, disk, telegram, sent, history, calm, count>>

(* import_legacy reads topics and group, then asks FunPay for usernames. *)
ImportLegacy ==
  /\ DOMAIN Legacy # {}
  /\ Command
  /\ Go("admin", [At("import") EXCEPT !.group = group, !.snap = FileOf(topics, last)])
  /\ UNCHANGED <<group, memory, lock, queue, pending, disk, telegram, sent, history, calm>>

(* build_import_plan, of what was read. *)
PlannedTopics(o) ==
  LET replaces == o.group \notin {None, LegacyGroup}
      kept == [c \in Chats |-> IF replaces THEN None ELSE o.snap[c].topic]
      used == {kept[c].id : c \in {d \in Chats : kept[d] # None}}
  IN [c \in Chats |-> IF kept[c] = None /\ c \in DOMAIN Legacy /\ Legacy[c] \notin used
                      THEN Topic(LegacyGroup, Legacy[c]) ELSE kept[c]]

(* Mutant: the inverse map is not rebuilt. *)
ApplyTopicsOnly ==
  LET planned == PlannedTopics(op["admin"]) IN
  /\ op["admin"].pc = "swap"
  /\ topics' = planned
  /\ UNCHANGED <<reversed, last>>
  /\ Save("admin", op["admin"], "idle")
  /\ UNCHANGED <<group, lock, queue, pending, disk, telegram, sent, history, calm, count>>

(* apply_import: the settings, then the topics. *)
ApplyGroup ==
  /\ op["admin"].pc = "import"
  /\ group' = LegacyGroup
  /\ Go("admin", [op["admin"] EXCEPT !.pc = "swap"])
  /\ calm' = FALSE
  /\ UNCHANGED <<memory, lock, queue, pending, disk, telegram, sent, history, count>>

ApplyTopics ==
  LET planned == PlannedTopics(op["admin"]) IN
  /\ op["admin"].pc = "swap"
  /\ topics' = planned
  /\ reversed' = ReversedOf(planned)
  /\ last' = [t \in Topics |-> IF \E c \in Chats : planned[c] = t /\ op["admin"].snap[c].topic # t
                              THEN 0 ELSE last[t]]
  /\ Save("admin", op["admin"], "idle")
  /\ UNCHANGED <<group, lock, queue, pending, disk, telegram, sent, history, calm, count>>

-----------------------------------------------------------------------------
(* An administrator deletes a topic in Telegram. *)
DeleteTopic(t) ==
  /\ t \in alive
  /\ count.deletions < MaxDeletions
  /\ count' = [count EXCEPT !.deletions = @ + 1]
  /\ alive' = alive \ {t}
  /\ calm' = FALSE
  /\ UNCHANGED <<group, memory, lock, queue, pending, op, disk, made, unanswered, sent, history>>

(* normalize_topics: of the chats that share a thread id one keeps it. *)
Normalized(file) ==
  {tps \in {[c \in Chats |-> IF c \in kept THEN file[c].topic ELSE None] : kept \in SUBSET Chats} :
     /\ \A c, d \in Chats : c # d /\ tps[c] # None /\ tps[d] # None => tps[c].id # tps[d].id
     /\ \A c \in Chats : file[c].topic # None =>
          \E d \in Chats : tps[d] # None /\ tps[d].id = file[c].topic.id}

(* The process ends anywhere, and load reads the file. *)
Restart ==
  /\ count.restarts < MaxRestarts
  /\ count' = [count EXCEPT !.restarts = @ + 1]
  /\ topics' \in Normalized(disk)
  /\ reversed' = ReversedOf(topics')
  /\ last' = [t \in Topics |-> IF \E c \in Chats : topics'[c] = t
                              THEN disk[CHOOSE c \in Chats : topics'[c] = t].last ELSE 0]
  /\ lock' = [c \in Chats |-> None]
  /\ queue' = <<>>
  /\ pending' = {}
  /\ op' = [a \in Threads |-> Idle]
  /\ calm' = FALSE
  /\ UNCHANGED <<group, disk, telegram, sent, history>>

EnsureStep(a) ==
  \/ LockTopic(a) \/ CreateTopic(a) \/ CreationFails(a) \/ SendHeader(a)
  \/ LoadHistory(a) \/ PostHistory(a) \/ RememberHistory(a) \/ ReturnTopic(a)

Worker == TakeJob \/ EnsureStep("worker") \/ SendFresh \/ RememberFresh \/ ScheduleTopicRefresh \/ WriteTopics("worker")

BulkSync == StartSync \/ NextChat \/ EnsureStep("bulk") \/ WriteTopics("bulk")

Refresher(c) == StartRefresh(c) \/ EditTopic(c) \/ SendStats(c) \/ WriteTopics(c)

Administrator ==
  \/ \E g \in Groups : SetupSyncChat(g)
  \/ DeleteSyncChat \/ ClearTopics \/ ImportLegacy \/ ApplyGroup \/ ApplyTopics \/ WriteTopics("admin")

Next ==
  \/ \E c \in Chats : NewOrder(c) \/ \E n \in 1..2 : NewMessages(c, n)
  \/ Worker \/ BulkSync \/ (\E c \in Chats : Refresher(c)) \/ Administrator
  \/ \E t \in Topics : DeleteTopic(t)
  \/ Restart

(* The threads run; nobody has to write, order, sync, or type commands.    *)
Fairness == WF_vars(Worker) /\ WF_vars(NextChat \/ EnsureStep("bulk") \/ WriteTopics("bulk"))

Spec == Init /\ [][Next]_vars /\ Fairness

-----------------------------------------------------------------------------
Files == [Chats -> [topic : Topics \cup {None}, last : 0..MaxMessages]]

FreeSteps == {"idle", "next", "reset", "import", "swap"}

ChatSteps == {"lock", "create", "start"}

TopicSteps == {"header", "load", "post", "posted", "return", "send", "sent", "refresh", "edit", "stats"}

Steps == FreeSteps \cup ChatSteps \cup TopicSteps

Ops == [pc : Steps \cup {"save"}, chat : Chats \cup {None}, topic : Topics \cup {None}, group : Groups \cup {None},
        batch : SUBSET Messages, loaded : SUBSET Messages, next : Steps, snap : Files]

(* What a thread has at hand where it is, or where it goes on. *)
Placed(o) ==
  LET pc == IF o.pc = "save" THEN o.next ELSE o.pc IN
  /\ pc \notin FreeSteps => o.chat \in Chats
  /\ pc \in TopicSteps => o.topic \in Topics
  /\ pc \in {"create", "edit"} => o.group \in Groups

Jobs == [chat : Chats, batch : SUBSET Messages]

(* Types of the variables; a thread has what its place needs.              *)
TypeOK ==
  /\ group \in Groups \cup {None}
  /\ topics \in [Chats -> Topics \cup {None}]
  /\ reversed \in [Ids -> Chats \cup {None}]
  /\ last \in [Topics -> 0..MaxMessages]
  /\ lock \in [Chats -> {"worker", "bulk", None}]
  /\ queue \in Seq(Jobs)
  /\ pending \subseteq Chats
  /\ op \in [Threads -> Ops]
  /\ \A a \in Threads : Placed(op[a])
  /\ disk \in Files
  /\ alive \subseteq Topics
  /\ made \in [Topics -> Chats \cup {None}]
  /\ unanswered \subseteq Topics
  /\ sent \in [Chats -> 0..MaxMessages]
  /\ tried \in [Chats -> SUBSET Messages]
  /\ shown \cup twice \subseteq [topic : Topics, chat : Chats, message : Messages]
  /\ calm \in BOOLEAN

(* "Two FunPay chats must never share one Telegram topic": the topic of a *)
(* chat was made for it, and what administrators write in a topic goes to  *)
(* the buyer it was made for - always, if the chat still has the topic.    *)
EachTopicHasItsBuyer ==
  /\ \A c \in Chats : topics[c] # None => made[topics[c]] = c /\ reversed[topics[c].id] = c
  /\ \A i \in Ids : reversed[i] # None /\ Ready => made[Topic(group, i)] = reversed[i]

(* "Concurrent events cannot create two topics for one chat": as long as   *)
(* no topic is deleted, nothing restarts and no command interferes, a chat  *)
(* has one topic at most beside those Telegram made without the program's   *)
(* learning of it, for a call that failed or an answer without a thread id. *)
OneTopicPerChat ==
  calm => \A c \in Chats : \A t, u \in alive \ (LegacyTopics \cup unanswered) :
            made[t] = c /\ made[u] = c => t = u

(* A message whose job is still to come is taken for mirrored only if it   *)
(* was handed to Telegram with the history, or Depth messages came after   *)
(* it, so that a history that is posted no longer reaches back to it.      *)
SkippedMeansTried ==
  \A i \in 1..Len(queue) :
    LET c == queue[i].chat IN
    topics[c] # None => \A m \in queue[i].batch :
      m <= last[topics[c]] => m \in tried[c] \/ (Depth > 0 /\ m <= sent[c] - Depth)

(* The job of message m of chat c is queued or in the worker's hands. *)
InProgress(c, m) ==
  \/ \E i \in 1..Len(queue) : queue[i].chat = c /\ m \in queue[i].batch
  \/ op["worker"].chat = c /\ m \in op["worker"].batch

(* Every job ends: no lock is kept, whatever fails, and however the worker *)
(* and the bulk sync meet.                                                 *)
JobsEnd == \A c \in Chats : \A m \in Messages : InProgress(c, m) ~> ~InProgress(c, m)

(* "Topic ... is gone, unlinked": a topic is unlinked only if it is gone.  *)
UnlinkedTopicIsGone ==
  [][\A c \in Chats :
       topics[c] # None /\ topics'[c] = None /\ count'.restarts = count.restarts /\ count.commands = 0
         => topics[c] \notin alive]_vars

(* "Backfilled messages are not delivered twice". *)
MirroredOnce == twice = {}
=============================================================================
