------------------------ MODULE ChatSyncTopicsProofs ------------------------
(***************************************************************************)
(* Proofs about the topics of Chat Sync, for any chats, threads and bounds. *)
(***************************************************************************)
EXTENDS ChatSyncTopics, SequenceTheorems, TLAPS

(* A thread's place, well formed. *)
Good(o) == o \in Ops /\ Placed(o)

(* Thread data o suits step pc. *)
Fits(o, pc) ==
  /\ o \in Ops /\ pc \in Steps
  /\ pc \notin FreeSteps => o.chat \in Chats
  /\ pc \in TopicSteps => o.topic \in Topics
  /\ pc \in {"create", "edit"} => o.group \in Groups

OpsOK == op \in [Threads -> Ops] /\ \A a \in Threads : Placed(op[a])

MemoryOK ==
  /\ topics \in [Chats -> Topics \cup {None}]
  /\ reversed \in [Ids -> Chats \cup {None}]
  /\ last \in [Topics -> 0..MaxMessages]

HistoryOK ==
  /\ tried \in [Chats -> SUBSET Messages]
  /\ shown \cup twice \subseteq [topic : Topics, chat : Chats, message : Messages]

(* An idle thread, and one between two chats or two commands. *)
LEMMA IdleType == Good(Idle) /\ \A pc \in FreeSteps : Good(At(pc))
<1>1. EmptyFile \in Files
  BY TopicsAssumption DEF EmptyFile, Files, NoRecord
<1>2. Idle \in Ops
  BY <1>1 DEF Idle, Ops, Steps, FreeSteps
<1>3. \A pc \in FreeSteps : At(pc) \in Ops /\ At(pc).pc = pc
  BY <1>2 DEF At, Ops, Steps
<1>4. "save" \notin FreeSteps /\ FreeSteps \cap TopicSteps = {} /\ FreeSteps \cap {"create", "edit"} = {}
  BY DEF FreeSteps, TopicSteps
<1>5. \A pc \in FreeSteps : Placed(At(pc))
  BY <1>3, <1>4 DEF Placed
<1>6. Idle.pc \in FreeSteps
  BY DEF Idle, FreeSteps
<1>7. Placed(Idle)
  BY <1>4, <1>6 DEF Placed
<1> QED
  BY <1>2, <1>3, <1>5, <1>7 DEF Good

(* Going on where the data suits it. *)
LEMMA ThenType ==
  ASSUME NEW o, NEW pc, Fits(o, pc)
  PROVE  Good(Then(o, pc))
<1>1. CASE pc = "idle"
  BY <1>1, IdleType DEF Then
<1>2. CASE pc # "idle"
  <2> DEFINE n == [o EXCEPT !.pc = pc]
  <2>1. n \in Ops /\ n.pc = pc /\ n.chat = o.chat /\ n.topic = o.topic /\ n.group = o.group /\ pc # "save"
    BY DEF Fits, Ops, Steps, FreeSteps, ChatSteps, TopicSteps
  <2>2. Placed(n)
    BY <2>1 DEF Placed, Fits
  <2> QED
    BY <1>2, <2>1, <2>2 DEF Then, Good
<1> QED
  BY <1>1, <1>2

(* A thread that goes on in good shape. *)
LEMMA GoType ==
  ASSUME OpsOK, NEW a \in Threads, NEW o, Good(o), Go(a, o)
  PROVE  OpsOK'
BY DEF OpsOK, Go, Good

(* What is written is a file. *)
LEMMA FileType ==
  ASSUME NEW tps \in [Chats -> Topics \cup {None}], NEW lst \in [Topics -> 0..MaxMessages]
  PROVE  FileOf(tps, lst) \in Files
<1>1. NoRecord \in [topic : Topics \cup {None}, last : 0..MaxMessages]
  BY TopicsAssumption DEF NoRecord
<1>2. \A c \in Chats : tps[c] # None =>
        [topic |-> tps[c], last |-> lst[tps[c]]] \in [topic : Topics \cup {None}, last : 0..MaxMessages]
  OBVIOUS
<1> QED
  BY <1>1, <1>2 DEF FileOf, Files

(* A thread that is about to write. *)
LEMMA SaveType ==
  ASSUME OpsOK, MemoryOK', NEW a \in Threads, NEW o, NEW pc, Fits(o, pc), Save(a, o, pc)
  PROVE  OpsOK'
<1> DEFINE n == [o EXCEPT !.pc = "save", !.next = pc, !.snap = FileOf(topics', last')]
<1>1. FileOf(topics', last') \in Files
  BY FileType DEF MemoryOK
<1>2. n \in Ops
  BY <1>1 DEF Fits, Ops
<1>3. n.pc = "save" /\ n.next = pc /\ n.chat = o.chat /\ n.topic = o.topic /\ n.group = o.group
  BY DEF Fits, Ops
<1>4. Placed(n)
  BY <1>3 DEF Placed, Fits
<1> QED
  BY <1>2, <1>4, GoType DEF Save, Good

(* drop_topic *)
LEMMA DropType ==
  ASSUME OpsOK, MemoryOK, NEW a \in Threads, NEW o, NEW pc, Fits(o, pc), o.chat \in Chats, DropTopic(a, o, pc)
  PROVE  OpsOK' /\ MemoryOK'
<1>1. CASE topics[o.chat] = None
  <2>1. MemoryOK'
    BY <1>1 DEF DropTopic, memory, MemoryOK
  <2> QED
    BY <1>1, <2>1, ThenType, GoType DEF DropTopic
<1>2. CASE topics[o.chat] # None
  <2>1. MemoryOK'
    BY <1>2 DEF DropTopic, MemoryOK
  <2> QED
    BY <1>2, <2>1, SaveType DEF DropTopic
<1> QED
  BY <1>1, <1>2

(* send_text *)
LEMMA SendTextType ==
  ASSUME OpsOK, MemoryOK, HistoryOK, group \in Groups \cup {None},
         NEW a \in Threads, NEW o, NEW batch \in SUBSET Messages, NEW pc, Fits(o, pc),
         o.chat \in Chats, o.topic \in Topics, SendText(a, o, batch, pc)
  PROVE  OpsOK' /\ MemoryOK' /\ HistoryOK'
<1> DEFINE t == Topic(group, o.topic.id)
           seen == {[topic |-> t, chat |-> o.chat, message |-> m] : m \in batch}
<1>1. tried' \in [Chats -> SUBSET Messages]
  BY DEF SendText, HistoryOK
<1>2. CASE Go(a, Then(o, pc)) /\ UNCHANGED <<memory, shown, twice>>
  <2>1. OpsOK'
    BY <1>2, ThenType, GoType
  <2> QED
    BY <1>1, <1>2, <2>1 DEF memory, MemoryOK, HistoryOK
<1>3. CASE Ready /\ shown' = shown \cup seen /\ twice' = twice \cup (shown \cap seen)
           /\ Go(a, Then(o, pc)) /\ UNCHANGED memory
  <2>1. OpsOK'
    BY <1>3, ThenType, GoType
  <2>2. t \in Topics
    BY <1>3 DEF Ready, Topic, Topics
  <2>3. seen \subseteq [topic : Topics, chat : Chats, message : Messages]
    BY <2>2
  <2> QED
    BY <1>1, <1>3, <2>1, <2>3 DEF memory, MemoryOK, HistoryOK
<1>4. CASE DropTopic(a, o, pc) /\ UNCHANGED <<shown, twice>>
  BY <1>1, <1>4, DropType DEF HistoryOK
<1> QED
  BY <1>2, <1>3, <1>4 DEF SendText

(* remember_last_message *)
LEMMA RememberType ==
  ASSUME OpsOK, MemoryOK, NEW a \in Threads, NEW o, NEW batch \in SUBSET Messages, NEW pc, Fits(o, pc),
         o.chat \in Chats, RememberLastMessage(a, o, batch, pc)
  PROVE  OpsOK' /\ MemoryOK'
<1>1. CASE Go(a, Then(o, pc)) /\ UNCHANGED memory
  <2>1. MemoryOK'
    BY <1>1 DEF memory, MemoryOK
  <2> QED
    BY <1>1, <2>1, ThenType, GoType
<1>2. ASSUME NEW newest \in batch, topics[o.chat] # None,
             last' = [last EXCEPT ![topics[o.chat]] = newest], UNCHANGED <<topics, reversed>>, Save(a, o, pc)
      PROVE  OpsOK' /\ MemoryOK'
  <2>1. newest \in 0..MaxMessages
    BY <1>2, TopicsAssumption DEF Messages
  <2>2. MemoryOK'
    BY <1>2, <2>1 DEF MemoryOK
  <2> QED
    BY <1>2, <2>2, SaveType
<1> QED
  BY <1>1, <1>2 DEF RememberLastMessage

(* What a caller of ensure_topic does next. *)
LEMMA WithTopicType ==
  ASSUME MemoryOK, NEW a \in Threads, NEW o \in Ops, o.chat \in Chats, NEW t \in Topics
  PROVE  Good(WithTopic(a, o, t)) /\ Good(WithoutTopic(a))
<1>1. Good(At("next")) /\ Good(Idle)
  BY IdleType DEF FreeSteps
<1> DEFINE fresh == {m \in o.batch : m > last[t]}
           n == [At("send") EXCEPT !.chat = o.chat, !.topic = t, !.batch = fresh]
<1>2. n \in Ops /\ n.pc = "send" /\ n.chat = o.chat /\ n.topic = t
  BY <1>1, ZenonT(60) DEF At, Good, Ops, Idle, Steps, TopicSteps
<1>3. Good(n)
  BY <1>2 DEF Good, Placed
<1>4. WithTopic(a, o, t) \in {At("next"), Idle, n}
  BY DEF WithTopic
<1> QED
  BY <1>1, <1>3, <1>4 DEF WithoutTopic

(* The parts of TypeOK. *)
LEMMA TypeParts == TypeOK <=>
  /\ OpsOK /\ MemoryOK /\ HistoryOK
  /\ group \in Groups \cup {None} /\ lock \in [Chats -> {"worker", "bulk", None}]
  /\ queue \in Seq(Jobs) /\ pending \subseteq Chats /\ disk \in Files
  /\ alive \subseteq Topics /\ made \in [Topics -> Chats \cup {None}] /\ unanswered \subseteq Topics
  /\ sent \in [Chats -> 0..MaxMessages] /\ calm \in BOOLEAN
BY DEF TypeOK, OpsOK, MemoryOK, HistoryOK

(* Where a thread is tells what it has at hand. *)
LEMMA AtPlace ==
  ASSUME OpsOK, NEW a \in Threads
  PROVE  /\ op[a] \in Ops
         /\ op[a].pc \in ChatSteps \cup TopicSteps => op[a].chat \in Chats
         /\ op[a].pc \in TopicSteps => op[a].topic \in Topics
         /\ op[a].pc \in {"create", "edit"} => op[a].group \in Groups
         /\ op[a].pc = "save" => Fits(op[a], op[a].next)
BY DEF OpsOK, Placed, Fits, Ops, Steps, FreeSteps, ChatSteps, TopicSteps

(* A thread that keeps what it has may go on at any step it suits.         *)
LEMMA FitsHere ==
  ASSUME OpsOK, NEW a \in Threads, op[a].pc \in TopicSteps, NEW pc \in Steps \ {"create", "edit"}
  PROVE  Fits(op[a], pc)
BY AtPlace DEF Fits, TopicSteps

(* A topic in the making is new, and no other topic changes hands. *)
LEMMA MakesNew ==
  ASSUME TypeOK, NEW g \in Groups, NEW id \in Ids, NEW c \in Chats, Makes(Topic(g, id), c)
  PROVE  /\ Topic(g, id) \in Topics /\ made[Topic(g, id)] = None /\ made'[Topic(g, id)] = c
         /\ alive' = alive \cup {Topic(g, id)} /\ alive' \subseteq Topics
         /\ made' \in [Topics -> Chats \cup {None}]
         /\ \A u \in Topics : u # Topic(g, id) => made'[u] = made[u]
         /\ \A i \in Ids : made[Topic(g, i)] = None <=> i >= id
<1>1. Topic(g, id) \in Topics /\ Topic(g, id).id = id /\ Topic(g, id).group = g
  BY DEF Topic, Topics
<1>2. /\ \A i \in Ids : made[Topic(g, i)] = None <=> i >= id
      /\ alive' = alive \cup {Topic(g, id)} /\ made' = [made EXCEPT ![Topic(g, id)] = c]
  BY <1>1 DEF Makes
<1>3. id >= id
  BY TopicsAssumption
<1> QED
  BY <1>1, <1>2, <1>3, TypeParts

(* A creation without an answer: no topic, or one more that nothing names. *)
LEMMA NoAnswerType ==
  ASSUME TypeOK, NEW o, o.group \in Groups, o.chat \in Chats, NoAnswer(o)
  PROVE  /\ alive \subseteq alive' /\ alive' \subseteq Topics /\ unanswered \subseteq unanswered'
         /\ unanswered' \subseteq Topics /\ made' \in [Topics -> Chats \cup {None}]
         /\ \A u \in Topics : made[u] # None => made'[u] = made[u]
         /\ \A u \in alive' \ unanswered' : u \in alive \ unanswered /\ made'[u] = made[u]
<1>1. alive \subseteq Topics /\ unanswered \subseteq Topics /\ made \in [Topics -> Chats \cup {None}]
  BY TypeParts
<1>2. CASE UNCHANGED telegram
  BY <1>1, <1>2 DEF telegram
<1>3. CASE \E id \in Ids : /\ Makes(Topic(o.group, id), o.chat)
                           /\ unanswered' = unanswered \cup {Topic(o.group, id)}
  <2>1. PICK id \in Ids : /\ Makes(Topic(o.group, id), o.chat)
                          /\ unanswered' = unanswered \cup {Topic(o.group, id)}
    BY <1>3
  <2> QED
    BY <1>1, <2>1, MakesNew
<1> QED
  BY <1>2, <1>3 DEF NoAnswer

(* The steps of ensure_topic. *)
LEMMA EnsureType ==
  ASSUME TypeOK, NEW a \in {"worker", "bulk"}, EnsureStep(a)
  PROVE  TypeOK'
<1> DEFINE o == op[a]
<1>1. /\ OpsOK /\ MemoryOK /\ HistoryOK /\ a \in Threads
      /\ group \in Groups \cup {None} /\ lock \in [Chats -> {"worker", "bulk", None}]
      /\ made \in [Topics -> Chats \cup {None}] /\ alive \subseteq Topics /\ sent \in [Chats -> 0..MaxMessages]
  BY TypeParts DEF Threads
<1>2. /\ o \in Ops
      /\ o.pc \in ChatSteps \cup TopicSteps => o.chat \in Chats
      /\ o.pc \in TopicSteps => o.topic \in Topics
      /\ o.pc = "create" => o.group \in Groups
  BY <1>1, AtPlace
<1>3. o.pc \in TopicSteps => \A pc \in Steps \ {"create", "edit"} : Fits(o, pc)
  BY <1>1, FitsHere
<1> HIDE DEF o
<1>4. CASE LockTopic(a)
  <2>1. o.pc = "lock" /\ o.chat \in Chats
    BY <1>2, <1>4 DEF LockTopic, ChatSteps, o
  <2>2. topics[o.chat] # None => topics[o.chat] \in Topics
    BY <1>1, <2>1 DEF MemoryOK
  <2>3. topics[o.chat] # None => Good(WithTopic(a, o, topics[o.chat]))
    BY <1>1, <1>2, <2>1, <2>2, WithTopicType
  <2>4. Good(WithoutTopic(a))
    BY IdleType DEF WithoutTopic, FreeSteps
  <2>5. Ready => Good([o EXCEPT !.pc = "create", !.group = group])
    <3> DEFINE n == [o EXCEPT !.pc = "create", !.group = group]
    <3>1. n \in Ops /\ n.pc = "create" /\ n.chat = o.chat /\ n.group = group
      BY <1>1, <1>2 DEF Ops, Steps, ChatSteps
    <3> QED
      BY <1>1, <2>1, <3>1 DEF Good, Placed, Ready, TopicSteps
  <2>6. PICK n : Good(n) /\ Go(a, n)
    BY <1>4, <2>3, <2>4, <2>5 DEF LockTopic, o
  <2>7. OpsOK'
    BY <1>1, <2>6, GoType
  <2>8. lock' \in [Chats -> {"worker", "bulk", None}]
    BY <1>1, <1>4 DEF LockTopic
  <2> QED
    BY <1>4, <2>7, <2>8, TypeParts DEF LockTopic, TypeOK, memory, telegram, history, MemoryOK, HistoryOK, OpsOK
<1>5. CASE CreateTopic(a)
  <2>1. o.pc = "create" /\ o.chat \in Chats /\ o.group \in Groups
    BY <1>2, <1>5 DEF CreateTopic, ChatSteps, o
  <2>2. PICK id \in Ids :
          /\ alive' = alive \cup {Topic(o.group, id)}
          /\ made' = [made EXCEPT ![Topic(o.group, id)] = o.chat]
          /\ topics' = [topics EXCEPT ![o.chat] = Topic(o.group, id)]
          /\ reversed' = [reversed EXCEPT ![id] = o.chat]
          /\ UNCHANGED last
          /\ Save(a, [o EXCEPT !.topic = Topic(o.group, id)], "header")
    BY <1>5 DEF CreateTopic, Makes, o
  <2>3. Topic(o.group, id) \in Topics
    BY <2>1 DEF Topic, Topics
  <2>4. MemoryOK' /\ alive' \subseteq Topics /\ made' \in [Topics -> Chats \cup {None}]
    BY <1>1, <2>1, <2>2, <2>3 DEF MemoryOK
  <2>5. Fits([o EXCEPT !.topic = Topic(o.group, id)], "header")
    BY <1>2, <2>1, <2>3 DEF Fits, Ops, Steps, TopicSteps
  <2>6. OpsOK'
    BY <1>1, <2>2, <2>4, <2>5, SaveType
  <2> QED
    BY <1>5, <2>4, <2>6, TypeParts DEF CreateTopic, TypeOK, history, MemoryOK, HistoryOK, OpsOK
<1>6. CASE CreationFails(a)
  <2>1. OpsOK'
    BY <1>1, <1>6, IdleType, GoType DEF CreationFails, WithoutTopic, FreeSteps
  <2>2. lock' \in [Chats -> {"worker", "bulk", None}]
    BY <1>1, <1>6 DEF CreationFails
  <2>3. alive' \subseteq Topics /\ unanswered' \subseteq Topics /\ made' \in [Topics -> Chats \cup {None}]
    BY <1>2, <1>6, NoAnswerType DEF CreationFails, ChatSteps, o
  <2> QED
    BY <1>6, <2>1, <2>2, <2>3, TypeParts DEF CreationFails, TypeOK, memory, history, MemoryOK, HistoryOK, OpsOK
<1>7. CASE SendHeader(a)
  <2>1. o.pc \in TopicSteps /\ "return" \in Steps \ {"create", "edit"} /\ "load" \in Steps \ {"create", "edit"}
    BY <1>7 DEF SendHeader, TopicSteps, Steps, o
  <2>2. OpsOK' /\ MemoryOK' /\ HistoryOK'
    <3> DEFINE pc == IF Depth = 0 THEN "return" ELSE "load"
    <3>1. Fits(o, pc) /\ SendText(a, o, {}, pc)
      BY <1>3, <1>7, <2>1 DEF SendHeader, o
    <3> HIDE DEF pc
    <3> QED
      BY <1>1, <1>2, <2>1, <3>1, SendTextType
  <2> QED
    BY <1>7, <2>2, TypeParts DEF SendHeader, TypeOK, telegram, MemoryOK, HistoryOK, OpsOK
<1>8. CASE LoadHistory(a)
  <2>1. o.pc = "load" /\ o.chat \in Chats /\ o.topic \in Topics
    BY <1>2, <1>8 DEF LoadHistory, TopicSteps, o
  <2>2. PICK loaded \in {{}, {m \in 1..sent[o.chat] : m > sent[o.chat] - Depth}} :
          Go(a, [o EXCEPT !.pc = IF loaded = {} THEN "return" ELSE "post", !.loaded = loaded])
    BY <1>8 DEF LoadHistory, o
  <2>3. loaded \in SUBSET Messages
    BY <1>1, <2>1, TopicsAssumption DEF Messages
  <2>4. Good([o EXCEPT !.pc = IF loaded = {} THEN "return" ELSE "post", !.loaded = loaded])
    <3> DEFINE pc == IF loaded = {} THEN "return" ELSE "post"
               n == [o EXCEPT !.pc = pc, !.loaded = loaded]
    <3>1. pc \in {"return", "post"}
      OBVIOUS
    <3> HIDE DEF pc
    <3>2. n \in Ops
      BY <1>2, <2>3, <3>1 DEF Ops, Steps, TopicSteps
    <3>3. n.pc = pc /\ n.chat = o.chat /\ n.topic = o.topic
      BY <1>2 DEF Ops
    <3>4. Good(n)
      BY <2>1, <3>1, <3>2, <3>3 DEF Good, Placed
    <3> QED
      BY <3>4 DEF pc
  <2>5. OpsOK'
    BY <1>1, <2>2, <2>4, GoType
  <2> QED
    BY <1>8, <2>5, TypeParts DEF LoadHistory, TypeOK, memory, telegram, history, MemoryOK, HistoryOK, OpsOK
<1>9. CASE PostHistory(a)
  <2>1. o.pc \in TopicSteps /\ "posted" \in Steps \ {"create", "edit"} /\ o.loaded \in SUBSET Messages
    BY <1>2, <1>9 DEF PostHistory, TopicSteps, Steps, Ops, o
  <2>2. OpsOK' /\ MemoryOK' /\ HistoryOK'
    BY <1>1, <1>2, <1>3, <1>9, <2>1, SendTextType DEF PostHistory, o
  <2> QED
    BY <1>9, <2>2, TypeParts DEF PostHistory, TypeOK, telegram, MemoryOK, HistoryOK, OpsOK
<1>10. CASE RememberHistory(a)
  <2>1. o.pc \in TopicSteps /\ "return" \in Steps \ {"create", "edit"} /\ o.loaded \in SUBSET Messages
    BY <1>2, <1>10 DEF RememberHistory, TopicSteps, Steps, Ops, o
  <2>2. OpsOK' /\ MemoryOK'
    BY <1>1, <1>2, <1>3, <1>10, <2>1, RememberType DEF RememberHistory, o
  <2> QED
    BY <1>10, <2>2, TypeParts DEF RememberHistory, TypeOK, telegram, history, MemoryOK, HistoryOK, OpsOK
<1>11. CASE ReturnTopic(a)
  <2>1. o.chat \in Chats /\ o.topic \in Topics
    BY <1>2, <1>11 DEF ReturnTopic, TopicSteps, o
  <2>2. OpsOK'
    BY <1>1, <1>2, <1>11, <2>1, WithTopicType, GoType DEF ReturnTopic, o
  <2>3. lock' \in [Chats -> {"worker", "bulk", None}]
    BY <1>1, <1>11 DEF ReturnTopic
  <2> QED
    BY <1>11, <2>2, <2>3, TypeParts DEF ReturnTopic, TypeOK, memory, telegram, history, MemoryOK, HistoryOK, OpsOK
<1> QED
  BY <1>4, <1>5, <1>6, <1>7, <1>8, <1>9, <1>10, <1>11 DEF EnsureStep

(* A write, of whichever thread. *)
LEMMA WriteType ==
  ASSUME TypeOK, NEW a \in Threads, WriteTopics(a)
  PROVE  TypeOK'
<1> DEFINE o == [op[a] EXCEPT !.next = "idle", !.snap = EmptyFile]
<1>1. /\ OpsOK /\ op[a] \in Ops /\ op[a].pc = "save" /\ Fits(op[a], op[a].next) /\ disk \in Files
  BY TypeParts, AtPlace DEF WriteTopics
<1>2. EmptyFile \in Files
  BY TopicsAssumption DEF EmptyFile, Files, NoRecord
<1>3. o \in Ops /\ o.chat = op[a].chat /\ o.topic = op[a].topic /\ o.group = op[a].group
  BY <1>1, <1>2 DEF Ops, Steps, FreeSteps
<1>4. Fits(o, op[a].next)
  BY <1>1, <1>3 DEF Fits
<1>5. OpsOK'
  BY <1>1, <1>4, ThenType, GoType DEF WriteTopics
<1>6. disk' \in Files
  BY <1>1 DEF WriteTopics, Ops
<1> QED
  BY <1>5, <1>6, TypeParts DEF WriteTopics, TypeOK, memory, telegram, history, MemoryOK, HistoryOK, OpsOK

(* What buyers do. *)
LEMMA BuyerType ==
  ASSUME TypeOK, NEW c \in Chats, NewOrder(c) \/ \E n \in 1..2 : NewMessages(c, n)
  PROVE  TypeOK'
<1>1. queue \in Seq(Jobs) /\ sent \in [Chats -> 0..MaxMessages] /\ MaxMessages \in Nat
  BY TypeParts, TopicsAssumption
<1>2. CASE NewOrder(c)
  <2>1. [chat |-> c, batch |-> {}] \in Jobs
    BY DEF Jobs
  <2>2. queue' \in Seq(Jobs)
    BY <1>1, <1>2, <2>1 DEF NewOrder
  <2> QED
    BY <1>2, <2>2, TypeParts DEF NewOrder, TypeOK, memory, telegram, history, MemoryOK, HistoryOK, OpsOK
<1>3. ASSUME NEW n \in 1..2, NewMessages(c, n)
      PROVE  TypeOK'
  <2>1. sent[c] \in 0..MaxMessages /\ sent[c] + n \in 0..MaxMessages
    BY <1>1, <1>3 DEF NewMessages
  <2>2. sent' \in [Chats -> 0..MaxMessages]
    BY <1>1, <1>3, <2>1 DEF NewMessages
  <2>3. [chat |-> c, batch |-> (sent[c] + 1)..(sent[c] + n)] \in Jobs
    <3>1. (sent[c] + 1)..(sent[c] + n) \subseteq Messages
      BY <1>1, <2>1 DEF Messages
    <3> QED
      BY <3>1 DEF Jobs
  <2>4. queue' \in Seq(Jobs)
    BY <1>1, <1>3, <2>3 DEF NewMessages
  <2> QED
    BY <1>3, <2>2, <2>4, TypeParts DEF NewMessages, TypeOK, memory, telegram, history, MemoryOK, HistoryOK, OpsOK
<1> QED
  BY <1>2, <1>3

(* ensure_topic, up to the lock. *)
LEMMA EnsureTopicType ==
  ASSUME OpsOK, MemoryOK, NEW a \in Threads, NEW o \in Ops, o.chat \in Chats, EnsureTopic(a, o)
  PROVE  OpsOK'
<1>1. topics[o.chat] # None => Good(WithTopic(a, o, topics[o.chat]))
  BY WithTopicType DEF MemoryOK
<1>2. Good(WithoutTopic(a))
  BY IdleType DEF WithoutTopic, FreeSteps
<1>3. Good([o EXCEPT !.pc = "lock"])
  <2> DEFINE n == [o EXCEPT !.pc = "lock"]
  <2>1. n \in Ops /\ n.pc = "lock" /\ n.chat = o.chat
    BY DEF Ops, Steps, ChatSteps
  <2> QED
    BY <2>1 DEF Good, Placed, TopicSteps
<1>4. PICK n : Good(n) /\ Go(a, n)
  BY <1>1, <1>2, <1>3 DEF EnsureTopic
<1> QED
  BY <1>4, GoType

(* The worker, outside ensure_topic. *)
LEMMA WorkerType ==
  ASSUME TypeOK, TakeJob \/ SendFresh \/ RememberFresh \/ ScheduleTopicRefresh
  PROVE  TypeOK'
<1> DEFINE w == op["worker"]
<1>1. /\ OpsOK /\ MemoryOK /\ HistoryOK /\ group \in Groups \cup {None}
      /\ queue \in Seq(Jobs) /\ "worker" \in Threads
  BY TypeParts DEF Threads
<1>2. /\ w \in Ops /\ w.batch \in SUBSET Messages
      /\ w.pc \in TopicSteps => w.chat \in Chats /\ w.topic \in Topics
      /\ w.pc \in TopicSteps => \A pc \in Steps \ {"create", "edit"} : Fits(w, pc)
  BY <1>1, AtPlace, FitsHere DEF Ops
<1> HIDE DEF w
<1>3. CASE TakeJob
  <2> DEFINE o == [Idle EXCEPT !.chat = Head(queue).chat, !.batch = Head(queue).batch]
  <2>1. queue # <<>> /\ queue' = Tail(queue) /\ EnsureTopic("worker", o)
    BY <1>3 DEF TakeJob
  <2>2. Head(queue) \in Jobs /\ queue' \in Seq(Jobs)
    BY <1>1, <2>1
  <2>3. Idle \in Ops
    BY IdleType DEF Good
  <2>4. o \in Ops /\ o.chat \in Chats
    BY <2>2, <2>3 DEF Jobs, Ops, Idle
  <2>5. OpsOK'
    BY <1>1, <2>1, <2>4, EnsureTopicType
  <2> QED
    BY <1>3, <2>2, <2>5, TypeParts DEF TakeJob, TypeOK, memory, telegram, history, MemoryOK, HistoryOK, OpsOK
<1>4. CASE SendFresh
  <2>1. w.pc \in TopicSteps /\ "sent" \in Steps \ {"create", "edit"}
    BY <1>4 DEF SendFresh, TopicSteps, Steps, w
  <2>2. SendText("worker", w, w.batch, "sent")
    BY <1>4 DEF SendFresh, w
  <2>3. OpsOK' /\ MemoryOK' /\ HistoryOK'
    BY <1>1, <1>2, <2>1, <2>2, SendTextType
  <2> QED
    BY <1>4, <2>3, TypeParts DEF SendFresh, TypeOK, telegram, MemoryOK, HistoryOK, OpsOK
<1>5. CASE RememberFresh
  <2>1. w.pc \in TopicSteps /\ "refresh" \in Steps \ {"create", "edit"}
    BY <1>5 DEF RememberFresh, TopicSteps, Steps, w
  <2>2. RememberLastMessage("worker", w, w.batch, "refresh")
    BY <1>5 DEF RememberFresh, w
  <2>3. OpsOK' /\ MemoryOK'
    BY <1>1, <1>2, <2>1, <2>2, RememberType
  <2> QED
    BY <1>5, <2>3, TypeParts DEF RememberFresh, TypeOK, telegram, history, MemoryOK, HistoryOK, OpsOK
<1>6. CASE ScheduleTopicRefresh
  <2> DEFINE c == w.chat
             r == [At("start") EXCEPT !.chat = c]
  <2>1. c \in Chats /\ c \in Threads
    BY <1>2, <1>6 DEF ScheduleTopicRefresh, TopicSteps, Threads, Refreshers, w
  <2>2. Good(Idle)
    BY IdleType
  <2>3. r \in Ops /\ r.pc = "start" /\ r.chat = c
    BY <2>1, <2>2 DEF Good, Ops, At, Idle, Steps, ChatSteps
  <2>4. Good(r)
    BY <2>1, <2>3 DEF Good, Placed, TopicSteps
  <2>5. \/ op' = [op EXCEPT !["worker"] = Idle]
        \/ op' = [op EXCEPT !["worker"] = Idle, ![c] = r]
    BY <1>6 DEF ScheduleTopicRefresh, w
  <2> HIDE DEF r, c
  <2>6. OpsOK'
    BY <1>1, <2>1, <2>2, <2>4, <2>5 DEF OpsOK, Good
  <2> QED
    BY <1>6, <2>6, TypeParts DEF ScheduleTopicRefresh, TypeOK, memory, telegram, history, MemoryOK, HistoryOK, OpsOK
<1> QED
  BY <1>3, <1>4, <1>5, <1>6

(* The inverse map of any topics. *)
LEMMA ReversedType ==
  ASSUME NEW tps
  PROVE  ReversedOf(tps) \in [Ids -> Chats \cup {None}]
<1>1. \A i \in Ids : (\E c \in Chats : tps[c] # None /\ tps[c].id = i) =>
        (CHOOSE c \in Chats : tps[c] # None /\ tps[c].id = i) \in Chats
  OBVIOUS
<1> QED
  BY <1>1 DEF ReversedOf

(* A refresher. *)
LEMMA RefresherType ==
  ASSUME TypeOK, NEW c \in Chats, StartRefresh(c) \/ EditTopic(c) \/ SendStats(c)
  PROVE  TypeOK'
<1> DEFINE o == op[c]
<1>1. /\ OpsOK /\ MemoryOK /\ HistoryOK /\ group \in Groups \cup {None} /\ c \in Threads
  BY TypeParts DEF Threads, Refreshers
<1>2. /\ o \in Ops
      /\ o.pc \in ChatSteps \cup TopicSteps => o.chat \in Chats
      /\ o.pc \in TopicSteps => o.topic \in Topics /\ \A pc \in Steps \ {"create", "edit"} : Fits(o, pc)
  BY <1>1, AtPlace, FitsHere
<1>3. Good(Idle)
  BY IdleType
<1> HIDE DEF o
<1>4. CASE StartRefresh(c)
  <2>1. o.pc = "start" /\ o.chat \in Chats
    BY <1>2, <1>4 DEF StartRefresh, ChatSteps, o
  <2>2. CASE Go(c, Idle)
    <3>1. OpsOK'
      BY <1>1, <1>3, <2>2, GoType
    <3> QED
      BY <1>4, <3>1, TypeParts DEF StartRefresh, TypeOK, memory, telegram, history, MemoryOK, HistoryOK, OpsOK
  <2>3. CASE topics[c] # None /\ Ready /\ Go(c, [o EXCEPT !.pc = "edit", !.topic = topics[c], !.group = group])
    <3> DEFINE e == [o EXCEPT !.pc = "edit", !.topic = topics[c], !.group = group]
    <3>1. topics[c] \in Topics /\ group \in Groups
      BY <1>1, <2>3 DEF MemoryOK, Ready
    <3>2. e \in Ops /\ e.pc = "edit" /\ e.chat = o.chat /\ e.topic = topics[c] /\ e.group = group
      BY <1>2, <3>1 DEF Ops, Steps, TopicSteps
    <3>3. Good(e)
      BY <2>1, <3>1, <3>2 DEF Good, Placed
    <3>4. OpsOK'
      BY <1>1, <2>3, <3>3, GoType
    <3> QED
      BY <1>4, <3>4, TypeParts DEF StartRefresh, TypeOK, memory, telegram, history, MemoryOK, HistoryOK, OpsOK
  <2> QED
    BY <1>4, <2>2, <2>3 DEF StartRefresh, o
<1>5. CASE EditTopic(c)
  <2>1. o.pc \in TopicSteps /\ {"stats", "idle"} \subseteq Steps \ {"create", "edit"}
    BY <1>5 DEF EditTopic, TopicSteps, FreeSteps, Steps, o
  <2>2. Fits(o, "stats") /\ Fits(o, "idle") /\ o.chat \in Chats
    BY <1>2, <2>1
  <2>3. CASE UNCHANGED memory /\ Save(c, o, "stats")
    <3>1. MemoryOK'
      BY <1>1, <2>3 DEF memory, MemoryOK
    <3>2. OpsOK'
      BY <1>1, <2>2, <2>3, <3>1, SaveType
    <3> QED
      BY <1>5, <3>1, <3>2, TypeParts DEF EditTopic, TypeOK, telegram, history, MemoryOK, HistoryOK, OpsOK
  <2>4. CASE UNCHANGED memory /\ Go(c, Idle)
    <3>1. MemoryOK'
      BY <1>1, <2>4 DEF memory, MemoryOK
    <3>2. OpsOK'
      BY <1>1, <1>3, <2>4, GoType
    <3> QED
      BY <1>5, <3>1, <3>2, TypeParts DEF EditTopic, TypeOK, telegram, history, MemoryOK, HistoryOK, OpsOK
  <2>5. CASE DropTopic(c, o, "idle")
    <3>1. OpsOK' /\ MemoryOK'
      BY <1>1, <2>2, <2>5, DropType
    <3> QED
      BY <1>5, <3>1, TypeParts DEF EditTopic, TypeOK, telegram, history, MemoryOK, HistoryOK, OpsOK
  <2> QED
    BY <1>5, <2>3, <2>4, <2>5 DEF EditTopic, o
<1>6. CASE SendStats(c)
  <2>1. o.pc \in TopicSteps /\ "idle" \in Steps \ {"create", "edit"} /\ SendText(c, o, {}, "idle")
    BY <1>6 DEF SendStats, TopicSteps, FreeSteps, Steps, o
  <2>2. OpsOK' /\ MemoryOK' /\ HistoryOK'
    BY <1>1, <1>2, <2>1, SendTextType
  <2> QED
    BY <1>6, <2>2, TypeParts DEF SendStats, TypeOK, telegram, MemoryOK, HistoryOK, OpsOK
<1> QED
  BY <1>4, <1>5, <1>6

(* The bulk sync, outside ensure_topic. *)
LEMMA BulkType ==
  ASSUME TypeOK, StartSync \/ NextChat
  PROVE  TypeOK'
<1>1. OpsOK /\ MemoryOK /\ "bulk" \in Threads /\ pending \subseteq Chats
  BY TypeParts DEF Threads
<1>2. Good(Idle) /\ Good(At("next"))
  BY IdleType DEF FreeSteps
<1>3. CASE StartSync
  <2>1. OpsOK'
    BY <1>1, <1>2, <1>3, GoType DEF StartSync
  <2>2. pending' \subseteq Chats
    BY <1>3 DEF StartSync
  <2> QED
    BY <1>3, <2>1, <2>2, TypeParts DEF StartSync, TypeOK, memory, telegram, history, MemoryOK, HistoryOK, OpsOK
<1>4. CASE NextChat
  <2>1. OpsOK' /\ pending' \subseteq Chats
    <3>1. CASE pending = {}
      BY <1>1, <1>2, <1>4, <3>1, GoType DEF NextChat
    <3>2. CASE pending # {}
      <4>1. PICK c \in pending : pending' = pending \ {c} /\ EnsureTopic("bulk", [Idle EXCEPT !.chat = c])
        BY <1>4, <3>2 DEF NextChat
      <4>2. [Idle EXCEPT !.chat = c] \in Ops /\ [Idle EXCEPT !.chat = c].chat = c /\ c \in Chats
        BY <1>1, <1>2, <4>1 DEF Good, Ops, Idle
      <4> QED
        BY <1>1, <4>1, <4>2, EnsureTopicType
    <3> QED
      BY <3>1, <3>2
  <2> QED
    BY <1>4, <2>1, TypeParts DEF NextChat, TypeOK, memory, telegram, history, MemoryOK, HistoryOK, OpsOK
<1> QED
  BY <1>3, <1>4

(* What an import plans. *)
LEMMA PlannedType ==
  ASSUME NEW o \in Ops
  PROVE  PlannedTopics(o) \in [Chats -> Topics \cup {None}]
<1> DEFINE kept == [c \in Chats |-> IF o.group \notin {None, LegacyGroup} THEN None ELSE o.snap[c].topic]
<1>1. \A c \in Chats : kept[c] \in Topics \cup {None}
  BY DEF Ops, Files
<1>2. \A c \in DOMAIN Legacy : Topic(LegacyGroup, Legacy[c]) \in Topics
  BY TopicsAssumption DEF Topic, Topics
<1> QED
  BY <1>1, <1>2 DEF PlannedTopics

(* Administrators. *)
LEMMA AdministratorType ==
  ASSUME TypeOK,
         (\E g \in Groups : SetupSyncChat(g)) \/ DeleteSyncChat \/ ClearTopics \/ ImportLegacy \/ ApplyGroup \/ ApplyTopics
  PROVE  TypeOK'
<1> DEFINE o == op["admin"]
<1>1. /\ OpsOK /\ MemoryOK /\ "admin" \in Threads /\ o \in Ops
      /\ group \in Groups \cup {None} /\ calm \in BOOLEAN /\ LegacyGroup \in Groups
  BY TypeParts, AtPlace, TopicsAssumption DEF Threads
<1>2. Good(Idle) /\ Good(At("reset"))
  BY IdleType DEF FreeSteps
<1>3. Fits(o, "idle")
  BY <1>1 DEF Fits, FreeSteps, TopicSteps, Steps
<1> HIDE DEF o
<1>4. ASSUME NEW g \in Groups, SetupSyncChat(g)
      PROVE  TypeOK'
  <2>1. OpsOK'
    BY <1>1, <1>2, <1>4, GoType DEF SetupSyncChat
  <2>2. group' \in Groups \cup {None} /\ calm' \in BOOLEAN
    BY <1>1, <1>4 DEF SetupSyncChat
  <2> QED
    BY <1>4, <2>1, <2>2, TypeParts DEF SetupSyncChat, TypeOK, memory, telegram, history, MemoryOK, HistoryOK, OpsOK
<1>5. CASE DeleteSyncChat
  <2>1. OpsOK'
    BY <1>1, <1>2, <1>5, GoType DEF DeleteSyncChat
  <2> QED
    BY <1>5, <2>1, TypeParts DEF DeleteSyncChat, TypeOK, memory, telegram, history, MemoryOK, HistoryOK, OpsOK
<1>6. CASE ClearTopics
  <2>1. MemoryOK'
    BY <1>1, <1>6 DEF ClearTopics, MemoryOK, NoTopics
  <2>2. OpsOK'
    BY <1>1, <1>3, <1>6, <2>1, SaveType DEF ClearTopics, o
  <2> QED
    BY <1>6, <2>1, <2>2, TypeParts DEF ClearTopics, TypeOK, telegram, history, MemoryOK, HistoryOK, OpsOK
<1>7. CASE ImportLegacy
  <2> DEFINE n == [At("import") EXCEPT !.group = group, !.snap = FileOf(topics, last)]
  <2>1. Good(At("import")) /\ At("import").pc = "import" /\ FileOf(topics, last) \in Files
    BY <1>1, IdleType, FileType DEF FreeSteps, MemoryOK, At, Idle
  <2>2. n \in Ops /\ n.pc = "import"
    BY <1>1, <2>1 DEF Good, Ops
  <2>3. Good(n)
    BY <2>2 DEF Good, Placed, FreeSteps, TopicSteps
  <2>4. Go("admin", n)
    BY <1>7 DEF ImportLegacy
  <2> HIDE DEF n
  <2>5. OpsOK'
    BY <1>1, <2>3, <2>4, GoType
  <2> QED
    BY <1>7, <2>5, TypeParts DEF ImportLegacy, TypeOK, memory, telegram, history, MemoryOK, HistoryOK, OpsOK
<1>8. CASE ApplyGroup
  <2> DEFINE n == [o EXCEPT !.pc = "swap"]
  <2>1. n \in Ops /\ n.pc = "swap"
    BY <1>1 DEF Ops, Steps, FreeSteps
  <2>2. Good(n)
    BY <2>1 DEF Good, Placed, FreeSteps, TopicSteps
  <2>3. OpsOK'
    BY <1>1, <1>8, <2>2, GoType DEF ApplyGroup, o
  <2> QED
    BY <1>1, <1>8, <2>3, TypeParts DEF ApplyGroup, TypeOK, memory, telegram, history, MemoryOK, HistoryOK, OpsOK
<1>9. CASE ApplyTopics
  <2> DEFINE planned == PlannedTopics(o)
  <2>1. planned \in [Chats -> Topics \cup {None}] /\ ReversedOf(planned) \in [Ids -> Chats \cup {None}]
    BY <1>1, PlannedType, ReversedType
  <2>2. /\ topics' = planned /\ reversed' = ReversedOf(planned)
        /\ last' = [t \in Topics |-> IF \E c \in Chats : planned[c] = t /\ o.snap[c].topic # t THEN 0 ELSE last[t]]
        /\ Save("admin", o, "idle")
    BY <1>9 DEF ApplyTopics, o
  <2> HIDE DEF planned
  <2>3. last' \in [Topics -> 0..MaxMessages]
    BY <1>1, <2>2, TopicsAssumption DEF MemoryOK
  <2>4. MemoryOK'
    BY <2>1, <2>2, <2>3 DEF MemoryOK
  <2>5. OpsOK'
    BY <1>1, <1>3, <2>2, <2>4, SaveType
  <2> QED
    BY <1>9, <2>4, <2>5, TypeParts DEF ApplyTopics, TypeOK, telegram, history, MemoryOK, HistoryOK, OpsOK
<1> QED
  BY <1>4, <1>5, <1>6, <1>7, <1>8, <1>9

(* A restart. *)
LEMMA RestartType ==
  ASSUME TypeOK, Restart
  PROVE  TypeOK'
<1>1. disk \in Files /\ op \in [Threads -> Ops] /\ MaxMessages \in Nat
  BY TypeParts, TopicsAssumption DEF OpsOK
<1>2. topics' \in [Chats -> Topics \cup {None}]
  <2>1. PICK kept \in SUBSET Chats : topics' = [c \in Chats |-> IF c \in kept THEN disk[c].topic ELSE None]
    BY DEF Restart, Normalized
  <2> QED
    BY <1>1, <2>1 DEF Files
<1>3. reversed' \in [Ids -> Chats \cup {None}]
  BY ReversedType DEF Restart
<1>4. last' \in [Topics -> 0..MaxMessages]
  <2>1. \A t \in Topics : (\E c \in Chats : topics'[c] = t) =>
          disk[CHOOSE c \in Chats : topics'[c] = t].last \in 0..MaxMessages
    BY <1>1 DEF Files
  <2> QED
    BY <1>1, <2>1 DEF Restart
<1>5. OpsOK'
  BY IdleType DEF Restart, OpsOK, Good
<1>6. queue' \in Seq(Jobs) /\ lock' \in [Chats -> {"worker", "bulk", None}]
  BY DEF Restart
<1> QED
  BY <1>2, <1>3, <1>4, <1>5, <1>6, TypeParts DEF Restart, TypeOK, telegram, history, MemoryOK, HistoryOK, OpsOK

(* The initial state. *)
LEMMA TypeInit == Init => TypeOK
<1> SUFFICES ASSUME Init PROVE TypeOK
  OBVIOUS
<1>1. OpsOK
  BY IdleType DEF Init, OpsOK, Good
<1>2. EmptyFile \in Files /\ MaxMessages \in Nat
  BY TopicsAssumption DEF EmptyFile, Files, NoRecord
<1>3. alive \subseteq Topics
  BY TopicsAssumption DEF Init, LegacyTopics, Topic, Topics
<1>4. made \in [Topics -> Chats \cup {None}]
  <2>1. \A t \in LegacyTopics : (CHOOSE c \in DOMAIN Legacy : Legacy[c] = t.id) \in Chats
    BY TopicsAssumption DEF LegacyTopics, Topic
  <2> QED
    BY <2>1 DEF Init
<1>5. MemoryOK /\ HistoryOK
  BY <1>2 DEF Init, MemoryOK, HistoryOK, NoTopics
<1>6. lock \in [Chats -> {"worker", "bulk", None}] /\ queue \in Seq(Jobs) /\ sent \in [Chats -> 0..MaxMessages]
  BY <1>2 DEF Init
<1> QED
  BY <1>1, <1>2, <1>3, <1>4, <1>5, <1>6, TypeParts DEF Init

(* Any step. *)
LEMMA TypeStep == TypeOK /\ [Next]_vars => TypeOK'
<1> SUFFICES ASSUME TypeOK, [Next]_vars PROVE TypeOK'
  OBVIOUS
<1>1. CASE \E c \in Chats : NewOrder(c) \/ \E n \in 1..2 : NewMessages(c, n)
  BY <1>1, BuyerType
<1>2. CASE Worker
  BY <1>2, EnsureType, WriteType, WorkerType DEF Worker, Threads
<1>3. CASE BulkSync
  BY <1>3, EnsureType, WriteType, BulkType DEF BulkSync, Threads
<1>4. CASE \E c \in Chats : Refresher(c)
  BY <1>4, WriteType, RefresherType DEF Refresher, Threads, Refreshers
<1>5. CASE Administrator
  BY <1>5, WriteType, AdministratorType DEF Administrator, Threads
<1>6. CASE \E t \in Topics : DeleteTopic(t)
  BY <1>6 DEF DeleteTopic, TypeOK, memory, history
<1>7. CASE Restart
  BY <1>7, RestartType
<1>8. CASE UNCHANGED vars
  BY <1>8 DEF vars, memory, telegram, history, TypeOK
<1> QED
  BY <1>1, <1>2, <1>3, <1>4, <1>5, <1>6, <1>7, <1>8 DEF Next

(***************************************************************************)
(* Wherever a thread is, it has the chat, the topic and the group that its *)
(* next step uses: no thread goes on without a topic after one is          *)
(* unlinked, reset or imported under it.                                   *)
(***************************************************************************)
THEOREM TypeCorrectness == Spec => []TypeOK
BY TypeInit, TypeStep, PTL DEF Spec

-----------------------------------------------------------------------------
(* The chat of a topic, where the program has bound one group only.        *)
OneGroup == \A g, h \in Groups : g = h

Linked == \A c \in Chats : topics[c] # None => made[topics[c]] = c /\ reversed[topics[c].id] = c

InverseLinked == \A i \in Ids : reversed[i] # None => \A g \in Groups : made[Topic(g, i)] = reversed[i]

FileOwned(file) == \A c \in Chats : file[c].topic # None => made[file[c].topic] = c

FilesOwned == FileOwned(disk) /\ \A a \in Threads : FileOwned(op[a].snap)

LegacyOwned == \A c \in DOMAIN Legacy : made[Topic(LegacyGroup, Legacy[c])] = c

MapsOwned == Linked /\ InverseLinked

(* What is in memory, in the file, on its way to the file and in the       *)
(* legacy plugin names each topic's own chat only.                         *)
BuyersInv == TypeOK /\ MapsOwned /\ FilesOwned /\ LegacyOwned

(* A step that makes no topic and writes no file leaves those as they are. *)
Still == UNCHANGED <<made, disk>>

(* An empty file owns nothing. *)
LEMMA EmptyOwned == FileOwned(EmptyFile) /\ Idle.snap = EmptyFile /\ \A pc \in FreeSteps : At(pc).snap = EmptyFile
BY DEF FileOwned, EmptyFile, NoRecord, Idle, At

(* A thread goes on with a snapshot it had, or with none. *)
LEMMA GoOwned ==
  ASSUME TypeOK, FilesOwned, Still, NEW a \in Threads, NEW o, Go(a, o),
         FileOwned(o.snap)
  PROVE  FilesOwned'
<1>1. op \in [Threads -> Ops] /\ op' = [op EXCEPT ![a] = o]
  BY TypeParts DEF OpsOK, Go
<1> QED
  BY <1>1 DEF FilesOwned, FileOwned, Still

(* Going on somewhere takes the snapshot along, or forgets it. *)
LEMMA ThenOwned ==
  ASSUME TypeOK, FilesOwned, Still, NEW a \in Threads, NEW o \in Ops, FileOwned(o.snap), NEW pc, Go(a, Then(o, pc))
  PROVE  FilesOwned'
<1>1. Then(o, pc).snap \in {o.snap, EmptyFile}
  BY EmptyOwned DEF Then, Ops
<1> QED
  BY <1>1, EmptyOwned, GoOwned

(* A snapshot of maps that are in order. *)
LEMMA SaveOwned ==
  ASSUME TypeOK, FilesOwned, Still, Linked', NEW a \in Threads, NEW o \in Ops, NEW pc, Save(a, o, pc)
  PROVE  FilesOwned'
<1> DEFINE f == FileOf(topics', last')
           n == [o EXCEPT !.pc = "save", !.next = pc, !.snap = f]
<1>1. \A c \in Chats : f[c].topic # None => topics'[c] # None /\ f[c].topic = topics'[c]
  BY DEF FileOf, NoRecord
<1>2. FileOwned(f)
  BY <1>1 DEF FileOwned, Linked, Still
<1>3. n.snap = f
  BY DEF Ops
<1>4. Go(a, n)
  BY DEF Save
<1> HIDE DEF n, f
<1> QED
  BY <1>2, <1>3, <1>4, GoOwned

(* drop_topic takes both entries of a topic away, and no others. *)
LEMMA DropOwned ==
  ASSUME BuyersInv, Still, NEW a \in Threads, NEW o \in Ops, FileOwned(o.snap), o.chat \in Chats,
         NEW pc, DropTopic(a, o, pc)
  PROVE  MapsOwned' /\ FilesOwned'
<1>1. MemoryOK
  BY TypeParts DEF BuyersInv
<1>2. CASE topics[o.chat] = None
  <2>1. Go(a, Then(o, pc)) /\ UNCHANGED memory
    BY <1>2 DEF DropTopic
  <2> QED
    BY <2>1, ThenOwned DEF BuyersInv, MapsOwned, Linked, InverseLinked, memory, Still
<1>3. CASE topics[o.chat] # None
  <2>1. /\ topics' = [topics EXCEPT ![o.chat] = None]
        /\ reversed' = [reversed EXCEPT ![topics[o.chat].id] = None]
        /\ Save(a, o, pc)
    BY <1>3 DEF DropTopic
  <2>2. Linked'
    BY <1>1, <1>3, <2>1 DEF BuyersInv, MapsOwned, Linked, MemoryOK, Still
  <2>3. InverseLinked'
    BY <1>1, <2>1 DEF BuyersInv, MapsOwned, InverseLinked, MemoryOK, Still
  <2> QED
    BY <2>1, <2>2, <2>3, SaveOwned DEF BuyersInv, MapsOwned
<1> QED
  BY <1>2, <1>3

(* send_text *)
LEMMA SendTextOwned ==
  ASSUME BuyersInv, Still, NEW a \in Threads, NEW o \in Ops, FileOwned(o.snap), o.chat \in Chats,
         NEW batch, NEW pc, SendText(a, o, batch, pc)
  PROVE  MapsOwned' /\ FilesOwned'
<1>1. CASE Go(a, Then(o, pc)) /\ UNCHANGED memory
  BY <1>1, ThenOwned DEF BuyersInv, MapsOwned, Linked, InverseLinked, memory, Still
<1>2. CASE DropTopic(a, o, pc)
  BY <1>2, DropOwned
<1> QED
  BY <1>1, <1>2 DEF SendText

(* remember_last_message *)
LEMMA RememberOwned ==
  ASSUME BuyersInv, Still, NEW a \in Threads, NEW o \in Ops, FileOwned(o.snap),
         NEW batch, NEW pc, RememberLastMessage(a, o, batch, pc)
  PROVE  MapsOwned' /\ FilesOwned'
<1>1. CASE Go(a, Then(o, pc)) /\ UNCHANGED memory
  BY <1>1, ThenOwned DEF BuyersInv, MapsOwned, Linked, InverseLinked, memory, Still
<1>2. CASE UNCHANGED <<topics, reversed>> /\ Save(a, o, pc)
  <2>1. MapsOwned'
    BY <1>2 DEF BuyersInv, MapsOwned, Linked, InverseLinked, Still
  <2> QED
    BY <1>2, <2>1, SaveOwned DEF BuyersInv, MapsOwned
<1> QED
  BY <1>1, <1>2 DEF RememberLastMessage

(* A step that leaves the maps alone, too. *)
LEMMA QuietOwned ==
  ASSUME BuyersInv, Still, UNCHANGED memory, NEW a \in Threads, NEW o, Go(a, o), FileOwned(o.snap)
  PROVE  MapsOwned' /\ FilesOwned'
BY GoOwned DEF BuyersInv, MapsOwned, Linked, InverseLinked, memory, Still

(* The inverse map of topics that belong to their chats. *)
LEMMA ReversedOwned ==
  ASSUME OneGroup, BuyersInv, Still, topics' \in [Chats -> Topics \cup {None}],
         \A c \in Chats : topics'[c] # None => made[topics'[c]] = c,
         reversed' = ReversedOf(topics')
  PROVE  MapsOwned'
<1>1. \A c, d \in Chats : topics'[c] # None /\ topics'[d] # None /\ topics'[c].id = topics'[d].id => c = d
  BY DEF OneGroup, Topics
<1>2. \A c \in Chats : topics'[c] # None => topics'[c].id \in Ids
  BY DEF Topics
<1>3. \A c \in Chats : topics'[c] # None => reversed'[topics'[c].id] = c
  BY <1>1, <1>2 DEF ReversedOf
<1>4. Linked'
  BY <1>3 DEF Linked, Still
<1>5. InverseLinked'
  <2> SUFFICES ASSUME NEW i \in Ids, reversed'[i] # None, NEW g \in Groups
               PROVE  made[Topic(g, i)] = reversed'[i]
    BY DEF InverseLinked, Still
  <2>1. PICK c \in Chats : topics'[c] # None /\ topics'[c].id = i
    BY DEF ReversedOf
  <2>2. topics'[c] = Topic(g, i)
    BY <2>1 DEF OneGroup, Topics, Topic
  <2> QED
    BY <1>3, <2>1, <2>2
<1> QED
  BY <1>4, <1>5 DEF MapsOwned

(* Topics that are new and named by nothing leave the rest as it is. *)
LEMMA GrowOwned ==
  ASSUME BuyersInv, \A u \in Topics : made[u] # None => made'[u] = made[u],
         UNCHANGED <<memory, disk>>, NEW a \in Threads, NEW o, Go(a, o), o.snap = EmptyFile
  PROVE  MapsOwned' /\ FilesOwned' /\ LegacyOwned'
<1>1. /\ MemoryOK /\ None \notin Chats /\ op \in [Threads -> Ops] /\ disk \in Files
      /\ \A u \in Topics : made[u] \in Chats => made'[u] = made[u]
  BY TypeParts, TopicsAssumption DEF BuyersInv, OpsOK
<1>2. Linked'
  BY <1>1 DEF BuyersInv, MapsOwned, Linked, MemoryOK, memory
<1>3. InverseLinked'
  <2> SUFFICES ASSUME NEW i \in Ids, reversed[i] # None, NEW g \in Groups
               PROVE  made'[Topic(g, i)] = reversed[i]
    BY DEF InverseLinked, memory
  <2>1. Topic(g, i) \in Topics /\ made[Topic(g, i)] = reversed[i]
    BY DEF BuyersInv, MapsOwned, InverseLinked, Topic, Topics
  <2> QED
    BY <1>1, <2>1
<1>4. \A file \in Files : FileOwned(file) => FileOwned(file)'
  BY <1>1 DEF FileOwned, Files
<1>5. FilesOwned'
  <2> SUFFICES ASSUME NEW b \in Threads PROVE FileOwned(op[b].snap)'
    BY <1>1, <1>4 DEF BuyersInv, FilesOwned
  <2>1. op' = [op EXCEPT ![a] = o]
    BY DEF Go
  <2>2. CASE b = a
    BY <1>1, <2>1, <2>2 DEF FileOwned, EmptyFile, NoRecord
  <2>3. CASE b # a
    <3>1. op'[b] = op[b] /\ op[b].snap \in Files /\ FileOwned(op[b].snap)
      BY <1>1, <2>1, <2>3 DEF BuyersInv, FilesOwned, Ops
    <3> QED
      BY <1>4, <3>1 DEF FileOwned
  <2> QED
    BY <2>2, <2>3
<1>6. LegacyOwned'
  <2> SUFFICES ASSUME NEW c \in DOMAIN Legacy PROVE made'[Topic(LegacyGroup, Legacy[c])] = c
    BY DEF LegacyOwned
  <2>1. Topic(LegacyGroup, Legacy[c]) \in Topics /\ made[Topic(LegacyGroup, Legacy[c])] = c /\ c \in Chats
    BY TopicsAssumption DEF BuyersInv, LegacyOwned, Topic, Topics
  <2> QED
    BY <1>1, <2>1
<1> QED
  BY <1>2, <1>3, <1>5, <1>6 DEF MapsOwned

(* A topic in the making: no chat has it, no file names it. *)
LEMMA CreateOwned ==
  ASSUME OneGroup, BuyersInv, NEW a \in Threads, CreateTopic(a)
  PROVE  MapsOwned' /\ FilesOwned' /\ LegacyOwned'
<1> DEFINE o == op[a]
<1>1. /\ MemoryOK /\ o \in Ops /\ o.chat \in Chats /\ o.group \in Groups /\ None \notin Chats
      /\ made \in [Topics -> Chats \cup {None}] /\ op \in [Threads -> Ops] /\ disk \in Files
  BY TypeParts, AtPlace, TopicsAssumption DEF BuyersInv, CreateTopic, ChatSteps, OpsOK
<1>2. PICK id \in Ids :
        /\ \A i \in Ids : made[Topic(o.group, i)] = None <=> i >= id
        /\ made' = [made EXCEPT ![Topic(o.group, id)] = o.chat]
        /\ topics' = [topics EXCEPT ![o.chat] = Topic(o.group, id)]
        /\ reversed' = [reversed EXCEPT ![id] = o.chat]
        /\ Save(a, [o EXCEPT !.topic = Topic(o.group, id)], "header")
        /\ UNCHANGED disk
  <2>1. PICK id \in Ids :
          /\ Makes(Topic(o.group, id), o.chat)
          /\ topics' = [topics EXCEPT ![o.chat] = Topic(o.group, id)]
          /\ reversed' = [reversed EXCEPT ![id] = o.chat]
          /\ Save(a, [o EXCEPT !.topic = Topic(o.group, id)], "header")
    BY DEF CreateTopic
  <2>2. made' = [made EXCEPT ![Topic(o.group, id)] = o.chat] /\ UNCHANGED disk
    BY <2>1 DEF CreateTopic, Makes
  <2>3. \A i \in Ids : made[Topic(o.group, i)] = None <=> i >= id
    BY <1>1, <2>1, MakesNew DEF BuyersInv
  <2> QED
    BY <2>1, <2>2, <2>3
<1> DEFINE t == Topic(o.group, id)
           n == [o EXCEPT !.topic = t]
           f == FileOf(topics', last')
           m == [n EXCEPT !.pc = "save", !.next = "header", !.snap = f]
<1> HIDE DEF o
<1>3. t \in Topics /\ t.id = id /\ made[t] = None /\ \A g \in Groups : Topic(g, id) = t
  BY <1>1, <1>2, TopicsAssumption DEF Topic, Topics, OneGroup
<1>4. \A u \in Topics : u # t => u.id # id /\ made'[u] = made[u]
  BY <1>1, <1>2, <1>3 DEF Topics, Topic, OneGroup
<1>5. \A c \in Chats : topics[c] # None => topics[c] \in Topics /\ topics[c] # t
  BY <1>1, <1>3 DEF MemoryOK, BuyersInv, MapsOwned, Linked
<1> HIDE DEF t
<1>6. topics' = [topics EXCEPT ![o.chat] = t] /\ made' = [made EXCEPT ![t] = o.chat]
  BY <1>2 DEF t
<1>7. Linked'
  <2> SUFFICES ASSUME NEW c \in Chats, topics'[c] # None
               PROVE  made'[topics'[c]] = c /\ reversed'[topics'[c].id] = c
    BY DEF Linked
  <2>1. CASE c = o.chat
    BY <1>1, <1>2, <1>3, <1>6, <2>1 DEF MemoryOK
  <2>2. CASE c # o.chat
    <3>1. topics'[c] = topics[c] /\ topics[c] # None /\ topics[c].id # id /\ made'[topics[c]] = made[topics[c]]
      BY <1>1, <1>4, <1>5, <1>6, <2>2 DEF MemoryOK
    <3>2. reversed'[topics[c].id] = reversed[topics[c].id]
      BY <1>1, <1>2, <3>1 DEF MemoryOK
    <3> QED
      BY <3>1, <3>2 DEF BuyersInv, MapsOwned, Linked
  <2> QED
    BY <2>1, <2>2
<1>8. InverseLinked'
  <2> SUFFICES ASSUME NEW i \in Ids, reversed'[i] # None, NEW g \in Groups
               PROVE  made'[Topic(g, i)] = reversed'[i]
    BY DEF InverseLinked
  <2>1. CASE i = id
    BY <1>1, <1>2, <1>3, <1>6, <2>1 DEF MemoryOK
  <2>2. CASE i # id
    <3>1. reversed'[i] = reversed[i]
      BY <1>1, <1>2, <2>2 DEF MemoryOK
    <3>2. Topic(g, i) \in Topics /\ Topic(g, i) # t
      BY <1>3, <2>2 DEF Topic, Topics
    <3>3. made'[Topic(g, i)] = made[Topic(g, i)]
      BY <1>4, <3>2
    <3> QED
      BY <3>1, <3>3 DEF BuyersInv, MapsOwned, InverseLinked
  <2> QED
    BY <2>1, <2>2
<1>9. \A file \in Files : FileOwned(file) => FileOwned(file)'
  <2> SUFFICES ASSUME NEW file \in Files, FileOwned(file), NEW c \in Chats, file[c].topic # None
               PROVE  made'[file[c].topic] = c
    BY DEF FileOwned
  <2>1. file[c].topic \in Topics /\ made[file[c].topic] = c
    BY DEF FileOwned, Files
  <2>2. file[c].topic # t
    BY <1>1, <1>3, <2>1
  <2> QED
    BY <1>4, <2>1, <2>2
<1>10. \A c \in Chats : f[c].topic # None => made'[f[c].topic] = c
  <2>1. \A c \in Chats : f[c].topic # None => topics'[c] # None /\ f[c].topic = topics'[c]
    BY DEF FileOf, NoRecord
  <2> QED
    BY <1>7, <2>1 DEF Linked
<1>11. m.snap = f
  BY <1>1 DEF Ops
<1>12. op' = [op EXCEPT ![a] = m]
  BY <1>2 DEF Save, Go, t
<1> HIDE DEF m, f
<1>13. FilesOwned'
  <2> SUFFICES ASSUME NEW b \in Threads PROVE FileOwned(op[b].snap)'
    BY <1>1, <1>2, <1>9 DEF BuyersInv, FilesOwned
  <2>1. CASE b = a
    BY <1>1, <1>10, <1>11, <1>12, <2>1 DEF FileOwned
  <2>2. CASE b # a
    <3>1. op'[b] = op[b] /\ op[b].snap \in Files /\ FileOwned(op[b].snap)
      BY <1>1, <1>12, <2>2 DEF BuyersInv, FilesOwned, Ops
    <3> QED
      BY <1>9, <3>1 DEF FileOwned
  <2> QED
    BY <2>1, <2>2
<1>14. LegacyOwned'
  <2> SUFFICES ASSUME NEW c \in DOMAIN Legacy PROVE made'[Topic(LegacyGroup, Legacy[c])] = c
    BY DEF LegacyOwned
  <2>1. Topic(LegacyGroup, Legacy[c]) \in Topics /\ made[Topic(LegacyGroup, Legacy[c])] = c /\ c \in Chats
    BY TopicsAssumption DEF BuyersInv, LegacyOwned, Topic, Topics
  <2>2. Topic(LegacyGroup, Legacy[c]) # t
    BY <1>1, <1>3, <2>1
  <2> QED
    BY <1>4, <2>1, <2>2
<1> QED
  BY <1>7, <1>8, <1>13, <1>14 DEF MapsOwned

(* What ensure_topic gives its caller carries no snapshot. *)
LEMMA WithTopicOwned ==
  ASSUME NEW a, NEW o, NEW t
  PROVE  FileOwned(WithTopic(a, o, t).snap) /\ FileOwned(WithoutTopic(a).snap)
<1>1. At("next").snap = EmptyFile /\ At("send").snap = EmptyFile /\ Idle.snap = EmptyFile
  BY DEF At, Idle
<1>2. WithTopic(a, o, t).snap = EmptyFile /\ WithoutTopic(a).snap = EmptyFile
  BY <1>1 DEF WithTopic, WithoutTopic, At, Idle
<1> QED
  BY <1>2, EmptyOwned

(* ensure_topic, up to the lock. *)
LEMMA EnsureTopicOwned ==
  ASSUME BuyersInv, Still, UNCHANGED memory, NEW a \in Threads, NEW o \in Ops, FileOwned(o.snap), EnsureTopic(a, o)
  PROVE  MapsOwned' /\ FilesOwned'
<1>1. FileOwned([o EXCEPT !.pc = "lock"].snap)
  BY DEF Ops
<1>2. PICK n : Go(a, n) /\ FileOwned(n.snap)
  BY <1>1, WithTopicOwned DEF EnsureTopic
<1> QED
  BY <1>2, QuietOwned

(* The steps of ensure_topic. *)
LEMMA EnsureOwned ==
  ASSUME OneGroup, BuyersInv, NEW a \in {"worker", "bulk"}, EnsureStep(a)
  PROVE  MapsOwned' /\ FilesOwned' /\ LegacyOwned'
<1> DEFINE o == op[a]
<1>1. a \in Threads /\ o \in Ops /\ FileOwned(o.snap) /\ (o.pc \in TopicSteps => o.chat \in Chats)
  BY TypeParts, AtPlace DEF Threads, BuyersInv, FilesOwned
<1> HIDE DEF o
<1>2. Still => LegacyOwned'
  BY DEF BuyersInv, LegacyOwned, Still
<1>3. CASE LockTopic(a)
  <2>1. FileOwned([o EXCEPT !.pc = "create", !.group = group].snap)
    BY <1>1 DEF Ops
  <2>2. PICK n : Go(a, n) /\ FileOwned(n.snap)
    BY <1>3, <2>1, WithTopicOwned DEF LockTopic, o
  <2>3. Still /\ UNCHANGED memory
    BY <1>3 DEF LockTopic, Still, telegram
  <2> QED
    BY <1>1, <1>2, <2>2, <2>3, QuietOwned
<1>4. CASE CreateTopic(a)
  BY <1>1, <1>4, CreateOwned
<1>5. CASE CreationFails(a)
  <2>1. /\ o.chat \in Chats /\ o.group \in Groups /\ NoAnswer(o) /\ UNCHANGED <<memory, disk>>
        /\ Go(a, WithoutTopic(a))
    BY <1>1, <1>5, TypeParts, AtPlace DEF CreationFails, BuyersInv, ChatSteps, o
  <2>2. \A u \in Topics : made[u] # None => made'[u] = made[u]
    BY <2>1, NoAnswerType DEF BuyersInv
  <2>3. WithoutTopic(a).snap = EmptyFile
    BY DEF WithoutTopic, At, Idle
  <2> QED
    BY <1>1, <2>1, <2>2, <2>3, GrowOwned
<1>6. CASE SendHeader(a)
  <2> DEFINE pc == IF Depth = 0 THEN "return" ELSE "load"
  <2>1. Still /\ SendText(a, o, {}, pc) /\ o.chat \in Chats
    BY <1>1, <1>6 DEF SendHeader, Still, telegram, TopicSteps, o
  <2> HIDE DEF pc
  <2> QED
    BY <1>1, <1>2, <2>1, SendTextOwned
<1>7. CASE LoadHistory(a)
  <2>1. PICK loaded : Go(a, [o EXCEPT !.pc = IF loaded = {} THEN "return" ELSE "post", !.loaded = loaded])
    BY <1>7 DEF LoadHistory, o
  <2> DEFINE pc == IF loaded = {} THEN "return" ELSE "post"
             n == [o EXCEPT !.pc = pc, !.loaded = loaded]
  <2>2. Go(a, n)
    BY <2>1
  <2> HIDE DEF pc
  <2>3. n.snap = o.snap
    BY <1>1 DEF Ops
  <2>4. Still /\ UNCHANGED memory
    BY <1>7 DEF LoadHistory, Still, telegram
  <2> HIDE DEF n
  <2> QED
    BY <1>1, <1>2, <2>2, <2>3, <2>4, QuietOwned
<1>8. CASE PostHistory(a)
  <2>1. Still /\ SendText(a, o, o.loaded, "posted") /\ o.chat \in Chats
    BY <1>1, <1>8 DEF PostHistory, Still, telegram, TopicSteps, o
  <2> QED
    BY <1>1, <1>2, <2>1, SendTextOwned
<1>9. CASE RememberHistory(a)
  <2>1. Still /\ RememberLastMessage(a, o, o.loaded, "return")
    BY <1>9 DEF RememberHistory, Still, telegram, o
  <2> QED
    BY <1>1, <1>2, <2>1, RememberOwned
<1>10. CASE ReturnTopic(a)
  <2>1. Still /\ UNCHANGED memory /\ Go(a, WithTopic(a, o, o.topic))
    BY <1>10 DEF ReturnTopic, Still, telegram, o
  <2> QED
    BY <1>1, <1>2, <2>1, QuietOwned, WithTopicOwned
<1> QED
  BY <1>3, <1>4, <1>5, <1>6, <1>7, <1>8, <1>9, <1>10 DEF EnsureStep

(* A write puts a snapshot that is in order into the file, or nothing. *)
LEMMA WriteOwned ==
  ASSUME BuyersInv, NEW a \in Threads, WriteTopics(a)
  PROVE  MapsOwned' /\ FilesOwned' /\ LegacyOwned'
<1> DEFINE n == Then([op[a] EXCEPT !.next = "idle", !.snap = EmptyFile], op[a].next)
<1>1. op \in [Threads -> Ops] /\ op[a] \in Ops /\ op' = [op EXCEPT ![a] = n]
  BY TypeParts DEF BuyersInv, OpsOK, WriteTopics, Go
<1>2. n.snap = EmptyFile
  BY <1>1, EmptyOwned DEF Then, Ops
<1> HIDE DEF n
<1>3. made' = made /\ UNCHANGED <<topics, reversed>> /\ disk' \in {disk, op[a].snap}
  BY DEF WriteTopics, memory, telegram
<1>4. FileOwned(disk)'
  BY <1>3 DEF BuyersInv, FilesOwned, FileOwned
<1>5. \A b \in Threads : FileOwned(op[b].snap)'
  BY <1>1, <1>2, <1>3, EmptyOwned DEF BuyersInv, FilesOwned, FileOwned
<1> QED
  BY <1>3, <1>4, <1>5 DEF BuyersInv, MapsOwned, Linked, InverseLinked, FilesOwned, LegacyOwned

(* The worker, outside ensure_topic. *)
LEMMA WorkerOwned ==
  ASSUME BuyersInv, TakeJob \/ SendFresh \/ RememberFresh \/ ScheduleTopicRefresh
  PROVE  MapsOwned' /\ FilesOwned' /\ LegacyOwned'
<1> DEFINE w == op["worker"]
<1>1. "worker" \in Threads /\ op \in [Threads -> Ops] /\ w \in Ops /\ FileOwned(w.snap) /\ (w.pc \in TopicSteps => w.chat \in Chats)
  BY TypeParts, AtPlace DEF Threads, OpsOK, BuyersInv, FilesOwned
<1> HIDE DEF w
<1>2. Still
  BY DEF TakeJob, SendFresh, RememberFresh, ScheduleTopicRefresh, Still, telegram
<1>3. LegacyOwned'
  BY <1>2 DEF BuyersInv, LegacyOwned, Still
<1>4. CASE TakeJob
  <2> DEFINE o == [Idle EXCEPT !.chat = Head(queue).chat, !.batch = Head(queue).batch]
  <2>1. Head(queue) \in Jobs /\ Idle \in Ops
    BY <1>4, IdleType, TypeParts DEF TakeJob, BuyersInv, Good
  <2>2. o \in Ops /\ o.snap = EmptyFile
    BY <2>1, EmptyOwned DEF Jobs, Ops
  <2>3. EnsureTopic("worker", o) /\ UNCHANGED memory
    BY <1>4 DEF TakeJob
  <2> QED
    BY <1>1, <1>2, <1>3, <2>2, <2>3, EmptyOwned, EnsureTopicOwned
<1>5. CASE SendFresh
  <2>1. SendText("worker", w, w.batch, "sent") /\ w.chat \in Chats
    BY <1>1, <1>5 DEF SendFresh, TopicSteps, w
  <2> QED
    BY <1>1, <1>2, <1>3, <2>1, SendTextOwned
<1>6. CASE RememberFresh
  <2>1. RememberLastMessage("worker", w, w.batch, "refresh")
    BY <1>6 DEF RememberFresh, w
  <2> QED
    BY <1>1, <1>2, <1>3, <2>1, RememberOwned
<1>7. CASE ScheduleTopicRefresh
  <2> DEFINE r == [At("start") EXCEPT !.chat = w.chat]
  <2>1. r.snap = EmptyFile
    BY DEF At, Idle
  <2>2. \/ op' = [op EXCEPT !["worker"] = Idle]
        \/ op' = [op EXCEPT !["worker"] = Idle, ![w.chat] = r]
    BY <1>7 DEF ScheduleTopicRefresh, w
  <2> HIDE DEF r
  <2>3. \A b \in Threads : op'[b].snap \in {op[b].snap, EmptyFile}
    BY <1>1, <2>1, <2>2, EmptyOwned
  <2>4. FilesOwned'
    BY <1>2, <2>3, EmptyOwned DEF BuyersInv, FilesOwned, FileOwned, Still
  <2> QED
    BY <1>2, <1>3, <1>7, <2>4 DEF ScheduleTopicRefresh, memory, BuyersInv, MapsOwned, Linked, InverseLinked, Still
<1> QED
  BY <1>4, <1>5, <1>6, <1>7

(* A refresher. *)
LEMMA RefresherOwned ==
  ASSUME BuyersInv, NEW c \in Chats, StartRefresh(c) \/ EditTopic(c) \/ SendStats(c)
  PROVE  MapsOwned' /\ FilesOwned' /\ LegacyOwned'
<1> DEFINE o == op[c]
<1>1. c \in Threads /\ o \in Ops /\ FileOwned(o.snap) /\ (o.pc \in TopicSteps => o.chat \in Chats)
  BY TypeParts, AtPlace DEF Threads, Refreshers, BuyersInv, FilesOwned
<1>2. FileOwned(Idle.snap)
  BY EmptyOwned
<1> HIDE DEF o
<1>3. Still
  BY DEF StartRefresh, EditTopic, SendStats, Still, telegram
<1>4. LegacyOwned'
  BY <1>3 DEF BuyersInv, LegacyOwned, Still
<1>5. CASE StartRefresh(c)
  <2>1. [o EXCEPT !.pc = "edit", !.topic = topics[c], !.group = group].snap = o.snap
    BY <1>1 DEF Ops
  <2>2. PICK n : Go(c, n) /\ FileOwned(n.snap)
    BY <1>1, <1>2, <1>5, <2>1 DEF StartRefresh, o
  <2>3. UNCHANGED memory
    BY <1>5 DEF StartRefresh
  <2> QED
    BY <1>1, <1>3, <1>4, <2>2, <2>3, QuietOwned
<1>6. CASE EditTopic(c)
  <2>1. o.chat \in Chats
    BY <1>1, <1>6 DEF EditTopic, TopicSteps, o
  <2>2. CASE UNCHANGED memory /\ Save(c, o, "stats")
    <3>1. MapsOwned'
      BY <1>3, <2>2 DEF memory, BuyersInv, MapsOwned, Linked, InverseLinked, Still
    <3> QED
      BY <1>1, <1>3, <1>4, <2>2, <3>1, SaveOwned DEF BuyersInv, MapsOwned
  <2>3. CASE UNCHANGED memory /\ Go(c, Idle)
    BY <1>1, <1>2, <1>3, <1>4, <2>3, QuietOwned
  <2>4. CASE DropTopic(c, o, "idle")
    BY <1>1, <1>3, <1>4, <2>1, <2>4, DropOwned
  <2> QED
    BY <1>6, <2>2, <2>3, <2>4 DEF EditTopic, o
<1>7. CASE SendStats(c)
  <2>1. SendText(c, o, {}, "idle") /\ o.chat \in Chats
    BY <1>1, <1>7 DEF SendStats, TopicSteps, o
  <2> QED
    BY <1>1, <1>3, <1>4, <2>1, SendTextOwned
<1> QED
  BY <1>5, <1>6, <1>7

(* The bulk sync, outside ensure_topic. *)
LEMMA BulkOwned ==
  ASSUME BuyersInv, StartSync \/ NextChat
  PROVE  MapsOwned' /\ FilesOwned' /\ LegacyOwned'
<1>1. "bulk" \in Threads /\ FileOwned(Idle.snap) /\ FileOwned(At("next").snap)
  BY EmptyOwned DEF Threads, FreeSteps
<1>2. Still /\ UNCHANGED memory
  BY DEF StartSync, NextChat, Still, telegram
<1>3. LegacyOwned'
  BY <1>2 DEF BuyersInv, LegacyOwned, Still
<1>4. CASE \E n : Go("bulk", n) /\ FileOwned(n.snap)
  <2>1. PICK n : Go("bulk", n) /\ FileOwned(n.snap)
    BY <1>4
  <2> QED
    BY <1>1, <1>2, <1>3, <2>1, QuietOwned
<1>5. ASSUME NEW c \in pending, EnsureTopic("bulk", [Idle EXCEPT !.chat = c])
      PROVE  MapsOwned' /\ FilesOwned'
  <2>1. Idle \in Ops /\ pending \subseteq Chats
    BY IdleType, TypeParts DEF Good, BuyersInv
  <2>2. [Idle EXCEPT !.chat = c] \in Ops /\ [Idle EXCEPT !.chat = c].snap = EmptyFile
    BY <2>1, EmptyOwned DEF Ops
  <2> QED
    BY <1>1, <1>2, <1>5, <2>2, EmptyOwned, EnsureTopicOwned
<1>6. CASE StartSync
  BY <1>1, <1>4, <1>6 DEF StartSync
<1>7. CASE NextChat
  BY <1>1, <1>3, <1>4, <1>5, <1>7 DEF NextChat
<1> QED
  BY <1>6, <1>7

(* An import plans for each chat a topic of its own. *)
LEMMA PlannedOwned ==
  ASSUME BuyersInv, NEW o \in Ops, FileOwned(o.snap), NEW c \in Chats, PlannedTopics(o)[c] # None
  PROVE  made[PlannedTopics(o)[c]] = c
<1>1. PlannedTopics(o)[c] = o.snap[c].topic \/ (c \in DOMAIN Legacy /\ PlannedTopics(o)[c] = Topic(LegacyGroup, Legacy[c]))
  BY DEF PlannedTopics
<1> QED
  BY <1>1 DEF FileOwned, BuyersInv, LegacyOwned

(* Administrators. *)
LEMMA AdministratorOwned ==
  ASSUME OneGroup, BuyersInv,
         (\E g \in Groups : SetupSyncChat(g)) \/ DeleteSyncChat \/ ClearTopics \/ ImportLegacy \/ ApplyGroup \/ ApplyTopics
  PROVE  MapsOwned' /\ FilesOwned' /\ LegacyOwned'
<1> DEFINE o == op["admin"]
<1>1. "admin" \in Threads /\ o \in Ops /\ FileOwned(o.snap) /\ TypeOK
  BY TypeParts, AtPlace DEF Threads, BuyersInv, FilesOwned
<1>2. FileOwned(Idle.snap) /\ FileOwned(At("reset").snap)
  BY EmptyOwned DEF FreeSteps
<1> HIDE DEF o
<1>3. Still
  BY DEF SetupSyncChat, DeleteSyncChat, ClearTopics, ImportLegacy, ApplyGroup, ApplyTopics, Still, telegram
<1>4. LegacyOwned'
  BY <1>3 DEF BuyersInv, LegacyOwned, Still
<1>5. CASE UNCHANGED memory /\ \E n : Go("admin", n) /\ FileOwned(n.snap)
  <2>1. PICK n : Go("admin", n) /\ FileOwned(n.snap)
    BY <1>5
  <2> QED
    BY <1>1, <1>3, <1>4, <1>5, <2>1, QuietOwned
<1>6. CASE \E g \in Groups : SetupSyncChat(g)
  BY <1>2, <1>5, <1>6 DEF SetupSyncChat
<1>7. CASE DeleteSyncChat
  BY <1>2, <1>5, <1>7 DEF DeleteSyncChat
<1>8. CASE ClearTopics
  <2>1. MapsOwned'
    BY <1>8 DEF ClearTopics, NoTopics, MapsOwned, Linked, InverseLinked
  <2>2. Save("admin", o, "idle")
    BY <1>8 DEF ClearTopics, o
  <2> QED
    BY <1>1, <1>3, <1>4, <2>1, <2>2, SaveOwned DEF BuyersInv, MapsOwned
<1>9. CASE ImportLegacy
  <2> DEFINE f == FileOf(topics, last)
             n == [At("import") EXCEPT !.group = group, !.snap = f]
  <2>1. \A c \in Chats : f[c].topic # None => topics[c] # None /\ f[c].topic = topics[c]
    BY DEF FileOf, NoRecord
  <2>2. FileOwned(f)
    BY <2>1 DEF FileOwned, BuyersInv, MapsOwned, Linked
  <2>3. n.snap = f
    BY DEF At, Idle
  <2>4. Go("admin", n) /\ UNCHANGED memory
    BY <1>9 DEF ImportLegacy
  <2> HIDE DEF n, f
  <2> QED
    BY <1>5, <2>2, <2>3, <2>4
<1>10. CASE ApplyGroup
  <2>1. [o EXCEPT !.pc = "swap"].snap = o.snap
    BY <1>1 DEF Ops
  <2>2. Go("admin", [o EXCEPT !.pc = "swap"]) /\ UNCHANGED memory
    BY <1>10 DEF ApplyGroup, o
  <2> QED
    BY <1>1, <1>5, <2>1, <2>2
<1>11. CASE ApplyTopics
  <2>1. topics' = PlannedTopics(o) /\ reversed' = ReversedOf(topics') /\ Save("admin", o, "idle")
    BY <1>11 DEF ApplyTopics, o
  <2>2. topics' \in [Chats -> Topics \cup {None}]
    BY <1>1, <2>1, PlannedType
  <2>3. \A c \in Chats : topics'[c] # None => made[topics'[c]] = c
    BY <1>1, <2>1, PlannedOwned
  <2>4. MapsOwned'
    BY <1>3, <2>1, <2>2, <2>3, ReversedOwned
  <2> QED
    BY <1>1, <1>3, <1>4, <2>1, <2>4, SaveOwned DEF BuyersInv, MapsOwned
<1> QED
  BY <1>6, <1>7, <1>8, <1>9, <1>10, <1>11

(* A restart reads topics that belong to their chats. *)
LEMMA RestartOwned ==
  ASSUME OneGroup, BuyersInv, Restart
  PROVE  MapsOwned' /\ FilesOwned' /\ LegacyOwned'
<1>1. Still /\ reversed' = ReversedOf(topics') /\ disk \in Files
  BY TypeParts DEF Restart, Still, telegram, BuyersInv
<1>2. PICK kept \in SUBSET Chats : topics' = [c \in Chats |-> IF c \in kept THEN disk[c].topic ELSE None]
  BY DEF Restart, Normalized
<1>3. topics' \in [Chats -> Topics \cup {None}]
  BY <1>1, <1>2 DEF Files
<1>4. \A c \in Chats : topics'[c] # None => made[topics'[c]] = c
  BY <1>2 DEF BuyersInv, FilesOwned, FileOwned
<1>5. MapsOwned'
  BY <1>1, <1>3, <1>4, ReversedOwned
<1>6. \A a \in Threads : op'[a].snap = EmptyFile
  BY EmptyOwned DEF Restart
<1> QED
  BY <1>1, <1>5, <1>6, EmptyOwned DEF BuyersInv, FilesOwned, FileOwned, LegacyOwned, Still

(* The initial state. *)
LEMMA BuyersInit == Init => BuyersInv
<1> SUFFICES ASSUME Init PROVE BuyersInv
  OBVIOUS
<1>1. LegacyOwned
  <2> SUFFICES ASSUME NEW c \in DOMAIN Legacy PROVE made[Topic(LegacyGroup, Legacy[c])] = c
    BY DEF LegacyOwned
  <2> DEFINE t == Topic(LegacyGroup, Legacy[c])
  <2>1. t \in LegacyTopics /\ t \in Topics /\ t.id = Legacy[c]
    BY TopicsAssumption DEF LegacyTopics, Topic, Topics
  <2>2. \A d \in DOMAIN Legacy : Legacy[d] = t.id => d = c
    BY <2>1, TopicsAssumption
  <2> HIDE DEF t
  <2>3. made[t] = c
    BY <2>1, <2>2 DEF Init
  <2> QED
    BY <2>3 DEF t
<1>2. MapsOwned
  BY DEF Init, NoTopics, MapsOwned, Linked, InverseLinked
<1>3. FilesOwned
  BY EmptyOwned DEF Init, FilesOwned
<1> QED
  BY <1>1, <1>2, <1>3, TypeInit DEF BuyersInv

(* Any step, with one group. *)
LEMMA BuyersStep ==
  ASSUME OneGroup
  PROVE  BuyersInv /\ [Next]_vars => BuyersInv'
<1> SUFFICES ASSUME BuyersInv, [Next]_vars PROVE BuyersInv'
  OBVIOUS
<1>1. TypeOK'
  BY TypeStep DEF BuyersInv
<1>2. MapsOwned' /\ FilesOwned' /\ LegacyOwned'
  <2>1. CASE UNCHANGED <<topics, reversed, op, disk, made>>
    BY <2>1 DEF BuyersInv, MapsOwned, Linked, InverseLinked, FilesOwned, FileOwned, LegacyOwned
  <2>2. CASE \E c \in Chats : NewOrder(c) \/ \E n \in 1..2 : NewMessages(c, n)
    BY <2>1, <2>2 DEF NewOrder, NewMessages, memory, telegram
  <2>3. CASE Worker
    BY <2>3, EnsureOwned, WriteOwned, WorkerOwned DEF Worker, Threads
  <2>4. CASE BulkSync
    BY <2>4, EnsureOwned, WriteOwned, BulkOwned DEF BulkSync, Threads
  <2>5. CASE \E c \in Chats : Refresher(c)
    BY <2>5, WriteOwned, RefresherOwned DEF Refresher, Threads, Refreshers
  <2>6. CASE Administrator
    BY <2>6, WriteOwned, AdministratorOwned DEF Administrator, Threads
  <2>7. CASE \E t \in Topics : DeleteTopic(t)
    BY <2>1, <2>7 DEF DeleteTopic, memory
  <2>8. CASE Restart
    BY <2>8, RestartOwned
  <2>9. CASE UNCHANGED vars
    BY <2>1, <2>9 DEF vars, memory, telegram
  <2> QED
    BY <2>2, <2>3, <2>4, <2>5, <2>6, <2>7, <2>8, <2>9 DEF Next
<1> QED
  BY <1>1, <1>2 DEF BuyersInv

(***************************************************************************)
(* Where one group is bound, left and bound again, a topic is its buyer's  *)
(* in both directions: whichever threads, imports, resets, deletions,      *)
(* failed writes and restarts come together, nothing an administrator      *)
(* writes reaches another buyer.                                           *)
(***************************************************************************)
THEOREM BuyersKept ==
  ASSUME OneGroup
  PROVE  Spec => []EachTopicHasItsBuyer
<1>1. BuyersInv => EachTopicHasItsBuyer
  <2>1. BuyersInv => group \in Groups \cup {None}
    BY TypeParts DEF BuyersInv
  <2> QED
    BY <2>1 DEF BuyersInv, MapsOwned, Linked, InverseLinked, EachTopicHasItsBuyer, Ready
<1>2. BuyersInv /\ [Next]_vars => BuyersInv'
  BY BuyersStep
<1> QED
  BY <1>1, <1>2, BuyersInit, PTL DEF Spec

-----------------------------------------------------------------------------
(* One topic for a chat, while nobody deletes topics or types commands. *)

(* Where a thread is, or goes on after a write. *)
Place(o) == IF o.pc = "save" THEN o.next ELSE o.pc

(* The steps of ensure_topic that are done under the lock of the chat. *)
Locked == {"create", "header", "load", "post", "posted", "return"}

(* What a thread knows: its topic is there, in the group bound; the lock   *)
(* of its chat is its own, and it creates only what is not there.          *)
Knows(a) ==
  LET o == op[a]  pc == Place(o) IN
  /\ pc \in TopicSteps => o.topic \in alive /\ o.topic.group = group
  /\ pc \in {"create", "edit"} => o.group = group
  /\ a \in {"worker", "bulk"} /\ pc \in Locked => lock[o.chat] = a
  /\ a \in {"worker", "bulk"} /\ pc = "create" => topics[o.chat] = None
  /\ a = "admin" => pc \in {"idle", "import"}

(* Every topic in memory exists, and every one that was made for a chat    *)
(* and answered is its topic.                                              *)
MapsCurrent ==
  /\ \A c \in Chats : topics[c] # None => topics[c] \in alive /\ topics[c].group = group
  /\ \A c \in Chats : \A t \in alive \ (LegacyTopics \cup unanswered) : made[t] = c => topics[c] = t

CalmInv == calm => MapsCurrent /\ \A a \in Threads : Knows(a)

(* Thread a goes on at pc, about what it was about. *)
Onward(a, pc) ==
  /\ \A b \in Threads \ {a} : op'[b] = op[b]
  /\ Place(op'[a]) = pc
  /\ pc # "idle" => op'[a].chat = op[a].chat /\ op'[a].topic = op[a].topic /\ op'[a].group = op[a].group

(* The world of the topics stays. *)
Quiet == UNCHANGED <<topics, alive, made, unanswered, group>>

(* A thread that goes on, at once or after a write. *)
LEMMA GoOnward ==
  ASSUME OpsOK, NEW a \in Threads, NEW pc \in Steps
  PROVE  /\ Go(a, Then(op[a], pc)) => Onward(a, pc)
         /\ Save(a, op[a], pc) => Onward(a, pc)
<1>1. op \in [Threads -> Ops] /\ op[a] \in Ops /\ pc # "save"
  BY DEF OpsOK, Steps, FreeSteps, ChatSteps, TopicSteps
<1>2. ASSUME Go(a, Then(op[a], pc)) PROVE Onward(a, pc)
  <2>1. op'[a] = Then(op[a], pc) /\ \A b \in Threads \ {a} : op'[b] = op[b]
    BY <1>1, <1>2 DEF Go
  <2>2. CASE pc = "idle"
    <3>1. op'[a].pc = "idle"
      BY <2>1, <2>2 DEF Then, Idle
    <3> QED
      BY <2>1, <2>2, <3>1 DEF Onward, Place
  <2>3. CASE pc # "idle"
    <3>1. op'[a] = [op[a] EXCEPT !.pc = pc]
      BY <2>1, <2>3 DEF Then
    <3>2. op'[a].pc = pc /\ op'[a].chat = op[a].chat /\ op'[a].topic = op[a].topic /\ op'[a].group = op[a].group
      BY <1>1, <3>1 DEF Ops
    <3> QED
      BY <1>1, <2>1, <3>2 DEF Onward, Place
  <2> QED
    BY <2>2, <2>3
<1>3. ASSUME Save(a, op[a], pc) PROVE Onward(a, pc)
  <2> DEFINE f == FileOf(topics', last')
             n == [op[a] EXCEPT !.pc = "save", !.next = pc, !.snap = f]
  <2>1. op'[a] = n /\ \A b \in Threads \ {a} : op'[b] = op[b]
    BY <1>1, <1>3 DEF Save, Go
  <2> HIDE DEF f
  <2>2. n.pc = "save" /\ n.next = pc /\ n.chat = op[a].chat /\ n.topic = op[a].topic /\ n.group = op[a].group
    BY <1>1 DEF Ops
  <2> QED
    BY <2>1, <2>2 DEF Onward, Place
<1> QED
  BY <1>2, <1>3

(* What the other threads know stays true when thread a moves: a thread    *)
(* touches the topics and the locks of its own chat only.                  *)
LEMMA OthersKnow ==
  ASSUME TypeOK, NEW a \in Threads, \A b \in Threads : Knows(b), group' = group, alive \subseteq alive',
         \A b \in Threads : Knows(b)' \/ (b # a /\ op'[b] = op[b]),
         \A c \in Chats : topics'[c] = topics[c] \/ (a \in {"worker", "bulk"} /\ lock[c] = a),
         \A c \in Chats : lock'[c] = lock[c] \/ (a \in {"worker", "bulk"} /\ lock[c] \in {None, a})
  PROVE  \A b \in Threads : Knows(b)'
<1>1. ASSUME NEW b \in Threads, b # a, op'[b] = op[b] PROVE Knows(b)'
  <2>1. Place(op[b]) \in Locked => op[b].chat \in Chats
    BY DEF TypeOK, Placed, Place, Locked, FreeSteps
  <2>2. Knows(b)
    OBVIOUS
  <2>3. b \in {"worker", "bulk"} /\ Place(op[b]) \in Locked => lock'[op[b].chat] = b
    <3>1. b # None \/ b \notin {"worker", "bulk"}
      BY TopicsAssumption
    <3> QED
      BY <1>1, <2>1, <2>2, <3>1 DEF Knows
  <2>4. b \in {"worker", "bulk"} /\ Place(op[b]) = "create" => topics'[op[b].chat] = None
    <3>1. Place(op[b]) = "create" => Place(op[b]) \in Locked
      BY DEF Locked
    <3> QED
      BY <1>1, <2>1, <2>2, <3>1 DEF Knows
  <2> QED
    BY <1>1, <2>2, <2>3, <2>4 DEF Knows
<1> QED
  BY <1>1

(* A thread that goes on, and knows at its next step no more than it did.  *)
LEMMA KnowsOnward ==
  ASSUME NEW a \in Threads, Knows(a), Quiet, NEW pc, Onward(a, pc), pc # "create",
         pc \in TopicSteps => Place(op[a]) \in TopicSteps,
         pc = "edit" => Place(op[a]) = "edit",
         a \in {"worker", "bulk"} /\ pc \in Locked => Place(op[a]) \in Locked /\ lock'[op[a].chat] = lock[op[a].chat],
         a = "admin" => pc \in {"idle", "import"}
  PROVE  Knows(a)'
<1>1. pc \in TopicSteps \cup {"edit"} \cup Locked => pc # "idle"
  BY DEF TopicSteps, Locked
<1> QED
  BY <1>1 DEF Knows, Onward, Quiet

(* send_text and remember_last_message unlink nothing: the topic is there. *)
LEMMA SendTextCalm ==
  ASSUME OpsOK, NEW a \in Threads, Knows(a), op[a].pc \in TopicSteps, UNCHANGED <<group, alive>>,
         NEW batch, NEW pc \in Steps, SendText(a, op[a], batch, pc)
  PROVE  Onward(a, pc) /\ UNCHANGED memory
<1>1. op[a].topic \in Topics /\ Place(op[a]) = op[a].pc
  BY AtPlace DEF Place, TopicSteps
<1>2. op[a].topic \in alive /\ op[a].topic.group = group
  BY <1>1 DEF Knows
<1>3. Topic(group, op[a].topic.id) = op[a].topic
  BY <1>1, <1>2 DEF Topics, Topic
<1>4. Go(a, Then(op[a], pc)) /\ UNCHANGED memory
  BY <1>2, <1>3 DEF SendText
<1> QED
  BY <1>4, GoOnward

(* remember_last_message changes no topic. *)
LEMMA RememberCalm ==
  ASSUME OpsOK, NEW a \in Threads, NEW batch, NEW pc \in Steps, RememberLastMessage(a, op[a], batch, pc)
  PROVE  Onward(a, pc) /\ UNCHANGED topics
<1>1. Go(a, Then(op[a], pc)) \/ Save(a, op[a], pc)
  BY DEF RememberLastMessage
<1>2. UNCHANGED topics
  BY DEF RememberLastMessage, memory
<1> QED
  BY <1>1, <1>2, GoOnward

(* A thread that rests, between two jobs, chats or commands. *)
LEMMA KnowsFree ==
  ASSUME NEW a \in Threads, op'[a].pc \in {"idle", "next", "lock", "start"}, a = "admin" => op'[a].pc = "idle"
  PROVE  Knows(a)'
BY DEF Knows, Place, TopicSteps, Locked

(* The caller of ensure_topic is told there is no topic. *)
LEMMA KnowsNone ==
  ASSUME NEW a \in {"worker", "bulk"}, op'[a] = WithoutTopic(a)
  PROVE  Knows(a)'
<1>1. op'[a].pc \in {"idle", "next"}
  BY DEF WithoutTopic, At, Idle
<1> QED
  BY <1>1, KnowsFree DEF Threads

(* The caller of ensure_topic is given a topic, which exists. *)
LEMMA KnowsTopic ==
  ASSUME NEW a \in {"worker", "bulk"}, NEW o, NEW t, t \in alive, t.group = group, UNCHANGED <<alive, group>>,
         op'[a] = WithTopic(a, o, t)
  PROVE  Knows(a)'
<1> DEFINE n == [At("send") EXCEPT !.chat = o.chat, !.topic = t, !.batch = {m \in o.batch : m > last[t]}]
<1>1. n.pc = "send" /\ n.topic = t
  BY DEF At, Idle
<1>2. At("next").pc = "next" /\ Idle.pc = "idle"
  BY DEF At, Idle
<1>3. op'[a] \in {At("next"), Idle, n}
  BY DEF WithTopic
<1> HIDE DEF n
<1>4. CASE op'[a] = n
  BY <1>1, <1>4 DEF Knows, Place, TopicSteps, Locked
<1>5. CASE op'[a] \in {At("next"), Idle}
  BY <1>2, <1>5, KnowsFree DEF Threads
<1> QED
  BY <1>3, <1>4, <1>5

(* The maps stay current where nothing moves. *)
LEMMA CurrentKept ==
  ASSUME MapsCurrent, Quiet
  PROVE  MapsCurrent'
BY DEF MapsCurrent, Quiet

(* A topic is created for a chat that has none, in the group bound: the     *)
(* only one of its chat, as the lock is held since the second look.         *)
LEMMA CreateCurrent ==
  ASSUME TypeOK, MapsCurrent, \A b \in Threads : Knows(b), NEW a \in {"worker", "bulk"}, CreateTopic(a)
  PROVE  MapsCurrent' /\ \A b \in Threads : Knows(b)'
<1>1. PICK o \in Ops : o = op[a]
  BY DEF TypeOK, Threads
<1>2. /\ o.pc = "create" /\ Place(o) = "create" /\ o.chat \in Chats /\ o.group \in Groups
      /\ op \in [Threads -> Ops] /\ a \in Threads
  BY <1>1, AtPlace, TypeParts DEF CreateTopic, Place, ChatSteps, Threads, OpsOK
<1>3. lock[o.chat] = a /\ topics[o.chat] = None /\ o.group = group
  BY <1>1, <1>2 DEF Knows, Locked
<1>4. PICK id \in Ids :
        /\ alive' = alive \cup {Topic(o.group, id)}
        /\ made' = [made EXCEPT ![Topic(o.group, id)] = o.chat]
        /\ topics' = [topics EXCEPT ![o.chat] = Topic(o.group, id)]
        /\ Save(a, [o EXCEPT !.topic = Topic(o.group, id)], "header")
        /\ UNCHANGED <<group, lock, unanswered>>
  BY <1>1 DEF CreateTopic, Makes
<1> DEFINE t == Topic(o.group, id)
<1>5. t \in Topics /\ t.group = group /\ t # None
  BY <1>2, <1>3, TopicsAssumption DEF Topic, Topics
<1>6. /\ topics \in [Chats -> Topics \cup {None}] /\ made \in [Topics -> Chats \cup {None}]
      /\ alive \subseteq Topics /\ None \notin Topics
  BY TopicsAssumption DEF TypeOK, Topics
<1>7. /\ op'[a].pc = "save" /\ op'[a].next = "header" /\ op'[a].topic = t /\ op'[a].chat = o.chat
      /\ \A b \in Threads \ {a} : op'[b] = op[b]
  <2> DEFINE f == FileOf(topics', last')
  <2>1. op'[a] = [[o EXCEPT !.topic = t] EXCEPT !.pc = "save", !.next = "header", !.snap = f]
    BY <1>2, <1>4 DEF Save, Go
  <2> HIDE DEF f, t
  <2>2. /\ op'[a].pc = "save" /\ op'[a].next = "header" /\ op'[a].topic = t /\ op'[a].chat = o.chat
    BY <2>1 DEF Ops
  <2>3. \A b \in Threads \ {a} : op'[b] = op[b]
    BY <1>2, <1>4 DEF Save, Go
  <2> QED
    BY <2>2, <2>3
<1> HIDE DEF t
<1>8. alive' = alive \cup {t} /\ made' = [made EXCEPT ![t] = o.chat] /\ topics' = [topics EXCEPT ![o.chat] = t]
  BY <1>4 DEF t
<1>9. MapsCurrent'
  <2>1. ASSUME NEW c \in Chats, topics'[c] # None PROVE topics'[c] \in alive' /\ topics'[c].group = group'
    <3>1. CASE c = o.chat
      BY <1>2, <1>4, <1>5, <1>6, <1>8, <3>1
    <3>2. CASE c # o.chat
      BY <1>2, <1>4, <1>6, <1>8, <2>1, <3>2 DEF MapsCurrent
    <3> QED
      BY <3>1, <3>2
  <2>2. ASSUME NEW c \in Chats, NEW u \in alive' \ (LegacyTopics \cup unanswered), made'[u] = c PROVE topics'[c] = u
    <3>1. CASE u = t
      BY <1>2, <1>5, <1>6, <1>8, <2>2, <3>1
    <3>2. CASE u # t
      <4>1. u \in alive \ (LegacyTopics \cup unanswered) /\ u \in Topics /\ made[u] = c
        BY <1>6, <1>8, <2>2, <3>2
      <4>2. topics[c] = u
        BY <4>1 DEF MapsCurrent
      <4>3. c # o.chat
        BY <1>3, <1>6, <4>1, <4>2
      <4> QED
        BY <1>6, <1>8, <4>2, <4>3
    <3> QED
      BY <3>1, <3>2
  <2>3. LegacyTopics' = LegacyTopics
    BY DEF LegacyTopics
  <2> QED
    BY <1>4, <2>1, <2>2, <2>3 DEF MapsCurrent
<1>10. Knows(a)'
  <2>1. Place(op'[a]) = "header"
    BY <1>7 DEF Place
  <2> QED
    BY <1>3, <1>4, <1>5, <1>7, <1>8, <2>1 DEF Knows
<1>11. \A c \in Chats : topics'[c] = topics[c] \/ (a \in {"worker", "bulk"} /\ lock[c] = a)
  BY <1>3, <1>6, <1>8
<1> QED
  BY <1>2, <1>4, <1>7, <1>8, <1>9, <1>10, <1>11, OthersKnow

(* The other steps of ensure_topic. *)
LEMMA EnsureCurrent ==
  ASSUME TypeOK, MapsCurrent, \A b \in Threads : Knows(b), NEW a \in {"worker", "bulk"}, EnsureStep(a)
  PROVE  MapsCurrent' /\ \A b \in Threads : Knows(b)'
<1>1. /\ OpsOK /\ op \in [Threads -> Ops] /\ a \in Threads /\ op[a] \in Ops /\ Knows(a)
      /\ lock \in [Chats -> {"worker", "bulk", None}]
  BY TypeParts DEF Threads, OpsOK
<1>2. op[a].pc # "save" => Place(op[a]) = op[a].pc
  BY DEF Place
<1>3. ASSUME Quiet, UNCHANGED lock, NEW pc \in Steps \ {"create", "edit"}, Onward(a, pc),
             op[a].pc \in Locked \cap TopicSteps
      PROVE  MapsCurrent' /\ \A b \in Threads : Knows(b)'
  <2>1. Place(op[a]) \in Locked \cap TopicSteps
    BY <1>2, <1>3 DEF Locked
  <2>2. Knows(a)'
    BY <1>1, <1>3, <2>1, KnowsOnward
  <2>3. MapsCurrent'
    BY <1>3, CurrentKept
  <2> QED
    BY <1>1, <1>3, <2>2, <2>3, OthersKnow DEF Onward, Quiet
<1>4. {"header", "load", "post", "posted", "return"} \subseteq Locked \cap TopicSteps
  BY DEF Locked, TopicSteps
<1>5. {"load", "post", "posted", "return"} \subseteq Steps \ {"create", "edit"}
  BY DEF Steps, TopicSteps
<1>6. CASE LockTopic(a)
  <2> DEFINE c == op[a].chat
             creates == Ready /\ topics[c] = None
             n == [op[a] EXCEPT !.pc = "create", !.group = group]
  <2>1. /\ op[a].pc = "lock" /\ c \in Chats /\ lock[c] = None /\ Quiet
        /\ lock' = [lock EXCEPT ![c] = IF creates THEN a ELSE @]
    BY <1>1, <1>6, AtPlace DEF LockTopic, ChatSteps, memory, telegram, Quiet
  <2>2. \A b \in Threads \ {a} : op'[b] = op[b]
    BY <1>1, <1>6 DEF LockTopic, Go
  <2>3. \/ creates /\ op'[a] = n
        \/ topics[c] # None /\ op'[a] = WithTopic(a, op[a], topics[c])
        \/ op'[a] = WithoutTopic(a)
    BY <1>1, <1>6 DEF LockTopic, Go
  <2>4. ASSUME creates, op'[a] = n PROVE Knows(a)'
    <3>1. n.pc = "create" /\ n.chat = c /\ n.group = group
      BY <1>1 DEF Ops
    <3>2. lock'[c] = a
      BY <1>1, <2>1, <2>4
    <3> QED
      BY <2>1, <2>4, <3>1, <3>2 DEF Knows, Place, TopicSteps, Quiet
  <2>5. ASSUME topics[c] # None, op'[a] = WithTopic(a, op[a], topics[c]) PROVE Knows(a)'
    BY <2>1, <2>5, KnowsTopic DEF MapsCurrent, Quiet
  <2>6. Knows(a)'
    BY <2>3, <2>4, <2>5, KnowsNone
  <2>7. \A d \in Chats : lock'[d] = lock[d] \/ (a \in {"worker", "bulk"} /\ lock[d] \in {None, a})
    BY <1>1, <2>1
  <2>8. MapsCurrent'
    BY <2>1, CurrentKept
  <2> QED
    BY <1>1, <2>1, <2>2, <2>6, <2>7, <2>8, OthersKnow DEF Quiet
<1>7. CASE CreationFails(a)
  <2>1. /\ op[a].pc = "create" /\ op[a].chat \in Chats /\ op[a].group \in Groups /\ NoAnswer(op[a])
        /\ lock' = [lock EXCEPT ![op[a].chat] = None] /\ UNCHANGED <<group, topics>>
    BY <1>1, <1>7, AtPlace DEF CreationFails, ChatSteps, memory
  <2>2. op'[a] = WithoutTopic(a) /\ \A b \in Threads \ {a} : op'[b] = op[b]
    BY <1>1, <1>7 DEF CreationFails, Go
  <2>3. lock[op[a].chat] = a
    BY <1>1, <1>2, <2>1 DEF Knows, Locked
  <2>4. \A d \in Chats : lock'[d] = lock[d] \/ (a \in {"worker", "bulk"} /\ lock[d] \in {None, a})
    BY <1>1, <2>1, <2>3
  <2>5. alive \subseteq alive' /\ \A u \in alive' \ unanswered' : u \in alive \ unanswered /\ made'[u] = made[u]
    BY <2>1, NoAnswerType
  <2>6. MapsCurrent'
    BY <2>1, <2>5 DEF MapsCurrent, LegacyTopics
  <2>7. Knows(a)'
    BY <2>2, KnowsNone
  <2> QED
    BY <1>1, <2>1, <2>2, <2>4, <2>5, <2>6, <2>7, OthersKnow
<1>8. CASE SendHeader(a)
  <2>1. op[a].pc = "header" /\ UNCHANGED <<group, lock, alive, made, unanswered>>
    BY <1>8 DEF SendHeader, telegram
  <2>2. PICK pc \in {"return", "load"} : SendText(a, op[a], {}, pc)
    BY <1>8 DEF SendHeader
  <2>3. Onward(a, pc) /\ UNCHANGED memory
    BY <1>1, <1>4, <1>5, <2>1, <2>2, SendTextCalm
  <2> QED
    BY <1>3, <1>4, <1>5, <2>1, <2>3 DEF Quiet, memory
<1>9. CASE LoadHistory(a)
  <2>1. op[a].pc = "load" /\ Quiet /\ UNCHANGED lock
    BY <1>9 DEF LoadHistory, memory, telegram, Quiet
  <2>2. PICK loaded : Go(a, [op[a] EXCEPT !.pc = IF loaded = {} THEN "return" ELSE "post", !.loaded = loaded])
    BY <1>9 DEF LoadHistory
  <2>3. PICK pc \in {"return", "post"} : Go(a, [op[a] EXCEPT !.pc = pc, !.loaded = loaded])
    BY <2>2
  <2>4. op'[a] = [op[a] EXCEPT !.pc = pc, !.loaded = loaded] /\ \A b \in Threads \ {a} : op'[b] = op[b]
    BY <1>1, <2>3 DEF Go
  <2>5. op'[a].pc = pc /\ op'[a].chat = op[a].chat /\ op'[a].topic = op[a].topic /\ op'[a].group = op[a].group
    BY <1>1, <2>4 DEF Ops
  <2>6. Onward(a, pc)
    BY <2>4, <2>5 DEF Onward, Place
  <2> QED
    BY <1>3, <1>4, <1>5, <2>1, <2>6
<1>10. CASE PostHistory(a)
  <2>1. op[a].pc = "post" /\ UNCHANGED <<group, lock, alive, made, unanswered>> /\ SendText(a, op[a], op[a].loaded, "posted")
    BY <1>10 DEF PostHistory, telegram
  <2>2. Onward(a, "posted") /\ UNCHANGED memory
    BY <1>1, <1>4, <1>5, <2>1, SendTextCalm
  <2> QED
    BY <1>3, <1>4, <1>5, <2>1, <2>2 DEF Quiet, memory
<1>11. CASE RememberHistory(a)
  <2>1. op[a].pc = "posted" /\ UNCHANGED <<group, lock, alive, made, unanswered>>
        /\ RememberLastMessage(a, op[a], op[a].loaded, "return")
    BY <1>11 DEF RememberHistory, telegram
  <2>2. Onward(a, "return") /\ UNCHANGED topics
    BY <1>1, <1>5, <2>1, RememberCalm
  <2> QED
    BY <1>3, <1>4, <1>5, <2>1, <2>2 DEF Quiet
<1>12. CASE ReturnTopic(a)
  <2>1. /\ op[a].pc = "return" /\ op[a].chat \in Chats /\ Quiet
        /\ lock' = [lock EXCEPT ![op[a].chat] = None]
    BY <1>1, <1>12, AtPlace DEF ReturnTopic, TopicSteps, memory, telegram, Quiet
  <2>2. op'[a] = WithTopic(a, op[a], op[a].topic) /\ \A b \in Threads \ {a} : op'[b] = op[b]
    BY <1>1, <1>12 DEF ReturnTopic, Go
  <2>3. lock[op[a].chat] = a /\ op[a].topic \in alive /\ op[a].topic.group = group
    BY <1>1, <1>2, <1>4, <2>1 DEF Knows
  <2>4. \A d \in Chats : lock'[d] = lock[d] \/ (a \in {"worker", "bulk"} /\ lock[d] \in {None, a})
    BY <1>1, <2>1, <2>3
  <2>5. Knows(a)'
    BY <2>1, <2>2, <2>3, KnowsTopic DEF Quiet
  <2>6. MapsCurrent'
    BY <2>1, CurrentKept
  <2> QED
    BY <1>1, <2>1, <2>2, <2>4, <2>5, <2>6, OthersKnow DEF Quiet
<1> QED
  BY <1>6, <1>7, <1>8, <1>9, <1>10, <1>11, <1>12, CreateCurrent DEF EnsureStep

(* The write of a snapshot, and what follows it. *)
LEMMA WriteCurrent ==
  ASSUME TypeOK, MapsCurrent, \A b \in Threads : Knows(b), NEW a \in Threads, WriteTopics(a)
  PROVE  MapsCurrent' /\ \A b \in Threads : Knows(b)'
<1>1. /\ OpsOK /\ op \in [Threads -> Ops] /\ op[a] \in Ops /\ op[a].pc = "save" /\ op[a].next \in Steps
      /\ Quiet /\ UNCHANGED lock
  BY TypeParts DEF WriteTopics, OpsOK, Ops, memory, telegram, Quiet
<1> DEFINE pc == op[a].next
           o == [op[a] EXCEPT !.next = "idle", !.snap = EmptyFile]
<1>2. Place(op[a]) = pc /\ pc # "save"
  BY <1>1 DEF Place, Steps, FreeSteps, ChatSteps, TopicSteps
<1>3. op'[a] = Then(o, pc) /\ \A b \in Threads \ {a} : op'[b] = op[b]
  BY <1>1 DEF WriteTopics, Go
<1>4. o \in Ops /\ o.chat = op[a].chat /\ o.topic = op[a].topic /\ o.group = op[a].group
  BY <1>1, IdleType DEF Good, Idle, Ops, Steps, FreeSteps
<1> HIDE DEF o
<1>5. CASE pc = "idle"
  <2>1. op'[a].pc = "idle"
    BY <1>3, <1>5 DEF Then, Idle
  <2>2. Knows(a)' /\ MapsCurrent'
    BY <1>1, <2>1, KnowsFree, CurrentKept
  <2> QED
    BY <1>1, <1>3, <2>2, OthersKnow DEF Quiet
<1>6. CASE pc # "idle"
  <2>1. op'[a] = [o EXCEPT !.pc = pc]
    BY <1>3, <1>6 DEF Then
  <2>2. op'[a].pc = pc /\ op'[a].chat = op[a].chat /\ op'[a].topic = op[a].topic /\ op'[a].group = op[a].group
    BY <1>4, <2>1 DEF Ops
  <2>3. Place(op'[a]) = pc
    BY <1>2, <2>2 DEF Place
  <2>4. Knows(a)
    OBVIOUS
  <2>5. Knows(a)'
    BY <1>1, <1>2, <2>2, <2>3, <2>4 DEF Knows, Quiet
  <2>6. MapsCurrent'
    BY <1>1, CurrentKept
  <2> QED
    BY <1>1, <1>3, <2>5, <2>6, OthersKnow DEF Quiet
<1> QED
  BY <1>5, <1>6

(* ensure_topic, before the lock. *)
LEMMA EnsureTopicCurrent ==
  ASSUME TypeOK, MapsCurrent, \A b \in Threads : Knows(b), NEW a \in {"worker", "bulk"},
         NEW o, o.chat \in Chats, [o EXCEPT !.pc = "lock"].pc = "lock", Quiet, UNCHANGED lock,
         EnsureTopic(a, o)
  PROVE  MapsCurrent' /\ \A b \in Threads : Knows(b)'
<1> DEFINE c == o.chat
           n == [o EXCEPT !.pc = "lock"]
<1>1. op \in [Threads -> Ops] /\ a \in Threads
  BY DEF TypeOK, Threads
<1>2. c \in Chats /\ n.pc = "lock"
  OBVIOUS
<1>3. Go(a, CASE ~Ready -> WithoutTopic(a)
              [] Ready /\ topics[c] # None -> WithTopic(a, o, topics[c])
              [] OTHER -> n)
  BY DEF EnsureTopic
<1> HIDE DEF n
<1>4. /\ \A b \in Threads \ {a} : op'[b] = op[b]
      /\ \/ op'[a] = WithoutTopic(a)
         \/ topics[c] # None /\ op'[a] = WithTopic(a, o, topics[c])
         \/ op'[a] = n
  BY <1>1, <1>3 DEF Go
<1>5. op'[a] = n => Knows(a)'
  BY <1>1, <1>2, KnowsFree
<1>6. topics[c] # None /\ op'[a] = WithTopic(a, o, topics[c]) => Knows(a)'
  BY <1>2, KnowsTopic DEF MapsCurrent, Quiet
<1>7. Knows(a)'
  BY <1>4, <1>5, <1>6, KnowsNone
<1>8. MapsCurrent'
  BY CurrentKept
<1> QED
  BY <1>1, <1>4, <1>7, <1>8, OthersKnow DEF Quiet

(* The worker's own steps. *)
LEMMA WorkerCurrent ==
  ASSUME TypeOK, MapsCurrent, \A b \in Threads : Knows(b),
         TakeJob \/ SendFresh \/ RememberFresh \/ ScheduleTopicRefresh
  PROVE  MapsCurrent' /\ \A b \in Threads : Knows(b)'
<1> DEFINE w == "worker"
<1>1. /\ OpsOK /\ op \in [Threads -> Ops] /\ w \in Threads /\ op[w] \in Ops /\ Knows(w)
  BY TypeParts DEF Threads, OpsOK
<1>2. UNCHANGED <<group, lock, alive, made, unanswered>>
  BY DEF TakeJob, SendFresh, RememberFresh, ScheduleTopicRefresh, memory, telegram
<1>3. ASSUME UNCHANGED topics, NEW pc \in {"sent", "refresh"}, Onward(w, pc), op[w].pc \in {"send", "sent"}
      PROVE  MapsCurrent' /\ \A b \in Threads : Knows(b)'
  <2>1. Place(op[w]) \in TopicSteps /\ pc \notin Locked /\ pc \notin {"create", "edit"}
    BY <1>3 DEF Place, TopicSteps, Locked
  <2>2. Quiet
    BY <1>2, <1>3 DEF Quiet
  <2>3. Knows(w)' /\ MapsCurrent'
    BY <1>1, <1>3, <2>1, <2>2, KnowsOnward, CurrentKept
  <2> QED
    BY <1>1, <1>2, <1>3, <2>3, OthersKnow DEF Onward
<1>4. {"sent", "refresh"} \subseteq Steps /\ {"send", "sent"} \subseteq TopicSteps
  BY DEF Steps, TopicSteps
<1>5. CASE TakeJob
  <2>1. queue \in Seq(Jobs) /\ queue # <<>>
    BY <1>5 DEF TakeJob, TypeOK
  <2>2. Head(queue) \in Jobs
    BY <2>1, HeadTailProperties
  <2>3. Head(queue).chat \in Chats
    BY <2>2 DEF Jobs
  <2>4. Quiet /\ UNCHANGED lock
    BY <1>5 DEF TakeJob, memory, telegram, Quiet
  <2> DEFINE o == [Idle EXCEPT !.chat = Head(queue).chat, !.batch = Head(queue).batch]
  <2>5. EnsureTopic("worker", o)
    BY <1>5 DEF TakeJob
  <2>6. o.chat = Head(queue).chat /\ [o EXCEPT !.pc = "lock"].pc = "lock"
    BY DEF Idle
  <2> HIDE DEF o
  <2> QED
    BY <2>3, <2>4, <2>5, <2>6, EnsureTopicCurrent
<1>6. CASE SendFresh
  <2>1. op[w].pc = "send" /\ SendText(w, op[w], op[w].batch, "sent")
    BY <1>6 DEF SendFresh
  <2>2. Onward(w, "sent") /\ UNCHANGED memory
    BY <1>1, <1>2, <1>4, <2>1, SendTextCalm
  <2> QED
    BY <1>3, <2>1, <2>2 DEF memory
<1>7. CASE RememberFresh
  <2>1. op[w].pc = "sent" /\ RememberLastMessage(w, op[w], op[w].batch, "refresh")
    BY <1>7 DEF RememberFresh
  <2>2. Onward(w, "refresh") /\ UNCHANGED topics
    BY <1>1, <1>4, <2>1, RememberCalm
  <2> QED
    BY <1>3, <2>1, <2>2
<1>8. CASE ScheduleTopicRefresh
  <2>1. Quiet
    BY <1>8 DEF ScheduleTopicRefresh, memory, telegram, Quiet
  <2>2. op[w].pc = "refresh" /\ op[w].chat \in Chats
    BY <1>1, <1>8, AtPlace DEF ScheduleTopicRefresh, TopicSteps
  <2>3. Idle.pc = "idle" /\ \A c \in Chats : [At("start") EXCEPT !.chat = c].pc = "start"
    BY DEF At, Idle
  <2>4. op[w].chat \in Threads /\ op[w].chat # w /\ op[w].chat # "admin"
    BY <2>2, TopicsAssumption DEF Threads, Refreshers
  <2>5. PICK c \in Chats : c = op[w].chat
    BY <2>2
  <2>6. \/ op' = [op EXCEPT ![w] = Idle]
        \/ op' = [op EXCEPT ![w] = Idle, ![c] = [At("start") EXCEPT !.chat = c]]
    BY <1>8, <2>5 DEF ScheduleTopicRefresh
  <2>7. /\ op'[w] = Idle
        /\ op'[c] = op[c] \/ op'[c] = [At("start") EXCEPT !.chat = c]
        /\ \A b \in Threads \ {w, c} : op'[b] = op[b]
    BY <1>1, <2>4, <2>5, <2>6
  <2>8. Knows(w)'
    BY <1>1, <2>3, <2>7, KnowsFree
  <2>9. op'[c] = op[c] \/ Knows(c)'
    BY <2>3, <2>4, <2>5, <2>7, KnowsFree
  <2>10. \A b \in Threads : Knows(b)' \/ (b # w /\ op'[b] = op[b])
    BY <2>4, <2>5, <2>7, <2>8, <2>9
  <2>11. MapsCurrent'
    BY <2>1, CurrentKept
  <2> QED
    BY <1>1, <1>2, <2>1, <2>10, <2>11, OthersKnow DEF Quiet
<1> QED
  BY <1>5, <1>6, <1>7, <1>8

(* The refreshers: a topic that is there is not unlinked. *)
LEMMA RefresherCurrent ==
  ASSUME TypeOK, MapsCurrent, \A b \in Threads : Knows(b), NEW r \in Chats,
         StartRefresh(r) \/ EditTopic(r) \/ SendStats(r)
  PROVE  MapsCurrent' /\ \A b \in Threads : Knows(b)'
<1>1. /\ OpsOK /\ op \in [Threads -> Ops] /\ r \in Threads /\ op[r] \in Ops /\ Knows(r)
      /\ r \notin {"worker", "bulk", "admin"}
  BY TypeParts, TopicsAssumption DEF Threads, Refreshers, OpsOK
<1>2. UNCHANGED <<group, lock, alive, made, unanswered>>
  BY DEF StartRefresh, EditTopic, SendStats, memory, telegram
<1>3. ASSUME UNCHANGED topics, Knows(r)', \A b \in Threads \ {r} : op'[b] = op[b]
      PROVE  MapsCurrent' /\ \A b \in Threads : Knows(b)'
  <2>1. MapsCurrent'
    BY <1>2, <1>3, CurrentKept DEF Quiet
  <2> QED
    BY <1>1, <1>2, <1>3, <2>1, OthersKnow
<1>4. ASSUME Go(r, Idle) PROVE Knows(r)' /\ \A b \in Threads \ {r} : op'[b] = op[b]
  <2>1. op'[r] = Idle /\ \A b \in Threads \ {r} : op'[b] = op[b]
    BY <1>1, <1>4 DEF Go
  <2>2. op'[r].pc = "idle"
    BY <2>1 DEF Idle
  <2> QED
    BY <1>1, <2>1, <2>2, KnowsFree
<1>5. "stats" \in Steps /\ "idle" \in Steps /\ {"edit", "stats"} \subseteq TopicSteps
  BY DEF Steps, TopicSteps, FreeSteps
<1>6. CASE StartRefresh(r)
  <2>1. UNCHANGED topics
    BY <1>6 DEF StartRefresh, memory
  <2> DEFINE n == [op[r] EXCEPT !.pc = "edit", !.topic = topics[r], !.group = group]
  <2>2. CASE topics[r] # None /\ Go(r, n)
    <3>1. n.pc = "edit" /\ n.topic = topics[r] /\ n.group = group
      BY <1>1 DEF Ops
    <3>2. op'[r] = n /\ \A b \in Threads \ {r} : op'[b] = op[b]
      BY <1>1, <2>2 DEF Go
    <3>3. topics[r] \in alive /\ topics[r].group = group
      BY <2>2 DEF MapsCurrent
    <3> HIDE DEF n
    <3>4. Knows(r)'
      BY <1>1, <1>2, <3>1, <3>2, <3>3 DEF Knows, Place, Locked
    <3> QED
      BY <1>3, <2>1, <3>2, <3>4
  <2>3. CASE Go(r, Idle)
    BY <1>3, <1>4, <2>1, <2>3
  <2> QED
    BY <1>6, <2>2, <2>3 DEF StartRefresh
<1>7. CASE EditTopic(r)
  <2>1. op[r].pc = "edit" /\ op[r].topic \in Topics /\ Place(op[r]) = "edit"
    BY <1>1, <1>5, <1>7, AtPlace DEF EditTopic, Place
  <2>2. op[r].topic \in alive /\ op[r].topic.group = group /\ op[r].group = group
    BY <1>1, <1>5, <2>1 DEF Knows
  <2>3. Topic(op[r].group, op[r].topic.id) = op[r].topic
    BY <2>1, <2>2 DEF Topics, Topic
  <2>4. UNCHANGED topics /\ (Save(r, op[r], "stats") \/ Go(r, Idle))
    BY <1>7, <2>2, <2>3 DEF EditTopic, memory
  <2>5. CASE Save(r, op[r], "stats")
    <3>1. Onward(r, "stats")
      BY <1>1, <1>5, <2>5, GoOnward
    <3>2. Knows(r)'
      BY <1>1, <1>2, <1>5, <2>1, <2>4, <3>1, KnowsOnward DEF Quiet
    <3> QED
      BY <1>3, <2>4, <3>1, <3>2 DEF Onward
  <2> QED
    BY <1>3, <1>4, <2>4, <2>5
<1>8. CASE SendStats(r)
  <2>1. op[r].pc = "stats" /\ SendText(r, op[r], {}, "idle")
    BY <1>8 DEF SendStats
  <2>2. Onward(r, "idle") /\ UNCHANGED memory
    BY <1>1, <1>2, <1>5, <2>1, SendTextCalm
  <2>3. "idle" \notin TopicSteps /\ UNCHANGED topics
    BY <2>2 DEF TopicSteps, memory
  <2>4. Knows(r)'
    BY <1>1, <1>2, <2>2, <2>3, KnowsOnward DEF Quiet
  <2> QED
    BY <1>3, <2>2, <2>3, <2>4 DEF Onward
<1> QED
  BY <1>6, <1>7, <1>8

(* The bulk sync's own steps. *)
LEMMA BulkCurrent ==
  ASSUME TypeOK, MapsCurrent, \A b \in Threads : Knows(b), StartSync \/ NextChat
  PROVE  MapsCurrent' /\ \A b \in Threads : Knows(b)'
<1>1. op \in [Threads -> Ops] /\ "bulk" \in Threads
  BY DEF TypeOK, Threads
<1>2. Quiet /\ UNCHANGED lock
  BY DEF StartSync, NextChat, memory, telegram, Quiet
<1>3. ASSUME NEW pc \in {"idle", "next"}, op' = [op EXCEPT !["bulk"] = At(pc)]
      PROVE  MapsCurrent' /\ \A b \in Threads : Knows(b)'
  <2>1. op'["bulk"].pc = pc /\ \A b \in Threads \ {"bulk"} : op'[b] = op[b]
    BY <1>1, <1>3 DEF At, Idle
  <2>2. Knows("bulk")' /\ MapsCurrent'
    BY <1>1, <1>2, <2>1, KnowsFree, CurrentKept
  <2> QED
    BY <1>1, <1>2, <2>1, <2>2, OthersKnow DEF Quiet
<1>4. At("idle") = Idle
  BY DEF At, Idle
<1>5. CASE StartSync
  BY <1>3, <1>5 DEF StartSync, Go
<1>6. CASE NextChat
  <2>1. CASE Go("bulk", Idle)
    BY <1>3, <1>4, <2>1 DEF Go
  <2>2. CASE \E c \in pending : EnsureTopic("bulk", [Idle EXCEPT !.chat = c])
    <3>1. PICK c \in pending : EnsureTopic("bulk", [Idle EXCEPT !.chat = c])
      BY <2>2
    <3>2. c \in Chats
      BY DEF TypeOK
    <3>3. [Idle EXCEPT !.chat = c].chat = c /\ [[Idle EXCEPT !.chat = c] EXCEPT !.pc = "lock"].pc = "lock"
      BY DEF Idle
    <3> QED
      BY <1>2, <3>1, <3>2, <3>3, EnsureTopicCurrent
  <2> QED
    BY <1>6, <2>1, <2>2 DEF NextChat
<1> QED
  BY <1>5, <1>6

(* The commands that leave the topics alone; the others end the calm. *)
LEMMA AdministratorCurrent ==
  ASSUME TypeOK, MapsCurrent, \A b \in Threads : Knows(b), calm', Administrator
  PROVE  MapsCurrent' /\ \A b \in Threads : Knows(b)'
<1>1. op \in [Threads -> Ops] /\ "admin" \in Threads /\ Place(op["admin"]) \in {"idle", "import"}
  BY DEF TypeOK, Threads, Knows
<1>2. ASSUME Quiet, UNCHANGED lock, NEW o, o.pc \in {"idle", "import"}, Go("admin", o)
      PROVE  MapsCurrent' /\ \A b \in Threads : Knows(b)'
  <2>1. op'["admin"] = o /\ \A b \in Threads \ {"admin"} : op'[b] = op[b]
    BY <1>1, <1>2 DEF Go
  <2>2. Knows("admin")' /\ MapsCurrent'
    BY <1>2, <2>1, CurrentKept DEF Knows, Place, TopicSteps
  <2> QED
    BY <1>1, <1>2, <2>1, <2>2, OthersKnow DEF Quiet
<1>3. CASE \E g \in Groups : SetupSyncChat(g)
  <2>1. PICK g \in Groups : SetupSyncChat(g)
    BY <1>3
  <2>2. group = g /\ Quiet /\ UNCHANGED lock /\ Go("admin", Idle)
    BY <2>1 DEF SetupSyncChat, memory, telegram, Quiet
  <2>3. Idle.pc = "idle"
    BY DEF Idle
  <2> QED
    BY <1>2, <2>2, <2>3
<1>4. CASE ImportLegacy
  <2> DEFINE o == [At("import") EXCEPT !.group = group, !.snap = FileOf(topics, last)]
  <2>1. o.pc = "import"
    BY DEF At, Idle
  <2>2. Quiet /\ UNCHANGED lock /\ Go("admin", o)
    BY <1>4 DEF ImportLegacy, memory, telegram, Quiet
  <2> HIDE DEF o
  <2> QED
    BY <1>2, <2>1, <2>2
<1>5. CASE ClearTopics \/ ApplyTopics
  BY <1>1, <1>5 DEF ClearTopics, ApplyTopics, Place
<1>6. CASE DeleteSyncChat \/ ApplyGroup
  BY <1>6 DEF DeleteSyncChat, ApplyGroup
<1>7. CASE WriteTopics("admin")
  BY <1>1, <1>7, WriteCurrent
<1> QED
  BY <1>3, <1>4, <1>5, <1>6, <1>7 DEF Administrator

(* One step, of any thread, while the calm lasts. *)
LEMMA CalmStep == TypeOK /\ CalmInv /\ [Next]_vars => CalmInv'
<1> DEFINE Known == MapsCurrent /\ \A b \in Threads : Knows(b)
<1>1. [Next]_vars /\ calm' => calm
  BY DEF Next, vars, NewOrder, NewMessages, Worker, TakeJob, EnsureStep, LockTopic, CreateTopic, CreationFails,
         SendHeader, LoadHistory, PostHistory, RememberHistory, ReturnTopic, SendFresh, RememberFresh,
         ScheduleTopicRefresh, WriteTopics, BulkSync, StartSync, NextChat, Refresher, StartRefresh, EditTopic,
         SendStats, Administrator, SetupSyncChat, DeleteSyncChat, ClearTopics, ImportLegacy, ApplyGroup,
         ApplyTopics, DeleteTopic, Restart
<1> SUFFICES ASSUME TypeOK, Known, calm', [Next]_vars PROVE Known'
  BY <1>1 DEF CalmInv
<1>2. ASSUME UNCHANGED <<group, topics, lock, op, alive, made, unanswered>> PROVE Known'
  <2>1. MapsCurrent'
    BY <1>2, CurrentKept DEF Quiet
  <2>2. \A b \in Threads : Knows(b)'
    BY <1>2 DEF Knows
  <2> QED
    BY <2>1, <2>2
<1> HIDE DEF Known
<1>3. MapsCurrent /\ (\A b \in Threads : Knows(b)) /\ (MapsCurrent' /\ (\A b \in Threads : Knows(b)') => Known')
  BY DEF Known
<1>4. CASE \E c \in Chats : NewOrder(c) \/ \E n \in 1..2 : NewMessages(c, n)
  BY <1>2, <1>4 DEF NewOrder, NewMessages, memory, telegram
<1>5. CASE Worker
  BY <1>3, <1>5, EnsureCurrent, WriteCurrent, WorkerCurrent DEF Worker, Threads
<1>6. CASE BulkSync
  BY <1>3, <1>6, EnsureCurrent, WriteCurrent, BulkCurrent DEF BulkSync, Threads
<1>7. CASE \E c \in Chats : Refresher(c)
  BY <1>3, <1>7, WriteCurrent, RefresherCurrent DEF Refresher, Threads, Refreshers
<1>8. CASE Administrator
  BY <1>3, <1>8, AdministratorCurrent
<1>9. CASE (\E t \in Topics : DeleteTopic(t)) \/ Restart
  BY <1>9 DEF DeleteTopic, Restart
<1>10. CASE UNCHANGED vars
  BY <1>2, <1>10 DEF vars, memory, telegram
<1> QED
  BY <1>4, <1>5, <1>6, <1>7, <1>8, <1>9, <1>10 DEF Next

(***************************************************************************)
(* No chat gets a second topic while nobody deletes one, binds another     *)
(* group, imports or restarts, and but for the topics that Telegram made   *)
(* without an answer the program can use, which are linked to no chat: of  *)
(* the worker and the bulk sync, which both look before they create, the   *)
(* one that comes second looks again under the lock of the chat.           *)
(***************************************************************************)
THEOREM NoSecondTopic == Spec => []OneTopicPerChat
<1>1. Init => CalmInv
  <2> SUFFICES ASSUME Init PROVE CalmInv
    OBVIOUS
  <2>1. MapsCurrent
    BY DEF Init, NoTopics, MapsCurrent
  <2>2. \A a \in Threads : Place(op[a]) = "idle"
    BY DEF Init, Idle, Place
  <2>3. \A a \in Threads : Knows(a)
    BY <2>2 DEF Knows, TopicSteps, Locked
  <2> QED
    BY <2>1, <2>3 DEF CalmInv
<1>2. TypeOK /\ CalmInv => OneTopicPerChat
  BY DEF TypeOK, CalmInv, MapsCurrent, OneTopicPerChat
<1> QED
  BY <1>1, <1>2, CalmStep, TypeInit, TypeStep, PTL DEF Spec
-----------------------------------------------------------------------------
(* How far each topic may be taken for mirrored, with any groups.  The     *)
(* invariant follows the numbers wherever they are kept: in memory, in the *)
(* file, in a snapshot on its way to the file, and in the hands of whoever *)
(* has posted messages and not yet remembered them.                        *)

(* The messages of a chat that are queued. *)
Queued(c) == {m \in Messages : \E i \in 1..Len(queue) : queue[i].chat = c /\ m \in queue[i].batch}

(* Chat c may be mirrored up to l: what is queued was tried, or is older than the history is deep. *)
Reached(c, l) ==
  l <= sent[c] /\ \A m \in Queued(c) : m <= l => m \in tried[c] \/ (Depth > 0 /\ m <= sent[c] - Depth)

(* A file names each chat's own topic, and how far it reaches. *)
FileReached(file) == \A c \in Chats : file[c].topic # None => made[file[c].topic] = c /\ Reached(c, file[c].last)

(* The topics in memory, and how far each topic reaches, linked or not. *)
TopicsReached ==
  /\ \A c \in Chats : topics[c] # None => made[topics[c]] = c
  /\ \A t \in Topics : IF made[t] = None THEN last[t] = 0 ELSE Reached(made[t], last[t])

(* The queue has the messages of a chat in their order, and all of them were sent. *)
QueueOrdered ==
  \A i \in 1..Len(queue) : \A m \in queue[i].batch :
    /\ m <= sent[queue[i].chat]
    /\ \A j \in (i + 1)..Len(queue) : queue[j].chat = queue[i].chat => \A n \in queue[j].batch : m < n

(* What a thread holds that is at pc with o: a batch that is before the queued ones, a history that is all *)
(* there is from some message on, and that was posted before it is remembered. *)
HandAt(o, pc) ==
  /\ \A m \in o.batch : o.chat \in Chats /\ m <= sent[o.chat] /\ \A n \in Queued(o.chat) : m < n
  /\ pc \in {"post", "posted"} =>
       o.chat \in Chats /\ \E newest \in 0..sent[o.chat] : o.loaded = {m \in 1..newest : m > newest - Depth}
  /\ pc = "posted" => o.loaded \subseteq tried[o.chat]

HandOK(o) == HandAt(o, Place(o))

(* Nothing sent, tried or made is taken back, and what is new in the queue was just sent. *)
Steady ==
  /\ \A c \in Chats : /\ sent[c] <= sent'[c] /\ tried[c] \subseteq tried'[c]
                      /\ \A m \in Queued(c)' : m \in Queued(c) \/ m > sent[c]
  /\ \A t \in Topics : made[t] # None => made'[t] = made[t]

HandsOK == \A a \in Threads : HandOK(op[a]) /\ FileReached(op[a].snap)

(* A step that neither sends nor makes nor queues. *)
LEMMA SteadyStill ==
  ASSUME TypeOK, UNCHANGED <<sent, queue, made>>, \A c \in Chats : tried[c] \subseteq tried'[c]
  PROVE  Steady
<1>1. \A c \in Chats : sent[c] \in Nat
  BY TopicsAssumption DEF TypeOK
<1>2. \A c \in Chats : Queued(c)' = Queued(c)
  BY DEF Queued
<1> QED
  BY <1>1, <1>2 DEF Steady

(* Telegram has one topic more, under a thread id that was not used. *)
LEMMA SteadyCreate ==
  ASSUME TypeOK, NEW a \in Threads, CreateTopic(a)
  PROVE  /\ Steady
         /\ \E t \in Topics : made[t] = None /\ made' = [made EXCEPT ![t] = op[a].chat] /\ topics' = [topics EXCEPT ![op[a].chat] = t]
                              /\ UNCHANGED last /\ Save(a, [op[a] EXCEPT !.topic = t], "header")
<1> DEFINE o == op[a]
<1>1. o.chat \in Chats /\ o.group \in Groups /\ made \in [Topics -> Chats \cup {None}]
  BY TypeParts, AtPlace DEF CreateTopic, ChatSteps, TypeOK
<1>2. PICK id \in Ids :
        /\ \A i \in Ids : made[Topic(o.group, i)] = None <=> i >= id
        /\ made' = [made EXCEPT ![Topic(o.group, id)] = o.chat]
        /\ topics' = [topics EXCEPT ![o.chat] = Topic(o.group, id)]
        /\ UNCHANGED last
        /\ Save(a, [o EXCEPT !.topic = Topic(o.group, id)], "header")
  <2>1. PICK id \in Ids :
          /\ Makes(Topic(o.group, id), o.chat)
          /\ topics' = [topics EXCEPT ![o.chat] = Topic(o.group, id)]
          /\ UNCHANGED last
          /\ Save(a, [o EXCEPT !.topic = Topic(o.group, id)], "header")
    BY DEF CreateTopic
  <2>2. made' = [made EXCEPT ![Topic(o.group, id)] = o.chat]
    BY <2>1 DEF Makes
  <2>3. \A i \in Ids : made[Topic(o.group, i)] = None <=> i >= id
    BY <1>1, <2>1, MakesNew
  <2> QED
    BY <2>1, <2>2, <2>3
<1> DEFINE t == Topic(o.group, id)
<1>3. t \in Topics /\ made[t] = None
  BY <1>1, <1>2, TopicsAssumption DEF Topic, Topics
<1>4. UNCHANGED <<sent, queue, tried>>
  BY DEF CreateTopic, history
<1>5. \A c \in Chats : sent[c] \in Nat /\ Queued(c)' = Queued(c)
  BY <1>4, TopicsAssumption DEF TypeOK, Queued
<1>6. \A u \in Topics : made[u] # None => made'[u] = made[u]
  <2> HIDE DEF t
  <2> QED
    BY <1>1, <1>2, <1>3 DEF t
<1>7. Steady
  BY <1>4, <1>5, <1>6 DEF Steady
<1> QED
  BY <1>2, <1>3, <1>7

(* What is handed to send_text was tried. *)
LEMMA SendTries ==
  ASSUME TypeOK, NEW a, NEW o, NEW batch, NEW pc, SendText(a, o, batch, pc)
  PROVE  \A c \in Chats : tried[c] \subseteq tried'[c]
BY DEF SendText, TypeOK

(* The jobs of the queue, and what is queued after one more and one less. *)
LEMMA QueueJobs ==
  ASSUME TypeOK
  PROVE  \A i \in 1..Len(queue) : queue[i] \in Jobs /\ queue[i].chat \in Chats /\ queue[i].batch \subseteq Messages
<1>1. queue \in Seq(Jobs)
  BY DEF TypeOK
<1>2. \A i \in 1..Len(queue) : queue[i] \in Jobs
  BY <1>1
<1>3. \A j \in Jobs : j.chat \in Chats /\ j.batch \subseteq Messages
  BY DEF Jobs
<1> QED
  BY <1>2, <1>3

(* The queue without its first job holds the others, one place earlier.    *)
LEMMA TailJobs ==
  ASSUME NEW s \in Seq(Jobs), s # <<>>
  PROVE  /\ Len(s) \in Nat /\ Len(Tail(s)) = Len(s) - 1
         /\ \A i \in 1..Len(Tail(s)) : i \in Nat /\ i + 1 \in 1..Len(s) /\ Tail(s)[i] = s[i + 1]
OBVIOUS

(* A job put on the queue adds its own messages, of its own chat.           *)
LEMMA QueuedMore ==
  ASSUME TypeOK, NEW j \in Jobs, queue' = Append(queue, j), NEW c \in Chats, NEW m \in Queued(c)'
  PROVE  m \in Queued(c) \/ (j.chat = c /\ m \in j.batch)
<1>1. queue \in Seq(Jobs)
  BY DEF TypeOK
<1>2. PICK i \in 1..Len(queue') : queue'[i].chat = c /\ m \in queue'[i].batch
  BY DEF Queued
<1>3. m \in Messages
  BY DEF Queued
<1>4. CASE i = Len(queue) + 1
  BY <1>1, <1>2, <1>4
<1>5. CASE i # Len(queue) + 1
  <2>1. i \in 1..Len(queue) /\ queue'[i] = queue[i]
    BY <1>1, <1>5
  <2> QED
    BY <1>2, <1>3, <2>1 DEF Queued
<1> QED
  BY <1>4, <1>5

(* Taking the first job off the queue puts no message on it.               *)
LEMMA QueuedLess ==
  ASSUME TypeOK, queue # <<>>, queue' = Tail(queue), NEW c \in Chats
  PROVE  Queued(c)' \subseteq Queued(c)
<1>1. queue \in Seq(Jobs)
  BY DEF TypeOK
<1> SUFFICES ASSUME NEW m \in Queued(c)'
             PROVE  m \in Queued(c)
  OBVIOUS
<1>2. PICK i \in 1..Len(queue') : queue'[i].chat = c /\ m \in queue'[i].batch
  BY DEF Queued
<1>3. m \in Messages
  BY DEF Queued
<1>4. i + 1 \in 1..Len(queue) /\ queue'[i] = queue[i + 1]
  BY <1>1
<1> QED
  BY <1>2, <1>3, <1>4 DEF Queued

(* A place of the tail and the places behind it, as places of the queue.   *)
LEMMA Shifted ==
  ASSUME NEW i \in Nat, NEW l \in Nat, NEW j \in (i + 1)..(l - 1)
  PROVE  j \in 1..(l - 1) /\ j + 1 \in ((i + 1) + 1)..l
OBVIOUS

(* The queue stays in order, whoever sends and whoever takes. *)
LEMMA QueueStep ==
  ASSUME TypeOK, TypeOK', Steady, QueueOrdered,
         \/ UNCHANGED queue
         \/ queue # <<>> /\ queue' = Tail(queue)
         \/ queue' = <<>>
         \/ \E j \in Jobs : /\ queue' = Append(queue, j)
                            /\ \A m \in j.batch : m > sent[j.chat] /\ m <= sent'[j.chat]
  PROVE  QueueOrdered'
<1>0. /\ queue \in Seq(Jobs) /\ queue' \in Seq(Jobs)
      /\ \A c \in Chats : sent[c] \in Nat /\ sent'[c] \in Nat /\ sent[c] <= sent'[c]
  BY TopicsAssumption DEF TypeOK, Steady
<1>1. \A i \in 1..Len(queue) : queue[i].chat \in Chats /\ queue[i].batch \subseteq Nat
  BY QueueJobs DEF Messages
<1>2. CASE UNCHANGED queue
  <2>1. ASSUME NEW i \in 1..Len(queue), NEW m \in queue[i].batch
        PROVE  m <= sent'[queue[i].chat]
    BY <1>0, <1>1 DEF QueueOrdered
  <2> QED
    BY <1>2, <2>1 DEF QueueOrdered
<1>3. CASE queue # <<>> /\ queue' = Tail(queue)
  <2> SUFFICES ASSUME NEW i \in 1..Len(queue'), NEW m \in queue'[i].batch
               PROVE  /\ m <= sent'[queue'[i].chat]
                      /\ \A j \in (i + 1)..Len(queue') : queue'[j].chat = queue'[i].chat => \A n \in queue'[j].batch : m < n
    BY DEF QueueOrdered
  <2>1. i + 1 \in 1..Len(queue) /\ queue'[i] = queue[i + 1] /\ Len(queue') = Len(queue) - 1
    BY <1>0, <1>3
  <2>2. m <= sent'[queue'[i].chat]
    BY <1>0, <1>1, <2>1 DEF QueueOrdered
  <2>3. /\ Len(queue) \in Nat
        /\ \A j \in 1..Len(queue') : j \in Nat /\ j + 1 \in 1..Len(queue) /\ queue'[j] = queue[j + 1]
    BY <1>0, <1>3, TailJobs
  <2>4. ASSUME NEW j \in (i + 1)..Len(queue'), queue'[j].chat = queue'[i].chat, NEW n \in queue'[j].batch
        PROVE  m < n
    <3>1. j \in (i + 1)..(Len(queue) - 1) /\ i \in Nat /\ Len(queue) \in Nat
      BY <2>1, <2>3
    <3>2. j \in 1..Len(queue') /\ j + 1 \in ((i + 1) + 1)..Len(queue)
      BY <2>1, <3>1, Shifted
    <3>3. queue'[j] = queue[j + 1]
      BY <2>3, <3>2
    <3> QED
      BY <2>1, <2>4, <3>2, <3>3 DEF QueueOrdered
  <2> QED
    BY <2>2, <2>4
<1>4. CASE queue' = <<>>
  BY <1>4 DEF QueueOrdered
<1>5. ASSUME NEW j \in Jobs, queue' = Append(queue, j), \A m \in j.batch : m > sent[j.chat] /\ m <= sent'[j.chat]
      PROVE  QueueOrdered'
  <2>1. /\ Len(queue') = Len(queue) + 1 /\ queue'[Len(queue) + 1] = j /\ Len(queue) \in Nat
        /\ \A i \in 1..Len(queue) : queue'[i] = queue[i]
    BY <1>0, <1>5
  <2>2. j.chat \in Chats /\ j.batch \subseteq Nat
    BY DEF Jobs, Messages
  <2> SUFFICES ASSUME NEW i \in 1..Len(queue'), NEW m \in queue'[i].batch
               PROVE  /\ m <= sent'[queue'[i].chat]
                      /\ \A k \in (i + 1)..Len(queue') : queue'[k].chat = queue'[i].chat => \A n \in queue'[k].batch : m < n
    BY DEF QueueOrdered
  <2>3. CASE i = Len(queue) + 1
    BY <1>5, <2>1, <2>3
  <2>4. CASE i # Len(queue) + 1
    <3>1. i \in 1..Len(queue) /\ queue'[i] = queue[i] /\ m \in queue[i].batch /\ m \in Nat
      BY <1>1, <2>1, <2>4
    <3>2. m <= sent[queue[i].chat]
      BY <3>1 DEF QueueOrdered
    <3>3. ASSUME NEW k \in (i + 1)..Len(queue'), queue'[k].chat = queue'[i].chat, NEW n \in queue'[k].batch
          PROVE  m < n
      <4>1. CASE k = Len(queue) + 1
        BY <1>0, <1>1, <1>5, <2>1, <2>2, <3>1, <3>2, <3>3, <4>1
      <4>2. CASE k # Len(queue) + 1
        <5>1. k \in (i + 1)..Len(queue) /\ queue'[k] = queue[k]
          BY <2>1, <3>1, <4>2
        <5> QED
          BY <3>1, <3>3, <5>1 DEF QueueOrdered
      <4> QED
        BY <4>1, <4>2
    <3> QED
      BY <1>0, <1>1, <3>1, <3>2, <3>3
  <2> QED
    BY <2>3, <2>4
<1> QED
  BY <1>2, <1>3, <1>4, <1>5

(* What has been reached stays reached. *)
LEMMA ReachedOn ==
  ASSUME TypeOK, TypeOK', Steady, NEW c \in Chats, NEW l \in Nat, Reached(c, l)
  PROVE  Reached(c, l)'
<1>1. sent[c] \in Nat /\ sent'[c] \in Nat /\ Depth \in Nat /\ sent[c] <= sent'[c] /\ tried[c] \subseteq tried'[c]
  BY TopicsAssumption DEF TypeOK, Steady
<1>2. ASSUME NEW m \in Queued(c)', m <= l
      PROVE  m \in tried'[c] \/ (Depth > 0 /\ m <= sent'[c] - Depth)
  <2>1. m \in Nat
    BY DEF Queued, Messages
  <2>2. m \in Queued(c)
    BY <1>1, <1>2, <2>1 DEF Steady, Reached
  <2> QED
    BY <1>1, <1>2, <2>1, <2>2 DEF Reached
<1> QED
  BY <1>1, <1>2 DEF Reached

(* What a file says of a chat stays true while the counters only grow.     *)
LEMMA FileOn ==
  ASSUME TypeOK, TypeOK', Steady, NEW file \in Files, FileReached(file)
  PROVE  FileReached(file)'
<1> SUFFICES ASSUME NEW c \in Chats, file[c].topic # None
             PROVE  made'[file[c].topic] = c /\ Reached(c, file[c].last)'
  BY DEF FileReached
<1>1. file[c].topic \in Topics /\ file[c].last \in Nat /\ made[file[c].topic] = c /\ Reached(c, file[c].last)
  BY TopicsAssumption DEF Files, FileReached
<1>2. c # None
  BY TopicsAssumption
<1>3. made'[file[c].topic] = c
  BY <1>1, <1>2 DEF Steady
<1>4. Reached(c, file[c].last)'
  <2>1. PICK l : l = file[c].last
    OBVIOUS
  <2> QED
    BY <1>1, <2>1, ReachedOn
<1> QED
  BY <1>3, <1>4

(* So does what a thread holds. *)
LEMMA HandOn ==
  ASSUME TypeOK, TypeOK', Steady, NEW o \in Ops, NEW pc, HandAt(o, pc)
  PROVE  HandAt(o, pc)'
<1>1. \A m \in o.batch : m \in Nat
  BY DEF Ops, Messages
<1>2. \A c \in Chats : sent[c] \in Nat /\ sent'[c] \in Nat /\ sent[c] <= sent'[c] /\ tried[c] \subseteq tried'[c]
  BY TopicsAssumption DEF TypeOK, Steady
<1>3. ASSUME NEW m \in o.batch
      PROVE  o.chat \in Chats /\ m <= sent'[o.chat] /\ \A n \in Queued(o.chat)' : m < n
  <2>1. o.chat \in Chats /\ m <= sent[o.chat] /\ \A n \in Queued(o.chat) : m < n
    BY DEF HandAt
  <2>2. ASSUME NEW n \in Queued(o.chat)'
        PROVE  m < n
    <3>1. n \in Nat
      BY DEF Queued, Messages
    <3> QED
      BY <1>1, <1>2, <2>1, <2>2, <3>1 DEF Steady
  <2> QED
    BY <1>1, <1>2, <2>1, <2>2
<1>4. pc \in {"post", "posted"} => o.chat \in Chats
  BY DEF HandAt
<1>5. pc \in {"post", "posted"} => \E newest \in 0..sent'[o.chat] : o.loaded = {m \in 1..newest : m > newest - Depth}
  <2> SUFFICES ASSUME pc \in {"post", "posted"}
               PROVE  \E newest \in 0..sent'[o.chat] : o.loaded = {m \in 1..newest : m > newest - Depth}
    OBVIOUS
  <2>1. PICK newest \in 0..sent[o.chat] : o.loaded = {m \in 1..newest : m > newest - Depth}
    BY DEF HandAt
  <2>2. newest \in 0..sent'[o.chat]
    BY <1>2, <1>4
  <2> QED
    BY <2>1, <2>2
<1>6. pc = "posted" => o.loaded \subseteq tried'[o.chat]
  BY <1>2, <1>4 DEF HandAt
<1> QED
  BY <1>3, <1>4, <1>5, <1>6 DEF HandAt

SkipInv == TypeOK /\ TopicsReached /\ QueueOrdered /\ LegacyOwned /\ FileReached(disk) /\ HandsOK

(* No topic and no history, nothing to hold. *)
LEMMA EmptyReached ==
  /\ FileReached(EmptyFile) /\ Idle.snap = EmptyFile /\ \A pc \in FreeSteps : At(pc).snap = EmptyFile
  /\ HandOK(Idle) /\ \A pc \in FreeSteps : HandOK(At(pc))
<1>1. FileReached(EmptyFile) /\ Idle.snap = EmptyFile /\ \A pc \in FreeSteps : At(pc).snap = EmptyFile
  BY DEF FileReached, EmptyFile, NoRecord, Idle, At
<1>2. HandOK(Idle)
  BY DEF HandOK, HandAt, Place, Idle
<1>3. ASSUME NEW pc \in FreeSteps
      PROVE  HandOK(At(pc))
  <2>1. At(pc).pc = pc /\ At(pc).batch = {} /\ pc \notin {"save", "post", "posted"}
    BY DEF At, Idle, FreeSteps
  <2> QED
    BY <2>1 DEF HandOK, HandAt, Place
<1> QED
  BY <1>1, <1>2, <1>3

(* A thread that a step leaves alone holds what it held. *)
LEMMA HandKept ==
  ASSUME SkipInv, TypeOK', Steady, NEW b \in Threads, op'[b] = op[b]
  PROVE  HandOK(op[b])' /\ FileReached(op[b].snap)'
<1>1. PICK o \in Ops : o = op[b]
  BY DEF SkipInv, TypeOK
<1>2. op'[b] = o /\ HandAt(o, Place(o)) /\ FileReached(o.snap) /\ o.snap \in Files
  BY <1>1 DEF SkipInv, HandsOK, HandOK, Ops
<1>3. PICK f \in Files : f = o.snap
  BY <1>2
<1>4. PICK pc : pc = Place(o)
  OBVIOUS
<1>5. HandAt(o, pc)'
  BY <1>2, <1>4, HandOn DEF SkipInv
<1>6. FileReached(f)'
  BY <1>2, <1>3, FileOn DEF SkipInv
<1> QED
  BY <1>2, <1>3, <1>5, <1>6, <1>4 DEF HandOK, HandAt, Place, FileReached

(* A step of the buyers and of FunPay alone leaves every worker in place.  *)
LEMMA HandsKept ==
  ASSUME SkipInv, TypeOK', Steady, UNCHANGED op
  PROVE  HandsOK'
<1>1. ASSUME NEW b \in Threads
      PROVE  HandOK(op[b])' /\ FileReached(op[b].snap)'
  BY HandKept
<1> QED
  BY <1>1 DEF HandsOK

(* One thread goes on, the others hold what they held. *)
LEMMA GoHand ==
  ASSUME SkipInv, TypeOK', Steady, NEW a \in Threads, NEW n, Go(a, n), HandOK(n)', FileReached(n.snap)'
  PROVE  HandsOK'
<1>1. op \in [Threads -> Ops] /\ op' = [op EXCEPT ![a] = n]
  BY DEF SkipInv, TypeOK, Go
<1> SUFFICES ASSUME NEW b \in Threads
             PROVE  HandOK(op[b])' /\ FileReached(op[b].snap)'
  BY DEF HandsOK
<1>2. CASE b = a
  BY <1>1, <1>2 DEF HandOK, HandAt, FileReached
<1>3. CASE b # a
  BY <1>1, <1>3, HandKept
<1> QED
  BY <1>2, <1>3

(* Going on at a step whose condition holds. *)
LEMMA ThenHand ==
  ASSUME SkipInv, TypeOK', Steady, NEW a \in Threads, NEW o \in Ops, NEW pc \in Steps,
         HandAt(o, pc)', FileReached(o.snap), Go(a, Then(o, pc))
  PROVE  HandsOK'
<1>1. CASE pc = "idle"
  <2>1. Go(a, Idle)
    BY <1>1 DEF Then
  <2>2. HandOK(Idle)' /\ FileReached(Idle.snap)'
    BY DEF HandOK, HandAt, Place, Idle, FileReached, EmptyFile, NoRecord
  <2> QED
    BY <2>1, <2>2, GoHand
<1>2. CASE pc # "idle"
  <2> DEFINE n == [o EXCEPT !.pc = pc]
  <2>1. /\ n.pc = pc /\ n.batch = o.batch /\ n.chat = o.chat /\ n.loaded = o.loaded /\ n.snap = o.snap
        /\ pc # "save" /\ o.snap \in Files
    BY DEF Ops, Steps, FreeSteps, ChatSteps, TopicSteps
  <2>2. Go(a, n)
    BY <1>2 DEF Then
  <2> HIDE DEF n
  <2>3. PICK p : p = n
    OBVIOUS
  <2>4. HandOK(p)'
    BY <2>1, <2>3 DEF HandOK, HandAt, Place
  <2>5. FileReached(p.snap)'
    <3>1. PICK f \in Files : f = p.snap
      BY <2>1, <2>3
    <3>2. FileReached(f)'
      BY <2>1, <2>3, <3>1, FileOn DEF SkipInv
    <3> QED
      BY <3>1, <3>2 DEF FileReached
  <2> QED
    BY <2>2, <2>3, <2>4, <2>5, GoHand
<1> QED
  BY <1>1, <1>2

(* A snapshot of the topics in memory. *)
LEMMA SnapReached ==
  ASSUME TypeOK', TopicsReached', NEW f, f = FileOf(topics', last')
  PROVE  FileReached(f)'
<1> SUFFICES ASSUME NEW c \in Chats, f[c].topic # None
             PROVE  made'[f[c].topic] = c /\ Reached(c, f[c].last)'
  BY DEF FileReached
<1>1. topics'[c] # None /\ f[c] = [topic |-> topics'[c], last |-> last'[topics'[c]]]
  BY DEF FileOf, NoRecord
<1>2. topics'[c] \in Topics /\ made'[topics'[c]] = c /\ c # None
  BY <1>1, TopicsAssumption DEF TypeOK, TopicsReached
<1>3. PICK l : l = last'[topics'[c]]
  OBVIOUS
<1>4. Reached(c, l)'
  BY <1>2, <1>3 DEF TopicsReached, Reached, Queued
<1> QED
  BY <1>1, <1>2, <1>3, <1>4 DEF Reached, Queued

(* A thread that is about to write. *)
LEMMA SaveHand ==
  ASSUME SkipInv, TypeOK', Steady, TopicsReached', NEW a \in Threads, NEW o \in Ops, NEW pc \in Steps,
         HandAt(o, pc)', Save(a, o, pc)
  PROVE  HandsOK'
<1>1. PICK f : f = FileOf(topics', last')
  OBVIOUS
<1>2. FileReached(f)'
  BY <1>1, SnapReached
<1> DEFINE n == [o EXCEPT !.pc = "save", !.next = pc, !.snap = f]
<1>3. n.pc = "save" /\ n.next = pc /\ n.batch = o.batch /\ n.chat = o.chat /\ n.loaded = o.loaded /\ n.snap = f
  BY DEF Ops
<1>4. Go(a, n)
  BY <1>1 DEF Save
<1> HIDE DEF n
<1>5. HandOK(n)'
  BY <1>3 DEF HandOK, HandAt, Place
<1>6. FileReached(n.snap)'
  BY <1>2, <1>3 DEF FileReached
<1> QED
  BY <1>4, <1>5, <1>6, GoHand

(* Topics may be unlinked. *)
LEMMA TopicsFewer ==
  ASSUME SkipInv, TypeOK', Steady, UNCHANGED <<made, last>>, \A c \in Chats : topics'[c] \in {None, topics[c]}
  PROVE  TopicsReached'
<1>1. \A c \in Chats : topics'[c] # None => made'[topics'[c]] = c
  BY DEF SkipInv, TopicsReached
<1>2. ASSUME NEW t \in Topics
      PROVE  IF made'[t] = None THEN last'[t] = 0 ELSE Reached(made[t], last[t])'
  <2>1. CASE made[t] = None
    BY <2>1 DEF SkipInv, TopicsReached
  <2>2. CASE made[t] # None
    <3>1. made[t] \in Chats /\ last[t] \in Nat /\ Reached(made[t], last[t])
      BY <2>2, TopicsAssumption DEF SkipInv, TypeOK, TopicsReached
    <3>2. PICK c \in Chats, l \in Nat : c = made[t] /\ l = last[t]
      BY <3>1
    <3>3. Reached(c, l)'
      BY <3>1, <3>2, ReachedOn DEF SkipInv
    <3> QED
      BY <2>2, <3>2, <3>3 DEF Reached, Queued
  <2> QED
    BY <2>1, <2>2
<1> QED
  BY <1>1, <1>2 DEF TopicsReached

(* The topics the service remembers stay reached when it learns none.      *)
LEMMA TopicsSame ==
  ASSUME SkipInv, TypeOK', Steady, UNCHANGED <<made, memory>>
  PROVE  TopicsReached'
BY TopicsFewer DEF memory

(* drop_topic *)
LEMMA DropHand ==
  ASSUME SkipInv, TypeOK', Steady, UNCHANGED made, NEW a \in Threads, NEW o \in Ops, NEW pc \in Steps,
         HandAt(o, pc)', FileReached(o.snap), o.chat \in Chats, DropTopic(a, o, pc)
  PROVE  TopicsReached' /\ HandsOK'
<1>1. CASE topics[o.chat] = None
  <2>1. Go(a, Then(o, pc)) /\ UNCHANGED memory
    BY <1>1 DEF DropTopic
  <2> QED
    BY <2>1, ThenHand, TopicsSame
<1>2. CASE topics[o.chat] # None
  <2>1. topics' = [topics EXCEPT ![o.chat] = None] /\ UNCHANGED last /\ Save(a, o, pc)
    BY <1>2 DEF DropTopic
  <2>2. TopicsReached'
    BY <2>1, TopicsFewer DEF SkipInv, TypeOK
  <2> QED
    BY <2>1, <2>2, SaveHand
<1> QED
  BY <1>1, <1>2

(* send_text *)
LEMMA SendHand ==
  ASSUME SkipInv, TypeOK', Steady, UNCHANGED made, NEW a \in Threads, NEW o \in Ops, NEW pc \in Steps,
         HandAt(o, pc)', FileReached(o.snap), o.chat \in Chats, NEW batch, SendText(a, o, batch, pc)
  PROVE  TopicsReached' /\ HandsOK'
<1>1. CASE Go(a, Then(o, pc)) /\ UNCHANGED memory
  BY <1>1, ThenHand, TopicsSame
<1>2. CASE DropTopic(a, o, pc)
  BY <1>2, DropHand
<1> QED
  BY <1>1, <1>2 DEF SendText

(* remember_last_message, of a batch that may be taken for mirrored up to its newest. *)
LEMMA RememberHand ==
  ASSUME SkipInv, TypeOK', Steady, UNCHANGED made, NEW a \in Threads, NEW o \in Ops, NEW pc \in Steps,
         HandAt(o, pc)', FileReached(o.snap), o.chat \in Chats, NEW batch \in SUBSET Messages,
         \A l \in batch : (\A m \in batch : m <= l) => Reached(o.chat, l),
         RememberLastMessage(a, o, batch, pc)
  PROVE  TopicsReached' /\ HandsOK'
<1>1. CASE Go(a, Then(o, pc)) /\ UNCHANGED memory
  BY <1>1, ThenHand, TopicsSame
<1>2. ASSUME NEW l \in batch, \A m \in batch : m <= l, topics[o.chat] # None,
             last' = [last EXCEPT ![topics[o.chat]] = l], UNCHANGED <<topics, reversed>>, Save(a, o, pc)
      PROVE  TopicsReached' /\ HandsOK'
  <2> DEFINE u == topics[o.chat]
  <2>1. u \in Topics /\ made[u] = o.chat /\ u # None /\ l \in Nat /\ o.chat # None
    BY <1>2, TopicsAssumption DEF SkipInv, TypeOK, TopicsReached, Messages
  <2> HIDE DEF u
  <2>2. \A t \in Topics : last'[t] = IF t = u THEN l ELSE last[t]
    BY <1>2, <2>1 DEF u, SkipInv, TypeOK
  <2>3. ASSUME NEW t \in Topics
        PROVE  IF made'[t] = None THEN last'[t] = 0 ELSE Reached(made[t], last[t])'
    <3>1. CASE made[t] = None
      BY <2>1, <2>2, <3>1 DEF SkipInv, TopicsReached
    <3>2. CASE made[t] # None
      <4>1. made[t] \in Chats /\ last'[t] \in Nat /\ Reached(made[t], last'[t])
        <5>1. made[t] \in Chats /\ last[t] \in Nat
          BY <3>2, TopicsAssumption DEF SkipInv, TypeOK
        <5>2. Reached(made[t], last[t])
          BY <3>2 DEF SkipInv, TopicsReached
        <5>3. Reached(o.chat, l)
          BY <1>2
        <5> QED
          BY <2>1, <2>2, <5>1, <5>2, <5>3
      <4>2. PICK c \in Chats, k \in Nat : c = made[t] /\ k = last'[t]
        BY <4>1
      <4>3. Reached(c, k)'
        BY <4>1, <4>2, ReachedOn DEF SkipInv
      <4> QED
        BY <3>2, <4>2, <4>3 DEF Reached, Queued
    <3> QED
      BY <3>1, <3>2
  <2>4. TopicsReached'
    BY <1>2, <2>3 DEF SkipInv, TopicsReached
  <2> QED
    BY <1>2, <2>4, SaveHand
<1> QED
  BY <1>1, <1>2 DEF RememberLastMessage

(* A thread that keeps its batch and goes on elsewhere. *)
LEMMA HandElsewhere ==
  ASSUME SkipInv, TypeOK', Steady, NEW o \in Ops, NEW q, HandAt(o, q), NEW pc, pc \notin {"post", "posted"}
  PROVE  HandAt(o, pc)'
<1>1. HandAt(o, pc)
  BY DEF HandAt
<1> QED
  BY <1>1, HandOn DEF SkipInv

(* What ensure_topic gives its caller. *)
LEMMA WithTopicHand ==
  ASSUME NEW a, NEW o \in Ops, HandAt(o, "idle")', NEW t, NEW n, n = WithTopic(a, o, t) \/ n = WithoutTopic(a)
  PROVE  HandOK(n)' /\ FileReached(n.snap)'
<1>1. PICK fresh \in SUBSET o.batch :
        n \in {Idle, At("next"), [At("send") EXCEPT !.chat = o.chat, !.topic = t, !.batch = fresh]}
  BY DEF WithTopic, WithoutTopic
<1>2. n.snap = EmptyFile
  <2>1. Idle.snap = EmptyFile /\ At("next").snap = EmptyFile /\ At("send").snap = EmptyFile
    BY DEF At, Idle
  <2>2. [At("send") EXCEPT !.chat = o.chat, !.topic = t, !.batch = fresh].snap = At("send").snap
    BY DEF At, Idle
  <2> QED
    BY <1>1, <2>1, <2>2
<1>3. FileReached(n.snap)'
  BY <1>2 DEF FileReached, EmptyFile, NoRecord
<1>4. CASE n \in {Idle, At("next")}
  <2>1. n.pc \in {"idle", "next"} /\ n.batch = {}
    BY <1>4 DEF Idle, At
  <2> QED
    BY <1>3, <2>1 DEF HandOK, HandAt, Place
<1>5. CASE n = [At("send") EXCEPT !.chat = o.chat, !.topic = t, !.batch = fresh]
  <2>1. n.pc = "send" /\ n.batch = fresh /\ n.chat = o.chat
    BY <1>5 DEF Idle, At
  <2> QED
    BY <1>1, <1>3, <2>1 DEF HandOK, HandAt, Place
<1> QED
  BY <1>1, <1>4, <1>5

(* A step that leaves the topics alone, of a thread that goes on with what is in order. *)
LEMMA QuietHand ==
  ASSUME SkipInv, TypeOK', Steady, UNCHANGED <<made, memory>>, NEW a \in Threads, NEW n, Go(a, n),
         HandOK(n)', FileReached(n.snap)'
  PROVE  TopicsReached' /\ HandsOK'
BY GoHand, TopicsSame

(* What a thread holds, at its place. *)
LEMMA HandHere ==
  ASSUME SkipInv, NEW a \in Threads, op[a].pc # "save"
  PROVE  /\ op[a] \in Ops /\ FileReached(op[a].snap) /\ HandAt(op[a], op[a].pc)
         /\ op[a].pc \in ChatSteps \cup TopicSteps => op[a].chat \in Chats
<1>1. OpsOK
  BY TypeParts DEF SkipInv
<1> QED
  BY <1>1, AtPlace DEF SkipInv, HandsOK, HandOK, Place

(* A thread goes on at another step with a batch it had. *)
LEMMA GoElsewhere ==
  ASSUME SkipInv, TypeOK', Steady, UNCHANGED <<made, memory>>, NEW a \in Threads, NEW o \in Ops, NEW q, HandAt(o, q),
         FileReached(o.snap), NEW n \in Ops, n.pc \notin {"save", "post", "posted"},
         n.batch = o.batch, n.chat = o.chat, n.snap = o.snap, Go(a, n)
  PROVE  TopicsReached' /\ HandsOK'
<1>1. HandAt(o, n.pc)'
  <2>1. PICK pc : pc = n.pc
    OBVIOUS
  <2>2. HandAt(o, pc)'
    BY <2>1, HandElsewhere
  <2> QED
    BY <2>1, <2>2
<1>2. HandOK(n)'
  BY <1>1 DEF HandOK, HandAt, Place
<1>3. PICK f \in Files : f = n.snap
  BY DEF Ops
<1>4. FileReached(f)'
  BY <1>3, FileOn DEF SkipInv
<1> QED
  BY <1>2, <1>3, <1>4, QuietHand

(* The last messages of a chat, posted, are all that is mirrored now. *)
LEMMA HistoryReached ==
  ASSUME TypeOK, NEW o, HandAt(o, "posted"), NEW l \in o.loaded, \A m \in o.loaded : m <= l
  PROVE  Reached(o.chat, l)
<1>1. PICK newest \in 0..sent[o.chat] : o.loaded = {m \in 1..newest : m > newest - Depth}
  BY DEF HandAt
<1>2. o.chat \in Chats /\ o.loaded \subseteq tried[o.chat]
  BY DEF HandAt
<1>3. sent[o.chat] \in Nat /\ Depth \in Nat
  BY <1>2, TopicsAssumption DEF TypeOK
<1>4. newest \in o.loaded
  BY <1>1, <1>3
<1>5. l = newest
  BY <1>1, <1>3, <1>4
<1>6. ASSUME NEW m \in Queued(o.chat), m <= l
      PROVE  m \in tried[o.chat] \/ (Depth > 0 /\ m <= sent[o.chat] - Depth)
  <2>1. m \in Nat /\ m >= 1
    BY DEF Queued, Messages
  <2> QED
    BY <1>1, <1>2, <1>3, <1>5, <1>6, <2>1
<1> QED
  BY <1>1, <1>3, <1>5, <1>6 DEF Reached

(* A topic is made: nothing in it is mirrored yet. *)
LEMMA CreateHand ==
  ASSUME SkipInv, TypeOK', NEW a \in Threads, CreateTopic(a)
  PROVE  Steady /\ TopicsReached' /\ HandsOK'
<1>1. PICK o : o = op[a]
  OBVIOUS
<1>2. o \in Ops /\ HandAt(o, "create") /\ FileReached(o.snap) /\ o.chat \in Chats
  BY <1>1, HandHere DEF CreateTopic, ChatSteps
<1>3. /\ Steady
      /\ \E t \in Topics : made[t] = None /\ made' = [made EXCEPT ![t] = o.chat] /\ topics' = [topics EXCEPT ![o.chat] = t]
                           /\ UNCHANGED last /\ Save(a, [o EXCEPT !.topic = t], "header")
  BY <1>1, SteadyCreate DEF SkipInv
<1>4. PICK t \in Topics : /\ made[t] = None /\ made' = [made EXCEPT ![t] = o.chat]
                          /\ topics' = [topics EXCEPT ![o.chat] = t]
                          /\ UNCHANGED last /\ Save(a, [o EXCEPT !.topic = t], "header")
  BY <1>3
<1>5. /\ None \notin Chats /\ o.chat # None
      /\ made \in [Topics -> Chats \cup {None}] /\ topics \in [Chats -> Topics \cup {None}] /\ last \in [Topics -> 0..MaxMessages]
  BY <1>2, TopicsAssumption DEF SkipInv, TypeOK
<1>6. ASSUME NEW c \in Chats, topics'[c] # None
      PROVE  made'[topics'[c]] = c
  <2>1. CASE c = o.chat
    BY <1>4, <1>5, <2>1
  <2>2. CASE c # o.chat
    <3>1. topics'[c] = topics[c] /\ topics[c] \in Topics /\ made[topics[c]] = c
      BY <1>4, <1>5, <1>6, <2>2 DEF SkipInv, TopicsReached
    <3> QED
      BY <1>3, <1>5, <3>1 DEF Steady
  <2> QED
    BY <2>1, <2>2
<1>7. ASSUME NEW u \in Topics
      PROVE  IF made'[u] = None THEN last'[u] = 0 ELSE Reached(made[u], last[u])'
  <2>1. CASE u = t
    <3>1. made'[u] = o.chat /\ last'[u] = 0
      BY <1>4, <1>5, <2>1 DEF SkipInv, TopicsReached
    <3>2. Reached(o.chat, 0)'
      <4>1. sent'[o.chat] \in Nat
        BY <1>2, TopicsAssumption DEF TypeOK
      <4> QED
        BY <4>1 DEF Reached, Queued, Messages
    <3> QED
      BY <1>5, <3>1, <3>2 DEF Reached, Queued
  <2>2. CASE u # t
    <3>1. made'[u] = made[u] /\ last'[u] = last[u]
      BY <1>4, <1>5, <2>2
    <3>2. CASE made[u] = None
      BY <3>1, <3>2 DEF SkipInv, TopicsReached
    <3>3. CASE made[u] # None
      <4>1. PICK c \in Chats, l \in Nat : c = made[u] /\ l = last[u]
        BY <1>5, <3>3, TopicsAssumption
      <4>2. Reached(c, l)'
        BY <1>3, <3>3, <4>1, ReachedOn DEF SkipInv, TopicsReached
      <4> QED
        BY <3>1, <3>3, <4>1, <4>2 DEF Reached, Queued
    <3> QED
      BY <3>2, <3>3
  <2> QED
    BY <2>1, <2>2
<1>8. TopicsReached'
  BY <1>6, <1>7 DEF TopicsReached
<1>9. PICK n : n = [o EXCEPT !.topic = t]
  OBVIOUS
<1>10. n \in Ops /\ n.batch = o.batch /\ n.chat = o.chat
  BY <1>2, <1>9 DEF Ops
<1>11. HandAt(n, "header")'
  <2>1. HandAt(o, "header")'
    BY <1>2, <1>3, HandElsewhere
  <2> QED
    BY <1>10, <2>1 DEF HandAt
<1>12. "header" \in Steps
  BY DEF Steps, TopicSteps
<1> QED
  BY <1>3, <1>4, <1>8, <1>9, <1>10, <1>11, <1>12, SaveHand

(* A creation without an answer: nothing is mirrored in a topic that is new. *)
LEMMA FailHand ==
  ASSUME SkipInv, TypeOK', NEW a \in Threads, CreationFails(a)
  PROVE  Steady /\ TopicsReached' /\ HandsOK'
<1>1. PICK o : o = op[a]
  OBVIOUS
<1>2. /\ o \in Ops /\ HandAt(o, "create") /\ o.chat \in Chats /\ o.group \in Groups
      /\ NoAnswer(o) /\ UNCHANGED <<sent, queue, tried, memory>> /\ TypeOK
  BY <1>1, HandHere, TypeParts, AtPlace DEF CreationFails, ChatSteps, SkipInv, history
<1>3. \A u \in Topics : made[u] # None => made'[u] = made[u]
  BY <1>2, NoAnswerType
<1>4. \A c \in Chats : sent[c] \in Nat /\ Queued(c)' = Queued(c)
  BY <1>2, TopicsAssumption DEF TypeOK, Queued
<1>5. Steady
  BY <1>2, <1>3, <1>4 DEF Steady
<1>6. /\ None \notin Chats /\ topics \in [Chats -> Topics \cup {None}] /\ UNCHANGED <<topics, last>>
      /\ made \in [Topics -> Chats \cup {None}] /\ made' \in [Topics -> Chats \cup {None}]
      /\ last \in [Topics -> 0..MaxMessages] /\ MaxMessages \in Nat
  BY <1>2, TopicsAssumption DEF TypeOK, memory
<1>7. ASSUME NEW c \in Chats, topics'[c] # None
      PROVE  made'[topics'[c]] = c
  BY <1>3, <1>6, <1>7 DEF SkipInv, TopicsReached
<1>8. ASSUME NEW u \in Topics
      PROVE  IF made'[u] = None THEN last'[u] = 0 ELSE Reached(made[u], last[u])'
  <2>1. CASE made[u] = None
    <3>1. last'[u] = 0
      BY <1>6, <2>1 DEF SkipInv, TopicsReached
    <3>2. ASSUME NEW c \in Chats
          PROVE  Reached(c, 0)'
      <4>1. sent'[c] \in Nat
        BY <1>2, <1>4
      <4> QED
        BY <4>1 DEF Reached, Queued, Messages
    <3> QED
      BY <1>6, <3>1, <3>2 DEF Reached, Queued
  <2>2. CASE made[u] # None
    <3>1. PICK c \in Chats, l \in Nat : c = made[u] /\ l = last[u]
      BY <1>6, <2>2
    <3>2. Reached(c, l)'
      BY <1>5, <2>2, <3>1, ReachedOn DEF SkipInv, TopicsReached
    <3> QED
      BY <1>3, <1>6, <2>2, <3>1, <3>2 DEF Reached, Queued
  <2> QED
    BY <2>1, <2>2
<1>9. PICK n : n = WithoutTopic(a) /\ Go(a, n)
  BY DEF CreationFails
<1>10. HandAt(o, "idle")'
  BY <1>2, <1>5, HandElsewhere
<1>11. HandOK(n)' /\ FileReached(n.snap)'
  BY <1>2, <1>9, <1>10, WithTopicHand
<1> QED
  BY <1>5, <1>7, <1>8, <1>9, <1>11, GoHand DEF TopicsReached

(* The steps of ensure_topic. *)
LEMMA EnsureHand ==
  ASSUME SkipInv, TypeOK', NEW a \in {"worker", "bulk"}, EnsureStep(a)
  PROVE  Steady /\ TopicsReached' /\ HandsOK'
<1>0. a \in Threads /\ TypeOK
  BY DEF Threads, SkipInv
<1>1. CASE CreateTopic(a)
  BY <1>0, <1>1, CreateHand
<1>2. CASE CreationFails(a)
  BY <1>0, <1>2, FailHand
<1>3. CASE ~CreateTopic(a) /\ ~CreationFails(a)
  <2>1. PICK o : o = op[a]
    OBVIOUS
  <2>2. o.pc \in ChatSteps \cup TopicSteps
    BY <1>3, <2>1 DEF EnsureStep, LockTopic, SendHeader, LoadHistory, PostHistory, RememberHistory, ReturnTopic,
                      ChatSteps, TopicSteps
  <2>3. o \in Ops /\ FileReached(o.snap) /\ HandAt(o, o.pc) /\ o.chat \in Chats
    BY <1>0, <2>1, <2>2, HandHere DEF ChatSteps, TopicSteps
  <2>4. UNCHANGED <<sent, queue, made>>
    BY <1>3 DEF EnsureStep, LockTopic, SendHeader, LoadHistory, PostHistory, RememberHistory, ReturnTopic, telegram
  <2>5. \A c \in Chats : tried[c] \subseteq tried'[c]
    <3>1. CASE SendHeader(a) \/ PostHistory(a)
      BY <1>0, <3>1, SendTries DEF SendHeader, PostHistory
    <3>2. CASE UNCHANGED tried
      BY <3>2
    <3> QED
      BY <1>3, <3>1, <3>2 DEF EnsureStep, LockTopic, LoadHistory, RememberHistory, ReturnTopic, history
  <2>6. Steady
    BY <1>0, <2>4, <2>5, SteadyStill
  <2>7. \A pc : pc \notin {"post", "posted"} => HandAt(o, pc)'
    BY <2>3, <2>6, HandElsewhere
  <2>8. CASE LockTopic(a)
    <3> DEFINE r == [o EXCEPT !.pc = "create", !.group = group]
    <3>1. UNCHANGED <<made, memory>>
      BY <2>4, <2>8 DEF LockTopic
    <3>2. CASE Go(a, r) /\ Ready
      <4>1. PICK n : n = r
        OBVIOUS
      <4>2. n \in Ops /\ n.pc = "create" /\ n.batch = o.batch /\ n.chat = o.chat /\ n.snap = o.snap
        BY <1>0, <2>3, <3>2, <4>1 DEF Ops, TypeOK, Ready, Steps, ChatSteps
      <4> QED
        BY <1>0, <2>3, <2>6, <3>1, <3>2, <4>1, <4>2, GoElsewhere
    <3>3. CASE Go(a, WithTopic(a, o, topics[o.chat])) \/ Go(a, WithoutTopic(a))
      <4>1. PICK t : t = topics[o.chat]
        OBVIOUS
      <4>2. PICK n : Go(a, n) /\ (n = WithTopic(a, o, t) \/ n = WithoutTopic(a))
        BY <3>3, <4>1
      <4> QED
        BY <1>0, <2>3, <2>6, <2>7, <3>1, <4>2, WithTopicHand, QuietHand
    <3> QED
      BY <2>1, <2>6, <2>8, <3>2, <3>3 DEF LockTopic
  <2>10. CASE SendHeader(a)
    <3> DEFINE pc == IF Depth = 0 THEN "return" ELSE "load"
    <3>1. pc \in Steps /\ pc \notin {"post", "posted"}
      BY DEF Steps, TopicSteps
    <3>2. SendText(a, o, {}, pc)
      BY <2>1, <2>10 DEF SendHeader
    <3> HIDE DEF pc
    <3> QED
      BY <1>0, <2>3, <2>4, <2>6, <2>7, <3>1, <3>2, SendHand
  <2>11. CASE LoadHistory(a)
    <3>1. PICK loaded \in {{}, {m \in 1..sent[o.chat] : m > sent[o.chat] - Depth}} :
            Go(a, [o EXCEPT !.pc = IF loaded = {} THEN "return" ELSE "post", !.loaded = loaded])
      BY <2>1, <2>11 DEF LoadHistory
    <3> DEFINE pc == IF loaded = {} THEN "return" ELSE "post"
    <3>2. PICK n : n = [o EXCEPT !.pc = pc, !.loaded = loaded]
      OBVIOUS
    <3>3. pc \in {"return", "post"} /\ (pc = "post" => loaded # {})
      OBVIOUS
    <3>4. Go(a, n)
      BY <3>1, <3>2
    <3> HIDE DEF pc
    <3>5. n.pc = pc /\ n.loaded = loaded /\ n.batch = o.batch /\ n.chat = o.chat /\ n.snap = o.snap /\ o.snap \in Files
      BY <2>3, <3>2 DEF Ops
    <3>6. UNCHANGED <<made, memory>>
      BY <2>4, <2>11 DEF LoadHistory
    <3>7. HandAt(o, "idle")'
      BY <2>7
    <3>8. pc = "post" => \E newest \in 0..sent'[o.chat] : loaded = {m \in 1..newest : m > newest - Depth}
      <4>1. sent'[o.chat] = sent[o.chat] /\ sent[o.chat] \in 0..sent[o.chat]
        BY <1>0, <2>3, <2>4, TopicsAssumption DEF TypeOK
      <4> QED
        BY <3>1, <3>3, <4>1
    <3>9. HandOK(n)'
      BY <2>3, <3>3, <3>5, <3>7, <3>8 DEF HandOK, HandAt, Place
    <3>10. PICK f \in Files : f = n.snap
      BY <3>5
    <3>11. FileReached(f)'
      BY <1>0, <2>3, <2>6, <3>5, <3>10, FileOn
    <3> QED
      BY <1>0, <2>6, <3>4, <3>6, <3>9, <3>10, <3>11, QuietHand
  <2>12. CASE PostHistory(a)
    <3>1. SendText(a, o, o.loaded, "posted") /\ o.pc = "post"
      BY <2>1, <2>12 DEF PostHistory
    <3>2. HandAt(o, "post")'
      BY <1>0, <2>3, <2>6, <3>1, HandOn
    <3>3. o.loaded \subseteq tried'[o.chat]
      BY <1>0, <2>3, <3>1 DEF SendText, TypeOK
    <3>4. HandAt(o, "posted")'
      BY <3>2, <3>3 DEF HandAt
    <3>5. "posted" \in Steps
      BY DEF Steps, TopicSteps
    <3> QED
      BY <1>0, <2>3, <2>4, <2>6, <3>1, <3>4, <3>5, SendHand
  <2>13. CASE RememberHistory(a)
    <3>1. RememberLastMessage(a, o, o.loaded, "return") /\ HandAt(o, "posted")
      BY <2>1, <2>3, <2>13 DEF RememberHistory
    <3>2. o.loaded \in SUBSET Messages /\ "return" \in Steps
      BY <2>3 DEF Ops, Steps, TopicSteps
    <3>3. \A l \in o.loaded : (\A m \in o.loaded : m <= l) => Reached(o.chat, l)
      BY <1>0, <3>1, HistoryReached
    <3> QED
      BY <1>0, <2>3, <2>4, <2>6, <2>7, <3>1, <3>2, <3>3, RememberHand
  <2>14. CASE ReturnTopic(a)
    <3>1. UNCHANGED <<made, memory>>
      BY <2>4, <2>14 DEF ReturnTopic
    <3>2. PICK n : n = WithTopic(a, o, o.topic) /\ Go(a, n)
      BY <2>1, <2>14 DEF ReturnTopic
    <3> QED
      BY <1>0, <2>3, <2>6, <2>7, <3>1, <3>2, WithTopicHand, QuietHand
  <2> QED
    BY <1>3, <2>8, <2>10, <2>11, <2>12, <2>13, <2>14 DEF EnsureStep
<1> QED
  BY <1>1, <1>2, <1>3

(* A thread with nothing in its hands. *)
LEMMA FreeHand ==
  ASSUME NEW n, n = Idle \/ \E pc \in FreeSteps : n = At(pc)
  PROVE  HandOK(n)' /\ FileReached(n.snap)'
<1>1. n.pc \in FreeSteps /\ n.batch = {} /\ n.snap = EmptyFile
  BY DEF Idle, At, FreeSteps
<1> QED
  BY <1>1 DEF HandOK, HandAt, Place, FreeSteps, FileReached, EmptyFile, NoRecord

(* A worker moves to a place where it holds no record of a chat.           *)
LEMMA FreeGo ==
  ASSUME SkipInv, TypeOK', Steady, UNCHANGED <<made, memory>>, NEW a \in Threads,
         Go(a, Idle) \/ \E pc \in FreeSteps : Go(a, At(pc))
  PROVE  TopicsReached' /\ HandsOK'
<1>1. PICK n : Go(a, n) /\ (n = Idle \/ \E pc \in FreeSteps : n = At(pc))
  OBVIOUS
<1> QED
  BY <1>1, FreeHand, QuietHand

(* A write, of whichever thread. *)
LEMMA WriteHand ==
  ASSUME SkipInv, TypeOK', NEW a \in Threads, WriteTopics(a)
  PROVE  Steady /\ TopicsReached' /\ HandsOK' /\ FileReached(disk)'
<1>1. PICK o \in Ops : o = op[a]
  BY DEF SkipInv, TypeOK
<1>2. o.pc = "save" /\ HandAt(o, o.next) /\ FileReached(o.snap) /\ o.next \in Steps /\ o.snap \in Files
  BY <1>1 DEF WriteTopics, SkipInv, HandsOK, HandOK, Place, Ops
<1>3. UNCHANGED <<sent, queue, made, memory, tried>>
  BY DEF WriteTopics, telegram, history
<1>4. Steady
  BY <1>3, SteadyStill DEF SkipInv
<1>5. PICK pc \in Steps : pc = o.next
  BY <1>2
<1>6. PICK n : n = [o EXCEPT !.next = "idle", !.snap = EmptyFile]
  OBVIOUS
<1>7. n \in Ops /\ n.batch = o.batch /\ n.chat = o.chat /\ n.loaded = o.loaded /\ n.snap = EmptyFile
  <2>1. EmptyFile \in Files /\ "idle" \in Steps
    BY TopicsAssumption DEF EmptyFile, Files, NoRecord, Steps, FreeSteps
  <2> QED
    BY <1>6, <2>1 DEF Ops
<1>8. HandAt(o, pc)'
  BY <1>2, <1>4, <1>5, HandOn DEF SkipInv
<1>9. HandAt(n, pc)'
  BY <1>7, <1>8 DEF HandAt
<1>10. Go(a, Then(n, pc))
  BY <1>1, <1>5, <1>6 DEF WriteTopics
<1>11. HandsOK'
  BY <1>4, <1>7, <1>9, <1>10, ThenHand, EmptyReached
<1>12. PICK f \in Files : f = disk' /\ FileReached(f)
  BY <1>1, <1>2 DEF WriteTopics, SkipInv, TypeOK
<1>13. FileReached(f)'
  BY <1>4, <1>12, FileOn DEF SkipInv
<1> QED
  BY <1>3, <1>4, <1>11, <1>12, <1>13, TopicsSame DEF FileReached

(* ensure_topic, as far as the lock. *)
LEMMA EnsureTopicHand ==
  ASSUME SkipInv, TypeOK', Steady, UNCHANGED <<made, memory>>, NEW a \in Threads,
         NEW o \in Ops, HandAt(o, "idle")', o.snap = EmptyFile, EnsureTopic(a, o)
  PROVE  TopicsReached' /\ HandsOK'
<1>1. PICK t : t = topics[o.chat]
  OBVIOUS
<1>2. PICK n : Go(a, n) /\ (n = WithTopic(a, o, t) \/ n = WithoutTopic(a) \/ n = [o EXCEPT !.pc = "lock"])
  BY <1>1 DEF EnsureTopic
<1>3. CASE n = WithTopic(a, o, t) \/ n = WithoutTopic(a)
  BY <1>2, <1>3, WithTopicHand, QuietHand
<1>4. CASE n = [o EXCEPT !.pc = "lock"]
  <2>1. n.pc = "lock" /\ n.batch = o.batch /\ n.chat = o.chat /\ n.snap = EmptyFile
    BY <1>4 DEF Ops
  <2>2. HandOK(n)' /\ FileReached(n.snap)'
    BY <2>1 DEF HandOK, HandAt, Place, FileReached, EmptyFile, NoRecord
  <2> QED
    BY <1>2, <2>2, QuietHand
<1> QED
  BY <1>2, <1>3, <1>4

(* The worker takes the oldest job: what stays in the queue came later. *)
LEMMA TakeHand ==
  ASSUME SkipInv, TypeOK', TakeJob
  PROVE  Steady /\ TopicsReached' /\ HandsOK'
<1>1. UNCHANGED <<sent, made, memory, tried>> /\ queue # <<>> /\ queue' = Tail(queue)
  BY DEF TakeJob, telegram, history
<1>2. queue \in Seq(Jobs) /\ TypeOK
  BY DEF SkipInv, TypeOK
<1>3. Steady
  <2>1. \A c \in Chats : Queued(c)' \subseteq Queued(c) /\ sent[c] \in Nat
    BY <1>1, <1>2, QueuedLess, TopicsAssumption DEF TypeOK
  <2> QED
    BY <1>1, <2>1 DEF Steady
<1>4. PICK j \in Jobs : j = queue[1] /\ j = Head(queue)
  BY <1>1, <1>2
<1>5. PICK o : o = [Idle EXCEPT !.chat = j.chat, !.batch = j.batch]
  OBVIOUS
<1>6. o \in Ops /\ o.chat = j.chat /\ o.batch = j.batch /\ o.snap = EmptyFile /\ j.chat \in Chats
  BY <1>4, <1>5, IdleType DEF Jobs, Good, Ops, Idle
<1>7. ASSUME NEW m \in o.batch
      PROVE  m <= sent'[o.chat] /\ \A n \in Queued(o.chat)' : m < n
  <2>1. 1 \in 1..Len(queue)
    BY <1>1, <1>2
  <2>2. m <= sent[queue[1].chat]
       /\ \A k \in (1 + 1)..Len(queue) : queue[k].chat = queue[1].chat => \A n \in queue[k].batch : m < n
    BY <1>4, <1>6, <2>1 DEF SkipInv, QueueOrdered
  <2>3. ASSUME NEW n \in Queued(o.chat)'
        PROVE  m < n
    <3>1. PICK i \in 1..Len(queue') : queue'[i].chat = o.chat /\ n \in queue'[i].batch
      BY DEF Queued
    <3>2. i + 1 \in (1 + 1)..Len(queue) /\ queue'[i] = queue[i + 1]
      BY <1>1, <1>2
    <3> QED
      BY <1>4, <1>6, <2>2, <3>1, <3>2
  <2> QED
    BY <1>1, <1>4, <1>6, <2>2, <2>3
<1>8. HandAt(o, "idle")'
  BY <1>6, <1>7 DEF HandAt
<1>9. EnsureTopic("worker", o) /\ "worker" \in Threads
  BY <1>4, <1>5 DEF TakeJob, Threads
<1> QED
  BY <1>1, <1>3, <1>6, <1>8, <1>9, EnsureTopicHand

(* The worker outside of ensure_topic. *)
LEMMA WorkerHand ==
  ASSUME SkipInv, TypeOK', SendFresh \/ RememberFresh \/ ScheduleTopicRefresh
  PROVE  Steady /\ TopicsReached' /\ HandsOK'
<1>0. PICK w \in Threads : w = "worker"
  BY DEF Threads
<1>1. PICK o : o = op[w]
  OBVIOUS
<1>2. o \in Ops /\ FileReached(o.snap) /\ HandAt(o, o.pc) /\ o.chat \in Chats /\ TypeOK
  BY <1>0, <1>1, HandHere DEF SendFresh, RememberFresh, ScheduleTopicRefresh, TopicSteps, SkipInv
<1>3. UNCHANGED <<sent, queue, made>>
  BY DEF SendFresh, RememberFresh, ScheduleTopicRefresh, telegram
<1>4. \A c \in Chats : tried[c] \subseteq tried'[c]
  <2>1. CASE SendFresh
    BY <1>2, <2>1, SendTries DEF SendFresh
  <2>2. CASE UNCHANGED tried
    BY <2>2
  <2> QED
    BY <2>1, <2>2 DEF RememberFresh, ScheduleTopicRefresh, history
<1>5. Steady
  BY <1>2, <1>3, <1>4, SteadyStill
<1>6. \A pc : pc \notin {"post", "posted"} => HandAt(o, pc)'
  BY <1>2, <1>5, HandElsewhere
<1>7. "sent" \in Steps /\ "refresh" \in Steps /\ o.batch \in SUBSET Messages
  BY <1>2 DEF Steps, TopicSteps, Ops
<1>8. CASE SendFresh
  <2>1. SendText(w, o, o.batch, "sent")
    BY <1>0, <1>1, <1>8 DEF SendFresh
  <2> QED
    BY <1>2, <1>3, <1>5, <1>6, <1>7, <2>1, SendHand
<1>9. CASE RememberFresh
  <2>1. RememberLastMessage(w, o, o.batch, "refresh")
    BY <1>0, <1>1, <1>9 DEF RememberFresh
  <2>2. ASSUME NEW l \in o.batch
        PROVE  Reached(o.chat, l)
    <3>1. l \in Nat /\ l <= sent[o.chat] /\ \A n \in Queued(o.chat) : n \in Nat /\ l < n
      BY <1>2, <1>7 DEF HandAt, Queued, Messages
    <3> QED
      BY <3>1 DEF Reached
  <2> QED
    BY <1>2, <1>3, <1>5, <1>6, <1>7, <2>1, <2>2, RememberHand
<1>10. CASE ScheduleTopicRefresh
  <2>1. PICK c \in Chats : c = o.chat
    BY <1>2
  <2>2. PICK s : s = [At("start") EXCEPT !.chat = c]
    OBVIOUS
  <2>3. HandOK(s)' /\ FileReached(s.snap)'
    <3>1. s.pc = "start" /\ s.batch = {} /\ s.snap = EmptyFile
      BY <2>2 DEF At, Idle
    <3> QED
      BY <3>1 DEF HandOK, HandAt, Place, FileReached, EmptyFile, NoRecord
  <2>4. HandOK(Idle)' /\ FileReached(Idle.snap)'
    BY FreeHand
  <2>5. ASSUME NEW b \in Threads
        PROVE  HandOK(op[b])' /\ FileReached(op[b].snap)'
    <3>1. op'[b] = op[b] \/ op'[b] = Idle \/ op'[b] = s
      BY <1>0, <1>1, <1>2, <1>10, <2>1, <2>2 DEF ScheduleTopicRefresh, TypeOK
    <3>2. CASE op'[b] = op[b]
      BY <1>5, <3>2, HandKept
    <3>3. CASE op'[b] = Idle
      BY <2>4, <3>3 DEF HandOK, HandAt, Place, FileReached
    <3>4. CASE op'[b] = s
      BY <2>3, <3>4 DEF HandOK, HandAt, Place, FileReached
    <3> QED
      BY <3>1, <3>2, <3>3, <3>4
  <2>6. UNCHANGED <<made, memory>>
    BY <1>3, <1>10 DEF ScheduleTopicRefresh
  <2> QED
    BY <1>5, <2>5, <2>6, TopicsSame DEF HandsOK
<1> QED
  BY <1>8, <1>9, <1>10

(* A refresher. *)
LEMMA RefresherHand ==
  ASSUME SkipInv, TypeOK', NEW c \in Chats, StartRefresh(c) \/ EditTopic(c) \/ SendStats(c)
  PROVE  Steady /\ TopicsReached' /\ HandsOK'
<1>0. c \in Threads
  BY DEF Threads, Refreshers
<1>1. PICK o : o = op[c]
  OBVIOUS
<1>2. o \in Ops /\ FileReached(o.snap) /\ HandAt(o, o.pc) /\ o.chat \in Chats /\ TypeOK
  BY <1>0, <1>1, HandHere DEF StartRefresh, EditTopic, SendStats, TopicSteps, ChatSteps, SkipInv
<1>3. UNCHANGED <<sent, queue, made>>
  BY DEF StartRefresh, EditTopic, SendStats, telegram
<1>4. \A d \in Chats : tried[d] \subseteq tried'[d]
  <2>1. CASE SendStats(c)
    BY <1>2, <2>1, SendTries DEF SendStats
  <2>2. CASE UNCHANGED tried
    BY <2>2
  <2> QED
    BY <2>1, <2>2 DEF StartRefresh, EditTopic, history
<1>5. Steady
  BY <1>2, <1>3, <1>4, SteadyStill
<1>6. \A pc : pc \notin {"post", "posted"} => HandAt(o, pc)'
  BY <1>2, <1>5, HandElsewhere
<1>7. "idle" \in Steps /\ "stats" \in Steps
  BY DEF Steps, FreeSteps, TopicSteps
<1>8. CASE StartRefresh(c)
  <2>1. UNCHANGED <<made, memory>>
    BY <1>3, <1>8 DEF StartRefresh
  <2>2. CASE Go(c, Idle)
    BY <1>0, <1>5, <2>1, <2>2, FreeGo
  <2>3. CASE topics[c] # None /\ Ready /\ Go(c, [o EXCEPT !.pc = "edit", !.topic = topics[c], !.group = group])
    <3>1. PICK n : n = [o EXCEPT !.pc = "edit", !.topic = topics[c], !.group = group]
      OBVIOUS
    <3>2. n \in Ops /\ n.pc = "edit" /\ n.batch = o.batch /\ n.chat = o.chat /\ n.snap = o.snap
      BY <1>2, <2>3, <3>1 DEF Ops, TypeOK, Ready, Steps, TopicSteps
    <3> QED
      BY <1>0, <1>2, <1>5, <2>1, <2>3, <3>1, <3>2, GoElsewhere
  <2> QED
    BY <1>1, <1>5, <1>8, <2>2, <2>3 DEF StartRefresh
<1>9. CASE EditTopic(c)
  <2>1. CASE UNCHANGED memory /\ Save(c, o, "stats")
    BY <1>0, <1>2, <1>3, <1>5, <1>6, <1>7, <2>1, TopicsSame, SaveHand
  <2>2. CASE UNCHANGED memory /\ Go(c, Idle)
    BY <1>0, <1>3, <1>5, <2>2, FreeGo
  <2>3. CASE DropTopic(c, o, "idle")
    BY <1>0, <1>2, <1>3, <1>5, <1>6, <1>7, <2>3, DropHand
  <2> QED
    BY <1>1, <1>5, <1>9, <2>1, <2>2, <2>3 DEF EditTopic
<1>10. CASE SendStats(c)
  <2>1. SendText(c, o, {}, "idle")
    BY <1>1, <1>10 DEF SendStats
  <2> QED
    BY <1>0, <1>2, <1>3, <1>5, <1>6, <1>7, <2>1, SendHand
<1> QED
  BY <1>8, <1>9, <1>10

(* The bulk sync outside of ensure_topic. *)
LEMMA BulkHand ==
  ASSUME SkipInv, TypeOK', StartSync \/ NextChat
  PROVE  Steady /\ TopicsReached' /\ HandsOK'
<1>0. "bulk" \in Threads /\ "next" \in FreeSteps /\ TypeOK
  BY DEF Threads, FreeSteps, SkipInv
<1>1. UNCHANGED <<sent, queue, made, memory, tried>>
  BY DEF StartSync, NextChat, telegram, history
<1>2. Steady
  BY <1>0, <1>1, SteadyStill
<1>3. CASE Go("bulk", Idle) \/ Go("bulk", At("next"))
  BY <1>0, <1>1, <1>2, <1>3, FreeGo
<1>4. ASSUME NEW c \in Chats, EnsureTopic("bulk", [Idle EXCEPT !.chat = c])
      PROVE  TopicsReached' /\ HandsOK'
  <2>1. PICK o : o = [Idle EXCEPT !.chat = c]
    OBVIOUS
  <2>2. o \in Ops /\ o.batch = {} /\ o.snap = EmptyFile
    BY <2>1, IdleType DEF Good, Ops, Idle
  <2>3. HandAt(o, "idle")'
    BY <2>2 DEF HandAt
  <2> QED
    BY <1>0, <1>1, <1>2, <1>4, <2>1, <2>2, <2>3, EnsureTopicHand
<1>5. CASE StartSync
  BY <1>2, <1>3, <1>5 DEF StartSync
<1>6. CASE NextChat
  BY <1>0, <1>2, <1>3, <1>4, <1>6 DEF NextChat, TypeOK
<1> QED
  BY <1>5, <1>6

(* What an import plans, each topic made for its chat. *)
LEMMA PlannedReached ==
  ASSUME SkipInv, NEW o \in Ops, FileReached(o.snap), NEW c \in Chats, PlannedTopics(o)[c] # None
  PROVE  made[PlannedTopics(o)[c]] = c
<1>1. PlannedTopics(o)[c] = o.snap[c].topic \/ (c \in DOMAIN Legacy /\ PlannedTopics(o)[c] = Topic(LegacyGroup, Legacy[c]))
  BY DEF PlannedTopics
<1> QED
  BY <1>1 DEF FileReached, SkipInv, LegacyOwned

(* Topics of their chats, each as far as it was or from its start. *)
LEMMA TopicsAgain ==
  ASSUME SkipInv, TypeOK', Steady, UNCHANGED made, \A c \in Chats : topics'[c] # None => made[topics'[c]] = c,
         \A t \in Topics : last'[t] \in {0, last[t]}
  PROVE  TopicsReached'
<1>1. ASSUME NEW t \in Topics
      PROVE  IF made'[t] = None THEN last'[t] = 0 ELSE Reached(made[t], last[t])'
  <2>1. CASE made[t] = None
    BY <2>1 DEF SkipInv, TopicsReached
  <2>2. CASE made[t] # None
    <3>1. PICK c \in Chats, l \in Nat : c = made[t] /\ l = last[t]
      BY <2>2, TopicsAssumption DEF SkipInv, TypeOK
    <3>2. Reached(c, l)'
      BY <2>2, <3>1, ReachedOn DEF SkipInv, TopicsReached
    <3>3. Reached(c, 0)'
      <4>1. sent'[c] \in Nat
        BY TopicsAssumption DEF TypeOK
      <4> QED
        BY <4>1 DEF Reached, Queued, Messages
    <3> QED
      BY <2>2, <3>1, <3>2, <3>3 DEF Reached, Queued
  <2> QED
    BY <2>1, <2>2
<1> QED
  BY <1>1 DEF TopicsReached

(* Administrators. *)
LEMMA AdministratorHand ==
  ASSUME SkipInv, TypeOK',
         (\E g \in Groups : SetupSyncChat(g)) \/ DeleteSyncChat \/ ClearTopics \/ ImportLegacy \/ ApplyGroup \/ ApplyTopics
  PROVE  Steady /\ TopicsReached' /\ HandsOK'
<1>0. PICK a \in Threads : a = "admin"
  BY DEF Threads
<1>1. PICK o : o = op[a]
  OBVIOUS
<1>2. UNCHANGED <<sent, queue, made, tried>> /\ TypeOK
  BY DEF SetupSyncChat, DeleteSyncChat, ClearTopics, ImportLegacy, ApplyGroup, ApplyTopics, telegram, history, SkipInv
<1>3. Steady
  BY <1>2, SteadyStill
<1>4. "reset" \in FreeSteps /\ "idle" \in Steps
  BY DEF FreeSteps, Steps
<1>5. CASE UNCHANGED memory /\ (Go(a, Idle) \/ Go(a, At("reset")))
  BY <1>2, <1>3, <1>4, <1>5, FreeGo
<1>6. CASE \E g \in Groups : SetupSyncChat(g)
  BY <1>0, <1>3, <1>5, <1>6 DEF SetupSyncChat
<1>7. CASE DeleteSyncChat
  BY <1>0, <1>3, <1>5, <1>7 DEF DeleteSyncChat
<1>8. op[a].pc # "save" => o \in Ops /\ FileReached(o.snap) /\ HandAt(o, o.pc)
  BY <1>1, HandHere
<1>9. op[a].pc # "save" => \A pc : pc \notin {"post", "posted"} => HandAt(o, pc)'
  BY <1>3, <1>8, HandElsewhere
<1>10. CASE ClearTopics
  <2>1. op[a].pc = "reset" /\ topics' = NoTopics /\ UNCHANGED last /\ Save(a, o, "idle")
    BY <1>0, <1>1, <1>10 DEF ClearTopics
  <2>2. TopicsReached'
    BY <1>2, <1>3, <2>1, TopicsFewer DEF NoTopics
  <2> QED
    BY <1>3, <1>4, <1>8, <1>9, <2>1, <2>2, SaveHand
<1>11. CASE ImportLegacy
  <2>1. UNCHANGED <<made, memory>>
    BY <1>2, <1>11 DEF ImportLegacy
  <2>2. PICK f : f = FileOf(topics', last')
    OBVIOUS
  <2>3. PICK n : n = [At("import") EXCEPT !.group = group, !.snap = f]
    OBVIOUS
  <2>4. Go(a, n)
    BY <1>0, <1>11, <2>1, <2>2, <2>3 DEF ImportLegacy, memory
  <2>5. n.pc = "import" /\ n.batch = {} /\ n.snap = f
    BY <2>3 DEF At, Idle
  <2>6. TopicsReached'
    BY <1>3, <2>1, TopicsSame
  <2>7. FileReached(f)'
    BY <2>2, <2>6, SnapReached
  <2>8. HandOK(n)' /\ FileReached(n.snap)'
    BY <2>5, <2>7 DEF HandOK, HandAt, Place, FileReached
  <2> QED
    BY <1>3, <2>1, <2>4, <2>8, QuietHand
<1>12. CASE ApplyGroup
  <2>1. op[a].pc = "import" /\ UNCHANGED <<made, memory>>
    BY <1>0, <1>2, <1>12 DEF ApplyGroup
  <2>2. PICK n : n = [o EXCEPT !.pc = "swap"]
    OBVIOUS
  <2>3. Go(a, n)
    BY <1>0, <1>1, <1>12, <2>2 DEF ApplyGroup
  <2>4. n \in Ops /\ n.pc = "swap" /\ n.batch = o.batch /\ n.chat = o.chat /\ n.snap = o.snap
    BY <1>8, <2>1, <2>2 DEF Ops, Steps, FreeSteps
  <2> QED
    BY <1>3, <1>8, <2>1, <2>3, <2>4, GoElsewhere
<1>13. CASE ApplyTopics
  <2>1. /\ op[a].pc = "swap" /\ topics' = PlannedTopics(o) /\ Save(a, o, "idle")
        /\ \A t \in Topics : last'[t] \in {0, last[t]}
    BY <1>0, <1>1, <1>13 DEF ApplyTopics
  <2>2. \A c \in Chats : topics'[c] # None => made[topics'[c]] = c
    BY <1>8, <2>1, PlannedReached
  <2>3. TopicsReached'
    BY <1>2, <1>3, <2>1, <2>2, TopicsAgain
  <2> QED
    BY <1>3, <1>4, <1>8, <1>9, <2>1, <2>3, SaveHand
<1> QED
  BY <1>6, <1>7, <1>10, <1>11, <1>12, <1>13

(* A buyer writes, while the queue is open or not. *)
LEMMA NewMessagesHand ==
  ASSUME SkipInv, TypeOK', NEW c \in Chats, NEW n \in 1..2, NewMessages(c, n)
  PROVE  Steady /\ TopicsReached' /\ HandsOK' /\ QueueOrdered'
<1>1. /\ TypeOK /\ UNCHANGED <<op, made, memory, tried>>
      /\ sent \in [Chats -> 0..MaxMessages] /\ MaxMessages \in Nat
      /\ sent[c] + n <= MaxMessages /\ sent' = [sent EXCEPT ![c] = @ + n]
  BY TopicsAssumption DEF NewMessages, telegram, history, SkipInv, TypeOK
<1>2. \A d \in Chats : sent[d] \in Nat /\ sent[d] <= sent'[d]
  BY <1>1
<1>3. PICK j : j = [chat |-> c, batch |-> (sent[c] + 1)..(sent[c] + n)]
  OBVIOUS
<1>4. j \in Jobs /\ j.chat = c /\ \A m \in j.batch : m > sent[c] /\ m <= sent'[c]
  BY <1>1, <1>2, <1>3 DEF Jobs, Messages
<1>5. UNCHANGED queue \/ queue' = Append(queue, j)
  BY <1>3 DEF NewMessages
<1>6. Steady
  <2>1. \A d \in Chats : \A m \in Queued(d)' : m \in Queued(d) \/ m > sent[d]
    <3>1. CASE UNCHANGED queue
      BY <3>1 DEF Queued
    <3>2. CASE queue' = Append(queue, j)
      BY <1>1, <1>4, <3>2, QueuedMore
    <3> QED
      BY <1>5, <3>1, <3>2
  <2> QED
    BY <1>1, <1>2, <2>1 DEF Steady
<1>7. QueueOrdered'
  BY <1>1, <1>4, <1>5, <1>6, QueueStep DEF SkipInv
<1> QED
  BY <1>1, <1>6, <1>7, HandsKept, TopicsSame

(* A restart forgets the queue and what is in hand, and believes the file. *)
LEMMA RestartHand ==
  ASSUME SkipInv, TypeOK', Restart
  PROVE  Steady /\ TopicsReached' /\ HandsOK'
<1>1. TypeOK /\ queue' = <<>> /\ UNCHANGED <<sent, made, tried, disk>> /\ disk \in Files
  BY DEF Restart, telegram, history, SkipInv, TypeOK
<1>2. \A c \in Chats : Queued(c)' = {} /\ sent[c] \in Nat
  BY <1>1, TopicsAssumption DEF Queued, TypeOK
<1>3. Steady
  BY <1>1, <1>2 DEF Steady
<1>4. PICK kept \in SUBSET Chats : topics' = [c \in Chats |-> IF c \in kept THEN disk[c].topic ELSE None]
  BY DEF Restart, Normalized
<1>5. \A c \in Chats : topics'[c] # None => topics'[c] = disk[c].topic /\ made[topics'[c]] = c
  BY <1>4 DEF SkipInv, FileReached
<1>6. ASSUME NEW t \in Topics
      PROVE  IF made'[t] = None THEN last'[t] = 0 ELSE Reached(made[t], last[t])'
  <2>1. last'[t] = IF \E c \in Chats : topics'[c] = t THEN disk[CHOOSE c \in Chats : topics'[c] = t].last ELSE 0
    BY DEF Restart
  <2>2. t # None
    BY TopicsAssumption DEF Topics
  <2>3. CASE \E c \in Chats : topics'[c] = t
    <3>1. PICK d : d = CHOOSE c \in Chats : topics'[c] = t
      OBVIOUS
    <3>2. d \in Chats /\ topics'[d] = t
      BY <2>3, <3>1
    <3>3. made[t] = d /\ last'[t] = disk[d].last /\ disk[d].topic # None
      BY <1>5, <2>1, <2>2, <2>3, <3>1, <3>2
    <3>4. disk[d].last <= sent[d] /\ d # None
      BY <3>2, <3>3, TopicsAssumption DEF SkipInv, FileReached, Reached
    <3> QED
      BY <1>1, <1>2, <3>2, <3>3, <3>4 DEF Reached
  <2>4. CASE ~\E c \in Chats : topics'[c] = t
    <3>1. made[t] # None => made[t] \in Chats
      BY DEF SkipInv, TypeOK
    <3> QED
      BY <1>1, <1>2, <2>1, <2>4, <3>1 DEF Reached
  <2> QED
    BY <2>3, <2>4
<1>7. TopicsReached'
  BY <1>1, <1>5, <1>6 DEF TopicsReached
<1>8. ASSUME NEW b \in Threads
      PROVE  HandOK(op[b])' /\ FileReached(op[b].snap)'
  <2>1. op'[b] = Idle
    BY DEF Restart
  <2>2. HandOK(Idle)' /\ FileReached(Idle.snap)'
    BY FreeHand
  <2> QED
    BY <2>1, <2>2 DEF HandOK, HandAt, Place, FileReached
<1> QED
  BY <1>3, <1>7, <1>8 DEF HandsOK

(* At the start nothing was sent, so nothing was skipped.                   *)
LEMMA SkipInit == Init => SkipInv
<1> SUFFICES ASSUME Init PROVE SkipInv
  OBVIOUS
<1>1. LegacyOwned
  BY BuyersInit DEF BuyersInv
<1>2. queue = <<>> /\ \A c \in Chats : Queued(c) = {} /\ sent[c] = 0
  BY DEF Init, Queued
<1>3. TopicsReached
  <2>1. \A t \in Topics : made[t] # None => made[t] \in Chats
    BY TypeInit DEF TypeOK
  <2> QED
    BY <1>2, <2>1 DEF Init, NoTopics, TopicsReached, Reached
<1>4. HandsOK
  BY EmptyReached DEF Init, HandsOK
<1> QED
  BY <1>1, <1>2, <1>3, <1>4, EmptyReached, TypeInit DEF SkipInv, QueueOrdered, Init

(* Any step. *)
LEMMA SkipStep == SkipInv /\ [Next]_vars => SkipInv'
<1> SUFFICES ASSUME SkipInv, [Next]_vars PROVE SkipInv'
  OBVIOUS
<1>1. TypeOK'
  BY TypeStep DEF SkipInv
<1>2. Steady /\ TopicsReached' /\ HandsOK'
  <2>1. CASE UNCHANGED <<op, made, memory, sent, queue, tried>>
    <3>1. Steady
      BY <2>1, SteadyStill DEF SkipInv
    <3> QED
      BY <1>1, <2>1, <3>1, HandsKept, TopicsSame
  <2>2. CASE \E c \in Chats : \E n \in 1..2 : NewMessages(c, n)
    BY <1>1, <2>2, NewMessagesHand
  <2>3. CASE \E c \in Chats : NewOrder(c)
    <3>1. PICK c \in Chats : NewOrder(c)
      BY <2>3
    <3>2. PICK j : j = [chat |-> c, batch |-> {}]
      OBVIOUS
    <3>3. j \in Jobs /\ j.batch = {} /\ queue' = Append(queue, j) /\ UNCHANGED <<op, made, memory, sent, tried>>
      BY <3>1, <3>2 DEF NewOrder, telegram, history, Jobs
    <3>4. Steady
      <4>1. ASSUME NEW d \in Chats
            PROVE  Queued(d)' \subseteq Queued(d) /\ sent[d] \in Nat
        <5>1. \A m \in Queued(d)' : m \in Queued(d) \/ m \in j.batch
          BY <3>3, QueuedMore DEF SkipInv
        <5> QED
          BY <3>3, <5>1, TopicsAssumption DEF SkipInv, TypeOK
      <4> QED
        BY <3>3, <4>1 DEF Steady
    <3> QED
      BY <1>1, <3>3, <3>4, HandsKept, TopicsSame
  <2>4. CASE Worker
    BY <1>1, <2>4, TakeHand, EnsureHand, WorkerHand, WriteHand DEF Worker, Threads
  <2>5. CASE BulkSync
    BY <1>1, <2>5, EnsureHand, BulkHand, WriteHand DEF BulkSync, Threads
  <2>6. CASE \E c \in Chats : Refresher(c)
    BY <1>1, <2>6, RefresherHand, WriteHand DEF Refresher, Threads, Refreshers
  <2>7. CASE Administrator
    BY <1>1, <2>7, AdministratorHand, WriteHand DEF Administrator, Threads
  <2>8. CASE \E t \in Topics : DeleteTopic(t)
    BY <2>1, <2>8 DEF DeleteTopic, history
  <2>9. CASE Restart
    BY <1>1, <2>9, RestartHand
  <2>10. CASE UNCHANGED vars
    BY <2>1, <2>10 DEF vars, telegram, history
  <2> QED
    BY <2>2, <2>3, <2>4, <2>5, <2>6, <2>7, <2>8, <2>9, <2>10 DEF Next
<1>3. QueueOrdered'
  <2>1. \/ UNCHANGED queue
        \/ queue # <<>> /\ queue' = Tail(queue)
        \/ queue' = <<>>
        \/ \E c \in Chats : \E n \in 1..2 : NewMessages(c, n)
        \/ \E j \in Jobs : queue' = Append(queue, j) /\ j.batch = {}
    <3>1. CASE \E c \in Chats : NewOrder(c)
      <4>1. PICK c \in Chats : NewOrder(c)
        BY <3>1
      <4>2. PICK j : j = [chat |-> c, batch |-> {}]
        OBVIOUS
      <4> QED
        BY <4>1, <4>2 DEF NewOrder, Jobs
    <3>2. CASE EnsureStep("worker") \/ EnsureStep("bulk")
      BY <3>2 DEF EnsureStep, LockTopic, CreateTopic, CreationFails, SendHeader, LoadHistory, PostHistory, RememberHistory,
                  ReturnTopic
    <3>3. CASE \E a \in Threads : WriteTopics(a)
      BY <3>3 DEF WriteTopics
    <3>4. CASE Worker
      BY <3>2, <3>3, <3>4 DEF Worker, TakeJob, SendFresh, RememberFresh, ScheduleTopicRefresh, Threads
    <3>5. CASE BulkSync
      BY <3>2, <3>3, <3>5 DEF BulkSync, StartSync, NextChat, Threads
    <3>6. CASE \E c \in Chats : Refresher(c)
      BY <3>3, <3>6 DEF Refresher, StartRefresh, EditTopic, SendStats, Threads, Refreshers
    <3>7. CASE Administrator
      BY <3>3, <3>7 DEF Administrator, SetupSyncChat, DeleteSyncChat, ClearTopics, ImportLegacy, ApplyGroup, ApplyTopics, Threads
    <3>8. CASE (\E t \in Topics : DeleteTopic(t)) \/ Restart \/ UNCHANGED vars
      BY <3>8 DEF DeleteTopic, Restart, vars
    <3> QED
      BY <3>1, <3>4, <3>5, <3>6, <3>7, <3>8 DEF Next
  <2>2. CASE \E c \in Chats : \E n \in 1..2 : NewMessages(c, n)
    BY <1>1, <2>2, NewMessagesHand
  <2> QED
    BY <1>1, <1>2, <2>1, <2>2, QueueStep DEF SkipInv
<1>4. FileReached(disk)'
  <2>1. CASE UNCHANGED disk
    <3>1. PICK f \in Files : f = disk
      BY DEF SkipInv, TypeOK
    <3>2. FileReached(f)'
      BY <1>1, <1>2, <3>1, FileOn DEF SkipInv
    <3> QED
      BY <2>1, <3>1, <3>2 DEF FileReached
  <2>2. CASE \E a \in Threads : WriteTopics(a)
    BY <1>1, <2>2, WriteHand
  <2>3. CASE EnsureStep("worker") \/ EnsureStep("bulk")
    BY <2>1, <2>3 DEF EnsureStep, LockTopic, CreateTopic, CreationFails, SendHeader, LoadHistory, PostHistory, RememberHistory, ReturnTopic
  <2>4. CASE Worker
    BY <2>1, <2>2, <2>3, <2>4 DEF Worker, TakeJob, SendFresh, RememberFresh, ScheduleTopicRefresh, Threads
  <2>5. CASE BulkSync
    BY <2>1, <2>2, <2>3, <2>5 DEF BulkSync, StartSync, NextChat, Threads
  <2>6. CASE \E c \in Chats : Refresher(c)
    BY <2>1, <2>2, <2>6 DEF Refresher, StartRefresh, EditTopic, SendStats, Threads, Refreshers
  <2>7. CASE Administrator
    BY <2>1, <2>2, <2>7 DEF Administrator, SetupSyncChat, DeleteSyncChat, ClearTopics, ImportLegacy, ApplyGroup, ApplyTopics,
                            Threads
  <2>8. CASE (\E c \in Chats : NewOrder(c) \/ \E n \in 1..2 : NewMessages(c, n)) \/ (\E t \in Topics : DeleteTopic(t)) \/ Restart
             \/ UNCHANGED vars
    BY <2>1, <2>8 DEF NewOrder, NewMessages, DeleteTopic, Restart, vars
  <2> QED
    BY <2>4, <2>5, <2>6, <2>7, <2>8 DEF Next
<1>5. LegacyOwned'
  <2>1. ASSUME NEW c \in DOMAIN Legacy
        PROVE  made'[Topic(LegacyGroup, Legacy[c])] = c
    <3>1. Topic(LegacyGroup, Legacy[c]) \in Topics /\ c # None
      BY TopicsAssumption DEF Topic, Topics
    <3> QED
      BY <1>2, <3>1 DEF SkipInv, LegacyOwned, Steady
  <2> QED
    BY <2>1 DEF LegacyOwned
<1> QED
  BY <1>1, <1>2, <1>3, <1>4, <1>5 DEF SkipInv

(***************************************************************************)
(* A message is never taken for mirrored while its job is still queued,    *)
(* unless it was posted with the history or the history no longer reaches  *)
(* back to it: with any groups, an import of the legacy topics, failed     *)
(* writes and restarts, whatever snapshot of the topics the file keeps.    *)
(***************************************************************************)
THEOREM SkippedAlways == Spec => []SkippedMeansTried
<1>1. SkipInv => SkippedMeansTried
  <2> SUFFICES ASSUME SkipInv, NEW i \in 1..Len(queue), topics[queue[i].chat] # None, NEW m \in queue[i].batch,
                      m <= last[topics[queue[i].chat]]
               PROVE  m \in tried[queue[i].chat] \/ (Depth > 0 /\ m <= sent[queue[i].chat] - Depth)
    BY DEF SkippedMeansTried
  <2>1. PICK c \in Chats : c = queue[i].chat
    BY QueueJobs DEF SkipInv
  <2>2. m \in Queued(c)
    BY <2>1, QueueJobs DEF SkipInv, Queued
  <2>3. topics[c] \in Topics /\ made[topics[c]] = c /\ c # None
    BY <2>1, TopicsAssumption DEF SkipInv, TypeOK, TopicsReached
  <2>4. Reached(c, last[topics[c]])
    BY <2>3 DEF SkipInv, TopicsReached
  <2> QED
    BY <2>1, <2>2, <2>4 DEF Reached
<1> QED
  BY <1>1, SkipInit, SkipStep, PTL DEF Spec
=============================================================================
