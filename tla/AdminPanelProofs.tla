-------------------------- MODULE AdminPanelProofs --------------------------
(***************************************************************************)
(* Proofs about the administration panel, for any administrators, threads,  *)
(* rules, templates, lots, prices and bounds.                              *)
(*                                                                         *)
(* The types come first (Typed), with a classification of the steps: one   *)
(* is aside of settings and scheduler, a save, its end, its rollback, a     *)
(* step at the switch, a worker that is woken, or a restart (Kinds).  Each  *)
(* invariant is then proved kind by kind: the promises (KeptInv), what was  *)
(* looked up (Aimed), the worker (Orderly).  Two more classifications tell  *)
(* the gist command (OneInv) and the cycles (OnceInv) what leaves them      *)
(* alone (Undisturbed, Quiet).                                             *)
(***************************************************************************)
EXTENDS AdminPanel, SequenceLemmas

-----------------------------------------------------------------------------
(* Types. *)

(* Settings. *)
Config ==
  [enabled : BOOLEAN, rules : Seq(RuleRecords), templates : Seq(TemplateRecords), gist : GistRecords,
   status : Statuses, responses : [Statuses -> Texts \cup {Blank}],
   auto : [Statuses -> [enabled : BOOLEAN, text : Texts \cup {Blank}]]]

(* The fields of what a handler is doing. *)
Fields == {"job", "user", "on", "moved", "previous", "dump"}

(* Jobs that look something up first, and change it or ask about it then. *)
ChangeJobs == {"toggle", "delete", "remove", "words", "add", "edit", "drop"}

(* Jobs that save the settings. *)
SaveJobs == (ChangeJobs \ {"add"}) \cup Switching \cup {"create", "confirm", "status", "gistPage"}

(* Steps of a handler that drives the scheduler. *)
SwitchSteps == {"stop", "join", "start", "spawn"}

(* Steps of a thread in a cycle. *)
CycleSteps == {"fetch", "lots", "update", "record", "tell", "finish"}

(* Steps of the gist command before the gist is made. *)
AskSteps == {"choose", "orders", "check", "name", "create"}

(* The step a handler is at suits its job. *)
Suited(step, job) ==
  \/ step = "idle" /\ job = "none"
  \/ step = "change" /\ job \in ChangeJobs
  \/ step = "saving" /\ job \in SaveJobs
  \/ step \in SwitchSteps /\ job \in Switching
  \/ step \in {"begin"} \cup CycleSteps /\ job = "run"
  \/ step \in AskSteps /\ job = "gist"
  \/ step \in {"name", "create"} /\ job = "select"
  \/ step = "send" /\ job = "send"

(* What a handler at a step may be doing, when `ids` have been issued. *)
WorkOK(step, v, ids) ==
  /\ DOMAIN v = Fields /\ v.moved \in BOOLEAN /\ Suited(step, v.job)
  /\ v.job \in {"remove", "words", "add"} => v.on.list \in Lists
  /\ step = "change" /\ v.job = "words" => v.on.word \in Words \cup {Blank}
  /\ step = "change" /\ v.job = "edit" =>
        v.on.text \in Texts \cup {Blank} /\ (v.on.field = "title" => v.on.text \in Texts)
  /\ step = "saving" => v.previous \in Config /\ v.dump \in Config
  /\ step = "saving" /\ v.job \in {"create", "confirm"} => v.on \in ids

(* A draft of a rule, or none. *)
DraftOK(draft) ==
  \/ draft = Missing
  \/ /\ DOMAIN draft \subseteq {"lot", "keywords", "all", "percent", "value", "competitorMin", "ownMin", "commission"}
     /\ "keywords" \in DOMAIN draft => draft["keywords"] \in SUBSET Keywords
     /\ \A f \in {"all", "percent"} \cap DOMAIN draft : draft[f] \in BOOLEAN
     /\ \A f \in {"value", "competitorMin", "ownMin"} \cap DOMAIN draft : draft[f] \in Nat
     /\ "commission" \in DOMAIN draft => draft["commission"] \in 0..100

(* A dialog, and what has been answered in it. *)
DialogOK(d) ==
  /\ d.kind = "createText" => d.title \in Texts
  /\ d.kind = "status" => d.id \in Statuses
  /\ d.kind = "words" => d.on.list \in Lists /\ d.moved \in BOOLEAN
  /\ d.kind = "rule" => DraftOK(d.draft)

(* The settings in memory and in the file. *)
StoreOK   == heap \in Seq(Config) /\ current \in 1..Len(heap) /\ file \in Config

(* The ids of rules and templates. *)
IdsOK     == issued \subseteq RuleIds \cup TemplateIds /\ promised \subseteq issued

(* The threads and what each is doing. *)
ThreadsOK == /\ DOMAIN pc = Actors /\ DOMAIN my = Handlers
             /\ \A h \in Handlers : WorkOK(pc[h], my[h], issued)
             /\ \A w \in Workers : pc[w] \in {"unborn", "loop", "begin", "ended"} \cup CycleSteps

(* The dialogs of the administrators. *)
DialogsOK == DOMAIN dialog = Users /\ \A u \in Users : DialogOK(dialog[u])

(* The pages under their eyes: a button of a list names one. *)
PagesOK   == /\ DOMAIN panel = Users
             /\ \A u \in Users : \A b \in panel[u] : b.act \in {"list", "add", "remove"} => b.list \in Lists

(* The types that an invariant of the panels rests on. *)
Typed == StoreOK /\ IdsOK /\ ThreadsOK /\ DialogsOK /\ PagesOK

(* The ids in settings. *)
Ids(c) == IdsOf(c.rules) \cup IdsOf(c.templates)

(* No two handlers are between the change of the settings and the end of the save. *)
OneSaver == \A g, h \in Handlers : pc[g] = "saving" /\ pc[h] = "saving" => g = h

(* Unless two saves crossed: what was promised, and is no double that a start has dropped, is in the      *)
(* settings, in the file, and in what a save that fails goes back to. *)
KeptInv ==
  "saves" \notin overlap =>
    /\ OneSaver
    /\ promised \subseteq Ids(config) \cup dropped /\ promised \subseteq Ids(file) \cup dropped
    /\ \A h \in Handlers : pc[h] = "saving" =>
         /\ promised \subseteq Ids(my[h].previous) \cup dropped /\ my[h].dump = config
         /\ my[h].job \in {"create", "confirm"} => my[h].on \in Ids(config)

(* The item a button was made for is where it was. *)
InPlace(b) == SameId(b) /\ b.item \in DOMAIN Rules[b.index][b.list] /\ Rules[b.index][b.list][b.item] = b.word

(* A worker that goes on is there. *)
Running == ~stopping /\ worker # Nobody /\ Alive(worker)

-----------------------------------------------------------------------------
(* Lists of records with ids. *)

(* A list without one of its members: those before it stay, those behind move up. *)
LEMMA RemoveAtProperties ==
  ASSUME NEW S, NEW q \in Seq(S), NEW i \in 1..Len(q)
  PROVE  /\ RemoveAt(q, i) \in Seq(S)
         /\ Len(RemoveAt(q, i)) = Len(q) - 1
         /\ \A j \in 1..Len(q) - 1 : RemoveAt(q, i)[j] = IF j < i THEN q[j] ELSE q[j + 1]
<1> DEFINE p == SubSeq(q, 1, i - 1)
           r == SubSeq(q, i + 1, Len(q))
<1>1. Len(q) \in Nat /\ i \in Nat /\ i \in 1..Len(q)
  BY LenProperties
<1>2. /\ p \in Seq(S) /\ Len(p) = i - 1
      /\ \A j \in 1..i - 1 : p[j] = q[j]
  <2>1. 1 \in Nat \ {0} /\ i - 1 \in 0..Len(q) /\ 1 \in Int /\ i - 1 \in Int
    BY <1>1
  <2>2. p \in Seq(S)
    BY <2>1, SubSeqType
  <2>3. /\ Len(p) = IF 1 <= i - 1 THEN i - 1 - 1 + 1 ELSE 0
        /\ \A j \in 1..i - 1 - 1 + 1 : p[j] = q[1 + j - 1]
    <3>1. \A j \in 1..i - 1 : j \in 1..Len(q) /\ q[j] \in S
      BY <1>1, ElementOfSeq
    <3> QED  BY <2>1, <3>1, SubSeqProperties
  <2> HIDE DEF p
  <2> QED  BY <1>1, <2>2, <2>3
<1>3. /\ r \in Seq(S) /\ Len(r) = Len(q) - i
      /\ \A j \in 1..Len(q) - i : r[j] = q[j + i]
  <2>1. i + 1 \in Nat \ {0} /\ Len(q) \in 0..Len(q) /\ i + 1 \in Int /\ Len(q) \in Int
    BY <1>1
  <2>2. r \in Seq(S)
    BY <2>1, SubSeqType
  <2>3. /\ Len(r) = IF i + 1 <= Len(q) THEN Len(q) - (i + 1) + 1 ELSE 0
        /\ \A j \in 1..Len(q) - (i + 1) + 1 : r[j] = q[i + 1 + j - 1]
    <3>1. \A j \in i + 1..Len(q) : j \in 1..Len(q) /\ q[j] \in S
      BY <1>1, ElementOfSeq
    <3> QED  BY <2>1, <3>1, SubSeqProperties
  <2> HIDE DEF r
  <2> QED  BY <1>1, <2>2, <2>3
<1>4. RemoveAt(q, i) = p \o r
  BY DEF RemoveAt
<1> HIDE DEF p, r
<1>5. /\ p \o r \in Seq(S) /\ Len(p \o r) = Len(p) + Len(r)
      /\ \A j \in 1..Len(p) + Len(r) : (p \o r)[j] = IF j <= Len(p) THEN p[j] ELSE r[j - Len(p)]
  BY <1>2, <1>3, ConcatProperties
<1> QED  BY <1>1, <1>2, <1>3, <1>4, <1>5

(* What remains of the ids when a member goes, or one comes. *)
LEMMA IdsOfRemoved ==
  ASSUME NEW S, NEW q \in Seq(S), NEW i \in 1..Len(q)
  PROVE  /\ IdsOf(RemoveAt(q, i)) \subseteq IdsOf(q)
         /\ IdsOf(q) \ {q[i].id} \subseteq IdsOf(RemoveAt(q, i))
<1> DEFINE r == RemoveAt(q, i)
<1>1. /\ r \in Seq(S) /\ Len(r) = Len(q) - 1
      /\ \A j \in 1..Len(q) - 1 : r[j] = IF j < i THEN q[j] ELSE q[j + 1]
  BY RemoveAtProperties
<1> HIDE DEF r
<1>2. Len(q) \in Nat /\ DOMAIN q = 1..Len(q) /\ DOMAIN r = 1..Len(q) - 1 /\ i \in 1..Len(q)
  BY <1>1, LenProperties
<1>3. IdsOf(r) \subseteq IdsOf(q)
  <2> SUFFICES ASSUME NEW j \in DOMAIN r
               PROVE  \E k \in DOMAIN q : r[j].id = q[k].id
    BY DEF IdsOf
  <2>1. j \in DOMAIN q /\ j + 1 \in DOMAIN q
    BY <1>2
  <2> QED  BY <1>1, <1>2, <2>1
<1>4. IdsOf(q) \ {q[i].id} \subseteq IdsOf(r)
  <2> SUFFICES ASSUME NEW k \in DOMAIN q, k # i
               PROVE  \E j \in DOMAIN r : r[j].id = q[k].id
    BY DEF IdsOf
  <2>1. CASE k < i
    BY <1>1, <1>2, <2>1
  <2>2. CASE k > i
    <3>1. k - 1 \in DOMAIN r /\ ~ (k - 1 < i) /\ k - 1 + 1 = k
      BY <1>2, <2>2
    <3>2. r[k - 1] = q[k - 1 + 1]
      BY <1>1, <1>2, <3>1
    <3> QED  BY <3>1, <3>2
  <2> QED  BY <1>2, <2>1, <2>2
<1> QED  BY <1>3, <1>4 DEF r

(* The ids of a list with one member more. *)
LEMMA IdsOfAppended ==
  ASSUME NEW S, NEW q \in Seq(S), NEW e \in S
  PROVE  /\ IdsOf(Append(q, e)) = IdsOf(q) \cup {e.id}
         /\ Append(q, e) \in Seq(S)
         /\ \A i \in DOMAIN q : i \in DOMAIN Append(q, e) /\ Append(q, e)[i] = q[i]
<1> DEFINE r == Append(q, e)
<1>1. /\ r \in Seq(S) /\ Len(r) = Len(q) + 1 /\ r[Len(q) + 1] = e
      /\ \A i \in 1..Len(q) : r[i] = q[i]
  BY AppendProperties
<1> HIDE DEF r
<1>2. Len(q) \in Nat /\ DOMAIN q = 1..Len(q) /\ DOMAIN r = 1..Len(q) + 1
  BY <1>1, LenProperties
<1>3. IdsOf(r) \subseteq IdsOf(q) \cup {e.id}
  BY <1>1, <1>2 DEF IdsOf
<1>4. IdsOf(q) \cup {e.id} \subseteq IdsOf(r)
  BY <1>1, <1>2 DEF IdsOf
<1> QED  BY <1>1, <1>2, <1>3, <1>4 DEF r

(* A member that is replaced by one with the same id. *)
LEMMA IdsOfReplaced ==
  ASSUME NEW S, NEW q \in Seq(S), NEW i \in 1..Len(q), NEW e \in S, e.id = q[i].id
  PROVE  /\ [q EXCEPT ![i] = e] \in Seq(S)
         /\ IdsOf([q EXCEPT ![i] = e]) = IdsOf(q)
<1>1. [q EXCEPT ![i] = e] \in Seq(S)
  BY ExceptSeq
<1> QED  BY <1>1 DEF IdsOf

(* Index finds a template with the id, or none. *)
LEMMA IndexFinds ==
  ASSUME NEW q \in Seq(TemplateRecords), NEW id, Index(q, id) # 0
  PROVE  Index(q, id) \in 1..Len(q) /\ q[Index(q, id)].id = id
<1> DEFINE I == {i \in 1..Len(q) : q[i].id = id}
<1>1. Index(q, id) = IF I # {} THEN Min(I) ELSE 0
  BY DEF Index, SelectInSeq
<1>2. I \in SUBSET Nat
  BY LenProperties
<1> HIDE DEF I
<1>3. I # {} /\ Min(I) \in I
  <2>1. I # {}
    BY <1>1
  <2>2. \E i \in I : \A j \in I : i =< j
    BY <1>2, <2>1, LeastNatural
  <2> QED  BY <2>1, <2>2 DEF Min
<1> QED  BY <1>1, <1>3 DEF I

(* Every rule and item of a list of rules stays at its index. *)
Stable(r, s) ==
  \A i \in DOMAIN r :
    /\ i \in DOMAIN s /\ s[i].id = r[i].id
    /\ \A l \in Lists : \A j \in DOMAIN r[i][l] : j \in DOMAIN s[i][l] /\ s[i][l][j] = r[i][l][j]

(* What a change may make of the settings c. *)
Fine(c, d) == d \in Config /\ d.enabled = c.enabled

(* Settings with other templates, with other rules, or with the rest other. *)
LEMMA OtherTemplates ==
  ASSUME NEW c \in Config, NEW q \in Seq(TemplateRecords), NEW d, d = [c EXCEPT !.templates = q]
  PROVE  Fine(c, d) /\ d.rules = c.rules /\ Ids(d) = IdsOf(c.rules) \cup IdsOf(q)
BY DEF Fine, Config, Ids

(* Settings with other rules. *)
LEMMA OtherRules ==
  ASSUME NEW c \in Config, NEW q \in Seq(RuleRecords), NEW d, d = [c EXCEPT !.rules = q]
  PROVE  Fine(c, d) /\ d.rules = q /\ Ids(d) = IdsOf(q) \cup IdsOf(c.templates)
BY DEF Fine, Config, Ids

(* A list is stable when nothing changes. *)
LEMMA StableSame ==
  ASSUME NEW r
  PROVE  Stable(r, r)
BY DEF Stable

(* A rule has the lists that are edited. *)
LEMMA RuleLists ==
  ASSUME NEW r \in RuleRecords, NEW l \in Lists
  PROVE  /\ l \in {"sellers", "words"} /\ r[l] \in Seq(Entries)
         /\ \A s \in Seq(Entries) : [r EXCEPT ![l] = s] \in RuleRecords /\ [r EXCEPT ![l] = s].id = r.id
<1>1. l \in {"sellers", "words"}
  BY AutoDumpingPanelAssumption
<1>2. r.sellers \in Seq(Entries) /\ r.words \in Seq(Entries)
  BY DEF RuleRecords
<1>3. CASE l = "sellers"
  BY <1>2, <1>3 DEF RuleRecords
<1>4. CASE l = "words"
  BY <1>2, <1>4 DEF RuleRecords
<1> QED  BY <1>1, <1>3, <1>4

(* Another list in one of the rules. *)
LEMMA OtherList ==
  ASSUME NEW c \in Config, NEW i \in DOMAIN c.rules, NEW l \in Lists, NEW s \in Seq(Entries),
         NEW d, d = [c EXCEPT !.rules[i][l] = s]
  PROVE  /\ Fine(c, d) /\ Ids(d) = Ids(c)
         /\ (\A j \in DOMAIN c.rules[i][l] : j \in DOMAIN s /\ s[j] = c.rules[i][l][j])
               => Stable(c.rules, d.rules)
<1> DEFINE q == c.rules
           e == [q[i] EXCEPT ![l] = s]
           p == [q EXCEPT ![i] = e]
<1>1. q \in Seq(RuleRecords) /\ i \in 1..Len(q) /\ q[i] \in RuleRecords
  <2>1. q \in Seq(RuleRecords)
    BY DEF Config
  <2> QED  BY <2>1, LenProperties, ElementOfSeq
<1>2. e \in RuleRecords /\ e.id = q[i].id
  BY <1>1, RuleLists
<1>3. d = [c EXCEPT !.rules = p]
  BY DEF Config
<1>4. p \in Seq(RuleRecords) /\ IdsOf(p) = IdsOf(q)
  <2> HIDE DEF q, e
  <2> QED  BY <1>1, <1>2, IdsOfReplaced
<1>5. Fine(c, d) /\ d.rules = p /\ Ids(d) = IdsOf(p) \cup IdsOf(c.templates)
  <2> HIDE DEF p
  <2> QED  BY <1>3, <1>4, OtherRules
<1>6. ASSUME \A j \in DOMAIN q[i][l] : j \in DOMAIN s /\ s[j] = q[i][l][j]
      PROVE  Stable(q, p)
  <2>1. \A k \in DOMAIN q : k # i => p[k] = q[k]
    OBVIOUS
  <2>2. DOMAIN p = DOMAIN q /\ p[i] = e
    BY <1>1
  <2>3. e[l] = s /\ \A m \in Lists : m # l => e[m] = q[i][m]
    <3>1. q[i] \in RuleRecords /\ \A m \in Lists : m \in {"sellers", "words"}
      BY <1>1, RuleLists
    <3> HIDE DEF q
    <3> QED  BY <3>1 DEF RuleRecords
  <2> HIDE DEF q, e, p
  <2> SUFFICES ASSUME NEW k \in DOMAIN q
               PROVE  /\ k \in DOMAIN p /\ p[k].id = q[k].id
                      /\ \A m \in Lists : \A j \in DOMAIN q[k][m] : j \in DOMAIN p[k][m] /\ p[k][m][j] = q[k][m][j]
    BY DEF Stable
  <2>4. CASE k # i
    BY <2>1, <2>2, <2>4
  <2>5. CASE k = i
    BY <1>2, <1>6, <2>2, <2>3, <2>5
  <2> QED  BY <2>4, <2>5
<1> QED  BY <1>4, <1>5, <1>6 DEF Ids

(* Another value of a field of one rule, not its id nor its lists. *)
LEMMA OtherFlag ==
  ASSUME NEW c \in Config, NEW i \in DOMAIN c.rules, NEW d, d = [c EXCEPT !.rules[i].enabled = ~@]
  PROVE  Fine(c, d) /\ Ids(d) = Ids(c) /\ Stable(c.rules, d.rules)
<1> DEFINE q == c.rules
           e == [q[i] EXCEPT !.enabled = ~@]
           p == [q EXCEPT ![i] = e]
<1>1. q \in Seq(RuleRecords) /\ i \in 1..Len(q) /\ q[i] \in RuleRecords
  <2>1. q \in Seq(RuleRecords)
    BY DEF Config
  <2> QED  BY <2>1, LenProperties, ElementOfSeq
<1>2. e \in RuleRecords /\ e.id = q[i].id
  BY <1>1 DEF RuleRecords
<1>3. d = [c EXCEPT !.rules = p]
  BY DEF Config
<1>4. p \in Seq(RuleRecords) /\ IdsOf(p) = IdsOf(q)
  <2> HIDE DEF q, e
  <2> QED  BY <1>1, <1>2, IdsOfReplaced
<1>5. Fine(c, d) /\ d.rules = p /\ Ids(d) = IdsOf(p) \cup IdsOf(c.templates)
  <2> HIDE DEF p
  <2> QED  BY <1>3, <1>4, OtherRules
<1>6. Stable(q, p)
  <2>1. \A m \in Lists : m \in {"sellers", "words"}
    BY AutoDumpingPanelAssumption
  <2>2. \A m \in Lists : e[m] = q[i][m]
    BY <1>1, <2>1 DEF RuleRecords
  <2>3. DOMAIN p = DOMAIN q /\ p[i] = e /\ \A k \in DOMAIN q : k # i => p[k] = q[k]
    BY <1>1
  <2> HIDE DEF q, e, p
  <2> QED  BY <1>2, <2>2, <2>3 DEF Stable
<1> QED  BY <1>4, <1>5, <1>6 DEF Ids

(* One rule more, or one less. *)
LEMMA MoreRules ==
  ASSUME NEW c \in Config, NEW e \in RuleRecords, NEW d, d = [c EXCEPT !.rules = Append(@, e)]
  PROVE  Fine(c, d) /\ Ids(d) = Ids(c) \cup {e.id} /\ Stable(c.rules, d.rules)
<1> DEFINE q == c.rules
           p == Append(q, e)
<1>1. q \in Seq(RuleRecords) /\ d = [c EXCEPT !.rules = p]
  BY DEF Config
<1>2. p \in Seq(RuleRecords) /\ IdsOf(p) = IdsOf(q) \cup {e.id} /\ \A i \in DOMAIN q : i \in DOMAIN p /\ p[i] = q[i]
  <2> HIDE DEF q
  <2> QED  BY <1>1, IdsOfAppended
<1> HIDE DEF p
<1>3. Fine(c, d) /\ d.rules = p /\ Ids(d) = IdsOf(p) \cup IdsOf(c.templates)
  BY <1>1, <1>2, OtherRules
<1> QED  BY <1>2, <1>3 DEF Ids, Stable

(* Settings without one of the rules keep the other ids. *)
LEMMA FewerRules ==
  ASSUME NEW c \in Config, NEW i \in DOMAIN c.rules, NEW d, d = [c EXCEPT !.rules = RemoveAt(@, i)]
  PROVE  Fine(c, d) /\ Ids(c) \ {c.rules[i].id} \subseteq Ids(d)
<1> DEFINE q == c.rules
           p == RemoveAt(q, i)
<1>1. q \in Seq(RuleRecords) /\ d = [c EXCEPT !.rules = p]
  BY DEF Config
<1>2. i \in 1..Len(q)
  BY <1>1, LenProperties
<1>3. p \in Seq(RuleRecords) /\ IdsOf(q) \ {q[i].id} \subseteq IdsOf(p)
  <2> HIDE DEF q
  <2> QED  BY <1>1, <1>2, RemoveAtProperties, IdsOfRemoved
<1> HIDE DEF p
<1>4. Fine(c, d) /\ d.rules = p /\ Ids(d) = IdsOf(p) \cup IdsOf(c.templates)
  BY <1>1, <1>3, OtherRules
<1> QED  BY <1>3, <1>4 DEF Ids

(* One template more, one less, or one that is edited. *)
LEMMA MoreTemplates ==
  ASSUME NEW c \in Config, NEW t \in TemplateRecords, NEW d, d = [c EXCEPT !.templates = Append(@, t)]
  PROVE  Fine(c, d) /\ Ids(d) = Ids(c) \cup {t.id} /\ d.rules = c.rules
<1> DEFINE q == c.templates
           p == Append(q, t)
<1>1. q \in Seq(TemplateRecords) /\ d = [c EXCEPT !.templates = p]
  BY DEF Config
<1>2. p \in Seq(TemplateRecords) /\ IdsOf(p) = IdsOf(q) \cup {t.id}
  <2> HIDE DEF q
  <2> QED  BY <1>1, IdsOfAppended
<1> HIDE DEF p
<1>3. Fine(c, d) /\ d.rules = c.rules /\ Ids(d) = IdsOf(c.rules) \cup IdsOf(p)
  BY <1>1, <1>2, OtherTemplates
<1> QED  BY <1>2, <1>3 DEF Ids

(* Settings without one of the templates keep the other ids. *)
LEMMA FewerTemplates ==
  ASSUME NEW c \in Config, NEW i \in DOMAIN c.templates, NEW d, d = [c EXCEPT !.templates = RemoveAt(@, i)]
  PROVE  Fine(c, d) /\ Ids(c) \ {c.templates[i].id} \subseteq Ids(d) /\ d.rules = c.rules
<1> DEFINE q == c.templates
           p == RemoveAt(q, i)
<1>1. q \in Seq(TemplateRecords) /\ d = [c EXCEPT !.templates = p]
  BY DEF Config
<1>2. i \in 1..Len(q)
  BY <1>1, LenProperties
<1>3. p \in Seq(TemplateRecords) /\ IdsOf(q) \ {q[i].id} \subseteq IdsOf(p)
  <2> HIDE DEF q
  <2> QED  BY <1>1, <1>2, RemoveAtProperties, IdsOfRemoved
<1> HIDE DEF p
<1>4. Fine(c, d) /\ d.rules = c.rules /\ Ids(d) = IdsOf(c.rules) \cup IdsOf(p)
  BY <1>1, <1>3, OtherTemplates
<1> QED  BY <1>3, <1>4 DEF Ids

(* Settings with one of the templates edited have the same ids. *)
LEMMA EditedTemplate ==
  ASSUME NEW c \in Config, NEW i \in DOMAIN c.templates, NEW t \in TemplateRecords, t.id = c.templates[i].id,
         NEW d, d = [c EXCEPT !.templates[i] = t]
  PROVE  Fine(c, d) /\ Ids(d) = Ids(c) /\ d.rules = c.rules
<1> DEFINE q == c.templates
           p == [q EXCEPT ![i] = t]
<1>1. q \in Seq(TemplateRecords) /\ d = [c EXCEPT !.templates = p]
  BY DEF Config
<1>2. i \in 1..Len(q)
  BY <1>1, LenProperties
<1>3. p \in Seq(TemplateRecords) /\ IdsOf(p) = IdsOf(q)
  <2>1. t.id = q[i].id
    OBVIOUS
  <2> HIDE DEF q
  <2> QED  BY <1>1, <1>2, <2>1, IdsOfReplaced
<1> HIDE DEF p
<1>4. Fine(c, d) /\ d.rules = c.rules /\ Ids(d) = IdsOf(c.rules) \cup IdsOf(p)
  BY <1>1, <1>3, OtherTemplates
<1> QED  BY <1>3, <1>4 DEF Ids

(* A save of the settings as handler h makes it: `new` may differ from the *)
(* settings in what its job is about, and unless the other handlers are told,  *)
(* no rule and no item moves. *)
UpdatesAs(h, job, new) ==
  /\ Change(h, job, new) /\ Fine([config EXCEPT !.enabled = new.enabled], new)
  /\ job.job # "switch" => new.enabled = config.enabled
  /\ \/ my' = [my EXCEPT ![h] = Dumped(job, new)] /\ Stable(Rules, new.rules)
     \/ my' = Move(Dumped(job, new), h)
  /\ \/ pc[h] = "idle" /\ \E j, u, x : job = Job(j, u, x)
     \/ pc[h] = "change" /\ job = my[h]
  /\ job.job \in SaveJobs /\ (job.job \in {"remove", "words"} => job.on.list \in Lists)
  /\ issued \subseteq issued' /\ issued' \subseteq RuleIds \cup TemplateIds
  /\ promised' \subseteq promised /\ promised' \cap Ids(config) \subseteq Ids(new)
  /\ job.job \in {"create", "confirm"} => job.on \in issued' /\ job.on \in Ids(new)

(* A save of the settings by handler h. *)
Updates(h) == \E job, new : UpdatesAs(h, job, new)

(* The settings in memory are settings. *)
LEMMA ConfigType ==
  ASSUME StoreOK
  PROVE  config \in Config /\ Rules \in Seq(RuleRecords) /\ config.templates \in Seq(TemplateRecords)
<1>1. config \in Config
  BY ElementOfSeq DEF StoreOK, config
<1> QED  BY <1>1 DEF Config, Rules

(* A save that leaves rules and ids alone. *)
LEMMA MildSave ==
  ASSUME StoreOK, IdsOK, NEW h \in Handlers, NEW job, NEW new, Save(h, job, new), Fine(config, new),
         Ids(new) = Ids(config), Stable(Rules, new.rules),
         (pc[h] = "idle" /\ \E j, u, x : job = Job(j, u, x)) \/ (pc[h] = "change" /\ job = my[h]),
         job.job \in SaveJobs \ {"create", "confirm"}, job.job \in {"remove", "words"} => job.on.list \in Lists,
         UNCHANGED <<issued, promised>>
  PROVE  Updates(h)
<1>1. UpdatesAs(h, job, new)
  BY DEF UpdatesAs, Fine, Config, Save, IdsOK
<1> QED  BY <1>1 DEF Updates

(* Settings differ finely from themselves with the same switch. *)
LEMMA FineSelf ==
  ASSUME NEW c \in Config, NEW d, Fine(c, d)
  PROVE  Fine([c EXCEPT !.enabled = d.enabled], d)
BY DEF Fine, Config

(* A template that is created is a save (AnswerText). *)
LEMMA AnswerTextSaves ==
  ASSUME Typed, NEW h \in Handlers, NEW u \in Users, AnswerText(h, u)
  PROVE  Updates(h)
<1>1. StoreOK /\ IdsOK /\ DialogsOK
  BY DEF Typed
<1>2. config \in Config
  BY <1>1, ConfigType
<1>3. PICK id \in TemplateIds \ issued, x \in Texts \cup {Blank} :
         /\ issued' = issued \cup {id}
         /\ Save(h, Job("create", u, id),
                 [config EXCEPT !.templates = Append(@, [id |-> id, title |-> dialog[u].title, text |-> x])])
  BY DEF AnswerText
<1> DEFINE t == [id |-> id, title |-> dialog[u].title, text |-> x]
           new == [config EXCEPT !.templates = Append(@, t)]
           job == Job("create", u, id)
<1>4. t \in TemplateRecords /\ t.id = id
  <2>1. dialog[u].title \in Texts
    BY <1>1 DEF AnswerText, DialogsOK, DialogOK
  <2> QED  BY <1>3, <2>1 DEF TemplateRecords
<1>5. Save(h, job, new)
  BY <1>3
<1>6. Fine(config, new) /\ Ids(new) = Ids(config) \cup {id} /\ new.rules = config.rules
  <2> HIDE DEF t
  <2> QED  BY <1>2, <1>4, MoreTemplates
<1>7. job.job = "create" /\ job.on = id
  BY DEF Job
<1>8. pc[h] = "idle" /\ UNCHANGED promised /\ \E j, v, y : job = Job(j, v, y)
  BY DEF AnswerText
<1> HIDE DEF new, job
<1>9. UpdatesAs(h, job, new)
  <2>1. Stable(Rules, new.rules)
    BY <1>6, StableSame DEF Rules
  <2>2. issued' \subseteq RuleIds \cup TemplateIds /\ issued \subseteq issued' /\ id \in issued'
    BY <1>1, <1>3 DEF IdsOK
  <2>3. Change(h, job, new) /\ my' = [my EXCEPT ![h] = Dumped(job, new)]
    BY <1>5 DEF Save
  <2> QED  BY <1>2, <1>6, <1>7, <1>8, <2>1, <2>2, <2>3, FineSelf DEF UpdatesAs, SaveJobs, Fine
<1> QED  BY <1>9 DEF Updates

(* A rule that is confirmed is a save, or nothing happens (ConfirmRule). *)
LEMMA ConfirmRuleSaves ==
  ASSUME Typed, NEW h \in Handlers, NEW u \in Users, ConfirmRule(h, u)
  PROVE  Updates(h) \/ UNCHANGED <<settings, pc, my, issued, promised, overlap>>
<1> DEFINE draft == Draft(u)
<1>1. StoreOK /\ IdsOK /\ DialogsOK
  BY DEF Typed
<1>2. config \in Config
  BY <1>1, ConfigType
<1>3. CASE UNCHANGED <<settings, pc, my, issued, overlap>>
  BY <1>3 DEF ConfirmRule
<1>4. CASE /\ {"lot", "keywords"} \subseteq DOMAIN draft /\ draft.lot \in OwnLots
           /\ \E id \in RuleIds \ issued :
                 /\ issued' = issued \cup {id}
                 /\ Save(h, Job("confirm", u, id), [config EXCEPT !.rules = Append(@, NewRule(draft, id))])
  <2>1. PICK id \in RuleIds \ issued :
           /\ issued' = issued \cup {id}
           /\ Save(h, Job("confirm", u, id), [config EXCEPT !.rules = Append(@, NewRule(draft, id))])
    BY <1>4
  <2> DEFINE r == NewRule(draft, id)
             new == [config EXCEPT !.rules = Append(@, r)]
             job == Job("confirm", u, id)
  <2>2. r \in RuleRecords /\ r.id = id
    <3>1. DraftOK(draft) /\ draft # Missing
      <4>1. DraftOK(draft)
        BY <1>1 DEF DialogsOK, DialogOK, DraftOK, Draft
      <4>2. "lot" \notin DOMAIN Missing
        BY DEF Missing
      <4> QED  BY <1>4, <4>1, <4>2
    <3> HIDE DEF draft
    <3> DEFINE D == Default(draft, id)
    <3>2. draft.lot \in OwnLots /\ draft.keywords \in SUBSET Keywords /\ "id" \notin DOMAIN draft
      BY <1>4, <3>1 DEF DraftOK
    <3>3. D \in RuleRecords /\ D.id = id
      <4>1. Market[draft.lot].sub \in {Market[l].sub : l \in DOMAIN Market}
        BY <3>2, AutoDumpingPanelAssumption
      <4>2. <<>> \in Seq(Entries) /\ 1000 \in Nat /\ 0 \in Nat /\ 0 \in 0..100
        BY EmptySeq
      <4> QED  BY <2>1, <3>2, <4>1, <4>2 DEF RuleRecords, Default
    <3>4. DOMAIN D = {"id", "enabled", "lot", "sub", "keywords", "all", "percent", "value", "competitorMin",
                      "ownMin", "commission", "sellers", "words"}
      BY DEF Default
    <3>5. r = [f \in DOMAIN D |-> IF f \in DOMAIN draft THEN draft[f] ELSE D[f]]
      BY DEF NewRule
    <3> HIDE DEF D, r
    <3>6. \A f \in DOMAIN draft \cap DOMAIN D :
             /\ f = "lot" => draft[f] \in OwnLots
             /\ f = "keywords" => draft[f] \in SUBSET Keywords
             /\ f \in {"all", "percent"} => draft[f] \in BOOLEAN
             /\ f \in {"value", "competitorMin", "ownMin"} => draft[f] \in Nat
             /\ f = "commission" => draft[f] \in 0..100
             /\ f \notin {"id", "enabled", "sub", "sellers", "words"}
      BY <3>1, <3>2 DEF DraftOK
    <3>7. /\ r.id = id /\ r.enabled = D.enabled /\ r.sub = D.sub /\ r.sellers = D.sellers /\ r.words = D.words
      BY <3>3, <3>4, <3>5, <3>6
    <3>8. /\ r.lot \in OwnLots \cup {AnyLot} /\ r.keywords \in SUBSET Keywords
          /\ r.all \in BOOLEAN /\ r.percent \in BOOLEAN
          /\ r.value \in Nat /\ r.competitorMin \in Nat /\ r.ownMin \in Nat /\ r.commission \in 0..100
      <4>1. /\ D.lot \in OwnLots \cup {AnyLot} /\ D.keywords \in SUBSET Keywords /\ D.all \in BOOLEAN
            /\ D.percent \in BOOLEAN /\ D.value \in Nat /\ D.competitorMin \in Nat /\ D.ownMin \in Nat
            /\ D.commission \in 0..100
        BY <3>3 DEF RuleRecords
      <4>2. r.lot \in OwnLots \cup {AnyLot} /\ r.keywords \in SUBSET Keywords
        BY <3>4, <3>5, <3>6, <4>1
      <4>3. r.all \in BOOLEAN /\ r.percent \in BOOLEAN
        BY <3>4, <3>5, <3>6, <4>1
      <4>4. r.value \in Nat /\ r.competitorMin \in Nat /\ r.ownMin \in Nat /\ r.commission \in 0..100
        BY <3>4, <3>5, <3>6, <4>1
      <4> QED  BY <4>2, <4>3, <4>4
    <3>9. r = [id |-> r.id, enabled |-> r.enabled, lot |-> r.lot, sub |-> r.sub, keywords |-> r.keywords,
               all |-> r.all, percent |-> r.percent, value |-> r.value, competitorMin |-> r.competitorMin,
               ownMin |-> r.ownMin, commission |-> r.commission, sellers |-> r.sellers, words |-> r.words]
      BY <3>4, <3>5
    <3> QED  BY <2>1, <3>3, <3>7, <3>8, <3>9 DEF RuleRecords
  <2>3. Save(h, job, new)
    BY <2>1
  <2>4. Fine(config, new) /\ Ids(new) = Ids(config) \cup {id} /\ Stable(config.rules, new.rules)
    <3> HIDE DEF r
    <3> QED  BY <1>2, <2>2, MoreRules
  <2>5. job.job = "confirm" /\ job.on = id
    BY DEF Job
  <2>6. pc[h] = "idle" /\ UNCHANGED promised /\ \E j, v, y : job = Job(j, v, y)
    BY DEF ConfirmRule
  <2> HIDE DEF new, job
  <2>7. UpdatesAs(h, job, new)
    <3>1. issued' \subseteq RuleIds \cup TemplateIds /\ issued \subseteq issued' /\ id \in issued'
      BY <1>1, <2>1 DEF IdsOK
    <3>2. Change(h, job, new) /\ my' = [my EXCEPT ![h] = Dumped(job, new)]
      BY <2>3 DEF Save
    <3> QED  BY <1>2, <2>4, <2>5, <2>6, <3>1, <3>2, FineSelf DEF UpdatesAs, SaveJobs, Fine, Rules
  <2> QED  BY <2>7 DEF Updates
<1> QED  BY <1>3, <1>4 DEF ConfirmRule

(* A handler that ends and leaves the settings alone. *)
Stops(h) == Ends(h) /\ UNCHANGED <<settings, issued, promised, overlap>>

(* What Typed says of a handler. *)
LEMMA HandlerWork ==
  ASSUME Typed, NEW h \in Handlers
  PROVE  WorkOK(pc[h], my[h], issued)
BY DEF Typed, ThreadsOK

(* A template that is edited or dropped is a save, or the handler finds none (ChangeTemplate). *)
LEMMA ChangeTemplateSaves ==
  ASSUME Typed, NEW h \in Handlers, ChangeTemplate(h)
  PROVE  Updates(h) \/ Stops(h)
<1> DEFINE i == Index(config.templates, my[h].on.id)
<1>1. StoreOK /\ IdsOK /\ WorkOK(pc[h], my[h], issued)
  BY HandlerWork DEF Typed
<1>2. config \in Config /\ config.templates \in Seq(TemplateRecords)
  BY <1>1, ConfigType
<1>3. pc[h] = "change" /\ my[h].job \in {"edit", "drop"} /\ UNCHANGED issued
  BY DEF ChangeTemplate
<1>4. i # 0 => i \in DOMAIN config.templates /\ config.templates[i].id = my[h].on.id
  BY <1>2, IndexFinds, LenProperties
<1>5. CASE i = 0
  BY <1>3, <1>5 DEF ChangeTemplate, Stops
<1> HIDE DEF i
<1>6. ASSUME i # 0, my[h].job = "edit"
      PROVE  Updates(h)
  <2> DEFINE old == config.templates[i]
             t == IF my[h].on.field = "title" THEN [old EXCEPT !.title = my[h].on.text]
                                               ELSE [old EXCEPT !.text = my[h].on.text]
             new == [config EXCEPT !.templates[i] = t]
  <2>1. old \in TemplateRecords
    BY <1>2, <1>4, <1>6, ElementOfSeq, LenProperties
  <2>2. t \in TemplateRecords /\ t.id = old.id
    <3>1. my[h].on.text \in Texts \cup {Blank} /\ (my[h].on.field = "title" => my[h].on.text \in Texts)
      BY <1>1, <1>3, <1>6 DEF WorkOK
    <3> HIDE DEF old
    <3> QED  BY <2>1, <3>1 DEF TemplateRecords
  <2>3. Save(h, my[h], new) /\ UNCHANGED promised
    BY <1>3, <1>6 DEF ChangeTemplate, i
  <2>4. Fine(config, new) /\ Ids(new) = Ids(config) /\ new.rules = config.rules
    <3> HIDE DEF t
    <3> QED  BY <1>2, <1>4, <1>6, <2>2, EditedTemplate
  <2> HIDE DEF new
  <2>5. Stable(Rules, new.rules)
    BY <2>4, StableSame DEF Rules
  <2> QED  BY <1>1, <1>3, <1>6, <2>3, <2>4, <2>5, MildSave DEF SaveJobs, ChangeJobs
<1>7. ASSUME i # 0, my[h].job = "drop"
      PROVE  Updates(h)
  <2> DEFINE new == [config EXCEPT !.templates = RemoveAt(@, i)]
  <2>1. Save(h, my[h], new) /\ promised' = promised \ {my[h].on.id}
    BY <1>3, <1>7 DEF ChangeTemplate, i
  <2>2. Fine(config, new) /\ Ids(config) \ {my[h].on.id} \subseteq Ids(new) /\ new.rules = config.rules
    BY <1>2, <1>4, <1>7, FewerTemplates
  <2> HIDE DEF new
  <2>3. Stable(Rules, new.rules)
    BY <2>2, StableSame DEF Rules
  <2>4. UpdatesAs(h, my[h], new)
    BY <1>1, <1>2, <1>3, <1>7, <2>1, <2>2, <2>3, FineSelf DEF UpdatesAs, Fine, Save, IdsOK, SaveJobs, ChangeJobs
  <2> QED  BY <2>4 DEF Updates
<1> QED  BY <1>3, <1>5, <1>6, <1>7

(* Settings of which only the statuses, or the gist, differ. *)
LEMMA OtherRest ==
  ASSUME NEW c \in Config, NEW d \in Config, d.enabled = c.enabled, d.rules = c.rules, d.templates = c.templates
  PROVE  Fine(c, d) /\ Ids(d) = Ids(c) /\ Stable(c.rules, d.rules)
BY StableSame DEF Fine, Ids

(* A change of something else than rules and templates is a save. *)
LEMMA RestSaves ==
  ASSUME Typed, NEW h \in Handlers, NEW j \in {"status", "interval", "gistPage"}, NEW u, NEW x, NEW new \in Config,
         pc[h] = "idle", Save(h, Job(j, u, x), new), UNCHANGED <<issued, promised>>,
         new.enabled = config.enabled, new.rules = config.rules, new.templates = config.templates
  PROVE  Updates(h)
<1>1. StoreOK /\ IdsOK /\ config \in Config
  BY ConfigType DEF Typed
<1>2. Fine(config, new) /\ Ids(new) = Ids(config) /\ Stable(Rules, new.rules)
  BY <1>1, OtherRest DEF Rules
<1>3. Job(j, u, x).job = j
  BY DEF Job
<1> DEFINE job == Job(j, u, x)
<1>4. \E k, v, y : job = Job(k, v, y)
  OBVIOUS
<1>5. job.job \in SaveJobs \ {"create", "confirm"} /\ job.job \notin {"remove", "words"}
  BY <1>3 DEF SaveJobs, Switching
<1>6. Save(h, job, new)
  OBVIOUS
<1> HIDE DEF job
<1> QED  BY <1>1, <1>2, <1>4, <1>5, <1>6, MildSave

(* A status that is chosen is a save (SetStatus). *)
LEMMA SetStatusSaves ==
  ASSUME Typed, NEW h \in Handlers, NEW u \in Users, SetStatus(h, u)
  PROVE  Updates(h)
<1>1. config \in Config
  BY ConfigType DEF Typed
<1>2. pc[h] = "idle" /\ UNCHANGED <<issued, promised>>
  BY DEF SetStatus
<1>3. PICK s \in Statuses :
         \/ Save(h, Job("status", u, s), [config EXCEPT !.status = s])
         \/ Save(h, Job("status", u, s), [config EXCEPT !.auto[s].enabled = ~@])
  BY DEF SetStatus
<1>4. CASE Save(h, Job("status", u, s), [config EXCEPT !.status = s])
  <2> DEFINE new == [config EXCEPT !.status = s]
  <2>1. /\ new \in Config
        /\ new.enabled = config.enabled /\ new.rules = config.rules /\ new.templates = config.templates
    BY <1>1 DEF Config
  <2>2. Save(h, Job("status", u, s), new)
    BY <1>4
  <2> HIDE DEF new
  <2> QED  BY <1>2, <2>1, <2>2, RestSaves
<1>5. CASE Save(h, Job("status", u, s), [config EXCEPT !.auto[s].enabled = ~@])
  <2> DEFINE new == [config EXCEPT !.auto[s].enabled = ~@]
  <2>1. /\ new \in Config
        /\ new.enabled = config.enabled /\ new.rules = config.rules /\ new.templates = config.templates
    BY <1>1 DEF Config
  <2>2. Save(h, Job("status", u, s), new)
    BY <1>5
  <2> HIDE DEF new
  <2> QED  BY <1>2, <2>1, <2>2, RestSaves
<1> QED  BY <1>3, <1>4, <1>5

(* An answer about a status is a save (AnswerStatus). *)
LEMMA AnswerStatusSaves ==
  ASSUME Typed, NEW h \in Handlers, NEW u \in Users, AnswerStatus(h, u)
  PROVE  Updates(h)
<1> DEFINE d == dialog[u]
<1>1. config \in Config /\ d.id \in Statuses
  BY ConfigType DEF Typed, AnswerStatus, DialogsOK, DialogOK
<1>2. pc[h] = "idle" /\ UNCHANGED <<issued, promised>>
  BY DEF AnswerStatus
<1>3. PICK x \in Texts \cup {Blank} :
         Save(h, Job("status", u, d.id),
              IF d.field = "auto" THEN [config EXCEPT !.auto[d.id].text = x]
                                  ELSE [config EXCEPT !.responses[d.id] = x])
  BY DEF AnswerStatus
<1> HIDE DEF d
<1> DEFINE new == IF d.field = "auto" THEN [config EXCEPT !.auto[d.id].text = x]
                                      ELSE [config EXCEPT !.responses[d.id] = x]
<1>4. /\ new \in Config
      /\ new.enabled = config.enabled /\ new.rules = config.rules /\ new.templates = config.templates
  <2>1. CASE d.field = "auto"
    <3> DEFINE auto == [config.auto EXCEPT ![d.id].text = x]
    <3>1. config.auto \in [Statuses -> [enabled : BOOLEAN, text : Texts \cup {Blank}]]
      BY <1>1 DEF Config
    <3>2. auto \in [Statuses -> [enabled : BOOLEAN, text : Texts \cup {Blank}]]
      BY <1>1, <1>3, <3>1
    <3>3. new = [config EXCEPT !.auto = auto]
      BY <1>1, <2>1 DEF Config
    <3> HIDE DEF auto, new
    <3> QED  BY <1>1, <3>2, <3>3 DEF Config
  <2>2. CASE d.field # "auto"
    BY <1>1, <2>2 DEF Config
  <2> QED  BY <2>1, <2>2
<1>5. Save(h, Job("status", u, d.id), new)
  BY <1>3
<1> HIDE DEF new
<1> QED  BY <1>2, <1>4, <1>5, RestSaves

(* A period that is set is a save (SetInterval). *)
LEMMA SetIntervalSaves ==
  ASSUME Typed, NEW h \in Handlers, NEW u \in Users, SetInterval(h, u)
  PROVE  Updates(h)
<1>1. config \in Config
  BY ConfigType DEF Typed
<1> QED  BY <1>1, RestSaves DEF SetInterval

(* The switch is a save (Switch). *)
LEMMA SwitchSaves ==
  ASSUME Typed, NEW h \in Handlers, NEW u \in Users, Switch(h, u)
  PROVE  Updates(h)
<1>1. StoreOK /\ IdsOK /\ config \in Config
  BY ConfigType DEF Typed
<1>2. pc[h] = "idle" /\ UNCHANGED <<issued, promised>>
  BY DEF Switch
<1>3. PICK on \in BOOLEAN : Save(h, Job("switch", u, on), [config EXCEPT !.enabled = on])
  BY DEF Switch
<1> DEFINE new == [config EXCEPT !.enabled = on]
           job == Job("switch", u, on)
<1>4. /\ new \in Config /\ new.enabled = on /\ new.rules = config.rules /\ new.templates = config.templates
  BY <1>1 DEF Config
<1>5. Save(h, job, new) /\ job.job = "switch" /\ \E k, v, y : job = Job(k, v, y)
  BY <1>3 DEF Job
<1>6. new = [config EXCEPT !.enabled = new.enabled]
  BY <1>4
<1> HIDE DEF new, job
<1>7. UpdatesAs(h, job, new)
  <2>1. Stable(Rules, new.rules) /\ Ids(new) = Ids(config)
    BY <1>4, StableSame DEF Rules, Ids
  <2>2. Fine([config EXCEPT !.enabled = new.enabled], new)
    BY <1>4, <1>6 DEF Fine
  <2> QED  BY <1>1, <1>2, <1>5, <2>1, <2>2 DEF UpdatesAs, Save, IdsOK, SaveJobs, Switching
<1> QED  BY <1>7 DEF Updates

(* A button of the page of the gist is a save (SetGist). *)
LEMMA SetGistSaves ==
  ASSUME Typed, NEW h \in Handlers, NEW u \in Users, SetGist(h, u)
  PROVE  Updates(h)
<1>1. config \in Config
  BY ConfigType DEF Typed
<1>2. pc[h] = "idle" /\ UNCHANGED <<issued, promised>>
  BY DEF SetGist
<1>3. CASE \E mode \in Modes : Save(h, Job("gistPage", u, Blank), [config EXCEPT !.gist.mode = mode])
  <2>1. PICK mode \in Modes : Save(h, Job("gistPage", u, Blank), [config EXCEPT !.gist.mode = mode])
    BY <1>3
  <2> DEFINE new == [config EXCEPT !.gist.mode = mode]
  <2>2. /\ new \in Config
        /\ new.enabled = config.enabled /\ new.rules = config.rules /\ new.templates = config.templates
    BY <1>1 DEF Config, GistRecords
  <2>3. Save(h, Job("gistPage", u, Blank), new)
    BY <2>1
  <2> HIDE DEF new
  <2> QED  BY <1>2, <2>2, <2>3, RestSaves
<1>4. CASE \E v \in {"secret", "public"} :
             Save(h, Job("gistPage", u, Blank), [config EXCEPT !.gist.visibility = v])
  <2>1. PICK v \in {"secret", "public"} : Save(h, Job("gistPage", u, Blank), [config EXCEPT !.gist.visibility = v])
    BY <1>4
  <2> DEFINE new == [config EXCEPT !.gist.visibility = v]
  <2>2. /\ new \in Config
        /\ new.enabled = config.enabled /\ new.rules = config.rules /\ new.templates = config.templates
    BY <1>1 DEF Config, GistRecords
  <2>3. Save(h, Job("gistPage", u, Blank), new)
    BY <2>1
  <2> HIDE DEF new
  <2> QED  BY <1>2, <2>2, <2>3, RestSaves
<1> QED  BY <1>3, <1>4 DEF SetGist

(* A text of the page of the gist is a save (SaveGistText). *)
LEMMA SaveGistTextSaves ==
  ASSUME Typed, NEW h \in Handlers, NEW u \in Users, SaveGistText(h, u)
  PROVE  Updates(h)
<1>1. config \in Config
  BY ConfigType DEF Typed
<1>2. pc[h] = "idle" /\ UNCHANGED <<issued, promised>>
  BY DEF SaveGistText
<1>3. PICK x \in Texts \cup {Blank} :
         Save(h, Job("gistPage", u, Blank),
              IF dialog[u].field = "token" THEN [config EXCEPT !.gist.token = x]
                                           ELSE [config EXCEPT !.gist.custom = x])
  BY DEF SaveGistText
<1> DEFINE new == IF dialog[u].field = "token" THEN [config EXCEPT !.gist.token = x]
                                               ELSE [config EXCEPT !.gist.custom = x]
<1>4. /\ new \in Config
      /\ new.enabled = config.enabled /\ new.rules = config.rules /\ new.templates = config.templates
  <2>1. CASE dialog[u].field = "token"
    BY <1>1, <2>1 DEF Config, GistRecords
  <2>2. CASE dialog[u].field # "token"
    BY <1>1, <2>2 DEF Config, GistRecords
  <2> QED  BY <2>1, <2>2
<1>5. Save(h, Job("gistPage", u, Blank), new)
  BY <1>3
<1> HIDE DEF new
<1> QED  BY <1>2, <1>4, <1>5, RestSaves

(* A change to a rule that moves nothing, as its handler makes it. *)
LEMMA RuleSaves ==
  ASSUME Typed, NEW h \in Handlers, pc[h] = "change", my[h].job # "add", NEW new, Save(h, my[h], new), UNCHANGED <<issued, promised>>,
         Fine(config, new), Ids(new) = Ids(config), Stable(Rules, new.rules)
  PROVE  Updates(h)
<1>1. StoreOK /\ IdsOK /\ WorkOK(pc[h], my[h], issued)
  BY HandlerWork DEF Typed
<1>2. my[h].job \in SaveJobs \ {"create", "confirm"} /\ (my[h].job \in {"remove", "words"} => my[h].on.list \in Lists)
  BY <1>1 DEF WorkOK, Suited, SaveJobs, ChangeJobs, Switching, SwitchSteps, CycleSteps, AskSteps
<1> QED  BY <1>1, <1>2, MildSave

(* One that moves something: the other handlers find it moved. *)
LEMMA RuleShifts ==
  ASSUME Typed, NEW h \in Handlers, pc[h] = "change", my[h].job # "add", NEW new, Shift(h, my[h], new), UNCHANGED issued,
         Fine(config, new), promised' \subseteq promised, promised' \cap Ids(config) \subseteq Ids(new)
  PROVE  Updates(h)
<1>1. StoreOK /\ IdsOK /\ WorkOK(pc[h], my[h], issued) /\ config \in Config
  BY HandlerWork, ConfigType DEF Typed
<1>2. my[h].job \in SaveJobs \ {"create", "confirm"} /\ (my[h].job \in {"remove", "words"} => my[h].on.list \in Lists)
  BY <1>1 DEF WorkOK, Suited, SaveJobs, ChangeJobs, Switching, SwitchSteps, CycleSteps, AskSteps
<1>3. UpdatesAs(h, my[h], new)
  BY <1>1, <1>2, FineSelf DEF UpdatesAs, Shift, Fine, IdsOK
<1> QED  BY <1>3 DEF Updates

(* A rule that is switched is a save, or the handler finds none (ToggleRule). *)
LEMMA ToggleRuleSaves ==
  ASSUME Typed, NEW h \in Handlers, ToggleRule(h)
  PROVE  Updates(h) \/ Stops(h)
<1> DEFINE b == my[h].on
<1>1. CASE ~SameId(b) /\ Fails(h)
  BY <1>1 DEF ToggleRule, Fails, Stops
<1>2. CASE /\ SameId(b)
           /\ Save(h, my[h], [config EXCEPT !.rules[b.index].enabled = ~@])
           /\ UNCHANGED promised
  <2> DEFINE new == [config EXCEPT !.rules[b.index].enabled = ~@]
  <2>1. pc[h] = "change" /\ my[h].job # "add" /\ Save(h, my[h], new) /\ UNCHANGED <<issued, promised>>
    BY <1>2 DEF ToggleRule
  <2>2. config \in Config /\ b.index \in DOMAIN config.rules
    BY <1>2, ConfigType DEF Typed, SameId, Rules
  <2>3. Fine(config, new) /\ Ids(new) = Ids(config) /\ Stable(Rules, new.rules)
    BY <2>2, OtherFlag DEF Rules
  <2> HIDE DEF new
  <2> QED  BY <2>1, <2>3, RuleSaves
<1> QED  BY <1>1, <1>2 DEF ToggleRule

(* A rule that is deleted is a save, or the handler finds none (DeleteRule). *)
LEMMA DeleteRuleSaves ==
  ASSUME Typed, NEW h \in Handlers, DeleteRule(h)
  PROVE  Updates(h) \/ Stops(h)
<1> DEFINE b == my[h].on
           new == [config EXCEPT !.rules = RemoveAt(@, b.index)]
<1>1. CASE ~SameId(b) /\ Fails(h)
  BY <1>1 DEF DeleteRule, Fails, Stops
<1>2. CASE SameId(b) /\ Shift(h, my[h], new) /\ promised' = promised \ {b.rule.id}
  <2>1. pc[h] = "change" /\ my[h].job # "add" /\ UNCHANGED issued
    BY DEF DeleteRule
  <2>2. config \in Config /\ b.index \in DOMAIN config.rules /\ config.rules[b.index].id = b.rule.id
    BY <1>2, ConfigType DEF Typed, SameId, Rules
  <2>3. Fine(config, new) /\ Ids(config) \ {b.rule.id} \subseteq Ids(new)
    BY <2>2, FewerRules
  <2>4. promised' \subseteq promised /\ promised' \cap Ids(config) \subseteq Ids(new)
    BY <1>2, <2>3
  <2> HIDE DEF new
  <2> QED  BY <1>2, <2>1, <2>3, <2>4, RuleShifts
<1> QED  BY <1>1, <1>2 DEF DeleteRule

(* The list a handler changes is there, and what can be made of it. *)
LEMMA ListOfRule ==
  ASSUME Typed, NEW h \in Handlers, pc[h] = "change", my[h].job \in {"remove", "words"}, SomeRule(my[h].on)
  PROVE  /\ config \in Config /\ my[h].on.index \in DOMAIN config.rules /\ my[h].on.list \in Lists
         /\ config.rules[my[h].on.index][my[h].on.list] \in Seq(Entries)
<1>1. config \in Config /\ Rules \in Seq(RuleRecords)
  BY ConfigType DEF Typed
<1>2. my[h].on.list \in Lists
  BY HandlerWork DEF WorkOK
<1>3. my[h].on.index \in DOMAIN Rules /\ Rules[my[h].on.index] \in RuleRecords
  BY <1>1, ElementOfSeq, LenProperties DEF SomeRule
<1>4. Rules[my[h].on.index][my[h].on.list] \in Seq(Entries)
  BY <1>2, <1>3, RuleLists
<1> QED  BY <1>1, <1>2, <1>3, <1>4 DEF Rules

(* An item that is removed is a save, or the handler finds none (RemoveWord). *)
LEMMA RemoveWordSaves ==
  ASSUME Typed, NEW h \in Handlers, RemoveWord(h)
  PROVE  Updates(h) \/ Stops(h)
<1> DEFINE b == my[h].on
           new == [config EXCEPT !.rules[b.index][b.list] = RemoveAt(@, b.item)]
<1>1. pc[h] = "change" /\ my[h].job = "remove" /\ UNCHANGED issued
  BY DEF RemoveWord
<1>2. CASE Fails(h)
  BY <1>1, <1>2 DEF RemoveWord, Fails, Stops
<1>3. CASE SomeRule(b) /\ b.item \in DOMAIN Rules[b.index][b.list] /\ Shift(h, my[h], new) /\ UNCHANGED promised
  <2> DEFINE q == config.rules[b.index][b.list]
             s == RemoveAt(q, b.item)
  <2>1. config \in Config /\ b.index \in DOMAIN config.rules /\ b.list \in Lists /\ q \in Seq(Entries)
    BY <1>1, <1>3, ListOfRule
  <2>2. b.item \in 1..Len(q)
    BY <1>3, <2>1, LenProperties DEF Rules
  <2>3. s \in Seq(Entries)
    <3> HIDE DEF q, b
    <3> QED  BY <2>1, <2>2, RemoveAtProperties
  <2>4. new = [config EXCEPT !.rules[b.index][b.list] = s]
    BY <2>1 DEF Config
  <2> HIDE DEF new, s
  <2>5. Fine(config, new) /\ Ids(new) = Ids(config)
    <3> HIDE DEF b, q
    <3> QED  BY <2>1, <2>3, <2>4, OtherList
  <2> QED  BY <1>1, <1>3, <2>5, RuleShifts
<1> QED  BY <1>1, <1>2, <1>3 DEF RemoveWord

(* A list that is stored is a save, or the handler finds none (StoreWords). *)
LEMMA StoreWordsSaves ==
  ASSUME Typed, NEW h \in Handlers, StoreWords(h)
  PROVE  Updates(h) \/ Stops(h)
<1> DEFINE b == my[h].on
           emptied == [config EXCEPT !.rules[b.index][b.list] = <<>>]
           longer == [config EXCEPT !.rules[b.index][b.list] =
                        IF b.word \in ToSet(@) THEN @ ELSE Append(@, b.word)]
<1>1. pc[h] = "change" /\ my[h].job = "words" /\ UNCHANGED issued
  BY DEF StoreWords
<1>2. CASE Fails(h)
  BY <1>1, <1>2 DEF StoreWords, Fails, Stops
<1>3. CASE SomeRule(b) /\ UNCHANGED promised /\ b.word = Blank /\ Shift(h, my[h], emptied)
  <2>1. config \in Config /\ b.index \in DOMAIN config.rules /\ b.list \in Lists
    BY <1>1, <1>3, ListOfRule
  <2> DEFINE s == <<>>
  <2>2. s \in Seq(Entries) /\ emptied = [config EXCEPT !.rules[b.index][b.list] = s]
    BY EmptySeq
  <2> HIDE DEF s
  <2>3. Fine(config, emptied) /\ Ids(emptied) = Ids(config)
    <3> HIDE DEF b, emptied
    <3> QED  BY <2>1, <2>2, OtherList
  <2> HIDE DEF emptied
  <2> QED  BY <1>1, <1>3, <2>3, RuleShifts
<1>4. CASE SomeRule(b) /\ UNCHANGED promised /\ b.word # Blank /\ Save(h, my[h], longer)
  <2> DEFINE q == config.rules[b.index][b.list]
             s == IF b.word \in ToSet(q) THEN q ELSE Append(q, b.word)
  <2>1. config \in Config /\ b.index \in DOMAIN config.rules /\ b.list \in Lists /\ q \in Seq(Entries)
    BY <1>1, <1>4, ListOfRule
  <2>2. b.word \in Entries
    BY <1>1, <1>4, HandlerWork DEF WorkOK, Entries
  <2>3. s \in Seq(Entries) /\ \A j \in DOMAIN q : j \in DOMAIN s /\ s[j] = q[j]
    <3> HIDE DEF q, b
    <3> QED  BY <2>1, <2>2, IdsOfAppended
  <2>4. longer = [config EXCEPT !.rules[b.index][b.list] = s]
    BY <2>1 DEF Config
  <2> HIDE DEF longer, s
  <2>5. Fine(config, longer) /\ Ids(longer) = Ids(config) /\ Stable(config.rules, longer.rules)
    <3> HIDE DEF b
    <3>1. Fine(config, longer) /\ Ids(longer) = Ids(config)
      BY <2>1, <2>3, <2>4, OtherList
    <3>2. \A j \in DOMAIN config.rules[b.index][b.list] : j \in DOMAIN s /\ s[j] = config.rules[b.index][b.list][j]
      BY <2>3
    <3>3. Stable(config.rules, longer.rules)
      <4> HIDE DEF q
      <4> QED  BY <2>1, <2>3, <2>4, <3>2, OtherList
    <3> QED  BY <3>1, <3>3
  <2> QED  BY <1>1, <1>4, <2>5, RuleSaves DEF Rules
<1> QED  BY <1>1, <1>2, <1>3, <1>4 DEF StoreWords

(* A step of handler h: to step s, with v to do. *)
Acts(h, s, v) ==
  /\ Goto(h, s)
  /\ my' = [my EXCEPT ![h] = v] \/ my' = Move(v, h) \/ (my' = my /\ v = my[h])

(* Steps that settings or the scheduler depend on. *)
Busy == {"saving"} \cup SwitchSteps

(* What is about to be changed is where it was found. *)
Found(v) == (v.job \in {"words", "add"} => SameId(v.on)) /\ (v.job = "remove" => InPlace(v.on))

(* Whoever has looked something up and was not told of a move finds it still. *)
Aimed == \A h \in Handlers : pc[h] = "change" /\ ~my[h].moved => Found(my[h])

(* The question for the words of a list is bound to the rule it was asked about, unless that moved meanwhile. *)
BoundAlike(d) == d.kind = "words" /\ ~d.moved => d.bound.id = d.on.rule.id
Bound == \A u \in Users : BoundAlike(dialog[u])

(* A handler that is left alone. *)
Same(g)  == pc'[g] = pc[g] /\ my'[g] = my[g]

(* A handler that is neither at a save nor at the switch, before and after, and finds what it looks up, *)
(* as far as the dialogs are bound to it. *)
Off(g)   == /\ pc[g] \notin Busy /\ pc'[g] \notin Busy
            /\ Bound /\ pc'[g] = "change" => my'[g].moved \/ Found(my'[g])

(* A step that touches neither the settings nor the scheduler. *)
Aside ==
  /\ UNCHANGED <<settings, issued, promised, overlap, astray, stopping, worker>>
  /\ \A g \in Handlers : Same(g) \/ Off(g)
  /\ \A w \in Workers : Alive(w) <=> pc'[w] \notin {"unborn", "ended"}
  /\ ThreadsOK'

(* What a handler may do it may do when more ids have been issued, and when it is told of a move. *)
LEMMA WorkLasts ==
  ASSUME NEW s, NEW v, NEW ids, NEW more, ids \subseteq more, WorkOK(s, v, ids)
  PROVE  /\ WorkOK(s, v, more)
         /\ \A b \in BOOLEAN : WorkOK(s, [v EXCEPT !.moved = b], more)
<1>1. WorkOK(s, v, more)
  BY DEF WorkOK
<1>2. ASSUME NEW b \in BOOLEAN
      PROVE  WorkOK(s, [v EXCEPT !.moved = b], more)
  <2> DEFINE w == [v EXCEPT !.moved = b]
  <2>1. DOMAIN w = Fields /\ w.moved = b /\ \A f \in Fields : f # "moved" => w[f] = v[f]
    BY <1>1 DEF WorkOK, Fields
  <2>2. w.job = v.job /\ w.on = v.on /\ w.previous = v.previous /\ w.dump = v.dump
    BY <2>1 DEF Fields
  <2> HIDE DEF w
  <2> QED  BY <1>1, <2>1, <2>2 DEF WorkOK
<1> QED  BY <1>1, <1>2

(* Of a step of a handler the others feel a move at most, the workers nothing. *)
LEMMA ActsProperties ==
  ASSUME ThreadsOK, NEW h \in Handlers, NEW s, NEW v, Acts(h, s, v)
  PROVE  /\ pc'[h] = s /\ my'[h] = v /\ DOMAIN pc' = Actors /\ DOMAIN my' = Handlers
         /\ \A g \in Handlers : g # h =>
              /\ pc'[g] = pc[g]
              /\ my'[g].job = my[g].job /\ my'[g].on = my[g].on /\ my'[g].user = my[g].user
              /\ my'[g].previous = my[g].previous /\ my'[g].dump = my[g].dump
              /\ pc[g] # "change" => my'[g].moved = my[g].moved
              /\ my' # Move(v, h) => my'[g] = my[g]
              /\ my' = Move(v, h) /\ pc[g] = "change" => my'[g].moved
         /\ \A w \in Workers : pc'[w] = pc[w]
<1>1. h \in Actors /\ DOMAIN pc = Actors /\ DOMAIN my = Handlers /\ h \notin Workers
  BY AutoDumpingAssumption DEF Actors, ThreadsOK
<1>2. pc'[h] = s /\ DOMAIN pc' = Actors
  BY <1>1 DEF Acts, Goto
<1>3. \A a \in Actors : a # h => pc'[a] = pc[a]
  BY <1>1 DEF Acts, Goto
<1>4. CASE my' # Move(v, h)
  BY <1>1, <1>2, <1>3, <1>4 DEF Actors, Acts
<1>6. CASE my' = Move(v, h)
  <2>1. my'[h] = v /\ DOMAIN my' = Handlers
    BY <1>6 DEF Move
  <2>2. ASSUME NEW g \in Handlers, g # h
        PROVE  /\ my'[g].job = my[g].job /\ my'[g].on = my[g].on /\ my'[g].user = my[g].user
               /\ my'[g].previous = my[g].previous /\ my'[g].dump = my[g].dump
               /\ pc[g] # "change" => my'[g].moved = my[g].moved
               /\ pc[g] = "change" => my'[g].moved
    <3>1. my'[g] = [my[g] EXCEPT !.moved = @ \/ pc[g] = "change"]
      BY <1>6, <2>2 DEF Move
    <3>2. DOMAIN my[g] = Fields /\ my[g].moved \in BOOLEAN
      BY DEF ThreadsOK, WorkOK
    <3>3. my'[g].moved = (my[g].moved \/ pc[g] = "change")
      BY <3>1, <3>2 DEF Fields
    <3> QED  BY <3>1, <3>2, <3>3 DEF Fields
  <2> QED  BY <1>1, <1>2, <1>3, <1>6, <2>1, <2>2 DEF Actors
<1> QED  BY <1>4, <1>6

(* Threads are of their types after a step of a handler whose work is. *)
LEMMA ActsThreads ==
  ASSUME ThreadsOK, NEW h \in Handlers, NEW s, NEW v, Acts(h, s, v), issued \subseteq issued', WorkOK(s, v, issued')
  PROVE  ThreadsOK'
<1>1. /\ pc'[h] = s /\ my'[h] = v /\ DOMAIN pc' = Actors /\ DOMAIN my' = Handlers
      /\ \A g \in Handlers : g # h => pc'[g] = pc[g]
      /\ \A w \in Workers : pc'[w] = pc[w]
  BY ActsProperties
<1>2. ASSUME NEW g \in Handlers
      PROVE  WorkOK(pc'[g], my'[g], issued')
  <2>1. CASE g = h
    BY <1>1, <2>1
  <2>2. CASE g # h
    <3>1. WorkOK(pc[g], my[g], issued) /\ my[g].moved \in BOOLEAN
      BY DEF ThreadsOK, WorkOK
    <3>2. \/ my'[g] = my[g]
          \/ \E b \in BOOLEAN : my'[g] = [my[g] EXCEPT !.moved = b]
      <4>1. CASE my' = Move(v, h)
        <5>1. my'[g] = [my[g] EXCEPT !.moved = my[g].moved \/ pc[g] = "change"]
          BY <2>2, <4>1 DEF Move
        <5>2. (my[g].moved \/ pc[g] = "change") \in BOOLEAN
          BY <3>1
        <5> QED  BY <5>1, <5>2
      <4>2. CASE my' # Move(v, h)
        BY <2>2, <4>2, ActsProperties
      <4> QED  BY <4>1, <4>2
    <3> QED  BY <1>1, <2>2, <3>1, <3>2, WorkLasts
  <2> QED  BY <2>1, <2>2
<1> QED  BY <1>1, <1>2 DEF ThreadsOK

(* A handler at rest is fine. *)
LEMMA RestWorks ==
  ASSUME NEW ids
  PROVE  WorkOK("idle", Rest, ids)
BY DEF WorkOK, Rest, Job, Fields, Suited

(* A step of a handler away from saves and switch is aside. *)
LEMMA AsideActs ==
  ASSUME Typed, NEW h \in Handlers, NEW s, NEW v, Goto(h, s), my' = [my EXCEPT ![h] = v] \/ (my' = my /\ v = my[h]),
         UNCHANGED <<settings, issued, promised, overlap, astray, stopping, worker>>,
         pc[h] \notin Busy, s \notin Busy, WorkOK(s, v, issued), Bound /\ s = "change" => v.moved \/ Found(v)
  PROVE  Aside
<1>1. Acts(h, s, v) /\ ThreadsOK
  BY DEF Acts, Typed
<1>2. ThreadsOK'
  BY <1>1, ActsThreads
<1>3. DOMAIN my = Handlers /\ Handlers \cup Workers = DOMAIN pc /\ h \notin Workers
  BY <1>1, AutoDumpingAssumption DEF ThreadsOK, Actors
<1>4. pc'[h] = s /\ my'[h] = v
  BY <1>1, ActsProperties
<1>5. \A g \in Handlers : g # h => Same(g)
  BY <1>3 DEF Same, Goto
<1>6. \A w \in Workers : pc'[w] = pc[w]
  BY <1>3 DEF Goto
<1> QED  BY <1>2, <1>4, <1>5, <1>6 DEF Aside, Off, Alive

(* A step of no thread that leaves the settings alone is aside. *)
LEMMA AsideStill ==
  ASSUME Typed, UNCHANGED <<settings, issued, promised, overlap, astray, stopping, worker, pc, my>>
  PROVE  Aside
<1>1. ThreadsOK'
  BY DEF Typed, ThreadsOK
<1> QED  BY <1>1 DEF Aside, Same, Alive

(* A step of a worker in a cycle is aside. *)
LEMMA AsideWorker ==
  ASSUME Typed, NEW w \in Workers, NEW s, Goto(w, s), my' = my,
         UNCHANGED <<settings, issued, promised, overlap, astray, stopping, worker>>,
         Alive(w), s \in {"loop", "begin"} \cup CycleSteps
  PROVE  Aside
<1>1. ThreadsOK /\ w \in Actors /\ w \notin Handlers
  BY AutoDumpingAssumption DEF Typed, Actors
<1>2. /\ pc'[w] = s /\ DOMAIN pc' = Actors /\ s \notin {"unborn", "ended"}
      /\ \A a \in Actors : a # w => pc'[a] = pc[a]
  BY <1>1 DEF Goto, ThreadsOK, CycleSteps
<1>3. ThreadsOK'
  BY <1>1, <1>2 DEF ThreadsOK, Actors
<1> QED  BY <1>1, <1>2, <1>3 DEF Aside, Same, Alive, Actors

(* A handler that ends away from saves and switch is aside. *)
LEMMA AsideEnds ==
  ASSUME Typed, NEW h \in Handlers, Ends(h), UNCHANGED <<settings, issued, promised, overlap, astray, stopping, worker>>,
         pc[h] \notin Busy
  PROVE  Aside
<1> QED  BY RestWorks, AsideActs DEF Ends, Busy, SwitchSteps

(* A handler that begins away from saves and switch is aside. *)
LEMMA AsideBegins ==
  ASSUME Typed, NEW h \in Handlers, NEW j, NEW u, NEW x, NEW s, Begin(h, Job(j, u, x), s),
         UNCHANGED <<settings, issued, promised, overlap, astray, stopping, worker>>,
         WorkOK(s, Job(j, u, x), issued), s \notin Busy, s = "change" => Found(Job(j, u, x))
  PROVE  Aside
<1> DEFINE v == Job(j, u, x)
<1>1. Goto(h, s) /\ my' = [my EXCEPT ![h] = v] /\ WorkOK(s, v, issued) /\ (s = "change" => Found(v))
  BY DEF Begin
<1>2. pc[h] \notin Busy
  BY DEF Begin, Busy, SwitchSteps
<1> HIDE DEF v
<1> QED  BY <1>1, <1>2, AsideActs

(* What is left alone by what happens aside. *)
Elsewhere == UNCHANGED <<settings, issued, promised, overlap, astray, stopping, worker>>

(* The dialogs of templates and statuses are aside. *)
LEMMA SettingsAside ==
  ASSUME Typed, UNCHANGED <<astray, stopping, worker>>, NEW u \in Users,
         StartTemplate(u) \/ EditTemplate(u) \/ AnswerTitle(u) \/ EditStatus(u)
  PROVE  Aside
BY AsideStill DEF StartTemplate, EditTemplate, AnswerTitle, EditStatus

(* An answer that edits a template is aside until the template is looked up (AnswerEdit). *)
LEMMA AnswerEditAside ==
  ASSUME Typed, UNCHANGED <<astray, stopping, worker>>, NEW h \in Handlers, NEW u \in Users, AnswerEdit(h, u)
  PROVE  Aside
<1>1. Elsewhere
  BY DEF AnswerEdit, Elsewhere
<1>2. CASE UNCHANGED <<pc, my>>
  BY <1>1, <1>2, AsideStill DEF Elsewhere
<1>3. CASE \E x \in Texts \cup {Blank} :
             /\ dialog[u].field = "title" => x # Blank
             /\ Begin(h, Job("edit", u, [field |-> dialog[u].field, id |-> dialog[u].id, text |-> x]), "change")
  <2>1. PICK x \in Texts \cup {Blank} :
             /\ dialog[u].field = "title" => x # Blank
             /\ Begin(h, Job("edit", u, [field |-> dialog[u].field, id |-> dialog[u].id, text |-> x]), "change")
    BY <1>3
  <2> DEFINE on == [field |-> dialog[u].field, id |-> dialog[u].id, text |-> x]
  <2>2. on.text \in Texts \cup {Blank} /\ (on.field = "title" => on.text \in Texts)
    BY <2>1
  <2>3. Begin(h, Job("edit", u, on), "change")
    BY <2>1
  <2> HIDE DEF on
  <2>4. WorkOK("change", Job("edit", u, on), issued)
    BY <2>2 DEF WorkOK, Job, Fields, Suited, ChangeJobs
  <2>5. Found(Job("edit", u, on)) /\ "change" \notin Busy
    BY DEF Found, Job, Busy, SwitchSteps
  <2> QED  BY <1>1, <2>3, <2>4, <2>5, AsideBegins DEF Elsewhere
<1> QED  BY <1>2, <1>3 DEF AnswerEdit

(* So is a template that is about to be dropped (ConfirmDelete). *)
LEMMA ConfirmDeleteAside ==
  ASSUME Typed, UNCHANGED <<astray, stopping, worker>>, NEW h \in Handlers, NEW u \in Users, ConfirmDelete(h, u)
  PROVE  Aside
<1>1. Elsewhere
  BY DEF ConfirmDelete, Elsewhere
<1>2. PICK id \in Listed : Begin(h, Job("drop", u, [id |-> id]), "change")
  BY DEF ConfirmDelete
<1> DEFINE on == [id |-> id]
<1>3. Begin(h, Job("drop", u, on), "change")
  BY <1>2
<1> HIDE DEF on
<1>4. WorkOK("change", Job("drop", u, on), issued)
  BY DEF WorkOK, Job, Fields, Suited, ChangeJobs
<1>5. Found(Job("drop", u, on)) /\ "change" \notin Busy
  BY DEF Found, Job, Busy, SwitchSteps
<1> QED  BY <1>1, <1>3, <1>4, <1>5, AsideBegins DEF Elsewhere

(* The pages of the rules and the dialog that makes one are aside. *)
LEMMA PanelAside ==
  ASSUME Typed, UNCHANGED <<stopping, worker>>, NEW u \in Users,
         ShowRules(u) \/ ShowRule(u) \/ ShowList(u) \/ AddRule(u) \/ AnswerStep(u) \/ TapStep(u) \/ Cancel(u)
  PROVE  Aside
<1>1. UNCHANGED <<settings, issued, promised, overlap, astray, pc, my>>
  BY DEF ShowRules, ShowRule, ShowList, AddRule, AnswerStep, TapStep, Cancel, Look, pages
<1> QED  BY <1>1, AsideStill

(* A button of a rule is aside: it finds its rule and its item first (TapRule). *)
LEMMA TapRuleAside ==
  ASSUME Typed, UNCHANGED <<stopping, worker>>, NEW h \in Handlers, NEW u \in Users, TapRule(h, u)
  PROVE  Aside
<1>1. Elsewhere
  BY DEF TapRule, Elsewhere
<1>2. PICK b \in panel[u] :
         /\ b.act \in {"toggle", "delete", "remove", "add"}
         /\ IF Valid(b) /\ (b.act = "remove" =>
                 LET items == Rules[b.index][b.list]
                 IN  b.item \in DOMAIN items /\ items[b.item] = b.word)
            THEN Begin(h, Job(b.act, u, b), "change")
            ELSE pc[h] = "idle" /\ UNCHANGED <<pc, my>>
  BY DEF TapRule
<1>3. CASE UNCHANGED <<pc, my>>
  BY <1>1, <1>3, AsideStill DEF Elsewhere
<1>4. CASE /\ Valid(b) /\ Begin(h, Job(b.act, u, b), "change")
           /\ b.act = "remove" => b.item \in DOMAIN Rules[b.index][b.list] /\ Rules[b.index][b.list][b.item] = b.word
  <2>1. b.act \in {"remove", "add"} => b.list \in Lists
    BY DEF Typed, PagesOK
  <2>2. SameId(b)
    BY <1>4 DEF Valid, SameId, Object
  <2>3. Job(b.act, u, b).job = b.act /\ Job(b.act, u, b).on = b
    BY DEF Job
  <2>4. Found(Job(b.act, u, b)) /\ "change" \notin Busy
    BY <1>2, <1>4, <2>2, <2>3 DEF Found, InPlace, Busy, SwitchSteps
  <2>5. DOMAIN Job(b.act, u, b) = Fields /\ Job(b.act, u, b).moved = FALSE
    BY DEF Job, Fields
  <2>6. WorkOK("change", Job(b.act, u, b), issued)
    BY <1>2, <2>1, <2>3, <2>5 DEF WorkOK, Suited, ChangeJobs
  <2> QED  BY <1>1, <1>4, <2>4, <2>6, AsideBegins DEF Elsewhere
<1> QED  BY <1>2, <1>3, <1>4

(* An answer with the words of a list is aside: as far as its dialog is bound to the rule, it finds the *)
(* rule first (AnswerWords). *)
LEMMA AnswerWordsAside ==
  ASSUME Typed, UNCHANGED <<stopping, worker>>, NEW h \in Handlers, NEW u \in Users, AnswerWords(h, u)
  PROVE  Aside
<1> DEFINE d == dialog[u]
<1>1. Elsewhere
  BY DEF AnswerWords, Elsewhere
<1>2. d.kind = "words" /\ d.on.list \in Lists /\ d.moved \in BOOLEAN /\ SomeRule(d.on)
  BY DEF AnswerWords, Typed, DialogsOK, DialogOK
<1>3. CASE UNCHANGED <<pc, my>>
  BY <1>1, <1>3, AsideStill DEF Elsewhere
<1>4. CASE /\ Accepted(d)
           /\ \E w \in Words \cup {Blank} :
                 Begin(h, [Job("words", u, Worded(d.on, w)) EXCEPT !.moved = d.moved], "change")
  <2>1. PICK w \in Words \cup {Blank} : Begin(h, [Job("words", u, Worded(d.on, w)) EXCEPT !.moved = d.moved], "change")
    BY <1>4
  <2> DEFINE on == Worded(d.on, w)
             v == [Job("words", u, on) EXCEPT !.moved = d.moved]
  <2>2. on.list \in Lists /\ on.word \in Words \cup {Blank}
    BY <1>2 DEF Worded
  <2>3. Bound /\ ~d.moved => SameId(on)
    <3>1. on.index = d.on.index /\ on.rule = d.on.rule
      BY DEF Worded
    <3>2. d.on.index \in DOMAIN Rules /\ d.bound.id = Rules[d.on.index].id
      BY <1>2, <1>4 DEF Accepted, Object, SomeRule
    <3>3. Bound /\ ~d.moved => d.bound.id = d.on.rule.id
      BY <1>2 DEF Bound, BoundAlike
    <3> HIDE DEF on, d
    <3> QED  BY <3>1, <3>2, <3>3 DEF SameId
  <2>4. DOMAIN v = Fields /\ v.job = "words" /\ v.on = on /\ v.moved = d.moved
    BY DEF Job, Fields
  <2>5. Goto(h, "change") /\ my' = [my EXCEPT ![h] = v] /\ pc[h] \notin Busy
    BY <2>1 DEF Begin, Busy, SwitchSteps
  <2> HIDE DEF on, v
  <2>6. WorkOK("change", v, issued)
    BY <1>2, <2>2, <2>4 DEF WorkOK, Suited, ChangeJobs
  <2>7. (Bound => v.moved \/ Found(v)) /\ "change" \notin Busy
    BY <2>3, <2>4 DEF Found, Busy, SwitchSteps
  <2> QED  BY <1>1, <2>5, <2>6, <2>7, AsideActs DEF Elsewhere
<1> QED  BY <1>3, <1>4 DEF AnswerWords

(* The question for the words of a list is aside, whether it is sent or not (AskWords). *)
LEMMA AskWordsAside ==
  ASSUME Typed, UNCHANGED <<stopping, worker>>, NEW h \in Handlers, AskWords(h)
  PROVE  Aside
<1>1. Elsewhere /\ Ends(h) /\ pc[h] = "change"
  BY DEF AskWords, Elsewhere
<1>2. pc[h] \notin Busy
  BY <1>1 DEF Busy, SwitchSteps
<1> QED  BY <1>1, <1>2, AsideEnds DEF Elsewhere

(* A cycle by hand is aside (RunNow). *)
LEMMA RunNowAside ==
  ASSUME Typed, NEW h \in Handlers, NEW u \in Users, RunNow(h, u)
  PROVE  Aside
<1>1. Elsewhere /\ Begin(h, Job("run", u, Blank), "begin")
  BY DEF RunNow, Elsewhere, scheduler
<1>2. WorkOK("begin", Job("run", u, Blank), issued)
  BY DEF WorkOK, Job, Fields, Suited
<1>3. "begin" \notin Busy
  BY DEF Busy, SwitchSteps
<1> QED  BY <1>1, <1>2, <1>3, AsideBegins DEF Elsewhere

(* A handler in a cycle runs one. *)
LEMMA CycleWork ==
  ASSUME Typed, NEW h \in Handlers, pc[h] \in {"begin"} \cup CycleSteps
  PROVE  my[h].job = "run" /\ \A s \in CycleSteps : WorkOK(s, my[h], issued)
<1>1. WorkOK(pc[h], my[h], issued)
  BY HandlerWork
<1>2. my[h].job = "run"
  BY <1>1 DEF WorkOK, Suited, CycleSteps, SwitchSteps, AskSteps
<1> QED  BY <1>1, <1>2 DEF WorkOK, Suited, CycleSteps

(* A thread that goes on in its cycle is aside. *)
LEMMA CycleGoes ==
  ASSUME Typed, NEW a \in Actors, pc[a] \in {"begin"} \cup CycleSteps, NEW s \in CycleSteps, Goto(a, s), my' = my, Elsewhere
  PROVE  Aside
<1>1. CASE a \in Handlers
  <2>1. WorkOK(s, my[a], issued)
    BY <1>1, CycleWork
  <2>2. pc[a] \notin Busy /\ s \notin Busy /\ s # "change"
    BY DEF Busy, SwitchSteps, CycleSteps
  <2> QED  BY <1>1, <2>1, <2>2, AsideActs DEF Elsewhere
<1>2. CASE a \in Workers
  <2>1. Alive(a)
    BY DEF Alive, CycleSteps
  <2> QED  BY <1>2, <2>1, AsideWorker DEF Elsewhere
<1> QED  BY <1>1, <1>2 DEF Actors

(* A thread that ends its cycle is aside. *)
LEMMA CycleEnds ==
  ASSUME Typed, NEW a \in Actors, pc[a] \in {"begin"} \cup CycleSteps, CycleOver(a), Elsewhere
  PROVE  Aside
<1>1. CASE a \in Handlers
  <2>1. a \notin Workers
    BY <1>1, AutoDumpingAssumption
  <2>2. Ends(a)
    BY <2>1 DEF CycleOver, Ends
  <2>3. pc[a] \notin Busy
    BY DEF Busy, SwitchSteps, CycleSteps
  <2> QED  BY <1>1, <2>2, <2>3, AsideEnds DEF Elsewhere
<1>2. CASE a \in Workers
  <2>1. Goto(a, "loop") /\ my' = my /\ Alive(a)
    BY <1>2 DEF CycleOver, Alive, CycleSteps
  <2> QED  BY <1>2, <2>1, AsideWorker DEF Elsewhere
<1> QED  BY <1>1, <1>2 DEF Actors

(* Every step of a cycle is aside. *)
LEMMA CycleAside ==
  ASSUME Typed, NEW a \in Actors,
         \/ CycleBegins(a) \/ CycleReads(a) \/ ReadFails(a) \/ ConsiderLot(a)
         \/ UpdatePrice(a) \/ UpdateFails(a) \/ Record(a) \/ Tell(a) \/ FinishCycle(a)
  PROVE  Aside
<1>1. Elsewhere
  BY DEF Elsewhere, cycleElsewhere, CycleBegins, CycleReads, ReadFails, ConsiderLot, UpdatePrice, UpdateFails, Record,
         Tell, FinishCycle
<1>2. CASE CycleBegins(a)
  <2>1. pc[a] = "begin"
    BY <1>2 DEF CycleBegins
  <2>2. CASE CycleOver(a)
    BY <1>1, <2>1, <2>2, CycleEnds
  <2>3. CASE Goto(a, "fetch") /\ UNCHANGED my
    <3>1. "fetch" \in CycleSteps
      BY DEF CycleSteps
    <3> QED  BY <1>1, <2>1, <2>3, <3>1, CycleGoes
  <2> QED  BY <1>2, <2>2, <2>3 DEF CycleBegins
<1>3. CASE FinishCycle(a)
  <2>1. pc[a] \in CycleSteps /\ CycleOver(a)
    BY <1>3 DEF FinishCycle, CycleSteps
  <2> QED  BY <1>1, <2>1, CycleEnds
<1>4. CASE \/ CycleReads(a) \/ ReadFails(a) \/ ConsiderLot(a)
           \/ UpdatePrice(a) \/ UpdateFails(a) \/ Record(a) \/ Tell(a)
  <2>1. pc[a] \in {"fetch", "lots", "update", "record", "tell"} /\ my' = my
    BY <1>4 DEF CycleReads, ReadFails, ConsiderLot, UpdatePrice, UpdateFails, Record, Tell
  <2>2. \E s \in {"lots", "finish", "update", "record", "tell"} : Goto(a, s)
    <3>1. CASE CycleReads(a) \/ ReadFails(a) \/ ConsiderLot(a)
      BY <3>1 DEF CycleReads, ReadFails, ConsiderLot, NextLot
    <3>2. CASE UpdatePrice(a) \/ UpdateFails(a)
      BY <3>2 DEF UpdatePrice, UpdateFails, NextLot
    <3>3. CASE Record(a) \/ Tell(a)
      BY <3>3 DEF Record, Tell, NextLot
    <3> QED  BY <1>4, <3>1, <3>2, <3>3
  <2>3. PICK s \in CycleSteps : Goto(a, s)
    BY <2>2 DEF CycleSteps
  <2>4. pc[a] \in CycleSteps
    BY <2>1 DEF CycleSteps
  <2> QED  BY <1>1, <2>1, <2>3, <2>4, CycleGoes
<1> QED  BY <1>2, <1>3, <1>4

(* The steps of the gist command that a handler makes. *)
LEMMA GistWork ==
  ASSUME Typed, NEW h \in Handlers, pc[h] \in AskSteps \cup {"send"}
  PROVE  /\ pc[h] \notin Busy /\ my[h].job \in {"gist", "select", "send"}
         /\ my[h].job = "send" <=> pc[h] = "send"
         /\ my[h].job = "select" => pc[h] \in {"name", "create"}
         /\ DOMAIN my[h] = Fields /\ my[h].moved \in BOOLEAN
<1>1. WorkOK(pc[h], my[h], issued)
  BY HandlerWork
<1> QED  BY <1>1 DEF WorkOK, Suited, CycleSteps, SwitchSteps, AskSteps, Busy

(* A handler that goes on towards a gist is aside. *)
LEMMA GistGoes ==
  ASSUME Typed, NEW h \in Handlers, pc[h] \in AskSteps, NEW s \in AskSteps, NEW v,
         s = "name" \/ s = "create" \/ my[h].job = "gist",
         DOMAIN v = Fields, v.moved \in BOOLEAN, v.job = my[h].job, Elsewhere,
         Goto(h, s), my' = [my EXCEPT ![h] = v] \/ (my' = my /\ v = my[h])
  PROVE  Aside
<1>1. WorkOK(s, v, issued)
  BY GistWork DEF WorkOK, Suited, AskSteps
<1>2. pc[h] \notin Busy /\ s \notin Busy /\ s # "change"
  BY DEF Busy, SwitchSteps, AskSteps
<1> QED  BY <1>1, <1>2, AsideActs DEF Elsewhere

(* Buttons that drop a request or a result, and the page of the gist, are aside. *)
LEMMA GistStill ==
  ASSUME Typed, Elsewhere, CancelOrderSelection \/ SkipResult \/ \E u \in Users : EditGist(u)
  PROVE  Aside
BY AsideStill DEF Elsewhere, CancelOrderSelection, SkipResult, EditGist

(* The command is aside (AskGist). *)
LEMMA AskGistAside ==
  ASSUME Typed, Elsewhere, NEW h \in Handlers, NEW u \in Users, AskGist(h, u)
  PROVE  Aside
<1>1. \E x, s : s \in {"choose", "check"} /\ Begin(h, Job("gist", u, x), s)
  BY DEF AskGist
<1>2. PICK x, s : s \in {"choose", "check"} /\ Begin(h, Job("gist", u, x), s)
  BY <1>1
<1>3. WorkOK(s, Job("gist", u, x), issued) /\ s \notin Busy /\ s # "change"
  BY <1>2 DEF WorkOK, Job, Fields, Suited, AskSteps, Busy, SwitchSteps
<1> QED  BY <1>2, <1>3, AsideBegins DEF Elsewhere

(* The button of an order is aside (SelectOrder). *)
LEMMA SelectOrderAside ==
  ASSUME Typed, Elsewhere, NEW h \in Handlers, NEW u \in Users, SelectOrder(h, u)
  PROVE  Aside
<1>1. \E x : Begin(h, Job("select", u, x), "name")
  BY DEF SelectOrder
<1>2. PICK x : Begin(h, Job("select", u, x), "name")
  BY <1>1
<1>3. WorkOK("name", Job("select", u, x), issued) /\ "name" \notin Busy
  BY DEF WorkOK, Job, Fields, Suited, Busy, SwitchSteps
<1> QED  BY <1>2, <1>3, AsideBegins DEF Elsewhere

(* The button that sends a link is aside (SendResult). *)
LEMMA SendResultAside ==
  ASSUME Typed, Elsewhere, NEW h \in Handlers, NEW u \in Users, SendResult(h, u)
  PROVE  Aside
<1>1. \E x : Begin(h, Job("send", u, x), "send")
  BY DEF SendResult
<1>2. PICK x : Begin(h, Job("send", u, x), "send")
  BY <1>1
<1>3. WorkOK("send", Job("send", u, x), issued) /\ "send" \notin Busy
  BY DEF WorkOK, Job, Fields, Suited, Busy, SwitchSteps
<1> QED  BY <1>2, <1>3, AsideBegins DEF Elsewhere

(* The choice of an order is aside. *)
LEMMA ChooseAside ==
  ASSUME Typed, Elsewhere, NEW h \in Handlers, StartOrderSelection(h) \/ FetchOrders(h) \/ CheckConfig(h)
  PROVE  Aside
<1>1. pc[h] \in {"choose", "orders", "check"}
  BY DEF StartOrderSelection, FetchOrders, CheckConfig
<1>2. pc[h] \in AskSteps /\ my[h].job = "gist" /\ pc[h] \notin Busy /\ DOMAIN my[h] = Fields /\ my[h].moved \in BOOLEAN
  BY <1>1, GistWork DEF AskSteps
<1>3. CASE Ends(h)
  BY <1>2, <1>3, AsideEnds DEF Elsewhere
<1>4. CASE UNCHANGED my /\ \E s \in {"orders", "name"} : Goto(h, s)
  <2>1. PICK s \in AskSteps : Goto(h, s)
    BY <1>4 DEF AskSteps
  <2> QED  BY <1>2, <1>4, <2>1, GistGoes
<1>5. Ends(h) \/ (UNCHANGED my /\ \E s \in {"orders", "name"} : Goto(h, s))
  BY DEF StartOrderSelection, FetchOrders, CheckConfig
<1> QED  BY <1>3, <1>4, <1>5

(* The name of a gist is aside. *)
LEMMA NameAside ==
  ASSUME Typed, Elsewhere, NEW h \in Handlers, NameGist(h) \/ NameByOrder(h)
  PROVE  Aside
<1>1. pc[h] = "name" /\ \E client, chat : Named(h, client, chat)
  BY DEF NameGist, NameByOrder
<1>2. pc[h] \in AskSteps /\ pc[h] \notin Busy /\ DOMAIN my[h] = Fields /\ my[h].moved \in BOOLEAN
  BY <1>1, GistWork DEF AskSteps
<1>3. CASE Ends(h)
  BY <1>2, <1>3, AsideEnds DEF Elsewhere
<1>4. CASE \E on : Continue(h, on, "create")
  <2>1. PICK on : Continue(h, on, "create")
    BY <1>4
  <2> DEFINE v == [my[h] EXCEPT !.on = on]
  <2>2. DOMAIN v = Fields /\ v.moved = my[h].moved /\ v.job = my[h].job
    BY <1>2 DEF Fields
  <2>3. Goto(h, "create") /\ my' = [my EXCEPT ![h] = v]
    BY <2>1 DEF Continue
  <2>4. "create" \in AskSteps
    BY DEF AskSteps
  <2> HIDE DEF v
  <2> QED  BY <1>2, <2>2, <2>3, <2>4, GistGoes
<1>5. Ends(h) \/ \E on : Continue(h, on, "create")
  BY <1>1 DEF Named
<1> QED  BY <1>3, <1>4, <1>5

(* The end of the gist command is aside. *)
LEMMA GistEnds ==
  ASSUME Typed, Elsewhere, NEW h \in Handlers, CreateGist(h) \/ CreateFails(h) \/ LinkSent(h) \/ SendFails(h)
  PROVE  Aside
<1>1. pc[h] \in {"create", "send"} /\ Ends(h)
  BY DEF CreateGist, CreateFails, LinkSent, SendFails
<1>2. pc[h] \notin Busy
  BY <1>1 DEF Busy, SwitchSteps
<1> QED  BY <1>1, <1>2, AsideEnds DEF Elsewhere

(* A save that ends well, and what it promises. *)
Writes(h) ==
  /\ Written(h) /\ Ends(h) /\ my[h].job \notin Switching
  /\ promised' = IF my[h].job \in {"create", "confirm"} THEN promised \cup {my[h].on} ELSE promised
  /\ UNCHANGED <<issued, overlap, astray, stopping, worker>>

(* A save of a template, of a rule or of the gist that ends well. *)
LEMMA SavedWrites ==
  ASSUME UNCHANGED <<astray, stopping, worker>>, NEW h \in Handlers, TemplateSaved(h) \/ RuleSaved(h) \/ GistSaved(h)
  PROVE  Writes(h)
<1>1. CASE TemplateSaved(h)
  BY <1>1 DEF TemplateSaved, Writes, Switching
<1>2. CASE RuleSaved(h)
  BY <1>2 DEF RuleSaved, Writes, Switching
<1>3. CASE GistSaved(h)
  BY <1>3 DEF GistSaved, Writes, Switching
<1> QED  BY <1>1, <1>2, <1>3

(* What a handler that changes the settings finds when it cannot. *)
LEMMA StopsAside ==
  ASSUME Typed, UNCHANGED <<astray, stopping, worker>>, NEW h \in Handlers, pc[h] = "change", Stops(h)
  PROVE  Aside
<1>1. pc[h] \notin Busy
  BY DEF Busy, SwitchSteps
<1> QED  BY <1>1, AsideEnds DEF Stops

(* What drives the scheduler. *)
Drives(h) == SwitchSaved(h) \/ StopScheduler(h) \/ Joined(h) \/ StartScheduler(h) \/ Spawn(h)

(* Every step of the program is of one of these kinds. *)
Kinds ==
  \/ Aside
  \/ \E h \in Handlers : (Updates(h) \/ Writes(h) \/ RollBack(h)) /\ UNCHANGED <<stopping, worker>>
  \/ \E h \in Handlers : Drives(h)
  \/ \E w \in Workers : WorkerLoops(w)
  \/ Restart

(* The kinds of the steps of the settings. *)
LEMMA SettingsKinds ==
  ASSUME Typed, SettingsStep, UNCHANGED <<astray, stopping, worker>>
  PROVE  Kinds
<1>1. ASSUME NEW u \in Users, StartTemplate(u) \/ EditTemplate(u) \/ AnswerTitle(u) \/ EditStatus(u)
      PROVE  Kinds
  BY <1>1, SettingsAside DEF Kinds
<1>2. ASSUME NEW h \in Handlers, NEW u \in Users, AnswerEdit(h, u) \/ ConfirmDelete(h, u)
      PROVE  Kinds
  BY <1>2, AnswerEditAside, ConfirmDeleteAside DEF Kinds
<1>3. ASSUME NEW h \in Handlers, NEW u \in Users, AnswerText(h, u) \/ SetStatus(h, u) \/ AnswerStatus(h, u)
      PROVE  Kinds
  BY <1>3, AnswerTextSaves, SetStatusSaves, AnswerStatusSaves DEF Kinds
<1>4. ASSUME NEW h \in Handlers, ChangeTemplate(h)
      PROVE  Kinds
  <2>1. pc[h] = "change"
    BY <1>4 DEF ChangeTemplate
  <2> QED  BY <1>4, <2>1, ChangeTemplateSaves, StopsAside DEF Kinds
<1>5. ASSUME NEW h \in Handlers, TemplateSaved(h) \/ RollBack(h)
      PROVE  Kinds
  BY <1>5, SavedWrites DEF Kinds
<1> QED  BY <1>1, <1>2, <1>3, <1>4, <1>5 DEF SettingsStep

(* The kinds of the steps of the panel of the rules. *)
LEMMA PanelKinds ==
  ASSUME Typed, PanelStep, UNCHANGED <<stopping, worker>>
  PROVE  Kinds
<1>1. ASSUME NEW u \in Users, \/ ShowRules(u) \/ ShowRule(u) \/ ShowList(u)
                              \/ AddRule(u) \/ AnswerStep(u) \/ TapStep(u) \/ Cancel(u)
      PROVE  Kinds
  BY <1>1, PanelAside DEF Kinds
<1>2. ASSUME NEW h \in Handlers, NEW u \in Users, TapRule(h, u) \/ AnswerWords(h, u)
      PROVE  Kinds
  BY <1>2, TapRuleAside, AnswerWordsAside DEF Kinds
<1>3. ASSUME NEW h \in Handlers, NEW u \in Users, ConfirmRule(h, u)
      PROVE  Kinds
  <2>1. UNCHANGED <<promised, astray>>
    BY <1>3 DEF ConfirmRule
  <2>2. CASE UNCHANGED <<settings, pc, my, issued, promised, overlap>>
    BY <2>1, <2>2, AsideStill DEF Kinds
  <2> QED  BY <1>3, <2>2, ConfirmRuleSaves DEF Kinds
<1>4. ASSUME NEW h \in Handlers, ToggleRule(h) \/ DeleteRule(h) \/ RemoveWord(h) \/ StoreWords(h)
      PROVE  Kinds
  <2>1. Updates(h) \/ Stops(h)
    BY <1>4, ToggleRuleSaves, DeleteRuleSaves, RemoveWordSaves, StoreWordsSaves
  <2>2. CASE Updates(h)
    BY <2>2 DEF Kinds
  <2>3. CASE Stops(h)
    <3>1. pc[h] = "change" /\ my[h].job # "none"
      BY <1>4 DEF ToggleRule, DeleteRule, RemoveWord, StoreWords
    <3>2. pc'[h] = "idle"
      BY <2>3 DEF Stops, Ends, Goto, Typed, ThreadsOK, Actors
    <3>3. UNCHANGED astray
      <4>1. h \in DOMAIN pc
        BY DEF Typed, ThreadsOK, Actors
      <4>2. ~Goto(h, "saving")
        BY <3>2, <4>1 DEF Goto
      <4>3. \A j, n : ~Save(h, j, n) /\ ~Shift(h, j, n)
        BY <4>2 DEF Save, Shift, Change
      <4> QED  BY <1>4, <4>3 DEF ToggleRule, DeleteRule, RemoveWord, StoreWords, Fails
    <3> QED  BY <2>3, <3>1, <3>3, StopsAside DEF Kinds
  <2> QED  BY <2>1, <2>2, <2>3
<1>5. ASSUME NEW h \in Handlers, RuleSaved(h)
      PROVE  Kinds
  <2>1. UNCHANGED astray
    BY <1>5 DEF RuleSaved
  <2> QED  BY <1>5, <2>1, SavedWrites DEF Kinds
<1>6. ASSUME NEW h \in Handlers, AskWords(h)
      PROVE  Kinds
  BY <1>6, AskWordsAside DEF Kinds
<1> QED  BY <1>1, <1>2, <1>3, <1>4, <1>5, <1>6 DEF PanelStep

(* The kinds of the steps of the gist command. *)
LEMMA GistKinds ==
  ASSUME Typed, GistStep, UNCHANGED <<astray, stopping, worker>>
  PROVE  Kinds
<1>1. CASE CancelOrderSelection \/ SkipResult \/ \E u \in Users : EditGist(u)
  <2>1. Elsewhere
    BY <1>1 DEF Elsewhere, CancelOrderSelection, SkipResult, EditGist, elsewhere
  <2> QED  BY <1>1, <2>1, GistStill DEF Kinds
<1>2. ASSUME NEW h \in Handlers, NEW u \in Users, AskGist(h, u) \/ SelectOrder(h, u) \/ SendResult(h, u)
      PROVE  Kinds
  <2>1. Elsewhere
    BY <1>2 DEF Elsewhere, AskGist, SelectOrder, SendResult, elsewhere
  <2> QED  BY <1>2, <2>1, AskGistAside, SelectOrderAside, SendResultAside DEF Kinds
<1>3. ASSUME NEW h \in Handlers, NEW u \in Users, SetGist(h, u) \/ SaveGistText(h, u)
      PROVE  Kinds
  BY <1>3, SetGistSaves, SaveGistTextSaves DEF Kinds
<1>4. ASSUME NEW h \in Handlers, \/ StartOrderSelection(h) \/ FetchOrders(h) \/ CheckConfig(h)
                                 \/ NameGist(h) \/ NameByOrder(h)
                                 \/ CreateGist(h) \/ CreateFails(h) \/ LinkSent(h) \/ SendFails(h)
      PROVE  Kinds
  <2>1. Elsewhere
    BY <1>4 DEF Elsewhere, elsewhere, StartOrderSelection, FetchOrders, CheckConfig, NameGist, NameByOrder, CreateGist,
       CreateFails, LinkSent, SendFails
  <2> QED  BY <1>4, <2>1, ChooseAside, NameAside, GistEnds DEF Kinds
<1>5. ASSUME NEW h \in Handlers, GistSaved(h)
      PROVE  Kinds
  BY <1>5, SavedWrites DEF Kinds
<1> QED  BY <1>1, <1>2, <1>3, <1>4, <1>5 DEF GistStep

(* The market is aside. *)
LEMMA MarketAside ==
  ASSUME Typed, PriceMoves \/ ProfileRefreshes
  PROVE  Aside
BY AsideStill DEF PriceMoves, ProfileRefreshes, marketElsewhere, scheduler

(* Every step is of one of the kinds. *)
LEMMA StepKinds ==
  ASSUME Typed, AdminNext
  PROVE  Kinds
<1>1. CASE SettingsStep /\ UNCHANGED <<pages, astray, scheduler, cycle, price, profile, storage, history>>
  BY <1>1, SettingsKinds DEF scheduler
<1>2. CASE PanelStep /\ UNCHANGED <<scheduler, cycle, price, profile, storage, history>>
  BY <1>2, PanelKinds DEF scheduler
<1>3. CASE \E u \in Users : AskInterval(u)
  <2>1. UNCHANGED <<settings, issued, promised, overlap, astray, stopping, worker, pc, my>>
    BY <1>3 DEF AskInterval, scheduler
  <2> QED  BY <2>1, AsideStill DEF Kinds
<1>4. ASSUME NEW h \in Handlers, NEW u \in Users, Switch(h, u) \/ SetInterval(h, u)
      PROVE  Kinds
  <2>1. UNCHANGED <<stopping, worker>>
    BY <1>4 DEF Switch, SetInterval, scheduler
  <2> QED  BY <1>4, <2>1, SwitchSaves, SetIntervalSaves DEF Kinds
<1>5. ASSUME NEW h \in Handlers, NEW u \in Users, RunNow(h, u)
      PROVE  Kinds
  BY <1>5, RunNowAside DEF Kinds
<1>6. CASE \E h \in Handlers : SwitchSaved(h) \/ StopScheduler(h) \/ Joined(h) \/ StartScheduler(h) \/ Spawn(h)
  BY <1>6 DEF Kinds, Drives
<1>7. CASE \E w \in Workers : WorkerLoops(w)
  BY <1>7 DEF Kinds
<1>8. ASSUME NEW a \in Actors,
         \/ CycleBegins(a) \/ CycleReads(a) \/ ReadFails(a) \/ ConsiderLot(a)
         \/ UpdatePrice(a) \/ UpdateFails(a) \/ Record(a) \/ Tell(a) \/ FinishCycle(a)
      PROVE  Kinds
  BY <1>8, CycleAside DEF Kinds
<1>9. CASE PriceMoves \/ ProfileRefreshes
  BY <1>9, MarketAside DEF Kinds
<1>10. CASE GistStep /\ UNCHANGED <<pages, astray, scheduler, cycle, price, profile, storage, history>>
  BY <1>10, GistKinds DEF scheduler
<1>11. CASE Restart
  BY <1>11 DEF Kinds
<1>12. ASSUME Step
       PROVE  Kinds
  BY <1>1, <1>2, <1>3, <1>4, <1>5, <1>6, <1>7, <1>8, <1>9, <1>12 DEF Step
<1> QED  BY <1>10, <1>11, <1>12 DEF AdminNext

(* Each place among the members of a finite set of numbers is taken by one, and each takes one of its own. *)
LEMMA RankTaken ==
  ASSUME NEW N \in Nat, NEW first \in SUBSET (1..N)
  PROVE  /\ \A n \in 1..Cardinality(first) : \E i \in first : Cardinality({j \in first : j <= i}) = n
         /\ \A i \in first : Cardinality({j \in first : j <= i}) \in 1..Cardinality(first)
         /\ \A i, k \in first : Cardinality({j \in first : j <= i}) = Cardinality({j \in first : j <= k}) => i = k
<1> DEFINE upto(i) == {j \in first : j <= i}
           f == [i \in first |-> Cardinality(upto(i))]
           C == Cardinality(first)
<1>1. IsFiniteSet(1..N) /\ IsFiniteSet(first) /\ C \in Nat
  <2>1. IsFiniteSet(1..N)
    BY FS_Interval
  <2>2. IsFiniteSet(first)
    BY <2>1, FS_Subset
  <2> QED  BY <2>1, <2>2, FS_CardinalityType
<1>2. \A i \in first : /\ IsFiniteSet(upto(i)) /\ Cardinality(upto(i)) \in Nat /\ Cardinality(upto(i)) <= C
                       /\ i \in upto(i)
  <2> SUFFICES ASSUME NEW i \in first
               PROVE  IsFiniteSet(upto(i)) /\ Cardinality(upto(i)) \in Nat /\ Cardinality(upto(i)) <= C /\ i \in upto(i)
    OBVIOUS
  <2>1. upto(i) \in SUBSET first /\ i \in upto(i)
    OBVIOUS
  <2> HIDE DEF upto
  <2> QED  BY <1>1, <2>1, FS_Subset, FS_CardinalityType
<1>3. \A i \in first : Cardinality(upto(i)) # 0
  <2> SUFFICES ASSUME NEW i \in first
               PROVE  Cardinality(upto(i)) # 0
    OBVIOUS
  <2>1. IsFiniteSet(upto(i)) /\ upto(i) # {}
    BY <1>2
  <2> HIDE DEF upto
  <2> QED  BY <2>1, FS_EmptySet
<1>4. \A i, j \in first : Cardinality(upto(i)) = Cardinality(upto(j)) => i = j
  <2>1. ASSUME NEW i \in first, NEW j \in first, i < j
        PROVE  Cardinality(upto(i)) # Cardinality(upto(j))
    <3>1. upto(i) \in SUBSET upto(j) /\ j \notin upto(i) /\ j \in upto(j) /\ IsFiniteSet(upto(j))
      <4>1. first \subseteq Int /\ \A k \in first : k <= i => k <= j
        BY <2>1
      <4>2. i \in Int /\ j \in Int /\ ~(j <= i) /\ j <= j
        BY <2>1, <4>1
      <4>3. upto(i) \in SUBSET upto(j) /\ j \notin upto(i) /\ j \in upto(j)
        BY <4>1, <4>2
      <4>4. IsFiniteSet(upto(j))
        <5> HIDE DEF upto
        <5> QED  BY <1>2
      <4> QED  BY <4>3, <4>4
    <3> HIDE DEF upto
    <3> QED  BY <3>1, FS_Subset
  <2>2. \A i, j \in first : i = j \/ i < j \/ j < i
    OBVIOUS
  <2> HIDE DEF upto
  <2> QED  BY <2>1, <2>2
<1>5. f \in Injection(first, 1..C)
  <2> HIDE DEF upto, C
  <2>1. \A i \in first : Cardinality(upto(i)) \in 1..C
    BY <1>1, <1>2, <1>3
  <2>2. f \in [first -> 1..C] /\ \A i \in first : f[i] = Cardinality(upto(i))
    BY <2>1
  <2> HIDE DEF f
  <2> QED  BY <1>4, <2>2 DEF Injection, IsInjective
<1>6. IsFiniteSet(1..C) /\ Cardinality(1..C) = C
  BY <1>1, FS_Interval
<1>7. f \in Surjection(first, 1..C)
  <2> HIDE DEF f, C
  <2> QED  BY <1>5, <1>6, FS_Injection DEF C
<1>8. \A n \in 1..C : \E i \in first : f[i] = n
  <2> HIDE DEF f, C
  <2> QED  BY <1>7 DEF Surjection
<1>9. \A i \in first : Cardinality(upto(i)) \in 1..C
  <2> HIDE DEF upto, C
  <2> QED  BY <1>1, <1>2, <1>3
<1> QED  BY <1>4, <1>8, <1>9

(* Loading keeps everything but the doubles among the rules. *)
LEMMA LoadedProperties ==
  ASSUME NEW c \in Config
  PROVE  /\ Fine(c, Loaded(c)) /\ Loaded(c).templates = c.templates
         /\ IdsOf(Loaded(c).rules) \subseteq IdsOf(c.rules)
         /\ IdsOf(c.rules) \subseteq IdsOf(Loaded(c).rules) \cup Doubles(c)
         /\ Doubles(c) \subseteq IdsOf(c.rules)
<1> DEFINE q == c.rules
           first == {i \in DOMAIN q : \A j \in 1..(i - 1) : Key(q[j]) # Key(q[i])}
           rank(i) == Cardinality({j \in first : j <= i})
           N == Cardinality(first)
           at(n) == CHOOSE i \in first : rank(i) = n
           r == [n \in 1..N |-> q[at(n)]]
<1>1. Loaded(c) = [c EXCEPT !.rules = r]
  BY DEF Loaded
<1>2. q \in Seq(RuleRecords) /\ DOMAIN q = 1..Len(q) /\ Len(q) \in Nat
  BY LenProperties DEF Config
<1>3. first \in SUBSET (1..Len(q))
  BY <1>2
<1>4. N \in Nat
  <2> HIDE DEF first
  <2>1. IsFiniteSet(1..Len(q))
    BY <1>2, FS_Interval
  <2>2. IsFiniteSet(first)
    BY <1>3, <2>1, FS_Subset
  <2> QED  BY <2>2, FS_CardinalityType
<1>5. \A n \in 1..N : at(n) \in DOMAIN q /\ at(n) \in first /\ rank(at(n)) = n
  <2> SUFFICES ASSUME NEW n \in 1..N
               PROVE  at(n) \in DOMAIN q /\ at(n) \in first /\ rank(at(n)) = n
    OBVIOUS
  <2>1. \A m \in 1..N : \E i \in first : rank(i) = m
    <3> HIDE DEF first, q
    <3> QED  BY <1>2, <1>3, RankTaken
  <2> HIDE DEF rank
  <2> HIDE DEF first, q
  <2> QED  BY <1>2, <1>3, <2>1
<1>9. \A i \in first : rank(i) \in 1..N /\ at(rank(i)) = i
  <2>1. /\ \A i \in first : rank(i) \in 1..N
        /\ \A i, k \in first : rank(i) = rank(k) => i = k
    <3> HIDE DEF first, q
    <3> QED  BY <1>2, <1>3, RankTaken
  <2> HIDE DEF first, rank, at, N
  <2> QED  BY <1>5, <2>1
<1>10. /\ Doubles(c) = {q[i].id : i \in DOMAIN q \ first}
       /\ first \subseteq DOMAIN q
  <2>1. \A i \in DOMAIN q : i \notin first <=> \E j \in 1..(i - 1) : Key(q[j]) = Key(q[i])
    OBVIOUS
  <2>2. {i \in DOMAIN q : \E j \in 1..(i - 1) : Key(q[j]) = Key(q[i])} = DOMAIN q \ first
    <3> HIDE DEF first, q
    <3> QED  BY <2>1
  <2>3. Doubles(c) = {q[i].id : i \in {k \in DOMAIN q : \E j \in 1..(k - 1) : Key(q[j]) = Key(q[k])}}
    BY DEF Doubles
  <2> HIDE DEF first, q
  <2> QED  BY <1>2, <1>3, <2>2, <2>3
<1> HIDE DEF at, rank
<1>6. \A n \in 1..N : r[n] = q[at(n)] /\ r[n] \in RuleRecords
  BY <1>2, <1>5, ElementOfSeq
<1>7. r \in Seq(RuleRecords) /\ DOMAIN r = 1..N
  <2> HIDE DEF N, q
  <2> QED  BY <1>4, <1>6, IsASeq
<1>8. IdsOf(r) \subseteq IdsOf(q)
  <2> HIDE DEF r, N, q
  <2> QED  BY <1>5, <1>6, <1>7 DEF IdsOf
<1>11. IdsOf(q) \subseteq IdsOf(r) \cup Doubles(c)
  <2> HIDE DEF r, N, q, first
  <2> SUFFICES ASSUME NEW i \in DOMAIN q
               PROVE  q[i].id \in IdsOf(r) \cup Doubles(c)
    BY DEF IdsOf
  <2>1. CASE i \in first
    <3>1. rank(i) \in DOMAIN r /\ r[rank(i)] = q[i]
      BY <1>6, <1>7, <1>9, <2>1
    <3> QED  BY <3>1 DEF IdsOf
  <2>2. CASE i \notin first
    BY <1>10, <2>2
  <2> QED  BY <2>1, <2>2
<1>12. Doubles(c) \subseteq IdsOf(q)
  <2> HIDE DEF q, first
  <2> QED  BY <1>10 DEF IdsOf
<1> HIDE DEF r
<1>13. Fine(c, Loaded(c)) /\ Loaded(c).templates = c.templates /\ Loaded(c).rules = r
  BY <1>1, <1>7, <1>8, OtherRules DEF Config
<1> QED  BY <1>8, <1>11, <1>12, <1>13

(* The part of Typed that the kinds of steps decide. *)
Core == StoreOK /\ IdsOK /\ ThreadsOK

(* The ids in settings are ids. *)
LEMMA IdsTyped ==
  ASSUME NEW c \in Config
  PROVE  Ids(c) \subseteq RuleIds \cup TemplateIds /\ IdsOf(c.rules) \subseteq RuleIds
<1>1. c.rules \in Seq(RuleRecords) /\ c.templates \in Seq(TemplateRecords)
  BY DEF Config
<1>2. IdsOf(c.rules) \subseteq RuleIds
  <2> DEFINE q == c.rules
  <2>1. \A i \in DOMAIN q : q[i] \in RuleRecords
    BY <1>1, ElementOfSeq, LenProperties
  <2>2. \A r \in RuleRecords : r.id \in RuleIds
    BY DEF RuleRecords
  <2> QED  BY <2>1, <2>2 DEF IdsOf
<1>3. IdsOf(c.templates) \subseteq TemplateIds
  <2> DEFINE q == c.templates
  <2>1. \A i \in DOMAIN q : q[i] \in TemplateRecords
    BY <1>1, ElementOfSeq, LenProperties
  <2>2. \A r \in TemplateRecords : r.id \in TemplateIds
    BY DEF TemplateRecords
  <2> QED  BY <2>1, <2>2 DEF IdsOf
<1> QED  BY <1>2, <1>3 DEF Ids

(* What happens aside keeps it. *)
LEMMA AsideCore ==
  ASSUME Typed, Aside
  PROVE  Core'
<1> QED  BY DEF Typed, Aside, Core, StoreOK, IdsOK, settings

(* A save is a step of its handler, whose work is of its type. *)
LEMMA UpdatesActs ==
  ASSUME Typed, NEW h \in Handlers, NEW job, NEW new, UpdatesAs(h, job, new)
  PROVE  /\ Acts(h, "saving", Dumped(job, new)) /\ WorkOK("saving", Dumped(job, new), issued')
         /\ Dumped(job, new).job = job.job /\ Dumped(job, new).on = job.on
         /\ Dumped(job, new).previous = config /\ Dumped(job, new).dump = new
         /\ new \in Config /\ config \in Config
<1> DEFINE v == Dumped(job, new)
<1>1. config \in Config /\ new \in Config
  BY ConfigType DEF Typed, UpdatesAs, Fine
<1>2. DOMAIN job = Fields /\ job.moved \in BOOLEAN
  <2>1. CASE \E j, u, x : job = Job(j, u, x)
    BY <2>1 DEF Job, Fields
  <2>2. CASE job = my[h]
    BY <2>2, HandlerWork DEF WorkOK
  <2> QED  BY <2>1, <2>2 DEF UpdatesAs
<1>3. /\ DOMAIN v = Fields /\ v.job = job.job /\ v.on = job.on /\ v.moved = job.moved
      /\ v.previous = config /\ v.dump = new
  BY <1>2 DEF Dumped, Fields
<1>4. Goto(h, "saving") /\ (my' = [my EXCEPT ![h] = v] \/ my' = Move(v, h))
  BY DEF UpdatesAs, Change
<1>5. /\ job.job \in SaveJobs /\ (job.job \in {"create", "confirm"} => job.on \in issued')
      /\ job.job \in {"remove", "words"} => job.on.list \in Lists
      /\ job.job # "add"
  BY DEF UpdatesAs, SaveJobs, Switching
<1> HIDE DEF v
<1>6. WorkOK("saving", v, issued')
  BY <1>1, <1>2, <1>3, <1>5 DEF WorkOK, Suited
<1>7. Acts(h, "saving", v)
  BY <1>4 DEF Acts
<1> QED  BY <1>1, <1>3, <1>6, <1>7 DEF v

(* A save keeps it. *)
LEMMA UpdatesCore ==
  ASSUME Typed, NEW h \in Handlers, Updates(h)
  PROVE  Core'
<1>1. PICK job, new : UpdatesAs(h, job, new)
  BY DEF Updates
<1> DEFINE v == Dumped(job, new)
<1>2. Acts(h, "saving", v) /\ WorkOK("saving", v, issued') /\ new \in Config
  BY <1>1, UpdatesActs
<1>3. ThreadsOK'
  <2> HIDE DEF v
  <2> QED  BY <1>1, <1>2, ActsThreads DEF UpdatesAs, Typed
<1>4. StoreOK'
  <2>1. heap' = [heap EXCEPT ![current] = new] /\ UNCHANGED <<current, file>>
    BY <1>1 DEF UpdatesAs, Change
  <2>2. heap \in Seq(Config) /\ current \in 1..Len(heap) /\ file \in Config
    BY DEF Typed, StoreOK
  <2>3. heap' \in Seq(Config) /\ Len(heap') = Len(heap)
    BY <1>2, <2>1, <2>2, ExceptSeq
  <2> QED  BY <2>1, <2>2, <2>3 DEF StoreOK
<1>5. IdsOK'
  BY <1>1 DEF UpdatesAs, Typed, IdsOK
<1> QED  BY <1>3, <1>4, <1>5 DEF Core

(* A handler that ends leaves the threads of their types. *)
LEMMA EndsCore ==
  ASSUME Typed, NEW h \in Handlers, Goto(h, "idle"), my' = [my EXCEPT ![h] = Rest] \/ my' = Move(Rest, h), UNCHANGED issued
  PROVE  ThreadsOK'
<1>1. Acts(h, "idle", Rest)
  BY DEF Acts
<1> QED  BY <1>1, RestWorks, ActsThreads DEF Typed

(* The end of a save keeps it. *)
LEMMA WritesCore ==
  ASSUME Typed, NEW h \in Handlers, Writes(h)
  PROVE  Core'
<1>1. WorkOK("saving", my[h], issued) /\ pc[h] = "saving"
  BY HandlerWork DEF Writes, Written
<1>2. my[h].dump \in Config /\ (my[h].job \in {"create", "confirm"} => my[h].on \in issued)
  BY <1>1 DEF WorkOK
<1>3. StoreOK'
  BY <1>2 DEF Typed, StoreOK, Writes, Written
<1>4. IdsOK'
  BY <1>2 DEF Typed, IdsOK, Writes
<1>5. ThreadsOK'
  BY EndsCore DEF Writes, Ends
<1> QED  BY <1>3, <1>4, <1>5 DEF Core

(* A rollback keeps it. *)
LEMMA RollBackCore ==
  ASSUME Typed, NEW h \in Handlers, RollBack(h)
  PROVE  Core'
<1>1. WorkOK("saving", my[h], issued) /\ pc[h] = "saving"
  BY HandlerWork DEF RollBack
<1>2. my[h].previous \in Config
  BY <1>1 DEF WorkOK
<1>3. StoreOK'
  <2>1. heap \in Seq(Config) /\ file \in Config
    BY DEF Typed, StoreOK
  <2>2. heap' = Append(heap, my[h].previous) /\ current' = Len(heap') /\ UNCHANGED file
    BY DEF RollBack
  <2>3. heap' \in Seq(Config) /\ Len(heap') = Len(heap) + 1 /\ Len(heap) \in Nat
    BY <1>2, <2>1, <2>2, AppendProperties, LenProperties
  <2> QED  BY <2>1, <2>2, <2>3 DEF StoreOK
<1>4. IdsOK'
  BY DEF Typed, IdsOK, RollBack
<1>5. ThreadsOK'
  BY EndsCore DEF RollBack
<1> QED  BY <1>3, <1>4, <1>5 DEF Core

(* A handler at the switch goes on to a step of the switch. *)
LEMMA DrivesCore ==
  ASSUME Typed, NEW h \in Handlers, Drives(h)
  PROVE  Core'
<1>1. WorkOK(pc[h], my[h], issued) /\ UNCHANGED <<heap, current, issued, promised>>
  BY HandlerWork DEF Drives, SwitchSaved, StopScheduler, Joined, StartScheduler, Spawn, Written, settings
<1>2. ASSUME NEW s \in SwitchSteps, Goto(h, s), my' = my, pc[h] \in SwitchSteps \/ my[h].job \in Switching
      PROVE  ThreadsOK'
  <2>1. my[h].job \in Switching
    BY <1>1, <1>2 DEF WorkOK, Suited, SwitchSteps, CycleSteps, AskSteps
  <2>2. WorkOK(s, my[h], issued')
    BY <1>1, <2>1 DEF WorkOK, Suited, SwitchSteps
  <2>3. Acts(h, s, my[h])
    BY <1>2 DEF Acts
  <2> QED  BY <1>1, <2>2, <2>3, ActsThreads DEF Typed
<1>3. ASSUME Ends(h)
      PROVE  ThreadsOK'
  BY <1>1, <1>3, EndsCore DEF Ends
<1>4. IdsOK'
  BY <1>1 DEF Typed, IdsOK
<1>5. CASE SwitchSaved(h)
  <2>1. my[h].dump \in Config
    BY <1>1, <1>5 DEF WorkOK, SwitchSaved, Written
  <2>2. StoreOK'
    BY <1>1, <1>5, <2>1 DEF Typed, StoreOK, SwitchSaved, Written
  <2>3. my[h].job \in Switching /\ my' = my /\ \E s \in SwitchSteps : Goto(h, s)
    BY <1>5 DEF SwitchSaved, SwitchSteps
  <2> QED  BY <1>2, <1>4, <2>2, <2>3 DEF Core
<1>6. CASE StopScheduler(h) \/ Joined(h) \/ StartScheduler(h) \/ Spawn(h)
  <2>1. UNCHANGED file
    BY <1>6 DEF StopScheduler, Joined, StartScheduler, Spawn, settings
  <2>2. StoreOK'
    BY <1>1, <2>1 DEF Typed, StoreOK
  <2>3. pc[h] \in SwitchSteps
    BY <1>6 DEF StopScheduler, Joined, StartScheduler, Spawn, SwitchSteps
  <2>4. CASE StopScheduler(h) \/ Joined(h) \/ StartScheduler(h)
    <3>1. Ends(h) \/ (my' = my /\ \E s \in SwitchSteps : Goto(h, s))
      BY <2>4 DEF StopScheduler, Joined, StartScheduler, SwitchSteps
    <3> QED  BY <1>2, <1>3, <1>4, <2>2, <2>3, <3>1 DEF Core
  <2>5. CASE Spawn(h)
    <3>1. PICK w \in Workers : pc' = [pc EXCEPT ![h] = "idle", ![w] = "loop"]
      BY <2>5 DEF Spawn
    <3>2. ThreadsOK /\ w \in Actors /\ h \in Actors /\ Handlers \cap Workers = {} /\ Actors = Handlers \cup Workers
      BY AutoDumpingAssumption DEF Typed, Actors
    <3>3. my' = [my EXCEPT ![h] = Rest]
      BY <2>5 DEF Spawn
    <3>4. DOMAIN pc' = Actors /\ DOMAIN my' = Handlers /\ my'[h] = Rest /\ \A g \in Handlers : g # h => my'[g] = my[g]
      BY <3>1, <3>2, <3>3 DEF ThreadsOK
    <3>5. pc'[h] = "idle" /\ pc'[w] = "loop" /\ \A a \in Actors : a # h /\ a # w => pc'[a] = pc[a]
      BY <3>1, <3>2 DEF ThreadsOK
    <3>6. \A g \in Handlers : WorkOK(pc'[g], my'[g], issued')
      BY <1>1, <3>2, <3>4, <3>5, RestWorks DEF ThreadsOK
    <3>7. \A x \in Workers : pc'[x] \in {"unborn", "loop", "begin", "ended"} \cup CycleSteps
      BY <3>2, <3>5 DEF ThreadsOK
    <3> QED  BY <1>4, <2>2, <3>4, <3>6, <3>7 DEF Core, ThreadsOK
  <2> QED  BY <1>6, <2>4, <2>5
<1> QED  BY <1>5, <1>6 DEF Drives

(* A worker that is woken keeps it. *)
LEMMA WorkerLoopsCore ==
  ASSUME Typed, NEW w \in Workers, WorkerLoops(w)
  PROVE  Core'
<1>1. UNCHANGED <<heap, current, file, issued, promised, my>> /\ \E s \in {"ended", "begin"} : Goto(w, s)
  BY DEF WorkerLoops, settings
<1>2. ThreadsOK /\ w \in Actors /\ w \notin Handlers /\ Actors = Handlers \cup Workers
  BY AutoDumpingAssumption DEF Typed, Actors
<1>3. DOMAIN pc' = Actors /\ pc'[w] \in {"ended", "begin"} /\ \A a \in Actors : a # w => pc'[a] = pc[a]
  BY <1>1, <1>2 DEF Goto, ThreadsOK
<1>4. ThreadsOK'
  BY <1>1, <1>2, <1>3 DEF ThreadsOK
<1> QED  BY <1>1, <1>4 DEF Core, Typed, StoreOK, IdsOK

(* The threads of a fresh process. *)
LEMMA BootThreads ==
  ASSUME NEW c, NEW p, NEW m, p = BootPC(c), m = [h \in Handlers |-> Rest]
  PROVE  /\ DOMAIN p = Actors /\ DOMAIN m = Handlers
         /\ \A h \in Handlers : p[h] = "idle" /\ m[h] = Rest /\ h \in Actors
         /\ \A w \in Workers : w \in Actors /\ p[w] = IF w = BootWorker(c) THEN "loop" ELSE "unborn"
BY AutoDumpingAssumption DEF BootPC, Actors

(* A restart keeps it: what is loaded from the file is settings. *)
LEMMA RestartCore ==
  ASSUME Typed, Restart
  PROVE  Core'
<1>1. file \in Config /\ heap' = <<Loaded(file)>> /\ current' = 1 /\ UNCHANGED <<file, issued>>
  BY DEF Typed, StoreOK, Restart
<1>2. Loaded(file) \in Config
  BY <1>1, LoadedProperties DEF Fine
<1>3. StoreOK'
  <2> DEFINE c == Loaded(file)
  <2>1. <<c>> \in Seq(Config) /\ Len(<<c>>) = 1
    <3> HIDE DEF c
    <3> QED  BY <1>2 DEF c
  <2> HIDE DEF c
  <2>2. heap' = <<c>>
    BY <1>1 DEF c
  <2> QED  BY <1>1, <2>1, <2>2 DEF StoreOK
<1>4. IdsOK'
  BY <1>1 DEF Typed, IdsOK, Restart
<1>5. pc' = BootPC(heap'[1]) /\ my' = [h \in Handlers |-> Rest]
  BY DEF Restart
<1>6. ThreadsOK'
  <2>1. /\ DOMAIN pc' = Actors /\ DOMAIN my' = Handlers
        /\ \A h \in Handlers : pc'[h] = "idle" /\ my'[h] = Rest
        /\ \A w \in Workers : pc'[w] = IF w = BootWorker(heap'[1]) THEN "loop" ELSE "unborn"
    BY <1>5, BootThreads
  <2>2. \A w \in Workers : pc'[w] \in {"unborn", "loop"}
    BY <2>1
  <2>3. \A h \in Handlers : WorkOK(pc'[h], my'[h], issued')
    BY <2>1, RestWorks
  <2> QED  BY <2>1, <2>2, <2>3 DEF ThreadsOK
<1> QED  BY <1>3, <1>4, <1>6 DEF Core

(* Every step keeps it. *)
LEMMA StepCore ==
  ASSUME Typed, AdminNext
  PROVE  Core'
<1>1. Kinds
  BY StepKinds
<1> QED  BY <1>1, AsideCore, UpdatesCore, WritesCore, RollBackCore, DrivesCore, WorkerLoopsCore, RestartCore DEF Kinds

(* The initial states have it. *)
LEMMA InitCore ==
  ASSUME Init
  PROVE  Core /\ promised = issued /\ file = config /\ issued = Ids(config)
<1>1. PICK s \in Scenarios :
        /\ heap = <<[enabled |-> s.enabled, rules |-> s.rules, templates |-> s.templates, gist |-> s.gist,
                     status |-> CHOOSE x \in Statuses : TRUE,
                     responses |-> [x \in Statuses |-> Blank],
                     auto |-> [x \in Statuses |-> [enabled |-> FALSE, text |-> Blank]]]>>
        /\ issued = IdsOf(s.rules) \cup IdsOf(s.templates)
  BY DEF Init
<1> DEFINE c == [enabled |-> s.enabled, rules |-> s.rules, templates |-> s.templates, gist |-> s.gist,
                 status |-> CHOOSE x \in Statuses : TRUE,
                 responses |-> [x \in Statuses |-> Blank],
                 auto |-> [x \in Statuses |-> [enabled |-> FALSE, text |-> Blank]]]
<1>2. c \in Config
  <2>1. /\ s.enabled \in BOOLEAN /\ s.rules \in Seq(RuleRecords) /\ s.templates \in Seq(TemplateRecords)
        /\ s.gist \in GistRecords
    BY ScenarioAssumption, GistCommandAssumption
  <2>2. (CHOOSE x \in Statuses : TRUE) \in Statuses
    BY AutoDumpingAssumption
  <2>3. /\ [x \in Statuses |-> Blank] \in [Statuses -> Texts \cup {Blank}]
        /\ [x \in Statuses |-> [enabled |-> FALSE, text |-> Blank]]
             \in [Statuses -> [enabled : BOOLEAN, text : Texts \cup {Blank}]]
    OBVIOUS
  <2> QED  BY <2>1, <2>2, <2>3 DEF Config
<1>3. c.rules = s.rules /\ c.templates = s.templates
  OBVIOUS
<1>4. heap = <<c>>
  BY <1>1
<1> HIDE DEF c
<1>5. current = 1 /\ file = config /\ promised = issued /\ pc = BootPC(config) /\ my = [h \in Handlers |-> Rest]
  BY DEF Init
<1>6. heap \in Seq(Config) /\ Len(heap) = 1 /\ config = c
  BY <1>2, <1>4, <1>5 DEF config
<1>7. StoreOK
  BY <1>2, <1>5, <1>6 DEF StoreOK
<1>8. issued = Ids(c)
  BY <1>1, <1>3 DEF Ids
<1>9. IdsOK
  BY <1>2, <1>5, <1>8, IdsTyped DEF IdsOK
<1>10. ThreadsOK
  <2>1. /\ DOMAIN pc = Actors /\ DOMAIN my = Handlers
        /\ \A h \in Handlers : pc[h] = "idle" /\ my[h] = Rest
        /\ \A w \in Workers : pc[w] = IF w = BootWorker(config) THEN "loop" ELSE "unborn"
    BY <1>5, BootThreads
  <2>2. \A w \in Workers : pc[w] \in {"unborn", "loop"}
    BY <2>1
  <2>3. \A h \in Handlers : WorkOK(pc[h], my[h], issued)
    BY <2>1, RestWorks
  <2> QED  BY <2>1, <2>2, <2>3 DEF ThreadsOK
<1> QED  BY <1>5, <1>6, <1>7, <1>8, <1>9, <1>10 DEF Core

(* A dialog that may be begun: of its type, and bound to the rule it is about when the others are and those *)
(* who look something up find it. *)
DialogFits(d) == DialogOK(d) /\ (Aimed /\ Bound => BoundAlike(d))

(* A step after which the dialogs are so. *)
DialogsGo == DialogsOK' /\ (Aimed /\ Bound => Bound')

(* A question that is fine leaves the dialogs so. *)
LEMMA AskKeeps ==
  ASSUME DialogsOK, NEW u \in Users, NEW d, DialogFits(d), Ask(u, d)
  PROVE  DialogsGo
<1>1. dialog' = [dialog EXCEPT ![u] = d] /\ DOMAIN dialog = Users
  BY DEF Ask, DialogsOK
<1>2. DOMAIN dialog' = Users /\ \A v \in Users : dialog'[v] = IF v = u THEN d ELSE dialog[v]
  BY <1>1
<1>3. \A v \in Users : DialogOK(dialog'[v])
  BY <1>2 DEF DialogsOK, DialogFits
<1>4. Aimed /\ Bound => \A v \in Users : BoundAlike(dialog'[v])
  BY <1>2 DEF Bound, DialogFits
<1> QED  BY <1>2, <1>3, <1>4 DEF DialogsOK, Bound, BoundAlike, DialogsGo

(* A dialog that ended is fine. *)
LEMMA EndedOK == DialogFits(NoDialog)
BY DEF DialogOK, DialogFits, BoundAlike, NoDialog

(* Dialogs that stay are fine. *)
LEMMA DialogsStay ==
  ASSUME DialogsOK, DOMAIN dialog' = DOMAIN dialog, \A u \in Users : dialog'[u] = dialog[u]
  PROVE  DialogsGo
BY DEF DialogsGo, DialogsOK, Bound, BoundAlike

(* A draft with one more answer. *)
LEMMA DraftedOK ==
  ASSUME NEW draft, DraftOK(draft),
         NEW field \in {"lot", "keywords", "all", "percent", "value", "competitorMin", "ownMin", "commission"}, NEW x,
         field = "keywords" => x \in SUBSET Keywords,
         field \in {"all", "percent"} => x \in BOOLEAN,
         field \in {"value", "competitorMin", "ownMin"} => x \in Nat,
         field = "commission" => x \in 0..100
  PROVE  DraftOK(Drafted(draft, field, x))
<1>1. CASE draft = Missing
  BY <1>1 DEF Drafted, DraftOK
<1>2. CASE draft # Missing
  <2> DEFINE n == Drafted(draft, field, x)
  <2>1. /\ DOMAIN n = DOMAIN draft \cup {field} /\ n[field] = x
        /\ \A f \in DOMAIN draft : f # field => n[f] = draft[f]
    BY <1>2 DEF Drafted
  <2>2. /\ DOMAIN draft \subseteq {"lot", "keywords", "all", "percent", "value", "competitorMin", "ownMin", "commission"}
        /\ "keywords" \in DOMAIN draft => draft["keywords"] \in SUBSET Keywords
        /\ \A f \in {"all", "percent"} \cap DOMAIN draft : draft[f] \in BOOLEAN
        /\ \A f \in {"value", "competitorMin", "ownMin"} \cap DOMAIN draft : draft[f] \in Nat
        /\ "commission" \in DOMAIN draft => draft["commission"] \in 0..100
    BY <1>2 DEF DraftOK
  <2> HIDE DEF n
  <2>3. DOMAIN n \subseteq {"lot", "keywords", "all", "percent", "value", "competitorMin", "ownMin", "commission"}
    BY <2>1, <2>2
  <2>4. "keywords" \in DOMAIN n => n["keywords"] \in SUBSET Keywords
    BY <2>1, <2>2
  <2>5. \A f \in {"all", "percent"} \cap DOMAIN n : n[f] \in BOOLEAN
    BY <2>1, <2>2
  <2>6. \A f \in {"value", "competitorMin", "ownMin"} \cap DOMAIN n : n[f] \in Nat
    BY <2>1, <2>2
  <2>7. "commission" \in DOMAIN n => n["commission"] \in 0..100
    BY <2>1, <2>2
  <2> QED  BY <2>3, <2>4, <2>5, <2>6, <2>7 DEF DraftOK, n
<1> QED  BY <1>1, <1>2

(* What is drafted in the dialog of an administrator. *)
LEMMA DraftTyped ==
  ASSUME Typed, NEW u \in Users
  PROVE  DraftOK(Draft(u))
BY DEF Typed, DialogsOK, DialogOK, DraftOK, Draft

(* The dialogs of templates and statuses are of their types. *)
LEMMA SettingsDialogs ==
  ASSUME Typed, SettingsStep
  PROVE  DialogsGo
<1>1. DialogsOK
  BY DEF Typed
<1>2. ASSUME UNCHANGED dialog
      PROVE  DialogsGo
  BY <1>1, <1>2, DialogsStay
<1>3. ASSUME NEW u \in Users, StartTemplate(u) \/ EditTemplate(u) \/ AnswerTitle(u) \/ EditStatus(u)
      PROVE  DialogsGo
  <2>1. PICK d : Ask(u, d) /\ DialogFits(d)
    <3>1. CASE StartTemplate(u)
      BY <3>1 DEF StartTemplate, DialogFits, BoundAlike, DialogOK
    <3>2. CASE EditTemplate(u)
      BY <3>2 DEF EditTemplate, DialogFits, BoundAlike, DialogOK
    <3>3. CASE AnswerTitle(u)
      BY <3>3 DEF AnswerTitle, DialogFits, BoundAlike, DialogOK
    <3>4. CASE EditStatus(u)
      BY <3>4 DEF EditStatus, DialogFits, BoundAlike, DialogOK
    <3> QED  BY <1>3, <3>1, <3>2, <3>3, <3>4
  <2> QED  BY <1>1, <2>1, AskKeeps
<1>4. ASSUME NEW h \in Handlers, NEW u \in Users,
             AnswerText(h, u) \/ AnswerEdit(h, u) \/ ConfirmDelete(h, u) \/ SetStatus(h, u) \/ AnswerStatus(h, u)
      PROVE  DialogsGo
  <2>1. UNCHANGED dialog \/ Ask(u, NoDialog)
    BY <1>4 DEF AnswerText, AnswerEdit, ConfirmDelete, SetStatus, AnswerStatus
  <2> QED  BY <1>1, <1>2, <2>1, AskKeeps, EndedOK
<1>5. ASSUME NEW h \in Handlers, ChangeTemplate(h) \/ RollBack(h)
      PROVE  DialogsGo
  BY <1>2, <1>5 DEF ChangeTemplate, RollBack
<1>6. ASSUME NEW h \in Handlers, TemplateSaved(h)
      PROVE  DialogsGo
  <2>1. UNCHANGED dialog \/ Ask(my[h].user, NoDialog)
    BY <1>6 DEF TemplateSaved
  <2>2. CASE my[h].user \in Users
    BY <1>1, <1>2, <2>1, <2>2, AskKeeps, EndedOK
  <2>3. CASE my[h].user \notin Users
    <3>1. dialog' = dialog \/ dialog' = [dialog EXCEPT ![my[h].user] = NoDialog]
      BY <2>1 DEF Ask
    <3>2. DOMAIN dialog' = DOMAIN dialog /\ \A u \in Users : dialog'[u] = dialog[u]
      BY <1>1, <2>3, <3>1 DEF DialogsOK
    <3> QED  BY <1>1, <3>2, DialogsStay
  <2> QED  BY <2>2, <2>3
<1> QED  BY <1>3, <1>4, <1>5, <1>6 DEF SettingsStep

(* A step of the dialog of a rule is fine when its draft is. *)
LEMMA RuleDialogOK ==
  ASSUME NEW step, NEW draft, DraftOK(draft)
  PROVE  DialogFits(RuleDialog(step, draft))
BY DEF DialogOK, DialogFits, BoundAlike, RuleDialog

(* An answer in the dialog of a rule leaves the draft of its type. *)
LEMMA AnswerStepDialogs ==
  ASSUME Typed, NEW u \in Users, AnswerStep(u)
  PROVE  DialogsGo
<1> DEFINE d == dialog[u]
<1>1. DialogsOK /\ d.kind = "rule" /\ DraftOK(d.draft)
  BY DEF Typed, DialogsOK, DialogOK, AnswerStep
<1>2. CASE UNCHANGED dialog
  BY <1>1, <1>2, DialogsStay
<1>3. CASE Ask(u, NoDialog)
  BY <1>1, <1>3, AskKeeps, EndedOK
<1>4. CASE d.step \in DOMAIN NextStep /\ \E x \in Answers[d.step] :
              Accepts(d.step, x) /\ Ask(u, RuleDialog(NextStep[d.step], Drafted(d.draft, d.step, x)))
  <2>1. PICK x \in Answers[d.step] :
              Accepts(d.step, x) /\ Ask(u, RuleDialog(NextStep[d.step], Drafted(d.draft, d.step, x)))
    BY <1>4
  <2>2. d.step \in {"lot", "keywords", "value", "competitorMin", "ownMin", "commission"}
    BY <1>4 DEF NextStep
  <2>3. /\ d.step = "keywords" => x \in SUBSET Keywords
        /\ d.step \in {"value", "competitorMin", "ownMin"} => x \in Nat
        /\ d.step = "commission" => x \in 0..100
    BY <2>1, AutoDumpingPanelAssumption DEF Accepts
  <2>4. DraftOK(Drafted(d.draft, d.step, x))
    <3> HIDE DEF d
    <3> QED  BY <1>1, <2>2, <2>3, DraftedOK
  <2> QED  BY <1>1, <2>1, <2>4, RuleDialogOK, AskKeeps
<1> QED  BY <1>2, <1>3, <1>4 DEF AnswerStep

(* The dialogs of the rules are of their types. *)
LEMMA PanelDialogs ==
  ASSUME Typed, PanelStep
  PROVE  DialogsGo
<1>1. DialogsOK
  BY DEF Typed
<1>2. ASSUME UNCHANGED dialog
      PROVE  DialogsGo
  BY <1>1, <1>2, DialogsStay
<1>3. ASSUME NEW u \in Users, ShowRules(u) \/ ShowRule(u) \/ ShowList(u)
      PROVE  DialogsGo
  BY <1>2, <1>3 DEF ShowRules, ShowRule, ShowList, Look
<1>4. ASSUME NEW h \in Handlers, AskWords(h)
      PROVE  DialogsGo
  <2> DEFINE b == my[h].on
             d == WordsDialog(b, Object(b.index), my[h].moved, TRUE)
  <2>1. /\ pc[h] = "change" /\ my[h].job = "add"
        /\ UNCHANGED dialog \/ (SomeRule(b) /\ Ask(my[h].user, d))
    BY <1>4 DEF AskWords
  <2>2. my[h].on.list \in Lists /\ my[h].moved \in BOOLEAN
    BY <2>1, HandlerWork DEF WorkOK
  <2>3. d.kind = "words" /\ d.on = b /\ d.bound = Object(b.index) /\ d.moved = my[h].moved
    BY DEF WordsDialog
  <2>4. Aimed /\ ~my[h].moved => Object(b.index).id = b.rule.id
    BY <2>1 DEF Aimed, Found, SameId, Object
  <2> HIDE DEF d
  <2>5. DialogFits(d)
    BY <2>2, <2>3, <2>4 DEF DialogFits, DialogOK, BoundAlike
  <2>6. CASE my[h].user \in Users
    BY <1>1, <1>2, <2>1, <2>5, <2>6, AskKeeps
  <2>7. CASE my[h].user \notin Users
    <3>1. dialog' = dialog \/ dialog' = [dialog EXCEPT ![my[h].user] = d]
      BY <2>1 DEF Ask
    <3>2. DOMAIN dialog' = DOMAIN dialog /\ \A u \in Users : dialog'[u] = dialog[u]
      BY <1>1, <2>7, <3>1 DEF DialogsOK
    <3> QED  BY <1>1, <3>2, DialogsStay
  <2> QED  BY <2>6, <2>7
<1>5. ASSUME NEW u \in Users, AddRule(u) \/ TapStep(u) \/ Cancel(u)
      PROVE  DialogsGo
  <2>1. CASE AddRule(u)
    <3>1. DraftOK(Fresh)
      BY DEF DraftOK, Fresh
    <3> QED  BY <1>1, <2>1, <3>1, RuleDialogOK, AskKeeps DEF AddRule
  <2>2. CASE TapStep(u)
    <3>1. PICK field \in {"all", "percent"} \cap shown[u], x \in BOOLEAN :
             Ask(u, RuleDialog(IF field = "all" THEN "percent" ELSE "value", Drafted(Draft(u), field, x)))
      BY <2>2 DEF TapStep
    <3>2. DraftOK(Drafted(Draft(u), field, x))
      BY DraftTyped, DraftedOK
    <3> QED  BY <1>1, <3>1, <3>2, RuleDialogOK, AskKeeps
  <2>3. CASE Cancel(u)
    BY <1>1, <2>3, AskKeeps, EndedOK DEF Cancel
  <2> QED  BY <1>5, <2>1, <2>2, <2>3
<1>6. ASSUME NEW u \in Users, AnswerStep(u)
      PROVE  DialogsGo
  BY <1>6, AnswerStepDialogs
<1>7. ASSUME NEW h \in Handlers, NEW u \in Users, TapRule(h, u)
      PROVE  DialogsGo
  BY <1>2, <1>7 DEF TapRule
<1>8. ASSUME NEW h \in Handlers, NEW u \in Users, AnswerWords(h, u)
      PROVE  DialogsGo
  <2> DEFINE d == dialog[u]
             e == WordsDialog(d.on, d.bound, d.moved, FALSE)
  <2>1. d.kind = "words" /\ DialogOK(d) /\ Ask(u, e)
    BY <1>1, <1>8 DEF AnswerWords, DialogsOK
  <2>2. e.kind = "words" /\ e.on = d.on /\ e.bound = d.bound /\ e.moved = d.moved
    BY DEF WordsDialog
  <2>3. Bound => BoundAlike(d)
    BY DEF Bound
  <2> HIDE DEF d, e
  <2>4. DialogFits(e)
    BY <2>1, <2>2, <2>3 DEF DialogFits, DialogOK, BoundAlike
  <2> QED  BY <1>1, <2>1, <2>4, AskKeeps
<1>9. ASSUME NEW h \in Handlers, NEW u \in Users, ConfirmRule(h, u)
      PROVE  DialogsGo
  <2>1. UNCHANGED dialog \/ Ask(u, RuleDialog("lot", Draft(u)))
    BY <1>9 DEF ConfirmRule
  <2> QED  BY <1>1, <1>2, <2>1, DraftTyped, RuleDialogOK, AskKeeps
<1>10. ASSUME NEW h \in Handlers, ToggleRule(h) \/ DeleteRule(h) \/ RemoveWord(h) \/ StoreWords(h)
       PROVE  DialogsGo
  BY <1>2, <1>10 DEF ToggleRule, DeleteRule, RemoveWord, StoreWords
<1>11. ASSUME NEW h \in Handlers, RuleSaved(h)
       PROVE  DialogsGo
  <2>1. UNCHANGED dialog \/ Ask(my[h].user, NoDialog)
    BY <1>11 DEF RuleSaved
  <2>2. CASE my[h].user \in Users
    BY <1>1, <1>2, <2>1, <2>2, AskKeeps, EndedOK
  <2>3. CASE my[h].user \notin Users
    <3>1. dialog' = dialog \/ dialog' = [dialog EXCEPT ![my[h].user] = NoDialog]
      BY <2>1 DEF Ask
    <3>2. DOMAIN dialog' = DOMAIN dialog /\ \A u \in Users : dialog'[u] = dialog[u]
      BY <1>1, <2>3, <3>1 DEF DialogsOK
    <3> QED  BY <1>1, <3>2, DialogsStay
  <2> QED  BY <2>2, <2>3
<1> QED  BY <1>3, <1>4, <1>5, <1>6, <1>7, <1>8, <1>9, <1>10, <1>11 DEF PanelStep

(* The gist command leaves the dialogs so. *)
LEMMA GistDialogs ==
  ASSUME Typed, GistStep
  PROVE  DialogsGo
<1>1. DialogsOK
  BY DEF Typed
<1>2. ASSUME UNCHANGED dialog
      PROVE  DialogsGo
  BY <1>1, <1>2, DialogsStay
<1>3. CASE CancelOrderSelection \/ SkipResult
  BY <1>2, <1>3 DEF CancelOrderSelection, SkipResult, elsewhere
<1>4. ASSUME NEW u \in Users, EditGist(u)
      PROVE  DialogsGo
  <2>1. PICK d : Ask(u, d) /\ DialogFits(d)
    BY <1>4 DEF EditGist, DialogFits, BoundAlike, DialogOK
  <2> QED  BY <1>1, <2>1, AskKeeps
<1>5. ASSUME NEW h \in Handlers, NEW u \in Users,
             AskGist(h, u) \/ SelectOrder(h, u) \/ SendResult(h, u) \/ SetGist(h, u) \/ SaveGistText(h, u)
      PROVE  DialogsGo
  <2>1. UNCHANGED dialog \/ Ask(u, NoDialog)
    BY <1>5 DEF AskGist, SelectOrder, SendResult, SetGist, SaveGistText, elsewhere
  <2> QED  BY <1>1, <1>2, <2>1, AskKeeps, EndedOK
<1>6. ASSUME NEW h \in Handlers,
             \/ StartOrderSelection(h) \/ FetchOrders(h) \/ CheckConfig(h) \/ NameGist(h) \/ NameByOrder(h)
             \/ CreateGist(h) \/ CreateFails(h) \/ LinkSent(h) \/ SendFails(h) \/ GistSaved(h)
      PROVE  DialogsGo
  BY <1>2, <1>6 DEF StartOrderSelection, FetchOrders, CheckConfig, NameGist, NameByOrder, CreateGist, CreateFails,
     LinkSent, SendFails, GistSaved, elsewhere
<1> QED  BY <1>3, <1>4, <1>5, <1>6 DEF GistStep

(* Every step leaves the dialogs of their types, and bound. *)
LEMMA StepDialogs ==
  ASSUME Typed, AdminNext
  PROVE  DialogsGo
<1>1. DialogsOK
  BY DEF Typed
<1>2. ASSUME UNCHANGED dialog
      PROVE  DialogsGo
  BY <1>1, <1>2, DialogsStay
<1>3. CASE \E u \in Users : AskInterval(u)
  <2>1. PICK u \in Users : Ask(u, [kind |-> "interval"])
    BY <1>3 DEF AskInterval
  <2>2. DialogFits([kind |-> "interval"])
    BY DEF DialogFits, DialogOK, BoundAlike
  <2> QED  BY <1>1, <2>1, <2>2, AskKeeps
<1>4. ASSUME NEW h \in Handlers, NEW u \in Users, Switch(h, u) \/ SetInterval(h, u) \/ RunNow(h, u)
      PROVE  DialogsGo
  <2>1. UNCHANGED dialog \/ Ask(u, NoDialog)
    BY <1>4 DEF Switch, SetInterval, RunNow
  <2> QED  BY <1>1, <1>2, <2>1, AskKeeps, EndedOK
<1>5. ASSUME NEW h \in Handlers, Drives(h)
      PROVE  DialogsGo
  BY <1>2, <1>5 DEF Drives, SwitchSaved, StopScheduler, Joined, StartScheduler, Spawn
<1>6. ASSUME NEW w \in Workers, WorkerLoops(w)
      PROVE  DialogsGo
  BY <1>2, <1>6 DEF WorkerLoops
<1>7. ASSUME NEW a \in Actors,
         \/ CycleBegins(a) \/ CycleReads(a) \/ ReadFails(a) \/ ConsiderLot(a)
         \/ UpdatePrice(a) \/ UpdateFails(a) \/ Record(a) \/ Tell(a) \/ FinishCycle(a)
      PROVE  DialogsGo
  BY <1>2, <1>7 DEF cycleElsewhere, CycleBegins, CycleReads, ReadFails, ConsiderLot, UpdatePrice, UpdateFails, Record,
         Tell, FinishCycle
<1>8. CASE PriceMoves \/ ProfileRefreshes
  BY <1>2, <1>8 DEF PriceMoves, ProfileRefreshes, marketElsewhere
<1>9. CASE Restart
  <2>1. dialog' = [u \in Users |-> NoDialog]
    BY <1>9 DEF Restart
  <2> QED  BY <2>1, EndedOK DEF DialogFits, DialogsGo, DialogsOK, DialogOK, Bound, BoundAlike, NoDialog
<1>10. CASE Step
  BY <1>3, <1>4, <1>5, <1>6, <1>7, <1>8, <1>10, SettingsDialogs, PanelDialogs DEF Step, Drives
<1> QED  BY <1>9, <1>10, GistDialogs DEF AdminNext

(* A page whose buttons have lists where they should. *)
PageOK(buttons) == \A b \in buttons : b.act \in {"list", "add", "remove"} => b.list \in Lists

(* A page that is fine leaves the pages so. *)
LEMMA ShowKeeps ==
  ASSUME PagesOK, NEW u, NEW buttons, u \in Users => PageOK(buttons), Show(u, buttons)
  PROVE  PagesOK'
<1>1. panel' = [panel EXCEPT ![u] = buttons] /\ DOMAIN panel = Users
  BY DEF Show, PagesOK
<1>2. DOMAIN panel' = Users /\ \A v \in Users : panel'[v] = IF v = u THEN buttons ELSE panel[v]
  BY <1>1
<1> QED  BY <1>2 DEF PagesOK, PageOK

(* A page without one of its buttons is fine. *)
LEMMA WithoutKeeps ==
  ASSUME PagesOK, NEW u \in Users, NEW b, Without(u, b)
  PROVE  PagesOK'
<1>1. panel' = [panel EXCEPT ![u] = panel[u] \ {b}] /\ DOMAIN panel = Users
  BY DEF Without, PagesOK
<1>2. PageOK(panel[u] \ {b})
  BY DEF PagesOK, PageOK
<1>3. Show(u, panel[u] \ {b})
  BY <1>1 DEF Show
<1> QED  BY <1>2, <1>3, ShowKeeps

(* The pages of the panel are fine. *)
LEMMA PagesFine ==
  /\ PageOK(RulesPage)
  /\ \A i : PageOK(RulePage(i))
  /\ \A i, l : l \in Lists => PageOK(ListPage(i, l))
<1>1. PageOK(RulesPage)
  BY DEF PageOK, RulesPage, Button
<1>2. ASSUME NEW i
      PROVE  PageOK(RulePage(i))
  BY DEF PageOK, RulePage, Button, ListButton
<1>3. ASSUME NEW i, NEW l \in Lists
      PROVE  PageOK(ListPage(i, l))
  BY DEF PageOK, ListPage, ListButton, ItemButton
<1> QED  BY <1>1, <1>2, <1>3

(* Every step leaves the pages so. *)
LEMMA StepPages ==
  ASSUME Typed, AdminNext
  PROVE  PagesOK'
<1>1. PagesOK
  BY DEF Typed
<1>2. ASSUME UNCHANGED panel
      PROVE  PagesOK'
  BY <1>1, <1>2 DEF PagesOK
<1>3. CASE SettingsStep /\ UNCHANGED <<pages, astray, scheduler, cycle, price, profile, storage, history>>
  BY <1>2, <1>3 DEF pages
<1>4. ASSUME NEW u \in Users, ShowRules(u)
      PROVE  PagesOK'
  BY <1>1, <1>4, ShowKeeps, PagesFine DEF ShowRules
<1>5. ASSUME NEW u \in Users, ShowRule(u)
      PROVE  PagesOK'
  <2>1. PICK b \in panel[u] : Without(u, b) \/ Show(u, RulePage(b.index))
    BY <1>5 DEF ShowRule, Look
  <2> QED  BY <1>1, <2>1, WithoutKeeps, ShowKeeps, PagesFine
<1>6. ASSUME NEW u \in Users, ShowList(u)
      PROVE  PagesOK'
  <2>1. PICK b \in panel[u] : b.act = "list" /\ (Without(u, b) \/ Show(u, ListPage(b.index, b.list)))
    BY <1>6 DEF ShowList, Look
  <2>2. PageOK(ListPage(b.index, b.list))
    BY <1>1, <2>1, PagesFine DEF PagesOK
  <2> QED  BY <1>1, <2>1, <2>2, WithoutKeeps, ShowKeeps
<1>7. ASSUME NEW h \in Handlers, AskWords(h)
      PROVE  PagesOK'
  BY <1>2, <1>7 DEF AskWords, pages
<1>8. ASSUME NEW u \in Users, AddRule(u) \/ AnswerStep(u) \/ TapStep(u) \/ Cancel(u)
      PROVE  PagesOK'
  BY <1>2, <1>8 DEF AddRule, AnswerStep, TapStep, Cancel, pages
<1>9. ASSUME NEW h \in Handlers, NEW u \in Users, TapRule(h, u)
      PROVE  PagesOK'
  BY <1>1, <1>9, WithoutKeeps DEF TapRule
<1>10. ASSUME NEW h \in Handlers, NEW u \in Users, AnswerWords(h, u) \/ ConfirmRule(h, u)
       PROVE  PagesOK'
  BY <1>2, <1>10 DEF AnswerWords, ConfirmRule, pages
<1>11. ASSUME NEW h \in Handlers, ToggleRule(h) \/ DeleteRule(h) \/ RemoveWord(h) \/ StoreWords(h)
       PROVE  PagesOK'
  BY <1>2, <1>11 DEF ToggleRule, DeleteRule, RemoveWord, StoreWords, pages
<1>12. ASSUME NEW h \in Handlers, RuleSaved(h)
       PROVE  PagesOK'
  <2>1. WorkOK(pc[h], my[h], issued)
    BY HandlerWork
  <2>2. CASE UNCHANGED panel
    BY <1>2, <2>2
  <2>3. CASE Show(my[h].user, RulePage(my[h].on.index)) \/ Show(my[h].user, RulesPage)
    BY <1>1, <2>3, ShowKeeps, PagesFine
  <2>4. CASE my[h].job \in {"remove", "words"} /\ Show(my[h].user, ListPage(my[h].on.index, my[h].on.list))
    <3>1. my[h].on.list \in Lists
      BY <2>1, <2>4 DEF WorkOK
    <3> QED  BY <1>1, <2>4, <3>1, ShowKeeps, PagesFine
  <2> QED  BY <1>12, <2>2, <2>3, <2>4 DEF RuleSaved
<1>13. CASE PanelStep
  BY <1>4, <1>5, <1>6, <1>7, <1>8, <1>9, <1>10, <1>11, <1>12, <1>13 DEF PanelStep
<1>14. CASE \/ \E u \in Users : AskInterval(u)
            \/ \E h \in Handlers, u \in Users : Switch(h, u) \/ SetInterval(h, u) \/ RunNow(h, u)
  BY <1>2, <1>14 DEF AskInterval, Switch, SetInterval, RunNow, pages
<1>15. ASSUME NEW h \in Handlers, Drives(h)
      PROVE  PagesOK'
  BY <1>2, <1>15 DEF Drives, SwitchSaved, StopScheduler, Joined, StartScheduler, Spawn, pages
<1>16. ASSUME NEW w \in Workers, WorkerLoops(w)
      PROVE  PagesOK'
  BY <1>2, <1>16 DEF WorkerLoops, pages
<1>17. ASSUME NEW a \in Actors,
         \/ CycleBegins(a) \/ CycleReads(a) \/ ReadFails(a) \/ ConsiderLot(a)
         \/ UpdatePrice(a) \/ UpdateFails(a) \/ Record(a) \/ Tell(a) \/ FinishCycle(a)
      PROVE  PagesOK'
  BY <1>2, <1>17 DEF cycleElsewhere, CycleBegins, CycleReads, ReadFails, ConsiderLot, UpdatePrice, UpdateFails, Record,
         Tell, FinishCycle, pages
<1>18. CASE PriceMoves \/ ProfileRefreshes
  BY <1>2, <1>18 DEF PriceMoves, ProfileRefreshes, marketElsewhere, pages
<1>19. CASE Restart
  BY <1>19 DEF Restart, PagesOK
<1>20. CASE GistStep /\ UNCHANGED <<pages, astray, scheduler, cycle, price, profile, storage, history>>
  BY <1>2, <1>20 DEF pages
<1>21. CASE Step
  BY <1>3, <1>13, <1>14, <1>15, <1>16, <1>17, <1>18, <1>21 DEF Step, Drives
<1> QED  BY <1>19, <1>20, <1>21 DEF AdminNext

(* The variables of the specification. *)
adminVars == <<vars, gistVars>>

(* Every step keeps Typed. *)
LEMMA TypedStep ==
  ASSUME Typed, AdminNext
  PROVE  Typed'
BY StepCore, StepDialogs, StepPages DEF Core, DialogsGo, Typed

(* The initial states have Typed. *)
LEMMA TypedInit ==
  ASSUME AdminInit
  PROVE  Typed
<1>1. Core
  BY InitCore DEF AdminInit
<1>2. dialog = [u \in Users |-> NoDialog] /\ panel = [u \in Users |-> {}]
  BY DEF AdminInit, Init
<1>3. DialogsOK /\ PagesOK
  BY <1>2, EndedOK DEF DialogFits, DialogsOK, PagesOK
<1> QED  BY <1>1, <1>3 DEF Core, Typed

(* A step that changes nothing keeps Typed. *)
LEMMA TypedStutter ==
  ASSUME Typed, UNCHANGED adminVars
  PROVE  Typed'
<1>1. UNCHANGED <<heap, current, file, issued, promised, pc, my, dialog, panel>>
  BY DEF adminVars, vars, panelVars, settings, pages
<1> QED  BY <1>1 DEF Typed, StoreOK, IdsOK, ThreadsOK, DialogsOK, PagesOK

(* Typed holds always. *)
LEMMA TypedInvariant == AdminSpec => []Typed
<1>1. ASSUME Typed, [AdminNext]_adminVars
      PROVE  Typed'
  BY <1>1, TypedStep, TypedStutter
<1> QED  BY <1>1, TypedInit, PTL DEF AdminSpec, adminVars

(* What a save makes of the store, and of the handlers. *)
LEMMA UpdatesStore ==
  ASSUME Typed, NEW h \in Handlers, NEW job, NEW new, UpdatesAs(h, job, new)
  PROVE  /\ config' = new /\ UNCHANGED <<file, current>> /\ new \in Config /\ config \in Config
         /\ pc'[h] = "saving" /\ my'[h].job = job.job /\ my'[h].on = job.on
         /\ my'[h].previous = config /\ my'[h].dump = new
         /\ \A g \in Handlers : g # h =>
              /\ pc'[g] = pc[g]
              /\ my'[g].job = my[g].job /\ my'[g].on = my[g].on
              /\ my'[g].previous = my[g].previous /\ my'[g].dump = my[g].dump
              /\ pc[g] # "change" => my'[g].moved = my[g].moved
         /\ \A w \in Workers : pc'[w] = pc[w]
<1>1. /\ Acts(h, "saving", Dumped(job, new))
      /\ Dumped(job, new).job = job.job /\ Dumped(job, new).on = job.on
      /\ Dumped(job, new).previous = config /\ Dumped(job, new).dump = new
      /\ new \in Config /\ config \in Config
  BY UpdatesActs
<1>2. ThreadsOK
  BY DEF Typed
<1>3. heap' = [heap EXCEPT ![current] = new] /\ UNCHANGED <<current, file>> /\ current \in 1..Len(heap) /\ heap \in Seq(Config)
  BY DEF UpdatesAs, Change, Typed, StoreOK
<1>4. config' = new
  BY <1>3, LenProperties DEF config
<1> DEFINE v == Dumped(job, new)
<1>5. Acts(h, "saving", v) /\ v.job = job.job /\ v.on = job.on /\ v.previous = config /\ v.dump = new
  BY <1>1
<1> HIDE DEF v
<1> QED  BY <1>1, <1>2, <1>3, <1>4, <1>5, ActsProperties

(* The threads after a handler has ended. *)
LEMMA EndsThreads ==
  ASSUME Typed, NEW h \in Handlers, Goto(h, "idle"), my' = [my EXCEPT ![h] = Rest] \/ my' = Move(Rest, h)
  PROVE  /\ pc'[h] = "idle" /\ my'[h] = Rest
         /\ \A g \in Handlers : g # h =>
              /\ pc'[g] = pc[g]
              /\ my'[g].job = my[g].job /\ my'[g].on = my[g].on
              /\ my'[g].previous = my[g].previous /\ my'[g].dump = my[g].dump
              /\ pc[g] # "change" => my'[g].moved = my[g].moved
         /\ \A w \in Workers : pc'[w] = pc[w]
<1>1. Acts(h, "idle", Rest) /\ ThreadsOK
  BY DEF Acts, Typed
<1> QED  BY <1>1, ActsProperties

(* The threads after a handler has gone on. *)
LEMMA GoesThreads ==
  ASSUME Typed, NEW h \in Handlers, NEW s, Goto(h, s), UNCHANGED my
  PROVE  /\ pc'[h] = s
         /\ \A g \in Handlers : g # h => pc'[g] = pc[g]
         /\ \A w \in Workers : pc'[w] = pc[w]
<1>1. Acts(h, s, my[h]) /\ ThreadsOK
  BY DEF Acts, Typed
<1> QED  BY <1>1, ActsProperties

(* The threads after a worker was started. *)
LEMMA SpawnThreads ==
  ASSUME Typed, NEW h \in Handlers, Spawn(h)
  PROVE  /\ pc'[h] = "idle" /\ my'[h] = Rest
         /\ \A g \in Handlers : g # h => pc'[g] = pc[g] /\ my'[g] = my[g]
         /\ worker' \in Workers /\ pc'[worker'] = "loop"
<1>1. PICK w \in Workers : pc' = [pc EXCEPT ![h] = "idle", ![w] = "loop"] /\ worker' = w
  BY DEF Spawn
<1>2. ThreadsOK /\ w \in Actors /\ h \in Actors /\ Handlers \cap Workers = {} /\ Actors = Handlers \cup Workers
  BY AutoDumpingAssumption DEF Typed, Actors
<1>3. my' = [my EXCEPT ![h] = Rest]
  BY DEF Spawn
<1>4. my'[h] = Rest /\ \A g \in Handlers : g # h => my'[g] = my[g]
  BY <1>2, <1>3 DEF ThreadsOK
<1>5. pc'[h] = "idle" /\ pc'[w] = "loop" /\ \A a \in Actors : a # h /\ a # w => pc'[a] = pc[a]
  BY <1>1, <1>2 DEF ThreadsOK
<1> QED  BY <1>1, <1>2, <1>4, <1>5

(* The threads after a worker was woken. *)
LEMMA LoopsThreads ==
  ASSUME Typed, NEW w \in Workers, WorkerLoops(w)
  PROVE  /\ \A g \in Handlers : pc'[g] = pc[g] /\ my'[g] = my[g]
         /\ \A x \in Workers : x # w => pc'[x] = pc[x]
         /\ pc'[w] = IF stopping THEN "ended" ELSE "begin"
<1>1. pc' = [pc EXCEPT ![w] = IF stopping THEN "ended" ELSE "begin"] /\ my' = my
  BY DEF WorkerLoops, Goto
<1>2. ThreadsOK /\ w \in Actors /\ Handlers \cap Workers = {} /\ Actors = Handlers \cup Workers
  BY AutoDumpingAssumption DEF Typed, Actors
<1> QED  BY <1>1, <1>2 DEF ThreadsOK

(* Handlers at a save are left alone by all but a save, its end and a restart. *)
SaversSame ==
  \A g \in Handlers : /\ pc'[g] = "saving" <=> pc[g] = "saving"
                      /\ pc[g] = "saving" => my'[g] = my[g]

(* Only a start drops rules. *)
LEMMA DroppedStep ==
  ASSUME AdminNext
  PROVE  Restart \/ UNCHANGED dropped
<1>1. ASSUME UNCHANGED history
      PROVE  UNCHANGED dropped
  BY <1>1 DEF history
<1>2. CASE \/ SettingsStep /\ UNCHANGED <<pages, astray, scheduler, cycle, price, profile, storage, history>>
           \/ PanelStep /\ UNCHANGED <<scheduler, cycle, price, profile, storage, history>>
           \/ GistStep /\ UNCHANGED <<pages, astray, scheduler, cycle, price, profile, storage, history>>
  BY <1>1, <1>2
<1>3. CASE \/ \E u \in Users : AskInterval(u)
           \/ \E h \in Handlers, u \in Users : Switch(h, u) \/ SetInterval(h, u) \/ RunNow(h, u)
  BY <1>1, <1>3 DEF AskInterval, Switch, SetInterval, RunNow
<1>4. CASE \E h \in Handlers : SwitchSaved(h) \/ StopScheduler(h) \/ Joined(h) \/ StartScheduler(h) \/ Spawn(h)
  BY <1>1, <1>4 DEF SwitchSaved, StopScheduler, Joined, StartScheduler, Spawn
<1>5. CASE \E w \in Workers : WorkerLoops(w)
  BY <1>1, <1>5 DEF WorkerLoops
<1>6. ASSUME NEW a \in Actors,
         \/ CycleBegins(a) \/ CycleReads(a) \/ ReadFails(a) \/ ConsiderLot(a) \/ Tell(a) \/ FinishCycle(a)
      PROVE  UNCHANGED dropped
  BY <1>1, <1>6 DEF CycleBegins, CycleReads, ReadFails, ConsiderLot, Tell, FinishCycle
<1>7. ASSUME NEW a \in Actors, UpdatePrice(a) \/ UpdateFails(a) \/ Record(a)
      PROVE  UNCHANGED dropped
  BY <1>1, <1>7 DEF UpdatePrice, UpdateFails, Record, Saves
<1>8. CASE PriceMoves \/ ProfileRefreshes
  BY <1>1, <1>8 DEF PriceMoves, ProfileRefreshes, marketElsewhere
<1>9. CASE Step
  BY <1>2, <1>3, <1>4, <1>5, <1>6, <1>7, <1>8, <1>9 DEF Step
<1> QED  BY <1>2, <1>9 DEF AdminNext

(* What a start drops are rules. *)
LEMMA RestartDrops ==
  ASSUME Typed, Restart
  PROVE  Doubles(file) \subseteq RuleIds /\ dropped' = dropped \cup Doubles(file)
<1>1. file \in Config
  BY DEF Typed, StoreOK
<1>2. Doubles(file) \subseteq IdsOf(file.rules) /\ IdsOf(file.rules) \subseteq RuleIds
  BY <1>1, LoadedProperties, IdsTyped
<1> QED  BY <1>2 DEF Restart

(* Promises are kept when neither settings nor saves are touched. *)
LEMMA KeptSame ==
  ASSUME KeptInv, UNCHANGED <<settings, promised, overlap, dropped>>, SaversSame
  PROVE  KeptInv'
BY DEF KeptInv, SaversSame, OneSaver, config, settings

(* A save alone keeps the promises: it drops no id that is promised still. *)
LEMMA KeptUpdates ==
  ASSUME Typed, KeptInv, NEW h \in Handlers, Updates(h), UNCHANGED dropped
  PROVE  KeptInv'
<1>1. PICK job, new : UpdatesAs(h, job, new)
  BY DEF Updates
<1>2. SUFFICES ASSUME "saves" \notin overlap'
               PROVE  KeptInv'
  BY DEF KeptInv
<1>3. overlap' = overlap \cup Crossings(h, job)
  BY <1>1 DEF UpdatesAs, Change
<1>4. \A g \in Handlers : g # h => pc[g] # "saving"
  BY <1>2, <1>3 DEF Crossings
<1>5. promised \subseteq Ids(config) \cup dropped /\ promised \subseteq Ids(file) \cup dropped
  BY <1>2, <1>3 DEF KeptInv
<1>6. /\ promised' \subseteq promised /\ promised' \cap Ids(config) \subseteq Ids(new)
      /\ job.job \in {"create", "confirm"} => job.on \in Ids(new)
  BY <1>1 DEF UpdatesAs
<1>7. /\ config' = new /\ file' = file /\ pc'[h] = "saving" /\ my'[h].job = job.job /\ my'[h].on = job.on
      /\ my'[h].previous = config /\ my'[h].dump = new
      /\ \A g \in Handlers : g # h => pc'[g] # "saving"
  BY <1>1, <1>4, UpdatesStore
<1> QED  BY <1>5, <1>6, <1>7 DEF KeptInv, OneSaver

(* The end of a save writes what is in memory, and promises only what is there. *)
LEMMA KeptWrites ==
  ASSUME Typed, KeptInv, NEW h \in Handlers, Writes(h), UNCHANGED dropped
  PROVE  KeptInv'
<1>1. SUFFICES ASSUME "saves" \notin overlap'
               PROVE  KeptInv'
  BY DEF KeptInv
<1>2. /\ pc[h] = "saving" /\ file' = my[h].dump /\ config' = config /\ UNCHANGED overlap
      /\ promised' = IF my[h].job \in {"create", "confirm"} THEN promised \cup {my[h].on} ELSE promised
  BY DEF Writes, Written, config
<1>3. pc'[h] = "idle" /\ \A g \in Handlers : g # h => pc'[g] = pc[g]
  BY EndsThreads DEF Writes, Ends
<1>4. OneSaver /\ promised \subseteq Ids(config) \cup dropped /\ my[h].dump = config
      /\ (my[h].job \in {"create", "confirm"} => my[h].on \in Ids(config))
  BY <1>1, <1>2 DEF KeptInv
<1>5. \A g \in Handlers : pc'[g] # "saving"
  BY <1>2, <1>3, <1>4 DEF OneSaver
<1> QED  BY <1>2, <1>4, <1>5 DEF KeptInv, OneSaver

(* A rollback goes back to settings that hold the promises. *)
LEMMA KeptRollBack ==
  ASSUME Typed, KeptInv, NEW h \in Handlers, RollBack(h), UNCHANGED dropped
  PROVE  KeptInv'
<1>1. SUFFICES ASSUME "saves" \notin overlap'
               PROVE  KeptInv'
  BY DEF KeptInv
<1>2. pc[h] = "saving" /\ heap' = Append(heap, my[h].previous) /\ current' = Len(heap') /\ UNCHANGED <<file, overlap, promised>>
  BY DEF RollBack
<1>3. config' = my[h].previous
  <2>1. heap \in Seq(Config) /\ my[h].previous \in Config
    BY <1>2, HandlerWork DEF Typed, StoreOK, WorkOK
  <2>2. Len(heap') = Len(heap) + 1 /\ heap'[Len(heap) + 1] = my[h].previous
    BY <1>2, <2>1, AppendProperties
  <2> QED  BY <1>2, <2>2 DEF config
<1>4. pc'[h] = "idle" /\ \A g \in Handlers : g # h => pc'[g] = pc[g]
  BY EndsThreads DEF RollBack
<1>5. OneSaver /\ promised \subseteq Ids(my[h].previous) \cup dropped /\ promised \subseteq Ids(file) \cup dropped
  BY <1>1, <1>2 DEF KeptInv
<1>6. \A g \in Handlers : pc'[g] # "saving"
  BY <1>2, <1>4, <1>5 DEF OneSaver
<1> QED  BY <1>2, <1>3, <1>5, <1>6 DEF KeptInv, OneSaver

(* So does the switch. *)
LEMMA KeptDrives ==
  ASSUME Typed, KeptInv, NEW h \in Handlers, Drives(h), UNCHANGED dropped
  PROVE  KeptInv'
<1>1. CASE SwitchSaved(h)
  <2>1. SUFFICES ASSUME "saves" \notin overlap'
                 PROVE  KeptInv'
    BY DEF KeptInv
  <2>2. pc[h] = "saving" /\ file' = my[h].dump /\ config' = config /\ UNCHANGED <<overlap, promised, my>>
    BY <1>1 DEF SwitchSaved, Written, config
  <2>3. PICK s \in {"start", "stop"} : Goto(h, s)
    BY <1>1 DEF SwitchSaved
  <2>4. pc'[h] # "saving" /\ \A g \in Handlers : g # h => pc'[g] = pc[g]
    BY <2>2, <2>3, GoesThreads
  <2>5. OneSaver /\ promised \subseteq Ids(config) \cup dropped /\ my[h].dump = config
    BY <2>1, <2>2 DEF KeptInv
  <2>6. \A g \in Handlers : pc'[g] # "saving"
    BY <2>2, <2>4, <2>5 DEF OneSaver
  <2> QED  BY <2>2, <2>5, <2>6 DEF KeptInv, OneSaver
<1>2. CASE StopScheduler(h) \/ Joined(h) \/ StartScheduler(h) \/ Spawn(h)
  <2>1. UNCHANGED <<settings, promised, overlap, dropped>> /\ pc[h] # "saving"
    BY <1>2 DEF StopScheduler, Joined, StartScheduler, Spawn
  <2>2. SaversSame
    <3>1. CASE Ends(h)
      <4>1. UNCHANGED <<>> /\ pc'[h] = "idle" /\ \A g \in Handlers : g # h => pc'[g] = pc[g]
        BY <3>1, EndsThreads DEF Ends
      <4>2. \A g \in Handlers : g # h => my'[g] = my[g]
        BY <3>1 DEF Ends, Typed, ThreadsOK
      <4> QED  BY <2>1, <4>1, <4>2 DEF SaversSame
    <3>2. CASE UNCHANGED my /\ \E s \in {"join", "start", "spawn"} : Goto(h, s)
      BY <2>1, <3>2, GoesThreads DEF SaversSame
    <3>3. CASE Spawn(h)
      BY <2>1, <3>3, SpawnThreads DEF SaversSame
    <3> QED  BY <1>2, <3>1, <3>2, <3>3 DEF StopScheduler, Joined, StartScheduler
  <2> QED  BY <2>1, <2>2, KeptSame
<1> QED  BY <1>1, <1>2 DEF Drives

(* A restart loads the file, which holds the promises, and drops the doubles. *)
LEMMA KeptRestart ==
  ASSUME Typed, KeptInv, Restart
  PROVE  KeptInv'
<1>1. SUFFICES ASSUME "saves" \notin overlap'
               PROVE  KeptInv'
  BY DEF KeptInv
<1>2. /\ heap' = <<Loaded(file)>> /\ current' = 1 /\ UNCHANGED <<file, overlap, promised>>
      /\ dropped' = dropped \cup Doubles(file)
      /\ pc' = BootPC(heap'[1]) /\ my' = [h \in Handlers |-> Rest]
  BY DEF Restart
<1>3. \A h \in Handlers : pc'[h] = "idle"
  BY <1>2, BootThreads
<1>4. config' = Loaded(file)
  BY <1>2 DEF config
<1>5. Ids(file) \subseteq Ids(Loaded(file)) \cup Doubles(file)
  BY LoadedProperties DEF Typed, StoreOK, Ids
<1>6. promised \subseteq Ids(file) \cup dropped
  BY <1>1, <1>2 DEF KeptInv
<1>7. promised' \subseteq Ids(file') \cup dropped' /\ promised' \subseteq Ids(config') \cup dropped'
  BY <1>2, <1>4, <1>5, <1>6
<1> QED  BY <1>3, <1>7 DEF KeptInv, OneSaver, Ids

(* Every step keeps the promises. *)
LEMMA KeptStep ==
  ASSUME Typed, KeptInv, AdminNext
  PROVE  KeptInv'
<1>1. ASSUME UNCHANGED dropped, Aside
      PROVE  KeptInv'
  <2>1. SaversSame
    BY <1>1 DEF Aside, Same, Off, Busy, SaversSame
  <2> QED  BY <1>1, <2>1, KeptSame DEF Aside
<1>2. ASSUME UNCHANGED dropped, NEW w \in Workers, WorkerLoops(w)
      PROVE  KeptInv'
  <2>1. SaversSame /\ UNCHANGED <<settings, promised, overlap>>
    BY <1>2, LoopsThreads DEF WorkerLoops, SaversSame
  <2> QED  BY <1>2, <2>1, KeptSame
<1>3. CASE Restart
  BY <1>3, KeptRestart
<1>4. CASE UNCHANGED dropped
  BY <1>1, <1>2, <1>3, <1>4, StepKinds, KeptUpdates, KeptWrites, KeptRollBack, KeptDrives DEF Kinds
<1> QED  BY <1>3, <1>4, DroppedStep

(* The initial states hold the promises. *)
LEMMA KeptInit ==
  ASSUME AdminInit
  PROVE  KeptInv
<1>1. promised = issued /\ file = config /\ issued = Ids(config)
  BY InitCore DEF AdminInit
<1>2. my = [h \in Handlers |-> Rest] /\ pc = BootPC(config)
  BY DEF AdminInit, Init
<1>3. \A h \in Handlers : pc[h] = "idle"
  BY <1>2, BootThreads
<1> QED  BY <1>1, <1>3 DEF KeptInv, OneSaver

(* A rule or a template that was reported as saved and not deleted since is there, whatever saves failed and *)
(* restarts happened, with two exceptions: two saves crossed (update_settings with its rollback, and *)
(* atomic_write_json), or the rule was a double of another, which a start has dropped *)
(* (normalize_auto_dumping_settings). *)
THEOREM KeptAlways == AdminSpec => []Kept
<1>1. ASSUME Typed, KeptInv, [AdminNext]_adminVars
      PROVE  KeptInv'
  <2>1. CASE UNCHANGED adminVars
    <3>1. UNCHANGED <<settings, promised, overlap, dropped, pc, my>>
      BY <2>1 DEF adminVars, vars, panelVars, history
    <3> QED  BY <1>1, <3>1, KeptSame DEF SaversSame
  <2> QED  BY <1>1, <2>1, KeptStep
<1>2. KeptInv => Kept
  BY DEF KeptInv, Kept, Ids
<1> QED  BY <1>1, <1>2, KeptInit, TypedInvariant, PTL DEF AdminSpec, adminVars

(* Buttons and answers change what they were made for. *)
LEMMA AstrayStep ==
  ASSUME astray = FALSE, Aimed, AdminNext
  PROVE  astray' = FALSE
<1>1. ASSUME UNCHANGED astray
      PROVE  astray' = FALSE
  BY <1>1
<1>2. ASSUME NEW h \in Handlers, ToggleRule(h) \/ DeleteRule(h)
      PROVE  astray' = FALSE
  BY <1>2 DEF ToggleRule, DeleteRule, Fails
<1>3. ASSUME NEW h \in Handlers, RemoveWord(h)
      PROVE  astray' = FALSE
  <2>1. pc[h] = "change" /\ my[h].job = "remove"
    BY <1>3 DEF RemoveWord
  <2>2. my[h].moved \/ InPlace(my[h].on)
    BY <2>1 DEF Aimed, Found
  <2> QED  BY <1>3, <2>2 DEF RemoveWord, Fails, InPlace
<1>4. ASSUME NEW h \in Handlers, StoreWords(h)
      PROVE  astray' = FALSE
  <2>1. pc[h] = "change" /\ my[h].job = "words"
    BY <1>4 DEF StoreWords
  <2>2. my[h].moved \/ SameId(my[h].on)
    BY <2>1 DEF Aimed, Found
  <2> QED  BY <1>4, <2>2 DEF StoreWords, Fails
<1>5. ASSUME NEW u \in Users, \/ ShowRules(u) \/ ShowRule(u) \/ ShowList(u)
                              \/ AddRule(u) \/ AnswerStep(u) \/ TapStep(u) \/ Cancel(u)
      PROVE  UNCHANGED astray
  BY <1>5 DEF ShowRules, ShowRule, ShowList, AddRule, AnswerStep, TapStep, Cancel, Look
<1>6. ASSUME NEW h \in Handlers, NEW u \in Users, TapRule(h, u) \/ AnswerWords(h, u) \/ ConfirmRule(h, u)
      PROVE  UNCHANGED astray
  BY <1>6 DEF TapRule, AnswerWords, ConfirmRule
<1>7. ASSUME NEW h \in Handlers, RuleSaved(h) \/ AskWords(h)
      PROVE  UNCHANGED astray
  BY <1>7 DEF RuleSaved, AskWords
<1>8. CASE PanelStep
  BY <1>2, <1>3, <1>4, <1>5, <1>6, <1>7, <1>8 DEF PanelStep
<1>9. CASE \/ \E u \in Users : AskInterval(u)
           \/ \E h \in Handlers, u \in Users : Switch(h, u) \/ SetInterval(h, u) \/ RunNow(h, u)
  BY <1>9 DEF AskInterval, Switch, SetInterval, RunNow
<1>10. ASSUME NEW h \in Handlers, Drives(h)
       PROVE  UNCHANGED astray
  BY <1>10 DEF Drives, SwitchSaved, StopScheduler, Joined, StartScheduler, Spawn
<1>11. ASSUME NEW w \in Workers, WorkerLoops(w)
       PROVE  UNCHANGED astray
  BY <1>11 DEF WorkerLoops
<1>12. ASSUME NEW a \in Actors,
         \/ CycleBegins(a) \/ CycleReads(a) \/ ReadFails(a) \/ ConsiderLot(a)
         \/ UpdatePrice(a) \/ UpdateFails(a) \/ Record(a) \/ Tell(a) \/ FinishCycle(a)
       PROVE  UNCHANGED astray
  BY <1>12 DEF cycleElsewhere, CycleBegins, CycleReads, ReadFails, ConsiderLot, UpdatePrice, UpdateFails, Record,
         Tell, FinishCycle
<1>13. CASE PriceMoves \/ ProfileRefreshes \/ Restart
  BY <1>13 DEF PriceMoves, ProfileRefreshes, marketElsewhere, Restart
<1>14. CASE Step
  BY <1>8, <1>9, <1>10, <1>11, <1>12, <1>13, <1>14 DEF Step, Drives
<1> QED  BY <1>13, <1>14 DEF AdminNext

(* Who has looked something up finds it when the settings stay. *)
LEMMA AimedSame ==
  ASSUME Aimed, config' = config,
         \A g \in Handlers : pc'[g] = "change" =>
            pc[g] = "change" /\ my'[g].job = my[g].job /\ my'[g].on = my[g].on /\ my'[g].moved = my[g].moved
  PROVE  Aimed'
BY DEF Aimed, Found, InPlace, SameId, Rules

(* What happens aside moves nothing. *)
LEMMA AimedAside ==
  ASSUME Aimed, Bound, Aside
  PROVE  Aimed'
<1>1. config' = config
  BY DEF Aside, settings, config
<1>2. SUFFICES ASSUME NEW g \in Handlers, pc'[g] = "change", ~my'[g].moved
               PROVE  Found(my[g])'
  BY DEF Aimed
<1>3. Found(my'[g])
  BY <1>2 DEF Aside, Same, Off, Aimed
<1> QED  BY <1>1, <1>3 DEF Found, InPlace, SameId, Rules

(* A save moves nothing, or tells the others. *)
LEMMA AimedUpdates ==
  ASSUME Typed, Aimed, NEW h \in Handlers, Updates(h)
  PROVE  Aimed'
<1>1. PICK job, new : UpdatesAs(h, job, new)
  BY DEF Updates
<1>2. config' = new /\ pc'[h] = "saving"
  BY <1>1, UpdatesStore
<1>3. SUFFICES ASSUME NEW g \in Handlers, pc'[g] = "change", ~my'[g].moved
               PROVE  Found(my[g])'
  BY DEF Aimed
<1> DEFINE v == Dumped(job, new)
<1>4. Acts(h, "saving", v) /\ ThreadsOK /\ g # h
  BY <1>1, <1>2, <1>3, UpdatesActs DEF Typed
<1>5. (my' = [my EXCEPT ![h] = v] /\ Stable(Rules, new.rules)) \/ my' = Move(v, h)
  BY <1>1 DEF UpdatesAs
<1> HIDE DEF v
<1>6. pc[g] = "change" /\ my' # Move(v, h) /\ my'[g] = my[g]
  BY <1>3, <1>4, ActsProperties
<1>7. Found(my[g]) /\ Stable(Rules, new.rules)
  BY <1>3, <1>5, <1>6 DEF Aimed
<1>8. my[g].job = "remove" => my[g].on.list \in Lists
  BY HandlerWork DEF WorkOK
<1> DEFINE b == my[g].on
           r == Rules
           s == new.rules
<1>9. Rules' = s
  BY <1>2 DEF Rules
<1>10. SameId(b) => SameId(b)'
  <2>1. b.index \in DOMAIN r => b.index \in DOMAIN s /\ s[b.index].id = r[b.index].id
    BY <1>7 DEF Stable
  <2> QED  BY <1>6, <1>9, <2>1 DEF SameId
<1>11. b.list \in Lists /\ InPlace(b) => InPlace(b)'
  <2>1. b.index \in DOMAIN r /\ b.list \in Lists /\ b.item \in DOMAIN r[b.index][b.list] =>
           b.item \in DOMAIN s[b.index][b.list] /\ s[b.index][b.list][b.item] = r[b.index][b.list][b.item]
    BY <1>7 DEF Stable
  <2> QED  BY <1>6, <1>9, <1>10, <2>1 DEF InPlace, SameId
<1> QED  BY <1>6, <1>7, <1>8, <1>10, <1>11 DEF Found

(* Every step leaves what was looked up in its place, or tells. *)
LEMMA AimedStep ==
  ASSUME Typed, Aimed, Bound, AdminNext
  PROVE  Aimed'
<1>1. ASSUME NEW h \in Handlers, Writes(h)
      PROVE  Aimed'
  <2>1. config' = config /\ Goto(h, "idle") /\ my' = [my EXCEPT ![h] = Rest]
    BY <1>1 DEF Writes, Written, Ends, config
  <2>2. \A g \in Handlers : g # h => my'[g] = my[g]
    BY <2>1 DEF Typed, ThreadsOK
  <2> QED  BY <2>1, <2>2, EndsThreads, AimedSame
<1>2. ASSUME NEW h \in Handlers, RollBack(h)
      PROVE  Aimed'
  <2>1. Acts(h, "idle", Rest) /\ ThreadsOK /\ my' = Move(Rest, h)
    BY <1>2 DEF RollBack, Acts, Typed
  <2>2. \A g \in Handlers : pc'[g] = "change" => my'[g].moved
    BY <2>1, ActsProperties
  <2> QED  BY <2>2 DEF Aimed
<1>3. ASSUME NEW h \in Handlers, Drives(h)
      PROVE  Aimed'
  <2>1. config' = config
    BY <1>3 DEF Drives, SwitchSaved, StopScheduler, Joined, StartScheduler, Spawn, Written, config, settings
  <2>2. CASE Spawn(h)
    BY <2>1, <2>2, SpawnThreads, AimedSame
  <2>3. CASE Ends(h)
    <3>1. \A g \in Handlers : g # h => my'[g] = my[g]
      BY <2>3 DEF Ends, Typed, ThreadsOK
    <3> QED  BY <2>1, <2>3, <3>1, EndsThreads, AimedSame DEF Ends
  <2>4. CASE UNCHANGED my /\ \E s \in SwitchSteps : Goto(h, s)
    BY <2>1, <2>4, GoesThreads, AimedSame DEF SwitchSteps
  <2> QED  BY <1>3, <2>2, <2>3, <2>4 DEF Drives, SwitchSaved, StopScheduler, Joined, StartScheduler, SwitchSteps
<1>4. ASSUME NEW w \in Workers, WorkerLoops(w)
      PROVE  Aimed'
  <2>1. config' = config
    BY <1>4 DEF WorkerLoops, config, settings
  <2> QED  BY <1>4, <2>1, LoopsThreads, AimedSame
<1>5. CASE Restart
  <2>1. pc' = BootPC(heap'[1]) /\ my' = [h \in Handlers |-> Rest]
    BY <1>5 DEF Restart
  <2>2. \A h \in Handlers : pc'[h] = "idle"
    BY <2>1, BootThreads
  <2> QED  BY <2>2 DEF Aimed
<1> QED  BY <1>1, <1>2, <1>3, <1>4, <1>5, StepKinds, AimedAside, AimedUpdates DEF Kinds

(* Nothing goes astray. *)
LEMMA NothingAstray == AdminSpec => [](astray = FALSE)
<1> DEFINE Inv == astray = FALSE /\ Aimed /\ Bound
<1>1. AdminInit => Inv
  <2> SUFFICES ASSUME AdminInit
               PROVE  astray = FALSE /\ Aimed /\ Bound
    OBVIOUS
  <2>1. my = [h \in Handlers |-> Rest] /\ pc = BootPC(config) /\ astray = FALSE /\ dialog = [u \in Users |-> NoDialog]
    BY DEF AdminInit, Init
  <2>2. \A h \in Handlers : pc[h] = "idle"
    BY <2>1, BootThreads
  <2> QED  BY <2>1, <2>2 DEF Aimed, Bound, BoundAlike, NoDialog
<1>2. ASSUME Typed, Inv, [AdminNext]_adminVars
      PROVE  Inv'
  <2>1. CASE UNCHANGED adminVars
    <3>1. UNCHANGED <<settings, dialog, astray, pc, my>>
      BY <2>1 DEF adminVars, vars, panelVars
    <3>2. config' = config
      BY <3>1 DEF settings, config
    <3> QED  BY <1>2, <3>1, <3>2, AimedSame DEF Bound, BoundAlike
  <2>2. CASE AdminNext
    BY <1>2, <2>2, AstrayStep, AimedStep, StepDialogs DEF DialogsGo
  <2> QED  BY <1>2, <2>1, <2>2
<1>3. Inv => astray = FALSE
  OBVIOUS
<1> HIDE DEF Inv
<1> QED  BY <1>1, <1>2, <1>3, TypedInvariant, PTL DEF AdminSpec, adminVars

(* A word is taken from or added to the blacklist of the rule that was meant, or of none, although rules *)
(* move and settings are rolled back between the page and the tap, and between the question and the answer *)
(* (AutoDumpingTelegram: _remove_blacklist_item, _add_blacklist, on_text).  It can go astray only when *)
(* something moves between the check of a tap or an answer and its change, or while the question is sent. *)
THEOREM RightRuleAlways == AdminSpec => []RightRule
<1>1. astray = FALSE => RightRule
  BY DEF RightRule
<1> QED  BY <1>1, NothingAstray, PTL

(* No two handlers are at the switch. *)
SwitcherAlone == \A g, h \in Handlers : my[g].job \in Switching /\ my[h].job \in Switching => g = h

(* What holds of a handler at the switch, or at a save, when it is alone there. *)
AtSwitch(h) ==
  /\ pc[h] = "saving" /\ my[h].job # "switch" => my[h].previous.enabled = config.enabled
  /\ pc[h] = "saving" /\ my[h].job \in Switching => (my[h].previous.enabled <=> Running)
  /\ pc[h] \in {"start", "spawn"} => config.enabled
  /\ pc[h] \in {"stop", "join"} /\ my[h].job = "switch" => ~config.enabled
  /\ pc[h] = "join" => stopping

(* The worker the scheduler knows of goes on unless the event is set. *)
WorkerOK ==
  /\ worker \in Workers \cup {Nobody} /\ stopping \in BOOLEAN
  /\ worker # Nobody /\ ~stopping => Alive(worker)

(* With one handler at a save and one at the switch: auto-dumping is on exactly when a worker goes on, *)
(* unless the handler at the switch is about to make it so. *)
Orderly ==
  /\ OneSaver /\ SwitcherAlone
  /\ (\A h \in Handlers : my[h].job \notin Switching) => (config.enabled <=> Running)
  /\ stopping /\ worker # Nobody => \E h \in Handlers : pc[h] = "join"
  /\ \A h \in Handlers : AtSwitch(h)

(* Switching is what handlers do at a save or at the switch. *)
LEMMA Switchers ==
  ASSUME Typed, NEW h \in Handlers
  PROVE  /\ my[h].job \in Switching => pc[h] \in Busy
         /\ pc[h] \in SwitchSteps => my[h].job \in Switching
<1>1. Suited(pc[h], my[h].job)
  BY HandlerWork DEF WorkOK
<1> QED  BY <1>1 DEF Suited, Switching, Busy, SwitchSteps, CycleSteps, AskSteps, ChangeJobs

(* Auto-dumping is on or off. *)
LEMMA EnabledType ==
  ASSUME Typed
  PROVE  config.enabled \in BOOLEAN
<1>1. config \in Config
  BY ConfigType DEF Typed
<1> QED  BY <1>1 DEF Config

(* What happens aside leaves the order. *)
LEMMA WorkAside ==
  ASSUME Typed, Typed', WorkerOK, overlap = {} => Orderly, Aside
  PROVE  WorkerOK' /\ (overlap' = {} => Orderly')
<1>1. UNCHANGED <<heap, current, overlap, stopping, worker>> /\ config' = config
  BY DEF Aside, settings, config
<1>2. \A w \in Workers : Alive(w)' <=> Alive(w)
  BY DEF Aside, Alive
<1>3. Running' <=> Running
  BY <1>1, <1>2 DEF Running, WorkerOK
<1>4. WorkerOK'
  BY <1>1, <1>2 DEF WorkerOK
<1>5. ASSUME NEW g \in Handlers
      PROVE  \/ pc'[g] = pc[g] /\ my'[g] = my[g]
             \/ pc[g] \notin Busy /\ pc'[g] \notin Busy /\ my[g].job \notin Switching /\ my'[g].job \notin Switching
  <2>1. my'[g].job \in Switching => pc'[g] \in Busy
    <3>1. Suited(pc[g], my[g].job)'
      BY DEF Typed, ThreadsOK, WorkOK
    <3> QED  BY <3>1 DEF Suited, Switching, Busy, SwitchSteps, CycleSteps, AskSteps, ChangeJobs
  <2> QED  BY <2>1, Switchers DEF Aside, Same, Off
<1>6. ASSUME Orderly
      PROVE  Orderly'
  <2>1. OneSaver' /\ SwitcherAlone'
    BY <1>5, <1>6 DEF Orderly, OneSaver, SwitcherAlone, Busy
  <2>2. ((\A h \in Handlers : my[h].job \notin Switching) => (config.enabled <=> Running))'
    BY <1>1, <1>3, <1>5, <1>6 DEF Orderly
  <2>3. (stopping /\ worker # Nobody => \E h \in Handlers : pc[h] = "join")'
    BY <1>1, <1>5, <1>6 DEF Orderly, Busy, SwitchSteps
  <2>4. ASSUME NEW h \in Handlers
        PROVE  AtSwitch(h)'
    BY <1>1, <1>3, <1>5, <1>6 DEF Orderly, AtSwitch, Busy, SwitchSteps
  <2> QED  BY <2>1, <2>2, <2>3, <2>4 DEF Orderly
<1> QED  BY <1>1, <1>4, <1>6

(* A save that crosses no other leaves the order. *)
LEMMA WorkUpdates ==
  ASSUME Typed, WorkerOK, overlap = {} => Orderly, NEW h \in Handlers, Updates(h), UNCHANGED <<stopping, worker>>
  PROVE  WorkerOK' /\ (overlap' = {} => Orderly')
<1>1. PICK job, new : UpdatesAs(h, job, new)
  BY DEF Updates
<1>2. /\ config' = new /\ config \in Config /\ new \in Config
      /\ pc'[h] = "saving" /\ my'[h].job = job.job /\ my'[h].previous = config
      /\ \A g \in Handlers : g # h =>
           pc'[g] = pc[g] /\ my'[g].job = my[g].job /\ my'[g].previous = my[g].previous
      /\ \A w \in Workers : pc'[w] = pc[w]
  BY <1>1, UpdatesStore
<1>3. WorkerOK' /\ (Running' <=> Running)
  BY <1>2 DEF WorkerOK, Running, Alive
<1>4. ASSUME overlap' = {}
      PROVE  Orderly'
  <2>1. overlap = {} /\ Crossings(h, job) = {}
    BY <1>1, <1>4 DEF UpdatesAs, Change
  <2>2. /\ \A g \in Handlers : g # h => pc[g] # "saving"
        /\ job.job \in Switching => \A g \in Handlers : g # h => my[g].job \notin Switching
    BY <2>1 DEF Crossings
  <2>3. Orderly
    BY <2>1
  <2>4. pc[h] \in {"idle", "change"} /\ my[h].job \notin Switching
    <3>1. pc[h] \in {"idle", "change"}
      BY <1>1 DEF UpdatesAs
    <3> QED  BY <3>1, Switchers DEF Busy, SwitchSteps
  <2>5. job.job # "switch" => new.enabled = config.enabled
    BY <1>1 DEF UpdatesAs
  <2>6. OneSaver' /\ SwitcherAlone'
    BY <1>2, <2>2, <2>3 DEF Orderly, OneSaver, SwitcherAlone
  <2>7. ((\A g \in Handlers : my[g].job \notin Switching) => (config.enabled <=> Running))'
    <3> SUFFICES ASSUME \A g \in Handlers : my'[g].job \notin Switching
                 PROVE  config'.enabled <=> Running'
      OBVIOUS
    <3>1. \A g \in Handlers : my[g].job \notin Switching
      BY <1>2, <2>4
    <3>2. job.job # "switch"
      BY <1>2 DEF Switching
    <3> QED  BY <1>2, <1>3, <2>3, <2>5, <3>1, <3>2 DEF Orderly
  <2>8. (stopping /\ worker # Nobody => \E g \in Handlers : pc[g] = "join")'
    BY <1>2, <2>3, <2>4 DEF Orderly
  <2>9. AtSwitch(h)'
    <3>1. job.job \in Switching => (config.enabled <=> Running)
      BY <2>2, <2>3, <2>4 DEF Orderly
    <3> QED  BY <1>2, <1>3, <2>5, <3>1 DEF AtSwitch
  <2>10. ASSUME NEW g \in Handlers, g # h
         PROVE  AtSwitch(g)'
    <3>1. AtSwitch(g) /\ pc[g] # "saving"
      BY <2>2, <2>3, <2>10 DEF Orderly
    <3>2. pc[g] \in SwitchSteps => my[g].job \in Switching
      BY Switchers
    <3>3. CASE pc[g] \in SwitchSteps
      <4>1. new.enabled = config.enabled
        BY <2>2, <2>5, <2>10, <3>2, <3>3 DEF Switching
      <4> QED  BY <1>2, <2>10, <3>1, <4>1 DEF AtSwitch
    <3>4. CASE pc[g] \notin SwitchSteps
      BY <1>2, <2>10, <3>1, <3>4 DEF AtSwitch, SwitchSteps
    <3> QED  BY <3>3, <3>4
  <2> QED  BY <2>6, <2>7, <2>8, <2>9, <2>10 DEF Orderly
<1> QED  BY <1>3, <1>4

(* A handler that ends elsewhere than at the switch leaves the order there. *)
LEMMA WorkWrites ==
  ASSUME Typed, WorkerOK, overlap = {} => Orderly, NEW h \in Handlers, Writes(h)
  PROVE  WorkerOK' /\ (overlap' = {} => Orderly')
<1>1. config' = config /\ UNCHANGED <<overlap, stopping, worker>> /\ pc[h] = "saving" /\ my[h].job \notin Switching
  BY DEF Writes, Written, config
<1>2. /\ pc'[h] = "idle" /\ my'[h] = Rest
      /\ \A g \in Handlers : g # h =>
           pc'[g] = pc[g] /\ my'[g].job = my[g].job /\ my'[g].previous = my[g].previous
      /\ \A w \in Workers : pc'[w] = pc[w]
  BY EndsThreads DEF Writes, Ends
<1>3. WorkerOK' /\ (Running' <=> Running)
  BY <1>1, <1>2 DEF WorkerOK, Running, Alive
<1>4. my'[h].job \notin Switching
  BY <1>2 DEF Rest, Job, Switching
<1>5. ASSUME Orderly
      PROVE  Orderly'
  <2>1. OneSaver' /\ SwitcherAlone'
    BY <1>2, <1>4, <1>5 DEF Orderly, OneSaver, SwitcherAlone
  <2>2. ((\A g \in Handlers : my[g].job \notin Switching) => (config.enabled <=> Running))'
    BY <1>1, <1>2, <1>3, <1>5 DEF Orderly
  <2>3. (stopping /\ worker # Nobody => \E g \in Handlers : pc[g] = "join")'
    BY <1>1, <1>2, <1>5 DEF Orderly
  <2>4. AtSwitch(h)'
    BY <1>2 DEF AtSwitch
  <2>5. ASSUME NEW g \in Handlers, g # h
        PROVE  AtSwitch(g)'
    BY <1>1, <1>2, <1>3, <1>5, <2>5 DEF Orderly, AtSwitch
  <2> QED  BY <2>1, <2>2, <2>3, <2>4, <2>5 DEF Orderly
<1> QED  BY <1>1, <1>3, <1>5

(* A rollback goes back to where auto-dumping was as the worker is. *)
LEMMA WorkRollBack ==
  ASSUME Typed, WorkerOK, overlap = {} => Orderly, NEW h \in Handlers, RollBack(h), UNCHANGED <<stopping, worker>>
  PROVE  WorkerOK' /\ (overlap' = {} => Orderly')
<1>1. pc[h] = "saving" /\ heap' = Append(heap, my[h].previous) /\ current' = Len(heap') /\ UNCHANGED overlap
  BY DEF RollBack
<1>2. config' = my[h].previous
  <2>1. heap \in Seq(Config) /\ my[h].previous \in Config
    BY <1>1, HandlerWork DEF Typed, StoreOK, WorkOK
  <2>2. Len(heap') = Len(heap) + 1 /\ heap'[Len(heap) + 1] = my[h].previous
    BY <1>1, <2>1, AppendProperties
  <2> QED  BY <1>1, <2>2 DEF config
<1>3. /\ pc'[h] = "idle" /\ my'[h] = Rest
      /\ \A g \in Handlers : g # h =>
           pc'[g] = pc[g] /\ my'[g].job = my[g].job /\ my'[g].previous = my[g].previous
      /\ \A w \in Workers : pc'[w] = pc[w]
  BY EndsThreads DEF RollBack
<1>4. WorkerOK' /\ (Running' <=> Running)
  BY <1>3 DEF WorkerOK, Running, Alive
<1>5. my'[h].job \notin Switching
  BY <1>3 DEF Rest, Job, Switching
<1>6. ASSUME Orderly
      PROVE  Orderly'
  <2>1. OneSaver' /\ SwitcherAlone'
    BY <1>3, <1>5, <1>6 DEF Orderly, OneSaver, SwitcherAlone
  <2>2. AtSwitch(h) /\ \A g \in Handlers : g # h => pc[g] # "saving" /\ AtSwitch(g)
    BY <1>1, <1>6 DEF Orderly, OneSaver
  <2>3. my[h].job # "switch" => config'.enabled = config.enabled
    BY <1>1, <1>2, <2>2 DEF AtSwitch
  <2>4. ((\A g \in Handlers : my[g].job \notin Switching) => (config.enabled <=> Running))'
    <3> SUFFICES ASSUME \A g \in Handlers : my'[g].job \notin Switching
                 PROVE  config'.enabled <=> Running'
      OBVIOUS
    <3>1. CASE my[h].job \in Switching
      BY <1>1, <1>2, <1>4, <2>2, <3>1 DEF AtSwitch
    <3>2. CASE my[h].job \notin Switching
      BY <1>3, <1>4, <1>6, <2>3, <3>2 DEF Orderly, Switching
    <3> QED  BY <3>1, <3>2
  <2>5. (stopping /\ worker # Nobody => \E g \in Handlers : pc[g] = "join")'
    BY <1>1, <1>3, <1>6 DEF Orderly
  <2>6. AtSwitch(h)'
    BY <1>3 DEF AtSwitch
  <2>7. ASSUME NEW g \in Handlers, g # h
        PROVE  AtSwitch(g)'
    <3>1. pc[g] \in SwitchSteps => my[g].job \in Switching
      BY Switchers
    <3>2. CASE pc[g] \in SwitchSteps
      <4>1. my[h].job \notin Switching
        BY <1>6, <2>7, <3>1, <3>2 DEF Orderly, SwitcherAlone
      <4>2. config'.enabled = config.enabled
        BY <2>3, <4>1 DEF Switching
      <4> QED  BY <1>3, <2>2, <2>7, <4>2 DEF AtSwitch
    <3>3. CASE pc[g] \notin SwitchSteps
      BY <1>3, <2>2, <2>7, <3>3 DEF AtSwitch, SwitchSteps
    <3> QED  BY <3>2, <3>3
  <2> QED  BY <2>1, <2>4, <2>5, <2>6, <2>7 DEF Orderly
<1> QED  BY <1>1, <1>4, <1>6

(* The threads after a handler has left the switch. *)
LEMMA LeavesThreads ==
  ASSUME Typed, NEW h \in Handlers, Ends(h)
  PROVE  /\ pc'[h] = "idle" /\ my'[h] = Rest
         /\ \A g \in Handlers : g # h => pc'[g] = pc[g] /\ my'[g] = my[g]
         /\ \A w \in Workers : pc'[w] = pc[w]
<1>1. /\ DOMAIN pc = Actors /\ DOMAIN my = Handlers /\ Handlers \cap Workers = {} /\ Actors = Handlers \cup Workers
  BY AutoDumpingAssumption DEF Typed, ThreadsOK, Actors
<1>2. pc' = [pc EXCEPT ![h] = "idle"] /\ my' = [my EXCEPT ![h] = Rest]
  BY DEF Ends, Goto
<1> QED  BY <1>1, <1>2

(* While a handler is alone at the switch, what it does there leaves the others in order. *)
LEMMA OthersAtSwitch ==
  ASSUME Typed, Orderly, NEW h \in Handlers, my[h].job \in Switching, config' = config,
         NEW g \in Handlers, g # h, pc'[g] = pc[g], my'[g] = my[g]
  PROVE  AtSwitch(g)'
<1>1. AtSwitch(g) /\ my[g].job \notin Switching
  BY DEF Orderly, SwitcherAlone
<1>2. pc[g] \notin SwitchSteps
  BY <1>1, Switchers
<1> QED  BY <1>1, <1>2 DEF AtSwitch, SwitchSteps

(* A handler that goes on at the switch is still the only one there. *)
LEMMA WorkGoes ==
  ASSUME Typed, Orderly, NEW h \in Handlers, my[h].job \in Switching, NEW s, Goto(h, s), UNCHANGED my, config' = config,
         s # "saving", AtSwitch(h)', (stopping /\ worker # Nobody => s = "join" \/ \E g \in Handlers : pc[g] = "join" /\ g # h)'
  PROVE  Orderly'
<1>1. pc'[h] = s /\ \A g \in Handlers : g # h => pc'[g] = pc[g]
  BY GoesThreads
<1>2. OneSaver' /\ SwitcherAlone'
  BY <1>1 DEF Orderly, OneSaver, SwitcherAlone
<1>3. \A g \in Handlers : g # h => AtSwitch(g)'
  BY <1>1, OthersAtSwitch
<1> QED  BY <1>1, <1>2, <1>3 DEF Orderly

(* And one that leaves it must leave the worker as auto-dumping is. *)
LEMMA WorkLeaves ==
  ASSUME Typed, Orderly, NEW h \in Handlers, my[h].job \in Switching, config' = config,
         pc'[h] = "idle", my'[h] = Rest, \A g \in Handlers : g # h => pc'[g] = pc[g] /\ my'[g] = my[g],
         config.enabled <=> Running', (~(stopping /\ worker # Nobody))'
  PROVE  Orderly'
<1>1. OneSaver' /\ SwitcherAlone'
  BY DEF Orderly, OneSaver, SwitcherAlone, Rest, Job, Switching
<1>2. \A g \in Handlers : g # h => AtSwitch(g)'
  BY OthersAtSwitch
<1>3. AtSwitch(h)'
  BY DEF AtSwitch
<1> QED  BY <1>1, <1>2, <1>3 DEF Orderly

(* The steps at the switch leave the order. *)
LEMMA WorkDrives ==
  ASSUME Typed, WorkerOK, overlap = {} => Orderly, NEW h \in Handlers, Drives(h)
  PROVE  WorkerOK' /\ (overlap' = {} => Orderly')
<1>1. UNCHANGED overlap /\ config' = config
  BY DEF Drives, SwitchSaved, Written, StopScheduler, Joined, StartScheduler, Spawn, settings, scheduler, config
<1>2. pc[h] \in SwitchSteps => my[h].job \in Switching
  BY Switchers
<1>3. ASSUME NEW g \in Handlers, pc[g] = "join", my[h].job \in Switching, g # h, Orderly
      PROVE  FALSE
  <2>1. my[g].job \in Switching
    BY <1>3, Switchers DEF SwitchSteps
  <2> QED  BY <1>3, <2>1 DEF Orderly, SwitcherAlone
<1>4. CASE SwitchSaved(h)
  <2>1. UNCHANGED <<my, stopping, worker>> /\ my[h].job \in Switching /\ pc[h] = "saving"
    BY <1>4 DEF SwitchSaved, Written, scheduler
  <2>2. PICK s \in {"start", "stop"} :
          Goto(h, s) /\ (s = "start" => config.enabled) /\ (s = "stop" /\ my[h].job = "switch" => ~config.enabled)
    BY <1>4 DEF SwitchSaved
  <2>3. pc'[h] = s /\ \A w \in Workers : pc'[w] = pc[w]
    BY <2>1, <2>2, GoesThreads
  <2>4. WorkerOK'
    BY <2>1, <2>3 DEF WorkerOK, Alive
  <2>5. AtSwitch(h)'
    BY <1>1, <2>1, <2>2, <2>3 DEF AtSwitch
  <2>6. ASSUME Orderly
        PROVE  (stopping /\ worker # Nobody => s = "join" \/ \E g \in Handlers : pc[g] = "join" /\ g # h)'
    <3>1. stopping' /\ worker' # Nobody => \E g \in Handlers : pc[g] = "join" /\ g # h
      BY <2>1, <2>6 DEF Orderly
    <3> QED  BY <1>3, <2>1, <2>6, <3>1
  <2>7. ASSUME Orderly
        PROVE  Orderly'
    <3>1. s # "saving"
      BY <2>2
    <3> QED  BY <1>1, <2>1, <2>2, <2>5, <2>6, <2>7, <3>1, WorkGoes
  <2> QED  BY <1>1, <2>4, <2>7
<1>5. CASE StopScheduler(h)
  <2>1. Goto(h, "join") /\ UNCHANGED <<my, worker>> /\ stopping' = TRUE /\ pc[h] = "stop" /\ my[h].job \in Switching
    BY <1>2, <1>5 DEF StopScheduler, SwitchSteps
  <2>2. pc'[h] = "join" /\ \A w \in Workers : pc'[w] = pc[w]
    BY <2>1, GoesThreads
  <2>3. WorkerOK'
    BY <2>1, <2>2 DEF WorkerOK
  <2>4. ASSUME Orderly
        PROVE  Orderly'
    <3>1. AtSwitch(h)'
      BY <1>1, <2>1, <2>2, <2>4 DEF AtSwitch, Orderly
    <3> QED  BY <1>1, <2>1, <2>4, <3>1, WorkGoes
  <2> QED  BY <1>1, <2>3, <2>4
<1>6. CASE Joined(h)
  <2>1. worker' = Nobody /\ UNCHANGED stopping /\ pc[h] = "join" /\ my[h].job \in Switching
    BY <1>2, <1>6 DEF Joined, SwitchSteps
  <2>2. WorkerOK'
    BY <2>1 DEF WorkerOK
  <2>3. ASSUME Orderly
        PROVE  Orderly'
    <3>1. CASE my[h].job = "interval" /\ config.enabled /\ Goto(h, "start") /\ UNCHANGED my
      <4>1. pc'[h] = "start"
        BY <3>1, GoesThreads
      <4>2. AtSwitch(h)'
        BY <1>1, <3>1, <4>1 DEF AtSwitch
      <4> QED  BY <1>1, <2>1, <2>3, <3>1, <4>2, WorkGoes
    <3>2. CASE ~(my[h].job = "interval" /\ config.enabled) /\ Ends(h)
      <4>1. ~config.enabled /\ ~Running'
        BY <2>1, <2>3, <3>2 DEF Orderly, AtSwitch, Switching, Running
      <4>2. /\ pc'[h] = "idle" /\ my'[h] = Rest
            /\ \A g \in Handlers : g # h => pc'[g] = pc[g] /\ my'[g] = my[g]
        BY <3>2, LeavesThreads
      <4> QED  BY <1>1, <2>1, <2>3, <4>1, <4>2, WorkLeaves
    <3> QED  BY <1>6, <3>1, <3>2 DEF Joined
  <2> QED  BY <1>1, <2>2, <2>3
<1>7. CASE StartScheduler(h)
  <2>1. UNCHANGED <<stopping, worker>> /\ pc[h] = "start" /\ my[h].job \in Switching
    BY <1>2, <1>7 DEF StartScheduler, SwitchSteps, scheduler
  <2>2. CASE worker # Nobody /\ Alive(worker) /\ Ends(h)
    <3>1. /\ pc'[h] = "idle" /\ my'[h] = Rest
          /\ \A g \in Handlers : g # h => pc'[g] = pc[g] /\ my'[g] = my[g]
          /\ \A w \in Workers : pc'[w] = pc[w]
      BY <2>2, LeavesThreads
    <3>2. WorkerOK' /\ Alive(worker)' /\ worker' # Nobody
      BY <2>1, <2>2, <3>1 DEF WorkerOK, Alive
    <3>3. ASSUME Orderly
          PROVE  Orderly'
      <4>1. ~stopping
        BY <1>3, <2>1, <2>2, <3>3 DEF Orderly
      <4>2. config.enabled /\ Running'
        BY <2>1, <3>2, <3>3, <4>1 DEF Orderly, AtSwitch, Running
      <4> QED  BY <1>1, <2>1, <3>1, <3>3, <4>1, <4>2, WorkLeaves
    <3> QED  BY <1>1, <3>2, <3>3
  <2>3. CASE Goto(h, "spawn") /\ UNCHANGED my
    <3>1. pc'[h] = "spawn" /\ \A w \in Workers : pc'[w] = pc[w]
      BY <2>3, GoesThreads
    <3>2. WorkerOK'
      BY <2>1, <3>1 DEF WorkerOK, Alive
    <3>3. ASSUME Orderly
          PROVE  Orderly'
      <4>1. AtSwitch(h)'
        BY <1>1, <2>1, <2>3, <3>1, <3>3 DEF AtSwitch, Orderly
      <4>2. stopping' /\ worker' # Nobody => \E g \in Handlers : pc[g] = "join" /\ g # h
        BY <2>1, <3>3 DEF Orderly
      <4>3. ~(stopping' /\ worker' # Nobody)
        BY <1>3, <2>1, <3>3, <4>2
      <4> QED  BY <1>1, <2>1, <2>3, <3>3, <4>1, <4>3, WorkGoes
    <3> QED  BY <1>1, <3>2, <3>3
  <2> QED  BY <1>7, <2>2, <2>3 DEF StartScheduler
<1>8. CASE Spawn(h)
  <2>1. stopping' = FALSE /\ pc[h] = "spawn" /\ my[h].job \in Switching
    BY <1>2, <1>8 DEF Spawn, SwitchSteps
  <2>2. /\ pc'[h] = "idle" /\ my'[h] = Rest
        /\ \A g \in Handlers : g # h => pc'[g] = pc[g] /\ my'[g] = my[g]
        /\ worker' \in Workers /\ pc'[worker'] = "loop"
    BY <1>8, SpawnThreads
  <2>3. WorkerOK' /\ Running'
    BY <2>1, <2>2, AutoDumpingAssumption DEF WorkerOK, Running, Alive
  <2>4. ASSUME Orderly
        PROVE  Orderly'
    <3>1. config.enabled
      BY <2>1, <2>4 DEF Orderly, AtSwitch
    <3> QED  BY <1>1, <2>1, <2>2, <2>3, <2>4, <3>1, WorkLeaves
  <2> QED  BY <1>1, <2>3, <2>4
<1> QED  BY <1>4, <1>5, <1>6, <1>7, <1>8 DEF Drives

(* A worker that is woken leaves the order: it ends only when the event is set. *)
LEMMA WorkLoops ==
  ASSUME Typed, WorkerOK, overlap = {} => Orderly, NEW w \in Workers, WorkerLoops(w)
  PROVE  WorkerOK' /\ (overlap' = {} => Orderly')
<1>1. UNCHANGED <<overlap, stopping, worker>> /\ config' = config /\ pc[w] = "loop"
  BY DEF WorkerLoops, settings, config
<1>2. /\ \A g \in Handlers : pc'[g] = pc[g] /\ my'[g] = my[g]
      /\ \A x \in Workers : x # w => pc'[x] = pc[x]
      /\ pc'[w] = IF stopping THEN "ended" ELSE "begin"
  BY LoopsThreads
<1>3. ~stopping => \A x \in Workers : Alive(x)' <=> Alive(x)
  BY <1>1, <1>2 DEF Alive
<1>4. WorkerOK' /\ (Running' <=> Running)
  BY <1>1, <1>3 DEF WorkerOK, Running
<1>5. ASSUME Orderly
      PROVE  Orderly'
  <2>1. OneSaver' /\ SwitcherAlone'
    BY <1>2, <1>5 DEF Orderly, OneSaver, SwitcherAlone
  <2>2. \A g \in Handlers : AtSwitch(g)'
    BY <1>1, <1>2, <1>4, <1>5 DEF Orderly, AtSwitch
  <2> QED  BY <1>1, <1>2, <1>4, <1>5, <2>1, <2>2 DEF Orderly
<1> QED  BY <1>1, <1>4, <1>5

(* A fresh process is in order. *)
LEMMA WorkBoots ==
  ASSUME NEW c, c.enabled \in BOOLEAN, config' = c, stopping' = ~c.enabled, worker' = BootWorker(c), pc' = BootPC(c),
         my' = [h \in Handlers |-> Rest]
  PROVE  WorkerOK' /\ Orderly'
<1>1. FirstWorker \in Workers /\ FirstWorker \in Actors /\ FirstWorker \notin Handlers /\ FirstWorker # Nobody
  BY AutoDumpingAssumption DEF FirstWorker, Actors
<1>2. \A h \in Handlers : pc'[h] = "idle" /\ my'[h] = Rest /\ my'[h].job = "none"
  BY DEF BootPC, Actors, Rest, Job
<1>3. c.enabled => worker' = FirstWorker /\ pc'[FirstWorker] = "loop"
  BY <1>1 DEF BootPC, BootWorker
<1>4. ~c.enabled => worker' = Nobody
  BY DEF BootWorker
<1>5. WorkerOK' /\ (Running' <=> c.enabled)
  BY <1>1, <1>3, <1>4 DEF WorkerOK, Running, Alive
<1> QED  BY <1>2, <1>4, <1>5 DEF Orderly, OneSaver, SwitcherAlone, AtSwitch, Switching

(* Every step leaves the order. *)
LEMMA WorkStep ==
  ASSUME Typed, Typed', WorkerOK, overlap = {} => Orderly, AdminNext
  PROVE  WorkerOK' /\ (overlap' = {} => Orderly')
<1>1. CASE Aside
  BY <1>1, WorkAside
<1>2. ASSUME NEW h \in Handlers, (Updates(h) \/ Writes(h) \/ RollBack(h)) /\ UNCHANGED <<stopping, worker>>
      PROVE  WorkerOK' /\ (overlap' = {} => Orderly')
  BY <1>2, WorkUpdates, WorkWrites, WorkRollBack
<1>3. ASSUME NEW h \in Handlers, Drives(h)
      PROVE  WorkerOK' /\ (overlap' = {} => Orderly')
  BY <1>3, WorkDrives
<1>4. ASSUME NEW w \in Workers, WorkerLoops(w)
      PROVE  WorkerOK' /\ (overlap' = {} => Orderly')
  BY <1>4, WorkLoops
<1>5. CASE Restart
  <2> DEFINE c == heap'[1]
  <2>1. /\ current' = 1 /\ stopping' = ~c.enabled /\ worker' = BootWorker(c) /\ pc' = BootPC(c)
        /\ my' = [h \in Handlers |-> Rest]
    BY <1>5 DEF Restart
  <2>2. config' = c
    BY <2>1 DEF config
  <2>3. c.enabled \in BOOLEAN
    <3>1. heap' \in Seq(Config) /\ 1 \in 1..Len(heap')
      BY <2>1 DEF Typed, StoreOK
    <3>2. c \in Config
      BY <3>1, ElementOfSeq
    <3> QED  BY <3>2 DEF Config
  <2> HIDE DEF c
  <2> QED  BY <2>1, <2>2, <2>3, WorkBoots
<1> QED  BY <1>1, <1>2, <1>3, <1>4, <1>5, StepKinds DEF Kinds

(* A fresh process is in order. *)
LEMMA WorkInit ==
  ASSUME AdminInit
  PROVE  WorkerOK /\ Orderly
<1>1. Typed
  BY TypedInit
<1>2. config.enabled \in BOOLEAN
  BY <1>1, EnabledType
<1>3. /\ pc = BootPC(config) /\ my = [h \in Handlers |-> Rest]
      /\ worker = BootWorker(config) /\ stopping = ~config.enabled
  <2>1. PICK s \in Scenarios :
          /\ stopping = ~s.enabled /\ current = 1
          /\ heap = <<[enabled |-> s.enabled, rules |-> s.rules, templates |-> s.templates, gist |-> s.gist,
                     status |-> CHOOSE x \in Statuses : TRUE,
                     responses |-> [x \in Statuses |-> Blank],
                     auto |-> [x \in Statuses |-> [enabled |-> FALSE, text |-> Blank]]]>>
    BY DEF AdminInit, Init
  <2>2. config.enabled = s.enabled
    BY <2>1 DEF config
  <2> QED  BY <2>1, <2>2 DEF AdminInit, Init
<1>4. FirstWorker \in Workers /\ FirstWorker \in Actors /\ FirstWorker \notin Handlers /\ FirstWorker # Nobody
  BY AutoDumpingAssumption DEF FirstWorker, Actors
<1>5. \A h \in Handlers : pc[h] = "idle" /\ my[h] = Rest /\ my[h].job = "none"
  BY <1>3 DEF BootPC, Actors, Rest, Job
<1>6. config.enabled => worker = FirstWorker /\ pc[FirstWorker] = "loop"
  BY <1>3, <1>4 DEF BootPC, BootWorker
<1>7. ~config.enabled => worker = Nobody
  BY <1>3 DEF BootWorker
<1>8. WorkerOK /\ (Running <=> config.enabled)
  BY <1>2, <1>3, <1>4, <1>6, <1>7 DEF WorkerOK, Running, Alive
<1> QED  BY <1>3, <1>5, <1>7, <1>8 DEF Orderly, OneSaver, SwitcherAlone, AtSwitch, Switching

(* A step that changes nothing leaves the order. *)
LEMMA WorkStutter ==
  ASSUME WorkerOK, overlap = {} => Orderly, UNCHANGED adminVars
  PROVE  WorkerOK' /\ (overlap' = {} => Orderly')
<1>1. UNCHANGED <<heap, current, overlap, pc, my, worker, stopping>> /\ config' = config
  BY DEF adminVars, vars, panelVars, settings, scheduler, config
<1> QED  BY <1>1 DEF WorkerOK, Orderly, OneSaver, SwitcherAlone, AtSwitch, Alive, Running

(* The worker is in order always, unless two crossed. *)
LEMMA WorkInvariant == AdminSpec => [](WorkerOK /\ (overlap = {} => Orderly))
<1> DEFINE I == WorkerOK /\ (overlap = {} => Orderly)
<1>1. AdminInit => I
  BY WorkInit
<1>2. Typed /\ Typed' /\ I /\ [AdminNext]_adminVars => I'
  BY WorkStep, WorkStutter
<1> HIDE DEF I
<1>3. AdminSpec => []I
  BY <1>1, <1>2, TypedInvariant, PTL DEF AdminSpec, adminVars
<1> QED  BY <1>3 DEF I

(* With nobody at the switch a worker that goes on is there exactly when auto-dumping is on, unless two *)
(* were at the switch at once: stop, join, start and spawn of AutoDumpingScheduler, and the saves and  *)
(* rollbacks of the handlers that drive it. *)
THEOREM WorkersAsSwitchedAlways == AdminSpec => []WorkersAsSwitched
<1>1. WorkerOK /\ (overlap = {} => Orderly) => WorkersAsSwitched
  BY DEF Orderly, WorkersAsSwitched, Running
<1> QED  BY <1>1, WorkInvariant, PTL

(* Steps of the gist command and of a cycle, which the panels do not take. *)
Away == AskSteps \cup {"send"} \cup CycleSteps

(* No thread comes to a step of S or leaves one, and what a handler there is doing stays. *)
Undisturbed(S) ==
  /\ \A a \in Actors : pc[a] \in S \/ pc'[a] \in S => pc'[a] = pc[a]
  /\ \A g \in Handlers : pc[g] \in S => my'[g].job = my[g].job /\ my'[g].on = my[g].on

(* No worker takes a step of its own; one that is not there may be started. *)
WorkersStay == \A w \in Workers : pc'[w] = pc[w] \/ (pc[w] \in {"unborn", "ended"} /\ pc'[w] = "loop")

(* A handler takes a step that is not of S, from one that is not. *)
Turns(h, S) == \E s, v : Acts(h, s, v) /\ pc[h] \notin S /\ s \notin S

(* A step of a handler away from S disturbs nobody there. *)
LEMMA TurnsUndisturbed ==
  ASSUME Typed, NEW h \in Handlers, NEW S, Turns(h, S)
  PROVE  Undisturbed(S) /\ WorkersStay
<1>1. PICK s, v : Acts(h, s, v) /\ pc[h] \notin S /\ s \notin S
  BY DEF Turns
<1>2. ThreadsOK
  BY DEF Typed
<1>3. /\ pc'[h] = s /\ \A w \in Workers : pc'[w] = pc[w]
      /\ \A g \in Handlers : g # h => pc'[g] = pc[g] /\ my'[g].job = my[g].job /\ my'[g].on = my[g].on
  BY <1>1, <1>2, ActsProperties
<1> QED  BY <1>1, <1>3 DEF Undisturbed, WorkersStay, Actors

(* Nor does a step of no thread. *)
LEMMA StillUndisturbed ==
  ASSUME NEW S, UNCHANGED <<pc, my>>
  PROVE  Undisturbed(S) /\ WorkersStay
BY DEF Undisturbed, WorkersStay

(* The steps of the panels and of the switch are not in S. *)
Panels == {"idle", "change", "saving", "begin"} \cup SwitchSteps

(* The steps of the panels are away from those of the gist command and of the cycles. *)
LEMMA PanelsAway ==
  /\ Panels \cap Away = {} /\ {"unborn", "loop", "ended"} \cap Away = {}
BY DEF Panels, SwitchSteps, Away, AskSteps, CycleSteps

(* A handler of the panels that ends. *)
LEMMA EndsTurns ==
  ASSUME NEW h \in Handlers, Ends(h), pc[h] \in Panels
  PROVE  Turns(h, Away)
<1>1. Acts(h, "idle", Rest)
  BY DEF Ends, Acts
<1> QED  BY <1>1, PanelsAway DEF Turns, Panels

(* A handler of the panels that begins. *)
LEMMA BeginsTurns ==
  ASSUME NEW h \in Handlers, NEW v, NEW s \in Panels, Begin(h, v, s)
  PROVE  Turns(h, Away)
<1>1. Acts(h, s, v) /\ pc[h] = "idle"
  BY DEF Begin, Acts
<1> QED  BY <1>1, PanelsAway DEF Turns, Panels

(* A save is a turn of the panels. *)
LEMMA UpdatesTurns ==
  ASSUME Typed, NEW h \in Handlers, Updates(h)
  PROVE  Turns(h, Away)
<1>1. PICK job, new : UpdatesAs(h, job, new)
  BY DEF Updates
<1>2. Acts(h, "saving", Dumped(job, new))
  BY <1>1, UpdatesActs
<1>3. pc[h] \in {"idle", "change"}
  BY <1>1 DEF UpdatesAs
<1> QED  BY <1>2, <1>3, PanelsAway DEF Turns, Panels

(* So are its end and its rollback. *)
LEMMA WritesTurns ==
  ASSUME NEW h \in Handlers, Writes(h) \/ RollBack(h)
  PROVE  Turns(h, Away)
<1>1. Acts(h, "idle", Rest) /\ pc[h] = "saving"
  BY DEF Writes, Written, Ends, RollBack, Acts
<1> QED  BY <1>1, PanelsAway DEF Turns, Panels

(* The switch disturbs neither the gist command nor the cycles. *)
LEMMA DrivesUndisturbed ==
  ASSUME Typed, NEW h \in Handlers, Drives(h)
  PROVE  Undisturbed(Away) /\ WorkersStay
<1>1. pc[h] \in Panels
  BY DEF Drives, SwitchSaved, Written, StopScheduler, Joined, StartScheduler, Spawn, Panels, SwitchSteps
<1>2. CASE Spawn(h)
  <2>1. PICK w \in Workers : ~Alive(w) /\ pc' = [pc EXCEPT ![h] = "idle", ![w] = "loop"]
    BY <1>2 DEF Spawn
  <2>2. DOMAIN pc = Actors /\ h \in Actors /\ w \in Actors /\ h # w
    BY AutoDumpingAssumption DEF Typed, ThreadsOK, Actors
  <2>3. pc'[h] = "idle" /\ pc'[w] = "loop" /\ \A a \in Actors : a # h /\ a # w => pc'[a] = pc[a]
    BY <2>1, <2>2
  <2>4. pc[w] \in {"unborn", "ended"}
    BY <2>1 DEF Alive
  <2>5. \A g \in Handlers : g # h => my'[g] = my[g]
    BY <1>2, SpawnThreads
  <2>6. Undisturbed(Away)
    BY <1>1, <2>3, <2>4, <2>5, PanelsAway DEF Undisturbed, Panels
  <2>7. WorkersStay
    BY <2>3, <2>4, AutoDumpingAssumption DEF WorkersStay, Actors
  <2> QED  BY <2>6, <2>7
<1>3. CASE Ends(h)
  BY <1>1, <1>3, EndsTurns, TurnsUndisturbed
<1>4. CASE UNCHANGED my /\ \E s \in SwitchSteps : Goto(h, s)
  <2>1. PICK s \in SwitchSteps : Goto(h, s)
    BY <1>4
  <2>2. Acts(h, s, my[h]) /\ s \in Panels
    BY <1>4, <2>1 DEF Acts, Panels
  <2>3. Turns(h, Away)
    BY <1>1, <2>2, PanelsAway DEF Turns
  <2> QED  BY <2>3, TurnsUndisturbed
<1> QED  BY <1>2, <1>3, <1>4 DEF Drives, SwitchSaved, StopScheduler, Joined, StartScheduler, SwitchSteps

(* Nor does a worker that is woken. *)
LEMMA LoopsUndisturbed ==
  ASSUME Typed, NEW w \in Workers, WorkerLoops(w)
  PROVE  Undisturbed(Away)
<1>1. /\ \A g \in Handlers : pc'[g] = pc[g] /\ my'[g] = my[g]
      /\ \A x \in Workers : x # w => pc'[x] = pc[x]
      /\ pc'[w] = IF stopping THEN "ended" ELSE "begin"
  BY LoopsThreads
<1>2. pc[w] = "loop"
  BY DEF WorkerLoops
<1> QED  BY <1>1, <1>2, PanelsAway DEF Undisturbed, Actors, Panels

(* Nor do the steps of the settings. *)
LEMMA SettingsUndisturbed ==
  ASSUME Typed, SettingsStep, UNCHANGED <<astray, stopping, worker>>
  PROVE  Undisturbed(Away) /\ WorkersStay
<1>1. ASSUME NEW u \in Users, StartTemplate(u) \/ EditTemplate(u) \/ AnswerTitle(u) \/ EditStatus(u)
      PROVE  Undisturbed(Away) /\ WorkersStay
  BY <1>1, StillUndisturbed DEF StartTemplate, EditTemplate, AnswerTitle, EditStatus
<1>2. ASSUME NEW h \in Handlers, NEW u \in Users, AnswerEdit(h, u)
      PROVE  Undisturbed(Away) /\ WorkersStay
  <2>1. UNCHANGED <<pc, my>> \/ \E v : Begin(h, v, "change")
    BY <1>2 DEF AnswerEdit
  <2> QED  BY <2>1, StillUndisturbed, BeginsTurns, TurnsUndisturbed DEF Panels
<1>3. ASSUME NEW h \in Handlers, NEW u \in Users, ConfirmDelete(h, u)
      PROVE  Undisturbed(Away) /\ WorkersStay
  <2>1. \E v : Begin(h, v, "change")
    BY <1>3 DEF ConfirmDelete
  <2> QED  BY <2>1, BeginsTurns, TurnsUndisturbed DEF Panels
<1>4. ASSUME NEW h \in Handlers, NEW u \in Users, AnswerText(h, u) \/ SetStatus(h, u) \/ AnswerStatus(h, u)
      PROVE  Undisturbed(Away) /\ WorkersStay
  BY <1>4, AnswerTextSaves, SetStatusSaves, AnswerStatusSaves, UpdatesTurns, TurnsUndisturbed
<1>5. ASSUME NEW h \in Handlers, ChangeTemplate(h)
      PROVE  Undisturbed(Away) /\ WorkersStay
  <2>1. pc[h] \in Panels
    BY <1>5 DEF ChangeTemplate, Panels
  <2> QED  BY <1>5, <2>1, ChangeTemplateSaves, UpdatesTurns, EndsTurns, TurnsUndisturbed DEF Stops
<1>6. ASSUME NEW h \in Handlers, TemplateSaved(h) \/ RollBack(h)
      PROVE  Undisturbed(Away) /\ WorkersStay
  BY <1>6, SavedWrites, WritesTurns, TurnsUndisturbed
<1> QED  BY <1>1, <1>2, <1>3, <1>4, <1>5, <1>6 DEF SettingsStep

(* Nor does the panel of the rules. *)
LEMMA PanelUndisturbed ==
  ASSUME Typed, PanelStep, UNCHANGED <<stopping, worker>>
  PROVE  Undisturbed(Away) /\ WorkersStay
<1>1. ASSUME NEW u \in Users, \/ ShowRules(u) \/ ShowRule(u) \/ ShowList(u)
                              \/ AddRule(u) \/ AnswerStep(u) \/ TapStep(u) \/ Cancel(u)
      PROVE  Undisturbed(Away) /\ WorkersStay
  BY <1>1, StillUndisturbed DEF ShowRules, ShowRule, ShowList, AddRule, AnswerStep, TapStep, Cancel, Look
<1>2. ASSUME NEW h \in Handlers, NEW u \in Users, TapRule(h, u)
      PROVE  Undisturbed(Away) /\ WorkersStay
  <2>1. UNCHANGED <<pc, my>> \/ \E v : Begin(h, v, "change")
    BY <1>2 DEF TapRule
  <2> QED  BY <2>1, StillUndisturbed, BeginsTurns, TurnsUndisturbed DEF Panels
<1>3. ASSUME NEW h \in Handlers, NEW u \in Users, AnswerWords(h, u)
      PROVE  Undisturbed(Away) /\ WorkersStay
  <2>1. UNCHANGED <<pc, my>> \/ \E v : Begin(h, v, "change")
    BY <1>3 DEF AnswerWords
  <2> QED  BY <2>1, StillUndisturbed, BeginsTurns, TurnsUndisturbed DEF Panels
<1>4. ASSUME NEW h \in Handlers, NEW u \in Users, ConfirmRule(h, u)
      PROVE  Undisturbed(Away) /\ WorkersStay
  BY <1>4, ConfirmRuleSaves, StillUndisturbed, UpdatesTurns, TurnsUndisturbed
<1>5. ASSUME NEW h \in Handlers, ToggleRule(h) \/ DeleteRule(h) \/ RemoveWord(h) \/ StoreWords(h)
      PROVE  Undisturbed(Away) /\ WorkersStay
  <2>1. Updates(h) \/ Stops(h)
    BY <1>5, ToggleRuleSaves, DeleteRuleSaves, RemoveWordSaves, StoreWordsSaves
  <2>2. pc[h] \in Panels
    BY <1>5 DEF ToggleRule, DeleteRule, RemoveWord, StoreWords, Panels
  <2> QED  BY <2>1, <2>2, UpdatesTurns, EndsTurns, TurnsUndisturbed DEF Stops
<1>6. ASSUME NEW h \in Handlers, RuleSaved(h)
      PROVE  Undisturbed(Away) /\ WorkersStay
  <2>1. UNCHANGED astray
    BY <1>6 DEF RuleSaved
  <2> QED  BY <1>6, <2>1, SavedWrites, WritesTurns, TurnsUndisturbed
<1>7. ASSUME NEW h \in Handlers, AskWords(h)
      PROVE  Undisturbed(Away) /\ WorkersStay
  <2>1. Ends(h) /\ pc[h] \in Panels
    BY <1>7 DEF AskWords, Panels
  <2> QED  BY <1>7, <2>1, EndsTurns, TurnsUndisturbed DEF AskWords
<1> QED  BY <1>1, <1>2, <1>3, <1>4, <1>5, <1>6, <1>7 DEF PanelStep

(* What a thread does in a cycle. *)
Cycles(a) ==
  \/ CycleBegins(a) \/ CycleReads(a) \/ ReadFails(a) \/ ConsiderLot(a)
  \/ UpdatePrice(a) \/ UpdateFails(a) \/ Record(a) \/ Tell(a) \/ FinishCycle(a)

(* Nor does any step of auto-dumping that is not of a cycle. *)
LEMMA StepUndisturbed ==
  ASSUME Typed, Step, \A a \in Actors : ~Cycles(a)
  PROVE  Undisturbed(Away) /\ (WorkersStay \/ \E w \in Workers : WorkerLoops(w))
<1>1. CASE SettingsStep /\ UNCHANGED <<pages, astray, scheduler, cycle, price, profile, storage, history>>
  BY <1>1, SettingsUndisturbed DEF scheduler
<1>2. CASE PanelStep /\ UNCHANGED <<scheduler, cycle, price, profile, storage, history>>
  BY <1>2, PanelUndisturbed DEF scheduler
<1>3. CASE (\E u \in Users : AskInterval(u)) \/ PriceMoves \/ ProfileRefreshes
  BY <1>3, StillUndisturbed DEF AskInterval, PriceMoves, ProfileRefreshes, marketElsewhere
<1>4. ASSUME NEW h \in Handlers, NEW u \in Users, Switch(h, u) \/ SetInterval(h, u)
      PROVE  Undisturbed(Away) /\ WorkersStay
  BY <1>4, SwitchSaves, SetIntervalSaves, UpdatesTurns, TurnsUndisturbed
<1>5. ASSUME NEW h \in Handlers, NEW u \in Users, RunNow(h, u)
      PROVE  Undisturbed(Away) /\ WorkersStay
  <2>1. \E v : Begin(h, v, "begin")
    BY <1>5 DEF RunNow
  <2> QED  BY <2>1, BeginsTurns, TurnsUndisturbed DEF Panels
<1>6. ASSUME NEW h \in Handlers, SwitchSaved(h) \/ StopScheduler(h) \/ Joined(h) \/ StartScheduler(h) \/ Spawn(h)
      PROVE  Undisturbed(Away) /\ WorkersStay
  BY <1>6, DrivesUndisturbed DEF Drives
<1>7. ASSUME NEW w \in Workers, WorkerLoops(w)
      PROVE  Undisturbed(Away)
  BY <1>7, LoopsUndisturbed
<1> QED  BY <1>1, <1>2, <1>3, <1>4, <1>5, <1>6, <1>7 DEF Step, Cycles

(* A cycle leaves the gist command alone. *)
GistSteps == AskSteps \cup {"send"}

(* No step of a cycle is one of the gist command. *)
LEMMA CycleUndisturbed ==
  ASSUME Typed, NEW a \in Actors, Cycles(a)
  PROVE  Undisturbed(GistSteps)
<1>1. pc[a] \in {"begin"} \cup CycleSteps
  BY DEF Cycles, CycleBegins, CycleReads, ReadFails, ConsiderLot, UpdatePrice, UpdateFails, Record, Tell, FinishCycle,
     CycleSteps
<1>2. /\ \E s \in {"idle", "loop"} \cup CycleSteps : Goto(a, s)
      /\ my' = my \/ (a \in Handlers /\ my' = [my EXCEPT ![a] = Rest])
  <2>1. CASE CycleOver(a)
    BY <2>1, AutoDumpingAssumption DEF CycleOver, Actors
  <2>2. CASE UNCHANGED my /\ \E s \in CycleSteps : Goto(a, s)
    BY <2>2
  <2> QED  BY <2>1, <2>2 DEF Cycles, CycleBegins, CycleReads, ReadFails, ConsiderLot, UpdatePrice, UpdateFails, Record,
              Tell, FinishCycle, NextLot, CycleSteps
<1>3. PICK s \in {"idle", "loop"} \cup CycleSteps : Goto(a, s)
  BY <1>2
<1>4. DOMAIN pc = Actors /\ DOMAIN my = Handlers
  BY DEF Typed, ThreadsOK
<1>5. pc'[a] = s /\ \A b \in Actors : b # a => pc'[b] = pc[b]
  BY <1>3, <1>4 DEF Goto
<1>6. \A g \in Handlers : g # a => my'[g] = my[g]
  BY <1>2, <1>4
<1>7. pc[a] \notin GistSteps /\ s \notin GistSteps
  BY <1>1 DEF GistSteps, AskSteps, CycleSteps
<1> QED  BY <1>5, <1>6, <1>7 DEF Undisturbed

(* Who is not disturbed in more is not disturbed in less. *)
LEMMA LessUndisturbed ==
  ASSUME NEW S, NEW T, S \subseteq T, Undisturbed(T)
  PROVE  Undisturbed(S)
BY DEF Undisturbed

(* Nothing but the gist command touches the gist command. *)
LEMMA GistUndisturbed ==
  ASSUME Typed, Step
  PROVE  Undisturbed(GistSteps)
<1>1. CASE \A a \in Actors : ~Cycles(a)
  BY <1>1, StepUndisturbed, LessUndisturbed DEF Away, GistSteps
<1> QED  BY <1>1, CycleUndisturbed

(* What has happened to each command of /gist. *)
IsList(s)  == s \in Seq(ToSet(s))

(* No command occurs twice in it. *)
Once(s)    == \A i, j \in DOMAIN s : s[i].of = s[j].of => i = j

(* A command occurs in a set. *)
In(set, c) == \E x \in set : x.of = c

(* A gist was made for the command. *)
Made(c)    == In(ToSet(gists), c)

(* The command a handler is working for. *)
Of(h)      == my[h].on.of

(* The commands given so far. *)
Commands   == DOMAIN asked

(* The chat is that of the topic the command came from. *)
Suits(c, chat) == c \in Commands /\ asked[c] \in Topics /\ chat = ChatOf[asked[c]]

(* A command without a gist that was not cancelled, and one whose link may be sent. *)
Open(c)      == c \in Commands /\ ~Made(c) /\ c \notin declined

(* A command whose link may go to a chat. *)
Due(c, chat) == Made(c) /\ c \notin declined /\ Suits(c, chat)

(* A handler on its way to a gist. *)
Asking(h) == pc[h] \in AskSteps

(* What a thread on its way to a gist knows of the command. *)
Knows(h) ==
  /\ my[h].job = "gist" /\ pc[h] # "create" => my[h].on.topic = asked[Of(h)]
  /\ pc[h] = "orders" => Suits(Of(h), ChatOf[my[h].on.topic])
  /\ pc[h] = "create" \/ my[h].job = "select" => my[h].on.chat = Blank \/ Suits(Of(h), my[h].on.chat)

(* The history: one gist and one message for a command at most. *)
ListsOK ==
  /\ asked \in Seq(Topics \cup {Blank}) /\ declined \subseteq Commands
  /\ IsList(gists) /\ Once(gists) /\ IsList(sent) /\ Once(sent)
  /\ \A c : Made(c) => c \in Commands

(* One handler at most is on its way to the gist of a command, and no request waits for it. *)
AskingOK ==
  \A h \in Handlers : Asking(h) =>
    /\ Open(Of(h)) /\ Knows(h) /\ ~In(requests, Of(h))
    /\ \A g \in Handlers : Asking(g) /\ Of(g) = Of(h) => g = h

(* One request at most waits for a command. *)
RequestsOK ==
  \A r \in requests : Open(r.of) /\ Suits(r.of, r.chat) /\ \A q \in requests : q.of = r.of => q = r

(* One result at most waits for a command, and its link has not been sent. *)
ResultsOK ==
  \A r \in results :
    Due(r.of, r.chat) /\ ~In(ToSet(sent), r.of) /\ \A q \in results : q.of = r.of => q = r

(* One handler at most sends the link of a command, and no result waits for it. *)
SendingOK ==
  \A h \in Handlers : pc[h] = "send" =>
    /\ Due(Of(h), my[h].on.chat) /\ ~In(ToSet(sent), Of(h)) /\ ~In(results, Of(h))
    /\ \A g \in Handlers : pc[g] = "send" /\ Of(g) = Of(h) => g = h

(* What was sent was due. *)
SentOK == \A x \in ToSet(sent) : Due(x.of, x.chat)

(* Of a command one thing at most is under way: a handler on its way to the gist, a request, a result, a *)
(* handler that sends; and what was made or sent is over. *)
OneInv == ListsOK /\ AskingOK /\ RequestsOK /\ ResultsOK /\ SendingOK /\ SentOK

(* A list with one member more. *)
LEMMA ListAppended ==
  ASSUME NEW s, NEW e, IsList(s), NEW t, t = Append(s, e)
  PROVE  /\ IsList(t) /\ ToSet(t) = ToSet(s) \cup {e}
         /\ Once(s) /\ ~In(ToSet(s), e.of) => Once(t)
<1> DEFINE S == ToSet(s) \cup {e}
<1>1. s \in Seq(S) /\ e \in S
  BY SeqMonotonic DEF IsList
<1> HIDE DEF S
<1>2. /\ t \in Seq(S) /\ Len(t) = Len(s) + 1 /\ t[Len(s) + 1] = e
      /\ \A i \in 1..Len(s) : t[i] = s[i]
  BY <1>1, AppendProperties
<1>3. Len(s) \in Nat /\ DOMAIN s = 1..Len(s) /\ DOMAIN t = 1..Len(s) + 1
  BY <1>1, <1>2, LenProperties
<1>4. ToSet(t) = ToSet(s) \cup {e}
  <2>1. ToSet(s) = {s[i] : i \in 1..Len(s)}
    BY <1>1, ToSetSeq
  <2>3. ToSet(t) = {t[i] : i \in 1..Len(t)}
    BY <1>2, <1>3 DEF ToSet
  <2>2. 1..Len(s) + 1 = 1..Len(s) \cup {Len(s) + 1}
    BY <1>3
  <2> QED  BY <1>2, <2>1, <2>2, <2>3
<1>5. IsList(t)
  BY <1>2, <1>4 DEF IsList, S
<1>6. ASSUME Once(s), ~In(ToSet(s), e.of)
      PROVE  Once(t)
  <2>1. \A i \in 1..Len(s) : s[i].of # e.of
    BY <1>1, <1>6, ToSetSeq DEF In
  <2>2. \A i \in DOMAIN t : i \in 1..Len(s) \/ i = Len(s) + 1
    BY <1>3
  <2> QED  BY <1>2, <1>3, <1>6, <2>1, <2>2 DEF Once
<1> QED  BY <1>4, <1>5, <1>6

(* The commands with one more. *)
LEMMA AskedAppended ==
  ASSUME asked \in Seq(Topics \cup {Blank}), NEW topic \in Topics \cup {Blank}, asked' = Append(asked, topic)
  PROVE  /\ asked' \in Seq(Topics \cup {Blank}) /\ Commands \subseteq Commands'
         /\ \A c \in Commands : asked'[c] = asked[c]
         /\ Len(asked') \in Commands' \ Commands /\ asked'[Len(asked')] = topic
<1>1. /\ asked' \in Seq(Topics \cup {Blank}) /\ Len(asked') = Len(asked) + 1 /\ asked'[Len(asked) + 1] = topic
      /\ \A i \in 1..Len(asked) : asked'[i] = asked[i]
  BY AppendProperties
<1>2. Len(asked) \in Nat /\ DOMAIN asked = 1..Len(asked) /\ DOMAIN asked' = 1..Len(asked) + 1
  BY <1>1, LenProperties
<1> QED  BY <1>1, <1>2 DEF Commands

(* Steps that leave the gist command alone keep this. *)
LEMMA OneQuiet ==
  ASSUME OneInv, Undisturbed(GistSteps), UNCHANGED gistVars
  PROVE  OneInv'
<1>1. UNCHANGED <<requests, results, asked, gists, sent, declined>>
  BY DEF gistVars, pending
<1>2. \A c : (Made(c) <=> Made(c)') /\ (Open(c) <=> Open(c)')
  BY <1>1 DEF Made, Open, Commands
<1>3. \A c, chat : (Suits(c, chat) <=> Suits(c, chat)') /\ (Due(c, chat) <=> Due(c, chat)')
  BY <1>1 DEF Made, Due, Suits, Commands
<1>4. \A g \in Handlers : pc'[g] \in GistSteps => pc'[g] = pc[g] /\ my'[g].job = my[g].job /\ my'[g].on = my[g].on
  BY DEF Undisturbed, Actors
<1>5. \A g \in Handlers : pc'[g] \in AskSteps \/ pc'[g] = "send" => pc'[g] \in GistSteps
  BY DEF GistSteps
<1>6. ListsOK'
  BY <1>1, <1>2 DEF OneInv, ListsOK, Commands
<1>7. AskingOK'
  <2> SUFFICES ASSUME NEW h \in Handlers, Asking(h)'
               PROVE  /\ Open(Of(h))' /\ Knows(h)' /\ ~In(requests, Of(h))'
                      /\ \A g \in Handlers : (Asking(g) /\ Of(g) = Of(h))' => g = h
    BY DEF AskingOK
  <2>1. Asking(h) /\ Of(h)' = Of(h) /\ pc'[h] = pc[h] /\ my'[h].job = my[h].job /\ my'[h].on = my[h].on
    BY <1>4, <1>5 DEF Asking, Of
  <2>2. \A g \in Handlers : Asking(g)' => Asking(g) /\ Of(g)' = Of(g)
    BY <1>4, <1>5 DEF Asking, Of
  <2>3. /\ Open(Of(h)) /\ Knows(h) /\ ~In(requests, Of(h))
        /\ \A g \in Handlers : Asking(g) /\ Of(g) = Of(h) => g = h
    BY <2>1 DEF OneInv, AskingOK
  <2> QED  BY <1>1, <1>2, <1>3, <2>1, <2>2, <2>3 DEF Knows
<1>8. RequestsOK' /\ ResultsOK' /\ SentOK'
  BY <1>1, <1>2, <1>3 DEF OneInv, RequestsOK, ResultsOK, SentOK
<1>9. SendingOK'
  BY <1>1, <1>2, <1>3, <1>4, <1>5 DEF OneInv, SendingOK, Of
<1> QED  BY <1>6, <1>7, <1>8, <1>9 DEF OneInv

(* The other handlers stay where they are. *)
Alone(h) == \A g \in Handlers : g # h => pc'[g] = pc[g] /\ my'[g] = my[g]

(* The threads after a handler has begun. *)
LEMMA BeginsThreads ==
  ASSUME Typed, NEW h \in Handlers, NEW v, NEW s, Begin(h, v, s)
  PROVE  pc[h] = "idle" /\ pc'[h] = s /\ my'[h] = v /\ Alone(h)
<1>1. pc[h] = "idle" /\ pc' = [pc EXCEPT ![h] = s] /\ my' = [my EXCEPT ![h] = v]
  BY DEF Begin, Goto
<1>2. DOMAIN pc = Actors /\ DOMAIN my = Handlers
  BY DEF Typed, ThreadsOK
<1> QED  BY <1>1, <1>2 DEF Alone, Actors

(* A new command is nobody else's. *)
LEMMA AskGistOne ==
  ASSUME Typed, OneInv, NEW h \in Handlers, NEW u \in Users, AskGist(h, u)
  PROVE  OneInv'
<1>0. PICK topic \in Topics \cup {Blank} : \E order :
        /\ asked' = Append(asked, topic)
        /\ \E s \in {"choose", "check"} :
              Begin(h, Job("gist", u, [of |-> Len(asked'), at |-> current, topic |-> topic, order |-> order]), s)
  BY DEF AskGist
<1>1. PICK order, c :
        /\ asked' = Append(asked, topic) /\ c = Len(asked')
        /\ \E s \in {"choose", "check"} :
              Begin(h, Job("gist", u, [of |-> c, at |-> current, topic |-> topic, order |-> order]), s)
  BY <1>0
<1> DEFINE on == [of |-> c, at |-> current, topic |-> topic, order |-> order]
           v  == Job("gist", u, on)
<1>2. PICK s \in {"choose", "check"} : Begin(h, v, s)
  BY <1>1
<1>3. v.job = "gist" /\ v.on.of = c /\ v.on.topic = topic
  BY DEF Job
<1> HIDE DEF v
<1>4. pc'[h] = s /\ my'[h] = v /\ Alone(h) /\ pc[h] = "idle"
  BY <1>2, BeginsThreads
<1>5. /\ asked' \in Seq(Topics \cup {Blank}) /\ Commands \subseteq Commands'
      /\ \A d \in Commands : asked'[d] = asked[d]
      /\ c \in Commands' \ Commands /\ asked'[c] = topic
  BY <1>1, AskedAppended DEF OneInv, ListsOK
<1>6. UNCHANGED <<requests, results, gists, sent, declined>>
  BY DEF AskGist, pending
<1>7. /\ \A d : Made(d) <=> Made(d)'
      /\ \A d : Open(d) => Open(d)'
      /\ \A d, chat : Suits(d, chat) => Suits(d, chat)'
      /\ \A d, chat : Due(d, chat) => Due(d, chat)'
  BY <1>5, <1>6 DEF Made, Open, Suits, Due
<1>8. c \in Commands' /\ ~Made(c) /\ c \notin declined /\ ~In(requests, c)
  BY <1>5, <1>6, <1>7 DEF OneInv, ListsOK, RequestsOK, Open, In
<1>9. ListsOK' /\ RequestsOK' /\ ResultsOK' /\ SentOK'
  BY <1>5, <1>6, <1>7 DEF OneInv, ListsOK, RequestsOK, ResultsOK, SentOK
<1>10. SendingOK'
  <2>1. \A g \in Handlers : pc'[g] = "send" => pc[g] = "send" /\ my'[g] = my[g]
    BY <1>4 DEF Alone
  <2> QED  BY <1>6, <1>7, <2>1 DEF OneInv, SendingOK, Of
<1>11. AskingOK'
  <2>1. Open(c)' /\ ~In(requests, c)'
    BY <1>6, <1>7, <1>8 DEF Open
  <2>2. Asking(h)' /\ Of(h)' = c /\ Knows(h)'
    BY <1>3, <1>4, <1>5 DEF Asking, AskSteps, Of, Knows
  <2>3. ASSUME NEW g \in Handlers, g # h, Asking(g)'
        PROVE  /\ Asking(g) /\ Of(g)' = Of(g) /\ Of(g)' # c /\ Open(Of(g))' /\ Knows(g)' /\ ~In(requests, Of(g))'
               /\ \A k \in Handlers : Asking(k) /\ Of(k) = Of(g) => k = g
    <3>1. Asking(g) /\ my'[g] = my[g] /\ pc'[g] = pc[g] /\ Of(g)' = Of(g)
      BY <1>4, <2>3 DEF Alone, Asking, Of
    <3>2. /\ Open(Of(g)) /\ Knows(g) /\ ~In(requests, Of(g))
          /\ \A k \in Handlers : Asking(k) /\ Of(k) = Of(g) => k = g
      BY <3>1 DEF OneInv, AskingOK
    <3>3. Of(g) \in Commands
      BY <3>2 DEF Open
    <3> QED  BY <1>5, <1>6, <1>7, <3>1, <3>2, <3>3 DEF Knows
  <2> QED  BY <2>1, <2>2, <2>3 DEF AskingOK
<1> QED  BY <1>9, <1>10, <1>11 DEF OneInv

(* A thread on its way to a gist goes on. *)
LEMMA OneGoes ==
  ASSUME OneInv, NEW h \in Handlers, Asking(h), UNCHANGED gistVars, Alone(h), Asking(h)', Of(h)' = Of(h), Knows(h)'
  PROVE  OneInv'
<1>1. UNCHANGED <<requests, results, asked, gists, sent, declined>>
  BY DEF gistVars, pending
<1>2. \A c : (Made(c) <=> Made(c)') /\ (Open(c) <=> Open(c)')
  BY <1>1 DEF Made, Open, Commands
<1>3. \A c, chat : (Suits(c, chat) <=> Suits(c, chat)') /\ (Due(c, chat) <=> Due(c, chat)')
  BY <1>1 DEF Made, Due, Suits, Commands
<1>4. ListsOK' /\ RequestsOK' /\ ResultsOK' /\ SentOK'
  BY <1>1, <1>2, <1>3 DEF OneInv, ListsOK, RequestsOK, ResultsOK, SentOK, Commands
<1>5. SendingOK'
  <2>1. pc'[h] # "send"
    BY DEF Asking, AskSteps
  <2> QED  BY <1>1, <1>2, <1>3, <2>1 DEF OneInv, SendingOK, Of, Alone
<1>6. AskingOK'
  <2>1. \A g \in Handlers : g # h /\ Asking(g)' => Asking(g) /\ Of(g)' = Of(g) /\ (Knows(g) => Knows(g)')
    BY <1>1, <1>3 DEF Alone, Asking, Of, Knows
  <2> QED  BY <1>1, <1>2, <2>1 DEF OneInv, AskingOK
<1> QED  BY <1>4, <1>5, <1>6 DEF OneInv

(* A thread ends: what was true of all the others stays true. *)
LEMMA OneEnds ==
  ASSUME Typed, OneInv, NEW h \in Handlers, Ends(h), UNCHANGED gistVars
  PROVE  OneInv'
<1>1. pc'[h] = "idle" /\ Alone(h)
  BY LeavesThreads DEF Alone
<1>2. UNCHANGED <<requests, results, asked, gists, sent, declined>>
  BY DEF gistVars, pending
<1>3. \A c : (Made(c) <=> Made(c)') /\ (Open(c) <=> Open(c)')
  BY <1>2 DEF Made, Open, Commands
<1>4. \A c, chat : (Suits(c, chat) <=> Suits(c, chat)') /\ (Due(c, chat) <=> Due(c, chat)')
  BY <1>2 DEF Made, Due, Suits, Commands
<1>5. ListsOK' /\ RequestsOK' /\ ResultsOK' /\ SentOK'
  BY <1>2, <1>3, <1>4 DEF OneInv, ListsOK, RequestsOK, ResultsOK, SentOK, Commands
<1>6. \A g \in Handlers : (pc'[g] = "send" \/ Asking(g)') => pc'[g] = pc[g] /\ my'[g] = my[g]
  BY <1>1 DEF Alone, Asking, AskSteps
<1>7. SendingOK'
  BY <1>2, <1>3, <1>4, <1>6 DEF OneInv, SendingOK, Of
<1>8. AskingOK'
  <2>1. \A g \in Handlers : Asking(g)' => Asking(g) /\ Of(g)' = Of(g) /\ (Knows(g) => Knows(g)')
    BY <1>2, <1>4, <1>6 DEF Asking, Of, Knows
  <2> QED  BY <1>2, <1>3, <2>1 DEF OneInv, AskingOK
<1> QED  BY <1>5, <1>7, <1>8 DEF OneInv

(* The choice of an order goes on or ends. *)
LEMMA ChooseOne ==
  ASSUME Typed, OneInv, NEW h \in Handlers, StartOrderSelection(h) \/ CheckConfig(h)
  PROVE  OneInv'
<1>1. CASE Ends(h)
  <2>1. UNCHANGED gistVars
    BY DEF StartOrderSelection, CheckConfig
  <2> QED  BY <1>1, <2>1, OneEnds
<1>2. CASE UNCHANGED my /\ \E s \in {"orders", "name"} : Goto(h, s)
  <2>1. PICK s \in {"orders", "name"} : Goto(h, s)
    BY <1>2
  <2>2. pc'[h] = s /\ Alone(h)
    BY <1>2, <2>1, GoesThreads DEF Alone
  <2>3. UNCHANGED gistVars /\ pc[h] \in {"choose", "check"}
    BY DEF StartOrderSelection, CheckConfig
  <2>4. asked' = asked /\ Asking(h) /\ Asking(h)' /\ Of(h)' = Of(h)
    BY <1>2, <2>2, <2>3 DEF Asking, AskSteps, Of, gistVars
  <2>5. Knows(h) /\ Open(Of(h)) /\ my[h].job = "gist"
    BY <2>3, <2>4, GistWork DEF OneInv, AskingOK, AskSteps
  <2>6. my[h].on.topic = asked[Of(h)]
    BY <2>3, <2>5 DEF Knows
  <2>7. s = "orders" => Suits(Of(h), ChatOf[my[h].on.topic])
    <3> SUFFICES ASSUME s = "orders"
                 PROVE  my[h].on.topic \in Topics
      BY <2>5, <2>6 DEF Suits, Open
    <3>1. StartOrderSelection(h)
      <4>1. CASE CheckConfig(h)
        <5>1. pc'[h] # "orders"
          BY <4>1, LeavesThreads, GoesThreads DEF CheckConfig
        <5> QED  BY <2>2, <5>1
      <4> QED  BY <4>1
    <3>2. ~Ends(h)
      BY <2>2, LeavesThreads
    <3>3. \E chat : Context(On(h).topic, chat) /\ chat # Blank
      BY <3>1, <3>2 DEF StartOrderSelection
    <3> QED  BY <3>3 DEF Context, On
  <2>8. Knows(h)'
    BY <1>2, <2>2, <2>4, <2>5, <2>6, <2>7 DEF Knows, Suits, Commands
  <2> QED  BY <2>2, <2>3, <2>4, <2>8, OneGoes
<1> QED  BY <1>1, <1>2 DEF StartOrderSelection, CheckConfig

(* Who is on the way to a gist or to a chat of FunPay after h has left, was there before. *)
LEMMA LeftAlone ==
  ASSUME NEW h \in Handlers, Alone(h), pc'[h] \notin GistSteps
  PROVE  \A g \in Handlers : Asking(g)' \/ pc'[g] = "send" =>
           /\ g # h /\ pc'[g] = pc[g] /\ my'[g] = my[g] /\ Of(g)' = Of(g) /\ (Asking(g)' <=> Asking(g))
BY DEF Alone, GistSteps, Asking, Of

(* The orders of a chat become a request, or the handler ends. *)
LEMMA FetchOrdersOne ==
  ASSUME Typed, OneInv, NEW h \in Handlers, FetchOrders(h)
  PROVE  OneInv'
<1>1. PICK orders :
        requests' = IF orders = {} THEN requests
                    ELSE requests \cup {[of |-> On(h).of, chat |-> ChatOf[On(h).topic], orders |-> orders]}
  BY DEF FetchOrders
<1> DEFINE r == [of |-> On(h).of, chat |-> ChatOf[On(h).topic], orders |-> orders]
<1>2. requests \subseteq requests' /\ requests' \subseteq requests \cup {r}
  BY <1>1
<1>3. r.of = Of(h) /\ r.chat = ChatOf[my[h].on.topic]
  BY DEF On, Of
<1> HIDE DEF r
<1>4. pc[h] = "orders" /\ Ends(h) /\ UNCHANGED <<results, asked, gists, sent, declined>>
  BY DEF FetchOrders
<1>5. Asking(h) /\ pc'[h] \notin GistSteps /\ Alone(h)
  BY <1>4, LeavesThreads DEF Asking, AskSteps, GistSteps, Alone
<1>6. /\ Open(Of(h)) /\ Suits(Of(h), r.chat) /\ ~In(requests, Of(h))
      /\ \A g \in Handlers : Asking(g) /\ Of(g) = Of(h) => g = h
  BY <1>3, <1>4, <1>5 DEF OneInv, AskingOK, Knows
<1>7. /\ \A c : (Made(c) <=> Made(c)') /\ (Open(c) <=> Open(c)')
      /\ \A c, chat : (Suits(c, chat) <=> Suits(c, chat)') /\ (Due(c, chat) <=> Due(c, chat)')
  BY <1>4 DEF Made, Open, Due, Suits, Commands
<1>8. ListsOK' /\ ResultsOK' /\ SentOK'
  BY <1>4, <1>7 DEF OneInv, ListsOK, ResultsOK, SentOK, Commands
<1>9. RequestsOK'
  BY <1>2, <1>3, <1>6, <1>7 DEF OneInv, RequestsOK, In
<1>10. SendingOK'
  BY <1>4, <1>5, <1>7, LeftAlone DEF OneInv, SendingOK
<1>11. AskingOK'
  <2>1. \A g \in Handlers : Asking(g)' => Asking(g) /\ Of(g)' = Of(g) /\ (Knows(g) => Knows(g)') /\ Of(g) # Of(h)
    BY <1>4, <1>5, <1>6, <1>7, LeftAlone DEF Knows
  <2>2. \A c : c # Of(h) /\ ~In(requests, c) => ~In(requests, c)'
    BY <1>2, <1>3 DEF In
  <2> QED  BY <1>7, <2>1, <2>2 DEF OneInv, AskingOK
<1> QED  BY <1>8, <1>9, <1>10, <1>11 DEF OneInv

(* The button of an order takes the request. *)
LEMMA SelectOrderOne ==
  ASSUME Typed, OneInv, NEW h \in Handlers, NEW u \in Users, SelectOrder(h, u)
  PROVE  OneInv'
<1>1. PICK r \in requests, o \in Orders :
        /\ requests' = requests \ {r}
        /\ Begin(h, Job("select", u, [of |-> r.of, chat |-> r.chat, order |-> o]), "name")
  BY DEF SelectOrder
<1> DEFINE on == [of |-> r.of, chat |-> r.chat, order |-> o]
           v  == Job("select", u, on)
<1>2. v.job = "select" /\ v.on.of = r.of /\ v.on.chat = r.chat /\ Begin(h, v, "name")
  BY <1>1 DEF Job
<1> HIDE DEF v
<1>3. pc'[h] = "name" /\ my'[h] = v /\ Alone(h) /\ UNCHANGED <<results, asked, gists, sent, declined>>
  BY <1>2, BeginsThreads DEF SelectOrder
<1>4. /\ \A c : (Made(c) <=> Made(c)') /\ (Open(c) <=> Open(c)')
      /\ \A c, chat : (Suits(c, chat) <=> Suits(c, chat)') /\ (Due(c, chat) <=> Due(c, chat)')
  BY <1>3 DEF Made, Open, Due, Suits, Commands
<1>5. Open(r.of) /\ Suits(r.of, r.chat) /\ \A q \in requests : q.of = r.of => q = r
  BY DEF OneInv, RequestsOK
<1>6. ListsOK' /\ ResultsOK' /\ SentOK'
  BY <1>3, <1>4 DEF OneInv, ListsOK, ResultsOK, SentOK, Commands
<1>7. RequestsOK'
  BY <1>1, <1>4 DEF OneInv, RequestsOK
<1>8. SendingOK'
  BY <1>3, <1>4 DEF OneInv, SendingOK, Alone, Of
<1>9. AskingOK'
  <2>1. Of(h)' = r.of /\ Knows(h)' /\ Open(Of(h))' /\ ~In(requests, Of(h))'
    BY <1>1, <1>2, <1>3, <1>4, <1>5 DEF Of, Knows, In
  <2>2. \A g \in Handlers : g # h /\ Asking(g)' =>
          Asking(g) /\ Of(g)' = Of(g) /\ (Knows(g) => Knows(g)') /\ (~In(requests, Of(g)) => Of(g) # r.of /\ ~In(requests, Of(g))')
    BY <1>1, <1>3, <1>4 DEF Alone, Asking, Of, Knows, In
  <2> QED  BY <1>4, <2>1, <2>2 DEF OneInv, AskingOK
<1> QED  BY <1>6, <1>7, <1>8, <1>9 DEF OneInv

(* A cancelled command goes no further. *)
LEMMA CancelOne ==
  ASSUME OneInv, CancelOrderSelection
  PROVE  OneInv'
<1>1. PICK r \in requests : requests' = requests \ {r} /\ declined' = declined \cup {r.of}
  BY DEF CancelOrderSelection
<1>2. UNCHANGED <<pc, my, results, asked, gists, sent>>
  BY DEF CancelOrderSelection
<1>3. Open(r.of) /\ \A q \in requests : q.of = r.of => q = r
  BY DEF OneInv, RequestsOK
<1>4. /\ \A c : (Made(c) <=> Made(c)') /\ (Open(c) /\ c # r.of => Open(c)')
      /\ \A c, chat : (Suits(c, chat) <=> Suits(c, chat)') /\ (Due(c, chat) => Due(c, chat)')
  BY <1>1, <1>2, <1>3 DEF Made, Open, Due, Suits, Commands
<1>5. ListsOK' /\ ResultsOK' /\ SentOK' /\ SendingOK'
  BY <1>1, <1>2, <1>3, <1>4 DEF OneInv, ListsOK, ResultsOK, SentOK, SendingOK, Of, Commands, Open
<1>6. RequestsOK'
  BY <1>1, <1>3, <1>4 DEF OneInv, RequestsOK
<1>7. AskingOK'
  <2>1. \A g \in Handlers : (Asking(g)' <=> Asking(g)) /\ Of(g)' = Of(g) /\ (Knows(g) => Knows(g)')
    BY <1>2, <1>4 DEF Asking, Of, Knows
  <2>2. \A c : ~In(requests, c) => c # r.of /\ ~In(requests, c)'
    BY <1>1 DEF In
  <2> QED  BY <1>4, <2>1, <2>2 DEF OneInv, AskingOK
<1> QED  BY <1>5, <1>6, <1>7 DEF OneInv

(* A gist that gets its name goes on to be made. *)
LEMMA NameOne ==
  ASSUME Typed, OneInv, NEW h \in Handlers, NameGist(h) \/ NameByOrder(h)
  PROVE  OneInv'
<1>1. pc[h] = "name" /\ UNCHANGED gistVars
  BY DEF NameGist, NameByOrder
<1>2. Asking(h)
  BY <1>1 DEF Asking, AskSteps
<1>3. Open(Of(h)) /\ Knows(h)
  BY <1>2 DEF OneInv, AskingOK
<1>4. PICK client, chat : Named(h, client, chat) /\ (chat = Blank \/ Suits(Of(h), chat))
  <2>1. CASE NameGist(h)
    <3>1. PICK chat : Context(On(h).topic, chat) /\ Named(h, chat, chat)
      BY <2>1 DEF NameGist
    <3>2. my[h].on.topic = asked[Of(h)]
      BY <1>1, <1>3, <2>1 DEF NameGist, Knows
    <3>3. chat = Blank \/ Suits(Of(h), chat)
      BY <1>3, <3>1, <3>2 DEF Context, On, Suits, Open
    <3> QED  BY <3>1, <3>3
  <2>2. CASE NameByOrder(h)
    <3>1. Named(h, Blank, On(h).chat) /\ my[h].job = "select"
      BY <2>2 DEF NameByOrder
    <3>2. On(h).chat = Blank \/ Suits(Of(h), On(h).chat)
      BY <1>3, <3>1 DEF Knows, On
    <3> QED  BY <3>1, <3>2
  <2> QED  BY <2>1, <2>2
<1>5. CASE Ends(h)
  BY <1>1, <1>5, OneEnds
<1>6. CASE ~Ends(h)
  <2>1. PICK on : Continue(h, on, "create") /\ on.of = Of(h) /\ on.chat = chat
    <3> DEFINE g == GistSettings(h)
               on == [of |-> On(h).of, chat |-> chat, name |-> FileName(g, client, On(h).order),
                      public |-> g.visibility = "public"]
    <3>1. Continue(h, on, "create")
      BY <1>4, <1>6 DEF Named
    <3>2. on.of = Of(h) /\ on.chat = chat
      BY DEF On, Of
    <3> HIDE DEF on
    <3> QED  BY <3>1, <3>2
  <2>2. DOMAIN pc = Actors /\ DOMAIN my = Handlers /\ DOMAIN my[h] = Fields
    BY HandlerWork DEF Typed, ThreadsOK, WorkOK
  <2>3. pc' = [pc EXCEPT ![h] = "create"] /\ my' = [my EXCEPT ![h].on = on]
    BY <2>1 DEF Continue, Goto
  <2>4. pc'[h] = "create" /\ my'[h] = [my[h] EXCEPT !.on = on] /\ Alone(h)
    BY <2>2, <2>3 DEF Alone, Actors
  <2>5. my'[h].on = on
    BY <2>2, <2>4 DEF Fields
  <2>6. asked' = asked
    BY <1>1 DEF gistVars
  <2>7. Asking(h)' /\ Of(h)' = Of(h) /\ Knows(h)'
    BY <1>4, <2>1, <2>4, <2>5, <2>6 DEF Asking, AskSteps, Of, Knows, Suits, Commands
  <2> QED  BY <1>1, <1>2, <2>4, <2>7, OneGoes
<1> QED  BY <1>5, <1>6

(* A gist is made: its command is no longer open, and its link may be due. *)
LEMMA MadeOne ==
  ASSUME Typed, OneInv, NEW h \in Handlers, pc[h] = "create", Ends(h), gists' = Append(gists, Gist(h)),
         results' \subseteq Offered(h), results \subseteq results', UNCHANGED <<requests, asked, sent, declined>>
  PROVE  OneInv'
<1>1. PICK k, r : k = Of(h) /\ r = [of |-> On(h).of, chat |-> On(h).chat]
  OBVIOUS
<1>2. /\ r.of = k /\ r.chat = my[h].on.chat
      /\ results' \subseteq results \cup {r} /\ (r.chat = Blank => results' = results)
  BY <1>1 DEF On, Of, Offered
<1>3. Asking(h) /\ pc'[h] \notin GistSteps /\ Alone(h)
  BY LeavesThreads DEF Asking, AskSteps, GistSteps, Alone
<1>4. /\ Open(k) /\ ~In(requests, k) /\ (r.chat = Blank \/ Suits(k, r.chat))
      /\ \A g \in Handlers : Asking(g) /\ Of(g) = k => g = h
  BY <1>1, <1>2, <1>3 DEF OneInv, AskingOK, Knows
<1>5. Gist(h).of = k
  BY <1>1 DEF Gist, On, Of
<1>6. IsList(gists') /\ ToSet(gists') = ToSet(gists) \cup {Gist(h)} /\ Once(gists')
  <2>1. IsList(gists) /\ Once(gists) /\ ~In(ToSet(gists), Gist(h).of)
    BY <1>4, <1>5 DEF OneInv, ListsOK, Open, Made
  <2> QED  BY <2>1, ListAppended
<1>7. \A c : Made(c)' <=> Made(c) \/ c = k
  BY <1>5, <1>6 DEF Made, In
<1>8. /\ \A c : Open(c) /\ c # k => Open(c)'
      /\ \A c, chat : (Suits(c, chat) <=> Suits(c, chat)') /\ (Due(c, chat) => Due(c, chat)')
      /\ \A chat : Suits(k, chat) => Due(k, chat)'
  BY <1>4, <1>7 DEF Open, Due, Suits, Commands
<1>9. \A c : Made(c) => c # k
  BY <1>4 DEF Open
<1>10. ListsOK' /\ SentOK'
  BY <1>4, <1>6, <1>7, <1>8 DEF OneInv, ListsOK, SentOK, Commands, Open
<1>11. RequestsOK'
  BY <1>4, <1>8 DEF OneInv, RequestsOK, In
<1>12. ~In(ToSet(sent), k) /\ ~In(results, k)
  BY <1>9 DEF OneInv, SentOK, ResultsOK, Due, In
<1>13. ResultsOK'
  <2>1. \A x \in results : x.of # k
    BY <1>12 DEF In
  <2>2. ASSUME NEW x \in results'
        PROVE  Due(x.of, x.chat)' /\ ~In(ToSet(sent), x.of)' /\ \A q \in results' : q.of = x.of => q = x
    <3>1. CASE x \in results
      BY <1>1, <1>2, <1>8, <2>1, <3>1 DEF OneInv, ResultsOK
    <3>2. CASE x = r /\ x \notin results
      BY <1>1, <1>2, <1>4, <1>8, <1>12, <2>1, <3>2
    <3> QED  BY <1>2, <3>1, <3>2
  <2> QED  BY <2>2 DEF ResultsOK
<1>14. SendingOK'
  <2>1. \A c : Made(c) /\ ~In(results, c) => ~In(results, c)'
    BY <1>1, <1>2, <1>9 DEF In
  <2>2. \A g \in Handlers : pc'[g] = "send" =>
          pc[g] = "send" /\ Due(Of(g), my[g].on.chat) /\ Of(g)' = Of(g) /\ my'[g] = my[g]
          /\ ~In(ToSet(sent), Of(g)) /\ ~In(results, Of(g))
          /\ \A b \in Handlers : pc[b] = "send" /\ Of(b) = Of(g) => b = g
    BY <1>3, LeftAlone DEF OneInv, SendingOK
  <2>3. \A c, chat : Due(c, chat) => Made(c)
    BY DEF Due
  <2> QED  BY <1>8, <2>1, <2>2, <2>3 DEF SendingOK
<1>15. AskingOK'
  <2>1. \A g \in Handlers : Asking(g)' => Asking(g) /\ Of(g)' = Of(g) /\ (Knows(g) => Knows(g)') /\ Of(g) # k
    BY <1>3, <1>4, <1>8, LeftAlone DEF Knows
  <2> QED  BY <1>8, <2>1 DEF OneInv, AskingOK
<1> QED  BY <1>10, <1>11, <1>13, <1>14, <1>15 DEF OneInv

(* A gist that is made becomes a result at most; one that is not leaves nothing. *)
LEMMA CreateOne ==
  ASSUME Typed, OneInv, NEW h \in Handlers, CreateGist(h) \/ CreateFails(h)
  PROVE  OneInv'
<1>1. pc[h] = "create" /\ Ends(h)
  BY DEF CreateGist, CreateFails
<1>2. CASE UNCHANGED gistVars
  BY <1>1, <1>2, OneEnds
<1>3. CASE gists' = Append(gists, Gist(h))
  <2>1. results' \subseteq Offered(h) /\ results \subseteq results' /\ UNCHANGED <<requests, asked, sent, declined>>
    BY DEF CreateGist, CreateFails, pending, Offered
  <2> QED  BY <1>1, <1>3, <2>1, MadeOne
<1> QED  BY <1>2, <1>3 DEF CreateGist, CreateFails, gistVars

(* The button that sends a link takes the result. *)
LEMMA SendResultOne ==
  ASSUME Typed, OneInv, NEW h \in Handlers, NEW u \in Users, SendResult(h, u)
  PROVE  OneInv'
<1>1. PICK r \in results : results' = results \ {r} /\ Begin(h, Job("send", u, r), "send")
  BY DEF SendResult
<1> DEFINE v == Job("send", u, r)
<1>2. v.on = r /\ Begin(h, v, "send")
  BY <1>1 DEF Job
<1> HIDE DEF v
<1>3. pc'[h] = "send" /\ my'[h] = v /\ Alone(h) /\ UNCHANGED <<requests, asked, gists, sent, declined>>
  BY <1>2, BeginsThreads DEF SendResult
<1>4. /\ \A c : (Made(c) <=> Made(c)') /\ (Open(c) <=> Open(c)')
      /\ \A c, chat : (Suits(c, chat) <=> Suits(c, chat)') /\ (Due(c, chat) <=> Due(c, chat)')
  BY <1>3 DEF Made, Open, Due, Suits, Commands
<1>5. Due(r.of, r.chat) /\ ~In(ToSet(sent), r.of) /\ \A q \in results : q.of = r.of => q = r
  BY DEF OneInv, ResultsOK
<1>6. ListsOK' /\ RequestsOK' /\ SentOK'
  BY <1>3, <1>4 DEF OneInv, ListsOK, RequestsOK, SentOK, Commands
<1>7. ResultsOK'
  BY <1>1, <1>3, <1>4 DEF OneInv, ResultsOK
<1>8. SendingOK'
  <2>1. Of(h)' = r.of /\ my'[h].on.chat = r.chat /\ ~In(results, r.of)'
    BY <1>1, <1>2, <1>3, <1>5 DEF Of, In
  <2>2. \A g \in Handlers : g # h /\ pc'[g] = "send" =>
          /\ pc[g] = "send" /\ my'[g] = my[g] /\ Of(g)' = Of(g)
          /\ (~In(results, Of(g)) => Of(g) # r.of /\ ~In(results, Of(g))')
    BY <1>1, <1>3 DEF Alone, Of, In
  <2>3. \A g \in Handlers : g # h /\ pc'[g] = "send" => Of(g) # r.of
    BY <2>2 DEF OneInv, SendingOK
  <2> QED  BY <1>3, <1>4, <1>5, <2>1, <2>2, <2>3 DEF OneInv, SendingOK
<1>9. AskingOK'
  <2>1. \A g \in Handlers : Asking(g)' => Asking(g) /\ Of(g)' = Of(g) /\ (Knows(g) => Knows(g)')
    BY <1>3, <1>4 DEF Alone, Asking, AskSteps, Of, Knows
  <2> QED  BY <1>3, <1>4, <2>1 DEF OneInv, AskingOK
<1> QED  BY <1>6, <1>7, <1>8, <1>9 DEF OneInv

(* A link that is not to be sent is dropped. *)
LEMMA SkipOne ==
  ASSUME OneInv, SkipResult
  PROVE  OneInv'
<1>1. PICK r \in results : results' = results \ {r} /\ declined' = declined \cup {r.of}
  BY DEF SkipResult
<1>2. UNCHANGED <<pc, my, requests, asked, gists, sent>>
  BY DEF SkipResult
<1>3. Due(r.of, r.chat) /\ ~In(ToSet(sent), r.of) /\ \A q \in results : q.of = r.of => q = r
  BY DEF OneInv, ResultsOK
<1>4. /\ \A c : (Made(c) <=> Made(c)') /\ (Open(c) => Open(c)')
      /\ \A c, chat : (Suits(c, chat) <=> Suits(c, chat)') /\ (Due(c, chat) /\ c # r.of => Due(c, chat)')
  BY <1>1, <1>2, <1>3 DEF Made, Open, Due, Suits, Commands
<1>5. ListsOK' /\ RequestsOK'
  BY <1>1, <1>2, <1>3, <1>4 DEF OneInv, ListsOK, RequestsOK, Commands, Due, Suits
<1>6. SentOK'
  <2>1. \A x \in ToSet(sent) : x.of # r.of
    BY <1>3 DEF In
  <2> QED  BY <1>2, <1>4, <2>1 DEF OneInv, SentOK
<1>7. ResultsOK'
  BY <1>1, <1>2, <1>3, <1>4 DEF OneInv, ResultsOK
<1>8. SendingOK'
  <2>1. \A c : ~In(results, c) => c # r.of /\ ~In(results, c)'
    BY <1>1 DEF In
  <2> QED  BY <1>2, <1>4, <2>1 DEF OneInv, SendingOK, Of
<1>9. AskingOK'
  <2>1. \A g \in Handlers : (Asking(g)' <=> Asking(g)) /\ Of(g)' = Of(g) /\ (Knows(g) => Knows(g)')
    BY <1>2, <1>4 DEF Asking, Of, Knows
  <2> QED  BY <1>2, <1>4, <2>1 DEF OneInv, AskingOK
<1> QED  BY <1>5, <1>6, <1>7, <1>8, <1>9 DEF OneInv

(* A link is sent to the chat it is due to, or not at all. *)
LEMMA LinkOne ==
  ASSUME Typed, OneInv, NEW h \in Handlers, LinkSent(h) \/ SendFails(h)
  PROVE  OneInv'
<1>1. pc[h] = "send" /\ Ends(h) /\ UNCHANGED <<requests, results, asked, gists, declined>>
  BY DEF LinkSent, SendFails, pending
<1>2. CASE sent' = sent
  BY <1>1, <1>2, OneEnds DEF gistVars, pending
<1>3. CASE sent' = Append(sent, On(h))
  <2>1. pc'[h] \notin GistSteps /\ Alone(h)
    BY <1>1, LeavesThreads DEF GistSteps, AskSteps, Alone
  <2>2. /\ Due(Of(h), On(h).chat) /\ ~In(ToSet(sent), Of(h)) /\ ~In(results, Of(h)) /\ On(h).of = Of(h)
        /\ \A g \in Handlers : pc[g] = "send" /\ Of(g) = Of(h) => g = h
    BY <1>1 DEF OneInv, SendingOK, On, Of
  <2>3. IsList(sent') /\ ToSet(sent') = ToSet(sent) \cup {On(h)} /\ Once(sent')
    <3>1. IsList(sent) /\ Once(sent) /\ ~In(ToSet(sent), On(h).of)
      BY <2>2 DEF OneInv, ListsOK
    <3> QED  BY <1>3, <3>1, ListAppended
  <2>4. /\ \A c : (Made(c) <=> Made(c)') /\ (Open(c) <=> Open(c)')
        /\ \A c, chat : (Suits(c, chat) <=> Suits(c, chat)') /\ (Due(c, chat) <=> Due(c, chat)')
    BY <1>1 DEF Made, Open, Due, Suits, Commands
  <2>5. \A c : c # Of(h) /\ ~In(ToSet(sent), c) => ~In(ToSet(sent), c)'
    BY <2>2, <2>3 DEF In
  <2>6. ListsOK' /\ RequestsOK' /\ SentOK'
    BY <1>1, <2>2, <2>3, <2>4 DEF OneInv, ListsOK, RequestsOK, SentOK, Commands
  <2>7. ResultsOK'
    <3>1. \A x \in results : x.of # Of(h)
      BY <2>2 DEF In
    <3> QED  BY <1>1, <2>4, <2>5, <3>1 DEF OneInv, ResultsOK
  <2>8. SendingOK'
    BY <1>1, <2>1, <2>2, <2>4, <2>5, LeftAlone DEF OneInv, SendingOK
  <2>9. AskingOK'
    <3>1. \A g \in Handlers : Asking(g)' => Asking(g) /\ Of(g)' = Of(g) /\ (Knows(g) => Knows(g)')
      BY <1>1, <2>1, <2>4, LeftAlone DEF Knows
    <3> QED  BY <1>1, <2>4, <3>1 DEF OneInv, AskingOK
  <2> QED  BY <2>6, <2>7, <2>8, <2>9 DEF OneInv
<1> QED  BY <1>2, <1>3 DEF LinkSent, SendFails

(* The page of the gist touches no command. *)
LEMMA GistPagesOne ==
  ASSUME Typed, OneInv, NEW h \in Handlers, NEW u \in Users, SetGist(h, u) \/ SaveGistText(h, u)
  PROVE  OneInv'
<1>1. Updates(h)
  BY SetGistSaves, SaveGistTextSaves
<1>2. UNCHANGED gistVars
  BY DEF SetGist, SaveGistText
<1> QED  BY <1>1, <1>2, UpdatesTurns, TurnsUndisturbed, LessUndisturbed, OneQuiet DEF Away, GistSteps

(* Every step of the gist command keeps this. *)
LEMMA GistOne ==
  ASSUME Typed, OneInv, GistStep
  PROVE  OneInv'
<1>1. ASSUME NEW u \in Users, EditGist(u)
      PROVE  OneInv'
  BY <1>1, StillUndisturbed, OneQuiet DEF EditGist
<1>2. ASSUME NEW h \in Handlers, GistSaved(h)
      PROVE  OneInv'
  BY <1>2, OneEnds DEF GistSaved
<1>3. ASSUME NEW h \in Handlers, NEW u \in Users,
             AskGist(h, u) \/ SelectOrder(h, u) \/ SendResult(h, u) \/ SetGist(h, u) \/ SaveGistText(h, u)
      PROVE  OneInv'
  BY <1>3, AskGistOne, SelectOrderOne, SendResultOne, GistPagesOne
<1>4. ASSUME NEW h \in Handlers, \/ StartOrderSelection(h) \/ FetchOrders(h) \/ CheckConfig(h)
                                 \/ NameGist(h) \/ NameByOrder(h)
                                 \/ CreateGist(h) \/ CreateFails(h) \/ LinkSent(h) \/ SendFails(h)
      PROVE  OneInv'
  BY <1>4, ChooseOne, FetchOrdersOne, NameOne, CreateOne, LinkOne
<1> QED  BY <1>1, <1>2, <1>3, <1>4, CancelOne, SkipOne DEF GistStep

(* A restart forgets requests and results. *)
LEMMA RestartOne ==
  ASSUME OneInv, Restart, GistRestart
  PROVE  OneInv'
<1>1. requests' = {} /\ results' = {} /\ UNCHANGED <<asked, gists, sent, declined>>
  BY DEF GistRestart
<1>2. pc' = BootPC(heap'[1]) /\ my' = [h \in Handlers |-> Rest]
  BY DEF Restart
<1>3. \A h \in Handlers : pc'[h] = "idle"
  BY <1>2, BootThreads
<1>4. \A h \in Handlers : ~Asking(h)' /\ pc'[h] # "send"
  BY <1>3 DEF Asking, AskSteps
<1>5. \A c : Made(c) <=> Made(c)'
  BY <1>1 DEF Made
<1>6. \A c, chat : Due(c, chat) <=> Due(c, chat)'
  BY <1>1 DEF Made, Due, Suits, Commands
<1> QED  BY <1>1, <1>4, <1>5, <1>6 DEF OneInv, ListsOK, AskingOK, RequestsOK, ResultsOK, SendingOK, SentOK, Commands

(* No command has been given at first. *)
LEMMA InitOne ==
  ASSUME AdminInit
  PROVE  OneInv
<1>1. requests = {} /\ results = {} /\ asked = <<>> /\ gists = <<>> /\ sent = <<>> /\ declined = {}
  BY DEF AdminInit, GistInit
<1>2. my = [h \in Handlers |-> Rest] /\ pc = BootPC(config)
  BY DEF AdminInit, Init
<1>3. \A h \in Handlers : pc[h] = "idle"
  BY <1>2, BootThreads
<1>4. \A h \in Handlers : ~Asking(h) /\ pc[h] # "send"
  BY <1>3 DEF Asking, AskSteps
<1>5. ToSet(gists) = {} /\ ToSet(sent) = {} /\ DOMAIN gists = {} /\ DOMAIN sent = {}
  BY <1>1, EmptyToSet
<1>6. IsList(gists) /\ IsList(sent) /\ asked \in Seq(Topics \cup {Blank})
  BY <1>1, EmptyToSet DEF IsList
<1> QED  BY <1>1, <1>4, <1>5, <1>6 DEF OneInv, ListsOK, AskingOK, RequestsOK, ResultsOK, SendingOK, SentOK, Made, In, Once

(* One command makes one gist at most and its link reaches one chat at most, once: that of the topic it was *)
(* asked in; nothing that was cancelled goes on.  The handlers of /gist, its buttons and GistService. *)
THEOREM OneLinkEachAlways == AdminSpec => []OneLinkEach
<1>1. ASSUME Typed, OneInv, [AdminNext]_adminVars
      PROVE  OneInv'
  <2>1. CASE Step /\ UNCHANGED gistVars
    BY <1>1, <2>1, GistUndisturbed, OneQuiet
  <2>2. CASE UNCHANGED adminVars
    <3>1. UNCHANGED <<pc, my>> /\ UNCHANGED gistVars
      BY <2>2 DEF adminVars, vars, panelVars
    <3> QED  BY <1>1, <3>1, StillUndisturbed, OneQuiet
  <2> QED  BY <1>1, <2>1, <2>2, GistOne, RestartOne DEF AdminNext
<1>2. OneInv => OneLinkEach
  <2> SUFFICES ASSUME OneInv
               PROVE  OneLinkEach
    OBVIOUS
  <2>1. Once(gists) /\ Once(sent)
    BY DEF OneInv, ListsOK
  <2>2. \A i \in DOMAIN sent : sent[i] \in ToSet(sent)
    BY DEF ToSet
  <2>3. ASSUME NEW i \in DOMAIN sent
        PROVE  /\ asked[sent[i].of] \in Topics /\ sent[i].chat = ChatOf[asked[sent[i].of]]
               /\ sent[i].of \notin declined
               /\ \E j \in DOMAIN gists : gists[j].of = sent[i].of
    <3>1. Due(sent[i].of, sent[i].chat)
      BY <2>2 DEF OneInv, SentOK
    <3> QED  BY <3>1 DEF Due, Suits, Made, In, ToSet
  <2>4. ASSUME NEW r \in requests
        PROVE  r.of \notin declined /\ \A j \in DOMAIN gists : gists[j].of # r.of
    <3>1. Open(r.of)
      BY DEF OneInv, RequestsOK
    <3> QED  BY <3>1 DEF Open, Made, In, ToSet
  <2> QED  BY <2>1, <2>3, <2>4 DEF OneLinkEach, Once
<1> QED  BY <1>1, <1>2, InitOne, TypedInvariant, PTL DEF AdminSpec, adminVars

-----------------------------------------------------------------------------
(* Prices. *)

(* Division of natural numbers. *)
LEMMA Divided ==
  ASSUME NEW a \in Nat, NEW b \in Nat \ {0}
  PROVE  /\ a \div b \in Nat
         /\ \A q \in Nat : b * q <= a => q <= a \div b
<1>1. a \in Int /\ b \in Int /\ b > 0
  OBVIOUS
<1>2. a \div b \in Int /\ b * (a \div b) <= a /\ a < b * ((a \div b) + 1)
  BY <1>1, SMT
<1> DEFINE d == a \div b
<1> HIDE DEF d
<1>3. d \in Int /\ b * d <= a /\ a < b * (d + 1)
  BY <1>2 DEF d
<1>4. d >= 0
  <2> SUFFICES ASSUME d + 1 <= 0
               PROVE  FALSE
    BY <1>3
  <2>1. b * (d + 1) <= 0
    BY <1>1, <1>3, SMT
  <2> QED  BY <1>3, <2>1
<1>5. ASSUME NEW q \in Nat, b * q <= a
      PROVE  q <= d
  <2> SUFFICES ASSUME d + 1 <= q
               PROVE  FALSE
    BY <1>3
  <2>1. b * (d + 1) <= b * q
    BY <1>1, <1>3, SMT
  <2> QED  BY <1>3, <1>5, <2>1, SMT
<1> QED  BY <1>3, <1>4, <1>5 DEF d

(* A rounded price is a price. *)
LEMMA RoundedType ==
  ASSUME NEW num \in Nat, NEW den \in Nat \ {0}
  PROVE  RoundedCents(num, den) \in Nat
<1>1. 2 * num + Cent * den \in Nat /\ 2 * Cent * den \in Nat \ {0}
  BY DEF Cent
<1>2. (2 * num + Cent * den) \div (2 * Cent * den) \in Nat
  BY <1>1, Divided
<1> QED  BY <1>2 DEF RoundedCents, Cent

(* A quotient that is at least m is not rounded below m. *)
LEMMA RoundedAbove ==
  ASSUME NEW num \in Nat, NEW den \in Nat \ {0}, NEW m \in Nat, num >= m * den
  PROVE  RoundedCents(num, den) >= RoundedCents(m, 1)
<1> DEFINE a == 2 * num + Cent * den
           b == 2 * Cent * den
           r == (2 * m + Cent * 1) \div (2 * Cent * 1)
<1>1. a \in Nat /\ b \in Nat \ {0}
  BY DEF Cent
<1>2. r \in Nat /\ 20 * r <= 2 * m + 10
  <2>1. r = (2 * m + 10) \div 20
    BY DEF Cent
  <2> QED  BY <2>1
<1>3. b * r <= a
  <2>1. 2 * num + 10 * den >= 2 * (m * den) + 10 * den
    OBVIOUS
  <2>2. (20 * r) * den <= (2 * m + 10) * den
    <3> DEFINE x == 20 * r
               y == 2 * m + 10
    <3>1. x \in Nat /\ y \in Nat /\ x <= y
      BY <1>2
    <3> HIDE DEF x, y
    <3>2. x * den <= y * den
      BY <3>1
    <3> QED  BY <3>2 DEF x, y
  <2>3. (2 * m + 10) * den = 2 * (m * den) + 10 * den /\ (20 * r) * den = b * r
    BY <1>2 DEF Cent
  <2>4. a = 2 * num + 10 * den
    BY DEF Cent
  <2> HIDE DEF a, b, r
  <2>5. m * den \in Nat /\ (20 * r) * den \in Nat
    BY <1>2
  <2> QED  BY <1>1, <1>2, <2>1, <2>2, <2>3, <2>4, <2>5
<1>4. r <= a \div b /\ a \div b \in Nat
  BY <1>1, <1>2, <1>3, Divided
<1>5. RoundedCents(num, den) = Cent * (a \div b) /\ RoundedCents(m, 1) = Cent * r
  BY DEF RoundedCents
<1> HIDE DEF a, b, r
<1> QED  BY <1>2, <1>4, <1>5 DEF Cent

(* The price of a rule is a price, and never under the rule's floor, to the cent. *)
LEMMA FinalPriceFloor ==
  ASSUME NEW amount \in Nat, NEW rule \in RuleRecords
  PROVE  FinalPrice(amount, rule) \in Nat /\ FinalPrice(amount, rule) >= RoundedCents(rule.ownMin, 1)
<1>1. /\ rule.percent \in BOOLEAN /\ rule.value \in Nat /\ rule.ownMin \in Nat /\ rule.commission \in 0..100
  BY DEF RuleRecords
<1> DEFINE den == UnderDen(rule)
           num == UnderNum(amount, rule)
<1>2. den \in Nat \ {0}
  BY <1>1 DEF UnderDen
<1>3. num \in Int
  BY <1>1, <1>2 DEF UnderNum
<1> HIDE DEF den, num
<1>4. CASE num >= rule.ownMin * den
  <2>1. rule.ownMin * den \in Nat
    BY <1>1, <1>2
  <2>2. num \in Nat
    BY <1>3, <1>4, <2>1
  <2>3. FinalPrice(amount, rule) = RoundedCents(num, den)
    BY <1>4 DEF FinalPrice, num, den
  <2> QED  BY <1>1, <1>2, <1>4, <2>2, <2>3, RoundedType, RoundedAbove
<1>5. CASE ~(num >= rule.ownMin * den)
  <2>1. FinalPrice(amount, rule) = RoundedCents(rule.ownMin, 1)
    BY <1>5 DEF FinalPrice, num, den
  <2>2. RoundedCents(rule.ownMin, 1) \in Nat
    BY <1>1, RoundedType
  <2> QED  BY <2>1, <2>2
<1> QED  BY <1>4, <1>5

-----------------------------------------------------------------------------
(* Choices among lots and candidates. *)

(* A nonempty domain has a member with the least value. *)
LEMMA LeastValue ==
  ASSUME NEW D, D # {}, NEW f, \A i \in D : f[i] \in Nat
  PROVE  \E i \in D : \A j \in D : f[i] <= f[j]
<1> DEFINE V == {f[i] : i \in D}
<1>1. V \in SUBSET Nat /\ V # {}
  OBVIOUS
<1> HIDE DEF V
<1>2. PICK v \in V : \A w \in V : v <= w
  BY <1>1, LeastNatural
<1> QED  BY <1>2 DEF V

(* A finite set as a list. *)
LEMMA ListedType ==
  ASSUME NEW S, IsFiniteSet(S)
  PROVE  SetToSeq(S) \in Seq(S)
<1>1. Cardinality(S) \in Nat /\ ExistsBijection(1..Cardinality(S), S)
  BY FS_CardinalityType
<1>2. \E f \in [1..Cardinality(S) -> S] : IsInjective(f)
  BY <1>1 DEF ExistsBijection, Bijection, Injection, IsInjective
<1>3. SetToSeq(S) \in [1..Cardinality(S) -> S]
  BY <1>2 DEF SetToSeq
<1> QED  BY <1>1, <1>3, SeqDef

(* The cheapest of some lots is one of them. *)
LEMMA CheapestAmong ==
  ASSUME NEW D \in SUBSET Nat, D # {}, NEW lots, DOMAIN lots = D, \A i \in D : lots[i].price \in Nat
  PROVE  \E i \in D : Cheapest(lots) = lots[i]
<1> DEFINE f == [i \in D |-> lots[i].price]
           L == {i \in D : \A j \in D : lots[i].price <= lots[j].price}
<1>1. \E i \in D : \A j \in D : f[i] <= f[j]
  BY LeastValue
<1>2. L # {} /\ L \in SUBSET Nat
  BY <1>1
<1>3. PICK i \in L : \A j \in L : i <= j
  <2> HIDE DEF L
  <2> QED  BY <1>2, LeastNatural
<1>4. \A j \in D : lots[i].price < lots[j].price \/ (lots[i].price = lots[j].price /\ i <= j)
  <2> TAKE j \in D
  <2>1. lots[i].price <= lots[j].price /\ lots[i].price \in Nat /\ lots[j].price \in Nat
    BY <1>3
  <2>2. CASE lots[i].price = lots[j].price
    BY <1>3, <2>2
  <2> QED  BY <2>1, <2>2
<1> QED  BY <1>3, <1>4 DEF Cheapest

(* The best of some candidates is one of them. *)
LEMMA BestAmong ==
  ASSUME NEW D, D # {}, NEW c, DOMAIN c = D, NEW most \in Nat,
         \A i \in D : c[i].matched \in 0..most /\ c[i].target \in Nat /\ c[i].rule.id \in Nat
  PROVE  \E i \in D : Best(c) = c[i]
<1> DEFINE f == [i \in D |-> most - c[i].matched]
           M == {i \in D : \A j \in D : c[j].matched <= c[i].matched}
           g == [i \in M |-> c[i].target]
           T == {i \in M : \A j \in M : c[i].target <= c[j].target}
           e == [i \in T |-> c[i].rule.id]
<1>1. M # {}
  <2>1. \A i \in D : f[i] \in Nat
    OBVIOUS
  <2>2. \E i \in D : \A j \in D : f[i] <= f[j]
    <3> HIDE DEF f
    <3> QED  BY <2>1, LeastValue
  <2> QED  BY <2>2
<1>2. T # {}
  <2>1. \A i \in M : g[i] \in Nat
    OBVIOUS
  <2>2. \E i \in M : \A j \in M : g[i] <= g[j]
    <3> HIDE DEF M, g
    <3> QED  BY <1>1, <2>1, LeastValue
  <2> QED  BY <2>2
<1>3. \E i \in T : \A j \in T : e[i] <= e[j]
  <2>1. \A i \in T : e[i] \in Nat
    OBVIOUS
  <2> HIDE DEF T, e
  <2> QED  BY <1>2, <2>1, LeastValue
<1>4. PICK i \in T : \A j \in T : c[i].rule.id <= c[j].rule.id
  BY <1>3
<1>5. i \in D /\ \A j \in D : Before(c[i], c[j])
  <2>1. i \in M /\ i \in D
    OBVIOUS
  <2>2. ASSUME NEW j \in D
        PROVE  Before(c[i], c[j])
    <3>1. c[i].matched >= c[j].matched
      BY <2>1
    <3>2. CASE c[i].matched > c[j].matched
      BY <3>2 DEF Before
    <3>3. CASE c[i].matched = c[j].matched
      <4>1. j \in M
        BY <2>1, <3>3
      <4>2. c[i].target <= c[j].target
        BY <4>1
      <4>3. CASE c[i].target = c[j].target
        <5>1. j \in T
          BY <4>1, <4>3
        <5> QED  BY <1>4, <3>3, <4>3, <5>1 DEF Before
      <4>4. CASE c[i].target # c[j].target
        BY <3>3, <4>2, <4>4, <4>1 DEF Before
      <4> QED  BY <4>3, <4>4
    <3> QED  BY <2>1, <3>1, <3>2, <3>3
  <2> QED  BY <2>1, <2>2
<1> HIDE DEF T
<1> QED  BY <1>5 DEF Best

(* The keywords of the market are finitely many: so are those that match. *)
LEMMA KeywordsFinite ==
  /\ IsFiniteSet(Keywords) /\ Cardinality(Keywords) \in Nat
  /\ IsFiniteSet(OwnLots) /\ IsFiniteSet(Rivals)
  /\ \A T \in SUBSET Keywords : Cardinality(T) \in 0..Cardinality(Keywords)
<1> DEFINE texts == {Market[l].text : l \in DOMAIN Market}
           f     == [l \in DOMAIN Market |-> Market[l].text]
<1>1. IsFiniteSet(OwnLots) /\ IsFiniteSet(Rivals) /\ DOMAIN Market = OwnLots \cup Rivals
  BY AutoDumpingAssumption
<1>2. IsFiniteSet(DOMAIN Market)
  BY <1>1, FS_Union
<1>3. IsFiniteSet(texts)
  <2>1. f \in Surjection(DOMAIN Market, texts)
    BY DEF Surjection
  <2> HIDE DEF f, texts
  <2> QED  BY <1>2, <2>1, FS_Surjection
<1>4. \A t \in texts : IsFiniteSet(t)
  BY AutoDumpingPanelAssumption
<1>5. IsFiniteSet(UNION texts)
  <2> HIDE DEF texts
  <2> QED  BY <1>3, <1>4, FS_UNION
<1>6. IsFiniteSet(Keywords)
  BY <1>5 DEF Keywords
<1>7. Cardinality(Keywords) \in Nat
  BY <1>6, FS_CardinalityType
<1>8. ASSUME NEW T \in SUBSET Keywords
      PROVE  Cardinality(T) \in 0..Cardinality(Keywords)
  <2>1. IsFiniteSet(T) /\ Cardinality(T) <= Cardinality(Keywords)
    BY <1>6, FS_Subset
  <2>2. Cardinality(T) \in Nat
    BY <2>1, FS_CardinalityType
  <2> QED  BY <1>7, <2>1, <2>2
<1> QED  BY <1>1, <1>6, <1>7, <1>8

(* A candidate: its rule applies to the lot, its price is not under the rule's floor. *)
LEMMA CandidateProperties ==
  ASSUME NEW rules \in Seq(RuleRecords), NEW own, NEW ids, NEW n \in Nat, NEW catalog, DOMAIN catalog = 1..n,
         \A j \in 1..n : catalog[j].price \in Nat /\ catalog[j].id \in Rivals,
         NEW c, c = Candidates(own, catalog, rules, ids), NEW i \in DOMAIN c
  PROVE  /\ i \in DOMAIN rules /\ rules[i] \in RuleRecords /\ c[i].rule = rules[i]
         /\ c[i].rival \in Rivals /\ c[i].matched \in 0..Cardinality(Keywords)
         /\ c[i].target \in Nat /\ c[i].target >= RoundedCents(rules[i].ownMin, 1)
         /\ AppliesTo(rules[i], own)
<1> DEFINE near(rule) == {j \in DOMAIN catalog : Competes(catalog[j], own, rule, ids)}
           useful == {k \in DOMAIN rules : AppliesTo(rules[k], own) /\ near(rules[k]) # {}}
           R      == near(rules[i])
           lots   == Restrict(catalog, R)
           rival  == Cheapest(lots)
<1>1. c = [k \in useful |->
            LET x == Cheapest(Restrict(catalog, near(rules[k])))
            IN  [rule |-> rules[k], rival |-> x.id, matched |-> Matched(x, rules[k]),
                 target |-> FinalPrice(x.price, rules[k])]]
  BY DEF Candidates
<1>2. i \in useful
  BY <1>1
<1>3. i \in DOMAIN rules /\ AppliesTo(rules[i], own) /\ R # {} /\ R \in SUBSET Nat
  BY <1>2
<1>4. rules[i] \in RuleRecords
  BY <1>3, ElementOfSeq, LenProperties
<1>5. DOMAIN lots = R /\ \A j \in R : lots[j] = catalog[j] /\ lots[j].price \in Nat
  BY DEF Restrict
<1>6. c[i] = [rule |-> rules[i], rival |-> rival.id, matched |-> Matched(rival, rules[i]),
              target |-> FinalPrice(rival.price, rules[i])]
  BY <1>1, <1>2
<1>7. PICK j \in R : rival = lots[j]
  <2> HIDE DEF R, lots
  <2> QED  BY <1>3, <1>5, CheapestAmong
<1>8. rival.price \in Nat /\ rival.id \in Rivals
  <2>1. j \in 1..n /\ rival = catalog[j]
    BY <1>5, <1>7
  <2> QED  BY <2>1
<1> HIDE DEF rival
<1>9. FinalPrice(rival.price, rules[i]) \in Nat /\ FinalPrice(rival.price, rules[i]) >= RoundedCents(rules[i].ownMin, 1)
  BY <1>4, <1>8, FinalPriceFloor
<1>10. Matched(rival, rules[i]) \in 0..Cardinality(Keywords)
  <2>1. rules[i].keywords \cap rival.text \in SUBSET Keywords
    BY <1>4 DEF RuleRecords
  <2> QED  BY <2>1, KeywordsFinite DEF Matched
<1> QED  BY <1>3, <1>4, <1>6, <1>8, <1>9, <1>10

(* What a cycle decides about a lot. *)
Decided == [lot : OwnLots, seen : Nat, conflict : BOOLEAN, target : Nat, told : RuleIds \X Nat \X Rivals]

(* The prices on FunPay, and those of the cached profile. *)
PricesOK == price \in [OwnLots \cup Rivals -> Nat] /\ profile \in [OwnLots -> Nat]

(* What a cycle decides about a lot is decided by an enabled rule that is for the lot, or for all lots, and that *)
(* the decision names; the price is never under the rule's own minimum, to the cent: decide and                  *)
(* _rule_matches_lot of AutoDumpingService.                                                                      *)
THEOREM DecidedByRule ==
  ASSUME PricesOK, NEW rules \in Seq(RuleRecords)
  PROVE  /\ Decisions(rules) \in Seq(Decided)
         /\ \A n \in DOMAIN Decisions(rules) : \E i \in DOMAIN rules :
               /\ rules[i].enabled /\ rules[i].id = Decisions(rules)[n].told[1]
               /\ rules[i].lot # AnyLot => rules[i].lot = Decisions(rules)[n].lot
               /\ Decisions(rules)[n].target >= RoundedCents(rules[i].ownMin, 1)
<1> DEFINE lot(l)  == [id |-> l, price |-> price[l], seller |-> Market[l].seller, sub |-> Market[l].sub,
                       text |-> Market[l].text, words |-> Market[l].words]
           rivals  == SetToSeq(Rivals)
           catalog == [i \in DOMAIN rivals |-> lot(rivals[i])]
           found(l) == Candidates(lot(l), catalog, rules, OwnLots)
           decision(l) == [lot |-> l, seen |-> profile[l], conflict |-> Cardinality(DOMAIN found(l)) > 1,
                           target |-> Best(found(l)).target,
                           told |-> <<Best(found(l)).rule.id, Best(found(l)).target, Best(found(l)).rival>>]
           busy    == {l \in OwnLots : DOMAIN found(l) # {}}
           decided == SetToSeq(busy)
<1>1. Decisions(rules) = [i \in DOMAIN decided |-> decision(decided[i])]
  BY DEF Decisions
<1>2. rivals \in Seq(Rivals) /\ Len(rivals) \in Nat /\ DOMAIN rivals = 1..Len(rivals)
  BY KeywordsFinite, ListedType, LenProperties
<1>3. \A j \in 1..Len(rivals) : rivals[j] \in Rivals
  <2> HIDE DEF rivals
  <2> QED  BY <1>2, ElementOfSeq
<1>4. DOMAIN catalog = 1..Len(rivals) /\ \A j \in 1..Len(rivals) : catalog[j].price \in Nat /\ catalog[j].id \in Rivals
  <2> HIDE DEF rivals
  <2> QED  BY <1>2, <1>3 DEF PricesOK
<1>5. decided \in Seq(busy) /\ DOMAIN decided = 1..Len(decided) /\ Len(decided) \in Nat
  <2>1. IsFiniteSet(busy)
    <3> HIDE DEF found
    <3> QED  BY KeywordsFinite, FS_Subset
  <2> HIDE DEF busy
  <2> QED  BY <2>1, ListedType, LenProperties
<1>6. ASSUME NEW l \in busy
      PROVE  /\ decision(l) \in Decided
             /\ \E i \in DOMAIN rules :
                   /\ rules[i].enabled /\ rules[i].id = decision(l).told[1]
                   /\ rules[i].lot # AnyLot => rules[i].lot = decision(l).lot
                   /\ decision(l).target >= RoundedCents(rules[i].ownMin, 1)
  <2> DEFINE c == found(l)
             b == Best(c)
             own == lot(l)
  <2>1. l \in OwnLots /\ DOMAIN c # {}
    OBVIOUS
  <2>2. c = Candidates(own, catalog, rules, OwnLots) /\ own.id = l
    OBVIOUS
  <2>3. ASSUME NEW i \in DOMAIN c
        PROVE  /\ i \in DOMAIN rules /\ rules[i] \in RuleRecords /\ c[i].rule = rules[i]
               /\ c[i].rival \in Rivals /\ c[i].matched \in 0..Cardinality(Keywords)
               /\ c[i].target \in Nat /\ c[i].target >= RoundedCents(rules[i].ownMin, 1)
               /\ AppliesTo(rules[i], own)
    <3> DEFINE n == Len(rivals)
    <3>1. n \in Nat /\ DOMAIN catalog = 1..n /\ \A j \in 1..n : catalog[j].price \in Nat /\ catalog[j].id \in Rivals
      BY <1>2, <1>4
    <3> HIDE DEF c, own, n, catalog
    <3> QED  BY <2>2, <2>3, <3>1, CandidateProperties
  <2>4. decision(l) = [lot |-> l, seen |-> profile[l], conflict |-> Cardinality(DOMAIN c) > 1, target |-> b.target,
                       told |-> <<b.rule.id, b.target, b.rival>>]
    OBVIOUS
  <2> HIDE DEF c, decision, own
  <2>5. \A i \in DOMAIN c : c[i].matched \in 0..Cardinality(Keywords) /\ c[i].target \in Nat /\ c[i].rule.id \in Nat
    BY <2>3, AutoDumpingAssumption DEF RuleRecords
  <2>6. PICK i \in DOMAIN c : b = c[i]
    BY <2>1, <2>5, KeywordsFinite, BestAmong
  <2> HIDE DEF b
  <2>7. b.rule = rules[i] /\ b.rule.id \in RuleIds /\ b.target \in Nat /\ b.rival \in Rivals
    BY <2>3, <2>6 DEF RuleRecords
  <2>8. profile[l] \in Nat
    BY <2>1 DEF PricesOK
  <2>9. decision(l) \in Decided
    BY <2>1, <2>4, <2>7, <2>8 DEF Decided
  <2>10. rules[i].enabled /\ (rules[i].lot # AnyLot => rules[i].lot = l)
    BY <2>2, <2>3 DEF AppliesTo
  <2>11. /\ decision(l).lot = l /\ decision(l).told[1] = rules[i].id
         /\ decision(l).target >= RoundedCents(rules[i].ownMin, 1)
    BY <2>3, <2>4, <2>6, <2>7
  <2> QED  BY <2>3, <2>9, <2>10, <2>11
<1>7. \A n \in 1..Len(decided) : decided[n] \in busy
  <2> HIDE DEF decided, busy
  <2> QED  BY <1>5, ElementOfSeq
<1> HIDE DEF decision, decided, busy
<1>8. Decisions(rules) \in Seq(Decided)
  <2>1. Decisions(rules) \in [1..Len(decided) -> Decided]
    BY <1>1, <1>5, <1>6, <1>7
  <2> QED  BY <1>5, <2>1, SeqDef
<1> QED  BY <1>1, <1>5, <1>6, <1>7, <1>8

-----------------------------------------------------------------------------
(* What the panels and the gist command leave of the cycles. *)

(* A handler away from more is away from less. *)
LEMMA TurnsLess ==
  ASSUME NEW h \in Handlers, NEW S, NEW T, S \subseteq T, Turns(h, T)
  PROVE  Turns(h, S)
BY DEF Turns

(* The gist command takes no step of a cycle. *)
LEMMA GistTurns ==
  ASSUME NEW h \in Handlers, pc[h] \in GistSteps,
         \/ Ends(h)
         \/ UNCHANGED my /\ \E s \in GistSteps : Goto(h, s)
         \/ \E on : \E s \in GistSteps : Continue(h, on, s)
  PROVE  Turns(h, CycleSteps)
<1>1. GistSteps \cap CycleSteps = {} /\ "idle" \notin CycleSteps
  BY DEF GistSteps, AskSteps, CycleSteps
<1>2. \E s, v : s \in GistSteps \cup {"idle"} /\ Acts(h, s, v)
  BY DEF Acts, Ends, Continue
<1> QED  BY <1>1, <1>2 DEF Turns

(* The gist command disturbs no cycle. *)
LEMMA GistCycles ==
  ASSUME Typed, GistStep, UNCHANGED <<astray, stopping, worker>>
  PROVE  Undisturbed(CycleSteps) /\ WorkersStay
<1>1. CycleSteps \subseteq Away /\ GistSteps \cap CycleSteps = {} /\ "idle" \notin CycleSteps
  BY DEF Away, GistSteps, AskSteps, CycleSteps
<1>2. CASE CancelOrderSelection \/ SkipResult \/ \E u \in Users : EditGist(u)
  BY <1>2, StillUndisturbed DEF CancelOrderSelection, SkipResult, EditGist
<1>3. ASSUME NEW h \in Handlers, NEW u \in Users, AskGist(h, u) \/ SelectOrder(h, u) \/ SendResult(h, u)
      PROVE  Undisturbed(CycleSteps) /\ WorkersStay
  <2>1. \E v : \E s \in GistSteps : Begin(h, v, s)
    <3>1. {"choose", "check", "name", "send"} \subseteq GistSteps
      BY DEF GistSteps, AskSteps
    <3>2. \E v : \E s \in {"choose", "check", "name", "send"} : Begin(h, v, s)
      BY <1>3 DEF AskGist, SelectOrder, SendResult
    <3> QED  BY <3>1, <3>2
  <2>2. Turns(h, CycleSteps)
    BY <1>1, <2>1 DEF Turns, Begin, Acts
  <2> QED  BY <2>2, TurnsUndisturbed
<1>4. ASSUME NEW h \in Handlers, NEW u \in Users, SetGist(h, u) \/ SaveGistText(h, u)
      PROVE  Undisturbed(CycleSteps) /\ WorkersStay
  <2>1. Turns(h, CycleSteps)
    BY <1>1, <1>4, SetGistSaves, SaveGistTextSaves, UpdatesTurns, TurnsLess
  <2> QED  BY <2>1, TurnsUndisturbed
<1>5. ASSUME NEW h \in Handlers, \/ StartOrderSelection(h) \/ FetchOrders(h) \/ CheckConfig(h)
                                 \/ NameGist(h) \/ NameByOrder(h)
                                 \/ CreateGist(h) \/ CreateFails(h) \/ LinkSent(h) \/ SendFails(h)
      PROVE  Undisturbed(CycleSteps) /\ WorkersStay
  <2>1. pc[h] \in GistSteps
    BY <1>5 DEF StartOrderSelection, FetchOrders, CheckConfig, NameGist, NameByOrder, CreateGist, CreateFails, LinkSent,
       SendFails, GistSteps, AskSteps
  <2>2. \/ Ends(h)
        \/ UNCHANGED my /\ \E s \in GistSteps : Goto(h, s)
        \/ \E on : \E s \in GistSteps : Continue(h, on, s)
    <3>1. CASE NameGist(h) \/ NameByOrder(h)
      <4>1. \E client, chat : Named(h, client, chat)
        BY <3>1 DEF NameGist, NameByOrder
      <4> QED  BY <4>1 DEF Named, GistSteps, AskSteps
    <3>2. CASE StartOrderSelection(h) \/ FetchOrders(h) \/ CheckConfig(h)
      BY <3>2 DEF StartOrderSelection, FetchOrders, CheckConfig, GistSteps, AskSteps
    <3>3. CASE CreateGist(h) \/ CreateFails(h) \/ LinkSent(h) \/ SendFails(h)
      BY <3>3 DEF CreateGist, CreateFails, LinkSent, SendFails
    <3> QED  BY <1>5, <3>1, <3>2, <3>3
  <2>3. Turns(h, CycleSteps)
    BY <2>1, <2>2, GistTurns
  <2> QED  BY <2>3, TurnsUndisturbed
<1>6. ASSUME NEW h \in Handlers, GistSaved(h)
      PROVE  Undisturbed(CycleSteps) /\ WorkersStay
  <2>1. Turns(h, CycleSteps)
    BY <1>1, <1>6, SavedWrites, WritesTurns, TurnsLess
  <2> QED  BY <2>1, TurnsUndisturbed
<1> QED  BY <1>2, <1>3, <1>4, <1>5, <1>6 DEF GistStep

(* What a step leaves of the cycles and of their memory that is neither theirs nor a restart. *)
Quiet ==
  /\ Undisturbed(CycleSteps) /\ WorkersStay
  /\ UNCHANGED <<cycleLock, cycle, storage, history>> /\ (PricesOK => PricesOK')

(* Every step but those of a cycle, of a worker that is woken and of a restart is quiet. *)
LEMMA QuietSteps ==
  ASSUME Typed, AdminNext, ~Restart, \A w \in Workers : ~WorkerLoops(w), \A a \in Actors : ~Cycles(a)
  PROVE  Quiet
<1>1. CASE GistStep /\ UNCHANGED <<pages, astray, scheduler, cycle, price, profile, storage, history>>
  BY <1>1, GistCycles DEF Quiet, PricesOK, scheduler
<1>2. CASE Step
  <2>1. Undisturbed(CycleSteps) /\ WorkersStay
    <3>1. CycleSteps \subseteq Away
      BY DEF Away
    <3> QED  BY <1>2, <3>1, StepUndisturbed, LessUndisturbed
  <2>2. CASE SettingsStep /\ UNCHANGED <<pages, astray, scheduler, cycle, price, profile, storage, history>>
    BY <2>1, <2>2 DEF Quiet, PricesOK, scheduler
  <2>3. CASE PanelStep /\ UNCHANGED <<scheduler, cycle, price, profile, storage, history>>
    BY <2>1, <2>3 DEF Quiet, PricesOK, scheduler
  <2>4. CASE \E u \in Users : AskInterval(u)
    BY <2>1, <2>4 DEF AskInterval, Quiet, PricesOK, scheduler
  <2>5. CASE \E h \in Handlers, u \in Users : Switch(h, u) \/ SetInterval(h, u) \/ RunNow(h, u)
    <3>1. UNCHANGED <<scheduler, cycle, price, profile, storage, history>>
      BY <2>5 DEF Switch, SetInterval, RunNow
    <3> QED  BY <2>1, <3>1 DEF Quiet, PricesOK, scheduler
  <2>6. CASE \E h \in Handlers : SwitchSaved(h) \/ StopScheduler(h) \/ Joined(h) \/ StartScheduler(h) \/ Spawn(h)
    <3>1. UNCHANGED <<cycleLock, cycle, price, profile, storage, history>>
      BY <2>6 DEF SwitchSaved, StopScheduler, Joined, StartScheduler, Spawn, scheduler
    <3> QED  BY <2>1, <3>1 DEF Quiet, PricesOK
  <2>7. CASE PriceMoves
    <3>1. UNCHANGED <<cycleLock, cycle, profile, storage, history>>
      BY <2>7 DEF PriceMoves, marketElsewhere, scheduler
    <3>2. PICK l \in OwnLots \cup Rivals, p \in Prices : price' = [price EXCEPT ![l] = p]
      BY <2>7 DEF PriceMoves
    <3>3. PricesOK => PricesOK'
      BY <3>1, <3>2, AutoDumpingAssumption DEF PricesOK
    <3> QED  BY <2>1, <3>1, <3>3 DEF Quiet
  <2>8. CASE ProfileRefreshes
    <3>1. UNCHANGED <<cycleLock, cycle, price, storage, history>>
      BY <2>8 DEF ProfileRefreshes, marketElsewhere, scheduler
    <3>2. PricesOK => PricesOK'
      BY <2>8, <3>1 DEF ProfileRefreshes, PricesOK
    <3> QED  BY <2>1, <3>1, <3>2 DEF Quiet
  <2>9. ASSUME NEW w \in Workers
        PROVE  ~WorkerLoops(w)
    OBVIOUS
  <2> QED  BY <1>2, <2>2, <2>3, <2>4, <2>5, <2>6, <2>7, <2>8 DEF Step, Cycles
<1> QED  BY <1>1, <1>2 DEF AdminNext

(* The heap of the settings grows, but for a restart. *)
LEMMA HeapGrows ==
  ASSUME Typed, AdminNext, ~Restart
  PROVE  Len(heap) <= Len(heap')
<1>1. heap \in Seq(Config) /\ Len(heap) \in Nat /\ current \in 1..Len(heap)
  BY LenProperties DEF Typed, StoreOK
<1>2. CASE UNCHANGED heap
  BY <1>1, <1>2
<1>3. ASSUME NEW h \in Handlers, Updates(h)
      PROVE  Len(heap) <= Len(heap')
  <2>1. PICK job, new : UpdatesAs(h, job, new)
    BY <1>3 DEF Updates
  <2>2. new \in Config /\ heap' = [heap EXCEPT ![current] = new]
    BY <2>1, UpdatesActs DEF UpdatesAs, Change
  <2> QED  BY <1>1, <2>2, ExceptSeq
<1>4. ASSUME NEW h \in Handlers, RollBack(h)
      PROVE  Len(heap) <= Len(heap')
  <2>1. heap' = Append(heap, my[h].previous) /\ my[h].previous \in Config
    BY <1>4, HandlerWork DEF RollBack, WorkOK
  <2> QED  BY <1>1, <2>1, AppendProperties
<1>5. ASSUME NEW h \in Handlers, Writes(h) \/ Drives(h)
      PROVE  UNCHANGED heap
  BY <1>5 DEF Writes, Written, Drives, SwitchSaved, StopScheduler, Joined, StartScheduler, Spawn, settings
<1>6. ASSUME NEW w \in Workers, WorkerLoops(w)
      PROVE  UNCHANGED heap
  BY <1>6 DEF WorkerLoops, settings
<1> QED  BY <1>2, <1>3, <1>4, <1>5, <1>6, StepKinds DEF Kinds, Aside, settings

-----------------------------------------------------------------------------
(* The memory of the prices applied. *)

(* What a thread in a cycle has still to do. *)
CyclesOK ==
  /\ cycle \in [Actors -> [kept : Nat, todo : Seq(Decided), crossed : BOOLEAN]]
  /\ \A a \in Actors : /\ pc[a] = "fetch" => cycle[a].kept \in 1..Len(heap)
                       /\ pc[a] \in {"update", "record", "tell"} => cycle[a].todo # <<>>
                       /\ pc[a] = "update" => Turn(a).target > 0

(* Entries of applied prices, one for each lot at most and not too many. *)
Saved == [lot : OwnLots, target : Nat, seen : Nat]

(* No lot has two entries. *)
OneEach(entries) == \A i, j \in DOMAIN entries : entries[i].lot = entries[j].lot => i = j

(* The entries the storage may hold. *)
EntriesOK(entries) == entries \in Seq(Saved) /\ Len(entries) <= AppliedLimit /\ OneEach(entries)

(* The memory, its file, and the history of what was saved. *)
MemoryOK ==
  /\ EntriesOK(applied) /\ EntriesOK(stateFile.applied)
  /\ last \in [OwnLots -> [target : Nat, seen : Nat]]
  /\ again \subseteq OwnLots /\ trouble \subseteq OwnLots

(* A worker in a cycle has the lock; of two threads in a cycle both know. *)
LockOK ==
  /\ cycleLock \in Workers \cup {Nobody}
  /\ \A w \in Workers : pc[w] \in {"begin"} \cup CycleSteps => cycleLock = w
  /\ \A a, b \in InCycle : a # b => cycle[a].crossed

(* The price last saved for a lot is among some entries. *)
Holds(entries, l) == AsEntry(l, last[l]) \in ToSet(entries)

(* The price a decision saves, and the one seen then. *)
PriceOf(d) == [target |-> d.target, seen |-> d.seen]

(* A lot that is not in trouble: the price last saved for it is among the applied ones or about to be, and a *)
(* cycle that nobody crosses is not about to save it again. *)
SavedInv ==
  /\ again \subseteq trouble
  /\ \A l \in OwnLots \ trouble : last[l] # Nothing =>
       Holds(applied, l) \/ \E a \in Actors : pc[a] = "record" /\ Turn(a).lot = l
  /\ \A a \in Actors : pc[a] = "record" /\ Turn(a).lot \notin trouble => last[Turn(a).lot] = PriceOf(Turn(a))
  /\ \A a \in Actors : pc[a] = "update" /\ ~cycle[a].crossed /\ Turn(a).lot \notin trouble =>
       last[Turn(a).lot] # PriceOf(Turn(a))

(* The invariant behind SavedOnce. *)
OnceInv == PricesOK /\ CyclesOK /\ MemoryOK /\ LockOK /\ SavedInv

(* Quiet steps keep it. *)
LEMMA QuietOnce ==
  ASSUME Typed, Typed', OnceInv, Quiet, Len(heap) <= Len(heap')
  PROVE  OnceInv'
<1>1. UNCHANGED <<cycleLock, cycle, applied, told, stateFile, last, again, trouble>> /\ PricesOK'
  BY DEF Quiet, OnceInv, storage, history
<1>2. \A a \in Actors : pc[a] \in CycleSteps \/ pc'[a] \in CycleSteps => pc'[a] = pc[a]
  BY DEF Quiet, Undisturbed
<1>3. \A a \in Actors : Turn(a)' = Turn(a)
  BY <1>1 DEF Turn
<1>4. Len(heap) \in Nat /\ Len(heap') \in Nat
  BY LenProperties DEF Typed, StoreOK
<1>5. CyclesOK'
  <2>1. cycle' \in [Actors -> [kept : Nat, todo : Seq(Decided), crossed : BOOLEAN]]
    BY <1>1 DEF OnceInv, CyclesOK
  <2>2. ASSUME NEW a \in Actors
        PROVE  /\ pc'[a] = "fetch" => cycle'[a].kept \in 1..Len(heap')
               /\ pc'[a] \in {"update", "record", "tell"} => cycle'[a].todo # <<>>
               /\ pc'[a] = "update" => Turn(a)'.target > 0
    BY <1>1, <1>2, <1>3, <1>4 DEF OnceInv, CyclesOK, CycleSteps
  <2> QED  BY <2>1, <2>2 DEF CyclesOK
<1>6. MemoryOK'
  BY <1>1 DEF OnceInv, MemoryOK, EntriesOK, OneEach
<1>7. LockOK'
  <2>1. \A w \in Workers : pc'[w] \in {"begin"} \cup CycleSteps => pc[w] = pc'[w]
    BY DEF Quiet, WorkersStay, CycleSteps
  <2>2. InCycle' = InCycle
    BY <1>2 DEF InCycle, CycleSteps
  <2> QED  BY <1>1, <2>1, <2>2 DEF OnceInv, LockOK
<1>8. SavedInv'
  <2>1. \A l : Holds(applied, l)' <=> Holds(applied, l)
    BY <1>1 DEF Holds
  <2>2. \A a \in Actors : (pc'[a] = "record" <=> pc[a] = "record") /\ (pc'[a] = "update" <=> pc[a] = "update")
    BY <1>2 DEF CycleSteps
  <2>3. \A d : PriceOf(d)' = PriceOf(d)
    BY DEF PriceOf
  <2>4. again' \subseteq trouble'
    BY <1>1 DEF OnceInv, SavedInv
  <2>5. \A l \in OwnLots \ trouble' : last'[l] # Nothing =>
           Holds(applied, l)' \/ \E a \in Actors : pc'[a] = "record" /\ Turn(a)'.lot = l
    BY <1>1, <1>3, <2>1, <2>2 DEF OnceInv, SavedInv
  <2>6. \A a \in Actors : pc'[a] = "record" /\ Turn(a)'.lot \notin trouble' => last'[Turn(a)'.lot] = PriceOf(Turn(a)')
    BY <1>1, <1>3, <2>2 DEF OnceInv, SavedInv
  <2>7. \A a \in Actors : pc'[a] = "update" /\ ~cycle'[a].crossed /\ Turn(a)'.lot \notin trouble' =>
           last'[Turn(a)'.lot] # PriceOf(Turn(a)')
    BY <1>1, <1>3, <2>2 DEF OnceInv, SavedInv
  <2> QED  BY <2>4, <2>5, <2>6, <2>7 DEF SavedInv
<1> QED  BY <1>1, <1>5, <1>6, <1>7, <1>8 DEF OnceInv

(* Entry finds the entry of a lot, or none. *)
LEMMA EntryFinds ==
  ASSUME applied \in Seq(Saved), NEW l
  PROVE  /\ Entry(l) # 0 => Entry(l) \in 1..Len(applied) /\ applied[Entry(l)].lot = l
         /\ Entry(l) = 0 => \A i \in 1..Len(applied) : applied[i].lot # l
<1> DEFINE I == {i \in 1..Len(applied) : applied[i].lot = l}
<1>1. Entry(l) = IF I # {} THEN Min(I) ELSE 0
  BY DEF Entry, SelectInSeq
<1>2. I \in SUBSET Nat /\ 0 \notin I
  BY LenProperties
<1>3. CASE I # {}
  <2>1. \E i \in I : \A j \in I : i =< j
    <3> HIDE DEF I
    <3> QED  BY <1>2, <1>3, LeastNatural
  <2>2. Min(I) \in I
    <3> HIDE DEF I
    <3> QED  BY <1>3, <2>1 DEF Min
  <2> QED  BY <1>1, <1>2, <1>3, <2>2
<1>4. CASE I = {}
  BY <1>1, <1>4
<1> QED  BY <1>3, <1>4

(* The entries with one that is set: it is there, and all those of other lots. *)
LEMMA WithEntryProperties ==
  ASSUME applied \in Seq(Saved), OneEach(applied), NEW e \in Saved, NEW all, all = WithEntry(e)
  PROVE  /\ all \in Seq(Saved) /\ OneEach(all)
         /\ e \in ToSet(all) /\ \A x \in ToSet(applied) : x.lot # e.lot => x \in ToSet(all)
<1> DEFINE k == Entry(e.lot)
           n == Len(applied)
<1>1. /\ k # 0 => k \in 1..n /\ applied[k].lot = e.lot
      /\ k = 0 => \A i \in 1..n : applied[i].lot # e.lot
  BY EntryFinds
<1>2. n \in Nat /\ DOMAIN applied = 1..n
  BY LenProperties
<1>3. all = IF k # 0 THEN [applied EXCEPT ![k] = e] ELSE Append(applied, e)
  BY DEF WithEntry
<1> HIDE DEF k, n
<1>4. CASE k # 0
  <2>1. all = [applied EXCEPT ![k] = e] /\ k \in 1..n
    BY <1>1, <1>3, <1>4
  <2>2. all \in Seq(Saved) /\ Len(all) = n
    BY <2>1, ExceptSeq DEF n
  <2>3. DOMAIN all = 1..n /\ all[k] = e /\ \A i \in 1..n : i # k => all[i] = applied[i]
    BY <1>2, <2>1
  <2>4. \A i \in 1..n : all[i].lot = applied[i].lot
    BY <1>1, <1>4, <2>3
  <2>5. OneEach(all)
    BY <1>2, <2>3, <2>4 DEF OneEach
  <2>6. \A x \in ToSet(applied) : x.lot # e.lot => x \in ToSet(all)
    BY <1>1, <1>2, <1>4, <2>3 DEF ToSet
  <2>7. e \in ToSet(all)
    BY <2>1, <2>3 DEF ToSet
  <2> QED  BY <2>2, <2>5, <2>6, <2>7
<1>5. CASE k = 0
  <2>1. all = Append(applied, e)
    BY <1>3, <1>5
  <2>2. all \in Seq(Saved) /\ Len(all) = n + 1 /\ all[n + 1] = e /\ \A i \in 1..n : all[i] = applied[i]
    BY <2>1, AppendProperties DEF n
  <2>3. DOMAIN all = 1..n + 1
    BY <2>2, LenProperties
  <2>4. OneEach(all)
    <3> SUFFICES ASSUME NEW i \in 1..n + 1, NEW j \in 1..n + 1, all[i].lot = all[j].lot
                 PROVE  i = j
      BY <2>3 DEF OneEach
    <3>1. \A m \in 1..n + 1 : m \in 1..n \/ m = n + 1
      BY <1>2
    <3>2. \A m \in 1..n : all[m].lot # e.lot
      BY <1>1, <1>5, <2>2
    <3> QED  BY <1>2, <2>2, <3>1, <3>2 DEF OneEach
  <2>5. \A x \in ToSet(applied) : x \in ToSet(all)
    BY <1>2, <2>2, <2>3 DEF ToSet
  <2>6. e \in ToSet(all)
    BY <1>2, <2>2, <2>3 DEF ToSet
  <2> QED  BY <2>2, <2>4, <2>5, <2>6
<1> QED  BY <1>4, <1>5

(* Over the limit the oldest entries go. *)
LEMMA CappedProperties ==
  ASSUME NEW all \in Seq(Saved), OneEach(all)
  PROVE  EntriesOK(Capped(all)) /\ ToSet(Capped(all)) \subseteq ToSet(all)
<1> DEFINE n == Len(all)
           m == 1 + (IF n > AppliedLimit THEN n - AppliedLimit ELSE 0)
           r == SubSeq(all, m, n)
<1>1. n \in Nat /\ DOMAIN all = 1..n /\ AppliedLimit \in Nat \ {0}
  BY LenProperties, AutoDumpingAssumption
<1>2. m \in 1..n + 1 /\ n \in m - 1..n /\ m \in Nat \ {0} /\ n \in 0..n /\ n - m + 1 <= AppliedLimit
  BY <1>1
<1>3. \A i \in m..n : i \in 1..n /\ all[i] \in Saved
  <2>1. \A i \in m..n : i \in 1..n
    BY <1>1, <1>2
  <2> QED  BY <2>1, ElementOfSeq
<1>4. Capped(all) = r
  BY DEF Capped
<1> HIDE DEF m
<1>5. /\ r \in Seq(Saved) /\ Len(r) = IF m <= n THEN n - m + 1 ELSE 0
      /\ \A i \in 1..n - m + 1 : r[i] = all[m + i - 1]
  BY <1>1, <1>2, <1>3, SubSeqProperties
<1> HIDE DEF r, n
<1>6. DOMAIN r = 1..Len(r) /\ Len(r) <= AppliedLimit /\ Len(r) \in Nat
  BY <1>1, <1>2, <1>5, LenProperties
<1>7. \A i \in DOMAIN r : m + i - 1 \in DOMAIN all /\ r[i] = all[m + i - 1] /\ i \in Nat
  BY <1>1, <1>2, <1>5, <1>6
<1>8. OneEach(r)
  <2> SUFFICES ASSUME NEW i \in DOMAIN r, NEW j \in DOMAIN r, r[i].lot = r[j].lot
               PROVE  i = j
    BY DEF OneEach
  <2>1. m + i - 1 = m + j - 1
    BY <1>7 DEF OneEach
  <2> QED  BY <1>2, <1>7, <2>1
<1>9. ToSet(r) \subseteq ToSet(all)
  BY <1>7 DEF ToSet
<1> QED  BY <1>4, <1>5, <1>6, <1>8, <1>9 DEF EntriesOK

(* One thread takes a step. *)
LEMMA OneThread ==
  ASSUME Typed, NEW a \in Actors, NEW s, Goto(a, s)
  PROVE  pc'[a] = s /\ \A b \in Actors : b # a => pc'[b] = pc[b]
BY DEF Typed, ThreadsOK, Goto

(* What a thread in a cycle leaves alone. *)
LEMMA CycleLeaves ==
  ASSUME NEW a \in Actors, Cycles(a)
  PROVE  UNCHANGED <<heap, profile>> /\ pc[a] \in {"begin"} \cup CycleSteps
<1>1. UNCHANGED cycleElsewhere
  BY DEF Cycles, CycleBegins, CycleReads, ReadFails, ConsiderLot, UpdatePrice, UpdateFails, Record, Tell, FinishCycle
<1>2. pc[a] \in {"begin"} \cup CycleSteps
  BY DEF Cycles, CycleBegins, CycleReads, ReadFails, ConsiderLot, UpdatePrice, UpdateFails, Record, Tell, FinishCycle,
     CycleSteps
<1> QED  BY <1>1, <1>2 DEF cycleElsewhere, settings

(* What a thread in a cycle knows. *)
Tasks == [kept : Nat, todo : Seq(Decided), crossed : BOOLEAN]

(* A thread that goes on with something to do. *)
LEMMA TaskGoes ==
  ASSUME Typed, CyclesOK, UNCHANGED heap, NEW a \in Actors, NEW s, Goto(a, s),
         NEW c \in Tasks, cycle' = [cycle EXCEPT ![a] = c], s = "fetch" => c.kept \in 1..Len(heap),
         s \in {"update", "record", "tell"} => c.todo # <<>>, s = "update" => Head(c.todo).target > 0
  PROVE  CyclesOK'
<1>1. pc'[a] = s /\ \A b \in Actors : b # a => pc'[b] = pc[b]
  BY OneThread
<1>2. cycle' \in [Actors -> Tasks] /\ cycle'[a] = c /\ \A b \in Actors : b # a => cycle'[b] = cycle[b]
  BY DEF CyclesOK, Tasks
<1>3. ASSUME NEW b \in Actors
      PROVE  /\ pc'[b] = "fetch" => cycle'[b].kept \in 1..Len(heap')
             /\ pc'[b] \in {"update", "record", "tell"} => cycle'[b].todo # <<>>
             /\ pc'[b] = "update" => Turn(b)'.target > 0
  <2>1. CASE b = a
    BY <1>1, <1>2, <2>1 DEF Turn
  <2>2. CASE b # a
    BY <1>1, <1>2, <2>2 DEF CyclesOK, Turn
  <2> QED  BY <2>1, <2>2
<1> QED  BY <1>2, <1>3 DEF CyclesOK, Tasks

(* What to do stays, or loses its first lot. *)
LEMMA TaskStays ==
  ASSUME Typed, CyclesOK, UNCHANGED <<heap, cycle>>, NEW a \in Actors, NEW s, Goto(a, s), s # "fetch",
         s \in {"update", "record", "tell"} => cycle[a].todo # <<>>, s = "update" => Turn(a).target > 0
  PROVE  CyclesOK'
<1>1. pc'[a] = s /\ \A b \in Actors : b # a => pc'[b] = pc[b]
  BY OneThread
<1>2. ASSUME NEW b \in Actors
      PROVE  /\ pc'[b] = "fetch" => cycle'[b].kept \in 1..Len(heap')
             /\ pc'[b] \in {"update", "record", "tell"} => cycle'[b].todo # <<>>
             /\ pc'[b] = "update" => Turn(b)'.target > 0
  <2>1. Turn(b)' = Turn(b)
    BY DEF Turn
  <2> QED  BY <1>1, <2>1 DEF CyclesOK
<1> QED  BY <1>2 DEF CyclesOK

(* A lot is done with. *)
LEMMA TaskNext ==
  ASSUME Typed, CyclesOK, UNCHANGED heap, NEW a \in Actors, NextLot(a), cycle[a].todo # <<>>
  PROVE  CyclesOK'
<1>1. PICK c : c = [cycle[a] EXCEPT !.todo = Tail(@)]
  OBVIOUS
<1>2. c \in Tasks
  <2>1. cycle[a] \in Tasks
    BY DEF CyclesOK, Tasks
  <2>2. Tail(cycle[a].todo) \in Seq(Decided)
    BY <2>1, HeadTailProperties DEF Tasks
  <2> QED  BY <1>1, <2>1, <2>2 DEF Tasks
<1>3. PICK s : s = "lots" /\ cycle' = [cycle EXCEPT ![a] = c] /\ Goto(a, s)
  BY <1>1 DEF NextLot
<1>4. s # "fetch" /\ s \notin {"update", "record", "tell"} /\ s # "update"
  BY <1>3
<1> QED  BY <1>2, <1>3, <1>4, TaskGoes

(* A cycle that is over leaves nothing to do. *)
LEMMA TaskOver ==
  ASSUME Typed, CyclesOK, UNCHANGED heap, NEW a \in Actors, CycleOver(a)
  PROVE  CyclesOK'
<1>1. NoCycle \in Tasks
  BY EmptySeq DEF NoCycle, Tasks
<1>2. \E s \in {"loop", "idle"} : Goto(a, s)
  BY DEF CycleOver
<1>3. cycle' = [cycle EXCEPT ![a] = NoCycle]
  BY DEF CycleOver
<1> QED  BY <1>1, <1>2, <1>3, TaskGoes

(* A cycle that begins tells the others. *)
LEMMA TaskBegins ==
  ASSUME Typed, CyclesOK, NEW a \in Actors, CycleBegins(a)
  PROVE  CyclesOK'
<1>1. UNCHANGED <<heap, current>>
  BY DEF CycleBegins, cycleElsewhere, settings
<1>2. CASE CycleOver(a)
  BY <1>1, <1>2, TaskOver
<1>3. CASE /\ Goto(a, "fetch")
           /\ LET crossing(b) == b # a /\ b \in InCycle /\ {a, b} \cap Handlers # {}
              IN  cycle' = [b \in Actors |->
                     IF b = a THEN [kept |-> current, todo |-> <<>>, crossed |-> \E c \in Actors : crossing(c)]
                     ELSE [cycle[b] EXCEPT !.crossed = @ \/ crossing(b)]]
  <2> DEFINE crossing(b) == b # a /\ b \in InCycle /\ {a, b} \cap Handlers # {}
             first == [kept |-> current, todo |-> <<>>, crossed |-> \E c \in Actors : crossing(c)]
  <2>1. cycle' = [b \in Actors |-> IF b = a THEN first ELSE [cycle[b] EXCEPT !.crossed = @ \/ crossing(b)]]
    BY <1>3
  <2>2. first \in Tasks /\ first.kept = current
    <3>1. current \in Nat
      BY LenProperties DEF Typed, StoreOK
    <3>2. (\E c \in Actors : crossing(c)) \in BOOLEAN
      OBVIOUS
    <3> HIDE DEF crossing
    <3> QED  BY <3>1, <3>2, EmptySeq DEF Tasks
  <2>3. ASSUME NEW b \in Actors, b # a
        PROVE  /\ [cycle[b] EXCEPT !.crossed = @ \/ crossing(b)] \in Tasks
               /\ [cycle[b] EXCEPT !.crossed = @ \/ crossing(b)].todo = cycle[b].todo
               /\ [cycle[b] EXCEPT !.crossed = @ \/ crossing(b)].kept = cycle[b].kept
    <3>1. cycle[b] \in Tasks /\ crossing(b) \in BOOLEAN
      BY DEF CyclesOK, Tasks
    <3> HIDE DEF crossing
    <3> QED  BY <3>1 DEF Tasks
  <2> HIDE DEF first, crossing
  <2>4. cycle' \in [Actors -> Tasks]
    BY <2>1, <2>2, <2>3
  <2>5. pc'[a] = "fetch" /\ \A b \in Actors : b # a => pc'[b] = pc[b]
    BY <1>3, OneThread
  <2>6. cycle'[a] = first /\ \A b \in Actors : b # a => cycle'[b].todo = cycle[b].todo /\ cycle'[b].kept = cycle[b].kept
    BY <2>1, <2>3
  <2>7. current \in 1..Len(heap')
    BY <1>1 DEF Typed, StoreOK
  <2>8. ASSUME NEW b \in Actors
        PROVE  /\ pc'[b] = "fetch" => cycle'[b].kept \in 1..Len(heap')
               /\ pc'[b] \in {"update", "record", "tell"} => cycle'[b].todo # <<>>
               /\ pc'[b] = "update" => Turn(b)'.target > 0
    <3>1. CASE b = a
      BY <2>2, <2>5, <2>6, <2>7, <3>1
    <3>2. CASE b # a
      <4>1. pc'[b] = pc[b] /\ cycle'[b].todo = cycle[b].todo /\ cycle'[b].kept = cycle[b].kept
        BY <2>5, <2>6, <3>2
      <4>2. Turn(b)' = Turn(b)
        BY <4>1 DEF Turn
      <4> QED  BY <1>1, <4>1, <4>2 DEF CyclesOK
    <3> QED  BY <3>1, <3>2
  <2> QED  BY <2>4, <2>8 DEF CyclesOK, Tasks
<1> QED  BY <1>2, <1>3 DEF CycleBegins

(* What there is to do is of its type, whatever a cycle does. *)
LEMMA CycleTasks ==
  ASSUME Typed, OnceInv, NEW a \in Actors, Cycles(a)
  PROVE  CyclesOK' /\ PricesOK'
<1>1. UNCHANGED <<heap, profile>> /\ CyclesOK /\ PricesOK
  BY CycleLeaves DEF OnceInv
<1>2. pc[a] \in {"update", "record", "tell"} =>
         /\ cycle[a].todo # <<>> /\ Turn(a) \in Decided
         /\ UNCHANGED cycle /\ Goto(a, "record") => CyclesOK'
         /\ UNCHANGED cycle /\ Goto(a, "tell") => CyclesOK'
         /\ NextLot(a) => CyclesOK'
  <2> SUFFICES ASSUME pc[a] \in {"update", "record", "tell"}
               PROVE  /\ cycle[a].todo # <<>> /\ Turn(a) \in Decided
                      /\ UNCHANGED cycle /\ Goto(a, "record") => CyclesOK'
                      /\ UNCHANGED cycle /\ Goto(a, "tell") => CyclesOK'
                      /\ NextLot(a) => CyclesOK'
    OBVIOUS
  <2>1. cycle[a].todo # <<>> /\ cycle[a].todo \in Seq(Decided)
    BY <1>1 DEF CyclesOK
  <2>2. Turn(a) \in Decided
    BY <2>1, HeadTailProperties DEF Turn
  <2>3. UNCHANGED cycle /\ Goto(a, "record") => CyclesOK'
    BY <1>1, <2>1, TaskStays
  <2>4. UNCHANGED cycle /\ Goto(a, "tell") => CyclesOK'
    BY <1>1, <2>1, TaskStays
  <2>5. NextLot(a) => CyclesOK'
    BY <1>1, <2>1, TaskNext
  <2> QED  BY <2>1, <2>2, <2>3, <2>4, <2>5
<1>3. ASSUME pc[a] = "update", UNCHANGED price \/ price' = [price EXCEPT ![Turn(a).lot] = Turn(a).target]
      PROVE  PricesOK'
  <2>1. Turn(a).lot \in OwnLots /\ Turn(a).target \in Nat
    BY <1>2, <1>3 DEF Decided
  <2> QED  BY <1>1, <1>3, <2>1 DEF PricesOK
<1>4. UNCHANGED price => PricesOK'
  BY <1>1 DEF PricesOK
<1>5. CASE CycleBegins(a)
  BY <1>1, <1>4, <1>5, TaskBegins DEF CycleBegins
<1>6. CASE CycleReads(a)
  <2>0. PICK c, s : c = [cycle[a] EXCEPT !.todo = Decisions(heap[cycle[a].kept].rules)] /\ s = "lots"
    OBVIOUS
  <2>1. cycle[a] \in Tasks /\ cycle[a].kept \in 1..Len(heap)
    BY <1>1, <1>6 DEF CycleReads, CyclesOK, Tasks
  <2>2. heap[cycle[a].kept].rules \in Seq(RuleRecords)
    <3>1. heap \in Seq(Config)
      BY DEF Typed, StoreOK
    <3>2. heap[cycle[a].kept] \in Config
      BY <2>1, <3>1, ElementOfSeq
    <3> QED  BY <3>2 DEF Config
  <2>3. c \in Tasks
    <3>1. Decisions(heap[cycle[a].kept].rules) \in Seq(Decided)
      BY <1>1, <2>2, DecidedByRule
    <3> QED  BY <2>0, <2>1, <3>1 DEF Tasks
  <2>4. cycle' = [cycle EXCEPT ![a] = c] /\ Goto(a, s) /\ s # "fetch" /\ s \notin {"update", "record", "tell"} /\ s # "update"
    BY <1>6, <2>0 DEF CycleReads
  <2>5. CyclesOK'
    BY <1>1, <2>3, <2>4, TaskGoes
  <2> QED  BY <1>4, <1>6, <2>5 DEF CycleReads
<1>7. CASE ReadFails(a)
  <2>1. UNCHANGED cycle /\ Goto(a, "finish")
    BY <1>7 DEF ReadFails
  <2>2. CyclesOK'
    BY <1>1, <2>1, TaskStays
  <2> QED  BY <1>4, <1>7, <2>2 DEF ReadFails
<1>8. CASE ConsiderLot(a)
  <2>1. CASE cycle[a].todo = <<>>
    <3>1. UNCHANGED cycle /\ Goto(a, "finish")
      BY <1>8, <2>1 DEF ConsiderLot
    <3>2. CyclesOK'
      BY <1>1, <3>1, TaskStays
    <3> QED  BY <1>4, <1>8, <3>2 DEF ConsiderLot
  <2>2. CASE cycle[a].todo # <<>>
    <3>1. CASE NextLot(a)
      BY <1>1, <1>4, <1>8, <2>2, <3>1, TaskNext DEF ConsiderLot
    <3>2. CASE UNCHANGED cycle /\ Goto(a, "tell")
      <4>1. CyclesOK'
        BY <1>1, <2>2, <3>2, TaskStays
      <4> QED  BY <1>4, <1>8, <4>1 DEF ConsiderLot
    <3>3. CASE UNCHANGED cycle /\ Goto(a, "update") /\ Wanted(Turn(a))
      <4>1. Turn(a).target > 0
        BY <3>3 DEF Wanted
      <4>2. CyclesOK'
        BY <1>1, <2>2, <3>3, <4>1, TaskStays
      <4> QED  BY <1>4, <1>8, <4>2 DEF ConsiderLot
    <3> QED  BY <1>8, <2>2, <3>1, <3>2, <3>3 DEF ConsiderLot
  <2> QED  BY <2>1, <2>2
<1>9. CASE UpdatePrice(a)
  BY <1>2, <1>3, <1>9 DEF UpdatePrice
<1>10. CASE UpdateFails(a)
  BY <1>2, <1>3, <1>10 DEF UpdateFails
<1>11. CASE Record(a)
  BY <1>2, <1>4, <1>11 DEF Record
<1>12. CASE Tell(a)
  BY <1>2, <1>4, <1>12 DEF Tell
<1>13. CASE FinishCycle(a)
  BY <1>1, <1>4, <1>13, TaskOver DEF FinishCycle
<1> QED  BY <1>5, <1>6, <1>7, <1>8, <1>9, <1>10, <1>11, <1>12, <1>13 DEF Cycles

(* Whose turn it is has been decided about. *)
LEMMA TurnDecided ==
  ASSUME CyclesOK, NEW a \in Actors, pc[a] \in {"update", "record", "tell"}
  PROVE  cycle[a].todo # <<>> /\ Turn(a) \in Decided
<1>1. cycle[a].todo # <<>> /\ cycle[a].todo \in Seq(Decided)
  BY DEF CyclesOK
<1> QED  BY <1>1, HeadTailProperties DEF Turn

(* The memory is of its type, whatever a cycle does. *)
LEMMA CycleMemory ==
  ASSUME Typed, OnceInv, NEW a \in Actors, Cycles(a)
  PROVE  MemoryOK'
<1>1. MemoryOK /\ CyclesOK
  BY DEF OnceInv
<1>2. UNCHANGED <<applied, last, again, trouble>> /\ stateFile' \in {stateFile, [applied |-> applied', told |-> told']}
      => MemoryOK'
  BY <1>1 DEF MemoryOK, EntriesOK, OneEach
<1>3. CASE CycleBegins(a) \/ CycleReads(a) \/ ReadFails(a) \/ ConsiderLot(a)
  <2>1. UNCHANGED <<storage, history>>
    BY <1>3 DEF CycleBegins, CycleReads, ReadFails, ConsiderLot
  <2> QED  BY <1>2, <2>1 DEF storage, history
<1>4. CASE Tell(a) \/ FinishCycle(a)
  <2>1. UNCHANGED <<applied, history>> /\ (Stored \/ Unsaved)
    BY <1>4 DEF Tell, FinishCycle
  <2> QED  BY <1>2, <2>1 DEF history, Stored, Unsaved
<1>5. CASE UpdatePrice(a) \/ UpdateFails(a)
  <2>1. Turn(a) \in Decided
    BY <1>1, <1>5, TurnDecided DEF UpdatePrice, UpdateFails
  <2>2. UNCHANGED storage
    BY <1>5 DEF UpdatePrice, UpdateFails
  <2>3. CASE UNCHANGED history
    BY <1>2, <2>2, <2>3 DEF storage, history
  <2>4. CASE \E t : Saves(Turn(a).lot, Turn(a), t)
    BY <1>1, <2>1, <2>2, <2>4 DEF Saves, MemoryOK, Decided, EntriesOK, OneEach, storage
  <2> QED  BY <1>5, <2>3, <2>4 DEF UpdatePrice, UpdateFails
<1>6. CASE Record(a)
  <2> DEFINE e == AsEntry(Turn(a).lot, Turn(a))
  <2>1. PICK all : all = WithEntry(e)
    OBVIOUS
  <2>2. e \in Saved
    BY <1>1, <1>6, TurnDecided DEF Record, AsEntry, Saved, Decided
  <2>3. applied \in Seq(Saved) /\ OneEach(applied)
    BY <1>1 DEF MemoryOK, EntriesOK
  <2> HIDE DEF e
  <2>4. all \in Seq(Saved) /\ OneEach(all)
    BY <2>1, <2>2, <2>3, WithEntryProperties
  <2>5. applied' = Capped(all) /\ trouble' \subseteq trouble \cup {x.lot : x \in ToSet(all)} /\ UNCHANGED <<last, again>>
        /\ stateFile' \in {stateFile, [applied |-> applied', told |-> told']}
    BY <1>6, <2>1 DEF Record, Stored, Unsaved, e
  <2>6. EntriesOK(Capped(all))
    BY <2>4, CappedProperties
  <2>7. \A x \in ToSet(all) : x.lot \in OwnLots
    <3>1. ToSet(all) \subseteq Saved
      BY <2>4, ToSetSeq
    <3> QED  BY <3>1 DEF Saved
  <2>8. EntriesOK(applied')
    BY <2>5, <2>6
  <2> QED  BY <1>1, <2>5, <2>7, <2>8 DEF MemoryOK, EntriesOK, OneEach
<1> QED  BY <1>3, <1>4, <1>5, <1>6 DEF Cycles

(* A thread goes on in its cycle. *)
LEMMA LockGoes ==
  ASSUME Typed, LockOK, NEW a \in Actors, NEW s \in CycleSteps, Goto(a, s), pc[a] \in CycleSteps, UNCHANGED cycleLock,
         \A b \in Actors : cycle'[b].crossed = cycle[b].crossed
  PROVE  LockOK'
<1>1. pc'[a] = s /\ \A b \in Actors : b # a => pc'[b] = pc[b]
  BY OneThread
<1>2. InCycle' = InCycle
  BY <1>1 DEF InCycle, CycleSteps
<1>3. \A b, c \in InCycle : b \in Actors
  BY DEF InCycle
<1>4. \A w \in Workers : pc'[w] \in {"begin"} \cup CycleSteps => pc[w] \in {"begin"} \cup CycleSteps
  BY <1>1 DEF Actors
<1> QED  BY <1>2, <1>3, <1>4 DEF LockOK

(* A cycle is over. *)
LEMMA LockOver ==
  ASSUME Typed, LockOK, NEW a \in Actors, CycleOver(a), pc[a] \in {"begin"} \cup CycleSteps, cycle \in [Actors -> Tasks]
  PROVE  LockOK'
<1>1. pc'[a] \in {"loop", "idle"} /\ \A b \in Actors : b # a => pc'[b] = pc[b]
  BY OneThread DEF CycleOver
<1>2. InCycle' \subseteq InCycle /\ a \notin InCycle'
  BY <1>1 DEF InCycle
<1>3. \A b \in InCycle' : cycle'[b] = cycle[b]
  BY <1>2 DEF CycleOver, InCycle
<1>4. ASSUME NEW w \in Workers, pc'[w] \in {"begin"} \cup CycleSteps
      PROVE  cycleLock' = w
  <2>1. w # a /\ pc'[w] = pc[w] /\ cycleLock = w
    BY <1>1, <1>4 DEF Actors, CycleSteps, LockOK
  <2>2. a \notin Workers
    BY <2>1 DEF LockOK
  <2> QED  BY <2>1, <2>2 DEF CycleOver
<1>5. cycleLock' \in Workers \cup {Nobody}
  BY DEF CycleOver, LockOK
<1> QED  BY <1>2, <1>3, <1>4, <1>5 DEF LockOK

(* A cycle begins: a worker alone, a handler crosses the others and they know. *)
LEMMA LockBegins ==
  ASSUME Typed, LockOK, cycle \in [Actors -> Tasks], NEW a \in Actors, CycleBegins(a)
  PROVE  /\ LockOK'
         /\ CycleOver(a) \/ pc'[a] = "fetch"
         /\ \A b \in Actors : b # a => /\ pc'[b] = pc[b] /\ cycle'[b].todo = cycle[b].todo
                                       /\ cycle[b].crossed => cycle'[b].crossed
<1>1. CASE CycleOver(a)
  <2>1. \A b \in Actors : b # a => pc'[b] = pc[b]
    BY <1>1, OneThread DEF CycleOver
  <2>2. \A b \in Actors : b # a => cycle'[b] = cycle[b]
    BY <1>1 DEF CycleOver
  <2>3. pc[a] \in {"begin"} \cup CycleSteps
    BY DEF CycleBegins
  <2> QED  BY <1>1, <2>1, <2>2, <2>3, LockOver
<1>2. CASE /\ Goto(a, "fetch") /\ UNCHANGED <<my, cycleLock>>
           /\ LET crossing(b) == b # a /\ b \in InCycle /\ {a, b} \cap Handlers # {}
              IN  cycle' = [b \in Actors |->
                     IF b = a THEN [kept |-> current, todo |-> <<>>, crossed |-> \E c \in Actors : crossing(c)]
                     ELSE [cycle[b] EXCEPT !.crossed = @ \/ crossing(b)]]
  <2> DEFINE crossing(b) == b # a /\ b \in InCycle /\ {a, b} \cap Handlers # {}
             first == [kept |-> current, todo |-> <<>>, crossed |-> \E c \in Actors : crossing(c)]
  <2>1. cycle' = [b \in Actors |-> IF b = a THEN first ELSE [cycle[b] EXCEPT !.crossed = @ \/ crossing(b)]]
    BY <1>2
  <2>2. first.crossed = (\E c \in Actors : crossing(c))
    OBVIOUS
  <2>3. ASSUME NEW b \in Actors, b # a
        PROVE  cycle'[b].todo = cycle[b].todo /\ cycle'[b].crossed = (cycle[b].crossed \/ crossing(b))
    <3>1. cycle[b] \in Tasks /\ cycle'[b] = [cycle[b] EXCEPT !.crossed = @ \/ crossing(b)]
      BY <2>1, <2>3
    <3> HIDE DEF crossing
    <3> QED  BY <3>1 DEF Tasks
  <2>4. cycle'[a] = first
    BY <2>1
  <2>5. pc'[a] = "fetch" /\ \A b \in Actors : b # a => pc'[b] = pc[b]
    BY <1>2, OneThread
  <2> HIDE DEF first
  <2>6. InCycle' = InCycle \cup {a}
    BY <2>5 DEF InCycle
  <2>7. pc[a] = "begin" /\ a \notin InCycle
    BY DEF CycleBegins, InCycle
  <2>8. ASSUME NEW b \in InCycle
        PROVE  crossing(b)
    <3>1. b # a /\ b \in Actors /\ pc[b] \in CycleSteps
      BY <2>7 DEF InCycle, CycleSteps
    <3>2. ~(a \in Workers /\ b \in Workers)
      BY <2>7, <3>1 DEF LockOK
    <3> QED  BY <3>1, <3>2 DEF Actors
  <2>9. ASSUME NEW b \in InCycle', NEW c \in InCycle', b # c
        PROVE  cycle'[b].crossed
    <3>1. b \in Actors /\ c \in Actors
      BY DEF InCycle
    <3>2. CASE b = a
      <4>1. c \in InCycle
        BY <2>6, <2>9, <3>2
      <4> QED  BY <2>2, <2>4, <2>8, <3>1, <3>2, <4>1
    <3>3. CASE b # a
      <4>1. b \in InCycle
        BY <2>6, <3>3
      <4> QED  BY <2>3, <2>8, <3>1, <3>3, <4>1
    <3> QED  BY <3>2, <3>3
  <2>10. \A w \in Workers : pc'[w] \in {"begin"} \cup CycleSteps => pc[w] \in {"begin"} \cup CycleSteps
    BY <2>5, <2>7 DEF Actors
  <2>11. LockOK'
    BY <1>2, <2>9, <2>10 DEF LockOK
  <2> QED  BY <2>3, <2>5, <2>11
<1> QED  BY <1>1, <1>2 DEF CycleBegins

(* Of the tasks a step that is not a beginning and not an end changes what is to do, and only for its thread. *)
LEMMA NextTasks ==
  ASSUME Typed, CyclesOK, NEW a \in Actors, UNCHANGED cycle \/ \E x : cycle' = [cycle EXCEPT ![a].todo = x]
  PROVE  /\ \A b \in Actors : cycle'[b].crossed = cycle[b].crossed
         /\ \A b \in Actors : b # a => cycle'[b] = cycle[b]
<1>1. CASE UNCHANGED cycle
  BY <1>1
<1>2. ASSUME NEW x, cycle' = [cycle EXCEPT ![a].todo = x]
      PROVE  /\ \A b \in Actors : cycle'[b].crossed = cycle[b].crossed
             /\ \A b \in Actors : b # a => cycle'[b] = cycle[b]
  <2>1. cycle \in [Actors -> Tasks]
    BY DEF CyclesOK, Tasks
  <2> QED  BY <1>2, <2>1 DEF Tasks
<1> QED  BY <1>1, <1>2

(* The lock is held as it should, whatever a cycle does. *)
LEMMA CycleLock ==
  ASSUME Typed, OnceInv, NEW a \in Actors, Cycles(a)
  PROVE  LockOK'
<1>1. LockOK /\ CyclesOK /\ cycle \in [Actors -> Tasks]
  BY DEF OnceInv, CyclesOK, Tasks
<1>2. CASE CycleBegins(a)
  BY <1>1, <1>2, LockBegins
<1>3. CASE FinishCycle(a)
  <2>1. CycleOver(a) /\ pc[a] \in {"begin"} \cup CycleSteps
    BY <1>3 DEF FinishCycle, CycleSteps
  <2> QED  BY <1>1, <2>1, LockOver
<1>4. CASE CycleReads(a) \/ ReadFails(a) \/ ConsiderLot(a) \/ UpdatePrice(a) \/ UpdateFails(a) \/ Record(a) \/ Tell(a)
  <2>1. UNCHANGED cycle \/ \E x : cycle' = [cycle EXCEPT ![a].todo = x]
    <3>1. NextLot(a) => cycle' = [cycle EXCEPT ![a].todo = Tail(cycle[a].todo)]
      BY DEF NextLot
    <3>2. CASE CycleReads(a)
      BY <3>2 DEF CycleReads
    <3> QED  BY <1>4, <3>1, <3>2 DEF ReadFails, ConsiderLot, UpdatePrice, UpdateFails, Record, Tell
  <2>2. \A b \in Actors : cycle'[b].crossed = cycle[b].crossed
    BY <1>1, <2>1, NextTasks
  <2>3. pc[a] \in CycleSteps /\ UNCHANGED cycleLock
    BY <1>4 DEF CycleReads, ReadFails, ConsiderLot, UpdatePrice, UpdateFails, Record, Tell, CycleSteps, cycleElsewhere,
       scheduler
  <2>4. \E s \in CycleSteps : Goto(a, s)
    <3>1. {"lots", "finish", "update", "tell", "record"} \subseteq CycleSteps
      BY DEF CycleSteps
    <3>2. \E s \in {"lots", "finish", "update", "tell", "record"} : Goto(a, s)
      BY <1>4 DEF CycleReads, ReadFails, ConsiderLot, UpdatePrice, UpdateFails, Record, Tell, NextLot
    <3> QED  BY <3>1, <3>2
  <2> QED  BY <1>1, <2>2, <2>3, <2>4, LockGoes
<1> QED  BY <1>2, <1>3, <1>4 DEF Cycles

(* Nothing is saved and nothing recorded. *)
LEMMA SavedKeeps ==
  ASSUME SavedInv, NEW a \in Actors, UNCHANGED <<applied, last, again, trouble>>,
         pc[a] # "record", pc'[a] \notin {"update", "record"},
         \A b \in Actors : b # a => /\ pc'[b] = pc[b] /\ cycle'[b].todo = cycle[b].todo
                                    /\ cycle[b].crossed => cycle'[b].crossed
  PROVE  SavedInv'
<1>1. \A b \in Actors : b # a => Turn(b)' = Turn(b)
  BY DEF Turn
<1>2. \A l : Holds(applied, l)' <=> Holds(applied, l)
  BY DEF Holds
<1>3. \A l \in OwnLots \ trouble' : last'[l] # Nothing =>
         Holds(applied, l)' \/ \E b \in Actors : pc'[b] = "record" /\ Turn(b)'.lot = l
  <2> SUFFICES ASSUME NEW l \in OwnLots \ trouble', last'[l] # Nothing, ~Holds(applied, l)'
               PROVE  \E b \in Actors : pc'[b] = "record" /\ Turn(b)'.lot = l
    OBVIOUS
  <2>1. PICK b \in Actors : pc[b] = "record" /\ Turn(b).lot = l
    BY <1>2 DEF SavedInv
  <2>2. b # a
    BY <2>1
  <2> QED  BY <1>1, <2>1, <2>2
<1>4. \A b \in Actors : pc'[b] = "record" /\ Turn(b)'.lot \notin trouble' => last'[Turn(b)'.lot] = PriceOf(Turn(b)')
  BY <1>1 DEF SavedInv
<1>5. \A b \in Actors : pc'[b] = "update" /\ ~cycle'[b].crossed /\ Turn(b)'.lot \notin trouble' =>
         last'[Turn(b)'.lot] # PriceOf(Turn(b)')
  BY <1>1 DEF SavedInv
<1>6. again' \subseteq trouble'
  BY DEF SavedInv
<1> QED  BY <1>3, <1>4, <1>5, <1>6 DEF SavedInv, PriceOf

(* Alone in its cycle, a thread does not save again what the memory holds. *)
LEMMA SavedConsiders ==
  ASSUME Typed, OnceInv, NEW a \in Actors, pc[a] = "lots", Goto(a, "update"), Wanted(Turn(a)), cycle[a].todo # <<>>,
         UNCHANGED <<cycle, applied, last, again, trouble>>
  PROVE  SavedInv'
<1>1. pc'[a] = "update" /\ \A b \in Actors : b # a => pc'[b] = pc[b]
  BY OneThread
<1>2. \A b \in Actors : Turn(b)' = Turn(b)
  BY DEF Turn
<1>3. SavedInv /\ MemoryOK /\ LockOK /\ cycle[a].todo \in Seq(Decided)
  BY DEF OnceInv, CyclesOK
<1>4. PICK d, l : d = Turn(a) /\ l = d.lot
  OBVIOUS
<1>5. d \in Decided /\ l \in OwnLots
  <2>1. d \in Decided
    BY <1>3, <1>4, HeadTailProperties DEF Turn
  <2> QED  BY <1>4, <2>1 DEF Decided
<1>6. ASSUME ~cycle[a].crossed, l \notin trouble
      PROVE  last[l] # PriceOf(d)
  <2> SUFFICES ASSUME last[l] = PriceOf(d)
               PROVE  FALSE
    OBVIOUS
  <2>1. last[l] # Nothing
    BY <1>4, <1>5 DEF PriceOf, Nothing, Wanted, Decided
  <2>2. ~\E b \in Actors : pc[b] = "record"
    <3> SUFFICES ASSUME NEW b \in Actors, pc[b] = "record"
                 PROVE  FALSE
      OBVIOUS
    <3>1. a \in InCycle /\ b \in InCycle /\ a # b
      BY DEF InCycle
    <3> QED  BY <1>3, <1>6, <3>1 DEF LockOK
  <2>3. Holds(applied, l)
    BY <1>3, <1>5, <1>6, <2>1, <2>2 DEF SavedInv
  <2>4. applied \in Seq(Saved) /\ OneEach(applied)
    BY <1>3 DEF MemoryOK, EntriesOK
  <2>5. PICK i \in 1..Len(applied) : applied[i] = AsEntry(l, last[l])
    <3>1. AsEntry(l, last[l]) \in ToSet(applied)
      BY <2>3 DEF Holds
    <3> QED  BY <2>4, <3>1, ToSetSeq
  <2>6. applied[i].lot = l /\ applied[i].target = d.target /\ applied[i].seen = d.seen
    BY <2>5 DEF AsEntry, PriceOf
  <2>7. Entry(l) = i
    <3>1. Entry(l) # 0
      BY <2>4, <2>6, EntryFinds
    <3>2. Entry(l) \in 1..Len(applied) /\ applied[Entry(l)].lot = l
      BY <2>4, <3>1, EntryFinds
    <3>3. DOMAIN applied = 1..Len(applied)
      BY <2>4, LenProperties
    <3> QED  BY <2>4, <2>6, <3>2, <3>3 DEF OneEach
  <2>8. i # 0
    BY <2>4, LenProperties
  <2>9. ~Apart(d.target, d.target) /\ ~Apart(d.seen, d.seen)
    <3>1. d.target \in Nat /\ d.seen \in Nat
      BY <1>5 DEF Decided
    <3>2. Cent \div 2 = 5
      BY DEF Cent
    <3> QED  BY <3>1, <3>2 DEF Apart
  <2>10. AlreadyApplied(d)
    BY <1>4, <2>6, <2>7, <2>8, <2>9 DEF AlreadyApplied
  <2> QED  BY <1>4, <2>10 DEF Wanted
<1>7. \A x : Holds(applied, x)' <=> Holds(applied, x)
  BY DEF Holds
<1>8. \A x \in OwnLots \ trouble' : last'[x] # Nothing =>
         Holds(applied, x)' \/ \E b \in Actors : pc'[b] = "record" /\ Turn(b)'.lot = x
  <2> SUFFICES ASSUME NEW x \in OwnLots \ trouble', last'[x] # Nothing, ~Holds(applied, x)'
               PROVE  \E b \in Actors : pc'[b] = "record" /\ Turn(b)'.lot = x
    OBVIOUS
  <2>1. PICK b \in Actors : pc[b] = "record" /\ Turn(b).lot = x
    BY <1>3, <1>7 DEF SavedInv
  <2> QED  BY <1>1, <1>2, <2>1
<1>9. \A b \in Actors : pc'[b] = "record" /\ Turn(b)'.lot \notin trouble' => last'[Turn(b)'.lot] = PriceOf(Turn(b)')
  BY <1>1, <1>2, <1>3 DEF SavedInv
<1>10. \A b \in Actors : pc'[b] = "update" /\ ~cycle'[b].crossed /\ Turn(b)'.lot \notin trouble' =>
          last'[Turn(b)'.lot] # PriceOf(Turn(b)')
  BY <1>1, <1>2, <1>3, <1>4, <1>6 DEF SavedInv
<1>11. again' \subseteq trouble'
  BY <1>3 DEF SavedInv
<1> QED  BY <1>8, <1>9, <1>10, <1>11 DEF SavedInv, PriceOf

(* A price is saved: its lot is about to be recorded, or falls into trouble. *)
LEMMA SavedUpdates ==
  ASSUME Typed, OnceInv, NEW a \in Actors, pc[a] = "update", UNCHANGED applied, NEW troubled,
         Saves(Turn(a).lot, Turn(a), troubled), cycle[a].crossed => troubled,
         (UNCHANGED cycle /\ Goto(a, "record")) \/ (troubled /\ NextLot(a))
  PROVE  SavedInv'
<1>1. /\ pc'[a] \in {"record", "lots"} /\ (pc'[a] = "lots" => troubled)
      /\ pc'[a] = "record" => UNCHANGED cycle
      /\ \A b \in Actors : b # a => pc'[b] = pc[b]
  BY OneThread DEF NextLot
<1>2. SavedInv /\ MemoryOK /\ LockOK /\ CyclesOK
  BY DEF OnceInv
<1>3. PICK d, l : d = Turn(a) /\ l = d.lot
  OBVIOUS
<1>4. d \in Decided /\ l \in OwnLots
  <2>1. d \in Decided
    BY <1>2, <1>3, TurnDecided
  <2> QED  BY <1>3, <2>1 DEF Decided
<1>5. /\ last' = [last EXCEPT ![l] = PriceOf(d)]
      /\ again' = IF last[l] = PriceOf(d) THEN again \cup {l} ELSE again
      /\ trouble' = IF troubled THEN trouble \cup {l} ELSE trouble
  BY <1>3 DEF Saves, PriceOf
<1>6. last'[l] = PriceOf(d) /\ \A x \in OwnLots : x # l => last'[x] = last[x]
  BY <1>2, <1>4, <1>5 DEF MemoryOK
<1>7. trouble \subseteq trouble' /\ (troubled => l \in trouble') /\ trouble' \subseteq trouble \cup {l}
  BY <1>5
<1>8. \A b \in Actors : b # a => cycle'[b] = cycle[b]
  <2>1. UNCHANGED cycle \/ \E x : cycle' = [cycle EXCEPT ![a].todo = x]
    BY DEF NextLot
  <2> QED  BY <1>2, <2>1, NextTasks
<1>9. \A b \in Actors : b # a => Turn(b)' = Turn(b)
  BY <1>8 DEF Turn
<1>10. pc'[a] = "record" => Turn(a)' = d
  BY <1>1, <1>3 DEF Turn
<1>11. ASSUME NEW b \in Actors, b # a, pc[b] \in CycleSteps
       PROVE  cycle[a].crossed /\ cycle[b].crossed /\ l \in trouble'
  <2>1. a \in InCycle /\ b \in InCycle
    BY <1>11 DEF InCycle, CycleSteps
  <2> QED  BY <1>2, <1>7, <1>11, <2>1 DEF LockOK
<1>12. \A x : x \in OwnLots /\ x # l => (Holds(applied, x)' <=> Holds(applied, x))
  BY <1>6 DEF Holds
<1>13. again' \subseteq trouble'
  <2>1. last[l] = PriceOf(d) => l \in trouble'
    BY <1>2, <1>3, <1>7 DEF SavedInv
  <2> QED  BY <1>2, <1>5, <1>7, <2>1 DEF SavedInv
<1>14. ASSUME NEW x \in OwnLots \ trouble', last'[x] # Nothing, ~Holds(applied, x)'
       PROVE  \E b \in Actors : pc'[b] = "record" /\ Turn(b)'.lot = x
  <2>1. CASE x = l
    <3>1. pc'[a] = "record"
      BY <1>1, <1>7, <1>14, <2>1
    <3> QED  BY <1>3, <1>10, <2>1, <3>1
  <2>2. CASE x # l
    <3>1. x \in OwnLots \ trouble /\ last[x] # Nothing /\ ~Holds(applied, x)
      BY <1>6, <1>7, <1>12, <1>14, <2>2
    <3>2. PICK b \in Actors : pc[b] = "record" /\ Turn(b).lot = x
      BY <1>2, <3>1 DEF SavedInv
    <3>3. b # a
      BY <3>2
    <3> QED  BY <1>1, <1>9, <3>2, <3>3
  <2> QED  BY <2>1, <2>2
<1>15. ASSUME NEW b \in Actors, pc'[b] = "record", Turn(b)'.lot \notin trouble'
       PROVE  last'[Turn(b)'.lot] = PriceOf(Turn(b)')
  <2>1. CASE b = a
    BY <1>3, <1>6, <1>10, <1>15, <2>1
  <2>2. CASE b # a
    <3>1. pc[b] = "record" /\ Turn(b)' = Turn(b)
      BY <1>1, <1>9, <1>15, <2>2
    <3>2. Turn(b).lot # l /\ Turn(b).lot \in OwnLots
      <4>1. l \in trouble'
        BY <1>11, <2>2, <3>1 DEF CycleSteps
      <4>2. Turn(b) \in Decided
        BY <1>2, <3>1, TurnDecided
      <4> QED  BY <1>15, <3>1, <4>1, <4>2 DEF Decided
    <3>3. last[Turn(b).lot] = PriceOf(Turn(b))
      BY <1>2, <1>7, <1>15, <3>1 DEF SavedInv
    <3> QED  BY <1>6, <3>1, <3>2, <3>3
  <2> QED  BY <2>1, <2>2
<1>16. ASSUME NEW b \in Actors, pc'[b] = "update"
       PROVE  cycle'[b].crossed
  <2>1. b # a /\ pc[b] = "update"
    BY <1>1, <1>16
  <2> QED  BY <1>8, <1>11, <2>1 DEF CycleSteps
<1> QED  BY <1>13, <1>14, <1>15, <1>16 DEF SavedInv, PriceOf

(* A price is recorded: it is among the applied ones, and a lot whose entry had to go is in trouble. *)
LEMMA SavedRecords ==
  ASSUME Typed, OnceInv, NEW a \in Actors, Record(a)
  PROVE  SavedInv'
<1>1. pc[a] = "record" /\ pc'[a] \in {"tell", "lots"} /\ \A b \in Actors : b # a => pc'[b] = pc[b]
  BY OneThread DEF Record, NextLot
<1>2. SavedInv /\ MemoryOK /\ CyclesOK
  BY DEF OnceInv
<1>3. PICK d, l : d = Turn(a) /\ l = d.lot
  OBVIOUS
<1>4. d \in Decided /\ l \in OwnLots
  <2>1. d \in Decided
    BY <1>1, <1>2, <1>3, TurnDecided
  <2> QED  BY <1>3, <2>1 DEF Decided
<1>5. PICK e, all : e = AsEntry(l, d) /\ all = WithEntry(e)
  OBVIOUS
<1>6. /\ applied' = Capped(all) /\ UNCHANGED <<last, again>>
      /\ trouble' = trouble \cup ({x.lot : x \in ToSet(all)} \ {x.lot : x \in ToSet(applied')})
  BY <1>3, <1>5 DEF Record
<1>7. e \in Saved
  BY <1>4, <1>5 DEF AsEntry, Saved, Decided
<1>8. applied \in Seq(Saved) /\ OneEach(applied)
  BY <1>2 DEF MemoryOK, EntriesOK
<1>9. /\ all \in Seq(Saved) /\ OneEach(all)
      /\ e \in ToSet(all) /\ \A x \in ToSet(applied) : x.lot # e.lot => x \in ToSet(all)
  BY <1>5, <1>7, <1>8, WithEntryProperties
<1>10. ToSet(applied') \subseteq ToSet(all)
  BY <1>6, <1>9, CappedProperties
<1>11. \A x, y \in ToSet(all) : x.lot = y.lot => x = y
  BY <1>9, ToSetSeq DEF OneEach, ToSet
<1>12. \A x \in ToSet(all) : x.lot \notin trouble' => x \in ToSet(applied')
  <2> TAKE x \in ToSet(all)
  <2> HAVE x.lot \notin trouble'
  <2>1. PICK y \in ToSet(applied') : y.lot = x.lot
    BY <1>6
  <2> QED  BY <1>10, <1>11, <2>1
<1>13. \A b \in Actors : b # a => cycle'[b] = cycle[b] /\ Turn(b)' = Turn(b)
  <2>1. UNCHANGED cycle \/ \E x : cycle' = [cycle EXCEPT ![a].todo = x]
    BY DEF Record, NextLot
  <2> QED  BY <1>2, <2>1, NextTasks DEF Turn
<1>14. \A x : Holds(applied, x)' <=> AsEntry(x, last[x]) \in ToSet(applied')
  BY <1>6 DEF Holds
<1>15. ASSUME NEW x \in OwnLots \ trouble', last'[x] # Nothing, ~Holds(applied, x)'
       PROVE  \E b \in Actors : pc'[b] = "record" /\ Turn(b)'.lot = x
  <2>1. x \notin trouble /\ last[x] # Nothing
    BY <1>6, <1>15
  <2>2. ~ AsEntry(x, last[x]) \in ToSet(all)
    <3>1. AsEntry(x, last[x]).lot = x
      BY DEF AsEntry
    <3> QED  BY <1>12, <1>14, <1>15, <3>1
  <2>3. x # l
    <3> SUFFICES ASSUME x = l
                 PROVE  FALSE
      OBVIOUS
    <3>1. last[l] = PriceOf(d)
      BY <1>1, <1>2, <1>3, <2>1 DEF SavedInv
    <3>2. AsEntry(l, last[l]) = e
      BY <1>5, <3>1 DEF AsEntry, PriceOf
    <3> QED  BY <1>9, <2>2, <3>2
  <2>4. ~Holds(applied, x)
    <3>1. AsEntry(x, last[x]).lot = x /\ e.lot = l
      BY <1>5 DEF AsEntry
    <3> QED  BY <1>9, <2>2, <2>3, <3>1 DEF Holds
  <2>5. PICK b \in Actors : pc[b] = "record" /\ Turn(b).lot = x
    BY <1>2, <2>1, <2>4 DEF SavedInv
  <2>6. b # a
    BY <1>3, <2>3, <2>5
  <2> QED  BY <1>1, <1>13, <2>5, <2>6
<1>16. \A b \in Actors : pc'[b] = "record" /\ Turn(b)'.lot \notin trouble' => last'[Turn(b)'.lot] = PriceOf(Turn(b)')
  <2> TAKE b \in Actors
  <2> HAVE pc'[b] = "record" /\ Turn(b)'.lot \notin trouble'
  <2>1. b # a /\ pc[b] = "record" /\ Turn(b)' = Turn(b)
    BY <1>1, <1>13
  <2>2. Turn(b).lot \notin trouble
    BY <1>6, <2>1
  <2> QED  BY <1>2, <1>6, <2>1, <2>2 DEF SavedInv
<1>17. \A b \in Actors : pc'[b] = "update" /\ ~cycle'[b].crossed /\ Turn(b)'.lot \notin trouble' =>
          last'[Turn(b)'.lot] # PriceOf(Turn(b)')
  <2> TAKE b \in Actors
  <2> HAVE pc'[b] = "update" /\ ~cycle'[b].crossed /\ Turn(b)'.lot \notin trouble'
  <2>1. b # a /\ pc[b] = "update" /\ Turn(b)' = Turn(b) /\ cycle'[b] = cycle[b]
    BY <1>1, <1>13
  <2>2. Turn(b).lot \notin trouble
    BY <1>6, <2>1
  <2> QED  BY <1>2, <1>6, <2>1, <2>2 DEF SavedInv
<1>18. again' \subseteq trouble'
  BY <1>2, <1>6 DEF SavedInv
<1> QED  BY <1>15, <1>16, <1>17, <1>18 DEF SavedInv, PriceOf

(* No price is saved twice, whatever a cycle does. *)
LEMMA CycleSaved ==
  ASSUME Typed, OnceInv, NEW a \in Actors, Cycles(a)
  PROVE  SavedInv'
<1>1. SavedInv /\ LockOK /\ CyclesOK /\ cycle \in [Actors -> Tasks]
  BY DEF OnceInv, CyclesOK, Tasks
<1>2. CASE CycleBegins(a)
  <2>1. CycleOver(a) => pc'[a] \in {"loop", "idle"}
    BY OneThread DEF CycleOver
  <2>2. /\ CycleOver(a) \/ pc'[a] = "fetch"
        /\ \A b \in Actors : b # a => /\ pc'[b] = pc[b] /\ cycle'[b].todo = cycle[b].todo
                                      /\ cycle[b].crossed => cycle'[b].crossed
    BY <1>1, <1>2, LockBegins
  <2>3. pc[a] # "record" /\ UNCHANGED <<applied, last, again, trouble>>
    BY <1>2 DEF CycleBegins, storage, history
  <2> QED  BY <1>1, <2>1, <2>2, <2>3, SavedKeeps
<1>3. CASE CycleReads(a) \/ ReadFails(a) \/ Tell(a) \/ FinishCycle(a)
  <2>1. \E s \in {"lots", "finish", "loop", "idle"} : Goto(a, s)
    BY <1>3 DEF CycleReads, ReadFails, Tell, FinishCycle, NextLot, CycleOver
  <2>2. pc'[a] \in {"lots", "finish", "loop", "idle"} /\ \A b \in Actors : b # a => pc'[b] = pc[b]
    BY <2>1, OneThread
  <2>3. pc[a] # "record" /\ UNCHANGED <<applied, last, again, trouble>>
    BY <1>3 DEF CycleReads, ReadFails, Tell, FinishCycle, storage, history
  <2>4. ASSUME NEW b \in Actors, b # a
        PROVE  cycle'[b] = cycle[b]
    <3>1. UNCHANGED cycle \/ (\E x : cycle' = [cycle EXCEPT ![a].todo = x]) \/ cycle' = [cycle EXCEPT ![a] = NoCycle]
      BY <1>3 DEF CycleReads, ReadFails, Tell, FinishCycle, NextLot, CycleOver
    <3> QED  BY <1>1, <2>4, <3>1, NextTasks
  <2> QED  BY <1>1, <2>2, <2>3, <2>4, SavedKeeps
<1>4. CASE ConsiderLot(a)
  <2>1. pc[a] = "lots" /\ UNCHANGED <<applied, last, again, trouble>>
    BY <1>4 DEF ConsiderLot, storage, history
  <2>2. CASE cycle[a].todo # <<>> /\ Wanted(Turn(a)) /\ Goto(a, "update") /\ UNCHANGED cycle
    BY <2>1, <2>2, SavedConsiders
  <2>3. CASE (\E s \in {"finish", "tell"} : Goto(a, s) /\ UNCHANGED cycle) \/ NextLot(a)
    <3>1. \E s \in {"finish", "tell", "lots"} : Goto(a, s)
      BY <2>3 DEF NextLot
    <3>2. pc'[a] \in {"finish", "tell", "lots"} /\ \A b \in Actors : b # a => pc'[b] = pc[b]
      BY <3>1, OneThread
    <3>3. UNCHANGED cycle \/ \E x : cycle' = [cycle EXCEPT ![a].todo = x]
      BY <2>3 DEF NextLot
    <3>4. \A b \in Actors : b # a => cycle'[b] = cycle[b]
      BY <1>1, <3>3, NextTasks
    <3>5. pc[a] # "record"
      BY <2>1
    <3> QED  BY <1>1, <2>1, <3>2, <3>4, <3>5, SavedKeeps
  <2> QED  BY <1>4, <2>2, <2>3 DEF ConsiderLot
<1>5. CASE UpdatePrice(a)
  <2>1. /\ pc[a] = "update" /\ UNCHANGED applied /\ UNCHANGED cycle /\ Goto(a, "record")
        /\ Saves(Turn(a).lot, Turn(a), cycle[a].crossed)
    BY <1>5 DEF UpdatePrice, storage
  <2> QED  BY <2>1, SavedUpdates
<1>6. CASE UpdateFails(a)
  <2>1. pc[a] = "update" /\ UNCHANGED applied
    BY <1>6 DEF UpdateFails, storage
  <2>2. CASE UNCHANGED cycle /\ Saves(Turn(a).lot, Turn(a), cycle[a].crossed) /\ Goto(a, "record")
    BY <2>1, <2>2, SavedUpdates
  <2>3. CASE UNCHANGED history /\ NextLot(a)
    <3>1. pc'[a] = "lots" /\ \A b \in Actors : b # a => pc'[b] = pc[b]
      BY <2>3, OneThread DEF NextLot
    <3>2. \A b \in Actors : b # a => cycle'[b] = cycle[b]
      <4>1. \E x : cycle' = [cycle EXCEPT ![a].todo = x]
        BY <2>3 DEF NextLot
      <4> QED  BY <1>1, <4>1, NextTasks
    <3>3. UNCHANGED <<applied, last, again, trouble>> /\ pc[a] # "record"
      BY <2>1, <2>3 DEF history
    <3> QED  BY <1>1, <3>1, <3>2, <3>3, SavedKeeps
  <2>4. CASE Saves(Turn(a).lot, Turn(a), TRUE) /\ NextLot(a)
    BY <2>1, <2>4, SavedUpdates
  <2> QED  BY <1>6, <2>2, <2>3, <2>4 DEF UpdateFails
<1>7. CASE Record(a)
  BY <1>7, SavedRecords
<1> QED  BY <1>2, <1>3, <1>4, <1>5, <1>6, <1>7 DEF Cycles

(* A cycle keeps the invariant. *)
LEMMA CyclesOnce ==
  ASSUME Typed, OnceInv, NEW a \in Actors, Cycles(a)
  PROVE  OnceInv'
BY CycleTasks, CycleMemory, CycleLock, CycleSaved DEF OnceInv

(* A worker that is woken takes the lock before it begins a cycle, or ends. *)
LEMMA LoopsOnce ==
  ASSUME Typed, OnceInv, NEW w \in Workers, WorkerLoops(w)
  PROVE  OnceInv'
<1>1. PricesOK /\ CyclesOK /\ MemoryOK /\ LockOK /\ SavedInv
  BY DEF OnceInv
<1>2. UNCHANGED <<heap, cycle, price, profile, applied, told, stateFile, last, again, trouble>> /\ pc[w] = "loop"
  BY DEF WorkerLoops, settings, storage, history
<1>3. w \in Actors /\ pc'[w] \in {"ended", "begin"} /\ \A b \in Actors : b # w => pc'[b] = pc[b]
  BY LoopsThreads DEF Actors
<1>4. PricesOK' /\ MemoryOK'
  BY <1>1, <1>2 DEF PricesOK, MemoryOK, EntriesOK, OneEach
<1>5. \A b \in Actors : Turn(b)' = Turn(b)
  BY <1>2 DEF Turn
<1>6. CyclesOK'
  BY <1>1, <1>2, <1>3, <1>5 DEF CyclesOK
<1>7. InCycle' = InCycle
  BY <1>2, <1>3 DEF InCycle
<1>8. LockOK'
  <2>1. CASE UNCHANGED cycleLock /\ pc'[w] = "ended"
    <3>1. \A x \in Workers : pc'[x] \in {"begin"} \cup CycleSteps => pc[x] \in {"begin"} \cup CycleSteps
      BY <1>3, <2>1 DEF Actors, CycleSteps
    <3> QED  BY <1>1, <1>2, <1>7, <2>1, <3>1 DEF LockOK
  <2>2. CASE cycleLock = Nobody /\ cycleLock' = w
    <3>1. \A x \in Workers : x # w => x # Nobody /\ pc'[x] = pc[x]
      BY <1>3, AutoDumpingAssumption DEF Actors
    <3>2. \A x \in Workers : pc'[x] \in {"begin"} \cup CycleSteps => x = w
      BY <1>1, <2>2, <3>1 DEF LockOK
    <3> QED  BY <1>1, <1>2, <1>7, <2>2, <3>2 DEF LockOK
  <2>3. (UNCHANGED cycleLock /\ stopping) \/ (cycleLock = Nobody /\ cycleLock' = w)
    BY DEF WorkerLoops
  <2>4. stopping => pc'[w] = "ended"
    BY LoopsThreads
  <2> QED  BY <2>1, <2>2, <2>3, <2>4
<1>9. SavedInv'
  <2>1. pc[w] # "record" /\ pc'[w] \notin {"update", "record"} /\ UNCHANGED <<applied, last, again, trouble>>
    BY <1>2, <1>3
  <2>2. \A b \in Actors : b # w => /\ pc'[b] = pc[b] /\ cycle'[b].todo = cycle[b].todo
                                   /\ cycle[b].crossed => cycle'[b].crossed
    BY <1>2, <1>3
  <2> QED  BY <1>1, <1>3, <2>1, <2>2, SavedKeeps
<1> QED  BY <1>4, <1>6, <1>8, <1>9 DEF OnceInv

(* No thread is in a cycle. *)
LEMMA FreshCycles ==
  ASSUME NEW c, NEW p, NEW m, p = BootPC(c), m = [h \in Handlers |-> Rest]
  PROVE  \A a \in Actors : p[a] \in {"idle", "loop", "unborn"}
BY BootThreads DEF Actors

(* A restart loses what was not stored: a lot whose last price is not in the file is in trouble. *)
LEMMA RestartOnce ==
  ASSUME Typed, OnceInv, Restart
  PROVE  OnceInv'
<1>1. PricesOK /\ MemoryOK /\ SavedInv
  BY DEF OnceInv
<1>2. /\ cycleLock' = Nobody /\ cycle' = [a \in Actors |-> NoCycle] /\ applied' = stateFile.applied
      /\ trouble' = trouble \cup {l \in OwnLots : last[l] # Nothing /\ AsEntry(l, last[l]) \notin ToSet(stateFile.applied)}
      /\ profile' = [l \in OwnLots |-> price[l]] /\ UNCHANGED <<price, stateFile, last, again>>
  BY DEF Restart
<1>3. \A a \in Actors : pc'[a] \in {"idle", "loop", "unborn"}
  <2>1. pc' = BootPC(heap'[1]) /\ my' = [h \in Handlers |-> Rest]
    BY DEF Restart
  <2> QED  BY <2>1, FreshCycles
<1>4. PricesOK'
  BY <1>1, <1>2 DEF PricesOK
<1>5. CyclesOK'
  <2>1. NoCycle \in [kept : Nat, todo : Seq(Decided), crossed : BOOLEAN]
    BY EmptySeq DEF NoCycle
  <2>2. cycle' \in [Actors -> [kept : Nat, todo : Seq(Decided), crossed : BOOLEAN]]
    BY <1>2, <2>1
  <2> QED  BY <1>3, <2>2 DEF CyclesOK
<1>6. MemoryOK'
  BY <1>1, <1>2 DEF MemoryOK, EntriesOK, OneEach
<1>7. LockOK'
  <2>1. InCycle' = {}
    BY <1>3 DEF InCycle
  <2>2. \A w \in Workers : pc'[w] \notin {"begin"} \cup CycleSteps
    BY <1>3 DEF Actors, CycleSteps
  <2> QED  BY <1>2, <2>1, <2>2 DEF LockOK
<1>8. SavedInv'
  <2>1. again' \subseteq trouble'
    BY <1>1, <1>2 DEF SavedInv
  <2>2. \A l \in OwnLots \ trouble' : last'[l] # Nothing => Holds(applied, l)'
    BY <1>2 DEF Holds
  <2> QED  BY <1>3, <2>1, <2>2 DEF SavedInv
<1> QED  BY <1>4, <1>5, <1>6, <1>7, <1>8 DEF OnceInv

(* The initial states have it. *)
LEMMA InitOnce ==
  ASSUME AdminInit
  PROVE  OnceInv
<1>1. Init
  BY DEF AdminInit
<1>2. PICK s \in Scenarios :
        /\ price \in s.prices /\ profile = [l \in OwnLots |-> price[l]] /\ cycleLock = Nobody
        /\ cycle = [a \in Actors |-> NoCycle]
        /\ applied = <<>> /\ told = [l \in OwnLots |-> <<>>] /\ stateFile = [applied |-> applied, told |-> told]
        /\ last = [l \in OwnLots |-> Nothing] /\ again = {} /\ trouble = {}
        /\ pc = BootPC(config) /\ my = [h \in Handlers |-> Rest]
  BY <1>1 DEF Init
<1>3. \A a \in Actors : pc[a] \in {"idle", "loop", "unborn"}
  BY <1>2, FreshCycles
<1>4. PricesOK
  <2>1. price \in [OwnLots \cup Rivals -> Nat]
    BY <1>2, ScenarioAssumption
  <2> QED  BY <1>2, <2>1 DEF PricesOK
<1>5. CyclesOK
  <2>1. NoCycle \in [kept : Nat, todo : Seq(Decided), crossed : BOOLEAN]
    BY EmptySeq DEF NoCycle
  <2> QED  BY <1>2, <1>3, <2>1 DEF CyclesOK
<1>6. MemoryOK
  <2>1. applied \in Seq(Saved) /\ Len(applied) = 0 /\ DOMAIN applied = {}
    BY <1>2, EmptySeq
  <2>2. EntriesOK(applied)
    BY <2>1, AutoDumpingAssumption DEF EntriesOK, OneEach
  <2> QED  BY <1>2, <2>2 DEF MemoryOK, Nothing
<1>7. LockOK
  <2>1. InCycle = {}
    BY <1>3 DEF InCycle
  <2>2. \A w \in Workers : pc[w] \notin {"begin"} \cup CycleSteps
    BY <1>3 DEF Actors, CycleSteps
  <2> QED  BY <1>2, <2>1, <2>2 DEF LockOK
<1>8. SavedInv
  BY <1>2, <1>3 DEF SavedInv
<1> QED  BY <1>4, <1>5, <1>6, <1>7, <1>8 DEF OnceInv

(* Every step keeps it. *)
LEMMA NextOnce ==
  ASSUME Typed, Typed', OnceInv, AdminNext
  PROVE  OnceInv'
<1>1. CASE Restart
  BY <1>1, RestartOnce
<1>2. CASE \E w \in Workers : WorkerLoops(w)
  BY <1>2, LoopsOnce
<1>3. CASE \E a \in Actors : Cycles(a)
  BY <1>3, CyclesOnce
<1>4. CASE ~Restart /\ (\A w \in Workers : ~WorkerLoops(w)) /\ (\A a \in Actors : ~Cycles(a))
  <2>1. Quiet
    BY <1>4, QuietSteps
  <2>2. Len(heap) <= Len(heap')
    BY <1>4, HeapGrows
  <2> QED  BY <2>1, <2>2, QuietOnce
<1> QED  BY <1>1, <1>2, <1>3, <1>4

(* A step that changes nothing keeps it. *)
LEMMA StillOnce ==
  ASSUME OnceInv, UNCHANGED adminVars
  PROVE  OnceInv'
<1>1. UNCHANGED <<pc, heap, cycleLock, cycle, price, profile, applied, told, stateFile, last, again, trouble>>
  BY DEF adminVars, vars, panelVars, scheduler, storage, history, settings
<1>2. \A a \in Actors : Turn(a)' = Turn(a)
  BY <1>1 DEF Turn
<1>3. \A l : Holds(applied, l)' <=> Holds(applied, l)
  BY <1>1 DEF Holds
<1>4. InCycle' = InCycle
  BY <1>1 DEF InCycle
<1>5. PricesOK' /\ CyclesOK' /\ MemoryOK' /\ LockOK'
  BY <1>1, <1>2, <1>4 DEF OnceInv, PricesOK, CyclesOK, MemoryOK, EntriesOK, OneEach, LockOK
<1>6. SavedInv'
  BY <1>1, <1>2, <1>3 DEF OnceInv, SavedInv, PriceOf
<1> QED  BY <1>5, <1>6 DEF OnceInv

(* It holds always. *)
LEMMA OnceInvariant == AdminSpec => [](Typed /\ OnceInv)
<1>1. AdminInit => OnceInv
  BY InitOnce
<1>2. Typed /\ Typed' /\ OnceInv /\ [AdminNext]_adminVars => OnceInv'
  BY NextOnce, StillOnce
<1>3. AdminSpec => AdminInit /\ [][AdminNext]_adminVars /\ []Typed
  BY TypedInvariant, PTL DEF AdminSpec, adminVars
<1> QED  BY <1>1, <1>2, <1>3, PTL

(* The same price is not saved twice for a lot unless a cycle run by hand crossed another, the call failed  *)
(* after the price had changed, the price was not stored when the process ended or the entry of the lot was *)
(* pushed out: run_cycle, _already_applied and set_applied of auto-dumping, under _cycle_lock. *)
THEOREM SavedOnceAlways == AdminSpec => []SavedOnce
<1>1. OnceInv => SavedOnce
  BY DEF OnceInv, SavedInv, SavedOnce
<1> QED  BY <1>1, OnceInvariant, PTL

(* What may cross. *)
CrossingsOK == overlap \subseteq {"saves", "switches"}

(* Every step leaves it so. *)
LEMMA CrossingsStep ==
  ASSUME Typed, AdminNext, CrossingsOK
  PROVE  CrossingsOK'
<1>1. ASSUME UNCHANGED overlap
      PROVE  CrossingsOK'
  BY <1>1 DEF CrossingsOK
<1>2. ASSUME NEW h \in Handlers, Updates(h)
      PROVE  CrossingsOK'
  <2>1. PICK job, new : UpdatesAs(h, job, new)
    BY <1>2 DEF Updates
  <2> QED  BY <2>1 DEF UpdatesAs, Change, Crossings, CrossingsOK
<1>3. ASSUME NEW h \in Handlers, Writes(h) \/ RollBack(h) \/ Drives(h)
      PROVE  UNCHANGED overlap
  BY <1>3 DEF Writes, RollBack, Drives, SwitchSaved, StopScheduler, Joined, StartScheduler, Spawn
<1>4. ASSUME NEW w \in Workers, WorkerLoops(w)
      PROVE  UNCHANGED overlap
  BY <1>4 DEF WorkerLoops
<1>5. Restart => UNCHANGED overlap
  BY DEF Restart
<1> QED  BY <1>1, <1>2, <1>3, <1>4, <1>5, StepKinds DEF Kinds, Aside

(* It is always so. *)
LEMMA CrossingsInvariant == AdminSpec => []CrossingsOK
<1>1. AdminInit => CrossingsOK
  BY DEF AdminInit, Init, CrossingsOK
<1>2. Typed /\ CrossingsOK /\ [AdminNext]_adminVars => CrossingsOK'
  <2>1. ASSUME CrossingsOK, UNCHANGED adminVars
        PROVE  CrossingsOK'
    BY <2>1 DEF CrossingsOK, adminVars, vars, panelVars
  <2> QED  BY <2>1, CrossingsStep
<1> QED  BY <1>1, <1>2, TypedInvariant, PTL DEF AdminSpec, adminVars

(* What has been dropped were rules. *)
DroppedOK == dropped \subseteq RuleIds

(* It is always so. *)
LEMMA DroppedInvariant == AdminSpec => []DroppedOK
<1>1. AdminInit => DroppedOK
  BY DEF DroppedOK, AdminInit, Init
<1>2. ASSUME Typed, DroppedOK, [AdminNext]_adminVars
      PROVE  DroppedOK'
  <2>1. CASE UNCHANGED adminVars
    <3>1. UNCHANGED dropped
      BY <2>1 DEF adminVars, vars, history
    <3> QED  BY <1>2, <3>1 DEF DroppedOK
  <2>2. CASE AdminNext
    <3>1. UNCHANGED dropped \/ (Doubles(file) \subseteq RuleIds /\ dropped' = dropped \cup Doubles(file))
      BY <1>2, <2>2, DroppedStep, RestartDrops
    <3> QED  BY <1>2, <3>1 DEF DroppedOK
  <2> QED  BY <1>2, <2>1, <2>2
<1> QED  BY <1>1, <1>2, TypedInvariant, PTL DEF AdminSpec, adminVars

(* The variables hold what they are declared to hold. *)
THEOREM TypeOKAlways == AdminSpec => []TypeOK
<1> DEFINE Inv == Typed /\ OnceInv /\ astray = FALSE /\ WorkerOK /\ CrossingsOK /\ DroppedOK
<1>1. Inv => TypeOK
  <2> SUFFICES ASSUME Typed, OnceInv, astray = FALSE, WorkerOK, CrossingsOK, DroppedOK
               PROVE  TypeOK
    OBVIOUS
  <2>1. current \in DOMAIN heap /\ \A i \in DOMAIN heap : heap[i] \in Config
    BY LenProperties, ElementOfSeq DEF Typed, StoreOK
  <2>2. \A i \in DOMAIN heap : heap[i].enabled \in BOOLEAN /\ IdsOf(heap[i].rules) \subseteq RuleIds
    <3> TAKE i \in DOMAIN heap
    <3>1. PICK c \in Config : c = heap[i]
      BY <2>1
    <3>2. c.enabled \in BOOLEAN /\ c.rules \in Seq(RuleRecords)
      BY DEF Config
    <3>3. IdsOf(c.rules) \subseteq RuleIds
      <4> DEFINE q == c.rules
      <4>1. \A j \in DOMAIN q : q[j] \in RuleRecords
        BY <3>2, ElementOfSeq, LenProperties
      <4>2. \A r \in RuleRecords : r.id \in RuleIds
        BY DEF RuleRecords
      <4> QED  BY <4>1, <4>2 DEF IdsOf
    <3> QED  BY <3>1, <3>2, <3>3
  <2>3. DOMAIN dialog = Users /\ DOMAIN pc = Actors /\ DOMAIN my = Handlers
    BY DEF Typed, DialogsOK, ThreadsOK
  <2>4. issued \subseteq RuleIds \cup TemplateIds /\ promised \subseteq issued
    BY DEF Typed, IdsOK
  <2>5. stopping \in BOOLEAN /\ worker \in Workers \cup {Nobody} /\ cycleLock \in Workers \cup {Nobody}
    BY DEF WorkerOK, OnceInv, LockOK
  <2>6. \A a \in Actors : pc[a] \in {"update", "record", "tell"} => cycle[a].todo # <<>>
    BY DEF OnceInv, CyclesOK
  <2>7. price \in [OwnLots \cup Rivals -> Nat] /\ profile \in [OwnLots -> Nat]
    BY DEF OnceInv, PricesOK
  <2>8. Len(applied) <= AppliedLimit /\ \A i, j \in DOMAIN applied : applied[i].lot = applied[j].lot => i = j
    BY DEF OnceInv, MemoryOK, EntriesOK, OneEach
  <2>9. again \cup trouble \subseteq OwnLots /\ dropped \subseteq RuleIds /\ overlap \subseteq {"saves", "switches"} /\ astray \in BOOLEAN
    BY DEF OnceInv, MemoryOK, CrossingsOK, DroppedOK
  <2> QED  BY <2>1, <2>2, <2>3, <2>4, <2>5, <2>6, <2>7, <2>8, <2>9 DEF TypeOK
<1> QED  BY <1>1, TypedInvariant, OnceInvariant, NothingAstray, WorkInvariant, CrossingsInvariant, DroppedInvariant, PTL
=============================================================================
