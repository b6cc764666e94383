---------------------------- MODULE AutoDumping ----------------------------
(* Auto-dumping: a worker thread that, every few minutes, reads the lots of    *)
(* the market and puts the seller's own under the cheapest competitor; the     *)
(* panel that switches it, runs a cycle by hand and changes its rules; the     *)
(* market that moves meanwhile.                                               *)
(* (core/modules/auto_dumping: scheduler.py, service.py, storage.py,           *)
(*  funpay.py, module.py)                                                     *)
EXTENDS AutoDumpingPanel

CONSTANTS
    Rivals,        \* lots of other sellers
    Prices,        \* prices the sellers ask by hand
    AppliedLimit,  \* how many applied prices the storage keeps
    Nobody         \* no worker

ASSUME AutoDumpingAssumption ==
    /\ AppliedLimit \in Nat \ {0} /\ Nobody \notin Workers
    /\ Handlers \cap Workers = {} /\ OwnLots \cap Rivals = {}
    /\ AnyLot \notin OwnLots \cup Rivals /\ Blank \notin Texts \cup Words
    /\ RuleIds \subseteq Nat /\ RuleIds \cap TemplateIds = {}
    /\ Prices \subseteq Nat /\ OwnLots \cup Rivals = DOMAIN Market
    /\ IsFiniteSet(OwnLots) /\ IsFiniteSet(Rivals)
    /\ Workers # {} /\ Statuses # {}

ASSUME ScenarioAssumption ==
    \A s \in Scenarios :
        /\ s.enabled \in BOOLEAN /\ s.prices \subseteq [OwnLots \cup Rivals -> Nat]
        /\ s.rules \in Seq(RuleRecords) /\ s.templates \in Seq(TemplateRecords)

VARIABLES
    stopping,     \* the scheduler's stop event, shared by its workers
    worker,       \* _thread: the worker the scheduler knows of
    cycleLock,    \* _cycle_lock: the worker in a cycle
    cycle,        \* what each thread in a cycle has read and has still to do
    price,        \* the prices on FunPay
    applied,      \* the applied prices, the oldest entry first
    told,         \* the conflict told last, for each lot
    stateFile,    \* the file of these two
    last,         \* history: the price last saved for each lot, and the one seen then
    again,        \* history: lots the same price was saved twice for
    trouble,      \* history: lots for which that may happen
    dropped       \* history: rules that a start has dropped as doubles of another

scheduler == <<stopping, worker, cycleLock>>
storage   == <<applied, told, stateFile>>
history   == <<last, again, trouble, dropped>>
panelVars == <<settings, dialog, pc, my, left, issued, promised, overlap, pages, astray>>
vars      == <<panelVars, scheduler, cycle, price, profile, storage, history>>

NoCycle == [kept |-> 0, todo |-> <<>>, crossed |-> FALSE]
Nothing == [target |-> 0, seen |-> 0]

(* The settings as they are loaded: of two rules for the same lots with the    *)
(* same keywords the first remains.                                           *)
Key(rule) == <<IF rule.lot # AnyLot THEN rule.lot ELSE rule.sub, rule.keywords>>
Loaded(c) ==
    LET first   == {i \in DOMAIN c.rules : \A j \in 1..(i - 1) : Key(c.rules[j]) # Key(c.rules[i])}
        rank(i) == Cardinality({j \in first : j <= i})
    IN  [c EXCEPT !.rules = [n \in 1..Cardinality(first) |-> c.rules[CHOOSE i \in first : rank(i) = n]]]

IdsOf(entries) == {entries[i].id : i \in DOMAIN entries}
Doubles(c) ==
    {c.rules[i].id : i \in {k \in DOMAIN c.rules : \E j \in 1..(k - 1) : Key(c.rules[j]) = Key(c.rules[k])}}

(* A fresh process: the scheduler starts a worker if auto-dumping is on.       *)
FirstWorker   == CHOOSE w \in Workers : TRUE
BootWorker(c) == IF c.enabled THEN FirstWorker ELSE Nobody
BootPC(c)     == [a \in Actors |-> IF a \in Handlers THEN "idle"
                                   ELSE IF a = BootWorker(c) THEN "loop" ELSE "unborn"]

Init ==
    \E s \in Scenarios :
        /\ left = [topics |-> s.topics, taps |-> s.taps, moves |-> s.moves,
                   failures |-> s.failures, restarts |-> s.restarts]
        /\ heap = <<[enabled |-> s.enabled, rules |-> s.rules, templates |-> s.templates, gist |-> s.gist,
                     status |-> CHOOSE x \in Statuses : TRUE,
                     responses |-> [x \in Statuses |-> Blank],
                     auto |-> [x \in Statuses |-> [enabled |-> FALSE, text |-> Blank]]]>>
        /\ current = 1 /\ file = config
        /\ issued = IdsOf(s.rules) \cup IdsOf(s.templates) /\ promised = issued
        /\ dialog = [u \in Users |-> NoDialog] /\ panel = [u \in Users |-> {}]
        /\ shown = [u \in Users |-> {}]
        /\ my = [h \in Handlers |-> Rest] /\ pc = BootPC(config)
        /\ stopping = ~s.enabled /\ worker = BootWorker(config) /\ cycleLock = Nobody
        /\ cycle = [a \in Actors |-> NoCycle]
        /\ price \in s.prices
        /\ profile = [l \in OwnLots |-> price[l]]
        /\ applied = <<>> /\ told = [l \in OwnLots |-> <<>>]
        /\ stateFile = [applied |-> applied, told |-> told]
        /\ last = [l \in OwnLots |-> Nothing] /\ again = {} /\ trouble = {} /\ dropped = {}
        /\ overlap = {} /\ astray = FALSE

-----------------------------------------------------------------------------
(* The scheduler, as the handlers drive it.                                   *)

Switch(h, u) ==
    /\ Tap("switch") /\ pc[h] = "idle"
    /\ \E on \in BOOLEAN : Save(h, Job("switch", u, on), [config EXCEPT !.enabled = on])
    /\ UNCHANGED <<dialog, issued, promised, pages, astray, scheduler, cycle, price, profile, storage, history>>

(* The period itself is not modelled: a worker's wait may end at any time.     *)
AskInterval(u) ==
    /\ Tap("switch")
    /\ Ask(u, [kind |-> "interval"])
    /\ UNCHANGED <<settings, pc, my, issued, promised, overlap, pages, astray,
                   scheduler, cycle, price, profile, storage, history>>

(* By a button, or by an answer, which ends the dialog.                        *)
SetInterval(h, u) ==
    /\ Tap("switch") /\ pc[h] = "idle"
    /\ UNCHANGED dialog \/ (dialog[u].kind = "interval" /\ Ask(u, NoDialog))
    /\ Save(h, Job("interval", u, Blank), config)
    /\ UNCHANGED <<issued, promised, pages, astray, scheduler, cycle, price, profile, storage, history>>

SwitchSaved(h) ==
    /\ my[h].job \in Switching /\ Written(h)
    /\ Goto(h, IF my[h].job = "switch" /\ config.enabled THEN "start" ELSE "stop")
    /\ UNCHANGED <<dialog, my, left, issued, promised, overlap, pages, astray,
                   scheduler, cycle, price, profile, storage, history>>

(* stop sets the event, gives the worker two seconds to end, and forgets it.  A *)
(* worker in a cycle does not end before the cycle does.                      *)
StopScheduler(h) ==
    /\ pc[h] = "stop"
    /\ stopping' = TRUE
    /\ Goto(h, "join")
    /\ UNCHANGED <<settings, dialog, my, left, issued, promised, overlap, pages, astray,
                   worker, cycleLock, cycle, price, profile, storage, history>>

(* Mutant: a new period starts the scheduler, on or off.                       *)
JoinedStarts(h) ==
    /\ pc[h] = "join"
    /\ worker' = Nobody
    /\ \/ my[h].job = "interval" /\ Goto(h, "start") /\ UNCHANGED my
       \/ my[h].job # "interval" /\ Ends(h)
    /\ UNCHANGED <<settings, dialog, left, issued, promised, overlap, pages, astray,
                   stopping, cycleLock, cycle, price, profile, storage, history>>

Joined(h) ==
    /\ pc[h] = "join"
    /\ worker' = Nobody
    /\ \/ my[h].job = "interval" /\ config.enabled /\ Goto(h, "start") /\ UNCHANGED my
       \/ ~(my[h].job = "interval" /\ config.enabled) /\ Ends(h)
    /\ UNCHANGED <<settings, dialog, left, issued, promised, overlap, pages, astray,
                   stopping, cycleLock, cycle, price, profile, storage, history>>

Alive(w) == pc[w] \notin {"unborn", "ended"}

(* start looks for a running worker; when there is none, it clears the event    *)
(* and starts one.                                                            *)
StartScheduler(h) ==
    /\ pc[h] = "start"
    /\ \/ worker # Nobody /\ Alive(worker) /\ Ends(h)
       \/ ~(worker # Nobody /\ Alive(worker)) /\ Goto(h, "spawn") /\ UNCHANGED my
    /\ UNCHANGED <<settings, dialog, left, issued, promised, overlap, pages, astray,
                   scheduler, cycle, price, profile, storage, history>>

Spawn(h) ==
    /\ pc[h] = "spawn"
    /\ stopping' = FALSE
    /\ \E w \in Workers : /\ ~Alive(w)
                          /\ worker' = w
                          /\ pc' = [pc EXCEPT ![h] = "idle", ![w] = "loop"]
    /\ my' = [my EXCEPT ![h] = Rest]
    /\ UNCHANGED <<settings, dialog, left, issued, promised, overlap, pages, astray,
                   cycleLock, cycle, price, profile, storage, history>>

(* Mutant: the cycles of two workers may overlap.                              *)
WorkerLoopsUnlocked(w) ==
    /\ pc[w] = "loop"
    /\ \/ stopping /\ Goto(w, "ended") /\ UNCHANGED cycleLock
       \/ ~stopping /\ cycleLock' = w /\ Goto(w, "begin")
    /\ UNCHANGED <<settings, dialog, my, left, issued, promised, overlap, pages, astray,
                   stopping, worker, cycle, price, profile, storage, history>>

(* The wait of a worker is over: it ends, or begins a cycle unless another      *)
(* worker is in one.                                                          *)
WorkerLoops(w) ==
    /\ pc[w] = "loop"
    /\ \/ stopping /\ Goto(w, "ended") /\ UNCHANGED cycleLock
       \/ ~stopping /\ cycleLock = Nobody /\ cycleLock' = w /\ Goto(w, "begin")
    /\ UNCHANGED <<settings, dialog, my, left, issued, promised, overlap, pages, astray,
                   stopping, worker, cycle, price, profile, storage, history>>

-----------------------------------------------------------------------------
(* A cycle: run_cycle, of a worker that holds the lock or of a handler that     *)
(* does not take it.                                                          *)

RunNow(h, u) ==
    /\ Tap("run")
    /\ Begin(h, Job("run", u, Blank), "begin")
    /\ UNCHANGED <<settings, dialog, issued, promised, overlap, pages, astray,
                   scheduler, cycle, price, profile, storage, history>>

cycleElsewhere == <<settings, dialog, issued, promised, overlap, pages, astray, stopping, worker, profile>>

InCycle == {a \in Actors : pc[a] \in {"fetch", "lots", "update", "record", "tell", "finish"}}

(* A worker waits for its next cycle, a handler is done.                       *)
CycleOver(a) ==
    /\ Goto(a, IF a \in Workers THEN "loop" ELSE "idle")
    /\ my' = IF a \in Workers THEN my ELSE [my EXCEPT ![a] = Rest]
    /\ cycleLock' = IF a \in Workers THEN Nobody ELSE cycleLock
    /\ cycle' = [cycle EXCEPT ![a] = NoCycle]

(* The settings as they are now; the rules in them are read later.  A cycle run *)
(* by hand crosses those that are under way.                                  *)
CycleBegins(a) ==
    /\ pc[a] = "begin"
    /\ \/ ~config.enabled /\ CycleOver(a)
       \/ /\ config.enabled
          /\ Goto(a, "fetch")
          /\ LET crossing(b) == b # a /\ b \in InCycle /\ {a, b} \cap Handlers # {}
             IN  cycle' = [b \in Actors |->
                     IF b = a THEN [kept |-> current, todo |-> <<>>, crossed |-> \E c \in Actors : crossing(c)]
                     ELSE [cycle[b] EXCEPT !.crossed = @ \/ crossing(b)]]
          /\ UNCHANGED <<my, cycleLock>>
    /\ UNCHANGED <<cycleElsewhere, left, price, storage, history>>

(* The catalog and the own lots, these as the cached profile has them, and      *)
(* what the rules make of them: one decision for each lot with a competitor.   *)
Decisions(rules) ==
    LET lot(l)  == [id |-> l, price |-> price[l], seller |-> Market[l].seller, sub |-> Market[l].sub,
                    text |-> Market[l].text, words |-> Market[l].words]
        rivals  == SetToSeq(Rivals)
        catalog == [i \in DOMAIN rivals |-> lot(rivals[i])]
        found(l) == Candidates(lot(l), catalog, rules, OwnLots)
        decision(l) == [lot |-> l, seen |-> profile[l], conflict |-> Cardinality(DOMAIN found(l)) > 1,
                        target |-> Best(found(l)).target,
                        told |-> <<Best(found(l)).rule.id, Best(found(l)).target, Best(found(l)).rival>>]
        decided == SetToSeq({l \in OwnLots : DOMAIN found(l) # {}})
    IN  [i \in DOMAIN decided |-> decision(decided[i])]

CycleReads(a) ==
    /\ pc[a] = "fetch"
    /\ cycle' = [cycle EXCEPT ![a].todo = Decisions(heap[cycle[a].kept].rules)]
    /\ Goto(a, "lots")
    /\ UNCHANGED <<cycleElsewhere, my, left, cycleLock, price, storage, history>>

ReadFails(a) ==
    /\ pc[a] = "fetch" /\ Spend("failures")
    /\ Goto(a, "finish")
    /\ UNCHANGED <<cycleElsewhere, my, cycleLock, cycle, price, storage, history>>

-----------------------------------------------------------------------------
(* The lots of a cycle, one after the other.                                  *)

Turn(a)      == Head(cycle[a].todo)
NextLot(a)   == cycle' = [cycle EXCEPT ![a].todo = Tail(@)] /\ Goto(a, "lots")
Apart(x, y)  == x - y >= Cent \div 2 \/ y - x >= Cent \div 2
Entry(l)     == SelectInSeq(applied, LAMBDA e : e.lot = l)
AsEntry(l, p) == [lot |-> l, target |-> p.target, seen |-> p.seen]

AlreadyApplied(d) ==
    Entry(d.lot) # 0 /\ ~Apart(applied[Entry(d.lot)].target, d.target)
                     /\ ~Apart(applied[Entry(d.lot)].seen, d.seen)
Wanted(d)   == d.target > 0 /\ Apart(d.target, d.seen) /\ ~AlreadyApplied(d)

(* A lot whose price stays as it is: its conflict is told, unless it was.       *)
ConsiderLot(a) ==
    /\ pc[a] = "lots"
    /\ \/ cycle[a].todo = <<>> /\ Goto(a, "finish") /\ UNCHANGED cycle
       \/ /\ cycle[a].todo # <<>> /\ Wanted(Turn(a))
          /\ Goto(a, "update") /\ UNCHANGED cycle
       \/ /\ cycle[a].todo # <<>> /\ ~Wanted(Turn(a))
          /\ IF Turn(a).conflict /\ told[Turn(a).lot] # Turn(a).told
             THEN Goto(a, "tell") /\ UNCHANGED cycle
             ELSE NextLot(a)
    /\ UNCHANGED <<cycleElsewhere, my, left, cycleLock, price, storage, history>>

(* The price on FunPay, and whether it has been saved so before.               *)
Saves(l, d, troubled) ==
    /\ last' = [last EXCEPT ![l] = [target |-> d.target, seen |-> d.seen]]
    /\ again' = IF last[l] = [target |-> d.target, seen |-> d.seen] THEN again \cup {l} ELSE again
    /\ trouble' = IF troubled THEN trouble \cup {l} ELSE trouble
    /\ UNCHANGED dropped

UpdatePrice(a) ==
    LET d == Turn(a)
    IN  /\ pc[a] = "update"
        /\ price' = [price EXCEPT ![d.lot] = d.target]
        /\ Saves(d.lot, d, cycle[a].crossed)
        /\ Goto(a, "record")
        /\ UNCHANGED <<cycleElsewhere, my, left, cycleLock, cycle, storage>>

(* FunPay refuses without a word, which is taken for success; or the call fails *)
(* before or after the price has changed, and the lot is left for this cycle.  *)
UpdateFails(a) ==
    LET d == Turn(a)
    IN  /\ pc[a] = "update" /\ Spend("failures")
        /\ \/ UNCHANGED <<price, cycle>> /\ Saves(d.lot, d, cycle[a].crossed) /\ Goto(a, "record")
           \/ UNCHANGED <<price, history>> /\ NextLot(a)
           \/ price' = [price EXCEPT ![d.lot] = d.target] /\ Saves(d.lot, d, TRUE) /\ NextLot(a)
        /\ UNCHANGED <<cycleElsewhere, my, cycleLock, storage>>

(* Each change of the memory goes to the file at once, or fails and stays there. *)
Stored == stateFile' = [applied |-> applied', told |-> told'] /\ UNCHANGED left
Unsaved == Spend("failures") /\ UNCHANGED stateFile

(* set_applied: an entry that is set again keeps its place; over the limit, the *)
(* oldest entries go.                                                         *)
WithEntry(e) == IF Entry(e.lot) # 0 THEN [applied EXCEPT ![Entry(e.lot)] = e] ELSE Append(applied, e)
Uncapped(entries) == entries   \* mutant
Capped(entries) ==
    SubSeq(entries, 1 + (IF Len(entries) > AppliedLimit THEN Len(entries) - AppliedLimit ELSE 0), Len(entries))

Record(a) ==
    LET d == Turn(a)
        all == WithEntry(AsEntry(d.lot, d))
    IN  /\ pc[a] = "record"
        /\ applied' = Capped(all)
        /\ trouble' = trouble \cup ({e.lot : e \in ToSet(all)} \ {e.lot : e \in ToSet(applied')})
        /\ UNCHANGED <<told, last, again, dropped>>
        /\ \/ Stored /\ (IF d.conflict THEN Goto(a, "tell") /\ UNCHANGED cycle ELSE NextLot(a))
           \/ Unsaved /\ NextLot(a)
        /\ UNCHANGED <<cycleElsewhere, my, cycleLock, price>>

(* The fingerprint of the conflict is stored, then the conflict is told.        *)
Tell(a) ==
    /\ pc[a] = "tell"
    /\ told' = [told EXCEPT ![Turn(a).lot] = Turn(a).told]
    /\ NextLot(a)
    /\ UNCHANGED applied /\ (Stored \/ Unsaved)
    /\ UNCHANGED <<cycleElsewhere, my, cycleLock, price, history>>

(* record_cycle saves the memory once more.                                   *)
FinishCycle(a) ==
    /\ pc[a] = "finish"
    /\ CycleOver(a)
    /\ UNCHANGED <<applied, told>> /\ (Stored \/ Unsaved)
    /\ UNCHANGED <<cycleElsewhere, price, history>>

-----------------------------------------------------------------------------
(* What happens around: the market, and the end of the process.                *)

marketElsewhere == <<settings, dialog, pc, my, issued, promised, overlap, pages, astray,
                     scheduler, cycle, storage, history>>

(* Other sellers change their prices, and the seller his own.                  *)
PriceMoves ==
    /\ Spend("moves")
    /\ \E l \in OwnLots \cup Rivals, p \in Prices : p # price[l] /\ price' = [price EXCEPT ![l] = p]
    /\ UNCHANGED <<marketElsewhere, profile>>

(* Cardinal reads the profile again.                                          *)
ProfileRefreshes ==
    /\ profile' = [l \in OwnLots |-> price[l]]
    /\ UNCHANGED <<marketElsewhere, left, price>>

(* Buttons without a token outlive the process.  A price that is not in the     *)
(* file may be saved again.                                                   *)
Restart ==
    /\ Spend("restarts")
    /\ heap' = <<Loaded(file)>> /\ current' = 1
    /\ dropped' = dropped \cup Doubles(file)
    /\ dialog' = [u \in Users |-> NoDialog] /\ panel' = [u \in Users |-> {}]
    /\ my' = [h \in Handlers |-> Rest] /\ pc' = BootPC(heap'[1])
    /\ stopping' = ~heap'[1].enabled /\ worker' = BootWorker(heap'[1]) /\ cycleLock' = Nobody
    /\ cycle' = [a \in Actors |-> NoCycle]
    /\ applied' = stateFile.applied /\ told' = stateFile.told
    /\ trouble' = trouble \cup {l \in OwnLots : last[l] # Nothing /\
                      AsEntry(l, last[l]) \notin ToSet(stateFile.applied)}
    /\ profile' = [l \in OwnLots |-> price[l]]
    /\ UNCHANGED <<file, shown, issued, promised, overlap, astray, price, stateFile, last, again>>

-----------------------------------------------------------------------------
Step ==
    \/ SettingsStep /\ UNCHANGED <<pages, astray, scheduler, cycle, price, profile, storage, history>>
    \/ PanelStep /\ UNCHANGED <<scheduler, cycle, price, profile, storage, history>>
    \/ \E u \in Users : AskInterval(u)
    \/ \E h \in Handlers, u \in Users : Switch(h, u) \/ SetInterval(h, u) \/ RunNow(h, u)
    \/ \E h \in Handlers : \/ SwitchSaved(h) \/ StopScheduler(h) \/ Joined(h)
                           \/ StartScheduler(h) \/ Spawn(h)
    \/ \E w \in Workers : WorkerLoops(w)
    \/ \E a \in Actors : \/ CycleBegins(a) \/ CycleReads(a) \/ ReadFails(a) \/ ConsiderLot(a)
                         \/ UpdatePrice(a) \/ UpdateFails(a) \/ Record(a) \/ Tell(a) \/ FinishCycle(a)
    \/ PriceMoves \/ ProfileRefreshes

Next == Step \/ Restart

Spec == Init /\ [][Next]_vars

-----------------------------------------------------------------------------
(* Properties.                                                                *)

(* What the variables hold.                                                   *)
TypeOK ==
    /\ current \in DOMAIN heap
    /\ \A i \in DOMAIN heap : heap[i].enabled \in BOOLEAN /\ IdsOf(heap[i].rules) \subseteq RuleIds
    /\ DOMAIN dialog = Users /\ DOMAIN pc = Actors /\ DOMAIN my = Handlers
    /\ issued \subseteq RuleIds \cup TemplateIds /\ promised \subseteq issued
    /\ overlap \subseteq {"saves", "switches"} /\ astray \in BOOLEAN
    /\ stopping \in BOOLEAN /\ {worker, cycleLock} \subseteq Workers \cup {Nobody}
    /\ \A a \in Actors : pc[a] \in {"update", "record", "tell"} => cycle[a].todo # <<>>
    /\ price \in [OwnLots \cup Rivals -> Nat] /\ profile \in [OwnLots -> Nat]
    /\ Len(applied) <= AppliedLimit /\ \A i, j \in DOMAIN applied : applied[i].lot = applied[j].lot => i = j
    /\ again \cup trouble \subseteq OwnLots /\ dropped \subseteq RuleIds

(* The cached profile shows an old price for minutes: a lot that has just got a *)
(* price looks as if it had not.  The cycles do not save the same price again   *)
(* and again meanwhile, whatever workers there are and across restarts, unless a *)
(* cycle run by hand crossed another, the call failed after the price had       *)
(* changed, the price was not stored when the process ended, or the entry of    *)
(* the lot was pushed out.                                                    *)
SavedOnce == again \subseteq trouble

(* Words are taken from and added to the blacklist of the rule that was meant,  *)
(* or to none, although rules are deleted and settings rolled back between the  *)
(* page and the tap, and between the question and the answer.  The code does    *)
(* not look again between the check and the change of a tap or an answer, nor   *)
(* while the question for the words is being sent: only a deletion, an emptied  *)
(* list or a rollback just there can lead it astray.                           *)
RightRule == ~astray

(* A rule or a template that was reported as saved and not deleted since is     *)
(* there, whatever saves failed and restarts happened.  There are two           *)
(* exceptions: two changes were saved at the same time; or the rule was a       *)
(* second one for the same lots with the same keywords, which the dialog lets   *)
(* one make and the next start drops, also when its price is another.          *)
Kept ==
    "saves" \notin overlap =>
        promised \subseteq IdsOf(config.rules) \cup IdsOf(config.templates) \cup dropped

(* With nobody at the switch, a worker that goes on is there exactly when       *)
(* auto-dumping is on, unless two were at the switch at once.                  *)
WorkersAsSwitched ==
    (overlap = {} /\ \A h \in Handlers : my[h].job \notin Switching) =>
        (config.enabled <=> ~stopping /\ worker # Nobody /\ Alive(worker))
=============================================================================
