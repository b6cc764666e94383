-------------------------- MODULE AutoDumpingPanel --------------------------
(* The pages of auto-dumping in Telegram: the rules with their buttons, the    *)
(* dialog that makes a rule, and the blacklists of a rule.                    *)
(* (core/modules/auto_dumping/telegram.py, settings.py, common/payloads.py)   *)
(*                                                                            *)
(* A button carries the index of a rule and a token; the token, good for one   *)
(* tap, keeps the rule's id and the rule object itself.  A rule object is a    *)
(* rule id and the settings it lives in: a rollback makes another of it.       *)
(* Pages have no end here, and tokens are never too many: a button beyond      *)
(* either limit is a button nobody taps.                                      *)
EXTENDS TelegramSettings, PriceRules

CONSTANTS
    OwnLots,   \* the lots of the seller
    Market,    \* Market[l]: seller, text, words and subcategory of lot l
    Answers,   \* Answers[step]: what an administrator may answer to a step
    Lists,     \* the blacklists of a rule: "sellers", "words"
    Words      \* what an administrator may add to a blacklist

VARIABLES
    panel,     \* the buttons with tokens on each administrator's page
    shown,     \* the buttons of the rule dialog in each chat
    profile,   \* the price of each own lot in the cached profile
    astray     \* history: a button or an answer changed a blacklist it was not made for

(* A rule, and what can stand in its lists.                                    *)
Keywords == UNION {Market[l].text : l \in DOMAIN Market}
Entries  == Words \cup UNION {Market[l].words \cup {Market[l].seller} : l \in DOMAIN Market}
RuleRecords ==
    [id : RuleIds, enabled : BOOLEAN, lot : OwnLots \cup {AnyLot}, sub : {Market[l].sub : l \in DOMAIN Market},
     keywords : SUBSET Keywords, all : BOOLEAN, percent : BOOLEAN, value : Nat, competitorMin : Nat,
     ownMin : Nat, commission : 0..100, sellers : Seq(Entries), words : Seq(Entries)]

ASSUME AutoDumpingPanelAssumption ==
    /\ Lists \subseteq {"sellers", "words"} /\ OwnLots \subseteq DOMAIN Market
    /\ \A l \in DOMAIN Market : IsFiniteSet(Market[l].text)
    /\ Answers.keywords \subseteq SUBSET Keywords
    /\ \A step \in {"value", "competitorMin", "ownMin", "commission"} : Answers[step] \subseteq Int

pages == <<panel, shown>>

Rules      == config.rules
Object(i)  == [in |-> current, id |-> Rules[i].id]
Without(u, b) == panel' = [panel EXCEPT ![u] = @ \ {b}]
Show(u, buttons) == panel' = [panel EXCEPT ![u] = buttons]

Button(act, i) == [act |-> act, index |-> i, rule |-> Object(i)]
ListButton(act, i, l) == [act |-> act, index |-> i, rule |-> Object(i), list |-> l]
ItemButton(i, l, j) ==
    [act |-> "remove", index |-> i, rule |-> Object(i), list |-> l, item |-> j, word |-> Rules[i][l][j]]
RulesPage   == {Button("open", i) : i \in DOMAIN Rules}
RulePage(i) == IF i \notin DOMAIN Rules THEN {}
               ELSE {Button(act, i) : act \in {"toggle", "delete"}}
                    \cup {ListButton("list", i, l) : l \in Lists}
ListPage(i, l) == IF i \notin DOMAIN Rules THEN {}
                  ELSE {ListButton("add", i, l)} \cup {ItemButton(i, l, j) : j \in DOMAIN Rules[i][l]}

(* The rule at the button's index is still the object the button was made for. *)
Valid(b) == b.index \in DOMAIN Rules /\ b.rule = Object(b.index)
(* A change looks at the index and the id again, or at the index alone.        *)
SameId(b)  == b.index \in DOMAIN Rules /\ b.rule.id = Rules[b.index].id
SomeRule(b) == b.index \in DOMAIN Rules

-----------------------------------------------------------------------------
(* Looking at pages.                                                          *)

Look(u, b, buttons) ==
    /\ IF Valid(b) THEN Show(u, buttons) ELSE Without(u, b)
    /\ UNCHANGED <<settings, dialog, pc, my, left, issued, promised, overlap, shown, astray>>

ShowRules(u) ==
    /\ "rules" \in left.topics
    /\ Show(u, RulesPage)
    /\ UNCHANGED <<settings, dialog, pc, my, left, issued, promised, overlap, shown, astray>>

ShowRule(u) == \E b \in panel[u] : b.act = "open" /\ Look(u, b, RulePage(b.index))

(* The page with the two lists is passed over: its buttons are checked alike.  *)
ShowList(u) == \E b \in panel[u] : b.act = "list" /\ Look(u, b, ListPage(b.index, b.list))

-----------------------------------------------------------------------------
(* Buttons of a rule: checked and spent first, then the change, or the question *)
(* for the words of a blacklist.                                              *)

TapRule(h, u) ==
    /\ Tap("rules")
    /\ \E b \in panel[u] :
          /\ b.act \in {"toggle", "delete", "remove", "add"}
          /\ Without(u, b)
          /\ IF Valid(b) /\ (b.act = "remove" =>
                  LET items == Rules[b.index][b.list]
                  IN  b.item \in DOMAIN items /\ items[b.item] = b.word)
             THEN Begin(h, Job(b.act, u, b), "change")
             ELSE pc[h] = "idle" /\ UNCHANGED <<pc, my>>
    /\ UNCHANGED <<settings, dialog, issued, promised, overlap, shown, astray>>

Fails(h) == Ends(h) /\ UNCHANGED <<settings, promised, overlap, astray>>

ToggleRule(h) ==
    LET b == my[h].on
    IN  /\ pc[h] = "change" /\ my[h].job = "toggle"
        /\ \/ ~SameId(b) /\ Fails(h)
           \/ /\ SameId(b)
              /\ Save(h, my[h], [config EXCEPT !.rules[b.index].enabled = ~@])
              /\ UNCHANGED <<promised, astray>>
        /\ UNCHANGED <<dialog, left, issued, pages>>

(* The rules behind the deleted one move up.                                  *)
DeleteRule(h) ==
    LET b == my[h].on
    IN  /\ pc[h] = "change" /\ my[h].job = "delete"
        /\ \/ ~SameId(b) /\ Fails(h)
           \/ /\ SameId(b)
              /\ Shift(h, my[h], [config EXCEPT !.rules = RemoveAt(@, b.index)])
              /\ promised' = promised \ {b.rule.id}
              /\ UNCHANGED astray
        /\ UNCHANGED <<dialog, left, issued, pages>>

(* The item is taken by its index, from the rule at the index.                 *)
RemoveWord(h) ==
    LET b == my[h].on
    IN  /\ pc[h] = "change" /\ my[h].job = "remove"
        /\ \/ /\ ~(SomeRule(b) /\ b.item \in DOMAIN Rules[b.index][b.list])
              /\ Fails(h)
           \/ /\ SomeRule(b) /\ b.item \in DOMAIN Rules[b.index][b.list]
              /\ Shift(h, my[h], [config EXCEPT !.rules[b.index][b.list] = RemoveAt(@, b.item)])
              /\ astray' = (astray \/ ~(\/ my[h].moved
                                        \/ SameId(b) /\ Rules[b.index][b.list][b.item] = b.word))
              /\ UNCHANGED promised
        /\ UNCHANGED <<dialog, left, issued, pages>>

-----------------------------------------------------------------------------
(* Words for a blacklist: asked for, perhaps sent as a file that is downloaded *)
(* after the rule was looked up, and stored by the index alone.                *)

(* The dialog has the button it came from and, bound to its token, the object   *)
(* that was at the index when the question had been sent.                      *)
WordsDialog(b, bound, moved, token) ==
    [kind |-> "words", on |-> b, bound |-> bound, moved |-> moved, token |-> token]

(* The question is sent, or fails; the rule at the index is read again, without *)
(* another check.                                                             *)
AskWords(h) ==
    LET b == my[h].on
    IN  /\ pc[h] = "change" /\ my[h].job = "add"
        /\ \/ UNCHANGED dialog
           \/ SomeRule(b) /\ Ask(my[h].user, WordsDialog(b, Object(b.index), my[h].moved, TRUE))
        /\ Ends(h)
        /\ UNCHANGED <<settings, left, issued, promised, overlap, pages, astray>>

Worded(b, w) == [act |-> b.act, index |-> b.index, rule |-> b.rule, list |-> b.list, word |-> w]

AcceptedAnyRule(d) == d.token   \* mutant
Accepted(d) == d.token /\ d.bound = Object(d.on.index)

(* The token of the dialog is good for one answer.                             *)
AnswerWords(h, u) ==
    LET d == dialog[u]
    IN  /\ Tap("rules") /\ d.kind = "words" /\ SomeRule(d.on)
        /\ Ask(u, WordsDialog(d.on, d.bound, d.moved, FALSE))
        /\ \/ /\ Accepted(d)
              /\ \E w \in Words \cup {Blank} :
                    Begin(h, [Job("words", u, Worded(d.on, w)) EXCEPT !.moved = d.moved], "change")
           \/ /\ ~Accepted(d) /\ pc[h] = "idle"
              /\ UNCHANGED <<pc, my>>
        /\ UNCHANGED <<settings, issued, promised, overlap, pages, astray>>

(* A dash, here Blank, empties the list; a word goes behind the others.        *)
StoreWords(h) ==
    LET b == my[h].on
    IN  /\ pc[h] = "change" /\ my[h].job = "words"
        /\ \/ ~SomeRule(b) /\ Fails(h)
           \/ /\ SomeRule(b)
              /\ \/ /\ b.word = Blank
                    /\ Shift(h, my[h], [config EXCEPT !.rules[b.index][b.list] = <<>>])
                 \/ /\ b.word # Blank
                    /\ Save(h, my[h], [config EXCEPT !.rules[b.index][b.list] =
                               IF b.word \in ToSet(@) THEN @ ELSE Append(@, b.word)])
              /\ astray' = (astray \/ ~(my[h].moved \/ SameId(b)))
              /\ UNCHANGED promised
        /\ UNCHANGED <<dialog, left, issued, pages>>

-----------------------------------------------------------------------------
(* The dialog that makes a rule.  Its draft is missing when a button of an old  *)
(* dialog was tapped outside of one: the administrator is asked, and whatever  *)
(* is answered is ignored.                                                    *)

Fresh   == [f \in {} |-> Blank]
Missing == [missing |-> TRUE]
RuleDialog(step, draft) == [kind |-> "rule", step |-> step, draft |-> draft]
Draft(u) == IF dialog[u].kind = "rule" THEN dialog[u].draft ELSE Missing
Drafted(draft, field, x) == IF draft = Missing THEN Missing ELSE [f \in DOMAIN draft \cup {field} |-> IF f = field THEN x ELSE draft[f]]

Offer(u, buttons) == shown' = [shown EXCEPT ![u] = @ \cup buttons]

NextStep == [lot |-> "keywords", keywords |-> "all", value |-> "competitorMin",
             competitorMin |-> "ownMin", ownMin |-> "commission", commission |-> "confirm"]

AddRule(u) ==
    /\ Tap("dialog")
    /\ Ask(u, RuleDialog("lot", Fresh))
    /\ Offer(u, {"cancel"})
    /\ UNCHANGED <<settings, pc, my, issued, promised, overlap, panel, astray>>

(* An id or a link for the lot, at least one word, a number in its range.      *)
Accepts(step, x) ==
    \/ step = "lot" /\ x # Blank
    \/ step = "keywords" /\ x # {}
    \/ step = "value" /\ x > 0
    \/ step \in {"competitorMin", "ownMin"} /\ x >= 0
    \/ step = "commission" /\ x \in 0..100

(* An answer in writing: to a step that expects one, or refused there; at the   *)
(* last step it ends the dialog.                                              *)
AnswerStep(u) ==
    LET d == dialog[u]
    IN  /\ Tap("dialog") /\ d.kind = "rule" /\ d.draft # Missing
        /\ \/ /\ d.step \in DOMAIN NextStep
              /\ \E x \in Answers[d.step] :
                    IF Accepts(d.step, x)
                    THEN Ask(u, RuleDialog(NextStep[d.step], Drafted(d.draft, d.step, x)))
                         /\ Offer(u, IF d.step = "commission" THEN {"confirm"}
                                     ELSE IF d.step = "keywords" THEN {"all"} ELSE {})
                    ELSE UNCHANGED <<dialog, shown>>
           \/ /\ d.step = "confirm"
              /\ Ask(u, NoDialog) /\ UNCHANGED shown
        /\ UNCHANGED <<settings, pc, my, issued, promised, overlap, panel, astray>>

(* The buttons of two steps, which work at any other step as well.             *)
TapStep(u) ==
    /\ Tap("dialog")
    /\ \E field \in {"all", "percent"} \cap shown[u], x \in BOOLEAN :
          /\ Ask(u, RuleDialog(IF field = "all" THEN "percent" ELSE "value", Drafted(Draft(u), field, x)))
          /\ Offer(u, IF field = "all" THEN {"percent"} ELSE {})
    /\ UNCHANGED <<settings, pc, my, issued, promised, overlap, panel, astray>>

(* Every dialog has a button that ends the dialog, whichever it is.            *)
Cancel(u) ==
    /\ left.topics \cap {"dialog", "rules", "switch", "templates", "status", "gistPages"} # {}
    /\ Spend("taps")
    /\ dialog[u].kind # "none" /\ Ask(u, NoDialog)
    /\ UNCHANGED <<settings, pc, my, issued, promised, overlap, pages, astray>>

(* normalize_rule: what has not been answered gets a default.                  *)
Default(draft, id) ==
    [id |-> id, enabled |-> TRUE, lot |-> draft.lot, sub |-> Market[draft.lot].sub,
     keywords |-> draft.keywords, all |-> FALSE, percent |-> FALSE, competitorMin |-> 0,
     value |-> 1000, ownMin |-> 0, commission |-> 0, sellers |-> <<>>, words |-> <<>>]
NewRule(draft, id) ==
    [f \in DOMAIN Default(draft, id) |-> IF f \in DOMAIN draft THEN draft[f] ELSE Default(draft, id)[f]]

ConfirmRule(h, u) ==
    LET draft == Draft(u)
    IN  /\ Tap("dialog") /\ pc[h] = "idle" /\ "confirm" \in shown[u]
        /\ \/ /\ "lot" \in DOMAIN draft => draft.lot \notin OwnLots
              /\ Ask(u, RuleDialog("lot", draft))
              /\ UNCHANGED <<settings, pc, my, issued, overlap>>
           \/ /\ {"lot", "keywords"} \subseteq DOMAIN draft /\ draft.lot \in OwnLots
              /\ \E id \in RuleIds \ issued :
                    /\ issued' = issued \cup {id}
                    /\ Save(h, Job("confirm", u, id),
                            [config EXCEPT !.rules = Append(@, NewRule(draft, id))])
              /\ UNCHANGED dialog
        /\ UNCHANGED <<promised, pages, astray>>

-----------------------------------------------------------------------------
(* A save of one of these is over: the dialog ends, or the page is drawn again. *)

RuleSaved(h) ==
    LET b == my[h].on
        u == my[h].user
    IN  /\ my[h].job \in {"toggle", "delete", "remove", "words", "confirm"} /\ Written(h)
        /\ promised' = IF my[h].job = "confirm" THEN promised \cup {b} ELSE promised
        /\ IF my[h].job \in {"words", "confirm"} THEN Ask(u, NoDialog) ELSE UNCHANGED dialog
        /\ \/ my[h].job = "confirm" /\ UNCHANGED panel
           \/ my[h].job = "toggle" /\ Show(u, RulePage(b.index))
           \/ my[h].job = "delete" /\ Show(u, RulesPage)
           \/ my[h].job \in {"remove", "words"} /\ Show(u, ListPage(b.index, b.list))
        /\ Ends(h)
        /\ UNCHANGED <<left, issued, overlap, shown, astray>>

PanelStep ==
    \/ \E u \in Users : \/ ShowRules(u) \/ ShowRule(u) \/ ShowList(u) \/ AddRule(u)
                        \/ AnswerStep(u) \/ TapStep(u) \/ Cancel(u)
    \/ \E h \in Handlers, u \in Users : TapRule(h, u) \/ AnswerWords(h, u) \/ ConfirmRule(h, u)
    \/ \E h \in Handlers : \/ ToggleRule(h) \/ DeleteRule(h) \/ RemoveWord(h) \/ AskWords(h) \/ StoreWords(h)
                           \/ RuleSaved(h)
=============================================================================
