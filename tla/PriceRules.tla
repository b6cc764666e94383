----------------------------- MODULE PriceRules -----------------------------
(* How auto-dumping finds the price of a lot: the rules that apply to it, the  *)
(* cheapest competitor of each, the price under that competitor, and the rule *)
(* that wins.                                                                 *)
(* (core/modules/auto_dumping: pricing.py, matching.py, conflicts.py,          *)
(*  decide in service.py)                                                     *)
(*                                                                            *)
(* Prices are in thousandths of a rouble, percentages are whole numbers.      *)
EXTENDS Integers, Sequences, FiniteSets, SequencesExt

CONSTANT AnyLot   \* the lot of a rule that is bound to a subcategory only

Cent == 10

(* num/den, den > 0, to the nearest cent.                                     *)
RoundedCents(num, den) == Cent * ((2 * num + Cent * den) \div (2 * Cent * den))

(* What is left to the seller of the competitor's price, less the rule's step, *)
(* is UnderNum / UnderDen.                                                    *)
UnderDen(rule) == 100 + rule.commission
UnderNum(price, rule) ==
    IF rule.percent THEN price * (100 - rule.value)
                    ELSE price * 100 - rule.value * UnderDen(rule)

(* Never under the rule's floor, to the cent.                                  *)
FinalPrice(price, rule) ==
    IF UnderNum(price, rule) >= rule.ownMin * UnderDen(rule)
    THEN RoundedCents(UnderNum(price, rule), UnderDen(rule))
    ELSE RoundedCents(rule.ownMin, 1)

(* A title is the set of words in it; `text` are the keywords found anywhere.  *)
Matched(lot, rule) ==
    IF rule.all /\ ~(rule.keywords \subseteq lot.text) THEN 0
    ELSE Cardinality(rule.keywords \cap lot.text)

Blacklisted(lot, rule) ==
    \/ lot.seller \in ToSet(rule.sellers)
    \/ ToSet(rule.words) \cap lot.words # {}

AppliesTo(rule, own) ==
    rule.enabled /\ IF rule.lot # AnyLot THEN rule.lot = own.id ELSE rule.sub = own.sub

Competes(lot, own, rule, ownIds) ==
    /\ lot.id \notin ownIds \cup {own.id}
    /\ lot.sub = IF rule.lot # AnyLot THEN own.sub ELSE rule.sub
    /\ ~Blacklisted(lot, rule)
    /\ Matched(lot, rule) > 0
    /\ lot.price >= rule.competitorMin

(* The first of the cheapest lots.                                            *)
Cheapest(lots) ==
    lots[CHOOSE i \in DOMAIN lots : \A j \in DOMAIN lots :
            lots[i].price < lots[j].price \/ (lots[i].price = lots[j].price /\ i <= j)]

(* The candidates for a lot, one for each rule, at its index, that finds a     *)
(* competitor.                                                                *)
Candidates(own, catalog, rules, ownIds) ==
    LET rivals(rule) == {i \in DOMAIN catalog : Competes(catalog[i], own, rule, ownIds)}
        useful == {i \in DOMAIN rules : AppliesTo(rules[i], own) /\ rivals(rules[i]) # {}}
    IN  [i \in useful |->
            LET rival == Cheapest(Restrict(catalog, rivals(rules[i])))
            IN  [rule |-> rules[i], rival |-> rival.id, matched |-> Matched(rival, rules[i]),
                 target |-> FinalPrice(rival.price, rules[i])]]

(* Candidate c goes before d: more keywords, a lower price, a smaller id.      *)
Before(c, d) ==
    \/ c.matched > d.matched
    \/ c.matched = d.matched /\ c.target < d.target
    \/ c.matched = d.matched /\ c.target = d.target /\ c.rule.id <= d.rule.id

Best(candidates) ==
    candidates[CHOOSE i \in DOMAIN candidates :
                  \A j \in DOMAIN candidates : Before(candidates[i], candidates[j])]
=============================================================================
