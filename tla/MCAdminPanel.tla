---------------------------- MODULE MCAdminPanel ---------------------------
(* A small market: the seller's lots 75 and 76, three rivals.  Each scenario gives *)
(* some of what can happen room to happen, and the rest none.                  *)
EXTENDS AdminPanel, TLC

CONSTANTS o1, o2, r1, r2, r3, h1, h2, any, A1, B2, ana, bob, pro, vip, t1

Symmetric == Permutations({h1, h2}) \cup Permutations({A1, B2})

MCMarket == [l \in {o1, o2, r1, r2, r3} |->
                [seller |-> IF l = r1 THEN ana ELSE bob,
                 text   |-> IF l = r2 THEN {pro, vip} ELSE {pro},
                 words  |-> IF l = r2 THEN {pro, vip} ELSE {pro},
                 sub    |-> IF l \in {o2, r3} THEN 8 ELSE 7]]

Rule(id, lot, value, ownMin) ==
    [id |-> id, enabled |-> TRUE, lot |-> lot, sub |-> IF lot = o2 THEN 8 ELSE 7, keywords |-> {pro},
     all |-> FALSE, percent |-> FALSE, value |-> value, competitorMin |-> 0, ownMin |-> ownMin,
     commission |-> 0, sellers |-> <<>>, words |-> <<>>]

R1 == Rule(1, o1, 10, 0)
R2 == [Rule(2, any, 10, 10) EXCEPT !.percent = TRUE, !.all = TRUE, !.keywords = {pro, vip}, !.commission = 25]
R3 == Rule(2, o2, 10, 0)
Listing(rule, l) == [rule EXCEPT !.sellers = l]

Cheap == [l \in {o1, o2, r1, r2, r3} |-> 1000]
AnyPrices == {[Cheap EXCEPT ![o1] = p, ![r1] = q] : p \in {1000, 1100}, q \in {1000, 1100}}

Quiet == [topics |-> {}, taps |-> 0, moves |-> 0, failures |-> 0, restarts |-> 0, enabled |-> FALSE,
          prices |-> {Cheap}, rules |-> <<>>, templates |-> <<>>,
          gist |-> [token |-> ana, visibility |-> "secret", mode |-> "order_id", custom |-> Blank]]

Race   == [Quiet EXCEPT !.topics = {"run", "switch"}, !.taps = 2, !.moves = 1,
                        !.enabled = TRUE, !.rules = <<R1>>]
Wind   == [Quiet EXCEPT !.moves = 2, !.failures = 1, !.restarts = 1, !.enabled = TRUE,
                        !.rules = <<[R1 EXCEPT !.words = <<vip>>], R2>>, !.prices = AnyPrices]
Full   == [Quiet EXCEPT !.moves = 1, !.restarts = 1, !.enabled = TRUE, !.rules = <<R1, R3>>]
Knobs  == [Quiet EXCEPT !.topics = {"switch"}, !.taps = 3, !.failures = 1, !.restarts = 1]
Shelf  == [Quiet EXCEPT !.topics = {"rules"}, !.taps = 3, !.failures = 1,
                        !.rules = <<Listing(R1, <<ana>>), Listing(R3, <<bob, ana>>)>>]
Refill == [Quiet EXCEPT !.topics = {"rules"}, !.taps = 5, !.rules = <<Listing(R1, <<ana>>)>>]
Wizard == [Quiet EXCEPT !.topics = {"dialog"}, !.taps = 11, !.restarts = 1, !.rules = <<R1>>]
Pages  == [Quiet EXCEPT !.topics = {"templates"}, !.taps = 5, !.failures = 1, !.restarts = 1,
                        !.templates = <<[id |-> t1, title |-> ana, text |-> ana]>>]
Words2 == [Quiet EXCEPT !.topics = {"status"}, !.taps = 3, !.failures = 1]

Notes  == [Quiet EXCEPT !.topics = {"gist"}, !.taps = 7, !.failures = 1, !.restarts = 1]
Names  == [Quiet EXCEPT !.topics = {"gist", "gistPages"}, !.taps = 3, !.failures = 1, !.restarts = 1]

MCScenarios == {Race, Wind, Full, Knobs, Shelf, Refill, Wizard, Pages, Words2, Notes, Names}
MCChatOf == [t \in {"topic", "stray"} |-> IF t = "topic" THEN "chat" ELSE Blank]
MCAnswers == [lot |-> {o1, o2, any, Blank}, keywords |-> {{}, {pro}}, value |-> {0, 10}, competitorMin |-> {0},
              ownMin |-> {0}, commission |-> {0, 101}]
=============================================================================
