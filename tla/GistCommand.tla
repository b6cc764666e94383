---------------------------- MODULE GistCommand ----------------------------
(* The /gist command: the text of a message becomes a gist on GitHub, named    *)
(* after the client or an order of his when it comes from a topic of Chat      *)
(* Sync, and its link may be sent to the client's chat; and the pages with the *)
(* settings of all that.                                                      *)
(* (core/gist: telegram.py, service.py, settings.py, client.py, ui.py;         *)
(*  core/funpay: chat_sync.py, orders.py)                                     *)
(*                                                                            *)
(* A command keeps the settings it began with, as an object: it sees what is   *)
(* changed in them, but not what a rollback puts in their place.               *)
EXTENDS TelegramSettings

CONSTANTS
    Topics,   \* topics of the Chat Sync group
    ChatOf,   \* ChatOf[topic]: the client's chat, Blank for a topic Chat Sync does not know
    Orders,   \* ids of orders
    MaxGists  \* bound: commands in a run

Modes == {"off", "custom", "chat_sync", "order_id"}
GistRecords ==
    [token : Texts \cup {Blank}, visibility : {"secret", "public"}, mode : Modes, custom : Texts \cup {Blank}]

ASSUME GistCommandAssumption ==
    Blank \notin Topics \cup Orders /\ \A s \in Scenarios : s.gist \in GistRecords

VARIABLES
    requests,  \* pending_requests: commands that wait for the choice of an order
    results,   \* pending_results: links that wait to be sent or not
    asked,     \* history: the topic each command came from, Blank for elsewhere
    gists,     \* history: the gists on GitHub
    sent,      \* history: the links that arrived in a chat of FunPay
    declined   \* history: the commands cancelled, and those whose link was not to be sent

pending   == <<requests, results>>
gistVars  == <<pending, asked, gists, sent, declined>>
elsewhere == <<settings, dialog, issued, promised, overlap>>

GistInit == requests = {} /\ results = {} /\ asked = <<>> /\ gists = <<>> /\ sent = <<>> /\ declined = {}

On(h)        == my[h].on
Continue(h, on, step) == my' = [my EXCEPT ![h].on = on] /\ Goto(h, step)

(* The settings a thread holds: those its command began with, or those of now. *)
GistSettings(h) == IF my[h].job = "gist" THEN heap[On(h).at].gist ELSE config.gist

-----------------------------------------------------------------------------
(* What the settings make of a gist.                                          *)

ConfigErrors(g, order) ==
    \/ g.token = Blank
    \/ g.mode = "custom" /\ g.custom = Blank
    \/ g.mode = "order_id" /\ order = Blank

(* The default name, also that of a name with nothing in it, is Blank here.    *)
FileName(g, client, order) ==
    [off |-> Blank, custom |-> g.custom, chat_sync |-> client, order_id |-> order][g.mode]

(* What precedes the text of a command counts as an order in one mode only.    *)
OrderIn(g, typed) == IF g.mode = "order_id" THEN typed ELSE Blank

(* What FunPay may answer for the paid orders of a client: none if it fails.    *)
PaidOrders == SUBSET Orders

(* The context of a message: the chat of its topic, with the client's name.    *)
(* The name may have to be asked for, and then the context may be missing.     *)
Context(topic, chat) ==
    IF topic \in Topics /\ ChatOf[topic] # Blank
    THEN \/ chat = ChatOf[topic] /\ UNCHANGED left
         \/ chat = Blank /\ Spend("failures")
    ELSE chat = Blank /\ UNCHANGED left

-----------------------------------------------------------------------------
(* The command.  In a topic the order may be left to be chosen.                *)
AskGist(h, u) ==
    /\ Tap("gist") /\ Len(asked) < MaxGists
    /\ \E topic \in Topics \cup {Blank}, typed \in Orders \cup {Blank} :
          LET order  == OrderIn(config.gist, typed)
              choice == config.gist.mode = "order_id" /\ order = Blank /\ topic # Blank
          IN  /\ asked' = Append(asked, topic)
              /\ Begin(h, Job("gist", u, [of |-> Len(asked'), at |-> current, topic |-> topic, order |-> order]),
                       IF choice THEN "choose" ELSE "check")
    /\ UNCHANGED <<elsewhere, pending, gists, sent, declined>>

(* The order is to be chosen: of which client?                                 *)
StartOrderSelection(h) ==
    /\ pc[h] = "choose"
    /\ \E chat \in {Blank, ChatOf[On(h).topic]} :
          /\ Context(On(h).topic, chat)
          /\ IF chat = Blank \/ ConfigErrors(GistSettings(h), "pending")
             THEN Ends(h)
             ELSE Goto(h, "orders") /\ UNCHANGED my
    /\ UNCHANGED <<elsewhere, gistVars>>

(* The paid orders of the client become buttons.                               *)
FetchOrders(h) ==
    /\ pc[h] = "orders"
    /\ \E orders \in PaidOrders :
          requests' = IF orders = {} THEN requests
                      ELSE requests \cup {[of |-> On(h).of, chat |-> ChatOf[On(h).topic], orders |-> orders]}
    /\ Ends(h)
    /\ UNCHANGED <<elsewhere, left, results, asked, gists, sent, declined>>

(* Mutant: the request is read and not taken out.                              *)
SelectOrderAgain(h, u) ==
    /\ Tap("gist")
    /\ \E r \in requests, o \in Orders :
          /\ o \in r.orders
          /\ Begin(h, Job("select", u, [of |-> r.of, chat |-> r.chat, order |-> o]), "name")
    /\ UNCHANGED <<elsewhere, requests, results, asked, gists, sent, declined>>

(* A button that finds its request gone does nothing.                          *)
SelectOrder(h, u) ==
    /\ Tap("gist")
    /\ \E r \in requests, o \in Orders :
          /\ o \in r.orders
          /\ requests' = requests \ {r}
          /\ Begin(h, Job("select", u, [of |-> r.of, chat |-> r.chat, order |-> o]), "name")
    /\ UNCHANGED <<elsewhere, results, asked, gists, sent, declined>>

CancelOrderSelection ==
    /\ Tap("gist")
    /\ \E r \in requests : requests' = requests \ {r} /\ declined' = declined \cup {r.of}
    /\ UNCHANGED <<elsewhere, pc, my, results, asked, gists, sent>>

-----------------------------------------------------------------------------
(* The gist and its link.                                                     *)

CheckConfig(h) ==
    /\ pc[h] = "check"
    /\ IF ConfigErrors(GistSettings(h), On(h).order) THEN Ends(h) ELSE Goto(h, "name") /\ UNCHANGED my
    /\ UNCHANGED <<elsewhere, left, gistVars>>

(* Name, token and visibility are read once more, then GitHub is called.       *)
Named(h, client, chat) ==
    LET g == GistSettings(h)
    IN  IF g.token = Blank THEN Ends(h)
        ELSE Continue(h, [of |-> On(h).of, chat |-> chat, name |-> FileName(g, client, On(h).order),
                          public |-> g.visibility = "public"], "create")

NameGist(h) ==
    /\ pc[h] = "name" /\ my[h].job = "gist"
    /\ \E chat \in {Blank} \cup {ChatOf[t] : t \in Topics} : Context(On(h).topic, chat) /\ Named(h, chat, chat)
    /\ UNCHANGED <<elsewhere, gistVars>>

(* A chosen order comes with the context of its request, but the name does not  *)
(* look at the client there.                                                  *)
NameByOrder(h) ==
    /\ pc[h] = "name" /\ my[h].job = "select"
    /\ Named(h, Blank, On(h).chat)
    /\ UNCHANGED <<elsewhere, left, gistVars>>

Gist(h) == [of |-> On(h).of, name |-> On(h).name, public |-> On(h).public]

(* The buttons under a link, when there is a chat it could be sent to.         *)
Offered(h) == IF On(h).chat = Blank THEN results ELSE results \cup {[of |-> On(h).of, chat |-> On(h).chat]}

CreateGist(h) ==
    /\ pc[h] = "create"
    /\ gists' = Append(gists, Gist(h))
    /\ results' = Offered(h)
    /\ Ends(h)
    /\ UNCHANGED <<elsewhere, left, requests, asked, sent, declined>>

(* No gist, or one whose link got lost with the answer.                        *)
CreateFails(h) ==
    /\ pc[h] = "create" /\ Spend("failures")
    /\ gists' \in {gists, Append(gists, Gist(h))}
    /\ Ends(h)
    /\ UNCHANGED <<elsewhere, pending, asked, sent, declined>>

SendResult(h, u) ==
    /\ Tap("gist")
    /\ \E r \in results : results' = results \ {r} /\ Begin(h, Job("send", u, r), "send")
    /\ UNCHANGED <<elsewhere, requests, asked, gists, sent, declined>>

SkipResult ==
    /\ Tap("gist")
    /\ \E r \in results : results' = results \ {r} /\ declined' = declined \cup {r.of}
    /\ UNCHANGED <<elsewhere, pc, my, requests, asked, gists, sent>>

LinkSent(h) ==
    /\ pc[h] = "send"
    /\ sent' = Append(sent, On(h))
    /\ Ends(h)
    /\ UNCHANGED <<elsewhere, left, pending, asked, gists, declined>>

(* The link has arrived or not; there is no second try.                        *)
SendFails(h) ==
    /\ pc[h] = "send" /\ Spend("failures")
    /\ sent' \in {sent, Append(sent, On(h))}
    /\ Ends(h)
    /\ UNCHANGED <<elsewhere, pending, asked, gists, declined>>

-----------------------------------------------------------------------------
(* The pages.                                                                 *)

SetGist(h, u) ==
    /\ Tap("gistPages") /\ pc[h] = "idle"
    /\ \/ \E mode \in Modes : Save(h, Job("gistPage", u, Blank), [config EXCEPT !.gist.mode = mode])
       \/ \E v \in {"secret", "public"} :
             Save(h, Job("gistPage", u, Blank), [config EXCEPT !.gist.visibility = v])
    /\ UNCHANGED <<dialog, issued, promised, gistVars>>

EditGist(u) ==
    /\ Tap("gistPages")
    /\ \E field \in {"token", "custom"} : Ask(u, [kind |-> "gist", field |-> field])
    /\ UNCHANGED <<settings, pc, my, issued, promised, overlap, gistVars>>

(* The dialog is over before the answer is saved.  A dash, here Blank, clears.  *)
SaveGistText(h, u) ==
    /\ Tap("gistPages") /\ pc[h] = "idle" /\ dialog[u].kind = "gist"
    /\ Ask(u, NoDialog)
    /\ \E x \in Texts \cup {Blank} :
          Save(h, Job("gistPage", u, Blank),
               IF dialog[u].field = "token" THEN [config EXCEPT !.gist.token = x]
                                            ELSE [config EXCEPT !.gist.custom = x])
    /\ UNCHANGED <<issued, promised, gistVars>>

GistSaved(h) ==
    /\ my[h].job = "gistPage" /\ Written(h) /\ Ends(h)
    /\ UNCHANGED <<dialog, left, issued, promised, overlap, gistVars>>

GistStep ==
    \/ CancelOrderSelection \/ SkipResult
    \/ \E u \in Users : EditGist(u)
    \/ \E h \in Handlers, u \in Users : \/ AskGist(h, u) \/ SelectOrder(h, u) \/ SendResult(h, u)
                                        \/ SetGist(h, u) \/ SaveGistText(h, u)
    \/ \E h \in Handlers : \/ StartOrderSelection(h) \/ FetchOrders(h) \/ CheckConfig(h) \/ NameGist(h) \/ NameByOrder(h)
                           \/ CreateGist(h) \/ CreateFails(h) \/ LinkSent(h) \/ SendFails(h) \/ GistSaved(h)

(* What waits for a button is in the memory only.                              *)
GistRestart == requests' = {} /\ results' = {} /\ UNCHANGED <<asked, gists, sent, declined>>

-----------------------------------------------------------------------------
(* One command makes one gist at most and its link reaches one chat at most,    *)
(* once: that of the topic it was asked in.  What was cancelled makes no gist,   *)
(* and a link that was not to be sent is not.  However many administrators tap  *)
(* the same buttons, and whatever fails or is restarted between them.           *)
OneLinkEach ==
    /\ \A i, j \in DOMAIN gists : gists[i].of = gists[j].of => i = j
    /\ \A i, j \in DOMAIN sent : sent[i].of = sent[j].of => i = j
    /\ \A i \in DOMAIN sent :
          /\ asked[sent[i].of] \in Topics /\ sent[i].chat = ChatOf[asked[sent[i].of]]
          /\ sent[i].of \notin declined
          /\ \E j \in DOMAIN gists : gists[j].of = sent[i].of
    /\ \A r \in requests : r.of \notin declined /\ \A j \in DOMAIN gists : gists[j].of # r.of
=============================================================================
