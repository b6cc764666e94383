-------------------------- MODULE TelegramSettings --------------------------
(* The settings of the plugin, and the panel of Telegram that changes them:    *)
(* message templates, statuses, and the dialogs they are edited in.           *)
(* (core/telegram/settings.py, core/runtime/settings.py)                      *)
(*                                                                            *)
(* Each handler runs on a thread of its own.  A change copies the settings,    *)
(* changes them in place and saves them; when the save fails the copy comes    *)
(* back, and with it other objects than those that were there.  An             *)
(* administrator has one dialog at a time: the next one takes its place.       *)
EXTENDS Integers, Sequences, FiniteSets, SequencesExt

CONSTANTS
    Users,        \* administrators, each with a chat of its own
    Handlers,     \* threads that run the handlers of Telegram
    Workers,      \* threads of the auto-dumping scheduler
    RuleIds,      \* ids the rules of auto-dumping may get
    TemplateIds,  \* ids the templates may get
    Statuses,     \* the statuses
    Texts,        \* texts an administrator sends
    Blank,        \* the empty text
    Scenarios     \* what a run starts from, and how much may happen in it

VARIABLES
    heap,      \* the settings, as they are and as each rollback left them behind
    current,   \* where in the heap the settings are now
    file,      \* the settings file
    dialog,    \* what each administrator has been asked last
    pc, my,    \* where each thread is; what a handler is doing
    left,      \* what may still happen, of the scenario of this run
    issued,    \* ids given out
    promised,  \* history: ids of what was reported as saved and not deleted since
    overlap    \* history: what two handlers have done at once

TemplateRecords == [id : TemplateIds, title : Texts, text : Texts \cup {Blank}]

Actors   == Handlers \cup Workers
config   == heap[current]
settings == <<heap, current, file>>

(* Bounded by the scenario: taps, moves of the market, failures, restarts.    *)
Spend(what)  == left[what] > 0 /\ left' = [left EXCEPT ![what] = @ - 1]
Tap(topic)   == topic \in left.topics /\ Spend("taps")

Job(job, user, on) == [job |-> job, user |-> user, on |-> on, moved |-> FALSE,
                       previous |-> Blank, dump |-> Blank]
Rest == Job("none", Blank, Blank)

Goto(a, step)   == pc' = [pc EXCEPT ![a] = step]
Begin(h, job, step) == pc[h] = "idle" /\ Goto(h, step) /\ my' = [my EXCEPT ![h] = job]
Ends(h)         == Goto(h, "idle") /\ my' = [my EXCEPT ![h] = Rest]
Ask(u, d)       == dialog' = [dialog EXCEPT ![u] = d]
NoDialog        == [kind |-> "none"]

-----------------------------------------------------------------------------
(* update_settings: the copy, the change and the dump of the settings; then the *)
(* file takes the dump's place, or the copy the settings'.                     *)

Switching == {"switch", "interval"}

(* Handlers other than h that are in the middle of a job that disturbs `job`.  *)
Crossings(h, job) ==
    {o \in {"saves", "switches"} : \E g \in Handlers \ {h} :
        \/ o = "saves" /\ pc[g] = "saving"
        \/ o = "switches" /\ job.job \in Switching /\ my[g].job \in Switching}

(* Every other handler that has looked something up finds it moved.            *)
Move(value, h) == [g \in Handlers |-> IF g = h THEN value
                                       ELSE [my[g] EXCEPT !.moved = @ \/ pc[g] = "change"]]

Dumped(job, new) == [job EXCEPT !.previous = config, !.dump = new]
Change(h, job, new) ==
    /\ heap' = [heap EXCEPT ![current] = new]
    /\ Goto(h, "saving")
    /\ overlap' = overlap \cup Crossings(h, job)
    /\ UNCHANGED <<current, file>>

Save(h, job, new)  == Change(h, job, new) /\ my' = [my EXCEPT ![h] = Dumped(job, new)]
Shift(h, job, new) == Change(h, job, new) /\ my' = Move(Dumped(job, new), h)

Written(h) == pc[h] = "saving" /\ file' = my[h].dump /\ UNCHANGED <<heap, current>>

(* Mutant: the settings are cleared and not filled again.                      *)
Cleared(h) ==
    /\ pc[h] = "saving"
    /\ Spend("failures")
    /\ heap' = Append(heap, [config EXCEPT !.rules = <<>>, !.templates = <<>>])
    /\ current' = Len(heap')
    /\ my' = Move(Rest, h)
    /\ Goto(h, "idle")
    /\ UNCHANGED <<file, dialog, issued, promised, overlap>>

(* The copy is put back with clear() and update(), one step here: a reader      *)
(* between them, which finds no setting at all, is left out.                  *)
RollBack(h) ==
    /\ pc[h] = "saving"
    /\ Spend("failures")
    /\ heap' = Append(heap, my[h].previous)
    /\ current' = Len(heap')
    /\ my' = Move(Rest, h)
    /\ Goto(h, "idle")
    /\ UNCHANGED <<file, dialog, issued, promised, overlap>>

-----------------------------------------------------------------------------
(* The templates.  Their buttons carry the id, and every handler looks it up.  *)

Index(templates, id) == SelectInSeq(templates, LAMBDA t : t.id = id)
Known(id) == Index(config.templates, id) # 0
Listed    == issued \cap TemplateIds

StartTemplate(u) ==
    /\ Tap("templates")
    /\ Ask(u, [kind |-> "createTitle"])
    /\ UNCHANGED <<settings, pc, my, issued, promised, overlap>>

EditTemplate(u) ==
    /\ Tap("templates")
    /\ \E id \in Listed, field \in {"title", "text"} :
          Known(id) /\ Ask(u, [kind |-> "edit", field |-> field, id |-> id])
    /\ UNCHANGED <<settings, pc, my, issued, promised, overlap>>

(* The title of a new template; its text is asked for next.                    *)
AnswerTitle(u) ==
    /\ Tap("templates") /\ dialog[u].kind = "createTitle"
    /\ \E x \in Texts : Ask(u, [kind |-> "createText", title |-> x])
    /\ UNCHANGED <<settings, pc, my, issued, promised, overlap>>

AnswerText(h, u) ==
    /\ Tap("templates") /\ pc[h] = "idle" /\ dialog[u].kind = "createText"
    /\ \E id \in TemplateIds \ issued, x \in Texts \cup {Blank} :
          /\ issued' = issued \cup {id}
          /\ Save(h, Job("create", u, id),
                  [config EXCEPT !.templates = Append(@, [id |-> id, title |-> dialog[u].title, text |-> x])])
    /\ UNCHANGED <<dialog, promised>>

(* A new title (never blank) or text, for a template that is looked up twice.  *)
AnswerEdit(h, u) ==
    /\ Tap("templates") /\ dialog[u].kind = "edit"
    /\ \/ /\ Known(dialog[u].id)
          /\ \E x \in Texts \cup {Blank} :
                /\ dialog[u].field = "title" => x # Blank
                /\ Begin(h, Job("edit", u, [field |-> dialog[u].field, id |-> dialog[u].id, text |-> x]), "change")
          /\ UNCHANGED dialog
       \/ /\ ~Known(dialog[u].id)
          /\ Ask(u, NoDialog)
          /\ UNCHANGED <<pc, my>>
    /\ UNCHANGED <<settings, issued, promised, overlap>>

ConfirmDelete(h, u) ==
    /\ Tap("templates")
    /\ \E id \in Listed : Known(id) /\ Begin(h, Job("drop", u, [id |-> id]), "change")
    /\ UNCHANGED <<settings, dialog, issued, promised, overlap>>

(* The change itself; the handler fails when the template is gone by now.      *)
ChangeTemplate(h) ==
    LET i == Index(config.templates, my[h].on.id)
    IN  /\ pc[h] = "change" /\ my[h].job \in {"edit", "drop"}
        /\ \/ /\ i = 0 /\ Ends(h)
              /\ UNCHANGED <<settings, promised, overlap>>
           \/ /\ i # 0 /\ my[h].job = "edit"
              /\ Save(h, my[h], [config EXCEPT !.templates[i] =
                         IF my[h].on.field = "title" THEN [@ EXCEPT !.title = my[h].on.text]
                                                     ELSE [@ EXCEPT !.text = my[h].on.text]])
              /\ UNCHANGED promised
           \/ /\ i # 0 /\ my[h].job = "drop"
              /\ Save(h, my[h], [config EXCEPT !.templates = RemoveAt(@, i)])
              /\ promised' = promised \ {my[h].on.id}
        /\ UNCHANGED <<dialog, left, issued>>

-----------------------------------------------------------------------------
(* The statuses: the current one, the answer to !status and the automatic one. *)

SetStatus(h, u) ==
    /\ Tap("status") /\ pc[h] = "idle"
    /\ \E s \in Statuses :
          \/ Save(h, Job("status", u, s), [config EXCEPT !.status = s])
          \/ Save(h, Job("status", u, s), [config EXCEPT !.auto[s].enabled = ~@])
    /\ UNCHANGED <<dialog, issued, promised>>

EditStatus(u) ==
    /\ Tap("status")
    /\ \E s \in Statuses, field \in {"response", "auto"} :
          Ask(u, [kind |-> "status", field |-> field, id |-> s])
    /\ UNCHANGED <<settings, pc, my, issued, promised, overlap>>

AnswerStatus(h, u) ==
    LET d == dialog[u]
    IN  /\ Tap("status") /\ pc[h] = "idle" /\ d.kind = "status"
        /\ Ask(u, NoDialog)
        /\ \E x \in Texts \cup {Blank} :
              Save(h, Job("status", u, d.id),
                   IF d.field = "auto" THEN [config EXCEPT !.auto[d.id].text = x]
                                       ELSE [config EXCEPT !.responses[d.id] = x])
        /\ UNCHANGED <<issued, promised>>

(* The save is over.  Creating and editing end the dialog only now, whichever   *)
(* it is by then.                                                             *)
TemplateSaved(h) ==
    /\ my[h].job \in {"create", "edit", "drop", "status"} /\ Written(h)
    /\ promised' = IF my[h].job = "create" THEN promised \cup {my[h].on} ELSE promised
    /\ IF my[h].job \in {"create", "edit"} THEN Ask(my[h].user, NoDialog) ELSE UNCHANGED dialog
    /\ Ends(h)
    /\ UNCHANGED <<left, issued, overlap>>

SettingsStep ==
    \/ \E u \in Users : StartTemplate(u) \/ EditTemplate(u) \/ AnswerTitle(u) \/ EditStatus(u)
    \/ \E h \in Handlers, u \in Users : \/ AnswerText(h, u) \/ AnswerEdit(h, u) \/ ConfirmDelete(h, u)
                                        \/ SetStatus(h, u) \/ AnswerStatus(h, u)
    \/ \E h \in Handlers : ChangeTemplate(h) \/ TemplateSaved(h) \/ RollBack(h)
=============================================================================
