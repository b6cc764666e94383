------------------------------ MODULE Updater ------------------------------
(* The updater beside the settings it shares with the Telegram panel.         *)
(*                                                                            *)
(* A polling thread asks GitHub for the newest release and installs it or     *)
(* asks the administrators about it.  The panel's handlers, each on a thread  *)
(* of its own, change the settings, check by hand, install and skip.          *)
(* (core/application/updater.py and plugin.py, core/runtime/settings.py,      *)
(*  core/telegram/settings.py)                                                *)
(*                                                                            *)
(* The settings are one dictionary; its "updater" section is an object of its *)
(* own, that a check keeps while it works.  A failed save puts a copy of the  *)
(* whole dictionary back, and with it another object.                         *)
EXTENDS Releases, FiniteSets

CONSTANTS
    Pollers,      \* polling threads, one for each start
    Handlers,     \* threads that run the handlers of Telegram
    Nobody,       \* no thread
    First,        \* the version of the code at the beginning
    Catalog,      \* the releases that may be published
    MaxTaps,      \* bound: buttons tapped
    MaxEvents,    \* bound: buttons tapped, releases published and withdrawn, together
    MaxFailures,  \* bound: saves that fail
    MaxRestarts   \* bound: restarts of the program

ASSUME UpdaterAssumption ==
    /\ First \in Versions /\ Catalog \subseteq Release
    /\ Nobody \notin Pollers \cup Handlers
    /\ Pollers # {} /\ Pollers \cap Handlers = {}
    /\ {MaxTaps, MaxEvents, MaxFailures, MaxRestarts} \subseteq Nat

VARIABLES
    heap,       \* the objects the "updater" section has been so far
    section,    \* the one the settings hold now
    file,       \* what the settings file holds
    plugin,     \* the version of the plugin file on disk
    running,    \* the version of the code that runs
    listing,    \* the releases GitHub lists, the newest first
    offered,    \* versions with an "install" and a "skip" button in the chats
    lock,       \* the thread that holds _check_lock
    thread,     \* _thread: the polling thread started last
    stop,       \* the stop event of each polling thread
    pc,         \* where each thread is
    my,         \* the local variables of each thread
    taps, failures, restarts,  \* counted against the bounds
    losses,     \* history: what a release may be asked about again for
    asked,      \* history: automatic questions about each version
    wish,       \* history: the version skipped last, until another choice is made
    late,       \* history: automatic installs after the mode was set to another than "enabled"
    dirty,      \* history: a failed save left its change in memory
    overlap     \* history: what has been done by two threads at once

store   == <<heap, section, file>>
world   == <<plugin, running, listing, offered>>
threads == <<lock, thread, stop>>
counts  == <<taps, failures, restarts>>
history == <<losses, asked, wish, late, dirty, overlap>>
vars    == <<store, world, threads, pc, my, counts, history>>

Modes   == {"enabled", "disabled", "ask"}
Version == Versions \cup {NoVersion}
Config  == [mode: Modes, skipped: Version, installed: Version, notified: Version]
Threads == Pollers \cup Handlers

config  == heap[section]

(* What a thread knows: why it runs, the mode it read, the release it works    *)
(* on, the section it kept, what it is writing, and what it would put back.    *)
Empty == [mode |-> "disabled", skipped |-> NoVersion, installed |-> NoVersion,
          notified |-> NoVersion]
Rest  == [job |-> "none", mode |-> "disabled", release |-> NoVersion, kept |-> 0,
          dump |-> Empty, previous |-> Empty]
Polling == [Rest EXCEPT !.job = "poll"]

Jobs  == {"none", "poll", "check", "install", "skip", "mode", "interval", "other"}
Changes == {"mode", "interval", "other"}
Saves == {"checked", "installed", "notified", "saving"}
Steps == Saves \cup {"unborn", "loop", "begin", "fetch", "download", "ended",
                     "idle", "refresh", "stop", "start"}

TypeOK ==
    /\ section \in DOMAIN heap
    /\ \A i \in DOMAIN heap : heap[i] \in Config
    /\ file \in Config
    /\ plugin \in Versions /\ running \in Versions /\ offered \subseteq Versions
    /\ \A i \in DOMAIN listing : listing[i] \in Release
    /\ lock \in Threads \cup {Nobody}
    /\ thread \in Pollers \cup {Nobody}
    /\ stop \in [Pollers -> BOOLEAN]
    /\ pc \in [Threads -> Steps]
    /\ \A a \in Threads : /\ my[a].job \in Jobs
                          /\ pc[a] \in Saves => my[a].dump \in Config
                          /\ my[a].kept \in {0} \cup DOMAIN heap
                          /\ my[a].release \in Version

(* The threads of a fresh process: a poller if the mode asks for one.          *)
FirstPoller == CHOOSE p \in Pollers : TRUE
BootThread(c) == IF c.mode = "disabled" THEN Nobody ELSE FirstPoller
BootPC(c) == [a \in Threads |-> IF a = BootThread(c) THEN "loop"
                                ELSE IF a \in Handlers THEN "idle" ELSE "unborn"]
BootMy(c) == [a \in Threads |-> IF a = BootThread(c) THEN Polling ELSE Rest]

Init ==
    /\ \E m \in Modes : heap = <<[Empty EXCEPT !.mode = m]>>
    /\ section = 1 /\ file = config
    /\ plugin = First /\ running = First /\ listing = <<>> /\ offered = {}
    /\ lock = Nobody /\ stop = [p \in Pollers |-> FALSE]
    /\ thread = BootThread(config) /\ pc = BootPC(config) /\ my = BootMy(config)
    /\ taps = 0 /\ failures = 0 /\ restarts = 0
    /\ losses = 0 /\ asked = [v \in Versions |-> 0] /\ wish = NoVersion
    /\ late = 0 /\ dirty = FALSE /\ overlap = {}

-----------------------------------------------------------------------------
(* Saving.  save_settings dumps the whole dictionary to a temporary file and   *)
(* then puts it in the place of the settings file: two steps, and no lock.     *)

Goto(a, step)     == pc' = [pc EXCEPT ![a] = step]
Becomes(a, value) == my' = [my EXCEPT ![a] = value]

(* Thread a begins to save the settings as the dictionary is after this step,  *)
(* with `value` for its other locals.                                         *)
Dump(a, step, value) ==
    /\ UNCHANGED section
    /\ Goto(a, step)
    /\ Becomes(a, [value EXCEPT !.dump = config'])
    /\ overlap' = overlap \cup {o \in {"saves", "changes"} : \E b \in Threads \ {a} :
                                 \/ o = "saves" /\ pc[b] \in Saves
                                 \/ o = "changes" /\ value.job \in Changes /\ my[b].job \in Changes}

SetSection(id, c) == heap' = [heap EXCEPT ![id] = c]

(* Mutant: the note of a release that is asked about stays in memory. *)
WrittenButTheNote(a) ==
    /\ file' = IF pc[a] = "notified" THEN file ELSE my[a].dump
    /\ dirty' = FALSE /\ UNCHANGED failures

Written(a) == file' = my[a].dump /\ dirty' = FALSE /\ UNCHANGED failures

(* What administrators and GitHub have done so far. *)
Events == taps + Len(listing) + Cardinality({i \in DOMAIN listing : ~listing[i].public})

SaveFails == failures < MaxFailures /\ failures' = failures + 1

-----------------------------------------------------------------------------
(* A check, of a poller or of a handler (_check_once, install_latest).         *)

(* The check is over, with a result or an exception: the lock is given back.   *)
Ends(a) ==
    /\ lock' = Nobody
    /\ Goto(a, IF a \in Pollers THEN "loop" ELSE "idle")
    /\ Becomes(a, IF a \in Pollers THEN Polling ELSE Rest)

(* Mutant: a check does not wait for the one under way. *)
CheckBeginsAnyway(a) ==
    /\ pc[a] = "begin"
    /\ lock' = a
    /\ Goto(a, "fetch")
    /\ Becomes(a, [my[a] EXCEPT !.mode = config.mode])
    /\ UNCHANGED <<store, world, thread, stop, counts, history>>

CheckBegins(a) ==
    /\ pc[a] = "begin" /\ lock = Nobody
    /\ \/ /\ my[a].job = "poll" /\ config.mode = "disabled"
          /\ Ends(a)
       \/ /\ my[a].job # "poll" \/ config.mode # "disabled"
          /\ lock' = a
          /\ Goto(a, "fetch")
          /\ Becomes(a, [my[a] EXCEPT !.mode = config.mode])
    /\ UNCHANGED <<store, world, thread, stop, counts, history>>

FetchFails(a) ==
    /\ pc[a] = "fetch"
    /\ Ends(a)
    /\ UNCHANGED <<store, world, thread, stop, counts, history>>

(* The check writes last_checked_version, which nothing reads but a page.      *)
Fetched(a) ==
    LET v == LatestRelease(listing)
    IN  /\ pc[a] = "fetch" /\ v # NoVersion
        /\ UNCHANGED store
        /\ \/ /\ my[a].job = "install" /\ v # my[a].release
              /\ Ends(a) /\ UNCHANGED overlap
           \/ /\ my[a].job = "install" /\ v = my[a].release
              /\ Goto(a, "download") /\ UNCHANGED <<my, lock, overlap>>
           \/ /\ my[a].job # "install"
              /\ Dump(a, "checked", [my[a] EXCEPT !.release = v, !.kept = section])
              /\ UNCHANGED lock
        /\ UNCHANGED <<world, thread, stop, counts, losses, asked, wish, late, dirty>>

(* The release is judged by the section the check kept.                        *)
Checked(a) ==
    LET v == my[a].release
        c == heap[my[a].kept]
    IN  /\ pc[a] = "checked"
        /\ Written(a)
        /\ UNCHANGED section
        /\ \/ /\ ~ShouldOffer(running, c, v, my[a].job = "check")
              /\ Ends(a) /\ UNCHANGED <<heap, overlap>>
           \/ /\ ShouldOffer(running, c, v, my[a].job = "check")
              /\ my[a].mode = "enabled"
              /\ Goto(a, "download") /\ UNCHANGED <<heap, my, lock, overlap>>
           \/ /\ ShouldOffer(running, c, v, my[a].job = "check")
              /\ my[a].mode # "enabled"
              /\ SetSection(my[a].kept, [c EXCEPT !.notified = v])
              /\ Dump(a, "notified", my[a])
              /\ UNCHANGED lock
        /\ UNCHANGED <<world, thread, stop, taps, restarts, losses, asked, wish, late>>

(* An automatic installation though the mode is another by now.                *)
CountLate(a) == late' = IF my[a].job = "poll" /\ config.mode # "enabled" THEN late + 1 ELSE late

(* It fails before the plugin file is replaced, or after: the old file, of      *)
(* another name, cannot be removed.                                           *)
DownloadFails(a) ==
    /\ pc[a] = "download"
    /\ \/ UNCHANGED <<plugin, late>>
       \/ plugin' = my[a].release /\ CountLate(a)
    /\ Ends(a)
    /\ UNCHANGED <<store, running, listing, offered, thread, stop, counts,
                   losses, asked, wish, dirty, overlap>>

(* The plugin file is replaced, then installed_version is written.             *)
Download(a) ==
    LET v == my[a].release
    IN  /\ pc[a] = "download"
        /\ plugin' = v
        /\ SetSection(section, [config EXCEPT !.installed = v,
                                              !.skipped = IF @ = v THEN NoVersion ELSE @])
        /\ Dump(a, "installed", my[a])
        /\ CountLate(a)
        /\ wish' = IF wish = v THEN NoVersion ELSE wish
        /\ UNCHANGED <<file, running, listing, offered, threads, counts, losses, asked, dirty>>

(* The administrators are told: of an installation, or of a release to decide  *)
(* about, with buttons to install and to skip it.  A message that cannot be    *)
(* sent is not repeated: its buttons are buttons nobody taps.                 *)
Told(a) ==
    /\ pc[a] \in {"installed", "notified"}
    /\ Written(a)
    /\ offered' = IF pc[a] = "notified" THEN offered \cup {my[a].release} ELSE offered
    /\ asked' = IF pc[a] = "notified" /\ my[a].job = "poll"
                THEN [asked EXCEPT ![my[a].release] = @ + 1] ELSE asked
    /\ Ends(a)
    /\ UNCHANGED <<heap, section, plugin, running, listing, thread, stop, taps,
                   restarts, losses, wish, late, overlap>>

CheckSaveFails(a) ==
    /\ pc[a] \in {"checked", "installed", "notified"}
    /\ SaveFails
    /\ dirty' = TRUE
    /\ Ends(a)
    /\ UNCHANGED <<store, world, thread, stop, taps, restarts, losses, asked, wish, late, overlap>>

CheckStep(a) == \/ CheckBegins(a) \/ FetchFails(a) \/ Fetched(a) \/ Checked(a)
                \/ DownloadFails(a) \/ Download(a) \/ Told(a) \/ CheckSaveFails(a)

-----------------------------------------------------------------------------
(* The polling thread (_run): at "loop" it waits for the next check, and ends   *)
(* as soon as its event is set.                                               *)

PollerLoops(p) ==
    /\ pc[p] = "loop"
    /\ Goto(p, IF stop[p] THEN "ended" ELSE "begin")
    /\ UNCHANGED <<store, world, threads, my, counts, history>>

-----------------------------------------------------------------------------
(* The handlers of the panel.                                                 *)

Tap(h) == pc[h] = "idle" /\ taps < MaxTaps /\ Events < MaxEvents /\ taps' = taps + 1

(* check_manually and install_latest work like a poll, and wait for its lock.  *)
TapCheck(h) ==
    /\ Tap(h)
    /\ Goto(h, "begin")
    /\ Becomes(h, [Rest EXCEPT !.job = "check"])
    /\ UNCHANGED <<store, world, threads, failures, restarts, history>>

TapInstall(h) ==
    /\ Tap(h)
    /\ Goto(h, "begin")
    /\ \E v \in offered : Becomes(h, [Rest EXCEPT !.job = "install", !.release = v])
    /\ UNCHANGED <<store, world, threads, failures, restarts, history>>

TapSkip(h) ==
    /\ Tap(h)
    /\ \E v \in offered :
          /\ SetSection(section, [config EXCEPT !.skipped = v])
          /\ Dump(h, "saving", [Rest EXCEPT !.job = "skip", !.release = v])
    /\ wish' = NoVersion
    /\ UNCHANGED <<file, world, threads, failures, restarts, losses, asked, late, dirty>>

(* update_settings: copy, change, save.                                       *)
Change(h, job) ==
    /\ Tap(h)
    /\ Dump(h, "saving", [Rest EXCEPT !.job = job, !.previous = config])
    /\ UNCHANGED <<file, world, threads, failures, restarts, losses, asked, wish, dirty>>

SetMode(h) ==
    /\ \E m \in Modes : SetSection(section, [config EXCEPT !.mode = m])
    /\ late' = 0
    /\ Change(h, "mode")

SetInterval(h) ==
    /\ UNCHANGED <<heap, late>>
    /\ Change(h, "interval")

(* Anything else the panel saves: a status, a template, a token.              *)
ChangeOther(h) ==
    /\ UNCHANGED <<heap, late>>
    /\ Change(h, "other")

Refreshes(h) == my[h].job \in {"mode", "interval"}

HandlerSaved(h) ==
    /\ pc[h] = "saving"
    /\ Written(h)
    /\ wish' = IF my[h].job = "skip" THEN my[h].release ELSE wish
    /\ IF Refreshes(h)
       THEN Goto(h, "refresh") /\ UNCHANGED my
       ELSE Goto(h, "idle") /\ Becomes(h, Rest)
    /\ UNCHANGED <<heap, section, world, threads, taps, restarts,
                   losses, asked, late, overlap>>

(* Mutants: a change that cannot be saved stays in memory; the section that     *)
(* comes back is put where none is.                                           *)
KeepUnsaved(h) ==
    /\ pc[h] = "saving"
    /\ SaveFails
    /\ Goto(h, "idle")
    /\ Becomes(h, Rest)
    /\ UNCHANGED <<store, world, threads, taps, restarts, history>>

RestoreElsewhere(h) ==
    /\ pc[h] = "saving"
    /\ SaveFails
    /\ Goto(h, "idle")
    /\ Becomes(h, Rest)
    /\ section' = Len(heap) + 1
    /\ UNCHANGED <<heap, file, world, threads, taps, restarts, history>>

(* A skip that cannot be saved stays in memory; any other change is undone by  *)
(* putting the copy back, whatever has changed since it was made.  In the code *)
(* that is clear() and update(): a reader between them, which sees no settings  *)
(* (updater.py:164), is left out.                                             *)
HandlerSaveFails(h) ==
    /\ pc[h] = "saving"
    /\ SaveFails
    /\ Goto(h, "idle")
    /\ Becomes(h, Rest)
    /\ \/ /\ my[h].job = "skip"
          /\ dirty' = TRUE
          /\ UNCHANGED <<heap, section, losses, late>>
       \/ /\ my[h].job # "skip"
          /\ heap' = Append(heap, my[h].previous)
          /\ section' = Len(heap')
          /\ losses' = losses + 1 /\ late' = 0
          /\ UNCHANGED dirty
    /\ UNCHANGED <<file, world, threads, taps, restarts, asked, wish, overlap>>

(* refresh_updater: read the mode, stop (the join gives up after two seconds), *)
(* and start unless the mode was "disabled".                                  *)
Refresh(h) ==
    /\ pc[h] = "refresh"
    /\ Goto(h, "stop")
    /\ Becomes(h, [my[h] EXCEPT !.mode = config.mode])
    /\ UNCHANGED <<store, world, threads, counts, history>>

StopPoller(h) ==
    /\ pc[h] = "stop"
    /\ stop' = [p \in Pollers |-> stop[p] \/ p = thread]
    /\ IF my[h].mode = "disabled"
       THEN Goto(h, "idle") /\ Becomes(h, Rest)
       ELSE Goto(h, "start") /\ UNCHANGED my
    /\ UNCHANGED <<store, world, lock, thread, counts, history>>

Alive(p) == pc[p] \notin {"unborn", "ended"}
(* Mutant: a poller that was told to stop counts as running. *)
HasLivePoller == thread # Nobody /\ Alive(thread)

HasPoller == thread # Nobody /\ Alive(thread) /\ ~stop[thread]

StartPoller(h) ==
    /\ pc[h] = "start"
    /\ \/ /\ config.mode = "disabled" \/ HasPoller
          /\ Goto(h, "idle")
          /\ Becomes(h, Rest)
          /\ UNCHANGED <<thread, stop>>
       \/ /\ config.mode # "disabled" /\ ~HasPoller
          /\ \E p \in Pollers :
                /\ ~Alive(p)
                /\ thread' = p
                /\ stop' = [stop EXCEPT ![p] = FALSE]
                /\ pc' = [pc EXCEPT ![h] = "idle", ![p] = "loop"]
                /\ my' = [my EXCEPT ![h] = Rest, ![p] = Polling]
    /\ UNCHANGED <<store, world, lock, counts, history>>

HandlerStep(h) == HandlerSaved(h) \/ HandlerSaveFails(h) \/ Refresh(h) \/ StopPoller(h) \/ StartPoller(h)

HandlerTap(h) == \/ TapCheck(h) \/ TapInstall(h) \/ TapSkip(h)
                 \/ SetMode(h) \/ SetInterval(h) \/ ChangeOther(h)

-----------------------------------------------------------------------------
(* GitHub, and the process.                                                   *)

Publish ==
    /\ Events < MaxEvents
    /\ \E r \in Catalog : /\ \A i \in DOMAIN listing : listing[i].version # r.version
                          /\ listing' = <<r>> \o listing
    /\ UNCHANGED <<store, plugin, running, offered, threads, pc, my, counts, history>>

(* A release is deleted, or made a draft or a prerelease: the one before it    *)
(* may be the latest again, and notified_version holds one version only.      *)
Withdraw ==
    /\ Events < MaxEvents
    /\ \E i \in DOMAIN listing : /\ listing[i].public
                                 /\ listing' = [listing EXCEPT ![i].public = FALSE]
    /\ losses' = losses + 1
    /\ UNCHANGED <<store, plugin, running, offered, threads, pc, my, counts,
                   asked, wish, late, dirty, overlap>>

(* Of two dumps that were made at once the older one reached the file last,    *)
(* and the note of a release that was asked about is not in it.               *)
NoteIsLost ==
    /\ "saves" \in overlap
    /\ file.notified # config.notified
    /\ config.notified \in Versions /\ asked[config.notified] > 0

Restart ==
    /\ restarts < MaxRestarts
    /\ restarts' = restarts + 1
    /\ losses' = IF NoteIsLost THEN losses + 1 ELSE losses
    /\ heap' = <<file>> /\ section' = 1
    /\ running' = plugin
    /\ lock' = Nobody /\ stop' = [p \in Pollers |-> FALSE]
    /\ thread' = BootThread(file)
    /\ pc' = BootPC(file)
    /\ my' = BootMy(file)
    /\ dirty' = FALSE /\ late' = 0
    /\ UNCHANGED <<file, plugin, listing, offered, taps, failures, asked, wish, overlap>>

Next == \/ \E a \in Threads : CheckStep(a)
        \/ \E p \in Pollers : PollerLoops(p)
        \/ \E h \in Handlers : HandlerTap(h) \/ HandlerStep(h)
        \/ Publish \/ Withdraw \/ Restart

Spec == Init /\ [][Next]_vars

-----------------------------------------------------------------------------
(* Properties.                                                                *)

(* However many pollers are alive (an old one may still be in a request when   *)
(* its successor starts) and however often the program starts, a release is    *)
(* put to the administrators once.  It may be once more for each copy of the   *)
(* settings a failed save put back, each start on a file that lost the note to *)
(* an older dump written later, and each release withdrawn.                   *)
AskedOnce == \A v \in Versions : asked[v] <= 1 + losses

(* Once the mode is set to another than "enabled", no more than the one check  *)
(* that had read it before installs something on its own.                     *)
OneLateInstall == late <= 1

(* When no handler is changing settings, one poller will go on if the mode asks *)
(* for one and none otherwise, unless two handlers were changing them at once. *)
PollersAsTheModeSays ==
    (\A h \in Handlers : my[h].job \notin Changes) /\ "changes" \notin overlap
        => Cardinality({p \in Pollers : Alive(p) /\ ~stop[p]})
             = IF config.mode = "disabled" THEN 0 ELSE 1

(* When nobody is saving, the file holds the settings in memory, unless two    *)
(* saves were under way at once or the last one of a check failed.            *)
FileIsCurrent ==
    (\A a \in Threads : pc[a] \notin Saves) /\ "saves" \notin overlap /\ ~dirty
        => file = config

(* A check neither asks about the version that was skipped last nor installs   *)
(* it on its own, across failed saves and restarts, unless two saves were under *)
(* way at once.                                                               *)
SkippedIsLeftAlone ==
    [][\A a \in Threads :
          pc[a] = "checked" /\ pc'[a] \in {"notified", "download"} /\ my[a].release = wish
              => "saves" \in overlap]_vars
=============================================================================
