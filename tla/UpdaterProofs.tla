--------------------------- MODULE UpdaterProofs ---------------------------
(***************************************************************************)
(* Proofs about the updater, for any versions, threads and bounds.          *)
(***************************************************************************)
EXTENDS Updater, SequenceLemmas

(* The local variables of a thread. *)
Locals == [job : Jobs, mode : Modes, release : Version, kept : Nat, dump : Config, previous : Config]

(* The steps of a check that holds the lock. *)
Working == {"fetch", "checked", "download", "installed", "notified"}

StoreOK == heap \in Seq(Config) /\ section \in 1..Len(heap) /\ file \in Config

WorldOK == /\ plugin \in Versions /\ running \in Versions /\ offered \subseteq Versions
           /\ listing \in Seq(Release)

ThreadsOK == /\ lock \in Threads \cup {Nobody} /\ thread \in Pollers \cup {Nobody}
             /\ stop \in [Pollers -> BOOLEAN]

(* What a thread knows, v, suits its step, when there are n sections. *)
Suits(step, v, n) ==
  /\ step \in Steps /\ v \in Locals /\ v.kept \in 0..n
  /\ step = "checked" => v.kept # 0
  /\ step \in Working \ {"fetch"} \/ v.job \in {"install", "skip"} => v.release \in Versions

LocalsOK ==
  /\ pc \in [Threads -> Steps] /\ my \in [Threads -> Locals]
  /\ \A a \in Threads : Suits(pc[a], my[a], Len(heap))

CountsOK == /\ losses \in Nat /\ restarts \in Nat /\ late \in Nat /\ wish \in Version

Typed == StoreOK /\ WorldOK /\ ThreadsOK /\ LocalsOK /\ CountsOK

(* The least of some indices. *)
LEMMA Least ==
  ASSUME NEW I \in SUBSET Nat, I # {}
  PROVE  Min(I) \in I
BY LeastNatural DEF Min

(* What GitHub's list says is a version, or nothing. *)
LEMMA LatestType ==
  ASSUME NEW s \in Seq(Release)
  PROVE  LatestRelease(s) \in Version
<1> DEFINE I == {i \in 1..Len(s) : s[i].public}
<1>1. FirstPublic(s) = IF I # {} THEN Min(I) ELSE 0
  BY DEF FirstPublic, SelectInSeq
<1>2. I # {} => Min(I) \in I
  <2>1. I \in SUBSET Nat
    OBVIOUS
  <2> QED
    BY <2>1, Least
<1> HIDE DEF I
<1>3. FirstPublic(s) # 0 => FirstPublic(s) \in 1..Len(s)
  BY <1>1, <1>2 DEF I
<1>4. FirstPublic(s) # 0 => s[FirstPublic(s)].version \in Versions
  <2>1. \A i \in 1..Len(s) : s[i] \in Release
    OBVIOUS
  <2> QED
    BY <1>3, <2>1 DEF Release
<1> QED
  BY <1>4 DEF LatestRelease, Version

(* An idle thread, and a poller between two checks. *)
LEMMA RestType ==
  /\ Empty \in Config /\ Rest \in Locals /\ Polling \in Locals
  /\ \A n \in Nat, step \in {"idle", "begin", "unborn", "ended"} : Suits(step, Rest, n)
  /\ \A n \in Nat, step \in {"loop", "begin", "ended"} : Suits(step, Polling, n)
<1>1. Empty \in Config
  BY DEF Empty, Config, Modes, Version
<1>2. Rest \in Locals /\ Polling \in Locals
  BY <1>1 DEF Rest, Polling, Locals, Jobs, Modes, Version
<1> QED
  BY <1>1, <1>2 DEF Rest, Polling, Suits, Steps, Saves, Working

(* A thread that goes on with what suits its next step. *)
LEMMA GoType ==
  ASSUME LocalsOK, StoreOK, StoreOK', Len(heap') >= Len(heap),
         NEW a \in Threads, NEW step, NEW v, Suits(step, v, Len(heap')), Goto(a, step), Becomes(a, v)
  PROVE  LocalsOK'
<1>1. pc' \in [Threads -> Steps] /\ my' \in [Threads -> Locals]
  BY DEF LocalsOK, Suits, Goto, Becomes
<1>2. Len(heap) \in Nat /\ Len(heap') \in Nat
  BY DEF StoreOK
<1>3. ASSUME NEW b \in Threads
      PROVE  Suits(pc'[b], my'[b], Len(heap'))
  <2>1. CASE b = a
    BY <2>1 DEF LocalsOK, Goto, Becomes
  <2>2. CASE b # a
    BY <1>2, <2>2 DEF LocalsOK, Goto, Becomes, Suits
  <2> QED
    BY <2>1, <2>2
<1> QED
  BY <1>1, <1>3 DEF LocalsOK

(* The same, when it knows no more than before. *)
LEMMA GotoType ==
  ASSUME LocalsOK, StoreOK, StoreOK', Len(heap') >= Len(heap),
         NEW a \in Threads, NEW step, Suits(step, my[a], Len(heap')), Goto(a, step), UNCHANGED my
  PROVE  LocalsOK'
<1>1. Becomes(a, my[a])
  BY DEF LocalsOK, Becomes
<1> QED
  BY <1>1, GoType

(* A thread that begins to save. *)
LEMMA DumpType ==
  ASSUME LocalsOK, StoreOK, StoreOK', Len(heap') >= Len(heap),
         NEW a \in Threads, NEW step, NEW v, Suits(step, v, Len(heap')), Dump(a, step, v)
  PROVE  LocalsOK'
<1>1. config' \in Config
  BY DEF StoreOK, config
<1>2. [v EXCEPT !.dump = config'] \in Locals
  BY <1>1 DEF Suits, Locals
<1>3. Suits(step, [v EXCEPT !.dump = config'], Len(heap'))
  BY <1>2 DEF Suits, Locals
<1> QED
  BY <1>3, GoType DEF Dump

(* A check that is over. *)
LEMMA EndsType ==
  ASSUME LocalsOK, StoreOK, StoreOK', Len(heap') >= Len(heap), ThreadsOK,
         NEW a \in Threads, Ends(a), UNCHANGED <<thread, stop>>
  PROVE  LocalsOK' /\ ThreadsOK'
<1>1. Len(heap') \in Nat
  BY DEF StoreOK
<1>2. LocalsOK'
  <2>1. CASE a \in Pollers
    BY <1>1, <2>1, RestType, GoType DEF Ends
  <2>2. CASE a \notin Pollers
    BY <1>1, <2>2, RestType, GoType DEF Ends
  <2> QED
    BY <2>1, <2>2
<1> QED
  BY <1>2 DEF Ends, ThreadsOK

(* A fresh process. *)
LEMMA BootType ==
  ASSUME NEW c \in Config, NEW n \in Nat
  PROVE  /\ BootThread(c) \in Pollers \cup {Nobody}
         /\ BootPC(c) \in [Threads -> Steps] /\ BootMy(c) \in [Threads -> Locals]
         /\ \A a \in Threads : Suits(BootPC(c)[a], BootMy(c)[a], n)
<1>1. FirstPoller \in Pollers
  BY UpdaterAssumption DEF FirstPoller
<1>2. BootThread(c) \in Pollers \cup {Nobody}
  BY <1>1 DEF BootThread
<1>3. BootThread(c) \notin Handlers
  BY <1>2, UpdaterAssumption
<1>4. \A a \in Threads : Suits(BootPC(c)[a], BootMy(c)[a], n)
  <2> SUFFICES ASSUME NEW a \in Threads
               PROVE  Suits(BootPC(c)[a], BootMy(c)[a], n)
    OBVIOUS
  <2> QED
    BY RestType, <1>3 DEF BootPC, BootMy
<1>5. BootPC(c) \in [Threads -> Steps] /\ BootMy(c) \in [Threads -> Locals]
  BY <1>4 DEF Suits, BootPC, BootMy
<1> QED
  BY <1>2, <1>4, <1>5

(* The types hold at the start. *)
LEMMA InitType == Init => Typed
<1> SUFFICES ASSUME Init
             PROVE  Typed
  OBVIOUS
<1> USE DEF Init
<1>1. StoreOK
  <2>1. PICK m \in Modes : heap = <<[Empty EXCEPT !.mode = m]>>
    OBVIOUS
  <2>2. [Empty EXCEPT !.mode = m] \in Config
    BY RestType DEF Config
  <2> QED
    BY <2>1, <2>2 DEF StoreOK, config
<1>2. WorldOK
  BY UpdaterAssumption DEF WorldOK
<1>3. config \in Config /\ Len(heap) \in Nat
  BY <1>1 DEF StoreOK, config
<1>4. ThreadsOK
  BY <1>3, BootType DEF ThreadsOK
<1>5. LocalsOK
  BY <1>3, BootType DEF LocalsOK
<1>6. CountsOK
  BY DEF CountsOK, Version
<1> QED
  BY <1>1, <1>2, <1>4, <1>5, <1>6 DEF Typed

(* Sections change and grow in number, and none goes. *)
LEMMA SectionType ==
  ASSUME StoreOK, NEW id \in 1..Len(heap), NEW c \in Config, SetSection(id, c), UNCHANGED <<section, file>>
  PROVE  StoreOK' /\ Len(heap') = Len(heap)
BY DEF StoreOK, SetSection

(* The steps of a check. *)
LEMMA CheckType ==
  ASSUME Typed, NEW a \in Threads, CheckStep(a)
  PROVE  Typed'
<1> USE DEF Typed
<1>0. Suits(pc[a], my[a], Len(heap)) /\ config \in Config /\ Len(heap) \in Nat
  BY DEF LocalsOK, StoreOK, config
<1>1. CASE CheckBegins(a)
  <2>1. StoreOK' /\ Len(heap') = Len(heap) /\ WorldOK' /\ CountsOK'
    BY <1>1 DEF CheckBegins, store, world, counts, history, StoreOK, WorldOK, CountsOK
  <2>2. CASE Ends(a)
    BY <1>1, <2>1, <2>2, EndsType, <1>0 DEF CheckBegins
  <2>3. CASE lock' = a /\ Goto(a, "fetch") /\ Becomes(a, [my[a] EXCEPT !.mode = config.mode])
    <3>1. Suits("fetch", [my[a] EXCEPT !.mode = config.mode], Len(heap))
      BY <1>0 DEF Suits, Locals, Config, Working, Steps
    <3>2. LocalsOK'
      BY <2>1, <2>3, <3>1, GoType
    <3> QED
      BY <1>1, <2>1, <2>3, <3>2 DEF CheckBegins, ThreadsOK
  <2> QED
    BY <1>1, <2>2, <2>3 DEF CheckBegins
<1>2. CASE FetchFails(a)
  <2>1. StoreOK' /\ Len(heap') = Len(heap) /\ WorldOK' /\ CountsOK'
    BY <1>2 DEF FetchFails, store, world, counts, history, StoreOK, WorldOK, CountsOK
  <2> QED
    BY <1>0, <1>2, <2>1, EndsType DEF FetchFails
<1>3. CASE Fetched(a)
  <2> DEFINE v == LatestRelease(listing)
  <2>1. StoreOK' /\ Len(heap') = Len(heap) /\ WorldOK' /\ CountsOK'
    BY <1>3 DEF Fetched, store, world, counts, history, StoreOK, WorldOK, CountsOK
  <2>2. v \in Versions
    BY <1>3, LatestType DEF Fetched, WorldOK, Version
  <2>3. CASE Ends(a)
    BY <1>0, <1>3, <2>1, <2>3, EndsType DEF Fetched
  <2>4. CASE my[a].job = "install" /\ v = my[a].release /\ Goto(a, "download") /\ UNCHANGED <<my, lock>>
    <3>1. Suits("download", my[a], Len(heap))
      BY <1>0, <2>4, <2>2 DEF Suits, Working, Steps
    <3> QED
      BY <1>3, <2>1, <2>4, <3>1, GotoType DEF Fetched, ThreadsOK
  <2>5. CASE Dump(a, "checked", [my[a] EXCEPT !.release = v, !.kept = section]) /\ UNCHANGED lock
    <3>1. section \in 0..Len(heap) /\ section \in Nat /\ section # 0
      BY <1>0 DEF StoreOK
    <3>2. [my[a] EXCEPT !.release = v, !.kept = section] \in Locals
      BY <1>0, <2>2, <3>1 DEF Suits, Locals, Version
    <3>3. Suits("checked", [my[a] EXCEPT !.release = v, !.kept = section], Len(heap))
      BY <2>2, <3>1, <3>2 DEF Suits, Steps, Saves, Locals
    <3> QED
      BY <1>3, <2>1, <2>5, <3>3, DumpType DEF Fetched, ThreadsOK
  <2> QED
    BY <1>3, <2>3, <2>4, <2>5 DEF Fetched
<1>4. CASE Checked(a)
  <2> DEFINE v == my[a].release
             c == heap[my[a].kept]
  <2>1. my[a].kept \in 1..Len(heap) /\ c \in Config /\ v \in Versions /\ my[a].dump \in Config
    BY <1>0, <1>4 DEF Checked, Suits, StoreOK, Working, Locals
  <2>2. WorldOK' /\ CountsOK' /\ file' \in Config
    BY <1>4, <2>1 DEF Checked, Written, world, WorldOK, CountsOK
  <2>3. CASE Ends(a) /\ UNCHANGED heap
    <3>1. StoreOK'
      BY <1>4, <2>2, <2>3 DEF Checked, StoreOK
    <3> QED
      BY <1>0, <1>4, <2>2, <2>3, <3>1, EndsType DEF Checked
  <2>4. CASE Goto(a, "download") /\ UNCHANGED <<heap, my, lock>>
    <3>1. StoreOK'
      BY <1>4, <2>2, <2>4 DEF Checked, StoreOK
    <3>2. Suits("download", my[a], Len(heap))
      BY <1>0, <2>1 DEF Suits, Working, Steps
    <3> QED
      BY <1>0, <1>4, <2>2, <2>4, <3>1, <3>2, GotoType DEF Checked, ThreadsOK
  <2>5. CASE SetSection(my[a].kept, [c EXCEPT !.notified = v]) /\ Dump(a, "notified", my[a]) /\ UNCHANGED lock
    <3>1. [c EXCEPT !.notified = v] \in Config
      BY <2>1 DEF Config, Version
    <3>2. StoreOK' /\ Len(heap') = Len(heap)
      BY <1>4, <2>1, <2>2, <2>5, <3>1 DEF Checked, SetSection, StoreOK
    <3>3. Suits("notified", my[a], Len(heap))
      BY <1>0, <2>1 DEF Suits, Working, Steps, Saves
    <3> QED
      BY <1>0, <1>4, <2>2, <2>5, <3>2, <3>3, DumpType DEF Checked, ThreadsOK
  <2> QED
    BY <1>4, <2>3, <2>4, <2>5 DEF Checked
<1>5. CASE DownloadFails(a)
  <2>1. StoreOK' /\ Len(heap') = Len(heap)
    BY <1>5 DEF DownloadFails, store, StoreOK
  <2>2. my[a].release \in Versions
    BY <1>0, <1>5 DEF DownloadFails, Suits, Working
  <2>3. WorldOK' /\ CountsOK'
    BY <1>5, <2>2 DEF DownloadFails, CountLate, counts, WorldOK, CountsOK
  <2> QED
    BY <1>0, <1>5, <2>1, <2>3, EndsType DEF DownloadFails
<1>6. CASE Download(a)
  <2> DEFINE v == my[a].release
             c == [config EXCEPT !.installed = v, !.skipped = IF @ = v THEN NoVersion ELSE @]
  <2>1. v \in Versions
    BY <1>0, <1>6 DEF Download, Suits, Working
  <2>2. c \in Config
    BY <1>0, <2>1 DEF Config, Version
  <2>3. StoreOK' /\ Len(heap') = Len(heap)
    BY <1>6, <2>2 DEF Download, Dump, SetSection, StoreOK
  <2>4. WorldOK' /\ CountsOK' /\ ThreadsOK'
    BY <1>6, <2>1 DEF Download, CountLate, counts, threads, WorldOK, CountsOK, ThreadsOK, Version
  <2>5. Suits("installed", my[a], Len(heap))
    BY <1>0, <2>1 DEF Suits, Working, Steps, Saves
  <2>6. LocalsOK'
    BY <1>0, <1>6, <2>3, <2>5, DumpType DEF Download
  <2> QED
    BY <2>3, <2>4, <2>6
<1>7. CASE Told(a)
  <2>1. my[a].release \in Versions /\ my[a].dump \in Config
    BY <1>0, <1>7 DEF Told, Suits, Working, Locals
  <2>2. StoreOK' /\ Len(heap') = Len(heap) /\ WorldOK' /\ CountsOK'
    BY <1>7, <2>1 DEF Told, Written, StoreOK, WorldOK, CountsOK
  <2> QED
    BY <1>0, <1>7, <2>2, EndsType DEF Told
<1>8. CASE CheckSaveFails(a)
  <2>1. StoreOK' /\ Len(heap') = Len(heap) /\ WorldOK' /\ CountsOK'
    BY <1>8 DEF CheckSaveFails, store, world, StoreOK, WorldOK, CountsOK
  <2> QED
    BY <1>0, <1>8, <2>1, EndsType DEF CheckSaveFails
<1> QED
  BY <1>1, <1>2, <1>3, <1>4, <1>5, <1>6, <1>7, <1>8 DEF CheckStep

(* The steps of a handler's own. *)
LEMMA HandlerType ==
  ASSUME Typed, NEW h \in Handlers, HandlerStep(h)
  PROVE  Typed'
<1> USE DEF Typed
<1>0. h \in Threads /\ Suits(pc[h], my[h], Len(heap)) /\ config \in Config /\ Len(heap) \in Nat
  BY DEF Threads, LocalsOK, StoreOK, config
<1>1. CASE HandlerSaved(h)
  <2>1. my[h].dump \in Config /\ my[h].release \in Version
    BY <1>0 DEF Suits, Locals
  <2>2. StoreOK' /\ Len(heap') = Len(heap) /\ WorldOK' /\ CountsOK' /\ ThreadsOK'
    BY <1>1, <2>1 DEF HandlerSaved, Written, world, threads, StoreOK, WorldOK, CountsOK, ThreadsOK
  <2>3. CASE Goto(h, "refresh") /\ UNCHANGED my
    <3>1. Suits("refresh", my[h], Len(heap))
      BY <1>0, <1>1 DEF HandlerSaved, Suits, Working, Steps
    <3> QED
      BY <1>0, <2>2, <2>3, <3>1, GotoType
  <2>4. CASE Goto(h, "idle") /\ Becomes(h, Rest)
    BY <1>0, <2>2, <2>4, RestType, GoType
  <2> QED
    BY <1>1, <2>3, <2>4 DEF HandlerSaved
<1>2. CASE HandlerSaveFails(h)
  <2>1. my[h].previous \in Config
    BY <1>0 DEF Suits, Locals
  <2>2. StoreOK' /\ Len(heap') >= Len(heap)
    BY <1>2, <2>1 DEF HandlerSaveFails, StoreOK
  <2>3. WorldOK' /\ CountsOK' /\ ThreadsOK'
    BY <1>2 DEF HandlerSaveFails, world, threads, WorldOK, CountsOK, ThreadsOK
  <2>4. LocalsOK'
    <3>1. Len(heap') \in Nat
      BY <2>2 DEF StoreOK
    <3> QED
      BY <1>0, <1>2, <2>2, <3>1, RestType, GoType DEF HandlerSaveFails
  <2> QED
    BY <2>2, <2>3, <2>4
<1>3. CASE Refresh(h)
  <2>1. StoreOK' /\ Len(heap') = Len(heap) /\ WorldOK' /\ CountsOK' /\ ThreadsOK'
    BY <1>3 DEF Refresh, store, world, threads, counts, history, StoreOK, WorldOK, CountsOK, ThreadsOK
  <2>2. Suits("stop", [my[h] EXCEPT !.mode = config.mode], Len(heap))
    BY <1>0, <1>3 DEF Refresh, Suits, Working, Steps, Locals, Config
  <2> QED
    BY <1>0, <1>3, <2>1, <2>2, GoType DEF Refresh
<1>4. CASE StopPoller(h)
  <2>1. StoreOK' /\ Len(heap') = Len(heap) /\ WorldOK' /\ CountsOK' /\ ThreadsOK'
    BY <1>4 DEF StopPoller, store, world, counts, history, StoreOK, WorldOK, CountsOK, ThreadsOK
  <2>2. CASE Goto(h, "idle") /\ Becomes(h, Rest)
    BY <1>0, <2>1, <2>2, RestType, GoType
  <2>3. CASE Goto(h, "start") /\ UNCHANGED my
    <3>1. Suits("start", my[h], Len(heap))
      BY <1>0, <1>4 DEF StopPoller, Suits, Working, Steps
    <3> QED
      BY <1>0, <2>1, <2>3, <3>1, GotoType
  <2> QED
    BY <1>4, <2>2, <2>3 DEF StopPoller
<1>5. CASE StartPoller(h)
  <2>1. StoreOK' /\ Len(heap') = Len(heap) /\ WorldOK' /\ CountsOK'
    BY <1>5 DEF StartPoller, store, world, counts, history, StoreOK, WorldOK, CountsOK
  <2>2. CASE Goto(h, "idle") /\ Becomes(h, Rest) /\ UNCHANGED <<thread, stop>>
    <3>1. LocalsOK'
      BY <1>0, <2>1, <2>2, RestType, GoType
    <3> QED
      BY <1>5, <2>1, <2>2, <3>1 DEF StartPoller, ThreadsOK
  <2>3. ASSUME NEW p \in Pollers,
               thread' = p, stop' = [stop EXCEPT ![p] = FALSE],
               pc' = [pc EXCEPT ![h] = "idle", ![p] = "loop"],
               my' = [my EXCEPT ![h] = Rest, ![p] = Polling]
        PROVE  LocalsOK' /\ ThreadsOK'
    <3>1. \A b \in Threads : Suits(pc'[b], my'[b], Len(heap'))
      BY <1>0, <2>1, <2>3, RestType DEF LocalsOK
    <3>2. pc' \in [Threads -> Steps] /\ my' \in [Threads -> Locals]
      BY <2>3, <3>1 DEF LocalsOK, Suits
    <3>3. ThreadsOK'
      BY <1>5, <2>3 DEF StartPoller, ThreadsOK
    <3> QED
      BY <3>1, <3>2, <3>3 DEF LocalsOK
  <2> QED
    BY <1>5, <2>1, <2>2, <2>3 DEF StartPoller
<1> QED
  BY <1>1, <1>2, <1>3, <1>4, <1>5 DEF HandlerStep

(* The buttons. *)
LEMMA TapType ==
  ASSUME Typed, NEW h \in Handlers, HandlerTap(h)
  PROVE  Typed'
<1> USE DEF Typed
<1>0. h \in Threads /\ config \in Config /\ section \in 1..Len(heap) /\ Len(heap) \in Nat
  BY DEF Threads, LocalsOK, StoreOK, config
<1>1. /\ Suits("begin", [Rest EXCEPT !.job = "check"], Len(heap))
      /\ \A v \in Versions : /\ Suits("begin", [Rest EXCEPT !.job = "install", !.release = v], Len(heap))
                             /\ Suits("saving", [Rest EXCEPT !.job = "skip", !.release = v], Len(heap))
  BY <1>0, RestType DEF Rest, Suits, Locals, Jobs, Steps, Saves, Working, Version
<1>2. \A job \in Changes : Suits("saving", [Rest EXCEPT !.job = job, !.previous = config], Len(heap))
  BY <1>0, RestType DEF Rest, Suits, Locals, Jobs, Steps, Saves, Working, Version, Changes
<1>3. CASE TapCheck(h)
  <2>1. StoreOK' /\ Len(heap') = Len(heap) /\ WorldOK' /\ CountsOK' /\ ThreadsOK'
    BY <1>3 DEF TapCheck, store, world, threads, history, StoreOK, WorldOK, CountsOK, ThreadsOK
  <2> DEFINE v == [Rest EXCEPT !.job = "check"]
  <2>2. Suits("begin", v, Len(heap')) /\ Goto(h, "begin") /\ Becomes(h, v)
    BY <1>1, <1>3, <2>1 DEF TapCheck
  <2>3. LocalsOK'
    <3> HIDE DEF v
    <3> QED
      BY <1>0, <2>1, <2>2, GoType
  <2> QED
    BY <2>1, <2>3
<1>4. CASE TapInstall(h)
  <2>1. StoreOK' /\ Len(heap') = Len(heap) /\ WorldOK' /\ CountsOK' /\ ThreadsOK'
    BY <1>4 DEF TapInstall, store, world, threads, history, StoreOK, WorldOK, CountsOK, ThreadsOK
  <2>2. PICK v \in offered : Becomes(h, [Rest EXCEPT !.job = "install", !.release = v])
    BY <1>4 DEF TapInstall
  <2> DEFINE w == [Rest EXCEPT !.job = "install", !.release = v]
  <2>3. v \in Versions
    BY DEF WorldOK
  <2>4. Suits("begin", w, Len(heap')) /\ Goto(h, "begin") /\ Becomes(h, w)
    BY <1>1, <1>4, <2>1, <2>2, <2>3 DEF TapInstall
  <2>5. LocalsOK'
    <3> HIDE DEF w
    <3> QED
      BY <1>0, <2>1, <2>4, GoType
  <2> QED
    BY <2>1, <2>5
<1>5. CASE TapSkip(h)
  <2>1. PICK v \in offered : /\ SetSection(section, [config EXCEPT !.skipped = v])
                             /\ Dump(h, "saving", [Rest EXCEPT !.job = "skip", !.release = v])
    BY <1>5 DEF TapSkip
  <2>2. v \in Versions
    BY DEF WorldOK
  <2>3. [config EXCEPT !.skipped = v] \in Config
    BY <1>0, <2>2 DEF Config, Version
  <2>4. StoreOK' /\ Len(heap') = Len(heap)
    BY <1>5, <2>1, <2>3 DEF TapSkip, Dump, SetSection, StoreOK
  <2>5. WorldOK' /\ CountsOK' /\ ThreadsOK'
    BY <1>5 DEF TapSkip, world, threads, WorldOK, CountsOK, ThreadsOK, Version
  <2> DEFINE w == [Rest EXCEPT !.job = "skip", !.release = v]
  <2>6. Suits("saving", w, Len(heap')) /\ Dump(h, "saving", w)
    BY <1>1, <2>1, <2>2, <2>4
  <2>7. LocalsOK'
    <3> HIDE DEF w
    <3> QED
      BY <1>0, <2>4, <2>6, DumpType
  <2> QED
    BY <2>4, <2>5, <2>7
<1>6. ASSUME NEW job \in Changes, Change(h, job), UNCHANGED heap \/ (\E m \in Modes : SetSection(section, [config EXCEPT !.mode = m])),
             late' \in Nat
      PROVE  Typed'
  <2>1. StoreOK' /\ Len(heap') = Len(heap)
    <3>1. \A m \in Modes : [config EXCEPT !.mode = m] \in Config
      BY <1>0 DEF Config
    <3> QED
      BY <1>6, <3>1 DEF Change, Dump, SetSection, StoreOK
  <2>2. WorldOK' /\ CountsOK' /\ ThreadsOK'
    BY <1>6 DEF Change, world, threads, WorldOK, CountsOK, ThreadsOK
  <2>3. LocalsOK'
    <3> DEFINE w == [Rest EXCEPT !.job = job, !.previous = config]
    <3>1. Suits("saving", w, Len(heap')) /\ Dump(h, "saving", w)
      BY <1>2, <1>6, <2>1 DEF Change
    <3> HIDE DEF w
    <3> QED
      BY <1>0, <2>1, <3>1, DumpType
  <2> QED
    BY <2>1, <2>2, <2>3
<1>7. CASE SetMode(h) \/ SetInterval(h) \/ ChangeOther(h)
  BY <1>6, <1>7 DEF SetMode, SetInterval, ChangeOther, Changes, CountsOK
<1> QED
  BY <1>3, <1>4, <1>5, <1>7 DEF HandlerTap

(* A list from which a release was withdrawn is a list of releases. *)
LEMMA WithdrawType ==
  ASSUME listing \in Seq(Release), Withdraw
  PROVE  listing' \in Seq(Release)
<1>1. PICK i \in DOMAIN listing : listing' = [listing EXCEPT ![i].public = FALSE]
  BY DEF Withdraw
<1>2. listing[i] \in Release
  OBVIOUS
<1>3. [listing[i] EXCEPT !.public = FALSE] \in Release
  BY <1>2 DEF Release
<1> QED
  BY <1>1, <1>3

(* Every step keeps the types. *)
LEMMA StepType == Typed /\ [Next]_vars => Typed'
<1> SUFFICES ASSUME Typed, [Next]_vars
             PROVE  Typed'
  OBVIOUS
<1>1. ASSUME NEW p \in Pollers, PollerLoops(p)
      PROVE  Typed'
  <2>1. p \in Threads /\ Len(heap) \in Nat /\ Suits(pc[p], my[p], Len(heap))
    BY DEF Threads, Typed, StoreOK, LocalsOK
  <2>2. StoreOK' /\ Len(heap') = Len(heap) /\ WorldOK' /\ CountsOK' /\ ThreadsOK'
    BY <1>1 DEF Typed, PollerLoops, store, world, threads, counts, history, StoreOK, WorldOK, CountsOK, ThreadsOK
  <2>3. \A step \in {"ended", "begin"} : Suits(step, my[p], Len(heap))
    BY <1>1, <2>1 DEF PollerLoops, Suits, Working, Steps
  <2> QED
    BY <1>1, <2>1, <2>2, <2>3, GotoType DEF PollerLoops, Typed
<1>2. CASE Publish \/ Withdraw
  <2>1. listing' \in Seq(Release)
    <3>1. CASE Publish
      BY <3>1, UpdaterAssumption DEF Publish, Typed, WorldOK
    <3>2. CASE Withdraw
      BY <3>2, WithdrawType DEF Typed, WorldOK
    <3> QED
      BY <1>2, <3>1, <3>2
  <2> QED
    BY <1>2, <2>1 DEF Publish, Withdraw, Typed, store, threads, counts, history,
                      StoreOK, WorldOK, LocalsOK, CountsOK, ThreadsOK, Suits
<1>3. CASE Restart
  <2>1. StoreOK' /\ Len(heap') = 1
    BY <1>3 DEF Restart, Typed, StoreOK
  <2>2. WorldOK' /\ CountsOK'
    BY <1>3 DEF Restart, Typed, WorldOK, CountsOK
  <2>3. file \in Config
    BY DEF Typed, StoreOK
  <2>4. ThreadsOK' /\ LocalsOK'
    BY <1>3, <2>1, <2>3, BootType DEF Restart, ThreadsOK, LocalsOK
  <2> QED
    BY <2>1, <2>2, <2>4 DEF Typed
<1>4. CASE UNCHANGED vars
  BY <1>4 DEF vars, Typed, store, world, threads, counts, history,
              StoreOK, WorldOK, LocalsOK, CountsOK, ThreadsOK, Suits
<1> QED
  BY <1>1, <1>2, <1>3, <1>4, CheckType, HandlerType, TapType DEF Next

(* The variables of the updater keep their types, for any versions, threads    *)
(* and bounds.                                                                *)
THEOREM TypeCorrectness == Spec => []TypeOK
<1>1. Typed => TypeOK
  BY DEF Typed, TypeOK, StoreOK, WorldOK, ThreadsOK, LocalsOK, Suits, Locals, Version
<1> QED
  BY <1>1, InitType, StepType, PTL DEF Spec

-----------------------------------------------------------------------------
(* One check at a time. *)

Solo == \A a \in Threads : pc[a] \in Working => lock = a

(* The lock lets one check in. *)
LEMMA SoloStep == Typed /\ Typed' /\ Solo /\ [Next]_vars => Solo'
<1> SUFFICES ASSUME Typed, Typed', Solo, [Next]_vars
             PROVE  Solo'
  OBVIOUS
<1>0. /\ pc \in [Threads -> Steps] /\ my \in [Threads -> Locals]
      /\ Handlers \subseteq Threads /\ Pollers \subseteq Threads
  BY DEF Typed, LocalsOK, Threads
<1>1. ASSUME NEW a \in Threads, CheckStep(a)
      PROVE  Solo'
  <2> USE <1>0 DEF Solo, Working, Goto
  <2>1. ASSUME Ends(a), lock = a
        PROVE  Solo'
    BY <2>1 DEF Ends
  <2>2. CASE CheckBegins(a)
    BY <2>2, UpdaterAssumption DEF CheckBegins, Ends, Threads
  <2>3. CASE FetchFails(a)
    BY <2>1, <2>3 DEF FetchFails
  <2>4. CASE Fetched(a)
    BY <2>1, <2>4 DEF Fetched, Dump
  <2>5. CASE Checked(a)
    BY <2>1, <2>5 DEF Checked, Dump
  <2>6. CASE DownloadFails(a)
    BY <2>1, <2>6 DEF DownloadFails
  <2>7. CASE Download(a)
    BY <2>1, <2>7 DEF Download, Dump, threads
  <2>8. CASE Told(a)
    BY <2>1, <2>8 DEF Told
  <2>9. CASE CheckSaveFails(a)
    BY <2>1, <2>9 DEF CheckSaveFails
  <2> QED
    BY <1>1, <2>2, <2>3, <2>4, <2>5, <2>6, <2>7, <2>8, <2>9 DEF CheckStep
<1>2. ASSUME NEW p \in Pollers, PollerLoops(p)
      PROVE  Solo'
  BY <1>0, <1>2 DEF PollerLoops, Goto, threads, Solo, Working
<1>3. ASSUME NEW h \in Handlers, HandlerTap(h)
      PROVE  Solo'
  BY <1>0, <1>3 DEF HandlerTap, TapCheck, TapInstall, TapSkip, SetMode, SetInterval, ChangeOther,
                    Change, Tap, Dump, Goto, threads, Solo, Working
<1>4. ASSUME NEW h \in Handlers, HandlerStep(h)
      PROVE  Solo'
  <2>1. CASE HandlerSaved(h) \/ HandlerSaveFails(h) \/ Refresh(h) \/ StopPoller(h)
    BY <1>0, <2>1 DEF HandlerSaved, HandlerSaveFails, Refresh, StopPoller, Goto, threads, Solo, Working
  <2>2. CASE StartPoller(h)
    BY <1>0, <2>2 DEF StartPoller, Goto, Solo, Working
  <2> QED
    BY <1>4, <2>1, <2>2 DEF HandlerStep
<1>5. CASE Publish \/ Withdraw \/ UNCHANGED vars
  BY <1>5 DEF Publish, Withdraw, vars, threads, Solo
<1>6. CASE Restart
  BY <1>6 DEF Restart, BootPC, Solo, Working
<1> QED
  BY <1>1, <1>2, <1>3, <1>4, <1>5, <1>6 DEF Next

-----------------------------------------------------------------------------
(* Late installations. *)

(* A poll downloads when it has read "enabled", and while one installation is   *)
(* late no other check that may install has read that.                        *)
LateOK ==
  /\ late <= 1
  /\ \A a \in Threads : pc[a] = "download" /\ my[a].job = "poll" => my[a].mode = "enabled"
  /\ late = 1 =>
       /\ config.mode # "enabled"
       /\ \A a \in Threads : pc[a] \in {"fetch", "checked", "download"} /\ my[a].job = "poll" => my[a].mode # "enabled"

(* Only a handler changes the mode. *)
LEMMA ModeKept ==
  ASSUME Typed, NEW a \in Threads, CheckStep(a)
  PROVE  config'.mode = config.mode
<1>0. config \in Config /\ section \in 1..Len(heap) /\ heap \in Seq(Config) /\ Suits(pc[a], my[a], Len(heap))
  BY DEF Typed, StoreOK, LocalsOK, config
<1>1. CASE Checked(a)
  <2>1. my[a].kept \in 1..Len(heap)
    BY <1>0, <1>1 DEF Checked, Suits
  <2>2. heap[my[a].kept] \in Config
    BY <1>0, <2>1
  <2> QED
    BY <1>0, <1>1, <2>1, <2>2 DEF Checked, Dump, SetSection, config, Config
<1>2. CASE Download(a)
  BY <1>0, <1>2 DEF Download, Dump, SetSection, config, Config
<1>3. CASE CheckBegins(a) \/ FetchFails(a) \/ Fetched(a) \/ DownloadFails(a) \/ Told(a) \/ CheckSaveFails(a)
  BY <1>3 DEF CheckBegins, FetchFails, Fetched, DownloadFails, Told, CheckSaveFails, store, config
<1> QED
  BY <1>1, <1>2, <1>3 DEF CheckStep

(* Only the check that had begun may be late. *)
LEMMA LateStep == Typed /\ Typed' /\ Solo /\ LateOK /\ [Next]_vars => LateOK'
<1> SUFFICES ASSUME Typed, Typed', Solo, LateOK, [Next]_vars
             PROVE  LateOK'
  OBVIOUS
<1>0. /\ pc \in [Threads -> Steps] /\ my \in [Threads -> Locals] /\ late \in Nat
      /\ Handlers \subseteq Threads /\ Pollers \subseteq Threads
      /\ config \in Config
  BY DEF Typed, LocalsOK, CountsOK, Threads, StoreOK, config
<1>1. ASSUME NEW a \in Threads, CheckStep(a)
      PROVE  LateOK'
  <2> USE <1>0 DEF LateOK, Goto
  <2>0. config'.mode = config.mode
    BY <1>1, ModeKept
  <2>1. ASSUME Ends(a), UNCHANGED late
        PROVE  LateOK'
    BY <2>0, <2>1 DEF Ends, Becomes
  <2>2. CASE CheckBegins(a)
    <3>1. UNCHANGED late
      BY <2>2 DEF CheckBegins, history
    <3>2. CASE Ends(a)
      BY <2>1, <3>1, <3>2
    <3>3. CASE Goto(a, "fetch") /\ Becomes(a, [my[a] EXCEPT !.mode = config.mode])
      <4>1. /\ pc'[a] = "fetch" /\ my'[a].mode = config.mode
            /\ \A b \in Threads \ {a} : pc'[b] = pc[b] /\ my'[b] = my[b]
        BY <3>3 DEF Becomes, Locals
      <4> QED
        BY <2>0, <3>1, <4>1
    <3> QED
      BY <2>2, <3>2, <3>3 DEF CheckBegins
  <2>3. CASE FetchFails(a)
    BY <2>1, <2>3 DEF FetchFails, history
  <2>4. CASE Fetched(a)
    <3>1. UNCHANGED late
      BY <2>4 DEF Fetched
    <3>2. CASE Ends(a)
      BY <2>1, <3>1, <3>2
    <3>3. CASE my[a].job = "install" /\ Goto(a, "download") /\ UNCHANGED my
      BY <2>0, <3>1, <3>3
    <3>4. CASE Dump(a, "checked", [my[a] EXCEPT !.release = LatestRelease(listing), !.kept = section])
      <4>1. /\ pc[a] = "fetch" /\ pc'[a] = "checked" /\ my'[a].mode = my[a].mode /\ my'[a].job = my[a].job
            /\ \A b \in Threads \ {a} : pc'[b] = pc[b] /\ my'[b] = my[b]
        BY <2>4, <3>4 DEF Fetched, Dump, Becomes, Locals
      <4> QED
        BY <2>0, <3>1, <4>1
    <3> QED
      BY <2>4, <3>2, <3>3, <3>4 DEF Fetched
  <2>5. CASE Checked(a)
    <3>1. UNCHANGED late
      BY <2>5 DEF Checked
    <3>2. CASE Ends(a)
      BY <2>1, <3>1, <3>2
    <3>3. CASE my[a].mode = "enabled" /\ Goto(a, "download") /\ UNCHANGED my
      BY <2>0, <2>5, <3>1, <3>3 DEF Checked
    <3>4. CASE Dump(a, "notified", my[a])
      <4>1. /\ pc'[a] = "notified"
            /\ \A b \in Threads \ {a} : pc'[b] = pc[b] /\ my'[b] = my[b]
        BY <3>4 DEF Dump, Becomes
      <4> QED
        BY <2>0, <3>1, <4>1
    <3> QED
      BY <2>5, <3>2, <3>3, <3>4 DEF Checked
  <2>6. ASSUME pc[a] = "download", late' = late \/ CountLate(a), pc'[a] \notin Working \ {"installed"},
               \A b \in Threads \ {a} : pc'[b] = pc[b] /\ my'[b] = my[b]
        PROVE  LateOK'
    <3>1. \A b \in Threads \ {a} : pc[b] \notin Working
      BY <2>6 DEF Solo, Working
    <3>2. late' <= 1
      BY <2>6 DEF CountLate
    <3>3. late' = 1 => config.mode # "enabled"
      BY <2>6 DEF CountLate
    <3> QED
      BY <2>0, <2>6, <3>1, <3>2, <3>3 DEF Working
  <2>7. CASE DownloadFails(a)
    BY <2>6, <2>7 DEF DownloadFails, Ends, Becomes, Working
  <2>8. CASE Download(a)
    BY <2>6, <2>8 DEF Download, Dump, Becomes, Working
  <2>9. CASE Told(a) \/ CheckSaveFails(a)
    BY <2>1, <2>9 DEF Told, CheckSaveFails
  <2> QED
    BY <1>1, <2>2, <2>3, <2>4, <2>5, <2>7, <2>8, <2>9 DEF CheckStep
<1>2. ASSUME NEW p \in Pollers, PollerLoops(p)
      PROVE  LateOK'
  BY <1>0, <1>2 DEF PollerLoops, Goto, store, history, config, LateOK
<1>3. ASSUME NEW h \in Handlers, HandlerTap(h)
      PROVE  LateOK'
  <2>1. pc'[h] \in {"begin", "saving"} /\ \A b \in Threads \ {h} : pc'[b] = pc[b] /\ my'[b] = my[b]
    BY <1>0, <1>3 DEF HandlerTap, TapCheck, TapInstall, TapSkip, SetMode, SetInterval, ChangeOther,
                      Change, Dump, Goto, Becomes
  <2>2. CASE SetMode(h)
    BY <2>1, <2>2 DEF SetMode, LateOK
  <2>3. CASE TapSkip(h)
    <3>1. config'.mode = config.mode /\ late' = late
      BY <1>0, <2>3 DEF TapSkip, Dump, SetSection, config, Config, Typed, StoreOK
    <3> QED
      BY <2>1, <3>1 DEF LateOK
  <2>4. CASE TapCheck(h) \/ TapInstall(h) \/ SetInterval(h) \/ ChangeOther(h)
    <3>1. config' = config /\ late' = late
      BY <2>4 DEF TapCheck, TapInstall, SetInterval, ChangeOther, Change, Dump, store, history, config
    <3> QED
      BY <2>1, <3>1 DEF LateOK
  <2> QED
    BY <1>3, <2>2, <2>3, <2>4 DEF HandlerTap
<1>4. ASSUME NEW h \in Handlers, HandlerStep(h)
      PROVE  LateOK'
  <2>1. CASE HandlerSaved(h) \/ Refresh(h) \/ StopPoller(h)
    BY <1>0, <2>1 DEF HandlerSaved, Refresh, StopPoller, Goto, Becomes, store, history, config, LateOK
  <2>2. CASE HandlerSaveFails(h)
    BY <1>0, <2>2 DEF HandlerSaveFails, Goto, Becomes, config, LateOK
  <2>3. CASE StartPoller(h)
    BY <1>0, <2>3 DEF StartPoller, Goto, Becomes, store, history, config, LateOK
  <2> QED
    BY <1>4, <2>1, <2>2, <2>3 DEF HandlerStep
<1>5. CASE Publish \/ Withdraw \/ UNCHANGED vars
  BY <1>5 DEF Publish, Withdraw, vars, store, history, config, LateOK
<1>6. CASE Restart
  BY <1>6 DEF Restart, BootPC, LateOK
<1> QED
  BY <1>1, <1>2, <1>3, <1>4, <1>5, <1>6 DEF Next

(* However the threads meet, once the mode is another than "enabled" at most    *)
(* one check installs a release on its own: the one that was at work.           *)
THEOREM AtMostOneLate == Spec => []OneLateInstall
<1>1. Init => Solo /\ LateOK
  BY DEF Init, BootPC, Solo, LateOK, Working
<1>2. LateOK => OneLateInstall
  BY DEF LateOK, OneLateInstall
<1> QED
  BY <1>1, <1>2, InitType, StepType, SoloStep, LateStep, PTL DEF Spec

-----------------------------------------------------------------------------
(* The settings file. *)

(* While no two threads have been saving at once: one thread saves at a time,   *)
(* it writes what the settings are, and puts back what is in the file.         *)
FileOK ==
  "saves" \notin overlap =>
    /\ \A a, b \in Threads : pc[a] \in Saves /\ pc[b] \in Saves => a = b
    /\ \A a \in Threads : pc[a] \in Saves => my[a].dump = config
    /\ ~dirty => /\ (\A a \in Threads : pc[a] \notin Saves) => file = config
                 /\ \A a \in Threads : pc[a] = "saving" /\ my[a].job # "skip" => file = my[a].previous

(* The version skipped last is in the settings, in their file and in what a     *)
(* handler would put back; a handler that skips writes what it skips.          *)
SkipOK ==
  /\ \A a \in Threads : pc[a] = "saving" /\ my[a].job = "skip" => my[a].dump.skipped = my[a].release
  /\ "saves" \notin overlap /\ wish # NoVersion =>
        /\ config.skipped = wish /\ file.skipped = wish
        /\ \A a \in Threads : pc[a] = "saving" /\ my[a].job # "skip" => my[a].previous.skipped = wish

(* A thread that begins to save leaves no other saving, or leaves a trace. *)
LEMMA DumpAlone ==
  ASSUME Typed, NEW a \in Threads, NEW step \in Saves, NEW v \in Locals, Dump(a, step, v), "saves" \notin overlap'
  PROVE  /\ "saves" \notin overlap
         /\ pc'[a] = step /\ my'[a] = [v EXCEPT !.dump = config'] /\ my'[a].dump = config'
         /\ \A b \in Threads \ {a} : pc'[b] = pc[b] /\ my'[b] = my[b] /\ pc[b] \notin Saves
<1>1. pc \in [Threads -> Steps] /\ my \in [Threads -> Locals]
  BY DEF Typed, LocalsOK
<1>2. "saves" \notin overlap /\ \A b \in Threads \ {a} : pc[b] \notin Saves
  BY DEF Dump
<1>3. pc'[a] = step /\ my'[a] = [v EXCEPT !.dump = config']
  BY <1>1 DEF Dump, Goto, Becomes
<1>4. \A b \in Threads \ {a} : pc'[b] = pc[b] /\ my'[b] = my[b]
  BY <1>1 DEF Dump, Goto, Becomes
<1>5. my'[a].dump = config'
  BY <1>3 DEF Locals
<1> QED
  BY <1>2, <1>3, <1>4, <1>5

(* A check that is over saves nothing. *)
LEMMA EndsQuiet ==
  ASSUME Typed, NEW a \in Threads, Ends(a)
  PROVE  /\ pc'[a] \notin Saves
         /\ \A b \in Threads \ {a} : pc'[b] = pc[b] /\ my'[b] = my[b]
BY DEF Typed, LocalsOK, Ends, Goto, Becomes, Saves

(* What the steps of a check write. *)
LEMMA CheckSaves ==
  ASSUME Typed, Typed', FileOK, SkipOK, NEW a \in Threads, CheckStep(a)
  PROVE  FileOK' /\ SkipOK'
<1>0. /\ pc \in [Threads -> Steps] /\ my \in [Threads -> Locals]
      /\ config \in Config /\ section \in 1..Len(heap) /\ heap \in Seq(Config) /\ Suits(pc[a], my[a], Len(heap))
  BY DEF Typed, LocalsOK, StoreOK, config
<1>1. CASE CheckBegins(a)
  <2>1. /\ UNCHANGED <<config, file, dirty, overlap, wish>> /\ pc'[a] \notin Saves /\ pc[a] \notin Saves
        /\ \A b \in Threads \ {a} : pc'[b] = pc[b] /\ my'[b] = my[b]
    BY <1>0, <1>1, EndsQuiet DEF CheckBegins, Goto, Becomes, Saves, store, history, config
  <2> QED
    BY <2>1 DEF FileOK, SkipOK, Saves
<1>2. CASE FetchFails(a)
  <2>1. /\ UNCHANGED <<config, file, dirty, overlap, wish>> /\ pc'[a] \notin Saves /\ pc[a] \notin Saves
        /\ \A b \in Threads \ {a} : pc'[b] = pc[b] /\ my'[b] = my[b]
    BY <1>2, EndsQuiet DEF FetchFails, Saves, store, history, config
  <2> QED
    BY <2>1 DEF FileOK, SkipOK, Saves
<1>3. CASE Fetched(a)
  <2>1. UNCHANGED <<config, file, dirty, wish>> /\ pc[a] \notin Saves
    BY <1>3 DEF Fetched, Saves, store, config
  <2>2. CASE UNCHANGED overlap /\ (Ends(a) \/ (Goto(a, "download") /\ UNCHANGED my))
    <3>1. pc'[a] \notin Saves /\ \A b \in Threads \ {a} : pc'[b] = pc[b] /\ my'[b] = my[b]
      BY <1>0, <2>2, EndsQuiet DEF Goto, Saves
    <3> QED
      BY <2>1, <2>2, <3>1 DEF FileOK, SkipOK, Saves
  <2>3. CASE Dump(a, "checked", [my[a] EXCEPT !.release = LatestRelease(listing), !.kept = section])
    <3> DEFINE v == [my[a] EXCEPT !.release = LatestRelease(listing), !.kept = section]
    <3>1. v \in Locals
      <4>1. LatestRelease(listing) \in Version /\ section \in Nat
        BY <1>0, LatestType DEF Typed, WorldOK
      <4> QED
        BY <1>0, <4>1 DEF Locals
    <3> HIDE DEF v
    <3>2. "saves" \notin overlap' =>
            /\ "saves" \notin overlap /\ pc'[a] = "checked" /\ my'[a].dump = config'
            /\ \A b \in Threads \ {a} : pc'[b] = pc[b] /\ my'[b] = my[b] /\ pc[b] \notin Saves
      BY <2>3, <3>1, DumpAlone DEF Saves, v
    <3>3. pc'[a] = "checked" /\ \A b \in Threads \ {a} : pc'[b] = pc[b] /\ my'[b] = my[b]
      BY <1>0, <2>3 DEF Dump, Goto, Becomes
    <3> QED
      BY <2>1, <3>2, <3>3 DEF FileOK, SkipOK, Saves
  <2> QED
    BY <1>3, <2>2, <2>3 DEF Fetched
<1>4. CASE Checked(a)
  <2>1. pc[a] \in Saves /\ pc[a] # "saving" /\ my[a].kept \in 1..Len(heap) /\ file' = my[a].dump /\ dirty' = FALSE /\ wish' = wish
    BY <1>0, <1>4 DEF Checked, Written, Saves, Suits
  <2>2. CASE UNCHANGED <<heap, overlap>> /\ (Ends(a) \/ (Goto(a, "download") /\ UNCHANGED my))
    <3>1. pc'[a] \notin Saves /\ \A b \in Threads \ {a} : pc'[b] = pc[b] /\ my'[b] = my[b]
      BY <1>0, <2>2, EndsQuiet DEF Goto, Saves
    <3>2. config' = config
      BY <1>4, <2>2 DEF Checked, config
    <3> QED
      BY <2>1, <2>2, <3>1, <3>2 DEF FileOK, SkipOK, Saves
  <2>3. CASE SetSection(my[a].kept, [heap[my[a].kept] EXCEPT !.notified = my[a].release]) /\ Dump(a, "notified", my[a])
    <3>1. "saves" \notin overlap' =>
            /\ "saves" \notin overlap /\ pc'[a] = "notified" /\ my'[a].dump = config'
            /\ \A b \in Threads \ {a} : pc'[b] = pc[b] /\ my'[b] = my[b] /\ pc[b] \notin Saves
      BY <1>0, <2>3, DumpAlone DEF Saves, Suits
    <3>2. pc'[a] = "notified" /\ \A b \in Threads \ {a} : pc'[b] = pc[b] /\ my'[b] = my[b]
      BY <1>0, <2>3 DEF Dump, Goto, Becomes
    <3>3. config'.skipped = config.skipped
      <4>1. heap[my[a].kept] \in Config
        BY <1>0, <2>1
      <4> QED
        BY <1>0, <2>1, <2>3, <4>1 DEF SetSection, Dump, config, Config
    <3> QED
      BY <2>1, <3>1, <3>2, <3>3 DEF FileOK, SkipOK, Saves
  <2> QED
    BY <1>4, <2>2, <2>3 DEF Checked
<1>5. CASE DownloadFails(a)
  <2>1. /\ UNCHANGED <<config, file, dirty, overlap, wish>> /\ pc'[a] \notin Saves /\ pc[a] \notin Saves
        /\ \A b \in Threads \ {a} : pc'[b] = pc[b] /\ my'[b] = my[b]
    BY <1>5, EndsQuiet DEF DownloadFails, Saves, store, config
  <2> QED
    BY <2>1 DEF FileOK, SkipOK, Saves
<1>6. CASE Download(a)
  <2> DEFINE v == my[a].release
  <2>1. pc[a] \notin Saves /\ UNCHANGED <<file, dirty>> /\ wish' = IF wish = v THEN NoVersion ELSE wish
    BY <1>6 DEF Download, Saves
  <2>2. "saves" \notin overlap' =>
          /\ "saves" \notin overlap /\ pc'[a] = "installed" /\ my'[a].dump = config'
          /\ \A b \in Threads \ {a} : pc'[b] = pc[b] /\ my'[b] = my[b] /\ pc[b] \notin Saves
    BY <1>0, <1>6, DumpAlone DEF Download, Saves, Suits
  <2>3. pc'[a] = "installed" /\ \A b \in Threads \ {a} : pc'[b] = pc[b] /\ my'[b] = my[b]
    BY <1>0, <1>6 DEF Download, Dump, Goto, Becomes
  <2>4. config.skipped # v => config'.skipped = config.skipped
    BY <1>0, <1>6 DEF Download, Dump, SetSection, config, Config
  <2> QED
    BY <2>1, <2>2, <2>3, <2>4 DEF FileOK, SkipOK, Saves
<1>7. CASE Told(a)
  <2>1. /\ UNCHANGED <<config, overlap, wish>> /\ pc'[a] \notin Saves /\ pc[a] \in Saves /\ pc[a] # "saving"
        /\ file' = my[a].dump /\ dirty' = FALSE
        /\ \A b \in Threads \ {a} : pc'[b] = pc[b] /\ my'[b] = my[b]
    BY <1>7, EndsQuiet DEF Told, Written, Saves, config
  <2> QED
    BY <2>1 DEF FileOK, SkipOK, Saves
<1>8. CASE CheckSaveFails(a)
  <2>1. /\ UNCHANGED <<config, file, overlap, wish>> /\ pc'[a] \notin Saves /\ dirty' = TRUE
        /\ \A b \in Threads \ {a} : pc'[b] = pc[b] /\ my'[b] = my[b]
    BY <1>8, EndsQuiet DEF CheckSaveFails, store, config
  <2> QED
    BY <2>1 DEF FileOK, SkipOK, Saves
<1> QED
  BY <1>1, <1>2, <1>3, <1>4, <1>5, <1>6, <1>7, <1>8 DEF CheckStep

(* What a tap in the panel writes. *)
LEMMA TapSaves ==
  ASSUME Typed, Typed', FileOK, SkipOK, NEW h \in Handlers, HandlerTap(h)
  PROVE  FileOK' /\ SkipOK'
<1>0. /\ pc \in [Threads -> Steps] /\ my \in [Threads -> Locals] /\ h \in Threads
      /\ config \in Config /\ section \in 1..Len(heap) /\ heap \in Seq(Config) /\ Rest \in Locals
  BY RestType DEF Typed, LocalsOK, StoreOK, config, Threads
<1>1. CASE TapCheck(h) \/ TapInstall(h)
  <2>1. /\ UNCHANGED <<config, file, dirty, overlap, wish>> /\ pc'[h] \notin Saves /\ pc[h] \notin Saves
        /\ \A b \in Threads \ {h} : pc'[b] = pc[b] /\ my'[b] = my[b]
    BY <1>0, <1>1 DEF TapCheck, TapInstall, Tap, Goto, Becomes, Saves, store, history, config
  <2> QED
    BY <2>1 DEF FileOK, SkipOK, Saves
<1>2. CASE TapSkip(h)
  <2>1. PICK v \in offered : /\ SetSection(section, [config EXCEPT !.skipped = v])
                             /\ Dump(h, "saving", [Rest EXCEPT !.job = "skip", !.release = v])
    BY <1>2 DEF TapSkip
  <2> DEFINE w == [Rest EXCEPT !.job = "skip", !.release = v]
  <2>2. w \in Locals /\ w.job = "skip" /\ w.release = v
    BY <1>0 DEF Locals, Jobs, Typed, WorldOK, Version
  <2>3. config'.skipped = v
    BY <1>0, <2>1 DEF SetSection, Dump, config, Config
  <2>4. Dump(h, "saving", w)
    BY <2>1
  <2> HIDE DEF w
  <2>5. /\ pc'[h] = "saving" /\ my'[h].dump = config' /\ my'[h].job = "skip" /\ my'[h].release = v
        /\ \A b \in Threads \ {h} : pc'[b] = pc[b] /\ my'[b] = my[b]
    BY <1>0, <2>2, <2>4 DEF Dump, Goto, Becomes, Locals
  <2>6. "saves" \notin overlap' =>
          "saves" \notin overlap /\ \A b \in Threads \ {h} : pc[b] \notin Saves
    BY <1>0, <2>2, <2>4, DumpAlone DEF Saves
  <2>7. wish' = NoVersion
    BY <1>2 DEF TapSkip
  <2> QED
    BY <1>0, <2>3, <2>5, <2>6, <2>7 DEF FileOK, SkipOK, Saves
<1>3. ASSUME NEW job \in Changes, Change(h, job), config'.skipped = config.skipped
      PROVE  FileOK' /\ SkipOK'
  <2> DEFINE w == [Rest EXCEPT !.job = job, !.previous = config]
  <2>1. w \in Locals /\ w.job = job /\ w.previous = config /\ job # "skip"
    BY <1>0, <1>3 DEF Locals, Jobs, Changes
  <2>2. Dump(h, "saving", w) /\ UNCHANGED <<file, dirty, wish>> /\ pc[h] = "idle"
    BY <1>3 DEF Change, Tap
  <2> HIDE DEF w
  <2>3. /\ pc'[h] = "saving" /\ my'[h].dump = config' /\ my'[h].job = job /\ my'[h].previous = config
        /\ \A b \in Threads \ {h} : pc'[b] = pc[b] /\ my'[b] = my[b]
    BY <1>0, <2>1, <2>2 DEF Dump, Goto, Becomes, Locals
  <2>4. "saves" \notin overlap' =>
          "saves" \notin overlap /\ \A b \in Threads : pc[b] \notin Saves
    BY <1>0, <2>1, <2>2, DumpAlone DEF Saves
  <2> QED
    BY <1>0, <1>3, <2>1, <2>2, <2>3, <2>4 DEF FileOK, SkipOK, Saves
<1>4. CASE SetMode(h)
  BY <1>0, <1>3, <1>4 DEF SetMode, SetSection, Change, Dump, config, Config, Changes
<1>5. CASE SetInterval(h) \/ ChangeOther(h)
  BY <1>3, <1>5 DEF SetInterval, ChangeOther, Change, Dump, config, Changes
<1> QED
  BY <1>1, <1>2, <1>4, <1>5 DEF HandlerTap

(* What a handler in progress writes. *)
LEMMA HandlerSaves ==
  ASSUME Typed, Typed', FileOK, SkipOK, NEW h \in Handlers, HandlerStep(h)
  PROVE  FileOK' /\ SkipOK'
<1>0. /\ pc \in [Threads -> Steps] /\ my \in [Threads -> Locals] /\ h \in Threads
      /\ Handlers \subseteq Threads /\ Pollers \subseteq Threads
  BY DEF Typed, LocalsOK, Threads
<1>1. CASE HandlerSaved(h)
  <2>1. /\ pc[h] = "saving" /\ file' = my[h].dump /\ dirty' = FALSE /\ UNCHANGED <<config, overlap>>
        /\ wish' = IF my[h].job = "skip" THEN my[h].release ELSE wish
    BY <1>1 DEF HandlerSaved, Written, config
  <2>2. pc'[h] \notin Saves /\ \A b \in Threads \ {h} : pc'[b] = pc[b] /\ my'[b] = my[b]
    BY <1>0, <1>1 DEF HandlerSaved, Goto, Becomes, Saves
  <2> QED
    BY <1>0, <2>1, <2>2 DEF FileOK, SkipOK, Saves
<1>2. CASE HandlerSaveFails(h)
  <2>1. /\ pc[h] = "saving" /\ UNCHANGED <<file, overlap, wish>>
        /\ pc'[h] \notin Saves /\ \A b \in Threads \ {h} : pc'[b] = pc[b] /\ my'[b] = my[b]
    BY <1>0, <1>2 DEF HandlerSaveFails, Goto, Becomes, Saves
  <2>2. CASE my[h].job = "skip" /\ dirty' = TRUE /\ UNCHANGED <<heap, section>>
    BY <2>1, <2>2 DEF FileOK, SkipOK, Saves, config
  <2>3. CASE my[h].job # "skip" /\ heap' = Append(heap, my[h].previous) /\ section' = Len(heap') /\ UNCHANGED dirty
    <3>1. config' = my[h].previous
      BY <2>3 DEF Typed, StoreOK, config
    <3> QED
      BY <1>0, <2>1, <2>3, <3>1 DEF FileOK, SkipOK, Saves
  <2> QED
    BY <1>2, <2>2, <2>3 DEF HandlerSaveFails
<1>3. CASE Refresh(h) \/ StopPoller(h) \/ StartPoller(h)
  <2>1. UNCHANGED <<config, file, dirty, overlap, wish>> /\ pc[h] \notin Saves
    BY <1>3 DEF Refresh, StopPoller, StartPoller, Saves, store, history, config
  <2>2. \A b \in Threads : \/ pc'[b] \notin Saves /\ pc[b] \notin Saves
                           \/ pc'[b] = pc[b] /\ my'[b] = my[b]
    BY <1>0, <1>3 DEF Refresh, StopPoller, StartPoller, Alive, Goto, Becomes, Saves
  <2> QED
    BY <2>1, <2>2 DEF FileOK, SkipOK, Saves
<1> QED
  BY <1>1, <1>2, <1>3 DEF HandlerStep

(* One step, of whichever thread, on the file and on what was skipped. *)
LEMMA SavesStep == Typed /\ Typed' /\ FileOK /\ SkipOK /\ [Next]_vars => FileOK' /\ SkipOK'
<1> SUFFICES ASSUME Typed, Typed', FileOK, SkipOK, [Next]_vars
             PROVE  FileOK' /\ SkipOK'
  OBVIOUS
<1>1. ASSUME NEW p \in Pollers, PollerLoops(p)
      PROVE  FileOK' /\ SkipOK'
  <2>1. UNCHANGED <<config, file, dirty, overlap, wish>>
    BY <1>1 DEF PollerLoops, store, history, config
  <2>2. \A b \in Threads : my'[b] = my[b] /\ (pc'[b] = pc[b] \/ (pc'[b] \notin Saves /\ pc[b] \notin Saves))
    BY <1>1 DEF PollerLoops, Goto, Saves, Typed, LocalsOK
  <2> QED
    BY <2>1, <2>2 DEF FileOK, SkipOK, Saves
<1>2. CASE Publish \/ Withdraw \/ UNCHANGED vars
  BY <1>2 DEF Publish, Withdraw, vars, store, history, config, FileOK, SkipOK
<1>3. CASE Restart
  <2>1. /\ config' = file /\ UNCHANGED <<file, overlap, wish>>
        /\ \A b \in Threads : pc'[b] \notin Saves
    BY <1>3 DEF Restart, BootPC, Saves, config, Typed, StoreOK
  <2> QED
    BY <2>1 DEF FileOK, SkipOK, Saves
<1> QED
  BY <1>1, <1>2, <1>3, CheckSaves, TapSaves, HandlerSaves DEF Next

(* A check judges by the section the settings hold: to put another in its place *)
(* is to save meanwhile.                                                      *)
KeptOK == "saves" \notin overlap => \A a \in Threads : pc[a] = "checked" => my[a].kept = section

(* One step, on what was skipped and kept. *)
LEMMA KeptStep == Typed /\ FileOK /\ KeptOK /\ [Next]_vars => KeptOK'
<1> SUFFICES ASSUME Typed, FileOK, KeptOK, [Next]_vars
             PROVE  KeptOK'
  OBVIOUS
<1>0. pc \in [Threads -> Steps] /\ my \in [Threads -> Locals] /\ Handlers \subseteq Threads /\ Pollers \subseteq Threads
  BY DEF Typed, LocalsOK, Threads
<1>1. ASSUME NEW a \in Threads, CheckStep(a)
      PROVE  KeptOK'
  <2>1. section' = section /\ ("saves" \in overlap => "saves" \in overlap')
    BY <1>1 DEF CheckStep, CheckBegins, FetchFails, Fetched, Checked, DownloadFails, Download, Told,
                CheckSaveFails, Dump, store, history
  <2>2. \A b \in Threads \ {a} : pc'[b] = pc[b] /\ my'[b] = my[b]
    BY <1>0, <1>1 DEF CheckStep, CheckBegins, FetchFails, Fetched, Checked, DownloadFails, Download, Told,
                      CheckSaveFails, Ends, Dump, Goto, Becomes
  <2>3. CASE Fetched(a)
    <3>1. pc'[a] = "checked" => my'[a].kept = section
      <4>1. [[my[a] EXCEPT !.release = LatestRelease(listing), !.kept = section] EXCEPT !.dump = config'].kept = section
        BY <1>0 DEF Locals
      <4> QED
        BY <1>0, <2>3, <4>1 DEF Fetched, Ends, Dump, Goto, Becomes
    <3> QED
      BY <2>1, <2>2, <3>1 DEF KeptOK
  <2>4. CASE ~Fetched(a)
    <3>1. pc'[a] # "checked"
      BY <1>0, <1>1, <2>4 DEF CheckStep, CheckBegins, FetchFails, Checked, DownloadFails, Download, Told,
                              CheckSaveFails, Ends, Dump, Goto
    <3> QED
      BY <2>1, <2>2, <3>1 DEF KeptOK
  <2> QED
    BY <2>3, <2>4
<1>2. ASSUME NEW p \in Pollers, PollerLoops(p)
      PROVE  KeptOK'
  BY <1>0, <1>2 DEF PollerLoops, Goto, store, history, KeptOK
<1>3. ASSUME NEW h \in Handlers, HandlerTap(h)
      PROVE  KeptOK'
  <2>1. section' = section /\ ("saves" \in overlap => "saves" \in overlap')
    BY <1>3 DEF HandlerTap, TapCheck, TapInstall, TapSkip, SetMode, SetInterval, ChangeOther, Change,
                Dump, store, history
  <2>2. pc'[h] # "checked" /\ \A b \in Threads \ {h} : pc'[b] = pc[b] /\ my'[b] = my[b]
    BY <1>0, <1>3 DEF HandlerTap, TapCheck, TapInstall, TapSkip, SetMode, SetInterval, ChangeOther, Change,
                      Dump, Goto, Becomes
  <2> QED
    BY <2>1, <2>2 DEF KeptOK
<1>4. ASSUME NEW h \in Handlers, HandlerStep(h)
      PROVE  KeptOK'
  <2>1. CASE HandlerSaveFails(h)
    <3>1. pc[h] = "saving" /\ pc'[h] = "idle" /\ overlap' = overlap /\ \A b \in Threads \ {h} : pc'[b] = pc[b]
      BY <1>0, <2>1 DEF HandlerSaveFails, Goto
    <3> QED
      BY <1>0, <3>1 DEF FileOK, KeptOK, Saves
  <2>2. CASE HandlerSaved(h) \/ Refresh(h) \/ StopPoller(h) \/ StartPoller(h)
    <3>1. section' = section /\ overlap' = overlap
      BY <2>2 DEF HandlerSaved, Refresh, StopPoller, StartPoller, store, history
    <3>2. \A b \in Threads : pc'[b] # "checked" \/ (pc'[b] = pc[b] /\ my'[b] = my[b])
      BY <1>0, <2>2 DEF HandlerSaved, Refresh, StopPoller, StartPoller, Goto, Becomes
    <3> QED
      BY <3>1, <3>2 DEF KeptOK
  <2> QED
    BY <1>4, <2>1, <2>2 DEF HandlerStep
<1>5. CASE Publish \/ Withdraw \/ UNCHANGED vars
  BY <1>5 DEF Publish, Withdraw, vars, store, history, KeptOK
<1>6. CASE Restart
  BY <1>6 DEF Restart, BootPC, KeptOK
<1> QED
  BY <1>1, <1>2, <1>3, <1>4, <1>5, <1>6 DEF Next

(* The file holds the settings in memory when nobody is saving, unless two      *)
(* saves were under way at once or the last one of a check failed.             *)
THEOREM FileFollows == Spec => []FileIsCurrent
<1>1. Init => FileOK /\ SkipOK
  BY DEF Init, BootPC, FileOK, SkipOK, Saves
<1>2. FileOK => FileIsCurrent
  BY DEF FileOK, FileIsCurrent
<1> QED
  BY <1>1, <1>2, InitType, StepType, SavesStep, PTL DEF Spec

(* A check leaves the version skipped last alone: a skip reaches the settings   *)
(* and their file, and no failed save and no restart takes it back.            *)
THEOREM SkippedForGood == Spec => SkippedIsLeftAlone
<1>1. Init => FileOK /\ SkipOK /\ KeptOK
  BY DEF Init, BootPC, FileOK, SkipOK, KeptOK, Saves
<1>2. ASSUME Typed, SkipOK, KeptOK, [Next]_vars, NEW a \in Threads,
             pc[a] = "checked", pc'[a] \in {"notified", "download"}, my[a].release = wish,
             "saves" \notin overlap
      PROVE  FALSE
  <2>0. pc \in [Threads -> Steps] /\ Handlers \subseteq Threads /\ Pollers \subseteq Threads /\ my[a].release \in Versions
    BY <1>2 DEF Typed, LocalsOK, Threads, Suits, Working
  <2>1. Checked(a)
    <3>1. ASSUME NEW b \in Threads, CheckStep(b), b # a
          PROVE  pc'[a] = pc[a]
      BY <2>0, <3>1 DEF CheckStep, CheckBegins, FetchFails, Fetched, Checked, DownloadFails, Download, Told,
                        CheckSaveFails, Ends, Dump, Goto
    <3>2. ASSUME CheckStep(a)
          PROVE  Checked(a)
      BY <1>2, <2>0, <3>2 DEF CheckStep, CheckBegins, FetchFails, Fetched, DownloadFails, Download, Told, CheckSaveFails,
                        Ends, Goto
    <3>3. ASSUME NEW p \in Pollers, PollerLoops(p)
          PROVE  FALSE
      BY <1>2, <2>0, <3>3 DEF PollerLoops, Goto
    <3>4. ASSUME NEW h \in Handlers, HandlerTap(h)
          PROVE  FALSE
      BY <1>2, <2>0, <3>4 DEF HandlerTap, TapCheck, TapInstall, TapSkip, SetMode, SetInterval, ChangeOther,
                              Change, Tap, Dump, Goto
    <3>5. ASSUME NEW h \in Handlers, HandlerStep(h)
          PROVE  FALSE
      BY <1>2, <2>0, <3>5 DEF HandlerStep, HandlerSaved, HandlerSaveFails, Refresh, StopPoller, StartPoller, Goto
    <3>6. CASE Publish \/ Withdraw \/ UNCHANGED vars
      BY <1>2, <3>6 DEF Publish, Withdraw, vars
    <3>7. CASE Restart
      BY <1>2, <3>7 DEF Restart, BootPC
    <3> QED
      BY <1>2, <3>1, <3>2, <3>3, <3>4, <3>5, <3>6, <3>7 DEF Next
  <2>2. ShouldOffer(running, config, my[a].release, my[a].job = "check")
    BY <1>2, <2>0, <2>1 DEF Checked, Ends, Goto, config, KeptOK
  <2>3. config.skipped = my[a].release
    BY <1>2, <2>0, ReleasesAssumption DEF SkipOK
  <2> QED
    BY <2>2, <2>3 DEF ShouldOffer
<1>3. Typed /\ SkipOK /\ KeptOK /\ [Next]_vars
        => [\A a \in Threads :
              pc[a] = "checked" /\ pc'[a] \in {"notified", "download"} /\ my[a].release = wish
                => "saves" \in overlap]_vars
  BY <1>2
<1> QED
  BY <1>1, <1>3, InitType, StepType, SavesStep, KeptStep, PTL DEF Spec, SkippedIsLeftAlone

-----------------------------------------------------------------------------
(* The pollers. *)

(* Those that will go on, and what they should be in a mode. *)
Live == {p \in Pollers : Alive(p) /\ ~stop[p]}
As(m) == IF m = "disabled" THEN Live = {} ELSE thread \in Pollers /\ Live = {thread}

(* Where a handler is that changes settings. *)
PlacesOK ==
  \A a \in Threads :
    /\ my[a].job \in Changes => pc[a] \in {"saving", "refresh", "stop", "start"}
    /\ pc[a] \in {"refresh", "stop", "start"} => my[a].job \in {"mode", "interval"}
    /\ pc[a] = "saving" => my[a].job \in Changes \cup {"skip"}
    /\ a \in Pollers => my[a].job \in {"none", "poll"}

(* Thread a, when nobody else changes settings, is on the way to pollers that   *)
(* are as the mode says.                                                      *)
OnTheWay(a) ==
  /\ pc[a] = "saving" => /\ As(my[a].previous.mode)
                         /\ my[a].job # "mode" => my[a].previous.mode = config.mode
  /\ pc[a] = "refresh" => Live \subseteq {thread}
  /\ pc[a] = "stop" => Live \subseteq {thread} /\ my[a].mode = config.mode
  /\ pc[a] = "start" => Live = {} /\ my[a].mode = config.mode /\ config.mode # "disabled"

PollersOK ==
  "changes" \notin overlap =>
    /\ \A a, b \in Threads : my[a].job \in Changes /\ my[b].job \in Changes => a = b
    /\ (\A a \in Threads : my[a].job \notin Changes) => As(config.mode)
    /\ \A a \in Threads : my[a].job \in Changes => OnTheWay(a)

(* The pollers of a fresh process are as the mode says. *)
LEMMA BootLive ==
  ASSUME NEW c \in Config
  PROVE  /\ \A a \in Threads : /\ BootPC(c)[a] \in {"loop", "idle", "unborn"}
                               /\ BootMy(c)[a].job \in {"none", "poll"}
         /\ {p \in Pollers : BootPC(c)[p] \notin {"unborn", "ended"}}
              = IF c.mode = "disabled" THEN {} ELSE {BootThread(c)}
         /\ c.mode # "disabled" => BootThread(c) \in Pollers
<1>1. FirstPoller \in Pollers
  BY UpdaterAssumption DEF FirstPoller
<1>2. \A a \in Threads : BootMy(c)[a].job \in {"none", "poll"}
  BY DEF BootMy, Polling, Rest
<1> QED
  BY <1>1, <1>2, UpdaterAssumption DEF BootPC, BootThread, Threads

(* A check starts and stops no poller. *)
LEMMA CheckPollers ==
  ASSUME Typed, Typed', PlacesOK, PollersOK, NEW a \in Threads, CheckStep(a)
  PROVE  PlacesOK' /\ PollersOK'
<1>0. pc \in [Threads -> Steps] /\ my \in [Threads -> Locals] /\ Pollers \subseteq Threads
  BY DEF Typed, LocalsOK, Threads
<1>1. config'.mode = config.mode /\ UNCHANGED <<thread, stop>>
  BY ModeKept DEF CheckStep, CheckBegins, FetchFails, Fetched, Checked, DownloadFails, Download, Told,
                  CheckSaveFails, threads
<1>2. /\ pc[a] \in Working \cup {"begin"}
      /\ pc'[a] \in Working \cup (IF a \in Pollers THEN {"loop"} ELSE {"idle"})
      /\ my'[a].job \in {my[a].job, "none", "poll"}
  <2> USE <1>0
  <2>1. ASSUME Ends(a)
        PROVE  pc'[a] \in (IF a \in Pollers THEN {"loop"} ELSE {"idle"}) /\ my'[a].job \in {"none", "poll"}
    BY <2>1 DEF Ends, Goto, Becomes, Rest, Polling
  <2>2. ASSUME NEW step \in Working, NEW v \in Locals, v.job = my[a].job, Dump(a, step, v)
        PROVE  pc'[a] = step /\ my'[a].job = my[a].job
    BY <2>2 DEF Dump, Goto, Becomes, Locals
  <2>3. ASSUME NEW step \in Working, Goto(a, step), UNCHANGED my
        PROVE  pc'[a] = step /\ my'[a].job = my[a].job
    BY <2>3 DEF Goto
  <2>4. CASE CheckBegins(a)
    BY <2>1, <2>4 DEF CheckBegins, Goto, Becomes, Locals, Working
  <2>5. CASE FetchFails(a) \/ DownloadFails(a) \/ Told(a) \/ CheckSaveFails(a)
    BY <2>1, <2>5 DEF FetchFails, DownloadFails, Told, CheckSaveFails, Working
  <2>6. CASE Fetched(a)
    <3>1. ASSUME Dump(a, "checked", [my[a] EXCEPT !.release = LatestRelease(listing), !.kept = section])
          PROVE  pc'[a] = "checked" /\ my'[a].job = my[a].job
      BY <3>1 DEF Dump, Goto, Becomes, Locals
    <3> QED
      BY <2>1, <2>3, <2>6, <3>1 DEF Fetched, Working
  <2>7. CASE Checked(a)
    BY <2>1, <2>2, <2>3, <2>7 DEF Checked, Working
  <2>8. CASE Download(a)
    BY <2>2, <2>8 DEF Download, Working
  <2> QED
    BY <2>4, <2>5, <2>6, <2>7, <2>8 DEF CheckStep
<1>3. \A b \in Threads \ {a} : pc'[b] = pc[b] /\ my'[b] = my[b]
  BY <1>0 DEF CheckStep, CheckBegins, FetchFails, Fetched, Checked, DownloadFails, Download, Told,
              CheckSaveFails, Ends, Dump, Goto, Becomes
<1>4. "changes" \notin overlap' => "changes" \notin overlap
  BY DEF CheckStep, CheckBegins, FetchFails, Fetched, Checked, DownloadFails, Download, Told,
         CheckSaveFails, Dump, history
<1>5. Live' = Live
  BY <1>0, <1>1, <1>2, <1>3 DEF Live, Alive, Working
<1>6. my[a].job \notin Changes /\ my'[a].job \notin Changes
  BY <1>2 DEF PlacesOK, Changes, Working
<1>7. PlacesOK'
  BY <1>2, <1>3, <1>6 DEF PlacesOK, Working
<1>8. PollersOK'
  BY <1>1, <1>2, <1>3, <1>4, <1>5, <1>6 DEF PollersOK, OnTheWay, As, Working
<1> QED
  BY <1>7, <1>8

(* A tap in the panel starts and stops no poller yet. *)
LEMMA TapPollers ==
  ASSUME Typed, Typed', PlacesOK, PollersOK, NEW h \in Handlers, HandlerTap(h)
  PROVE  PlacesOK' /\ PollersOK'
<1>0. /\ pc \in [Threads -> Steps] /\ my \in [Threads -> Locals] /\ h \in Threads /\ h \notin Pollers
      /\ Pollers \subseteq Threads /\ config \in Config /\ section \in 1..Len(heap) /\ heap \in Seq(Config)
      /\ Rest \in Locals
  BY RestType, UpdaterAssumption DEF Typed, LocalsOK, StoreOK, config, Threads
<1>1. /\ UNCHANGED <<thread, stop>> /\ pc[h] = "idle" /\ my[h].job \notin Changes
      /\ \A b \in Threads \ {h} : pc'[b] = pc[b] /\ my'[b] = my[b]
  BY <1>0 DEF HandlerTap, TapCheck, TapInstall, TapSkip, SetMode, SetInterval, ChangeOther, Change, Tap,
              Dump, Goto, Becomes, threads, PlacesOK
<1>2. Live' = Live
  BY <1>0, <1>1 DEF Live, Alive
<1>3. CASE TapCheck(h) \/ TapInstall(h) \/ TapSkip(h)
  <2>1. config'.mode = config.mode /\ ("changes" \notin overlap' => "changes" \notin overlap)
    <3>1. CASE TapSkip(h)
      BY <1>0, <3>1 DEF TapSkip, SetSection, Dump, config, Config
    <3>2. CASE TapCheck(h) \/ TapInstall(h)
      BY <3>2 DEF TapCheck, TapInstall, store, history, config
    <3> QED
      BY <1>3, <3>1, <3>2
  <2>2. \/ pc'[h] = "begin" /\ my'[h].job \in {"check", "install"}
        \/ pc'[h] = "saving" /\ my'[h].job = "skip"
    <3>1. \A v : [Rest EXCEPT !.job = "install", !.release = v].job = "install"
                /\ [Rest EXCEPT !.job = "skip", !.release = v].job = "skip"
                /\ \A c : [[Rest EXCEPT !.job = "skip", !.release = v] EXCEPT !.dump = c].job = "skip"
      BY DEF Rest
    <3>2. CASE TapCheck(h)
      BY <1>0, <3>2 DEF TapCheck, Goto, Becomes, Rest
    <3>3. CASE TapInstall(h)
      BY <1>0, <3>1, <3>3 DEF TapInstall, Goto, Becomes
    <3>4. CASE TapSkip(h)
      BY <1>0, <3>1, <3>4 DEF TapSkip, Dump, Goto, Becomes
    <3> QED
      BY <1>3, <3>2, <3>3, <3>4
  <2> QED
    BY <1>0, <1>1, <1>2, <2>1, <2>2 DEF PlacesOK, PollersOK, OnTheWay, As, Changes
<1>4. ASSUME NEW job \in Changes, Change(h, job), job # "mode" => config' = config
      PROVE  PlacesOK' /\ PollersOK'
  <2> DEFINE w == [Rest EXCEPT !.job = job, !.previous = config]
  <2>1. w \in Locals /\ w.job = job /\ w.previous = config
    BY <1>0, <1>4 DEF Locals, Jobs, Changes
  <2>2. Dump(h, "saving", w)
    BY <1>4 DEF Change
  <2> HIDE DEF w
  <2>3. pc'[h] = "saving" /\ my'[h].job = job /\ my'[h].previous = config
    BY <1>0, <2>1, <2>2 DEF Dump, Goto, Becomes, Locals
  <2>4. "changes" \notin overlap' => "changes" \notin overlap /\ \A b \in Threads : my[b].job \notin Changes
    BY <1>1, <1>4, <2>1, <2>2 DEF Dump
  <2> QED
    BY <1>0, <1>1, <1>2, <1>4, <2>3, <2>4 DEF PlacesOK, PollersOK, OnTheWay, As
<1>5. CASE SetMode(h) \/ SetInterval(h) \/ ChangeOther(h)
  BY <1>4, <1>5 DEF SetMode, SetInterval, ChangeOther, Change, Dump, config, Changes
<1> QED
  BY <1>3, <1>5 DEF HandlerTap

(* A handler in progress starts and stops pollers as the mode says. *)
LEMMA HandlerPollers ==
  ASSUME Typed, Typed', PlacesOK, PollersOK, NEW h \in Handlers, HandlerStep(h)
  PROVE  PlacesOK' /\ PollersOK'
<1>0. /\ pc \in [Threads -> Steps] /\ my \in [Threads -> Locals] /\ h \in Threads /\ h \notin Pollers
      /\ Pollers \subseteq Threads /\ stop \in [Pollers -> BOOLEAN] /\ thread \in Pollers \cup {Nobody}
      /\ Nobody \notin Pollers
  BY UpdaterAssumption DEF Typed, LocalsOK, ThreadsOK, Threads
<1>1. Rest.job = "none" /\ Polling.job = "poll" /\ "none" \notin Changes /\ "poll" \notin Changes
  BY DEF Rest, Polling, Changes
<1>2. CASE HandlerSaved(h) \/ HandlerSaveFails(h) \/ Refresh(h)
  <2>1. UNCHANGED <<thread, stop, overlap>> /\ \A b \in Threads \ {h} : pc'[b] = pc[b] /\ my'[b] = my[b]
    BY <1>0, <1>2 DEF HandlerSaved, HandlerSaveFails, Refresh, Goto, Becomes, threads, history
  <2>2. Live' = Live
    BY <1>0, <2>1 DEF Live, Alive
  <2>3. CASE HandlerSaved(h)
    <3>1. config' = config /\ pc[h] = "saving"
      BY <2>3 DEF HandlerSaved, config
    <3>2. CASE my[h].job \in {"mode", "interval"} /\ pc'[h] = "refresh" /\ UNCHANGED my
      BY <1>0, <2>1, <2>2, <3>1, <3>2 DEF PlacesOK, PollersOK, OnTheWay, As, Changes
    <3>3. CASE my[h].job \notin {"mode", "interval"} /\ pc'[h] = "idle" /\ my'[h] = Rest
      BY <1>0, <1>1, <2>1, <2>2, <3>1, <3>3 DEF PlacesOK, PollersOK, OnTheWay, As, Changes
    <3> QED
      BY <1>0, <2>3, <3>2, <3>3 DEF HandlerSaved, Refreshes, Goto, Becomes
  <2>4. CASE HandlerSaveFails(h)
    <3>1. pc[h] = "saving" /\ pc'[h] = "idle" /\ my'[h] = Rest
      BY <1>0, <2>4 DEF HandlerSaveFails, Goto, Becomes
    <3>2. CASE my[h].job = "skip" /\ UNCHANGED <<heap, section>>
      BY <1>0, <1>1, <2>1, <2>2, <3>1, <3>2 DEF PlacesOK, PollersOK, OnTheWay, As, Changes, config
    <3>3. CASE my[h].job # "skip" /\ heap' = Append(heap, my[h].previous) /\ section' = Len(heap')
      <4>1. config' = my[h].previous
        BY <3>3 DEF Typed, StoreOK, config
      <4> QED
        BY <1>0, <1>1, <2>1, <2>2, <3>1, <3>3, <4>1 DEF PlacesOK, PollersOK, OnTheWay, As
    <3> QED
      BY <2>4, <3>2, <3>3 DEF HandlerSaveFails
  <2>5. CASE Refresh(h)
    <3>1. /\ config' = config /\ pc[h] = "refresh" /\ pc'[h] = "stop"
          /\ my'[h].job = my[h].job /\ my'[h].mode = config.mode
      BY <1>0, <2>5 DEF Refresh, Goto, Becomes, Locals, store, config
    <3> QED
      BY <1>0, <2>1, <2>2, <3>1 DEF PlacesOK, PollersOK, OnTheWay, As, Changes
  <2> QED
    BY <1>2, <2>3, <2>4, <2>5
<1>3. CASE StopPoller(h)
  <2>1. /\ UNCHANGED <<config, thread, overlap>> /\ pc[h] = "stop"
        /\ \A b \in Threads \ {h} : pc'[b] = pc[b] /\ my'[b] = my[b]
        /\ \/ my[h].mode = "disabled" /\ pc'[h] = "idle" /\ my'[h] = Rest
           \/ my[h].mode # "disabled" /\ pc'[h] = "start" /\ my'[h] = my[h]
    BY <1>0, <1>3 DEF StopPoller, Goto, Becomes, store, history, config
  <2>2. Live' = Live \ {thread}
    BY <1>0, <1>3, <2>1 DEF StopPoller, Live, Alive
  <2> QED
    BY <1>0, <1>1, <2>1, <2>2 DEF PlacesOK, PollersOK, OnTheWay, As, Changes
<1>4. CASE StartPoller(h)
  <2>1. UNCHANGED <<config, overlap>> /\ pc[h] = "start" /\ my[h].job \in Changes
    BY <1>0, <1>4 DEF StartPoller, store, history, config, PlacesOK, Changes
  <2>2. CASE (config.mode = "disabled" \/ HasPoller) /\ Goto(h, "idle") /\ Becomes(h, Rest) /\ UNCHANGED <<thread, stop>>
    <3>1. pc'[h] = "idle" /\ my'[h] = Rest /\ \A b \in Threads \ {h} : pc'[b] = pc[b] /\ my'[b] = my[b]
      BY <1>0, <2>2 DEF Goto, Becomes
    <3>2. "changes" \in overlap
      BY <1>0, <2>1, <2>2 DEF PollersOK, OnTheWay, HasPoller, Live
    <3> QED
      BY <1>1, <2>1, <3>1, <3>2 DEF PlacesOK, PollersOK
  <2>3. ASSUME NEW p \in Pollers, ~Alive(p), config.mode # "disabled",
               thread' = p, stop' = [stop EXCEPT ![p] = FALSE],
               pc' = [pc EXCEPT ![h] = "idle", ![p] = "loop"],
               my' = [my EXCEPT ![h] = Rest, ![p] = Polling]
        PROVE  PlacesOK' /\ PollersOK'
    <3>1. /\ pc'[h] = "idle" /\ my'[h] = Rest /\ pc'[p] = "loop" /\ my'[p] = Polling
          /\ \A b \in Threads \ {h, p} : pc'[b] = pc[b] /\ my'[b] = my[b]
      BY <1>0, <2>3
    <3>2. Live' = Live \cup {p}
      BY <1>0, <2>3, <3>1 DEF Live, Alive
    <3>3. PlacesOK'
      BY <1>1, <3>1 DEF PlacesOK
    <3>4. ASSUME "changes" \notin overlap
          PROVE  /\ Live = {} /\ \A b \in Threads \ {h} : my[b].job \notin Changes
      BY <1>0, <2>1, <3>4 DEF PollersOK, OnTheWay
    <3> QED
      BY <1>0, <1>1, <2>1, <2>3, <3>1, <3>2, <3>3, <3>4 DEF PollersOK, As
  <2> QED
    BY <1>4, <2>2, <2>3 DEF StartPoller
<1> QED
  BY <1>2, <1>3, <1>4 DEF HandlerStep

(* One step, of whichever thread, on the pollers. *)
LEMMA PollersStep == Typed /\ Typed' /\ PlacesOK /\ PollersOK /\ [Next]_vars => PlacesOK' /\ PollersOK'
<1> SUFFICES ASSUME Typed, Typed', PlacesOK, PollersOK, [Next]_vars
             PROVE  PlacesOK' /\ PollersOK'
  OBVIOUS
<1>1. ASSUME NEW p \in Pollers, PollerLoops(p)
      PROVE  PlacesOK' /\ PollersOK'
  <2>0. pc \in [Threads -> Steps] /\ Pollers \subseteq Threads
    BY DEF Typed, LocalsOK, Threads
  <2>1. /\ UNCHANGED <<config, thread, stop, overlap, my>> /\ pc[p] = "loop"
        /\ pc'[p] = IF stop[p] THEN "ended" ELSE "begin"
        /\ \A b \in Threads \ {p} : pc'[b] = pc[b]
    BY <1>1, <2>0 DEF PollerLoops, Goto, store, threads, history, config
  <2>2. Live' = Live
    BY <2>0, <2>1 DEF Live, Alive
  <2>3. my[p].job \notin Changes
    BY <2>0, <2>1 DEF PlacesOK
  <2> QED
    BY <2>0, <2>1, <2>2, <2>3 DEF PlacesOK, PollersOK, OnTheWay, As
<1>2. CASE Publish \/ Withdraw \/ UNCHANGED vars
  <2>1. UNCHANGED <<config, thread, stop, overlap, my, pc>>
    BY <1>2 DEF Publish, Withdraw, vars, store, threads, history, config
  <2> QED
    BY <2>1 DEF PlacesOK, PollersOK, OnTheWay, As, Live, Alive
<1>3. CASE Restart
  <2>1. /\ file \in Config /\ config' = file /\ thread' = BootThread(file)
        /\ pc' = BootPC(file) /\ my' = BootMy(file) /\ stop' = [p \in Pollers |-> FALSE]
    BY <1>3 DEF Restart, config, Typed, StoreOK
  <2>2. Live' = {p \in Pollers : BootPC(file)[p] \notin {"unborn", "ended"}}
    BY <2>1 DEF Live, Alive
  <2>3. As(config.mode)'
    BY <2>1, <2>2, BootLive DEF As
  <2> QED
    BY <2>1, <2>3, BootLive DEF PlacesOK, PollersOK, Changes
<1> QED
  BY <1>1, <1>2, <1>3, CheckPollers, TapPollers, HandlerPollers DEF Next

(* When no handler is changing settings, one poller will go on if the mode asks *)
(* for one and none otherwise, unless two handlers were changing them at once,  *)
(* whatever saves fail and restarts happen.                                   *)
THEOREM PollersFollow == Spec => []PollersAsTheModeSays
<1>1. Init => PlacesOK /\ PollersOK
  <2> SUFFICES ASSUME Init
               PROVE  PlacesOK /\ PollersOK
    OBVIOUS
  <2>1. /\ config \in Config /\ thread = BootThread(config)
        /\ pc = BootPC(config) /\ my = BootMy(config) /\ stop = [p \in Pollers |-> FALSE]
    BY InitType DEF Init, Typed, StoreOK, config
  <2>2. Live = {p \in Pollers : BootPC(config)[p] \notin {"unborn", "ended"}}
    BY <2>1 DEF Live, Alive
  <2>3. As(config.mode)
    BY <2>1, <2>2, BootLive DEF As
  <2> QED
    BY <2>1, <2>3, BootLive DEF PlacesOK, PollersOK, Changes
<1>2. Typed /\ PlacesOK /\ PollersOK => PollersAsTheModeSays
  <2> SUFFICES ASSUME Typed, PlacesOK, PollersOK,
                      \A h \in Handlers : my[h].job \notin Changes, "changes" \notin overlap
               PROVE  Cardinality(Live) = IF config.mode = "disabled" THEN 0 ELSE 1
    BY DEF PollersAsTheModeSays, Live
  <2>1. \A p \in Pollers : my[p].job \notin Changes
    BY DEF PlacesOK, Changes, Threads
  <2>2. As(config.mode)
    BY <2>1 DEF PollersOK, Threads
  <2> QED
    BY <2>2, FS_EmptySet, FS_Singleton DEF As
<1> QED
  BY <1>1, <1>2, InitType, StepType, PollersStep, PTL DEF Spec
-----------------------------------------------------------------------------
(* Questions about a release. *)

(* GitHub lists a release of a version, and a later release that is looked at in its place. *)
Listed(v) == \E i \in DOMAIN listing : listing[i].version = v /\ listing[i].public
Past(v) == \E i, j \in DOMAIN listing : i < j /\ listing[i].public /\ listing[j].version = v

(* Whether the settings, or a later release, keep the version from being asked about. *)
Closed(v) == config.notified = v \/ Past(v)

(* What a check knows that holds release v and judges it, or is about to ask about it. *)
AskingOK(a) ==
  LET v == my[a].release
      q == asked[v]
  IN  /\ pc[a] \in {"checked", "notified"} => \A w \in Versions \ {v} : asked[w] > losses => Past(w)
      /\ pc[a] = "checked" /\ my[a].job = "poll" /\ heap[my[a].kept].notified # v =>
            q <= losses /\ (q = losses => my[a].kept = section /\ Listed(v))
      /\ pc[a] = "notified" /\ my[a].job = "poll" =>
            q <= losses /\ (q = losses => config.notified = v /\ Listed(v))

AskInv ==
  /\ asked \in [Versions -> Nat]
  /\ \A i, j \in DOMAIN listing : listing[i].version = listing[j].version => i = j
  /\ \A v \in Versions : /\ asked[v] <= 1 + losses
                         /\ asked[v] > losses => Listed(v) /\ Closed(v)
  /\ \A a \in Threads : AskingOK(a)

(* The first public release of a list is its own, and no public one comes before it. *)
LEMMA LatestIsFirst ==
  ASSUME NEW s \in Seq(Release), LatestRelease(s) # NoVersion
  PROVE  \E n \in DOMAIN s : /\ s[n].version = LatestRelease(s) /\ s[n].public
                             /\ \A i \in DOMAIN s : s[i].public => n <= i
<1> DEFINE I == {i \in 1..Len(s) : s[i].public}
<1>1. FirstPublic(s) = IF I # {} THEN Min(I) ELSE 0
  BY DEF FirstPublic, SelectInSeq
<1>2. FirstPublic(s) # 0 /\ LatestRelease(s) = s[FirstPublic(s)].version
  BY DEF LatestRelease
<1>3. I \in SUBSET Nat /\ I # {} /\ FirstPublic(s) = Min(I)
  BY <1>1, <1>2
<1>4. Min(I) \in I /\ \A i \in I : Min(I) <= i
  BY <1>3, LeastNatural DEF Min
<1>5. PICK n : n = Min(I)
  OBVIOUS
<1>6. DOMAIN s = 1..Len(s) /\ LatestRelease(s) = s[n].version
  BY <1>2, <1>3, <1>5, LenProperties
<1>7. n \in DOMAIN s /\ s[n].public
  <2>1. n \in I
    BY <1>4, <1>5
  <2> QED
    BY <1>6, <2>1
<1>8. \A i \in DOMAIN s : s[i].public => n <= i
  <2>1. \A i \in I : n <= i
    BY <1>4, <1>5
  <2> QED
    BY <1>6, <2>1
<1> HIDE DEF I
<1> QED
  BY <1>6, <1>7, <1>8

(* A step that makes no difference to what was asked. *)
LEMMA AskFrame ==
  ASSUME Typed, Typed', AskInv, UNCHANGED <<listing, asked, losses, section>>,
         \A i \in DOMAIN heap : i \in DOMAIN heap' /\ heap'[i].notified = heap[i].notified,
         \A b \in Threads : pc'[b] \in {"checked", "notified"} => pc'[b] = pc[b] /\ my'[b] = my[b]
  PROVE  AskInv'
<1>1. config'.notified = config.notified
  BY DEF Typed, StoreOK, config
<1>2. \A v : /\ Listed(v)' <=> Listed(v)
             /\ Past(v)' <=> Past(v)
             /\ Closed(v)' <=> Closed(v)
  BY <1>1 DEF Listed, Past, Closed
<1>3. losses' = losses
  OBVIOUS
<1>4. ASSUME NEW a \in Threads
      PROVE  AskingOK(a)'
  <2>1. pc'[a] = "checked" => heap'[my'[a].kept].notified = heap[my[a].kept].notified
    BY DEF Typed, LocalsOK, StoreOK, Suits
  <2> QED
    BY <1>1, <1>2, <1>3, <2>1 DEF AskInv, AskingOK
<1> QED
  BY <1>2, <1>3, <1>4 DEF AskInv

(* A loss pays for one question. *)
LEMMA AskLoss ==
  ASSUME Typed, Typed', AskInv, UNCHANGED asked, losses' = losses + 1,
         \A i, j \in DOMAIN listing' : listing'[i].version = listing'[j].version => i = j,
         \A b \in Threads : pc'[b] \in {"checked", "notified"} =>
            /\ pc'[b] = pc[b] /\ my'[b] = my[b]
            /\ \A i \in DOMAIN heap : heap'[i] = heap[i]
  PROVE  AskInv'
<1>1. losses \in Nat
  BY DEF Typed, CountsOK
<1>2. ASSUME NEW v \in Versions
      PROVE  asked'[v] <= losses'
  BY <1>1 DEF AskInv
<1>3. ASSUME NEW a \in Threads
      PROVE  AskingOK(a)'
  <2>1. pc'[a] = "checked" => heap'[my'[a].kept].notified = heap[my[a].kept].notified
    BY DEF Typed, LocalsOK, StoreOK, Suits
  <2>2. pc'[a] \in {"checked", "notified"} => my[a].release \in Versions
    BY DEF Typed, LocalsOK, Suits, Working
  <2>3. \A w \in Versions : asked[w] \in Nat
    BY DEF AskInv
  <2>4. (pc'[a] = "checked" /\ my'[a].job = "poll" /\ heap'[my'[a].kept].notified # my'[a].release)
           \/ (pc'[a] = "notified" /\ my'[a].job = "poll")
          => asked'[my'[a].release] < losses'
    <3>1. ASSUME \/ pc'[a] = "checked" /\ my'[a].job = "poll" /\ heap'[my'[a].kept].notified # my'[a].release
                 \/ pc'[a] = "notified" /\ my'[a].job = "poll"
          PROVE  asked[my[a].release] <= losses
      BY <2>1, <3>1 DEF AskInv, AskingOK
    <3> QED
      BY <1>1, <2>2, <2>3, <3>1
  <2>5. \A w \in Versions : ~(asked'[w] > losses')
    BY <1>1, <1>2, <2>3
  <2>6. pc'[a] \in {"checked", "notified"} => asked'[my'[a].release] \in Nat /\ losses' \in Nat
    BY <1>1, <2>2, <2>3
  <2> QED
    BY <2>4, <2>5, <2>6 DEF AskingOK
<1> QED
  BY <1>1, <1>2, <1>3 DEF AskInv

(* The check that goes on is the only one. *)
LEMMA AloneAtCheck ==
  ASSUME Typed, Solo, NEW a \in Threads, pc[a] \in Working, NEW b \in Threads, b # a
  PROVE  pc[b] \notin {"checked", "notified"}
BY DEF Solo, Working

(* A check finds the latest release. *)
LEMMA AskFetched ==
  ASSUME Typed, Typed', Solo, AskInv, NEW a \in Threads, Fetched(a)
  PROVE  AskInv'
<1>0. pc \in [Threads -> Steps] /\ my \in [Threads -> Locals]
  BY DEF Typed, LocalsOK
<1>1. UNCHANGED <<listing, asked, losses, section, heap>>
  BY DEF Fetched, store, world, counts
<1>2. \A b \in Threads \ {a} : pc'[b] = pc[b] /\ my'[b] = my[b]
  BY <1>0 DEF Fetched, Ends, Dump, Goto, Becomes
<1>3. CASE pc'[a] # "checked"
  <2>1. pc'[a] # "notified"
    BY <1>0 DEF Fetched, Ends, Dump, Goto
  <2> QED
    BY <1>1, <1>2, <1>3, <2>1, AskFrame
<1>4. CASE pc'[a] = "checked"
  <2> DEFINE v == LatestRelease(listing)
  <2>1. v # NoVersion /\ Dump(a, "checked", [my[a] EXCEPT !.release = v, !.kept = section])
    BY <1>0, <1>4 DEF Fetched, Ends, Goto
  <2>2. my'[a].release = v /\ my'[a].kept = section /\ my'[a].job = my[a].job
    <3>1. /\ [[my[a] EXCEPT !.release = v, !.kept = section] EXCEPT !.dump = config'].release = v
          /\ [[my[a] EXCEPT !.release = v, !.kept = section] EXCEPT !.dump = config'].kept = section
          /\ [[my[a] EXCEPT !.release = v, !.kept = section] EXCEPT !.dump = config'].job = my[a].job
      BY <1>0 DEF Locals
    <3> QED
      BY <1>0, <2>1, <3>1 DEF Dump, Becomes
  <2>3. listing \in Seq(Release)
    BY DEF Typed, WorldOK
  <2>4. PICK n \in DOMAIN listing : /\ listing[n].version = v /\ listing[n].public
                                    /\ \A i \in DOMAIN listing : listing[i].public => n <= i
    BY <2>1, <2>3, LatestIsFirst
  <2>5. v \in Versions
    <3>1. \A r \in Release : r.version \in Versions
      BY DEF Release
    <3>2. listing[n] \in Release
      BY <2>3, <2>4, ElementOfSeq, LenProperties
    <3> QED
      BY <2>4, <3>1, <3>2
  <2> HIDE DEF v
  <2>6. Listed(v)
    BY <2>4 DEF Listed
  <2>7. \A w \in Versions \ {v} : asked[w] > losses => Past(w)
    <3> SUFFICES ASSUME NEW w \in Versions, w # v, asked[w] > losses
                 PROVE  Past(w)
      OBVIOUS
    <3>1. PICK j \in DOMAIN listing : listing[j].version = w /\ listing[j].public
      BY DEF AskInv, Listed
    <3>2. n < j
      BY <2>3, <2>4, <3>1
    <3> QED
      BY <2>4, <3>1, <3>2 DEF Past
  <2>8. ~Past(v)
    <3> SUFFICES ASSUME NEW i \in DOMAIN listing, NEW j \in DOMAIN listing,
                        i < j, listing[i].public, listing[j].version = v
                 PROVE  FALSE
      BY DEF Past
    <3>1. j = n
      BY <2>4 DEF AskInv
    <3> QED
      BY <2>3, <2>4, <3>1
  <2>9. \A w : /\ Listed(w)' <=> Listed(w)
               /\ Past(w)' <=> Past(w)
               /\ Closed(w)' <=> Closed(w)
    BY <1>1 DEF Listed, Past, Closed, config
  <2>10. losses' = losses /\ losses \in Nat /\ asked[v] \in Nat
    BY <1>1, <2>5 DEF AskInv, Typed, CountsOK
  <2>11. AskingOK(a)'
    <3>1. heap[section].notified # v => asked[v] <= losses
      BY <2>5, <2>8, <2>10 DEF AskInv, Closed, config
    <3> QED
      BY <1>1, <1>4, <2>2, <2>6, <2>7, <2>9, <2>10, <3>1 DEF AskingOK
  <2>12. \A b \in Threads \ {a} : AskingOK(b)'
    <3>1. pc[a] \in Working
      BY DEF Fetched, Working
    <3> QED
      BY <1>2, <3>1, AloneAtCheck DEF AskingOK
  <2> QED
    BY <1>1, <2>9, <2>10, <2>11, <2>12 DEF AskInv
<1> QED
  BY <1>3, <1>4

(* A check judges the release, and is about to ask. *)
LEMMA AskChecked ==
  ASSUME Typed, Typed', Solo, AskInv, NEW a \in Threads, Checked(a)
  PROVE  AskInv'
<1> DEFINE v == my[a].release
<1> DEFINE k == my[a].kept
<1>0. /\ pc \in [Threads -> Steps] /\ my \in [Threads -> Locals] /\ heap \in Seq(Config)
      /\ v \in Versions /\ k \in DOMAIN heap /\ section \in DOMAIN heap /\ pc[a] = "checked"
  BY DEF Typed, LocalsOK, StoreOK, Checked, Suits, Working
<1>1. UNCHANGED <<listing, asked, losses, section>>
  BY DEF Checked, world
<1>2. \A b \in Threads \ {a} : pc'[b] = pc[b] /\ my'[b] = my[b]
  BY <1>0 DEF Checked, Ends, Dump, Goto, Becomes
<1>3. CASE pc'[a] # "notified"
  <2>1. pc'[a] # "checked" /\ UNCHANGED heap
    BY <1>0, <1>3 DEF Checked, Ends, Dump, Goto
  <2> QED
    BY <1>1, <1>2, <1>3, <2>1, AskFrame
<1>4. CASE pc'[a] = "notified"
  <2>1. /\ ShouldOffer(running, heap[k], v, my[a].job = "check")
        /\ heap' = [heap EXCEPT ![k] = [heap[k] EXCEPT !.notified = v]]
        /\ Dump(a, "notified", my[a])
    BY <1>0, <1>4 DEF Checked, Ends, Goto, SetSection
  <2>2. my'[a].release = v /\ my'[a].job = my[a].job
    <3>1. /\ [my[a] EXCEPT !.dump = config'].release = v
          /\ [my[a] EXCEPT !.dump = config'].job = my[a].job
      BY <1>0 DEF Locals
    <3> QED
      BY <1>0, <2>1, <3>1 DEF Dump, Becomes
  <2>3. heap'[k].notified = v /\ \A i \in DOMAIN heap \ {k} : heap'[i] = heap[i]
    <3>1. heap[k] \in Config
      BY <1>0
    <3>2. [heap[k] EXCEPT !.notified = v].notified = v
      BY <3>1 DEF Config
    <3> QED
      BY <1>0, <2>1, <3>2
  <2>4. config'.notified = IF k = section THEN v ELSE config.notified
    BY <1>0, <1>1, <2>3 DEF config
  <2>5. my[a].job = "poll" => heap[k].notified # v
    BY <2>1 DEF ShouldOffer
  <2>6. \A w \in Versions \ {v} : asked[w] > losses => Past(w)
    BY <1>0 DEF AskInv, AskingOK
  <2>7. my[a].job = "poll" => asked[v] <= losses /\ (asked[v] = losses => k = section /\ Listed(v))
    BY <1>0, <2>5 DEF AskInv, AskingOK
  <2> HIDE DEF v, k
  <2>8. \A w : (Listed(w)' <=> Listed(w)) /\ (Past(w)' <=> Past(w))
    BY <1>1 DEF Listed, Past
  <2>9. losses' = losses /\ losses \in Nat /\ asked \in [Versions -> Nat]
    BY <1>1 DEF AskInv, Typed, CountsOK
  <2>10. AskingOK(a)'
    BY <1>1, <1>4, <2>2, <2>4, <2>6, <2>7, <2>8, <2>9 DEF AskingOK
  <2>11. \A b \in Threads \ {a} : AskingOK(b)'
    <3>1. pc[a] \in Working
      BY <1>0 DEF Working
    <3> QED
      BY <1>2, <3>1, AloneAtCheck DEF AskingOK
  <2>12. ASSUME NEW w \in Versions, asked[w] > losses
         PROVE  Listed(w)' /\ Closed(w)'
    <3>1. CASE w = v
      BY <1>0, <2>4, <2>8, <2>9, <2>12, <3>1 DEF AskInv, Closed
    <3>2. CASE w # v
      <4>1. Past(w) /\ Listed(w)
        BY <2>6, <2>12, <3>2 DEF AskInv
      <4> QED
        BY <2>8, <4>1 DEF Closed
    <3> QED
      BY <3>1, <3>2
  <2> QED
    BY <1>1, <2>8, <2>9, <2>10, <2>11, <2>12 DEF AskInv
<1> QED
  BY <1>3, <1>4

(* The administrators are asked. *)
LEMMA AskTold ==
  ASSUME Typed, Typed', Solo, AskInv, NEW a \in Threads, Told(a)
  PROVE  AskInv'
<1> DEFINE v == my[a].release
<1>0. /\ pc \in [Threads -> Steps] /\ my \in [Threads -> Locals]
      /\ pc[a] \in {"installed", "notified"} /\ v \in Versions /\ pc[a] \in Working
  BY DEF Typed, LocalsOK, Told, Suits, Working
<1>1. UNCHANGED <<listing, losses, section, heap>>
  BY DEF Told
<1>2. \A b \in Threads \ {a} : pc'[b] = pc[b] /\ my'[b] = my[b]
  BY <1>0 DEF Told, Ends, Goto, Becomes
<1>3. pc'[a] \notin {"checked", "notified"}
  BY <1>0 DEF Told, Ends, Goto
<1>4. CASE ~(pc[a] = "notified" /\ my[a].job = "poll")
  <2>1. UNCHANGED asked
    BY <1>4 DEF Told
  <2> QED
    BY <1>1, <1>2, <1>3, <2>1, AskFrame
<1>5. CASE pc[a] = "notified" /\ my[a].job = "poll"
  <2>1. asked' = [asked EXCEPT ![v] = @ + 1]
    BY <1>5 DEF Told
  <2>2. asked[v] <= losses /\ (asked[v] = losses => config.notified = v /\ Listed(v))
    BY <1>5 DEF AskInv, AskingOK
  <2> HIDE DEF v
  <2>3. \A w : /\ Listed(w)' <=> Listed(w)
               /\ Past(w)' <=> Past(w)
               /\ Closed(w)' <=> Closed(w)
    BY <1>1 DEF Listed, Past, Closed, config
  <2>4. losses' = losses /\ losses \in Nat /\ asked \in [Versions -> Nat]
    BY <1>1 DEF AskInv, Typed, CountsOK
  <2>5. asked' \in [Versions -> Nat] /\ asked'[v] = asked[v] + 1
    BY <1>0, <2>1, <2>4
  <2>6. ASSUME NEW w \in Versions
        PROVE  /\ asked'[w] <= 1 + losses
               /\ asked'[w] > losses => Listed(w) /\ Closed(w)
    <3>1. CASE w = v
      BY <2>2, <2>4, <2>5, <3>1 DEF Closed
    <3>2. CASE w # v
      BY <2>1, <2>4, <3>2 DEF AskInv
    <3> QED
      BY <3>1, <3>2
  <2>7. \A b \in Threads : AskingOK(b)'
    BY <1>0, <1>2, <1>3, AloneAtCheck DEF AskingOK
  <2> QED
    BY <1>1, <2>3, <2>4, <2>5, <2>6, <2>7 DEF AskInv
<1> QED
  BY <1>4, <1>5

(* A release that is published is put before the others. *)
LEMMA Published ==
  ASSUME Typed, Publish
  PROVE  \E r \in Catalog :
            /\ \A i \in DOMAIN listing : listing[i].version # r.version
            /\ DOMAIN listing' = 1..(Len(listing) + 1) /\ listing'[1] = r
            /\ \A i \in DOMAIN listing : i + 1 \in DOMAIN listing' /\ listing'[i + 1] = listing[i]
            /\ \A i \in DOMAIN listing' \ {1} : i - 1 \in DOMAIN listing /\ listing'[i] = listing[i - 1]
<1>1. PICK r \in Catalog : /\ \A i \in DOMAIN listing : listing[i].version # r.version
                           /\ listing' = <<r>> \o listing
  BY DEF Publish
<1>2. listing \in Seq(Release) /\ r \in Release
  BY <1>1, UpdaterAssumption DEF Typed, WorldOK
<1>3. /\ DOMAIN listing' = 1..(Len(listing) + 1) /\ listing'[1] = r
      /\ \A i \in DOMAIN listing : i + 1 \in DOMAIN listing' /\ listing'[i + 1] = listing[i]
      /\ \A i \in DOMAIN listing' \ {1} : i - 1 \in DOMAIN listing /\ listing'[i] = listing[i - 1]
  BY <1>1, <1>2
<1> QED
  BY <1>1, <1>3

(* What was listed stays listed then, and what was past stays past. *)
LEMMA PublishKeeps ==
  ASSUME Typed, Publish
  PROVE  /\ \A v : Listed(v) => Listed(v)'
         /\ \A v : Past(v) => Past(v)'
<1>1. \A i \in DOMAIN listing : i + 1 \in DOMAIN listing' /\ listing'[i + 1] = listing[i]
  BY Published
<1>2. \A v : Listed(v) => Listed(v)'
  BY <1>1 DEF Listed
<1>3. \A v : Past(v) => Past(v)'
  <2> SUFFICES ASSUME NEW v, NEW i \in DOMAIN listing, NEW j \in DOMAIN listing,
                      i < j, listing[i].public, listing[j].version = v
               PROVE  Past(v)'
    BY DEF Past
  <2>0. i \in Nat /\ j \in Nat
    BY DEF Typed, WorldOK
  <2>1. i + 1 < j + 1 /\ listing'[i + 1].public /\ listing'[j + 1].version = v
    BY <1>1, <2>0
  <2> QED
    BY <1>1, <2>1 DEF Past
<1> QED
  BY <1>2, <1>3

(* Another release is published, of a version that was not listed. *)
LEMMA AskPublish ==
  ASSUME Typed, Typed', AskInv, Publish
  PROVE  AskInv'
<1>1. PICK r \in Catalog :
         /\ \A i \in DOMAIN listing : listing[i].version # r.version
         /\ DOMAIN listing' = 1..(Len(listing) + 1) /\ listing'[1] = r
         /\ \A i \in DOMAIN listing' \ {1} : i - 1 \in DOMAIN listing /\ listing'[i] = listing[i - 1]
  BY Published
<1>2. listing \in Seq(Release)
  BY DEF Typed, WorldOK
<1>3. \A i, j \in DOMAIN listing' : listing'[i].version = listing'[j].version => i = j
  BY <1>1, <1>2 DEF AskInv
<1>4. UNCHANGED <<heap, section, pc, my, asked, losses>>
  BY DEF Publish, store, history, counts
<1>5. \A v : (Listed(v) => Listed(v)') /\ (Past(v) => Past(v)') /\ (Closed(v) => Closed(v)')
  BY <1>4, PublishKeeps DEF Closed, config
<1>6. \A a \in Threads : AskingOK(a)'
  BY <1>4, <1>5 DEF AskInv, AskingOK, config
<1> QED
  BY <1>3, <1>4, <1>5, <1>6 DEF AskInv

(* A release is withdrawn. *)
LEMMA AskWithdraw ==
  ASSUME Typed, Typed', AskInv, Withdraw
  PROVE  AskInv'
<1>1. PICK k \in DOMAIN listing : listing' = [listing EXCEPT ![k].public = FALSE]
  BY DEF Withdraw
<1>2. \A i \in DOMAIN listing : listing[i] \in Release
  BY DEF Typed, WorldOK
<1>3. /\ DOMAIN listing' = DOMAIN listing
      /\ \A i \in DOMAIN listing : listing'[i].version = listing[i].version
  BY <1>1, <1>2 DEF Release
<1>4. \A i, j \in DOMAIN listing' : listing'[i].version = listing'[j].version => i = j
  BY <1>3 DEF AskInv
<1>5. UNCHANGED <<heap, pc, my, asked>> /\ losses' = losses + 1
  BY DEF Withdraw, store
<1> QED
  BY <1>4, <1>5, AskLoss

(* While no two threads have been saving at once, the file too keeps a version  *)
(* from being asked about.                                                    *)
NotedOK ==
  "saves" \notin overlap =>
    \A v \in Versions : asked[v] > losses => file.notified = v \/ Past(v)

(* The program starts again: on a file with the note, or with a loss. *)
LEMMA AskRestart ==
  ASSUME Typed, Typed', AskInv, NotedOK, Restart
  PROVE  AskInv'
<1>1. UNCHANGED <<listing, asked, file>> /\ config' = file
  BY DEF Restart, config, Typed, StoreOK
<1>2. \A b \in Threads : pc'[b] \notin {"checked", "notified"}
  BY DEF Restart, BootPC
<1>3. CASE NoteIsLost
  <2>1. losses' = losses + 1
    BY <1>3 DEF Restart
  <2>2. \A i, j \in DOMAIN listing' : listing'[i].version = listing'[j].version => i = j
    BY <1>1 DEF AskInv
  <2> QED
    BY <1>1, <1>2, <2>1, <2>2, AskLoss
<1>4. CASE ~NoteIsLost
  <2>1. losses' = losses /\ losses \in Nat
    BY <1>4 DEF Restart, Typed, CountsOK
  <2>2. \A v : (Listed(v)' <=> Listed(v)) /\ (Past(v)' <=> Past(v))
    BY <1>1 DEF Listed, Past
  <2>3. ASSUME NEW v \in Versions, asked[v] > losses
        PROVE  file.notified = v \/ Past(v)
    <3>1. CASE "saves" \notin overlap
      BY <2>3, <3>1 DEF NotedOK
    <3>2. CASE "saves" \in overlap
      <4>1. asked[v] > 0
        BY <2>1, <2>3 DEF AskInv
      <4>2. config.notified = v \/ Past(v)
        BY <2>3 DEF AskInv, Closed
      <4>3. config.notified = v => file.notified = v
        BY <1>4, <3>2, <4>1 DEF NoteIsLost
      <4> QED
        BY <4>2, <4>3
    <3> QED
      BY <3>1, <3>2
  <2>4. \A v \in Versions : asked'[v] > losses' => Listed(v)' /\ Closed(v)'
    BY <1>1, <2>1, <2>2, <2>3 DEF AskInv, Closed
  <2>5. \A a \in Threads : AskingOK(a)'
    BY <1>2 DEF AskingOK
  <2> QED
    BY <1>1, <2>1, <2>4, <2>5 DEF AskInv
<1> QED
  BY <1>3, <1>4

(* What a step of a handler or a tap leaves of the section. *)
LEMMA NotifiedKept ==
  ASSUME Typed, NEW c \in Config, c.notified = config.notified, SetSection(section, c)
  PROVE  \A i \in DOMAIN heap : i \in DOMAIN heap' /\ heap'[i].notified = heap[i].notified
BY DEF Typed, StoreOK, SetSection, config

(* One step, on what was asked. *)
LEMMA AskStep == Typed /\ Typed' /\ Solo /\ AskInv /\ NotedOK /\ [Next]_vars => AskInv'
<1> SUFFICES ASSUME Typed, Typed', Solo, AskInv, NotedOK, [Next]_vars
             PROVE  AskInv'
  OBVIOUS
<1>0. /\ pc \in [Threads -> Steps] /\ my \in [Threads -> Locals]
      /\ Handlers \subseteq Threads /\ Pollers \subseteq Threads
      /\ heap \in Seq(Config) /\ section \in DOMAIN heap /\ config \in Config
  BY DEF Typed, LocalsOK, StoreOK, Threads, config
<1>1. ASSUME NEW a \in Threads, CheckStep(a)
      PROVE  AskInv'
  <2>1. CASE CheckBegins(a) \/ FetchFails(a) \/ DownloadFails(a) \/ CheckSaveFails(a)
    <3>1. UNCHANGED <<listing, asked, losses, section, heap>>
      BY <2>1 DEF CheckBegins, FetchFails, DownloadFails, CheckSaveFails, store, world, counts, history
    <3>2. \A b \in Threads : pc'[b] \in {"checked", "notified"} => pc'[b] = pc[b] /\ my'[b] = my[b]
      BY <1>0, <2>1 DEF CheckBegins, FetchFails, DownloadFails, CheckSaveFails, Ends, Goto, Becomes
    <3> QED
      BY <3>1, <3>2, AskFrame
  <2>2. CASE Download(a)
    <3> DEFINE c == [config EXCEPT !.installed = my[a].release,
                                   !.skipped = IF @ = my[a].release THEN NoVersion ELSE @]
    <3>1. UNCHANGED <<listing, asked, losses, section>> /\ SetSection(section, c)
      BY <2>2 DEF Download, Dump, counts
    <3>2. c.notified = config.notified
      BY <1>0 DEF Config
    <3>3. heap' = [heap EXCEPT ![section] = c]
      BY <3>1 DEF SetSection
    <3>4. \A i \in DOMAIN heap : i \in DOMAIN heap' /\ heap'[i].notified = heap[i].notified
      <4> HIDE DEF c
      <4> QED
        BY <1>0, <3>2, <3>3 DEF config
    <3>5. \A b \in Threads : pc'[b] \in {"checked", "notified"} => pc'[b] = pc[b] /\ my'[b] = my[b]
      BY <1>0, <2>2 DEF Download, Dump, Goto, Becomes
    <3> QED
      BY <3>1, <3>4, <3>5, AskFrame
  <2> QED
    BY <1>1, <2>1, <2>2, AskFetched, AskChecked, AskTold DEF CheckStep
<1>2. ASSUME NEW p \in Pollers, PollerLoops(p)
      PROVE  AskInv'
  <2>1. UNCHANGED <<listing, asked, losses, section, heap>>
    BY <1>2 DEF PollerLoops, store, world, counts, history
  <2>2. \A b \in Threads : pc'[b] \in {"checked", "notified"} => pc'[b] = pc[b] /\ my'[b] = my[b]
    BY <1>0, <1>2 DEF PollerLoops, Goto
  <2> QED
    BY <2>1, <2>2, AskFrame
<1>3. ASSUME NEW h \in Handlers, HandlerTap(h)
      PROVE  AskInv'
  <2>1. UNCHANGED <<listing, asked, losses, section>>
    BY <1>3 DEF HandlerTap, TapCheck, TapInstall, TapSkip, SetMode, SetInterval, ChangeOther, Change,
                Dump, store, world, counts, history
  <2>2. \A b \in Threads : pc'[b] \in {"checked", "notified"} => pc'[b] = pc[b] /\ my'[b] = my[b]
    BY <1>0, <1>3 DEF HandlerTap, TapCheck, TapInstall, TapSkip, SetMode, SetInterval, ChangeOther, Change,
                      Dump, Goto, Becomes
  <2>3. CASE UNCHANGED heap
    BY <2>1, <2>2, <2>3, AskFrame
  <2>4. CASE \E c \in Config : c.notified = config.notified /\ SetSection(section, c)
    BY <2>1, <2>2, <2>4, NotifiedKept, AskFrame
  <2>5. ASSUME TapSkip(h)
        PROVE  \E c \in Config : c.notified = config.notified /\ SetSection(section, c)
    <3>1. PICK v \in offered : SetSection(section, [config EXCEPT !.skipped = v])
      BY <2>5 DEF TapSkip
    <3>2. v \in Version
      BY DEF Typed, WorldOK, Version
    <3>3. [config EXCEPT !.skipped = v] \in Config /\ [config EXCEPT !.skipped = v].notified = config.notified
      BY <1>0, <3>2 DEF Config
    <3> QED
      BY <3>1, <3>3
  <2>6. ASSUME SetMode(h)
        PROVE  \E c \in Config : c.notified = config.notified /\ SetSection(section, c)
    <3>1. PICK m \in Modes : SetSection(section, [config EXCEPT !.mode = m])
      BY <2>6 DEF SetMode
    <3>2. [config EXCEPT !.mode = m] \in Config /\ [config EXCEPT !.mode = m].notified = config.notified
      BY <1>0 DEF Config
    <3> QED
      BY <3>1, <3>2
  <2>7. ASSUME TapCheck(h) \/ TapInstall(h) \/ SetInterval(h) \/ ChangeOther(h)
        PROVE  UNCHANGED heap
    BY <2>7 DEF TapCheck, TapInstall, SetInterval, ChangeOther, store
  <2> QED
    BY <1>3, <2>3, <2>4, <2>5, <2>6, <2>7 DEF HandlerTap
<1>4. ASSUME NEW h \in Handlers, HandlerStep(h)
      PROVE  AskInv'
  <2>1. CASE HandlerSaved(h) \/ Refresh(h) \/ StopPoller(h) \/ StartPoller(h)
    <3>1. UNCHANGED <<listing, asked, losses, section, heap>>
      BY <2>1 DEF HandlerSaved, Refresh, StopPoller, StartPoller, store, world, counts, history
    <3>2. \A b \in Threads : pc'[b] \in {"checked", "notified"} => pc'[b] = pc[b] /\ my'[b] = my[b]
      <4>1. CASE StartPoller(h)
        BY <1>0, <4>1 DEF StartPoller, Goto, Becomes
      <4>2. CASE HandlerSaved(h) \/ Refresh(h) \/ StopPoller(h)
        BY <1>0, <4>2 DEF HandlerSaved, Refresh, StopPoller, Goto, Becomes
      <4> QED
        BY <2>1, <4>1, <4>2
    <3> QED
      BY <3>1, <3>2, AskFrame
  <2>2. CASE HandlerSaveFails(h)
    <3>1. UNCHANGED <<listing, asked>>
      BY <2>2 DEF HandlerSaveFails, world
    <3>2. \A b \in Threads : pc'[b] \in {"checked", "notified"} => pc'[b] = pc[b] /\ my'[b] = my[b]
      BY <1>0, <2>2 DEF HandlerSaveFails, Goto, Becomes
    <3>3. CASE UNCHANGED <<heap, section, losses>>
      BY <3>1, <3>2, <3>3, AskFrame
    <3>4. CASE heap' = Append(heap, my[h].previous) /\ losses' = losses + 1
      <4>1. \A i \in DOMAIN heap : heap'[i] = heap[i]
        BY <1>0, <3>4
      <4>2. \A i, j \in DOMAIN listing' : listing'[i].version = listing'[j].version => i = j
        BY <3>1 DEF AskInv
      <4> QED
        BY <3>1, <3>2, <3>4, <4>1, <4>2, AskLoss
    <3> QED
      BY <2>2, <3>3, <3>4 DEF HandlerSaveFails
  <2> QED
    BY <1>4, <2>1, <2>2 DEF HandlerStep
<1>5. CASE UNCHANGED vars
  <2>1. UNCHANGED <<listing, asked, losses, section, heap, pc, my>>
    BY <1>5 DEF vars, store, world, counts, history
  <2> QED
    BY <2>1, AskFrame
<1> QED
  BY <1>1, <1>2, <1>3, <1>4, <1>5, AskPublish, AskWithdraw, AskRestart DEF Next

(* A step that writes nothing to the file, or what is in memory. *)
LEMMA NotedFrame ==
  ASSUME Typed, AskInv, NotedOK, "saves" \in overlap => "saves" \in overlap',
         UNCHANGED <<listing, asked>>, losses' \in {losses, losses + 1},
         "saves" \notin overlap' => file' \in {file, config}
  PROVE  NotedOK'
<1> SUFFICES ASSUME "saves" \notin overlap', NEW v \in Versions, asked[v] > losses'
             PROVE  file'.notified = v \/ Past(v)'
  BY DEF NotedOK
<1>1. losses \in Nat /\ asked[v] \in Nat
  BY DEF Typed, CountsOK, AskInv
<1>2. asked[v] > losses
  BY <1>1
<1>3. Past(v)' <=> Past(v)
  BY DEF Past
<1>4. (file.notified = v \/ Past(v)) /\ (config.notified = v \/ Past(v))
  BY <1>2 DEF NotedOK, AskInv, Closed
<1> QED
  BY <1>3, <1>4

(* One step, on the notes in the file. *)
LEMMA NotedStep == Typed /\ Typed' /\ FileOK /\ AskInv /\ AskInv' /\ NotedOK /\ [Next]_vars => NotedOK'
<1> SUFFICES ASSUME Typed, Typed', FileOK, AskInv, AskInv', NotedOK, [Next]_vars
             PROVE  NotedOK'
  OBVIOUS
<1>0. \A a \in Threads : pc[a] \in Saves /\ "saves" \notin overlap => my[a].dump = config
  BY DEF FileOK
<1>1. ASSUME NEW a \in Threads, CheckStep(a)
      PROVE  NotedOK'
  <2>1. CASE Told(a)
    <3>1. file' = my[a].dump /\ config' = config /\ overlap' = overlap /\ pc[a] \in Saves
      BY <2>1 DEF Told, Written, Saves, config
    <3> QED
      BY <1>0, <3>1 DEF NotedOK, AskInv, Closed
  <2>2. CASE Checked(a)
    <3>1. /\ file' = my[a].dump /\ UNCHANGED <<listing, asked, losses>> /\ pc[a] \in Saves
          /\ ("saves" \in overlap => "saves" \in overlap')
      BY <2>2 DEF Checked, Written, Saves, Dump, world
    <3> QED
      BY <1>0, <3>1, NotedFrame
  <2>3. CASE CheckBegins(a) \/ FetchFails(a) \/ Fetched(a) \/ DownloadFails(a) \/ Download(a) \/ CheckSaveFails(a)
    <3>1. UNCHANGED <<file, listing, asked, losses>> /\ ("saves" \in overlap => "saves" \in overlap')
      BY <2>3 DEF CheckBegins, FetchFails, Fetched, DownloadFails, Download, CheckSaveFails, Dump,
                  store, world, history
    <3> QED
      BY <3>1, NotedFrame
  <2> QED
    BY <1>1, <2>1, <2>2, <2>3 DEF CheckStep
<1>2. ASSUME NEW p \in Pollers, PollerLoops(p)
      PROVE  NotedOK'
  BY <1>2, NotedFrame DEF PollerLoops, store, world, history
<1>3. ASSUME NEW h \in Handlers, HandlerTap(h)
      PROVE  NotedOK'
  <2>1. UNCHANGED <<file, listing, asked, losses>> /\ ("saves" \in overlap => "saves" \in overlap')
    BY <1>3 DEF HandlerTap, TapCheck, TapInstall, TapSkip, SetMode, SetInterval, ChangeOther, Change,
                Dump, store, world, history
  <2> QED
    BY <2>1, NotedFrame
<1>4. ASSUME NEW h \in Handlers, HandlerStep(h)
      PROVE  NotedOK'
  <2>1. CASE HandlerSaved(h)
    <3>1. UNCHANGED <<listing, asked, losses, overlap>> /\ file' = my[h].dump /\ pc[h] \in Saves /\ h \in Threads
      BY <2>1 DEF HandlerSaved, Written, Saves, world, Threads
    <3> QED
      BY <1>0, <3>1, NotedFrame
  <2>2. CASE HandlerSaveFails(h)
    <3>1. UNCHANGED <<file, listing, asked, overlap>> /\ losses' \in {losses, losses + 1}
      BY <2>2 DEF HandlerSaveFails, world
    <3> QED
      BY <3>1, NotedFrame
  <2>3. CASE Refresh(h) \/ StopPoller(h) \/ StartPoller(h)
    BY <2>3, NotedFrame DEF Refresh, StopPoller, StartPoller, store, world, history
  <2> QED
    BY <1>4, <2>1, <2>2, <2>3 DEF HandlerStep
<1>5. CASE Publish
  <2>1. UNCHANGED <<file, asked, losses, overlap>>
    BY <1>5 DEF Publish, store, history
  <2> QED
    BY <1>5, <2>1, PublishKeeps DEF NotedOK
<1>6. CASE Withdraw
  <2>1. UNCHANGED asked /\ losses' = losses + 1
    BY <1>6 DEF Withdraw
  <2>2. \A v \in Versions : ~(asked[v] > losses')
    BY <2>1 DEF Typed, CountsOK, AskInv
  <2> QED
    BY <2>1, <2>2 DEF NotedOK
<1>7. CASE Restart
  <2>1. UNCHANGED <<file, listing, asked, overlap>> /\ losses' \in {losses, losses + 1}
    BY <1>7 DEF Restart
  <2> QED
    BY <2>1, NotedFrame
<1>8. CASE UNCHANGED vars
  BY <1>8, NotedFrame DEF vars, store, world, history
<1> QED
  BY <1>1, <1>2, <1>3, <1>4, <1>5, <1>6, <1>7, <1>8 DEF Next

(* A release is put to the administrators once, by any number of pollers and     *)
(* through any number of restarts, and once more for each copy of the settings  *)
(* put back, each start on a file that lost the note to an older dump, and each *)
(* release withdrawn: _check_once and notified_version of the updater.         *)
THEOREM AskedOnceAlways == Spec => []AskedOnce
<1>1. Init => Solo /\ AskInv /\ FileOK /\ SkipOK /\ NotedOK
  <2>0. Init => FileOK /\ SkipOK
    BY DEF Init, BootPC, FileOK, SkipOK, Saves
  <2> SUFFICES ASSUME Init
               PROVE  Solo /\ AskInv /\ NotedOK
    BY <2>0
  <2>1. \A a \in Threads : pc[a] \in {"loop", "idle", "unborn"}
    BY DEF Init, BootPC
  <2>2. listing = <<>> /\ losses = 0 /\ asked = [v \in Versions |-> 0]
    BY DEF Init
  <2> QED
    BY <2>1, <2>2 DEF Solo, Working, AskInv, AskingOK, NotedOK
<1>2. Typed /\ AskInv => AskedOnce
  <2> SUFFICES ASSUME Typed, AskInv, NEW v \in Versions
               PROVE  asked[v] <= 1 + losses
    BY DEF AskedOnce
  <2> QED
    BY DEF AskInv, Typed, CountsOK
<1> QED
  BY <1>1, <1>2, InitType, StepType, SoloStep, SavesStep, AskStep, NotedStep, PTL DEF Spec

=============================================================================
