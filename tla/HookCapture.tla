---------------------------- MODULE HookCapture ----------------------------
(* What the hook runtime does with an edit (hook/runtime/dispatch.rs): the    *)
(* skip cache (hook/cache.rs), the observation it enqueues in the cloud       *)
(* outbox, and the spill directory that takes the observation when the        *)
(* database does not (cloud/outbox.rs), replayed by every later hook and by   *)
(* the outbox daemon (infra/daemon.rs). A handler is one execution of         *)
(* handle_post_tool_use, in a forward daemon or in a shim: HookForward shows  *)
(* that two may handle the same event. The spill files are numbered in the    *)
(* order of their names, which start with the time.                           *)
EXTENDS Naturals, FiniteSets

CONSTANTS Handlers,   \* executions of the handler
          Casts,      \* the sets of handlers that run: one of them, for a whole behaviour
          Replayers,  \* outbox daemons: each of their ticks replays the directory
          Edits,      \* the edits
          Target,     \* the file of each
          Signal,     \* what the skip cache compares of it: the first 1200 characters
          Silent,     \* the edits without observation: of a private file, or with no text
          EditOf,     \* the edit each handler was called for
          NoEdit,     \* what a file that was not spilled by a hook stands for
          Mute,       \* the handlers whose process has DIFFLORE_CAPTURE=false
          Leftovers,  \* files already in the directory: "bad" or "unreadable"
          NumFiles,   \* bound on the files of the directory
          MaxItems,   \* how many files one replay looks at
          MaxOutages, \* bound on the times the database goes away
          MaxFaults   \* bound on crashes and removals that fail

Procs == Handlers \cup Replayers
Files == 1..NumFiles
FileStates == {"none", "tmp", "good", "bad", "unreadable", "quarantined", "gone"}

ASSUME CaptureAssumption ==
    /\ Silent \subseteq Edits
    /\ EditOf \in [Handlers -> Edits] /\ Mute \subseteq Handlers /\ NoEdit \notin Edits
    /\ Casts \subseteq SUBSET Handlers
    /\ Leftovers \subseteq {"bad", "unreadable"}
    /\ {NumFiles, MaxItems, MaxOutages, MaxFaults} \subseteq Nat
    /\ Handlers \cap Replayers = {}

VARIABLES file,     \* the spill directory: content of each file, and the edit it holds
          rows,     \* the edits with an observation row in the outbox
          cache,    \* the skip cache: the edits its live entries were written for
          up,       \* the database can be opened and written
          outages, faults,
          pc,       \* where each process is
          todo,     \* the files its replay has still to look at
          cur,      \* the file it has read, or the one it is writing
          snap,     \* the cache entries it read before it writes the file back
          opened,   \* the handlers with the database open, until they have fetched
          kept,     \* edits a handler was told are stored, in the outbox or on disk
          dropped   \* edits a handler could store nowhere, was told not to, or had no
                    \* observation of

vars == <<file, rows, cache, up, outages, faults, pc, todo, cur, snap, opened, kept, dropped>>

HandlerSteps == {"check", "open", "enqueue", "write", "rename", "fetch", "remember", "save",
                 "end", "skipped"}
ReplaySteps == {"idle", "list", "next", "insert", "remove", "setaside"}

TypeOK ==
    /\ file \in [Files -> [edit : Edits \cup {NoEdit}, st : FileStates]]
    /\ rows \subseteq Edits /\ cache \subseteq Edits
    /\ up \in BOOLEAN /\ outages \in 0..MaxOutages /\ faults \in 0..MaxFaults
    /\ pc \in [Procs -> HandlerSteps \cup ReplaySteps]
    /\ todo \in [Procs -> SUBSET Files]
    /\ cur \in [Procs -> 0..NumFiles]
    /\ snap \in [Procs -> SUBSET Edits]
    /\ opened \subseteq Handlers
    /\ kept \subseteq Edits /\ dropped \subseteq Edits

Empty == [edit |-> NoEdit, st |-> "none"]

\* A directory with leftover files, the first of them in the order of the names.
Init ==
    /\ \E first \in {"none"} \cup Leftovers :
          file = [i \in Files |-> IF i = 1 THEN [edit |-> NoEdit, st |-> first] ELSE Empty]
    /\ rows = {} /\ cache = {}
    /\ up \in BOOLEAN /\ outages = 0 /\ faults = 0
    /\ \E cast \in Casts :
          pc = [p \in Procs |-> IF p \in cast THEN "check" ELSE IF p \in Handlers THEN "end" ELSE "idle"]
    /\ todo = [p \in Procs |-> {}] /\ cur = [p \in Procs |-> 0] /\ snap = [p \in Procs |-> {}]
    /\ opened = {} /\ kept = {} /\ dropped = {}

Go(p, step) == pc' = [pc EXCEPT ![p] = step]
Local == <<todo, cur, snap>>
Store == <<file, rows>>
World == <<up, outages, faults>>
History == <<opened, kept, dropped>>

-----------------------------------------------------------------------------
(* The skip cache *)

\* What the cache cannot tell apart: edits of one file whose texts begin alike.
Alike(e, f) == Target[e] = Target[f] /\ Signal[e] = Signal[f]

Hit(e) == \E f \in cache : Alike(e, f)

\* A file has one entry, that of the edit remembered last.
Entered(entries, e) == {f \in entries : Target[f] # Target[e]} \cup {e}

\* Fault: the entry is written when it is looked up, before anything is stored.
CheckMarksEdit(h) ==
    /\ pc[h] = "check"
    /\ Go(h, IF Hit(EditOf[h]) THEN "skipped" ELSE "open")
    /\ cache' = Entered(cache, EditOf[h])
    /\ UNCHANGED <<Store, World, Local, History>>

\* should_skip_recent: an entry that is missing, whose time is over or whose signal
\* differs does not count.
CheckCache(h) ==
    /\ pc[h] = "check"
    /\ Go(h, IF Hit(EditOf[h]) THEN "skipped" ELSE "open")
    /\ UNCHANGED <<Store, cache, World, Local, History>>

\* The time of an entry is over, in the file and in every copy of it.
Expire(e) ==
    /\ e \in cache \/ \E p \in Procs : e \in snap[p]
    /\ cache' = cache \ {e}
    /\ snap' = [p \in Procs |-> snap[p] \ {e}]
    /\ UNCHANGED <<Store, World, pc, todo, cur, History>>

\* The rules are fetched; an injection is remembered, nothing else is.
Fetch(h) ==
    /\ pc[h] = "fetch"
    /\ Go(h, "remember") \/ Go(h, "end")
    /\ opened' = opened \ {h}
    /\ UNCHANGED <<Store, cache, World, Local, kept, dropped>>

\* remember_injection reads the whole cache file and writes the whole of it back.
RememberRead(h) ==
    /\ pc[h] = "remember"
    /\ snap' = [snap EXCEPT ![h] = cache]
    /\ Go(h, "save")
    /\ UNCHANGED <<Store, cache, World, todo, cur, History>>

RememberWrite(h) ==
    /\ pc[h] = "save"
    /\ cache' = Entered(snap[h], EditOf[h])
    /\ snap' = [snap EXCEPT ![h] = {}]
    /\ Go(h, "end")
    /\ UNCHANGED <<Store, World, todo, cur, History>>

-----------------------------------------------------------------------------
(* The observation of the edit *)

\* The database is opened. A handler in a forward daemon has it open already.
OpenDb(h) ==
    /\ pc[h] = "open"
    /\ \/ Go(h, "list") /\ opened' = opened \cup {h} /\ UNCHANGED dropped
       \/ /\ ~up /\ UNCHANGED opened
          /\ IF h \in Mute \/ EditOf[h] \in Silent
             THEN Go(h, "end") /\ dropped' = dropped \cup {EditOf[h]}
             ELSE Go(h, "write") /\ UNCHANGED dropped
    /\ UNCHANGED <<Store, cache, World, Local, kept>>

\* enqueue: a muted process inserts nothing and sees no error; without observation
\* there is nothing to insert.
Enqueue(h) ==
    /\ pc[h] = "enqueue"
    /\ \/ /\ h \in Mute \/ EditOf[h] \in Silent
          /\ Go(h, "fetch")
          /\ dropped' = dropped \cup {EditOf[h]}
          /\ UNCHANGED <<rows, kept>>
       \/ /\ h \notin Mute /\ EditOf[h] \notin Silent /\ up
          /\ Go(h, "fetch")
          /\ rows' = rows \cup {EditOf[h]}
          /\ kept' = kept \cup {EditOf[h]}
          /\ UNCHANGED dropped
       \/ /\ h \notin Mute /\ EditOf[h] \notin Silent /\ ~up
          /\ Go(h, "write")
          /\ UNCHANGED <<rows, History>>
    /\ UNCHANGED <<file, cache, World, Local, opened>>

\* The first in the order of the names; a new file is the last so far.
First(i, S) == i \in S /\ \A j \in S : i <= j
Unused == {i \in Files : file[i].st = "none"}

\* Fault: the record is written under its final name, where a replay may read half of it.
SpillInPlace(h) ==
    /\ pc[h] = "write"
    /\ \E i \in Files :
          /\ First(i, Unused)
          /\ file' = [file EXCEPT ![i] = [edit |-> EditOf[h], st |-> "bad"]]
          /\ cur' = [cur EXCEPT ![h] = i]
    /\ Go(h, "rename")
    /\ UNCHANGED <<rows, cache, World, todo, snap, History>>

\* spill_payload: the record is written to a temporary file no replay looks at.
SpillWrite(h) ==
    /\ pc[h] = "write"
    /\ \E i \in Files :
          /\ First(i, Unused)
          /\ file' = [file EXCEPT ![i] = [edit |-> EditOf[h], st |-> "tmp"]]
          /\ cur' = [cur EXCEPT ![h] = i]
    /\ Go(h, "rename")
    /\ UNCHANGED <<rows, cache, World, todo, snap, History>>

\* Where the runtime goes on: the fetch needs the database.
AfterSpill(h) == Go(h, IF h \in opened THEN "fetch" ELSE "end")

SpillRename(h) ==
    /\ pc[h] = "rename"
    /\ file' = [file EXCEPT ![cur[h]].st = IF @ = "quarantined" THEN @ ELSE "good"]
    /\ cur' = [cur EXCEPT ![h] = 0]
    /\ kept' = kept \cup {EditOf[h]}
    /\ AfterSpill(h)
    /\ UNCHANGED <<rows, cache, World, todo, snap, opened, dropped>>

\* The disk takes no file: the observation is gone, and the hook goes on.
SpillFails(h) ==
    /\ pc[h] = "write"
    /\ dropped' = dropped \cup {EditOf[h]}
    /\ AfterSpill(h)
    /\ UNCHANGED <<Store, cache, World, Local, opened, kept>>

-----------------------------------------------------------------------------
(* replay_spilled_observations, by a hook before its enqueue or by the daemon *)

Listed == {i \in Files : file[i].st \in {"good", "bad", "unreadable"}}

\* The directory is listed and sorted; the first MaxItems files are looked at.
List(p) ==
    /\ pc[p] = "list"
    /\ todo' = [todo EXCEPT ![p] =
                  {i \in Listed : Cardinality({j \in Listed : j <= i}) <= MaxItems}]
    /\ Go(p, "next")
    /\ UNCHANGED <<Store, cache, World, cur, snap, History>>

\* The daemon's tick.
Tick(p) ==
    /\ p \in Replayers /\ pc[p] = "idle"
    /\ Go(p, "list")
    /\ UNCHANGED <<Store, cache, World, Local, History>>

\* The end of a replay: a hook goes on to its own observation.
ReplayDone(p) == Go(p, IF p \in Handlers THEN "enqueue" ELSE "idle")

\* Fault: a file that cannot be read ends the replay.
NextFileBreaks(p) ==
    /\ pc[p] = "next"
    /\ \/ /\ todo[p] = {} \/ \E i \in todo[p] : First(i, todo[p]) /\ file[i].st \notin {"good", "bad"}
          /\ ReplayDone(p)
          /\ todo' = [todo EXCEPT ![p] = {}]
          /\ UNCHANGED cur
       \/ \E i \in todo[p] :
             /\ First(i, todo[p]) /\ file[i].st \in {"good", "bad"}
             /\ todo' = [todo EXCEPT ![p] = @ \ {i}]
             /\ cur' = [cur EXCEPT ![p] = i]
             /\ Go(p, IF file[i].st = "good" THEN "insert" ELSE "setaside")
    /\ UNCHANGED <<Store, cache, World, snap, History>>

\* A file that is gone or cannot be read is passed over, one that does not parse or
\* is of another kind is set aside.
NextFile(p) ==
    /\ pc[p] = "next"
    /\ \/ /\ todo[p] = {}
          /\ ReplayDone(p)
          /\ UNCHANGED <<todo, cur>>
       \/ \E i \in todo[p] :
             /\ First(i, todo[p])
             /\ todo' = [todo EXCEPT ![p] = @ \ {i}]
             /\ \/ file[i].st = "good" /\ Go(p, "insert") /\ cur' = [cur EXCEPT ![p] = i]
                \/ file[i].st = "bad" /\ Go(p, "setaside") /\ cur' = [cur EXCEPT ![p] = i]
                \/ file[i].st \notin {"good", "bad"} /\ UNCHANGED <<pc, cur>>
    /\ UNCHANGED <<Store, cache, World, snap, History>>

\* Rename the file away: it fails silently if the file is gone.
SetAside(p) ==
    /\ pc[p] = "setaside"
    /\ file' = [file EXCEPT ![cur[p]].st = IF @ = "bad" THEN "quarantined" ELSE @]
    /\ cur' = [cur EXCEPT ![p] = 0]
    /\ Go(p, "next")
    /\ UNCHANGED <<rows, cache, World, todo, snap, History>>

\* Fault: the file is removed whatever the enqueue said.
InsertIgnoresOutcome(p) ==
    /\ pc[p] = "insert"
    /\ rows' = IF p \notin Mute /\ up THEN rows \cup {file[cur[p]].edit} ELSE rows
    /\ Go(p, "remove")
    /\ UNCHANGED <<file, cache, World, Local, History>>

\* The record is enqueued as read; no row, for either reason, ends the replay.
Insert(p) ==
    /\ pc[p] = "insert"
    /\ IF p \notin Mute /\ up
       THEN /\ rows' = rows \cup {file[cur[p]].edit}
            /\ Go(p, "remove")
            /\ UNCHANGED <<todo, cur>>
       ELSE /\ ReplayDone(p)
            /\ todo' = [todo EXCEPT ![p] = {}]
            /\ cur' = [cur EXCEPT ![p] = 0]
            /\ UNCHANGED rows
    /\ UNCHANGED <<file, cache, World, snap, History>>

\* The file is removed after its row is there; the removal may fail.
Remove(p) ==
    /\ pc[p] = "remove"
    /\ \/ file' = [file EXCEPT ![cur[p]].st = "gone"] /\ UNCHANGED faults
       \/ faults < MaxFaults /\ faults' = faults + 1 /\ UNCHANGED file
    /\ cur' = [cur EXCEPT ![p] = 0]
    /\ Go(p, "next")
    /\ UNCHANGED <<rows, cache, up, outages, todo, snap, History>>

-----------------------------------------------------------------------------
(* The environment *)

DbFails ==
    /\ up /\ outages < MaxOutages
    /\ up' = FALSE /\ outages' = outages + 1
    /\ UNCHANGED <<Store, cache, faults, pc, Local, History>>

DbRecovers ==
    /\ ~up
    /\ up' = TRUE
    /\ UNCHANGED <<Store, cache, outages, faults, pc, Local, History>>

\* A process dies. Another daemon is started by the next hook.
Crash(p) ==
    /\ faults < MaxFaults /\ faults' = faults + 1
    /\ pc[p] \notin {"idle", "end", "skipped"}
    /\ Go(p, IF p \in Handlers THEN "end" ELSE "idle")
    /\ todo' = [todo EXCEPT ![p] = {}] /\ cur' = [cur EXCEPT ![p] = 0]
    /\ snap' = [snap EXCEPT ![p] = {}] /\ opened' = opened \ {p}
    /\ UNCHANGED <<Store, cache, up, outages, kept, dropped>>

ReplayStep(p) == List(p) \/ Tick(p) \/ NextFile(p) \/ SetAside(p) \/ Insert(p) \/ Remove(p)

HandlerStep(h) ==
    \/ CheckCache(h) \/ OpenDb(h) \/ Enqueue(h) \/ SpillWrite(h) \/ SpillRename(h)
    \/ SpillFails(h) \/ Fetch(h) \/ RememberRead(h) \/ RememberWrite(h)

Next ==
    \/ \E h \in Handlers : HandlerStep(h)
    \/ \E p \in Procs : ReplayStep(p) \/ Crash(p)
    \/ \E e \in Edits : Expire(e)
    \/ DbFails \/ DbRecovers

Spec == Init /\ [][Next]_vars

\* The daemon ticks (later hooks replay as it does), and an outage ends.
FairSpec ==
    /\ Spec
    /\ \A p \in Replayers : WF_vars(ReplayStep(p))
    /\ WF_vars(DbRecovers)

-----------------------------------------------------------------------------
(* Properties *)

Stored(e) == e \in rows \/ \E i \in Files : file[i] = [edit |-> e, st |-> "good"]

\* An observation a hook was told is stored stays stored: as a row of the outbox or
\* as a readable spill file, whatever replays, crashes and outages come.
CapturedIsStored == \A e \in kept : Stored(e)

\* No replay sets aside a file a hook has spilled, although it may list and read the
\* directory at any moment of the write.
SpillsAreNotSetAside == \A i \in Files : file[i].st = "quarantined" => file[i].edit = NoEdit

\* An edit is skipped as a recent duplicate only behind a handling, of it or of an
\* edit of the same file that begins alike, that has come to its end: the observation
\* was stored, or could not be, or there was none. A crash in the middle of a
\* handling, or a cache file written back over another's, never makes the skip cache
\* swallow an edit nobody has dealt with. That an alike edit is skipped unstored is
\* what post_edit_retrieval_intent's truncation does (dispatch.rs:1188-1193).
SkippedWasStored ==
    \A h \in Handlers : pc[h] = "skipped" =>
        \E e \in Edits : Alike(e, EditOf[h]) /\ (Stored(e) \/ e \in dropped)

\* Every spilled observation reaches the outbox and leaves the directory: a file that
\* cannot be read or parsed, a failed removal or an outage does not hold it back. Names
\* are not used again, so that in the end each spill is gone, with a row, but for the
\* temporary file of a hook that died. It takes fewer unreadable files than one replay
\* looks at: these stay in the directory, and count, in every replay.
SpillsAreReplayed ==
    <>[](\A i \in Files : file[i].edit # NoEdit =>
            file[i].st = "tmp" \/ (file[i].st = "gone" /\ file[i].edit \in rows))
=============================================================================
