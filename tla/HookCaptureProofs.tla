------------------------- MODULE HookCaptureProofs -------------------------
(* Proofs about HookCapture, for any number of handlers, daemons, edits and   *)
(* spill files, outages, crashes and failed removals. The argument is that    *)
(* what a step may do to the store is very little (Moves): rows are only      *)
(* added, and a readable spill file disappears only behind its row. What a    *)
(* process knows of the file it works on survives every such move.            *)
EXTENDS HookCapture, TLAPS

Safe(e) == Stored(e) \/ e \in dropped

\* A skip of the edit is earned: one the cache cannot tell from it is safe.
Covered(e) == \E f \in Edits : Alike(f, e) /\ Safe(f)

\* The edit of a handler past its enqueue is safe, that of one that skips is covered.
Dealt(h) ==
    /\ pc[h] \in {"fetch", "remember", "save"} => Safe(EditOf[h])
    /\ pc[h] = "skipped" => Covered(EditOf[h])

\* A file holds an edit exactly if a hook wrote it, and is removed behind its row.
FilesOK ==
    \A i \in Files :
        /\ file[i].st \in {"tmp", "good", "gone"} => file[i].edit \in Edits
        /\ file[i].st \in {"none", "bad", "unreadable", "quarantined"} => file[i].edit = NoEdit
        /\ file[i].st = "gone" => file[i].edit \in rows

\* What a process knows of the file it has read or is writing.
Knows(p) ==
    /\ pc[p] = "insert" => cur[p] \in Files /\ file[cur[p]].st \in {"good", "gone"}
    /\ pc[p] = "remove" =>
          cur[p] \in Files /\ file[cur[p]].st \in {"good", "gone"} /\ file[cur[p]].edit \in rows
    /\ pc[p] = "setaside" => cur[p] \in Files /\ file[cur[p]].st \in {"bad", "quarantined"}
    /\ pc[p] = "rename" => cur[p] \in Files /\ file[cur[p]].st = "tmp"

\* A writer's file holds its edit, and no two handlers write the same file.
WritersOK ==
    /\ \A h \in Handlers : pc[h] = "rename" => file[cur[h]].edit = EditOf[h]
    /\ \A p, q \in Procs : pc[p] = "rename" /\ pc[q] = "rename" /\ cur[p] = cur[q] => p = q

\* Whatever the skip cache, or a copy of it, holds has been dealt with.
CacheOK ==
    /\ \A e \in cache : Safe(e)
    /\ \A p \in Procs : \A e \in snap[p] : Safe(e)
    /\ \A h \in Handlers : Dealt(h)

IInv ==
    /\ TypeOK /\ FilesOK /\ WritersOK /\ CacheOK /\ CapturedIsStored
    /\ \A p \in Procs : Knows(p)

\* What a step may do to the store.
Moves ==
    /\ rows \subseteq rows' /\ dropped \subseteq dropped'
    /\ \A i \in Files :
          \/ file'[i] = file[i]
          \/ file[i].st = "none" /\ file'[i].st = "tmp" /\ file'[i].edit \in Edits
          \/ /\ file'[i].edit = file[i].edit
             /\ \/ file[i].st = "tmp" /\ file'[i].st = "good"
                \/ file[i].st = "bad" /\ file'[i].st = "quarantined"
                \/ file[i].st \in {"good", "gone"} /\ file'[i].st = "gone" /\ file[i].edit \in rows

\* At first nothing is stored, known or remembered.
LEMMA InitIInv == Init => IInv
<1> SUFFICES ASSUME Init PROVE IInv
    OBVIOUS
<1> USE CaptureAssumption DEF Init
<1>1. PICK first \in {"none"} \cup Leftovers :
        file = [i \in Files |-> IF i = 1 THEN [edit |-> NoEdit, st |-> first] ELSE Empty]
      OBVIOUS
<1>2. PICK cast \in Casts :
        pc = [p \in Procs |-> IF p \in cast THEN "check" ELSE IF p \in Handlers THEN "end" ELSE "idle"]
      OBVIOUS
<1>3. file \in [Files -> [edit : Edits \cup {NoEdit}, st : FileStates]]
      BY <1>1 DEF Empty, FileStates
<1>4. pc \in [Procs -> {"check", "end", "idle"}]
      BY <1>2
<1>5. TypeOK
      BY <1>3, <1>4 DEF TypeOK, HandlerSteps, ReplaySteps
<1>6. FilesOK
      BY <1>1 DEF FilesOK, Empty
<1>7. WritersOK /\ CacheOK /\ CapturedIsStored /\ \A p \in Procs : Knows(p)
      BY <1>4 DEF WritersOK, CacheOK, Dealt, CapturedIsStored, Knows, Procs
<1>q. QED BY <1>5, <1>6, <1>7 DEF IInv

-----------------------------------------------------------------------------
(* Every step is one of the moves *)

\* A handler's own steps write a temporary file and name it, or add its row.
LEMMA HandlerMoves == ASSUME IInv, NEW h \in Handlers, HandlerStep(h) PROVE Moves
<1> USE CaptureAssumption DEF Moves, World, Local, History, Store
<1>1. CASE CheckCache(h) \/ OpenDb(h) \/ SpillFails(h) \/ Fetch(h) \/ RememberRead(h) \/ RememberWrite(h)
      BY <1>1 DEF CheckCache, OpenDb, SpillFails, Fetch, RememberRead, RememberWrite
<1>2. CASE Enqueue(h)
      BY <1>2 DEF Enqueue
<1>3. CASE SpillWrite(h)
  <2>1. PICK k \in Files : First(k, Unused) /\ file' = [file EXCEPT ![k] = [edit |-> EditOf[h], st |-> "tmp"]]
        BY <1>3 DEF SpillWrite
  <2>2. file[k].st = "none" /\ file \in [Files -> [edit : Edits \cup {NoEdit}, st : FileStates]]
        BY <2>1 DEF First, Unused, IInv, TypeOK
  <2>q. QED BY <1>3, <2>1, <2>2 DEF SpillWrite
<1>4. CASE SpillRename(h)
  <2>1. cur[h] \in Files /\ file[cur[h]].st = "tmp" /\ h \in Procs
        BY <1>4 DEF SpillRename, IInv, Knows, Procs
  <2>2. file \in [Files -> [edit : Edits \cup {NoEdit}, st : FileStates]]
        BY DEF IInv, TypeOK
  <2>3. file'[cur[h]].edit = file[cur[h]].edit /\ file'[cur[h]].st = "good"
        BY <1>4, <2>1, <2>2 DEF SpillRename
  <2>q. QED BY <1>4, <2>1, <2>2, <2>3 DEF SpillRename
<1>q. QED BY <1>1, <1>2, <1>3, <1>4 DEF HandlerStep

\* A replay adds a row, removes a file behind its row, or sets a bad file aside.
LEMMA ReplayMoves == ASSUME IInv, NEW p \in Procs, ReplayStep(p) PROVE Moves
<1> USE DEF Moves, World, Local, History, Store
<1>0. file \in [Files -> [edit : Edits \cup {NoEdit}, st : FileStates]] /\ Knows(p)
      BY DEF IInv, TypeOK
<1>1. CASE List(p) \/ Tick(p) \/ NextFile(p)
      BY <1>1 DEF List, Tick, NextFile
<1>2. CASE Insert(p)
      BY <1>2 DEF Insert
<1>3. CASE SetAside(p)
  <2>1. file'[cur[p]].edit = file[cur[p]].edit /\ file'[cur[p]].st = "quarantined"
        BY <1>0, <1>3 DEF SetAside, Knows
  <2>q. QED BY <1>0, <1>3, <2>1 DEF SetAside, Knows
<1>4. CASE Remove(p)
  <2>1. CASE file' = file
        BY <1>4, <2>1 DEF Remove
  <2>2. CASE file' = [file EXCEPT ![cur[p]].st = "gone"]
    <3>1. cur[p] \in Files
          BY <1>0, <1>4 DEF Remove, Knows
    <3>2. file'[cur[p]].edit = file[cur[p]].edit /\ file'[cur[p]].st = "gone"
          BY <1>0, <2>2, <3>1
    <3>q. QED BY <1>0, <1>4, <2>2, <3>1, <3>2 DEF Remove, Knows
  <2>q. QED BY <1>4, <2>1, <2>2 DEF Remove
<1>q. QED BY <1>1, <1>2, <1>3, <1>4 DEF ReplayStep

\* Nothing else touches the store.
LEMMA OtherMoves ==
    ASSUME (\E p \in Procs : Crash(p)) \/ (\E e \in Edits : Expire(e)) \/ DbFails \/ DbRecovers \/ UNCHANGED vars
    PROVE  Moves
BY DEF Crash, Expire, DbFails, DbRecovers, vars, Moves, World, Local, History, Store

\* So every step is a move.
LEMMA StepMoves == ASSUME IInv, [Next]_vars PROVE Moves
BY HandlerMoves, ReplayMoves, OtherMoves DEF Next

-----------------------------------------------------------------------------
(* What a move preserves *)

\* What is stored stays stored: a readable file goes only when its row is there.
LEMMA StoredStays == ASSUME IInv, Moves, NEW e, Stored(e) PROVE Stored(e)'
<1>1. CASE e \in rows
      BY <1>1 DEF Moves, Stored
<1>2. CASE \E i \in Files : file[i] = [edit |-> e, st |-> "good"]
  <2>1. PICK i \in Files : file[i] = [edit |-> e, st |-> "good"]
        BY <1>2
  <2>2. file'[i] = file[i] \/ e \in rows
        BY <2>1 DEF Moves
  <2>3. CASE file'[i] = file[i]
        BY <2>1, <2>3 DEF Stored
  <2>4. CASE e \in rows
        BY <2>4 DEF Moves, Stored
  <2>q. QED BY <2>2, <2>3, <2>4
<1>q. QED BY <1>1, <1>2 DEF Stored

\* What has been dealt with stays dealt with.
LEMMA SafeStays == ASSUME IInv, Moves, NEW e, Safe(e) PROVE Safe(e)'
BY StoredStays DEF Safe, Moves

\* A move keeps the files' order of life.
LEMMA FilesStay == ASSUME IInv, Moves PROVE FilesOK'
<1> SUFFICES ASSUME NEW i \in Files
    PROVE /\ file'[i].st \in {"tmp", "good", "gone"} => file'[i].edit \in Edits
          /\ file'[i].st \in {"none", "bad", "unreadable", "quarantined"} => file'[i].edit = NoEdit
          /\ file'[i].st = "gone" => file'[i].edit \in rows'
    BY DEF FilesOK
<1>q. QED BY DEF IInv, FilesOK, Moves

\* A process that does not move keeps what it knows of a file it has read.
LEMMA KnowsStays ==
    ASSUME IInv, Moves, NEW p \in Procs, pc'[p] = pc[p], cur'[p] = cur[p],
           pc[p] = "rename" => file'[cur[p]] = file[cur[p]]
    PROVE  Knows(p)'
<1>1. Knows(p)
      BY DEF IInv
<1>2. CASE pc[p] = "rename"
      BY <1>1, <1>2 DEF Knows
<1>3. CASE pc[p] \in {"insert", "remove"}
      BY <1>1, <1>3 DEF Knows, Moves
<1>4. CASE pc[p] = "setaside"
      BY <1>1, <1>4 DEF Knows, Moves
<1>q. QED BY <1>1, <1>2, <1>3, <1>4 DEF Knows

-----------------------------------------------------------------------------
(* Types *)

\* The files keep their type: one action writes a record, the others its state.
LEMMA FilesTyped ==
    ASSUME IInv, [Next]_vars
    PROVE  file' \in [Files -> [edit : Edits \cup {NoEdit}, st : FileStates]]
<1> USE DEF World, Local, History, Store
<1>0. /\ file \in [Files -> [edit : Edits \cup {NoEdit}, st : FileStates]]
      /\ \A p \in Procs : Knows(p)
      BY DEF IInv, TypeOK
<1>1. ASSUME NEW h \in Handlers, HandlerStep(h) PROVE file' \in [Files -> [edit : Edits \cup {NoEdit}, st : FileStates]]
  <2>1. CASE SpillWrite(h)
    <3>1. [edit |-> EditOf[h], st |-> "tmp"] \in [edit : Edits \cup {NoEdit}, st : FileStates]
          BY CaptureAssumption DEF FileStates
    <3>q. QED BY <1>0, <2>1, <3>1 DEF SpillWrite
  <2>2. CASE SpillRename(h)
    <3>1. cur[h] \in Files /\ file[cur[h]].st = "tmp"
          BY <1>0, <2>2 DEF SpillRename, Knows, Procs
    <3>q. QED BY <1>0, <2>2, <3>1 DEF SpillRename, FileStates
  <2>3. CASE CheckCache(h) \/ OpenDb(h) \/ Enqueue(h) \/ SpillFails(h) \/ Fetch(h) \/ RememberRead(h)
             \/ RememberWrite(h)
        BY <1>0, <2>3 DEF CheckCache, OpenDb, Enqueue, SpillFails, Fetch, RememberRead, RememberWrite
  <2>q. QED BY <1>1, <2>1, <2>2, <2>3 DEF HandlerStep
<1>2. ASSUME NEW p \in Procs, ReplayStep(p) PROVE file' \in [Files -> [edit : Edits \cup {NoEdit}, st : FileStates]]
  <2>1. CASE SetAside(p)
        BY <1>0, <2>1 DEF SetAside, Knows, FileStates
  <2>2. CASE Remove(p)
        BY <1>0, <2>2 DEF Remove, Knows, FileStates
  <2>3. CASE List(p) \/ Tick(p) \/ NextFile(p) \/ Insert(p)
        BY <1>0, <2>3 DEF List, Tick, NextFile, Insert
  <2>q. QED BY <1>2, <2>1, <2>2, <2>3 DEF ReplayStep
<1>3. CASE (\E p \in Procs : Crash(p)) \/ (\E e \in Edits : Expire(e)) \/ DbFails \/ DbRecovers \/ UNCHANGED vars
      BY <1>0, <1>3 DEF Crash, Expire, DbFails, DbRecovers, vars
<1>q. QED BY <1>1, <1>2, <1>3 DEF Next

\* Everything but the files keeps its type when a handler steps.
LEMMA HandlerTyped == ASSUME IInv, NEW h \in Handlers, HandlerStep(h), [Next]_vars PROVE TypeOK'
<1> USE CaptureAssumption, FilesTyped DEF World, Local, History, Store, Go, HandlerSteps, ReplaySteps
<1>0. TypeOK /\ h \in Procs /\ EditOf[h] \in Edits
      BY DEF IInv, Procs
<1>1. CASE CheckCache(h)
      BY <1>0, <1>1 DEF CheckCache, TypeOK
<1>2. CASE OpenDb(h)
      BY <1>0, <1>2 DEF OpenDb, TypeOK
<1>3. CASE Enqueue(h)
      BY <1>0, <1>3 DEF Enqueue, TypeOK
<1>4. CASE SpillWrite(h)
      BY <1>0, <1>4 DEF SpillWrite, TypeOK, Files
<1>5. CASE SpillRename(h)
  <2>1. pc' \in [Procs -> HandlerSteps \cup ReplaySteps] /\ cur' \in [Procs -> 0..NumFiles] /\ kept' \subseteq Edits
        BY <1>0, <1>5 DEF SpillRename, AfterSpill, TypeOK
  <2>2. UNCHANGED <<rows, cache, up, outages, faults, todo, snap, opened, dropped>>
        BY <1>5 DEF SpillRename
  <2>q. QED BY <1>0, <2>1, <2>2 DEF TypeOK
<1>6. CASE SpillFails(h)
      BY <1>0, <1>6 DEF SpillFails, AfterSpill, TypeOK
<1>7. CASE Fetch(h)
      BY <1>0, <1>7 DEF Fetch, TypeOK
<1>8. CASE RememberRead(h)
      BY <1>0, <1>8 DEF RememberRead, TypeOK
<1>9. CASE RememberWrite(h)
      BY <1>0, <1>9 DEF RememberWrite, Entered, TypeOK
<1>q. QED BY <1>1, <1>2, <1>3, <1>4, <1>5, <1>6, <1>7, <1>8, <1>9 DEF HandlerStep

\* So does it when a replay steps: the row of a spilled file is that of an edit.
LEMMA ReplayTyped == ASSUME IInv, NEW p \in Procs, ReplayStep(p), [Next]_vars PROVE TypeOK'
<1> USE CaptureAssumption, FilesTyped DEF World, Local, History, Store, Go, HandlerSteps, ReplaySteps
<1>0. TypeOK /\ Knows(p) /\ FilesOK
      BY DEF IInv
<1>1. CASE List(p)
  <2>1. {i \in Listed : Cardinality({j \in Listed : j <= i}) <= MaxItems} \subseteq Files
        BY DEF Listed
  <2>q. QED BY <1>0, <1>1, <2>1 DEF List, TypeOK
<1>2. CASE Tick(p)
      BY <1>0, <1>2 DEF Tick, TypeOK
<1>3. CASE NextFile(p)
  <2>1. pc' \in [Procs -> HandlerSteps \cup ReplaySteps]
        BY <1>0, <1>3 DEF NextFile, ReplayDone, TypeOK
  <2>2. CASE todo[p] = {} /\ UNCHANGED <<todo, cur>>
        BY <1>0, <1>3, <2>1, <2>2 DEF NextFile, TypeOK
  <2>3. ASSUME NEW i \in todo[p], todo' = [todo EXCEPT ![p] = @ \ {i}],
               cur' = cur \/ cur' = [cur EXCEPT ![p] = i]
        PROVE  TypeOK'
    <3>1. i \in 0..NumFiles /\ todo[p] \subseteq Files
          BY <1>0 DEF TypeOK, Files
    <3>q. QED BY <1>0, <1>3, <2>1, <2>3, <3>1 DEF NextFile, TypeOK
  <2>q. QED BY <1>3, <2>2, <2>3 DEF NextFile
<1>4. CASE SetAside(p)
      BY <1>0, <1>4 DEF SetAside, TypeOK
<1>5. CASE Insert(p)
  <2>1. file[cur[p]].edit \in Edits
        BY <1>0, <1>5 DEF Insert, Knows, FilesOK
  <2>q. QED BY <1>0, <1>5, <2>1 DEF Insert, ReplayDone, TypeOK
<1>6. CASE Remove(p)
  <2>1. faults' \in 0..MaxFaults
        BY <1>0, <1>6 DEF Remove, TypeOK
  <2>q. QED BY <1>0, <1>6, <2>1 DEF Remove, TypeOK
<1>q. QED BY <1>1, <1>2, <1>3, <1>4, <1>5, <1>6 DEF ReplayStep

\* A crash, an expiry or an outage keeps the types.
LEMMA OtherTyped ==
    ASSUME IInv, [Next]_vars,
           (\E p \in Procs : Crash(p)) \/ (\E e \in Edits : Expire(e)) \/ DbFails \/ DbRecovers \/ UNCHANGED vars
    PROVE  TypeOK'
<1> USE CaptureAssumption, FilesTyped DEF World, Local, History, Store, Go, HandlerSteps, ReplaySteps
<1>0. TypeOK
      BY DEF IInv
<1>1. ASSUME NEW p \in Procs, Crash(p) PROVE TypeOK'
      BY <1>0, <1>1 DEF Crash, TypeOK
<1>2. ASSUME NEW e \in Edits, Expire(e) PROVE TypeOK'
      BY <1>0, <1>2 DEF Expire, TypeOK
<1>3. CASE DbFails \/ DbRecovers
  <2>1. outages' \in 0..MaxOutages
        BY <1>0, <1>3 DEF DbFails, DbRecovers, TypeOK
  <2>2. up' \in BOOLEAN
        BY <1>3 DEF DbFails, DbRecovers
  <2>3. UNCHANGED <<rows, cache, faults, pc, todo, cur, snap, opened, kept, dropped>>
        BY <1>3 DEF DbFails, DbRecovers
  <2>q. QED BY <1>0, <2>1, <2>2, <2>3 DEF TypeOK
<1>4. CASE UNCHANGED vars
      BY <1>0, <1>4 DEF vars, TypeOK
<1>q. QED BY <1>1, <1>2, <1>3, <1>4

\* So every step keeps the types.
LEMMA StepTyped == ASSUME IInv, [Next]_vars PROVE TypeOK'
BY HandlerTyped, ReplayTyped, OtherTyped DEF Next

-----------------------------------------------------------------------------
(* What the processes know *)

StepOf(p) == (p \in Handlers /\ HandlerStep(p)) \/ ReplayStep(p) \/ Crash(p)

\* A step of one process leaves the others, and the files they are writing, alone.
LEMMA OthersStay ==
    ASSUME IInv, Moves, NEW p \in Procs, StepOf(p), NEW q \in Procs, q # p
    PROVE  /\ pc'[q] = pc[q] /\ cur'[q] = cur[q] /\ snap'[q] = snap[q]
           /\ pc[q] = "rename" => file'[cur[q]] = file[cur[q]]
<1> USE DEF World, Local, History, Store, Go
<1>0. TypeOK /\ Knows(q) /\ WritersOK
      BY DEF IInv
<1>1. CASE p \in Handlers /\ HandlerStep(p) /\ ~SpillRename(p) /\ ~SpillWrite(p)
      BY <1>0, <1>1 DEF HandlerStep, CheckCache, OpenDb, Enqueue, SpillFails, AfterSpill, Fetch,
                        RememberRead, RememberWrite, TypeOK
<1>2. CASE p \in Handlers /\ SpillWrite(p)
  <2>1. PICK i \in Files : First(i, Unused) /\ file' = [file EXCEPT ![i] = [edit |-> EditOf[p], st |-> "tmp"]]
                           /\ cur' = [cur EXCEPT ![p] = i]
        BY <1>2 DEF SpillWrite
  <2>2. pc[q] = "rename" => cur[q] \in Files /\ cur[q] # i
        BY <1>0, <2>1 DEF Knows, First, Unused
  <2>q. QED BY <1>0, <1>2, <2>1, <2>2 DEF SpillWrite, TypeOK
<1>3. CASE p \in Handlers /\ SpillRename(p)
  <2>1. pc[q] = "rename" => cur[q] \in Files /\ cur[q] # cur[p]
        BY <1>0, <1>3 DEF Knows, WritersOK, SpillRename
  <2>2. file' = [file EXCEPT ![cur[p]] = file'[cur[p]]]
        BY <1>0, <1>3 DEF SpillRename, TypeOK
  <2>3. pc'[q] = pc[q] /\ cur'[q] = cur[q] /\ snap'[q] = snap[q]
        BY <1>0, <1>3 DEF SpillRename, AfterSpill, TypeOK
  <2>q. QED BY <1>0, <2>1, <2>2, <2>3 DEF TypeOK
<1>4. CASE ReplayStep(p)
  <2>1. pc'[q] = pc[q] /\ cur'[q] = cur[q] /\ snap'[q] = snap[q]
        BY <1>0, <1>4 DEF ReplayStep, List, Tick, NextFile, ReplayDone, SetAside, Insert, Remove, TypeOK
  <2>2. ASSUME pc[q] = "rename", file'[cur[q]] # file[cur[q]] PROVE FALSE
    <3>1. cur[q] \in Files /\ file[cur[q]].st = "tmp"
          BY <1>0, <2>2 DEF Knows
    <3>2. Knows(p) /\ (SetAside(p) \/ Remove(p))
          BY <1>4, <2>2 DEF ReplayStep, List, Tick, NextFile, Insert, IInv
    <3>3. cur[p] \in Files /\ cur[p] # cur[q]
          BY <3>1, <3>2 DEF Knows, SetAside, Remove
    <3>q. QED BY <1>0, <2>2, <3>1, <3>2, <3>3 DEF SetAside, Remove, TypeOK
  <2>q. QED BY <2>1, <2>2
<1>5. CASE Crash(p)
      BY <1>0, <1>5 DEF Crash, TypeOK
<1>q. QED BY <1>1, <1>2, <1>3, <1>4, <1>5 DEF StepOf, HandlerStep

\* A process that has stepped knows its file: it has just read or written it.
LEMMA SelfKnows == ASSUME IInv, Moves, NEW p \in Procs, StepOf(p) PROVE Knows(p)'
<1> USE DEF World, Local, History, Store, Go
<1>0. TypeOK /\ Knows(p)
      BY DEF IInv
<1>1. CASE p \in Handlers /\ HandlerStep(p) /\ ~SpillWrite(p)
  <2>1. pc'[p] \notin {"insert", "remove", "setaside", "rename"}
        BY <1>0, <1>1 DEF HandlerStep, CheckCache, OpenDb, Enqueue, SpillRename, SpillFails, AfterSpill,
                          Fetch, RememberRead, RememberWrite, TypeOK
  <2>q. QED BY <2>1 DEF Knows
<1>2. CASE p \in Handlers /\ SpillWrite(p)
      BY <1>0, <1>2 DEF SpillWrite, Knows, TypeOK
<1>3. CASE List(p) \/ Tick(p) \/ SetAside(p) \/ Remove(p) \/ Crash(p)
  <2>1. pc'[p] \notin {"insert", "remove", "setaside", "rename"}
        BY <1>0, <1>3 DEF List, Tick, SetAside, Remove, Crash, TypeOK
  <2>q. QED BY <2>1 DEF Knows
<1>4. CASE NextFile(p)
  <2>1. CASE pc'[p] \in {"enqueue", "idle", "next"}
        BY <2>1 DEF Knows
  <2>2. ASSUME NEW i \in todo[p], file[i].st = "good", pc'[p] = "insert", cur'[p] = i PROVE Knows(p)'
        BY <1>0, <1>4, <2>2 DEF NextFile, Knows, TypeOK
  <2>3. ASSUME NEW i \in todo[p], file[i].st = "bad", pc'[p] = "setaside", cur'[p] = i PROVE Knows(p)'
        BY <1>0, <1>4, <2>3 DEF NextFile, Knows, TypeOK
  <2>q. QED BY <1>0, <1>4, <2>1, <2>2, <2>3 DEF NextFile, ReplayDone, TypeOK
<1>5. CASE Insert(p)
  <2>1. cur[p] \in Files /\ file[cur[p]].st \in {"good", "gone"} /\ file' = file
        BY <1>0, <1>5 DEF Insert, Knows
  <2>2. CASE p \notin Mute /\ up
    <3>1. pc'[p] = "remove" /\ cur' = cur /\ file[cur[p]].edit \in rows'
          BY <1>0, <1>5, <2>2 DEF Insert, TypeOK
    <3>q. QED BY <2>1, <3>1 DEF Knows
  <2>3. CASE ~(p \notin Mute /\ up)
    <3>1. pc'[p] \in {"enqueue", "idle"}
          BY <1>0, <1>5, <2>3 DEF Insert, ReplayDone, TypeOK
    <3>q. QED BY <3>1 DEF Knows
  <2>q. QED BY <2>2, <2>3
<1>q. QED BY <1>1, <1>2, <1>3, <1>4, <1>5 DEF StepOf, ReplayStep, HandlerStep

\* A process begins to write a file only by SpillWrite, and that file was unused.
LEMMA NewWriter ==
    ASSUME IInv, NEW p \in Procs, StepOf(p), pc'[p] = "rename"
    PROVE  /\ p \in Handlers /\ cur'[p] \in Files /\ file[cur'[p]].st = "none"
           /\ file'[cur'[p]].edit = EditOf[p]
<1> USE DEF World, Local, History, Store, Go
<1>0. TypeOK
      BY DEF IInv
<1>1. p \in Handlers /\ SpillWrite(p)
  <2>1. ASSUME p \in Handlers, HandlerStep(p), ~SpillWrite(p) PROVE FALSE
        BY <1>0, <2>1 DEF HandlerStep, CheckCache, OpenDb, Enqueue, SpillRename, SpillFails, AfterSpill,
                          Fetch, RememberRead, RememberWrite, TypeOK
  <2>2. ASSUME ReplayStep(p) PROVE FALSE
        BY <1>0, <2>2 DEF ReplayStep, List, Tick, NextFile, ReplayDone, SetAside, Insert, Remove, TypeOK
  <2>3. ASSUME Crash(p) PROVE FALSE
        BY <1>0, <2>3 DEF Crash, TypeOK
  <2>q. QED BY <2>1, <2>2, <2>3 DEF StepOf, HandlerStep
<1>q. QED BY <1>0, <1>1 DEF SpillWrite, First, Unused, TypeOK

\* The writers keep apart.
LEMMA WritersStay == ASSUME IInv, Moves, NEW p \in Procs, StepOf(p) PROVE WritersOK'
<1>0. WritersOK /\ \A q \in Procs : Knows(q)
      BY DEF IInv
<1>1. ASSUME NEW h \in Handlers, pc'[h] = "rename" PROVE file'[cur'[h]].edit = EditOf[h]
  <2>1. CASE h = p
        BY <1>1, <2>1, NewWriter
  <2>2. CASE h # p
        BY <1>0, <1>1, <2>2, OthersStay DEF WritersOK, Procs
  <2>q. QED BY <2>1, <2>2
<1>2. ASSUME NEW q \in Procs, q # p, pc'[q] = "rename", pc'[p] = "rename" PROVE cur'[p] # cur'[q]
  <2>1. cur'[q] = cur[q] /\ file[cur[q]].st = "tmp"
        BY <1>0, <1>2, OthersStay DEF Knows
  <2>2. file[cur'[p]].st = "none"
        BY <1>2, NewWriter
  <2>q. QED BY <2>1, <2>2
<1>3. ASSUME NEW q \in Procs, NEW r \in Procs, q # p, r # p, pc'[q] = "rename", pc'[r] = "rename",
             cur'[q] = cur'[r]
      PROVE  q = r
      BY <1>0, <1>3, OthersStay DEF WritersOK
<1>q. QED BY <1>1, <1>2, <1>3 DEF WritersOK

-----------------------------------------------------------------------------
(* The skip cache and the promise to the hook *)

\* What has been dealt with stays so.
LEMMA DealtStays == ASSUME IInv, Moves, NEW h \in Handlers, Dealt(h), pc'[h] = pc[h] PROVE Dealt(h)'
<1>1. pc[h] \in {"fetch", "remember", "save"} => Safe(EditOf[h])'
      BY SafeStays DEF Dealt
<1>2. pc[h] = "skipped" => Covered(EditOf[h])'
  <2> SUFFICES ASSUME pc[h] = "skipped" PROVE Covered(EditOf[h])'
      OBVIOUS
  <2>1. PICK f \in Edits : Alike(f, EditOf[h]) /\ Safe(f)
        BY DEF Dealt, Covered
  <2>2. Safe(f)'
        BY <2>1, SafeStays
  <2>q. QED BY <2>1, <2>2 DEF Covered, Alike
<1>q. QED BY <1>1, <1>2 DEF Dealt

\* A handler that has just been told its edit is stored, or that it is dropped: the
\* edit is safe, and if it was told so the edit is stored.
LEMMA ToldIsTrue ==
    ASSUME IInv, Moves, NEW h \in Handlers, HandlerStep(h)
    PROVE  /\ Dealt(h)'
           /\ \A e \in kept' : e \in kept \/ Stored(e)'
<1> USE DEF World, Local, History, Store, Go
<1>0. TypeOK /\ CacheOK /\ WritersOK /\ Knows(h) /\ h \in Procs
      BY DEF IInv, Procs
<1>1. CASE CheckCache(h)
  <2>1. kept' = kept /\ pc'[h] \in {"skipped", "open"}
        BY <1>0, <1>1 DEF CheckCache, TypeOK
  <2>2. ASSUME pc'[h] = "skipped" PROVE Covered(EditOf[h])'
    <3>1. PICK f \in cache : Alike(EditOf[h], f)
          BY <1>0, <1>1, <2>2 DEF CheckCache, Hit, TypeOK
    <3>2. f \in Edits /\ Safe(f)
          BY <1>0, <3>1 DEF CacheOK, TypeOK
    <3>3. Safe(f)'
          BY <3>2, SafeStays
    <3>q. QED BY <3>1, <3>2, <3>3 DEF Covered, Alike
  <2>q. QED BY <2>1, <2>2 DEF Dealt
<1>2. CASE OpenDb(h)
      BY <1>0, <1>2 DEF OpenDb, TypeOK, Dealt
<1>3. CASE Enqueue(h)
  <2>1. pc'[h] \in {"fetch", "write"}
        BY <1>0, <1>3 DEF Enqueue, TypeOK
  <2>2. pc'[h] = "fetch" => Safe(EditOf[h])'
        BY <1>0, <1>3 DEF Enqueue, Safe, Stored, TypeOK
  <2>3. \A e \in kept' : e \in kept \/ Stored(e)'
        BY <1>3 DEF Enqueue, Stored
  <2>q. QED BY <2>1, <2>2, <2>3 DEF Dealt
<1>4. CASE SpillWrite(h)
      BY <1>0, <1>4 DEF SpillWrite, TypeOK, Dealt
<1>5. CASE SpillRename(h)
  <2>1. cur[h] \in Files /\ file[cur[h]].st = "tmp" /\ file[cur[h]].edit = EditOf[h]
        BY <1>0, <1>5 DEF SpillRename, Knows, WritersOK
  <2>2. file[cur[h]] = [edit |-> EditOf[h], st |-> "tmp"]
        BY <1>0, <2>1 DEF TypeOK
  <2>3. file'[cur[h]] = [edit |-> EditOf[h], st |-> "good"]
        BY <1>0, <1>5, <2>1, <2>2 DEF SpillRename, TypeOK
  <2>4. Stored(EditOf[h])'
        BY <2>1, <2>3 DEF Stored
  <2>5. pc'[h] \in {"fetch", "end"}
        BY <1>0, <1>5 DEF SpillRename, AfterSpill, TypeOK
  <2>q. QED BY <1>5, <2>4, <2>5 DEF SpillRename, Safe, Dealt
<1>6. CASE SpillFails(h)
  <2>1. pc'[h] \in {"fetch", "end"}
        BY <1>0, <1>6 DEF SpillFails, AfterSpill, TypeOK
  <2>q. QED BY <1>6, <2>1 DEF SpillFails, Safe, Dealt
<1>7. CASE Fetch(h) \/ RememberRead(h) \/ RememberWrite(h)
  <2>1. /\ kept' = kept /\ pc[h] \in {"fetch", "remember", "save"}
        /\ pc'[h] \in {"remember", "save", "end"}
        BY <1>0, <1>7 DEF Fetch, RememberRead, RememberWrite, TypeOK
  <2>2. Safe(EditOf[h])'
        BY <1>0, <2>1, SafeStays DEF CacheOK, Dealt
  <2>q. QED BY <2>1, <2>2 DEF Dealt
<1>q. QED BY <1>1, <1>2, <1>3, <1>4, <1>5, <1>6, <1>7 DEF HandlerStep

\* The cache and its copies gain only what a handler has dealt with.
LEMMA CacheStays == ASSUME IInv, Moves, [Next]_vars PROVE CacheOK'
<1> USE DEF World, Local, History, Store, Go
<1>0. TypeOK /\ CacheOK
      BY DEF IInv
<1>1. ASSUME cache' \subseteq cache, \A q \in Procs : snap'[q] \subseteq snap[q],
             \A h \in Handlers : pc'[h] = pc[h] \/ Dealt(h)'
      PROVE  CacheOK'
  <2>1. \A e \in cache' : Safe(e)'
        BY <1>0, <1>1, SafeStays DEF CacheOK
  <2>2. \A q \in Procs : \A e \in snap'[q] : Safe(e)'
        BY <1>0, <1>1, SafeStays DEF CacheOK
  <2>3. \A h \in Handlers : Dealt(h)'
        BY <1>0, <1>1, DealtStays DEF CacheOK
  <2>q. QED BY <2>1, <2>2, <2>3 DEF CacheOK
<1>2. ASSUME NEW h \in Handlers, HandlerStep(h) PROVE CacheOK'
  <2>0. h \in Procs /\ StepOf(h)
        BY <1>2 DEF Procs, StepOf
  <2>1. \A g \in Handlers : pc'[g] = pc[g] \/ Dealt(g)'
        BY <1>2, <2>0, ToldIsTrue, OthersStay DEF Procs
  <2>2. CASE RememberRead(h)
    <3>1. \A q \in Procs : \A e \in snap'[q] : Safe(e)
          BY <1>0, <2>2 DEF RememberRead, CacheOK, TypeOK
    <3>2. \A q \in Procs : \A e \in snap'[q] : Safe(e)'
          BY <3>1, SafeStays
    <3>3. \A e \in cache' : Safe(e)'
          BY <1>0, <2>2, SafeStays DEF RememberRead, CacheOK
    <3>4. \A g \in Handlers : Dealt(g)'
          BY <1>0, <2>1, DealtStays DEF CacheOK
    <3>q. QED BY <3>2, <3>3, <3>4 DEF CacheOK
  <2>3. CASE RememberWrite(h)
    <3>1. \A e \in cache' : Safe(e)
          BY <1>0, <2>0, <2>3 DEF RememberWrite, Entered, CacheOK, Dealt
    <3>2. \A e \in cache' : Safe(e)'
          BY <3>1, SafeStays
    <3>3. \A q \in Procs : snap'[q] \subseteq snap[q]
          BY <1>0, <2>3 DEF RememberWrite, TypeOK
    <3>4. \A q \in Procs : \A e \in snap'[q] : Safe(e)'
          BY <1>0, <3>3, SafeStays DEF CacheOK
    <3>5. \A g \in Handlers : Dealt(g)'
          BY <1>0, <2>1, DealtStays DEF CacheOK
    <3>q. QED BY <3>2, <3>4, <3>5 DEF CacheOK
  <2>4. CASE ~RememberRead(h) /\ ~RememberWrite(h)
    <3>1. cache' = cache /\ snap' = snap
          BY <1>2, <2>4 DEF HandlerStep, CheckCache, OpenDb, Enqueue, SpillWrite, SpillRename, SpillFails, Fetch
    <3>q. QED BY <1>1, <2>1, <3>1
  <2>q. QED BY <2>2, <2>3, <2>4
<1>3. ASSUME NEW p \in Procs, ReplayStep(p) \/ Crash(p) PROVE CacheOK'
  <2>1. cache' = cache /\ \A q \in Procs : snap'[q] \subseteq snap[q]
        BY <1>0, <1>3 DEF ReplayStep, List, Tick, NextFile, SetAside, Insert, Remove, Crash, TypeOK
  <2>2. pc'[p] \notin {"fetch", "remember", "save", "skipped"}
        BY <1>0, <1>3 DEF ReplayStep, List, Tick, NextFile, ReplayDone, SetAside, Insert, Remove, Crash, TypeOK
  <2>3. \A h \in Handlers : h # p => pc'[h] = pc[h]
        BY <1>3, OthersStay DEF StepOf, Procs
  <2>4. \A h \in Handlers : pc'[h] = pc[h] \/ Dealt(h)'
        BY <2>2, <2>3 DEF Dealt
  <2>q. QED BY <1>1, <2>1, <2>4
<1>4. ASSUME NEW e \in Edits, Expire(e) PROVE CacheOK'
      BY <1>1, <1>4 DEF Expire
<1>5. CASE DbFails \/ DbRecovers \/ UNCHANGED vars
      BY <1>1, <1>5 DEF DbFails, DbRecovers, vars
<1>q. QED BY <1>2, <1>3, <1>4, <1>5 DEF Next

\* What a hook was told is stored stays stored.
LEMMA KeptStays == ASSUME IInv, Moves, [Next]_vars PROVE CapturedIsStored'
<1> USE DEF World, Local, History, Store
<1>1. \A e \in kept' : e \in kept \/ Stored(e)'
  <2>1. ASSUME NEW h \in Handlers, HandlerStep(h) PROVE \A e \in kept' : e \in kept \/ Stored(e)'
        BY <2>1, ToldIsTrue
  <2>2. CASE kept' = kept
        BY <2>2
  <2>3. ASSUME (\E p \in Procs : ReplayStep(p) \/ Crash(p)) \/ (\E e \in Edits : Expire(e))
               \/ DbFails \/ DbRecovers \/ UNCHANGED vars
        PROVE  kept' = kept
        BY <2>3 DEF ReplayStep, List, Tick, NextFile, SetAside, Insert, Remove, Crash, Expire, DbFails,
                    DbRecovers, vars
  <2>q. QED BY <2>1, <2>2, <2>3 DEF Next
<1>2. \A e \in kept : Stored(e)'
      BY StoredStays DEF IInv, CapturedIsStored
<1>q. QED BY <1>1, <1>2 DEF CapturedIsStored

\* The invariant is inductive.
LEMMA StepIInv == IInv /\ [Next]_vars => IInv'
<1> SUFFICES ASSUME IInv, [Next]_vars PROVE IInv'
    OBVIOUS
<1>1. Moves
      BY StepMoves
<1>2. TypeOK' /\ FilesOK' /\ CacheOK' /\ CapturedIsStored'
      BY <1>1, StepTyped, FilesStay, CacheStays, KeptStays
<1>3. CASE \E p \in Procs : StepOf(p)
  <2>1. PICK p \in Procs : StepOf(p)
        BY <1>3
  <2>2. \A q \in Procs : Knows(q)'
        BY <1>1, <2>1, SelfKnows, OthersStay, KnowsStays
  <2>3. WritersOK'
        BY <1>1, <2>1, WritersStay
  <2>q. QED BY <1>2, <2>2, <2>3 DEF IInv
<1>4. CASE (\E e \in Edits : Expire(e)) \/ DbFails \/ DbRecovers \/ UNCHANGED vars
  <2>1. pc' = pc /\ cur' = cur /\ file' = file
        BY <1>4 DEF Expire, DbFails, DbRecovers, vars, World, Local, History, Store
  <2>2. \A q \in Procs : Knows(q)'
        BY <1>1, <2>1, KnowsStays
  <2>3. WritersOK'
        BY <2>1 DEF WritersOK, IInv
  <2>q. QED BY <1>2, <2>2, <2>3 DEF IInv
<1>q. QED BY <1>3, <1>4 DEF Next, StepOf, Procs

-----------------------------------------------------------------------------
(* The theorems *)

\* The hook capture keeps its types: in particular a row of the outbox is never that
\* of a file no hook has spilled.
THEOREM CaptureTyped == Spec => []TypeOK
<1>1. IInv => TypeOK
      BY DEF IInv
<1>q. QED BY <1>1, InitIInv, StepIInv, PTL DEF Spec

\* An observation a hook was told is stored, by enqueue or by spill_payload, is in the
\* outbox or in a readable spill file ever after.
THEOREM CapturedStaysStored == Spec => []CapturedIsStored
<1>1. IInv => CapturedIsStored
      BY DEF IInv
<1>q. QED BY <1>1, InitIInv, StepIInv, PTL DEF Spec

\* quarantine_bad_spill never gets a file that spill_payload has written, whenever
\* replay_spilled_observations reads the directory.
THEOREM SpillsStayReadable == Spec => []SpillsAreNotSetAside
<1>1. IInv => SpillsAreNotSetAside
      BY DEF IInv, FilesOK, SpillsAreNotSetAside
<1>q. QED BY <1>1, InitIInv, StepIInv, PTL DEF Spec

\* should_skip_recent skips an edit only behind a handling, of it or of an edit of the
\* same file that begins alike, that has stored the observation or found that it could
\* not: no crash in between makes the cache swallow an edit.
THEOREM SkipsAreEarned == Spec => []SkippedWasStored
<1>1. IInv => SkippedWasStored
      BY DEF IInv, CacheOK, Dealt, Covered, SkippedWasStored, Safe
<1>q. QED BY <1>1, InitIInv, StepIInv, PTL DEF Spec

=============================================================================
