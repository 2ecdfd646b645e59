-------------------------- MODULE AtomicSaveProofs --------------------------
(***************************************************************************)
(* What AtomicSave promises for any number of saves.                       *)
(*                                                                         *)
(* Two groups of theorems.  The first holds whatever the callers do about  *)
(* locks: type correctness, and that saves harm each other only where they *)
(* meet between creating the temporary file and renaming it.  The second is about saves that are     *)
(* serialised and whose callers wait for them: the final path is intact at *)
(* every moment, what was acknowledged survives, and the file implements   *)
(* the register of DurableFile.                                            *)
(***************************************************************************)
EXTENDS AtomicSave, TLAPS

(* Inode v is save v's to create: until then nothing leads to it. *)
OwnInodes ==
    \A v \in Saves :
        step[v] \in {"unborn", "create"} =>
            /\ tmp # v /\ v \notin entries
            /\ \A u \in Saves : fd[u] # v

BirthOrder == \A v \in Saves : v > issued => step[v] = "unborn"

(* Saves that have the temporary file open together have met; so a save that *)
(* no other met is alone with it.                                            *)
Meetings == \A u, v \in Open : u # v => v \in met

(* A save alone with its temporary file finds it where and as it left it. *)
Untouched ==
    \A v \in Open \ met :
        /\ tmp = fd[v]
        /\ step[v] = "write" => page[fd[v]] = Blank
        /\ step[v] \in {"sync", "rename"} => page[fd[v]] = v
        /\ step[v] = "rename" => disk[fd[v]] = v

(* As long as no saves have met, all that was renamed is synced and whole. *)
WholeSoFar ==
    met = {} =>
        /\ tmp \notin entries
        /\ \A i \in entries : page[i] = disk[i] /\ page[i] \in Inodes

FreeInv ==
    /\ TypeOK
    /\ final \in entries
    /\ OwnInodes
    /\ BirthOrder
    /\ Meetings
    /\ Untouched
    /\ WholeSoFar

(* Serialised saves: only the newest one can be under way. *)
Serialised ==
    /\ \A v \in awaiting : v = issued
    /\ \A v \in Saves : step[v] \in Running => v \in awaiting

(* Whatever a power failure may bring back is a synced, complete document, *)
(* no older than the last one acknowledged.                                *)
EntriesSound ==
    /\ tmp \notin entries
    /\ \A i \in entries :
          /\ page[i] = disk[i]
          /\ page[i] \in acked..issued

(* The save under way: where it is, and what its files hold. *)
Unpublished == {"create", "write", "sync", "rename"}

InProgress ==
    \A v \in Saves :
        /\ step[v] \in Unpublished => \A i \in entries : page[i] < v
        /\ step[v] \in {"write", "sync", "rename"} => tmp = fd[v]
        /\ step[v] = "write" => page[fd[v]] = Blank
        /\ step[v] \in {"sync", "rename"} => page[fd[v]] = v
        /\ step[v] = "rename" => disk[fd[v]] = v
        /\ step[v] = "syncdir" => page[final] = v
        /\ v \in awaiting /\ step[v] = "ok" => page[final] = v /\ entries = {final}

LockedInv == FreeInv /\ Serialised /\ EntriesSound /\ InProgress
-----------------------------------------------------------------------------
(* Without locks. *)

\* The initial state is well typed, and so is what any step leads to.
LEMMA TypeStep ==
    ASSUME TypeOK, [Next]_vars
    PROVE  TypeOK'
<1> USE SaveConstants DEF TypeOK, Saves, Inodes, Content, Steps, Running
<1>1. CASE Begin
    BY <1>1 DEF Begin
<1>2. ASSUME NEW v \in Saves, CreateTmp(v)
      PROVE  TypeOK'
    <2>1. Open \subseteq Saves
        BY DEF Open
    <2>2. met' \in SUBSET Saves
        BY <2>1, <1>2 DEF CreateTmp
    <2>3. issued' = issued /\ awaiting' = awaiting /\ disk' = disk /\ final' = final
          /\ entries' = entries /\ acked' = acked
        BY <1>2 DEF CreateTmp
    <2>4. step' \in [Saves -> Steps]
        BY <1>2 DEF CreateTmp
    <2>5. fd' \in [Saves -> Inodes] /\ tmp' \in Inodes \cup {Absent}
          /\ page' \in [Inodes -> Content]
        <3> DEFINE i == IF tmp = Absent THEN v ELSE tmp
        <3>1. i \in Inodes
            OBVIOUS
        <3>2. fd' = [fd EXCEPT ![v] = i] /\ tmp' = i /\ page' = [page EXCEPT ![i] = Blank]
            BY <1>2 DEF CreateTmp
        <3> HIDE DEF i
        <3> QED
            BY <3>1, <3>2
    <2> QED
        BY <2>2, <2>3, <2>4, <2>5
<1>3. ASSUME NEW v \in Saves, WriteAll(v)
      PROVE  TypeOK'
    BY <1>3 DEF WriteAll, Overlay
<1>4. ASSUME NEW v \in Saves, SyncFile(v)
      PROVE  TypeOK'
    BY <1>4 DEF SyncFile
<1>5. ASSUME NEW v \in Saves, Rename(v)
      PROVE  TypeOK'
    BY <1>5 DEF Rename
<1>6. ASSUME NEW v \in Saves, RenameMissing(v)
      PROVE  TypeOK'
    BY <1>6 DEF RenameMissing
<1>7. ASSUME NEW v \in Saves, SyncDir(v)
      PROVE  TypeOK'
    BY <1>7 DEF SyncDir
<1>8. ASSUME NEW v \in Saves, Fail(v)
      PROVE  TypeOK'
    BY <1>8 DEF Fail
<1>9. ASSUME NEW v \in Saves, Return(v) \/ Cancel(v)
      PROVE  TypeOK'
    <2>1. awaiting' \subseteq awaiting /\ acked' \in {v, acked}
        BY <1>9 DEF Return, Cancel
    <2>2. UNCHANGED <<issued, step, fd, page, disk, tmp, final, entries, met>>
        BY <1>9 DEF Return, Cancel
    <2> QED
        BY <2>1, <2>2
<1>10. CASE ProcessExit
    BY <1>10 DEF ProcessExit, StopAll
<1>11. CASE PowerLoss
    BY <1>11 DEF PowerLoss, StopAll, Remains
<1>12. CASE UNCHANGED vars
    BY <1>12 DEF vars
<1> HIDE DEF TypeOK, Saves
<1> QED
    BY <1>1, <1>2, <1>3, <1>4, <1>5, <1>6, <1>7, <1>8, <1>9, <1>10, <1>11, <1>12
    DEF Next, TaskStep

\* Every state of save_bytes_atomic is well typed, however its calls overlap,
\* fail and are cut off.
THEOREM TypeCorrect == Spec => []TypeOK
<1>1. Init => TypeOK
    BY SaveConstants DEF Init, TypeOK, Saves, Inodes, Content, Steps, Running
<1>2. TypeOK /\ [Next]_vars => TypeOK'
    BY TypeStep
<1> QED
    BY <1>1, <1>2, PTL DEF Spec

LEMMA FreeInit == Init => FreeInv
<1> SUFFICES ASSUME Init PROVE FreeInv
    OBVIOUS
<1>1. TypeOK
    BY SaveConstants DEF Init, TypeOK, Saves, Inodes, Content, Steps, Running
<1>2. final \in entries /\ BirthOrder /\ OwnInodes
    BY SaveConstants DEF Init, BirthOrder, OwnInodes, Saves
<1>3. Open = {}
    BY DEF Init, Open
<1>4. Meetings /\ Untouched
    BY <1>3 DEF Meetings, Untouched
<1>5. WholeSoFar
    BY SaveConstants DEF Init, WholeSoFar, Inodes
<1> QED
    BY <1>1, <1>2, <1>4, <1>5 DEF FreeInv

\* A save no other met is the only one that has the temporary file open.
LEMMA NobodyElse ==
    ASSUME Meetings, NEW v \in Open \ met
    PROVE  Open = {v}
BY DEF Meetings

\* What holds without locks is inductive.
LEMMA FreeStep ==
    ASSUME FreeInv, [Next]_vars
    PROVE  FreeInv'
<1> USE SaveConstants
<1> DEFINE Files == Meetings /\ Untouched /\ WholeSoFar
<1>0. TypeOK /\ final \in entries /\ OwnInodes /\ BirthOrder /\ Files
    BY DEF FreeInv
<1>1. TypeOK'
    BY TypeStep, <1>0
<1> SUFFICES (final \in entries /\ OwnInodes /\ BirthOrder /\ Files)'
    BY <1>1 DEF FreeInv
<1>2. CASE Begin
    <2> USE <1>0, <1>2 DEF Begin, TypeOK, Saves, Inodes
    <2>1. final' \in entries' /\ OwnInodes' /\ BirthOrder'
        BY DEF OwnInodes, BirthOrder
    <2>2. Open' = Open
        BY DEF Open, BirthOrder
    <2>3. \A v \in Open : step'[v] = step[v]
        BY DEF Open, BirthOrder
    <2>4. Files'
        BY <2>2, <2>3 DEF Meetings, Untouched, WholeSoFar
    <2> QED
        BY <2>1, <2>4
<1>3. ASSUME NEW v \in Saves, CreateTmp(v)
      PROVE  (final \in entries /\ OwnInodes /\ BirthOrder /\ Files)'
    <2> DEFINE i == IF tmp = Absent THEN v ELSE tmp
    <2>1. /\ fd' = [fd EXCEPT ![v] = i] /\ tmp' = i
          /\ page' = [page EXCEPT ![i] = Blank]
          /\ step' = [step EXCEPT ![v] = "write"]
          /\ step[v] = "create"
          /\ met' = IF Open = {} THEN met ELSE met \cup Open \cup {v}
          /\ UNCHANGED <<issued, disk, final, entries>>
        BY <1>3 DEF CreateTmp
    <2>2. i \in Inodes
        BY <1>0 DEF TypeOK, Saves, Inodes
    <2>3. \A u \in Saves \ {v} : step[u] \in {"unborn", "create"} => i # u
        BY <1>0 DEF OwnInodes, i
    <2>4. met = {} => i \notin entries
        BY <1>0, <2>1 DEF OwnInodes, WholeSoFar, i
    <2> HIDE DEF i
    <2>5. final' \in entries' /\ BirthOrder'
        BY <1>0, <2>1 DEF BirthOrder, TypeOK
    <2>6. OwnInodes'
        BY <1>0, <2>1, <2>2, <2>3 DEF OwnInodes, TypeOK, Saves, Inodes
    <2>7. Open' = Open \cup {v}
        BY <1>0, <2>1 DEF Open, TypeOK
    <2>8. Meetings'
        BY <1>0, <2>1, <2>7 DEF Meetings
    <2>9. Untouched'
      <3> SUFFICES ASSUME NEW u \in Open', u \notin met'
                   PROVE  u = v
          BY <1>0, <2>1, <2>2 DEF Untouched, TypeOK
      <3> QED
          BY <2>1, <2>7
    <2>10. WholeSoFar'
      <3> SUFFICES ASSUME met' = {}
                   PROVE  /\ tmp' \notin entries'
                          /\ \A j \in entries' : page'[j] = disk'[j] /\ page'[j] \in Inodes
          BY DEF WholeSoFar
      <3>1. met = {} /\ i \notin entries
          BY <2>1, <2>4
      <3> QED
          BY <3>1, <1>0, <2>1, <2>2 DEF WholeSoFar, TypeOK
    <2> QED
        BY <2>5, <2>6, <2>8, <2>9, <2>10
<1>4. ASSUME NEW v \in Saves, WriteAll(v)
      PROVE  (final \in entries /\ OwnInodes /\ BirthOrder /\ Files)'
    <2>1. PICK c \in Overlay(page[fd[v]], v) : page' = [page EXCEPT ![fd[v]] = c]
        BY <1>4 DEF WriteAll
    <2>2. /\ step' = [step EXCEPT ![v] = "sync"] /\ step[v] = "write"
          /\ UNCHANGED <<issued, fd, disk, tmp, final, entries, met>>
        BY <1>4 DEF WriteAll
    <2>3. final' \in entries' /\ OwnInodes' /\ BirthOrder'
        BY <1>0, <2>2 DEF OwnInodes, BirthOrder, TypeOK
    <2>4. Open' = Open /\ v \in Open
        BY <1>0, <2>2 DEF Open, TypeOK
    <2>5. Meetings'
        BY <1>0, <2>2, <2>4 DEF Meetings
    <2>6. Untouched'
      <3> SUFFICES ASSUME NEW u \in Open \ met
                   PROVE  /\ u = v /\ tmp = fd[v] /\ page'[fd[v]] = v
          BY <2>2, <2>4, <1>0 DEF Untouched, TypeOK
      <3>1. u = v /\ v \in Open \ met
          BY <1>0, <2>4, NobodyElse
      <3>2. tmp = fd[v] /\ page[fd[v]] = Blank
          BY <3>1, <1>0, <2>2 DEF Untouched
      <3>3. c = v
          BY <3>2, <2>1 DEF Overlay
      <3> QED
          BY <3>1, <3>2, <3>3, <2>1, <1>0 DEF TypeOK
    <2>7. WholeSoFar'
      <3>1. met = {} => fd[v] \notin entries
          BY <1>0, <2>4 DEF Untouched, WholeSoFar
      <3> QED
          BY <3>1, <1>0, <2>1, <2>2 DEF WholeSoFar, TypeOK
    <2> QED
        BY <2>3, <2>5, <2>6, <2>7
<1>5. ASSUME NEW v \in Saves, SyncFile(v)
      PROVE  (final \in entries /\ OwnInodes /\ BirthOrder /\ Files)'
    <2>1. /\ step[v] = "sync" /\ step' = [step EXCEPT ![v] = "rename"]
          /\ disk' = [disk EXCEPT ![fd[v]] = page[fd[v]]]
          /\ UNCHANGED <<issued, fd, page, tmp, final, entries, met>>
        BY <1>5 DEF SyncFile
    <2>2. final' \in entries' /\ OwnInodes' /\ BirthOrder'
        BY <1>0, <2>1 DEF OwnInodes, BirthOrder, TypeOK
    <2>3. Open' = Open /\ v \in Open
        BY <1>0, <2>1 DEF Open, TypeOK
    <2>4. Meetings'
        BY <1>0, <2>1, <2>3 DEF Meetings
    <2>5. Untouched'
      <3> SUFFICES ASSUME NEW u \in Open \ met
                   PROVE  /\ u = v /\ tmp = fd[v] /\ page[fd[v]] = v /\ disk'[fd[v]] = v
          BY <2>1, <2>3, <1>0 DEF Untouched, TypeOK
      <3>1. u = v /\ v \in Open \ met
          BY <1>0, <2>3, NobodyElse
      <3> QED
          BY <3>1, <1>0, <2>1 DEF Untouched, TypeOK
    <2>6. WholeSoFar'
        BY <1>0, <2>1 DEF WholeSoFar, TypeOK
    <2> QED
        BY <2>2, <2>4, <2>5, <2>6
<1>6. ASSUME NEW v \in Saves, Rename(v)
      PROVE  (final \in entries /\ OwnInodes /\ BirthOrder /\ Files)'
    <2>1. /\ step[v] = "rename" /\ tmp # Absent
          /\ final' = tmp /\ entries' = entries \cup {tmp} /\ tmp' = Absent
          /\ step' = [step EXCEPT ![v] = "syncdir"]
          /\ UNCHANGED <<issued, fd, page, disk, met>>
        BY <1>6 DEF Rename
    <2>2. final' \in entries' /\ OwnInodes' /\ BirthOrder'
        BY <1>0, <2>1 DEF OwnInodes, BirthOrder, TypeOK, Saves, Inodes
    <2>3. Open' = Open \ {v} /\ v \in Open
        BY <1>0, <2>1 DEF Open, TypeOK
    <2>4. Meetings'
        BY <1>0, <2>1, <2>3 DEF Meetings
    <2>5. Untouched'
      <3> SUFFICES ASSUME NEW u \in Open', u \notin met'
                   PROVE  FALSE
          BY DEF Untouched
      <3>1. u \in Open \ met /\ u # v
          BY <2>1, <2>3
      <3> QED
          BY <3>1, <1>0, <2>3, NobodyElse
    <2>6. WholeSoFar'
      <3> SUFFICES ASSUME met = {}
                   PROVE  /\ Absent \notin entries'
                          /\ \A j \in entries' : page[j] = disk[j] /\ page[j] \in Inodes
          BY <2>1 DEF WholeSoFar
      <3>1. page[tmp] = v /\ disk[tmp] = v
          BY <1>0, <2>1, <2>3 DEF Untouched
      <3>2. Absent \notin entries'
          BY <2>1, <1>0, <1>1 DEF TypeOK, Inodes
      <3> QED
          BY <3>1, <3>2, <1>0, <2>1 DEF WholeSoFar, Saves, Inodes
    <2> QED
        BY <2>2, <2>4, <2>5, <2>6
<1>7. ASSUME NEW v \in Saves, RenameMissing(v) \/ SyncDir(v)
      PROVE  (final \in entries /\ OwnInodes /\ BirthOrder /\ Files)'
    <2>1. /\ step[v] \in {"rename", "syncdir"}
          /\ \E s \in {"err", "ok"} : step' = [step EXCEPT ![v] = s]
          /\ entries' \in {entries, {final}}
          /\ UNCHANGED <<issued, fd, page, disk, tmp, final, met>>
        BY <1>7 DEF RenameMissing, SyncDir
    <2>2. final' \in entries' /\ OwnInodes' /\ BirthOrder'
        BY <1>0, <2>1 DEF OwnInodes, BirthOrder, TypeOK
    <2>3. Open' \subseteq Open /\ \A u \in Open' : step'[u] = step[u]
        BY <1>0, <2>1 DEF Open, TypeOK
    <2>4. Meetings' /\ Untouched'
        BY <1>0, <2>1, <2>3 DEF Meetings, Untouched
    <2>5. WholeSoFar'
        BY <1>0, <2>1 DEF WholeSoFar
    <2> QED
        BY <2>2, <2>4, <2>5
<1>8. ASSUME NEW v \in Saves, Fail(v)
      PROVE  (final \in entries /\ OwnInodes /\ BirthOrder /\ Files)'
    <2>1. /\ step[v] \in Running /\ step' = [step EXCEPT ![v] = "err"]
          /\ \/ page' = page
             \/ step[v] = "write" /\ page' = [page EXCEPT ![fd[v]] = Torn]
          /\ UNCHANGED <<issued, fd, disk, tmp, final, entries, met>>
        BY <1>8 DEF Fail
    <2>2. final' \in entries' /\ BirthOrder' /\ OwnInodes'
        BY <1>0, <2>1 DEF BirthOrder, OwnInodes, Running, TypeOK
    <2>3. Open' = Open \ {v}
        BY <1>0, <2>1 DEF Open, TypeOK
    <2>4. Meetings'
        BY <1>0, <2>1, <2>3 DEF Meetings
    <2>5. step[v] = "write" => v \in Open
        BY DEF Open
    <2>6. Untouched'
      <3> SUFFICES ASSUME NEW u \in Open \ met, u # v
                   PROVE  page' = page /\ step'[u] = step[u]
          BY <1>0, <2>1, <2>3 DEF Untouched
      <3>1. v \notin Open
          BY <1>0, NobodyElse
      <3> QED
          BY <3>1, <1>0, <2>1, <2>5 DEF TypeOK, Open
    <2>7. WholeSoFar'
      <3>1. met = {} /\ step[v] = "write" => fd[v] \notin entries
          BY <1>0, <2>5 DEF Untouched, WholeSoFar
      <3> QED
          BY <3>1, <1>0, <2>1 DEF WholeSoFar, TypeOK
    <2> QED
        BY <2>2, <2>4, <2>6, <2>7
<1>9. ASSUME NEW v \in Saves, Return(v) \/ Cancel(v)
      PROVE  (final \in entries /\ OwnInodes /\ BirthOrder /\ Files)'
    <2>1. UNCHANGED <<issued, step, fd, page, disk, tmp, final, entries, met>>
        BY <1>9 DEF Return, Cancel
    <2> QED
        BY <1>0, <2>1 DEF OwnInodes, BirthOrder, Meetings, Untouched, WholeSoFar, Open
<1>10. CASE ProcessExit
    <2> USE <1>0, <1>10 DEF ProcessExit, StopAll, Running, TypeOK
    <2>1. final' \in entries' /\ BirthOrder' /\ OwnInodes'
        BY DEF BirthOrder, OwnInodes
    <2>2. Open' = {}
        BY DEF Open
    <2>3. Meetings' /\ Untouched' /\ WholeSoFar'
        BY <2>2 DEF Meetings, Untouched, WholeSoFar
    <2> QED
        BY <2>1, <2>3
<1>11. CASE PowerLoss
    <2>1. PICK i \in entries, t \in {Absent, tmp, final} :
            \E c \in Remains(i) :
              /\ t # i /\ final' = i /\ entries' = {i} /\ tmp' = t
              /\ page' = [page EXCEPT ![i] = c]
              /\ disk' = [disk EXCEPT ![i] = c]
              /\ step' = StopAll /\ UNCHANGED <<issued, fd, met>>
        BY <1>11 DEF PowerLoss
    <2>2. PICK c \in Remains(i) :
              /\ t # i /\ final' = i /\ entries' = {i} /\ tmp' = t
              /\ page' = [page EXCEPT ![i] = c]
              /\ disk' = [disk EXCEPT ![i] = c]
              /\ step' = StopAll /\ UNCHANGED <<issued, fd, met>>
        BY <2>1
    <2>3. final' \in entries' /\ BirthOrder' /\ OwnInodes'
        BY <1>0, <2>2 DEF BirthOrder, OwnInodes, Saves, Inodes, StopAll, Running, TypeOK
    <2>4. Open' = {}
        BY <1>0, <2>2 DEF Open, StopAll, Running, TypeOK
    <2>5. Meetings' /\ Untouched'
        BY <2>4 DEF Meetings, Untouched
    <2>6. WholeSoFar'
      <3> SUFFICES ASSUME met = {}
                   PROVE  /\ t # i
                          /\ page'[i] = disk'[i] /\ page'[i] \in Inodes
          BY <2>2 DEF WholeSoFar
      <3>1. page[i] = disk[i] /\ page[i] \in Inodes
          BY <1>0 DEF WholeSoFar
      <3>2. c = page[i]
          BY <3>1 DEF Remains
      <3> QED
          BY <3>1, <3>2, <1>0, <2>2 DEF TypeOK
    <2> QED
        BY <2>3, <2>5, <2>6
<1>12. CASE UNCHANGED vars
    BY <1>0, <1>12
    DEF vars, OwnInodes, BirthOrder, Meetings, Untouched, WholeSoFar, Open
<1> QED
    BY <1>2, <1>3, <1>4, <1>5, <1>6, <1>7, <1>8, <1>9, <1>10, <1>11, <1>12 DEF Next, TaskStep

\* Whether or not callers hold a lock or wait: a save no other one met between
\* creating the temporary file and renaming it renames its own synced document,
\* and until two saves meet the final path is intact.
THEOREM SoleWriterSafe == Spec => []SoleWriterPublishesItself
<1>1. FreeInv /\ [Next]_vars => FreeInv'
    BY FreeStep
<1>2. FreeInv => SoleWriterPublishesItself
  <2> SUFFICES ASSUME FreeInv PROVE SoleWriterPublishesItself
      OBVIOUS
  <2>1. ASSUME NEW v \in Saves \ met, step[v] = "rename"
        PROVE  tmp = fd[v] /\ Remains(fd[v]) = {v}
      BY <2>1 DEF FreeInv, Untouched, Open, Remains
  <2>2. met = {} => FinalIntact
      BY DEF FreeInv, WholeSoFar, FinalIntact, Remains
  <2> QED
      BY <2>1, <2>2 DEF SoleWriterPublishesItself
<1> QED
    BY FreeInit, <1>1, <1>2, PTL DEF Spec
-----------------------------------------------------------------------------
(* With serialised saves whose callers wait. *)

Rest == Serialised /\ EntriesSound /\ InProgress

LEMMA LockedInit == Init => LockedInv
<1> SUFFICES ASSUME Init PROVE LockedInv
    OBVIOUS
<1>1. FreeInv
    BY FreeInit
<1>2. Serialised /\ EntriesSound /\ InProgress
    BY SaveConstants
    DEF Init, Serialised, EntriesSound, InProgress, Unpublished, Running, Saves, Inodes
<1> QED
    BY <1>1, <1>2 DEF LockedInv

\* The step that publishes: the renamed file is the one the save has just synced.
LEMMA RenamePublishes ==
    ASSUME LockedInv, NEW v \in Saves, Rename(v)
    PROVE  /\ v = issued /\ tmp = fd[v] /\ tmp \in Inodes
           /\ page[tmp] = v /\ disk[tmp] = v
           /\ \A i \in entries : page[i] < v
<1>1. step[v] = "rename" /\ tmp # Absent
    BY DEF Rename
<1>2. v = issued
    BY <1>1 DEF LockedInv, Serialised, Running
<1>3. tmp \in Inodes
    BY <1>1 DEF LockedInv, FreeInv, TypeOK
<1> QED
    BY <1>1, <1>2, <1>3 DEF LockedInv, InProgress, Unpublished

\* Saves that are serialised, and whose callers wait for them, keep the
\* invariant.
LEMMA LockedStep ==
    ASSUME SharedLock = TRUE, Cancellable = FALSE,
           LockedInv, [Next]_vars
    PROVE  LockedInv'
<1> USE SaveConstants
<1>1. FreeInv'
    BY FreeStep DEF LockedInv
<1>2. TypeOK /\ OwnInodes /\ BirthOrder /\ final \in entries /\ Rest
    BY DEF LockedInv, FreeInv, Rest
<1> SUFFICES Rest'
    BY <1>1 DEF LockedInv, Rest
<1>3. CASE Begin
    <2> USE <1>2, <1>3 DEF Begin, TypeOK, Rest
    <2>1. Serialised'
        BY DEF Serialised, Saves, Running
    <2>2. EntriesSound'
        BY DEF EntriesSound, Saves, Inodes
    <2>3. InProgress'
        BY DEF InProgress, Unpublished, Serialised, Running, EntriesSound, Saves, Inodes
    <2> QED
        BY <2>1, <2>2, <2>3
<1>4. ASSUME NEW v \in Saves, CreateTmp(v)
      PROVE  Rest'
    <2> USE <1>2, <1>4 DEF TypeOK
    <2> DEFINE i == IF tmp = Absent THEN v ELSE tmp
    <2>1. /\ fd' = [fd EXCEPT ![v] = i] /\ tmp' = i
          /\ page' = [page EXCEPT ![i] = Blank]
          /\ step' = [step EXCEPT ![v] = "write"] /\ step[v] = "create"
          /\ UNCHANGED <<issued, awaiting, disk, final, entries, acked>>
        BY DEF CreateTmp
    <2>2. i \in Inodes /\ i \notin entries
        BY <2>1 DEF OwnInodes, EntriesSound, Rest, Saves, Inodes
    <2> HIDE DEF i
    <2>3. Serialised'
        BY <2>1 DEF Serialised, Running, Rest
    <2>4. EntriesSound'
        BY <2>1, <2>2 DEF EntriesSound, Rest, Inodes
    <2>5. \A u \in Saves \ {v} : step[u] \notin Running
        BY <2>1 DEF Serialised, Running, Rest
    <2>6. InProgress'
        BY <2>1, <2>2, <2>5 DEF InProgress, Unpublished, Running, Rest, Inodes
    <2> QED
        BY <2>3, <2>4, <2>6 DEF Rest
<1>5. ASSUME NEW v \in Saves, WriteAll(v)
      PROVE  Rest'
    <2> USE <1>2, <1>5 DEF TypeOK
    <2>1. /\ step[v] = "write" /\ step' = [step EXCEPT ![v] = "sync"]
          /\ UNCHANGED <<issued, fd, awaiting, disk, tmp, final, entries, acked>>
        BY DEF WriteAll
    <2>2. page[fd[v]] = Blank /\ tmp = fd[v] /\ fd[v] \notin entries
        BY <2>1 DEF Rest, InProgress, EntriesSound
    <2>3. page' = [page EXCEPT ![fd[v]] = v]
        BY <2>2 DEF WriteAll, Overlay
    <2>4. Serialised'
        BY <2>1 DEF Serialised, Running, Rest
    <2>5. EntriesSound'
        BY <2>1, <2>2, <2>3 DEF EntriesSound, Rest
    <2>6. \A u \in Saves \ {v} : step[u] \notin Running
        BY <2>1 DEF Serialised, Running, Rest
    <2>7. InProgress'
        BY <2>1, <2>2, <2>3, <2>6 DEF InProgress, Unpublished, Running, Rest
    <2> QED
        BY <2>4, <2>5, <2>7 DEF Rest
<1>6. ASSUME NEW v \in Saves, SyncFile(v)
      PROVE  Rest'
    <2> USE <1>2, <1>6 DEF TypeOK
    <2>1. /\ step[v] = "sync" /\ step' = [step EXCEPT ![v] = "rename"]
          /\ disk' = [disk EXCEPT ![fd[v]] = page[fd[v]]]
          /\ UNCHANGED <<issued, fd, awaiting, page, tmp, final, entries, acked>>
        BY DEF SyncFile
    <2>2. page[fd[v]] = v /\ tmp = fd[v] /\ fd[v] \notin entries
        BY <2>1 DEF Rest, InProgress, EntriesSound
    <2>3. Serialised'
        BY <2>1 DEF Serialised, Running, Rest
    <2>4. EntriesSound'
        BY <2>1, <2>2 DEF EntriesSound, Rest
    <2>5. \A u \in Saves \ {v} : step[u] \notin Running
        BY <2>1 DEF Serialised, Running, Rest
    <2>6. InProgress'
        BY <2>1, <2>2, <2>5 DEF InProgress, Unpublished, Running, Rest
    <2> QED
        BY <2>3, <2>4, <2>6 DEF Rest
<1>7. ASSUME NEW v \in Saves, Rename(v)
      PROVE  Rest'
    <2> USE <1>2, <1>7 DEF TypeOK
    <2>1. /\ v = issued /\ tmp \in Inodes
          /\ page[tmp] = v /\ disk[tmp] = v
          /\ \A i \in entries : page[i] < v
        BY RenamePublishes
    <2>2. /\ step[v] = "rename" /\ step' = [step EXCEPT ![v] = "syncdir"]
          /\ final' = tmp /\ entries' = entries \cup {tmp} /\ tmp' = Absent
          /\ UNCHANGED <<issued, fd, awaiting, page, disk, acked>>
        BY DEF Rename
    <2>3. Serialised'
        BY <2>2 DEF Serialised, Running, Rest
    <2>4. EntriesSound'
      <3>1. tmp' \notin entries'
        <4>1. Absent \notin Inodes
            BY DEF Inodes
        <4> QED
            BY <4>1, <2>1, <2>2
      <3>2. page[final] \in acked..issued
          BY DEF EntriesSound, Rest
      <3>3. v \in acked..issued
          BY <3>2, <2>1
      <3> QED
          BY <3>1, <3>3, <2>1, <2>2 DEF EntriesSound, Rest
    <2>5. \A u \in Saves \ {v} : step[u] \notin Running /\ u \notin awaiting
        BY <2>1, <2>2 DEF Serialised, Running, Rest
    <2>6. InProgress'
        BY <2>1, <2>2, <2>5 DEF InProgress, Unpublished, Running, Rest
    <2> QED
        BY <2>3, <2>4, <2>6 DEF Rest
<1>8. ASSUME NEW v \in Saves, RenameMissing(v)
      PROVE  Rest'
    BY <1>2, <1>8
    DEF RenameMissing, Rest, TypeOK, Serialised, EntriesSound, InProgress, Unpublished, Running
<1>9. ASSUME NEW v \in Saves, SyncDir(v)
      PROVE  Rest'
    <2> USE <1>2, <1>9 DEF TypeOK, SyncDir, Rest
    <2>1. Serialised'
        BY DEF Serialised, Running
    <2>2. EntriesSound'
        BY DEF EntriesSound
    <2>3. \A u \in Saves \ {v} : step[u] \notin Running /\ u \notin awaiting
        BY DEF Serialised, Running
    <2>4. InProgress'
        BY <2>3 DEF InProgress, Unpublished, Running
    <2> QED
        BY <2>1, <2>2, <2>4
<1>10. ASSUME NEW v \in Saves, Fail(v)
      PROVE  Rest'
    <2> USE <1>2, <1>10 DEF TypeOK
    <2>1. /\ step[v] \in Running /\ step' = [step EXCEPT ![v] = "err"]
          /\ page' = page \/ (step[v] = "write" /\ page' = [page EXCEPT ![fd[v]] = Torn])
          /\ UNCHANGED <<issued, fd, awaiting, disk, tmp, final, entries, acked>>
        BY DEF Fail
    <2>2. \A i \in entries : page'[i] = page[i]
        BY <2>1 DEF Rest, InProgress, EntriesSound
    <2>3. Serialised'
        BY <2>1 DEF Serialised, Running, Rest
    <2>4. EntriesSound'
        BY <2>1, <2>2 DEF EntriesSound, Rest
    <2>5. \A u \in Saves \ {v} : step[u] \notin Running /\ u \notin awaiting
        BY <2>1 DEF Serialised, Running, Rest
    <2>6. InProgress'
        BY <2>1, <2>2, <2>5 DEF InProgress, Unpublished, Running, Rest
    <2> QED
        BY <2>3, <2>4, <2>6 DEF Rest
<1>11. ASSUME NEW v \in Saves, Return(v) \/ Cancel(v)
      PROVE  Rest'
    <2> USE <1>2, <1>11 DEF TypeOK
    <2>1. /\ v \in awaiting /\ step[v] \in {"ok", "err"} /\ awaiting' = awaiting \ {v}
          /\ acked' = IF step[v] = "ok" /\ v > acked THEN v ELSE acked
          /\ UNCHANGED <<issued, step, fd, page, disk, tmp, final, entries>>
        BY DEF Return, Cancel
    <2>2. Serialised'
        BY <2>1 DEF Serialised, Running, Rest
    <2>3. EntriesSound'
      <3>1. CASE step[v] = "ok"
        <4>1. entries = {final} /\ page[final] = v
            BY <3>1, <2>1 DEF Rest, InProgress
        <4> QED
            BY <4>1, <2>1 DEF EntriesSound, Rest, Saves
      <3>2. CASE step[v] # "ok"
          BY <3>2, <2>1 DEF EntriesSound, Rest
      <3> QED
          BY <3>1, <3>2
    <2>4. InProgress'
        BY <2>1 DEF InProgress, Unpublished, Rest
    <2> QED
        BY <2>2, <2>3, <2>4 DEF Rest
<1>12. CASE ProcessExit
    BY <1>2, <1>12
    DEF ProcessExit, StopAll, Rest, TypeOK, Serialised, EntriesSound, InProgress,
        Unpublished, Running
<1>13. CASE PowerLoss
    <2> USE <1>2, <1>13 DEF TypeOK
    <2>1. PICK i \in entries, t \in {Absent, tmp, final} :
            /\ t # i /\ final' = i /\ entries' = {i} /\ tmp' = t
            /\ \E c \in Remains(i) : page' = [page EXCEPT ![i] = c]
                                    /\ disk' = [disk EXCEPT ![i] = c]
            /\ step' = StopAll /\ awaiting' = {} /\ UNCHANGED <<issued, fd, acked>>
        BY DEF PowerLoss
    <2>2. Remains(i) = {page[i]} /\ disk[i] = page[i]
        BY DEF Remains, EntriesSound, Rest
    <2>3. page'[i] = page[i] /\ disk'[i] = page[i]
        BY <2>1, <2>2
    <2>4. EntriesSound'
        BY <2>1, <2>3 DEF EntriesSound, Rest
    <2>5. Serialised' /\ InProgress'
        BY <2>1 DEF Serialised, InProgress, StopAll, Running, Unpublished
    <2> QED
        BY <2>4, <2>5 DEF Rest
<1>14. CASE UNCHANGED vars
    BY <1>2, <1>14
    DEF vars, Rest, Serialised, EntriesSound, InProgress, Unpublished
<1> QED
    BY <1>3, <1>4, <1>5, <1>6, <1>7, <1>8, <1>9, <1>10, <1>11, <1>12, <1>13, <1>14
    DEF Next, TaskStep
\* Serialised saves: the inductive invariant holds in every state.
LEMMA LockedInvariance ==
    ASSUME SharedLock = TRUE, Cancellable = FALSE
    PROVE  Spec => []LockedInv
<1>1. LockedInv /\ [Next]_vars => LockedInv'
    BY LockedStep
<1> QED
    BY LockedInit, <1>1, PTL DEF Spec

\* What may survive a power failure is what the cached pages hold.
LEMMA SurvivorsAreSynced ==
    ASSUME LockedInv
    PROVE  \A i \in entries : Remains(i) = {page[i]} /\ page[i] \in acked..issued
BY DEF LockedInv, EntriesSound, Remains

\* The final path holds a complete document at every moment, also after a power
\* failure, for any number of saves.
THEOREM FinalIntactWhenLocked ==
    ASSUME SharedLock = TRUE, Cancellable = FALSE
    PROVE  Spec => []FinalIntact
<1>1. LockedInv => FinalIntact
  <2> SUFFICES ASSUME LockedInv PROVE FinalIntact
      OBVIOUS
  <2>1. final \in entries /\ acked \in Nat /\ issued \in 0..MaxSaves
      BY SaveConstants DEF LockedInv, FreeInv, TypeOK
  <2> QED
      BY <2>1, SurvivorsAreSynced, SaveConstants DEF FinalIntact, Inodes
<1> QED
    BY <1>1, LockedInvariance, PTL

\* A save that returned Ok is never undone in favour of an older version.
THEOREM AckedSurvivesWhenLocked ==
    ASSUME SharedLock = TRUE, Cancellable = FALSE
    PROVE  Spec => []AckedSurvives
<1>1. LockedInv => AckedSurvives
  <2> SUFFICES ASSUME LockedInv PROVE AckedSurvives
      OBVIOUS
  <2>1. acked \in Nat /\ issued \in Nat
      BY SaveConstants DEF LockedInv, FreeInv, TypeOK
  <2> QED
      BY <2>1, SurvivorsAreSynced DEF AckedSurvives
<1> QED
    BY <1>1, LockedInvariance, PTL
-----------------------------------------------------------------------------
(* Serialised saves implement the register of DurableFile. *)

Survivors == UNION {Remains(i) : i \in entries}

LEMMA SurvivorsOfEntries == LockedInv => Survivors = {page[i] : i \in entries}
BY SurvivorsAreSynced DEF Survivors

LEMMA RegisterStep ==
    ASSUME SharedLock = TRUE, Cancellable = FALSE,
           LockedInv, LockedInv', [Next]_vars
    PROVE  [Register!DFNext]_(Register!dfVars)
<1> USE SaveConstants
<1>1. TypeOK /\ final \in entries
    BY DEF LockedInv, FreeInv
<1>2. Survivors = {page[i] : i \in entries} /\ (Survivors = {page[i] : i \in entries})'
    BY SurvivorsOfEntries, PTL
<1> DEFINE Stutter == page'[final'] = page[final] /\ Survivors' = Survivors /\ acked' = acked
<1>3. ASSUME Stutter
      PROVE  UNCHANGED Register!dfVars
    BY <1>3 DEF Register!dfVars, Survivors
<1>4. ASSUME UNCHANGED <<entries, final, acked>>, \A i \in entries : page'[i] = page[i]
      PROVE  Stutter
    BY <1>1, <1>2, <1>4
<1>5. CASE Begin \/ UNCHANGED vars \/ ProcessExit
    BY <1>3, <1>4, <1>5 DEF Begin, vars, ProcessExit
<1>6. ASSUME NEW v \in Saves, CreateTmp(v)
      PROVE  Stutter
    BY <1>1, <1>4, <1>6
    DEF CreateTmp, TypeOK, LockedInv, FreeInv, OwnInodes, EntriesSound, Saves, Inodes
<1>7. ASSUME NEW v \in Saves, WriteAll(v) \/ Fail(v)
      PROVE  Stutter
  <2>1. step[v] = "write" => fd[v] \notin entries
      BY DEF LockedInv, InProgress, EntriesSound
  <2>2. \A i \in entries : page'[i] = page[i]
      BY <2>1, <1>1, <1>7 DEF WriteAll, Fail, TypeOK
  <2> QED
      BY <2>2, <1>4, <1>7 DEF WriteAll, Fail
<1>8. ASSUME NEW v \in Saves, SyncFile(v) \/ RenameMissing(v) \/ Cancel(v)
      PROVE  Stutter
    BY <1>4, <1>8 DEF SyncFile, RenameMissing, Cancel
<1>9. ASSUME NEW v \in Saves, Rename(v)
      PROVE  Register!Replace
  <2>1. /\ tmp \in Inodes /\ page[tmp] = v /\ page[final] < v
        /\ final' = tmp /\ entries' = entries \cup {tmp} /\ page' = page /\ acked' = acked
      BY <1>1, <1>9, RenamePublishes DEF Rename
  <2>2. Survivors' = Survivors \cup {v}
      BY <1>2, <2>1
  <2> QED
      BY <2>1, <2>2, SurvivorsAreSynced, <1>1 DEF Register!Replace, Survivors, Saves, TypeOK
<1>10. ASSUME NEW v \in Saves, SyncDir(v)
      PROVE  Register!Settle
  <2>1. Survivors' = {page[final]}
      BY <1>2, <1>10 DEF SyncDir
  <2> QED
      BY <2>1, <1>10 DEF SyncDir, Register!Settle, Survivors
<1>11. ASSUME NEW v \in Saves, Return(v)
      PROVE  Register!Acknowledge \/ Stutter
  <2>1. CASE step[v] = "ok" /\ v > acked
    <3>1. page[final] = v /\ entries = {final}
        BY <2>1, <1>11 DEF Return, LockedInv, InProgress
    <3>2. Survivors = {page[final]}
        BY <3>1, <1>2
    <3> QED
        BY <2>1, <3>1, <3>2, <1>2, <1>11 DEF Return, Register!Acknowledge, Survivors
  <2>2. CASE ~(step[v] = "ok" /\ v > acked)
      BY <2>2, <1>4, <1>11 DEF Return
  <2> QED
      BY <2>1, <2>2
<1>12. CASE PowerLoss
  <2>1. PICK i \in entries : /\ final' = i /\ entries' = {i} /\ acked' = acked
                            /\ \E c \in Remains(i) : page' = [page EXCEPT ![i] = c]
      BY <1>12 DEF PowerLoss
  <2>2. page'[i] = page[i]
      BY <2>1, <1>1, SurvivorsAreSynced DEF TypeOK
  <2>3. Survivors' = {page[i]} /\ page[i] \in Survivors
      BY <2>1, <2>2, <1>2
  <2> QED
      BY <2>1, <2>2, <2>3 DEF Register!PowerFail, Register!DFNext, Survivors
<1> HIDE DEF Stutter
<1> QED
    BY <1>3, <1>5, <1>6, <1>7, <1>8, <1>9, <1>10, <1>11, <1>12
    DEF Next, TaskStep, Register!DFNext

\* save_bytes_atomic behaves as a register that is replaced as a whole and keeps
\* what it acknowledged, as long as its callers take turns and wait.
THEOREM LockedImplementsRegister ==
    ASSUME SharedLock = TRUE, Cancellable = FALSE
    PROVE  Spec => RegisterSpec
<1>1. Init => Register!DFInit
  <2> SUFFICES ASSUME Init PROVE Register!DFInit
      OBVIOUS
  <2>1. page[0] = 0 /\ Remains(0) = {0}
      BY SaveConstants DEF Init, Remains, Inodes
  <2> QED
      BY <2>1 DEF Init, Register!DFInit
<1>2. LockedInv /\ LockedInv' /\ [Next]_vars => [Register!DFNext]_(Register!dfVars)
    BY RegisterStep
<1> QED
    BY <1>1, <1>2, LockedInvariance, PTL DEF Spec, RegisterSpec, Register!DFSpec
=============================================================================
