----------------------------- MODULE AtomicSave -----------------------------
(***************************************************************************)
(* save_bytes_atomic (storage.rs), the routine behind every JSON file of   *)
(* the controller, down to the system calls of its blocking task:          *)
(* create the temporary file, write, sync, rename over the final path,     *)
(* sync the directory.                                                     *)
(*                                                                         *)
(* Two things about it are easy to miss.  All saves of one path use the    *)
(* same temporary name (path.with_extension("tmp")), and the steps run in  *)
(* spawn_blocking, so they go on when the awaiting future is dropped and   *)
(* the mutex guard it held is released.                                    *)
(*                                                                         *)
(* Saves are numbered in the order they begin.  Inode i is the one that    *)
(* save i would create; inode 0 stands for the file before the first save. *)
(***************************************************************************)
EXTENDS Naturals, FiniteSets

CONSTANTS
    MaxSaves,     \* bound: how many saves are begun
    SharedLock,   \* TRUE: callers hold the store's mutex (storage.rs, auth_store.rs)
                  \* FALSE: they hold none (TokenStore::save_persisted)
    Cancellable,  \* TRUE: a caller's future may be dropped while it awaits
    Absent,       \* no such directory entry
    Blank,        \* content of a file just created or truncated
    Torn          \* content that is no complete JSON document

ASSUME SaveConstants ==
    /\ MaxSaves \in Nat
    /\ SharedLock \in BOOLEAN
    /\ Cancellable \in BOOLEAN
    /\ Absent \notin Nat /\ Blank \notin Nat /\ Torn \notin Nat
    /\ Blank # Torn

VARIABLES
    issued,    \* number of saves begun so far
    step,      \* step[v]: what the blocking task of save v does next
    fd,        \* fd[v]: the inode save v has open
    awaiting,  \* the saves whose caller is still awaiting them
    page,      \* page[i]: content of inode i as any process sees it
    disk,      \* disk[i]: content of inode i on the medium
    tmp,       \* the inode the temporary name leads to, or Absent
    final,     \* the inode the final path leads to
    entries,   \* the inodes the final path may lead to after a power failure
    acked,     \* the newest save that returned Ok
    met        \* history: the saves that had the temporary file open, not yet
               \* renamed, while another save had

vars == <<issued, step, fd, awaiting, page, disk, tmp, final, entries, acked, met>>

Saves  == 1..MaxSaves
Inodes == 0..MaxSaves
Content == Inodes \cup {Blank, Torn}
Running == {"create", "write", "sync", "rename", "syncdir"}
Steps   == Running \cup {"unborn", "ok", "err", "dead"}

TypeOK ==
    /\ issued \in 0..MaxSaves
    /\ step \in [Saves -> Steps]
    /\ fd \in [Saves -> Inodes]
    /\ awaiting \in SUBSET Saves
    /\ page \in [Inodes -> Content]
    /\ disk \in [Inodes -> Content]
    /\ tmp \in Inodes \cup {Absent}
    /\ final \in Inodes
    /\ entries \in SUBSET Inodes
    /\ acked \in 0..MaxSaves
    /\ met \in SUBSET Saves

Init ==
    /\ issued = 0
    /\ step = [v \in Saves |-> "unborn"]
    /\ fd = [v \in Saves |-> 0]
    /\ awaiting = {}
    /\ page = [i \in Inodes |-> IF i = 0 THEN 0 ELSE Blank]
    /\ disk = [i \in Inodes |-> IF i = 0 THEN 0 ELSE Blank]
    /\ tmp = Absent
    /\ final = 0
    /\ entries = {0}
    /\ acked = 0
    /\ met = {}
-----------------------------------------------------------------------------
(* The caller's side. *)

\* A caller serialises its value and starts the blocking task.  With a shared
\* mutex it does so only while no other caller is inside its critical section.
Begin ==
    /\ issued < MaxSaves
    /\ SharedLock => awaiting = {}
    /\ issued' = issued + 1
    /\ step' = [step EXCEPT ![issued + 1] = "create"]
    /\ awaiting' = awaiting \cup {issued + 1}
    /\ UNCHANGED <<fd, page, disk, tmp, final, entries, acked, met>>

\* Mutant: a caller is resumed only when its save went well.
ReturnOnlyOk(v) ==
    /\ v \in awaiting
    /\ step[v] = "ok"
    /\ awaiting' = awaiting \ {v}
    /\ acked' = IF v > acked THEN v ELSE acked
    /\ UNCHANGED <<issued, step, fd, page, disk, tmp, final, entries, met>>

\* The task has ended; the caller sees Ok or Err and drops its guard.
Return(v) ==
    /\ v \in awaiting
    /\ step[v] \in {"ok", "err"}
    /\ awaiting' = awaiting \ {v}
    /\ acked' = IF step[v] = "ok" /\ v > acked THEN v ELSE acked
    /\ UNCHANGED <<issued, step, fd, page, disk, tmp, final, entries, met>>

\* The connection of the caller closes: its future is dropped, and with it
\* the guard.  Nothing stops the blocking task.
Cancel(v) ==
    /\ Cancellable
    /\ v \in awaiting
    /\ awaiting' = awaiting \ {v}
    /\ UNCHANGED <<issued, step, fd, page, disk, tmp, final, entries, acked, met>>
-----------------------------------------------------------------------------
(* The blocking task's system calls, in order. *)

\* The saves between the creation of the temporary file and its rename.
Open == {u \in Saves : step[u] \in {"write", "sync", "rename"}}

\* Mutant: the final file is truncated and written in place.
CreateInPlace(v) ==
    /\ step[v] = "create"
    /\ fd' = [fd EXCEPT ![v] = final]
    /\ page' = [page EXCEPT ![final] = Blank]
    /\ step' = [step EXCEPT ![v] = "write"]
    /\ UNCHANGED <<issued, awaiting, disk, tmp, final, entries, acked, met>>

\* File::create(tmp): a new inode, or the existing one truncated.  A save
\* meets every other one that has created and not renamed yet.
CreateTmp(v) ==
    /\ step[v] = "create"
    /\ LET i == IF tmp = Absent THEN v ELSE tmp IN
       /\ fd' = [fd EXCEPT ![v] = i]
       /\ tmp' = i
       /\ page' = [page EXCEPT ![i] = Blank]
    /\ step' = [step EXCEPT ![v] = "write"]
    /\ met' = IF Open = {} THEN met ELSE met \cup Open \cup {v}
    /\ UNCHANGED <<issued, awaiting, disk, final, entries, acked>>

\* What writing version v from offset 0 makes of a file: the bytes beyond the
\* end of v stay, so a longer file leaves a complete document with a tail.
Overlay(old, v) == IF old \in {Blank, v} THEN {v} ELSE {v, Torn}

\* Mutant: write in place of write_all, a short write goes unnoticed.
WriteSome(v) ==
    /\ step[v] = "write"
    /\ \E c \in {v, Torn} : page' = [page EXCEPT ![fd[v]] = c]
    /\ step' = [step EXCEPT ![v] = "sync"]
    /\ UNCHANGED <<issued, fd, awaiting, disk, tmp, final, entries, acked, met>>

WriteAll(v) ==
    /\ step[v] = "write"
    /\ \E c \in Overlay(page[fd[v]], v) : page' = [page EXCEPT ![fd[v]] = c]
    /\ step' = [step EXCEPT ![v] = "sync"]
    /\ UNCHANGED <<issued, fd, awaiting, disk, tmp, final, entries, acked, met>>

\* Mutant: no sync_all before the rename.
SyncFileSkipped(v) ==
    /\ step[v] = "sync"
    /\ step' = [step EXCEPT ![v] = "rename"]
    /\ UNCHANGED <<issued, fd, awaiting, page, disk, tmp, final, entries, acked, met>>

SyncFile(v) ==
    /\ step[v] = "sync"
    /\ disk' = [disk EXCEPT ![fd[v]] = page[fd[v]]]
    /\ step' = [step EXCEPT ![v] = "rename"]
    /\ UNCHANGED <<issued, fd, awaiting, page, tmp, final, entries, acked, met>>

\* rename moves whatever inode the temporary name leads to now.
Rename(v) ==
    /\ step[v] = "rename"
    /\ tmp # Absent
    /\ final' = tmp
    /\ entries' = entries \cup {tmp}
    /\ tmp' = Absent
    /\ step' = [step EXCEPT ![v] = "syncdir"]
    /\ UNCHANGED <<issued, fd, awaiting, page, disk, acked, met>>

\* Mutant: the rename is tried again until there is something to rename.
RenameRetried(v) ==
    /\ step[v] = "rename"
    /\ tmp = Absent
    /\ UNCHANGED vars

\* Another save has renamed the temporary file away: ENOENT.
RenameMissing(v) ==
    /\ step[v] = "rename"
    /\ tmp = Absent
    /\ step' = [step EXCEPT ![v] = "err"]
    /\ UNCHANGED <<issued, fd, awaiting, page, disk, tmp, final, entries, acked, met>>

\* Mutant: the directory is not synced.
SyncDirSkipped(v) ==
    /\ step[v] = "syncdir"
    /\ step' = [step EXCEPT ![v] = "ok"]
    /\ UNCHANGED <<issued, fd, awaiting, page, disk, tmp, final, entries, acked, met>>

SyncDir(v) ==
    /\ step[v] = "syncdir"
    /\ entries' = {final}
    /\ step' = [step EXCEPT ![v] = "ok"]
    /\ UNCHANGED <<issued, fd, awaiting, page, disk, tmp, final, acked, met>>

\* Any of the calls may fail (`?`); a failed write may have written a part.
\* An error after the rename leaves the new version at the final path.
Fail(v) ==
    /\ step[v] \in Running
    /\ \/ UNCHANGED page
       \/ /\ step[v] = "write"
          /\ page' = [page EXCEPT ![fd[v]] = Torn]
    /\ step' = [step EXCEPT ![v] = "err"]
    /\ UNCHANGED <<issued, fd, awaiting, disk, tmp, final, entries, acked, met>>
-----------------------------------------------------------------------------
(* The process or the machine stops and starts again. *)

StopAll == [v \in Saves |-> IF step[v] \in Running THEN "dead" ELSE step[v]]

\* std::process::exit or a kill: the kernel keeps what was written.
ProcessExit ==
    /\ step' = StopAll
    /\ awaiting' = {}
    /\ UNCHANGED <<issued, fd, page, disk, tmp, final, entries, acked, met>>

\* What the medium may hold of inode i when the power fails.
Remains(i) == IF page[i] = disk[i] THEN {disk[i]} ELSE {disk[i], page[i], Torn}

\* Unsynced directory changes and file contents may or may not have reached
\* the medium.  A leftover temporary file may be there or not.
PowerLoss ==
    \E i \in entries, t \in {Absent, tmp, final} :
      \E c \in Remains(i) :
        /\ t # i
        /\ final' = i
        /\ entries' = {i}
        /\ tmp' = t
        /\ page' = [page EXCEPT ![i] = c]
        /\ disk' = [disk EXCEPT ![i] = c]
        /\ step' = StopAll
        /\ awaiting' = {}
        /\ UNCHANGED <<issued, fd, acked, met>>
-----------------------------------------------------------------------------
TaskStep(v) ==
    \/ CreateTmp(v) \/ WriteAll(v) \/ SyncFile(v)
    \/ Rename(v) \/ RenameMissing(v) \/ SyncDir(v)

Next ==
    \/ Begin
    \/ \E v \in Saves : TaskStep(v) \/ Fail(v) \/ Return(v) \/ Cancel(v)
    \/ ProcessExit
    \/ PowerLoss

Spec == Init /\ [][Next]_vars

\* The blocking pool runs every task it was given, and the runtime polls a
\* future whose task has ended.
Fairness == \A v \in Saves : WF_vars(TaskStep(v)) /\ WF_vars(Return(v))

FairSpec == Spec /\ Fairness
-----------------------------------------------------------------------------
(* Properties. *)

\* A reader of the final path always finds a complete document, and so does
\* one after a power failure at any moment ("overlapping writes corrupting the
\* final file" and "partially written JSON" are what the contract excludes).
FinalIntact ==
    /\ page[final] \in Inodes
    /\ \A i \in entries : Remains(i) \subseteq Inodes

\* Once a save has returned Ok no failure brings back an older version: all
\* that may survive is that save's document or a later one.
AckedSurvives ==
    \A i \in entries : \A c \in Remains(i) : c \in Inodes => c >= acked

\* Overlapping saves harm each other only between the creation of the shared
\* temporary file and its rename.  A save no other one met there renames its
\* own document, whole and synced, however many saves are begun, fail, are
\* abandoned or cut off around it; and as long as no two have met, every
\* reader of the final path finds a complete document, after power failures too.
SoleWriterPublishesItself ==
    /\ \A v \in Saves \ met :
          step[v] = "rename" => tmp = fd[v] /\ Remains(fd[v]) = {v}
    /\ met = {} => FinalIntact

\* Every save ends and its caller is answered, so the store's mutex is always
\* released again.
SavesReturn == \A v \in Saves : v \in awaiting ~> v \notin awaiting

\* The abstract register this file implements when saves are serialised.
Register == INSTANCE DurableFile
              WITH value <- page[final],
                   survivors <- UNION {Remains(i) : i \in entries}

RegisterSpec == Register!DFSpec
=============================================================================
