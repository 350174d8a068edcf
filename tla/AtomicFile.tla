----------------------------- MODULE AtomicFile -----------------------------
(***************************************************************************)
(* atomicfile.Write, system call by system call, for the writers and the   *)
(* readers of one path: the store's own files, the targets consumers read  *)
(* and the observation files all go through it.                            *)
(*                                                                         *)
(* A file is an inode: renaming over the path leaves the one a reader has  *)
(* open alone.  Its content is a row of blocks, each of the datum some     *)
(* writer put there.  The temporary name is random and taken with O_EXCL,  *)
(* so no two writers share one.                                            *)
(***************************************************************************)
EXTENDS Naturals, FiniteSets

CONSTANTS
  Writers,      \* processes that may write the path
  Readers,      \* processes that read it
  Data,         \* what is written; each write has its own mode and owner
  Blocks,       \* blocks of a datum: one system call each
  Files,        \* inodes; one is used again when nothing refers to it
  MaxKills,     \* bound: writers killed
  Nothing       \* no file, no datum

ASSUME AtomicFileAssumption ==
  /\ Blocks \in Nat \ {0}
  /\ MaxKills \in Nat
  /\ Nothing \notin Data \cup Files

VARIABLES
  path,         \* the file the path names
  content,      \* the blocks of each file
  perm,         \* its mode and owner: as created, chmodded, prepared
  temps,        \* temporary files in the directory
  orphans,      \* ... those of killed writers
  writer,       \* a call of Write
  reader        \* a reader, from open to close

vars == <<path, content, perm, temps, orphans, writer, reader>>

Blank == [b \in 1..Blocks |-> Nothing]

Free == [pc |-> "idle", tmp |-> Nothing, data |-> Nothing, next |-> 1, chown |-> FALSE]
Away == [file |-> Nothing, got |-> Blank, next |-> 1]

WriterState ==
  [pc : {"idle", "data", "chmod", "prepare", "rename", "failed"},
   tmp : Files \cup {Nothing}, data : Data \cup {Nothing}, next : 1..(Blocks + 1),
   chown : BOOLEAN]              \* prepare is not nil

ReaderState ==
  [file : Files \cup {Nothing}, got : [1..Blocks -> Data \cup {Nothing}],
   next : 1..(Blocks + 1)]

TypeOK ==
  /\ path \in Files \cup {Nothing}
  /\ content \in [Files -> [1..Blocks -> Data \cup {Nothing}]]
  /\ perm \in [Files -> {"private", "mode", "owner"}]
  /\ temps \in SUBSET Files /\ orphans \in SUBSET Files
  /\ writer \in [Writers -> WriterState]
  /\ reader \in [Readers -> ReaderState]

Init ==
  /\ path = Nothing
  /\ content = [f \in Files |-> Blank]
  /\ perm = [f \in Files |-> "private"]
  /\ temps = {} /\ orphans = {}
  /\ writer = [w \in Writers |-> Free]
  /\ reader = [r \in Readers |-> Away]

-----------------------------------------------------------------------------
At(w, label) == writer[w].pc = label

Goto(w, label) == writer' = [writer EXCEPT ![w].pc = label]

InUse == {path} \cup temps \cup {reader[r].file : r \in Readers}

\* os.CreateTemp: an empty file of mode 0600 that no other process knows.  (When
\* it fails, Write returns and nothing has changed.)
CreateTemp(w) ==
  /\ At(w, "idle")
  /\ \E f \in Files \ InUse, d \in Data, chown \in BOOLEAN :
       /\ content' = [content EXCEPT ![f] = Blank]
       /\ perm' = [perm EXCEPT ![f] = "private"]
       /\ temps' = temps \cup {f}
       /\ writer' = [writer EXCEPT ![w] = [pc |-> "data", tmp |-> f, data |-> d,
                                           next |-> 1, chown |-> chown]]
  /\ UNCHANGED <<path, orphans, reader>>

\* Mutant: the file is written where it is.
WriteBlock_InPlace(w) ==
  LET f == IF path = Nothing THEN writer[w].tmp ELSE path IN
  /\ At(w, "data") /\ writer[w].next <= Blocks
  /\ content' = [content EXCEPT ![f][writer[w].next] = writer[w].data]
  /\ writer' = [writer EXCEPT ![w].next = @ + 1]
  /\ UNCHANGED <<path, perm, temps, orphans, reader>>

WriteBlock(w) ==
  LET f == writer[w].tmp IN
  /\ At(w, "data") /\ writer[w].next <= Blocks
  /\ content' = [content EXCEPT ![f][writer[w].next] = writer[w].data]
  /\ writer' = [writer EXCEPT ![w].next = @ + 1]
  /\ UNCHANGED <<path, perm, temps, orphans, reader>>

CloseTemp(w) ==
  /\ At(w, "data") /\ writer[w].next > Blocks
  /\ Goto(w, "chmod")
  /\ UNCHANGED <<path, content, perm, temps, orphans, reader>>

\* Mutant: the owner is left for after the rename.
Chmod_ThenRename(w) ==
  /\ At(w, "chmod")
  /\ perm' = [perm EXCEPT ![writer[w].tmp] = "mode"]
  /\ Goto(w, "rename")
  /\ UNCHANGED <<path, content, temps, orphans, reader>>

Chmod(w) ==
  /\ At(w, "chmod")
  /\ perm' = [perm EXCEPT ![writer[w].tmp] = IF writer[w].chown THEN "mode" ELSE "owner"]
  /\ Goto(w, IF writer[w].chown THEN "prepare" ELSE "rename")
  /\ UNCHANGED <<path, content, temps, orphans, reader>>

Prepare(w) ==
  /\ At(w, "prepare")
  /\ perm' = [perm EXCEPT ![writer[w].tmp] = "owner"]
  /\ Goto(w, "rename")
  /\ UNCHANGED <<path, content, temps, orphans, reader>>

\* os.Rename; the deferred Remove then finds nothing.
Rename(w) ==
  /\ At(w, "rename")
  /\ path' = writer[w].tmp
  /\ temps' = temps \ {writer[w].tmp}
  /\ writer' = [writer EXCEPT ![w] = Free]
  /\ UNCHANGED <<content, perm, orphans, reader>>

\* Any call after CreateTemp fails.
CallFails(w) ==
  /\ writer[w].pc \in {"data", "chmod", "prepare", "rename"}
  /\ Goto(w, "failed")
  /\ UNCHANGED <<path, content, perm, temps, orphans, reader>>

\* Mutant: the error is returned at once.
RemoveTemp_JustReturn(w) ==
  /\ At(w, "failed")
  /\ writer' = [writer EXCEPT ![w] = Free]
  /\ UNCHANGED <<path, content, perm, temps, orphans, reader>>

\* The deferred os.Remove, before the error is returned.
RemoveTemp(w) ==
  /\ At(w, "failed")
  /\ temps' = temps \ {writer[w].tmp}
  /\ writer' = [writer EXCEPT ![w] = Free]
  /\ UNCHANGED <<path, content, perm, orphans, reader>>

\* The process is killed: deferred calls do not run.
Kill(w) ==
  /\ ~At(w, "idle") /\ Cardinality(orphans) < MaxKills
  /\ orphans' = orphans \cup {writer[w].tmp}
  /\ writer' = [writer EXCEPT ![w] = Free]
  /\ UNCHANGED <<path, content, perm, temps, reader>>

\* destroy removes the file by its name.
Remove ==
  /\ path # Nothing
  /\ path' = Nothing
  /\ UNCHANGED <<content, perm, temps, orphans, writer, reader>>

-----------------------------------------------------------------------------
(* Readers: distribute.one, store.Archive, and the consumers themselves.   *)

Open(r) ==
  /\ reader[r].file = Nothing /\ path # Nothing
  /\ reader' = [reader EXCEPT ![r].file = path]
  /\ UNCHANGED <<path, content, perm, temps, orphans, writer>>

ReadBlock(r) ==
  LET b == reader[r].next IN
  /\ reader[r].file # Nothing /\ b <= Blocks
  /\ reader' = [reader EXCEPT ![r].got[b] = content[reader[r].file][b],
                              ![r].next = b + 1]
  /\ UNCHANGED <<path, content, perm, temps, orphans, writer>>

Close(r) ==
  /\ reader[r].file # Nothing
  /\ reader' = [reader EXCEPT ![r] = Away]
  /\ UNCHANGED <<path, content, perm, temps, orphans, writer>>

Next ==
  \/ \E w \in Writers :
       \/ CreateTemp(w) \/ WriteBlock(w) \/ CloseTemp(w) \/ Chmod(w) \/ Prepare(w)
       \/ Rename(w) \/ CallFails(w) \/ RemoveTemp(w) \/ Kill(w)
  \/ \E r \in Readers : Open(r) \/ ReadBlock(r) \/ Close(r)
  \/ Remove

Spec == Init /\ [][Next]_vars

-----------------------------------------------------------------------------
\* Every block of the file is of one datum, its mode and owner are final.
Finished(f) ==
  /\ perm[f] = "owner"
  /\ \E d \in Data : content[f] = [b \in 1..Blocks |-> d]

\* "a reader (or a watcher) never observes a partial or wrong-permissioned file"
\* (atomicfile.go): whatever the writers do, die or fail at meanwhile, what a
\* reader has read is a part of one finished file.
NeverPartial ==
  \A r \in Readers : reader[r].file # Nothing =>
    /\ Finished(reader[r].file)
    /\ \E d \in Data : \A b \in 1..Blocks : b < reader[r].next => reader[r].got[b] = d

\* A Write that fails takes its temporary file with it: only a killed process
\* leaves one.
OnlyKillsLeaveTemps ==
  temps \ orphans \subseteq {writer[w].tmp : w \in Writers}

\* What keeps that so: a file under construction belongs to one writer and is
\* known to nobody else, a file with a name or a reader is finished for good.
Private ==
  /\ orphans \subseteq temps
  /\ \A w \in Writers : At(w, "idle") => writer[w].tmp = Nothing
  /\ \A w \in Writers : ~At(w, "idle") =>
       /\ writer[w].tmp \in temps \ orphans
       /\ \A v \in Writers \ {w} : writer[w].tmp # writer[v].tmp
  /\ temps \ orphans \subseteq {writer[w].tmp : w \in Writers}

InProgress(w) ==
  /\ ~At(w, "idle") => writer[w].data \in Data
  /\ At(w, "data") =>
       \A b \in 1..Blocks : b < writer[w].next => content[writer[w].tmp][b] = writer[w].data
  /\ writer[w].pc \in {"chmod", "prepare", "rename"} =>
       content[writer[w].tmp] = [b \in 1..Blocks |-> writer[w].data]
  /\ At(w, "rename") => perm[writer[w].tmp] = "owner"

Published(f) == f # Nothing => Finished(f) /\ f \notin temps

AsRead ==
  \A r \in Readers :
    /\ reader[r].file = Nothing => reader[r].next = 1
    /\ reader[r].file # Nothing => \A b \in 1..Blocks :
         b < reader[r].next => reader[r].got[b] = content[reader[r].file][b]

Built ==
  /\ Private /\ AsRead
  /\ \A w \in Writers : InProgress(w)
  /\ Published(path)
  /\ \A r \in Readers : Published(reader[r].file)

\* The path is a register (see AtomicRegister): a write is one step of it.
Datum(f) == IF f = Nothing THEN Nothing ELSE content[f][1]

Register ==
  INSTANCE AtomicRegister WITH
    value  <- Datum(path),
    opened <- [r \in Readers |-> Datum(reader[r].file)]

IsRegister == Register!Spec

\* docs/procedures/recover.md of destroy: "it removes the store contents".
DestroyEmpties ==
  [][(path # Nothing /\ path' = Nothing /\ \A w \in Writers : At(w, "idle"))
       => temps' = {}]_vars
=============================================================================
