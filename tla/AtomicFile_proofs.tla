-------------------------- MODULE AtomicFile_proofs --------------------------
(***************************************************************************)
(* Proofs about atomicfile.Write for any number of writers, readers, data, *)
(* blocks and inodes: no reader sees an unfinished file, and the path is a *)
(* register that each call of Write sets in one step.                      *)
(***************************************************************************)
EXTENDS AtomicFile, TLAPS

\* The actions of one writer.
WriterStep(w) ==
  \/ CreateTemp(w) \/ WriteBlock(w) \/ CloseTemp(w) \/ Chmod(w) \/ Prepare(w)
  \/ Rename(w) \/ CallFails(w) \/ RemoveTemp(w) \/ Kill(w)

-----------------------------------------------------------------------------
(* Type correctness.                                                       *)

LEMMA BlankType == Blank \in [1..Blocks -> Data \cup {Nothing}]
  BY DEF Blank

LEMMA FreeType == Free \in WriterState
  BY AtomicFileAssumption DEF Free, WriterState

LEMMA AwayType == Away \in ReaderState
  BY AtomicFileAssumption, BlankType DEF Away, ReaderState

LEMMA InitType == Init => TypeOK
  BY BlankType, FreeType, AwayType DEF Init, TypeOK

LEMMA WriterTypeStep ==
  ASSUME TypeOK, Private, NEW w \in Writers, WriterStep(w)
  PROVE  TypeOK'
  <1> USE DEF TypeOK, At, Goto
  <1>t. writer[w] \in WriterState
    OBVIOUS
  <1>1. CASE CreateTemp(w)
    <2>1. PICK f \in Files \ InUse, d \in Data, chown \in BOOLEAN :
            /\ content' = [content EXCEPT ![f] = Blank]
            /\ perm' = [perm EXCEPT ![f] = "private"]
            /\ temps' = temps \cup {f}
            /\ writer' = [writer EXCEPT ![w] = [pc |-> "data", tmp |-> f, data |-> d,
                                                next |-> 1, chown |-> chown]]
      BY <1>1 DEF CreateTemp
    <2>2. [pc |-> "data", tmp |-> f, data |-> d, next |-> 1, chown |-> chown] \in WriterState
      BY AtomicFileAssumption DEF WriterState
    <2> QED BY <1>1, <2>1, <2>2, BlankType DEF CreateTemp
  <1>2. CASE WriteBlock(w)
    <2>1. writer[w].tmp \in Files => content[writer[w].tmp] \in [1..Blocks -> Data \cup {Nothing}]
      OBVIOUS
    <2>2. content' \in [Files -> [1..Blocks -> Data \cup {Nothing}]]
      BY <1>2, <1>t, <2>1 DEF WriteBlock, WriterState
    <2>3. writer[w].next + 1 \in 1..(Blocks + 1)
      BY <1>2, <1>t, AtomicFileAssumption DEF WriteBlock, WriterState
    <2>4. [writer[w] EXCEPT !.next = writer[w].next + 1] \in WriterState
      BY <1>t, <2>3 DEF WriterState
    <2> QED BY <1>2, <2>2, <2>4 DEF WriteBlock
  <1>3. ASSUME NEW label \in {"idle", "data", "chmod", "prepare", "rename", "failed"}
        PROVE  [writer[w] EXCEPT !.pc = label] \in WriterState
    BY <1>t DEF WriterState
  <1>4. CASE CloseTemp(w)
    BY <1>3, <1>4 DEF CloseTemp
  <1>5. CASE Chmod(w)
    <2>1. writer' \in [Writers -> WriterState]
      BY <1>3, <1>5 DEF Chmod
    <2> QED BY <1>5, <2>1 DEF Chmod
  <1>6. CASE Prepare(w)
    BY <1>3, <1>6 DEF Prepare
  <1>7. CASE Rename(w)
    BY <1>7, <1>t, FreeType DEF Rename, WriterState
  <1>8. CASE CallFails(w)
    BY <1>3, <1>8 DEF CallFails
  <1>9. CASE RemoveTemp(w)
    BY <1>9, FreeType DEF RemoveTemp
  <1>10. CASE Kill(w)
    BY <1>10, <1>t, FreeType DEF Kill, Private, WriterState
  <1> QED BY <1>1, <1>2, <1>4, <1>5, <1>6, <1>7, <1>8, <1>9, <1>10 DEF WriterStep
LEMMA ReaderTypeStep ==
  ASSUME TypeOK, NEW r \in Readers, Open(r) \/ ReadBlock(r) \/ Close(r)
  PROVE  TypeOK'
  <1> USE DEF TypeOK
  <1>t. reader[r] \in ReaderState
    OBVIOUS
  <1>1. CASE Open(r)
    <2>1. [reader[r] EXCEPT !.file = path] \in ReaderState
      BY <1>t DEF ReaderState
    <2> QED BY <1>1, <2>1 DEF Open
  <1>2. CASE ReadBlock(r)
    <2> DEFINE b == reader[r].next
               x == content[reader[r].file][b]
    <2>1. b \in 1..Blocks /\ b + 1 \in 1..(Blocks + 1)
      BY <1>2, <1>t, AtomicFileAssumption DEF ReadBlock, ReaderState
    <2>2. reader[r].file \in Files
      BY <1>2, <1>t DEF ReadBlock, ReaderState
    <2>3. x \in Data \cup {Nothing}
      BY <2>1, <2>2
    <2>4. [reader[r].got EXCEPT ![b] = x] \in [1..Blocks -> Data \cup {Nothing}]
      BY <1>t, <2>3 DEF ReaderState
    <2>5. [reader[r] EXCEPT !.got = [reader[r].got EXCEPT ![b] = x], !.next = b + 1] \in ReaderState
      BY <1>t, <2>1, <2>4 DEF ReaderState
    <2>6. reader' = [reader EXCEPT ![r] =
              [reader[r] EXCEPT !.got = [reader[r].got EXCEPT ![b] = x], !.next = b + 1]]
      BY <1>2 DEF ReadBlock
    <2>7. reader' \in [Readers -> ReaderState]
      BY <2>5, <2>6
    <2> QED BY <1>2, <2>7 DEF ReadBlock
  <1>3. CASE Close(r)
    BY <1>3, AwayType DEF Close
  <1> QED BY <1>1, <1>2, <1>3

LEMMA TypeStep == TypeOK /\ Private /\ [Next]_vars => TypeOK'
  <1> SUFFICES ASSUME TypeOK, Private, [Next]_vars PROVE TypeOK'
    OBVIOUS
  <1>1. ASSUME NEW w \in Writers, WriterStep(w) PROVE TypeOK'
    BY <1>1, WriterTypeStep
  <1>2. ASSUME NEW r \in Readers, Open(r) \/ ReadBlock(r) \/ Close(r) PROVE TypeOK'
    BY <1>2, ReaderTypeStep
  <1>3. CASE Remove
    BY <1>3 DEF Remove, TypeOK
  <1>4. CASE UNCHANGED vars
    BY <1>4 DEF vars, TypeOK
  <1> QED BY <1>1, <1>2, <1>3, <1>4 DEF Next, WriterStep

-----------------------------------------------------------------------------
(* A file under construction is its writer's alone; one with a name or a   *)
(* reader is finished.                                                     *)

\* Everything that has a name or a reader stays as it is when a step touches
\* one file only, and that one has neither.
LEMMA PublishedKept ==
  ASSUME TypeOK, Built, NEW f \in Files, f # path,
         \A r \in Readers : f # reader[r].file,
         UNCHANGED <<path, reader>>, temps' \subseteq temps \cup {f},
         \A g \in Files \ {f} : content'[g] = content[g] /\ perm'[g] = perm[g]
  PROVE  /\ AsRead'
         /\ Published(path)'
         /\ \A r \in Readers : Published(reader[r].file)'
  <1>1. \A r \in Readers : reader[r].file # Nothing => reader[r].file \in Files \ {f}
    BY DEF TypeOK, ReaderState
  <1>2. path # Nothing => path \in Files \ {f}
    BY DEF TypeOK
  <1>3. AsRead'
    BY <1>1 DEF AsRead, Built
  <1>4. Published(path)'
    BY <1>2 DEF Published, Finished, Built
  <1>5. ASSUME NEW r \in Readers PROVE Published(reader[r].file)'
    BY <1>1 DEF Published, Finished, Built
  <1> QED BY <1>3, <1>4, <1>5

\* The file of a writer that is not idle has neither.
LEMMA TempIsPrivate ==
  ASSUME TypeOK, Built, NEW w \in Writers, ~At(w, "idle")
  PROVE  /\ writer[w].tmp \in Files
         /\ writer[w].tmp \in temps \ orphans
         /\ writer[w].tmp # path
         /\ \A r \in Readers : writer[w].tmp # reader[r].file
         /\ \A v \in Writers \ {w} : ~At(v, "idle") => writer[v].tmp # writer[w].tmp
  <1>1. writer[w].tmp \in temps \ orphans /\ writer[w].tmp \in Files
    BY DEF TypeOK, Built, Private
  <1>2. writer[w].tmp # Nothing
    BY <1>1, AtomicFileAssumption
  <1> QED BY <1>1, <1>2 DEF Built, Private, Published

\* A writer that does not move, and whose file is left alone, is where it was.
LEMMA ProgressKept ==
  ASSUME Built, NEW v \in Writers, writer'[v] = writer[v],
         ~At(v, "idle") => /\ content'[writer[v].tmp] = content[writer[v].tmp]
                           /\ perm'[writer[v].tmp] = perm[writer[v].tmp]
  PROVE  InProgress(v)'
  <1>1. InProgress(v)
    BY DEF Built
  <1>2. CASE At(v, "idle")
    BY <1>2 DEF InProgress, At
  <1>3. CASE ~At(v, "idle")
    <2>1. \A l \in {"idle", "data", "rename"} : At(v, l)' <=> At(v, l)
      BY DEF At
    <2> HIDE DEF At
    <2> QED BY <1>1, <1>3, <2>1 DEF InProgress
  <1> QED BY <1>2, <1>3

LEMMA CreateTempBuilt ==
  ASSUME TypeOK, Built, NEW w \in Writers, CreateTemp(w)
  PROVE  Built'
  <1>1. PICK f \in Files \ InUse, d \in Data, chown \in BOOLEAN :
          /\ content' = [content EXCEPT ![f] = Blank]
          /\ perm' = [perm EXCEPT ![f] = "private"]
          /\ temps' = temps \cup {f}
          /\ writer' = [writer EXCEPT ![w] = [pc |-> "data", tmp |-> f, data |-> d,
                                              next |-> 1, chown |-> chown]]
    BY DEF CreateTemp
  <1>2. UNCHANGED <<path, orphans, reader>>
    BY DEF CreateTemp
  <1>3. f # path /\ f \notin temps /\ \A r \in Readers : f # reader[r].file
    BY DEF InUse
  <1>4. \A g \in Files \ {f} : content'[g] = content[g] /\ perm'[g] = perm[g]
    BY <1>1 DEF TypeOK
  <1>5. \A v \in Writers \ {w} : writer'[v] = writer[v]
    BY <1>1 DEF TypeOK
  <1>6. writer'[w] = [pc |-> "data", tmp |-> f, data |-> d, next |-> 1, chown |-> chown]
    BY <1>1 DEF TypeOK
  <1>7. \A v \in Writers \ {w} : ~At(v, "idle") => writer[v].tmp \in Files \ {f}
    BY <1>3, TempIsPrivate
  <1>8. writer[w].tmp = Nothing /\ Nothing \notin Files
    BY AtomicFileAssumption DEF CreateTemp, Built, Private
  <1>9. Private'
    <2>1. (orphans \subseteq temps)'
      BY <1>1, <1>2 DEF Built, Private
    <2>2. ASSUME NEW v \in Writers, At(v, "idle")' PROVE writer'[v].tmp = Nothing
      BY <1>5, <1>6, <2>2 DEF At, Built, Private
    <2>3. ASSUME NEW v \in Writers, ~At(v, "idle")'
          PROVE  /\ writer'[v].tmp \in temps' \ orphans'
                 /\ \A u \in Writers \ {v} : writer'[v].tmp # writer'[u].tmp
      <3>1. CASE v = w
        <4>1. f \notin orphans
          BY <1>3 DEF Built, Private
        <4>2. ASSUME NEW u \in Writers \ {w} PROVE writer[u].tmp # f
          BY <1>7, <1>8 DEF Built, Private
        <4> QED BY <1>1, <1>2, <1>5, <1>6, <3>1, <4>1, <4>2
      <3>2. CASE v # w
        <4>1. ~At(v, "idle")
          BY <1>5, <2>3, <3>2 DEF At
        <4>2. writer[v].tmp \in temps \ orphans /\ writer[v].tmp # f
          BY <1>7, <3>2, <4>1 DEF Built, Private
        <4>3. \A u \in Writers \ {v} : writer[v].tmp # writer'[u].tmp
          BY <1>5, <1>6, <3>2, <4>1, <4>2 DEF Built, Private
        <4> QED BY <1>1, <1>2, <1>5, <3>2, <4>2, <4>3
      <3> QED BY <3>1, <3>2
    <2>4. temps' \ orphans' \subseteq {writer'[v].tmp : v \in Writers}
      <3>1. ASSUME NEW g \in temps \ orphans
            PROVE  \E v \in Writers : g = writer'[v].tmp
        <4>1. PICK v \in Writers : g = writer[v].tmp
          BY DEF Built, Private
        <4>2. v # w
          BY <1>8, <4>1 DEF TypeOK
        <4> QED BY <1>5, <4>1, <4>2
      <3> QED BY <1>1, <1>2, <1>6, <3>1
    <2> QED BY <2>1, <2>2, <2>3, <2>4 DEF Private, At
  <1>11. ASSUME NEW v \in Writers PROVE InProgress(v)'
    <2>1. CASE v = w
      BY <1>6, <2>1 DEF InProgress, At
    <2>2. CASE v # w
      BY <1>4, <1>5, <1>7, <2>2, ProgressKept
    <2> QED BY <2>1, <2>2
  <1>10. /\ AsRead' /\ Published(path)'
         /\ \A r \in Readers : Published(reader[r].file)'
    BY <1>1, <1>2, <1>3, <1>4, PublishedKept
  <1> QED BY <1>9, <1>10, <1>11 DEF Built

\* A writer goes on with its file.
LEMMA PrivateKept ==
  ASSUME TypeOK, Built, NEW w \in Writers, ~At(w, "idle"), ~At(w, "idle")',
         UNCHANGED <<temps, orphans>>, writer'[w].tmp = writer[w].tmp,
         \A v \in Writers \ {w} : writer'[v] = writer[v]
  PROVE  Private'
  <1>1. \A v \in Writers : writer'[v].tmp = writer[v].tmp /\ (At(v, "idle")' <=> At(v, "idle"))
    BY DEF At
  <1>2. Private
    BY DEF Built
  <1> HIDE DEF At
  <1> QED BY <1>1, <1>2 DEF Private

\* A writer lets go of its file: it has its name now, is removed, or is left.
LEMMA PrivateFreed ==
  ASSUME TypeOK, Built, NEW w \in Writers, ~At(w, "idle"),
         writer' = [writer EXCEPT ![w] = Free],
         \/ temps' = temps \ {writer[w].tmp} /\ UNCHANGED orphans
         \/ orphans' = orphans \cup {writer[w].tmp} /\ UNCHANGED temps
  PROVE  Private'
  <1> DEFINE f == writer[w].tmp
  <1>1. /\ f \in temps \ orphans
        /\ \A v \in Writers \ {w} : ~At(v, "idle") => writer[v].tmp # f
    BY TempIsPrivate
  <1>2. writer'[w].pc = "idle" /\ writer'[w].tmp = Nothing
    BY DEF TypeOK, Free
  <1>3. \A v \in Writers \ {w} : writer'[v] = writer[v]
    BY DEF TypeOK
  <1>4. f # Nothing
    BY <1>1, AtomicFileAssumption DEF TypeOK
  <1>5. orphans' \subseteq temps' /\ temps' \ orphans' = (temps \ orphans) \ {f}
    BY <1>1 DEF Built, Private
  <1>6. ASSUME NEW v \in Writers, At(v, "idle")' PROVE writer'[v].tmp = Nothing
    BY <1>2, <1>3, <1>6 DEF At, Built, Private
  <1>7. ASSUME NEW v \in Writers, ~At(v, "idle")'
        PROVE  /\ writer'[v].tmp \in temps' \ orphans'
               /\ \A u \in Writers \ {v} : writer'[v].tmp # writer'[u].tmp
    <2>1. v # w
      BY <1>2, <1>7 DEF At
    <2>2. ~At(v, "idle")
      BY <1>3, <1>7, <2>1 DEF At
    <2>3. writer[v].tmp \in (temps \ orphans) \ {f}
      BY <1>1, <2>1, <2>2 DEF Built, Private
    <2>4. ASSUME NEW u \in Writers \ {v} PROVE writer[v].tmp # writer'[u].tmp
      <3>1. CASE u = w
        BY <1>2, <2>3, <3>1, AtomicFileAssumption DEF TypeOK
      <3>2. CASE u # w
        BY <1>3, <2>2, <3>2 DEF Built, Private
      <3> QED BY <3>1, <3>2
    <2> QED BY <1>3, <1>5, <2>1, <2>3, <2>4
  <1>8. ASSUME NEW g \in temps' \ orphans' PROVE \E v \in Writers : g = writer'[v].tmp
    <2>1. PICK v \in Writers : g = writer[v].tmp
      BY <1>5 DEF Built, Private
    <2> QED BY <1>3, <1>5, <2>1
  <1> QED BY <1>5, <1>6, <1>7, <1>8 DEF Private, At

\* The steps of a writer that has a file.
LEMMA WriterBuilt ==
  ASSUME TypeOK, Built, NEW w \in Writers, WriterStep(w)
  PROVE  Built'
  <1> DEFINE f == writer[w].tmp
  <1>0. CASE CreateTemp(w)
    BY <1>0, CreateTempBuilt
  <1>1. SUFFICES ASSUME ~CreateTemp(w) PROVE Built'
    BY <1>0
  <1>2. ~At(w, "idle") /\ w \in DOMAIN writer
    BY <1>1 DEF WriterStep, WriteBlock, CloseTemp, Chmod, Prepare, Rename, CallFails,
                RemoveTemp, Kill, At, TypeOK
  <1>3. /\ f \in Files /\ f \in temps \ orphans /\ f # path
        /\ \A r \in Readers : f # reader[r].file
        /\ \A v \in Writers \ {w} : ~At(v, "idle") => writer[v].tmp # f
    BY <1>2, TempIsPrivate
  <1>4. InProgress(w)
    BY DEF Built
  \* What no step of w changes: other writers, other files.
  <1>5. /\ \A v \in Writers \ {w} : writer'[v] = writer[v]
        /\ \A g \in Files \ {f} : content'[g] = content[g] /\ perm'[g] = perm[g]
        /\ UNCHANGED reader
    BY <1>1, <1>2 DEF WriterStep, WriteBlock, CloseTemp, Chmod, Prepare, Rename, CallFails,
                      RemoveTemp, Kill, Goto, TypeOK
  <1>6. \A v \in Writers \ {w} : InProgress(v)'
    <2> SUFFICES ASSUME NEW v \in Writers \ {w} PROVE InProgress(v)'
      OBVIOUS
    <2>1. ~At(v, "idle") => writer[v].tmp \in Files \ {f}
      BY <1>3, TempIsPrivate
    <2> QED BY <1>5, <2>1, ProgressKept
  <1>7. ASSUME UNCHANGED path, temps' \subseteq temps
        PROVE  /\ AsRead' /\ Published(path)'
               /\ \A r \in Readers : Published(reader[r].file)'
    BY <1>3, <1>5, <1>7, PublishedKept
  <1>8. CASE WriteBlock(w)
    <2>1. Private'
      BY <1>2, <1>5, <1>8, PrivateKept DEF WriteBlock, At, TypeOK
    <2>2. InProgress(w)'
      <3> DEFINE n == writer[w].next
      <3>1. /\ writer'[w] = [writer[w] EXCEPT !.next = n + 1]
            /\ content'[f] = [content[f] EXCEPT ![n] = writer[w].data]
        BY <1>2, <1>3, <1>8 DEF WriteBlock, TypeOK
      <3>2. n \in 1..Blocks /\ content[f] \in [1..Blocks -> Data \cup {Nothing}]
        BY <1>3, <1>8, AtomicFileAssumption DEF WriteBlock, TypeOK, WriterState
      <3>3. writer'[w].pc = "data" /\ writer'[w].data = writer[w].data
            /\ writer'[w].tmp = f /\ writer'[w].next = n + 1
        BY <1>8, <3>1 DEF WriteBlock, At, TypeOK, WriterState
      <3>4. ASSUME NEW b \in 1..Blocks, b < n + 1 PROVE content'[f][b] = writer[w].data
        <4>1. CASE b = n
          BY <3>1, <3>2, <4>1
        <4>2. CASE b # n
          <5>1. b < n
            BY <3>2, <3>4, <4>2
          <5>2. content[f][b] = writer[w].data
            BY <1>4, <1>8, <5>1 DEF InProgress, WriteBlock
          <5> QED BY <3>1, <3>2, <4>2, <5>2
        <4> QED BY <4>1, <4>2
      <3> QED BY <1>2, <1>4, <3>3, <3>4 DEF InProgress, At
    <2> QED BY <1>6, <1>7, <1>8, <2>1, <2>2 DEF Built, WriteBlock
  <1>9. CASE CloseTemp(w)
    <2>1. writer'[w] = [writer[w] EXCEPT !.pc = "chmod"]
      BY <1>9 DEF CloseTemp, Goto, TypeOK
    <2>2. writer'[w].pc = "chmod" /\ writer'[w].data = writer[w].data /\ writer'[w].tmp = f
      BY <2>1 DEF TypeOK, WriterState
    <2>3. Private'
      BY <1>2, <1>5, <1>9, <2>2, PrivateKept DEF CloseTemp, At
    <2>4. content[f] = [b \in 1..Blocks |-> writer[w].data]
      <3>1. \A b \in 1..Blocks : content[f][b] = writer[w].data
        BY <1>4, <1>9, AtomicFileAssumption DEF CloseTemp, InProgress, TypeOK, WriterState
      <3> QED BY <1>3, <3>1 DEF TypeOK
    <2>5. InProgress(w)'
      BY <1>2, <1>4, <1>9, <2>2, <2>4 DEF InProgress, At, CloseTemp
    <2> QED BY <1>6, <1>7, <1>9, <2>3, <2>5 DEF Built, CloseTemp
  <1>10. CASE Chmod(w) \/ Prepare(w) \/ CallFails(w)
    <2>1. PICK l \in {"prepare", "rename", "failed"} : writer'[w] = [writer[w] EXCEPT !.pc = l]
      BY <1>10 DEF Chmod, Prepare, CallFails, Goto, TypeOK
    <2>2. writer'[w].pc = l /\ writer'[w].data = writer[w].data /\ writer'[w].tmp = f
      BY <2>1 DEF TypeOK, WriterState
    <2>3. UNCHANGED <<path, content, temps, orphans>>
      BY <1>10 DEF Chmod, Prepare, CallFails
    <2>4. Private'
      BY <1>2, <1>5, <2>2, <2>3, PrivateKept DEF At
    <2>5. InProgress(w)'
      <3>0. CallFails(w) => l = "failed"
        BY <2>2 DEF CallFails, Goto, TypeOK
      <3>1. l # "failed" => At(w, "chmod") \/ At(w, "prepare")
        BY <1>10, <3>0 DEF Chmod, Prepare
      <3>2. l # "failed" => content'[f] = [b \in 1..Blocks |-> writer[w].data]
        BY <1>4, <2>3, <3>1 DEF InProgress, At
      <3>3. l = "rename" => perm'[f] = "owner"
        <4>1. CASE Chmod(w)
          <5>1. ~writer[w].chown \/ l = "prepare"
            BY <2>2, <4>1 DEF Chmod, Goto, TypeOK
          <5> QED BY <1>3, <4>1, <5>1 DEF Chmod, TypeOK
        <4>2. CASE Prepare(w)
          BY <1>3, <4>2 DEF Prepare, TypeOK
        <4> QED BY <1>10, <3>0, <4>1, <4>2
      <3> QED BY <1>2, <1>4, <2>2, <3>2, <3>3 DEF InProgress, At
    <2> QED BY <1>6, <1>7, <2>3, <2>4, <2>5 DEF Built
  <1>11. CASE Rename(w)
    <2>1. /\ path' = f /\ temps' = temps \ {f}
          /\ writer' = [writer EXCEPT ![w] = Free]
          /\ UNCHANGED <<content, perm, orphans, reader>>
      BY <1>11 DEF Rename
    <2>2. Private'
      BY <1>2, <2>1, PrivateFreed
    <2>3. writer'[w].pc = "idle"
      BY <2>1 DEF TypeOK, Free
    <2>4. InProgress(w)'
      BY <2>3 DEF InProgress, At
    <2>5. Finished(f)
      BY <1>2, <1>4, <1>11 DEF InProgress, Finished, Rename, At
    <2>6. Published(path)'
      BY <2>1, <2>5 DEF Published, Finished
    <2>7. AsRead' /\ \A r \in Readers : Published(reader[r].file)'
      BY <2>1 DEF AsRead, Published, Finished, Built
    <2> QED BY <1>6, <2>2, <2>4, <2>6, <2>7 DEF Built
  <1>12. CASE RemoveTemp(w) \/ Kill(w)
    <2>1. /\ writer' = [writer EXCEPT ![w] = Free]
          /\ UNCHANGED <<path, content, perm, reader>>
          /\ \/ temps' = temps \ {f} /\ UNCHANGED orphans
             \/ orphans' = orphans \cup {f} /\ UNCHANGED temps
      BY <1>12 DEF RemoveTemp, Kill
    <2>2. Private'
      BY <1>2, <2>1, PrivateFreed
    <2>3. writer'[w].pc = "idle"
      BY <2>1 DEF TypeOK, Free
    <2>4. InProgress(w)'
      BY <2>3 DEF InProgress, At
    <2> QED BY <1>6, <1>7, <2>1, <2>2, <2>4 DEF Built
  <1> QED BY <1>1, <1>8, <1>9, <1>10, <1>11, <1>12 DEF WriterStep

\* A step that leaves the writers and the files alone.
LEMMA FilesKept ==
  ASSUME Built, UNCHANGED <<content, perm, temps, orphans, writer>>
  PROVE  /\ Private'
         /\ \A w \in Writers : InProgress(w)'
         /\ \A f : Published(f) => Published(f)'
  <1>1. Private'
    BY DEF Built, Private, At
  <1>2. ASSUME NEW w \in Writers PROVE InProgress(w)'
    BY ProgressKept
  <1>3. ASSUME NEW f, Published(f) PROVE Published(f)'
    BY <1>3 DEF Published, Finished
  <1> QED BY <1>1, <1>2, <1>3

LEMMA ReaderBuilt ==
  ASSUME TypeOK, Built, NEW r \in Readers, Open(r) \/ ReadBlock(r) \/ Close(r)
  PROVE  Built'
  <1>1. UNCHANGED <<path, content, perm, temps, orphans, writer>>
    BY DEF Open, ReadBlock, Close
  <1>2. Private' /\ (\A w \in Writers : InProgress(w)') /\ Published(path)'
    BY <1>1, FilesKept DEF Built, Published, Finished
  <1>3. \A q \in Readers \ {r} : reader'[q] = reader[q]
    BY DEF Open, ReadBlock, Close, TypeOK
  <1>4. /\ Published(reader'[r].file)
        /\ reader'[r].file = Nothing => reader'[r].next = 1
        /\ reader'[r].file # Nothing =>
             \A b \in 1..Blocks : b < reader'[r].next =>
               reader'[r].got[b] = content[reader'[r].file][b]
    <2>1. CASE Open(r)
      <3>1. reader'[r].file = path /\ reader'[r].got = reader[r].got
            /\ reader'[r].next = reader[r].next
        BY <2>1 DEF Open, TypeOK, ReaderState
      <3>2. reader[r].next = 1
        BY <2>1 DEF Open, Built, AsRead
      <3> QED BY <3>1, <3>2 DEF Built
    <2>2. CASE ReadBlock(r)
      <3> DEFINE n == reader[r].next
      <3>1. n \in 1..Blocks /\ reader[r] \in ReaderState
        BY <2>2, AtomicFileAssumption DEF ReadBlock, TypeOK, ReaderState
      <3>2. /\ reader'[r].file = reader[r].file
            /\ reader'[r].next = n + 1
            /\ reader'[r].got = [reader[r].got EXCEPT ![n] = content[reader[r].file][n]]
        BY <2>2, <3>1 DEF ReadBlock, TypeOK, ReaderState
      <3>3. ASSUME NEW b \in 1..Blocks, b < n + 1
            PROVE  reader'[r].got[b] = content[reader[r].file][b]
        <4>1. reader[r].got \in [1..Blocks -> Data \cup {Nothing}]
          BY <3>1 DEF ReaderState
        <4>2. CASE b = n
          BY <3>2, <4>1, <4>2
        <4>3. CASE b # n
          <5>1. b < n
            BY <3>1, <3>3, <4>3
          <5>2. reader[r].got[b] = content[reader[r].file][b]
            BY <2>2, <5>1 DEF ReadBlock, Built, AsRead
          <5> QED BY <3>2, <4>1, <4>3, <5>2
        <4> QED BY <4>2, <4>3
      <3> QED BY <2>2, <3>2, <3>3 DEF Built, ReadBlock
    <2>3. CASE Close(r)
      BY <2>3 DEF Close, TypeOK, Away, Published
    <2> QED BY <2>1, <2>2, <2>3
  <1>5. AsRead'
    BY <1>1, <1>3, <1>4 DEF AsRead, Built
  <1>6. \A q \in Readers : Published(reader[q].file)'
    <2>1. ASSUME NEW q \in Readers PROVE Published(reader'[q].file)
      BY <1>3, <1>4 DEF Built
    <2> QED BY <1>1, <2>1 DEF Published, Finished
  <1> QED BY <1>2, <1>5, <1>6 DEF Built

LEMMA BuiltStep == TypeOK /\ Built /\ [Next]_vars => Built'
  <1> SUFFICES ASSUME TypeOK, Built, [Next]_vars PROVE Built'
    OBVIOUS
  <1>1. ASSUME NEW w \in Writers, WriterStep(w) PROVE Built'
    BY <1>1, WriterBuilt
  <1>2. ASSUME NEW r \in Readers, Open(r) \/ ReadBlock(r) \/ Close(r) PROVE Built'
    BY <1>2, ReaderBuilt
  <1>3. CASE Remove
    <2>1. UNCHANGED <<content, perm, temps, orphans, writer, reader>> /\ path' = Nothing
      BY <1>3 DEF Remove
    <2>2. Published(path)'
      BY <2>1 DEF Published
    <2> QED BY <2>1, <2>2, FilesKept DEF Built, AsRead
  <1>4. CASE UNCHANGED vars
    <2>1. UNCHANGED <<content, perm, temps, orphans, writer, reader, path>>
      BY <1>4 DEF vars
    <2> QED BY <2>1, FilesKept DEF Built, AsRead
  <1> QED BY <1>1, <1>2, <1>3, <1>4 DEF Next, WriterStep

LEMMA InitBuilt == Init => Built
  BY DEF Init, Built, Private, AsRead, InProgress, Published, Free, Away, At

LEMMA TypeAndBuilt == Spec => [](TypeOK /\ Built)
  <1>1. Init => TypeOK /\ Built
    BY InitType, InitBuilt
  <1>2. TypeOK /\ Built /\ [Next]_vars => (TypeOK /\ Built)'
    BY TypeStep, BuiltStep DEF Built
  <1> QED BY <1>1, <1>2, PTL DEF Spec

\* Every variable of atomicfile's model keeps its type.
THEOREM FilesTyped == Spec => []TypeOK
  BY TypeAndBuilt, PTL

\* The inductive invariant: a file under construction has one writer and no
\* name, one with a name or a reader is finished.
THEOREM FilesBuiltApart == Spec => []Built
  BY TypeAndBuilt, PTL

\* No reader of a file written by atomicfile.Write ever reads a part of one
\* write and a part of another, or a file whose mode or owner is not final.
THEOREM ReadersSeeWhole == Spec => []NeverPartial
  <1>1. TypeOK /\ Built => NeverPartial
    <2> SUFFICES ASSUME TypeOK, Built, NEW r \in Readers, reader[r].file # Nothing
                 PROVE  /\ Finished(reader[r].file)
                        /\ \E d \in Data : \A b \in 1..Blocks :
                             b < reader[r].next => reader[r].got[b] = d
      BY DEF NeverPartial
    <2>1. Finished(reader[r].file)
      BY DEF Built, Published
    <2>2. PICK d \in Data : content[reader[r].file] = [b \in 1..Blocks |-> d]
      BY <2>1 DEF Finished
    <2>3. \A b \in 1..Blocks : b < reader[r].next => reader[r].got[b] = d
      BY <2>2 DEF Built, AsRead
    <2> QED BY <2>1, <2>3
  <1> QED BY <1>1, TypeAndBuilt, PTL

\* A call of Write that fails removes its temporary file: whatever is left in
\* the directory belongs to a call that is still running, or was killed.
THEOREM FailuresCleanUp == Spec => []OnlyKillsLeaveTemps
  <1>1. Built => OnlyKillsLeaveTemps
    BY DEF Built, Private, OnlyKillsLeaveTemps
  <1> QED BY <1>1, TypeAndBuilt, PTL

-----------------------------------------------------------------------------
(* Refinement.                                                             *)

LEMMA PublishedDatum ==
  ASSUME TypeOK, NEW f \in Files, Finished(f)
  PROVE  Datum(f) \in Data
  <1>1. 1 \in 1..Blocks
    BY AtomicFileAssumption
  <1> QED BY <1>1, AtomicFileAssumption DEF Finished, Datum

\* The files that have a name or a reader keep their datum in every step.
LEMMA DatumKept ==
  ASSUME TypeOK, Built, [Next]_vars, NEW f \in Files \ temps,
         f = path \/ \E r \in Readers : f = reader[r].file
  PROVE  Datum(f)' = Datum(f)
  <1>1. content'[f] = content[f]
    <2>1. ASSUME NEW w \in Writers, CreateTemp(w) PROVE content'[f] = content[f]
      BY <2>1 DEF CreateTemp, InUse, TypeOK
    <2>2. ASSUME NEW w \in Writers, WriteBlock(w) PROVE content'[f] = content[f]
      <3>1. writer[w].tmp \in temps
        BY <2>2, TempIsPrivate DEF WriteBlock, At
      <3> QED BY <2>2, <3>1 DEF WriteBlock, TypeOK
    <2> QED BY <2>1, <2>2 DEF Next, vars, CloseTemp, Chmod, Prepare, Rename, CallFails,
                 RemoveTemp, Kill, Open, ReadBlock, Close, Remove
  <1> QED BY <1>1, AtomicFileAssumption DEF Datum

\* The path written by atomicfile.Write is a register: each call sets it in
\* one step or not at all, and a reader keeps what it opened.
THEOREM PathIsRegister == Spec => IsRegister
  <1>1. Init => Register!Init
    BY DEF Init, Register!Init, Datum, Away
  <1>2. TypeOK /\ Built /\ [Next]_vars
          => [Register!Next]_<<Datum(path), [r \in Readers |-> Datum(reader[r].file)]>>
    <2> SUFFICES ASSUME TypeOK, Built, [Next]_vars
                 PROVE  [Register!Next]_<<Datum(path), [r \in Readers |-> Datum(reader[r].file)]>>
      OBVIOUS
    <2>1. /\ path # Nothing => path \in Files \ temps /\ Finished(path)
          /\ \A r \in Readers : reader[r].file # Nothing =>
               reader[r].file \in Files \ temps /\ Finished(reader[r].file)
      BY DEF TypeOK, ReaderState, Built, Published
    <2>2. Datum(Nothing) = Nothing /\ Datum(Nothing)' = Nothing
      BY DEF Datum
    <2>3. UNCHANGED path => UNCHANGED Datum(path)
      BY <2>1, <2>2, DatumKept
    <2>4. ASSUME NEW r \in Readers, reader'[r].file = reader[r].file
          PROVE  Datum(reader[r].file)' = Datum(reader[r].file)
      BY <2>1, <2>2, <2>4, DatumKept
    <2>5. (\A r \in Readers : reader'[r].file = reader[r].file)
            => UNCHANGED [r \in Readers |-> Datum(reader[r].file)]
      BY <2>4
    <2>6. ASSUME NEW w \in Writers, Rename(w) PROVE Register!Put
      <3>1. path' = writer[w].tmp /\ UNCHANGED <<content, reader>>
        BY <2>6 DEF Rename
      <3>2. writer[w].tmp \in Files /\ Finished(writer[w].tmp)
        BY <2>6, TempIsPrivate DEF Built, InProgress, Finished, Rename, At
      <3>3. Datum(writer[w].tmp) \in Data
        BY <3>2, PublishedDatum
      <3>4. Datum(path)' \in Data
        BY <3>1, <3>3 DEF Datum
      <3> QED BY <2>5, <3>1, <3>4 DEF Register!Put
    <2>7. CASE Remove
      BY <2>2, <2>5, <2>7 DEF Remove, Register!Next, Register!Clear
    <2>8. ASSUME NEW r \in Readers, Open(r)
          PROVE  Register!Open(r)
      <3>1. /\ path # Nothing /\ UNCHANGED <<path, content>>
            /\ reader'[r].file = path
            /\ \A q \in Readers \ {r} : reader'[q].file = reader[q].file
        BY <2>8 DEF Open, TypeOK, ReaderState
      <3>2. Datum(path) # Nothing
        BY <2>1, <3>1, PublishedDatum, AtomicFileAssumption
      <3>3. \A q \in Readers \ {r} : Datum(reader[q].file)' = Datum(reader[q].file)
        BY <2>4, <3>1
      <3>4. Datum(reader[r].file)' = Datum(path)
        BY <2>3, <3>1 DEF Datum
      <3>5. UNCHANGED Datum(path)
        BY <2>3, <3>1
      <3> QED BY <3>2, <3>3, <3>4, <3>5 DEF Register!Open
    <2>9. ASSUME NEW r \in Readers, Close(r)
          PROVE  Register!Close(r)
      <3>1. /\ UNCHANGED path
            /\ reader'[r].file = Nothing
            /\ \A q \in Readers \ {r} : reader'[q].file = reader[q].file
        BY <2>9 DEF Close, TypeOK, Away
      <3>2. \A q \in Readers \ {r} : Datum(reader[q].file)' = Datum(reader[q].file)
        BY <2>4, <3>1
      <3>3. Datum(reader[r].file)' = Nothing
        BY <2>2, <3>1 DEF Datum
      <3> QED BY <2>3, <3>1, <3>2, <3>3 DEF Register!Close
    <2>10. ASSUME NEW r \in Readers, ReadBlock(r)
           PROVE  UNCHANGED path /\ \A q \in Readers : reader'[q].file = reader[q].file
      BY <2>10 DEF ReadBlock, TypeOK, ReaderState
    <2>11. ASSUME NEW w \in Writers, WriterStep(w), ~Rename(w)
           PROVE  UNCHANGED path /\ UNCHANGED reader
      BY <2>11 DEF WriterStep, CreateTemp, WriteBlock, CloseTemp, Chmod, Prepare,
                   CallFails, RemoveTemp, Kill
    <2>12. CASE UNCHANGED vars
      BY <2>3, <2>5, <2>12 DEF vars
    <2> QED BY <2>3, <2>5, <2>6, <2>7, <2>8, <2>9, <2>10, <2>11, <2>12
            DEF Next, WriterStep, Register!Next
  <1> QED BY <1>1, <1>2, TypeAndBuilt, PTL DEF Spec, IsRegister, Register!Spec
=============================================================================
